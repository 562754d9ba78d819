------------------------------- MODULE TextCodec -------------------------------
(***************************************************************************)
(* The tokenizer (crates/hologram-ai-tokenizer): a tokenizer file becomes  *)
(* a configuration (native.rs, sentencepiece.rs), a text becomes token ids *)
(* one merge, one lattice position or one match at a time (bpe.rs,         *)
(* unigram.rs, wordpiece.rs), and ids become text again.                   *)
(*                                                                         *)
(* A text is a sequence of characters: letters, "sp", the three-byte "x"   *)
(* and "mark" (U+2581), of bytes L C C and U C C as in StreamText.  A      *)
(* piece of a vocabulary is the sequence of its characters, the name of a  *)
(* special token is one character, and the alphabet of byte-level pieces   *)
(* is the bytes.  The wire format, JSON and the regex engine are left out: *)
(* a pattern that compiles splits before each space.                       *)
(***************************************************************************)
EXTENDS StreamText

CONSTANTS TokenizerFiles,  \* the files a model may ship
          Texts            \* the texts encoded

ASSUME TextsAssumption == Texts \subseteq Seq({"a", "b", "sp", "x", "mark"})

VARIABLES source,   \* the file
          codec,    \* TokenizerConfig, or NoCodec
          typed,    \* the text
          words,    \* pre-tokens yet to be encoded
          pieces,   \* the word in hand: BPE pieces, Unigram bytes, or characters to match
          inner,    \* WordPiece: the word is past its first piece
          lattice,  \* Unigram: best score, start and id per byte position
          cursor,   \* Unigram: the position to relax, or walked back to
          path,     \* Unigram: the ids walked back over
          encoded,  \* ids so far
          doing     \* "load", "refused", "ready", "words", "word", "back" or "encoded"

codec_vars == <<source, codec, typed, words, pieces, inner, lattice, cursor, path, encoded, doing>>

NoCodec == [algorithm |-> "none"]
NoId == -1
\* No tokenizer_config.json, or the tokenizer came as bytes.
NoSibling == [eos |-> <<>>, bos |-> <<>>, add_bos |-> "unset"]
\* `eos_id: -1` of a ModelProto: outside any vocabulary.
NoEos == -2

-----------------------------------------------------------------------------
(* Vocabularies.                                                           *)

Wide == [x |-> <<"L", "C", "C">>, mark |-> <<"U", "C", "C">>]
Utf8(chars) ==
  FlattenSeq([i \in DOMAIN chars |-> IF chars[i] \in DOMAIN Wide THEN Wide[chars[i]] ELSE <<chars[i]>>])

\* <0xNN>, one name per byte.
BytePiece == [a |-> "<0x61>", b |-> "<0x62>", sp |-> "<0x20>",
              L |-> "<0xE4>", U |-> "<0xE2>", C |-> "<0x80>"]
parse_byte_fallback(p) == {byte \in DOMAIN BytePiece : p = <<BytePiece[byte]>>}

\* A text listed twice is its last id.
str_to_id(vocab, p) == LET listed == {i \in DOMAIN vocab : vocab[i] = p}
                       IN IF listed = {} THEN NoId ELSE Max(listed) - 1
Known(vocab, p) == str_to_id(vocab, p) # NoId

\* Ids nobody names are empty pieces.
from_vocab_map(listed) ==
  [i \in 1 .. Max({p[2] : p \in listed} \cup {0}) + 1 |->
     IF \E p \in listed : p[2] = i - 1 THEN (CHOOSE p \in listed : p[2] = i - 1)[1] ELSE <<>>]

-----------------------------------------------------------------------------
(* tokenizer.model.                                                        *)

\* Fault: pairs are ranked in the order of the file.
InFileOrder(f, a, b) == a[1] < b[1] \/ (a[1] = b[1] /\ a[2] < b[2])

\* Candidates <<piece, split>> by falling score, then piece, then split.
RanksBefore(f, a, b) ==
  LET score(c) == f.pieces[c[1]].score
  IN score(a) > score(b) \/ (score(a) = score(b) /\ InFileOrder(f, a, b))

NormalPieces(f) == {f.pieces[i].chars : i \in {j \in DOMAIN f.pieces : f.pieces[j].type = "normal"}}

\* The pairs with their ranks.
derive_bpe_merges(f) ==
  LET half(c) == LET p == f.pieces[c[1]].chars
                 IN <<SubSeq(p, 1, c[2]), SubSeq(p, c[2] + 1, Len(p))>>
      splits == UNION {{<<i, k>> : k \in 1 .. Len(f.pieces[i].chars) - 1} :
                         i \in {j \in DOMAIN f.pieces : f.pieces[j].type = "normal"}}
      candidates == {c \in splits : \A side \in {1, 2} : half(c)[side] \in NormalPieces(f)}
      rank(c) == Cardinality({d \in candidates : RanksBefore(f, d, c)})
  IN {[pair |-> half(c), rank |-> rank(c)] : c \in candidates}

\* An id past the pieces is refused, a negative one is none.
OutOfRange(f) == \E id \in {f.unk, f.bos, f.eos} : id >= Len(f.pieces)

RefusedModel(f) == \/ f.charsmap \/ OutOfRange(f) \/ f.pieces = <<>>
                   \/ f.kind \notin {"BPE", "Unigram"}

config_from_model_proto(f) ==
  [algorithm |-> f.kind,
   vocab |-> [i \in DOMAIN f.pieces |-> f.pieces[i].chars],
   scores |-> [i \in DOMAIN f.pieces |-> f.pieces[i].score],
   merges |-> IF f.kind = "BPE" THEN derive_bpe_merges(f) ELSE {},
   bos |-> IF f.bos < 0 THEN NoId ELSE f.bos,
   eos |-> IF f.eos < 0 THEN NoEos ELSE f.eos,
   steps |-> (IF f.collapse THEN {"RemoveExtraWhitespace"} ELSE {})
               \cup (IF f.prefix /\ ~f.escape THEN {"PrependSpace"} ELSE {}),
   pre |-> IF f.escape THEN "Metaspace" ELSE "None",
   prepend |-> f.escape /\ f.prefix,
   regex |-> "none",
   byte_fallback |-> f.fallback,
   add_bos |-> f.bos >= 0]

-----------------------------------------------------------------------------
(* tokenizer.json.                                                         *)

\* parse_special_tokens: the last added token of a name, and its default.
AddedId(f, name, default) ==
  LET named == {n \in DOMAIN f.added : f.added[n][1] = name}
  IN IF named = {} THEN default ELSE f.added[Max(named)][2]
DefaultEos == 2

\* Only a BPE file's added tokens join its vocabulary, and none replaces a
\* token the vocabulary lists.
JsonVocab(f) ==
  LET listed == {<<f.vocab[i], i - 1>> : i \in DOMAIN f.vocab}
      fresh == {n \in DOMAIN f.added : f.kind = "BPE" /\ f.added[n][1] \notin ToSet(f.vocab)}
  IN IF f.kind = "Unigram" THEN f.vocab
     ELSE from_vocab_map(listed \cup {f.added[n] : n \in fresh})

from_json(f) ==
  [algorithm |-> f.kind,
   vocab |-> JsonVocab(f),
   scores |-> f.scores,
   merges |-> {[pair |-> f.merges[n], rank |-> n] : n \in DOMAIN f.merges},
   bos |-> AddedId(f, <<"<s>">>, NoId),
   eos |-> AddedId(f, <<"</s>">>, DefaultEos),
   steps |-> {},
   pre |-> f.pre,
   prepend |-> f.prepend,
   regex |-> f.regex,
   byte_fallback |-> f.fallback /\ f.kind # "WordPiece",
   cap |-> f.cap,
   add_bos |-> f.post /\ f.kind # "WordPiece"]

\* resolve_special_tokens_from_config: a token that the file next to it names
\* and the vocabulary lists is taken; one it does not name leaves the id.
WithSibling(c, sibling) ==
  LET taken_id(name, id) == IF name # <<>> /\ Known(c.vocab, name) THEN str_to_id(c.vocab, name) ELSE id
  IN IF sibling = NoSibling THEN c
     ELSE [c EXCEPT !.eos = taken_id(sibling.eos, @), !.bos = taken_id(sibling.bos, @),
                    !.add_bos = IF sibling.add_bos = "unset" THEN @ ELSE sibling.add_bos = "yes"]

\* from_tokenizer_json_bytes: the format is sniffed, never taken from a name.
LoadRefused(f) == CASE f.format = "json" -> f.kind \notin {"BPE", "Unigram", "WordPiece"}
                    [] f.format = "model" -> RefusedModel(f)
                    [] OTHER -> TRUE

\* A file that is read.  A merge joins two pieces to a piece and leaves bytes
\* alone; a dummy prefix comes with a Metaspace; a Unigram that lists bytes
\* declares byte fallback, as the trainers write them.
NamesNoByte(p) == parse_byte_fallback(p) = {}
WellFormedModel(f) ==
  /\ f.pieces \in Seq([chars : Seq(STRING), score : Int, type : STRING])
  /\ {f.bos, f.eos} \subseteq Int
  /\ {f.prefix, f.collapse, f.escape, f.fallback} \subseteq BOOLEAN
  /\ \A p \in NormalPieces(f) : NamesNoByte(p)
  /\ f.kind = "Unigram" /\ ~f.fallback => \A i \in DOMAIN f.pieces : NamesNoByte(f.pieces[i].chars)
WellFormedJson(f) ==
  /\ f.vocab \in Seq(Seq(STRING)) /\ f.added \in Seq(Seq(STRING) \X Nat)
  /\ f.merges \in Seq(Seq(STRING) \X Seq(STRING))
  /\ {f.prepend, f.fallback, f.post} \subseteq BOOLEAN /\ f.cap \in Nat
  /\ f.prepend => f.pre = "Metaspace"
  /\ \A n \in DOMAIN f.merges :
       LET left == f.merges[n][1]
           right == f.merges[n][2]
       IN /\ left # <<>> /\ right # <<>> /\ Known(JsonVocab(f), left \o right)
          /\ f.fallback => NamesNoByte(left) /\ NamesNoByte(right)
  /\ f.kind = "Unigram" /\ ~f.fallback => \A i \in DOMAIN f.vocab : NamesNoByte(f.vocab[i])
ASSUME FilesAssumption ==
  \A f \in TokenizerFiles :
    ~LoadRefused(f) => IF f.format = "model" THEN WellFormedModel(f) ELSE WellFormedJson(f)

LoadCodec ==
  /\ doing = "load"
  /\ IF LoadRefused(source) THEN doing' = "refused" /\ UNCHANGED codec
     ELSE /\ doing' = "ready"
          /\ codec' = WithSibling(IF source.format = "model" THEN config_from_model_proto(source)
                               ELSE from_json(source), source.sibling)
  /\ UNCHANGED <<source, typed, words, pieces, inner, lattice, cursor, path, encoded>>

-----------------------------------------------------------------------------
(* Normalization and pre-tokens.                                           *)

Keeping(text, Keeps(_)) ==
  FlattenSeq([i \in DOMAIN text |-> IF Keeps(i) THEN <<text[i]>> ELSE <<>>])
Omitting(s, item) == Keeping(s, LAMBDA i : s[i] # item)

\* RemoveExtraWhitespace: the first space of each inner run stays.
Collapsed(text) ==
  Keeping(text, LAMBDA i : \/ text[i] # "sp"
                        \/ /\ i > 1 /\ text[i - 1] # "sp"
                           /\ \E j \in i .. Len(text) : text[j] # "sp")

\* Whitespace goes first, in the one list of steps that has both.
normalize(c, text) ==
  LET kept == IF "RemoveExtraWhitespace" \in c.steps THEN Collapsed(text) ELSE text
  IN IF "PrependSpace" \in c.steps THEN <<"sp">> \o kept ELSE kept

Marked(c, text) ==
  (IF c.prepend THEN <<"mark">> ELSE <<>>)
    \o [i \in DOMAIN text |-> IF text[i] = "sp" THEN "mark" ELSE text[i]]

SplitBefore(text, ch) ==
  LET starts == Keeping([i \in DOMAIN text |-> i], LAMBDA i : i = 1 \/ text[i] = ch)
  IN [k \in DOMAIN starts |->
        SubSeq(text, starts[k], IF k = Len(starts) THEN Len(text) ELSE starts[k + 1] - 1)]

\* A pattern that does not compile is dropped: the text is one fragment.
split_fragments(c, text) == IF c.regex = "ok" THEN SplitBefore(text, "sp") ELSE <<text>>

pre_tokenize(c, text) ==
  IF text = <<>> THEN <<>>
  ELSE CASE c.pre = "Metaspace" -> SplitBefore(Marked(c, text), "mark")
         [] c.pre = "Regex" -> split_fragments(c, text)
         [] c.pre = "ByteLevel" -> LET fragments == split_fragments(c, text)
                                   IN [k \in DOMAIN fragments |-> Utf8(fragments[k])]
         [] OTHER -> <<text>>

\* What encode_raw hands to the encoder: a Unigram model takes the text whole.
WordsOf(c, text) ==
  CASE c.algorithm = "BPE" -> pre_tokenize(c, text)
    [] c.algorithm = "Unigram" -> <<IF c.pre = "Metaspace" THEN Marked(c, text) ELSE text>>
    [] OTHER -> LET parts == SplitBefore(text, "sp")
                IN Omitting([k \in DOMAIN parts |-> Omitting(parts[k], "sp")], <<>>)

Encode ==
  /\ doing = "ready"
  /\ \E text \in Texts : typed' = text /\ words' = WordsOf(codec, normalize(codec, text))
  /\ encoded' = IF codec.add_bos /\ codec.bos # NoId THEN <<codec.bos>> ELSE <<>>
  /\ doing' = "words"
  /\ UNCHANGED <<source, codec, pieces, inner, lattice, cursor, path>>

\* The ids of a word join the encoding and the next word is due.
EmitIds(ids) == /\ encoded' = encoded \o ids
             /\ pieces' = <<>>
             /\ doing' = "words"

AllEncoded == /\ doing = "words" /\ words = <<>>
              /\ doing' = "encoded"
              /\ UNCHANGED <<source, codec, typed, words, pieces, inner, lattice, cursor, path, encoded>>

-----------------------------------------------------------------------------
(* BPE.                                                                    *)

\* A character the vocabulary lacks is its bytes, or itself.
Initial(c, ch) ==
  IF ~Known(c.vocab, <<ch>>) /\ c.byte_fallback
  THEN LET bytes == Utf8(<<ch>>) IN [k \in DOMAIN bytes |-> <<BytePiece[bytes[k]]>>]
  ELSE <<<<ch>>>>

TakeBpeWord ==
  /\ doing = "words" /\ words # <<>> /\ codec.algorithm = "BPE"
  /\ pieces' = FlattenSeq([i \in DOMAIN Head(words) |-> Initial(codec, Head(words)[i])])
  /\ words' = Tail(words)
  /\ doing' = "word"
  /\ UNCHANGED <<source, codec, typed, inner, lattice, cursor, path, encoded>>

\* merge_ranks: a pair listed twice has its last rank.
Ranks(l, r) == {m.rank : m \in {m \in codec.merges : m.pair = <<l, r>>}}
Mergeable == {i \in 1 .. Len(pieces) - 1 : Ranks(pieces[i], pieces[i + 1]) # {}}
RankAt(i) == Max(Ranks(pieces[i], pieces[i + 1]))

\* The pair of lowest rank, the leftmost of its occurrences.
Merge ==
  /\ doing = "word" /\ codec.algorithm = "BPE" /\ Mergeable # {}
  /\ LET best == CHOOSE i \in Mergeable :
                    \A j \in Mergeable : RankAt(i) < RankAt(j) \/ (RankAt(i) = RankAt(j) /\ i <= j)
     IN pieces' = SubSeq(pieces, 1, best - 1) \o <<pieces[best] \o pieces[best + 1]>>
                    \o SubSeq(pieces, best + 2, Len(pieces))
  /\ UNCHANGED <<source, codec, typed, words, inner, lattice, cursor, path, encoded, doing>>

IdOrUnknown(vocab, p) == IF Known(vocab, p) THEN str_to_id(vocab, p)
                         ELSE IF Known(vocab, <<"<unk>">>) THEN str_to_id(vocab, <<"<unk>">>)
                         ELSE 0

EmitMerged == /\ doing = "word" /\ codec.algorithm = "BPE" /\ Mergeable = {}
              /\ EmitIds([i \in DOMAIN pieces |-> IdOrUnknown(codec.vocab, pieces[i])])
              /\ UNCHANGED <<source, codec, typed, words, inner, lattice, cursor, path>>

-----------------------------------------------------------------------------
(* Unigram.                                                                *)

NoPath == [score |-> 0, start |-> 0, id |-> NoId]
Reached(pos) == pos = 0 \/ lattice[pos].id # NoId

TakeUnigramWord ==
  /\ doing = "words" /\ words # <<>> /\ codec.algorithm = "Unigram"
  /\ pieces' = Utf8(Head(words))
  /\ words' = Tail(words)
  /\ lattice' = [pos \in 0 .. Len(Utf8(Head(words))) |-> NoPath]
  /\ cursor' = 0 /\ path' = <<>>
  /\ doing' = IF pieces' = <<>> THEN "back" ELSE "word"
  /\ UNCHANGED <<source, codec, typed, inner, encoded>>

\* The piece spelled by bytes first + 1 .. last, which may cut a character.
PieceBetween(first, last) ==
  LET listed == {i \in DOMAIN codec.vocab : codec.vocab[i] # <<>>
                                             /\ Utf8(codec.vocab[i]) = SubSeq(pieces, first + 1, last)}
  IN IF listed = {} THEN NoId ELSE Max(listed) - 1

DefaultScore == -10
ByteScore == -100
ScoreOf(c, id) == IF id < Len(c.scores) THEN c.scores[id + 1] ELSE DefaultScore

Better(old, total, start, id) ==
  IF id # NoId /\ (old.id = NoId \/ total > old.score)
  THEN [score |-> total, start |-> start, id |-> id] ELSE old

\* Every piece that starts here; then, where nothing ends one byte on, that
\* byte, whether or not the tokenizer declares byte fallback.
Relax ==
  /\ doing = "word" /\ codec.algorithm = "Unigram"
  /\ LET here == lattice[cursor].score
         grown == [pos \in DOMAIN lattice |->
                     IF pos <= cursor THEN lattice[pos]
                     ELSE LET id == PieceBetween(cursor, pos)
                          IN Better(lattice[pos], here + ScoreOf(codec, id), cursor, id)]
         byte == str_to_id(codec.vocab, <<BytePiece[pieces[cursor + 1]]>>)
     IN lattice' = IF ~Reached(cursor) THEN lattice
                   ELSE IF grown[cursor + 1].id # NoId THEN grown
                   ELSE [grown EXCEPT ![cursor + 1] = Better(@, here + ByteScore, cursor, byte)]
  /\ cursor' = cursor + 1
  /\ doing' = IF cursor' = Len(pieces) THEN "back" ELSE "word"
  /\ UNCHANGED <<source, codec, typed, words, pieces, inner, path, encoded>>

\* From the end to where the piece that ends there begins.
Backtrack ==
  /\ doing = "back" /\ cursor # 0 /\ Reached(cursor)
  /\ path' = <<lattice[cursor].id>> \o path
  /\ cursor' = lattice[cursor].start
  /\ UNCHANGED <<source, codec, typed, words, pieces, inner, lattice, encoded, doing>>

\* A position nothing reaches ends the walk with what it has.
EmitPath == /\ doing = "back" /\ (cursor = 0 \/ ~Reached(cursor))
            /\ EmitIds(path)
            /\ UNCHANGED <<source, codec, typed, words, inner, lattice, cursor, path>>

-----------------------------------------------------------------------------
(* WordPiece.                                                              *)

UnknownIds == IF Known(codec.vocab, <<"[UNK]">>) THEN <<str_to_id(codec.vocab, <<"[UNK]">>)>> ELSE <<>>

TakeWordPieceWord ==
  /\ doing = "words" /\ words # <<>> /\ codec.algorithm = "WordPiece"
  /\ words' = Tail(words)
  /\ inner' = FALSE
  /\ IF Len(Head(words)) > codec.cap
     THEN EmitIds(UnknownIds)
     ELSE pieces' = Head(words) /\ doing' = "word" /\ UNCHANGED encoded
  /\ UNCHANGED <<source, codec, typed, lattice, cursor, path>>

\* The longest piece at the front, continuing ones after "##"; a character
\* without one is unknown.
Continued(p) == IF inner THEN <<"##">> \o p ELSE p
Fitting == {k \in DOMAIN pieces : Known(codec.vocab, Continued(SubSeq(pieces, 1, k)))}

Match ==
  /\ doing = "word" /\ codec.algorithm = "WordPiece"
  /\ LET took == Max(Fitting \cup {0})
         rest == SubSeq(pieces, Max({took, 1}) + 1, Len(pieces))
     IN /\ encoded' = encoded \o (IF took = 0 THEN UnknownIds
                                  ELSE <<str_to_id(codec.vocab, Continued(SubSeq(pieces, 1, took)))>>)
        /\ pieces' = rest
        /\ inner' = TRUE
        /\ doing' = IF rest = <<>> THEN "words" ELSE "word"
  /\ UNCHANGED <<source, codec, typed, words, lattice, cursor, path>>

-----------------------------------------------------------------------------
(* Decoding.                                                               *)

Filtered(c, ids) == Omitting(Omitting(ids, c.bos), c.eos)

\* Fault: byte pieces are spelled out.
SpelledBytes(c, p) == Utf8(p)

\* A byte piece is its byte, any other its text.
PieceBytes(c, p) ==
  IF c.byte_fallback /\ parse_byte_fallback(p) # {} THEN SetToSeq(parse_byte_fallback(p)) ELSE Utf8(p)

BytesOf(c, ids) ==
  FlattenSeq([k \in DOMAIN ids |->
    IF ids[k] \in 0 .. Len(c.vocab) - 1 THEN PieceBytes(c, c.vocab[ids[k] + 1]) ELSE <<>>])

StripSpace(text) == IF text # <<>> /\ Head(text) = "sp" THEN Tail(text) ELSE text

\* decode: a Metaspace BPE always loses one leading space, a Unigram only the
\* one its encoder put there.
Decoded(c, ids) ==
  LET text == Lossy(BytesOf(c, Filtered(c, ids)))
  IN IF c.algorithm = "WordPiece" \/ c.pre = "ByteLevel" THEN text
     ELSE CASE c.algorithm = "BPE" -> StripSpace(Spaced(text))
            [] c.algorithm # "BPE" /\ c.pre = "Metaspace" ->
                 IF c.prepend THEN StripSpace(Spaced(text)) ELSE Spaced(text)
            [] OTHER -> IF "PrependSpace" \in c.steps THEN StripSpace(text) ELSE text

-----------------------------------------------------------------------------

CodecInit(files) ==
  /\ source \in files
  /\ codec = NoCodec
  /\ typed = <<>> /\ words = <<>> /\ pieces = <<>> /\ encoded = <<>>
  /\ inner = FALSE
  /\ lattice = <<>> /\ cursor = 0 /\ path = <<>>
  /\ doing = "load"

CodecNext == \/ LoadCodec \/ Encode \/ AllEncoded
             \/ TakeBpeWord \/ Merge \/ EmitMerged
             \/ TakeUnigramWord \/ Relax \/ Backtrack \/ EmitPath
             \/ TakeWordPieceWord \/ Match

-----------------------------------------------------------------------------
(* Properties.                                                             *)

Spelled == normalize([codec EXCEPT !.steps = @ \ {"PrependSpace"}], typed)
Content == IF encoded # <<>> /\ codec.add_bos /\ codec.bos # NoId THEN Tail(encoded) ELSE encoded

\* Every character of a text has a piece, or bytes the decoder knows.
Bytewise(c, ch) == \A byte \in ToSet(Utf8(<<ch>>)) : Known(c.vocab, <<BytePiece[byte]>>)
Covers(c, text) ==
  \A ch \in ToSet(text) : Known(c.vocab, <<ch>>) \/ (c.byte_fallback /\ Bytewise(c, ch))
\* A WordPiece without a piece for what is unknown needs each character at the
\* front and inside of a word.
Spells(c, w) == /\ Len(w) <= c.cap
                /\ \A ch \in ToSet(w) : Known(c.vocab, <<ch>>) /\ Known(c.vocab, <<"##", ch>>)
Covered == \A w \in ToSet(WordsOf(codec, normalize(codec, typed))) :
             IF codec.algorithm = "WordPiece" THEN UnknownIds # <<>> \/ Spells(codec, w) ELSE Covers(codec, w)

\* SentencePiece's own algorithm: at every step the adjacent pair whose
\* concatenation is the piece of highest score, the leftmost.
SpMerged(f, initial) ==
  LET Joined(ps) ==
        LET joined(i) == ps[i] \o ps[i + 1]
            able == {i \in 1 .. Len(ps) - 1 : joined(i) \in NormalPieces(f)}
            score(i) == Max({f.pieces[n].score : n \in {m \in DOMAIN f.pieces : f.pieces[m].chars = joined(i)}})
            best == CHOOSE i \in able : \A j \in able : score(i) > score(j) \/ (score(i) = score(j) /\ i <= j)
        IN IF able = {} THEN ps ELSE SubSeq(ps, 1, best - 1) \o <<joined(best)>> \o SubSeq(ps, best + 2, Len(ps))
      after[n \in 0 .. Len(initial)] == IF n = 0 THEN initial ELSE Joined(after[n - 1])
  IN after[Len(initial)]

\* The best score of any segmentation into pieces or bytes, suffix by suffix.
BestScore(c, text) ==
  LET best[at \in 1 .. Len(text) + 1] ==
        LET piece(k) == SubSeq(text, at, k)
            cuts == {k \in at .. Len(text) : Known(c.vocab, piece(k))}
            by_piece == {ScoreOf(c, str_to_id(c.vocab, piece(k))) + best[k + 1] : k \in cuts}
            by_byte == {ByteScore * Len(Utf8(piece(k))) + best[k + 1] : k \in {at}}
        IN IF at > Len(text) THEN 0
           ELSE Max(by_piece \cup IF Bytewise(c, text[at]) THEN by_byte ELSE {})
  IN best[1]

SumOf(c, ids) ==
  FoldLeft(LAMBDA total, id : total + IF parse_byte_fallback(c.vocab[id + 1]) # {} THEN ByteScore
                                      ELSE ScoreOf(c, id), 0, ids)

\* The ranks derived from a SentencePiece model make the choices of its own
\* algorithm on every pre-token, whatever the order of its pieces; the
\* lattice keeps a segmentation of the highest score. Both are for files as
\* training leaves them: merged scores that differ, each character of a piece listed.
EncodeExact ==
  doing = "encoded" /\ Covered =>
    /\ codec.algorithm = "BPE" /\ source.format = "model" =>
         LET ws == WordsOf(codec, normalize(codec, typed))
             parts(w) == SpMerged(source, FlattenSeq([i \in DOMAIN w |-> Initial(codec, w[i])]))
         IN Content = FlattenSeq([k \in DOMAIN ws |->
                        [i \in DOMAIN parts(ws[k]) |-> str_to_id(codec.vocab, parts(ws[k])[i])]])
    /\ codec.algorithm = "Unigram" =>
         SumOf(codec, Content) = BestScore(codec, WordsOf(codec, normalize(codec, typed))[1])

\* An id of the text is filtered as bos or eos: the default eos names a piece.
Dropped == \E id \in ToSet(Content) : id \in {codec.bos, codec.eos}

\* A Metaspace or plain BPE that put no space there loses a leading one.
LosesSpace == /\ codec.algorithm = "BPE" /\ codec.pre # "ByteLevel" /\ ~codec.prepend
              /\ "PrependSpace" \notin codec.steps
              /\ Spelled # <<>> /\ Head(Spelled) = "sp"

\* A mark that was typed comes back as a space where marks stand for spaces.
LosesMark == /\ "mark" \in ToSet(typed) /\ codec.pre # "ByteLevel"
             /\ codec.algorithm = "BPE" \/ (codec.algorithm = "Unigram" /\ codec.pre = "Metaspace")

\* What is decoded is what was encoded, up to the normalizer: across the
\* pre-tokens, merges, byte pieces, bos and the dummy prefix.  WordPiece is
\* not meant to: its ids spell the words.
RoundTrip ==
  doing = "encoded" /\ Covered /\ ~Dropped /\ ~LosesMark =>
    IF codec.algorithm = "WordPiece"
    THEN \/ ToSet(UnknownIds) \cap ToSet(encoded) # {}
         \/ Omitting(Decoded(codec, encoded), "##") = Omitting(typed, "sp")
    ELSE Decoded(codec, encoded) = IF LosesSpace THEN Tail(Spelled) ELSE Spelled
===============================================================================
