------------------------------ MODULE StreamText ------------------------------
(***************************************************************************)
(* From token ids to the text a turn streams: the incremental detokenizer  *)
(* (crates/hologram-ai-tokenizer/src/streaming.rs), the Metaspace decode   *)
(* it is built on (bpe.rs) and the rolling stop scan with the loop that    *)
(* drives both (crates/hologram-ai/src/commands/generate.rs).              *)
(*                                                                         *)
(* Bytes: "L" C C is the character "x"; "U" C C is U+2581, the Metaspace   *)
(* mark, which decodes to a space; every other byte is its character.      *)
(***************************************************************************)
EXTENDS Integers, Sequences, SequencesExt, FiniteSetsExt

CONSTANTS Pieces,    \* the vocabulary: the bytes of each token
          StopSets,  \* the stop strings a turn may ask for
          MaxFed     \* bound: tokens of a turn

\* Tokens are sequences of bytes, stop strings of characters.
ASSUME StreamAssumption ==
  /\ Pieces \subseteq Seq(STRING)
  /\ \A among \in StopSets : IsFiniteSet(among) /\ among \subseteq Seq(STRING)

VARIABLES stops,     \* the turn's stop strings
          strips,    \* the decode strips one leading space
          taken,     \* every token taken from the model
          overlap, held, prefix_text, window_text,   \* StreamingDecoder
          tail,      \* StopScan: the retained suffix of the emitted text
          acc,       \* everything emitted
          phase      \* "open", "hit" or "finished"

stream_vars == <<stops, strips, taken, overlap, held, prefix_text, window_text, tail, acc, phase>>

-----------------------------------------------------------------------------
(* Tokenizer::decode: bytes, lossy UTF-8, spaces, one leading space.       *)

Leads == {"L", "U"}

\* The byte at k belongs to a character that begins before it.
Consumed(b, k) ==
  b[k] = "C" /\ (\/ k > 1 /\ b[k - 1] \in Leads
                 \/ k > 2 /\ b[k - 1] = "C" /\ b[k - 2] \in Leads)

\* from_utf8_lossy, by the byte: a character appears at its first byte, and an
\* unfinished one, or a byte that begins none, as one replacement, "?".
Shown(b, k) ==
  LET finished == k + 2 <= Len(b) /\ b[k + 1] = "C" /\ b[k + 2] = "C"
  IN CASE Consumed(b, k) -> <<>>
       [] b[k] \in Leads /\ finished -> <<IF b[k] = "L" THEN "x" ELSE "mark">>
       [] b[k] \notin Leads \cup {"C"} -> <<b[k]>>
       [] OTHER -> <<"?">>

Lossy(b) == FlattenSeq([k \in DOMAIN b |-> Shown(b, k)])

Spaced(text) == [k \in DOMAIN text |-> IF text[k] = "mark" THEN "sp" ELSE text[k]]

Decode(ids) ==
  LET text == Spaced(Lossy(FlattenSeq(ids)))
  IN IF strips /\ text # <<>> /\ Head(text) = "sp" THEN Tail(text) ELSE text

\* String::len counts bytes.
Bytes(text) == Len(text) + 2 * Cardinality({k \in DOMAIN text : text[k] \in {"x", "?"}})

-----------------------------------------------------------------------------
(* StreamingDecoder.                                                       *)

\* window_text minus its emitted prefix.
Unemitted(window, prefix) == SubSeq(window, Len(prefix) + 1, Len(window))

\* Hold while nothing new is visible or the tail may still complete.
Holds(window) == \/ Bytes(window) <= Bytes(prefix_text)
                 \/ window # <<>> /\ Last(window) = "?"

\* Fault: no left context is kept.
NoOverlap(ids) == <<>>

\* What the next diff is anchored on: the tokens just flushed.
NextOverlap(ids) == ids

-----------------------------------------------------------------------------
(* StopScan.                                                               *)

Occurs(text, s) == \E k \in 0 .. Len(text) - Len(s) : SubSeq(text, k + 1, k + Len(s)) = s

LongestStop == Max({Bytes(s) : s \in stops} \cup {1})

\* keep: how far back an occurrence that ends in new text can begin.
Keep == LongestStop - 1

\* The shortest suffix of whole characters that has at least `keep` bytes.
Trimmed(text, keep) ==
  LET enough == {k \in 0 .. Len(text) : k = 0 \/ Bytes(SubSeq(text, k + 1, Len(text))) >= keep}
      cut == CHOOSE k \in enough : \A j \in enough : j <= k
  IN SubSeq(text, cut + 1, Len(text))

\* hit: whether a stop string occurs in tail, delta and pending text.
Hits(delta, pending) == \E s \in stops : s # <<>> /\ Occurs(tail \o delta \o pending, s)

-----------------------------------------------------------------------------
(* The generation loop: feed, emit, scan; then flush the rest.             *)

Feed(token) ==
  LET ids == Append(held, token)
      window == Decode(overlap \o ids)
      delta == Unemitted(window, prefix_text)
      pending == IF Holds(window) THEN delta ELSE <<>>
      shown == IF Holds(window) THEN <<>> ELSE delta
      anchor == NextOverlap(ids)
  IN /\ phase = "open" /\ Len(taken) < MaxFed
     /\ taken' = Append(taken, token)
     /\ IF Holds(window)
        THEN /\ held' = ids
             /\ window_text' = window
             /\ UNCHANGED <<overlap, prefix_text>>
        ELSE /\ held' = <<>>
             /\ overlap' = anchor
             /\ prefix_text' = Decode(anchor)
             /\ window_text' = Decode(anchor)
     /\ acc' = acc \o shown
     /\ tail' = IF stops = {} THEN tail ELSE Trimmed(tail \o shown, Keep)
     /\ phase' = IF Hits(shown, pending) THEN "hit" ELSE "open"
     /\ UNCHANGED <<stops, strips>>

\* finish_stream, after a stop string, the eos token or the budget.
Finish == /\ phase # "finished"
          /\ acc' = acc \o Unemitted(window_text, prefix_text)
          /\ overlap' = overlap \o held
          /\ held' = <<>>
          /\ prefix_text' = window_text
          /\ phase' = "finished"
          /\ UNCHANGED <<stops, strips, taken, window_text, tail>>

\* A turn with one of these sets of stop strings, on one of these tokenizers.
StreamInit(among, tokenizers) ==
  /\ stops \in among
  /\ strips \in tokenizers
  /\ taken = <<>> /\ overlap = <<>> /\ held = <<>>
  /\ prefix_text = <<>> /\ window_text = <<>>
  /\ tail = <<>> /\ acc = <<>>
  /\ phase = "open"

StreamNext == (\E token \in Pieces : Feed(token)) \/ Finish

StreamSpec == StreamInit(StopSets, BOOLEAN) /\ [][StreamNext]_stream_vars

-----------------------------------------------------------------------------
(* Properties.                                                             *)

\* What was emitted, with what is pending, is the one-shot decode of every
\* token fed, however characters and the mark are cut over tokens; a flush
\* emits nothing a later token takes back (the law of streaming.rs).  And the
\* loop stops at the first token whose decode contains a stop string, although
\* the scan only keeps a short suffix (StopScan's "exact
\* decode(generated).contains(stop) semantics").
Asked(ids) == \E s \in stops : s # <<>> /\ Occurs(Decode(ids), s)
StreamExact == /\ IsPrefix(prefix_text, window_text)
               /\ acc \o Unemitted(window_text, prefix_text) = Decode(taken)
               /\ phase = "open" => ~Asked(taken)
               /\ phase = "hit" => Asked(taken) /\ ~Asked(Front(taken))
===============================================================================
