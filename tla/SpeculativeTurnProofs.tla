------------------------- MODULE SpeculativeTurnProofs -------------------------
(***************************************************************************)
(* The safety of a speculative turn, for any vocabulary, stream, drafter,  *)
(* ladder and budget.  The output is compared with the plain loop's at     *)
(* every moment; what makes that inductive is that the realized tokens and *)
(* the one pending token ARE the output, that none of them has ended the   *)
(* turn yet, and that a batch is only tried with room for all its rows.    *)
(***************************************************************************)
EXTENDS SpeculativeTurn, PrefixLemmas

TurnTyped == /\ drafter \in Drafters
             /\ budget \in 0 .. Horizon
             /\ stream \in [1 .. Horizon + 1 -> Token]
             /\ stopAt \in 1 .. Horizon + 1

\* The turn is still open after its first n tokens.
Open(n) == n <= budget /\ \A i \in 1 .. n : stream[i] # EOS /\ i # stopAt

\* The turn ends with its first n tokens.
Cut(n) == /\ n \in 0 .. budget
          /\ n = budget \/ n = stopAt \/ stream[n + 1] = EOS
          /\ \A m \in 0 .. n - 1 : m # stopAt /\ stream[m + 1] # EOS

OutputInv == /\ Len(generated) \in 0 .. budget
             /\ generated = Prefix(stream, Len(generated))
             /\ IF at \in {"end", "done"} THEN Cut(Len(generated)) ELSE Open(Len(generated))

Running == at \in {"top", "propose", "plain", "miss"}

\* The realized tokens and the pending one are the output, and the logit row
\* follows them when none is pending.
RealizedInv ==
  Running => /\ generated = IF pending = None THEN realized ELSE Append(realized, pending)
             /\ pending = None => row = realized

\* A batch and a plain step are tried with a token left to emit, a batch with
\* a token to commit and room behind it for the longest draft.
RoundInv ==
  /\ at \in {"propose", "plain"} => Len(generated) < budget
  /\ at = "propose" => pending # None /\ Position(realized) + cap + 1 <= bucket
  /\ at = "miss" => pending = None

\* While the verify runner carries the truth there is a token whose step will
\* hand it back.
TruthInv == /\ atVerify /\ Running => pending # None /\ verify # 0
            /\ at = "done" => ~atVerify

IInv == /\ TypeOK /\ TurnTyped
        /\ OutputInv /\ RealizedInv /\ RoundInv /\ TruthInv /\ NeverRefused

-----------------------------------------------------------------------------
(* The stream.                                                              *)

LEMMA StreamPrefix ==
  ASSUME TurnTyped, NEW n \in 0 .. Horizon + 1
  PROVE  /\ stream \in Seq(Token) /\ Len(stream) = Horizon + 1
         /\ Prefix(stream, n) \in Seq(Token) /\ Len(Prefix(stream, n)) = n
         /\ \A i \in 1 .. n : Prefix(stream, n)[i] = stream[i]
<1>1. Horizon \in Nat
  BY TurnAssumption
<1>2. stream \in Seq(Token) /\ Len(stream) = Horizon + 1
  BY <1>1 DEF TurnTyped
<1> QED
  BY <1>2, PrefixType DEF Prefix

\* The next token of the stream extends its prefix.
LEMMA StreamGrows ==
  ASSUME TurnTyped, NEW n \in 0 .. Horizon
  PROVE  /\ stream[n + 1] \in Token
         /\ Append(Prefix(stream, n), stream[n + 1]) = Prefix(stream, n + 1)
<1>1. Horizon \in Nat /\ n \in Nat
  BY TurnAssumption
<1>2. n \in 0 .. Horizon + 1 /\ n + 1 \in 0 .. Horizon + 1 /\ n + 1 \in 1 .. Horizon + 1
  BY <1>1
<1>3. stream[n + 1] \in Token
  BY <1>2 DEF TurnTyped
<1>4. /\ Prefix(stream, n) \in Seq(Token) /\ Len(Prefix(stream, n)) = n
      /\ \A i \in 1 .. n : Prefix(stream, n)[i] = stream[i]
  BY <1>2, StreamPrefix
<1>5. /\ Prefix(stream, n + 1) \in Seq(Token) /\ Len(Prefix(stream, n + 1)) = n + 1
      /\ \A i \in 1 .. n + 1 : Prefix(stream, n + 1)[i] = stream[i]
  BY <1>2, StreamPrefix
<1>6. /\ Append(Prefix(stream, n), stream[n + 1]) \in Seq(Token)
      /\ Len(Append(Prefix(stream, n), stream[n + 1])) = n + 1
      /\ \A i \in 1 .. n : Append(Prefix(stream, n), stream[n + 1])[i] = stream[i]
      /\ Append(Prefix(stream, n), stream[n + 1])[n + 1] = stream[n + 1]
  BY <1>3, <1>4, AppendProperties
<1>7. \A i \in 1 .. n + 1 : Append(Prefix(stream, n), stream[n + 1])[i] = Prefix(stream, n + 1)[i]
  BY <1>1, <1>5, <1>6
<1> QED
  BY <1>3, <1>5, <1>6, <1>7, SeqEqual

\* After a prefix of the stream the model draws the stream's next token.
LEMMA DrawsNext ==
  ASSUME TurnTyped, NEW n \in 0 .. Horizon
  PROVE  Drawn(Prefix(stream, n)) = stream[n + 1]
<1>1. n \in 0 .. Horizon + 1
  BY TurnAssumption
<1>2. Len(Prefix(stream, n)) = n
  BY <1>1, StreamPrefix
<1> QED
  BY <1>2 DEF Drawn

-----------------------------------------------------------------------------
(* The plain loop's output.                                                 *)

LEMMA CutUnique ==
  ASSUME TurnTyped, NEW n, Cut(n), NEW m, Cut(m) PROVE n = m
<1>1. n \in Nat /\ m \in Nat /\ n <= budget /\ m <= budget /\ budget \in Nat
  BY TurnAssumption DEF Cut, TurnTyped
<1>2. ~(n < m)
  BY <1>1 DEF Cut
<1>3. ~(m < n)
  BY <1>1 DEF Cut
<1> QED
  BY <1>1, <1>2, <1>3

\* Some moment ends the turn, at the latest its budget.
LEMMA CutExists ==
  ASSUME TurnTyped PROVE \E n \in 0 .. budget : Cut(n)
<1> DEFINE ends == {n \in 0 .. budget : n = budget \/ n = stopAt \/ stream[n + 1] = EOS}
<1>1. budget \in Nat
  BY TurnAssumption DEF TurnTyped
<1>2. ends \subseteq Nat /\ budget \in ends
  BY <1>1
<1>3. PICK n \in ends : \A m \in ends : n <= m
  <2> HIDE DEF ends
  <2> QED
    BY <1>2, LeastNatural
<1>4. \A m \in 0 .. n - 1 : m \notin ends
  BY <1>2, <1>3
<1>5. n \in 0 .. budget
  BY <1>3
<1>6. \A m \in 0 .. n - 1 : m # stopAt /\ stream[m + 1] # EOS
  BY <1>1, <1>4, <1>5
<1> QED
  BY <1>3, <1>5, <1>6 DEF Cut

LEMMA PlainOutput ==
  ASSUME TurnTyped, NEW n, Cut(n) PROVE plain_output = Prefix(stream, n)
<1> DEFINE eos == {i \in 1 .. Horizon + 1 : stream[i] = EOS}
           Ending(k) == /\ k = budget \/ k = stopAt \/ k + 1 \in eos
                        /\ \A m \in 0 .. k - 1 : m # stopAt /\ m + 1 \notin eos
<1>1. Horizon \in Nat /\ budget \in 0 .. Horizon
  BY TurnAssumption DEF TurnTyped
<1>2. \A k \in 0 .. budget : k + 1 \in eos <=> stream[k + 1] = EOS
  BY <1>1
<1>3. \A k \in 0 .. budget : Ending(k) <=> Cut(k)
  <2> SUFFICES ASSUME NEW k \in 0 .. budget PROVE Ending(k) <=> Cut(k)
    OBVIOUS
  <2>1. \A m \in 0 .. k - 1 : m \in 0 .. budget
    BY <1>1
  <2> HIDE DEF eos
  <2> QED
    BY <1>2, <2>1 DEF Cut
<1>4. n \in 0 .. budget
  BY DEF Cut
<1>5. (CHOOSE k \in 0 .. budget : Ending(k)) = n
  <2> HIDE DEF Ending
  <2> QED
    BY <1>3, <1>4, CutUnique
<1> QED
  BY <1>5 DEF plain_output

\* What is emitted while the turn is open is a prefix of it.
LEMMA OpenWithin ==
  ASSUME TurnTyped, NEW n, n \in 0 .. budget, Open(n) \/ Cut(n)
  PROVE  /\ n <= Len(plain_output)
         /\ Prefix(stream, n) = Prefix(plain_output, n)
         /\ Cut(n) => plain_output = Prefix(stream, n)
<1>1. PICK c \in 0 .. budget : Cut(c)
  BY CutExists
<1>2. Horizon \in Nat /\ budget \in 0 .. Horizon /\ stopAt \in Nat
  BY TurnAssumption DEF TurnTyped
<1>3. n <= c
  <2>1. CASE Cut(n)
    BY <1>1, <1>2, <2>1, CutUnique
  <2>2. CASE Open(n)
    <3> SUFFICES ASSUME c < n PROVE FALSE
      BY <1>2
    <3>1. c # budget /\ c + 1 \in 1 .. n
      BY <1>2
    <3>2. c = stopAt => c \in 1 .. n
      BY <1>2 DEF TurnTyped
    <3> QED
      BY <1>1, <2>2, <3>1, <3>2 DEF Cut, Open
  <2> QED
    BY <2>1, <2>2
<1>4. plain_output = Prefix(stream, c)
  BY <1>1, PlainOutput
<1>5. /\ stream \in Seq(Token) /\ Len(stream) = Horizon + 1 /\ Len(plain_output) = c
  BY <1>2, <1>4, StreamPrefix
<1>6. Prefix(stream, n) = Prefix(plain_output, n)
  BY <1>2, <1>3, <1>4, <1>5, PrefixOfPrefix DEF Prefix
<1> QED
  BY <1>3, <1>5, <1>6, PlainOutput

-----------------------------------------------------------------------------
(* Emitting.                                                                *)

\* emit of the stream's next token, while the turn is open.
LEMMA EmitsOne ==
  ASSUME TurnTyped, NEW n \in Nat, Open(n), n < budget,
         NEW out, out = Prefix(stream, n), NEW token, token = stream[n + 1]
  PROVE  /\ Len(out) = n
         /\ n \in 0 .. Horizon /\ token \in Token
         /\ Append(out, token) = Prefix(stream, n + 1)
         /\ ~Ends(out, token) => /\ Emitted(out, token) = Prefix(stream, n + 1)
                                 /\ Open(n + 1) /\ n + 1 < budget
         /\ Ends(out, token) => \E c \in 0 .. budget : /\ Emitted(out, token) = Prefix(stream, c)
                                                       /\ Cut(c)
<1>1. Horizon \in Nat /\ budget \in 0 .. Horizon /\ stopAt \in Nat
  BY TurnAssumption DEF TurnTyped
<1>2. n \in 0 .. Horizon /\ n \in 0 .. Horizon + 1 /\ n \in 0 .. budget /\ n + 1 \in 0 .. budget
  BY <1>1
<1>3. Len(out) = n
  BY <1>2, StreamPrefix
<1>4. Append(out, token) = Prefix(stream, n + 1) /\ token \in Token
  BY <1>2, StreamGrows
<1>5. ASSUME ~Ends(out, token)
      PROVE  /\ Emitted(out, token) = Prefix(stream, n + 1)
             /\ Open(n + 1) /\ n + 1 < budget
  <2>1. token # EOS /\ n + 1 # stopAt /\ n + 1 < budget
    BY <1>1, <1>3, <1>5 DEF Ends
  <2>2. \A i \in 1 .. n + 1 : i \in 1 .. n \/ i = n + 1
    OBVIOUS
  <2>3. Open(n + 1)
    BY <1>1, <2>1, <2>2 DEF Open
  <2> QED
    BY <1>4, <2>1, <2>3 DEF Emitted
<1>6. \A m \in 0 .. n - 1 : m # stopAt /\ stream[m + 1] # EOS
  <2> SUFFICES ASSUME NEW m \in 0 .. n - 1 PROVE m # stopAt /\ stream[m + 1] # EOS
    OBVIOUS
  <2>1. m + 1 \in 1 .. n /\ (m = stopAt => m \in 1 .. n)
    BY DEF TurnTyped
  <2> QED
    BY <2>1 DEF Open
<1>7. n # stopAt
  BY <1>1 DEF Open, TurnTyped
<1>8. CASE token = EOS
  <2>1. Cut(n)
    BY <1>2, <1>6, <1>8 DEF Cut
  <2> QED
    BY <1>2, <1>3, <1>4, <1>5, <1>8, <2>1 DEF Emitted
<1>9. CASE token # EOS
  <2>1. ASSUME Ends(out, token) PROVE Cut(n + 1)
    <3>1. n + 1 = stopAt \/ n + 1 = budget
      BY <1>1, <1>3, <1>9, <2>1 DEF Ends
    <3>2. \A m \in 0 .. n + 1 - 1 : m \in 0 .. n - 1 \/ m = n
      OBVIOUS
    <3>3. \A m \in 0 .. n + 1 - 1 : m # stopAt /\ stream[m + 1] # EOS
      BY <1>6, <1>7, <1>9, <3>2
    <3> QED
      BY <1>2, <3>1, <3>3 DEF Cut
  <2> QED
    BY <1>2, <1>3, <1>4, <1>5, <1>9, <2>1 DEF Emitted
<1> QED
  BY <1>8, <1>9

\* The stream carries on where a prefix of it stops.
LEMMA StreamContinues ==
  ASSUME TurnTyped, NEW n \in Nat, NEW run \in Seq(Token), n + Len(run) <= Horizon + 1,
         \A i \in 1 .. Len(run) : run[i] = stream[n + i], NEW k \in 0 .. Len(run)
  PROVE  /\ Prefix(run, k) \in Seq(Token) /\ Len(Prefix(run, k)) = k
         /\ Prefix(stream, n) \o Prefix(run, k) = Prefix(stream, n + k)
<1>1. Horizon \in Nat /\ Len(run) \in Nat
  BY TurnAssumption, LenProperties
<1>2. n \in 0 .. Horizon + 1 /\ n + k \in 0 .. Horizon + 1
  BY <1>1
<1>3. PICK head : head = Prefix(stream, n)
  OBVIOUS
<1>4. PICK whole : whole = Prefix(stream, n + k)
  OBVIOUS
<1>5. PICK more : more = Prefix(run, k)
  OBVIOUS
<1>6. /\ head \in Seq(Token) /\ Len(head) = n
      /\ \A i \in 1 .. n : head[i] = stream[i]
  BY <1>2, <1>3, StreamPrefix
<1>7. /\ whole \in Seq(Token) /\ Len(whole) = n + k
      /\ \A i \in 1 .. n + k : whole[i] = stream[i]
  BY <1>2, <1>4, StreamPrefix
<1>8. /\ more \in Seq(Token) /\ Len(more) = k
      /\ \A i \in 1 .. k : more[i] = run[i]
  BY <1>5, PrefixType DEF Prefix
<1>9. /\ head \o more \in Seq(Token) /\ Len(head \o more) = n + k
      /\ \A i \in 1 .. n + k : (head \o more)[i] = IF i <= n THEN head[i] ELSE more[i - n]
  BY <1>6, <1>8, ConcatProperties
<1>10. ASSUME NEW i \in 1 .. n + k PROVE (head \o more)[i] = whole[i]
  <2>1. CASE i <= n
    <3>1. i \in 1 .. n
      BY <2>1
    <3> QED
      BY <1>6, <1>7, <1>9, <2>1, <3>1
  <2>2. CASE ~(i <= n)
    <3>1. i - n \in 1 .. k /\ i - n \in 1 .. Len(run) /\ n + (i - n) = i
      BY <1>1, <2>2
    <3>2. more[i - n] = stream[i]
      BY <1>8, <3>1
    <3> QED
      BY <1>7, <1>9, <2>2, <3>2
  <2> QED
    BY <2>1, <2>2
<1>11. head \o more = whole
  BY <1>7, <1>9, <1>10, SeqEqual
<1> QED
  BY <1>3, <1>4, <1>5, <1>8, <1>11

LEMMA GoesOn ==
  ASSUME NEW out, NEW token, NEW k, Len(out) + 1 = k, budget \in Nat, k \in Nat,
         ~Ends(out, token)
  PROVE  token # EOS /\ k # stopAt /\ k < budget
BY DEF Ends

\* emit of a run of the stream's next tokens, up to the first that ends the turn.
LEMMA EmitsRun ==
  ASSUME TurnTyped, NEW n \in Nat, Open(n), n < budget,
         NEW out, out = Prefix(stream, n),
         NEW run \in Seq(Token), n + Len(run) <= Horizon + 1, run # << >>,
         \A i \in 1 .. Len(run) : run[i] = stream[n + i]
  PROVE  /\ EndsAt(out, run) = {} =>
              /\ EmittedAll(out, run) = Prefix(stream, n + Len(run))
              /\ Open(n + Len(run)) /\ n + Len(run) < budget
         /\ EndsAt(out, run) # {} =>
              \E c \in 0 .. budget : EmittedAll(out, run) = Prefix(stream, c) /\ Cut(c)
<1>1. /\ Horizon \in Nat /\ budget \in 0 .. Horizon /\ stopAt \in Nat /\ Len(run) \in Nat \ {0}
  BY TurnAssumption, LenProperties, EmptySeq DEF TurnTyped
<1>2. ASSUME NEW i \in 1 .. Len(run)
      PROVE  /\ out \o Prefix(run, i - 1) = Prefix(stream, n + (i - 1))
             /\ Len(out \o Prefix(run, i - 1)) = n + i - 1
  <2>1. i - 1 \in 0 .. Len(run) /\ n + (i - 1) \in 0 .. Horizon + 1
    BY <1>1
  <2>2. out \o Prefix(run, i - 1) = Prefix(stream, n + (i - 1))
    BY <2>1, StreamContinues
  <2> QED
    BY <2>1, <2>2, StreamPrefix
\* The tokens before the first that ends the turn leave it open.
<1>3. ASSUME NEW k \in 0 .. Len(run), \A i \in 1 .. k : i \notin EndsAt(out, run)
      PROVE  Open(n + k) /\ n + k < budget
  <2>1. \A i \in 1 .. k : /\ stream[n + i] # EOS /\ n + i # stopAt /\ n + i < budget
    <3> SUFFICES ASSUME NEW i \in 1 .. k
                 PROVE  stream[n + i] # EOS /\ n + i # stopAt /\ n + i < budget
      OBVIOUS
    <3>1. i \in 1 .. Len(run)
      BY <1>1
    <3>2. ~Ends(out \o Prefix(run, i - 1), run[i])
      BY <1>3, <3>1 DEF EndsAt
    <3>3. PICK before : before = out \o Prefix(run, i - 1)
      OBVIOUS
    <3>4. Len(before) = n + i - 1
      BY <1>2, <3>1, <3>3
    <3>5. PICK k1 \in Nat : k1 = n + i
      BY <3>1
    <3>6. Len(before) + 1 = k1 /\ budget \in Nat
      BY <1>1, <3>4, <3>5
    <3>7. run[i] = stream[k1]
      BY <3>1, <3>5
    <3>8. stream[k1] # EOS /\ k1 # stopAt /\ k1 < budget
      BY <3>2, <3>3, <3>6, <3>7, GoesOn
    <3> QED
      BY <3>5, <3>8
  <2>2. \A i \in 1 .. n + k : i \in 1 .. n \/ (i - n \in 1 .. k /\ n + (i - n) = i)
    OBVIOUS
  <2>3. n + k < budget
    BY <2>1
  <2>4. \A i \in 1 .. n + k : stream[i] # EOS /\ i # stopAt
    BY <2>1, <2>2 DEF Open
  <2> QED
    BY <1>1, <2>3, <2>4 DEF Open
<1>4. CASE EndsAt(out, run) = {}
  <2>1. Len(run) \in 0 .. Len(run) /\ Prefix(run, Len(run)) = run
    BY <1>1, SubSeqFull DEF Prefix
  <2>2. out \o run = Prefix(stream, n + Len(run))
    BY <2>1, StreamContinues
  <2>3. Open(n + Len(run)) /\ n + Len(run) < budget
    BY <1>3, <1>4, <2>1
  <2> QED
    BY <1>4, <2>2, <2>3 DEF EmittedAll
<1>5. CASE EndsAt(out, run) # {}
  <2> DEFINE ends == EndsAt(out, run)
  <2>1. ends \subseteq 1 .. Len(run) /\ ends \subseteq Nat
    BY <1>1 DEF EndsAt
  <2>2. \E i \in ends : \A j \in ends : i <= j
    <3> HIDE DEF ends
    <3>1. ends # {}
      BY <1>5 DEF ends
    <3> QED
      BY <2>1, <3>1, LeastNatural
  <2>3. PICK i : i = (CHOOSE k \in ends : \A j \in ends : k <= j)
    OBVIOUS
  <2>4. i \in ends /\ \A j \in ends : i <= j
    BY <2>2, <2>3
  <2>5. i \in 1 .. Len(run) /\ i - 1 \in 0 .. Len(run) /\ i \in Nat
    BY <2>1, <2>4
  <2>6. \A j \in 1 .. i - 1 : j \notin EndsAt(out, run)
    BY <2>1, <2>4
  <2>7. PICK last \in 0 .. Len(run) : last = i - 1
    BY <2>5
  <2>8. PICK k \in Nat : k = n + last
    BY <2>7
  <2>9. Open(k) /\ k < budget
    BY <1>3, <2>6, <2>7, <2>8
  <2>10. PICK before : before = out \o Prefix(run, i - 1)
    OBVIOUS
  <2>11. before = Prefix(stream, k) /\ Ends(before, run[i])
    BY <1>2, <2>4, <2>5, <2>7, <2>8, <2>10 DEF EndsAt
  <2>12. k + 1 = n + i /\ run[i] = stream[k + 1]
    BY <2>5, <2>7, <2>8
  <2>13. \E c \in 0 .. budget : Emitted(before, run[i]) = Prefix(stream, c) /\ Cut(c)
    BY <2>9, <2>11, <2>12, EmitsOne
  <2>14. EmittedAll(out, run) = Emitted(before, run[i])
    BY <1>5, <2>3, <2>10 DEF EmittedAll
  <2> QED
    BY <1>5, <2>13, <2>14
<1> QED
  BY <1>4, <1>5

-----------------------------------------------------------------------------
(* What the invariant says of the values an operation computes.             *)

LEMMA Bounds ==
  ASSUME IInv
  PROVE  /\ PromptLen \in Nat \ {0} /\ MaxDraft \in Nat \ {0} /\ Horizon \in Nat
         /\ ContextLength \in Nat /\ PromptLen + Horizon <= ContextLength
         /\ DraftContext \in Nat /\ ContextLength <= DraftContext
         /\ budget \in 0 .. Horizon /\ Len(generated) \in 0 .. budget
         /\ bucket \in Nat /\ built \in Nat /\ verify \in Nat
         /\ draft_cap \in Nat /\ draft_cap + 1 = MaxDraft
         /\ cap \in Nat /\ cap <= draft_cap /\ cap + Len(generated) <= budget
<1>1. /\ PromptLen \in Nat \ {0} /\ MaxDraft \in Nat \ {0} /\ Horizon \in Nat
      /\ ContextLength \in Nat /\ PromptLen + Horizon <= ContextLength
      /\ DraftContext \in Nat /\ ContextLength <= DraftContext
      /\ budget \in 0 .. Horizon /\ Len(generated) \in 0 .. budget
      /\ bucket \in Nat /\ built \in Nat /\ verify \in Nat
  BY TurnAssumption DEF IInv, TypeOK, TurnTyped, OutputInv
<1> QED
  BY <1>1 DEF draft_cap, cap, Least

LEMMA Follows ==
  ASSUME IInv, Running
  PROVE  /\ Open(Len(generated)) /\ generated = Prefix(stream, Len(generated))
         /\ realized \in Seq(Token) /\ Len(realized) \in Nat
         /\ realized = Prefix(stream, Len(realized))
         /\ pending = None => realized = generated /\ row = generated
         /\ pending # None => /\ Len(generated) = Len(realized) + 1
                              /\ pending = stream[Len(generated)] /\ pending \in Token
                              /\ generated = realized \o << pending >>
                              /\ generated = Append(realized, pending)
<1>1. /\ TurnTyped /\ Len(generated) \in 0 .. Horizon + 1
      /\ generated = Prefix(stream, Len(generated)) /\ Open(Len(generated))
  BY Bounds DEF IInv, OutputInv, Running
<1>2. /\ generated \in Seq(Token)
      /\ \A i \in 1 .. Len(generated) : generated[i] = stream[i]
  BY <1>1, StreamPrefix
<1>3. CASE pending = None
  <2>1. realized = generated /\ row = generated
    BY <1>3 DEF IInv, RealizedInv
  <2> QED
    BY <1>1, <1>2, <1>3, <2>1, LenProperties
<1>4. CASE pending # None
  <2> DEFINE S == Token \cup {Wrong}
  <2>1. realized \in Seq(S) /\ pending \in S /\ generated = Append(realized, pending)
    BY <1>4 DEF IInv, RealizedInv, TypeOK
  <2>2. /\ Len(realized) \in Nat /\ Len(generated) = Len(realized) + 1
        /\ \A i \in 1 .. Len(realized) : generated[i] = realized[i]
        /\ generated[Len(realized) + 1] = pending
    <3> HIDE DEF S
    <3> QED
      BY <2>1, AppendProperties, LenProperties
  <2>3. generated = realized \o << pending >>
    <3> HIDE DEF S
    <3> QED
      BY <2>1, AppendIsConcat
  <2>4. Len(generated) \in 1 .. Horizon + 1 /\ pending = stream[Len(generated)]
    BY <1>1, <1>2, <2>2
  <2>5. pending \in Token
    BY <1>1, <2>4 DEF TurnTyped
  <2>6. PICK n \in 0 .. Horizon + 1 : n = Len(realized)
    <3>1. Len(realized) \in 0 .. Horizon + 1
      BY <2>2, Bounds
    <3> QED
      BY <3>1
  <2>7. /\ Prefix(stream, n) \in Seq(Token) /\ Len(Prefix(stream, n)) = n
        /\ \A i \in 1 .. n : Prefix(stream, n)[i] = stream[i]
    BY <1>1, StreamPrefix
  <2>8. Prefix(stream, n) \in Seq(S)
    BY <2>7, SeqMonotonic
  <2>9. \A i \in 1 .. Len(realized) : realized[i] = Prefix(stream, n)[i]
    BY <1>2, <2>2, <2>6, <2>7
  <2>10. realized = Prefix(stream, n)
    <3> HIDE DEF S
    <3> QED
      BY <2>1, <2>6, <2>7, <2>8, <2>9, SeqEqual
  <2>11. realized \in Seq(Token) /\ realized = Prefix(stream, Len(realized))
    BY <2>6, <2>7, <2>10
  <2> HIDE DEF S
  <2> QED
    BY <1>1, <1>4, <2>1, <2>2, <2>3, <2>4, <2>5, <2>11
<1> QED
  BY <1>3, <1>4

LEMMA ProposalType ==
  ASSUME NEW n \in Nat, NEW draft \in Proposals(n)
  PROVE  draft \in Seq(Token) /\ Len(draft) \in 0 .. n
<1>1. PICK k \in 0 .. n : draft \in [1 .. k -> Token]
  BY DEF Proposals
<1> QED
  BY <1>1

\* A proposal of a draft model stays within the model's context.
LEMMA ProposedFits ==
  ASSUME IInv, ~DraftExhausted, NEW draft, Proposed(draft)
  PROVE  drafted' \in 0 .. DraftContext
<1>1. drafted \in 0 .. DraftContext
  BY DEF IInv, TypeOK
<1>2. PICK c \in Nat : c = cap
  BY Bounds
<1>3. CASE drafter = "model"
  <2>1. PromptLen + drafted + c <= DraftContext
    BY <1>1, <1>2, <1>3, Bounds DEF DraftExhausted
  <2>2. drafted' = drafted + c
    BY <1>2, <1>3 DEF Proposed
  <2> QED
    BY <1>1, <2>1, <2>2, Bounds
<1>4. CASE drafter # "model"
  BY <1>1, <1>4 DEF Proposed
<1> QED
  BY <1>3, <1>4

\* The ladder holds a rung for whatever fits the context.
LEMMA RoomOnLadder ==
  ASSUME IInv, NEW seq, Len(seq) \in Nat, Position(seq) <= ContextLength
  PROVE  RoomFor(seq) \in Ladder
<1> DEFINE rungs == {rung \in Ladder : rung >= Position(seq)}
<1>1. rungs \subseteq Nat /\ ContextLength \in rungs
  BY TurnAssumption
<1>2. PICK least \in rungs : \A rung \in rungs : least <= rung
  <2> HIDE DEF rungs
  <2> QED
    BY <1>1, LeastNatural
<1>3. /\ least \in Ladder /\ least >= Position(seq)
      /\ \A low \in Ladder : low >= Position(seq) => least <= low
  BY <1>2
<1> QED
  BY <1>3 DEF RoomFor, IInv, TypeOK

\* The accepted tokens are the stream's, and so is the one drawn after them.
LEMMA AcceptsStream ==
  ASSUME TurnTyped, NEW n \in Nat, realized \o << pending >> = Prefix(stream, n),
         NEW draft \in Seq(Token), n + Len(draft) <= Horizon,
         NEW a, a = Accepted(draft)
  PROVE  /\ a \in 0 .. Len(draft)
         /\ \A i \in 1 .. a : draft[i] = stream[n + i]
         /\ realized \o << pending >> \o Prefix(draft, a) = Prefix(stream, n + a)
         /\ Drawn(realized \o << pending >> \o Prefix(draft, a)) = stream[n + a + 1]
<1> DEFINE After(k) == Drawn(realized \o << pending >> \o Prefix(draft, k))
           stops == {k \in 0 .. Len(draft) : k = Len(draft) \/ After(k) # draft[k + 1]}
<1>1. Horizon \in Nat /\ Len(draft) \in Nat
  BY TurnAssumption, LenProperties
<1>2. \E k \in stops : \A m \in stops : k <= m
  <2>1. stops \subseteq Nat /\ Len(draft) \in stops
    BY <1>1
  <2> HIDE DEF stops
  <2> QED
    BY <2>1, LeastNatural
<1>3. PICK k \in stops : \A m \in stops : k <= m
  <2> HIDE DEF stops
  <2> QED
    BY <1>2
<1>4. ASSUME NEW i \in 1 .. k PROVE After(i - 1) = draft[i]
  <2>1. k \in 0 .. Len(draft) /\ i - 1 \in 0 .. Len(draft) /\ i - 1 # Len(draft)
    BY <1>1, <1>3
  <2>2. i - 1 \notin stops
    <3> HIDE DEF stops
    <3> QED
      BY <1>1, <1>3, <2>1
  <2> HIDE DEF After
  <2>3. After(i - 1) = draft[i - 1 + 1]
    BY <2>1, <2>2
  <2> QED
    BY <2>1, <2>3
<1>5. /\ a \in 0 .. Len(draft)
      /\ \A i \in 1 .. a : After(i - 1) = draft[i]
  <2> DEFINE Right(m) == /\ \A i \in 1 .. m : After(i - 1) = draft[i]
                         /\ m = Len(draft) \/ After(m) # draft[m + 1]
  <2>1. k \in 0 .. Len(draft) /\ Right(k)
    <3> HIDE DEF After
    <3> QED
      BY <1>3, <1>4
  <2>2. a = CHOOSE m \in 0 .. Len(draft) : Right(m)
    BY DEF Accepted
  <2>3. a \in 0 .. Len(draft) /\ Right(a)
    <3> HIDE DEF Right
    <3> QED
      BY <2>1, <2>2
  <2> QED
    BY <2>3
\* The tokens before place i are the stream's: then the model draws the stream's next.
<1>6. ASSUME NEW i \in 0 .. a, \A j \in 1 .. i : draft[j] = stream[n + j]
      PROVE  /\ realized \o << pending >> \o Prefix(draft, i) = Prefix(stream, n + i)
             /\ After(i) = stream[n + i + 1]
  <2>1. PICK run : run = Prefix(draft, i)
    OBVIOUS
  <2>2. /\ i \in 0 .. Len(draft) /\ i \in Nat
    BY <1>1, <1>5
  <2>3. /\ run \in Seq(Token) /\ Len(run) = i
        /\ \A j \in 1 .. i : run[j] = draft[j]
    BY <2>1, <2>2, PrefixType DEF Prefix
  <2>4. /\ n + Len(run) <= Horizon + 1 /\ n + i \in 0 .. Horizon
    BY <1>1, <2>2, <2>3
  <2>5. \A j \in 1 .. Len(run) : run[j] = stream[n + j]
    BY <1>6, <2>3
  <2>6. Prefix(run, Len(run)) = run /\ Len(run) \in 0 .. Len(run)
    BY <2>2, <2>3, SubSeqFull DEF Prefix
  <2>7. Prefix(stream, n) \o run = Prefix(stream, n + i)
    BY <2>3, <2>4, <2>5, <2>6, StreamContinues
  <2>8. realized \o << pending >> \o run = Prefix(stream, n + i)
    BY <2>7
  <2> HIDE DEF After
  <2>9. After(i) = Drawn(Prefix(stream, n + i))
    BY <2>1, <2>8 DEF After
  <2> QED
    BY <2>1, <2>4, <2>8, <2>9, DrawsNext
<1>7. \A i \in 1 .. a : draft[i] = stream[n + i]
  <2> DEFINE wrong == {i \in 1 .. a : draft[i] # stream[n + i]}
  <2> SUFFICES ASSUME wrong # {} PROVE FALSE
    OBVIOUS
  <2>1. wrong \subseteq Nat
    BY <1>5
  <2>2. PICK i \in wrong : \A j \in wrong : i <= j
    <3> HIDE DEF wrong
    <3> QED
      BY <2>1, LeastNatural
  <2>3. PICK b : b = i - 1
    OBVIOUS
  <2>4. /\ i \in 1 .. a /\ b \in 0 .. a /\ b + 1 = i /\ n + b + 1 = n + i
    BY <1>5, <2>2, <2>3
  <2>5. \A j \in 1 .. b : j \in 1 .. a /\ j \notin wrong
    <3> HIDE DEF wrong
    <3> QED
      BY <1>5, <2>1, <2>2, <2>4
  <2>6. \A j \in 1 .. b : draft[j] = stream[n + j]
    BY <2>5
  <2> HIDE DEF After
  <2>7. After(b) = stream[n + i]
    BY <1>6, <2>4, <2>6
  <2>8. After(b) = draft[i]
    BY <1>5, <2>3, <2>4
  <2> QED
    BY <2>2, <2>7, <2>8
<1>8. a \in 0 .. a
  BY <1>1, <1>5
<1> HIDE DEF After
<1>9. /\ realized \o << pending >> \o Prefix(draft, a) = Prefix(stream, n + a)
      /\ After(a) = stream[n + a + 1]
  BY <1>6, <1>7, <1>8
<1> QED
  BY <1>5, <1>7, <1>9 DEF After

-----------------------------------------------------------------------------
(* The steps.                                                               *)

\* The output of a step is a prefix of the stream of the right length.
LEMMA OutputAfter ==
  ASSUME TurnTyped, UNCHANGED turn, NEW n, n \in 0 .. budget, generated' = Prefix(stream, n),
         IF at' \in {"end", "done"} THEN Cut(n) ELSE Open(n)
  PROVE  /\ TurnTyped' /\ OutputInv' /\ Len(generated') = n
         /\ generated' \in Seq(Token \cup {Wrong})
<1>1. n \in 0 .. Horizon + 1 /\ n \in Nat
  BY TurnAssumption DEF TurnTyped
<1>2. generated' \in Seq(Token) /\ Len(generated') = n
  BY <1>1, StreamPrefix
<1>3. generated' \in Seq(Token \cup {Wrong})
  <2>1. Token \subseteq Token \cup {Wrong}
    OBVIOUS
  <2> QED
    BY <1>2, <2>1, SeqMonotonic
<1>4. TurnTyped'
  BY DEF turn, TurnTyped
<1>5. generated' = Prefix(stream, Len(generated))'
  BY <1>2 DEF turn, Prefix
<1>6. (Cut(n) => Cut(n)') /\ (Open(n) => Open(n)')
  BY DEF turn, Cut, Open
<1>7. OutputInv'
  <2>1. budget' = budget
    BY DEF turn
  <2>2. n = Len(generated')
    BY <1>2
  <2>3. IF at' \in {"end", "done"} THEN Cut(Len(generated))' ELSE Open(Len(generated))'
    BY <1>6, <2>2 DEF Cut, Open
  <2> QED
    BY <1>2, <1>5, <2>1, <2>3 DEF OutputInv
<1> QED
  BY <1>2, <1>3, <1>4, <1>7

LEMMA OutputStays ==
  ASSUME IInv, UNCHANGED <<turn, generated>>,
         IF at' \in {"end", "done"} THEN Cut(Len(generated)) ELSE Open(Len(generated))
  PROVE  TurnTyped' /\ OutputInv'
<1>1. /\ TurnTyped /\ Len(generated) \in 0 .. budget
      /\ generated = Prefix(stream, Len(generated))
  BY DEF IInv, OutputInv
<1>2. generated' = Prefix(stream, Len(generated))
  BY <1>1
<1> QED
  BY <1>1, <1>2, OutputAfter

\* Steps that move the turn and emit, realize and build nothing.
LEMMA Moves ==
  ASSUME IInv,
         UNCHANGED <<turn, generated, realized, row, pending, bucket, built, verify>>,
         at' \in Places \ {"refused", "propose"},
         speculate' \in BOOLEAN, atVerify' \in BOOLEAN, drafted' \in 0 .. DraftContext,
         Running' => Running,
         at' = "plain" => Len(generated) < budget,
         at' = "miss" => at = "miss",
         atVerify' => atVerify /\ at' # "done",
         IF at' \in {"end", "done"} THEN Cut(Len(generated)) ELSE Open(Len(generated))
  PROVE  IInv'
<1>1. TurnTyped' /\ OutputInv'
  BY OutputStays
<1>2. TypeOK'
  BY DEF IInv, TypeOK
<1>3. RealizedInv'
  BY DEF IInv, RealizedInv
<1>4. RoundInv'
  BY DEF IInv, RoundInv, turn
<1>5. TruthInv' /\ NeverRefused'
  BY DEF IInv, TruthInv, NeverRefused
<1> QED
  BY <1>1, <1>2, <1>3, <1>4, <1>5 DEF IInv

LEMMA RetireKeeps == ASSUME IInv, Retire PROVE IInv'
<1>1. Running /\ Len(generated) < budget
  BY DEF Retire, Running, More
<1>2. Open(Len(generated))
  BY <1>1, Follows
<1> QED
  BY <1>1, <1>2, Moves DEF Retire, Places, Running, IInv, TypeOK

LEMMA AfterRetireKeeps == ASSUME IInv, AfterRetire PROVE IInv'
<1>1. Running /\ Len(generated) < budget
  BY DEF AfterRetire, Running, More
<1>2. Open(Len(generated))
  BY <1>1, Follows
<1> QED
  BY <1>1, <1>2, Moves DEF AfterRetire, Places, Running, IInv, TypeOK

LEMMA NoBatchKeeps == ASSUME IInv, NoBatch PROVE IInv'
<1>1. Running /\ Len(generated) < budget
  BY DEF NoBatch, Running, IInv, RoundInv
<1>2. Open(Len(generated))
  BY <1>1, Follows
<1>3. drafted' \in 0 .. DraftContext
  BY ProposedFits DEF NoBatch
<1> QED
  BY <1>1, <1>2, <1>3, Moves DEF NoBatch, Places, Running, IInv, TypeOK

LEMMA ProbeHitsKeeps == ASSUME IInv, ProbeHits PROVE IInv'
<1>1. Running
  BY DEF ProbeHits, Probing, Running
<1>2. Open(Len(generated))
  BY <1>1, Follows
<1>3. drafted' \in 0 .. DraftContext
  BY ProposedFits DEF ProbeHits
<1> QED
  BY <1>1, <1>2, <1>3, Moves DEF ProbeHits, Places, Running, IInv, TypeOK

LEMMA LeaveMissesKeeps == ASSUME IInv, LeaveMisses PROVE IInv'
<1>1. Running
  BY DEF LeaveMisses, Running
<1>2. Open(Len(generated))
  BY <1>1, Follows
<1> QED
  BY <1>1, <1>2, Moves DEF LeaveMisses, Places, Running, IInv, TypeOK

LEMMA DrafterFailsKeeps ==
  ASSUME IInv, at = "propose" \/ (Probing /\ cap > 0), DrafterFails PROVE IInv'
<1>1. Running
  BY DEF Probing, Running
<1>2. Open(Len(generated))
  BY <1>1, Follows
<1> QED
  BY <1>1, <1>2, Moves DEF DrafterFails, Places, Running, IInv, TypeOK

LEMMA TurnEndsKeeps == ASSUME IInv, TurnEnds PROVE IInv'
<1>1. Cut(Len(generated))
  <2>1. CASE at = "end"
    BY <2>1 DEF IInv, OutputInv
  <2>2. CASE at = "top" /\ ~More
    <3>1. /\ Open(Len(generated)) /\ Len(generated) = budget /\ budget \in Nat
      BY <2>2, Follows, Bounds DEF Running, More
    <3>2. stopAt \in Nat
      BY TurnAssumption DEF IInv, TurnTyped
    <3>3. \A m \in 0 .. budget - 1 : m # stopAt /\ stream[m + 1] # EOS
      <4> SUFFICES ASSUME NEW m \in 0 .. budget - 1 PROVE m # stopAt /\ stream[m + 1] # EOS
        OBVIOUS
      <4>1. m + 1 \in 1 .. Len(generated) /\ (m = stopAt => m \in 1 .. Len(generated))
        BY <3>1 DEF IInv, TurnTyped
      <4> QED
        BY <3>1, <4>1 DEF Open
    <3>4. Len(generated) \in 0 .. budget
      BY Bounds
    <3> QED
      BY <3>1, <3>3, <3>4 DEF Cut
  <2> QED
    BY <2>1, <2>2 DEF TurnEnds
<1> QED
  BY <1>1, Moves DEF TurnEnds, Places, Running, IInv, TypeOK

\* The token a batch commits first: the stream's next, and the output's last.
LEMMA DecideKeeps == ASSUME IInv, Decide PROVE IInv'
<1>1. Running /\ Len(generated) < budget /\ at = "top"
  BY DEF Decide, Running, More
<1>2. /\ Open(Len(generated)) /\ generated = Prefix(stream, Len(generated))
      /\ Len(generated) \in Nat /\ TurnTyped
  BY <1>1, Follows, Bounds DEF IInv
<1>3. Position(realized) + cap + 1 <= bucket
  BY <1>1, Follows, Bounds DEF Decide, LeavesBucket, Position
<1>4. CASE pending # None
  <2>1. at' = "propose" /\ UNCHANGED <<generated, pending>>
    BY <1>4 DEF Decide
  <2>2. TurnTyped' /\ OutputInv'
    BY <1>2, <2>1, OutputStays DEF Decide
  <2>3. TypeOK'
    BY <2>1 DEF Decide, IInv, TypeOK, Places
  <2>4. RealizedInv'
    BY <1>1, <2>1 DEF Decide, IInv, RealizedInv, Running
  <2>5. RoundInv'
    BY <1>1, <1>3, <1>4, <2>1 DEF Decide, RoundInv, turn, cap, draft_cap, Least, Position
  <2>6. TruthInv' /\ NeverRefused'
    BY <1>1, <2>1 DEF Decide, IInv, TruthInv, NeverRefused, Running
  <2> QED
    BY <2>2, <2>3, <2>4, <2>5, <2>6 DEF IInv
<1>5. CASE pending = None
  <2>1. realized = generated /\ row = realized /\ realized \in Seq(Token)
    BY <1>1, <1>5, Follows
  <2>2. PICK n \in Nat : n = Len(generated)
    BY <1>2
  <2>3. n \in 0 .. Horizon
    BY <1>1, <2>2, Bounds
  <2>4. PICK token : token = next_token
    OBVIOUS
  <2>5. token = stream[n + 1]
    BY <1>2, <2>1, <2>2, <2>3, <2>4, DrawsNext DEF next_token
  <2>6. /\ generated = Prefix(stream, n) /\ Open(n) /\ n < budget
    BY <1>1, <1>2, <2>2
  <2>7. ~atVerify
    BY <1>1, <1>5 DEF IInv, TruthInv
  <2>8. CASE Ends(generated, token)
    <3>1. at' = "end" /\ UNCHANGED pending /\ generated' = Emitted(generated, token)
      BY <1>5, <2>4, <2>8 DEF Decide
    <3>2. PICK c \in 0 .. budget : generated' = Prefix(stream, c) /\ Cut(c)
      BY <1>2, <2>5, <2>6, <2>8, <3>1, EmitsOne
    <3>3. TurnTyped' /\ OutputInv' /\ generated' \in Seq(Token \cup {Wrong})
      BY <1>2, <3>1, <3>2, OutputAfter DEF Decide
    <3>4. TypeOK'
      BY <3>1, <3>3 DEF Decide, IInv, TypeOK, Places
    <3>5. RealizedInv' /\ RoundInv' /\ TruthInv' /\ NeverRefused'
      BY <3>1 DEF RealizedInv, RoundInv, TruthInv, NeverRefused, Running
    <3> QED
      BY <3>3, <3>4, <3>5 DEF IInv
  <2>9. CASE ~Ends(generated, token)
    <3>1. /\ at' = "propose" /\ pending' = token /\ generated' = Emitted(generated, token)
          /\ UNCHANGED <<turn, realized, row, speculate, bucket, built, verify, atVerify, drafted>>
      BY <1>5, <2>4, <2>9 DEF Decide
    <3>2. /\ generated' = Prefix(stream, n + 1) /\ generated' = Append(generated, token)
          /\ token \in Token /\ Open(n + 1) /\ n + 1 < budget
      BY <1>2, <2>5, <2>6, <2>9, <3>1, EmitsOne
    <3>3. PICK m \in 0 .. budget : m = n + 1
      BY <3>2, Bounds
    <3>4. TurnTyped' /\ OutputInv' /\ generated' \in Seq(Token \cup {Wrong}) /\ Len(generated') = m
      BY <1>2, <3>1, <3>2, <3>3, OutputAfter
    <3>5. TypeOK'
      BY <3>1, <3>2, <3>4 DEF IInv, TypeOK, Places
    <3>6. token # None
      BY <3>2, TurnAssumption
    <3>7. RealizedInv'
      BY <2>1, <3>1, <3>2, <3>6 DEF RealizedInv
    <3>8. RoundInv'
      <4>1. cap' <= cap /\ cap' \in Int
        BY <2>2, <3>1, <3>3, <3>4, Bounds DEF cap, Least, turn, draft_cap
      <4>2. Position(realized)' = Position(realized) /\ bucket' = bucket /\ budget' = budget
        BY <3>1 DEF Position, turn
      <4>3. Position(realized) \in Nat
        BY <1>1, Bounds, Follows DEF Position
      <4>4. PICK p \in Nat : p = Position(realized)
        BY <4>3
      <4>5. PICK c \in Int : c = cap'
        BY <4>1
      <4>6. p + c + 1 <= bucket
        <5>1. PICK k \in Nat : k = cap
          BY Bounds
        <5>2. c <= k /\ p + k + 1 <= bucket /\ bucket \in Nat
          BY <1>3, <4>1, <4>4, <4>5, <5>1, Bounds
        <5> QED
          BY <5>2
      <4>7. Position(realized)' + cap' + 1 <= bucket'
        BY <4>2, <4>4, <4>5, <4>6
      <4> QED
        BY <3>1, <3>2, <3>3, <3>4, <3>6, <4>2, <4>7 DEF RoundInv
    <3>9. TruthInv' /\ NeverRefused'
      BY <2>7, <3>1 DEF TruthInv, NeverRefused
    <3> QED
      BY <3>4, <3>5, <3>7, <3>8, <3>9 DEF IInv
  <2> QED
    BY <2>8, <2>9
<1> QED
  BY <1>4, <1>5

\* A batch commits the pending token, the accepted tokens and what follows them.
LEMMA BatchKeeps == ASSUME IInv, NEW draft \in Proposals(cap), Batch(draft) PROVE IInv'
<1>1. Running /\ at = "propose" /\ ~DraftExhausted /\ UNCHANGED <<turn, row, speculate, bucket, built>>
  BY DEF Batch, Running
<1>2. pending # None /\ Len(generated) < budget /\ Position(realized) + cap + 1 <= bucket
  BY <1>1 DEF IInv, RoundInv
<1>3. TurnTyped /\ Len(generated) \in Nat /\ Len(generated) \in 0 .. budget /\ cap \in Nat
  BY Bounds DEF IInv
<1>4. draft \in Seq(Token) /\ Len(draft) \in 0 .. cap
  BY <1>3, ProposalType
<1>5. PICK n \in Nat : n = Len(generated)
  BY <1>3
<1>6. /\ Open(n) /\ generated = Prefix(stream, n) /\ n < budget
      /\ realized \in Seq(Token) /\ Len(realized) \in Nat
      /\ realized \o << pending >> = Prefix(stream, n)
  BY <1>1, <1>2, <1>5, Follows
<1>7. n + Len(draft) <= budget /\ n + Len(draft) <= Horizon
  <2>1. PICK k \in Nat : k = cap
    BY <1>3
  <2>2. k + n <= budget /\ Len(draft) <= k
    BY <1>4, <1>5, <2>1, Bounds
  <2> QED
    BY <1>4, <2>2, Bounds
<1>8. PICK a : a = Accepted(draft)
  OBVIOUS
<1>9. PICK bonus : bonus = Drawn(realized \o << pending >> \o Prefix(draft, a))
  OBVIOUS
<1>10. /\ a \in 0 .. Len(draft)
       /\ \A i \in 1 .. a : draft[i] = stream[n + i]
       /\ realized \o << pending >> \o Prefix(draft, a) = Prefix(stream, n + a)
       /\ bonus = stream[n + a + 1]
  <2>1. TurnTyped /\ realized \o << pending >> = Prefix(stream, n) /\ n + Len(draft) <= Horizon
    BY <1>3, <1>6, <1>7
  <2>2. /\ a \in 0 .. Len(draft)
        /\ \A i \in 1 .. a : draft[i] = stream[n + i]
        /\ realized \o << pending >> \o Prefix(draft, a) = Prefix(stream, n + a)
        /\ Drawn(realized \o << pending >> \o Prefix(draft, a)) = stream[n + a + 1]
    BY <1>4, <1>8, <2>1, AcceptsStream
  <2> QED
    BY <1>9, <2>2
<1>11. PICK emits : emits = Append(Prefix(draft, a), bonus)
  OBVIOUS
<1>12. PICK runner : runner = IF verify = 0 THEN built ELSE verify
  OBVIOUS
\* There is room for the batch, in the bucket and in the chunk.
<1>13. ~(Position(realized) + 1 + Len(draft) > bucket \/ 1 + Len(draft) > MaxDraft)
  <2>1. PICK p \in Nat : p = Position(realized)
    BY <1>6, Bounds DEF Position
  <2>2. PICK k \in Nat : k = cap
    BY <1>3
  <2>3. Len(draft) <= k /\ k + 1 <= MaxDraft /\ p + k + 1 <= bucket /\ bucket \in Nat /\ MaxDraft \in Nat
    BY <1>2, <1>4, <2>1, <2>2, Bounds
  <2>4. ~(p + 1 + Len(draft) > bucket \/ 1 + Len(draft) > MaxDraft)
    BY <1>4, <2>3
  <2> QED
    BY <2>1, <2>4
<1>14. /\ verify' = runner /\ runner \in {0} \cup Ladder
  BY <1>12 DEF Batch, IInv, TypeOK
<1>15. CASE runner # bucket
  <2>1. /\ at' = "stale" /\ Proposed(draft)
        /\ UNCHANGED <<realized, generated, pending, atVerify>>
    BY <1>12, <1>13, <1>15 DEF Batch
  <2>2. drafted' \in 0 .. DraftContext
    BY <1>1, <2>1, ProposedFits
  <2>3. TurnTyped' /\ OutputInv'
    BY <1>1, <1>5, <1>6, <2>1, OutputStays
  <2>4. TypeOK'
    BY <1>1, <1>14, <2>1, <2>2 DEF IInv, TypeOK, Places
  <2>5. RealizedInv' /\ RoundInv' /\ TruthInv' /\ NeverRefused'
    BY <2>1 DEF RealizedInv, RoundInv, TruthInv, NeverRefused, Running
  <2> QED
    BY <2>3, <2>4, <2>5 DEF IInv
<1>16. CASE runner = bucket
  <2>1. /\ realized' = Prefix(stream, n + a)
        /\ atVerify' = TRUE
        /\ generated' = EmittedAll(generated, emits)
    BY <1>8, <1>9, <1>10, <1>11, <1>12, <1>13, <1>16 DEF Batch
  <2>2. PICK k \in Nat : k = n + a
    BY <1>4, <1>10
  <2>3. k \in 0 .. Horizon /\ k \in 0 .. Horizon + 1 /\ k <= budget
    BY <1>4, <1>7, <1>10, <2>2, Bounds
  <2>4. bonus = stream[k + 1] /\ bonus \in Token
    BY <1>3, <1>10, <2>2, <2>3, StreamGrows
  <2>5. PICK kept : kept = Prefix(draft, a)
    OBVIOUS
  <2>6. kept \in Seq(Token) /\ Len(kept) = a /\ \A i \in 1 .. a : kept[i] = draft[i]
    BY <1>4, <1>10, <2>5, PrefixType DEF Prefix
  <2>7. /\ emits \in Seq(Token) /\ Len(emits) = a + 1 /\ emits # << >>
        /\ \A i \in 1 .. a : emits[i] = kept[i]
        /\ emits[a + 1] = bonus
    BY <1>11, <2>4, <2>5, <2>6, AppendProperties
  <2>8. \A i \in 1 .. Len(emits) : emits[i] = stream[n + i]
    <3> SUFFICES ASSUME NEW i \in 1 .. Len(emits) PROVE emits[i] = stream[n + i]
      OBVIOUS
    <3>1. CASE i \in 1 .. a
      BY <1>10, <2>6, <2>7, <3>1
    <3>2. CASE i = a + 1
      <4>1. n + i = k + 1
        BY <1>10, <2>2, <3>2
      <4> QED
        BY <2>4, <2>7, <3>2, <4>1
    <3> QED
      BY <1>4, <1>10, <2>7, <3>1, <3>2
  <2>9. n + Len(emits) <= Horizon + 1 /\ n + Len(emits) = k + 1
    <3>1. PICK e \in Nat : e = Len(emits) /\ e = a + 1
      BY <1>4, <1>10, <2>7
    <3>2. n + e = k + 1
      BY <1>4, <1>10, <2>2, <3>1
    <3>3. n + e <= Horizon + 1
      BY <2>3, <3>2, Bounds
    <3> QED
      BY <3>1, <3>2, <3>3
  <2>10. realized' \in Seq(Token \cup {Wrong}) /\ realized' \in Seq(Token)
    <3>1. realized' \in Seq(Token)
      BY <1>3, <2>1, <2>2, <2>3, StreamPrefix
    <3>2. Token \subseteq Token \cup {Wrong}
      OBVIOUS
    <3> QED
      BY <3>1, <3>2, SeqMonotonic
  <2>11. verify' # 0
    <3>1. bucket # 0
      <4>1. PICK p \in Nat : p = Position(realized) /\ p # 0
        BY <1>6, Bounds DEF Position
      <4> QED
        BY <1>2, <1>3, <4>1, Bounds
    <3> QED
      BY <1>14, <1>16, <3>1
  <2> DEFINE Whole == /\ generated' = Prefix(stream, n + Len(emits))
                      /\ Open(n + Len(emits)) /\ n + Len(emits) < budget
             Short == \E c \in 0 .. budget : generated' = Prefix(stream, c) /\ Cut(c)
  <2>12. (EndsAt(generated, emits) = {} => Whole) /\ (EndsAt(generated, emits) # {} => Short)
    <3>1. PICK out : out = generated
      OBVIOUS
    <3>2. /\ TurnTyped /\ Open(n) /\ n < budget /\ out = Prefix(stream, n)
          /\ n + Len(emits) <= Horizon + 1 /\ emits # << >>
          /\ \A i \in 1 .. Len(emits) : emits[i] = stream[n + i]
      BY <1>3, <1>6, <2>7, <2>8, <2>9, <3>1
    <3>3. emits \in Seq(Token)
      BY <2>7
    <3>4. /\ EndsAt(out, emits) = {} =>
               /\ EmittedAll(out, emits) = Prefix(stream, n + Len(emits))
               /\ Open(n + Len(emits)) /\ n + Len(emits) < budget
          /\ EndsAt(out, emits) # {} =>
               \E c \in 0 .. budget : EmittedAll(out, emits) = Prefix(stream, c) /\ Cut(c)
      BY <3>2, <3>3, EmitsRun
    <3>5. generated' = EmittedAll(out, emits)
      BY <2>1, <3>1
    <3> QED
      BY <3>1, <3>4, <3>5
  <2>13. CASE EndsAt(generated, emits) # {}
    <3>1. at' = "end" /\ Proposed(draft) /\ UNCHANGED pending
      BY <1>8, <1>9, <1>11, <1>12, <1>13, <1>16, <2>13 DEF Batch
    <3>2. PICK c \in 0 .. budget : generated' = Prefix(stream, c) /\ Cut(c)
      BY <2>12, <2>13
    <3>3. TurnTyped' /\ OutputInv' /\ generated' \in Seq(Token \cup {Wrong})
      BY <1>1, <1>3, <3>1, <3>2, OutputAfter
    <3>4. drafted' \in 0 .. DraftContext
      BY <1>1, <3>1, ProposedFits
    <3>5. TypeOK'
      BY <1>1, <1>14, <2>1, <2>10, <3>1, <3>3, <3>4 DEF IInv, TypeOK, Places
    <3>6. RealizedInv' /\ RoundInv' /\ TruthInv' /\ NeverRefused'
      BY <3>1 DEF RealizedInv, RoundInv, TruthInv, NeverRefused, Running
    <3> QED
      BY <3>3, <3>5, <3>6 DEF IInv
  <2>14. CASE EndsAt(generated, emits) = {}
    <3>1. /\ at' = "top" /\ pending' = bonus
          /\ IF drafter = "model" THEN Len(draft) = cap /\ drafted' = drafted + a + 1
             ELSE UNCHANGED drafted
      BY <1>8, <1>9, <1>11, <1>12, <1>13, <1>16, <2>14 DEF Batch
    <3>2. generated' = Prefix(stream, n + Len(emits)) /\ Open(n + Len(emits)) /\ n + Len(emits) < budget
      BY <2>12, <2>14
    <3>3. PICK m \in 0 .. budget : m = k + 1
      BY <2>9, <3>2, Bounds
    <3>4. generated' = Prefix(stream, m) /\ Open(m)
      BY <2>9, <3>2, <3>3
    <3>5. TurnTyped' /\ OutputInv' /\ generated' \in Seq(Token \cup {Wrong})
      BY <1>1, <1>3, <3>1, <3>4, OutputAfter
    <3>6. drafted' \in 0 .. DraftContext
      <4>1. drafted \in 0 .. DraftContext
        BY DEF IInv, TypeOK
      <4>2. CASE drafter = "model"
        <5>1. PICK d \in Nat : d = cap
          BY <1>3
        <5>2. PromptLen + drafted + d <= DraftContext
          BY <1>1, <4>1, <4>2, <5>1, Bounds DEF DraftExhausted
        <5>3. a <= d /\ drafted' = drafted + a + 1 /\ a \in Nat
          BY <1>4, <1>10, <3>1, <4>2, <5>1
        <5>4. PICK was \in Nat : was = drafted
          BY <4>1
        <5>5. was + a + 1 \in 0 .. DraftContext
          BY <5>2, <5>3, <5>4, Bounds
        <5> QED
          BY <5>3, <5>4, <5>5
      <4>3. CASE drafter # "model"
        BY <3>1, <4>1, <4>3
      <4> QED
        BY <4>2, <4>3
    <3>7. TypeOK'
      BY <1>1, <1>14, <2>1, <2>4, <2>10, <3>1, <3>5, <3>6 DEF IInv, TypeOK, Places
    <3>8. bonus # None
      BY <2>4, TurnAssumption
    <3>9. RealizedInv'
      <4>1. Append(Prefix(stream, k), stream[k + 1]) = Prefix(stream, k + 1)
        BY <1>3, <2>3, StreamGrows
      <4>2. generated' = Append(realized', pending')
        BY <2>1, <2>2, <2>4, <3>1, <3>3, <3>4, <4>1
      <4> QED
        BY <3>1, <3>8, <4>2 DEF RealizedInv
    <3>10. RoundInv' /\ NeverRefused'
      BY <3>1 DEF RoundInv, NeverRefused
    <3>11. TruthInv'
      BY <2>11, <3>1, <3>8 DEF TruthInv
    <3> QED
      BY <3>5, <3>7, <3>9, <3>10, <3>11 DEF IInv
  <2> QED
    BY <2>13, <2>14
<1> QED
  BY <1>15, <1>16

\* After the whole output the model draws the stream's next token, and a step
\* of it has room.
LEMMA StepsOn ==
  ASSUME IInv, Running, Len(generated) < budget,
         NEW n \in Nat, n = Len(generated), NEW token, token = stream[n + 1]
  PROVE  /\ Drawn(generated) = token /\ Position(generated) <= ContextLength
         /\ RoomFor(generated) \in Ladder
         /\ generated \in Seq(Token \cup {Wrong})
         /\ Ends(generated, token) =>
              \E c \in 0 .. budget : Emitted(generated, token) = Prefix(stream, c) /\ Cut(c)
         /\ ~Ends(generated, token) =>
              /\ Emitted(generated, token) = Append(generated, token)
              /\ Append(generated, token) = Prefix(stream, n + 1)
              /\ n + 1 \in 0 .. budget /\ Open(n + 1)
              /\ Position(Append(generated, token)) <= ContextLength
              /\ RoomFor(Append(generated, token)) \in Ladder
              /\ Append(generated, token) \in Seq(Token \cup {Wrong})
<1>1. TurnTyped /\ Open(n) /\ n < budget /\ n \in 0 .. Horizon /\ n \in 0 .. Horizon + 1
  BY Follows, Bounds DEF IInv
<1>2. generated = Prefix(stream, n)
  BY Follows
<1>3. Drawn(generated) = token
  BY <1>1, <1>2, DrawsNext
<1>4. Position(generated) <= ContextLength
  BY <1>1, Bounds DEF Position
<1>5. RoomFor(generated) \in Ladder /\ generated \in Seq(Token \cup {Wrong})
  BY <1>4, RoomOnLadder DEF IInv, TypeOK
<1>6. PICK out : out = generated
  OBVIOUS
<1>7. /\ Append(out, token) = Prefix(stream, n + 1)
      /\ ~Ends(out, token) => /\ Emitted(out, token) = Prefix(stream, n + 1)
                              /\ Open(n + 1) /\ n + 1 < budget
      /\ Ends(out, token) => \E c \in 0 .. budget : /\ Emitted(out, token) = Prefix(stream, c)
                                                    /\ Cut(c)
  BY <1>1, <1>2, <1>6, EmitsOne
<1>8. ASSUME ~Ends(generated, token)
      PROVE  /\ n + 1 \in 0 .. budget
             /\ Position(Append(generated, token)) <= ContextLength
             /\ RoomFor(Append(generated, token)) \in Ladder
             /\ Append(generated, token) \in Seq(Token \cup {Wrong})
  <2>1. n + 1 < budget
    BY <1>6, <1>7, <1>8
  <2>2. PICK m \in 0 .. Horizon + 1 : m = n + 1 /\ m < budget
    BY <2>1, <1>1, Bounds
  <2>3. PICK after : after = Append(generated, token)
    OBVIOUS
  <2>4. after = Prefix(stream, m)
    BY <1>6, <1>7, <2>2, <2>3
  <2>5. Len(after) = m /\ after \in Seq(Token)
    BY <1>1, <2>4, StreamPrefix
  <2>6. Position(after) <= ContextLength
    BY <2>2, <2>5, Bounds DEF Position
  <2>7. RoomFor(after) \in Ladder
    BY <2>2, <2>5, <2>6, RoomOnLadder
  <2>8. after \in Seq(Token \cup {Wrong})
    <3>1. Token \subseteq Token \cup {Wrong}
      OBVIOUS
    <3> QED
      BY <2>5, <3>1, SeqMonotonic
  <2> QED
    BY <2>1, <2>2, <2>3, <2>6, <2>7, <2>8, Bounds
<1> QED
  BY <1>3, <1>4, <1>5, <1>6, <1>7, <1>8

\* Plain steps realize the pending token and the one decided after it.
LEMMA PlainKeeps == ASSUME IInv, Plain PROVE IInv'
<1>1. /\ Running /\ Len(generated) < budget /\ Len(generated) \in Nat /\ TurnTyped
      /\ pending' = None /\ UNCHANGED <<turn, speculate, built, verify, drafted>>
  BY Bounds DEF Plain, Running, IInv, RoundInv
<1>2. PICK n \in Nat : n = Len(generated)
  BY <1>1
<1>3. PICK token : token = stream[n + 1]
  OBVIOUS
<1>4. Settled = generated
  BY <1>1, Follows DEF Settled
<1>5. (IF pending = None THEN next_token ELSE Drawn(Settled)) = token
  <2>1. Drawn(generated) = token
    BY <1>1, <1>2, <1>3, StepsOn
  <2>2. pending = None => next_token = Drawn(generated)
    BY <1>1, Follows DEF next_token
  <2> QED
    BY <1>4, <2>1, <2>2
<1>6. ~(atVerify /\ ~HandsBack)
  BY <1>1 DEF IInv, TruthInv, HandsBack
<1>7. atVerify' = FALSE
  BY <1>6 DEF Plain
<1>8. ~(Position(Settled) > ContextLength)
  BY <1>1, <1>2, <1>3, <1>4, StepsOn, Bounds DEF Position
<1>9. generated' = Emitted(generated, token)
  BY <1>5, <1>6, <1>8 DEF Plain
<1>10. CASE Ends(generated, token)
  <2>1. /\ at' = "end" /\ realized' = generated /\ row' = generated
        /\ bucket' = RoomFor(generated)
    BY <1>4, <1>5, <1>6, <1>8, <1>10 DEF Plain
  <2>2. PICK c \in 0 .. budget : generated' = Prefix(stream, c) /\ Cut(c)
    BY <1>1, <1>2, <1>3, <1>9, <1>10, StepsOn
  <2>3. TurnTyped' /\ OutputInv' /\ generated' \in Seq(Token \cup {Wrong})
    BY <1>1, <2>1, <2>2, OutputAfter
  <2>4. RoomFor(generated) \in Ladder /\ generated \in Seq(Token \cup {Wrong})
    BY <1>1, <1>2, <1>3, StepsOn
  <2>5. TypeOK'
    BY <1>1, <1>7, <2>1, <2>3, <2>4 DEF IInv, TypeOK, Places
  <2>6. RealizedInv' /\ RoundInv' /\ TruthInv' /\ NeverRefused'
    BY <2>1 DEF RealizedInv, RoundInv, TruthInv, NeverRefused, Running
  <2> QED
    BY <2>3, <2>5, <2>6 DEF IInv
<1>11. CASE ~Ends(generated, token)
  <2>1. PICK after : after = Append(generated, token)
    OBVIOUS
  <2>2. /\ Emitted(generated, token) = after
        /\ after = Prefix(stream, n + 1)
        /\ n + 1 \in 0 .. budget /\ Open(n + 1)
        /\ Position(after) <= ContextLength
        /\ RoomFor(after) \in Ladder
        /\ after \in Seq(Token \cup {Wrong})
    BY <1>1, <1>2, <1>3, <1>11, <2>1, StepsOn
  <2>3. Position(after) \in Int /\ ContextLength \in Int
    <3>1. n + 1 \in 0 .. Horizon + 1
      BY <2>2, Bounds
    <3>2. PICK m \in 0 .. Horizon + 1 : m = n + 1
      BY <3>1
    <3>3. Len(after) = m
      BY <1>1, <2>2, <3>2, StreamPrefix
    <3> QED
      BY <3>3, <3>2, Bounds DEF Position
  <2>4. /\ at' = "miss" /\ realized' = after /\ row' = after
        /\ bucket' = RoomFor(after)
    <3>1. ~(Position(after) > ContextLength)
      BY <2>2, <2>3
    <3>2. after = Append(Settled, token)
      BY <1>4, <2>1
    <3> QED
      BY <1>4, <1>5, <1>6, <1>8, <1>11, <3>1, <3>2 DEF Plain
  <2>5. PICK m \in 0 .. budget : m = n + 1
    BY <2>2
  <2>6. TurnTyped' /\ OutputInv' /\ generated' \in Seq(Token \cup {Wrong})
    BY <1>1, <1>9, <2>2, <2>4, <2>5, OutputAfter
  <2>7. TypeOK'
    BY <1>1, <1>7, <2>2, <2>4, <2>6 DEF IInv, TypeOK, Places
  <2>8. RealizedInv'
    BY <1>1, <1>9, <2>2, <2>4 DEF RealizedInv
  <2>9. RoundInv' /\ TruthInv' /\ NeverRefused'
    BY <1>1, <1>7, <2>4 DEF RoundInv, TruthInv, NeverRefused
  <2> QED
    BY <2>6, <2>7, <2>8, <2>9 DEF IInv
<1> QED
  BY <1>10, <1>11

LEMMA MissStepKeeps == ASSUME IInv, MissStep PROVE IInv'
<1>1. /\ Running /\ at = "miss" /\ Len(generated) < budget /\ Len(generated) \in Nat /\ TurnTyped
      /\ UNCHANGED <<turn, pending, speculate, built, verify, atVerify>>
  BY Bounds DEF MissStep, Probing, More, Running, IInv
<1>2. pending = None /\ ~atVerify
  BY <1>1 DEF IInv, RoundInv, TruthInv
<1>3. PICK n \in Nat : n = Len(generated)
  BY <1>1
<1>4. PICK token : token = stream[n + 1]
  OBVIOUS
<1>5. realized = generated /\ row = generated
  BY <1>1, <1>2, Follows
<1>6. next_token = token
  BY <1>1, <1>3, <1>4, <1>5, StepsOn DEF next_token
<1>7. generated' = Emitted(generated, token)
  BY <1>6 DEF MissStep
<1>8. drafted' \in 0 .. DraftContext
  <2>1. CASE UNCHANGED drafted
    BY <2>1 DEF IInv, TypeOK
  <2>2. CASE ~DraftExhausted /\ \E proposal \in Proposals(cap) : Proposed(proposal)
    BY <2>2, ProposedFits
  <2> QED
    BY <2>1, <2>2 DEF MissStep
<1>9. CASE Ends(generated, token)
  <2>1. at' = "end" /\ UNCHANGED <<realized, row, bucket>>
    BY <1>6, <1>9 DEF MissStep
  <2>2. PICK c \in 0 .. budget : generated' = Prefix(stream, c) /\ Cut(c)
    BY <1>1, <1>3, <1>4, <1>7, <1>9, StepsOn
  <2>3. TurnTyped' /\ OutputInv' /\ generated' \in Seq(Token \cup {Wrong})
    BY <1>1, <2>1, <2>2, OutputAfter
  <2>4. TypeOK'
    BY <1>1, <1>8, <2>1, <2>3 DEF IInv, TypeOK, Places
  <2>5. RealizedInv' /\ RoundInv' /\ TruthInv' /\ NeverRefused'
    BY <2>1 DEF RealizedInv, RoundInv, TruthInv, NeverRefused, Running
  <2> QED
    BY <2>3, <2>4, <2>5 DEF IInv
<1>10. CASE ~Ends(generated, token)
  <2>1. PICK after : after = Append(generated, token)
    OBVIOUS
  <2>2. /\ Emitted(generated, token) = after
        /\ after = Prefix(stream, n + 1)
        /\ n + 1 \in 0 .. budget /\ Open(n + 1)
        /\ Position(after) <= ContextLength
        /\ RoomFor(after) \in Ladder
        /\ after \in Seq(Token \cup {Wrong})
    BY <1>1, <1>3, <1>4, <1>10, <2>1, StepsOn
  <2>3. Position(after) \in Int /\ ContextLength \in Int
    <3>1. n + 1 \in 0 .. Horizon + 1
      BY <2>2, Bounds
    <3>2. PICK m \in 0 .. Horizon + 1 : m = n + 1
      BY <3>1
    <3>3. Len(after) = m
      BY <1>1, <2>2, <3>2, StreamPrefix
    <3> QED
      BY <3>3, <3>2, Bounds DEF Position
  <2>4. at' = "miss" /\ realized' = after /\ row' = after /\ bucket' = RoomFor(after)
    <3>1. ~StepRefused(after)
      BY <1>2, <2>2, <2>3 DEF StepRefused
    <3>2. after = Append(realized, next_token)
      BY <1>5, <1>6, <2>1
    <3> QED
      BY <1>1, <1>6, <1>10, <3>1, <3>2 DEF MissStep
  <2>5. PICK m \in 0 .. budget : m = n + 1
    BY <2>2
  <2>6. TurnTyped' /\ OutputInv' /\ generated' \in Seq(Token \cup {Wrong})
    BY <1>1, <1>7, <2>2, <2>4, <2>5, OutputAfter
  <2>7. TypeOK'
    BY <1>1, <1>8, <2>2, <2>4, <2>6 DEF IInv, TypeOK, Places
  <2>8. RealizedInv'
    BY <1>1, <1>2, <1>7, <2>2, <2>4 DEF RealizedInv
  <2>9. RoundInv' /\ TruthInv' /\ NeverRefused'
    BY <1>1, <1>2, <2>4 DEF RoundInv, TruthInv, NeverRefused
  <2> QED
    BY <2>6, <2>7, <2>8, <2>9 DEF IInv
<1> QED
  BY <1>9, <1>10

-----------------------------------------------------------------------------
(* The theorems.                                                            *)

LEMMA SpeculativeInit == Init => IInv
<1> SUFFICES ASSUME Init PROVE IInv
  OBVIOUS
<1>1. TurnTyped /\ Len(generated) = 0 /\ budget \in Nat
  BY TurnAssumption DEF Init, TurnTyped
<1>2. TypeOK
  <2>1. << >> \in Seq(Token \cup {Wrong})
    BY EmptySeq
  <2>2. speculate \in BOOLEAN
    <3>1. (draft_cap > 0) \in BOOLEAN
      OBVIOUS
    <3> QED
      BY <3>1 DEF Init
  <2>3. /\ generated \in Seq(Token \cup {Wrong}) /\ realized \in Seq(Token \cup {Wrong})
        /\ row \in Seq(Token \cup {Wrong})
    BY <2>1, Zenon DEF Init
  <2>4. atVerify \in BOOLEAN /\ pending \in Token \cup {Wrong, None} /\ at \in Places
    BY Zenon DEF Init, Places
  <2>5. bucket \in Ladder /\ built \in Ladder
    BY Zenon DEF Init
  <2>6. drafted = 0 /\ verify = 0
    BY Zenon DEF Init
  <2>7. drafted \in 0 .. DraftContext /\ verify \in {0} \cup Ladder
    BY <2>6, TurnAssumption
  <2> QED
    BY <2>2, <2>3, <2>4, <2>5, <2>7, Zenon DEF TypeOK
<1>3. OutputInv
  <2>1. Prefix(stream, 0) = << >>
    BY SubSeqEmpty DEF Prefix
  <2>2. Open(0)
    BY <1>1 DEF Open
  <2> QED
    BY <1>1, <2>1, <2>2 DEF Init, OutputInv
<1>4. RealizedInv /\ RoundInv /\ TruthInv /\ NeverRefused
  BY DEF Init, RealizedInv, RoundInv, TruthInv, NeverRefused
<1> QED
  BY <1>1, <1>2, <1>3, <1>4 DEF IInv

LEMMA SpeculativeInductive == IInv /\ [Next]_vars => IInv'
<1> SUFFICES ASSUME IInv, [Next]_vars PROVE IInv'
  OBVIOUS
<1>1. CASE UNCHANGED vars
  <2>1. UNCHANGED <<turn, generated, realized, row, pending, speculate, bucket, built, verify,
                    atVerify, drafted, at>>
    BY <1>1 DEF vars, turn
  <2>2. TurnTyped' /\ OutputInv'
    <3>1. IF at' \in {"end", "done"} THEN Cut(Len(generated)) ELSE Open(Len(generated))
      BY <2>1 DEF IInv, OutputInv
    <3> QED
      BY <2>1, <3>1, OutputStays
  <2>3. TypeOK' /\ RealizedInv' /\ TruthInv' /\ NeverRefused'
    BY <2>1 DEF IInv, TypeOK, RealizedInv, TruthInv, NeverRefused, Running
  <2>4. RoundInv'
    BY <2>1 DEF IInv, RoundInv, turn, Position, cap, draft_cap, Least
  <2> QED
    BY <2>2, <2>3, <2>4 DEF IInv
<1>2. ASSUME Retire \/ AfterRetire \/ Decide PROVE IInv'
  BY <1>2, RetireKeeps, AfterRetireKeeps, DecideKeeps
<1>3. ASSUME NEW draft \in Proposals(cap), Batch(draft) PROVE IInv'
  BY <1>3, BatchKeeps
<1>4. ASSUME NoBatch \/ Plain PROVE IInv'
  BY <1>4, NoBatchKeeps, PlainKeeps
<1>5. ASSUME ProbeHits \/ MissStep \/ LeaveMisses PROVE IInv'
  BY <1>5, ProbeHitsKeeps, MissStepKeeps, LeaveMissesKeeps
<1>6. ASSUME at = "propose" \/ (Probing /\ cap > 0), DrafterFails PROVE IInv'
  BY <1>6, DrafterFailsKeeps
<1>7. ASSUME TurnEnds PROVE IInv'
  BY <1>7, TurnEndsKeeps
<1> QED
  BY <1>1, <1>2, <1>3, <1>4, <1>5, <1>6, <1>7 DEF Next

\* However the drafter proposes, the gate opens and the buckets grow, the
\* inductive invariant of generate_stream_speculative holds.
THEOREM SpeculativeInvariant == Spec => []IInv
BY SpeculativeInit, SpeculativeInductive, PTL DEF Spec

\* The state of the turn keeps its shape: the bucket stays on the ladder and
\* the draft model within its own context (make_verify, draft_pairing_refusal).
THEOREM SpeculativeTypeCorrect == Spec => []TypeOK
<1>1. IInv => TypeOK
  BY DEF IInv
<1> QED
  BY <1>1, SpeculativeInvariant, PTL

\* The output is at every moment what the plain loop emits, and all of it once
\* the turn is done: "byte-identical to generate_stream_decode".
THEOREM SpeculativeOutputIdentical == Spec => []OutputIdentical
<1>1. ASSUME IInv PROVE OutputIdentical
  <2>1. /\ TurnTyped /\ Len(generated) \in 0 .. budget
        /\ generated = Prefix(stream, Len(generated))
        /\ IF at \in {"end", "done"} THEN Cut(Len(generated)) ELSE Open(Len(generated))
    BY <1>1 DEF IInv, OutputInv
  <2>2. PICK n \in 0 .. budget : n = Len(generated)
    BY <2>1
  <2>3. /\ generated = Prefix(stream, n) /\ (Open(n) \/ Cut(n))
        /\ at = "done" => Cut(n)
    BY <2>1, <2>2
  <2>4. /\ n <= Len(plain_output)
        /\ Prefix(stream, n) = Prefix(plain_output, n)
        /\ Cut(n) => plain_output = Prefix(stream, n)
    BY <2>1, <2>3, OpenWithin
  <2> QED
    BY <2>2, <2>3, <2>4 DEF OutputIdentical
<1> QED
  BY <1>1, SpeculativeInvariant, PTL

\* A finished turn has handed the truth back to the session ("Turn end").
THEOREM SpeculativeTruthHome == Spec => []TruthHome
<1>1. IInv => TruthHome
  BY DEF IInv, TruthInv, TruthHome
<1> QED
  BY <1>1, SpeculativeInvariant, PTL

\* No step meets the verify runner's hold on the truth and no batch the end of
\* its bucket or chunk: the session refuses nothing the turn asks of it.
THEOREM SpeculativeNeverRefused == Spec => []NeverRefused
<1>1. IInv => NeverRefused
  BY DEF IInv
<1> QED
  BY <1>1, SpeculativeInvariant, PTL

\* Between batches and steps the session has realized what was emitted, less
\* at most the pending token.
THEOREM SpeculativeRealizedFollows == Spec => []RealizedFollows
<1>1. IInv => RealizedFollows
  BY DEF IInv, RealizedInv, RealizedFollows, Running
<1> QED
  BY <1>1, SpeculativeInvariant, PTL
===============================================================================
