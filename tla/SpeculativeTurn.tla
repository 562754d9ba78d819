---------------------------- MODULE SpeculativeTurn ----------------------------
(***************************************************************************)
(* One speculative turn (generate_stream_speculative in commands/          *)
(* generate.rs, over DecodeSession and a Drafter), from the end of its     *)
(* prefill: the folded regime, in which the verify runner commits the      *)
(* model's own pending token and checks a draft behind it, and the plain   *)
(* steps it falls back to.                                                 *)
(*                                                                         *)
(* The token the model draws is a pure function of the logits and the      *)
(* position (sample_at), so a turn is given by the stream of tokens the    *)
(* model draws when every one is realized; over any other sequence it      *)
(* draws Wrong.  The drafter is whatever proposes tokens: its proposals    *)
(* are arbitrary, and so is the acceptance average that gates them.        *)
(***************************************************************************)
EXTENDS Integers, Sequences

CONSTANTS Token,         \* the vocabulary, with EOS
          EOS,
          Wrong,         \* what the model draws after a sequence it did not produce
          None,          \* no pending token
          PromptLen,     \* tokens of the prompt
          ContextLength,
          Ladder,        \* rungs of the window ladder
          MaxDraft,      \* the verify runner's chunk
          Horizon,       \* bound: the largest budget of the turn
          Drafters,      \* the drafters a turn may have: see drafter below
          DraftContext   \* the draft model's context

ASSUME TurnAssumption ==
  /\ EOS \in Token /\ Wrong \notin Token /\ None \notin Token
  /\ PromptLen \in Nat \ {0} /\ MaxDraft \in Nat \ {0}
  /\ Ladder \subseteq Nat /\ ContextLength \in Ladder
  /\ \A rung \in Ladder : rung <= ContextLength
  /\ Horizon \in Nat /\ PromptLen + Horizon <= ContextLength
  /\ Drafters \subseteq {"lookup", "model"}
  \* draft_pairing_refusal
  /\ DraftContext \in Nat /\ DraftContext >= ContextLength

VARIABLES drafter,    \* prompt lookup, or a draft model (ModelDrafter)
          stream,     \* the tokens the model draws, in order
          stopAt,     \* generated tokens after which a stop string is complete
          budget,     \* tokens the turn may generate
          generated,  \* the turn's output
          realized,   \* the session's realized tokens after the prompt
          row,        \* the sequence the loop's logit row follows
          pending,    \* the emitted token no pass has realized yet
          speculate,  \* may the turn still speculate?
          bucket,     \* the session's bucket
          built,      \* bucket make_verify builds for
          verify,     \* bucket of the turn's verify runner, 0 before it is built
          atVerify,   \* does the verify runner carry the truth?
          drafted,    \* how many tokens after the prompt the draft model realized
          at          \* where the turn is

turn == <<drafter, stream, stopAt, budget>>
vars == <<drafter, stream, stopAt, budget, generated, realized, row, pending, speculate,
          bucket, built, verify, atVerify, drafted, at>>

Prefix(s, n) == SubSeq(s, 1, n)
Least(a, b) == IF a <= b THEN a ELSE b

Places == {"top", "propose", "plain", "miss", "end", "done",
           "stale", "refused", "drafter failed"}

-----------------------------------------------------------------------------
(* The rule both paths share.                                              *)

Drawn(seq) == IF seq = Prefix(stream, Len(seq)) THEN stream[Len(seq) + 1] ELSE Wrong

\* next_token over the loop's row, at the session's position.
next_token == IF row = realized THEN Drawn(realized) ELSE Wrong

\* emit, and whether it ends the turn.
Emitted(out, token) == IF token = EOS THEN out ELSE Append(out, token)
Ends(out, token) == \/ token = EOS
                    \/ Len(out) + 1 = stopAt
                    \/ Len(out) + 1 >= budget

\* emit of a run of tokens, up to the first one that ends the turn.
EndsAt(out, tokens) == {i \in 1 .. Len(tokens) : Ends(out \o Prefix(tokens, i - 1), tokens[i])}
EmittedAll(out, tokens) ==
  LET ends == EndsAt(out, tokens)
  IN IF ends = {} THEN out \o tokens
     ELSE LET i == CHOOSE i \in ends : \A j \in ends : i <= j
          IN Emitted(out \o Prefix(tokens, i - 1), tokens[i])

-----------------------------------------------------------------------------
(* The session's operations.                                               *)

Position(seq) == PromptLen + Len(seq)

\* Fault: the bucket grows to the position, not to a rung.
RoomExact(seq) == IF Position(seq) <= bucket THEN bucket ELSE Position(seq)

\* The bucket after a step has grown it, if it had to.
RoomFor(seq) ==
  IF Position(seq) <= bucket THEN bucket
  ELSE CHOOSE rung \in Ladder : /\ rung >= Position(seq)
                                /\ \A low \in Ladder : low >= Position(seq) => rung <= low

\* A step is refused while the verify runner carries the truth, and past the
\* context.
StepRefused(seq) == atVerify \/ Position(seq) > ContextLength

draft_cap == MaxDraft - 1
min_engage == IF draft_cap >= 1 THEN draft_cap ELSE 1
cap == Least(draft_cap, budget - Len(generated))

Proposals(n) == UNION {[1 .. k -> Token] : k \in 0 .. n}

\* propose: a draft model steps every token it proposes, and its session
\* fails at its own context; prompt lookup keeps nothing.
Proposed(proposal) ==
  IF drafter = "model"
    THEN Len(proposal) = cap /\ drafted' = drafted + cap
    ELSE UNCHANGED drafted

DraftExhausted == drafter = "model" /\ PromptLen + drafted + cap > DraftContext

DrafterFails == /\ DraftExhausted
                /\ at' = "drafter failed"
                /\ UNCHANGED <<turn, generated, realized, row, pending, speculate, bucket, built,
                               verify, atVerify, drafted>>

More == Len(generated) < budget

-----------------------------------------------------------------------------
(* The outer loop.                                                         *)

\* Fault: the pending row is not counted.
LeavesBucketLate == Position(realized) + cap > bucket

LeavesBucket == Position(realized) + cap + 1 > bucket

\* A batch would leave the bucket: the truth goes back, plain steps follow.
Retire == /\ at = "top" /\ More /\ speculate /\ LeavesBucket
          /\ atVerify' = FALSE
          /\ speculate' = FALSE
          /\ at' = "plain"
          /\ UNCHANGED <<turn, generated, realized, row, pending, bucket, built, verify, drafted>>

AfterRetire == /\ at = "top" /\ More /\ ~speculate
               /\ at' = "plain"
               /\ UNCHANGED <<turn, generated, realized, row, pending, speculate, bucket, built,
                              verify, atVerify, drafted>>

\* Decide the token the batch commits first, unless one is pending.
Decide == /\ at = "top" /\ More /\ speculate /\ ~LeavesBucket
          /\ IF pending = None
               THEN /\ generated' = Emitted(generated, next_token)
                    /\ IF Ends(generated, next_token)
                         THEN at' = "end" /\ UNCHANGED pending
                         ELSE at' = "propose" /\ pending' = next_token
               ELSE at' = "propose" /\ UNCHANGED <<generated, pending>>
          /\ UNCHANGED <<turn, realized, row, speculate, bucket, built, verify, atVerify, drafted>>

\* Fault: the whole draft is accepted.
AcceptedWhole(draft) == Len(draft)

\* speculate: the longest prefix of the draft the model itself draws after
\* the pending token, and the token it draws where they diverge.
Accepted(draft) ==
  CHOOSE n \in 0 .. Len(draft) :
    /\ \A i \in 1 .. n : Drawn(realized \o <<pending>> \o Prefix(draft, i - 1)) = draft[i]
    /\ n = Len(draft) \/ Drawn(realized \o <<pending>> \o Prefix(draft, n)) # draft[n + 1]

\* One folded batch; the verify runner is built on the first.  (That building
\* it, or the drafter's own commit, fails and ends the turn is left out.)
Batch(draft) ==
  LET n == Accepted(draft)
      kept == Prefix(draft, n)
      bonus == Drawn(realized \o <<pending>> \o kept)
      emits == Append(kept, bonus)
      runner == IF verify = 0 THEN built ELSE verify
  IN /\ at = "propose" /\ Len(draft) >= min_engage
     /\ ~DraftExhausted
     /\ verify' = runner
     /\ IF Position(realized) + 1 + Len(draft) > bucket \/ (runner = bucket /\ 1 + Len(draft) > MaxDraft)
          THEN at' = "refused" /\ Proposed(draft) /\ UNCHANGED <<realized, generated, pending, atVerify>>
        ELSE IF runner # bucket
          THEN at' = "stale" /\ Proposed(draft) /\ UNCHANGED <<realized, generated, pending, atVerify>>
        ELSE /\ realized' = realized \o <<pending>> \o kept
             /\ atVerify' = TRUE
             /\ generated' = EmittedAll(generated, emits)
             /\ IF EndsAt(generated, emits) # {}
                  THEN at' = "end" /\ Proposed(draft) /\ UNCHANGED pending
                  ELSE /\ at' = "top"
                       /\ pending' = bonus
                       \* commit rewinds the draft model and steps the bonus
                       /\ IF drafter = "model"
                            THEN Len(draft) = cap /\ drafted' = drafted + n + 1
                            ELSE UNCHANGED drafted
     /\ UNCHANGED <<turn, row, speculate, bucket, built>>

\* Fault: a missed proposal goes round again without a step.
NoBatchSpins == /\ at = "propose" /\ ~DraftExhausted
                /\ at' = "top"
                /\ UNCHANGED <<turn, generated, realized, row, pending, speculate, bucket, built,
                               verify, atVerify, drafted>>

\* The proposal is too short, or the acceptance average closed the gate.
NoBatch == /\ at = "propose" /\ ~DraftExhausted
           /\ \E proposal \in Proposals(cap) : Proposed(proposal)
           /\ at' = "plain"
           /\ UNCHANGED <<turn, generated, realized, row, pending, speculate, bucket, built,
                          verify, atVerify>>

\* The plain branch: hand the truth back, realize the pending token, then
\* decide and step one more.
\* Fault: the pending token is emitted and never realized.
SettledWithout == realized

Settled == IF pending = None THEN realized ELSE Append(realized, pending)
HandsBack == pending # None /\ verify # 0

Plain ==
  LET token == IF pending = None THEN next_token ELSE Drawn(Settled)
      after == Append(Settled, token)
      held == atVerify /\ ~HandsBack
  IN /\ at = "plain"
     /\ pending' = None
     /\ atVerify' = held
     /\ IF held \/ Position(Settled) > ContextLength
          THEN at' = "refused" /\ UNCHANGED <<generated, realized, row, bucket>>
        ELSE /\ generated' = Emitted(generated, token)
             /\ IF Ends(generated, token)
                  THEN /\ at' = "end"
                       /\ realized' = Settled
                       /\ row' = Settled
                       /\ bucket' = RoomFor(Settled)
                ELSE IF Position(after) > ContextLength
                  THEN at' = "refused" /\ realized' = Settled /\ row' = Settled /\ UNCHANGED bucket
                ELSE /\ at' = "miss"
                     /\ realized' = after
                     /\ row' = after
                     /\ bucket' = RoomFor(after)
     /\ UNCHANGED <<turn, speculate, built, verify, drafted>>

-----------------------------------------------------------------------------
(* The inner loop: plain steps while the drafter keeps missing.            *)

Probing == at = "miss" /\ speculate /\ More

\* A probe proposes enough: back to the folded regime.
ProbeHits == /\ Probing /\ cap > 0 /\ ~DraftExhausted
             /\ \E proposal \in Proposals(cap) : Len(proposal) >= min_engage /\ Proposed(proposal)
             /\ at' = "top"
             /\ UNCHANGED <<turn, generated, realized, row, pending, speculate, bucket, built,
                            verify, atVerify>>

\* The probe proposes too little, or the gate is closed and nothing probes.
MissStep ==
  LET after == Append(realized, next_token)
  IN /\ Probing
     /\ \/ UNCHANGED drafted
        \/ /\ cap > 0 /\ ~DraftExhausted /\ cap < min_engage
           /\ \E proposal \in Proposals(cap) : Proposed(proposal)
     /\ generated' = Emitted(generated, next_token)
     /\ IF Ends(generated, next_token)
          THEN at' = "end" /\ UNCHANGED <<realized, row, bucket>>
        ELSE IF StepRefused(after)
          THEN at' = "refused" /\ UNCHANGED <<realized, row, bucket>>
        ELSE /\ realized' = after
             /\ row' = after
             /\ bucket' = RoomFor(after)
             /\ UNCHANGED at
     /\ UNCHANGED <<turn, pending, speculate, built, verify, atVerify>>

LeaveMisses == /\ at = "miss" /\ ~(speculate /\ More)
               /\ at' = "top"
               /\ UNCHANGED <<turn, generated, realized, row, pending, speculate, bucket, built,
                              verify, atVerify, drafted>>

\* Fault: the truth stays with the verify runner.
TurnEndsAway == /\ at = "end" \/ (at = "top" /\ ~More)
                /\ at' = "done"
                /\ UNCHANGED <<turn, generated, realized, row, pending, speculate, bucket, built,
                               verify, atVerify, drafted>>

\* Turn end: the truth goes back to the session.
TurnEnds == /\ at = "end" \/ (at = "top" /\ ~More)
            /\ atVerify' = FALSE
            /\ at' = "done"
            /\ UNCHANGED <<turn, generated, realized, row, pending, speculate, bucket, built,
                           verify, drafted>>

-----------------------------------------------------------------------------

Init == /\ drafter \in Drafters
        /\ budget \in 0 .. Horizon
        /\ stream \in [1 .. Horizon + 1 -> Token]
        /\ stopAt \in 1 .. Horizon + 1
        /\ generated = <<>> /\ realized = <<>> /\ row = <<>>
        /\ pending = None
        /\ speculate = (draft_cap > 0)
        /\ bucket \in {rung \in Ladder : rung >= PromptLen}
        \* The runner behind make_verify was built before the prefill, which
        \* may have grown the bucket since.
        /\ built \in {rung \in Ladder : rung <= bucket}
        /\ verify = 0
        /\ atVerify = FALSE
        /\ drafted = 0
        /\ at = "top"

Next == \/ Retire \/ AfterRetire \/ Decide
        \/ \E draft \in Proposals(cap) : Batch(draft)
        \/ NoBatch \/ Plain
        \/ ProbeHits \/ MissStep \/ LeaveMisses
        \/ (at = "propose" \/ (Probing /\ cap > 0)) /\ DrafterFails
        \/ TurnEnds

Spec == Init /\ [][Next]_vars

\* The loop is one synchronous call.
FairSpec == Spec /\ WF_vars(Next)

-----------------------------------------------------------------------------
(* Properties.                                                             *)

Failed == at \in {"stale", "refused", "drafter failed"}
Over == at = "done" \/ Failed

TypeOK == /\ generated \in Seq(Token \cup {Wrong}) /\ realized \in Seq(Token \cup {Wrong})
          /\ row \in Seq(Token \cup {Wrong}) /\ drafted \in 0 .. DraftContext
          /\ pending \in Token \cup {Wrong, None}
          /\ speculate \in BOOLEAN /\ atVerify \in BOOLEAN
          /\ bucket \in Ladder /\ built \in Ladder /\ verify \in {0} \cup Ladder
          /\ at \in Places

\* What generate_stream_decode emits for the same turn: the drawn tokens up
\* to the first end of stream, stop string or budget.
plain_output ==
  LET eos == {i \in 1 .. Horizon + 1 : stream[i] = EOS}
      cut == CHOOSE n \in 0 .. budget :
               /\ n = budget \/ n = stopAt \/ n + 1 \in eos
               /\ \A m \in 0 .. n - 1 : m # stopAt /\ m + 1 \notin eos
  IN Prefix(stream, cut)

\* Whatever the drafter proposes and wherever the regime changes, the turn
\* emits what the plain loop emits, never a token more and, once it is done,
\* never one less ("byte-identical to generate_stream_decode").
OutputIdentical ==
  /\ Len(generated) <= Len(plain_output)
  /\ generated = Prefix(plain_output, Len(generated))
  /\ at = "done" => generated = plain_output

\* A finished turn leaves the truth with the session, so that the next
\* turn's rewind and prefill read current rows ("Turn end" in generate.rs).
TruthHome == at = "done" => ~atVerify

\* The turn never makes a call its session refuses: no step while the verify
\* runner carries the truth, no batch past the bucket or the chunk.
NeverRefused == at # "refused"

\* Between batches and steps the session has realized what was emitted, less
\* at most the one pending token: a batch's accepted tokens are neither lost
\* nor realized twice when the regime changes.
RealizedFollows ==
  at \in {"top", "plain", "miss"} =>
    generated = IF pending = None THEN realized ELSE Append(realized, pending)

\* "It retires to plain decode - never worse - the moment a batch would leave
\* the current bucket" (generate.rs); "a stale/absent verify pipeline falls
\* back to plain decode" (ipc.ts).
NeverStale == at # "stale"

\* Every turn ends: each round of the loop emits a token or leaves it.
TurnReturns == <>Over
===============================================================================
