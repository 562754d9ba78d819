------------------------------- MODULE TokenLog -------------------------------
(***************************************************************************)
(* What a decode session promises its callers (decode.rs, DecodeSession):  *)
(* a log of realized tokens that passes extend and rewinds cut, and a      *)
(* logit row that was always computed from exactly the log it follows.     *)
(* Where the K/V bytes live, which runner carries them, how wide the       *)
(* bucket is and how a pass is batched are invisible here.                 *)
(***************************************************************************)
EXTENDS Integers, Sequences

CONSTANTS Token,          \* the vocabulary
          ContextLength   \* the model's trained position ceiling

VARIABLES log,   \* the realized tokens, in order
          row    \* the token sequence the last returned logits follow

logVars == <<log, row>>

Prefix(s, n) == SubSeq(s, 1, n)

LogInit == log = <<>> /\ row = <<>>

\* A pass (a step, one chunk of a prefill, an accepted batch) appends tokens
\* and returns the logits that follow the whole new log.
Extend == /\ Len(log') \in Len(log) + 1 .. ContextLength
          /\ Prefix(log', Len(log)) = log
          /\ row' = log'

\* A verify pass returns logits for a continuation the log does not adopt.
Trial == /\ Len(row') > Len(log)
         /\ Prefix(row', Len(log)) = log
         /\ UNCHANGED log

\* A rewind keeps a prefix.
Cut == /\ \E n \in 0 .. Len(log) : log' = Prefix(log, n)
       /\ UNCHANGED row

LogNext == Extend \/ Trial \/ Cut

LogSpec == LogInit /\ [][LogNext]_logVars
===============================================================================
