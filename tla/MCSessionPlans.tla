---------------------------- MODULE MCSessionPlans ----------------------------
(* Finite instances of DecodeSession over several plans in one run.  The     *)
(* view leaves out of the fingerprint what no guard and no walk reads: the   *)
(* last logits, which are an output; the labels of a runner that does not    *)
(* hold the truth; and the host buffers while a runner's labels do, since    *)
(* the hand-off overwrites them before anything reads them.                  *)
EXTENDS DecodeSession, TLC

\* The plans one run covers: a session is opened over one of them for good.
CONSTANT Plans

VARIABLE plan

Over(p) == INSTANCE DecodeSession WITH Plan <- p

MCInit == plan \in Plans /\ Init

MCNext == \E p \in Plans : plan = p /\ Over(p)!Next /\ UNCHANGED plan

MCSpec == MCInit /\ [][MCNext]_<<plan, vars>>

TokenSymmetry == Permutations(Token)

Labelled == truth \in Runners /\ carried[truth] # NoCache

SessionView ==
  <<plan, tokens, bucket, HandedBack, Labelled, truth, seeder, verify, rebuild, call>>
===============================================================================
