------------------------------ MODULE KappaStore ------------------------------
(***************************************************************************)
(* What the download worker and the generate worker share in the origin's  *)
(* private file system (apps/web/src: download.worker.ts,                  *)
(* generate.worker.ts, ipc.ts): the content-addressed files of tensors/,   *)
(* their exclusive access handles, and the directory of one model.         *)
(*                                                                         *)
(* A label names one content.  The file of a label may hold that content,  *)
(* be cut short by a crash in the middle of a synchronous write, or be     *)
(* rotten (of the right length and other bytes).  One revision of one      *)
(* model is published; the shard is the sequence of its tensors.           *)
(***************************************************************************)
EXTENDS Naturals, Sequences, SequencesExt

CONSTANTS Order,      \* the tensors, in the order of the shard
          Eligible,   \* projection weights: quantized whole, the wide form evaporates
          Heads       \* the head: quantized by chunk, the wide form stays needed

Tensors == ToSet(Order)

ASSUME StoreAssumption ==
  /\ Order \in Seq(Tensors) /\ IsInjective(Order)
  /\ Eligible \subseteq Tensors /\ Heads \subseteq Tensors \ Eligible

Wide(t) == <<"wide", t>>
Artifact(t) == <<"artifact", t>>      \* derived from the tensor
Mistaken(t) == <<"mistaken", t>>      \* derived from a rotten copy of it

Quantized == Eligible \cup Heads
Labels == {Wide(t) : t \in Tensors} \cup {Artifact(t) : t \in Quantized}
            \cup {Mistaken(t) : t \in Quantized}

VARIABLES
  blob,    \* label -> what its file holds
  held,    \* the labels whose file the session holds an exclusive handle of
  dir,     \* the model's directory: which of its records exist, and the quant map
  rots,    \* history: files that rotted
  tears    \* history: writes cut short

store == <<blob, held, dir, rots, tears>>

NoDir == [config |-> FALSE, sources |-> FALSE, manifest |-> FALSE, stages |-> FALSE,
          ready |-> FALSE, quant |-> <<>>, archive |-> FALSE]

StoreInit ==
  /\ blob = [l \in Labels |-> "none"]
  /\ held = {}
  /\ dir = NoDir
  /\ rots = 0 /\ tears = 0

Present(l) == blob[l] # "none"
Free(l) == l \notin held

\* removeEntry().catch(): a file whose handle is open stays.
Evaporated(l) == IF Free(l) THEN [blob EXCEPT ![l] = "none"] ELSE blob

\* Fault: the length is not compared with the shape.
DerivedUnmeasured(t, content) == IF content = "good" THEN {Artifact(t)} ELSE {Mistaken(t)}

\* What the derivation makes of the bytes it is given; short bytes are refused
\* by their length.
Derived(t, content) ==
  CASE content = "good" -> {Artifact(t)}
    [] content = "rot" -> {Mistaken(t)}
    [] content = "torn" -> {}

StoreTypeOK ==
  /\ blob \in [Labels -> {"none", "torn", "rot", "good"}]
  /\ held \subseteq Labels
  /\ dir \in [config : BOOLEAN, sources : BOOLEAN, manifest : BOOLEAN, stages : BOOLEAN,
              ready : BOOLEAN, archive : BOOLEAN, quant : Seq(Tensors \X Labels)]
  /\ rots \in Nat /\ tears \in Nat
===============================================================================
