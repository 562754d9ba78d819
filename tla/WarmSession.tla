------------------------------ MODULE WarmSession ------------------------------
(***************************************************************************)
(* The generate worker's session over the κ-store (generate.worker.ts:     *)
(* warmStagedSession, buildSession, ensureQuantArtifacts, the resolver and *)
(* its invalidator; materialize.rs and runner.rs: a label is verified the  *)
(* first time the session resolves it).  The session is built for the      *)
(* model of the store; the build's steps between    *)
(* two awaits are actions, so a download interleaves with them.            *)
(***************************************************************************)
EXTENDS KappaStore

CONSTANT NetworkLies   \* the recorded provenance may answer with other bytes

ASSUME NetworkAssumption == NetworkLies \in BOOLEAN

VARIABLE ws

Cold == [at |-> "cold", quant |-> <<>>, sources |-> FALSE, todo |-> <<>>, overlay |-> {},
         verified |-> {}, served |-> "good"]

WsInit == ws = Cold

Network == IF NetworkLies THEN {"good", "rot"} ELSE {"good"}

IsWide(l) == l[1] = "wide"
TensorOf(l) == l[2]

Artifacts(quant) == [k \in DOMAIN quant |-> quant[k][2]]

\* The files a session opens, in this order, and the labels its constants name:
\* a projection in the quant map is bound by its artifact alone.
Opens(quant) == [k \in DOMAIN Order |-> Wide(Order[k])] \o Artifacts(quant)
Needed(quant) ==
  ToSet(Opens(quant)) \ {Wide(t) : t \in {e[1] : e \in ToSet(quant)} \cap Eligible}

-----------------------------------------------------------------------------
(* Building.                                                                *)

\* The model's records are read; without one of them the build fails and the
\* page terminates the worker, which leaves it as cold as before.
Build ==
  /\ ws.at = "cold"
  /\ dir.ready /\ dir.config /\ dir.manifest
  /\ ws' = [Cold EXCEPT !.at = "ensure", !.quant = dir.quant, !.sources = dir.sources,
                        !.todo = Artifacts(dir.quant)]
  /\ UNCHANGED store

\* A turn that fails, or is cancelled, terminates the worker: its handles are
\* freed whoever opened them, and its session is gone.
WorkerEnds ==
  /\ ws' = Cold
  /\ held' = {}
  /\ UNCHANGED <<blob, dir, rots, tears>>

Terminate == ws # Cold /\ WorkerEnds

\* ensureQuantArtifacts: an artifact's file is there, whatever it holds ...
ArtifactThere ==
  /\ ws.at = "ensure" /\ ws.todo # <<>>
  /\ Present(Head(ws.todo))
  /\ ws' = [ws EXCEPT !.todo = Tail(@)]
  /\ UNCHANGED store

\* ... or it is derived again from the wide form and compared with its label.
ArtifactMissing ==
  /\ ws.at = "ensure" /\ ws.todo # <<>>
  /\ ~Present(Head(ws.todo))
  /\ Present(Wide(TensorOf(Head(ws.todo)))) \/ ws.sources
  /\ LET a == Head(ws.todo)
         t == TensorOf(a)
     IN \E content \in IF Present(Wide(t)) THEN {blob[Wide(t)]} ELSE Network :
          IF Derived(t, content) = {a}
          THEN ws' = [ws EXCEPT !.at = "persist"] /\ UNCHANGED store
          ELSE WorkerEnds

\* A projection's wide file evaporates first.  A refused write keeps the
\* artifact in memory for the session.
Persist ==
  /\ ws.at = "persist"
  /\ LET a == Head(ws.todo)
         rest == IF TensorOf(a) \in Eligible THEN Evaporated(Wide(TensorOf(a))) ELSE blob
         done == [ws EXCEPT !.at = "ensure", !.todo = Tail(@)]
     IN \/ /\ Free(a)
           /\ blob' = [rest EXCEPT ![a] = "good"]
           /\ ws' = done
        \/ /\ blob' = IF Free(a) THEN [rest EXCEPT ![a] = "none"] ELSE rest
           /\ ws' = [done EXCEPT !.overlay = @ \cup {a}]
  /\ UNCHANGED <<held, dir, rots, tears>>

Ensured ==
  /\ ws.at = "ensure" /\ ws.todo = <<>>
  /\ ws' = [ws EXCEPT !.at = "open", !.todo = Opens(ws.quant)]
  /\ UNCHANGED store

\* openSync: a file that is missing or held is left to the provenance.
Open ==
  /\ ws.at = "open" /\ ws.todo # <<>>
  /\ ws' = [ws EXCEPT !.todo = Tail(@)]
  /\ LET l == Head(ws.todo)
     IN held' = IF Present(l) THEN held \cup {l} ELSE held
  /\ UNCHANGED <<blob, dir, rots, tears>>

Opened ==
  /\ ws.at = "open" /\ ws.todo = <<>>
  /\ ws' = [ws EXCEPT !.at = "warm"]
  /\ UNCHANGED store

\* disposeWarm: another model is selected.
Dispose ==
  /\ ws.at = "warm"
  /\ ws' = Cold
  /\ held' = {}
  /\ UNCHANGED <<blob, dir, rots, tears>>

-----------------------------------------------------------------------------
(* Resolving: a buffer of label l is bound to a constant of a stage, while   *)
(* the session is created and at every rematerialization after.              *)

\* The tiers: the overlay, the open handle, the recorded provenance.  An
\* artifact has none.
Resolved(l, handles) ==
  IF l \in ws.overlay THEN {"good"}
  ELSE IF l \in handles THEN {blob[l]}
  ELSE IF IsWide(l) /\ ws.sources THEN Network
  ELSE {}

Bound(l, content) == [ws EXCEPT !.verified = @ \cup {l}, !.served = content]

\* Fault: the first touch is trusted.
AcceptsUnverified(l, content) == TRUE

\* A label verified in this session is not verified again.
Accepts(l, content) == l \in ws.verified \/ content = "good"

Bind ==
  /\ ws.at = "warm"
  /\ \E l \in Needed(ws.quant) : \E content \in Resolved(l, held) :
       Accepts(l, content) /\ ws' = Bound(l, content)
  /\ UNCHANGED store

\* Bytes that do not hash to the label: the handle is closed, the file removed
\* behind the caller's back, and the label resolved once more.
Recover ==
  /\ ws.at = "warm"
  /\ \E l \in Needed(ws.quant) : \E content \in Resolved(l, held) :
       /\ ~Accepts(l, content)
       /\ \E again \in Resolved(l, held \ {l}) :
            /\ again = "good"
            /\ ws' = Bound(l, again)
            /\ held' = held \ {l}
            /\ blob' \in {blob, [blob EXCEPT ![l] = "none"]}
  /\ UNCHANGED <<dir, rots, tears>>

\* Nothing answers, or nothing that hashes to the label: the turn fails.  The
\* removal, if one was asked for, may or may not have happened.
Unresolved ==
  /\ ws.at = "warm"
  /\ \E l \in Needed(ws.quant) :
       \/ Resolved(l, held) = {} /\ UNCHANGED blob
       \/ /\ \E content \in Resolved(l, held) : ~Accepts(l, content)
          /\ Resolved(l, held \ {l}) # {"good"}
          /\ blob' \in {blob, [blob EXCEPT ![l] = "none"]}
  /\ ws' = Cold
  /\ held' = {}
  /\ UNCHANGED <<dir, rots, tears>>

WsNext ==
  \/ Build \/ Terminate \/ ArtifactThere \/ ArtifactMissing \/ Persist \/ Ensured
  \/ Open \/ Opened \/ Dispose
  \/ Bind \/ Recover \/ Unresolved

WsTypeOK ==
  /\ ws.at \in {"cold", "ensure", "persist", "open", "warm"}
  /\ ws.sources \in BOOLEAN
  /\ ws.quant \in Seq(Tensors \X Labels) /\ ws.todo \in Seq(Labels)
  /\ ws.overlay \subseteq Labels /\ ws.verified \subseteq Labels
  /\ ws.served \in {"good", "rot", "torn"}
===============================================================================
