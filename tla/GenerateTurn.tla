----------------------------- MODULE GenerateTurn -----------------------------
(***************************************************************************)
(* A turn of the browser application, from the chat page to the thread     *)
(* pool and back (apps/web/src: Chat.tsx, ipc.ts, generate.worker.ts,      *)
(* holo.ts, pool.worker.ts).  Four kinds of actor talk by messages:        *)
(*                                                                         *)
(*   the Chat component, which prewarms an archive and sends turns, and    *)
(*   forgets its own state whenever the route is left and entered again;   *)
(*   the page module, which owns the one generate worker, the pool of      *)
(*   decode workers and the settlers of the live turn's promise;           *)
(*   the generate worker, one event loop that starts the threaded build,   *)
(*   builds or reuses the warm session and decodes synchronously;          *)
(*   the pool members, which register in the worker's shared memory.       *)
(*                                                                         *)
(* A turn is one call of generate().  Terminating a worker discards what   *)
(* it had been sent and what it had sent.  Archives are staged; tokens and *)
(* progress lines, which decide nothing, are left out, and a session is    *)
(* the archive it was built for.                                           *)
(***************************************************************************)
EXTENDS Integers, Sequences

CONSTANTS Archives,   \* the compiled models the page can select
          Members,    \* the decode workers of a pool
          MaxTurns,   \* bound: calls of generate() in a behaviour
          NoArchive   \* not an archive

ASSUME PoolAssumption == Members # {} /\ MaxTurns \in Nat /\ NoArchive \notin Archives

Turns == 1 .. MaxTurns
NoTurn == 0

VARIABLES
  chat,      \* the mounted Chat component: its archive, `running` and refs
  turn,      \* every call of generate(): what it asks and where its promise is
  page,      \* ipc.ts: activeWorker, its closures' turn, the settlers, poolCommitted
  worker,    \* the generate worker: its queues, module state and running requests
  member,    \* the pool workers the page holds
  displaced  \* history: turns whose settlers a later turn overwrote while they ran

vars == <<chat, turn, page, worker, member, displaced>>

Unused == [kind |-> "send", archive |-> NoArchive, at |-> "unused", home |-> FALSE, awaits |-> NoTurn]

FreshWorker ==
  [inbox |-> <<>>, outbox |-> <<>>, reported |-> FALSE, failed |-> FALSE, ready |-> "no",
   joined |-> {}, warm |-> NoArchive, job |-> [t \in Turns |-> "none"]]

NoPool == [m \in Members |-> "off"]

NoWorker == [active |-> FALSE, settler |-> NoTurn, handler |-> NoTurn, committed |-> FALSE]

Init ==
  /\ chat \in [archive : Archives, running : {FALSE}, prewarmed : {NoArchive}, prewarm : {NoTurn}]
  /\ turn = [t \in Turns |-> Unused]
  /\ page = NoWorker
  /\ worker = FreshWorker
  /\ member = NoPool
  /\ displaced = {}

-----------------------------------------------------------------------------
(* The promise of a turn.                                                  *)

Fresh(t) == turn[t].at = "unused" /\ \A s \in 1 .. t - 1 : turn[s].at # "unused"

Settled(t) == ~\E s \in Turns : s = t /\ turn[s].at \notin {"resolved", "rejected"}

\* A promise settles once.  The continuation of a send re-enables the composer
\* of the component that sent it, if that one is still mounted.
Settle(t, how) ==
  IF t # NoTurn /\ turn[t].at \in {"opening", "posted"}
  THEN /\ turn' = [turn EXCEPT ![t].at = how]
       /\ chat' = IF turn[t].kind = "send" /\ turn[t].home
                  THEN [chat EXCEPT !.running = FALSE] ELSE chat
  ELSE UNCHANGED <<turn, chat>>

\* Fault: the flag survives the worker.
PageAfterKillCommitted == [NoWorker EXCEPT !.committed = page.committed]

\* terminatePool, activeWorker.terminate, clearTurnSettlers.
PageAfterKill == NoWorker

KillWorker ==
  /\ worker' = FreshWorker
  /\ member' = NoPool
  /\ page' = PageAfterKill
  /\ UNCHANGED displaced

-----------------------------------------------------------------------------
(* The Chat component.                                                     *)

\* The prewarm effect: once per archive and mounted component, while idle.
Prewarm ==
  /\ ~chat.running
  /\ chat.prewarmed # chat.archive
  /\ \E t \in Turns :
       /\ Fresh(t)
       /\ turn' = [turn EXCEPT ![t] = [kind |-> "warm", archive |-> chat.archive,
                                       at |-> "opening", home |-> TRUE, awaits |-> NoTurn]]
       /\ chat' = [chat EXCEPT !.prewarmed = chat.archive, !.prewarm = t]
  /\ UNCHANGED <<page, worker, member, displaced>>

\* onSend up to its first await: `running` is read here ...
Click ==
  /\ ~chat.running
  /\ \E t \in Turns :
       /\ Fresh(t)
       /\ turn' = [turn EXCEPT ![t] = [kind |-> "send", archive |-> chat.archive,
                                       at |-> "clicked", home |-> TRUE, awaits |-> NoTurn]]
  /\ UNCHANGED <<chat, page, worker, member, displaced>>

\* ... and set here, after the tokens have been counted.
Begin(t) ==
  /\ turn[t].at = "clicked"
  /\ turn' = [turn EXCEPT ![t].at = "opening",
                          ![t].awaits = IF turn[t].home THEN chat.prewarm ELSE NoTurn]
  /\ chat' = IF turn[t].home THEN [chat EXCEPT !.running = TRUE] ELSE chat
  /\ UNCHANGED <<page, worker, member, displaced>>

\* The selector; a switch drops the handle of the other archive's prewarm.
Switch(a) ==
  /\ ~chat.running
  /\ a # chat.archive
  /\ chat' = [chat EXCEPT !.archive = a, !.prewarm = NoTurn]
  /\ UNCHANGED <<turn, page, worker, member, displaced>>

\* Fault: the saved archive is not restored.
RemountUnsaved ==
  /\ chat' = [chat EXCEPT !.archive = NoArchive, !.running = FALSE, !.prewarmed = NoArchive,
                          !.prewarm = NoTurn]
  /\ turn' = [t \in Turns |-> [turn[t] EXCEPT !.home = FALSE]]
  /\ UNCHANGED <<page, worker, member, displaced>>

\* Another route and back: a new component with the saved archive.  What the
\* old one awaited goes on, but its setState calls are lost.
Remount ==
  /\ chat' = [chat EXCEPT !.running = FALSE, !.prewarmed = NoArchive, !.prewarm = NoTurn]
  /\ turn' = [t \in Turns |-> [turn[t] EXCEPT !.home = FALSE]]
  /\ UNCHANGED <<page, worker, member, displaced>>

\* Fault: the worker is terminated and the promise left alone.
CancelHangs == chat.running /\ page.active /\ KillWorker /\ UNCHANGED <<turn, chat>>

\* The Cancel button and cancelGeneration.
Cancel ==
  /\ chat.running
  /\ page.active
  /\ KillWorker
  /\ Settle(page.settler, "resolved")

-----------------------------------------------------------------------------
(* ipc.ts: generate() and the messages the page receives.                  *)

\* The model's files are read; then, in one task, the worker is created or
\* reused, the settlers and the closures become this turn's, and it is posted.
Post(t) ==
  /\ turn[t].at = "opening"
  /\ Settled(turn[t].awaits)
  /\ turn' = [turn EXCEPT ![t].at = "posted"]
  /\ page' = [page EXCEPT !.active = TRUE, !.settler = t, !.handler = t]
  /\ worker' = [worker EXCEPT !.inbox = Append(@, [type |-> "request", turn |-> t])]
  /\ displaced' = displaced \cup ({page.settler} \ {NoTurn})
  /\ UNCHANGED <<chat, member>>

\* The model's directory or one of its files is missing.
OpenFails(t) ==
  /\ turn[t].at = "opening"
  /\ Settled(turn[t].awaits)
  /\ Settle(t, "rejected")
  /\ UNCHANGED <<page, worker, member, displaced>>

\* The error message and the worker's onerror, with the last turn's closures.
Abort == KillWorker /\ Settle(page.handler, "rejected")

Handle(msg) ==
  \/ /\ msg.type = "spawn-pool"
     /\ member' = [m \in Members |-> "starting"]
     /\ page' = [page EXCEPT !.committed = FALSE]
     /\ UNCHANGED <<turn, chat>>
  \/ /\ msg.type = "pool-committed"
     /\ page' = [page EXCEPT !.committed = TRUE]
     /\ UNCHANGED <<turn, chat, member>>
  \/ /\ msg.type = "pool-teardown"
     /\ member' = NoPool
     /\ page' = [page EXCEPT !.committed = FALSE]
     /\ UNCHANGED <<turn, chat>>
  \/ /\ msg.type \in {"warmed", "done"}
     /\ page' = [page EXCEPT !.settler = NoTurn]
     /\ Settle(page.handler, "resolved")
     /\ UNCHANGED member

PageReceives ==
  /\ worker.outbox # <<>>
  /\ IF Head(worker.outbox).type = "error"
     THEN Abort
     ELSE /\ Handle(Head(worker.outbox))
          /\ worker' = [worker EXCEPT !.outbox = Tail(@)]
          /\ UNCHANGED displaced

\* The script dies without a message of its own.
WorkerDies == page.active /\ Abort

\* failPool: the error event or message of a pool member reaches the page.
FailPool(m) ==
  /\ member[m] = "failed"
  /\ IF page.committed
     THEN KillWorker /\ Settle(page.settler, "rejected")
     ELSE /\ member' = NoPool
          /\ worker' = [worker EXCEPT !.inbox = Append(@, [type |-> "pool-failed", turn |-> NoTurn])]
          /\ UNCHANGED <<chat, turn, page, displaced>>

-----------------------------------------------------------------------------
(* The generate worker.  While a request decodes, its event loop is blocked. *)

Busy == \E t \in Turns : worker.job[t] = "run"

Awake == page.active /\ ~Busy

Posted(type, t) == Append(worker.outbox, [type |-> type, turn |-> t])

\* warmStagedSession up to its first await, and the way on when it is warm.
Enter(t, w) ==
  IF w.warm # turn[t].archive
  THEN [w EXCEPT !.warm = NoArchive, !.job[t] = "build"]
  ELSE IF turn[t].kind = "warm"
       THEN [w EXCEPT !.job[t] = "none", !.outbox = Append(@, [type |-> "warmed", turn |-> t])]
       ELSE [w EXCEPT !.job[t] = "run"]

\* The first request starts the runtime: threaded if the page is isolated and
\* the knobs allow it.  Later requests do not wait for it here.
WorkerReceives ==
  /\ Awake
  /\ worker.inbox # <<>>
  /\ LET msg == Head(worker.inbox)
         w == [worker EXCEPT !.inbox = Tail(@)]
     IN \/ msg.type = "pool-failed" /\ worker' = [w EXCEPT !.failed = TRUE]
        \/ /\ msg.type = "request" /\ ~w.reported
           /\ \E how \in {"starting", "single"} :
                worker' = [w EXCEPT !.reported = TRUE, !.ready = how, !.job[msg.turn] = "ready"]
        \/ msg.type = "request" /\ w.reported /\ worker' = Enter(msg.turn, w)
  /\ UNCHANGED <<chat, turn, page, member, displaced>>

\* initThreaded asks the page for the pool once the module has been compiled,
SpawnPool ==
  /\ Awake
  /\ worker.ready = "starting"
  /\ worker' = [worker EXCEPT !.ready = "polling", !.outbox = Posted("spawn-pool", NoTurn)]
  /\ UNCHANGED <<chat, turn, page, member, displaced>>

\* Fault: the first member is enough.
SomeJoined == worker.joined # {}

\* polls until every member has registered,
AllJoined == worker.joined = Members

PoolReady ==
  /\ Awake
  /\ worker.ready = "polling"
  /\ AllJoined
  /\ worker' = [worker EXCEPT !.ready = "threaded"]
  /\ UNCHANGED <<chat, turn, page, member, displaced>>

\* Fault: the pool is forgotten.
GiveUpQuietly ==
  /\ worker' = [worker EXCEPT !.ready = "single"]
  /\ UNCHANGED <<chat, turn, page, member, displaced>>

\* and gives up when it cannot start or a member has failed
GiveUp ==
  /\ worker' = [worker EXCEPT !.ready = "single", !.outbox = Posted("pool-teardown", NoTurn)]
  /\ UNCHANGED <<chat, turn, page, member, displaced>>

FallBack ==
  /\ Awake
  /\ \/ worker.ready = "starting"
     \/ worker.ready = "polling" /\ ~AllJoined /\ worker.failed
  /\ GiveUp

\* Fault: the poll has no deadline, only the failure flag.
TimeOutNever == Awake /\ worker.ready = "polling" /\ ~AllJoined /\ worker.failed /\ GiveUp

\* or time has run out.
TimeOut ==
  /\ Awake
  /\ worker.ready = "polling"
  /\ ~AllJoined
  /\ GiveUp

Started == worker.ready \in {"threaded", "single"}

\* The first request goes on after ensureReady.
Resume(t) ==
  /\ Awake
  /\ worker.job[t] = "ready"
  /\ Started
  /\ worker' = Enter(t, IF worker.ready = "threaded"
                        THEN [worker EXCEPT !.outbox = Posted("pool-committed", NoTurn)]
                        ELSE worker)
  /\ UNCHANGED <<chat, turn, page, member, displaced>>

\* The session is built, behind whoever waits for the runtime.
Built(t) ==
  /\ Awake
  /\ worker.job[t] = "build"
  /\ Started
  /\ \A s \in Turns : worker.job[s] # "ready"
  /\ worker' = Enter(t, [worker EXCEPT !.warm = turn[t].archive])
  /\ UNCHANGED <<chat, turn, page, member, displaced>>

\* A fork-join returns only if every member of the pool takes its part.
Intact == worker.ready = "single" \/ \A m \in Members : member[m] = "registered"

Finish(t) ==
  /\ page.active
  /\ worker.job[t] = "run"
  /\ Intact
  /\ worker' = [worker EXCEPT !.job[t] = "none", !.outbox = Posted("done", t)]
  /\ UNCHANGED <<chat, turn, page, member, displaced>>

\* Anything in a request throws.
Fails(t) ==
  /\ page.active
  /\ worker.job[t] # "none"
  /\ Busy => worker.job[t] = "run"
  /\ worker' = [worker EXCEPT !.job[t] = "none", !.outbox = Posted("error", t)]
  /\ UNCHANGED <<chat, turn, page, member, displaced>>

-----------------------------------------------------------------------------
(* The pool members.                                                       *)

Join(m) ==
  /\ member[m] = "starting"
  /\ member' = [member EXCEPT ![m] = "registered"]
  /\ worker' = [worker EXCEPT !.joined = @ \cup {m}]
  /\ UNCHANGED <<chat, turn, page, displaced>>

MemberFails(m) ==
  /\ member[m] \in {"starting", "registered"}
  /\ member' = [member EXCEPT ![m] = "failed"]
  /\ UNCHANGED <<chat, turn, page, worker, displaced>>

-----------------------------------------------------------------------------
WorkerStep ==
  \/ WorkerReceives \/ SpawnPool \/ PoolReady \/ FallBack \/ TimeOut
  \/ \E t \in Turns : Resume(t) \/ Built(t) \/ Finish(t)

PageStep == PageReceives \/ \E m \in Members : FailPool(m)

UserStep ==
  \/ Prewarm \/ Click \/ Remount \/ Cancel
  \/ \E a \in Archives : Switch(a)

Next ==
  \/ UserStep \/ PageStep \/ WorkerStep \/ WorkerDies
  \/ \E t \in Turns : Begin(t) \/ Post(t) \/ OpenFails(t) \/ Fails(t)
  \/ \E m \in Members : Join(m) \/ MemberFails(m)

Spec == Init /\ [][Next]_vars

\* The two event loops run; users, failures and file reads promise nothing.
FairSpec == Spec /\ WF_vars(PageStep) /\ WF_vars(WorkerStep)

-----------------------------------------------------------------------------
(* Properties.                                                             *)

Message == [type : {"request", "pool-failed", "spawn-pool", "pool-committed",
                    "pool-teardown", "warmed", "done", "error"},
            turn : Turns \cup {NoTurn}]

WorkerStates ==
  [inbox : Seq(Message), outbox : Seq(Message), reported : BOOLEAN, failed : BOOLEAN,
   ready : {"no", "starting", "polling", "threaded", "single"},
   joined : SUBSET Members, warm : Archives \cup {NoArchive},
   job : [Turns -> {"none", "ready", "build", "run"}]]

TypeOK ==
  /\ chat \in [archive : Archives, running : BOOLEAN, prewarmed : Archives \cup {NoArchive},
               prewarm : Turns \cup {NoTurn}]
  /\ turn \in [Turns -> [kind : {"warm", "send"}, archive : Archives \cup {NoArchive},
                         at : {"unused", "clicked", "opening", "posted", "resolved", "rejected"},
                         home : BOOLEAN, awaits : Turns \cup {NoTurn}]]
  /\ page \in [active : BOOLEAN, settler : Turns \cup {NoTurn}, handler : Turns \cup {NoTurn},
               committed : BOOLEAN]
  /\ worker \in WorkerStates
  /\ member \in [Members -> {"off", "starting", "registered", "failed"}]
  /\ displaced \subseteq Turns

\* No member can register once the worker decodes with the pool: the substrate
\* traps on a registration after the first job.
NoLateMember ==
  Busy /\ worker.ready = "threaded" => \A m \in Members : member[m] # "starting"

\* No pool outlives its use: as long as the page holds a member, the worker
\* that asked for the pool lives and is polling or decoding with it, or its
\* order to tear the pool down is on the way (each member pins the whole
\* shared memory); and none is still to register when the worker decodes.
PoolOwned ==
  /\ NoLateMember
  /\ (\E m \in Members : member[m] # "off") =>
       /\ page.active
       /\ \/ worker.ready \in {"polling", "threaded"}
          \/ \E i \in DOMAIN worker.outbox : worker.outbox[i].type = "pool-teardown"

\* `poolCommitted` is never a leftover of an earlier worker: where it is set,
\* the live worker has its threaded runtime.  Otherwise the failure of a member
\* that should mean a fallback would end the turn.
CommitIsCurrent == page.committed => page.active /\ worker.ready = "threaded"

InFlight(t) ==
  \/ worker.job[t] # "none"
  \/ \E i \in DOMAIN worker.inbox : worker.inbox[i].turn = t
  \/ \E i \in DOMAIN worker.outbox : worker.outbox[i].turn = t

\* Whatever is cancelled, fails or dies, a turn that is still awaited and that
\* no later turn has displaced is served: it has the settlers and the closures
\* of a live worker, and its request or its answer is in that worker.
PendingServed ==
  \A t \in Turns \ displaced :
    turn[t].at = "posted" =>
      page.active /\ page.settler = t /\ page.handler = t /\ InFlight(t)

\* A send is never left without settlers: the run of a turn whose page was left
\* and entered again "must not lose the turn".
TurnKept ==
  \A t \in Turns : turn[t].kind = "send" /\ turn[t].at = "posted" => page.settler = t

\* The worker waits in a fork-join for members that no longer exist.
Wedged == Busy /\ worker.ready = "threaded" /\ \E m \in Members : member[m] = "off"

\* The live turn gives up the settlers: it is answered, cancelled, aborted or
\* displaced, unless the pool was lost behind the worker's back.
TurnReleased ==
  \A t \in Turns : page.settler = t ~> (page.settler # t \/ Wedged)
===============================================================================
