-------------------------- MODULE GenerateTurnProofs --------------------------
(***************************************************************************)
(* The safety of a browser turn, for any archives, pool and number of      *)
(* turns.  The properties speak of the settlers, the pool and the queues   *)
(* at rest; what makes them inductive is the order of the pool's messages  *)
(* in the worker's outbox: the pool is asked for once, nobody joins before *)
(* the page has read that, and a worker that gave up has its order to tear *)
(* the pool down behind it.                                                *)
(***************************************************************************)
EXTENDS GenerateTurn, SequenceTheorems, TLAPS

\* A page without a worker holds nothing of one.
NothingLeft ==
  ~page.active => page = NoWorker /\ worker = FreshWorker /\ member = NoPool

\* The message at place i of the worker's outbox has the type.
Sent(type, i) == i \in DOMAIN worker.outbox /\ worker.outbox[i].type = type
Leaving(type) == \E i \in DOMAIN worker.outbox : worker.outbox[i].type = type

Queued(q) == {q[i] : i \in DOMAIN q}

\* A request names its turn, the messages of the pool name none.
MessagesNamed ==
  /\ \A e \in Queued(worker.inbox) :
       \/ e.type = "request" /\ e.turn \in Turns
       \/ e.type = "pool-failed" /\ e.turn = NoTurn
  /\ \A e \in Queued(worker.outbox) :
       e.type \in {"spawn-pool", "pool-committed", "pool-teardown"} => e.turn = NoTurn

\* The pool is asked for once; until the page has read that, nobody joins.
AskedOnce ==
  /\ \A i, j \in DOMAIN worker.outbox : Sent("spawn-pool", i) /\ Sent("spawn-pool", j) => i = j
  /\ Leaving("spawn-pool") => member = NoPool /\ worker.joined = {}
  /\ worker.ready \in {"no", "starting"} =>
       ~Leaving("spawn-pool") /\ member = NoPool /\ worker.joined = {}

\* The order to tear the pool down follows the request for it.
TornDownLast ==
  worker.ready = "single" =>
    \A i \in DOMAIN worker.outbox :
      Sent("spawn-pool", i) => \E j \in DOMAIN worker.outbox : Sent("pool-teardown", j) /\ i < j

\* A pool nobody has given up is spawned or on its way, and complete where the
\* worker decodes with it.
PoolKept ==
  /\ worker.ready = "threaded" => worker.joined = Members
  /\ \A m \in Members : member[m] = "starting" => m \notin worker.joined
  /\ (\E m \in Members : member[m] # "off") =>
       worker.ready \in {"polling", "threaded"} \/ Leaving("pool-teardown")

\* The commitment is announced by a threaded worker only.
Committed == page.committed \/ Leaving("pool-committed") => worker.ready = "threaded"

PoolInv == AskedOnce /\ TornDownLast /\ PoolKept /\ Committed

\* The runtime starts with the first request.
ReadyReported == worker.reported \/ worker.ready = "no"

IInv == TypeOK /\ NothingLeft /\ ReadyReported /\ MessagesNamed /\ PoolInv /\ PendingServed

-----------------------------------------------------------------------------
(* Queues.                                                                  *)

LEMMA AppendAt ==
  ASSUME NEW q \in Seq(Message), NEW e \in Message
  PROVE  /\ Append(q, e) \in Seq(Message)
         /\ Len(q) \in Nat /\ DOMAIN q = 1 .. Len(q)
         /\ DOMAIN Append(q, e) = 1 .. Len(q) + 1
         /\ \A i \in DOMAIN q : Append(q, e)[i] = q[i]
         /\ Append(q, e)[Len(q) + 1] = e
<1>1. Len(q) \in Nat /\ DOMAIN q = 1 .. Len(q)
  BY LenProperties
<1>2. /\ Append(q, e) \in Seq(Message) /\ Len(Append(q, e)) = Len(q) + 1
      /\ \A i \in 1 .. Len(q) : Append(q, e)[i] = q[i]
      /\ Append(q, e)[Len(q) + 1] = e
  BY AppendProperties
<1>3. DOMAIN Append(q, e) = 1 .. Len(Append(q, e))
  BY <1>2, LenProperties
<1> QED
  BY <1>1, <1>2, <1>3

LEMMA TailAt ==
  ASSUME NEW q \in Seq(Message), q # <<>>
  PROVE  /\ Tail(q) \in Seq(Message)
         /\ Len(q) \in Nat \ {0} /\ DOMAIN q = 1 .. Len(q)
         /\ DOMAIN Tail(q) = 1 .. Len(q) - 1
         /\ \A i \in DOMAIN Tail(q) : Tail(q)[i] = q[i + 1]
         /\ Head(q) = q[1] /\ Head(q) \in Message
<1>1. Len(q) \in Nat /\ DOMAIN q = 1 .. Len(q) /\ Len(q) # 0
  BY LenProperties, EmptySeq
<1>2. /\ Head(q) \in Message /\ Tail(q) \in Seq(Message) /\ Len(Tail(q)) = Len(q) - 1
      /\ \A i \in 1 .. Len(Tail(q)) : Tail(q)[i] = q[i + 1]
  BY HeadTailProperties
<1>3. DOMAIN Tail(q) = 1 .. Len(Tail(q))
  BY <1>2, LenProperties
<1>4. Head(q) = q[1]
  OBVIOUS
<1> QED
  BY <1>1, <1>2, <1>3, <1>4

-----------------------------------------------------------------------------
(* Types.                                                                   *)

PromiseTyped ==
  /\ chat \in [archive : Archives, running : BOOLEAN, prewarmed : Archives \cup {NoArchive},
               prewarm : Turns \cup {NoTurn}]
  /\ turn \in [Turns -> [kind : {"warm", "send"}, archive : Archives \cup {NoArchive},
                         at : {"unused", "clicked", "opening", "posted", "resolved", "rejected"},
                         home : BOOLEAN, awaits : Turns \cup {NoTurn}]]

LEMMA TurnIds == NoTurn \notin Turns /\ Turns \subseteq Nat
BY PoolAssumption DEF Turns, NoTurn

\* Settling a promise moves a turn that was open or posted to its end, and
\* nothing but the composer of its component.
LEMMA SettleTurns ==
  ASSUME TypeOK, NEW t \in Turns \cup {NoTurn}, NEW how \in {"resolved", "rejected"}, Settle(t, how)
  PROVE  /\ PromiseTyped'
         /\ \A s \in Turns : turn'[s].at = "posted" => turn[s].at = "posted" /\ s # t
<1> USE DEF TypeOK, PromiseTyped
<1>1. CASE t # NoTurn /\ turn[t].at \in {"opening", "posted"}
  <2>1. t \in Turns /\ turn' = [turn EXCEPT ![t].at = how]
    BY <1>1 DEF Settle
  <2>2. chat' = chat \/ chat' = [chat EXCEPT !.running = FALSE]
    BY <1>1 DEF Settle
  <2>3. turn'[t].at = how /\ \A s \in Turns \ {t} : turn'[s] = turn[s]
    BY <2>1
  <2>4. turn' \in [Turns -> [kind : {"warm", "send"}, archive : Archives \cup {NoArchive},
                         at : {"unused", "clicked", "opening", "posted", "resolved", "rejected"},
                         home : BOOLEAN, awaits : Turns \cup {NoTurn}]]
    BY <2>1
  <2> QED
    BY <2>2, <2>3, <2>4
<1>2. CASE ~(t # NoTurn /\ turn[t].at \in {"opening", "posted"})
  <2>1. turn' = turn /\ chat' = chat
    BY <1>2 DEF Settle
  <2> QED
    BY <1>2, <2>1, TurnIds
<1> QED
  BY <1>1, <1>2

LEMMA FreshTyped == FreshWorker \in WorkerStates /\ NoPool \in [Members -> {"off"}]
<1>1. <<>> \in Seq(Message)
  BY EmptySeq
<1> QED
  BY <1>1 DEF FreshWorker, NoPool, WorkerStates

\* A worker on its way into a request is a worker.
LEMMA EnterTyped ==
  ASSUME TypeOK, NEW t \in Turns, NEW w \in WorkerStates
  PROVE  /\ Enter(t, w) \in WorkerStates
         /\ Enter(t, w).ready = w.ready /\ Enter(t, w).joined = w.joined
         /\ Enter(t, w).inbox = w.inbox /\ Enter(t, w).reported = w.reported
         /\ \/ Enter(t, w).outbox = w.outbox /\ Enter(t, w).job[t] \in {"build", "run"}
            \/ Enter(t, w).outbox = Append(w.outbox, [type |-> "warmed", turn |-> t])
         /\ \A s \in Turns \ {t} : Enter(t, w).job[s] = w.job[s]
<1>1. [type |-> "warmed", turn |-> t] \in Message
  BY DEF Message
<1>2. Append(w.outbox, [type |-> "warmed", turn |-> t]) \in Seq(Message)
  BY <1>1, AppendAt DEF WorkerStates
<1>3. turn[t].archive \in Archives \cup {NoArchive}
  BY DEF TypeOK
<1> QED
  BY <1>2, <1>3 DEF Enter, WorkerStates

\* What the worker's messages have in common, by the fields of its state.
LEMMA WorkerFields ==
  ASSUME TypeOK
  PROVE  /\ worker \in WorkerStates
         /\ worker.inbox \in Seq(Message) /\ worker.outbox \in Seq(Message)
         /\ worker.joined \subseteq Members
         /\ worker.job \in [Turns -> {"none", "ready", "build", "run"}]
BY DEF TypeOK, WorkerStates

LEMMA PoolMessages ==
  /\ [type |-> "spawn-pool", turn |-> NoTurn] \in Message
  /\ [type |-> "pool-committed", turn |-> NoTurn] \in Message
  /\ [type |-> "pool-teardown", turn |-> NoTurn] \in Message
  /\ [type |-> "pool-failed", turn |-> NoTurn] \in Message
  /\ \A t \in Turns : /\ [type |-> "request", turn |-> t] \in Message
                      /\ [type |-> "done", turn |-> t] \in Message
                      /\ [type |-> "warmed", turn |-> t] \in Message
                      /\ [type |-> "error", turn |-> t] \in Message
BY DEF Message

-----------------------------------------------------------------------------
(* The pool.                                                                *)

\* A message joins the outbox: any but the request for the pool, which a
\* starting worker sends; a commitment comes from a threaded worker, and one
\* that gives up orders the pool down in the same step.
LEMMA PoolAppends ==
  ASSUME TypeOK, PoolInv, NEW msg \in Message,
         worker'.outbox = Append(worker.outbox, msg),
         worker'.joined = worker.joined, member' = member, page'.committed = page.committed,
         msg.type = "spawn-pool" => worker.ready = "starting" /\ worker'.ready = "polling",
         msg.type = "pool-committed" => worker.ready = "threaded",
         \/ worker'.ready = worker.ready
         \/ msg.type = "spawn-pool"
         \/ /\ worker.ready \in {"starting", "polling"} /\ worker'.ready = "single"
            /\ msg.type = "pool-teardown"
  PROVE  PoolInv'
<1>0. PICK n \in Nat, q \in Seq(Message) : q = worker.outbox /\ n = Len(q)
  BY WorkerFields, LenProperties
<1>1. /\ DOMAIN q = 1 .. n /\ DOMAIN worker'.outbox = 1 .. n + 1
      /\ \A i \in DOMAIN q : worker'.outbox[i] = q[i]
      /\ worker'.outbox[n + 1] = msg
  BY <1>0, AppendAt
<1>2. /\ \A i \in 1 .. n : \A type : Sent(type, i)' <=> Sent(type, i)
      /\ \A type : Sent(type, n + 1)' <=> msg.type = type
      /\ \A type : Leaving(type)' <=> Leaving(type) \/ msg.type = type
  BY <1>0, <1>1 DEF Sent, Leaving
<1>3. \A type : Leaving(type) <=> \E i \in 1 .. n : Sent(type, i)
  BY <1>0, <1>1 DEF Sent, Leaving
<1>4. AskedOnce'
  <2>1. CASE msg.type = "spawn-pool"
    <3>1. ~Leaving("spawn-pool") /\ member = NoPool /\ worker.joined = {}
      BY <2>1 DEF PoolInv, AskedOnce
    <3>2. \A i \in DOMAIN worker'.outbox : Sent("spawn-pool", i)' => i = n + 1
      BY <1>1, <1>2, <1>3, <3>1
    <3> QED
      BY <2>1, <3>1, <3>2 DEF AskedOnce
  <2>2. CASE msg.type # "spawn-pool"
    <3>1. \A i \in DOMAIN worker'.outbox : Sent("spawn-pool", i)' => i \in DOMAIN q /\ Sent("spawn-pool", i)
      BY <1>1, <1>2, <2>2
    <3>2. Leaving("spawn-pool")' => Leaving("spawn-pool")
      BY <1>2, <2>2
    <3>3. worker'.ready \in {"no", "starting"} => worker.ready \in {"no", "starting"}
      BY <2>2
    <3> QED
      BY <1>0, <3>1, <3>2, <3>3 DEF PoolInv, AskedOnce
  <2> QED
    BY <2>1, <2>2
<1>5. TornDownLast'
  <2> SUFFICES ASSUME worker'.ready = "single", NEW i \in DOMAIN worker'.outbox, Sent("spawn-pool", i)'
               PROVE  \E j \in DOMAIN worker'.outbox : Sent("pool-teardown", j)' /\ i < j
    BY DEF TornDownLast
  <2>1. i \in 1 .. n /\ Sent("spawn-pool", i)
    BY <1>1, <1>2
  <2>2. CASE worker.ready = "single"
    <3>1. PICK j \in 1 .. n : Sent("pool-teardown", j) /\ i < j
      BY <1>0, <1>1, <2>1, <2>2 DEF PoolInv, TornDownLast
    <3>2. j \in DOMAIN worker'.outbox
      BY <1>1
    <3>3. Sent("pool-teardown", j)'
      BY <1>2, <3>1
    <3> QED
      BY <3>1, <3>2, <3>3
  <2>3. CASE worker.ready # "single"
    <3>1. msg.type = "pool-teardown"
      BY <2>3
    <3>2. Sent("pool-teardown", n + 1)'
      BY <1>2, <3>1
    <3>3. i < n + 1 /\ n + 1 \in DOMAIN worker'.outbox
      BY <1>0, <1>1, <2>1
    <3> QED
      BY <3>2, <3>3
  <2> QED
    BY <2>2, <2>3
<1>6. PoolKept' /\ Committed'
  BY <1>2 DEF PoolInv, AskedOnce, PoolKept, Committed, NoPool
<1> QED
  BY <1>4, <1>5, <1>6 DEF PoolInv

\* Nothing joins it: the worker starts, is threaded or moves between requests.
LEMMA PoolStays ==
  ASSUME TypeOK, PoolInv,
         worker'.outbox = worker.outbox, worker'.joined = worker.joined, member' = member,
         page'.committed = page.committed,
         \/ worker'.ready = worker.ready
         \/ worker.ready = "no" /\ worker'.ready \in {"starting", "single"}
         \/ worker.ready = "polling" /\ worker.joined = Members /\ worker'.ready = "threaded"
  PROVE  PoolInv'
<1>1. \A type, i : (Sent(type, i)' <=> Sent(type, i)) /\ (Leaving(type)' <=> Leaving(type))
  BY DEF Sent, Leaving
<1>2. worker.ready = "no" => \A i \in DOMAIN worker.outbox : ~Sent("spawn-pool", i)
  BY DEF PoolInv, AskedOnce, Sent, Leaving
<1>3. AskedOnce'
  BY <1>1 DEF PoolInv, AskedOnce
<1>4. TornDownLast'
  BY <1>1, <1>2 DEF PoolInv, TornDownLast
<1>5. PoolKept' /\ Committed'
  BY <1>1 DEF PoolInv, AskedOnce, PoolKept, Committed, NoPool
<1> QED
  BY <1>3, <1>4, <1>5 DEF PoolInv

\* What the page's handler does with the message at the head of the outbox.
PageReads(type) ==
  CASE type = "spawn-pool" -> member' = [m \in Members |-> "starting"] /\ page'.committed = FALSE
    [] type = "pool-committed" -> member' = member /\ page'.committed = TRUE
    [] type = "pool-teardown" -> member' = NoPool /\ page'.committed = FALSE
    [] OTHER -> member' = member /\ page'.committed = page.committed

\* The page reads the head of the outbox.
LEMMA PoolReads ==
  ASSUME TypeOK, PoolInv, worker.outbox # <<>>,
         worker'.outbox = Tail(worker.outbox),
         worker'.joined = worker.joined, worker'.ready = worker.ready,
         PageReads(Head(worker.outbox).type)
  PROVE  PoolInv'
<1>0. PICK n \in Nat \ {0}, q \in Seq(Message) : q = worker.outbox /\ n = Len(q) /\ q # <<>>
  BY WorkerFields, TailAt
<1>1. /\ DOMAIN q = 1 .. n /\ DOMAIN worker'.outbox = 1 .. n - 1
      /\ \A i \in 1 .. n - 1 : worker'.outbox[i] = q[i + 1]
      /\ Head(q) = q[1]
  BY <1>0, TailAt
<1>2. PICK type : type = q[1].type
  OBVIOUS
<1>3. \A k : \A i \in 1 .. n - 1 : (Sent(k, i)' <=> Sent(k, i + 1)) /\ i + 1 \in 1 .. n
  BY <1>0, <1>1 DEF Sent
<1>4. /\ \A k : Leaving(k) <=> \E i \in 1 .. n : Sent(k, i)
      /\ \A k : Leaving(k)' <=> \E i \in 1 .. n - 1 : Sent(k, i)'
  BY <1>0, <1>1 DEF Leaving, Sent
<1>5. \A k : Sent(k, 1) <=> k = type
  BY <1>0, <1>1, <1>2 DEF Sent
<1>6. \A k : Leaving(k)' => Leaving(k)
  BY <1>3, <1>4
<1>7. \A k : Leaving(k) /\ k # type => Leaving(k)'
  <2> SUFFICES ASSUME NEW k, NEW i \in 1 .. n, Sent(k, i), k # type
               PROVE  \E j \in 1 .. n - 1 : Sent(k, j)'
    BY <1>4
  <2>1. i # 1
    BY <1>5
  <2>2. i - 1 \in 1 .. n - 1 /\ (i - 1) + 1 = i
    BY <2>1
  <2>3. Sent(k, i - 1)'
    BY <1>3, <2>2
  <2> QED
    BY <2>2, <2>3
<1>8. \A i, j \in 1 .. n - 1 : Sent("spawn-pool", i)' /\ Sent("spawn-pool", j)' => i = j
  <2>1. \A i, j \in 1 .. n : Sent("spawn-pool", i) /\ Sent("spawn-pool", j) => i = j
    BY <1>0, <1>1 DEF PoolInv, AskedOnce
  <2> SUFFICES ASSUME NEW i \in 1 .. n - 1, NEW j \in 1 .. n - 1, Sent("spawn-pool", i + 1), Sent("spawn-pool", j + 1)
               PROVE  i = j
    BY <1>3
  <2>2. i + 1 = j + 1
    BY <1>3, <2>1
  <2> QED
    BY <2>2
<1>9. TornDownLast'
  <2> SUFFICES ASSUME worker.ready = "single", NEW i \in 1 .. n - 1, Sent("spawn-pool", i + 1)
               PROVE  \E j \in 1 .. n - 1 : Sent("pool-teardown", j)' /\ i < j
    BY <1>1, <1>3 DEF TornDownLast
  <2>1. PICK j \in 1 .. n : Sent("pool-teardown", j) /\ i + 1 < j
    BY <1>0, <1>1, <1>3 DEF PoolInv, TornDownLast
  <2>2. j - 1 \in 1 .. n - 1 /\ i < j - 1 /\ (j - 1) + 1 = j
    BY <2>1
  <2>3. Sent("pool-teardown", j - 1)'
    BY <1>3, <2>1, <2>2
  <2> QED
    BY <2>2, <2>3
<1>10. CASE type = "spawn-pool"
  <2>1. Leaving("spawn-pool") /\ ~Leaving("spawn-pool")'
    <3>1. \A i \in 1 .. n - 1 : ~Sent("spawn-pool", i + 1)
      <4> SUFFICES ASSUME NEW i \in 1 .. n - 1, Sent("spawn-pool", i + 1) PROVE FALSE
        OBVIOUS
      <4>1. Sent("spawn-pool", 1) /\ 1 \in 1 .. n
        BY <1>5, <1>10
      <4>2. i + 1 = 1
        BY <1>0, <1>1, <1>3, <4>1 DEF PoolInv, AskedOnce
      <4> QED
        BY <4>2
    <3>2. 1 \in 1 .. n
      OBVIOUS
    <3> QED
      BY <1>3, <1>4, <1>5, <1>10, <3>1, <3>2
  <2>2. worker.joined = {} /\ worker.ready \notin {"no", "starting", "threaded"}
    BY <2>1, PoolAssumption DEF PoolInv, AskedOnce, PoolKept
  <2>3. member' = [m \in Members |-> "starting"] /\ page'.committed = FALSE
    BY <1>0, <1>1, <1>2, <1>10 DEF PageReads
  <2>4. worker.ready = "single" => Leaving("pool-teardown")
    <3> SUFFICES ASSUME worker.ready = "single" PROVE Leaving("pool-teardown")
      OBVIOUS
    <3>1. Sent("spawn-pool", 1) /\ 1 \in DOMAIN worker.outbox
      BY <1>0, <1>1, <1>5, <1>10
    <3> QED
      BY <3>1 DEF PoolInv, TornDownLast, Leaving, Sent
  <2>5. worker.ready \in {"polling", "single"}
    BY <2>2, WorkerFields DEF WorkerStates
  <2>6. AskedOnce'
    BY <1>1, <1>8, <2>1, <2>2 DEF AskedOnce
  <2>7. PoolKept'
    BY <1>7, <1>10, <2>2, <2>4, <2>5 DEF PoolKept
  <2>8. Committed'
    BY <1>6, <2>3 DEF Committed, PoolInv
  <2> QED
    BY <1>9, <2>6, <2>7, <2>8 DEF PoolInv
<1>11. CASE type = "pool-committed"
  <2>1. member' = member /\ Leaving("pool-committed")
    <3>1. 1 \in 1 .. n
      OBVIOUS
    <3> QED
      BY <1>0, <1>1, <1>2, <1>4, <1>5, <1>11, <3>1 DEF PageReads
  <2>2. AskedOnce'
    BY <1>1, <1>6, <1>8, <2>1 DEF PoolInv, AskedOnce, NoPool
  <2>3. PoolKept'
    BY <1>7, <1>11, <2>1 DEF PoolInv, PoolKept
  <2>4. Committed'
    BY <2>1 DEF PoolInv, Committed
  <2> QED
    BY <1>9, <2>2, <2>3, <2>4 DEF PoolInv
<1>12. CASE type = "pool-teardown"
  <2>1. member' = NoPool /\ page'.committed = FALSE
    BY <1>0, <1>1, <1>2, <1>12 DEF PageReads
  <2>2. AskedOnce'
    BY <1>1, <1>6, <1>8, <2>1 DEF PoolInv, AskedOnce, NoPool
  <2>3. PoolKept'
    BY <2>1 DEF PoolInv, PoolKept, NoPool
  <2>4. Committed'
    BY <1>6, <2>1 DEF PoolInv, Committed
  <2> QED
    BY <1>9, <2>2, <2>3, <2>4 DEF PoolInv
<1>13. CASE type \notin {"spawn-pool", "pool-committed", "pool-teardown"}
  <2>1. member' = member /\ page'.committed = page.committed
    BY <1>0, <1>1, <1>2, <1>13 DEF PageReads
  <2>2. AskedOnce'
    BY <1>1, <1>6, <1>8, <2>1 DEF PoolInv, AskedOnce, NoPool
  <2>3. PoolKept'
    BY <1>7, <1>13, <2>1 DEF PoolInv, PoolKept
  <2>4. Committed'
    BY <1>6, <2>1 DEF PoolInv, Committed
  <2> QED
    BY <1>9, <2>2, <2>3, <2>4 DEF PoolInv
<1> QED
  BY <1>10, <1>11, <1>12, <1>13

-----------------------------------------------------------------------------
(* What is on its way.                                                      *)

LEMMA QueuedAppend ==
  ASSUME NEW q \in Seq(Message), NEW e \in Message
  PROVE  Queued(Append(q, e)) = Queued(q) \cup {e}
<1>1. /\ Len(q) \in Nat /\ DOMAIN q = 1 .. Len(q) /\ DOMAIN Append(q, e) = 1 .. Len(q) + 1
      /\ \A i \in DOMAIN q : Append(q, e)[i] = q[i]
      /\ Append(q, e)[Len(q) + 1] = e
  BY AppendAt
<1>2. \A i \in 1 .. Len(q) + 1 : i \in 1 .. Len(q) \/ i = Len(q) + 1
  BY <1>1
<1> QED
  BY <1>1, <1>2 DEF Queued

LEMMA QueuedTail ==
  ASSUME NEW q \in Seq(Message), q # <<>>
  PROVE  Queued(q) = {Head(q)} \cup Queued(Tail(q))
<1>1. /\ Len(q) \in Nat \ {0} /\ DOMAIN q = 1 .. Len(q) /\ DOMAIN Tail(q) = 1 .. Len(q) - 1
      /\ \A i \in DOMAIN Tail(q) : Tail(q)[i] = q[i + 1]
      /\ Head(q) = q[1]
  BY TailAt
<1>2. \A i \in 1 .. Len(q) : i = 1 \/ (i - 1 \in 1 .. Len(q) - 1 /\ (i - 1) + 1 = i)
  BY <1>1
<1>3. \A i \in 1 .. Len(q) - 1 : i + 1 \in 1 .. Len(q)
  BY <1>1
<1>4. 1 \in 1 .. Len(q)
  BY <1>1
<1>5. ASSUME NEW e \in Queued(q) PROVE e \in {Head(q)} \cup Queued(Tail(q))
  <2>1. PICK i \in 1 .. Len(q) : e = q[i]
    BY <1>1 DEF Queued
  <2>2. CASE i = 1
    BY <1>1, <2>1, <2>2
  <2>3. CASE i # 1
    <3>1. i - 1 \in DOMAIN Tail(q) /\ Tail(q)[i - 1] = e
      BY <1>1, <1>2, <2>1, <2>3
    <3> QED
      BY <3>1 DEF Queued
  <2> QED
    BY <2>2, <2>3
<1>6. ASSUME NEW e \in {Head(q)} \cup Queued(Tail(q)) PROVE e \in Queued(q)
  BY <1>1, <1>3, <1>4 DEF Queued
<1> QED
  BY <1>5, <1>6

LEMMA InFlightQueued ==
  ASSUME NEW t
  PROVE  InFlight(t) <=> \/ worker.job[t] # "none"
                         \/ \E e \in Queued(worker.inbox) \cup Queued(worker.outbox) : e.turn = t
BY DEF InFlight, Queued

\* A step of a live worker: it has handed in its messages properly, and no
\* turn it had in hand is lost.
LEMMA WorkerKeeps ==
  ASSUME IInv, page.active, UNCHANGED <<chat, turn, page, member, displaced>>,
         worker' \in WorkerStates, ReadyReported', MessagesNamed', PoolInv',
         \A t \in Turns : InFlight(t) => InFlight(t)'
  PROVE  IInv'
<1>1. TypeOK' /\ NothingLeft'
  BY DEF IInv, TypeOK, NothingLeft
<1>2. PendingServed'
  BY DEF IInv, PendingServed
<1> QED
  BY <1>1, <1>2 DEF IInv

\* ... which sends one message,
LEMMA WorkerSends ==
  ASSUME IInv, page.active, UNCHANGED <<chat, turn, page, member, displaced>>,
         worker' \in WorkerStates, NEW msg \in Message,
         worker'.inbox = worker.inbox, worker'.outbox = Append(worker.outbox, msg),
         worker'.joined = worker.joined, worker'.reported = worker.reported,
         msg.type \in {"spawn-pool", "pool-committed", "pool-teardown"} => msg.turn = NoTurn,
         msg.type = "spawn-pool" => worker.ready = "starting" /\ worker'.ready = "polling",
         msg.type = "pool-committed" => worker.ready = "threaded",
         \/ worker'.ready = worker.ready
         \/ msg.type = "spawn-pool"
         \/ /\ worker.ready \in {"starting", "polling"} /\ worker'.ready = "single"
            /\ msg.type = "pool-teardown",
         \A t \in Turns : worker.job[t] # "none" => worker'.job[t] # "none" \/ msg.turn = t
  PROVE  IInv'
<1>1. PoolInv'
  BY PoolAppends DEF IInv
<1>2. Queued(worker'.outbox) = Queued(worker.outbox) \cup {msg}
  BY QueuedAppend, WorkerFields DEF IInv
<1>3. MessagesNamed'
  BY <1>2 DEF MessagesNamed, IInv
<1>4. \A t \in Turns : InFlight(t) => InFlight(t)'
  <2> SUFFICES ASSUME NEW t \in Turns, InFlight(t) PROVE InFlight(t)'
    OBVIOUS
  <2>1. InFlight(t)' <=> \/ worker'.job[t] # "none"
                         \/ \E e \in Queued(worker.inbox) \cup Queued(worker'.outbox) : e.turn = t
    BY DEF InFlight, Queued
  <2> QED
    BY <1>2, <2>1, InFlightQueued
<1>5. ReadyReported'
  BY DEF IInv, ReadyReported
<1> QED
  BY <1>1, <1>3, <1>4, <1>5, WorkerKeeps

\* or none.
LEMMA WorkerMoves ==
  ASSUME IInv, page.active, UNCHANGED <<chat, turn, page, member, displaced>>,
         worker' \in WorkerStates,
         worker'.inbox = worker.inbox, worker'.outbox = worker.outbox,
         worker'.joined = worker.joined, worker'.reported = worker.reported,
         \/ worker'.ready = worker.ready
         \/ worker.ready = "polling" /\ worker.joined = Members /\ worker'.ready = "threaded",
         \A t \in Turns : worker.job[t] # "none" => worker'.job[t] # "none"
  PROVE  IInv'
<1>1. PoolInv'
  BY PoolStays DEF IInv
<1>2. MessagesNamed' /\ ReadyReported' /\ \A t \in Turns : InFlight(t) => InFlight(t)'
  BY DEF MessagesNamed, ReadyReported, InFlight, IInv
<1> QED
  BY <1>1, <1>2, WorkerKeeps

\* A threaded worker's outbox no longer holds the request for the pool.
LEMMA PoolThreaded ==
  ASSUME PoolInv, worker.ready = "threaded", worker'.ready = "threaded",
         worker'.joined = worker.joined, member' = member, page'.committed = page.committed,
         NEW msgs, \A e \in msgs : e.type # "spawn-pool",
         Queued(worker'.outbox) = Queued(worker.outbox) \cup msgs
  PROVE  PoolInv'
<1>1. ~Leaving("spawn-pool")
  BY PoolAssumption DEF PoolInv, AskedOnce, PoolKept
<1>2. \A e \in Queued(worker.outbox) : e.type # "spawn-pool"
  BY <1>1 DEF Leaving, Queued
<1>3. ~Leaving("spawn-pool")' /\ \A i \in DOMAIN worker'.outbox : ~Sent("spawn-pool", i)'
  <2>1. \A e \in Queued(worker'.outbox) : e.type # "spawn-pool"
    BY <1>2
  <2> QED
    BY <2>1 DEF Leaving, Queued, Sent
<1> QED
  BY <1>3 DEF PoolInv, AskedOnce, TornDownLast, PoolKept, Committed

\* A request enters: the first one with the commitment in front of it.
LEMMA EntersRequest ==
  ASSUME IInv, page.active, UNCHANGED <<chat, turn, page, member, displaced>>,
         NEW t \in Turns, NEW w \in WorkerStates, worker' = Enter(t, w),
         w.ready = worker.ready, w.joined = worker.joined, w.reported = worker.reported,
         \/ w.outbox = worker.outbox
         \/ /\ worker.ready = "threaded"
            /\ w.outbox = Append(worker.outbox, [type |-> "pool-committed", turn |-> NoTurn]),
         \/ w.inbox = worker.inbox
         \/ /\ worker.inbox # <<>> /\ w.inbox = Tail(worker.inbox)
            /\ Head(worker.inbox).turn = t,
         \A s \in Turns \ {t} : w.job[s] = worker.job[s]
  PROVE  IInv'
<1> DEFINE committed == [type |-> "pool-committed", turn |-> NoTurn]
           warmed == [type |-> "warmed", turn |-> t]
<1>0. /\ TypeOK /\ committed \in Message /\ warmed \in Message
      /\ worker.inbox \in Seq(Message) /\ worker.outbox \in Seq(Message)
      /\ w.outbox \in Seq(Message)
  BY PoolMessages, WorkerFields DEF IInv, WorkerStates
<1>1. /\ worker' \in WorkerStates
      /\ worker'.ready = worker.ready /\ worker'.joined = worker.joined
      /\ worker'.inbox = w.inbox /\ worker'.reported = worker.reported
      /\ \/ worker'.outbox = w.outbox /\ worker'.job[t] \in {"build", "run"}
         \/ worker'.outbox = Append(w.outbox, warmed)
      /\ \A s \in Turns \ {t} : worker'.job[s] = worker.job[s]
  BY <1>0, EnterTyped
<1>2. PICK sent : /\ sent \in SUBSET {committed}
                  /\ Queued(w.outbox) = Queued(worker.outbox) \cup sent
                  /\ w.outbox = worker.outbox \/ worker.ready = "threaded"
  <2>1. CASE w.outbox = worker.outbox
    <3>1. Queued(w.outbox) = Queued(worker.outbox) \cup {} /\ {} \in SUBSET {committed}
      BY <2>1
    <3> QED
      BY <2>1, <3>1
  <2>2. CASE w.outbox = Append(worker.outbox, committed) /\ worker.ready = "threaded"
    <3>1. Queued(w.outbox) = Queued(worker.outbox) \cup {committed}
      BY <1>0, <2>2, QueuedAppend
    <3> QED
      BY <2>2, <3>1
  <2> QED
    BY <2>1, <2>2
<1>3. PICK msgs : /\ msgs \in SUBSET {committed, warmed}
                  /\ Queued(worker'.outbox) = Queued(worker.outbox) \cup msgs
                  /\ warmed \in msgs \/ worker'.job[t] \in {"build", "run"}
  <2>1. CASE worker'.outbox = w.outbox /\ worker'.job[t] \in {"build", "run"}
    BY <1>2, <2>1
  <2>2. CASE worker'.outbox = Append(w.outbox, warmed)
    <3>1. Queued(worker'.outbox) = Queued(w.outbox) \cup {warmed}
      BY <1>0, <2>2, QueuedAppend
    <3>2. Queued(worker'.outbox) = Queued(worker.outbox) \cup (sent \cup {warmed})
      BY <1>2, <3>1
    <3>3. sent \cup {warmed} \in SUBSET {committed, warmed}
      BY <1>2
    <3> QED
      BY <3>2, <3>3
  <2> QED
    BY <1>1, <2>1, <2>2
<1>4. PoolInv'
  <2>1. CASE worker.ready = "threaded"
    <3>1. \A e \in msgs : e.type # "spawn-pool"
      BY <1>3
    <3> QED
      BY <1>1, <1>3, <2>1, <3>1, PoolThreaded DEF IInv
  <2>2. CASE worker.ready # "threaded"
    <3>1. CASE worker'.outbox = worker.outbox
      BY <1>0, <1>1, <3>1, PoolStays DEF IInv
    <3>2. CASE worker'.outbox = Append(worker.outbox, warmed)
      BY <1>0, <1>1, <3>2, PoolAppends DEF IInv
    <3> QED
      BY <1>1, <1>2, <2>2, <3>1, <3>2
  <2> QED
    BY <2>1, <2>2
<1>5. /\ Queued(w.inbox) \subseteq Queued(worker.inbox)
      /\ \A e \in Queued(worker.inbox) : e \in Queued(w.inbox) \/ e.turn = t
  BY <1>0, QueuedTail
<1>6. MessagesNamed'
  <2>1. \A e \in msgs : e.turn = NoTurn \/ e.type = "warmed"
    BY <1>3
  <2> QED
    BY <1>1, <1>3, <1>5, <2>1 DEF IInv, MessagesNamed
<1>7. \A s \in Turns : InFlight(s) => InFlight(s)'
  <2> SUFFICES ASSUME NEW s \in Turns, InFlight(s) PROVE InFlight(s)'
    OBVIOUS
  <2>1. InFlight(s)' <=> \/ worker'.job[s] # "none"
                         \/ \E e \in Queued(worker'.inbox) \cup Queued(worker'.outbox) : e.turn = s
    BY DEF InFlight, Queued
  <2>2. \/ worker.job[s] # "none"
        \/ \E e \in Queued(worker.inbox) \cup Queued(worker.outbox) : e.turn = s
    BY InFlightQueued
  <2>3. CASE s = t
    BY <1>3, <2>1, <2>3
  <2>4. CASE s # t
    BY <1>1, <1>3, <1>5, <2>1, <2>2, <2>4
  <2> QED
    BY <2>3, <2>4
<1>8. ReadyReported'
  BY <1>1 DEF IInv, ReadyReported
<1> QED
  BY <1>1, <1>4, <1>6, <1>7, <1>8, WorkerKeeps

-----------------------------------------------------------------------------
(* The actions.                                                             *)

LEMMA TurnInit == Init => IInv
<1> SUFFICES ASSUME Init PROVE IInv
  OBVIOUS
<1>1. TypeOK
  <2>1. turn \in [Turns -> [kind : {"warm", "send"}, archive : Archives \cup {NoArchive},
                            at : {"unused", "clicked", "opening", "posted", "resolved", "rejected"},
                            home : BOOLEAN, awaits : Turns \cup {NoTurn}]]
    BY DEF Init, Unused
  <2>2. page \in [active : BOOLEAN, settler : Turns \cup {NoTurn}, handler : Turns \cup {NoTurn},
                  committed : BOOLEAN]
    BY DEF Init, NoWorker
  <2>3. chat \in [archive : Archives, running : BOOLEAN, prewarmed : Archives \cup {NoArchive},
                  prewarm : Turns \cup {NoTurn}]
    BY DEF Init
  <2>4. worker \in WorkerStates /\ member \in [Members -> {"off", "starting", "registered", "failed"}]
    BY FreshTyped DEF Init, NoPool
  <2> QED
    BY <2>1, <2>2, <2>3, <2>4 DEF Init, TypeOK
<1>2. NothingLeft
  BY DEF Init, NothingLeft
<1>3. Queued(worker.inbox) = {} /\ Queued(worker.outbox) = {}
  BY DEF Init, FreshWorker, Queued
<1>4. PoolInv
  BY DEF Init, FreshWorker, NoWorker, NoPool, PoolInv, AskedOnce, TornDownLast, PoolKept, Committed,
         Leaving, Sent
<1>5. PendingServed
  BY DEF Init, Unused, PendingServed
<1>6. ReadyReported
  BY DEF Init, FreshWorker, ReadyReported
<1> QED
  BY <1>1, <1>2, <1>3, <1>4, <1>5, <1>6 DEF IInv, MessagesNamed

\* The worker is terminated, and with it everything its turn waited for.
LEMMA KillKeeps ==
  ASSUME IInv, KillWorker, NEW t \in Turns \cup {NoTurn}, NEW how \in {"resolved", "rejected"},
         Settle(t, how),
         \A s \in Turns \ displaced : turn[s].at = "posted" => s = t
  PROVE  IInv'
<1>1. page' = NoWorker /\ worker' = FreshWorker /\ member' = NoPool /\ displaced' = displaced
  BY DEF KillWorker, PageAfterKill
<1>2. PromiseTyped' /\ \A s \in Turns : turn'[s].at = "posted" => turn[s].at = "posted" /\ s # t
  BY SettleTurns DEF IInv
<1>3. TypeOK'
  <2>1. page' \in [active : BOOLEAN, settler : Turns \cup {NoTurn}, handler : Turns \cup {NoTurn},
                   committed : BOOLEAN]
    BY <1>1 DEF NoWorker
  <2>2. worker' \in WorkerStates /\ member' \in [Members -> {"off", "starting", "registered", "failed"}]
    BY <1>1, FreshTyped DEF NoPool
  <2> QED
    BY <1>1, <1>2, <2>1, <2>2 DEF IInv, TypeOK, PromiseTyped
<1>4. NothingLeft' /\ ReadyReported'
  BY <1>1 DEF NothingLeft, ReadyReported, NoPool, FreshWorker
<1>5. MessagesNamed'
  BY <1>1 DEF MessagesNamed, FreshWorker, Queued
<1>6. PoolInv'
  BY <1>1 DEF FreshWorker, NoWorker, NoPool, PoolInv, AskedOnce, TornDownLast, PoolKept, Committed,
              Leaving, Sent
<1>7. PendingServed'
  BY <1>1, <1>2 DEF PendingServed
<1> QED
  BY <1>3, <1>4, <1>5, <1>6, <1>7 DEF IInv

\* The chat moves, and promises other than posted ones.
LEMMA ChatMoves ==
  ASSUME IInv, UNCHANGED <<page, worker, member, displaced>>, PromiseTyped',
         \A t \in Turns : turn'[t].at = "posted" => turn[t].at = "posted"
  PROVE  IInv'
<1>1. TypeOK' /\ NothingLeft' /\ ReadyReported' /\ MessagesNamed'
  BY DEF IInv, TypeOK, PromiseTyped, NothingLeft, ReadyReported, MessagesNamed
<1>2. PoolInv'
  BY PoolStays DEF IInv
<1>3. PendingServed'
  BY DEF IInv, PendingServed, InFlight
<1> QED
  BY <1>1, <1>2, <1>3 DEF IInv

\* The pool moves without a message: a member that was spawned joins or fails.
LEMMA MemberMoves ==
  ASSUME IInv, NEW m \in Members, member[m] # "off",
         NEW to \in {"registered", "failed"}, member' = [member EXCEPT ![m] = to],
         UNCHANGED <<chat, turn, page, displaced>>,
         \/ worker' = worker
         \/ to = "registered" /\ worker' = [worker EXCEPT !.joined = @ \cup {m}]
  PROVE  IInv'
<1>0. /\ TypeOK /\ worker \in WorkerStates
      /\ member \in [Members -> {"off", "starting", "registered", "failed"}]
  BY WorkerFields DEF IInv, TypeOK
<1>1. page.active /\ member # NoPool
  BY <1>0 DEF IInv, NothingLeft, NoPool
<1>2. /\ worker' \in WorkerStates /\ worker'.inbox = worker.inbox /\ worker'.outbox = worker.outbox
      /\ worker'.ready = worker.ready /\ worker'.job = worker.job
      /\ worker'.reported = worker.reported
      /\ worker'.joined = worker.joined \/ worker'.joined = worker.joined \cup {m}
  BY <1>0 DEF WorkerStates
<1>3. member' \in [Members -> {"off", "starting", "registered", "failed"}]
      /\ member'[m] = to /\ \A n \in Members \ {m} : member'[n] = member[n]
  BY <1>0
<1>4. TypeOK' /\ NothingLeft' /\ ReadyReported' /\ MessagesNamed'
  BY <1>1, <1>2, <1>3 DEF IInv, TypeOK, NothingLeft, ReadyReported, MessagesNamed
<1>5. \A k, i : (Sent(k, i)' <=> Sent(k, i)) /\ (Leaving(k)' <=> Leaving(k))
  BY <1>2 DEF Sent, Leaving
<1>6. PoolInv'
  <2>1. AskedOnce'
    BY <1>1, <1>2, <1>5 DEF IInv, PoolInv, AskedOnce
  <2>2. TornDownLast' /\ Committed'
    BY <1>2, <1>5 DEF IInv, PoolInv, TornDownLast, Committed
  <2>3. worker.joined \subseteq Members
    BY <1>0 DEF WorkerStates
  <2>4. worker'.ready = "threaded" => worker'.joined = Members
    BY <1>2, <2>3 DEF IInv, PoolInv, PoolKept
  <2>5. \A n \in Members : member'[n] = "starting" => n \notin worker'.joined
    BY <1>2, <1>3 DEF IInv, PoolInv, PoolKept
  <2>6. PoolKept'
    BY <1>2, <1>5, <2>4, <2>5 DEF IInv, PoolInv, PoolKept
  <2> QED
    BY <2>1, <2>2, <2>6 DEF PoolInv
<1>7. PendingServed'
  BY <1>2 DEF IInv, PendingServed, InFlight
<1> QED
  BY <1>4, <1>6, <1>7 DEF IInv

\* The component, its composer and its effects.
LEMMA UserKeeps == ASSUME IInv, UserStep PROVE IInv'
<1> USE DEF PromiseTyped
<1>1. TypeOK /\ PromiseTyped
  BY DEF IInv, TypeOK
<1>2. ASSUME Prewarm PROVE IInv'
  <2>1. PICK t \in Turns :
          /\ turn' = [turn EXCEPT ![t] = [kind |-> "warm", archive |-> chat.archive,
                                          at |-> "opening", home |-> TRUE, awaits |-> NoTurn]]
          /\ chat' = [chat EXCEPT !.prewarmed = chat.archive, !.prewarm = t]
    BY <1>2 DEF Prewarm
  <2>2. PromiseTyped' /\ \A s \in Turns : turn'[s].at = "posted" => turn[s].at = "posted"
    BY <1>1, <2>1
  <2> QED
    BY <1>2, <2>2, ChatMoves DEF Prewarm
<1>3. ASSUME Click PROVE IInv'
  <2>1. PICK t \in Turns :
          turn' = [turn EXCEPT ![t] = [kind |-> "send", archive |-> chat.archive,
                                       at |-> "clicked", home |-> TRUE, awaits |-> NoTurn]]
    BY <1>3 DEF Click
  <2>2. PromiseTyped' /\ \A s \in Turns : turn'[s].at = "posted" => turn[s].at = "posted"
    BY <1>1, <1>3, <2>1 DEF Click
  <2> QED
    BY <1>3, <2>2, ChatMoves DEF Click
<1>4. ASSUME Remount PROVE IInv'
  <2>1. PromiseTyped' /\ \A s \in Turns : turn'[s].at = "posted" => turn[s].at = "posted"
    BY <1>1, <1>4 DEF Remount
  <2> QED
    BY <1>4, <2>1, ChatMoves DEF Remount
<1>5. ASSUME Cancel PROVE IInv'
  <2>1. page.settler \in Turns \cup {NoTurn}
    BY <1>1 DEF TypeOK
  <2>2. \A s \in Turns \ displaced : turn[s].at = "posted" => s = page.settler
    BY DEF IInv, PendingServed
  <2> QED
    BY <1>5, <2>1, <2>2, KillKeeps DEF Cancel
<1>6. ASSUME NEW a \in Archives, Switch(a) PROVE IInv'
  <2>1. PromiseTyped' /\ turn' = turn
    BY <1>1, <1>6 DEF Switch
  <2> QED
    BY <1>6, <2>1, ChatMoves DEF Switch
<1> QED
  BY <1>2, <1>3, <1>4, <1>5, <1>6 DEF UserStep

\* A turn on its way to the worker.
LEMMA BeginKeeps == ASSUME IInv, NEW t \in Turns, Begin(t) PROVE IInv'
<1>1. TypeOK /\ PromiseTyped
  BY DEF IInv, TypeOK, PromiseTyped
<1>2. /\ turn' \in [Turns -> [kind : {"warm", "send"}, archive : Archives \cup {NoArchive},
                         at : {"unused", "clicked", "opening", "posted", "resolved", "rejected"},
                         home : BOOLEAN, awaits : Turns \cup {NoTurn}]]
      /\ turn'[t].at = "opening" /\ \A s \in Turns \ {t} : turn'[s] = turn[s]
  <2>1. PICK awaits \in Turns \cup {NoTurn} :
          turn' = [turn EXCEPT ![t].at = "opening", ![t].awaits = awaits]
    BY <1>1 DEF Begin, PromiseTyped
  <2> DEFINE mid == [turn EXCEPT ![t].at = "opening"]
  <2>2. /\ mid \in [Turns -> [kind : {"warm", "send"}, archive : Archives \cup {NoArchive},
                         at : {"unused", "clicked", "opening", "posted", "resolved", "rejected"},
                         home : BOOLEAN, awaits : Turns \cup {NoTurn}]]
        /\ mid[t].at = "opening" /\ \A s \in Turns \ {t} : mid[s] = turn[s]
    BY <1>1 DEF PromiseTyped
  <2>3. turn' = [mid EXCEPT ![t].awaits = awaits]
    BY <1>1, <2>1 DEF PromiseTyped
  <2> HIDE DEF mid
  <2>4. turn' \in [Turns -> [kind : {"warm", "send"}, archive : Archives \cup {NoArchive},
                         at : {"unused", "clicked", "opening", "posted", "resolved", "rejected"},
                         home : BOOLEAN, awaits : Turns \cup {NoTurn}]]
    BY <2>1, <2>2, <2>3
  <2>5. turn'[t].at = mid[t].at
    BY <2>2, <2>3
  <2>6. \A s \in Turns \ {t} : turn'[s] = mid[s]
    BY <2>2, <2>3
  <2> QED
    BY <2>2, <2>4, <2>5, <2>6
<1>3. chat' \in [archive : Archives, running : BOOLEAN, prewarmed : Archives \cup {NoArchive},
                 prewarm : Turns \cup {NoTurn}]
  BY <1>1 DEF Begin, PromiseTyped
<1> QED
  BY <1>2, <1>3, ChatMoves DEF Begin, PromiseTyped

LEMMA OpenFailsKeeps == ASSUME IInv, NEW t \in Turns, OpenFails(t) PROVE IInv'
<1>1. TypeOK
  BY DEF IInv
<1>2. PromiseTyped' /\ \A s \in Turns : turn'[s].at = "posted" => turn[s].at = "posted"
  BY <1>1, SettleTurns DEF OpenFails
<1> QED
  BY <1>2, ChatMoves DEF OpenFails

LEMMA PostKeeps == ASSUME IInv, NEW t \in Turns, Post(t) PROVE IInv'
<1> DEFINE request == [type |-> "request", turn |-> t]
<1>0. /\ TypeOK /\ request \in Message /\ worker \in WorkerStates
      /\ worker.inbox \in Seq(Message)
  BY PoolMessages, WorkerFields DEF IInv
<1>1. /\ worker' = [worker EXCEPT !.inbox = Append(@, request)]
      /\ page' = [page EXCEPT !.active = TRUE, !.settler = t, !.handler = t]
      /\ turn' = [turn EXCEPT ![t].at = "posted"]
      /\ displaced' = displaced \cup ({page.settler} \ {NoTurn})
      /\ chat' = chat /\ member' = member
  BY DEF Post
<1>2. Append(worker.inbox, request) \in Seq(Message)
      /\ Queued(Append(worker.inbox, request)) = Queued(worker.inbox) \cup {request}
  BY <1>0, AppendAt, QueuedAppend
<1>3. /\ worker' \in WorkerStates
      /\ Queued(worker'.inbox) = Queued(worker.inbox) \cup {request}
      /\ worker'.outbox = worker.outbox /\ worker'.ready = worker.ready
      /\ worker'.joined = worker.joined /\ worker'.job = worker.job
      /\ worker'.reported = worker.reported
  BY <1>0, <1>1, <1>2 DEF WorkerStates
<1>4. /\ turn' \in [Turns -> [kind : {"warm", "send"}, archive : Archives \cup {NoArchive},
                         at : {"unused", "clicked", "opening", "posted", "resolved", "rejected"},
                         home : BOOLEAN, awaits : Turns \cup {NoTurn}]]
      /\ \A s \in Turns \ {t} : turn'[s] = turn[s]
  BY <1>0, <1>1 DEF TypeOK
<1>5. /\ page' \in [active : BOOLEAN, settler : Turns \cup {NoTurn}, handler : Turns \cup {NoTurn},
                    committed : BOOLEAN]
      /\ page'.active /\ page'.settler = t /\ page'.handler = t /\ page'.committed = page.committed
      /\ page.settler \in Turns \cup {NoTurn}
  BY <1>0, <1>1 DEF TypeOK
<1>6. TypeOK'
  BY <1>0, <1>1, <1>3, <1>4, <1>5 DEF TypeOK
<1>7. NothingLeft' /\ ReadyReported'
  BY <1>3, <1>5 DEF IInv, NothingLeft, ReadyReported
<1>8. MessagesNamed'
  BY <1>3 DEF IInv, MessagesNamed
<1>9. PoolInv'
  BY <1>0, <1>1, <1>3, <1>5, PoolStays DEF IInv
<1>10. PendingServed'
  <2> SUFFICES ASSUME NEW s \in Turns \ displaced', turn'[s].at = "posted"
               PROVE  page'.active /\ page'.settler = s /\ page'.handler = s /\ InFlight(s)'
    BY DEF PendingServed
  <2>1. s = t
    <3> SUFFICES ASSUME s # t PROVE FALSE
      OBVIOUS
    <3>1. s \in Turns \ displaced /\ turn[s].at = "posted"
      BY <1>1, <1>4
    <3>2. page.settler = s
      BY <3>1 DEF IInv, PendingServed
    <3> QED
      BY <1>1, <3>2, TurnIds
  <2>2. InFlight(t)'
    <3>1. InFlight(t)' <=> \/ worker'.job[t] # "none"
                           \/ \E e \in Queued(worker'.inbox) \cup Queued(worker'.outbox) : e.turn = t
      BY DEF InFlight, Queued
    <3>2. request \in Queued(worker'.inbox) /\ request.turn = t
      BY <1>3
    <3> QED
      BY <3>1, <3>2
  <2> QED
    BY <1>5, <2>1, <2>2
<1> QED
  BY <1>6, <1>7, <1>8, <1>9, <1>10 DEF IInv

\* The page reads a message that is not an error.
LEMMA HandleKeeps ==
  ASSUME IInv, worker.outbox # <<>>, Handle(Head(worker.outbox)),
         worker' = [worker EXCEPT !.outbox = Tail(@)], displaced' = displaced
  PROVE  IInv'
<1> DEFINE msg == Head(worker.outbox)
<1>0. /\ TypeOK /\ worker \in WorkerStates /\ worker.outbox \in Seq(Message)
      /\ page \in [active : BOOLEAN, settler : Turns \cup {NoTurn}, handler : Turns \cup {NoTurn},
                   committed : BOOLEAN]
      /\ member \in [Members -> {"off", "starting", "registered", "failed"}]
  BY WorkerFields DEF IInv, TypeOK
<1>1. page.active
  BY DEF IInv, NothingLeft, FreshWorker
<1>2. /\ msg \in Message /\ Tail(worker.outbox) \in Seq(Message)
      /\ Queued(worker.outbox) = {msg} \cup Queued(Tail(worker.outbox))
  BY <1>0, TailAt, QueuedTail
<1>3. /\ worker' \in WorkerStates /\ worker'.outbox = Tail(worker.outbox)
      /\ worker'.inbox = worker.inbox /\ worker'.ready = worker.ready
      /\ worker'.joined = worker.joined /\ worker'.job = worker.job
      /\ worker'.reported = worker.reported
  BY <1>0, <1>2 DEF WorkerStates
<1>4. PICK m \in Message : m = msg
  BY <1>2
<1>5. CASE m.type \in {"warmed", "done"}
  <2>1. page' = [page EXCEPT !.settler = NoTurn] /\ Settle(page.handler, "resolved") /\ member' = member
    BY <1>4, <1>5 DEF Handle
  <2>2. page.handler \in Turns \cup {NoTurn}
    BY <1>0
  <2>3. PromiseTyped' /\ \A s \in Turns : turn'[s].at = "posted" => turn[s].at = "posted" /\ s # page.handler
    BY <1>0, <2>1, <2>2, SettleTurns
  <2>4. /\ page' \in [active : BOOLEAN, settler : Turns \cup {NoTurn}, handler : Turns \cup {NoTurn},
                      committed : BOOLEAN]
        /\ page'.active /\ page'.committed = page.committed
    BY <1>0, <1>1, <2>1
  <2>5. TypeOK' /\ NothingLeft' /\ ReadyReported' /\ MessagesNamed'
    BY <1>0, <1>2, <1>3, <2>1, <2>3, <2>4
       DEF IInv, TypeOK, PromiseTyped, NothingLeft, ReadyReported, MessagesNamed
  <2>6. PoolInv'
    <3>1. PageReads(msg.type)
      BY <1>4, <1>5, <2>1, <2>4 DEF PageReads
    <3> QED
      BY <1>0, <1>3, <3>1, PoolReads DEF IInv
  <2>7. PendingServed'
    BY <2>3 DEF IInv, PendingServed
  <2> QED
    BY <2>5, <2>6, <2>7 DEF IInv
<1>6. CASE m.type \notin {"warmed", "done"}
  <2>1. /\ m.type \in {"spawn-pool", "pool-committed", "pool-teardown"}
        /\ turn' = turn /\ chat' = chat
        /\ \/ page' = [page EXCEPT !.committed = FALSE]
           \/ page' = [page EXCEPT !.committed = TRUE]
    BY <1>4, <1>6 DEF Handle
  <2>2. /\ page' \in [active : BOOLEAN, settler : Turns \cup {NoTurn}, handler : Turns \cup {NoTurn},
                      committed : BOOLEAN]
        /\ page'.active /\ page'.settler = page.settler /\ page'.handler = page.handler
    BY <1>0, <1>1, <2>1
  <2>3. PageReads(m.type)
    BY <1>0, <1>4, <1>6 DEF PageReads, Handle
  <2>4. member' \in [Members -> {"off", "starting", "registered", "failed"}]
    BY <1>0, <2>1, <2>3 DEF PageReads, NoPool
  <2>5. TypeOK' /\ NothingLeft' /\ ReadyReported' /\ MessagesNamed'
    BY <1>0, <1>2, <1>3, <2>1, <2>2, <2>4
       DEF IInv, TypeOK, NothingLeft, ReadyReported, MessagesNamed
  <2>6. PoolInv'
    BY <1>0, <1>3, <1>4, <2>3, PoolReads DEF IInv
  <2>7. m.turn = NoTurn
    BY <1>2, <1>4, <2>1 DEF IInv, MessagesNamed
  <2>8. ASSUME NEW s \in Turns, InFlight(s) PROVE InFlight(s)'
    <3>1. InFlight(s)' <=> \/ worker'.job[s] # "none"
                           \/ \E e \in Queued(worker'.inbox) \cup Queued(worker'.outbox) : e.turn = s
      BY DEF InFlight, Queued
    <3>2. \/ worker.job[s] # "none"
          \/ \E e \in Queued(worker.inbox) \cup Queued(worker.outbox) : e.turn = s
      BY <2>8, InFlightQueued
    <3>3. s # NoTurn
      BY TurnIds
    <3> QED
      BY <1>2, <1>3, <1>4, <2>7, <3>1, <3>2, <3>3
  <2>9. PendingServed'
    BY <2>1, <2>2, <2>8 DEF IInv, PendingServed
  <2> QED
    BY <2>5, <2>6, <2>9 DEF IInv
<1> QED
  BY <1>5, <1>6

\* An error message, a dead script: the closures' turn is the pending one.
LEMMA AbortKeeps == ASSUME IInv, Abort PROVE IInv'
<1>1. page.handler \in Turns \cup {NoTurn}
  BY DEF IInv, TypeOK
<1>2. \A s \in Turns \ displaced : turn[s].at = "posted" => s = page.handler
  BY DEF IInv, PendingServed
<1> QED
  BY <1>1, <1>2, KillKeeps DEF Abort

LEMMA PageKeeps == ASSUME IInv, PageStep PROVE IInv'
<1>1. ASSUME PageReceives PROVE IInv'
  BY <1>1, AbortKeeps, HandleKeeps DEF PageReceives
<1>2. ASSUME NEW m \in Members, FailPool(m) PROVE IInv'
  <2> DEFINE failed == [type |-> "pool-failed", turn |-> NoTurn]
  <2>0. /\ TypeOK /\ worker \in WorkerStates /\ worker.inbox \in Seq(Message) /\ failed \in Message
    BY WorkerFields, PoolMessages DEF IInv
  <2>1. CASE page.committed
    <3>1. page.settler \in Turns \cup {NoTurn}
      BY <2>0 DEF TypeOK
    <3>2. \A s \in Turns \ displaced : turn[s].at = "posted" => s = page.settler
      BY DEF IInv, PendingServed
    <3> QED
      BY <1>2, <2>1, <3>1, <3>2, KillKeeps DEF FailPool
  <2>2. CASE ~page.committed
    <3>1. /\ member' = NoPool /\ worker' = [worker EXCEPT !.inbox = Append(@, failed)]
          /\ UNCHANGED <<chat, turn, page, displaced>>
      BY <1>2, <2>2 DEF FailPool
    <3>2. Append(worker.inbox, failed) \in Seq(Message)
          /\ Queued(Append(worker.inbox, failed)) = Queued(worker.inbox) \cup {failed}
      BY <2>0, AppendAt, QueuedAppend
    <3>3. /\ worker' \in WorkerStates
          /\ Queued(worker'.inbox) = Queued(worker.inbox) \cup {failed}
          /\ worker'.outbox = worker.outbox /\ worker'.ready = worker.ready
          /\ worker'.joined = worker.joined /\ worker'.job = worker.job
          /\ worker'.reported = worker.reported
      BY <2>0, <3>1, <3>2 DEF WorkerStates
    <3>4. page.active
      BY <1>2 DEF FailPool, IInv, NothingLeft, NoPool
    <3>5. TypeOK' /\ NothingLeft' /\ ReadyReported' /\ MessagesNamed'
      BY <2>0, <3>1, <3>3, <3>4
         DEF IInv, TypeOK, NothingLeft, ReadyReported, MessagesNamed, NoPool
    <3>6. \A k, i : (Sent(k, i)' <=> Sent(k, i)) /\ (Leaving(k)' <=> Leaving(k))
      BY <3>3 DEF Sent, Leaving
    <3>7. AskedOnce'
      BY <3>1, <3>3, <3>6 DEF IInv, PoolInv, AskedOnce
    <3>8. PoolKept'
      BY <3>1, <3>3 DEF IInv, PoolInv, PoolKept, NoPool
    <3>9. TornDownLast' /\ Committed'
      BY <3>1, <3>3, <3>6 DEF IInv, PoolInv, TornDownLast, Committed
    <3>10. \A s \in Turns : InFlight(s) => InFlight(s)'
      <4> SUFFICES ASSUME NEW s \in Turns, InFlight(s) PROVE InFlight(s)'
        OBVIOUS
      <4>1. InFlight(s)' <=> \/ worker'.job[s] # "none"
                             \/ \E e \in Queued(worker'.inbox) \cup Queued(worker'.outbox) : e.turn = s
        BY DEF InFlight, Queued
      <4> QED
        BY <3>3, <4>1, InFlightQueued
    <3>11. PendingServed'
      BY <3>1, <3>10 DEF IInv, PendingServed
    <3> QED
      BY <3>5, <3>7, <3>8, <3>9, <3>11 DEF IInv, PoolInv
  <2> QED
    BY <2>1, <2>2
<1> QED
  BY <1>1, <1>2 DEF PageStep

\* The worker reads its inbox.
LEMMA ReceivesKeeps == ASSUME IInv, WorkerReceives PROVE IInv'
<1>0. /\ TypeOK /\ worker \in WorkerStates /\ worker.inbox \in Seq(Message)
      /\ page.active /\ worker.inbox # <<>> /\ UNCHANGED <<chat, turn, page, member, displaced>>
  BY WorkerFields DEF IInv, WorkerReceives, Awake
<1>1. PICK msg, w : msg = Head(worker.inbox) /\ w = [worker EXCEPT !.inbox = Tail(@)]
  OBVIOUS
<1>2. /\ msg \in Message /\ Tail(worker.inbox) \in Seq(Message)
      /\ Queued(worker.inbox) = {msg} \cup Queued(Tail(worker.inbox))
  BY <1>0, <1>1, TailAt, QueuedTail
<1>3. /\ w \in WorkerStates /\ w.inbox = Tail(worker.inbox) /\ w.outbox = worker.outbox
      /\ w.ready = worker.ready /\ w.joined = worker.joined /\ w.job = worker.job
      /\ w.reported = worker.reported
  BY <1>0, <1>1, <1>2 DEF WorkerStates
<1>4. \/ msg.type = "request" /\ msg.turn \in Turns
      \/ msg.type = "pool-failed" /\ msg.turn = NoTurn
  BY <1>2 DEF IInv, MessagesNamed
<1>5. CASE msg.type = "pool-failed"
  <2>1. worker' = [w EXCEPT !.failed = TRUE]
    BY <1>1, <1>5 DEF WorkerReceives
  <2>2. /\ worker' \in WorkerStates /\ worker'.inbox = w.inbox /\ worker'.outbox = w.outbox
        /\ worker'.ready = w.ready /\ worker'.joined = w.joined /\ worker'.job = w.job
        /\ worker'.reported = w.reported
    BY <1>3, <2>1 DEF WorkerStates
  <2>3. PoolInv'
    BY <1>0, <1>3, <2>2, PoolStays DEF IInv
  <2>4. MessagesNamed' /\ ReadyReported'
    BY <1>2, <1>3, <2>2 DEF IInv, MessagesNamed, ReadyReported
  <2>5. \A s \in Turns : InFlight(s) => InFlight(s)'
    <3> SUFFICES ASSUME NEW s \in Turns, InFlight(s) PROVE InFlight(s)'
      OBVIOUS
    <3>1. InFlight(s)' <=> \/ worker'.job[s] # "none"
                           \/ \E e \in Queued(worker'.inbox) \cup Queued(worker'.outbox) : e.turn = s
      BY DEF InFlight, Queued
    <3>2. msg.turn # s
      BY <1>4, <1>5, TurnIds
    <3> QED
      BY <1>2, <1>3, <2>2, <3>1, <3>2, InFlightQueued
  <2> QED
    BY <1>0, <2>2, <2>3, <2>4, <2>5, WorkerKeeps
<1>6. CASE msg.type = "request" /\ ~worker.reported
  <2>1. PICK how \in {"starting", "single"} :
          worker' = [w EXCEPT !.reported = TRUE, !.ready = how, !.job[msg.turn] = "ready"]
    BY <1>1, <1>6 DEF WorkerReceives
  <2>2. msg.turn \in Turns
    BY <1>4, <1>6
  <2>3. /\ worker' \in WorkerStates /\ worker'.inbox = w.inbox /\ worker'.outbox = w.outbox
        /\ worker'.ready = how /\ worker'.joined = w.joined /\ worker'.reported
        /\ worker'.job = [w.job EXCEPT ![msg.turn] = "ready"]
    BY <1>3, <2>1, <2>2 DEF WorkerStates
  <2>4. PoolInv'
    <3>1. worker.ready = "no"
      BY <1>6 DEF IInv, ReadyReported
    <3> QED
      BY <1>0, <1>3, <2>3, <3>1, PoolStays DEF IInv
  <2>5. MessagesNamed' /\ ReadyReported'
    BY <1>2, <1>3, <2>3 DEF IInv, MessagesNamed, ReadyReported
  <2>6. \A s \in Turns : InFlight(s) => InFlight(s)'
    <3> SUFFICES ASSUME NEW s \in Turns, InFlight(s) PROVE InFlight(s)'
      OBVIOUS
    <3>1. InFlight(s)' <=> \/ worker'.job[s] # "none"
                           \/ \E e \in Queued(worker'.inbox) \cup Queued(worker'.outbox) : e.turn = s
      BY DEF InFlight, Queued
    <3>2. worker'.job[msg.turn] = "ready" /\ (s # msg.turn => worker'.job[s] = worker.job[s])
      BY <1>3, <2>2, <2>3 DEF WorkerStates
    <3> QED
      BY <1>2, <1>3, <2>3, <3>1, <3>2, InFlightQueued
  <2> QED
    BY <1>0, <2>3, <2>4, <2>5, <2>6, WorkerKeeps
<1>7. CASE msg.type = "request" /\ worker.reported
  <2>1. worker' = Enter(msg.turn, w) /\ msg.turn \in Turns
    BY <1>1, <1>4, <1>7 DEF WorkerReceives
  <2> QED
    BY <1>0, <1>1, <1>3, <2>1, EntersRequest
<1> QED
  BY <1>4, <1>5, <1>6, <1>7

\* A request ends, with its answer or with an error.
LEMMA RequestEnds ==
  ASSUME IInv, page.active, UNCHANGED <<chat, turn, page, member, displaced>>,
         NEW t \in Turns, NEW type \in {"done", "error"},
         worker' = [worker EXCEPT !.job[t] = "none", !.outbox = Posted(type, t)]
  PROVE  IInv'
<1> DEFINE msg == [type |-> type, turn |-> t]
<1>1. /\ TypeOK /\ worker \in WorkerStates /\ worker.outbox \in Seq(Message) /\ msg \in Message
      /\ Append(worker.outbox, msg) \in Seq(Message)
  BY WorkerFields, PoolMessages, AppendAt DEF IInv
<1>2. /\ worker' \in WorkerStates /\ worker'.inbox = worker.inbox
      /\ worker'.outbox = Append(worker.outbox, msg)
      /\ worker'.joined = worker.joined /\ worker'.reported = worker.reported
      /\ worker'.ready = worker.ready
      /\ \A s \in Turns \ {t} : worker'.job[s] = worker.job[s]
  BY <1>1 DEF WorkerStates, Posted
<1>3. msg.type = type /\ msg.turn = t
  OBVIOUS
<1> HIDE DEF msg
<1>4. \A s \in Turns : worker.job[s] # "none" => worker'.job[s] # "none" \/ msg.turn = s
  BY <1>2, <1>3
<1> QED
  BY <1>1, <1>2, <1>3, <1>4, WorkerSends

LEMMA GiveUpKeeps ==
  ASSUME IInv, Awake, worker.ready \in {"starting", "polling"}, GiveUp
  PROVE  IInv'
<1> DEFINE msg == [type |-> "pool-teardown", turn |-> NoTurn]
<1>1. /\ TypeOK /\ worker \in WorkerStates /\ worker.outbox \in Seq(Message) /\ msg \in Message
      /\ Append(worker.outbox, msg) \in Seq(Message)
  BY WorkerFields, PoolMessages, AppendAt DEF IInv
<1>2. /\ worker' \in WorkerStates /\ worker'.inbox = worker.inbox
      /\ worker'.outbox = Append(worker.outbox, msg)
      /\ worker'.joined = worker.joined /\ worker'.reported = worker.reported
      /\ worker'.ready = "single" /\ worker'.job = worker.job
  BY <1>1 DEF GiveUp, WorkerStates, Posted
<1>3. msg.type = "pool-teardown" /\ msg.turn = NoTurn
  OBVIOUS
<1> HIDE DEF msg
<1> QED
  BY <1>1, <1>2, <1>3, WorkerSends DEF GiveUp, Awake

LEMMA WorkerStepKeeps == ASSUME IInv, WorkerStep PROVE IInv'
<1>0. TypeOK /\ worker \in WorkerStates /\ worker.outbox \in Seq(Message)
  BY WorkerFields DEF IInv
<1>1. ASSUME SpawnPool PROVE IInv'
  <2> DEFINE msg == [type |-> "spawn-pool", turn |-> NoTurn]
  <2>1. msg \in Message /\ Append(worker.outbox, msg) \in Seq(Message)
    BY <1>0, PoolMessages, AppendAt
  <2>2. /\ worker' \in WorkerStates /\ worker'.inbox = worker.inbox
        /\ worker'.outbox = Append(worker.outbox, msg)
        /\ worker'.joined = worker.joined /\ worker'.reported = worker.reported
        /\ worker'.ready = "polling" /\ worker'.job = worker.job
    BY <1>0, <1>1, <2>1 DEF SpawnPool, WorkerStates, Posted
  <2>3. msg.type = "spawn-pool" /\ msg.turn = NoTurn
    OBVIOUS
  <2> HIDE DEF msg
  <2> QED
    BY <1>1, <2>1, <2>2, <2>3, WorkerSends DEF SpawnPool, Awake
<1>2. ASSUME PoolReady PROVE IInv'
  <2>1. /\ worker' \in WorkerStates /\ worker'.inbox = worker.inbox
        /\ worker'.outbox = worker.outbox
        /\ worker'.joined = worker.joined /\ worker'.reported = worker.reported
        /\ worker'.ready = "threaded" /\ worker'.job = worker.job
    BY <1>0, <1>2 DEF PoolReady, WorkerStates
  <2> QED
    BY <1>2, <2>1, WorkerMoves DEF PoolReady, AllJoined, Awake
<1>3. ASSUME FallBack \/ TimeOut PROVE IInv'
  BY <1>3, GiveUpKeeps DEF FallBack, TimeOut
<1>4. ASSUME NEW t \in Turns, Resume(t) PROVE IInv'
  <2> DEFINE msg == [type |-> "pool-committed", turn |-> NoTurn]
             w == IF worker.ready = "threaded" THEN [worker EXCEPT !.outbox = Append(worker.outbox, msg)]
                  ELSE worker
  <2>1. Append(worker.outbox, msg) \in Seq(Message)
    BY <1>0, PoolMessages, AppendAt
  <2>2. /\ w \in WorkerStates /\ w.ready = worker.ready /\ w.joined = worker.joined
        /\ w.reported = worker.reported /\ w.inbox = worker.inbox /\ w.job = worker.job
        /\ \/ w.outbox = worker.outbox
           \/ worker.ready = "threaded" /\ w.outbox = Append(worker.outbox, msg)
    BY <1>0, <2>1 DEF WorkerStates
  <2>3. worker' = Enter(t, w)
    BY <1>4 DEF Resume, Posted
  <2> HIDE DEF w
  <2> QED
    BY <1>4, <2>2, <2>3, EntersRequest DEF Resume, Awake
<1>5. ASSUME NEW t \in Turns, Built(t) PROVE IInv'
  <2> DEFINE w == [worker EXCEPT !.warm = turn[t].archive]
  <2>1. turn[t].archive \in Archives \cup {NoArchive}
    BY <1>0 DEF TypeOK
  <2>2. /\ w \in WorkerStates /\ w.ready = worker.ready /\ w.joined = worker.joined
        /\ w.reported = worker.reported /\ w.inbox = worker.inbox /\ w.job = worker.job
        /\ w.outbox = worker.outbox
    BY <1>0, <2>1 DEF WorkerStates
  <2>3. worker' = Enter(t, w)
    BY <1>5 DEF Built
  <2> HIDE DEF w
  <2> QED
    BY <1>5, <2>2, <2>3, EntersRequest DEF Built, Awake
<1>6. ASSUME NEW t \in Turns, Finish(t) PROVE IInv'
  BY <1>6, RequestEnds DEF Finish
<1> QED
  BY <1>1, <1>2, <1>3, <1>4, <1>5, <1>6, ReceivesKeeps DEF WorkerStep

LEMMA TurnInductive == IInv /\ [Next]_vars => IInv'
<1> SUFFICES ASSUME IInv, [Next]_vars PROVE IInv'
  OBVIOUS
<1>1. ASSUME NEW t \in Turns, Fails(t) PROVE IInv'
  BY <1>1, RequestEnds DEF Fails
<1>2. ASSUME NEW m \in Members, Join(m) PROVE IInv'
  BY <1>2, MemberMoves DEF Join
<1>3. ASSUME NEW m \in Members, MemberFails(m) PROVE IInv'
  <2>1. /\ member[m] # "off" /\ member' = [member EXCEPT ![m] = "failed"]
        /\ worker' = worker /\ UNCHANGED <<chat, turn, page, displaced>>
    BY <1>3 DEF MemberFails
  <2>2. "failed" \in {"registered", "failed"}
    OBVIOUS
  <2> QED
    BY <2>1, <2>2, MemberMoves
<1>4. ASSUME WorkerDies PROVE IInv'
  BY <1>4, AbortKeeps DEF WorkerDies
<1>5. CASE UNCHANGED vars
  <2>1. UNCHANGED <<chat, turn, page, worker, member, displaced>>
    BY <1>5 DEF vars
  <2>2. PromiseTyped'
    BY <2>1 DEF IInv, TypeOK, PromiseTyped
  <2> QED
    BY <2>1, <2>2, ChatMoves
<1>6. ASSUME NEW t \in Turns, Begin(t) \/ Post(t) \/ OpenFails(t) \/ Fails(t) PROVE IInv'
  BY <1>1, <1>6, BeginKeeps, PostKeeps, OpenFailsKeeps
<1>7. ASSUME UserStep \/ PageStep \/ WorkerStep \/ WorkerDies PROVE IInv'
  BY <1>4, <1>7, UserKeeps, PageKeeps, WorkerStepKeeps
<1> QED
  BY <1>2, <1>3, <1>5, <1>6, <1>7 DEF Next

\* Whatever the user clicks, the workers do and the device kills, in any order,
\* the inductive invariant of the page, its worker and its pool holds.
THEOREM TurnInvariant == Spec => []IInv
BY TurnInit, TurnInductive, PTL DEF Spec

\* The state of chat, page, worker and pool keeps its shape (Chat.tsx, ipc.ts,
\* generate.worker.ts).
THEOREM TurnTypeCorrect == Spec => []TypeOK
<1>1. IInv => TypeOK
  BY DEF IInv
<1> QED
  BY <1>1, TurnInvariant, PTL

\* No pool outlives the worker that asked for it, and none is still to register
\* when that worker decodes (terminatePool in ipc.ts, initThreaded).
THEOREM TurnPoolOwned == Spec => []PoolOwned
<1>1. IInv => PoolOwned
  <2> SUFFICES ASSUME IInv PROVE PoolOwned
    OBVIOUS
  <2>1. NoLateMember
    BY DEF NoLateMember, IInv, PoolInv, PoolKept
  <2>2. (\E m \in Members : member[m] # "off") => page.active
    BY DEF IInv, NothingLeft, NoPool
  <2>3. (\E m \in Members : member[m] # "off") =>
          \/ worker.ready \in {"polling", "threaded"}
          \/ \E i \in DOMAIN worker.outbox : worker.outbox[i].type = "pool-teardown"
    BY DEF IInv, PoolInv, PoolKept, Leaving
  <2> QED
    BY <2>1, <2>2, <2>3 DEF PoolOwned
<1> QED
  BY <1>1, TurnInvariant, PTL

\* poolCommitted never outlives the runtime that committed (ipc.ts).
THEOREM TurnCommitIsCurrent == Spec => []CommitIsCurrent
<1>1. IInv => CommitIsCurrent
  BY DEF CommitIsCurrent, IInv, PoolInv, Committed, NothingLeft, NoWorker
<1> QED
  BY <1>1, TurnInvariant, PTL

\* A turn that is awaited and that no later turn has displaced has the settlers
\* and closures of a live worker, which holds its request or its answer.
THEOREM TurnPendingServed == Spec => []PendingServed
<1>1. IInv => PendingServed
  BY DEF IInv
<1> QED
  BY <1>1, TurnInvariant, PTL
===============================================================================
