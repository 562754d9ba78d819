------------------------------- MODULE Residency -------------------------------
(***************************************************************************)
(* The address space of a tab, shared by a target model and its paired     *)
(* draft: the residency ledger that every runner of both charges           *)
(* (staged.rs), and the budget left for it once the pair's carried K/V is  *)
(* charged against the ceiling (hologram-ai-wasm lib.rs).  All of it runs  *)
(* on one thread: the interleavings are those of calls, and of failures    *)
(* inside them.                                                            *)
(***************************************************************************)
EXTENDS Integers, Functions

CONSTANTS Model,       \* the models sharing the address space
          StageCount,  \* stages of every pipeline
          Weight,      \* packed bytes of each stage
          Footprints,  \* per stage, the runtime footprints its session may report
          Buckets,     \* rungs of the window ladder
          KvRow,       \* carried K/V bytes of one bucket row
          Hosts        \* the hosts a session may run on: see host below

Stages == 0 .. StageCount - 1
Kinds == {"step", "seeder", "verify"}
Runners == Model \X Kinds

ASSUME ResidencyAssumption ==
  /\ "target" \in Model /\ Model \subseteq {"target", "draft"}
  /\ StageCount \in Nat \ {0}
  /\ Weight \in [Stages -> Nat]
  /\ Footprints \in [Stages -> SUBSET Nat]
  /\ Buckets \subseteq Nat \ {0} /\ KvRow \in Nat
  /\ Hosts \subseteq [ceiling : Nat, bounded : BOOLEAN]

VARIABLES host,    \* the host: its ceiling less the fixed headroom, and whether
                   \* that is an address ceiling (bound_by_footprint, wasm32)
          live,    \* the wired runners
          held,    \* resident: per runner and stage, the footprint charged for it, 0 if absent
          own,     \* resident_footprint of each runner
          budget,  \* residency_budget of each runner
          ledger,  \* the shared ResidencyLedger
          handed,  \* residency_budget each growable session hands to the runners it wires
          bucket,  \* bucket of each model's decode session, 0 before its first turn
          charge,  \* KvCharge
          call     \* the decode call in progress

vars == <<host, live, held, own, budget, ledger, handed, bucket, charge, call>>

NoCall == [op |-> "none", model |-> "target", walking |-> "step", stage |-> StageCount]
Calling == call # NoCall
\* A call is between two walks when its stage is past the last one.
Between == call.stage = StageCount

Larger(a, b) == IF a >= b THEN a ELSE b

-----------------------------------------------------------------------------
(* The ledger.                                                             *)

\* evict_resident and Drop: the runners' shares go back to the ledger.
EmptyStages == [s \in Stages |-> 0]

\* Fault: the shares are not returned.
FreedUncharged(rs) ==
  /\ held' = [r \in Runners |-> IF r \in rs THEN EmptyStages ELSE held[r]]
  /\ own' = [r \in Runners |-> IF r \in rs THEN 0 ELSE own[r]]
  /\ UNCHANGED ledger

Freed(rs) ==
  /\ held' = [r \in Runners |-> IF r \in rs THEN EmptyStages ELSE held[r]]
  /\ own' = [r \in Runners |-> IF r \in rs THEN 0 ELSE own[r]]
  /\ ledger' = [ledger EXCEPT !.footprint = @ - SumFunctionOnSet(own, rs)]

\* resident_bytes counts packed weights.
ResidentBytes(r) == SumFunction([s \in Stages |-> IF held[r][s] = 0 THEN 0 ELSE Weight[s]])

\* Taking a stage out of its slot takes its footprint off every tally.
Taken(r, s) == held[r][s]

\* The footprint a stage of runner r may add: what is left of the shared
\* ledger once the largest walk seen so far is set aside, or of the runner's
\* own packed weights where the budget is only a cache limit.
\* Faults: the runner counts its own footprint only; the stage's own weight
\* is left out.
FitsAlone(r, s, foot, reserve) == own[r] - Taken(r, s) + foot + reserve <= budget[r]
Fits(r, s, foot, reserve) ==
  IF host.bounded
    THEN ledger.footprint - Taken(r, s) + foot + reserve <= budget[r]
    ELSE ResidentBytes(r) - (IF Taken(r, s) = 0 THEN 0 ELSE Weight[s]) + Weight[s] <= budget[r]

\* One stage of execute_window_kv: its slot is taken, and its session is kept
\* if it fits.  The probe is an environment measurement: it may say no.
StageWalks(footprint, probe) ==
  LET r == <<call.model, call.walking>>
      s == call.stage
      taken == Taken(r, s)
      foot == Larger(footprint, Weight[s])
      reserve == IF host.bounded THEN Larger(ledger.max_walk, foot) ELSE ledger.max_walk
      kept == IF Weight[s] > 0 /\ Fits(r, s, foot, reserve) /\ probe THEN foot ELSE 0
  IN /\ Calling /\ ~Between
     /\ footprint \in Footprints[s]
     /\ held' = [held EXCEPT ![r][s] = kept]
     /\ own' = [own EXCEPT ![r] = @ - taken + kept]
     /\ ledger' = [footprint |-> ledger.footprint - taken + kept, max_walk |-> reserve]
     /\ call' = IF s + 1 = StageCount /\ call.op # "feed" THEN NoCall ELSE [call EXCEPT !.stage = s + 1]
     /\ UNCHANGED <<host, live, budget, handed, bucket, charge>>

\* Fault: the tallies forget a session the slot still holds.
StageFailsHeld ==
  LET r == <<call.model, call.walking>>
      taken == Taken(r, call.stage)
  IN /\ Calling /\ ~Between
     /\ own' = [own EXCEPT ![r] = @ - taken]
     /\ ledger' = [ledger EXCEPT !.footprint = @ - taken]
     /\ call' = NoCall
     /\ UNCHANGED <<host, held, live, budget, handed, bucket, charge>>

\* The stage fails to materialize, load or execute: what its slot held is
\* gone, and so is the call.
StageFails ==
  LET r == <<call.model, call.walking>>
      taken == Taken(r, call.stage)
  IN /\ Calling /\ ~Between
     /\ held' = [held EXCEPT ![r][call.stage] = 0]
     /\ own' = [own EXCEPT ![r] = @ - taken]
     /\ ledger' = [ledger EXCEPT !.footprint = @ - taken]
     /\ call' = NoCall
     /\ UNCHANGED <<host, live, budget, handed, bucket, charge>>

-----------------------------------------------------------------------------
(* Decode calls.                                                           *)

\* A step walks the step runner, a speculate the verify runner, once each.
Call(m, op) ==
  /\ ~Calling /\ bucket[m] # 0
  /\ op = "speculate" => <<m, "verify">> \in live
  /\ call' = [op |-> op, model |-> m,
              walking |-> IF op = "speculate" THEN "verify" ELSE "step",
              stage |-> IF op = "feed" THEN StageCount ELSE 0]
  /\ UNCHANGED <<host, live, held, own, budget, ledger, handed, bucket, charge>>

\* The next chunk of a feed.
ChunkBegins(kind) ==
  /\ call.op = "feed" /\ Between
  /\ kind # "verify" /\ <<call.model, kind>> \in live
  /\ call' = [call EXCEPT !.walking = kind, !.stage = 0]
  /\ UNCHANGED <<host, live, held, own, budget, ledger, handed, bucket, charge>>

\* The end of feed: the seeder yields its residency to the step runner when
\* the two would not both fit.
FeedReturns ==
  LET seeder == <<call.model, "seeder">>
      yields == seeder \in live /\ budget[seeder] > 0 /\ own[seeder] * 2 > budget[seeder]
  IN /\ call.op = "feed" /\ Between
     /\ Freed(IF yields THEN {seeder} ELSE {})
     /\ call' = NoCall
     /\ UNCHANGED <<host, live, budget, handed, bucket, charge>>

-----------------------------------------------------------------------------
(* Building and regrowing the pair's sessions.                             *)

kv_total(charges) == SumFunction(charges)

decode_residency_budget(kv) == IF kv <= host.ceiling THEN host.ceiling - kv ELSE 0

\* charge_carried_kv: a no-op on a host without an address ceiling.  The
\* growable hands the new budget to its whole-window runner, which a decode
\* session does not use, and to the runners it wires from now on.
Charged(m, rows) ==
  /\ charge' = [charge EXCEPT ![m] = rows * KvRow]
  /\ handed' = IF host.bounded THEN [n \in Model |-> decode_residency_budget(kv_total(charge'))] ELSE handed

\* generate, first turn: the step runner is wired before its carried K/V is
\* known and charged.  The draft's session is built after the target's.
FirstTurn(m, rows) ==
  /\ ~Calling /\ bucket[m] = 0
  /\ m = "draft" => bucket["target"] # 0
  /\ bucket' = [bucket EXCEPT ![m] = rows]
  /\ live' = live \cup {<<m, "step">>}
  /\ budget' = [budget EXCEPT ![<<m, "step">>] = handed[m]]
  /\ Charged(m, rows)
  /\ UNCHANGED <<host, held, own, ledger, call>>

\* wire_runner for the prefill seeder, or for a turn's verify runner.
WireAuxiliary(m, kind) ==
  /\ ~Calling /\ bucket[m] # 0 /\ <<m, kind>> \notin live
  /\ kind = "verify" => m = "target"
  /\ live' = live \cup {<<m, kind>>}
  /\ budget' = [budget EXCEPT ![<<m, kind>>] = handed[m]]
  /\ UNCHANGED <<host, held, own, ledger, handed, bucket, charge, call>>

\* A speculative turn retires its verify runner, then drops it at its end.
RetireVerify(m) ==
  /\ ~Calling /\ <<m, "verify">> \in live
  /\ Freed({<<m, "verify">>})
  /\ live' \in {live, live \ {<<m, "verify">>}}
  /\ UNCHANGED <<host, budget, handed, bucket, charge, call>>

\* grow: the seeder is dropped and the outgoing step runner evicted before
\* the rebuild closure charges the wider K/V and wires the new runner.
Growing(m, rows) ==
  /\ call.model = m
  /\ (call.op = "step" /\ call.stage = 0) \/ (call.op = "feed" /\ Between)
  /\ rows > bucket[m]
  /\ Freed({<<m, "step">>, <<m, "seeder">>})
  /\ live' = live \ {<<m, "seeder">>}
  /\ Charged(m, rows)

Regrow(m, rows) ==
  /\ Growing(m, rows)
  /\ bucket' = [bucket EXCEPT ![m] = rows]
  /\ budget' = [budget EXCEPT ![<<m, "step">>] = handed'[m]]
  /\ UNCHANGED <<host, call>>

\* The wider bucket fails to compile: the old runner survives.
RegrowFails(m, rows) ==
  /\ Growing(m, rows)
  /\ call' = NoCall
  /\ UNCHANGED <<host, bucket, budget>>

-----------------------------------------------------------------------------

Init == /\ host \in Hosts
        /\ live = {}
        /\ held = [r \in Runners |-> EmptyStages]
        /\ own = [r \in Runners |-> 0]
        /\ budget = [r \in Runners |-> 0]
        /\ ledger = [footprint |-> 0, max_walk |-> 0]
        /\ handed = [m \in Model |-> host.ceiling]
        /\ bucket = [m \in Model |-> 0]
        /\ charge = [m \in Model |-> 0]
        /\ call = NoCall

Next == \/ \E s \in Stages, probe \in BOOLEAN :
             \E footprint \in Footprints[s] : s = call.stage /\ StageWalks(footprint, probe)
        \/ StageFails
        \/ \E m \in Model, op \in {"step", "feed", "speculate"} : Call(m, op)
        \/ \E kind \in Kinds : ChunkBegins(kind)
        \/ FeedReturns
        \/ \E m \in Model, rows \in Buckets :
             FirstTurn(m, rows) \/ Regrow(m, rows) \/ RegrowFails(m, rows)
        \/ \E m \in Model : RetireVerify(m) \/ \E kind \in Kinds \ {"step"} : WireAuxiliary(m, kind)

Spec == Init /\ [][Next]_vars

-----------------------------------------------------------------------------
(* Properties.                                                             *)

TypeOK == /\ host \in Hosts
          /\ live \subseteq Runners
          /\ held \in [Runners -> [Stages -> Nat]]
          /\ own \in [Runners -> Nat] /\ budget \in [Runners -> Nat]
          /\ ledger \in [footprint : Nat, max_walk : Nat]
          /\ handed \in [Model -> Nat] /\ bucket \in [Model -> Buckets \cup {0}]
          /\ charge \in [Model -> Nat]
          /\ call \in [op : {"none", "step", "feed", "speculate"}, model : Model,
                       walking : Kinds, stage : Nat]

\* Through every admission, hit, failed walk, eviction, drop and regrow the
\* ledger holds exactly what the live runners' resident stages hold: nothing
\* is charged twice and a dropped runner returns its whole share.
LedgerExact ==
  /\ ledger.footprint = SumFunctionOnSet(own, live)
  /\ \A r \in Runners : own[r] = SumFunction(held[r])

\* The runners of both models together never hold more resident stages than
\* the ceiling: "their sum never exceeds the ceiling" (share_residency_with).
\* Off the browser the budget bounds each runner's packed weights.
BudgetHeld == IF host.bounded THEN ledger.footprint <= host.ceiling
                              ELSE \A r \in live : ResidentBytes(r) <= budget[r]

\* A stage that becomes resident leaves room for the carried K/V: the charge
\* "is what keeps a long-context K/V from over-committing" (lib.rs).
AdmissionLeavesKvRoom ==
  [][host.bounded /\ ledger'.footprint > ledger.footprint =>
       ledger'.footprint + kv_total(charge) <= host.ceiling]_vars
===============================================================================
