----------------------------- MODULE DerivedStages -----------------------------
(***************************************************************************)
(* The derived-artifact store of a staged session: the stage archives a    *)
(* window or a decode pipeline compiles to are kept under their derivation *)
(* key, in memory for the session and on disk for the next one             *)
(* (stages_for_window in crates/hologram-ai/src/staged.rs;                 *)
(* loadDerivedEntries and derivedStore in apps/web/src/generate.worker.ts).*)
(*                                                                         *)
(* Writing and removing an entry are background tasks nobody waits for.    *)
(* They outlive the session that started them: the worker rebuilds a       *)
(* session, which loads the directory, while they still run.               *)
(***************************************************************************)
EXTENDS Integers, Sequences, SequencesExt

CONSTANTS Inputs,    \* what a pipeline is derived from: window, config, weight kappas, tier
          Stages,    \* archives of a pipeline
          MaxTasks,  \* bound: background tasks under way
          MaxRot     \* bound: files whose bytes change under the program

ASSUME DerivedAssumption == Stages \in Nat

VARIABLES disk,      \* the derived directory: an entry's files, or NoEntry
          tasks,     \* background writes and removals
          loading,   \* the session being built: entries to read, the one being read
          entries,   \* the session's map of entries
          inForce,   \* what the session resolved last, and what it got
          rotted     \* files changed so far

derived_vars == <<disk, tasks, loading, entries, inForce, rotted>>

NoEntry == [kind |-> "absent"]
Nothing == [kind |-> "none"]

\* Content is what it was derived from; its kappa is that content's name.
Archive(input, s) == [input |-> input, stage |-> s]
Rotten == [input |-> "rot", stage |-> 0]
Compiled(input) == [s \in 1 .. Stages |-> Archive(input, s)]
kappa_of(content) == content

\* Fault: the window alone is the key.
KeyOfNothing(input) == CHOOSE any \in Inputs : TRUE

\* A kappa over every input of the derivation.
derivation_key(input) == input

Entry(stages, kappas) == [kind |-> "entry", stages |-> stages, kappas |-> kappas]

-----------------------------------------------------------------------------
(* Opening a session: every entry is read up front, its kappa list first,  *)
(* then the files the list names.  A failure drops the entry.              *)

OpenSession == /\ loading = Nothing
               /\ loading' = [kind |-> "next", left |-> {key \in Inputs : disk[key] # NoEntry}]
               /\ entries' = [key \in Inputs |-> NoEntry]
               /\ inForce' = Nothing
               /\ UNCHANGED <<disk, tasks, rotted>>

ReadList == /\ loading.kind = "next"
            /\ \E key \in loading.left :
                 loading' = IF disk[key] = NoEntry \/ disk[key].kappas = <<>>
                              THEN [loading EXCEPT !.left = @ \ {key}]
                              ELSE [kind |-> "stages", left |-> loading.left \ {key}, key |-> key,
                                    kappas |-> disk[key].kappas, stages |-> <<>>]
            /\ UNCHANGED <<disk, tasks, entries, inForce, rotted>>

ReadStage == /\ loading.kind = "stages"
             /\ Len(loading.stages) < Len(loading.kappas)
             /\ LET s == Len(loading.stages) + 1
                    there == disk[loading.key] # NoEntry /\ s \in DOMAIN disk[loading.key].file
                IN loading' = IF there
                                THEN [loading EXCEPT !.stages = Append(@, disk[loading.key].file[s])]
                                ELSE [kind |-> "next", left |-> loading.left]
             /\ UNCHANGED <<disk, tasks, entries, inForce, rotted>>

ReadDone == /\ loading.kind = "stages"
            /\ Len(loading.stages) = Len(loading.kappas)
            /\ entries' = [entries EXCEPT ![loading.key] = Entry(loading.stages, loading.kappas)]
            /\ loading' = [kind |-> "next", left |-> loading.left]
            /\ UNCHANGED <<disk, tasks, inForce, rotted>>

Opened == /\ loading.kind = "next" /\ loading.left = {}
          /\ loading' = [kind |-> "open"]
          /\ UNCHANGED <<disk, tasks, entries, inForce, rotted>>

-----------------------------------------------------------------------------
(* Resolving a pipeline.                                                   *)

\* Fault: an entry is trusted when it is complete.
IntactByCount(entry) == Len(entry.stages) = Len(entry.kappas) /\ entry.stages # <<>>

Intact(entry) == /\ Len(entry.stages) = Len(entry.kappas) /\ entry.stages # <<>>
                 /\ \A s \in DOMAIN entry.stages : kappa_of(entry.stages[s]) = entry.kappas[s]

Resolved(input, stages) == inForce' = [kind |-> "stages", input |-> input, stages |-> stages]

Serve(input) == LET held == entries[derivation_key(input)]
                IN /\ loading.kind = "open"
                   /\ held # NoEntry /\ Intact(held)
                   /\ Resolved(input, held.stages)
                   /\ UNCHANGED <<disk, tasks, loading, entries, rotted>>

Removal(key) == [kind |-> "remove", key |-> key]
Write(key, stages) == [kind |-> "write", key |-> key, stages |-> stages, done |-> 0]

\* A broken entry is unpinned; the stages are compiled and the new entry put.
Derive(input) == LET key == derivation_key(input)
                     broken == entries[key] # NoEntry
                 IN /\ loading.kind = "open"
                    /\ ~(broken /\ Intact(entries[key]))
                    /\ Len(tasks) + 2 <= MaxTasks
                    /\ tasks' = (IF broken THEN Append(tasks, Removal(key)) ELSE tasks)
                                  \o <<Write(key, Compiled(input))>>
                    /\ entries' = [entries EXCEPT ![key] = Entry(Compiled(input), Compiled(input))]
                    /\ Resolved(input, Compiled(input))
                    /\ UNCHANGED <<disk, loading, rotted>>

\* Compilation fails: a broken entry is unpinned and nothing takes its place.
DeriveFails(input) == LET key == derivation_key(input)
                      IN /\ loading.kind = "open"
                         /\ entries[key] # NoEntry /\ ~Intact(entries[key])
                         /\ Len(tasks) < MaxTasks
                         /\ tasks' = Append(tasks, Removal(key))
                         /\ entries' = [entries EXCEPT ![key] = NoEntry]
                         /\ inForce' = Nothing
                         /\ UNCHANGED <<disk, loading, rotted>>

-----------------------------------------------------------------------------
(* Background tasks, in any interleaving.  A write makes the directory,    *)
(* writes the archives in order and the kappa list last.                   *)

Rest(t) == RemoveAt(tasks, t)

WriteStage(t) == LET task == tasks[t]
                     old == disk[task.key]
                     there == IF old = NoEntry THEN [s \in {} |-> Rotten] ELSE old.file
                     s == task.done + 1
                 IN /\ task.kind = "write" /\ task.done < Stages
                    /\ old # NoEntry \/ task.done = 0
                    /\ disk' = [disk EXCEPT ![task.key] =
                                  [kind |-> "dir",
                                   file |-> [f \in DOMAIN there \cup {s} |->
                                               IF f = s THEN task.stages[s] ELSE there[f]],
                                   kappas |-> IF old = NoEntry THEN <<>> ELSE old.kappas]]
                    /\ tasks' = [tasks EXCEPT ![t].done = s]
                    /\ UNCHANGED <<loading, entries, inForce, rotted>>

WriteList(t) == LET task == tasks[t]
                IN /\ task.kind = "write" /\ task.done = Stages
                   /\ disk[task.key] # NoEntry
                   /\ disk' = [disk EXCEPT ![task.key].kappas =
                                 [s \in 1 .. Stages |-> kappa_of(task.stages[s])]]
                   /\ tasks' = Rest(t)
                   /\ UNCHANGED <<loading, entries, inForce, rotted>>

Unlink(t) == /\ tasks[t].kind = "remove"
             /\ disk' = [disk EXCEPT ![tasks[t].key] = NoEntry]
             /\ tasks' = Rest(t)
             /\ UNCHANGED <<loading, entries, inForce, rotted>>

\* Quota, a directory removed under a write, a file held open: nobody hears.
TaskFails(t) == /\ tasks' = Rest(t)
                /\ UNCHANGED <<disk, loading, entries, inForce, rotted>>

-----------------------------------------------------------------------------

\* disposeWarm: a session that could not be built, or that is replaced.
\* Its tasks go on.
Dispose == /\ loading # Nothing
           /\ loading' = Nothing /\ inForce' = Nothing
           /\ entries' = [key \in Inputs |-> NoEntry]
           /\ UNCHANGED <<disk, tasks, rotted>>

\* The worker is terminated.
Kill == /\ loading' = Nothing /\ inForce' = Nothing /\ tasks' = <<>>
        /\ entries' = [key \in Inputs |-> NoEntry]
        /\ UNCHANGED <<disk, rotted>>

Rot(key) == /\ rotted < MaxRot /\ disk[key] # NoEntry
            /\ \E s \in DOMAIN disk[key].file : disk' = [disk EXCEPT ![key].file[s] = Rotten]
            /\ rotted' = rotted + 1
            /\ UNCHANGED <<tasks, loading, entries, inForce>>

DerivedInit ==
  /\ disk = [key \in Inputs |-> NoEntry]
  /\ tasks = <<>>
  /\ loading = Nothing
  /\ entries = [key \in Inputs |-> NoEntry]
  /\ inForce = Nothing
  /\ rotted = 0

DerivedNext ==
  \/ OpenSession \/ ReadList \/ ReadStage \/ ReadDone \/ Opened
  \/ \E input \in Inputs : Serve(input) \/ Derive(input) \/ DeriveFails(input)
  \/ \E t \in DOMAIN tasks : WriteStage(t) \/ WriteList(t) \/ Unlink(t) \/ TaskFails(t)
  \/ Dispose \/ Kill
  \/ \E key \in Inputs : Rot(key)

DerivedSpec == DerivedInit /\ [][DerivedNext]_derived_vars

-----------------------------------------------------------------------------
(* Property.                                                               *)

\* "A wrong prior can never dead-end or execute unverified content"
\* (DerivedStore in staged.rs): whatever torn writes, late removals and
\* changed files came before, the stages a session runs are the ones its own
\* inputs derive to.
StagesDerived == inForce # Nothing => inForce.stages = Compiled(inForce.input)
===============================================================================
