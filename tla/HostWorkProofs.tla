---------------------------- MODULE HostWorkProofs ----------------------------
(***************************************************************************)
(* Proofs about five parts of HostWork, each by itself.                    *)
(*                                                                         *)
(* PassBuffers, for every ladder of buckets, every set of runner widths    *)
(* and every kind of rotary law.  MaskExact is not inductive by itself:    *)
(* columns flipped back to hidden must not be columns of the chunk, and    *)
(* they are not because the mask's last position never lies past the rows  *)
(* it was built over, whatever the session's bucket is now.                *)
(*                                                                         *)
(* DerivedStages, for every set of inputs, number of stages, of tasks and  *)
(* of changed files.  Files may hold anything; what is inductive is that a *)
(* kappa list, wherever it is, lists what its key derives to.              *)
(*                                                                         *)
(* PromptLookup, for every sequence and draft length.  The loop of         *)
(* z_function keeps one fact about its window: rev[l .. r-1] repeats the   *)
(* head of rev.  An entry copied from inside the window is then final, or  *)
(* reaches the window's edge and is compared on from there, so that the    *)
(* comparisons made are paid for by the window's edge and by the positions *)
(* passed.                                                                 *)
(*                                                                         *)
(* StreamText, for every vocabulary, stop set and length of turn.  The     *)
(* decoder's window always begins where the text may be cut: no character  *)
(* is open there, and tokens before it show something only if its first    *)
(* tokens do, so that a space stripped from its front was stripped from    *)
(* its emitted prefix too.  Then the window grows as the one-shot decode   *)
(* does.  The scan's tail is the end of the emitted text, all of it or as  *)
(* many bytes as the longest stop string less one.                         *)
(*                                                                         *)
(* TextCodec, for every tokenizer file and every text.  What is inductive  *)
(* is that the bytes of the ids emitted, then of the pieces in hand, then  *)
(* of the words left are the bytes of the text; a Unigram word in hand has *)
(* a lattice whose every entry spells what it spans and reaches the end of *)
(* every character relaxed, so that the walk back ends at the front.  What *)
(* decoding makes of those bytes is what was typed.                        *)
(***************************************************************************)
EXTENDS PassBuffers, DerivedStages, PromptLookup, TextCodec, PrefixLemmas, FiniteSetTheorems

MaskFits == mask.span > 0 => mask.chunk <= mask.span /\ mask.pos <= mask.span - mask.chunk

MaskInv == TypeOK /\ MaskFits /\ MaskExact

\* The mask of a pass of the given width over the given rows and position.
ExactMask(rows, chunk, pos) == [row \in 0 .. chunk - 1 |-> (0 .. pos - 1) \cup (rows .. rows + row)]

-----------------------------------------------------------------------------

LEMMA MaskInit == Init => MaskInv
BY BufferAssumption DEF Init, MaskInv, MaskFits, MaskExact, TypeOK, NoMask, NoPass

\* A mask built from scratch is exact.
LEMMA BuiltIsExact ==
  ASSUME bucket \in Nat, cur_len \in 0 .. bucket, NEW chunk \in Nat
  PROVE  BuiltMask(chunk) = ExactMask(bucket, chunk, cur_len)
<1>1. ASSUME NEW row \in 0 .. chunk - 1
      PROVE  {col \in 0 .. bucket + chunk - 1 : IF col < bucket THEN col < cur_len ELSE col - bucket <= row}
             = (0 .. cur_len - 1) \cup (bucket .. bucket + row)
  OBVIOUS
<1> QED
  BY <1>1 DEF BuiltMask, ExactMask

\* Flipping the columns between two positions keeps an exact mask exact.
LEMMA FlippedIsExact ==
  ASSUME bucket \in Nat, cur_len \in 0 .. bucket, NEW chunk \in Nat,
         mask.pos \in 0 .. bucket, mask.visible = ExactMask(bucket, chunk, mask.pos)
  PROVE  FlippedMask = ExactMask(bucket, chunk, cur_len)
<1>1. DOMAIN mask.visible = 0 .. chunk - 1
  BY DEF ExactMask
<1>2. CASE cur_len > mask.pos
  <2>1. Min2(mask.pos, cur_len) = mask.pos /\ Max2(mask.pos, cur_len) = cur_len
    BY <1>2 DEF Min2, Max2
  <2>2. ASSUME NEW row \in 0 .. chunk - 1
        PROVE  mask.visible[row] \cup (mask.pos .. cur_len - 1) = (0 .. cur_len - 1) \cup (bucket .. bucket + row)
    <3>1. mask.visible[row] = (0 .. mask.pos - 1) \cup (bucket .. bucket + row)
      BY DEF ExactMask
    <3>2. (0 .. mask.pos - 1) \cup (mask.pos .. cur_len - 1) = 0 .. cur_len - 1
      BY <1>2
    <3> QED
      BY <3>1, <3>2
  <2> QED
    BY <1>1, <1>2, <2>1, <2>2 DEF FlippedMask, ExactMask
<1>3. CASE ~(cur_len > mask.pos)
  <2>1. Min2(mask.pos, cur_len) = cur_len /\ Max2(mask.pos, cur_len) = mask.pos
    BY <1>3 DEF Min2, Max2
  <2>2. ASSUME NEW row \in 0 .. chunk - 1
        PROVE  mask.visible[row] \ (cur_len .. mask.pos - 1) = (0 .. cur_len - 1) \cup (bucket .. bucket + row)
    <3>1. mask.visible[row] = (0 .. mask.pos - 1) \cup (bucket .. bucket + row)
      BY DEF ExactMask
    <3> QED
      BY <1>3, <3>1
  <2> QED
    BY <1>1, <1>3, <2>1, <2>2 DEF FlippedMask, ExactMask
<1> QED
  BY <1>2, <1>3

\* The mask a pass binds, however its predecessor left it.
LEMMA RefreshedIsExact ==
  ASSUME MaskInv, NEW chunk \in Chunks
  PROVE  /\ RefreshedMask(chunk).visible = ExactMask(bucket, chunk, cur_len)
         /\ RefreshedMask(chunk).span = bucket + chunk
         /\ RefreshedMask(chunk).chunk = chunk
         /\ RefreshedMask(chunk).pos = cur_len
<1>1. /\ bucket \in Nat \ {0} /\ cur_len \in 0 .. bucket /\ chunk \in Nat \ {0}
      /\ mask.span \in Nat /\ mask.pos \in Nat /\ mask.chunk \in Nat
  BY BufferAssumption DEF MaskInv, TypeOK
<1>2. ASSUME mask.span = bucket + chunk, mask.chunk = chunk
      PROVE  mask.pos \in 0 .. bucket /\ mask.visible = ExactMask(bucket, chunk, mask.pos)
  <2>1. mask.span - mask.chunk = bucket /\ mask.span > 0
    BY <1>1, <1>2
  <2>2. mask.pos \in 0 .. bucket
    BY <1>1, <2>1 DEF MaskInv, MaskFits
  <2>3. mask.visible = [row \in 0 .. mask.chunk - 1 |->
                          (0 .. mask.pos - 1) \cup (mask.span - mask.chunk .. mask.span - mask.chunk + row)]
    BY <2>1 DEF MaskInv, MaskExact
  <2> QED
    BY <1>2, <2>1, <2>2, <2>3 DEF ExactMask
<1>3. CASE mask.span = bucket + chunk /\ mask.chunk = chunk
  BY <1>1, <1>2, <1>3, FlippedIsExact DEF RefreshedMask
<1>4. CASE ~(mask.span = bucket + chunk /\ mask.chunk = chunk)
  BY <1>1, <1>4, BuiltIsExact DEF RefreshedMask
<1> QED
  BY <1>3, <1>4

LEMMA PassKeeps ==
  ASSUME MaskInv, NEW chunk \in Chunks, NEW real \in 1 .. chunk, NEW commit \in 0 .. real,
         Pass(chunk, real, commit)
  PROVE  MaskInv'
<1>1. /\ bucket \in Nat \ {0} /\ cur_len \in 0 .. bucket /\ chunk \in Nat \ {0} /\ ropeAt \in Nat
      /\ real \in Nat /\ commit \in Nat /\ commit <= real
  BY BufferAssumption DEF MaskInv, TypeOK
<1>2. /\ bucket' = bucket /\ cur_len' = cur_len + commit /\ cur_len + real <= bucket
      /\ mask' = RefreshedMask(chunk)
  BY DEF Pass, Refresh
<1>3. /\ mask'.visible = ExactMask(bucket, chunk, cur_len)
      /\ mask'.span = bucket + chunk /\ mask'.chunk = chunk /\ mask'.pos = cur_len
  BY <1>2, RefreshedIsExact
<1>4. TypeOK'
  <2>1. RefreshedRope(chunk) \in Nat
    BY <1>1 DEF RefreshedRope
  <2>2. inv_freqs(RefreshedRope(chunk)) \in Nat
    BY <2>1, BufferAssumption DEF inv_freqs, Max2
  <2>3. fed' \in [pos : Nat, chunk : Nat, real : Nat, law : Nat] /\ ropeAt' \in Nat
    BY <1>1, <2>1, <2>2 DEF Pass, Refresh
  <2>4. cur_len' \in 0 .. bucket' /\ bucket' \in Buckets
    BY <1>1, <1>2 DEF MaskInv, TypeOK
  <2>5. \A row \in DOMAIN mask'.visible : mask'.visible[row] \subseteq Nat
    BY <1>1, <1>3 DEF ExactMask
  <2> QED
    BY <1>1, <1>3, <2>3, <2>4, <2>5 DEF TypeOK
<1>5. mask'.span - mask'.chunk = bucket
  BY <1>1, <1>3
<1>6. MaskFits'
  BY <1>1, <1>3, <1>5 DEF MaskFits
<1>7. MaskExact'
  BY <1>3, <1>5 DEF MaskExact, ExactMask
<1> QED
  BY <1>4, <1>6, <1>7 DEF MaskInv

LEMMA MaskInductive == MaskInv /\ [Next]_vars => MaskInv'
<1> SUFFICES ASSUME MaskInv, [Next]_vars PROVE MaskInv'
  OBVIOUS
<1>1. ASSUME NEW chunk \in Chunks, NEW real \in 1 .. chunk, NEW commit \in 0 .. real,
             Pass(chunk, real, commit)
      PROVE MaskInv'
  BY <1>1, PassKeeps
<1>2. ASSUME NEW len \in 0 .. cur_len - 1, Rewind(len) PROVE MaskInv'
  BY <1>2, BufferAssumption DEF MaskInv, MaskFits, MaskExact, TypeOK, Rewind
<1>3. ASSUME NEW wide \in Buckets, Grow(wide) PROVE MaskInv'
  BY <1>3, BufferAssumption DEF MaskInv, MaskFits, MaskExact, TypeOK, Grow
<1>4. CASE UNCHANGED vars
  BY <1>4 DEF MaskInv, MaskFits, MaskExact, TypeOK, vars
<1> QED
  BY <1>1, <1>2, <1>3, <1>4 DEF Next

\* The buffers keep their shape and the position stays inside the bucket
\* (refresh_buffers refuses a pass whose rows would leave it).
THEOREM BuffersTypeCorrect == Spec => []TypeOK
<1>1. MaskInv => TypeOK
  BY DEF MaskInv
<1> QED
  BY <1>1, MaskInit, MaskInductive, PTL DEF Spec

\* The mask kept in place is always the one a pass at its position would
\* build from scratch (the flipped columns of refresh_buffers).
THEOREM MaskAlwaysExact == Spec => []MaskExact
<1>1. MaskInv => MaskExact
  BY DEF MaskInv
<1> QED
  BY <1>1, MaskInit, MaskInductive, PTL DEF Spec

-----------------------------------------------------------------------------

\* A law refreshed for a length is the law of that length: either it was
\* recomputed for it, or it depends on no length, or it is already its own.
LEMMA RopeLaw ==
  ASSUME NEW chunk, ropeAt \in Nat
  PROVE  inv_freqs(RefreshedRope(chunk)) = inv_freqs(cur_len + chunk)
<1>1. CASE RopeStale(chunk)
  BY <1>1 DEF RefreshedRope
<1>2. CASE ~RopeStale(chunk) /\ length_dependent
  BY <1>2 DEF RefreshedRope, RopeStale
<1>3. CASE ~length_dependent
  BY <1>3, BufferAssumption DEF length_dependent, inv_freqs
<1> QED
  BY <1>1, <1>2, <1>3

\* No pass is fed the frequency law of another length (rope_valid_for).
THEOREM RopeNeverStale == Spec => []RopeNotStale
<1>1. Init => RopeNotStale
  BY DEF Init, RopeNotStale, NoPass
<1>2. TypeOK /\ RopeNotStale /\ [Next]_vars => RopeNotStale'
  <2> SUFFICES ASSUME TypeOK, RopeNotStale, [Next]_vars PROVE RopeNotStale'
    OBVIOUS
  <2>1. ASSUME NEW chunk \in Chunks, NEW real \in 1 .. chunk, NEW commit \in 0 .. real,
               Pass(chunk, real, commit)
        PROVE RopeNotStale'
    <3>1. fed' = [pos |-> cur_len, chunk |-> chunk, real |-> real,
                  law |-> inv_freqs(RefreshedRope(chunk))]
      BY <2>1 DEF Pass, Refresh
    <3>2. inv_freqs(RefreshedRope(chunk)) = inv_freqs(cur_len + chunk)
      BY RopeLaw DEF TypeOK
    <3> QED
      BY <3>1, <3>2 DEF RopeNotStale, inv_freqs
  <2>2. CASE UNCHANGED fed
    BY <2>2 DEF RopeNotStale, inv_freqs
  <2> QED
    BY <2>1, <2>2 DEF Next, Rewind, Grow, vars
<1> QED
  BY <1>1, <1>2, BuffersTypeCorrect, PTL DEF Spec

-----------------------------------------------------------------------------
(* DerivedStages.                                                          *)

\* What a file of the derived directory may hold.
Contents == {Rotten} \cup {Archive(input, s) : input \in Inputs, s \in 1 .. Stages}

Tasks == {Removal(key) : key \in Inputs}
           \cup [kind : {"write"}, key : Inputs, stages : Seq(Contents), done : 0 .. Stages]

\* A write carries what its key derives to.
TasksInv == /\ tasks \in Seq(Tasks)
            /\ \A t \in DOMAIN tasks : tasks[t].kind = "write" => tasks[t].stages = Compiled(tasks[t].key)

\* A kappa list is not there yet, or it is that of the directory's own key.
DirInv(dir, key) == /\ DOMAIN dir = {"kind", "file", "kappas"} /\ dir.kind = "dir"
                    /\ \A s \in DOMAIN dir.file : dir.file[s] \in Contents
                    /\ dir.kappas \in {<< >>, Compiled(key)}
DiskInv == /\ DOMAIN disk = Inputs
           /\ \A key \in Inputs : disk[key] # NoEntry => DirInv(disk[key], key)

LoadingInv ==
  \/ loading = Nothing \/ loading = [kind |-> "open"]
  \/ loading.kind = "next" /\ loading \in [kind : {"next"}, left : SUBSET Inputs]
  \/ /\ loading.kind = "stages"
     /\ loading \in [kind : {"stages"}, left : SUBSET Inputs, key : Inputs,
                     kappas : Seq(Contents), stages : Seq(Contents)]
     /\ loading.kappas = Compiled(loading.key)

\* The archives of an entry may be anything, their kappas may not.
EntryInv(entry, key) == /\ DOMAIN entry = {"kind", "stages", "kappas"} /\ entry.kind = "entry"
                        /\ entry.stages \in Seq(Contents)
                        /\ entry.kappas = Compiled(key)
EntriesInv == /\ DOMAIN entries = Inputs
              /\ \A key \in Inputs : entries[key] # NoEntry => EntryInv(entries[key], key)

DerivedInv == TasksInv /\ DiskInv /\ LoadingInv /\ EntriesInv /\ StagesDerived

LEMMA CompiledStages ==
  ASSUME NEW input \in Inputs
  PROVE  Compiled(input) \in Seq(Contents) /\ Len(Compiled(input)) = Stages
<1>1. Compiled(input) \in [1 .. Stages -> Contents]
  BY DEF Compiled, Contents
<1> QED
  BY <1>1, DerivedAssumption DEF Compiled

\* An entry that passes the test of the next session holds what its key
\* derives to, for its kappa list is that of the key.
LEMMA IntactIsDerived ==
  ASSUME NEW key \in Inputs, NEW entry, EntryInv(entry, key), Intact(entry)
  PROVE  entry.stages = Compiled(key)
<1>1. /\ entry.stages \in Seq(Contents) /\ Compiled(key) \in Seq(Contents)
      /\ Len(entry.stages) = Len(Compiled(key))
  BY CompiledStages DEF EntryInv, Intact
<1>2. \A s \in 1 .. Len(entry.stages) : entry.stages[s] = Compiled(key)[s]
  BY <1>1 DEF EntryInv, Intact, kappa_of
<1> QED
  BY <1>1, <1>2, SeqEqual

\* Tasks under way, less one, are tasks under way.
LEMMA TaskLeaves ==
  ASSUME TasksInv, NEW t \in DOMAIN tasks, tasks' = Rest(t)
  PROVE  TasksInv'
<1> DEFINE before == SubSeq(tasks, 1, t - 1)
           after == SubSeq(tasks, t + 1, Len(tasks))
<1>1. tasks \in Seq(Tasks) /\ t \in 1 .. Len(tasks)
  BY DEF TasksInv
<1>2. before \in Seq(Tasks) /\ after \in Seq(Tasks)
  BY <1>1, SubSeqProperties
<1>3. tasks' = before \o after
  BY DEF Rest, RemoveAt
<1>4. /\ Len(before) = t - 1 /\ \A k \in 1 .. t - 1 : before[k] = tasks[k]
      /\ Len(after) = Len(tasks) - t /\ \A k \in 1 .. Len(tasks) - t : after[k] = tasks[t + k]
  BY <1>1
<1> HIDE DEF before, after
<1>5. ASSUME NEW u \in DOMAIN tasks' PROVE \E v \in DOMAIN tasks : tasks'[u] = tasks[v]
  <2>1. /\ u \in 1 .. Len(tasks) - 1
        /\ tasks'[u] = IF u <= Len(before) THEN before[u] ELSE after[u - Len(before)]
    BY <1>1, <1>2, <1>3, <1>4, <1>5, ConcatProperties
  <2>2. CASE u <= t - 1
    <3>1. tasks'[u] = tasks[u] /\ u \in DOMAIN tasks
      BY <1>1, <1>4, <2>1, <2>2
    <3> QED
      BY <3>1
  <2>3. CASE ~(u <= t - 1)
    <3>1. u - (t - 1) \in 1 .. Len(tasks) - t /\ t + (u - (t - 1)) = u + 1
      BY <1>1, <2>1, <2>3
    <3>2. tasks'[u] = tasks[u + 1] /\ u + 1 \in DOMAIN tasks
      BY <1>1, <1>4, <2>1, <2>3, <3>1, SMTT(30)
    <3> QED
      BY <3>2
  <2> QED
    BY <2>2, <2>3
<1> QED
  BY <1>1, <1>2, <1>3, <1>5, ConcatProperties DEF TasksInv

\* Tasks are started with the stages their key derives to.
LEMMA TaskJoins ==
  ASSUME TasksInv, NEW task \in Tasks, task.kind = "write" => task.stages = Compiled(task.key),
         tasks' = Append(tasks, task)
  PROVE  TasksInv'
BY DEF TasksInv

LEMMA DerivedStart == DerivedInit => DerivedInv
BY DEF DerivedInit, DerivedInv, TasksInv, DiskInv, LoadingInv, EntriesInv, StagesDerived

\* A session that reads its directory takes over the kappa lists as they are.
LEMMA ReadingKeeps ==
  ASSUME DerivedInv, ReadList \/ ReadStage \/ ReadDone \/ Opened
  PROVE  DerivedInv'
<1>1. TasksInv' /\ DiskInv' /\ StagesDerived'
  BY DEF DerivedInv, TasksInv, DiskInv, DirInv, StagesDerived, ReadList, ReadStage, ReadDone, Opened
<1>2. CASE ReadList
  <2>1. loading \in [kind : {"next"}, left : SUBSET Inputs]
    BY <1>2 DEF ReadList, DerivedInv, LoadingInv, Nothing
  <2>2. PICK key \in loading.left :
          loading' = IF disk[key] = NoEntry \/ disk[key].kappas = <<>>
                       THEN [loading EXCEPT !.left = @ \ {key}]
                       ELSE [kind |-> "stages", left |-> loading.left \ {key}, key |-> key,
                             kappas |-> disk[key].kappas, stages |-> <<>>]
    BY <1>2 DEF ReadList
  <2>3. key \in Inputs
    BY <2>1, <2>2
  <2>4. ASSUME disk[key] = NoEntry \/ disk[key].kappas = <<>>
        PROVE  LoadingInv'
    BY <2>1, <2>2, <2>4 DEF LoadingInv
  <2>5. ASSUME ~(disk[key] = NoEntry \/ disk[key].kappas = <<>>)
        PROVE  LoadingInv'
    <3>1. disk[key].kappas = Compiled(key)
      BY <2>3, <2>5 DEF DerivedInv, DiskInv, DirInv
    <3> QED
      BY <2>1, <2>2, <2>3, <2>5, <3>1, CompiledStages DEF LoadingInv
  <2>6. LoadingInv'
    BY <2>4, <2>5
  <2>7. EntriesInv'
    BY <1>2 DEF ReadList, DerivedInv, EntriesInv, EntryInv
  <2> QED
    BY <1>1, <2>6, <2>7 DEF DerivedInv
<1>3. CASE ReadStage
  <2>1. /\ loading \in [kind : {"stages"}, left : SUBSET Inputs, key : Inputs,
                        kappas : Seq(Contents), stages : Seq(Contents)]
        /\ loading.kappas = Compiled(loading.key)
    BY <1>3 DEF ReadStage, DerivedInv, LoadingInv, Nothing
  <2>2. ASSUME disk[loading.key] # NoEntry /\ Len(loading.stages) + 1 \in DOMAIN disk[loading.key].file
        PROVE  LoadingInv'
    <3>1. disk[loading.key].file[Len(loading.stages) + 1] \in Contents
      BY <2>1, <2>2 DEF DerivedInv, DiskInv, DirInv
    <3>2. loading' = [loading EXCEPT !.stages =
                        Append(loading.stages, disk[loading.key].file[Len(loading.stages) + 1])]
      BY <1>3, <2>2 DEF ReadStage
    <3>3. Append(loading.stages, disk[loading.key].file[Len(loading.stages) + 1]) \in Seq(Contents)
      BY <2>1, <3>1
    <3>4. /\ loading' \in [kind : {"stages"}, left : SUBSET Inputs, key : Inputs,
                            kappas : Seq(Contents), stages : Seq(Contents)]
          /\ loading'.key = loading.key /\ loading'.kappas = loading.kappas
      BY <2>1, <3>2, <3>3
    <3> QED
      BY <2>1, <3>4 DEF LoadingInv, Compiled, Archive
  <2>3. ASSUME ~(disk[loading.key] # NoEntry /\ Len(loading.stages) + 1 \in DOMAIN disk[loading.key].file)
        PROVE  LoadingInv'
    <3>1. loading' = [kind |-> "next", left |-> loading.left]
      BY <1>3, <2>3 DEF ReadStage
    <3> QED
      BY <2>1, <3>1 DEF LoadingInv
  <2>4. LoadingInv'
    BY <2>2, <2>3
  <2>5. EntriesInv'
    BY <1>3 DEF ReadStage, DerivedInv, EntriesInv, EntryInv
  <2> QED
    BY <1>1, <2>4, <2>5 DEF DerivedInv
<1>4. CASE ReadDone
  <2>1. /\ loading \in [kind : {"stages"}, left : SUBSET Inputs, key : Inputs,
                        kappas : Seq(Contents), stages : Seq(Contents)]
        /\ loading.kappas = Compiled(loading.key)
    BY <1>4 DEF ReadDone, DerivedInv, LoadingInv, Nothing
  <2>2. EntryInv(Entry(loading.stages, loading.kappas), loading.key)
    BY <2>1 DEF EntryInv, Entry
  <2>3. EntriesInv'
    BY <1>4, <2>1, <2>2 DEF ReadDone, DerivedInv, EntriesInv
  <2>4. LoadingInv'
    BY <1>4, <2>1 DEF ReadDone, LoadingInv
  <2> QED
    BY <1>1, <2>3, <2>4 DEF DerivedInv
<1>5. CASE Opened
  <2>1. LoadingInv'
    BY <1>5 DEF Opened, LoadingInv
  <2>2. EntriesInv'
    BY <1>5 DEF Opened, DerivedInv, EntriesInv, EntryInv
  <2> QED
    BY <1>1, <2>1, <2>2 DEF DerivedInv
<1> QED
  BY <1>2, <1>3, <1>4, <1>5

\* Sessions that begin or end, and a worker that is killed.
LEMMA SessionsKeep ==
  ASSUME DerivedInv, OpenSession \/ Dispose \/ Kill
  PROVE  DerivedInv'
<1>1. DiskInv'
  BY DEF OpenSession, Dispose, Kill, DerivedInv, DiskInv, DirInv
<1>2. TasksInv'
  <2>1. CASE tasks' = tasks
    BY <2>1 DEF DerivedInv, TasksInv
  <2>2. CASE tasks' = << >>
    BY <2>2 DEF TasksInv
  <2> QED
    BY <2>1, <2>2 DEF OpenSession, Dispose, Kill
<1>3. EntriesInv' /\ StagesDerived'
  BY DEF OpenSession, Dispose, Kill, EntriesInv, StagesDerived
<1>4. LoadingInv'
  BY DEF OpenSession, Dispose, Kill, LoadingInv
<1> QED
  BY <1>1, <1>2, <1>3, <1>4 DEF DerivedInv

LEMMA ServeKeeps ==
  ASSUME DerivedInv, NEW input \in Inputs, Serve(input)
  PROVE  DerivedInv'
<1>1. EntryInv(entries[input], input) /\ Intact(entries[input])
  BY DEF Serve, derivation_key, DerivedInv, EntriesInv
<1>2. inForce' = [kind |-> "stages", input |-> input, stages |-> Compiled(input)]
  BY <1>1, IntactIsDerived DEF Serve, derivation_key, Resolved
<1>3. StagesDerived'
  BY <1>2 DEF StagesDerived, Compiled, Archive
<1> QED
  BY <1>3 DEF Serve, DerivedInv, TasksInv, DiskInv, DirInv, LoadingInv, EntriesInv, EntryInv

\* What replaces a broken entry is compiled, in the session, in the task and in
\* force.
LEMMA DeriveKeeps ==
  ASSUME DerivedInv, NEW input \in Inputs, Derive(input)
  PROVE  DerivedInv'
<1> DEFINE unpinned == IF entries[input] # NoEntry THEN Append(tasks, Removal(input)) ELSE tasks
<1>1. /\ tasks' = unpinned \o <<Write(input, Compiled(input))>>
      /\ entries' = [entries EXCEPT ![input] = Entry(Compiled(input), Compiled(input))]
      /\ inForce' = [kind |-> "stages", input |-> input, stages |-> Compiled(input)]
      /\ UNCHANGED <<disk, loading, rotted>>
  BY DEF Derive, derivation_key, Resolved
<1>2. Removal(input) \in Tasks /\ Removal(input).kind = "remove"
  BY DEF Tasks, Removal
<1>3. /\ Write(input, Compiled(input)) \in Tasks
      /\ Write(input, Compiled(input)).stages = Compiled(Write(input, Compiled(input)).key)
  BY CompiledStages, DerivedAssumption DEF Tasks, Write
<1>4. /\ unpinned \in Seq(Tasks)
      /\ \A t \in DOMAIN unpinned : unpinned[t].kind = "write" => unpinned[t].stages = Compiled(unpinned[t].key)
  <2>1. CASE entries[input] # NoEntry
    BY <1>2, <2>1 DEF DerivedInv, TasksInv
  <2>2. CASE entries[input] = NoEntry
    BY <2>2 DEF DerivedInv, TasksInv
  <2> QED
    BY <2>1, <2>2
<1> HIDE DEF unpinned
<1>5. tasks' = Append(unpinned, Write(input, Compiled(input)))
  BY <1>1, <1>3, <1>4
<1>6. TasksInv'
  BY <1>3, <1>4, <1>5 DEF TasksInv
<1>7. EntryInv(Entry(Compiled(input), Compiled(input)), input)
  BY CompiledStages DEF EntryInv, Entry
<1>8. EntriesInv'
  BY <1>1, <1>7 DEF DerivedInv, EntriesInv
<1>9. StagesDerived'
  BY <1>1 DEF StagesDerived, Compiled, Archive
<1> QED
  BY <1>1, <1>6, <1>8, <1>9 DEF DerivedInv, DiskInv, DirInv, LoadingInv

LEMMA DeriveFailsKeeps ==
  ASSUME DerivedInv, NEW input \in Inputs, DeriveFails(input)
  PROVE  DerivedInv'
<1>1. TasksInv'
  BY TaskJoins DEF DeriveFails, DerivedInv, Tasks, Removal, derivation_key
<1>2. EntriesInv' /\ StagesDerived'
  BY DEF DeriveFails, DerivedInv, EntriesInv, EntryInv, StagesDerived, derivation_key
<1> QED
  BY <1>1, <1>2 DEF DeriveFails, DerivedInv, DiskInv, DirInv, LoadingInv

LEMMA WriteStageKeeps ==
  ASSUME DerivedInv, NEW t \in DOMAIN tasks, WriteStage(t)
  PROVE  DerivedInv'
<1> DEFINE task == tasks[t]
           key == task.key
           s == task.done + 1
           there == IF disk[key] = NoEntry THEN [f \in {} |-> Rotten] ELSE disk[key].file
           written == [kind |-> "dir",
                       file |-> [f \in DOMAIN there \cup {s} |-> IF f = s THEN task.stages[s] ELSE there[f]],
                       kappas |-> IF disk[key] = NoEntry THEN << >> ELSE disk[key].kappas]
<1>1. /\ task \in [kind : {"write"}, key : Inputs, stages : Seq(Contents), done : 0 .. Stages]
      /\ task.stages = Compiled(key) /\ s \in 1 .. Stages
  BY DerivedAssumption DEF WriteStage, DerivedInv, TasksInv, Tasks, Removal
<1>2. /\ disk' = [disk EXCEPT ![key] = written]
      /\ tasks' = [tasks EXCEPT ![t].done = s]
      /\ UNCHANGED <<loading, entries, inForce, rotted>>
  BY DEF WriteStage
<1>3. task.stages[s] \in Contents
  BY <1>1, CompiledStages
<1>4. \A f \in DOMAIN there : there[f] \in Contents
  BY <1>1 DEF DerivedInv, DiskInv, DirInv
<1>5. written.kappas \in {<< >>, Compiled(key)}
  BY <1>1 DEF DerivedInv, DiskInv, DirInv
<1>6. DirInv(written, key)
  BY <1>3, <1>4, <1>5 DEF DirInv
<1> HIDE DEF written
<1>7. DiskInv'
  BY <1>1, <1>2, <1>6 DEF DerivedInv, DiskInv, DirInv, Compiled, Archive
<1>8. TasksInv'
  <2> DEFINE further == [task EXCEPT !.done = s]
  <2>1. further \in Tasks /\ further.stages = Compiled(further.key)
    BY <1>1, DerivedAssumption DEF Tasks
  <2>2. tasks' = [tasks EXCEPT ![t] = further]
    BY <1>2
  <2> HIDE DEF further
  <2>3. tasks \in Seq(Tasks) /\ tasks' \in Seq(Tasks) /\ DOMAIN tasks' = DOMAIN tasks
    BY <2>1, <2>2 DEF DerivedInv, TasksInv
  <2>4. ASSUME NEW u \in DOMAIN tasks, tasks'[u].kind = "write"
        PROVE  tasks'[u].stages = Compiled(tasks'[u].key)
    <3>1. CASE u = t
      BY <2>1, <2>2, <3>1 DEF DerivedInv, TasksInv
    <3>2. CASE u # t
      BY <2>2, <2>4, <3>2 DEF DerivedInv, TasksInv
    <3> QED
      BY <3>1, <3>2
  <2> QED
    BY <2>3, <2>4 DEF TasksInv, Compiled, Archive
<1> QED
  BY <1>2, <1>7, <1>8 DEF DerivedInv, LoadingInv, EntriesInv, EntryInv, StagesDerived

LEMMA WriteListKeeps ==
  ASSUME DerivedInv, NEW t \in DOMAIN tasks, WriteList(t)
  PROVE  DerivedInv'
<1> DEFINE key == tasks[t].key
<1>1. /\ key \in Inputs /\ tasks[t].stages = Compiled(key) /\ disk[key] # NoEntry
      /\ disk' = [disk EXCEPT ![key].kappas = [s \in 1 .. Stages |-> kappa_of(tasks[t].stages[s])]]
      /\ tasks' = Rest(t) /\ UNCHANGED <<loading, entries, inForce, rotted>>
  BY DEF WriteList, DerivedInv, TasksInv, Tasks, Removal
<1>2. [s \in 1 .. Stages |-> kappa_of(tasks[t].stages[s])] = Compiled(key)
  BY <1>1 DEF kappa_of, Compiled
<1>3. DirInv([disk[key] EXCEPT !.kappas = Compiled(key)], key)
  BY <1>1 DEF DerivedInv, DiskInv, DirInv
<1>4. disk' = [disk EXCEPT ![key] = [disk[key] EXCEPT !.kappas = Compiled(key)]]
  BY <1>1, <1>2
<1> HIDE DEF key
<1>5. DiskInv'
  BY <1>1, <1>3, <1>4 DEF DerivedInv, DiskInv, DirInv, Compiled, Archive
<1>6. TasksInv'
  BY <1>1, TaskLeaves DEF DerivedInv
<1> QED
  BY <1>1, <1>5, <1>6 DEF DerivedInv, LoadingInv, EntriesInv, EntryInv, StagesDerived

\* A removal, or a task nobody hears of again.
LEMMA TasksEnd ==
  ASSUME DerivedInv, NEW t \in DOMAIN tasks, Unlink(t) \/ TaskFails(t)
  PROVE  DerivedInv'
<1>1. TasksInv'
  BY TaskLeaves DEF Unlink, TaskFails, DerivedInv
<1>2. DiskInv'
  BY DEF Unlink, TaskFails, DerivedInv, DiskInv, DirInv
<1> QED
  BY <1>1, <1>2 DEF Unlink, TaskFails, DerivedInv, LoadingInv, EntriesInv, EntryInv, StagesDerived

\* Only archives rot; a kappa list is read as it was written.
LEMMA RotKeeps ==
  ASSUME DerivedInv, NEW key \in Inputs, Rot(key)
  PROVE  DerivedInv'
<1>1. PICK s \in DOMAIN disk[key].file : disk' = [disk EXCEPT ![key].file[s] = Rotten]
  BY DEF Rot
<1>2. DirInv([disk[key] EXCEPT !.file[s] = Rotten], key)
  BY <1>1 DEF Rot, DerivedInv, DiskInv, DirInv, Contents
<1>3. disk' = [disk EXCEPT ![key] = [disk[key] EXCEPT !.file[s] = Rotten]]
  BY <1>1
<1>4. DiskInv'
  BY <1>2, <1>3 DEF DerivedInv, DiskInv, DirInv, Compiled, Archive
<1> QED
  BY <1>4 DEF Rot, DerivedInv, TasksInv, LoadingInv, EntriesInv, EntryInv, StagesDerived

LEMMA DerivedInductive == DerivedInv /\ [DerivedNext]_derived_vars => DerivedInv'
<1> SUFFICES ASSUME DerivedInv, [DerivedNext]_derived_vars PROVE DerivedInv'
  OBVIOUS
<1>1. ASSUME OpenSession \/ ReadList \/ ReadStage \/ ReadDone \/ Opened \/ Dispose \/ Kill PROVE DerivedInv'
  BY <1>1, ReadingKeeps, SessionsKeep
<1>2. ASSUME NEW input \in Inputs, Serve(input) \/ Derive(input) \/ DeriveFails(input) PROVE DerivedInv'
  BY <1>2, ServeKeeps, DeriveKeeps, DeriveFailsKeeps
<1>3. ASSUME NEW t \in DOMAIN tasks, WriteStage(t) \/ WriteList(t) \/ Unlink(t) \/ TaskFails(t)
      PROVE DerivedInv'
  BY <1>3, WriteStageKeeps, WriteListKeeps, TasksEnd
<1>4. ASSUME NEW key \in Inputs, Rot(key) PROVE DerivedInv'
  BY <1>4, RotKeeps
<1>5. CASE UNCHANGED derived_vars
  BY <1>5 DEF derived_vars, DerivedInv, TasksInv, DiskInv, DirInv, LoadingInv, EntriesInv, EntryInv, StagesDerived
<1> QED
  BY <1>1, <1>2, <1>3, <1>4, <1>5 DEF DerivedNext

\* Whatever torn writes, late removals and changed files came before, a session
\* runs the stages its own inputs derive to (stages_for_window in staged.rs).
THEOREM StagesAlwaysDerived == DerivedSpec => []StagesDerived
<1>1. DerivedInv => StagesDerived
  BY DEF DerivedInv
<1> QED
  BY <1>1, DerivedStart, DerivedInductive, PTL DEF DerivedSpec

-----------------------------------------------------------------------------
(* The prompt lookup.                                                      *)

Back(s, k) == s[Len(s) - k]

\* The first m tokens of s, read backwards, are read again from k on ...
Shared(s, k, m) == k + m <= Len(s) /\ \A j \in 0 .. m - 1 : Back(s, j) = Back(s, k + j)
\* ... and the next one is not.
Parted(s, k, m) == k + m < Len(s) => Back(s, m) # Back(s, k + m)

Table == [0 .. n - 1 -> Nat]
Finished == \A k \in 1 .. i - 1 : Shared(seq, k, z[k]) /\ Parted(seq, k, z[k])

WindowInv == /\ i \in 1 .. n /\ l \in Nat /\ r \in l .. n
             /\ l < i /\ (l = 0 => r = 0)
             /\ Shared(seq, l, r - l)

\* The doc comment's answer.
Wanted == IF Longest = 0 THEN << >> ELSE Drafted(Latest)

TableInv ==
  /\ z \in Table /\ WindowInv /\ Finished
  /\ at = "copy" => compared <= i - 1 + r
  /\ at = "extend" => /\ i < n /\ Shared(seq, i, z[i])
                      /\ i + z[i] < r => Parted(seq, i, z[i])
                      /\ compared <= i - 1 + r \/ compared <= i - 1 + i + z[i]
  /\ at = "drafted" => i = n /\ compared <= i - 1 + r /\ draft = Wanted

\* Nothing is built for one token or an empty draft.
NoTable == at = "drafted" /\ draft = << >> /\ i = 1 /\ compared = 0

LookupInv == /\ seq \in Seq(Token) /\ compared \in Nat /\ at \in {"copy", "extend", "drafted"}
             /\ IF n < 2 \/ MaxDraft = 0 THEN NoTable ELSE TableInv

-----------------------------------------------------------------------------
(* z_function.                                                             *)

\* Inside a window that repeats the head, the entry at p mirrors the one at
\* p - lo, as far as the window goes.
LEMMA Mirrored ==
  ASSUME NEW s, Len(s) \in Nat, NEW lo \in Nat \ {0}, NEW hi \in Nat, NEW p \in Nat, lo < p, p < hi,
         Shared(s, lo, hi - lo), NEW m \in Nat, Shared(s, p - lo, m), Parted(s, p - lo, m)
  PROVE  /\ Shared(s, p, Least(hi - p, m))
         /\ p + Least(hi - p, m) < hi => Parted(s, p, Least(hi - p, m))
<1> DEFINE least == Least(hi - p, m)
<1>1. /\ least \in Nat /\ least <= hi - p /\ least <= m
      /\ least = hi - p \/ least = m
  BY DEF Least
<1> HIDE DEF least
<1>2. /\ hi <= Len(s) /\ p - lo \in Nat
      /\ \A j \in 0 .. hi - lo - 1 : Back(s, j) = Back(s, lo + j)
  BY DEF Shared
<1>3. \A j \in 0 .. m - 1 : Back(s, j) = Back(s, p - lo + j)
  BY DEF Shared
<1>4. ASSUME NEW j \in Nat, p + j < hi
      PROVE  Back(s, p - lo + j) = Back(s, p + j)
  <2>1. p - lo + j \in 0 .. hi - lo - 1 /\ lo + (p - lo + j) = p + j
    BY <1>2, <1>4
  <2> QED
    BY <1>2, <2>1
<1>5. Shared(s, p, least)
  <2>1. p + least <= Len(s)
    BY <1>1, <1>2
  <2>2. ASSUME NEW j \in 0 .. least - 1 PROVE Back(s, j) = Back(s, p + j)
    <3>1. j \in 0 .. m - 1 /\ j \in Nat /\ p + j < hi
      BY <1>1, <2>2
    <3> QED
      BY <1>3, <1>4, <3>1
  <2> QED
    BY <2>1, <2>2 DEF Shared
<1>6. ASSUME p + least < hi PROVE Parted(s, p, least)
  <2>1. least = m /\ p - lo + m < Len(s)
    BY <1>1, <1>2, <1>6
  <2>2. Back(s, m) # Back(s, p - lo + m)
    BY <2>1 DEF Parted
  <2>3. Back(s, p - lo + m) = Back(s, p + m)
    BY <1>1, <1>4, <1>6, <2>1
  <2> QED
    BY <2>1, <2>2, <2>3 DEF Parted
<1> QED
  BY <1>5, <1>6 DEF least

LEMMA SeqLen == ASSUME seq \in Seq(Token) PROVE n \in Nat /\ n = Len(seq)
BY DEF n

LEMMA CopyKeeps ==
  ASSUME LookupInv, Copy PROVE LookupInv'
<1>1. n \in Nat /\ n = Len(seq) /\ UNCHANGED <<seq, i, l, r, compared, draft, n>>
  BY SeqLen DEF LookupInv, Copy, n
<1>2. /\ ~(n < 2 \/ MaxDraft = 0) /\ TableInv /\ at = "copy" /\ i < n
  BY DEF LookupInv, Copy, NoTable
<1>3. /\ z \in Table /\ i \in 1 .. n - 1 /\ l \in Nat /\ r \in l .. n /\ l < i
      /\ l = 0 => r = 0
  BY <1>1, <1>2 DEF TableInv, WindowInv
<1> DEFINE entry == IF i < r THEN Least(r - i, z[i - l]) ELSE 0
<1>4. /\ entry \in Nat /\ Shared(seq, i, entry)
      /\ i + entry < r => Parted(seq, i, entry)
  <2>1. CASE i < r
    <3>1. i - l \in 1 .. i - 1 /\ i - l \in 0 .. n - 1 /\ l \in Nat \ {0} /\ r \in Nat
      BY <1>1, <1>3, <2>1
    <3>2. z[i - l] \in Nat /\ Shared(seq, i - l, z[i - l]) /\ Parted(seq, i - l, z[i - l])
      BY <1>2, <1>3, <3>1 DEF TableInv, Finished, Table
    <3>3. Shared(seq, l, r - l)
      BY <1>2 DEF TableInv, WindowInv
    <3>4. /\ Shared(seq, i, Least(r - i, z[i - l]))
          /\ i + Least(r - i, z[i - l]) < r => Parted(seq, i, Least(r - i, z[i - l]))
      BY <1>1, <1>3, <2>1, <3>1, <3>2, <3>3, Mirrored
    <3>5. Least(r - i, z[i - l]) \in Nat
      BY <1>3, <2>1, <3>1, <3>2 DEF Least
    <3> QED
      BY <2>1, <3>4, <3>5
  <2>2. CASE ~(i < r)
    BY <1>1, <1>3, <2>2 DEF Shared
  <2> QED
    BY <2>1, <2>2
<1> HIDE DEF entry
<1>5. z' = [z EXCEPT ![i] = entry] /\ at' = "extend"
  BY DEF Copy, entry
<1>6. z' \in Table /\ z'[i] = entry /\ \A k \in 1 .. i - 1 : z'[k] = z[k]
  BY <1>1, <1>3, <1>4, <1>5 DEF Table
<1>7. Finished' /\ WindowInv' /\ (z \in Table)'
  BY <1>1, <1>2, <1>6 DEF TableInv, Finished, WindowInv, Table, Shared, Parted, Back
<1>8. compared <= i - 1 + r
  BY <1>2 DEF TableInv
<1>9. TableInv'
  BY <1>1, <1>2, <1>4, <1>5, <1>6, <1>7, <1>8 DEF TableInv, Shared, Parted, Back
<1> QED
  BY <1>1, <1>2, <1>5, <1>9 DEF LookupInv

LEMMA ExtendKeeps ==
  ASSUME LookupInv, Extend PROVE LookupInv'
<1>1. n \in Nat /\ n = Len(seq) /\ UNCHANGED <<seq, i, l, r, at, draft, n>>
  BY SeqLen DEF LookupInv, Extend, n
<1>2. ~(n < 2 \/ MaxDraft = 0) /\ TableInv /\ at = "extend" /\ compared \in Nat
  BY DEF LookupInv, Extend, NoTable
<1>3. /\ z \in Table /\ i \in 1 .. n - 1 /\ l \in Nat /\ r \in l .. n /\ z[i] \in Nat
      /\ Shared(seq, i, z[i])
      /\ compared <= i - 1 + r \/ compared <= i - 1 + i + z[i]
  BY <1>1, <1>2 DEF TableInv, WindowInv, Table
<1>4. i + z[i] < n /\ Back(seq, z[i]) = Back(seq, i + z[i])
  BY <1>1 DEF Extend, Matches, rev, Back
\* Before the edge of the window a mirrored entry does not match.
<1>5. i + z[i] >= r
  BY <1>1, <1>2, <1>3, <1>4 DEF TableInv, Parted
<1>6. Shared(seq, i, z[i] + 1)
  <2>1. ASSUME NEW j \in 0 .. z[i] + 1 - 1 PROVE Back(seq, j) = Back(seq, i + j)
    <3>1. CASE j = z[i]
      BY <1>4, <3>1
    <3>2. CASE j # z[i]
      BY <1>3, <3>2 DEF Shared
    <3> QED
      BY <3>1, <3>2
  <2> QED
    BY <1>1, <1>3, <1>4, <2>1 DEF Shared
<1>7. z' = [z EXCEPT ![i] = z[i] + 1] /\ compared' = compared + 1
  BY DEF Extend
<1>8. z' \in Table /\ z'[i] = z[i] + 1 /\ \A k \in 1 .. i - 1 : z'[k] = z[k]
  BY <1>1, <1>3, <1>7 DEF Table
<1>9. Finished' /\ WindowInv' /\ (z \in Table)'
  BY <1>1, <1>2, <1>8 DEF TableInv, Finished, WindowInv, Table, Shared, Parted, Back
<1>10. compared' <= i - 1 + i + z'[i] /\ ~(i + z'[i] < r)
  BY <1>2, <1>3, <1>5, <1>7, <1>8
<1>11. TableInv'
  BY <1>1, <1>2, <1>3, <1>6, <1>8, <1>9, <1>10 DEF TableInv, Shared, Back
<1> QED
  BY <1>1, <1>2, <1>7, <1>11 DEF LookupInv

\* A finished entry is exact; it is the window when it reaches further.
LEMMA CloseKeeps ==
  ASSUME LookupInv, Close PROVE LookupInv'
<1>1. n \in Nat /\ n = Len(seq) /\ UNCHANGED <<seq, z, draft, n>>
  BY SeqLen DEF LookupInv, Close, n
<1>2. ~(n < 2 \/ MaxDraft = 0) /\ TableInv /\ at = "extend" /\ at' = "copy" /\ compared \in Nat
  BY DEF LookupInv, Close, NoTable
<1>3. /\ z \in Table /\ i \in 1 .. n - 1 /\ l \in Nat /\ r \in l .. n /\ z[i] \in Nat
      /\ l < i /\ (l = 0 => r = 0) /\ Shared(seq, l, r - l)
      /\ Shared(seq, i, z[i]) /\ i + z[i] <= n
      /\ compared <= i - 1 + r \/ compared <= i - 1 + i + z[i]
  BY <1>1, <1>2 DEF TableInv, WindowInv, Table, Shared
<1>4. Parted(seq, i, z[i])
  BY <1>1 DEF Close, Matches, rev, Back, Parted
<1>5. i' = i + 1 /\ compared' \in Nat /\ compared' <= compared + 1
  BY <1>2 DEF Close
<1>6. Finished'
  <2>1. ASSUME NEW k \in 1 .. i PROVE Shared(seq, k, z[k]) /\ Parted(seq, k, z[k])
    <3>1. CASE k = i
      BY <1>3, <1>4, <3>1
    <3>2. CASE k # i
      BY <1>2, <1>3, <3>2 DEF TableInv, Finished
    <3> QED
      BY <3>1, <3>2
  <2> QED
    BY <1>1, <1>3, <1>5, <2>1 DEF Finished, Shared, Parted, Back
<1>7. WindowInv' /\ compared' <= i' - 1 + r'
  <2>1. CASE i + z[i] > r
    <3>1. l' = i /\ r' = i + z[i] /\ r' - l' = z[i]
      BY <1>3, <2>1 DEF Close
    <3>2. compared' <= i' - 1 + r'
      BY <1>2, <1>3, <1>5, <2>1, <3>1
    <3> QED
      BY <1>1, <1>3, <1>5, <3>1, <3>2 DEF WindowInv, Shared, Back
  <2>2. CASE ~(i + z[i] > r)
    <3>1. l' = l /\ r' = r
      BY <2>2 DEF Close
    <3>2. compared' <= i' - 1 + r'
      BY <1>2, <1>3, <1>5, <2>2, <3>1
    <3> QED
      BY <1>1, <1>3, <1>5, <3>1, <3>2 DEF WindowInv, Shared, Back
  <2> QED
    BY <2>1, <2>2
<1>8. TableInv'
  BY <1>1, <1>2, <1>3, <1>6, <1>7 DEF TableInv, Table
<1> QED
  BY <1>1, <1>2, <1>5, <1>8 DEF LookupInv

-----------------------------------------------------------------------------
(* prompt_lookup_draft: what the finished table says about recurrences.    *)

Complete == /\ seq \in Seq(Token) /\ n >= 2 /\ z \in Table
            /\ \A k \in 1 .. n - 1 : Shared(seq, k, z[k]) /\ Parted(seq, k, z[k])

\* The last m tokens occur earlier, ending k before the end, exactly when the
\* entry at k is at least m.
LEMMA EntryRecurs ==
  ASSUME Complete, NEW k \in 1 .. n - 1, NEW m \in Nat
  PROVE  Recurs(m, n - k) <=> m <= z[k]
<1>1. /\ n \in Nat /\ n = Len(seq) /\ z[k] \in Nat
      /\ Shared(seq, k, z[k]) /\ Parted(seq, k, z[k]) /\ k + z[k] <= n
  BY SeqLen DEF Complete, Table, Shared
<1>2. ASSUME m <= z[k] PROVE Recurs(m, n - k)
  <2>1. ASSUME NEW j \in 0 .. m - 1 PROVE seq[n - k - j] = seq[n - j]
    <3>1. Back(seq, j) = Back(seq, k + j) /\ n - (k + j) = n - k - j
      BY <1>1, <1>2 DEF Shared
    <3> QED
      BY <1>1, <3>1 DEF Back
  <2> QED
    BY <1>1, <1>2, <2>1 DEF Recurs
<1>3. ASSUME Recurs(m, n - k), ~(m <= z[k]) PROVE FALSE
  <2>1. z[k] \in 0 .. m - 1 /\ k + z[k] < n
    BY <1>1, <1>3 DEF Recurs
  <2>2. Back(seq, z[k]) # Back(seq, k + z[k])
    BY <1>1, <2>1 DEF Parted
  <2>3. \A j \in 0 .. m - 1 : seq[n - k - j] = seq[n - j]
    BY <1>3 DEF Recurs
  <2>4. n - (k + z[k]) = n - k - z[k]
    BY <1>1
  <2> QED
    BY <1>1, <2>1, <2>2, <2>3, <2>4 DEF Back
<1> QED
  BY <1>2, <1>3

LEMMA BestEntry ==
  ASSUME Complete
  PROVE  /\ Best \in 1 .. n - 1
         /\ \A j \in 1 .. n - 1 : z[j] <= z[Best]
         /\ \A j \in 1 .. Best - 1 : z[j] < z[Best]
<1>1. n \in Nat /\ n >= 2 /\ \A k \in 1 .. n - 1 : z[k] \in 0 .. n
  BY SeqLen DEF Complete, Table, Shared
<1>2. PICK most \in {z[k] : k \in 1 .. n - 1} : \A m \in {z[k] : k \in 1 .. n - 1} : m <= most
  <2> DEFINE lengths == {z[k] : k \in 1 .. n - 1}
  <2>1. lengths \subseteq 0 .. n
    BY <1>1
  <2>2. z[1] \in lengths
    BY <1>1
  <2> HIDE DEF lengths
  <2>3. \E most \in lengths : \A m \in lengths : m <= most
    BY <1>1, <2>1, <2>2, GreatestNatural
  <2> QED
    BY <2>3 DEF lengths
<1>3. PICK first \in {k \in 1 .. n - 1 : z[k] = most} : \A k \in {k \in 1 .. n - 1 : z[k] = most} : first <= k
  <2> DEFINE where == {k \in 1 .. n - 1 : z[k] = most}
  <2>1. where \subseteq Nat /\ where # {}
    BY <1>2
  <2> HIDE DEF where
  <2>2. \E first \in where : \A k \in where : first <= k
    BY <2>1, LeastNatural
  <2> QED
    BY <2>2 DEF where
<1>4. \A j \in 1 .. n - 1 : z[j] <= z[first]
  BY <1>2, <1>3
<1>5. \A j \in 1 .. first - 1 : z[j] < z[first]
  <2>1. ASSUME NEW j \in 1 .. first - 1 PROVE z[j] < z[first]
    <3>1. j \in 1 .. n - 1 /\ z[j] # most
      BY <1>1, <1>3
    <3> QED
      BY <1>1, <1>2, <1>3, <1>4, <3>1
  <2> QED
    BY <2>1
<1>6. \E k \in 1 .. n - 1 : /\ \A j \in 1 .. n - 1 : z[j] <= z[k]
                            /\ \A j \in 1 .. k - 1 : z[j] < z[k]
  BY <1>3, <1>4, <1>5
<1> QED
  BY <1>6 DEF Best

LEMMA LongestIsBest ==
  ASSUME Complete PROVE Longest = z[Best]
<1>1. /\ n \in Nat /\ n >= 2 /\ Best \in 1 .. n - 1
      /\ \A j \in 1 .. n - 1 : z[j] \in Nat /\ z[j] <= z[Best]
      /\ z[Best] \in 0 .. n - 1
  BY SeqLen, BestEntry DEF Complete, Table, Shared
<1>2. ASSUME NEW m \in Nat
      PROVE  (\E end \in 1 .. n - 1 : Recurs(m, end)) <=> m <= z[Best]
  <2>1. ASSUME NEW end \in 1 .. n - 1, Recurs(m, end) PROVE m <= z[Best]
    <3>1. n - end \in 1 .. n - 1 /\ n - (n - end) = end
      BY <1>1
    <3>2. m <= z[n - end]
      BY <2>1, <3>1, EntryRecurs
    <3> QED
      BY <1>1, <3>1, <3>2
  <2>2. ASSUME m <= z[Best] PROVE n - Best \in 1 .. n - 1 /\ Recurs(m, n - Best)
    BY <1>1, <2>2, EntryRecurs
  <2> QED
    BY <2>1, <2>2
<1> DEFINE Right(m) == /\ m = 0 \/ \E end \in 1 .. n - 1 : Recurs(m, end)
                       /\ \A more \in m + 1 .. n - 1 : ~\E end \in 1 .. n - 1 : Recurs(more, end)
<1>3. ASSUME NEW m \in 0 .. n - 1 PROVE Right(m) <=> m = z[Best]
  <2>1. \A more \in m + 1 .. n - 1 : more \in Nat
    BY <1>1
  <2>2. Right(m) <=> (m = 0 \/ m <= z[Best]) /\ \A more \in m + 1 .. n - 1 : ~(more <= z[Best])
    BY <1>2, <2>1
  <2> HIDE DEF Right
  <2>3. ASSUME Right(m) PROVE m = z[Best]
    <3>1. m <= z[Best]
      BY <1>1, <2>2, <2>3
    <3>2. ~(m < z[Best])
      <4>1. ASSUME m < z[Best] PROVE FALSE
        <5>1. m + 1 \in m + 1 .. n - 1 /\ m + 1 <= z[Best]
          BY <1>1, <4>1
        <5> QED
          BY <2>2, <2>3, <5>1
      <4> QED
        BY <4>1
    <3> QED
      BY <1>1, <3>1, <3>2
  <2>4. ASSUME m = z[Best] PROVE Right(m)
    BY <1>1, <2>2, <2>4
  <2> QED
    BY <2>3, <2>4
<1>4. Longest = CHOOSE m \in 0 .. n - 1 : Right(m)
  BY DEF Longest
<1> HIDE DEF Right
<1> QED
  BY <1>1, <1>3, <1>4

LEMMA LatestIsBest ==
  ASSUME Complete, Longest # 0 PROVE Latest = n - Best
<1>1. /\ n \in Nat /\ n >= 2 /\ Best \in 1 .. n - 1
      /\ \A j \in 1 .. n - 1 : z[j] \in Nat /\ z[j] <= z[Best]
      /\ \A j \in 1 .. Best - 1 : z[j] < z[Best]
      /\ Longest = z[Best] /\ Longest \in Nat
  BY SeqLen, BestEntry, LongestIsBest DEF Complete, Table
<1> DEFINE Right(end) == Recurs(Longest, end) /\ \A later \in end + 1 .. n - 1 : ~Recurs(Longest, later)
<1>2. ASSUME NEW end \in 1 .. n - 1
      PROVE  Recurs(Longest, end) <=> z[Best] <= z[n - end]
  <2>1. n - end \in 1 .. n - 1 /\ n - (n - end) = end
    BY <1>1
  <2> QED
    BY <1>1, <2>1, EntryRecurs
<1>3. n - Best \in 1 .. n - 1 /\ Right(n - Best)
  <2>1. n - Best \in 1 .. n - 1 /\ n - (n - Best) = Best
    BY <1>1
  <2>2. Recurs(Longest, n - Best)
    BY <1>1, <1>2, <2>1
  <2>3. ASSUME NEW later \in n - Best + 1 .. n - 1 PROVE ~Recurs(Longest, later)
    <3>1. later \in 1 .. n - 1 /\ n - later \in 1 .. Best - 1
      BY <1>1
    <3>2. z[n - later] < z[Best] /\ n - later \in 1 .. n - 1
      BY <1>1, <3>1
    <3> QED
      BY <1>1, <1>2, <3>1, <3>2
  <2> QED
    BY <2>1, <2>2, <2>3
<1>4. ASSUME NEW end \in 1 .. n - 1, Right(end) PROVE end = n - Best
  <2>1. z[Best] <= z[n - end] /\ n - end \in 1 .. n - 1
    BY <1>1, <1>2, <1>4
  <2>2. ~(n - end < Best)
    BY <1>1, <2>1
  <2>3. ~(n - end > Best)
    <3>1. ASSUME n - end > Best PROVE FALSE
      <4>1. n - Best \in end + 1 .. n - 1
        BY <1>1, <3>1
      <4> QED
        BY <1>3, <1>4, <4>1
    <3> QED
      BY <3>1
  <2> QED
    BY <1>1, <2>1, <2>2, <2>3
<1>5. Latest = CHOOSE end \in 1 .. n - 1 : Right(end)
  BY DEF Latest
<1> HIDE DEF Right
<1> QED
  BY <1>3, <1>4, <1>5

LEMMA ScanKeeps ==
  ASSUME LookupInv, Scan PROVE LookupInv'
<1>1. n \in Nat /\ n = Len(seq) /\ UNCHANGED <<seq, z, i, l, r, compared, n>>
  BY SeqLen DEF LookupInv, Scan, n
<1>2. ~(n < 2 \/ MaxDraft = 0) /\ TableInv /\ at = "copy" /\ i = n /\ at' = "drafted"
  BY DEF LookupInv, Scan, NoTable
<1>3. Complete
  BY <1>1, <1>2 DEF LookupInv, Complete, TableInv, Finished
<1>4. draft' = Wanted
  BY <1>3, LongestIsBest, LatestIsBest DEF Scan, Wanted
<1>5. UNCHANGED Wanted
  BY <1>1 DEF Wanted, Longest, Latest, Recurs, Drafted, n
<1>6. TableInv'
  BY <1>1, <1>2, <1>4, <1>5 DEF TableInv, Table, WindowInv, Finished, Shared, Parted, Back
<1> QED
  BY <1>1, <1>2, <1>6 DEF LookupInv

-----------------------------------------------------------------------------

LEMMA LookupStart == LookupInit(Prompts) => LookupInv
<1> SUFFICES ASSUME LookupInit(Prompts) PROVE LookupInv
  OBVIOUS
<1>1. seq \in Seq(Token)
  BY LookupAssumption DEF LookupInit, Prompts
<1>2. n \in Nat /\ n = Len(seq)
  BY <1>1, SeqLen
<1>3. CASE n < 2 \/ MaxDraft = 0
  BY <1>1, <1>3 DEF LookupInit, LookupInv, NoTable
<1>4. CASE ~(n < 2 \/ MaxDraft = 0)
  BY <1>1, <1>2, <1>4
     DEF LookupInit, LookupInv, TableInv, Table, WindowInv, Finished, Shared
<1> QED
  BY <1>3, <1>4

LEMMA LookupInductive == LookupInv /\ [LookupNext]_lookup_vars => LookupInv'
<1> SUFFICES ASSUME LookupInv, [LookupNext]_lookup_vars PROVE LookupInv'
  OBVIOUS
<1>1. CASE UNCHANGED lookup_vars
  <2>1. UNCHANGED <<n, Wanted>>
    BY <1>1 DEF lookup_vars, Wanted, Longest, Latest, Recurs, Drafted, n
  <2>2. UNCHANGED TableInv
    BY <1>1, <2>1 DEF lookup_vars, TableInv, Table, WindowInv, Finished
  <2> QED
    BY <1>1, <2>1, <2>2 DEF lookup_vars, LookupInv, NoTable
<1> QED
  BY <1>1, CopyKeeps, ExtendKeeps, CloseKeeps, ScanKeeps DEF LookupNext

\* The Z-function is exact and built in linear work, and the draft is what
\* followed the most recent earlier occurrence of the longest suffix that
\* recurs (z_function and prompt_lookup_draft in speculative.rs).
THEOREM LookupDraftRight == LookupSpec => []DraftRight
<1>1. ASSUME LookupInv PROVE DraftRight
  <2>1. n \in Nat /\ n = Len(seq)
    BY <1>1, SeqLen DEF LookupInv
  <2>2. CASE n < 2 \/ MaxDraft = 0
    BY <1>1, <2>1, <2>2 DEF LookupInv, NoTable, DraftRight, ZExact
  <2>3. CASE ~(n < 2 \/ MaxDraft = 0)
    <3>1. TableInv /\ compared \in Nat /\ at \in {"copy", "extend", "drafted"}
      BY <1>1, <2>3 DEF LookupInv
    <3>2. \A k \in Int, m \in Int : rev(m) = Back(seq, m) /\ rev(k + m) = Back(seq, k + m)
      BY <2>1 DEF rev, Back
    <3>3. ASSUME NEW k \in 1 .. i - 1
          PROVE  /\ k + z[k] <= n /\ Prefixed(k, z[k])
                 /\ k + z[k] < n => rev(z[k]) # rev(k + z[k])
      <4>1. Shared(seq, k, z[k]) /\ Parted(seq, k, z[k]) /\ z[k] \in Nat
        <5>1. k \in 0 .. n - 1
          BY <2>1, <3>1 DEF TableInv, WindowInv
        <5> QED
          BY <3>1, <5>1 DEF TableInv, Finished, Table
      <4> QED
        BY <2>1, <3>2, <4>1 DEF Shared, Parted, Prefixed
    <3>4. compared <= 2 * n
      <4>1. i \in 1 .. n /\ r \in 0 .. n /\ l \in Nat
        BY <2>1, <3>1 DEF TableInv, WindowInv
      <4>2. at = "extend" => i + z[i] <= n /\ z[i] \in Nat
        BY <2>1, <3>1, <4>1 DEF TableInv, Shared, Table
      <4> QED
        BY <2>1, <3>1, <4>1, <4>2 DEF TableInv
    <3>5. at = "drafted" => draft = Wanted
      BY <3>1 DEF TableInv
    <3> QED
      BY <2>3, <3>3, <3>4, <3>5 DEF DraftRight, ZExact, Wanted
  <2> QED
    BY <2>2, <2>3
<1> QED
  BY <1>1, LookupStart, LookupInductive, PTL DEF LookupSpec

-----------------------------------------------------------------------------
(* StreamText: sequences first.                                            *)

\* Appending is associative.
LEMMA Regrouped ==
  ASSUME NEW S, NEW s \in Seq(S), NEW t \in Seq(S), NEW u \in Seq(S)
  PROVE  (s \o t) \o u = s \o (t \o u)
BY ConcatAssociative

-----------------------------------------------------------------------------
(* Flattened sequences: induction over the number of parts, by a least one *)
(* that would be an exception.                                             *)

\* One unfolding of the joins of the first parts of s.
Unfolded(s, m, f) == [k \in 1 .. m |-> IF k = 1 THEN s[k] ELSE f[k - 1] \o s[k]]

Joins(s, m) == CHOOSE f : f = Unfolded(s, m, f)

\* The parts of one unfolding.
LEMMA UnfoldedAt ==
  ASSUME NEW s, NEW m, NEW f
  PROVE  \A k \in 1 .. m : Unfolded(s, m, f)[k] = IF k = 1 THEN s[k] ELSE f[k - 1] \o s[k]
BY Zenon DEF Unfolded

\* The joins are an unfolding of themselves.
LEMMA JoinsExist ==
  ASSUME NEW s, NEW m \in Nat
  PROVE  Joins(s, m) = Unfolded(s, m, Joins(s, m))
<1> DEFINE B == {c \in Nat : ~ \E f : f = Unfolded(s, c, f)}
<1>1. B = {}
  <2> SUFFICES ASSUME B # {} PROVE FALSE
    OBVIOUS
  <2>1. PICK c \in B : \A e \in B : c <= e
    <3>1. B \subseteq Nat
      OBVIOUS
    <3> HIDE DEF B
    <3> QED
      BY <3>1, LeastNatural
  <2>2. CASE c = 0
    <3>1. <<>> = Unfolded(s, 0, <<>>)
      BY DEF Unfolded
    <3> QED
      BY <2>2, <3>1
  <2>3. CASE c # 0
    <3>1. c - 1 \in Nat /\ c - 1 \notin B
      BY <2>1, <2>3
    <3>2. PICK g : g = Unfolded(s, c - 1, g)
      BY <3>1
    <3> DEFINE h == [k \in 1 .. c |-> IF k = 1 THEN s[k] ELSE g[k - 1] \o s[k]]
    <3>3. \A k \in 1 .. c - 1 : h[k] = g[k]
      <4>1. \A k \in 1 .. c - 1 : h[k] = IF k = 1 THEN s[k] ELSE g[k - 1] \o s[k]
        <5>1. \A k \in 1 .. c : h[k] = IF k = 1 THEN s[k] ELSE g[k - 1] \o s[k]
          BY Zenon
        <5> HIDE DEF h
        <5> QED
          BY <2>1, <5>1
      <4> HIDE DEF h
      <4>2. \A k \in 1 .. c - 1 : g[k] = IF k = 1 THEN s[k] ELSE g[k - 1] \o s[k]
        BY <3>2, UnfoldedAt
      <4> QED
        BY <4>1, <4>2, Zenon
    <3>4. \A k \in 1 .. c : (IF k = 1 THEN s[k] ELSE g[k - 1] \o s[k])
                             = (IF k = 1 THEN s[k] ELSE h[k - 1] \o s[k])
      <4> HIDE DEF h
      <4>1. ASSUME NEW k \in 1 .. c, k # 1 PROVE g[k - 1] = h[k - 1]
        BY <2>1, <3>3, <4>1
      <4> QED
        BY <4>1, Zenon
    <3>5. h = Unfolded(s, c, h)
      BY <3>4, Zenon DEF Unfolded
    <3> HIDE DEF h
    <3> QED
      BY <2>1, <3>5
  <2> QED
    BY <2>2, <2>3
<1>2. \E f : f = Unfolded(s, m, f)
  BY <1>1
<1> QED
  BY <1>2, Zenon DEF Joins

\* The library's flattening is the last of the joins.
LEMMA FlattenIsJoins ==
  ASSUME NEW s, Len(s) # 0
  PROVE  FlattenSeq(s) = Joins(s, Len(s))[Len(s)]
BY DEF FlattenSeq, Joins, Unfolded

\* What the joins of a sequence of sequences are, and that only the parts count.
LEMMA JoinsType ==
  ASSUME NEW S, NEW m \in Nat, NEW s, \A k \in 1 .. m : s[k] \in Seq(S)
  PROVE  \A k \in 1 .. m : Joins(s, m)[k] \in Seq(S)
<1> DEFINE f == Joins(s, m)
<1>1. f = Unfolded(s, m, f)
  BY JoinsExist
<1> DEFINE B == {c \in 1 .. m : f[c] \notin Seq(S)}
<1> SUFFICES ASSUME B # {} PROVE FALSE
  OBVIOUS
<1>2. PICK c \in B : \A e \in B : c <= e
  <2>1. B \subseteq Nat
    OBVIOUS
  <2> HIDE DEF B
  <2> QED
    BY <2>1, LeastNatural
<1> HIDE DEF f
<1>3. f[c] = IF c = 1 THEN s[c] ELSE f[c - 1] \o s[c]
  BY <1>1, UnfoldedAt
<1>4. CASE c = 1
  BY <1>3, <1>4
<1>5. CASE c # 1
  <2>1. c - 1 \in 1 .. m /\ c - 1 \notin B
    BY <1>2, <1>5
  <2>2. f[c - 1] \in Seq(S) /\ s[c] \in Seq(S)
    BY <2>1
  <2>3. f[c - 1] \o s[c] \in Seq(S)
    BY <2>2, ConcatProperties, Zenon
  <2> QED
    BY <1>3, <1>5, <2>3
<1> QED
  BY <1>4, <1>5

\* Only the parts count, not what follows them.
LEMMA JoinsAgree ==
  ASSUME NEW s, NEW t, NEW m \in Nat, NEW extent \in Nat, m <= extent, \A k \in 1 .. m : s[k] = t[k]
  PROVE  \A k \in 1 .. m : Joins(s, m)[k] = Joins(t, extent)[k]
<1> DEFINE f == Joins(s, m)
<1> DEFINE g == Joins(t, extent)
<1>1. f = Unfolded(s, m, f) /\ g = Unfolded(t, extent, g)
  BY JoinsExist
<1> DEFINE B == {c \in 1 .. m : f[c] # g[c]}
<1> SUFFICES ASSUME B # {} PROVE FALSE
  OBVIOUS
<1>2. PICK c \in B : \A e \in B : c <= e
  <2>1. B \subseteq Nat
    OBVIOUS
  <2> HIDE DEF B
  <2> QED
    BY <2>1, LeastNatural
<1> HIDE DEF f, g
<1>3. /\ f[c] = IF c = 1 THEN s[c] ELSE f[c - 1] \o s[c]
      /\ g[c] = IF c = 1 THEN t[c] ELSE g[c - 1] \o t[c]
  BY <1>1, UnfoldedAt
<1>4. CASE c = 1
  BY <1>3, <1>4
<1>5. CASE c # 1
  <2>1. c - 1 \in 1 .. m /\ c - 1 \notin B
    BY <1>2, <1>5
  <2> QED
    BY <1>3, <1>5, <2>1
<1> QED
  BY <1>4, <1>5

\* Flattened sequences are sequences.
LEMMA FlattenType ==
  ASSUME NEW S, NEW s \in Seq(Seq(S))
  PROVE  FlattenSeq(s) \in Seq(S)
<1>1. Len(s) \in Nat /\ \A k \in 1 .. Len(s) : s[k] \in Seq(S)
  BY LenProperties, ElementOfSeq
<1>2. CASE Len(s) = 0
  <2>1. s = <<>>
    BY <1>2, EmptySeq
  <2> QED
    BY <1>2, <2>1 DEF FlattenSeq
<1>3. CASE Len(s) # 0
  BY <1>1, <1>3, FlattenIsJoins, JoinsType
<1> QED
  BY <1>2, <1>3

\* Nothing flattens to nothing.
LEMMA FlattenEmpty == FlattenSeq(<<>>) = <<>>
BY DEF FlattenSeq

\* A part at the end.
LEMMA FlattenAppend ==
  ASSUME NEW S, NEW s \in Seq(Seq(S)), NEW x \in Seq(S)
  PROVE  FlattenSeq(Append(s, x)) = FlattenSeq(s) \o x
<1> DEFINE t == Append(s, x)
<1> DEFINE m == Len(s)
<1>1. m \in Nat /\ \A k \in 1 .. m : s[k] \in Seq(S)
  BY LenProperties, ElementOfSeq
<1>2. /\ t \in Seq(Seq(S)) /\ Len(t) = m + 1 /\ t[m + 1] = x
      /\ \A k \in 1 .. m : t[k] = s[k]
  BY AppendProperties
<1> HIDE DEF t, m
<1>3. Joins(t, m + 1) = Unfolded(t, m + 1, Joins(t, m + 1))
  BY <1>1, JoinsExist
<1>4. Joins(t, m + 1)[m + 1] = IF m + 1 = 1 THEN t[m + 1] ELSE Joins(t, m + 1)[m] \o t[m + 1]
  BY <1>1, <1>3, UnfoldedAt
<1>5. FlattenSeq(t) = Joins(t, m + 1)[m + 1]
  BY <1>1, <1>2, FlattenIsJoins
<1>6. CASE m = 0
  <2>1. s = <<>>
    BY <1>6, EmptySeq DEF m
  <2>2. FlattenSeq(s) = <<>>
    BY <2>1, FlattenEmpty
  <2> QED
    BY <1>2, <1>4, <1>5, <1>6, <2>2 DEF t
<1>7. CASE m # 0
  <2>1. m \in 1 .. m /\ m + 1 \in Nat /\ m <= m + 1 /\ m + 1 # 1 /\ m # 0
    BY <1>1, <1>7
  <2>2. Joins(s, m)[m] = Joins(t, m + 1)[m]
    <3>1. \A k \in 1 .. m : s[k] = t[k]
      BY <1>2
    <3>2. \A k \in 1 .. m : Joins(s, m)[k] = Joins(t, m + 1)[k]
      BY <1>1, <2>1, <3>1, JoinsAgree
    <3> QED
      BY <2>1, <3>2
  <2>3. FlattenSeq(s) = Joins(s, m)[m]
    BY <1>7, FlattenIsJoins DEF m
  <2> QED
    <3>1. FlattenSeq(t) = FlattenSeq(s) \o x
      BY <1>2, <1>4, <1>5, <2>1, <2>2, <2>3, Zenon
    <3> QED
      BY <3>1 DEF t
<1> QED
  BY <1>6, <1>7

\* One part more on the right of a concatenation.
LEMMA FlattenOnto ==
  ASSUME NEW S, NEW s \in Seq(Seq(S)), NEW u \in Seq(Seq(S)), NEW x \in Seq(S),
         FlattenSeq(s \o u) = FlattenSeq(s) \o FlattenSeq(u)
  PROVE  FlattenSeq(s \o Append(u, x)) = FlattenSeq(s) \o FlattenSeq(Append(u, x))
<1>1. s \o u \in Seq(Seq(S))
  BY ConcatProperties
<1>2. s \o Append(u, x) = Append(s \o u, x)
  <2>1. <<x>> \in Seq(Seq(S))
    OBVIOUS
  <2>2. (s \o u) \o <<x>> = s \o (u \o <<x>>)
    BY <2>1, Regrouped
  <2>3. Append(s \o u, x) = (s \o u) \o <<x>>
    BY <1>1, AppendIsConcat
  <2>4. Append(u, x) = u \o <<x>>
    BY AppendIsConcat
  <2> QED
    BY <2>2, <2>3, <2>4, Zenon
<1>3. FlattenSeq(Append(s \o u, x)) = FlattenSeq(s \o u) \o x
  BY <1>1, FlattenAppend
<1>4. FlattenSeq(Append(u, x)) = FlattenSeq(u) \o x
  BY FlattenAppend
<1>5. FlattenSeq(s) \in Seq(S) /\ FlattenSeq(u) \in Seq(S)
  BY FlattenType
<1>6. (FlattenSeq(s) \o FlattenSeq(u)) \o x = FlattenSeq(s) \o (FlattenSeq(u) \o x)
  BY <1>5, Regrouped
<1> QED
  BY <1>2, <1>3, <1>4, <1>6, Zenon

\* Flattening distributes over concatenation.
LEMMA FlattenConcat ==
  ASSUME NEW S, NEW s \in Seq(Seq(S)), NEW t \in Seq(Seq(S))
  PROVE  FlattenSeq(s \o t) = FlattenSeq(s) \o FlattenSeq(t)
<1> DEFINE B == {c \in 0 .. Len(t) : FlattenSeq(s \o SubSeq(t, 1, c)) # FlattenSeq(s) \o FlattenSeq(SubSeq(t, 1, c))}
<1>1. Len(t) \in Nat /\ FlattenSeq(s) \in Seq(S)
  BY LenProperties, FlattenType
<1>2. B = {}
  <2> SUFFICES ASSUME B # {} PROVE FALSE
    OBVIOUS
  <2>1. PICK c \in B : \A e \in B : c <= e
    <3>1. B \subseteq Nat
      BY <1>1
    <3> HIDE DEF B
    <3> QED
      BY <3>1, LeastNatural
  <2>2. CASE c = 0
    <3>1. SubSeq(t, 1, c) = <<>>
      BY <2>2, SubSeqEmpty
    <3>2. s \o <<>> = s /\ FlattenSeq(s) \o <<>> = FlattenSeq(s)
      BY <1>1, ConcatEmptySeq
    <3> QED
      BY <2>1, <3>1, <3>2, FlattenEmpty
  <2>3. CASE c # 0
    <3> DEFINE u == SubSeq(t, 1, c - 1)
    <3> DEFINE x == t[c]
    <3>1. c - 1 \in 0 .. Len(t) /\ c - 1 \notin B /\ c \in 1 .. Len(t)
      <4>1. c \in 0 .. Len(t)
        BY <2>1
      <4>2. c \in B /\ \A e \in B : c <= e
        BY <2>1
      <4> HIDE DEF B
      <4> QED
        BY <1>1, <2>3, <4>1, <4>2
    <3>2. u \in Seq(Seq(S)) /\ x \in Seq(S)
      BY <1>1, <3>1, PrefixType, ElementOfSeq
    <3>3. SubSeq(t, 1, c) = Append(u, x)
      <4>1. SubSeq(t, 1, c) = u \o <<x>>
        BY <1>1, <3>1, SubSeqRecursiveSecond, SMTT(30)
      <4> HIDE DEF u, x
      <4> QED
        BY <3>2, <4>1, AppendIsConcat
    <3>4. FlattenSeq(s \o u) = FlattenSeq(s) \o FlattenSeq(u)
      BY <3>1
    <3> HIDE DEF u, x
    <3>5. FlattenSeq(s \o Append(u, x)) = FlattenSeq(s) \o FlattenSeq(Append(u, x))
      BY <3>2, <3>4, FlattenOnto
    <3> QED
      BY <2>1, <3>3, <3>5
  <2> QED
    BY <2>2, <2>3
<1>3. SubSeq(t, 1, Len(t)) = t
  BY SubSeqFull
<1>4. FlattenSeq(s \o SubSeq(t, 1, Len(t))) = FlattenSeq(s) \o FlattenSeq(SubSeq(t, 1, Len(t)))
  <2> DEFINE g(c) == FlattenSeq(s \o SubSeq(t, 1, c))
  <2> DEFINE h(c) == FlattenSeq(s) \o FlattenSeq(SubSeq(t, 1, c))
  <2>1. {c \in 0 .. Len(t) : g(c) # h(c)} = {}
    BY <1>2
  <2>2. Len(t) \in 0 .. Len(t)
    BY <1>1
  <2> HIDE DEF g, h
  <2>3. g(Len(t)) = h(Len(t))
    BY <2>1, <2>2
  <2> QED
    BY <2>3 DEF g, h
<1> QED
  BY <1>3, <1>4, Zenon

-----------------------------------------------------------------------------
(* Characters: where a text may be cut.                                    *)

Chars == STRING \cup {"x", "mark", "?", "sp", "a", "b", "L", "U", "C", "##"}
           \cup {BytePiece[byte] : byte \in DOMAIN BytePiece}

Spelt(b) == [k \in DOMAIN b |-> Shown(b, k)]

\* No character of b is still open at its end.
Unbroken(b) ==
  \A k \in DOMAIN b : b[k] \in Leads => k < Len(b) /\ (b[k + 1] = "C" => k + 1 < Len(b))

\* What each byte shows is a text.
LEMMA SpeltType ==
  ASSUME NEW b \in Seq(Chars)
  PROVE  /\ Spelt(b) \in Seq(Seq(Chars)) /\ Len(Spelt(b)) = Len(b)
         /\ \A k \in 1 .. Len(b) : Spelt(b)[k] = Shown(b, k)
<1>1. Len(b) \in Nat /\ DOMAIN b = 1 .. Len(b) /\ \A k \in 1 .. Len(b) : b[k] \in Chars
  BY LenProperties, ElementOfSeq
<1>2. ASSUME NEW k \in 1 .. Len(b) PROVE Shown(b, k) \in Seq(Chars)
  <2>1. b[k] \in Chars /\ "x" \in Chars /\ "mark" \in Chars /\ "?" \in Chars
    BY <1>1 DEF Chars
  <2>2. \/ Shown(b, k) = <<>>
        \/ \E ch \in {"x", "mark", "?", b[k]} : Shown(b, k) = <<ch>>
    BY DEF Shown
  <2>3. \A ch \in Chars : <<ch>> \in Seq(Chars)
    OBVIOUS
  <2>4. {"x", "mark", "?", b[k]} \subseteq Chars
    BY <2>1
  <2> QED
    BY <2>2, <2>3, <2>4, EmptySeq
<1>3. Spelt(b) \in [1 .. Len(b) -> Seq(Chars)]
  BY <1>1, <1>2 DEF Spelt
<1>4. \A k \in 1 .. Len(b) : Spelt(b)[k] = Shown(b, k)
  BY <1>1 DEF Spelt
<1> QED
  BY <1>1, <1>3, <1>4

\* A text that is cut between characters is its two halves.
LEMMA SpeltSplit ==
  ASSUME NEW a \in Seq(Chars), NEW b \in Seq(Chars), Unbroken(a)
  PROVE  Spelt(a \o b) = Spelt(a) \o Spelt(b)
<1>1. /\ Len(a) \in Nat /\ DOMAIN a = 1 .. Len(a)
      /\ Len(b) \in Nat /\ DOMAIN b = 1 .. Len(b)
  BY LenProperties
<1> DEFINE w == a \o b
<1>2. /\ w \in Seq(Chars) /\ Len(w) = Len(a) + Len(b)
      /\ \A k \in 1 .. Len(a) + Len(b) : w[k] = IF k <= Len(a) THEN a[k] ELSE b[k - Len(a)]
  BY ConcatProperties
<1> HIDE DEF w
<1>3. /\ Spelt(a) \in Seq(Seq(Chars)) /\ Len(Spelt(a)) = Len(a)
      /\ Spelt(b) \in Seq(Seq(Chars)) /\ Len(Spelt(b)) = Len(b)
      /\ Spelt(w) \in Seq(Seq(Chars)) /\ Len(Spelt(w)) = Len(w)
      /\ \A k \in 1 .. Len(a) : Spelt(a)[k] = Shown(a, k)
      /\ \A k \in 1 .. Len(b) : Spelt(b)[k] = Shown(b, k)
      /\ \A k \in 1 .. Len(w) : Spelt(w)[k] = Shown(w, k)
  BY <1>2, SpeltType
<1>4. ASSUME NEW k \in 1 .. Len(a) PROVE Shown(w, k) = Shown(a, k)
  <2>1. \A j \in 1 .. Len(a) : w[j] = a[j]
    BY <1>1, <1>2
  <2>2. Consumed(w, k) = Consumed(a, k)
    BY <1>1, <2>1 DEF Consumed
  <2>3. ASSUME a[k] \in Leads
        PROVE  (k + 2 <= Len(w) /\ w[k + 1] = "C" /\ w[k + 2] = "C")
               <=> (k + 2 <= Len(a) /\ a[k + 1] = "C" /\ a[k + 2] = "C")
    <3>1. k < Len(a) /\ (a[k + 1] = "C" => k + 1 < Len(a))
      BY <1>1, <2>3 DEF Unbroken
    <3> QED
      BY <1>1, <1>2, <2>1, <3>1
  <2>4. w[k] = a[k]
    BY <2>1
  <2> QED
    BY <2>2, <2>3, <2>4 DEF Shown
<1>5. ASSUME NEW k \in 1 .. Len(b) PROVE Shown(w, Len(a) + k) = Shown(b, k)
  <2>1. \A j \in 1 .. Len(b) : w[Len(a) + j] = b[j]
    BY <1>1, <1>2
  <2>2. \A j \in 1 .. Len(a) : w[j] = a[j]
    BY <1>1, <1>2
  <2>3. Consumed(w, Len(a) + k) = Consumed(b, k)
    <3>1. CASE k > 2
      <4>1. /\ w[Len(a) + k] = b[k] /\ w[Len(a) + k - 1] = b[k - 1] /\ w[Len(a) + k - 2] = b[k - 2]
            /\ Len(a) + k > 2 /\ Len(a) + k > 1 /\ k > 1
        BY <1>1, <2>1, <3>1
      <4> QED
        BY <3>1, <4>1 DEF Consumed
    <3>2. CASE k = 2
      <4>1. /\ w[Len(a) + 2] = b[2] /\ w[Len(a) + 2 - 1] = b[1]
            /\ Len(a) + 2 > 1
        BY <1>1, <2>1, <3>2
      <4>2. Len(a) + 2 > 2 => w[Len(a) + 2 - 2] = a[Len(a)] /\ a[Len(a)] \notin Leads
        BY <1>1, <2>2 DEF Unbroken
      <4> QED
        BY <3>2, <4>1, <4>2 DEF Consumed
    <3>3. CASE k = 1
      <4>1. w[Len(a) + 1] = b[1]
        BY <1>1, <2>1, <3>3
      <4>2. Len(a) + 1 > 1 => w[Len(a) + 1 - 1] = a[Len(a)] /\ a[Len(a)] \notin Leads
        BY <1>1, <2>2 DEF Unbroken
      <4>3. Len(a) + 1 > 2 => /\ w[Len(a) + 1 - 2] = a[Len(a) - 1]
                              /\ ~ (a[Len(a)] = "C" /\ a[Len(a) - 1] \in Leads)
        BY <1>1, <2>2 DEF Unbroken
      <4> QED
        BY <1>1, <3>3, <4>1, <4>2, <4>3 DEF Consumed
    <3> QED
      BY <1>1, <3>1, <3>2, <3>3
  <2>4. /\ w[Len(a) + k] = b[k]
        /\ (Len(a) + k + 2 <= Len(w) /\ w[Len(a) + k + 1] = "C" /\ w[Len(a) + k + 2] = "C")
            <=> (k + 2 <= Len(b) /\ b[k + 1] = "C" /\ b[k + 2] = "C")
    BY <1>1, <1>2, <2>1
  <2> QED
    BY <2>3, <2>4 DEF Shown
<1>6. Spelt(w) = Spelt(a) \o Spelt(b)
  <2>1. /\ Spelt(a) \o Spelt(b) \in Seq(Seq(Chars))
        /\ Len(Spelt(a) \o Spelt(b)) = Len(w)
        /\ \A k \in 1 .. Len(w) : (Spelt(a) \o Spelt(b))[k]
                                  = IF k <= Len(a) THEN Spelt(a)[k] ELSE Spelt(b)[k - Len(a)]
    <3>1. Spelt(a) \in Seq(Seq(Chars)) /\ Spelt(b) \in Seq(Seq(Chars))
      BY <1>3
    <3>2. /\ Spelt(a) \o Spelt(b) \in Seq(Seq(Chars))
          /\ Len(Spelt(a) \o Spelt(b)) = Len(Spelt(a)) + Len(Spelt(b))
          /\ \A k \in 1 .. Len(Spelt(a)) + Len(Spelt(b)) :
               (Spelt(a) \o Spelt(b))[k] = IF k <= Len(Spelt(a)) THEN Spelt(a)[k] ELSE Spelt(b)[k - Len(Spelt(a))]
      BY <3>1, ConcatProperties, Zenon
    <3> QED
      BY <1>2, <1>3, <3>2
  <2>2. ASSUME NEW k \in 1 .. Len(w) PROVE Spelt(w)[k] = (Spelt(a) \o Spelt(b))[k]
    <3>1. CASE k <= Len(a)
      <4>1. k \in 1 .. Len(a)
        BY <1>1, <3>1
      <4> QED
        BY <1>3, <1>4, <2>1, <3>1, <4>1
    <3>2. CASE ~ (k <= Len(a))
      <4>1. k - Len(a) \in 1 .. Len(b) /\ Len(a) + (k - Len(a)) = k
        BY <1>1, <1>2, <3>2
      <4>2. Shown(w, Len(a) + (k - Len(a))) = Shown(b, k - Len(a))
        BY <1>5, <4>1
      <4> QED
        BY <1>3, <2>1, <3>2, <4>1, <4>2
    <3> QED
      BY <3>1, <3>2
  <2> QED
    BY <1>3, <2>1, <2>2, SeqEqual
<1> QED
  BY <1>6 DEF w

\* Lossy decoding yields characters.
LEMMA LossyType ==
  ASSUME NEW b \in Seq(Chars)
  PROVE  Lossy(b) \in Seq(Chars)
BY SpeltType, FlattenType DEF Lossy, Spelt

\* Lossy decoding distributes over a cut between characters.
LEMMA LossySplit ==
  ASSUME NEW a \in Seq(Chars), NEW b \in Seq(Chars), Unbroken(a)
  PROVE  Lossy(a \o b) = Lossy(a) \o Lossy(b)
<1>1. Spelt(a) \in Seq(Seq(Chars)) /\ Spelt(b) \in Seq(Seq(Chars))
  BY SpeltType
<1>2. FlattenSeq(Spelt(a) \o Spelt(b)) = FlattenSeq(Spelt(a)) \o FlattenSeq(Spelt(b))
  BY <1>1, FlattenConcat
<1>3. Spelt(a \o b) = Spelt(a) \o Spelt(b)
  BY SpeltSplit
<1>4. Lossy(a) = FlattenSeq(Spelt(a)) /\ Lossy(b) = FlattenSeq(Spelt(b)) /\ Lossy(a \o b) = FlattenSeq(Spelt(a \o b))
  BY DEF Lossy, Spelt
<1> QED
  BY <1>2, <1>3, <1>4

\* The end of flattened parts is the end of the last one.
LEMMA FlattenEnd ==
  ASSUME NEW S, NEW s \in Seq(Seq(S)), NEW extent \in Nat \ {0}, extent = Len(s)
  PROVE  /\ \A y \in S : s[extent] = <<y>> => FlattenSeq(s) # <<>> /\ Last(FlattenSeq(s)) = y
         /\ s[extent] = <<>> => FlattenSeq(s) = FlattenSeq(SubSeq(s, 1, extent - 1))
<1> DEFINE u == SubSeq(s, 1, extent - 1)
<1> DEFINE x == s[extent]
<1>1. extent \in 1 .. Len(s) /\ extent - 1 \in 0 .. Len(s)
  OBVIOUS
<1>2. u \in Seq(Seq(S)) /\ x \in Seq(S)
  BY <1>1, PrefixType, ElementOfSeq
<1>3. s = Append(u, x)
  <2>1. SubSeq(s, 1, extent) = s
    BY SubSeqFull
  <2>2. SubSeq(s, 1, extent) = u \o <<x>>
    BY <1>1, SubSeqRecursiveSecond
  <2> HIDE DEF u, x
  <2> QED
    BY <1>2, <2>1, <2>2, AppendIsConcat
<1> HIDE DEF u, x
<1>4. FlattenSeq(s) = FlattenSeq(u) \o x /\ FlattenSeq(u) \in Seq(S)
  <2>1. FlattenSeq(Append(u, x)) = FlattenSeq(u) \o x
    BY <1>2, FlattenAppend
  <2> QED
    BY <1>2, <1>3, <2>1, FlattenType
<1>5. ASSUME NEW y \in S, x = <<y>> PROVE FlattenSeq(s) # <<>> /\ Last(FlattenSeq(s)) = y
  <2> DEFINE v == FlattenSeq(u)
  <2>1. v \in Seq(S) /\ FlattenSeq(s) = v \o <<y>>
    BY <1>4, <1>5
  <2> HIDE DEF v
  <2>2. v \o <<y>> = Append(v, y)
    BY <2>1, AppendIsConcat
  <2>3. Append(v, y) # <<>> /\ Len(Append(v, y)) = Len(v) + 1 /\ Append(v, y)[Len(v) + 1] = y
    BY <2>1, AppendProperties
  <2> QED
    BY <2>1, <2>2, <2>3 DEF Last
<1>6. ASSUME x = <<>> PROVE FlattenSeq(s) = FlattenSeq(u)
  BY <1>4, <1>6, ConcatEmptySeq
<1> QED
  BY <1>5, <1>6 DEF u, x

\* A text whose last character is no replacement ends with a whole one.
LEMMA LossyEnd ==
  ASSUME NEW b \in Seq(Chars), Lossy(b) # <<>>, Last(Lossy(b)) # "?"
  PROVE  Unbroken(b)
<1> SUFFICES ASSUME NEW k \in DOMAIN b, b[k] \in Leads,
                    ~ (k < Len(b) /\ (b[k + 1] = "C" => k + 1 < Len(b)))
             PROVE  FALSE
  BY DEF Unbroken
<1>1. Len(b) \in Nat /\ k \in 1 .. Len(b) /\ "?" \in Chars
  BY LenProperties DEF Chars
<1>2. /\ Spelt(b) \in Seq(Seq(Chars)) /\ Len(Spelt(b)) = Len(b)
      /\ \A j \in 1 .. Len(b) : Spelt(b)[j] = Shown(b, j)
  BY SpeltType
<1>3. Lossy(b) = FlattenSeq(Spelt(b))
  BY DEF Lossy, Spelt
<1>4. Shown(b, k) = <<"?">>
  <2>1. ~ Consumed(b, k)
    BY DEF Leads, Consumed
  <2>2. ~ (k + 2 <= Len(b) /\ b[k + 1] = "C" /\ b[k + 2] = "C")
    BY <1>1
  <2> QED
    BY <2>1, <2>2 DEF Shown, Leads
<1>5. CASE k = Len(b)
  <2>1. Last(FlattenSeq(Spelt(b))) = "?"
    <3>1. k \in Nat \ {0} /\ k = Len(Spelt(b)) /\ Spelt(b)[k] = <<"?">>
      BY <1>1, <1>2, <1>4, <1>5
    <3>2. Spelt(b) \in Seq(Seq(Chars))
      BY <1>2
    <3>3. \A y \in Chars : Spelt(b)[k] = <<y>> => Last(FlattenSeq(Spelt(b))) = y
      BY <3>1, <3>2, FlattenEnd
    <3> QED
      BY <1>1, <3>1, <3>3, Zenon
  <2> QED
    BY <1>3, <2>1
<1>6. CASE k # Len(b)
  <2>1. k + 1 = Len(b) /\ b[k + 1] = "C"
    BY <1>1, <1>6
  <2>2. Consumed(b, k + 1)
    BY <1>1, <2>1 DEF Consumed
  <2>3. Spelt(b)[k + 1] = <<>>
    <3>1. Shown(b, k + 1) = <<>>
      BY <2>1, <2>2 DEF Shown, Leads
    <3> QED
      BY <1>1, <1>2, <2>1, <3>1
  <2> DEFINE u == SubSeq(Spelt(b), 1, k)
  <2>4. k + 1 \in Nat \ {0} /\ k + 1 = Len(Spelt(b)) /\ k + 1 - 1 = k /\ k \in 0 .. Len(Spelt(b))
    BY <1>1, <1>2, <2>1
  <2>5. FlattenSeq(Spelt(b)) = FlattenSeq(u)
    BY <1>2, <2>3, <2>4, FlattenEnd
  <2>6. u \in Seq(Seq(Chars)) /\ Len(u) = k /\ u[k] = Spelt(b)[k]
    BY <1>1, <1>2, <2>4, PrefixType
  <2> HIDE DEF u
  <2>7. Last(FlattenSeq(u)) = "?"
    <3>1. k \in Nat \ {0} /\ k = Len(u) /\ u[k] = <<"?">>
      BY <1>1, <1>2, <1>4, <2>6
    <3>2. \A y \in Chars : u[k] = <<y>> => Last(FlattenSeq(u)) = y
      BY <2>6, <3>1, FlattenEnd
    <3> QED
      BY <1>1, <3>1, <3>2, Zenon
  <2> QED
    BY <1>3, <2>5, <2>7
<1> QED
  BY <1>5, <1>6

\* A concatenation ends between characters as its parts do.
LEMMA UnbrokenParts ==
  ASSUME NEW a \in Seq(Chars), NEW b \in Seq(Chars)
  PROVE  /\ Unbroken(a \o b) => Unbroken(b)
         /\ Unbroken(a) /\ Unbroken(b) => Unbroken(a \o b)
<1>1. /\ Len(a) \in Nat /\ DOMAIN a = 1 .. Len(a)
      /\ Len(b) \in Nat /\ DOMAIN b = 1 .. Len(b)
  BY LenProperties
<1> DEFINE w == a \o b
<1>2. /\ w \in Seq(Chars) /\ Len(w) = Len(a) + Len(b)
      /\ \A k \in 1 .. Len(a) + Len(b) : w[k] = IF k <= Len(a) THEN a[k] ELSE b[k - Len(a)]
  BY ConcatProperties
<1> HIDE DEF w
<1>3. DOMAIN w = 1 .. Len(a) + Len(b)
  BY <1>2, LenProperties
<1>4. /\ \A k \in 1 .. Len(a) : w[k] = a[k]
      /\ \A k \in 1 .. Len(b) : w[Len(a) + k] = b[k]
  BY <1>1, <1>2
<1>5. ASSUME Unbroken(w) PROVE Unbroken(b)
  <2>1. ASSUME NEW k \in DOMAIN b, b[k] \in Leads
        PROVE  k < Len(b) /\ (b[k + 1] = "C" => k + 1 < Len(b))
    <3>1. Len(a) + k \in DOMAIN w /\ w[Len(a) + k] = b[k]
      BY <1>1, <1>3, <1>4
    <3>2. Len(a) + k < Len(w) /\ (w[Len(a) + k + 1] = "C" => Len(a) + k + 1 < Len(w))
      BY <1>5, <2>1, <3>1 DEF Unbroken
    <3>3. k < Len(b)
      BY <1>1, <1>2, <3>2
    <3>4. w[Len(a) + (k + 1)] = b[k + 1] /\ Len(a) + (k + 1) = Len(a) + k + 1
      BY <1>1, <1>4, <3>3
    <3> QED
      BY <1>1, <1>2, <3>2, <3>3, <3>4
  <2> QED
    BY <2>1 DEF Unbroken
<1>6. ASSUME Unbroken(a), Unbroken(b) PROVE Unbroken(w)
  <2>1. ASSUME NEW k \in DOMAIN w, w[k] \in Leads
        PROVE  k < Len(w) /\ (w[k + 1] = "C" => k + 1 < Len(w))
    <3>1. CASE k <= Len(a)
      <4>1. k \in DOMAIN a /\ a[k] = w[k]
        BY <1>1, <1>3, <1>4, <3>1
      <4>2. k < Len(a) /\ (a[k + 1] = "C" => k + 1 < Len(a))
        BY <1>6, <2>1, <4>1 DEF Unbroken
      <4>3. w[k + 1] = a[k + 1]
        BY <1>1, <1>4, <4>1, <4>2
      <4> QED
        BY <1>1, <1>2, <4>1, <4>2, <4>3
    <3>2. CASE ~ (k <= Len(a))
      <4>1. k - Len(a) \in DOMAIN b /\ w[k] = b[k - Len(a)]
        BY <1>1, <1>2, <1>3, <3>2
      <4>2. k - Len(a) < Len(b) /\ (b[k - Len(a) + 1] = "C" => k - Len(a) + 1 < Len(b))
        BY <1>6, <2>1, <4>1 DEF Unbroken
      <4>3. w[Len(a) + (k - Len(a) + 1)] = b[k - Len(a) + 1]
        BY <1>1, <1>4, <4>1, <4>2
      <4>4. Len(a) + (k - Len(a) + 1) = k + 1
        BY <1>1, <1>3
      <4> QED
        BY <1>1, <1>2, <1>3, <4>1, <4>2, <4>3, <4>4
    <3> QED
      BY <3>1, <3>2
  <2> QED
    BY <2>1 DEF Unbroken
<1> QED
  BY <1>5, <1>6 DEF w

-----------------------------------------------------------------------------
(* Decoding in pieces.                                                     *)

Text(ids) == Spaced(Lossy(FlattenSeq(ids)))

Stripped(text) == IF strips /\ text # <<>> /\ Head(text) = "sp" THEN Tail(text) ELSE text

\* Decode strips the spaced text.
LEMMA DecodeIsStripped == \A ids : Decode(ids) = Stripped(Text(ids))
BY DEF Decode, Text, Stripped

\* Spacing keeps the length and replaces the mark alone.
LEMMA SpacedType ==
  ASSUME NEW text \in Seq(Chars)
  PROVE  /\ Spaced(text) \in Seq(Chars) /\ Len(Spaced(text)) = Len(text)
         /\ \A k \in 1 .. Len(text) : Spaced(text)[k] = IF text[k] = "mark" THEN "sp" ELSE text[k]
<1>1. Len(text) \in Nat /\ DOMAIN text = 1 .. Len(text) /\ \A k \in 1 .. Len(text) : text[k] \in Chars
  BY LenProperties, ElementOfSeq
<1>2. "sp" \in Chars
  BY DEF Chars
<1>3. Spaced(text) \in [1 .. Len(text) -> Chars]
  BY <1>1, <1>2 DEF Spaced
<1> QED
  BY <1>1, <1>3 DEF Spaced

\* Spacing distributes over concatenation.
LEMMA SpacedConcat ==
  ASSUME NEW s \in Seq(Chars), NEW t \in Seq(Chars)
  PROVE  Spaced(s \o t) = Spaced(s) \o Spaced(t)
<1>1. Len(s) \in Nat /\ Len(t) \in Nat
  BY LenProperties
<1>2. /\ s \o t \in Seq(Chars) /\ Len(s \o t) = Len(s) + Len(t)
      /\ \A k \in 1 .. Len(s) + Len(t) : (s \o t)[k] = IF k <= Len(s) THEN s[k] ELSE t[k - Len(s)]
  BY ConcatProperties
<1>3. /\ Spaced(s \o t) \in Seq(Chars) /\ Len(Spaced(s \o t)) = Len(s) + Len(t)
      /\ \A k \in 1 .. Len(s) + Len(t) :
           Spaced(s \o t)[k] = IF (s \o t)[k] = "mark" THEN "sp" ELSE (s \o t)[k]
  BY <1>2, SpacedType
<1>4. /\ Spaced(s) \in Seq(Chars) /\ Len(Spaced(s)) = Len(s)
      /\ Spaced(t) \in Seq(Chars) /\ Len(Spaced(t)) = Len(t)
      /\ \A k \in 1 .. Len(s) : Spaced(s)[k] = IF s[k] = "mark" THEN "sp" ELSE s[k]
      /\ \A k \in 1 .. Len(t) : Spaced(t)[k] = IF t[k] = "mark" THEN "sp" ELSE t[k]
  BY SpacedType
<1> DEFINE x == Spaced(s)
<1> DEFINE y == Spaced(t)
<1>5. /\ x \o y \in Seq(Chars) /\ Len(x \o y) = Len(s) + Len(t)
      /\ \A k \in 1 .. Len(s) + Len(t) : (x \o y)[k] = IF k <= Len(s) THEN x[k] ELSE y[k - Len(s)]
  <2>1. x \in Seq(Chars) /\ y \in Seq(Chars) /\ Len(x) = Len(s) /\ Len(y) = Len(t)
    BY <1>4
  <2> HIDE DEF x, y
  <2>2. /\ x \o y \in Seq(Chars) /\ Len(x \o y) = Len(x) + Len(y)
        /\ \A k \in 1 .. Len(x) + Len(y) : (x \o y)[k] = IF k <= Len(x) THEN x[k] ELSE y[k - Len(x)]
    BY <2>1, ConcatProperties, Zenon
  <2> QED
    BY <2>1, <2>2
<1>6. ASSUME NEW k \in 1 .. Len(s) + Len(t) PROVE Spaced(s \o t)[k] = (x \o y)[k]
  <2>1. CASE k <= Len(s)
    BY <1>1, <1>2, <1>3, <1>4, <1>5, <2>1
  <2>2. CASE ~ (k <= Len(s))
    <3>1. k - Len(s) \in 1 .. Len(t)
      BY <1>1, <2>2
    <3> QED
      BY <1>2, <1>3, <1>4, <1>5, <2>2, <3>1
  <2> QED
    BY <2>1, <2>2
<1>7. Spaced(s \o t) = x \o y
  <2> HIDE DEF x, y
  <2> QED
    BY <1>3, <1>5, <1>6, SeqEqual
<1> QED
  BY <1>7

\* Tokens are byte sequences.
LEMMA TokenBytes ==
  ASSUME NEW ids \in Seq(Pieces)
  PROVE  ids \in Seq(Seq(Chars)) /\ FlattenSeq(ids) \in Seq(Chars)
<1>1. Pieces \subseteq Seq(Chars)
  <2>1. ASSUME NEW piece \in Pieces PROVE piece \in Seq(Chars)
    <3>1. piece \in Seq(STRING) /\ STRING \subseteq Chars
      BY StreamAssumption DEF Chars
    <3>2. Len(piece) \in Nat /\ piece \in [1 .. Len(piece) -> STRING]
      BY <3>1, LenProperties
    <3>3. piece \in [1 .. Len(piece) -> Chars]
      BY <3>1, <3>2
    <3> QED
      BY <3>2, <3>3
  <2> QED
    BY <2>1
<1>2. ids \in Seq(Seq(Chars))
  BY <1>1
<1> QED
  BY <1>2, FlattenType

\* The text of tokens is a sequence of characters.
LEMMA TextType ==
  ASSUME NEW ids \in Seq(Pieces)
  PROVE  Text(ids) \in Seq(Chars)
BY TokenBytes, LossyType, SpacedType DEF Text

\* Tokens whose bytes end with a whole character decode by themselves.
LEMMA TextSplit ==
  ASSUME NEW a \in Seq(Pieces), NEW b \in Seq(Pieces), Unbroken(FlattenSeq(a))
  PROVE  Text(a \o b) = Text(a) \o Text(b)
<1> DEFINE x == FlattenSeq(a)
<1> DEFINE y == FlattenSeq(b)
<1>1. x \in Seq(Chars) /\ y \in Seq(Chars) /\ FlattenSeq(a \o b) = x \o y
  BY TokenBytes, FlattenConcat
<1>2. Unbroken(x)
  OBVIOUS
<1>3. Text(a) = Spaced(Lossy(x)) /\ Text(b) = Spaced(Lossy(y)) /\ Text(a \o b) = Spaced(Lossy(x \o y))
  BY <1>1 DEF Text
<1> HIDE DEF x, y
<1>4. Lossy(x \o y) = Lossy(x) \o Lossy(y) /\ Lossy(x) \in Seq(Chars) /\ Lossy(y) \in Seq(Chars)
  BY <1>1, <1>2, LossySplit, LossyType
<1>5. Spaced(Lossy(x) \o Lossy(y)) = Spaced(Lossy(x)) \o Spaced(Lossy(y))
  BY <1>4, SpacedConcat
<1> QED
  BY <1>3, <1>4, <1>5, Zenon

\* Stripping looks at the first character alone.
LEMMA StrippedConcat ==
  ASSUME NEW s \in Seq(Chars), NEW t \in Seq(Chars)
  PROVE  /\ Stripped(s) \in Seq(Chars)
         /\ s # <<>> => Stripped(s \o t) = Stripped(s) \o t
<1>1. Stripped(s) \in Seq(Chars)
  BY HeadTailProperties DEF Stripped
<1>2. ASSUME s # <<>> PROVE Stripped(s \o t) = Stripped(s) \o t
  <2>1. Len(s) \in Nat \ {0} /\ Len(t) \in Nat
    BY <1>2, EmptySeq, LenProperties
  <2>2. /\ s \o t \in Seq(Chars) /\ Len(s \o t) = Len(s) + Len(t)
        /\ \A k \in 1 .. Len(s) + Len(t) : (s \o t)[k] = IF k <= Len(s) THEN s[k] ELSE t[k - Len(s)]
    BY ConcatProperties
  <2>3. s \o t # <<>> /\ Head(s \o t) = Head(s)
    BY <2>1, <2>2, EmptySeq
  <2>4. Tail(s \o t) = Tail(s) \o t
    <3>1. /\ Tail(s) \in Seq(Chars) /\ Len(Tail(s)) = Len(s) - 1
          /\ \A k \in 1 .. Len(s) - 1 : Tail(s)[k] = s[k + 1]
      BY <1>2, HeadTailProperties
    <3>2. /\ Tail(s \o t) \in Seq(Chars) /\ Len(Tail(s \o t)) = Len(s) + Len(t) - 1
          /\ \A k \in 1 .. Len(s) + Len(t) - 1 : Tail(s \o t)[k] = (s \o t)[k + 1]
      BY <2>2, <2>3, HeadTailProperties
    <3>3. /\ Tail(s) \o t \in Seq(Chars) /\ Len(Tail(s) \o t) = Len(s) - 1 + Len(t)
          /\ \A k \in 1 .. Len(s) - 1 + Len(t) :
               (Tail(s) \o t)[k] = IF k <= Len(s) - 1 THEN Tail(s)[k] ELSE t[k - (Len(s) - 1)]
      BY <3>1, ConcatProperties
    <3>4. ASSUME NEW k \in 1 .. Len(s) + Len(t) - 1 PROVE Tail(s \o t)[k] = (Tail(s) \o t)[k]
      <4>1. Tail(s \o t)[k] = IF k + 1 <= Len(s) THEN s[k + 1] ELSE t[k + 1 - Len(s)]
        BY <2>1, <2>2, <3>2
      <4>2. k + 1 <= Len(s) => Tail(s)[k] = s[k + 1]
        BY <2>1, <3>1
      <4>3. k + 1 - Len(s) = k - (Len(s) - 1) /\ (k + 1 <= Len(s) <=> k <= Len(s) - 1)
        BY <2>1
      <4> QED
        BY <2>1, <3>3, <4>1, <4>2, <4>3
    <3> QED
      BY <2>1, <3>2, <3>3, <3>4, SeqEqual
  <2> QED
    BY <1>2, <2>3, <2>4 DEF Stripped
<1> QED
  BY <1>1, <1>2

\* Decoding yields characters.
LEMMA DecodeType ==
  ASSUME NEW ids \in Seq(Pieces)
  PROVE  Decode(ids) \in Seq(Chars)
BY TextType, StrippedConcat, DecodeIsStripped

\* What is left of a text after one of its prefixes.
LEMMA UnemittedRest ==
  ASSUME NEW S, NEW s \in Seq(S), NEW t \in Seq(S)
  PROVE  Unemitted(s \o t, s) = t /\ IsPrefix(s, s \o t)
<1>1. Len(s) \in Nat /\ Len(t) \in Nat
  BY LenProperties
<1>2. /\ s \o t \in Seq(S) /\ Len(s \o t) = Len(s) + Len(t)
      /\ \A k \in 1 .. Len(s) + Len(t) : (s \o t)[k] = IF k <= Len(s) THEN s[k] ELSE t[k - Len(s)]
  BY ConcatProperties
<1>3. \A k \in Len(s) + 1 .. Len(s) + Len(t) : (s \o t)[k] \in S
  BY <1>1, <1>2, ElementOfSeq
<1> DEFINE u == SubSeq(s \o t, Len(s) + 1, Len(s) + Len(t))
<1>4. /\ u \in Seq(S) /\ Len(u) = Len(t)
      /\ \A k \in 1 .. Len(t) : u[k] = (s \o t)[Len(s) + 1 + k - 1]
  BY <1>1, <1>3, SubSeqProperties
<1>5. \A k \in 1 .. Len(t) : u[k] = t[k]
  BY <1>1, <1>2, <1>4
<1>6. u = t
  <2> HIDE DEF u
  <2> QED
    BY <1>4, <1>5, SeqEqual
<1>7. SubSeq(s \o t, 1, Len(s)) = s /\ SubSeq(s, 1, Len(s)) = s
  BY <1>1, PrefixOfConcat, SubSeqFull
<1> QED
  BY <1>1, <1>2, <1>6, <1>7 DEF Unemitted, IsPrefix

\* The step from a window to the whole: what the window adds to the overlap is
\* what the new tokens add to everything before them.
LEMMA WindowIsExact ==
  ASSUME NEW older \in Seq(Pieces), NEW over \in Seq(Pieces), NEW ids \in Seq(Pieces),
         Unbroken(FlattenSeq(older)), Unbroken(FlattenSeq(over)),
         Text(over) = <<>> => Text(older) = <<>>
  PROVE  LET more == Unemitted(Decode(over \o ids), Decode(over))
         IN /\ more \in Seq(Chars)
            /\ IsPrefix(Decode(over), Decode(over \o ids))
            /\ Decode(over \o ids) = Decode(over) \o more
            /\ Decode((older \o over) \o ids) = Decode(older \o over) \o more
<1> DEFINE t == Text(ids)
<1>1. /\ t \in Seq(Chars) /\ Text(over) \in Seq(Chars) /\ Text(older) \in Seq(Chars)
      /\ Text(over \o ids) = Text(over) \o t
      /\ Text(older \o over) = Text(older) \o Text(over)
  BY TextType, TextSplit
<1>2. older \o over \in Seq(Pieces) /\ Unbroken(FlattenSeq(older \o over))
  <2>1. older \o over \in Seq(Pieces)
    BY ConcatProperties
  <2>2. /\ older \in Seq(Seq(Chars)) /\ over \in Seq(Seq(Chars))
        /\ FlattenSeq(older) \in Seq(Chars) /\ FlattenSeq(over) \in Seq(Chars)
    BY TokenBytes
  <2>3. FlattenSeq(older \o over) = FlattenSeq(older) \o FlattenSeq(over)
    BY <2>2, FlattenConcat
  <2> QED
    BY <2>1, <2>2, <2>3, UnbrokenParts
<1>3. Text((older \o over) \o ids) = Text(older \o over) \o t /\ Text(older \o over) \in Seq(Chars)
  BY <1>2, TextSplit, TextType
<1> DEFINE before == Decode(over)
<1> DEFINE all == Decode(older \o over)
<1>4. before \in Seq(Chars) /\ all \in Seq(Chars)
  BY <1>2, DecodeType
<1>5. PICK more \in Seq(Chars) : /\ Decode(over \o ids) = before \o more
                                 /\ Decode((older \o over) \o ids) = all \o more
  <2>1. CASE Text(over) = <<>>
    <3>1. Text(older) = <<>> /\ Text(older \o over) = <<>>
      BY <1>1, <2>1, ConcatEmptySeq
    <3>2. before = <<>> /\ all = <<>>
      BY <2>1, <3>1, DecodeIsStripped DEF Stripped
    <3>3. <<>> \o t = t
      BY <1>1, ConcatEmptySeq
    <3>4. Decode(over \o ids) = Stripped(t) /\ Decode((older \o over) \o ids) = Stripped(t)
      BY <1>1, <1>3, <2>1, <3>1, <3>3, DecodeIsStripped
    <3>5. Stripped(t) \in Seq(Chars)
      BY <1>1, StrippedConcat
    <3>6. <<>> \o Stripped(t) = Stripped(t)
      BY <3>5, ConcatEmptySeq
    <3> QED
      BY <3>2, <3>4, <3>5, <3>6
  <2>2. CASE Text(over) # <<>>
    <3>1. Text(older \o over) # <<>>
      BY <1>1, <2>2, ConcatEqualIffEmpty
    <3>2. /\ Stripped(Text(over) \o t) = Stripped(Text(over)) \o t
          /\ Stripped(Text(older \o over) \o t) = Stripped(Text(older \o over)) \o t
      BY <1>1, <1>3, <2>2, <3>1, StrippedConcat
    <3>3. Decode(over \o ids) = before \o t /\ Decode((older \o over) \o ids) = all \o t
      BY <1>1, <1>3, <3>2, DecodeIsStripped
    <3> QED
      BY <1>1, <3>3
  <2> QED
    BY <2>1, <2>2
<1>6. Unemitted(before \o more, before) = more /\ IsPrefix(before, before \o more)
  <2> HIDE DEF before
  <2> QED
    BY <1>4, UnemittedRest
<1> QED
  BY <1>4, <1>5, <1>6

-----------------------------------------------------------------------------
(* Ends of texts and their length in bytes.                                *)

Suffix(s, k) == SubSeq(s, k + 1, Len(s))

\* A suffix is a sequence of the rest.
LEMMA SuffixType ==
  ASSUME NEW S, NEW s \in Seq(S), NEW k \in 0 .. Len(s)
  PROVE  /\ Suffix(s, k) \in Seq(S) /\ Len(Suffix(s, k)) = Len(s) - k
         /\ \A j \in 1 .. Len(s) - k : Suffix(s, k)[j] = s[k + j]
<1>1. Len(s) \in Nat /\ \A j \in k + 1 .. Len(s) : s[j] \in S
  BY LenProperties, ElementOfSeq
<1>2. /\ SubSeq(s, k + 1, Len(s)) \in Seq(S)
      /\ Len(SubSeq(s, k + 1, Len(s))) = IF k + 1 <= Len(s) THEN Len(s) - (k + 1) + 1 ELSE 0
      /\ \A j \in 1 .. Len(s) - (k + 1) + 1 : SubSeq(s, k + 1, Len(s))[j] = s[k + 1 + j - 1]
  BY <1>1, SubSeqProperties
<1> QED
  BY <1>1, <1>2 DEF Suffix

\* Appending to a text appends to its suffixes.
LEMMA SuffixConcat ==
  ASSUME NEW S, NEW s \in Seq(S), NEW t \in Seq(S), NEW k \in 0 .. Len(s)
  PROVE  Suffix(s \o t, k) = Suffix(s, k) \o t
<1>1. Len(s) \in Nat /\ Len(t) \in Nat
  BY LenProperties
<1>2. /\ s \o t \in Seq(S) /\ Len(s \o t) = Len(s) + Len(t)
      /\ \A j \in 1 .. Len(s) + Len(t) : (s \o t)[j] = IF j <= Len(s) THEN s[j] ELSE t[j - Len(s)]
  BY ConcatProperties
<1>3. k \in 0 .. Len(s \o t)
  BY <1>1, <1>2
<1> DEFINE u == Suffix(s, k)
<1> DEFINE w == s \o t
<1> DEFINE v == Suffix(w, k)
<1>4. /\ u \in Seq(S) /\ Len(u) = Len(s) - k
      /\ \A j \in 1 .. Len(s) - k : u[j] = s[k + j]
  BY SuffixType
<1>5. /\ v \in Seq(S) /\ Len(v) = Len(s) + Len(t) - k
      /\ \A j \in 1 .. Len(s) + Len(t) - k : v[j] = w[k + j]
  <2>1. w \in Seq(S) /\ k \in 0 .. Len(w) /\ Len(w) = Len(s) + Len(t)
    BY <1>2, <1>3
  <2> HIDE DEF w
  <2>2. /\ v \in Seq(S) /\ Len(v) = Len(w) - k
        /\ \A j \in 1 .. Len(w) - k : v[j] = w[k + j]
    BY <2>1, SuffixType
  <2> QED
    BY <2>1, <2>2
<1> HIDE DEF u, v
<1>6. /\ u \o t \in Seq(S) /\ Len(u \o t) = Len(u) + Len(t)
      /\ \A j \in 1 .. Len(u) + Len(t) : (u \o t)[j] = IF j <= Len(u) THEN u[j] ELSE t[j - Len(u)]
  BY <1>4, ConcatProperties
<1>7. ASSUME NEW j \in 1 .. Len(v) PROVE v[j] = (u \o t)[j]
  <2>1. /\ v[j] = IF k + j <= Len(s) THEN s[k + j] ELSE t[k + j - Len(s)]
        /\ (u \o t)[j] = IF j <= Len(s) - k THEN u[j] ELSE t[j - (Len(s) - k)]
    <3>1. k + j \in 1 .. Len(s) + Len(t) /\ j \in 1 .. Len(u) + Len(t)
      BY <1>1, <1>4, <1>5
    <3> QED
      BY <1>2, <1>4, <1>5, <1>6, <3>1
  <2>2. (k + j <= Len(s) <=> j <= Len(s) - k) /\ k + j - Len(s) = j - (Len(s) - k)
    BY <1>1, <1>5
  <2>3. j <= Len(s) - k => u[j] = s[k + j]
    BY <1>4
  <2> QED
    BY <2>1, <2>2, <2>3
<1>8. Len(v) = Len(u \o t)
  BY <1>1, <1>4, <1>5, <1>6
<1>9. v = u \o t
  BY <1>5, <1>6, <1>7, <1>8, SeqEqual
<1> QED
  BY <1>9 DEF u, v

\* A suffix of a suffix is a suffix.
LEMMA SuffixOfSuffix ==
  ASSUME NEW S, NEW s \in Seq(S), NEW k \in 0 .. Len(s), NEW m \in 0 .. Len(s) - k
  PROVE  Suffix(Suffix(s, k), m) = Suffix(s, k + m)
<1> DEFINE both == k + m
<1>1. Len(s) \in Nat /\ k \in Nat /\ m \in Nat /\ both \in 0 .. Len(s) /\ both = k + m
  BY LenProperties
<1> HIDE DEF both
<1> DEFINE u == Suffix(s, k)
<1>2. /\ u \in Seq(S) /\ Len(u) = Len(s) - k
      /\ \A j \in 1 .. Len(s) - k : u[j] = s[k + j]
  BY SuffixType
<1> HIDE DEF u
<1>3. /\ Suffix(u, m) \in Seq(S) /\ Len(Suffix(u, m)) = Len(u) - m
      /\ \A j \in 1 .. Len(u) - m : Suffix(u, m)[j] = u[m + j]
  <2>1. m \in 0 .. Len(u)
    BY <1>1, <1>2
  <2> QED
    BY <1>2, <2>1, SuffixType
<1>4. /\ Suffix(s, both) \in Seq(S) /\ Len(Suffix(s, both)) = Len(s) - both
      /\ \A j \in 1 .. Len(s) - both : Suffix(s, both)[j] = s[both + j]
  BY <1>1, SuffixType
<1>5. Len(Suffix(u, m)) = Len(Suffix(s, both))
  <2>1. Len(u) = Len(s) - k
    BY <1>2
  <2>2. Len(u) - m = Len(s) - both
    BY <1>1, <2>1
  <2>3. Len(Suffix(u, m)) = Len(u) - m /\ Len(Suffix(s, both)) = Len(s) - both
    BY <1>3, <1>4
  <2> QED
    BY <2>2, <2>3, Zenon
<1>6. ASSUME NEW j \in 1 .. Len(Suffix(u, m)) PROVE Suffix(u, m)[j] = Suffix(s, both)[j]
  <2>1. m + j \in 1 .. Len(s) - k /\ k + (m + j) = both + j
    BY <1>1, <1>2, <1>3
  <2>2. u[m + j] = s[both + j]
    BY <1>2, <2>1
  <2> QED
    BY <1>2, <1>3, <1>4, <1>5, <2>2
<1>7. Suffix(u, m) = Suffix(s, both)
  BY <1>3, <1>4, <1>5, <1>6, SeqEqual
<1> QED
  BY <1>7 DEF u, both

\* The characters of more than one byte.
Broad(text) == {k \in DOMAIN text : text[k] \in {"x", "?"}}

\* The length in bytes: two bytes more for every broad character.
LEMMA BytesType ==
  ASSUME NEW text \in Seq(Chars)
  PROVE  /\ Bytes(text) \in Nat /\ IsFiniteSet(Broad(text)) /\ Cardinality(Broad(text)) \in Nat
         /\ Bytes(text) = Len(text) + 2 * Cardinality(Broad(text))
<1>1. Len(text) \in Nat /\ DOMAIN text = 1 .. Len(text)
  BY LenProperties
<1>2. IsFiniteSet(1 .. Len(text)) /\ Broad(text) \in SUBSET (1 .. Len(text))
  BY <1>1, FS_Interval DEF Broad
<1>3. IsFiniteSet(Broad(text)) /\ Cardinality(Broad(text)) \in Nat
  BY <1>2, FS_Subset, FS_CardinalityType
<1>4. Bytes(text) = Len(text) + 2 * Cardinality(Broad(text))
  BY DEF Bytes, Broad
<1> QED
  BY <1>1, <1>3, <1>4

\* The empty text has no bytes.
LEMMA EmptyBytes == Bytes(<<>>) = 0
<1>1. {k \in DOMAIN <<>> : <<>>[k] \in {"x", "?"}} = {}
  OBVIOUS
<1>2. Bytes(<<>>) = Len(<<>>) + 2 * Cardinality({})
  BY <1>1 DEF Bytes
<1>3. Len(<<>>) = 0
  OBVIOUS
<1> QED
  BY <1>2, <1>3, FS_EmptySet

\* Every character left off makes a text shorter in bytes.
LEMMA BytesOfPrefix ==
  ASSUME NEW text \in Seq(Chars), NEW m \in 0 .. Len(text)
  PROVE  Bytes(SubSeq(text, 1, m)) + (Len(text) - m) <= Bytes(text)
<1> DEFINE u == SubSeq(text, 1, m)
<1>1. /\ u \in Seq(Chars) /\ Len(u) = m /\ \A k \in 1 .. m : u[k] = text[k]
      /\ Len(text) \in Nat
  BY PrefixType, LenProperties
<1> HIDE DEF u
<1>2. DOMAIN u = 1 .. m /\ DOMAIN text = 1 .. Len(text)
  BY <1>1, LenProperties
<1>3. Broad(u) \in SUBSET Broad(text)
  BY <1>1, <1>2 DEF Broad
<1>4. IsFiniteSet(Broad(text))
  BY BytesType
<1>5. Cardinality(Broad(u)) <= Cardinality(Broad(text))
  BY <1>3, <1>4, FS_Subset
<1>6. /\ Cardinality(Broad(u)) \in Nat /\ Bytes(u) = m + 2 * Cardinality(Broad(u))
      /\ Cardinality(Broad(text)) \in Nat /\ Bytes(text) = Len(text) + 2 * Cardinality(Broad(text))
  BY <1>1, BytesType
<1>7. Bytes(u) + (Len(text) - m) <= Bytes(text)
  BY <1>1, <1>5, <1>6
<1> QED
  BY <1>7 DEF u

\* So does every character left off at the front.
LEMMA BytesOfSuffix ==
  ASSUME NEW text \in Seq(Chars), NEW m \in 0 .. Len(text)
  PROVE  Bytes(Suffix(text, m)) + m <= Bytes(text)
<1> DEFINE u == Suffix(text, m)
<1>1. /\ u \in Seq(Chars) /\ Len(u) = Len(text) - m /\ \A k \in 1 .. Len(text) - m : u[k] = text[m + k]
      /\ Len(text) \in Nat
  BY SuffixType, LenProperties
<1> HIDE DEF u
<1>2. DOMAIN u = 1 .. Len(text) - m /\ DOMAIN text = 1 .. Len(text)
  BY <1>1, LenProperties
<1>3. ASSUME NEW k \in Broad(u) PROVE m + k \in Broad(text)
  BY <1>1, <1>2 DEF Broad
<1> DEFINE f == [k \in Broad(u) |-> m + k]
<1>4. Broad(u) \subseteq Nat
  BY <1>1, <1>2 DEF Broad
<1>5. f \in Injection(Broad(u), Broad(text))
  <2>1. f \in [Broad(u) -> Broad(text)]
    BY <1>3
  <2>2. \A a, b \in Broad(u) : f[a] = f[b] => a = b
    BY <1>4
  <2> QED
    BY <2>1, <2>2 DEF Injection, IsInjective
<1>6. IsFiniteSet(Broad(text))
  BY BytesType
<1>7. Cardinality(Broad(u)) <= Cardinality(Broad(text))
  <2> HIDE DEF f
  <2> QED
    BY <1>5, <1>6, FS_Injection
<1>8. /\ Cardinality(Broad(u)) \in Nat /\ Bytes(u) = Len(text) - m + 2 * Cardinality(Broad(u))
      /\ Cardinality(Broad(text)) \in Nat /\ Bytes(text) = Len(text) + 2 * Cardinality(Broad(text))
  BY <1>1, BytesType
<1>9. Bytes(u) + m <= Bytes(text)
  BY <1>1, <1>7, <1>8
<1> QED
  BY <1>9 DEF u

\* A function with values in Nat is bounded on a finite set.
LEMMA FiniteBound ==
  ASSUME NEW S, IsFiniteSet(S), NEW f \in [S -> Nat]
  PROVE  \E bound \in Nat : \A x \in S : f[x] <= bound
<1> DEFINE extent == Cardinality(S)
<1>1. extent \in Nat /\ ExistsBijection(1 .. extent, S)
  BY FS_CardinalityType
<1>2. PICK g \in Bijection(1 .. extent, S) : TRUE
  BY <1>1 DEF ExistsBijection
<1>3. g \in [1 .. extent -> S] /\ \A x \in S : \E k \in 1 .. extent : g[k] = x
  BY <1>2 DEF Bijection, Surjection, Injection, IsInjective
<1> HIDE DEF extent
<1>4. \A k \in 1 .. extent : f[g[k]] \in Nat
  BY <1>3
<1> DEFINE P(c) == \E bound \in Nat : \A k \in 1 .. c : f[g[k]] <= bound
<1>5. P(0)
  BY <1>4
<1>6. ASSUME NEW c \in 1 .. extent, P(c - 1) PROVE P(c)
  <2>1. PICK bound \in Nat : \A k \in 1 .. c - 1 : f[g[k]] <= bound
    BY <1>6
  <2> DEFINE last == f[g[c]]
  <2>2. last \in Nat /\ bound + last \in Nat
    BY <1>4, <2>1
  <2>3. ASSUME NEW k \in 1 .. c PROVE f[g[k]] <= bound + last
    <3>1. k = c \/ k \in 1 .. c - 1
      OBVIOUS
    <3>2. CASE k = c
      <4>1. f[g[k]] = last
        BY <3>2
      <4> HIDE DEF last
      <4> QED
        BY <2>1, <2>2, <4>1
    <3>3. CASE k \in 1 .. c - 1
      <4>1. f[g[k]] <= bound /\ f[g[k]] \in Nat
        BY <1>1, <1>4, <2>1, <3>3
      <4> HIDE DEF last
      <4> QED
        BY <2>1, <2>2, <4>1
    <3> QED
      BY <3>1, <3>2, <3>3
  <2> HIDE DEF last
  <2> QED
    BY <2>2, <2>3
<1> HIDE DEF P
<1> DEFINE B == {c \in 0 .. extent : ~ P(c)}
<1>7. B = {}
  <2> SUFFICES ASSUME B # {} PROVE FALSE
    OBVIOUS
  <2>1. PICK c \in B : \A e \in B : c <= e
    <3>1. B \subseteq Nat
      BY <1>1
    <3> HIDE DEF B
    <3> QED
      BY <3>1, LeastNatural
  <2>2. c # 0
    BY <1>5
  <2>3. c - 1 \in 0 .. extent /\ c - 1 \notin B /\ c \in 1 .. extent
    BY <1>1, <2>1, <2>2
  <2> QED
    BY <1>6, <2>1, <2>3
<1>8. P(extent)
  BY <1>1, <1>7
<1> QED
  BY <1>3, <1>8 DEF P

-----------------------------------------------------------------------------
(* The stop scan.                                                          *)

OccursAt(text, p, k) ==
  k \in 0 .. Len(text) - Len(p) /\ \A j \in 1 .. Len(p) : text[k + j] = p[j]

\* Occurring, character by character.
LEMMA OccursPoints ==
  ASSUME NEW S, NEW text \in Seq(S), NEW p \in Seq(S)
  PROVE  Occurs(text, p) <=> \E k : OccursAt(text, p, k)
<1>1. Len(text) \in Nat /\ Len(p) \in Nat
  BY LenProperties
<1>2. ASSUME NEW k \in 0 .. Len(text) - Len(p)
      PROVE  SubSeq(text, k + 1, k + Len(p)) = p <=> \A j \in 1 .. Len(p) : text[k + j] = p[j]
  <2> DEFINE u == SubSeq(text, k + 1, k + Len(p))
  <2>1. k \in Nat /\ \A j \in k + 1 .. k + Len(p) : text[j] \in S
    BY <1>1, ElementOfSeq
  <2>2. /\ u \in Seq(S)
        /\ Len(u) = IF k + 1 <= k + Len(p) THEN k + Len(p) - (k + 1) + 1 ELSE 0
        /\ \A j \in 1 .. k + Len(p) - (k + 1) + 1 : u[j] = text[k + 1 + j - 1]
    BY <1>1, <2>1, SubSeqProperties
  <2> HIDE DEF u
  <2>3. Len(u) = Len(p) /\ \A j \in 1 .. Len(p) : u[j] = text[k + j]
    BY <1>1, <2>1, <2>2
  <2>4. u = p <=> \A j \in 1 .. Len(p) : u[j] = p[j]
    BY <2>2, <2>3, SeqEqual
  <2> QED
    BY <2>3, <2>4 DEF u
<1> QED
  BY <1>2 DEF Occurs, OccursAt

\* What occurs in a text occurs in its continuations.
LEMMA OccursInPrefix ==
  ASSUME NEW S, NEW s \in Seq(S), NEW t \in Seq(S), NEW p \in Seq(S), Occurs(s, p)
  PROVE  Occurs(s \o t, p)
<1> DEFINE w == s \o t
<1>1. Len(s) \in Nat /\ Len(t) \in Nat /\ Len(p) \in Nat
  BY LenProperties
<1>2. /\ w \in Seq(S) /\ Len(w) = Len(s) + Len(t)
      /\ \A j \in 1 .. Len(s) + Len(t) : w[j] = IF j <= Len(s) THEN s[j] ELSE t[j - Len(s)]
  BY ConcatProperties
<1> HIDE DEF w
<1>3. PICK k : OccursAt(s, p, k)
  BY OccursPoints, Zenon
<1> USE <1>3 DEF OccursAt
<1>4. k \in 0 .. Len(w) - Len(p)
  BY <1>1, <1>2
<1>5. ASSUME NEW j \in 1 .. Len(p) PROVE w[k + j] = p[j]
  <2>1. k + j \in 1 .. Len(s) + Len(t) /\ k + j <= Len(s)
    BY <1>1
  <2> QED
    BY <1>2, <1>3, <2>1
<1>6. Occurs(w, p)
  BY <1>2, <1>4, <1>5, OccursPoints
<1> QED
  BY <1>6 DEF w

\* What occurs in a suffix occurs in the text.
LEMMA OccursInSuffix ==
  ASSUME NEW S, NEW s \in Seq(S), NEW m \in 0 .. Len(s), NEW p \in Seq(S), Occurs(Suffix(s, m), p)
  PROVE  Occurs(s, p)
<1> DEFINE u == Suffix(s, m)
<1>1. Len(s) \in Nat /\ Len(p) \in Nat
  BY LenProperties
<1>2. u \in Seq(S) /\ Len(u) = Len(s) - m /\ \A j \in 1 .. Len(s) - m : u[j] = s[m + j]
  BY SuffixType
<1>3. Occurs(u, p)
  OBVIOUS
<1> HIDE DEF u
<1>4. PICK k : OccursAt(u, p, k)
  BY <1>2, <1>3, OccursPoints, Zenon
<1> USE <1>4 DEF OccursAt
<1> DEFINE spot == m + k
<1>5. spot \in 0 .. Len(s) - Len(p)
  BY <1>1, <1>2
<1>6. ASSUME NEW j \in 1 .. Len(p) PROVE s[spot + j] = p[j]
  <2>1. k + j \in 1 .. Len(s) - m /\ m + (k + j) = spot + j
    BY <1>1, <1>2
  <2>2. u[k + j] = s[m + (k + j)]
    BY <1>2, <2>1
  <2> QED
    BY <1>4, <2>1, <2>2
<1> HIDE DEF spot
<1> QED
  BY <1>5, <1>6, OccursPoints

\* A text searched before can only gain an occurrence that ends in what is new;
\* it begins no further back than its length in bytes, less one.
LEMMA ScanFinds ==
  ASSUME NEW before \in Seq(Chars), NEW delta \in Seq(Chars), NEW k \in 0 .. Len(before),
         NEW keep \in Nat, k = 0 \/ Bytes(Suffix(before, k)) >= keep,
         NEW p \in Seq(Chars), Bytes(p) <= keep + 1,
         ~ Occurs(before, p), Occurs(before \o delta, p)
  PROVE  Occurs(Suffix(before, k) \o delta, p)
<1> DEFINE w == before \o delta
<1>1. Len(before) \in Nat /\ Len(delta) \in Nat /\ Len(p) \in Nat /\ k \in Nat
  BY LenProperties
<1>2. /\ w \in Seq(Chars) /\ Len(w) = Len(before) + Len(delta)
      /\ \A j \in 1 .. Len(before) : w[j] = before[j]
  <2>1. /\ w \in Seq(Chars) /\ Len(w) = Len(before) + Len(delta)
        /\ \A j \in 1 .. Len(before) + Len(delta) :
             w[j] = IF j <= Len(before) THEN before[j] ELSE delta[j - Len(before)]
    BY ConcatProperties
  <2> HIDE DEF w
  <2> QED
    BY <1>1, <2>1
<1>3. Suffix(w, k) = Suffix(before, k) \o delta
  BY SuffixConcat
<1>4. Occurs(w, p)
  OBVIOUS
<1> HIDE DEF w
<1>5. PICK place : OccursAt(w, p, place)
  BY <1>2, <1>4, OccursPoints, Zenon
<1> USE <1>5 DEF OccursAt
<1>6. k \in 0 .. Len(w)
  BY <1>1, <1>2
<1> DEFINE v == Suffix(w, k)
<1>7. v \in Seq(Chars) /\ Len(v) = Len(w) - k /\ \A j \in 1 .. Len(w) - k : v[j] = w[k + j]
  BY <1>2, <1>6, SuffixType
<1> HIDE DEF v
<1>8. place >= k
  <2> SUFFICES ASSUME place < k PROVE FALSE
    BY <1>1, <1>2
  <2>1. place \in Nat /\ place <= Len(before)
    BY <1>1, <1>2
  <2>2. place + Len(p) > Len(before)
    <3> SUFFICES ASSUME place + Len(p) <= Len(before) PROVE FALSE
      BY <1>1, <2>1
    <3>1. place \in 0 .. Len(before) - Len(p)
      BY <1>1, <2>1
    <3>2. ASSUME NEW j \in 1 .. Len(p) PROVE before[place + j] = p[j]
      <4>1. place + j \in 1 .. Len(before)
        BY <1>1, <2>1
      <4> QED
        BY <1>2, <1>5, <4>1
    <3> QED
      BY <3>1, <3>2, OccursPoints
  <2> DEFINE size == Len(before) - place
  <2> DEFINE u == Suffix(before, place)
  <2>3. size \in 0 .. Len(p) /\ size < Len(p) /\ size \in Nat /\ place \in 0 .. Len(before)
    BY <1>1, <2>1, <2>2
  <2>4. u \in Seq(Chars) /\ Len(u) = size /\ \A j \in 1 .. size : u[j] = before[place + j]
    BY <2>3, SuffixType
  <2>5. u = SubSeq(p, 1, size)
    <3>1. /\ SubSeq(p, 1, size) \in Seq(Chars) /\ Len(SubSeq(p, 1, size)) = size
          /\ \A j \in 1 .. size : SubSeq(p, 1, size)[j] = p[j]
      BY <2>3, PrefixType
    <3>2. ASSUME NEW j \in 1 .. size PROVE u[j] = p[j]
      <4>1. place + j \in 1 .. Len(before) /\ j \in 1 .. Len(p)
        BY <1>1, <2>1, <2>3
      <4> QED
        BY <1>2, <1>5, <2>4, <4>1
    <3> HIDE DEF u, size
    <3> QED
      BY <2>4, <3>1, <3>2, SeqEqual
  <2>6. Bytes(u) + (Len(p) - size) <= Bytes(p)
    <3> HIDE DEF u, size
    <3> QED
      BY <2>3, <2>5, BytesOfPrefix
  <2> DEFINE m == k - place
  <2>7. m \in 0 .. Len(before) - place /\ place + m = k /\ m > 0
    BY <1>1, <2>1
  <2>8. Suffix(u, m) = Suffix(before, k)
    <3>1. Suffix(Suffix(before, place), m) = Suffix(before, place + m)
      <4> HIDE DEF m
      <4> QED
        BY <2>3, <2>7, SuffixOfSuffix
    <3> QED
      BY <2>7, <3>1
  <2>9. Bytes(Suffix(u, m)) + m <= Bytes(u)
    <3>1. m \in 0 .. Len(u)
      BY <2>4, <2>7
    <3> HIDE DEF m, u
    <3> QED
      BY <2>4, <3>1, BytesOfSuffix
  <2>10. Bytes(u) \in Nat /\ Bytes(p) \in Nat /\ Bytes(Suffix(before, k)) \in Nat
    <3>1. Suffix(before, k) \in Seq(Chars)
      BY SuffixType
    <3> HIDE DEF u
    <3> QED
      BY <2>4, <3>1, BytesType
  <2>11. Bytes(Suffix(before, k)) >= keep
    BY <1>1, <2>1
  <2> DEFINE x == Bytes(u)
  <2> DEFINE y == Bytes(Suffix(before, k))
  <2>12. /\ x \in Nat /\ y \in Nat /\ Bytes(p) \in Nat /\ m \in Nat /\ m > 0
         /\ x + (Len(p) - size) <= Bytes(p) /\ y + m <= x /\ y >= keep /\ Bytes(p) <= keep + 1
    BY <2>6, <2>7, <2>8, <2>9, <2>10, <2>11
  <2> HIDE DEF x, y, m, size
  <2> QED
    BY <1>1, <2>3, <2>12
<1> DEFINE spot == place - k
<1>9. spot \in 0 .. Len(v) - Len(p)
  BY <1>1, <1>2, <1>7, <1>8
<1>10. ASSUME NEW j \in 1 .. Len(p) PROVE v[spot + j] = p[j]
  <2>1. spot + j \in 1 .. Len(w) - k /\ k + (spot + j) = place + j
    BY <1>1, <1>2, <1>8
  <2>2. v[spot + j] = w[k + (spot + j)]
    <3> HIDE DEF spot
    <3> QED
      BY <1>7, <2>1
  <2> QED
    BY <1>5, <2>1, <2>2
<1> HIDE DEF spot
<1>11. Occurs(v, p)
  BY <1>7, <1>9, <1>10, OccursPoints
<1> QED
  BY <1>3, <1>11 DEF v

\* Trimming leaves a suffix of enough bytes, or the whole text.
LEMMA TrimmedIsSuffix ==
  ASSUME NEW text \in Seq(Chars), NEW keep \in Nat
  PROVE  \E k \in 0 .. Len(text) : /\ Trimmed(text, keep) = Suffix(text, k)
                                   /\ k = 0 \/ Bytes(Suffix(text, k)) >= keep
<1> DEFINE enough == {k \in 0 .. Len(text) : k = 0 \/ Bytes(SubSeq(text, k + 1, Len(text))) >= keep}
<1>1. Len(text) \in Nat
  BY LenProperties
<1>2. 0 \in enough /\ enough \subseteq 0 .. Len(text)
  BY <1>1
<1> DEFINE cut == CHOOSE k \in enough : \A j \in enough : j <= k
<1>3. cut \in enough
  <2> HIDE DEF enough
  <2>1. \E k \in enough : \A j \in enough : j <= k
    BY <1>1, <1>2, GreatestNatural
  <2> QED
    BY <2>1
<1>4. Trimmed(text, keep) = SubSeq(text, cut + 1, Len(text))
  BY DEF Trimmed
<1> HIDE DEF cut
<1>5. cut \in 0 .. Len(text) /\ (cut = 0 \/ Bytes(SubSeq(text, cut + 1, Len(text))) >= keep)
  BY <1>3
<1> QED
  BY <1>4, <1>5 DEF Suffix

-----------------------------------------------------------------------------
(* The turn.                                                               *)

StreamTypes ==
  /\ stops \in StopSets /\ strips \in BOOLEAN
  /\ taken \in Seq(Pieces) /\ overlap \in Seq(Pieces) /\ held \in Seq(Pieces)
  /\ phase \in {"open", "hit", "finished"}

\* The decoder's window stands at a cut between characters, and the tokens
\* before it leave a trace in the text only if the window's first ones do.
Anchored(older) ==
  /\ taken = (older \o overlap) \o held
  /\ Unbroken(FlattenSeq(older)) /\ Unbroken(FlattenSeq(overlap))
  /\ Text(overlap) = <<>> => Text(older) = <<>>
  /\ acc = Decode(older \o overlap)
  /\ prefix_text = Decode(overlap)
  /\ window_text = Decode(overlap \o held)

\* The scan retains the end of the text, or all of it.
Scanned == stops # {} => \E k \in 0 .. Len(acc) : /\ tail = Suffix(acc, k)
                                                  /\ k = 0 \/ Bytes(Suffix(acc, k)) >= Keep

StreamInv ==
  /\ StreamTypes
  /\ StreamExact
  /\ phase # "finished" => (\E older \in Seq(Pieces) : Anchored(older)) /\ Scanned

\* No tokens decode to nothing.
LEMMA EmptyText == Text(<<>>) = <<>> /\ Decode(<<>>) = <<>> /\ Unbroken(<<>>)
<1>1. Spelt(<<>>) = <<>>
  <2>1. <<>> \in Seq(Chars) /\ Len(<<>>) = 0
    BY EmptySeq
  <2>2. Spelt(<<>>) \in Seq(Seq(Chars)) /\ Len(Spelt(<<>>)) = 0
    BY <2>1, SpeltType
  <2> QED
    BY <2>2, EmptySeq
<1>2. Lossy(<<>>) = <<>>
  BY <1>1, FlattenEmpty DEF Lossy, Spelt
<1>3. Spaced(<<>>) = <<>>
  BY DEF Spaced
<1>4. Text(<<>>) = <<>>
  BY <1>2, <1>3, FlattenEmpty DEF Text
<1> QED
  BY <1>4, DecodeIsStripped DEF Stripped, Unbroken

\* A turn starts in the invariant.
LEMMA StreamStart == StreamInit(StopSets, BOOLEAN) => StreamInv
<1> SUFFICES ASSUME StreamInit(StopSets, BOOLEAN) PROVE StreamInv
  OBVIOUS
<1> USE DEF StreamInit
<1>1. StreamTypes
  BY DEF StreamTypes
<1>2. <<>> \o <<>> = <<>>
  OBVIOUS
<1>3. Anchored(<<>>) /\ <<>> \in Seq(Pieces)
  BY <1>2, EmptyText, FlattenEmpty DEF Anchored
<1>4. Scanned
  BY DEF Scanned, Suffix
<1>5. StreamExact
  <2>1. Unemitted(<<>>, <<>>) = <<>> /\ IsPrefix(<<>>, <<>>)
    BY DEF Unemitted, IsPrefix
  <2>2. ~ Asked(<<>>)
    <3>1. ASSUME NEW p \in stops, p # <<>> PROVE ~ Occurs(<<>>, p)
      <4>1. p \in Seq(STRING)
        BY StreamAssumption
      <4>2. Len(p) \in Nat \ {0}
        BY <3>1, <4>1, EmptySeq
      <4> QED
        BY <4>2 DEF Occurs
    <3> QED
      BY <3>1, EmptyText DEF Asked
  <2> QED
    BY <1>2, <2>1, <2>2, EmptyText DEF StreamExact
<1> QED
  BY <1>1, <1>3, <1>4, <1>5 DEF StreamInv

\* No stop string is longer than what the scan retains and one byte.
LEMMA StopTexts ==
  ASSUME stops \in StopSets
  PROVE  /\ stops \subseteq Seq(Chars)
         /\ Keep \in Nat
         /\ \A p \in stops : Bytes(p) <= Keep + 1
<1>1. IsFiniteSet(stops) /\ stops \subseteq Seq(STRING)
  BY StreamAssumption
<1>2. stops \subseteq Seq(Chars)
  <2>1. ASSUME NEW p \in stops PROVE p \in Seq(Chars)
    <3>1. Len(p) \in Nat /\ p \in [1 .. Len(p) -> STRING]
      BY <1>1, LenProperties
    <3>2. p \in [1 .. Len(p) -> Chars]
      BY <3>1 DEF Chars
    <3> QED
      BY <3>1, <3>2
  <2> QED
    BY <2>1
<1> DEFINE sizes == {Bytes(p) : p \in stops} \cup {1}
<1> DEFINE f == [p \in stops |-> Bytes(p)]
<1>3. f \in [stops -> Nat]
  BY <1>2, BytesType
<1>4. PICK bound \in Nat : \A p \in stops : f[p] <= bound
  <2> HIDE DEF f
  <2> QED
    BY <1>1, <1>3, FiniteBound
<1>5. /\ \A p \in stops : Bytes(p) \in Nat /\ Bytes(p) <= bound
  BY <1>2, <1>4, BytesType
<1>6. sizes # {} /\ sizes \subseteq 0 .. bound + 1 /\ 1 \in sizes
  BY <1>5
<1> HIDE DEF sizes
<1>7. PICK most \in sizes : \A m \in sizes : m <= most
  <2> DEFINE top == bound + 1
  <2>1. top \in Nat /\ sizes \subseteq 0 .. top
    BY <1>6
  <2> HIDE DEF top
  <2> QED
    BY <1>6, <2>1, GreatestNatural
<1>8. LongestStop = Max(sizes)
  BY DEF LongestStop, sizes
<1>9. LongestStop \in sizes /\ \A m \in sizes : LongestStop >= m
  <2>1. \A m \in sizes : most >= m
    BY <1>6, <1>7
  <2> QED
    BY <1>7, <1>8, <2>1 DEF Max
<1>10. LongestStop \in Nat /\ LongestStop >= 1 /\ Keep = LongestStop - 1
  BY <1>6, <1>9 DEF Keep
<1>11. \A p \in stops : Bytes(p) \in sizes
  BY DEF sizes
<1>12. \A p \in stops : Bytes(p) <= LongestStop
  BY <1>5, <1>9, <1>10, <1>11
<1> QED
  BY <1>2, <1>5, <1>10, <1>12

\* Feeding a token: what the window shows of it is what it adds to the text.
LEMMA FeedWindow ==
  ASSUME StreamTypes, NEW older \in Seq(Pieces), Anchored(older), NEW token \in Pieces
  PROVE  LET ids == Append(held, token)
             window == Decode(overlap \o ids)
             delta == Unemitted(window, prefix_text)
         IN /\ ids \in Seq(Pieces) /\ Append(taken, token) = (older \o overlap) \o ids
            /\ acc \in Seq(Chars) /\ window \in Seq(Chars) /\ delta \in Seq(Chars)
            /\ IsPrefix(prefix_text, window)
            /\ Decode(Append(taken, token)) = acc \o delta
            /\ ~ Holds(window) => Unbroken(FlattenSeq(ids)) /\ Text(ids) # <<>>
<1> DEFINE ids == Append(held, token)
<1> DEFINE window == Decode(overlap \o ids)
<1> DEFINE delta == Unemitted(window, prefix_text)
<1> USE DEF StreamTypes, Anchored
<1>1. ids \in Seq(Pieces)
  BY AppendProperties
<1>2. overlap \o ids \in Seq(Pieces) /\ older \o overlap \in Seq(Pieces)
  <2> HIDE DEF ids
  <2> QED
    BY <1>1, ConcatProperties
<1>3. Append(taken, token) = (older \o overlap) \o ids
  <2> DEFINE u == older \o overlap
  <2>1. u \in Seq(Pieces) /\ u \o held \in Seq(Pieces) /\ <<token>> \in Seq(Pieces)
    <3>1. u \in Seq(Pieces)
      BY <1>2
    <3> HIDE DEF u
    <3> QED
      BY <3>1, ConcatProperties
  <2>2. Append(u \o held, token) = (u \o held) \o <<token>> /\ Append(held, token) = held \o <<token>>
    <3> HIDE DEF u
    <3> QED
      BY <2>1, AppendIsConcat
  <2>3. (u \o held) \o <<token>> = u \o (held \o <<token>>)
    <3> HIDE DEF u
    <3> QED
      BY <2>1, Regrouped
  <2>4. taken = u \o held
    OBVIOUS
  <2> HIDE DEF u
  <2>5. Append(taken, token) = u \o Append(held, token)
    BY <2>2, <2>3, <2>4
  <2> QED
    BY <2>5 DEF u
<1>4. acc \in Seq(Chars) /\ window \in Seq(Chars) /\ prefix_text \in Seq(Chars)
  BY <1>2, DecodeType
<1>5. /\ delta \in Seq(Chars)
      /\ IsPrefix(prefix_text, window)
      /\ Decode((older \o overlap) \o ids) = acc \o delta
  <2> HIDE DEF ids
  <2> QED
    BY <1>1, WindowIsExact
<1>6. /\ FlattenSeq(overlap) \in Seq(Chars) /\ FlattenSeq(ids) \in Seq(Chars)
      /\ FlattenSeq(overlap \o ids) = FlattenSeq(overlap) \o FlattenSeq(ids)
      /\ Text(overlap) \in Seq(Chars) /\ Text(overlap \o ids) \in Seq(Chars) /\ Text(ids) \in Seq(Chars)
      /\ Text(overlap \o ids) = Text(overlap) \o Text(ids)
  <2> HIDE DEF ids
  <2> QED
    BY <1>1, <1>2, TokenBytes, FlattenConcat, TextType, TextSplit
<1>7. ASSUME ~ Holds(window) PROVE Unbroken(FlattenSeq(ids)) /\ Text(ids) # <<>>
  <2>1. /\ Bytes(window) \in Nat /\ Bytes(prefix_text) \in Nat /\ Bytes(window) > Bytes(prefix_text)
        /\ ~ (window # <<>> /\ Last(window) = "?")
    <3> HIDE DEF window
    <3> QED
      BY <1>4, <1>7, BytesType, SMTT(30) DEF Holds
  <2>2. Text(ids) # <<>>
    <3> SUFFICES ASSUME Text(ids) = <<>> PROVE FALSE
      OBVIOUS
    <3>1. Text(overlap \o ids) = Text(overlap)
      BY <1>6, ConcatEmptySeq
    <3>2. window = prefix_text
      BY <3>1, DecodeIsStripped
    <3> QED
      BY <2>1, <3>2
  <2>3. window # <<>>
    <3> SUFFICES ASSUME window = <<>> PROVE FALSE
      OBVIOUS
    <3> QED
      BY <2>1, EmptyBytes
  <2> DEFINE raw == Lossy(FlattenSeq(overlap \o ids))
  <2> DEFINE shown == Text(overlap \o ids)
  <2>4. /\ raw \in Seq(Chars) /\ shown = Spaced(raw) /\ shown \in Seq(Chars) /\ Len(shown) = Len(raw)
        /\ \A k \in 1 .. Len(raw) : shown[k] = IF raw[k] = "mark" THEN "sp" ELSE raw[k]
    <3>1. FlattenSeq(overlap \o ids) \in Seq(Chars)
      BY <1>2, TokenBytes
    <3>2. raw \in Seq(Chars) /\ shown = Spaced(raw)
      BY <3>1, LossyType DEF Text
    <3> HIDE DEF raw, shown
    <3> QED
      BY <3>2, SpacedType
  <2>5. window = Stripped(shown)
    BY DecodeIsStripped
  <2>6. shown # <<>> /\ Last(window) = Last(shown)
    <3> HIDE DEF shown, window
    <3>1. shown # <<>>
      BY <2>3, <2>5 DEF Stripped
    <3>2. Len(shown) \in Nat \ {0}
      BY <2>4, <3>1, EmptySeq
    <3>3. CASE window = shown
      BY <3>1, <3>3
    <3>4. CASE window = Tail(shown)
      <4>1. /\ Tail(shown) \in Seq(Chars) /\ Len(Tail(shown)) = Len(shown) - 1
            /\ \A k \in 1 .. Len(Tail(shown)) : Tail(shown)[k] = shown[k + 1]
        BY <2>4, <3>1, HeadTailProperties
      <4>2. Len(window) \in Nat \ {0}
        BY <2>3, <3>4, <4>1, EmptySeq
      <4> QED
        BY <3>1, <3>2, <3>4, <4>1, <4>2 DEF Last
    <3> QED
      BY <2>5, <3>3, <3>4 DEF Stripped
  <2>7. raw # <<>> /\ Last(raw) # "?"
    <3>1. Last(shown) # "?"
      BY <2>1, <2>3, <2>6
    <3>2. Len(shown) \in Nat \ {0}
      <4> HIDE DEF shown
      <4> QED
        BY <2>4, <2>6, EmptySeq
    <3> HIDE DEF raw, shown
    <3>3. Len(raw) \in 1 .. Len(raw) /\ raw # <<>>
      BY <2>4, <3>2, EmptySeq
    <3>4. shown[Len(raw)] = IF raw[Len(raw)] = "mark" THEN "sp" ELSE raw[Len(raw)]
      BY <2>4, <3>3
    <3> QED
      BY <2>4, <3>1, <3>3, <3>4 DEF Last
  <2>8. Unbroken(FlattenSeq(overlap \o ids))
    BY <1>2, <2>7, TokenBytes, LossyEnd
  <2>9. Unbroken(FlattenSeq(ids))
    <3> HIDE DEF ids
    <3> QED
      BY <1>6, <2>8, UnbrokenParts
  <2> QED
    BY <2>2, <2>9
<1> QED
  BY <1>1, <1>3, <1>4, <1>5, <1>7

\* The scan of the retained end answers for the whole text.
LEMMA HitIsExact ==
  ASSUME stops \in StopSets, acc \in Seq(Chars), NEW delta \in Seq(Chars), Scanned,
         \A p \in stops : p # <<>> => ~ Occurs(acc, p)
  PROVE  (\E p \in stops : p # <<>> /\ Occurs(tail \o delta, p))
         <=> (\E p \in stops : p # <<>> /\ Occurs(acc \o delta, p))
<1>1. CASE stops = {}
  BY <1>1
<1>2. CASE stops # {}
  <2>1. PICK k \in 0 .. Len(acc) : tail = Suffix(acc, k) /\ (k = 0 \/ Bytes(Suffix(acc, k)) >= Keep)
    BY <1>2 DEF Scanned
  <2>2. /\ acc \o delta \in Seq(Chars) /\ k \in 0 .. Len(acc \o delta)
        /\ Suffix(acc \o delta, k) = tail \o delta
    <3>1. acc \o delta \in Seq(Chars) /\ Len(acc \o delta) = Len(acc) + Len(delta)
      BY ConcatProperties
    <3>2. Len(acc) \in Nat /\ Len(delta) \in Nat
      BY LenProperties
    <3>3. Suffix(acc \o delta, k) = Suffix(acc, k) \o delta
      BY SuffixConcat
    <3> QED
      BY <2>1, <3>1, <3>2, <3>3
  <2>3. ASSUME NEW p \in stops, p # <<>>
        PROVE  Occurs(tail \o delta, p) <=> Occurs(acc \o delta, p)
    <3>1. p \in Seq(Chars) /\ Keep \in Nat /\ Bytes(p) <= Keep + 1 /\ ~ Occurs(acc, p)
      BY <2>3, StopTexts
    <3>2. ASSUME Occurs(tail \o delta, p) PROVE Occurs(acc \o delta, p)
      <4> DEFINE w == acc \o delta
      <4>1. w \in Seq(Chars) /\ k \in 0 .. Len(w) /\ Occurs(Suffix(w, k), p)
        BY <2>2, <3>2
      <4> HIDE DEF w
      <4>2. Occurs(w, p)
        BY <3>1, <4>1, OccursInSuffix
      <4> QED
        BY <4>2 DEF w
    <3>3. ASSUME Occurs(acc \o delta, p) PROVE Occurs(tail \o delta, p)
      BY <2>1, <3>1, <3>3, ScanFinds
    <3> QED
      BY <3>2, <3>3
  <2> QED
    BY <2>3
<1> QED
  BY <1>1, <1>2

\* Trimming keeps enough of the text.
LEMMA TailKept ==
  ASSUME stops \in StopSets, stops # {}, acc \in Seq(Chars), NEW more \in Seq(Chars), Scanned
  PROVE  \E k \in 0 .. Len(acc \o more) : /\ Trimmed(tail \o more, Keep) = Suffix(acc \o more, k)
                                          /\ k = 0 \/ Bytes(Suffix(acc \o more, k)) >= Keep
<1> DEFINE w == acc \o more
<1>1. PICK k \in 0 .. Len(acc) : tail = Suffix(acc, k) /\ (k = 0 \/ Bytes(Suffix(acc, k)) >= Keep)
  BY DEF Scanned
<1>2. /\ w \in Seq(Chars) /\ Len(w) = Len(acc) + Len(more) /\ Len(acc) \in Nat /\ Len(more) \in Nat
      /\ k \in 0 .. Len(w) /\ k \in Nat
  BY ConcatProperties, LenProperties
<1>3. Suffix(w, k) = tail \o more /\ tail \in Seq(Chars) /\ Len(tail) = Len(acc) - k
  BY <1>1, SuffixConcat, SuffixType
<1> HIDE DEF w
<1> DEFINE u == Suffix(w, k)
<1>4. u \in Seq(Chars) /\ Len(u) = Len(w) - k
  BY <1>2, SuffixType
<1>5. Keep \in Nat
  BY StopTexts
<1>6. PICK m \in 0 .. Len(u) : Trimmed(u, Keep) = Suffix(u, m) /\ (m = 0 \/ Bytes(Suffix(u, m)) >= Keep)
  <2> HIDE DEF u
  <2> QED
    BY <1>4, <1>5, TrimmedIsSuffix
<1> DEFINE both == k + m
<1>7. m \in Nat /\ m \in 0 .. Len(w) - k /\ both \in 0 .. Len(w)
  BY <1>2, <1>4
<1>8. Suffix(u, m) = Suffix(w, both)
  BY <1>2, <1>7, SuffixOfSuffix
<1>9. both = 0 \/ Bytes(Suffix(w, both)) >= Keep
  <2>1. CASE m # 0
    BY <1>6, <1>8, <2>1
  <2>2. CASE m = 0 /\ k = 0
    BY <2>2
  <2>3. CASE m = 0 /\ k # 0
    <3>1. Bytes(tail) >= Keep /\ both = k
      BY <1>1, <1>2, <2>3
    <3>2. u = tail \o more
      BY <1>3
    <3>3. SubSeq(tail \o more, 1, Len(tail)) = tail /\ Len(tail) \in Nat /\ Len(tail) \in 0 .. Len(u)
      <4>1. SubSeq(tail \o more, 1, Len(tail)) = SubSeq(tail, 1, Len(tail)) /\ SubSeq(tail, 1, Len(tail)) = tail
        <5>1. Len(tail) \in 0 .. Len(tail)
          BY <1>3, LenProperties
        <5> QED
          BY <1>3, <5>1, PrefixOfConcat, SubSeqFull
      <4>2. Len(tail) \in Nat /\ Len(tail) <= Len(w) - k
        BY <1>2, <1>3
      <4> QED
        BY <1>2, <1>4, <4>1, <4>2
    <3> DEFINE size == Len(tail)
    <3>4. Bytes(SubSeq(u, 1, size)) + (Len(u) - size) <= Bytes(u)
      <4>1. size \in 0 .. Len(u)
        BY <3>3
      <4> HIDE DEF u, size
      <4> QED
        BY <1>4, <4>1, BytesOfPrefix
    <3>5. SubSeq(u, 1, size) = tail
      BY <3>2, <3>3
    <3>6. Bytes(tail) \in Nat /\ Bytes(u) \in Nat
      <4> HIDE DEF u
      <4> QED
        BY <1>3, <1>4, BytesType
    <3> HIDE DEF u, size
    <3>7. size \in Nat /\ size <= Len(u) /\ Len(u) \in Nat
      BY <1>4, <3>3, LenProperties DEF size
    <3>8. Bytes(u) >= Keep
      <4> DEFINE x == Bytes(tail)
      <4> DEFINE y == Bytes(u)
      <4> DEFINE extent == Len(u)
      <4>1. x \in Nat /\ y \in Nat /\ extent \in Nat /\ size <= extent /\ x + (extent - size) <= y /\ x >= Keep
        BY <3>1, <3>4, <3>5, <3>6, <3>7
      <4> HIDE DEF x, y, extent
      <4>2. y >= Keep
        BY <1>5, <3>7, <4>1
      <4> QED
        BY <4>2 DEF y
    <3> QED
      BY <3>1, <3>8 DEF u
  <2> QED
    BY <2>1, <2>2, <2>3
<1>10. Trimmed(tail \o more, Keep) = Suffix(w, both)
  BY <1>3, <1>6, <1>8
<1> HIDE DEF both
<1>11. \E j \in 0 .. Len(w) : /\ Trimmed(tail \o more, Keep) = Suffix(w, j)
                              /\ j = 0 \/ Bytes(Suffix(w, j)) >= Keep
  BY <1>7, <1>9, <1>10
<1> QED
  BY <1>11 DEF w

\* Decoding, asking and retaining depend on the turn's settings alone.
LEMMA SettingsKept ==
  ASSUME UNCHANGED <<stops, strips>>
  PROVE  /\ (Decode(taken))' = Decode(taken')
         /\ (Decode(overlap \o held))' = Decode(overlap' \o held')
         /\ (Decode(overlap))' = Decode(overlap')
         /\ (Asked(taken))' = Asked(taken') /\ (Asked(Front(taken)))' = Asked(Front(taken'))
         /\ Keep' = Keep
BY DEF Decode, Asked, Keep, LongestStop

\* Nothing is left of a text after itself.
LEMMA NothingLeft ==
  ASSUME NEW text \in Seq(Chars)
  PROVE  Unemitted(text, text) = <<>> /\ IsPrefix(text, text)
<1>1. <<>> \in Seq(Chars) /\ text \o <<>> = text
  BY EmptySeq, ConcatEmptySeq
<1> QED
  BY <1>1, UnemittedRest

\* What is pending is a text.
LEMMA UnemittedType ==
  ASSUME StreamTypes, NEW older \in Seq(Pieces), Anchored(older)
  PROVE  Unemitted(window_text, prefix_text) \in Seq(Chars)
<1>1. held \in Seq(Pieces) /\ overlap \in Seq(Pieces)
  BY DEF StreamTypes
<1> QED
  BY <1>1, WindowIsExact DEF Anchored

\* The front of an appended sequence.
LEMMA FrontOfAppend ==
  ASSUME NEW S, NEW s \in Seq(S), NEW x \in S
  PROVE  Front(Append(s, x)) = s
<1> DEFINE w == Append(s, x)
<1>1. Len(s) \in Nat /\ w \in Seq(S) /\ Len(w) = Len(s) + 1 /\ w = s \o <<x>> /\ <<x>> \in Seq(S)
  BY LenProperties, AppendProperties, AppendIsConcat
<1>2. Front(w) = SubSeq(w, 1, Len(s))
  BY <1>1 DEF Front
<1>3. SubSeq(s \o <<x>>, 1, Len(s)) = SubSeq(s, 1, Len(s)) /\ SubSeq(s, 1, Len(s)) = s
  BY <1>1, PrefixOfConcat, SubSeqFull
<1> QED
  BY <1>1, <1>2, <1>3

\* Appending texts is associative.
LEMMA RegroupedText ==
  \A s, t, u \in Seq(Chars) : (s \o t) \o u = s \o (t \o u)
BY Regrouped

\* The anchor of the next state, in words of this one.
LEMMA AnchoredNext ==
  ASSUME strips' = strips, NEW earlier \in Seq(Pieces),
         taken' = (earlier \o overlap') \o held',
         Unbroken(FlattenSeq(earlier)), Unbroken(FlattenSeq(overlap')),
         Text(overlap') = <<>> => Text(earlier) = <<>>,
         acc' = Decode(earlier \o overlap'),
         prefix_text' = Decode(overlap'),
         window_text' = Decode(overlap' \o held')
  PROVE  Anchored(earlier)'
<1>1. /\ (Decode(earlier \o overlap))' = Decode(earlier \o overlap')
      /\ (Decode(overlap))' = Decode(overlap')
      /\ (Decode(overlap \o held))' = Decode(overlap' \o held')
  BY DEF Decode
<1> QED
  BY <1>1 DEF Anchored

\* Feeding a token keeps the window at a cut.
LEMMA FeedAnchors ==
  ASSUME StreamTypes, NEW older \in Seq(Pieces), Anchored(older), NEW token \in Pieces, Feed(token)
  PROVE  \E earlier \in Seq(Pieces) : Anchored(earlier)'
<1> DEFINE ids == Append(held, token)
<1> DEFINE window == Decode(overlap \o ids)
<1> DEFINE delta == Unemitted(window, prefix_text)
<1>1. /\ strips' = strips /\ taken' = Append(taken, token)
      /\ Holds(window) => /\ held' = ids /\ window_text' = window /\ acc' = acc \o <<>>
                          /\ overlap' = overlap /\ prefix_text' = prefix_text
      /\ ~ Holds(window) => /\ held' = <<>> /\ overlap' = ids /\ acc' = acc \o delta
                            /\ prefix_text' = Decode(ids) /\ window_text' = Decode(ids)
  BY DEF Feed, NextOverlap
<1>2. /\ ids \in Seq(Pieces) /\ Append(taken, token) = (older \o overlap) \o ids
      /\ acc \in Seq(Chars) /\ Decode(Append(taken, token)) = acc \o delta
      /\ ~ Holds(window) => Unbroken(FlattenSeq(ids)) /\ Text(ids) # <<>>
  BY FeedWindow
<1>3. overlap \in Seq(Pieces) /\ older \o overlap \in Seq(Pieces)
  BY ConcatProperties DEF StreamTypes
<1> HIDE DEF ids, window, delta
<1>4. CASE Holds(window)
  <2>1. acc' = acc
    BY <1>1, <1>2, <1>4, ConcatEmptySeq
  <2>2. /\ taken' = (older \o overlap') \o held'
        /\ Unbroken(FlattenSeq(older)) /\ Unbroken(FlattenSeq(overlap'))
        /\ Text(overlap') = <<>> => Text(older) = <<>>
        /\ acc' = Decode(older \o overlap')
        /\ prefix_text' = Decode(overlap')
        /\ window_text' = Decode(overlap' \o held')
    BY <1>1, <1>2, <1>4, <2>1 DEF Anchored, window
  <2> QED
    BY <1>1, <2>2, AnchoredNext
<1>5. CASE ~ Holds(window)
  <2>1. PICK earlier \in Seq(Pieces) : earlier = older \o overlap
    BY <1>3
  <2>2. ids \o <<>> = ids /\ (earlier \o ids) \o <<>> = earlier \o ids
    <3>1. earlier \o ids \in Seq(Pieces)
      BY <1>2, <2>1, ConcatProperties
    <3> QED
      BY <1>2, <3>1, ConcatEmptySeq
  <2>3. Unbroken(FlattenSeq(earlier))
    <3>1. /\ older \in Seq(Seq(Chars)) /\ overlap \in Seq(Seq(Chars))
          /\ FlattenSeq(older) \in Seq(Chars) /\ FlattenSeq(overlap) \in Seq(Chars)
      BY <1>3, TokenBytes
    <3>2. FlattenSeq(older \o overlap) = FlattenSeq(older) \o FlattenSeq(overlap)
      BY <3>1, FlattenConcat
    <3> QED
      BY <2>1, <3>1, <3>2, UnbrokenParts DEF Anchored
  <2>4. Append(taken, token) = earlier \o ids /\ Decode(earlier \o ids) = acc \o delta
    BY <1>2, <2>1
  <2>5. /\ taken' = (earlier \o overlap') \o held'
        /\ acc' = Decode(earlier \o overlap')
        /\ prefix_text' = Decode(overlap')
        /\ window_text' = Decode(overlap' \o held')
        /\ Unbroken(FlattenSeq(overlap')) /\ Text(overlap') # <<>>
    BY <1>1, <1>2, <1>5, <2>2, <2>4
  <2> QED
    BY <1>1, <2>3, <2>5, AnchoredNext
<1> QED
  BY <1>4, <1>5

\* Feeding a token keeps enough of the end of the text.
LEMMA FeedScanned ==
  ASSUME stops \in StopSets, acc \in Seq(Chars), Scanned, NEW more \in Seq(Chars),
         stops' = stops, acc' = acc \o more,
         tail' = IF stops = {} THEN tail ELSE Trimmed(tail \o more, Keep)
  PROVE  Scanned'
<1>1. Keep' = Keep
  BY DEF Keep, LongestStop
<1>2. CASE stops = {}
  BY <1>2 DEF Scanned
<1>3. CASE stops # {}
  <2>1. PICK k \in 0 .. Len(acc \o more) : /\ Trimmed(tail \o more, Keep) = Suffix(acc \o more, k)
                                           /\ k = 0 \/ Bytes(Suffix(acc \o more, k)) >= Keep
    BY <1>3, TailKept
  <2>2. k \in 0 .. Len(acc') /\ tail' = Suffix(acc', k) /\ (k = 0 \/ Bytes(Suffix(acc', k)) >= Keep')
    BY <1>1, <1>3, <2>1
  <2> QED
    BY <2>2 DEF Scanned
<1> QED
  BY <1>2, <1>3

\* What the turn has been asked to stop at, in words of the text.
LEMMA AskedText ==
  ASSUME NEW ids, NEW text, Decode(ids) = text
  PROVE  Asked(ids) <=> \E p \in stops : p # <<>> /\ Occurs(text, p)
BY DEF Asked

\* Feeding a token keeps the invariant.
LEMMA FeedKeeps ==
  ASSUME StreamInv, NEW token \in Pieces, Feed(token)
  PROVE  StreamInv'
<1> DEFINE ids == Append(held, token)
<1> DEFINE window == Decode(overlap \o ids)
<1> DEFINE delta == Unemitted(window, prefix_text)
<1> DEFINE pending == IF Holds(window) THEN delta ELSE <<>>
<1> DEFINE shown == IF Holds(window) THEN <<>> ELSE delta
<1>1. /\ stops' = stops /\ strips' = strips /\ taken' = Append(taken, token) /\ phase = "open"
      /\ acc' = acc \o shown
      /\ tail' = IF stops = {} THEN tail ELSE Trimmed(tail \o shown, Keep)
      /\ phase' = IF Hits(shown, pending) THEN "hit" ELSE "open"
      /\ Holds(window) => /\ held' = ids /\ window_text' = window
                          /\ overlap' = overlap /\ prefix_text' = prefix_text
      /\ ~ Holds(window) => /\ held' = <<>> /\ overlap' = ids
                            /\ prefix_text' = Decode(ids) /\ window_text' = Decode(ids)
  BY DEF Feed, NextOverlap
<1>2. StreamTypes /\ StreamExact /\ Scanned /\ stops \in StopSets /\ taken \in Seq(Pieces)
  BY <1>1 DEF StreamInv, StreamTypes
<1>3. PICK older \in Seq(Pieces) : Anchored(older)
  BY <1>1 DEF StreamInv
<1>4. /\ ids \in Seq(Pieces) /\ Append(taken, token) = (older \o overlap) \o ids
      /\ acc \in Seq(Chars) /\ window \in Seq(Chars) /\ delta \in Seq(Chars)
      /\ IsPrefix(prefix_text, window)
      /\ Decode(Append(taken, token)) = acc \o delta
  BY <1>2, <1>3, FeedWindow
<1>5. pending \in Seq(Chars) /\ shown \in Seq(Chars) /\ shown \o pending = delta
  <2> HIDE DEF delta
  <2>1. <<>> \in Seq(Chars) /\ delta \o <<>> = delta /\ <<>> \o delta = delta
    BY <1>4, EmptySeq, ConcatEmptySeq
  <2> QED
    BY <1>4, <2>1
<1>6. (acc \o shown) \o pending = acc \o delta
  <2>1. acc \in Seq(Chars) /\ shown \in Seq(Chars) /\ pending \in Seq(Chars) /\ shown \o pending = delta
    BY <1>4, <1>5
  <2> HIDE DEF pending, shown, delta
  <2>2. (acc \o shown) \o pending = acc \o (shown \o pending)
    BY <2>1, RegroupedText, Zenon
  <2> QED
    BY <2>1, <2>2
<1>7. StreamTypes'
  <2>1. overlap \in Seq(Pieces) /\ held \in Seq(Pieces) /\ <<>> \in Seq(Pieces) /\ taken' \in Seq(Pieces)
    BY <1>1, <1>2, AppendProperties DEF StreamTypes
  <2> HIDE DEF ids, window
  <2> QED
    BY <1>1, <1>2, <1>4, <2>1 DEF StreamTypes
<1>8. \E earlier \in Seq(Pieces) : Anchored(earlier)'
  BY <1>2, <1>3, FeedAnchors
<1>9. Scanned'
  <2> HIDE DEF shown
  <2> QED
    BY <1>1, <1>2, <1>4, <1>5, FeedScanned
<1>10. /\ (Decode(taken))' = Decode(taken')
       /\ (Asked(taken))' = Asked(taken') /\ (Asked(Front(taken)))' = Asked(Front(taken'))
  BY <1>1, SettingsKept
<1>11. IsPrefix(prefix_text', window_text') /\ Unemitted(window_text', prefix_text') = pending
  <2>1. CASE Holds(window)
    BY <1>1, <1>4, <2>1
  <2>2. CASE ~ Holds(window)
    <3>1. Decode(ids) \in Seq(Chars)
      BY <1>4, DecodeType
    <3> QED
      BY <1>1, <2>2, <3>1, NothingLeft
  <2> QED
    BY <2>1, <2>2
<1>12. acc' \o Unemitted(window_text', prefix_text') = Decode(taken')
  <2> HIDE DEF delta, pending, shown
  <2> QED
    BY <1>1, <1>4, <1>6, <1>11
<1>13. ASSUME NEW p \in stops, p # <<>> PROVE ~ Occurs(acc, p)
  <2> DEFINE more == Unemitted(window_text, prefix_text)
  <2>1. acc \o more = Decode(taken) /\ ~ Asked(taken)
    BY <1>1, <1>2 DEF StreamExact
  <2>2. more \in Seq(Chars)
    BY <1>2, <1>3, UnemittedType
  <2>3. p \in Seq(Chars)
    BY <1>2, StopTexts
  <2> HIDE DEF more
  <2>4. ~ Occurs(acc \o more, p)
    BY <1>13, <2>1 DEF Asked
  <2> QED
    BY <1>4, <2>2, <2>3, <2>4, OccursInPrefix
<1>14. Hits(shown, pending) <=> Asked(taken')
  <2>1. Asked(taken') <=> \E p \in stops : p # <<>> /\ Occurs(acc \o delta, p)
    BY <1>1, <1>4, AskedText
  <2>2. Hits(shown, pending) <=> \E p \in stops : p # <<>> /\ Occurs(tail \o delta, p)
    <3>1. CASE stops = {}
      BY <3>1 DEF Hits
    <3>2. CASE stops # {}
      <4>1. tail \in Seq(Chars)
        BY <1>2, <1>4, <3>2, SuffixType DEF Scanned
      <4> HIDE DEF delta, pending, shown
      <4>2. (tail \o shown) \o pending = tail \o (shown \o pending)
        BY <1>5, <4>1, RegroupedText, Zenon
      <4>3. (tail \o shown) \o pending = tail \o delta
        BY <1>5, <4>2
      <4> QED
        BY <4>3 DEF Hits
    <3> QED
      BY <3>1, <3>2
  <2> HIDE DEF delta, pending, shown
  <2>3. (\E p \in stops : p # <<>> /\ Occurs(tail \o delta, p))
        <=> (\E p \in stops : p # <<>> /\ Occurs(acc \o delta, p))
    BY <1>2, <1>4, <1>13, HitIsExact
  <2> QED
    BY <2>1, <2>2, <2>3
<1>15. ~ Asked(Front(taken'))
  <2>1. Front(taken') = taken
    BY <1>1, <1>2, FrontOfAppend
  <2> QED
    BY <1>1, <1>2, <2>1 DEF StreamExact
<1>16. StreamExact'
  <2> HIDE DEF delta, pending, shown, window, ids
  <2> QED
    BY <1>1, <1>10, <1>11, <1>12, <1>14, <1>15 DEF StreamExact
<1> QED
  BY <1>7, <1>8, <1>9, <1>16 DEF StreamInv

\* The end of the turn flushes the rest.
LEMMA FinishKeeps ==
  ASSUME StreamInv, Finish
  PROVE  StreamInv'
<1> USE DEF Finish
<1>1. StreamTypes /\ StreamExact
  BY DEF StreamInv
<1>2. PICK older \in Seq(Pieces) : Anchored(older)
  BY DEF StreamInv
<1>3. StreamTypes'
  <2>1. overlap \o held \in Seq(Pieces) /\ <<>> \in Seq(Pieces)
    BY <1>1, ConcatProperties DEF StreamTypes
  <2> QED
    BY <1>1, <2>1 DEF StreamTypes
<1>4. acc' = Decode(taken) /\ prefix_text' = window_text'
  BY <1>1 DEF StreamExact
<1>5. window_text \in Seq(Chars) /\ Decode(taken) \in Seq(Chars)
  <2>1. overlap \o held \in Seq(Pieces) /\ taken \in Seq(Pieces)
    BY <1>1, ConcatProperties DEF StreamTypes
  <2> QED
    BY <1>2, <2>1, DecodeType DEF Anchored
<1>6. IsPrefix(prefix_text', window_text') /\ acc' \o Unemitted(window_text', prefix_text') = Decode(taken')
  BY <1>4, <1>5, NothingLeft, ConcatEmptySeq
<1>7. (Decode(taken))' = Decode(taken')
  BY SettingsKept
<1>8. StreamExact'
  BY <1>6, <1>7 DEF StreamExact
<1> QED
  BY <1>3, <1>8 DEF StreamInv

\* What is emitted, with what is pending, is the decode of all the tokens
\* taken, and the turn stops at the first token whose decode contains a stop
\* string: StreamingDecoder and StopScan, for every vocabulary, every stop set
\* and turns of any length.
THEOREM StreamTextExact == StreamSpec => []StreamExact
<1>1. StreamInit(StopSets, BOOLEAN) => StreamInv
  BY StreamStart
<1>2. StreamInv /\ [StreamNext]_stream_vars => StreamInv'
  <2> SUFFICES ASSUME StreamInv, [StreamNext]_stream_vars PROVE StreamInv'
    OBVIOUS
  <2>1. CASE \E token \in Pieces : Feed(token)
    BY <2>1, FeedKeeps
  <2>2. CASE Finish
    BY <2>2, FinishKeeps
  <2>3. CASE UNCHANGED stream_vars
    BY <2>3 DEF stream_vars, StreamInv, StreamTypes, StreamExact, Scanned, Anchored, Asked, Decode, Keep, LongestStop
  <2> QED
    BY <2>1, <2>2, <2>3 DEF StreamNext
<1>3. StreamInv => StreamExact
  BY DEF StreamInv
<1> QED
  BY <1>1, <1>2, <1>3, PTL DEF StreamSpec

-----------------------------------------------------------------------------
(* TextCodec: sequences mapped part by part and flattened.                 *)

\* What holds of the empty sequence and of one element more holds of all.
LEMMA SeqInduct ==
  ASSUME NEW D, NEW G, <<>> \in G,
         ASSUME NEW s \in Seq(D), NEW x \in D, s \in G PROVE Append(s, x) \in G
  PROVE  \A s \in Seq(D) : s \in G
<1> SUFFICES ASSUME NEW s \in Seq(D) PROVE s \in G
  OBVIOUS
<1>1. Len(s) \in Nat /\ SubSeq(s, 1, Len(s)) = s
  BY LenProperties, SubSeqFull
<1> DEFINE B == {c \in 0 .. Len(s) : SubSeq(s, 1, c) \notin G}
<1>2. B = {}
  <2> SUFFICES ASSUME B # {} PROVE FALSE
    OBVIOUS
  <2>1. PICK c \in B : \A e \in B : c <= e
    <3>1. B \subseteq Nat
      BY <1>1
    <3> HIDE DEF B
    <3> QED
      BY <3>1, LeastNatural
  <2>2. CASE c = 0
    <3>1. SubSeq(s, 1, 0) = <<>>
      BY SubSeqEmpty
    <3> QED
      BY <2>1, <2>2, <3>1
  <2>3. CASE c # 0
    <3> DEFINE u == SubSeq(s, 1, c - 1)
    <3>1. c - 1 \in 0 .. Len(s) /\ c - 1 \notin B /\ c \in 1 .. Len(s)
      BY <1>1, <2>1, <2>3
    <3>2. u \in Seq(D) /\ s[c] \in D /\ u \in G
      BY <1>1, <3>1, PrefixType, ElementOfSeq
    <3>3. SubSeq(s, 1, c) = Append(u, s[c])
      <4>1. SubSeq(s, 1, c) = u \o <<s[c]>>
        BY <1>1, <3>1, SubSeqRecursiveSecond
      <4> HIDE DEF u
      <4> QED
        BY <3>2, <4>1, AppendIsConcat
    <3> HIDE DEF u
    <3>4. Append(u, s[c]) \in G
      BY <3>2
    <3> QED
      BY <2>1, <3>3, <3>4
  <2> QED
    BY <2>2, <2>3
<1>3. Len(s) \in 0 .. Len(s) /\ Len(s) \notin B
  BY <1>1, <1>2
<1> QED
  BY <1>1, <1>3

\* When a sequence is another with one element more.
LEMMA IsAppend ==
  ASSUME NEW S, NEW s \in Seq(S), NEW t \in Seq(S), NEW x \in S,
         Len(t) = Len(s) + 1, \A j \in 1 .. Len(s) : t[j] = s[j], t[Len(s) + 1] = x
  PROVE  t = Append(s, x)
<1>1. /\ Append(s, x) \in Seq(S) /\ Len(Append(s, x)) = Len(s) + 1
      /\ \A j \in 1 .. Len(s) : Append(s, x)[j] = s[j]
      /\ Append(s, x)[Len(s) + 1] = x
  BY AppendProperties
<1>2. Len(s) \in Nat
  BY LenProperties
<1>3. ASSUME NEW j \in 1 .. Len(t) PROVE t[j] = Append(s, x)[j]
  <2>1. j = Len(s) + 1 \/ j \in 1 .. Len(s)
    BY <1>2
  <2> QED
    BY <1>1, <2>1
<1> QED
  BY <1>1, <1>3, SeqEqual

\* One part and two empty ones.
LEMMA FlattenThree ==
  ASSUME NEW S, NEW p \in Seq(S)
  PROVE  FlattenSeq(<<p>>) = p /\ FlattenSeq(<<p, <<>>, <<>>>>) = p
<1> DEFINE e == <<>>
<1> DEFINE s == <<p>>
<1> DEFINE t == <<p, e>>
<1> DEFINE u == <<p, e, e>>
<1>1. e \in Seq(S) /\ e \in Seq(Seq(S)) /\ Len(e) = 0
  OBVIOUS
<1> HIDE DEF e
<1>2. /\ s \in Seq(Seq(S)) /\ Len(s) = 1 /\ s[1] = p
      /\ t \in Seq(Seq(S)) /\ Len(t) = 2 /\ t[1] = p /\ t[2] = e
      /\ u \in Seq(Seq(S)) /\ Len(u) = 3 /\ u[1] = p /\ u[2] = e /\ u[3] = e
  BY <1>1
<1> HIDE DEF s, t, u
<1>3. s = Append(e, p)
  BY <1>1, <1>2, IsAppend
<1>4. t = Append(s, e)
  <2>1. Len(t) = Len(s) + 1 /\ (\A j \in 1 .. Len(s) : t[j] = s[j]) /\ t[Len(s) + 1] = e
    BY <1>2
  <2>2. s \in Seq(Seq(S)) /\ t \in Seq(Seq(S)) /\ e \in Seq(S)
    BY <1>1, <1>2
  <2> QED
    BY <2>1, <2>2, IsAppend
<1>5. u = Append(t, e)
  <2>1. Len(u) = Len(t) + 1 /\ (\A j \in 1 .. Len(t) : u[j] = t[j]) /\ u[Len(t) + 1] = e
    BY <1>2
  <2>2. t \in Seq(Seq(S)) /\ u \in Seq(Seq(S)) /\ e \in Seq(S)
    BY <1>1, <1>2
  <2> QED
    BY <2>1, <2>2, IsAppend
<1>6. FlattenSeq(e) = e /\ e \o p = p /\ p \o e = p
  BY FlattenEmpty, ConcatEmptySeq DEF e
<1>7. FlattenSeq(s) = p
  <2>1. FlattenSeq(Append(e, p)) = FlattenSeq(e) \o p
    BY <1>1, FlattenAppend
  <2> QED
    BY <1>3, <1>6, <2>1
<1>8. FlattenSeq(t) = p
  <2>1. FlattenSeq(Append(s, e)) = FlattenSeq(s) \o e
    BY <1>1, <1>2, FlattenAppend
  <2> QED
    BY <1>4, <1>6, <1>7, <2>1
<1>9. FlattenSeq(u) = p
  <2>1. FlattenSeq(Append(t, e)) = FlattenSeq(t) \o e
    BY <1>1, <1>2, FlattenAppend
  <2> QED
    BY <1>5, <1>6, <1>8, <2>1
<1> QED
  BY <1>7, <1>9 DEF s, u, e

MapFlat(f, s) == FlattenSeq([k \in DOMAIN s |-> f[s[k]]])

\* Functions from elements to sequences.
Expands(D, S) == [D -> Seq(S)]

\* The parts of a mapped sequence.
LEMMA MappedType ==
  ASSUME NEW D, NEW T, NEW f \in [D -> T], NEW s \in Seq(D)
  PROVE  /\ [k \in DOMAIN s |-> f[s[k]]] \in Seq(T)
         /\ Len([k \in DOMAIN s |-> f[s[k]]]) = Len(s)
         /\ \A j \in 1 .. Len(s) : [k \in DOMAIN s |-> f[s[k]]][j] = f[s[j]]
<1>1. Len(s) \in Nat /\ DOMAIN s = 1 .. Len(s) /\ \A k \in 1 .. Len(s) : s[k] \in D
  BY LenProperties, ElementOfSeq
<1>2. [k \in DOMAIN s |-> f[s[k]]] \in [1 .. Len(s) -> T]
  BY <1>1
<1> QED
  BY <1>1, <1>2

\* Each element expands to a sequence.
LEMMA ExpandsAt ==
  ASSUME NEW D, NEW S, NEW f \in Expands(D, S), NEW x \in D
  PROVE  f[x] \in Seq(S)
BY DEF Expands

\* The parts a sequence expands to.
LEMMA ExpandedParts ==
  ASSUME NEW D, NEW S, NEW f \in Expands(D, S), NEW s \in Seq(D)
  PROVE  /\ [k \in DOMAIN s |-> f[s[k]]] \in Seq(Seq(S))
         /\ Len([k \in DOMAIN s |-> f[s[k]]]) = Len(s)
         /\ \A j \in 1 .. Len(s) : [k \in DOMAIN s |-> f[s[k]]][j] = f[s[j]]
<1>1. f \in [D -> Seq(S)]
  BY DEF Expands
<1> QED
  BY <1>1, MappedType, SMT

\* Mapping and flattening yields a sequence.
LEMMA MapFlatType ==
  ASSUME NEW D, NEW S, NEW f \in Expands(D, S), NEW s \in Seq(D)
  PROVE  MapFlat(f, s) \in Seq(S)
<1>1. [k \in DOMAIN s |-> f[s[k]]] \in Seq(Seq(S))
  BY MappedType DEF Expands
<1> QED
  BY <1>1, FlattenType, Zenon DEF MapFlat

\* Nothing maps to nothing, one element to its image.
LEMMA MapFlatEmpty == ASSUME NEW f PROVE MapFlat(f, <<>>) = <<>>
<1>1. [k \in DOMAIN <<>> |-> f[<<>>[k]]] = <<>>
  OBVIOUS
<1> QED
  BY <1>1, FlattenEmpty, Zenon DEF MapFlat

\* One element more.
LEMMA MapFlatAppend ==
  ASSUME NEW D, NEW S, NEW f \in Expands(D, S), NEW s \in Seq(D), NEW x \in D
  PROVE  MapFlat(f, Append(s, x)) = MapFlat(f, s) \o f[x]
<1> DEFINE t == Append(s, x)
<1> DEFINE ms == [k \in DOMAIN s |-> f[s[k]]]
<1> DEFINE mt == [k \in DOMAIN t |-> f[t[k]]]
<1>1. /\ t \in Seq(D) /\ Len(t) = Len(s) + 1 /\ t[Len(s) + 1] = x
      /\ \A k \in 1 .. Len(s) : t[k] = s[k]
  BY AppendProperties
<1>2. Len(s) \in Nat
  BY LenProperties
<1> HIDE DEF t
<1>3. ms \in Seq(Seq(S)) /\ Len(ms) = Len(s) /\ \A j \in 1 .. Len(s) : ms[j] = f[s[j]]
  BY ExpandedParts, SMT
<1>4. mt \in Seq(Seq(S)) /\ Len(mt) = Len(t) /\ \A j \in 1 .. Len(t) : mt[j] = f[t[j]]
  <2>1. t \in Seq(D)
    BY <1>1
  <2> QED
    BY <2>1, ExpandedParts, SMT
<1>5. f[x] \in Seq(S)
  BY DEF Expands
<1> HIDE DEF ms, mt
<1>6. /\ Append(ms, f[x]) \in Seq(Seq(S)) /\ Len(Append(ms, f[x])) = Len(ms) + 1
      /\ \A j \in 1 .. Len(ms) : Append(ms, f[x])[j] = ms[j]
      /\ Append(ms, f[x])[Len(ms) + 1] = f[x]
  BY <1>3, <1>5, AppendProperties
<1>7. ASSUME NEW j \in 1 .. Len(mt) PROVE mt[j] = Append(ms, f[x])[j]
  <2>1. CASE j = Len(s) + 1
    BY <1>1, <1>2, <1>3, <1>4, <1>6, <2>1
  <2>2. CASE j # Len(s) + 1
    <3>1. j \in 1 .. Len(s)
      BY <1>1, <1>2, <1>4, <2>2
    <3>2. mt[j] = f[t[j]] /\ t[j] = s[j] /\ Append(ms, f[x])[j] = ms[j] /\ ms[j] = f[s[j]]
      BY <1>1, <1>3, <1>4, <1>6, <3>1
    <3> QED
      BY <3>2, Zenon
  <2> QED
    BY <2>1, <2>2
<1>8. mt = Append(ms, f[x])
  <2>1. Len(mt) = Len(Append(ms, f[x]))
    BY <1>1, <1>3, <1>4, <1>6
  <2> QED
    BY <1>4, <1>6, <1>7, <2>1, SeqEqual, Zenon
<1>9. FlattenSeq(Append(ms, f[x])) = FlattenSeq(ms) \o f[x]
  BY <1>3, <1>5, FlattenAppend
<1> QED
  BY <1>8, <1>9, Zenon DEF MapFlat, t, ms, mt

\* One element is mapped.
LEMMA MapFlatOne ==
  ASSUME NEW D, NEW S, NEW f \in Expands(D, S), NEW x \in D
  PROVE  MapFlat(f, <<x>>) = f[x]
<1>1. Append(<<>>, x) = <<x>> /\ <<>> \in Seq(D) /\ f[x] \in Seq(S)
  BY DEF Expands
<1>2. MapFlat(f, Append(<<>>, x)) = MapFlat(f, <<>>) \o f[x]
  BY <1>1, MapFlatAppend
<1>3. <<>> \o f[x] = f[x]
  BY <1>1, ConcatEmptySeq
<1> QED
  BY <1>1, <1>2, <1>3, MapFlatEmpty, Zenon

Distributes(f, s, t) == MapFlat(f, s \o t) = MapFlat(f, s) \o MapFlat(f, t)

\* Mapping and flattening distributes over concatenation.
LEMMA MapFlatConcat ==
  ASSUME NEW D, NEW S, NEW f \in Expands(D, S), NEW s \in Seq(D), NEW t \in Seq(D)
  PROVE  Distributes(f, s, t)
<1> DEFINE G == {u \in Seq(D) : MapFlat(f, s \o u) = MapFlat(f, s) \o MapFlat(f, u)}
<1>1. <<>> \in G
  <2>1. s \o <<>> = s /\ MapFlat(f, s) \in Seq(S)
    BY ConcatEmptySeq, MapFlatType
  <2>2. MapFlat(f, s) \o <<>> = MapFlat(f, s)
    BY <2>1, ConcatEmptySeq
  <2> QED
    BY <2>1, <2>2, MapFlatEmpty, EmptySeq
<1>2. ASSUME NEW u \in Seq(D), NEW x \in D, u \in G PROVE Append(u, x) \in G
  <2>1. s \o u \in Seq(D) /\ Append(u, x) \in Seq(D)
    BY ConcatProperties, AppendProperties
  <2>2. s \o Append(u, x) = Append(s \o u, x)
    <3>1. <<x>> \in Seq(D)
      OBVIOUS
    <3>2. (s \o u) \o <<x>> = s \o (u \o <<x>>)
      BY <3>1, Regrouped
    <3> QED
      BY <2>1, <3>2, AppendIsConcat
  <2>3. MapFlat(f, Append(s \o u, x)) = MapFlat(f, s \o u) \o f[x]
    BY <2>1, MapFlatAppend
  <2>4. MapFlat(f, Append(u, x)) = MapFlat(f, u) \o f[x]
    BY MapFlatAppend
  <2>5. MapFlat(f, s) \in Seq(S) /\ MapFlat(f, u) \in Seq(S) /\ f[x] \in Seq(S)
    BY MapFlatType DEF Expands
  <2>6. (MapFlat(f, s) \o MapFlat(f, u)) \o f[x] = MapFlat(f, s) \o (MapFlat(f, u) \o f[x])
    <3> DEFINE p == MapFlat(f, s)
    <3> DEFINE q == MapFlat(f, u)
    <3> DEFINE y == f[x]
    <3>1. p \in Seq(S) /\ q \in Seq(S) /\ y \in Seq(S)
      BY <2>5
    <3> HIDE DEF p, q, y
    <3>2. (p \o q) \o y = p \o (q \o y)
      BY <3>1, Regrouped
    <3> QED
      BY <3>2 DEF p, q, y
  <2>7. MapFlat(f, s \o u) = MapFlat(f, s) \o MapFlat(f, u)
    BY <1>2
  <2> QED
    BY <2>1, <2>2, <2>3, <2>4, <2>6, <2>7
<1> HIDE DEF G
<1>3. t \in G
  BY <1>1, <1>2, SeqInduct
<1> QED
  BY <1>3 DEF G, Distributes

\* Mapping the flattened is flattening the mapped.
LEMMA MapFlatNested ==
  ASSUME NEW D, NEW S, NEW f \in Expands(D, S), NEW ss \in Seq(Seq(D))
  PROVE  MapFlat(f, FlattenSeq(ss)) = FlattenSeq([k \in DOMAIN ss |-> MapFlat(f, ss[k])])
<1> DEFINE g == [s \in Seq(D) |-> MapFlat(f, s)]
<1>a. \A v \in Seq(D), u \in Seq(D) : Distributes(f, v, u)
  BY MapFlatConcat, Zenon
<1>1. g \in Expands(Seq(D), S)
  BY MapFlatType DEF Expands
<1> HIDE DEF g
<1> DEFINE G == {us \in Seq(Seq(D)) : MapFlat(f, FlattenSeq(us)) = MapFlat(g, us)}
<1>2. <<>> \in G
  BY FlattenEmpty, MapFlatEmpty, EmptySeq
<1>3. ASSUME NEW us \in Seq(Seq(D)), NEW u \in Seq(D), us \in G PROVE Append(us, u) \in G
  <2>1. Append(us, u) \in Seq(Seq(D)) /\ FlattenSeq(us) \in Seq(D)
    BY AppendProperties, FlattenType
  <2>2. FlattenSeq(Append(us, u)) = FlattenSeq(us) \o u
    BY FlattenAppend
  <2>3. MapFlat(f, FlattenSeq(us) \o u) = MapFlat(f, FlattenSeq(us)) \o MapFlat(f, u)
    <3>1. Distributes(f, FlattenSeq(us), u)
      BY <1>a, <2>1
    <3> QED
      BY <3>1 DEF Distributes
  <2>4. MapFlat(g, Append(us, u)) = MapFlat(g, us) \o g[u]
    BY <1>1, MapFlatAppend
  <2>5. g[u] = MapFlat(f, u)
    BY DEF g
  <2>6. MapFlat(f, FlattenSeq(us)) = MapFlat(g, us)
    BY <1>3
  <2> QED
    BY <2>1, <2>2, <2>3, <2>4, <2>5, <2>6
<1> HIDE DEF G
<1>4. ss \in G
  BY <1>2, <1>3, SeqInduct
<1>5. [k \in DOMAIN ss |-> MapFlat(f, ss[k])] = [k \in DOMAIN ss |-> g[ss[k]]]
  <2>1. \A k \in DOMAIN ss : ss[k] \in Seq(D)
    BY LenProperties, ElementOfSeq
  <2> QED
    BY <2>1 DEF g
<1> QED
  BY <1>4, <1>5 DEF G, MapFlat

\* What maps each element to itself changes nothing.
LEMMA MapFlatSame ==
  ASSUME NEW D, NEW S, NEW f \in Expands(D, S), NEW E, E \subseteq D, E \subseteq S,
         \A x \in E : f[x] = <<x>>, NEW s \in Seq(E)
  PROVE  MapFlat(f, s) = s
<1> DEFINE G == {u \in Seq(E) : MapFlat(f, u) = u}
<1>1. <<>> \in G
  BY MapFlatEmpty, EmptySeq
<1>2. ASSUME NEW u \in Seq(E), NEW x \in E, u \in G PROVE Append(u, x) \in G
  <2>1. u \in Seq(D) /\ x \in D /\ Append(u, x) \in Seq(E)
    BY AppendProperties, SeqMonotonic
  <2>2. MapFlat(f, Append(u, x)) = MapFlat(f, u) \o f[x]
    BY <2>1, MapFlatAppend
  <2>3. Append(u, x) = u \o <<x>>
    BY AppendIsConcat
  <2>4. MapFlat(f, u) = u /\ f[x] = <<x>>
    BY <1>2
  <2> QED
    BY <2>1, <2>2, <2>3, <2>4
<1> HIDE DEF G
<1>3. s \in G
  BY <1>1, <1>2, SeqInduct
<1> QED
  BY <1>3 DEF G

-----------------------------------------------------------------------------
(* Characters and their bytes.                                             *)

Plain == Chars \ {"L", "U", "C"}

Utf8Of == [ch \in Chars |-> IF ch \in DOMAIN Wide THEN Wide[ch] ELSE <<ch>>]

\* Text and bytes are characters.
LEMMA Literals == {"a", "b", "sp", "x", "mark", "L", "U", "C", "##", "?"} \subseteq Chars
BY DEF Chars

\* What each character is in bytes.
LEMMA Utf8OfType ==
  /\ Utf8Of \in Expands(Chars, Chars)
  /\ \A ch \in Chars \ {"x", "mark"} : Utf8Of[ch] = <<ch>>
  /\ Utf8Of["x"] = <<"L", "C", "C">> /\ Utf8Of["mark"] = <<"U", "C", "C">>
<1>1. /\ DOMAIN Wide = {"x", "mark"}
      /\ Wide["x"] = <<"L", "C", "C">> /\ Wide["mark"] = <<"U", "C", "C">>
  BY DEF Wide
<1>2. <<"L", "C", "C">> \in Seq(Chars) /\ <<"U", "C", "C">> \in Seq(Chars)
  BY Literals
<1>3. \A ch \in Chars : <<ch>> \in Seq(Chars)
  OBVIOUS
<1>4. \A ch \in Chars : Utf8Of[ch] = IF ch \in DOMAIN Wide THEN Wide[ch] ELSE <<ch>>
  BY DEF Utf8Of
<1>5. \A ch \in Chars : (IF ch \in DOMAIN Wide THEN Wide[ch] ELSE <<ch>>) \in Seq(Chars)
  BY <1>1, <1>2, <1>3
<1>6. Utf8Of \in [Chars -> Seq(Chars)]
  BY <1>5 DEF Utf8Of
<1> QED
  BY <1>1, <1>4, <1>6, Literals DEF Expands

\* Utf8 maps character by character.
LEMMA Utf8IsMap ==
  ASSUME NEW t \in Seq(Chars)
  PROVE  Utf8(t) = MapFlat(Utf8Of, t) /\ Utf8(t) \in Seq(Chars)
<1>1. \A k \in DOMAIN t : t[k] \in Chars
  BY LenProperties, ElementOfSeq
<1>2. [k \in DOMAIN t |-> IF t[k] \in DOMAIN Wide THEN Wide[t[k]] ELSE <<t[k]>>]
      = [k \in DOMAIN t |-> Utf8Of[t[k]]]
  BY <1>1 DEF Utf8Of
<1>3. Utf8(t) = MapFlat(Utf8Of, t)
  BY <1>2, Zenon DEF Utf8, MapFlat
<1>4. MapFlat(Utf8Of, t) \in Seq(Chars)
  BY Utf8OfType, MapFlatType, Zenon
<1> QED
  BY <1>3, <1>4

\* Utf8 distributes over concatenation.
LEMMA Utf8Concat ==
  ASSUME NEW s \in Seq(Chars), NEW t \in Seq(Chars)
  PROVE  Utf8(s \o t) = Utf8(s) \o Utf8(t)
<1>1. Distributes(Utf8Of, s, t)
  BY Utf8OfType, MapFlatConcat, Zenon
<1>2. s \o t \in Seq(Chars)
  BY ConcatProperties
<1> QED
  BY <1>1, <1>2, Utf8IsMap DEF Distributes

\* The bytes of one character.
LEMMA Utf8One ==
  ASSUME NEW ch \in Chars
  PROVE  Utf8(<<ch>>) = Utf8Of[ch]
<1>1. MapFlat(Utf8Of, <<ch>>) = Utf8Of[ch]
  BY Utf8OfType, MapFlatOne, Zenon
<1>2. <<ch>> \in Seq(Chars)
  OBVIOUS
<1> QED
  BY <1>1, <1>2, Utf8IsMap

\* No text has no bytes.
LEMMA Utf8Empty == Utf8(<<>>) = <<>>
BY EmptySeq, Utf8IsMap, MapFlatEmpty

\* Where no character is wide the bytes are the characters.
LEMMA Utf8Narrow ==
  ASSUME NEW t \in Seq(Chars \ {"x", "mark"})
  PROVE  Utf8(t) = t
<1> DEFINE E == Chars \ {"x", "mark"}
<1>1. t \in Seq(Chars) /\ E \subseteq Chars /\ t \in Seq(E) /\ \A ch \in E : Utf8Of[ch] = <<ch>>
  BY Utf8OfType, SeqMonotonic
<1> HIDE DEF E
<1>2. MapFlat(Utf8Of, t) = t
  BY <1>1, Utf8OfType, MapFlatSame, ZenonT(40)
<1> QED
  BY <1>1, <1>2, Utf8IsMap

\* One character is decoded to itself, and leaves none open.
LEMMA LossyOne ==
  ASSUME NEW ch \in Plain
  PROVE  Lossy(Utf8Of[ch]) = <<ch>> /\ Unbroken(Utf8Of[ch])
<1>0. ch \in Chars /\ ch \notin {"L", "U", "C"}
  BY DEF Plain
<1>1. CASE ch \notin {"x", "mark"}
  <2> DEFINE b == <<ch>>
  <2>1. Utf8Of[ch] = b
    BY <1>0, <1>1, Utf8OfType
  <2>2. Shown(b, 1) = <<ch>>
    BY <1>0 DEF Shown, Consumed, Leads
  <2>3. [k \in DOMAIN b |-> Shown(b, k)] = << <<ch>> >>
    BY <2>2
  <2>4. FlattenSeq(<< <<ch>> >>) = <<ch>>
    <3>1. <<ch>> \in Seq(Chars)
      BY <1>0
    <3> QED
      BY <3>1, FlattenThree
  <2>5. Unbroken(b)
    BY <1>0 DEF Unbroken, Leads
  <2> HIDE DEF b
  <2> QED
    BY <2>1, <2>3, <2>4, <2>5 DEF Lossy
<1>2. CASE ch \in {"x", "mark"}
  <2> DEFINE lead == IF ch = "x" THEN "L" ELSE "U"
  <2> DEFINE b == <<lead, "C", "C">>
  <2>1. Utf8Of[ch] = b /\ lead \in {"L", "U"} /\ (lead = "L" <=> ch = "x")
    BY <1>2, Utf8OfType
  <2>a. ch = IF lead = "L" THEN "x" ELSE "mark"
    BY <1>2, <2>1
  <2> HIDE DEF lead
  <2>b. /\ b[1] = lead /\ b[2] = "C" /\ b[3] = "C" /\ Len(b) = 3 /\ DOMAIN b = 1 .. 3
        /\ b[1] \in Leads /\ b \in Seq(Chars)
    BY <2>1, Literals DEF Leads
  <2> HIDE DEF b
  <2>2. Shown(b, 1) = <<ch>>
    BY <2>1, <2>a, <2>b DEF Shown, Consumed, Leads
  <2>3. Shown(b, 2) = <<>> /\ Shown(b, 3) = <<>>
    BY <2>1, <2>b DEF Shown, Consumed, Leads
  <2>4. [k \in DOMAIN b |-> Shown(b, k)] = << <<ch>>, <<>>, <<>> >>
    BY <2>b, <2>2, <2>3
  <2>5. FlattenSeq(<< <<ch>>, <<>>, <<>> >>) = <<ch>>
    <3> DEFINE p == <<ch>>
    <3>1. p \in Seq(Chars) /\ <<>> \in Seq(Chars)
      BY <1>0
    <3> HIDE DEF p
    <3>2. FlattenSeq(<<p, <<>>, <<>>>>) = p
      BY <3>1, FlattenThree
    <3> QED
      BY <3>2 DEF p
  <2>6. Unbroken(b)
    BY <2>1, <2>b DEF Unbroken, Leads
  <2> QED
    BY <2>1, <2>4, <2>5, <2>6 DEF Lossy
<1> QED
  BY <1>1, <1>2

\* What is whole in bytes decodes to itself.
LEMMA LossyUtf8 ==
  ASSUME NEW t \in Seq(Plain)
  PROVE  Lossy(Utf8(t)) = t /\ Unbroken(Utf8(t))
<1> DEFINE G == {u \in Seq(Plain) : Lossy(Utf8(u)) = u /\ Unbroken(Utf8(u))}
<1>1. <<>> \in G
  <2>1. Lossy(<<>>) = <<>>
    <3>1. [k \in DOMAIN <<>> |-> Shown(<<>>, k)] = <<>>
      OBVIOUS
    <3> QED
      BY <3>1, FlattenEmpty, Zenon DEF Lossy
  <2>2. Unbroken(<<>>)
    BY DEF Unbroken
  <2> QED
    BY <2>1, <2>2, Utf8Empty, EmptySeq
<1>2. ASSUME NEW u \in Seq(Plain), NEW ch \in Plain, u \in G PROVE Append(u, ch) \in G
  <2>1. u \in Seq(Chars) /\ ch \in Chars /\ <<ch>> \in Seq(Chars) /\ Append(u, ch) \in Seq(Plain)
    BY SeqMonotonic, AppendProperties DEF Plain
  <2> DEFINE p == Utf8(u)
  <2> DEFINE q == Utf8Of[ch]
  <2>2. Lossy(p) = u /\ Unbroken(p)
    BY <1>2
  <2>3. Lossy(q) = <<ch>> /\ Unbroken(q)
    BY LossyOne
  <2>4. p \in Seq(Chars) /\ q \in Seq(Chars)
    BY <2>1, Utf8IsMap, Utf8OfType DEF Expands
  <2>5. Utf8(Append(u, ch)) = p \o q
    <3>1. Append(u, ch) = u \o <<ch>>
      BY <2>1, AppendIsConcat
    <3> QED
      BY <2>1, <3>1, Utf8Concat, Utf8One
  <2> HIDE DEF p, q, G
  <2>6. Lossy(p \o q) = u \o <<ch>>
    BY <2>2, <2>3, <2>4, LossySplit
  <2>7. Unbroken(p \o q)
    BY <2>2, <2>3, <2>4, UnbrokenParts
  <2>8. Append(u, ch) = u \o <<ch>>
    BY AppendIsConcat
  <2> QED
    BY <2>1, <2>5, <2>6, <2>7, <2>8 DEF G
<1> HIDE DEF G
<1>3. t \in G
  BY <1>1, <1>2, SeqInduct
<1> QED
  BY <1>3 DEF G

-----------------------------------------------------------------------------
(* Helpers of the model: sequences without an item, texts split before a   *)
(* character, pieces looked up.                                            *)

OmitOf(D, item) == [x \in D |-> IF x # item THEN <<x>> ELSE <<>>]

\* Leaving out an item maps each element to itself or to nothing.
LEMMA OmittingIsMap ==
  ASSUME NEW D, NEW item, NEW s \in Seq(D)
  PROVE  /\ OmitOf(D, item) \in Expands(D, D) /\ OmitOf(D, item) \in Expands(D, D \ {item})
         /\ Omitting(s, item) = MapFlat(OmitOf(D, item), s)
         /\ Omitting(s, item) \in Seq(D) /\ Omitting(s, item) \in Seq(D \ {item})
<1>1. OmitOf(D, item) \in Expands(D, D) /\ OmitOf(D, item) \in Expands(D, D \ {item})
  <2>1. \A x \in D : (IF x # item THEN <<x>> ELSE <<>>) \in Seq(D)
    BY EmptySeq
  <2> DEFINE E == D \ {item}
  <2>2. \A x \in D : (IF x # item THEN <<x>> ELSE <<>>) \in Seq(E)
    <3>1. \A x \in D : x # item => x \in E
      OBVIOUS
    <3>2. \A x \in E : <<x>> \in Seq(E)
      OBVIOUS
    <3> HIDE DEF E
    <3> QED
      BY <3>1, <3>2, EmptySeq
  <2> QED
    BY <2>1, <2>2 DEF OmitOf, Expands
<1>2. \A k \in DOMAIN s : s[k] \in D
  BY LenProperties, ElementOfSeq
<1>3. [k \in DOMAIN s |-> IF s[k] # item THEN <<s[k]>> ELSE <<>>] = [k \in DOMAIN s |-> OmitOf(D, item)[s[k]]]
  BY <1>2 DEF OmitOf
<1>4. Omitting(s, item) = MapFlat(OmitOf(D, item), s)
  BY <1>3, Zenon DEF Omitting, Keeping, MapFlat
<1>5. MapFlat(OmitOf(D, item), s) \in Seq(D)
  BY <1>1, MapFlatType, Zenon
<1>6. MapFlat(OmitOf(D, item), s) \in Seq(D \ {item})
  BY <1>1, MapFlatType, Zenon
<1> QED
  BY <1>1, <1>4, <1>5, <1>6

\* Leaving out an item distributes over concatenation.
LEMMA OmittingConcat ==
  ASSUME NEW D, NEW item, NEW s \in Seq(D), NEW t \in Seq(D)
  PROVE  Omitting(s \o t, item) = Omitting(s, item) \o Omitting(t, item)
<1>1. OmitOf(D, item) \in Expands(D, D)
  BY OmittingIsMap
<1>2. Distributes(OmitOf(D, item), s, t)
  BY <1>1, MapFlatConcat, Zenon
<1>3. s \o t \in Seq(D)
  BY ConcatProperties
<1>4. /\ Omitting(s, item) = MapFlat(OmitOf(D, item), s)
      /\ Omitting(t, item) = MapFlat(OmitOf(D, item), t)
  BY OmittingIsMap
<1>5. Omitting(s \o t, item) = MapFlat(OmitOf(D, item), s \o t)
  BY <1>3, OmittingIsMap
<1> QED
  BY <1>2, <1>4, <1>5 DEF Distributes

\* An item that is not there is not missed.
LEMMA OmittingNone ==
  ASSUME NEW D, NEW item, NEW s \in Seq(D \ {item})
  PROVE  Omitting(s, item) = s
<1> DEFINE E == D \ {item}
<1> DEFINE f == OmitOf(D, item)
<1>1. s \in Seq(D) /\ s \in Seq(E) /\ E \subseteq D
  BY SeqMonotonic
<1>2. f \in Expands(D, D) /\ Omitting(s, item) = MapFlat(f, s)
  BY <1>1, OmittingIsMap
<1>3. \A x \in E : f[x] = <<x>>
  BY DEF OmitOf
<1> HIDE DEF E, f
<1>4. MapFlat(f, s) = s
  <2>1. f \in Expands(D, D) /\ E \subseteq D /\ s \in Seq(E)
    BY <1>1, <1>2
  <2> QED
    BY <1>3, <2>1, MapFlatSame
<1> QED
  BY <1>2, <1>4

\* The greatest number of a bounded set.
LEMMA MaxOfBounded ==
  ASSUME NEW T, T # {}, NEW bound \in Nat, T \subseteq 0 .. bound
  PROVE  Max(T) \in T /\ \A m \in T : m <= Max(T)
<1>1. PICK g \in T : \A m \in T : m <= g
  BY GreatestNatural
<1>2. \A m \in T : g >= m
  BY <1>1
<1> DEFINE g0 == CHOOSE x \in T : \A y \in T : x >= y
<1>3. g0 \in T /\ \A y \in T : g0 >= y
  BY <1>2
<1>4. Max(T) = g0
  BY DEF Max
<1> HIDE DEF g0
<1> QED
  BY <1>3, <1>4

\* A piece's id is one of its places in the vocabulary.
LEMMA PieceListed ==
  ASSUME NEW V, NEW vocab \in Seq(V), NEW p
  PROVE  /\ Known(vocab, p) => /\ str_to_id(vocab, p) \in 0 .. Len(vocab) - 1
                               /\ vocab[str_to_id(vocab, p) + 1] = p
         /\ \A k \in 1 .. Len(vocab) : vocab[k] = p => Known(vocab, p)
         /\ str_to_id(vocab, p) \in Int
<1>1. Len(vocab) \in Nat /\ DOMAIN vocab = 1 .. Len(vocab)
  BY LenProperties
<1> DEFINE listed == {k \in DOMAIN vocab : vocab[k] = p}
<1>2. listed # {} => Max(listed) \in listed
  <2>1. listed \subseteq 0 .. Len(vocab)
    BY <1>1
  <2> HIDE DEF listed
  <2> QED
    BY <1>1, <2>1, MaxOfBounded
<1>3. str_to_id(vocab, p) = IF listed = {} THEN NoId ELSE Max(listed) - 1
  BY DEF str_to_id
<1>4. CASE listed = {}
  BY <1>1, <1>3, <1>4 DEF Known, NoId
<1>5. CASE listed # {}
  <2>1. Max(listed) \in 1 .. Len(vocab) /\ vocab[Max(listed)] = p
    BY <1>1, <1>2, <1>5
  <2> HIDE DEF listed
  <2>2. str_to_id(vocab, p) \in 0 .. Len(vocab) - 1 /\ str_to_id(vocab, p) + 1 = Max(listed)
    BY <1>1, <1>3, <1>5, <2>1
  <2> QED
    BY <2>1, <2>2 DEF Known, NoId
<1> QED
  BY <1>4, <1>5

\* The one sequence of one element.
LEMMA SingleSeq == ASSUME NEW e PROVE SetToSeq({e}) = <<e>>
<1>1. Cardinality({e}) = 1
  BY FS_Singleton
<1>2. <<e>> \in [1 .. 1 -> {e}] /\ IsInjective(<<e>>)
  BY DEF IsInjective
<1>3. \A f \in [1 .. 1 -> {e}] : f = <<e>>
  OBVIOUS
<1>4. (CHOOSE f \in [1 .. 1 -> {e}] : IsInjective(f)) = <<e>>
  BY <1>2, <1>3, Zenon
<1> QED
  BY <1>1, <1>4 DEF SetToSeq


\* Texts split before a character.
Starts(text, ch) == Keeping([k \in DOMAIN text |-> k], LAMBDA k : k = 1 \/ text[k] = ch)

Rising(u) == \A j \in 1 .. Len(u) - 1 : u[j] < u[j + 1]

\* Where the parts begin: at the front first, and further on each time.
LEMMA StartsRise ==
  ASSUME NEW D, NEW ch, NEW text \in Seq(D)
  PROVE  /\ Starts(text, ch) \in Seq(1 .. Len(text)) /\ Rising(Starts(text, ch))
         /\ text # <<>> => Starts(text, ch) # <<>> /\ Starts(text, ch)[1] = 1
         /\ text = <<>> => Starts(text, ch) = <<>>
<1> DEFINE width == Len(text)
<1> DEFINE P == 1 .. width
<1> DEFINE f == [k \in P |-> IF k = 1 \/ text[k] = ch THEN <<k>> ELSE <<>>]
<1> DEFINE ids == [k \in DOMAIN text |-> k]
<1>1. width \in Nat /\ DOMAIN text = P /\ P \subseteq Nat
  BY LenProperties
<1>2. f \in Expands(P, P)
  <2>1. \A k \in P : (IF k = 1 \/ text[k] = ch THEN <<k>> ELSE <<>>) \in Seq(P)
    <3> HIDE DEF P
    <3> QED
      BY EmptySeq
  <2> QED
    BY <2>1 DEF Expands
<1>3. ids \in Seq(P) /\ Len(ids) = width /\ \A k \in P : ids[k] = k
  BY <1>1
<1>4. Starts(text, ch) = MapFlat(f, ids)
  <2>1. [k \in DOMAIN ids |-> IF k = 1 \/ text[k] = ch THEN <<ids[k]>> ELSE <<>>]
        = [k \in DOMAIN ids |-> f[ids[k]]]
    BY <1>1
  <2> HIDE DEF f, ids
  <2> QED
    BY <2>1, Zenon DEF Starts, Keeping, MapFlat, ids
<1>5. \A k \in P : f[k] = <<>> \/ f[k] = <<k>>
  OBVIOUS
<1>6. 1 \in P => f[1] = <<1>>
  OBVIOUS
<1> HIDE DEF f, ids
<1> DEFINE upto(c) == MapFlat(f, SubSeq(ids, 1, c))
<1> DEFINE Good(c) == /\ upto(c) \in Seq(1 .. c) /\ Rising(upto(c))
                      /\ c > 0 => upto(c) # <<>> /\ upto(c)[1] = 1
<1>7. Good(0) /\ upto(0) = <<>>
  <2>1. SubSeq(ids, 1, 0) = <<>>
    BY SubSeqEmpty
  <2>2. upto(0) = <<>>
    BY <2>1, MapFlatEmpty
  <2>3. <<>> \in Seq(1 .. 0) /\ Rising(<<>>)
    BY EmptySeq DEF Rising
  <2>4. ~ (0 > 0)
    OBVIOUS
  <2> DEFINE a0 == upto(0)
  <2>5. a0 = <<>>
    BY <2>2
  <2> HIDE DEF a0
  <2>6. a0 \in Seq(1 .. 0) /\ Rising(a0)
    BY <2>3, <2>5, Zenon
  <2>7. upto(0) \in Seq(1 .. 0) /\ Rising(upto(0))
    BY <2>6 DEF a0
  <2> HIDE DEF upto
  <2> QED
    BY <2>2, <2>4, <2>7, Zenon
<1>8. ASSUME NEW c \in P, Good(c - 1) PROVE Good(c)
  <2> DEFINE u == upto(c - 1)
  <2>1. c - 1 \in 0 .. width /\ c \in 1 .. width /\ c \in Nat
    BY <1>1
  <2>2. SubSeq(ids, 1, c - 1) \in Seq(P)
    BY <1>3, <2>1, PrefixType
  <2>3. SubSeq(ids, 1, c) = Append(SubSeq(ids, 1, c - 1), c)
    <3>1. SubSeq(ids, 1, c) = SubSeq(ids, 1, c - 1) \o <<ids[c]>>
      BY <1>3, <2>1, SubSeqRecursiveSecond
    <3> QED
      BY <1>3, <2>2, <3>1, AppendIsConcat
  <2>4. upto(c) = u \o f[c]
    <3> DEFINE v == SubSeq(ids, 1, c - 1)
    <3>1. v \in Seq(P)
      BY <2>2
    <3> HIDE DEF v, P
    <3>2. MapFlat(f, Append(v, c)) = MapFlat(f, v) \o f[c]
      BY <1>2, <3>1, MapFlatAppend
    <3> QED
      BY <2>3, <3>2 DEF v
  <2>5. /\ u \in Seq(1 .. c - 1) /\ Rising(u)
        /\ c - 1 > 0 => u # <<>> /\ u[1] = 1
    BY <1>8
  <2> DEFINE w == upto(c)
  <2>6. (f[c] = <<>> /\ c # 1) \/ f[c] = <<c>>
    BY <1>5, <1>6
  <2>7. CASE f[c] = <<>> /\ c # 1
    <3>1. w = u
      BY <2>4, <2>5, <2>7, ConcatEmptySeq
    <3>2. u \in Seq(1 .. c)
      <4>1. 1 .. c - 1 \subseteq 1 .. c
        BY <2>1
      <4> HIDE DEF u
      <4> QED
        BY <2>5, <4>1, SeqMonotonic
    <3> HIDE DEF upto, u
    <3> QED
      BY <2>1, <2>5, <2>7, <3>1, <3>2 DEF w
  <2>8. CASE f[c] = <<c>>
    <3> HIDE DEF u
    <3>1. w = u \o <<c>>
      BY <2>4, <2>8
    <3> HIDE DEF w, upto
    <3>2. u \in Seq(1 .. c) /\ c \in 1 .. c
      <4>1. 1 .. c - 1 \subseteq 1 .. c
        BY <2>1
      <4> QED
        BY <2>1, <2>5, <4>1, SeqMonotonic
    <3>3. w = Append(u, c)
      BY <3>1, <3>2, AppendIsConcat
    <3>4. /\ w \in Seq(1 .. c) /\ Len(w) = Len(u) + 1 /\ w[Len(u) + 1] = c /\ w # <<>>
          /\ \A j \in 1 .. Len(u) : w[j] = u[j]
      <4> DEFINE Q == 1 .. c
      <4>1. u \in Seq(Q) /\ c \in Q
        BY <3>2
      <4> HIDE DEF Q
      <4>2. /\ Append(u, c) \in Seq(Q) /\ Len(Append(u, c)) = Len(u) + 1
            /\ Append(u, c)[Len(u) + 1] = c /\ Append(u, c) # <<>>
            /\ \A j \in 1 .. Len(u) : Append(u, c)[j] = u[j]
        BY <4>1, AppendProperties
      <4> QED
        BY <3>3, <4>2 DEF Q
    <3>5. Len(u) \in Nat /\ \A j \in 1 .. Len(u) : u[j] \in 1 .. c - 1
      BY <2>5, LenProperties, ElementOfSeq
    <3>6. Rising(w)
      <4> SUFFICES ASSUME NEW j \in 1 .. Len(w) - 1 PROVE w[j] < w[j + 1]
        BY DEF Rising
      <4>1. j \in 1 .. Len(u) /\ w[j] = u[j]
        BY <3>4, <3>5
      <4>2. CASE j = Len(u)
        BY <2>1, <3>4, <3>5, <4>1, <4>2
      <4>3. CASE j # Len(u)
        <5>1. j + 1 \in 1 .. Len(u) /\ j \in 1 .. Len(u) - 1
          BY <3>5, <4>1, <4>3
        <5>2. w[j + 1] = u[j + 1] /\ u[j] < u[j + 1]
          BY <2>5, <3>4, <5>1 DEF Rising
        <5> QED
          BY <4>1, <5>2
      <4> QED
        BY <4>2, <4>3
    <3>7. w[1] = 1
      <4>1. CASE c = 1
        <5>1. Len(u) = 0
          BY <3>5, <4>1
        <5> QED
          BY <3>4, <4>1, <5>1
      <4>2. CASE c # 1
        <5>1. u # <<>> /\ u[1] = 1
          BY <2>1, <2>5, <4>2
        <5>2. 1 \in 1 .. Len(u)
          BY <2>5, <5>1, EmptySeq
        <5> QED
          BY <3>4, <5>1, <5>2
      <4> QED
        BY <4>1, <4>2
    <3> QED
      BY <3>4, <3>6, <3>7 DEF w
  <2> QED
    BY <2>6, <2>7, <2>8
<1> HIDE DEF Good
<1> DEFINE B == {c \in 0 .. width : ~ Good(c)}
<1>9. B = {}
  <2> SUFFICES ASSUME B # {} PROVE FALSE
    OBVIOUS
  <2>1. PICK c \in B : \A e \in B : c <= e
    <3>1. B \subseteq Nat
      BY <1>1
    <3> HIDE DEF B
    <3> QED
      BY <3>1, LeastNatural
  <2>2. c # 0
    BY <1>7
  <2>3. c - 1 \in 0 .. width /\ c - 1 \notin B /\ c \in P
    BY <1>1, <2>1, <2>2
  <2> QED
    BY <1>8, <2>1, <2>3
<1>10. Good(width) /\ width \in Nat
  BY <1>1, <1>9
<1>11. SubSeq(ids, 1, width) = ids
  BY <1>3, SubSeqFull
<1>12. upto(width) = Starts(text, ch)
  BY <1>4, <1>11
<1>13. (text = <<>> => width = 0) /\ (text # <<>> => width > 0)
  BY <1>1, EmptySeq
<1> HIDE DEF upto, width
<1>14. Good(width) => /\ upto(width) \in Seq(1 .. width) /\ Rising(upto(width))
                      /\ width > 0 => upto(width) # <<>> /\ upto(width)[1] = 1
  BY DEF Good
<1>15. width = 0 => upto(width) = <<>>
  BY <1>7
<1> QED
  BY <1>10, <1>12, <1>13, <1>14, <1>15 DEF width


\* The parts of a split text are the text.
LEMMA SplitWhole ==
  ASSUME NEW D, NEW ch, NEW text \in Seq(D)
  PROVE  SplitBefore(text, ch) \in Seq(Seq(D)) /\ FlattenSeq(SplitBefore(text, ch)) = text
<1> DEFINE st == Starts(text, ch)
<1> DEFINE m == Len(st)
<1> DEFINE until(k) == IF k = m THEN Len(text) ELSE st[k + 1] - 1
<1> DEFINE parts == [k \in DOMAIN st |-> SubSeq(text, st[k], until(k))]
<1>1. SplitBefore(text, ch) = parts
  BY Zenon DEF SplitBefore, Starts
<1>2. /\ st \in Seq(1 .. Len(text)) /\ Rising(st)
      /\ text # <<>> => st # <<>> /\ st[1] = 1
      /\ text = <<>> => st = <<>>
  BY StartsRise
<1> HIDE DEF st
<1>3. /\ Len(text) \in Nat /\ m \in Nat /\ DOMAIN st = 1 .. m
      /\ \A k \in 1 .. m : st[k] \in 1 .. Len(text)
      /\ DOMAIN text = 1 .. Len(text) /\ \A k \in 1 .. Len(text) : text[k] \in D
  BY <1>2, LenProperties, ElementOfSeq
<1> HIDE DEF m
<1>4. ASSUME NEW k \in 1 .. m
      PROVE  until(k) \in st[k] .. Len(text) /\ until(k) \in Nat /\ st[k] \in 1 .. Len(text)
  <2>1. k # m => k \in 1 .. m - 1 /\ k + 1 \in 1 .. m
    BY <1>3
  <2>2. k # m => st[k] < st[k + 1]
    BY <1>2, <2>1 DEF Rising, m
  <2> QED
    BY <1>3, <2>1, <2>2
<1> HIDE DEF until
<1>5. \A k \in 1 .. m : SubSeq(text, st[k], until(k)) \in Seq(D)
  <2> TAKE k \in 1 .. m
  <2>1. st[k] \in Int /\ until(k) \in Int /\ \A j \in st[k] .. until(k) : text[j] \in D
    BY <1>3, <1>4
  <2> QED
    BY <2>1, SubSeqProperties
<1>6. parts \in Seq(Seq(D)) /\ Len(parts) = m /\ \A k \in 1 .. m : parts[k] = SubSeq(text, st[k], until(k))
  BY <1>3, <1>5
<1> HIDE DEF parts
<1> DEFINE done(k) == IF k = 0 THEN 0 ELSE until(k)
<1> DEFINE P(k) == FlattenSeq(SubSeq(parts, 1, k)) = SubSeq(text, 1, done(k))
<1>7. P(0)
  <2>1. SubSeq(parts, 1, 0) = <<>> /\ SubSeq(text, 1, 0) = <<>> /\ done(0) = 0
    BY SubSeqEmpty
  <2> QED
    BY <2>1, FlattenEmpty
<1>8. ASSUME NEW k \in 1 .. m, P(k - 1) PROVE P(k)
  <2>1. done(k - 1) = st[k] - 1
    <3>1. CASE k = 1
      <4>1. st[1] = 1
        <5>1. st # <<>>
          BY <1>3, EmptySeq DEF m
        <5> QED
          BY <1>2, <5>1
      <4> QED
        BY <3>1, <4>1
    <3>2. CASE k # 1
      <4>1. k - 1 # m /\ k - 1 # 0 /\ k - 1 + 1 = k
        BY <1>3, <3>2
      <4> QED
        BY <4>1 DEF until
    <3> QED
      BY <3>1, <3>2
  <2>2. done(k) = until(k)
    BY <1>3
  <2> HIDE DEF done
  <2>3. k \in 1 .. Len(parts) /\ k - 1 \in 0 .. Len(parts)
    BY <1>3, <1>6
  <2> DEFINE u == SubSeq(parts, 1, k - 1)
  <2>4. u \in Seq(Seq(D)) /\ parts[k] \in Seq(D)
    BY <1>6, <2>3, PrefixType, ElementOfSeq
  <2>5. SubSeq(parts, 1, k) = Append(u, parts[k])
    <3>1. SubSeq(parts, 1, k) = u \o <<parts[k]>>
      BY <1>3, <1>6, <2>3, SubSeqRecursiveSecond
    <3> HIDE DEF u
    <3> QED
      BY <2>4, <3>1, AppendIsConcat
  <2>6. FlattenSeq(u) = SubSeq(text, 1, st[k] - 1)
    BY <1>8, <2>1
  <2> HIDE DEF u
  <2>7. FlattenSeq(Append(u, parts[k])) = FlattenSeq(u) \o parts[k]
    BY <2>4, FlattenAppend
  <2>8. parts[k] = SubSeq(text, st[k] - 1 + 1, until(k))
    BY <1>3, <1>6
  <2>9. SubSeq(text, 1, st[k] - 1) \o SubSeq(text, st[k] - 1 + 1, until(k)) = SubSeq(text, 1, until(k))
    <3>1. 1 \in 1 .. Len(text) + 1 /\ st[k] - 1 \in 1 - 1 .. Len(text) /\ until(k) \in st[k] - 1 .. Len(text)
      BY <1>3, <1>4
    <3> QED
      BY <3>1, ConcatAdjacentSubSeq
  <2> QED
    BY <2>2, <2>5, <2>6, <2>7, <2>8, <2>9
<1> HIDE DEF P
<1> DEFINE B == {k \in 0 .. m : ~ P(k)}
<1>9. B = {}
  <2> SUFFICES ASSUME B # {} PROVE FALSE
    OBVIOUS
  <2>1. PICK k \in B : \A e \in B : k <= e
    <3>1. B \subseteq Nat
      BY <1>3
    <3> HIDE DEF B
    <3> QED
      BY <3>1, LeastNatural
  <2>2. k # 0
    BY <1>7
  <2>3. k - 1 \in 0 .. m /\ k - 1 \notin B /\ k \in 1 .. m
    BY <1>3, <2>1, <2>2
  <2> QED
    BY <1>8, <2>1, <2>3
<1>10. P(m)
  BY <1>3, <1>9
<1>11. SubSeq(parts, 1, m) = parts
  BY <1>6, SubSeqFull
<1>12. SubSeq(text, 1, done(m)) = text
  <2>1. CASE m = 0
    <3>1. text = <<>>
      <4>1. st = <<>>
        BY <1>2, <2>1, EmptySeq DEF m
      <4> QED
        BY <1>2, <4>1
    <3> QED
      BY <2>1, <3>1, SubSeqEmpty
  <2>2. CASE m # 0
    BY <2>2, SubSeqFull DEF until
  <2> QED
    BY <2>1, <2>2
<1> QED
  BY <1>1, <1>6, <1>10, <1>11, <1>12 DEF P


-----------------------------------------------------------------------------
(* From a text to its words.                                               *)

Letters == {"a", "b", "sp", "x", "mark"}
Symbols == Letters \cup {"L", "U", "C"}

Kept(c, text) == IF "RemoveExtraWhitespace" \in c.steps THEN Collapsed(text) ELSE text

\* Letters are characters, and none is a byte of a wide one.
LEMMA LettersPlain == /\ Letters \subseteq Plain /\ Symbols \subseteq Chars /\ Letters \subseteq Symbols
                      /\ Plain \subseteq Chars /\ Letters \subseteq Chars
BY Literals DEF Letters, Symbols, Plain

\* Collapsing leaves characters out.
LEMMA CollapsedType ==
  ASSUME NEW D, NEW text \in Seq(D)
  PROVE  Collapsed(text) \in Seq(D)
<1> DEFINE keep(k) == \/ text[k] # "sp"
                      \/ /\ k > 1 /\ text[k - 1] # "sp"
                         /\ \E j \in k .. Len(text) : text[j] # "sp"
<1> DEFINE parts == [k \in DOMAIN text |-> IF keep(k) THEN <<text[k]>> ELSE <<>>]
<1>1. Collapsed(text) = FlattenSeq(parts)
  BY DEF Collapsed, Keeping
<1>2. Len(text) \in Nat /\ DOMAIN text = 1 .. Len(text) /\ \A k \in 1 .. Len(text) : text[k] \in D
  BY LenProperties, ElementOfSeq
<1> HIDE DEF keep
<1>3. \A k \in 1 .. Len(text) : (IF keep(k) THEN <<text[k]>> ELSE <<>>) \in Seq(D)
  BY <1>2, EmptySeq
<1>4. parts \in Seq(Seq(D))
  BY <1>2, <1>3
<1> HIDE DEF parts
<1> QED
  BY <1>1, <1>4, FlattenType

\* The normalized text, and its letters.
LEMMA NormalizeIs ==
  ASSUME NEW c, NEW D, NEW text \in Seq(D)
  PROVE  /\ normalize(c, text) = IF "PrependSpace" \in c.steps THEN <<"sp">> \o Kept(c, text) ELSE Kept(c, text)
         /\ Kept(c, text) \in Seq(D)
         /\ "sp" \in D => normalize(c, text) \in Seq(D)
<1>1. Kept(c, text) \in Seq(D)
  BY CollapsedType DEF Kept
<1>2. normalize(c, text) = IF "PrependSpace" \in c.steps THEN <<"sp">> \o Kept(c, text) ELSE Kept(c, text)
  BY DEF normalize, Kept
<1> DEFINE t == Kept(c, text)
<1>3. ASSUME "sp" \in D PROVE <<"sp">> \o t \in Seq(D)
  <2>1. t \in Seq(D) /\ <<"sp">> \in Seq(D)
    BY <1>1, <1>3
  <2> HIDE DEF t
  <2> QED
    BY <2>1, ConcatProperties
<1> QED
  BY <1>1, <1>2, <1>3

Swapped(text) == [k \in DOMAIN text |-> IF text[k] = "sp" THEN "mark" ELSE text[k]]

\* Marks stand for the spaces, and one may stand before the text.
LEMMA MarkedIs ==
  ASSUME NEW c, NEW text \in Seq(Letters)
  PROVE  /\ Marked(c, text) = IF c.prepend THEN <<"mark">> \o Swapped(text) ELSE Swapped(text)
         /\ Swapped(text) \in Seq(Letters) /\ Marked(c, text) \in Seq(Letters)
<1>1. Len(text) \in Nat /\ DOMAIN text = 1 .. Len(text) /\ \A k \in 1 .. Len(text) : text[k] \in Letters
  BY LenProperties, ElementOfSeq
<1>2. Swapped(text) \in [1 .. Len(text) -> Letters]
  BY <1>1 DEF Swapped, Letters
<1>3. Swapped(text) \in Seq(Letters)
  BY <1>1, <1>2
<1>4. <<>> \o Swapped(text) = Swapped(text)
  BY <1>3, ConcatEmptySeq
<1>5. Marked(c, text) = (IF c.prepend THEN <<"mark">> ELSE <<>>) \o Swapped(text)
  BY DEF Marked, Swapped
<1>6. <<"mark">> \o Swapped(text) \in Seq(Letters)
  <2>1. <<"mark">> \in Seq(Letters)
    BY DEF Letters
  <2> QED
    BY <1>3, <2>1, ConcatProperties
<1> QED
  BY <1>3, <1>4, <1>5, <1>6

\* Spaces come back for marks.
LEMMA SpacedSwapped ==
  ASSUME NEW text \in Seq(Letters \ {"mark"})
  PROVE  Spaced(Swapped(text)) = text /\ Spaced(text) = text
<1>1. /\ Len(text) \in Nat /\ DOMAIN text = 1 .. Len(text)
      /\ \A k \in 1 .. Len(text) : text[k] \in Letters \ {"mark"}
      /\ text = [k \in 1 .. Len(text) |-> text[k]]
  BY LenProperties, ElementOfSeq
<1>2. Spaced(text) = [k \in 1 .. Len(text) |-> text[k]]
  BY <1>1 DEF Spaced
<1>3. DOMAIN Swapped(text) = 1 .. Len(text)
  BY <1>1 DEF Swapped
<1>4. \A k \in 1 .. Len(text) : (IF Swapped(text)[k] = "mark" THEN "sp" ELSE Swapped(text)[k]) = text[k]
  BY <1>1 DEF Swapped
<1>5. Spaced(Swapped(text)) = [k \in 1 .. Len(text) |-> text[k]]
  BY <1>3, <1>4 DEF Spaced
<1> QED
  BY <1>1, <1>2, <1>5

\* A space that was put first is the one stripped.
LEMMA StripFirst ==
  ASSUME NEW D, NEW text \in Seq(D), "sp" \in D
  PROVE  StripSpace(<<"sp">> \o text) = text
<1> DEFINE w == <<"sp">> \o text
<1>1. <<"sp">> \in Seq(D) /\ Len(<<"sp">>) = 1 /\ <<"sp">>[1] = "sp" /\ Len(text) \in Nat
  BY LenProperties
<1>2. /\ w \in Seq(D) /\ Len(w) = 1 + Len(text)
      /\ \A k \in 1 .. 1 + Len(text) : w[k] = IF k <= 1 THEN <<"sp">>[k] ELSE text[k - 1]
  BY <1>1, ConcatProperties
<1> HIDE DEF w
<1>3. w # <<>> /\ Head(w) = "sp"
  BY <1>1, <1>2
<1>4. /\ Tail(w) \in Seq(D) /\ Len(Tail(w)) = Len(text)
      /\ \A k \in 1 .. Len(text) : Tail(w)[k] = w[k + 1]
  BY <1>1, <1>2, <1>3, HeadTailProperties
<1>5. \A k \in 1 .. Len(text) : Tail(w)[k] = text[k]
  BY <1>1, <1>2, <1>4
<1>6. Tail(w) = text
  BY <1>4, <1>5, SeqEqual
<1> QED
  BY <1>3, <1>6 DEF StripSpace, w


ByteLetters == {"a", "b", "sp", "L", "U", "C"}

\* The bytes of letters, whose own bytes are themselves.
LEMMA BytesOfText ==
  ASSUME NEW text \in Seq(Letters)
  PROVE  Utf8(text) \in Seq(ByteLetters) /\ Utf8(text) \in Seq(Symbols) /\ Utf8(Utf8(text)) = Utf8(text)
<1> DEFINE f == [ch \in Letters |-> Utf8Of[ch]]
<1>1. f \in Expands(Letters, ByteLetters)
  <2>1. \A ch \in Letters : Utf8Of[ch] \in Seq(ByteLetters)
    <3>1. \A ch \in {"a", "b", "sp"} : Utf8Of[ch] = <<ch>> /\ <<ch>> \in Seq(ByteLetters)
      BY Utf8OfType, Literals DEF ByteLetters
    <3>2. <<"L", "C", "C">> \in Seq(ByteLetters) /\ <<"U", "C", "C">> \in Seq(ByteLetters)
      BY DEF ByteLetters
    <3> QED
      BY <3>1, <3>2, Utf8OfType DEF Letters
  <2> QED
    BY <2>1 DEF Expands
<1>2. \A k \in DOMAIN text : text[k] \in Letters
  BY LenProperties, ElementOfSeq
<1>3. [k \in DOMAIN text |-> f[text[k]]] = [k \in DOMAIN text |-> Utf8Of[text[k]]]
  BY <1>2
<1> HIDE DEF f
<1>4. MapFlat(f, text) = MapFlat(Utf8Of, text)
  BY <1>3, Zenon DEF MapFlat
<1>5. MapFlat(f, text) \in Seq(ByteLetters)
  BY <1>1, MapFlatType, Zenon
<1>6. text \in Seq(Chars)
  BY LettersPlain, SeqMonotonic
<1>7. Utf8(text) \in Seq(ByteLetters)
  BY <1>4, <1>5, <1>6, Utf8IsMap
<1>8. ByteLetters \subseteq Chars \ {"x", "mark"} /\ ByteLetters \subseteq Symbols
  BY Literals DEF ByteLetters, Symbols, Letters
<1>9. Utf8(text) \in Seq(Chars \ {"x", "mark"}) /\ Utf8(text) \in Seq(Symbols)
  BY <1>7, <1>8, SeqMonotonic
<1> QED
  BY <1>7, <1>9, Utf8Narrow

\* The fragments of a text are the text.
LEMMA FragmentsWhole ==
  ASSUME NEW c, NEW D, NEW text \in Seq(D)
  PROVE  split_fragments(c, text) \in Seq(Seq(D)) /\ FlattenSeq(split_fragments(c, text)) = text
<1>1. CASE c.regex = "ok"
  BY <1>1, SplitWhole DEF split_fragments
<1>2. CASE c.regex # "ok"
  <2>1. FlattenSeq(<<text>>) = text
    BY FlattenThree
  <2>2. <<text>> \in Seq(Seq(D))
    OBVIOUS
  <2>3. split_fragments(c, text) = <<text>>
    BY <1>2 DEF split_fragments
  <2> QED
    BY <2>1, <2>2, <2>3, Zenon
<1> QED
  BY <1>1, <1>2

\* What the pre-tokens spell together.
Spelling(c, text) == CASE text = <<>> -> <<>>
                       [] text # <<>> /\ c.pre = "Metaspace" -> Marked(c, text)
                       [] text # <<>> /\ c.pre = "ByteLevel" -> Utf8(text)
                       [] OTHER -> text

\* The pre-tokens, one after the other, spell the text.
LEMMA PreTokensWhole ==
  ASSUME NEW c, NEW text \in Seq(Letters)
  PROVE  pre_tokenize(c, text) \in Seq(Seq(Symbols)) /\ FlattenSeq(pre_tokenize(c, text)) = Spelling(c, text)
<1>0. ASSUME NEW ws \in Seq(Seq(Letters)) PROVE ws \in Seq(Seq(Symbols))
  <2>1. Seq(Letters) \subseteq Seq(Symbols)
    BY LettersPlain, SeqMonotonic
  <2> QED
    BY <2>1, SeqMonotonic
<1>1. CASE text = <<>>
  <2>1. pre_tokenize(c, text) = <<>>
    BY <1>1 DEF pre_tokenize
  <2>2. Spelling(c, text) = <<>>
    BY <1>1 DEF Spelling
  <2> QED
    BY <2>1, <2>2, FlattenEmpty, EmptySeq
<1>2. CASE text # <<>> /\ c.pre = "Metaspace"
  <2>1. pre_tokenize(c, text) = SplitBefore(Marked(c, text), "mark") /\ Spelling(c, text) = Marked(c, text)
    BY <1>2 DEF pre_tokenize, Spelling
  <2>2. Marked(c, text) \in Seq(Letters)
    BY MarkedIs
  <2>3. /\ SplitBefore(Marked(c, text), "mark") \in Seq(Seq(Letters))
        /\ FlattenSeq(SplitBefore(Marked(c, text), "mark")) = Marked(c, text)
    BY <2>2, SplitWhole
  <2> QED
    BY <1>0, <2>1, <2>3
<1>3. CASE text # <<>> /\ c.pre = "Regex"
  <2>1. pre_tokenize(c, text) = split_fragments(c, text) /\ Spelling(c, text) = text
    BY <1>3 DEF pre_tokenize, Spelling
  <2>2. split_fragments(c, text) \in Seq(Seq(Letters)) /\ FlattenSeq(split_fragments(c, text)) = text
    BY FragmentsWhole
  <2> QED
    BY <1>0, <2>1, <2>2
<1>4. CASE text # <<>> /\ c.pre = "ByteLevel"
  <2> DEFINE fs == split_fragments(c, text)
  <2> DEFINE ws == [k \in DOMAIN fs |-> Utf8(fs[k])]
  <2>1. pre_tokenize(c, text) = ws /\ Spelling(c, text) = Utf8(text)
    BY <1>4 DEF pre_tokenize, Spelling
  <2>2. fs \in Seq(Seq(Letters)) /\ FlattenSeq(fs) = text
    BY FragmentsWhole
  <2> HIDE DEF fs
  <2>3. Len(fs) \in Nat /\ DOMAIN fs = 1 .. Len(fs) /\ \A k \in 1 .. Len(fs) : fs[k] \in Seq(Letters)
    BY <2>2, LenProperties, ElementOfSeq
  <2>4. \A k \in 1 .. Len(fs) : Utf8(fs[k]) \in Seq(Symbols) /\ fs[k] \in Seq(Chars)
    BY <2>3, BytesOfText, LettersPlain, SeqMonotonic
  <2>5. ws \in Seq(Seq(Symbols))
    BY <2>3, <2>4
  <2>6. ws = [k \in DOMAIN fs |-> MapFlat(Utf8Of, fs[k])]
    BY <2>3, <2>4, Utf8IsMap
  <2>7. fs \in Seq(Seq(Chars)) /\ text \in Seq(Chars)
    <3>1. Seq(Letters) \subseteq Seq(Chars)
      BY LettersPlain, SeqMonotonic
    <3> QED
      BY <2>2, <3>1, SeqMonotonic
  <2>8. MapFlat(Utf8Of, FlattenSeq(fs)) = FlattenSeq([k \in DOMAIN fs |-> MapFlat(Utf8Of, fs[k])])
    BY <2>7, Utf8OfType, MapFlatNested
  <2> QED
    BY <2>1, <2>2, <2>5, <2>6, <2>7, <2>8, Utf8IsMap
<1>5. CASE text # <<>> /\ c.pre \notin {"Metaspace", "Regex", "ByteLevel"}
  <2>1. pre_tokenize(c, text) = <<text>> /\ Spelling(c, text) = text
    BY <1>5 DEF pre_tokenize, Spelling
  <2>2. FlattenSeq(<<text>>) = text
    BY FlattenThree
  <2>3. <<text>> \in Seq(Seq(Letters))
    OBVIOUS
  <2>4. <<text>> \in Seq(Seq(Symbols))
    BY <1>0, <2>3, Zenon
  <2> QED
    BY <2>1, <2>2, <2>4
<1> QED
  BY <1>1, <1>2, <1>3, <1>4, <1>5

\* Empty parts add nothing.
LEMMA FlattenOmitsEmpty ==
  ASSUME NEW D, NEW ss \in Seq(Seq(D))
  PROVE  FlattenSeq(Omitting(ss, <<>>)) = FlattenSeq(ss)
<1> DEFINE f == OmitOf(Seq(D), <<>>)
<1> DEFINE G == {us \in Seq(Seq(D)) : FlattenSeq(MapFlat(f, us)) = FlattenSeq(us)}
<1>1. f \in Expands(Seq(D), Seq(D)) /\ Omitting(ss, <<>>) = MapFlat(f, ss)
  BY OmittingIsMap
<1>2. <<>> \in G
  BY FlattenEmpty, MapFlatEmpty, EmptySeq
<1>3. ASSUME NEW us \in Seq(Seq(D)), NEW u \in Seq(D), us \in G PROVE Append(us, u) \in G
  <2>1. f[u] = IF u # <<>> THEN <<u>> ELSE <<>>
    BY DEF OmitOf
  <2> HIDE DEF f
  <2>2. Append(us, u) \in Seq(Seq(D)) /\ FlattenSeq(us) \in Seq(D)
    BY AppendProperties, FlattenType
  <2>3. FlattenSeq(Append(us, u)) = FlattenSeq(us) \o u
    BY FlattenAppend
  <2> DEFINE m == MapFlat(f, us)
  <2>4. m \in Seq(Seq(D)) /\ FlattenSeq(m) = FlattenSeq(us)
    BY <1>1, <1>3, MapFlatType
  <2>5. MapFlat(f, Append(us, u)) = m \o f[u]
    BY <1>1, MapFlatAppend
  <2> HIDE DEF m
  <2>6. CASE u = <<>>
    <3>1. m \o <<>> = m /\ FlattenSeq(us) \o <<>> = FlattenSeq(us)
      BY <2>2, <2>4, ConcatEmptySeq
    <3> QED
      BY <2>1, <2>2, <2>3, <2>4, <2>5, <2>6, <3>1
  <2>7. CASE u # <<>>
    <3>1. m \o <<u>> = Append(m, u)
      BY <2>4, AppendIsConcat
    <3>2. FlattenSeq(Append(m, u)) = FlattenSeq(m) \o u
      BY <2>4, FlattenAppend
    <3> QED
      BY <2>1, <2>2, <2>3, <2>4, <2>5, <2>7, <3>1, <3>2
  <2> QED
    BY <2>6, <2>7
<1> HIDE DEF G
<1>4. ss \in G
  BY <1>2, <1>3, SeqInduct
<1> QED
  BY <1>1, <1>4 DEF G

\* A WordPiece model's words: what lies between the spaces.
LEMMA WordPieceWords ==
  ASSUME NEW c, NEW text \in Seq(Letters), c.algorithm = "WordPiece"
  PROVE  /\ WordsOf(c, text) \in Seq(Seq(Letters \ {"sp"}) \ {<<>>})
         /\ FlattenSeq(WordsOf(c, text)) = Omitting(text, "sp")
<1> DEFINE parts == SplitBefore(text, "sp")
<1> DEFINE cut == [k \in DOMAIN parts |-> Omitting(parts[k], "sp")]
<1> DEFINE E == Letters \ {"sp"}
<1> DEFINE f == OmitOf(Letters, "sp")
<1>1. WordsOf(c, text) = Omitting(cut, <<>>)
  BY DEF WordsOf
<1>2. parts \in Seq(Seq(Letters)) /\ FlattenSeq(parts) = text
  BY SplitWhole
<1> HIDE DEF parts
<1>3. Len(parts) \in Nat /\ DOMAIN parts = 1 .. Len(parts) /\ \A k \in 1 .. Len(parts) : parts[k] \in Seq(Letters)
  BY <1>2, LenProperties, ElementOfSeq
<1>4. \A k \in 1 .. Len(parts) : Omitting(parts[k], "sp") \in Seq(E) /\ Omitting(parts[k], "sp") = MapFlat(f, parts[k])
  BY <1>3, OmittingIsMap
<1>5. f \in Expands(Letters, Letters) /\ Omitting(text, "sp") = MapFlat(f, text)
  BY OmittingIsMap
<1> HIDE DEF E, f
<1>6. cut \in Seq(Seq(E)) /\ cut = [k \in DOMAIN parts |-> MapFlat(f, parts[k])]
  BY <1>3, <1>4
<1>7. MapFlat(f, FlattenSeq(parts)) = FlattenSeq([k \in DOMAIN parts |-> MapFlat(f, parts[k])])
  BY <1>2, <1>5, MapFlatNested
<1> HIDE DEF cut
<1>8. FlattenSeq(Omitting(cut, <<>>)) = FlattenSeq(cut)
  BY <1>6, FlattenOmitsEmpty
<1>9. Omitting(cut, <<>>) \in Seq(Seq(E) \ {<<>>})
  BY <1>6, OmittingIsMap
<1> QED
  BY <1>1, <1>2, <1>5, <1>6, <1>7, <1>8, <1>9 DEF E

-----------------------------------------------------------------------------
(* What a tokenizer file that is read becomes.                             *)

\* What the codec's configurations have in common.
MergesJoin(c) ==
  \A m \in c.merges : \A left, right :
    m.pair = <<left, right>> =>
      /\ left # <<>> /\ right # <<>> /\ Known(c.vocab, left \o right)
      /\ c.byte_fallback => NamesNoByte(left) /\ NamesNoByte(right)
RanksBounded(c) == \E bound \in Nat : \A m \in c.merges : m.rank \in 0 .. bound
Consistent(c) ==
  /\ c.algorithm \in {"BPE", "Unigram", "WordPiece"}
  /\ c.vocab \in Seq(Seq(Chars))
  /\ "steps" \in DOMAIN c
  /\ "PrependSpace" \in c.steps => c.pre = "None"
  /\ c.pre = "ByteLevel" \/ c.algorithm = "WordPiece" => c.steps = {}
  /\ c.prepend \in BOOLEAN /\ (c.prepend => c.pre = "Metaspace")
  /\ c.algorithm = "WordPiece" => ~c.byte_fallback /\ c.cap \in Nat
  /\ c.algorithm = "BPE" => MergesJoin(c) /\ RanksBounded(c)
  /\ c.algorithm = "Unigram" /\ ~c.byte_fallback => \A k \in DOMAIN c.vocab : NamesNoByte(c.vocab[k])
GoodCodec(c) == Consistent(c) /\ c.bos \in Int

\* A function has a finite range on a finite set.
LEMMA FiniteImage ==
  ASSUME NEW S, IsFiniteSet(S), NEW f, DOMAIN f = S
  PROVE  IsFiniteSet({f[x] : x \in S})
<1> DEFINE T == {f[x] : x \in S}
<1> DEFINE g == [x \in S |-> f[x]]
<1>1. g \in [S -> T] /\ \A y \in T : \E x \in S : g[x] = y
  OBVIOUS
<1>2. g \in Surjection(S, T)
  BY <1>1 DEF Surjection
<1> HIDE DEF g, T
<1>3. IsFiniteSet(T)
  BY <1>2, FS_Surjection
<1> QED
  BY <1>3 DEF T

\* The names of a vocabulary given as pairs are texts, each at its id.
LEMMA VocabMapType ==
  ASSUME NEW C, NEW listed, listed \subseteq Seq(C) \X Nat,
         NEW bound \in Nat, \A p \in listed : p[2] <= bound
  PROVE  from_vocab_map(listed) \in Seq(Seq(C))
<1> DEFINE ids == {p[2] : p \in listed} \cup {0}
<1> DEFINE m == Max(ids)
<1> DEFINE name(k) == IF \E p \in listed : p[2] = k - 1 THEN (CHOOSE p \in listed : p[2] = k - 1)[1] ELSE <<>>
<1>1. \A p \in listed : p[1] \in Seq(C) /\ p[2] \in 0 .. bound
  OBVIOUS
<1>2. m \in 0 .. bound
  <2>1. ids \subseteq 0 .. bound /\ ids # {}
    BY <1>1
  <2> HIDE DEF ids
  <2>2. Max(ids) \in ids
    BY <2>1, MaxOfBounded
  <2> QED
    BY <2>1, <2>2
<1>3. ASSUME NEW k \in 1 .. m + 1 PROVE name(k) \in Seq(C)
  <2>1. CASE \E p \in listed : p[2] = k - 1
    <3> DEFINE q == CHOOSE p \in listed : p[2] = k - 1
    <3>1. q \in listed
      BY <2>1
    <3>2. name(k) = q[1]
      BY <2>1
    <3> HIDE DEF q
    <3> QED
      BY <1>1, <3>1, <3>2
  <2>2. CASE ~ \E p \in listed : p[2] = k - 1
    BY <2>2, EmptySeq
  <2> QED
    BY <2>1, <2>2
<1>4. from_vocab_map(listed) = [k \in 1 .. m + 1 |-> name(k)]
  BY DEF from_vocab_map
<1> HIDE DEF m, name
<1>5. m + 1 \in Nat
  BY <1>2
<1> QED
  BY <1>3, <1>4, <1>5

\* The vocabulary of a tokenizer.json is a sequence of texts.
LEMMA JsonVocabType ==
  ASSUME NEW f, WellFormedJson(f)
  PROVE  JsonVocab(f) \in Seq(Seq(Chars))
<1> DEFINE C == STRING
<1>1. f.vocab \in Seq(Seq(C)) /\ f.added \in Seq(Seq(C) \X Nat)
  BY DEF WellFormedJson
<1>2. Seq(Seq(C)) \subseteq Seq(Seq(Chars))
  <2>1. Seq(C) \subseteq Seq(Chars)
    BY SeqMonotonic DEF Chars
  <2> QED
    BY <2>1, SeqMonotonic
<1> HIDE DEF C
<1>3. CASE f.kind = "Unigram"
  BY <1>1, <1>2, <1>3 DEF JsonVocab
<1>4. CASE f.kind # "Unigram"
  <2> DEFINE S == {<<f.vocab[k], k - 1>> : k \in DOMAIN f.vocab}
  <2> DEFINE fresh == {k \in DOMAIN f.added : f.kind = "BPE" /\ f.added[k][1] \notin ToSet(f.vocab)}
  <2> DEFINE A == {f.added[k] : k \in fresh}
  <2>1. JsonVocab(f) = from_vocab_map(S \cup A)
    BY <1>4 DEF JsonVocab
  <2>2. Len(f.vocab) \in Nat /\ DOMAIN f.vocab = 1 .. Len(f.vocab) /\ \A k \in 1 .. Len(f.vocab) : f.vocab[k] \in Seq(C)
    BY <1>1, LenProperties, ElementOfSeq
  <2>3. /\ Len(f.added) \in Nat /\ DOMAIN f.added = 1 .. Len(f.added)
        /\ \A k \in 1 .. Len(f.added) : f.added[k] \in Seq(C) \X Nat
    BY <1>1, LenProperties, ElementOfSeq
  <2>4. S \subseteq Seq(C) \X Nat /\ \A p \in S : p[2] <= Len(f.vocab)
    BY <2>2
  <2>5. PICK b \in Nat : \A k \in 1 .. Len(f.added) : f.added[k][2] <= b
    <3> DEFINE idOf == [k \in 1 .. Len(f.added) |-> f.added[k][2]]
    <3>1. idOf \in [1 .. Len(f.added) -> Nat]
      BY <2>3
    <3>2. IsFiniteSet(1 .. Len(f.added))
      BY <2>3, FS_Interval
    <3> HIDE DEF idOf
    <3>3. \E b \in Nat : \A k \in 1 .. Len(f.added) : idOf[k] <= b
      BY <3>1, <3>2, FiniteBound
    <3> QED
      BY <3>3 DEF idOf
  <2>6. A \subseteq Seq(C) \X Nat /\ \A p \in A : p[2] <= b
    BY <2>3, <2>5
  <2> HIDE DEF S, A
  <2>7. S \cup A \subseteq Seq(C) \X Nat /\ \A p \in S \cup A : p[2] <= Len(f.vocab) + b
    <3>1. \A p \in S \cup A : p \in Seq(C) \X Nat /\ p[2] \in Nat
      BY <2>4, <2>6
    <3>2. \A p \in S \cup A : p[2] <= Len(f.vocab) \/ p[2] <= b
      BY <2>4, <2>6
    <3> QED
      BY <2>2, <2>5, <3>1, <3>2
  <2>8. Len(f.vocab) + b \in Nat
    BY <2>2, <2>5
  <2>9. from_vocab_map(S \cup A) \in Seq(Seq(C))
    BY <2>7, <2>8, VocabMapType
  <2> QED
    BY <1>2, <2>1, <2>9
<1> QED
  BY <1>3, <1>4

\* A tokenizer.json that is read gives a consistent configuration.
LEMMA JsonConsistent ==
  ASSUME NEW f, WellFormedJson(f), f.kind \in {"BPE", "Unigram", "WordPiece"}
  PROVE  GoodCodec(from_json(f))
<1> DEFINE c == from_json(f)
<1>1. /\ c.algorithm = f.kind /\ c.vocab = JsonVocab(f) /\ c.steps = {} /\ c.pre = f.pre /\ c.prepend = f.prepend
      /\ c.byte_fallback = (f.fallback /\ f.kind # "WordPiece") /\ c.cap = f.cap
      /\ c.merges = {[pair |-> f.merges[k], rank |-> k] : k \in DOMAIN f.merges}
      /\ c.bos = AddedId(f, <<"<s>">>, NoId) /\ "steps" \in DOMAIN c
  BY DEF from_json
<1> HIDE DEF c
<1>2. c.vocab \in Seq(Seq(Chars))
  BY <1>1, JsonVocabType
<1>3. /\ f.prepend \in BOOLEAN /\ (f.prepend => f.pre = "Metaspace") /\ f.cap \in Nat
      /\ f.merges \in Seq(Seq(STRING) \X Seq(STRING)) /\ f.added \in Seq(Seq(STRING) \X Nat)
  BY DEF WellFormedJson
<1>4. MergesJoin(c)
  <2> SUFFICES ASSUME NEW k \in DOMAIN f.merges, NEW left, NEW right, f.merges[k] = <<left, right>>
               PROVE  /\ left # <<>> /\ right # <<>> /\ Known(c.vocab, left \o right)
                      /\ c.byte_fallback => NamesNoByte(left) /\ NamesNoByte(right)
    BY <1>1 DEF MergesJoin
  <2>1. f.merges[k][1] = left /\ f.merges[k][2] = right
    OBVIOUS
  <2> QED
    BY <1>1, <2>1 DEF WellFormedJson
<1>5. RanksBounded(c)
  <2>1. Len(f.merges) \in Nat /\ DOMAIN f.merges = 1 .. Len(f.merges)
    BY <1>3, LenProperties
  <2>2. \A m \in c.merges : m.rank \in 0 .. Len(f.merges)
    BY <1>1, <2>1
  <2> QED
    BY <2>1, <2>2 DEF RanksBounded
<1>6. c.bos \in Int
  <2> DEFINE named == {k \in DOMAIN f.added : f.added[k][1] = <<"<s>">>}
  <2>1. /\ Len(f.added) \in Nat /\ DOMAIN f.added = 1 .. Len(f.added)
        /\ \A k \in 1 .. Len(f.added) : f.added[k] \in Seq(STRING) \X Nat
    BY <1>3, LenProperties, ElementOfSeq
  <2>2. named \subseteq 0 .. Len(f.added)
    BY <2>1
  <2>3. named # {} => Max(named) \in DOMAIN f.added
    <3>1. \A k \in named : k \in DOMAIN f.added
      OBVIOUS
    <3> HIDE DEF named
    <3> QED
      BY <2>1, <2>2, <3>1, MaxOfBounded
  <2>4. c.bos = IF named = {} THEN NoId ELSE f.added[Max(named)][2]
    BY <1>1 DEF AddedId
  <2> HIDE DEF named
  <2>5. named # {} => f.added[Max(named)] \in Seq(STRING) \X Nat
    BY <2>1, <2>3
  <2> QED
    BY <2>4, <2>5 DEF NoId
<1>7. c.algorithm = "Unigram" /\ ~c.byte_fallback => \A k \in DOMAIN c.vocab : NamesNoByte(c.vocab[k])
  BY <1>1 DEF WellFormedJson, JsonVocab
<1>8. Consistent(c)
  BY <1>1, <1>2, <1>3, <1>4, <1>5, <1>7 DEF Consistent
<1> QED
  BY <1>6, <1>8 DEF GoodCodec, c

\* The merges derived from a SentencePiece model join pieces to a piece, and
\* their ranks are bounded.
LEMMA DerivedMerges ==
  ASSUME NEW f, WellFormedModel(f), NEW m \in derive_bpe_merges(f)
  PROVE  /\ \E piece \in NormalPieces(f), left, right \in NormalPieces(f) :
              /\ m.pair = <<left, right>> /\ left \o right = piece /\ left # <<>> /\ right # <<>>
              /\ \E k \in DOMAIN f.pieces : f.pieces[k].chars = piece
<1> DEFINE half(c) == LET p == f.pieces[c[1]].chars
                      IN <<SubSeq(p, 1, c[2]), SubSeq(p, c[2] + 1, Len(p))>>
<1> DEFINE splits == UNION {{<<k, j>> : j \in 1 .. Len(f.pieces[k].chars) - 1} :
                              k \in {j \in DOMAIN f.pieces : f.pieces[j].type = "normal"}}
<1> DEFINE candidates == {c \in splits : \A side \in {1, 2} : half(c)[side] \in NormalPieces(f)}
<1> DEFINE rank(c) == Cardinality({d \in candidates : RanksBefore(f, d, c)})
<1>1. derive_bpe_merges(f) = {[pair |-> half(c), rank |-> rank(c)] : c \in candidates}
  BY DEF derive_bpe_merges
<1> HIDE DEF rank
<1>2. PICK c \in candidates : m.pair = half(c)
  <2> HIDE DEF half, candidates
  <2> QED
    BY <1>1
<1>3. PICK k \in DOMAIN f.pieces :
        f.pieces[k].type = "normal" /\ \E j \in 1 .. Len(f.pieces[k].chars) - 1 : c = <<k, j>>
  BY <1>2
<1>12. PICK j \in 1 .. Len(f.pieces[k].chars) - 1 : c = <<k, j>>
  BY <1>3
<1> DEFINE p == f.pieces[k].chars
<1> DEFINE left == SubSeq(p, 1, j)
<1> DEFINE right == SubSeq(p, j + 1, Len(p))
<1>4. half(c) = <<left, right>>
  BY <1>12
<1>5. left \in NormalPieces(f) /\ right \in NormalPieces(f)
  <2>1. half(c)[1] \in NormalPieces(f) /\ half(c)[2] \in NormalPieces(f)
    BY <1>2
  <2> HIDE DEF left, right
  <2> QED
    BY <1>4, <2>1
<1>6. p \in NormalPieces(f)
  BY <1>3 DEF NormalPieces
<1>7. p \in Seq(STRING)
  <2> DEFINE R == [chars : Seq(STRING), score : Int, type : STRING]
  <2>1. f.pieces \in Seq(R)
    BY DEF WellFormedModel
  <2>2. \A r0 \in R : r0.chars \in Seq(STRING)
    OBVIOUS
  <2> HIDE DEF R
  <2>3. f.pieces[k] \in R
    BY <2>1, LenProperties, ElementOfSeq
  <2> QED
    BY <2>2, <2>3
<1> HIDE DEF p
<1>8. Len(p) \in Nat /\ DOMAIN p = 1 .. Len(p) /\ \A h \in 1 .. Len(p) : p[h] \in STRING
  BY <1>7, LenProperties, ElementOfSeq
<1>9. j \in 1 .. Len(p) - 1
  BY <1>12 DEF p
<1>10. left \o right = p
  <2>1. 1 \in 1 .. Len(p) + 1 /\ j \in 1 - 1 .. Len(p) /\ Len(p) \in j .. Len(p)
    BY <1>8, <1>9
  <2>2. SubSeq(p, 1, j) \o SubSeq(p, j + 1, Len(p)) = SubSeq(p, 1, Len(p))
    BY <1>7, <2>1, ConcatAdjacentSubSeq
  <2> QED
    BY <1>7, <2>2, SubSeqFull
<1>11. left # <<>> /\ right # <<>>
  <2>1. \A h \in 1 .. j : p[h] \in STRING
    BY <1>8, <1>9
  <2>2. Len(left) = j
    BY <1>8, <1>9, <2>1, SubSeqProperties
  <2>3. \A h \in j + 1 .. Len(p) : p[h] \in STRING
    BY <1>8, <1>9
  <2>4. Len(right) = Len(p) - j
    BY <1>8, <1>9, <2>3, SubSeqProperties
  <2> HIDE DEF left, right
  <2> QED
    BY <1>8, <1>9, <2>2, <2>4, EmptySeq
<1> HIDE DEF left, right, half
<1> QED
  BY <1>2, <1>3, <1>4, <1>5, <1>6, <1>10, <1>11 DEF p

\* The ranks of derived pairs are bounded.
LEMMA DerivedRanks ==
  ASSUME NEW f, WellFormedModel(f)
  PROVE  \E bound \in Nat : \A m \in derive_bpe_merges(f) : m.rank \in 0 .. bound
<1> DEFINE half(c) == LET p == f.pieces[c[1]].chars
                      IN <<SubSeq(p, 1, c[2]), SubSeq(p, c[2] + 1, Len(p))>>
<1> DEFINE normal == {k \in DOMAIN f.pieces : f.pieces[k].type = "normal"}
<1> DEFINE cuts == [k \in normal |-> {<<k, j>> : j \in 1 .. Len(f.pieces[k].chars) - 1}]
<1> DEFINE splits == UNION {{<<k, j>> : j \in 1 .. Len(f.pieces[k].chars) - 1} : k \in normal}
<1> DEFINE candidates == {c \in splits : \A side \in {1, 2} : half(c)[side] \in NormalPieces(f)}
<1> DEFINE rank(c) == Cardinality({d \in candidates : RanksBefore(f, d, c)})
<1>1. derive_bpe_merges(f) = {[pair |-> half(c), rank |-> rank(c)] : c \in candidates}
  BY DEF derive_bpe_merges
<1> DEFINE R == [chars : Seq(STRING), score : Int, type : STRING]
<1>2. f.pieces \in Seq(R)
  BY DEF WellFormedModel
<1>3. \A r0 \in R : r0.chars \in Seq(STRING)
  OBVIOUS
<1> HIDE DEF R
<1>4. Len(f.pieces) \in Nat /\ DOMAIN f.pieces = 1 .. Len(f.pieces) /\ \A k \in 1 .. Len(f.pieces) : f.pieces[k] \in R
  BY <1>2, LenProperties, ElementOfSeq
<1>5. IsFiniteSet(normal)
  <2>1. IsFiniteSet(1 .. Len(f.pieces)) /\ normal \in SUBSET (1 .. Len(f.pieces))
    BY <1>4, FS_Interval
  <2> HIDE DEF normal
  <2> QED
    BY <2>1, FS_Subset
<1>6. \A k \in normal : IsFiniteSet({<<k, j>> : j \in 1 .. Len(f.pieces[k].chars) - 1})
  <2> TAKE k \in normal
  <2> DEFINE m == Len(f.pieces[k].chars) - 1
  <2>1. m \in Int
    BY <1>3, <1>4, LenProperties
  <2> DEFINE g == [j \in 1 .. m |-> <<k, j>>]
  <2>2. DOMAIN g = 1 .. m /\ {<<k, j>> : j \in 1 .. m} = {g[j] : j \in 1 .. m}
    OBVIOUS
  <2> HIDE DEF m, g
  <2>3. IsFiniteSet(1 .. m)
    BY <2>1, FS_Interval
  <2>4. IsFiniteSet({g[j] : j \in 1 .. m})
    BY <2>2, <2>3, FiniteImage
  <2>5. IsFiniteSet({<<k, j>> : j \in 1 .. m})
    BY <2>2, <2>4
  <2> QED
    BY <2>5 DEF m
<1>7. IsFiniteSet(splits)
  <2> DEFINE T == {cuts[k] : k \in normal}
  <2>1. IsFiniteSet(T)
    <3>1. DOMAIN cuts = normal
      OBVIOUS
    <3> HIDE DEF cuts, normal
    <3> QED
      BY <1>5, <3>1, FiniteImage
  <2>2. \A s \in T : IsFiniteSet(s)
    BY <1>6
  <2>3. splits = UNION T
    <3> DEFINE U == {{<<k, j>> : j \in 1 .. Len(f.pieces[k].chars) - 1} : k \in normal}
    <3>1. splits = UNION U
      OBVIOUS
    <3>2. U = T
      <4> HIDE DEF normal
      <4> QED
        OBVIOUS
    <3> QED
      BY <3>1, <3>2, Zenon
  <2> HIDE DEF splits, T
  <2> QED
    BY <2>1, <2>2, <2>3, FS_UNION
<1> HIDE DEF half, splits
<1>8. candidates \in SUBSET splits
  OBVIOUS
<1> HIDE DEF candidates
<1>9. IsFiniteSet(candidates)
  BY <1>7, <1>8, FS_Subset
<1>10. Cardinality(candidates) \in Nat
  BY <1>9, FS_CardinalityType
<1>11. \A c \in candidates : rank(c) \in 0 .. Cardinality(candidates)
  <2> TAKE c \in candidates
  <2> DEFINE T == {d \in candidates : RanksBefore(f, d, c)}
  <2>1. T \in SUBSET candidates
    OBVIOUS
  <2> HIDE DEF T
  <2>2. IsFiniteSet(T) /\ Cardinality(T) <= Cardinality(candidates)
    BY <1>9, <2>1, FS_Subset
  <2>3. Cardinality(T) \in Nat
    BY <2>2, FS_CardinalityType
  <2>4. Cardinality(T) \in 0 .. Cardinality(candidates)
    BY <1>10, <2>2, <2>3
  <2> QED
    BY <2>4 DEF T
<1> HIDE DEF rank
<1>12. \A m \in derive_bpe_merges(f) : m.rank \in 0 .. Cardinality(candidates)
  BY <1>1, <1>11
<1> QED
  BY <1>10, <1>12

\* A tokenizer.model that is read gives a consistent configuration.
LEMMA ModelConsistent ==
  ASSUME NEW f, WellFormedModel(f), f.kind \in {"BPE", "Unigram"}
  PROVE  GoodCodec(config_from_model_proto(f))
<1> DEFINE c == config_from_model_proto(f)
<1>1. /\ c.algorithm = f.kind /\ c.vocab = [k \in DOMAIN f.pieces |-> f.pieces[k].chars]
      /\ c.merges = IF f.kind = "BPE" THEN derive_bpe_merges(f) ELSE {}
      /\ c.steps = (IF f.collapse THEN {"RemoveExtraWhitespace"} ELSE {})
                     \cup (IF f.prefix /\ ~f.escape THEN {"PrependSpace"} ELSE {})
      /\ c.pre = (IF f.escape THEN "Metaspace" ELSE "None") /\ c.prepend = (f.escape /\ f.prefix)
      /\ c.byte_fallback = f.fallback /\ c.bos = (IF f.bos < 0 THEN NoId ELSE f.bos)
      /\ "steps" \in DOMAIN c
  BY DEF config_from_model_proto
<1> HIDE DEF c
<1>2. f.bos \in Int /\ f.prefix \in BOOLEAN /\ f.escape \in BOOLEAN
  BY DEF WellFormedModel
<1>3. c.vocab \in Seq(Seq(Chars)) /\ DOMAIN c.vocab = DOMAIN f.pieces
      /\ \A k \in DOMAIN f.pieces : c.vocab[k] = f.pieces[k].chars
  <2> DEFINE R == [chars : Seq(STRING), score : Int, type : STRING]
  <2>1. f.pieces \in Seq(R)
    BY DEF WellFormedModel
  <2>2. \A r0 \in R : r0.chars \in Seq(STRING)
    OBVIOUS
  <2> HIDE DEF R
  <2>3. Len(f.pieces) \in Nat /\ DOMAIN f.pieces = 1 .. Len(f.pieces) /\ \A k \in 1 .. Len(f.pieces) : f.pieces[k] \in R
    BY <2>1, LenProperties, ElementOfSeq
  <2>4. Seq(STRING) \subseteq Seq(Chars)
    BY SeqMonotonic DEF Chars
  <2>5. \A k \in 1 .. Len(f.pieces) : f.pieces[k].chars \in Seq(Chars)
    BY <2>2, <2>3, <2>4
  <2> QED
    BY <1>1, <2>3, <2>5
<1>4. c.algorithm = "BPE" => MergesJoin(c) /\ RanksBounded(c)
  <2> SUFFICES ASSUME f.kind = "BPE" PROVE MergesJoin(c) /\ RanksBounded(c)
    BY <1>1
  <2>1. c.merges = derive_bpe_merges(f)
    BY <1>1
  <2>2. RanksBounded(c)
    BY <2>1, DerivedRanks DEF RanksBounded
  <2>3. ASSUME NEW m \in c.merges, NEW left, NEW right, m.pair = <<left, right>>
        PROVE  /\ left # <<>> /\ right # <<>> /\ Known(c.vocab, left \o right)
               /\ c.byte_fallback => NamesNoByte(left) /\ NamesNoByte(right)
    <3>1. PICK piece \in NormalPieces(f), lhs \in NormalPieces(f), rhs \in NormalPieces(f) :
            /\ m.pair = <<lhs, rhs>> /\ lhs \o rhs = piece /\ lhs # <<>> /\ rhs # <<>>
            /\ \E k \in DOMAIN f.pieces : f.pieces[k].chars = piece
      BY <2>1, <2>3, DerivedMerges, Zenon
    <3>2. lhs = left /\ rhs = right
      BY <2>3, <3>1
    <3>3. Known(c.vocab, left \o right)
      <4>1. PICK k \in DOMAIN f.pieces : f.pieces[k].chars = piece
        BY <3>1
      <4>2. k \in 1 .. Len(c.vocab) /\ c.vocab[k] = piece
        BY <1>3, <4>1, LenProperties
      <4>3. Known(c.vocab, piece)
        BY <1>3, <4>2, PieceListed
      <4> QED
        BY <3>1, <3>2, <4>3
    <3>4. NamesNoByte(left) /\ NamesNoByte(right)
      BY <3>1, <3>2 DEF WellFormedModel
    <3> QED
      BY <3>1, <3>2, <3>3, <3>4
  <2> QED
    BY <2>2, <2>3 DEF MergesJoin
<1>5. c.algorithm = "Unigram" /\ ~c.byte_fallback => \A k \in DOMAIN c.vocab : NamesNoByte(c.vocab[k])
  BY <1>1, <1>3 DEF WellFormedModel
<1>6. /\ "PrependSpace" \in c.steps => c.pre = "None"
      /\ c.pre # "ByteLevel" /\ c.algorithm # "WordPiece" /\ c.algorithm \in {"BPE", "Unigram", "WordPiece"}
      /\ c.prepend \in BOOLEAN /\ (c.prepend => c.pre = "Metaspace") /\ c.bos \in Int
  BY <1>1, <1>2 DEF NoId
<1>7. GoodCodec(c)
  BY <1>1, <1>3, <1>4, <1>5, <1>6 DEF Consistent, GoodCodec
<1> QED
  BY <1>7 DEF c

\* The file next to it changes the ids of bos and eos, and whether bos is added.
LEMMA SiblingKeeps ==
  ASSUME NEW c, GoodCodec(c), NEW sibling
  PROVE  GoodCodec(WithSibling(c, sibling))
<1> DEFINE from_sibling(name, id) == IF name # <<>> /\ Known(c.vocab, name) THEN str_to_id(c.vocab, name) ELSE id
<1> DEFINE d == [c EXCEPT !.eos = from_sibling(sibling.eos, @), !.bos = from_sibling(sibling.bos, @),
                          !.add_bos = IF sibling.add_bos = "unset" THEN @ ELSE sibling.add_bos = "yes"]
<1>1. WithSibling(c, sibling) = IF sibling = NoSibling THEN c ELSE d
  BY DEF WithSibling
<1>2. from_sibling(sibling.bos, c.bos) \in Int
  BY PieceListed DEF GoodCodec, Consistent
<1> HIDE DEF from_sibling
<1>3. /\ d.algorithm = c.algorithm /\ d.vocab = c.vocab /\ d.steps = c.steps /\ d.pre = c.pre
      /\ d.prepend = c.prepend /\ d.byte_fallback = c.byte_fallback /\ d.merges = c.merges /\ d.cap = c.cap
      /\ DOMAIN d = DOMAIN c /\ (d.bos = c.bos \/ d.bos = from_sibling(sibling.bos, c.bos))
  OBVIOUS
<1> HIDE DEF d
<1>4. GoodCodec(d)
  BY <1>2, <1>3 DEF GoodCodec, Consistent, MergesJoin, RanksBounded
<1> QED
  BY <1>1, <1>4

\* A file that is read gives a consistent configuration.
LEMMA LoadedGood ==
  ASSUME NEW f \in TokenizerFiles, ~LoadRefused(f)
  PROVE  GoodCodec(WithSibling(IF f.format = "model" THEN config_from_model_proto(f) ELSE from_json(f), f.sibling))
<1>1. CASE f.format = "model"
  <2>1. WellFormedModel(f)
    BY <1>1, FilesAssumption
  <2>2. f.kind \in {"BPE", "Unigram"}
    BY <1>1 DEF LoadRefused, RefusedModel
  <2> QED
    BY <1>1, <2>1, <2>2, ModelConsistent, SiblingKeeps
<1>2. CASE f.format # "model"
  <2>1. WellFormedJson(f)
    BY <1>2, FilesAssumption
  <2>2. f.kind \in {"BPE", "Unigram", "WordPiece"}
    BY <1>2 DEF LoadRefused
  <2> QED
    BY <1>2, <2>1, <2>2, JsonConsistent, SiblingKeeps
<1> QED
  BY <1>1, <1>2

-----------------------------------------------------------------------------
(* Pieces, ids and their bytes.                                            *)

BytesOfPiece(c) == [p \in Seq(Chars) |-> PieceBytes(c, p)]
BytesOfId(c) == [id \in Int |-> IF id \in 0 .. Len(c.vocab) - 1 THEN PieceBytes(c, c.vocab[id + 1]) ELSE <<>>]

\* The name of a byte names that byte alone.
LEMMA NamedByte ==
  ASSUME NEW byte \in ByteLetters
  PROVE  /\ parse_byte_fallback(<<BytePiece[byte]>>) = {byte}
         /\ BytePiece[byte] \in Chars /\ <<BytePiece[byte]>> \in Seq(Chars)
         /\ byte \in DOMAIN BytePiece /\ byte \in Chars
<1>1. /\ DOMAIN BytePiece = ByteLetters
      /\ \A other \in ByteLetters : BytePiece[other] = BytePiece[byte] => other = byte
  BY DEF BytePiece, ByteLetters
<1>2. parse_byte_fallback(<<BytePiece[byte]>>) = {other \in ByteLetters : BytePiece[other] = BytePiece[byte]}
  BY <1>1 DEF parse_byte_fallback
<1>3. BytePiece[byte] \in Chars
  BY <1>1 DEF Chars
<1>4. byte \in Chars
  BY Literals DEF ByteLetters
<1> QED
  BY <1>1, <1>2, <1>3, <1>4

\* A piece that names a byte is that byte's name.
LEMMA NamesByte ==
  ASSUME NEW p, parse_byte_fallback(p) # {}
  PROVE  \E byte \in ByteLetters : p = <<BytePiece[byte]>> /\ parse_byte_fallback(p) = {byte}
<1>1. PICK byte \in DOMAIN BytePiece : p = <<BytePiece[byte]>>
  BY DEF parse_byte_fallback
<1>2. byte \in ByteLetters
  BY DEF BytePiece, ByteLetters
<1> QED
  BY <1>1, <1>2, NamedByte

\* The bytes of a piece, and when they are those of its characters.
LEMMA PieceBytesAre ==
  ASSUME NEW c, NEW p \in Seq(Chars)
  PROVE  /\ PieceBytes(c, p) \in Seq(Chars)
         /\ NamesNoByte(p) \/ ~c.byte_fallback => PieceBytes(c, p) = Utf8(p)
         /\ BytesOfPiece(c)[p] = PieceBytes(c, p)
<1>1. Utf8(p) \in Seq(Chars)
  BY Utf8IsMap
<1>2. NamesNoByte(p) \/ ~c.byte_fallback => PieceBytes(c, p) = Utf8(p)
  BY DEF PieceBytes, NamesNoByte
<1>3. CASE c.byte_fallback /\ parse_byte_fallback(p) # {}
  <2>1. PICK byte \in ByteLetters : parse_byte_fallback(p) = {byte}
    BY <1>3, NamesByte
  <2>2. PieceBytes(c, p) = <<byte>>
    BY <1>3, <2>1, SingleSeq DEF PieceBytes
  <2>3. byte \in Chars
    BY <2>1, NamedByte
  <2>4. PieceBytes(c, p) \in Seq(Chars)
    BY <2>2, <2>3
  <2> QED
    BY <1>2, <2>4 DEF BytesOfPiece
<1>4. CASE ~(c.byte_fallback /\ parse_byte_fallback(p) # {})
  <2>1. PieceBytes(c, p) = Utf8(p)
    BY <1>4 DEF PieceBytes
  <2> QED
    BY <1>1, <1>2, <2>1 DEF BytesOfPiece
<1> QED
  BY <1>3, <1>4

\* The name of a byte is decoded to it where bytes stand in.
LEMMA BytePieceIs ==
  ASSUME NEW c, c.byte_fallback, NEW byte \in ByteLetters
  PROVE  PieceBytes(c, <<BytePiece[byte]>>) = <<byte>>
BY NamedByte, SingleSeq DEF PieceBytes

\* Pieces of two or more characters, and pieces of letters, name no byte.
LEMMA LongNamesNoByte ==
  ASSUME NEW S, NEW p \in Seq(S)
  PROVE  /\ Len(p) # 1 => NamesNoByte(p)
         /\ S \subseteq Symbols \cup {"##"} => NamesNoByte(p)
<1> SUFFICES ASSUME ~NamesNoByte(p)
             PROVE  Len(p) = 1 /\ ~(S \subseteq Symbols \cup {"##"})
  OBVIOUS
<1>1. PICK byte \in ByteLetters : p = <<BytePiece[byte]>>
  BY NamesByte DEF NamesNoByte
<1>2. Len(p) = 1 /\ p[1] = BytePiece[byte]
  BY <1>1
<1>3. p[1] \in S
  BY <1>2, ElementOfSeq
<1>4. BytePiece[byte] \notin Symbols \cup {"##"}
  BY <1>1 DEF BytePiece, ByteLetters, Symbols, Letters
<1> QED
  BY <1>2, <1>3, <1>4

\* Pieces are bytes.
LEMMA BytesOfPieceType ==
  ASSUME NEW c
  PROVE  BytesOfPiece(c) \in Expands(Seq(Chars), Chars)
BY PieceBytesAre DEF BytesOfPiece, Expands

\* The bytes of ids, one id after another.
LEMMA BytesOfIsMap ==
  ASSUME NEW c, c.vocab \in Seq(Seq(Chars)), NEW ids \in Seq(Int)
  PROVE  /\ BytesOfId(c) \in Expands(Int, Chars)
         /\ BytesOf(c, ids) = MapFlat(BytesOfId(c), ids)
         /\ BytesOf(c, ids) \in Seq(Chars)
<1>1. Len(c.vocab) \in Nat /\ \A k \in 1 .. Len(c.vocab) : c.vocab[k] \in Seq(Chars)
  BY LenProperties, ElementOfSeq
<1>2. \A id \in Int : BytesOfId(c)[id] \in Seq(Chars)
  <2> TAKE id \in Int
  <2>1. CASE id \in 0 .. Len(c.vocab) - 1
    <3>1. c.vocab[id + 1] \in Seq(Chars)
      BY <1>1, <2>1
    <3> QED
      BY <2>1, <3>1, PieceBytesAre DEF BytesOfId
  <2>2. CASE id \notin 0 .. Len(c.vocab) - 1
    BY <2>2, EmptySeq DEF BytesOfId
  <2> QED
    BY <2>1, <2>2
<1>3. BytesOfId(c) \in Expands(Int, Chars)
  BY <1>2 DEF Expands, BytesOfId
<1>4. \A k \in DOMAIN ids : ids[k] \in Int
  BY LenProperties, ElementOfSeq
<1>5. [k \in DOMAIN ids |-> IF ids[k] \in 0 .. Len(c.vocab) - 1 THEN PieceBytes(c, c.vocab[ids[k] + 1]) ELSE <<>>]
        = [k \in DOMAIN ids |-> BytesOfId(c)[ids[k]]]
  BY <1>4 DEF BytesOfId
<1>6. BytesOf(c, ids) = MapFlat(BytesOfId(c), ids)
  BY <1>5, Zenon DEF BytesOf, MapFlat
<1>7. MapFlat(BytesOfId(c), ids) \in Seq(Chars)
  BY <1>3, MapFlatType, Zenon
<1> QED
  BY <1>3, <1>6, <1>7

\* Ids after ids are bytes after bytes.
LEMMA BytesOfConcat ==
  ASSUME NEW c, c.vocab \in Seq(Seq(Chars)), NEW ids \in Seq(Int), NEW more \in Seq(Int)
  PROVE  BytesOf(c, ids \o more) = BytesOf(c, ids) \o BytesOf(c, more)
<1>1. BytesOfId(c) \in Expands(Int, Chars)
  BY BytesOfIsMap
<1>2. Distributes(BytesOfId(c), ids, more)
  BY <1>1, MapFlatConcat, Zenon
<1>3. ids \o more \in Seq(Int)
  BY ConcatProperties
<1>4. /\ BytesOf(c, ids) = MapFlat(BytesOfId(c), ids)
      /\ BytesOf(c, more) = MapFlat(BytesOfId(c), more)
  BY BytesOfIsMap
<1>5. BytesOf(c, ids \o more) = MapFlat(BytesOfId(c), ids \o more)
  BY <1>3, BytesOfIsMap
<1> QED
  BY <1>2, <1>4, <1>5 DEF Distributes

\* The bytes of one id.
LEMMA BytesOfOne ==
  ASSUME NEW c, c.vocab \in Seq(Seq(Chars)), NEW id \in 0 .. Len(c.vocab) - 1
  PROVE  /\ BytesOf(c, <<id>>) = PieceBytes(c, c.vocab[id + 1])
         /\ id \in Int /\ <<id>> \in Seq(Int) /\ c.vocab[id + 1] \in Seq(Chars)
<1>1. Len(c.vocab) \in Nat /\ \A k \in 1 .. Len(c.vocab) : c.vocab[k] \in Seq(Chars)
  BY LenProperties, ElementOfSeq
<1>2. id \in Int /\ c.vocab[id + 1] \in Seq(Chars)
  BY <1>1
<1>3. <<id>> \in Seq(Int)
  BY <1>2
<1>4. BytesOfId(c) \in Expands(Int, Chars) /\ BytesOf(c, <<id>>) = MapFlat(BytesOfId(c), <<id>>)
  BY <1>3, BytesOfIsMap
<1>5. MapFlat(BytesOfId(c), <<id>>) = BytesOfId(c)[id]
  BY <1>2, <1>4, MapFlatOne
<1> QED
  BY <1>2, <1>3, <1>4, <1>5 DEF BytesOfId

\* No ids have no bytes.
LEMMA BytesOfNone ==
  ASSUME NEW c
  PROVE  BytesOf(c, <<>>) = <<>>
<1>1. [k \in DOMAIN <<>> |-> IF <<>>[k] \in 0 .. Len(c.vocab) - 1 THEN PieceBytes(c, c.vocab[<<>>[k] + 1]) ELSE <<>>]
        = <<>>
  OBVIOUS
<1> QED
  BY <1>1, FlattenEmpty, Zenon DEF BytesOf

\* Pieces that are listed are spelled by their ids.
LEMMA IdsSpell ==
  ASSUME NEW c, c.vocab \in Seq(Seq(Chars)), NEW ps \in Seq(Seq(Chars)),
         \A k \in 1 .. Len(ps) : Known(c.vocab, ps[k])
  PROVE  LET ids == [k \in DOMAIN ps |-> IdOrUnknown(c.vocab, ps[k])]
         IN ids \in Seq(0 .. Len(c.vocab) - 1) /\ BytesOf(c, ids) = MapFlat(BytesOfPiece(c), ps)
<1> DEFINE ids == [k \in DOMAIN ps |-> IdOrUnknown(c.vocab, ps[k])]
<1> DEFINE D == 0 .. Len(c.vocab) - 1
<1>1. Len(ps) \in Nat /\ DOMAIN ps = 1 .. Len(ps) /\ \A k \in 1 .. Len(ps) : ps[k] \in Seq(Chars)
  BY LenProperties, ElementOfSeq
<1>2. \A k \in 1 .. Len(ps) : /\ IdOrUnknown(c.vocab, ps[k]) \in D
                              /\ c.vocab[IdOrUnknown(c.vocab, ps[k]) + 1] = ps[k]
  BY PieceListed DEF IdOrUnknown
<1>3. Len(c.vocab) \in Nat
  BY LenProperties
<1>4. ids \in Seq(D)
  BY <1>1, <1>2
<1>5. ids \in Seq(Int)
  BY <1>3, <1>4, SeqMonotonic
<1>6. \A k \in 1 .. Len(ps) : BytesOfId(c)[IdOrUnknown(c.vocab, ps[k])] = BytesOfPiece(c)[ps[k]]
  <2> TAKE k \in 1 .. Len(ps)
  <2> DEFINE id == IdOrUnknown(c.vocab, ps[k])
  <2>1. id \in D /\ c.vocab[id + 1] = ps[k] /\ ps[k] \in Seq(Chars)
    BY <1>1, <1>2
  <2> HIDE DEF id
  <2>2. BytesOfId(c)[id] = PieceBytes(c, c.vocab[id + 1])
    BY <1>3, <2>1 DEF BytesOfId
  <2>3. BytesOfPiece(c)[ps[k]] = PieceBytes(c, ps[k])
    BY <2>1 DEF BytesOfPiece
  <2> QED
    BY <2>1, <2>2, <2>3 DEF id
<1>7. [k \in DOMAIN ids |-> BytesOfId(c)[ids[k]]] = [k \in DOMAIN ps |-> BytesOfPiece(c)[ps[k]]]
  <2>1. DOMAIN ids = DOMAIN ps /\ \A k \in DOMAIN ps : ids[k] = IdOrUnknown(c.vocab, ps[k])
    OBVIOUS
  <2> DEFINE f == BytesOfId(c)
  <2> DEFINE g == BytesOfPiece(c)
  <2>2. \A k \in DOMAIN ps : f[ids[k]] = g[ps[k]]
    BY <1>1, <1>6, <2>1
  <2> HIDE DEF ids, f, g
  <2>3. [k \in DOMAIN ids |-> f[ids[k]]] = [k \in DOMAIN ps |-> g[ps[k]]]
    BY <2>1, <2>2
  <2> QED
    BY <2>3 DEF f, g
<1> HIDE DEF ids
<1>8. BytesOf(c, ids) = MapFlat(BytesOfId(c), ids)
  BY <1>5, BytesOfIsMap
<1>9. MapFlat(BytesOfId(c), ids) = MapFlat(BytesOfPiece(c), ps)
  BY <1>7, Zenon DEF MapFlat
<1> QED
  BY <1>4, <1>8, <1>9 DEF ids

-----------------------------------------------------------------------------
(* What is decoded from ids that spell the words.                          *)

Opening(c) == IF c.add_bos /\ c.bos # NoId THEN <<c.bos>> ELSE <<>>
ContentOf(c, ids) == IF ids # <<>> /\ c.add_bos /\ c.bos # NoId THEN Tail(ids) ELSE ids

\* What precedes the content.
LEMMA OpeningType ==
  ASSUME NEW c, c.bos \in Int
  PROVE  Opening(c) \in Seq(Int)
<1>1. <<c.bos>> \in Seq(Int) /\ <<>> \in Seq(Int)
  BY EmptySeq
<1> QED
  BY <1>1 DEF Opening

\* The content is what follows the beginning-of-sequence id.
LEMMA ContentOpened ==
  ASSUME NEW c, c.bos \in Int, NEW ids \in Seq(Int)
  PROVE  ContentOf(c, Opening(c) \o ids) = ids
<1>1. CASE c.add_bos /\ c.bos # NoId
  <2> DEFINE b == <<c.bos>>
  <2>1. Opening(c) = b /\ b \in Seq(Int) /\ Len(b) = 1
    BY <1>1 DEF Opening
  <2> HIDE DEF b
  <2>2. /\ b \o ids \in Seq(Int) /\ Len(b \o ids) = 1 + Len(ids) /\ Len(ids) \in Nat
        /\ \A k \in 1 .. 1 + Len(ids) : (b \o ids)[k] = IF k <= 1 THEN b[k] ELSE ids[k - 1]
    <3>1. Len(ids) \in Nat
      BY LenProperties
    <3>2. /\ b \o ids \in Seq(Int) /\ Len(b \o ids) = Len(b) + Len(ids)
          /\ \A k \in 1 .. Len(b) + Len(ids) : (b \o ids)[k] = IF k <= Len(b) THEN b[k] ELSE ids[k - Len(b)]
      BY <2>1, ConcatProperties
    <3> QED
      BY <2>1, <3>1, <3>2
  <2> DEFINE u == b \o ids
  <2> HIDE DEF u
  <2>3. u \in Seq(Int) /\ Len(u) = 1 + Len(ids) /\ Len(ids) \in Nat
        /\ \A k \in 1 .. Len(ids) : u[k + 1] = ids[k]
    BY <2>2 DEF u
  <2>4. u # <<>>
    BY <2>3, EmptySeq
  <2>5. /\ Tail(u) \in Seq(Int) /\ Len(Tail(u)) = Len(ids)
        /\ \A k \in 1 .. Len(ids) : Tail(u)[k] = ids[k]
    BY <2>3, <2>4, HeadTailProperties
  <2>6. Tail(u) = ids
    BY <2>5, SeqEqual
  <2> QED
    BY <1>1, <2>1, <2>4, <2>6 DEF ContentOf, u
<1>2. CASE ~(c.add_bos /\ c.bos # NoId)
  <2>1. Opening(c) = <<>>
    BY <1>2 DEF Opening
  <2>2. <<>> \o ids = ids
    BY ConcatEmptySeq
  <2>3. ContentOf(c, ids) = ids
    BY <1>2 DEF ContentOf
  <2> QED
    BY <2>1, <2>2, <2>3
<1> QED
  BY <1>1, <1>2

\* Filtering bos and eos leaves a content that has neither.
LEMMA FilteredContent ==
  ASSUME NEW c, c.bos \in Int, NEW ids \in Seq(Int), \A id \in ToSet(ids) : id \notin {c.bos, c.eos}
  PROVE  Filtered(c, Opening(c) \o ids) = ids
<1>1. \A k \in 1 .. Len(ids) : ids[k] \in Int /\ ids[k] \notin {c.bos, c.eos}
  <2>1. DOMAIN ids = 1 .. Len(ids) /\ \A k \in 1 .. Len(ids) : ids[k] \in Int
    BY LenProperties, ElementOfSeq
  <2>2. \A k \in 1 .. Len(ids) : ids[k] \in ToSet(ids)
    BY <2>1 DEF ToSet
  <2> QED
    BY <2>1, <2>2
<1>2. ids \in Seq(Int \ {c.bos}) /\ ids \in Seq(Int \ {c.eos})
  <2> DEFINE B == Int \ {c.bos}
  <2> DEFINE E == Int \ {c.eos}
  <2>1. \A k \in 1 .. Len(ids) : ids[k] \in B /\ ids[k] \in E
    BY <1>1
  <2> HIDE DEF B, E
  <2>2. Len(ids) \in Nat /\ ids = [k \in 1 .. Len(ids) |-> ids[k]]
    BY LenProperties
  <2>3. ids \in [1 .. Len(ids) -> B] /\ ids \in [1 .. Len(ids) -> E]
    BY <2>1, <2>2
  <2>4. ids \in Seq(B) /\ ids \in Seq(E)
    BY <2>2, <2>3
  <2> QED
    BY <2>4 DEF B, E
<1>3. Omitting(ids, c.bos) = ids /\ Omitting(ids, c.eos) = ids
  BY <1>2, OmittingNone
<1>4. Opening(c) \in Seq(Int)
  BY OpeningType
<1>5. Omitting(Opening(c) \o ids, c.bos) = Omitting(Opening(c), c.bos) \o Omitting(ids, c.bos)
  BY <1>4, OmittingConcat
<1>6. Omitting(Opening(c), c.bos) = <<>>
  <2>1. OmitOf(Int, c.bos) \in Expands(Int, Int) /\ Omitting(Opening(c), c.bos) = MapFlat(OmitOf(Int, c.bos), Opening(c))
    BY <1>4, OmittingIsMap
  <2>2. MapFlat(OmitOf(Int, c.bos), <<c.bos>>) = OmitOf(Int, c.bos)[c.bos]
    BY <2>1, MapFlatOne
  <2>3. OmitOf(Int, c.bos)[c.bos] = <<>>
    BY DEF OmitOf
  <2>4. MapFlat(OmitOf(Int, c.bos), <<>>) = <<>>
    BY MapFlatEmpty
  <2> QED
    BY <2>1, <2>2, <2>3, <2>4 DEF Opening
<1>7. <<>> \o ids = ids
  BY ConcatEmptySeq
<1> QED
  BY <1>3, <1>5, <1>6, <1>7 DEF Filtered

\* The whole encoding that was not cut short.
LEMMA DecodedBytes ==
  ASSUME codec.bos \in Int, Content \in Seq(Int), encoded = Opening(codec) \o Content, ~Dropped
  PROVE  Filtered(codec, encoded) = Content
<1>1. \A id \in ToSet(Content) : id \notin {codec.bos, codec.eos}
  BY DEF Dropped
<1> QED
  BY <1>1, FilteredContent

\* What was typed, without the dummy prefix.
LEMMA SpelledIsKept ==
  ASSUME "steps" \in DOMAIN codec, typed \in Seq(Letters)
  PROVE  Spelled = Kept(codec, typed)
<1> DEFINE d == [codec EXCEPT !.steps = @ \ {"PrependSpace"}]
<1>1. d.steps = codec.steps \ {"PrependSpace"}
  OBVIOUS
<1> HIDE DEF d
<1>2. "PrependSpace" \notin d.steps /\ ("RemoveExtraWhitespace" \in d.steps <=> "RemoveExtraWhitespace" \in codec.steps)
  BY <1>1
<1>3. normalize(d, typed) = Kept(d, typed)
  BY <1>2, NormalizeIs
<1>4. Kept(d, typed) = Kept(codec, typed)
  BY <1>2 DEF Kept
<1> QED
  BY <1>3, <1>4 DEF Spelled, d

\* Text without marks: spaces come back from the marks that stood for them.
LEMMA SpacesBack ==
  ASSUME NEW c, NEW text \in Seq(Letters \ {"mark"}), NEW shown, shown = Marked(c, text)
  PROVE  Spaced(shown) = IF c.prepend THEN <<"sp">> \o text ELSE text
<1>1. text \in Seq(Letters)
  BY SeqMonotonic
<1>2. Marked(c, text) = (IF c.prepend THEN <<"mark">> \o Swapped(text) ELSE Swapped(text)) /\ Swapped(text) \in Seq(Letters)
  BY <1>1, MarkedIs
<1>3. Spaced(Swapped(text)) = text
  BY SpacedSwapped
<1>4. <<"mark">> \in Seq(Chars) /\ Swapped(text) \in Seq(Chars)
  <2>1. "mark" \in Chars
    BY Literals
  <2>2. Swapped(text) \in Seq(Chars)
    BY <1>2, LettersPlain, SeqMonotonic
  <2> QED
    BY <2>1, <2>2
<1>5. Spaced(<<"mark">> \o Swapped(text)) = Spaced(<<"mark">>) \o Spaced(Swapped(text))
  BY <1>4, SpacedConcat
<1>6. Spaced(<<"mark">>) = <<"sp">>
  BY DEF Spaced
<1> QED
  BY <1>2, <1>3, <1>5, <1>6

\* Leaving out spaces adds no mark.
LEMMA KeptMarkless ==
  ASSUME NEW c, NEW text \in Seq(Letters), "mark" \notin ToSet(text)
  PROVE  Kept(c, text) \in Seq(Letters \ {"mark"})
<1> DEFINE L == Letters \ {"mark"}
<1>1. \A k \in 1 .. Len(text) : text[k] \in L
  BY LenProperties, ElementOfSeq DEF ToSet
<1> HIDE DEF L
<1>2. Len(text) \in Nat /\ text = [k \in 1 .. Len(text) |-> text[k]]
  BY LenProperties
<1>3. text \in Seq(L)
  BY <1>1, <1>2
<1>4. Kept(c, text) \in Seq(L)
  BY <1>3, NormalizeIs
<1> QED
  BY <1>4 DEF L

\* What an encoding spells: the words of the normalized text, in their bytes.
SpellsTyped == /\ codec.bos \in Int /\ Content \in Seq(Int) /\ encoded = Opening(codec) \o Content
               /\ BytesOf(codec, Content) = Utf8(FlattenSeq(WordsOf(codec, normalize(codec, typed))))

\* The text as it is taken apart, without and with the dummy prefix.
LEMMA TakenText ==
  ASSUME typed \in Seq(Letters)
  PROVE  LET kept == Kept(codec, typed)
             text == normalize(codec, typed)
         IN /\ kept \in Seq(Letters) /\ text \in Seq(Letters)
            /\ Lossy(Utf8(text)) = text /\ Lossy(Utf8(Utf8(text))) = text
            /\ text = IF "PrependSpace" \in codec.steps THEN <<"sp">> \o kept ELSE kept
            /\ "mark" \notin ToSet(typed) => kept \in Seq(Letters \ {"mark"}) /\ text \in Seq(Letters \ {"mark"})
<1> DEFINE kept == Kept(codec, typed)
<1> DEFINE text == normalize(codec, typed)
<1>1. /\ kept \in Seq(Letters) /\ text \in Seq(Letters)
      /\ text = IF "PrependSpace" \in codec.steps THEN <<"sp">> \o kept ELSE kept
  BY NormalizeIs DEF Letters
<1>2. ASSUME "mark" \notin ToSet(typed)
      PROVE  kept \in Seq(Letters \ {"mark"}) /\ text \in Seq(Letters \ {"mark"})
  <2>1. kept \in Seq(Letters \ {"mark"})
    BY <1>2, KeptMarkless
  <2>2. <<"sp">> \in Seq(Letters \ {"mark"})
    BY DEF Letters
  <2>3. <<"sp">> \o kept \in Seq(Letters \ {"mark"})
    BY <2>1, <2>2, ConcatProperties
  <2> HIDE DEF kept, text
  <2> QED
    BY <1>1, <2>1, <2>3
<1> HIDE DEF kept, text
<1>3. text \in Seq(Plain)
  BY <1>1, LettersPlain, SeqMonotonic
<1>4. Lossy(Utf8(text)) = text /\ Utf8(Utf8(text)) = Utf8(text)
  BY <1>1, <1>3, LossyUtf8, BytesOfText
<1> QED
  BY <1>1, <1>2, <1>4 DEF kept, text

\* A BPE encoding that spells the text decodes to it.
LEMMA BpeDecodes ==
  ASSUME Consistent(codec), codec.algorithm = "BPE", typed \in Seq(Letters), SpellsTyped, ~Dropped, ~LosesMark
  PROVE  Decoded(codec, encoded) = IF LosesSpace THEN Tail(Spelled) ELSE Spelled
<1> DEFINE kept == Kept(codec, typed)
<1> DEFINE text == normalize(codec, typed)
<1> DEFINE shown == Lossy(BytesOf(codec, Filtered(codec, encoded)))
<1>1. Spelled = kept
  BY SpelledIsKept DEF Consistent
<1>2. /\ kept \in Seq(Letters) /\ text \in Seq(Letters)
      /\ Lossy(Utf8(text)) = text /\ Lossy(Utf8(Utf8(text))) = text
      /\ text = IF "PrependSpace" \in codec.steps THEN <<"sp">> \o kept ELSE kept
      /\ "mark" \notin ToSet(typed) => kept \in Seq(Letters \ {"mark"}) /\ text \in Seq(Letters \ {"mark"})
  BY TakenText
<1>3. shown = Lossy(Utf8(Spelling(codec, text)))
  <2>1. Filtered(codec, encoded) = Content
    BY DecodedBytes DEF SpellsTyped
  <2>2. WordsOf(codec, text) = pre_tokenize(codec, text)
    BY DEF WordsOf
  <2>3. FlattenSeq(pre_tokenize(codec, text)) = Spelling(codec, text)
    BY <1>2, PreTokensWhole
  <2>4. BytesOf(codec, Content) = Utf8(FlattenSeq(WordsOf(codec, text)))
    BY DEF SpellsTyped
  <2> HIDE DEF text
  <2> QED
    BY <2>1, <2>2, <2>3, <2>4
<1>4. Decoded(codec, encoded) = IF codec.pre = "ByteLevel" THEN shown ELSE StripSpace(Spaced(shown))
  BY DEF Decoded
<1> HIDE DEF kept, text, shown
<1>5. StripSpace(kept) = IF kept # <<>> /\ Head(kept) = "sp" THEN Tail(kept) ELSE kept
  BY DEF StripSpace
<1>6. CASE codec.pre = "ByteLevel"
  <2>1. codec.steps = {}
    BY <1>6 DEF Consistent
  <2>2. text = kept
    BY <1>2, <2>1
  <2>3. Spelling(codec, text) = IF text = <<>> THEN <<>> ELSE Utf8(text)
    BY <1>6 DEF Spelling
  <2>4. shown = text
    BY <1>2, <1>3, <2>3, Utf8Empty
  <2>5. ~LosesSpace
    BY <1>6 DEF LosesSpace
  <2> QED
    BY <1>1, <1>4, <1>6, <2>2, <2>4, <2>5
<1>7. CASE codec.pre = "Metaspace"
  <2>1. "PrependSpace" \notin codec.steps
    BY <1>7 DEF Consistent
  <2>2. text = kept /\ kept \in Seq(Letters \ {"mark"})
    BY <1>2, <1>7, <2>1 DEF LosesMark
  <2>3. Spelling(codec, text) = IF text = <<>> THEN <<>> ELSE Marked(codec, text)
    BY <1>7 DEF Spelling
  <2>4. CASE text = <<>>
    <3>1. shown = <<>>
      BY <1>2, <1>3, <2>3, <2>4, Utf8Empty
    <3>2. Spaced(<<>>) = <<>>
      BY DEF Spaced
    <3>3. StripSpace(<<>>) = <<>>
      BY DEF StripSpace
    <3>4. ~LosesSpace
      BY <1>1, <2>2, <2>4 DEF LosesSpace
    <3> QED
      BY <1>1, <1>4, <1>7, <2>2, <2>4, <3>1, <3>2, <3>3, <3>4
  <2>5. CASE text # <<>>
    <3>1. Marked(codec, text) \in Seq(Plain)
      BY <1>2, MarkedIs, LettersPlain, SeqMonotonic
    <3>2. shown = Marked(codec, text)
      BY <1>3, <2>3, <2>5, <3>1, LossyUtf8
    <3>3. Spaced(shown) = IF codec.prepend THEN <<"sp">> \o text ELSE text
      BY <2>2, <3>2, SpacesBack
    <3>4. "sp" \in Letters
      BY DEF Letters
    <3>5. CASE codec.prepend
      <4>1. StripSpace(<<"sp">> \o text) = text
        BY <1>2, <3>4, StripFirst
      <4>2. ~LosesSpace
        BY <3>5 DEF LosesSpace
      <4> QED
        BY <1>1, <1>4, <1>7, <2>2, <3>3, <3>5, <4>1, <4>2
    <3>6. CASE ~codec.prepend
      <4>1. LosesSpace <=> kept # <<>> /\ Head(kept) = "sp"
        BY <1>1, <1>7, <2>1, <3>6 DEF LosesSpace
      <4> QED
        BY <1>1, <1>4, <1>5, <1>7, <2>2, <3>3, <3>6, <4>1
    <3> QED
      BY <3>5, <3>6
  <2> QED
    BY <2>4, <2>5
<1>8. CASE codec.pre \notin {"ByteLevel", "Metaspace"}
  <2>1. ~codec.prepend
    BY <1>8 DEF Consistent
  <2>2. Spelling(codec, text) = text
    BY <1>8 DEF Spelling
  <2>3. shown = text
    BY <1>2, <1>3, <2>2
  <2>4. kept \in Seq(Letters \ {"mark"}) /\ text \in Seq(Letters \ {"mark"})
    BY <1>2, <1>8 DEF LosesMark
  <2>5. Spaced(shown) = text
    BY <2>3, <2>4, SpacedSwapped
  <2>6. CASE "PrependSpace" \in codec.steps
    <3>1. "sp" \in Letters
      BY DEF Letters
    <3>2. StripSpace(<<"sp">> \o kept) = kept
      BY <1>2, <3>1, StripFirst
    <3>3. ~LosesSpace
      BY <2>6 DEF LosesSpace
    <3> QED
      BY <1>1, <1>2, <1>4, <1>8, <2>5, <2>6, <3>2, <3>3
  <2>7. CASE "PrependSpace" \notin codec.steps
    <3>1. LosesSpace <=> kept # <<>> /\ Head(kept) = "sp"
      BY <1>1, <1>8, <2>1, <2>7 DEF LosesSpace
    <3> QED
      BY <1>1, <1>2, <1>4, <1>5, <1>8, <2>5, <2>7, <3>1
  <2> QED
    BY <2>6, <2>7
<1> QED
  BY <1>6, <1>7, <1>8

\* A Unigram encoding that spells the text decodes to it.
LEMMA UnigramDecodes ==
  ASSUME Consistent(codec), codec.algorithm = "Unigram", typed \in Seq(Letters), SpellsTyped, ~Dropped, ~LosesMark
  PROVE  Decoded(codec, encoded) = Spelled /\ ~LosesSpace
<1> DEFINE kept == Kept(codec, typed)
<1> DEFINE text == normalize(codec, typed)
<1> DEFINE shown == Lossy(BytesOf(codec, Filtered(codec, encoded)))
<1> DEFINE whole == IF codec.pre = "Metaspace" THEN Marked(codec, text) ELSE text
<1>1. Spelled = kept
  BY SpelledIsKept DEF Consistent
<1>2. /\ kept \in Seq(Letters) /\ text \in Seq(Letters)
      /\ Lossy(Utf8(text)) = text /\ Lossy(Utf8(Utf8(text))) = text
      /\ text = IF "PrependSpace" \in codec.steps THEN <<"sp">> \o kept ELSE kept
      /\ "mark" \notin ToSet(typed) => kept \in Seq(Letters \ {"mark"}) /\ text \in Seq(Letters \ {"mark"})
  BY TakenText
<1>3. shown = whole
  <2>1. Filtered(codec, encoded) = Content
    BY DecodedBytes DEF SpellsTyped
  <2>2. WordsOf(codec, text) = <<whole>>
    BY DEF WordsOf
  <2>3. whole \in Seq(Letters)
    BY <1>2, MarkedIs
  <2>4. BytesOf(codec, Content) = Utf8(FlattenSeq(WordsOf(codec, text)))
    BY DEF SpellsTyped
  <2> HIDE DEF text, whole
  <2>5. FlattenSeq(<<whole>>) = whole
    BY <2>3, FlattenThree
  <2>6. whole \in Seq(Plain)
    BY <2>3, LettersPlain, SeqMonotonic
  <2>7. Lossy(Utf8(whole)) = whole
    BY <2>6, LossyUtf8
  <2> QED
    BY <2>1, <2>2, <2>4, <2>5, <2>7
<1>4. Decoded(codec, encoded) = IF codec.pre = "ByteLevel" THEN shown
                                ELSE IF codec.pre = "Metaspace"
                                     THEN IF codec.prepend THEN StripSpace(Spaced(shown)) ELSE Spaced(shown)
                                     ELSE IF "PrependSpace" \in codec.steps THEN StripSpace(shown) ELSE shown
  <2> HIDE DEF shown
  <2> QED
    BY DEF Decoded, shown
<1>5. ~LosesSpace
  BY DEF LosesSpace
<1>6. "sp" \in Letters
  BY DEF Letters
<1> HIDE DEF kept, text, shown
<1>7. CASE codec.pre = "Metaspace"
  <2>1. "PrependSpace" \notin codec.steps
    BY <1>7 DEF Consistent
  <2>2. text = kept /\ kept \in Seq(Letters \ {"mark"})
    BY <1>2, <1>7, <2>1 DEF LosesMark
  <2>3. shown = Marked(codec, text)
    BY <1>3, <1>7
  <2>4. Spaced(shown) = IF codec.prepend THEN <<"sp">> \o text ELSE text
    BY <2>2, <2>3, SpacesBack
  <2>5. StripSpace(<<"sp">> \o text) = text
    BY <1>2, <1>6, StripFirst
  <2> QED
    BY <1>1, <1>4, <1>5, <1>7, <2>2, <2>4, <2>5
<1>8. CASE codec.pre # "Metaspace"
  <2>1. shown = text
    BY <1>3, <1>8
  <2>2. CASE "PrependSpace" \in codec.steps
    <3>1. codec.pre # "ByteLevel"
      BY <2>2 DEF Consistent
    <3>2. StripSpace(<<"sp">> \o kept) = kept
      BY <1>2, <1>6, StripFirst
    <3> QED
      BY <1>1, <1>2, <1>4, <1>5, <1>8, <2>1, <2>2, <3>1, <3>2
  <2>3. CASE "PrependSpace" \notin codec.steps
    BY <1>1, <1>2, <1>4, <1>5, <1>8, <2>1, <2>3
  <2> QED
    BY <2>2, <2>3
<1> QED
  BY <1>7, <1>8

-----------------------------------------------------------------------------
(* BPE: what the ids, the pieces in hand and the words left spell.         *)

\* A sequence is its head and its tail.
LEMMA HeadTail ==
  ASSUME NEW D, NEW s \in Seq(D), s # <<>>
  PROVE  Head(s) \in D /\ Tail(s) \in Seq(D) /\ <<Head(s)>> \in Seq(D) /\ s = <<Head(s)>> \o Tail(s)
<1>1. Head(s) \in D /\ Tail(s) \in Seq(D)
  BY HeadTailProperties
<1>2. Len(s) \in Nat \ {0}
  BY EmptySeq
<1>3. Head(s) = s[1] /\ Tail(s) = SubSeq(s, 2, Len(s))
  <2>1. 1 \in 1 .. Len(s) /\ Len(s) \in 1 .. Len(s)
    BY <1>2
  <2>2. Head(SubSeq(s, 1, Len(s))) = s[1] /\ Tail(SubSeq(s, 1, Len(s))) = SubSeq(s, 1 + 1, Len(s))
    BY <2>1, HeadTailOfSubSeq
  <2> QED
    BY <2>2, SubSeqFull
<1>4. SubSeq(s, 1, Len(s)) = <<s[1]>> \o SubSeq(s, 1 + 1, Len(s))
  <2>1. 1 \in 1 .. Len(s) /\ Len(s) \in 1 .. Len(s)
    BY <1>2
  <2> QED
    BY <2>1, SubSeqRecursiveFirst
<1>5. s = <<Head(s)>> \o Tail(s)
  BY <1>3, <1>4, SubSeqFull
<1> QED
  BY <1>1, <1>5

\* Flattening starts with the first part.
LEMMA FlattenHead ==
  ASSUME NEW D, NEW ss \in Seq(Seq(D)), ss # <<>>
  PROVE  FlattenSeq(ss) = Head(ss) \o FlattenSeq(Tail(ss))
<1> DEFINE S == Seq(D)
<1>1. Head(ss) \in S /\ Tail(ss) \in Seq(S) /\ <<Head(ss)>> \in Seq(S) /\ ss = <<Head(ss)>> \o Tail(ss)
  BY HeadTail
<1> DEFINE h == <<Head(ss)>>
<1> DEFINE t == Tail(ss)
<1>2. FlattenSeq(h) = Head(ss)
  BY <1>1, FlattenThree
<1>3. h \in Seq(Seq(D)) /\ t \in Seq(Seq(D)) /\ ss = h \o t
  BY <1>1
<1> HIDE DEF h, t
<1>4. FlattenSeq(h \o t) = FlattenSeq(h) \o FlattenSeq(t)
  BY <1>3, FlattenConcat
<1> QED
  BY <1>2, <1>3, <1>4 DEF t

AllKnown(c, ps) == \A k \in 1 .. Len(ps) : Known(c.vocab, ps[k])
BytesOfPieces(c, ps) == MapFlat(BytesOfPiece(c), ps)
BpeSpells(c, target, ids, ps, ws) ==
  /\ ids \in Seq(Int)
  /\ ps \in Seq(Seq(Chars)) /\ AllKnown(c, ps)
  /\ ws \in Seq(Seq(Symbols)) /\ \A w \in ToSet(ws) : Covers(c, w)
  /\ target = BytesOf(c, ids) \o (BytesOfPieces(c, ps) \o Utf8(FlattenSeq(ws)))

\* Pieces after pieces are bytes after bytes.
LEMMA BytesOfPiecesConcat ==
  ASSUME NEW c, NEW ps \in Seq(Seq(Chars)), NEW qs \in Seq(Seq(Chars))
  PROVE  /\ BytesOfPieces(c, ps \o qs) = BytesOfPieces(c, ps) \o BytesOfPieces(c, qs)
         /\ BytesOfPieces(c, ps) \in Seq(Chars)
<1>1. BytesOfPiece(c) \in Expands(Seq(Chars), Chars)
  BY BytesOfPieceType
<1>2. Distributes(BytesOfPiece(c), ps, qs)
  BY <1>1, MapFlatConcat, Zenon
<1>3. MapFlat(BytesOfPiece(c), ps) \in Seq(Chars)
  BY <1>1, MapFlatType, Zenon
<1> QED
  BY <1>2, <1>3 DEF Distributes, BytesOfPieces

\* One piece.
LEMMA BytesOfPiecesOne ==
  ASSUME NEW c, NEW p \in Seq(Chars)
  PROVE  BytesOfPieces(c, <<p>>) = PieceBytes(c, p) /\ <<p>> \in Seq(Seq(Chars))
<1>1. BytesOfPiece(c) \in Expands(Seq(Chars), Chars)
  BY BytesOfPieceType
<1>2. MapFlat(BytesOfPiece(c), <<p>>) = BytesOfPiece(c)[p]
  BY <1>1, MapFlatOne
<1>3. BytesOfPiece(c)[p] = PieceBytes(c, p)
  BY PieceBytesAre
<1> QED
  BY <1>2, <1>3 DEF BytesOfPieces

\* A character's first pieces are listed and spell it.
LEMMA InitialSpells ==
  ASSUME NEW c, NEW ch \in Symbols, Known(c.vocab, <<ch>>) \/ (c.byte_fallback /\ Bytewise(c, ch))
  PROVE  /\ Initial(c, ch) \in Seq(Seq(Chars)) /\ AllKnown(c, Initial(c, ch))
         /\ BytesOfPieces(c, Initial(c, ch)) = Utf8(<<ch>>)
<1>1. ch \in Chars /\ <<ch>> \in Seq(Chars) /\ <<ch>> \in Seq(Symbols)
  BY LettersPlain
<1>2. CASE ~(~Known(c.vocab, <<ch>>) /\ c.byte_fallback)
  <2>1. Initial(c, ch) = <<<<ch>>>> /\ Known(c.vocab, <<ch>>)
    BY <1>2 DEF Initial
  <2>2. NamesNoByte(<<ch>>)
    BY <1>1, LongNamesNoByte
  <2>3. PieceBytes(c, <<ch>>) = Utf8(<<ch>>)
    BY <1>1, <2>2, PieceBytesAre
  <2>4. BytesOfPieces(c, <<<<ch>>>>) = PieceBytes(c, <<ch>>) /\ <<<<ch>>>> \in Seq(Seq(Chars))
    BY <1>1, BytesOfPiecesOne
  <2>5. AllKnown(c, <<<<ch>>>>)
    <3> SUFFICES ASSUME NEW k \in 1 .. 1 PROVE Known(c.vocab, <<<<ch>>>>[k])
      BY DEF AllKnown
    <3>1. <<<<ch>>>>[k] = <<ch>>
      OBVIOUS
    <3> QED
      BY <2>1, <3>1
  <2> QED
    BY <2>1, <2>3, <2>4, <2>5
<1>3. CASE ~Known(c.vocab, <<ch>>) /\ c.byte_fallback
  <2> DEFINE b == Utf8(<<ch>>)
  <2> DEFINE ps == [k \in DOMAIN b |-> <<BytePiece[b[k]]>>]
  <2>1. Initial(c, ch) = ps /\ Bytewise(c, ch)
    BY <1>3 DEF Initial
  <2>2. b \in Seq(ByteLetters)
    <3>1. CASE ch \in Letters
      <4>1. <<ch>> \in Seq(Letters)
        BY <3>1
      <4> QED
        BY <4>1, BytesOfText
    <3>2. CASE ch \in {"L", "U", "C"}
      <4>1. <<ch>> \in Seq(Chars \ {"x", "mark"})
        BY <1>1, <3>2
      <4>2. b = <<ch>>
        BY <4>1, Utf8Narrow
      <4>3. <<ch>> \in Seq(ByteLetters)
        BY <3>2 DEF ByteLetters
      <4> QED
        BY <4>2, <4>3
    <3> QED
      BY <3>1, <3>2 DEF Symbols
  <2>3. \A byte \in ToSet(b) : Known(c.vocab, <<BytePiece[byte]>>)
    BY <2>1 DEF Bytewise
  <2> HIDE DEF b
  <2>4. Len(b) \in Nat /\ DOMAIN b = 1 .. Len(b) /\ \A k \in 1 .. Len(b) : b[k] \in ByteLetters /\ b[k] \in ToSet(b)
    BY <2>2, LenProperties, ElementOfSeq DEF ToSet
  <2>5. \A k \in 1 .. Len(b) : <<BytePiece[b[k]]>> \in Seq(Chars) /\ PieceBytes(c, <<BytePiece[b[k]]>>) = <<b[k]>>
    BY <1>3, <2>4, NamedByte, BytePieceIs
  <2>6. ps \in Seq(Seq(Chars)) /\ Len(ps) = Len(b) /\ DOMAIN ps = DOMAIN b
        /\ \A k \in 1 .. Len(b) : ps[k] = <<BytePiece[b[k]]>>
    <3> DEFINE T == Seq(Chars)
    <3> DEFINE name(k) == <<BytePiece[b[k]]>>
    <3>1. \A k \in 1 .. Len(b) : name(k) \in T
      BY <2>5
    <3>2. ps = [k \in 1 .. Len(b) |-> name(k)]
      BY <2>4
    <3> HIDE DEF T, name, ps
    <3>3. ps \in Seq(T) /\ Len(ps) = Len(b) /\ DOMAIN ps = 1 .. Len(b) /\ \A k \in 1 .. Len(b) : ps[k] = name(k)
      BY <2>4, <3>1, <3>2
    <3> QED
      BY <2>4, <3>3 DEF T, name
  <2> HIDE DEF ps
  <2>7. AllKnown(c, ps)
    BY <2>3, <2>4, <2>6 DEF AllKnown
  <2>8. \A k \in 1 .. Len(b) : BytesOfPiece(c)[ps[k]] = <<b[k]>>
    BY <2>5, <2>6, PieceBytesAre
  <2> DEFINE id == [x \in ByteLetters |-> <<x>>]
  <2>9. [k \in DOMAIN ps |-> BytesOfPiece(c)[ps[k]]] = [k \in DOMAIN b |-> id[b[k]]]
    BY <2>4, <2>6, <2>8
  <2>10. id \in Expands(ByteLetters, ByteLetters)
    <3>1. \A x \in ByteLetters : <<x>> \in Seq(ByteLetters)
      OBVIOUS
    <3> QED
      BY <3>1 DEF Expands
  <2>11. MapFlat(id, b) = b
    <3>1. \A x \in ByteLetters : id[x] = <<x>>
      OBVIOUS
    <3> HIDE DEF id
    <3> QED
      BY <2>2, <2>10, <3>1, MapFlatSame
  <2> HIDE DEF id
  <2>12. MapFlat(BytesOfPiece(c), ps) = MapFlat(id, b)
    BY <2>9, Zenon DEF MapFlat
  <2> QED
    BY <2>1, <2>6, <2>7, <2>11, <2>12 DEF b, BytesOfPieces
<1> QED
  BY <1>2, <1>3

\* Pieces that are listed, put together.
LEMMA AllKnownConcat ==
  ASSUME NEW c, NEW ps \in Seq(Seq(Chars)), NEW qs \in Seq(Seq(Chars))
  PROVE  AllKnown(c, ps \o qs) <=> AllKnown(c, ps) /\ AllKnown(c, qs)
<1> DEFINE u == ps \o qs
<1>1. Len(ps) \in Nat /\ Len(qs) \in Nat
  BY LenProperties
<1>2. Len(u) = Len(ps) + Len(qs) /\ \A k \in 1 .. Len(ps) + Len(qs) : u[k] = IF k <= Len(ps) THEN ps[k] ELSE qs[k - Len(ps)]
  BY ConcatProperties
<1> HIDE DEF u
<1>3. ASSUME AllKnown(c, u) PROVE AllKnown(c, ps) /\ AllKnown(c, qs)
  <2>1. \A k \in 1 .. Len(ps) : k \in 1 .. Len(u) /\ u[k] = ps[k]
    BY <1>1, <1>2
  <2>2. \A k \in 1 .. Len(qs) : Len(ps) + k \in 1 .. Len(u) /\ u[Len(ps) + k] = qs[k]
    BY <1>1, <1>2
  <2>3. \A k \in 1 .. Len(u) : Known(c.vocab, u[k])
    BY <1>3 DEF AllKnown
  <2> QED
    BY <2>1, <2>2, <2>3 DEF AllKnown
<1>4. ASSUME AllKnown(c, ps), AllKnown(c, qs) PROVE AllKnown(c, u)
  <2>1. \A k \in 1 .. Len(u) : \/ k \in 1 .. Len(ps) /\ u[k] = ps[k]
                               \/ k - Len(ps) \in 1 .. Len(qs) /\ u[k] = qs[k - Len(ps)]
    BY <1>1, <1>2
  <2> QED
    BY <1>4, <2>1 DEF AllKnown
<1> QED
  BY <1>3, <1>4 DEF u

\* A word's first pieces are listed and spell it.
LEMMA WordSpells ==
  ASSUME NEW c, NEW w \in Seq(Symbols), Covers(c, w)
  PROVE  LET ps == FlattenSeq([k \in DOMAIN w |-> Initial(c, w[k])])
         IN ps \in Seq(Seq(Chars)) /\ AllKnown(c, ps) /\ BytesOfPieces(c, ps) = Utf8(w)
<1> DEFINE S == {ch \in Symbols : Known(c.vocab, <<ch>>) \/ (c.byte_fallback /\ Bytewise(c, ch))}
<1> DEFINE K == {p \in Seq(Chars) : Known(c.vocab, p)}
<1> DEFINE f == [ch \in S |-> Initial(c, ch)]
<1> DEFINE g == BytesOfPiece(c)
<1> DEFINE parts == [k \in DOMAIN w |-> f[w[k]]]
<1>1. Len(w) \in Nat /\ DOMAIN w = 1 .. Len(w) /\ \A k \in 1 .. Len(w) : w[k] \in S
  <2>1. Len(w) \in Nat /\ DOMAIN w = 1 .. Len(w) /\ \A k \in 1 .. Len(w) : w[k] \in Symbols
    BY LenProperties, ElementOfSeq
  <2>2. \A k \in 1 .. Len(w) : w[k] \in ToSet(w)
    BY <2>1 DEF ToSet
  <2> QED
    BY <2>1, <2>2 DEF Covers
<1>2. w \in Seq(S)
  <2>1. w = [k \in 1 .. Len(w) |-> w[k]]
    BY LenProperties
  <2> HIDE DEF S
  <2> QED
    BY <1>1, <2>1
<1>3. \A ch \in S : /\ Initial(c, ch) \in Seq(Seq(Chars)) /\ AllKnown(c, Initial(c, ch))
                    /\ BytesOfPieces(c, Initial(c, ch)) = Utf8(<<ch>>)
  BY InitialSpells
<1>4. \A ch \in S : Initial(c, ch) \in Seq(K)
  <2> TAKE ch \in S
  <2> DEFINE u == Initial(c, ch)
  <2>1. u \in Seq(Seq(Chars)) /\ AllKnown(c, u)
    BY <1>3
  <2> HIDE DEF u, S
  <2>2. Len(u) \in Nat /\ u = [k \in 1 .. Len(u) |-> u[k]] /\ \A k \in 1 .. Len(u) : u[k] \in Seq(Chars)
    BY <2>1, LenProperties, ElementOfSeq
  <2>3. \A k \in 1 .. Len(u) : u[k] \in K
    BY <2>1, <2>2 DEF AllKnown
  <2> HIDE DEF K
  <2>4. u \in Seq(K)
    BY <2>2, <2>3
  <2> QED
    BY <2>4 DEF u
<1>5. FlattenSeq([k \in DOMAIN w |-> Initial(c, w[k])]) = MapFlat(f, w)
  <2>1. [k \in DOMAIN w |-> Initial(c, w[k])] = parts
    <3> HIDE DEF S
    <3> QED
      BY <1>1
  <2> HIDE DEF S
  <2> QED
    BY <2>1, Zenon DEF MapFlat
<1>6. f \in Expands(S, K) /\ f \in Expands(S, Seq(Chars))
  <2>1. \A ch \in S : Initial(c, ch) \in Seq(K) /\ Initial(c, ch) \in Seq(Seq(Chars))
    BY <1>3, <1>4
  <2> HIDE DEF S, K
  <2> QED
    BY <2>1 DEF Expands
<1>7. MapFlat(f, w) \in Seq(K) /\ MapFlat(f, w) \in Seq(Seq(Chars))
  <2> HIDE DEF f, S, K
  <2>1. MapFlat(f, w) \in Seq(K)
    BY <1>2, <1>6, MapFlatType
  <2>2. MapFlat(f, w) \in Seq(Seq(Chars))
    BY <1>2, <1>6, MapFlatType
  <2> QED
    BY <2>1, <2>2
<1>8. AllKnown(c, MapFlat(f, w))
  <2> DEFINE u == MapFlat(f, w)
  <2> HIDE DEF u
  <2>1. \A k \in 1 .. Len(u) : u[k] \in K
    <3> HIDE DEF K
    <3> QED
      BY <1>7, ElementOfSeq DEF u
  <2> QED
    BY <2>1 DEF AllKnown, u
<1>9. \A k \in 1 .. Len(w) : MapFlat(g, f[w[k]]) = Utf8Of[w[k]]
  <2> TAKE k \in 1 .. Len(w)
  <2>1. w[k] \in S /\ w[k] \in Chars
    BY <1>1, LettersPlain
  <2>2. f[w[k]] = Initial(c, w[k])
    BY <2>1
  <2>3. Utf8(<<w[k]>>) = Utf8Of[w[k]]
    BY <2>1, Utf8One
  <2>4. BytesOfPieces(c, Initial(c, w[k])) = Utf8(<<w[k]>>)
    BY <1>3, <2>1
  <2> HIDE DEF f, S
  <2> QED
    BY <2>2, <2>3, <2>4 DEF BytesOfPieces
<1>10. parts \in Seq(Seq(Seq(Chars))) /\ DOMAIN parts = 1 .. Len(w) /\ \A k \in 1 .. Len(w) : parts[k] = f[w[k]]
  <2> HIDE DEF f, S
  <2>1. parts \in Seq(Seq(Seq(Chars)))
    BY <1>2, <1>6, ExpandedParts
  <2> QED
    BY <1>1, <2>1
<1>11. g \in Expands(Seq(Chars), Chars)
  BY BytesOfPieceType
<1>12. MapFlat(f, w) = FlattenSeq(parts)
  BY Zenon DEF MapFlat
<1>13. [k \in DOMAIN parts |-> MapFlat(g, parts[k])] = [k \in DOMAIN w |-> Utf8Of[w[k]]]
  <2> HIDE DEF f, g, parts, S
  <2> QED
    BY <1>1, <1>9, <1>10
<1> HIDE DEF f, g, parts, S, K
<1>14. MapFlat(g, FlattenSeq(parts)) = FlattenSeq([k \in DOMAIN parts |-> MapFlat(g, parts[k])])
  <2> DEFINE D0 == Seq(Chars)
  <2>1. g \in Expands(D0, Chars) /\ parts \in Seq(Seq(D0))
    BY <1>10, <1>11
  <2> HIDE DEF D0
  <2> QED
    BY <2>1, MapFlatNested
<1>15. FlattenSeq([k \in DOMAIN w |-> Utf8Of[w[k]]]) = MapFlat(Utf8Of, w)
  BY Zenon DEF MapFlat
<1>16. w \in Seq(Chars)
  BY LettersPlain, SeqMonotonic
<1>17. MapFlat(Utf8Of, w) = Utf8(w)
  BY <1>16, Utf8IsMap
<1> QED
  BY <1>5, <1>7, <1>8, <1>12, <1>13, <1>14, <1>15, <1>17 DEF g, BytesOfPieces

\* Taking a word: its pieces spell it.
LEMMA BpeTakes ==
  ASSUME NEW c, NEW target, NEW ids, NEW ws, ws # <<>>, BpeSpells(c, target, ids, <<>>, ws)
  PROVE  BpeSpells(c, target, ids, FlattenSeq([k \in DOMAIN Head(ws) |-> Initial(c, Head(ws)[k])]), Tail(ws))
<1> DEFINE w == Head(ws)
<1> DEFINE rest == Tail(ws)
<1> DEFINE ps == FlattenSeq([k \in DOMAIN w |-> Initial(c, w[k])])
<1>1. ws \in Seq(Seq(Symbols)) /\ \A v \in ToSet(ws) : Covers(c, v)
  BY DEF BpeSpells
<1>2. w \in Seq(Symbols) /\ rest \in Seq(Seq(Symbols)) /\ FlattenSeq(ws) = w \o FlattenSeq(rest)
  BY <1>1, HeadTail, FlattenHead
<1>3. w \in ToSet(ws) /\ \A v \in ToSet(rest) : v \in ToSet(ws)
  <2>1. Len(ws) \in Nat \ {0} /\ DOMAIN ws = 1 .. Len(ws) /\ Head(ws) = ws[1]
    BY <1>1, EmptySeq, LenProperties
  <2>2. DOMAIN rest = 1 .. Len(ws) - 1 /\ \A k \in 1 .. Len(ws) - 1 : rest[k] = ws[k + 1]
    BY <1>1, <1>2, <2>1, HeadTailProperties, LenProperties
  <2> HIDE DEF rest
  <2>3. \A k \in DOMAIN rest : k + 1 \in DOMAIN ws /\ rest[k] = ws[k + 1]
    BY <2>1, <2>2
  <2> QED
    BY <2>1, <2>3 DEF ToSet
<1>4. ps \in Seq(Seq(Chars)) /\ AllKnown(c, ps) /\ BytesOfPieces(c, ps) = Utf8(w)
  BY <1>1, <1>2, <1>3, WordSpells
<1>5. BytesOfPieces(c, <<>>) = <<>>
  BY MapFlatEmpty DEF BytesOfPieces
<1> HIDE DEF w, rest, ps
<1>6. w \in Seq(Chars) /\ FlattenSeq(rest) \in Seq(Chars)
  <2>1. FlattenSeq(rest) \in Seq(Symbols)
    BY <1>2, FlattenType
  <2> QED
    BY <1>2, <2>1, LettersPlain, SeqMonotonic
<1>7. Utf8(FlattenSeq(ws)) = Utf8(w) \o Utf8(FlattenSeq(rest)) /\ Utf8(FlattenSeq(ws)) \in Seq(Chars)
  <2>1. w \o FlattenSeq(rest) \in Seq(Chars)
    BY <1>6, ConcatProperties
  <2> QED
    BY <1>2, <1>6, <2>1, Utf8Concat, Utf8IsMap
<1>8. <<>> \o Utf8(FlattenSeq(ws)) = Utf8(FlattenSeq(ws))
  BY <1>7, ConcatEmptySeq
<1>9. target = BytesOf(c, ids) \o (BytesOfPieces(c, ps) \o Utf8(FlattenSeq(rest)))
  <2>1. target = BytesOf(c, ids) \o (BytesOfPieces(c, <<>>) \o Utf8(FlattenSeq(ws)))
    BY DEF BpeSpells
  <2> QED
    BY <1>4, <1>5, <1>7, <1>8, <2>1
<1>10. ids \in Seq(Int)
  BY DEF BpeSpells
<1>11. BpeSpells(c, target, ids, ps, rest)
  BY <1>1, <1>2, <1>3, <1>4, <1>9, <1>10 DEF BpeSpells
<1> QED
  BY <1>11 DEF ps, w, rest

\* Two pieces joined to a piece spell what they spelled.
LEMMA JoinedSpells ==
  ASSUME NEW c, NEW left \in Seq(Chars), NEW right \in Seq(Chars), left # <<>>, right # <<>>,
         c.byte_fallback => NamesNoByte(left) /\ NamesNoByte(right)
  PROVE  PieceBytes(c, left \o right) = PieceBytes(c, left) \o PieceBytes(c, right) /\ left \o right \in Seq(Chars)
<1>1. Len(left) \in Nat \ {0} /\ Len(right) \in Nat \ {0}
  BY EmptySeq
<1>2. left \o right \in Seq(Chars) /\ Len(left \o right) # 1
  BY <1>1, ConcatProperties
<1>3. NamesNoByte(left \o right)
  BY <1>2, LongNamesNoByte
<1>4. PieceBytes(c, left \o right) = Utf8(left \o right)
  BY <1>2, <1>3, PieceBytesAre
<1>5. PieceBytes(c, left) = Utf8(left) /\ PieceBytes(c, right) = Utf8(right)
  BY PieceBytesAre
<1> QED
  BY <1>2, <1>4, <1>5, Utf8Concat

\* Merging a pair of pieces keeps what they spell.
LEMMA BpeMerges ==
  ASSUME NEW c, NEW target, NEW ids, NEW ps, NEW ws, BpeSpells(c, target, ids, ps, ws),
         NEW best \in 1 .. Len(ps) - 1,
         ps[best] # <<>>, ps[best + 1] # <<>>, Known(c.vocab, ps[best] \o ps[best + 1]),
         c.byte_fallback => NamesNoByte(ps[best]) /\ NamesNoByte(ps[best + 1])
  PROVE  BpeSpells(c, target, ids,
                   SubSeq(ps, 1, best - 1) \o <<ps[best] \o ps[best + 1]>> \o SubSeq(ps, best + 2, Len(ps)), ws)
<1> DEFINE P == Seq(Chars)
<1> DEFINE before == SubSeq(ps, 1, best - 1)
<1> DEFINE left == ps[best]
<1> DEFINE right == ps[best + 1]
<1> DEFINE behind == SubSeq(ps, best + 2, Len(ps))
<1>1. ps \in Seq(P) /\ AllKnown(c, ps)
  BY DEF BpeSpells
<1>2. Len(ps) \in Nat /\ \A k \in 1 .. Len(ps) : ps[k] \in P
  BY <1>1, LenProperties, ElementOfSeq
<1>3. left \in P /\ right \in P
  BY <1>2
<1>4. before \in Seq(P) /\ behind \in Seq(P)
  <2>1. \A k \in 1 .. best - 1 : ps[k] \in P
    BY <1>2
  <2>2. \A k \in best + 2 .. Len(ps) : ps[k] \in P
    BY <1>2
  <2> HIDE DEF P
  <2>3. before \in Seq(P)
    BY <1>2, <2>1, SubSeqProperties
  <2>4. behind \in Seq(P)
    BY <1>2, <2>2, SubSeqProperties
  <2> QED
    BY <2>3, <2>4
<1>5. PieceBytes(c, left \o right) = PieceBytes(c, left) \o PieceBytes(c, right) /\ left \o right \in P
  BY <1>3, JoinedSpells
<1>6. ps = before \o (<<left>> \o (<<right>> \o behind))
  <2>1. SubSeq(ps, best + 1, Len(ps)) = <<right>> \o SubSeq(ps, best + 1 + 1, Len(ps))
    <3>1. best + 1 \in 1 .. Len(ps) /\ Len(ps) \in best + 1 .. Len(ps)
      BY <1>2
    <3> HIDE DEF P
    <3> QED
      BY <1>1, <3>1, SubSeqRecursiveFirst
  <2>2. SubSeq(ps, best, Len(ps)) = <<left>> \o SubSeq(ps, best + 1, Len(ps))
    <3>1. best \in 1 .. Len(ps) /\ Len(ps) \in best .. Len(ps)
      BY <1>2
    <3> HIDE DEF P
    <3> QED
      BY <1>1, <3>1, SubSeqRecursiveFirst
  <2>3. SubSeq(ps, 1, best - 1) \o SubSeq(ps, best - 1 + 1, Len(ps)) = SubSeq(ps, 1, Len(ps))
    <3>1. 1 \in 1 .. Len(ps) + 1 /\ best - 1 \in 1 - 1 .. Len(ps) /\ Len(ps) \in best - 1 .. Len(ps)
      BY <1>2
    <3> HIDE DEF P
    <3> QED
      BY <1>1, <3>1, ConcatAdjacentSubSeq
  <2>4. SubSeq(ps, 1, Len(ps)) = ps
    <3> HIDE DEF P
    <3> QED
      BY <1>1, SubSeqFull
  <2>5. best + 1 + 1 = best + 2 /\ best - 1 + 1 = best
    OBVIOUS
  <2> QED
    BY <2>1, <2>2, <2>3, <2>4, <2>5
<1> DEFINE l1 == <<left>>
<1> DEFINE r1 == <<right>>
<1> DEFINE j1 == <<left \o right>>
<1>7. /\ l1 \in Seq(P) /\ r1 \in Seq(P) /\ j1 \in Seq(P)
      /\ BytesOfPieces(c, l1) = PieceBytes(c, left) /\ BytesOfPieces(c, r1) = PieceBytes(c, right)
      /\ BytesOfPieces(c, j1) = PieceBytes(c, left \o right)
  BY <1>3, <1>5, BytesOfPiecesOne
<1>8. ps = before \o (l1 \o (r1 \o behind))
  BY <1>6
<1>9. AllKnown(c, j1)
  <2> SUFFICES ASSUME NEW k \in 1 .. 1 PROVE Known(c.vocab, j1[k])
    BY DEF AllKnown
  <2> DEFINE joined == left \o right
  <2> HIDE DEF joined
  <2>1. <<joined>>[k] = joined
    OBVIOUS
  <2>2. j1[k] = left \o right
    BY <2>1, Zenon DEF joined
  <2> QED
    BY <2>2
<1> HIDE DEF before, behind, l1, r1, j1, P
<1>10. (before \o j1) \o behind \in Seq(P) /\ before \o j1 \in Seq(P)
  BY <1>4, <1>7, ConcatProperties
<1>11. r1 \o behind \in Seq(P) /\ l1 \o (r1 \o behind) \in Seq(P)
  BY <1>4, <1>7, ConcatProperties
<1>12. AllKnown(c, (before \o j1) \o behind)
  <2>1. AllKnown(c, before) /\ AllKnown(c, l1 \o (r1 \o behind))
    BY <1>1, <1>4, <1>8, <1>11, AllKnownConcat DEF P
  <2>2. AllKnown(c, r1 \o behind)
    BY <1>4, <1>7, <1>11, <2>1, AllKnownConcat DEF P
  <2>3. AllKnown(c, behind)
    BY <1>4, <1>7, <2>2, AllKnownConcat DEF P
  <2>4. AllKnown(c, before \o j1)
    BY <1>4, <1>7, <1>9, <2>1, AllKnownConcat DEF P
  <2> QED
    BY <1>4, <1>10, <2>3, <2>4, AllKnownConcat DEF P
<1>13. BytesOfPieces(c, (before \o j1) \o behind) = BytesOfPieces(c, ps)
  <2> DEFINE X(s) == BytesOfPieces(c, s)
  <2>1. X((before \o j1) \o behind) = X(before \o j1) \o X(behind)
    BY <1>4, <1>10, BytesOfPiecesConcat DEF P
  <2>2. X(before \o j1) = X(before) \o X(j1)
    BY <1>4, <1>7, BytesOfPiecesConcat DEF P
  <2>3. X(ps) = X(before) \o X(l1 \o (r1 \o behind))
    BY <1>4, <1>8, <1>11, BytesOfPiecesConcat DEF P
  <2>4. X(l1 \o (r1 \o behind)) = X(l1) \o X(r1 \o behind)
    BY <1>7, <1>11, BytesOfPiecesConcat DEF P
  <2>5. X(r1 \o behind) = X(r1) \o X(behind)
    BY <1>4, <1>7, BytesOfPiecesConcat DEF P
  <2>6. X(before) \in Seq(Chars) /\ X(l1) \in Seq(Chars) /\ X(r1) \in Seq(Chars) /\ X(behind) \in Seq(Chars)
        /\ X(j1) = X(l1) \o X(r1)
    BY <1>4, <1>5, <1>7, BytesOfPiecesConcat DEF P
  <2> HIDE DEF X
  <2>7. (X(before) \o (X(l1) \o X(r1))) \o X(behind) = X(before) \o ((X(l1) \o X(r1)) \o X(behind))
    <3>1. X(l1) \o X(r1) \in Seq(Chars)
      BY <2>6, ConcatProperties
    <3> QED
      BY <2>6, <3>1, ConcatAssociative, SMTT(30)
  <2>8. (X(l1) \o X(r1)) \o X(behind) = X(l1) \o (X(r1) \o X(behind))
    BY <2>6, ConcatAssociative
  <2>9. X((before \o j1) \o behind) = X(ps)
    BY <2>1, <2>2, <2>3, <2>4, <2>5, <2>6, <2>7, <2>8
  <2> QED
    BY <2>9 DEF X
<1>14. BpeSpells(c, target, ids, (before \o j1) \o behind, ws)
  <2>1. /\ ids \in Seq(Int) /\ ws \in Seq(Seq(Symbols)) /\ \A w \in ToSet(ws) : Covers(c, w)
        /\ target = BytesOf(c, ids) \o (BytesOfPieces(c, ps) \o Utf8(FlattenSeq(ws)))
    BY DEF BpeSpells
  <2>2. (before \o j1) \o behind \in Seq(Seq(Chars))
    BY <1>10 DEF P
  <2> QED
    BY <1>12, <1>13, <2>1, <2>2 DEF BpeSpells
<1> QED
  BY <1>14 DEF before, behind, j1

\* The ids of listed pieces spell them.
LEMMA BpeEmits ==
  ASSUME NEW c, c.vocab \in Seq(Seq(Chars)), NEW target, NEW ids, NEW ps, NEW ws, BpeSpells(c, target, ids, ps, ws)
  PROVE  BpeSpells(c, target, ids \o [k \in DOMAIN ps |-> IdOrUnknown(c.vocab, ps[k])], <<>>, ws)
<1> DEFINE more == [k \in DOMAIN ps |-> IdOrUnknown(c.vocab, ps[k])]
<1>1. /\ ids \in Seq(Int) /\ ps \in Seq(Seq(Chars)) /\ AllKnown(c, ps)
      /\ ws \in Seq(Seq(Symbols)) /\ \A w \in ToSet(ws) : Covers(c, w)
      /\ target = BytesOf(c, ids) \o (BytesOfPieces(c, ps) \o Utf8(FlattenSeq(ws)))
  BY DEF BpeSpells
<1>2. more \in Seq(0 .. Len(c.vocab) - 1) /\ BytesOf(c, more) = BytesOfPieces(c, ps)
  BY <1>1, IdsSpell DEF AllKnown, BytesOfPieces
<1> HIDE DEF more
<1>3. more \in Seq(Int)
  <2>1. 0 .. Len(c.vocab) - 1 \subseteq Int
    OBVIOUS
  <2> QED
    BY <1>2, <2>1, SeqMonotonic
<1>4. BytesOf(c, ids \o more) = BytesOf(c, ids) \o BytesOf(c, more) /\ ids \o more \in Seq(Int)
  BY <1>1, <1>3, BytesOfConcat, ConcatProperties
<1> DEFINE left == BytesOf(c, ids)
<1> DEFINE own == BytesOfPieces(c, ps)
<1> DEFINE rest == Utf8(FlattenSeq(ws))
<1>5. left \in Seq(Chars) /\ own \in Seq(Chars) /\ rest \in Seq(Chars)
  <2>1. FlattenSeq(ws) \in Seq(Chars)
    <3>1. FlattenSeq(ws) \in Seq(Symbols)
      BY <1>1, FlattenType
    <3> QED
      BY <3>1, LettersPlain, SeqMonotonic
  <2> QED
    BY <1>1, <2>1, BytesOfIsMap, BytesOfPiecesConcat, Utf8IsMap
<1>6. BytesOfPieces(c, <<>>) = <<>>
  BY MapFlatEmpty DEF BytesOfPieces
<1> HIDE DEF left, own, rest
<1>7. left \o (own \o rest) = (left \o own) \o (<<>> \o rest)
  <2>1. <<>> \o rest = rest
    BY <1>5, ConcatEmptySeq
  <2>2. (left \o own) \o rest = left \o (own \o rest)
    BY <1>5, ConcatAssociative
  <2> QED
    BY <2>1, <2>2
<1>8. target = BytesOf(c, ids \o more) \o (BytesOfPieces(c, <<>>) \o Utf8(FlattenSeq(ws)))
  <2>1. target = left \o (own \o rest)
    BY <1>1 DEF left, own, rest
  <2>2. BytesOf(c, ids \o more) = left \o own
    BY <1>2, <1>4 DEF left, own
  <2> QED
    BY <1>6, <1>7, <2>1, <2>2 DEF rest
<1>9. <<>> \in Seq(Seq(Chars)) /\ AllKnown(c, <<>>)
  BY EmptySeq DEF AllKnown
<1>10. BpeSpells(c, target, ids \o more, <<>>, ws)
  BY <1>1, <1>4, <1>8, <1>9 DEF BpeSpells
<1> QED
  BY <1>10 DEF more

\* At first the words are all there is.
LEMMA BpeStarts ==
  ASSUME NEW c, c.vocab \in Seq(Seq(Chars)), NEW ws \in Seq(Seq(Symbols)), \A w \in ToSet(ws) : Covers(c, w)
  PROVE  BpeSpells(c, Utf8(FlattenSeq(ws)), <<>>, <<>>, ws)
<1>1. <<>> \in Seq(Int) /\ <<>> \in Seq(Seq(Chars)) /\ AllKnown(c, <<>>)
  BY EmptySeq DEF AllKnown
<1>2. BytesOf(c, <<>>) = <<>> /\ BytesOfPieces(c, <<>>) = <<>>
  BY BytesOfNone, MapFlatEmpty DEF BytesOfPieces
<1> DEFINE rest == Utf8(FlattenSeq(ws))
<1>3. rest \in Seq(Chars)
  <2>1. FlattenSeq(ws) \in Seq(Symbols)
    BY FlattenType
  <2>2. FlattenSeq(ws) \in Seq(Chars)
    BY <2>1, LettersPlain, SeqMonotonic
  <2> QED
    BY <2>2, Utf8IsMap
<1> HIDE DEF rest
<1>4. <<>> \o (<<>> \o rest) = rest
  BY <1>3, ConcatEmptySeq
<1> QED
  BY <1>1, <1>2, <1>4 DEF BpeSpells, rest

\* At last the ids are.
LEMMA BpeEnds ==
  ASSUME NEW c, c.vocab \in Seq(Seq(Chars)), NEW target, NEW ids, BpeSpells(c, target, ids, <<>>, <<>>)
  PROVE  BytesOf(c, ids) = target
<1>1. ids \in Seq(Int) /\ target = BytesOf(c, ids) \o (BytesOfPieces(c, <<>>) \o Utf8(FlattenSeq(<<>>)))
  BY DEF BpeSpells
<1>2. BytesOfPieces(c, <<>>) = <<>> /\ Utf8(FlattenSeq(<<>>)) = <<>>
  BY MapFlatEmpty, FlattenEmpty, Utf8Empty DEF BytesOfPieces
<1>3. BytesOf(c, ids) \in Seq(Chars)
  BY <1>1, BytesOfIsMap
<1>4. BytesOf(c, ids) \o (<<>> \o <<>>) = BytesOf(c, ids)
  <2>1. <<>> \o <<>> = <<>>
    BY EmptySeq, ConcatEmptySeq
  <2> QED
    BY <1>3, <2>1, ConcatEmptySeq
<1> QED
  BY <1>1, <1>2, <1>4

\* There is a pair to merge: the leftmost of those of lowest rank.
LEMMA BestPair ==
  ASSUME RanksBounded(codec), Len(pieces) \in Nat, Mergeable # {}
  PROVE  \E k \in Mergeable : \A j \in Mergeable : RankAt(k) < RankAt(j) \/ (RankAt(k) = RankAt(j) /\ k <= j)
<1>1. PICK bound \in Nat : \A m \in codec.merges : m.rank \in 0 .. bound
  BY DEF RanksBounded
<1>2. \A k \in Mergeable : RankAt(k) \in Nat
  <2> TAKE k \in Mergeable
  <2> DEFINE T == Ranks(pieces[k], pieces[k + 1])
  <2>1. T # {}
    BY DEF Mergeable
  <2>2. T \subseteq 0 .. bound
    BY <1>1 DEF Ranks
  <2> HIDE DEF T
  <2>3. Max(T) \in 0 .. bound
    BY <1>1, <2>1, <2>2, MaxOfBounded
  <2> QED
    BY <1>1, <2>3 DEF RankAt, T
<1>3. Mergeable \subseteq Nat
  BY DEF Mergeable
<1> DEFINE ranks == {RankAt(k) : k \in Mergeable}
<1>4. PICK low \in ranks : \A m \in ranks : low <= m
  <2>1. ranks \subseteq Nat /\ ranks # {}
    BY <1>2
  <2> HIDE DEF ranks
  <2> QED
    BY <2>1, LeastNatural
<1> DEFINE lowest == {k \in Mergeable : RankAt(k) = low}
<1>5. PICK k \in lowest : \A j \in lowest : k <= j
  <2>1. lowest \subseteq Nat /\ lowest # {}
    BY <1>3, <1>4
  <2> HIDE DEF lowest
  <2> QED
    BY <2>1, LeastNatural
<1>6. ASSUME NEW j \in Mergeable PROVE RankAt(k) < RankAt(j) \/ (RankAt(k) = RankAt(j) /\ k <= j)
  <2>1. RankAt(k) = low /\ low <= RankAt(j) /\ RankAt(j) \in Nat /\ low \in Nat
    BY <1>2, <1>4, <1>5
  <2>2. RankAt(j) = low => k <= j
    BY <1>5
  <2> QED
    BY <2>1, <2>2
<1> QED
  BY <1>5, <1>6

-----------------------------------------------------------------------------
(* Unigram: the lattice over the bytes of the text.                        *)

\* Where character j of a text ends among its bytes.
End(w, j) == Len(Utf8(SubSeq(w, 1, j)))

\* A character ends after the one before it; its bytes lie between.
LEMMA CharEnds ==
  ASSUME NEW w \in Seq(Chars), NEW j \in 1 .. Len(w)
  PROVE  /\ End(w, 0) = 0 /\ End(w, Len(w)) = Len(Utf8(w))
         /\ End(w, j - 1) \in Nat /\ End(w, j) \in Nat /\ Len(Utf8(w)) \in Nat
         /\ End(w, j - 1) < End(w, j) /\ End(w, j) <= Len(Utf8(w))
         /\ SubSeq(Utf8(w), End(w, j - 1) + 1, End(w, j)) = Utf8(<<w[j]>>)
<1> DEFINE m == Len(w)
<1> DEFINE front == SubSeq(w, 1, j - 1)
<1> DEFINE rear == SubSeq(w, j + 1, m)
<1> DEFINE ch == w[j]
<1> DEFINE a == Utf8(front)
<1> DEFINE b == Utf8(<<ch>>)
<1> DEFINE d == Utf8(rear)
<1>1. m \in Nat /\ \A k \in 1 .. m : w[k] \in Chars
  BY LenProperties, ElementOfSeq
<1>2. ch \in Chars /\ <<ch>> \in Seq(Chars)
  BY <1>1
<1>3. front \in Seq(Chars) /\ rear \in Seq(Chars)
  <2>1. \A k \in 1 .. j - 1 : w[k] \in Chars
    BY <1>1
  <2>2. \A k \in j + 1 .. m : w[k] \in Chars
    BY <1>1
  <2> QED
    BY <1>1, <2>1, <2>2, SubSeqProperties
<1>4. SubSeq(w, 1, j) = front \o <<ch>>
  BY <1>1, SubSeqRecursiveSecond
<1>5. w = SubSeq(w, 1, j) \o rear
  <2>1. 1 \in 1 .. m + 1 /\ j \in 1 - 1 .. m /\ m \in j .. m
    BY <1>1
  <2>2. SubSeq(w, 1, j) \o SubSeq(w, j + 1, m) = SubSeq(w, 1, m)
    BY <2>1, ConcatAdjacentSubSeq
  <2> QED
    BY <2>2, SubSeqFull
<1>6. SubSeq(w, 1, 0) = <<>> /\ SubSeq(w, 1, m) = w
  BY SubSeqEmpty, SubSeqFull
<1>7. End(w, 0) = 0 /\ End(w, m) = Len(Utf8(w))
  BY <1>6, Utf8Empty, EmptySeq DEF End
<1> HIDE DEF front, rear, ch, m
<1>8. a \in Seq(Chars) /\ b \in Seq(Chars) /\ d \in Seq(Chars)
  BY <1>2, <1>3, Utf8IsMap
<1>9. Utf8(SubSeq(w, 1, j)) = a \o b /\ SubSeq(w, 1, j) \in Seq(Chars)
  BY <1>2, <1>3, <1>4, Utf8Concat, ConcatProperties
<1>10. Utf8(w) = (a \o b) \o d
  BY <1>3, <1>5, <1>9, Utf8Concat
<1>11. End(w, j - 1) = Len(a) /\ End(w, j) = Len(a \o b)
  BY <1>9 DEF End, front
<1>12. Len(b) \in Nat \ {0}
  <2>1. b = Utf8Of[ch]
    BY <1>2, Utf8One
  <2>2. /\ Len(<<ch>>) \in Nat \ {0} /\ Len(<<"L", "C", "C">>) \in Nat \ {0}
        /\ Len(<<"U", "C", "C">>) \in Nat \ {0}
    OBVIOUS
  <2> HIDE DEF b
  <2>3. b = <<ch>> \/ b = <<"L", "C", "C">> \/ b = <<"U", "C", "C">>
    BY <1>2, <2>1, Utf8OfType
  <2> QED
    BY <2>2, <2>3, Zenon
<1> HIDE DEF a, b, d
<1>13. Len(a) \in Nat /\ Len(d) \in Nat /\ a \o b \in Seq(Chars) /\ Len(a \o b) = Len(a) + Len(b)
  BY <1>8, LenProperties, ConcatProperties
<1>14. Len((a \o b) \o d) = Len(a) + Len(b) + Len(d)
  BY <1>8, <1>13, ConcatProperties
<1>15. SubSeq((a \o b) \o d, Len(a) + 1, Len(a) + Len(b)) = b
  <2>1. Len(a) + 1 \in 1 .. Len(a \o b) /\ Len(a) + Len(b) \in 1 .. Len(a \o b)
    BY <1>12, <1>13
  <2>2. SubSeq((a \o b) \o d, Len(a) + 1, Len(a) + Len(b)) = SubSeq(a \o b, Len(a) + 1, Len(a) + Len(b))
    BY <1>8, <1>13, <2>1, SubSeqOfConcat1
  <2>3. Len(a) + 1 \in Len(a) + 1 .. Len(a) + Len(b) /\ Len(a) + Len(b) \in Len(a) + 1 .. Len(a) + Len(b)
    BY <1>12, <1>13
  <2>4. SubSeq(a \o b, Len(a) + 1, Len(a) + Len(b)) = SubSeq(b, Len(a) + 1 - Len(a), Len(a) + Len(b) - Len(a))
    BY <1>8, <2>3, SubSeqOfConcat2
  <2>5. Len(a) + 1 - Len(a) = 1 /\ Len(a) + Len(b) - Len(a) = Len(b)
    BY <1>12, <1>13
  <2>6. SubSeq(b, 1, Len(b)) = b
    BY <1>8, SubSeqFull
  <2> QED
    BY <2>2, <2>4, <2>5, <2>6
<1>16. Len(Utf8(w)) = Len(a) + Len(b) + Len(d) /\ End(w, j) = Len(a) + Len(b)
  BY <1>10, <1>11, <1>13, <1>14
<1>17. SubSeq(Utf8(w), End(w, j - 1) + 1, End(w, j)) = b
  BY <1>10, <1>11, <1>13, <1>15, <1>16
<1>18. SubSeq(Utf8(w), End(w, j - 1) + 1, End(w, j)) = Utf8(<<w[j]>>)
  BY <1>17 DEF b, ch
<1>19. /\ End(w, j - 1) \in Nat /\ End(w, j) \in Nat /\ Len(Utf8(w)) \in Nat
       /\ End(w, j - 1) < End(w, j) /\ End(w, j) <= Len(Utf8(w))
  BY <1>11, <1>12, <1>13, <1>16
<1> QED
  BY <1>7, <1>18, <1>19 DEF m

Hit(lat, pos) == pos = 0 \/ lat[pos].id # NoId

\* A position that was reached ends a piece that starts where another ends.
Step(c, bytes, lat, from, pos, id) ==
  /\ from \in 0 .. pos - 1 /\ Hit(lat, from)
  /\ id \in 0 .. Len(c.vocab) - 1
  /\ PieceBytes(c, c.vocab[id + 1]) = SubSeq(bytes, from + 1, pos)
LatticeSpells(c, bytes, lat) ==
  /\ DOMAIN lat = 0 .. Len(bytes)
  /\ \A pos \in 1 .. Len(bytes) :
       lat[pos].id # NoId => Step(c, bytes, lat, lat[pos].start, pos, lat[pos].id)

\* Up to k every character's end is reached, and every position inside a
\* character unless the character's end is.
LatticeReaches(c, w, lat, k) ==
  \A j \in 1 .. Len(w) :
    /\ End(w, j) <= k => Hit(lat, End(w, j))
    /\ \A pos \in Nat : End(w, j - 1) < pos /\ pos < End(w, j) /\ pos <= k =>
         Hit(lat, End(w, j)) \/ (Bytewise(c, w[j]) /\ Hit(lat, pos))

\* What relaxing position k does to a lattice.
RelaxedFrom(c, bytes, lat, k, lat2) ==
  /\ DOMAIN lat2 = DOMAIN lat
  /\ \A pos \in 0 .. k : lat2[pos] = lat[pos]
  /\ \A pos \in k + 1 .. Len(bytes) :
       \/ lat2[pos] = lat[pos]
       \/ lat2[pos].start = k /\ Step(c, bytes, lat, k, pos, lat2[pos].id)
  /\ Hit(lat, k) =>
       /\ \A pos \in k + 1 .. Len(bytes) :
            (\E p \in ToSet(c.vocab) : p # <<>> /\ Utf8(p) = SubSeq(bytes, k + 1, pos)) => Hit(lat2, pos)
       /\ Known(c.vocab, <<BytePiece[bytes[k + 1]]>>) => Hit(lat2, k + 1)

\* What was reached stays reached.
LEMMA StaysHit ==
  ASSUME NEW c, NEW bytes, NEW lat, NEW lat2, NEW k \in Nat, RelaxedFrom(c, bytes, lat, k, lat2),
         Len(bytes) \in Nat, NEW pos \in 0 .. Len(bytes), Hit(lat, pos)
  PROVE  Hit(lat2, pos)
<1>1. CASE pos \in 0 .. k
  BY <1>1 DEF RelaxedFrom, Hit
<1>2. CASE pos \notin 0 .. k
  <2>1. pos \in k + 1 .. Len(bytes)
    BY <1>2
  <2>2. CASE lat2[pos] = lat[pos]
    BY <2>2 DEF Hit
  <2>3. CASE Step(c, bytes, lat, k, pos, lat2[pos].id)
    BY <2>3 DEF Hit, Step, NoId
  <2> QED
    BY <2>1, <2>2, <2>3 DEF RelaxedFrom
<1> QED
  BY <1>1, <1>2

\* A relaxed lattice still spells.
LEMMA RelaxedSpells ==
  ASSUME NEW c, NEW bytes, NEW lat, NEW lat2, NEW k \in Nat, RelaxedFrom(c, bytes, lat, k, lat2),
         Len(bytes) \in Nat, LatticeSpells(c, bytes, lat)
  PROVE  LatticeSpells(c, bytes, lat2)
<1>1. DOMAIN lat2 = 0 .. Len(bytes)
  BY DEF RelaxedFrom, LatticeSpells
<1>2. ASSUME NEW pos \in 1 .. Len(bytes), lat2[pos].id # NoId
      PROVE  Step(c, bytes, lat2, lat2[pos].start, pos, lat2[pos].id)
  <2>1. Step(c, bytes, lat, lat2[pos].start, pos, lat2[pos].id)
    <3>1. CASE lat2[pos] = lat[pos]
      BY <1>2, <3>1 DEF LatticeSpells
    <3>2. CASE lat2[pos] # lat[pos]
      <4>1. pos \in k + 1 .. Len(bytes)
        BY <3>2 DEF RelaxedFrom
      <4> QED
        BY <3>2, <4>1 DEF RelaxedFrom
    <3> QED
      BY <3>1, <3>2
  <2>2. lat2[pos].start \in 0 .. Len(bytes) /\ Hit(lat, lat2[pos].start)
    BY <2>1 DEF Step
  <2>3. Hit(lat2, lat2[pos].start)
    BY <2>2, StaysHit
  <2> QED
    BY <2>1, <2>3 DEF Step
<1> QED
  BY <1>1, <1>2 DEF LatticeSpells

\* Relaxing a position reaches one byte further.
LEMMA RelaxedReaches ==
  ASSUME NEW c, c.vocab \in Seq(Seq(Chars)), NEW w \in Seq(Letters), Covers(c, w),
         NEW lat, NEW lat2, NEW k \in 0 .. Len(Utf8(w)) - 1,
         RelaxedFrom(c, Utf8(w), lat, k, lat2), LatticeReaches(c, w, lat, k)
  PROVE  LatticeReaches(c, w, lat2, k + 1)
<1> DEFINE bytes == Utf8(w)
<1>1. w \in Seq(Chars) /\ bytes \in Seq(Chars) /\ Len(bytes) \in Nat /\ Len(w) \in Nat
  <2>1. w \in Seq(Chars)
    BY LettersPlain, SeqMonotonic
  <2> QED
    BY <2>1, Utf8IsMap, LenProperties
<1> SUFFICES ASSUME NEW j \in 1 .. Len(w)
             PROVE  /\ End(w, j) <= k + 1 => Hit(lat2, End(w, j))
                    /\ \A pos \in Nat : End(w, j - 1) < pos /\ pos < End(w, j) /\ pos <= k + 1 =>
                         Hit(lat2, End(w, j)) \/ (Bytewise(c, w[j]) /\ Hit(lat2, pos))
  BY DEF LatticeReaches
<1> DEFINE from == End(w, j - 1)
<1> DEFINE to == End(w, j)
<1> DEFINE ch == w[j]
<1>2. /\ from \in Nat /\ to \in Nat /\ from < to /\ to <= Len(bytes)
      /\ SubSeq(bytes, from + 1, to) = Utf8(<<ch>>)
  BY <1>1, CharEnds
<1>3. from <= k => Hit(lat, from)
  <2>1. CASE j = 1
    <3>1. from = 0
      <4>1. j - 1 = 0
        BY <2>1
      <4>2. End(w, 0) = 0
        BY <1>1, CharEnds
      <4> QED
        BY <4>1, <4>2
    <3> QED
      BY <3>1 DEF Hit
  <2>2. CASE j # 1
    <3>1. j - 1 \in 1 .. Len(w)
      BY <1>1, <2>2
    <3> QED
      BY <3>1 DEF LatticeReaches
  <2> QED
    BY <2>1, <2>2
<1>4. /\ to <= k => Hit(lat, to)
      /\ \A pos \in Nat : from < pos /\ pos < to /\ pos <= k => Hit(lat, to) \/ (Bytewise(c, ch) /\ Hit(lat, pos))
  BY DEF LatticeReaches
<1>5. ch \in Chars /\ <<ch>> \in Seq(Chars) /\ ch \in ToSet(w)
  BY <1>1, LenProperties, ElementOfSeq DEF ToSet
<1>6. Known(c.vocab, <<ch>>) \/ Bytewise(c, ch)
  BY <1>5 DEF Covers
<1>7. ASSUME Known(c.vocab, <<ch>>) PROVE <<ch>> \in ToSet(c.vocab) /\ <<ch>> # <<>>
  <2>1. /\ str_to_id(c.vocab, <<ch>>) \in 0 .. Len(c.vocab) - 1
        /\ c.vocab[str_to_id(c.vocab, <<ch>>) + 1] = <<ch>>
    BY <1>7, PieceListed
  <2>2. Len(c.vocab) \in Nat /\ DOMAIN c.vocab = 1 .. Len(c.vocab)
    BY LenProperties
  <2>3. str_to_id(c.vocab, <<ch>>) + 1 \in DOMAIN c.vocab
    BY <2>1, <2>2
  <2> QED
    BY <2>1, <2>3 DEF ToSet
<1>8. ASSUME Bytewise(c, ch), from <= k, k < to PROVE Known(c.vocab, <<BytePiece[bytes[k + 1]]>>)
  <2>1. \A h \in from + 1 .. to : bytes[h] \in Chars
    BY <1>1, <1>2, ElementOfSeq
  <2> DEFINE u == SubSeq(bytes, from + 1, to)
  <2> HIDE DEF from, to, bytes
  <2>2. /\ u \in Seq(Chars) /\ Len(u) = to - from
        /\ \A h \in 1 .. to - (from + 1) + 1 : u[h] = bytes[from + 1 + h - 1]
    BY <1>2, <2>1, SubSeqProperties
  <2> HIDE DEF u
  <2>3. k - from + 1 \in 1 .. to - from /\ k - from + 1 \in 1 .. to - (from + 1) + 1 /\ from + 1 + (k - from + 1) - 1 = k + 1
    BY <1>2, <1>8, SMTT(30)
  <2>4. u[k - from + 1] = bytes[k + 1]
    BY <2>2, <2>3
  <2>5. DOMAIN u = 1 .. to - from
    BY <2>2, LenProperties
  <2>6. bytes[k + 1] \in ToSet(u)
    BY <2>3, <2>4, <2>5 DEF ToSet
  <2> QED
    BY <1>2, <1>8, <2>6 DEF Bytewise, u
<1> HIDE DEF ch, from, to, bytes
<1>9. RelaxedFrom(c, bytes, lat, k, lat2) /\ k \in 0 .. Len(bytes) - 1
  BY DEF bytes
<1>10. \A pos \in 0 .. Len(bytes) : Hit(lat, pos) => Hit(lat2, pos)
  BY <1>1, <1>9, StaysHit
<1>11. Hit(lat, k) => /\ \A pos \in k + 1 .. Len(bytes) :
                           (\E p \in ToSet(c.vocab) : p # <<>> /\ Utf8(p) = SubSeq(bytes, k + 1, pos)) => Hit(lat2, pos)
                      /\ Known(c.vocab, <<BytePiece[bytes[k + 1]]>>) => Hit(lat2, k + 1)
  BY <1>9 DEF RelaxedFrom
<1>12. ASSUME from <= k, k < to
       PROVE  Hit(lat2, to) \/ (Bytewise(c, ch) /\ Hit(lat2, k + 1))
  <2>1. CASE from = k
    <3>1. Hit(lat, k)
      BY <1>3, <1>12, <2>1
    <3>2. CASE Known(c.vocab, <<ch>>)
      <4>1. to \in k + 1 .. Len(bytes)
        BY <1>1, <1>2, <1>9, <1>12
      <4>2. <<ch>> \in ToSet(c.vocab) /\ <<ch>> # <<>> /\ Utf8(<<ch>>) = SubSeq(bytes, k + 1, to)
        BY <1>2, <1>7, <2>1, <3>2
      <4> QED
        BY <1>11, <3>1, <4>1, <4>2
    <3>3. CASE Bytewise(c, ch)
      BY <1>8, <1>11, <1>12, <3>1, <3>3
    <3> QED
      BY <1>6, <3>2, <3>3
  <2>2. CASE from # k
    <3>1. from < k /\ k \in Nat
      BY <1>2, <1>9, <1>12, <2>2
    <3>2. Hit(lat, to) \/ (Bytewise(c, ch) /\ Hit(lat, k))
      BY <1>4, <1>12, <3>1
    <3>3. CASE Hit(lat, to)
      BY <1>2, <1>10, <3>3
    <3>4. CASE Bytewise(c, ch) /\ Hit(lat, k)
      BY <1>8, <1>11, <1>12, <3>4
    <3> QED
      BY <3>2, <3>3, <3>4
  <2> QED
    BY <2>1, <2>2
<1>13. ASSUME to <= k + 1 PROVE Hit(lat2, to)
  <2>1. CASE to <= k
    BY <1>2, <1>4, <1>10, <2>1
  <2>2. CASE ~(to <= k)
    <3>1. to = k + 1 /\ from <= k /\ k < to
      BY <1>2, <1>9, <1>13, <2>2
    <3> QED
      BY <1>12, <3>1
  <2> QED
    BY <2>1, <2>2
<1>14. ASSUME NEW pos \in Nat, from < pos, pos < to, pos <= k + 1
       PROVE  Hit(lat2, to) \/ (Bytewise(c, ch) /\ Hit(lat2, pos))
  <2>1. CASE pos <= k
    <3>1. Hit(lat, to) \/ (Bytewise(c, ch) /\ Hit(lat, pos))
      BY <1>4, <1>14, <2>1
    <3>2. pos \in 0 .. Len(bytes) /\ to \in 0 .. Len(bytes)
      BY <1>1, <1>2, <1>14
    <3> QED
      BY <1>10, <3>1, <3>2
  <2>2. CASE ~(pos <= k)
    <3>1. pos = k + 1 /\ from <= k /\ k < to
      BY <1>2, <1>9, <1>14, <2>2
    <3> QED
      BY <1>12, <3>1
  <2> QED
    BY <2>1, <2>2
<1> QED
  BY <1>13, <1>14 DEF from, to, ch

\* A piece spelled by the bytes of letters is the name of no byte.
LEMMA SpelledNamesNoByte ==
  ASSUME NEW p \in Seq(Chars), Utf8(p) \in Seq(ByteLetters)
  PROVE  NamesNoByte(p)
<1> SUFFICES ASSUME ~NamesNoByte(p) PROVE FALSE
  OBVIOUS
<1>1. PICK byte \in ByteLetters : p = <<BytePiece[byte]>>
  BY NamesByte DEF NamesNoByte
<1> DEFINE name == BytePiece[byte]
<1>2. name \in Chars /\ name \notin {"x", "mark"} /\ name \notin ByteLetters
  BY <1>1, NamedByte DEF BytePiece, ByteLetters
<1> HIDE DEF name
<1>3. Utf8(<<name>>) = <<name>>
  <2>1. name \in Chars \ {"x", "mark"}
    BY <1>2
  <2> QED
    BY <1>2, <2>1, Utf8One, Utf8OfType
<1>4. p = <<name>>
  BY <1>1 DEF name
<1>5. <<name>> \in Seq(ByteLetters)
  BY <1>3, <1>4
<1>6. <<name>>[1] \in ByteLetters /\ <<name>>[1] = name
  BY <1>5
<1> QED
  BY <1>2, <1>6

\* The piece between two positions is listed, and is there when one is listed.
LEMMA BetweenIs ==
  ASSUME codec.vocab \in Seq(Seq(Chars)), NEW from, NEW to
  PROVE  LET id == PieceBetween(from, to)
         IN /\ id # NoId => /\ id \in 0 .. Len(codec.vocab) - 1
                            /\ Utf8(codec.vocab[id + 1]) = SubSeq(pieces, from + 1, to)
            /\ (\E p \in ToSet(codec.vocab) : p # <<>> /\ Utf8(p) = SubSeq(pieces, from + 1, to)) => id # NoId
<1> DEFINE id == PieceBetween(from, to)
<1> DEFINE u == SubSeq(pieces, from + 1, to)
<1> DEFINE listed == {k \in DOMAIN codec.vocab : codec.vocab[k] # <<>> /\ Utf8(codec.vocab[k]) = u}
<1>1. Len(codec.vocab) \in Nat /\ DOMAIN codec.vocab = 1 .. Len(codec.vocab)
  BY LenProperties
<1>2. id = IF listed = {} THEN NoId ELSE Max(listed) - 1
  BY DEF PieceBetween
<1>3. listed # {} => Max(listed) \in 1 .. Len(codec.vocab) /\ Utf8(codec.vocab[Max(listed)]) = u
  <2>1. listed \subseteq 0 .. Len(codec.vocab) /\ \A k \in listed : k \in 1 .. Len(codec.vocab) /\ Utf8(codec.vocab[k]) = u
    BY <1>1
  <2> HIDE DEF listed
  <2>2. listed # {} => Max(listed) \in listed
    BY <1>1, <2>1, MaxOfBounded
  <2> QED
    BY <2>1, <2>2
<1>4. ASSUME NEW p \in ToSet(codec.vocab), p # <<>>, Utf8(p) = u PROVE listed # {}
  <2>1. PICK k \in DOMAIN codec.vocab : codec.vocab[k] = p
    BY DEF ToSet
  <2>2. k \in listed
    BY <1>4, <2>1
  <2> HIDE DEF listed
  <2> QED
    BY <2>2
<1> HIDE DEF listed, u
<1>5. CASE listed = {}
  <2>1. id = NoId
    BY <1>2, <1>5
  <2> HIDE DEF id
  <2>2. id # NoId => FALSE
    BY <2>1
  <2>3. ~ \E p \in ToSet(codec.vocab) : p # <<>> /\ Utf8(p) = u
    BY <1>4, <1>5
  <2> QED
    BY <2>2, <2>3 DEF id, u
<1>6. CASE listed # {}
  <2>1. id = Max(listed) - 1 /\ Max(listed) \in 1 .. Len(codec.vocab) /\ Utf8(codec.vocab[Max(listed)]) = u
    BY <1>2, <1>3, <1>6
  <2> HIDE DEF id
  <2>2. id \in 0 .. Len(codec.vocab) - 1 /\ id # NoId /\ id + 1 = Max(listed)
    BY <1>1, <2>1 DEF NoId
  <2> QED
    BY <2>1, <2>2 DEF id, u
<1> QED
  BY <1>5, <1>6

\* A candidate replaces what is there, or not; nothing is replaced by nothing.
LEMMA BetterIs ==
  ASSUME NEW old, NEW total, NEW start, NEW id
  PROVE  LET new == Better(old, total, start, id)
         IN /\ new = old \/ (new.start = start /\ new.id = id /\ id # NoId)
            /\ id # NoId => new.id # NoId
BY DEF Better

\* A step of the forward pass relaxes the position at the cursor.
LEMMA RelaxIs ==
  ASSUME Consistent(codec), codec.algorithm = "Unigram", pieces \in Seq(ByteLetters),
         cursor \in 0 .. Len(pieces) - 1, DOMAIN lattice = 0 .. Len(pieces), Relax
  PROVE  RelaxedFrom(codec, pieces, lattice, cursor, lattice')
<1> DEFINE here == lattice[cursor].score
<1> DEFINE id(pos) == PieceBetween(cursor, pos)
<1> DEFINE new(pos) == Better(lattice[pos], here + ScoreOf(codec, id(pos)), cursor, id(pos))
<1> DEFINE grown == [pos \in DOMAIN lattice |-> IF pos <= cursor THEN lattice[pos] ELSE new(pos)]
<1> DEFINE byte == str_to_id(codec.vocab, <<BytePiece[pieces[cursor + 1]]>>)
<1> DEFINE spelt == Better(grown[cursor + 1], here + ByteScore, cursor, byte)
<1>1. lattice' = IF ~Reached(cursor) THEN lattice
                 ELSE IF grown[cursor + 1].id # NoId THEN grown
                 ELSE [grown EXCEPT ![cursor + 1] = spelt]
  BY DEF Relax
<1>2. codec.vocab \in Seq(Seq(Chars)) /\ Len(codec.vocab) \in Nat
      /\ \A k \in 1 .. Len(codec.vocab) : codec.vocab[k] \in Seq(Chars)
  BY LenProperties, ElementOfSeq DEF Consistent
<1>3. Len(pieces) \in Nat /\ \A k \in 1 .. Len(pieces) : pieces[k] \in ByteLetters
  BY LenProperties, ElementOfSeq
<1>4. cursor + 1 \in 1 .. Len(pieces) /\ cursor \in Nat
  BY <1>3
<1>5. Reached(cursor) <=> Hit(lattice, cursor)
  BY DEF Reached, Hit
<1>6. ASSUME NEW pos \in cursor + 1 .. Len(pieces), id(pos) # NoId, Hit(lattice, cursor)
      PROVE  Step(codec, pieces, lattice, cursor, pos, id(pos))
  <2> DEFINE h == id(pos)
  <2>1. h \in 0 .. Len(codec.vocab) - 1 /\ Utf8(codec.vocab[h + 1]) = SubSeq(pieces, cursor + 1, pos)
    BY <1>2, <1>6, BetweenIs
  <2> HIDE DEF h
  <2>2. codec.vocab[h + 1] \in Seq(Chars)
    BY <1>2, <2>1
  <2>3. SubSeq(pieces, cursor + 1, pos) \in Seq(ByteLetters)
    <3>1. \A k \in cursor + 1 .. pos : pieces[k] \in ByteLetters
      BY <1>3, <1>4
    <3>2. cursor + 1 \in Int /\ pos \in Int
      BY <1>4
    <3> QED
      BY <3>1, <3>2, SubSeqProperties
  <2>4. NamesNoByte(codec.vocab[h + 1])
    BY <2>1, <2>2, <2>3, SpelledNamesNoByte
  <2>5. PieceBytes(codec, codec.vocab[h + 1]) = SubSeq(pieces, cursor + 1, pos)
    BY <2>1, <2>2, <2>4, PieceBytesAre
  <2>6. cursor \in 0 .. pos - 1
    BY <1>4
  <2> QED
    BY <1>6, <2>1, <2>5, <2>6 DEF Step, h
<1>7. ASSUME byte # NoId, Hit(lattice, cursor)
      PROVE  Step(codec, pieces, lattice, cursor, cursor + 1, byte)
  <2> DEFINE b == pieces[cursor + 1]
  <2> DEFINE name == <<BytePiece[b]>>
  <2>1. b \in ByteLetters
    BY <1>3, <1>4
  <2>2. byte \in 0 .. Len(codec.vocab) - 1 /\ codec.vocab[byte + 1] = name
    BY <1>2, <1>7, PieceListed DEF Known
  <2>3. ~NamesNoByte(name)
    BY <2>1, NamedByte DEF NamesNoByte
  <2> HIDE DEF byte, name, b
  <2>4. codec.byte_fallback
    <3>1. byte + 1 \in DOMAIN codec.vocab
      BY <1>2, <2>2, LenProperties
    <3> QED
      BY <2>2, <2>3, <3>1 DEF Consistent
  <2>5. PieceBytes(codec, name) = <<b>>
    BY <2>1, <2>4, BytePieceIs DEF name
  <2>6. SubSeq(pieces, cursor + 1, cursor + 1) = <<b>>
    <3>1. cursor + 1 \in cursor + 1 .. Len(pieces)
      BY <1>4
    <3>2. SubSeq(pieces, cursor + 1, cursor + 1) = <<pieces[cursor + 1]>> \o SubSeq(pieces, cursor + 1 + 1, cursor + 1)
      BY <1>4, SubSeqRecursiveFirst
    <3>3. SubSeq(pieces, cursor + 1 + 1, cursor + 1) = <<>>
      BY <1>4, SubSeqEmpty
    <3>4. <<b>> \o <<>> = <<b>>
      BY <2>1, ConcatEmptySeq
    <3> QED
      BY <3>2, <3>3, <3>4 DEF b
  <2>7. cursor \in 0 .. (cursor + 1) - 1
    BY <1>4
  <2>8. PieceBytes(codec, codec.vocab[byte + 1]) = SubSeq(pieces, cursor + 1, cursor + 1)
    BY <2>2, <2>5, <2>6
  <2>9. Hit(lattice, cursor)
    BY <1>7
  <2> QED
    BY <2>2, <2>7, <2>8, <2>9, Zenon DEF Step
<1>8. \A pos \in cursor + 1 .. Len(pieces) :
        /\ new(pos) = lattice[pos] \/ (new(pos).start = cursor /\ new(pos).id = id(pos) /\ id(pos) # NoId)
        /\ id(pos) # NoId => new(pos).id # NoId
  <2> HIDE DEF id
  <2> QED
    BY BetterIs
<1>9. /\ spelt = grown[cursor + 1] \/ (spelt.start = cursor /\ spelt.id = byte /\ byte # NoId)
      /\ byte # NoId => spelt.id # NoId
  <2> HIDE DEF grown, byte
  <2> QED
    BY BetterIs
<1>10. \A pos \in cursor + 1 .. Len(pieces) :
         (\E p \in ToSet(codec.vocab) : p # <<>> /\ Utf8(p) = SubSeq(pieces, cursor + 1, pos)) => id(pos) # NoId
  BY <1>2, BetweenIs
<1>11. Known(codec.vocab, <<BytePiece[pieces[cursor + 1]]>>) <=> byte # NoId
  BY DEF Known
<1>12. /\ DOMAIN grown = 0 .. Len(pieces)
       /\ \A pos \in 0 .. cursor : grown[pos] = lattice[pos]
       /\ \A pos \in cursor + 1 .. Len(pieces) : grown[pos] = new(pos)
  <2> HIDE DEF new
  <2> QED
    BY <1>3, <1>4
<1> HIDE DEF id, new, grown, byte, spelt
<1>13. CASE ~Reached(cursor)
  BY <1>1, <1>5, <1>13 DEF RelaxedFrom
<1>14. CASE Reached(cursor) /\ grown[cursor + 1].id # NoId
  <2>1. lattice' = grown /\ Hit(lattice, cursor)
    BY <1>1, <1>5, <1>14
  <2>2. \A pos \in cursor + 1 .. Len(pieces) :
          \/ grown[pos] = lattice[pos]
          \/ grown[pos].start = cursor /\ Step(codec, pieces, lattice, cursor, pos, grown[pos].id)
    BY <1>6, <1>8, <1>12, <2>1
  <2>3. \A pos \in cursor + 1 .. Len(pieces) :
          (\E p \in ToSet(codec.vocab) : p # <<>> /\ Utf8(p) = SubSeq(pieces, cursor + 1, pos)) => Hit(grown, pos)
    BY <1>8, <1>10, <1>12 DEF Hit
  <2>4. Hit(grown, cursor + 1)
    BY <1>14 DEF Hit
  <2> QED
    BY <1>12, <2>1, <2>2, <2>3, <2>4 DEF RelaxedFrom
<1>15. CASE Reached(cursor) /\ grown[cursor + 1].id = NoId
  <2> DEFINE lat2 == [grown EXCEPT ![cursor + 1] = spelt]
  <2>1. lattice' = lat2 /\ Hit(lattice, cursor)
    BY <1>1, <1>5, <1>15
  <2>2. /\ DOMAIN lat2 = 0 .. Len(pieces) /\ lat2[cursor + 1] = spelt
        /\ \A pos \in 0 .. Len(pieces) : pos # cursor + 1 => lat2[pos] = grown[pos]
    BY <1>4, <1>12
  <2> HIDE DEF lat2
  <2>3. \A pos \in 0 .. cursor : lat2[pos] = lattice[pos]
    BY <1>3, <1>4, <1>12, <2>2
  <2>4. ASSUME NEW pos \in cursor + 1 .. Len(pieces)
        PROVE  \/ lat2[pos] = lattice[pos]
               \/ lat2[pos].start = cursor /\ Step(codec, pieces, lattice, cursor, pos, lat2[pos].id)
    <3>1. \/ grown[pos] = lattice[pos]
          \/ grown[pos].start = cursor /\ Step(codec, pieces, lattice, cursor, pos, grown[pos].id)
      BY <1>6, <1>8, <1>12, <2>1
    <3>2. CASE pos = cursor + 1 /\ spelt # grown[cursor + 1]
      BY <1>7, <1>9, <2>1, <2>2, <3>2
    <3>3. CASE ~(pos = cursor + 1 /\ spelt # grown[cursor + 1])
      <4>1. lat2[pos] = grown[pos]
        BY <1>4, <2>2, <3>3
      <4> QED
        BY <3>1, <4>1
    <3> QED
      BY <3>2, <3>3
  <2>5. ASSUME NEW pos \in cursor + 1 .. Len(pieces),
               \E p \in ToSet(codec.vocab) : p # <<>> /\ Utf8(p) = SubSeq(pieces, cursor + 1, pos)
        PROVE  Hit(lat2, pos)
    <3>1. grown[pos].id # NoId
      BY <1>8, <1>10, <1>12, <2>5
    <3>2. pos # cursor + 1
      BY <1>15, <3>1
    <3>3. lat2[pos] = grown[pos]
      BY <1>4, <2>2, <3>2
    <3> QED
      BY <3>1, <3>3 DEF Hit
  <2>6. Known(codec.vocab, <<BytePiece[pieces[cursor + 1]]>>) => Hit(lat2, cursor + 1)
    BY <1>9, <1>11, <2>2 DEF Hit
  <2> QED
    BY <2>1, <2>2, <2>3, <2>4, <2>5, <2>6 DEF RelaxedFrom
<1> QED
  BY <1>13, <1>14, <1>15

\* Walking back: the ids spell what lies behind the position.
BackSpells(c, bytes, lat, pos, ids) ==
  /\ pos \in 0 .. Len(bytes) /\ Hit(lat, pos) /\ ids \in Seq(Int)
  /\ BytesOf(c, ids) = SubSeq(bytes, pos + 1, Len(bytes))

\* The walk back starts at the end.
LEMMA BackStarts ==
  ASSUME NEW c, NEW bytes \in Seq(Chars), NEW lat, Hit(lat, Len(bytes))
  PROVE  BackSpells(c, bytes, lat, Len(bytes), <<>>)
<1>1. Len(bytes) \in Nat
  BY LenProperties
<1>2. SubSeq(bytes, Len(bytes) + 1, Len(bytes)) = <<>>
  BY <1>1, SubSeqEmpty
<1>3. Len(bytes) \in 0 .. Len(bytes)
  BY <1>1
<1>4. <<>> \in Seq(Int)
  BY EmptySeq
<1>5. BytesOf(c, <<>>) = <<>>
  BY BytesOfNone
<1> QED
  BY <1>2, <1>3, <1>4, <1>5 DEF BackSpells

\* A step back puts its piece in front.
LEMMA BackOn ==
  ASSUME NEW c, c.vocab \in Seq(Seq(Chars)), NEW bytes \in Seq(Chars), NEW lat, NEW pos, NEW ids,
         LatticeSpells(c, bytes, lat), BackSpells(c, bytes, lat, pos, ids), pos # 0
  PROVE  BackSpells(c, bytes, lat, lat[pos].start, <<lat[pos].id>> \o ids)
<1> DEFINE from == lat[pos].start
<1> DEFINE id == lat[pos].id
<1> DEFINE n0 == Len(bytes)
<1>1. n0 \in Nat /\ pos \in 1 .. n0 /\ id # NoId /\ ids \in Seq(Int)
      /\ BytesOf(c, ids) = SubSeq(bytes, pos + 1, n0)
  BY LenProperties DEF BackSpells, Hit
<1>2. Step(c, bytes, lat, from, pos, id)
  BY <1>1 DEF LatticeSpells
<1>3. /\ from \in 0 .. pos - 1 /\ Hit(lat, from) /\ id \in 0 .. Len(c.vocab) - 1
      /\ PieceBytes(c, c.vocab[id + 1]) = SubSeq(bytes, from + 1, pos)
  BY <1>2 DEF Step
<1> HIDE DEF from, id, n0
<1>4. BytesOf(c, <<id>>) = SubSeq(bytes, from + 1, pos) /\ <<id>> \in Seq(Int)
  BY <1>3, BytesOfOne
<1>5. BytesOf(c, <<id>> \o ids) = BytesOf(c, <<id>>) \o BytesOf(c, ids) /\ <<id>> \o ids \in Seq(Int)
  BY <1>1, <1>4, BytesOfConcat, ConcatProperties
<1>6. SubSeq(bytes, from + 1, pos) \o SubSeq(bytes, pos + 1, n0) = SubSeq(bytes, from + 1, n0)
  <2>1. from + 1 \in 1 .. Len(bytes) + 1 /\ pos \in (from + 1) - 1 .. Len(bytes) /\ n0 \in pos .. Len(bytes)
    BY <1>1, <1>3, SMTT(30) DEF n0
  <2> QED
    BY <2>1, ConcatAdjacentSubSeq
<1>7. from \in 0 .. n0
  BY <1>1, <1>3
<1> QED
  BY <1>1, <1>3, <1>4, <1>5, <1>6, <1>7 DEF BackSpells, from, id, n0

\* An empty lattice.
LEMMA LatticeStarts ==
  ASSUME NEW c, NEW w \in Seq(Letters), NEW lat, lat = [pos \in 0 .. Len(Utf8(w)) |-> NoPath]
  PROVE  LatticeSpells(c, Utf8(w), lat) /\ LatticeReaches(c, w, lat, 0)
<1>1. w \in Seq(Chars)
  BY LettersPlain, SeqMonotonic
<1>2. LatticeSpells(c, Utf8(w), lat)
  BY DEF LatticeSpells, NoPath
<1>3. \A j \in 1 .. Len(w) : End(w, j - 1) \in Nat /\ End(w, j) \in Nat /\ End(w, j - 1) < End(w, j)
  BY <1>1, CharEnds
<1>4. LatticeReaches(c, w, lat, 0)
  BY <1>3 DEF LatticeReaches
<1> QED
  BY <1>2, <1>4

\* A finished lattice reaches the end.
LEMMA LatticeEnds ==
  ASSUME NEW c, NEW w \in Seq(Letters), NEW lat, LatticeReaches(c, w, lat, Len(Utf8(w)))
  PROVE  Hit(lat, Len(Utf8(w)))
<1>1. w \in Seq(Chars) /\ Len(w) \in Nat
  BY LettersPlain, SeqMonotonic, LenProperties
<1>2. CASE w = <<>>
  <2>1. Len(Utf8(w)) = 0
    BY <1>2, Utf8Empty, EmptySeq
  <2> QED
    BY <2>1 DEF Hit
<1>3. CASE w # <<>>
  <2>1. Len(w) \in 1 .. Len(w)
    BY <1>1, <1>3, EmptySeq
  <2>2. End(w, Len(w)) = Len(Utf8(w)) /\ Len(Utf8(w)) \in Nat
    BY <1>1, <2>1, CharEnds
  <2>3. End(w, Len(w)) <= Len(Utf8(w)) => Hit(lat, End(w, Len(w)))
    BY <2>1 DEF LatticeReaches
  <2> QED
    BY <2>2, <2>3
<1> QED
  BY <1>2, <1>3

-----------------------------------------------------------------------------
(* WordPiece: what the ids, the rest of the word and the words left spell. *)

Ids(c) == 0 .. Len(c.vocab) - 1
PieceOf(c) == [id \in Ids(c) |-> c.vocab[id + 1]]
TextOf(c, ids) == MapFlat(PieceOf(c), ids)
Marks == Letters \cup {"##"}
Unspaced == Letters \ {"sp"}
WordPieceSpells(c, target, ids, ps, ws) ==
  /\ ids \in Seq(Ids(c)) /\ TextOf(c, ids) \in Seq(Marks)
  /\ ps \in Seq(Unspaced) /\ ws \in Seq(Seq(Unspaced) \ {<<>>})
  /\ target = Omitting(TextOf(c, ids), "##") \o (ps \o FlattenSeq(ws))

\* Ids stand for pieces.
LEMMA PieceOfType ==
  ASSUME NEW c, c.vocab \in Seq(Seq(Chars))
  PROVE  PieceOf(c) \in Expands(Ids(c), Chars)
<1>1. Len(c.vocab) \in Nat /\ \A k \in 1 .. Len(c.vocab) : c.vocab[k] \in Seq(Chars)
  BY LenProperties, ElementOfSeq
<1>2. \A id \in Ids(c) : c.vocab[id + 1] \in Seq(Chars)
  BY <1>1 DEF Ids
<1> QED
  BY <1>2 DEF PieceOf, Expands

\* Nothing is matched yet.
LEMMA WordPieceStarts ==
  ASSUME NEW c, NEW text \in Seq(Letters), c.algorithm = "WordPiece"
  PROVE  WordPieceSpells(c, Omitting(text, "sp"), <<>>, <<>>, WordsOf(c, text))
<1>1. WordsOf(c, text) \in Seq(Seq(Unspaced) \ {<<>>}) /\ FlattenSeq(WordsOf(c, text)) = Omitting(text, "sp")
  BY WordPieceWords DEF Unspaced
<1>2. TextOf(c, <<>>) = <<>>
  BY MapFlatEmpty DEF TextOf
<1>3. Omitting(<<>>, "##") = <<>>
  <2>1. Omitting(<<>>, "##") = MapFlat(OmitOf(Marks, "##"), <<>>)
    BY EmptySeq, OmittingIsMap
  <2> QED
    BY <2>1, MapFlatEmpty
<1> DEFINE u == Omitting(text, "sp")
<1>4. u \in Seq(Letters)
  BY OmittingIsMap
<1> HIDE DEF u
<1>5. <<>> \o (<<>> \o u) = u
  BY <1>4, ConcatEmptySeq
<1>6. <<>> \in Seq(Ids(c)) /\ <<>> \in Seq(Marks) /\ <<>> \in Seq(Unspaced)
  BY EmptySeq
<1> QED
  BY <1>1, <1>2, <1>3, <1>5, <1>6 DEF WordPieceSpells, u

\* A word is taken in hand.
LEMMA WordPieceTakes ==
  ASSUME NEW c, NEW target, NEW ids, NEW ws, ws # <<>>, WordPieceSpells(c, target, ids, <<>>, ws)
  PROVE  WordPieceSpells(c, target, ids, Head(ws), Tail(ws)) /\ Head(ws) # <<>>
<1> DEFINE E == Seq(Unspaced) \ {<<>>}
<1> DEFINE given == Omitting(TextOf(c, ids), "##")
<1>1. /\ ids \in Seq(Ids(c)) /\ TextOf(c, ids) \in Seq(Marks) /\ ws \in Seq(E)
      /\ target = given \o (<<>> \o FlattenSeq(ws))
  BY DEF WordPieceSpells
<1>2. Head(ws) \in E /\ Tail(ws) \in Seq(E)
  <2> HIDE DEF E
  <2> QED
    BY <1>1, HeadTail
<1>3. ws \in Seq(Seq(Unspaced))
  BY <1>1, SeqMonotonic
<1>4. FlattenSeq(ws) = Head(ws) \o FlattenSeq(Tail(ws)) /\ FlattenSeq(ws) \in Seq(Unspaced)
  BY <1>3, FlattenHead, FlattenType
<1>5. <<>> \o FlattenSeq(ws) = FlattenSeq(ws)
  BY <1>4, ConcatEmptySeq
<1> QED
  BY <1>1, <1>2, <1>4, <1>5 DEF WordPieceSpells

\* A match takes the front of the word, with or without the mark of a
\* continuing piece.
LEMMA WordPieceMatches ==
  ASSUME NEW c, c.vocab \in Seq(Seq(Chars)), NEW target, NEW ids, NEW ps, NEW ws,
         WordPieceSpells(c, target, ids, ps, ws), NEW took \in 1 .. Len(ps), NEW id \in Ids(c), NEW front,
         front = SubSeq(ps, 1, took), c.vocab[id + 1] \in {front, <<"##">> \o front}
  PROVE  WordPieceSpells(c, target, ids \o <<id>>, SubSeq(ps, took + 1, Len(ps)), ws)
<1> DEFINE rest == SubSeq(ps, took + 1, Len(ps))
<1> DEFINE text == TextOf(c, ids)
<1> DEFINE p == c.vocab[id + 1]
<1> DEFINE later == FlattenSeq(ws)
<1>1. /\ ids \in Seq(Ids(c)) /\ text \in Seq(Marks) /\ ps \in Seq(Unspaced) /\ ws \in Seq(Seq(Unspaced) \ {<<>>})
      /\ target = Omitting(text, "##") \o (ps \o later)
  BY DEF WordPieceSpells
<1>2. Len(ps) \in Nat /\ \A k \in 1 .. Len(ps) : ps[k] \in Unspaced
  BY <1>1, LenProperties, ElementOfSeq
<1>3. front \in Seq(Unspaced) /\ rest \in Seq(Unspaced)
  <2>1. \A k \in 1 .. took : ps[k] \in Unspaced
    BY <1>2
  <2>2. \A k \in took + 1 .. Len(ps) : ps[k] \in Unspaced
    BY <1>2
  <2>3. SubSeq(ps, 1, took) \in Seq(Unspaced)
    BY <2>1, <1>2, SubSeqProperties
  <2>4. SubSeq(ps, took + 1, Len(ps)) \in Seq(Unspaced)
    BY <2>2, <1>2, SubSeqProperties
  <2> QED
    BY <2>3, <2>4
<1>4. ps = front \o rest
  <2>1. 1 \in 1 .. Len(ps) + 1 /\ took \in 1 - 1 .. Len(ps) /\ Len(ps) \in took .. Len(ps)
    BY <1>2
  <2>2. SubSeq(ps, 1, took) \o SubSeq(ps, took + 1, Len(ps)) = SubSeq(ps, 1, Len(ps))
    BY <1>1, <2>1, ConcatAdjacentSubSeq
  <2> QED
    BY <1>1, <2>2, SubSeqFull
<1>5. front \in Seq(Marks) /\ <<"##">> \in Seq(Marks) /\ front \in Seq(Marks \ {"##"})
  <2>1. Unspaced \subseteq Marks \ {"##"}
    BY DEF Unspaced, Marks, Letters
  <2>2. front \in Seq(Marks \ {"##"})
    BY <1>3, <2>1, SeqMonotonic
  <2>3. front \in Seq(Marks)
    BY <2>2, SeqMonotonic
  <2>4. <<"##">> \in Seq(Marks)
    BY DEF Marks
  <2> QED
    BY <2>2, <2>3, <2>4
<1>6. p \in Seq(Marks) /\ Omitting(p, "##") = front
  <2>1. Omitting(front, "##") = front
    BY <1>5, OmittingNone
  <2>2. CASE p = front
    BY <1>5, <2>1, <2>2
  <2>3. CASE p = <<"##">> \o front
    <3>1. Omitting(<<"##">> \o front, "##") = Omitting(<<"##">>, "##") \o Omitting(front, "##")
      BY <1>5, OmittingConcat, ZenonT(40)
    <3>2. Omitting(<<"##">>, "##") = <<>>
      <4>1. OmitOf(Marks, "##") \in Expands(Marks, Marks) /\ Omitting(<<"##">>, "##") = MapFlat(OmitOf(Marks, "##"), <<"##">>)
        BY <1>5, OmittingIsMap
      <4>2. "##" \in Marks
        BY DEF Marks
      <4>3. MapFlat(OmitOf(Marks, "##"), <<"##">>) = OmitOf(Marks, "##")["##"]
        BY <4>1, <4>2, MapFlatOne
      <4> QED
        BY <4>1, <4>2, <4>3 DEF OmitOf
    <3>3. <<>> \o front = front
      BY <1>3, ConcatEmptySeq
    <3>4. <<"##">> \o front \in Seq(Marks)
      BY <1>5, ConcatProperties
    <3> QED
      BY <2>1, <2>3, <3>1, <3>2, <3>3, <3>4
  <2> QED
    BY <2>2, <2>3
<1> HIDE DEF rest, text, p, later
<1>7. <<id>> \in Seq(Ids(c)) /\ ids \o <<id>> \in Seq(Ids(c))
  <2>1. <<id>> \in Seq(Ids(c))
    OBVIOUS
  <2> QED
    BY <1>1, <2>1, ConcatProperties
<1>8. TextOf(c, ids \o <<id>>) = text \o p
  <2>1. PieceOf(c) \in Expands(Ids(c), Chars)
    BY PieceOfType
  <2>2. Distributes(PieceOf(c), ids, <<id>>)
    BY <1>1, <1>7, <2>1, MapFlatConcat, Zenon
  <2>3. MapFlat(PieceOf(c), <<id>>) = PieceOf(c)[id]
    BY <2>1, MapFlatOne
  <2>4. PieceOf(c)[id] = p
    BY DEF PieceOf, p
  <2> QED
    BY <2>2, <2>3, <2>4 DEF Distributes, TextOf, text
<1>9. text \o p \in Seq(Marks) /\ Omitting(text \o p, "##") = Omitting(text, "##") \o front
  <2>1. text \o p \in Seq(Marks)
    BY <1>1, <1>6, ConcatProperties
  <2>2. Omitting(text \o p, "##") = Omitting(text, "##") \o Omitting(p, "##")
    BY <1>1, <1>6, OmittingConcat, SMTT(30)
  <2> QED
    BY <2>1, <2>2, <1>6
<1>10. Omitting(text, "##") \o ((front \o rest) \o later) = (Omitting(text, "##") \o front) \o (rest \o later)
  <2> DEFINE o == Omitting(text, "##")
  <2>1. o \in Seq(Marks)
    BY <1>1, OmittingIsMap
  <2>2. front \in Seq(Marks) /\ rest \in Seq(Marks) /\ later \in Seq(Marks)
    <3>1. Unspaced \subseteq Marks
      BY DEF Unspaced, Marks
    <3>2. ws \in Seq(Seq(Unspaced))
      BY <1>1, SeqMonotonic
    <3>3. later \in Seq(Unspaced)
      BY <3>2, FlattenType DEF later
    <3> QED
      BY <1>3, <1>5, <3>1, <3>3, SeqMonotonic
  <2> HIDE DEF o
  <2> DEFINE more == rest \o later
  <2>3. (front \o rest) \o later = front \o more
    BY <2>2, ConcatAssociative
  <2>4. more \in Seq(Marks)
    BY <2>2, ConcatProperties
  <2>5. (o \o front) \o more = o \o (front \o more)
    <3> HIDE DEF more
    <3> QED
      BY <2>1, <2>2, <2>4, ConcatAssociative
  <2> QED
    BY <2>3, <2>5 DEF o
<1>11. target = Omitting(TextOf(c, ids \o <<id>>), "##") \o (rest \o later)
  BY <1>1, <1>4, <1>8, <1>9, <1>10
<1>12. WordPieceSpells(c, target, ids \o <<id>>, rest, ws)
  BY <1>1, <1>3, <1>7, <1>8, <1>9, <1>11 DEF WordPieceSpells, later
<1> QED
  BY <1>12 DEF rest

\* At last the ids spell the text, and so do their bytes.
LEMMA WordPieceEnds ==
  ASSUME NEW c, c.vocab \in Seq(Seq(Chars)), ~c.byte_fallback, NEW target, NEW ids,
         WordPieceSpells(c, target, ids, <<>>, <<>>)
  PROVE  Omitting(Lossy(BytesOf(c, ids)), "##") = target
<1> DEFINE text == TextOf(c, ids)
<1>1. ids \in Seq(Ids(c)) /\ text \in Seq(Marks) /\ target = Omitting(text, "##") \o (<<>> \o FlattenSeq(<<>>))
  BY DEF WordPieceSpells
<1>2. Omitting(text, "##") \in Seq(Marks)
  BY <1>1, OmittingIsMap
<1>3. target = Omitting(text, "##")
  <2>1. <<>> \o <<>> = <<>>
    BY EmptySeq, ConcatEmptySeq
  <2>2. Omitting(text, "##") \o <<>> = Omitting(text, "##")
    BY <1>2, ConcatEmptySeq
  <2> QED
    BY <1>1, <2>1, <2>2, FlattenEmpty
<1>4. BytesOf(c, ids) = Utf8(text)
  <2> DEFINE ps == [k \in DOMAIN ids |-> PieceOf(c)[ids[k]]]
  <2>1. PieceOf(c) \in Expands(Ids(c), Chars)
    BY PieceOfType
  <2>2. ps \in Seq(Seq(Chars)) /\ Len(ps) = Len(ids) /\ \A k \in 1 .. Len(ids) : ps[k] = PieceOf(c)[ids[k]]
    BY <1>1, <2>1, ExpandedParts
  <2>3. \A k \in 1 .. Len(ids) : ids[k] \in Ids(c) /\ DOMAIN ids = 1 .. Len(ids)
    BY <1>1, LenProperties, ElementOfSeq
  <2>4. text = FlattenSeq(ps)
    BY Zenon DEF TextOf, MapFlat
  <2> HIDE DEF ps, text
  <2>5. DOMAIN ps = 1 .. Len(ids) /\ \A k \in 1 .. Len(ids) : ps[k] \in Seq(Chars)
    BY <2>2, LenProperties, ElementOfSeq
  <2>6. \A k \in 1 .. Len(ids) : PieceBytes(c, c.vocab[ids[k] + 1]) = MapFlat(Utf8Of, ps[k])
    <3> TAKE k \in 1 .. Len(ids)
    <3>1. ps[k] = c.vocab[ids[k] + 1] /\ ps[k] \in Seq(Chars)
      BY <2>2, <2>3, <2>5 DEF PieceOf
    <3> QED
      BY <3>1, PieceBytesAre, Utf8IsMap
  <2>7. DOMAIN ids = 1 .. Len(ids)
    BY <1>1, LenProperties
  <2>8. [k \in DOMAIN ids |-> IF ids[k] \in 0 .. Len(c.vocab) - 1 THEN PieceBytes(c, c.vocab[ids[k] + 1]) ELSE <<>>]
          = [k \in DOMAIN ps |-> MapFlat(Utf8Of, ps[k])]
    BY <2>3, <2>5, <2>6, <2>7 DEF Ids
  <2>9. MapFlat(Utf8Of, FlattenSeq(ps)) = FlattenSeq([k \in DOMAIN ps |-> MapFlat(Utf8Of, ps[k])])
    BY <2>2, Utf8OfType, MapFlatNested
  <2>10. text \in Seq(Chars)
    <3>1. Marks \subseteq Chars
      BY Literals, LettersPlain DEF Marks
    <3> QED
      BY <1>1, <3>1, SeqMonotonic
  <2>11. Utf8(text) = MapFlat(Utf8Of, text)
    BY <2>10, Utf8IsMap
  <2>12. BytesOf(c, ids) = FlattenSeq([k \in DOMAIN ids |->
           IF ids[k] \in 0 .. Len(c.vocab) - 1 THEN PieceBytes(c, c.vocab[ids[k] + 1]) ELSE <<>>])
    BY DEF BytesOf
  <2> QED
    BY <2>4, <2>8, <2>9, <2>11, <2>12
<1>5. Lossy(Utf8(text)) = text
  <2>1. Marks \subseteq Plain
    BY Literals, LettersPlain DEF Marks, Plain
  <2>2. text \in Seq(Plain)
    BY <1>1, <2>1, SeqMonotonic
  <2> QED
    BY <2>2, LossyUtf8
<1> QED
  BY <1>3, <1>4, <1>5

-----------------------------------------------------------------------------
(* The tokenizer's invariant.                                              *)

UnknownOf(c) == IF Known(c.vocab, <<"[UNK]">>) THEN <<str_to_id(c.vocab, <<"[UNK]">>)>> ELSE <<>>
CoveredBy(c, text) ==
  \A w \in ToSet(WordsOf(c, normalize(c, text))) :
    IF c.algorithm = "WordPiece" THEN UnknownOf(c) # <<>> \/ Spells(c, w) ELSE Covers(c, w)
TargetOf(c, text) == Utf8(FlattenSeq(WordsOf(c, normalize(c, text))))
WholeOf(c, text) == WordsOf(c, normalize(c, text))[1]
Phases == {"load", "refused", "ready", "words", "word", "back", "encoded"}
Busy == doing \in {"words", "word", "back", "encoded"}

Prefaced == Content \in Seq(Int) /\ encoded = Opening(codec) \o Content
BpeHolds == BpeSpells(codec, TargetOf(codec, typed), Content, pieces, words)

\* A Unigram word is whole, in its lattice, walked back over, or in its ids.
UnigramHolds ==
  LET w == WholeOf(codec, typed)
      nothing == words = <<>> /\ Content = <<>> /\ pieces = Utf8(w) /\ LatticeSpells(codec, pieces, lattice)
  IN /\ w \in Seq(Letters) /\ Covers(codec, w)
     /\ \/ doing = "words" /\ words = <<w>> /\ Content = <<>>
        \/ /\ doing = "word" /\ nothing /\ path = <<>>
           /\ cursor \in 0 .. Len(pieces) - 1 /\ LatticeReaches(codec, w, lattice, cursor)
        \/ doing = "back" /\ nothing /\ BackSpells(codec, pieces, lattice, cursor, path)
        \/ doing \in {"words", "encoded"} /\ words = <<>> /\ BytesOf(codec, Content) = Utf8(w)

\* The unknown piece was emitted, or the ids spell what was taken.
Piecewise(c, w) == \A ch \in ToSet(w) : Known(c.vocab, <<ch>>) /\ Known(c.vocab, <<"##", ch>>)
Lost(c, ids) == ToSet(UnknownOf(c)) \cap ToSet(ids) # {}
WordPieceHolds ==
  \/ Lost(codec, encoded)
  \/ /\ WordPieceSpells(codec, Omitting(typed, "sp"), Content, pieces, words)
     /\ UnknownOf(codec) = <<>> => Piecewise(codec, pieces) /\ \A w \in ToSet(words) : Spells(codec, w)
     /\ doing = "word" => pieces # <<>>

EncodingHolds == CASE codec.algorithm = "BPE" -> BpeHolds
                   [] codec.algorithm = "Unigram" -> UnigramHolds
                   [] codec.algorithm = "WordPiece" -> WordPieceHolds

CodecInv ==
  /\ source \in TokenizerFiles /\ doing \in Phases
  /\ doing \notin {"load", "refused"} => GoodCodec(codec)
  /\ doing \notin {"word", "back"} => pieces = <<>>
  /\ doing = "encoded" => words = <<>>
  /\ doing = "back" => codec.algorithm = "Unigram"
  /\ Busy => typed \in Seq(Letters)
  /\ Busy /\ CoveredBy(codec, typed) => Prefaced /\ EncodingHolds

\* The names above are the model's.
LEMMA CoveredIs == (Covered <=> CoveredBy(codec, typed)) /\ UnknownIds = UnknownOf(codec)
<1>1. UnknownIds = UnknownOf(codec)
  BY DEF UnknownIds, UnknownOf
<1>2. Covered <=> CoveredBy(codec, typed)
  BY <1>1, Zenon DEF Covered, CoveredBy
<1> QED
  BY <1>1, <1>2

\* It holds before a file is loaded.
LEMMA CodecStart == CodecInit(TokenizerFiles) => CodecInv
BY DEF CodecInit, CodecInv, Phases, Busy

\* Loading a file.
LEMMA LoadKeeps == ASSUME CodecInv, LoadCodec PROVE CodecInv'
<1>1. /\ source \in TokenizerFiles /\ source' = source /\ pieces' = <<>> /\ pieces = <<>>
      /\ doing' \in {"refused", "ready"}
      /\ doing' = "ready" => ~LoadRefused(source) /\ codec' = WithSibling(IF source.format = "model"
           THEN config_from_model_proto(source) ELSE from_json(source), source.sibling)
  BY DEF CodecInv, LoadCodec
<1>2. doing' = "ready" => GoodCodec(codec')
  BY <1>1, LoadedGood
<1>3. ~Busy'
  BY <1>1 DEF Busy
<1> QED
  BY <1>1, <1>2, <1>3 DEF CodecInv, Phases

\* Appending ids is associative.
LEMMA IntsAssociate ==
  ASSUME NEW first \in Seq(Int), NEW given \in Seq(Int), NEW ids \in Seq(Int)
  PROVE  (first \o given) \o ids = first \o (given \o ids)
<1> DEFINE T == Int
<1>1. first \in Seq(T) /\ given \in Seq(T) /\ ids \in Seq(T)
  OBVIOUS
<1> HIDE DEF T
<1> QED
  BY <1>1, ConcatAssociative

\* What appends ids appends them to the content.
LEMMA EmitsContent ==
  ASSUME NEW ids \in Seq(Int), Prefaced, GoodCodec(codec), codec' = codec, encoded' = encoded \o ids
  PROVE  Content' = Content \o ids /\ Prefaced'
<1>1. Opening(codec) \in Seq(Int) /\ codec.bos \in Int
  BY OpeningType DEF GoodCodec
<1>2. Content \o ids \in Seq(Int)
  BY ConcatProperties DEF Prefaced
<1>3. encoded' = Opening(codec) \o (Content \o ids)
  <2> DEFINE given == Content
  <2> DEFINE first == Opening(codec)
  <2>1. given \in Seq(Int) /\ encoded = first \o given /\ first \in Seq(Int)
    BY <1>1 DEF Prefaced
  <2> HIDE DEF given, first
  <2>2. (first \o given) \o ids = first \o (given \o ids)
    BY <2>1, IntsAssociate
  <2> QED
    BY <2>1, <2>2 DEF given, first
<1>4. ContentOf(codec, encoded') = Content \o ids
  BY <1>1, <1>2, <1>3, ContentOpened
<1>5. Content' = ContentOf(codec', encoded')
  BY DEF Content, ContentOf
<1> QED
  BY <1>2, <1>3, <1>4, <1>5 DEF Prefaced

\* The three ways to begin.
LEMMA BeginsBpe ==
  ASSUME NEW c, GoodCodec(c), c.algorithm = "BPE", NEW text \in Seq(Letters), CoveredBy(c, text)
  PROVE  BpeSpells(c, TargetOf(c, text), <<>>, <<>>, WordsOf(c, normalize(c, text)))
<1>1. normalize(c, text) \in Seq(Letters)
  <2>1. "sp" \in Letters
    BY DEF Letters
  <2> QED
    BY <2>1, NormalizeIs
<1> DEFINE ws == WordsOf(c, normalize(c, text))
<1>2. ws = pre_tokenize(c, normalize(c, text))
  BY DEF WordsOf
<1>3. ws \in Seq(Seq(Symbols))
  BY <1>1, <1>2, PreTokensWhole
<1>4. \A w \in ToSet(ws) : Covers(c, w)
  BY DEF CoveredBy
<1>5. c.vocab \in Seq(Seq(Chars))
  BY DEF GoodCodec, Consistent
<1> HIDE DEF ws
<1>6. BpeSpells(c, Utf8(FlattenSeq(ws)), <<>>, <<>>, ws)
  BY <1>3, <1>4, <1>5, BpeStarts
<1> QED
  BY <1>6 DEF TargetOf, ws

\* A Unigram model takes the text whole.
LEMMA BeginsUnigram ==
  ASSUME NEW c, c.algorithm = "Unigram", NEW text \in Seq(Letters)
  PROVE  /\ WordsOf(c, normalize(c, text)) = <<WholeOf(c, text)>>
         /\ WholeOf(c, text) \in Seq(Letters)
         /\ CoveredBy(c, text) => Covers(c, WholeOf(c, text))
         /\ TargetOf(c, text) = Utf8(WholeOf(c, text))
<1> DEFINE u == normalize(c, text)
<1> DEFINE w == IF c.pre = "Metaspace" THEN Marked(c, u) ELSE u
<1>1. u \in Seq(Letters)
  <2>1. "sp" \in Letters
    BY DEF Letters
  <2> QED
    BY <2>1, NormalizeIs
<1>2. WordsOf(c, u) = <<w>>
  BY DEF WordsOf
<1> HIDE DEF u
<1>3. w \in Seq(Letters)
  BY <1>1, MarkedIs
<1> HIDE DEF w
<1>4. WholeOf(c, text) = w
  BY <1>2 DEF WholeOf, u
<1>5. ToSet(<<w>>) = {w}
  BY DEF ToSet
<1>6. CoveredBy(c, text) => Covers(c, w)
  BY <1>2, <1>5 DEF CoveredBy, u
<1>7. FlattenSeq(<<w>>) = w
  BY <1>3, FlattenThree
<1> QED
  BY <1>2, <1>3, <1>4, <1>6, <1>7 DEF TargetOf, u

\* WordPiece takes the words between spaces.
LEMMA BeginsWordPiece ==
  ASSUME NEW c, GoodCodec(c), c.algorithm = "WordPiece", NEW text \in Seq(Letters), CoveredBy(c, text)
  PROVE  /\ normalize(c, text) = text
         /\ WordPieceSpells(c, Omitting(text, "sp"), <<>>, <<>>, WordsOf(c, text))
         /\ UnknownOf(c) = <<>> => \A w \in ToSet(WordsOf(c, text)) : Spells(c, w)
<1>1. c.steps = {}
  BY DEF GoodCodec, Consistent
<1>2. normalize(c, text) = text
  BY <1>1 DEF normalize
<1> QED
  BY <1>2, WordPieceStarts DEF CoveredBy

\* Encoding begins with the bos that is asked for and all the words.
LEMMA EncodeKeeps == ASSUME CodecInv, Encode PROVE CodecInv'
<1>1. /\ source' = source /\ codec' = codec /\ pieces' = pieces /\ doing = "ready" /\ doing' = "words"
      /\ typed' \in Texts /\ words' = WordsOf(codec, normalize(codec, typed'))
      /\ encoded' = Opening(codec)
  BY DEF Encode, Opening
<1>2. source \in TokenizerFiles /\ GoodCodec(codec) /\ pieces = <<>>
  BY <1>1 DEF CodecInv
<1>3. typed' \in Seq(Letters)
  BY <1>1, TextsAssumption DEF Letters
<1>4. Content' = <<>> /\ Prefaced'
  <2>1. Opening(codec) \in Seq(Int) /\ codec.bos \in Int /\ <<>> \in Seq(Int)
    BY <1>2, OpeningType, EmptySeq DEF GoodCodec
  <2>2. Opening(codec) \o <<>> = Opening(codec)
    BY <2>1, ConcatEmptySeq
  <2>3. ContentOf(codec, Opening(codec)) = <<>>
    BY <2>1, <2>2, ContentOpened
  <2>4. Content' = ContentOf(codec', encoded')
    BY DEF Content, ContentOf
  <2> QED
    BY <1>1, <2>1, <2>2, <2>3, <2>4 DEF Prefaced
<1>5. ASSUME CoveredBy(codec', typed') PROVE EncodingHolds'
  <2>1. codec.algorithm \in {"BPE", "Unigram", "WordPiece"}
    BY <1>2 DEF GoodCodec, Consistent
  <2>2. CASE codec.algorithm = "BPE"
    <3>1. BpeHolds'
      BY <1>1, <1>2, <1>3, <1>4, <1>5, <2>2, BeginsBpe DEF BpeHolds
    <3> QED
      BY <1>1, <2>2, <3>1 DEF EncodingHolds
  <2>3. CASE codec.algorithm = "Unigram"
    <3>1. /\ words' = <<WholeOf(codec, typed')>> /\ WholeOf(codec, typed') \in Seq(Letters)
          /\ Covers(codec, WholeOf(codec, typed'))
      BY <1>1, <1>3, <1>5, <2>3, BeginsUnigram
    <3>2. UnigramHolds'
      BY <1>1, <1>4, <3>1 DEF UnigramHolds
    <3> QED
      BY <1>1, <2>3, <3>2 DEF EncodingHolds
  <2>4. CASE codec.algorithm = "WordPiece"
    <3>1. /\ WordPieceSpells(codec, Omitting(typed', "sp"), <<>>, <<>>, words')
          /\ UnknownOf(codec) = <<>> => \A w \in ToSet(words') : Spells(codec, w)
      BY <1>1, <1>2, <1>3, <1>5, <2>4, BeginsWordPiece
    <3>2. Piecewise(codec, <<>>)
      BY DEF Piecewise, ToSet
    <3>3. WordPieceHolds'
      BY <1>1, <1>2, <1>4, <3>1, <3>2 DEF WordPieceHolds
    <3> QED
      BY <1>1, <2>4, <3>3 DEF EncodingHolds
  <2> QED
    BY <2>1, <2>2, <2>3, <2>4
<1> QED
  BY <1>1, <1>2, <1>3, <1>4, <1>5 DEF CodecInv, Phases

\* Nothing is left to encode.
LEMMA AllEncodedKeeps == ASSUME CodecInv, AllEncoded PROVE CodecInv'
<1>1. /\ doing = "words" /\ words = <<>> /\ doing' = "encoded"
      /\ UNCHANGED <<source, codec, typed, words, pieces, inner, lattice, cursor, path, encoded>>
  BY DEF AllEncoded
<1>2. /\ source \in TokenizerFiles /\ GoodCodec(codec) /\ pieces = <<>> /\ typed \in Seq(Letters)
      /\ CoveredBy(codec, typed) => Prefaced /\ EncodingHolds
  BY <1>1 DEF CodecInv, Busy
<1>3. Content' = Content /\ Prefaced' = Prefaced
  BY <1>1 DEF Content, Prefaced
<1>4. codec.algorithm \in {"BPE", "Unigram", "WordPiece"}
  BY <1>2 DEF GoodCodec, Consistent
<1>5. ASSUME EncodingHolds PROVE EncodingHolds'
  <2>1. CASE codec.algorithm = "BPE"
    <3>1. BpeHolds
      BY <1>5, <2>1 DEF EncodingHolds
    <3>2. BpeHolds'
      BY <1>1, <1>3, <3>1 DEF BpeHolds
    <3> QED
      BY <1>1, <2>1, <3>2 DEF EncodingHolds
  <2>2. CASE codec.algorithm = "Unigram"
    <3>1. UnigramHolds
      BY <1>5, <2>2 DEF EncodingHolds
    <3>2. UnigramHolds'
      BY <1>1, <1>3, <3>1 DEF UnigramHolds
    <3> QED
      BY <1>1, <2>2, <3>2 DEF EncodingHolds
  <2>3. CASE codec.algorithm = "WordPiece"
    <3>1. WordPieceHolds
      BY <1>5, <2>3 DEF EncodingHolds
    <3>2. WordPieceHolds'
      BY <1>1, <1>3, <3>1 DEF WordPieceHolds
    <3> QED
      BY <1>1, <2>3, <3>2 DEF EncodingHolds
  <2> QED
    BY <1>4, <2>1, <2>2, <2>3
<1> QED
  BY <1>1, <1>2, <1>3, <1>5 DEF CodecInv, Phases

-----------------------------------------------------------------------------
(* The tokenizer's actions, one by one.                                    *)

\* While a text is encoded, the invariant is about its algorithm.
LEMMA Encoding ==
  ASSUME CodecInv, Busy
  PROVE  /\ source \in TokenizerFiles /\ GoodCodec(codec) /\ typed \in Seq(Letters)
         /\ codec.vocab \in Seq(Seq(Chars))
         /\ CoveredBy(codec, typed) =>
              /\ Prefaced /\ Content \in Seq(Int)
              /\ codec.algorithm = "BPE" => BpeHolds
              /\ codec.algorithm = "Unigram" => UnigramHolds
              /\ codec.algorithm = "WordPiece" => WordPieceHolds
<1>1. doing \notin {"load", "refused"}
  BY DEF Busy
<1> QED
  BY <1>1 DEF CodecInv, GoodCodec, Consistent, EncodingHolds, Prefaced

\* A step of the encoder keeps the file, the configuration and the text.
LEMMA Encodes ==
  ASSUME CodecInv, Busy, Busy', UNCHANGED <<source, codec, typed>>,
         doing' # "word" /\ doing' # "back" => pieces' = <<>>,
         doing' # "encoded", doing' = "back" => codec.algorithm = "Unigram",
         CoveredBy(codec, typed) => Prefaced' /\ EncodingHolds'
  PROVE  CodecInv'
<1>1. source \in TokenizerFiles /\ GoodCodec(codec) /\ typed \in Seq(Letters)
  BY Encoding
<1>2. doing' \in Phases /\ doing' \notin {"load", "refused"}
  BY DEF Busy, Phases
<1> QED
  BY <1>1, <1>2 DEF CodecInv

\* Where the ids stay the content does.
LEMMA SameContent ==
  ASSUME UNCHANGED <<codec, encoded>>
  PROVE  Content' = Content /\ (Prefaced => Prefaced')
BY DEF Content, Prefaced

\* A word becomes its initial pieces.
LEMMA TakeBpeKeeps == ASSUME CodecInv, TakeBpeWord PROVE CodecInv'
<1>1. /\ doing = "words" /\ doing' = "word" /\ words # <<>> /\ codec.algorithm = "BPE"
      /\ pieces' = FlattenSeq([k \in DOMAIN Head(words) |-> Initial(codec, Head(words)[k])])
      /\ words' = Tail(words)
      /\ UNCHANGED <<source, codec, typed, encoded>>
  BY DEF TakeBpeWord
<1>2. Busy /\ Busy'
  BY <1>1 DEF Busy
<1>3. ASSUME CoveredBy(codec, typed) PROVE Prefaced' /\ EncodingHolds'
  <2>1. Prefaced /\ BpeHolds
    BY <1>1, <1>2, <1>3, Encoding
  <2>2. Content' = Content /\ Prefaced'
    BY <1>1, <2>1, SameContent
  <2>3. pieces = <<>>
    BY <1>1 DEF CodecInv
  <2>4. BpeSpells(codec, TargetOf(codec, typed), Content, pieces', words')
    BY <1>1, <2>1, <2>3, BpeTakes DEF BpeHolds
  <2>5. BpeHolds'
    BY <1>1, <2>2, <2>4 DEF BpeHolds
  <2> QED
    BY <1>1, <2>2, <2>5 DEF EncodingHolds
<1> QED
  BY <1>1, <1>2, <1>3, Encodes

\* The best pair is merged.
LEMMA MergeKeeps == ASSUME CodecInv, Merge PROVE CodecInv'
<1> DEFINE Wins(k) == \A j \in Mergeable : RankAt(k) < RankAt(j) \/ (RankAt(k) = RankAt(j) /\ k <= j)
<1> DEFINE best == CHOOSE k \in Mergeable : Wins(k)
<1>1. /\ doing = "word" /\ doing' = "word" /\ Mergeable # {} /\ codec.algorithm = "BPE"
      /\ pieces' = SubSeq(pieces, 1, best - 1) \o <<pieces[best] \o pieces[best + 1]>>
                     \o SubSeq(pieces, best + 2, Len(pieces))
      /\ UNCHANGED <<source, codec, typed, words, encoded>>
  BY DEF Merge
<1>2. Busy /\ Busy'
  BY <1>1 DEF Busy
<1>3. ASSUME CoveredBy(codec, typed) PROVE Prefaced' /\ EncodingHolds'
  <2>1. Prefaced /\ BpeHolds /\ GoodCodec(codec)
    BY <1>1, <1>2, <1>3, Encoding
  <2>2. Content' = Content /\ Prefaced'
    BY <1>1, <2>1, SameContent
  <2>3. Len(pieces) \in Nat
    BY <2>1, LenProperties DEF BpeHolds, BpeSpells
  <2>4. MergesJoin(codec) /\ RanksBounded(codec)
    BY <1>1, <2>1 DEF GoodCodec, Consistent
  <2>5. best \in Mergeable
    <3>1. \E k \in Mergeable : Wins(k)
      BY <1>1, <2>3, <2>4, BestPair
    <3> HIDE DEF Wins
    <3> QED
      BY <3>1
  <2> HIDE DEF best
  <2>6. best \in 1 .. Len(pieces) - 1 /\ Ranks(pieces[best], pieces[best + 1]) # {}
    BY <2>5 DEF Mergeable
  <2>7. PICK m \in codec.merges : m.pair = <<pieces[best], pieces[best + 1]>>
    BY <2>6 DEF Ranks
  <2>8. /\ pieces[best] # <<>> /\ pieces[best + 1] # <<>> /\ Known(codec.vocab, pieces[best] \o pieces[best + 1])
        /\ codec.byte_fallback => NamesNoByte(pieces[best]) /\ NamesNoByte(pieces[best + 1])
    BY <2>4, <2>7 DEF MergesJoin
  <2>9. BpeSpells(codec, TargetOf(codec, typed), Content, pieces', words)
    BY <1>1, <2>1, <2>6, <2>8, BpeMerges DEF BpeHolds
  <2>10. BpeHolds'
    BY <1>1, <2>2, <2>9 DEF BpeHolds
  <2> QED
    BY <1>1, <2>2, <2>10 DEF EncodingHolds
<1> QED
  BY <1>1, <1>2, <1>3, Encodes

\* Merged pieces become their ids.
LEMMA EmitMergedKeeps == ASSUME CodecInv, EmitMerged PROVE CodecInv'
<1> DEFINE ids == [k \in DOMAIN pieces |-> IdOrUnknown(codec.vocab, pieces[k])]
<1>1. /\ doing = "word" /\ doing' = "words" /\ codec.algorithm = "BPE" /\ pieces' = <<>>
      /\ encoded' = encoded \o ids
      /\ UNCHANGED <<source, codec, typed, words>>
  BY DEF EmitMerged, EmitIds
<1>2. Busy /\ Busy'
  BY <1>1 DEF Busy
<1>3. ASSUME CoveredBy(codec, typed) PROVE Prefaced' /\ EncodingHolds'
  <2>1. Prefaced /\ BpeHolds /\ GoodCodec(codec) /\ codec.vocab \in Seq(Seq(Chars))
    BY <1>1, <1>2, <1>3, Encoding
  <2>2. pieces \in Seq(Seq(Chars)) /\ \A k \in 1 .. Len(pieces) : Known(codec.vocab, pieces[k])
    BY <2>1 DEF BpeHolds, BpeSpells, AllKnown
  <2>3. ids \in Seq(0 .. Len(codec.vocab) - 1)
    BY <2>1, <2>2, IdsSpell
  <2>4. ids \in Seq(Int)
    <3>1. 0 .. Len(codec.vocab) - 1 \subseteq Int
      OBVIOUS
    <3> HIDE DEF ids
    <3> QED
      BY <2>3, <3>1, SeqMonotonic
  <2>5. BpeSpells(codec, TargetOf(codec, typed), Content \o ids, <<>>, words)
    BY <2>1, BpeEmits DEF BpeHolds
  <2> HIDE DEF ids
  <2>6. Content' = Content \o ids /\ Prefaced'
    BY <1>1, <2>1, <2>4, EmitsContent
  <2>7. BpeHolds'
    BY <1>1, <2>5, <2>6 DEF BpeHolds
  <2> QED
    BY <1>1, <2>6, <2>7 DEF EncodingHolds
<1> QED
  BY <1>1, <1>2, <1>3, Encodes

-----------------------------------------------------------------------------

\* A lattice is laid out.
LEMMA TakeUnigramKeeps == ASSUME CodecInv, TakeUnigramWord PROVE CodecInv'
<1>1. /\ doing = "words" /\ words # <<>> /\ codec.algorithm = "Unigram"
      /\ pieces' = Utf8(Head(words)) /\ words' = Tail(words)
      /\ lattice' = [pos \in 0 .. Len(Utf8(Head(words))) |-> NoPath]
      /\ cursor' = 0 /\ path' = <<>>
      /\ doing' = IF pieces' = <<>> THEN "back" ELSE "word"
      /\ UNCHANGED <<source, codec, typed, encoded>>
  BY DEF TakeUnigramWord
<1>2. Busy /\ Busy'
  BY <1>1 DEF Busy
<1>3. ASSUME CoveredBy(codec, typed) PROVE Prefaced' /\ EncodingHolds'
  <2> DEFINE w == WholeOf(codec, typed)
  <2>1. Prefaced /\ UnigramHolds /\ GoodCodec(codec)
    BY <1>1, <1>2, <1>3, Encoding
  <2>2. Content' = Content /\ Prefaced'
    BY <1>1, <2>1, SameContent
  <2>3. w \in Seq(Letters) /\ Covers(codec, w) /\ words = <<w>> /\ Content = <<>>
    BY <1>1, <2>1 DEF UnigramHolds
  <2> HIDE DEF w
  <2>4. pieces' = Utf8(w) /\ words' = <<>> /\ lattice' = [pos \in 0 .. Len(Utf8(w)) |-> NoPath]
    <3>1. Head(<<w>>) = w /\ Tail(<<w>>) = <<>>
      OBVIOUS
    <3> QED
      BY <1>1, <2>3, <3>1
  <2>5. LatticeSpells(codec, Utf8(w), lattice') /\ LatticeReaches(codec, w, lattice', 0)
    BY <2>3, <2>4, LatticeStarts
  <2>6. Utf8(w) \in Seq(Chars) /\ Len(Utf8(w)) \in Nat
    BY <2>3, BytesOfText, LettersPlain, SeqMonotonic, LenProperties
  <2>7. CASE pieces' = <<>>
    <3>1. Len(Utf8(w)) = 0 /\ Hit(lattice', Len(Utf8(w)))
      BY <2>4, <2>7, EmptySeq DEF Hit
    <3>2. BackSpells(codec, Utf8(w), lattice', 0, <<>>)
      BY <2>6, <3>1, BackStarts
    <3>3. UnigramHolds'
      BY <1>1, <2>2, <2>3, <2>4, <2>5, <2>7, <3>2 DEF UnigramHolds, w
    <3> QED
      BY <1>1, <2>2, <3>3 DEF EncodingHolds
  <2>8. CASE pieces' # <<>>
    <3>1. 0 \in 0 .. Len(Utf8(w)) - 1
      BY <2>4, <2>6, <2>8, EmptySeq
    <3>2. UnigramHolds'
      BY <1>1, <2>2, <2>3, <2>4, <2>5, <2>8, <3>1 DEF UnigramHolds, w
    <3> QED
      BY <1>1, <2>2, <3>2 DEF EncodingHolds
  <2> QED
    BY <2>7, <2>8
<1> QED
  BY <1>1, <1>2, <1>3, Encodes

\* A position is relaxed.
LEMMA RelaxKeeps == ASSUME CodecInv, Relax PROVE CodecInv'
<1>1. /\ doing = "word" /\ codec.algorithm = "Unigram" /\ cursor' = cursor + 1
      /\ doing' = IF cursor' = Len(pieces) THEN "back" ELSE "word"
      /\ UNCHANGED <<source, codec, typed, words, pieces, path, encoded>>
  BY DEF Relax
<1>2. Busy /\ Busy'
  BY <1>1 DEF Busy
<1>3. ASSUME CoveredBy(codec, typed) PROVE Prefaced' /\ EncodingHolds'
  <2> DEFINE w == WholeOf(codec, typed)
  <2>1. Prefaced /\ UnigramHolds /\ Consistent(codec) /\ codec.vocab \in Seq(Seq(Chars))
    BY <1>1, <1>2, <1>3, Encoding DEF GoodCodec
  <2>2. Content' = Content /\ Prefaced'
    BY <1>1, <2>1, SameContent
  <2>3. /\ w \in Seq(Letters) /\ Covers(codec, w) /\ words = <<>> /\ Content = <<>> /\ path = <<>>
        /\ pieces = Utf8(w) /\ cursor \in 0 .. Len(pieces) - 1
        /\ LatticeSpells(codec, pieces, lattice) /\ LatticeReaches(codec, w, lattice, cursor)
    BY <1>1, <2>1 DEF UnigramHolds
  <2> HIDE DEF w
  <2>4. pieces \in Seq(ByteLetters) /\ Len(pieces) \in Nat /\ pieces \in Seq(Chars)
    BY <2>3, BytesOfText, LettersPlain, SeqMonotonic, LenProperties
  <2>5. RelaxedFrom(codec, pieces, lattice, cursor, lattice')
    BY <1>1, <2>1, <2>3, <2>4, RelaxIs DEF LatticeSpells
  <2>6. cursor \in Nat /\ cursor + 1 \in 0 .. Len(pieces)
    BY <2>3, <2>4
  <2>7. LatticeSpells(codec, pieces, lattice')
    BY <2>3, <2>4, <2>5, <2>6, RelaxedSpells
  <2>8. LatticeReaches(codec, w, lattice', cursor + 1)
    BY <2>1, <2>3, <2>5, RelaxedReaches
  <2>9. CASE cursor + 1 = Len(pieces)
    <3>1. Hit(lattice', Len(pieces))
      BY <2>3, <2>8, <2>9, LatticeEnds
    <3>2. BackSpells(codec, pieces, lattice', Len(pieces), <<>>)
      BY <2>4, <3>1, BackStarts
    <3>3. UnigramHolds'
      BY <1>1, <2>2, <2>3, <2>7, <2>9, <3>2 DEF UnigramHolds, w
    <3> QED
      BY <1>1, <2>2, <3>3 DEF EncodingHolds
  <2>10. CASE cursor + 1 # Len(pieces)
    <3>1. cursor + 1 \in 0 .. Len(pieces) - 1
      BY <2>4, <2>6, <2>10
    <3>2. UnigramHolds'
      BY <1>1, <2>2, <2>3, <2>7, <2>8, <2>10, <3>1 DEF UnigramHolds, w
    <3> QED
      BY <1>1, <2>2, <3>2 DEF EncodingHolds
  <2> QED
    BY <2>9, <2>10
<1> QED
  BY <1>1, <1>2, <1>3, Encodes

\* The walk back goes on.
LEMMA BacktrackKeeps == ASSUME CodecInv, Backtrack PROVE CodecInv'
<1>1. /\ doing = "back" /\ doing' = "back" /\ cursor # 0
      /\ path' = <<lattice[cursor].id>> \o path /\ cursor' = lattice[cursor].start
      /\ UNCHANGED <<source, codec, typed, words, pieces, lattice, encoded>>
  BY DEF Backtrack
<1>2. Busy /\ Busy' /\ codec.algorithm = "Unigram"
  BY <1>1 DEF Busy, CodecInv
<1>3. ASSUME CoveredBy(codec, typed) PROVE Prefaced' /\ EncodingHolds'
  <2> DEFINE w == WholeOf(codec, typed)
  <2>1. Prefaced /\ UnigramHolds /\ codec.vocab \in Seq(Seq(Chars))
    BY <1>2, <1>3, Encoding
  <2>2. Content' = Content /\ Prefaced'
    BY <1>1, <2>1, SameContent
  <2>3. /\ w \in Seq(Letters) /\ Covers(codec, w) /\ words = <<>> /\ Content = <<>> /\ pieces = Utf8(w)
        /\ LatticeSpells(codec, pieces, lattice) /\ BackSpells(codec, pieces, lattice, cursor, path)
    BY <1>1, <2>1 DEF UnigramHolds
  <2> HIDE DEF w
  <2>4. pieces \in Seq(Chars)
    BY <2>3, BytesOfText, LettersPlain, SeqMonotonic
  <2>5. BackSpells(codec, pieces, lattice, cursor', path')
    BY <1>1, <2>1, <2>3, <2>4, BackOn
  <2>6. UnigramHolds'
    BY <1>1, <2>2, <2>3, <2>5 DEF UnigramHolds, w
  <2> QED
    BY <1>1, <1>2, <2>2, <2>6 DEF EncodingHolds
<1> QED
  BY <1>1, <1>2, <1>3, Encodes

\* The walk back ends at the front: every position it came by was reached.
LEMMA EmitPathKeeps == ASSUME CodecInv, EmitPath PROVE CodecInv'
<1>1. /\ doing = "back" /\ doing' = "words" /\ (cursor = 0 \/ ~Reached(cursor))
      /\ pieces' = <<>> /\ encoded' = encoded \o path
      /\ UNCHANGED <<source, codec, typed, words>>
  BY DEF EmitPath, EmitIds
<1>2. Busy /\ Busy' /\ codec.algorithm = "Unigram"
  BY <1>1 DEF Busy, CodecInv
<1>3. ASSUME CoveredBy(codec, typed) PROVE Prefaced' /\ EncodingHolds'
  <2> DEFINE w == WholeOf(codec, typed)
  <2>1. Prefaced /\ UnigramHolds /\ GoodCodec(codec)
    BY <1>2, <1>3, Encoding
  <2>2. /\ w \in Seq(Letters) /\ Covers(codec, w) /\ words = <<>> /\ Content = <<>> /\ pieces = Utf8(w)
        /\ BackSpells(codec, pieces, lattice, cursor, path)
    BY <1>1, <2>1 DEF UnigramHolds
  <2> HIDE DEF w
  <2>3. cursor = 0 /\ path \in Seq(Int) /\ BytesOf(codec, path) = SubSeq(pieces, 1, Len(pieces))
    BY <1>1, <2>2 DEF BackSpells, Hit, Reached
  <2>4. pieces \in Seq(Chars)
    BY <2>2, BytesOfText, LettersPlain, SeqMonotonic
  <2>5. BytesOf(codec, path) = Utf8(w)
    BY <2>2, <2>3, <2>4, SubSeqFull
  <2>6. Content' = Content \o path /\ Prefaced'
    BY <1>1, <2>1, <2>3, EmitsContent
  <2>7. Content' = path
    BY <2>2, <2>3, <2>6, ConcatEmptySeq
  <2>8. UnigramHolds'
    BY <1>1, <2>2, <2>5, <2>7 DEF UnigramHolds, w
  <2> QED
    BY <1>1, <1>2, <2>6, <2>8 DEF EncodingHolds
<1> QED
  BY <1>1, <1>2, <1>3, Encodes

\* The unknown piece, once emitted, stays in the encoding.
LEMMA LostStays ==
  ASSUME NEW c, NEW ids \in Seq(Int), NEW more \in Seq(Int), Lost(c, ids) \/ ToSet(UnknownOf(c)) \cap ToSet(more) # {}
  PROVE  Lost(c, ids \o more)
<1>1. Len(ids) \in Nat /\ Len(more) \in Nat /\ DOMAIN ids = 1 .. Len(ids) /\ DOMAIN more = 1 .. Len(more)
  BY LenProperties
<1>2. /\ ids \o more \in Seq(Int) /\ Len(ids \o more) = Len(ids) + Len(more)
      /\ \A k \in 1 .. Len(ids) + Len(more) :
           (ids \o more)[k] = IF k <= Len(ids) THEN ids[k] ELSE more[k - Len(ids)]
  BY ConcatProperties
<1> DEFINE both == ids \o more
<1>3. DOMAIN both = 1 .. Len(ids) + Len(more)
  BY <1>2, LenProperties
<1> HIDE DEF both
<1>4. ASSUME NEW k \in 1 .. Len(ids) PROVE ids[k] \in ToSet(both)
  <2>1. k \in DOMAIN both /\ both[k] = ids[k]
    BY <1>1, <1>2, <1>3 DEF both
  <2> QED
    BY <2>1 DEF ToSet
<1>5. ASSUME NEW k \in 1 .. Len(more) PROVE more[k] \in ToSet(both)
  <2>1. Len(ids) + k \in DOMAIN both /\ both[Len(ids) + k] = more[k]
    BY <1>1, <1>2, <1>3 DEF both
  <2> QED
    BY <2>1 DEF ToSet
<1>6. ToSet(ids) \subseteq ToSet(both) /\ ToSet(more) \subseteq ToSet(both)
  BY <1>1, <1>4, <1>5 DEF ToSet
<1> QED
  BY <1>6 DEF Lost, both

\* The unknown piece, where there is one, is an id.
LEMMA UnknownType ==
  ASSUME NEW c, c.vocab \in Seq(Seq(Chars))
  PROVE  UnknownOf(c) \in Seq(Int) /\ (UnknownOf(c) # <<>> => ToSet(UnknownOf(c)) \cap ToSet(UnknownOf(c)) # {})
<1>1. str_to_id(c.vocab, <<"[UNK]">>) \in Int
  BY PieceListed
<1> DEFINE id == str_to_id(c.vocab, <<"[UNK]">>)
<1> HIDE DEF id
<1>2. <<id>> \in Seq(Int) /\ <<>> \in Seq(Int) /\ id \in ToSet(<<id>>)
  BY <1>1, EmptySeq DEF id, ToSet
<1> QED
  BY <1>2 DEF UnknownOf, id

\* Appending unknown ids to an encoding leaves the WordPiece part lost.
LEMMA LosesWord ==
  ASSUME CodecInv, Busy, codec.algorithm = "WordPiece", CoveredBy(codec, typed), UNCHANGED <<codec, typed>>,
         NEW ids \in Seq(Int), encoded' = encoded \o ids,
         Lost(codec, encoded) \/ ToSet(UnknownOf(codec)) \cap ToSet(ids) # {}
  PROVE  Prefaced' /\ EncodingHolds'
<1>1. Prefaced /\ GoodCodec(codec)
  BY Encoding
<1>2. Prefaced'
  BY <1>1, EmitsContent
<1>3. encoded \in Seq(Int)
  BY <1>1, OpeningType, ConcatProperties DEF Prefaced, GoodCodec
<1>4. Lost(codec, encoded \o ids)
  BY <1>3, LostStays
<1>5. WordPieceHolds'
  BY <1>4 DEF WordPieceHolds
<1> QED
  BY <1>2, <1>5 DEF EncodingHolds

\* The first word and the words behind it are words.
LEMMA HeadAmong ==
  ASSUME NEW D, NEW ws \in Seq(D), ws # <<>>
  PROVE  Head(ws) \in ToSet(ws) /\ ToSet(Tail(ws)) \subseteq ToSet(ws)
<1>1. Len(ws) \in Nat \ {0} /\ DOMAIN ws = 1 .. Len(ws)
  BY LenProperties, EmptySeq
<1>2. Head(ws) = ws[1] /\ 1 \in DOMAIN ws
  BY <1>1
<1>3. /\ Tail(ws) \in Seq(D) /\ Len(Tail(ws)) = Len(ws) - 1
      /\ \A k \in 1 .. Len(ws) - 1 : Tail(ws)[k] = ws[k + 1]
  BY <1>1, HeadTailProperties
<1>4. DOMAIN Tail(ws) = 1 .. Len(ws) - 1
  BY <1>3, LenProperties
<1>5. \A k \in DOMAIN Tail(ws) : k + 1 \in DOMAIN ws /\ Tail(ws)[k] = ws[k + 1]
  BY <1>1, <1>3, <1>4
<1> QED
  BY <1>2, <1>5 DEF ToSet

\* The rest of a word is of its characters.
LEMMA RestAmong ==
  ASSUME NEW D, NEW s \in Seq(D), NEW took \in 1 .. Len(s), NEW rest, rest = SubSeq(s, took + 1, Len(s))
  PROVE  \A k \in DOMAIN rest : rest[k] \in ToSet(s)
<1>1. Len(s) \in Nat /\ DOMAIN s = 1 .. Len(s) /\ \A k \in 1 .. Len(s) : s[k] \in ToSet(s)
  BY LenProperties DEF ToSet
<1>2. \A k \in took + 1 .. Len(s) : s[k] \in ToSet(s)
  BY <1>1
<1> DEFINE S == ToSet(s)
<1>3. \A k \in took + 1 .. Len(s) : s[k] \in S
  BY <1>2
<1> HIDE DEF S
<1>4. rest \in Seq(S)
  BY <1>1, <1>3, SubSeqProperties
<1>5. \A k \in DOMAIN rest : rest[k] \in S
  BY <1>4, ElementOfSeq, LenProperties
<1> QED
  BY <1>5 DEF S

\* A word is taken, or too long.
LEMMA TakeWordPieceKeeps == ASSUME CodecInv, TakeWordPieceWord PROVE CodecInv'
<1>1. /\ doing = "words" /\ words # <<>> /\ codec.algorithm = "WordPiece" /\ words' = Tail(words)
      /\ IF Len(Head(words)) > codec.cap
         THEN encoded' = encoded \o UnknownOf(codec) /\ pieces' = <<>> /\ doing' = "words"
         ELSE pieces' = Head(words) /\ doing' = "word" /\ encoded' = encoded
      /\ UNCHANGED <<source, codec, typed>>
  BY CoveredIs DEF TakeWordPieceWord, EmitIds
<1>2. Busy /\ Busy' /\ (doing' # "word" => pieces' = <<>>) /\ doing' \in {"word", "words"}
  BY <1>1 DEF Busy
<1>3. ASSUME CoveredBy(codec, typed) PROVE Prefaced' /\ EncodingHolds'
  <2>1. Prefaced /\ WordPieceHolds /\ GoodCodec(codec) /\ codec.vocab \in Seq(Seq(Chars))
    BY <1>1, <1>2, <1>3, Encoding
  <2>2. UnknownOf(codec) \in Seq(Int) /\ <<>> \in Seq(Int)
    BY <2>1, UnknownType, EmptySeq
  <2>3. encoded \in Seq(Int)
    BY <2>1, OpeningType, ConcatProperties DEF Prefaced, GoodCodec
  <2>4. encoded \o <<>> = encoded
    BY <2>3, ConcatEmptySeq
  <2>5. CASE Lost(codec, encoded)
    <3>1. CASE Len(Head(words)) > codec.cap
      BY <1>1, <1>2, <1>3, <2>2, <2>5, <3>1, LosesWord
    <3>2. CASE ~(Len(Head(words)) > codec.cap)
      <4>1. encoded' = encoded \o <<>>
        BY <1>1, <2>4, <3>2
      <4> QED
        BY <1>1, <1>2, <1>3, <2>2, <2>5, <4>1, LosesWord
    <3> QED
      BY <3>1, <3>2
  <2>6. CASE ~Lost(codec, encoded)
    <3>1. /\ WordPieceSpells(codec, Omitting(typed, "sp"), Content, <<>>, words)
          /\ UnknownOf(codec) = <<>> => \A w \in ToSet(words) : Spells(codec, w)
      BY <1>1, <2>1, <2>6 DEF WordPieceHolds, CodecInv
    <3>2. WordPieceSpells(codec, Omitting(typed, "sp"), Content, Head(words), Tail(words)) /\ Head(words) # <<>>
      BY <1>1, <3>1, WordPieceTakes
    <3>3. words \in Seq(Seq(Unspaced) \ {<<>>})
      BY <3>1 DEF WordPieceSpells
    <3>4. Head(words) \in ToSet(words) /\ ToSet(Tail(words)) \subseteq ToSet(words)
      BY <1>1, <3>3, HeadAmong
    <3>5. Len(Head(words)) \in Nat /\ codec.cap \in Nat
      <4>1. Head(words) \in Seq(Unspaced)
        BY <3>2 DEF WordPieceSpells
      <4>2. codec.cap \in Nat
        BY <1>1, <2>1 DEF GoodCodec, Consistent
      <4> QED
        BY <4>1, <4>2, LenProperties
    <3>6. CASE Len(Head(words)) > codec.cap
      <4>1. UnknownOf(codec) # <<>>
        BY <3>1, <3>4, <3>5, <3>6 DEF Spells
      <4> QED
        BY <1>1, <1>2, <1>3, <2>1, <2>2, <3>6, <4>1, LosesWord, UnknownType
    <3>7. CASE ~(Len(Head(words)) > codec.cap)
      <4>1. Content' = Content /\ Prefaced'
        BY <1>1, <2>1, <3>7, SameContent
      <4>2. UnknownOf(codec) = <<>> => Piecewise(codec, Head(words)) /\ \A w \in ToSet(Tail(words)) : Spells(codec, w)
        BY <3>1, <3>4 DEF Spells, Piecewise
      <4>3. WordPieceHolds'
        BY <1>1, <3>2, <3>7, <4>1, <4>2 DEF WordPieceHolds
      <4> QED
        BY <1>1, <4>1, <4>3 DEF EncodingHolds
    <3> QED
      BY <3>6, <3>7
  <2> QED
    BY <2>5, <2>6
<1> QED
  BY <1>1, <1>2, <1>3, Encodes

\* Small sequences, written out.
LEMMA FrontOne ==
  ASSUME NEW D, NEW s \in Seq(D), 1 \in DOMAIN s
  PROVE  SubSeq(s, 1, 1) = <<s[1]>>
<1>1. Len(s) \in Nat /\ DOMAIN s = 1 .. Len(s) /\ s[1] \in D
  BY LenProperties, ElementOfSeq
<1>2. \A k \in 1 .. 1 : s[k] \in D
  BY <1>1
<1>3. SubSeq(s, 1, 1) \in Seq(D) /\ Len(SubSeq(s, 1, 1)) = 1 /\ SubSeq(s, 1, 1)[1] = s[1]
  BY <1>2, SubSeqProperties
<1>4. <<s[1]>> \in Seq(D) /\ Len(<<s[1]>>) = 1 /\ <<s[1]>>[1] = s[1]
  BY <1>1
<1> DEFINE t == SubSeq(s, 1, 1)
<1> DEFINE u == <<s[1]>>
<1>5. \A k \in 1 .. Len(t) : t[k] = u[k]
  BY <1>3, <1>4
<1> HIDE DEF t, u
<1> QED
  BY <1>3, <1>4, <1>5, SeqEqual DEF t, u

\* A mark and a character.
LEMMA Paired == ASSUME NEW first, NEW second PROVE <<first>> \o <<second>> = <<first, second>>
<1> DEFINE S == {first, second}
<1> DEFINE s == <<first>>
<1> DEFINE t == <<second>>
<1> DEFINE u == <<first, second>>
<1>1. /\ s \in Seq(S) /\ t \in Seq(S) /\ u \in Seq(S) /\ Len(s) = 1 /\ Len(t) = 1 /\ Len(u) = 2
      /\ s[1] = first /\ t[1] = second /\ u[1] = first /\ u[2] = second
  OBVIOUS
<1> HIDE DEF S, s, t, u
<1>2. /\ s \o t \in Seq(S) /\ Len(s \o t) = 2
      /\ \A k \in 1 .. 2 : (s \o t)[k] = IF k <= 1 THEN s[k] ELSE t[k - 1]
  BY <1>1, ConcatProperties
<1>3. \A k \in 1 .. 2 : (s \o t)[k] = u[k]
  <2>1. (s \o t)[1] = first /\ (s \o t)[2] = second
    BY <1>1, <1>2
  <2>2. \A k \in 1 .. 2 : k = 1 \/ k = 2
    OBVIOUS
  <2> QED
    BY <1>1, <2>1, <2>2
<1>4. s \o t = u
  BY <1>1, <1>2, <1>3, SeqEqual
<1> QED
  BY <1>4 DEF s, t, u

\* The longest fitting piece is taken, or a character is unknown.
LEMMA MatchKeeps == ASSUME CodecInv, Match PROVE CodecInv'
<1> DEFINE took == Max(Fitting \cup {0})
<1> DEFINE rest == SubSeq(pieces, Max({took, 1}) + 1, Len(pieces))
<1> DEFINE front == SubSeq(pieces, 1, took)
<1> DEFINE ids == IF took = 0 THEN UnknownOf(codec) ELSE <<str_to_id(codec.vocab, Continued(front))>>
<1>1. /\ doing = "word" /\ codec.algorithm = "WordPiece"
      /\ encoded' = encoded \o ids /\ pieces' = rest
      /\ doing' = IF rest = <<>> THEN "words" ELSE "word"
      /\ UNCHANGED <<source, codec, typed, words>>
  BY CoveredIs DEF Match
<1>2. Busy /\ Busy' /\ (doing' # "word" => pieces' = <<>>) /\ doing' \in {"word", "words"}
  BY <1>1 DEF Busy
<1>3. ASSUME CoveredBy(codec, typed) PROVE Prefaced' /\ EncodingHolds'
  <2>1. Prefaced /\ WordPieceHolds /\ GoodCodec(codec) /\ codec.vocab \in Seq(Seq(Chars))
    BY <1>1, <1>2, <1>3, Encoding
  <2>2. ids \in Seq(Int)
    <3>1. UnknownOf(codec) \in Seq(Int) /\ str_to_id(codec.vocab, Continued(front)) \in Int
      BY <2>1, UnknownType, PieceListed
    <3> HIDE DEF took, front
    <3> QED
      BY <3>1
  <2>3. CASE Lost(codec, encoded)
    <3> HIDE DEF ids
    <3> QED
      BY <1>1, <1>2, <1>3, <2>2, <2>3, LosesWord
  <2>4. CASE ~Lost(codec, encoded)
    <3>1. /\ WordPieceSpells(codec, Omitting(typed, "sp"), Content, pieces, words) /\ pieces # <<>>
          /\ UnknownOf(codec) = <<>> => Piecewise(codec, pieces) /\ \A w \in ToSet(words) : Spells(codec, w)
      BY <1>1, <2>1, <2>4 DEF WordPieceHolds
    <3>2. pieces \in Seq(Unspaced) /\ Len(pieces) \in Nat /\ DOMAIN pieces = 1 .. Len(pieces)
      BY <3>1, LenProperties DEF WordPieceSpells
    <3>3. took \in Fitting \cup {0} /\ \A k \in Fitting \cup {0} : k <= took
      <4>1. Fitting \cup {0} \subseteq 0 .. Len(pieces) /\ Fitting \cup {0} # {}
        BY <3>2 DEF Fitting
      <4> DEFINE T == Fitting \cup {0}
      <4> HIDE DEF T
      <4>2. Max(T) \in T /\ \A m \in T : m <= Max(T)
        BY <3>2, <4>1, MaxOfBounded DEF T
      <4> QED
        BY <4>2 DEF T
    <3> HIDE DEF took
    <3>4. CASE took = 0
      <4>1. UnknownOf(codec) # <<>>
        <5> SUFFICES ASSUME UnknownOf(codec) = <<>> PROVE FALSE
          OBVIOUS
        <5> DEFINE ch == pieces[1]
        <5>1. 1 \in DOMAIN pieces
          BY <3>1, <3>2, EmptySeq
        <5>2. ch \in ToSet(pieces)
          BY <5>1 DEF ToSet
        <5>3. Known(codec.vocab, <<ch>>) /\ Known(codec.vocab, <<"##", ch>>)
          BY <3>1, <5>2 DEF Piecewise
        <5>4. SubSeq(pieces, 1, 1) = <<ch>>
          BY <3>2, <5>1, FrontOne
        <5> HIDE DEF ch
        <5>5. <<"##">> \o <<ch>> = <<"##", ch>>
          BY Paired
        <5>6. 1 \in Fitting
          BY <5>1, <5>3, <5>4, <5>5 DEF Fitting, Continued
        <5> QED
          BY <3>3, <3>4, <5>6
      <4>2. ids = UnknownOf(codec)
        BY <3>4
      <4> HIDE DEF ids
      <4> QED
        BY <1>1, <1>2, <1>3, <2>1, <2>2, <4>1, <4>2, LosesWord, UnknownType
    <3>5. CASE took # 0
      <4> DEFINE id == str_to_id(codec.vocab, Continued(front))
      <4>1. took \in Fitting /\ took \in 1 .. Len(pieces)
        BY <3>2, <3>3, <3>5 DEF Fitting
      <4>2. Known(codec.vocab, Continued(front))
        BY <4>1 DEF Fitting
      <4>3. id \in 0 .. Len(codec.vocab) - 1 /\ codec.vocab[id + 1] = Continued(front)
        <5> HIDE DEF front
        <5> QED
          BY <2>1, <4>2, PieceListed
      <4>4. rest = SubSeq(pieces, took + 1, Len(pieces))
        <5>1. took \in Nat /\ {took, 1} # {} /\ {took, 1} \subseteq 0 .. took
          BY <4>1
        <5> DEFINE T == {took, 1}
        <5> HIDE DEF T
        <5>2. Max(T) \in T /\ \A m \in T : m <= Max(T)
          BY <5>1, MaxOfBounded DEF T
        <5>3. Max(T) = took
          BY <4>1, <5>1, <5>2 DEF T
        <5> QED
          BY <5>3 DEF T
      <4>5. codec.vocab[id + 1] \in {front, <<"##">> \o front} /\ id \in Ids(codec)
        BY <4>3 DEF Continued, Ids
      <4>6. ids = <<id>>
        BY <3>5
      <4> HIDE DEF id, ids, rest
      <4>7. WordPieceSpells(codec, Omitting(typed, "sp"), Content \o <<id>>, rest, words)
        <5> HIDE DEF front
        <5>1. front = SubSeq(pieces, 1, took)
          BY DEF front
        <5> QED
          BY <2>1, <3>1, <4>1, <4>4, <4>5, <5>1, WordPieceMatches
      <4>8. Content' = Content \o <<id>> /\ Prefaced'
        BY <1>1, <2>1, <2>2, <4>6, EmitsContent
      <4>9. Piecewise(codec, pieces) => Piecewise(codec, rest)
        <5>1. \A k \in DOMAIN rest : rest[k] \in ToSet(pieces)
          BY <3>2, <4>1, <4>4, RestAmong
        <5> QED
          BY <5>1 DEF Piecewise, ToSet
      <4>10. WordPieceHolds'
        BY <1>1, <3>1, <4>7, <4>8, <4>9 DEF WordPieceHolds
      <4> QED
        BY <1>1, <4>8, <4>10 DEF EncodingHolds
    <3> QED
      BY <3>4, <3>5
  <2> QED
    BY <2>3, <2>4
<1> QED
  BY <1>1, <1>2, <1>3, Encodes

-----------------------------------------------------------------------------

\* Every action of the tokenizer keeps the invariant.
LEMMA CodecInductive == CodecInv /\ [CodecNext]_codec_vars => CodecInv'
<1> SUFFICES ASSUME CodecInv, [CodecNext]_codec_vars PROVE CodecInv'
  OBVIOUS
<1>1. CASE UNCHANGED codec_vars
  BY <1>1 DEF codec_vars, CodecInv, Busy, Prefaced, Content, EncodingHolds, BpeHolds, UnigramHolds, WordPieceHolds
<1> QED
  BY <1>1, LoadKeeps, EncodeKeeps, AllEncodedKeeps, TakeBpeKeeps, MergeKeeps, EmitMergedKeeps, TakeUnigramKeeps,
     RelaxKeeps, BacktrackKeeps, EmitPathKeeps, TakeWordPieceKeeps, MatchKeeps DEF CodecNext

\* What was encoded is decoded again.
LEMMA CodecRoundTrips == CodecInv => RoundTrip
<1> SUFFICES ASSUME CodecInv, doing = "encoded", Covered, ~Dropped, ~LosesMark
             PROVE  IF codec.algorithm = "WordPiece"
                    THEN \/ ToSet(UnknownIds) \cap ToSet(encoded) # {}
                         \/ Omitting(Decoded(codec, encoded), "##") = Omitting(typed, "sp")
                    ELSE Decoded(codec, encoded) = IF LosesSpace THEN Tail(Spelled) ELSE Spelled
  BY DEF RoundTrip
<1>1. /\ words = <<>> /\ pieces = <<>> /\ GoodCodec(codec) /\ typed \in Seq(Letters)
      /\ codec.vocab \in Seq(Seq(Chars)) /\ Prefaced
      /\ codec.algorithm = "BPE" => BpeHolds
      /\ codec.algorithm = "Unigram" => UnigramHolds
      /\ codec.algorithm = "WordPiece" => WordPieceHolds
  <2>1. Busy /\ CoveredBy(codec, typed)
    BY CoveredIs DEF Busy
  <2> QED
    BY <2>1, Encoding DEF CodecInv
<1>2. /\ Consistent(codec) /\ codec.bos \in Int /\ Content \in Seq(Int) /\ encoded = Opening(codec) \o Content
      /\ codec.algorithm \in {"BPE", "Unigram", "WordPiece"}
  BY <1>1 DEF GoodCodec, Prefaced, Consistent
<1>3. CASE codec.algorithm = "BPE"
  <2>1. BytesOf(codec, Content) = TargetOf(codec, typed)
    BY <1>1, <1>3, BpeEnds DEF BpeHolds
  <2>2. SpellsTyped
    BY <1>2, <2>1 DEF SpellsTyped, TargetOf
  <2> QED
    BY <1>1, <1>2, <1>3, <2>2, BpeDecodes
<1>4. CASE codec.algorithm = "Unigram"
  <2>1. BytesOf(codec, Content) = Utf8(WholeOf(codec, typed))
    BY <1>1, <1>4 DEF UnigramHolds
  <2>2. TargetOf(codec, typed) = Utf8(WholeOf(codec, typed))
    BY <1>1, <1>4, BeginsUnigram
  <2>3. SpellsTyped
    BY <1>2, <2>1, <2>2 DEF SpellsTyped, TargetOf
  <2> QED
    BY <1>1, <1>2, <1>4, <2>3, UnigramDecodes
<1>5. CASE codec.algorithm = "WordPiece"
  <2>1. CASE Lost(codec, encoded)
    BY <1>5, <2>1, CoveredIs DEF Lost
  <2>2. CASE ~Lost(codec, encoded)
    <3>1. WordPieceSpells(codec, Omitting(typed, "sp"), Content, <<>>, <<>>)
      BY <1>1, <1>5, <2>2 DEF WordPieceHolds
    <3>2. Filtered(codec, encoded) = Content
      BY <1>2, DecodedBytes
    <3>3. ~codec.byte_fallback
      BY <1>2, <1>5 DEF Consistent
    <3>4. Omitting(Lossy(BytesOf(codec, Content)), "##") = Omitting(typed, "sp")
      BY <1>1, <3>1, <3>3, WordPieceEnds
    <3>5. Decoded(codec, encoded) = Lossy(BytesOf(codec, Content))
      BY <1>5, <3>2 DEF Decoded
    <3> QED
      BY <1>5, <3>4, <3>5
  <2> QED
    BY <2>1, <2>2
<1> QED
  BY <1>2, <1>3, <1>4, <1>5

\* What is decoded is what was encoded, up to the normalizer, for every
\* tokenizer file and every text: across the pre-tokens, the merges of any
\* ranks, the lattice and its walk back, byte pieces, bos and the dummy prefix
\* (native.rs, bpe.rs, unigram.rs, wordpiece.rs, sentencepiece.rs).
THEOREM CodecRoundTrip == CodecInit(TokenizerFiles) /\ [][CodecNext]_codec_vars => []RoundTrip
BY CodecStart, CodecInductive, CodecRoundTrips, PTL
===============================================================================
