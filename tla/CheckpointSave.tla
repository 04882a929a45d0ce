-------------------------- MODULE CheckpointSave --------------------------
(***************************************************************************)
(* Distributed checkpointing: the training loop of every rank with its     *)
(* checkpointer callback, the DCP checkpointer that publishes a pointer to *)
(* the newest checkpoint, the save itself (exchange of plans, shards,      *)
(* exchange of write results, metadata), which an asynchronous save runs   *)
(* in a child process that meets its peers through files, the thread that  *)
(* waits for that child, and crashes after which the job starts again on   *)
(* the same directories.                                                   *)
(*                                                                         *)
(* A directory is named by its step.  A file keeps which life of the job   *)
(* wrote it and whether the writer came to its end: opening for writing    *)
(* truncates.  Ranks advance on their own between two collectives; a       *)
(* collective call returns when every rank is in one.                      *)
(***************************************************************************)
EXTENDS Integers, FiniteSets

CONSTANTS Rank, Coord,   \* Coord is rank 0
          TrainSteps, SaveSteps,
          IsAsync,       \* checkpoint.is_async
          Growth,        \* each member: at which steps the state dict of each rank gets
                         \* entries it had not, a parameter's first gradient among them
          MaxLife,       \* bound: how often the job is started
          MaxFault       \* bound: writes that fail and persist processes that die

ASSUME CheckpointAssumption ==
    /\ Coord \in Rank
    /\ TrainSteps \in Nat \ {0} /\ SaveSteps \in Nat \ {0}
    /\ IsAsync \in BOOLEAN
    /\ MaxLife \in Nat \ {0} /\ MaxFault \in Nat

ASSUME GrowthAssumption ==
    Growth # {} /\ Growth \subseteq [Rank -> SUBSET (1 .. TrainSteps)]

VARIABLES
    life, fresh, faults, \* fresh: the member of Growth that this life goes through
    pc, gstep, last,     \* the loop of a rank: state.global_step, _last_saved_step
    start,               \* history: the step this life started from, -1 before
    pend, fut,           \* _async_save_step (0: nothing pending), persist_completion
    cache,               \* the keys of StandardSavePlanner.cached_save_result
    phase, open, got,    \* the save being persisted: what is written or gathered,
                         \* its file is open, ranks whose results were read
    queue, join,         \* result queue of the child, thread that waits for it
    disk,                \* disk[k][d][r]: file of kind k of rank r in directory d
    ptr                  \* the pointer file, 0 if missing or unreadable

trainer == << pc, gstep, last, start, pend >>
persist == << phase, open, got >>
thread == << queue, join, fut, cache >>
vars == << life, fresh, faults, trainer, persist, thread, disk, ptr >>

-----------------------------------------------------------------------------
Dir == 1 .. TrainSteps
Kinds == {"plan", "shard", "data", "extra", "meta"}
Missing == [life |-> 0, whole |-> FALSE]
Torn == [life |-> life, whole |-> FALSE]
Whole == [life |-> life, whole |-> TRUE]

\* The metadata file is rank 0's; its presence is the signal, not its content.
IsComplete(d) == disk["meta"][d][Coord] # Missing

LargestComplete ==
    IF \E d \in Dir : IsComplete(d)
    THEN CHOOSE d \in Dir : IsComplete(d) /\ \A e \in Dir : IsComplete(e) => e <= d
    ELSE 0

PointerOnly == IF ptr # 0 /\ IsComplete(ptr) THEN ptr ELSE 0  \* mutant: no scan

\* The pointer if its directory is complete, else the scan; 0: none.
FindLatest == IF ptr # 0 /\ IsComplete(ptr) THEN ptr ELSE LargestComplete

\* Off the cadence only on_train_end saves, and it forces a synchronous save.
Synchronous(d) == ~IsAsync \/ d % SaveSteps # 0

\* The step whose save is being persisted or finalized.
SaveStep(r) == IF pend[r] # 0 THEN pend[r] ELSE gstep[r]
InChild(r) == pend[r] # 0

\* The names in the flattened state dict of step d, which are the key of its plan
\* in the cache: two steps have the same key when nothing new came in between.
Keys(r, d) == {s \in fresh[r] : s <= d}
HasPlan(r, d) == Keys(r, d) \in cache[r]

InCollective(r) ==
    \/ pc[r] \in {"load", "dir", "fin1", "fin2"}
    \/ pc[r] = "persist" /\ phase[r] \in {"plans", "results", "saved"}

Alive(r) == phase[r] \notin {"none", "exited", "died"}

Init ==
    /\ life = 1
    /\ fresh \in Growth
    /\ faults = 0
    /\ pc = [r \in Rank |-> "begin"]
    /\ gstep = [r \in Rank |-> 0]
    /\ last = [r \in Rank |-> -1]
    /\ start = [r \in Rank |-> -1]
    /\ pend = [r \in Rank |-> 0]
    /\ fut = [r \in Rank |-> "none"]
    /\ cache = [r \in Rank |-> {}]
    /\ phase = [r \in Rank |-> "none"]
    /\ open = [r \in Rank |-> FALSE]
    /\ got = [r \in Rank |-> {}]
    /\ queue = [r \in Rank |-> "empty"]
    /\ join = [r \in Rank |-> "none"]
    /\ disk = [k \in Kinds |-> [d \in Dir |-> [r \in Rank |-> Missing]]]
    /\ ptr = 0

-----------------------------------------------------------------------------
(***************************************************************************)
(* The training loop and the checkpointer callback                         *)
(***************************************************************************)
\* on_train_begin with restore_from = LATEST.  Restoring sets _last_saved_step,
\* and nothing is restored when no checkpoint is found.
TrainBegin(r) ==
    /\ pc[r] = "begin"
    /\ start' = [start EXCEPT ![r] = FindLatest]
    /\ gstep' = [gstep EXCEPT ![r] = FindLatest]
    /\ IF FindLatest = 0
       THEN /\ pc' = [pc EXCEPT ![r] = "train"]
            /\ UNCHANGED last
       ELSE /\ pc' = [pc EXCEPT ![r] = "load"]
            /\ last' = [last EXCEPT ![r] = FindLatest]
    /\ UNCHANGED << life, fresh, faults, pend, persist, thread, disk, ptr >>

\* A training step and on_step_end.
TrainStep(r) ==
    /\ pc[r] = "train" /\ gstep[r] < TrainSteps
    /\ gstep' = [gstep EXCEPT ![r] = @ + 1]
    /\ pc' = [pc EXCEPT ![r] =
                IF (gstep[r] + 1) % SaveSteps = 0 /\ gstep[r] + 1 # last[r]
                THEN "wait" ELSE "train"]
    /\ UNCHANGED << life, fresh, faults, last, start, pend, persist, thread, disk, ptr >>

TrainEnd(r) ==
    /\ pc[r] = "train" /\ gstep[r] = TrainSteps
    /\ pc' = [pc EXCEPT ![r] = "wait"]
    /\ UNCHANGED << life, fresh, faults, gstep, last, start, pend, persist, thread, disk, ptr >>

EarlySave(r) == IF gstep[r] = last[r] THEN "done" ELSE "extra"  \* mutant: no barrier

\* What a rank does once no save is pending: the save it came for, or the end.
AfterWait(r) == IF gstep[r] = last[r] THEN "done" ELSE "dir"

SwallowFailure(r) ==  \* mutant: a failed save is logged only
    /\ pc[r] = "wait"
    /\ fut[r] # "pending"
    /\ IF fut[r] = "ok"
       THEN pc' = [pc EXCEPT ![r] = "fin1"] /\ UNCHANGED << pend, fut >>
       ELSE /\ pc' = [pc EXCEPT ![r] = AfterWait(r)]
            /\ pend' = [pend EXCEPT ![r] = 0]
            /\ fut' = [fut EXCEPT ![r] = "none"]
    /\ UNCHANGED << life, fresh, faults, gstep, last, start, persist, queue, join, cache, disk, ptr >>

RankZeroFinalizes(r) ==  \* mutant: the barriers are inside the test for rank 0
    /\ pc[r] = "wait"
    /\ fut[r] # "pending"
    /\ IF r = Coord /\ fut[r] = "ok"
       THEN pc' = [pc EXCEPT ![r] = "fin1"] /\ UNCHANGED << pend, fut >>
       ELSE /\ pc' = [pc EXCEPT ![r] = IF fut[r] = "failed" THEN "raised" ELSE AfterWait(r)]
            /\ pend' = [pend EXCEPT ![r] = 0]
            /\ fut' = [fut EXCEPT ![r] = "none"]
    /\ UNCHANGED << life, fresh, faults, gstep, last, start, persist, queue, join, cache, disk, ptr >>

PublishAtOnce(r) ==  \* mutant: no barrier in front of the pointer
    /\ pc[r] = "wait"
    /\ fut[r] # "pending"
    /\ IF pend[r] = 0
       THEN pc' = [pc EXCEPT ![r] = AfterWait(r)] /\ UNCHANGED << pend, fut >>
       ELSE IF fut[r] = "ok"
       THEN /\ pc' = [pc EXCEPT ![r] = IF r = Coord THEN "point" ELSE "fin2"]
            /\ UNCHANGED << pend, fut >>
       ELSE /\ pc' = [pc EXCEPT ![r] = "raised"]
            /\ pend' = [pend EXCEPT ![r] = 0]
            /\ fut' = [fut EXCEPT ![r] = "none"]
    /\ UNCHANGED << life, fresh, faults, gstep, last, start, persist, queue, join, cache, disk, ptr >>

\* maybe_wait_for_async_save, up to the finalization.
MaybeWait(r) ==
    /\ pc[r] = "wait"
    /\ fut[r] # "pending"
    /\ IF pend[r] = 0
       THEN pc' = [pc EXCEPT ![r] = AfterWait(r)] /\ UNCHANGED << pend, fut >>
       ELSE IF fut[r] = "ok"
       THEN pc' = [pc EXCEPT ![r] = "fin1"] /\ UNCHANGED << pend, fut >>
       ELSE /\ pc' = [pc EXCEPT ![r] = "raised"]
            /\ pend' = [pend EXCEPT ![r] = 0]
            /\ fut' = [fut EXCEPT ![r] = "none"]
    /\ UNCHANGED << life, fresh, faults, gstep, last, start, persist, queue, join, cache, disk, ptr >>

-----------------------------------------------------------------------------
(***************************************************************************)
(* Collectives: the barriers of save, _finalize_checkpoint and load, and   *)
(* in a synchronous save the two all_gather_object and the last barrier    *)
(***************************************************************************)
\* Ranks that gather plans and ranks that gather write results are in one
\* all_gather_object.  build_global_plan finds results among the plans and raises,
\* finalize_checkpoint of the coordinator plans among the results.
Mixed ==
    /\ \E r \in Rank : pc[r] = "persist" /\ phase[r] = "plans"
    /\ \E r \in Rank : pc[r] = "persist" /\ phase[r] = "results"

Chokes(r) ==
    /\ Mixed /\ pc[r] = "persist"
    /\ phase[r] = "plans" \/ (phase[r] = "results" /\ r = Coord)

AfterCollective(r) ==
    CASE pc[r] = "load" -> "train"
      [] pc[r] = "dir"  -> "extra"
      [] pc[r] = "fin1" -> IF r = Coord THEN "point" ELSE "fin2"
      [] pc[r] = "fin2" -> IF pend[r] # 0 THEN AfterWait(r) ELSE "train"
      [] OTHER          -> IF Chokes(r) THEN "raised"
                           ELSE IF phase[r] = "saved" THEN "fin1" ELSE "persist"

Collective ==
    /\ \A r \in Rank : InCollective(r)
    /\ pc' = [r \in Rank |-> AfterCollective(r)]
    /\ phase' = [r \in Rank |->
            IF Chokes(r) THEN "none"
            ELSE CASE pc[r] # "persist"    -> phase[r]
                   [] phase[r] = "plans"   -> "shard"
                   [] phase[r] = "results" -> IF r = Coord THEN "meta" ELSE "saved"
                   [] phase[r] = "saved"   -> "none"]
    /\ cache' = [r \in Rank |->
            IF pc[r] = "persist" /\ phase[r] = "plans" /\ ~Chokes(r)
            THEN cache[r] \cup {Keys(r, SaveStep(r))} ELSE cache[r]]
    /\ last' = [r \in Rank |->
            IF pc[r] = "fin2" /\ pend[r] = 0 THEN gstep[r] ELSE last[r]]
    /\ pend' = [r \in Rank |-> IF pc[r] = "fin2" THEN 0 ELSE pend[r]]
    /\ fut' = [r \in Rank |-> IF pc[r] = "fin2" THEN "none" ELSE fut[r]]
    /\ UNCHANGED << life, fresh, faults, gstep, start, open, got, queue, join, disk, ptr >>

\* _write_latest_pointer: opening truncates the pointer, then the step is written.
OpenPointer ==
    /\ pc[Coord] = "point"
    /\ ptr' = 0
    /\ pc' = [pc EXCEPT ![Coord] = "point_w"]
    /\ UNCHANGED << life, fresh, faults, gstep, last, start, pend, persist, thread, disk >>

WritePointer ==
    /\ pc[Coord] = "point_w"
    /\ ptr' = SaveStep(Coord)
    /\ pc' = [pc EXCEPT ![Coord] = "fin2"]
    /\ UNCHANGED << life, fresh, faults, gstep, last, start, pend, persist, thread, disk >>

-----------------------------------------------------------------------------
(***************************************************************************)
(* DistributedCheckpointer.save after its barrier: the extra state of the  *)
(* rank, then the dispatch                                                 *)
(***************************************************************************)
OpenExtra(r) ==
    /\ pc[r] = "extra"
    /\ disk' = [disk EXCEPT !["extra"][gstep[r]][r] = Torn]
    /\ pc' = [pc EXCEPT ![r] = "extra_w"]
    /\ UNCHANGED << life, fresh, faults, gstep, last, start, pend, persist, thread, ptr >>

FirstPhase(r) ==
    IF HasPlan(r, gstep[r]) THEN "shard"
    ELSE IF Synchronous(gstep[r]) THEN "plans" ELSE "plan"

\* An asynchronous save is dispatched when the child and the thread have started:
\* the child inherits the plan cache, and the step counts as saved at once.
Dispatch(r) ==
    /\ pc[r] = "extra_w"
    /\ disk' = [disk EXCEPT !["extra"][gstep[r]][r] = Whole]
    /\ phase' = [phase EXCEPT ![r] = FirstPhase(r)]
    /\ got' = [got EXCEPT ![r] = {}]
    /\ IF Synchronous(gstep[r])
       THEN /\ pc' = [pc EXCEPT ![r] = "persist"]
            /\ UNCHANGED << pend, last, fut, queue, join >>
       ELSE /\ pc' = [pc EXCEPT ![r] = "train"]
            /\ pend' = [pend EXCEPT ![r] = gstep[r]]
            /\ last' = [last EXCEPT ![r] = gstep[r]]
            /\ fut' = [fut EXCEPT ![r] = "pending"]
            /\ queue' = [queue EXCEPT ![r] = "empty"]
            /\ join' = [join EXCEPT ![r] = "poll"]
    /\ UNCHANGED << life, fresh, faults, gstep, start, open, cache, ptr >>

-----------------------------------------------------------------------------
(***************************************************************************)
(* _save_impl: run by the child of an asynchronous save, or by the rank    *)
(* itself (pc "persist") in a synchronous one                              *)
(***************************************************************************)
Writes == {"plan", "shard", "data", "meta"}

OpenFile(r) ==
    /\ phase[r] \in Writes /\ ~open[r]
    /\ disk' = [disk EXCEPT ![phase[r]][SaveStep(r)][r] = Torn]
    /\ open' = [open EXCEPT ![r] = TRUE]
    /\ UNCHANGED << life, fresh, faults, trainer, phase, got, thread, ptr >>

\* Only the coordinator goes on to read the write results of the others.
AfterWrite(r) ==
    CASE phase[r] = "plan"  -> "plans"
      [] phase[r] = "shard" -> IF InChild(r) THEN "data" ELSE "results"
      [] phase[r] = "data"  -> IF r = Coord THEN "results" ELSE "put"
      [] phase[r] = "meta"  -> IF InChild(r) THEN "put" ELSE "saved"

CloseFile(r) ==
    /\ open[r]
    /\ disk' = [disk EXCEPT ![phase[r]][SaveStep(r)][r] = Whole]
    /\ open' = [open EXCEPT ![r] = FALSE]
    /\ phase' = [phase EXCEPT ![r] = AfterWrite(r)]
    /\ UNCHANGED << life, fresh, faults, trainer, got, thread, ptr >>

\* load_file: a file without the completion flag is left for the next round, a
\* file of write results is deleted once read.
ReadFile(r, q) ==
    /\ InChild(r) /\ phase[r] \in {"plans", "results"}
    /\ q \notin got[r]
    /\ LET k == IF phase[r] = "plans" THEN "plan" ELSE "data" IN
        /\ disk[k][SaveStep(r)][q].whole
        /\ disk' = IF k = "data" THEN [disk EXCEPT ![k][SaveStep(r)][q] = Missing]
                                 ELSE disk
    /\ got' = [got EXCEPT ![r] = @ \cup {q}]
    /\ UNCHANGED << life, fresh, faults, trainer, phase, open, thread, ptr >>

Gathered(r) ==
    /\ InChild(r) /\ phase[r] \in {"plans", "results"}
    /\ got[r] = Rank
    /\ phase' = [phase EXCEPT ![r] = IF @ = "plans" THEN "shard" ELSE "meta"]
    /\ got' = [got EXCEPT ![r] = {}]
    /\ UNCHANGED << life, fresh, faults, trainer, open, thread, disk, ptr >>

\* The child reports the failure it caught and exits.
FailChild(r) ==
    /\ queue' = [queue EXCEPT ![r] = "failure"]
    /\ phase' = [phase EXCEPT ![r] = "exited"]
    /\ open' = [open EXCEPT ![r] = FALSE]

\* batch_read_worker: some file has not come by the deadline.
GatherTimeout(r) ==
    /\ InChild(r) /\ phase[r] \in {"plans", "results"}
    /\ got[r] # Rank
    /\ FailChild(r)
    /\ UNCHANGED << life, fresh, faults, trainer, got, fut, cache, join, disk, ptr >>

PutResult(r) ==
    /\ phase[r] = "put"
    /\ queue' = [queue EXCEPT ![r] = "success"]
    /\ phase' = [phase EXCEPT ![r] = "exited"]
    /\ UNCHANGED << life, fresh, faults, trainer, open, got, fut, cache, join, disk, ptr >>

\* A write raises, with its file open or not.
WriteFails(r) ==
    /\ faults < MaxFault
    /\ faults' = faults + 1
    /\ phase[r] \in Writes
    /\ IF InChild(r)
       THEN FailChild(r) /\ UNCHANGED pc
       ELSE /\ pc' = [pc EXCEPT ![r] = "raised"]
            /\ phase' = [phase EXCEPT ![r] = "none"]
            /\ open' = [open EXCEPT ![r] = FALSE]
            /\ UNCHANGED queue
    /\ UNCHANGED << life, fresh, gstep, last, start, pend, got, fut, cache, join, disk, ptr >>

ExtraFails(r) ==
    /\ faults < MaxFault
    /\ faults' = faults + 1
    /\ pc[r] \in {"extra", "extra_w"}
    /\ pc' = [pc EXCEPT ![r] = "raised"]
    /\ UNCHANGED << life, fresh, gstep, last, start, pend, persist, thread, disk, ptr >>

\* The persist process is killed: no result comes.
ChildDies(r) ==
    /\ faults < MaxFault
    /\ faults' = faults + 1
    /\ InChild(r) /\ Alive(r)
    /\ phase' = [phase EXCEPT ![r] = "died"]
    /\ open' = [open EXCEPT ![r] = FALSE]
    /\ UNCHANGED << life, fresh, trainer, got, thread, disk, ptr >>

-----------------------------------------------------------------------------
(***************************************************************************)
(* resolve_async_persist_result, on its thread                             *)
(***************************************************************************)
CoordinatorCaches(r, result) ==  \* mutant: one rank keeps the plan
    /\ join' = [join EXCEPT ![r] = "none"]
    /\ IF result = "success"
       THEN /\ fut' = [fut EXCEPT ![r] = "ok"]
            /\ cache' = [cache EXCEPT ![r] =
                    IF r = Coord THEN @ \cup {Keys(r, SaveStep(r))} ELSE @]
       ELSE /\ fut' = [fut EXCEPT ![r] = "failed"]
            /\ UNCHANGED cache

Resolve(r, result) ==
    /\ join' = [join EXCEPT ![r] = "none"]
    /\ IF result = "success"
       THEN /\ fut' = [fut EXCEPT ![r] = "ok"]
            /\ cache' = [cache EXCEPT ![r] = @ \cup {Keys(r, SaveStep(r))}]
       ELSE /\ fut' = [fut EXCEPT ![r] = "failed"]
            /\ UNCHANGED cache

JoinTakes(r) ==
    /\ join[r] = "poll" /\ queue[r] # "empty"
    /\ Resolve(r, queue[r])
    /\ UNCHANGED << life, fresh, faults, trainer, persist, queue, disk, ptr >>

\* The wait on the queue ends with nothing; whether the child lives is asked later.
JoinTimesOut(r) ==
    /\ join[r] = "poll" /\ queue[r] = "empty"
    /\ join' = [join EXCEPT ![r] = "empty"]
    /\ UNCHANGED << life, fresh, faults, trainer, persist, queue, fut, cache, disk, ptr >>

JoinAsksAgain(r) ==
    /\ join[r] = "empty" /\ Alive(r)
    /\ join' = [join EXCEPT ![r] = "poll"]
    /\ UNCHANGED << life, fresh, faults, trainer, persist, queue, fut, cache, disk, ptr >>

GiveUp(r) ==  \* mutant: no second look
    /\ join[r] = "empty" /\ ~Alive(r)
    /\ Resolve(r, "empty")
    /\ UNCHANGED << life, fresh, faults, trainer, persist, queue, disk, ptr >>

\* The child is gone: the queue is looked at once more.
JoinLooksAgain(r) ==
    /\ join[r] = "empty" /\ ~Alive(r)
    /\ Resolve(r, queue[r])
    /\ UNCHANGED << life, fresh, faults, trainer, persist, queue, disk, ptr >>

-----------------------------------------------------------------------------
(***************************************************************************)
(* The job dies, all of its processes with it, and is started again        *)
(***************************************************************************)
\* A life that restores has created the whole state of the optimizer to load into;
\* one that starts anew gets it as the gradients come.
NextGrowth == IF FindLatest = 0 THEN Growth ELSE {[r \in Rank |-> {}]}

Crash ==
    /\ life < MaxLife
    /\ \E r \in Rank : pc[r] # "done"
    /\ life' = life + 1
    /\ fresh' \in NextGrowth
    /\ pc' = [r \in Rank |-> "begin"]
    /\ gstep' = [r \in Rank |-> 0]
    /\ last' = [r \in Rank |-> -1]
    /\ start' = [r \in Rank |-> -1]
    /\ pend' = [r \in Rank |-> 0]
    /\ fut' = [r \in Rank |-> "none"]
    /\ cache' = [r \in Rank |-> {}]
    /\ phase' = [r \in Rank |-> "none"]
    /\ open' = [r \in Rank |-> FALSE]
    /\ got' = [r \in Rank |-> {}]
    /\ queue' = [r \in Rank |-> "empty"]
    /\ join' = [r \in Rank |-> "none"]
    /\ UNCHANGED << faults, disk, ptr >>

-----------------------------------------------------------------------------
Loop(r) ==
    \/ TrainBegin(r) \/ TrainStep(r) \/ TrainEnd(r) \/ MaybeWait(r)
    \/ OpenExtra(r) \/ Dispatch(r)

SaveImpl(r) ==
    \/ OpenFile(r) \/ CloseFile(r)
    \/ \E q \in Rank : ReadFile(r, q)
    \/ Gathered(r) \/ GatherTimeout(r) \/ PutResult(r)

JoinThread(r) == JoinTakes(r) \/ JoinTimesOut(r) \/ JoinAsksAgain(r) \/ JoinLooksAgain(r)

Publish == OpenPointer \/ WritePointer

Next ==
    \/ \E r \in Rank : Loop(r) \/ SaveImpl(r) \/ JoinThread(r)
    \/ \E r \in Rank : WriteFails(r) \/ ExtraFails(r) \/ ChildDies(r)
    \/ Collective \/ Publish \/ Crash

\* Processes and threads keep running, collectives that everyone has entered
\* return.  Nothing is assumed of faults and crashes.
Fairness ==
    /\ \A r \in Rank : WF_vars(Loop(r)) /\ WF_vars(SaveImpl(r)) /\ WF_vars(JoinThread(r))
    /\ WF_vars(Collective) /\ WF_vars(Publish)

Spec == Init /\ [][Next]_vars /\ Fairness

-----------------------------------------------------------------------------
(***************************************************************************)
(* Properties                                                              *)
(***************************************************************************)
File == [life : 0 .. MaxLife, whole : BOOLEAN]
Loops == {"begin", "load", "train", "wait", "dir", "extra", "extra_w", "persist",
          "fin1", "point", "point_w", "fin2", "done", "raised"}
Names == SUBSET Dir
Phases == {"none", "plan", "plans", "shard", "data", "results", "meta", "saved", "put",
           "exited", "died"}

\* The types; a save in a child has its step pending, and only a write holds a
\* file open.
TypeOK ==
    /\ life \in 1 .. MaxLife /\ fresh \in [Rank -> Names] /\ faults \in 0 .. MaxFault
    /\ pc \in [Rank -> Loops]
    /\ gstep \in [Rank -> 0 .. TrainSteps]
    /\ last \in [Rank -> -1 .. TrainSteps] /\ start \in [Rank -> -1 .. TrainSteps]
    /\ pend \in [Rank -> 0 .. TrainSteps]
    /\ fut \in [Rank -> {"none", "pending", "ok", "failed"}]
    /\ cache \in [Rank -> SUBSET Names]
    /\ phase \in [Rank -> Phases] /\ open \in [Rank -> BOOLEAN]
    /\ got \in [Rank -> SUBSET Rank]
    /\ queue \in [Rank -> {"empty", "success", "failure"}]
    /\ join \in [Rank -> {"none", "poll", "empty"}]
    /\ disk \in [Kinds -> [Dir -> [Rank -> File]]]
    /\ ptr \in 0 .. TrainSteps
    /\ \A r \in Rank : open[r] => phase[r] \in Writes
    /\ \A r \in Rank : phase[r] \in {"data", "put"} => InChild(r)

\* Every file a restore of directory d reads is whole and of one life of the job.
Restorable(d) ==
    \E l \in 1 .. MaxLife :
        /\ disk["meta"][d][Coord] = [life |-> l, whole |-> TRUE]
        /\ \A r \in Rank, k \in {"shard", "extra"} :
              disk[k][d][r] = [life |-> l, whole |-> TRUE]

\* The pointer is never over a checkpoint that is still being assembled, or being
\* written again after a restart: _finalize_checkpoint publishes behind a barrier,
\* and a restored step counts as saved.
PointerWhole == ptr # 0 => Restorable(ptr)

\* A persisted save is not lost to the timeout of the wait on the queue: the thread
\* reports a failure only when no success came.
NoLostResult == \A r \in Rank : fut[r] = "failed" => queue[r] # "success"

\* Off the cadence only the end of training saves.
IsSave(d) == d % SaveSteps = 0 \/ d = TrainSteps
SaveDirs == {d \in Dir : IsSave(d)}

\* The condition under which the code's plan caches agree: a save that names the
\* same entries as an earlier one on some rank does so on every rank.
KeysComeTogether ==
    \A r, q \in Rank, d, e \in SaveDirs :
        Keys(r, d) = Keys(r, e) <=> Keys(q, d) = Keys(q, e)

\* Ranks in a collective at the same time are in the same one, and for the same
\* save: the pending save and the restored step never lead them apart.  Their plan
\* caches do where a state dict grew on some ranks only, and there as far as the
\* two gathers of a synchronous save and no further.
CollectivesPair ==
    \A r, q \in Rank :
        InCollective(r) /\ InCollective(q) =>
            /\ pc[r] = pc[q]
            /\ pc[r] = "persist" =>
                  \/ phase[r] = phase[q]
                  \/ ~KeysComeTogether /\ {phase[r], phase[q]} = {"plans", "results"}
            /\ pc[r] # "load" => SaveStep(r) = SaveStep(q)

\* A child that waits for the plan of a peer will find it: where the state dicts of
\* the ranks grow together, no child of that save took its plan from the cache and
\* left the file unwritten.
PlanWillCome ==
    KeysComeTogether =>
        \A r, q \in Rank :
            /\ InChild(r) /\ phase[r] = "plans"
            /\ pend[q] = pend[r] /\ phase[q] \in {"shard", "data", "results", "put", "meta"}
            => disk["plan"][pend[r]][q].whole

\* All ranks of a life restore from the same checkpoint, though each looks for it
\* by itself: nothing is published or written before every rank has resolved it.
SameStart ==
    \A r, q \in Rank : start[r] # -1 /\ start[q] # -1 => start[r] = start[q]

\* What a restart would find never goes back, whatever is written, published or
\* killed in between.
FoundNeverBack == [][FindLatest' >= FindLatest]_vars

\* The job ends, or some rank has raised: no rank waits for ever on its own.
JobEnds == <>[]((\A r \in Rank : pc[r] = "done") \/ (\E r \in Rank : pc[r] = "raised"))

=============================================================================
