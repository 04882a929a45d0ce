----------------------- MODULE CheckpointSave_proofs -----------------------
(***************************************************************************)
(* For any number of ranks, steps, lives and faults: no persisted save is  *)
(* reported as failed, and the ranks of a life start from the same         *)
(* checkpoint.                                                             *)
(***************************************************************************)
EXTENDS CheckpointSave, WellFoundedInduction, TLAPS

\* Where a rank may be while a save is under way: one in a child is reported to a
\* thread that has not answered yet while the rank trains or waits for it.
Saves ==
    \A r \in Rank :
        /\ InChild(r) => pc[r] \in {"train", "wait", "fin1", "point", "point_w", "fin2"}
        /\ Alive(r) => IF InChild(r) THEN fut[r] = "pending" /\ pc[r] \in {"train", "wait"}
                                     ELSE pc[r] = "persist"
        /\ join[r] # "none" => /\ InChild(r) /\ fut[r] = "pending"
                               /\ pc[r] \in {"train", "wait"}
        /\ InChild(r) /\ queue[r] # "empty" => ~Alive(r)
        /\ gstep[r] = 0 => pc[r] \in {"begin", "load", "train"}

\* While a rank has still to look for the newest checkpoint nobody has passed a
\* barrier after its own look: nothing is being saved.
Opening ==
    (\E q \in Rank : pc[q] = "begin") =>
        \A r \in Rank :
            /\ pc[r] \in {"begin", "load", "train", "wait", "dir"}
            /\ pend[r] = 0 /\ ~Alive(r)
            /\ start[r] = IF pc[r] = "begin" THEN -1 ELSE FindLatest
            /\ pc[r] \in {"begin", "train", "wait", "dir"} => last[r] = -1

IInv == TypeOK /\ Saves /\ NoLostResult /\ Opening /\ SameStart

-----------------------------------------------------------------------------
\* The scan finds the largest complete directory.
ScanResult(found) ==
    /\ \A d \in Dir : IsComplete(d) => found \in Dir /\ d <= found
    /\ found = 0 => \A d \in Dir : ~IsComplete(d)
    /\ found # 0 => found \in Dir /\ IsComplete(found)

LEMMA ScanLargest == ScanResult(LargestComplete)
<1> USE DEF ScanResult
<1> DEFINE complete == {d \in Dir : IsComplete(d)}
           below == {TrainSteps - d : d \in complete}
<1>1. complete \subseteq 1 .. TrainSteps /\ TrainSteps \in Nat
  BY CheckpointAssumption DEF Dir
<1>2. ASSUME complete # {}
      PROVE  \E d \in complete : \A e \in complete : e <= d
  <2>1. below \subseteq Nat /\ below # {}
    BY <1>1, <1>2
  <2> HIDE DEF below
  <2>2. PICK x \in below : \A y \in below : ~ (<< y, x >> \in OpToRel(<, Nat))
    BY <2>1, NatLessThanWellFounded, WFMin
  <2>3. \A y \in below : x <= y
    <3>1. OpToRel(<, Nat) = {ss \in Nat \X Nat : ss[1] < ss[2]}
      BY DEF OpToRel
    <3>2. ASSUME NEW y \in below, y < x PROVE FALSE
      <4>1. << y, x >> \in Nat \X Nat
        BY <2>1
      <4> QED
        BY <3>1, <3>2, <4>1, <2>2
    <3> QED
      BY <3>2, <2>1
  <2>4. PICK d \in complete : x = TrainSteps - d
    BY DEF below
  <2>5. ASSUME NEW e \in complete PROVE e <= d
    <3>1. TrainSteps - e \in below
      BY DEF below
    <3> HIDE DEF complete
    <3> QED
      BY <1>1, <2>3, <2>4, <3>1
  <2> QED
    BY <2>5
<1>3. CASE complete = {}
  <2>1. LargestComplete = 0 /\ \A d \in Dir : ~IsComplete(d)
    BY <1>3 DEF LargestComplete
  <2> QED
    BY <2>1
<1>4. CASE complete # {}
  <2>1. \E d \in Dir : IsComplete(d) /\ \A e \in Dir : IsComplete(e) => e <= d
    BY <1>2, <1>4
  <2>2. /\ LargestComplete \in Dir /\ IsComplete(LargestComplete)
        /\ \A e \in Dir : IsComplete(e) => e <= LargestComplete
    BY <2>1 DEF LargestComplete
  <2>3. LargestComplete # 0
    BY <2>2, <1>1 DEF Dir
  <2> QED
    BY <2>2, <2>3
<1> QED
  BY <1>3, <1>4

LEMMA FindLatestType ==
    ASSUME ptr \in 0 .. TrainSteps
    PROVE  FindLatest \in 0 .. TrainSteps
<1>1. LargestComplete \in 0 .. TrainSteps
  BY ScanLargest, CheckpointAssumption DEF ScanResult, Dir
<1> QED
  BY <1>1 DEF FindLatest

\* Writing one file leaves a disk.
LEMMA WriteType ==
    ASSUME TypeOK, NEW k, NEW d, NEW r, NEW f \in File
    PROVE  [disk EXCEPT ![k][d][r] = f] \in [Kinds -> [Dir -> [Rank -> File]]]
<1> DEFINE ofStep == [disk[k][d] EXCEPT ![r] = f]
           ofKind == [disk[k] EXCEPT ![d] = ofStep]
<1>1. disk \in [Kinds -> [Dir -> [Rank -> File]]]
  BY DEF TypeOK
<1>2. ASSUME k \in Kinds PROVE ofKind \in [Dir -> [Rank -> File]]
  <2>1. ASSUME d \in Dir PROVE ofStep \in [Rank -> File]
    BY <1>1, <1>2, <2>1
  <2> HIDE DEF ofStep
  <2> QED
    BY <1>1, <1>2, <2>1
<1> HIDE DEF ofKind
<1>3. [disk EXCEPT ![k] = ofKind] \in [Kinds -> [Dir -> [Rank -> File]]]
  BY <1>1, <1>2
<1> QED
  BY <1>3 DEF ofKind

LEMMA FileValues ==
    ASSUME TypeOK
    PROVE  Missing \in File /\ Torn \in File /\ Whole \in File
  BY CheckpointAssumption DEF TypeOK, Missing, Torn, Whole, File

\* The plan of a save is kept under a key, whoever keeps it.
LEMMA CacheType ==
    ASSUME TypeOK, NEW r \in Rank, NEW d
    PROVE  Keys(r, d) \in Names /\ cache[r] \cup {Keys(r, d)} \in SUBSET Names
<1>1. Keys(r, d) \in Names
  BY DEF TypeOK, Keys, Names
<1>2. cache[r] \in SUBSET Names
  BY DEF TypeOK
<1> QED
  BY <1>1, <1>2

LEMMA InitInv == Init => IInv
  BY CheckpointAssumption, GrowthAssumption
  DEF Init, IInv, TypeOK, Saves, NoLostResult, Opening, SameStart, Missing, File, Loops,
      Phases, Writes, InChild, Alive, FindLatest, LargestComplete, IsComplete, Dir,
      Names

LEMMA TrainBeginInv ==
    ASSUME IInv, NEW r \in Rank, TrainBegin(r)
    PROVE  IInv'
<1> USE CheckpointAssumption DEF IInv
<1>1. /\ pc[r] = "begin"
      /\ start' = [start EXCEPT ![r] = FindLatest]
      /\ gstep' = [gstep EXCEPT ![r] = FindLatest]
      /\ \/ /\ FindLatest = 0
            /\ pc' = [pc EXCEPT ![r] = "train"]
            /\ UNCHANGED last
         \/ /\ FindLatest # 0
            /\ pc' = [pc EXCEPT ![r] = "load"]
            /\ last' = [last EXCEPT ![r] = FindLatest]
      /\ UNCHANGED << life, fresh, faults, pend, persist, thread, disk, ptr >>
  BY DEF TrainBegin
<1>2. FindLatest \in 0 .. TrainSteps
  BY FindLatestType DEF TypeOK
<1>3. TypeOK'
  <2>1. pc' \in [Rank -> Loops]
    BY <1>1 DEF TypeOK, Loops
  <2>2. last' \in [Rank -> -1 .. TrainSteps]
    BY <1>1, <1>2 DEF TypeOK
  <2>3. /\ gstep' \in [Rank -> 0 .. TrainSteps]
        /\ start' \in [Rank -> -1 .. TrainSteps]
    BY <1>1, <1>2 DEF TypeOK
  <2> QED
    BY <1>1, <2>1, <2>2, <2>3 DEF TypeOK, InChild, persist, thread
<1>4. Saves'
  BY <1>1, <1>2 DEF TypeOK, Saves, Alive, InChild, persist, thread
<1>5. NoLostResult'
  BY <1>1 DEF NoLostResult, thread
<1>6. FindLatest' = FindLatest
  BY <1>1 DEF FindLatest, LargestComplete, IsComplete
<1>7. \A p \in Rank : start'[p] = IF pc'[p] = "begin" THEN -1 ELSE FindLatest
  BY <1>1 DEF Opening, TypeOK
<1>8. SameStart'
  BY <1>2, <1>7 DEF SameStart
<1>9. ASSUME NEW p \in Rank
      PROVE  /\ pc'[p] \in {"begin", "load", "train", "wait", "dir"}
             /\ pend'[p] = 0 /\ ~Alive(p)'
             /\ pc'[p] \in {"begin", "train", "wait", "dir"} => last'[p] = -1
  <2>1. /\ pc[p] \in {"begin", "load", "train", "wait", "dir"}
        /\ pend[p] = 0 /\ ~Alive(p)
        /\ pc[p] \in {"begin", "train", "wait", "dir"} => last[p] = -1
    BY <1>1 DEF Opening
  <2>2. /\ pc'[p] \in {"begin", "load", "train", "wait", "dir"}
        /\ pend'[p] = 0 /\ ~Alive(p)'
    BY <1>1, <2>1 DEF TypeOK, Alive, persist
  <2>3. ASSUME pc'[p] \in {"begin", "train", "wait", "dir"} PROVE last'[p] = -1
    <3>1. CASE p = r
      BY <1>1, <2>1, <2>3, <3>1 DEF TypeOK
    <3>2. CASE p # r
      BY <1>1, <2>1, <2>3, <3>2 DEF TypeOK
    <3> QED
      BY <3>1, <3>2
  <2> QED
    BY <2>2, <2>3
<1>10. Opening'
  BY <1>6, <1>7, <1>9 DEF Opening
<1> QED
  BY <1>3, <1>4, <1>5, <1>8, <1>10

LEMMA TrainStepInv ==
    ASSUME IInv, NEW r \in Rank, TrainStep(r)
    PROVE  IInv'
<1> USE CheckpointAssumption DEF TrainStep, IInv, trainer, persist, thread
<1>1. TypeOK'
  <2>1. pc' \in [Rank -> Loops]
    BY DEF TypeOK, Loops
  <2>2. gstep' \in [Rank -> 0 .. TrainSteps]
    BY DEF TypeOK
  <2>3. \A p \in Rank : /\ open'[p] => phase'[p] \in Writes
                        /\ phase'[p] \in {"data", "put"} => pend'[p] # 0
    BY DEF TypeOK, Saves, Alive, InChild, Phases, Writes
  <2> QED
    BY <2>1, <2>2, <2>3 DEF TypeOK, InChild
<1>2. Saves'
  BY DEF TypeOK, Saves, Alive, InChild, Writes
<1>3. NoLostResult'
  BY DEF TypeOK, NoLostResult, Saves, Alive, InChild
<1>4. FindLatest' = FindLatest \/ \A p \in Rank : pc'[p] # "begin"
  BY DEF FindLatest, LargestComplete, IsComplete, Opening, TypeOK
<1>5. Opening' /\ SameStart'
  BY <1>4 DEF Opening, SameStart, TypeOK, Alive, InChild, Saves
<1> QED
  BY <1>1, <1>2, <1>3, <1>5

LEMMA TrainEndInv ==
    ASSUME IInv, NEW r \in Rank, TrainEnd(r)
    PROVE  IInv'
<1> USE CheckpointAssumption DEF TrainEnd, IInv, trainer, persist, thread
<1>1. TypeOK'
  BY DEF TypeOK, Saves, Alive, InChild, Loops, Phases, Writes
<1>2. Saves'
  BY DEF TypeOK, Saves, Alive, InChild, Writes
<1>3. NoLostResult'
  BY DEF TypeOK, NoLostResult, Saves, Alive, InChild
<1>4. FindLatest' = FindLatest \/ \A p \in Rank : pc'[p] # "begin"
  BY DEF FindLatest, LargestComplete, IsComplete, Opening, TypeOK
<1>5. Opening' /\ SameStart'
  BY <1>4 DEF Opening, SameStart, TypeOK, Alive, InChild, Saves
<1> QED
  BY <1>1, <1>2, <1>3, <1>5

LEMMA MaybeWaitInv ==
    ASSUME IInv, NEW r \in Rank, MaybeWait(r)
    PROVE  IInv'
<1> USE CheckpointAssumption DEF MaybeWait, AfterWait, IInv, trainer, persist, thread
<1>1. TypeOK'
  <2>1. pc' \in [Rank -> Loops]
    BY DEF TypeOK, Loops
  <2>2. pend' \in [Rank -> 0 .. TrainSteps]
    BY DEF TypeOK
  <2>3. fut' \in [Rank -> {"none", "pending", "ok", "failed"}]
    BY DEF TypeOK
  <2>4. \A p \in Rank : /\ open'[p] => phase'[p] \in Writes
                        /\ phase'[p] \in {"data", "put"} => pend'[p] # 0
    BY DEF TypeOK, Saves, Alive, InChild, Phases, Writes
  <2> QED
    BY <2>1, <2>2, <2>3, <2>4 DEF TypeOK, InChild
<1>2. Saves'
  BY DEF TypeOK, Saves, Alive, InChild, Writes
<1>3. NoLostResult'
  BY DEF TypeOK, NoLostResult, Saves, Alive, InChild
<1>4. FindLatest' = FindLatest \/ \A p \in Rank : pc'[p] # "begin"
  BY DEF FindLatest, LargestComplete, IsComplete, Opening, TypeOK
<1>5. Opening' /\ SameStart'
  BY <1>4 DEF Opening, SameStart, TypeOK, Alive, InChild, Saves
<1> QED
  BY <1>1, <1>2, <1>3, <1>5

LEMMA OpenExtraInv ==
    ASSUME IInv, NEW r \in Rank, OpenExtra(r)
    PROVE  IInv'
<1> USE CheckpointAssumption DEF OpenExtra, Torn, InChild, IInv, trainer, persist, thread
<1>1. TypeOK'
  <2>1. pc' \in [Rank -> Loops]
    BY DEF TypeOK, Loops
  <2>2. disk' \in [Kinds -> [Dir -> [Rank -> File]]]
    BY WriteType, FileValues DEF IInv
  <2>3. \A p \in Rank : /\ open'[p] => phase'[p] \in Writes
                        /\ phase'[p] \in {"data", "put"} => pend'[p] # 0
    BY DEF TypeOK, Saves, Alive, InChild, Phases, Writes
  <2> QED
    BY <2>1, <2>2, <2>3 DEF TypeOK, InChild
<1>2. Saves'
  BY DEF TypeOK, Saves, Alive, InChild, Writes
<1>3. NoLostResult'
  BY DEF TypeOK, NoLostResult, Saves, Alive, InChild
<1>4. FindLatest' = FindLatest \/ \A p \in Rank : pc'[p] # "begin"
  BY DEF FindLatest, LargestComplete, IsComplete, Opening, TypeOK
<1>5. Opening' /\ SameStart'
  BY <1>4 DEF Opening, SameStart, TypeOK, Alive, InChild, Saves
<1> QED
  BY <1>1, <1>2, <1>3, <1>5

LEMMA DispatchInv ==
    ASSUME IInv, NEW r \in Rank, Dispatch(r)
    PROVE  IInv'
<1> USE CheckpointAssumption DEF IInv
<1>1. /\ pc[r] = "extra_w"
      /\ phase' = [phase EXCEPT ![r] = FirstPhase(r)]
      /\ got' = [got EXCEPT ![r] = {}]
      /\ UNCHANGED << life, fresh, faults, gstep, start, open, cache, ptr >>
      /\ \/ /\ pc' = [pc EXCEPT ![r] = "persist"]
            /\ UNCHANGED << pend, last, fut, queue, join >>
         \/ /\ pc' = [pc EXCEPT ![r] = "train"]
            /\ pend' = [pend EXCEPT ![r] = gstep[r]]
            /\ last' = [last EXCEPT ![r] = gstep[r]]
            /\ fut' = [fut EXCEPT ![r] = "pending"]
            /\ queue' = [queue EXCEPT ![r] = "empty"]
            /\ join' = [join EXCEPT ![r] = "poll"]
  BY DEF Dispatch
<1>2. FirstPhase(r) \in {"shard", "plans", "plan"}
  BY DEF FirstPhase
<1>3. pend[r] = 0 /\ gstep[r] # 0 /\ ~open[r]
  BY <1>1 DEF Saves, TypeOK, InChild, Alive, Writes
<1>4. TypeOK'
  <2>1. disk' \in [Kinds -> [Dir -> [Rank -> File]]]
    BY WriteType, FileValues DEF Dispatch
  <2>2. pc' \in [Rank -> Loops]
    BY <1>1 DEF TypeOK, Loops
  <2>3. phase' \in [Rank -> Phases] /\ got' \in [Rank -> SUBSET Rank]
    BY <1>1, <1>2 DEF TypeOK, Phases
  <2>4. pend' \in [Rank -> 0 .. TrainSteps]
    BY <1>1 DEF TypeOK
  <2>5. last' \in [Rank -> -1 .. TrainSteps]
    BY <1>1 DEF TypeOK
  <2>6. fut' \in [Rank -> {"none", "pending", "ok", "failed"}]
    BY <1>1 DEF TypeOK
  <2>7. join' \in [Rank -> {"none", "poll", "empty"}]
    BY <1>1 DEF TypeOK
  <2>8. queue' \in [Rank -> {"empty", "success", "failure"}]
    BY <1>1 DEF TypeOK
  <2>9. \A p \in Rank : /\ open'[p] => phase'[p] \in Writes
                        /\ phase'[p] \in {"data", "put"} => pend'[p] # 0
    BY <1>1, <1>2, <1>3 DEF TypeOK, InChild
  <2> QED
    BY <1>1, <2>1, <2>2, <2>3, <2>4, <2>5, <2>6, <2>7, <2>8, <2>9 DEF TypeOK, InChild
<1>5. Saves'
  BY <1>1, <1>3 DEF TypeOK, Saves, Alive, InChild
<1>6. NoLostResult'
  BY <1>1 DEF TypeOK, NoLostResult
<1>7. \A p \in Rank : pc[p] # "begin" /\ pc'[p] # "begin"
  <2>1. \A p \in Rank : pc[p] # "begin"
    BY <1>1 DEF Opening
  <2> QED
    BY <1>1, <2>1 DEF TypeOK
<1>8. Opening' /\ SameStart'
  BY <1>1, <1>7 DEF Opening, SameStart
<1> QED
  BY <1>4, <1>5, <1>6, <1>8

LEMMA OpenFileInv ==
    ASSUME IInv, NEW r \in Rank, OpenFile(r)
    PROVE  IInv'
<1> USE CheckpointAssumption DEF OpenFile, Torn, IInv, trainer, persist, thread
<1>1. TypeOK'
  <2>1. disk' \in [Kinds -> [Dir -> [Rank -> File]]]
    BY WriteType, FileValues DEF IInv
  <2>2. open' \in [Rank -> BOOLEAN]
    BY DEF TypeOK
  <2>3. \A p \in Rank : /\ open'[p] => phase'[p] \in Writes
                        /\ phase'[p] \in {"data", "put"} => pend'[p] # 0
    BY DEF TypeOK, Saves, Alive, InChild, Phases, Writes
  <2> QED
    BY <2>1, <2>2, <2>3 DEF TypeOK, InChild
<1>2. Saves'
  BY DEF TypeOK, Saves, Alive, InChild, Writes
<1>3. NoLostResult'
  BY DEF TypeOK, NoLostResult, Saves, Alive, InChild
<1>4. Alive(r)
  BY DEF TypeOK, Alive, Writes
<1>5. \A p \in Rank : pc[p] # "begin" /\ pc'[p] # "begin"
  BY <1>4 DEF Opening, TypeOK
<1>6. Opening' /\ SameStart'
  BY <1>5 DEF Opening, SameStart
<1> QED
  BY <1>1, <1>2, <1>3, <1>6

LEMMA CloseFileInv ==
    ASSUME IInv, NEW r \in Rank, CloseFile(r)
    PROVE  IInv'
<1> USE CheckpointAssumption DEF CloseFile, AfterWrite, Whole, IInv, trainer, persist, thread
<1>1. TypeOK'
  <2>1. disk' \in [Kinds -> [Dir -> [Rank -> File]]]
    BY WriteType, FileValues DEF IInv
  <2>2. open' \in [Rank -> BOOLEAN]
    BY DEF TypeOK
  <2>3. phase' \in [Rank -> Phases]
    <3>1. phase[r] \in Writes
      BY DEF TypeOK
    <3>2. AfterWrite(r) \in Phases /\ phase' = [phase EXCEPT ![r] = AfterWrite(r)]
      BY <3>1 DEF Writes, Phases
    <3> HIDE DEF AfterWrite, CloseFile
    <3> QED
      BY <3>2 DEF TypeOK
  <2>4. \A p \in Rank : /\ open'[p] => phase'[p] \in Writes
                        /\ phase'[p] \in {"data", "put"} => pend'[p] # 0
    BY DEF TypeOK, Saves, Alive, InChild, Phases, Writes
  <2> QED
    BY <2>1, <2>2, <2>3, <2>4 DEF TypeOK, InChild
<1>2. Saves'
  BY DEF TypeOK, Saves, Alive, InChild, Writes
<1>3. NoLostResult'
  BY DEF TypeOK, NoLostResult, Saves, Alive, InChild
<1>4. Alive(r)
  BY DEF TypeOK, Alive, Writes
<1>5. \A p \in Rank : pc[p] # "begin" /\ pc'[p] # "begin"
  BY <1>4 DEF Opening, TypeOK
<1>6. Opening' /\ SameStart'
  BY <1>5 DEF Opening, SameStart
<1> QED
  BY <1>1, <1>2, <1>3, <1>6

LEMMA ReadFileInv ==
    ASSUME IInv, NEW r \in Rank, NEW q \in Rank, ReadFile(r, q)
    PROVE  IInv'
<1> USE CheckpointAssumption DEF ReadFile, Missing, IInv, trainer, persist, thread
<1>1. TypeOK'
  <2>1. disk' \in [Kinds -> [Dir -> [Rank -> File]]]
    BY WriteType, FileValues DEF IInv
  <2>2. got' \in [Rank -> SUBSET Rank]
    BY DEF TypeOK
  <2>3. \A p \in Rank : /\ open'[p] => phase'[p] \in Writes
                        /\ phase'[p] \in {"data", "put"} => pend'[p] # 0
    BY DEF TypeOK, Saves, Alive, InChild, Phases, Writes
  <2> QED
    BY <2>1, <2>2, <2>3 DEF TypeOK, InChild
<1>2. Saves'
  BY DEF TypeOK, Saves, Alive, InChild, Writes
<1>3. NoLostResult'
  BY DEF TypeOK, NoLostResult, Saves, Alive, InChild
<1>4. FindLatest' = FindLatest \/ \A p \in Rank : pc'[p] # "begin"
  BY DEF FindLatest, LargestComplete, IsComplete, Opening, TypeOK
<1>5. Opening' /\ SameStart'
  BY <1>4 DEF Opening, SameStart, TypeOK, Alive, InChild, Saves
<1> QED
  BY <1>1, <1>2, <1>3, <1>5

LEMMA GatheredInv ==
    ASSUME IInv, NEW r \in Rank, Gathered(r)
    PROVE  IInv'
<1> USE CheckpointAssumption DEF Gathered, IInv, trainer, persist, thread
<1>1. TypeOK'
  BY DEF TypeOK, Saves, Alive, InChild, Loops, Phases, Writes
<1>2. Saves'
  BY DEF TypeOK, Saves, Alive, InChild, Writes
<1>3. NoLostResult'
  BY DEF TypeOK, NoLostResult, Saves, Alive, InChild
<1>4. FindLatest' = FindLatest \/ \A p \in Rank : pc'[p] # "begin"
  BY DEF FindLatest, LargestComplete, IsComplete, Opening, TypeOK
<1>5. Opening' /\ SameStart'
  BY <1>4 DEF Opening, SameStart, TypeOK, Alive, InChild, Saves
<1> QED
  BY <1>1, <1>2, <1>3, <1>5

LEMMA GatherTimeoutInv ==
    ASSUME IInv, NEW r \in Rank, GatherTimeout(r)
    PROVE  IInv'
<1> USE CheckpointAssumption DEF GatherTimeout, FailChild, IInv, trainer, persist, thread
<1>1. TypeOK'
  BY DEF TypeOK, Saves, Alive, InChild, Loops, Phases, Writes
<1>2. Saves'
  BY DEF TypeOK, Saves, Alive, InChild, Writes
<1>3. NoLostResult'
  BY DEF TypeOK, NoLostResult, Saves, Alive, InChild
<1>4. FindLatest' = FindLatest \/ \A p \in Rank : pc'[p] # "begin"
  BY DEF FindLatest, LargestComplete, IsComplete, Opening, TypeOK
<1>5. Opening' /\ SameStart'
  BY <1>4 DEF Opening, SameStart, TypeOK, Alive, InChild, Saves
<1> QED
  BY <1>1, <1>2, <1>3, <1>5

LEMMA PutResultInv ==
    ASSUME IInv, NEW r \in Rank, PutResult(r)
    PROVE  IInv'
<1> USE CheckpointAssumption DEF PutResult, IInv, trainer, persist, thread
<1>1. TypeOK'
  BY DEF TypeOK, Saves, Alive, InChild, Loops, Phases, Writes
<1>2. Saves'
  BY DEF TypeOK, Saves, Alive, InChild, Writes
<1>3. NoLostResult'
  BY DEF TypeOK, NoLostResult, Saves, Alive, InChild
<1>4. FindLatest' = FindLatest \/ \A p \in Rank : pc'[p] # "begin"
  BY DEF FindLatest, LargestComplete, IsComplete, Opening, TypeOK
<1>5. Opening' /\ SameStart'
  BY <1>4 DEF Opening, SameStart, TypeOK, Alive, InChild, Saves
<1> QED
  BY <1>1, <1>2, <1>3, <1>5

LEMMA WriteFailsInv ==
    ASSUME IInv, NEW r \in Rank, WriteFails(r)
    PROVE  IInv'
<1> USE CheckpointAssumption DEF WriteFails, FailChild, IInv, trainer, persist, thread
<1>1. TypeOK'
  <2>1. faults' \in 0 .. MaxFault
    BY DEF TypeOK
  <2>2. queue' \in [Rank -> {"empty", "success", "failure"}]
    BY DEF TypeOK
  <2>3. phase' \in [Rank -> Phases]
    BY DEF TypeOK, Phases
  <2>4. open' \in [Rank -> BOOLEAN]
    BY DEF TypeOK
  <2>5. pc' \in [Rank -> Loops]
    BY DEF TypeOK, Loops
  <2>6. \A p \in Rank : /\ open'[p] => phase'[p] \in Writes
                        /\ phase'[p] \in {"data", "put"} => pend'[p] # 0
    BY DEF TypeOK, Saves, Alive, InChild, Phases, Writes
  <2> QED
    BY <2>1, <2>2, <2>3, <2>4, <2>5, <2>6 DEF TypeOK, InChild
<1>2. Saves'
  BY DEF TypeOK, Saves, Alive, InChild, Writes
<1>3. NoLostResult'
  BY DEF TypeOK, NoLostResult, Saves, Alive, InChild
<1>4. Alive(r)
  BY DEF TypeOK, Alive, Writes
<1>5. \A p \in Rank : pc[p] # "begin" /\ pc'[p] # "begin"
  BY <1>4 DEF Opening, TypeOK
<1>6. Opening' /\ SameStart'
  BY <1>5 DEF Opening, SameStart
<1> QED
  BY <1>1, <1>2, <1>3, <1>6

LEMMA ExtraFailsInv ==
    ASSUME IInv, NEW r \in Rank, ExtraFails(r)
    PROVE  IInv'
<1> USE CheckpointAssumption DEF ExtraFails, IInv, trainer, persist, thread
<1>1. TypeOK'
  <2>1. faults' \in 0 .. MaxFault
    BY DEF TypeOK
  <2>2. pc' \in [Rank -> Loops]
    BY DEF TypeOK, Loops
  <2>3. \A p \in Rank : /\ open'[p] => phase'[p] \in Writes
                        /\ phase'[p] \in {"data", "put"} => pend'[p] # 0
    BY DEF TypeOK, Saves, Alive, InChild, Phases, Writes
  <2> QED
    BY <2>1, <2>2, <2>3 DEF TypeOK, InChild
<1>2. Saves'
  BY DEF TypeOK, Saves, Alive, InChild, Writes
<1>3. NoLostResult'
  BY DEF TypeOK, NoLostResult, Saves, Alive, InChild
<1>4. FindLatest' = FindLatest \/ \A p \in Rank : pc'[p] # "begin"
  BY DEF FindLatest, LargestComplete, IsComplete, Opening, TypeOK
<1>5. Opening' /\ SameStart'
  BY <1>4 DEF Opening, SameStart, TypeOK, Alive, InChild, Saves
<1> QED
  BY <1>1, <1>2, <1>3, <1>5

LEMMA ChildDiesInv ==
    ASSUME IInv, NEW r \in Rank, ChildDies(r)
    PROVE  IInv'
<1> USE CheckpointAssumption DEF ChildDies, IInv, trainer, persist, thread
<1>1. TypeOK'
  <2>1. faults' \in 0 .. MaxFault
    BY DEF TypeOK
  <2>2. phase' \in [Rank -> Phases]
    BY DEF TypeOK, Phases
  <2>3. open' \in [Rank -> BOOLEAN]
    BY DEF TypeOK
  <2>4. \A p \in Rank : /\ open'[p] => phase'[p] \in Writes
                        /\ phase'[p] \in {"data", "put"} => pend'[p] # 0
    BY DEF TypeOK, Saves, Alive, InChild, Phases, Writes
  <2> QED
    BY <2>1, <2>2, <2>3, <2>4 DEF TypeOK, InChild
<1>2. Saves'
  BY DEF TypeOK, Saves, Alive, InChild, Writes
<1>3. NoLostResult'
  BY DEF TypeOK, NoLostResult, Saves, Alive, InChild
<1>4. FindLatest' = FindLatest \/ \A p \in Rank : pc'[p] # "begin"
  BY DEF FindLatest, LargestComplete, IsComplete, Opening, TypeOK
<1>5. Opening' /\ SameStart'
  BY <1>4 DEF Opening, SameStart, TypeOK, Alive, InChild, Saves
<1> QED
  BY <1>1, <1>2, <1>3, <1>5

LEMMA JoinTakesInv ==
    ASSUME IInv, NEW r \in Rank, JoinTakes(r)
    PROVE  IInv'
<1> USE CheckpointAssumption DEF JoinTakes, Resolve, IInv, trainer, persist, thread
<1>1. TypeOK'
  <2>1. join' \in [Rank -> {"none", "poll", "empty"}]
    BY DEF TypeOK
  <2>2. fut' \in [Rank -> {"none", "pending", "ok", "failed"}]
    BY DEF TypeOK
  <2>3. cache' \in [Rank -> SUBSET Names]
    <3>1. cache \in [Rank -> SUBSET Names]
      BY DEF TypeOK
    <3>2. cache[r] \cup {Keys(r, SaveStep(r))} \in SUBSET Names
      BY CacheType
    <3> HIDE DEF IInv
    <3> QED
      BY <3>1, <3>2
  <2>4. \A p \in Rank : /\ open'[p] => phase'[p] \in Writes
                        /\ phase'[p] \in {"data", "put"} => pend'[p] # 0
    BY DEF TypeOK, Saves, Alive, InChild, Phases, Writes
  <2> QED
    BY <2>1, <2>2, <2>3, <2>4 DEF TypeOK, InChild
<1>2. Saves'
  BY DEF TypeOK, Saves, Alive, InChild, Writes
<1>3. NoLostResult'
  BY DEF TypeOK, NoLostResult, Saves, Alive, InChild
<1>4. FindLatest' = FindLatest \/ \A p \in Rank : pc'[p] # "begin"
  BY DEF FindLatest, LargestComplete, IsComplete, Opening, TypeOK
<1>5. Opening' /\ SameStart'
  BY <1>4 DEF Opening, SameStart, TypeOK, Alive, InChild, Saves
<1> QED
  BY <1>1, <1>2, <1>3, <1>5

LEMMA JoinTimesOutInv ==
    ASSUME IInv, NEW r \in Rank, JoinTimesOut(r)
    PROVE  IInv'
<1> USE CheckpointAssumption DEF JoinTimesOut, IInv, trainer, persist, thread
<1>1. TypeOK'
  BY DEF TypeOK, Saves, Alive, InChild, Loops, Phases, Writes
<1>2. Saves'
  BY DEF TypeOK, Saves, Alive, InChild, Writes
<1>3. NoLostResult'
  BY DEF TypeOK, NoLostResult, Saves, Alive, InChild
<1>4. FindLatest' = FindLatest \/ \A p \in Rank : pc'[p] # "begin"
  BY DEF FindLatest, LargestComplete, IsComplete, Opening, TypeOK
<1>5. Opening' /\ SameStart'
  BY <1>4 DEF Opening, SameStart, TypeOK, Alive, InChild, Saves
<1> QED
  BY <1>1, <1>2, <1>3, <1>5

LEMMA JoinAsksAgainInv ==
    ASSUME IInv, NEW r \in Rank, JoinAsksAgain(r)
    PROVE  IInv'
<1> USE CheckpointAssumption DEF JoinAsksAgain, IInv, trainer, persist, thread
<1>1. TypeOK'
  BY DEF TypeOK, Saves, Alive, InChild, Loops, Phases, Writes
<1>2. Saves'
  BY DEF TypeOK, Saves, Alive, InChild, Writes
<1>3. NoLostResult'
  BY DEF TypeOK, NoLostResult, Saves, Alive, InChild
<1>4. FindLatest' = FindLatest \/ \A p \in Rank : pc'[p] # "begin"
  BY DEF FindLatest, LargestComplete, IsComplete, Opening, TypeOK
<1>5. Opening' /\ SameStart'
  BY <1>4 DEF Opening, SameStart, TypeOK, Alive, InChild, Saves
<1> QED
  BY <1>1, <1>2, <1>3, <1>5

LEMMA JoinLooksAgainInv ==
    ASSUME IInv, NEW r \in Rank, JoinLooksAgain(r)
    PROVE  IInv'
<1> USE CheckpointAssumption DEF JoinLooksAgain, Resolve, IInv, trainer, persist, thread
<1>1. TypeOK'
  <2>1. join' \in [Rank -> {"none", "poll", "empty"}]
    BY DEF TypeOK
  <2>2. fut' \in [Rank -> {"none", "pending", "ok", "failed"}]
    BY DEF TypeOK
  <2>3. cache' \in [Rank -> SUBSET Names]
    <3>1. cache \in [Rank -> SUBSET Names]
      BY DEF TypeOK
    <3>2. cache[r] \cup {Keys(r, SaveStep(r))} \in SUBSET Names
      BY CacheType
    <3> HIDE DEF IInv
    <3> QED
      BY <3>1, <3>2
  <2>4. \A p \in Rank : /\ open'[p] => phase'[p] \in Writes
                        /\ phase'[p] \in {"data", "put"} => pend'[p] # 0
    BY DEF TypeOK, Saves, Alive, InChild, Phases, Writes
  <2> QED
    BY <2>1, <2>2, <2>3, <2>4 DEF TypeOK, InChild
<1>2. Saves'
  BY DEF TypeOK, Saves, Alive, InChild, Writes
<1>3. NoLostResult'
  BY DEF TypeOK, NoLostResult, Saves, Alive, InChild
<1>4. FindLatest' = FindLatest \/ \A p \in Rank : pc'[p] # "begin"
  BY DEF FindLatest, LargestComplete, IsComplete, Opening, TypeOK
<1>5. Opening' /\ SameStart'
  BY <1>4 DEF Opening, SameStart, TypeOK, Alive, InChild, Saves
<1> QED
  BY <1>1, <1>2, <1>3, <1>5

LEMMA OpenPointerInv ==
    ASSUME IInv, OpenPointer
    PROVE  IInv'
<1> USE CheckpointAssumption DEF OpenPointer, IInv, trainer, persist, thread
<1>1. TypeOK'
  <2>1. ptr' \in 0 .. TrainSteps
    BY DEF TypeOK
  <2>2. pc' \in [Rank -> Loops]
    BY DEF TypeOK, Loops
  <2>3. \A p \in Rank : /\ open'[p] => phase'[p] \in Writes
                        /\ phase'[p] \in {"data", "put"} => pend'[p] # 0
    BY DEF TypeOK, Saves, Alive, InChild, Phases, Writes
  <2> QED
    BY <2>1, <2>2, <2>3 DEF TypeOK, InChild
<1>2. Saves'
  BY DEF TypeOK, Saves, Alive, InChild, Writes
<1>3. NoLostResult'
  BY DEF TypeOK, NoLostResult, Saves, Alive, InChild
<1>4. FindLatest' = FindLatest \/ \A p \in Rank : pc'[p] # "begin"
  BY DEF FindLatest, LargestComplete, IsComplete, Opening, TypeOK
<1>5. Opening' /\ SameStart'
  BY <1>4 DEF Opening, SameStart, TypeOK, Alive, InChild, Saves
<1> QED
  BY <1>1, <1>2, <1>3, <1>5

LEMMA WritePointerInv ==
    ASSUME IInv, WritePointer
    PROVE  IInv'
<1> USE CheckpointAssumption DEF WritePointer, SaveStep, IInv, trainer, persist, thread
<1>1. TypeOK'
  <2>1. ptr' \in 0 .. TrainSteps
    BY DEF TypeOK
  <2>2. pc' \in [Rank -> Loops]
    BY DEF TypeOK, Loops
  <2>3. \A p \in Rank : /\ open'[p] => phase'[p] \in Writes
                        /\ phase'[p] \in {"data", "put"} => pend'[p] # 0
    BY DEF TypeOK, Saves, Alive, InChild, Phases, Writes
  <2> QED
    BY <2>1, <2>2, <2>3 DEF TypeOK, InChild
<1>2. Saves'
  BY DEF TypeOK, Saves, Alive, InChild, Writes
<1>3. NoLostResult'
  BY DEF TypeOK, NoLostResult, Saves, Alive, InChild
<1>4. FindLatest' = FindLatest \/ \A p \in Rank : pc'[p] # "begin"
  BY DEF FindLatest, LargestComplete, IsComplete, Opening, TypeOK
<1>5. Opening' /\ SameStart'
  BY <1>4 DEF Opening, SameStart, TypeOK, Alive, InChild, Saves
<1> QED
  BY <1>1, <1>2, <1>3, <1>5

LEMMA CollectiveInv ==
    ASSUME IInv, Collective
    PROVE  IInv'
<1> USE CheckpointAssumption DEF Collective, AfterCollective, AfterWait, InCollective, IInv, trainer, persist, thread
<1>1. TypeOK'
  <2>1. pc' \in [Rank -> Loops]
    BY DEF TypeOK, Loops
  <2>2. phase' \in [Rank -> Phases]
    BY DEF TypeOK, Phases
  <2>3. cache' \in [Rank -> SUBSET Names]
    <3>1. \A r \in Rank : /\ cache[r] \in SUBSET Names
                          /\ cache[r] \cup {Keys(r, SaveStep(r))} \in SUBSET Names
      BY CacheType DEF TypeOK
    <3>2. cache' = [r \in Rank |->
             IF pc[r] = "persist" /\ phase[r] = "plans" /\ ~Chokes(r)
             THEN cache[r] \cup {Keys(r, SaveStep(r))} ELSE cache[r]]
      OBVIOUS
    <3> HIDE DEF IInv, Collective
    <3> QED
      BY <3>1, <3>2
  <2>4. last' \in [Rank -> -1 .. TrainSteps]
    BY DEF TypeOK
  <2>5. pend' \in [Rank -> 0 .. TrainSteps]
    BY DEF TypeOK
  <2>6. fut' \in [Rank -> {"none", "pending", "ok", "failed"}]
    BY DEF TypeOK
  <2>7. \A p \in Rank : /\ open'[p] => phase'[p] \in Writes
                        /\ phase'[p] \in {"data", "put"} => pend'[p] # 0
    BY DEF TypeOK, Saves, Alive, InChild, Phases, Writes
  <2> QED
    BY <2>1, <2>2, <2>3, <2>4, <2>5, <2>6, <2>7 DEF TypeOK, InChild
<1>2. Saves'
  BY DEF TypeOK, Saves, Alive, InChild, Writes
<1>3. NoLostResult'
  BY DEF TypeOK, NoLostResult, Saves, Alive, InChild
<1>4. FindLatest' = FindLatest \/ \A p \in Rank : pc'[p] # "begin"
  BY DEF FindLatest, LargestComplete, IsComplete, Opening, TypeOK
<1>5. Opening' /\ SameStart'
  BY <1>4 DEF Opening, SameStart, TypeOK, Alive, InChild, Saves
<1> QED
  BY <1>1, <1>2, <1>3, <1>5

LEMMA CrashInv ==
    ASSUME IInv, Crash
    PROVE  IInv'
<1> USE CheckpointAssumption DEF Crash, IInv, trainer, persist, thread
<1>1. TypeOK'
  <2>1. life' \in 1 .. MaxLife
    BY DEF TypeOK
  <2>2. pc' \in [Rank -> Loops]
    BY DEF TypeOK, Loops
  <2>3. gstep' \in [Rank -> 0 .. TrainSteps]
    BY DEF TypeOK
  <2>4. last' \in [Rank -> -1 .. TrainSteps]
    BY DEF TypeOK
  <2>5. start' \in [Rank -> -1 .. TrainSteps]
    BY DEF TypeOK
  <2>6. pend' \in [Rank -> 0 .. TrainSteps]
    BY DEF TypeOK
  <2>7. fut' \in [Rank -> {"none", "pending", "ok", "failed"}]
    BY DEF TypeOK
  <2>8. cache' \in [Rank -> SUBSET Names]
    BY DEF TypeOK
  <2>9. phase' \in [Rank -> Phases]
    BY DEF TypeOK, Phases
  <2>10. open' \in [Rank -> BOOLEAN]
    BY DEF TypeOK
  <2>11. got' \in [Rank -> SUBSET Rank]
    BY DEF TypeOK
  <2>12. queue' \in [Rank -> {"empty", "success", "failure"}]
    BY DEF TypeOK
  <2>13. join' \in [Rank -> {"none", "poll", "empty"}]
    BY DEF TypeOK
  <2>14. \A p \in Rank : /\ open'[p] => phase'[p] \in Writes
                        /\ phase'[p] \in {"data", "put"} => pend'[p] # 0
    BY DEF TypeOK, Saves, Alive, InChild, Phases, Writes
  <2>15. fresh' \in [Rank -> Names]
    <3>1. fresh' \in Growth \/ fresh' = [r \in Rank |-> {}]
      BY DEF NextGrowth
    <3> QED
      BY <3>1, GrowthAssumption DEF Names, Dir
  <2> QED
    BY <2>1, <2>2, <2>3, <2>4, <2>5, <2>6, <2>7, <2>8, <2>9, <2>10, <2>11, <2>12, <2>13, <2>14,
       <2>15 DEF TypeOK, InChild
<1>2. Saves'
  BY DEF TypeOK, Saves, Alive, InChild, Writes
<1>3. NoLostResult'
  BY DEF TypeOK, NoLostResult, Saves, Alive, InChild
<1>4. FindLatest' = FindLatest \/ \A p \in Rank : pc'[p] # "begin"
  BY DEF FindLatest, LargestComplete, IsComplete, Opening, TypeOK
<1>5. Opening' /\ SameStart'
  BY <1>4 DEF Opening, SameStart, TypeOK, Alive, InChild, Saves
<1> QED
  BY <1>1, <1>2, <1>3, <1>5

LEMMA NextInv == IInv /\ [Next]_vars => IInv'
<1> SUFFICES ASSUME IInv, [Next]_vars PROVE IInv'
  OBVIOUS
<1>1. ASSUME NEW r \in Rank, Loop(r) PROVE IInv'
  BY <1>1, TrainBeginInv, TrainStepInv, TrainEndInv, MaybeWaitInv, OpenExtraInv, DispatchInv
  DEF Loop
<1>2. ASSUME NEW r \in Rank, SaveImpl(r) PROVE IInv'
  BY <1>2, OpenFileInv, CloseFileInv, ReadFileInv, GatheredInv, GatherTimeoutInv, PutResultInv
  DEF SaveImpl
<1>3. ASSUME NEW r \in Rank, JoinThread(r) PROVE IInv'
  BY <1>3, JoinTakesInv, JoinTimesOutInv, JoinAsksAgainInv, JoinLooksAgainInv DEF JoinThread
<1>4. ASSUME NEW r \in Rank, WriteFails(r) \/ ExtraFails(r) \/ ChildDies(r) PROVE IInv'
  BY <1>4, WriteFailsInv, ExtraFailsInv, ChildDiesInv
<1>5. CASE Collective \/ Publish \/ Crash
  BY <1>5, CollectiveInv, OpenPointerInv, WritePointerInv, CrashInv DEF Publish
<1>6. CASE UNCHANGED vars
  BY <1>6
  DEF IInv, vars, trainer, persist, thread, TypeOK, Saves, NoLostResult, Opening, SameStart,
      InChild, Alive, FindLatest, LargestComplete, IsComplete
<1> QED
  BY <1>1, <1>2, <1>3, <1>4, <1>5, <1>6 DEF Next

LEMMA Invariance == Spec => []IInv
<1> QED
  BY InitInv, NextInv, PTL DEF Spec

-----------------------------------------------------------------------------
(***************************************************************************)
(* Every variable of the checkpointing stays in its type, and the files    *)
(* through which a child meets its peers are written by children only.     *)
(***************************************************************************)
THEOREM TypeCorrect == Spec => []TypeOK
<1>1. IInv => TypeOK
  BY DEF IInv
<1> QED
  BY <1>1, Invariance, PTL

(***************************************************************************)
(* The thread of resolve_async_persist_result never reports as failed a    *)
(* save whose child has put a success, whenever its wait on the queue      *)
(* times out and whenever the child ends.                                  *)
(***************************************************************************)
THEOREM NeverLosesResult == Spec => []NoLostResult
<1>1. IInv => NoLostResult
  BY DEF IInv
<1> QED
  BY <1>1, Invariance, PTL

(***************************************************************************)
(* Every rank of a life of the job restores from the same checkpoint,      *)
(* although _resolve_restore_path runs on each rank without communication. *)
(***************************************************************************)
THEOREM RanksStartTogether == Spec => []SameStart
<1>1. IInv => SameStart
  BY DEF IInv
<1> QED
  BY <1>1, Invariance, PTL
=============================================================================
