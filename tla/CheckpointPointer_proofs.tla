---------------------- MODULE CheckpointPointer_proofs ----------------------
(***************************************************************************)
(* For any number of ranks, steps, lives and faults: the pointer is never  *)
(* over a checkpoint that is not whole, what a restart finds never goes    *)
(* back, ranks in a collective at the same time are in the same one, and a *)
(* plan a child waits for is there to be found.  The last two depend on    *)
(* the plan caches: they hold in full where the state dicts of the ranks   *)
(* grow together, and ranks whose state dicts do not are apart in the two  *)
(* gathers of a synchronous save and nowhere else.                         *)
(*                                                                         *)
(* The argument is a barrier argument.  Between two collectives a rank is  *)
(* in a stage, read off its own state, and about one checkpoint; the ranks *)
(* that have not raised agree on both, the two gathers taken as one        *)
(* (Together), and a collective moves them all.  What the disk and the     *)
(* pointer hold is then said per stage (Placed), and what a rank has       *)
(* written so far per rank (Shelved).                                      *)
(***************************************************************************)
EXTENDS CheckpointSave_proofs

NoSaveBetween(a, b) == \A e \in Dir : a < e /\ e < b => ~IsSave(e)

Publishing == {"point", "point_w", "fin2"}
Finalizing == {"fin1"} \cup Publishing
Up(r) == pc[r] # "raised"

\* The collective that a rank which has not raised enters next.
Stage(r) ==
    CASE pc[r] = "begin"                 -> IF FindLatest = 0 THEN "dir" ELSE "load"
      [] pc[r] = "load"                  -> "load"
      [] pc[r] \in {"train", "wait"}     -> IF pend[r] = 0 THEN "dir" ELSE "fin1"
      [] pc[r] \in {"dir", "done"}       -> "dir"
      [] pc[r] \in {"extra", "extra_w"}  -> IF ~Synchronous(gstep[r]) THEN "fin1"
                                            ELSE IF HasPlan(r, gstep[r])
                                            THEN "results" ELSE "plans"
      [] pc[r] = "persist"               -> IF phase[r] = "plans" THEN "plans"
                                            ELSE IF phase[r] \in {"shard", "results"}
                                            THEN "results" ELSE "saved"
      [] pc[r] = "fin1"                  -> "fin1"
      [] pc[r] \in Publishing            -> "fin2"
      [] OTHER                           -> "none"

\* The checkpoint the stage is about: the one saved last, or the one being saved.
Step(r) ==
    IF pc[r] = "begin" THEN IF FindLatest = 0 THEN -1 ELSE FindLatest
    ELSE IF Stage(r) \in {"load", "dir"} THEN last[r] ELSE SaveStep(r)

SaveStages == {"plans", "results", "saved", "fin1"}

\* The two all_gather_object of a synchronous save, between which the plan caches
\* choose: the only stages in which ranks can be at the same time.
Gathers == {"plans", "results"}

Together ==
    /\ \A r, q \in Rank : Up(r) /\ Up(q) =>
          /\ Stage(r) = Stage(q) \/ {Stage(r), Stage(q)} \subseteq Gathers
          /\ Step(r) = Step(q)
    /\ \A r, q \in Rank : Up(r) /\ Stage(r) = "fin2" => Up(q)

\* No rank trains past a step it has to save.
PacedAt(r) ==
    /\ pc[r] \notin {"begin", "raised"} =>
          last[r] <= gstep[r] /\ NoSaveBetween(last[r], gstep[r])
    /\ pc[r] = "load" => gstep[r] = last[r]
    /\ pc[r] = "train" => gstep[r] \in {0, last[r]} \/ gstep[r] % SaveSteps # 0
    /\ pc[r] \in {"wait", "dir", "extra", "extra_w", "persist"} \cup Finalizing =>
          IsSave(gstep[r])
    /\ pc[r] \in {"dir", "extra", "extra_w", "persist"} => last[r] < gstep[r]
    /\ pc[r] \in Finalizing /\ pend[r] = 0 => last[r] < gstep[r]

\* Which phases the two kinds of save have, and what a finished child has left.
PhasesAt(r) ==
    /\ pc[r] = "persist" => /\ Synchronous(gstep[r])
                            /\ phase[r] \in {"plans", "shard", "results", "meta", "saved"}
                            /\ phase[r] = "plans" <=> ~HasPlan(r, gstep[r])
    /\ pc[r] \in Finalizing /\ pend[r] = 0 => Synchronous(gstep[r])
    /\ phase[r] = "meta" => r = Coord
    /\ phase[r] = "results" /\ InChild(r) => r = Coord
    /\ InChild(r) => /\ last[r] = pend[r] /\ ~Synchronous(pend[r])
                     /\ phase[r] \notin {"none", "saved"}
                     /\ fut[r] = "ok" => queue[r] = "success" /\ HasPlan(r, pend[r])
                     /\ pc[r] \in Finalizing => fut[r] = "ok"

Mine(k, r) == disk[k][SaveStep(r)][r] = Whole

ExtraDone(r) == pc[r] = "persist" \/ pc[r] \in Finalizing \/ InChild(r)

ShardDone(r) ==
    \/ pc[r] = "persist" /\ phase[r] \in {"results", "meta", "saved"}
    \/ pc[r] \in Finalizing
    \/ InChild(r) /\ (phase[r] \in {"data", "results", "meta", "put"} \/ queue[r] = "success")

MetaDone(r) ==
    \/ pc[r] = "persist" /\ phase[r] = "saved"
    \/ pc[r] \in Finalizing
    \/ InChild(r) /\ (phase[r] = "put" \/ queue[r] = "success")

\* What a rank has written of the checkpoint it saves is there, whole and of this life.
ShelvedAt(r) ==
    /\ ExtraDone(r) => Mine("extra", r)
    /\ ShardDone(r) => Mine("shard", r)
    /\ r = Coord /\ MetaDone(r) => Mine("meta", r)

Before(d) == ptr # 0 => ptr < d /\ NoSaveBetween(ptr, d)
AllUpTo(d) == \A e \in Dir : IsComplete(e) => e <= d
NextAtMost(d) == \A e \in Dir : IsComplete(e) => NoSaveBetween(d, e)

\* Where the pointer and the complete directories are, seen from a rank: what is
\* complete beyond the pointer is at most the save that comes next.
PlacedAt(r) ==
    /\ Stage(r) \in {"load", "dir"} => ptr \in {0, Step(r)} /\ NextAtMost(Step(r))
    /\ Stage(r) \in SaveStages => Before(Step(r)) /\ AllUpTo(Step(r))
    /\ Stage(r) = "fin2" => AllUpTo(Step(r))

Placed ==
    /\ ptr # 0 => NextAtMost(ptr)
    /\ \A r \in Rank : Up(r) => PlacedAt(r)
    /\ pc[Coord] = "point" => Before(Step(Coord))
    /\ pc[Coord] = "point_w" => ptr = 0
    /\ pc[Coord] = "fin2" => ptr = Step(Coord)

Planning(r) == InChild(r) /\ phase[r] \in {"plan", "plans"}
Planned(r) == InChild(r) /\ phase[r] \in {"plans", "shard", "data", "results", "put", "meta"}
Idle(r) == Up(r) /\ ~InChild(r)

\* The plan of these keys is what the child of the rank may have brought.
Brings(r, d) == InChild(r) /\ Keys(r, d) = Keys(r, pend[r])

\* Where the state dicts grow together, the ranks of a save take their plan from the
\* cache together or not at all.
PlanCached ==
    KeysComeTogether =>
        /\ \A r, q \in Rank, d \in SaveDirs : Up(r) /\ Up(q) =>
              (HasPlan(r, d) <=> HasPlan(q, d)) \/ Brings(r, d) \/ Brings(q, d)
        /\ \A r \in Rank : Planning(r) =>
              /\ ~HasPlan(r, pend[r])
              /\ \A q \in Rank : Idle(q) => ~HasPlan(q, pend[r])
        /\ \A r \in Rank : Planned(r) =>
              \/ disk["plan"][pend[r]][r].whole
              \/ \A q \in Rank : ~Planning(q) /\ (Idle(q) => HasPlan(q, pend[r]))

Ranks == \A r \in Rank : PacedAt(r) /\ PhasesAt(r) /\ ShelvedAt(r)

WInv == Together /\ Ranks /\ Placed /\ PlanCached /\ PointerWhole

-----------------------------------------------------------------------------
(***************************************************************************)
(* What the steps of one rank leave alone                                  *)
(***************************************************************************)
\* The other ranks' own state, and how the state dicts grow.
Others(r) ==
    /\ fresh' = fresh
    /\ \A p \in Rank \ {r} :
        /\ pc'[p] = pc[p] /\ gstep'[p] = gstep[p] /\ last'[p] = last[p]
        /\ pend'[p] = pend[p] /\ fut'[p] = fut[p] /\ cache'[p] = cache[p]
        /\ phase'[p] = phase[p] /\ queue'[p] = queue[p]

\* A rank stays in its stage, or raises in one that has a collective to come.
Kept(p) ==
    /\ IF pc'[p] # "raised"
       THEN pc[p] # "raised" /\ Stage(p)' = Stage(p) /\ Step(p)' = Step(p)
       ELSE pc[p] # "raised" => Stage(p) # "fin2"
    /\ pc'[p] = pc[p] \/ pc'[p] \notin Publishing

\* Nothing changes in what the plan cache has to agree with.
PlanStays(p) ==
    /\ Up(p)' => /\ Up(p)
                 /\ \A d \in SaveDirs : \/ HasPlan(p, d)' = HasPlan(p, d)
                                        \/ Brings(p, d)'
                 /\ \A d \in SaveDirs : Brings(p, d) => Brings(p, d)'
    /\ Idle(p)' => Idle(p) /\ cache'[p] = cache[p]
    /\ Planning(p)' => Planning(p) /\ pend'[p] = pend[p] /\ cache'[p] = cache[p]
    /\ Planned(p)' => /\ pend'[p] = pend[p]
                      /\ Planned(p) \/ disk'["plan"][pend[p]][p].whole
                      /\ disk["plan"][pend[p]][p].whole => disk'["plan"][pend[p]][p].whole

\* The files a restart reads, and the plans, are written by the rank they belong to,
\* in the directory of the checkpoint it saves, and are not deleted.
Touches(r) ==
    \A k \in Kinds \ {"data"}, d \in Dir, p \in Rank :
        \/ disk'[k][d][p] = disk[k][d][p]
        \/ /\ p = r /\ Up(r) /\ Stage(r) \in SaveStages /\ d = Step(r)
           /\ disk'[k][d][p] # Missing

\* The step writes one file, or deletes one.
Writes1(k, d, q, f) ==
    \A kk \in Kinds, dd \in Dir, p \in Rank :
        disk'[kk][dd][p] = IF kk = k /\ dd = d /\ p = q THEN f ELSE disk[kk][dd][p]

LEMMA ExceptWrites ==
    ASSUME TypeOK, NEW k \in Kinds, NEW d \in Dir, NEW q \in Rank, NEW f,
           disk' = [disk EXCEPT ![k][d][q] = f]
    PROVE  Writes1(k, d, q, f)
<1> SUFFICES ASSUME NEW kk \in Kinds, NEW dd \in Dir, NEW p \in Rank
             PROVE  disk'[kk][dd][p] =
                       IF kk = k /\ dd = d /\ p = q THEN f ELSE disk[kk][dd][p]
  BY DEF Writes1
<1> QED
  BY DEF TypeOK

LEMMA SaveStepDir ==
    ASSUME TypeOK, Saves, NEW r \in Rank,
           InChild(r) \/ pc[r] \notin {"begin", "load", "train"}
    PROVE  SaveStep(r) \in Dir
  BY CheckpointAssumption DEF TypeOK, Saves, InChild, SaveStep, Dir

\* A pointer over a whole checkpoint is what a restart takes.
LEMMA PointerFound ==
    ASSUME TypeOK, PointerWhole, ptr # 0
    PROVE  ptr \in Dir /\ IsComplete(ptr) /\ FindLatest = ptr
<1>1. ptr \in Dir
  BY CheckpointAssumption DEF TypeOK, Dir
<1>2. PICK l \in 1 .. MaxLife : disk["meta"][ptr][Coord] = [life |-> l, whole |-> TRUE]
  BY DEF PointerWhole, Restorable
<1>3. [life |-> l, whole |-> TRUE].whole # Missing.whole
  BY DEF Missing
<1>4. IsComplete(ptr)
  BY <1>2, <1>3 DEF IsComplete
<1> QED
  BY <1>1, <1>4 DEF FindLatest

\* The scan depends on which directories are complete only.
LEMMA SameScan ==
    ASSUME \A d \in Dir : IsComplete(d)' = IsComplete(d)
    PROVE  LargestComplete' = LargestComplete
<1>1. ScanResult(LargestComplete)'
  BY ScanLargest, PTL
<1>2. ScanResult(LargestComplete')
  BY <1>1 DEF ScanResult
<1> QED
  BY <1>2, ScanLargest DEF ScanResult, Dir

-----------------------------------------------------------------------------
(***************************************************************************)
(* A step of one rank: what is left to show of it                          *)
(***************************************************************************)
LEMMA FindKept ==
    ASSUME TypeOK, Together, NEW r \in Rank, Touches(r), ptr' = ptr
    PROVE  FindLatest' = FindLatest \/ \A p \in Rank : pc[p] # "begin"
<1>1. SUFFICES ASSUME NEW p \in Rank, pc[p] = "begin"
               PROVE  FindLatest' = FindLatest
  OBVIOUS
<1>2. Stage(p) \in {"dir", "load"} /\ Up(p)
  BY <1>1 DEF Stage, Up, Publishing
<1>3. Up(r) => Stage(r) \notin SaveStages
  BY <1>2 DEF Together, SaveStages, Gathers
<1>4. \A d \in Dir : disk'["meta"][d][Coord] = disk["meta"][d][Coord]
  BY <1>3, CheckpointAssumption DEF Touches, Kinds
<1>5. \A d \in Dir : IsComplete(d)' = IsComplete(d)
  BY <1>4 DEF IsComplete
<1>6. LargestComplete' = LargestComplete
  BY <1>5, SameScan
<1>7. ptr # 0 => ptr \in Dir
  BY CheckpointAssumption DEF TypeOK, Dir
<1>8. FindLatest' = IF ptr # 0 /\ IsComplete(ptr)' THEN ptr ELSE LargestComplete'
  BY DEF FindLatest
<1> QED
  BY <1>5, <1>6, <1>7, <1>8 DEF FindLatest

LEMMA OthersStay ==
    ASSUME NEW r \in Rank, NEW p \in Rank \ {r}, Others(r),
           FindLatest' = FindLatest \/ pc[p] # "begin"
    PROVE  /\ Kept(p)
           /\ PacedAt(p) => PacedAt(p)'
           /\ PhasesAt(p) => PhasesAt(p)'
<1>1. /\ pc'[p] = pc[p] /\ gstep'[p] = gstep[p] /\ last'[p] = last[p]
      /\ pend'[p] = pend[p] /\ fut'[p] = fut[p] /\ cache'[p] = cache[p]
      /\ phase'[p] = phase[p] /\ queue'[p] = queue[p]
  BY DEF Others
<1>2. /\ SaveStep(p)' = SaveStep(p) /\ InChild(p)' = InChild(p)
      /\ HasPlan(p, gstep[p])' = HasPlan(p, gstep[p])
      /\ HasPlan(p, pend[p])' = HasPlan(p, pend[p])
  BY <1>1 DEF SaveStep, InChild, Others, HasPlan, Keys
<1>3. Stage(p)' = Stage(p)
  BY <1>1, <1>2 DEF Stage
<1>4. Step(p)' = Step(p)
  BY <1>1, <1>2, <1>3 DEF Step
<1>5. Kept(p)
  BY <1>1, <1>3, <1>4 DEF Kept
<1>6. PacedAt(p) => PacedAt(p)'
  BY <1>1 DEF PacedAt
<1>7. PhasesAt(p) => PhasesAt(p)'
  BY <1>1, <1>2 DEF PhasesAt
<1> QED
  BY <1>5, <1>6, <1>7

LEMMA OthersShelved ==
    ASSUME TypeOK, Saves, life' = life, NEW r \in Rank, NEW p \in Rank \ {r}, Others(r), Touches(r),
           ShelvedAt(p)
    PROVE  ShelvedAt(p)'
<1>1. /\ pc'[p] = pc[p] /\ gstep'[p] = gstep[p] /\ pend'[p] = pend[p]
      /\ phase'[p] = phase[p] /\ queue'[p] = queue[p]
  BY DEF Others
<1>2. SaveStep(p)' = SaveStep(p) /\ InChild(p)' = InChild(p)
  BY <1>1 DEF SaveStep, InChild
<1>3. /\ ExtraDone(p)' = ExtraDone(p)
      /\ ShardDone(p)' = ShardDone(p)
      /\ MetaDone(p)' = MetaDone(p)
  BY <1>1, <1>2 DEF ExtraDone, ShardDone, MetaDone
<1>4. ExtraDone(p) \/ ShardDone(p) \/ MetaDone(p) => SaveStep(p) \in Dir
  BY SaveStepDir DEF ExtraDone, ShardDone, MetaDone, Finalizing, Publishing
<1>5. SaveStep(p) \in Dir =>
         \A k \in Kinds \ {"data"} : disk'[k][SaveStep(p)][p] = disk[k][SaveStep(p)][p]
  BY DEF Touches
<1>6. SaveStep(p) \in Dir =>
         \A k \in {"extra", "shard", "meta"} : Mine(k, p)' = Mine(k, p)
  BY <1>2, <1>5 DEF Mine, Whole, Kinds
<1> QED
  BY <1>3, <1>4, <1>6 DEF ShelvedAt

LEMMA TogetherKept ==
    ASSUME Together, \A p \in Rank : Kept(p)
    PROVE  Together'
<1>1. ASSUME NEW r \in Rank, NEW q \in Rank, Up(r)', Up(q)'
      PROVE  /\ Stage(r)' = Stage(q)' \/ {Stage(r)', Stage(q)'} \subseteq Gathers
             /\ Step(r)' = Step(q)'
  BY <1>1 DEF Together, Kept, Up
<1>2. ASSUME NEW r \in Rank, NEW q \in Rank, Up(r)', Stage(r)' = "fin2"
      PROVE  Up(q)'
  BY <1>2 DEF Together, Kept, Up, Gathers
<1> QED
  BY <1>1, <1>2 DEF Together

\* A save goes on in a directory behind which the pointer is.
LEMMA PlacedKept ==
    ASSUME TypeOK, Together, Placed, PointerWhole, NEW r \in Rank, Touches(r), ptr' = ptr,
           \A p \in Rank : Kept(p)
    PROVE  Placed' /\ PointerWhole'
<1> USE CheckpointAssumption
<1>1. \A d \in Dir : IsComplete(d)' =>
         \/ IsComplete(d)
         \/ Up(r) /\ Stage(r) \in SaveStages /\ d = Step(r)
  BY DEF Touches, IsComplete, Kinds
<1>2. ASSUME NEW p \in Rank, Up(p)'
      PROVE  Up(p) /\ Stage(p)' = Stage(p) /\ Step(p)' = Step(p)
  BY <1>2 DEF Kept, Up
<1>3. Up(r) /\ Stage(r) \in SaveStages => Before(Step(r)) /\ AllUpTo(Step(r))
  BY DEF Placed, PlacedAt
<1>4. ptr # 0 => \A e \in Dir : IsComplete(e)' => NoSaveBetween(ptr, e)
  <2> SUFFICES ASSUME ptr # 0, NEW e \in Dir, IsComplete(e)' PROVE NoSaveBetween(ptr, e)
    OBVIOUS
  <2>1. CASE IsComplete(e)
    BY <2>1 DEF Placed, NextAtMost
  <2>2. CASE Up(r) /\ Stage(r) \in SaveStages /\ e = Step(r)
    BY <2>2, <1>3 DEF Before
  <2> QED
    BY <1>1, <2>1, <2>2
<1>5. ASSUME NEW p \in Rank, Up(p)'
      PROVE  PlacedAt(p)'
  <2>1. Up(p) /\ Stage(p)' = Stage(p) /\ Step(p)' = Step(p) /\ PlacedAt(p)
    BY <1>2, <1>5 DEF Placed
  <2>2. ASSUME Stage(p) \in {"load", "dir"}
        PROVE  ptr \in {0, Step(p)} /\ NextAtMost(Step(p))'
    <3>1. Up(r) => Stage(r) \notin SaveStages
      BY <2>1, <2>2 DEF Together, SaveStages, Gathers
    <3>2. \A d \in Dir : IsComplete(d)' => IsComplete(d)
      BY <1>1, <3>1
    <3>3. ptr \in {0, Step(p)} /\ NextAtMost(Step(p))
      BY <2>1, <2>2 DEF PlacedAt
    <3> QED
      BY <2>1, <3>2, <3>3 DEF NextAtMost, NoSaveBetween, IsSave
  <2>3. ASSUME Stage(p) \in SaveStages \cup {"fin2"}
        PROVE  AllUpTo(Step(p))'
    <3>1. AllUpTo(Step(p))
      BY <2>1, <2>3 DEF PlacedAt
    <3>2. Up(r) => Step(r) = Step(p)
      BY <2>1 DEF Together
    <3>3. ASSUME NEW e \in Dir, IsComplete(e)' PROVE e <= Step(p)
      BY <1>1, <3>1, <3>2, <3>3 DEF AllUpTo, Dir
    <3> QED
      BY <2>1, <3>3 DEF AllUpTo
  <2>4. ASSUME Stage(p) \in SaveStages PROVE Before(Step(p))'
    BY <2>1, <2>4 DEF PlacedAt, Before, NoSaveBetween, IsSave
  <2> QED
    BY <2>1, <2>2, <2>3, <2>4 DEF PlacedAt, SaveStages
<1>6. /\ pc'[Coord] = "point" => Before(Step(Coord))'
      /\ pc'[Coord] = "point_w" => ptr' = 0
      /\ pc'[Coord] = "fin2" => ptr' = Step(Coord)'
  <2>1. SUFFICES ASSUME pc'[Coord] \in Publishing
        PROVE  /\ pc[Coord] = pc'[Coord] /\ Step(Coord)' = Step(Coord)
    BY <2>1 DEF Placed, Before, NoSaveBetween, IsSave, Publishing
  <2> QED
    BY <2>1, <1>2 DEF Kept, Up, Publishing
<1>7. PointerWhole'
  <2> SUFFICES ASSUME ptr # 0 PROVE Restorable(ptr)'
    BY DEF PointerWhole
  <2>1. ptr \in Dir
    BY DEF TypeOK, Dir
  <2>2. Up(r) /\ Stage(r) \in SaveStages => ptr # Step(r)
    BY <1>3, <2>1 DEF Before, Dir
  <2>3. \A k \in {"meta", "shard", "extra"}, p \in Rank : disk'[k][ptr][p] = disk[k][ptr][p]
    BY <2>1, <2>2 DEF Touches, Kinds
  <2> QED
    BY <2>3 DEF PointerWhole, Restorable
<1>8. (ptr # 0 => NextAtMost(ptr))'
  BY <1>4 DEF NextAtMost, NoSaveBetween, IsSave
<1> QED
  BY <1>5, <1>6, <1>7, <1>8 DEF Placed

LEMMA RankStep ==
    ASSUME IInv, WInv, NEW r \in Rank, Others(r), Touches(r), life' = life, ptr' = ptr,
           Kept(r), PacedAt(r)', PhasesAt(r)', ShelvedAt(r)'
    PROVE  Together' /\ Ranks' /\ Placed' /\ PointerWhole'
<1>1. FindLatest' = FindLatest \/ \A p \in Rank : pc[p] # "begin"
  BY FindKept DEF WInv, IInv
<1>2. \A p \in Rank : Kept(p)
  BY <1>1, OthersStay
<1>3. \A p \in Rank : PacedAt(p)' /\ PhasesAt(p)'
  BY <1>1, OthersStay DEF WInv, Ranks
<1>4. \A p \in Rank : ShelvedAt(p)'
  BY OthersShelved DEF WInv, Ranks, IInv
<1>5. Together'
  BY <1>2, TogetherKept DEF WInv
<1>6. Placed' /\ PointerWhole'
  BY <1>2, PlacedKept DEF WInv, IInv
<1> QED
  BY <1>3, <1>4, <1>5, <1>6 DEF Ranks

LEMMA PlanKept ==
    ASSUME PlanCached, fresh' = fresh, \A p \in Rank : PlanStays(p)
    PROVE  PlanCached'
<1> SUFFICES ASSUME KeysComeTogether'
             PROVE  PlanCached'
  BY DEF PlanCached
<1>1. KeysComeTogether /\ \A p \in Rank, d \in SaveDirs : Keys(p, d)' = Keys(p, d)
  BY DEF KeysComeTogether, Keys
<1>2. ASSUME NEW r \in Rank, NEW q \in Rank, NEW d \in SaveDirs, Up(r)', Up(q)'
      PROVE  (HasPlan(r, d)' <=> HasPlan(q, d)') \/ Brings(r, d)' \/ Brings(q, d)'
  <2>1. (HasPlan(r, d) <=> HasPlan(q, d)) \/ Brings(r, d) \/ Brings(q, d)
    BY <1>1, <1>2 DEF PlanStays, PlanCached
  <2> QED
    BY <1>2, <2>1 DEF PlanStays
<1>3. \A p \in Rank : cache'[p] = cache[p] => \A d : HasPlan(p, d)' = HasPlan(p, d)
  BY DEF HasPlan, Keys
<1>4. ASSUME NEW r \in Rank, Planning(r)'
      PROVE  /\ ~HasPlan(r, pend[r])'
             /\ \A q \in Rank : Idle(q)' => ~HasPlan(q, pend[r])'
  <2>1. Planning(r) /\ pend'[r] = pend[r] /\ cache'[r] = cache[r]
    BY <1>4 DEF PlanStays
  <2>2. ~HasPlan(r, pend[r]) /\ \A q \in Rank : Idle(q) => ~HasPlan(q, pend[r])
    BY <1>1, <2>1 DEF PlanCached
  <2>3. \A q \in Rank : HasPlan(q, pend[r])' = (Keys(q, pend[r]) \in cache'[q])
    BY <2>1 DEF HasPlan, Keys
  <2> QED
    BY <2>1, <2>2, <2>3 DEF PlanStays, HasPlan
<1>5. ASSUME NEW r \in Rank, Planned(r)'
      PROVE  \/ disk'["plan"][pend'[r]][r].whole
             \/ \A q \in Rank : ~Planning(q)' /\ (Idle(q)' => HasPlan(q, pend[r])')
  <2>1. /\ pend'[r] = pend[r]
        /\ Planned(r) \/ disk'["plan"][pend[r]][r].whole
        /\ disk["plan"][pend[r]][r].whole => disk'["plan"][pend[r]][r].whole
    BY <1>5 DEF PlanStays
  <2>2. SUFFICES ASSUME Planned(r), ~disk["plan"][pend[r]][r].whole
        PROVE  \A q \in Rank : ~Planning(q)' /\ (Idle(q)' => HasPlan(q, pend[r])')
    BY <2>1
  <2>3. \A q \in Rank : ~Planning(q) /\ (Idle(q) => HasPlan(q, pend[r]))
    BY <1>1, <2>2 DEF PlanCached
  <2>4. \A q \in Rank : HasPlan(q, pend[r])' = (Keys(q, pend[r]) \in cache'[q])
    BY <2>1 DEF HasPlan, Keys
  <2> QED
    BY <2>3, <2>4 DEF PlanStays, HasPlan
<1> QED
  BY <1>2, <1>4, <1>5 DEF PlanCached

LEMMA OthersPlan ==
    ASSUME TypeOK, NEW r \in Rank, NEW p \in Rank \ {r}, Others(r), Touches(r)
    PROVE  PlanStays(p)
<1>1. /\ pc'[p] = pc[p] /\ pend'[p] = pend[p] /\ phase'[p] = phase[p] /\ cache'[p] = cache[p]
  BY DEF Others
<1>2. Idle(p)' = Idle(p) /\ Planning(p)' = Planning(p) /\ Planned(p)' = Planned(p)
  BY <1>1 DEF Idle, Planning, Planned, InChild, Up
<1>3. Planned(p) => pend[p] \in Dir
  BY CheckpointAssumption DEF Planned, InChild, TypeOK, Dir
<1>4. Planned(p) => disk'["plan"][pend[p]][p] = disk["plan"][pend[p]][p]
  BY <1>3 DEF Touches, Kinds
<1>5. \A d \in SaveDirs : HasPlan(p, d)' = HasPlan(p, d) /\ Brings(p, d)' = Brings(p, d)
  BY <1>1 DEF Others, HasPlan, Brings, InChild, Keys
<1>6. Up(p)' => Up(p)
  BY <1>1 DEF Up
<1> QED
  BY <1>1, <1>2, <1>4, <1>5, <1>6 DEF PlanStays

LEMMA StepInv ==
    ASSUME IInv, WInv, NEW r \in Rank, Others(r), Touches(r), life' = life, ptr' = ptr,
           Kept(r), PacedAt(r)', PhasesAt(r)', ShelvedAt(r)', PlanStays(r)
    PROVE  WInv'
<1>1. Together' /\ Ranks' /\ Placed' /\ PointerWhole'
  BY RankStep
<1>2. fresh' = fresh
  BY DEF Others
<1>3. PlanCached'
  BY <1>2, OthersPlan, PlanKept DEF WInv, IInv
<1> QED
  BY <1>1, <1>3 DEF WInv

\* A step that leaves alone what the plans depend on, unless the rank raises.
LEMMA PlansAlone ==
    ASSUME NEW r \in Rank, fresh' = fresh, cache'[r] = cache[r], phase'[r] = phase[r],
           Up(r)' => Up(r) /\ pend'[r] = pend[r],
           InChild(r)' => pend'[r] = pend[r],
           Idle(r)' => Idle(r),
           disk' = disk \/ ~InChild(r)'
    PROVE  PlanStays(r)
<1>1. \A d \in SaveDirs : /\ HasPlan(r, d)' = HasPlan(r, d)
                          /\ pend'[r] = pend[r] => Brings(r, d)' = Brings(r, d)
  BY DEF HasPlan, Brings, InChild, Keys
<1>2. /\ Planning(r)' => Planning(r) /\ pend'[r] = pend[r]
      /\ Planned(r)' => Planned(r) /\ pend'[r] = pend[r] /\ disk' = disk
  BY DEF Planning, Planned, InChild
<1> QED
  BY <1>1, <1>2 DEF PlanStays

-----------------------------------------------------------------------------
(***************************************************************************)
(* The training loop                                                       *)
(***************************************************************************)
LEMMA TrainBeginW ==
    ASSUME IInv, WInv, NEW r \in Rank, TrainBegin(r)
    PROVE  WInv'
<1> USE CheckpointAssumption DEF TypeOK
<1>1. /\ pc[r] = "begin" /\ pc'[r] \in {"train", "load"}
      /\ gstep'[r] = FindLatest
      /\ pc'[r] = "train" => FindLatest = 0 /\ last'[r] = last[r]
      /\ pc'[r] = "load" => FindLatest # 0 /\ last'[r] = FindLatest
      /\ UNCHANGED << life, fresh, pend, fut, cache, phase, queue, disk, ptr >>
  BY DEF TrainBegin, IInv, persist, thread
<1>2. TypeOK /\ pend[r] = 0 /\ (\E q \in Rank : pc[q] = "begin") /\ last[r] = -1
  BY <1>1 DEF IInv, Opening
<1>3. FindLatest \in 0 .. TrainSteps /\ FindLatest' = FindLatest
  BY <1>1, <1>2, FindLatestType DEF FindLatest, LargestComplete, IsComplete
<1>4. Others(r) /\ Touches(r)
  BY <1>1, <1>2 DEF TrainBegin, Others, Touches
<1>5. Kept(r)
  <2>1. /\ Stage(r) = IF FindLatest = 0 THEN "dir" ELSE "load"
        /\ Stage(r)' = IF FindLatest = 0 THEN "dir" ELSE "load"
    BY <1>1, <1>2, <1>3 DEF Stage, Publishing
  <2>2. Step(r)' = Step(r)
    BY <1>1, <1>2, <1>3, <2>1 DEF Step
  <2> QED
    BY <1>1, <2>1, <2>2 DEF Kept, Publishing
<1>6. PacedAt(r)'
  <2>1. last'[r] <= gstep'[r] /\ gstep'[r] \in {0, last'[r]}
    BY <1>1, <1>2, <1>3
  <2>2. NoSaveBetween(last'[r], gstep'[r])
    <3>1. \/ last'[r] = gstep'[r] /\ gstep'[r] \in Int
          \/ last'[r] = -1 /\ gstep'[r] = 0
      BY <1>1, <1>2, <1>3
    <3> HIDE DEF TypeOK
    <3> QED
      BY <3>1 DEF NoSaveBetween, Dir
  <2> QED
    BY <1>1, <2>1, <2>2 DEF PacedAt, Finalizing, Publishing
<1>7. PhasesAt(r)' /\ ShelvedAt(r)'
  BY <1>1, <1>2 DEF WInv, Ranks, PhasesAt, ShelvedAt, ExtraDone, ShardDone, MetaDone, InChild,
     Finalizing, Publishing
<1>8. PlanStays(r)
  BY <1>1, <1>2, PlansAlone DEF Idle, InChild, Up
<1> QED
  BY <1>1, <1>4, <1>5, <1>6, <1>7, <1>8, StepInv

LEMMA TrainStepW ==
    ASSUME IInv, WInv, NEW r \in Rank, TrainStep(r)
    PROVE  WInv'
<1> USE CheckpointAssumption DEF TypeOK
<1>1. /\ pc[r] = "train" /\ pc'[r] \in {"train", "wait"}
      /\ gstep[r] < TrainSteps /\ gstep'[r] = gstep[r] + 1
      /\ pc'[r] = "wait" => (gstep[r] + 1) % SaveSteps = 0
      /\ pc'[r] = "train" => (gstep[r] + 1) % SaveSteps # 0 \/ gstep[r] + 1 = last[r]
      /\ UNCHANGED << life, fresh, last, pend, fut, cache, phase, queue, disk, ptr >>
  BY DEF TrainStep, IInv, persist, thread
<1>2. TypeOK
  BY DEF IInv
<1>3. Others(r) /\ Touches(r)
  BY <1>1, <1>2 DEF TrainStep, Others, Touches
<1>4. Kept(r)
  <2>1. Stage(r) \in {"dir", "fin1"} /\ Stage(r)' = Stage(r) /\ (Stage(r) = "dir" <=> pend[r] = 0)
    BY <1>1 DEF Stage, Publishing
  <2>2. Step(r)' = Step(r)
    BY <1>1, <2>1 DEF Step, SaveStep
  <2> QED
    BY <1>1, <2>1, <2>2 DEF Kept, Publishing
<1>5. PacedAt(r)'
  <2>1. PacedAt(r)
    BY DEF WInv, Ranks
  <2>2. /\ last[r] <= gstep[r] /\ NoSaveBetween(last[r], gstep[r])
        /\ gstep[r] \in {0, last[r]} \/ gstep[r] % SaveSteps # 0
    BY <1>1, <2>1 DEF PacedAt
  <2>3. NoSaveBetween(last[r], gstep[r] + 1)
    <3>. SUFFICES ASSUME NEW e \in Dir, last[r] < e, e < gstep[r] + 1 PROVE ~IsSave(e)
      BY DEF NoSaveBetween
    <3>1. gstep[r] \in Int /\ last[r] \in Int /\ e \in 1 .. TrainSteps
      BY <1>2 DEF Dir
    <3>2. CASE e < gstep[r]
      BY <2>2, <3>2 DEF NoSaveBetween
    <3>3. CASE e = gstep[r]
      <4>1. gstep[r] % SaveSteps # 0 /\ gstep[r] # TrainSteps
        BY <1>1, <2>2, <3>1, <3>3
      <4>. QED BY <3>3, <4>1 DEF IsSave
    <3>. QED BY <3>1, <3>2, <3>3
  <2>4. NoSaveBetween(last'[r], gstep'[r])
    BY <1>1, <2>3
  <2>5. pc'[r] = "wait" => IsSave(gstep[r] + 1)
    BY <1>1 DEF IsSave
  <2> QED
    BY <1>1, <1>2, <2>2, <2>4, <2>5 DEF PacedAt, Finalizing, Publishing
<1>6. PhasesAt(r)' /\ ShelvedAt(r)'
  BY <1>1, <1>2 DEF WInv, Ranks, PhasesAt, ShelvedAt, ExtraDone, ShardDone, MetaDone, InChild,
     Finalizing, Publishing, Mine, SaveStep, Whole, HasPlan, Keys
<1>7. PlanStays(r)
  BY <1>1, <1>2, PlansAlone DEF Idle, InChild, Up
<1> QED
  BY <1>1, <1>3, <1>4, <1>5, <1>6, <1>7, StepInv

LEMMA TrainEndW ==
    ASSUME IInv, WInv, NEW r \in Rank, TrainEnd(r)
    PROVE  WInv'
<1> USE CheckpointAssumption DEF TypeOK
<1>1. /\ pc[r] = "train" /\ pc'[r] = "wait" /\ gstep[r] = TrainSteps
      /\ UNCHANGED << life, fresh, gstep, last, pend, fut, cache, phase, queue, disk, ptr >>
  BY DEF TrainEnd, IInv, persist, thread
<1>2. TypeOK
  BY DEF IInv
<1>3. Others(r) /\ Touches(r)
  BY <1>1, <1>2 DEF TrainEnd, Others, Touches
<1>4. Kept(r)
  <2>1. Stage(r) \in {"dir", "fin1"} /\ Stage(r)' = Stage(r) /\ (Stage(r) = "dir" <=> pend[r] = 0)
    BY <1>1 DEF Stage, Publishing
  <2>2. Step(r)' = Step(r)
    BY <1>1, <2>1 DEF Step, SaveStep
  <2> QED
    BY <1>1, <2>1, <2>2 DEF Kept, Publishing
<1>5. PacedAt(r)'
  <2>1. last[r] <= gstep[r] /\ NoSaveBetween(last[r], gstep[r])
    BY <1>1 DEF WInv, Ranks, PacedAt
  <2>2. IsSave(gstep[r])
    BY <1>1 DEF IsSave
  <2> QED
    BY <1>1, <1>2, <2>1, <2>2 DEF PacedAt, Finalizing, Publishing
<1>6. PhasesAt(r)' /\ ShelvedAt(r)'
  BY <1>1, <1>2 DEF WInv, Ranks, PhasesAt, ShelvedAt, ExtraDone, ShardDone, MetaDone, InChild,
     Finalizing, Publishing, Mine, SaveStep, Whole, HasPlan, Keys
<1>7. PlanStays(r)
  BY <1>1, <1>2, PlansAlone DEF Idle, InChild, Up
<1> QED
  BY <1>1, <1>3, <1>4, <1>5, <1>6, <1>7, StepInv

\* A rank goes on to the barrier of a finalization, to that of a save, or raises.
LEMMA MaybeWaitW ==
    ASSUME IInv, WInv, NEW r \in Rank, MaybeWait(r)
    PROVE  WInv'
<1> USE CheckpointAssumption DEF TypeOK
<1>1. /\ pc[r] = "wait"
      /\ UNCHANGED << life, fresh, gstep, last, cache, phase, queue, disk, ptr >>
      /\ \/ /\ pend[r] = 0 /\ UNCHANGED << pend, fut >>
            /\ pc'[r] \in {"done", "dir"} /\ (pc'[r] = "dir" => gstep[r] # last[r])
         \/ /\ pend[r] # 0 /\ fut[r] = "ok" /\ UNCHANGED << pend, fut >>
            /\ pc'[r] = "fin1"
         \/ pc'[r] = "raised" /\ pend'[r] = 0
  BY DEF MaybeWait, AfterWait, IInv, persist
<1>2. TypeOK
  BY DEF IInv
<1>3. Others(r) /\ Touches(r)
  BY <1>1, <1>2 DEF MaybeWait, AfterWait, Others, Touches
<1>4. Kept(r)
  <2>1. Stage(r) = IF pend[r] = 0 THEN "dir" ELSE "fin1"
    BY <1>1 DEF Stage, Publishing
  <2>2. pc'[r] # "raised" => Stage(r)' = Stage(r)
    BY <1>1, <2>1 DEF Stage, Publishing
  <2>3. pc'[r] # "raised" => Step(r)' = Step(r)
    BY <1>1, <2>1, <2>2 DEF Step, SaveStep
  <2> QED
    BY <1>1, <2>1, <2>2, <2>3 DEF Kept, Publishing
<1>5. PacedAt(r)'
  <2>1. last[r] <= gstep[r] /\ NoSaveBetween(last[r], gstep[r]) /\ IsSave(gstep[r])
    BY <1>1 DEF WInv, Ranks, PacedAt
  <2>2. last[r] \in Int /\ gstep[r] \in Int /\ last'[r] = last[r] /\ gstep'[r] = gstep[r]
    BY <1>1, <1>2
  <2>3. pc'[r] \in {"done", "dir", "fin1", "raised"} /\ (pc'[r] = "fin1" => pend'[r] # 0)
        /\ (pc'[r] = "dir" => last[r] < gstep[r])
    BY <1>1, <2>1, <2>2
  <2> HIDE DEF TypeOK
  <2> QED
    BY <2>1, <2>2, <2>3 DEF PacedAt, Finalizing, Publishing
<1>6. PhasesAt(r)'
  <2>1. PhasesAt(r)
    BY DEF WInv, Ranks
  <2> QED
    BY <1>1, <1>2, <2>1 DEF PhasesAt, InChild, Finalizing, Publishing, HasPlan, Keys
<1>7. ShelvedAt(r)'
  <2>1. ShelvedAt(r) /\ PhasesAt(r)
    BY DEF WInv, Ranks
  <2>2. CASE pc'[r] = "fin1"
    BY <1>1, <2>1, <2>2 DEF PhasesAt, ShelvedAt, ExtraDone, ShardDone, MetaDone, InChild,
       Mine, SaveStep, Whole
  <2>3. CASE pc'[r] # "fin1"
    BY <1>1, <2>3 DEF ShelvedAt, ExtraDone, ShardDone, MetaDone, InChild, Finalizing, Publishing
  <2> QED
    BY <2>2, <2>3
<1>8. PlanStays(r)
  BY <1>1, <1>2, PlansAlone DEF Idle, InChild, Up
<1> QED
  BY <1>1, <1>3, <1>4, <1>5, <1>6, <1>7, <1>8, StepInv

-----------------------------------------------------------------------------
(***************************************************************************)
(* The save, up to the dispatch, and the child                             *)
(***************************************************************************)
\* A rank whose save is being persisted is in a stage before the publication.
LEMMA AliveStage ==
    ASSUME IInv, WInv, NEW r \in Rank, Alive(r)
    PROVE  /\ Up(r) /\ Stage(r) \in SaveStages /\ Step(r) = SaveStep(r) /\ SaveStep(r) \in Dir
           /\ pc[r] \notin Publishing
           /\ InChild(r) => pc[r] \in {"train", "wait"} /\ pend[r] # 0 /\ Stage(r) = "fin1"
                            /\ queue[r] = "empty" /\ fut[r] = "pending"
           /\ ~InChild(r) => pc[r] = "persist" /\ pend[r] = 0
<1>1. TypeOK /\ Saves /\ PhasesAt(r)
  BY DEF IInv, WInv, Ranks
<1>2. CASE InChild(r)
  <2>1. pc[r] \in {"train", "wait"} /\ pend[r] # 0 /\ queue[r] = "empty" /\ fut[r] = "pending"
    BY <1>1, <1>2 DEF Saves, InChild
  <2>2. Stage(r) = "fin1"
    BY <2>1 DEF Stage, Publishing
  <2>3. Step(r) = SaveStep(r)
    BY <2>1, <2>2 DEF Step
  <2> QED
    BY <1>1, <1>2, <2>1, <2>2, <2>3, SaveStepDir DEF Up, SaveStages, Publishing
<1>3. CASE ~InChild(r)
  <2>1. pc[r] = "persist" /\ pend[r] = 0
    BY <1>1, <1>3 DEF Saves, InChild
  <2>2. Stage(r) \in {"plans", "results", "saved"}
    BY <2>1 DEF Stage, Publishing
  <2>3. Step(r) = SaveStep(r)
    BY <2>1, <2>2 DEF Step
  <2> QED
    BY <1>1, <1>3, <2>1, <2>2, <2>3, SaveStepDir DEF Up, SaveStages, Publishing
<1> QED
  BY <1>2, <1>3

\* A step that changes neither the loop of the rank nor which save it makes.
LEMMA SameLoop ==
    ASSUME NEW r \in Rank, Up(r), pc[r] # "begin",
           pc'[r] = pc[r], gstep'[r] = gstep[r], last'[r] = last[r], pend'[r] = pend[r],
           pc[r] \in {"extra", "extra_w"} => cache'[r] = cache[r] /\ fresh' = fresh,
           pc[r] = "persist" => Stage(r)' = Stage(r)
    PROVE  Kept(r) /\ (PacedAt(r) => PacedAt(r)')
<1>1. Stage(r)' = Stage(r)
  <2>1. CASE pc[r] = "persist"
    BY <2>1
  <2>2. CASE pc[r] \in {"extra", "extra_w"}
    BY <2>2 DEF Stage, Publishing, HasPlan, Keys
  <2>3. CASE pc[r] \notin {"begin", "persist", "extra", "extra_w"}
    BY <2>3 DEF Stage
  <2> QED
    BY <2>1, <2>2, <2>3
<1>2. Step(r)' = Step(r)
  BY <1>1 DEF Step, SaveStep
<1> QED
  BY <1>1, <1>2 DEF Kept, PacedAt, Up

LEMMA OpenExtraW ==
    ASSUME IInv, WInv, NEW r \in Rank, OpenExtra(r)
    PROVE  WInv'
<1> USE CheckpointAssumption
<1>1. /\ pc[r] = "extra" /\ pc'[r] = "extra_w"
      /\ UNCHANGED << life, fresh, gstep, last, pend, fut, cache, phase, queue, ptr >>
  BY DEF OpenExtra, IInv, TypeOK, persist, thread
<1>2. TypeOK /\ pend[r] = 0 /\ gstep[r] # 0
  BY <1>1 DEF IInv, Saves, InChild
<1>3. SaveStep(r) = gstep[r] /\ gstep[r] \in Dir
  BY <1>2 DEF SaveStep, TypeOK, Dir
<1>4. Stage(r) \in SaveStages /\ Stage(r)' = Stage(r) /\ Step(r) = gstep[r]
  <2>1. Stage(r) \in SaveStages /\ Stage(r)' = Stage(r)
    BY <1>1 DEF Stage, SaveStages, Publishing, HasPlan, Keys
  <2> QED
    BY <1>1, <1>3, <2>1 DEF Step, SaveStages
<1>5. Writes1("extra", gstep[r], r, Torn)
  BY <1>2, <1>3, ExceptWrites DEF OpenExtra, Kinds
<1>6. Others(r) /\ Touches(r)
  <2>1. Torn # Missing
    BY <1>2 DEF Torn, Missing, TypeOK
  <2>2. Touches(r)
    BY <1>1, <1>4, <1>5, <2>1 DEF Writes1, Touches, Kinds, Up
  <2> QED
    BY <1>1, <1>2, <2>2 DEF OpenExtra, Others, TypeOK
<1>7. Kept(r)
  <2>1. Step(r)' = Step(r)
    BY <1>1, <1>4 DEF Step, SaveStep
  <2> QED
    BY <1>1, <1>4, <2>1 DEF Kept, Publishing
<1>8. PacedAt(r)'
  BY <1>1 DEF WInv, Ranks, PacedAt, Finalizing, Publishing
<1>9. PhasesAt(r)' /\ ShelvedAt(r)'
  BY <1>1, <1>2 DEF WInv, Ranks, PhasesAt, ShelvedAt, ExtraDone, ShardDone, MetaDone, InChild,
     Finalizing, Publishing
<1>10. PlanStays(r)
  BY <1>1, <1>2, PlansAlone DEF Idle, InChild, Up
<1> QED
  BY <1>1, <1>6, <1>7, <1>8, <1>9, <1>10, StepInv

\* A file of the save is opened: nothing of it counted as written, and the pointer
\* is behind it.
LEMMA OpenFileW ==
    ASSUME IInv, WInv, NEW r \in Rank, OpenFile(r)
    PROVE  WInv'
<1> USE CheckpointAssumption
<1>1. /\ phase[r] \in Writes
      /\ UNCHANGED << life, fresh, pc, gstep, last, pend, fut, cache, phase, queue, ptr >>
      /\ disk' = [disk EXCEPT ![phase[r]][SaveStep(r)][r] = Torn]
  BY DEF OpenFile, trainer, thread
<1>2. TypeOK /\ Alive(r) /\ PacedAt(r) /\ PhasesAt(r) /\ ShelvedAt(r)
  BY <1>1 DEF IInv, WInv, Ranks, Alive, Writes
<1>3. /\ Up(r) /\ Stage(r) \in SaveStages /\ Step(r) = SaveStep(r) /\ SaveStep(r) \in Dir
      /\ pc[r] \notin Publishing
      /\ InChild(r) => pc[r] \in {"train", "wait"} /\ queue[r] = "empty"
      /\ ~InChild(r) => pc[r] = "persist"
  BY <1>2, AliveStage
<1>4. Writes1(phase[r], SaveStep(r), r, Torn)
  BY <1>1, <1>2, <1>3, ExceptWrites DEF Writes, Kinds
<1>5. Others(r) /\ Touches(r)
  <2>1. Torn # Missing
    BY <1>2 DEF Torn, Missing, TypeOK
  <2>2. Touches(r)
    BY <1>3, <1>4, <2>1 DEF Writes1, Touches
  <2> QED
    BY <1>1, <2>2 DEF Others
<1>6. Kept(r) /\ PacedAt(r)'
  <2>1. pc[r] # "begin"
    BY <1>3
  <2>2. Stage(r)' = Stage(r)
    BY <1>1, <2>1 DEF Stage, HasPlan, Keys
  <2> QED
    BY <1>1, <1>2, <1>3, <2>1, <2>2, SameLoop
<1>7. PhasesAt(r)'
  BY <1>1, <1>2 DEF PhasesAt, InChild, HasPlan, Keys
<1>8. ShelvedAt(r)'
  <2>1. ~InChild(r) => phase[r] \in {"shard", "meta"}
    BY <1>1, <1>2, <1>3 DEF PhasesAt, Writes
  <2>2. pc[r] \notin Finalizing
    BY <1>3 DEF Finalizing, Publishing
  <2>3. /\ ExtraDone(r)' = ExtraDone(r) /\ ShardDone(r)' = ShardDone(r)
        /\ MetaDone(r)' = MetaDone(r) /\ SaveStep(r)' = SaveStep(r) /\ Whole' = Whole
    BY <1>1 DEF ExtraDone, ShardDone, MetaDone, SaveStep, InChild, Whole
  <2>4. phase[r] = "shard" => ~ShardDone(r)
    BY <1>3, <2>2 DEF ShardDone
  <2>5. phase[r] = "meta" => ~MetaDone(r)
    BY <1>3, <2>2 DEF MetaDone
  <2>6. \A k \in {"extra", "shard", "meta"} : k # phase[r] => Mine(k, r)' = Mine(k, r)
    BY <1>3, <1>4, <2>3 DEF Writes1, Mine, Kinds
  <2> QED
    BY <1>1, <1>2, <2>3, <2>4, <2>5, <2>6 DEF ShelvedAt, Writes
<1>9. PlanStays(r)
  <2>1. phase[r] = "plan" => ~Planned(r)
    BY DEF Planned
  <2>2. phase[r] # "plan" /\ Planned(r) => disk'["plan"][pend[r]][r] = disk["plan"][pend[r]][r]
    BY <1>3, <1>4 DEF Writes1, Kinds, Planned, InChild, SaveStep
  <2> QED
    BY <1>1, <2>1, <2>2
    DEF PlanStays, Idle, Planning, Planned, InChild, Up, HasPlan, Brings, Keys
<1> QED
  BY <1>1, <1>5, <1>6, <1>7, <1>8, <1>9, StepInv

LEMMA CloseFileW ==
    ASSUME IInv, WInv, NEW r \in Rank, CloseFile(r)
    PROVE  WInv'
<1> USE CheckpointAssumption
<1>1. /\ open[r] /\ phase' = [phase EXCEPT ![r] = AfterWrite(r)]
      /\ UNCHANGED << life, fresh, pc, gstep, last, pend, fut, cache, queue, ptr >>
      /\ disk' = [disk EXCEPT ![phase[r]][SaveStep(r)][r] = Whole]
  BY DEF CloseFile, trainer, thread
<1>2. /\ TypeOK /\ phase[r] \in Writes /\ phase'[r] = AfterWrite(r)
      /\ Alive(r) /\ PacedAt(r) /\ PhasesAt(r) /\ ShelvedAt(r)
  BY <1>1 DEF IInv, WInv, Ranks, Alive, Writes, TypeOK
<1>3. /\ Up(r) /\ Stage(r) \in SaveStages /\ Step(r) = SaveStep(r) /\ SaveStep(r) \in Dir
      /\ pc[r] \notin Publishing
      /\ InChild(r) => pc[r] \in {"train", "wait"} /\ queue[r] = "empty" /\ fut[r] = "pending"
      /\ ~InChild(r) => pc[r] = "persist"
  BY <1>2, AliveStage
<1>4. Writes1(phase[r], SaveStep(r), r, Whole)
  BY <1>1, <1>2, <1>3, ExceptWrites DEF Writes, Kinds
<1>5. Others(r) /\ Touches(r)
  <2>1. Whole # Missing
    BY <1>2 DEF Whole, Missing, TypeOK
  <2>2. Touches(r)
    BY <1>3, <1>4, <2>1 DEF Writes1, Touches
  <2> QED
    BY <1>1, <2>2 DEF Others
<1>6. /\ InChild(r)' = InChild(r)
      /\ InChild(r) => phase'[r] \in {"plans", "data", "results", "put"}
      /\ ~InChild(r) => \/ phase[r] = "shard" /\ phase'[r] = "results"
                        \/ phase[r] = "meta" /\ phase'[r] = "saved"
  BY <1>1, <1>2, <1>3 DEF AfterWrite, Writes, InChild, PhasesAt
<1>7. Kept(r) /\ PacedAt(r)'
  <2>1. pc[r] # "begin" /\ pc[r] \notin {"extra", "extra_w"}
    BY <1>3
  <2>2. pc[r] = "persist" => Stage(r)' = Stage(r)
    BY <1>1, <1>3, <1>6 DEF Stage, Publishing
  <2> QED
    BY <1>1, <1>2, <1>3, <2>1, <2>2, SameLoop
<1>8. PhasesAt(r)'
  <2>1. phase'[r] = "results" /\ InChild(r) => r = Coord
    BY <1>2, <1>3 DEF AfterWrite, Writes
  <2>2. pc[r] \notin Finalizing
    BY <1>3 DEF Finalizing, Publishing
  <2> QED
    BY <1>1, <1>2, <1>3, <1>6, <2>1, <2>2 DEF PhasesAt, HasPlan, Keys
<1>9. ShelvedAt(r)'
  <2>1. pc[r] \notin Finalizing
    BY <1>3 DEF Finalizing, Publishing
  <2>2. SaveStep(r)' = SaveStep(r) /\ Whole' = Whole /\ ExtraDone(r)' = ExtraDone(r)
    BY <1>1 DEF ExtraDone, SaveStep, InChild, Whole
  <2>3. ShardDone(r)' => ShardDone(r) \/ phase[r] = "shard"
    BY <1>1, <1>2, <1>3, <1>6, <2>1 DEF ShardDone, AfterWrite, Writes
  <2>4. r = Coord /\ MetaDone(r)' => MetaDone(r) \/ phase[r] = "meta"
    BY <1>1, <1>2, <1>3, <1>6, <2>1 DEF MetaDone, AfterWrite, Writes
  <2>5. \A k \in {"extra", "shard", "meta"} :
           IF k = phase[r] THEN Mine(k, r)' ELSE Mine(k, r)' = Mine(k, r)
    BY <1>3, <1>4, <2>2 DEF Writes1, Mine, Kinds
  <2> QED
    BY <1>2, <2>2, <2>3, <2>4, <2>5 DEF ShelvedAt, Writes
<1>10. PlanStays(r)
  <2>1. Planned(r) => phase[r] # "plan"
    BY DEF Planned
  <2>2. Planned(r)' => Planned(r) \/ phase[r] = "plan"
    BY <1>1, <1>2, <1>6 DEF Planned, Writes
  <2>3. Planned(r)' => /\ phase[r] = "plan" => disk'["plan"][pend[r]][r].whole
                       /\ phase[r] # "plan" =>
                             disk'["plan"][pend[r]][r] = disk["plan"][pend[r]][r]
    BY <1>3, <1>4, <1>6 DEF Writes1, Kinds, Planned, InChild, SaveStep, Whole
  <2>4. Planning(r)' => Planning(r)
    BY <1>1, <1>2, <1>6 DEF Planning, AfterWrite, Writes
  <2>5. Idle(r)' => Idle(r)
    BY <1>1, <1>6 DEF Idle, Up
  <2> QED
    BY <1>1, <1>6, <2>1, <2>2, <2>3, <2>4, <2>5
    DEF PlanStays, Up, InChild, HasPlan, Brings, Keys
<1> QED
  BY <1>1, <1>5, <1>7, <1>8, <1>9, <1>10, StepInv

\* A step of the child, its thread or its reading that keeps the rank in its loop.
LEMMA ChildStep ==
    ASSUME IInv, WInv, NEW r \in Rank, InChild(r), pc[r] \in {"train", "wait"},
           UNCHANGED << life, fresh, pc, gstep, last, pend, ptr >>,
           Others(r),
           \A k \in Kinds \ {"data"} : disk'[k] = disk[k],
           cache'[r] \in {cache[r], cache[r] \cup {Keys(r, pend[r])}},
           PhasesAt(r)',
           phase'[r] = "shard" => phase[r] \in {"plans", "shard"},
           Planning(r)' => Planning(r) /\ cache'[r] = cache[r],
           Planned(r)' => Planned(r),
           ShardDone(r)' => ShardDone(r), MetaDone(r)' => MetaDone(r)
    PROVE  WInv'
<1>1. Touches(r)
  BY DEF Touches
<1>2. Kept(r) /\ PacedAt(r)'
  BY SameLoop DEF WInv, Ranks, Up
<1>3. ShelvedAt(r)'
  <2>1. SaveStep(r)' = SaveStep(r) /\ Whole' = Whole /\ ExtraDone(r)' = ExtraDone(r)
    BY DEF ExtraDone, SaveStep, InChild, Whole
  <2>2. \A k \in {"extra", "shard", "meta"} : Mine(k, r)' = Mine(k, r)
    BY <2>1 DEF Mine, Kinds
  <2> QED
    BY <2>1, <2>2 DEF WInv, Ranks, ShelvedAt
<1>4. PlanStays(r)
  <2>1. disk'["plan"] = disk["plan"] /\ ~Idle(r)'
    BY DEF Kinds, Idle, InChild
  <2>2. \A d \in SaveDirs : Keys(r, d)' = Keys(r, d) /\ Brings(r, d)' = Brings(r, d)
    BY DEF Keys, Brings, InChild, Others
  <2>3. \A d \in SaveDirs : HasPlan(r, d)' = HasPlan(r, d) \/ Brings(r, d)'
    BY <2>2 DEF HasPlan, Brings
  <2> QED
    BY <2>1, <2>2, <2>3 DEF PlanStays, Up
<1> QED
  BY <1>1, <1>2, <1>3, <1>4, StepInv

LEMMA ReadFileW ==
    ASSUME IInv, WInv, NEW r \in Rank, NEW q \in Rank, ReadFile(r, q)
    PROVE  WInv'
<1>1. /\ InChild(r) /\ phase[r] \in {"plans", "results"}
      /\ UNCHANGED << life, fresh, pc, gstep, last, pend, fut, cache, phase, queue, ptr >>
  BY DEF ReadFile, trainer, thread
<1>2. TypeOK /\ Alive(r) /\ PhasesAt(r)
  BY <1>1 DEF IInv, WInv, Ranks, Alive
<1>3. pc[r] \in {"train", "wait"}
  BY <1>1, <1>2, AliveStage
<1>4. \A k \in Kinds \ {"data"} : disk'[k] = disk[k]
  BY <1>1, <1>2 DEF ReadFile, TypeOK, Kinds
<1>5. Others(r) /\ PhasesAt(r)'
  BY <1>1, <1>2 DEF Others, PhasesAt, InChild, HasPlan, Keys
<1>6. /\ Planning(r)' = Planning(r) /\ Planned(r)' = Planned(r)
      /\ ShardDone(r)' = ShardDone(r) /\ MetaDone(r)' = MetaDone(r)
  BY <1>1 DEF Planning, Planned, ShardDone, MetaDone, InChild
<1> QED
  BY <1>1, <1>3, <1>4, <1>5, <1>6, ChildStep

LEMMA GatheredW ==
    ASSUME IInv, WInv, NEW r \in Rank, Gathered(r)
    PROVE  WInv'
<1>1. /\ InChild(r) /\ phase[r] \in {"plans", "results"}
      /\ phase' = [phase EXCEPT ![r] = IF @ = "plans" THEN "shard" ELSE "meta"]
      /\ UNCHANGED << life, fresh, pc, gstep, last, pend, fut, cache, queue, disk, ptr >>
  BY DEF Gathered, trainer, thread
<1>2. /\ TypeOK /\ Alive(r) /\ PhasesAt(r)
      /\ phase'[r] = IF phase[r] = "plans" THEN "shard" ELSE "meta"
  BY <1>1 DEF IInv, WInv, Ranks, Alive, TypeOK
<1>3. pc[r] \in {"train", "wait"} /\ queue[r] = "empty"
  BY <1>1, <1>2, AliveStage
<1>4. Others(r) /\ PhasesAt(r)'
  BY <1>1, <1>2, <1>3 DEF Others, PhasesAt, InChild, Finalizing, Publishing, HasPlan, Keys
<1>5. /\ ~Planning(r)' /\ Planned(r)
      /\ ShardDone(r)' => ShardDone(r)
      /\ ~MetaDone(r)'
  BY <1>1, <1>2, <1>3
  DEF Planning, Planned, ShardDone, MetaDone, InChild, Finalizing, Publishing
<1> QED
  BY <1>1, <1>2, <1>3, <1>4, <1>5, ChildStep

\* The child ends: it has put its result, caught a failure, or is killed.
LEMMA ChildEnds ==
    ASSUME IInv, WInv, NEW r \in Rank, InChild(r), Alive(r),
           UNCHANGED << life, fresh, pc, gstep, last, pend, fut, cache, disk, ptr >>, Others(r),
           phase'[r] \in {"exited", "died"},
           queue'[r] = "success" => phase[r] = "put"
    PROVE  WInv'
<1>1. PhasesAt(r) /\ pc[r] \in {"train", "wait"} /\ fut[r] = "pending"
  BY AliveStage DEF WInv, Ranks
<1>2. PhasesAt(r)'
  BY <1>1 DEF PhasesAt, InChild, Finalizing, Publishing, HasPlan, Keys
<1>3. /\ ~Planning(r)' /\ ~Planned(r)'
      /\ ShardDone(r)' => ShardDone(r)
      /\ MetaDone(r)' => MetaDone(r)
  BY <1>1 DEF Planning, Planned, ShardDone, MetaDone, InChild, Finalizing, Publishing
<1> QED
  BY <1>1, <1>2, <1>3, ChildStep

LEMMA GatherTimeoutW ==
    ASSUME IInv, WInv, NEW r \in Rank, GatherTimeout(r)
    PROVE  WInv'
<1>1. TypeOK /\ InChild(r) /\ Alive(r)
  BY DEF GatherTimeout, IInv, Alive
<1>2. /\ UNCHANGED << life, fresh, pc, gstep, last, pend, fut, cache, disk, ptr >>
      /\ Others(r) /\ phase'[r] = "exited" /\ queue'[r] = "failure"
  BY <1>1 DEF GatherTimeout, FailChild, Others, TypeOK, trainer
<1> QED
  BY <1>1, <1>2, ChildEnds

LEMMA PutResultW ==
    ASSUME IInv, WInv, NEW r \in Rank, PutResult(r)
    PROVE  WInv'
<1>1. TypeOK /\ InChild(r) /\ Alive(r) /\ phase[r] = "put"
  BY DEF PutResult, IInv, Alive, TypeOK
<1>2. /\ UNCHANGED << life, fresh, pc, gstep, last, pend, fut, cache, disk, ptr >>
      /\ Others(r) /\ phase'[r] = "exited"
  BY <1>1 DEF PutResult, Others, TypeOK, trainer
<1> QED
  BY <1>1, <1>2, ChildEnds

LEMMA ChildDiesW ==
    ASSUME IInv, WInv, NEW r \in Rank, ChildDies(r)
    PROVE  WInv'
<1>1. TypeOK /\ InChild(r) /\ Alive(r) /\ queue[r] = "empty"
  BY AliveStage DEF ChildDies, IInv
<1>2. /\ UNCHANGED << life, fresh, pc, gstep, last, pend, fut, cache, queue, disk, ptr >>
      /\ Others(r) /\ phase'[r] = "died"
  BY <1>1 DEF ChildDies, Others, TypeOK, trainer, thread
<1> QED
  BY <1>1, <1>2, ChildEnds

\* A rank raises before its finalization.
LEMMA RankRaises ==
    ASSUME IInv, WInv, NEW r \in Rank, ~InChild(r),
           pc[r] \in {"extra", "extra_w", "persist"}, pc'[r] = "raised",
           UNCHANGED << life, fresh, gstep, last, pend, fut, cache, queue, disk, ptr >>, Others(r),
           phase'[r] \in {phase[r], "none"}
    PROVE  WInv'
<1>1. Touches(r) /\ PhasesAt(r)
  BY DEF Touches, WInv, Ranks
<1>2. Kept(r)
  BY DEF Kept, Stage, Publishing
<1>3. PacedAt(r)'
  BY DEF PacedAt, Finalizing, Publishing
<1>4. PhasesAt(r)' /\ ShelvedAt(r)'
  <2>1. ~InChild(r)' /\ pc'[r] \notin {"persist"} \cup Finalizing
    BY DEF InChild, Finalizing, Publishing
  <2> QED
    BY <1>1, <2>1 DEF PhasesAt, ShelvedAt, ExtraDone, ShardDone, MetaDone
<1>5. PlanStays(r)
  <2>1. ~Up(r)' /\ ~InChild(r)'
    BY DEF Up, InChild
  <2> QED
    BY <2>1 DEF PlanStays, Idle, Planning, Planned
<1> QED
  BY <1>1, <1>2, <1>3, <1>4, <1>5, StepInv

LEMMA WriteFailsW ==
    ASSUME IInv, WInv, NEW r \in Rank, WriteFails(r)
    PROVE  WInv'
<1>1. /\ TypeOK /\ Alive(r)
      /\ UNCHANGED << life, fresh, gstep, last, pend, fut, cache, disk, ptr >>
  BY DEF WriteFails, IInv, Alive, Writes
<1>2. CASE InChild(r)
  <2>1. UNCHANGED pc /\ Others(r) /\ phase'[r] = "exited" /\ queue'[r] = "failure"
    BY <1>1, <1>2 DEF WriteFails, FailChild, Others, TypeOK
  <2> QED
    BY <1>1, <1>2, <2>1, ChildEnds
<1>3. CASE ~InChild(r)
  <2>1. pc[r] = "persist"
    BY <1>1, <1>3, AliveStage
  <2>2. UNCHANGED queue /\ Others(r) /\ phase'[r] = "none" /\ pc'[r] = "raised"
    BY <1>1, <1>3 DEF WriteFails, Others, TypeOK
  <2> QED
    BY <1>1, <1>3, <2>1, <2>2, RankRaises
<1> QED
  BY <1>2, <1>3

LEMMA ExtraFailsW ==
    ASSUME IInv, WInv, NEW r \in Rank, ExtraFails(r)
    PROVE  WInv'
<1>1. TypeOK /\ pc[r] \in {"extra", "extra_w"} /\ ~InChild(r)
  BY DEF ExtraFails, IInv, Saves
<1>2. /\ UNCHANGED << life, fresh, gstep, last, pend, fut, cache, phase, queue, disk, ptr >>
      /\ Others(r) /\ pc'[r] = "raised"
  BY <1>1 DEF ExtraFails, Others, TypeOK, persist, thread
<1> QED
  BY <1>1, <1>2, RankRaises

\* The thread answers or goes on waiting.
LEMMA ThreadStep ==
    ASSUME IInv, WInv, NEW r \in Rank, join[r] # "none",
           UNCHANGED << life, fresh, pc, gstep, last, pend, phase, queue, disk, ptr >>, Others(r),
           \/ fut'[r] = fut[r] /\ cache'[r] = cache[r]
           \/ fut'[r] = "failed" /\ cache'[r] = cache[r] /\ ~Alive(r)
           \/ /\ fut'[r] = "ok" /\ queue[r] = "success" /\ ~Alive(r)
              /\ cache'[r] = cache[r] \cup {Keys(r, pend[r])}
    PROVE  WInv'
<1>1. InChild(r) /\ pc[r] \in {"train", "wait"} /\ PhasesAt(r)
  BY DEF IInv, Saves, WInv, Ranks
<1>2. PhasesAt(r)'
  BY <1>1 DEF PhasesAt, InChild, Finalizing, Publishing, Others, HasPlan, Keys
<1>3. /\ Planning(r)' = Planning(r) /\ Planned(r)' = Planned(r)
      /\ ShardDone(r)' = ShardDone(r) /\ MetaDone(r)' = MetaDone(r)
  BY DEF Planning, Planned, ShardDone, MetaDone, InChild
<1>4. ~Alive(r) => ~Planning(r)
  BY DEF Planning, Alive
<1>5. Planning(r) => cache'[r] = cache[r]
  BY <1>4
<1> QED
  BY <1>1, <1>2, <1>3, <1>5, ChildStep

LEMMA JoinW ==
    ASSUME IInv, WInv, NEW r \in Rank, JoinThread(r)
    PROVE  WInv'
<1>1. TypeOK /\ Saves
  BY DEF IInv
<1>2. /\ join[r] # "none" /\ Others(r)
      /\ UNCHANGED << life, fresh, pc, gstep, last, pend, phase, queue, disk, ptr >>
  BY <1>1 DEF JoinThread, JoinTakes, JoinTimesOut, JoinAsksAgain, JoinLooksAgain, Resolve,
     Others, TypeOK, trainer, persist
<1>3. CASE JoinTimesOut(r) \/ JoinAsksAgain(r)
  <2>1. fut' = fut /\ cache' = cache
    BY <1>3 DEF JoinTimesOut, JoinAsksAgain
  <2> QED
    BY <1>2, <2>1, ThreadStep
<1>4. CASE JoinTakes(r) \/ JoinLooksAgain(r)
  <2>1. ~Alive(r) /\ Resolve(r, queue[r])
    BY <1>1, <1>2, <1>4 DEF JoinTakes, JoinLooksAgain, Saves
  <2>2. CASE queue[r] = "success"
    <3>1. fut'[r] = "ok" /\ cache'[r] = cache[r] \cup {Keys(r, pend[r])}
      BY <1>1, <1>2, <2>1, <2>2 DEF Resolve, TypeOK, Saves, InChild, SaveStep
    <3> QED
      BY <1>2, <2>1, <2>2, <3>1, ThreadStep
  <2>3. CASE queue[r] # "success"
    <3>1. fut'[r] = "failed" /\ cache'[r] = cache[r]
      BY <1>1, <2>1, <2>3 DEF Resolve, TypeOK
    <3> QED
      BY <1>2, <2>1, <3>1, ThreadStep
  <2> QED
    BY <2>2, <2>3
<1> QED
  BY <1>3, <1>4 DEF JoinThread

\* The plan of the save a rank dispatches is in its cache and in the other idle
\* ranks' caches, or in none and then all children of the save exchange plans.
LEMMA DispatchPlans ==
    ASSUME IInv, WInv, NEW r \in Rank, pc[r] = "extra_w", Others(r),
           UNCHANGED << life, fresh, gstep, cache, ptr >>,
           SaveStep(r) = gstep[r], gstep[r] \in Dir, IsSave(gstep[r]), ~InChild(r), Step(r) = gstep[r],
           Writes1("extra", gstep[r], r, Whole),
           phase'[r] = IF HasPlan(r, gstep[r]) THEN "shard"
                       ELSE IF Synchronous(gstep[r]) THEN "plans" ELSE "plan",
           \/ pc'[r] = "persist" /\ pend'[r] = pend[r]
           \/ pc'[r] = "train" /\ pend'[r] = gstep[r] /\ ~Synchronous(gstep[r])
    PROVE  PlanCached'
<1> USE CheckpointAssumption
<1> SUFFICES ASSUME KeysComeTogether'
             PROVE  PlanCached'
  BY DEF PlanCached
<1>1. TypeOK /\ KeysComeTogether /\ Up(r) /\ Idle(r) /\ gstep[r] \in SaveDirs
  BY DEF IInv, KeysComeTogether, Keys, Up, Idle, SaveDirs
<1>2. \A q \in Rank, d \in Dir : HasPlan(q, d)' = HasPlan(q, d) /\ Keys(q, d)' = Keys(q, d)
  BY DEF HasPlan, Keys
<1>3. \A q \in Rank \ {r} :
         /\ pend'[q] = pend[q] /\ Up(q)' = Up(q) /\ Idle(q)' = Idle(q)
         /\ Planning(q)' = Planning(q) /\ Planned(q)' = Planned(q)
         /\ \A d \in Dir : Brings(q, d)' = Brings(q, d)
  BY DEF Others, Idle, Planning, Planned, Brings, InChild, Up, Keys
<1>4. \A q \in Rank : Planning(q) \/ Planned(q) => pend[q] = gstep[r]
  <2> SUFFICES ASSUME NEW q \in Rank, Planning(q) \/ Planned(q)
               PROVE  pend[q] = gstep[r]
    OBVIOUS
  <2>1. Alive(q) /\ InChild(q)
    BY DEF Planning, Planned, Alive
  <2>2. Up(q) /\ Step(q) = pend[q]
    BY <2>1, AliveStage DEF SaveStep, InChild
  <2> QED
    BY <1>1, <2>2 DEF WInv, Together
<1>5. \A q \in Rank : Idle(q) => (HasPlan(q, gstep[r]) <=> HasPlan(r, gstep[r]))
  BY <1>1 DEF WInv, PlanCached, Idle, Brings
<1>6. \/ Idle(r)' /\ ~Planning(r)' /\ ~Planned(r)' /\ \A d \in Dir : ~Brings(r, d)'
      \/ /\ ~Idle(r)' /\ pend'[r] = gstep[r]
         /\ Planning(r)' <=> ~HasPlan(r, gstep[r])
         /\ Planned(r)' <=> HasPlan(r, gstep[r])
  <2>1. CASE pc'[r] = "persist" /\ pend'[r] = pend[r]
    BY <2>1 DEF Idle, Planning, Planned, Brings, InChild, Up
  <2>2. CASE pc'[r] = "train" /\ pend'[r] = gstep[r] /\ ~Synchronous(gstep[r])
    <3>1. InChild(r)'
      BY <2>2 DEF InChild, Dir
    <3>2. phase'[r] = IF HasPlan(r, gstep[r]) THEN "shard" ELSE "plan"
      BY <2>2
    <3>3. /\ Planning(r)' <=> phase'[r] \in {"plan", "plans"}
          /\ Planned(r)' <=> phase'[r] \in
                {"plans", "shard", "data", "results", "put", "meta"}
      BY <3>1 DEF Planning, Planned
    <3> QED
      BY <2>2, <3>1, <3>2, <3>3 DEF Idle
  <2> QED
    BY <2>1, <2>2
<1>7. ASSUME NEW p \in Rank, NEW q \in Rank, NEW d \in SaveDirs, Up(p)', Up(q)'
      PROVE  (HasPlan(p, d)' <=> HasPlan(q, d)') \/ Brings(p, d)' \/ Brings(q, d)'
  <2>1. d \in Dir /\ Up(p) /\ Up(q)
    BY <1>1, <1>3, <1>7 DEF SaveDirs
  <2>2. (HasPlan(p, d) <=> HasPlan(q, d)) \/ Brings(p, d) \/ Brings(q, d)
    BY <1>1, <2>1 DEF WInv, PlanCached
  <2>3. ~Brings(r, d)
    BY DEF Brings
  <2> QED
    BY <1>2, <1>3, <2>1, <2>2, <2>3
<1>8. ASSUME NEW p \in Rank, Planning(p)'
      PROVE  ~HasPlan(p, gstep[r]) /\ \A q \in Rank : Idle(q) => ~HasPlan(q, gstep[r])
  <2>1. CASE p = r
    BY <1>5, <1>6, <1>8, <2>1
  <2>2. CASE p # r
    BY <1>1, <1>3, <1>4, <1>8, <2>2 DEF WInv, PlanCached
  <2> QED
    BY <2>1, <2>2
<1>9. ASSUME NEW p \in Rank, Planned(p)', ~disk'["plan"][pend'[p]][p].whole
      PROVE  \A q \in Rank : ~Planning(q)' /\ (Idle(q) => HasPlan(q, gstep[r]))
  <2>1. CASE p = r
    <3>1. HasPlan(r, gstep[r])
      BY <1>6, <1>9, <2>1
    <3>2. \A q \in Rank : ~Planning(q)
      BY <1>1, <1>4, <3>1 DEF WInv, PlanCached
    <3> QED
      BY <1>3, <1>5, <1>6, <3>1, <3>2
  <2>2. CASE p # r
    <3>1. Planned(p) /\ pend'[p] = pend[p] /\ pend[p] = gstep[r]
      BY <1>3, <1>4, <1>9, <2>2
    <3>2. disk'["plan"][pend[p]][p] = disk["plan"][pend[p]][p]
      BY <3>1 DEF Writes1, Kinds
    <3>3. \A q \in Rank : ~Planning(q) /\ (Idle(q) => HasPlan(q, gstep[r]))
      BY <1>1, <1>9, <3>1, <3>2 DEF WInv, PlanCached
    <3> QED
      BY <1>1, <1>3, <1>6, <3>3
  <2> QED
    BY <2>1, <2>2
<1>10. \A q \in Rank : Idle(q)' => Idle(q)
  BY <1>1, <1>3
<1>11. \A p \in Rank : Planning(p)' \/ Planned(p)' => pend'[p] = gstep[r]
  BY <1>3, <1>4, <1>6
<1>12. \A p \in Rank : Planning(p)' =>
          /\ ~HasPlan(p, pend[p])'
          /\ \A q \in Rank : Idle(q)' => ~HasPlan(q, pend[p])'
  BY <1>8, <1>10, <1>11 DEF HasPlan, Keys
<1>13. \A p \in Rank : Planned(p)' =>
          \/ disk'["plan"][pend'[p]][p].whole
          \/ \A q \in Rank : ~Planning(q)' /\ (Idle(q)' => HasPlan(q, pend[p])')
  BY <1>9, <1>10, <1>11 DEF HasPlan, Keys
<1> QED
  BY <1>7, <1>12, <1>13 DEF PlanCached

\* The save is dispatched with the plan of its own cache, if that has one.
LEMMA DispatchW ==
    ASSUME IInv, WInv, NEW r \in Rank, Dispatch(r)
    PROVE  WInv'
<1> USE CheckpointAssumption
<1>1. /\ pc[r] = "extra_w"
      /\ phase' = [phase EXCEPT ![r] = FirstPhase(r)]
      /\ disk' = [disk EXCEPT !["extra"][gstep[r]][r] = Whole]
      /\ UNCHANGED << life, fresh, gstep, cache, ptr >>
  BY DEF Dispatch
<1>2. TypeOK /\ pend[r] = 0 /\ gstep[r] # 0 /\ PacedAt(r) /\ PhasesAt(r)
  BY <1>1 DEF IInv, Saves, InChild, WInv, Ranks
<1>3. SaveStep(r) = gstep[r] /\ gstep[r] \in Dir /\ ~InChild(r) /\ Up(r)
  BY <1>1, <1>2 DEF SaveStep, TypeOK, Dir, InChild, Up
<1>4. \/ /\ Synchronous(gstep[r]) /\ pc'[r] = "persist"
         /\ UNCHANGED << pend, last, fut, queue >>
      \/ /\ ~Synchronous(gstep[r]) /\ pc'[r] = "train" /\ pend'[r] = gstep[r]
         /\ last'[r] = gstep[r] /\ fut'[r] = "pending" /\ queue'[r] = "empty"
  BY <1>2 DEF Dispatch, TypeOK
<1>5. phase'[r] = IF HasPlan(r, gstep[r]) THEN "shard"
                  ELSE IF Synchronous(gstep[r]) THEN "plans" ELSE "plan"
  BY <1>1, <1>2 DEF FirstPhase, TypeOK
<1>6. /\ Stage(r) = IF ~Synchronous(gstep[r]) THEN "fin1"
                    ELSE IF HasPlan(r, gstep[r]) THEN "results" ELSE "plans"
      /\ Stage(r)' = Stage(r)
  BY <1>1, <1>3, <1>4, <1>5 DEF Stage, Publishing, TypeOK, Dir
<1>7. Step(r) = gstep[r] /\ Step(r)' = gstep[r] /\ SaveStep(r)' = gstep[r]
  <2>1. SaveStep(r)' = gstep[r]
    BY <1>1, <1>2, <1>4 DEF SaveStep
  <2> QED
    BY <1>1, <1>3, <1>4, <1>6, <2>1 DEF Step
<1>8. Writes1("extra", gstep[r], r, Whole)
  BY <1>1, <1>2, <1>3, ExceptWrites DEF Kinds
<1>9. Others(r)
  BY <1>1, <1>2 DEF Dispatch, Others, TypeOK
<1>10. Touches(r)
  <2>1. Whole # Missing
    BY <1>2 DEF Whole, Missing, TypeOK
  <2>2. Stage(r) \in SaveStages
    BY <1>6 DEF SaveStages
  <2> QED
    BY <1>3, <1>7, <1>8, <2>1, <2>2 DEF Writes1, Touches
<1>11. Kept(r)
  BY <1>1, <1>4, <1>6, <1>7 DEF Kept, Publishing
<1>12. PacedAt(r)'
  <2>1. /\ last[r] < gstep[r] /\ NoSaveBetween(last[r], gstep[r]) /\ IsSave(gstep[r])
    BY <1>1, <1>2 DEF PacedAt
  <2>2. CASE pc'[r] = "persist"
    BY <1>1, <1>2, <1>4, <2>1, <2>2 DEF PacedAt, TypeOK, Finalizing, Publishing
  <2>3. CASE pc'[r] = "train"
    <3>1. last'[r] = gstep[r] /\ gstep'[r] = gstep[r] /\ gstep[r] \in Int
      BY <1>1, <1>2, <1>4, <2>3 DEF TypeOK
    <3>2. NoSaveBetween(last'[r], gstep'[r])
      BY <3>1, <1>3 DEF NoSaveBetween, Dir
    <3> QED
      BY <2>3, <3>1, <3>2 DEF PacedAt, Finalizing, Publishing
  <2> QED
    BY <1>4, <2>2, <2>3
<1>13. PhasesAt(r)'
  <2>1. HasPlan(r, gstep[r])' = HasPlan(r, gstep[r])
    BY <1>1 DEF HasPlan, Keys
  <2> QED
    BY <1>1, <1>2, <1>4, <1>5, <2>1 DEF PhasesAt, InChild, Finalizing, Publishing
<1>14. ShelvedAt(r)'
  <2>1. Mine("extra", r)'
    <3>1. disk'["extra"][gstep[r]][r] = Whole
      BY <1>3, <1>8 DEF Writes1, Kinds
    <3>2. Whole' = Whole
      BY <1>1 DEF Whole
    <3> QED
      BY <1>7, <3>1, <3>2 DEF Mine
  <2>2. ~ShardDone(r)' /\ ~MetaDone(r)'
    BY <1>2, <1>4, <1>5 DEF ShardDone, MetaDone, InChild, Finalizing, Publishing
  <2> QED
    BY <2>1, <2>2 DEF ShelvedAt
<1>15. Together' /\ Ranks' /\ Placed' /\ PointerWhole'
  BY <1>1, <1>9, <1>10, <1>11, <1>12, <1>13, <1>14, RankStep
<1>16. PlanCached'
  <2>1. IsSave(gstep[r])
    BY <1>1, <1>2 DEF PacedAt
  <2> QED
    BY <1>1, <1>3, <1>4, <1>5, <1>7, <1>8, <1>9, <2>1, DispatchPlans
<1> QED
  BY <1>15, <1>16 DEF WInv

-----------------------------------------------------------------------------
(***************************************************************************)
(* The pointer                                                             *)
(***************************************************************************)
\* The coordinator publishes while every rank is between the two barriers of the
\* finalization.
LEMMA PublishStep ==
    ASSUME IInv, WInv, pc[Coord] \in {"point", "point_w"}, pc'[Coord] \in {"point_w", "fin2"},
           Others(Coord),
           UNCHANGED << life, fresh, gstep, last, pend, fut, cache, phase, queue, disk >>
    PROVE  /\ \A p \in Rank : /\ Up(p) /\ Stage(p) = "fin2" /\ Step(p) = Step(Coord)
                              /\ pc[p] \in Publishing /\ SaveStep(p) = Step(Coord)
                              /\ Up(p)' /\ Stage(p)' = "fin2" /\ Step(p)' = Step(p)
           /\ Together' /\ Ranks' /\ PlanCached'
<1> USE CheckpointAssumption
<1>1. Up(Coord) /\ Stage(Coord) = "fin2"
  BY DEF Up, Stage, Publishing
<1>2. \A p \in Rank : /\ Up(p) /\ Stage(p) = "fin2" /\ Step(p) = Step(Coord)
                      /\ pc[p] \in Publishing /\ SaveStep(p) = Step(Coord)
  <2>1. \A p \in Rank : Up(p) /\ Stage(p) = "fin2" /\ Step(p) = Step(Coord)
    BY <1>1 DEF WInv, Together, Gathers
  <2>2. \A p \in Rank : pc[p] \in Publishing
    BY <2>1 DEF Stage
  <2>3. \A p \in Rank : Step(p) = SaveStep(p)
    BY <2>1, <2>2 DEF Step, Publishing
  <2> QED
    BY <2>1, <2>2, <2>3
<1>3. \A p \in Rank : pc'[p] \in Publishing /\ (p # Coord => pc'[p] = pc[p])
  BY <1>2 DEF Others, Publishing
<1>4. \A p \in Rank : Up(p)' /\ Stage(p)' = "fin2" /\ Step(p)' = Step(p)
  <2>1. \A p \in Rank : Up(p)' /\ Stage(p)' = "fin2"
    BY <1>3 DEF Up, Stage, Publishing
  <2>2. \A p \in Rank : Step(p)' = SaveStep(p)'
    BY <1>3, <2>1 DEF Step, Publishing
  <2>3. \A p \in Rank : SaveStep(p)' = SaveStep(p)
    BY DEF SaveStep
  <2> QED
    BY <1>2, <2>1, <2>2, <2>3
<1>5. Together'
  BY <1>2, <1>4 DEF Together
<1>6. Ranks'
  <2> SUFFICES ASSUME NEW p \in Rank
               PROVE  PacedAt(p)' /\ PhasesAt(p)' /\ ShelvedAt(p)'
    BY DEF Ranks
  <2>1. PacedAt(p) /\ PhasesAt(p) /\ ShelvedAt(p)
    BY DEF WInv, Ranks
  <2>2. /\ pc[p] \in Publishing /\ pc'[p] \in Publishing
        /\ pc[p] \in Finalizing /\ pc'[p] \in Finalizing
    BY <1>2, <1>3 DEF Finalizing
  <2>3. PacedAt(p)'
    BY <2>1, <2>2 DEF PacedAt, Publishing
  <2>4. PhasesAt(p)'
    BY <2>1, <2>2 DEF PhasesAt, InChild, Publishing, HasPlan, Keys
  <2>5. ShelvedAt(p)'
    BY <2>1, <2>2 DEF ShelvedAt, ExtraDone, ShardDone, MetaDone, Mine, SaveStep, Whole
  <2> QED
    BY <2>3, <2>4, <2>5
<1>7. PlanCached'
  <2>1. \A p \in Rank : PlanStays(p)
    BY <1>2, <1>4, PlansAlone DEF Idle, InChild
  <2> QED
    BY <2>1, PlanKept DEF WInv
<1> QED
  BY <1>2, <1>4, <1>5, <1>6, <1>7

LEMMA OpenPointerW ==
    ASSUME IInv, WInv, OpenPointer
    PROVE  WInv'
<1> USE CheckpointAssumption
<1>1. /\ pc[Coord] = "point" /\ ptr' = 0 /\ pc'[Coord] = "point_w" /\ Others(Coord)
      /\ UNCHANGED << life, fresh, gstep, last, pend, fut, cache, phase, queue, disk >>
  BY DEF OpenPointer, Others, IInv, TypeOK, persist, thread
<1>2. /\ \A p \in Rank : Stage(p) = "fin2" /\ Up(p) /\ Stage(p)' = "fin2" /\ Step(p)' = Step(p)
      /\ Together' /\ Ranks' /\ PlanCached'
  BY <1>1, PublishStep
<1>3. \A p \in Rank : PlacedAt(p)'
  <2> SUFFICES ASSUME NEW p \in Rank PROVE AllUpTo(Step(p))'
    BY <1>2 DEF PlacedAt, SaveStages
  <2>1. AllUpTo(Step(p))
    BY <1>2 DEF WInv, Placed, PlacedAt
  <2> QED
    BY <1>1, <1>2, <2>1 DEF AllUpTo, IsComplete
<1>4. Placed' /\ PointerWhole'
  BY <1>1, <1>3 DEF Placed, PointerWhole
<1> QED
  BY <1>2, <1>4 DEF WInv

\* Everything a restart reads of the published checkpoint has been written in this life.
LEMMA SavedWhole ==
    ASSUME IInv, WInv, NEW d \in Dir,
           \A p \in Rank : pc[p] \in Publishing /\ SaveStep(p) = d
    PROVE  Restorable(d)
<1> USE CheckpointAssumption
<1>1. \A p \in Rank : Mine("extra", p) /\ Mine("shard", p)
  BY DEF WInv, Ranks, ShelvedAt, ExtraDone, ShardDone, Finalizing
<1>2. Mine("meta", Coord)
  BY DEF WInv, Ranks, ShelvedAt, MetaDone, Finalizing
<1>3. life \in 1 .. MaxLife
  BY DEF IInv, TypeOK
<1> QED
  BY <1>1, <1>2, <1>3 DEF Mine, Whole, Restorable

LEMMA WritePointerW ==
    ASSUME IInv, WInv, WritePointer
    PROVE  WInv'
<1> USE CheckpointAssumption
<1>1. /\ pc[Coord] = "point_w" /\ ptr' = SaveStep(Coord) /\ pc'[Coord] = "fin2" /\ Others(Coord)
      /\ UNCHANGED << life, fresh, gstep, last, pend, fut, cache, phase, queue, disk >>
  BY DEF WritePointer, Others, IInv, TypeOK, persist, thread
<1>2. /\ \A p \in Rank : /\ Stage(p) = "fin2" /\ Up(p) /\ Step(p) = Step(Coord)
                         /\ pc[p] \in Publishing /\ SaveStep(p) = Step(Coord)
                         /\ Stage(p)' = "fin2" /\ Step(p)' = Step(p)
      /\ Together' /\ Ranks' /\ PlanCached'
  BY <1>1, PublishStep
<1>3. ptr' = Step(Coord) /\ Step(Coord) \in Dir
  <2>1. SaveStep(Coord) \in Dir
    BY <1>1, SaveStepDir DEF IInv
  <2> QED
    BY <1>1, <1>2, <2>1
<1>4. AllUpTo(Step(Coord))
  BY <1>2 DEF WInv, Placed, PlacedAt
<1>5. \A p \in Rank : PlacedAt(p)'
  <2> SUFFICES ASSUME NEW p \in Rank PROVE AllUpTo(Step(p))'
    BY <1>2 DEF PlacedAt, SaveStages
  <2> QED
    BY <1>1, <1>2, <1>4 DEF AllUpTo, IsComplete
<1>6. (ptr # 0 => NextAtMost(ptr))'
  BY <1>1, <1>3, <1>4 DEF NextAtMost, NoSaveBetween, AllUpTo, IsComplete, Dir
<1>7. Placed'
  BY <1>1, <1>2, <1>3, <1>5, <1>6 DEF Placed
<1>8. PointerWhole'
  <2>1. Restorable(Step(Coord))
    BY <1>2, <1>3, SavedWhole
  <2> QED
    BY <1>1, <1>3, <2>1 DEF PointerWhole, Restorable
<1> QED
  BY <1>2, <1>7, <1>8 DEF WInv

-----------------------------------------------------------------------------
(***************************************************************************)
(* Start and restart                                                       *)
(***************************************************************************)
\* Nobody has done anything in this life: the disk is as the last one left it.
Restarted ==
    /\ \A r \in Rank : pc[r] = "begin" /\ pend[r] = 0 /\ cache[r] = {} /\ phase[r] = "none"
    /\ PointerWhole /\ (ptr # 0 => NextAtMost(ptr))

LEMMA RestartedStart == TypeOK /\ Restarted => WInv
<1> SUFFICES ASSUME TypeOK, Restarted PROVE WInv
  OBVIOUS
<1> USE CheckpointAssumption
<1>1. Together
  BY DEF Restarted, Together, Stage, Step, Up, Publishing
<1>2. Ranks
  BY DEF Restarted, Ranks, PacedAt, PhasesAt, ShelvedAt, ExtraDone, ShardDone, MetaDone, InChild,
     Finalizing, Publishing
<1>3. PlanCached
  BY DEF Restarted, PlanCached, HasPlan, Planning, Planned, InChild
<1>4. ASSUME NEW r \in Rank PROVE PlacedAt(r)
  <2>1. /\ Stage(r) = IF FindLatest = 0 THEN "dir" ELSE "load"
        /\ Step(r) = IF FindLatest = 0 THEN -1 ELSE FindLatest
    BY DEF Restarted, Stage, Step, Publishing
  <2>2. CASE ptr = 0
    <3>1. FindLatest = LargestComplete
      BY <2>2 DEF FindLatest
    <3>2. \A e \in Dir : IsComplete(e) => /\ LargestComplete # 0 /\ LargestComplete \in Dir
                                           /\ e <= LargestComplete
      BY ScanLargest DEF ScanResult, Dir
    <3>3. NextAtMost(Step(r))
      BY <2>1, <3>1, <3>2 DEF NextAtMost, NoSaveBetween, Dir
    <3> QED
      BY <2>1, <2>2, <3>3 DEF PlacedAt, SaveStages
  <2>3. CASE ptr # 0
    <3>1. FindLatest = ptr
      BY <2>3, PointerFound DEF Restarted
    <3> QED
      BY <2>1, <2>3, <3>1 DEF Restarted, PlacedAt, SaveStages
  <2> QED
    BY <2>2, <2>3
<1>5. Placed
  BY <1>4 DEF Restarted, Placed
<1> QED
  BY <1>1, <1>2, <1>3, <1>5 DEF Restarted, WInv

LEMMA InitW == Init => WInv
<1>1. Init => TypeOK
  BY InitInv DEF IInv
<1>2. Init => Restarted
  BY DEF Init, Restarted, PointerWhole
<1> QED
  BY <1>1, <1>2, RestartedStart

LEMMA CrashW ==
    ASSUME IInv, IInv', WInv, Crash
    PROVE  WInv'
<1>1. UNCHANGED << disk, ptr >>
  BY DEF Crash
<1>2. PointerWhole'
  BY <1>1 DEF WInv, PointerWhole, Restorable
<1>3. (ptr # 0 => NextAtMost(ptr))'
  BY <1>1 DEF WInv, Placed, NextAtMost, NoSaveBetween, IsComplete
<1>4. Restarted'
  BY <1>2, <1>3 DEF Crash, Restarted
<1> QED
  BY <1>4, RestartedStart, PTL DEF IInv

-----------------------------------------------------------------------------
(***************************************************************************)
(* The collectives                                                         *)
(***************************************************************************)
\* A rank that trains on from a step reaches one step to save first.
LEMMA NextSaveUnique ==
    ASSUME NEW a \in Int, NEW g \in Dir, NEW h \in Dir, a < g, a < h, IsSave(g), IsSave(h),
           NoSaveBetween(a, g), NoSaveBetween(a, h)
    PROVE  g = h
  BY CheckpointAssumption DEF NoSaveBetween, Dir

\* Ranks in a collective at the same time are in the same one, for the same step;
\* or they are in one all_gather_object with different things to gather.
LEMMA SameCollective ==
    ASSUME IInv, WInv, NEW r \in Rank, NEW q \in Rank, InCollective(r), InCollective(q)
    PROVE  /\ pc[r] = pc[q] /\ Step(r) = Step(q)
           /\ pc[r] = "persist" => /\ pend[r] = 0 /\ pend[q] = 0
                                   /\ phase[r] = phase[q] \/ {phase[r], phase[q]} = Gathers
           /\ pc[r] \in {"load", "dir"} => pend[r] = 0 /\ pend[q] = 0
           /\ pend[r] = 0 \/ pend[q] = 0 => gstep[r] = gstep[q]
           /\ SaveStep(r) = SaveStep(q)
<1> USE CheckpointAssumption
<1>1. TypeOK /\ Saves /\ PhasesAt(r) /\ PhasesAt(q) /\ PacedAt(r) /\ PacedAt(q)
  BY DEF IInv, WInv, Ranks
<1>2. Up(r) /\ Up(q)
  BY DEF InCollective, Up
<1>3. (Stage(r) = Stage(q) \/ {Stage(r), Stage(q)} \subseteq Gathers) /\ Step(r) = Step(q)
  BY <1>2 DEF WInv, Together
<1>4. \A p \in {r, q} :
         /\ pc[p] = "load" <=> Stage(p) = "load"
         /\ pc[p] = "dir" <=> Stage(p) = "dir"
         /\ pc[p] = "fin1" <=> Stage(p) = "fin1"
         /\ pc[p] = "fin2" <=> Stage(p) = "fin2"
         /\ pc[p] = "persist" /\ phase[p] = "plans" <=> Stage(p) = "plans"
         /\ pc[p] = "persist" /\ phase[p] = "results" <=> Stage(p) = "results"
         /\ pc[p] = "persist" /\ phase[p] = "saved" <=> Stage(p) = "saved"
  BY DEF InCollective, Stage, Publishing
<1>5. /\ pc[r] = pc[q]
      /\ pc[r] = "persist" => phase[r] = phase[q] \/ {phase[r], phase[q]} = Gathers
  BY <1>3, <1>4 DEF InCollective, Gathers
<1>6. \A p \in {r, q} : pc[p] \in {"load", "dir", "persist"} => pend[p] = 0
  BY <1>1 DEF Saves, InChild
<1>7. /\ Step(r) = IF pc[r] \in {"load", "dir"} THEN last[r] ELSE SaveStep(r)
      /\ Step(q) = IF pc[q] \in {"load", "dir"} THEN last[q] ELSE SaveStep(q)
  BY <1>4 DEF InCollective, Step
<1>8. CASE pc[r] = "load"
  <2>1. gstep[r] = gstep[q]
    BY <1>1, <1>3, <1>5, <1>7, <1>8 DEF PacedAt
  <2> QED
    BY <1>3, <1>5, <1>6, <1>8, <2>1 DEF SaveStep
<1>9. CASE pc[r] = "dir"
  <2>1. ASSUME NEW p \in Rank, pc[p] = "dir", PacedAt(p)
        PROVE  /\ gstep[p] \in Dir /\ last[p] < gstep[p] /\ last[p] \in Int
               /\ NoSaveBetween(last[p], gstep[p]) /\ IsSave(gstep[p])
    <3>1. gstep[p] # 0
      BY <1>1, <2>1 DEF Saves
    <3>2. gstep[p] \in 0 .. TrainSteps /\ last[p] \in Int
      BY <1>1 DEF TypeOK
    <3> HIDE DEF TypeOK
    <3> QED
      BY <2>1, <3>1, <3>2 DEF PacedAt, Dir
  <2>2. pc[q] = "dir" /\ last[r] = Step(r) /\ last[q] = Step(q)
    BY <1>5, <1>7, <1>9
  <2>3. last[r] = last[q]
    BY <1>3, <2>2
  <2>4. gstep[r] = gstep[q]
    <3>1. /\ gstep[r] \in Dir /\ last[r] < gstep[r] /\ last[r] \in Int
          /\ NoSaveBetween(last[r], gstep[r]) /\ IsSave(gstep[r])
      BY <1>1, <1>9, <2>1
    <3>2. /\ gstep[q] \in Dir /\ last[r] < gstep[q]
          /\ NoSaveBetween(last[r], gstep[q]) /\ IsSave(gstep[q])
      BY <1>1, <2>1, <2>2, <2>3
    <3> QED
      BY <3>1, <3>2, NextSaveUnique
  <2> QED
    BY <1>3, <1>5, <1>6, <1>9, <2>4 DEF SaveStep
<1>10. CASE pc[r] \notin {"load", "dir"}
  <2>1. SaveStep(r) = SaveStep(q)
    BY <1>3, <1>5, <1>7, <1>10
  <2>2. pc[r] = "persist" \/ pc[r] \in Finalizing
    BY <1>10 DEF InCollective, Finalizing, Publishing
  <2>3. \A p \in {r, q} : Synchronous(SaveStep(p)) <=> pend[p] = 0
    BY <1>1, <1>5, <1>6, <2>2 DEF PhasesAt, SaveStep, InChild
  <2>4. pend[r] = 0 \/ pend[q] = 0 => gstep[r] = gstep[q]
    BY <2>1, <2>3 DEF SaveStep
  <2> QED
    BY <1>3, <1>5, <1>6, <1>10, <2>1, <2>4
<1> QED
  BY <1>8, <1>9, <1>10

\* Where the state dicts grow together the plan caches lead no rank of a synchronous
\* save past a gather that another one is in.
LEMMA SameGather ==
    ASSUME IInv, WInv, KeysComeTogether, NEW r \in Rank, NEW q \in Rank,
           InCollective(r), InCollective(q), pc[r] = "persist"
    PROVE  phase[r] = phase[q] /\ gstep[r] = gstep[q] /\ gstep[r] \in SaveDirs
<1>1. /\ pc[q] = "persist" /\ pend[r] = 0 /\ pend[q] = 0 /\ gstep[r] = gstep[q]
      /\ phase[r] = phase[q] \/ {phase[r], phase[q]} = Gathers
  BY SameCollective
<1>2. gstep[r] \in SaveDirs
  <2>1. gstep[r] # 0 /\ gstep[r] \in 0 .. TrainSteps
    BY DEF IInv, Saves, TypeOK
  <2>2. IsSave(gstep[r])
    BY DEF WInv, Ranks, PacedAt
  <2> QED
    BY <2>1, <2>2, CheckpointAssumption DEF SaveDirs, Dir
<1>3. HasPlan(r, gstep[r]) <=> HasPlan(q, gstep[r])
  BY <1>1, <1>2 DEF WInv, PlanCached, Brings, InChild, Up
<1>4. /\ phase[r] = "plans" <=> ~HasPlan(r, gstep[r])
      /\ phase[q] = "plans" <=> ~HasPlan(q, gstep[q])
  BY <1>1 DEF WInv, Ranks, PhasesAt
<1> QED
  BY <1>1, <1>2, <1>3, <1>4 DEF Gathers

LEMMA CollectiveEffect ==
    ASSUME IInv, WInv, Collective, NEW r \in Rank
    PROVE  /\ InCollective(r) /\ pc'[r] = AfterCollective(r)
           /\ pc[r] # "persist" => ~Chokes(r) /\ phase'[r] = phase[r]
           /\ Chokes(r) => phase[r] \in Gathers /\ phase'[r] = "none"
           /\ pc[r] = "persist" => phase[r] \in {"plans", "results", "saved"}
           /\ pc[r] = "persist" /\ ~Chokes(r) =>
                 phase'[r] = CASE phase[r] = "plans"   -> "shard"
                               [] phase[r] = "results" -> IF r = Coord THEN "meta" ELSE "saved"
                               [] phase[r] = "saved"   -> "none"
           /\ cache'[r] = IF pc[r] = "persist" /\ phase[r] = "plans" /\ ~Chokes(r)
                          THEN cache[r] \cup {Keys(r, gstep[r])} ELSE cache[r]
           /\ last'[r] = IF pc[r] = "fin2" /\ pend[r] = 0 THEN gstep[r] ELSE last[r]
           /\ pend'[r] = IF pc[r] = "fin2" THEN 0 ELSE pend[r]
           /\ fut'[r] = IF pc[r] = "fin2" THEN "none" ELSE fut[r]
           /\ UNCHANGED << life, fresh, gstep, queue, disk, ptr >>
           /\ pc[r] \in {"load", "dir", "persist"} => pend[r] = 0
           /\ pc[r] # "load" => gstep[r] \in Dir
           /\ ~InChild(r) \/ ~Alive(r)
<1> USE CheckpointAssumption
<1>1. InCollective(r) /\ TypeOK /\ Saves
  BY DEF Collective, IInv
<1>2. /\ pc'[r] = AfterCollective(r)
      /\ phase'[r] = IF Chokes(r) THEN "none"
                     ELSE CASE pc[r] # "persist"    -> phase[r]
                            [] phase[r] = "plans"   -> "shard"
                            [] phase[r] = "results" -> IF r = Coord THEN "meta" ELSE "saved"
                            [] phase[r] = "saved"   -> "none"
      /\ cache'[r] = IF pc[r] = "persist" /\ phase[r] = "plans" /\ ~Chokes(r)
                     THEN cache[r] \cup {Keys(r, SaveStep(r))} ELSE cache[r]
      /\ Chokes(r) => pc[r] = "persist" /\ phase[r] \in Gathers
  BY DEF Collective, Chokes, Gathers
<1>3. /\ last'[r] = IF pc[r] = "fin2" /\ pend[r] = 0 THEN gstep[r] ELSE last[r]
      /\ pend'[r] = IF pc[r] = "fin2" THEN 0 ELSE pend[r]
      /\ fut'[r] = IF pc[r] = "fin2" THEN "none" ELSE fut[r]
      /\ UNCHANGED << life, fresh, gstep, queue, disk, ptr >>
  BY DEF Collective
<1>4. /\ pc[r] \in {"load", "dir", "persist"} => pend[r] = 0
      /\ pc[r] # "load" => gstep[r] \in Dir
  <2>1. /\ pend[r] # 0 => pc[r] \in {"train", "wait", "fin1", "point", "point_w", "fin2"}
        /\ pc[r] # "load" => gstep[r] # 0
    BY <1>1 DEF InCollective, Saves, InChild
  <2>2. gstep[r] \in 0 .. TrainSteps
    BY <1>1 DEF TypeOK
  <2> QED
    BY <2>1, <2>2 DEF Dir
<1>5. pc[r] # "persist" => ~Alive(r)
  BY <1>1 DEF InCollective, Saves
<1>6. pc[r] # "persist" => phase[r] \notin {"plans", "results", "saved"}
  BY <1>5 DEF Alive
<1>7. pc[r] # "persist" => phase'[r] = phase[r]
  BY <1>2, <1>6
<1>8. /\ pc[r] = "persist" => phase[r] \in {"plans", "results", "saved"}
      /\ pc[r] = "persist" /\ ~Chokes(r) =>
            phase'[r] = CASE phase[r] = "plans"   -> "shard"
                          [] phase[r] = "results" -> IF r = Coord THEN "meta" ELSE "saved"
                          [] phase[r] = "saved"   -> "none"
  BY <1>1, <1>2 DEF InCollective
<1>9. ~InChild(r) \/ ~Alive(r)
  BY <1>1, <1>4, <1>5 DEF InChild
<1>10. pc[r] = "persist" => SaveStep(r) = gstep[r]
  BY <1>4 DEF SaveStep
<1> QED
  BY <1>1, <1>2, <1>3, <1>4, <1>7, <1>8, <1>9, <1>10

\* Where a rank goes from a collective, and that it is still about the same checkpoint.
LEMMA CollectiveStage ==
    ASSUME IInv, WInv, Collective, NEW r \in Rank
    PROVE  /\ Up(r) /\ (Up(r)' <=> ~Chokes(r))
           /\ pc[r] = "load" => /\ Stage(r) = "load" /\ Stage(r)' = "dir"
                                /\ Step(r)' = Step(r)
           /\ pc[r] = "dir" =>
                 /\ Stage(r) = "dir" /\ Step(r) = last[r] /\ Step(r)' = gstep[r]
                 /\ Stage(r)' = IF ~Synchronous(gstep[r]) THEN "fin1"
                                ELSE IF HasPlan(r, gstep[r]) THEN "results" ELSE "plans"
           /\ pc[r] = "persist" /\ phase[r] = "plans" /\ ~Chokes(r) =>
                 Stage(r) = "plans" /\ Stage(r)' = "results" /\ Step(r)' = Step(r)
           /\ pc[r] = "persist" /\ phase[r] = "results" /\ ~Chokes(r) =>
                 Stage(r) = "results" /\ Stage(r)' = "saved" /\ Step(r)' = Step(r)
           /\ pc[r] = "persist" /\ phase[r] = "saved" =>
                 Stage(r) = "saved" /\ Stage(r)' = "fin1" /\ Step(r)' = Step(r)
           /\ pc[r] = "fin1" => Stage(r) = "fin1" /\ Stage(r)' = "fin2" /\ Step(r)' = Step(r)
           /\ pc[r] = "fin2" => Stage(r) = "fin2" /\ Stage(r)' = "dir" /\ Step(r)' = Step(r)
<1>1. /\ InCollective(r) /\ pc'[r] = AfterCollective(r) /\ fresh' = fresh
      /\ pc[r] # "persist" => ~Chokes(r) /\ cache'[r] = cache[r]
      /\ pend'[r] = IF pc[r] = "fin2" THEN 0 ELSE pend[r]
      /\ last'[r] = IF pc[r] = "fin2" /\ pend[r] = 0 THEN gstep[r] ELSE last[r]
      /\ gstep'[r] = gstep[r] /\ PhasesAt(r)
      /\ pc[r] \in {"load", "dir", "persist"} => pend[r] = 0
  BY CollectiveEffect DEF WInv, Ranks
<1>2. CASE pc[r] = "load"
  <2>1. pc'[r] = "train" /\ pend'[r] = 0 /\ last'[r] = last[r]
    BY <1>1, <1>2 DEF AfterCollective
  <2>2. Stage(r) = "load" /\ Stage(r)' = "dir"
    BY <1>2, <2>1 DEF Stage, Publishing
  <2>3. Step(r) = last[r] /\ Step(r)' = last'[r]
    BY <1>2, <2>1, <2>2 DEF Step
  <2> QED
    BY <1>1, <1>2, <2>1, <2>2, <2>3 DEF Up
<1>3. CASE pc[r] = "dir"
  <2>1. pc'[r] = "extra" /\ pend'[r] = 0 /\ cache'[r] = cache[r]
    BY <1>1, <1>3 DEF AfterCollective
  <2>2. /\ Stage(r) = "dir"
        /\ Stage(r)' = IF ~Synchronous(gstep[r]) THEN "fin1"
                       ELSE IF HasPlan(r, gstep[r]) THEN "results" ELSE "plans"
    BY <1>1, <1>3, <2>1 DEF Stage, Publishing, HasPlan, Keys
  <2>3. Step(r) = last[r] /\ Step(r)' = gstep[r]
    BY <1>1, <1>3, <2>1, <2>2 DEF Step, SaveStep
  <2> QED
    BY <1>1, <1>3, <2>1, <2>2, <2>3 DEF Up
<1>4. CASE pc[r] = "persist" /\ ~Chokes(r)
  <2>1. /\ pend'[r] = pend[r] /\ phase[r] \in {"plans", "results", "saved"}
        /\ phase'[r] = CASE phase[r] = "plans"   -> "shard"
                         [] phase[r] = "results" -> IF r = Coord THEN "meta" ELSE "saved"
                         [] phase[r] = "saved"   -> "none"
    BY <1>1, <1>4, CollectiveEffect DEF InCollective
  <2>2. pc'[r] = IF phase[r] = "saved" THEN "fin1" ELSE "persist"
    BY <1>1, <1>4 DEF AfterCollective
  <2>3. /\ Stage(r) = phase[r]
        /\ Stage(r)' = CASE phase[r] = "plans" -> "results" [] phase[r] = "results" -> "saved"
                         [] phase[r] = "saved" -> "fin1"
    BY <1>4, <2>1, <2>2 DEF Stage, Publishing
  <2>4. Step(r) = SaveStep(r) /\ Step(r)' = SaveStep(r)'
    BY <1>4, <2>1, <2>2, <2>3 DEF Step
  <2>5. SaveStep(r)' = SaveStep(r)
    BY <1>1, <2>1 DEF SaveStep
  <2> QED
    BY <1>4, <2>1, <2>2, <2>3, <2>4, <2>5 DEF Up
<1>5. CASE pc[r] = "fin1"
  <2>1. pc'[r] \in {"point", "fin2"} /\ pend'[r] = pend[r]
    BY <1>1, <1>5 DEF AfterCollective
  <2>2. Stage(r) = "fin1" /\ Stage(r)' = "fin2"
    BY <1>5, <2>1 DEF Stage, Publishing
  <2>3. Step(r) = SaveStep(r) /\ Step(r)' = SaveStep(r)'
    BY <1>5, <2>1, <2>2 DEF Step
  <2>4. SaveStep(r)' = SaveStep(r)
    BY <1>1, <2>1 DEF SaveStep
  <2> QED
    BY <1>1, <1>5, <2>1, <2>2, <2>3, <2>4 DEF Up
<1>6. CASE pc[r] = "fin2"
  <2>1. pc'[r] \in {"train", "done", "dir"} /\ pend'[r] = 0
    BY <1>1, <1>6 DEF AfterCollective, AfterWait
  <2>2. Stage(r) = "fin2" /\ Stage(r)' = "dir"
    BY <1>6, <2>1 DEF Stage, Publishing
  <2>3. Step(r) = SaveStep(r) /\ Step(r)' = last'[r]
    BY <1>6, <2>1, <2>2 DEF Step
  <2>4. last'[r] = SaveStep(r)
    BY <1>1, <1>6 DEF SaveStep, PhasesAt, InChild
  <2> QED
    BY <1>1, <1>6, <2>1, <2>2, <2>3, <2>4 DEF Up
<1>7. CASE Chokes(r)
  <2>1. pc[r] = "persist" /\ pc'[r] = "raised" /\ phase[r] # "saved"
    BY <1>1, <1>7 DEF AfterCollective, Chokes
  <2> QED
    BY <1>7, <2>1 DEF Up
<1> QED
  BY <1>1, <1>2, <1>3, <1>4, <1>5, <1>6, <1>7 DEF InCollective

LEMMA CollectiveRank ==
    ASSUME IInv, WInv, Collective, NEW r \in Rank
    PROVE  PacedAt(r)' /\ PhasesAt(r)' /\ ShelvedAt(r)'
<1>1. /\ InCollective(r) /\ pc'[r] = AfterCollective(r)
      /\ pc[r] # "persist" => ~Chokes(r) /\ cache'[r] = cache[r]
      /\ pend'[r] = IF pc[r] = "fin2" THEN 0 ELSE pend[r]
      /\ last'[r] = IF pc[r] = "fin2" /\ pend[r] = 0 THEN gstep[r] ELSE last[r]
      /\ fut'[r] = IF pc[r] = "fin2" THEN "none" ELSE fut[r]
      /\ UNCHANGED << life, fresh, gstep, queue, disk, ptr >>
      /\ pc[r] \in {"load", "dir", "persist"} => pend[r] = 0
      /\ pc[r] # "persist" => phase'[r] = phase[r]
  BY CollectiveEffect
<1>2. /\ last[r] \in Int /\ gstep[r] \in Int
      /\ PacedAt(r) /\ PhasesAt(r) /\ ShelvedAt(r)
  BY CheckpointAssumption DEF IInv, TypeOK, WInv, Ranks
<1>3. SaveStep(r)' = SaveStep(r) \/ pc[r] = "fin2"
  BY <1>1 DEF SaveStep
<1>4. \A k : SaveStep(r)' = SaveStep(r) => Mine(k, r)' = Mine(k, r)
  BY <1>1 DEF Mine, Whole
<1>5. CASE pc[r] \in {"load", "dir"}
  <2>1. /\ pend[r] = 0 /\ pend'[r] = 0 /\ last'[r] = last[r] /\ phase'[r] = phase[r]
        /\ pc'[r] = IF pc[r] = "load" THEN "train" ELSE "extra"
    BY <1>1, <1>5 DEF AfterCollective
  <2>2. PacedAt(r)'
    BY <1>1, <1>2, <1>5, <2>1 DEF PacedAt, Finalizing, Publishing
  <2>3. PhasesAt(r)' /\ ShelvedAt(r)'
    BY <1>2, <2>1 DEF PhasesAt, ShelvedAt, ExtraDone, ShardDone, MetaDone, InChild, Finalizing,
       Publishing
  <2> QED
    BY <2>2, <2>3
<1>6. CASE pc[r] = "persist" /\ ~Chokes(r)
  <2>1. /\ pend[r] = 0 /\ pend'[r] = 0 /\ last'[r] = last[r]
        /\ phase[r] \in {"plans", "results", "saved"}
        /\ phase'[r] = CASE phase[r] = "plans"   -> "shard"
                         [] phase[r] = "results" -> IF r = Coord THEN "meta" ELSE "saved"
                         [] phase[r] = "saved"   -> "none"
        /\ pc'[r] = IF phase[r] = "saved" THEN "fin1" ELSE "persist"
        /\ cache'[r] = IF phase[r] = "plans" THEN cache[r] \cup {Keys(r, gstep[r])}
                       ELSE cache[r]
    BY <1>1, <1>6, CollectiveEffect DEF AfterCollective, InCollective
  <2>2. PacedAt(r)'
    BY <1>1, <1>2, <1>6, <2>1 DEF PacedAt, Finalizing, Publishing
  <2>3. PhasesAt(r)'
    <3>1. Keys(r, gstep[r])' = Keys(r, gstep[r])
      BY <1>1 DEF Keys
    <3>2. HasPlan(r, gstep[r])' <=> phase[r] = "plans" \/ HasPlan(r, gstep[r])
      BY <2>1, <3>1 DEF HasPlan
    <3> QED
      BY <1>1, <1>2, <1>6, <2>1, <3>2 DEF PhasesAt, InChild, Finalizing, Publishing
  <2>4. ShelvedAt(r)'
    <3>1. SaveStep(r)' = SaveStep(r)
      BY <1>1, <2>1 DEF SaveStep
    <3>2. ExtraDone(r)
      BY <1>6 DEF ExtraDone
    <3>3. ShardDone(r)' => ShardDone(r)
      BY <1>6, <2>1 DEF ShardDone, InChild, Finalizing, Publishing
    <3>4. r = Coord /\ MetaDone(r)' => MetaDone(r)
      BY <1>6, <2>1 DEF MetaDone, InChild, Finalizing, Publishing
    <3> QED
      BY <1>2, <1>4, <3>1, <3>2, <3>3, <3>4 DEF ShelvedAt
  <2> QED
    BY <2>2, <2>3, <2>4
<1>7. CASE pc[r] = "fin1"
  <2>1. /\ pend'[r] = pend[r] /\ last'[r] = last[r] /\ phase'[r] = phase[r]
        /\ cache'[r] = cache[r] /\ fut'[r] = fut[r]
        /\ pc'[r] \in {"point", "fin2"}
    BY <1>1, <1>2, <1>7 DEF AfterCollective
  <2>2. PacedAt(r)'
    BY <1>1, <1>2, <1>7, <2>1 DEF PacedAt, Finalizing, Publishing
  <2>3. PhasesAt(r)'
    <3>1. HasPlan(r, pend[r])' <=> HasPlan(r, pend[r])
      BY <1>1, <2>1 DEF HasPlan, Keys
    <3> QED
      BY <1>1, <1>2, <1>7, <2>1, <3>1 DEF PhasesAt, InChild, Finalizing, Publishing
  <2>4. ShelvedAt(r)'
    <3>1. SaveStep(r)' = SaveStep(r)
      BY <1>1, <2>1 DEF SaveStep
    <3>2. ExtraDone(r) /\ ShardDone(r) /\ MetaDone(r)
      BY <1>7 DEF ExtraDone, ShardDone, MetaDone, Finalizing
    <3> QED
      BY <1>2, <1>4, <3>1, <3>2 DEF ShelvedAt
  <2> QED
    BY <2>2, <2>3, <2>4
<1>8. CASE pc[r] = "fin2"
  <2>1. /\ pend'[r] = 0 /\ phase'[r] = phase[r]
        /\ \/ pend[r] = 0 /\ pc'[r] = "train" /\ last'[r] = gstep[r]
           \/ /\ pend[r] # 0 /\ last'[r] = last[r]
              /\ pc'[r] = IF gstep[r] = last[r] THEN "done" ELSE "dir"
    BY <1>1, <1>8 DEF AfterCollective, AfterWait
  <2>2. /\ last[r] <= gstep[r] /\ NoSaveBetween(last[r], gstep[r]) /\ IsSave(gstep[r])
    BY <1>2, <1>8 DEF PacedAt, Finalizing, Publishing
  <2>3. NoSaveBetween(gstep[r], gstep[r])
    BY <1>2 DEF NoSaveBetween, Dir
  <2>4. PacedAt(r)'
    BY <1>1, <1>2, <2>1, <2>2, <2>3 DEF PacedAt, Finalizing, Publishing
  <2>5. PhasesAt(r)' /\ ShelvedAt(r)'
    BY <1>2, <2>1 DEF PhasesAt, ShelvedAt, ExtraDone, ShardDone, MetaDone, InChild, Finalizing,
       Publishing
  <2> QED
    BY <2>4, <2>5
<1>9. CASE Chokes(r)
  <2>1. pc'[r] = "raised" /\ phase'[r] = "none" /\ pend'[r] = 0
    BY <1>1, <1>9, CollectiveEffect DEF AfterCollective, Chokes
  <2> QED
    BY <2>1 DEF PacedAt, PhasesAt, ShelvedAt, ExtraDone, ShardDone, MetaDone, InChild, Finalizing,
       Publishing
<1> QED
  BY <1>1, <1>5, <1>6, <1>7, <1>8, <1>9 DEF InCollective

LEMMA CollectiveW ==
    ASSUME IInv, WInv, Collective
    PROVE  WInv'
<1> USE CheckpointAssumption
<1>1. TypeOK /\ \A r \in Rank : InCollective(r) /\ Up(r) /\ PlacedAt(r) /\ PhasesAt(r)
  BY CollectiveEffect, CollectiveStage DEF WInv, Ranks, Placed, IInv
<1>2. /\ UNCHANGED << life, fresh, disk, ptr >>
      /\ \A e \in Dir : IsComplete(e)' = IsComplete(e)
  BY CollectiveEffect DEF IsComplete
<1>3. ASSUME NEW r \in Rank, NEW q \in Rank
      PROVE  /\ pc[r] = pc[q] /\ Step(r) = Step(q)
             /\ pc[r] \in {"load", "dir", "persist"} => pend[r] = 0 /\ pend[q] = 0
             /\ pend[r] = 0 \/ pend[q] = 0 => gstep[r] = gstep[q]
  BY <1>1, SameCollective
<1>4. Together'
  <2>1. ASSUME NEW r \in Rank, NEW q \in Rank, Up(r)', Up(q)'
        PROVE  /\ Stage(r)' = Stage(q)' \/ {Stage(r)', Stage(q)'} \subseteq Gathers
               /\ Step(r)' = Step(q)'
    <3>1. CASE pc[r] = "dir"
      BY <1>3, <3>1, CollectiveStage DEF Gathers
    <3>2. CASE pc[r] = "persist"
      <4>1. /\ ~Chokes(r) /\ ~Chokes(q) /\ pc[q] = "persist"
            /\ {phase[r], phase[q]} \subseteq {"plans", "results", "saved"}
        BY <1>1, <1>3, <2>1, <3>2, CollectiveStage DEF InCollective
      <4>2. phase[r] = phase[q]
        BY <1>1, <3>2, <4>1, SameCollective DEF Chokes, Mixed, Gathers
      <4> QED
        BY <1>3, <3>2, <4>1, <4>2, CollectiveStage
    <3>3. CASE pc[r] \in {"load", "fin1", "fin2"}
      BY <1>3, <3>3, CollectiveStage
    <3> QED
      BY <1>1, <3>1, <3>2, <3>3 DEF InCollective
  <2>2. ASSUME NEW r \in Rank, NEW q \in Rank, Up(r)', Stage(r)' = "fin2"
        PROVE  Up(q)'
    <3>1. pc[r] # "persist"
      BY <1>1, <2>2, CollectiveStage DEF InCollective
    <3> QED
      BY <1>3, <3>1, CollectiveStage, CollectiveEffect
  <2> QED
    BY <2>1, <2>2 DEF Together
<1>5. Ranks'
  BY CollectiveRank DEF Ranks
<1>6. ASSUME NEW r \in Rank, Up(r)' PROVE PlacedAt(r)'
  <2>1. CASE pc[r] = "load"
    BY <1>1, <1>2, <2>1, CollectiveStage DEF PlacedAt, NextAtMost, NoSaveBetween, SaveStages
  <2>2. CASE pc[r] = "dir"
    <3>1. /\ Stage(r) = "dir" /\ Step(r) = last[r] /\ Step(r)' = gstep[r]
          /\ Stage(r)' \in SaveStages
      BY <2>2, CollectiveStage DEF SaveStages
    <3>2. ptr \in {0, last[r]} /\ NextAtMost(last[r])
      BY <1>1, <3>1 DEF PlacedAt
    <3>3. /\ last[r] < gstep[r] /\ last[r] \in Int /\ gstep[r] \in Dir
          /\ NoSaveBetween(last[r], gstep[r]) /\ IsSave(gstep[r])
      <4>1. gstep[r] \in Dir
        BY <2>2, CollectiveEffect
      <4>2. last[r] \in Int
        BY <1>1 DEF TypeOK
      <4> QED
        BY <2>2, <4>1, <4>2 DEF WInv, Ranks, PacedAt
    <3>4. Before(gstep[r])
      BY <3>2, <3>3 DEF Before
    <3>5. AllUpTo(gstep[r])
      BY <3>2, <3>3 DEF AllUpTo, NextAtMost, NoSaveBetween, Dir
    <3>6. Before(Step(r))' /\ AllUpTo(Step(r))'
      BY <1>2, <3>1, <3>4, <3>5 DEF Before, AllUpTo, NoSaveBetween
    <3> QED
      BY <3>1, <3>6 DEF PlacedAt, SaveStages
  <2>3. CASE pc[r] \in {"persist", "fin1"}
    <3>1. /\ Stage(r) \in SaveStages /\ Stage(r)' \in SaveStages \cup {"fin2"}
          /\ Step(r)' = Step(r)
      BY <1>1, <1>6, <2>3, CollectiveStage DEF InCollective, SaveStages
    <3>2. Before(Step(r)) /\ AllUpTo(Step(r))
      BY <1>1, <3>1 DEF PlacedAt
    <3>3. Before(Step(r))' /\ AllUpTo(Step(r))'
      BY <1>2, <3>1, <3>2 DEF Before, AllUpTo, NoSaveBetween
    <3> QED
      BY <3>1, <3>3 DEF PlacedAt, SaveStages
  <2>4. CASE pc[r] = "fin2"
    <3>1. Stage(r) = "fin2" /\ Stage(r)' = "dir" /\ Step(r)' = Step(r)
      BY <2>4, CollectiveStage
    <3>2. pc[Coord] = "fin2" /\ Step(Coord) = Step(r)
      BY <1>3, <2>4
    <3>3. ptr = Step(r)
      BY <3>2 DEF WInv, Placed
    <3>4. AllUpTo(Step(r)) /\ Step(r) \in Int
      BY <1>1, <3>1, <3>3 DEF PlacedAt, TypeOK
    <3>5. NextAtMost(Step(r))'
      BY <1>2, <3>1, <3>4 DEF NextAtMost, NoSaveBetween, AllUpTo, Dir
    <3> QED
      BY <1>2, <3>1, <3>3, <3>5 DEF PlacedAt, SaveStages
  <2> QED
    BY <1>1, <2>1, <2>2, <2>3, <2>4 DEF InCollective
<1>7. Placed'
  <2>1. (ptr # 0 => NextAtMost(ptr))'
    BY <1>2 DEF WInv, Placed, NextAtMost, NoSaveBetween
  <2>2. pc'[Coord] \notin {"point_w", "fin2"}
    BY CollectiveEffect DEF AfterCollective, AfterWait
  <2>3. pc'[Coord] = "point" => Before(Step(Coord))'
    <3>1. SUFFICES ASSUME pc'[Coord] = "point" PROVE Before(Step(Coord))'
      OBVIOUS
    <3>2. pc[Coord] = "fin1"
      BY <3>1, CollectiveEffect DEF AfterCollective, AfterWait
    <3>3. Stage(Coord) \in SaveStages /\ Step(Coord)' = Step(Coord)
      BY <3>2, CollectiveStage DEF SaveStages
    <3>4. Before(Step(Coord))
      BY <1>1, <3>3 DEF PlacedAt
    <3> QED
      BY <1>2, <3>3, <3>4 DEF Before, NoSaveBetween
  <2> QED
    BY <1>6, <2>1, <2>2, <2>3 DEF Placed
<1>8. PointerWhole'
  BY <1>2 DEF WInv, PointerWhole, Restorable
<1>9. PlanCached'
  <2>1. \A r \in Rank : ~Planning(r)' /\ ~Planned(r)'
    BY <1>1, CollectiveEffect DEF Planning, Planned, InChild, Alive
  <2>2. ASSUME KeysComeTogether', NEW r \in Rank, NEW q \in Rank, NEW d \in SaveDirs,
               Up(r)', Up(q)'
        PROVE  (HasPlan(r, d)' <=> HasPlan(q, d)') \/ Brings(r, d)' \/ Brings(q, d)'
    <3>1. KeysComeTogether /\ ~Chokes(r) /\ ~Chokes(q)
      BY <1>2, <2>2, CollectiveStage DEF KeysComeTogether, Keys
    <3>2. (HasPlan(r, d) <=> HasPlan(q, d)) \/ Brings(r, d) \/ Brings(q, d)
      BY <1>1, <3>1 DEF WInv, PlanCached
    <3>3. \A p \in Rank, e \in Dir : Keys(p, e)' = Keys(p, e)
      BY <1>2 DEF Keys
    <3>4. d \in Dir
      BY DEF SaveDirs
    <3>5. CASE pc[r] = "persist"
      <4>1. /\ pc[q] = "persist" /\ phase[r] = phase[q]
            /\ gstep[r] = gstep[q] /\ gstep[r] \in SaveDirs
        BY <1>1, <1>3, <3>1, <3>5, SameGather
      <4>2. ~Brings(r, d) /\ ~Brings(q, d)
        BY <1>3, <3>5 DEF Brings, InChild
      <4>3. Keys(r, d) = Keys(r, gstep[r]) <=> Keys(q, d) = Keys(q, gstep[r])
        BY <3>1, <4>1 DEF KeysComeTogether
      <4>4. \A p \in {r, q} : cache'[p] = IF phase[r] = "plans"
                                         THEN cache[p] \cup {Keys(p, gstep[r])} ELSE cache[p]
        BY <3>1, <3>5, <4>1, CollectiveEffect
      <4>5. Keys(r, d) \in cache[r] <=> Keys(q, d) \in cache[q]
        BY <3>2, <4>2 DEF HasPlan
      <4>6. Keys(r, d) \in cache'[r] <=> Keys(q, d) \in cache'[q]
        <5>1. CASE phase[r] = "plans"
          BY <4>3, <4>4, <4>5, <5>1
        <5>2. CASE phase[r] # "plans"
          BY <4>4, <4>5, <5>2
        <5> QED
          BY <5>1, <5>2
      <4>7. /\ HasPlan(r, d)' <=> Keys(r, d) \in cache'[r]
            /\ HasPlan(q, d)' <=> Keys(q, d) \in cache'[q]
        BY <1>2 DEF HasPlan, Keys
      <4> QED
        BY <4>6, <4>7
    <3>6. ASSUME pc[r] # "persist"
          PROVE  \A p \in {r, q} : HasPlan(p, d)' <=> HasPlan(p, d)
      <4>1. cache'[r] = cache[r] /\ cache'[q] = cache[q]
        BY <1>3, <3>6, CollectiveEffect
      <4> QED
        BY <1>2, <4>1 DEF HasPlan, Keys
    <3>7. CASE pc[r] = "fin2"
      <4>1. CASE pend[r] = 0 /\ pend[q] = 0
        BY <3>2, <3>6, <3>7, <4>1 DEF Brings, InChild
      <4>2. CASE pend[r] # 0 \/ pend[q] # 0
        <5>1. pend[r] # 0 /\ pend[q] = pend[r]
          <6>1. \A p \in {r, q} : SaveStep(p) = Step(r)
            BY <1>3, <3>7, CollectiveStage DEF Step
          <6>2. \A p \in {r, q} : pend[p] = 0 <=> Synchronous(SaveStep(p))
            BY <1>1, <1>3, <3>7 DEF PhasesAt, SaveStep, InChild, Finalizing, Publishing
          <6> QED
            BY <4>2, <6>1, <6>2 DEF SaveStep
        <5>2. HasPlan(r, pend[r]) /\ HasPlan(q, pend[r])
          BY <1>1, <1>3, <3>7, <5>1 DEF PhasesAt, InChild, Finalizing, Publishing
        <5>3. pend[r] \in SaveDirs
          BY <1>1, <5>1 DEF PhasesAt, InChild, Synchronous, SaveDirs, IsSave, TypeOK, Dir
        <5>4. Keys(r, d) = Keys(r, pend[r]) <=> Keys(q, d) = Keys(q, pend[r])
          BY <3>1, <5>3 DEF KeysComeTogether
        <5>5. HasPlan(r, d) <=> HasPlan(q, d)
          BY <3>2, <5>1, <5>2, <5>4 DEF Brings, HasPlan
        <5> QED
          BY <3>6, <3>7, <5>5
      <4> QED
        BY <4>1, <4>2
    <3>8. CASE pc[r] \in {"load", "dir", "fin1"}
      <4>1. \A p \in {r, q} : Brings(p, d)' <=> Brings(p, d)
        <5>1. \A p \in {r, q} : pend'[p] = pend[p] /\ fresh' = fresh
          BY <1>3, <3>8, CollectiveEffect
        <5> QED
          BY <5>1 DEF Brings, InChild, Keys
      <4> QED
        BY <3>2, <3>6, <3>8, <4>1
    <3> QED
      BY <1>1, <3>5, <3>7, <3>8 DEF InCollective
  <2> QED
    BY <2>1, <2>2 DEF PlanCached
<1> QED
  BY <1>4, <1>5, <1>7, <1>8, <1>9 DEF WInv

LEMMA NextW ==
    ASSUME IInv, WInv, [Next]_vars
    PROVE  WInv'
<1>1. ASSUME NEW r \in Rank, Loop(r) PROVE WInv'
  BY <1>1, TrainBeginW, TrainStepW, TrainEndW, MaybeWaitW, OpenExtraW, DispatchW DEF Loop
<1>2. ASSUME NEW r \in Rank, SaveImpl(r) PROVE WInv'
  BY <1>2, OpenFileW, CloseFileW, ReadFileW, GatheredW, GatherTimeoutW, PutResultW DEF SaveImpl
<1>3. ASSUME NEW r \in Rank, JoinThread(r) PROVE WInv'
  BY <1>3, JoinW
<1>4. ASSUME NEW r \in Rank, WriteFails(r) \/ ExtraFails(r) \/ ChildDies(r) PROVE WInv'
  BY <1>4, WriteFailsW, ExtraFailsW, ChildDiesW
<1>5. CASE Collective \/ Publish \/ Crash
  BY <1>5, CollectiveW, OpenPointerW, WritePointerW, CrashW, NextInv DEF Publish
<1>6. CASE UNCHANGED vars
  <2>1. ASSUME NEW r \in Rank PROVE WInv'
    <3>1. /\ Others(r) /\ Touches(r)
          /\ UNCHANGED << life, fresh, pc, gstep, last, pend, fut, cache, phase, queue, disk, ptr >>
      BY <1>6 DEF Others, Touches, vars, trainer, persist, thread
    <3>2. FindLatest' = FindLatest
      BY <1>6 DEF vars, FindLatest, LargestComplete, IsComplete
    <3>3. Stage(r)' = Stage(r) /\ Step(r)' = Step(r)
      <4>1. Stage(r)' = Stage(r)
        BY <3>1, <3>2 DEF Stage, HasPlan, Keys
      <4> QED
        BY <3>1, <3>2, <4>1 DEF Step, SaveStep
    <3>4. Kept(r) /\ PacedAt(r)' /\ PhasesAt(r)' /\ ShelvedAt(r)'
      BY <3>1, <3>3 DEF WInv, Ranks, Kept, PacedAt, PhasesAt, ShelvedAt, ExtraDone, ShardDone,
         MetaDone, InChild, Mine, SaveStep, Whole, HasPlan, Keys
    <3>5. PlanStays(r)
      BY <3>1, PlansAlone DEF Idle, InChild, Up
    <3> QED
      BY <3>1, <3>4, <3>5, StepInv
  <2> QED
    BY <2>1, CheckpointAssumption
<1> QED
  BY <1>1, <1>2, <1>3, <1>4, <1>5, <1>6 DEF Next

LEMMA PointerInvariance == Spec => [](IInv /\ WInv)
<1>1. Init => IInv /\ WInv
  BY InitInv, InitW
<1>2. IInv /\ WInv /\ [Next]_vars => (IInv /\ WInv)'
  BY NextInv, NextW
<1> QED
  BY <1>1, <1>2, PTL DEF Spec


-----------------------------------------------------------------------------
(***************************************************************************)
(* What the invariant says of the checkpointer                             *)
(***************************************************************************)
\* The latest pointer of _write_latest_pointer is missing or over a checkpoint whose
\* shards, extra states and metadata are whole and of one life of the job: at every
\* point at which the job can be killed, with any number of ranks.
THEOREM PointerAlwaysWhole == Spec => []PointerWhole
<1>1. IInv /\ WInv => PointerWhole
  BY DEF WInv
<1> QED
  BY <1>1, PointerInvariance, PTL

\* Two ranks that wait in a barrier or an all_gather_object of the save, the
\* finalization or the load wait in the same one, and for the same step.  Each rank
\* looks for the keys of its own state dict in its own plan cache; where the state
\* dicts did not grow together, one can be gathering plans in the all_gather_object
\* in which another gathers write results, and that is all that can come of it.
THEOREM CollectivesAlwaysPair == Spec => []CollectivesPair
<1>1. ASSUME IInv, WInv, NEW r \in Rank, NEW q \in Rank, InCollective(r), InCollective(q)
      PROVE  /\ pc[r] = pc[q]
             /\ pc[r] = "persist" =>
                   \/ phase[r] = phase[q]
                   \/ ~KeysComeTogether /\ {phase[r], phase[q]} = {"plans", "results"}
             /\ pc[r] # "load" => SaveStep(r) = SaveStep(q)
  BY <1>1, SameCollective, SameGather DEF Gathers
<1>2. IInv /\ WInv => CollectivesPair
  BY <1>1 DEF CollectivesPair
<1> QED
  BY <1>2, PointerInvariance, PTL

\* A child that reads the plans of its peers (batch_read_worker) waits for no rank that
\* took its plan from StandardSavePlanner.cached_save_result and so wrote no file: for
\* every way in which the state dicts grow, as long as a save that names nothing new
\* on one rank names nothing new on any.
THEOREM PlansAlwaysCome == Spec => []PlanWillCome
<1>1. ASSUME PlanCached, KeysComeTogether, NEW r \in Rank, NEW q \in Rank,
             InChild(r), phase[r] = "plans",
             pend[q] = pend[r], phase[q] \in {"shard", "data", "results", "put", "meta"}
      PROVE  disk["plan"][pend[r]][q].whole
  <2>1. Planning(r) /\ Planned(q)
    BY <1>1 DEF Planning, Planned, InChild
  <2> QED
    BY <1>1, <2>1 DEF PlanCached
<1>2. IInv /\ WInv => PlanWillCome
  BY <1>1 DEF WInv, PlanWillCome
<1> QED
  BY <1>2, PointerInvariance, PTL

\* A complete directory stays complete: metadata is written again, never deleted.
LEMMA StaysComplete ==
    ASSUME IInv, [Next]_vars, NEW d \in Dir, IsComplete(d)
    PROVE  IsComplete(d)'
<1> DEFINE meta == disk["meta"][d][Coord]
<1> USE CheckpointAssumption
<1>1. TypeOK /\ life # 0 /\ meta # Missing
  BY DEF IInv, TypeOK, IsComplete
<1>2. ASSUME NEW k \in Kinds, NEW e \in Dir, NEW r \in Rank, NEW f, f # Missing,
             disk' = [disk EXCEPT ![k][e][r] = f]
      PROVE  meta' # Missing
  <2>1. Writes1(k, e, r, f)
    BY <1>1, <1>2, ExceptWrites
  <2>2. meta' = IF "meta" = k /\ d = e /\ Coord = r THEN f ELSE meta
    BY <2>1 DEF Writes1, Kinds
  <2> QED
    BY <1>1, <1>2, <2>2
<1>3. Torn # Missing /\ Whole # Missing
  <2>1. Torn.life # Missing.life /\ Whole.life # Missing.life
    BY <1>1 DEF Torn, Whole, Missing
  <2> QED
    BY <2>1
<1>4. ASSUME NEW r \in Rank, Loop(r) PROVE meta' # Missing
  <2>1. CASE OpenExtra(r) \/ Dispatch(r)
    <3>1. gstep[r] \in Dir
      <4>1. pc[r] \in {"extra", "extra_w"}
        BY <2>1 DEF OpenExtra, Dispatch
      <4>2. gstep[r] # 0 /\ gstep[r] \in 0 .. TrainSteps
        BY <1>1, <4>1 DEF IInv, Saves, TypeOK
      <4> QED
        BY <4>2 DEF Dir
    <3>2. \/ disk' = [disk EXCEPT !["extra"][gstep[r]][r] = Torn]
          \/ disk' = [disk EXCEPT !["extra"][gstep[r]][r] = Whole]
      BY <2>1 DEF OpenExtra, Dispatch
    <3> QED
      BY <1>2, <1>3, <3>1, <3>2 DEF Kinds
  <2>2. CASE TrainBegin(r) \/ TrainStep(r) \/ TrainEnd(r) \/ MaybeWait(r)
    BY <1>1, <2>2 DEF TrainBegin, TrainStep, TrainEnd, MaybeWait
  <2> QED
    BY <1>4, <2>1, <2>2 DEF Loop
<1>5. ASSUME NEW r \in Rank, SaveImpl(r) PROVE meta' # Missing
  <2>1. CASE OpenFile(r) \/ CloseFile(r)
    <3>1. Alive(r) /\ phase[r] \in Kinds
      BY <1>1, <2>1 DEF OpenFile, CloseFile, TypeOK, Alive, Writes, Kinds
    <3>2. InChild(r) \/ pc[r] = "persist"
      BY <3>1 DEF IInv, Saves
    <3>3. SaveStep(r) \in Dir
      BY <1>1, <3>2, SaveStepDir DEF IInv
    <3>4. \/ disk' = [disk EXCEPT ![phase[r]][SaveStep(r)][r] = Torn]
          \/ disk' = [disk EXCEPT ![phase[r]][SaveStep(r)][r] = Whole]
      BY <2>1 DEF OpenFile, CloseFile
    <3> QED
      BY <1>2, <1>3, <3>1, <3>3, <3>4
  <2>2. ASSUME NEW q \in Rank, ReadFile(r, q) PROVE meta' # Missing
    BY <1>1, <2>2 DEF ReadFile, TypeOK, Kinds
  <2>3. CASE Gathered(r) \/ GatherTimeout(r) \/ PutResult(r)
    BY <1>1, <2>3 DEF Gathered, GatherTimeout, PutResult
  <2> QED
    BY <1>5, <2>1, <2>2, <2>3 DEF SaveImpl
<1>6. ASSUME NEW r \in Rank, JoinThread(r) PROVE meta' # Missing
  BY <1>1, <1>6 DEF JoinThread, JoinTakes, JoinTimesOut, JoinAsksAgain, JoinLooksAgain
<1>7. ASSUME NEW r \in Rank, WriteFails(r) \/ ExtraFails(r) \/ ChildDies(r)
      PROVE  meta' # Missing
  BY <1>1, <1>7 DEF WriteFails, ExtraFails, ChildDies
<1>8. ASSUME Collective \/ Publish \/ Crash \/ UNCHANGED vars PROVE meta' # Missing
  BY <1>1, <1>8 DEF Collective, Publish, OpenPointer, WritePointer, Crash, vars
<1>9. meta' # Missing
  BY <1>4, <1>5, <1>6, <1>7, <1>8 DEF Next
<1> QED
  BY <1>9 DEF IsComplete

LEMMA PointerMoves ==
    ASSUME [Next]_vars
    PROVE  ptr' = ptr \/ ptr' = 0 \/ WritePointer
<1>1. ASSUME NEW r \in Rank, Loop(r) \/ SaveImpl(r) PROVE ptr' = ptr
  BY <1>1 DEF Loop, TrainBegin, TrainStep, TrainEnd, MaybeWait, OpenExtra, Dispatch, SaveImpl,
     OpenFile, CloseFile, ReadFile, Gathered, GatherTimeout, PutResult
<1>2. ASSUME NEW r \in Rank,
             JoinThread(r) \/ WriteFails(r) \/ ExtraFails(r) \/ ChildDies(r)
      PROVE  ptr' = ptr
  BY <1>2 DEF JoinThread, JoinTakes, JoinTimesOut, JoinAsksAgain, JoinLooksAgain, WriteFails,
     ExtraFails, ChildDies
<1>3. CASE Collective \/ Crash \/ UNCHANGED vars
  BY <1>3 DEF Collective, Crash, vars
<1>4. CASE Publish
  BY <1>4 DEF Publish, OpenPointer
<1> QED
  BY <1>1, <1>2, <1>3, <1>4 DEF Next

\* The checkpoint that find_latest_checkpoint gives a restart is never older than what
\* it would have given before: not while a newer one is assembled, not in the window in
\* which the pointer is truncated, and not after a crash in the middle of either.
THEOREM NeverGoesBack == Spec => FoundNeverBack
<1> USE CheckpointAssumption
<1>1. ASSUME IInv, WInv, IInv', WInv', [Next]_vars
      PROVE  FindLatest' >= FindLatest
  <2>1. /\ TypeOK /\ PointerWhole /\ TypeOK' /\ PointerWhole'
        /\ FindLatest \in 0 .. TrainSteps
    BY <1>1, FindLatestType DEF IInv, WInv, TypeOK
  <2>2. FindLatest # 0 => FindLatest \in Dir /\ IsComplete(FindLatest)
    BY <2>1, PointerFound, ScanLargest DEF FindLatest, ScanResult
  <2>3. ASSUME NEW d \in Dir, d = FindLatest, IsComplete(d) PROVE FindLatest' >= d
    <3>1. IsComplete(d)'
      BY <1>1, <2>3, StaysComplete
    <3>2. ScanResult(LargestComplete)'
      BY ScanLargest, PTL
    <3>3. LargestComplete' >= d /\ LargestComplete' \in Dir
      BY <3>1, <3>2 DEF ScanResult, Dir
    <3>4. CASE ptr' = 0
      BY <3>3, <3>4 DEF FindLatest
    <3>5. ptr' # 0 => FindLatest' = ptr'
      <4>1. (TypeOK /\ PointerWhole /\ ptr # 0 => FindLatest = ptr)'
        BY PointerFound, PTL
      <4> QED
        BY <2>1, <4>1
    <3>6. CASE ptr' # 0 /\ ptr' = ptr
      <4>1. FindLatest = ptr
        BY <2>1, <3>6, PointerFound
      <4> QED
        BY <2>3, <3>5, <3>6, <4>1 DEF Dir
    <3>7. CASE WritePointer
      <4>1. pc[Coord] = "point_w" /\ pc'[Coord] = "fin2" /\ ptr' = SaveStep(Coord)
        BY <2>1, <3>7 DEF WritePointer, TypeOK
      <4>2. Stage(Coord) = "fin2" /\ Up(Coord)
        BY <4>1 DEF Stage, Publishing, Up
      <4>3. AllUpTo(SaveStep(Coord)) /\ SaveStep(Coord) \in Dir
        <5>1. Step(Coord) = SaveStep(Coord)
          BY <4>1, <4>2 DEF Step
        <5>2. AllUpTo(Step(Coord))
          BY <1>1, <4>2 DEF WInv, Placed, PlacedAt
        <5> QED
          BY <1>1, <2>1, <4>1, <5>1, <5>2, SaveStepDir DEF IInv
      <4>4. d <= ptr' /\ ptr' # 0
        BY <2>3, <4>1, <4>3 DEF AllUpTo, Dir
      <4> QED
        BY <3>5, <4>1, <4>3, <4>4 DEF Dir
    <3> QED
      BY <1>1, <3>4, <3>6, <3>7, PointerMoves
  <2>4. FindLatest' \in 0 .. TrainSteps
    <3>1. (ptr \in 0 .. TrainSteps => FindLatest \in 0 .. TrainSteps)'
      BY FindLatestType, PTL
    <3> QED
      BY <2>1, <3>1 DEF TypeOK
  <2> QED
    BY <2>1, <2>2, <2>3, <2>4
<1> QED
  BY <1>1, PointerInvariance, PTL DEF Spec, FoundNeverBack

=============================================================================
