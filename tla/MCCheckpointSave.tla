------------------------- MODULE MCCheckpointSave -------------------------
(***************************************************************************)
(* Two ranks, five training steps, a save every two: asynchronous ones at *)
(* steps 2 and 4, the synchronous one of the end at step 5, one restart.    *)
(***************************************************************************)
EXTENDS CheckpointSave

Steady == [r \in Rank |-> {}]

\* New entries at step d: on every rank, on the coordinator only, on the others only.
AllAt(d) == [r \in Rank |-> {d}]
CoordAt(d) == [r \in Rank |-> IF r = Coord THEN {d} ELSE {}]
OthersAt(d) == [r \in Rank |-> IF r = Coord THEN {} ELSE {d}]

\* At 4 the keys change for the second asynchronous save, at 5 for the synchronous
\* one; before that, and in a life that restores, they stay as they are.
SteadyOnly == {Steady}
SomeGrowth == {AllAt(5), OthersAt(4), CoordAt(5)}
AllGrowth == {Steady} \cup UNION {{AllAt(d), CoordAt(d), OthersAt(d)} : d \in {4, 5}}

(***************************************************************************)
(* What the docstring of find_latest_checkpoint says: a checkpoint that    *)
(* was interrupted mid-save is skipped, so resume never lands on a         *)
(* half-written one.                                                       *)
(***************************************************************************)
NeverHalfWritten ==
    FindLatest # 0 =>
        \A r \in Rank : disk["shard"][FindLatest][r].whole
=============================================================================
