---------------------- MODULE PinnedMemoryPool_proofs ----------------------
(***************************************************************************)
(* No block is handed out twice, none is reused under a transfer, every    *)
(* view fits and the accounting is exact, for any number of threads,       *)
(* blocks and events.                                                      *)
(***************************************************************************)
EXTENDS PinnedMemoryPool, FiniteSetTheorems, NaturalsInduction, TLAPS

\* A thread waits for a block exactly while it has taken one from the pending
\* bucket, and what it has taken is large enough for its request.
Requests ==
    \A t \in Threads :
        /\ pc[t] = "waiting" <=> target[t] # NoBlock
        /\ pc[t] # "idle" => size[t] \in Sizes
        /\ pc[t] = "waiting" => size[t] <= capacity[target[t]]

IInv == TypeOK /\ PlacedOnce /\ NoReuseInTransfer /\ ViewFits /\ Requests

\* _aligned_size never rounds down.
LEMMA AlignedSizeFits ==
    ASSUME NEW s \in Sizes
    PROVE  AlignedSize(s) \in Nat /\ s \in Nat /\ s <= AlignedSize(s)
  BY PoolAssumption, PowerAssumption
  DEF AlignedSize, AtLeast, AtMost, MinBucketBytes

LEMMA InitInv == Init => IInv
  BY PoolAssumption
  DEF Init, IInv, TypeOK, States, PlacedOnce, Waiters, NoReuseInTransfer, ViewFits, Requests

LEMMA TakeAvailableInv ==
    ASSUME IInv, NEW t \in Threads, NEW s \in Sizes, TakeAvailable(t, s)
    PROVE  IInv'
<1> DEFINE need == AlignedSize(s)
<1> DEFINE moved == Reclaimed(need)
<1>1. need \in Nat /\ s \in Nat /\ s <= need
  BY AlignedSizeFits
<1>2. moved \subseteq pending /\ \A b \in moved : Passed(event[b])
  BY DEF Reclaimed
<1>3. PICK b \in BestFit(Usable(need), need) :
        \/ /\ available' = Usable(need) \ {b}
           /\ state' = [c \in Blocks |-> IF c = b THEN "in_use"
                                         ELSE IF c \in moved THEN "available"
                                         ELSE state[c]]
           /\ Checkout(b, s)
        \/ /\ available' = Usable(need)
           /\ state' = [c \in Blocks |-> IF c \in moved THEN "available"
                                         ELSE state[c]]
           /\ UNCHANGED << views, asked >>
  BY DEF TakeAvailable
<1>4. /\ b \in available \cup moved /\ b \in Blocks /\ need <= capacity[b]
      /\ Usable(need) = available \cup moved
  BY <1>2 DEF BestFit, Usable, IInv, TypeOK
<1>5. /\ pending' = pending \ moved
      /\ event' = [c \in Blocks |-> IF c \in moved THEN NoEvent ELSE event[c]]
      /\ UNCHANGED << capacity, total, pc, size, target, busy >>
  BY DEF TakeAvailable
<1>6. views[b] = 0 /\ Waiters(b) = {}
  BY <1>2, <1>4 DEF IInv, TypeOK, PlacedOnce, Waiters
<1>7. \A x \in busy : x[1] \notin moved /\ x[1] # b
  BY <1>2, <1>4 DEF IInv, TypeOK, PlacedOnce, NoReuseInTransfer, Waiters, Passed
<1>8. \A c \in Blocks : Waiters(c)' = Waiters(c)
  BY <1>5 DEF Waiters
<1>9. TypeOK'
  BY <1>1, <1>2, <1>3, <1>4, <1>5 DEF IInv, TypeOK, States, Checkout
<1>10. PlacedOnce'
  <2> SUFFICES ASSUME NEW c \in Blocks
               PROVE  /\ c \in available' <=> state'[c] = "available"
                      /\ c \in pending' <=> state'[c] = "pending"
                      /\ state'[c] = "in_use" <=> views'[c] > 0 \/ Waiters(c) # {}
                      /\ views'[c] <= 1
                      /\ \A u, v \in Waiters(c) : u = v
                      /\ Waiters(c) # {} => views'[c] = 0
    BY <1>8 DEF PlacedOnce
  <2>1. c \in moved => state[c] = "pending" /\ views[c] = 0 /\ Waiters(c) = {}
    BY <1>2 DEF IInv, TypeOK, PlacedOnce
  <2>2. b \in moved \/ state[b] = "available"
    BY <1>4 DEF IInv, PlacedOnce
  <2>3. /\ c \in available <=> state[c] = "available"
        /\ c \in pending <=> state[c] = "pending"
        /\ state[c] = "in_use" <=> views[c] > 0 \/ Waiters(c) # {}
        /\ views[c] \in Nat /\ views[c] <= 1
        /\ \A u, v \in Waiters(c) : u = v
        /\ Waiters(c) # {} => views[c] = 0
    BY DEF IInv, TypeOK, PlacedOnce
  <2>. QED
    BY <1>2, <1>3, <1>4, <1>5, <1>6, <2>1, <2>2, <2>3 DEF Checkout, IInv, TypeOK
<1>11. NoReuseInTransfer'
  BY <1>5, <1>7, <1>8 DEF IInv, TypeOK, NoReuseInTransfer
<1>12. ViewFits'
  BY <1>1, <1>3, <1>4, <1>5, <1>6 DEF IInv, TypeOK, ViewFits, Checkout
<1>13. Requests'
  BY <1>5 DEF IInv, Requests
<1>. QED
  BY <1>9, <1>10, <1>11, <1>12, <1>13 DEF IInv

LEMMA ReserveInv ==
    ASSUME IInv, NEW t \in Threads, NEW s \in Sizes, Reserve(t, s)
    PROVE  IInv'
<1>1. AlignedSize(s) \in Nat
  BY AlignedSizeFits
<1>2. target[t] = NoBlock
  BY DEF Reserve, IInv, Requests
<1>3. TypeOK'
  BY <1>1, PoolAssumption DEF Reserve, IInv, TypeOK
<1>4. PlacedOnce' /\ NoReuseInTransfer' /\ ViewFits'
  BY DEF Reserve, IInv, PlacedOnce, NoReuseInTransfer, ViewFits, Waiters
<1>5. Requests'
  BY <1>2 DEF Reserve, IInv, TypeOK, Requests
<1>. QED
  BY <1>3, <1>4, <1>5 DEF IInv

LEMMA TakePendingInv ==
    ASSUME IInv, NEW t \in Threads, NEW s \in Sizes, TakePending(t, s)
    PROVE  IInv'
<1> DEFINE need == AlignedSize(s)
<1>1. need \in Nat /\ s \in Nat /\ s <= need
  BY AlignedSizeFits
<1>2. PICK b \in BestFit(pending, need) :
        /\ pending' = pending \ {b}
        /\ state' = [state EXCEPT ![b] = "in_use"]
        /\ target' = [target EXCEPT ![t] = b]
  BY DEF TakePending
<1>3. /\ pc[t] = "idle" /\ target[t] = NoBlock
      /\ pc' = [pc EXCEPT ![t] = "waiting"] /\ size' = [size EXCEPT ![t] = s]
      /\ UNCHANGED << capacity, event, available, total, views, asked, busy >>
  BY DEF TakePending, IInv, Requests
<1>4. /\ b \in pending /\ b \in Blocks /\ need <= capacity[b] /\ b # NoBlock
      /\ state[b] = "pending" /\ views[b] = 0 /\ Waiters(b) = {}
  BY <1>2, PoolAssumption DEF BestFit, IInv, TypeOK, PlacedOnce
<1>5. Waiters(b)' = {t} /\ \A c \in Blocks \ {b} : Waiters(c)' = Waiters(c)
  BY <1>2, <1>3, <1>4, PoolAssumption DEF Waiters, IInv, TypeOK
<1>6. TypeOK'
  BY <1>2, <1>3, <1>4 DEF IInv, TypeOK, States
<1>7. PlacedOnce'
  BY <1>2, <1>3, <1>4, <1>5 DEF IInv, TypeOK, PlacedOnce
<1>8. NoReuseInTransfer'
  BY <1>2, <1>3, <1>4, <1>5 DEF IInv, TypeOK, NoReuseInTransfer
<1>9. ViewFits'
  BY <1>3 DEF IInv, ViewFits
<1>10. Requests'
  BY <1>1, <1>2, <1>3, <1>4 DEF IInv, TypeOK, Requests
<1>. QED
  BY <1>6, <1>7, <1>8, <1>9, <1>10 DEF IInv

LEMMA AllocateInv ==
    ASSUME IInv, NEW t \in Threads, Allocate(t)
    PROVE  IInv'
<1>1. PICK b \in Blocks :
        /\ state[b] = "absent"
        /\ capacity' = [capacity EXCEPT ![b] = AlignedSize(size[t])]
        /\ state' = [state EXCEPT ![b] = "in_use"]
        /\ Checkout(b, size[t])
  BY DEF Allocate
<1>2. /\ pc[t] = "allocating" /\ target[t] = NoBlock /\ size[t] \in Sizes
      /\ pc' = [pc EXCEPT ![t] = "idle"]
      /\ UNCHANGED << event, available, pending, total, size, target, busy >>
  BY DEF Allocate, IInv, TypeOK, Requests
<1>3. AlignedSize(size[t]) \in Nat /\ size[t] \in Nat /\ size[t] <= AlignedSize(size[t])
  BY <1>2, AlignedSizeFits
<1>4. views[b] = 0 /\ Waiters(b) = {} /\ b \notin available /\ b \notin pending
  BY <1>1 DEF IInv, TypeOK, PlacedOnce
<1>5. \A c \in Blocks : Waiters(c)' = Waiters(c)
  BY <1>2 DEF Waiters
<1>6. TypeOK'
  BY <1>1, <1>2, <1>3, <1>4 DEF IInv, TypeOK, States, Checkout
<1>7. PlacedOnce'
  BY <1>1, <1>2, <1>4, <1>5 DEF IInv, TypeOK, PlacedOnce, Checkout
<1>8. NoReuseInTransfer'
  BY <1>2, <1>5 DEF IInv, TypeOK, NoReuseInTransfer
<1>9. ViewFits'
  BY <1>1, <1>3, <1>4 DEF IInv, TypeOK, ViewFits, Checkout
<1>10. \A u \in Threads : pc[u] = "waiting" => target[u] # b
  BY <1>4 DEF Waiters
<1>11. Requests'
  BY <1>1, <1>2, <1>10 DEF IInv, TypeOK, Requests
<1>. QED
  BY <1>6, <1>7, <1>8, <1>9, <1>11 DEF IInv

LEMMA AllocateFailsInv ==
    ASSUME IInv, NEW t \in Threads, AllocateFails(t)
    PROVE  IInv'
<1>1. AlignedSize(size[t]) \in Nat /\ target[t] = NoBlock
  BY AlignedSizeFits DEF AllocateFails, IInv, Requests
<1>2. TypeOK'
  BY <1>1, PoolAssumption DEF AllocateFails, IInv, TypeOK
<1>3. PlacedOnce' /\ NoReuseInTransfer' /\ ViewFits'
  BY DEF AllocateFails, IInv, PlacedOnce, NoReuseInTransfer, ViewFits, Waiters
<1>4. Requests'
  BY <1>1 DEF AllocateFails, IInv, TypeOK, Requests
<1>. QED
  BY <1>2, <1>3, <1>4 DEF IInv

\* A thread that stops waiting leaves its block without a waiter.
LEMMA LastWaiter ==
    ASSUME IInv, NEW t \in Threads, pc[t] = "waiting", DoneWaiting(t)
    PROVE  /\ target[t] \in Blocks /\ state[target[t]] = "in_use"
           /\ views[target[t]] = 0 /\ Waiters(target[t]) = {t}
           /\ {u \in Threads : target'[u] = target[t]} = {}
           /\ \A c \in Blocks \ {target[t]} : Waiters(c)' = Waiters(c)
           /\ size[t] \in Sizes /\ size[t] <= capacity[target[t]]
<1>1. target[t] \in Blocks /\ size[t] \in Sizes /\ size[t] <= capacity[target[t]]
  BY DEF IInv, TypeOK, Requests
<1>2. t \in Waiters(target[t])
  BY DEF Waiters
<1>3. Waiters(target[t]) = {t} /\ views[target[t]] = 0 /\ state[target[t]] = "in_use"
  BY <1>1, <1>2 DEF IInv, PlacedOnce
<1>4. {u \in Threads : target'[u] = target[t]} = {}
  BY <1>1, <1>3, PoolAssumption DEF DoneWaiting, Waiters, IInv, TypeOK
<1>5. \A c \in Blocks \ {target[t]} : Waiters(c)' = Waiters(c)
  BY <1>1, PoolAssumption DEF DoneWaiting, Waiters, IInv, TypeOK
<1>. QED
  BY <1>1, <1>3, <1>4, <1>5

LEMMA SynchronizeInv ==
    ASSUME IInv, NEW t \in Threads, Synchronize(t)
    PROVE  IInv'
<1> DEFINE b == target[t]
<1>1. /\ pc[t] = "waiting" /\ DoneWaiting(t) /\ Passed(event[b])
      /\ event' = [event EXCEPT ![b] = NoEvent]
      /\ UNCHANGED << capacity, pending, total, size, busy >>
      /\ \/ Checkout(b, size[t]) /\ UNCHANGED << state, available >>
         \/ /\ state' = [state EXCEPT ![b] = "available"]
            /\ available' = available \cup {b}
            /\ UNCHANGED << views, asked >>
  BY DEF Synchronize
<1>2. /\ b \in Blocks /\ state[b] = "in_use" /\ views[b] = 0 /\ Waiters(b) = {t}
      /\ {u \in Threads : target'[u] = b} = {}
      /\ \A c \in Blocks \ {b} : Waiters(c)' = Waiters(c)
      /\ size[t] \in Sizes /\ size[t] <= capacity[b]
  BY <1>1, LastWaiter
<1>3. size[t] \in Nat
  BY <1>2, PoolAssumption
<1>4. TypeOK'
  BY <1>1, <1>2, <1>3 DEF IInv, TypeOK, States, Checkout, DoneWaiting
<1>5. PlacedOnce'
  <2> SUFFICES ASSUME NEW c \in Blocks
               PROVE  /\ c \in available' <=> state'[c] = "available"
                      /\ c \in pending' <=> state'[c] = "pending"
                      /\ state'[c] = "in_use" <=> views'[c] > 0 \/ Waiters(c)' # {}
                      /\ views'[c] <= 1
                      /\ \A u, v \in Waiters(c)' : u = v
                      /\ Waiters(c)' # {} => views'[c] = 0
    BY DEF PlacedOnce
  <2>1. CASE c = b
    <3>1. Waiters(c)' = {}
      BY <1>2, <2>1 DEF Waiters
    <3>2. b \notin available /\ b \notin pending
      BY <1>2 DEF IInv, PlacedOnce
    <3>. QED
      BY <1>1, <1>2, <2>1, <3>1, <3>2 DEF Checkout, IInv, TypeOK
  <2>2. CASE c # b
    <3>1. Waiters(c)' = Waiters(c)
      BY <1>2, <2>2
    <3>. QED
      BY <1>1, <2>2, <3>1 DEF Checkout, IInv, TypeOK, PlacedOnce
  <2>. QED
    BY <2>1, <2>2
<1>6. \A x \in busy : x[1] # b
  BY <1>1, <1>2 DEF IInv, TypeOK, NoReuseInTransfer, Passed
<1>7. NoReuseInTransfer'
  BY <1>1, <1>2, <1>6 DEF IInv, TypeOK, NoReuseInTransfer
<1>8. ViewFits'
  BY <1>1, <1>2 DEF IInv, TypeOK, ViewFits, Checkout
<1>9. Requests'
  BY <1>1, PoolAssumption DEF IInv, TypeOK, Requests, DoneWaiting
<1>. QED
  BY <1>4, <1>5, <1>7, <1>8, <1>9 DEF IInv

LEMMA SynchronizeFailsInv ==
    ASSUME IInv, NEW t \in Threads, SynchronizeFails(t)
    PROVE  IInv'
<1> DEFINE b == target[t]
<1>1. /\ pc[t] = "waiting" /\ DoneWaiting(t)
      /\ state' = [state EXCEPT ![b] = "pending"]
      /\ pending' = pending \cup {b}
      /\ UNCHANGED << capacity, event, available, total, size, views, asked, busy >>
  BY DEF SynchronizeFails
<1>2. /\ b \in Blocks /\ state[b] = "in_use" /\ views[b] = 0 /\ Waiters(b) = {t}
      /\ {u \in Threads : target'[u] = b} = {}
      /\ \A c \in Blocks \ {b} : Waiters(c)' = Waiters(c)
  BY <1>1, LastWaiter
<1>3. TypeOK'
  BY <1>1, <1>2 DEF IInv, TypeOK, States, DoneWaiting
<1>5. PlacedOnce'
  <2> SUFFICES ASSUME NEW c \in Blocks
               PROVE  /\ c \in available' <=> state'[c] = "available"
                      /\ c \in pending' <=> state'[c] = "pending"
                      /\ state'[c] = "in_use" <=> views'[c] > 0 \/ Waiters(c)' # {}
                      /\ views'[c] <= 1
                      /\ \A u, v \in Waiters(c)' : u = v
                      /\ Waiters(c)' # {} => views'[c] = 0
    BY DEF PlacedOnce
  <2>1. CASE c = b
    <3>1. Waiters(c)' = {}
      BY <1>2, <2>1 DEF Waiters
    <3>. QED
      BY <1>1, <1>2, <2>1, <3>1 DEF IInv, TypeOK, PlacedOnce
  <2>2. CASE c # b
    <3>1. Waiters(c)' = Waiters(c)
      BY <1>2, <2>2
    <3>. QED
      BY <1>1, <2>2, <3>1 DEF IInv, TypeOK, PlacedOnce
  <2>. QED
    BY <2>1, <2>2
<1>6. NoReuseInTransfer'
  BY <1>1, <1>2 DEF IInv, TypeOK, NoReuseInTransfer
<1>7. ViewFits'
  BY <1>1 DEF IInv, ViewFits
<1>8. Requests'
  BY <1>1, PoolAssumption DEF IInv, TypeOK, Requests, DoneWaiting
<1>. QED
  BY <1>3, <1>5, <1>6, <1>7, <1>8 DEF IInv

\* A block a caller holds has no waiter and no unfinished transfer.
LEMMA HeldIsQuiet ==
    ASSUME IInv, NEW b \in Blocks, views[b] > 0
    PROVE  /\ views[b] = 1 /\ Waiters(b) = {} /\ state[b] = "in_use"
           /\ b \notin available /\ b \notin pending
           /\ \A x \in busy : x[1] # b
  BY DEF IInv, TypeOK, PlacedOnce, NoReuseInTransfer

LEMMA ReleaseInv ==
    ASSUME IInv, NEW b \in Blocks, Release(b)
    PROVE  IInv'
<1>1. /\ views[b] = 1 /\ Waiters(b) = {} /\ b \notin pending
      /\ \A x \in busy : x[1] # b
  BY HeldIsQuiet DEF Release
<1>2. \A c \in Blocks : Waiters(c)' = Waiters(c)
  BY DEF Release, Waiters
<1>3. TypeOK'
  BY <1>1 DEF Release, IInv, TypeOK, States
<1>4. PlacedOnce'
  BY <1>1, <1>2 DEF Release, IInv, TypeOK, PlacedOnce
<1>5. NoReuseInTransfer'
  BY <1>2 DEF Release, IInv, TypeOK, NoReuseInTransfer
<1>6. ViewFits' /\ Requests'
  BY <1>1 DEF Release, IInv, TypeOK, ViewFits, Requests
<1>. QED
  BY <1>3, <1>4, <1>5, <1>6 DEF IInv

LEMMA ReleaseAfterInv ==
    ASSUME IInv, NEW b \in Blocks, NEW e \in Events, ReleaseAfter(b, e)
    PROVE  IInv'
<1>1. /\ views[b] = 1 /\ Waiters(b) = {} /\ b \notin available
      /\ \A x \in busy : x[1] # b
  BY HeldIsQuiet DEF ReleaseAfter
<1>2. \A c \in Blocks : Waiters(c)' = Waiters(c)
  BY DEF ReleaseAfter, Waiters
<1>3. TypeOK'
  BY <1>1 DEF ReleaseAfter, IInv, TypeOK, States
<1>4. PlacedOnce'
  BY <1>1, <1>2 DEF ReleaseAfter, IInv, TypeOK, PlacedOnce
<1>5. NoReuseInTransfer'
  <2> SUFFICES ASSUME NEW x \in busy'
               PROVE  event'[x[1]] = x[2] /\ (x[1] \in pending' \/ Waiters(x[1])' # {})
    BY DEF NoReuseInTransfer
  <2>1. CASE x = << b, e >>
    BY <2>1 DEF ReleaseAfter, IInv, TypeOK
  <2>2. CASE x \in busy
    BY <1>1, <1>2, <2>2 DEF ReleaseAfter, IInv, TypeOK, NoReuseInTransfer
  <2>. QED
    BY <2>1, <2>2 DEF ReleaseAfter
<1>6. ViewFits' /\ Requests'
  BY <1>1 DEF ReleaseAfter, IInv, TypeOK, ViewFits, Requests
<1>. QED
  BY <1>3, <1>4, <1>5, <1>6 DEF IInv

LEMMA PassInv == ASSUME IInv, NEW e \in Events, Pass(e) PROVE IInv'
  BY DEF Pass, pool, callers, IInv, TypeOK, PlacedOnce, Waiters, NoReuseInTransfer,
         ViewFits, Requests

LEMMA NextInv == IInv /\ [Next]_vars => IInv'
<1> SUFFICES ASSUME IInv, [Next]_vars PROVE IInv'
  OBVIOUS
<1>1. CASE UNCHANGED vars
  BY <1>1 DEF vars, pool, callers, IInv, TypeOK, PlacedOnce, Waiters,
              NoReuseInTransfer, ViewFits, Requests
<1>2. CASE Next
  BY <1>2, TakeAvailableInv, ReserveInv, TakePendingInv, AllocateInv,
     AllocateFailsInv, SynchronizeInv, SynchronizeFailsInv, ReleaseInv,
     ReleaseAfterInv, PassInv DEF Next
<1>. QED
  BY <1>1, <1>2

\* The inductive invariant holds in every run of the pool.
THEOREM Invariance == Spec => []IInv
  BY InitInv, NextInv, PTL DEF Spec

\* Types, and the limit max_host_bytes on the total.
THEOREM CapacityRespected == Spec => []TypeOK
<1>1. IInv => TypeOK
  BY DEF IInv
<1>. QED BY <1>1, Invariance, PTL

\* No block is in two places, handed out twice or lost by a failed acquire.
THEOREM OnePlace == Spec => []PlacedOnce
<1>1. IInv => PlacedOnce
  BY DEF IInv
<1>. QED BY <1>1, Invariance, PTL

\* No host memory is reused while a transfer of the device may touch it.
THEOREM TransfersUndisturbed == Spec => []NoReuseInTransfer
<1>1. IInv => NoReuseInTransfer
  BY DEF IInv
<1>. QED BY <1>1, Invariance, PTL

\* Every view is as long as its caller asked for.
THEOREM ViewsFit == Spec => []ViewFits
<1>1. IInv => ViewFits
  BY DEF IInv
<1>. QED BY <1>1, Invariance, PTL

-----------------------------------------------------------------------------
(***************************************************************************)
(* Sums over finite sets.  Total is a fold, so its value is one of a       *)
(* function defined by recursion over the subsets of the set.  Induction   *)
(* is by the least counterexample.                                         *)
(***************************************************************************)
\* A set with 0 and the successor of each member holds every number.
LEMMA CountUp ==
    ASSUME NEW G, 0 \in G, \A n \in Nat : n \in G => n + 1 \in G
    PROVE  Nat \subseteq G
<1> DEFINE bad == Nat \ G
<1>1. SUFFICES ASSUME bad # {} PROVE FALSE
  OBVIOUS
<1>2. PICK x \in bad : \A y \in bad : ~ (<< y, x >> \in OpToRel(<, Nat))
  BY <1>1, NatLessThanWellFounded, WFMin
<1>3. x \in Nat /\ x # 0 /\ x - 1 \in Nat /\ x - 1 < x
  OBVIOUS
<1>4. << x - 1, x >> \in OpToRel(<, Nat)
  <2>1. OpToRel(<, Nat) = {ss \in Nat \X Nat : ss[1] < ss[2]}
    BY DEF OpToRel
  <2>2. << x - 1, x >> \in Nat \X Nat
    BY <1>3
  <2>. QED
    BY <1>3, <2>1, <2>2
<1>5. x - 1 \notin bad
  BY <1>2, <1>4
<1>6. x - 1 \in G
  BY <1>3, <1>5
<1>. QED
  BY <1>3, <1>6

\* The recursion Total unfolds to, on the sets of a family.
Some(s) == CHOOSE x \in s : TRUE
Sums(it, f, family) ==
    \A s \in family : it[s] = IF s = {} THEN 0 ELSE f[Some(s)] + it[s \ {Some(s)}]
IsTotal(it, f, S) ==
    it = [s \in SUBSET S |-> IF s = {} THEN 0 ELSE f[Some(s)] + it[s \ {Some(s)}]]

LEMMA SomeOf == ASSUME NEW s, s # {} PROVE Some(s) \in s
  BY DEF Some

\* Taking a member out leaves a finite set one smaller.
LEMMA Smaller ==
    ASSUME NEW s, IsFiniteSet(s), NEW x \in s
    PROVE  /\ IsFiniteSet(s \ {x}) /\ Cardinality(s \ {x}) = Cardinality(s) - 1
           /\ Cardinality(s) \in Nat /\ Cardinality(s) # 0
  BY FS_RemoveElement, FS_CardinalityType, FS_EmptySet

\* Total is the value of one such function ...
LEMMA TotalUnfolds ==
    ASSUME NEW f, NEW S, NEW it, IsTotal(it, f, S)
    PROVE  \E jt : IsTotal(jt, f, S) /\ Total(f, S) = jt[S]
<1> DEFINE jt == CHOOSE g : g = [s \in SUBSET S |->
            IF s = {} THEN 0 ELSE f[CHOOSE x \in s : TRUE] + g[s \ {CHOOSE x \in s : TRUE}]]
<1>1. IsTotal(jt, f, S)
  BY DEF IsTotal, Some
<1>2. Total(f, S) = jt[S]
  BY DEF Total, FoldFunctionOnSet, MapThenFoldSet
<1>. QED
  BY <1>1, <1>2

\* ... and there is one for every finite set.
LEMMA TotalExists ==
    ASSUME NEW f, NEW S, IsFiniteSet(S)
    PROVE  \E it : IsTotal(it, f, S)
<1> DEFINE Small(n) == {s \in SUBSET S : Cardinality(s) <= n}
           G == {n \in Nat : \E it : Sums(it, f, Small(n))}
<1>1. \A s \in SUBSET S : IsFiniteSet(s) /\ Cardinality(s) \in Nat /\ Cardinality(s) <= Cardinality(S)
  BY FS_Subset, FS_CardinalityType
<1>2. 0 \in G
  <2>1. Small(0) \subseteq {{}}
    BY <1>1, FS_EmptySet
  <2>2. Sums([s \in {{}} |-> 0], f, Small(0))
    BY <2>1 DEF Sums
  <2>. QED
    BY <2>2
<1>3. ASSUME NEW n \in Nat, n \in G PROVE n + 1 \in G
  <2>1. PICK it : Sums(it, f, Small(n))
    BY <1>3
  <2> DEFINE jt == [s \in SUBSET S |-> IF s = {} THEN 0 ELSE f[Some(s)] + it[s \ {Some(s)}]]
  <2>2. \A s \in Small(n) : jt[s] = it[s]
    BY <2>1 DEF Sums
  <2>3. ASSUME NEW s \in Small(n + 1), s # {}
        PROVE  s \ {Some(s)} \in Small(n)
    <3>1. Some(s) \in s
      BY <2>3, SomeOf
    <3>2. Cardinality(s \ {Some(s)}) = Cardinality(s) - 1 /\ Cardinality(s) \in Nat
      BY <1>1, <3>1, Smaller
    <3>. QED
      BY <3>2
  <2>4. Sums(jt, f, Small(n + 1))
    <3> SUFFICES ASSUME NEW s \in Small(n + 1)
                 PROVE  jt[s] = IF s = {} THEN 0 ELSE f[Some(s)] + jt[s \ {Some(s)}]
      BY DEF Sums
    <3>1. s \in SUBSET S
      OBVIOUS
    <3>2. CASE s = {}
      BY <3>1, <3>2
    <3>3. CASE s # {}
      BY <3>1, <3>3, <2>2, <2>3
    <3>. QED
      BY <3>2, <3>3
  <2>5. \E kt : Sums(kt, f, Small(n + 1))
    <3> HIDE DEF jt, Small
    <3>. QED
      BY <2>4
  <2> HIDE DEF Small
  <2>. QED
    BY <2>5
<1>4. Cardinality(S) \in G
  <2> HIDE DEF G
  <2>1. Nat \subseteq G
    BY <1>2, <1>3, CountUp
  <2>. QED
    BY <2>1, FS_CardinalityType
<1>5. PICK it : Sums(it, f, Small(Cardinality(S)))
  BY <1>4
<1>6. Small(Cardinality(S)) = SUBSET S
  BY <1>1
<1> DEFINE jt == [s \in SUBSET S |-> it[s]]
<1>7. \A s \in SUBSET S : s \ {Some(s)} \in SUBSET S
  OBVIOUS
<1>8. \A s \in SUBSET S : jt[s] = IF s = {} THEN 0 ELSE f[Some(s)] + jt[s \ {Some(s)}]
  BY <1>5, <1>6, <1>7 DEF Sums
<1>9. IsTotal(jt, f, S)
  BY <1>8 DEF IsTotal
<1>. QED
  BY <1>9

\* A sum depends on the amounts of its own members only.
LEMMA TotalsAgree ==
    ASSUME NEW f, NEW S, NEW it, IsTotal(it, f, S),
           NEW g, NEW T, NEW jt, IsTotal(jt, g, T),
           NEW R, R \subseteq S, R \subseteq T, IsFiniteSet(R), \A x \in R : f[x] = g[x]
    PROVE  it[R] = jt[R]
<1> DEFINE G == {n \in Nat : \A s \in SUBSET R : Cardinality(s) = n => it[s] = jt[s]}
<1>1. \A s \in SUBSET R : IsFiniteSet(s) /\ Cardinality(s) \in Nat
  BY FS_Subset, FS_CardinalityType
<1>2. ASSUME NEW s \in SUBSET R, s = {} \/ it[s \ {Some(s)}] = jt[s \ {Some(s)}]
      PROVE  it[s] = jt[s]
  <2>1. /\ it[s] = IF s = {} THEN 0 ELSE f[Some(s)] + it[s \ {Some(s)}]
        /\ jt[s] = IF s = {} THEN 0 ELSE g[Some(s)] + jt[s \ {Some(s)}]
    BY DEF IsTotal
  <2>2. s # {} => f[Some(s)] = g[Some(s)]
    BY SomeOf
  <2>. QED
    BY <1>2, <2>1, <2>2
<1>3. 0 \in G
  BY <1>1, <1>2, FS_EmptySet
<1>4. ASSUME NEW n \in Nat, n \in G PROVE n + 1 \in G
  <2> SUFFICES ASSUME NEW s \in SUBSET R, Cardinality(s) = n + 1 PROVE it[s] = jt[s]
    OBVIOUS
  <2>1. CASE s = {}
    BY <1>2, <2>1
  <2>2. CASE s # {}
    <3>1. Some(s) \in s
      BY <2>2, SomeOf
    <3>2. Cardinality(s \ {Some(s)}) = n
      BY <1>1, <3>1, Smaller
    <3>3. it[s \ {Some(s)}] = jt[s \ {Some(s)}]
      BY <1>4, <3>2
    <3>. QED
      BY <1>2, <3>3
  <2>. QED
    BY <2>1, <2>2
<1>5. Cardinality(R) \in G
  <2> HIDE DEF G
  <2>1. Nat \subseteq G
    BY <1>3, <1>4, CountUp
  <2>. QED
    BY <2>1, FS_CardinalityType
<1>. QED
  BY <1>5

\* Any member can be taken out first.
TakesAny(it, f, s) == it[s] \in Int /\ \A x \in s : it[s] = f[x] + it[s \ {x}]

LEMMA TakesAnyStep ==
    ASSUME NEW f, NEW S, NEW it, IsTotal(it, f, S), \A x \in S : f[x] \in Int,
           NEW s \in SUBSET S, IsFiniteSet(s),
           \A r \in SUBSET S : IsFiniteSet(r) /\ Cardinality(r) < Cardinality(s) => TakesAny(it, f, r)
    PROVE  TakesAny(it, f, s)
<1>1. \A r \in SUBSET S : it[r] = IF r = {} THEN 0 ELSE f[Some(r)] + it[r \ {Some(r)}]
  BY DEF IsTotal
<1>2. CASE s = {}
  <2>1. it[s] = 0
    BY <1>1, <1>2
  <2>2. it[s] \in Int
    BY <2>1
  <2>. QED
    BY <1>2, <2>2 DEF TakesAny
<1>3. CASE s # {}
  <2> DEFINE c == Some(s)
  <2>1. c \in s
    BY <1>3, SomeOf
  <2> HIDE DEF c
  <2>2. ASSUME NEW x \in s
        PROVE  /\ s \ {x} \in SUBSET S /\ IsFiniteSet(s \ {x})
               /\ Cardinality(s \ {x}) < Cardinality(s)
               /\ TakesAny(it, f, s \ {x})
    <3>1. IsFiniteSet(s \ {x}) /\ Cardinality(s \ {x}) = Cardinality(s) - 1 /\ Cardinality(s) \in Nat
      BY Smaller
    <3>2. Cardinality(s \ {x}) < Cardinality(s)
      BY <3>1
    <3>. QED
      BY <3>1, <3>2
  <2>3. it[s] = f[c] + it[s \ {c}] /\ it[s \ {c}] \in Int /\ f[c] \in Int
    BY <1>1, <1>3, <2>1, <2>2 DEF TakesAny, c
  <2>4. ASSUME NEW x \in s, x # c PROVE it[s] = f[x] + it[s \ {x}]
    <3> DEFINE rest == (s \ {c}) \ {x}
    <3>1. rest = (s \ {x}) \ {c} /\ x \in s \ {c} /\ c \in s \ {x}
      BY <2>1, <2>4
    <3>2. IsFiniteSet(rest) /\ Cardinality(rest) = Cardinality(s \ {c}) - 1 /\ Cardinality(s \ {c}) \in Nat
      BY <2>1, <2>2, <3>1, Smaller
    <3>3. Cardinality(rest) < Cardinality(s)
      <4>1. Cardinality(s) \in Nat
        BY FS_CardinalityType
      <4>2. Cardinality(s \ {c}) < Cardinality(s)
        BY <2>1, <2>2
      <4> DEFINE k == Cardinality(s)
                 m == Cardinality(s \ {c})
                 l == Cardinality(rest)
      <4>3. k \in Nat /\ m \in Nat /\ m < k /\ l = m - 1
        BY <3>2, <4>1, <4>2
      <4> HIDE DEF k, m, l
      <4>4. l < k
        BY <4>3
      <4>. QED
        BY <4>4 DEF k, l
    <3>4. it[rest] \in Int
      BY <3>2, <3>3 DEF TakesAny
    <3> HIDE DEF rest
    <3>5. it[s \ {c}] = f[x] + it[rest]
      BY <2>1, <2>2, <3>1 DEF TakesAny, rest
    <3>6. it[s \ {x}] = f[c] + it[rest]
      BY <2>2, <3>1 DEF TakesAny
    <3>7. f[x] \in Int
      OBVIOUS
    <3>. QED
      BY <2>3, <3>4, <3>5, <3>6, <3>7
  <2>5. \A x \in s : it[s] = f[x] + it[s \ {x}]
    BY <2>3, <2>4
  <2>6. it[s] \in Int
    BY <2>3
  <2>. QED
    BY <2>5, <2>6 DEF TakesAny
<1>. QED
  BY <1>2, <1>3

\* By induction on the number of members.
LEMMA TotalsCommute ==
    ASSUME NEW f, NEW S, NEW it, IsTotal(it, f, S), IsFiniteSet(S), \A x \in S : f[x] \in Int
    PROVE  TakesAny(it, f, S)
<1> DEFINE G == {n \in Nat : \A s \in SUBSET S :
                    IsFiniteSet(s) /\ Cardinality(s) < n => TakesAny(it, f, s)}
<1>1. 0 \in G
  <2>1. \A s \in SUBSET S : IsFiniteSet(s) => Cardinality(s) \in Nat
    BY FS_CardinalityType
  <2>. QED
    BY <2>1
<1>2. ASSUME NEW n \in Nat, n \in G PROVE n + 1 \in G
  <2>1. ASSUME NEW s \in SUBSET S, IsFiniteSet(s), Cardinality(s) < n + 1
        PROVE  TakesAny(it, f, s)
    <3>1. Cardinality(s) \in Nat /\ Cardinality(s) <= n
      BY <2>1, FS_CardinalityType
    <3>2. \A r \in SUBSET S : IsFiniteSet(r) => Cardinality(r) \in Nat
      BY FS_CardinalityType
    <3>3. \A r \in SUBSET S : IsFiniteSet(r) /\ Cardinality(r) < Cardinality(s) => TakesAny(it, f, r)
      BY <1>2, <3>1, <3>2
    <3>. QED
      BY <2>1, <3>3, TakesAnyStep
  <2>. QED
    BY <2>1
<1>3. Cardinality(S) \in Nat
  BY FS_CardinalityType
<1>4. Cardinality(S) + 1 \in G
  <2> HIDE DEF G
  <2>1. Nat \subseteq G
    BY <1>1, <1>2, CountUp
  <2>. QED
    BY <2>1, <1>3
<1>. QED
  BY <1>3, <1>4

\* What the sum of the amounts of a finite set is made of.
LEMMA TotalTakes ==
    ASSUME NEW f, NEW S, IsFiniteSet(S), \A x \in S : f[x] \in Int, NEW x \in S
    PROVE  Total(f, S) = f[x] + Total(f, S \ {x})
<1> DEFINE R == S \ {x}
<1>1. IsFiniteSet(R)
  BY FS_RemoveElement
<1>2. PICK it : IsTotal(it, f, S) /\ Total(f, S) = it[S]
  BY TotalExists, TotalUnfolds
<1>3. PICK jt : IsTotal(jt, f, R) /\ Total(f, R) = jt[R]
  BY <1>1, TotalExists, TotalUnfolds
<1>4. it[R] = jt[R]
  <2>1. R \subseteq S /\ R \subseteq R
    OBVIOUS
  <2> HIDE DEF R
  <2>. QED
    BY <1>1, <1>2, <1>3, <2>1, TotalsAgree
<1>5. it[S] = f[x] + it[R]
  BY <1>2, TotalsCommute DEF TakesAny
<1>. QED
  BY <1>2, <1>3, <1>4, <1>5

LEMMA TotalSame ==
    ASSUME NEW f, NEW g, NEW S, IsFiniteSet(S), \A x \in S : f[x] = g[x]
    PROVE  Total(f, S) = Total(g, S)
<1>1. PICK it : IsTotal(it, f, S) /\ Total(f, S) = it[S]
  BY TotalExists, TotalUnfolds
<1>2. PICK jt : IsTotal(jt, g, S) /\ Total(g, S) = jt[S]
  BY TotalExists, TotalUnfolds
<1>3. S \subseteq S
  OBVIOUS
<1>. QED
  BY <1>1, <1>2, <1>3, TotalsAgree

LEMMA TotalEmpty == ASSUME NEW f PROVE Total(f, {}) = 0
<1>1. PICK it : IsTotal(it, f, {}) /\ Total(f, {}) = it[{}]
  BY FS_EmptySet, TotalExists, TotalUnfolds
<1>. QED
  BY <1>1 DEF IsTotal

LEMMA TotalType ==
    ASSUME NEW f, NEW S, IsFiniteSet(S), \A x \in S : f[x] \in Int
    PROVE  Total(f, S) \in Int
<1>1. PICK it : IsTotal(it, f, S) /\ Total(f, S) = it[S]
  BY TotalExists, TotalUnfolds
<1>. QED
  BY <1>1, TotalsCommute DEF TakesAny

-----------------------------------------------------------------------------
\* Finitely many blocks and reservations at a time, and the total their sum.
Accounting == IsFiniteSet(Held) /\ IsFiniteSet(Reserving) /\ TotalExact

\* The amounts an invariant state adds up.
LEMMA Amounts ==
    ASSUME TypeOK, \A t \in Threads : pc[t] = "allocating" => size[t] \in Sizes
    PROVE  /\ \A b \in Held : capacity[b] \in Int
           /\ \A t \in Reserving : Reserved[t] = AlignedSize(size[t]) /\ Reserved[t] \in Int
  BY AlignedSizeFits DEF Held, Reserving, Reserved, TypeOK

\* A step that neither adds a block nor a reservation.
LEMMA AccountKept ==
    ASSUME Accounting, total' = total, UNCHANGED capacity, Held' = Held,
           Reserving' = Reserving, \A t \in Reserving : size'[t] = size[t]
    PROVE  Accounting'
<1>1. Reserved' = Reserved
  BY DEF Reserved
<1>. QED
  BY <1>1 DEF Accounting, TotalExact

LEMMA ReserveAccount ==
    ASSUME IInv, Accounting, NEW t \in Threads, NEW s \in Sizes, Reserve(t, s)
    PROVE  Accounting'
<1>1. /\ pc[t] = "idle" /\ total' = total + AlignedSize(s)
      /\ pc' = [pc EXCEPT ![t] = "allocating"] /\ size' = [size EXCEPT ![t] = s]
      /\ UNCHANGED << capacity, state >>
  BY DEF Reserve
<1>2. t \notin Reserving /\ Reserving' = Reserving \cup {t} /\ Held' = Held
  BY <1>1 DEF Reserving, Held, IInv, TypeOK
<1>3. IsFiniteSet(Reserving') /\ Reserving' \ {t} = Reserving
  BY <1>2, FS_AddElement DEF Accounting
<1>4. /\ \A u \in Reserving : Reserved'[u] = Reserved[u] /\ Reserved[u] \in Int
      /\ Reserved'[t] = AlignedSize(s) /\ Reserved'[t] \in Int
  <2>1. \A u \in Reserving : Reserved[u] = AlignedSize(size[u]) /\ Reserved[u] \in Int
    BY Amounts DEF IInv, Requests
  <2>2. \A u \in Reserving' : Reserved'[u] = AlignedSize(size'[u])
    BY DEF Reserved
  <2>3. size'[t] = s /\ \A u \in Reserving : size'[u] = size[u]
    BY <1>1, <1>2 DEF IInv, TypeOK
  <2>4. AlignedSize(s) \in Int
    BY AlignedSizeFits
  <2>. QED
    BY <1>2, <2>1, <2>2, <2>3, <2>4
<1>5. Total(Reserved', Reserving') = AlignedSize(s) + Total(Reserved', Reserving)
  <2>1. \A u \in Reserving' : Reserved'[u] \in Int
    BY <1>2, <1>4
  <2>2. t \in Reserving'
    BY <1>2
  <2>. QED
    BY <1>3, <1>4, <2>1, <2>2, TotalTakes
<1>6. Total(Reserved', Reserving) = Total(Reserved, Reserving)
  BY <1>4, TotalSame DEF Accounting
<1>7. Total(capacity, Held) \in Int /\ Total(Reserved, Reserving) \in Int
  BY Amounts, TotalType DEF Accounting, IInv, Requests
<1>8. total' = Total(capacity', Held') + Total(Reserved', Reserving')
  <2>1. total = Total(capacity, Held) + Total(Reserved, Reserving)
    BY DEF Accounting, TotalExact
  <2>2. AlignedSize(s) \in Int
    BY AlignedSizeFits
  <2>. QED
    BY <1>1, <1>2, <1>5, <1>6, <1>7, <2>1, <2>2
<1>. QED
  BY <1>2, <1>3, <1>8 DEF Accounting, TotalExact

\* A reservation that ends, by a block or by a failure.
LEMMA ReservationEnds ==
    ASSUME IInv, Accounting, NEW t \in Threads, pc[t] = "allocating",
           pc' = [pc EXCEPT ![t] = "idle"], UNCHANGED size
    PROVE  /\ IsFiniteSet(Reserving')
           /\ Total(Reserved, Reserving)
                = AlignedSize(size[t]) + Total(Reserved', Reserving')
           /\ Total(Reserved', Reserving') \in Int /\ AlignedSize(size[t]) \in Int
<1>1. t \in Reserving /\ Reserving' = Reserving \ {t}
  BY DEF Reserving, IInv, TypeOK
<1>2. IsFiniteSet(Reserving')
  BY <1>1, FS_RemoveElement DEF Accounting
<1>3. \A u \in Reserving : Reserved[u] = AlignedSize(size[u]) /\ Reserved[u] \in Int
  BY Amounts DEF IInv, Requests
<1>4. \A u \in Reserving' : Reserved'[u] = Reserved[u] /\ Reserved'[u] \in Int
  <2>1. \A u \in Reserving' : Reserved'[u] = AlignedSize(size'[u])
    BY DEF Reserved
  <2>. QED
    BY <1>1, <1>3, <2>1
<1>5. Total(Reserved, Reserving) = Reserved[t] + Total(Reserved, Reserving \ {t})
  BY <1>1, <1>3, TotalTakes DEF Accounting
<1>6. Total(Reserved, Reserving') = Total(Reserved', Reserving')
  BY <1>2, <1>4, TotalSame
<1>7. Total(Reserved', Reserving') \in Int
  BY <1>2, <1>4, TotalType
<1>. QED
  BY <1>1, <1>2, <1>3, <1>5, <1>6, <1>7

LEMMA AllocateAccount ==
    ASSUME IInv, Accounting, NEW t \in Threads, Allocate(t)
    PROVE  Accounting'
<1>1. PICK b \in Blocks :
        /\ state[b] = "absent"
        /\ capacity' = [capacity EXCEPT ![b] = AlignedSize(size[t])]
        /\ state' = [state EXCEPT ![b] = "in_use"]
  BY DEF Allocate
<1>2. /\ pc[t] = "allocating" /\ pc' = [pc EXCEPT ![t] = "idle"]
      /\ UNCHANGED << size, total >>
  BY DEF Allocate
<1>3. /\ IsFiniteSet(Reserving')
      /\ Total(Reserved, Reserving) = AlignedSize(size[t]) + Total(Reserved', Reserving')
      /\ Total(Reserved', Reserving') \in Int /\ AlignedSize(size[t]) \in Int
  BY <1>2, ReservationEnds
<1>4. b \notin Held /\ Held' = Held \cup {b}
  BY <1>1 DEF Held, IInv, TypeOK
<1>5. IsFiniteSet(Held') /\ Held' \ {b} = Held /\ b \in Held'
  BY <1>4, FS_AddElement DEF Accounting
<1>6. \A c \in Held : capacity'[c] = capacity[c] /\ capacity[c] \in Int
  BY <1>1, <1>4, Amounts DEF IInv, TypeOK, Requests, Held
<1>7. capacity'[b] = AlignedSize(size[t])
  BY <1>1 DEF IInv, TypeOK
<1>8. Total(capacity', Held') = AlignedSize(size[t]) + Total(capacity', Held)
  <2>1. \A c \in Held' : capacity'[c] \in Int
    BY <1>3, <1>4, <1>6, <1>7
  <2>. QED
    BY <1>5, <1>7, <2>1, TotalTakes
<1>9. Total(capacity', Held) = Total(capacity, Held) /\ Total(capacity, Held) \in Int
  BY <1>6, TotalSame, TotalType DEF Accounting
<1>10. total' = Total(capacity', Held') + Total(Reserved', Reserving')
  <2>1. total = Total(capacity, Held) + Total(Reserved, Reserving)
    BY DEF Accounting, TotalExact
  <2>. QED
    BY <1>2, <1>3, <1>8, <1>9, <2>1
<1>. QED
  BY <1>3, <1>5, <1>10 DEF Accounting, TotalExact

LEMMA AllocateFailsAccount ==
    ASSUME IInv, Accounting, NEW t \in Threads, AllocateFails(t)
    PROVE  Accounting'
<1>1. /\ pc[t] = "allocating" /\ pc' = [pc EXCEPT ![t] = "idle"]
      /\ total' = total - AlignedSize(size[t])
      /\ UNCHANGED << size, capacity, state >>
  BY DEF AllocateFails
<1>2. /\ IsFiniteSet(Reserving')
      /\ Total(Reserved, Reserving) = AlignedSize(size[t]) + Total(Reserved', Reserving')
      /\ Total(Reserved', Reserving') \in Int /\ AlignedSize(size[t]) \in Int
  BY <1>1, ReservationEnds
<1>3. Held' = Held
  BY <1>1 DEF Held
<1>4. Total(capacity, Held) \in Int
  BY Amounts, TotalType DEF Accounting, IInv, Requests
<1>5. total = Total(capacity, Held) + Total(Reserved, Reserving)
  BY DEF Accounting, TotalExact
<1>6. total' = Total(capacity', Held') + Total(Reserved', Reserving')
  BY <1>1, <1>2, <1>3, <1>4, <1>5
<1>. QED
  BY <1>2, <1>3, <1>6 DEF Accounting, TotalExact

\* The other steps move blocks between in use, available and pending.
LEMMA MovesKeepAccount ==
    ASSUME IInv, Accounting, NEW t \in Threads,
           \/ \E s \in Sizes : TakeAvailable(t, s) \/ TakePending(t, s)
           \/ Synchronize(t) \/ SynchronizeFails(t)
    PROVE  Accounting'
<1>1. UNCHANGED << capacity, total >>
  BY DEF TakeAvailable, TakePending, Synchronize, SynchronizeFails
<1>2. Held' = Held
  <2>1. ASSUME NEW s \in Sizes, TakeAvailable(t, s) PROVE Held' = Held
    <3> DEFINE moved == Reclaimed(AlignedSize(s))
    <3>1. \A b \in moved : b \in pending
      BY DEF Reclaimed
    <3>2. \A b \in moved : state[b] = "pending"
      BY <3>1 DEF IInv, TypeOK, PlacedOnce
    <3>3. PICK b \in Usable(AlignedSize(s)) :
            \/ state' = [c \in Blocks |-> IF c = b THEN "in_use"
                                          ELSE IF c \in moved THEN "available" ELSE state[c]]
            \/ state' = [c \in Blocks |-> IF c \in moved THEN "available" ELSE state[c]]
      BY <2>1 DEF TakeAvailable, BestFit
    <3>4. b \in moved \/ b \in available
      BY DEF Usable
    <3>5. b \in Blocks /\ state[b] # "absent"
      BY <3>1, <3>2, <3>4 DEF IInv, TypeOK, PlacedOnce
    <3>. QED
      BY <3>2, <3>3, <3>5 DEF Held
  <2>2. ASSUME NEW s \in Sizes, TakePending(t, s) PROVE Held' = Held
    <3>1. PICK b \in pending : state' = [state EXCEPT ![b] = "in_use"]
      BY <2>2 DEF TakePending, BestFit
    <3>2. b \in Blocks /\ state[b] = "pending"
      BY DEF IInv, TypeOK, PlacedOnce
    <3>. QED
      BY <3>1, <3>2 DEF Held, IInv, TypeOK
  <2>3. ASSUME Synchronize(t) \/ SynchronizeFails(t) PROVE Held' = Held
    <3>1. target[t] \in Blocks /\ state[target[t]] = "in_use"
      BY <2>3, LastWaiter DEF Synchronize, SynchronizeFails
    <3>2. \/ state' = state
          \/ \E v \in {"available", "pending"} : state' = [state EXCEPT ![target[t]] = v]
      BY <2>3 DEF Synchronize, SynchronizeFails
    <3>. QED
      BY <3>1, <3>2 DEF Held, IInv, TypeOK
  <2>. QED
    BY <2>1, <2>2, <2>3
<1>3. pc[t] # "allocating" /\ \A u \in Threads : u # t => pc'[u] = pc[u] /\ size'[u] = size[u]
  BY DEF TakeAvailable, TakePending, Synchronize, SynchronizeFails, DoneWaiting, IInv, TypeOK
<1>4. pc'[t] # "allocating"
  BY <1>3 DEF TakeAvailable, TakePending, Synchronize, SynchronizeFails, DoneWaiting, IInv, TypeOK
<1>5. Reserving' = Reserving /\ \A u \in Reserving : size'[u] = size[u]
  BY <1>3, <1>4 DEF Reserving
<1>. QED
  BY <1>1, <1>2, <1>5, AccountKept

LEMMA ReleasesKeepAccount ==
    ASSUME IInv, Accounting, NEW b \in Blocks,
           Release(b) \/ \E e \in Events : ReleaseAfter(b, e)
    PROVE  Accounting'
<1>1. UNCHANGED << capacity, total, pc, size >>
  BY DEF Release, ReleaseAfter
<1>2. Held' = Held
  <2>1. /\ state[b] = "in_use"
        /\ \E v \in {"available", "pending"} : state' = [state EXCEPT ![b] = v]
    BY DEF Release, ReleaseAfter
  <2>. QED
    BY <2>1 DEF Held, IInv, TypeOK
<1>3. Reserving' = Reserving
  BY <1>1 DEF Reserving
<1>. QED
  BY <1>1, <1>2, <1>3, AccountKept

LEMMA InitAccount == Init => Accounting
<1> SUFFICES ASSUME Init PROVE Accounting
  OBVIOUS
<1>1. Held = {} /\ Reserving = {} /\ total = 0
  BY DEF Init, Held, Reserving
<1>2. Total(capacity, {}) = 0 /\ Total(Reserved, {}) = 0
  BY TotalEmpty
<1>. QED
  BY <1>1, <1>2, FS_EmptySet DEF Accounting, TotalExact

LEMMA NextAccount == IInv /\ Accounting /\ [Next]_vars => Accounting'
<1> SUFFICES ASSUME IInv, Accounting, [Next]_vars PROVE Accounting'
  OBVIOUS
<1>1. ASSUME UNCHANGED << capacity, state, total, pc, size >> PROVE Accounting'
  <2>1. Held' = Held /\ Reserving' = Reserving
    BY <1>1 DEF Held, Reserving
  <2>. QED
    BY <1>1, <2>1, AccountKept
<1>2. CASE UNCHANGED vars
  BY <1>1, <1>2 DEF vars, pool, callers
<1>3. CASE \E e \in Events : Pass(e)
  BY <1>1, <1>3 DEF Pass, pool, callers
<1>4. CASE Next /\ ~ \E e \in Events : Pass(e)
  BY <1>4, ReserveAccount, AllocateAccount, AllocateFailsAccount, MovesKeepAccount,
     ReleasesKeepAccount DEF Next
<1>. QED
  BY <1>2, <1>3, <1>4

\* _total_allocated is at every moment, also between a reservation and its
\* allocation or failure, the sum of what is held and what is reserved.
THEOREM AccountingExact == Spec => []TotalExact
<1>1. Init => Accounting
  BY InitAccount
<1>2. IInv /\ IInv' /\ Accounting /\ [Next]_vars => Accounting'
  BY NextAccount
<1>3. Accounting => TotalExact
  BY DEF Accounting
<1>. QED
  BY <1>1, <1>2, <1>3, Invariance, PTL DEF Spec
=============================================================================
