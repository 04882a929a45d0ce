------------------------- MODULE PinnedMemoryPool -------------------------
(***************************************************************************)
(* PinnedMemoryPool of core/activation_memory: pinned host buffers shared  *)
(* by the threads that offload and load activations.                       *)
(*                                                                         *)
(* acquire decides under the lock but allocates, or waits for the event of *)
(* a pending block, outside of it, and rolls back when either fails.       *)
(* release may come with an event: the block is pending until the device   *)
(* has passed the event, because a transfer still uses its memory.         *)
(*                                                                         *)
(* The buckets of the pool are lists per capacity.  Here they are two sets *)
(* of blocks: which of several blocks of the best capacity is taken is     *)
(* left open.                                                              *)
(***************************************************************************)
EXTENDS Integers, FiniteSets, Functions

CONSTANTS Threads, Blocks,
          Events,        \* the device events in use at a time
          Sizes,         \* the sizes requested
          MaxHostBytes, AlignLimit,
          NoEvent, NoBlock

ASSUME PoolAssumption ==
    /\ Sizes \subseteq Nat \ {0}
    /\ MaxHostBytes \in Nat \ {0} /\ AlignLimit \in Nat \ {0}
    /\ NoEvent \notin Events /\ NoBlock \notin Blocks

VARIABLES
    capacity, state, event,  \* _Block, per block; "absent" before its allocation
    available, pending,      \* the buckets
    total,                   \* _total_allocated
    pc, size, target,        \* acquire of a thread: the size it asked for and
                             \* the pending block it waits for
    views, asked,            \* views of a block handed out, and for which size
    busy                     \* transfers the device has not finished, as
                             \* (block, event that follows the transfer)

pool == << capacity, state, event, available, pending, total >>
callers == << pc, size, target, views, asked >>
vars == << pool, callers, busy >>

Init ==
    /\ capacity = [b \in Blocks |-> 0]
    /\ state = [b \in Blocks |-> "absent"]
    /\ event = [b \in Blocks |-> NoEvent]
    /\ available = {}
    /\ pending = {}
    /\ total = 0
    /\ pc = [t \in Threads |-> "idle"]
    /\ size = [t \in Threads |-> 0]
    /\ target = [t \in Threads |-> NoBlock]
    /\ views = [b \in Blocks |-> 0]
    /\ asked = [b \in Blocks |-> 0]
    /\ busy = {}

-----------------------------------------------------------------------------
MinBucketBytes == 1024
AtLeast(a, b) == IF b <= a THEN a ELSE b
AtMost(a, b) == IF a <= b THEN a ELSE b
BitLength(n) == CHOOSE k \in 0 .. n : n < 2 ^ k /\ 2 ^ k <= 2 * n
PowerOfTwo(n) == 2 ^ BitLength(n - 1)
\* That a power of two in reach exists is arithmetic TLC evaluates.
ASSUME PowerAssumption == \A s \in Sizes : PowerOfTwo(AtLeast(s, MinBucketBytes)) \in Nat
AlignedSize(s) ==
    IF s > AlignLimit THEN s
    ELSE AtLeast(AtMost(PowerOfTwo(AtLeast(s, MinBucketBytes)), AlignLimit), s)

Passed(e) == \A x \in busy : x[2] # e

BestFit(bucket, need) ==
    {b \in bucket : /\ capacity[b] >= need
                    /\ \A c \in bucket : capacity[c] >= need => capacity[b] <= capacity[c]}

\* _reclaim_completed_locked: the pending blocks that become available.
Reclaimed(need) == {b \in pending : capacity[b] >= need /\ Passed(event[b])}
Usable(need) == available \cup Reclaimed(need)

\* A new view of the block is returned to the caller.
Checkout(b, s) ==
    /\ views' = [views EXCEPT ![b] = @ + 1]
    /\ asked' = [asked EXCEPT ![b] = s]

-----------------------------------------------------------------------------
(***************************************************************************)
(* acquire, the section under the lock.  When nothing fits, the pool is    *)
(* full and no block is pending it raises and changes nothing.             *)
(***************************************************************************)
TakeAvailable(t, s) ==
    /\ pc[t] = "idle"
    /\ LET need == AlignedSize(s) IN
        /\ pending' = pending \ Reclaimed(need)
        /\ event' = [b \in Blocks |-> IF b \in Reclaimed(need) THEN NoEvent ELSE event[b]]
        /\ \E b \in BestFit(Usable(need), need) :
            \/ /\ available' = Usable(need) \ {b}
               /\ state' = [c \in Blocks |-> IF c = b THEN "in_use"
                                             ELSE IF c \in Reclaimed(need) THEN "available"
                                             ELSE state[c]]
               /\ Checkout(b, s)
            \/ \* the view cannot be made: the block goes back
               /\ available' = Usable(need)
               /\ state' = [c \in Blocks |-> IF c \in Reclaimed(need) THEN "available"
                                             ELSE state[c]]
               /\ UNCHANGED << views, asked >>
    /\ UNCHANGED << capacity, total, pc, size, target, busy >>

ReserveUnchecked(t, s) ==  \* mutant: the limit is tested without the new block
    /\ pc[t] = "idle"
    /\ LET need == AlignedSize(s) IN
        /\ BestFit(Usable(need), need) = {}
        /\ total <= MaxHostBytes
        /\ total' = total + need
    /\ pc' = [pc EXCEPT ![t] = "allocating"]
    /\ size' = [size EXCEPT ![t] = s]
    /\ UNCHANGED << capacity, state, event, available, pending, target, views, asked, busy >>
Reserve(t, s) ==
    /\ pc[t] = "idle"
    /\ LET need == AlignedSize(s) IN
        /\ BestFit(Usable(need), need) = {}
        /\ total + need <= MaxHostBytes
        /\ total' = total + need
    /\ pc' = [pc EXCEPT ![t] = "allocating"]
    /\ size' = [size EXCEPT ![t] = s]
    /\ UNCHANGED << capacity, state, event, available, pending, target, views, asked, busy >>

LeavePending(t, s) ==  \* mutant: the block a thread waits for stays in its bucket
    /\ pc[t] = "idle"
    /\ LET need == AlignedSize(s) IN
        /\ BestFit(Usable(need), need) = {}
        /\ total + need > MaxHostBytes
        /\ \E b \in BestFit(pending, need) :
            /\ state' = [state EXCEPT ![b] = "in_use"]
            /\ target' = [target EXCEPT ![t] = b]
    /\ pc' = [pc EXCEPT ![t] = "waiting"]
    /\ size' = [size EXCEPT ![t] = s]
    /\ UNCHANGED << capacity, event, available, pending, total, views, asked, busy >>
TakePending(t, s) ==
    /\ pc[t] = "idle"
    /\ LET need == AlignedSize(s) IN
        /\ BestFit(Usable(need), need) = {}
        /\ total + need > MaxHostBytes
        /\ \E b \in BestFit(pending, need) :
            /\ pending' = pending \ {b}
            /\ state' = [state EXCEPT ![b] = "in_use"]
            /\ target' = [target EXCEPT ![t] = b]
    /\ pc' = [pc EXCEPT ![t] = "waiting"]
    /\ size' = [size EXCEPT ![t] = s]
    /\ UNCHANGED << capacity, event, available, total, views, asked, busy >>

-----------------------------------------------------------------------------
(***************************************************************************)
(* acquire, after the lock was left: the allocation or the wait, and the   *)
(* second section under the lock.                                          *)
(***************************************************************************)
Allocate(t) ==
    /\ pc[t] = "allocating"
    /\ \E b \in Blocks :
        /\ state[b] = "absent"
        /\ capacity' = [capacity EXCEPT ![b] = AlignedSize(size[t])]
        /\ state' = [state EXCEPT ![b] = "in_use"]
        /\ Checkout(b, size[t])
    /\ pc' = [pc EXCEPT ![t] = "idle"]
    /\ UNCHANGED << event, available, pending, total, size, target, busy >>

KeepReservation(t) ==  \* mutant: the reservation is not given back
    /\ pc[t] = "allocating"
    /\ pc' = [pc EXCEPT ![t] = "idle"]
    /\ UNCHANGED << pool, size, target, views, asked, busy >>
\* Neither a failed allocation nor a failed view leaves a block behind.
AllocateFails(t) ==
    /\ pc[t] = "allocating"
    /\ total' = total - AlignedSize(size[t])
    /\ pc' = [pc EXCEPT ![t] = "idle"]
    /\ UNCHANGED << capacity, state, event, available, pending, size, target,
                    views, asked, busy >>

DoneWaiting(t) == /\ pc' = [pc EXCEPT ![t] = "idle"]
                  /\ target' = [target EXCEPT ![t] = NoBlock]

Synchronize(t) ==
    /\ pc[t] = "waiting"
    /\ LET b == target[t] IN
        /\ Passed(event[b])
        /\ event' = [event EXCEPT ![b] = NoEvent]
        /\ \/ /\ Checkout(b, size[t])
              /\ UNCHANGED << state, available >>
           \/ \* the view cannot be made: the block is free again
              /\ state' = [state EXCEPT ![b] = "available"]
              /\ available' = available \cup {b}
              /\ UNCHANGED << views, asked >>
    /\ DoneWaiting(t)
    /\ UNCHANGED << capacity, pending, total, size, busy >>

FreeUnwaited(t) ==  \* mutant: the block is made available, its event forgotten
    /\ pc[t] = "waiting"
    /\ state' = [state EXCEPT ![target[t]] = "available"]
    /\ event' = [event EXCEPT ![target[t]] = NoEvent]
    /\ available' = available \cup {target[t]}
    /\ DoneWaiting(t)
    /\ UNCHANGED << capacity, pending, total, size, views, asked, busy >>
SynchronizeFails(t) ==
    /\ pc[t] = "waiting"
    /\ state' = [state EXCEPT ![target[t]] = "pending"]
    /\ pending' = pending \cup {target[t]}
    /\ DoneWaiting(t)
    /\ UNCHANGED << capacity, event, available, total, size, views, asked, busy >>

-----------------------------------------------------------------------------
(***************************************************************************)
(* release.  The caller gives its view up; with an event it says that a    *)
(* transfer may still use the memory.  Several blocks may share an event   *)
(* of one batch; an event no block refers to any more is recorded anew.    *)
(***************************************************************************)
Refers(e) == \E b \in Blocks : event[b] = e

Release(b) ==
    /\ views[b] > 0
    /\ state[b] = "in_use"
    /\ views' = [views EXCEPT ![b] = @ - 1]
    /\ state' = [state EXCEPT ![b] = "available"]
    /\ available' = available \cup {b}
    /\ UNCHANGED << capacity, event, pending, total, pc, size, target, asked, busy >>

ReleaseAfter(b, e) ==
    /\ views[b] > 0
    /\ state[b] = "in_use"
    /\ views' = [views EXCEPT ![b] = @ - 1]
    /\ state' = [state EXCEPT ![b] = "pending"]
    /\ event' = [event EXCEPT ![b] = e]
    /\ pending' = pending \cup {b}
    /\ busy' = IF Refers(e) /\ Passed(e) THEN busy ELSE busy \cup {<< b, e >>}
    /\ UNCHANGED << capacity, available, total, pc, size, target, asked >>

\* The device passes an event.
Pass(e) ==
    /\ ~Passed(e)
    /\ busy' = {x \in busy : x[2] # e}
    /\ UNCHANGED << pool, callers >>

Next ==
    \/ \E t \in Threads, s \in Sizes :
        TakeAvailable(t, s) \/ Reserve(t, s) \/ TakePending(t, s)
    \/ \E t \in Threads :
        Allocate(t) \/ AllocateFails(t) \/ Synchronize(t) \/ SynchronizeFails(t)
    \/ \E b \in Blocks : Release(b)
    \/ \E b \in Blocks, e \in Events : ReleaseAfter(b, e)
    \/ \E e \in Events : Pass(e)

Spec == Init /\ [][Next]_vars

-----------------------------------------------------------------------------
(***************************************************************************)
(* The type invariant; the total is within the limit at every moment, also *)
(* between the reservation of several threads and their allocations.       *)
(***************************************************************************)
States == {"absent", "in_use", "available", "pending"}
TypeOK ==
    /\ capacity \in [Blocks -> Nat]
    /\ state \in [Blocks -> States]
    /\ event \in [Blocks -> Events \cup {NoEvent}]
    /\ available \subseteq Blocks /\ pending \subseteq Blocks
    /\ total \in Int /\ total <= MaxHostBytes
    /\ pc \in [Threads -> {"idle", "allocating", "waiting"}]
    /\ size \in [Threads -> Sizes \cup {0}]
    /\ target \in [Threads -> Blocks \cup {NoBlock}]
    /\ views \in [Blocks -> Nat] /\ asked \in [Blocks -> Nat]
    /\ busy \subseteq Blocks \X Events

(***************************************************************************)
(* A block is in one place: in one bucket, or taken out by one waiting     *)
(* thread, or handed out as one view.  So no memory is handed out twice,   *)
(* none is lost when an acquire fails half-way, and a caller that returns  *)
(* its view is never told that it was already released.                    *)
(***************************************************************************)
Waiters(b) == {t \in Threads : target[t] = b}
PlacedOnce ==
    \A b \in Blocks :
        /\ b \in available <=> state[b] = "available"
        /\ b \in pending <=> state[b] = "pending"
        /\ state[b] = "in_use" <=> views[b] > 0 \/ Waiters(b) # {}
        /\ views[b] <= 1
        /\ \A t, u \in Waiters(b) : t = u
        /\ Waiters(b) # {} => views[b] = 0

(***************************************************************************)
(* Memory is not reused under a transfer: while the device has not passed  *)
(* the event a block was released with, the block is pending or waited for *)
(* and still knows its event, through failed waits and shared events.      *)
(***************************************************************************)
NoReuseInTransfer ==
    \A x \in busy :
        /\ event[x[1]] = x[2]
        /\ x[1] \in pending \/ Waiters(x[1]) # {}

(***************************************************************************)
(* A caller never gets less memory than it asked for, whatever block was   *)
(* reused for it (the best fit of acquire and _aligned_size).              *)
(***************************************************************************)
ViewFits == \A b \in Blocks : views[b] > 0 => asked[b] <= capacity[b]

(***************************************************************************)
(* The accounting is exact at every moment, also while threads allocate    *)
(* outside the lock and after they failed: _total_allocated is what the    *)
(* blocks hold plus what is reserved.                                      *)
(***************************************************************************)
Total(amount, set) == FoldFunctionOnSet(+, 0, amount, set)
Held == {b \in Blocks : state[b] # "absent"}
Reserving == {t \in Threads : pc[t] = "allocating"}
Reserved == [t \in Reserving |-> AlignedSize(size[t])]
TotalExact == total = Total(capacity, Held) + Total(Reserved, Reserving)
=============================================================================
