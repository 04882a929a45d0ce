------------------------- MODULE CommComputeOverlap -------------------------
(***************************************************************************)
(* CommComputeOverlap.run and the HookCoordinator it drives: the forward   *)
(* of one chunk and the backward of another run on two threads and meet at *)
(* the sync hooks of their MoE layers, so that a communication is launched *)
(* before the computation of the other thread it should overlap with.      *)
(*                                                                         *)
(* A thread alternates between the operation in front of a hook and the    *)
(* hook: it notifies that its operation was dispatched and enters a        *)
(* rendezvous for the next one.  Every access to shared state that another *)
(* thread can come between is a step of its own.  The barrier is Python's  *)
(* threading.Barrier(2): it fills, drains, and once aborted stays broken.  *)
(***************************************************************************)
EXTENDS Integers, Sequences, FiniteSets

CONSTANTS Layers,   \* the MoE layer counts of a chunk
          Sessions  \* bound: calls of run()

ASSUME LayersAssumption == Layers \subseteq Nat
ASSUME SessionsAssumption == Sessions \in Nat

Threads == {"fwd", "bwd"}
Other(t) == IF t = "fwd" THEN "bwd" ELSE "fwd"
\* The chunk a thread runs; tagged: its last layer was wrapped is_last_layer.
Chunks == [layers : Layers, tagged : BOOLEAN]

VARIABLES
    session,    \* number of the run() call
    chunk,      \* the chunk of each thread
    pc, hook,   \* where each thread is; the hooks it has passed
    calls,      \* the calls a finished thread still has to make
    raised,     \* threads whose function raised in this session
    \* HookCoordinator
    enabled, departed,
    barrier,    \* [state, inside]: the threading.Barrier
    slot,       \* _comm_dispatched, an event
    mine,       \* _my_event, per thread
    isSet,      \* the events that are set
    pending,    \* _pending_comm
    hadComm,    \* _round_had_comm
    seen        \* the event a COMPUTE side is about to wait for

progress == << pc, hook, calls >>
sync == << enabled, departed, barrier, slot, mine, isSet, pending, hadComm, seen >>
vars == << session, chunk, progress, raised, sync >>

Event(s, t, k) == << s, t, k >>
NoEvent == Event(0, "none", 0)
FreshBarrier == [state |-> "filling", inside |-> {}]

Init ==
    /\ session = 0
    /\ chunk \in [Threads -> Chunks]
    /\ pc = [fwd |-> "idle", bwd |-> "done"]
    /\ hook = [t \in Threads |-> 0]
    /\ calls = [t \in Threads |-> <<>>]
    /\ raised = {}
    /\ enabled = FALSE
    /\ departed = FALSE
    /\ barrier = FreshBarrier
    /\ slot = NoEvent
    /\ mine = [t \in Threads |-> NoEvent]
    /\ isSet = {}
    /\ pending = 0
    /\ hadComm = FALSE
    /\ seen = [t \in Threads |-> NoEvent]

-----------------------------------------------------------------------------
(***************************************************************************)
(* The hooks of a chunk, in the order they fire, and their roles.          *)
(***************************************************************************)
HookCount(t) == 4 * chunk[t].layers
UntaggedName(t, k) ==  \* mutant: the tag of the last layer is lost in the backward
    LET name == IF t = "fwd" THEN << "A", "B", "C", "D" >>[(k % 4) + 1]
                ELSE << "D", "C", "B", "A" >>[(k % 4) + 1]
        ofLastLayer == t = "fwd" /\ k = HookCount(t) - 1
    IN  IF name = "D" /\ ofLastLayer /\ chunk[t].tagged THEN "D_LAST" ELSE name
HookName(t, k) ==
    LET name == IF t = "fwd" THEN << "A", "B", "C", "D" >>[(k % 4) + 1]
                ELSE << "D", "C", "B", "A" >>[(k % 4) + 1]
        ofLastLayer == IF t = "fwd" THEN k = HookCount(t) - 1 ELSE k = 0
    IN  IF name = "D" /\ ofLastLayer /\ chunk[t].tagged THEN "D_LAST" ELSE name

Opposite(role) == IF role = "COMM" THEN "COMPUTE" ELSE "COMM"
PrevRole(t, name) ==
    IF name \in (IF t = "fwd" THEN {"A", "C"} ELSE {"D", "B"}) THEN "COMPUTE"
    ELSE "COMM"
NextRole(t, k) == Opposite(PrevRole(t, HookName(t, k)))

Pass(t) == /\ hook' = [hook EXCEPT ![t] = @ + 1]
           /\ pc' = [pc EXCEPT ![t] = "op"]
           /\ UNCHANGED calls
Go(t, where) == pc' = [pc EXCEPT ![t] = where] /\ UNCHANGED << hook, calls >>

Active == enabled /\ ~departed

-----------------------------------------------------------------------------
(***************************************************************************)
(* The run of one session.                                                 *)
(***************************************************************************)
Enable ==
    /\ pc["fwd"] = "idle"
    /\ session < Sessions
    /\ session' = session + 1
    /\ chunk' \in [Threads -> Chunks]
    /\ pc' = [pc EXCEPT !["fwd"] = "start"]
    /\ hook' = [t \in Threads |-> 0]
    /\ raised' = {}
    /\ enabled' = TRUE
    /\ departed' = FALSE
    /\ barrier' = FreshBarrier
    /\ slot' = Event(session', "enable", 0)
    /\ mine' = [t \in Threads |-> NoEvent]
    /\ isSet' = {}
    /\ pending' = 0
    /\ hadComm' = FALSE
    /\ UNCHANGED << calls, seen >>

StartBackward ==
    /\ pc["fwd"] = "start"
    /\ pc' = [t \in Threads |-> "op"]
    /\ UNCHANGED << session, chunk, hook, calls, raised, sync >>

StartFails ==
    /\ pc["fwd"] = "start"
    /\ pc' = [pc EXCEPT !["fwd"] = "calls"]
    /\ calls' = [calls EXCEPT !["fwd"] = << "disable" >>]
    /\ UNCHANGED << session, chunk, hook, raised, sync >>

\* The operation in front of the next hook is dispatched.
Dispatch(t) ==
    /\ pc[t] = "op"
    /\ hook[t] < HookCount(t)
    /\ Go(t, "hook")
    /\ UNCHANGED << session, chunk, raised, sync >>

ClosingUnjoined(t) ==  \* mutant: run() does not wait for the backward thread
    IF t = "fwd" THEN << "depart", "disable" >> ELSE << "depart" >>
\* What follows the function: in the backward task and in run()'s finally.
Closing(t) == IF t = "fwd" THEN << "depart", "join", "disable" >> ELSE << "depart" >>
Failing(t) == IF t = "fwd" THEN << "disable", "depart", "join", "disable" >>
              ELSE << "disable", "depart" >>

\* fwd_fn or bwd_fn returns after its last operation.
Finish(t) ==
    /\ pc[t] = "op"
    /\ hook[t] = HookCount(t)
    /\ pc' = [pc EXCEPT ![t] = "calls"]
    /\ calls' = [calls EXCEPT ![t] = Closing(t)]
    /\ UNCHANGED << session, chunk, hook, raised, sync >>

\* fwd_fn or bwd_fn raises.
Raise(t) ==
    /\ pc[t] = "op"
    /\ pc' = [pc EXCEPT ![t] = "calls"]
    /\ calls' = [calls EXCEPT ![t] = Failing(t)]
    /\ raised' = raised \cup {t}
    /\ UNCHANGED << session, chunk, hook, sync >>

-----------------------------------------------------------------------------
(***************************************************************************)
(* A hook: is_enabled, notify_dispatched, rendezvous.                      *)
(***************************************************************************)
HookFires(t) ==
    /\ pc[t] = "hook"
    /\ IF ~enabled \/ (t = "bwd" /\ HookName(t, hook[t]) = "D_LAST")
       THEN Pass(t) ELSE Go(t, "notify")
    /\ UNCHANGED << session, chunk, raised, sync >>

NotifyDispatched(t) ==
    LET name == HookName(t, hook[t]) IN
    /\ pc[t] = "notify"
    /\ IF Active /\ PrevRole(t, name) = "COMM" /\ mine[t] # NoEvent
       THEN /\ isSet' = isSet \cup {mine[t]}
            /\ mine' = [mine EXCEPT ![t] = NoEvent]
       ELSE UNCHANGED << isSet, mine >>
    /\ IF name = "D_LAST" THEN Pass(t) ELSE Go(t, "meet")
    /\ UNCHANGED << session, chunk, raised, enabled, departed, barrier, slot,
                    pending, hadComm, seen >>

Rendezvous(t) ==
    /\ pc[t] = "meet"
    /\ IF ~Active THEN Pass(t)
       ELSE Go(t, IF NextRole(t, hook[t]) = "COMM" THEN "create" ELSE "arrive")
    /\ UNCHANGED << session, chunk, raised, sync >>

SharedEvent(t) ==  \* mutant: one long-lived event for all rendezvous
    /\ pc[t] = "create"
    /\ mine' = [mine EXCEPT ![t] = slot]
    /\ pending' = pending + 1
    /\ Go(t, "arrive")
    /\ UNCHANGED << session, chunk, raised, enabled, departed, barrier, slot, isSet,
                    hadComm, seen >>
CreateEvent(t) ==
    LET evt == Event(session, t, hook[t]) IN
    /\ pc[t] = "create"
    /\ slot' = evt
    /\ mine' = [mine EXCEPT ![t] = evt]
    /\ pending' = pending + 1
    /\ Go(t, "arrive")
    /\ UNCHANGED << session, chunk, raised, enabled, departed, barrier, isSet,
                    hadComm, seen >>

\* Barrier.wait: the first thread in blocks, ...
Arrive(t) ==
    /\ pc[t] = "arrive"
    /\ barrier = FreshBarrier
    /\ barrier' = [barrier EXCEPT !.inside = {t}]
    /\ Go(t, "blocked")
    /\ UNCHANGED << session, chunk, raised, enabled, departed, slot, mine, isSet,
                    pending, hadComm, seen >>

\* ... the second runs _on_barrier_trip and lets both out.
TripUncounted(t) ==  \* mutant: the COMM arrivals are not reset
    /\ pc[t] = "arrive"
    /\ barrier = [state |-> "filling", inside |-> {Other(t)}]
    /\ barrier' = [barrier EXCEPT !.state = "draining"]
    /\ hadComm' = (pending > 0)
    /\ Go(t, "through")
    /\ UNCHANGED << session, chunk, raised, enabled, departed, slot, mine, isSet,
                    pending, seen >>
Trip(t) ==
    /\ pc[t] = "arrive"
    /\ barrier = [state |-> "filling", inside |-> {Other(t)}]
    /\ barrier' = [barrier EXCEPT !.state = "draining"]
    /\ hadComm' = (pending > 0)
    /\ pending' = 0
    /\ Go(t, "through")
    /\ UNCHANGED << session, chunk, raised, enabled, departed, slot, mine, isSet, seen >>

Wake(t) ==
    /\ pc[t] = "blocked"
    /\ barrier.state = "draining"
    /\ barrier' = FreshBarrier
    /\ Go(t, "through")
    /\ UNCHANGED << session, chunk, raised, enabled, departed, slot, mine, isSet,
                    pending, hadComm, seen >>

\* BrokenBarrierError: the rendezvous is given up, also by a thread that the
\* barrier had already let go but that had not run since.
Broken(t) ==
    /\ pc[t] \in {"arrive", "blocked"}
    /\ barrier.state = "broken"
    /\ barrier' = [barrier EXCEPT !.inside = @ \ {t}]
    /\ Pass(t)
    /\ UNCHANGED << session, chunk, raised, enabled, departed, slot, mine, isSet,
                    pending, hadComm, seen >>

Through(t) ==
    /\ pc[t] = "through"
    /\ IF NextRole(t, hook[t]) = "COMPUTE" /\ hadComm
       THEN Go(t, "wait") /\ seen' = [seen EXCEPT ![t] = slot]
       ELSE Pass(t) /\ UNCHANGED seen
    /\ UNCHANGED << session, chunk, raised, enabled, departed, barrier, slot, mine,
                    isSet, pending, hadComm >>

EventWait(t) ==
    /\ pc[t] = "wait"
    /\ seen[t] \in isSet
    /\ Pass(t)
    /\ UNCHANGED << session, chunk, raised, sync >>

-----------------------------------------------------------------------------
(***************************************************************************)
(* disable and depart: a flag, then barrier.abort(), then the event of the *)
(* slot; and the main thread's wait for the backward thread.               *)
(***************************************************************************)
Calling(t, call) == pc[t] = "calls" /\ calls[t] # <<>> /\ Head(calls[t]) = call

Disable(t) ==
    /\ Calling(t, "disable")
    /\ enabled' = FALSE
    /\ Go(t, "abort")
    /\ UNCHANGED << session, chunk, raised, departed, barrier, slot, mine, isSet,
                    pending, hadComm, seen >>
DepartQuietly(t) ==  \* mutant: depart sets its flag and wakes nobody
    /\ Calling(t, "depart")
    /\ departed' = TRUE
    /\ calls' = [calls EXCEPT ![t] = Tail(@)]
    /\ UNCHANGED << session, chunk, pc, hook, raised, enabled, barrier, slot, mine,
                    isSet, pending, hadComm, seen >>
Depart(t) ==
    /\ Calling(t, "depart")
    /\ departed' = TRUE
    /\ Go(t, "abort")
    /\ UNCHANGED << session, chunk, raised, enabled, barrier, slot, mine, isSet,
                    pending, hadComm, seen >>
Abort(t) ==
    /\ pc[t] = "abort"
    /\ barrier' = [barrier EXCEPT !.state = "broken"]
    /\ Go(t, "release")
    /\ UNCHANGED << session, chunk, raised, enabled, departed, slot, mine, isSet,
                    pending, hadComm, seen >>
Release(t) ==
    /\ pc[t] = "release"
    /\ isSet' = isSet \cup {slot}
    /\ pc' = [pc EXCEPT ![t] = "calls"]
    /\ calls' = [calls EXCEPT ![t] = Tail(@)]
    /\ UNCHANGED << session, chunk, hook, raised, enabled, departed, barrier, slot,
                    mine, pending, hadComm, seen >>
Join(t) ==
    /\ Calling(t, "join")
    /\ pc["bwd"] = "done"
    /\ calls' = [calls EXCEPT ![t] = Tail(@)]
    /\ UNCHANGED << session, chunk, pc, hook, raised, sync >>
Return(t) ==
    /\ pc[t] = "calls" /\ calls[t] = <<>>
    /\ Go(t, IF t = "fwd" THEN "idle" ELSE "done")
    /\ UNCHANGED << session, chunk, raised, sync >>

ThreadStep(t) ==
    \/ Dispatch(t) \/ Finish(t) \/ Raise(t) \/ HookFires(t) \/ NotifyDispatched(t)
    \/ Rendezvous(t) \/ CreateEvent(t) \/ Arrive(t) \/ Trip(t) \/ Wake(t)
    \/ Broken(t) \/ Through(t) \/ EventWait(t)
    \/ Disable(t) \/ Depart(t) \/ Abort(t) \/ Release(t) \/ Join(t) \/ Return(t)

AllRun == pc["fwd"] = "idle" /\ session = Sessions
Stop == AllRun /\ UNCHANGED vars

Next ==
    \/ Enable \/ StartBackward \/ StartFails
    \/ \E t \in Threads : ThreadStep(t)
    \/ Stop

Spec == Init /\ [][Next]_vars

\* Both threads are scheduled; whether run() is called again is the caller's.
Fairness == /\ WF_vars(StartBackward \/ StartFails)
            /\ \A t \in Threads : WF_vars(ThreadStep(t))
FairSpec == Spec /\ Fairness

-----------------------------------------------------------------------------
(***************************************************************************)
(* Type correctness of threads and coordinator.  _pending_comm counts the  *)
(* COMM sides of the rendezvous being formed, until the barrier is broken. *)
(***************************************************************************)
Awaited(t) ==
    /\ pc[t] = "arrive" \/ (pc[t] = "blocked" /\ barrier.state = "filling")
    /\ NextRole(t, hook[t]) = "COMM"
Places == {"idle", "start", "op", "hook", "notify", "meet", "create", "arrive",
           "blocked", "through", "wait", "calls", "abort", "release", "done"}
TypeOK ==
    /\ session \in 0 .. Sessions
    /\ chunk \in [Threads -> Chunks]
    /\ pc \in [Threads -> Places]
    /\ hook \in [Threads -> Nat]
    /\ \A t \in Threads : hook[t] <= HookCount(t)
    /\ raised \subseteq Threads
    /\ enabled \in BOOLEAN /\ departed \in BOOLEAN /\ hadComm \in BOOLEAN
    /\ barrier.state \in {"filling", "draining", "broken"}
    /\ barrier.inside \subseteq Threads
    /\ pending \in 0 .. 2
    /\ barrier.state # "broken" => pending = Cardinality({t \in Threads : Awaited(t)})

(***************************************************************************)
(* Comm first: the n-th rendezvous of one thread pairs with the n-th of    *)
(* the other.  Where the pair is a COMM and a COMPUTE, the COMPUTE side    *)
(* only comes back to its caller once the COMM side has dispatched its     *)
(* operation -- also when the COMM side has finished and departed before   *)
(* the COMPUTE side ran again, unless its function raised.                 *)
(***************************************************************************)
FirstMeeting(t) == IF t = "bwd" /\ chunk[t].tagged THEN 1 ELSE 0
LastMeeting(t) ==
    IF t = "fwd" /\ chunk[t].tagged THEN HookCount(t) - 2 ELSE HookCount(t) - 1
\* The hook at which the partner of t meets hook k of t.
Partner(t, k) == k + FirstMeeting(Other(t)) - FirstMeeting(t)
Meets(t, k) == /\ k >= FirstMeeting(t) /\ k <= LastMeeting(t)
               /\ Partner(t, k) <= LastMeeting(Other(t))
\* The operation behind hook k is dispatched.
Dispatched(t, k) == hook[t] > k + 1 \/ (hook[t] = k + 1 /\ pc[t] # "op")

CommFirst ==
    \A t \in Threads :
        LET k == hook[t] - 1
            p == Other(t)
        IN  /\ pc[t] = "op" /\ hook[t] > 0 /\ Meets(t, k)
            /\ NextRole(t, k) = "COMPUTE" /\ NextRole(p, Partner(t, k)) = "COMM"
            /\ raised = {}
            => Dispatched(p, Partner(t, k))

(***************************************************************************)
(* The two threads never drift apart: a thread that finds the other in the *)
(* barrier is at the hook that belongs to the other's, and where both last *)
(* layers are tagged the pair is a COMM and a COMPUTE, at layer boundaries *)
(* too (the 4-hook design of _SyncHookFunction).                           *)
(***************************************************************************)
WellPaired ==
    \A t \in Threads :
        LET o == Other(t) IN
        pc[t] = "arrive" /\ barrier = [state |-> "filling", inside |-> {o}] =>
            /\ hook[o] = Partner(t, hook[t])
            /\ chunk[t].tagged /\ chunk[o].tagged
               => NextRole(t, hook[t]) # NextRole(o, hook[o])

(***************************************************************************)
(* run() leaves nothing running: the backward thread is gone, nobody is in *)
(* the barrier, and a hook that fires outside of run() does nothing.       *)
(***************************************************************************)
QuietBetweenRuns ==
    pc["fwd"] = "idle" =>
        pc["bwd"] = "done" /\ ~enabled /\ barrier.inside = {}

(***************************************************************************)
(* run() returns: no thread is left waiting at a barrier or an event,      *)
(* whatever the layer counts and whichever function raises, and when.      *)
(***************************************************************************)
RunReturns == pc["fwd"] # "idle" ~> pc["fwd"] = "idle"
=============================================================================
