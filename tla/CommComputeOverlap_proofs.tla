---------------------- MODULE CommComputeOverlap_proofs ----------------------
(***************************************************************************)
(* What run() leaves behind, and what the coordinator's counter counts,    *)
(* for every number of layers and of sessions.                             *)
(*                                                                         *)
(* QuietBetweenRuns only speaks of the moment run() returns; the inductive *)
(* invariant follows the calls a finished thread still has to make: once   *)
(* the main thread is past its join the backward thread is done, and once  *)
(* it is past its last disable the coordinator is disabled.  A thread is   *)
(* inside the barrier exactly while it is blocked there.                   *)
(***************************************************************************)
EXTENDS CommComputeOverlap, FiniteSetTheorems, TLAPS

CallLists(t) ==
    IF t = "fwd"
    THEN {<< "disable", "depart", "join", "disable" >>, << "depart", "join", "disable" >>,
          << "join", "disable" >>, << "disable" >>, <<>>}
    ELSE {<< "disable", "depart" >>, << "depart" >>, <<>>}

ClosingPlaces == {"calls", "abort", "release"}
Types == /\ pc \in [Threads -> Places]
         /\ calls \in [Threads -> CallLists("fwd") \cup CallLists("bwd")]
         /\ \A t \in Threads : calls[t] \in CallLists(t)

\* The backward thread is known to be gone.
Joined ==
    \/ pc["fwd"] \in {"idle", "start"}
    \/ pc["fwd"] \in ClosingPlaces /\ calls["fwd"] \in {<< "disable" >>, <<>>}
\* The last disable of run() has been called.
Disabled ==
    \/ pc["fwd"] = "idle"
    \/ pc["fwd"] = "calls" /\ calls["fwd"] = <<>>
    \/ pc["fwd"] \in {"abort", "release"} /\ calls["fwd"] = << "disable" >>

Phases == /\ Joined => pc["bwd"] = "done"
          /\ Disabled => ~enabled
          /\ pc["fwd"] # "done"
          /\ pc["bwd"] \notin {"idle", "start"}
          /\ \A t \in Threads : pc[t] \in {"abort", "release"} =>
                calls[t] # <<>> /\ Head(calls[t]) # "join"

InBarrier == /\ barrier \in [state : {"filling", "draining", "broken"},
                             inside : SUBSET Threads]
             /\ \A t \in Threads : t \in barrier.inside <=> pc[t] = "blocked"
             /\ ~(pc["fwd"] = "blocked" /\ pc["bwd"] = "blocked")

Inv == Types /\ Phases /\ InBarrier

\* Sequences of calls, one step at a time.
LEMMA NextCall ==
    ASSUME NEW t \in Threads, NEW c \in CallLists(t), c # <<>>
    PROVE  /\ Tail(c) \in CallLists(t)
           /\ t = "fwd" /\ Tail(c) = <<>> => c = << "disable" >>
           /\ t = "fwd" /\ Tail(c) = << "disable" >> => Head(c) = "join"
           /\ Head(c) = "join" => Tail(c) = << "disable" >>
<1>1. CASE c = << "disable", "depart", "join", "disable" >>
  BY <1>1 DEF CallLists, Threads
<1>2. CASE c = << "depart", "join", "disable" >>
  BY <1>2 DEF CallLists, Threads
<1>3. CASE c = << "join", "disable" >>
  BY <1>3 DEF CallLists, Threads
<1>4. CASE c = << "disable" >>
  BY <1>4 DEF CallLists, Threads
<1>5. CASE c = << "disable", "depart" >>
  <2>1. Tail(c) = << "depart" >> /\ Head(c) = "disable"
    BY <1>5
  <2>2. t # "fwd"
    <3>1. /\ c # << "disable", "depart", "join", "disable" >>
          /\ c # << "depart", "join", "disable" >>
          /\ c # << "join", "disable" >>
          /\ c # << "disable" >>
      BY <1>5
    <3>. QED BY <3>1, Zenon DEF CallLists
  <2>. QED
    BY <2>1, <2>2 DEF CallLists
<1>6. CASE c = << "depart" >>
  BY <1>6 DEF CallLists, Threads
<1>7. \/ c = << "disable", "depart", "join", "disable" >>
      \/ c = << "depart", "join", "disable" >>
      \/ c = << "join", "disable" >>
      \/ c = << "disable" >>
      \/ c = << "disable", "depart" >>
      \/ c = << "depart" >>
  BY Zenon DEF CallLists
<1>. QED
  BY <1>1, <1>2, <1>3, <1>4, <1>5, <1>6, <1>7, Zenon

\* The places of a thread whose function is running.
Running == {"op", "hook", "notify", "meet", "create", "arrive", "blocked", "through",
            "wait"}

\* A step inside fwd_fn or bwd_fn that leaves the coordinator's flags alone.
LEMMA RunningStep ==
    ASSUME Types, Phases, NEW t \in Threads, pc[t] \in Running, NEW x \in Running,
           pc' = [pc EXCEPT ![t] = x], calls' = calls, enabled' = enabled
    PROVE  Types' /\ Phases'
<1>1. Types'
  BY DEF Types, Running, Places
<1>2. CASE t = "fwd"
  BY <1>1, <1>2 DEF Types, Phases, Joined, Disabled, Threads, Running, ClosingPlaces
<1>3. CASE t = "bwd"
  <2>1. ~Joined
    BY <1>3 DEF Phases, Running
  <2>2. pc'["fwd"] = pc["fwd"] /\ pc'["bwd"] = x
    BY <1>3 DEF Types, Threads
  <2>. QED
    BY <1>1, <1>3, <2>1, <2>2
    DEF Types, Phases, Joined, Disabled, Threads, Running, ClosingPlaces
<1>. QED BY <1>2, <1>3 DEF Threads

\* A step that neither enters nor leaves the barrier.
LEMMA OutsideBarrier ==
    ASSUME Types, InBarrier, NEW t \in Threads, pc[t] # "blocked",
           NEW x \in Places \ {"blocked"}, pc' = [pc EXCEPT ![t] = x],
           barrier' = barrier
    PROVE  InBarrier'
  BY DEF Types, InBarrier, Threads

\* The hooks of a thread, up to the barrier and behind it.
LEMMA HookInv ==
    ASSUME Inv, NEW t \in Threads,
           \/ Dispatch(t) \/ HookFires(t) \/ NotifyDispatched(t)
           \/ Rendezvous(t) \/ CreateEvent(t) \/ Through(t) \/ EventWait(t)
    PROVE  Inv'
<1>1. PICK x \in Running \ {"blocked"} : pc' = [pc EXCEPT ![t] = x]
  BY DEF Dispatch, HookFires, NotifyDispatched, Rendezvous, CreateEvent, Through,
         EventWait, Pass, Go, Running
<1>2. /\ pc[t] \in Running \ {"blocked"}
      /\ calls' = calls /\ enabled' = enabled /\ barrier' = barrier
  BY DEF Dispatch, HookFires, NotifyDispatched, Rendezvous, CreateEvent, Through,
         EventWait, Pass, Go, Running, sync
<1>3. Types' /\ Phases'
  BY <1>1, <1>2, RunningStep DEF Inv
<1>4. InBarrier'
  BY <1>1, <1>2, OutsideBarrier DEF Inv, Running, Places
<1>. QED BY <1>3, <1>4 DEF Inv

\* The barrier takes a thread in exactly when it blocks it.
LEMMA BarrierInv ==
    ASSUME Inv, NEW t \in Threads, Arrive(t) \/ Trip(t) \/ Wake(t) \/ Broken(t)
    PROVE  Inv'
<1>1. PICK x \in Running : pc' = [pc EXCEPT ![t] = x]
  BY DEF Arrive, Trip, Wake, Broken, Pass, Go, Running
<1>2. pc[t] \in Running /\ calls' = calls /\ enabled' = enabled
  BY DEF Arrive, Trip, Wake, Broken, Pass, Go, Running
<1>3. Types' /\ Phases'
  BY <1>1, <1>2, RunningStep DEF Inv
<1>4. InBarrier'
  <2>1. CASE Arrive(t)
    BY <2>1 DEF Inv, Types, InBarrier, Arrive, Go, FreshBarrier, Threads
  <2>2. CASE Trip(t)
    BY <2>2 DEF Inv, Types, InBarrier, Trip, Go, Threads
  <2>3. CASE Wake(t)
    BY <2>3 DEF Inv, Types, InBarrier, Wake, Go, FreshBarrier, Threads
  <2>4. CASE Broken(t)
    BY <2>4 DEF Inv, Types, InBarrier, Broken, Pass, Threads
  <2>. QED BY <2>1, <2>2, <2>3, <2>4
<1>. QED BY <1>3, <1>4 DEF Inv

\* A function that ends has all its calls ahead of it.
LEMMA EndInv ==
    ASSUME Inv, NEW t \in Threads, Finish(t) \/ Raise(t)
    PROVE  Inv'
<1>1. /\ pc[t] = "op" /\ pc' = [pc EXCEPT ![t] = "calls"]
      /\ enabled' = enabled /\ barrier' = barrier
  BY DEF Finish, Raise, sync
<1>2. PICK c : /\ c \in CallLists(t) /\ c \notin {<< "disable" >>, <<>>}
                /\ calls' = [calls EXCEPT ![t] = c]
  <2>1. /\ Closing(t) \in CallLists(t) /\ Failing(t) \in CallLists(t)
        /\ Closing(t) \notin {<< "disable" >>, <<>>}
        /\ Failing(t) \notin {<< "disable" >>, <<>>}
    <3>1. CASE t = "fwd"
      BY <3>1 DEF Closing, Failing, CallLists
    <3>2. CASE t = "bwd"
      BY <3>2 DEF Closing, Failing, CallLists
    <3>. QED BY <3>1, <3>2 DEF Threads
  <2>. QED BY <2>1, Zenon DEF Finish, Raise
<1>3. Types'
  BY <1>1, <1>2 DEF Inv, Types, Places, Threads
<1>4. Phases'
  BY <1>1, <1>2
  DEF Inv, Types, Phases, Joined, Disabled, Threads, ClosingPlaces
<1>5. InBarrier'
  BY <1>1, OutsideBarrier DEF Inv, Places
<1>. QED BY <1>3, <1>4, <1>5 DEF Inv

LEMMA FlagInv ==
    ASSUME Inv, NEW t \in Threads, Disable(t) \/ Depart(t)
    PROVE  Inv'
<1>1. /\ pc[t] = "calls" /\ pc' = [pc EXCEPT ![t] = "abort"]
      /\ calls[t] # <<>> /\ Head(calls[t]) # "join"
      /\ calls' = calls /\ barrier' = barrier
  BY DEF Disable, Depart, Calling, Go
<1>2. enabled' = enabled \/ enabled' = FALSE
  BY DEF Disable, Depart
<1>3. calls[t] = << "disable" >> => enabled' = FALSE
  BY DEF Disable, Depart, Calling
<1>4. Types'
  BY <1>1 DEF Inv, Types, Places
<1>5. Phases'
  BY <1>1, <1>2, <1>3
  DEF Inv, Types, Phases, Joined, Disabled, Threads, ClosingPlaces
<1>6. InBarrier'
  BY <1>1, OutsideBarrier DEF Inv, Places
<1>. QED BY <1>4, <1>5, <1>6 DEF Inv

LEMMA AbortInv ==
    ASSUME Inv, NEW t \in Threads, Abort(t)
    PROVE  Inv'
<1>1. /\ pc[t] = "abort" /\ pc' = [pc EXCEPT ![t] = "release"]
      /\ calls' = calls /\ enabled' = enabled
      /\ barrier' = [barrier EXCEPT !.state = "broken"]
  BY DEF Abort, Go
<1>2. Types'
  BY <1>1 DEF Inv, Types, Places
<1>3. Phases'
  BY <1>1 DEF Inv, Types, Phases, Joined, Disabled, Threads, ClosingPlaces
<1>4. InBarrier'
  BY <1>1 DEF Inv, Types, InBarrier, Threads
<1>. QED BY <1>2, <1>3, <1>4 DEF Inv

\* The next call of the list: behind the join only the last disable is left.
LEMMA TailInv ==
    ASSUME Inv, NEW t \in Threads, Release(t) \/ Join(t)
    PROVE  Inv'
<1>1. /\ calls[t] # <<>> /\ calls' = [calls EXCEPT ![t] = Tail(@)]
      /\ pc[t] \in ClosingPlaces /\ pc' = [pc EXCEPT ![t] = "calls"]
      /\ enabled' = enabled /\ barrier' = barrier
  BY DEF Release, Join, Calling, ClosingPlaces, Inv, Types, Phases, sync
<1>2. calls[t] \in CallLists(t)
  BY DEF Inv, Types
<1>3. /\ Tail(calls[t]) \in CallLists(t)
      /\ t = "fwd" /\ Tail(calls[t]) = <<>> => calls[t] = << "disable" >>
      /\ t = "fwd" /\ Tail(calls[t]) = << "disable" >> => Head(calls[t]) = "join"
      /\ Head(calls[t]) = "join" => Tail(calls[t]) = << "disable" >>
  BY <1>1, <1>2, NextCall
<1>4. Types'
  BY <1>1, <1>3 DEF Inv, Types, Places, Threads
<1>5. Phases'
  <2>1. CASE Release(t)
    <3>1. pc[t] = "release" /\ Head(calls[t]) # "join"
      BY <2>1 DEF Release, Inv, Phases
    <3>2. CASE t = "bwd"
      BY <1>1, <3>1, <3>2
      DEF Inv, Types, Phases, Joined, Disabled, Threads, ClosingPlaces
    <3>3. CASE t = "fwd" /\ Tail(calls[t]) = <<>>
      BY <1>1, <1>3, <3>1, <3>3
      DEF Inv, Types, Phases, Joined, Disabled, Threads, ClosingPlaces
    <3>4. CASE t = "fwd" /\ Tail(calls[t]) # <<>>
      <4>1. Tail(calls[t]) # << "disable" >>
        BY <1>3, <3>1, <3>4
      <4>2. ~Joined' /\ ~Disabled'
        BY <1>1, <3>4, <4>1 DEF Inv, Types, Joined, Disabled, Threads, ClosingPlaces
      <4>. QED
        BY <1>1, <3>4, <4>2 DEF Inv, Types, Phases, Threads
    <3>. QED BY <3>2, <3>3, <3>4 DEF Threads
  <2>2. CASE Join(t)
    BY <1>1, <1>3, <2>2
    DEF Inv, Types, Phases, Joined, Disabled, Threads, ClosingPlaces, Join, Calling
  <2>. QED BY <2>1, <2>2
<1>6. InBarrier'
  BY <1>1, OutsideBarrier DEF Inv, Places, ClosingPlaces
<1>. QED BY <1>4, <1>5, <1>6 DEF Inv

LEMMA ReturnInv ==
    ASSUME Inv, NEW t \in Threads, Return(t)
    PROVE  Inv'
<1>1. /\ pc[t] = "calls" /\ calls[t] = <<>>
      /\ pc' = [pc EXCEPT ![t] = IF t = "fwd" THEN "idle" ELSE "done"]
      /\ calls' = calls /\ enabled' = enabled /\ barrier' = barrier
  BY DEF Return, Go, sync
<1>2. Types'
  BY <1>1 DEF Inv, Types, Places
<1>3. Phases'
  BY <1>1 DEF Inv, Types, Phases, Joined, Disabled, Threads, ClosingPlaces
<1>4. InBarrier'
  BY <1>1, OutsideBarrier DEF Inv, Places
<1>. QED BY <1>2, <1>3, <1>4 DEF Inv

\* A session starts with the backward thread of the last one gone.
LEMMA SessionInv ==
    ASSUME Inv, Enable \/ StartBackward \/ StartFails
    PROVE  Inv'
<1>1. CASE Enable
  <2>1. pc["bwd"] = "done" /\ pc["fwd"] = "idle"
    BY <1>1 DEF Inv, Phases, Joined, Enable
  <2>2. Types'
    BY <1>1 DEF Inv, Types, Enable, Places
  <2>3. Phases'
    BY <1>1, <2>1 DEF Inv, Types, Phases, Joined, Disabled, Enable, Threads, ClosingPlaces
  <2>4. InBarrier'
    BY <1>1, <2>1 DEF Inv, Types, InBarrier, Enable, FreshBarrier, Threads
  <2>. QED BY <2>2, <2>3, <2>4 DEF Inv
<1>2. CASE StartBackward
  BY <1>2 DEF Inv, Types, Phases, InBarrier, Joined, Disabled, StartBackward, sync,
              Threads, ClosingPlaces, Places
<1>3. CASE StartFails
  <2>1. pc["fwd"] = "start" /\ pc["bwd"] = "done"
    BY <1>3 DEF Inv, Phases, Joined, StartFails
  <2>2. Types'
    BY <1>3 DEF Inv, Types, StartFails, CallLists, Places, Threads
  <2>3. Phases' /\ InBarrier'
    BY <1>3, <2>1
    DEF Inv, Types, Phases, InBarrier, Joined, Disabled, StartFails, sync, Threads,
        ClosingPlaces
  <2>. QED BY <2>2, <2>3 DEF Inv
<1>. QED BY <1>1, <1>2, <1>3

LEMMA InitInv == Init => Inv
<1> SUFFICES ASSUME Init PROVE Inv
  OBVIOUS
<1>1. Types
  BY DEF Init, Types, CallLists, Places, Threads
<1>2. Phases /\ InBarrier
  BY DEF Init, Phases, InBarrier, Joined, Disabled, FreshBarrier, Threads, ClosingPlaces
<1>. QED BY <1>1, <1>2 DEF Inv

LEMMA NextInv == Inv /\ [Next]_vars => Inv'
<1> SUFFICES ASSUME Inv, [Next]_vars PROVE Inv'
  OBVIOUS
<1>1. CASE Enable \/ StartBackward \/ StartFails
  BY <1>1, SessionInv
<1>2. ASSUME NEW t \in Threads, ThreadStep(t) PROVE Inv'
  BY <1>2, HookInv, BarrierInv, EndInv, FlagInv, AbortInv, TailInv, ReturnInv
  DEF ThreadStep
<1>3. CASE Stop \/ UNCHANGED vars
  BY <1>3 DEF Stop, vars, progress, sync, Inv, Types, Phases, InBarrier, Joined, Disabled
<1>. QED BY <1>1, <1>2, <1>3 DEF Next

\* The inductive invariant holds in every run.
THEOREM Invariance == Spec => []Inv
  BY InitInv, NextInv, PTL DEF Spec

\* run() leaves no thread behind, the coordinator disabled, the barrier empty.
THEOREM RunLeavesNothing == Spec => []QuietBetweenRuns
<1>1. Inv => QuietBetweenRuns
  BY DEF Inv, Phases, Joined, Disabled, InBarrier, QuietBetweenRuns, Threads
<1>. QED BY <1>1, Invariance, PTL

-----------------------------------------------------------------------------
(***************************************************************************)
(* The counter of COMM arrivals.  While the barrier is whole, each thread  *)
(* that entered a rendezvous as its COMM side and was not let out yet      *)
(* counts once.  Once it is broken nobody resets the counter; that it      *)
(* stays within two needs the order of disable and depart: the flag goes   *)
(* down before the abort, so no thread begins another rendezvous.          *)
(***************************************************************************)
Load(t) == IF Awaited(t) THEN 1 ELSE 0
Coming(t) == IF pc[t] = "create" THEN 1 ELSE 0

Hooks == /\ session \in 0 .. Sessions
         /\ chunk \in [Threads -> Chunks]
         /\ hook \in [Threads -> Nat]
         /\ raised \subseteq Threads
         /\ enabled \in BOOLEAN /\ departed \in BOOLEAN /\ hadComm \in BOOLEAN
         /\ \A t \in Threads :
               /\ hook[t] <= HookCount(t)
               /\ pc[t] \in Running \ {"op"} => hook[t] < HookCount(t)
               /\ pc[t] = "create" => NextRole(t, hook[t]) = "COMM"

Counts == /\ pending \in Nat
          /\ \A t \in Threads :
                /\ barrier.state # "broken" => pending = Load(t) + Load(Other(t))
                /\ pending + Coming(t) + Coming(Other(t)) <= 2
                /\ pc[t] = "abort" => ~Active
          /\ barrier.state = "broken" => ~Active

LEMMA CountIsNat ==
    ASSUME chunk \in [Threads -> Chunks], NEW t \in Threads
    PROVE  HookCount(t) \in Nat
<1>1. chunk[t] \in Chunks
  OBVIOUS
<1>2. chunk[t].layers \in Layers
  BY <1>1 DEF Chunks
<1>3. chunk[t].layers \in Nat
  BY <1>2, LayersAssumption
<1>. QED BY <1>3 DEF HookCount

\* Roles and lengths only depend on the chunk and the position.
LEMMA SameChunk ==
    ASSUME chunk' = chunk, NEW t \in Threads
    PROVE  /\ HookCount(t)' = HookCount(t)
           /\ hook'[t] = hook[t] => NextRole(t, hook[t])' = NextRole(t, hook[t])
  BY DEF HookCount, NextRole, PrevRole, HookName

\* A step that keeps the chunks moves a thread to a place where it may be.
LEMMA HookStep ==
    ASSUME Types, Hooks, NEW t \in Threads, NEW x \in Places,
           pc' = [pc EXCEPT ![t] = x], UNCHANGED << session, chunk >>,
           raised' \subseteq Threads,
           enabled' \in BOOLEAN, departed' \in BOOLEAN, hadComm' \in BOOLEAN,
           \/ /\ hook' = hook
              /\ x \in Running \ {"op"} => hook[t] < HookCount(t)
              /\ x = "create" => NextRole(t, hook[t]) = "COMM"
           \/ /\ x = "op" /\ pc[t] \in Running \ {"op"}
              /\ hook' = [hook EXCEPT ![t] = @ + 1]
    PROVE  Hooks'
<1>1. hook' \in [Threads -> Nat]
  BY DEF Hooks
<1>2. ASSUME NEW u \in Threads
      PROVE  /\ hook'[u] <= HookCount(u)'
             /\ pc'[u] \in Running \ {"op"} => hook'[u] < HookCount(u)'
             /\ pc'[u] = "create" => NextRole(u, hook[u])' = "COMM"
  <2>1. HookCount(u)' = HookCount(u) /\ HookCount(u) \in Nat
    BY SameChunk, CountIsNat DEF Hooks
  <2>2. CASE u # t
    <3>1. pc'[u] = pc[u] /\ hook'[u] = hook[u]
      BY <2>2 DEF Types, Hooks
    <3>. QED
      BY <2>1, <3>1, SameChunk DEF Hooks
  <2>3. CASE u = t /\ hook' = hook
    <3>1. /\ hook'[u] = hook[u] /\ pc'[u] = x
          /\ x \in Running \ {"op"} => hook[u] < HookCount(u)
          /\ x = "create" => NextRole(u, hook[u]) = "COMM"
      BY <2>3 DEF Types, Hooks, Running
    <3>. QED
      BY <2>1, <3>1, SameChunk DEF Hooks
  <2>4. CASE u = t /\ hook' # hook
    <3>1. /\ pc'[u] = "op" /\ hook'[u] = hook[u] + 1 /\ hook[u] < HookCount(u)
          /\ hook[u] \in Nat
      BY <2>4 DEF Types, Hooks
    <3>. QED
      BY <2>1, <3>1
  <2>. QED BY <2>2, <2>3, <2>4
<1>. QED
  BY <1>1, <1>2 DEF Hooks

\* Every step of a thread is one of HookStep.
LEMMA HooksNext ==
    ASSUME Inv, Hooks, NEW t \in Threads, ThreadStep(t)
    PROVE  Hooks'
<1>1. PICK x \in Places : pc' = [pc EXCEPT ![t] = x]
  <2>1. CASE Join(t)
    BY <2>1 DEF Join, Inv, Types, Places
  <2>. QED
    BY <2>1 DEF ThreadStep, Dispatch, Finish, Raise, HookFires, NotifyDispatched, Rendezvous,
        CreateEvent, Arrive, Trip, Wake, Broken, Through, EventWait, Disable, Depart,
        Abort, Release, Return, Pass, Go, Places
<1>2. /\ UNCHANGED << session, chunk >>
      /\ raised' \subseteq Threads
      /\ enabled' \in BOOLEAN /\ departed' \in BOOLEAN /\ hadComm' \in BOOLEAN
  <2>1. CASE \/ Dispatch(t) \/ Finish(t) \/ Raise(t) \/ HookFires(t) \/ Rendezvous(t)
             \/ EventWait(t) \/ Join(t) \/ Return(t)
    BY <2>1 DEF Dispatch, Finish, Raise, HookFires, Rendezvous, EventWait, Join, Return,
                Hooks, sync
  <2>2. CASE \/ NotifyDispatched(t) \/ CreateEvent(t) \/ Arrive(t) \/ Wake(t)
             \/ Broken(t) \/ Through(t)
    BY <2>2 DEF NotifyDispatched, CreateEvent, Arrive, Wake, Broken, Through, Hooks
  <2>4. CASE Trip(t)
    <3>1. hadComm' \in BOOLEAN
      <4>1. hadComm' = (pending > 0)
        BY <2>4, Zenon DEF Trip
      <4>2. CASE pending > 0
        <5>1. (pending > 0) = TRUE
          BY <4>2, Zenon
        <5>. QED BY <4>1, <5>1, Zenon
      <4>3. CASE ~(pending > 0)
        <5>1. (pending > 0) = FALSE
          BY <4>3
        <5>. QED BY <4>1, <5>1, Zenon
      <4>. QED BY <4>2, <4>3, Zenon
    <3>. QED BY <2>4, <3>1 DEF Trip, Hooks
  <2>3. CASE Disable(t) \/ Depart(t) \/ Abort(t) \/ Release(t)
    BY <2>3 DEF Disable, Depart, Abort, Release, Hooks
  <2>. QED BY <2>1, <2>2, <2>3, <2>4 DEF ThreadStep
<1>3. \/ /\ hook' = hook
         /\ pc'[t] \in Running \ {"op"} => hook[t] < HookCount(t)
         /\ pc'[t] = "create" => NextRole(t, hook[t]) = "COMM"
      \/ /\ pc'[t] = "op" /\ pc[t] \in Running \ {"op"}
         /\ hook' = [hook EXCEPT ![t] = @ + 1]
  <2>1. pc \in [Threads -> Places] /\ (pc[t] \in Running \ {"op"} => hook[t] < HookCount(t))
    BY DEF Inv, Types, Hooks
  <2>2. CASE Dispatch(t)
    BY <2>1, <2>2 DEF Dispatch, Go
  <2>3. CASE HookFires(t) \/ NotifyDispatched(t) \/ Through(t) \/ EventWait(t)
    BY <2>1, <2>3 DEF HookFires, NotifyDispatched, Through, EventWait, Pass, Go, Running
  <2>4. CASE Rendezvous(t)
    BY <2>1, <2>4 DEF Rendezvous, Pass, Go, Running
  <2>5. CASE CreateEvent(t) \/ Arrive(t) \/ Trip(t) \/ Wake(t) \/ Broken(t)
    BY <2>1, <2>5 DEF CreateEvent, Arrive, Trip, Wake, Broken, Pass, Go, Running
  <2>6. CASE \/ Finish(t) \/ Raise(t) \/ Disable(t) \/ Depart(t) \/ Abort(t)
             \/ Release(t) \/ Join(t) \/ Return(t)
    BY <2>1, <2>6 DEF Finish, Raise, Disable, Depart, Abort, Release, Join, Return, Calling,
                      Go, Running
  <2>. QED BY <2>2, <2>3, <2>4, <2>5, <2>6 DEF ThreadStep
<1>4. pc'[t] = x
  BY <1>1 DEF Inv, Types
<1>. QED
  BY <1>1, <1>2, <1>3, <1>4, HookStep DEF Inv

\* A step outside of the rendezvous.
Meeting == {"create", "arrive", "blocked"}
LEMMA CountStep ==
    ASSUME Types, Counts, NEW t \in Threads, NEW x \in Places \ Meeting,
           pc' = [pc EXCEPT ![t] = x], pc[t] \notin Meeting,
           chunk' = chunk, hook'[Other(t)] = hook[Other(t)],
           UNCHANGED << barrier, pending >>,
           Active' => Active, x = "abort" => ~Active'
    PROVE  Counts'
<1>1. Other(t) \in Threads /\ Other(t) # t /\ Other(Other(t)) = t
  BY DEF Other, Threads
<1>2. /\ pc'[t] = x /\ pc'[Other(t)] = pc[Other(t)]
  BY <1>1 DEF Types
<1>3. Load(Other(t))' = Load(Other(t)) /\ Coming(Other(t))' = Coming(Other(t))
  BY <1>1, <1>2, SameChunk DEF Load, Awaited, Coming
<1>4. /\ Load(t) = 0 /\ Load(t)' = 0 /\ Coming(t) = 0 /\ Coming(t)' = 0
  BY <1>2 DEF Load, Awaited, Coming, Meeting
<1>5. \A u \in Threads : u = t \/ u = Other(t)
  BY DEF Other, Threads
<1>. QED
  BY <1>1, <1>2, <1>3, <1>4, <1>5 DEF Counts

\* Active goes down for good: only enable brings it up.
LEMMA ActiveFalls ==
    ASSUME NEW t \in Threads, ThreadStep(t)
    PROVE  Active' => Active
  BY DEF ThreadStep, Dispatch, Finish, Raise, HookFires, NotifyDispatched, Rendezvous,
        CreateEvent, Arrive, Trip, Wake, Broken, Through, EventWait, Disable, Depart,
        Abort, Release, Join, Return, sync, Active

\* What a step of one thread leaves to the other.
LEMMA OtherStays ==
    ASSUME Types, NEW t \in Threads, NEW x \in Places, pc' = [pc EXCEPT ![t] = x]
    PROVE  /\ Other(t) \in Threads /\ Other(t) # t /\ Other(Other(t)) = t
           /\ pc'[t] = x /\ pc'[Other(t)] = pc[Other(t)]
           /\ \A u \in Threads : u = t \/ u = Other(t)
  BY DEF Types, Other, Threads

\* A COMM side counts itself, once, in front of the barrier.
LEMMA CountsEnter ==
    ASSUME Inv, Hooks, Counts, NEW t \in Threads, Rendezvous(t) \/ CreateEvent(t)
    PROVE  Counts'
<1> DEFINE o == Other(t)
<1>1. PICK x \in Places : pc' = [pc EXCEPT ![t] = x]
  BY DEF Rendezvous, CreateEvent, Pass, Go, Places
<1>2. /\ o \in Threads /\ o # t /\ Other(o) = t
      /\ pc'[t] = x /\ pc'[o] = pc[o]
      /\ \A u \in Threads : u = t \/ u = o
  BY <1>1, OtherStays DEF Inv
<1>3. chunk' = chunk /\ barrier' = barrier /\ hook'[o] = hook[o]
  BY <1>2 DEF Rendezvous, CreateEvent, Pass, Go, Hooks, sync
<1>4. Load(o)' = Load(o) /\ Coming(o)' = Coming(o)
  BY <1>2, <1>3, SameChunk DEF Load, Awaited, Coming
<1>5. Load(t) = 0
  BY DEF Rendezvous, CreateEvent, Load, Awaited
<1>6. Active' => Active
  BY ActiveFalls DEF ThreadStep
<1>7. Load(o) \in {0, 1} /\ Coming(o) \in {0, 1}
  BY DEF Load, Coming
<1>8. pending \in Nat /\ pending + Coming(t) + Coming(o) <= 2
  BY DEF Counts
<1>9. barrier.state # "broken" => pending = Load(t) + Load(o)
  BY DEF Counts
<1>10. CASE CreateEvent(t)
  <2>1. /\ pc[t] = "create" /\ pc'[t] = "arrive" /\ hook' = hook /\ pending' = pending + 1
    BY <1>1, <1>10 DEF CreateEvent, Go, Inv, Types
  <2>2. Load(t)' = 1 /\ Coming(t) = 1 /\ Coming(t)' = 0
    BY <2>1, <1>3, SameChunk DEF Load, Awaited, Coming, Hooks
  <2>. QED
    BY <1>2, <1>3, <1>4, <1>5, <1>6, <1>7, <1>8, <1>9, <2>1, <2>2 DEF Counts
<1>11. CASE Rendezvous(t)
  <2>1. pc[t] = "meet" /\ pending' = pending /\ Coming(t) = 0
    BY <1>11 DEF Rendezvous, sync, Coming
  <2>2. CASE ~Active
    <3>1. pc'[t] = "op"
      BY <1>1, <1>11, <2>2 DEF Rendezvous, Pass, Inv, Types
    <3>2. Load(t)' = 0 /\ Coming(t)' = 0
      BY <3>1 DEF Load, Awaited, Coming
    <3>. QED
      BY <1>2, <1>3, <1>4, <1>5, <1>6, <1>7, <1>8, <1>9, <2>1, <3>1, <3>2 DEF Counts
  <2>3. CASE Active
    <3>1. /\ hook' = hook /\ barrier.state # "broken"
          /\ pc'[t] = IF NextRole(t, hook[t]) = "COMM" THEN "create" ELSE "arrive"
      BY <1>1, <1>11, <2>3 DEF Rendezvous, Go, Inv, Types, Counts
    <3>2. Load(t)' = 0 /\ Coming(t)' \in {0, 1}
      BY <1>3, <3>1, SameChunk DEF Load, Awaited, Coming
    <3>3. Load(o) + Coming(o) <= 1
      BY DEF Load, Awaited, Coming
    <3>. QED
      BY <1>2, <1>3, <1>4, <1>5, <1>6, <1>7, <1>8, <1>9, <2>1, <3>1, <3>2, <3>3 DEF Counts
  <2>. QED BY <2>2, <2>3
<1>. QED BY <1>10, <1>11

\* The barrier keeps the count while it fills and the trip clears it.
LEMMA CountsBarrier ==
    ASSUME Inv, Hooks, Counts, NEW t \in Threads,
           Arrive(t) \/ Trip(t) \/ Wake(t) \/ Broken(t)
    PROVE  Counts'
<1> DEFINE o == Other(t)
<1>1. PICK x \in {"blocked", "through", "op"} : pc' = [pc EXCEPT ![t] = x]
  BY DEF Arrive, Trip, Wake, Broken, Pass, Go
<1>2. /\ o \in Threads /\ o # t /\ Other(o) = t
      /\ pc'[t] = x /\ pc'[o] = pc[o]
      /\ \A u \in Threads : u = t \/ u = o
  BY <1>1, OtherStays DEF Inv, Places
<1>3. chunk' = chunk /\ hook'[o] = hook[o]
  BY <1>2 DEF Arrive, Trip, Wake, Broken, Pass, Go, Hooks
<1>4. /\ Coming(o)' = Coming(o) /\ Coming(t)' = 0 /\ Coming(t) = 0
      /\ Coming(o) \in {0, 1}
  BY <1>1, <1>2 DEF Coming, Arrive, Trip, Wake, Broken
<1>5. Active' => Active
  BY ActiveFalls DEF ThreadStep
<1>6. /\ pending \in Nat /\ pending + Coming(t) + Coming(o) <= 2
      /\ barrier.state # "broken" => pending = Load(t) + Load(o)
      /\ barrier.state = "broken" => ~Active
      /\ pc[o] = "abort" => ~Active
  BY <1>2 DEF Counts
<1>7. NextRole(o, hook[o])' = NextRole(o, hook[o])
  BY <1>2, <1>3, SameChunk
<1>8. CASE Arrive(t)
  <2>1. /\ pc[t] = "arrive" /\ pc'[t] = "blocked" /\ hook' = hook /\ pending' = pending
        /\ barrier.state = "filling" /\ barrier'.state = "filling"
    BY <1>1, <1>8 DEF Arrive, Go, Inv, Types, FreshBarrier
  <2>2. Load(t)' = Load(t) /\ Load(o)' = Load(o)
    BY <1>2, <1>3, <1>7, <2>1, SameChunk DEF Load, Awaited
  <2>. QED
    BY <1>2, <1>4, <1>5, <1>6, <2>1, <2>2 DEF Counts
<1>9. CASE Trip(t)
  <2>1. /\ pc'[t] = "through" /\ pending' = 0
        /\ barrier' = [barrier EXCEPT !.state = "draining"]
        /\ barrier = [state |-> "filling", inside |-> {o}]
    BY <1>1, <1>9 DEF Trip, Go, Inv, Types
  <2>2. pc[o] = "blocked" /\ barrier'.state = "draining"
    BY <1>2, <2>1 DEF Inv, InBarrier
  <2>3. Load(t)' = 0 /\ Load(o)' = 0
    BY <1>2, <2>1, <2>2 DEF Load, Awaited
  <2>. QED
    BY <1>2, <1>4, <1>5, <1>6, <2>1, <2>2, <2>3 DEF Counts
<1>10. CASE Wake(t)
  <2>1. /\ pc[t] = "blocked" /\ pc'[t] = "through" /\ pending' = pending
        /\ barrier.state = "draining" /\ barrier'.state = "filling"
    BY <1>1, <1>10 DEF Wake, Go, Inv, Types, FreshBarrier
  <2>2. pc[o] # "blocked"
    BY <1>2, <2>1 DEF Inv, InBarrier, Threads
  <2>3. Load(t)' = 0 /\ Load(t) = 0 /\ Load(o)' = Load(o)
    BY <1>2, <1>7, <2>1, <2>2 DEF Load, Awaited
  <2>. QED
    BY <1>2, <1>4, <1>5, <1>6, <2>1, <2>3 DEF Counts
<1>11. CASE Broken(t)
  <2>1. /\ pc'[t] = "op" /\ pending' = pending
        /\ barrier.state = "broken" /\ barrier'.state = "broken"
    BY <1>1, <1>11 DEF Broken, Pass, Inv, Types, InBarrier
  <2>. QED
    BY <1>2, <1>4, <1>5, <1>6, <2>1 DEF Counts
<1>. QED BY <1>8, <1>9, <1>10, <1>11

\* disable and depart lower their flag before they break the barrier.
LEMMA CountsAbort ==
    ASSUME Inv, Hooks, Counts, NEW t \in Threads, Abort(t)
    PROVE  Counts'
<1> DEFINE o == Other(t)
<1>1. pc[t] = "abort" /\ pc' = [pc EXCEPT ![t] = "release"] /\ pending' = pending
  BY DEF Abort, Go
<1>2. /\ o \in Threads /\ o # t /\ Other(o) = t
      /\ pc'[t] = "release" /\ pc'[o] = pc[o]
      /\ \A u \in Threads : u = t \/ u = o
  BY <1>1, OtherStays DEF Inv, Places
<1>3. barrier'.state = "broken" /\ ~Active'
  BY <1>1 DEF Abort, Counts, Inv, InBarrier, Active
<1>4. /\ Coming(o)' = Coming(o) /\ Coming(t)' = 0 /\ Coming(t) = 0
      /\ pending \in Nat /\ pending + Coming(t) + Coming(o) <= 2
  BY <1>1, <1>2 DEF Coming, Counts
<1>5. Coming(o) \in {0, 1}
  BY DEF Coming
<1>. QED
  BY <1>1, <1>2, <1>3, <1>4, <1>5 DEF Counts

LEMMA CountsNext ==
    ASSUME Inv, Hooks, Counts, NEW t \in Threads, ThreadStep(t)
    PROVE  Counts'
<1>1. CASE Rendezvous(t) \/ CreateEvent(t)
  BY <1>1, CountsEnter
<1>2. CASE Arrive(t) \/ Trip(t) \/ Wake(t) \/ Broken(t)
  BY <1>2, CountsBarrier
<1>3. CASE Abort(t)
  BY <1>3, CountsAbort
<1>4. CASE \/ Dispatch(t) \/ Finish(t) \/ Raise(t) \/ HookFires(t) \/ NotifyDispatched(t)
           \/ Through(t) \/ EventWait(t) \/ Disable(t) \/ Depart(t) \/ Release(t)
           \/ Join(t) \/ Return(t)
  <2>1. PICK x \in Places \ Meeting : pc' = [pc EXCEPT ![t] = x]
    <3>1. CASE Join(t)
      BY <3>1 DEF Join, Calling, Inv, Types, Places, Meeting
    <3>2. CASE ~Join(t)
      BY <1>4, <3>2 DEF Dispatch, Finish, Raise, HookFires, NotifyDispatched, Through, EventWait,
        Disable, Depart, Release, Return, Pass, Go, Places, Meeting
    <3>. QED BY <3>1, <3>2
  <2>2. Other(t) # t /\ Other(t) \in Threads /\ pc'[t] = x
    BY <2>1, OtherStays DEF Inv, Meeting
  <2>3. pc[t] \notin Meeting /\ chunk' = chunk /\ UNCHANGED << barrier, pending >>
    BY <1>4 DEF Dispatch, Finish, Raise, HookFires, NotifyDispatched, Through, EventWait,
        Disable, Depart, Release, Join, Return, Calling, Meeting, sync
  <2>4. hook'[Other(t)] = hook[Other(t)]
    BY <1>4, <2>2 DEF Dispatch, Finish, Raise, HookFires, NotifyDispatched, Through, EventWait,
        Disable, Depart, Release, Join, Return, Pass, Go, Hooks
  <2>5. Active' => Active
    BY ActiveFalls
  <2>6. x = "abort" => ~Active'
    <3>1. CASE Disable(t) \/ Depart(t)
      BY <3>1 DEF Disable, Depart, Active
    <3>2. CASE \/ Dispatch(t) \/ Finish(t) \/ Raise(t) \/ HookFires(t) \/ NotifyDispatched(t)
               \/ Through(t) \/ EventWait(t) \/ Release(t) \/ Join(t) \/ Return(t)
      BY <2>2, <3>2 DEF Dispatch, Finish, Raise, HookFires, NotifyDispatched, Through,
        EventWait, Release, Join, Return, Calling, Pass, Go, Inv, Types
    <3>. QED BY <1>4, <3>1, <3>2
  <2>. QED
    BY <2>1, <2>2, <2>3, <2>4, <2>5, <2>6, CountStep DEF Inv
<1>. QED BY <1>1, <1>2, <1>3, <1>4 DEF ThreadStep

\* run() begins with a new chunk, a new barrier and nobody counted.
LEMMA SessionCounts ==
    ASSUME Inv, Hooks, Counts, Enable \/ StartBackward \/ StartFails
    PROVE  Hooks' /\ Counts'
<1>1. CASE Enable
  <2>1. pc' = [pc EXCEPT !["fwd"] = "start"] /\ pc["bwd"] = "done"
    BY <1>1 DEF Enable, Inv, Phases, Joined
  <2>2. pc'["fwd"] = "start" /\ pc'["bwd"] = "done"
    BY <2>1 DEF Inv, Types, Threads
  <2>3. chunk' \in [Threads -> Chunks] /\ hook' = [t \in Threads |-> 0]
    BY <1>1 DEF Enable
  <2>4. ASSUME NEW t \in Threads PROVE HookCount(t)' \in Nat
    <3>1. chunk'[t].layers \in Layers
      BY <2>3 DEF Chunks
    <3>2. chunk'[t].layers \in Nat
      BY <3>1, LayersAssumption
    <3>. QED BY <3>2 DEF HookCount
  <2>5. session' \in 0 .. Sessions
    BY <1>1, SessionsAssumption DEF Enable, Hooks
  <2>6. Hooks'
    <3>1. /\ raised' \subseteq Threads /\ hook' \in [Threads -> Nat]
          /\ enabled' \in BOOLEAN /\ departed' \in BOOLEAN /\ hadComm' \in BOOLEAN
      BY <1>1 DEF Enable
    <3>2. ASSUME NEW t \in Threads
          PROVE  /\ hook'[t] <= HookCount(t)'
                 /\ pc'[t] \notin Running \ {"op"} /\ pc'[t] # "create"
      BY <2>2, <2>3, <2>4 DEF Running, Threads
    <3>. QED BY <2>3, <2>5, <3>1, <3>2 DEF Hooks
  <2>7. /\ pending' = 0 /\ barrier'.state = "filling"
        /\ \A t \in Threads : Load(t)' = 0 /\ Coming(t)' = 0 /\ pc'[t] # "abort"
    BY <1>1, <2>2 DEF Enable, FreshBarrier, Load, Awaited, Coming, Threads
  <2>8. \A t \in Threads : Other(t) \in Threads
    BY DEF Other, Threads
  <2>9. Counts'
    BY <2>7, <2>8 DEF Counts
  <2>. QED BY <2>6, <2>9
<1>2. CASE StartBackward \/ StartFails
  <2>1. \A t \in Threads : pc'[t] \in {"op", "calls", "done"} /\ pc[t] \in {"start", "done"}
    BY <1>2 DEF StartBackward, StartFails, Inv, Types, Phases, Joined, Threads
  <2>2. UNCHANGED << session, chunk, hook, raised, enabled, departed, hadComm, barrier, pending >>
    BY <1>2 DEF StartBackward, StartFails, sync
  <2>3. \A t \in Threads : /\ Other(t) \in Threads
                           /\ Load(t) = 0 /\ Load(t)' = 0 /\ Coming(t) = 0 /\ Coming(t)' = 0
    BY <2>1 DEF Load, Awaited, Coming, Other, Threads
  <2>4. Hooks'
    BY <2>1, <2>2, SameChunk DEF Hooks, Running
  <2>5. Counts'
    BY <2>1, <2>2, <2>3 DEF Counts, Active
  <2>. QED BY <2>4, <2>5
<1>. QED BY <1>1, <1>2

LEMMA InitCounts == Init => Hooks /\ Counts
<1> SUFFICES ASSUME Init PROVE Hooks /\ Counts
  OBVIOUS
<1>1. \A t \in Threads : pc[t] \in {"idle", "done"} /\ hook[t] = 0 /\ Other(t) \in Threads
  BY DEF Init, Threads, Other
<1>2. \A t \in Threads : HookCount(t) \in Nat
  BY CountIsNat DEF Init
<1>3. Hooks
  <2>1. /\ session \in 0 .. Sessions /\ chunk \in [Threads -> Chunks]
        /\ raised \subseteq Threads /\ hook \in [Threads -> Nat]
        /\ enabled \in BOOLEAN /\ departed \in BOOLEAN /\ hadComm \in BOOLEAN
    <3>1. session \in 0 .. Sessions
      BY SessionsAssumption DEF Init
    <3>2. chunk \in [Threads -> Chunks]
      BY Zenon DEF Init
    <3>3. raised \subseteq Threads /\ hook \in [Threads -> Nat]
      BY DEF Init
    <3>4. enabled \in BOOLEAN /\ departed \in BOOLEAN /\ hadComm \in BOOLEAN
      BY Zenon DEF Init
    <3>. QED BY <3>1, <3>2, <3>3, <3>4
  <2>2. \A t \in Threads : /\ hook[t] <= HookCount(t)
                           /\ pc[t] \notin Running /\ pc[t] # "create"
    BY <1>1, <1>2 DEF Running
  <2>. QED BY <2>1, <2>2 DEF Hooks
<1>4. \A t \in Threads : Load(t) = 0 /\ Coming(t) = 0
  BY <1>1 DEF Load, Awaited, Coming
<1>5. Counts
  BY <1>1, <1>4 DEF Counts, Init, FreshBarrier
<1>. QED BY <1>3, <1>5

\* A step that changes nothing.
LEMMA StutterCounts ==
    ASSUME Hooks, Counts, UNCHANGED vars
    PROVE  Hooks' /\ Counts'
<1>1. UNCHANGED << session, chunk, pc, hook, raised, enabled, departed, hadComm, barrier,
                   pending >>
  BY DEF vars, progress, sync
<1>2. \A t \in Threads : /\ HookCount(t)' = HookCount(t)
                         /\ NextRole(t, hook[t])' = NextRole(t, hook[t])
                         /\ Other(t) \in Threads
  BY <1>1, SameChunk DEF Other, Threads
<1>3. \A t \in Threads : Load(t)' = Load(t) /\ Coming(t)' = Coming(t)
  BY <1>1, <1>2 DEF Load, Awaited, Coming
<1>4. Hooks'
  BY <1>1, <1>2 DEF Hooks
<1>5. Counts'
  BY <1>1, <1>2, <1>3 DEF Counts, Active
<1>. QED BY <1>4, <1>5

\* The counter and the hooks are kept by every step, next to Inv.
THEOREM Counted == Spec => [](Inv /\ Hooks /\ Counts)
<1>1. Init => Inv /\ Hooks /\ Counts
  BY InitInv, InitCounts
<1>2. Inv /\ Hooks /\ Counts /\ [Next]_vars => (Inv /\ Hooks /\ Counts)'
  <2> SUFFICES ASSUME Inv, Hooks, Counts, [Next]_vars
               PROVE  Inv' /\ Hooks' /\ Counts'
    OBVIOUS
  <2>1. Inv'
    BY NextInv
  <2>2. CASE Enable \/ StartBackward \/ StartFails
    BY <2>1, <2>2, SessionCounts
  <2>3. ASSUME NEW t \in Threads, ThreadStep(t) PROVE Hooks' /\ Counts'
    BY <2>3, HooksNext, CountsNext
  <2>4. CASE Stop \/ UNCHANGED vars
    BY <2>1, <2>4, StutterCounts DEF Stop
  <2>. QED BY <2>1, <2>2, <2>3, <2>4 DEF Next
<1>. QED BY <1>1, <1>2, PTL DEF Spec

\* The set of the COMM sides is as large as their loads.
LEMMA AwaitedCount ==
    Cardinality({t \in Threads : Awaited(t)}) = Load("fwd") + Load("bwd")
<1> DEFINE A == {t \in Threads : Awaited(t)}
<1>1. CASE Awaited("fwd") /\ Awaited("bwd")
  <2>1. A = {"fwd"} \cup {"bwd"}
    BY <1>1 DEF Threads
  <2>2. IsFiniteSet({"fwd"}) /\ Cardinality({"fwd"}) = 1 /\ "bwd" \notin {"fwd"}
    BY FS_Singleton
  <2>3. Cardinality({"fwd"} \cup {"bwd"}) = 2
    BY <2>2, FS_AddElement
  <2>. QED BY <1>1, <2>1, <2>3 DEF Load
<1>2. CASE Awaited("fwd") /\ ~Awaited("bwd")
  <2>1. A = {"fwd"}
    BY <1>2 DEF Threads
  <2>2. Cardinality({"fwd"}) = 1
    BY FS_Singleton
  <2>3. Cardinality(A) = 1
    BY <2>1, <2>2
  <2>. QED BY <1>2, <2>3 DEF Load
<1>3. CASE ~Awaited("fwd") /\ Awaited("bwd")
  <2>1. A = {"bwd"}
    BY <1>3 DEF Threads
  <2>2. Cardinality({"bwd"}) = 1
    BY FS_Singleton
  <2>3. Cardinality(A) = 1
    BY <2>1, <2>2
  <2>. QED BY <1>3, <2>3 DEF Load
<1>4. CASE ~Awaited("fwd") /\ ~Awaited("bwd")
  <2>1. A = {}
    BY <1>4 DEF Threads
  <2>. QED BY <1>4, <2>1, FS_EmptySet DEF Load
<1>. QED BY <1>1, <1>2, <1>3, <1>4

\* Type correctness: no thread leaves the hooks of its chunk, _pending_comm
\* never exceeds two, and it is the number of the COMM sides of the
\* rendezvous being formed as long as the barrier is whole.
THEOREM TypesAndCount == Spec => []TypeOK
<1>1. Inv /\ Hooks /\ Counts => TypeOK
  <2> SUFFICES ASSUME Inv, Hooks, Counts PROVE TypeOK
    OBVIOUS
  <2>1. "fwd" \in Threads /\ Other("fwd") = "bwd"
    BY DEF Threads, Other
  <2>2. pending \in 0 .. 2
    <3>1. pending \in Nat /\ pending + Coming("fwd") + Coming("bwd") <= 2
      BY <2>1 DEF Counts
    <3>2. Coming("fwd") \in {0, 1} /\ Coming("bwd") \in {0, 1}
      BY DEF Coming
    <3>. QED BY <3>1, <3>2
  <2>3. barrier.state # "broken" => pending = Cardinality({t \in Threads : Awaited(t)})
    BY <2>1, AwaitedCount DEF Counts
  <2>4. pc \in [Threads -> Places]
    BY DEF Inv, Types
  <2>5. barrier.state \in {"filling", "draining", "broken"} /\ barrier.inside \subseteq Threads
    BY DEF Inv, InBarrier
  <2>6. /\ session \in 0 .. Sessions /\ chunk \in [Threads -> Chunks]
        /\ hook \in [Threads -> Nat] /\ raised \subseteq Threads
        /\ \A t \in Threads : hook[t] <= HookCount(t)
        /\ enabled \in BOOLEAN /\ departed \in BOOLEAN /\ hadComm \in BOOLEAN
    BY DEF Hooks
  <2>. QED BY <2>2, <2>3, <2>4, <2>5, <2>6 DEF TypeOK
<1>. QED BY <1>1, Counted, PTL

-----------------------------------------------------------------------------
(***************************************************************************)
(* That the two threads never drift apart, for every number of layers and  *)
(* of sessions.                                                            *)
(*                                                                         *)
(* WellPaired only speaks of a thread that finds the other in the barrier. *)
(* The inductive invariant counts the rendezvous each thread has behind    *)
(* it: as long as both functions run the counts are equal, since the trip  *)
(* of the barrier raises both at once and the hooks without a rendezvous   *)
(* (D_LAST) raise neither.  Both functions still running also means that   *)
(* nobody has called disable or depart, so no rendezvous is skipped.       *)
(***************************************************************************)

\* A thread that the barrier let out has this rendezvous behind it.
Behind(t) == \/ pc[t] \in {"through", "wait"}
             \/ pc[t] = "blocked" /\ barrier.state = "draining"
At(t) == IF Behind(t) THEN hook[t] + 1 ELSE hook[t]
\* The rendezvous in front of hook n: D_LAST, the first hook of a backward and the
\* last of a forward, has none.
MetAt(t, n) ==
    IF chunk[t].tagged /\ n > 0 /\ (t = "fwd" => n = HookCount(t)) THEN n - 1 ELSE n
Met(t) == MetAt(t, At(t))

Inside == {"meet", "create", "arrive", "blocked", "through", "wait"}
\* Nobody is at a rendezvous under a hook that has none.
Named == \A t \in Threads :
            pc[t] \in Inside \/ (t = "bwd" /\ pc[t] = "notify")
                => HookName(t, hook[t]) # "D_LAST"

BothRun == \A t \in Threads : pc[t] \in Running
Meetings ==
    /\ Named
    /\ pc["fwd"] = "start" =>
          Active /\ barrier.state = "filling" /\ \A t \in Threads : hook[t] = 0
    /\ BothRun => Active /\ barrier.state # "broken" /\ Met("fwd") = Met("bwd")

LEMMA Tags ==
    ASSUME Hooks, NEW t \in Threads
    PROVE  /\ hook[t] \in Nat /\ HookCount(t) \in Nat
           /\ chunk[t].tagged \in BOOLEAN
           /\ chunk[t].layers \in Nat /\ HookCount(t) = 4 * chunk[t].layers
<1>1. chunk[t] \in Chunks
  BY DEF Hooks
<1>2. chunk[t].tagged \in BOOLEAN /\ chunk[t].layers \in Layers
  BY <1>1 DEF Chunks
<1>. QED BY <1>2, LayersAssumption, CountIsNat DEF Hooks, HookCount

\* Where D_LAST is: the last hook of a forward, the first one of a backward.
LEMMA LastHook ==
    ASSUME Hooks, NEW t \in Threads, hook[t] < HookCount(t)
    PROVE  HookName(t, hook[t]) = "D_LAST" <=>
              /\ chunk[t].tagged
              /\ hook[t] = IF t = "fwd" THEN HookCount(t) - 1 ELSE 0
<1> DEFINE k == hook[t]
           fwd == << "A", "B", "C", "D" >>
           bwd == << "D", "C", "B", "A" >>
<1>1. /\ k \in Nat /\ chunk[t].tagged \in BOOLEAN
      /\ chunk[t].layers \in Nat /\ HookCount(t) = 4 * chunk[t].layers
  BY Tags
<1>2. k % 4 \in 0 .. 3
  BY <1>1
<1>3. CASE t = "fwd"
  <2>1. fwd[(k % 4) + 1] \in {"A", "B", "C", "D"}
    BY <1>2
  <2>2. k = HookCount(t) - 1 => k % 4 = 3
    BY <1>1
  <2>3. k = HookCount(t) - 1 => fwd[(k % 4) + 1] = "D"
    BY <2>2
  <2>. QED BY <1>1, <1>3, <2>1, <2>3 DEF HookName
<1>4. CASE t = "bwd"
  <2>1. bwd[(k % 4) + 1] \in {"A", "B", "C", "D"}
    BY <1>2
  <2>2. k = 0 => bwd[(k % 4) + 1] = "D"
    BY <1>1
  <2>. QED BY <1>1, <1>4, <2>1, <2>2 DEF HookName
<1>. QED BY <1>3, <1>4 DEF Threads

LEMMA NextMeeting ==
    ASSUME Hooks, NEW t \in Threads, hook[t] < HookCount(t)
    PROVE  IF HookName(t, hook[t]) = "D_LAST"
           THEN MetAt(t, hook[t] + 1) = MetAt(t, hook[t])
           ELSE /\ MetAt(t, hook[t]) = hook[t] - FirstMeeting(t)
                /\ MetAt(t, hook[t] + 1) = hook[t] - FirstMeeting(t) + 1
<1>1. /\ hook[t] \in Nat /\ HookCount(t) \in Nat /\ chunk[t].tagged \in BOOLEAN
  BY Tags
<1>2. CASE t = "fwd"
  BY <1>1, <1>2, LastHook DEF MetAt, FirstMeeting
<1>3. CASE t = "bwd"
  BY <1>1, <1>3, LastHook DEF MetAt, FirstMeeting
<1>. QED BY <1>2, <1>3 DEF Threads

\* A step of one thread leaves the chunks and the hooks of the other alone.
LEMMA ThreadMoves ==
    ASSUME Inv, Hooks, NEW t \in Threads, ThreadStep(t)
    PROVE  /\ \E x \in Places : pc' = [pc EXCEPT ![t] = x]
           /\ chunk' = chunk /\ hook'[Other(t)] = hook[Other(t)]
<1>1. \E x \in Places : pc' = [pc EXCEPT ![t] = x]
  <2>1. CASE Join(t)
    BY <2>1 DEF Join, Inv, Types, Places
  <2>. QED
    BY <2>1 DEF ThreadStep, Dispatch, Finish, Raise, HookFires, NotifyDispatched, Rendezvous,
        CreateEvent, Arrive, Trip, Wake, Broken, Through, EventWait, Disable, Depart,
        Abort, Release, Return, Pass, Go, Places
<1>2. chunk' = chunk
  BY DEF ThreadStep, Dispatch, Finish, Raise, HookFires, NotifyDispatched, Rendezvous,
         CreateEvent, Arrive, Trip, Wake, Broken, Through, EventWait, Disable, Depart,
         Abort, Release, Join, Return
<1>3. hook' = hook \/ hook' = [hook EXCEPT ![t] = @ + 1]
  BY DEF ThreadStep, Dispatch, Finish, Raise, HookFires, NotifyDispatched, Rendezvous,
         CreateEvent, Arrive, Trip, Wake, Broken, Through, EventWait, Disable, Depart,
         Abort, Release, Join, Return, Pass, Go
<1>4. Other(t) \in Threads /\ Other(t) # t
  BY DEF Other, Threads
<1>. QED BY <1>1, <1>2, <1>3, <1>4 DEF Hooks

-----------------------------------------------------------------------------
LEMMA NamedNext ==
    ASSUME Inv, Hooks, Named, NEW t \in Threads, ThreadStep(t)
    PROVE  Named'
<1> DEFINE o == Other(t)
<1>1. PICK x \in Places : pc' = [pc EXCEPT ![t] = x]
  BY ThreadMoves
<1>2. /\ o \in Threads /\ o # t
      /\ pc'[t] = x /\ pc'[o] = pc[o]
      /\ \A u \in Threads : u = t \/ u = o
  BY <1>1, OtherStays DEF Inv
<1>3. chunk' = chunk /\ hook'[o] = hook[o]
  BY <1>2, ThreadMoves
<1>4. \A u \in Threads : hook'[u] = hook[u] => HookName(u, hook[u])' = HookName(u, hook[u])
  BY <1>3 DEF HookName, HookCount
<1>5. ASSUME pc'[t] \in Inside \/ (t = "bwd" /\ pc'[t] = "notify")
      PROVE  hook'[t] = hook[t] /\ HookName(t, hook[t]) # "D_LAST"
  <2>1. CASE HookFires(t)
    <3>1. pc'[t] # "op"
      BY <1>5 DEF Inside
    <3>2. pc'[t] = "notify" /\ hook' = hook /\ ~(t = "bwd" /\ HookName(t, hook[t]) = "D_LAST")
      BY <2>1, <3>1 DEF HookFires, Pass, Go, Inv, Types
    <3>. QED BY <1>5, <3>2 DEF Inside
  <2>2. CASE NotifyDispatched(t)
    <3>1. pc'[t] # "op"
      BY <1>5 DEF Inside
    <3>2. hook' = hook /\ HookName(t, hook[t]) # "D_LAST"
      BY <2>2, <3>1 DEF NotifyDispatched, Pass, Go, Inv, Types
    <3>. QED BY <3>2
  <2>3. CASE \/ Rendezvous(t) \/ CreateEvent(t) \/ Arrive(t) \/ Trip(t) \/ Wake(t)
             \/ Broken(t) \/ Through(t) \/ EventWait(t)
    <3>1. pc'[t] # "op"
      BY <1>5 DEF Inside
    <3>2. hook' = hook /\ pc[t] \in Inside
      BY <2>3, <3>1 DEF Rendezvous, CreateEvent, Arrive, Trip, Wake, Broken, Through,
                        EventWait, Pass, Go, Inv, Types, Inside
    <3>. QED BY <3>2 DEF Named
  <2>4. CASE \/ Dispatch(t) \/ Finish(t) \/ Raise(t) \/ Disable(t) \/ Depart(t)
             \/ Abort(t) \/ Release(t) \/ Join(t) \/ Return(t)
    <3>1. pc'[t] \notin Inside \cup {"notify"}
      BY <2>4 DEF Dispatch, Finish, Raise, Disable, Depart, Abort, Release, Join, Return,
                  Calling, Go, Inv, Types, Inside
    <3>. QED BY <1>5, <3>1
  <2>. QED BY <2>1, <2>2, <2>3, <2>4 DEF ThreadStep
<1>. QED BY <1>2, <1>3, <1>4, <1>5 DEF Named

\* The count of a thread follows its position only.
LEMMA MetFollows ==
    ASSUME chunk' = chunk, NEW t \in Threads, NEW n, At(t)' = n
    PROVE  Met(t)' = MetAt(t, n)
  BY DEF Met, MetAt, HookCount

\* A thread the other's step neither moves nor lets out of the barrier.
LEMMA MetStays ==
    ASSUME chunk' = chunk, NEW t \in Threads, hook'[t] = hook[t], pc'[t] = pc[t],
           pc[t] = "blocked" => barrier' = barrier
    PROVE  Met(t)' = Met(t)
<1>1. At(t)' = At(t)
  BY DEF At, Behind
<1>. QED BY <1>1, MetFollows DEF Met

\* A step inside fwd_fn or bwd_fn, up to the barrier and behind it.
HookPart(t) == \/ Dispatch(t) \/ HookFires(t) \/ NotifyDispatched(t) \/ Rendezvous(t)
               \/ CreateEvent(t) \/ Through(t) \/ EventWait(t)

LEMMA MetHooks ==
    ASSUME Inv, Hooks, Named, Active, NEW t \in Threads, HookPart(t)
    PROVE  Met(t)' = Met(t) /\ barrier' = barrier
<1>1. barrier' = barrier
  BY DEF HookPart, Dispatch, HookFires, NotifyDispatched, Rendezvous, CreateEvent, Through,
         EventWait, sync
<1>2. chunk' = chunk
  BY ThreadMoves DEF HookPart, ThreadStep
<1>3. /\ hook[t] \in Nat /\ pc \in [Threads -> Places] /\ hook \in [Threads -> Nat]
      /\ pc[t] \in Running \ {"op"} => hook[t] < HookCount(t)
  BY DEF Hooks, Inv, Types
<1>4. CASE \/ Dispatch(t) \/ CreateEvent(t) \/ Rendezvous(t)
  <2>1. /\ hook' = hook /\ pc[t] \in {"op", "create", "meet"}
        /\ pc'[t] \in {"hook", "arrive", "create"}
    BY <1>3, <1>4 DEF Dispatch, CreateEvent, Rendezvous, Go
  <2>2. At(t) = hook[t] /\ At(t)' = hook[t]
    BY <2>1 DEF At, Behind
  <2>. QED BY <1>1, <1>2, <2>2, MetFollows DEF Met
<1>5. CASE Through(t) \/ EventWait(t)
  <2>1. /\ pc[t] \in {"through", "wait"}
        /\ \/ hook' = hook /\ pc'[t] = "wait"
           \/ hook'[t] = hook[t] + 1 /\ pc'[t] = "op"
    BY <1>3, <1>5 DEF Through, EventWait, Pass, Go
  <2>2. At(t) = hook[t] + 1 /\ At(t)' = hook[t] + 1
    BY <2>1 DEF At, Behind
  <2>. QED BY <1>1, <1>2, <2>2, MetFollows DEF Met
<1>6. CASE HookFires(t) \/ NotifyDispatched(t)
  <2>1. /\ pc[t] \in {"hook", "notify"}
        /\ \/ hook' = hook /\ pc'[t] \in {"notify", "meet"}
           \/ /\ hook'[t] = hook[t] + 1 /\ pc'[t] = "op"
              /\ HookName(t, hook[t]) = "D_LAST"
    <3>1. CASE HookFires(t)
      BY <1>3, <3>1 DEF HookFires, Pass, Go, Active
    <3>2. CASE NotifyDispatched(t)
      BY <1>3, <3>2 DEF NotifyDispatched, Pass, Go
    <3>. QED BY <1>6, <3>1, <3>2
  <2>2. At(t) = hook[t] /\ At(t)' = hook'[t] /\ hook[t] < HookCount(t)
    BY <1>3, <2>1 DEF At, Behind, Running
  <2>3. CASE hook' = hook
    BY <1>1, <1>2, <2>2, <2>3, MetFollows DEF Met
  <2>4. CASE hook'[t] = hook[t] + 1 /\ HookName(t, hook[t]) = "D_LAST"
    <3>1. Met(t)' = MetAt(t, hook[t] + 1)
      BY <1>2, <2>2, <2>4, MetFollows
    <3>. QED BY <1>1, <2>2, <2>4, <3>1, NextMeeting DEF Met
  <2>. QED BY <2>1, <2>3, <2>4
<1>. QED BY <1>4, <1>5, <1>6 DEF HookPart

\* The trip counts for both threads; entering and leaving for none.
LEMMA MetBarrier ==
    ASSUME Inv, Hooks, Named, barrier.state # "broken", NEW t \in Threads,
           Arrive(t) \/ Trip(t) \/ Wake(t) \/ Broken(t), Met(t) = Met(Other(t))
    PROVE  Met(t)' = Met(Other(t))' /\ barrier'.state # "broken"
<1> DEFINE o == Other(t)
<1>1. PICK x \in Places : pc' = [pc EXCEPT ![t] = x]
  BY ThreadMoves DEF ThreadStep
<1>2. /\ o \in Threads /\ o # t
      /\ pc'[t] = x /\ pc'[o] = pc[o]
  BY <1>1, OtherStays DEF Inv
<1>3. chunk' = chunk /\ hook'[o] = hook[o]
  BY ThreadMoves DEF ThreadStep
<1>4. \A u \in Threads : u \in barrier.inside <=> pc[u] = "blocked"
  BY DEF Inv, InBarrier
<1>5. CASE Arrive(t)
  <2>1. /\ pc[t] = "arrive" /\ pc'[t] = "blocked" /\ hook' = hook
        /\ barrier = FreshBarrier /\ barrier'.state = "filling"
    BY <1>2, <1>1, <1>5 DEF Arrive, Go, FreshBarrier, Inv, Types
  <2>2. pc[o] # "blocked"
    BY <1>2, <1>4, <2>1 DEF FreshBarrier
  <2>3. At(t)' = hook[t] /\ At(t) = hook[t]
    BY <2>1 DEF At, Behind
  <2>4. Met(t)' = Met(t)
    BY <1>3, <2>3, MetFollows DEF Met
  <2>5. Met(o)' = Met(o)
    BY <1>2, <1>3, <2>2, MetStays
  <2>. QED BY <2>1, <2>4, <2>5
<1>6. CASE Trip(t)
  <2>1. /\ pc[t] = "arrive" /\ pc'[t] = "through" /\ hook' = hook
        /\ barrier.state = "filling" /\ barrier.inside = {o}
        /\ barrier'.state = "draining"
    BY <1>1, <1>6 DEF Trip, Go, Inv, Types
  <2>2. pc[o] = "blocked"
    BY <1>2, <1>4, <2>1
  <2>3. ASSUME NEW u \in {t, o}
        PROVE  Met(u)' = Met(u) + 1 /\ Met(u) \in Int
    <3>1. u \in Threads /\ pc[u] \in {"arrive", "blocked"} /\ hook[u] \in Nat
      BY <1>2, <2>1, <2>2 DEF Hooks
    <3>2. hook[u] < HookCount(u) /\ HookName(u, hook[u]) # "D_LAST"
      BY <3>1 DEF Hooks, Named, Inside, Running
    <3>3. At(u) = hook[u]
      BY <2>1, <3>1 DEF At, Behind
    <3>4. At(u)' = hook[u] + 1
      BY <1>2, <2>1, <2>2 DEF At, Behind
    <3>5. Met(u)' = MetAt(u, hook[u] + 1)
      BY <1>3, <3>1, <3>4, MetFollows
    <3>6. FirstMeeting(u) \in Int
      BY DEF FirstMeeting
    <3>. QED BY <3>1, <3>2, <3>3, <3>5, <3>6, NextMeeting DEF Met
  <2>. QED BY <2>1, <2>3
<1>7. CASE Wake(t)
  <2>1. /\ pc[t] = "blocked" /\ pc'[t] = "through" /\ hook' = hook
        /\ barrier.state = "draining" /\ barrier'.state = "filling"
    BY <1>1, <1>7 DEF Wake, Go, FreshBarrier, Inv, Types
  <2>2. pc[o] # "blocked"
    BY <1>2, <2>1 DEF Inv, InBarrier, Threads
  <2>3. At(t)' = hook[t] + 1 /\ At(t) = hook[t] + 1
    BY <2>1 DEF At, Behind
  <2>4. Met(t)' = Met(t)
    BY <1>3, <2>3, MetFollows DEF Met
  <2>5. Met(o)' = Met(o)
    BY <1>2, <1>3, <2>2, MetStays
  <2>. QED BY <2>1, <2>4, <2>5
<1>8. CASE Broken(t)
  BY <1>8 DEF Broken
<1>. QED BY <1>5, <1>6, <1>7, <1>8

\* A step inside of both functions finds both running.
LEMMA StillRun ==
    ASSUME Inv, Hooks, NEW t \in Threads, ThreadStep(t), pc'[t] \in Running
    PROVE  /\ HookPart(t) \/ Arrive(t) \/ Trip(t) \/ Wake(t) \/ Broken(t)
           /\ pc[t] \in Running
<1>1. ~(\/ Finish(t) \/ Raise(t) \/ Disable(t) \/ Depart(t) \/ Abort(t)
        \/ Release(t) \/ Join(t) \/ Return(t))
  BY DEF Finish, Raise, Disable, Depart, Abort, Release, Join, Return, Calling,
         Go, Running, Inv, Types
<1>2. HookPart(t) \/ Arrive(t) \/ Trip(t) \/ Wake(t) \/ Broken(t)
  BY <1>1 DEF ThreadStep, HookPart
<1>. QED
  BY <1>2 DEF HookPart, Dispatch, HookFires, NotifyDispatched, Rendezvous, CreateEvent,
              Through, EventWait, Arrive, Trip, Wake, Broken, Running

\* Only enable brings the main thread to the start of a session.
LEMMA NotStart ==
    ASSUME Inv, Hooks, NEW t \in Threads, ThreadStep(t)
    PROVE  pc'["fwd"] # "start"
<1>1. PICK x \in Places : pc' = [pc EXCEPT ![t] = x]
  BY ThreadMoves
<1>2. pc'[t] = x /\ pc'[Other(t)] = pc[Other(t)]
  BY <1>1, OtherStays DEF Inv
<1>3. x # "start"
  BY <1>2 DEF ThreadStep, Dispatch, Finish, Raise, HookFires, NotifyDispatched, Rendezvous,
      CreateEvent, Arrive, Trip, Wake, Broken, Through, EventWait, Disable, Depart,
      Abort, Release, Join, Return, Calling, Pass, Go, Inv, Types
<1>4. CASE t = "fwd"
  BY <1>2, <1>3, <1>4
<1>5. CASE t = "bwd"
  <2>1. pc["bwd"] \notin {"start", "done"}
    BY <1>5 DEF ThreadStep, Dispatch, Finish, Raise, HookFires, NotifyDispatched, Rendezvous,
        CreateEvent, Arrive, Trip, Wake, Broken, Through, EventWait, Disable, Depart,
        Abort, Release, Join, Return, Calling
  <2>2. pc["fwd"] # "start"
    BY <2>1 DEF Inv, Phases, Joined
  <2>. QED BY <1>2, <1>5, <2>2 DEF Other
<1>. QED BY <1>4, <1>5 DEF Threads

\* As long as both functions run, nobody has lowered a flag or broken the
\* barrier, and every step keeps the counts equal.
LEMMA MeetingsThread ==
    ASSUME Inv, Hooks, Meetings, NEW t \in Threads, ThreadStep(t)
    PROVE  Meetings'
<1> DEFINE o == Other(t)
<1>1. PICK x \in Places : pc' = [pc EXCEPT ![t] = x]
  BY ThreadMoves
<1>2. /\ o \in Threads /\ o # t
      /\ pc'[t] = x /\ pc'[o] = pc[o]
      /\ \A u \in Threads : u = t \/ u = o
  BY <1>1, OtherStays DEF Inv
<1>3. chunk' = chunk /\ hook'[o] = hook[o]
  BY ThreadMoves
<1>4. Named'
  BY NamedNext DEF Meetings
<1>5. pc'["fwd"] # "start"
  BY NotStart
<1>6. ASSUME BothRun'
      PROVE  Active' /\ barrier'.state # "broken" /\ Met(t)' = Met(o)'
  <2>1. /\ HookPart(t) \/ Arrive(t) \/ Trip(t) \/ Wake(t) \/ Broken(t)
        /\ pc[t] \in Running
    BY <1>6, StillRun DEF BothRun
  <2>2. BothRun
    BY <1>2, <1>6, <2>1 DEF BothRun
  <2>3. Active /\ barrier.state # "broken" /\ Met(t) = Met(o)
    BY <1>2, <2>2 DEF Meetings, Threads, Other
  <2>4. Active'
    <3>1. CASE HookPart(t)
      <4>1. enabled' = enabled /\ departed' = departed
        BY <3>1 DEF HookPart, Dispatch, HookFires, NotifyDispatched, Rendezvous,
                    CreateEvent, Through, EventWait, sync
      <4>. QED BY <2>3, <4>1 DEF Active
    <3>2. CASE Arrive(t) \/ Trip(t) \/ Wake(t) \/ Broken(t)
      <4>1. enabled' = enabled /\ departed' = departed
        BY <3>2 DEF Arrive, Trip, Wake, Broken
      <4>. QED BY <2>3, <4>1 DEF Active
    <3>. QED BY <2>1, <3>1, <3>2
  <2>5. CASE HookPart(t)
    <3>1. Met(t)' = Met(t) /\ barrier' = barrier
      BY <2>3, <2>5, MetHooks DEF Meetings
    <3>2. Met(o)' = Met(o)
      BY <1>2, <1>3, <3>1, MetStays
    <3>. QED BY <2>3, <2>4, <3>1, <3>2
  <2>6. CASE Arrive(t) \/ Trip(t) \/ Wake(t) \/ Broken(t)
    BY <2>3, <2>4, <2>6, MetBarrier DEF Meetings
  <2>. QED BY <2>1, <2>5, <2>6
<1>7. BothRun' => Active' /\ barrier'.state # "broken" /\ (Met("fwd") = Met("bwd"))'
  BY <1>2, <1>6 DEF Threads, Other
<1>. QED BY <1>4, <1>5, <1>7 DEF Meetings

\* run() starts with both threads in front of their first hook.
LEMMA MeetingsSession ==
    ASSUME Inv, Hooks, Meetings, Enable \/ StartBackward \/ StartFails
    PROVE  Meetings'
<1>1. CASE Enable
  <2>1. pc'["fwd"] = "start" /\ pc'["bwd"] = "done"
    BY <1>1 DEF Enable, Inv, Types, Phases, Joined, Threads
  <2>2. Active' /\ barrier'.state = "filling" /\ \A t \in Threads : hook'[t] = 0
    BY <1>1 DEF Enable, Active, FreshBarrier
  <2>3. Named' /\ ~BothRun'
    BY <2>1 DEF Named, BothRun, Inside, Running, Threads
  <2>. QED BY <2>2, <2>3 DEF Meetings
<1>2. CASE StartBackward
  <2>1. /\ Active /\ barrier.state = "filling"
        /\ pc' = [t \in Threads |-> "op"] /\ UNCHANGED << chunk, hook, enabled, departed, barrier >>
        /\ \A t \in Threads : hook[t] = 0
    BY <1>2 DEF StartBackward, Meetings, sync
  <2>2. Named' /\ pc'["fwd"] # "start"
    BY <2>1 DEF Named, Inside, Threads
  <2>3. ASSUME NEW t \in Threads PROVE Met(t)' = 0
    <3>1. At(t)' = 0
      BY <2>1 DEF At, Behind
    <3>2. Met(t)' = MetAt(t, 0)
      BY <2>1, <3>1, MetFollows
    <3>. QED BY <3>2 DEF MetAt
  <2>4. Active' /\ barrier'.state # "broken"
    BY <2>1 DEF Active
  <2>5. (Met("fwd") = Met("bwd"))'
    BY <2>3 DEF Threads
  <2>. QED BY <2>2, <2>4, <2>5 DEF Meetings
<1>3. CASE StartFails
  <2>1. pc'["fwd"] = "calls" /\ pc'["bwd"] = "done"
    BY <1>3 DEF StartFails, Inv, Types, Phases, Joined, Threads
  <2>. QED BY <2>1 DEF Meetings, Named, BothRun, Inside, Running, Threads
<1>. QED BY <1>1, <1>2, <1>3

\* The counts of rendezvous are kept by every step, next to Inv and Hooks.
THEOREM MeetingsInvariant == Spec => []Meetings
<1>1. Init => Meetings
  BY DEF Init, Meetings, Named, BothRun, Inside, Running, Threads
<1>2. Inv /\ Hooks /\ Meetings /\ [Next]_vars => Meetings'
  <2> SUFFICES ASSUME Inv, Hooks, Meetings, [Next]_vars PROVE Meetings'
    OBVIOUS
  <2>1. CASE Enable \/ StartBackward \/ StartFails
    BY <2>1, MeetingsSession
  <2>2. ASSUME NEW t \in Threads, ThreadStep(t) PROVE Meetings'
    BY <2>2, MeetingsThread
  <2>3. CASE Stop \/ UNCHANGED vars
    <3>1. UNCHANGED << chunk, pc, hook, enabled, departed, barrier >>
      BY <2>3 DEF Stop, vars, progress, sync
    <3>2. \A t \in Threads : Met(t)' = Met(t)
      BY <3>1, MetStays
    <3>3. \A t \in Threads : HookName(t, hook[t])' = HookName(t, hook[t])
      BY <3>1 DEF HookName, HookCount
    <3>4. Named'
      BY <3>1, <3>3 DEF Named, Meetings
    <3>5. (Met("fwd") = Met("bwd"))' <=> Met("fwd") = Met("bwd")
      BY <3>2 DEF Threads
    <3>. QED BY <3>1, <3>4, <3>5 DEF Meetings, BothRun, Active
  <2>. QED BY <2>1, <2>2, <2>3 DEF Next
<1>. QED BY <1>1, <1>2, Counted, PTL DEF Spec

\* Where both last layers are tagged, hook k of the forward meets hook k + 1 of
\* the backward, whose roles differ.
LEMMA RolesDiffer ==
    ASSUME NEW k \in Nat, HookName("fwd", k) # "D_LAST", HookName("bwd", k + 1) # "D_LAST"
    PROVE  NextRole("fwd", k) # NextRole("bwd", k + 1)
<1>1. \/ k % 4 = 0 /\ (k + 1) % 4 = 1
      \/ k % 4 = 1 /\ (k + 1) % 4 = 2
      \/ k % 4 = 2 /\ (k + 1) % 4 = 3
      \/ k % 4 = 3 /\ (k + 1) % 4 = 0
  OBVIOUS
<1>2. /\ HookName("fwd", k) = << "A", "B", "C", "D" >>[(k % 4) + 1]
      /\ HookName("bwd", k + 1) = << "D", "C", "B", "A" >>[((k + 1) % 4) + 1]
  BY DEF HookName
<1>3. \/ HookName("fwd", k) = "A" /\ HookName("bwd", k + 1) = "C"
      \/ HookName("fwd", k) = "B" /\ HookName("bwd", k + 1) = "B"
      \/ HookName("fwd", k) = "C" /\ HookName("bwd", k + 1) = "A"
      \/ HookName("fwd", k) = "D" /\ HookName("bwd", k + 1) = "D"
  BY <1>1, <1>2
<1>. QED BY <1>3 DEF NextRole, PrevRole, Opposite

\* A thread that finds the other in the barrier is at the hook that belongs to
\* the other's, however many layers the two chunks have.
THEOREM Pairing == Spec => []WellPaired
<1>1. Inv /\ Hooks /\ Meetings => WellPaired
  <2> SUFFICES ASSUME Inv, Hooks, Meetings,
                      NEW t \in Threads, pc[t] = "arrive",
                      barrier = [state |-> "filling", inside |-> {Other(t)}]
               PROVE  /\ hook[Other(t)] = Partner(t, hook[t])
                      /\ chunk[t].tagged /\ chunk[Other(t)].tagged
                         => NextRole(t, hook[t]) # NextRole(Other(t), hook[Other(t)])
    BY DEF WellPaired
  <2> DEFINE o == Other(t)
  <2>1. o \in Threads /\ o # t /\ \A u \in Threads : u = t \/ u = o
    BY DEF Other, Threads
  <2>2. pc[o] = "blocked"
    BY <2>1 DEF Inv, InBarrier
  <2>3. Met(t) = Met(o)
    <3>1. BothRun
      BY <2>1, <2>2 DEF BothRun, Running
    <3>. QED BY <3>1 DEF Meetings, Threads, Other
  <2>4. ASSUME NEW u \in {t, o}
        PROVE  /\ hook[u] \in Nat /\ FirstMeeting(u) \in {0, 1}
               /\ HookName(u, hook[u]) # "D_LAST"
               /\ Met(u) = hook[u] - FirstMeeting(u)
    <3>1. u \in Threads /\ pc[u] \in {"arrive", "blocked"}
      BY <2>1, <2>2
    <3>2. hook[u] \in Nat /\ hook[u] < HookCount(u) /\ HookName(u, hook[u]) # "D_LAST"
      BY <3>1 DEF Hooks, Meetings, Named, Inside, Running
    <3>3. At(u) = hook[u]
      BY <3>1 DEF At, Behind
    <3>. QED BY <3>1, <3>2, <3>3, NextMeeting DEF Met, FirstMeeting
  <2>5. hook[o] = Partner(t, hook[t])
    BY <2>3, <2>4 DEF Partner
  <2>6. ASSUME chunk[t].tagged, chunk[o].tagged
        PROVE  NextRole(t, hook[t]) # NextRole(o, hook[o])
    <3>1. CASE t = "fwd"
      <4>1. o = "bwd" /\ hook[o] = hook[t] + 1
        BY <2>4, <2>5, <2>6, <3>1 DEF Partner, FirstMeeting, Other
      <4>. QED BY <2>4, <3>1, <4>1, RolesDiffer
    <3>2. CASE t = "bwd"
      <4>1. o = "fwd" /\ hook[t] = hook[o] + 1
        BY <2>4, <2>5, <2>6, <3>2 DEF Partner, FirstMeeting, Other
      <4>. QED BY <2>4, <3>2, <4>1, RolesDiffer
    <3>. QED BY <3>1, <3>2 DEF Threads
  <2>. QED BY <2>5, <2>6
<1>. QED BY <1>1, Counted, MeetingsInvariant, PTL

-----------------------------------------------------------------------------
(***************************************************************************)
(* That the COMPUTE side of a rendezvous never comes back to its caller    *)
(* before the COMM side has dispatched its operation, for every number of  *)
(* layers and of sessions.                                                 *)
(*                                                                         *)
(* While one of the functions has ended there is nothing to show: it ended *)
(* behind its last operation (Ended).  While both run, the inductive       *)
(* invariant follows the event of a COMM side: it is new when it is        *)
(* created (Dated), it is the event in the slot when the barrier trips     *)
(* (Posted), and until its operation is dispatched the COMPUTE side is     *)
(* between the trip and its return, and this event is what it waits for    *)
(* (Owed).                                                                 *)
(***************************************************************************)
Ended == \A t \in Threads :
            raised = {} /\ pc[t] \in Running /\ pc[Other(t)] \notin Running
                => hook[Other(t)] = HookCount(Other(t))

PerThread == /\ mine = [t \in Threads |-> mine[t]]
             /\ seen = [t \in Threads |-> seen[t]]

\* Events of the session are named after the hook that creates them.
Dated == /\ \A e \in isSet : \E u \in Threads : \E k \in Nat :
                e = Event(session, u, k) /\ k < hook[u]
         /\ \A u \in Threads :
                \/ mine[u] = NoEvent
                \/ \E k \in Nat :
                      /\ mine[u] = Event(session, u, k)
                      /\ \/ k < hook[u]
                         \/ k = hook[u] /\ pc[u] \in {"arrive", "blocked", "through", "wait"}

\* The partner of a COMM side at hook k is a COMPUTE side.
Leads(p, k) == /\ Meets(p, k)
               /\ NextRole(p, k) = "COMM"
               /\ NextRole(Other(p), Partner(p, k)) = "COMPUTE"

Waiting(p) == pc[p] = "arrive" \/ (pc[p] = "blocked" /\ barrier.state = "filling")
Posted == \A p \in Threads :
            Waiting(p) /\ Leads(p, hook[p])
                => slot = Event(session, p, hook[p]) /\ mine[p] = slot

\* The rendezvous at hook k is behind p, its operation is not dispatched.
Owes(p, k) == \/ Behind(p) /\ k = hook[p]
              \/ pc[p] = "op" /\ k + 1 = hook[p]
Owed == \A p \in Threads, k \in Nat :
            Owes(p, k) /\ Leads(p, k) =>
                /\ hadComm
                /\ slot = Event(session, p, k) /\ mine[p] = slot /\ slot \notin isSet
                /\ Behind(Other(p)) /\ hook[Other(p)] = Partner(p, k)
                /\ pc[Other(p)] = "wait" => seen[Other(p)] = slot

Leading ==
    /\ Ended /\ PerThread
    /\ pc["fwd"] = "start" => isSet = {} /\ mine = [t \in Threads |-> NoEvent]
    /\ BothRun => Dated /\ Posted /\ Owed

\* Roles and partners only depend on the chunks.
LEMMA LeadsStay ==
    ASSUME chunk' = chunk, NEW p \in Threads, NEW k \in Nat
    PROVE  /\ Leads(p, k)' <=> Leads(p, k)
           /\ Partner(p, k)' = Partner(p, k)
  BY DEF Leads, Meets, Partner, FirstMeeting, LastMeeting, HookCount, NextRole, PrevRole,
         HookName

LEMMA LeadsPrime ==
    ASSUME chunk' = chunk, NEW p \in Threads
    PROVE  Leads(p, hook[p])' <=> Leads(p, hook'[p])
  BY DEF Leads, Meets, Partner, FirstMeeting, LastMeeting, HookCount, NextRole, PrevRole,
         HookName

\* Two threads in front of the same rendezvous, or both behind it, are at
\* hooks that belong to each other.
LEMMA AtPartner ==
    ASSUME Hooks, Named, NEW t \in Threads, Met(t) = Met(Other(t)),
           pc[t] \in Inside, pc[Other(t)] \in Inside, Behind(t) <=> Behind(Other(t))
    PROVE  hook[Other(t)] = Partner(t, hook[t])
<1> DEFINE o == Other(t)
<1>1. o \in Threads
  BY DEF Other, Threads
<1>2. ASSUME NEW u \in {t, o}
      PROVE  /\ hook[u] \in Nat /\ FirstMeeting(u) \in {0, 1}
             /\ Behind(u) => Met(u) = hook[u] - FirstMeeting(u) + 1
             /\ ~Behind(u) => Met(u) = hook[u] - FirstMeeting(u)
  <2>1. hook[u] \in Nat /\ hook[u] < HookCount(u) /\ HookName(u, hook[u]) # "D_LAST"
    BY <1>1 DEF Hooks, Named, Inside, Running
  <2>. QED BY <1>1, <2>1, NextMeeting DEF Met, At, FirstMeeting
<1>. QED BY <1>2 DEF Partner

\* Nobody rendezvous at D_LAST, so it has no partner.
LEMMA MeetsNamed ==
    ASSUME Hooks, NEW t \in Threads, hook[t] < HookCount(t), Meets(t, hook[t])
    PROVE  HookName(t, hook[t]) # "D_LAST"
<1>1. /\ hook[t] \in Nat /\ HookCount(t) \in Nat /\ chunk[t].tagged \in BOOLEAN
  BY Tags
<1>2. CASE t = "fwd"
  BY <1>1, <1>2, LastHook DEF Meets, LastMeeting
<1>3. CASE t = "bwd"
  BY <1>1, <1>3, LastHook DEF Meets, FirstMeeting
<1>. QED BY <1>2, <1>3 DEF Threads

-----------------------------------------------------------------------------
\* A function ends behind its last operation, unless it raises.
LEMMA EndedNext ==
    ASSUME Inv, Hooks, Ended, NEW t \in Threads, ThreadStep(t)
    PROVE  Ended'
<1> DEFINE o == Other(t)
<1>1. PICK x \in Places : pc' = [pc EXCEPT ![t] = x]
  BY ThreadMoves
<1>2. /\ o \in Threads /\ o # t /\ Other(o) = t
      /\ pc'[t] = x /\ pc'[o] = pc[o]
      /\ \A u \in Threads : u = t \/ u = o
  BY <1>1, OtherStays DEF Inv
<1>3. chunk' = chunk /\ hook'[o] = hook[o]
  BY ThreadMoves
<1>4. \A u \in Threads : HookCount(u)' = HookCount(u)
  BY <1>3 DEF HookCount
<1>5. raised \subseteq raised'
  BY DEF ThreadStep, Dispatch, Finish, Raise, HookFires, NotifyDispatched, Rendezvous,
         CreateEvent, Arrive, Trip, Wake, Broken, Through, EventWait, Disable, Depart,
         Abort, Release, Join, Return
<1>6. ASSUME raised' = {}, pc'[t] \in Running, pc'[o] \notin Running
      PROVE  hook'[o] = HookCount(o)'
  <2>1. raised = {} /\ pc[t] \in Running /\ pc[o] \notin Running
    BY <1>2, <1>5, <1>6, StillRun
  <2>. QED BY <1>2, <1>3, <1>4, <2>1 DEF Ended
<1>7. ASSUME raised' = {}, pc'[o] \in Running, pc'[t] \notin Running
      PROVE  hook'[t] = HookCount(t)'
  <2>1. raised = {} /\ pc[o] \in Running
    BY <1>2, <1>5, <1>7
  <2>2. CASE Finish(t)
    BY <1>2, <1>4, <2>2 DEF Finish
  <2>3. CASE Raise(t)
    BY <1>7, <2>3 DEF Raise
  <2>4. CASE \/ Disable(t) \/ Depart(t) \/ Abort(t) \/ Release(t) \/ Join(t) \/ Return(t)
    <3>1. hook' = hook /\ pc[t] \notin Running
      BY <2>4 DEF Disable, Depart, Abort, Release, Join, Return, Calling, Go, Running
    <3>. QED BY <1>2, <1>4, <2>1, <3>1 DEF Ended
  <2>5. CASE HookPart(t) \/ Arrive(t) \/ Trip(t) \/ Wake(t) \/ Broken(t)
    <3>1. pc'[t] \in Running
      BY <2>5 DEF HookPart, Dispatch, HookFires, NotifyDispatched, Rendezvous, CreateEvent,
                  Through, EventWait, Arrive, Trip, Wake, Broken, Pass, Go, Running,
                  Inv, Types
    <3>. QED BY <1>7, <3>1
  <2>. QED BY <2>2, <2>3, <2>4, <2>5 DEF ThreadStep, HookPart
<1>. QED BY <1>2, <1>6, <1>7 DEF Ended

-----------------------------------------------------------------------------
(***************************************************************************)
(* The events, as long as both functions run.                              *)
(***************************************************************************)
\* A step inside of a function whose partner runs too.
Steps(t) == HookPart(t) \/ Arrive(t) \/ Trip(t) \/ Wake(t)

LEMMA StepsMove ==
    ASSUME Inv, Hooks, NEW t \in Threads, Steps(t)
    PROVE  /\ Other(t) \in Threads /\ Other(t) # t /\ Other(Other(t)) = t
           /\ \A u \in Threads : u = t \/ u = Other(t)
           /\ pc'[Other(t)] = pc[Other(t)] /\ hook'[Other(t)] = hook[Other(t)]
           /\ hook'[t] = hook[t] \/ (hook'[t] = hook[t] + 1 /\ pc'[t] = "op")
           /\ session' = session /\ chunk' = chunk
           /\ \A u \in Threads : hook[u] \in Nat /\ hook'[u] \in Nat /\ hook[u] <= hook'[u]
<1>1. ThreadStep(t)
  BY DEF Steps, HookPart, ThreadStep
<1>2. PICK x \in Places : pc' = [pc EXCEPT ![t] = x]
  BY <1>1, ThreadMoves
<1>3. /\ Other(t) \in Threads /\ Other(t) # t /\ Other(Other(t)) = t
      /\ pc'[t] = x /\ pc'[Other(t)] = pc[Other(t)]
      /\ \A u \in Threads : u = t \/ u = Other(t)
  BY <1>2, OtherStays DEF Inv
<1>4. chunk' = chunk /\ hook'[Other(t)] = hook[Other(t)]
  BY <1>1, ThreadMoves
<1>5. hook' = hook \/ (hook' = [hook EXCEPT ![t] = @ + 1] /\ pc'[t] = "op")
  BY <1>2, <1>3 DEF Steps, HookPart, Dispatch, HookFires, NotifyDispatched, Rendezvous,
         CreateEvent, Arrive, Trip, Wake, Through, EventWait, Pass, Go, Inv, Types
<1>6. session' = session
  BY DEF Steps, HookPart, Dispatch, HookFires, NotifyDispatched, Rendezvous,
         CreateEvent, Arrive, Trip, Wake, Through, EventWait
<1>7. hook'[t] = hook[t] \/ (hook'[t] = hook[t] + 1 /\ pc'[t] = "op")
  BY <1>5 DEF Hooks
<1>8. \A u \in Threads : hook[u] \in Nat
  BY DEF Hooks
<1>. QED BY <1>3, <1>4, <1>6, <1>7, <1>8

\* What each step does to the events.
LEMMA EventSteps ==
    ASSUME NEW t \in Threads, Steps(t)
    PROVE  \/ CreateEvent(t)
           \/ NotifyDispatched(t)
           \/ UNCHANGED << slot, mine, isSet >>
  BY DEF Steps, HookPart, Dispatch, HookFires, Rendezvous, Arrive, Trip, Wake, Through,
         EventWait, sync

LEMMA DatedNext ==
    ASSUME Inv, Hooks, Dated, PerThread, NEW t \in Threads, Steps(t)
    PROVE  Dated'
<1> DEFINE o == Other(t)
<1>1. /\ o \in Threads /\ o # t /\ \A u \in Threads : u = t \/ u = o
      /\ pc'[o] = pc[o] /\ hook'[o] = hook[o]
      /\ hook'[t] = hook[t] \/ (hook'[t] = hook[t] + 1 /\ pc'[t] = "op")
      /\ session' = session
      /\ \A u \in Threads : hook[u] \in Nat /\ hook'[u] \in Nat /\ hook[u] <= hook'[u]
  BY StepsMove
<1>2. /\ mine' = mine \/ mine' = [mine EXCEPT ![t] = NoEvent]
         \/ (CreateEvent(t) /\ mine' = [mine EXCEPT ![t] = Event(session, t, hook[t])])
      /\ \/ isSet' = isSet
         \/ pc[t] = "notify" /\ mine[t] # NoEvent /\ isSet' = isSet \cup {mine[t]}
  BY EventSteps DEF CreateEvent, NotifyDispatched
<1>. mine = [u \in Threads |-> mine[u]]
  BY DEF PerThread
<1>3. ASSUME NEW e \in isSet'
      PROVE  \E u \in Threads : \E k \in Nat : e = Event(session, u, k)' /\ k < hook'[u]
  <2>1. PICK u \in Threads, k \in Nat : e = Event(session, u, k) /\ k < hook[u]
    <3>1. CASE e \in isSet
      BY <3>1 DEF Dated
    <3>2. CASE e \notin isSet
      <4>1. pc[t] = "notify" /\ mine[t] # NoEvent /\ e = mine[t]
        BY <1>2, <3>2
      <4>. QED BY <4>1 DEF Dated
    <3>. QED BY <3>1, <3>2
  <2>2. e = Event(session, u, k)' /\ k < hook'[u]
    BY <1>1, <2>1 DEF Event
  <2>. QED BY <2>2
<1>4. ASSUME NEW u \in Threads, mine'[u] # NoEvent
      PROVE  \E k \in Nat :
                /\ mine'[u] = Event(session, u, k)'
                /\ \/ k < hook'[u]
                   \/ k = hook'[u] /\ pc'[u] \in {"arrive", "blocked", "through", "wait"}
  <2>1. CASE mine'[u] = mine[u]
    <3>1. PICK k \in Nat :
              /\ mine[u] = Event(session, u, k)
              /\ \/ k < hook[u]
                 \/ k = hook[u] /\ pc[u] \in {"arrive", "blocked", "through", "wait"}
      BY <1>4, <2>1 DEF Dated
    <3>2. CASE k < hook[u]
      BY <1>1, <2>1, <3>1, <3>2 DEF Event
    <3>3. CASE u = o
      BY <1>1, <2>1, <3>1, <3>3 DEF Event
    <3>4. CASE u = t /\ k = hook[t] /\ pc[t] \in {"arrive", "blocked", "through", "wait"}
      <4>1. Arrive(t) \/ Trip(t) \/ Wake(t) \/ Through(t) \/ EventWait(t)
        BY <3>4 DEF Steps, HookPart, Dispatch, HookFires, NotifyDispatched, Rendezvous,
                    CreateEvent
      <4>2. \/ hook'[t] = hook[t] + 1
            \/ hook'[t] = hook[t] /\ pc'[t] \in {"arrive", "blocked", "through", "wait"}
        BY <1>1, <4>1 DEF Arrive, Trip, Wake, Through, EventWait, Pass, Go, Inv, Types, Hooks
      <4>. QED BY <1>1, <2>1, <3>1, <3>4, <4>2 DEF Event
    <3>. QED BY <1>1, <3>1, <3>2, <3>3, <3>4
  <2>2. CASE mine'[u] # mine[u]
    <3>1. u = t /\ CreateEvent(t) /\ mine'[t] = Event(session, t, hook[t])
      BY <1>1, <1>2, <1>4, <2>2
    <3>2. pc'[t] = "arrive" /\ hook'[t] = hook[t]
      BY <3>1 DEF CreateEvent, Go, Inv, Types
    <3>. QED BY <1>1, <3>1, <3>2 DEF Event
  <2>. QED BY <2>1, <2>2
<1>. QED BY <1>3, <1>4 DEF Dated

LEMMA PerThreadNext ==
    ASSUME PerThread, NEW t \in Threads, ThreadStep(t)
    PROVE  PerThread'
<1>1. mine' = mine \/ \E e : mine' = [mine EXCEPT ![t] = e]
  BY DEF ThreadStep, Dispatch, Finish, Raise, HookFires, NotifyDispatched, Rendezvous,
      CreateEvent, Arrive, Trip, Wake, Broken, Through, EventWait, Disable, Depart,
      Abort, Release, Join, Return, sync
<1>2. seen' = seen \/ \E e : seen' = [seen EXCEPT ![t] = e]
  BY DEF ThreadStep, Dispatch, Finish, Raise, HookFires, NotifyDispatched, Rendezvous,
      CreateEvent, Arrive, Trip, Wake, Broken, Through, EventWait, Disable, Depart,
      Abort, Release, Join, Return, sync
<1>. QED BY <1>1, <1>2 DEF PerThread

\* Until the barrier trips, the slot keeps the event of a COMM side whose
\* partner is a COMPUTE side: that one creates none.
LEMMA PostedNext ==
    ASSUME Inv, Hooks, Named, PerThread, Posted, NEW t \in Threads, Steps(t),
           Met(t) = Met(Other(t))
    PROVE  Posted'
<1> DEFINE o == Other(t)
<1>. mine = [u \in Threads |-> mine[u]]
  BY DEF PerThread
<1>1. /\ o \in Threads /\ o # t /\ Other(o) = t /\ \A u \in Threads : u = t \/ u = o
      /\ pc'[o] = pc[o] /\ hook'[o] = hook[o]
      /\ hook'[t] = hook[t] \/ (hook'[t] = hook[t] + 1 /\ pc'[t] = "op")
      /\ session' = session /\ chunk' = chunk
      /\ \A u \in Threads : hook[u] \in Nat /\ hook'[u] \in Nat
  BY StepsMove
<1>2. \A u \in Threads : pc[u] = "blocked" <=> u \in barrier.inside
  BY DEF Inv, InBarrier
<1>4. ASSUME Waiting(o)', Leads(o, hook[o])
      PROVE  slot' = Event(session, o, hook[o]) /\ mine'[o] = slot'
  <2>1. Waiting(o)
    <3>1. CASE pc[o] = "arrive"
      BY <3>1 DEF Waiting
    <3>2. CASE pc[o] = "blocked" /\ barrier'.state = "filling"
      <4>1. o \in barrier.inside /\ pc[t] # "blocked"
        BY <1>1, <1>2, <3>2 DEF Inv, InBarrier, Threads
      <4>2. ~Arrive(t) /\ ~Wake(t) /\ ~Trip(t)
        BY <3>2, <4>1 DEF Arrive, Wake, Trip, FreshBarrier, Inv, InBarrier
      <4>3. HookPart(t)
        BY <4>2 DEF Steps
      <4>4. barrier' = barrier
        BY <4>3 DEF HookPart, Dispatch, HookFires, NotifyDispatched, Rendezvous, CreateEvent,
                    Through, EventWait, sync
      <4>. QED BY <3>2, <4>4 DEF Waiting
    <3>. QED BY <1>1, <1>4, <3>1, <3>2 DEF Waiting
  <2>2. slot = Event(session, o, hook[o]) /\ mine[o] = slot
    BY <1>1, <1>4, <2>1 DEF Posted
  <2>3. ~CreateEvent(t)
    <3>1. SUFFICES ASSUME CreateEvent(t) PROVE FALSE
      OBVIOUS
    <3>2. pc[t] = "create" /\ NextRole(t, hook[t]) = "COMM"
      BY <3>1 DEF CreateEvent, Hooks
    <3>3. barrier'.state = barrier.state
      BY <3>1 DEF CreateEvent
    <3>4. ~Behind(t) /\ ~Behind(o) /\ pc[t] \in Inside /\ pc[o] \in Inside
      BY <2>1, <3>2 DEF Behind, Waiting, Inside
    <3>5. hook[t] = Partner(o, hook[o])
      BY <1>1, <3>4, AtPartner
    <3>. QED BY <1>1, <1>4, <3>2, <3>5 DEF Leads
  <2>4. slot' = slot /\ mine'[o] = mine[o]
    BY <1>1, <2>3, EventSteps DEF NotifyDispatched
  <2>. QED BY <2>2, <2>4
<1>5. ASSUME Waiting(t)', Leads(t, hook'[t])
      PROVE  slot' = Event(session, t, hook'[t]) /\ mine'[t] = slot'
  <2>1. pc'[t] \in {"arrive", "blocked"} /\ hook'[t] = hook[t]
    BY <1>1, <1>5 DEF Waiting
  <2>2. CreateEvent(t) \/ Rendezvous(t) \/ Arrive(t)
    <3>1. ~Trip(t) /\ ~Wake(t)
      BY <2>1 DEF Trip, Wake, Go, Inv, Types
    <3>2. ~Dispatch(t) /\ ~Through(t) /\ ~EventWait(t)
      BY <2>1 DEF Dispatch, Through, EventWait, Pass, Go, Inv, Types
    <3>3. ~HookFires(t) /\ ~NotifyDispatched(t)
      BY <2>1 DEF HookFires, NotifyDispatched, Pass, Go, Inv, Types
    <3>. QED BY <3>1, <3>2, <3>3 DEF Steps, HookPart
  <2>3. CASE CreateEvent(t)
    BY <2>1, <2>3 DEF CreateEvent
  <2>4. CASE Rendezvous(t)
    <3>1. NextRole(t, hook[t]) # "COMM"
      BY <2>1, <2>4 DEF Rendezvous, Pass, Go, Inv, Types
    <3>. QED BY <1>5, <2>1, <3>1 DEF Leads
  <2>5. CASE Arrive(t)
    <3>1. pc[t] = "arrive" /\ UNCHANGED << slot, mine >>
      BY <2>5 DEF Arrive
    <3>. QED BY <1>5, <2>1, <3>1 DEF Posted, Waiting
  <2>. QED BY <2>2, <2>3, <2>4, <2>5
<1>6. ASSUME NEW p \in Threads, Waiting(p)', Leads(p, hook[p])'
      PROVE  (slot = Event(session, p, hook[p]) /\ mine[p] = slot)'
  <2>1. Leads(p, hook'[p])
    BY <1>1, <1>6, LeadsPrime
  <2>. QED BY <1>1, <1>4, <1>5, <1>6, <2>1 DEF Event
<1>. QED BY <1>6 DEF Posted

\* The trip finds the event of the COMM side in the slot, not yet set.
LEMMA OwedTrip ==
    ASSUME Inv, Hooks, Counts, Named, Dated, Posted, NEW t \in Threads, Trip(t),
           Met(t) = Met(Other(t)), NEW p \in Threads, NEW k \in Nat, Owes(p, k)', Leads(p, k)
    PROVE  /\ hadComm'
           /\ slot = Event(session, p, k) /\ mine[p] = slot /\ slot \notin isSet
           /\ Behind(Other(p))' /\ hook[Other(p)] = Partner(p, k)
           /\ pc'[Other(p)] # "wait"
           /\ UNCHANGED << slot, mine, isSet, hook >>
<1> DEFINE q == Other(p)
<1>1. /\ Other(t) \in Threads /\ Other(t) # t /\ Other(Other(t)) = t
      /\ \A u \in Threads : u = t \/ u = Other(t)
      /\ pc'[Other(t)] = pc[Other(t)]
  BY StepsMove DEF Steps
<1>2. /\ pc[t] = "arrive" /\ pc'[t] = "through"
      /\ barrier.state = "filling" /\ barrier.inside = {Other(t)}
      /\ barrier'.state = "draining"
      /\ UNCHANGED << slot, mine, isSet, hook, chunk >> /\ hadComm' = (pending > 0)
  <2>1. pc'[t] = "through"
    BY DEF Trip, Go, Inv, Types
  <2>2. barrier'.state = "draining"
    BY DEF Trip, Inv, InBarrier
  <2>3. /\ pc[t] = "arrive" /\ barrier.state = "filling" /\ barrier.inside = {Other(t)}
        /\ UNCHANGED << slot, mine, isSet, hook, chunk >>
    BY DEF Trip, Go
  <2>4. hadComm' = (pending > 0)
    BY Zenon DEF Trip
  <2>. QED BY <2>1, <2>2, <2>3, <2>4
<1>3. pc[Other(t)] = "blocked"
  BY <1>1, <1>2 DEF Inv, InBarrier
<1>4. \A u \in Threads : Waiting(u) /\ ~Behind(u) /\ pc[u] \in Inside
  BY <1>1, <1>2, <1>3 DEF Waiting, Behind, Inside
<1>5. \A u \in Threads : pc'[u] # "op" /\ Behind(u)' /\ pc'[u] # "wait"
  BY <1>1, <1>2, <1>3 DEF Behind
<1>6. k = hook[p]
  BY <1>2, <1>5 DEF Owes
<1>7. q \in Threads /\ Other(q) = p
  BY DEF Other, Threads
<1>8. slot = Event(session, p, k) /\ mine[p] = slot
  BY <1>4, <1>6 DEF Posted
<1>9. Met(p) = Met(q)
  BY <1>1
<1>10. hook[q] = Partner(p, k)
  BY <1>4, <1>6, <1>7, <1>9, AtPartner
<1>11. slot \notin isSet
  <2>1. SUFFICES ASSUME slot \in isSet PROVE FALSE
    OBVIOUS
  <2>2. PICK u \in Threads, n \in Nat : slot = Event(session, u, n) /\ n < hook[u]
    BY <2>1 DEF Dated
  <2>3. Event(session, p, k) = Event(session, u, n)
    BY <1>8, <2>2
  <2>4. u = p /\ n = k
    BY <2>3 DEF Event
  <2>. QED BY <1>6, <2>2, <2>4
<1>12. hadComm'
  <2>1. NextRole(p, hook[p]) = "COMM"
    BY <1>6 DEF Leads
  <2>2. Awaited(p)
    BY <1>4, <2>1 DEF Awaited, Waiting
  <2>3. pending = Load(p) + Load(q)
    BY <1>2 DEF Counts
  <2>4. Load(p) = 1 /\ Load(q) \in {0, 1}
    BY <2>2 DEF Load
  <2>5. pending > 0
    BY <2>3, <2>4
  <2>6. (pending > 0) = TRUE
    BY <2>5, Zenon
  <2>. QED BY <1>2, <2>6
<1>. QED BY <1>2, <1>5, <1>7, <1>8, <1>10, <1>11, <1>12

\* What is owed behind a step other than the trip was owed before it.
LEMMA OwesBefore ==
    ASSUME Inv, Hooks, Active, NEW t \in Threads, Steps(t), ~Trip(t),
           NEW p \in Threads, NEW k \in Nat, Owes(p, k)', Leads(p, k)
    PROVE  Owes(p, k)
<1>1. /\ Other(t) \in Threads /\ Other(t) # t /\ \A u \in Threads : u = t \/ u = Other(t)
      /\ pc'[Other(t)] = pc[Other(t)] /\ hook'[Other(t)] = hook[Other(t)]
      /\ \A u \in Threads : hook[u] \in Nat /\ hook'[u] \in Nat
  BY StepsMove
<1>2. barrier'.state = "draining" => barrier' = barrier
  BY DEF Steps, HookPart, Dispatch, HookFires, NotifyDispatched, Rendezvous, CreateEvent,
         Through, EventWait, Arrive, Wake, FreshBarrier, sync, Inv, InBarrier
<1>3. CASE p = Other(t)
  BY <1>1, <1>2, <1>3 DEF Owes, Behind
<1>4. CASE p = t
  <2>1. CASE Wake(t)
    <3>1. Behind(t) /\ pc'[t] = "through" /\ hook' = hook
      BY <2>1 DEF Wake, Go, Behind, Inv, Types
    <3>. QED BY <1>4, <3>1 DEF Owes
  <2>2. CASE Through(t) \/ EventWait(t)
    <3>1. /\ pc[t] \in {"through", "wait"}
          /\ \/ hook' = hook /\ pc'[t] = "wait"
             \/ hook'[t] = hook[t] + 1 /\ pc'[t] = "op"
      BY <2>2 DEF Through, EventWait, Pass, Go, Inv, Types, Hooks
    <3>2. k = hook[t]
      BY <1>1, <1>4, <3>1 DEF Owes, Behind
    <3>. QED BY <1>4, <3>1, <3>2 DEF Owes, Behind
  <2>3. CASE HookFires(t) \/ NotifyDispatched(t)
    <3>1. /\ pc[t] \in {"hook", "notify"} /\ hook[t] < HookCount(t)
          /\ \/ pc'[t] \in {"notify", "meet"}
             \/ /\ hook'[t] = hook[t] + 1 /\ pc'[t] = "op"
                /\ HookName(t, hook[t]) = "D_LAST"
      <4>1. CASE HookFires(t)
        BY <4>1 DEF HookFires, Pass, Go, Active, Inv, Types, Hooks, Running
      <4>2. CASE NotifyDispatched(t)
        BY <4>2 DEF NotifyDispatched, Pass, Go, Inv, Types, Hooks, Running
      <4>. QED BY <2>3, <4>1, <4>2
    <3>2. k = hook[t] /\ HookName(t, hook[t]) = "D_LAST"
      BY <1>1, <1>4, <3>1 DEF Owes, Behind
    <3>3. Meets(t, hook[t])
      BY <1>4, <3>2 DEF Leads
    <3>. QED BY <3>1, <3>2, <3>3, MeetsNamed
  <2>4. CASE Dispatch(t) \/ Rendezvous(t) \/ CreateEvent(t)
    <3>1. pc'[t] \in {"hook", "create", "arrive"}
      BY <2>4 DEF Dispatch, Rendezvous, CreateEvent, Go, Inv, Types
    <3>. QED BY <1>4, <3>1 DEF Owes, Behind
  <2>5. CASE Arrive(t)
    <3>1. pc'[t] = "blocked" /\ barrier'.state = "filling"
      BY <2>5 DEF Arrive, Go, FreshBarrier, Inv, Types
    <3>. QED BY <1>4, <3>1 DEF Owes, Behind
  <2>. QED BY <2>1, <2>2, <2>3, <2>4, <2>5 DEF Steps, HookPart
<1>. QED BY <1>1, <1>3, <1>4

\* Until the operation is dispatched its event is not set, so the COMPUTE side
\* stays between the trip and its return.
LEMMA OwedStay ==
    ASSUME Inv, Hooks, PerThread, Owed, NEW t \in Threads, Steps(t), ~Trip(t),
           NEW p \in Threads, NEW k \in Nat, Owes(p, k), Owes(p, k)', Leads(p, k)
    PROVE  /\ hadComm'
           /\ slot = Event(session, p, k) /\ mine[p] = slot /\ slot \notin isSet
           /\ Behind(Other(p))' /\ hook'[Other(p)] = Partner(p, k)
           /\ pc'[Other(p)] = "wait" => seen'[Other(p)] = slot
           /\ UNCHANGED << slot, mine, isSet >>
<1> DEFINE q == Other(p)
<1>. seen = [u \in Threads |-> seen[u]]
  BY DEF PerThread
<1>1. /\ q \in Threads /\ q # p /\ Other(q) = p /\ \A u \in Threads : u = p \/ u = q
  BY DEF Other, Threads
<1>2. /\ hadComm
      /\ slot = Event(session, p, k) /\ mine[p] = slot /\ slot \notin isSet
      /\ Behind(q) /\ hook[q] = Partner(p, k)
      /\ pc[q] = "wait" => seen[q] = slot
  BY DEF Owed
<1>3. pc[t] \in {"op", "blocked", "through", "wait"}
  BY <1>1, <1>2 DEF Owes, Behind
<1>4. Dispatch(t) \/ Wake(t) \/ Through(t) \/ EventWait(t)
  BY <1>3 DEF Steps, HookPart, HookFires, NotifyDispatched, Rendezvous, CreateEvent, Arrive
<1>5. UNCHANGED << slot, mine, isSet, hadComm >>
  BY <1>4 DEF Dispatch, Wake, Through, EventWait, sync
<1>6. CASE t = p
  <2>1. pc'[q] = pc[q] /\ hook'[q] = hook[q]
    BY <1>1, <1>6, StepsMove
  <2>2. Behind(q)'
    <3>1. CASE Wake(t)
      <4>1. pc[q] # "blocked"
        BY <1>1, <1>6, <3>1 DEF Wake, Inv, InBarrier, Threads
      <4>. QED BY <1>2, <2>1, <4>1 DEF Behind
    <3>2. CASE ~Wake(t)
      <4>1. barrier' = barrier
        BY <1>4, <3>2 DEF Dispatch, Through, EventWait, sync
      <4>. QED BY <1>2, <2>1, <4>1 DEF Behind
    <3>. QED BY <3>1, <3>2
  <2>3. seen'[q] = seen[q]
    BY <1>1, <1>4, <1>6 DEF Dispatch, Wake, Through, EventWait, sync
  <2>. QED BY <1>2, <1>5, <2>1, <2>2, <2>3
<1>7. CASE t = q
  <2>1. CASE Wake(t)
    BY <1>2, <1>5, <1>7, <2>1 DEF Wake, Go, Behind, Inv, Types
  <2>2. CASE Through(t)
    <3>1. NextRole(t, hook[t]) = "COMPUTE"
      BY <1>2, <1>7 DEF Leads
    <3>2. pc'[t] = "wait" /\ hook' = hook /\ seen'[t] = slot
      BY <1>2, <2>2, <3>1 DEF Through, Go, Inv, Types
    <3>. QED BY <1>2, <1>5, <1>7, <3>2 DEF Behind
  <2>3. CASE EventWait(t)
    BY <1>2, <1>7, <2>3 DEF EventWait
  <2>4. CASE Dispatch(t)
    BY <1>2, <1>7, <2>4 DEF Dispatch, Behind
  <2>. QED BY <1>4, <2>1, <2>2, <2>3, <2>4
<1>. QED BY <1>1, <1>6, <1>7

LEMMA OwedNext ==
    ASSUME Inv, Hooks, Counts, Named, Active, PerThread, Dated, Posted, Owed,
           NEW t \in Threads, Steps(t), Met(t) = Met(Other(t))
    PROVE  Owed'
<1>1. chunk' = chunk /\ session' = session
  BY StepsMove
<1>2. SUFFICES ASSUME NEW p \in Threads, NEW k \in Nat, Owes(p, k)', Leads(p, k)'
               PROVE  (/\ hadComm
                       /\ slot = Event(session, p, k) /\ mine[p] = slot /\ slot \notin isSet
                       /\ Behind(Other(p)) /\ hook[Other(p)] = Partner(p, k)
                       /\ pc[Other(p)] = "wait" => seen[Other(p)] = slot)'
  BY DEF Owed
<1>3. Leads(p, k) /\ Partner(p, k)' = Partner(p, k)
  BY <1>1, <1>2, LeadsStay
<1>4. Event(session, p, k)' = Event(session, p, k)
  BY <1>1 DEF Event
<1>5. CASE Trip(t)
  BY <1>2, <1>3, <1>4, <1>5, OwedTrip
<1>6. CASE ~Trip(t)
  BY <1>2, <1>3, <1>4, <1>6, OwesBefore, OwedStay
<1>. QED BY <1>5, <1>6

-----------------------------------------------------------------------------
LEMMA LeadingThread ==
    ASSUME Inv, Hooks, Counts, Meetings, Leading, NEW t \in Threads, ThreadStep(t)
    PROVE  Leading'
<1>1. Ended' /\ PerThread' /\ pc'["fwd"] # "start"
  BY EndedNext, PerThreadNext, NotStart DEF Leading
<1>2. ASSUME BothRun' PROVE Dated' /\ Posted' /\ Owed'
  <2>1. /\ HookPart(t) \/ Arrive(t) \/ Trip(t) \/ Wake(t) \/ Broken(t)
        /\ pc[t] \in Running
    BY <1>2, StillRun DEF BothRun
  <2>2. /\ Other(t) \in Threads /\ pc'[Other(t)] = pc[Other(t)]
        /\ \A u \in Threads : u = t \/ u = Other(t)
    <3>1. PICK x \in Places : pc' = [pc EXCEPT ![t] = x]
      BY ThreadMoves
    <3>. QED BY <3>1, OtherStays DEF Inv
  <2>3. BothRun
    BY <1>2, <2>1, <2>2 DEF BothRun
  <2>4. Active /\ barrier.state # "broken" /\ Met(t) = Met(Other(t))
    BY <2>3 DEF Meetings, Threads, Other
  <2>5. Steps(t)
    BY <2>1, <2>4 DEF Steps, Broken
  <2>6. PerThread /\ Dated /\ Posted /\ Owed /\ Named
    BY <2>3 DEF Leading, Meetings
  <2>. QED BY <2>4, <2>5, <2>6, DatedNext, PostedNext, OwedNext
<1>. QED BY <1>1, <1>2 DEF Leading

\* A session starts without events.
LEMMA LeadingSession ==
    ASSUME Inv, Hooks, Meetings, Leading, Enable \/ StartBackward \/ StartFails
    PROVE  Leading'
<1>1. CASE Enable
  <2>1. pc'["fwd"] = "start" /\ pc'["bwd"] = "done"
    BY <1>1 DEF Enable, Inv, Types, Phases, Joined, Threads
  <2>2. isSet' = {} /\ mine' = [t \in Threads |-> NoEvent] /\ seen' = seen
    BY <1>1 DEF Enable
  <2>3. PerThread'
    BY <2>2 DEF PerThread, Leading
  <2>. QED BY <2>1, <2>2, <2>3 DEF Leading, Ended, BothRun, Running, Threads, Other
<1>2. CASE StartBackward
  <2>1. /\ pc["fwd"] = "start" /\ pc' = [t \in Threads |-> "op"]
        /\ UNCHANGED << session, mine, seen, isSet, hook >>
    BY <1>2 DEF StartBackward, sync
  <2>2. isSet' = {} /\ mine' = [t \in Threads |-> NoEvent]
    BY <2>1 DEF Leading
  <2>3. PerThread' /\ Ended' /\ pc'["fwd"] # "start"
    BY <2>1 DEF PerThread, Leading, Ended, Running, Threads, Other
  <2>4. Dated'
    BY <2>2 DEF Dated
  <2>5. Posted'
    BY <2>1 DEF Posted, Waiting
  <2>6. \A p \in Threads : hook'[p] = 0
    BY <1>2 DEF StartBackward, Meetings
  <2>7. Owed'
    BY <2>1, <2>6 DEF Owed, Owes, Behind
  <2>. QED BY <2>3, <2>4, <2>5, <2>7 DEF Leading
<1>3. CASE StartFails
  <2>1. pc'["fwd"] = "calls" /\ pc'["bwd"] = "done"
    BY <1>3 DEF StartFails, Inv, Types, Phases, Joined, Threads
  <2>2. UNCHANGED << mine, seen >>
    BY <1>3 DEF StartFails, sync
  <2>3. PerThread'
    BY <2>2 DEF PerThread, Leading
  <2>. QED BY <2>1, <2>3 DEF Leading, Ended, BothRun, Running, Threads, Other
<1>. QED BY <1>1, <1>2, <1>3

\* The account of the events is kept by every step, next to the other three.
THEOREM LeadingInvariant == Spec => []Leading
<1>1. Init => Leading
  BY DEF Init, Leading, Ended, PerThread, BothRun, Running, Threads, Other
<1>2. Inv /\ Hooks /\ Counts /\ Meetings /\ Leading /\ [Next]_vars => Leading'
  <2> SUFFICES ASSUME Inv, Hooks, Counts, Meetings, Leading, [Next]_vars PROVE Leading'
    OBVIOUS
  <2>1. CASE Enable \/ StartBackward \/ StartFails
    BY <2>1, LeadingSession
  <2>2. ASSUME NEW t \in Threads, ThreadStep(t) PROVE Leading'
    BY <2>2, LeadingThread
  <2>3. CASE Stop \/ UNCHANGED vars
    <3>1. UNCHANGED << session, chunk, pc, hook, raised, enabled, departed, barrier, slot, mine,
                       isSet, pending, hadComm, seen >>
      BY <2>3 DEF Stop, vars, progress, sync
    <3>2. Ended'
      BY <3>1 DEF Leading, Ended, HookCount
    <3>3. PerThread'
      BY <3>1 DEF Leading, PerThread
    <3>4. BothRun' => Dated' /\ Posted' /\ Owed'
      <4>1. SUFFICES ASSUME BothRun PROVE Dated' /\ Posted' /\ Owed'
        BY <3>1 DEF BothRun
      <4>2. Dated /\ Posted /\ Owed
        BY <4>1 DEF Leading
      <4>3. Dated'
        BY <3>1, <4>2 DEF Dated, Event
      <4>4. \A p \in Threads : /\ Behind(p)' <=> Behind(p)
                               /\ Waiting(p)' <=> Waiting(p)
                               /\ Leads(p, hook[p])' <=> Leads(p, hook[p])
        BY <3>1, LeadsPrime DEF Behind, Waiting
      <4>5. Posted'
        BY <3>1, <4>2, <4>4 DEF Posted, Event
      <4>6. \A p \in Threads : \A k \in Nat : /\ Leads(p, k)' <=> Leads(p, k)
                                              /\ Partner(p, k)' = Partner(p, k)
                                              /\ Other(p) \in Threads
        BY <3>1, LeadsStay DEF Other, Threads
      <4>7. Owed'
        BY <3>1, <4>2, <4>4, <4>6 DEF Owed, Owes, Event
      <4>. QED BY <4>3, <4>5, <4>7
    <3>. QED BY <3>1, <3>2, <3>3, <3>4 DEF Leading
  <2>. QED BY <2>1, <2>2, <2>3 DEF Next
<1>. QED BY <1>1, <1>2, Counted, MeetingsInvariant, PTL DEF Spec

\* The COMPUTE side of a rendezvous only comes back to its caller once the COMM
\* side has dispatched its operation, however many layers the chunks have.
THEOREM CommAlwaysFirst == Spec => []CommFirst
<1>1. Inv /\ Hooks /\ Meetings /\ Leading => CommFirst
  <2> SUFFICES ASSUME Inv, Hooks, Meetings, Leading,
                      NEW t \in Threads, pc[t] = "op", hook[t] > 0,
                      Meets(t, hook[t] - 1), NextRole(t, hook[t] - 1) = "COMPUTE",
                      NextRole(Other(t), Partner(t, hook[t] - 1)) = "COMM", raised = {}
               PROVE  Dispatched(Other(t), Partner(t, hook[t] - 1))
    BY DEF CommFirst
  <2> DEFINE p == Other(t)
             k == hook[t] - 1
             n == Partner(t, k)
  <2>1. p \in Threads /\ Other(p) = t /\ p # t /\ \A u \in Threads : u = t \/ u = p
    BY DEF Other, Threads
  <2>2. ASSUME NEW u \in Threads
        PROVE  /\ hook[u] \in Nat /\ HookCount(u) \in Nat /\ chunk[u].tagged \in BOOLEAN
               /\ FirstMeeting(u) \in {0, 1} /\ LastMeeting(u) \in Int
               /\ LastMeeting(u) <= HookCount(u) - 1
    BY <2>2, Tags DEF FirstMeeting, LastMeeting
  <2>3. /\ k \in Nat /\ n \in Int /\ n >= FirstMeeting(p) /\ n <= LastMeeting(p)
        /\ k >= FirstMeeting(t) /\ k <= LastMeeting(t)
        /\ n - FirstMeeting(p) = k - FirstMeeting(t)
    BY <2>1, <2>2 DEF Meets, Partner
  <2>4. n \in Nat /\ Partner(p, n) = k
    BY <2>1, <2>2, <2>3 DEF Partner
  <2>5. Leads(p, n)
    BY <2>1, <2>3, <2>4 DEF Leads, Meets
  <2>6. CASE pc[p] \notin Running
    <3>1. hook[p] = HookCount(p)
      BY <2>1, <2>6 DEF Leading, Ended, Running
    <3>2. pc[p] # "op"
      BY <2>6 DEF Running
    <3>. QED BY <2>1, <2>2, <2>3, <3>1, <3>2 DEF Dispatched
  <2>7. CASE pc[p] \in Running
    <3>1. BothRun
      BY <2>1, <2>7 DEF BothRun, Running
    <3>2. ~Owes(p, n)
      <4>1. SUFFICES ASSUME Owes(p, n) PROVE FALSE
        OBVIOUS
      <4>2. Behind(t)
        BY <2>1, <2>4, <2>5, <3>1, <4>1 DEF Leading, Owed
      <4>. QED BY <4>2 DEF Behind
    <3>3. At(t) = k + 1
      BY <2>2 DEF At, Behind
    <3>4. MetAt(t, k + 1) = k + 1 - FirstMeeting(t)
      <4>1. k + 1 > 0 /\ k + 1 <= LastMeeting(t) + 1 /\ k >= FirstMeeting(t)
        BY <2>2, <2>3
      <4>2. CASE t = "fwd"
        BY <2>2, <2>3, <4>1, <4>2 DEF MetAt, FirstMeeting, LastMeeting
      <4>3. CASE t = "bwd"
        BY <2>2, <2>3, <4>1, <4>3 DEF MetAt, FirstMeeting, LastMeeting
      <4>. QED BY <4>2, <4>3 DEF Threads
    <3>5. Met(p) = n + 1 - FirstMeeting(p)
      <4>1. Met(t) = Met(p)
        BY <3>1 DEF Meetings, Threads, Other
      <4>. QED BY <2>1, <2>2, <2>3, <3>3, <3>4, <4>1 DEF Met
    <3>6. At(p) \in Nat /\ (Behind(p) => At(p) = hook[p] + 1) /\ (~Behind(p) => At(p) = hook[p])
      BY <2>1, <2>2 DEF At
    <3>7. At(p) >= n + 1
      <4>1. CASE p = "fwd"
        BY <2>1, <2>2, <2>3, <3>5, <3>6, <4>1 DEF Met, MetAt, FirstMeeting
      <4>2. CASE p = "bwd"
        BY <2>1, <2>2, <2>3, <3>5, <3>6, <4>2 DEF Met, MetAt, FirstMeeting
      <4>. QED BY <2>1, <4>1, <4>2 DEF Threads
    <3>8. hook[p] > n \/ (hook[p] = n /\ Behind(p))
      BY <2>1, <2>2, <2>4, <3>6, <3>7
    <3>9. hook[p] # n \/ ~Behind(p)
      BY <3>2 DEF Owes
    <3>10. hook[p] > n /\ (hook[p] = n + 1 => pc[p] # "op")
      BY <2>1, <2>2, <2>4, <3>2, <3>8, <3>9 DEF Owes
    <3>. QED BY <2>1, <2>2, <2>4, <3>10 DEF Dispatched
  <2>. QED BY <2>6, <2>7
<1>. QED BY <1>1, Counted, MeetingsInvariant, LeadingInvariant, PTL
=============================================================================
