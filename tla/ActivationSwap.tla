--------------------------- MODULE ActivationSwap ---------------------------
(***************************************************************************)
(* Activation swap of one process (core/activation_memory/swap.py): saved  *)
(* tensors are copied to pinned host buffers after a forward and back      *)
(* before the backward that reads them.  The host only enqueues work; two  *)
(* device streams, `compute' and `copy', execute it later, each in order,  *)
(* and nothing but events orders one stream against the other.             *)
(*                                                                         *)
(* A configuration is a record:                                            *)
(*                                                                         *)
(*   calls     what the host calls, in order, in every iteration           *)
(*   saved     group -> the tensors its forward saves (TensorsOf)          *)
(*   explicit  a PinnedMemoryPool is given (cpu_pool); otherwise the pool  *)
(*             of the module and the allocator of torch                    *)
(*   buffers   the host buffers there are, as numbers                      *)
(*   session   the groups belong to a PipelineSwapSession, closed at the   *)
(*             end of an iteration; otherwise to a chain of layers         *)
(*   runs      iterations                                                  *)
(*   faults    how many calls or copies may raise                          *)
(*                                                                         *)
(* A saved tensor is [store, view, pack, kept]: its storage, its offset    *)
(* and strides, the dtype bucket it may be packed into (0: none), and      *)
(* whether its storage belongs to somebody else as well (an output, a      *)
(* parameter, a boundary tensor: protect_alias_tensors).                   *)
(***************************************************************************)
EXTENDS Integers, Sequences, FiniteSets, SequencesExt

CONSTANT Configs

\* A group is offloaded once before it is loaded again, and it is loaded
\* before its backward releases it: the order of the hooks of a chain, and of
\* the swap steps of a pipeline.
Lent(calls, g, pos) ==
    \E k \in 1 .. pos - 1 :
        /\ calls[k].do = "launchOffload" /\ calls[k].g = g
        /\ \A j \in k + 1 .. pos - 1 : ~ (calls[j].do = "waitLoad" /\ calls[j].g = g)
ASSUME ConfigAssumption ==
    \A c \in Configs :
        /\ c.calls \in Seq(ToSet(c.calls))
        /\ \A g \in DOMAIN c.saved : c.saved[g] \in Seq(ToSet(c.saved[g]))
        /\ IsFiniteSet(c.buffers) /\ c.buffers \subseteq Nat \ {0}
        /\ \A k \in DOMAIN c.calls, g \in DOMAIN c.saved :
              /\ c.calls[k].do \in {"launchOffload", "releaseStorage"} /\ c.calls[k].g = g
              => ~Lent(c.calls, g, k)
        /\ \A g \in DOMAIN c.saved : ~Lent(c.calls, g, Len(c.calls) + 1)

VARIABLES cfg,      \* the configuration
          it, pos,  \* iteration and next call of the host
          phase,    \* "run", "closing" or "over"
          faults,   \* faults so far
          group,    \* group -> SwapGroup
          free,     \* buffers any acquire may take
          pending,  \* << buffer, event >>: to be taken when the event has passed
          compute, copy,  \* the streams: operations not executed yet
          mem,      \* storages that hold their data on the device
          alloc,    \* storages that have device memory
          stage,    \* storages whose data is in a staging buffer
          host      \* buffer -> the storages whose data it holds
hostVars == << it, pos, phase, faults >>
deviceVars == << mem, alloc, stage, host >>
vars == << cfg, hostVars, group, free, pending, compute, copy, deviceVars >>

Groups == DOMAIN cfg.saved
NoEvent == << 0, 0, 0 >>
NoBuffer == 0

\* An event is named by the call that created it.
Event(k) == << it, pos, k >>
\* A storage is created anew in every iteration.
Store(s) == << it, s >>

Op(op, on, buffer, event) == [op |-> op, on |-> on, buffer |-> buffer, event |-> event]
OnStores(op, on) == Op(op, on, NoBuffer, NoEvent)
Record(event) == Op("record", {}, NoBuffer, event)
WaitFor(event) == Op("wait", {}, NoBuffer, event)

\* Recorded and not reached by its stream.  An event that was created and
\* never recorded counts as passed.
Outstanding(event) ==
    \E op \in ToSet(compute) \cup ToSet(copy) : op.op = "record" /\ op.event = event

EmptyGroup == [live |-> FALSE, tensors |-> <<>>, off |-> NoEvent, load |-> NoEvent,
               bulk |-> {}]

Init ==
    /\ cfg \in Configs
    /\ it = 1 /\ pos = 1 /\ phase = "run" /\ faults = 0
    /\ group = [g \in Groups |-> EmptyGroup]
    /\ free = cfg.buffers
    /\ pending = {}
    /\ compute = <<>> /\ copy = <<>>
    /\ mem = {} /\ alloc = {} /\ stage = {}
    /\ host = [b \in cfg.buffers |-> {}]

-----------------------------------------------------------------------------
(* What the host calls. *)

On(do, g) == [do |-> do, g |-> g]

\* The hooks of set_forward_prefetch_layer on the layers 1 .. n of a chain;
\* the last group is not swapped.
ForwardUnbounded(i, n) ==  \* mutant: nobody waits for the layer in front
    << On("forward", i) >> \o (IF i < n THEN << On("launchOffload", i) >> ELSE <<>>)
ForwardHooks(i, n) ==
    << On("forward", i) >>
    \o (IF i < n THEN << On("launchOffload", i) >> ELSE <<>>)
    \o (IF i > 1 THEN << On("waitOffload", i - 1) >> ELSE <<>>)
BackwardHooks(i, n) ==
    (IF i > 1 THEN << On("launchLoad", i - 1) >> ELSE <<>>)
    \o (IF i < n THEN << On("waitLoad", i) >> ELSE <<>>)
    \o << On("releaseStorage", i), On("backward", i) >>
ChainCalls(n) == FlattenSeq([i \in 1 .. n |-> ForwardHooks(i, n)]
                            \o [i \in 1 .. n |-> BackwardHooks(n + 1 - i, n)])

\* The order of one rank under a session: the swap steps and the forward and
\* backward leaves of the chunks it manages; a dw reads the activations again.
GroupOf(step) == 100 * step.stage + step.micro + 1
SessionCalls(order) ==
    LET managed == {<< step.stage, step.micro >> :
                      step \in {s \in ToSet(order) : s.type = "SWAP_LAUNCH_OFFLOAD"}}
        does == [FWD |-> "forward", BWD |-> "backward", BWD_INPUT |-> "backward",
                 BWD_WEIGHT |-> "backward", SWAP_LAUNCH_OFFLOAD |-> "launchOffload",
                 SWAP_WAIT_OFFLOAD |-> "waitOffload", SWAP_LAUNCH_LOAD |-> "launchLoad",
                 SWAP_WAIT_LOAD |-> "waitLoad"]
        leaves(step) == SelectSeq(IF step.type = "OVERLAP_B_F" THEN step.sub ELSE << step >>,
                            LAMBDA s : /\ s.type \in DOMAIN does
                                       /\ << s.stage, s.micro >> \in managed)
        calls(step) == [k \in DOMAIN leaves(step) |->
                          On(does[leaves(step)[k].type], GroupOf(leaves(step)[k]))]
    IN  FlattenSeq([k \in DOMAIN order |-> calls(order[k])])

-----------------------------------------------------------------------------
(* SwapTensor. *)

\* Neither copied nor freed: kept on the device, or registered twice.
Stays(t) == t.kept \/ t.dup
Moves(tensors, state) ==
    {k \in DOMAIN tensors : ~Stays(tensors[k]) /\ tensors[k].state = state}
StoresAt(tensors, ks) == {tensors[k].store : k \in ks}
Become(tensors, ks, state) ==
    [k \in DOMAIN tensors |-> IF k \in ks THEN [tensors[k] EXCEPT !.state = state]
                              ELSE tensors[k]]

\* SwapGroup.add: the wrappers of one forward, duplicates marked.
Register(tensors) ==
    [k \in DOMAIN tensors |->
        [store |-> Store(tensors[k].store), pack |-> tensors[k].pack,
         kept |-> tensors[k].kept, state |-> "device", buffer |-> NoBuffer,
         dup |-> \E j \in 1 .. k - 1 : /\ tensors[j].store = tensors[k].store
                                       /\ tensors[j].view = tensors[k].view]]

InOrder(numbers) ==
    [i \in 1 .. Cardinality(numbers) |->
        CHOOSE x \in numbers : Cardinality({y \in numbers : y < x}) = i - 1]

\* _collect_packable_tensors: the buckets of two tensors or more, in order.
Buckets(tensors) ==
    LET ready(b) == {k \in Moves(tensors, "device") : tensors[k].pack = b}
        full == InOrder({b \in 1 .. 2 : Cardinality(ready(b)) >= 2})
    IN  [i \in DOMAIN full |-> ready(full[i])]

\* One after the other what needs a host buffer: buckets, then single tensors.
Needs(tensors) ==
    LET packed == UNION ToSet(Buckets(tensors))
        singles == InOrder(Moves(tensors, "device") \ packed)
    IN  Buckets(tensors) \o [i \in DOMAIN singles |-> {singles[i]}]
IsBulk(tensors, i) == i <= Len(Buckets(tensors))

-----------------------------------------------------------------------------
(* Host buffers. *)

Usable == free \cup {p[1] : p \in {q \in pending : ~Outstanding(q[2])}}
Obtainable == free \cup {p[1] : p \in pending}
\* Buffers have one size here: which of them is taken makes no difference.
Lowest(n) == SubSeq(InOrder(Usable), 1, n)
\* With an explicit pool the event decides; the legacy pool of bulk buffers
\* takes them back at once.
ReturnBulk(bulk, event) ==
    LET back == {p[2] : p \in bulk}
    IN  IF cfg.explicit /\ event # NoEvent
        THEN [free |-> {}, pending |-> back \X {event}]
        ELSE [free |-> back, pending |-> {}]
\* A single tensor's buffer: the pool, or torch's allocator, which lets the
\* streams that used the buffer pass first.
ReturnSingle(buffers, event) ==
    IF event = NoEvent THEN [free |-> buffers, pending |-> {}]
    ELSE [free |-> {}, pending |-> buffers \X {event}]

SingleBuffers(g) == {t.buffer : t \in ToSet(group[g].tensors)} \ {NoBuffer}
BulkBuffers(g) == {p[2] : p \in group[g].bulk}

-----------------------------------------------------------------------------
(* The calls of the host. *)

Call == cfg.calls[pos]
Running == phase = "run" /\ pos <= Len(cfg.calls)
Calls(do, g) == Running /\ Call.do = do /\ Call.g = g
Return == /\ pos' = pos + 1
          /\ UNCHANGED << cfg, it, phase, faults >>
\* An exception leaves the iteration; what is in the groups stays.
Throw == /\ phase' = "closing"
         /\ UNCHANGED << cfg, it, pos >>

Saved(g) == {Store(t.store) : t \in ToSet(cfg.saved[g])}
\* The groups whose backward is still to come after this call.
Later == {cfg.calls[k].g : k \in {j \in pos + 1 .. Len(cfg.calls) :
                                    cfg.calls[j].do = "backward"}}

\* A forward reads what earlier forwards saved as well, and writes the rest.
Forward(g) ==
    LET seen == UNION {Saved(cfg.calls[k].g) : k \in {j \in 1 .. pos - 1 :
                                                      cfg.calls[j].do = "forward"}}
    IN  /\ Calls("forward", g)
        /\ group' = [group EXCEPT ![g].live = TRUE,
                                  ![g].tensors = @ \o Register(cfg.saved[g])]
        /\ compute' = compute \o << OnStores("read", Saved(g) \cap seen),
                                    OnStores("write", Saved(g) \ seen) >>
        /\ UNCHANGED << free, pending, copy, deviceVars >>
        /\ Return

\* Autograd drops what no later backward reads.
Backward(g) ==
    /\ Calls("backward", g)
    /\ compute' = compute \o << OnStores("read", Saved(g)),
                                OnStores("free", Saved(g) \ UNION {Saved(h) : h \in Later}) >>
    /\ UNCHANGED << group, free, pending, copy, deviceVars >>
    /\ Return

Take(buffers) ==
    /\ free' = free \ buffers
    /\ pending' = {p \in pending : p[1] \notin buffers}
\* What is returned while `taken' is acquired.
Exchange(taken, back) ==
    /\ free' = (free \ taken) \cup back.free
    /\ pending' = {p \in pending : p[1] \notin taken} \cup back.pending

\* The copies behind the first `n' needs, and the group they leave.
Transfers(g, n, taken) ==
    LET tensors == group[g].tensors
    IN  [i \in 1 .. n |-> Op(IF IsBulk(tensors, i) THEN "bulkSave" ELSE "save",
                             StoresAt(tensors, Needs(tensors)[i]), taken[i], NoEvent)]
Offloading(g, n, taken) ==
    LET tensors == group[g].tensors
        needs == Needs(tensors)
        bulk == {i \in 1 .. n : IsBulk(tensors, i)}
        moved == UNION ToSet(Buckets(tensors)) \cup UNION {needs[i] : i \in 1 .. n}
        bufferOf(k) == IF \E i \in 1 .. n \ bulk : needs[i] = {k}
                       THEN taken[CHOOSE i \in 1 .. n \ bulk : needs[i] = {k}]
                       ELSE tensors[k].buffer
    IN  [group[g] EXCEPT
            !.off = Event(2),
            !.bulk = {<< StoresAt(tensors, needs[i]), taken[i] >> : i \in bulk},
            !.tensors = [k \in DOMAIN tensors |->
                            [Become(tensors, moved, "d2h")[k] EXCEPT !.buffer = bufferOf(k)]]]
\* The compute stream packs the buckets; the copy stream starts behind it.
Packing(g) ==
    LET buckets == Buckets(group[g].tensors)
    IN  [i \in DOMAIN buckets |-> OnStores("pack", StoresAt(group[g].tensors, buckets[i]))]
        \o << Record(Event(1)) >>

\* acquire waits for a pending buffer when none is free.
LaunchOffload(g) ==
    LET n == Len(Needs(group[g].tensors))
        taken == Lowest(n)
    IN  /\ Calls("launchOffload", g)
        /\ Cardinality(Usable) >= n
        /\ group' = [group EXCEPT ![g] = Offloading(g, n, taken)]
        /\ compute' = compute \o Packing(g)
        /\ copy' = copy \o << WaitFor(Event(1)) >> \o Transfers(g, n, taken)
                        \o << Record(Event(2)) >>
        /\ Take(ToSet(taken))
        /\ UNCHANGED deviceVars
        /\ Return

StillPublished(g, j, taken) == Offloading(g, j - 1, taken)  \* mutant: given back, kept too
\* A bucket that fails has given back all buffers so far.
AfterFailure(g, j, taken) ==
    LET left == Offloading(g, j - 1, taken)
    IN  IF IsBulk(group[g].tensors, j) THEN [left EXCEPT !.bulk = {}] ELSE left

\* The j-th need raises: the pool is exhausted, the tensor was modified in
\* place, or (own) its copy fails with a buffer in hand.  The event of the
\* group was created, not recorded.
OffloadRaises(g, j, own) ==
    LET tensors == group[g].tensors
        n == IF own THEN j ELSE j - 1
        taken == Lowest(n)
        bulk == IsBulk(tensors, j)
        given == IF bulk THEN ToSet(taken) ELSE ToSet(SubSeq(taken, j, n))
        back == IF bulk THEN ReturnBulk({<< {}, b >> : b \in given}, Event(3))
                ELSE ReturnSingle(given, Event(3))
    IN  /\ \/ /\ cfg.explicit /\ ~own
              /\ Cardinality(Obtainable) = j - 1
              /\ faults' = faults
           \/ /\ faults < cfg.faults
              /\ faults' = faults + 1
        /\ Cardinality(Usable) >= n
        /\ group' = [group EXCEPT ![g] = AfterFailure(g, j, taken)]
        /\ compute' = compute \o Packing(g)
        /\ copy' = copy \o << WaitFor(Event(1)) >> \o Transfers(g, j - 1, taken)
                        \o (IF given = {} THEN <<>> ELSE << Record(Event(3)) >>)
        /\ Exchange(ToSet(taken), back)
        /\ UNCHANGED deviceVars
        /\ Throw

FreeFirst(event, stores) ==  \* mutant: freed before the copy is waited for
    << OnStores("free", stores), WaitFor(event) >>
Freeing(event, stores) == << WaitFor(event), OnStores("free", stores) >>

\* The memory is the compute stream's to reuse from here on; the host goes on.
WaitOffload(g) ==
    LET tensors == group[g].tensors
        moved == Moves(tensors, "d2h")
    IN  /\ Calls("waitOffload", g)
        /\ group[g].off # NoEvent
        /\ compute' = compute \o Freeing(group[g].off, StoresAt(tensors, moved))
        /\ group' = [group EXCEPT ![g].off = NoEvent,
                                  ![g].tensors = Become(tensors, moved, "host")]
        /\ UNCHANGED << free, pending, copy, deviceVars >>
        /\ Return

\* Bulk copies into staging buffers, from there into the original storages,
\* then the single copies.
Loads(g) ==
    LET bulk == SetToSeq(group[g].bulk)
        tensors == group[g].tensors
        singles == InOrder({k \in Moves(tensors, "host") : tensors[k].buffer # NoBuffer})
    IN  [i \in DOMAIN bulk |-> Op("bulkLoad", bulk[i][1], bulk[i][2], NoEvent)]
        \o [i \in DOMAIN bulk |-> OnStores("unpack", bulk[i][1])]
        \o [i \in DOMAIN singles |-> LET t == tensors[singles[i]]
                                     IN  Op("load", {t.store}, t.buffer, NoEvent)]
RestoredLater(g) ==  \* mutant: the copies do not wait for the new memory
    << Record(Event(1)),
       OnStores("alloc", StoresAt(group[g].tensors, Moves(group[g].tensors, "host"))) >>
Restoring(g) ==
    << OnStores("alloc", StoresAt(group[g].tensors, Moves(group[g].tensors, "host"))),
       Record(Event(1)) >>

LaunchLoad(g) ==
    LET tensors == group[g].tensors
    IN  /\ Calls("launchLoad", g)
        /\ compute' = compute \o Restoring(g)
        /\ copy' = copy \o << WaitFor(Event(1)) >> \o Loads(g) \o << Record(Event(2)) >>
        /\ group' = [group EXCEPT
                        ![g].load = Event(2),
                        ![g].tensors = Become(tensors, Moves(tensors, "host"), "h2d")]
        /\ UNCHANGED << free, pending, deviceVars >>
        /\ Return

\* It raises behind its first n copies; the states of the tensors, which
\* nobody reads any more, are left as they were.
LoadRaises(g, n) ==
    /\ faults < cfg.faults
    /\ faults' = faults + 1
    /\ compute' = compute \o Restoring(g)
    /\ copy' = copy \o << WaitFor(Event(1)) >> \o SubSeq(Loads(g), 1, n)
    /\ group' = [group EXCEPT ![g].load = Event(2)]
    /\ UNCHANGED << free, pending, deviceVars >>
    /\ Throw

\* The buffers go back now, although the copies may not have run yet.
WaitLoad(g) ==
    LET event == group[g].load
        singles == ReturnSingle(SingleBuffers(g), event)
        bulk == ReturnBulk(group[g].bulk, event)
    IN  /\ Calls("waitLoad", g)
        /\ event # NoEvent
        /\ compute' = Append(compute, WaitFor(event))
        /\ free' = free \cup singles.free \cup bulk.free
        /\ pending' = pending \cup singles.pending \cup bulk.pending
        /\ group' = [group EXCEPT ![g].load = NoEvent, ![g].bulk = {}, ![g].tensors = <<>>]
        /\ UNCHANGED << copy, deviceVars >>
        /\ Return

\* release_group_storage: the wrappers go, whatever their state.
ReleaseStorage(g) ==
    /\ Calls("releaseStorage", g)
    /\ group' = [group EXCEPT ![g].tensors = <<>>]
    /\ UNCHANGED << free, pending, compute, copy, deviceVars >>
    /\ Return

\* A user's module or a transfer of the pipeline raises instead of the call.
CallRaises ==
    /\ Running
    /\ faults < cfg.faults
    /\ faults' = faults + 1
    /\ UNCHANGED << group, free, pending, compute, copy, deviceVars >>
    /\ Throw

-----------------------------------------------------------------------------
(* The end of an iteration. *)

\* abort_group: wait for the events the group still has, then let go of all
\* it holds.  torch's allocator keeps a buffer of its own back until the copy
\* stream has passed.
Abort(g) ==
    LET singles == ReturnSingle(SingleBuffers(g), IF cfg.explicit THEN NoEvent ELSE Event(3 + g))
        bulk == ReturnBulk(group[g].bulk, NoEvent)
    IN  /\ phase = "closing"
        /\ group[g].live
        /\ ~Outstanding(group[g].off) /\ ~Outstanding(group[g].load)
        /\ free' = free \cup singles.free \cup bulk.free
        /\ pending' = pending \cup singles.pending \cup bulk.pending
        /\ copy' = IF singles.pending = {} THEN copy ELSE Append(copy, Record(Event(3 + g)))
        /\ group' = [group EXCEPT ![g] = EmptyGroup]
        /\ UNCHANGED << cfg, hostVars, compute, deviceVars >>

Closed == \A g \in Groups : ~group[g].live

\* A session closes with every run; a chain of layers lives until its model
\* is discarded, here at the end or after an exception.
EndIteration ==
    /\ phase = "run" /\ pos > Len(cfg.calls)
    /\ IF cfg.session \/ it = cfg.runs
       THEN phase' = "closing" /\ UNCHANGED << it, pos >>
       ELSE phase' = "run" /\ it' = it + 1 /\ pos' = 1
    /\ UNCHANGED << cfg, faults, group, free, pending, compute, copy, deviceVars >>

NextRun ==
    /\ phase = "closing" /\ Closed
    /\ IF cfg.session /\ it < cfg.runs
       THEN phase' = "run" /\ it' = it + 1 /\ pos' = 1
       ELSE phase' = "over" /\ UNCHANGED << it, pos >>
    /\ UNCHANGED << cfg, faults, group, free, pending, compute, copy, deviceVars >>

-----------------------------------------------------------------------------
(* The device. *)

Arriving(op) ==
    CASE op.op = "write" -> op.on
      [] op.op = "load" -> op.on \cap host[op.buffer]
      [] op.op = "unpack" -> op.on \cap stage
      [] OTHER -> {}
Clobbers(op) == op.op \in {"free", "alloc", "load", "unpack"}

Execute(op) ==
    /\ op.op = "wait" => ~Outstanding(op.event)
    /\ mem' = (mem \ IF Clobbers(op) THEN op.on ELSE {}) \cup Arriving(op)
    /\ alloc' = IF op.op = "free" THEN alloc \ op.on
                ELSE IF op.op \in {"write", "alloc"} THEN alloc \cup op.on ELSE alloc
    /\ stage' = IF op.op = "pack" THEN (stage \ op.on) \cup (op.on \cap mem)
                ELSE IF op.op = "bulkLoad" THEN (stage \ op.on) \cup (op.on \cap host[op.buffer])
                ELSE stage
    /\ host' = IF op.op = "save" THEN [host EXCEPT ![op.buffer] = op.on \cap mem]
               ELSE IF op.op = "bulkSave" THEN [host EXCEPT ![op.buffer] = op.on \cap stage]
               ELSE host

ComputeStream ==
    /\ compute # <<>>
    /\ Execute(Head(compute))
    /\ compute' = Tail(compute)
    /\ UNCHANGED << cfg, hostVars, group, free, pending, copy >>

CopyStream ==
    /\ copy # <<>>
    /\ Execute(Head(copy))
    /\ copy' = Tail(copy)
    /\ UNCHANGED << cfg, hostVars, group, free, pending, compute >>

Finished == phase = "over" /\ compute = <<>> /\ copy = <<>> /\ UNCHANGED vars

Host(g) ==
    \/ Forward(g) \/ Backward(g)
    \/ LaunchOffload(g) \/ WaitOffload(g) \/ LaunchLoad(g) \/ WaitLoad(g)
    \/ ReleaseStorage(g)
    \/ /\ Calls("launchOffload", g)
       /\ \E j \in DOMAIN Needs(group[g].tensors), own \in BOOLEAN : OffloadRaises(g, j, own)
    \/ /\ Calls("launchLoad", g)
       /\ \E n \in 0 .. Len(Loads(g)) - 1 : LoadRaises(g, n)
    \/ Abort(g)

Next ==
    \/ \E g \in Groups : Host(g)
    \/ CallRaises \/ EndIteration \/ NextRun
    \/ ComputeStream \/ CopyStream
    \/ Finished

Spec == Init /\ [][Next]_vars

-----------------------------------------------------------------------------
(***************************************************************************)
(* What forward_one_chunk and the backward of autograd find: whenever the  *)
(* compute stream reaches a computation, every saved tensor it reads holds *)
(* its data, through offload, release, load, packing and aliases.          *)
(***************************************************************************)
ReadsIntact ==
    compute # <<>> /\ Head(compute).op = "read" => Head(compute).on \subseteq mem

(***************************************************************************)
(* No copy of launch_offload or launch_load runs after its source was      *)
(* freed, handed to somebody else or before it was filled, although the    *)
(* host returns buffers (wait_load, abort_group) ahead of the device, and  *)
(* a failed run leaves copies in the stream of the next one.               *)
(***************************************************************************)
Source(op) == CASE op.op = "save" -> mem
                [] op.op \in {"bulkSave", "unpack"} -> stage
                [] op.op \in {"load", "bulkLoad"} -> host[op.buffer]
                [] OTHER -> op.on
TransfersIntact == copy # <<>> => Head(copy).on \subseteq Source(Head(copy))

(***************************************************************************)
(* A host buffer is in the pool, pending behind one event or with one      *)
(* tensor or bucket: no failure of _offload_buckets_d2h or async_offload   *)
(* loses it or returns it twice, and close() leaves none behind.           *)
(***************************************************************************)
BuffersAccounted ==
    LET waiting == {p[1] : p \in pending}
        held == UNION {SingleBuffers(g) \cup BulkBuffers(g) : g \in Groups}
    IN  /\ free \cup waiting \cup held = cfg.buffers
        /\ free \cap waiting = {} /\ held \cap (free \cup waiting) = {}
        /\ Cardinality(waiting) = Cardinality(pending)
        /\ \A g, h \in Groups : g # h => (SingleBuffers(g) \cup BulkBuffers(g))
                                         \cap (SingleBuffers(h) \cup BulkBuffers(h)) = {}
        /\ \A g \in Groups : SingleBuffers(g) \cap BulkBuffers(g) = {}
        /\ phase = "over" => held = {}

(***************************************************************************)
(* The peak the hooks of set_forward_prefetch_layer are there to limit:    *)
(* of the swapped layers of a chain, at most two at a time have device     *)
(* memory for what they alone saved.                                       *)
(***************************************************************************)
TwoLayers ==
    LET own(g) == {Store(t.store) : t \in {u \in ToSet(cfg.saved[g]) : ~u.kept}}
        swapped == {g \in Groups : \E k \in DOMAIN cfg.calls : cfg.calls[k] = On("launchOffload", g)}
    IN  ~cfg.session => Cardinality({g \in swapped : own(g) \cap alloc # {}}) <= 2

(***************************************************************************)
(* abort_group (swap.py:948): "Synchronize in-flight transfers and remove  *)
(* a failed run's group": when a group goes, no copy of its tensors is     *)
(* left in the stream.                                                     *)
(***************************************************************************)
AbortSynchronizes ==
    [][\A g \in Groups : group[g].live /\ ~group'[g].live =>
          \A op \in ToSet(copy) : op.on \cap Saved(g) = {}]_vars
=============================================================================
