# A TLA+ model of hyper-parallel

hyper-parallel is a distributed training library on top of PyTorch: pipeline
parallelism, fully sharded data parallelism, tensor / context / expert
parallelism, activation swap, a distributed checkpoint, an auto-parallel planner,
a trainer and a reinforcement-learning stack. This directory models the parts
whose correctness depends on the order in which ranks, threads, processes, hooks
or device streams act: pipeline parallelism, the sharded parameters of a module
tree, activation swap with its pinned host memory, and the save of a checkpoint.

Paths below are relative to `src/hyper_parallel/` unless they begin with `src/`.

## 1. Inventory

| Part | State | Operations, interaction | Hard behaviour | What makes it correct |
|---|---|---|---|---|
| Pipeline schedules (`core/pipeline_parallel/scheduler.py`, `utils.py`) | one `exec_order` per rank, computed once | `construct_exec_order` of GPipe, 1F1B, interleaved 1F1B; passes `add_send_recv`, `coalesce_p2p`, `attach_fwd_boundary_p2p`, `split_overlap_dxdw`; FSDP and swap injection | few micro-batches, remainder rounds, paired composites; a pass sees one rank, the property is about two | each computation once, behind its receive, in front of its send; both ends of a pair agree on the order and on the batch shapes |
| Pipeline runtime (`scheduler.py`, `stage.py`, `_stage.py`) | stage caches, receive and send handles, position in the order, meta flags | `run`, `run_with_dataiterator`, `run_microbatches`, one handler per step type, `_drain_inflight_p2p` | untagged messages, blocking meta exchange, asynchronous receives, no barrier between iterations, exceptions, a callback that runs two halves of a step concurrently | no step raises, no crossed payload, no read before the data landed, nothing left behind, bounded activations, termination |
| Comm/compute overlap (`comm_compute_overlap.py`, `hook_coordinator.py`, `_sync_hook.py`) | coordinator flags, a barrier, one event per rendezvous, counters | `run`, hooks A-D in forward and backward, `enable`, `disable`, `depart`, `rendezvous`, `notify_dispatched` | two threads, different hook counts, exceptions on either side, a barrier broken while it drains | communication first, hooks paired, `run()` returns and leaves nothing |
| Pipeline swap (`pipeline_swap.py`) | swap group per (stage, micro), a session per run | injects offload and load steps around computations, transfers and gathers | four steps per chunk anchored to other steps, split backwards | every activation resident when read, transfers hidden behind computation |
| Activation swap (`core/activation_memory/swap.py`) | groups with tensors, events and host buffers; two device streams | register, launch and wait for offload and load, release, abort | the host runs ahead of the device; copies that raise half-way; an exhausted pool | no read of freed memory, no copy from or to memory in use, no buffer lost or shared |
| Pinned memory pool (`pinned_memory_pool.py`) | buckets of available and pending blocks, a byte count | acquire, release, with device events | several threads, waits and allocations outside the lock, failures | no block used twice, capacity respected, no leak on failure |
| Fully sharded (`core/fully_shard/`) | per unit: shard or gathered buffer, gather handle, gradients on their way; a context shared by the tree | unshard, prefetch, reshard, accumulate, reduce-scatter, all-reduce from module hooks | hooks fired by autograd, recomputation, gradient accumulation, skipped units | every computation sees fresh gathered parameters, every gradient is reduced once, bounded memory |
| Distributed checkpoint (`core/distributed_checkpoint/`) and its callback (`components/checkpoint/`) | files, a persist process and its result, cached plans, a pointer file | save, asynchronous save, load; plan exchange by collectives or by files; publish, resume | several processes, crashes, files of earlier lives, timeouts | what a restart finds is whole and never goes back; a failure is reported, a success is not; ranks meet in the same collectives |
| MPipe (`core/pipeline_parallel/mpipe/`) | prestage queues | prestages before the pipeline | sampling and executor out of step | every micro-batch fed once |
| Trainer (`trainer/`) | step counters, flags | the training loop | resume in the middle | no step lost or repeated |
| Swap optimizer (`core/optimizer/swap_optimizer*.py`) | host/device residency of optimizer state | step with prefetch | asynchronous copies | state resident when updated |
| RL (`rl/rl/`) | rollout sessions, weight versions | rollout, weight sync, training | external actors | rollouts use one weight version |
| Auto parallel, compiler, data, model components, models, dtensor, tensor parallelism, kernels, builders, inference, integrations | mostly none | sequential algorithms and numerical code | arithmetic | unit tests |

`PROJECT.json` lists all of them with their status and, under `hazards`, what can
go wrong where and which property would show it.

How they interact. The schedule builds one order per rank and the runtime executes
it. The order also holds the steps that gather and reduce the parameters of a
sharded stage (calls into fully_shard) and those that swap activations (calls into
the swap groups), so the same order that `PipelineOrder` builds drives
`PipelineRun` and, with its local injections, `ActivationSwap`. An overlapped
forward/backward pair is handed to `CommComputeOverlap.run`; `PipelineRun` lets the
two halves of a composite under a callback interleave, `CommComputeOverlap` models
what happens inside. Swap groups take host buffers from the pinned memory pool:
`ActivationSwap` uses what `PinnedMemoryPool` promises (a buffer is handed out only
when its last event has passed) and models the release points that keep it true.
The trainer calls fully_shard's flags and the checkpoint callback.

## 2. Plan

Done:

1. `PipelineOrder`: the orders and passes as pure operators.
2. `PipelineDataflow`: what a pipeline promises, the abstract specification.
3. `PipelineRun`: all ranks and the transport; refines 2. Uses 1.
4. `CommComputeOverlap`: two threads and the coordinator.
5. `PinnedMemoryPool`: acquire and release from several threads, pending events,
   failures.
6. `CheckpointSave`: trainer callback, save, persist process, publication, restarts.
7. `ShardedParams`: the hooks of fully_shard on one module tree.
8. `PipelineLocal`: FSDP and swap injection over the orders of 1.
9. `ActivationSwap`: the life of swap groups over two streams, driven by chains of
   layers or by the orders of 8.
10. Proofs about 2 to 6, about the gradients and the gathered parameters of 7 and about
    the host buffers of 9.

Left, in this order:

11. An inductive invariant about the stage caches (`FlightInv` covers the receives and
    `WaitInv` all transfers in flight) from which `PipelineRun` refines
    `PipelineDataflow`; the proofs of how much 7 keeps gathered, and about the device's
    side of 9.
12. The swap optimizer and MPipe, which repeat the patterns of 9 and 3.
13. Recomputation inside an overlapped chunk and inside a swap group.

## 3. Modules

| Module | Models | Composes |
|---|---|---|
| `PipelineOrder` | `build_exec_order` for three schedules and four passes | - |
| `PipelineLocal` | FSDP and swap steps added to the order of the local rank | `PipelineOrder` |
| `PipelineAlign` | transfers for an order of computations only | `PipelineOrder` |
| `MCPipelineOrder` | sweeps over sizes, properties of the orders as sequences | `PipelineLocal`, `PipelineAlign` |
| `PipelineDataflow` | the contract: forward, dx and dw of (stage, micro-batch) pairs | - |
| `PipelineRun` | ranks, stage caches, handles, transport | `PipelineOrder`, instance of `PipelineDataflow` |
| `CommComputeOverlap` | `run()` with both threads and the coordinator | - |
| `ActivationSwap` | swap groups, host and two device streams | - |
| `MCActivationSwap` | chains of layers, and ranks whose calls come from real orders | `ActivationSwap`, instance of `PipelineLocal` |
| `PinnedMemoryPool` | the pool, its callers and the device events | - |
| `ShardedParams` | hooks, prefetches, reductions of a module tree; trainer or pipeline as caller | - |
| `CheckpointSave` | loop and callback of every rank, save, persist process, join thread, files, crashes | - |
| other `MC...` | constants for TLC | the module of the name |
| `..._proofs` | theorems about the module of the name (two for the checkpoint, the second on the first) | that module |

### PipelineOrder

Every operator takes a configuration record (schedule, R ranks, V chunks per rank,
M micro-batches, flags) and mirrors one function: `GPipeOrder`, the three phases
of `OneFOneBOrder`, `StageExecOrder` with its warm-up, steady and cool-down
segments, `AddSendRecv` (slots, column scan, data loads), then `CoalesceP2P`,
`AttachFwdBoundaryP2P`, `SplitOverlapDxDw`. Bubbles are kept because they decide
the time slot a transfer is inserted in. The code's running counters
(`fwd_stage_micro_index`) are written as a count over earlier operations. Orders
are sequences; like the code, `PipelineRun` builds them once and then only reads them.

### PipelineLocal

`_inject_local_fsdp_actions` runs on the local order before the P2P passes:
`AddFsdpUnshardReshard` keeps a window of the next three distinct stages gathered,
`AddFsdpReduceGrad` puts the reduction behind the backward of micro-batch M - 1.
`inject_pipeline_swap_steps` runs last: the chunks whose forward and backward are
at least four steps apart get four steps, whose anchors are `PostComputeAnchor`,
`CommBlockAnchor` and `LoadAnchor`. The running list of active stages is written as
the window of the position in front.

### PipelineAlign

`auto_align_and_add_send_recv` takes an order without bubbles and transfers. Its
simulation is a state machine in `MCPipelineOrder`: `AlignStart` pads the orders,
`AlignStep` is one time step of all ranks (`Simulate`), and once every rank has
placed its steps or the time of the code is over, `AlignedOrders` inserts the
transfers (`InsertTransfers`). The field `align` of a configuration hands it the
computations of a schedule, as a schedule of the user's would.

### PipelineRun

One state machine per rank: `status`, `iter`, `pc` and the state that
`run_microbatches` and the stages keep. The step types are actions:

| Action | Code |
|---|---|
| `ExchangeMeta` | `_communicate_meta`, blocking, on the default group |
| `P2PStep` | `recv_fwd`, `recv_bwd`, `send_fwd`, `send_bwd` |
| `BatchBuild`, `BatchIssue` | `_exec_batch_send_recv`: all specs, then one batch per peer, waiting for each unless `overlap_p2p` |
| `ComputeStep` | `wait_*_recv` then `forward_one_chunk`, `backward_one_chunk`, `backward_input_one_chunk`, `backward_weight_one_chunk` |
| `SubStep`, `BoundaryStep`, `OverlapEnd` | an OVERLAP_B_F composite, its halves in order or under a callback in any order, and `exec_boundary_p2p` |
| `DataLoad`, `DataTransfer` | `_exec_pipeline_data_steps` |
| `StepError`, `Drain` | an exception (out of an overlap under a callback once both threads have ended: `Joined`, the join in `CommComputeOverlap._run`) and `_drain_inflight_p2p` |
| `LastStep`, `SyncSharedParametersGrad`, `Drain`, `NextIteration` | the end of a call and the next one |

The stage caches (`fwd_cache`, `fwd_outputs_cache`, `bwd_cache`, `args_recv_info`,
`grad_recv_info`, the dw cache) are sets of (stage, micro-batch): an entry is there
or not. `args_recv_info` is split in two: its entries, which the code never
deletes, and its live buffers, because the check that detects a missing receive
looks at the first and the computation uses the second.

A tensor is its kind, stage and micro-batch of the whole run. The transport is
external: per lane (default group, pipeline group) and ordered pair of ranks a
queue of batches. The head send of one rank meets the first receive at the head of
the other; with `mirror`, only when the two batches mirror each other's shape.
These are the two semantics the comments in `PipelineScheduleRuntime.__init__`
name. A match with the wrong tensor is not prevented but recorded in `faults`.

### CommComputeOverlap

The two threads as program counters over the hooks of their chunk, each access to
shared state that the other thread can come between being a step of its own: the
fast-path check of the flags, the notify, the creation of the event, the barrier
(arrive, trip with its action, wake), the read of `_round_had_comm` and of the
event slot, the wait; and for `disable` / `depart` the flag, the abort and the
release of the event. `threading.Barrier` is external and modelled with its
filling, draining and broken states; after an abort a thread that the barrier had
already let go but that had not run yet gets a BrokenBarrierError like the others.

### ActivationSwap

The host is a program counter over the calls of an iteration: the hooks of
`set_forward_prefetch_layer` on a chain of layers (`ChainCalls`), or the swap steps,
forwards and backwards of one rank's order under a `PipelineSwapSession`
(`SessionCalls`). A call is one action. It changes the group's records, takes and
returns host buffers, and appends operations to the streams `compute` and `copy`;
`ComputeStream` and `CopyStream` execute them later, each in order, with `record`
and `wait` on events as the only order between the two. This is where the hazards
are: a storage is resized to zero by the host while the device still has to read
it, and only a wait in front of the `free` in the compute stream makes that safe.

Storages carry the iteration they were created in. `mem` holds the storages whose
content is right, `alloc` those that have device memory, `stage` the ones packed
into a staging buffer, `host` the content of each host buffer. A `free` clobbers
its storages from the compute stream's position on, a `load` from the copy stream's.
An event that was created but not recorded counts as passed, as in CUDA. Copies may
raise half-way (`OffloadRaises`, `LoadRaises`), modules may raise between any two
calls (`CallRaises`), and then `abort_group` runs for every group.

Abstractions: buffers have one size and the lowest usable one is taken; tensors of
one dtype that may be packed carry the number of their bucket; which tensors
`protect_alias_tensors` keeps is given by the configuration; staging buffers are
protected by `record_stream` and belong to one copy. With a pool of its own
(`explicit`) a group returns its buffers with an event. Without one, packed buffers
go back to the module's pool and single ones to torch's allocator.

### PinnedMemoryPool

`acquire` is one action per outcome of its section under the lock
(`TakeAvailable`, `Reserve`, `TakePending`; when it raises for lack of capacity
nothing changes) and one per outcome of what follows outside of it (`Allocate`,
`AllocateFails`, `Synchronize`, `SynchronizeFails`), each with the rollback of the
code. `release` is `Release` or, with an event, `ReleaseAfter`; `Pass` is the device
passing an event (external). The lists per capacity are two sets of blocks: which of
several blocks of the best capacity is taken is left open. `busy` is history: the
transfers that still use a block, and the event that follows each.

### ShardedParams

One rank, one root and `NKids` wrapped children. `s` holds what `HSDPState`,
`HSDPParam` and `HSDPSchedulerContext` keep, per unit: `scheduler_state`, shard or
gathered, the pending gather, the version the gathered buffer was filled with, and
the places a gradient can be in: `.grad`, the accumulation buffer, a
reduce-scatter output, a partial sum over micro-batches, an all-reduce bucket, the
shard's gradient. A gradient is the bag of micro-batches it sums, tagged with how
far it has been reduced, so that a lost, doubled or half-reduced gradient is a
different value.

`todo` holds the calls of the pass under way; the hooks (`ForwardPreHook`,
`ForwardHook`, `BackwardPreHook`, `PostBackwardHook`, `RootBackwardHook`) are one
action each, with everything they call. `Gradient` is autograd producing a gradient
(external). The order of calls is that of a chain of children, recomputed in
segments of two under `recompute`, with units skipped under `skip`. `TrainerFlags`
and `PipelineFlags` are what the two callers set before a micro-batch. The
reduction has two forms, per parameter (`WaitParams`, `DrainParams`) and fused
(`AdvanceFused`, `DrainFused`), both one unit behind the backward.

### CheckpointSave

Every rank has a training loop with its callback (`pc`: `TrainBegin`, `TrainStep`,
`MaybeWait`, `Dispatch`, ...), a save that runs in the loop or in a child process
(`phase`, `open`, `got`: `OpenFile`, `CloseFile`, `ReadFile`, `FailChild`,
`GatherTimeout`, `PutResult`) and, for an asynchronous save, a thread that waits for
the child's result (`join`: `JoinTakes`, `JoinTimesOut`, `JoinAsksAgain`,
`JoinLooksAgain`). Collectives return when every rank is in one (`Collective`); the
pointer is opened, which truncates it, and written in two steps (`OpenPointer`,
`WritePointer`). Files carry the life of the job that wrote them and whether the
writer finished, because names and completion flags are all the code looks at.
`WriteFails`, `ExtraFails` and `ChildDies` are single failures; `Crash` kills all
processes of the job, children included, and starts it again on the same
directories.

Whether a save exchanges plans is each rank's own affair. `StandardSavePlanner` keeps
the plans of earlier saves under the names in the rank's flattened state dict, and these
names change: a parameter has optimizer state from its first gradient on
(`dcp_checkpointer.py:159`). `Growth` is a set of ways in which they may change, each
one giving for every rank the steps at which its state dict gets entries it had not;
`fresh` is the one the current life goes through, `Keys(r, d)` the key of the save of
step d, `cache` the set of keys with a plan, and `HasPlan` the lookup that decides
between the exchange and the shards in `FirstPhase`. A synchronous save adds its key when
the plans have been gathered, an asynchronous one when the parent learns of the child's
success (`Resolve`). In a life that restores, the state of the optimizer was created to
load into it, so nothing new comes (`NextGrowth`). The two gathers of a synchronous save
are the same `all_gather_object`; ranks that miss and ranks that hit meet in it
(`Mixed`) and `Chokes` says who raises: whoever takes write results for plans, and the
coordinator when it takes plans for write results. The others go on to the last barrier.
In an asynchronous save a child that misses waits for files that peers who hit do not
write, until its deadline (`GatherTimeout`).

Abstractions: `use_collectives=True` and the file-based exchange for children (the
gloo variant has no files); `restore_from` is the latest checkpoint; the tensor and
byte files of a rank are one `shard`; the collectives of a load are one; saves
happen on the step cadence and at the end, not on epochs; a timeout may strike at
any moment it is armed.

## 4. Runs

| Run | Question | Distinct states |
|---|---|---|
| `pipe` | every schedule family on every transport: no step raises, payloads are not crossed, nothing is read early or left behind, bounded activations, all-reduces agree, a rank that unwinds releases its transfers; every behaviour is one of `PipelineDataflow`; every run terminates | 76 112 |
| `order` | the orders as sequences over larger sizes, aligned from bare computations, with and without local injections, as plain P2P steps and, with overlapped steps, in batches (the boundary transport is in `pipe`) | 1 975 |
| `overlap` | two calls of `run()` on one coordinator: pairing, comm first, counters, nothing left, return | 1 578 259 |
| `pool` | two threads, failures, shared events: one place, no reuse under a transfer, exact accounting | 2 811 |
| `checkpoint` | two lives of a job with one failure: the pointer's target is whole, results are not lost, ranks pair in collectives, plans arrive, one common restart, no going back; state dicts grow on all ranks or on one | 3 988 269 |
| `checkpoint_live` | one life with one failure: the job ends or a rank has raised, whichever state dicts grow | 426 921 |
| `sharded` | 312 configurations, two optimizer steps: fresh parameters, gradients conserved and complete, bounded memory | 140 124 |
| `swap` | chains and pipeline ranks over two streams, with failures: reads and copies intact, buffers accounted, two layers at most | 252 110 |

The order run has one state per configuration, and with alignment one more per time
step of the simulation; each of those states holds all orders of a configuration and the properties quantify over all of their steps.

Bounds and why they are enough.

* Pipeline: 2 to 4 ranks (8 in `order`), because the parity scan, the wrap-around
  edge of the interleaved schedules and a rank with two different neighbours appear
  with 2, 3 and 4. Micro-batches from fewer than ranks over a remainder round to a
  steady phase. Two calls in a row (`calls`): a leftover of the first is visible to
  the second and the code keeps nothing that counts calls. One exception, in any
  single computation, also in either half of an overlap with a receive of the next
  slot at its boundary (`OverlapRaises`). For the injections up to five local stages, more than the
  three that a rank gathers at a time. One rank with several chunks is excluded:
  `_fwd_peer` returns None inside a rank and no transfer is inserted, so later
  chunks never receive anything; the library uses one rank with one chunk only.
* Overlap: 0, 1 and 2 layers per side, since a hook only depends on its position in
  the layer and on whether it is the last one; `Sessions` = 2 for what a call leaves
  to the next.
* Pool: two threads can be in the two unlocked sections at once, two sizes make the
  best fit matter, and the limit admits three small blocks or two large ones.
* Checkpoint: two ranks, one of them the coordinator; `TrainSteps` = 5 and
  `SaveSteps` = 2 give two asynchronous saves, so that plans are cached by the first
  and a save is still pending when the next begins, and a synchronous one at the
  end; `MaxLife` = 2 and `MaxFault` = 1 let a failure and a crash come together and
  the second life meet the files of the first. Growth in `checkpoint`: on every rank at
  step 5, so that all ranks hit at step 4 and miss at step 5; on the other rank at step
  4, so that its child misses and the coordinator's hits; on the coordinator at step 5,
  so that the two gathers of the synchronous save meet. A restored life has all its saves
  under one key. `checkpoint_live` adds no growth at all and the remaining choices of
  step and ranks.
* Sharded: three children, so that a unit has neighbours on both sides, a
  recomputed segment holds two units and a prefetch list reaches past it; `NMicro`
  = 2 for accumulation, `NSteps` = 2 for what one optimizer step leaves to the next.
* Swap: up to four layers or six chunks; between three and eight buffers, so that
  the pool is sometimes just large enough and sometimes exhausted; one fault; two
  iterations (`runs`), for buffers that are reused.

Fairness. `PipelineRun`: weak fairness for every rank (a process of its own, with
nothing that disables it for ever but its own waiting) and for the transport and
the all-reduce, which the communication library progresses. `CommComputeOverlap`:
weak fairness for both threads, which the interpreter schedules; none for a
further call of `run()`. `CheckpointSave`: weak fairness for each rank's loop, its
save (in which a gather that never completes ends by its deadline), its join
thread, for collectives that everyone has entered and for publishing; none for
failures and crashes. `ShardedParams`, `ActivationSwap` and `PinnedMemoryPool` state
safety only: one rank's hooks are sequential, and in the other two a wait depends on
the device alone, so that what remains is that nothing gets stuck, which TLC's
deadlock check covers in `swap` and `pool`.

Deadlock is checked in `pipe`, `order`, `pool` and `swap`. It is off in `overlap`
and `checkpoint_live`, where whoever is stuck already violates RunReturns or
JobEnds; in `checkpoint`, where the job ends (and a rank that raised leaves its
peers waiting for the launcher); in `sharded`, where a run ends after `NSteps`; and
in the runs that look for a violation. A pipeline rank whose user module raised
leaves peers that wait for it for ever: `Terminated` counts this as an end, since
only the launcher can resolve it.

### Disagreements with the documentation

Four runs find a violation on purpose; each states what a doc or comment says.

* `less_paired` (NoStepFails): with `less_memory` and `overlap_b_f` (R=2, V=2, M=4)
  the last rank reaches a composite before the receive of its forward, and
  `forward_one_chunk` raises. The comment in `run_microbatches`
  (`scheduler.py:1222`) calls sequential execution of composites equivalent to
  non-overlapped 1F1B.
* `ckpt_half_written` (NeverHalfWritten): a job crashes between the persist
  processes of a save and is started again; the files of the first attempt make the
  coordinator of the second write the metadata while a peer is overwriting its
  shard. The docstring of `find_latest_checkpoint` says that resume never lands on
  a half-written checkpoint.
* `sharded_late` (UntriggeredReduce): under gradient accumulation a unit that only
  an earlier micro-batch used is passed over by the root's hook, whose comment says
  that it launches the reduction of exactly such units.
* `swap_abort` (AbortSynchronizes): `abort_group` says it synchronizes in-flight
  transfers, but between `wait_offload` and `launch_load` the group has no event to
  synchronize on. The next run is not harmed (TransfersIntact holds), since all
  copies share one stream.

Seen in the code or with earlier configurations, without a run of their own:

* the boundary transport with M > R + 1 makes both ends of a pair recv-first
  (`scheduler.py:1619` calls it complementary); `BoundaryConfigs` stay below;
* the bound of V\*P - i activations (`scheduler.py:2085`) does not hold for
  `less_memory` when M is not a multiple of P; ActivationBound uses the warm-up depth
  of the code;
* the dw of `split_overlap_dxdw` is placed inside the FSDP or data steps that the
  comment at `scheduler.py:1554` calls contiguous;
* the alignment's cool-down rhythm does not keep every rank's backwards out of the
  time steps in which another rank runs a forward, as `scheduler.py:1820` puts it: 1F1B
  with two ranks and two micro-batches already does both in one step, and `batch` on an
  aligned `less_memory` order with M >= 6 does not mirror its batches; transfers and
  computations are ordered all the same (`PairwiseFifo`, `ComputeInPlace`);
* an event query that raises leaves blocks in both buckets of the pool
  (`pinned_memory_pool.py:111`);
* `run_with_dataiterator` never creates the `PipelineSwapSession` that `run` creates,
  so that swap steps raise on that path (`scheduler.py:657` and `:1144`);
* a sharded unit that was gathered or prefetched but not run in the last pass of a
  step is not resharded and computes the next step with old weights, contrary to
  `hsdp_param.py:738`; `MCConfigs` leaves out the combinations of skipped units with
  prefetches or kept parameters that show it;
* where a state dict gets new entries on some ranks only, as for an expert that is
  routed to late, `gather_all_results_from_storage` waits until its deadline for plan
  files that ranks with a cached plan do not write, though by its docstring every rank
  reads the files of all (`async_persist.py:604`), and a synchronous save mixes plans with write
  results in one gather and raises; PlanWillCome and CollectivesPair name the condition,
  and `checkpoint_live` shows that nobody waits for ever without a rank having raised;
* a tensor saved by two layers that are not neighbours is freed by the first while
  the second still reads it (`swap.py:1125`); `Chains` leaves such tensors out.

## 5. Proofs

All are checked by tlapm for every value of the constants, from the assumptions
named in the modules: every configuration has at least one rank and one call and
its shared ranks exist; the orders of a configuration are well formed
(`OrdersAssumption`: steps with numbers, batches of P2P steps, overlaps of two
computations with none of their own inputs at their boundary; TLC evaluates it for
every configuration of `pipe`) and post every receive once (`ReceivesAssumption`,
evaluated likewise); layer counts are naturals; sizes and limits of the pool are
positive and `PowerOfTwo` is a number for every requested size (an existence fact of
arithmetic about recursively defined powers; TLC evaluates it); the calls of a swap
configuration load a group back before they reuse it; a sharded model has a child, a
step has micro-batches, and a pipeline does not reshard after forward; the coordinator
is a rank, and steps, cadence and lives are positive.

**The contract** (`PipelineDataflow_proofs`), for a pipeline of any depth.
`GradientsComplete` (Causality) and `ForwardPhaseEnds` (NoForwardAfterBackward).
Neither is inductive: the step that accumulates a weight gradient sees its own
stage and the next one only. The invariant adds that forwards form a prefix of the
stages (`PrefixForward`), backwards a suffix (`SuffixBackward`), and that weight
gradients are within backwards within forwards (`Nested`). A backward of the last
stage needs its forward, the prefix gives the forwards of all earlier stages; a
backward of another stage needs the next stage's, the suffix gives the rest. Since
`pipe` checks that every run of `PipelineRun` is one of the contract, the two
theorems speak of the runtime as well, on the instances of the run.

**The runtime** (`PipelineRun_proofs`). `ControlTypeCorrect`, and
`SharedGradsInStep` (AllReducesAgree): there is no barrier between iterations,
still the ranks of a shared parameter have always passed equally many all-reduces.
The count is a function of `iter` and `status`; it changes only in
`SyncSharedParametersGrad`, which moves all of them together, while `Drain` and
`NextIteration` move one rank's status and iteration so that the count stays. The
orders never enter: the theorem holds for any schedule.

`NothingReadUnlanded` (NoUnlandedRead): that a chunk never reads a buffer before its
receive has landed does not depend on the schedule either, only on the well-formed
orders of `OrdersAssumption`. A receive is known by the step that reads it, its key
(`OneKey`: two keys never stand for the same operation). The invariant `FlightInv` says
that every input in flight is one the rank is blocked on or keeps a handle of under its
key (`Tracked`), so the step that reads it waits for it first. It needs more around it:
the peer batches still to issue name exactly the receives they hold (`Sorted`); a rank is
in the middle of a batch or overlap only at such a step (`InPlace`); a call that returned
has no input in flight, though the numbers of the next call reuse the keys (`Landed`);
and the backward half of an overlap that a callback starts while the rank is blocked at
the boundary is not what the rank is blocked on (`HalfFed`). The last one is where
the assumption about boundaries is used: `attach_fwd_boundary_p2p` only hoists receives
from behind the overlap. `Route` overwrites the handles under a key and `Forget` drops
them; neither loses an input, since an overwritten key names the same operation in the
new batch. `FlattenHolds` and `CacheFold` say what the concatenation of the peer batches
and the fold over a batch's steps keep; both unfold to a function defined by recursion,
whose existence is proved by `CountUp` (see the pool below).

`RaisedHasWaited` (RaisedReleases): that a rank has nothing in flight when `run()` hands
an exception on. `WaitInv` says of every operation in flight, sends included, that the
rank is blocked on it or keeps a handle of it (`Accounted`), so what the drain waits for
is all there is. Three things could go wrong. A rank could leave its steps while it is
blocked (`Unblocked`): `StepError` comes from a step that begins, or out of an overlap
whose threads were joined; without the join the boundary receives of the forward half
would be left to nobody. A call could start with operations of the last one
(`Released`). And handles could be dropped: `Forget` drops what was just waited for, but
`Route` overwrites the handles under a key, with those of the sends that ride with the
receive. This is where `ReceivesAssumption` is needed: the handles kept are of receives of
steps behind the rank or of the step it is at (`Posed`), so a step finds none under its
own keys (`NotYetPosted`); the batches of a step have receives of their own
(`Apart`, from `BatchesApart`: one batch per peer), and so have the operations of a
boundary.

**The overlap** (`CommComputeOverlap_proofs`). `RunLeavesNothing`
(QuietBetweenRuns): the invariant ties the calls a finished thread still has to
make to its place (`Phases`: the main thread leaves only through join and disable)
and says that a thread is inside the barrier exactly while it is blocked
(`InBarrier`). `TypesAndCount` (TypeOK): `_pending_comm` equals the number of COMM
sides of the rendezvous being formed and stays within two. A COMM side counts
itself before it enters the barrier, so the invariant `Counts` follows the loads of
both threads through the barrier. After an abort nobody resets the counter; that it
still stays within two needs the order inside `disable` and `depart`: the flag goes
down before the barrier breaks, so no thread begins another rendezvous.

`Pairing` (WellPaired): WellPaired only speaks of
a thread that finds the other in the barrier. The invariant `Meetings` counts the
rendezvous each thread has behind it (`Met`) and says that the counts are equal as long
as both functions run: the trip raises both, the D_LAST hooks, which have no
rendezvous, raise neither, and while both functions run nobody has called `disable` or
`depart`, so none is skipped. Equal counts give the partner hook, and the four names
give the roles.

`CommAlwaysFirst` (CommFirst): a function that has
ended without raising has dispatched all of its operations (`Ended`). While both run,
the event of a COMM side is new when it is created (`Dated`); it is in the slot when
the barrier trips, since its partner, a COMPUTE side, creates none (`Posted`); and until
the operation is dispatched the partner is between the trip and its return, waiting for
this event or about to (`Owed`). `_round_had_comm` cannot be false there because the
counter, by `Counts`, includes the COMM side at the trip.

**The pool** (`PinnedMemoryPool_proofs`). `OnePlace`, `TransfersUndisturbed`,
`ViewsFit` and `CapacityRespected`, for any number of threads, blocks and events.
The four are proved together, since each needs the others: that a reclaimed block
has no transfer left follows from its event (NoReuseInTransfer), that the block is
not somewhere else as well from PlacedOnce. `Requests` adds that a thread waits
exactly while it has a target, and that the target is large enough.

`AccountingExact` (TotalExact): `_total_allocated` is the sum of what the blocks hold
and what is reserved. `Total` is a fold, which unfolds to a function defined by
recursion over the subsets of a set. That there is one such function for a finite set
(`TotalExists`), that two of them agree where the amounts do (`TotalsAgree`) and that
any member can be taken out first (`TotalsCommute`) is induction on the number of
members. The library's induction theorems take an operator as a parameter and cannot
be instantiated; `CountUp` takes a set instead and follows from the least
counterexample (`WFMin`). The rest is that a reservation and a block enter and leave
the sum one at a time. The sets summed over are finite in every state, whatever
`Threads` and `Blocks` are.

**The swapped activations** (`ActivationSwap_proofs`). `BuffersNeverLost`
(BuffersAccounted): each host buffer is in the pool, pending behind one event, or with
one tensor or bucket, and none is left when a chain or session is over, wherever
`launch_offload`, `launch_load` or a module raises. `Placed` says where a buffer is.
It is not inductive alone: `launch_offload` overwrites the buckets of its group and
`release_group_storage` drops its tensors, and what they still held would be lost. So
`Returned` says that, as long as nothing has raised, a group holds buffers only between
its `launchOffload` and its `waitLoad`; after an exception only `abort_group` follows,
which returns everything. That calls come in an order in which a group is loaded back
before it is offloaded or released again is `ConfigAssumption`: the hooks of a chain
and the injected swap steps of an order do that, and TLC evaluates it for both. The
longer half of the proof is about the helpers: `InOrder` lists every member of a finite
set once (`InOrderLists`, by counting), `Needs` names each single tensor once
(`NeedsListed`), hence each buffer taken is entered somewhere (`OffloadingHolds`), and
a failing bucket gives back what no tensor kept (`OffloadRaisesInv`).

**The sharded parameters** (`ShardedParams_proofs`). `GradientsNeverLost`
(GradientsConserved), for any number of units, micro-batches and steps and any
configuration that `ShardedAssumption` admits. The property compares bags; the proof
counts: `Kept` is how many copies of one micro-batch's gradient the buffers of a unit
hold, `Account` says that with what was stepped it is one if autograd produced the
gradient and none if not, and each helper of a hook has a lemma that it moves gradients
without changing that number (`Moved`). The helpers keep it only where buffers are
occupied as they expect, which is `Placed`: a unit is in one queue at most, its output
is where the queue says (`InRs`, `InBucket`, `InBoth`), and while it is on its way no
gradient is left beside it, except the source that the wait will clear, of which there
is one (`OneSource`). Otherwise a reduce-scatter would overwrite an output, or a wait
would clear a gradient that was never sent. What could break `Placed` is autograd, when
it adds to a gradient under reduction. So `Ahead` follows the calls of the pass: a unit
whose reduction has begun gets no gradient in what is left of it, and the root's hook,
after which nothing is on its way (`RootHookGood`), is still to come. That the calls of
a pass are in such an order is proved of `BackwardCalls` for any used units, with and
without recomputation (`BackwardOrderly`). The loops of the root's hook over all units
are folds, which unfold as in the pool. `GradInv` is the conjunction of the five parts.

`StepFindsAll` (StepSeesAll), under the same assumptions: the optimizer's step finds
every gradient of the units the last micro-batch used, reduced over the shards and,
with HSDP, over the replicas. That nothing is lost does not give it, since a gradient
may sit in a partial sum, or be reduced over half of the groups only. `StepInv` adds
three parts to `GradInv`. `Tally` counts the micro-batches of the step and says that
without a pipeline the last one runs under the flags that reduce. `Lanes` says which
buffers a configuration leaves empty: with HSDP nothing reduced over the shards alone is
applied, without it nothing is handed to an all-reduce, and without HSDP, as in a
pipeline, the partial sums stay empty. `Final` follows the last backward: each unit
used has its gradient to come, or holds one that a hook ahead, its own or the
root's, will reduce (`Loaded`), or was handed, partial sum included, to a reduction that
goes all the way (`Through`). Each helper of a hook keeps what is through and only a
hook's own unit ceases to be loaded (`Carried`). A hook whose unit is already marked
BACKWARD returns at once, so a gradient that came after its unit's hook would stay
behind; therefore the proof needs that the pass prepares each unit before its gradient,
which is proved of `BackwardCalls` for any used units (`BackwardPrepared`). The root's
hook puts all loaded units through, as `ExecuteReduceGrad` does for all units of a
stage. At the step nothing is on its way, so what is through is in the main gradient;
the counts of `Account` and the empty half level of `Lanes` then make the bags equal.

`GathersFresh` (ComputesFresh) is about the parameters: a unit computes with gathered
ones, of the version the optimizer last wrote. It holds of the configurations that
`NoStrayConfigs` admits, those of the run: a unit that some micro-batches skip is
prefetched by no other and is resharded after every backward. Without that it is false
(see the hazard at `hsdp_param.py:1086`): a unit that stays gathered over a step, or
whose prefetch nobody takes, computes with old weights. Nothing else is assumed of
reshard flags, prefetch lists, accumulation, recomputation, evaluation between steps or
the interleaved passes of a pipeline. `FreshInv` has a part for any time and one for
the phase the pass is in. At any time `Current`: what is gathered or on its way is of
the newest version; `Prepped`: a unit marked PRE_BACKWARD is gathered, since its hooks
then gather nothing; `Resharded`: where units are to be resharded, none that is marked
BACKWARD is gathered, since the root's hook passes it over. During a pass `Left` says of
the calls to come that one that uses a unit finds it gathered or comes after one that
gathers it, that none needs it after the call that frees it, and that a call that
prefetches is followed by the hooks of the units it prefetches; so every gather under
way has its own hook ahead (`Forwarding`, `Backing`) and none outlives its pass.
`AtRest`: between passes none is under way, a unit a micro-batch went forward through
(`Ran`) is ready for its backward, and after the last backward of a step every unit is
resharded, which is why the optimizer makes nothing stale. `Left` holds at the start of
a pass because of how its calls are put together: `Woven` is a property of parts of a
pass that joining two of them keeps (`WovenBoth`, `WovenFlat`), proved of
`ForwardCalls` and `BackwardCalls` for any used units, with recomputation
(`ForwardWoven`, `BackwardWoven`), and each hook takes its call off the front
(`LeftTail`). That reductions leave the parameters alone is `ReductionsSame`, and the
loops of the root's hook are folds again (`FoldFresh`). TLC checked `FreshInv` over the
configurations of the run before it was proved.

**The checkpoint** (`CheckpointSave_proofs` and `CheckpointPointer_proofs`, which
extends it). `TypeCorrect`, `NeverLosesResult`
(NoLostResult) and `RanksStartTogether` (SameStart), for any ranks, cadence, number
of lives and faults. `Saves` ties the place of the loop, the pending save, the child
and the join thread to each other; with it, a failed future means that the child
was gone, without a success in its queue, when the thread looked for the last time. SameStart
needs `Opening`: as long as one rank has not looked for the newest checkpoint, no rank
has passed a collective behind its own look, so nothing is written or published and
`FindLatest` cannot change between two ranks' looks.

`PointerAlwaysWhole`, `CollectivesAlwaysPair`, `PlansAlwaysCome` and the action
property `NeverGoesBack` (`CheckpointPointer_proofs`). PointerWhole is far from
inductive: that the pointer is written over whole files follows from what every rank
did before its last barrier. The argument is the one for barriers. `Stage(r)`, the
collective a rank enters next, and `Step(r)`, the checkpoint it is about, are read off
the rank's own state; `Together` says that all ranks that have not raised agree on
the checkpoint and on the stage, where the two gathers of a synchronous save count as one
because a rank may be in either, and that nobody raises once somebody is between the two
barriers of the finalization. Steps of one rank leave its stage alone (`StepInv` is the lemma all of
them use); a collective moves all ranks from one stage to the same next one
(`CollectiveStage`). Everything else is said relative to stages:

* `PacedAt`: no rank trains past a step it has to save, so ranks that enter the
  directory barrier with the same last step are about the same next one.
* `ShelvedAt`: what a rank has written of its checkpoint is whole and of this life;
  a rank past the first barrier of the finalization has written all of it, and for
  an asynchronous save that is known from the child's success alone (`PhasesAt`).
* `Placed`: while a checkpoint is assembled the pointer is strictly behind it, and
  complete directories beyond the pointer are at most the save that comes next; so a
  restart never assembles a directory the pointer names, and a truncated pointer
  costs nothing, because the scan finds a directory at least as new.
* `PlanCached`: if the keys of the ranks change together (`KeysComeTogether`: two saves
  that have the same key on one rank have the same key on all), then ranks have plans for the
  same saves, but for what a child under way may have brought to one of them (`Brings`); while
  some child still gathers plans, no rank without a child has the plan of that save; and
  a child past the exchange has left its plan on disk unless nobody looks for it any more.

What CollectivesPair says of the stages before and behind the gathers holds for every
growth; a gather of plans and a gather of results at the same time needs keys that did
not change together. For that `SameGather` derives from PlanCached that ranks about to
save the same step have a plan all or none, so that no gather is mixed. PlanWillCome
is stated under `KeysComeTogether` only, and without it TLC finds it violated. A dispatch
is the step that takes most (`DispatchPlans`): it
begins a child with the plans the rank has at that moment.

NeverGoesBack adds that metadata is never deleted (`StaysComplete`) and that the step
written last is at least as new as anything the scan would find (`AllUpTo`). A crash
keeps the disk and gives a state of which the same is true (`RestartedStart`).

Only model-checked: the other safety properties of `PipelineRun` (NoStepFails,
NoCrossedPayload, HeadsMeet, CleanAfterRun, ActivationBound), which
depend on what the recursive construction of the orders yields, and its refinement; what the
streams of `ActivationSwap` find (ReadsIntact, TransfersIntact, TwoLayers), which
depends on the calls of whole iterations; how much of `ShardedParams` is gathered at a
time (LiveBound), which takes the exact neighbours in the order of a pass; the orders;
all liveness.

## 6. Not modelled

* Values, shapes and numerics of tensors; the cost of anything.
* Pipeline: the V-shaped stage map; overlap steps in an aligned order; multi-stream
  groups (the control of `batch` with one lane per edge); FSDP and swap steps as
  steps of `PipelineRun` (they are local and are checked as sequences, and in
  `ActivationSwap`); the token-count all-reduce of `_exec_data_load`; the one-time
  barrier that prepares the batch group; recomputation inside an overlapped chunk.
* Activation swap: tensors shared by layers that are not neighbours; the
  recomputation guard `_swap_state`, forwards without backward (evaluation) and two
  forwards before a backward; a `view` that raises; the checkpoint and
  recompute sessions of `activation_memory`.
* Fully sharded: CPU offload, mixed dtypes, padding, several parameter groups per
  unit, replicated tensor-parallel gradients, grouped hooks, losses taken from a
  submodule, early stop of a recomputation, state dicts.
* Checkpoint: resharding plans and tensor I/O, the gloo exchange,
  `use_collectives=False`, saves without plan caching, state dicts that lose entries, a
  restore that cannot create the optimizer's state beforehand, offline transforms, epoch cadence, the HuggingFace
  exporter.
* The swap optimizer, MPipe, weight synchronisation of the reinforcement-learning
  stack and the batch sampler have control of their own and are left for later. The
  remaining parts of section 1 are numerical or configuration code with little
  state: layouts and propagation rules, kernels, cost models, graph passes, models,
  datasets, inference.
