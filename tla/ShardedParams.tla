---------------------------- MODULE ShardedParams ----------------------------
(***************************************************************************)
(* One module tree wrapped by fully_shard, on one rank: a root unit and    *)
(* its children, each holding its parameters as a shard that hooks gather  *)
(* before a computation and free after it, and whose gradients they reduce *)
(* behind the backward pass (core/fully_shard/hsdp_scheduler.py,           *)
(* hsdp_state.py, hsdp_param.py, param_group.py).                          *)
(*                                                                         *)
(* The hooks of a rank run one after the other, in an order the model's    *)
(* forward pass and the autograd engine choose: `todo` is the calls of the *)
(* pass under way, and every hook is an action.  The caller is the trainer *)
(* (trainer/runtime/fsdp.py), which sets the flags of each micro-batch, or *)
(* the pipeline runtime, which interleaves the passes of two micro-batches *)
(* and reduces once (stage.execute_reduce_grad).                           *)
(*                                                                         *)
(* Data: the parameters of a unit behave alike and are one parameter; its  *)
(* value is the version the optimizer last wrote; a gradient is the bag of *)
(* the micro-batches it sums.  A collective delivers what it was given     *)
(* when it was issued; the handle only says that nobody has waited yet.    *)
(***************************************************************************)
EXTENDS Integers, Sequences, FiniteSets, Bags, Folds, SequencesExt

CONSTANTS NKids,    \* wrapped submodules; the root is unit 0
          NMicro,   \* micro-batches of one optimizer step
          NSteps,   \* bound: optimizer steps of the run
          Configs   \* the configurations the run starts from

ASSUME ShardedAssumption ==
  /\ {NKids, NMicro, NSteps} \subseteq Nat \ {0}
  /\ \A c \in Configs :
       /\ {c.pipeline, c.fused, c.hsdp, c.reshard_after_forward,
           c.requires_grad_sync, c.keep, c.recompute, c.skip} \subseteq BOOLEAN
       /\ {c.forward_prefetch, c.backward_prefetch} \subseteq Nat
       /\ c.pipeline => ~c.reshard_after_forward  \* set by _inject_local_fsdp_actions

VARIABLES
  cfg,       \* the configuration
  s,         \* HSDPState, HSDPParam and HSDPSchedulerContext of every unit
  version,   \* what the optimizer last wrote to the shards
  todo,      \* hook calls left in the pass under way
  fwd, bwd,  \* micro-batches of this step that went forward, and backward
  used,      \* the units of each micro-batch still to go backward
  lastUsed,  \* the units of the newest backward
  reduced,   \* execute_reduce_grad ran in this step
  computed,  \* micro-batches whose gradient autograd produced, per unit
  stepped    \* gradients the optimizer consumed, per unit, with how far reduced

vars == <<cfg, s, version, todo, fwd, bwd, used, lastUsed, reduced, computed, stepped>>

Root == 0
Kids == 1..NKids
Units == 0..NKids
NoUnit == -1
Freed == 0
AllUnits == [i \in 1..NKids + 1 |-> i - 1]  \* all_hsdp_schedulers
Micros == 1..NSteps * NMicro

Fresh(value) == [u \in Units |-> value]

\* What U changes of f: the values of g, or none, or those of g on top.  A queue
\* holds a unit once, so what is done to each of its members is done to their set.
Replaced(f, U, g) == [u \in Units |-> IF u \in U THEN g[u] ELSE f[u]]
Emptied(f, U) == Replaced(f, U, Fresh(EmptyBag))
Added(f, U, g) == [u \in Units |-> IF u \in U THEN f[u] (+) g[u] ELSE f[u]]

Init ==
  /\ cfg \in Configs
  /\ s = [scheduler_state |-> Fresh("None"), is_shard |-> Fresh(TRUE),
          gather |-> Fresh(FALSE), buffer |-> Fresh(Freed),
          grad |-> Fresh(EmptyBag), acc |-> Fresh(EmptyBag), rs |-> Fresh(EmptyBag),
          bucket |-> Fresh(EmptyBag), partial |-> Fresh(EmptyBag),
          ar |-> Fresh(EmptyBag), main |-> Fresh(EmptyBag),
          root_bp_state |-> FALSE, pre_reduce_scatter_params |-> <<>>,
          pre_all_reduce_groups |-> <<>>, pending_all_reduce_groups |-> <<>>,
          pre_param_group |-> NoUnit, all_reduce_param_group |-> NoUnit,
          reduce_grads |-> TRUE, reshard_after_backward |-> TRUE,
          requires_all_reduce |-> TRUE]
  /\ version = 1 /\ todo = <<>> /\ fwd = 0 /\ bwd = 0 /\ used = <<>>
  /\ lastUsed = {} /\ reduced = FALSE
  /\ computed = Fresh({}) /\ stepped = Fresh(EmptyBag)

-----------------------------------------------------------------------------
(* Sharding: HSDPState.shard, unshard and prefetch, of a set of units. *)

Shard(t, U) ==
  [t EXCEPT !.is_shard = Replaced(@, U, Fresh(TRUE)),
            !.buffer = Replaced(@, {u \in U : ~t.is_shard[u]}, Fresh(Freed))]

\* HSDPParam.unshard: a pending handle means the gather is on its way.
Gather(t, U) ==
  LET new == {u \in U : ~t.gather[u]}
  IN  [t EXCEPT !.gather = Replaced(@, new, Fresh(TRUE)),
                !.buffer = Replaced(@, new, Fresh(version))]

Prefetch(t, U) == Gather(t, {u \in U : t.is_shard[u]})

Unshard(t, U) ==
  LET sharded == {u \in U : t.is_shard[u]}
  IN  [Gather(t, sharded) EXCEPT !.gather = Replaced(@, sharded, Fresh(FALSE)),
                                 !.is_shard = Replaced(@, sharded, Fresh(FALSE))]

\* The adapter's prefetch lists: the next children, and the previous ones.
ForwardCells(u) == {v \in Kids : Root < u /\ u < v /\ v <= u + cfg.forward_prefetch}
BackwardCells(u) == {v \in Kids : v < u /\ u - cfg.backward_prefetch <= v}

-----------------------------------------------------------------------------
(* Reduction, one parameter at a time (comm_fusion off). *)

\* A gradient's source is the accumulation buffer when there is one.
Source(t, u) == IF t.acc[u] # EmptyBag THEN t.acc[u] ELSE t.grad[u]

ClearSource(t, U) ==
  [t EXCEPT !.acc = Emptied(@, U),
            !.grad = Emptied(@, {u \in U : t.acc[u] = EmptyBag})]

\* _wait_prev_reduce_scatter; the groups it returns are those it found.
WaitGroups(t) ==
  LET done == ToSet(t.pre_all_reduce_groups)
  IN  [ClearSource(t, done) EXCEPT !.rs = Emptied(@, done), !.pre_all_reduce_groups = <<>>]

\* The flag read here is that of the unit, or root hook, that waits.
WaitParams(t) ==
  LET done == ToSet(t.pre_reduce_scatter_params)
      cleared == [ClearSource(t, done) EXCEPT !.pre_reduce_scatter_params = <<>>]
  IN  IF t.requires_all_reduce
      THEN [cleared EXCEPT !.rs = Added(@, done, t.partial), !.partial = Emptied(@, done)]
      ELSE [cleared EXCEPT !.partial = Added(@, done, t.rs), !.rs = Emptied(@, done)]

\* mutant: replicas are not told from a plain sharded group.
ScatterOnly(t, u) ==
  LET g == Source(t, u)
  IN  IF g = EmptyBag THEN t
      ELSE [t EXCEPT !.rs[u] = g, !.pre_reduce_scatter_params = Append(@, u)]

IssueReduceScatter(t, u) ==
  LET g == Source(t, u)
  IN  IF g = EmptyBag THEN t
      ELSE IF t.requires_all_reduce /\ cfg.hsdp
           THEN [t EXCEPT !.rs[u] = g, !.bucket[u] = g,
                          !.pre_all_reduce_groups = Append(@, u)]
           ELSE [t EXCEPT !.rs[u] = g, !.pre_reduce_scatter_params = Append(@, u)]

IssueAllReduce(t, groups) ==
  [t EXCEPT !.bucket = Added(@, ToSet(groups), t.partial),
            !.partial = Emptied(@, ToSet(groups)),
            !.pending_all_reduce_groups = @ \o groups]

SplitAllReduce(t) ==
  LET done == ToSet(t.pending_all_reduce_groups)
  IN  [t EXCEPT !.ar = Replaced(@, done, t.bucket), !.bucket = Emptied(@, done),
                !.pending_all_reduce_groups = <<>>]

-----------------------------------------------------------------------------
(* Reduction by buckets (comm_fusion on). *)

SaveAllReduce(t) ==
  LET u == t.all_reduce_param_group
  IN  IF u = NoUnit THEN t
      ELSE [t EXCEPT !.ar[u] = t.bucket[u], !.bucket[u] = EmptyBag,
                     !.all_reduce_param_group = NoUnit]

AdvanceFused(t) ==
  LET u == t.pre_param_group
      r == [t EXCEPT !.pre_param_group = NoUnit]
      sum == t.bucket[u] (+) t.partial[u]
  IN  IF u = NoUnit THEN t
      ELSE IF ~t.requires_all_reduce
           THEN [r EXCEPT !.partial[u] = sum, !.bucket[u] = EmptyBag]
      ELSE IF cfg.hsdp
           THEN [r EXCEPT !.bucket[u] = sum, !.partial[u] = EmptyBag,
                          !.all_reduce_param_group = u]
      ELSE [r EXCEPT !.rs[u] = sum, !.bucket[u] = EmptyBag, !.partial[u] = EmptyBag]

IssueFused(t, u) ==
  LET g == Source(t, u)
  IN  IF g = EmptyBag THEN t
      ELSE ClearSource([t EXCEPT !.bucket[u] = g, !.pre_param_group = u], {u})

-----------------------------------------------------------------------------
(* The two hooks that end a backward. *)

Reduce(t, u) ==
  IF cfg.fused THEN IssueFused(AdvanceFused(SaveAllReduce(t)), u)
  ELSE IssueAllReduce(IssueReduceScatter(WaitParams(WaitGroups(t)), u),
                      t.pre_all_reduce_groups)

\* mutant: a new gradient is not added to the accumulated one first.
LeaveGradient(t, u) ==
  LET placed == IF t.reshard_after_backward THEN Shard(t, {u}) ELSE t
  IN  IF t.reduce_grads THEN Reduce(placed, u)
      ELSE [placed EXCEPT !.acc[u] = @ (+) placed.grad[u], !.grad[u] = EmptyBag]

PostBackward(t, u) ==
  LET summed == IF t.acc[u] # EmptyBag
                THEN [t EXCEPT !.acc[u] = @ (+) t.grad[u], !.grad[u] = EmptyBag] ELSE t
      placed == IF t.reshard_after_backward THEN Shard(summed, {u}) ELSE summed
  IN  IF t.reduce_grads THEN Reduce(placed, u)
      ELSE [placed EXCEPT !.acc[u] = @ (+) placed.grad[u], !.grad[u] = EmptyBag]

BackwardHook(t, u) ==
  IF t.scheduler_state[u] = "BACKWARD" THEN t
  ELSE PostBackward([t EXCEPT !.scheduler_state[u] = "BACKWARD"], u)

Tagged(b, level) == [x \in (DOMAIN b) \X {level} |-> b[x[1]]]

\* launch_tp_replicate_reduce_and_apply, of every unit.
ApplyReduced(t) ==
  LET reduction == [u \in Units |-> IF t.ar[u] # EmptyBag THEN Tagged(t.ar[u], "replicas")
                                    ELSE Tagged(t.rs[u], "shards")]
      applied == {u \in Units : reduction[u] # EmptyBag}
  IN  [ClearSource(t, applied) EXCEPT !.main = Added(@, applied, reduction),
                                      !.ar = Emptied(@, applied), !.rs = Emptied(@, applied)]

DrainFused(t) == SaveAllReduce(AdvanceFused(SaveAllReduce(t)))

DrainParams(t) ==
  SplitAllReduce(IssueAllReduce(WaitParams(WaitGroups(t)), t.pre_all_reduce_groups))

RootHook(t) ==
  LET posted == [FoldLeft(BackwardHook, t, AllUnits) EXCEPT !.root_bp_state = FALSE]
  IN  ApplyReduced(DrainParams(DrainFused(posted)))

-----------------------------------------------------------------------------
(* The calls of a pass.  A checkpointed segment is run again as soon as    *)
(* the backward of its last unit needs an activation of it.                *)

Call(hook, u) == [hook |-> hook, unit |-> u, micro |-> 0]

ForwardOf(U) ==
  FlattenSeq([u \in Kids |->
                IF u \in U THEN <<Call("forward_pre", u), Call("forward", u)>> ELSE <<>>])

ForwardCalls(U) ==
  <<Call("forward_pre", Root)>> \o ForwardOf(U) \o <<Call("forward", Root)>>

Segment(u) == {v \in Kids : (v - 1) \div 2 = (u - 1) \div 2}

BackwardOf(U, u, micro, quiet) ==
  LET segment == Segment(u) \cap U
      again == IF cfg.recompute /\ \A v \in segment : v <= u
               THEN ForwardOf(segment) ELSE <<>>
  IN  <<Call("backward_pre", u)>> \o again
      \o <<[Call("gradient", u) EXCEPT !.micro = micro]>>
      \o (IF quiet /\ \A v \in U : u <= v THEN <<>> ELSE <<Call("backward", u)>>)

\* quiet: no input of the first unit needs a gradient, so its own hook is
\* never called.  The root's is not either: a batch needs none.
BackwardCalls(U, micro, quiet) ==
  <<Call("backward_pre", Root)>>
  \o FlattenSeq([i \in Kids |->
                   LET u == NKids + 1 - i
                   IN  IF u \in U THEN BackwardOf(U, u, micro, quiet) ELSE <<>>])
  \o <<[Call("gradient", Root) EXCEPT !.micro = micro], Call("root_backward", Root)>>

-----------------------------------------------------------------------------
(* The hooks. *)

Running(hook, u) ==
  /\ todo # <<>>
  /\ Head(todo).hook = hook /\ Head(todo).unit = u
  /\ todo' = Tail(todo)
  /\ UNCHANGED <<cfg, version, fwd, bwd, used, lastUsed, reduced, stepped>>

\* mutant: recomputation prefetches as a forward does.
PrefetchAgain(u) ==
  /\ Running("forward_pre", u)
  /\ UNCHANGED computed
  /\ s' = IF s.scheduler_state[u] = "PRE_BACKWARD" THEN s
          ELSE Prefetch(Unshard([s EXCEPT !.scheduler_state[u] = "PRE_FORWARD"], {u}),
                        ForwardCells(u))

\* Recomputation prefetches nothing: the lists are put aside until its end.
ForwardPreHook(u) ==
  /\ Running("forward_pre", u)
  /\ UNCHANGED computed
  /\ s' = IF s.scheduler_state[u] = "PRE_BACKWARD" THEN s
          ELSE Prefetch(Unshard([s EXCEPT !.scheduler_state[u] = "PRE_FORWARD"], {u}),
                        IF s.root_bp_state THEN {} ELSE ForwardCells(u))

\* mutant: a unit of a pass without gradients stays gathered.
ReshardForBackwardOnly(u) ==
  /\ Running("forward", u)
  /\ UNCHANGED computed
  /\ s' = IF s.scheduler_state[u] = "PRE_BACKWARD" \/ s.root_bp_state THEN s
          ELSE LET t == [s EXCEPT !.scheduler_state[u] = "FORWARD"]
               IN  IF cfg.reshard_after_forward /\ fwd > 0 THEN Shard(t, {u}) ELSE t

ForwardHook(u) ==
  /\ Running("forward", u)
  /\ UNCHANGED computed
  /\ s' = IF s.scheduler_state[u] = "PRE_BACKWARD" \/ s.root_bp_state THEN s
          ELSE LET t == [s EXCEPT !.scheduler_state[u] = "FORWARD"]
               IN  IF cfg.reshard_after_forward THEN Shard(t, {u}) ELSE t

BackwardPreHook(u) ==
  /\ Running("backward_pre", u)
  /\ UNCHANGED computed
  /\ s' = IF s.scheduler_state[u] = "PRE_BACKWARD" THEN s
          ELSE LET t == [s EXCEPT !.scheduler_state[u] = "PRE_BACKWARD",
                                  !.root_bp_state = TRUE]
               IN  Prefetch(IF cfg.reshard_after_forward THEN Unshard(t, {u}) ELSE t,
                            BackwardCells(u))

\* Autograd adds the gradient of a unit to its parameter, all of it before
\* the unit's own backward hook.
Gradient(u) ==
  /\ Running("gradient", u)
  /\ s' = [s EXCEPT !.grad[u] = @ (+) SetToBag({Head(todo).micro})]
  /\ computed' = [computed EXCEPT ![u] = @ \cup {Head(todo).micro}]

PostBackwardHook(u) ==
  /\ Running("backward", u)
  /\ UNCHANGED computed
  /\ s' = BackwardHook(s, u)

RootBackwardHook ==
  /\ Running("root_backward", Root)
  /\ UNCHANGED computed
  /\ s' = RootHook(s)

-----------------------------------------------------------------------------
(* The caller. *)

UsedSets == IF cfg.skip THEN {Kids, Kids \ {NKids - 1}} ELSE {Kids}

InFlight == IF cfg.pipeline THEN 2 ELSE 1

\* model_reshard and configure_fsdp_gradient_sync, before every micro-batch.
TrainerFlags(micro) ==
  LET last == micro = NMicro
  IN  [s EXCEPT !.reshard_after_backward = ~cfg.keep \/ last,
                !.reduce_grads = cfg.requires_grad_sync \/ last,
                !.requires_all_reduce = ~cfg.hsdp \/ last]

\* _prepare_fsdp_backward, at the start of a run of the schedule.
PipelineFlags(micro) ==
  IF micro = 1 THEN [s EXCEPT !.reshard_after_backward = FALSE, !.reduce_grads = FALSE]
  ELSE s

\* The schedule gathers a stage before each of its steps: PipelineOrder.
Gathered == cfg.pipeline => \A u \in Units : ~s.is_shard[u]

BeginForward ==
  /\ todo = <<>> /\ version <= NSteps /\ ~reduced
  /\ fwd < NMicro /\ fwd - bwd < InFlight /\ Gathered
  /\ \E U \in UsedSets : todo' = ForwardCalls(U) /\ used' = Append(used, U)
  /\ s' = IF cfg.pipeline THEN PipelineFlags(fwd + 1) ELSE TrainerFlags(fwd + 1)
  /\ fwd' = fwd + 1
  /\ UNCHANGED <<cfg, version, bwd, lastUsed, reduced, computed, stepped>>

BeginBackward ==
  /\ todo = <<>> /\ bwd < fwd /\ Gathered
  /\ \E quiet \in BOOLEAN :
       todo' = BackwardCalls(Head(used), (version - 1) * NMicro + bwd + 1, quiet)
  /\ used' = Tail(used) /\ lastUsed' = Head(used)
  /\ bwd' = bwd + 1
  /\ UNCHANGED <<cfg, s, version, fwd, reduced, computed, stepped>>

\* FSDP_UNSHARD and FSDP_RESHARD of the stage, between its steps.
PipelineGathers ==
  /\ cfg.pipeline /\ todo = <<>> /\ version <= NSteps /\ bwd < NMicro
  /\ s' \in {Unshard(s, Units), Shard(s, Units)}
  /\ UNCHANGED <<cfg, version, todo, fwd, bwd, used, lastUsed, reduced, computed, stepped>>

\* stage.execute_reduce_grad, after the last backward of the stage.
ExecuteReduceGrad ==
  /\ cfg.pipeline /\ todo = <<>> /\ bwd = NMicro /\ ~reduced
  /\ s' = RootHook(FoldLeft(PostBackward,
                            [s EXCEPT !.reshard_after_backward = TRUE, !.reduce_grads = TRUE],
                            AllUnits))
  /\ reduced' = TRUE
  /\ UNCHANGED <<cfg, version, todo, fwd, bwd, used, lastUsed, computed, stepped>>

StepReady == todo = <<>> /\ bwd = NMicro /\ (cfg.pipeline => reduced)

\* optimizer.step() and zero_grad().
OptimizerStep ==
  /\ StepReady
  /\ s' = [s EXCEPT !.main = Fresh(EmptyBag)]
  /\ stepped' = [u \in Units |-> stepped[u] (+) s.main[u]]
  /\ version' = version + 1
  /\ fwd' = 0 /\ bwd' = 0 /\ reduced' = FALSE /\ lastUsed' = {}
  /\ UNCHANGED <<cfg, todo, used, computed>>

\* A forward without gradients, between two steps.
Evaluate ==
  /\ ~cfg.pipeline /\ todo = <<>> /\ fwd = 0 /\ version <= NSteps
  /\ \E U \in UsedSets : todo' = ForwardCalls(U)
  /\ UNCHANGED <<cfg, s, version, fwd, bwd, used, lastUsed, reduced, computed, stepped>>

Idle ==
  /\ \A u \in Units : \A bag \in {s.rs[u], s.bucket[u], s.ar[u]} : bag = EmptyBag
  /\ s.pre_reduce_scatter_params = <<>> /\ s.pre_all_reduce_groups = <<>>
  /\ s.pending_all_reduce_groups = <<>>
  /\ s.pre_param_group = NoUnit /\ s.all_reduce_param_group = NoUnit

\* reset_iter_state, when nothing is left to reduce, as its documentation
\* demands: the queues and gradients it clears are empty already.
ResetIterState ==
  /\ todo = <<>> /\ fwd = 0 /\ Idle
  /\ \A u \in Units : \A bag \in {s.grad[u], s.acc[u], s.partial[u]} : bag = EmptyBag
  /\ s' = [s EXCEPT !.scheduler_state = Fresh("None"), !.gather = Fresh(FALSE),
                    !.root_bp_state = FALSE]
  /\ UNCHANGED <<cfg, version, todo, fwd, bwd, used, lastUsed, reduced, computed, stepped>>

Next ==
  \/ \E u \in Units : \/ ForwardPreHook(u) \/ ForwardHook(u) \/ BackwardPreHook(u)
                      \/ Gradient(u) \/ PostBackwardHook(u)
  \/ RootBackwardHook
  \/ BeginForward \/ BeginBackward \/ PipelineGathers \/ ExecuteReduceGrad
  \/ OptimizerStep \/ Evaluate \/ ResetIterState

Spec == Init /\ [][Next]_vars

-----------------------------------------------------------------------------
(* Properties. *)

\* A unit computes, in forward, in recomputation and in backward, with
\* parameters that are gathered, and gathered since the optimizer last wrote
\* them: no gather of an earlier step is taken for the current one, in the
\* configurations in which a unit that some micro-batches skip is neither
\* prefetched by others nor kept gathered (MCConfigs leaves the others out).
ComputesFresh ==
  todo # <<>> /\ Head(todo).hook \in {"forward", "gradient"} =>
    LET u == Head(todo).unit IN ~s.is_shard[u] /\ s.buffer[u] = version

AwaitsScatter(u) == u \in ToSet(s.pre_reduce_scatter_params \o s.pre_all_reduce_groups)

Untagged(b) ==
  LET micros == {x[1] : x \in DOMAIN b}
      Copies(m) == (IF <<m, "shards">> \in DOMAIN b THEN b[<<m, "shards">>] ELSE 0)
                 + (IF <<m, "replicas">> \in DOMAIN b THEN b[<<m, "replicas">>] ELSE 0)
  IN  [m \in micros |-> Copies(m)]

\* Where the gradients of a unit are.  Until its reduce-scatter is waited for,
\* the source is still there beside the output, and an output in a fused
\* buffer is a view of it.
Held(u) ==
  (IF AwaitsScatter(u) THEN EmptyBag ELSE s.grad[u] (+) s.acc[u])
  (+) (IF s.bucket[u] # EmptyBag THEN s.bucket[u] ELSE s.rs[u])
  (+) s.partial[u] (+) s.ar[u] (+) Untagged(s.main[u] (+) stepped[u])

\* Nothing lost, nothing twice: every micro-batch's gradient is in exactly one
\* of the buffers it moves through, or was stepped, at every hook of every pass.
GradientsConserved == \A u \in Units : Held(u) = SetToBag(computed[u])

FullLevel == IF cfg.hsdp THEN "replicas" ELSE "shards"

\* When the optimizer steps, it finds all that was computed of every unit the
\* last micro-batch used, reduced over the shards and, with HSDP, the replicas.
StepSeesAll ==
  StepReady => \A u \in Units :
    u \in lastUsed \cup {Root} \/ cfg.pipeline =>
      s.main[u] (+) stepped[u] = Tagged(SetToBag(computed[u]), FullLevel)

\* Sharding saves memory: besides the unit that computes, only the prefetched
\* ones hold gathered parameters, and one reduce-scatter is in flight.
LiveBound ==
  /\ Len(s.pre_reduce_scatter_params) + Len(s.pre_all_reduce_groups) <= 1
  /\ cfg.reshard_after_forward /\ ~cfg.keep /\ ~cfg.recompute =>
       Cardinality({u \in Kids : s.buffer[u] # Freed})
         <= 1 + (IF s.root_bp_state THEN cfg.backward_prefetch ELSE cfg.forward_prefetch)

\* hsdp_scheduler.py:536: the root's hook "let modules which are not triggered
\* backward_hook launch backward communication", so that a step would find the
\* gradients of those units too.
UntriggeredReduce ==
  StepReady => \A u \in Units :
    s.main[u] (+) stepped[u] = Tagged(SetToBag(computed[u]), FullLevel)

=============================================================================
