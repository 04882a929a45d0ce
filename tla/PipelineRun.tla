---------------------------- MODULE PipelineRun ----------------------------
(***************************************************************************)
(* PipelineScheduleRuntime.run_microbatches on every rank of a pipeline,   *)
(* with the P2P transport between the ranks.                               *)
(*                                                                         *)
(* Each rank executes its order step by step.  A P2P step builds its specs *)
(* on the stage (which moves entries between the stage caches), posts the  *)
(* operations to the peer and, unless overlap_p2p is set, waits for them;  *)
(* with overlap_p2p a receive is waited by the step that consumes it and a *)
(* send at the end of the iteration.  Several iterations follow each other *)
(* without a barrier, so neighbours may be in different ones.              *)
(*                                                                         *)
(* A configuration record has, besides the fields of PipelineOrder:        *)
(*   p2p     overlap_p2p                 data  run_with_dataiterator       *)
(*   cb      a callback runs the two halves of an overlap concurrently     *)
(*   mirror  the transport matches two batches only when their shapes      *)
(*           mirror each other (else operation by operation, in order)     *)
(*   dyn     dyn_shape                   shared  ranks of the stages with  *)
(*   raises  the (type, stage, micro) of         a shared parameter        *)
(*           computations that raise       calls of run_microbatches       *)
(***************************************************************************)
EXTENDS PipelineOrder, Functions

CONSTANT Configs  \* the configurations explored

ASSUME ConfigsAssumption ==
    \A c \in Configs : /\ c.R \in Nat \ {0} /\ c.M \in Nat /\ c.calls \in Nat \ {0}
                      /\ c.shared \subseteq RanksOf(c)

\* Bubbles, and data steps without a data iterator, are skipped at run time.
IsActive(c, step) ==
    /\ step.type # "NONE"
    /\ c.data \/ step.type \notin {"DATA_LOAD", "DATA_SEND", "DATA_RECV"}
ActiveOrders(c) ==
    LET built == BuildExecOrder(c) IN
        [r \in RanksOf(c) |-> SelectSeq(built[r], LAMBDA s : IsActive(c, s))]

VARIABLES
    cfg,       \* the configuration of this run
    orders,    \* the exec_order of each rank, built once
    \* one value per rank
    status,    \* "run", "sync", "drain", "done", or "unwind", "raised"
    iter,      \* the iteration the rank is in
    pc,        \* position in its order
    part,      \* sub-steps of the current OVERLAP already executed
    bnd,       \* boundary_p2p operations of it already issued
    batches,   \* peer batches of the current BATCH_SEND_RECV still to issue
    waiting,   \* operations the rank is blocked on
    handles,   \* fwd_handle_cache and bwd_handle_cache
    sends,     \* _send_handles
    data,      \* micro-batches whose inputs the rank has (kwarg_mbs)
    \* shared by the stages
    cache,     \* the stage caches, as sets of (stage, micro)
    meta,      \* meta exchanges done (_meta_been_send, _meta_been_recv)
    wire,      \* posted batches, per lane and ordered pair of ranks
    \* history
    computed,  \* forwards, dx and dw done, as (stage, micro of the whole run)
    faults     \* data hazards met

locals == << status, iter, pc, part, bnd, batches, waiting, handles, sends, data >>
vars == << cfg, orders, locals, cache, meta, wire, computed, faults >>

Ranks == RanksOf(cfg)
LastStage == StageNum(cfg) - 1
Order(r) == orders[r]
Cur(r) == Order(r)[pc[r]]
Key(step) == << step.stage, step.micro >>
\* The micro-batch of the whole run, and the tensor a P2P operation carries.
Global(r, m) == iter[r] * cfg.M + m
Tensor(r, kind, s, m) == << kind, s, Global(r, m) >>
Op(dir, tensor) == [dir |-> dir, tensor |-> tensor]

Lanes == {"world", "pp"}
TensorLane == IF cfg.mode = "plain" THEN "world" ELSE "pp"

\* fwd_outputs_cache, fwd_cache, bwd_cache, the entries and live buffers of
\* args_recv_info and grad_recv_info, _dw_cache.
NoCache == [outs |-> {}, acts |-> {}, grads |-> {}, args |-> {}, abufs |-> {},
            slots |-> {}, gbufs |-> {}, dw |-> {}]

Init ==
    /\ cfg \in Configs
    /\ orders = ActiveOrders(cfg)
    /\ status = [r \in Ranks |-> "run"]
    /\ iter = [r \in Ranks |-> 0]
    /\ pc = [r \in Ranks |-> 1]
    /\ part = [r \in Ranks |-> {}]
    /\ bnd = [r \in Ranks |-> 0]
    /\ batches = [r \in Ranks |-> <<>>]
    /\ waiting = [r \in Ranks |-> {}]
    /\ handles = [r \in Ranks |-> <<>>]
    /\ sends = [r \in Ranks |-> {}]
    /\ data = [r \in Ranks |-> {}]
    /\ cache = NoCache
    /\ meta = {}
    /\ wire = [w \in Lanes \X Ranks \X Ranks |-> <<>>]
    /\ computed = [fwd |-> {}, dx |-> {}, dw |-> {}]
    /\ faults = {}

-----------------------------------------------------------------------------
(***************************************************************************)
(* Waiting.  An operation is in flight while it is on the wire.            *)
(***************************************************************************)
InFlight(r) ==
    UNION {UNION {ToSet(wire[w][k]) : k \in DOMAIN wire[w]} :
              w \in {v \in DOMAIN wire : v[2] = r}}
NeverWaits(r, ops) == TRUE  \* mutant: wait() returns at once
Completed(r, ops) == ops \cap InFlight(r) = {}

AtStep(r, types) ==
    /\ status[r] = "run"
    /\ pc[r] <= Len(Order(r))
    /\ Cur(r).type \in types
    /\ Completed(r, waiting[r])

HandleLost(r, key) == {}  \* mutant: a consumer does not find its receive
HandleOf(r, key) == IF key \in DOMAIN handles[r] THEN handles[r][key] ELSE {}
Forget(r, key) == Restrict(handles[r], DOMAIN handles[r] \ {key})

Advance(r) == pc' = [pc EXCEPT ![r] = @ + 1]

-----------------------------------------------------------------------------
(***************************************************************************)
(* The *_specs builders of a stage: the operation a P2P step posts, its    *)
(* effect on the caches and the KeyError it may raise.                     *)
(***************************************************************************)
Posts(r, step) ==
    LET s == step.stage
        m == step.micro
    IN  CASE step.type = "FWD_SEND" ->
                 When(s # LastStage, << Op("send", Tensor(r, "fwd", s, m)) >>)
          [] step.type = "FWD_RECV" -> << Op("recv", Tensor(r, "fwd", s - 1, m)) >>
          [] step.type = "BWD_SEND" ->
                 When(Key(step) \in cache.args,
                      << Op("send", Tensor(r, "bwd", s, m)) >>)
          [] step.type = "BWD_RECV" ->
                 When(Key(step) \in cache.slots,
                      << Op("recv", Tensor(r, "bwd", s + 1, m)) >>)

CacheAfter(st, step) ==
    LET k == {Key(step)} IN
    CASE step.type = "FWD_SEND" /\ step.stage # LastStage ->
             [st EXCEPT !.outs = @ \ k, !.slots = @ \cup k, !.gbufs = @ \ k]
      [] step.type = "FWD_RECV" -> [st EXCEPT !.args = @ \cup k, !.abufs = @ \cup k]
      [] step.type = "BWD_SEND" -> [st EXCEPT !.grads = @ \ k]
      [] step.type = "BWD_RECV" -> [st EXCEPT !.gbufs = @ \cup (k \cap st.slots)]
      [] OTHER -> st

SpecFails(step) ==
    \/ /\ step.type = "FWD_SEND"
       /\ step.stage # LastStage
       /\ Key(step) \notin cache.outs
    \/ /\ step.type = "BWD_SEND"
       /\ Key(step) \in cache.args \ cache.grads

PeerOf(step) ==
    LET s == step.stage IN
    StageToRank(cfg, IF step.type \in {"FWD_SEND", "BWD_RECV"} THEN s + 1 ELSE s - 1)

RecvKey(step) ==
    << IF step.type = "FWD_RECV" THEN "fwd" ELSE "bwd", step.stage, step.micro >>

(***************************************************************************)
(* _communicate_meta: before its first forward send or receive (before     *)
(* each one with dyn_shape) a stage exchanges the tensors' shapes with its *)
(* neighbour, blocking, on the default group.                              *)
(***************************************************************************)
MetaKey(r, step) ==
    << step.type, step.stage, IF cfg.dyn THEN Global(r, step.micro) ELSE 0 >>
SenderNeedsMeta(r, step) ==  \* mutant: only the sender takes part
    /\ step.type = "FWD_SEND" /\ step.stage # LastStage
    /\ MetaKey(r, step) \notin meta
NeedsMeta(r, step) ==
    /\ \/ step.type = "FWD_SEND" /\ step.stage # LastStage
       \/ step.type = "FWD_RECV"
    /\ MetaKey(r, step) \notin meta
MetaOp(r, step) ==
    LET g == MetaKey(r, step)[3] IN
    IF step.type = "FWD_SEND" THEN Op("send", << "meta", step.stage, g >>)
    ELSE Op("recv", << "meta", step.stage - 1, g >>)

\* The P2P steps whose specs the rank builds next.
Building(r) ==
    CASE Cur(r).type \in P2PTypes -> << Cur(r) >>
      [] Cur(r).type = "BATCH_SEND_RECV" /\ batches[r] = <<>> -> Cur(r).sub
      [] IsOverlap(Cur(r)) /\ 2 \in part[r] /\ bnd[r] < Len(Cur(r).boundary) ->
             << Cur(r).boundary[bnd[r] + 1] >>
      [] OTHER -> <<>>

Post(r, lane, peer, ops) ==
    wire' = IF ops = <<>> THEN wire
            ELSE [wire EXCEPT ![<< lane, r, peer >>] = Append(@, ops)]

AtBuild(r) == AtStep(r, P2PTypes \cup {"BATCH_SEND_RECV", "OVERLAP_B_F"})

ExchangeMeta(r) ==
    /\ AtBuild(r)
    /\ \E k \in DOMAIN Building(r) :
        LET step == Building(r)[k] IN
        /\ NeedsMeta(r, step)
        /\ \A j \in 1 .. k : ~SpecFails(Building(r)[j])
        /\ \A j \in 1 .. k - 1 : ~NeedsMeta(r, Building(r)[j])
        /\ meta' = meta \cup {MetaKey(r, step)}
        /\ Post(r, "world", PeerOf(step), << MetaOp(r, step) >>)
        /\ waiting' = [waiting EXCEPT ![r] = {MetaOp(r, step)}]
    /\ UNCHANGED << cfg, orders, status, iter, pc, part, bnd, batches, handles, sends,
                    data, cache, computed, faults >>

BuildRaises(r) ==
    /\ AtBuild(r)
    /\ \E k \in DOMAIN Building(r) :
        /\ SpecFails(Building(r)[k])
        /\ \A j \in 1 .. k - 1 : ~NeedsMeta(r, Building(r)[j])

SpecsReady(r) ==
    /\ AtBuild(r)
    /\ \A k \in DOMAIN Building(r) :
        ~SpecFails(Building(r)[k]) /\ ~NeedsMeta(r, Building(r)[k])

-----------------------------------------------------------------------------
(***************************************************************************)
(* Where the handles of a posted batch go: the blocked rank, the cache of  *)
(* each receive in it (a riding send goes along), or the deferred sends.   *)
(***************************************************************************)
Route(r, ops, recvKeys) ==
    IF ~cfg.p2p
    THEN /\ waiting' = [waiting EXCEPT ![r] = ops]
         /\ UNCHANGED << handles, sends >>
    ELSE /\ waiting' = [waiting EXCEPT ![r] = {}]
         /\ IF recvKeys # {}
            THEN /\ handles' = [handles EXCEPT ![r] =
                       [k \in recvKeys \cup DOMAIN handles[r] |->
                           IF k \in recvKeys THEN ops ELSE handles[r][k]]]
                 /\ UNCHANGED sends
            ELSE /\ sends' = [sends EXCEPT ![r] = @ \cup ops]
                 /\ UNCHANGED handles

\* recv_fwd, recv_bwd, send_fwd, send_bwd
Transfer(r, step) ==
    LET ops == Posts(r, step) IN
    /\ Post(r, TensorLane, PeerOf(step), ops)
    /\ cache' = CacheAfter(cache, step)
    /\ Route(r, ToSet(ops), IF step.type \in RecvTypes THEN {RecvKey(step)} ELSE {})

P2PStep(r) ==
    /\ SpecsReady(r)
    /\ Cur(r).type \in P2PTypes
    /\ Transfer(r, Cur(r))
    /\ Advance(r)
    /\ UNCHANGED << cfg, orders, status, iter, part, bnd, batches, data, meta, computed, faults >>

\* _exec_batch_send_recv: all specs first, then one batch per peer, the peers
\* in the order of their first operation.
PeerBatches(r) ==
    LET sub == Cur(r).sub
        posting(k) == Posts(r, sub[k]) # <<>>
        first(k) == posting(k) /\ \A j \in 1 .. k - 1 :
                        posting(j) => PeerOf(sub[j]) # PeerOf(sub[k])
        to(p, k) == posting(k) /\ PeerOf(sub[k]) = p
        batch(p) ==
            [peer |-> p,
             ops |-> FlattenSeq([k \in DOMAIN sub |-> When(to(p, k), Posts(r, sub[k]))]),
             recvs |-> {RecvKey(sub[k]) :
                           k \in {j \in DOMAIN sub : to(p, j) /\ sub[j].type \in RecvTypes}}]
    IN  FlattenSeq([k \in DOMAIN sub |-> When(first(k), << batch(PeerOf(sub[k])) >>)])

BatchBuild(r) ==
    /\ SpecsReady(r)
    /\ Cur(r).type = "BATCH_SEND_RECV"
    /\ batches[r] = <<>>
    /\ batches' = [batches EXCEPT ![r] = PeerBatches(r)]
    /\ cache' = FoldLeft(CacheAfter, cache, Cur(r).sub)
    /\ pc' = IF PeerBatches(r) = <<>> THEN [pc EXCEPT ![r] = @ + 1] ELSE pc
    /\ UNCHANGED << cfg, orders, status, iter, part, bnd, waiting, handles, sends, data,
                    meta, wire, computed, faults >>

BatchIssue(r) ==
    /\ AtStep(r, {"BATCH_SEND_RECV"})
    /\ batches[r] # <<>>
    /\ LET b == Head(batches[r]) IN
        /\ Post(r, TensorLane, b.peer, b.ops)
        /\ Route(r, ToSet(b.ops), b.recvs)
    /\ batches' = [batches EXCEPT ![r] = Tail(@)]
    /\ pc' = IF Len(batches[r]) = 1 THEN [pc EXCEPT ![r] = @ + 1] ELSE pc
    /\ UNCHANGED << cfg, orders, status, iter, part, bnd, data, cache, meta, computed, faults >>

-----------------------------------------------------------------------------
(***************************************************************************)
(* Compute steps.  A compute step first waits for the receive cached for   *)
(* it, then runs the chunk; the chunk raises when an input is missing.     *)
(***************************************************************************)
ComputeTypes == {"FWD", "BWD", "BWD_INPUT", "BWD_WEIGHT"}
ComputeKey(step) ==
    << IF step.type = "FWD" THEN "fwd" ELSE "bwd", step.stage, step.micro >>

HasGradInput(st, step) ==
    /\ Key(step) \in st.acts
    /\ step.stage # LastStage => Key(step) \in st.slots \cap st.gbufs
    /\ step.stage # 0 => Key(step) \in st.abufs

\* On the first stage dx has nothing to compute and dw is the whole backward.
NoInputGrad(step) == step.type = "BWD_INPUT" /\ step.stage = 0
InputGrad(step) == step.type = "BWD_INPUT" /\ step.stage # 0
WholeBackward(step) ==
    \/ step.type = "BWD"
    \/ step.type = "BWD_WEIGHT" /\ step.stage = 0

CanCompute(r, step) ==
    /\ << step.type, step.stage, step.micro >> \notin cfg.raises
    /\ CASE step.type = "FWD" ->
                /\ step.stage # 0 => Key(step) \in cache.args \cap cache.abufs
                /\ cfg.data => step.micro \in data[r]
         [] NoInputGrad(step) -> TRUE
         [] WholeBackward(step) \/ InputGrad(step) -> HasGradInput(cache, step)
         [] OTHER -> Key(step) \in cache.dw

CacheComputed(step) ==
    LET k == {Key(step)}
        ifLast == IF step.stage = LastStage THEN k ELSE {}
        ifNotFirst == IF step.stage # 0 THEN k ELSE {}
    IN  CASE step.type = "FWD" ->
                 [cache EXCEPT !.acts = @ \cup k, !.outs = @ \cup k]
          [] NoInputGrad(step) -> cache
          [] WholeBackward(step) ->
                 [cache EXCEPT !.acts = @ \ k, !.outs = @ \ ifLast,
                               !.grads = @ \cup ifNotFirst,
                               !.gbufs = @ \ k, !.abufs = @ \ k]
          [] InputGrad(step) ->
                 [cache EXCEPT !.acts = @ \ k, !.dw = @ \cup k, !.grads = @ \cup k]
          [] OTHER ->
                 [cache EXCEPT !.dw = @ \ k, !.outs = @ \ ifLast,
                               !.gbufs = @ \ k, !.abufs = @ \ k]

ComputedAfter(r, step) ==
    LET g == {<< step.stage, Global(r, step.micro) >>} IN
    CASE step.type = "FWD" -> [computed EXCEPT !.fwd = @ \cup g]
      [] NoInputGrad(step) -> computed
      [] WholeBackward(step) -> [computed EXCEPT !.dx = @ \cup g, !.dw = @ \cup g]
      [] InputGrad(step) -> [computed EXCEPT !.dx = @ \cup g]
      [] OTHER -> [computed EXCEPT !.dw = @ \cup g]

\* The receive whose buffer the step reads.
InputOp(r, step) ==
    Op("recv", IF step.type = "FWD" THEN Tensor(r, "fwd", step.stage - 1, step.micro)
               ELSE Tensor(r, "bwd", step.stage + 1, step.micro))

Compute(r, step) ==
    /\ Completed(r, HandleOf(r, ComputeKey(step)))
    /\ CanCompute(r, step)
    /\ handles' = [handles EXCEPT ![r] = Forget(r, ComputeKey(step))]
    /\ cache' = CacheComputed(step)
    /\ computed' = ComputedAfter(r, step)
    /\ faults' = IF InputOp(r, step) \in InFlight(r) THEN faults \cup {"unlanded"}
                 ELSE faults

ComputeStep(r) ==
    /\ AtStep(r, ComputeTypes)
    /\ Compute(r, Cur(r))
    /\ Advance(r)
    /\ UNCHANGED << cfg, orders, status, iter, part, bnd, batches, waiting, sends, data, meta, wire >>

\* The sub-steps of an overlap, in order or, under a callback, in any order.
\* The boundary P2P goes out as soon as the forward half is done.
SubStepReady(r, k) ==
    /\ IF cfg.cb
       THEN /\ status[r] = "run"
            /\ pc[r] <= Len(Order(r))
            /\ IsOverlap(Cur(r))
            /\ 2 \in part[r] \/ Completed(r, waiting[r])
       ELSE /\ AtStep(r, {"OVERLAP_B_F"})
            /\ k = 2 => 1 \in part[r]
    /\ k \notin part[r]

SubStep(r) ==
    /\ \E k \in 1 .. 2 :
        /\ SubStepReady(r, k)
        /\ Compute(r, Cur(r).sub[k])
        /\ part' = [part EXCEPT ![r] = @ \cup {k}]
    /\ UNCHANGED << cfg, orders, status, iter, pc, bnd, batches, waiting, sends, data, meta, wire >>

\* exec_boundary_p2p
BoundaryStep(r) ==
    /\ SpecsReady(r)
    /\ IsOverlap(Cur(r))
    /\ Building(r) # <<>>
    /\ Transfer(r, Building(r)[1])
    /\ bnd' = [bnd EXCEPT ![r] = @ + 1]
    /\ UNCHANGED << cfg, orders, status, iter, pc, part, batches, data, meta, computed, faults >>

OverlapEnd(r) ==
    /\ AtStep(r, {"OVERLAP_B_F"})
    /\ part[r] = {1, 2}
    /\ bnd[r] = Len(Cur(r).boundary)
    /\ part' = [part EXCEPT ![r] = {}]
    /\ bnd' = [bnd EXCEPT ![r] = 0]
    /\ Advance(r)
    /\ UNCHANGED << cfg, orders, status, iter, batches, waiting, handles, sends, data,
                    cache, meta, wire, computed, faults >>

ComputeRaises(r) ==
    \/ AtStep(r, ComputeTypes) /\ ~CanCompute(r, Cur(r))
    \/ \E k \in 1 .. 2 : SubStepReady(r, k) /\ ~CanCompute(r, Cur(r).sub[k])

-----------------------------------------------------------------------------
(***************************************************************************)
(* Data steps, under run_with_dataiterator: stage 0 loads the inputs of a  *)
(* micro-batch, every stage passes them on.  Both ends block.              *)
(***************************************************************************)
DataLoad(r) ==
    /\ AtStep(r, {"DATA_LOAD"})
    /\ data' = IF Cur(r).stage = 0
               THEN [data EXCEPT ![r] = @ \cup {Cur(r).micro}] ELSE data
    /\ Advance(r)
    /\ UNCHANGED << cfg, orders, status, iter, part, bnd, batches, waiting, handles,
                    sends, cache, meta, wire, computed, faults >>

DataTransfer(r) ==
    /\ AtStep(r, {"DATA_SEND", "DATA_RECV"})
    /\ LET m == Cur(r).micro
           sending == Cur(r).type = "DATA_SEND"
           op == Op(IF sending THEN "send" ELSE "recv", Tensor(r, "data", 0, m))
           peer == (IF sending THEN r + 1 ELSE r + cfg.R - 1) % cfg.R
       IN  /\ sending => m \in data[r]
           /\ data' = [data EXCEPT ![r] = @ \cup {m}]
           /\ Post(r, "world", peer, << op >>)
           /\ waiting' = [waiting EXCEPT ![r] = {op}]
    /\ Advance(r)
    /\ UNCHANGED << cfg, orders, status, iter, part, bnd, batches, handles, sends,
                    cache, meta, computed, faults >>

DataRaises(r) ==
    AtStep(r, {"DATA_SEND"}) /\ Cur(r).micro \notin data[r]

\* A callback hands the exception of one half on when its two threads have
\* ended: the backward, and the forward with the boundary it issues.
Joined(r) ==
    LET fails(k) == k \notin part[r] /\ ~CanCompute(r, Cur(r).sub[k])
    IN  /\ 1 \in part[r] \/ fails(1)
        /\ \/ fails(2)
           \/ /\ 2 \in part[r] /\ Completed(r, waiting[r])
              /\ bnd[r] = Len(Cur(r).boundary) \/ BuildRaises(r)

\* An exception leaves the step loop for run()'s finally.
StepError(r) ==
    /\ BuildRaises(r) \/ ComputeRaises(r) \/ DataRaises(r)
    /\ cfg.cb /\ IsOverlap(Cur(r)) => Joined(r)
    /\ status' = [status EXCEPT ![r] = "unwind"]
    /\ UNCHANGED << cfg, orders, iter, pc, part, bnd, batches, waiting, handles, sends,
                    data, cache, meta, wire, computed, faults >>

-----------------------------------------------------------------------------
(***************************************************************************)
(* The end of run_microbatches: all-reduce the shared parameters' grads,   *)
(* wait for the deferred sends, and in run()'s finally whatever is left.   *)
(***************************************************************************)
LastStepUndrained(r) ==  \* mutant: returns without waiting the deferred sends
    /\ status[r] = "run"
    /\ pc[r] > Len(Order(r))
    /\ Completed(r, waiting[r])
    /\ status' = [status EXCEPT ![r] = IF r \in cfg.shared THEN "sync" ELSE "done"]
    /\ UNCHANGED << cfg, orders, iter, pc, part, bnd, batches, waiting, handles, sends,
                    data, cache, meta, wire, computed, faults >>
LastStepUnsynced(r) ==  \* mutant: only the first stage joins the all-reduce
    /\ status[r] = "run"
    /\ pc[r] > Len(Order(r))
    /\ Completed(r, waiting[r])
    /\ status' = [status EXCEPT ![r] =
                      IF r \in cfg.shared /\ r = 0 THEN "sync" ELSE "drain"]
    /\ UNCHANGED << cfg, orders, iter, pc, part, bnd, batches, waiting, handles, sends,
                    data, cache, meta, wire, computed, faults >>
LastStep(r) ==
    /\ status[r] = "run"
    /\ pc[r] > Len(Order(r))
    /\ Completed(r, waiting[r])
    /\ status' = [status EXCEPT ![r] = IF r \in cfg.shared THEN "sync" ELSE "drain"]
    /\ UNCHANGED << cfg, orders, iter, pc, part, bnd, batches, waiting, handles, sends,
                    data, cache, meta, wire, computed, faults >>

SyncSharedParametersGrad ==
    /\ cfg.shared # {}
    /\ \A r \in cfg.shared : status[r] = "sync"
    /\ status' = [r \in Ranks |-> IF r \in cfg.shared THEN "drain" ELSE status[r]]
    /\ UNCHANGED << cfg, orders, iter, pc, part, bnd, batches, waiting, handles, sends,
                    data, cache, meta, wire, computed, faults >>

DrainSends(r) ==  \* mutant: the cached receives are dropped, not waited
    /\ status[r] \in {"drain", "unwind"}
    /\ Completed(r, sends[r])
    /\ status' = [status EXCEPT ![r] = IF @ = "drain" THEN "done" ELSE "raised"]
    /\ sends' = [sends EXCEPT ![r] = {}]
    /\ handles' = [handles EXCEPT ![r] = <<>>]
    /\ UNCHANGED << cfg, orders, iter, pc, part, bnd, batches, waiting, data, cache,
                    meta, wire, computed, faults >>
Drain(r) ==
    /\ status[r] \in {"drain", "unwind"}
    /\ Completed(r, sends[r] \cup UNION Range(handles[r]))
    /\ status' = [status EXCEPT ![r] = IF @ = "drain" THEN "done" ELSE "raised"]
    /\ sends' = [sends EXCEPT ![r] = {}]
    /\ handles' = [handles EXCEPT ![r] = <<>>]
    /\ UNCHANGED << cfg, orders, iter, pc, part, bnd, batches, waiting, data, cache,
                    meta, wire, computed, faults >>

\* The next call of run_microbatches.  The stage caches live on.
NextIteration(r) ==
    /\ status[r] = "done"
    /\ iter[r] + 1 < cfg.calls
    /\ status' = [status EXCEPT ![r] = "run"]
    /\ iter' = [iter EXCEPT ![r] = @ + 1]
    /\ pc' = [pc EXCEPT ![r] = 1]
    /\ data' = [data EXCEPT ![r] = {}]
    /\ waiting' = [waiting EXCEPT ![r] = {}]
    /\ UNCHANGED << cfg, orders, part, bnd, batches, handles, sends, cache, meta, wire,
                    computed, faults >>

-----------------------------------------------------------------------------
(***************************************************************************)
(* The transport.  The operations two ranks posted to each other on a lane *)
(* execute in queue order: the first send of one head batch meets the      *)
(* first receive of the other.                                             *)
(***************************************************************************)
FirstIn(batch, dir) == SelectInSeq(batch, LAMBDA o : o.dir = dir)
CountIn(batch, dir) == Len(SelectSeq(batch, LAMBDA o : o.dir = dir))
Mirrored(a, b) == /\ CountIn(a, "send") = CountIn(b, "recv")
                  /\ CountIn(a, "recv") = CountIn(b, "send")
Without(queue, i) == IF Len(Head(queue)) = 1 THEN Tail(queue)
                     ELSE << RemoveAt(Head(queue), i) >> \o Tail(queue)

Match(lane, r, p) ==
    LET mine == wire[<< lane, r, p >>]
        yours == wire[<< lane, p, r >>]
    IN  /\ mine # <<>> /\ yours # <<>>
        /\ LET i == FirstIn(Head(mine), "send")
               j == FirstIn(Head(yours), "recv")
           IN  /\ i # 0 /\ j # 0
               /\ cfg.mirror => Mirrored(Head(mine), Head(yours))
               /\ wire' = [wire EXCEPT ![<< lane, r, p >>] = Without(mine, i),
                                       ![<< lane, p, r >>] = Without(yours, j)]
               /\ faults' = IF Head(mine)[i].tensor = Head(yours)[j].tensor
                            THEN faults ELSE faults \cup {"crossed"}
    /\ UNCHANGED << cfg, orders, locals, cache, meta, computed >>

RankStep(r) ==
    \/ ExchangeMeta(r) \/ P2PStep(r) \/ BatchBuild(r) \/ BatchIssue(r)
    \/ ComputeStep(r) \/ SubStep(r) \/ BoundaryStep(r) \/ OverlapEnd(r)
    \/ DataLoad(r) \/ DataTransfer(r) \/ StepError(r)
    \/ LastStep(r) \/ Drain(r) \/ NextIteration(r)

AllDone == \A r \in Ranks : status[r] = "done" /\ iter[r] + 1 = cfg.calls
\* The peers of a rank that raised wait until the launcher ends the job.
Aborted == \E r \in Ranks : status[r] = "raised"
Terminated == (AllDone \/ Aborted) /\ UNCHANGED vars

Transport == \E lane \in Lanes, r, p \in Ranks : r # p /\ Match(lane, r, p)

Next ==
    \/ \E r \in Ranks : RankStep(r)
    \/ Transport
    \/ SyncSharedParametersGrad
    \/ Terminated

\* Every rank is a process of its own, and the transport makes progress.
AllRanks == UNION {RanksOf(c) : c \in Configs}
Fairness ==
    /\ \A r \in AllRanks : WF_vars(r \in Ranks /\ RankStep(r))
    /\ WF_vars(Transport)
    /\ WF_vars(SyncSharedParametersGrad)

Spec == Init /\ [][Next]_vars
FairSpec == Spec /\ Fairness

-----------------------------------------------------------------------------
(***************************************************************************)
(* What the runtime takes for granted of an order: every step names its    *)
(* stage and micro-batch by number, a batch consists of P2P steps, an      *)
(* overlap of two computations, and the receives hoisted to its boundary   *)
(* (attach_fwd_boundary_p2p) are for later steps, never for its own        *)
(* backward half, which may still be about to start.                       *)
(***************************************************************************)
LeafSteps == [type : STRING, stage : Nat, micro : Nat, sub : {<<>>}, boundary : {<<>>}]
MetaSteps == [type : STRING, stage : Nat, micro : Nat,
              sub : Seq(LeafSteps), boundary : Seq(LeafSteps)]
WellFormed(step) ==
    /\ step.type = "BATCH_SEND_RECV" => \A x \in ToSet(step.sub) : x.type \in P2PTypes
    /\ IsOverlap(step) =>
           /\ Len(step.sub) = 2
           /\ \A x \in ToSet(step.boundary) :
                  x.type \in P2PTypes /\ RecvKey(x) # ComputeKey(step.sub[1])
ASSUME OrdersAssumption ==
    \A c \in Configs : \A r \in RanksOf(c) :
        LET order == ActiveOrders(c)[r] IN
        /\ order \in Seq(MetaSteps)
        /\ \A k \in DOMAIN order : WellFormed(order[k])

(***************************************************************************)
(* Every receive is posted once in an order: the caches of handles have    *)
(* one place for each, and a second receive would drop the handles of the  *)
(* first, with those of the sends that ride with it.                       *)
(***************************************************************************)
ReceiveKeys(step) ==
    {RecvKey(x) : x \in {y \in {step} \cup ToSet(step.sub) \cup ToSet(step.boundary) :
                            y.type \in RecvTypes}}
ASSUME ReceivesAssumption ==
    \A c \in Configs : \A r \in RanksOf(c) :
        LET order == ActiveOrders(c)[r]
            keys == [k \in DOMAIN order |-> ReceiveKeys(order[k])]
        IN  \A k \in DOMAIN order :
                /\ \A j \in 1 .. k - 1 : keys[j] \cap keys[k] = {}
                /\ LET boundary == order[k].boundary IN
                   \A a, b \in DOMAIN boundary :
                       a # b => RecvKey(boundary[a]) # RecvKey(boundary[b])

-----------------------------------------------------------------------------
\* The type invariant of the ranks' control.
Statuses == {"run", "sync", "drain", "done", "unwind", "raised"}
TypeOK ==
    /\ cfg \in Configs
    /\ status \in [Ranks -> Statuses]
    /\ iter \in [Ranks -> 0 .. cfg.calls - 1]

(***************************************************************************)
(* The stages that share a parameter all-reduce its gradient once per call *)
(* of run_microbatches (sync_shared_parameters_grad), without a barrier    *)
(* between the calls.  All of them have always passed the same number of   *)
(* all-reduces, so one never sums gradients of different iterations.       *)
(***************************************************************************)
AllReduces(r) == iter[r] + (IF status[r] \in {"drain", "done"} THEN 1 ELSE 0)
AllReducesAgree == \A r, p \in cfg.shared : AllReduces(r) = AllReduces(p)

(***************************************************************************)
(* No step of a built order raises: no tensor is sent before it exists, no *)
(* chunk runs before its inputs were received.  The KeyError of the spec   *)
(* builders and the "exec order is wrong" RuntimeError of                  *)
(* forward_one_chunk are unreachable unless the user's module raises.      *)
(***************************************************************************)
NoStepFails ==
    cfg.raises = {} => \A r \in Ranks : status[r] \notin {"unwind", "raised"}

(***************************************************************************)
(* A message carries no tag, only its place in the queue of a pair of      *)
(* ranks.  Still every buffer gets the tensor it was posted for: its own   *)
(* kind, stage, micro-batch and iteration, whatever the two orders do in   *)
(* between (isend / irecv without tags in the *_specs of the stages).      *)
(***************************************************************************)
NoCrossedPayload == "crossed" \notin faults

(***************************************************************************)
(* No chunk reads a receive buffer the transport has not filled yet: the   *)
(* wait_fwd_recv and wait_bwd_recv of a step cover every receive posted    *)
(* for it, also when it was posted early, in a batch or at the boundary.   *)
(***************************************************************************)
NoUnlandedRead == "unlanded" \notin faults

(***************************************************************************)
(* A call of run_microbatches that returned leaves nothing behind that the *)
(* next call could pick up: no activation, output, gradient or live buffer *)
(* in the caches of the rank's stages, no handle, nothing on its wires.    *)
(***************************************************************************)
CleanAfterRun ==
    \A r \in Ranks : status[r] = "done" =>
        /\ InFlight(r) = {}
        /\ DOMAIN handles[r] = {}
        /\ \A k \in cache.outs \cup cache.acts \cup cache.grads
                    \cup cache.abufs \cup cache.gbufs \cup cache.dw :
               StageToRank(cfg, k[1]) # r

(***************************************************************************)
(* A rank whose step raised has waited for every operation it issued when  *)
(* run() hands the exception on (_drain_inflight_p2p).                     *)
(***************************************************************************)
RaisedReleases == \A r \in Ranks : status[r] = "raised" => InFlight(r) = {}

(***************************************************************************)
(* The complementarity add_send_recv calls load-bearing: the operations at *)
(* the heads of the two queues of a pair of ranks are never both sends and *)
(* never both receives, so the head of one always serves the other.        *)
(***************************************************************************)
HeadsMeet ==
    \A w \in DOMAIN wire :
        LET mine == wire[w]
            yours == wire[<< w[1], w[3], w[2] >>]
        IN  mine # <<>> /\ yours # <<>> =>
                \E o \in ToSet(Head(mine)), q \in ToSet(Head(yours)) : o.dir # q.dir

(***************************************************************************)
(* The activations a rank holds never exceed its warm-up depth plus the    *)
(* one of the forward that precedes its first backward: M for GPipe, the   *)
(* stages still ahead for 1F1B, and (V-1) rounds plus the stagger for the  *)
(* interleaved schedule; one more where a callback may run the forward     *)
(* half of an overlap before its backward half has freed anything.         *)
(***************************************************************************)
AtMost(a, b) == IF a < b THEN a ELSE b
LiveActivations(r) ==
    Cardinality({k \in cache.acts : StageToRank(cfg, k[1]) = r})
WarmupDepth(r) ==
    LET ahead == cfg.R - 1 - r IN
    CASE cfg.sched = "gpipe" -> cfg.M
      [] cfg.sched = "1f1b" -> AtMost(ahead + 1, cfg.M)
      [] OTHER -> (cfg.V - 1) * MicrosPerRound(cfg, 0)
                  + (IF cfg.less THEN ahead ELSE 2 * ahead) + 1
                  + (IF cfg.bf /\ cfg.cb THEN 1 ELSE 0)
ActivationBound == \A r \in Ranks : LiveActivations(r) <= WarmupDepth(r)

(***************************************************************************)
(* Every rank finishes its calls: no schedule hangs, no rank waits for an  *)
(* operation its peer never posts.                                         *)
(***************************************************************************)
Termination == cfg.raises = {} => <>AllDone

(***************************************************************************)
(* Whatever the schedule and the transport, what gets computed is a run of *)
(* the abstract pipeline: PipelineDataflow.                                *)
(***************************************************************************)
Dataflow == INSTANCE PipelineDataflow WITH
    Micros <- UNION {0 .. c.M * c.calls - 1 : c \in Configs},
    depth <- StageNum(cfg), fwd <- computed.fwd, bwd <- computed.dx, wgt <- computed.dw
ImplementsDataflow == Dataflow!Spec
=============================================================================
