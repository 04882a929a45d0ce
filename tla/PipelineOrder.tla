--------------------------- MODULE PipelineOrder ---------------------------
(***************************************************************************)
(* The execution orders of the pipeline schedules: what                    *)
(* PipelineScheduleRuntime.build_exec_order leaves in exec_order for the   *)
(* GPipe, 1F1B and interleaved 1F1B schedules, together with the passes    *)
(* that rewrite an order (send/recv insertion, dx/dw split, P2P batching,  *)
(* forward-boundary hoisting).                                             *)
(*                                                                         *)
(* Every operator is a pure function of a configuration record             *)
(*                                                                         *)
(*   sched     "gpipe", "1f1b" or "interleaved"                            *)
(*   R, V, M   real_stage_num, n_local_stages, micro_batch_num             *)
(*   less      less_memory          bf    overlap_b_f                      *)
(*   dxdw      enable_dxdw_split    mode  the resolved p2p_transport       *)
(*                                                                         *)
(* Ranks, stages and micro-batches are numbered from 0 as in the source;   *)
(* the positions of an order, which is a sequence, from 1.                 *)
(***************************************************************************)
EXTENDS Naturals, Sequences, FiniteSets, SequencesExt

RanksOf(c) == 0 .. c.R - 1
StageNum(c) == c.R * c.V
StagesOf(c) == 0 .. StageNum(c) - 1
MicrosOf(c) == 0 .. c.M - 1

(***************************************************************************)
(* MetaStep.  A composite step has sub-steps and no stage or micro of its  *)
(* own; a bubble is the None of the source.                                *)
(***************************************************************************)
NoIndex == 999

MetaStep(type, s, m) ==
    [type |-> type, stage |-> s, micro |-> m, sub |-> <<>>, boundary |-> <<>>]
Composite(type, sub) == [MetaStep(type, NoIndex, NoIndex) EXCEPT !.sub = sub]
Bubble == MetaStep("NONE", NoIndex, NoIndex)
Bubbles(n) == [k \in 1 .. n |-> Bubble]

When(cond, seq) == IF cond THEN seq ELSE <<>>
\* The concatenation of F(0), ..., F(n - 1).
Cat(n, F(_)) == FlattenSeq([k \in 1 .. n |-> F(k - 1)])

SendFwd(s, m) == << MetaStep("DATA_SEND", s, m), MetaStep("FWD_SEND", s, m) >>
RecvFwd(s, m) == << MetaStep("DATA_RECV", s, m), MetaStep("FWD_RECV", s, m) >>

StageToRank(c, s) == s % c.R

-----------------------------------------------------------------------------
(***************************************************************************)
(* ScheduleGPipe and Schedule1F1B: one stage per rank, comms written down  *)
(* together with the compute.                                              *)
(***************************************************************************)
GPipeSendsFirst(c, i) ==  \* mutant: an output is sent before it is computed
    LET forward(m) ==
            << MetaStep("DATA_LOAD", i, m) >> \o When(i # 0, RecvFwd(i, m))
            \o When(i # c.R - 1, SendFwd(i, m)) \o << MetaStep("FWD", i, m) >>
        backward(m) ==
            When(i # c.R - 1, << MetaStep("BWD_RECV", i, m) >>)
            \o << MetaStep("BWD", i, m) >>
            \o When(i # 0, << MetaStep("BWD_SEND", i, m) >>)
    IN  Cat(c.M, forward) \o Cat(c.M, backward)

GPipeOrder(c, i) ==
    LET forward(m) ==
            << MetaStep("DATA_LOAD", i, m) >>
            \o When(i # 0, RecvFwd(i, m))
            \o << MetaStep("FWD", i, m) >>
            \o When(i # c.R - 1, SendFwd(i, m))
        backward(m) ==
            When(i # c.R - 1, << MetaStep("BWD_RECV", i, m) >>)
            \o << MetaStep("BWD", i, m) >>
            \o When(i # 0, << MetaStep("BWD_SEND", i, m) >>)
    IN  Cat(c.M, forward) \o Cat(c.M, backward)

AllWarmup(c, i) == c.M  \* mutant: every forward is a warm-up
OneFOneBWarmup(c, i) == IF c.R - i < c.M THEN c.R - i ELSE c.M
NeverFull(c, i) == c.R - i > c.M

\* An even stage sends a warm-up output right after computing it, an odd one
\* only before the next forward; the last warm-up output leaves with the first
\* backward, unless the pipeline is never full.
OneFOneBFill(c, i) ==
    LET W == OneFOneBWarmup(c, i)
        warmup(k) ==
            << MetaStep("DATA_LOAD", i, k) >>
            \o When(i # 0, RecvFwd(i, k))
            \o IF i % 2 = 0
               THEN << MetaStep("FWD", i, k) >> \o When(k # W - 1, SendFwd(i, k))
               ELSE When(k > 0, SendFwd(i, k - 1)) \o << MetaStep("FWD", i, k) >>
    IN  Cat(W, warmup) \o When(NeverFull(c, i), SendFwd(i, W - 1))

UnshiftedSteady(c, i) ==  \* mutant: sends the output about to be computed
    LET W == OneFOneBWarmup(c, i)
        steady(j) ==
            When(i # c.R - 1, << MetaStep("BWD_RECV", i, j) >> \o SendFwd(i, W + j))
            \o << MetaStep("BWD", i, j), MetaStep("DATA_LOAD", i, W + j) >>
            \o When(i # 0, << MetaStep("BWD_SEND", i, j) >> \o RecvFwd(i, W + j))
            \o << MetaStep("FWD", i, W + j) >>
    IN  Cat(c.M - W, steady)
OneFOneBSteady(c, i) ==
    LET W == OneFOneBWarmup(c, i)
        steady(j) ==
            When(i # c.R - 1, << MetaStep("BWD_RECV", i, j) >> \o SendFwd(i, W + j - 1))
            \o << MetaStep("BWD", i, j), MetaStep("DATA_LOAD", i, W + j) >>
            \o When(i # 0, << MetaStep("BWD_SEND", i, j) >> \o RecvFwd(i, W + j))
            \o << MetaStep("FWD", i, W + j) >>
    IN  Cat(c.M - W, steady)

OneFOneBCooldown(c, i) ==
    LET W == OneFOneBWarmup(c, i)
        cooldown(k) ==
            LET b == c.M - W + k IN
            When(i # c.R - 1,
               << MetaStep("BWD_RECV", i, b) >>
               \o When(k = 0 /\ ~NeverFull(c, i), SendFwd(i, c.M - 1)))
            \o << MetaStep("BWD", i, b) >>
            \o When(i # 0, << MetaStep("BWD_SEND", i, b) >>)
    IN  Cat(W, cooldown)

OneFOneBOrder(c, i) == OneFOneBFill(c, i) \o OneFOneBSteady(c, i) \o OneFOneBCooldown(c, i)

-----------------------------------------------------------------------------
(***************************************************************************)
(* ScheduleInterleaved1F1B.  Micro-batches are dealt in rounds of at least *)
(* R; within a round a rank runs all micros of one of its V chunks before  *)
(* the next chunk (backward: chunks in the opposite order).                *)
(***************************************************************************)
ShortMicro(c) == c.M < c.R
Rounds(c) == IF ShortMicro(c) THEN 1 ELSE c.M \div c.R
MicrosPerRound(c, k) ==
    IF ShortMicro(c) THEN c.M
    ELSE LET extra == c.M % c.R IN
         c.R + extra \div Rounds(c) + (IF k < extra % Rounds(c) THEN 1 ELSE 0)

\* n_microbatch_per_round_accu: the number of ops of one rank before round k.
OpsBefore(c) ==
    LET accu[k \in 0 .. Rounds(c)] ==
            IF k = 0 THEN 0 ELSE accu[k - 1] + c.V * MicrosPerRound(c, k - 1)
    IN  accu

\* The chunk of the op-th forward of a rank (bisect_right in the source).
ForwardChunk(c, op) ==
    LET accu == OpsBefore(c)
        round == CHOOSE k \in 0 .. Rounds(c) - 1 :
                    accu[k] <= op /\ op < accu[k + 1]
    IN  (op - accu[round]) \div MicrosPerRound(c, round)

ForwardStage(c, op, i) == ForwardChunk(c, op) * c.R + i
UnreversedStage(c, op, i) ==  \* mutant: backward takes the chunks in forward order
    ForwardChunk(c, op) * c.R + i
BackwardStage(c, op, i) == (c.V - 1 - ForwardChunk(c, op)) * c.R + i

\* The running per-stage counters fwd_/bwd_stage_micro_index.
MicroOf(c, op) ==
    Cardinality({o \in 0 .. op - 1 : ForwardChunk(c, o) = ForwardChunk(c, op)})

ClassicStagger(c, i) == 2 * (c.R - 1 - i)  \* mutant: less_memory ignored
Stagger(c, i) == (IF c.less THEN 1 ELSE 2) * (c.R - 1 - i)
WarmupOps(c, i) ==
    LET ops == (c.V - 1) * MicrosPerRound(c, 0) + Stagger(c, i)
    IN  IF ops < c.M * c.V THEN ops ELSE c.M * c.V

FwdOp(c, i, op) == MetaStep("FWD", ForwardStage(c, op, i), MicroOf(c, op))
BwdOp(c, i, op) == MetaStep("BWD", BackwardStage(c, op, i), MicroOf(c, op))
IsLastMicro(c, step) == ShortMicro(c) /\ step.micro = c.M - 1

WarmupSegment(c, i) ==
    LET W == WarmupOps(c, i)
        slot(op) ==
            << FwdOp(c, i, op) >>
            \o When(IsLastMicro(c, FwdOp(c, i, op)) /\ (op # W - 1 \/ i = c.R - 1),
                  Bubbles(c.R - c.M))
    IN  Cat(W, slot)

SteadySegment(c, i) ==
    LET W == WarmupOps(c, i)
        n == c.V * c.M - W
        fwd(j) == FwdOp(c, i, W + j)
        bwd(j) == BwdOp(c, i, j)
        pad(j) == When(IsLastMicro(c, bwd(j)) /\ i = c.R - 1,
                     Bubbles(2 * (c.R - c.M)))
        plain(j) == << fwd(j), bwd(j) >> \o pad(j)
        pair(j) == << Composite("OVERLAP_B_F", << bwd(j), fwd(j + 1) >>) >>
    IN  IF ~c.bf THEN Cat(n, plain)
        ELSE IF n = 0 THEN <<>>
        ELSE << fwd(0) >> \o Cat(n - 1, pair) \o << bwd(n - 1) >> \o pad(n - 1)

CooldownSegment(c, i) ==
    LET W == WarmupOps(c, i)
        slot(k) ==
            LET step == BwdOp(c, i, c.V * c.M - W + k) IN
            << Bubble, step >>
            \o When(IsLastMicro(c, step), Bubbles(2 * (c.R - c.M)))
    IN  Cat(W, slot)

StageExecOrder(c, i) ==
    LET lost == IF Stagger(c, i) > c.M THEN Stagger(c, i) - c.M ELSE 0
    IN  Bubbles(i) \o WarmupSegment(c, i) \o Bubbles(lost)
        \o Bubbles(c.R - 1 - i) \o SteadySegment(c, i) \o CooldownSegment(c, i)

-----------------------------------------------------------------------------
(***************************************************************************)
(* add_send_recv.  An OVERLAP composite takes two time slots: it is        *)
(* emitted in the first, and each slot inserts the comms of one sub-step.  *)
(***************************************************************************)
IsOverlap(step) == step.type = "OVERLAP_B_F"

Slots(order) ==
    LET slotsOf(k) ==
            LET step == order[k + 1] IN
            IF IsOverlap(step)
            THEN << [emit |-> << step >>, comm |-> step.sub[1]],
                    [emit |-> <<>>,       comm |-> step.sub[2]] >>
            ELSE << [emit |-> << step >>, comm |-> step] >>
    IN  Cat(Len(order), slotsOf)

FwdPeer(c, s) == IF s = StageNum(c) - 1 THEN StageToRank(c, s)
                 ELSE StageToRank(c, s + 1)
BwdPeer(c, s) == IF s = 0 THEN StageToRank(c, s) ELSE StageToRank(c, s - 1)

\* What computing `step' on rank q inserts into the order of rank r.
CommsOf(c, step, q, r) ==
    LET s == step.stage
        m == step.micro
    IN  CASE step.type = "FWD" /\ FwdPeer(c, s) # q ->
                 When(r = q, SendFwd(s, m))
                 \o When(r = FwdPeer(c, s), RecvFwd(s + 1, m))
          [] step.type = "BWD" /\ BwdPeer(c, s) # q ->
                 When(r = q, << MetaStep("BWD_SEND", s, m) >>)
                 \o When(r = BwdPeer(c, s), << MetaStep("BWD_RECV", s - 1, m) >>)
          [] OTHER -> <<>>

\* Within a time slot the even ranks insert their comms before the odd ones.
ScanOrder(c) ==
    SetToSortSeq(RanksOf(c), LAMBDA a, b : IF a % 2 = b % 2 THEN a < b ELSE a % 2 = 0)

SlotAt(slots, r, t) ==
    IF t < Len(slots[r + 1]) THEN slots[r + 1][t + 1]
    ELSE [emit |-> <<>>, comm |-> Bubble]

\* What time slot t adds to the order of rank r: its own step, then the comms
\* of every rank's step, in scan order.
OwnCommsFirst(c, slots, scan, r, t) ==  \* mutant: a rank inserts its own comms first
    LET comms(q) == CommsOf(c, SlotAt(slots, q, t).comm, q, r) IN
    SlotAt(slots, r, t).emit \o comms(r)
    \o Cat(c.R, LAMBDA k : When(scan[k + 1] # r, comms(scan[k + 1])))
Cell(c, slots, scan, r, t) ==
    LET comms(q) == CommsOf(c, SlotAt(slots, q, t).comm, q, r) IN
    SlotAt(slots, r, t).emit \o Cat(c.R, LAMBDA k : comms(scan[k + 1]))

ColumnScan(c, orders) ==
    LET slots == Cat(c.R, LAMBDA r : << Slots(orders[r]) >>)
        width == CHOOSE n \in {Len(slots[k]) : k \in 1 .. c.R} :
                    \A k \in 1 .. c.R : Len(slots[k]) <= n
        scan == ScanOrder(c)
    IN  [r \in RanksOf(c) |-> Cat(width, LAMBDA t : Cell(c, slots, scan, r, t))]

InsertDataLoad(order) ==
    LET loads(step) == [k \in 1 .. Len(step) |->
                            MetaStep("DATA_LOAD", step[k].stage, step[k].micro)]
        isFwd(s) == s.type = "FWD"
    IN  Cat(Len(order), LAMBDA k :
            loads(SelectSeq(<< order[k + 1] >> \o order[k + 1].sub, isFwd))
            \o << order[k + 1] >>)

AddSendRecv(c, orders) ==
    LET scanned == ColumnScan(c, orders)
    IN  [r \in RanksOf(c) |-> InsertDataLoad(scanned[r])]

-----------------------------------------------------------------------------
(***************************************************************************)
(* The passes over contiguous runs of P2P steps.  The run that position j  *)
(* belongs to starts after Anchor(order, j); DATA_SEND and DATA_RECV are   *)
(* not in _P2P_STEP_TYPES and therefore end a run.                         *)
(***************************************************************************)
P2PTypes == {"FWD_SEND", "FWD_RECV", "BWD_SEND", "BWD_RECV"}
RecvTypes == {"FWD_RECV", "BWD_RECV"}
IsP2P(step) == step.type \in P2PTypes

Anchor(order, j) ==
    CHOOSE a \in 0 .. j :
        /\ a = 0 \/ ~IsP2P(order[a])
        /\ \A k \in a + 1 .. j : IsP2P(order[k])
RunEnd(order, j) ==
    CHOOSE e \in j .. Len(order) :
        /\ \A k \in j + 1 .. e : IsP2P(order[k])
        /\ e = Len(order) \/ ~IsP2P(order[e + 1])

CoalesceP2P(order) ==
    LET step(k) ==
            LET j == k + 1
                a == Anchor(order, j)
                run == SubSeq(order, a + 1, j)
            IN  IF ~IsP2P(order[j]) THEN << order[j] >>
                ELSE IF RunEnd(order, j) # j THEN <<>>
                ELSE IF Len(run) >= 2 THEN << Composite("BATCH_SEND_RECV", run) >>
                ELSE run
    IN  Cat(Len(order), step)

\* The part of an overlap's trailing run that is ready at the forward/backward
\* boundary: its own forward send first, then every receive.
BoundaryOf(order, a) ==
    LET run == SubSeq(order, a + 1, RunEnd(order, a))
        f == order[a].sub[2]
        ownSend(s) == s = MetaStep("FWD_SEND", f.stage, f.micro)
        isRecv(s) == s.type \in RecvTypes
    IN  IF IsOverlap(order[a])
        THEN SelectSeq(run, ownSend) \o SelectSeq(run, isRecv)
        ELSE <<>>

AttachFwdBoundaryP2P(order) ==
    LET step(k) ==
            LET j == k + 1
                a == Anchor(order, j)
            IN  IF a = j
                THEN << [order[j] EXCEPT !.boundary = BoundaryOf(order, j)] >>
                ELSE When(a = 0 \/ ~Contains(BoundaryOf(order, a), order[j]),
                          << order[j] >>)
    IN  Cat(Len(order), step)

\* A split overlap keeps dx; its dw goes after the run that follows it.
SplitsDxDw(step) == IsOverlap(step) /\ step.sub[1].stage # 0

DwInsideRun(order) ==  \* mutant: a dw lands behind the first step of the run
    LET retyped(step, type) == [step EXCEPT !.type = type]
        dx(step) ==
            IF SplitsDxDw(step)
            THEN [step EXCEPT !.sub[1] = retyped(step.sub[1], "BWD_INPUT")]
            ELSE step
        step(k) ==
            LET j == k + 1
                a == Anchor(order, j)
                end == RunEnd(order, j)
            IN  << dx(order[j]) >>
                \o When(a > 0 /\ (j = a + 1 \/ a = end) /\ SplitsDxDw(order[a]),
                        << retyped(order[a].sub[1], "BWD_WEIGHT") >>)
    IN  Cat(Len(order), step)

SplitOverlapDxDw(order) ==
    LET retyped(step, type) == [step EXCEPT !.type = type]
        dx(step) ==
            IF SplitsDxDw(step)
            THEN [step EXCEPT !.sub[1] = retyped(step.sub[1], "BWD_INPUT")]
            ELSE step
        step(k) ==
            LET j == k + 1
                a == Anchor(order, j)
            IN  << dx(order[j]) >>
                \o When(a > 0 /\ RunEnd(order, j) = j /\ SplitsDxDw(order[a]),
                        << retyped(order[a].sub[1], "BWD_WEIGHT") >>)
    IN  Cat(Len(order), step)

-----------------------------------------------------------------------------
(***************************************************************************)
(* construct_exec_order and build_exec_order, without the FSDP and swap    *)
(* injections.                                                             *)
(***************************************************************************)
ConstructExecOrder(c) ==
    CASE c.sched = "gpipe" -> [i \in RanksOf(c) |-> GPipeOrder(c, i)]
      [] c.sched = "1f1b" -> [i \in RanksOf(c) |-> OneFOneBOrder(c, i)]
      [] c.sched = "interleaved" ->
             LET orders == AddSendRecv(c, [i \in RanksOf(c) |-> StageExecOrder(c, i)])
             IN  IF c.dxdw
                 THEN [i \in RanksOf(c) |-> SplitOverlapDxDw(orders[i])]
                 ELSE orders

RewriteP2P(c, order) ==
    CASE c.mode = "boundary" -> AttachFwdBoundaryP2P(order)
      [] c.mode = "batch" -> CoalesceP2P(order)
      [] OTHER -> order

BuildExecOrder(c) ==
    LET orders == ConstructExecOrder(c)
    IN  [i \in RanksOf(c) |-> RewriteP2P(c, orders[i])]
=============================================================================
