-------------------------- MODULE MCPipelineOrder --------------------------
(***************************************************************************)
(* The orders PipelineOrder and PipelineLocal build, checked as sequences: *)
(* a sweep over configurations larger than the interleavings of            *)
(* PipelineRun allow, with and without the local injections.  In the       *)
(* configurations with `align` a schedule of the user's hands over the     *)
(* computations alone, and the simulation of the alignment is run.         *)
(***************************************************************************)
EXTENDS PipelineLocal, PipelineAlign, TLC

CONSTANT Configs  \* the configurations swept

VARIABLES cfg, orders, opened,
          sim  \* the simulation of the alignment, <<>> when none is running
vars == << cfg, orders, opened, sim >>

\* An order with its composites opened: an overlap issues its boundary
\* operations after its forward.
Opened(order) ==
    FlattenSeq([k \in DOMAIN order |->
        IF order[k].sub = <<>> THEN << order[k] >>
        ELSE order[k].sub \o order[k].boundary])

\* The computations of a schedule's order.
ComputeOnly(order) == SelectSeq(order, LAMBDA step : step.type \in {"FWD", "BWD"})

\* The orders are state only for TLC to build them once.
Init == /\ cfg \in Configs
        /\ orders = BuildLocalOrders(cfg)
        /\ sim = IF cfg.align
                 THEN AlignStart(cfg, [r \in RanksOf(cfg) |-> ComputeOnly(orders[r])])
                 ELSE <<>>
        /\ opened = [r \in RanksOf(cfg) |-> Opened(orders[r])]

Simulate == /\ sim # <<>> /\ ~AlignOver(sim)
            /\ sim' = AlignStep(cfg, sim)
            /\ UNCHANGED << cfg, orders, opened >>
InsertTransfers == /\ sim # <<>> /\ AlignOver(sim)
                   /\ sim' = <<>>
                   /\ orders' = AlignedOrders(cfg, sim)
                   /\ opened' = [r \in RanksOf(cfg) |-> Opened(orders'[r])]
                   /\ UNCHANGED cfg
Built == sim = <<>> /\ UNCHANGED vars
Next == Simulate \/ InsertTransfers \/ Built
Spec == Init /\ [][Next]_vars

-----------------------------------------------------------------------------
\* The tensor of a P2P step, named after the stage that sends it, and its peer.
Carried(step) ==
    CASE step.type = "FWD_RECV" -> << "fwd", step.stage - 1, step.micro >>
      [] step.type = "BWD_RECV" -> << "bwd", step.stage + 1, step.micro >>
      [] step.type = "FWD_SEND" -> << "fwd", step.stage, step.micro >>
      [] OTHER -> << "bwd", step.stage, step.micro >>
Peer(step) ==
    StageToRank(cfg, IF step.type \in {"FWD_SEND", "BWD_RECV"}
                     THEN step.stage + 1 ELSE step.stage - 1)
SendTypes == P2PTypes \ RecvTypes
Between(r, types, p) ==
    LET mine == SelectSeq(opened[r], LAMBDA s : s.type \in types /\ Peer(s) = p)
    IN  [k \in DOMAIN mine |-> Carried(mine[k])]

(***************************************************************************)
(* Messages of a pair of ranks match by position only, so what one end     *)
(* sends is, in order, what the other end receives (add_send_recv and the  *)
(* three passes after it).                                                 *)
(***************************************************************************)
PairwiseFifo ==
    \A r, p \in RanksOf(cfg) :
        r # p => Between(r, SendTypes, p) = Between(p, RecvTypes, r)

(***************************************************************************)
(* The batches of a pair of ranks mirror each other: where one end posts a *)
(* duplex the other end posts a duplex, never two solos (the second of the *)
(* transport invariants in PipelineScheduleRuntime.__init__).  Only the     *)
(* batched transport promises it.                                          *)
(***************************************************************************)
Shape(step, p) ==
    LET parts == SelectSeq(Opened(<< step >>), LAMBDA s : IsP2P(s) /\ Peer(s) = p)
        is(types) == Len(SelectSeq(parts, LAMBDA s : s.type \in types))
    IN  << is(SendTypes), is(RecvTypes) >>
Shapes(order, p) ==
    SelectSeq([k \in DOMAIN order |-> Shape(order[k], p)], LAMBDA x : x # << 0, 0 >>)
MirroredBatches ==
    cfg.mode = "batch" =>
        LET mirror(x) == << x[2], x[1] >> IN
        \A r, p \in RanksOf(cfg) : r < p =>
            LET mine == Shapes(orders[r], p)
                yours == Shapes(orders[p], r)
            IN  /\ Len(mine) = Len(yours)
                /\ \A k \in DOMAIN mine : mine[k] = mirror(yours[k])

(***************************************************************************)
(* Every computation of the pipeline is in the orders exactly once, on the *)
(* rank of its stage, behind the receive and in front of the send of its   *)
(* tensors; a split backward has its dx before its dw.  So the simulation  *)
(* of the alignment placed every step within its time.                     *)
(***************************************************************************)
ComputeInPlace ==
    LET places(type, s, m) == LET order == opened[StageToRank(cfg, s)] IN
            {k \in DOMAIN order : order[k] = MetaStep(type, s, m)}
        last == StageNum(cfg) - 1
        before(a, b) == \A i \in a, j \in b : i < j
    IN  sim = <<>> =>
        \A s \in StagesOf(cfg), m \in MicrosOf(cfg) :
            LET at(type) == places(type, s, m)
                dx == at("BWD") \cup at("BWD_INPUT")
                dw == at("BWD") \cup at("BWD_WEIGHT")
            IN  /\ Cardinality(at("FWD")) = 1
                /\ Cardinality(dx) = 1 /\ Cardinality(dw) = 1
                /\ before(at("FWD"), dx)
                /\ before(at("BWD_INPUT"), at("BWD_WEIGHT"))
                /\ s # 0 => at("FWD_RECV") # {} /\ at("BWD_SEND") # {}
                /\ s # last => at("FWD_SEND") # {} /\ at("BWD_RECV") # {}
                /\ before(at("FWD_RECV"), at("FWD"))
                /\ before(at("FWD"), at("FWD_SEND"))
                /\ before(at("BWD_RECV"), dx)
                /\ before(dx, at("BWD_SEND"))

(***************************************************************************)
(* A stage computes only between its FSDP_UNSHARD and the FSDP_RESHARD     *)
(* that evicts it (an overlap left out of the lookahead once ran a forward *)
(* against a resharded stage: iter_leaf_meta_steps), no rank holds more    *)
(* than MaxActiveStages gathered stages, and none at the end of the run.   *)
(***************************************************************************)
GatheredAtCompute ==
    LET held(order, s, k) ==  \* in front of position k
            LET control == {j \in 1 .. k - 1 : /\ order[j].stage = s
                                              /\ order[j].type \in {"FSDP_UNSHARD", "FSDP_RESHARD"}}
            IN  /\ control # {}
                /\ order[CHOOSE j \in control : \A i \in control : i <= j].type = "FSDP_UNSHARD"
        stages(order, k) == {s \in StagesOf(cfg) : held(order, s, k)}
    IN  cfg.fsdp =>
          \A r \in RanksOf(cfg) :
            LET order == opened[r]
            IN  /\ \A k \in DOMAIN order :
                     /\ order[k].type \in ComputeTypes => held(order, order[k].stage, k)
                     /\ order[k].type = "FSDP_UNSHARD" =>
                            Cardinality(stages(order, k + 1)) <= MaxActiveStages
                /\ stages(order, Len(order) + 1) = {}

(***************************************************************************)
(* add_fsdp_reduce_grad takes the backward of micro-batch M - 1 for the    *)
(* last of its stage: the gradients of a stage are reduced once, behind    *)
(* every weight gradient, and no split backward is still to come.          *)
(***************************************************************************)
ReduceAfterLast ==
    cfg.fsdp =>
      \A s \in StagesOf(cfg) :
        LET order == opened[StageToRank(cfg, s)]
            at(types) == {k \in DOMAIN order : order[k].type \in types /\ order[k].stage = s}
            reduce == at({"FSDP_REDUCE_GRAD"})
        IN  /\ Cardinality(reduce) = 1
            /\ \A k \in reduce, j \in at({"BWD", "BWD_INPUT", "BWD_WEIGHT"}) : j < k

(***************************************************************************)
(* The activations of a swapped chunk leave after its forward and are back *)
(* before the backward that reads them, in the only order SwapGroup        *)
(* accepts; a computation hides each transfer, unless sharded stages tie   *)
(* the load to the gather; and, as the contract of build_exec_order says,  *)
(* the offload starts before a reshard and the load right before the last  *)
(* gather in front of the backward, if the stage is gathered again at all. *)
(***************************************************************************)
SwapInOrder ==
    LET types == << "SWAP_LAUNCH_OFFLOAD", "SWAP_WAIT_OFFLOAD",
                    "SWAP_LAUNCH_LOAD", "SWAP_WAIT_LOAD" >>
        legal(order, s, m) ==
            LET at(type) == {k \in DOMAIN order : order[k] = MetaStep(type, s, m)}
                holds(type) == {k \in DOMAIN order :
                                  MetaStep(type, s, m) \in ToSet(Leaves(order[k]))}
                path == << holds("FWD") >> \o [i \in DOMAIN types |-> at(types[i])]
                        \o << holds("BWD") \cup holds("BWD_INPUT") >>
                pos == [i \in DOMAIN path |-> CHOOSE k \in path[i] : TRUE]
                works(i, j) == \E k \in pos[i] + 1 .. pos[j] - 1 : Leaves(order[k]) # <<>>
                control(type, i, j) ==
                    {k \in pos[i] + 1 .. pos[j] - 1 : order[k].type = type /\ order[k].stage = s}
            IN  (\E i \in DOMAIN types : at(types[i]) # {}) =>
                  /\ \A i \in DOMAIN path : Cardinality(path[i]) = 1
                  /\ \A i \in 1 .. 5 : pos[i] < pos[i + 1]
                  /\ works(2, 3)
                  /\ ~cfg.fsdp => works(4, 5)
                  /\ control("FSDP_RESHARD", 1, 2) = {}
                  /\ control("FSDP_UNSHARD", 1, 6) # {} =>
                         Cardinality(control("FSDP_UNSHARD", 4, 6)) = 1
    IN  cfg.swap =>
          \A s \in StagesOf(cfg), m \in MicrosOf(cfg) :
            legal(orders[StageToRank(cfg, s)], s, m)

-----------------------------------------------------------------------------
Flavour(sched, less, bf, dxdw, mode) ==
    [sched |-> sched, less |-> less, bf |-> bf, dxdw |-> dxdw, align |-> FALSE, mode |-> mode]
FlatFlavours == {Flavour(s, FALSE, FALSE, FALSE, "plain") : s \in {"gpipe", "1f1b"}}
InterleavedFlavours ==
    {Flavour("interleaved", l, FALSE, FALSE, "plain") : l \in BOOLEAN}
    \cup {Flavour("interleaved", FALSE, TRUE, d, m) :
            d \in BOOLEAN, m \in {"plain", "batch"}}

\* Pure compute orders, the transfers inserted by the alignment.
Align(flavours) == {[f EXCEPT !.align = TRUE] : f \in {g \in flavours : ~g.bf}}

Of(flavours, sizes, injections) ==
    {[R |-> z[1], V |-> z[2], M |-> z[3], fsdp |-> j[1], swap |-> j[2]] @@ f :
        z \in sizes, f \in flavours, j \in injections}
None == {<< FALSE, FALSE >>}
Some == {<< TRUE, FALSE >>, << FALSE, TRUE >>, << TRUE, TRUE >>}
\* Four and five local stages are more than the three a rank gathers at a time.
Sweep == Of(FlatFlavours, (2 .. 8) \X {1} \X (1 .. 12), None)
         \cup Of(InterleavedFlavours, {2, 3, 4} \X {1, 2, 3} \X (1 .. 8), None)
         \cup Of(Align(FlatFlavours), (2 .. 4) \X {1} \X (1 .. 5), None)
         \cup Of(Align(InterleavedFlavours), {2, 3} \X {1, 2, 3} \X {2, 5}, None)
         \cup Of(FlatFlavours, {2, 5} \X {1} \X {1, 3, 8}, Some)
         \cup Of(InterleavedFlavours, {2, 3} \X {1, 2, 4} \X {2, 3, 5}, Some)
         \cup Of(InterleavedFlavours, {2} \X {5} \X {2, 3}, Some)
=============================================================================
