--------------------------- MODULE PipelineLocal ---------------------------
(***************************************************************************)
(* What build_exec_order adds to the order of the local rank: the steps    *)
(* that gather, free and reduce the parameters of a sharded stage          *)
(* (_inject_local_fsdp_actions), before the P2P passes, and the steps that *)
(* move activations to the host and back (inject_pipeline_swap_steps),     *)
(* after them.  A configuration has two more fields here:                  *)
(*                                                                         *)
(*   fsdp      the stages are wrapped by fully_shard                       *)
(*   swap      the schedule swaps activations                              *)
(***************************************************************************)
EXTENDS PipelineOrder

ComputeTypes == {"FWD", "BWD", "BWD_INPUT", "BWD_WEIGHT"}

\* The compute steps of one step, those of an overlap opened.
Leaves(step) ==
    SelectSeq(IF IsOverlap(step) THEN step.sub ELSE << step >>,
              LAMBDA leaf : leaf.type \in ComputeTypes)

Steps(type, stages) == [k \in DOMAIN stages |-> MetaStep(type, stages[k], NoIndex)]

-----------------------------------------------------------------------------
(* add_fsdp_unshard_reshard and add_fsdp_reduce_grad. *)

MaxActiveStages == 3

Positions(order) == [k \in DOMAIN order |-> k]

\* The positions that compute: a composite is one slot.
Containers(order) == SelectSeq(Positions(order), LAMBDA k : Leaves(order[k]) # <<>>)

\* The first distinct stages, at most MaxActiveStages of them.
Window(stages) ==
    LET firsts == SelectSeq(Positions(stages),
                            LAMBDA k : \A j \in 1 .. k - 1 : stages[j] # stages[k])
        distinct == [k \in DOMAIN firsts |-> stages[firsts[k]]]
    IN  SubSeq(distinct, 1, IF Len(firsts) < MaxActiveStages THEN Len(firsts)
                            ELSE MaxActiveStages)

StagesIn(step) == LET leaves == Leaves(step) IN [k \in DOMAIN leaves |-> leaves[k].stage]

\* The stages that compute next, at every position of an order.
NextActive(order) ==
    [k \in DOMAIN order |->
        Window(FlattenSeq([j \in 1 .. Len(order) - k + 1 |-> StagesIn(order[k + j - 1])]))]

FetchOnly(order) ==  \* mutant: a fetched stage evicts none that computes later
    LET next == NextActive(order)
        new(k) == SelectSeq(next[k], LAMBDA s : \A j \in 1 .. k - 1 : ~Contains(next[j], s))
    IN  FlattenSeq([k \in DOMAIN order |-> Steps("FSDP_UNSHARD", new(k)) \o << order[k] >>])
        \o Steps("FSDP_RESHARD", FlattenSeq([k \in DOMAIN order |-> new(k)]))

\* The active stages at a position are those of the position before it.  Stages
\* evicted together leave in the order of that window, not of their gathers.
AddFsdpUnshardReshard(order) ==
    LET next == NextActive(order)
        active(k) == IF k = 1 THEN <<>> ELSE next[k - 1]
        without(stages, kept) == SelectSeq(stages, LAMBDA s : ~Contains(kept, s))
    IN  FlattenSeq([k \in DOMAIN order |->
            Steps("FSDP_RESHARD", without(active(k), next[k]))
            \o Steps("FSDP_UNSHARD", without(next[k], active(k)))
            \o << order[k] >>])
        \o Steps("FSDP_RESHARD", active(Len(order) + 1))

ReduceBefore(c, order) ==  \* mutant: reduced in front of the last backward
    LET reduced(step) ==
            LET done == SelectSeq(Leaves(step), LAMBDA leaf :
                            leaf.type \in {"BWD", "BWD_WEIGHT"} /\ leaf.micro = c.M - 1)
            IN  [k \in DOMAIN done |-> done[k].stage]
    IN  FlattenSeq([k \in DOMAIN order |->
            Steps("FSDP_REDUCE_GRAD", Window(reduced(order[k]))) \o << order[k] >>])

AddFsdpReduceGrad(c, order) ==
    LET reduced(step) ==
            LET done == SelectSeq(Leaves(step), LAMBDA leaf :
                            leaf.type \in {"BWD", "BWD_WEIGHT"} /\ leaf.micro = c.M - 1)
            IN  [k \in DOMAIN done |-> done[k].stage]
    IN  FlattenSeq([k \in DOMAIN order |->
            << order[k] >> \o Steps("FSDP_REDUCE_GRAD", Window(reduced(order[k])))])

-----------------------------------------------------------------------------
(* inject_pipeline_swap_steps. *)

MinSwapGap == 4

IsComm(step) == IsP2P(step) \/ step.type = "BATCH_SEND_RECV"

\* The last of the communication steps right behind a position.
CommBlockAnchor(order, k) ==
    CHOOSE a \in k .. Len(order) :
        /\ \A j \in k + 1 .. a : IsComm(order[j])
        /\ a = Len(order) \/ ~IsComm(order[a + 1])

\* Behind a plain computation that is its own send, alone or in a batch.
PostComputeAnchor(order, k) ==
    LET send == [order[k] EXCEPT !.type = IF @ = "FWD" THEN "FWD_SEND" ELSE "BWD_SEND"]
        last == CommBlockAnchor(order, k)
        sends == {j \in k + 1 .. last : order[j] = send \/ Contains(order[j].sub, send)}
    IN  IF order[k].type \in {"FWD", "BWD", "BWD_INPUT"} /\ sends # {}
        THEN CHOOSE j \in sends : \A i \in sends : j <= i
        ELSE last

\* With sharded stages the load starts with the latest gather of its stage.
LoadAnchor(order, f, b, stage, lastBetween) ==
    LET fsdp == {"FSDP_UNSHARD", "FSDP_RESHARD", "FSDP_REDUCE_GRAD"}
        gathers == {j \in f + 1 .. b - 1 :
                      order[j].type = "FSDP_UNSHARD" /\ order[j].stage = stage}
    IN  IF \A j \in DOMAIN order : order[j].type \notin fsdp THEN lastBetween
        ELSE IF gathers = {} THEN b
        ELSE CHOOSE j \in gathers : \A i \in gathers : i <= j

\* The swapped chunks in the order of their forwards, each with the positions
\* its four steps attach to.  The consumer of the activations is the dx.
SwapChunks(order) ==
    LET slots == Containers(order)
        chunksAt(i) ==
            LET fwds == SelectSeq(Leaves(order[slots[i]]), LAMBDA leaf : leaf.type = "FWD")
                consumes(leaf, f) ==
                    leaf.type \in {"BWD", "BWD_INPUT"} /\ leaf.stage = f.stage /\ leaf.micro = f.micro
                consumers(f) ==
                    {j \in DOMAIN slots :
                        \E leaf \in ToSet(Leaves(order[slots[j]])) : consumes(leaf, f)}
                chunk(f) ==
                    LET j == CHOOSE j \in consumers(f) : TRUE
                    IN  [stage |-> f.stage, micro |-> f.micro,
                         launchOffload |-> slots[i],
                         waitOffload |-> PostComputeAnchor(order, slots[i + 1]),
                         launchLoad |-> LoadAnchor(order, slots[i], slots[j], f.stage,
                                                   slots[j - 1]),
                         waitLoad |-> slots[j]]
                far == SelectSeq(fwds, LAMBDA f :
                           \E j \in consumers(f) : j - i >= MinSwapGap)
            IN  [k \in DOMAIN far |-> chunk(far[k])]
    IN  FlattenSeq([i \in DOMAIN slots |-> chunksAt(i)])

\* The steps of one kind that attach to position k.
SwapSteps(chunks, type, anchor, k) ==
    LET here == SelectSeq(chunks, LAMBDA c : c[anchor] = k)
    IN  [i \in DOMAIN here |-> MetaStep(type, here[i].stage, here[i].micro)]

WaitBeforeLaunch(order) ==  \* mutant: both orders of priority reversed
    LET chunks == SwapChunks(order)
    IN  FlattenSeq([k \in DOMAIN order |->
            SwapSteps(chunks, "SWAP_WAIT_LOAD", "waitLoad", k)
            \o SwapSteps(chunks, "SWAP_LAUNCH_LOAD", "launchLoad", k)
            \o << order[k] >>
            \o SwapSteps(chunks, "SWAP_WAIT_OFFLOAD", "waitOffload", k)
            \o SwapSteps(chunks, "SWAP_LAUNCH_OFFLOAD", "launchOffload", k)])

InjectPipelineSwap(order) ==
    LET chunks == SwapChunks(order)
    IN  FlattenSeq([k \in DOMAIN order |->
            SwapSteps(chunks, "SWAP_LAUNCH_LOAD", "launchLoad", k)
            \o SwapSteps(chunks, "SWAP_WAIT_LOAD", "waitLoad", k)
            \o << order[k] >>
            \o SwapSteps(chunks, "SWAP_LAUNCH_OFFLOAD", "launchOffload", k)
            \o SwapSteps(chunks, "SWAP_WAIT_OFFLOAD", "waitOffload", k)])

-----------------------------------------------------------------------------
\* build_exec_order with both injections.
BuildLocalOrders(c) ==
    LET orders == ConstructExecOrder(c)
        sharded(order) ==
            IF c.fsdp THEN AddFsdpReduceGrad(c, AddFsdpUnshardReshard(order)) ELSE order
        swapped(order) == IF c.swap THEN InjectPipelineSwap(order) ELSE order
    IN  [i \in RanksOf(c) |-> swapped(RewriteP2P(c, sharded(orders[i])))]
=============================================================================
