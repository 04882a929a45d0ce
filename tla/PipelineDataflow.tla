-------------------------- MODULE PipelineDataflow --------------------------
(***************************************************************************)
(* What one pipeline of `depth' stages promises its user, whatever the     *)
(* schedule, the number of ranks and the P2P transport: every micro-batch  *)
(* crosses the stages forward, then backward, each stage computes each     *)
(* micro-batch once per direction, and a computation only starts when the  *)
(* tensor it consumes exists.                                              *)
(*                                                                         *)
(* fwd     (stage, micro) pairs whose forward_one_chunk is done            *)
(* bwd     pairs whose input gradient (dx) is done                         *)
(* wgt     pairs whose weight gradient (dw) is accumulated                 *)
(*                                                                         *)
(* A unified backward_one_chunk does dx and dw in one step.                *)
(***************************************************************************)
EXTENDS Naturals

CONSTANT Micros     \* the micro-batches of the whole run

VARIABLES depth,    \* stage_num
          fwd, bwd, wgt
vars == << depth, fwd, bwd, wgt >>

Stages == 0 .. depth - 1
Pairs == Stages \X Micros

Init == /\ depth \in Nat \ {0}
        /\ fwd = {}
        /\ bwd = {}
        /\ wgt = {}

Forward(s, m) ==
    /\ << s, m >> \notin fwd
    /\ s # 0 => << s - 1, m >> \in fwd
    /\ fwd' = fwd \cup {<< s, m >>}
    /\ UNCHANGED << depth, bwd, wgt >>

\* The output gradient a backward consumes; the last stage makes its own.
HasOutputGrad(s, m) ==
    /\ << s, m >> \in fwd \ bwd
    /\ s # depth - 1 => << s + 1, m >> \in bwd

Backward(s, m) ==
    /\ HasOutputGrad(s, m)
    /\ bwd' = bwd \cup {<< s, m >>}
    /\ wgt' = wgt \cup {<< s, m >>}
    /\ UNCHANGED << depth, fwd >>

BackwardInput(s, m) ==
    /\ HasOutputGrad(s, m)
    /\ bwd' = bwd \cup {<< s, m >>}
    /\ UNCHANGED << depth, fwd, wgt >>

BackwardWeight(s, m) ==
    /\ << s, m >> \in bwd \ wgt
    /\ wgt' = wgt \cup {<< s, m >>}
    /\ UNCHANGED << depth, fwd, bwd >>

Complete == wgt = Pairs
Finished == Complete /\ UNCHANGED vars

Step(s, m) == \/ Forward(s, m)
              \/ Backward(s, m)
              \/ BackwardInput(s, m)
              \/ BackwardWeight(s, m)

Next == (\E s \in Stages, m \in Micros : Step(s, m)) \/ Finished

Spec == Init /\ [][Next]_vars

-----------------------------------------------------------------------------
\* Type correctness: only computations of this pipeline are done.
TypeOK ==
    /\ depth \in Nat \ {0}
    /\ fwd \subseteq Pairs
    /\ bwd \subseteq Pairs
    /\ wgt \subseteq Pairs

(***************************************************************************)
(* The two wavefronts of a micro-batch: forward_one_chunk reached a prefix *)
(* of the stages, the backward of _stage.py a suffix.                      *)
(***************************************************************************)
PrefixForward ==
    \A s, t \in Stages : \A m \in Micros :
        << s, m >> \in fwd /\ t <= s => << t, m >> \in fwd
SuffixBackward ==
    \A s, t \in Stages : \A m \in Micros :
        << s, m >> \in bwd /\ s <= t => << t, m >> \in bwd

(***************************************************************************)
(* A gradient accounts for the whole pipeline: where backward_one_chunk or *)
(* backward_weight_one_chunk accumulated the weight gradient of a          *)
(* micro-batch, the micro-batch has been through every stage forward and   *)
(* through this and every later stage backward.                            *)
(***************************************************************************)
Causality ==
    \A s, t \in Stages : \A m \in Micros :
        << s, m >> \in wgt => /\ << t, m >> \in fwd
                              /\ s <= t => << t, m >> \in bwd

(***************************************************************************)
(* A micro-batch never runs forward again once some stage has begun its    *)
(* backward: no schedule recomputes a forward_one_chunk.                   *)
(***************************************************************************)
NoForwardAfterBackward ==
    [][\A m \in Micros :
          (\E s \in Stages : << s, m >> \in bwd)
          => \A s \in Stages : << s, m >> \in fwd' <=> << s, m >> \in fwd]_vars
=============================================================================
