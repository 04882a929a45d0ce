----------------------- MODULE PipelineDataflow_proofs -----------------------
(***************************************************************************)
(* The safety of the abstract pipeline, for every depth and every set of   *)
(* micro-batches.  Causality is not inductive: a weight gradient only      *)
(* looks one step back, to the input gradient of its own stage.  The       *)
(* inductive invariant adds the two wavefronts and their nesting; the      *)
(* whole history of a micro-batch then follows from its weight gradient:   *)
(* wgt -> bwd -> bwd of the last stage -> fwd of the last stage -> fwd of  *)
(* every stage.                                                            *)
(***************************************************************************)
EXTENDS PipelineDataflow, TLAPS

Nested == wgt \subseteq bwd /\ bwd \subseteq fwd

Inv == TypeOK /\ PrefixForward /\ SuffixBackward /\ Nested

\* The stages of a pipeline are natural numbers, the last one among them.
LEMMA StageFacts ==
    ASSUME depth \in Nat \ {0}
    PROVE  /\ depth \in Nat \ {0}
           /\ \A s \in Stages : s \in Nat /\ s <= depth - 1
           /\ 0 \in Stages /\ depth - 1 \in Stages
  BY DEF Stages

\* Before the first forward_one_chunk nothing has to be accounted for.
LEMMA InitInv == Init => Inv
  BY DEF Init, Inv, TypeOK, PrefixForward, SuffixBackward, Nested

\* forward_one_chunk extends the forward wavefront by one stage.
LEMMA ForwardInv ==
    ASSUME Inv, NEW s \in Stages, NEW m \in Micros, Forward(s, m)
    PROVE  Inv'
<1>1. TypeOK' /\ Nested'
  BY DEF Inv, TypeOK, Nested, Forward, Pairs, Stages
<1>2. PrefixForward'
  <2> SUFFICES ASSUME NEW a \in Stages, NEW b \in Stages, NEW n \in Micros,
                      << a, n >> \in fwd', b <= a
               PROVE  << b, n >> \in fwd'
    BY DEF PrefixForward, Stages, Forward
  <2>1. CASE << a, n >> \in fwd
    BY <2>1 DEF Inv, PrefixForward, Forward
  <2>2. CASE << a, n >> = << s, m >>
    <3>1. CASE b = s
      BY <2>2, <3>1 DEF Forward
    <3>2. CASE b # s
      <4>1. s \in Nat /\ b \in Nat /\ b <= s - 1 /\ s # 0
        BY <2>2, <3>2, StageFacts DEF Inv, TypeOK
      <4>2. s - 1 \in Stages
        BY <4>1, StageFacts DEF Inv, TypeOK, Stages
      <4>3. << s - 1, m >> \in fwd
        BY <4>1 DEF Forward
      <4>. QED
        BY <2>2, <4>1, <4>2, <4>3 DEF Inv, PrefixForward, Forward
    <3>. QED BY <3>1, <3>2
  <2>. QED BY <2>1, <2>2 DEF Forward
<1>3. SuffixBackward'
  BY DEF Inv, SuffixBackward, Forward, Stages
<1>. QED BY <1>1, <1>2, <1>3 DEF Inv

\* A backward step, unified or dx only, extends the backward wavefront.
LEMMA BackwardInv ==
    ASSUME Inv, NEW s \in Stages, NEW m \in Micros, HasOutputGrad(s, m),
           bwd' = bwd \cup {<< s, m >>},
           wgt' = wgt \/ wgt' = wgt \cup {<< s, m >>},
           UNCHANGED << depth, fwd >>
    PROVE  Inv'
<1>1. TypeOK' /\ Nested'
  BY DEF Inv, TypeOK, Nested, HasOutputGrad, Pairs, Stages
<1>2. PrefixForward'
  BY DEF Inv, PrefixForward, Stages
<1>3. SuffixBackward'
  <2> SUFFICES ASSUME NEW a \in Stages, NEW b \in Stages, NEW n \in Micros,
                      << a, n >> \in bwd', a <= b
               PROVE  << b, n >> \in bwd'
    BY DEF SuffixBackward, Stages
  <2>1. CASE << a, n >> \in bwd
    BY <2>1 DEF Inv, SuffixBackward
  <2>2. CASE << a, n >> = << s, m >>
    <3>1. CASE b = s
      BY <2>2, <3>1
    <3>2. CASE b # s
      <4>1. s \in Nat /\ b \in Nat /\ s + 1 <= b /\ s # depth - 1
        BY <2>2, <3>2, StageFacts DEF Inv, TypeOK
      <4>2. s + 1 \in Stages
        BY <4>1, StageFacts DEF Inv, TypeOK, Stages
      <4>3. << s + 1, m >> \in bwd
        BY <4>1 DEF HasOutputGrad
      <4>. QED
        BY <2>2, <4>1, <4>2, <4>3 DEF Inv, SuffixBackward
    <3>. QED BY <3>1, <3>2
  <2>. QED BY <2>1, <2>2
<1>. QED BY <1>1, <1>2, <1>3 DEF Inv

\* backward_weight_one_chunk follows the dx of its own stage.
LEMMA BackwardWeightInv ==
    ASSUME Inv, NEW s \in Stages, NEW m \in Micros, BackwardWeight(s, m)
    PROVE  Inv'
  BY DEF Inv, TypeOK, PrefixForward, SuffixBackward, Nested, BackwardWeight,
         Pairs, Stages

LEMMA StutterInv == Inv /\ UNCHANGED vars => Inv'
  BY DEF Inv, TypeOK, PrefixForward, SuffixBackward, Nested, vars, Pairs, Stages

LEMMA NextInv == Inv /\ [Next]_vars => Inv'
<1> SUFFICES ASSUME Inv, [Next]_vars PROVE Inv'
  OBVIOUS
<1>1. ASSUME NEW s \in Stages, NEW m \in Micros, Forward(s, m) PROVE Inv'
  BY <1>1, ForwardInv
<1>2. ASSUME NEW s \in Stages, NEW m \in Micros, Backward(s, m) PROVE Inv'
  BY <1>2, BackwardInv DEF Backward
<1>3. ASSUME NEW s \in Stages, NEW m \in Micros, BackwardInput(s, m) PROVE Inv'
  BY <1>3, BackwardInv DEF BackwardInput
<1>4. ASSUME NEW s \in Stages, NEW m \in Micros, BackwardWeight(s, m) PROVE Inv'
  BY <1>4, BackwardWeightInv
<1>5. ASSUME Finished \/ UNCHANGED vars PROVE Inv'
  BY <1>5, StutterInv DEF Finished
<1>. QED BY <1>1, <1>2, <1>3, <1>4, <1>5 DEF Next, Step

\* The inductive invariant of every run of the pipeline.
THEOREM Invariance == Spec => []Inv
  BY InitInv, NextInv, PTL DEF Spec

\* Only computations of this pipeline are ever done.
THEOREM TypeCorrect == Spec => []TypeOK
<1>1. Inv => TypeOK
  BY DEF Inv
<1>. QED BY <1>1, Invariance, PTL

\* Where a weight gradient exists, the micro-batch has been through every stage.
LEMMA InvCausality == Inv => Causality
<1> SUFFICES ASSUME Inv, NEW s \in Stages, NEW t \in Stages, NEW m \in Micros,
                    << s, m >> \in wgt
             PROVE  << t, m >> \in fwd /\ (s <= t => << t, m >> \in bwd)
  BY DEF Causality
<1>1. << s, m >> \in bwd
  BY DEF Inv, Nested
<1>2. depth - 1 \in Stages /\ s <= depth - 1 /\ t <= depth - 1
  BY StageFacts DEF Inv, TypeOK
<1>3. << depth - 1, m >> \in fwd
  BY <1>1, <1>2 DEF Inv, SuffixBackward, Nested
<1>. QED
  BY <1>1, <1>2, <1>3 DEF Inv, PrefixForward, SuffixBackward

\* No gradient is accumulated that lacks a part of its micro-batch's history.
THEOREM GradientsComplete == Spec => []Causality
  BY Invariance, InvCausality, PTL

\* Once a backward has begun, every forward of the micro-batch is done.
LEMMA ForwardsDone ==
    ASSUME Inv, NEW s \in Stages, NEW m \in Micros, << s, m >> \in bwd
    PROVE  \A t \in Stages : << t, m >> \in fwd
<1>1. depth - 1 \in Stages /\ s <= depth - 1 /\ \A t \in Stages : t <= depth - 1
  BY StageFacts DEF Inv, TypeOK
<1>2. << depth - 1, m >> \in fwd
  BY <1>1 DEF Inv, SuffixBackward, Nested
<1>. QED
  BY <1>1, <1>2 DEF Inv, PrefixForward

\* No step of the pipeline runs a forward of a micro-batch in its backward.
THEOREM ForwardPhaseEnds == Spec => NoForwardAfterBackward
<1>1. ASSUME Inv, [Next]_vars, NEW m \in Micros, NEW s \in Stages,
             << s, m >> \in bwd, NEW t \in Stages
      PROVE  << t, m >> \in fwd' <=> << t, m >> \in fwd
  <2>1. << t, m >> \in fwd
    BY <1>1, ForwardsDone
  <2>2. fwd \subseteq fwd'
    BY <1>1 DEF Next, Step, Forward, Backward, BackwardInput, BackwardWeight,
                Finished, vars
  <2>. QED BY <2>1, <2>2
<1>2. Inv /\ [Next]_vars =>
        [\A m \in Micros :
            (\E s \in Stages : << s, m >> \in bwd)
            => \A s \in Stages : << s, m >> \in fwd' <=> << s, m >> \in fwd]_vars
  BY <1>1
<1>. QED BY <1>2, Invariance, PTL DEF Spec, NoForwardAfterBackward
=============================================================================
