-------------------------- MODULE PipelineRun_proofs --------------------------
(***************************************************************************)
(* What holds of PipelineRun for every set of configurations and every     *)
(* number of iterations: the types of the status and iteration of each     *)
(* rank, the agreement of the ranks that share a parameter on how many     *)
(* all-reduces they have passed (Inv), that no chunk reads a buffer still  *)
(* in flight (FlightInv), and that a rank which leaves a call has waited   *)
(* for every operation it issued (WaitInv).                                *)
(***************************************************************************)
EXTENDS PipelineRun, SequenceTheorems, FiniteSetTheorems, NaturalsInduction, TLAPS

Inv == TypeOK /\ AllReducesAgree

\* The part of the state the theorems of this module are about.
control == << cfg, status, iter >>

LEMMA RanksAreNumbers ==
    ASSUME NEW c \in Configs
    PROVE  /\ RanksOf(c) \subseteq Nat /\ c.shared \subseteq RanksOf(c)
           /\ c.calls \in Nat \ {0}
  BY ConfigsAssumption DEF RanksOf

LEMMA InitInv == Init => Inv
  BY RanksAreNumbers
  DEF Init, Inv, TypeOK, AllReducesAgree, AllReduces, Ranks, Statuses

LEMMA QuietInv == Inv /\ UNCHANGED control => Inv'
  BY DEF Inv, control, TypeOK, AllReducesAgree, AllReduces, Ranks

\* A rank changes its status without passing an all-reduce.
LEMMA StatusInv ==
    ASSUME Inv, NEW r \in Ranks, NEW x \in Statuses,
           status' = [status EXCEPT ![r] = x],
           UNCHANGED << cfg, iter >>,
           r \in cfg.shared =>
               (x \in {"drain", "done"} <=> status[r] \in {"drain", "done"})
    PROVE  Inv'
<1>1. TypeOK'
  BY DEF Inv, TypeOK, Ranks
<1>2. \A p \in cfg.shared : AllReduces(p)' = AllReduces(p)
  <2> SUFFICES ASSUME NEW p \in cfg.shared PROVE AllReduces(p)' = AllReduces(p)
    OBVIOUS
  <2>1. p \in Ranks
    BY RanksAreNumbers DEF Inv, TypeOK, Ranks
  <2>. QED
    BY <2>1 DEF Inv, TypeOK, AllReduces
<1>. QED
  BY <1>1, <1>2 DEF Inv, AllReducesAgree

\* A step that raises leaves the status "run" for "unwind".
LEMMA StepErrorInv ==
    ASSUME Inv, NEW r \in Ranks, StepError(r)
    PROVE  Inv'
<1>1. status[r] = "run"
  BY DEF StepError, BuildRaises, ComputeRaises, DataRaises, AtBuild, AtStep,
         SubStepReady
<1>. QED
  BY <1>1, StatusInv DEF StepError, Statuses

\* The last step of an order: the shared ranks wait for their all-reduce.
LEMMA LastStepInv ==
    ASSUME Inv, NEW r \in Ranks, LastStep(r)
    PROVE  Inv'
<1>1. CASE r \in cfg.shared
  BY <1>1, StatusInv DEF LastStep, Statuses
<1>2. CASE r \notin cfg.shared
  BY <1>2, StatusInv DEF LastStep, Statuses
<1>. QED BY <1>1, <1>2

LEMMA DrainInv ==
    ASSUME Inv, NEW r \in Ranks, Drain(r)
    PROVE  Inv'
<1>1. status[r] \in Statuses
  BY DEF Drain, Statuses
<1>2. CASE status[r] = "drain"
  <2>1. status' = [status EXCEPT ![r] = "done"]
    BY <1>2 DEF Drain
  <2>. QED
    BY <1>2, <2>1, StatusInv DEF Drain, Statuses
<1>3. CASE status[r] = "unwind"
  <2>1. status' = [status EXCEPT ![r] = "raised"]
    BY <1>3 DEF Drain
  <2>. QED
    BY <1>3, <2>1, StatusInv DEF Drain, Statuses
<1>. QED BY <1>2, <1>3 DEF Drain

\* The next call starts with the all-reduces of the previous ones passed.
LEMMA NextIterationInv ==
    ASSUME Inv, NEW r \in Ranks, NextIteration(r)
    PROVE  Inv'
<1>1. iter[r] \in Nat /\ iter[r] + 1 \in 0 .. cfg.calls - 1
  BY RanksAreNumbers DEF Inv, TypeOK, NextIteration
<1>2. TypeOK'
  BY <1>1 DEF Inv, TypeOK, NextIteration, Ranks, Statuses
<1>3. \A p \in cfg.shared : AllReduces(p)' = AllReduces(p)
  <2> SUFFICES ASSUME NEW p \in cfg.shared PROVE AllReduces(p)' = AllReduces(p)
    OBVIOUS
  <2>1. p \in Ranks
    BY RanksAreNumbers DEF Inv, TypeOK, Ranks
  <2>2. CASE p = r
    BY <1>1, <2>1, <2>2 DEF Inv, TypeOK, NextIteration, AllReduces
  <2>3. CASE p # r
    BY <2>1, <2>3 DEF Inv, TypeOK, NextIteration, AllReduces
  <2>. QED BY <2>2, <2>3
<1>. QED
  BY <1>2, <1>3 DEF Inv, AllReducesAgree, NextIteration

\* The all-reduce takes all its members one further, together.
LEMMA SyncInv == Inv /\ SyncSharedParametersGrad => Inv'
<1> SUFFICES ASSUME Inv, SyncSharedParametersGrad PROVE Inv'
  OBVIOUS
<1>1. TypeOK'
  BY DEF Inv, TypeOK, SyncSharedParametersGrad, Ranks, Statuses
<1>2. \A p \in cfg.shared : AllReduces(p)' = AllReduces(p) + 1
  <2> SUFFICES ASSUME NEW p \in cfg.shared PROVE AllReduces(p)' = AllReduces(p) + 1
    OBVIOUS
  <2>1. p \in Ranks
    BY RanksAreNumbers DEF Inv, TypeOK, Ranks
  <2>2. iter[p] \in Nat
    BY <2>1, RanksAreNumbers DEF Inv, TypeOK
  <2>. QED
    BY <2>1, <2>2 DEF SyncSharedParametersGrad, AllReduces
<1>. QED
  BY <1>1, <1>2 DEF Inv, AllReducesAgree, SyncSharedParametersGrad

LEMMA RankStepInv ==
    ASSUME Inv, NEW r \in Ranks, RankStep(r)
    PROVE  Inv'
<1>1. CASE ExchangeMeta(r) \/ P2PStep(r) \/ BatchBuild(r) \/ BatchIssue(r)
  BY <1>1, QuietInv DEF ExchangeMeta, P2PStep, BatchBuild, BatchIssue, control
<1>2. CASE ComputeStep(r) \/ SubStep(r) \/ BoundaryStep(r) \/ OverlapEnd(r)
  BY <1>2, QuietInv DEF ComputeStep, SubStep, BoundaryStep, OverlapEnd, control
<1>3. CASE DataLoad(r) \/ DataTransfer(r)
  BY <1>3, QuietInv DEF DataLoad, DataTransfer, control
<1>4. CASE StepError(r)
  BY <1>4, StepErrorInv
<1>5. CASE LastStep(r)
  BY <1>5, LastStepInv
<1>6. CASE Drain(r)
  BY <1>6, DrainInv
<1>7. CASE NextIteration(r)
  BY <1>7, NextIterationInv
<1>. QED
  BY <1>1, <1>2, <1>3, <1>4, <1>5, <1>6, <1>7 DEF RankStep

LEMMA NextInv == Inv /\ [Next]_vars => Inv'
<1> SUFFICES ASSUME Inv, [Next]_vars PROVE Inv'
  OBVIOUS
<1>1. ASSUME NEW r \in Ranks, RankStep(r) PROVE Inv'
  BY <1>1, RankStepInv
<1>2. CASE Transport
  BY <1>2, QuietInv DEF Transport, Match, locals, control
<1>3. CASE SyncSharedParametersGrad
  BY <1>3, SyncInv
<1>4. CASE Terminated \/ UNCHANGED vars
  BY <1>4, QuietInv DEF Terminated, vars, locals, control
<1>. QED
  BY <1>1, <1>2, <1>3, <1>4 DEF Next

\* The control invariant holds in every run of every configuration.
THEOREM ControlInvariance == Spec => []Inv
  BY InitInv, NextInv, PTL DEF Spec

\* The status and iteration of every rank keep their types.
THEOREM ControlTypeCorrect == Spec => []TypeOK
<1>1. Inv => TypeOK
  BY DEF Inv
<1>. QED BY <1>1, ControlInvariance, PTL

\* The stages sharing a parameter never sum gradients of different iterations.
THEOREM SharedGradsInStep == Spec => []AllReducesAgree
<1>1. Inv => AllReducesAgree
  BY DEF Inv
<1>. QED BY <1>1, ControlInvariance, PTL

-----------------------------------------------------------------------------
(***************************************************************************)
(* Induction over a set of numbers, and what the operators on sequences that *)
(* the transport and the peer batches are built from keep.                 *)
(***************************************************************************)
LEMMA CountUp ==
    ASSUME NEW G, 0 \in G, \A n \in Nat : n \in G => n + 1 \in G
    PROVE  Nat \subseteq G
<1> DEFINE bad == Nat \ G
<1>1. SUFFICES ASSUME bad # {} PROVE FALSE
  OBVIOUS
<1>2. PICK x \in bad : \A y \in bad : ~ (<< y, x >> \in OpToRel(<, Nat))
  BY <1>1, NatLessThanWellFounded, WFMin
<1>3. x \in Nat /\ x # 0 /\ x - 1 \in Nat /\ x - 1 < x
  OBVIOUS
<1>4. << x - 1, x >> \in OpToRel(<, Nat)
  <2>1. OpToRel(<, Nat) = {ss \in Nat \X Nat : ss[1] < ss[2]}
    BY DEF OpToRel
  <2>2. << x - 1, x >> \in Nat \X Nat
    BY <1>3
  <2>. QED
    BY <1>3, <2>1, <2>2
<1>5. x - 1 \notin bad
  BY <1>2, <1>4
<1>6. x - 1 \in G
  BY <1>3, <1>5
<1>. QED
  BY <1>3, <1>6

\* A nonempty set of positions has a first and a last one.
LEMMA EndsExist ==
    ASSUME NEW n \in Nat, NEW I \in SUBSET (1 .. n), I # {}
    PROVE  (\E a \in I : \A b \in I : a <= b) /\ (\E a \in I : \A b \in I : a >= b)
<1>1. \E a \in I : \A b \in I : a <= b
  <2> DEFINE G == {m \in Nat : \A b \in I : m <= b}
  <2>1. SUFFICES ASSUME \A a \in I : \E b \in I : ~(a <= b) PROVE FALSE
    OBVIOUS
  <2>2. 0 \in G
    OBVIOUS
  <2>3. ASSUME NEW m \in Nat, m \in G PROVE m + 1 \in G
    <3>1. m \notin I
      BY <2>1, <2>3
    <3>. QED
      BY <2>3, <3>1
  <2>4. Nat \subseteq G
    <3> HIDE DEF G
    <3>. QED BY <2>2, <2>3, CountUp
  <2>5. PICK b : b \in I
    OBVIOUS
  <2>6. n + 1 \in G /\ b \in 1 .. n
    BY <2>4, <2>5
  <2>7. n + 1 <= b
    BY <2>5, <2>6
  <2>. QED
    BY <2>6, <2>7
<1>2. \E a \in I : \A b \in I : a >= b
  <2> DEFINE G == {m \in Nat : \A b \in I : b <= n - m}
  <2>1. SUFFICES ASSUME \A a \in I : \E b \in I : ~(a >= b) PROVE FALSE
    OBVIOUS
  <2>2. 0 \in G
    OBVIOUS
  <2>3. ASSUME NEW m \in Nat, m \in G PROVE m + 1 \in G
    <3>1. n - m \notin I
      BY <2>1, <2>3
    <3>. QED
      BY <2>3, <3>1
  <2>4. Nat \subseteq G
    <3> HIDE DEF G
    <3>. QED BY <2>2, <2>3, CountUp
  <2>5. PICK b : b \in I
    OBVIOUS
  <2>6. n \in G /\ b \in 1 .. n
    BY <2>4, <2>5
  <2>7. b <= n - n
    BY <2>5, <2>6
  <2>. QED
    BY <2>6, <2>7
<1>. QED
  BY <1>1, <1>2

\* The operations of a batch in one direction are looked up at their place.
LEMMA FirstInPlace ==
    ASSUME NEW S, NEW batch \in Seq(S), NEW dir, FirstIn(batch, dir) # 0
    PROVE  FirstIn(batch, dir) \in 1 .. Len(batch)
<1> DEFINE I == {i \in 1 .. Len(batch) : batch[i].dir = dir}
<1>1. I # {} /\ FirstIn(batch, dir) = CHOOSE x \in I : \A y \in I : x <= y
  BY DEF FirstIn, SelectInSeq, Min
<1>2. \E a \in I : \A b \in I : a <= b
  BY <1>1, EndsExist, LenProperties
<1>. QED
  BY <1>1, <1>2

LEMMA AppendSet ==
    ASSUME NEW S, NEW s \in Seq(S), NEW x \in S
    PROVE  Append(s, x) \in Seq(S) /\ ToSet(Append(s, x)) = ToSet(s) \cup {x}
<1>1. /\ Append(s, x) \in Seq(S) /\ Len(Append(s, x)) = Len(s) + 1 /\ Len(s) \in Nat
      /\ DOMAIN s = 1 .. Len(s) /\ DOMAIN Append(s, x) = 1 .. Len(s) + 1
      /\ \A i \in 1 .. Len(s) : Append(s, x)[i] = s[i]
      /\ Append(s, x)[Len(s) + 1] = x
  BY AppendProperties, LenProperties
<1>. QED
  BY <1>1 DEF ToSet

LEMMA ConcatSet ==
    ASSUME NEW S, NEW s \in Seq(S), NEW t \in Seq(S)
    PROVE  s \o t \in Seq(S) /\ ToSet(s \o t) = ToSet(s) \cup ToSet(t)
<1>. DEFINE u == s \o t
            m == Len(s)
            n == Len(t)
<1>1. /\ u \in Seq(S) /\ m \in Nat /\ n \in Nat
      /\ DOMAIN s = 1 .. m /\ DOMAIN t = 1 .. n /\ DOMAIN u = 1 .. m + n
      /\ \A i \in 1 .. m + n : u[i] = IF i <= m THEN s[i] ELSE t[i - m]
  BY ConcatProperties, LenProperties
<1>. HIDE DEF u, m, n
<1>2. /\ ToSet(s) = {s[i] : i \in 1 .. m} /\ ToSet(t) = {t[i] : i \in 1 .. n}
      /\ ToSet(u) = {u[i] : i \in 1 .. m + n}
  BY <1>1, Zenon DEF ToSet
<1>3. ASSUME NEW i \in 1 .. m PROVE i \in 1 .. m + n /\ u[i] = s[i]
  BY <1>1
<1>4. ASSUME NEW i \in 1 .. n PROVE m + i \in 1 .. m + n /\ u[m + i] = t[i]
  BY <1>1
<1>5. ASSUME NEW i \in 1 .. m + n
      PROVE  \/ i \in 1 .. m /\ u[i] = s[i]
             \/ i - m \in 1 .. n /\ u[i] = t[i - m]
  BY <1>1
<1>6. ToSet(u) = ToSet(s) \cup ToSet(t)
  BY <1>2, <1>3, <1>4, <1>5, Zenon
<1>. QED
  BY <1>1, <1>6 DEF u

LEMMA PartSet ==
    ASSUME NEW S, NEW s \in Seq(S), NEW a \in 1 .. Len(s) + 1, NEW b \in a - 1 .. Len(s)
    PROVE  SubSeq(s, a, b) \in Seq(S) /\ ToSet(SubSeq(s, a, b)) \subseteq ToSet(s)
<1> DEFINE u == SubSeq(s, a, b)
<1>1. Len(s) \in Nat /\ DOMAIN s = 1 .. Len(s) /\ \A k \in a .. b : k \in 1 .. Len(s) /\ s[k] \in S
  BY LenProperties
<1>2. /\ u \in Seq(S) /\ Len(u) = (IF a <= b THEN b - a + 1 ELSE 0)
      /\ \A k \in 1 .. b - a + 1 : u[k] = s[a + k - 1]
  BY <1>1, SubSeqProperties
<1> HIDE DEF u
<1>3. DOMAIN u = 1 .. Len(u)
  BY <1>2, LenProperties
<1>4. ASSUME NEW k \in DOMAIN u PROVE a + k - 1 \in DOMAIN s /\ u[k] = s[a + k - 1]
  <2>1. k \in 1 .. b - a + 1
    BY <1>1, <1>2, <1>3
  <2>2. a + k - 1 \in 1 .. Len(s)
    BY <1>1, <2>1
  <2>. QED BY <1>1, <1>2, <2>1, <2>2
<1>5. ToSet(u) \subseteq ToSet(s)
  BY <1>4, Zenon DEF ToSet
<1>. QED BY <1>2, <1>5 DEF u

LEMMA RestSet ==
    ASSUME NEW S, NEW s \in Seq(S), NEW i \in 1 .. Len(s)
    PROVE  RemoveAt(s, i) \in Seq(S) /\ ToSet(RemoveAt(s, i)) \subseteq ToSet(s)
<1> DEFINE a == SubSeq(s, 1, i - 1)
           b == SubSeq(s, i + 1, Len(s))
<1>1. Len(s) \in Nat
  BY LenProperties
<1>2. 1 \in 1 .. Len(s) + 1 /\ i - 1 \in 1 - 1 .. Len(s)
  BY <1>1
<1>3. i + 1 \in 1 .. Len(s) + 1 /\ Len(s) \in i + 1 - 1 .. Len(s)
  BY <1>1
<1>4. a \in Seq(S) /\ ToSet(a) \subseteq ToSet(s)
  BY <1>2, PartSet
<1>5. b \in Seq(S) /\ ToSet(b) \subseteq ToSet(s)
  BY <1>3, PartSet
<1>6. RemoveAt(s, i) = a \o b
  BY DEF RemoveAt
<1> HIDE DEF a, b
<1>7. a \o b \in Seq(S) /\ ToSet(a \o b) = ToSet(a) \cup ToSet(b)
  BY <1>4, <1>5, ConcatSet
<1>. QED BY <1>4, <1>5, <1>6, <1>7

LEMMA ConsSet ==
    ASSUME NEW S, NEW x \in S, NEW t \in Seq(S)
    PROVE  << x >> \o t \in Seq(S) /\ ToSet(<< x >> \o t) = {x} \cup ToSet(t)
<1>1. << x >> \in Seq(S)
  OBVIOUS
<1>2. ToSet(<< x >>) = {x}
  BY DEF ToSet
<1> DEFINE one == << x >>
<1>3. one \in Seq(S) /\ ToSet(one) = {x}
  BY <1>1, <1>2
<1> HIDE DEF one
<1>4. one \o t \in Seq(S) /\ ToSet(one \o t) = {x} \cup ToSet(t)
  BY <1>3, ConcatSet
<1>. QED
  BY <1>4 DEF one

LEMMA TailSet ==
    ASSUME NEW S, NEW s \in Seq(S), s # <<>>
    PROVE  /\ Tail(s) \in Seq(S) /\ Head(s) \in S /\ Head(s) = s[1] /\ 1 \in DOMAIN s
           /\ \A i \in DOMAIN Tail(s) : i + 1 \in DOMAIN s /\ Tail(s)[i] = s[i + 1]
<1>1. /\ Tail(s) \in Seq(S) /\ Head(s) \in S /\ Len(Tail(s)) = Len(s) - 1 /\ Len(s) \in Nat
      /\ DOMAIN s = 1 .. Len(s) /\ DOMAIN Tail(s) = 1 .. Len(s) - 1
      /\ \A i \in 1 .. Len(s) - 1 : Tail(s)[i] = s[i + 1]
  BY HeadTailProperties, LenProperties
<1>2. Len(s) # 0
  BY <1>1, EmptySeq
<1>. QED
  BY <1>1, <1>2

\* Matching an operation leaves the others of its queue.
LEMMA WithoutOne ==
    ASSUME NEW S, NEW q \in Seq(Seq(S)), q # <<>>, NEW i \in 1 .. Len(Head(q))
    PROVE  /\ Without(q, i) \in Seq(Seq(S))
           /\ \A k \in DOMAIN Without(q, i) : \E m \in DOMAIN q :
                  ToSet(Without(q, i)[k]) \subseteq ToSet(q[m])
<1> DEFINE h == Head(q)
           rest == RemoveAt(h, i)
<1>1. /\ Tail(q) \in Seq(Seq(S)) /\ h \in Seq(S) /\ h = q[1] /\ 1 \in DOMAIN q
      /\ \A k \in DOMAIN Tail(q) : k + 1 \in DOMAIN q /\ Tail(q)[k] = q[k + 1]
  BY TailSet
<1>2. Len(h) \in Nat /\ DOMAIN h = 1 .. Len(h) /\ \A k \in 1 .. Len(h) : h[k] \in S
  BY <1>1, LenProperties
<1> HIDE DEF h
<1>3. i \in 1 .. Len(h)
  BY DEF h
<1>6. rest \in Seq(S) /\ ToSet(rest) \subseteq ToSet(h)
  BY <1>1, <1>3, RestSet
<1> HIDE DEF rest
<1>7. CASE Len(h) = 1
  <2>1. Without(q, i) = Tail(q)
    BY <1>7 DEF Without, h
  <2>. QED
    BY <1>1, <2>1
<1>8. CASE Len(h) # 1
  <2>1. Without(q, i) = << rest >> \o Tail(q)
    BY <1>8 DEF Without, h, rest
  <2>2. rest \in Seq(S) /\ Tail(q) \in Seq(Seq(S))
    BY <1>1, <1>6
  <2>3. /\ << rest >> \o Tail(q) \in Seq(Seq(S))
        /\ ToSet(<< rest >> \o Tail(q)) = {rest} \cup ToSet(Tail(q))
    BY <2>2, ConsSet, Zenon
  <2>4. \A x \in ToSet(Without(q, i)) : \E m \in DOMAIN q : ToSet(x) \subseteq ToSet(q[m])
    <3> SUFFICES ASSUME NEW x \in ToSet(Without(q, i))
                 PROVE  \E m \in DOMAIN q : ToSet(x) \subseteq ToSet(q[m])
      OBVIOUS
    <3>1. CASE x = rest
      BY <1>1, <1>6, <3>1
    <3>2. CASE x \in ToSet(Tail(q))
      BY <1>1, <3>2 DEF ToSet
    <3>. QED
      BY <2>1, <2>2, <2>3, <3>1, <3>2
  <2>5. \A k \in DOMAIN Without(q, i) : Without(q, i)[k] \in ToSet(Without(q, i))
    BY DEF ToSet
  <2>. QED
    BY <2>1, <2>3, <2>4, <2>5
<1>. QED
  BY <1>7, <1>8


\* FlattenSeq is the value of a function defined by recursion over the places
\* of the sequence; there is such a function for every sequence.
IsFlat(it, ss, n) ==
    it = [i \in 1 .. n |-> IF i = 1 THEN ss[i] ELSE it[i - 1] \o ss[i]]

LEMMA FlatExists ==
    ASSUME NEW ss, NEW n \in Nat
    PROVE  \E it : IsFlat(it, ss, n)
<1> DEFINE G == {m \in Nat : \E it : IsFlat(it, ss, m)}
<1>1. 0 \in G
  <2>1. IsFlat([i \in 1 .. 0 |-> 0], ss, 0)
    BY DEF IsFlat
  <2>. QED BY <2>1
<1>2. ASSUME NEW m \in Nat, m \in G PROVE m + 1 \in G
  <2>1. PICK it : IsFlat(it, ss, m)
    BY <1>2
  <2> DEFINE jt == [i \in 1 .. m + 1 |-> IF i = 1 THEN ss[i] ELSE it[i - 1] \o ss[i]]
  <2>2. \A i \in 1 .. m : jt[i] = it[i]
    <3> TAKE i \in 1 .. m
    <3>1. it[i] = IF i = 1 THEN ss[i] ELSE it[i - 1] \o ss[i]
      BY <2>1 DEF IsFlat
    <3>2. i \in 1 .. m + 1
      OBVIOUS
    <3>. QED BY <3>1, <3>2
  <2>3. \A i \in 1 .. m + 1 : i # 1 => i - 1 \in 1 .. m
    OBVIOUS
  <2>4. IsFlat(jt, ss, m + 1)
    BY <2>2, <2>3 DEF IsFlat
  <2>5. \E kt : IsFlat(kt, ss, m + 1)
    <3> HIDE DEF jt
    <3>. QED BY <2>4
  <2>. QED BY <2>5
<1>3. Nat \subseteq G
  <2> HIDE DEF G
  <2>. QED BY <1>1, <1>2, CountUp
<1>. QED BY <1>3

LEMMA FlatUnfolds ==
    ASSUME NEW ss, Len(ss) \in Nat \ {0}
    PROVE  \E it : IsFlat(it, ss, Len(ss)) /\ FlattenSeq(ss) = it[Len(ss)]
<1> DEFINE jt == CHOOSE g : g = [i \in 1 .. Len(ss) |->
                     IF i = 1 THEN ss[i] ELSE g[i - 1] \o ss[i]]
<1>1. IsFlat(jt, ss, Len(ss))
  BY FlatExists DEF IsFlat
<1>2. FlattenSeq(ss) = jt[Len(ss)]
  BY DEF FlattenSeq
<1> HIDE DEF jt
<1>. QED
  BY <1>1, <1>2

\* What a concatenation holds is what its parts hold.
LEMMA FlattenHolds ==
    ASSUME NEW S, NEW ss \in Seq(Seq(S))
    PROVE  /\ FlattenSeq(ss) \in Seq(S)
           /\ \A i \in DOMAIN ss : ToSet(ss[i]) \subseteq ToSet(FlattenSeq(ss))
           /\ \A x \in ToSet(FlattenSeq(ss)) : \E i \in DOMAIN ss : x \in ToSet(ss[i])
<1>0. Len(ss) \in Nat /\ DOMAIN ss = 1 .. Len(ss) /\ \A i \in 1 .. Len(ss) : ss[i] \in Seq(S)
  BY LenProperties
<1>1. CASE Len(ss) = 0
  <2>1. ss = <<>>
    BY <1>1, EmptySeq
  <2>2. FlattenSeq(ss) = <<>>
    BY <1>1, <2>1 DEF FlattenSeq
  <2>3. DOMAIN ss = {}
    BY <1>0, <1>1
  <2>4. FlattenSeq(ss) \in Seq(S)
    BY <2>2, EmptySeq
  <2>5. ToSet(FlattenSeq(ss)) = {}
    BY <2>1, <2>2, <2>3 DEF ToSet
  <2>. QED
    BY <2>3, <2>4, <2>5
<1>2. CASE Len(ss) # 0
  <2>1. PICK it : IsFlat(it, ss, Len(ss)) /\ FlattenSeq(ss) = it[Len(ss)]
    BY <1>0, <1>2, FlatUnfolds
  <2>0. \A i \in 1 .. Len(ss) : it[i] = IF i = 1 THEN ss[i] ELSE it[i - 1] \o ss[i]
    BY <2>1 DEF IsFlat
  <2> DEFINE Good(n) ==
        /\ it[n] \in Seq(S)
        /\ \A i \in 1 .. n : ToSet(ss[i]) \subseteq ToSet(it[n])
        /\ \A x \in ToSet(it[n]) : \E i \in 1 .. n : x \in ToSet(ss[i])
  <2> DEFINE G == {n \in Nat : n + 1 <= Len(ss) => Good(n + 1)}
  <2>2. 0 \in G
    <3>1. it[1] = ss[1] /\ 1 \in 1 .. Len(ss)
      BY <1>0, <1>2, <2>1 DEF IsFlat
    <3>2. Good(1)
      BY <1>0, <3>1
    <3> HIDE DEF Good
    <3>. QED BY <3>2
  <2>3. ASSUME NEW n \in Nat, n \in G PROVE n + 1 \in G
    <3> SUFFICES ASSUME n + 1 + 1 <= Len(ss) PROVE Good(n + 1 + 1)
      OBVIOUS
    <3> DEFINE m == n + 1
    <3>1. m \in 1 .. Len(ss) /\ m + 1 \in 1 .. Len(ss) /\ m + 1 # 1 /\ m + 1 - 1 = m
      BY <1>0
    <3>2. Good(m)
      <4> HIDE DEF Good
      <4>. QED BY <2>3, <3>1
    <3> HIDE DEF m
    <3>3. it[m + 1] = it[m] \o ss[m + 1]
      <4> DEFINE j == m + 1
      <4>1. j \in 1 .. Len(ss) /\ j # 1 /\ j - 1 = m
        BY <3>1
      <4> HIDE DEF j
      <4>2. it[j] = it[j - 1] \o ss[j]
        BY <2>0, <4>1
      <4>. QED BY <4>1, <4>2 DEF j
    <3>4. /\ it[m + 1] \in Seq(S)
          /\ ToSet(it[m + 1]) = ToSet(it[m]) \cup ToSet(ss[m + 1])
      BY <1>0, <3>1, <3>2, <3>3, ConcatSet
    <3>5. \A i \in 1 .. m + 1 : i \in 1 .. m \/ i = m + 1
      BY <3>1
    <3>6. \A i \in 1 .. m : i \in 1 .. m + 1
      BY <3>1
    <3>7. Good(m + 1)
      <4>1. \A i \in 1 .. m + 1 : ToSet(ss[i]) \subseteq ToSet(it[m + 1])
        BY <3>2, <3>4, <3>5
      <4>2. \A x \in ToSet(it[m + 1]) : \E i \in 1 .. m + 1 : x \in ToSet(ss[i])
        <5> TAKE x \in ToSet(it[m + 1])
        <5>1. CASE x \in ToSet(it[m])
          BY <3>2, <3>6, <5>1
        <5>2. CASE x \in ToSet(ss[m + 1])
          BY <3>1, <5>2
        <5>. QED BY <3>4, <5>1, <5>2
      <4>. QED BY <3>4, <4>1, <4>2
    <3> HIDE DEF Good
    <3>. QED BY <3>7 DEF m
  <2>4. Nat \subseteq G
    <3> HIDE DEF G
    <3>. QED BY <2>2, <2>3, CountUp
  <2>5. Good(Len(ss))
    <3>1. Len(ss) - 1 \in Nat /\ Len(ss) - 1 + 1 = Len(ss)
      BY <1>0, <1>2
    <3>2. Len(ss) - 1 \in G
      <4> HIDE DEF G
      <4>. QED BY <2>4, <3>1
    <3>3. Good(Len(ss) - 1 + 1)
      <4> HIDE DEF Good
      <4>. QED BY <1>0, <3>1, <3>2
    <3>. QED
      <4> HIDE DEF Good
      <4>. QED BY <3>1, <3>3
  <2>. QED
    BY <1>0, <2>1, <2>5
<1>. QED
  BY <1>1, <1>2

-----------------------------------------------------------------------------
(***************************************************************************)
(* The invariant behind NoUnlandedRead.  A receive is known by the step that *)
(* consumes it (its key) and, from its posting to its arrival, is one the rank *)
(* is blocked on or one it keeps a handle of under that key, so that the step *)
(* waits for it.                                                           *)
(***************************************************************************)
InputKeys == {"fwd", "bwd"} \X Nat \X Nat
KeyOp(r, k) ==
    Op("recv", << k[1], IF k[1] = "fwd" THEN k[2] - 1 ELSE k[2] + 1, Global(r, k[3]) >>)
IsInput(o) == o.dir = "recv" /\ o.tensor[1] \in {"fwd", "bwd"}
Slotted(k) == k[1] = "bwd" => << k[2], k[3] >> \in cache.slots

Ops == [dir : {"send", "recv"}, tensor : {"fwd", "bwd", "data", "meta"} \X Int \X Int]
PeerBatch == [peer : Int, ops : Seq(Ops), recvs : SUBSET InputKeys]
Caches == [outs : SUBSET (Nat \X Nat), acts : SUBSET (Nat \X Nat),
           grads : SUBSET (Nat \X Nat), args : SUBSET (Nat \X Nat),
           abufs : SUBSET (Nat \X Nat), slots : SUBSET (Nat \X Nat),
           gbufs : SUBSET (Nat \X Nat), dw : SUBSET (Nat \X Nat)]
StateTypes ==
    /\ orders = ActiveOrders(cfg)
    /\ pc \in [Ranks -> Nat \ {0}]
    /\ bnd \in [Ranks -> Nat]
    /\ part \in [Ranks -> SUBSET (1 .. 2)]
    /\ batches \in [Ranks -> Seq(PeerBatch)]
    /\ DOMAIN waiting = Ranks /\ DOMAIN handles = Ranks
    /\ wire \in [Lanes \X Ranks \X Ranks -> Seq(Seq(Ops))]
    /\ cache \in Caches

\* Where the rank is: in the middle of a batch or of an overlap it is at that
\* step, and a rank that finished its order has nothing begun.
InPlace(r) ==
    /\ status[r] = "run" /\ batches[r] # <<>> =>
           pc[r] <= Len(Order(r)) /\ Cur(r).type = "BATCH_SEND_RECV"
    /\ status[r] = "run" /\ part[r] # {} => pc[r] <= Len(Order(r)) /\ IsOverlap(Cur(r))
    /\ status[r] \in {"sync", "drain", "done"} =>
           batches[r] = <<>> /\ part[r] = {} /\ Completed(r, waiting[r])

\* Every input in flight is one the rank is blocked on or has a handle of.
Kept(r, o) ==
    \E k \in DOMAIN handles[r] :
        k \in InputKeys /\ o = KeyOp(r, k) /\ o \in handles[r][k] /\ Slotted(k)
Tracked(r) == \A o \in InFlight(r) : IsInput(o) => o \in waiting[r] \/ Kept(r, o)

\* The batches still to issue: their receives are the inputs among their operations.
Routed(r, b) ==
    /\ \A k \in b.recvs : KeyOp(r, k) \in ToSet(b.ops) /\ Slotted(k)
    /\ \A o \in ToSet(b.ops) : IsInput(o) => \E k \in b.recvs : o = KeyOp(r, k)
Sorted(r) == \A n \in DOMAIN batches[r] : Routed(r, batches[r][n])

\* The second half of an overlap runs while the rank is blocked at its boundary,
\* though never on the input of the first half.
HalfFed(r) ==
    status[r] = "run" /\ 2 \in part[r] =>
        KeyOp(r, ComputeKey(Cur(r).sub[1])) \notin InFlight(r) \cap waiting[r]

Landed(r) == status[r] = "done" => \A o \in InFlight(r) : ~IsInput(o)

Local(r) == InPlace(r) /\ Tracked(r) /\ Sorted(r) /\ HalfFed(r) /\ Landed(r)
FlightInv == StateTypes /\ NoUnlandedRead /\ \A r \in Ranks : Local(r)

-----------------------------------------------------------------------------
(***************************************************************************)
(* The caches after a batch are a fold of CacheAfter over its steps, which *)
(* unfolds to a function defined by recursion over sets of places.         *)
(***************************************************************************)
Top(s) == CHOOSE x \in s : \A y \in s : x >= y
Folded(it, st, seq, family) ==
    \A s \in family : it[s] = IF s = {} THEN st ELSE CacheAfter(it[s \ {Top(s)}], seq[Top(s)])
IsFold(it, st, seq) ==
    it = [s \in SUBSET DOMAIN seq |->
             IF s = {} THEN st ELSE CacheAfter(it[s \ {Top(s)}], seq[Top(s)])]

LEMMA PlacesFinite ==
    ASSUME NEW n \in Nat, NEW s \in SUBSET (1 .. n)
    PROVE  IsFiniteSet(s) /\ Cardinality(s) \in Nat /\ Cardinality(s) <= n
<1>1. IsFiniteSet(1 .. n) /\ Cardinality(1 .. n) = IF 1 > n THEN 0 ELSE n - 1 + 1
  BY FS_Interval
<1>2. Cardinality(1 .. n) = n
  BY <1>1
<1>3. IsFiniteSet(s) /\ Cardinality(s) <= Cardinality(1 .. n)
  BY <1>1, FS_Subset
<1>. QED
  BY <1>2, <1>3, FS_CardinalityType

\* Taking the last place out of a set of places leaves it one smaller.
LEMMA TopOut ==
    ASSUME NEW n \in Nat, NEW s \in SUBSET (1 .. n), s # {}
    PROVE  /\ Top(s) \in s /\ IsFiniteSet(s) /\ Cardinality(s) \in Nat
           /\ Cardinality(s \ {Top(s)}) = Cardinality(s) - 1
<1>1. \E a \in s : \A b \in s : a >= b
  BY EndsExist
<1>2. Top(s) \in s
  BY <1>1 DEF Top
<1>4. IsFiniteSet(s)
  BY PlacesFinite
<1>. QED
  BY <1>2, <1>4, FS_RemoveElement, FS_CardinalityType

LEMMA FoldUnfolds ==
    ASSUME NEW st, NEW seq, NEW it, IsFold(it, st, seq)
    PROVE  \E jt : IsFold(jt, st, seq) /\ FoldLeft(CacheAfter, st, seq) = jt[DOMAIN seq]
<1> DEFINE jt == CHOOSE g : g = [s \in SUBSET DOMAIN seq |->
            IF s = {} THEN st
            ELSE CacheAfter(g[s \ {CHOOSE x \in s : \A y \in s : x >= y}],
                            seq[CHOOSE x \in s : \A y \in s : x >= y])]
<1>1. IsFold(jt, st, seq)
  BY DEF IsFold, Top
<1>2. FoldLeft(CacheAfter, st, seq) = jt[DOMAIN seq]
  BY DEF FoldLeft, MapThenFoldSet, Max
<1>. QED
  BY <1>1, <1>2

LEMMA FoldExists ==
    ASSUME NEW st, NEW seq, NEW N \in Nat, DOMAIN seq = 1 .. N
    PROVE  \E it : IsFold(it, st, seq)
<1> DEFINE S == 1 .. N
           Small(n) == {s \in SUBSET S : Cardinality(s) <= n}
           G == {n \in Nat : \E it : Folded(it, st, seq, Small(n))}
<1>1. \A s \in SUBSET S : IsFiniteSet(s) /\ Cardinality(s) \in Nat /\ Cardinality(s) <= N
  BY PlacesFinite
<1>2. 0 \in G
  <2>1. Small(0) \subseteq {{}}
    BY <1>1, FS_EmptySet
  <2>2. Folded([s \in {{}} |-> st], st, seq, Small(0))
    BY <2>1 DEF Folded
  <2>. QED
    BY <2>2
<1>3. ASSUME NEW n \in Nat, n \in G PROVE n + 1 \in G
  <2>1. PICK it : Folded(it, st, seq, Small(n))
    BY <1>3
  <2> DEFINE jt == [s \in SUBSET S |->
                       IF s = {} THEN st ELSE CacheAfter(it[s \ {Top(s)}], seq[Top(s)])]
  <2>2. \A s \in Small(n) : jt[s] = it[s]
    <3> TAKE s \in Small(n)
    <3>1. it[s] = IF s = {} THEN st ELSE CacheAfter(it[s \ {Top(s)}], seq[Top(s)])
      BY <2>1 DEF Folded
    <3>2. s \in SUBSET S
      OBVIOUS
    <3>. QED BY <3>1, <3>2
  <2>3. ASSUME NEW s \in Small(n + 1), s # {}
        PROVE  s \ {Top(s)} \in Small(n)
    <3>1. s \in SUBSET (1 .. N) /\ Cardinality(s) <= n + 1
      OBVIOUS
    <3>2. Cardinality(s) \in Nat /\ Cardinality(s \ {Top(s)}) = Cardinality(s) - 1
      BY <2>3, <3>1, TopOut
    <3>3. s \ {Top(s)} \in SUBSET S
      OBVIOUS
    <3>. QED
      BY <3>1, <3>2, <3>3
  <2>4. Folded(jt, st, seq, Small(n + 1))
    <3> SUFFICES ASSUME NEW s \in Small(n + 1)
                 PROVE  jt[s] = IF s = {} THEN st ELSE CacheAfter(jt[s \ {Top(s)}], seq[Top(s)])
      BY DEF Folded
    <3>1. s \in SUBSET S
      OBVIOUS
    <3>2. CASE s = {}
      BY <3>1, <3>2
    <3>3. CASE s # {}
      <4>1. jt[s \ {Top(s)}] = it[s \ {Top(s)}]
        BY <3>3, <2>2, <2>3
      <4>2. jt[s] = CacheAfter(it[s \ {Top(s)}], seq[Top(s)])
        BY <3>1, <3>3
      <4> HIDE DEF jt
      <4>. QED BY <3>3, <4>1, <4>2
    <3>. QED
      BY <3>2, <3>3
  <2>5. \E kt : Folded(kt, st, seq, Small(n + 1))
    <3> HIDE DEF jt, Small
    <3>. QED
      BY <2>4
  <2> HIDE DEF Small
  <2>. QED
    BY <2>5
<1>4. N \in G
  <2> HIDE DEF G
  <2>. QED
    BY <1>2, <1>3, CountUp
<1>5. PICK it : Folded(it, st, seq, Small(N))
  BY <1>4
<1>6. Small(N) = SUBSET S
  BY <1>1
<1> DEFINE jt == [s \in SUBSET S |-> it[s]]
<1>7. \A s \in SUBSET S : s \ {Top(s)} \in SUBSET S
  OBVIOUS
<1>8. \A s \in SUBSET S : jt[s] = IF s = {} THEN st ELSE CacheAfter(jt[s \ {Top(s)}], seq[Top(s)])
  <2> TAKE s \in SUBSET S
  <2>1. it[s] = IF s = {} THEN st ELSE CacheAfter(it[s \ {Top(s)}], seq[Top(s)])
    BY <1>5, <1>6 DEF Folded
  <2>2. jt[s] = it[s] /\ jt[s \ {Top(s)}] = it[s \ {Top(s)}]
    BY <1>7
  <2>. QED BY <2>1, <2>2
<1>9. IsFold(jt, st, seq)
  BY <1>8 DEF IsFold
<1>. QED
  BY <1>9

\* A P2P step leaves the caches what they are and forgets no grad_recv_info.
LEMMA CacheStep ==
    ASSUME NEW st \in Caches, NEW step \in LeafSteps \cup MetaSteps
    PROVE  CacheAfter(st, step) \in Caches /\ st.slots \subseteq CacheAfter(st, step).slots
<1>1. Key(step) \in Nat \X Nat
  BY DEF Key, LeafSteps, MetaSteps
<1>. QED
  BY <1>1 DEF CacheAfter, Caches

LEMMA CacheFold ==
    ASSUME NEW st \in Caches, NEW seq \in Seq(LeafSteps)
    PROVE  LET new == FoldLeft(CacheAfter, st, seq)
           IN  new \in Caches /\ st.slots \subseteq new.slots
<1> DEFINE N == Len(seq)
           S == 1 .. N
<1>1. N \in Nat /\ DOMAIN seq = S /\ \A i \in S : seq[i] \in LeafSteps
  BY LenProperties
<1>2. PICK it : IsFold(it, st, seq) /\ FoldLeft(CacheAfter, st, seq) = it[S]
  BY <1>1, FoldExists, FoldUnfolds
<1>3. \A s \in SUBSET S : it[s] = IF s = {} THEN st ELSE CacheAfter(it[s \ {Top(s)}], seq[Top(s)])
  BY <1>1, <1>2 DEF IsFold
<1> HIDE DEF N
<1> DEFINE Good(c) == c \in Caches /\ st.slots \subseteq c.slots
           G == {n \in Nat : \A s \in SUBSET S : Cardinality(s) = n => Good(it[s])}
<1>4. \A s \in SUBSET S : IsFiniteSet(s) /\ Cardinality(s) \in Nat
  BY <1>1, PlacesFinite
<1>5. 0 \in G
  <2>1. \A s \in SUBSET S : Cardinality(s) = 0 => s = {}
    BY <1>4, FS_EmptySet
  <2>2. it[{}] = st
    BY <1>3
  <2>. QED BY <2>1, <2>2
<1>6. ASSUME NEW n \in Nat, n \in G PROVE n + 1 \in G
  <2> SUFFICES ASSUME NEW s \in SUBSET S, Cardinality(s) = n + 1 PROVE Good(it[s])
    OBVIOUS
  <2>0. \A t \in SUBSET S : Cardinality(t) = n => Good(it[t])
    BY <1>6
  <2> HIDE DEF G
  <2>1. s # {}
    <3>1. Cardinality({}) = 0
      BY FS_EmptySet
    <3>2. n + 1 # 0
      OBVIOUS
    <3>. QED BY <3>1, <3>2
  <2>2. /\ Top(s) \in s /\ Cardinality(s) \in Nat
        /\ Cardinality(s \ {Top(s)}) = Cardinality(s) - 1
    BY <1>1, <2>1, TopOut
  <2>6. Cardinality(s \ {Top(s)}) = n /\ s \ {Top(s)} \in SUBSET S
    <3>1. n + 1 - 1 = n
      OBVIOUS
    <3>2. Cardinality(s \ {Top(s)}) = n + 1 - 1
      BY <2>2
    <3>. QED BY <3>1, <3>2
  <2>3. Good(it[s \ {Top(s)}])
    BY <2>0, <2>6
  <2>4. it[s] = CacheAfter(it[s \ {Top(s)}], seq[Top(s)])
    BY <1>3, <2>1
  <2>5. seq[Top(s)] \in LeafSteps
    BY <1>1, <2>2
  <2>. QED BY <2>3, <2>4, <2>5, CacheStep
<1>7. Nat \subseteq G
  <2> HIDE DEF G
  <2>. QED BY <1>5, <1>6, CountUp
<1>8. Cardinality(S) \in G /\ S \in SUBSET S
  BY <1>4, <1>7
<1>9. Good(it[S])
  BY <1>8
<1>. QED
  BY <1>2, <1>9

-----------------------------------------------------------------------------
(***************************************************************************)
(* What P2P steps, computations and the transport change of it.            *)
(***************************************************************************)
LEMMA ConfigFacts ==
    ASSUME TypeOK
    PROVE  /\ cfg \in Configs /\ cfg.R \in Nat \ {0} /\ cfg.M \in Nat /\ Ranks = 0 .. cfg.R - 1
           /\ \A r \in Ranks : r \in Nat /\ iter[r] \in Nat /\ iter[r] * cfg.M \in Nat
<1>1. cfg \in Configs /\ cfg.R \in Nat \ {0} /\ cfg.M \in Nat /\ cfg.calls \in Nat \ {0}
  BY ConfigsAssumption DEF TypeOK
<1>2. \A r \in Ranks : iter[r] \in Nat
  BY <1>1 DEF TypeOK
<1>3. \A r \in Ranks : iter[r] * cfg.M \in Nat
  <2> TAKE r \in Ranks
  <2>1. \A a, b \in Nat : a * b \in Nat
    OBVIOUS
  <2>. QED BY <1>1, <1>2, <2>1
<1>. QED
  BY <1>1, <1>2, <1>3 DEF Ranks, RanksOf

LEMMA OrderLength ==
    ASSUME TypeOK, StateTypes, NEW r \in Ranks
    PROVE  Len(Order(r)) \in Nat /\ pc[r] \in Nat \ {0}
<1> DEFINE order == ActiveOrders(cfg)[r]
<1>1. order \in Seq(MetaSteps)
  BY OrdersAssumption DEF TypeOK, Ranks
<1> HIDE DEF order
<1>2. Order(r) = order /\ pc[r] \in Nat \ {0}
  BY DEF StateTypes, Order, order
<1>. QED
  BY <1>1, <1>2, LenProperties

\* The step a rank is at comes from its order.
LEMMA StepsAreSteps ==
    ASSUME TypeOK, StateTypes, NEW r \in Ranks, pc[r] <= Len(Order(r))
    PROVE  Cur(r) \in MetaSteps /\ WellFormed(Cur(r))
<1> DEFINE order == ActiveOrders(cfg)[r]
<1>1. /\ order \in Seq(MetaSteps)
      /\ \A k \in DOMAIN order : WellFormed(order[k])
  BY OrdersAssumption DEF TypeOK, Ranks
<1> HIDE DEF order
<1>2. Order(r) = order /\ pc[r] \in Nat \ {0}
  BY DEF StateTypes, Order, order
<1>3. DOMAIN order = 1 .. Len(order) /\ Len(order) \in Nat
  BY <1>1, LenProperties
<1>4. pc[r] \in 1 .. Len(order)
  BY <1>2, <1>3
<1>5. order[pc[r]] \in MetaSteps
  BY <1>1, <1>4, ElementOfSeq
<1>. QED
  BY <1>1, <1>2, <1>3, <1>4, <1>5 DEF Cur

\* A receive is identified by the step that consumes it.
LEMMA OneKey ==
    ASSUME TypeOK, NEW r \in Ranks, NEW k \in InputKeys, NEW j \in InputKeys,
           KeyOp(r, k) = KeyOp(r, j)
    PROVE  k = j
<1> DEFINE g == iter[r] * cfg.M
<1>1. g \in Nat
  BY ConfigFacts
<1>2. /\ k = << k[1], k[2], k[3] >> /\ j = << j[1], j[2], j[3] >>
      /\ k[2] \in Nat /\ k[3] \in Nat /\ j[2] \in Nat /\ j[3] \in Nat
      /\ k[1] \in {"fwd", "bwd"} /\ j[1] \in {"fwd", "bwd"}
  BY DEF InputKeys
<1>3. KeyOp(r, k).tensor = KeyOp(r, j).tensor
  OBVIOUS
<1>4. << k[1], IF k[1] = "fwd" THEN k[2] - 1 ELSE k[2] + 1, g + k[3] >>
      = << j[1], IF j[1] = "fwd" THEN j[2] - 1 ELSE j[2] + 1, g + j[3] >>
  BY <1>3 DEF KeyOp, Op, Global
<1> HIDE DEF g
<1>5. /\ k[1] = j[1]
      /\ (IF k[1] = "fwd" THEN k[2] - 1 ELSE k[2] + 1)
             = (IF j[1] = "fwd" THEN j[2] - 1 ELSE j[2] + 1)
      /\ g + k[3] = g + j[3]
  BY <1>4
<1>6. k[2] = j[2] /\ k[3] = j[3]
  BY <1>1, <1>2, <1>5
<1>. QED
  BY <1>2, <1>5, <1>6

LEMMA InputKeyOps ==
    ASSUME TypeOK, NEW r \in Ranks, NEW k \in InputKeys
    PROVE  KeyOp(r, k) \in Ops /\ IsInput(KeyOp(r, k))
<1> DEFINE g == iter[r] * cfg.M
<1>1. g \in Nat
  BY ConfigFacts
<1>2. k[1] \in {"fwd", "bwd"} /\ k[2] \in Nat /\ k[3] \in Nat
  BY DEF InputKeys
<1>3. KeyOp(r, k) = [dir |-> "recv",
                     tensor |-> << k[1], IF k[1] = "fwd" THEN k[2] - 1 ELSE k[2] + 1,
                                   g + k[3] >>]
  BY DEF KeyOp, Op, Global
<1> HIDE DEF g
<1>. QED
  BY <1>1, <1>2, <1>3 DEF Ops, IsInput

\* What a computation reads is what its key stands for.
LEMMA ComputeKeyOp ==
    ASSUME TypeOK, NEW r \in Ranks, NEW step \in LeafSteps \cup MetaSteps
    PROVE  /\ ComputeKey(step) \in InputKeys
           /\ InputOp(r, step) = KeyOp(r, ComputeKey(step))
<1>1. ComputeKey(step) \in InputKeys
  BY DEF ComputeKey, InputKeys, LeafSteps, MetaSteps
<1>2. InputOp(r, step) = KeyOp(r, ComputeKey(step))
  <2>1. CASE step.type = "FWD"
    BY <2>1 DEF InputOp, KeyOp, ComputeKey, Tensor
  <2>2. CASE step.type # "FWD"
    BY <2>2 DEF InputOp, KeyOp, ComputeKey, Tensor
  <2>. QED BY <2>1, <2>2
<1>. QED BY <1>1, <1>2

\* The only input a P2P step posts is the one of its key, and a backward
\* receive posts nothing exactly where its stage has no grad_recv_info.
LEMMA PostedOps ==
    ASSUME TypeOK, StateTypes, NEW r \in Ranks,
           NEW step \in LeafSteps \cup MetaSteps, step.type \in P2PTypes
    PROVE  /\ Posts(r, step) \in Seq(Ops)
           /\ \A o \in ToSet(Posts(r, step)) :
                  IsInput(o) => step.type \in RecvTypes /\ o = KeyOp(r, RecvKey(step))
           /\ step.type \in RecvTypes =>
                  /\ RecvKey(step) \in InputKeys
                  /\ IF Slotted(RecvKey(step))
                     THEN ToSet(Posts(r, step)) = {KeyOp(r, RecvKey(step))}
                     ELSE Posts(r, step) = <<>>
<1> DEFINE s == step.stage
           g == Global(r, step.micro)
<1>0. s \in Nat /\ step.micro \in Nat
  BY DEF LeafSteps, MetaSteps
<1>1. g \in Int
  <2>1. iter[r] * cfg.M \in Nat
    BY ConfigFacts
  <2>. QED BY <1>0, <2>1 DEF Global
<1>2. step.type \in RecvTypes => RecvKey(step) \in InputKeys
  BY <1>0 DEF RecvKey, InputKeys, RecvTypes
<1> HIDE DEF g
<1>3. \A o \in Ops : << o >> \in Seq(Ops) /\ ToSet(<< o >>) = {o}
  BY DEF ToSet
<1>4. <<>> \in Seq(Ops) /\ ToSet(<<>>) = {}
  BY EmptySeq DEF ToSet
<1>5. CASE step.type = "FWD_SEND"
  <2> DEFINE o == Op("send", << "fwd", s, g >>)
  <2>1. o \in Ops /\ ~IsInput(o)
    BY <1>0, <1>1 DEF Op, Ops, IsInput
  <2>2. Posts(r, step) = When(s # LastStage, << o >>)
    BY <1>5 DEF Posts, Tensor, g
  <2> HIDE DEF o
  <2>3. Posts(r, step) = << o >> \/ Posts(r, step) = <<>>
    BY <2>2 DEF When
  <2>. QED
    BY <1>3, <1>4, <1>5, <2>1, <2>3 DEF RecvTypes
<1>6. CASE step.type = "FWD_RECV"
  <2> DEFINE o == Op("recv", << "fwd", s - 1, g >>)
  <2>1. o \in Ops
    BY <1>0, <1>1 DEF Op, Ops
  <2>2. Posts(r, step) = << o >>
    BY <1>6 DEF Posts, Tensor, g
  <2>3. o = KeyOp(r, RecvKey(step)) /\ Slotted(RecvKey(step))
    BY <1>6 DEF KeyOp, RecvKey, Slotted, g
  <2> HIDE DEF o
  <2>. QED
    BY <1>2, <1>3, <1>6, <2>1, <2>2, <2>3 DEF RecvTypes
<1>7. CASE step.type = "BWD_SEND"
  <2> DEFINE o == Op("send", << "bwd", s, g >>)
  <2>1. o \in Ops /\ ~IsInput(o)
    BY <1>0, <1>1 DEF Op, Ops, IsInput
  <2>2. Posts(r, step) = When(Key(step) \in cache.args, << o >>)
    BY <1>7 DEF Posts, Tensor, g
  <2> HIDE DEF o
  <2>3. Posts(r, step) = << o >> \/ Posts(r, step) = <<>>
    BY <2>2 DEF When
  <2>. QED
    BY <1>3, <1>4, <1>7, <2>1, <2>3 DEF RecvTypes
<1>8. CASE step.type = "BWD_RECV"
  <2> DEFINE o == Op("recv", << "bwd", s + 1, g >>)
  <2>1. o \in Ops
    BY <1>0, <1>1 DEF Op, Ops
  <2>2. Posts(r, step) = When(Key(step) \in cache.slots, << o >>)
    BY <1>8 DEF Posts, Tensor, g
  <2>3. o = KeyOp(r, RecvKey(step)) /\ (Slotted(RecvKey(step)) <=> Key(step) \in cache.slots)
    BY <1>8 DEF KeyOp, RecvKey, Slotted, Key, g
  <2> HIDE DEF o
  <2>4. CASE Key(step) \in cache.slots
    <3>1. Posts(r, step) = << o >>
      BY <2>2, <2>4 DEF When
    <3>. QED
      BY <1>2, <1>3, <1>8, <2>1, <2>3, <2>4, <3>1 DEF RecvTypes
  <2>5. CASE Key(step) \notin cache.slots
    <3>1. Posts(r, step) = <<>>
      BY <2>2, <2>5 DEF When
    <3>. QED
      BY <1>2, <1>4, <1>8, <2>3, <2>5, <3>1 DEF RecvTypes
  <2>. QED BY <2>4, <2>5
<1>. QED
  BY <1>5, <1>6, <1>7, <1>8 DEF P2PTypes

-----------------------------------------------------------------------------
\* What a rank has in flight, and what posting and matching change of it.
LEMMA Posted ==
    ASSUME TypeOK, StateTypes, NEW r \in Ranks, NEW lane, NEW peer, NEW ops \in Seq(Ops),
           Post(r, lane, peer, ops)
    PROVE  /\ wire' \in [Lanes \X Ranks \X Ranks -> Seq(Seq(Ops))]
           /\ InFlight(r)' \subseteq InFlight(r) \cup ToSet(ops)
           /\ \A q \in Ranks \ {r} : InFlight(q)' \subseteq InFlight(q)
<1> DEFINE W == Lanes \X Ranks \X Ranks
           w0 == << lane, r, peer >>
<1>0. wire \in [W -> Seq(Seq(Ops))]
  BY DEF StateTypes
<1>1. CASE ops = <<>>
  BY <1>1 DEF Post, InFlight, StateTypes
<1>2. CASE ops # <<>>
  <2>1. wire' = [wire EXCEPT ![w0] = Append(@, ops)]
    BY <1>2 DEF Post
  <2> HIDE DEF W
  <2>2. \A w \in W : wire'[w] = IF w = w0 THEN Append(wire[w], ops) ELSE wire[w]
    BY <1>0, <2>1
  <2>3. DOMAIN wire' = W /\ DOMAIN wire = W
    BY <1>0, <2>1
  <2>4. \A w \in W : /\ Append(wire[w], ops) \in Seq(Seq(Ops))
                     /\ ToSet(Append(wire[w], ops)) = ToSet(wire[w]) \cup {ops}
    <3> TAKE w \in W
    <3> DEFINE SS == Seq(Ops)
    <3>1. wire[w] \in Seq(SS) /\ ops \in SS
      BY <1>0
    <3> HIDE DEF SS
    <3>. QED BY <3>1, AppendSet DEF SS
  <2>5. wire' \in [W -> Seq(Seq(Ops))]
    BY <1>0, <2>1, <2>2, <2>4
  <2>6. \A w \in W : \A k \in DOMAIN wire'[w] :
            wire'[w][k] \in ToSet(wire[w]) \/ (w = w0 /\ wire'[w][k] = ops)
    <3> TAKE w \in W
    <3>1. CASE w = w0
      <4>1. \A k \in DOMAIN wire'[w] : wire'[w][k] \in ToSet(Append(wire[w], ops))
        BY <2>2, <3>1 DEF ToSet
      <4>. QED BY <2>4, <3>1, <4>1
    <3>2. CASE w # w0
      BY <2>2, <3>2 DEF ToSet
    <3>. QED BY <3>1, <3>2
  <2>7. \A q : \A o \in InFlight(q)' : o \in InFlight(q) \/ (q = r /\ o \in ToSet(ops))
    <3> TAKE q
    <3> SUFFICES ASSUME NEW o \in InFlight(q)'
                 PROVE  o \in InFlight(q) \/ (q = r /\ o \in ToSet(ops))
      OBVIOUS
    <3>1. PICK w \in W : w[2] = q /\ \E k \in DOMAIN wire'[w] : o \in ToSet(wire'[w][k])
      BY <2>3 DEF InFlight
    <3>2. PICK k \in DOMAIN wire'[w] : o \in ToSet(wire'[w][k])
      BY <3>1
    <3>3. CASE wire'[w][k] \in ToSet(wire[w])
      <4>1. PICK j \in DOMAIN wire[w] : wire'[w][k] = wire[w][j]
        BY <3>3 DEF ToSet
      <4>. QED BY <2>3, <3>1, <3>2, <4>1 DEF InFlight
    <3>4. CASE w = w0 /\ wire'[w][k] = ops
      BY <3>1, <3>2, <3>4
    <3>. QED BY <2>6, <3>3, <3>4
  <2>. QED
    BY <2>5, <2>7 DEF W
<1>. QED BY <1>1, <1>2

LEMMA Matched ==
    ASSUME TypeOK, StateTypes, NEW lane \in Lanes, NEW r \in Ranks, NEW p \in Ranks,
           r # p, Match(lane, r, p)
    PROVE  /\ wire' \in [Lanes \X Ranks \X Ranks -> Seq(Seq(Ops))]
           /\ \A q : InFlight(q)' \subseteq InFlight(q)
<1> DEFINE W == Lanes \X Ranks \X Ranks
           a == << lane, r, p >>
           b == << lane, p, r >>
           i == FirstIn(Head(wire[a]), "send")
           j == FirstIn(Head(wire[b]), "recv")
<1>0. wire \in [W -> Seq(Seq(Ops))] /\ a \in W /\ b \in W /\ a # b
  BY DEF StateTypes
<1>1. /\ wire[a] # <<>> /\ wire[b] # <<>> /\ i # 0 /\ j # 0
      /\ wire' = [wire EXCEPT ![a] = Without(wire[a], i), ![b] = Without(wire[b], j)]
  BY DEF Match
<1> HIDE DEF W, a, b
<1>2. Head(wire[a]) \in Seq(Ops) /\ Head(wire[b]) \in Seq(Ops)
  <2> DEFINE SS == Seq(Ops)
  <2>1. wire[a] \in Seq(SS) /\ wire[b] \in Seq(SS)
    BY <1>0
  <2> HIDE DEF SS
  <2>. QED BY <1>1, <2>1, TailSet DEF SS
<1>3. i \in 1 .. Len(Head(wire[a])) /\ j \in 1 .. Len(Head(wire[b]))
  BY <1>1, <1>2, FirstInPlace
<1> HIDE DEF i, j
<1> DEFINE Less(q, u) == /\ q \in Seq(Seq(Ops))
                         /\ \A k \in DOMAIN q : \E m \in DOMAIN u :
                                ToSet(q[k]) \subseteq ToSet(u[m])
<1>4. Less(Without(wire[a], i), wire[a]) /\ Less(Without(wire[b], j), wire[b])
  BY <1>0, <1>1, <1>3, WithoutOne
<1>5. \A w \in W : Less(wire[w], wire[w])
  BY <1>0
<1>6. \A w \in W : wire'[w] = IF w = b THEN Without(wire[b], j)
                              ELSE IF w = a THEN Without(wire[a], i) ELSE wire[w]
  BY <1>0, <1>1
<1>7. DOMAIN wire' = W /\ DOMAIN wire = W
  BY <1>0, <1>1
<1> HIDE DEF Less
<1>8. \A w \in W : Less(wire'[w], wire[w])
  BY <1>0, <1>4, <1>5, <1>6
<1>9. wire' \in [W -> Seq(Seq(Ops))]
  <2>1. \A w \in W : wire'[w] \in Seq(Seq(Ops))
    BY <1>8 DEF Less
  <2>. QED BY <1>1, <1>7, <2>1
<1>10. \A q : InFlight(q)' \subseteq InFlight(q)
  <2> SUFFICES ASSUME NEW q, NEW o \in InFlight(q)' PROVE o \in InFlight(q)
    OBVIOUS
  <2>1. PICK w \in W : w[2] = q /\ \E k \in DOMAIN wire'[w] : o \in ToSet(wire'[w][k])
    BY <1>7 DEF InFlight
  <2>2. PICK k \in DOMAIN wire'[w] : o \in ToSet(wire'[w][k])
    BY <2>1
  <2>3. PICK m \in DOMAIN wire[w] : ToSet(wire'[w][k]) \subseteq ToSet(wire[w][m])
    BY <1>8, <2>2 DEF Less
  <2>. QED
    BY <1>7, <2>1, <2>2, <2>3 DEF InFlight
<1>. QED
  BY <1>9, <1>10 DEF W

\* A step that leaves a rank alone keeps its part of the invariant.
Untouched(q) ==
    /\ status'[q] = status[q] /\ iter'[q] = iter[q] /\ pc'[q] = pc[q] /\ part'[q] = part[q]
    /\ batches'[q] = batches[q] /\ waiting'[q] = waiting[q] /\ handles'[q] = handles[q]

LEMMA LocalKept ==
    ASSUME NEW q \in Ranks, Local(q), Untouched(q), UNCHANGED << cfg, orders >>,
           InFlight(q)' \subseteq InFlight(q), cache.slots \subseteq cache'.slots
    PROVE  Local(q)'
<1>1. Order(q)' = Order(q) /\ Cur(q)' = Cur(q)
  BY DEF Order, Cur, Untouched
<1>2. \A k : KeyOp(q, k)' = KeyOp(q, k)
  BY DEF KeyOp, Global, Op, Untouched
<1>3. \A k : Slotted(k) => Slotted(k)'
  BY DEF Slotted
<1>4. InPlace(q)'
  BY <1>1 DEF Local, InPlace, Untouched, Completed
<1>5. Tracked(q)'
  BY <1>2, <1>3 DEF Local, Tracked, Kept, Untouched
<1>6. Sorted(q)'
  BY <1>2, <1>3 DEF Local, Sorted, Routed, Untouched
<1>7. HalfFed(q)'
  <2>1. KeyOp(q, ComputeKey(Cur(q).sub[1]))' = KeyOp(q, ComputeKey(Cur(q).sub[1]))
    BY <1>1 DEF KeyOp, Global, Op, Untouched, ComputeKey
  <2>. QED
    BY <2>1 DEF Local, HalfFed, Untouched
<1>8. Landed(q)'
  BY DEF Local, Landed, Untouched
<1>. QED
  BY <1>4, <1>5, <1>6, <1>7, <1>8 DEF Local

\* What is left to show of a step of one rank.
LEMMA RankFlight ==
    ASSUME FlightInv, NEW r \in Ranks, UNCHANGED << cfg, orders >>,
           StateTypes', NoUnlandedRead', Local(r)', cache.slots \subseteq cache'.slots,
           \A q \in Ranks \ {r} : Untouched(q) /\ InFlight(q)' \subseteq InFlight(q)
    PROVE  FlightInv'
<1>1. Ranks' = Ranks
  BY DEF Ranks
<1>2. ASSUME NEW q \in Ranks PROVE Local(q)'
  BY LocalKept DEF FlightInv
<1>. QED
  BY <1>1, <1>2 DEF FlightInv

\* Away from a batch and an overlap nothing is half done.
LEMMA NothingBegun ==
    ASSUME TypeOK, FlightInv, NEW r \in Ranks, status[r] = "run",
           pc[r] > Len(Order(r)) \/ Cur(r).type \notin {"BATCH_SEND_RECV", "OVERLAP_B_F"}
    PROVE  batches[r] = <<>> /\ part[r] = {}
<1>1. InPlace(r)
  BY DEF FlightInv, Local
<1>2. CASE pc[r] > Len(Order(r))
  <2>1. Len(Order(r)) \in Nat /\ pc[r] \in Nat
    BY OrderLength DEF FlightInv
  <2>2. ~(pc[r] <= Len(Order(r)))
    BY <1>2, <2>1
  <2>. QED BY <1>1, <2>2 DEF InPlace
<1>3. CASE Cur(r).type \notin {"BATCH_SEND_RECV", "OVERLAP_B_F"}
  BY <1>1, <1>3 DEF InPlace, IsOverlap
<1>. QED BY <1>2, <1>3

LEMMA QuietLocal ==
    ASSUME NEW r \in Ranks, batches'[r] = <<>>, part'[r] = {}, status'[r] \in {"run", "unwind", "raised"},
           Tracked(r)'
    PROVE  Local(r)'
<1>1. InPlace(r)'
  BY DEF InPlace
<1>2. Sorted(r)'
  BY DEF Sorted
<1>3. HalfFed(r)' /\ Landed(r)'
  BY DEF HalfFed, Landed
<1>. QED BY <1>1, <1>2, <1>3 DEF Local

\* Where the handles of a batch go, each of its receives is found again.
LEMMA RoutedInputs ==
    ASSUME TypeOK, FlightInv, NEW r \in Ranks, NEW lane, NEW peer,
           NEW ops \in Seq(Ops), NEW recvs \in SUBSET InputKeys,
           Completed(r, waiting[r]), Post(r, lane, peer, ops), Route(r, ToSet(ops), recvs),
           UNCHANGED << cfg, iter >>, cache.slots \subseteq cache'.slots,
           \A o \in ToSet(ops) : IsInput(o) => \E k \in recvs : Slotted(k) /\ o = KeyOp(r, k),
           \A k \in recvs : Slotted(k) => KeyOp(r, k) \in ToSet(ops)
    PROVE  /\ Tracked(r)'
           /\ wire' \in [Lanes \X Ranks \X Ranks -> Seq(Seq(Ops))]
           /\ DOMAIN waiting' = Ranks /\ DOMAIN handles' = Ranks
           /\ waiting'[r] = IF cfg.p2p THEN {} ELSE ToSet(ops)
           /\ \A q \in Ranks \ {r} : /\ InFlight(q)' \subseteq InFlight(q)
                                     /\ waiting'[q] = waiting[q] /\ handles'[q] = handles[q]
<1>1. DOMAIN waiting = Ranks /\ DOMAIN handles = Ranks /\ StateTypes
  BY DEF FlightInv, StateTypes
<1>2. /\ wire' \in [Lanes \X Ranks \X Ranks -> Seq(Seq(Ops))]
      /\ InFlight(r)' \subseteq InFlight(r) \cup ToSet(ops)
      /\ \A q \in Ranks \ {r} : InFlight(q)' \subseteq InFlight(q)
  BY <1>1, Posted
<1>3. \A k : KeyOp(r, k)' = KeyOp(r, k)
  BY DEF KeyOp, Global, Op
<1>4. \A k : Slotted(k) => Slotted(k)'
  BY DEF Slotted
<1>5. \A o \in InFlight(r) : IsInput(o) => Kept(r, o)
  BY DEF FlightInv, Local, Tracked, Completed
<1>6. CASE ~cfg.p2p
  <2>1. waiting' = [waiting EXCEPT ![r] = ToSet(ops)] /\ handles' = handles
    BY <1>6 DEF Route
  <2>2. \A o \in InFlight(r) : IsInput(o) => Kept(r, o)'
    BY <1>3, <1>4, <1>5, <2>1 DEF Kept
  <2>3. Tracked(r)'
    BY <1>1, <1>2, <2>1, <2>2 DEF Tracked
  <2>. QED BY <1>1, <1>2, <1>6, <2>1, <2>3
<1>7. CASE cfg.p2p /\ recvs = {}
  <2>1. waiting' = [waiting EXCEPT ![r] = {}] /\ handles' = handles
    BY <1>7 DEF Route
  <2>2. \A o \in InFlight(r) : IsInput(o) => Kept(r, o)'
    BY <1>3, <1>4, <1>5, <2>1 DEF Kept
  <2>3. \A o \in ToSet(ops) : ~IsInput(o)
    BY <1>7
  <2>4. Tracked(r)'
    BY <1>2, <2>2, <2>3 DEF Tracked
  <2>. QED BY <1>1, <1>2, <1>7, <2>1, <2>4
<1>8. CASE cfg.p2p /\ recvs # {}
  <2> DEFINE h == [k \in recvs \cup DOMAIN handles[r] |->
                      IF k \in recvs THEN ToSet(ops) ELSE handles[r][k]]
  <2>1. waiting' = [waiting EXCEPT ![r] = {}] /\ handles' = [handles EXCEPT ![r] = h]
    BY <1>8 DEF Route
  <2>2. handles'[r] = h
    BY <1>1, <2>1
  <2>3. DOMAIN h = recvs \cup DOMAIN handles[r]
    OBVIOUS
  <2>4. \A k \in recvs : h[k] = ToSet(ops)
    OBVIOUS
  <2>5. \A k \in DOMAIN handles[r] : k \notin recvs => h[k] = handles[r][k]
    OBVIOUS
  <2> HIDE DEF h
  <2>6. ASSUME NEW o \in InFlight(r), IsInput(o) PROVE Kept(r, o)'
    <3>1. PICK k \in DOMAIN handles[r] :
              k \in InputKeys /\ o = KeyOp(r, k) /\ o \in handles[r][k] /\ Slotted(k)
      BY <1>5, <2>6 DEF Kept
    <3>2. k \in DOMAIN h /\ o \in h[k]
      BY <2>3, <2>4, <2>5, <3>1
    <3>. QED
      BY <1>3, <1>4, <2>2, <3>1, <3>2 DEF Kept
  <2>7. ASSUME NEW o \in ToSet(ops), IsInput(o) PROVE Kept(r, o)'
    <3>1. PICK k \in recvs : Slotted(k) /\ o = KeyOp(r, k)
      BY <2>7
    <3>2. k \in DOMAIN h /\ o \in h[k] /\ k \in InputKeys
      BY <2>3, <2>4, <3>1
    <3>. QED
      BY <1>3, <1>4, <2>2, <3>1, <3>2 DEF Kept
  <2>8. Tracked(r)'
    BY <1>2, <2>6, <2>7 DEF Tracked
  <2>. QED BY <1>1, <1>2, <1>8, <2>1, <2>8
<1>. QED BY <1>6, <1>7, <1>8

\* The P2P step of an order, of a batch or of a boundary, on its own.
LEMMA Transferred ==
    ASSUME TypeOK, FlightInv, NEW r \in Ranks, NEW step \in LeafSteps \cup MetaSteps,
           step.type \in P2PTypes, Completed(r, waiting[r]), Transfer(r, step),
           UNCHANGED << cfg, iter >>
    PROVE  /\ Tracked(r)' /\ cache' \in Caches /\ cache.slots \subseteq cache'.slots
           /\ wire' \in [Lanes \X Ranks \X Ranks -> Seq(Seq(Ops))]
           /\ DOMAIN waiting' = Ranks /\ DOMAIN handles' = Ranks
           /\ waiting'[r] = IF cfg.p2p THEN {} ELSE ToSet(Posts(r, step))
           /\ \A q \in Ranks \ {r} : /\ InFlight(q)' \subseteq InFlight(q)
                                     /\ waiting'[q] = waiting[q] /\ handles'[q] = handles[q]
<1> DEFINE ops == Posts(r, step)
           recvs == IF step.type \in RecvTypes THEN {RecvKey(step)} ELSE {}
<1>1. StateTypes /\ cache \in Caches
  BY DEF FlightInv, StateTypes
<1>2. /\ ops \in Seq(Ops)
      /\ \A o \in ToSet(ops) : IsInput(o) => step.type \in RecvTypes /\ o = KeyOp(r, RecvKey(step))
      /\ step.type \in RecvTypes =>
             /\ RecvKey(step) \in InputKeys
             /\ IF Slotted(RecvKey(step)) THEN ToSet(ops) = {KeyOp(r, RecvKey(step))}
                ELSE ops = <<>>
  BY <1>1, PostedOps
<1>3. cache' \in Caches /\ cache.slots \subseteq cache'.slots
  BY <1>1, CacheStep DEF Transfer
<1>4. Post(r, TensorLane, PeerOf(step), ops) /\ Route(r, ToSet(ops), recvs)
  BY DEF Transfer
<1> HIDE DEF ops
<1>5. recvs \in SUBSET InputKeys
  BY <1>2
<1>6. \A o \in ToSet(ops) : IsInput(o) => \E k \in recvs : Slotted(k) /\ o = KeyOp(r, k)
  <2> SUFFICES ASSUME NEW o \in ToSet(ops), IsInput(o)
               PROVE  \E k \in recvs : Slotted(k) /\ o = KeyOp(r, k)
    OBVIOUS
  <2>1. step.type \in RecvTypes /\ o = KeyOp(r, RecvKey(step))
    BY <1>2
  <2>2. ops # <<>>
    BY DEF ToSet
  <2>3. Slotted(RecvKey(step))
    BY <1>2, <2>1, <2>2
  <2>. QED BY <2>1, <2>3
<1>7. \A k \in recvs : Slotted(k) => KeyOp(r, k) \in ToSet(ops)
  BY <1>2
<1> HIDE DEF recvs
<1>8. /\ Tracked(r)'
      /\ wire' \in [Lanes \X Ranks \X Ranks -> Seq(Seq(Ops))]
      /\ DOMAIN waiting' = Ranks /\ DOMAIN handles' = Ranks
      /\ waiting'[r] = IF cfg.p2p THEN {} ELSE ToSet(ops)
      /\ \A q \in Ranks \ {r} : /\ InFlight(q)' \subseteq InFlight(q)
                                /\ waiting'[q] = waiting[q] /\ handles'[q] = handles[q]
  BY <1>2, <1>3, <1>4, <1>5, <1>6, <1>7, RoutedInputs
<1>. QED
  BY <1>3, <1>8 DEF ops

\* A computation whose input is not one the rank is still blocked on has
\* waited for it.
LEMMA ComputedInput ==
    ASSUME TypeOK, FlightInv, NEW r \in Ranks, NEW step \in LeafSteps \cup MetaSteps,
           Compute(r, step), UNCHANGED << cfg, iter, wire, waiting >>,
           KeyOp(r, ComputeKey(step)) \notin InFlight(r) \cap waiting[r]
    PROVE  /\ NoUnlandedRead' /\ Tracked(r)' /\ cache' \in Caches /\ cache'.slots = cache.slots
           /\ DOMAIN handles' = Ranks
           /\ \A q \in Ranks : InFlight(q)' = InFlight(q)
           /\ \A q \in Ranks \ {r} : handles'[q] = handles[q]
<1> DEFINE k0 == ComputeKey(step)
<1>0. /\ k0 \in InputKeys /\ InputOp(r, step) = KeyOp(r, k0)
      /\ IsInput(KeyOp(r, k0))
  BY ComputeKeyOp, InputKeyOps
<1>1. /\ Completed(r, HandleOf(r, k0)) /\ handles' = [handles EXCEPT ![r] = Forget(r, k0)]
      /\ cache' = CacheComputed(step)
      /\ faults' = IF InputOp(r, step) \in InFlight(r) THEN faults \cup {"unlanded"} ELSE faults
  BY DEF Compute
<1>2. \A q : InFlight(q)' = InFlight(q)
  BY DEF InFlight
<1>3. DOMAIN handles = Ranks /\ cache \in Caches /\ "unlanded" \notin faults
  BY DEF FlightInv, StateTypes, NoUnlandedRead
<1> HIDE DEF k0
<1>4. ASSUME NEW o \in InFlight(r), NEW k \in DOMAIN handles[r],
             k \in InputKeys, o = KeyOp(r, k), o \in handles[r][k]
      PROVE  k # k0
  <2> SUFFICES ASSUME k = k0 PROVE FALSE
    OBVIOUS
  <2>. QED
    BY <1>1, <1>4 DEF Completed, HandleOf
<1>5. KeyOp(r, k0) \notin InFlight(r)
  <2> SUFFICES ASSUME KeyOp(r, k0) \in InFlight(r) PROVE FALSE
    OBVIOUS
  <2>1. Kept(r, KeyOp(r, k0))
    BY <1>0 DEF FlightInv, Local, Tracked, k0
  <2>2. PICK k \in DOMAIN handles[r] :
            k \in InputKeys /\ KeyOp(r, k0) = KeyOp(r, k) /\ KeyOp(r, k0) \in handles[r][k]
    BY <2>1 DEF Kept
  <2>3. k = k0
    BY <1>0, <2>2, OneKey
  <2>. QED BY <1>4, <2>2, <2>3
<1>6. NoUnlandedRead'
  BY <1>0, <1>1, <1>3, <1>5 DEF NoUnlandedRead
<1>7. /\ handles'[r] = Forget(r, k0) /\ DOMAIN handles' = Ranks
      /\ \A q \in Ranks \ {r} : handles'[q] = handles[q]
  BY <1>1, <1>3
<1>8. /\ DOMAIN Forget(r, k0) = DOMAIN handles[r] \ {k0}
      /\ \A k \in DOMAIN handles[r] \ {k0} : Forget(r, k0)[k] = handles[r][k]
  BY DEF Forget, Restrict
<1>9. cache' \in Caches /\ cache'.slots = cache.slots
  <2>0. Key(step) \in Nat \X Nat
    BY DEF Key, LeafSteps, MetaSteps
  <2>1. CASE step.type = "FWD"
    <3>1. cache' = [cache EXCEPT !.acts = @ \cup {Key(step)}, !.outs = @ \cup {Key(step)}]
      BY <1>1, <2>1 DEF CacheComputed, WholeBackward, NoInputGrad, InputGrad
    <3>. QED
      BY <1>3, <2>0, <3>1 DEF Caches
  <2>2. CASE NoInputGrad(step)
    <3>1. cache' = cache
      BY <1>1, <2>2 DEF CacheComputed, WholeBackward, NoInputGrad, InputGrad
    <3>. QED
      BY <1>3, <3>1
  <2>3. CASE WholeBackward(step)
    <3>1. cache' = [cache EXCEPT !.acts = @ \ {Key(step)},
                        !.outs = @ \ (IF step.stage = LastStage THEN {Key(step)} ELSE {}),
                        !.grads = @ \cup (IF step.stage # 0 THEN {Key(step)} ELSE {}),
                        !.gbufs = @ \ {Key(step)}, !.abufs = @ \ {Key(step)}]
      BY <1>1, <2>3 DEF CacheComputed, WholeBackward, NoInputGrad, InputGrad
    <3> DEFINE k == {Key(step)}
               l == IF step.stage = LastStage THEN k ELSE {}
               n == IF step.stage # 0 THEN k ELSE {}
    <3>2. k \subseteq Nat \X Nat /\ l \subseteq Nat \X Nat /\ n \subseteq Nat \X Nat
      BY <2>0
    <3>3. cache' = [cache EXCEPT !.acts = @ \ k, !.outs = @ \ l, !.grads = @ \cup n,
                                 !.gbufs = @ \ k, !.abufs = @ \ k]
      BY <3>1
    <3> HIDE DEF k, l, n
    <3>4. cache \in Caches
      BY <1>3
    <3>. QED
      BY <3>2, <3>3, <3>4 DEF Caches
  <2>4. CASE InputGrad(step)
    <3>1. cache' = [cache EXCEPT !.acts = @ \ {Key(step)}, !.dw = @ \cup {Key(step)},
                                 !.grads = @ \cup {Key(step)}]
      BY <1>1, <2>4 DEF CacheComputed, WholeBackward, NoInputGrad, InputGrad
    <3>. QED
      BY <1>3, <2>0, <3>1 DEF Caches
  <2>5. CASE /\ step.type # "FWD" /\ ~NoInputGrad(step)
             /\ ~WholeBackward(step) /\ ~InputGrad(step)
    <3>1. cache' = [cache EXCEPT !.dw = @ \ {Key(step)},
                        !.outs = @ \ (IF step.stage = LastStage THEN {Key(step)} ELSE {}),
                        !.gbufs = @ \ {Key(step)}, !.abufs = @ \ {Key(step)}]
      BY <1>1, <2>5 DEF CacheComputed
    <3>. QED
      BY <1>3, <2>0, <3>1 DEF Caches
  <2>. QED
    BY <2>1, <2>2, <2>3, <2>4, <2>5
<1>10. Tracked(r)'
  <2> SUFFICES ASSUME NEW o \in InFlight(r), IsInput(o), o \notin waiting[r]
               PROVE  Kept(r, o)'
    BY <1>2 DEF Tracked
  <2>1. PICK k \in DOMAIN handles[r] :
            k \in InputKeys /\ o = KeyOp(r, k) /\ o \in handles[r][k] /\ Slotted(k)
    BY DEF FlightInv, Local, Tracked, Kept
  <2>2. k # k0
    BY <1>4, <2>1
  <2>3. KeyOp(r, k)' = KeyOp(r, k) /\ Slotted(k)'
    BY <1>9, <2>1 DEF KeyOp, Global, Op, Slotted
  <2>. QED
    BY <1>7, <1>8, <2>1, <2>2, <2>3 DEF Kept
<1>. QED
  BY <1>2, <1>6, <1>7, <1>9, <1>10

-----------------------------------------------------------------------------
(***************************************************************************)
(* Each action of the run keeps the invariant.                             *)
(***************************************************************************)
\* The step a rank is at when it takes one from its order.
LEMMA AtItsStep ==
    ASSUME TypeOK, FlightInv, NEW r \in Ranks, NEW types, AtStep(r, types)
    PROVE  /\ status[r] = "run" /\ pc[r] <= Len(Order(r)) /\ Cur(r).type \in types
           /\ Cur(r) \in MetaSteps /\ WellFormed(Cur(r)) /\ Completed(r, waiting[r])
  BY StepsAreSteps DEF AtStep, FlightInv

\* The steps of an overlap.
LEMMA OverlapParts ==
    ASSUME NEW step \in MetaSteps, WellFormed(step), IsOverlap(step)
    PROVE  /\ \A k \in 1 .. 2 : step.sub[k] \in LeafSteps
           /\ \A n \in Nat : n < Len(step.boundary) =>
                  /\ step.boundary[n + 1] \in LeafSteps
                  /\ step.boundary[n + 1].type \in P2PTypes
                  /\ RecvKey(step.boundary[n + 1]) # ComputeKey(step.sub[1])
<1>1. step.sub \in Seq(LeafSteps) /\ step.boundary \in Seq(LeafSteps)
  BY DEF MetaSteps
<1>2. Len(step.sub) = 2 /\ \A x \in ToSet(step.boundary) :
          x.type \in P2PTypes /\ RecvKey(x) # ComputeKey(step.sub[1])
  BY DEF WellFormed
<1>3. \A k \in 1 .. 2 : step.sub[k] \in LeafSteps
  BY <1>1, <1>2, ElementOfSeq
<1>4. ASSUME NEW n \in Nat, n < Len(step.boundary)
      PROVE  step.boundary[n + 1] \in LeafSteps /\ step.boundary[n + 1] \in ToSet(step.boundary)
  <2>1. DOMAIN step.boundary = 1 .. Len(step.boundary) /\ Len(step.boundary) \in Nat
    BY <1>1, LenProperties
  <2>2. n + 1 \in 1 .. Len(step.boundary)
    BY <1>4, <2>1
  <2>. QED
    BY <1>1, <2>1, <2>2, ElementOfSeq DEF ToSet
<1>. QED
  BY <1>2, <1>3, <1>4

\* The steps whose specs a rank builds are P2P steps.
LEMMA BuildingSteps ==
    ASSUME TypeOK, FlightInv, NEW r \in Ranks, AtBuild(r), NEW k \in DOMAIN Building(r)
    PROVE  Building(r)[k] \in LeafSteps \cup MetaSteps
<1>1. /\ Cur(r).type \in P2PTypes \cup {"BATCH_SEND_RECV", "OVERLAP_B_F"}
      /\ Cur(r) \in MetaSteps /\ WellFormed(Cur(r))
  BY AtItsStep DEF AtBuild
<1>2. CASE Cur(r).type \in P2PTypes
  <2>1. Building(r) = << Cur(r) >>
    BY <1>2 DEF Building, P2PTypes, IsOverlap
  <2>. QED BY <1>1, <2>1
<1>3. CASE Cur(r).type = "BATCH_SEND_RECV" /\ batches[r] = <<>>
  <2>1. Building(r) = Cur(r).sub
    BY <1>3 DEF Building, P2PTypes, IsOverlap
  <2>2. Cur(r).sub \in Seq(LeafSteps)
    BY <1>1 DEF MetaSteps
  <2>. QED BY <2>1, <2>2
<1>4. CASE IsOverlap(Cur(r)) /\ 2 \in part[r] /\ bnd[r] < Len(Cur(r).boundary)
  <2>1. Building(r) = << Cur(r).boundary[bnd[r] + 1] >>
    BY <1>4 DEF Building, P2PTypes, IsOverlap
  <2>2. bnd[r] \in Nat
    BY DEF FlightInv, StateTypes
  <2>3. Cur(r).boundary[bnd[r] + 1] \in LeafSteps
    BY <1>1, <1>4, <2>2, OverlapParts
  <2>. QED BY <2>1, <2>3
<1>5. CASE /\ Cur(r).type \notin P2PTypes
           /\ ~(Cur(r).type = "BATCH_SEND_RECV" /\ batches[r] = <<>>)
           /\ ~(IsOverlap(Cur(r)) /\ 2 \in part[r] /\ bnd[r] < Len(Cur(r).boundary))
  <2>1. Building(r) = <<>>
    BY <1>5 DEF Building
  <2>. QED BY <2>1
<1>. QED
  BY <1>2, <1>3, <1>4, <1>5

\* A blocking operation that carries no input leaves the inputs tracked.
LEMMA OpWaited ==
    ASSUME TypeOK, FlightInv, NEW r \in Ranks, NEW lane, NEW peer, NEW op \in Ops,
           ~IsInput(op), Completed(r, waiting[r]), Post(r, lane, peer, << op >>),
           waiting' = [waiting EXCEPT ![r] = {op}], UNCHANGED << cfg, iter, handles, cache >>
    PROVE  /\ Tracked(r)'
           /\ wire' \in [Lanes \X Ranks \X Ranks -> Seq(Seq(Ops))]
           /\ DOMAIN waiting' = Ranks /\ waiting'[r] = {op}
           /\ \A q \in Ranks \ {r} : InFlight(q)' \subseteq InFlight(q) /\ waiting'[q] = waiting[q]
<1>1. StateTypes /\ DOMAIN waiting = Ranks
  BY DEF FlightInv, StateTypes
<1>2. << op >> \in Seq(Ops) /\ ToSet(<< op >>) = {op}
  BY DEF ToSet
<1>3. /\ wire' \in [Lanes \X Ranks \X Ranks -> Seq(Seq(Ops))]
      /\ InFlight(r)' \subseteq InFlight(r) \cup {op}
      /\ \A q \in Ranks \ {r} : InFlight(q)' \subseteq InFlight(q)
  <2> DEFINE ops == << op >>
  <2>1. ops \in Seq(Ops) /\ ToSet(ops) = {op} /\ Post(r, lane, peer, ops)
    BY <1>2
  <2> HIDE DEF ops
  <2>. QED BY <1>1, <2>1, Posted
<1>4. Tracked(r)'
  <2> SUFFICES ASSUME NEW o \in InFlight(r)', IsInput(o) PROVE Kept(r, o)'
    BY DEF Tracked, IsInput
  <2>1. o \in InFlight(r) /\ o \notin waiting[r]
    BY <1>3 DEF Completed
  <2>2. Kept(r, o)
    BY <2>1 DEF FlightInv, Local, Tracked
  <2>. QED
    BY <2>2 DEF Kept, KeyOp, Global, Op, Slotted
<1>. QED
  BY <1>1, <1>3, <1>4

LEMMA TypesKept ==
    ASSUME StateTypes, UNCHANGED << cfg, orders >>,
           pc' \in [Ranks -> Nat \ {0}], bnd' \in [Ranks -> Nat],
           part' \in [Ranks -> SUBSET (1 .. 2)], batches' \in [Ranks -> Seq(PeerBatch)],
           DOMAIN waiting' = Ranks, DOMAIN handles' = Ranks,
           wire' \in [Lanes \X Ranks \X Ranks -> Seq(Seq(Ops))], cache' \in Caches
    PROVE  StateTypes'
<1>1. Ranks' = Ranks
  BY DEF Ranks
<1>. QED
  BY <1>1 DEF StateTypes

LEMMA Advanced ==
    ASSUME StateTypes, NEW r \in Ranks, Advance(r)
    PROVE  /\ pc' \in [Ranks -> Nat \ {0}]
           /\ \A q \in Ranks \ {r} : pc'[q] = pc[q]
  BY DEF Advance, StateTypes

\* The operations of a blocking exchange.
LEMMA MetaOps ==
    ASSUME TypeOK, FlightInv, NEW r \in Ranks, AtBuild(r), NEW k \in DOMAIN Building(r)
    PROVE  /\ MetaOp(r, Building(r)[k]) \in Ops
           /\ MetaOp(r, Building(r)[k]).tensor[1] = "meta"
<1> DEFINE step == Building(r)[k]
           g == IF cfg.dyn THEN Global(r, step.micro) ELSE 0
<1>1. step \in LeafSteps \cup MetaSteps
  BY BuildingSteps
<1> HIDE DEF step
<1>2. step.stage \in Nat /\ step.micro \in Nat
  BY <1>1 DEF LeafSteps, MetaSteps
<1>3. g \in Int
  <2>1. iter[r] * cfg.M \in Nat
    BY ConfigFacts
  <2>. QED BY <1>2, <2>1 DEF Global
<1>4. MetaKey(r, step)[3] = g
  BY DEF MetaKey
<1> HIDE DEF g
<1>5. MetaOp(r, step) \in Ops /\ MetaOp(r, step).tensor[1] = "meta"
  BY <1>2, <1>3, <1>4 DEF MetaOp, Op, Ops
<1>. QED BY <1>5 DEF step

LEMMA DataOps ==
    ASSUME TypeOK, NEW r \in Ranks, NEW m \in Nat, NEW dir \in {"send", "recv"}
    PROVE  Op(dir, Tensor(r, "data", 0, m)) \in Ops
<1>1. Global(r, m) \in Int
  <2>1. iter[r] * cfg.M \in Nat
    BY ConfigFacts
  <2>. QED BY <2>1 DEF Global
<1>. QED
  BY <1>1 DEF Op, Tensor, Ops

LEMMA ExchangeMetaFlight ==
    ASSUME TypeOK, FlightInv, NEW r \in Ranks, ExchangeMeta(r)
    PROVE  FlightInv'
<1>1. AtBuild(r) /\ StateTypes
  BY DEF ExchangeMeta, FlightInv
<1>2. PICK k \in DOMAIN Building(r) :
          /\ Post(r, "world", PeerOf(Building(r)[k]), << MetaOp(r, Building(r)[k]) >>)
          /\ waiting' = [waiting EXCEPT ![r] = {MetaOp(r, Building(r)[k])}]
  BY DEF ExchangeMeta
<1> DEFINE step == Building(r)[k]
           op == MetaOp(r, step)
<1>4. Completed(r, waiting[r]) /\ status[r] = "run"
  BY <1>1, AtItsStep DEF AtBuild
<1>5. op \in Ops /\ op.tensor[1] = "meta"
  BY <1>1, MetaOps
<1> HIDE DEF step
<1> HIDE DEF op
<1>6. /\ Tracked(r)'
      /\ wire' \in [Lanes \X Ranks \X Ranks -> Seq(Seq(Ops))]
      /\ DOMAIN waiting' = Ranks /\ waiting'[r] = {op}
      /\ \A q \in Ranks \ {r} : InFlight(q)' \subseteq InFlight(q) /\ waiting'[q] = waiting[q]
  <2>1. UNCHANGED << cfg, iter, handles, cache >>
    BY DEF ExchangeMeta
  <2>2. ~IsInput(op)
    BY <1>5 DEF IsInput
  <2>3. /\ Post(r, "world", PeerOf(step), << op >>)
        /\ waiting' = [waiting EXCEPT ![r] = {op}]
    BY <1>2 DEF step, op
  <2>. QED BY <1>4, <1>5, <2>1, <2>2, <2>3, OpWaited
<1>7. /\ UNCHANGED << cfg, orders, status, iter, pc, part, bnd, batches, handles, cache, faults >>
  BY DEF ExchangeMeta
<1>8. StateTypes'
  BY <1>1, <1>6, <1>7, TypesKept DEF StateTypes
<1>9. Local(r)'
  <2>0. Order(r)' = Order(r) /\ Cur(r)' = Cur(r)
    BY <1>7 DEF Order, Cur
  <2>1. InPlace(r)'
    BY <1>4, <1>7, <2>0 DEF FlightInv, Local, InPlace
  <2>2. Sorted(r)'
    BY <1>7 DEF FlightInv, Local, Sorted, Routed, KeyOp, Global, Op, Slotted
  <2>3. HalfFed(r)'
    <3>1. \A x : KeyOp(r, ComputeKey(x))'.tensor[1] # "meta"
      BY DEF KeyOp, ComputeKey, Op
    <3>. QED BY <1>5, <1>6, <3>1 DEF HalfFed
  <2>4. Landed(r)'
    BY <1>4, <1>7 DEF Landed
  <2>. QED BY <1>6, <2>1, <2>2, <2>3, <2>4 DEF Local
<1>. QED
  <2>1. NoUnlandedRead' /\ cache.slots \subseteq cache'.slots
    BY <1>7 DEF FlightInv, NoUnlandedRead
  <2>2. \A q \in Ranks \ {r} : Untouched(q) /\ InFlight(q)' \subseteq InFlight(q)
    BY <1>6, <1>7 DEF Untouched
  <2>. QED BY <1>7, <1>8, <1>9, <2>1, <2>2, RankFlight

LEMMA P2PStepFlight ==
    ASSUME TypeOK, FlightInv, NEW r \in Ranks, P2PStep(r)
    PROVE  FlightInv'
<1>1. /\ AtBuild(r) /\ Cur(r).type \in P2PTypes /\ Transfer(r, Cur(r)) /\ Advance(r)
      /\ UNCHANGED << cfg, orders, status, iter, part, bnd, batches, faults >>
  BY DEF P2PStep, SpecsReady
<1>2. StateTypes /\ Completed(r, waiting[r]) /\ status[r] = "run" /\ Cur(r) \in MetaSteps
  BY <1>1, AtItsStep DEF AtBuild, FlightInv
<1>3. /\ Tracked(r)' /\ cache' \in Caches /\ cache.slots \subseteq cache'.slots
      /\ wire' \in [Lanes \X Ranks \X Ranks -> Seq(Seq(Ops))]
      /\ DOMAIN waiting' = Ranks /\ DOMAIN handles' = Ranks
      /\ \A q \in Ranks \ {r} : /\ InFlight(q)' \subseteq InFlight(q)
                                /\ waiting'[q] = waiting[q] /\ handles'[q] = handles[q]
  BY <1>1, <1>2, Transferred
<1>4. batches[r] = <<>> /\ part[r] = {}
  BY <1>1, <1>2, NothingBegun DEF P2PTypes
<1>5. pc' \in [Ranks -> Nat \ {0}] /\ \A q \in Ranks \ {r} : pc'[q] = pc[q]
  BY <1>1, <1>2, Advanced
<1>6. StateTypes'
  BY <1>1, <1>2, <1>3, <1>5, TypesKept DEF StateTypes
<1>7. Local(r)'
  BY <1>1, <1>2, <1>3, <1>4, QuietLocal
<1>8. NoUnlandedRead'
  BY <1>1 DEF FlightInv, NoUnlandedRead
<1>9. \A q \in Ranks \ {r} : Untouched(q) /\ InFlight(q)' \subseteq InFlight(q)
  BY <1>1, <1>3, <1>5 DEF Untouched
<1>. QED BY <1>1, <1>3, <1>6, <1>7, <1>8, <1>9, RankFlight

LEMMA ComputeStepFlight ==
    ASSUME TypeOK, FlightInv, NEW r \in Ranks, ComputeStep(r)
    PROVE  FlightInv'
<1>1. /\ AtStep(r, ComputeTypes) /\ Compute(r, Cur(r)) /\ Advance(r)
      /\ UNCHANGED << cfg, orders, status, iter, part, bnd, batches, waiting, wire >>
  BY DEF ComputeStep
<1>2. /\ StateTypes /\ Completed(r, waiting[r]) /\ status[r] = "run"
      /\ Cur(r) \in MetaSteps /\ Cur(r).type \in ComputeTypes
  BY <1>1, AtItsStep DEF FlightInv
<1>3. /\ NoUnlandedRead' /\ Tracked(r)' /\ cache' \in Caches /\ cache'.slots = cache.slots
      /\ DOMAIN handles' = Ranks
      /\ \A q \in Ranks : InFlight(q)' = InFlight(q)
      /\ \A q \in Ranks \ {r} : handles'[q] = handles[q]
  <2>1. KeyOp(r, ComputeKey(Cur(r))) \notin InFlight(r) \cap waiting[r]
    BY <1>2 DEF Completed
  <2>. QED BY <1>1, <1>2, <2>1, ComputedInput
<1>4. batches[r] = <<>> /\ part[r] = {}
  BY <1>2, NothingBegun DEF ComputeTypes
<1>5. pc' \in [Ranks -> Nat \ {0}] /\ \A q \in Ranks \ {r} : pc'[q] = pc[q]
  BY <1>1, <1>2, Advanced
<1>6. StateTypes'
  BY <1>1, <1>2, <1>3, <1>5, TypesKept DEF StateTypes
<1>7. Local(r)'
  BY <1>1, <1>2, <1>3, <1>4, QuietLocal
<1>8. \A q \in Ranks \ {r} : Untouched(q) /\ InFlight(q)' \subseteq InFlight(q)
  BY <1>1, <1>3, <1>5 DEF Untouched
<1>. QED BY <1>1, <1>3, <1>6, <1>7, <1>8, RankFlight

\* A sub-step that starts while the rank is still blocked is the first half of
\* an overlap whose second half is done.
LEMMA SubStepFlight ==
    ASSUME TypeOK, FlightInv, NEW r \in Ranks, SubStep(r)
    PROVE  FlightInv'
<1>1. PICK k \in 1 .. 2 : /\ SubStepReady(r, k) /\ Compute(r, Cur(r).sub[k])
                          /\ part' = [part EXCEPT ![r] = @ \cup {k}]
  BY DEF SubStep
<1>2. UNCHANGED << cfg, orders, status, iter, pc, bnd, batches, waiting, wire >>
  BY DEF SubStep
<1>3. /\ StateTypes /\ status[r] = "run" /\ pc[r] <= Len(Order(r)) /\ IsOverlap(Cur(r))
      /\ k \notin part[r] /\ (2 \in part[r] \/ Completed(r, waiting[r]))
  BY <1>1 DEF SubStepReady, AtStep, FlightInv, IsOverlap
<1>4. Cur(r) \in MetaSteps /\ WellFormed(Cur(r))
  BY <1>3, StepsAreSteps
<1>5. Cur(r).sub[k] \in LeafSteps
  BY <1>3, <1>4, OverlapParts
<1>6. KeyOp(r, ComputeKey(Cur(r).sub[k])) \notin InFlight(r) \cap waiting[r]
  <2>1. CASE Completed(r, waiting[r])
    BY <2>1 DEF Completed
  <2>2. CASE 2 \in part[r]
    <3>1. k = 1
      BY <1>3, <2>2
    <3>. QED
      BY <1>3, <2>2, <3>1 DEF FlightInv, Local, HalfFed
  <2>. QED BY <1>3, <2>1, <2>2
<1>7. /\ NoUnlandedRead' /\ Tracked(r)' /\ cache' \in Caches /\ cache'.slots = cache.slots
      /\ DOMAIN handles' = Ranks
      /\ \A q \in Ranks : InFlight(q)' = InFlight(q)
      /\ \A q \in Ranks \ {r} : handles'[q] = handles[q]
  BY <1>1, <1>2, <1>5, <1>6, ComputedInput
<1>8. /\ part' \in [Ranks -> SUBSET (1 .. 2)] /\ part'[r] = part[r] \cup {k}
      /\ \A q \in Ranks \ {r} : part'[q] = part[q]
  BY <1>1, <1>3 DEF StateTypes
<1>9. StateTypes'
  BY <1>2, <1>3, <1>7, <1>8, TypesKept DEF StateTypes
<1>10. Local(r)'
  <2>0. Order(r)' = Order(r) /\ Cur(r)' = Cur(r)
    BY <1>2 DEF Order, Cur
  <2>1. InPlace(r)'
    BY <1>2, <1>3, <2>0 DEF FlightInv, Local, InPlace
  <2>2. Sorted(r)'
    <3>1. batches[r] = <<>>
      BY <1>3 DEF FlightInv, Local, InPlace, IsOverlap
    <3>. QED BY <1>2, <3>1 DEF Sorted
  <2>3. HalfFed(r)'
    <3>1. KeyOp(r, ComputeKey(Cur(r).sub[1]))' = KeyOp(r, ComputeKey(Cur(r).sub[1]))
      BY <1>2, <2>0 DEF KeyOp, Global, Op, ComputeKey
    <3>2. CASE 2 \in part[r]
      BY <1>2, <1>3, <1>7, <3>1, <3>2 DEF FlightInv, Local, HalfFed
    <3>3. CASE Completed(r, waiting[r])
      BY <1>2, <1>7, <3>3 DEF HalfFed, Completed
    <3>. QED BY <1>3, <3>2, <3>3
  <2>4. Landed(r)'
    BY <1>2, <1>3 DEF Landed
  <2>. QED BY <1>7, <2>1, <2>2, <2>3, <2>4 DEF Local
<1>11. \A q \in Ranks \ {r} : Untouched(q) /\ InFlight(q)' \subseteq InFlight(q)
  BY <1>2, <1>7, <1>8 DEF Untouched
<1>. QED BY <1>2, <1>7, <1>9, <1>10, <1>11, RankFlight

\* A receive of the boundary is none the first half of the overlap reads.
LEMMA BoundaryStepFlight ==
    ASSUME TypeOK, FlightInv, NEW r \in Ranks, BoundaryStep(r)
    PROVE  FlightInv'
<1>1. /\ AtBuild(r) /\ IsOverlap(Cur(r)) /\ Building(r) # <<>>
      /\ Transfer(r, Building(r)[1]) /\ bnd' = [bnd EXCEPT ![r] = @ + 1]
      /\ UNCHANGED << cfg, orders, status, iter, pc, part, batches, faults >>
  BY DEF BoundaryStep, SpecsReady
<1>2. /\ StateTypes /\ Completed(r, waiting[r]) /\ status[r] = "run"
      /\ pc[r] <= Len(Order(r)) /\ Cur(r) \in MetaSteps /\ WellFormed(Cur(r))
  BY <1>1, AtItsStep DEF AtBuild, FlightInv
<1> DEFINE step == Cur(r).boundary[bnd[r] + 1]
           first == Cur(r).sub[1]
<1>3. Building(r) = << step >> /\ bnd[r] < Len(Cur(r).boundary)
  BY <1>1 DEF Building, P2PTypes, IsOverlap
<1>4. step \in LeafSteps /\ step.type \in P2PTypes /\ RecvKey(step) # ComputeKey(first)
  <2>1. bnd[r] \in Nat
    BY <1>2 DEF StateTypes
  <2>. QED BY <1>1, <1>2, <1>3, <2>1, OverlapParts
<1>5. first \in LeafSteps
  BY <1>1, <1>2, OverlapParts
<1>6. Transfer(r, step)
  BY <1>1, <1>3
<1> HIDE DEF step
<1>7. /\ Tracked(r)' /\ cache' \in Caches /\ cache.slots \subseteq cache'.slots
      /\ wire' \in [Lanes \X Ranks \X Ranks -> Seq(Seq(Ops))]
      /\ DOMAIN waiting' = Ranks /\ DOMAIN handles' = Ranks
      /\ waiting'[r] = IF cfg.p2p THEN {} ELSE ToSet(Posts(r, step))
      /\ \A q \in Ranks \ {r} : /\ InFlight(q)' \subseteq InFlight(q)
                                /\ waiting'[q] = waiting[q] /\ handles'[q] = handles[q]
  BY <1>1, <1>2, <1>4, <1>6, Transferred
<1>8. bnd' \in [Ranks -> Nat]
  BY <1>1, <1>2 DEF StateTypes
<1>9. StateTypes'
  BY <1>1, <1>2, <1>7, <1>8, TypesKept DEF StateTypes
<1>10. KeyOp(r, ComputeKey(first)) \notin ToSet(Posts(r, step))
  <2> SUFFICES ASSUME KeyOp(r, ComputeKey(first)) \in ToSet(Posts(r, step)) PROVE FALSE
    OBVIOUS
  <2>1. ComputeKey(first) \in InputKeys
    BY <1>5, ComputeKeyOp
  <2>2. IsInput(KeyOp(r, ComputeKey(first)))
    BY <2>1, InputKeyOps
  <2>3. /\ KeyOp(r, ComputeKey(first)) = KeyOp(r, RecvKey(step))
        /\ RecvKey(step) \in InputKeys
    BY <1>2, <1>4, <2>2, PostedOps
  <2>. QED BY <1>4, <2>1, <2>3, OneKey
<1>11. Local(r)'
  <2>0. Order(r)' = Order(r) /\ Cur(r)' = Cur(r)
    BY <1>1 DEF Order, Cur
  <2>1. InPlace(r)'
    BY <1>1, <1>2, <2>0 DEF FlightInv, Local, InPlace
  <2>2. Sorted(r)'
    <3>1. batches[r] = <<>>
      BY <1>1, <1>2 DEF FlightInv, Local, InPlace, IsOverlap
    <3>. QED BY <1>1, <3>1 DEF Sorted
  <2>3. HalfFed(r)'
    <3>1. KeyOp(r, ComputeKey(first))' = KeyOp(r, ComputeKey(first))
      BY <1>1, <2>0 DEF KeyOp, Global, Op, ComputeKey
    <3>. QED BY <1>7, <1>10, <3>1 DEF HalfFed
  <2>4. Landed(r)'
    BY <1>1, <1>2 DEF Landed
  <2>. QED BY <1>7, <2>1, <2>2, <2>3, <2>4 DEF Local
<1>12. NoUnlandedRead'
  BY <1>1 DEF FlightInv, NoUnlandedRead
<1>13. \A q \in Ranks \ {r} : Untouched(q) /\ InFlight(q)' \subseteq InFlight(q)
  BY <1>1, <1>7 DEF Untouched
<1>. QED BY <1>1, <1>7, <1>9, <1>11, <1>12, <1>13, RankFlight

LEMMA BatchIssueFlight ==
    ASSUME TypeOK, FlightInv, NEW r \in Ranks, BatchIssue(r)
    PROVE  FlightInv'
<1> DEFINE b == Head(batches[r])
           rest == Tail(batches[r])
<1>1. /\ AtStep(r, {"BATCH_SEND_RECV"}) /\ batches[r] # <<>>
      /\ Post(r, TensorLane, b.peer, b.ops) /\ Route(r, ToSet(b.ops), b.recvs)
      /\ batches' = [batches EXCEPT ![r] = Tail(@)]
      /\ pc' = IF Len(batches[r]) = 1 THEN [pc EXCEPT ![r] = @ + 1] ELSE pc
      /\ UNCHANGED << cfg, orders, status, iter, part, bnd, cache, faults >>
  BY DEF BatchIssue
<1>2. /\ StateTypes /\ Completed(r, waiting[r]) /\ status[r] = "run"
      /\ pc[r] <= Len(Order(r)) /\ Cur(r).type = "BATCH_SEND_RECV"
  BY <1>1, AtItsStep DEF FlightInv
<1>3. /\ b \in PeerBatch /\ b = batches[r][1] /\ 1 \in DOMAIN batches[r]
      /\ rest \in Seq(PeerBatch)
      /\ \A i \in DOMAIN rest : i + 1 \in DOMAIN batches[r] /\ rest[i] = batches[r][i + 1]
  <2>1. batches[r] \in Seq(PeerBatch)
    BY <1>2 DEF StateTypes
  <2>. QED BY <1>1, <2>1, TailSet
<1>4. Len(batches[r]) = 1 => rest = <<>>
  <2>1. batches[r] \in Seq(PeerBatch) /\ Len(rest) = Len(batches[r]) - 1
    BY <1>1, <1>2, HeadTailProperties DEF StateTypes
  <2>. QED BY <1>3, <2>1, EmptySeq
<1> HIDE DEF b, rest
<1>5. Routed(r, b)
  BY <1>3 DEF FlightInv, Local, Sorted
<1>6. b.ops \in Seq(Ops) /\ b.recvs \in SUBSET InputKeys
  BY <1>3 DEF PeerBatch
<1>7. /\ Tracked(r)'
      /\ wire' \in [Lanes \X Ranks \X Ranks -> Seq(Seq(Ops))]
      /\ DOMAIN waiting' = Ranks /\ DOMAIN handles' = Ranks
      /\ \A q \in Ranks \ {r} : /\ InFlight(q)' \subseteq InFlight(q)
                                /\ waiting'[q] = waiting[q] /\ handles'[q] = handles[q]
  <2>1. \A o \in ToSet(b.ops) : IsInput(o) => \E k \in b.recvs : Slotted(k) /\ o = KeyOp(r, k)
    BY <1>5 DEF Routed
  <2>2. \A k \in b.recvs : Slotted(k) => KeyOp(r, k) \in ToSet(b.ops)
    BY <1>5 DEF Routed
  <2>3. cache.slots \subseteq cache'.slots
    BY <1>1
  <2> DEFINE ops == b.ops
             recvs == b.recvs
  <2>4. /\ ops \in Seq(Ops) /\ recvs \in SUBSET InputKeys
        /\ Post(r, TensorLane, b.peer, ops) /\ Route(r, ToSet(ops), recvs)
        /\ \A o \in ToSet(ops) : IsInput(o) => \E k \in recvs : Slotted(k) /\ o = KeyOp(r, k)
        /\ \A k \in recvs : Slotted(k) => KeyOp(r, k) \in ToSet(ops)
    BY <1>1, <1>6, <2>1, <2>2 DEF b
  <2> HIDE DEF ops, recvs
  <2>. QED
    BY <1>1, <1>2, <2>3, <2>4, RoutedInputs
<1>8. /\ batches' \in [Ranks -> Seq(PeerBatch)] /\ batches'[r] = rest
      /\ \A q \in Ranks \ {r} : batches'[q] = batches[q]
  BY <1>1, <1>2, <1>3 DEF StateTypes, rest
<1>9. /\ pc' \in [Ranks -> Nat \ {0}] /\ \A q \in Ranks \ {r} : pc'[q] = pc[q]
      /\ batches'[r] # <<>> => pc' = pc
  BY <1>1, <1>2, <1>4, <1>8 DEF StateTypes
<1>10. StateTypes'
  BY <1>1, <1>2, <1>7, <1>8, <1>9, TypesKept DEF StateTypes
<1>11. Local(r)'
  <2>1. part[r] = {}
    BY <1>2 DEF FlightInv, Local, InPlace, IsOverlap
  <2>2. InPlace(r)'
    <3>1. batches'[r] # <<>> => Order(r)' = Order(r) /\ Cur(r)' = Cur(r)
      BY <1>1, <1>9 DEF Order, Cur
    <3>2. batches'[r] # <<>> => (pc[r] <= Len(Order(r)) /\ Cur(r).type = "BATCH_SEND_RECV")'
      BY <1>2, <1>9, <3>1
    <3>. QED BY <1>1, <1>2, <2>1, <3>2 DEF InPlace
  <2>3. Sorted(r)'
    <3>1. ASSUME NEW n \in DOMAIN rest
          PROVE  /\ \A k \in rest[n].recvs : KeyOp(r, k) \in ToSet(rest[n].ops) /\ Slotted(k)
                 /\ \A o \in ToSet(rest[n].ops) :
                        IsInput(o) => \E k \in rest[n].recvs : o = KeyOp(r, k)
      BY <1>3, <3>1 DEF FlightInv, Local, Sorted, Routed
    <3>2. \A k : KeyOp(r, k)' = KeyOp(r, k) /\ (Slotted(k)' <=> Slotted(k))
      BY <1>1 DEF KeyOp, Global, Op, Slotted
    <3>. QED
      BY <1>8, <3>1, <3>2 DEF Sorted, Routed
  <2>4. HalfFed(r)' /\ Landed(r)'
    BY <1>1, <1>2, <2>1 DEF HalfFed, Landed
  <2>. QED BY <1>7, <2>2, <2>3, <2>4 DEF Local
<1>12. NoUnlandedRead' /\ cache.slots \subseteq cache'.slots
  BY <1>1 DEF FlightInv, NoUnlandedRead
<1>13. \A q \in Ranks \ {r} : Untouched(q) /\ InFlight(q)' \subseteq InFlight(q)
  BY <1>1, <1>7, <1>8, <1>9 DEF Untouched
<1>. QED BY <1>1, <1>10, <1>11, <1>12, <1>13, RankFlight

LEMMA PeerIsNumber ==
    ASSUME TypeOK, NEW step \in LeafSteps
    PROVE  PeerOf(step) \in Int
<1>1. cfg.R \in Nat \ {0} /\ step.stage \in Nat
  BY ConfigFacts DEF LeafSteps
<1> DEFINE s == IF step.type \in {"FWD_SEND", "BWD_RECV"} THEN step.stage + 1 ELSE step.stage - 1
<1>2. s \in Int
  BY <1>1
<1>3. PeerOf(step) = s % cfg.R
  BY DEF PeerOf, StageToRank
<1> HIDE DEF s
<1>. QED
  BY <1>1, <1>2, <1>3

\* The batch of each peer holds the inputs of exactly the receives it names.
LEMMA BatchesRouted ==
    ASSUME TypeOK, FlightInv, NEW r \in Ranks, Cur(r).sub \in Seq(LeafSteps),
           \A x \in ToSet(Cur(r).sub) : x.type \in P2PTypes
    PROVE  PeerBatches(r) \in Seq({b \in PeerBatch : Routed(r, b)})
<1> DEFINE sub == Cur(r).sub
           posting(k) == Posts(r, sub[k]) # <<>>
           first(k) == posting(k) /\ \A j \in 1 .. k - 1 :
                           posting(j) => PeerOf(sub[j]) # PeerOf(sub[k])
           to(p, k) == posting(k) /\ PeerOf(sub[k]) = p
           parts(p) == [k \in DOMAIN sub |-> When(to(p, k), Posts(r, sub[k]))]
           recvs(p) == {RecvKey(sub[k]) :
                           k \in {j \in DOMAIN sub : to(p, j) /\ sub[j].type \in RecvTypes}}
           batch(p) == [peer |-> p, ops |-> FlattenSeq(parts(p)), recvs |-> recvs(p)]
           all == [k \in DOMAIN sub |-> When(first(k), << batch(PeerOf(sub[k])) >>)]
           Good == {b \in PeerBatch : Routed(r, b)}
<1>1. PeerBatches(r) = FlattenSeq(all)
  BY DEF PeerBatches
<1>2. /\ DOMAIN sub = 1 .. Len(sub) /\ Len(sub) \in Nat
      /\ \A k \in DOMAIN sub : sub[k] \in LeafSteps /\ sub[k].type \in P2PTypes
  BY LenProperties DEF ToSet
<1> HIDE DEF sub
<1>3. \A k \in DOMAIN sub :
          /\ Posts(r, sub[k]) \in Seq(Ops)
          /\ \A o \in ToSet(Posts(r, sub[k])) :
                 IsInput(o) => sub[k].type \in RecvTypes /\ o = KeyOp(r, RecvKey(sub[k]))
          /\ posting(k) /\ sub[k].type \in RecvTypes =>
                 /\ RecvKey(sub[k]) \in InputKeys /\ Slotted(RecvKey(sub[k]))
                 /\ KeyOp(r, RecvKey(sub[k])) \in ToSet(Posts(r, sub[k]))
  <2> TAKE k \in DOMAIN sub
  <2>1. sub[k] \in LeafSteps \cup MetaSteps /\ sub[k].type \in P2PTypes /\ StateTypes
    BY <1>2 DEF FlightInv
  <2>2. /\ Posts(r, sub[k]) \in Seq(Ops)
        /\ \A o \in ToSet(Posts(r, sub[k])) :
               IsInput(o) => sub[k].type \in RecvTypes /\ o = KeyOp(r, RecvKey(sub[k]))
        /\ sub[k].type \in RecvTypes =>
               /\ RecvKey(sub[k]) \in InputKeys
               /\ IF Slotted(RecvKey(sub[k]))
                  THEN ToSet(Posts(r, sub[k])) = {KeyOp(r, RecvKey(sub[k]))}
                  ELSE Posts(r, sub[k]) = <<>>
    BY <2>1, PostedOps
  <2>. QED BY <2>2
<1> HIDE DEF posting
<1>4. ASSUME NEW p \in Int
      PROVE  batch(p) \in Good
  <2>1. parts(p) \in Seq(Seq(Ops)) /\ DOMAIN parts(p) = DOMAIN sub
    <3>1. \A k \in DOMAIN sub : When(to(p, k), Posts(r, sub[k])) \in Seq(Ops)
      BY <1>3, EmptySeq DEF When
    <3> DEFINE SS == Seq(Ops)
               f == [k \in 1 .. Len(sub) |-> When(to(p, k), Posts(r, sub[k]))]
    <3>2. f \in [1 .. Len(sub) -> SS]
      BY <1>2, <3>1
    <3>3. f = parts(p)
      BY <1>2
    <3> HIDE DEF f, SS
    <3>4. f \in Seq(SS)
      BY <1>2, <3>2
    <3>. QED BY <3>3, <3>4 DEF SS
  <2>2. \A k \in DOMAIN sub : parts(p)[k] = IF to(p, k) THEN Posts(r, sub[k]) ELSE <<>>
    BY DEF When
  <2> DEFINE ss == parts(p)
             ops == FlattenSeq(ss)
  <2> HIDE DEF parts, to
  <2>3. /\ ops \in Seq(Ops)
        /\ \A k \in DOMAIN ss : ToSet(ss[k]) \subseteq ToSet(ops)
        /\ \A x \in ToSet(ops) : \E k \in DOMAIN ss : x \in ToSet(ss[k])
    <3> HIDE DEF ss
    <3>1. ss \in Seq(Seq(Ops))
      BY <2>1 DEF ss
    <3>. QED BY <3>1, FlattenHolds
  <2>4. \A k \in recvs(p) : \E j \in DOMAIN sub :
            k = RecvKey(sub[j]) /\ to(p, j) /\ sub[j].type \in RecvTypes
    OBVIOUS
  <2>5. ASSUME NEW k \in recvs(p)
        PROVE  k \in InputKeys /\ KeyOp(r, k) \in ToSet(ops) /\ Slotted(k)
    <3>1. PICK j \in DOMAIN sub : k = RecvKey(sub[j]) /\ to(p, j) /\ sub[j].type \in RecvTypes
      BY <2>4
    <3>2. k \in InputKeys /\ Slotted(k) /\ KeyOp(r, k) \in ToSet(Posts(r, sub[j]))
      BY <1>3, <3>1 DEF to
    <3>3. ToSet(Posts(r, sub[j])) \subseteq ToSet(ops)
      BY <2>1, <2>2, <2>3, <3>1
    <3>. QED BY <3>2, <3>3
  <2>6. ASSUME NEW o \in ToSet(ops), IsInput(o)
        PROVE  \E k \in recvs(p) : o = KeyOp(r, k)
    <3>1. PICK j \in DOMAIN sub : o \in ToSet(ss[j])
      BY <2>1, <2>3
    <3>2. to(p, j) /\ o \in ToSet(Posts(r, sub[j]))
      <4>1. ToSet(<<>>) = {}
        BY DEF ToSet
      <4>. QED BY <2>2, <3>1, <4>1
    <3>3. sub[j].type \in RecvTypes /\ o = KeyOp(r, RecvKey(sub[j]))
      BY <1>3, <2>6, <3>2
    <3>. QED BY <3>2, <3>3
  <2>7. recvs(p) \in SUBSET InputKeys
    BY <2>5
  <2> HIDE DEF recvs, ss
  <2>8. batch(p) = [peer |-> p, ops |-> ops, recvs |-> recvs(p)]
    BY DEF ss
  <2> HIDE DEF ops
  <2>9. batch(p) \in PeerBatch
    BY <2>3, <2>7, <2>8 DEF PeerBatch
  <2>10. batch(p).ops = ops /\ batch(p).recvs = recvs(p)
    BY <2>8
  <2> HIDE DEF batch
  <2>11. Routed(r, batch(p))
    BY <2>5, <2>6, <2>10 DEF Routed
  <2>. QED BY <2>9, <2>11
<1> HIDE DEF batch, Good
<1>5. all \in Seq(Seq(Good))
  <2>1. \A x \in Good : << x >> \in Seq(Good)
    OBVIOUS
  <2>2. \A k \in DOMAIN sub : PeerOf(sub[k]) \in Int
    BY <1>2, PeerIsNumber
  <2> HIDE DEF first
  <2>3. \A k \in DOMAIN sub : When(first(k), << batch(PeerOf(sub[k])) >>) \in Seq(Good)
    BY <1>4, <2>1, <2>2, EmptySeq DEF When
  <2> DEFINE SS == Seq(Good)
             f == [k \in 1 .. Len(sub) |-> When(first(k), << batch(PeerOf(sub[k])) >>)]
  <2>4. f \in [1 .. Len(sub) -> SS]
    BY <1>2, <2>3
  <2>5. f = all
    BY <1>2
  <2> HIDE DEF f, SS
  <2>6. f \in Seq(SS)
    BY <1>2, <2>4
  <2>. QED BY <2>5, <2>6 DEF SS
<1> HIDE DEF all
<1>6. FlattenSeq(all) \in Seq(Good)
  BY <1>5, FlattenHolds
<1>. QED
  BY <1>1, <1>6 DEF Good

LEMMA BatchBuildFlight ==
    ASSUME TypeOK, FlightInv, NEW r \in Ranks, BatchBuild(r)
    PROVE  FlightInv'
<1> DEFINE new == PeerBatches(r)
           Good == {b \in PeerBatch : Routed(r, b)}
<1>1. /\ AtBuild(r) /\ Cur(r).type = "BATCH_SEND_RECV"
      /\ batches' = [batches EXCEPT ![r] = new]
      /\ cache' = FoldLeft(CacheAfter, cache, Cur(r).sub)
      /\ pc' = IF new = <<>> THEN [pc EXCEPT ![r] = @ + 1] ELSE pc
      /\ UNCHANGED << cfg, orders, status, iter, part, bnd, waiting, handles, wire, faults >>
  BY DEF BatchBuild, SpecsReady
<1>2. /\ StateTypes /\ status[r] = "run" /\ pc[r] <= Len(Order(r))
      /\ Cur(r) \in MetaSteps /\ WellFormed(Cur(r)) /\ cache \in Caches
  BY <1>1, AtItsStep DEF AtBuild, FlightInv, StateTypes
<1>3. Cur(r).sub \in Seq(LeafSteps) /\ \A x \in ToSet(Cur(r).sub) : x.type \in P2PTypes
  BY <1>1, <1>2 DEF MetaSteps, WellFormed
<1>4. new \in Seq(Good)
  BY <1>3, BatchesRouted
<1>5. cache' \in Caches /\ cache.slots \subseteq cache'.slots
  BY <1>1, <1>2, <1>3, CacheFold
<1> HIDE DEF new
<1>6. new \in Seq(PeerBatch) /\ \A n \in DOMAIN new : Routed(r, new[n])
  <2>1. \A n \in DOMAIN new : new[n] \in Good
    BY <1>4
  <2>2. new \in Seq(PeerBatch)
    <3>1. new \in [1 .. Len(new) -> PeerBatch]
      BY <1>4, <2>1, LenProperties
    <3>. QED BY <1>4, <3>1, LenProperties
  <2>. QED BY <2>1, <2>2
<1>7. /\ batches' \in [Ranks -> Seq(PeerBatch)] /\ batches'[r] = new
      /\ \A q \in Ranks \ {r} : batches'[q] = batches[q]
  BY <1>1, <1>2, <1>6 DEF StateTypes
<1>8. /\ pc' \in [Ranks -> Nat \ {0}] /\ \A q \in Ranks \ {r} : pc'[q] = pc[q]
      /\ batches'[r] # <<>> => pc' = pc
  BY <1>1, <1>2, <1>7 DEF StateTypes
<1>9. StateTypes'
  BY <1>1, <1>2, <1>5, <1>7, <1>8, TypesKept DEF StateTypes
<1>10. \A q : InFlight(q)' = InFlight(q)
  BY <1>1 DEF InFlight
<1>11. /\ \A k : KeyOp(r, k)' = KeyOp(r, k)
       /\ \A k : Slotted(k) => Slotted(k)'
  BY <1>1, <1>5 DEF KeyOp, Global, Op, Slotted
<1>12. Local(r)'
  <2>1. part[r] = {}
    BY <1>1, <1>2 DEF FlightInv, Local, InPlace, IsOverlap
  <2>2. InPlace(r)'
    <3>1. batches'[r] # <<>> => Order(r)' = Order(r) /\ Cur(r)' = Cur(r)
      BY <1>1, <1>8 DEF Order, Cur
    <3>2. batches'[r] # <<>> => (pc[r] <= Len(Order(r)) /\ Cur(r).type = "BATCH_SEND_RECV")'
      BY <1>1, <1>2, <1>8, <3>1
    <3>. QED BY <1>1, <1>2, <2>1, <3>2 DEF InPlace
  <2>3. Tracked(r)'
    BY <1>1, <1>10, <1>11 DEF FlightInv, Local, Tracked, Kept
  <2>4. Sorted(r)'
    BY <1>6, <1>7, <1>11 DEF Sorted, Routed
  <2>5. HalfFed(r)' /\ Landed(r)'
    BY <1>1, <1>2, <2>1 DEF HalfFed, Landed
  <2>. QED BY <2>2, <2>3, <2>4, <2>5 DEF Local
<1>13. NoUnlandedRead'
  BY <1>1 DEF FlightInv, NoUnlandedRead
<1>14. \A q \in Ranks \ {r} : Untouched(q) /\ InFlight(q)' \subseteq InFlight(q)
  BY <1>1, <1>7, <1>8, <1>10 DEF Untouched
<1>. QED BY <1>1, <1>5, <1>9, <1>12, <1>13, <1>14, RankFlight

LEMMA OverlapEndFlight ==
    ASSUME TypeOK, FlightInv, NEW r \in Ranks, OverlapEnd(r)
    PROVE  FlightInv'
<1>1. /\ AtStep(r, {"OVERLAP_B_F"}) /\ Advance(r)
      /\ part' = [part EXCEPT ![r] = {}] /\ bnd' = [bnd EXCEPT ![r] = 0]
      /\ UNCHANGED << cfg, orders, status, iter, batches, waiting, handles, cache, wire, faults >>
  BY DEF OverlapEnd
<1>2. StateTypes /\ status[r] = "run" /\ Cur(r).type = "OVERLAP_B_F"
  BY <1>1, AtItsStep DEF FlightInv
<1>3. batches[r] = <<>>
  BY <1>2 DEF FlightInv, Local, InPlace
<1>4. pc' \in [Ranks -> Nat \ {0}] /\ \A q \in Ranks \ {r} : pc'[q] = pc[q]
  BY <1>1, <1>2, Advanced
<1>5. /\ part' \in [Ranks -> SUBSET (1 .. 2)] /\ bnd' \in [Ranks -> Nat] /\ part'[r] = {}
      /\ \A q \in Ranks \ {r} : part'[q] = part[q]
  BY <1>1, <1>2 DEF StateTypes
<1>6. StateTypes'
  BY <1>1, <1>2, <1>4, <1>5, TypesKept DEF StateTypes
<1>7. \A q : InFlight(q)' = InFlight(q)
  BY <1>1 DEF InFlight
<1>8. Local(r)'
  <2>1. Tracked(r)'
    BY <1>1, <1>7 DEF FlightInv, Local, Tracked, Kept, KeyOp, Global, Op, Slotted
  <2>. QED BY <1>1, <1>2, <1>3, <1>5, <2>1, QuietLocal
<1>9. NoUnlandedRead' /\ cache.slots \subseteq cache'.slots
  BY <1>1 DEF FlightInv, NoUnlandedRead
<1>10. \A q \in Ranks \ {r} : Untouched(q) /\ InFlight(q)' \subseteq InFlight(q)
  BY <1>1, <1>4, <1>5, <1>7 DEF Untouched
<1>. QED BY <1>1, <1>6, <1>8, <1>9, <1>10, RankFlight

LEMMA DataLoadFlight ==
    ASSUME TypeOK, FlightInv, NEW r \in Ranks, DataLoad(r)
    PROVE  FlightInv'
<1>1. /\ AtStep(r, {"DATA_LOAD"}) /\ Advance(r)
      /\ UNCHANGED << cfg, orders, status, iter, part, bnd, batches, waiting, handles,
                      cache, wire, faults >>
  BY DEF DataLoad
<1>2. StateTypes /\ status[r] = "run" /\ Cur(r).type = "DATA_LOAD"
  BY <1>1, AtItsStep DEF FlightInv
<1>3. batches[r] = <<>> /\ part[r] = {}
  BY <1>2, NothingBegun
<1>4. pc' \in [Ranks -> Nat \ {0}] /\ \A q \in Ranks \ {r} : pc'[q] = pc[q]
  BY <1>1, <1>2, Advanced
<1>5. StateTypes'
  BY <1>1, <1>2, <1>4, TypesKept DEF StateTypes
<1>6. \A q : InFlight(q)' = InFlight(q)
  BY <1>1 DEF InFlight
<1>7. Local(r)'
  <2>1. Tracked(r)'
    BY <1>1, <1>6 DEF FlightInv, Local, Tracked, Kept, KeyOp, Global, Op, Slotted
  <2>. QED BY <1>1, <1>2, <1>3, <2>1, QuietLocal
<1>8. NoUnlandedRead' /\ cache.slots \subseteq cache'.slots
  BY <1>1 DEF FlightInv, NoUnlandedRead
<1>9. \A q \in Ranks \ {r} : Untouched(q) /\ InFlight(q)' \subseteq InFlight(q)
  BY <1>1, <1>4, <1>6 DEF Untouched
<1>. QED BY <1>1, <1>5, <1>7, <1>8, <1>9, RankFlight

LEMMA DataTransferFlight ==
    ASSUME TypeOK, FlightInv, NEW r \in Ranks, DataTransfer(r)
    PROVE  FlightInv'
<1> DEFINE m == Cur(r).micro
           sending == Cur(r).type = "DATA_SEND"
           op == Op(IF sending THEN "send" ELSE "recv", Tensor(r, "data", 0, m))
           peer == (IF sending THEN r + 1 ELSE r + cfg.R - 1) % cfg.R
<1>1. /\ AtStep(r, {"DATA_SEND", "DATA_RECV"}) /\ Advance(r)
      /\ Post(r, "world", peer, << op >>)
      /\ waiting' = [waiting EXCEPT ![r] = {op}]
      /\ UNCHANGED << cfg, orders, status, iter, part, bnd, batches, handles, cache, faults >>
  BY DEF DataTransfer
<1>2. /\ StateTypes /\ status[r] = "run" /\ Cur(r).type \in {"DATA_SEND", "DATA_RECV"}
      /\ Cur(r) \in MetaSteps /\ Completed(r, waiting[r])
  BY <1>1, AtItsStep DEF FlightInv
<1>3. op \in Ops /\ ~IsInput(op)
  <2>1. m \in Nat
    BY <1>2 DEF MetaSteps
  <2> HIDE DEF m
  <2>2. op \in Ops
    BY <2>1, DataOps
  <2>. QED BY <2>2 DEF Op, Tensor, IsInput
<1> HIDE DEF op, peer
<1>4. /\ Tracked(r)'
      /\ wire' \in [Lanes \X Ranks \X Ranks -> Seq(Seq(Ops))]
      /\ DOMAIN waiting' = Ranks /\ waiting'[r] = {op}
      /\ \A q \in Ranks \ {r} : InFlight(q)' \subseteq InFlight(q) /\ waiting'[q] = waiting[q]
  BY <1>1, <1>2, <1>3, OpWaited
<1>5. batches[r] = <<>> /\ part[r] = {}
  BY <1>2, NothingBegun
<1>6. pc' \in [Ranks -> Nat \ {0}] /\ \A q \in Ranks \ {r} : pc'[q] = pc[q]
  BY <1>1, <1>2, Advanced
<1>7. StateTypes'
  BY <1>1, <1>2, <1>4, <1>6, TypesKept DEF StateTypes
<1>8. Local(r)'
  BY <1>1, <1>2, <1>4, <1>5, QuietLocal
<1>9. NoUnlandedRead' /\ cache.slots \subseteq cache'.slots
  BY <1>1 DEF FlightInv, NoUnlandedRead
<1>10. \A q \in Ranks \ {r} : Untouched(q) /\ InFlight(q)' \subseteq InFlight(q)
  BY <1>1, <1>4, <1>6 DEF Untouched
<1>. QED BY <1>1, <1>7, <1>8, <1>9, <1>10, RankFlight

\* A step that only moves the status of one rank.
LEMMA StatusFlight ==
    ASSUME TypeOK, FlightInv, NEW r \in Ranks, NEW x \in Statuses \ {"run", "done"},
           status' = [status EXCEPT ![r] = x],
           x \in {"sync", "drain"} =>
               batches[r] = <<>> /\ part[r] = {} /\ Completed(r, waiting[r]),
           UNCHANGED << cfg, orders, iter, pc, part, bnd, batches, waiting, handles, cache,
                        wire, faults >>
    PROVE  FlightInv'
<1>1. StateTypes /\ status'[r] = x /\ \A q \in Ranks \ {r} : status'[q] = status[q]
  BY DEF FlightInv, TypeOK
<1>2. StateTypes'
  BY <1>1, TypesKept DEF StateTypes
<1>3. \A q : InFlight(q)' = InFlight(q)
  BY DEF InFlight
<1>4. Local(r)'
  <2>1. InPlace(r)'
    BY <1>1, <1>3 DEF InPlace, Completed, Statuses
  <2>2. Tracked(r)'
    BY <1>3 DEF FlightInv, Local, Tracked, Kept, KeyOp, Global, Op, Slotted
  <2>3. Sorted(r)'
    BY DEF FlightInv, Local, Sorted, Routed, KeyOp, Global, Op, Slotted
  <2>4. HalfFed(r)' /\ Landed(r)'
    BY <1>1 DEF HalfFed, Landed
  <2>. QED BY <2>1, <2>2, <2>3, <2>4 DEF Local
<1>5. NoUnlandedRead' /\ cache.slots \subseteq cache'.slots
  BY DEF FlightInv, NoUnlandedRead
<1>6. \A q \in Ranks \ {r} : Untouched(q) /\ InFlight(q)' \subseteq InFlight(q)
  BY <1>1, <1>3 DEF Untouched
<1>. QED BY <1>2, <1>4, <1>5, <1>6, RankFlight

LEMMA StepErrorFlight ==
    ASSUME TypeOK, FlightInv, NEW r \in Ranks, StepError(r)
    PROVE  FlightInv'
  BY StatusFlight DEF StepError, Statuses

LEMMA LastStepFlight ==
    ASSUME TypeOK, FlightInv, NEW r \in Ranks, LastStep(r)
    PROVE  FlightInv'
<1>1. status[r] = "run" /\ pc[r] > Len(Order(r)) /\ Completed(r, waiting[r])
  BY DEF LastStep
<1>2. batches[r] = <<>> /\ part[r] = {}
  BY <1>1, NothingBegun
<1>3. CASE r \in cfg.shared
  <2>1. status' = [status EXCEPT ![r] = "sync"]
    BY <1>3 DEF LastStep
  <2>. QED BY <1>1, <1>2, <2>1, StatusFlight DEF LastStep, Statuses
<1>4. CASE r \notin cfg.shared
  <2>1. status' = [status EXCEPT ![r] = "drain"]
    BY <1>4 DEF LastStep
  <2>. QED BY <1>1, <1>2, <2>1, StatusFlight DEF LastStep, Statuses
<1>. QED BY <1>3, <1>4

\* What is still in flight when a rank has drained is nothing it has a handle of.
LEMMA DrainFlight ==
    ASSUME TypeOK, FlightInv, NEW r \in Ranks, Drain(r)
    PROVE  FlightInv'
<1>1. /\ status[r] \in {"drain", "unwind"}
      /\ Completed(r, sends[r] \cup UNION Range(handles[r]))
      /\ status' = [status EXCEPT ![r] = IF @ = "drain" THEN "done" ELSE "raised"]
      /\ handles' = [handles EXCEPT ![r] = <<>>]
      /\ UNCHANGED << cfg, orders, iter, pc, part, bnd, batches, waiting, cache, wire, faults >>
  BY DEF Drain
<1>2. /\ StateTypes /\ status'[r] = (IF status[r] = "drain" THEN "done" ELSE "raised")
      /\ \A q \in Ranks \ {r} : status'[q] = status[q]
  BY <1>1 DEF FlightInv, TypeOK
<1>3. /\ DOMAIN handles' = Ranks
      /\ \A q \in Ranks \ {r} : handles'[q] = handles[q]
  BY <1>1, <1>2 DEF StateTypes
<1>4. StateTypes'
  BY <1>1, <1>2, <1>3, TypesKept DEF StateTypes
<1>5. \A q : InFlight(q)' = InFlight(q)
  BY <1>1 DEF InFlight
<1>6. ASSUME NEW o \in InFlight(r), IsInput(o)
      PROVE  o \in waiting[r]
  <2>1. ASSUME NEW k \in DOMAIN handles[r], o \in handles[r][k] PROVE FALSE
    <3>1. o \in UNION Range(handles[r])
      BY <2>1 DEF Range
    <3>. QED BY <1>1, <3>1 DEF Completed
  <2>. QED BY <1>6, <2>1 DEF FlightInv, Local, Tracked, Kept
<1>7. Local(r)'
  <2>1. Tracked(r)'
    BY <1>1, <1>5, <1>6 DEF Tracked, IsInput
  <2>2. CASE status[r] = "drain"
    <3>1. /\ batches[r] = <<>> /\ part[r] = {} /\ Completed(r, waiting[r])
      BY <2>2 DEF FlightInv, Local, InPlace
    <3>2. InPlace(r)' /\ Sorted(r)' /\ HalfFed(r)'
      BY <1>1, <1>2, <1>5, <2>2, <3>1 DEF InPlace, Sorted, HalfFed, Completed
    <3>3. Landed(r)'
      BY <1>5, <1>6, <3>1 DEF Landed, Completed, IsInput
    <3>. QED BY <2>1, <3>2, <3>3 DEF Local
  <2>3. CASE status[r] = "unwind"
    <3>1. status'[r] = "raised"
      BY <1>2, <2>3
    <3>2. InPlace(r)' /\ HalfFed(r)' /\ Landed(r)'
      BY <3>1 DEF InPlace, HalfFed, Landed
    <3>3. Sorted(r)'
      BY <1>1 DEF FlightInv, Local, Sorted, Routed, KeyOp, Global, Op, Slotted
    <3>. QED BY <2>1, <3>2, <3>3 DEF Local
  <2>. QED BY <1>1, <2>2, <2>3
<1>8. NoUnlandedRead' /\ cache.slots \subseteq cache'.slots
  BY <1>1 DEF FlightInv, NoUnlandedRead
<1>9. \A q \in Ranks \ {r} : Untouched(q) /\ InFlight(q)' \subseteq InFlight(q)
  BY <1>1, <1>2, <1>3, <1>5 DEF Untouched
<1>. QED BY <1>1, <1>4, <1>7, <1>8, <1>9, RankFlight

\* The next call starts with no input of the last one in flight.
LEMMA NextIterationFlight ==
    ASSUME TypeOK, FlightInv, NEW r \in Ranks, NextIteration(r)
    PROVE  FlightInv'
<1>1. /\ status[r] = "done" /\ status' = [status EXCEPT ![r] = "run"]
      /\ iter' = [iter EXCEPT ![r] = @ + 1] /\ pc' = [pc EXCEPT ![r] = 1]
      /\ waiting' = [waiting EXCEPT ![r] = {}]
      /\ UNCHANGED << cfg, orders, part, bnd, batches, handles, cache, wire, faults >>
  BY DEF NextIteration
<1>2. /\ StateTypes /\ status'[r] = "run" /\ DOMAIN waiting' = Ranks
      /\ pc' \in [Ranks -> Nat \ {0}]
      /\ \A q \in Ranks \ {r} : /\ status'[q] = status[q] /\ iter'[q] = iter[q]
                                /\ pc'[q] = pc[q] /\ waiting'[q] = waiting[q]
  BY <1>1 DEF FlightInv, TypeOK, StateTypes
<1>3. StateTypes'
  BY <1>1, <1>2, TypesKept DEF StateTypes
<1>4. \A q : InFlight(q)' = InFlight(q)
  BY <1>1 DEF InFlight
<1>5. batches[r] = <<>> /\ part[r] = {} /\ \A o \in InFlight(r) : ~IsInput(o)
  BY <1>1 DEF FlightInv, Local, InPlace, Landed
<1>6. Local(r)'
  <2>1. Tracked(r)'
    BY <1>4, <1>5 DEF Tracked, IsInput
  <2>. QED BY <1>1, <1>2, <1>5, <2>1, QuietLocal
<1>7. NoUnlandedRead' /\ cache.slots \subseteq cache'.slots
  BY <1>1 DEF FlightInv, NoUnlandedRead
<1>8. \A q \in Ranks \ {r} : Untouched(q) /\ InFlight(q)' \subseteq InFlight(q)
  BY <1>1, <1>2, <1>4 DEF Untouched
<1>. QED BY <1>1, <1>3, <1>6, <1>7, <1>8, RankFlight

LEMMA SyncFlight ==
    ASSUME TypeOK, FlightInv, SyncSharedParametersGrad
    PROVE  FlightInv'
<1>1. /\ \A r \in cfg.shared : status[r] = "sync"
      /\ status' = [r \in Ranks |-> IF r \in cfg.shared THEN "drain" ELSE status[r]]
      /\ UNCHANGED << cfg, orders, iter, pc, part, bnd, batches, waiting, handles, cache,
                      wire, faults >>
  BY DEF SyncSharedParametersGrad
<1>2. StateTypes /\ Ranks' = Ranks
  BY <1>1 DEF FlightInv, Ranks
<1>3. StateTypes'
  BY <1>1, <1>2, TypesKept DEF StateTypes
<1>4. \A q : InFlight(q)' = InFlight(q)
  BY <1>1 DEF InFlight
<1>5. ASSUME NEW q \in Ranks PROVE Local(q)'
  <2>1. CASE q \in cfg.shared
    <3>1. status[q] = "sync" /\ status'[q] = "drain"
      BY <1>1, <2>1
    <3>2. InPlace(q)'
      BY <1>1, <1>4, <3>1 DEF FlightInv, Local, InPlace, Completed
    <3>3. Tracked(q)'
      BY <1>1, <1>4 DEF FlightInv, Local, Tracked, Kept, KeyOp, Global, Op, Slotted
    <3>4. Sorted(q)'
      BY <1>1 DEF FlightInv, Local, Sorted, Routed, KeyOp, Global, Op, Slotted
    <3>5. HalfFed(q)' /\ Landed(q)'
      BY <3>1 DEF HalfFed, Landed
    <3>. QED BY <3>2, <3>3, <3>4, <3>5 DEF Local
  <2>2. CASE q \notin cfg.shared
    <3>1. Local(q) /\ Untouched(q) /\ InFlight(q)' \subseteq InFlight(q)
      BY <1>1, <1>4, <2>2 DEF FlightInv, Untouched
    <3>. QED BY <1>1, <3>1, LocalKept
  <2>. QED BY <2>1, <2>2
<1>. QED
  BY <1>1, <1>2, <1>3, <1>5 DEF FlightInv, NoUnlandedRead

LEMMA TransportFlight ==
    ASSUME TypeOK, FlightInv, Transport
    PROVE  FlightInv'
<1>1. PICK lane \in Lanes, r \in Ranks, p \in Ranks : r # p /\ Match(lane, r, p)
  BY DEF Transport
<1>2. /\ UNCHANGED << cfg, orders, locals, cache >>
      /\ faults' \in {faults, faults \cup {"crossed"}}
  BY <1>1 DEF Match
<1>3. StateTypes /\ Ranks' = Ranks
  BY <1>2 DEF FlightInv, Ranks
<1>4. /\ wire' \in [Lanes \X Ranks \X Ranks -> Seq(Seq(Ops))]
      /\ \A q : InFlight(q)' \subseteq InFlight(q)
  BY <1>1, <1>3, Matched
<1>5. UNCHANGED << status, iter, pc, part, bnd, batches, waiting, handles >>
  BY <1>2 DEF locals
<1>6. StateTypes'
  BY <1>2, <1>3, <1>4, <1>5, TypesKept DEF StateTypes
<1>7. ASSUME NEW q \in Ranks PROVE Local(q)'
  BY <1>2, <1>4, <1>5, LocalKept DEF FlightInv, Untouched
<1>8. NoUnlandedRead'
  BY <1>2 DEF FlightInv, NoUnlandedRead
<1>. QED BY <1>3, <1>6, <1>7, <1>8 DEF FlightInv

LEMMA StutterFlight ==
    ASSUME FlightInv, UNCHANGED vars
    PROVE  FlightInv'
<1>1. UNCHANGED << cfg, orders, status, iter, pc, part, bnd, batches, waiting, handles,
                   cache, wire, faults >>
  BY DEF vars, locals
<1>2. StateTypes /\ Ranks' = Ranks
  BY <1>1 DEF FlightInv, Ranks
<1>3. StateTypes'
  BY <1>1, <1>2, TypesKept DEF StateTypes
<1>4. \A q : InFlight(q)' = InFlight(q)
  BY <1>1 DEF InFlight
<1>5. ASSUME NEW q \in Ranks PROVE Local(q)'
  BY <1>1, <1>4, LocalKept DEF FlightInv, Untouched
<1>. QED BY <1>1, <1>2, <1>3, <1>5 DEF FlightInv, NoUnlandedRead

LEMMA InitFlight == Init => FlightInv
<1> SUFFICES ASSUME Init PROVE FlightInv
  OBVIOUS
<1>1. StateTypes
  <2>1. wire \in [Lanes \X Ranks \X Ranks -> Seq(Seq(Ops))]
    BY DEF Init
  <2>2. /\ pc \in [Ranks -> Nat \ {0}] /\ bnd \in [Ranks -> Nat]
        /\ part \in [Ranks -> SUBSET (1 .. 2)] /\ batches \in [Ranks -> Seq(PeerBatch)]
        /\ DOMAIN waiting = Ranks /\ DOMAIN handles = Ranks
    BY DEF Init
  <2>3. cache \in Caches
    BY DEF Init, NoCache, Caches
  <2>4. orders = ActiveOrders(cfg)
    BY DEF Init
  <2>. QED BY <2>1, <2>2, <2>3, <2>4 DEF StateTypes
<1>2. \A q \in Ranks : InFlight(q) = {}
  BY DEF Init, InFlight
<1>3. \A q \in Ranks : Local(q)
  BY <1>2 DEF Init, Local, InPlace, Tracked, Sorted, HalfFed, Landed
<1>. QED
  BY <1>1, <1>3 DEF FlightInv, NoUnlandedRead, Init

LEMMA RankStepFlight ==
    ASSUME TypeOK, FlightInv, NEW r \in Ranks, RankStep(r)
    PROVE  FlightInv'
  BY ExchangeMetaFlight, P2PStepFlight, BatchBuildFlight, BatchIssueFlight, ComputeStepFlight,
     SubStepFlight, BoundaryStepFlight, OverlapEndFlight, DataLoadFlight, DataTransferFlight,
     StepErrorFlight, LastStepFlight, DrainFlight, NextIterationFlight DEF RankStep

LEMMA NextFlight ==
    ASSUME TypeOK, FlightInv, [Next]_vars
    PROVE  FlightInv'
<1>1. ASSUME NEW r \in Ranks, RankStep(r) PROVE FlightInv'
  BY <1>1, RankStepFlight
<1>2. CASE Transport
  BY <1>2, TransportFlight
<1>3. CASE SyncSharedParametersGrad
  BY <1>3, SyncFlight
<1>4. CASE Terminated \/ UNCHANGED vars
  BY <1>4, StutterFlight DEF Terminated
<1>. QED
  BY <1>1, <1>2, <1>3, <1>4 DEF Next

LEMMA FlightInvariance == Spec => [](Inv /\ FlightInv)
<1>1. Inv /\ FlightInv /\ [Next]_vars => (Inv /\ FlightInv)'
  BY NextInv, NextFlight DEF Inv
<1>. QED
  BY <1>1, InitInv, InitFlight, PTL DEF Spec

\* No chunk reads a receive buffer the transport has not filled yet: the waits
\* of a step cover every receive posted for it, in whatever batch or boundary.
THEOREM NothingReadUnlanded == Spec => []NoUnlandedRead
<1>1. Inv /\ FlightInv => NoUnlandedRead
  BY DEF FlightInv
<1>. QED
  BY <1>1, FlightInvariance, PTL

-----------------------------------------------------------------------------
(***************************************************************************)
(* What a rank waits for: every operation it has in flight is one it is    *)
(* blocked on or has a handle of, so that the drain at the end of a call,  *)
(* or in the finally of one that raised, waits for all of them.  A second  *)
(* receive for the same key would drop a handle, hence Posed and Apart.    *)
(***************************************************************************)
\* Every operation in flight has a handle the rank will wait on.
Covered(r, o) == o \in sends[r] \/ \E k \in DOMAIN handles[r] : o \in handles[r][k]
Accounted(r) == \A o \in InFlight(r) : o \in waiting[r] \/ Covered(r, o)

\* A rank that left its steps is blocked on none of them.
Unblocked(r) == status[r] \in {"sync", "drain", "unwind"} => Completed(r, waiting[r])
Released(r) == status[r] \in {"done", "raised"} => InFlight(r) = {} /\ DOMAIN handles[r] = {}

\* The handles kept are of receives of steps behind the rank, or of the batch
\* or boundary it is at.
Behind(r, k) == \E j \in DOMAIN Order(r) : j < pc[r] /\ k \in ReceiveKeys(Order(r)[j])
InBatch(r, k) == /\ pc[r] <= Len(Order(r)) /\ batches[r] # <<>>
                 /\ k \in ReceiveKeys(Cur(r))
AtBoundary(r, k) ==
    /\ pc[r] <= Len(Order(r)) /\ IsOverlap(Cur(r))
    /\ \E a \in DOMAIN Cur(r).boundary :
          /\ a <= bnd[r] /\ Cur(r).boundary[a].type \in RecvTypes
          /\ k = RecvKey(Cur(r).boundary[a])
Posed(r) ==
    status[r] = "run" =>
        \A k \in DOMAIN handles[r] : Behind(r, k) \/ InBatch(r, k) \/ AtBoundary(r, k)

\* The batches still to issue have receives of their own.
Apart(r) ==
    status[r] = "run" =>
        \A n \in DOMAIN batches[r] :
            /\ batches[r][n].recvs \cap DOMAIN handles[r] = {}
            /\ batches[r][n].recvs \subseteq ReceiveKeys(Cur(r))
            /\ \A m \in DOMAIN batches[r] :
                  m # n => batches[r][m].recvs \cap batches[r][n].recvs = {}

Waited(r) == Accounted(r) /\ Unblocked(r) /\ Released(r) /\ Posed(r) /\ Apart(r)
WaitInv == DOMAIN sends = Ranks /\ \A r \in Ranks : Waited(r)

LEMMA WaitKept ==
    ASSUME NEW q \in Ranks, Waited(q), Untouched(q), UNCHANGED << cfg, orders >>,
           sends'[q] = sends[q], bnd'[q] = bnd[q], InFlight(q)' \subseteq InFlight(q)
    PROVE  Waited(q)'
<1>1. Order(q)' = Order(q) /\ Cur(q)' = Cur(q)
  BY DEF Order, Cur, Untouched
<1>2. Accounted(q)'
  BY DEF Waited, Accounted, Covered, Untouched
<1>3. Unblocked(q)' /\ Released(q)'
  BY DEF Waited, Unblocked, Released, Completed, Untouched
<1>4. \A k : /\ Behind(q, k) => Behind(q, k)'
             /\ InBatch(q, k) => InBatch(q, k)'
  BY <1>1 DEF Behind, InBatch, Untouched
<1>5. \A k : AtBoundary(q, k) => AtBoundary(q, k)'
  BY <1>1 DEF AtBoundary, Untouched
<1>6. Posed(q)'
  BY <1>4, <1>5 DEF Waited, Posed, Untouched
<1>7. Apart(q)'
  BY <1>1 DEF Waited, Apart, Untouched
<1>. QED
  BY <1>2, <1>3, <1>6, <1>7 DEF Waited

\* What is left to show of a step of one rank.
LEMMA RankWait ==
    ASSUME WaitInv, NEW r \in Ranks, UNCHANGED << cfg, orders >>,
           DOMAIN sends' = Ranks, Waited(r)',
           \A q \in Ranks \ {r} : /\ Untouched(q) /\ InFlight(q)' \subseteq InFlight(q)
                                  /\ sends'[q] = sends[q] /\ bnd'[q] = bnd[q]
    PROVE  WaitInv'
<1>1. Ranks' = Ranks
  BY DEF Ranks
<1>2. ASSUME NEW q \in Ranks PROVE Waited(q)'
  BY WaitKept DEF WaitInv
<1>. QED
  BY <1>1, <1>2 DEF WaitInv

\* Routing a batch whose receives have no handles yet drops no handle.
LEMMA RouteAccounted ==
    ASSUME TypeOK, FlightInv, WaitInv, NEW r \in Ranks, NEW lane, NEW peer,
           NEW ops \in Seq(Ops), NEW recvs,
           Completed(r, waiting[r]), Post(r, lane, peer, ops), Route(r, ToSet(ops), recvs),
           UNCHANGED cfg, recvs \cap DOMAIN handles[r] = {}
    PROVE  /\ Accounted(r)' /\ DOMAIN sends' = Ranks
           /\ DOMAIN handles'[r] \subseteq DOMAIN handles[r] \cup recvs
           /\ \A q \in Ranks \ {r} : /\ InFlight(q)' \subseteq InFlight(q)
                                     /\ sends'[q] = sends[q]
<1>1. /\ DOMAIN waiting = Ranks /\ DOMAIN handles = Ranks /\ StateTypes
      /\ DOMAIN sends = Ranks
  BY DEF FlightInv, StateTypes, WaitInv
<1>2. /\ InFlight(r)' \subseteq InFlight(r) \cup ToSet(ops)
      /\ \A q \in Ranks \ {r} : InFlight(q)' \subseteq InFlight(q)
  BY <1>1, Posted
<1>3. \A o \in InFlight(r) : Covered(r, o)
  BY DEF WaitInv, Waited, Accounted, Completed
<1>4. CASE ~cfg.p2p
  <2>1. waiting' = [waiting EXCEPT ![r] = ToSet(ops)] /\ UNCHANGED << handles, sends >>
    BY <1>4 DEF Route
  <2>2. Accounted(r)'
    BY <1>1, <1>2, <1>3, <2>1 DEF Accounted, Covered
  <2>. QED BY <1>1, <1>2, <2>1, <2>2
<1>5. CASE cfg.p2p /\ recvs = {}
  <2>1. sends' = [sends EXCEPT ![r] = @ \cup ToSet(ops)] /\ UNCHANGED handles
    BY <1>5 DEF Route
  <2>2. sends'[r] = sends[r] \cup ToSet(ops)
    BY <1>1, <2>1
  <2>3. Accounted(r)'
    BY <1>2, <1>3, <2>1, <2>2 DEF Accounted, Covered
  <2>. QED BY <1>1, <1>2, <2>1, <2>3
<1>6. CASE cfg.p2p /\ recvs # {}
  <2> DEFINE h == [k \in recvs \cup DOMAIN handles[r] |->
                      IF k \in recvs THEN ToSet(ops) ELSE handles[r][k]]
  <2>1. handles' = [handles EXCEPT ![r] = h] /\ UNCHANGED sends
    BY <1>6 DEF Route
  <2>2. handles'[r] = h
    BY <1>1, <2>1
  <2>3. /\ DOMAIN h = recvs \cup DOMAIN handles[r]
        /\ \A k \in recvs : h[k] = ToSet(ops)
        /\ \A k \in DOMAIN handles[r] : h[k] = handles[r][k]
    OBVIOUS
  <2> HIDE DEF h
  <2>4. \A o \in InFlight(r) : Covered(r, o)'
    BY <1>3, <2>1, <2>2, <2>3 DEF Covered
  <2>5. \A o \in ToSet(ops) : Covered(r, o)'
    <3>1. PICK k : k \in recvs
      BY <1>6
    <3>. QED BY <2>2, <2>3, <3>1 DEF Covered
  <2>6. Accounted(r)'
    BY <1>2, <2>4, <2>5 DEF Accounted
  <2>. QED BY <1>1, <1>2, <2>1, <2>2, <2>3, <2>6
<1>. QED BY <1>4, <1>5, <1>6

\* What a rank waited for before it computes, it need not keep.
LEMMA ForgetAccounted ==
    ASSUME TypeOK, FlightInv, WaitInv, NEW r \in Ranks, NEW step,
           Compute(r, step), UNCHANGED << cfg, wire, waiting, sends >>
    PROVE  /\ Accounted(r)' /\ DOMAIN handles'[r] \subseteq DOMAIN handles[r]
           /\ \A q : InFlight(q)' = InFlight(q)
<1> DEFINE key == ComputeKey(step)
           h == Forget(r, key)
<1>1. /\ Completed(r, HandleOf(r, key)) /\ handles' = [handles EXCEPT ![r] = h]
      /\ DOMAIN handles = Ranks
  BY DEF Compute, FlightInv, StateTypes
<1> HIDE DEF key
<1>2. /\ DOMAIN h = DOMAIN handles[r] \ {key}
      /\ \A k \in DOMAIN h : h[k] = handles[r][k]
  BY DEF Forget, Restrict
<1> HIDE DEF h
<1>3. handles'[r] = h
  BY <1>1
<1>4. \A q : InFlight(q)' = InFlight(q)
  BY DEF InFlight
<1>5. ASSUME NEW o \in InFlight(r), Covered(r, o) PROVE Covered(r, o)'
  <2>1. CASE o \in sends[r]
    BY <2>1 DEF Covered
  <2>2. CASE \E k \in DOMAIN handles[r] : o \in handles[r][k]
    <3>1. PICK k \in DOMAIN handles[r] : o \in handles[r][k]
      BY <2>2
    <3>2. k # key
      BY <1>1, <3>1 DEF HandleOf, Completed
    <3>. QED BY <1>2, <1>3, <3>1, <3>2 DEF Covered
  <2>. QED BY <1>5, <2>1, <2>2 DEF Covered
<1>6. Accounted(r)'
  BY <1>4, <1>5 DEF WaitInv, Waited, Accounted
<1>. QED BY <1>2, <1>3, <1>4, <1>6

-----------------------------------------------------------------------------
\* A receive of a step is of no step before it.
LEMMA ReceivedOnce ==
    ASSUME TypeOK, StateTypes, NEW r \in Ranks, pc[r] <= Len(Order(r))
    PROVE  /\ pc[r] \in DOMAIN Order(r)
           /\ \A k \in ReceiveKeys(Cur(r)) : ~Behind(r, k)
           /\ \A a, b \in DOMAIN Cur(r).boundary :
                  a # b => RecvKey(Cur(r).boundary[a]) # RecvKey(Cur(r).boundary[b])
<1> DEFINE order == ActiveOrders(cfg)[r]
<1>1. order \in Seq(MetaSteps)
  BY OrdersAssumption DEF TypeOK, Ranks
<1>2. \A n \in DOMAIN order :
          /\ \A j \in 1 .. n - 1 : ReceiveKeys(order[j]) \cap ReceiveKeys(order[n]) = {}
          /\ \A a, b \in DOMAIN order[n].boundary :
                 a # b => RecvKey(order[n].boundary[a]) # RecvKey(order[n].boundary[b])
  <2> SUFFICES ASSUME NEW n \in DOMAIN order
               PROVE  /\ \A j \in 1 .. n - 1 : ReceiveKeys(order[j]) \cap ReceiveKeys(order[n]) = {}
                      /\ \A a, b \in DOMAIN order[n].boundary :
                             a # b => RecvKey(order[n].boundary[a]) # RecvKey(order[n].boundary[b])
    OBVIOUS
  <2> DEFINE keys == [k \in DOMAIN order |-> ReceiveKeys(order[k])]
  <2>1. /\ \A j \in 1 .. n - 1 : keys[j] \cap keys[n] = {}
        /\ \A a, b \in DOMAIN order[n].boundary :
               a # b => RecvKey(order[n].boundary[a]) # RecvKey(order[n].boundary[b])
    <3> HIDE DEF order
    <3>. QED BY ReceivesAssumption DEF TypeOK, Ranks, order
  <2> HIDE DEF order
  <2>2. DOMAIN order = 1 .. Len(order) /\ Len(order) \in Nat
    BY <1>1, LenProperties
  <2>3. \A j \in 1 .. n - 1 : j \in DOMAIN order
    BY <2>2
  <2>. QED BY <2>1, <2>3
<1> HIDE DEF order
<1>3. Order(r) = order /\ pc[r] \in Nat \ {0}
  BY DEF StateTypes, Order, order
<1>4. DOMAIN order = 1 .. Len(order) /\ Len(order) \in Nat
  BY <1>1, LenProperties
<1>5. pc[r] \in DOMAIN order
  BY <1>3, <1>4
<1>6. \A j \in DOMAIN order : j < pc[r] => j \in 1 .. pc[r] - 1
  BY <1>3, <1>4
<1>. QED
  BY <1>2, <1>3, <1>5, <1>6 DEF Behind, Cur

\* What was posted at a step is behind the rank when it has gone on.
LEMMA GoneOn ==
    ASSUME TypeOK, FlightInv, WaitInv, NEW r \in Ranks, status[r] = "run",
           pc[r] <= Len(Order(r)), pc'[r] = pc[r] + 1, UNCHANGED << cfg, orders >>,
           DOMAIN handles'[r] \subseteq DOMAIN handles[r] \cup ReceiveKeys(Cur(r))
    PROVE  Posed(r)'
<1>1. pc[r] \in DOMAIN Order(r) /\ pc[r] \in Nat /\ StateTypes
  BY ReceivedOnce, OrderLength DEF FlightInv
<1>2. Order(r)' = Order(r) /\ DOMAIN Order(r) \subseteq Nat
  <2>1. Order(r) \in Seq(MetaSteps)
    BY <1>1, OrdersAssumption DEF TypeOK, Ranks, StateTypes, Order
  <2>2. DOMAIN Order(r) = 1 .. Len(Order(r)) /\ Len(Order(r)) \in Nat
    BY <2>1, LenProperties
  <2>. QED BY <2>2 DEF Order
<1>3. ASSUME NEW k, Behind(r, k) PROVE Behind(r, k)'
  <2>1. PICK j \in DOMAIN Order(r) : j < pc[r] /\ k \in ReceiveKeys(Order(r)[j])
    BY <1>3 DEF Behind
  <2>2. j < pc[r] + 1
    BY <1>1, <1>2, <2>1
  <2>. QED BY <1>2, <2>1, <2>2 DEF Behind
<1>4. ASSUME NEW k \in ReceiveKeys(Cur(r)) PROVE Behind(r, k)'
  <2>1. pc[r] < pc[r] + 1
    BY <1>1
  <2>2. k \in ReceiveKeys(Order(r)[pc[r]])
    BY <1>4 DEF Cur
  <2>. QED BY <1>1, <1>2, <2>1, <2>2 DEF Behind
<1>5. ASSUME NEW k, AtBoundary(r, k) PROVE k \in ReceiveKeys(Cur(r))
  BY <1>5 DEF AtBoundary, ReceiveKeys, ToSet
<1>6. ASSUME NEW k \in DOMAIN handles[r] PROVE Behind(r, k)'
  <2>1. Behind(r, k) \/ InBatch(r, k) \/ AtBoundary(r, k)
    BY <1>6 DEF WaitInv, Waited, Posed
  <2>. QED BY <1>3, <1>4, <1>5, <2>1 DEF InBatch
<1>. QED
  BY <1>4, <1>6 DEF Posed

\* A rank that begins a step has no handle of one of its receives.
LEMMA NotYetPosted ==
    ASSUME TypeOK, FlightInv, WaitInv, NEW r \in Ranks, status[r] = "run",
           pc[r] <= Len(Order(r)), batches[r] = <<>>, ~IsOverlap(Cur(r))
    PROVE  ReceiveKeys(Cur(r)) \cap DOMAIN handles[r] = {}
<1>1. \A k \in ReceiveKeys(Cur(r)) : ~Behind(r, k)
  BY ReceivedOnce DEF FlightInv
<1>. QED
  BY <1>1 DEF WaitInv, Waited, Posed, InBatch, AtBoundary

\* A concatenation of parts of at most one entry, none of them twice.
LEMMA FlattenApart ==
    ASSUME NEW S, NEW ss \in Seq(Seq(S)), \A i \in DOMAIN ss : Len(ss[i]) <= 1,
           \A i, j \in DOMAIN ss : i # j => ToSet(ss[i]) \cap ToSet(ss[j]) = {}
    PROVE  \A m, n \in DOMAIN FlattenSeq(ss) :
               m # n => FlattenSeq(ss)[m] # FlattenSeq(ss)[n]
<1>0. Len(ss) \in Nat /\ DOMAIN ss = 1 .. Len(ss) /\ \A i \in 1 .. Len(ss) : ss[i] \in Seq(S)
  BY LenProperties
<1>1. CASE Len(ss) = 0
  <2>1. ss = <<>>
    BY <1>1, EmptySeq
  <2>2. FlattenSeq(ss) = <<>>
    BY <1>1, <2>1 DEF FlattenSeq
  <2>. QED
    BY <2>2
<1>2. CASE Len(ss) # 0
  <2>1. PICK it : IsFlat(it, ss, Len(ss)) /\ FlattenSeq(ss) = it[Len(ss)]
    BY <1>0, <1>2, FlatUnfolds
  <2>0. \A i \in 1 .. Len(ss) : it[i] = IF i = 1 THEN ss[i] ELSE it[i - 1] \o ss[i]
    BY <2>1 DEF IsFlat
  <2> DEFINE Good(n) ==
        /\ it[n] \in Seq(S)
        /\ \A x \in ToSet(it[n]) : \E i \in 1 .. n : x \in ToSet(ss[i])
        /\ \A a, b \in DOMAIN it[n] : a # b => it[n][a] # it[n][b]
  <2> DEFINE G == {n \in Nat : n + 1 <= Len(ss) => Good(n + 1)}
  <2>2. 0 \in G
    <3>1. it[1] = ss[1] /\ 1 \in 1 .. Len(ss)
      BY <1>0, <1>2, <2>1 DEF IsFlat
    <3>2. \A a, b \in DOMAIN ss[1] : a = b
      <4>1. ss[1] \in Seq(S) /\ Len(ss[1]) <= 1
        BY <1>0, <3>1
      <4>2. DOMAIN ss[1] = 1 .. Len(ss[1]) /\ Len(ss[1]) \in Nat
        BY <4>1, LenProperties
      <4>. QED BY <4>1, <4>2
    <3>3. Good(1)
      BY <1>0, <3>1, <3>2
    <3> HIDE DEF Good
    <3>. QED BY <3>3
  <2>3. ASSUME NEW n \in Nat, n \in G PROVE n + 1 \in G
    <3> SUFFICES ASSUME n + 1 + 1 <= Len(ss) PROVE Good(n + 1 + 1)
      OBVIOUS
    <3> DEFINE m == n + 1
    <3>1. m \in 1 .. Len(ss) /\ m + 1 \in 1 .. Len(ss) /\ m + 1 # 1 /\ m + 1 - 1 = m
      BY <1>0
    <3>2. Good(m)
      <4> HIDE DEF Good
      <4>. QED BY <2>3, <3>1
    <3> HIDE DEF m
    <3>3. it[m + 1] = it[m] \o ss[m + 1]
      <4> DEFINE j == m + 1
      <4>1. j \in 1 .. Len(ss) /\ j # 1 /\ j - 1 = m
        BY <3>1
      <4> HIDE DEF j
      <4>2. it[j] = it[j - 1] \o ss[j]
        BY <2>0, <4>1
      <4>. QED BY <4>1, <4>2 DEF j
    <3> DEFINE old == it[m]
               more == ss[m + 1]
    <3>4. /\ old \in Seq(S) /\ more \in Seq(S) /\ Len(more) <= 1
          /\ \A x \in ToSet(old) : \E i \in 1 .. m : x \in ToSet(ss[i])
          /\ \A a, b \in DOMAIN old : a # b => old[a] # old[b]
      BY <1>0, <3>1, <3>2
    <3>5. ToSet(old) \cap ToSet(more) = {}
      <4>1. \A i \in 1 .. m : i \in DOMAIN ss /\ i # m + 1 /\ m + 1 \in DOMAIN ss
        BY <1>0, <3>1
      <4>2. \A i \in 1 .. m : ToSet(ss[i]) \cap ToSet(ss[m + 1]) = {}
        BY <4>1
      <4>. QED BY <3>4, <4>2
    <3> HIDE DEF Good
    <3>6. it[m + 1] = old \o more
      BY <3>3
    <3>7. \A i \in 1 .. m + 1 : i \in 1 .. m \/ i = m + 1
      BY <3>1
    <3>8. \A i \in 1 .. m : i \in 1 .. m + 1
      BY <3>1
    <3>9. m + 1 \in 1 .. m + 1
      BY <3>1
    <3>10. ToSet(more) = ToSet(ss[m + 1])
      OBVIOUS
    <3> HIDE DEF old, more
    <3>11. /\ old \o more \in Seq(S)
           /\ ToSet(old \o more) = ToSet(old) \cup ToSet(more)
      BY <3>4, ConcatSet
    <3>12. \A x \in ToSet(old \o more) : \E i \in 1 .. m + 1 : x \in ToSet(ss[i])
      <4> TAKE x \in ToSet(old \o more)
      <4>1. CASE x \in ToSet(old)
        BY <3>4, <3>8, <4>1
      <4>2. CASE x \in ToSet(more)
        BY <3>9, <3>10, <4>2
      <4>. QED BY <3>11, <4>1, <4>2
    <3>13. \A a, b \in DOMAIN (old \o more) : a # b => (old \o more)[a] # (old \o more)[b]
      <4>1. /\ Len(old) \in Nat /\ Len(more) \in Nat /\ Len(more) <= 1
            /\ DOMAIN old = 1 .. Len(old) /\ DOMAIN more = 1 .. Len(more)
            /\ DOMAIN (old \o more) = 1 .. Len(old) + Len(more)
            /\ \A i \in 1 .. Len(old) + Len(more) :
                   (old \o more)[i] = IF i <= Len(old) THEN old[i] ELSE more[i - Len(old)]
        BY <3>4, ConcatProperties, LenProperties
      <4> DEFINE both == old \o more
      <4>2. \A a \in DOMAIN both : a <= Len(old) => a \in DOMAIN old /\ both[a] = old[a]
        BY <4>1
      <4>3. \A a \in DOMAIN both :
                ~(a <= Len(old)) => /\ a = Len(old) + 1 /\ a - Len(old) \in DOMAIN more
                                    /\ both[a] = more[a - Len(old)]
        BY <4>1
      <4> HIDE DEF both
      <4>4. \A a \in DOMAIN both : a <= Len(old) => both[a] \in ToSet(old)
        BY <4>2 DEF ToSet
      <4>5. \A a \in DOMAIN both : ~(a <= Len(old)) => both[a] \in ToSet(more)
        BY <4>3 DEF ToSet
      <4>6. \A a, b \in DOMAIN both : a # b => both[a] # both[b]
        <5> SUFFICES ASSUME NEW a \in DOMAIN both, NEW b \in DOMAIN both, a # b
                     PROVE  both[a] # both[b]
          OBVIOUS
        <5>1. CASE a <= Len(old) /\ b <= Len(old)
          BY <3>4, <4>2, <5>1
        <5>2. CASE ~(a <= Len(old)) /\ ~(b <= Len(old))
          BY <4>3, <5>2
        <5>3. CASE a <= Len(old) /\ ~(b <= Len(old))
          BY <3>5, <4>4, <4>5, <5>3
        <5>4. CASE ~(a <= Len(old)) /\ b <= Len(old)
          BY <3>5, <4>4, <4>5, <5>4
        <5>. QED BY <5>1, <5>2, <5>3, <5>4
      <4>. QED BY <4>6 DEF both
    <3>14. Good(m + 1)
      BY <3>6, <3>11, <3>12, <3>13 DEF Good
    <3>. QED BY <3>14 DEF m
  <2>4. Nat \subseteq G
    <3> HIDE DEF G
    <3>. QED BY <2>2, <2>3, CountUp
  <2>5. Good(Len(ss))
    <3>1. Len(ss) - 1 \in Nat /\ Len(ss) - 1 + 1 = Len(ss)
      BY <1>0, <1>2
    <3>2. Len(ss) - 1 \in G
      <4> HIDE DEF G
      <4>. QED BY <2>4, <3>1
    <3>3. Good(Len(ss) - 1 + 1)
      <4> HIDE DEF Good
      <4>. QED BY <1>0, <3>1, <3>2
    <3>. QED
      <4> HIDE DEF Good
      <4>. QED BY <3>1, <3>3
  <2>. QED
    BY <2>1, <2>5
<1>. QED
  BY <1>1, <1>2

\* The receives of a batch go to the peer the batch is for, and no two batches
\* are for the same peer.
LEMMA BatchesApart ==
    ASSUME NEW r \in Ranks, Cur(r).sub \in Seq(LeafSteps)
    PROVE  \A n \in DOMAIN PeerBatches(r) :
               /\ PeerBatches(r)[n].recvs \subseteq ReceiveKeys(Cur(r))
               /\ \A m \in DOMAIN PeerBatches(r) :
                     m # n => PeerBatches(r)[m].recvs \cap PeerBatches(r)[n].recvs = {}
<1> DEFINE sub == Cur(r).sub
           posting(k) == Posts(r, sub[k]) # <<>>
           first(k) == posting(k) /\ \A j \in 1 .. k - 1 :
                           posting(j) => PeerOf(sub[j]) # PeerOf(sub[k])
           to(p, k) == posting(k) /\ PeerOf(sub[k]) = p
           parts(p) == [k \in DOMAIN sub |-> When(to(p, k), Posts(r, sub[k]))]
           recvs(p) == {RecvKey(sub[k]) :
                           k \in {j \in DOMAIN sub : to(p, j) /\ sub[j].type \in RecvTypes}}
           batch(p) == [peer |-> p, ops |-> FlattenSeq(parts(p)), recvs |-> recvs(p)]
           all == [k \in DOMAIN sub |-> When(first(k), << batch(PeerOf(sub[k])) >>)]
           Good == {batch(PeerOf(sub[k])) : k \in DOMAIN sub}
<1>1. PeerBatches(r) = FlattenSeq(all)
  BY DEF PeerBatches
<1>2. /\ DOMAIN sub = 1 .. Len(sub) /\ Len(sub) \in Nat
      /\ \A k \in DOMAIN sub : sub[k] \in ToSet(sub)
  BY LenProperties DEF ToSet
<1>3. \A k \in DOMAIN sub : sub[k].type \in RecvTypes => RecvKey(sub[k]) \in ReceiveKeys(Cur(r))
  BY <1>2 DEF ReceiveKeys
<1> HIDE DEF sub
<1>4. \A k, j \in DOMAIN sub :
          /\ sub[k].type \in RecvTypes /\ sub[j].type \in RecvTypes
          /\ RecvKey(sub[k]) = RecvKey(sub[j])
          => PeerOf(sub[k]) = PeerOf(sub[j])
  <2> SUFFICES ASSUME NEW k \in DOMAIN sub, NEW j \in DOMAIN sub,
                      sub[k].type \in RecvTypes, sub[j].type \in RecvTypes,
                      RecvKey(sub[k]) = RecvKey(sub[j])
               PROVE  PeerOf(sub[k]) = PeerOf(sub[j])
    OBVIOUS
  <2>1. sub[k].stage = sub[j].stage
    BY DEF RecvKey
  <2>2. sub[k].type = "FWD_RECV" <=> sub[j].type = "FWD_RECV"
    BY DEF RecvKey
  <2>3. sub[k].type = sub[j].type
    BY <2>2 DEF RecvTypes
  <2>. QED BY <2>1, <2>3 DEF PeerOf
<1>5. ASSUME NEW p, NEW q, NEW key, key \in recvs(p), key \in recvs(q) PROVE p = q
  <2>1. PICK k \in DOMAIN sub : key = RecvKey(sub[k]) /\ to(p, k) /\ sub[k].type \in RecvTypes
    BY <1>5
  <2>2. PICK j \in DOMAIN sub : key = RecvKey(sub[j]) /\ to(q, j) /\ sub[j].type \in RecvTypes
    BY <1>5
  <2>. QED BY <1>4, <2>1, <2>2
<1>6. \A p : recvs(p) \subseteq ReceiveKeys(Cur(r))
  BY <1>3
<1> HIDE DEF posting, recvs, parts
<1>7. \A p, q : batch(p).peer = p /\ batch(p).recvs = recvs(p)
  OBVIOUS
<1> HIDE DEF batch
<1>8. all \in Seq(Seq(Good)) /\ DOMAIN all = DOMAIN sub
  <2>1. \A x \in Good : << x >> \in Seq(Good)
    OBVIOUS
  <2> HIDE DEF first
  <2>2. \A k \in DOMAIN sub : When(first(k), << batch(PeerOf(sub[k])) >>) \in Seq(Good)
    BY <2>1, EmptySeq DEF When
  <2> DEFINE SS == Seq(Good)
             f == [k \in 1 .. Len(sub) |-> When(first(k), << batch(PeerOf(sub[k])) >>)]
  <2>3. f \in [1 .. Len(sub) -> SS]
    BY <1>2, <2>2
  <2>4. f = all
    BY <1>2
  <2> HIDE DEF f, SS
  <2>5. f \in Seq(SS)
    BY <1>2, <2>3
  <2>. QED BY <2>4, <2>5 DEF SS
<1>9. \A k \in DOMAIN sub : all[k] = IF first(k) THEN << batch(PeerOf(sub[k])) >> ELSE <<>>
  <2> HIDE DEF first
  <2>. QED BY DEF When
<1>10. ASSUME NEW i \in DOMAIN sub, NEW j \in DOMAIN sub, i # j
       PROVE  ToSet(all[i]) \cap ToSet(all[j]) = {}
  <2>0. ToSet(<<>>) = {} /\ \A x : ToSet(<< x >>) = {x}
    BY DEF ToSet
  <2>1. \A k \in DOMAIN sub : ToSet(all[k]) \subseteq {batch(PeerOf(sub[k]))}
    <3> HIDE DEF all, first
    <3>. QED BY <1>9, <2>0
  <2>2. \A k \in DOMAIN sub : ~first(k) => ToSet(all[k]) = {}
    <3> HIDE DEF all, first
    <3>. QED BY <1>9, <2>0
  <2>3. first(i) /\ first(j) => PeerOf(sub[i]) # PeerOf(sub[j])
    <3>1. i \in Nat /\ j \in Nat /\ 1 <= i /\ 1 <= j
      BY <1>2
    <3>2. i \in 1 .. j - 1 \/ j \in 1 .. i - 1
      BY <1>10, <3>1
    <3>. QED BY <3>2
  <2> HIDE DEF all, first
  <2>. QED BY <1>7, <2>1, <2>2, <2>3
<1>11. \A k \in DOMAIN sub : Len(all[k]) <= 1
  <2> HIDE DEF first
  <2>1. Len(<<>>) <= 1 /\ \A x : Len(<< x >>) <= 1
    OBVIOUS
  <2> HIDE DEF all
  <2>. QED BY <1>9, <2>1
<1> HIDE DEF all, Good
<1>12. \A m, n \in DOMAIN FlattenSeq(all) : m # n => FlattenSeq(all)[m] # FlattenSeq(all)[n]
  BY <1>8, <1>10, <1>11, FlattenApart
<1>13. \A n \in DOMAIN FlattenSeq(all) : FlattenSeq(all)[n] \in Good
  <2>1. FlattenSeq(all) \in Seq(Good)
    BY <1>8, FlattenHolds
  <2>. QED BY <2>1, LenProperties
<1>14. \A n \in DOMAIN FlattenSeq(all) : \E p : FlattenSeq(all)[n] = batch(p)
  BY <1>13 DEF Good
<1>. QED
  BY <1>1, <1>5, <1>6, <1>7, <1>12, <1>14

-----------------------------------------------------------------------------
(***************************************************************************)
(* Each action of the run keeps what the ranks wait for.                   *)
(***************************************************************************)
\* A rank between two steps of its order.
LEMMA BetweenSteps ==
    ASSUME NEW r \in Ranks, status'[r] = "run", batches'[r] = <<>>, Accounted(r)', Posed(r)'
    PROVE  Waited(r)'
<1>1. Unblocked(r)' /\ Released(r)'
  BY DEF Unblocked, Released
<1>2. Apart(r)'
  BY DEF Apart
<1>. QED BY <1>1, <1>2 DEF Waited

\* A blocking operation is one the rank waits for.
LEMMA OpAccounted ==
    ASSUME TypeOK, FlightInv, WaitInv, NEW r \in Ranks, NEW lane, NEW peer, NEW op \in Ops,
           Completed(r, waiting[r]), Post(r, lane, peer, << op >>),
           waiting' = [waiting EXCEPT ![r] = {op}], UNCHANGED << cfg, handles >>,
           sends' = sends
    PROVE  /\ Accounted(r)' /\ DOMAIN sends' = Ranks
           /\ \A q \in Ranks \ {r} : InFlight(q)' \subseteq InFlight(q)
<1> DEFINE ops == << op >>
<1>1. StateTypes /\ waiting'[r] = {op} /\ DOMAIN sends = Ranks
  BY DEF FlightInv, StateTypes, WaitInv
<1>2. ops \in Seq(Ops) /\ ToSet(ops) = {op} /\ Post(r, lane, peer, ops)
  BY DEF ToSet
<1> HIDE DEF ops
<1>3. /\ InFlight(r)' \subseteq InFlight(r) \cup {op}
      /\ \A q \in Ranks \ {r} : InFlight(q)' \subseteq InFlight(q)
  BY <1>1, <1>2, Posted
<1>4. \A o \in InFlight(r) : Covered(r, o)
  BY DEF WaitInv, Waited, Accounted, Completed
<1>5. Accounted(r)'
  BY <1>1, <1>3, <1>4 DEF Accounted, Covered
<1>. QED BY <1>1, <1>3, <1>5

LEMMA ExchangeMetaWait ==
    ASSUME TypeOK, FlightInv, WaitInv, NEW r \in Ranks, ExchangeMeta(r)
    PROVE  WaitInv'
<1>1. PICK k \in DOMAIN Building(r) :
          /\ Post(r, "world", PeerOf(Building(r)[k]), << MetaOp(r, Building(r)[k]) >>)
          /\ waiting' = [waiting EXCEPT ![r] = {MetaOp(r, Building(r)[k])}]
  BY DEF ExchangeMeta
<1> DEFINE op == MetaOp(r, Building(r)[k])
<1>2. /\ AtBuild(r)
      /\ UNCHANGED << cfg, orders, status, iter, pc, part, bnd, batches, handles, sends >>
  BY DEF ExchangeMeta
<1>3. Completed(r, waiting[r]) /\ status[r] = "run" /\ DOMAIN waiting = Ranks
  BY <1>2, AtItsStep DEF AtBuild, FlightInv, StateTypes
<1>4. op \in Ops
  BY <1>2, MetaOps
<1>5. /\ Accounted(r)' /\ DOMAIN sends' = Ranks
      /\ \A q \in Ranks \ {r} : InFlight(q)' \subseteq InFlight(q)
  <2>1. Post(r, "world", PeerOf(Building(r)[k]), << op >>) /\ waiting' = [waiting EXCEPT ![r] = {op}]
    BY <1>1
  <2> HIDE DEF op
  <2>. QED BY <1>2, <1>3, <1>4, <2>1, OpAccounted
<1>6. Order(r)' = Order(r) /\ Cur(r)' = Cur(r)
  BY <1>2 DEF Order, Cur
<1>7. Posed(r)' /\ Apart(r)'
  BY <1>2, <1>6 DEF WaitInv, Waited, Posed, Apart, Behind, InBatch, AtBoundary
<1>8. Unblocked(r)' /\ Released(r)'
  BY <1>2, <1>3 DEF Unblocked, Released
<1>9. Waited(r)'
  BY <1>5, <1>7, <1>8 DEF Waited
<1>10. \A q \in Ranks \ {r} : Untouched(q)
  BY <1>1, <1>2, <1>3 DEF Untouched
<1>. QED BY <1>2, <1>5, <1>9, <1>10, RankWait

LEMMA P2PStepWait ==
    ASSUME TypeOK, FlightInv, WaitInv, NEW r \in Ranks, P2PStep(r)
    PROVE  WaitInv'
<1> DEFINE step == Cur(r)
           ops == Posts(r, step)
           recvs == IF step.type \in RecvTypes THEN {RecvKey(step)} ELSE {}
<1>1. /\ AtBuild(r) /\ step.type \in P2PTypes /\ Transfer(r, step) /\ Advance(r)
      /\ UNCHANGED << cfg, orders, status, iter, part, bnd, batches >>
  BY DEF P2PStep, SpecsReady
<1>2. /\ StateTypes /\ Completed(r, waiting[r]) /\ status[r] = "run" /\ step \in MetaSteps
      /\ pc[r] <= Len(Order(r))
  BY <1>1, AtItsStep DEF AtBuild, FlightInv
<1>3. batches[r] = <<>> /\ ~IsOverlap(step)
  BY <1>1, <1>2, NothingBegun DEF P2PTypes, IsOverlap
<1>4. recvs \subseteq ReceiveKeys(step)
  BY DEF ReceiveKeys
<1>5. recvs \cap DOMAIN handles[r] = {}
  BY <1>2, <1>3, <1>4, NotYetPosted
<1>6. ops \in Seq(Ops)
  BY <1>1, <1>2, PostedOps
<1>7. Post(r, TensorLane, PeerOf(step), ops) /\ Route(r, ToSet(ops), recvs)
  BY <1>1 DEF Transfer
<1>8. /\ Tracked(r)' /\ DOMAIN waiting' = Ranks /\ DOMAIN handles' = Ranks
      /\ \A q \in Ranks \ {r} : waiting'[q] = waiting[q] /\ handles'[q] = handles[q]
  BY <1>1, <1>2, Transferred
<1> HIDE DEF ops, recvs
<1>9. /\ Accounted(r)' /\ DOMAIN sends' = Ranks
      /\ DOMAIN handles'[r] \subseteq DOMAIN handles[r] \cup recvs
      /\ \A q \in Ranks \ {r} : InFlight(q)' \subseteq InFlight(q) /\ sends'[q] = sends[q]
  BY <1>1, <1>2, <1>5, <1>6, <1>7, RouteAccounted
<1>10. pc'[r] = pc[r] + 1 /\ \A q \in Ranks \ {r} : pc'[q] = pc[q]
  BY <1>1, <1>2 DEF Advance, StateTypes
<1>11. Posed(r)'
  BY <1>1, <1>2, <1>4, <1>9, <1>10, GoneOn
<1>12. Waited(r)'
  BY <1>1, <1>2, <1>3, <1>9, <1>11, BetweenSteps
<1>13. \A q \in Ranks \ {r} : Untouched(q)
  BY <1>1, <1>8, <1>10 DEF Untouched
<1>. QED BY <1>1, <1>9, <1>12, <1>13, RankWait

LEMMA ComputeStepWait ==
    ASSUME TypeOK, FlightInv, WaitInv, NEW r \in Ranks, ComputeStep(r)
    PROVE  WaitInv'
<1>1. /\ AtStep(r, ComputeTypes) /\ Compute(r, Cur(r)) /\ Advance(r)
      /\ UNCHANGED << cfg, orders, status, iter, part, bnd, batches, waiting, sends, wire >>
  BY DEF ComputeStep
<1>2. /\ StateTypes /\ status[r] = "run" /\ pc[r] <= Len(Order(r)) /\ DOMAIN sends = Ranks
      /\ Cur(r).type \in ComputeTypes
  BY <1>1, AtItsStep DEF FlightInv, WaitInv
<1>3. /\ Accounted(r)' /\ DOMAIN handles'[r] \subseteq DOMAIN handles[r]
      /\ \A q : InFlight(q)' = InFlight(q)
  BY <1>1, ForgetAccounted
<1>4. batches[r] = <<>>
  BY <1>2, NothingBegun DEF ComputeTypes
<1>5. pc'[r] = pc[r] + 1 /\ \A q \in Ranks \ {r} : pc'[q] = pc[q]
  BY <1>1, <1>2 DEF Advance, StateTypes
<1>6. Posed(r)'
  BY <1>1, <1>2, <1>3, <1>5, GoneOn
<1>7. Waited(r)'
  BY <1>1, <1>2, <1>3, <1>4, <1>6, BetweenSteps
<1>8. \A q \in Ranks \ {r} : Untouched(q)
  BY <1>1, <1>2, <1>5 DEF Untouched, Compute, StateTypes
<1>. QED BY <1>1, <1>2, <1>3, <1>7, <1>8, RankWait

LEMMA SubStepWait ==
    ASSUME TypeOK, FlightInv, WaitInv, NEW r \in Ranks, SubStep(r)
    PROVE  WaitInv'
<1>1. PICK k \in 1 .. 2 : /\ SubStepReady(r, k) /\ Compute(r, Cur(r).sub[k])
                          /\ part' = [part EXCEPT ![r] = @ \cup {k}]
  BY DEF SubStep
<1>2. UNCHANGED << cfg, orders, status, iter, pc, bnd, batches, waiting, sends, wire >>
  BY DEF SubStep
<1>3. /\ StateTypes /\ status[r] = "run" /\ pc[r] <= Len(Order(r)) /\ IsOverlap(Cur(r))
      /\ DOMAIN sends = Ranks
  BY <1>1 DEF SubStepReady, AtStep, FlightInv, IsOverlap, WaitInv
<1>4. batches[r] = <<>>
  BY <1>3 DEF FlightInv, Local, InPlace, IsOverlap
<1>5. /\ Accounted(r)' /\ DOMAIN handles'[r] \subseteq DOMAIN handles[r]
      /\ \A q : InFlight(q)' = InFlight(q)
  BY <1>1, <1>2, ForgetAccounted
<1>6. Posed(r)'
  <2>0. Order(r)' = Order(r) /\ Cur(r)' = Cur(r)
    BY <1>2 DEF Order, Cur
  <2>. QED
    BY <1>2, <1>5, <2>0 DEF WaitInv, Waited, Posed, Behind, InBatch, AtBoundary
<1>7. Waited(r)'
  BY <1>2, <1>3, <1>4, <1>5, <1>6, BetweenSteps
<1>8. \A q \in Ranks \ {r} : Untouched(q)
  BY <1>1, <1>2, <1>3 DEF Untouched, Compute, StateTypes
<1>. QED BY <1>2, <1>3, <1>5, <1>7, <1>8, RankWait

\* A receive hoisted to the boundary is none of those posted there before it.
LEMMA BoundaryStepWait ==
    ASSUME TypeOK, FlightInv, WaitInv, NEW r \in Ranks, BoundaryStep(r)
    PROVE  WaitInv'
<1> DEFINE n == bnd[r] + 1
           step == Cur(r).boundary[n]
           ops == Posts(r, step)
           recvs == IF step.type \in RecvTypes THEN {RecvKey(step)} ELSE {}
<1>1. /\ AtBuild(r) /\ IsOverlap(Cur(r)) /\ Building(r) # <<>>
      /\ Transfer(r, Building(r)[1]) /\ bnd' = [bnd EXCEPT ![r] = @ + 1]
      /\ UNCHANGED << cfg, orders, status, iter, pc, part, batches >>
  BY DEF BoundaryStep, SpecsReady
<1>2. /\ StateTypes /\ Completed(r, waiting[r]) /\ status[r] = "run"
      /\ pc[r] <= Len(Order(r)) /\ Cur(r) \in MetaSteps /\ WellFormed(Cur(r))
      /\ bnd[r] \in Nat
  BY <1>1, AtItsStep DEF AtBuild, FlightInv, StateTypes
<1>3. Building(r) = << step >> /\ bnd[r] < Len(Cur(r).boundary)
  BY <1>1 DEF Building, P2PTypes, IsOverlap
<1>4. step \in LeafSteps /\ step.type \in P2PTypes
  BY <1>1, <1>2, <1>3, OverlapParts
<1>5. Transfer(r, step)
  BY <1>1, <1>3
<1>6. /\ n \in DOMAIN Cur(r).boundary /\ n \in Nat /\ DOMAIN Cur(r).boundary \subseteq Nat
      /\ step \in ToSet(Cur(r).boundary)
  <2>1. Cur(r).boundary \in Seq(LeafSteps)
    BY <1>2 DEF MetaSteps
  <2>2. DOMAIN Cur(r).boundary = 1 .. Len(Cur(r).boundary) /\ Len(Cur(r).boundary) \in Nat
    BY <2>1, LenProperties
  <2>3. n \in DOMAIN Cur(r).boundary
    BY <1>2, <1>3, <2>2
  <2>. QED BY <2>2, <2>3 DEF ToSet
<1>7. bnd'[r] = n /\ \A q \in Ranks \ {r} : bnd'[q] = bnd[q]
  BY <1>1, <1>2 DEF StateTypes
<1>8. batches[r] = <<>>
  BY <1>1, <1>2 DEF FlightInv, Local, InPlace, IsOverlap
<1>9. \A a \in DOMAIN Cur(r).boundary : a <= bnd[r] => a <= n /\ a # n
  BY <1>2, <1>6
<1>10. n <= n
  BY <1>6
<1> HIDE DEF n
<1>11. recvs \subseteq ReceiveKeys(Cur(r))
  BY <1>6 DEF ReceiveKeys
<1>12. recvs \cap DOMAIN handles[r] = {}
  <2> SUFFICES ASSUME step.type \in RecvTypes, RecvKey(step) \in DOMAIN handles[r] PROVE FALSE
    OBVIOUS
  <2>1. /\ ~Behind(r, RecvKey(step))
        /\ \A a, b \in DOMAIN Cur(r).boundary :
               a # b => RecvKey(Cur(r).boundary[a]) # RecvKey(Cur(r).boundary[b])
    BY <1>2, <1>11, ReceivedOnce
  <2>2. ~InBatch(r, RecvKey(step))
    BY <1>8 DEF InBatch
  <2>3. AtBoundary(r, RecvKey(step))
    BY <1>2, <2>1, <2>2 DEF WaitInv, Waited, Posed
  <2>4. PICK a \in DOMAIN Cur(r).boundary :
            a <= bnd[r] /\ RecvKey(step) = RecvKey(Cur(r).boundary[a])
    BY <2>3 DEF AtBoundary
  <2>. QED BY <1>6, <1>9, <2>1, <2>4
<1>13. ops \in Seq(Ops)
  BY <1>2, <1>4, PostedOps
<1>14. Post(r, TensorLane, PeerOf(step), ops) /\ Route(r, ToSet(ops), recvs)
  BY <1>5 DEF Transfer
<1>15. /\ DOMAIN waiting' = Ranks /\ DOMAIN handles' = Ranks
       /\ \A q \in Ranks \ {r} : waiting'[q] = waiting[q] /\ handles'[q] = handles[q]
  <2> HIDE DEF step
  <2>. QED BY <1>1, <1>2, <1>4, <1>5, Transferred
<1>16. /\ Accounted(r)' /\ DOMAIN sends' = Ranks
       /\ DOMAIN handles'[r] \subseteq DOMAIN handles[r] \cup recvs
       /\ \A q \in Ranks \ {r} : InFlight(q)' \subseteq InFlight(q) /\ sends'[q] = sends[q]
  <2> HIDE DEF ops, recvs
  <2>. QED BY <1>1, <1>2, <1>12, <1>13, <1>14, RouteAccounted
<1>17. Posed(r)'
  <2>0. Order(r)' = Order(r) /\ Cur(r)' = Cur(r) /\ pc'[r] = pc[r]
    BY <1>1 DEF Order, Cur
  <2>1. \A k : Behind(r, k) => Behind(r, k)'
    BY <2>0 DEF Behind
  <2>2. \A k : AtBoundary(r, k) => AtBoundary(r, k)'
    BY <1>7, <1>9, <2>0 DEF AtBoundary
  <2>3. \A k \in recvs : AtBoundary(r, k)'
    BY <1>1, <1>2, <1>6, <1>7, <1>10, <2>0 DEF AtBoundary
  <2>4. \A k : ~InBatch(r, k)
    BY <1>8 DEF InBatch
  <2> HIDE DEF recvs
  <2>. QED
    BY <1>2, <1>16, <2>1, <2>2, <2>3, <2>4 DEF WaitInv, Waited, Posed
<1>18. Waited(r)'
  BY <1>1, <1>2, <1>8, <1>16, <1>17, BetweenSteps
<1>19. \A q \in Ranks \ {r} : Untouched(q)
  BY <1>1, <1>15 DEF Untouched
<1>. QED BY <1>1, <1>7, <1>16, <1>18, <1>19, RankWait

LEMMA BatchBuildWait ==
    ASSUME TypeOK, FlightInv, WaitInv, NEW r \in Ranks, BatchBuild(r)
    PROVE  WaitInv'
<1> DEFINE new == PeerBatches(r)
<1>1. /\ AtBuild(r) /\ Cur(r).type = "BATCH_SEND_RECV" /\ batches[r] = <<>>
      /\ batches' = [batches EXCEPT ![r] = new]
      /\ pc' = IF new = <<>> THEN [pc EXCEPT ![r] = @ + 1] ELSE pc
      /\ UNCHANGED << cfg, orders, status, iter, part, bnd, waiting, handles, sends, wire >>
  BY DEF BatchBuild, SpecsReady
<1>2. /\ StateTypes /\ status[r] = "run" /\ pc[r] <= Len(Order(r))
      /\ Cur(r) \in MetaSteps /\ DOMAIN sends = Ranks
  BY <1>1, AtItsStep DEF AtBuild, FlightInv, WaitInv
<1>3. Cur(r).sub \in Seq(LeafSteps)
  BY <1>2 DEF MetaSteps
<1>4. \A n \in DOMAIN new :
          /\ new[n].recvs \subseteq ReceiveKeys(Cur(r))
          /\ \A m \in DOMAIN new : m # n => new[m].recvs \cap new[n].recvs = {}
  BY <1>3, BatchesApart
<1> HIDE DEF new
<1>5. ReceiveKeys(Cur(r)) \cap DOMAIN handles[r] = {}
  BY <1>1, <1>2, NotYetPosted DEF IsOverlap
<1>6. /\ batches'[r] = new /\ \A q \in Ranks \ {r} : batches'[q] = batches[q] /\ pc'[q] = pc[q]
  BY <1>1, <1>2 DEF StateTypes
<1>7. \A q : InFlight(q)' = InFlight(q)
  BY <1>1 DEF InFlight
<1>8. Accounted(r)'
  BY <1>1, <1>7 DEF WaitInv, Waited, Accounted, Covered
<1>9. Waited(r)'
  <2>1. CASE new = <<>>
    <3>1. pc'[r] = pc[r] + 1
      BY <1>1, <1>2, <2>1 DEF StateTypes
    <3>2. Posed(r)'
      BY <1>1, <1>2, <3>1, GoneOn
    <3>. QED BY <1>1, <1>2, <1>6, <1>8, <2>1, <3>2, BetweenSteps
  <2>2. CASE new # <<>>
    <3>0. pc' = pc /\ Order(r)' = Order(r) /\ Cur(r)' = Cur(r)
      BY <1>1, <2>2 DEF Order, Cur
    <3>1. \A k \in DOMAIN handles[r] : Behind(r, k)
      BY <1>1, <1>2 DEF WaitInv, Waited, Posed, InBatch, AtBoundary, IsOverlap
    <3>2. Posed(r)'
      BY <1>1, <3>0, <3>1 DEF Posed, Behind
    <3>3. ReceiveKeys(Cur(r))' = ReceiveKeys(Cur(r))
      BY <3>0
    <3>4. Apart(r)'
      BY <1>1, <1>4, <1>5, <1>6, <3>3 DEF Apart
    <3>5. Unblocked(r)' /\ Released(r)'
      BY <1>1, <1>2 DEF Unblocked, Released
    <3>. QED BY <1>8, <3>2, <3>4, <3>5 DEF Waited
  <2>. QED BY <2>1, <2>2
<1>10. \A q \in Ranks \ {r} : Untouched(q)
  BY <1>1, <1>6 DEF Untouched
<1>. QED BY <1>1, <1>2, <1>7, <1>9, <1>10, RankWait

\* The batch a rank issues has no receive of one it issued before.
LEMMA BatchIssueWait ==
    ASSUME TypeOK, FlightInv, WaitInv, NEW r \in Ranks, BatchIssue(r)
    PROVE  WaitInv'
<1> DEFINE b == Head(batches[r])
           rest == Tail(batches[r])
           ops == b.ops
           recvs == b.recvs
<1>1. /\ AtStep(r, {"BATCH_SEND_RECV"}) /\ batches[r] # <<>>
      /\ Post(r, TensorLane, b.peer, b.ops) /\ Route(r, ToSet(b.ops), b.recvs)
      /\ batches' = [batches EXCEPT ![r] = Tail(@)]
      /\ pc' = IF Len(batches[r]) = 1 THEN [pc EXCEPT ![r] = @ + 1] ELSE pc
      /\ UNCHANGED << cfg, orders, status, iter, part, bnd >>
  BY DEF BatchIssue
<1>2. /\ StateTypes /\ Completed(r, waiting[r]) /\ status[r] = "run"
      /\ pc[r] <= Len(Order(r)) /\ Cur(r).type = "BATCH_SEND_RECV"
  BY <1>1, AtItsStep DEF FlightInv
<1>3. /\ b \in PeerBatch /\ b = batches[r][1] /\ 1 \in DOMAIN batches[r]
      /\ rest \in Seq(PeerBatch)
      /\ \A i \in DOMAIN rest : i + 1 \in DOMAIN batches[r] /\ rest[i] = batches[r][i + 1]
      /\ Len(batches[r]) = 1 <=> rest = <<>>
  <2>1. batches[r] \in Seq(PeerBatch)
    BY <1>2 DEF StateTypes
  <2>2. Len(rest) = Len(batches[r]) - 1 /\ Len(batches[r]) \in Nat
    BY <1>1, <2>1, HeadTailProperties, LenProperties
  <2>3. /\ b \in PeerBatch /\ b = batches[r][1] /\ 1 \in DOMAIN batches[r]
        /\ rest \in Seq(PeerBatch)
        /\ \A i \in DOMAIN rest : i + 1 \in DOMAIN batches[r] /\ rest[i] = batches[r][i + 1]
    BY <1>1, <2>1, TailSet
  <2>4. Len(rest) = 0 <=> rest = <<>>
    BY <2>3, EmptySeq
  <2>. QED BY <2>2, <2>3, <2>4
<1>4. \A i, j \in DOMAIN rest : i \in Nat /\ (i # j => i + 1 # j + 1) /\ i + 1 # 1
  <2>1. DOMAIN rest = 1 .. Len(rest) /\ Len(rest) \in Nat
    BY <1>3, LenProperties
  <2>. QED BY <2>1
<1> HIDE DEF b, rest
<1>5. /\ recvs \cap DOMAIN handles[r] = {} /\ recvs \subseteq ReceiveKeys(Cur(r))
      /\ \A i \in DOMAIN rest :
             /\ rest[i].recvs \cap DOMAIN handles[r] = {}
             /\ rest[i].recvs \subseteq ReceiveKeys(Cur(r))
             /\ rest[i].recvs \cap recvs = {}
             /\ \A j \in DOMAIN rest : j # i => rest[j].recvs \cap rest[i].recvs = {}
  <2>1. \A n \in DOMAIN batches[r] :
            /\ batches[r][n].recvs \cap DOMAIN handles[r] = {}
            /\ batches[r][n].recvs \subseteq ReceiveKeys(Cur(r))
            /\ \A m \in DOMAIN batches[r] :
                  m # n => batches[r][m].recvs \cap batches[r][n].recvs = {}
    BY <1>2 DEF WaitInv, Waited, Apart
  <2>2. recvs \cap DOMAIN handles[r] = {} /\ recvs \subseteq ReceiveKeys(Cur(r))
    BY <1>3, <2>1
  <2>3. ASSUME NEW i \in DOMAIN rest
        PROVE  /\ rest[i].recvs \cap DOMAIN handles[r] = {}
               /\ rest[i].recvs \subseteq ReceiveKeys(Cur(r))
               /\ rest[i].recvs \cap recvs = {}
    BY <1>3, <1>4, <2>1
  <2>4. ASSUME NEW i \in DOMAIN rest, NEW j \in DOMAIN rest, j # i
        PROVE  rest[j].recvs \cap rest[i].recvs = {}
    BY <1>3, <1>4, <2>1, <2>4
  <2>. QED BY <2>2, <2>3, <2>4
<1>6. ops \in Seq(Ops) /\ Post(r, TensorLane, b.peer, ops) /\ Route(r, ToSet(ops), recvs)
  BY <1>1, <1>3 DEF PeerBatch, b
<1> HIDE DEF ops, recvs
<1>7. /\ Accounted(r)' /\ DOMAIN sends' = Ranks
      /\ DOMAIN handles'[r] \subseteq DOMAIN handles[r] \cup recvs
      /\ \A q \in Ranks \ {r} : InFlight(q)' \subseteq InFlight(q) /\ sends'[q] = sends[q]
  BY <1>1, <1>2, <1>5, <1>6, RouteAccounted
<1>8. \A q \in Ranks \ {r} : waiting'[q] = waiting[q] /\ handles'[q] = handles[q]
  BY <1>1, <1>2 DEF Route, StateTypes
<1>9. /\ batches'[r] = rest
      /\ \A q \in Ranks \ {r} : batches'[q] = batches[q] /\ pc'[q] = pc[q]
  BY <1>1, <1>2 DEF StateTypes, rest
<1>10. Waited(r)'
  <2>1. CASE rest = <<>>
    <3>1. pc'[r] = pc[r] + 1
      BY <1>1, <1>2, <1>3, <2>1 DEF StateTypes
    <3>2. Posed(r)'
      BY <1>1, <1>2, <1>5, <1>7, <3>1, GoneOn
    <3>. QED BY <1>1, <1>2, <1>7, <1>9, <2>1, <3>2, BetweenSteps
  <2>2. CASE rest # <<>>
    <3>0. pc' = pc /\ Order(r)' = Order(r) /\ Cur(r)' = Cur(r)
      BY <1>1, <1>3, <2>2 DEF Order, Cur
    <3>1. \A k \in DOMAIN handles[r] : Behind(r, k) \/ k \in ReceiveKeys(Cur(r))
      BY <1>2 DEF WaitInv, Waited, Posed, InBatch, AtBoundary, IsOverlap
    <3>2. ReceiveKeys(Cur(r))' = ReceiveKeys(Cur(r))
      BY <3>0
    <3>3. Posed(r)'
      BY <1>2, <1>5, <1>7, <1>9, <2>2, <3>0, <3>1, <3>2 DEF Posed, Behind, InBatch
    <3>4. Apart(r)'
      BY <1>5, <1>7, <1>9, <3>2 DEF Apart
    <3>5. Unblocked(r)' /\ Released(r)'
      BY <1>1, <1>2 DEF Unblocked, Released
    <3>. QED BY <1>7, <3>3, <3>4, <3>5 DEF Waited
  <2>. QED BY <2>1, <2>2
<1>11. \A q \in Ranks \ {r} : Untouched(q)
  BY <1>1, <1>8, <1>9 DEF Untouched
<1>. QED BY <1>1, <1>7, <1>10, <1>11, RankWait

LEMMA OverlapEndWait ==
    ASSUME TypeOK, FlightInv, WaitInv, NEW r \in Ranks, OverlapEnd(r)
    PROVE  WaitInv'
<1>1. /\ AtStep(r, {"OVERLAP_B_F"}) /\ Advance(r)
      /\ part' = [part EXCEPT ![r] = {}] /\ bnd' = [bnd EXCEPT ![r] = 0]
      /\ UNCHANGED << cfg, orders, status, iter, batches, waiting, handles, sends, wire >>
  BY DEF OverlapEnd
<1>2. /\ StateTypes /\ status[r] = "run" /\ pc[r] <= Len(Order(r))
      /\ Cur(r).type = "OVERLAP_B_F" /\ DOMAIN sends = Ranks
  BY <1>1, AtItsStep DEF FlightInv, WaitInv
<1>3. batches[r] = <<>>
  BY <1>2 DEF FlightInv, Local, InPlace
<1>4. \A q : InFlight(q)' = InFlight(q)
  BY <1>1 DEF InFlight
<1>5. pc'[r] = pc[r] + 1 /\ \A q \in Ranks \ {r} : pc'[q] = pc[q]
  BY <1>1, <1>2 DEF Advance, StateTypes
<1>6. Accounted(r)'
  BY <1>1, <1>4 DEF WaitInv, Waited, Accounted, Covered
<1>7. Posed(r)'
  BY <1>1, <1>2, <1>5, GoneOn
<1>8. Waited(r)'
  BY <1>1, <1>2, <1>3, <1>6, <1>7, BetweenSteps
<1>9. \A q \in Ranks \ {r} : Untouched(q) /\ bnd'[q] = bnd[q]
  BY <1>1, <1>2, <1>5 DEF Untouched, StateTypes
<1>. QED BY <1>1, <1>2, <1>4, <1>8, <1>9, RankWait

LEMMA DataLoadWait ==
    ASSUME TypeOK, FlightInv, WaitInv, NEW r \in Ranks, DataLoad(r)
    PROVE  WaitInv'
<1>1. /\ AtStep(r, {"DATA_LOAD"}) /\ Advance(r)
      /\ UNCHANGED << cfg, orders, status, iter, part, bnd, batches, waiting, handles, sends, wire >>
  BY DEF DataLoad
<1>2. /\ StateTypes /\ status[r] = "run" /\ pc[r] <= Len(Order(r))
      /\ Cur(r).type = "DATA_LOAD" /\ DOMAIN sends = Ranks
  BY <1>1, AtItsStep DEF FlightInv, WaitInv
<1>3. batches[r] = <<>>
  BY <1>2, NothingBegun
<1>4. \A q : InFlight(q)' = InFlight(q)
  BY <1>1 DEF InFlight
<1>5. pc'[r] = pc[r] + 1 /\ \A q \in Ranks \ {r} : pc'[q] = pc[q]
  BY <1>1, <1>2 DEF Advance, StateTypes
<1>6. Accounted(r)'
  BY <1>1, <1>4 DEF WaitInv, Waited, Accounted, Covered
<1>7. Posed(r)'
  BY <1>1, <1>2, <1>5, GoneOn
<1>8. Waited(r)'
  BY <1>1, <1>2, <1>3, <1>6, <1>7, BetweenSteps
<1>9. \A q \in Ranks \ {r} : Untouched(q)
  BY <1>1, <1>5 DEF Untouched
<1>. QED BY <1>1, <1>2, <1>4, <1>8, <1>9, RankWait

LEMMA DataTransferWait ==
    ASSUME TypeOK, FlightInv, WaitInv, NEW r \in Ranks, DataTransfer(r)
    PROVE  WaitInv'
<1> DEFINE m == Cur(r).micro
           sending == Cur(r).type = "DATA_SEND"
           dir == IF sending THEN "send" ELSE "recv"
           op == Op(dir, Tensor(r, "data", 0, m))
           peer == (IF sending THEN r + 1 ELSE r + cfg.R - 1) % cfg.R
<1>1. /\ AtStep(r, {"DATA_SEND", "DATA_RECV"}) /\ Advance(r)
      /\ Post(r, "world", peer, << op >>)
      /\ waiting' = [waiting EXCEPT ![r] = {op}]
      /\ UNCHANGED << cfg, orders, status, iter, part, bnd, batches, handles, sends >>
  BY DEF DataTransfer
<1>2. /\ StateTypes /\ status[r] = "run" /\ Cur(r).type \in {"DATA_SEND", "DATA_RECV"}
      /\ Cur(r) \in MetaSteps /\ Completed(r, waiting[r]) /\ pc[r] <= Len(Order(r))
  BY <1>1, AtItsStep DEF FlightInv
<1>3. op \in Ops
  <2>1. m \in Nat /\ dir \in {"send", "recv"}
    BY <1>2 DEF MetaSteps
  <2> HIDE DEF m, dir
  <2>. QED BY <2>1, DataOps
<1> HIDE DEF op, peer
<1>4. /\ Accounted(r)' /\ DOMAIN sends' = Ranks
      /\ \A q \in Ranks \ {r} : InFlight(q)' \subseteq InFlight(q)
  BY <1>1, <1>2, <1>3, OpAccounted
<1>5. batches[r] = <<>>
  BY <1>2, NothingBegun
<1>6. pc'[r] = pc[r] + 1 /\ \A q \in Ranks \ {r} : pc'[q] = pc[q]
  BY <1>1, <1>2 DEF Advance, StateTypes
<1>7. Posed(r)'
  BY <1>1, <1>2, <1>6, GoneOn
<1>8. Waited(r)'
  BY <1>1, <1>2, <1>4, <1>5, <1>7, BetweenSteps
<1>9. \A q \in Ranks \ {r} : Untouched(q)
  BY <1>1, <1>2, <1>6 DEF Untouched, StateTypes
<1>. QED BY <1>1, <1>4, <1>8, <1>9, RankWait

\* A step that only moves a rank out of its order, blocked on nothing.
LEMMA StatusWait ==
    ASSUME TypeOK, FlightInv, WaitInv, NEW r \in Ranks, NEW x \in {"sync", "drain", "unwind"},
           status' = [status EXCEPT ![r] = x], Completed(r, waiting[r]),
           UNCHANGED << cfg, orders, iter, pc, part, bnd, batches, waiting, handles, sends, wire >>
    PROVE  WaitInv'
<1>1. /\ status'[r] = x /\ \A q \in Ranks \ {r} : status'[q] = status[q]
      /\ DOMAIN sends = Ranks
  BY DEF TypeOK, WaitInv
<1>2. \A q : InFlight(q)' = InFlight(q)
  BY DEF InFlight
<1>3. Accounted(r)'
  BY <1>2 DEF WaitInv, Waited, Accounted, Covered
<1>4. Unblocked(r)' /\ Released(r)' /\ Posed(r)' /\ Apart(r)'
  BY <1>1, <1>2 DEF Unblocked, Released, Posed, Apart, Completed
<1>5. Waited(r)'
  BY <1>3, <1>4 DEF Waited
<1>6. \A q \in Ranks \ {r} : Untouched(q)
  BY <1>1 DEF Untouched
<1>. QED BY <1>1, <1>2, <1>5, <1>6, RankWait

\* An exception leaves an overlap under a callback when both its threads have
\* ended, so no operation the rank is blocked on is left to them.
LEMMA StepErrorWait ==
    ASSUME TypeOK, FlightInv, WaitInv, NEW r \in Ranks, StepError(r)
    PROVE  WaitInv'
<1>1. /\ BuildRaises(r) \/ ComputeRaises(r) \/ DataRaises(r)
      /\ cfg.cb /\ IsOverlap(Cur(r)) => Joined(r)
  BY DEF StepError
<1>2. BuildRaises(r) \/ DataRaises(r) => Completed(r, waiting[r])
  BY DEF BuildRaises, DataRaises, AtBuild, AtStep
<1>3. Completed(r, waiting[r])
  <2>1. CASE cfg.cb /\ IsOverlap(Cur(r)) /\ 2 \in part[r]
    BY <1>1, <2>1 DEF Joined
  <2>2. CASE ~(cfg.cb /\ IsOverlap(Cur(r)) /\ 2 \in part[r])
    <3>1. ComputeRaises(r) => Completed(r, waiting[r])
      BY <2>2 DEF ComputeRaises, SubStepReady, AtStep
    <3>. QED BY <1>1, <1>2, <3>1
  <2>. QED BY <2>1, <2>2
<1>. QED
  BY <1>3, StatusWait DEF StepError

LEMMA LastStepWait ==
    ASSUME TypeOK, FlightInv, WaitInv, NEW r \in Ranks, LastStep(r)
    PROVE  WaitInv'
<1>1. CASE r \in cfg.shared
  BY <1>1, StatusWait DEF LastStep
<1>2. CASE r \notin cfg.shared
  BY <1>2, StatusWait DEF LastStep
<1>. QED BY <1>1, <1>2

\* The drain waits for every handle, and an operation in flight has one.
LEMMA DrainWait ==
    ASSUME TypeOK, FlightInv, WaitInv, NEW r \in Ranks, Drain(r)
    PROVE  WaitInv'
<1>1. /\ status[r] \in {"drain", "unwind"}
      /\ Completed(r, sends[r] \cup UNION Range(handles[r]))
      /\ status' = [status EXCEPT ![r] = IF @ = "drain" THEN "done" ELSE "raised"]
      /\ sends' = [sends EXCEPT ![r] = {}]
      /\ handles' = [handles EXCEPT ![r] = <<>>]
      /\ UNCHANGED << cfg, orders, iter, pc, part, bnd, batches, waiting, wire >>
  BY DEF Drain
<1>2. StateTypes /\ DOMAIN sends = Ranks /\ DOMAIN sends' = Ranks
  BY <1>1 DEF FlightInv, WaitInv
<1>3. /\ status'[r] \in {"done", "raised"} /\ handles'[r] = <<>>
      /\ \A q \in Ranks \ {r} : /\ status'[q] = status[q] /\ handles'[q] = handles[q]
                                /\ sends'[q] = sends[q]
  BY <1>1, <1>2 DEF TypeOK, StateTypes
<1>4. InFlight(r) = {}
  <2> SUFFICES ASSUME NEW o \in InFlight(r) PROVE FALSE
    OBVIOUS
  <2>1. o \notin waiting[r]
    BY <1>1 DEF WaitInv, Waited, Unblocked, Completed
  <2>2. Covered(r, o)
    BY <2>1 DEF WaitInv, Waited, Accounted
  <2>3. o \in sends[r] \cup UNION Range(handles[r])
    BY <2>2 DEF Covered, Range
  <2>. QED BY <1>1, <2>3 DEF Completed
<1>5. \A q : InFlight(q)' = InFlight(q)
  BY <1>1 DEF InFlight
<1>6. Waited(r)'
  <2>1. Accounted(r)'
    BY <1>4, <1>5 DEF Accounted
  <2>2. DOMAIN handles'[r] = {}
    BY <1>3
  <2>3. Unblocked(r)' /\ Released(r)' /\ Posed(r)' /\ Apart(r)'
    BY <1>3, <1>4, <1>5, <2>2 DEF Unblocked, Released, Posed, Apart
  <2>. QED BY <2>1, <2>3 DEF Waited
<1>7. \A q \in Ranks \ {r} : Untouched(q)
  BY <1>1, <1>3 DEF Untouched
<1>. QED BY <1>1, <1>2, <1>3, <1>5, <1>6, <1>7, RankWait

\* The next call starts with nothing in flight and no handle.
LEMMA NextIterationWait ==
    ASSUME TypeOK, FlightInv, WaitInv, NEW r \in Ranks, NextIteration(r)
    PROVE  WaitInv'
<1>1. /\ status[r] = "done" /\ status' = [status EXCEPT ![r] = "run"]
      /\ iter' = [iter EXCEPT ![r] = @ + 1] /\ pc' = [pc EXCEPT ![r] = 1]
      /\ waiting' = [waiting EXCEPT ![r] = {}]
      /\ UNCHANGED << cfg, orders, part, bnd, batches, handles, sends, wire >>
  BY DEF NextIteration
<1>2. /\ StateTypes /\ status'[r] = "run" /\ DOMAIN sends = Ranks
      /\ \A q \in Ranks \ {r} : /\ status'[q] = status[q] /\ iter'[q] = iter[q]
                                /\ pc'[q] = pc[q] /\ waiting'[q] = waiting[q]
  BY <1>1 DEF FlightInv, TypeOK, StateTypes, WaitInv
<1>3. \A q : InFlight(q)' = InFlight(q)
  BY <1>1 DEF InFlight
<1>4. batches[r] = <<>> /\ InFlight(r) = {} /\ DOMAIN handles[r] = {}
  BY <1>1 DEF FlightInv, Local, InPlace, WaitInv, Waited, Released
<1>5. Accounted(r)' /\ Posed(r)'
  BY <1>1, <1>3, <1>4 DEF Accounted, Posed
<1>6. Waited(r)'
  BY <1>1, <1>2, <1>4, <1>5, BetweenSteps
<1>7. \A q \in Ranks \ {r} : Untouched(q)
  BY <1>1, <1>2 DEF Untouched
<1>. QED BY <1>1, <1>2, <1>3, <1>6, <1>7, RankWait

LEMMA SyncWait ==
    ASSUME TypeOK, FlightInv, WaitInv, SyncSharedParametersGrad
    PROVE  WaitInv'
<1>1. /\ \A r \in cfg.shared : status[r] = "sync"
      /\ status' = [r \in Ranks |-> IF r \in cfg.shared THEN "drain" ELSE status[r]]
      /\ UNCHANGED << cfg, orders, iter, pc, part, bnd, batches, waiting, handles, sends, wire >>
  BY DEF SyncSharedParametersGrad
<1>2. Ranks' = Ranks /\ DOMAIN sends = Ranks
  BY <1>1 DEF WaitInv, Ranks
<1>3. \A q : InFlight(q)' = InFlight(q)
  BY <1>1 DEF InFlight
<1>4. ASSUME NEW q \in Ranks PROVE Waited(q)'
  <2>1. CASE q \in cfg.shared
    <3>1. status[q] = "sync" /\ status'[q] = "drain"
      BY <1>1, <2>1
    <3>2. Accounted(q)'
      BY <1>1, <1>3 DEF WaitInv, Waited, Accounted, Covered
    <3>3. Unblocked(q)' /\ Released(q)' /\ Posed(q)' /\ Apart(q)'
      BY <1>1, <1>3, <3>1 DEF WaitInv, Waited, Unblocked, Released, Posed, Apart, Completed
    <3>. QED BY <3>2, <3>3 DEF Waited
  <2>2. CASE q \notin cfg.shared
    BY <1>1, <1>3, <2>2, WaitKept DEF WaitInv, Untouched
  <2>. QED BY <2>1, <2>2
<1>. QED
  BY <1>1, <1>2, <1>4 DEF WaitInv

LEMMA TransportWait ==
    ASSUME TypeOK, FlightInv, WaitInv, Transport
    PROVE  WaitInv'
<1>1. PICK lane \in Lanes, r \in Ranks, p \in Ranks : r # p /\ Match(lane, r, p)
  BY DEF Transport
<1>2. UNCHANGED << cfg, orders, status, iter, pc, part, bnd, batches, waiting, handles, sends >>
  BY <1>1 DEF Match, locals
<1>3. \A q : InFlight(q)' \subseteq InFlight(q)
  BY <1>1, Matched DEF FlightInv
<1>4. Ranks' = Ranks /\ \A q \in Ranks : Waited(q)'
  BY <1>2, <1>3, WaitKept DEF WaitInv, Untouched, Ranks
<1>. QED BY <1>2, <1>4 DEF WaitInv

LEMMA StutterWait ==
    ASSUME WaitInv, UNCHANGED vars
    PROVE  WaitInv'
<1>1. UNCHANGED << cfg, orders, status, iter, pc, part, bnd, batches, waiting, handles, sends, wire >>
  BY DEF vars, locals
<1>2. \A q : InFlight(q)' = InFlight(q)
  BY <1>1 DEF InFlight
<1>3. Ranks' = Ranks /\ \A q \in Ranks : Waited(q)'
  BY <1>1, <1>2, WaitKept DEF WaitInv, Untouched, Ranks
<1>. QED BY <1>1, <1>3 DEF WaitInv

LEMMA InitWait == Init => WaitInv
<1> SUFFICES ASSUME Init PROVE WaitInv
  OBVIOUS
<1>1. \A q \in Ranks : InFlight(q) = {}
  BY DEF Init, InFlight
<1>2. \A q \in Ranks : Waited(q)
  BY <1>1 DEF Init, Waited, Accounted, Unblocked, Released, Posed, Apart
<1>. QED BY <1>2 DEF WaitInv, Init

LEMMA RankStepWait ==
    ASSUME TypeOK, FlightInv, WaitInv, NEW r \in Ranks, RankStep(r)
    PROVE  WaitInv'
  BY ExchangeMetaWait, P2PStepWait, BatchBuildWait, BatchIssueWait, ComputeStepWait,
     SubStepWait, BoundaryStepWait, OverlapEndWait, DataLoadWait, DataTransferWait,
     StepErrorWait, LastStepWait, DrainWait, NextIterationWait DEF RankStep

LEMMA NextWait ==
    ASSUME TypeOK, FlightInv, WaitInv, [Next]_vars
    PROVE  WaitInv'
<1>1. ASSUME NEW r \in Ranks, RankStep(r) PROVE WaitInv'
  BY <1>1, RankStepWait
<1>2. CASE Transport
  BY <1>2, TransportWait
<1>3. CASE SyncSharedParametersGrad
  BY <1>3, SyncWait
<1>4. CASE Terminated \/ UNCHANGED vars
  BY <1>4, StutterWait DEF Terminated
<1>. QED
  BY <1>1, <1>2, <1>3, <1>4 DEF Next

LEMMA WaitInvariance == Spec => [](Inv /\ FlightInv /\ WaitInv)
<1>1. Inv /\ FlightInv /\ WaitInv /\ [Next]_vars => (Inv /\ FlightInv /\ WaitInv)'
  BY NextInv, NextFlight, NextWait DEF Inv
<1>. QED
  BY <1>1, InitInv, InitFlight, InitWait, PTL DEF Spec

\* A rank whose step raised has waited for every operation it issued when run()
\* hands the exception on (_drain_inflight_p2p): its handles covered them all.
THEOREM RaisedHasWaited == Spec => []RaisedReleases
<1>1. Inv /\ FlightInv /\ WaitInv => RaisedReleases
  BY DEF WaitInv, Waited, Released, RaisedReleases
<1>. QED
  BY <1>1, WaitInvariance, PTL
=============================================================================
