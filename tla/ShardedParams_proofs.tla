------------------------ MODULE ShardedParams_proofs ------------------------
(*****************************************************************************)
(* That no gradient is lost or counted twice on its way from autograd to     *)
(* the optimizer, and that the optimizer's step finds all of them fully      *)
(* reduced, for every number of units, of micro-batches and of steps and     *)
(* every configuration; and that units compute with fresh parameters, where  *)
(* no unit is skipped that others prefetch or keep gathered.                 *)
(*                                                                           *)
(* GradientsConserved compares a sum of bags with what autograd produced.    *)
(* The proof counts instead: Kept is how many copies of one micro-batch's    *)
(* gradient a unit's buffers hold, and every helper of a hook is shown to    *)
(* keep it (Moved).  That needs to know which buffers can be occupied        *)
(* together (Placed): a unit is in one queue or in none, a queued unit has   *)
(* its output where that queue says, and what is reduced has no second       *)
(* source beside it.  Placed breaks if autograd adds to a gradient that is   *)
(* being reduced, so the invariant also follows the calls to come (Ahead):   *)
(* a unit whose reduction has begun gets no gradient in the rest of the      *)
(* pass, and the root's hook, which ends every reduction, is still ahead.    *)
(*                                                                           *)
(* For StepSeesAll it is not enough that nothing is lost: everything has to  *)
(* be in main, reduced over the right groups.  StepInv says which buffers a  *)
(* configuration leaves empty (Lane) and, once the last micro-batch goes     *)
(* backward, that each unit it used has a gradient to come, or one a hook    *)
(* ahead will reduce (Loaded), or was handed to a reduction that goes all    *)
(* the way (Through).  The helpers keep that (Carried), a backward prepares  *)
(* each unit before its gradient (Prepared), and the root's hook ends it.    *)
(*                                                                           *)
(* For ComputesFresh the invariant follows the parameters: what is gathered, *)
(* or on its way, has the newest version (Current); a call to come that uses *)
(* a unit finds it gathered or comes after one that gathers it, and none     *)
(* that needs it comes after the one that frees it (Left, from how the calls *)
(* of a pass are woven); a gather under way is for a unit whose own hook is  *)
(* still ahead, so that none outlives its pass; and when the optimizer steps *)
(* every unit is resharded (Resharded, AtRest), so nothing becomes stale.    *)
(*****************************************************************************)
EXTENDS ShardedParams, SequenceTheorems, FiniteSetTheorems, NaturalsInduction, TLAPS

-----------------------------------------------------------------------------
(* Bags are equal when they hold the same copies. *)

BagsOver(X) == UNION {[D -> Nat \ {0}] : D \in SUBSET X}
Levels == {"shards", "replicas"}
MicroBags == BagsOver(Int)
LevelBags == BagsOver(Int \X Levels)
Copies(e, b) == IF e \in DOMAIN b THEN b[e] ELSE 0

LEMMA BagFacts ==
    ASSUME NEW X, NEW b \in BagsOver(X)
    PROVE  /\ DOMAIN b \subseteq X /\ b \in [DOMAIN b -> Nat \ {0}]
           /\ \A e : Copies(e, b) \in Nat
           /\ \A e : Copies(e, b) = 0 <=> e \notin DOMAIN b
<1>1. PICK D \in SUBSET X : b \in [D -> Nat \ {0}]
  BY DEF BagsOver
<1>2. D = DOMAIN b
  BY <1>1
<1>3. \A e \in DOMAIN b : b[e] \in Nat \ {0}
  BY <1>1, <1>2
<1>. QED
  BY <1>1, <1>2, <1>3 DEF Copies

LEMMA NoCopies ==
    ASSUME NEW X
    PROVE  EmptyBag \in BagsOver(X) /\ DOMAIN EmptyBag = {} /\ \A e : Copies(e, EmptyBag) = 0
<1>1. DOMAIN EmptyBag = {} /\ EmptyBag \in [{} -> Nat \ {0}]
  BY DEF EmptyBag, SetToBag
<1>. QED
  BY <1>1 DEF BagsOver, Copies, BagIn, BagToSet

LEMMA IsEmpty ==
    ASSUME NEW X, NEW b \in BagsOver(X)
    PROVE  b = EmptyBag <=> DOMAIN b = {}
<1>1. DOMAIN EmptyBag = {} /\ EmptyBag = [e \in {} |-> 1]
  BY DEF EmptyBag, SetToBag
<1>2. b = [e \in DOMAIN b |-> b[e]]
  BY BagFacts
<1>3. ASSUME DOMAIN b = {} PROVE b = EmptyBag
  BY <1>1, <1>2, <1>3
<1>. QED
  BY <1>1, <1>3

LEMMA SumCopies ==
    ASSUME NEW X, NEW a \in BagsOver(X), NEW b \in BagsOver(X)
    PROVE  /\ a (+) b \in BagsOver(X)
           /\ \A e : Copies(e, a (+) b) = Copies(e, a) + Copies(e, b)
           /\ a (+) b = EmptyBag <=> a = EmptyBag /\ b = EmptyBag
<1> DEFINE D == DOMAIN a \cup DOMAIN b
           c == a (+) b
<1>1. /\ DOMAIN a \subseteq X /\ \A e \in DOMAIN a : a[e] \in Nat \ {0}
      /\ DOMAIN b \subseteq X /\ \A e \in DOMAIN b : b[e] \in Nat \ {0}
  BY BagFacts
<1>2. /\ DOMAIN c = D
      /\ \A e \in D : c[e] = (IF e \in DOMAIN a THEN a[e] ELSE 0)
                             + (IF e \in DOMAIN b THEN b[e] ELSE 0)
      /\ c = [e \in D |-> c[e]]
  BY DEF (+)
<1> HIDE DEF c
<1>3. \A e \in D : c[e] \in Nat \ {0}
  BY <1>1, <1>2
<1>4. c \in [D -> Nat \ {0}]
  BY <1>2, <1>3
<1>5. c \in BagsOver(X)
  BY <1>1, <1>4 DEF BagsOver
<1>6. \A e : Copies(e, c) = Copies(e, a) + Copies(e, b)
  <2> TAKE e
  <2>1. e \in D <=> e \in DOMAIN a \/ e \in DOMAIN b
    OBVIOUS
  <2>2. e \in D => c[e] = Copies(e, a) + Copies(e, b)
    BY <1>2 DEF Copies
  <2>3. e \notin D => Copies(e, a) = 0 /\ Copies(e, b) = 0
    BY <2>1 DEF Copies
  <2>4. Copies(e, c) = IF e \in D THEN c[e] ELSE 0
    BY <1>2 DEF Copies
  <2>. QED
    BY <2>2, <2>3, <2>4
<1>7. c = EmptyBag <=> a = EmptyBag /\ b = EmptyBag
  <2>1. D = {} <=> DOMAIN a = {} /\ DOMAIN b = {}
    OBVIOUS
  <2>. QED
    BY <1>2, <1>5, <2>1, IsEmpty
<1>. QED
  BY <1>5, <1>6, <1>7 DEF c

LEMMA SameCopies ==
    ASSUME NEW X, NEW a \in BagsOver(X), NEW b \in BagsOver(X),
           \A e \in X : Copies(e, a) = Copies(e, b)
    PROVE  a = b
<1>1. DOMAIN a \subseteq X /\ DOMAIN b \subseteq X
  BY BagFacts
<1>2. DOMAIN a = DOMAIN b
  BY <1>1, BagFacts
<1>3. \A e \in DOMAIN a : a[e] = b[e]
  BY <1>1, <1>2 DEF Copies
<1>4. a = [e \in DOMAIN a |-> a[e]] /\ b = [e \in DOMAIN b |-> b[e]]
  BY BagFacts
<1>. QED
  BY <1>2, <1>3, <1>4

LEMMA TaggedCopies ==
    ASSUME NEW b \in MicroBags, NEW l \in Levels
    PROVE  /\ Tagged(b, l) \in LevelBags
           /\ Tagged(b, l) = EmptyBag <=> b = EmptyBag
           /\ \A m \in Int, k \in Levels :
                 Copies(<<m, k>>, Tagged(b, l)) = IF k = l THEN Copies(m, b) ELSE 0
<1> DEFINE D == (DOMAIN b) \X {l}
           c == Tagged(b, l)
<1>1. DOMAIN b \subseteq Int /\ \A e \in DOMAIN b : b[e] \in Nat \ {0}
  BY BagFacts DEF MicroBags
<1>2. c = [x \in D |-> b[x[1]]]
  BY DEF Tagged
<1>3. DOMAIN c = D /\ \A x \in D : c[x] = b[x[1]] /\ x[1] \in DOMAIN b
  BY <1>2
<1> HIDE DEF c
<1>4. c \in [D -> Nat \ {0}]
  BY <1>1, <1>2, <1>3
<1>5. D \in SUBSET (Int \X Levels)
  BY <1>1
<1>6. c \in LevelBags
  BY <1>4, <1>5 DEF LevelBags, BagsOver
<1>7. c = EmptyBag <=> b = EmptyBag
  <2>1. \A x \in DOMAIN b : <<x, l>> \in D
    OBVIOUS
  <2>2. D = {} <=> DOMAIN b = {}
    BY <2>1
  <2>. QED
    BY <1>3, <1>6, <2>2, IsEmpty DEF LevelBags, MicroBags
<1>8. ASSUME NEW m \in Int, NEW k \in Levels
      PROVE  Copies(<<m, k>>, c) = IF k = l THEN Copies(m, b) ELSE 0
  <2>1. <<m, k>> \in D <=> m \in DOMAIN b /\ k = l
    OBVIOUS
  <2>2. <<m, k>> \in D => c[<<m, k>>] = b[m]
    BY <1>3
  <2>. QED
    BY <1>3, <2>1, <2>2 DEF Copies
<1>. QED
  BY <1>6, <1>7, <1>8 DEF c

-----------------------------------------------------------------------------
(* The invariant. *)

Bags1 == [Units -> MicroBags]
Phases == {"None", "PRE_FORWARD", "FORWARD", "PRE_BACKWARD", "BACKWARD"}
States ==
  [scheduler_state : [Units -> Phases], is_shard : [Units -> BOOLEAN],
   gather : [Units -> BOOLEAN], buffer : [Units -> Nat],
   grad : Bags1, acc : Bags1, rs : Bags1, bucket : Bags1, partial : Bags1, ar : Bags1,
   main : [Units -> LevelBags],
   root_bp_state : BOOLEAN, pre_reduce_scatter_params : Seq(Units),
   pre_all_reduce_groups : Seq(Units), pending_all_reduce_groups : Seq(Units),
   pre_param_group : Units \cup {NoUnit}, all_reduce_param_group : Units \cup {NoUnit},
   reduce_grads : BOOLEAN, reshard_after_backward : BOOLEAN,
   requires_all_reduce : BOOLEAN]

Scattering(t, u) == u \in ToSet(t.pre_reduce_scatter_params)
Bucketing(t, u) == u \in ToSet(t.pre_all_reduce_groups)
Awaits(t, u) == Scattering(t, u) \/ Bucketing(t, u)
\* G: the groups found by _wait_prev_reduce_scatter and not yet issued.
Pends(t, u, G) == u \in ToSet(t.pending_all_reduce_groups) \cup G
OneSource(t, u) == t.grad[u] = EmptyBag \/ t.acc[u] = EmptyBag
Spent(t, u) == t.grad[u] = EmptyBag /\ t.acc[u] = EmptyBag
OnWay(t, u) == ~(t.rs[u] = EmptyBag /\ t.bucket[u] = EmptyBag /\ t.ar[u] = EmptyBag)

InRs(t, u) == t.rs[u] # EmptyBag /\ t.bucket[u] = EmptyBag /\ t.ar[u] = EmptyBag
InBucket(t, u) == t.rs[u] = EmptyBag /\ t.bucket[u] # EmptyBag /\ t.ar[u] = EmptyBag
InBoth(t, u) == t.rs[u] # EmptyBag /\ t.bucket[u] # EmptyBag /\ t.ar[u] = EmptyBag

Placed(t, u, G) ==
  /\ Scattering(t, u) => InRs(t, u)
  /\ Bucketing(t, u) => InBoth(t, u)
  /\ Pends(t, u, G) => InBucket(t, u) /\ t.pre_param_group # u /\ t.all_reduce_param_group # u
  /\ t.pre_param_group = u => InBucket(t, u) /\ t.all_reduce_param_group # u
  /\ t.all_reduce_param_group = u => InBucket(t, u)
  /\ t.bucket[u] # EmptyBag => \/ Bucketing(t, u) \/ Pends(t, u, G)
                               \/ t.pre_param_group = u \/ t.all_reduce_param_group = u
  /\ t.rs[u] = EmptyBag \/ t.ar[u] = EmptyBag
  /\ Awaits(t, u) => OneSource(t, u)
  /\ OnWay(t, u) => Awaits(t, u) \/ Spent(t, u)

Good(t, G) ==
  /\ t \in States /\ G \in SUBSET Units
  /\ cfg.fused => t.pre_reduce_scatter_params = <<>> /\ t.pre_all_reduce_groups = <<>>
  /\ \A u \in Units : Placed(t, u, G)

Kept(t, u, m) ==
  (IF Awaits(t, u) THEN 0 ELSE Copies(m, t.grad[u]) + Copies(m, t.acc[u]))
  + (IF t.bucket[u] # EmptyBag THEN Copies(m, t.bucket[u]) ELSE Copies(m, t.rs[u]))
  + Copies(m, t.partial[u]) + Copies(m, t.ar[u])
  + Copies(<<m, "shards">>, t.main[u]) + Copies(<<m, "replicas">>, t.main[u])

\* Of every unit t2 keeps what t kept, and only those of U are on the way anew.
Moved(t, t2, U) ==
  \A u \in Units : /\ \A m \in Int : Kept(t2, u, m) = Kept(t, u, m)
                   /\ OnWay(t2, u) => OnWay(t, u) \/ u \in U
                   /\ OneSource(t, u) => OneSource(t2, u)

\* How far a reduction in HSDP gets without the replicas, and what a plain
\* sharded group never is.
Half == IF cfg.hsdp THEN "shards" ELSE "replicas"

\* The buffers a configuration leaves empty: with HSDP what is reduced over the
\* shards only is never applied, without it nothing is reduced over replicas.
Lane(t, u, G) ==
  /\ cfg.hsdp => /\ t.rs[u] = EmptyBag \/ Awaits(t, u)
                 /\ t.requires_all_reduce => ~Scattering(t, u)
  /\ ~cfg.hsdp => /\ ~Bucketing(t, u) /\ ~Pends(t, u, G)
                  /\ t.all_reduce_param_group # u /\ t.ar[u] = EmptyBag
  /\ ~cfg.hsdp \/ cfg.pipeline => t.requires_all_reduce /\ t.partial[u] = EmptyBag
  /\ \A m \in Int : Copies(<<m, Half>>, t.main[u]) = 0

\* A unit whose gradient waits for a hook to reduce it, and one whose gradient,
\* partial sum included, was handed to a reduction that goes all the way.
Loaded(t, u) == ~Awaits(t, u) /\ ~Spent(t, u)
Through(t, u, G) ==
  /\ Awaits(t, u) \/ Spent(t, u)
  /\ t.partial[u] = EmptyBag \/ Awaits(t, u) \/ u \in G \/ t.pre_param_group = u

SameFlags(t, t2) ==
  t2.requires_all_reduce = t.requires_all_reduce /\ t2.reduce_grads = t.reduce_grads

\* What is through stays through, and only units of U cease to be loaded.
Carried(t, G, t2, G2, U) ==
  /\ SameFlags(t, t2)
  /\ \A u \in Units :
       /\ Lane(t, u, G) => Lane(t2, u, G2)
       /\ t.requires_all_reduce /\ Through(t, u, G) => Through(t2, u, G2)
       /\ u \notin U => /\ Loaded(t, u) => Loaded(t2, u)
                        /\ t2.scheduler_state[u] = t.scheduler_state[u]

LEMMA CarriedOn ==
    ASSUME NEW t, NEW G, NEW t1, NEW G1, NEW t2, NEW G2, NEW U, NEW V, NEW W,
           Carried(t, G, t1, G1, U), Carried(t1, G1, t2, G2, V), U \cup V \subseteq W
    PROVE  Carried(t, G, t2, G2, W)
  BY DEF Carried, SameFlags

LEMMA CarriedSame ==
    ASSUME NEW t, NEW G, NEW U
    PROVE  Carried(t, G, t, G, U)
  BY DEF Carried, SameFlags

LEMMA Empty == ToSet(<<>>) = {}
  BY DEF ToSet

LEMMA Counting ==
    ASSUME NEW t \in States, NEW u \in Units, NEW m
    PROVE  /\ t.grad[u] \in MicroBags /\ t.acc[u] \in MicroBags /\ t.rs[u] \in MicroBags
           /\ t.bucket[u] \in MicroBags /\ t.partial[u] \in MicroBags /\ t.ar[u] \in MicroBags
           /\ t.main[u] \in LevelBags
           /\ Copies(m, t.grad[u]) \in Nat /\ Copies(m, t.acc[u]) \in Nat
           /\ Copies(m, t.rs[u]) \in Nat /\ Copies(m, t.bucket[u]) \in Nat
           /\ Copies(m, t.partial[u]) \in Nat /\ Copies(m, t.ar[u]) \in Nat
           /\ Copies(<<m, "shards">>, t.main[u]) \in Nat
           /\ Copies(<<m, "replicas">>, t.main[u]) \in Nat
<1>1. /\ t.grad[u] \in MicroBags /\ t.acc[u] \in MicroBags /\ t.rs[u] \in MicroBags
      /\ t.bucket[u] \in MicroBags /\ t.partial[u] \in MicroBags /\ t.ar[u] \in MicroBags
      /\ t.main[u] \in LevelBags
  BY DEF States, Bags1
<1>. QED
  BY <1>1, BagFacts DEF MicroBags, LevelBags

LEMMA QueueSet ==
    ASSUME NEW q \in Seq(Units)
    PROVE  ToSet(q) \in SUBSET Units
  BY LenProperties DEF ToSet

LEMMA Replacing ==
    ASSUME NEW T, NEW f \in [Units -> T], NEW g \in [Units -> T], NEW U
    PROVE  /\ Replaced(f, U, g) \in [Units -> T]
           /\ \A u \in Units : Replaced(f, U, g)[u] = IF u \in U THEN g[u] ELSE f[u]
  BY DEF Replaced

LEMMA Emptying ==
    ASSUME NEW f \in Bags1, NEW U
    PROVE  /\ Emptied(f, U) \in Bags1
           /\ \A u \in Units : Emptied(f, U)[u] = IF u \in U THEN EmptyBag ELSE f[u]
<1>1. EmptyBag \in MicroBags
  BY NoCopies DEF MicroBags
<1>2. Fresh(EmptyBag) \in Bags1 /\ \A u \in Units : Fresh(EmptyBag)[u] = EmptyBag
  BY <1>1 DEF Fresh, Bags1
<1>. QED
  BY <1>2, Replacing DEF Emptied, Bags1

LEMMA Adding ==
    ASSUME NEW X, NEW f \in [Units -> BagsOver(X)], NEW g \in [Units -> BagsOver(X)], NEW U
    PROVE  /\ Added(f, U, g) \in [Units -> BagsOver(X)]
           /\ \A u \in Units : Added(f, U, g)[u] = IF u \in U THEN f[u] (+) g[u] ELSE f[u]
<1>1. \A u \in Units : f[u] (+) g[u] \in BagsOver(X)
  BY SumCopies
<1>. QED
  BY <1>1 DEF Added

\* c is t without the sources of the units of U.
Cleared(t, c, U) ==
  /\ c \in States
  /\ c = [t EXCEPT !.acc = c.acc, !.grad = c.grad]
  /\ \A u \in Units :
        /\ c.acc[u] = IF u \in U THEN EmptyBag ELSE t.acc[u]
        /\ c.grad[u] = IF u \in U /\ t.acc[u] = EmptyBag THEN EmptyBag ELSE t.grad[u]

LEMMA Clearing ==
    ASSUME NEW t \in States, NEW U \in SUBSET Units
    PROVE  Cleared(t, ClearSource(t, U), U)
<1> DEFINE V == {u \in U : t.acc[u] = EmptyBag}
           a == Emptied(t.acc, U)
           g == Emptied(t.grad, V)
           t2 == ClearSource(t, U)
<1>1. t.acc \in Bags1 /\ t.grad \in Bags1
  BY DEF States
<1>2. a \in Bags1 /\ \A u \in Units : a[u] = IF u \in U THEN EmptyBag ELSE t.acc[u]
  BY <1>1, Emptying
<1>3. g \in Bags1 /\ \A u \in Units : g[u] = IF u \in V THEN EmptyBag ELSE t.grad[u]
  BY <1>1, Emptying
<1>4. t2 = [t EXCEPT !.acc = a, !.grad = g]
  BY DEF ClearSource
<1> HIDE DEF a, g, t2
<1>5. t2 \in States /\ t2.acc = a /\ t2.grad = g
  BY <1>2, <1>3, <1>4 DEF States
<1>6. t2 = [t EXCEPT !.acc = t2.acc, !.grad = t2.grad]
  BY <1>4, <1>5
<1>. QED
  BY <1>2, <1>3, <1>5, <1>6 DEF t2, Cleared

LEMMA WaitGroupsGood ==
    ASSUME NEW t, Good(t, {})
    PROVE  LET t2 == WaitGroups(t)
               G == ToSet(t.pre_all_reduce_groups)
           IN  /\ Good(t2, G) /\ Moved(t, t2, {}) /\ Carried(t, {}, t2, G, {})
               /\ t2.pre_all_reduce_groups = <<>>
               /\ t2.pre_reduce_scatter_params = t.pre_reduce_scatter_params
               /\ t2.pre_param_group = t.pre_param_group
               /\ t2.all_reduce_param_group = t.all_reduce_param_group
<1> DEFINE G == ToSet(t.pre_all_reduce_groups)
           c == ClearSource(t, G)
           r == Emptied(t.rs, G)
           t2 == WaitGroups(t)
<1>0. t \in States /\ G \in SUBSET Units /\ \A u \in Units : Placed(t, u, {})
  BY QueueSet DEF Good, States
<1>1. c \in States /\ c = [t EXCEPT !.acc = c.acc, !.grad = c.grad]
      /\ \A u \in Units :
           /\ c.acc[u] = IF u \in G THEN EmptyBag ELSE t.acc[u]
           /\ c.grad[u] = IF u \in G /\ t.acc[u] = EmptyBag THEN EmptyBag ELSE t.grad[u]
  <2>1. Cleared(t, c, G)
    <3> HIDE DEF G
    <3>. QED BY <1>0, Clearing
  <2> HIDE DEF c, G
  <2>. QED BY <2>1 DEF Cleared
<1>2. r \in Bags1 /\ \A u \in Units : r[u] = IF u \in G THEN EmptyBag ELSE t.rs[u]
  BY <1>0, Emptying DEF States
<1>3. t2 = [c EXCEPT !.rs = r, !.pre_all_reduce_groups = <<>>]
  <2>1. c.rs = t.rs
    BY <1>0, <1>1 DEF States
  <2>. QED BY <2>1 DEF WaitGroups
<1> HIDE DEF c, r, t2
<1>4. t2 \in States
  BY <1>1, <1>2, <1>3, EmptySeq DEF States
<1>5. /\ t2.grad = c.grad /\ t2.acc = c.acc /\ t2.rs = r
      /\ t2.pre_all_reduce_groups = <<>>
      /\ t2.bucket = t.bucket /\ t2.partial = t.partial /\ t2.ar = t.ar /\ t2.main = t.main
      /\ t2.pre_reduce_scatter_params = t.pre_reduce_scatter_params
      /\ t2.pending_all_reduce_groups = t.pending_all_reduce_groups
      /\ t2.pre_param_group = t.pre_param_group
      /\ t2.all_reduce_param_group = t.all_reduce_param_group
  BY <1>0, <1>1, <1>2, <1>3 DEF States
<1>6. ASSUME NEW u \in Units
      PROVE  Placed(t2, u, G)
  <2>1. Placed(t, u, {})
    BY <1>0
  <2>. QED
    BY <1>1, <1>2, <1>5, <2>1, Empty
    DEF Placed, Scattering, Bucketing, Awaits, Pends, OneSource, Spent, OnWay, InRs, InBucket, InBoth
<1>7. ASSUME NEW u \in Units
      PROVE  OnWay(t2, u) => OnWay(t, u)
  BY <1>2, <1>5 DEF OnWay
<1>9. ASSUME NEW u \in Units
      PROVE  OneSource(t, u) => OneSource(t2, u)
  BY <1>1, <1>5 DEF OneSource
<1>8. ASSUME NEW u \in Units, NEW m \in Int
      PROVE  Kept(t2, u, m) = Kept(t, u, m)
  <2>1. Placed(t, u, {}) /\ Copies(m, EmptyBag) = 0
    BY <1>0, NoCopies
  <2>2. /\ Copies(m, t.grad[u]) \in Nat /\ Copies(m, t.acc[u]) \in Nat
        /\ Copies(m, t.rs[u]) \in Nat /\ Copies(m, t.bucket[u]) \in Nat
        /\ Copies(m, t.partial[u]) \in Nat /\ Copies(m, t.ar[u]) \in Nat
        /\ Copies(<<m, "shards">>, t.main[u]) \in Nat
        /\ Copies(<<m, "replicas">>, t.main[u]) \in Nat
    BY <1>0, Counting
  <2>3. CASE u \in G
    <3>1. Awaits(t, u) /\ ~Awaits(t2, u) /\ t2.grad[u] = EmptyBag /\ t2.acc[u] = EmptyBag
          /\ t.bucket[u] # EmptyBag
      BY <1>1, <1>5, <2>1, <2>3, Empty
      DEF Placed, Scattering, Bucketing, Awaits, OneSource, InRs, InBoth
    <3>. QED
      BY <1>5, <2>1, <2>2, <3>1 DEF Kept
  <2>4. CASE u \notin G
    <3>1. (Awaits(t, u) <=> Awaits(t2, u)) /\ t2.grad[u] = t.grad[u] /\ t2.acc[u] = t.acc[u]
          /\ t2.rs[u] = t.rs[u]
      BY <1>1, <1>2, <1>5, <2>4, Empty DEF Scattering, Bucketing, Awaits
    <3>. QED
      BY <1>5, <2>2, <3>1 DEF Kept
  <2>. QED
    BY <2>3, <2>4
<1>10. SameFlags(t, t2) /\ t2.scheduler_state = t.scheduler_state
  BY <1>0, <1>1, <1>2, <1>3 DEF States, SameFlags
<1>11. ASSUME NEW u \in Units
       PROVE  /\ Lane(t, u, {}) => Lane(t2, u, G)
              /\ Through(t, u, {}) => Through(t2, u, G)
              /\ Loaded(t, u) => Loaded(t2, u)
  <2>1. /\ Bucketing(t, u) <=> u \in G
        /\ ~Bucketing(t2, u) /\ (Scattering(t2, u) <=> Scattering(t, u))
        /\ Pends(t2, u, G) <=> Pends(t, u, {}) \/ u \in G
        /\ Bucketing(t, u) => OneSource(t, u)
    BY <1>0, <1>5, Empty DEF Scattering, Bucketing, Awaits, Pends, Placed
  <2>2. (u \in G => Spent(t2, u) /\ t2.rs[u] = EmptyBag)
        /\ (u \notin G => (Spent(t2, u) <=> Spent(t, u)) /\ t2.rs[u] = t.rs[u])
    BY <1>1, <1>2, <1>5, <2>1 DEF Spent, OneSource
  <2>3. Lane(t, u, {}) => Lane(t2, u, G)
    BY <1>5, <1>10, <2>1, <2>2 DEF Lane, Awaits, SameFlags
  <2>. QED BY <1>5, <2>1, <2>2, <2>3 DEF Through, Loaded, Awaits
<1>12. Carried(t, {}, t2, G, {})
  BY <1>10, <1>11 DEF Carried
<1>. QED
  BY <1>0, <1>4, <1>5, <1>6, <1>7, <1>8, <1>9, <1>12 DEF Good, Moved, t2

LEMMA WaitParamsGood ==
    ASSUME NEW t, NEW G, Good(t, G), t.pre_all_reduce_groups = <<>>
    PROVE  LET t2 == WaitParams(t)
           IN  /\ Good(t2, G) /\ Moved(t, t2, {}) /\ Carried(t, G, t2, G, {})
               /\ t2.pre_all_reduce_groups = <<>> /\ t2.pre_reduce_scatter_params = <<>>
               /\ t2.pre_param_group = t.pre_param_group
               /\ t2.all_reduce_param_group = t.all_reduce_param_group
<1> DEFINE D == ToSet(t.pre_reduce_scatter_params)
           c == ClearSource(t, D)
           full == t.requires_all_reduce
           rs2 == IF full THEN Added(t.rs, D, t.partial) ELSE Emptied(t.rs, D)
           p2 == IF full THEN Emptied(t.partial, D) ELSE Added(t.partial, D, t.rs)
           t2 == WaitParams(t)
<1>0. t \in States /\ G \in SUBSET Units /\ D \in SUBSET Units /\ \A u \in Units : Placed(t, u, G)
  BY QueueSet DEF Good, States
<1>1. c \in States /\ c = [t EXCEPT !.acc = c.acc, !.grad = c.grad]
      /\ \A u \in Units :
           /\ c.acc[u] = IF u \in D THEN EmptyBag ELSE t.acc[u]
           /\ c.grad[u] = IF u \in D /\ t.acc[u] = EmptyBag THEN EmptyBag ELSE t.grad[u]
  <2>1. Cleared(t, c, D)
    BY <1>0, Clearing
  <2> HIDE DEF c, D
  <2>. QED BY <2>1 DEF Cleared
<1>2. /\ rs2 \in Bags1 /\ p2 \in Bags1
      /\ \A u \in D : full => rs2[u] = t.rs[u] (+) t.partial[u] /\ p2[u] = EmptyBag
      /\ \A u \in D : ~full => rs2[u] = EmptyBag /\ p2[u] = t.partial[u] (+) t.rs[u]
      /\ \A u \in Units \ D : rs2[u] = t.rs[u] /\ p2[u] = t.partial[u]
  <2>1. t.rs \in Bags1 /\ t.partial \in Bags1
    BY <1>0 DEF States
  <2>2. /\ Emptied(t.rs, D) \in Bags1 /\ Emptied(t.partial, D) \in Bags1
        /\ \A u \in Units : /\ Emptied(t.rs, D)[u] = IF u \in D THEN EmptyBag ELSE t.rs[u]
                            /\ Emptied(t.partial, D)[u] = IF u \in D THEN EmptyBag ELSE t.partial[u]
    BY <2>1, Emptying
  <2>3. /\ Added(t.rs, D, t.partial) \in Bags1 /\ Added(t.partial, D, t.rs) \in Bags1
        /\ \A u \in Units :
             /\ Added(t.rs, D, t.partial)[u] = IF u \in D THEN t.rs[u] (+) t.partial[u] ELSE t.rs[u]
             /\ Added(t.partial, D, t.rs)[u]
                   = IF u \in D THEN t.partial[u] (+) t.rs[u] ELSE t.partial[u]
    BY <2>1, Adding DEF Bags1, MicroBags
  <2>. QED
    BY <1>0, <2>2, <2>3
<1>3. t2 = [c EXCEPT !.rs = rs2, !.partial = p2, !.pre_reduce_scatter_params = <<>>]
  <2> DEFINE d == [c EXCEPT !.pre_reduce_scatter_params = <<>>]
  <2>1. d \in States /\ d.rs = t.rs /\ d.partial = t.partial
    BY <1>0, <1>1, EmptySeq DEF States
  <2>2. t2 = IF full THEN [d EXCEPT !.rs = rs2, !.partial = p2]
             ELSE [d EXCEPT !.partial = p2, !.rs = rs2]
    BY <2>1 DEF WaitParams
  <2> HIDE DEF t2, rs2, p2, c
  <2>. QED BY <1>1, <2>2 DEF States
<1> HIDE DEF c, rs2, p2, t2
<1>4. t2 \in States
  BY <1>1, <1>2, <1>3, EmptySeq DEF States
<1>5. /\ t2.grad = c.grad /\ t2.acc = c.acc /\ t2.rs = rs2 /\ t2.partial = p2
      /\ t2.pre_reduce_scatter_params = <<>>
      /\ t2.bucket = t.bucket /\ t2.ar = t.ar /\ t2.main = t.main
      /\ t2.pre_all_reduce_groups = <<>>
      /\ t2.pending_all_reduce_groups = t.pending_all_reduce_groups
      /\ t2.pre_param_group = t.pre_param_group
      /\ t2.all_reduce_param_group = t.all_reduce_param_group
  BY <1>0, <1>1, <1>2, <1>3 DEF States
<1>6. ASSUME NEW u \in Units
      PROVE  /\ Placed(t2, u, G) /\ (OnWay(t2, u) => OnWay(t, u))
             /\ (OneSource(t, u) => OneSource(t2, u))
             /\ \A m \in Int : Kept(t2, u, m) = Kept(t, u, m)
  <2>1. Placed(t, u, G) /\ ~Awaits(t2, u)
    BY <1>0, <1>5, Empty DEF Scattering, Bucketing, Awaits
  <2>2. t.rs[u] \in MicroBags /\ t.partial[u] \in MicroBags
    BY <1>0, Counting
  <2>3. CASE u \in D
    <3>1. InRs(t, u) /\ Awaits(t, u) /\ OneSource(t, u) /\ ~Bucketing(t, u)
      BY <2>1, <2>3 DEF Placed, Scattering, Awaits, InRs, Bucketing, InBoth
    <3>2. Spent(t2, u)
      BY <1>1, <1>5, <2>3, <3>1 DEF OneSource, Spent
    <3>3. (full => t2.rs[u] # EmptyBag) /\ (~full => t2.rs[u] = EmptyBag)
          /\ t2.bucket[u] = EmptyBag /\ t2.ar[u] = EmptyBag
      BY <1>2, <1>5, <2>2, <2>3, <3>1, SumCopies DEF InRs, MicroBags
    <3>4. Placed(t2, u, G) /\ (OnWay(t2, u) => OnWay(t, u)) /\ OneSource(t2, u)
      BY <1>5, <2>1, <3>1, <3>2, <3>3
      DEF Placed, Scattering, Bucketing, Awaits, Pends, OneSource, Spent, OnWay, InRs, InBucket, InBoth
    <3>5. ASSUME NEW m \in Int PROVE Kept(t2, u, m) = Kept(t, u, m)
      <4>1. /\ Copies(m, t.rs[u]) \in Nat /\ Copies(m, t.partial[u]) \in Nat
            /\ Copies(m, t.ar[u]) \in Nat
            /\ Copies(<<m, "shards">>, t.main[u]) \in Nat
            /\ Copies(<<m, "replicas">>, t.main[u]) \in Nat
        BY <1>0, Counting
      <4>2. Copies(m, t2.rs[u]) + Copies(m, t2.partial[u])
              = Copies(m, t.rs[u]) + Copies(m, t.partial[u])
            /\ Copies(m, t2.rs[u]) \in Nat /\ Copies(m, t2.partial[u]) \in Nat
        BY <1>2, <1>5, <2>2, <2>3, <4>1, SumCopies, NoCopies DEF MicroBags
      <4>3. Copies(m, t2.grad[u]) = 0 /\ Copies(m, t2.acc[u]) = 0
        BY <3>2, NoCopies DEF Spent
      <4>. QED
        BY <1>5, <2>1, <3>1, <3>3, <4>1, <4>2, <4>3 DEF Kept, InRs
    <3>. QED
      BY <3>4, <3>5
  <2>4. CASE u \notin D
    <3>1. /\ t2.grad[u] = t.grad[u] /\ t2.acc[u] = t.acc[u]
          /\ t2.rs[u] = t.rs[u] /\ t2.partial[u] = t.partial[u]
          /\ ~Awaits(t, u)
      BY <1>1, <1>2, <1>5, <2>4, Empty DEF Scattering, Bucketing, Awaits
    <3>2. Placed(t2, u, G)
      BY <1>5, <2>1, <3>1
      DEF Placed, Scattering, Bucketing, Awaits, Pends, OneSource, Spent, OnWay, InRs, InBucket, InBoth
    <3>3. \A m \in Int : Kept(t2, u, m) = Kept(t, u, m)
      BY <1>5, <2>1, <3>1 DEF Kept
    <3>. QED
      BY <1>5, <3>1, <3>2, <3>3 DEF OnWay, OneSource
  <2>. QED
    BY <2>3, <2>4
<1>7. SameFlags(t, t2) /\ t2.scheduler_state = t.scheduler_state
  BY <1>0, <1>1, <1>2, <1>3 DEF States, SameFlags
<1>8. ASSUME NEW u \in Units
      PROVE  /\ Lane(t, u, G) => Lane(t2, u, G)
             /\ full /\ Through(t, u, G) => Through(t2, u, G)
             /\ Loaded(t, u) => Loaded(t2, u)
  <2>1. /\ Scattering(t, u) <=> u \in D
        /\ ~Awaits(t2, u) /\ ~Bucketing(t2, u) /\ ~Bucketing(t, u) /\ ~Scattering(t2, u)
        /\ Pends(t2, u, G) <=> Pends(t, u, G)
        /\ Scattering(t, u) => OneSource(t, u)
    BY <1>0, <1>5, Empty DEF Scattering, Bucketing, Awaits, Pends, Placed
  <2>2. (u \in D => Spent(t2, u)) /\ (u \notin D => (Spent(t2, u) <=> Spent(t, u)))
    BY <1>1, <1>5, <2>1 DEF Spent, OneSource
  <2>3. CASE u \in D
    <3>1. (full => t2.partial[u] = EmptyBag) /\ (~full => t2.rs[u] = EmptyBag)
      BY <1>2, <1>5, <2>3
    <3>. QED BY <1>5, <1>7, <2>1, <2>2, <2>3, <3>1 DEF Lane, Through, Loaded, Awaits, SameFlags
  <2>4. CASE u \notin D
    <3>1. t2.partial[u] = t.partial[u] /\ t2.rs[u] = t.rs[u]
      BY <1>2, <1>5, <2>4
    <3>. QED BY <1>5, <1>7, <2>1, <2>2, <2>4, <3>1 DEF Lane, Through, Loaded, Awaits, SameFlags
  <2>. QED BY <2>3, <2>4
<1>9. Carried(t, G, t2, G, {})
  BY <1>7, <1>8 DEF Carried
<1>. QED
  BY <1>0, <1>4, <1>5, <1>6, <1>9 DEF Good, Moved, t2

LEMMA IssueReduceScatterGood ==
    ASSUME NEW t, NEW G, Good(t, G), NEW v \in Units, OneSource(t, v), ~cfg.fused,
           t.pre_all_reduce_groups = <<>>, t.pre_reduce_scatter_params = <<>>
    PROVE  LET t2 == IssueReduceScatter(t, v)
           IN  /\ Good(t2, G) /\ Moved(t, t2, {v}) /\ Carried(t, G, t2, G, {v})
               /\ ~Spent(t, v) => Through(t2, v, G)
<1> DEFINE g == Source(t, v)
           both == t.requires_all_reduce /\ cfg.hsdp
           t2 == IssueReduceScatter(t, v)
<1>0. t \in States /\ G \in SUBSET Units /\ \A u \in Units : Placed(t, u, G)
  BY DEF Good
<1>1. CASE g = EmptyBag
  <2>1. t2 = t
    BY <1>1 DEF IssueReduceScatter
  <2>2. Spent(t, v)
    BY <1>1 DEF Spent, Source, OneSource
  <2> HIDE DEF t2
  <2>. QED BY <2>1, <2>2, CarriedSame DEF Moved, t2
<1>2. CASE g # EmptyBag
  <2> DEFINE rs2 == [t.rs EXCEPT ![v] = g]
             b2 == IF both THEN [t.bucket EXCEPT ![v] = g] ELSE t.bucket
             a2 == IF both THEN <<v>> ELSE <<>>
             p2 == IF both THEN <<>> ELSE <<v>>
  <2>1. g \in MicroBags
    BY <1>0, Counting DEF Source
  <2>2. rs2 \in Bags1 /\ b2 \in Bags1 /\ a2 \in Seq(Units) /\ p2 \in Seq(Units)
    BY <1>0, <2>1, EmptySeq DEF States, Bags1
  <2>3. t2 = [t EXCEPT !.rs = rs2, !.bucket = b2, !.pre_all_reduce_groups = a2,
                       !.pre_reduce_scatter_params = p2]
    <3>1. Append(<<>>, v) = <<v>>
      OBVIOUS
    <3>2. g = Source(t, v) /\ g # EmptyBag
      BY <1>2
    <3> HIDE DEF g
    <3>3. CASE both
      <4>1. t2 = [t EXCEPT !.rs[v] = g, !.bucket[v] = g, !.pre_all_reduce_groups = Append(@, v)]
        BY <3>2, <3>3 DEF IssueReduceScatter
      <4>2. t2 = [t EXCEPT !.rs = rs2, !.bucket = b2, !.pre_all_reduce_groups = a2]
        BY <1>0, <3>1, <3>3, <4>1 DEF States
      <4>3. p2 = t.pre_reduce_scatter_params
        BY <3>3
      <4> HIDE DEF t2, rs2, b2, a2, p2
      <4>. QED BY <1>0, <4>2, <4>3 DEF States
    <3>4. CASE ~both
      <4>1. t2 = [t EXCEPT !.rs[v] = g, !.pre_reduce_scatter_params = Append(@, v)]
        BY <3>2, <3>4 DEF IssueReduceScatter
      <4>2. t2 = [t EXCEPT !.rs = rs2, !.pre_reduce_scatter_params = p2]
        BY <1>0, <3>1, <3>4, <4>1 DEF States
      <4>3. b2 = t.bucket /\ a2 = t.pre_all_reduce_groups
        BY <3>4
      <4> HIDE DEF t2, rs2, b2, a2, p2
      <4>. QED BY <1>0, <4>2, <4>3 DEF States
    <3>. QED BY <3>3, <3>4
  <2>4. /\ rs2[v] = g /\ b2[v] = (IF both THEN g ELSE t.bucket[v])
        /\ \A u \in Units : u # v => rs2[u] = t.rs[u] /\ b2[u] = t.bucket[u]
    BY <1>0 DEF States, Bags1
  <2>5. ToSet(a2) = (IF both THEN {v} ELSE {}) /\ ToSet(p2) = (IF both THEN {} ELSE {v})
    BY DEF ToSet
  <2> HIDE DEF g, rs2, b2, a2, p2, t2
  <2>6. t2 \in States
    BY <1>0, <2>2, <2>3 DEF States
  <2>7. /\ t2.grad = t.grad /\ t2.acc = t.acc /\ t2.rs = rs2 /\ t2.partial = t.partial
        /\ t2.pre_reduce_scatter_params = p2 /\ t2.pre_all_reduce_groups = a2
        /\ t2.bucket = b2 /\ t2.ar = t.ar /\ t2.main = t.main
        /\ t2.pending_all_reduce_groups = t.pending_all_reduce_groups
        /\ t2.pre_param_group = t.pre_param_group
        /\ t2.all_reduce_param_group = t.all_reduce_param_group
    BY <1>0, <2>3 DEF States
  <2>8. ASSUME NEW u \in Units
        PROVE  /\ Placed(t2, u, G) /\ (OnWay(t2, u) => OnWay(t, u) \/ u \in {v})
               /\ (OneSource(t, u) => OneSource(t2, u))
               /\ \A m \in Int : Kept(t2, u, m) = Kept(t, u, m)
    <3>1. Placed(t, u, G) /\ ~Awaits(t, u)
      BY <1>0, Empty DEF Scattering, Bucketing, Awaits
    <3>2. CASE u = v
      <4>1. ~OnWay(t, u)
        BY <1>2, <3>1, <3>2 DEF Placed, Spent, Source, g
      <4>2. /\ t2.rs[u] = g /\ t2.ar[u] = EmptyBag /\ OneSource(t2, u)
            /\ t2.bucket[u] = (IF both THEN g ELSE EmptyBag)
            /\ (both => Bucketing(t2, u) /\ ~Scattering(t2, u))
            /\ (~both => ~Bucketing(t2, u) /\ Scattering(t2, u))
        BY <2>4, <2>5, <2>7, <3>2, <4>1 DEF OnWay, OneSource, Bucketing, Scattering
      <4>3. Placed(t2, u, G)
        BY <1>2, <2>7, <3>1, <4>1, <4>2
        DEF Placed, Awaits, Pends, OneSource, OnWay, InRs, InBucket, InBoth
      <4>4. ASSUME NEW m \in Int PROVE Kept(t2, u, m) = Kept(t, u, m)
        <5>1. /\ Copies(m, t.grad[u]) \in Nat /\ Copies(m, t.acc[u]) \in Nat
              /\ Copies(m, t.partial[u]) \in Nat
              /\ Copies(<<m, "shards">>, t.main[u]) \in Nat
              /\ Copies(<<m, "replicas">>, t.main[u]) \in Nat
          BY <1>0, Counting
        <5>2. Copies(m, g) = Copies(m, t.grad[u]) + Copies(m, t.acc[u])
          <6>1. Copies(m, EmptyBag) = 0
            BY NoCopies
          <6>2. CASE t.acc[u] # EmptyBag
            <7>1. g = t.acc[u] /\ t.grad[u] = EmptyBag
              BY <3>2, <6>2 DEF OneSource, Source, g
            <7>. QED BY <5>1, <6>1, <7>1
          <6>3. CASE t.acc[u] = EmptyBag
            <7>1. g = t.grad[u]
              BY <3>2, <6>3 DEF Source, g
            <7>. QED BY <5>1, <6>1, <6>3, <7>1
          <6>. QED BY <6>2, <6>3
        <5>3. Copies(m, EmptyBag) = 0
          BY NoCopies
        <5>4. /\ t.rs[u] = EmptyBag /\ t.bucket[u] = EmptyBag /\ Awaits(t2, u)
              /\ t2.partial[u] = t.partial[u] /\ t2.ar[u] = t.ar[u] /\ t2.main[u] = t.main[u]
          BY <2>7, <4>1, <4>2 DEF Awaits, OnWay
        <5>5. (IF t2.bucket[u] # EmptyBag THEN Copies(m, t2.bucket[u]) ELSE Copies(m, t2.rs[u]))
                = Copies(m, g)
          BY <1>2, <4>2
        <5>. QED
          BY <3>1, <5>1, <5>2, <5>3, <5>4, <5>5 DEF Kept
      <4>. QED
        BY <3>2, <4>2, <4>3, <4>4
    <3>3. CASE u # v
      <4>1. t2.rs[u] = t.rs[u] /\ t2.bucket[u] = t.bucket[u] /\ ~Awaits(t2, u)
        BY <2>4, <2>5, <2>7, <3>3 DEF Awaits, Bucketing, Scattering
      <4>2. Placed(t2, u, G)
        BY <2>7, <3>1, <4>1
        DEF Placed, Awaits, Pends, OneSource, Spent, OnWay, InRs, InBucket, InBoth
      <4>3. \A m \in Int : Kept(t2, u, m) = Kept(t, u, m)
        BY <2>7, <3>1, <4>1 DEF Kept
      <4>. QED
        BY <2>7, <4>1, <4>2, <4>3 DEF OnWay, OneSource
    <3>. QED
      BY <3>2, <3>3
  <2>9. SameFlags(t, t2) /\ t2.scheduler_state = t.scheduler_state
    BY <1>0, <2>3 DEF States, SameFlags
  <2>10. ASSUME NEW u \in Units
         PROVE  /\ Lane(t, u, G) => Lane(t2, u, G)
                /\ Through(t, u, G) => Through(t2, u, G)
                /\ u # v => (Loaded(t, u) => Loaded(t2, u))
                /\ u = v => Through(t2, u, G)
    <3>1. /\ Pends(t2, u, G) <=> Pends(t, u, G)
          /\ ~Awaits(t, u) /\ (Spent(t2, u) <=> Spent(t, u))
          /\ Bucketing(t2, u) <=> u = v /\ both
          /\ Scattering(t2, u) <=> u = v /\ ~both
      BY <1>0, <2>5, <2>7, Empty DEF Pends, Awaits, Scattering, Bucketing, Spent
    <3>2. u # v => t2.rs[u] = t.rs[u]
      BY <2>4, <2>7
    <3>3. Lane(t, u, G) => Lane(t2, u, G)
      BY <2>7, <2>9, <3>1, <3>2 DEF Lane, Awaits, SameFlags
    <3>. QED BY <2>7, <3>1, <3>3 DEF Through, Loaded, Awaits
  <2>11. Carried(t, G, t2, G, {v})
    BY <2>9, <2>10 DEF Carried
  <2>. QED
    BY <1>0, <2>6, <2>8, <2>10, <2>11 DEF Good, Moved, t2
<1>. QED
  BY <1>1, <1>2

LEMMA QueueSum ==
    ASSUME NEW p \in Seq(Units), NEW q \in Seq(Units)
    PROVE  p \o q \in Seq(Units) /\ ToSet(p \o q) = ToSet(p) \cup ToSet(q)
<1>1. p \o q \in Seq(Units) /\ Len(p) \in Nat /\ Len(q) \in Nat
      /\ DOMAIN p = 1 .. Len(p) /\ DOMAIN q = 1 .. Len(q)
      /\ DOMAIN (p \o q) = 1 .. Len(p) + Len(q)
      /\ \A i \in 1 .. Len(p) + Len(q) :
            (p \o q)[i] = IF i <= Len(p) THEN p[i] ELSE q[i - Len(p)]
  BY ConcatProperties, LenProperties
<1>2. ASSUME NEW x \in ToSet(p \o q) PROVE x \in ToSet(p) \cup ToSet(q)
  BY <1>1 DEF ToSet
<1>3. ASSUME NEW x \in ToSet(p) PROVE x \in ToSet(p \o q)
  BY <1>1 DEF ToSet
<1>4. ASSUME NEW x \in ToSet(q) PROVE x \in ToSet(p \o q)
  <2>1. PICK i \in 1 .. Len(q) : x = q[i]
    BY <1>1 DEF ToSet
  <2>2. Len(p) + i \in 1 .. Len(p) + Len(q) /\ ~(Len(p) + i <= Len(p)) /\ Len(p) + i - Len(p) = i
    BY <1>1
  <2>. QED
    BY <1>1, <2>1, <2>2 DEF ToSet
<1>. QED
  BY <1>1, <1>2, <1>3, <1>4

LEMMA IssueAllReduceGood ==
    ASSUME NEW t, NEW groups \in Seq(Units), Good(t, ToSet(groups))
    PROVE  LET t2 == IssueAllReduce(t, groups)
           IN  /\ Good(t2, {}) /\ Moved(t, t2, {}) /\ Carried(t, ToSet(groups), t2, {}, {})
               /\ t2.pre_all_reduce_groups = t.pre_all_reduce_groups
               /\ t2.pre_reduce_scatter_params = t.pre_reduce_scatter_params
               /\ t2.pre_param_group = t.pre_param_group
               /\ t2.all_reduce_param_group = t.all_reduce_param_group
<1> DEFINE G == ToSet(groups)
           b2 == Added(t.bucket, G, t.partial)
           p2 == Emptied(t.partial, G)
           q2 == t.pending_all_reduce_groups \o groups
           t2 == IssueAllReduce(t, groups)
<1>0. t \in States /\ G \in SUBSET Units /\ \A u \in Units : Placed(t, u, G)
  BY DEF Good
<1>1. /\ b2 \in Bags1
      /\ \A u \in Units : b2[u] = IF u \in G THEN t.bucket[u] (+) t.partial[u] ELSE t.bucket[u]
  <2>1. t.bucket \in [Units -> BagsOver(Int)] /\ t.partial \in [Units -> BagsOver(Int)]
    BY <1>0 DEF States, Bags1, MicroBags
  <2>. QED BY <2>1, Adding DEF Bags1, MicroBags
<1>2. p2 \in Bags1 /\ \A u \in Units : p2[u] = IF u \in G THEN EmptyBag ELSE t.partial[u]
  BY <1>0, Emptying DEF States
<1>3. q2 \in Seq(Units) /\ ToSet(q2) = ToSet(t.pending_all_reduce_groups) \cup G
  BY <1>0, QueueSum DEF States
<1>4. t2 = [t EXCEPT !.bucket = b2, !.partial = p2, !.pending_all_reduce_groups = q2]
  BY DEF IssueAllReduce
<1> HIDE DEF b2, p2, q2, t2
<1>5. t2 \in States
  BY <1>0, <1>1, <1>2, <1>3, <1>4 DEF States
<1>6. /\ t2.grad = t.grad /\ t2.acc = t.acc /\ t2.rs = t.rs /\ t2.partial = p2
      /\ t2.pre_reduce_scatter_params = t.pre_reduce_scatter_params
      /\ t2.pre_all_reduce_groups = t.pre_all_reduce_groups
      /\ t2.bucket = b2 /\ t2.ar = t.ar /\ t2.main = t.main
      /\ t2.pending_all_reduce_groups = q2
      /\ t2.pre_param_group = t.pre_param_group
      /\ t2.all_reduce_param_group = t.all_reduce_param_group
  BY <1>0, <1>4 DEF States
<1>7. ASSUME NEW u \in Units
      PROVE  /\ Placed(t2, u, {}) /\ (OnWay(t2, u) => OnWay(t, u))
             /\ (OneSource(t, u) => OneSource(t2, u))
             /\ \A m \in Int : Kept(t2, u, m) = Kept(t, u, m)
  <2>1. Placed(t, u, G) /\ (Pends(t2, u, {}) <=> Pends(t, u, G))
    BY <1>0, <1>3, <1>6 DEF Pends
  <2>2. t.bucket[u] \in MicroBags /\ t.partial[u] \in MicroBags
    BY <1>0, Counting
  <2>3. CASE u \in G
    <3>1. InBucket(t, u)
      BY <2>1, <2>3 DEF Placed, Pends
    <3>2. t2.bucket[u] # EmptyBag
      BY <1>1, <1>6, <2>2, <2>3, <3>1, SumCopies DEF InBucket, MicroBags
    <3>3. Placed(t2, u, {}) /\ (OnWay(t2, u) => OnWay(t, u))
      BY <1>6, <2>1, <3>1, <3>2
      DEF Placed, Scattering, Bucketing, Awaits, OneSource, Spent, OnWay, InRs, InBucket, InBoth
    <3>4. ASSUME NEW m \in Int PROVE Kept(t2, u, m) = Kept(t, u, m)
      <4>1. /\ Copies(m, t.grad[u]) \in Nat /\ Copies(m, t.acc[u]) \in Nat
            /\ Copies(m, t.bucket[u]) \in Nat /\ Copies(m, t.partial[u]) \in Nat
            /\ Copies(m, t.ar[u]) \in Nat
            /\ Copies(<<m, "shards">>, t.main[u]) \in Nat
            /\ Copies(<<m, "replicas">>, t.main[u]) \in Nat
        BY <1>0, Counting
      <4>2. Copies(m, t2.bucket[u]) = Copies(m, t.bucket[u]) + Copies(m, t.partial[u])
            /\ Copies(m, t2.partial[u]) = 0
        BY <1>1, <1>2, <1>6, <2>2, <2>3, SumCopies, NoCopies DEF MicroBags
      <4>3. Awaits(t2, u) <=> Awaits(t, u)
        BY <1>6 DEF Awaits, Scattering, Bucketing
      <4>. QED
        BY <1>6, <3>1, <3>2, <4>1, <4>2, <4>3 DEF Kept, InBucket
    <3>. QED
      BY <1>6, <3>3, <3>4 DEF OneSource
  <2>4. CASE u \notin G
    <3>1. t2.bucket[u] = t.bucket[u] /\ t2.partial[u] = t.partial[u]
      BY <1>1, <1>2, <1>6, <2>4
    <3>2. Placed(t2, u, {})
      BY <1>6, <2>1, <3>1
      DEF Placed, Scattering, Bucketing, Awaits, OneSource, Spent, OnWay, InRs, InBucket, InBoth
    <3>3. \A m \in Int : Kept(t2, u, m) = Kept(t, u, m)
      BY <1>6, <3>1 DEF Kept, Awaits, Scattering, Bucketing
    <3>. QED
      BY <1>6, <3>1, <3>2, <3>3 DEF OnWay, OneSource
  <2>. QED
    BY <2>3, <2>4
<1>8. SameFlags(t, t2) /\ t2.scheduler_state = t.scheduler_state
  BY <1>0, <1>4 DEF States, SameFlags
<1>9. ASSUME NEW u \in Units
      PROVE  /\ Lane(t, u, G) => Lane(t2, u, {})
             /\ Through(t, u, G) => Through(t2, u, {})
             /\ Loaded(t, u) => Loaded(t2, u)
  <2>1. /\ Pends(t2, u, {}) <=> Pends(t, u, G)
        /\ Scattering(t2, u) <=> Scattering(t, u)
        /\ Bucketing(t2, u) <=> Bucketing(t, u)
        /\ Spent(t2, u) <=> Spent(t, u)
    BY <1>3, <1>6 DEF Pends, Scattering, Bucketing, Spent
  <2>2. t2.partial[u] = IF u \in G THEN EmptyBag ELSE t.partial[u]
    BY <1>2, <1>6
  <2>. QED BY <1>6, <1>8, <2>1, <2>2 DEF Lane, Through, Loaded, Awaits, SameFlags
<1>10. Carried(t, G, t2, {}, {})
  BY <1>8, <1>9 DEF Carried
<1>. QED
  BY <1>5, <1>6, <1>7, <1>10 DEF Good, Moved, t2

LEMMA SplitAllReduceGood ==
    ASSUME NEW t, Good(t, {})
    PROVE  LET t2 == SplitAllReduce(t)
           IN  /\ Good(t2, {}) /\ Moved(t, t2, {}) /\ Carried(t, {}, t2, {}, {})
               /\ t2.pending_all_reduce_groups = <<>>
               /\ t2.pre_all_reduce_groups = t.pre_all_reduce_groups
               /\ t2.pre_reduce_scatter_params = t.pre_reduce_scatter_params
               /\ t2.pre_param_group = t.pre_param_group
               /\ t2.all_reduce_param_group = t.all_reduce_param_group
<1> DEFINE D == ToSet(t.pending_all_reduce_groups)
           b2 == Emptied(t.bucket, D)
           a2 == Replaced(t.ar, D, t.bucket)
           t2 == SplitAllReduce(t)
<1>0. t \in States /\ \A u \in Units : Placed(t, u, {})
  BY DEF Good
<1>1. a2 \in Bags1 /\ \A u \in Units : a2[u] = IF u \in D THEN t.bucket[u] ELSE t.ar[u]
  <2>1. t.ar \in [Units -> MicroBags] /\ t.bucket \in [Units -> MicroBags]
    BY <1>0 DEF States, Bags1
  <2>. QED BY <2>1, Replacing DEF Bags1
<1>2. b2 \in Bags1 /\ \A u \in Units : b2[u] = IF u \in D THEN EmptyBag ELSE t.bucket[u]
  BY <1>0, Emptying DEF States
<1>3. t2 = [t EXCEPT !.ar = a2, !.bucket = b2, !.pending_all_reduce_groups = <<>>]
  BY DEF SplitAllReduce
<1> HIDE DEF a2, b2, t2
<1>4. t2 \in States
  BY <1>0, <1>1, <1>2, <1>3, EmptySeq DEF States
<1>5. /\ t2.grad = t.grad /\ t2.acc = t.acc /\ t2.rs = t.rs /\ t2.partial = t.partial
      /\ t2.pre_reduce_scatter_params = t.pre_reduce_scatter_params
      /\ t2.pre_all_reduce_groups = t.pre_all_reduce_groups
      /\ t2.bucket = b2 /\ t2.ar = a2 /\ t2.main = t.main
      /\ t2.pending_all_reduce_groups = <<>>
      /\ t2.pre_param_group = t.pre_param_group
      /\ t2.all_reduce_param_group = t.all_reduce_param_group
  BY <1>0, <1>3 DEF States
<1>6. ASSUME NEW u \in Units
      PROVE  /\ Placed(t2, u, {}) /\ (OnWay(t2, u) => OnWay(t, u))
             /\ (OneSource(t, u) => OneSource(t2, u))
             /\ \A m \in Int : Kept(t2, u, m) = Kept(t, u, m)
  <2>1. Placed(t, u, {}) /\ ~Pends(t2, u, {}) /\ (Pends(t, u, {}) <=> u \in D)
        /\ (Awaits(t2, u) <=> Awaits(t, u))
    BY <1>0, <1>5, Empty DEF Pends, Awaits, Scattering, Bucketing
  <2>2. Placed(t2, u, {}) /\ (OnWay(t2, u) => OnWay(t, u))
    BY <1>1, <1>2, <1>5, <2>1
    DEF Placed, Scattering, Bucketing, Awaits, OneSource, Spent, OnWay, InRs, InBucket, InBoth
  <2>3. ASSUME NEW m \in Int PROVE Kept(t2, u, m) = Kept(t, u, m)
    <3>1. /\ Copies(m, t.grad[u]) \in Nat /\ Copies(m, t.acc[u]) \in Nat
          /\ Copies(m, t.bucket[u]) \in Nat /\ Copies(m, t.partial[u]) \in Nat
          /\ Copies(m, t.rs[u]) \in Nat /\ Copies(m, t.ar[u]) \in Nat
          /\ Copies(<<m, "shards">>, t.main[u]) \in Nat
          /\ Copies(<<m, "replicas">>, t.main[u]) \in Nat
          /\ Copies(m, EmptyBag) = 0
      BY <1>0, Counting, NoCopies
    <3>2. CASE u \in D
      <4>1. /\ t.rs[u] = EmptyBag /\ t.bucket[u] # EmptyBag /\ t.ar[u] = EmptyBag
            /\ t2.rs[u] = EmptyBag /\ t2.bucket[u] = EmptyBag /\ t2.ar[u] = t.bucket[u]
        BY <1>1, <1>2, <1>5, <2>1, <3>2 DEF Placed, InBucket
      <4>. QED
        BY <1>5, <2>1, <3>1, <4>1 DEF Kept
    <3>3. CASE u \notin D
      <4>1. t2.bucket[u] = t.bucket[u] /\ t2.ar[u] = t.ar[u]
        BY <1>1, <1>2, <1>5, <3>3
      <4>. QED
        BY <1>5, <2>1, <4>1 DEF Kept
    <3>. QED
      BY <3>2, <3>3
  <2>. QED
    BY <1>5, <2>2, <2>3 DEF OneSource
<1>7. SameFlags(t, t2) /\ t2.scheduler_state = t.scheduler_state
  BY <1>0, <1>3 DEF States, SameFlags
<1>8. ASSUME NEW u \in Units
      PROVE  /\ Lane(t, u, {}) => Lane(t2, u, {})
             /\ Through(t, u, {}) => Through(t2, u, {})
             /\ Loaded(t, u) => Loaded(t2, u)
  <2>1. /\ ~Pends(t2, u, {}) /\ (Pends(t, u, {}) <=> u \in D)
        /\ Scattering(t2, u) <=> Scattering(t, u)
        /\ Bucketing(t2, u) <=> Bucketing(t, u)
        /\ Spent(t2, u) <=> Spent(t, u)
    BY <1>5, Empty DEF Pends, Scattering, Bucketing, Spent
  <2>2. u \notin D => t2.ar[u] = t.ar[u]
    BY <1>1, <1>5
  <2>. QED BY <1>5, <1>7, <2>1, <2>2 DEF Lane, Through, Loaded, Awaits, SameFlags
<1>9. Carried(t, {}, t2, {}, {})
  BY <1>7, <1>8 DEF Carried
<1>. QED
  BY <1>4, <1>5, <1>6, <1>9 DEF Good, Moved, t2

LEMMA SaveAllReduceGood ==
    ASSUME NEW t, Good(t, {})
    PROVE  LET t2 == SaveAllReduce(t)
           IN  /\ Good(t2, {}) /\ Moved(t, t2, {}) /\ Carried(t, {}, t2, {}, {})
               /\ t2.all_reduce_param_group = NoUnit
               /\ t2.pre_param_group = t.pre_param_group
<1> DEFINE v == t.all_reduce_param_group
           t2 == SaveAllReduce(t)
<1>0. t \in States /\ v \in Units \cup {NoUnit} /\ \A u \in Units : Placed(t, u, {})
  BY DEF Good, States
<1>1. CASE v = NoUnit
  <2>1. t2 = t
    BY <1>1 DEF SaveAllReduce
  <2> HIDE DEF t2
  <2>. QED BY <1>1, <2>1, CarriedSame DEF Moved, t2
<1>2. CASE v # NoUnit
  <2> DEFINE b2 == [t.bucket EXCEPT ![v] = EmptyBag]
             a2 == [t.ar EXCEPT ![v] = t.bucket[v]]
  <2>0. v \in Units
    BY <1>0, <1>2
  <2>1. b2 \in Bags1 /\ a2 \in Bags1
    <3>1. EmptyBag \in MicroBags /\ t.bucket[v] \in MicroBags
      BY <1>0, <2>0, Counting, NoCopies DEF MicroBags
    <3>. QED BY <1>0, <2>0, <3>1 DEF States, Bags1
  <2>2. \A u \in Units : /\ b2[u] = IF u = v THEN EmptyBag ELSE t.bucket[u]
                         /\ a2[u] = IF u = v THEN t.bucket[u] ELSE t.ar[u]
    BY <1>0, <2>0 DEF States, Bags1
  <2>3. t2 = [t EXCEPT !.ar = a2, !.bucket = b2, !.all_reduce_param_group = NoUnit]
    BY <1>2 DEF SaveAllReduce
  <2> DEFINE w == v
  <2> HIDE DEF a2, b2, t2
  <2>4. t2 \in States
    BY <1>0, <2>1, <2>3 DEF States
  <2>5. /\ t2.grad = t.grad /\ t2.acc = t.acc /\ t2.rs = t.rs /\ t2.partial = t.partial
        /\ t2.pre_reduce_scatter_params = t.pre_reduce_scatter_params
        /\ t2.pre_all_reduce_groups = t.pre_all_reduce_groups
        /\ t2.bucket = b2 /\ t2.ar = a2 /\ t2.main = t.main
        /\ t2.pending_all_reduce_groups = t.pending_all_reduce_groups
        /\ t2.pre_param_group = t.pre_param_group
        /\ t2.all_reduce_param_group = NoUnit
    BY <1>0, <2>3 DEF States
  <2>6. ASSUME NEW u \in Units
        PROVE  /\ Placed(t2, u, {}) /\ (OnWay(t2, u) => OnWay(t, u))
               /\ (OneSource(t, u) => OneSource(t2, u))
               /\ \A m \in Int : Kept(t2, u, m) = Kept(t, u, m)
    <3>1. Placed(t, u, {}) /\ (Pends(t2, u, {}) <=> Pends(t, u, {})) /\ u # NoUnit
          /\ (Awaits(t2, u) <=> Awaits(t, u))
      BY <1>0, <2>5 DEF Pends, Awaits, Scattering, Bucketing, Units, NoUnit
    <3>2. Placed(t2, u, {}) /\ (OnWay(t2, u) => OnWay(t, u))
      BY <2>2, <2>5, <3>1
      DEF Placed, Scattering, Bucketing, Awaits, OneSource, Spent, OnWay, InRs, InBucket, InBoth
    <3>3. ASSUME NEW m \in Int PROVE Kept(t2, u, m) = Kept(t, u, m)
      <4>1. /\ Copies(m, t.grad[u]) \in Nat /\ Copies(m, t.acc[u]) \in Nat
            /\ Copies(m, t.bucket[u]) \in Nat /\ Copies(m, t.partial[u]) \in Nat
            /\ Copies(m, t.rs[u]) \in Nat /\ Copies(m, t.ar[u]) \in Nat
            /\ Copies(<<m, "shards">>, t.main[u]) \in Nat
            /\ Copies(<<m, "replicas">>, t.main[u]) \in Nat
            /\ Copies(m, EmptyBag) = 0
        BY <1>0, Counting, NoCopies
      <4>2. CASE u = v
        <5>1. /\ t.rs[u] = EmptyBag /\ t.bucket[u] # EmptyBag /\ t.ar[u] = EmptyBag
              /\ t2.rs[u] = EmptyBag /\ t2.bucket[u] = EmptyBag /\ t2.ar[u] = t.bucket[u]
          BY <2>2, <2>5, <3>1, <4>2 DEF Placed, InBucket
        <5>. QED
          BY <2>5, <3>1, <4>1, <5>1 DEF Kept
      <4>3. CASE u # v
        <5>1. t2.bucket[u] = t.bucket[u] /\ t2.ar[u] = t.ar[u]
          BY <2>2, <2>5, <4>3
        <5>. QED
          BY <2>5, <3>1, <5>1 DEF Kept
      <4>. QED
        BY <4>2, <4>3
    <3>. QED
      BY <2>5, <3>2, <3>3 DEF OneSource
  <2>7. SameFlags(t, t2) /\ t2.scheduler_state = t.scheduler_state
    BY <1>0, <2>3 DEF States, SameFlags
  <2>8. ASSUME NEW u \in Units
        PROVE  /\ Lane(t, u, {}) => Lane(t2, u, {})
               /\ Through(t, u, {}) => Through(t2, u, {})
               /\ Loaded(t, u) => Loaded(t2, u)
    <3>1. /\ Pends(t2, u, {}) <=> Pends(t, u, {})
          /\ Scattering(t2, u) <=> Scattering(t, u)
          /\ Bucketing(t2, u) <=> Bucketing(t, u)
          /\ Spent(t2, u) <=> Spent(t, u)
          /\ u # NoUnit
      BY <2>5 DEF Pends, Scattering, Bucketing, Spent, Units, NoUnit
    <3>2. t.all_reduce_param_group # u => t2.ar[u] = t.ar[u]
      BY <2>2, <2>5
    <3>. QED BY <2>5, <2>7, <3>1, <3>2 DEF Lane, Through, Loaded, Awaits, SameFlags
  <2>9. Carried(t, {}, t2, {}, {})
    BY <2>7, <2>8 DEF Carried
  <2>. QED
    BY <2>4, <2>5, <2>6, <2>9 DEF Good, Moved, t2
<1>. QED
  BY <1>1, <1>2

LEMMA AdvanceFusedGood ==
    ASSUME NEW t, Good(t, {}), t.all_reduce_param_group = NoUnit
    PROVE  LET t2 == AdvanceFused(t)
           IN  /\ Good(t2, {}) /\ Moved(t, t2, {}) /\ Carried(t, {}, t2, {}, {})
               /\ t2.pre_param_group = NoUnit
<1> DEFINE v == t.pre_param_group
           sum == t.bucket[v] (+) t.partial[v]
           part == ~t.requires_all_reduce
           more == t.requires_all_reduce /\ cfg.hsdp
           t2 == AdvanceFused(t)
<1>0. t \in States /\ v \in Units \cup {NoUnit} /\ \A u \in Units : Placed(t, u, {})
  BY DEF Good, States
<1>1. CASE v = NoUnit
  <2>1. t2 = t
    BY <1>1 DEF AdvanceFused
  <2> HIDE DEF t2
  <2>. QED BY <1>1, <2>1, CarriedSame DEF Moved, t2
<1>2. CASE v # NoUnit
  <2> DEFINE b2 == [t.bucket EXCEPT ![v] = IF more THEN sum ELSE EmptyBag]
             p2 == [t.partial EXCEPT ![v] = IF part THEN sum ELSE EmptyBag]
             r2 == IF part \/ more THEN t.rs ELSE [t.rs EXCEPT ![v] = sum]
             next == IF more THEN v ELSE NoUnit
  <2>0. v \in Units /\ InBucket(t, v)
    BY <1>0, <1>2 DEF Placed
  <2>1. /\ EmptyBag \in MicroBags /\ t.bucket[v] \in MicroBags /\ t.partial[v] \in MicroBags
        /\ sum \in MicroBags /\ sum # EmptyBag
        /\ \A m : Copies(m, sum) = Copies(m, t.bucket[v]) + Copies(m, t.partial[v])
    <3>1. EmptyBag \in MicroBags /\ t.bucket[v] \in MicroBags /\ t.partial[v] \in MicroBags
      BY <1>0, <2>0, Counting, NoCopies DEF MicroBags
    <3>. QED BY <2>0, <3>1, SumCopies DEF MicroBags, InBucket
  <2> HIDE DEF sum
  <2>2. b2 \in Bags1 /\ p2 \in Bags1 /\ r2 \in Bags1 /\ next \in Units \cup {NoUnit}
    BY <1>0, <2>0, <2>1 DEF States, Bags1
  <2>3. \A u \in Units :
          /\ b2[u] = IF u = v THEN (IF more THEN sum ELSE EmptyBag) ELSE t.bucket[u]
          /\ p2[u] = IF u = v THEN (IF part THEN sum ELSE EmptyBag) ELSE t.partial[u]
          /\ r2[u] = IF u = v /\ ~part /\ ~more THEN sum ELSE t.rs[u]
    BY <1>0, <2>0 DEF States, Bags1
  <2>4. t2 = [t EXCEPT !.pre_param_group = NoUnit, !.bucket = b2, !.partial = p2, !.rs = r2,
                       !.all_reduce_param_group = next]
    <3> DEFINE r == [t EXCEPT !.pre_param_group = NoUnit]
    <3>1. t2 = IF part THEN [r EXCEPT !.partial[v] = sum, !.bucket[v] = EmptyBag]
               ELSE IF cfg.hsdp
                    THEN [r EXCEPT !.bucket[v] = sum, !.partial[v] = EmptyBag,
                                   !.all_reduce_param_group = v]
               ELSE [r EXCEPT !.rs[v] = sum, !.bucket[v] = EmptyBag, !.partial[v] = EmptyBag]
      BY <1>2 DEF AdvanceFused, sum
    <3> HIDE DEF t2
    <3>2. CASE part
      BY <1>0, <3>1, <3>2 DEF States
    <3>3. CASE ~part /\ cfg.hsdp
      BY <1>0, <3>1, <3>3 DEF States
    <3>4. CASE ~part /\ ~cfg.hsdp
      BY <1>0, <3>1, <3>4 DEF States
    <3>. QED BY <3>2, <3>3, <3>4
  <2> HIDE DEF b2, p2, r2, t2
  <2> HIDE DEF next
  <2>5. t2 \in States
    <3>1. t \in States
      BY <1>0
    <3>2. b2 \in Bags1 /\ p2 \in Bags1 /\ r2 \in Bags1 /\ next \in Units \cup {NoUnit}
          /\ NoUnit \in Units \cup {NoUnit}
      BY <2>2
    <3>. QED
      BY <2>4, <3>1, <3>2 DEF States
  <2> USE DEF next
  <2>6. /\ t2.grad = t.grad /\ t2.acc = t.acc /\ t2.rs = r2 /\ t2.partial = p2
        /\ t2.pre_reduce_scatter_params = t.pre_reduce_scatter_params
        /\ t2.pre_all_reduce_groups = t.pre_all_reduce_groups
        /\ t2.bucket = b2 /\ t2.ar = t.ar /\ t2.main = t.main
        /\ t2.pending_all_reduce_groups = t.pending_all_reduce_groups
        /\ t2.pre_param_group = NoUnit
        /\ t2.all_reduce_param_group = next
    BY <1>0, <2>4 DEF States
  <2>7. ASSUME NEW u \in Units
        PROVE  /\ Placed(t2, u, {}) /\ (OnWay(t2, u) => OnWay(t, u))
               /\ (OneSource(t, u) => OneSource(t2, u))
               /\ \A m \in Int : Kept(t2, u, m) = Kept(t, u, m)
    <3>1. Placed(t, u, {}) /\ (Pends(t2, u, {}) <=> Pends(t, u, {})) /\ u # NoUnit
          /\ (Awaits(t2, u) <=> Awaits(t, u))
      BY <1>0, <2>6 DEF Pends, Awaits, Scattering, Bucketing, Units, NoUnit
    <3>2. CASE u = v
      <4>1. ~Scattering(t, u) /\ ~Bucketing(t, u) /\ ~Pends(t, u, {}) /\ Spent(t, u)
        BY <2>0, <3>1, <3>2 DEF Placed, InRs, InBoth, InBucket, Awaits, OnWay
      <4>2. /\ t2.bucket[u] = IF more THEN sum ELSE EmptyBag
            /\ t2.partial[u] = IF part THEN sum ELSE EmptyBag
            /\ t2.rs[u] = IF part \/ more THEN EmptyBag ELSE sum
            /\ t2.ar[u] = EmptyBag
        BY <2>0, <2>3, <2>6, <3>2 DEF InBucket
      <4>3. Placed(t2, u, {}) /\ (OnWay(t2, u) => OnWay(t, u))
        BY <2>0, <2>1, <2>6, <3>1, <3>2, <4>1, <4>2
        DEF Placed, Scattering, Bucketing, Awaits, OneSource, Spent, OnWay, InRs, InBucket, InBoth
      <4>4. ASSUME NEW m \in Int PROVE Kept(t2, u, m) = Kept(t, u, m)
        <5>1. /\ Copies(m, t.grad[u]) \in Nat /\ Copies(m, t.acc[u]) \in Nat
              /\ Copies(m, t.bucket[u]) \in Nat /\ Copies(m, t.partial[u]) \in Nat
              /\ Copies(<<m, "shards">>, t.main[u]) \in Nat
              /\ Copies(<<m, "replicas">>, t.main[u]) \in Nat
              /\ Copies(m, EmptyBag) = 0
              /\ Copies(m, sum) = Copies(m, t.bucket[u]) + Copies(m, t.partial[u])
          BY <1>0, <2>1, <3>2, Counting, NoCopies
        <5>2. t.rs[u] = EmptyBag /\ t.ar[u] = EmptyBag /\ t.bucket[u] # EmptyBag /\ sum # EmptyBag
          BY <2>0, <2>1, <3>2 DEF InBucket
        <5>3. CASE part
          BY <2>6, <3>1, <4>2, <5>1, <5>2, <5>3 DEF Kept
        <5>4. CASE more
          BY <2>6, <3>1, <4>2, <5>1, <5>2, <5>4 DEF Kept
        <5>5. CASE ~part /\ ~more
          BY <2>6, <3>1, <4>2, <5>1, <5>2, <5>5 DEF Kept
        <5>. QED BY <5>3, <5>4, <5>5
      <4>. QED
        BY <2>6, <4>3, <4>4 DEF OneSource
    <3>3. CASE u # v
      <4>1. t2.bucket[u] = t.bucket[u] /\ t2.partial[u] = t.partial[u] /\ t2.rs[u] = t.rs[u]
            /\ next # u
        BY <2>3, <2>6, <3>1, <3>3
      <4>2. Placed(t2, u, {})
        BY <2>6, <3>1, <3>3, <4>1
        DEF Placed, Scattering, Bucketing, Awaits, OneSource, Spent, OnWay, InRs, InBucket, InBoth
      <4>3. \A m \in Int : Kept(t2, u, m) = Kept(t, u, m)
        BY <2>6, <3>1, <4>1 DEF Kept
      <4>. QED
        BY <2>6, <4>1, <4>2, <4>3 DEF OnWay, OneSource
    <3>. QED
      BY <3>2, <3>3
  <2>8. SameFlags(t, t2) /\ t2.scheduler_state = t.scheduler_state
    <3> HIDE DEF next
    <3>. QED BY <1>0, <2>4 DEF States, SameFlags
  <2>9. ASSUME NEW u \in Units
        PROVE  /\ Lane(t, u, {}) => Lane(t2, u, {})
               /\ t.requires_all_reduce /\ Through(t, u, {}) => Through(t2, u, {})
               /\ Loaded(t, u) => Loaded(t2, u)
    <3>1. /\ Pends(t2, u, {}) <=> Pends(t, u, {})
          /\ Scattering(t2, u) <=> Scattering(t, u)
          /\ Bucketing(t2, u) <=> Bucketing(t, u)
          /\ Spent(t2, u) <=> Spent(t, u)
          /\ u # NoUnit
      BY <2>6 DEF Pends, Scattering, Bucketing, Spent, Units, NoUnit
    <3>2. /\ t.requires_all_reduce => t2.partial[u] = IF u = v THEN EmptyBag ELSE t.partial[u]
          /\ cfg.hsdp => t2.rs[u] = t.rs[u]
          /\ ~cfg.hsdp => t2.all_reduce_param_group = NoUnit
      BY <2>3, <2>6
    <3>3. Lane(t, u, {}) => Lane(t2, u, {})
      BY <2>6, <2>8, <3>1, <3>2 DEF Lane, Awaits, SameFlags
    <3>. QED BY <2>6, <3>1, <3>2, <3>3 DEF Through, Loaded, Awaits
  <2>10. Carried(t, {}, t2, {}, {})
    BY <2>8, <2>9 DEF Carried
  <2>. QED
    BY <2>5, <2>6, <2>7, <2>10 DEF Good, Moved, t2
<1>. QED
  BY <1>1, <1>2

LEMMA IssueFusedGood ==
    ASSUME NEW t, Good(t, {}), NEW v \in Units, OneSource(t, v), cfg.fused,
           t.pre_param_group = NoUnit
    PROVE  LET t2 == IssueFused(t, v)
           IN  /\ Good(t2, {}) /\ Moved(t, t2, {v}) /\ Carried(t, {}, t2, {}, {v})
               /\ ~Spent(t, v) => Through(t2, v, {})
<1> DEFINE g == Source(t, v)
           t2 == IssueFused(t, v)
<1>0. t \in States /\ \A u \in Units : Placed(t, u, {}) /\ ~Awaits(t, u)
  BY Empty DEF Good, Awaits, Scattering, Bucketing
<1>1. CASE g = EmptyBag
  <2>1. t2 = t
    BY <1>1 DEF IssueFused
  <2>2. Spent(t, v)
    BY <1>1 DEF Spent, Source, OneSource
  <2> HIDE DEF t2
  <2>. QED BY <2>1, <2>2, CarriedSame DEF Moved, t2
<1>2. CASE g # EmptyBag
  <2> DEFINE b2 == [t.bucket EXCEPT ![v] = g]
             d == [t EXCEPT !.bucket = b2, !.pre_param_group = v]
             c == ClearSource(d, {v})
  <2>1. g \in MicroBags
    BY <1>0, Counting DEF Source
  <2>2. b2 \in Bags1 /\ \A u \in Units : b2[u] = IF u = v THEN g ELSE t.bucket[u]
    BY <1>0, <2>1 DEF States, Bags1
  <2>3. t2 = c
    BY <1>2 DEF IssueFused
  <2> HIDE DEF g, b2
  <2>4. d \in States /\ d.acc = t.acc /\ d.grad = t.grad
    BY <1>0, <2>2 DEF States
  <2> HIDE DEF t2
  <2>5. Cleared(d, c, {v})
    <3> HIDE DEF d
    <3>. QED BY <2>4, Clearing
  <2> HIDE DEF c
  <2>6. c \in States /\ c = [d EXCEPT !.acc = c.acc, !.grad = c.grad]
        /\ \A u \in Units :
             /\ c.acc[u] = IF u = v THEN EmptyBag ELSE t.acc[u]
             /\ c.grad[u] = IF u = v /\ t.acc[u] = EmptyBag THEN EmptyBag ELSE t.grad[u]
    BY <2>4, <2>5 DEF Cleared
  <2>7. /\ t2.rs = t.rs /\ t2.partial = t.partial
        /\ t2.pre_reduce_scatter_params = t.pre_reduce_scatter_params
        /\ t2.pre_all_reduce_groups = t.pre_all_reduce_groups
        /\ t2.bucket = b2 /\ t2.ar = t.ar /\ t2.main = t.main
        /\ t2.pending_all_reduce_groups = t.pending_all_reduce_groups
        /\ t2.pre_param_group = v
        /\ t2.all_reduce_param_group = t.all_reduce_param_group
    <3> HIDE DEF d
    <3>1. /\ c.rs = d.rs /\ c.partial = d.partial
        /\ c.pre_reduce_scatter_params = d.pre_reduce_scatter_params
        /\ c.pre_all_reduce_groups = d.pre_all_reduce_groups
        /\ c.bucket = d.bucket /\ c.ar = d.ar /\ c.main = d.main
        /\ c.pending_all_reduce_groups = d.pending_all_reduce_groups
        /\ c.pre_param_group = d.pre_param_group
        /\ c.all_reduce_param_group = d.all_reduce_param_group
      BY <2>4, <2>6 DEF States
    <3>2. /\ d.rs = t.rs /\ d.partial = t.partial
        /\ d.pre_reduce_scatter_params = t.pre_reduce_scatter_params
        /\ d.pre_all_reduce_groups = t.pre_all_reduce_groups
        /\ d.bucket = b2 /\ d.ar = t.ar /\ d.main = t.main
        /\ d.pending_all_reduce_groups = t.pending_all_reduce_groups
        /\ d.pre_param_group = v
        /\ d.all_reduce_param_group = t.all_reduce_param_group
      BY <1>0 DEF States, d
    <3>. QED BY <2>3, <3>1, <3>2
  <2>8. ASSUME NEW u \in Units
        PROVE  /\ Placed(t2, u, {}) /\ (OnWay(t2, u) => OnWay(t, u) \/ u \in {v})
               /\ (OneSource(t, u) => OneSource(t2, u))
               /\ \A m \in Int : Kept(t2, u, m) = Kept(t, u, m)
    <3>1. /\ Placed(t, u, {}) /\ (Pends(t2, u, {}) <=> Pends(t, u, {})) /\ u # NoUnit
          /\ ~Awaits(t, u) /\ ~Awaits(t2, u) /\ ~Scattering(t2, u) /\ ~Bucketing(t2, u)
      BY <1>0, <2>7 DEF Pends, Awaits, Scattering, Bucketing, Units, NoUnit
    <3>2. CASE u = v
      <4>1. ~OnWay(t, u) /\ ~Pends(t, u, {}) /\ t.all_reduce_param_group # u
        BY <1>2, <3>1, <3>2 DEF Placed, Spent, Source, g, OnWay, InBucket
      <4>2. /\ t2.rs[u] = EmptyBag /\ t2.ar[u] = EmptyBag /\ t2.bucket[u] = g
            /\ Spent(t2, u)
        BY <2>2, <2>3, <2>6, <2>7, <3>2, <4>1 DEF OnWay, OneSource, Spent
      <4>3. Placed(t2, u, {}) /\ OneSource(t2, u)
        <5>1. InBucket(t2, u) /\ OneSource(t2, u)
          BY <1>2, <4>2 DEF InBucket, OneSource, Spent
        <5>2. t2.pre_param_group = u /\ t2.all_reduce_param_group # u
          BY <2>7, <3>2, <4>1
        <5>. QED
          BY <3>1, <4>1, <4>2, <5>1, <5>2 DEF Placed
      <4>4. ASSUME NEW m \in Int PROVE Kept(t2, u, m) = Kept(t, u, m)
        <5>1. /\ Copies(m, t.grad[u]) \in Nat /\ Copies(m, t.acc[u]) \in Nat
              /\ Copies(m, t.partial[u]) \in Nat
              /\ Copies(<<m, "shards">>, t.main[u]) \in Nat
              /\ Copies(<<m, "replicas">>, t.main[u]) \in Nat
              /\ Copies(m, EmptyBag) = 0
          BY <1>0, Counting, NoCopies
        <5>2. Copies(m, g) = Copies(m, t.grad[u]) + Copies(m, t.acc[u])
          BY <3>2, <5>1 DEF OneSource, Source, g
        <5>. QED
          BY <1>2, <2>7, <3>1, <4>1, <4>2, <5>1, <5>2 DEF Kept, OnWay, Spent
      <4>. QED
        BY <3>2, <4>3, <4>4
    <3>3. CASE u # v
      <4>1. t2.bucket[u] = t.bucket[u] /\ t2.grad[u] = t.grad[u] /\ t2.acc[u] = t.acc[u]
        BY <2>2, <2>3, <2>6, <2>7, <3>3
      <4>2. Placed(t2, u, {})
        BY <2>7, <3>1, <3>3, <4>1
        DEF Placed, Scattering, Bucketing, Awaits, OneSource, Spent, OnWay, InRs, InBucket, InBoth
      <4>3. \A m \in Int : Kept(t2, u, m) = Kept(t, u, m)
        BY <2>7, <3>1, <4>1 DEF Kept
      <4>. QED
        BY <2>7, <4>1, <4>2, <4>3 DEF OnWay, OneSource
    <3>. QED
      BY <3>2, <3>3
  <2>9. SameFlags(t, t2) /\ t2.scheduler_state = t.scheduler_state
    <3>1. /\ d.requires_all_reduce = t.requires_all_reduce /\ d.reduce_grads = t.reduce_grads
          /\ d.scheduler_state = t.scheduler_state
      BY <1>0 DEF States
    <3> HIDE DEF d
    <3>2. /\ c.requires_all_reduce = d.requires_all_reduce /\ c.reduce_grads = d.reduce_grads
          /\ c.scheduler_state = d.scheduler_state
      BY <2>4, <2>6 DEF States
    <3>. QED BY <2>3, <3>1, <3>2 DEF SameFlags
  <2>10. ASSUME NEW u \in Units
         PROVE  /\ Lane(t, u, {}) => Lane(t2, u, {})
                /\ Through(t, u, {}) => Through(t2, u, {})
                /\ u # v => (Loaded(t, u) => Loaded(t2, u))
                /\ u = v => Through(t2, u, {})
    <3>1. /\ Pends(t2, u, {}) <=> Pends(t, u, {})
          /\ ~Awaits(t, u) /\ ~Awaits(t2, u)
          /\ ~Scattering(t2, u) /\ ~Bucketing(t2, u)
          /\ u # NoUnit
      BY <1>0, <2>7 DEF Pends, Awaits, Scattering, Bucketing, Units, NoUnit
    <3>2. /\ u # v => (Spent(t2, u) <=> Spent(t, u))
          /\ u = v => Spent(t2, u)
      BY <2>3, <2>6 DEF Spent, OneSource
    <3>3. Lane(t, u, {}) => Lane(t2, u, {})
      BY <2>7, <2>9, <3>1 DEF Lane, SameFlags
    <3>. QED BY <2>7, <3>1, <3>2, <3>3 DEF Through, Loaded
  <2>11. Carried(t, {}, t2, {}, {v})
    BY <2>9, <2>10 DEF Carried
  <2>. QED
    BY <2>3, <2>6, <2>7, <2>8, <2>10, <2>11 DEF Good, Moved, t2
<1>. QED
  BY <1>1, <1>2

NothingQueued(t) ==
  /\ t.pre_reduce_scatter_params = <<>> /\ t.pre_all_reduce_groups = <<>>
  /\ t.pending_all_reduce_groups = <<>>
  /\ t.pre_param_group = NoUnit /\ t.all_reduce_param_group = NoUnit

LEMMA ApplyReducedGood ==
    ASSUME NEW t, Good(t, {}), NothingQueued(t)
    PROVE  LET t2 == ApplyReduced(t)
           IN  /\ Good(t2, {}) /\ Moved(t, t2, {}) /\ Carried(t, {}, t2, {}, {})
               /\ \A u \in Units : ~OnWay(t2, u)
<1> DEFINE R == [u \in Units |-> IF t.ar[u] # EmptyBag THEN Tagged(t.ar[u], "replicas")
                                 ELSE Tagged(t.rs[u], "shards")]
           D == {u \in Units : R[u] # EmptyBag}
           c == ClearSource(t, D)
           m2 == Added(t.main, D, R)
           a2 == Emptied(t.ar, D)
           r2 == Emptied(t.rs, D)
           t2 == ApplyReduced(t)
<1>0. t \in States /\ D \in SUBSET Units
      /\ \A u \in Units : Placed(t, u, {}) /\ ~Scattering(t, u) /\ ~Bucketing(t, u)
                          /\ ~Pends(t, u, {}) /\ u # NoUnit
  BY Empty DEF Good, NothingQueued, Scattering, Bucketing, Pends, Units, NoUnit
<1>1. \A u \in Units : t.ar[u] \in MicroBags /\ t.rs[u] \in MicroBags /\ t.main[u] \in LevelBags
  BY <1>0, Counting
<1>2. ASSUME NEW u \in Units
      PROVE  /\ R[u] \in LevelBags
             /\ R[u] = EmptyBag <=> t.ar[u] = EmptyBag /\ t.rs[u] = EmptyBag
             /\ \A m \in Int :
                  /\ Copies(<<m, "shards">>, R[u])
                        = IF t.ar[u] = EmptyBag THEN Copies(m, t.rs[u]) ELSE 0
                  /\ Copies(<<m, "replicas">>, R[u])
                        = IF t.ar[u] = EmptyBag THEN 0 ELSE Copies(m, t.ar[u])
  <2>1. "shards" \in Levels /\ "replicas" \in Levels /\ "shards" # "replicas"
    BY DEF Levels
  <2>2. R[u] = IF t.ar[u] # EmptyBag THEN Tagged(t.ar[u], "replicas") ELSE Tagged(t.rs[u], "shards")
    OBVIOUS
  <2> HIDE DEF R
  <2>3. CASE t.ar[u] = EmptyBag
    <3>1. R[u] = Tagged(t.rs[u], "shards") /\ t.rs[u] \in MicroBags
      BY <1>1, <2>2, <2>3
    <3>. QED BY <2>1, <2>3, <3>1, TaggedCopies
  <2>4. CASE t.ar[u] # EmptyBag
    <3>1. R[u] = Tagged(t.ar[u], "replicas") /\ t.ar[u] \in MicroBags
      BY <1>1, <2>2, <2>4
    <3>. QED BY <2>1, <2>4, <3>1, TaggedCopies
  <2>. QED BY <2>3, <2>4
<1>3. m2 \in [Units -> LevelBags]
      /\ \A u \in Units : m2[u] = IF u \in D THEN t.main[u] (+) R[u] ELSE t.main[u]
  <2>1. R \in [Units -> LevelBags]
    BY <1>2
  <2>2. t.main \in [Units -> LevelBags]
    BY <1>0 DEF States
  <2> DEFINE X == Int \X Levels
  <2>3. R \in [Units -> BagsOver(X)] /\ t.main \in [Units -> BagsOver(X)]
        /\ LevelBags = BagsOver(X)
    BY <2>1, <2>2 DEF LevelBags
  <2> HIDE DEF R, D, X
  <2>. QED BY <2>3, Adding
<1>4. /\ a2 \in Bags1 /\ r2 \in Bags1
      /\ \A u \in Units : /\ a2[u] = IF u \in D THEN EmptyBag ELSE t.ar[u]
                          /\ r2[u] = IF u \in D THEN EmptyBag ELSE t.rs[u]
  <2>1. t.ar \in Bags1 /\ t.rs \in Bags1
    BY <1>0 DEF States
  <2> HIDE DEF R, D
  <2>. QED BY <2>1, Emptying
<1>5. Cleared(t, c, D)
  <2> HIDE DEF R, D
  <2>. QED BY <1>0, Clearing
<1>6. c \in States /\ c = [t EXCEPT !.acc = c.acc, !.grad = c.grad]
      /\ \A u \in Units :
           /\ c.acc[u] = IF u \in D THEN EmptyBag ELSE t.acc[u]
           /\ c.grad[u] = IF u \in D /\ t.acc[u] = EmptyBag THEN EmptyBag ELSE t.grad[u]
  <2> HIDE DEF c, D
  <2>. QED BY <1>5 DEF Cleared
<1>7. t2 = [c EXCEPT !.main = m2, !.ar = a2, !.rs = r2]
  <2>1. c.main = t.main /\ c.ar = t.ar /\ c.rs = t.rs
    <3> HIDE DEF c
    <3>. QED BY <1>0, <1>6 DEF States
  <2>2. t2 = [c EXCEPT !.main = Added(c.main, D, R), !.ar = Emptied(c.ar, D), !.rs = Emptied(c.rs, D)]
    BY DEF ApplyReduced
  <2> HIDE DEF c, D, R, t2
  <2>. QED BY <2>1, <2>2
<1> HIDE DEF c, m2, a2, r2, t2, R
<1>8. t2 \in States
  BY <1>3, <1>4, <1>6, <1>7 DEF States
<1>9. /\ t2.grad = c.grad /\ t2.acc = c.acc /\ t2.rs = r2 /\ t2.partial = t.partial
      /\ t2.pre_reduce_scatter_params = t.pre_reduce_scatter_params
      /\ t2.pre_all_reduce_groups = t.pre_all_reduce_groups
      /\ t2.bucket = t.bucket /\ t2.ar = a2 /\ t2.main = m2
      /\ t2.pending_all_reduce_groups = t.pending_all_reduce_groups
      /\ t2.pre_param_group = t.pre_param_group
      /\ t2.all_reduce_param_group = t.all_reduce_param_group
  BY <1>0, <1>6, <1>7 DEF States
<1>10. ASSUME NEW u \in Units
       PROVE  /\ Placed(t2, u, {}) /\ ~OnWay(t2, u)
              /\ (OneSource(t, u) => OneSource(t2, u))
              /\ \A m \in Int : Kept(t2, u, m) = Kept(t, u, m)
  <2>1. /\ Placed(t, u, {}) /\ ~Pends(t2, u, {}) /\ ~Awaits(t, u) /\ ~Awaits(t2, u)
        /\ ~Scattering(t2, u) /\ ~Bucketing(t2, u)
        /\ t.bucket[u] = EmptyBag
    BY <1>0, <1>9 DEF Pends, Awaits, Scattering, Bucketing, Placed, NothingQueued
  <2>2. /\ t2.rs[u] = EmptyBag /\ t2.ar[u] = EmptyBag /\ t2.bucket[u] = EmptyBag
    BY <1>2, <1>4, <1>9, <2>1
  <2>3. t2.acc[u] = t.acc[u] /\ t2.grad[u] = t.grad[u]
    <3>1. u \in D => Spent(t, u)
      BY <1>2, <2>1 DEF Placed, OnWay
    <3>. QED BY <1>6, <1>9, <3>1 DEF Spent
  <2>4. Placed(t2, u, {})
    BY <1>0, <1>9, <2>1, <2>2 DEF Placed, NothingQueued, OnWay
  <2>5. ASSUME NEW m \in Int PROVE Kept(t2, u, m) = Kept(t, u, m)
    <3> DEFINE x == <<m, "shards">>
               y == <<m, "replicas">>
    <3>1. /\ Copies(m, t.grad[u]) \in Nat /\ Copies(m, t.acc[u]) \in Nat
          /\ Copies(m, t.rs[u]) \in Nat /\ Copies(m, t.ar[u]) \in Nat
          /\ Copies(m, t.partial[u]) \in Nat
          /\ Copies(x, t.main[u]) \in Nat /\ Copies(y, t.main[u]) \in Nat
          /\ Copies(m, EmptyBag) = 0
      BY <1>0, Counting, NoCopies
    <3>2. t.rs[u] = EmptyBag \/ t.ar[u] = EmptyBag
      BY <2>1 DEF Placed
    <3>3. /\ Copies(x, t2.main[u]) = Copies(x, t.main[u]) + Copies(m, t.rs[u])
          /\ Copies(y, t2.main[u]) = Copies(y, t.main[u]) + Copies(m, t.ar[u])
      <4>1. CASE u \in D
        <5>1. t2.main[u] = t.main[u] (+) R[u] /\ R[u] \in LevelBags
          BY <1>2, <1>3, <1>9, <4>1
        <5>2. /\ Copies(x, t2.main[u]) = Copies(x, t.main[u]) + Copies(x, R[u])
              /\ Copies(y, t2.main[u]) = Copies(y, t.main[u]) + Copies(y, R[u])
          BY <1>1, <5>1, SumCopies DEF LevelBags
        <5>. QED
          BY <1>2, <3>1, <3>2, <5>2
      <4>2. CASE u \notin D
        <5>1. t2.main[u] = t.main[u] /\ t.rs[u] = EmptyBag /\ t.ar[u] = EmptyBag
          BY <1>2, <1>3, <1>9, <4>2
        <5>. QED BY <3>1, <5>1
      <4>. QED BY <4>1, <4>2
    <3> HIDE DEF x, y
    <3>4. Kept(t, u, m) = Copies(m, t.grad[u]) + Copies(m, t.acc[u]) + Copies(m, t.rs[u])
                          + Copies(m, t.partial[u]) + Copies(m, t.ar[u])
                          + Copies(x, t.main[u]) + Copies(y, t.main[u])
      BY <2>1 DEF Kept, x, y
    <3>5. Kept(t2, u, m) = Copies(m, t.grad[u]) + Copies(m, t.acc[u]) + 0
                          + Copies(m, t.partial[u]) + 0
                          + Copies(x, t2.main[u]) + Copies(y, t2.main[u])
      BY <1>9, <2>1, <2>2, <2>3, <3>1 DEF Kept, x, y
    <3>. QED
      BY <3>1, <3>3, <3>4, <3>5
  <2>. QED
    BY <2>2, <2>3, <2>4, <2>5 DEF OnWay, OneSource
<1>11. SameFlags(t, t2) /\ t2.scheduler_state = t.scheduler_state
  BY <1>0, <1>6, <1>7 DEF States, SameFlags
<1>12. ASSUME NEW u \in Units
       PROVE  /\ Lane(t, u, {}) => Lane(t2, u, {})
              /\ Through(t, u, {}) => Through(t2, u, {})
              /\ Loaded(t, u) => Loaded(t2, u)
  <2>1. /\ Pends(t2, u, {}) <=> Pends(t, u, {})
        /\ ~Awaits(t, u) /\ ~Awaits(t2, u) /\ ~Scattering(t2, u) /\ ~Bucketing(t2, u)
    BY <1>0, <1>9 DEF Pends, Awaits, Scattering, Bucketing
  <2>2. t2.acc[u] = t.acc[u] /\ t2.grad[u] = t.grad[u] /\ t2.rs[u] = EmptyBag
        /\ t2.ar[u] = EmptyBag
    <3>1. u \in D => Spent(t, u)
      BY <1>0, <1>2 DEF Placed, OnWay, Awaits
    <3>2. u \notin D => t.rs[u] = EmptyBag /\ t.ar[u] = EmptyBag
      BY <1>2
    <3>. QED BY <1>4, <1>6, <1>9, <3>1, <3>2 DEF Spent
  <2>3. ASSUME Lane(t, u, {}), NEW m \in Int PROVE Copies(<<m, Half>>, t2.main[u]) = 0
    <3> DEFINE e == <<m, Half>>
    <3>1. Copies(e, t.main[u]) = 0
      BY <2>3 DEF Lane
    <3>2. Copies(e, R[u]) = 0
      <4>1. CASE cfg.hsdp
        <5>1. t.rs[u] = EmptyBag /\ e = <<m, "shards">>
          BY <2>1, <2>3, <4>1 DEF Lane, Half
        <5>. QED BY <1>2, <5>1, NoCopies
      <4>2. CASE ~cfg.hsdp
        <5>1. t.ar[u] = EmptyBag /\ e = <<m, "replicas">>
          BY <2>3, <4>2 DEF Lane, Half
        <5>. QED BY <1>2, <5>1
      <4>. QED BY <4>1, <4>2
    <3> HIDE DEF e
    <3>3. t2.main[u] = t.main[u] \/ t2.main[u] = t.main[u] (+) R[u]
      BY <1>3, <1>9
    <3>4. Copies(e, t.main[u] (+) R[u]) = 0
      <4>1. t.main[u] \in BagsOver(Int \X Levels) /\ R[u] \in BagsOver(Int \X Levels)
        BY <1>1, <1>2 DEF LevelBags
      <4>2. Copies(e, t.main[u] (+) R[u]) = Copies(e, t.main[u]) + Copies(e, R[u])
        BY <4>1, SumCopies
      <4>. QED BY <3>1, <3>2, <4>2
    <3>5. Copies(e, t2.main[u]) = 0
      BY <3>1, <3>3, <3>4
    <3>. QED BY <3>5 DEF e
  <2>4. Lane(t, u, {}) => Lane(t2, u, {})
    BY <1>9, <1>11, <2>1, <2>2, <2>3 DEF Lane, SameFlags
  <2>. QED BY <1>9, <2>1, <2>2, <2>4 DEF Through, Loaded, Spent
<1>13. Carried(t, {}, t2, {}, {})
  BY <1>11, <1>12 DEF Carried
<1>. QED
  BY <1>0, <1>8, <1>9, <1>10, <1>13 DEF Good, Moved, t2

-----------------------------------------------------------------------------
(* The hooks. *)

\* Where the gradients of the units are.
Gradients(t) ==
  << t.grad, t.acc, t.rs, t.bucket, t.partial, t.ar, t.main,
     t.pre_reduce_scatter_params, t.pre_all_reduce_groups, t.pending_all_reduce_groups,
     t.pre_param_group, t.all_reduce_param_group >>

LEMMA SameGradients ==
    ASSUME NEW t, NEW t2 \in States, NEW G, Good(t, G), Gradients(t2) = Gradients(t)
    PROVE  Good(t2, G) /\ Moved(t, t2, {})
<1>1. /\ t2.grad = t.grad /\ t2.acc = t.acc /\ t2.rs = t.rs /\ t2.partial = t.partial
      /\ t2.pre_reduce_scatter_params = t.pre_reduce_scatter_params
      /\ t2.pre_all_reduce_groups = t.pre_all_reduce_groups
      /\ t2.bucket = t.bucket /\ t2.ar = t.ar /\ t2.main = t.main
      /\ t2.pending_all_reduce_groups = t.pending_all_reduce_groups
      /\ t2.pre_param_group = t.pre_param_group
      /\ t2.all_reduce_param_group = t.all_reduce_param_group
  BY DEF Gradients
<1>2. ASSUME NEW u \in Units
      PROVE  Placed(t2, u, G)
  BY <1>1
  DEF Good, Placed, Scattering, Bucketing, Awaits, Pends, OneSource, Spent, OnWay, InRs, InBucket, InBoth
<1>3. Moved(t, t2, {})
  BY <1>1 DEF Moved, Kept, OnWay, OneSource, Awaits, Scattering, Bucketing
<1>. QED
  BY <1>1, <1>2, <1>3 DEF Good

LEMMA SameCarried ==
    ASSUME NEW t, NEW t2, NEW G, NEW U, Gradients(t2) = Gradients(t), SameFlags(t, t2),
           \A u \in Units \ U : t2.scheduler_state[u] = t.scheduler_state[u]
    PROVE  Carried(t, G, t2, G, U)
<1>1. /\ t2.grad = t.grad /\ t2.acc = t.acc /\ t2.rs = t.rs /\ t2.partial = t.partial
      /\ t2.pre_reduce_scatter_params = t.pre_reduce_scatter_params
      /\ t2.pre_all_reduce_groups = t.pre_all_reduce_groups
      /\ t2.ar = t.ar /\ t2.main = t.main
      /\ t2.pending_all_reduce_groups = t.pending_all_reduce_groups
      /\ t2.pre_param_group = t.pre_param_group
      /\ t2.all_reduce_param_group = t.all_reduce_param_group
  BY DEF Gradients
<1>2. ASSUME NEW u \in Units
      PROVE  /\ Awaits(t2, u) <=> Awaits(t, u)
             /\ Spent(t2, u) <=> Spent(t, u)
             /\ Lane(t, u, G) => Lane(t2, u, G)
  BY <1>1 DEF Lane, SameFlags, Awaits, Scattering, Bucketing, Pends, Spent
<1>. QED
  BY <1>1, <1>2 DEF Carried, Through, Loaded

LEMMA SharingSame ==
    ASSUME NEW t \in States, NEW U
    PROVE  LET t2 == Shard(t, U)
           IN  /\ t2 \in States /\ Gradients(t2) = Gradients(t)
               /\ SameFlags(t, t2) /\ t2.scheduler_state = t.scheduler_state
<1> DEFINE a == Replaced(t.is_shard, U, Fresh(TRUE))
           b == Replaced(t.buffer, {u \in U : ~t.is_shard[u]}, Fresh(Freed))
           t2 == Shard(t, U)
<1>1. Fresh(TRUE) \in [Units -> BOOLEAN] /\ Fresh(Freed) \in [Units -> Nat]
  BY DEF Fresh, Freed
<1>2. a \in [Units -> BOOLEAN] /\ b \in [Units -> Nat]
  <2>1. t.is_shard \in [Units -> BOOLEAN] /\ t.buffer \in [Units -> Nat]
    BY DEF States
  <2> DEFINE V == {u \in U : ~t.is_shard[u]}
  <2> HIDE DEF V
  <2>2. a \in [Units -> BOOLEAN]
    BY <1>1, <2>1 DEF Replaced
  <2>3. Replaced(t.buffer, V, Fresh(Freed)) \in [Units -> Nat]
    BY <1>1, <2>1 DEF Replaced
  <2>. QED BY <2>2, <2>3 DEF V
<1>3. t2 = [t EXCEPT !.is_shard = a, !.buffer = b]
  BY DEF Shard
<1> HIDE DEF a, b, t2
<1>4. t2 \in States
  BY <1>2, <1>3 DEF States
<1>5. Gradients(t2) = Gradients(t)
  BY <1>3 DEF States, Gradients
<1>6. SameFlags(t, t2) /\ t2.scheduler_state = t.scheduler_state
  BY <1>3 DEF States, SameFlags
<1>. QED BY <1>4, <1>5, <1>6 DEF t2

Accumulated(t, v) == [t EXCEPT !.acc[v] = @ (+) t.grad[v], !.grad[v] = EmptyBag]

LEMMA AccumulatedGood ==
    ASSUME NEW t, Good(t, {}), NEW v \in Units
    PROVE  LET t2 == Accumulated(t, v)
           IN  /\ Good(t2, {}) /\ Moved(t, t2, {}) /\ OneSource(t2, v)
               /\ Carried(t, {}, t2, {}, {})
<1> DEFINE sum == t.acc[v] (+) t.grad[v]
           a2 == [t.acc EXCEPT ![v] = sum]
           g2 == [t.grad EXCEPT ![v] = EmptyBag]
           t2 == Accumulated(t, v)
<1>0. t \in States /\ \A u \in Units : Placed(t, u, {})
  BY DEF Good
<1>1. /\ EmptyBag \in MicroBags /\ sum \in MicroBags
      /\ sum = EmptyBag <=> t.acc[v] = EmptyBag /\ t.grad[v] = EmptyBag
      /\ \A m : Copies(m, sum) = Copies(m, t.acc[v]) + Copies(m, t.grad[v])
  <2>1. t.acc[v] \in MicroBags /\ t.grad[v] \in MicroBags
    BY <1>0, Counting
  <2>. QED BY <2>1, SumCopies, NoCopies DEF MicroBags
<1>2. t2 = [t EXCEPT !.acc = a2, !.grad = g2]
  BY <1>0 DEF Accumulated, States
<1> HIDE DEF sum
<1>3. /\ a2 \in Bags1 /\ g2 \in Bags1
      /\ \A u \in Units : /\ a2[u] = IF u = v THEN sum ELSE t.acc[u]
                          /\ g2[u] = IF u = v THEN EmptyBag ELSE t.grad[u]
  BY <1>0, <1>1 DEF States, Bags1
<1> HIDE DEF a2, g2, t2
<1>4. t2 \in States
  BY <1>0, <1>2, <1>3 DEF States
<1>5. /\ t2.grad = g2 /\ t2.acc = a2 /\ t2.rs = t.rs /\ t2.partial = t.partial
      /\ t2.pre_reduce_scatter_params = t.pre_reduce_scatter_params
      /\ t2.pre_all_reduce_groups = t.pre_all_reduce_groups
      /\ t2.bucket = t.bucket /\ t2.ar = t.ar /\ t2.main = t.main
      /\ t2.pending_all_reduce_groups = t.pending_all_reduce_groups
      /\ t2.pre_param_group = t.pre_param_group
      /\ t2.all_reduce_param_group = t.all_reduce_param_group
  BY <1>0, <1>2 DEF States
<1>6. ASSUME NEW u \in Units
      PROVE  /\ Placed(t2, u, {}) /\ (OnWay(t2, u) => OnWay(t, u))
             /\ (OneSource(t, u) => OneSource(t2, u))
             /\ \A m \in Int : Kept(t2, u, m) = Kept(t, u, m)
  <2>1. /\ Placed(t, u, {}) /\ (OnWay(t2, u) <=> OnWay(t, u))
        /\ (Awaits(t2, u) <=> Awaits(t, u))
    BY <1>0, <1>5 DEF OnWay, Awaits, Scattering, Bucketing
  <2>2. /\ (OneSource(t, u) => OneSource(t2, u))
        /\ (Spent(t, u) => Spent(t2, u))
    BY <1>1, <1>3, <1>5 DEF OneSource, Spent
  <2>3. Placed(t2, u, {})
    BY <1>5, <2>1, <2>2 DEF Placed, Scattering, Bucketing, Pends, InRs, InBucket, InBoth
  <2>4. ASSUME NEW m \in Int PROVE Kept(t2, u, m) = Kept(t, u, m)
    <3>1. /\ Copies(m, t.grad[u]) \in Nat /\ Copies(m, t.acc[u]) \in Nat
          /\ Copies(m, EmptyBag) = 0
      BY <1>0, Counting, NoCopies
    <3>2. Copies(m, t2.grad[u]) + Copies(m, t2.acc[u]) = Copies(m, t.grad[u]) + Copies(m, t.acc[u])
      <4>1. CASE u = v
        <5>1. t2.grad[u] = EmptyBag /\ t2.acc[u] = sum
          BY <1>3, <1>5, <4>1
        <5>2. Copies(m, sum) = Copies(m, t.acc[u]) + Copies(m, t.grad[u])
          BY <1>1, <4>1
        <5>. QED BY <3>1, <5>1, <5>2
      <4>2. CASE u # v
        BY <1>3, <1>5, <4>2
      <4>. QED BY <4>1, <4>2
    <3>. QED
      BY <1>5, <2>1, <3>2 DEF Kept
  <2>. QED
    BY <2>1, <2>2, <2>3, <2>4
<1>7. OneSource(t2, v)
  BY <1>3, <1>5 DEF OneSource
<1>8. SameFlags(t, t2) /\ t2.scheduler_state = t.scheduler_state
  BY <1>0, <1>2 DEF States, SameFlags
<1>9. ASSUME NEW u \in Units
      PROVE  /\ Lane(t, u, {}) => Lane(t2, u, {})
             /\ Through(t, u, {}) => Through(t2, u, {})
             /\ Loaded(t, u) => Loaded(t2, u)
  <2>1. /\ Pends(t2, u, {}) <=> Pends(t, u, {})
        /\ Scattering(t2, u) <=> Scattering(t, u)
        /\ Bucketing(t2, u) <=> Bucketing(t, u)
        /\ Spent(t2, u) <=> Spent(t, u)
    BY <1>1, <1>3, <1>5 DEF Pends, Scattering, Bucketing, Spent
  <2>. QED BY <1>5, <1>8, <2>1 DEF Lane, Through, Loaded, Awaits, SameFlags
<1>10. Carried(t, {}, t2, {}, {})
  BY <1>8, <1>9 DEF Carried
<1>. QED
  BY <1>4, <1>5, <1>6, <1>7, <1>10 DEF Good, Moved, t2

LEMMA ReduceGood ==
    ASSUME NEW t, Good(t, {}), NEW v \in Units, OneSource(t, v)
    PROVE  LET t2 == Reduce(t, v)
           IN  /\ Good(t2, {}) /\ Moved(t, t2, {v}) /\ Carried(t, {}, t2, {}, {v})
               /\ t.requires_all_reduce /\ Loaded(t, v) => Through(t2, v, {})
<1>1. CASE cfg.fused
  <2> DEFINE t1 == SaveAllReduce(t)
             t2 == AdvanceFused(t1)
             t3 == IssueFused(t2, v)
  <2>1. Good(t1, {}) /\ Moved(t, t1, {}) /\ t1.all_reduce_param_group = NoUnit
        /\ Carried(t, {}, t1, {}, {})
    BY SaveAllReduceGood
  <2>2. Good(t2, {}) /\ Moved(t1, t2, {}) /\ t2.pre_param_group = NoUnit
        /\ Carried(t1, {}, t2, {}, {})
    <3> HIDE DEF t1
    <3>. QED BY <2>1, AdvanceFusedGood
  <2>3. OneSource(t2, v)
    <3> HIDE DEF t1, t2
    <3>. QED BY <2>1, <2>2 DEF Moved
  <2>4. Good(t3, {}) /\ Moved(t2, t3, {v}) /\ Carried(t2, {}, t3, {}, {v})
        /\ (~Spent(t2, v) => Through(t3, v, {}))
    <3> HIDE DEF t1, t2
    <3>. QED BY <1>1, <2>2, <2>3, IssueFusedGood
  <2>5. Reduce(t, v) = t3
    BY <1>1 DEF Reduce
  <2> HIDE DEF t1, t2, t3
  <2>6. Carried(t, {}, t2, {}, {})
    BY <2>1, <2>2, CarriedOn
  <2>7. Carried(t, {}, t3, {}, {v})
    BY <2>4, <2>6, CarriedOn
  <2>8. Loaded(t, v) => Through(t3, v, {})
    BY <2>4, <2>6 DEF Carried, Loaded
  <2>9. Moved(t, t3, {v})
    BY <2>1, <2>2, <2>4 DEF Moved
  <2>. QED
    BY <2>4, <2>5, <2>7, <2>8, <2>9
<1>2. CASE ~cfg.fused
  <2> DEFINE q == t.pre_all_reduce_groups
             t1 == WaitGroups(t)
             t2 == WaitParams(t1)
             t3 == IssueReduceScatter(t2, v)
             t4 == IssueAllReduce(t3, q)
  <2>0. q \in Seq(Units)
    BY DEF Good, States
  <2>1. Good(t1, ToSet(q)) /\ Moved(t, t1, {}) /\ t1.pre_all_reduce_groups = <<>>
        /\ Carried(t, {}, t1, ToSet(q), {})
    BY WaitGroupsGood
  <2>2. Good(t2, ToSet(q)) /\ Moved(t1, t2, {}) /\ t2.pre_all_reduce_groups = <<>>
        /\ t2.pre_reduce_scatter_params = <<>> /\ Carried(t1, ToSet(q), t2, ToSet(q), {})
    <3> HIDE DEF t1, q
    <3>. QED BY <2>1, WaitParamsGood
  <2>3. OneSource(t2, v)
    <3> HIDE DEF t1, t2
    <3>. QED BY <2>1, <2>2 DEF Moved
  <2>4. Good(t3, ToSet(q)) /\ Moved(t2, t3, {v}) /\ Carried(t2, ToSet(q), t3, ToSet(q), {v})
        /\ (~Spent(t2, v) => Through(t3, v, ToSet(q)))
    <3> HIDE DEF t1, t2, q
    <3>. QED BY <1>2, <2>2, <2>3, IssueReduceScatterGood
  <2>5. Good(t4, {}) /\ Moved(t3, t4, {}) /\ Carried(t3, ToSet(q), t4, {}, {})
    <3> HIDE DEF t1, t2, t3, q
    <3>. QED BY <2>0, <2>4, IssueAllReduceGood
  <2>6. Reduce(t, v) = t4
    BY <1>2 DEF Reduce
  <2> HIDE DEF t1, t2, t3, t4, q
  <2>7. Carried(t, {}, t2, ToSet(q), {})
    BY <2>1, <2>2, CarriedOn
  <2>8. Carried(t, {}, t3, ToSet(q), {v})
    BY <2>4, <2>7, CarriedOn
  <2>9. Carried(t, {}, t4, {}, {v})
    BY <2>5, <2>8, CarriedOn
  <2>10. t.requires_all_reduce /\ Loaded(t, v) => Through(t4, v, {})
    <3>1. Loaded(t, v) => Through(t3, v, ToSet(q))
      BY <2>4, <2>7 DEF Carried, Loaded
    <3>2. t3.requires_all_reduce = t.requires_all_reduce
      BY <2>8 DEF Carried, SameFlags
    <3>. QED BY <2>5, <3>1, <3>2 DEF Carried
  <2>11. Moved(t, t4, {v})
    BY <2>1, <2>2, <2>4, <2>5 DEF Moved
  <2>. QED
    BY <2>5, <2>6, <2>9, <2>10, <2>11
<1>. QED
  BY <1>1, <1>2

LEMMA PostBackwardGood ==
    ASSUME NEW t, Good(t, {}), NEW v \in Units
    PROVE  LET t2 == PostBackward(t, v)
           IN  /\ Good(t2, {}) /\ Moved(t, t2, {v}) /\ Carried(t, {}, t2, {}, {v})
               /\ t.requires_all_reduce /\ t.reduce_grads /\ Loaded(t, v) => Through(t2, v, {})
<1> DEFINE t1 == IF t.acc[v] # EmptyBag THEN Accumulated(t, v) ELSE t
           t2 == IF t.reshard_after_backward THEN Shard(t1, {v}) ELSE t1
           t3 == IF t.reduce_grads THEN Reduce(t2, v) ELSE Accumulated(t2, v)
<1>1. Good(t1, {}) /\ Moved(t, t1, {}) /\ OneSource(t1, v) /\ Carried(t, {}, t1, {}, {})
  <2>1. Moved(t, t, {}) /\ Carried(t, {}, t, {}, {})
    BY CarriedSame DEF Moved
  <2>2. t.acc[v] = EmptyBag => OneSource(t, v)
    BY DEF OneSource
  <2>3. LET t4 == Accumulated(t, v)
        IN  Good(t4, {}) /\ Moved(t, t4, {}) /\ OneSource(t4, v) /\ Carried(t, {}, t4, {}, {})
    BY AccumulatedGood
  <2>. QED BY <2>1, <2>2, <2>3
<1>2. Good(t2, {}) /\ Moved(t1, t2, {}) /\ Carried(t1, {}, t2, {}, {})
  <2> HIDE DEF t1
  <2>0. Moved(t1, t1, {}) /\ Carried(t1, {}, t1, {}, {})
    BY CarriedSame DEF Moved
  <2>1. t1 \in States
    BY <1>1 DEF Good
  <2> DEFINE d == Shard(t1, {v})
  <2>2. d \in States /\ Gradients(d) = Gradients(t1)
        /\ SameFlags(t1, d) /\ d.scheduler_state = t1.scheduler_state
    BY <2>1, SharingSame
  <2> HIDE DEF d
  <2>3. Good(d, {}) /\ Moved(t1, d, {})
    BY <1>1, <2>2, SameGradients
  <2>4. Carried(t1, {}, d, {}, {})
    BY <2>2, SameCarried
  <2>5. t2 = d \/ t2 = t1
    BY DEF d
  <2> HIDE DEF t2
  <2>. QED BY <1>1, <2>0, <2>3, <2>4, <2>5
<1>3. OneSource(t2, v)
  <2> HIDE DEF t1, t2
  <2>. QED BY <1>1, <1>2 DEF Moved
<1>4. Good(t3, {}) /\ Moved(t2, t3, {v}) /\ Carried(t2, {}, t3, {}, {v})
      /\ (t.reduce_grads /\ t2.requires_all_reduce /\ Loaded(t2, v) => Through(t3, v, {}))
  <2> HIDE DEF t1, t2
  <2> DEFINE r == Reduce(t2, v)
             a == Accumulated(t2, v)
  <2>1. Good(r, {}) /\ Moved(t2, r, {v}) /\ Carried(t2, {}, r, {}, {v})
        /\ (t2.requires_all_reduce /\ Loaded(t2, v) => Through(r, v, {}))
    BY <1>2, <1>3, ReduceGood
  <2>2. Good(a, {}) /\ Moved(t2, a, {}) /\ Carried(t2, {}, a, {}, {})
    BY <1>2, AccumulatedGood
  <2>3. (t.reduce_grads => t3 = r) /\ (~t.reduce_grads => t3 = a)
    OBVIOUS
  <2> HIDE DEF r, a, t3
  <2>4. Moved(t2, a, {v}) /\ Carried(t2, {}, a, {}, {v})
    BY <2>2 DEF Moved, Carried
  <2>. QED BY <2>1, <2>2, <2>3, <2>4
<1>5. PostBackward(t, v) = t3
  <2>1. t1.reduce_grads = t.reduce_grads /\ t2.reduce_grads = t.reduce_grads
        /\ t1.reshard_after_backward = t.reshard_after_backward
    <3>1. t \in States
      BY DEF Good
    <3>2. t1.reduce_grads = t.reduce_grads /\ t1.reshard_after_backward = t.reshard_after_backward
      BY <3>1 DEF Accumulated, States
    <3>3. t1 \in States
      <4> HIDE DEF t1
      <4>. QED BY <1>1 DEF Good
    <3>4. t2.reduce_grads = t1.reduce_grads
      <4> HIDE DEF t1
      <4>. QED BY <3>3 DEF Shard, States
    <3>. QED BY <3>2, <3>4
  <2>. QED
    BY <2>1 DEF PostBackward, Accumulated
<1> HIDE DEF t1, t2, t3
<1>6. Moved(t, t3, {v})
  BY <1>1, <1>2, <1>4 DEF Moved
<1>7. Carried(t, {}, t2, {}, {})
  BY <1>1, <1>2, CarriedOn
<1>8. Carried(t, {}, t3, {}, {v})
  BY <1>4, <1>7, CarriedOn
<1>9. t.requires_all_reduce /\ t.reduce_grads /\ Loaded(t, v) => Through(t3, v, {})
  <2>1. t2.requires_all_reduce = t.requires_all_reduce /\ (Loaded(t, v) => Loaded(t2, v))
    BY <1>7 DEF Carried, SameFlags
  <2>. QED BY <1>4, <2>1
<1>. QED
  BY <1>4, <1>5, <1>6, <1>8, <1>9

\* What the loops over all units do to one of them.
Hook(post, t, u) == IF post THEN PostBackward(t, u) ELSE BackwardHook(t, u)

\* A unit that such a loop leaves through: it is already, or waits for its hook.
Ready(post, t, u) ==
  Through(t, u, {}) \/ (Loaded(t, u) /\ (post \/ t.scheduler_state[u] # "BACKWARD"))

\* The flags under which a hook reduces, and all the way.
Reducing(t) == t.reduce_grads /\ t.requires_all_reduce

LEMMA HookGood ==
    ASSUME NEW post \in BOOLEAN, NEW t, Good(t, {}), NEW v \in Units
    PROVE  LET t2 == Hook(post, t, v)
           IN  /\ Good(t2, {}) /\ Moved(t, t2, {v}) /\ Carried(t, {}, t2, {}, {v})
               /\ Reducing(t) /\ Ready(post, t, v) => Through(t2, v, {})
<1> DEFINE d == [t EXCEPT !.scheduler_state[v] = "BACKWARD"]
<1>1. d \in States /\ Gradients(d) = Gradients(t) /\ SameFlags(t, d)
      /\ \A u \in Units \ {v} : d.scheduler_state[u] = t.scheduler_state[u]
  <2>1. t \in States
    BY DEF Good
  <2>2. [t.scheduler_state EXCEPT ![v] = "BACKWARD"] \in [Units -> Phases]
    BY <2>1 DEF States, Phases
  <2>3. d = [t EXCEPT !.scheduler_state = [t.scheduler_state EXCEPT ![v] = "BACKWARD"]]
    BY <2>1 DEF States
  <2>. QED BY <2>1, <2>2, <2>3 DEF States, Gradients, SameFlags
<1> DEFINE p == PostBackward(d, v)
           q == PostBackward(t, v)
<1>2. Good(d, {}) /\ Moved(t, d, {}) /\ Carried(t, {}, d, {}, {v})
      /\ (Loaded(t, v) => Loaded(d, v))
  <2> HIDE DEF d
  <2>1. Good(d, {}) /\ Moved(t, d, {}) /\ Carried(t, {}, d, {}, {v})
    BY <1>1, SameGradients, SameCarried
  <2>2. d.grad = t.grad /\ d.acc = t.acc
        /\ d.pre_reduce_scatter_params = t.pre_reduce_scatter_params
        /\ d.pre_all_reduce_groups = t.pre_all_reduce_groups
    BY <1>1 DEF Gradients
  <2>. QED BY <2>1, <2>2 DEF Loaded, Spent, Awaits, Scattering, Bucketing
<1>3. Good(p, {}) /\ Moved(d, p, {v}) /\ Carried(d, {}, p, {}, {v})
      /\ (d.requires_all_reduce /\ d.reduce_grads /\ Loaded(d, v) => Through(p, v, {}))
  <2> HIDE DEF d
  <2>. QED BY <1>2, PostBackwardGood
<1>5. Good(q, {}) /\ Moved(t, q, {v}) /\ Carried(t, {}, q, {}, {v})
      /\ (t.requires_all_reduce /\ t.reduce_grads /\ Loaded(t, v) => Through(q, v, {}))
      /\ Moved(t, t, {v}) /\ Carried(t, {}, t, {}, {v})
  <2>1. Moved(t, t, {v}) /\ Carried(t, {}, t, {}, {v})
    BY CarriedSame DEF Moved
  <2>. QED BY <2>1, PostBackwardGood
<1>6. Hook(post, t, v) = IF post THEN q
                         ELSE IF t.scheduler_state[v] = "BACKWARD" THEN t ELSE p
  BY DEF Hook, BackwardHook
<1> HIDE DEF d, p, q
<1>4. Moved(t, p, {v}) /\ Carried(t, {}, p, {}, {v})
  <2>1. Moved(t, p, {v})
    BY <1>2, <1>3 DEF Moved
  <2>. QED BY <1>2, <1>3, <2>1, CarriedOn
<1> DEFINE t2 == Hook(post, t, v)
<1>7. ASSUME Reducing(t), Ready(post, t, v) PROVE Through(t2, v, {})
  <2>1. SameFlags(t, d)
    BY <1>1
  <2>2. CASE Through(t, v, {})
    BY <1>4, <1>5, <1>6, <1>7, <2>2 DEF Carried, Reducing
  <2>3. CASE Loaded(t, v) /\ post
    BY <1>5, <1>6, <1>7, <2>3 DEF Reducing
  <2>4. CASE Loaded(t, v) /\ ~post /\ t.scheduler_state[v] # "BACKWARD"
    BY <1>2, <1>3, <1>6, <1>7, <2>1, <2>4 DEF Reducing, SameFlags
  <2>. QED BY <1>7, <2>2, <2>3, <2>4 DEF Ready
<1>8. Good(t2, {}) /\ Moved(t, t2, {v}) /\ Carried(t, {}, t2, {}, {v})
  BY <1>3, <1>4, <1>5, <1>6
<1>. QED
  BY <1>7, <1>8

-----------------------------------------------------------------------------
(***************************************************************************)
(* The loops over all units are folds, which unfold to functions defined   *)
(* by recursion over sets of places.                                       *)
(***************************************************************************)
Top(p) == CHOOSE x \in p : \A y \in p : x >= y
Folded(it, post, st, seq, family) ==
  \A p \in family :
     it[p] = IF p = {} THEN st ELSE Hook(post, it[p \ {Top(p)}], seq[Top(p)])
IsFold(it, post, st, seq) ==
  it = [p \in SUBSET DOMAIN seq |->
          IF p = {} THEN st ELSE Hook(post, it[p \ {Top(p)}], seq[Top(p)])]

LEMMA CountUp ==
    ASSUME NEW G, 0 \in G, \A n \in Nat : n \in G => n + 1 \in G
    PROVE  Nat \subseteq G
<1> DEFINE bad == Nat \ G
<1>1. SUFFICES ASSUME bad # {} PROVE FALSE
  OBVIOUS
<1>2. PICK x \in bad : \A y \in bad : ~ (<< y, x >> \in OpToRel(<, Nat))
  BY <1>1, NatLessThanWellFounded, WFMin
<1>3. x \in Nat /\ x # 0 /\ x - 1 \in Nat /\ x - 1 < x
  OBVIOUS
<1>4. << x - 1, x >> \in OpToRel(<, Nat)
  <2>1. OpToRel(<, Nat) = {ss \in Nat \X Nat : ss[1] < ss[2]}
    BY DEF OpToRel
  <2>2. << x - 1, x >> \in Nat \X Nat
    BY <1>3
  <2>. QED
    BY <1>3, <2>1, <2>2
<1>5. x - 1 \notin bad
  BY <1>2, <1>4
<1>6. x - 1 \in G
  BY <1>3, <1>5
<1>. QED
  BY <1>3, <1>6

LEMMA EndsExist ==
    ASSUME NEW n \in Nat, NEW I \in SUBSET (1 .. n), I # {}
    PROVE  (\E a \in I : \A b \in I : a <= b) /\ (\E a \in I : \A b \in I : a >= b)
<1>1. \E a \in I : \A b \in I : a <= b
  <2> DEFINE G == {m \in Nat : \A b \in I : m <= b}
  <2>1. SUFFICES ASSUME \A a \in I : \E b \in I : ~(a <= b) PROVE FALSE
    OBVIOUS
  <2>2. 0 \in G
    OBVIOUS
  <2>3. ASSUME NEW m \in Nat, m \in G PROVE m + 1 \in G
    <3>1. m \notin I
      BY <2>1, <2>3
    <3>. QED
      BY <2>3, <3>1
  <2>4. Nat \subseteq G
    <3> HIDE DEF G
    <3>. QED BY <2>2, <2>3, CountUp
  <2>5. PICK b : b \in I
    OBVIOUS
  <2>6. n + 1 \in G /\ b \in 1 .. n
    BY <2>4, <2>5
  <2>7. n + 1 <= b
    BY <2>5, <2>6
  <2>. QED
    BY <2>6, <2>7
<1>2. \E a \in I : \A b \in I : a >= b
  <2> DEFINE G == {m \in Nat : \A b \in I : b <= n - m}
  <2>1. SUFFICES ASSUME \A a \in I : \E b \in I : ~(a >= b) PROVE FALSE
    OBVIOUS
  <2>2. 0 \in G
    OBVIOUS
  <2>3. ASSUME NEW m \in Nat, m \in G PROVE m + 1 \in G
    <3>1. n - m \notin I
      BY <2>1, <2>3
    <3>. QED
      BY <2>3, <3>1
  <2>4. Nat \subseteq G
    <3> HIDE DEF G
    <3>. QED BY <2>2, <2>3, CountUp
  <2>5. PICK b : b \in I
    OBVIOUS
  <2>6. n \in G /\ b \in 1 .. n
    BY <2>4, <2>5
  <2>7. b <= n - n
    BY <2>5, <2>6
  <2>. QED
    BY <2>6, <2>7
<1>. QED
  BY <1>1, <1>2

LEMMA PlacesFinite ==
    ASSUME NEW n \in Nat, NEW p \in SUBSET (1 .. n)
    PROVE  IsFiniteSet(p) /\ Cardinality(p) \in Nat /\ Cardinality(p) <= n
<1>1. IsFiniteSet(1 .. n) /\ Cardinality(1 .. n) = IF 1 > n THEN 0 ELSE n - 1 + 1
  BY FS_Interval
<1>2. Cardinality(1 .. n) = n
  BY <1>1
<1>3. IsFiniteSet(p) /\ Cardinality(p) <= Cardinality(1 .. n)
  BY <1>1, FS_Subset
<1>. QED
  BY <1>2, <1>3, FS_CardinalityType

LEMMA TopOut ==
    ASSUME NEW n \in Nat, NEW p \in SUBSET (1 .. n), p # {}
    PROVE  /\ Top(p) \in p /\ IsFiniteSet(p) /\ Cardinality(p) \in Nat
           /\ Cardinality(p \ {Top(p)}) = Cardinality(p) - 1
<1>1. \E a \in p : \A b \in p : a >= b
  BY EndsExist
<1>2. Top(p) \in p
  BY <1>1 DEF Top
<1>4. IsFiniteSet(p)
  BY PlacesFinite
<1>. QED
  BY <1>2, <1>4, FS_RemoveElement, FS_CardinalityType

LEMMA FoldExists ==
    ASSUME NEW post, NEW st, NEW seq, NEW N \in Nat, DOMAIN seq = 1 .. N
    PROVE  \E it : IsFold(it, post, st, seq)
<1> DEFINE S == 1 .. N
           Small(n) == {p \in SUBSET S : Cardinality(p) <= n}
           G == {n \in Nat : \E it : Folded(it, post, st, seq, Small(n))}
<1>1. \A p \in SUBSET S : IsFiniteSet(p) /\ Cardinality(p) \in Nat /\ Cardinality(p) <= N
  BY PlacesFinite
<1>2. 0 \in G
  <2>1. Small(0) \subseteq {{}}
    BY <1>1, FS_EmptySet
  <2>2. Folded([p \in {{}} |-> st], post, st, seq, Small(0))
    BY <2>1 DEF Folded
  <2>. QED
    BY <2>2
<1>3. ASSUME NEW n \in Nat, n \in G PROVE n + 1 \in G
  <2>1. PICK it : Folded(it, post, st, seq, Small(n))
    BY <1>3
  <2> DEFINE jt == [p \in SUBSET S |->
                       IF p = {} THEN st ELSE Hook(post, it[p \ {Top(p)}], seq[Top(p)])]
  <2>2. \A p \in Small(n) : jt[p] = it[p]
    <3> TAKE p \in Small(n)
    <3>1. it[p] = IF p = {} THEN st ELSE Hook(post, it[p \ {Top(p)}], seq[Top(p)])
      BY <2>1 DEF Folded
    <3>2. p \in SUBSET S
      OBVIOUS
    <3>. QED BY <3>1, <3>2
  <2>3. ASSUME NEW p \in Small(n + 1), p # {}
        PROVE  p \ {Top(p)} \in Small(n)
    <3>1. p \in SUBSET (1 .. N) /\ Cardinality(p) <= n + 1
      OBVIOUS
    <3>2. Cardinality(p) \in Nat /\ Cardinality(p \ {Top(p)}) = Cardinality(p) - 1
      BY <2>3, <3>1, TopOut
    <3>3. p \ {Top(p)} \in SUBSET S
      OBVIOUS
    <3>. QED
      BY <3>1, <3>2, <3>3
  <2>4. Folded(jt, post, st, seq, Small(n + 1))
    <3> SUFFICES ASSUME NEW p \in Small(n + 1)
                 PROVE  jt[p] = IF p = {} THEN st ELSE Hook(post, jt[p \ {Top(p)}], seq[Top(p)])
      BY DEF Folded
    <3>1. p \in SUBSET S
      OBVIOUS
    <3>2. CASE p = {}
      BY <3>1, <3>2
    <3>3. CASE p # {}
      <4>1. jt[p \ {Top(p)}] = it[p \ {Top(p)}]
        BY <3>3, <2>2, <2>3
      <4>2. jt[p] = Hook(post, it[p \ {Top(p)}], seq[Top(p)])
        BY <3>1, <3>3
      <4> HIDE DEF jt
      <4>. QED BY <3>3, <4>1, <4>2
    <3>. QED
      BY <3>2, <3>3
  <2>5. \E kt : Folded(kt, post, st, seq, Small(n + 1))
    <3> HIDE DEF jt, Small
    <3>. QED
      BY <2>4
  <2> HIDE DEF Small
  <2>. QED
    BY <2>5
<1>4. N \in G
  <2> HIDE DEF G
  <2>. QED
    BY <1>2, <1>3, CountUp
<1>5. PICK it : Folded(it, post, st, seq, Small(N))
  BY <1>4
<1>6. Small(N) = SUBSET S
  BY <1>1
<1> DEFINE jt == [p \in SUBSET S |-> it[p]]
<1>7. \A p \in SUBSET S : p \ {Top(p)} \in SUBSET S
  OBVIOUS
<1>8. \A p \in SUBSET S : jt[p] = IF p = {} THEN st ELSE Hook(post, jt[p \ {Top(p)}], seq[Top(p)])
  <2> TAKE p \in SUBSET S
  <2>1. it[p] = IF p = {} THEN st ELSE Hook(post, it[p \ {Top(p)}], seq[Top(p)])
    BY <1>5, <1>6 DEF Folded
  <2>2. jt[p] = it[p] /\ jt[p \ {Top(p)}] = it[p \ {Top(p)}]
    BY <1>7
  <2>. QED BY <2>1, <2>2
<1>9. IsFold(jt, post, st, seq)
  BY <1>8 DEF IsFold
<1>. QED
  BY <1>9

LEMMA FoldUnfolds ==
    ASSUME NEW st, NEW seq
    PROVE  /\ \A it : IsFold(it, FALSE, st, seq) =>
                 \E jt : IsFold(jt, FALSE, st, seq)
                         /\ FoldLeft(BackwardHook, st, seq) = jt[DOMAIN seq]
           /\ \A it : IsFold(it, TRUE, st, seq) =>
                 \E jt : IsFold(jt, TRUE, st, seq)
                         /\ FoldLeft(PostBackward, st, seq) = jt[DOMAIN seq]
<1>1. ASSUME NEW it, IsFold(it, FALSE, st, seq)
      PROVE  \E jt : IsFold(jt, FALSE, st, seq)
                     /\ FoldLeft(BackwardHook, st, seq) = jt[DOMAIN seq]
  <2> DEFINE jt == CHOOSE g : g = [p \in SUBSET DOMAIN seq |->
              IF p = {} THEN st
              ELSE BackwardHook(g[p \ {CHOOSE x \in p : \A y \in p : x >= y}],
                                seq[CHOOSE x \in p : \A y \in p : x >= y])]
  <2>0. \A a, b : Hook(FALSE, a, b) = BackwardHook(a, b)
    BY DEF Hook
  <2>3. it = [p \in SUBSET DOMAIN seq |->
                IF p = {} THEN st
                ELSE BackwardHook(it[p \ {CHOOSE x \in p : \A y \in p : x >= y}],
                          seq[CHOOSE x \in p : \A y \in p : x >= y])]
    BY <1>1, <2>0 DEF IsFold, Top
  <2>4. jt = [p \in SUBSET DOMAIN seq |->
                IF p = {} THEN st
                ELSE BackwardHook(jt[p \ {CHOOSE x \in p : \A y \in p : x >= y}],
                          seq[CHOOSE x \in p : \A y \in p : x >= y])]
    BY <2>3
  <2>5. ASSUME NEW kt, kt = [p \in SUBSET DOMAIN seq |->
                IF p = {} THEN st
                ELSE BackwardHook(kt[p \ {CHOOSE x \in p : \A y \in p : x >= y}],
                          seq[CHOOSE x \in p : \A y \in p : x >= y])]
        PROVE  IsFold(kt, FALSE, st, seq)
    <3>1. \A p \in SUBSET DOMAIN seq :
             kt[p] = IF p = {} THEN st ELSE BackwardHook(kt[p \ {Top(p)}], seq[Top(p)])
      BY <2>5 DEF Top
    <3>2. kt = [p \in SUBSET DOMAIN seq |-> kt[p]]
      BY <2>5
    <3>. QED BY <2>0, <3>1, <3>2 DEF IsFold
  <2>1. IsFold(jt, FALSE, st, seq)
    <3> HIDE DEF jt
    <3>. QED BY <2>4, <2>5
  <2>2. FoldLeft(BackwardHook, st, seq) = jt[DOMAIN seq]
    BY DEF FoldLeft, MapThenFoldSet, Max
  <2>. QED
    BY <2>1, <2>2
<1>2. ASSUME NEW it, IsFold(it, TRUE, st, seq)
      PROVE  \E jt : IsFold(jt, TRUE, st, seq)
                     /\ FoldLeft(PostBackward, st, seq) = jt[DOMAIN seq]
  <2> DEFINE jt == CHOOSE g : g = [p \in SUBSET DOMAIN seq |->
              IF p = {} THEN st
              ELSE PostBackward(g[p \ {CHOOSE x \in p : \A y \in p : x >= y}],
                                seq[CHOOSE x \in p : \A y \in p : x >= y])]
  <2>0. \A a, b : Hook(TRUE, a, b) = PostBackward(a, b)
    BY DEF Hook
  <2>3. it = [p \in SUBSET DOMAIN seq |->
                IF p = {} THEN st
                ELSE PostBackward(it[p \ {CHOOSE x \in p : \A y \in p : x >= y}],
                          seq[CHOOSE x \in p : \A y \in p : x >= y])]
    BY <1>2, <2>0 DEF IsFold, Top
  <2>4. jt = [p \in SUBSET DOMAIN seq |->
                IF p = {} THEN st
                ELSE PostBackward(jt[p \ {CHOOSE x \in p : \A y \in p : x >= y}],
                          seq[CHOOSE x \in p : \A y \in p : x >= y])]
    BY <2>3
  <2>5. ASSUME NEW kt, kt = [p \in SUBSET DOMAIN seq |->
                IF p = {} THEN st
                ELSE PostBackward(kt[p \ {CHOOSE x \in p : \A y \in p : x >= y}],
                          seq[CHOOSE x \in p : \A y \in p : x >= y])]
        PROVE  IsFold(kt, TRUE, st, seq)
    <3>1. \A p \in SUBSET DOMAIN seq :
             kt[p] = IF p = {} THEN st ELSE PostBackward(kt[p \ {Top(p)}], seq[Top(p)])
      BY <2>5 DEF Top
    <3>2. kt = [p \in SUBSET DOMAIN seq |-> kt[p]]
      BY <2>5
    <3>. QED BY <2>0, <3>1, <3>2 DEF IsFold
  <2>1. IsFold(jt, TRUE, st, seq)
    <3> HIDE DEF jt
    <3>. QED BY <2>4, <2>5
  <2>2. FoldLeft(PostBackward, st, seq) = jt[DOMAIN seq]
    BY DEF FoldLeft, MapThenFoldSet, Max
  <2>. QED
    BY <2>1, <2>2
<1>. QED
  BY <1>1, <1>2

\* What a loop of a hook over all units leaves.
Looped(post, t, t2) ==
  /\ Good(t2, {}) /\ Moved(t, t2, Units) /\ Carried(t, {}, t2, {}, Units)
  /\ Reducing(t) => \A u \in Units : Ready(post, t, u) => Through(t2, u, {})

LEMMA FoldGood ==
    ASSUME NEW post \in BOOLEAN, NEW st, Good(st, {}), NEW it, IsFold(it, post, st, AllUnits)
    PROVE  Looped(post, st, it[DOMAIN AllUnits])
<1> DEFINE N == NKids + 1
           S == 1 .. N
           At(p) == {AllUnits[i] : i \in p}
           Fine(t2, p) ==
             /\ Good(t2, {}) /\ Moved(st, t2, Units) /\ Carried(st, {}, t2, {}, At(p))
             /\ Reducing(st) => \A u \in At(p) : Ready(post, st, u) => Through(t2, u, {})
           G == {n \in Nat : \A p \in SUBSET S : Cardinality(p) = n => Fine(it[p], p)}
<1>1. /\ N \in Nat /\ DOMAIN AllUnits = S /\ \A i \in S : AllUnits[i] \in Units
      /\ \A i, j \in S : i # j => AllUnits[i] # AllUnits[j]
      /\ \A u \in Units : u + 1 \in S /\ AllUnits[u + 1] = u
  BY ShardedAssumption DEF AllUnits, Units
<1>2. (\A p \in SUBSET S : At(p) \subseteq Units) /\ Units \subseteq At(S)
  BY <1>1
<1>3. \A p \in SUBSET S :
         it[p] = IF p = {} THEN st ELSE Hook(post, it[p \ {Top(p)}], AllUnits[Top(p)])
  BY <1>1 DEF IsFold
<1> HIDE DEF N
<1>4. \A p \in SUBSET S : IsFiniteSet(p) /\ Cardinality(p) \in Nat
  BY <1>1, PlacesFinite
<1>5. 0 \in G
  <2>1. \A p \in SUBSET S : Cardinality(p) = 0 => p = {}
    BY <1>4, FS_EmptySet
  <2>2. it[{}] = st
    BY <1>3
  <2>3. Fine(st, {})
    BY CarriedSame DEF Moved
  <2> HIDE DEF Fine
  <2>. QED BY <2>1, <2>2, <2>3
<1>6. ASSUME NEW n \in Nat, n \in G PROVE n + 1 \in G
  <2> HIDE DEF Fine, At
  <2> SUFFICES ASSUME NEW p \in SUBSET S, Cardinality(p) = n + 1 PROVE Fine(it[p], p)
    OBVIOUS
  <2> USE DEF At
  <2>0. \A q \in SUBSET S : Cardinality(q) = n => Fine(it[q], q)
    BY <1>6
  <2> HIDE DEF G
  <2>1. p # {}
    <3>1. Cardinality({}) = 0
      BY FS_EmptySet
    <3>2. n + 1 # 0
      OBVIOUS
    <3>. QED BY <3>1, <3>2
  <2>2. /\ Top(p) \in p /\ Cardinality(p) \in Nat
        /\ Cardinality(p \ {Top(p)}) = Cardinality(p) - 1
    BY <1>1, <2>1, TopOut
  <2>6. Cardinality(p \ {Top(p)}) = n /\ p \ {Top(p)} \in SUBSET S
    <3>1. n + 1 - 1 = n
      OBVIOUS
    <3>2. Cardinality(p \ {Top(p)}) = n + 1 - 1
      BY <2>2
    <3>. QED BY <3>1, <3>2
  <2> DEFINE o == p \ {Top(p)}
             a == it[o]
             v == AllUnits[Top(p)]
             U == At(o)
             t2 == Hook(post, a, v)
  <2>3. Fine(a, o)
    BY <2>0, <2>6
  <2>4. it[p] = t2
    BY <1>3, <2>1
  <2>5. v \in Units /\ v \notin U /\ At(p) = U \cup {v}
    <3>1. Top(p) \in S /\ p = o \cup {Top(p)} /\ Top(p) \notin o /\ o \subseteq S
      BY <2>2
    <3>2. v \in Units
      BY <1>1, <3>1
    <3>3. \A i \in o : AllUnits[i] # v
      BY <1>1, <3>1
    <3>4. v \notin U
      BY <3>3
    <3> HIDE DEF o
    <3>5. At(p) = U \cup {v}
      BY <3>1
    <3>. QED BY <3>2, <3>4, <3>5
  <2> DEFINE W == At(p)
  <2>8. Fine(it[p], p) <=>
          /\ Good(it[p], {}) /\ Moved(st, it[p], Units) /\ Carried(st, {}, it[p], {}, W)
          /\ Reducing(st) => \A u \in W : Ready(post, st, u) => Through(it[p], u, {})
    BY DEF Fine
  <2>9. /\ Good(a, {}) /\ Moved(st, a, Units) /\ Carried(st, {}, a, {}, U)
        /\ Reducing(st) => \A u \in U : Ready(post, st, u) => Through(a, u, {})
    BY <2>3 DEF Fine
  <2>14. U \subseteq Units /\ W = U \cup {v}
    BY <1>2, <2>5, <2>6
  <2>15. v \notin U
    BY <2>5
  <2> HIDE DEF a, v, U, W, At, o
  <2>7. Good(t2, {}) /\ Moved(a, t2, {v}) /\ Carried(a, {}, t2, {}, {v})
        /\ (Reducing(a) /\ Ready(post, a, v) => Through(t2, v, {}))
    BY <2>5, <2>9, HookGood
  <2> HIDE DEF t2
  <2>10. Moved(st, t2, Units)
    BY <2>5, <2>7, <2>9 DEF Moved
  <2>11. Carried(st, {}, t2, {}, W)
    BY <2>7, <2>9, <2>14, CarriedOn
  <2>12. ASSUME Reducing(st), NEW u \in W, Ready(post, st, u) PROVE Through(t2, u, {})
    <3>1. Reducing(a)
      BY <2>9, <2>12 DEF Reducing, Carried, SameFlags
    <3>2. CASE u \in U
      <4>1. Through(a, u, {}) /\ u \in Units
        BY <2>9, <2>12, <2>14, <3>2
      <4>. QED BY <2>7, <3>1, <4>1 DEF Carried, Reducing
    <3>3. CASE u = v
      <4>1. Ready(post, a, v)
        BY <2>5, <2>9, <2>12, <2>15, <3>3 DEF Ready, Carried, Reducing
      <4>. QED BY <2>7, <3>1, <3>3, <4>1
    <3>. QED BY <2>14, <3>2, <3>3
  <2>. QED BY <2>4, <2>7, <2>8, <2>10, <2>11, <2>12
<1>7. Nat \subseteq G
  <2> HIDE DEF G
  <2>. QED BY <1>5, <1>6, CountUp
<1>8. Cardinality(S) \in G /\ S \in SUBSET S
  BY <1>4, <1>7
<1>9. Fine(it[S], S)
  <2> HIDE DEF Fine
  <2>. QED BY <1>8
<1>10. At(S) = Units
  BY <1>2
<1>11. it[DOMAIN AllUnits] = it[S]
  BY <1>1
<1> HIDE DEF At, S
<1>. QED
  BY <1>9, <1>10, <1>11 DEF Looped

LEMMA LoopsGood ==
    ASSUME NEW t, Good(t, {})
    PROVE  /\ Looped(FALSE, t, FoldLeft(BackwardHook, t, AllUnits))
           /\ Looped(TRUE, t, FoldLeft(PostBackward, t, AllUnits))
<1>1. NKids + 1 \in Nat /\ DOMAIN AllUnits = 1 .. NKids + 1
  BY ShardedAssumption DEF AllUnits
<1>2. (\E it : IsFold(it, FALSE, t, AllUnits)) /\ (\E it : IsFold(it, TRUE, t, AllUnits))
  BY <1>1, FoldExists
<1>3. PICK jt : IsFold(jt, FALSE, t, AllUnits)
                /\ FoldLeft(BackwardHook, t, AllUnits) = jt[DOMAIN AllUnits]
  BY <1>2, FoldUnfolds
<1>4. PICK kt : IsFold(kt, TRUE, t, AllUnits)
                /\ FoldLeft(PostBackward, t, AllUnits) = kt[DOMAIN AllUnits]
  BY <1>2, FoldUnfolds
<1>5. Looped(FALSE, t, jt[DOMAIN AllUnits])
  BY <1>3, FoldGood
<1>6. Looped(TRUE, t, kt[DOMAIN AllUnits])
  BY <1>4, FoldGood
<1>. QED
  BY <1>3, <1>4, <1>5, <1>6

\* When the root's hook returns, no gradient is on its way any more.
LEMMA RootHookGood ==
    ASSUME NEW t, Good(t, {})
    PROVE  LET t2 == RootHook(t)
           IN  /\ Good(t2, {}) /\ Moved(t, t2, Units) /\ Carried(t, {}, t2, {}, Units)
               /\ Reducing(t) => \A u \in Units : Ready(FALSE, t, u) => Through(t2, u, {})
               /\ \A u \in Units : ~OnWay(t2, u)
<1> DEFINE t0 == FoldLeft(BackwardHook, t, AllUnits)
           t1 == [t0 EXCEPT !.root_bp_state = FALSE]
           a1 == SaveAllReduce(t1)
           a2 == AdvanceFused(a1)
           a3 == SaveAllReduce(a2)
           q == a3.pre_all_reduce_groups
           b1 == WaitGroups(a3)
           b2 == WaitParams(b1)
           b3 == IssueAllReduce(b2, q)
           b4 == SplitAllReduce(b3)
           c == ApplyReduced(b4)
<1>0. Looped(FALSE, t, t0)
  BY LoopsGood
<1>1. Good(t0, {}) /\ Moved(t, t0, Units) /\ Carried(t, {}, t0, {}, Units)
      /\ (Reducing(t) => \A u \in Units : Ready(FALSE, t, u) => Through(t0, u, {}))
  <2> HIDE DEF t0
  <2>. QED BY <1>0 DEF Looped
<1>2. Good(t1, {}) /\ Moved(t0, t1, {}) /\ Carried(t0, {}, t1, {}, {})
  <2> HIDE DEF t0
  <2>1. t1 \in States /\ Gradients(t1) = Gradients(t0)
        /\ SameFlags(t0, t1) /\ t1.scheduler_state = t0.scheduler_state
    BY <1>1 DEF Good, States, Gradients, SameFlags
  <2> HIDE DEF t1
  <2>. QED BY <1>1, <2>1, SameGradients, SameCarried
<1>3. Good(a1, {}) /\ Moved(t1, a1, {}) /\ a1.all_reduce_param_group = NoUnit
      /\ Carried(t1, {}, a1, {}, {})
  <2> HIDE DEF t1
  <2>. QED BY <1>2, SaveAllReduceGood
<1>4. Good(a2, {}) /\ Moved(a1, a2, {}) /\ a2.pre_param_group = NoUnit
      /\ Carried(a1, {}, a2, {}, {})
  <2> HIDE DEF a1
  <2>. QED BY <1>3, AdvanceFusedGood
<1>5. Good(a3, {}) /\ Moved(a2, a3, {}) /\ a3.all_reduce_param_group = NoUnit
      /\ a3.pre_param_group = NoUnit /\ Carried(a2, {}, a3, {}, {})
  <2> HIDE DEF a2
  <2>. QED BY <1>4, SaveAllReduceGood
<1>6. Good(b1, ToSet(q)) /\ Moved(a3, b1, {}) /\ b1.pre_all_reduce_groups = <<>>
      /\ b1.pre_param_group = NoUnit /\ b1.all_reduce_param_group = NoUnit
      /\ Carried(a3, {}, b1, ToSet(q), {})
  <2> HIDE DEF a3
  <2>. QED BY <1>5, WaitGroupsGood
<1>7. Good(b2, ToSet(q)) /\ Moved(b1, b2, {})
      /\ b2.pre_all_reduce_groups = <<>> /\ b2.pre_reduce_scatter_params = <<>>
      /\ b2.pre_param_group = NoUnit /\ b2.all_reduce_param_group = NoUnit
      /\ Carried(b1, ToSet(q), b2, ToSet(q), {})
  <2> HIDE DEF b1, q
  <2>. QED BY <1>6, WaitParamsGood
<1>8. Good(b3, {}) /\ Moved(b2, b3, {})
      /\ b3.pre_all_reduce_groups = <<>> /\ b3.pre_reduce_scatter_params = <<>>
      /\ b3.pre_param_group = NoUnit /\ b3.all_reduce_param_group = NoUnit
      /\ Carried(b2, ToSet(q), b3, {}, {})
  <2>1. q \in Seq(Units)
    <3> HIDE DEF a3
    <3>. QED BY <1>5 DEF Good, States
  <2> HIDE DEF b2, q
  <2>. QED BY <1>7, <2>1, IssueAllReduceGood
<1>9. Good(b4, {}) /\ Moved(b3, b4, {}) /\ b4.pending_all_reduce_groups = <<>>
      /\ b4.pre_all_reduce_groups = <<>> /\ b4.pre_reduce_scatter_params = <<>>
      /\ b4.pre_param_group = NoUnit /\ b4.all_reduce_param_group = NoUnit
      /\ Carried(b3, {}, b4, {}, {})
  <2> HIDE DEF b3
  <2>. QED BY <1>8, SplitAllReduceGood
<1>11. Good(c, {}) /\ Moved(b4, c, {}) /\ Carried(b4, {}, c, {}, {})
       /\ \A u \in Units : ~OnWay(c, u)
  <2> HIDE DEF b4
  <2>. QED BY <1>9, ApplyReducedGood DEF NothingQueued
<1>12. RootHook(t) = c
  BY DEF RootHook, DrainParams, DrainFused
<1> HIDE DEF t0, t1, a1, a2, a3, b1, b2, b3, b4, c, q
<1>13. Moved(t, c, Units)
  BY <1>1, <1>2, <1>3, <1>4, <1>5, <1>6, <1>7, <1>8, <1>9, <1>11 DEF Moved
<1>14. Carried(t0, {}, c, {}, {})
  <2>1. Carried(t0, {}, a1, {}, {})
    BY <1>2, <1>3, CarriedOn
  <2>2. Carried(t0, {}, a2, {}, {})
    BY <1>4, <2>1, CarriedOn
  <2>3. Carried(t0, {}, a3, {}, {})
    BY <1>5, <2>2, CarriedOn
  <2>4. Carried(t0, {}, b1, ToSet(q), {})
    BY <1>6, <2>3, CarriedOn
  <2>5. Carried(t0, {}, b2, ToSet(q), {})
    BY <1>7, <2>4, CarriedOn
  <2>6. Carried(t0, {}, b3, {}, {})
    BY <1>8, <2>5, CarriedOn
  <2>7. Carried(t0, {}, b4, {}, {})
    BY <1>9, <2>6, CarriedOn
  <2>. QED BY <1>11, <2>7, CarriedOn
<1>15. Carried(t, {}, c, {}, Units)
  BY <1>1, <1>14, CarriedOn
<1>16. Reducing(t) => \A u \in Units : Ready(FALSE, t, u) => Through(c, u, {})
  BY <1>1, <1>14 DEF Carried, SameFlags, Reducing
<1>. QED
  BY <1>11, <1>12, <1>13, <1>15, <1>16

-----------------------------------------------------------------------------
(***************************************************************************)
(* The calls of a pass: every unit's gradient comes once, for the          *)
(* micro-batch of the pass, and never after the hook that reduces it.      *)
(***************************************************************************)
Hooks == {"forward_pre", "forward", "backward_pre", "gradient", "backward", "root_backward"}
Calls == [hook : Hooks, unit : Units, micro : Int]
Marks == {"gradient", "backward"}

\* M: units whose gradient is produced or reduced; G: those it is produced for.
Orderly(q, micro, M, G) ==
  /\ q \in Seq(Calls)
  /\ \A i \in 1 .. Len(q) :
       /\ q[i].hook \in Marks => q[i].unit \in M
       /\ q[i].hook = "gradient" => q[i].unit \in G /\ q[i].micro = micro
  /\ \A i, j \in 1 .. Len(q) :
       i < j /\ q[i].hook \in Marks /\ q[j].hook = "gradient" => q[i].unit # q[j].unit

LEMMA OrderlyOne ==
    ASSUME NEW micro, NEW c \in Calls, NEW M, NEW G,
           c.hook \in Marks => c.unit \in M,
           c.hook = "gradient" => c.unit \in G /\ c.micro = micro
    PROVE  Orderly(<<c>>, micro, M, G)
<1>1. <<c>> \in Seq(Calls) /\ Len(<<c>>) = 1 /\ <<c>>[1] = c
  OBVIOUS
<1>2. \A i \in 1 .. 1 : i = 1
  OBVIOUS
<1> DEFINE q == <<c>>
<1>3. q \in Seq(Calls) /\ Len(q) = 1 /\ \A i \in 1 .. Len(q) : q[i] = c /\ i = 1
  BY <1>1, <1>2
<1> HIDE DEF q
<1>4. Orderly(q, micro, M, G)
  BY <1>3 DEF Orderly
<1>. QED BY <1>4 DEF q

LEMMA OrderlyNone ==
    ASSUME NEW micro, NEW M, NEW G
    PROVE  Orderly(<<>>, micro, M, G)
  BY EmptySeq DEF Orderly

LEMMA OrderlyBoth ==
    ASSUME NEW micro, NEW p, NEW q, NEW M, NEW G, NEW K, NEW H,
           Orderly(p, micro, M, G), Orderly(q, micro, K, H), M \cap H = {}
    PROVE  Orderly(p \o q, micro, M \cup K, G \cup H)
<1> DEFINE r == p \o q
<1>1. /\ p \in Seq(Calls) /\ q \in Seq(Calls)
      /\ Len(p) \in Nat /\ Len(q) \in Nat
      /\ r \in Seq(Calls) /\ Len(r) = Len(p) + Len(q)
      /\ \A i \in 1 .. Len(r) : r[i] = IF i <= Len(p) THEN p[i] ELSE q[i - Len(p)]
  BY ConcatProperties, LenProperties DEF Orderly
<1> HIDE DEF r
<1>2. ASSUME NEW i \in 1 .. Len(r)
      PROVE  \/ i \in 1 .. Len(p) /\ r[i] = p[i]
             \/ i - Len(p) \in 1 .. Len(q) /\ r[i] = q[i - Len(p)] /\ i > Len(p)
  BY <1>1
<1>3. ASSUME NEW i \in 1 .. Len(r)
      PROVE  /\ r[i].hook \in Marks => r[i].unit \in M \cup K
             /\ r[i].hook = "gradient" => r[i].unit \in G \cup H /\ r[i].micro = micro
  BY <1>2 DEF Orderly
<1>4. ASSUME NEW i \in 1 .. Len(r), NEW j \in 1 .. Len(r), i < j,
             r[i].hook \in Marks, r[j].hook = "gradient"
      PROVE  r[i].unit # r[j].unit
  <2>1. CASE i \in 1 .. Len(p) /\ r[i] = p[i] /\ j \in 1 .. Len(p) /\ r[j] = p[j]
    BY <1>4, <2>1 DEF Orderly
  <2>2. CASE i \in 1 .. Len(p) /\ r[i] = p[i]
             /\ j - Len(p) \in 1 .. Len(q) /\ r[j] = q[j - Len(p)]
    <3>1. r[i].unit \in M /\ r[j].unit \in H
      BY <1>4, <2>2 DEF Orderly
    <3>. QED BY <3>1
  <2>3. CASE i - Len(p) \in 1 .. Len(q) /\ r[i] = q[i - Len(p)]
             /\ j - Len(p) \in 1 .. Len(q) /\ r[j] = q[j - Len(p)]
    <3>1. i - Len(p) < j - Len(p)
      BY <1>1, <1>4
    <3>. QED BY <1>4, <2>3, <3>1 DEF Orderly
  <2>. QED
    BY <1>1, <1>2, <1>4, <2>1, <2>2, <2>3
<1>5. Orderly(r, micro, M \cup K, G \cup H)
  BY <1>1, <1>3, <1>4 DEF Orderly
<1>. QED BY <1>5 DEF r

LEMMA OrderlyMore ==
    ASSUME NEW micro, NEW q, NEW M, NEW G, NEW K, NEW H,
           Orderly(q, micro, M, G), M \subseteq K, G \subseteq H
    PROVE  Orderly(q, micro, K, H)
  BY DEF Orderly

\* FlattenSeq is the value of a function defined by recursion over the places
\* of the sequence; there is such a function for every sequence.
IsFlat(it, ss, n) ==
    it = [i \in 1 .. n |-> IF i = 1 THEN ss[i] ELSE it[i - 1] \o ss[i]]

LEMMA FlatExists ==
    ASSUME NEW ss, NEW n \in Nat
    PROVE  \E it : IsFlat(it, ss, n)
<1> DEFINE G == {m \in Nat : \E it : IsFlat(it, ss, m)}
<1>1. 0 \in G
  <2>1. IsFlat([i \in 1 .. 0 |-> 0], ss, 0)
    BY DEF IsFlat
  <2>. QED BY <2>1
<1>2. ASSUME NEW m \in Nat, m \in G PROVE m + 1 \in G
  <2>1. PICK it : IsFlat(it, ss, m)
    BY <1>2
  <2> DEFINE jt == [i \in 1 .. m + 1 |-> IF i = 1 THEN ss[i] ELSE it[i - 1] \o ss[i]]
  <2>2. \A i \in 1 .. m : jt[i] = it[i]
    <3> TAKE i \in 1 .. m
    <3>1. it[i] = IF i = 1 THEN ss[i] ELSE it[i - 1] \o ss[i]
      BY <2>1 DEF IsFlat
    <3>2. i \in 1 .. m + 1
      OBVIOUS
    <3>. QED BY <3>1, <3>2
  <2>3. \A i \in 1 .. m + 1 : i # 1 => i - 1 \in 1 .. m
    OBVIOUS
  <2>4. IsFlat(jt, ss, m + 1)
    BY <2>2, <2>3 DEF IsFlat
  <2>5. \E kt : IsFlat(kt, ss, m + 1)
    <3> HIDE DEF jt
    <3>. QED BY <2>4
  <2>. QED BY <2>5
<1>3. Nat \subseteq G
  <2> HIDE DEF G
  <2>. QED BY <1>1, <1>2, CountUp
<1>. QED BY <1>3

LEMMA FlatUnfolds ==
    ASSUME NEW ss, Len(ss) \in Nat \ {0}
    PROVE  \E it : IsFlat(it, ss, Len(ss)) /\ FlattenSeq(ss) = it[Len(ss)]
<1> DEFINE jt == CHOOSE g : g = [i \in 1 .. Len(ss) |->
                     IF i = 1 THEN ss[i] ELSE g[i - 1] \o ss[i]]
<1>1. IsFlat(jt, ss, Len(ss))
  BY FlatExists DEF IsFlat
<1>2. FlattenSeq(ss) = jt[Len(ss)]
  BY DEF FlattenSeq
<1> HIDE DEF jt
<1>. QED
  BY <1>1, <1>2

\* The parts are about sets of units that have nothing in common.
Merged(V, n) == UNION {V[i] : i \in 1 .. n}

LEMMA OrderlyFlat ==
    ASSUME NEW micro, NEW ss, NEW N \in Nat \ {0}, Len(ss) = N, NEW V,
           \A i \in 1 .. N : Orderly(ss[i], micro, V[i], V[i]),
           \A i, j \in 1 .. N : i # j => V[i] \cap V[j] = {}
    PROVE  Orderly(FlattenSeq(ss), micro, Merged(V, N), Merged(V, N))
<1>1. PICK it : IsFlat(it, ss, N) /\ FlattenSeq(ss) = it[N]
  BY FlatUnfolds
<1>2. \A i \in 1 .. N : it[i] = IF i = 1 THEN ss[i] ELSE it[i - 1] \o ss[i]
  BY <1>1 DEF IsFlat
<1> DEFINE W(n) == UNION {V[i] : i \in 1 .. n}
           Laid(n) == Orderly(it[n], micro, W(n), W(n))
           H == {n \in Nat : n + 1 <= N => Laid(n + 1)}
<1>3. 0 \in H
  <2>1. it[1] = ss[1] /\ 1 \in 1 .. N
    BY <1>2
  <2>2. V[1] \subseteq W(1)
    OBVIOUS
  <2>3. Orderly(ss[1], micro, V[1], V[1])
    BY <2>1
  <2> HIDE DEF W
  <2>4. Orderly(ss[1], micro, W(1), W(1))
    BY <2>2, <2>3, OrderlyMore
  <2>. QED BY <2>1, <2>4
<1>4. ASSUME NEW n \in Nat, n \in H PROVE n + 1 \in H
  <2> SUFFICES ASSUME n + 1 + 1 <= N PROVE Laid(n + 1 + 1)
    OBVIOUS
  <2> DEFINE m == n + 1
             k == m + 1
  <2>1. m \in 1 .. N /\ k \in 1 .. N /\ k # 1 /\ k - 1 = m /\ m \in Nat
    OBVIOUS
  <2>2. Laid(m)
    <3> HIDE DEF Laid
    <3>. QED BY <1>4, <2>1
  <2>3. \A i \in 1 .. m : i \in 1 .. N /\ i # k
    BY <2>1
  <2>4. \A i \in 1 .. k : i \in 1 .. m \/ i = k
    BY <2>1
  <2>5. \A i \in 1 .. m : i \in 1 .. k
    BY <2>1
  <2>0. k \in 1 .. k
    BY <2>1
  <2> HIDE DEF m, k
  <2>6. it[k] = it[m] \o ss[k]
    BY <1>2, <2>1
  <2>7. W(m) \cap V[k] = {}
    <3> SUFFICES ASSUME NEW x \in W(m), x \in V[k] PROVE FALSE
      OBVIOUS
    <3>1. PICK i \in 1 .. m : x \in V[i]
      OBVIOUS
    <3>. QED BY <2>1, <2>3, <3>1
  <2>8. W(k) = W(m) \cup V[k]
    <3>1. W(k) \subseteq W(m) \cup V[k]
      BY <2>4
    <3>2. W(m) \cup V[k] \subseteq W(k)
      BY <2>5, <2>0
    <3>. QED BY <3>1, <3>2
  <2> HIDE DEF W
  <2>9. Orderly(it[m] \o ss[k], micro, W(m) \cup V[k], W(m) \cup V[k])
    BY <2>1, <2>2, <2>7, OrderlyBoth
  <2>10. Laid(k)
    BY <2>6, <2>8, <2>9
  <2>. QED
    <3> HIDE DEF Laid
    <3>. QED BY <2>10 DEF m, k
<1>5. Nat \subseteq H
  <2> HIDE DEF H
  <2>. QED BY <1>3, <1>4, CountUp
<1>6. Laid(N)
  <2>1. N - 1 \in Nat /\ N - 1 + 1 = N
    OBVIOUS
  <2>2. N - 1 \in H
    <3> HIDE DEF H
    <3>. QED BY <1>5, <2>1
  <2> HIDE DEF Laid
  <2>. QED BY <2>1, <2>2
<1>. QED
  BY <1>1, <1>6 DEF Merged

LEMMA TwoCalls ==
    ASSUME NEW x \in Calls, NEW y \in Calls
    PROVE  <<x, y>> = <<x>> \o <<y>>
<1> DEFINE a == <<x>>
           b == <<y>>
           c == <<x, y>>
<1>1. /\ a \in Seq(Calls) /\ Len(a) = 1 /\ a[1] = x
      /\ b \in Seq(Calls) /\ Len(b) = 1 /\ b[1] = y
      /\ c \in Seq(Calls) /\ Len(c) = 2 /\ c[1] = x /\ c[2] = y
  OBVIOUS
<1> HIDE DEF a, b, c
<1>2. /\ a \o b \in Seq(Calls) /\ Len(a \o b) = 2
      /\ (a \o b)[1] = x /\ (a \o b)[2] = y
  <2> DEFINE d == a \o b
  <2>1. /\ d \in Seq(Calls) /\ Len(d) = Len(a) + Len(b)
        /\ \A i \in 1 .. Len(a) + Len(b) :
              d[i] = IF i <= Len(a) THEN a[i] ELSE b[i - Len(a)]
    BY <1>1, ConcatProperties
  <2> HIDE DEF d
  <2>2. Len(d) = 2 /\ \A i \in 1 .. 2 : d[i] = IF i <= 1 THEN a[i] ELSE b[i - 1]
    BY <1>1, <2>1
  <2>3. d[1] = a[1] /\ d[2] = b[1]
    BY <2>2
  <2>. QED BY <1>1, <2>1, <2>2, <2>3 DEF d
<1>3. \A i \in 1 .. 2 : i = 1 \/ i = 2
  OBVIOUS
<1>4. c = a \o b
  BY <1>1, <1>2, <1>3, SeqEqual
<1>. QED BY <1>4 DEF a, b, c

LEMMA ForwardOrderly ==
    ASSUME NEW U, NEW micro
    PROVE  Orderly(ForwardOf(U), micro, {}, {}) /\ Orderly(ForwardCalls(U), micro, {}, {})
<1> DEFINE ss == [u \in Kids |->
                    IF u \in U THEN <<Call("forward_pre", u), Call("forward", u)>> ELSE <<>>]
           V == [u \in Kids |-> {}]
<1>0. NKids \in Nat \ {0} /\ Kids = 1 .. NKids /\ Root \in Units /\ \A u \in Kids : u \in Units
  BY ShardedAssumption DEF Kids, Units, Root
<1>1. ASSUME NEW u \in Units, NEW h \in Hooks
      PROVE  Call(h, u) \in Calls /\ Call(h, u).hook = h
  BY DEF Call, Calls
<1>2. ASSUME NEW u \in Units
      PROVE  /\ Orderly(<<Call("forward_pre", u)>>, micro, {}, {})
             /\ Orderly(<<Call("forward", u)>>, micro, {}, {})
  <2>1. /\ Call("forward_pre", u) \in Calls /\ Call("forward_pre", u).hook = "forward_pre"
        /\ Call("forward", u) \in Calls /\ Call("forward", u).hook = "forward"
    BY <1>1 DEF Hooks
  <2>. QED BY <2>1, OrderlyOne DEF Marks
<1>3. ASSUME NEW u \in Kids PROVE Orderly(ss[u], micro, V[u], V[u])
  <2>1. <<Call("forward_pre", u), Call("forward", u)>>
          = <<Call("forward_pre", u)>> \o <<Call("forward", u)>>
    OBVIOUS
  <2>2. Orderly(<<Call("forward_pre", u), Call("forward", u)>>, micro, {} \cup {}, {} \cup {})
    <3> DEFINE a == <<Call("forward_pre", u)>>
               b == <<Call("forward", u)>>
    <3>1. Orderly(a, micro, {}, {}) /\ Orderly(b, micro, {}, {})
      BY <1>0, <1>2
    <3> HIDE DEF a, b
    <3>2. Orderly(a \o b, micro, {} \cup {}, {} \cup {})
      BY <3>1, OrderlyBoth
    <3>. QED BY <2>1, <3>2 DEF a, b
  <2>3. Orderly(<<>>, micro, {}, {})
    BY OrderlyNone
  <2>. QED BY <2>2, <2>3
<1>4. Len(ss) = NKids
  BY <1>0
<1>5. Orderly(FlattenSeq(ss), micro, Merged(V, NKids), Merged(V, NKids))
  <2>1. \A i \in 1 .. NKids : Orderly(ss[i], micro, V[i], V[i])
    <3> HIDE DEF ss, V
    <3>. QED BY <1>0, <1>3
  <2>2. \A i, j \in 1 .. NKids : i # j => V[i] \cap V[j] = {}
    BY <1>0
  <2> HIDE DEF ss, V
  <2>. QED BY <1>0, <1>4, <2>1, <2>2, OrderlyFlat
<1>6. Merged(V, NKids) = {}
  BY <1>0 DEF Merged
<1>7. Orderly(ForwardOf(U), micro, {}, {})
  BY <1>5, <1>6 DEF ForwardOf
<1>8. Orderly(ForwardCalls(U), micro, {}, {})
  <2> DEFINE a == <<Call("forward_pre", Root)>>
             b == ForwardOf(U)
             c == <<Call("forward", Root)>>
  <2>1. Orderly(a, micro, {}, {}) /\ Orderly(b, micro, {}, {}) /\ Orderly(c, micro, {}, {})
    BY <1>0, <1>2, <1>7
  <2>2. ForwardCalls(U) = a \o b \o c
    BY DEF ForwardCalls
  <2> HIDE DEF a, b, c
  <2>3. Orderly(a \o b, micro, {} \cup {}, {} \cup {})
    BY <2>1, OrderlyBoth
  <2>4. Orderly(a \o b, micro, {}, {})
    BY <2>3
  <2>5. Orderly((a \o b) \o c, micro, {} \cup {}, {} \cup {})
    BY <2>1, <2>4, OrderlyBoth
  <2>. QED BY <2>2, <2>5
<1>. QED BY <1>7, <1>8

LEMMA BackwardOfOrderly ==
    ASSUME NEW U, NEW micro \in Int, NEW quiet \in BOOLEAN, NEW u \in Units
    PROVE  Orderly(BackwardOf(U, u, micro, quiet), micro, {u}, {u})
<1> DEFINE segment == Segment(u) \cap U
           pre == <<Call("backward_pre", u)>>
           again == IF cfg.recompute /\ \A v \in segment : v <= u
                    THEN ForwardOf(segment) ELSE <<>>
           g == <<[Call("gradient", u) EXCEPT !.micro = micro]>>
           end == IF quiet /\ \A v \in U : u <= v THEN <<>> ELSE <<Call("backward", u)>>
<1>1. BackwardOf(U, u, micro, quiet) = pre \o again \o g \o end
  BY DEF BackwardOf
<1>2. Orderly(pre, micro, {}, {})
  <2>1. Call("backward_pre", u) \in Calls /\ Call("backward_pre", u).hook = "backward_pre"
    BY DEF Call, Calls, Hooks
  <2>. QED BY <2>1, OrderlyOne DEF Marks
<1>3. Orderly(again, micro, {}, {})
  <2>1. Orderly(<<>>, micro, {}, {})
    BY OrderlyNone
  <2> HIDE DEF segment
  <2>2. Orderly(ForwardOf(segment), micro, {}, {})
    BY ForwardOrderly
  <2>. QED BY <2>1, <2>2
<1>4. Orderly(g, micro, {u}, {u})
  <2> DEFINE c == [Call("gradient", u) EXCEPT !.micro = micro]
  <2>1. c \in Calls /\ c.hook = "gradient" /\ c.unit = u /\ c.micro = micro
    BY DEF Call, Calls, Hooks
  <2> HIDE DEF c
  <2>2. Orderly(<<c>>, micro, {u}, {u})
    BY <2>1, OrderlyOne
  <2>. QED BY <2>2 DEF c
<1>5. Orderly(end, micro, {u}, {})
  <2>1. Orderly(<<>>, micro, {u}, {})
    BY OrderlyNone
  <2>2. Call("backward", u) \in Calls /\ Call("backward", u).hook = "backward"
        /\ Call("backward", u).unit = u
    BY DEF Call, Calls, Hooks
  <2>3. Orderly(<<Call("backward", u)>>, micro, {u}, {})
    BY <2>2, OrderlyOne
  <2>. QED BY <2>1, <2>3
<1> HIDE DEF pre, again, g, end
<1>6. Orderly(pre \o again, micro, {}, {})
  <2>1. Orderly(pre \o again, micro, {} \cup {}, {} \cup {})
    BY <1>2, <1>3, OrderlyBoth
  <2>. QED BY <2>1
<1>7. Orderly((pre \o again) \o g, micro, {u}, {u})
  <2>1. Orderly((pre \o again) \o g, micro, {} \cup {u}, {} \cup {u})
    BY <1>4, <1>6, OrderlyBoth
  <2>. QED BY <2>1
<1>8. Orderly(((pre \o again) \o g) \o end, micro, {u}, {u})
  <2>1. Orderly(((pre \o again) \o g) \o end, micro, {u} \cup {u}, {u} \cup {})
    BY <1>5, <1>7, OrderlyBoth
  <2>. QED BY <2>1
<1>. QED BY <1>1, <1>8

\* A backward ends with the root's hook.
Closes(q) == Len(q) > 0 /\ q[Len(q)].hook = "root_backward"

LEMMA BackwardOrderly ==
    ASSUME NEW U, NEW micro \in Int, NEW quiet \in BOOLEAN
    PROVE  LET q == BackwardCalls(U, micro, quiet)
           IN  Orderly(q, micro, Units, Units) /\ Closes(q)
<1> DEFINE ss == [i \in Kids |-> LET u == NKids + 1 - i
                                 IN  IF u \in U THEN BackwardOf(U, u, micro, quiet) ELSE <<>>]
           V == [i \in Kids |-> {NKids + 1 - i}]
           W == Merged(V, NKids)
           a == <<Call("backward_pre", Root)>>
           b == FlattenSeq(ss)
           g == [Call("gradient", Root) EXCEPT !.micro = micro]
           e == Call("root_backward", Root)
           c == <<g, e>>
           q == BackwardCalls(U, micro, quiet)
<1>0. /\ NKids \in Nat \ {0} /\ Kids = 1 .. NKids /\ Root \in Units /\ Root \notin Kids
      /\ \A u \in Kids : u \in Units /\ NKids + 1 - u \in Kids
  BY ShardedAssumption DEF Kids, Units, Root
<1>1. ASSUME NEW i \in Kids PROVE Orderly(ss[i], micro, V[i], V[i])
  <2> DEFINE u == NKids + 1 - i
  <2>1. u \in Units /\ V[i] = {u}
        /\ ss[i] = IF u \in U THEN BackwardOf(U, u, micro, quiet) ELSE <<>>
    BY <1>0
  <2> HIDE DEF u, ss, V
  <2>2. Orderly(BackwardOf(U, u, micro, quiet), micro, {u}, {u})
    BY <2>1, BackwardOfOrderly
  <2>3. Orderly(<<>>, micro, {u}, {u})
    BY OrderlyNone
  <2>. QED BY <2>1, <2>2, <2>3
<1>2. Orderly(b, micro, W, W)
  <2>1. \A i \in 1 .. NKids : Orderly(ss[i], micro, V[i], V[i])
    <3> HIDE DEF ss, V
    <3>. QED BY <1>0, <1>1
  <2>2. \A i, j \in 1 .. NKids : i # j => V[i] \cap V[j] = {}
    BY <1>0
  <2>3. Len(ss) = NKids
    BY <1>0
  <2> HIDE DEF ss, V
  <2>. QED BY <1>0, <2>1, <2>2, <2>3, OrderlyFlat
<1>3. W \subseteq Kids
  BY <1>0 DEF Merged
<1>4. Orderly(a, micro, {}, {})
  <2>1. Call("backward_pre", Root) \in Calls /\ Call("backward_pre", Root).hook = "backward_pre"
    BY <1>0 DEF Call, Calls, Hooks
  <2>. QED BY <2>1, OrderlyOne DEF Marks
<1>5. /\ g \in Calls /\ g.hook = "gradient" /\ g.unit = Root /\ g.micro = micro
      /\ e \in Calls /\ e.hook = "root_backward"
  BY <1>0 DEF Call, Calls, Hooks
<1>6. q = a \o b \o c
  BY DEF BackwardCalls
<1> HIDE DEF a, b, W, g, e, q
<1>7. Orderly(c, micro, {Root}, {Root})
  <2>1. Orderly(<<g>>, micro, {Root}, {Root}) /\ Orderly(<<e>>, micro, {}, {})
    BY <1>5, OrderlyOne DEF Marks
  <2>2. c = <<g>> \o <<e>>
    BY <1>5, TwoCalls
  <2> DEFINE g1 == <<g>>
             e1 == <<e>>
  <2> HIDE DEF g1, e1
  <2>3. Orderly(g1 \o e1, micro, {Root} \cup {}, {Root} \cup {})
    BY <2>1, OrderlyBoth DEF g1, e1
  <2>. QED BY <2>2, <2>3 DEF g1, e1
<1>8. Len(c) = 2 /\ c[2] = e /\ c \in Seq(Calls)
  BY <1>5
<1> HIDE DEF c
<1>9. Orderly(a \o b, micro, W, W)
  <2>1. Orderly(a \o b, micro, {} \cup W, {} \cup W)
    BY <1>2, <1>4, OrderlyBoth
  <2>. QED BY <2>1
<1>10. Orderly((a \o b) \o c, micro, W \cup {Root}, W \cup {Root})
  <2>1. W \cap {Root} = {}
    BY <1>0, <1>3
  <2>. QED BY <1>7, <1>9, <2>1, OrderlyBoth
<1>11. Orderly(q, micro, Units, Units)
  <2>1. W \cup {Root} \subseteq Units
    BY <1>0, <1>3
  <2>. QED BY <1>6, <1>10, <2>1, OrderlyMore
<1>12. Closes(q)
  <2> DEFINE p == a \o b
  <2>1. p \in Seq(Calls) /\ Len(p) \in Nat
    BY <1>9, LenProperties DEF Orderly
  <2> HIDE DEF p
  <2>2. Len(p \o c) = Len(p) + 2 /\ (p \o c)[Len(p) + 2] = e
    <3>1. Len(p \o c) = Len(p) + Len(c)
          /\ \A i \in 1 .. Len(p) + Len(c) :
               (p \o c)[i] = IF i <= Len(p) THEN p[i] ELSE c[i - Len(p)]
      BY <1>8, <2>1, ConcatProperties
    <3> DEFINE k == Len(p) + 2
    <3>2. k \in 1 .. Len(p) + Len(c) /\ ~(k <= Len(p)) /\ k - Len(p) = 2
      BY <1>8, <2>1
    <3> HIDE DEF k
    <3>3. (p \o c)[k] = e
      BY <1>8, <3>1, <3>2
    <3>. QED BY <1>8, <3>1, <3>3 DEF k
  <2>. QED BY <1>5, <1>6, <2>1, <2>2 DEF Closes, p
<1>. QED BY <1>11, <1>12 DEF q

LEMMA OrderlyTail ==
    ASSUME NEW micro, NEW q, NEW M, NEW G, Orderly(q, micro, M, G), q # <<>>
    PROVE  /\ Head(q) \in Calls
           /\ Head(q).hook = "gradient" => Head(q).micro = micro
           /\ Orderly(Tail(q), micro, M, G)
           /\ \A i \in 1 .. Len(Tail(q)) : i + 1 \in 1 .. Len(q) /\ Tail(q)[i] = q[i + 1]
           /\ 1 \in 1 .. Len(q) /\ q[1] = Head(q)
           /\ Head(q).hook \in Marks =>
                \A i \in 1 .. Len(Tail(q)) : Tail(q)[i].hook = "gradient" => Tail(q)[i].unit # Head(q).unit
           /\ Closes(q) /\ Head(q).hook # "root_backward" => Closes(Tail(q))
<1> DEFINE r == Tail(q)
<1>1. /\ q \in Seq(Calls) /\ Len(q) \in Nat \ {0} /\ Head(q) = q[1] /\ r \in Seq(Calls)
      /\ Len(r) = Len(q) - 1 /\ \A i \in 1 .. Len(r) : i + 1 \in 1 .. Len(q) /\ r[i] = q[i + 1]
      /\ q[1] \in Calls
  <2>1. q \in Seq(Calls) /\ q # <<>>
    BY DEF Orderly
  <2>2. Len(q) \in Nat \ {0} /\ Head(q) = q[1] /\ r \in Seq(Calls) /\ Len(r) = Len(q) - 1
        /\ \A i \in 1 .. Len(r) : r[i] = q[i + 1]
    BY <2>1, HeadTailProperties, EmptySeq, LenProperties
  <2>. QED BY <2>1, <2>2, LenProperties, HeadTailProperties
<1> HIDE DEF r
<1>2. Orderly(r, micro, M, G)
  <2>1. \A i \in 1 .. Len(r) :
          /\ r[i].hook \in Marks => r[i].unit \in M
          /\ r[i].hook = "gradient" => r[i].unit \in G /\ r[i].micro = micro
    BY <1>1 DEF Orderly
  <2>2. ASSUME NEW i \in 1 .. Len(r), NEW j \in 1 .. Len(r), i < j,
               r[i].hook \in Marks, r[j].hook = "gradient"
        PROVE  r[i].unit # r[j].unit
    <3>1. i + 1 \in 1 .. Len(q) /\ j + 1 \in 1 .. Len(q) /\ i + 1 < j + 1
      BY <1>1, <2>2
    <3>. QED BY <1>1, <2>2, <3>1 DEF Orderly
  <2>. QED BY <1>1, <2>1, <2>2 DEF Orderly
<1>3. Head(q).hook \in Marks => \A i \in 1 .. Len(r) : r[i].hook = "gradient" => r[i].unit # Head(q).unit
  <2>1. \A i \in 1 .. Len(r) : 1 < i + 1 /\ 1 \in 1 .. Len(q)
    BY <1>1
  <2>. QED BY <1>1, <2>1 DEF Orderly
<1>4. Closes(q) /\ Head(q).hook # "root_backward" => Closes(r)
  <2> SUFFICES ASSUME Closes(q), Head(q).hook # "root_backward" PROVE Closes(r)
    OBVIOUS
  <2>1. Len(q) # 1
    BY <1>1 DEF Closes
  <2>2. Len(r) > 0 /\ Len(r) \in 1 .. Len(r) /\ Len(r) + 1 = Len(q)
    BY <1>1, <2>1
  <2>. QED BY <1>1, <2>2 DEF Closes
<1>5. Head(q).hook = "gradient" => Head(q).micro = micro
  BY <1>1 DEF Orderly
<1>6. 1 \in 1 .. Len(q)
  BY <1>1
<1>. QED BY <1>1, <1>2, <1>3, <1>4, <1>5, <1>6 DEF r

-----------------------------------------------------------------------------
(***************************************************************************)
(* The inductive invariant.                                                *)
(***************************************************************************)
Now == (version - 1) * NMicro + bwd
Stepped(u, m) == Copies(<<m, "shards">>, stepped[u]) + Copies(<<m, "replicas">>, stepped[u])

Types ==
  /\ cfg \in Configs /\ version \in Nat \ {0} /\ bwd \in Nat
  /\ computed \in [Units -> SUBSET Int] /\ stepped \in [Units -> LevelBags]
Account ==
  \A u \in Units, m \in Int :
     Kept(s, u, m) + Stepped(u, m) = IF m \in computed[u] THEN 1 ELSE 0
Past == \A u \in Units : \A m \in computed[u] : m <= Now
\* What is still to come of the pass: gradients of its micro-batch, none of a
\* unit whose reduction has begun, and the root's hook to end every reduction.
Ahead(q, t) ==
  /\ Orderly(q, Now, Units, Units)
  /\ \A i \in 1 .. Len(q) :
       /\ q[i].hook = "gradient" => Now \notin computed[q[i].unit]
       /\ q[i].hook \in Marks => Closes(q)
  /\ \A u \in Units :
       OnWay(t, u) => /\ Closes(q)
                      /\ \A i \in 1 .. Len(q) : q[i].hook = "gradient" => q[i].unit # u

GradInv == Types /\ Good(s, {}) /\ Account /\ Past /\ Ahead(todo, s)

LEMMA GatherSame ==
    ASSUME NEW t \in States, NEW U, version \in Nat
    PROVE  LET t2 == Gather(t, U)
           IN  /\ t2 \in States /\ Gradients(t2) = Gradients(t)
               /\ SameFlags(t, t2) /\ t2.scheduler_state = t.scheduler_state
<1> DEFINE V == {u \in U : ~t.gather[u]}
           a == Replaced(t.gather, V, Fresh(TRUE))
           b == Replaced(t.buffer, V, Fresh(version))
           t2 == Gather(t, U)
<1>1. Fresh(TRUE) \in [Units -> BOOLEAN] /\ Fresh(version) \in [Units -> Nat]
  BY DEF Fresh
<1>2. a \in [Units -> BOOLEAN] /\ b \in [Units -> Nat]
  <2>1. t.gather \in [Units -> BOOLEAN] /\ t.buffer \in [Units -> Nat]
    BY DEF States
  <2> HIDE DEF V
  <2>2. a \in [Units -> BOOLEAN]
    BY <1>1, <2>1 DEF Replaced
  <2>3. b \in [Units -> Nat]
    BY <1>1, <2>1 DEF Replaced
  <2>. QED BY <2>2, <2>3
<1>3. t2 = [t EXCEPT !.gather = a, !.buffer = b]
  BY DEF Gather
<1> HIDE DEF a, b, t2
<1>4. t2 \in States
  BY <1>2, <1>3 DEF States
<1>5. Gradients(t2) = Gradients(t)
  BY <1>3 DEF States, Gradients
<1>6. SameFlags(t, t2) /\ t2.scheduler_state = t.scheduler_state
  BY <1>3 DEF States, SameFlags
<1>. QED BY <1>4, <1>5, <1>6 DEF t2

LEMMA PrefetchSame ==
    ASSUME NEW t \in States, NEW U, version \in Nat
    PROVE  LET t2 == Prefetch(t, U)
           IN  /\ t2 \in States /\ Gradients(t2) = Gradients(t)
               /\ SameFlags(t, t2) /\ t2.scheduler_state = t.scheduler_state
<1> DEFINE V == {u \in U : t.is_shard[u]}
<1>1. Prefetch(t, U) = Gather(t, V)
  BY DEF Prefetch
<1> HIDE DEF V
<1>. QED BY <1>1, GatherSame

LEMMA UnshardSame ==
    ASSUME NEW t \in States, NEW U, version \in Nat
    PROVE  LET t2 == Unshard(t, U)
           IN  /\ t2 \in States /\ Gradients(t2) = Gradients(t)
               /\ SameFlags(t, t2) /\ t2.scheduler_state = t.scheduler_state
<1> DEFINE V == {u \in U : t.is_shard[u]}
           d == Gather(t, V)
           a == Replaced(d.gather, V, Fresh(FALSE))
           b == Replaced(d.is_shard, V, Fresh(FALSE))
           t2 == Unshard(t, U)
<1>0. /\ d \in States /\ Gradients(d) = Gradients(t)
      /\ SameFlags(t, d) /\ d.scheduler_state = t.scheduler_state
  <2> HIDE DEF V
  <2>. QED BY GatherSame
<1>1. t2 = [d EXCEPT !.gather = a, !.is_shard = b]
  BY DEF Unshard
<1> HIDE DEF V, d, t2
<1>2. a \in [Units -> BOOLEAN] /\ b \in [Units -> BOOLEAN]
  <2>1. d.gather \in [Units -> BOOLEAN] /\ d.is_shard \in [Units -> BOOLEAN]
    BY <1>0 DEF States
  <2>2. Fresh(FALSE) \in [Units -> BOOLEAN]
    BY DEF Fresh
  <2>3. a \in [Units -> BOOLEAN]
    BY <2>1, <2>2 DEF Replaced
  <2>4. b \in [Units -> BOOLEAN]
    BY <2>1, <2>2 DEF Replaced
  <2>. QED BY <2>3, <2>4
<1> HIDE DEF a, b
<1>3. t2 \in States
  BY <1>0, <1>1, <1>2 DEF States
<1>4. Gradients(t2) = Gradients(d)
  BY <1>0, <1>1 DEF States, Gradients
<1>5. SameFlags(t, t2) /\ t2.scheduler_state = t.scheduler_state
  BY <1>0, <1>1 DEF States, SameFlags
<1>. QED BY <1>0, <1>3, <1>4, <1>5 DEF t2

Grown(t, t2, v, now) ==
  /\ Good(t2, {})
  /\ \A u \in Units :
       /\ OnWay(t2, u) <=> OnWay(t, u)
       /\ \A m \in Int :
            Kept(t2, u, m) = Kept(t, u, m) + IF u = v /\ m = now THEN 1 ELSE 0

\* Autograd adds a gradient to a unit that is not being reduced.
LEMMA GradientGood ==
    ASSUME NEW t, Good(t, {}), NEW v \in Units, ~OnWay(t, v), NEW now \in Int
    PROVE  Grown(t, [t EXCEPT !.grad[v] = @ (+) SetToBag({now})], v, now)
<1> DEFINE one == SetToBag({now})
           sum == t.grad[v] (+) one
           g2 == [t.grad EXCEPT ![v] = sum]
           t2 == [t EXCEPT !.grad[v] = @ (+) SetToBag({now})]
<1>0. t \in States /\ \A u \in Units : Placed(t, u, {})
  BY DEF Good
<1>1. one \in MicroBags /\ \A m : Copies(m, one) = IF m = now THEN 1 ELSE 0
  <2>1. one \in [{now} -> Nat \ {0}] /\ DOMAIN one = {now} /\ one[now] = 1
    BY DEF SetToBag
  <2>. QED BY <2>1 DEF MicroBags, BagsOver, Copies
<1>2. t2 = [t EXCEPT !.grad = g2]
  BY <1>0 DEF States
<1> HIDE DEF one
<1>3. sum \in MicroBags /\ \A m : Copies(m, sum) = Copies(m, t.grad[v]) + Copies(m, one)
  <2>1. t.grad[v] \in MicroBags
    BY <1>0, Counting
  <2>. QED BY <1>1, <2>1, SumCopies DEF MicroBags
<1> HIDE DEF sum
<1>4. g2 \in Bags1 /\ \A u \in Units : g2[u] = IF u = v THEN sum ELSE t.grad[u]
  BY <1>0, <1>3 DEF States, Bags1
<1> HIDE DEF g2, t2
<1>5. t2 \in States
  BY <1>0, <1>2, <1>4 DEF States
<1>6. /\ t2.grad = g2 /\ t2.acc = t.acc /\ t2.rs = t.rs /\ t2.partial = t.partial
      /\ t2.pre_reduce_scatter_params = t.pre_reduce_scatter_params
      /\ t2.pre_all_reduce_groups = t.pre_all_reduce_groups
      /\ t2.bucket = t.bucket /\ t2.ar = t.ar /\ t2.main = t.main
      /\ t2.pending_all_reduce_groups = t.pending_all_reduce_groups
      /\ t2.pre_param_group = t.pre_param_group
      /\ t2.all_reduce_param_group = t.all_reduce_param_group
  BY <1>0, <1>2 DEF States
<1>7. ASSUME NEW u \in Units
      PROVE  /\ Placed(t2, u, {}) /\ (OnWay(t2, u) <=> OnWay(t, u))
             /\ \A m \in Int :
                  Kept(t2, u, m) = Kept(t, u, m) + IF u = v /\ m = now THEN 1 ELSE 0
  <2>1. /\ Placed(t, u, {}) /\ (OnWay(t2, u) <=> OnWay(t, u))
        /\ (Awaits(t2, u) <=> Awaits(t, u))
    BY <1>0, <1>6 DEF OnWay, Awaits, Scattering, Bucketing
  <2>2. CASE u = v
    <3>1. ~OnWay(t, u) /\ ~Awaits(t, u)
      BY <2>1, <2>2 DEF Placed, Awaits, OnWay, InRs, InBoth
    <3>2. Placed(t2, u, {})
      BY <1>6, <2>1, <3>1 DEF Placed, Scattering, Bucketing, Pends, InRs, InBucket, InBoth, OnWay
    <3>3. ASSUME NEW m \in Int
          PROVE  Kept(t2, u, m) = Kept(t, u, m) + IF m = now THEN 1 ELSE 0
      <4>1. /\ Copies(m, t.grad[u]) \in Nat /\ Copies(m, t.acc[u]) \in Nat
            /\ Copies(m, t.rs[u]) \in Nat /\ Copies(m, t.bucket[u]) \in Nat
            /\ Copies(m, t.partial[u]) \in Nat /\ Copies(m, t.ar[u]) \in Nat
            /\ Copies(<<m, "shards">>, t.main[u]) \in Nat
            /\ Copies(<<m, "replicas">>, t.main[u]) \in Nat
        BY <1>0, Counting
      <4>2. Copies(m, t2.grad[u]) = Copies(m, t.grad[u]) + IF m = now THEN 1 ELSE 0
        BY <1>1, <1>3, <1>4, <1>6, <2>2
      <4>. QED
        BY <1>6, <2>1, <3>1, <4>1, <4>2 DEF Kept
    <3>. QED BY <2>1, <2>2, <3>2, <3>3
  <2>3. CASE u # v
    <3>1. t2.grad[u] = t.grad[u]
      BY <1>4, <1>6, <2>3
    <3>2. Placed(t2, u, {})
      BY <1>6, <2>1, <3>1
      DEF Placed, Scattering, Bucketing, Pends, InRs, InBucket, InBoth, OneSource, Spent
    <3>3. ASSUME NEW m \in Int PROVE Kept(t2, u, m) = Kept(t, u, m) + 0
      <4>1. /\ Copies(m, t.grad[u]) \in Nat /\ Copies(m, t.acc[u]) \in Nat
            /\ Copies(m, t.rs[u]) \in Nat /\ Copies(m, t.bucket[u]) \in Nat
            /\ Copies(m, t.partial[u]) \in Nat /\ Copies(m, t.ar[u]) \in Nat
            /\ Copies(<<m, "shards">>, t.main[u]) \in Nat
            /\ Copies(<<m, "replicas">>, t.main[u]) \in Nat
        BY <1>0, Counting
      <4>. QED BY <1>6, <2>1, <3>1, <4>1 DEF Kept
    <3>. QED BY <2>1, <2>3, <3>2, <3>3
  <2>. QED BY <2>2, <2>3
<1>8. Good(t2, {})
  BY <1>5, <1>6, <1>7 DEF Good
<1>. QED BY <1>7, <1>8 DEF t2, Grown

\* The optimizer takes what was reduced.
LEMMA ConsumedGood ==
    ASSUME NEW t, Good(t, {})
    PROVE  LET t2 == [t EXCEPT !.main = Fresh(EmptyBag)]
           IN  /\ Good(t2, {})
               /\ \A u \in Units :
                    /\ OnWay(t2, u) <=> OnWay(t, u)
                    /\ \A m \in Int :
                         Kept(t2, u, m) + Copies(<<m, "shards">>, t.main[u])
                         + Copies(<<m, "replicas">>, t.main[u]) = Kept(t, u, m)
<1> DEFINE none == Fresh(EmptyBag)
           t2 == [t EXCEPT !.main = none]
<1>0. t \in States /\ \A u \in Units : Placed(t, u, {})
  BY DEF Good
<1>1. none \in [Units -> LevelBags] /\ \A u \in Units : none[u] = EmptyBag
  BY NoCopies DEF Fresh, LevelBags
<1> HIDE DEF none
<1>2. t2 \in States
  BY <1>0, <1>1 DEF States
<1>3. /\ t2.grad = t.grad /\ t2.acc = t.acc /\ t2.rs = t.rs /\ t2.partial = t.partial
      /\ t2.pre_reduce_scatter_params = t.pre_reduce_scatter_params
      /\ t2.pre_all_reduce_groups = t.pre_all_reduce_groups
      /\ t2.bucket = t.bucket /\ t2.ar = t.ar /\ t2.main = none
      /\ t2.pending_all_reduce_groups = t.pending_all_reduce_groups
      /\ t2.pre_param_group = t.pre_param_group
      /\ t2.all_reduce_param_group = t.all_reduce_param_group
  BY <1>0 DEF States
<1> HIDE DEF t2
<1>4. ASSUME NEW u \in Units
      PROVE  /\ Placed(t2, u, {}) /\ (OnWay(t2, u) <=> OnWay(t, u))
             /\ \A m \in Int :
                  Kept(t2, u, m) + Copies(<<m, "shards">>, t.main[u])
                  + Copies(<<m, "replicas">>, t.main[u]) = Kept(t, u, m)
  <2>1. Placed(t2, u, {}) /\ (OnWay(t2, u) <=> OnWay(t, u))
        /\ (Awaits(t2, u) <=> Awaits(t, u))
    BY <1>0, <1>3
    DEF Placed, Scattering, Bucketing, Awaits, Pends, InRs, InBucket, InBoth, OneSource, Spent, OnWay
  <2>2. ASSUME NEW m \in Int
        PROVE  Kept(t2, u, m) + Copies(<<m, "shards">>, t.main[u])
               + Copies(<<m, "replicas">>, t.main[u]) = Kept(t, u, m)
    <3> DEFINE x == <<m, "shards">>
               y == <<m, "replicas">>
    <3>1. /\ Copies(m, t.grad[u]) \in Nat /\ Copies(m, t.acc[u]) \in Nat
          /\ Copies(m, t.rs[u]) \in Nat /\ Copies(m, t.bucket[u]) \in Nat
          /\ Copies(m, t.partial[u]) \in Nat /\ Copies(m, t.ar[u]) \in Nat
          /\ Copies(x, t.main[u]) \in Nat /\ Copies(y, t.main[u]) \in Nat
          /\ Copies(x, t2.main[u]) = 0 /\ Copies(y, t2.main[u]) = 0
      BY <1>0, <1>1, <1>3, Counting, NoCopies
    <3>. QED BY <1>3, <2>1, <3>1 DEF Kept
  <2>. QED BY <2>1, <2>2
<1>5. Good(t2, {})
  BY <1>2, <1>3, <1>4 DEF Good
<1>. QED BY <1>4, <1>5 DEF t2, none

\* A hook that reduces no unit but its own leaves the rest of the pass valid.
LEMMA CallStep ==
    ASSUME GradInv, todo # <<>>, todo' = Tail(todo),
           UNCHANGED <<cfg, version, bwd, computed, stepped>>,
           Head(todo).hook # "root_backward", NEW U, Good(s', {}), Moved(s, s', U),
           U = {} \/ (Head(todo).hook = "backward" /\ U = {Head(todo).unit})
    PROVE  GradInv'
<1>1. Types'
  BY DEF GradInv, Types
<1>2. Good(s, {})'
  BY DEF Good
<1>3. Account'
  BY DEF GradInv, Account, Moved, Stepped
<1>4. Past' /\ Now' = Now
  BY DEF GradInv, Past, Now
<1>5. Ahead(todo', s')
  <2> DEFINE q == todo
             r == Tail(todo)
  <2>1. Orderly(q, Now, Units, Units) /\ q # <<>>
    BY DEF GradInv, Ahead
  <2>2. /\ Orderly(r, Now, Units, Units)
        /\ \A i \in 1 .. Len(r) : i + 1 \in 1 .. Len(q) /\ r[i] = q[i + 1]
        /\ 1 \in 1 .. Len(q) /\ q[1] = Head(q)
        /\ Head(q).hook \in Marks =>
             \A i \in 1 .. Len(r) : r[i].hook = "gradient" => r[i].unit # Head(q).unit
        /\ Closes(q) => Closes(r)
    BY <2>1, OrderlyTail
  <2> HIDE DEF r
  <2>3. /\ \A i \in 1 .. Len(q) :
             /\ q[i].hook = "gradient" => Now \notin computed[q[i].unit]
             /\ q[i].hook \in Marks => Closes(q)
        /\ \A u \in Units :
             OnWay(s, u) => /\ Closes(q)
                            /\ \A i \in 1 .. Len(q) : q[i].hook = "gradient" => q[i].unit # u
    BY DEF GradInv, Ahead
  <2>4. \A i \in 1 .. Len(r) :
             /\ r[i].hook = "gradient" => Now \notin computed[r[i].unit]
             /\ r[i].hook \in Marks => Closes(r)
    BY <2>2, <2>3
  <2>5. ASSUME NEW u \in Units, OnWay(s', u)
        PROVE  /\ Closes(r)
               /\ \A i \in 1 .. Len(r) : r[i].hook = "gradient" => r[i].unit # u
    <3>1. CASE OnWay(s, u)
      BY <2>2, <2>3, <3>1
    <3>2. CASE ~OnWay(s, u)
      <4>1. Head(q).hook = "backward" /\ u = Head(q).unit
        BY <2>5, <3>2 DEF Moved
      <4>2. "backward" \in Marks
        BY DEF Marks
      <4>. QED BY <2>2, <2>3, <4>1, <4>2
    <3>. QED BY <3>1, <3>2
  <2>6. Ahead(r, s')
    BY <2>2, <2>4, <2>5 DEF Ahead
  <2>. QED BY <2>6 DEF r
<1>6. Ahead(todo, s)'
  BY <1>4, <1>5 DEF Ahead
<1>. QED BY <1>1, <1>2, <1>3, <1>4, <1>6 DEF GradInv

\* A call that gathers, frees or marks, and reduces nothing.
Quiet(t, t2) ==
  /\ t2 \in States /\ Gradients(t2) = Gradients(t) /\ SameFlags(t, t2)
  /\ \A u \in Units : t2.scheduler_state[u] = t.scheduler_state[u]
                     \/ t2.scheduler_state[u] # "BACKWARD"

LEMMA Marked ==
    ASSUME NEW t \in States, NEW u \in Units, NEW phase \in Phases \ {"BACKWARD"}
    PROVE  /\ Quiet(t, [t EXCEPT !.scheduler_state[u] = phase])
           /\ Quiet(t, t)
<1> DEFINE f == [t.scheduler_state EXCEPT ![u] = phase]
           t2 == [t EXCEPT !.scheduler_state = f]
<1>1. /\ f \in [Units -> Phases]
      /\ \A v \in Units : f[v] = t.scheduler_state[v] \/ f[v] # "BACKWARD"
  BY DEF States, Phases
<1>2. [t EXCEPT !.scheduler_state[u] = phase] = t2
  BY DEF States
<1> HIDE DEF f
<1>3. t2 \in States /\ Gradients(t2) = Gradients(t) /\ SameFlags(t, t2)
      /\ t2.scheduler_state = f
  BY <1>1 DEF States, Gradients, SameFlags
<1> HIDE DEF t2
<1>4. Quiet(t, t2)
  BY <1>1, <1>3 DEF Quiet
<1>. QED BY <1>2, <1>4 DEF Quiet, SameFlags

LEMMA QuietOn ==
    ASSUME NEW t, NEW t1, NEW t2, Quiet(t, t1), t2 \in States, Gradients(t2) = Gradients(t1),
           SameFlags(t1, t2), t2.scheduler_state = t1.scheduler_state
    PROVE  Quiet(t, t2)
  BY DEF Quiet, SameFlags

LEMMA QuietCall ==
    ASSUME GradInv, todo # <<>>, todo' = Tail(todo),
           UNCHANGED <<cfg, version, bwd, computed, stepped>>,
           Head(todo).hook # "root_backward",
           s' \in States, Gradients(s') = Gradients(s)
    PROVE  GradInv'
<1>1. Good(s', {}) /\ Moved(s, s', {})
  <2>1. Good(s, {})
    BY DEF GradInv
  <2>. QED BY <2>1, SameGradients
<1>. QED BY <1>1, CallStep

LEMMA ForwardPreQuiet ==
    ASSUME GradInv, NEW u \in Units, ForwardPreHook(u)
    PROVE  Quiet(s, s')
<1> DEFINE t == [s EXCEPT !.scheduler_state[u] = "PRE_FORWARD"]
           V == IF s.root_bp_state THEN {} ELSE ForwardCells(u)
           g == Unshard(t, {u})
           h == Prefetch(g, V)
<1>1. s \in States /\ version \in Nat
  BY DEF GradInv, Good, Types
<1>2. Quiet(s, t) /\ Quiet(s, s)
  <2>1. "PRE_FORWARD" \in Phases \ {"BACKWARD"}
    BY DEF Phases
  <2>. QED BY <1>1, <2>1, Marked
<1>3. s' = s \/ s' = h
  BY DEF ForwardPreHook
<1> HIDE DEF t, V
<1>4. Quiet(s, g)
  <2>1. t \in States
    BY <1>2 DEF Quiet
  <2>2. /\ g \in States /\ Gradients(g) = Gradients(t)
        /\ SameFlags(t, g) /\ g.scheduler_state = t.scheduler_state
    BY <1>1, <2>1, UnshardSame
  <2> HIDE DEF g
  <2>. QED BY <1>2, <2>2, QuietOn
<1> HIDE DEF g
<1>5. Quiet(s, h)
  <2>1. g \in States
    BY <1>4 DEF Quiet
  <2>2. /\ h \in States /\ Gradients(h) = Gradients(g)
        /\ SameFlags(g, h) /\ h.scheduler_state = g.scheduler_state
    BY <1>1, <2>1, PrefetchSame
  <2> HIDE DEF h
  <2>. QED BY <1>4, <2>2, QuietOn
<1>. QED BY <1>2, <1>3, <1>5

LEMMA ForwardPreStep ==
    ASSUME GradInv, NEW u \in Units, ForwardPreHook(u)
    PROVE  GradInv'
<1>1. s' \in States /\ Gradients(s') = Gradients(s)
  BY ForwardPreQuiet DEF Quiet
<1>. QED BY <1>1, QuietCall DEF ForwardPreHook, Running

LEMMA ForwardQuiet ==
    ASSUME GradInv, NEW u \in Units, ForwardHook(u)
    PROVE  Quiet(s, s')
<1> DEFINE t == [s EXCEPT !.scheduler_state[u] = "FORWARD"]
           h == Shard(t, {u})
<1>1. s \in States
  BY DEF GradInv, Good
<1>2. Quiet(s, t) /\ Quiet(s, s)
  <2>1. "FORWARD" \in Phases \ {"BACKWARD"}
    BY DEF Phases
  <2>. QED BY <1>1, <2>1, Marked
<1>3. s' = s \/ s' = t \/ s' = h
  BY DEF ForwardHook
<1> HIDE DEF t
<1>4. Quiet(s, h)
  <2>1. t \in States
    BY <1>2 DEF Quiet
  <2>2. /\ h \in States /\ Gradients(h) = Gradients(t)
        /\ SameFlags(t, h) /\ h.scheduler_state = t.scheduler_state
    BY <2>1, SharingSame
  <2> HIDE DEF h
  <2>. QED BY <1>2, <2>2, QuietOn
<1>. QED BY <1>2, <1>3, <1>4

LEMMA ForwardStep ==
    ASSUME GradInv, NEW u \in Units, ForwardHook(u)
    PROVE  GradInv'
<1>1. s' \in States /\ Gradients(s') = Gradients(s)
  BY ForwardQuiet DEF Quiet
<1>. QED BY <1>1, QuietCall DEF ForwardHook, Running

LEMMA BackwardPreQuiet ==
    ASSUME GradInv, NEW u \in Units, BackwardPreHook(u)
    PROVE  Quiet(s, s') /\ s'.scheduler_state[u] # "BACKWARD"
<1> DEFINE f == [s.scheduler_state EXCEPT ![u] = "PRE_BACKWARD"]
           t == [s EXCEPT !.scheduler_state = f, !.root_bp_state = TRUE]
           g == IF cfg.reshard_after_forward THEN Unshard(t, {u}) ELSE t
           h == Prefetch(g, BackwardCells(u))
<1>1. s \in States /\ version \in Nat
  BY DEF GradInv, Good, Types
<1>2. Quiet(s, t) /\ t.scheduler_state[u] # "BACKWARD"
  <2>1. /\ f \in [Units -> Phases] /\ f[u] = "PRE_BACKWARD"
        /\ \A v \in Units : f[v] = s.scheduler_state[v] \/ f[v] # "BACKWARD"
    BY <1>1 DEF States, Phases
  <2> HIDE DEF f
  <2>2. t \in States /\ Gradients(t) = Gradients(s) /\ SameFlags(s, t)
        /\ t.scheduler_state = f
    BY <1>1, <2>1 DEF States, Gradients, SameFlags
  <2> HIDE DEF t
  <2>. QED BY <2>1, <2>2 DEF Quiet
<1>3. \/ s' = s /\ s.scheduler_state[u] = "PRE_BACKWARD"
      \/ s' = h
  <2>1. t = [s EXCEPT !.scheduler_state[u] = "PRE_BACKWARD", !.root_bp_state = TRUE]
    BY <1>1 DEF States
  <2>. QED BY <2>1 DEF BackwardPreHook
<1> HIDE DEF t
<1>4. Quiet(s, g) /\ g.scheduler_state = t.scheduler_state
  <2> DEFINE d == Unshard(t, {u})
  <2>1. t \in States
    BY <1>2 DEF Quiet
  <2>2. /\ d \in States /\ Gradients(d) = Gradients(t)
        /\ SameFlags(t, d) /\ d.scheduler_state = t.scheduler_state
    BY <1>1, <2>1, UnshardSame
  <2> HIDE DEF d
  <2>3. Quiet(s, d)
    BY <1>2, <2>2, QuietOn
  <2>4. g = d \/ g = t
    BY DEF d
  <2>. QED BY <1>2, <2>2, <2>3, <2>4
<1> HIDE DEF g
<1>5. Quiet(s, h) /\ h.scheduler_state = t.scheduler_state
  <2>1. g \in States
    BY <1>4 DEF Quiet
  <2>2. /\ h \in States /\ Gradients(h) = Gradients(g)
        /\ SameFlags(g, h) /\ h.scheduler_state = g.scheduler_state
    BY <1>1, <2>1, PrefetchSame
  <2> HIDE DEF h
  <2>. QED BY <1>4, <2>2, QuietOn
<1> HIDE DEF h
<1>6. Quiet(s, s)
  <2>1. "FORWARD" \in Phases \ {"BACKWARD"}
    BY DEF Phases
  <2>. QED BY <1>1, <2>1, Marked
<1>. QED BY <1>2, <1>3, <1>5, <1>6

LEMMA BackwardPreStep ==
    ASSUME GradInv, NEW u \in Units, BackwardPreHook(u)
    PROVE  GradInv'
<1>1. s' \in States /\ Gradients(s') = Gradients(s)
  BY BackwardPreQuiet DEF Quiet
<1>. QED BY <1>1, QuietCall DEF BackwardPreHook, Running

LEMMA PostBackwardStep ==
    ASSUME GradInv, NEW u \in Units, PostBackwardHook(u)
    PROVE  GradInv'
<1>1. Good(s, {})
  BY DEF GradInv
<1>2. Hook(FALSE, s, u) = s'
  BY DEF Hook, PostBackwardHook
<1>3. Good(Hook(FALSE, s, u), {}) /\ Moved(s, Hook(FALSE, s, u), {u})
  BY <1>1, HookGood
<1>4. Good(s', {}) /\ Moved(s, s', {u})
  BY <1>2, <1>3
<1>. QED BY <1>4, CallStep DEF PostBackwardHook, Running

\* The root's hook is the last call of its pass, and ends every reduction.
LEMMA RootBackwardStep ==
    ASSUME GradInv, RootBackwardHook
    PROVE  GradInv'
<1> DEFINE q == todo
           r == Tail(todo)
<1>1. Good(s', {}) /\ Moved(s, s', Units) /\ \A u \in Units : ~OnWay(s', u)
  BY RootHookGood DEF GradInv, RootBackwardHook
<1>2. q # <<>> /\ todo' = r /\ UNCHANGED <<cfg, version, bwd, computed, stepped>>
      /\ Head(q).hook = "root_backward"
  BY DEF RootBackwardHook, Running
<1>3. Orderly(q, Now, Units, Units)
      /\ \A i \in 1 .. Len(q) :
             /\ q[i].hook = "gradient" => Now \notin computed[q[i].unit]
             /\ q[i].hook \in Marks => Closes(q)
  BY DEF GradInv, Ahead
<1>4. /\ Orderly(r, Now, Units, Units)
      /\ \A i \in 1 .. Len(r) : i + 1 \in 1 .. Len(q) /\ r[i] = q[i + 1]
      /\ 1 \in 1 .. Len(q) /\ q[1] = Head(q)
  BY <1>2, <1>3, OrderlyTail
<1>5. Len(r) \in Nat /\ Len(r) + 1 = Len(q)
  BY <1>2, <1>3, LenProperties, HeadTailProperties DEF Orderly
<1> HIDE DEF r
<1>6. ASSUME NEW i \in 1 .. Len(r)
      PROVE  /\ r[i].hook = "gradient" => Now \notin computed[r[i].unit]
             /\ r[i].hook \in Marks => Closes(r)
  <2>1. Len(r) \in 1 .. Len(r) /\ Len(r) > 0
    BY <1>5
  <2>2. Closes(q) => Closes(r)
    BY <1>4, <1>5, <2>1 DEF Closes
  <2>. QED BY <1>3, <1>4, <2>2
<1>7. Types' /\ Good(s, {})' /\ Account' /\ Past' /\ Now' = Now
  <2>1. Types' /\ Past' /\ Now' = Now
    BY <1>2 DEF GradInv, Types, Past, Now
  <2>2. Good(s, {})'
    BY <1>1, <1>2 DEF Good
  <2>3. Account'
    BY <1>1, <1>2 DEF GradInv, Account, Moved, Stepped
  <2>. QED BY <2>1, <2>2, <2>3
<1>8. Ahead(todo, s)'
  BY <1>1, <1>2, <1>4, <1>6, <1>7 DEF Ahead
<1>. QED BY <1>7, <1>8 DEF GradInv

\* Autograd produces the gradient of a unit that no reduction holds.
LEMMA GradientStep ==
    ASSUME GradInv, NEW v \in Units, Gradient(v)
    PROVE  GradInv'
<1> DEFINE q == todo
           r == Tail(todo)
<1>1. /\ q # <<>> /\ todo' = r /\ UNCHANGED <<cfg, version, bwd, stepped>>
      /\ Head(q).hook = "gradient" /\ Head(q).unit = v
  BY DEF Gradient, Running
<1>2. /\ Orderly(q, Now, Units, Units)
      /\ \A i \in 1 .. Len(q) :
           /\ q[i].hook = "gradient" => Now \notin computed[q[i].unit]
           /\ q[i].hook \in Marks => Closes(q)
      /\ \A u \in Units :
           OnWay(s, u) => /\ Closes(q)
                          /\ \A i \in 1 .. Len(q) : q[i].hook = "gradient" => q[i].unit # u
  BY DEF GradInv, Ahead
<1>3. /\ Head(q).micro = Now
      /\ Orderly(r, Now, Units, Units)
      /\ \A i \in 1 .. Len(r) : i + 1 \in 1 .. Len(q) /\ r[i] = q[i + 1]
      /\ 1 \in 1 .. Len(q) /\ q[1] = Head(q)
      /\ \A i \in 1 .. Len(r) : r[i].hook = "gradient" => r[i].unit # v
      /\ Closes(q) => Closes(r)
  <2>1. "gradient" \in Marks
    BY DEF Marks
  <2>. QED BY <1>1, <1>2, <2>1, OrderlyTail
<1> HIDE DEF r
<1>4. ~OnWay(s, v) /\ Now \notin computed[v]
  BY <1>1, <1>2, <1>3
<1>5. Now \in Int /\ Good(s, {})
  BY ShardedAssumption DEF GradInv, Types, Now
<1>6. s' = [s EXCEPT !.grad[v] = @ (+) SetToBag({Now})]
  BY <1>3 DEF Gradient
<1>7. /\ Good(s', {})
      /\ \A u \in Units :
           /\ OnWay(s', u) <=> OnWay(s, u)
           /\ \A m \in Int : Kept(s', u, m) = Kept(s, u, m) + IF u = v /\ m = Now THEN 1 ELSE 0
  <2> DEFINE now == Now
             g == [s EXCEPT !.grad[v] = @ (+) SetToBag({now})]
  <2> HIDE DEF now
  <2>1. now \in Int
    BY <1>5 DEF now
  <2>2. Grown(s, g, v, now)
    BY <1>4, <1>5, <2>1, GradientGood
  <2>3. s' = g
    BY <1>6 DEF now
  <2> HIDE DEF g
  <2>. QED BY <2>2, <2>3 DEF now, Grown
<1>8. /\ computed' \in [Units -> SUBSET Int]
      /\ \A u \in Units : computed'[u] = IF u = v THEN computed[u] \cup {Now} ELSE computed[u]
  BY <1>3, <1>5 DEF Gradient, GradInv, Types
<1>9. Types' /\ Good(s, {})' /\ Now' = Now
  <2>1. Types' /\ Now' = Now
    BY <1>1, <1>8 DEF GradInv, Types, Now
  <2>2. Good(s, {})'
    BY <1>1, <1>7 DEF Good
  <2>. QED BY <2>1, <2>2
<1>10. Past'
  BY <1>5, <1>8, <1>9 DEF GradInv, Past
<1>11. Account'
  <2>1. ASSUME NEW u \in Units, NEW m \in Int
        PROVE  Kept(s', u, m) + Stepped(u, m) = IF m \in computed'[u] THEN 1 ELSE 0
    <3>1. Kept(s, u, m) + Stepped(u, m) = IF m \in computed[u] THEN 1 ELSE 0
      BY DEF GradInv, Account
    <3>2. Kept(s, u, m) \in Int /\ Stepped(u, m) \in Int
      <4>1. s \in States /\ stepped[u] \in LevelBags
        BY DEF GradInv, Good, Types
      <4>2. Stepped(u, m) \in Int
        BY <4>1, BagFacts DEF Stepped, LevelBags
      <4>3. Kept(s, u, m) \in Int
        BY <4>1, Counting DEF Kept
      <4>. QED BY <4>2, <4>3
    <3>3. Kept(s', u, m) = Kept(s, u, m) + IF u = v /\ m = Now THEN 1 ELSE 0
      BY <1>7
    <3>4. CASE u = v /\ m = Now
      BY <1>4, <1>8, <3>1, <3>2, <3>3, <3>4
    <3>5. CASE ~(u = v /\ m = Now)
      BY <1>8, <3>1, <3>2, <3>3, <3>5
    <3>. QED BY <3>4, <3>5
  <2>. QED BY <1>1, <2>1 DEF Account, Stepped
<1>12. Ahead(todo, s)'
  <2>1. ASSUME NEW i \in 1 .. Len(r)
        PROVE  /\ r[i].hook = "gradient" => Now \notin computed'[r[i].unit]
               /\ r[i].hook \in Marks => Closes(r)
    <3>1. Closes(q)
      BY <1>1, <1>2, <1>3 DEF Marks
    <3>2. r[i].hook = "gradient" => r[i].unit \in Units
      BY <1>3 DEF Orderly
    <3>. QED BY <1>2, <1>3, <1>8, <3>1, <3>2
  <2>2. ASSUME NEW u \in Units, OnWay(s', u)
        PROVE  /\ Closes(r)
               /\ \A i \in 1 .. Len(r) : r[i].hook = "gradient" => r[i].unit # u
    BY <1>2, <1>3, <1>7, <2>2
  <2>. QED BY <1>1, <1>3, <1>9, <2>1, <2>2 DEF Ahead
<1>. QED BY <1>9, <1>10, <1>11, <1>12 DEF GradInv

\* Between two passes no gradient is on its way.
LEMMA Resting ==
    ASSUME GradInv, todo = <<>>
    PROVE  \A u \in Units : ~OnWay(s, u)
<1>1. ~Closes(todo)
  BY EmptySeq DEF Closes
<1>. QED BY <1>1 DEF GradInv, Ahead

LEMMA BetweenStep ==
    ASSUME GradInv, todo = <<>>, UNCHANGED <<cfg, version, bwd, computed, stepped>>,
           Good(s', {}), Moved(s, s', Units), \A u \in Units : ~OnWay(s', u),
           Orderly(todo', Now, {}, {})
    PROVE  GradInv'
<1>1. Types' /\ Past' /\ Now' = Now
  BY DEF GradInv, Types, Past, Now
<1>2. Good(s, {})'
  BY DEF Good
<1>3. Account'
  BY DEF GradInv, Account, Moved, Stepped
<1>4. Ahead(todo, s)'
  <2>1. Orderly(todo', Now, Units, Units)
    BY OrderlyMore
  <2>2. \A i \in 1 .. Len(todo') : todo'[i].hook \notin Marks
    BY DEF Orderly
  <2>3. "gradient" \in Marks
    BY DEF Marks
  <2>. QED BY <1>1, <2>1, <2>2, <2>3 DEF Ahead
<1>. QED BY <1>1, <1>2, <1>3, <1>4 DEF GradInv

\* A change of flags or of gathered parameters, between two passes.
LEMMA QuietBetween ==
    ASSUME GradInv, todo = <<>>, UNCHANGED <<cfg, version, bwd, computed, stepped>>,
           s' \in States, Gradients(s') = Gradients(s), Orderly(todo', Now, {}, {})
    PROVE  GradInv'
<1>1. Good(s', {}) /\ Moved(s, s', {})
  <2>1. Good(s, {})
    BY DEF GradInv
  <2>. QED BY <2>1, SameGradients
<1>2. Moved(s, s', Units) /\ \A u \in Units : ~OnWay(s', u)
  BY <1>1, Resting DEF Moved
<1>. QED BY <1>1, <1>2, BetweenStep

LEMMA BeginForwardStep ==
    ASSUME GradInv, BeginForward
    PROVE  GradInv'
<1>1. s \in States /\ cfg \in Configs
  BY DEF GradInv, Good, Types
<1>2. {cfg.requires_grad_sync, cfg.keep, cfg.hsdp} \subseteq BOOLEAN
  BY <1>1, ShardedAssumption
<1>3. s' \in States /\ Gradients(s') = Gradients(s)
  <2>1. CASE s' = PipelineFlags(fwd + 1)
    BY <1>1, <2>1 DEF PipelineFlags, States, Gradients
  <2>2. CASE s' = TrainerFlags(fwd + 1)
    <3>1. PICK a \in BOOLEAN, b \in BOOLEAN, c \in BOOLEAN :
            s' = [s EXCEPT !.reshard_after_backward = a, !.reduce_grads = b,
                           !.requires_all_reduce = c]
      <4>1. /\ (~cfg.keep \/ fwd + 1 = NMicro) \in BOOLEAN
            /\ (cfg.requires_grad_sync \/ fwd + 1 = NMicro) \in BOOLEAN
            /\ (~cfg.hsdp \/ fwd + 1 = NMicro) \in BOOLEAN
        BY <1>2
      <4>. QED BY <2>2, <4>1 DEF TrainerFlags
    <3>2. s' \in States
      BY <1>1, <3>1 DEF States
    <3>3. Gradients(s') = Gradients(s)
      BY <1>1, <3>1 DEF States, Gradients
    <3>. QED BY <3>2, <3>3
  <2>. QED BY <2>1, <2>2 DEF BeginForward
<1>4. PICK U \in UsedSets : todo' = ForwardCalls(U)
  BY DEF BeginForward
<1>5. Orderly(todo', Now, {}, {})
  BY <1>4, ForwardOrderly
<1>. QED BY <1>3, <1>5, QuietBetween DEF BeginForward

LEMMA EvaluateStep ==
    ASSUME GradInv, Evaluate
    PROVE  GradInv'
<1>1. s' \in States /\ Gradients(s') = Gradients(s)
  BY DEF GradInv, Good, Evaluate
<1>2. PICK U \in UsedSets : todo' = ForwardCalls(U)
  BY DEF Evaluate
<1>3. Orderly(todo', Now, {}, {})
  BY <1>2, ForwardOrderly
<1>. QED BY <1>1, <1>3, QuietBetween DEF Evaluate

LEMMA PipelineGathersStep ==
    ASSUME GradInv, PipelineGathers
    PROVE  GradInv'
<1>1. s \in States /\ version \in Nat
  BY DEF GradInv, Good, Types
<1>2. s' = Unshard(s, Units) \/ s' = Shard(s, Units)
  BY DEF PipelineGathers
<1>3. s' \in States /\ Gradients(s') = Gradients(s)
  BY <1>1, <1>2, UnshardSame, SharingSame
<1>4. Orderly(todo', Now, {}, {})
  BY OrderlyNone DEF PipelineGathers
<1>. QED BY <1>3, <1>4, QuietBetween DEF PipelineGathers

LEMMA ResetStep ==
    ASSUME GradInv, ResetIterState
    PROVE  GradInv'
<1>1. s \in States
  BY DEF GradInv, Good
<1>2. Fresh("None") \in [Units -> Phases] /\ Fresh(FALSE) \in [Units -> BOOLEAN]
  BY DEF Fresh, Phases
<1>3. s' = [s EXCEPT !.scheduler_state = Fresh("None"), !.gather = Fresh(FALSE),
                     !.root_bp_state = FALSE]
  BY DEF ResetIterState
<1>4. s' \in States /\ Gradients(s') = Gradients(s)
  BY <1>1, <1>2, <1>3 DEF States, Gradients
<1>5. Orderly(todo', Now, {}, {})
  BY OrderlyNone DEF ResetIterState
<1>. QED BY <1>4, <1>5, QuietBetween DEF ResetIterState

LEMMA ExecuteStep ==
    ASSUME GradInv, ExecuteReduceGrad
    PROVE  GradInv'
<1> DEFINE t == [s EXCEPT !.reshard_after_backward = TRUE, !.reduce_grads = TRUE]
           g == FoldLeft(PostBackward, t, AllUnits)
           f == RootHook(g)
<1>1. Good(s, {}) /\ s \in States
  BY DEF GradInv, Good
<1>2. t \in States /\ Gradients(t) = Gradients(s)
  BY <1>1 DEF States, Gradients
<1>3. s' = f
  BY DEF ExecuteReduceGrad
<1> HIDE DEF t
<1>4. Good(t, {}) /\ Moved(s, t, {})
  BY <1>1, <1>2, SameGradients
<1>5. Looped(TRUE, t, g)
  BY <1>4, LoopsGood
<1> HIDE DEF g
<1>10. Good(g, {}) /\ Moved(t, g, Units)
  BY <1>5 DEF Looped
<1>6. Good(f, {}) /\ Moved(g, f, Units) /\ \A u \in Units : ~OnWay(f, u)
  BY <1>10, RootHookGood
<1> HIDE DEF f
<1>7. Moved(s, f, Units)
  BY <1>4, <1>10, <1>6 DEF Moved
<1>8. Good(s', {}) /\ Moved(s, s', Units) /\ \A u \in Units : ~OnWay(s', u)
  BY <1>3, <1>6, <1>7
<1>9. Orderly(todo', Now, {}, {})
  BY OrderlyNone DEF ExecuteReduceGrad
<1>. QED BY <1>8, <1>9, BetweenStep DEF ExecuteReduceGrad

\* The micro-batch that goes backward is one that no unit has a gradient of.
LEMMA BeginBackwardStep ==
    ASSUME GradInv, BeginBackward
    PROVE  GradInv'
<1>1. /\ todo = <<>> /\ UNCHANGED <<cfg, s, version, computed, stepped>> /\ bwd' = bwd + 1
  BY DEF BeginBackward
<1>2. version \in Nat /\ bwd \in Nat /\ NMicro \in Nat /\ (version - 1) * NMicro \in Int
  BY ShardedAssumption DEF GradInv, Types
<1>3. Now \in Int /\ Now' = Now + 1 /\ Now' = (version - 1) * NMicro + bwd + 1
  <2> DEFINE x == (version - 1) * NMicro
  <2>1. x \in Int /\ x' = x
    BY <1>1, <1>2
  <2> HIDE DEF x
  <2>2. Now = x + bwd /\ Now' = x' + bwd'
    BY DEF Now, x
  <2>3. Now \in Int /\ Now' = x + bwd + 1
    BY <1>1, <1>2, <2>1, <2>2
  <2>. QED BY <1>2, <2>1, <2>2, <2>3 DEF x
<1>4. PICK quiet \in BOOLEAN :
        todo' = BackwardCalls(Head(used), (version - 1) * NMicro + bwd + 1, quiet)
  BY DEF BeginBackward
<1>5. todo' = BackwardCalls(Head(used), Now', quiet)
  BY <1>3, <1>4
<1>6. Orderly(todo', Now', Units, Units) /\ Closes(todo')
  <2> DEFINE m == (version - 1) * NMicro + bwd + 1
  <2>1. m \in Int /\ m = Now'
    BY <1>3
  <2> HIDE DEF m
  <2>2. Orderly(BackwardCalls(Head(used), m, quiet), m, Units, Units)
        /\ Closes(BackwardCalls(Head(used), m, quiet))
    BY <2>1, BackwardOrderly
  <2>. QED BY <1>5, <2>1, <2>2
<1>7. \A u \in Units : Now' \notin computed[u]
  <2>1. \A u \in Units : \A m \in computed[u] : m <= Now /\ m \in Int
    BY DEF GradInv, Past, Types
  <2>. QED BY <1>3, <2>1
<1>8. \A u \in Units : ~OnWay(s, u)
  BY <1>1, Resting
<1>9. Types' /\ Good(s, {})' /\ Account' /\ Past'
  <2>1. Types'
    BY <1>1, <1>2 DEF GradInv, Types
  <2>2. Good(s, {})'
    BY <1>1 DEF GradInv, Good
  <2>3. Account'
    BY <1>1 DEF GradInv, Account, Stepped
  <2>4. Past'
    <3>1. \A u \in Units : \A m \in computed[u] : m <= Now /\ m \in Int
      BY DEF GradInv, Past, Types
    <3>2. \A u \in Units : \A m \in computed[u] : m <= Now'
      BY <1>3, <3>1
    <3>. QED BY <1>1, <3>2 DEF Past
  <2>. QED BY <2>1, <2>2, <2>3, <2>4
<1>10. Ahead(todo, s)'
  <2>1. \A i \in 1 .. Len(todo') : todo'[i].hook = "gradient" => todo'[i].unit \in Units
    BY <1>6 DEF Orderly
  <2>. QED BY <1>1, <1>6, <1>7, <1>8, <2>1 DEF Ahead
<1>. QED BY <1>9, <1>10 DEF GradInv

\* The optimizer consumes exactly what it clears.
LEMMA OptimizerStepStep ==
    ASSUME GradInv, OptimizerStep
    PROVE  GradInv'
<1> DEFINE g == [s EXCEPT !.main = Fresh(EmptyBag)]
<1>1. /\ s' = g /\ todo = <<>> /\ todo' = <<>> /\ cfg' = cfg /\ computed' = computed
      /\ version' = version + 1 /\ bwd = NMicro /\ bwd' = 0
      /\ stepped' = [u \in Units |-> stepped[u] (+) s.main[u]]
  BY DEF OptimizerStep, StepReady
<1>2. version \in Nat /\ version + 1 \in Nat \ {0} /\ bwd \in Nat /\ NMicro \in Nat
      /\ Good(s, {}) /\ s \in States
  BY ShardedAssumption DEF GradInv, Types, Good
<1>3. Now' = Now
  <2> DEFINE F(x, y) == (x - 1) * NMicro + y
  <2>0. Now = F(version, bwd) /\ Now' = F(version', bwd')
    BY DEF Now
  <2> HIDE DEF F
  <2>3. Now = F(version, NMicro) /\ Now' = F(version + 1, 0)
    BY <1>1, <2>0
  <2>1. F(version, NMicro) = F(version + 1, 0)
    BY <1>2 DEF F
  <2>. QED BY <2>1, <2>3
<1>4. /\ Good(g, {})
      /\ \A u \in Units :
           /\ OnWay(g, u) <=> OnWay(s, u)
           /\ \A m \in Int :
                Kept(g, u, m) + Copies(<<m, "shards">>, s.main[u])
                + Copies(<<m, "replicas">>, s.main[u]) = Kept(s, u, m)
  BY <1>2, ConsumedGood
<1> HIDE DEF g
<1>5. ASSUME NEW u \in Units
      PROVE  /\ stepped'[u] \in LevelBags
             /\ \A e : Copies(e, stepped'[u]) = Copies(e, stepped[u]) + Copies(e, s.main[u])
  <2>1. stepped[u] \in LevelBags /\ s.main[u] \in LevelBags
    BY <1>2 DEF GradInv, Types, States
  <2>2. stepped'[u] = stepped[u] (+) s.main[u]
    BY <1>1
  <2>. QED BY <2>1, <2>2, SumCopies DEF LevelBags
<1>6. Types' /\ Good(s, {})' /\ Past'
  <2>1. Types'
    <3>1. stepped' \in [Units -> LevelBags]
      BY <1>1, <1>5
    <3>. QED BY <1>1, <1>2, <3>1 DEF GradInv, Types
  <2>2. Good(s, {})'
    BY <1>1, <1>4 DEF Good
  <2>3. Past'
    BY <1>1, <1>3 DEF GradInv, Past
  <2>. QED BY <2>1, <2>2, <2>3
<1>7. ASSUME NEW u \in Units, NEW m \in Int
      PROVE  (Kept(s, u, m) + Stepped(u, m) = IF m \in computed[u] THEN 1 ELSE 0)'
  <2> DEFINE x == <<m, "shards">>
             y == <<m, "replicas">>
  <2>1. Kept(s, u, m) + Stepped(u, m) = IF m \in computed[u] THEN 1 ELSE 0
    BY DEF GradInv, Account
  <2>2. Kept(g, u, m) + Copies(x, s.main[u]) + Copies(y, s.main[u]) = Kept(s, u, m)
    BY <1>4
  <2>3. g \in States
    BY <1>4 DEF Good
  <2>4. Kept(g, u, m) \in Int
    <3>1. /\ Copies(m, g.grad[u]) \in Nat /\ Copies(m, g.acc[u]) \in Nat
          /\ Copies(m, g.rs[u]) \in Nat /\ Copies(m, g.bucket[u]) \in Nat
          /\ Copies(m, g.partial[u]) \in Nat /\ Copies(m, g.ar[u]) \in Nat
          /\ Copies(<<m, "shards">>, g.main[u]) \in Nat
          /\ Copies(<<m, "replicas">>, g.main[u]) \in Nat
      BY <2>3, Counting
    <3>. QED BY <3>1 DEF Kept
  <2>5. /\ Copies(x, s.main[u]) \in Int /\ Copies(y, s.main[u]) \in Int
        /\ Copies(x, stepped[u]) \in Int /\ Copies(y, stepped[u]) \in Int
    <3>1. stepped[u] \in LevelBags /\ s.main[u] \in LevelBags
      BY <1>2 DEF GradInv, Types, States
    <3>. QED BY <3>1, BagFacts DEF LevelBags
  <2>6. Copies(x, stepped'[u]) = Copies(x, stepped[u]) + Copies(x, s.main[u])
        /\ Copies(y, stepped'[u]) = Copies(y, stepped[u]) + Copies(y, s.main[u])
    BY <1>5
  <2>7. Stepped(u, m) = Copies(x, stepped[u]) + Copies(y, stepped[u])
        /\ Stepped(u, m)' = Copies(x, stepped'[u]) + Copies(y, stepped'[u])
    BY DEF Stepped
  <2>8. Stepped(u, m)' + Kept(g, u, m) = Stepped(u, m) + Kept(s, u, m)
    BY <2>2, <2>4, <2>5, <2>6, <2>7
  <2>9. Stepped(u, m)' \in Int /\ Stepped(u, m) \in Int
    BY <2>5, <2>6, <2>7
  <2>10. Kept(s, u, m) \in Int
    BY <2>2, <2>4, <2>5
  <2>11. Kept(g, u, m) + Stepped(u, m)' = IF m \in computed[u] THEN 1 ELSE 0
    BY <2>1, <2>4, <2>8, <2>9, <2>10
  <2>. QED BY <1>1, <2>11
<1>8. Account'
  BY <1>7 DEF Account
<1>9. Ahead(todo, s)'
  <2>1. \A u \in Units : ~OnWay(s', u)
    BY <1>1, <1>4, Resting
  <2>2. Orderly(<<>>, Now, Units, Units) /\ Len(<<>>) = 0
    BY OrderlyNone, EmptySeq
  <2>. QED BY <1>1, <1>3, <2>1, <2>2 DEF Ahead
<1>. QED BY <1>6, <1>8, <1>9 DEF GradInv

LEMMA Stutter ==
    ASSUME GradInv, UNCHANGED vars
    PROVE  GradInv'
  BY DEF vars, GradInv, Types, Good, Account, Stepped, Past, Now, Ahead

LEMMA InitGradInv == Init => GradInv
<1> SUFFICES ASSUME Init PROVE GradInv
  OBVIOUS
<1>1. NKids \in Nat \ {0} /\ NMicro \in Nat /\ Root \in Units
  BY ShardedAssumption DEF Units, Root
<1> DEFINE none == Fresh(EmptyBag)
<1>2. none \in Bags1 /\ none \in [Units -> LevelBags] /\ \A u \in Units : none[u] = EmptyBag
  BY NoCopies DEF Fresh, Bags1, MicroBags, LevelBags
<1> HIDE DEF none
<1>3. /\ Fresh("None") \in [Units -> Phases] /\ Fresh(TRUE) \in [Units -> BOOLEAN]
      /\ Fresh(FALSE) \in [Units -> BOOLEAN] /\ Fresh(Freed) \in [Units -> Nat]
  BY DEF Fresh, Phases, Freed
<1>4. s \in States
  BY <1>2, <1>3, EmptySeq DEF Init, States, none
<1>5. /\ s.grad = none /\ s.acc = none /\ s.rs = none /\ s.bucket = none
      /\ s.partial = none /\ s.ar = none /\ s.main = none
      /\ s.pre_reduce_scatter_params = <<>> /\ s.pre_all_reduce_groups = <<>>
      /\ s.pending_all_reduce_groups = <<>>
      /\ s.pre_param_group = NoUnit /\ s.all_reduce_param_group = NoUnit
  BY DEF Init, none
<1>6. \A u \in Units : NoUnit # u
  BY <1>1 DEF NoUnit, Units
<1>7. \A u \in Units : Placed(s, u, {}) /\ ~OnWay(s, u) /\ ~Awaits(s, u)
  BY <1>2, <1>5, <1>6, Empty
  DEF Placed, Scattering, Bucketing, Awaits, Pends, OneSource, Spent, OnWay
<1>8. Good(s, {})
  BY <1>4, <1>5, <1>7 DEF Good
<1>9. Types
  <2>1. stepped = none /\ computed = Fresh({})
    BY DEF Init, none
  <2>2. Fresh({}) \in [Units -> SUBSET Int]
    BY DEF Fresh
  <2>. QED BY <1>2, <2>1, <2>2 DEF Init, Types
<1>10. \A u \in Units : computed[u] = {} /\ stepped[u] = EmptyBag
  BY DEF Init, Fresh
<1>11. Account
  <2>1. \A u \in Units, m \in Int : Kept(s, u, m) = 0
    BY <1>2, <1>5, <1>7, NoCopies DEF Kept
  <2>2. \A u \in Units, m \in Int : Stepped(u, m) = 0
    BY <1>10, NoCopies DEF Stepped
  <2>. QED BY <1>10, <2>1, <2>2 DEF Account
<1>12. Past
  BY <1>10 DEF Past
<1>13. Ahead(todo, s)
  <2>1. todo = <<>>
    BY DEF Init
  <2>. QED BY <1>7, <2>1, OrderlyNone, EmptySeq DEF Ahead
<1>. QED BY <1>8, <1>9, <1>11, <1>12, <1>13 DEF GradInv

LEMMA NextGradInv == GradInv /\ [Next]_vars => GradInv'
<1> SUFFICES ASSUME GradInv, [Next]_vars PROVE GradInv'
  OBVIOUS
<1>1. ASSUME NEW u \in Units, ForwardPreHook(u) PROVE GradInv'
  BY <1>1, ForwardPreStep
<1>2. ASSUME NEW u \in Units, ForwardHook(u) PROVE GradInv'
  BY <1>2, ForwardStep
<1>3. ASSUME NEW u \in Units, BackwardPreHook(u) PROVE GradInv'
  BY <1>3, BackwardPreStep
<1>4. ASSUME NEW u \in Units, Gradient(u) PROVE GradInv'
  BY <1>4, GradientStep
<1>5. ASSUME NEW u \in Units, PostBackwardHook(u) PROVE GradInv'
  BY <1>5, PostBackwardStep
<1>6. CASE RootBackwardHook
  BY <1>6, RootBackwardStep
<1>7. CASE BeginForward
  BY <1>7, BeginForwardStep
<1>8. CASE BeginBackward
  BY <1>8, BeginBackwardStep
<1>9. CASE PipelineGathers
  BY <1>9, PipelineGathersStep
<1>10. CASE ExecuteReduceGrad
  BY <1>10, ExecuteStep
<1>11. CASE OptimizerStep
  BY <1>11, OptimizerStepStep
<1>12. CASE Evaluate
  BY <1>12, EvaluateStep
<1>13. CASE ResetIterState
  BY <1>13, ResetStep
<1>14. CASE UNCHANGED vars
  BY <1>14, Stutter
<1>. QED
  BY <1>1, <1>2, <1>3, <1>4, <1>5, <1>6, <1>7, <1>8, <1>9, <1>10, <1>11, <1>12, <1>13, <1>14
  DEF Next

-----------------------------------------------------------------------------
(* From the counts to the bags the property is about. *)

LEMMA UntaggedCopies ==
    ASSUME NEW b \in LevelBags
    PROVE  /\ Untagged(b) \in MicroBags
           /\ \A m \in Int : Copies(m, Untagged(b))
                               = Copies(<<m, "shards">>, b) + Copies(<<m, "replicas">>, b)
<1> DEFINE micros == {x[1] : x \in DOMAIN b}
           N(m) == Copies(<<m, "shards">>, b) + Copies(<<m, "replicas">>, b)
           c == Untagged(b)
<1>1. c = [m \in micros |-> N(m)]
  BY DEF Untagged, Copies
<1>2. /\ DOMAIN b \subseteq Int \X Levels
      /\ \A e : Copies(e, b) \in Nat
      /\ \A e : Copies(e, b) = 0 <=> e \notin DOMAIN b
  BY BagFacts DEF LevelBags
<1>3. micros \subseteq Int
  BY <1>2
<1>4. \A m \in Int : m \in micros <=> N(m) # 0
  <2> TAKE m \in Int
  <2>1. m \in micros <=> <<m, "shards">> \in DOMAIN b \/ <<m, "replicas">> \in DOMAIN b
    <3>1. ASSUME m \in micros
          PROVE  <<m, "shards">> \in DOMAIN b \/ <<m, "replicas">> \in DOMAIN b
      <4>1. PICK x \in DOMAIN b : x[1] = m
        BY <3>1
      <4>2. x = <<m, "shards">> \/ x = <<m, "replicas">>
        BY <1>2, <4>1 DEF Levels
      <4>. QED BY <4>1, <4>2
    <3>2. <<m, "shards">>[1] = m /\ <<m, "replicas">>[1] = m
      OBVIOUS
    <3>. QED BY <3>1, <3>2
  <2>2. N(m) = 0 <=> Copies(<<m, "shards">>, b) = 0 /\ Copies(<<m, "replicas">>, b) = 0
    BY <1>2
  <2>. QED BY <1>2, <2>1, <2>2
<1>5. \A m : N(m) \in Nat
  BY <1>2
<1> HIDE DEF micros, c, N
<1>6. DOMAIN c = micros /\ \A m \in micros : c[m] = N(m) /\ c[m] \in Nat \ {0}
  BY <1>1, <1>3, <1>4, <1>5
<1>7. c \in [micros -> Nat \ {0}]
  BY <1>1, <1>6
<1>8. c \in MicroBags
  BY <1>3, <1>7 DEF MicroBags, BagsOver
<1>9. \A m \in Int : Copies(m, c) = N(m)
  BY <1>4, <1>6 DEF Copies
<1>. QED BY <1>8, <1>9 DEF c, N

LEMMA ComputedCopies ==
    ASSUME NEW S \in SUBSET Int
    PROVE  /\ SetToBag(S) \in MicroBags
           /\ \A m \in Int : Copies(m, SetToBag(S)) = IF m \in S THEN 1 ELSE 0
<1> DEFINE b == SetToBag(S)
<1>1. b = [e \in S |-> 1]
  BY DEF SetToBag
<1>2. b \in [S -> Nat \ {0}] /\ DOMAIN b = S /\ \A e \in S : b[e] = 1
  BY <1>1
<1> HIDE DEF b
<1>3. b \in MicroBags
  BY <1>2 DEF MicroBags, BagsOver
<1>4. \A m \in Int : Copies(m, b) = IF m \in S THEN 1 ELSE 0
  BY <1>2 DEF Copies
<1>. QED BY <1>3, <1>4 DEF b

\* What Held sums is what Kept and Stepped count.
LEMMA HeldCopies ==
    ASSUME GradInv, NEW u \in Units
    PROVE  /\ Held(u) \in MicroBags
           /\ \A m \in Int : Copies(m, Held(u)) = Kept(s, u, m) + Stepped(u, m)
<1> DEFINE waits == Awaits(s, u)
           a == IF waits THEN EmptyBag ELSE s.grad[u] (+) s.acc[u]
           b == IF s.bucket[u] # EmptyBag THEN s.bucket[u] ELSE s.rs[u]
           p == s.partial[u]
           r == s.ar[u]
           w == s.main[u] (+) stepped[u]
           d == Untagged(w)
<1>1. s \in States /\ stepped[u] \in LevelBags
  BY DEF GradInv, Good, Types
<1>2. /\ s.grad[u] \in MicroBags /\ s.acc[u] \in MicroBags /\ s.rs[u] \in MicroBags
      /\ s.bucket[u] \in MicroBags /\ p \in MicroBags /\ r \in MicroBags
      /\ s.main[u] \in LevelBags
  BY <1>1, Counting
<1>3. AwaitsScatter(u) <=> waits
  <2>1. s.pre_reduce_scatter_params \in Seq(Units) /\ s.pre_all_reduce_groups \in Seq(Units)
    BY <1>1 DEF States
  <2>. QED BY <2>1, QueueSum DEF AwaitsScatter, Awaits, Scattering, Bucketing
<1>4. Held(u) = a (+) b (+) p (+) r (+) d
  BY <1>3 DEF Held
<1>5. /\ w \in LevelBags
      /\ \A e : Copies(e, w) = Copies(e, s.main[u]) + Copies(e, stepped[u])
  BY <1>1, <1>2, SumCopies DEF LevelBags
<1>6. /\ d \in MicroBags
      /\ \A m \in Int : Copies(m, d) = Copies(<<m, "shards">>, w) + Copies(<<m, "replicas">>, w)
  <2> HIDE DEF w
  <2>. QED BY <1>5, UntaggedCopies
<1>7. a \in MicroBags /\ \A m \in Int :
        Copies(m, a) = IF waits THEN 0 ELSE Copies(m, s.grad[u]) + Copies(m, s.acc[u])
  <2>1. s.grad[u] (+) s.acc[u] \in MicroBags /\ \A m \in Int :
          Copies(m, s.grad[u] (+) s.acc[u]) = Copies(m, s.grad[u]) + Copies(m, s.acc[u])
    BY <1>2, SumCopies DEF MicroBags
  <2>2. EmptyBag \in MicroBags /\ \A m \in Int : Copies(m, EmptyBag) = 0
    BY NoCopies DEF MicroBags
  <2>. QED BY <2>1, <2>2
<1>8. b \in MicroBags /\ \A m \in Int :
        Copies(m, b) = IF s.bucket[u] # EmptyBag THEN Copies(m, s.bucket[u]) ELSE Copies(m, s.rs[u])
  BY <1>2
<1> HIDE DEF a, b, p, r, d, w
<1> DEFINE x == a (+) b
           y == x (+) p
           z == y (+) r
<1>9. x \in MicroBags /\ \A m \in Int : Copies(m, x) = Copies(m, a) + Copies(m, b)
  BY <1>7, <1>8, SumCopies DEF MicroBags
<1> HIDE DEF x
<1>10. y \in MicroBags /\ \A m \in Int : Copies(m, y) = Copies(m, x) + Copies(m, p)
  BY <1>2, <1>9, SumCopies DEF MicroBags
<1> HIDE DEF y
<1>11. z \in MicroBags /\ \A m \in Int : Copies(m, z) = Copies(m, y) + Copies(m, r)
  BY <1>2, <1>10, SumCopies DEF MicroBags
<1> HIDE DEF z
<1>12. z (+) d \in MicroBags /\ \A m \in Int : Copies(m, z (+) d) = Copies(m, z) + Copies(m, d)
  BY <1>6, <1>11, SumCopies DEF MicroBags
<1>13. Held(u) = z (+) d
  BY <1>4 DEF x, y, z
<1>14. ASSUME NEW m \in Int
       PROVE  Copies(m, Held(u)) = Kept(s, u, m) + Stepped(u, m)
  <2> DEFINE v == <<m, "shards">>
             k == <<m, "replicas">>
  <2>1. /\ Copies(m, s.grad[u]) \in Nat /\ Copies(m, s.acc[u]) \in Nat
        /\ Copies(m, s.rs[u]) \in Nat /\ Copies(m, s.bucket[u]) \in Nat
        /\ Copies(m, s.partial[u]) \in Nat /\ Copies(m, s.ar[u]) \in Nat
        /\ Copies(v, s.main[u]) \in Nat /\ Copies(k, s.main[u]) \in Nat
    BY <1>1, Counting
  <2>2. Copies(v, stepped[u]) \in Nat /\ Copies(k, stepped[u]) \in Nat
    BY <1>1, BagFacts DEF LevelBags
  <2>3. Copies(m, d) = Copies(v, s.main[u]) + Copies(v, stepped[u])
                       + (Copies(k, s.main[u]) + Copies(k, stepped[u]))
    BY <1>5, <1>6
  <2>4. Copies(m, Held(u)) = Copies(m, a) + Copies(m, b) + Copies(m, s.partial[u])
                             + Copies(m, s.ar[u]) + Copies(m, d)
    BY <1>9, <1>10, <1>11, <1>12, <1>13 DEF p, r
  <2> DEFINE A == IF waits THEN 0 ELSE Copies(m, s.grad[u]) + Copies(m, s.acc[u])
             B == IF s.bucket[u] # EmptyBag THEN Copies(m, s.bucket[u]) ELSE Copies(m, s.rs[u])
  <2>5. Copies(m, a) = A /\ Copies(m, b) = B /\ A \in Nat /\ B \in Nat
    BY <1>7, <1>8, <2>1
  <2>6. Kept(s, u, m) = A + B + Copies(m, s.partial[u]) + Copies(m, s.ar[u])
                        + Copies(v, s.main[u]) + Copies(k, s.main[u])
    BY DEF Kept
  <2>7. Stepped(u, m) = Copies(v, stepped[u]) + Copies(k, stepped[u])
    BY DEF Stepped
  <2> HIDE DEF A, B, v, k
  <2>. QED BY <2>1, <2>2, <2>3, <2>4, <2>5, <2>6, <2>7
<1>. QED BY <1>12, <1>13, <1>14

LEMMA GradInvConserves == GradInv => GradientsConserved
<1> SUFFICES ASSUME GradInv, NEW u \in Units
             PROVE  Held(u) = SetToBag(computed[u])
  BY DEF GradientsConserved
<1>1. computed[u] \in SUBSET Int
  BY DEF GradInv, Types
<1>2. Held(u) \in MicroBags
      /\ \A m \in Int : Copies(m, Held(u)) = IF m \in computed[u] THEN 1 ELSE 0
  BY HeldCopies DEF GradInv, Account
<1>3. SetToBag(computed[u]) \in MicroBags
      /\ \A m \in Int : Copies(m, SetToBag(computed[u])) = IF m \in computed[u] THEN 1 ELSE 0
  BY <1>1, ComputedCopies
<1>. QED BY <1>2, <1>3, SameCopies DEF MicroBags

\* Reduction moves a unit's gradients through the parameter, the accumulation
\* buffer, the reduce-scatter output, the bucket, the partial sum and the
\* all-reduce result, in an order that the fusion, HSDP, accumulation and
\* pipeline settings change.  Whatever they are, and whatever units a
\* micro-batch leaves out, every micro-batch's gradient is in exactly one of
\* them, once, or was consumed by the optimizer, once (hsdp_state.py,
\* post_backward to launch_tp_replicate_reduce_and_apply; hsdp_param.py,
\* reduce_grad; hsdp_scheduler.py, the backward hooks).
THEOREM GradientsNeverLost == Spec => []GradientsConserved
<1>1. Spec => []GradInv
  BY InitGradInv, NextGradInv, PTL DEF Spec
<1>. QED
  BY <1>1, GradInvConserves, PTL

-----------------------------------------------------------------------------
(***************************************************************************)
(* What the optimizer's step finds.  The calls of a backward: every unit   *)
(* is prepared before autograd reaches it, every unit used gets its        *)
(* gradient, and the root's hook comes last.                               *)
(***************************************************************************)
Before(hook, u, q, i) == \E j \in 1 .. i - 1 : q[j].hook = hook /\ q[j].unit = u
Among(hook, u, q) == \E i \in 1 .. Len(q) : q[i].hook = hook /\ q[i].unit = u

\* P: the units it prepares; W: those prepared already; U: those that get a
\* gradient; ends: the root's hook may be its last call.
Prepared(q, ends, P, W, U) ==
  /\ q \in Seq(Calls)
  /\ \A i \in 1 .. Len(q) :
       /\ q[i].hook = "root_backward" => ends /\ i = Len(q)
       /\ q[i].hook = "gradient" => q[i].unit \in W \/ Before("backward_pre", q[i].unit, q, i)
  /\ \A u \in P : Among("backward_pre", u, q)
  /\ \A u \in U : Among("gradient", u, q)

LEMMA PreparedOne ==
    ASSUME NEW c \in Calls, NEW ends \in BOOLEAN, NEW P, NEW W, NEW U,
           c.hook = "root_backward" => ends,
           c.hook = "gradient" => c.unit \in W,
           \A u \in P : c.hook = "backward_pre" /\ c.unit = u,
           \A u \in U : c.hook = "gradient" /\ c.unit = u
    PROVE  Prepared(<<c>>, ends, P, W, U)
<1> DEFINE q == <<c>>
<1>1. q \in Seq(Calls) /\ Len(q) = 1 /\ q[1] = c
  OBVIOUS
<1> HIDE DEF q
<1>2. 1 \in 1 .. Len(q) /\ \A i \in 1 .. Len(q) : i = 1
  BY <1>1
<1>3. Prepared(q, ends, P, W, U)
  BY <1>1, <1>2 DEF Prepared, Among
<1>. QED BY <1>3 DEF q

LEMMA PreparedNone ==
    ASSUME NEW W
    PROVE  Prepared(<<>>, FALSE, {}, W, {})
  BY EmptySeq DEF Prepared

LEMMA PreparedBoth ==
    ASSUME NEW p, NEW q, NEW ends \in BOOLEAN, NEW P, NEW V, NEW Q, NEW W, NEW U, NEW H,
           Prepared(p, FALSE, P, V, U), Prepared(q, ends, Q, W, H), W \subseteq V \cup P
    PROVE  Prepared(p \o q, ends, P \cup Q, V, U \cup H)
<1> DEFINE r == p \o q
<1>1. /\ p \in Seq(Calls) /\ q \in Seq(Calls)
      /\ Len(p) \in Nat /\ Len(q) \in Nat
      /\ r \in Seq(Calls) /\ Len(r) = Len(p) + Len(q)
      /\ \A i \in 1 .. Len(r) : r[i] = IF i <= Len(p) THEN p[i] ELSE q[i - Len(p)]
  BY ConcatProperties, LenProperties DEF Prepared
<1> HIDE DEF r
<1>2. ASSUME NEW i \in 1 .. Len(r)
      PROVE  \/ i \in 1 .. Len(p) /\ r[i] = p[i]
             \/ i - Len(p) \in 1 .. Len(q) /\ r[i] = q[i - Len(p)] /\ i > Len(p)
  BY <1>1
<1>3. \A i \in 1 .. Len(p) : i \in 1 .. Len(r) /\ r[i] = p[i]
  BY <1>1
<1>4. \A i \in 1 .. Len(q) : i + Len(p) \in 1 .. Len(r) /\ r[i + Len(p)] = q[i]
  <2> TAKE i \in 1 .. Len(q)
  <2> DEFINE k == i + Len(p)
  <2>1. k \in 1 .. Len(r) /\ ~(k <= Len(p)) /\ k - Len(p) = i
    BY <1>1
  <2> HIDE DEF k
  <2>2. r[k] = q[i]
    BY <1>1, <2>1
  <2>. QED BY <2>1, <2>2 DEF k
<1>5. ASSUME NEW i \in 1 .. Len(r), r[i].hook = "root_backward"
      PROVE  ends /\ i = Len(r)
  <2>1. i - Len(p) \in 1 .. Len(q) /\ r[i] = q[i - Len(p)]
    BY <1>2, <1>5 DEF Prepared
  <2>2. ends /\ i - Len(p) = Len(q)
    BY <1>5, <2>1 DEF Prepared
  <2>. QED BY <1>1, <2>2
<1>6. ASSUME NEW i \in 1 .. Len(r), r[i].hook = "gradient", r[i].unit \notin V
      PROVE  Before("backward_pre", r[i].unit, r, i)
  <2>1. CASE i \in 1 .. Len(p) /\ r[i] = p[i]
    <3>1. PICK j \in 1 .. i - 1 : p[j].hook = "backward_pre" /\ p[j].unit = r[i].unit
      BY <1>6, <2>1 DEF Prepared, Before
    <3>2. j \in 1 .. Len(p)
      BY <1>1, <2>1
    <3>. QED BY <1>3, <3>1, <3>2 DEF Before
  <2>2. CASE i - Len(p) \in 1 .. Len(q) /\ r[i] = q[i - Len(p)]
    <3>1. CASE Before("backward_pre", r[i].unit, q, i - Len(p))
      <4>1. PICK j \in 1 .. i - Len(p) - 1 : q[j].hook = "backward_pre" /\ q[j].unit = r[i].unit
        BY <3>1 DEF Before
      <4>2. j \in 1 .. Len(q) /\ j + Len(p) \in 1 .. i - 1
        BY <1>1, <2>2
      <4>. QED BY <1>4, <4>1, <4>2 DEF Before
    <3>2. CASE r[i].unit \in W
      <4>1. r[i].unit \in P
        BY <1>6, <3>2
      <4>2. PICK j \in 1 .. Len(p) : p[j].hook = "backward_pre" /\ p[j].unit = r[i].unit
        BY <4>1 DEF Prepared, Among
      <4>3. j \in 1 .. i - 1
        BY <1>1, <2>2
      <4>. QED BY <1>3, <4>2, <4>3 DEF Before
    <3>3. r[i].unit \in W \/ Before("backward_pre", r[i].unit, q, i - Len(p))
      BY <1>6, <2>2 DEF Prepared
    <3>. QED BY <3>1, <3>2, <3>3
  <2>. QED BY <1>2, <2>1, <2>2
<1>7. ASSUME NEW hook, NEW u, Among(hook, u, p) \/ Among(hook, u, q)
      PROVE  Among(hook, u, r)
  <2>1. CASE Among(hook, u, p)
    BY <1>3, <2>1 DEF Among
  <2>2. CASE Among(hook, u, q)
    <3>1. PICK i \in 1 .. Len(q) : q[i].hook = hook /\ q[i].unit = u
      BY <2>2 DEF Among
    <3>2. i + Len(p) \in 1 .. Len(r) /\ r[i + Len(p)] = q[i]
      BY <1>4
    <3>. QED BY <3>1, <3>2 DEF Among
  <2>. QED BY <1>7, <2>1, <2>2
<1>8. (\A u \in P \cup Q : Among("backward_pre", u, r))
      /\ (\A u \in U \cup H : Among("gradient", u, r))
  BY <1>7 DEF Prepared
<1>9. Prepared(r, ends, P \cup Q, V, U \cup H)
  BY <1>1, <1>5, <1>6, <1>8 DEF Prepared
<1>. QED BY <1>9 DEF r

LEMMA PreparedThen ==
    ASSUME NEW p, NEW q, NEW ends \in BOOLEAN, NEW P, NEW V, NEW Q, NEW U, NEW H,
           Prepared(p, FALSE, P, V, U), Prepared(q, ends, Q, {}, H)
    PROVE  Prepared(p \o q, ends, P \cup Q, V, U \cup H)
<1> DEFINE none == {}
<1>1. none \subseteq V \cup P /\ Prepared(q, ends, Q, none, H)
  OBVIOUS
<1> HIDE DEF none
<1>. QED BY <1>1, PreparedBoth

LEMMA PreparedLess ==
    ASSUME NEW q, NEW P, NEW U, NEW H, Prepared(q, FALSE, P, {}, U), H \subseteq U
    PROVE  Prepared(q, FALSE, {}, {}, H)
  BY DEF Prepared

LEMMA PreparedFlat ==
    ASSUME NEW ss, NEW N \in Nat \ {0}, Len(ss) = N, NEW V,
           \A i \in 1 .. N : Prepared(ss[i], FALSE, {}, {}, V[i])
    PROVE  Prepared(FlattenSeq(ss), FALSE, {}, {}, Merged(V, N))
<1>1. PICK it : IsFlat(it, ss, N) /\ FlattenSeq(ss) = it[N]
  BY FlatUnfolds
<1>2. \A i \in 1 .. N : it[i] = IF i = 1 THEN ss[i] ELSE it[i - 1] \o ss[i]
  BY <1>1 DEF IsFlat
<1> DEFINE W(n) == UNION {V[i] : i \in 1 .. n}
           Laid(n) == Prepared(it[n], FALSE, {}, {}, W(n))
           H == {n \in Nat : n + 1 <= N => Laid(n + 1)}
<1>3. 0 \in H
  <2>1. it[1] = ss[1] /\ 1 \in 1 .. N
    BY <1>2
  <2>2. W(1) \subseteq V[1]
    <3>1. \A i \in 1 .. 1 : i = 1
      OBVIOUS
    <3>. QED BY <3>1
  <2>3. Prepared(ss[1], FALSE, {}, {}, V[1])
    BY <2>1
  <2> HIDE DEF W
  <2>4. Prepared(ss[1], FALSE, {}, {}, W(1))
    BY <2>2, <2>3, PreparedLess
  <2>6. Prepared(it[1], FALSE, {}, {}, W(1))
    BY <2>1, <2>4
  <2>5. Laid(1)
    BY <2>6
  <2> HIDE DEF Laid
  <2>7. 0 + 1 = 1
    OBVIOUS
  <2>. QED BY <2>5, <2>7
<1>4. ASSUME NEW n \in Nat, n \in H PROVE n + 1 \in H
  <2> HIDE DEF Laid
  <2> SUFFICES ASSUME n + 1 + 1 <= N PROVE Laid(n + 1 + 1)
    OBVIOUS
  <2> USE DEF Laid
  <2> DEFINE m == n + 1
             k == m + 1
  <2>1. m \in 1 .. N /\ k \in 1 .. N /\ k # 1 /\ k - 1 = m /\ m \in Nat
    OBVIOUS
  <2>2. Laid(m)
    <3> HIDE DEF Laid
    <3>. QED BY <1>4, <2>1
  <2>3. \A i \in 1 .. k : i \in 1 .. m \/ i = k
    BY <2>1
  <2> HIDE DEF m, k
  <2>4. it[k] = it[m] \o ss[k]
    BY <1>2, <2>1
  <2>5. W(k) \subseteq W(m) \cup V[k]
    BY <2>3
  <2> HIDE DEF W
  <2>9. Prepared(it[m], FALSE, {}, {}, W(m)) /\ Prepared(ss[k], FALSE, {}, {}, V[k])
    BY <2>1, <2>2
  <2>6. Prepared(it[m] \o ss[k], FALSE, {} \cup {}, {}, W(m) \cup V[k])
    BY <2>9, PreparedThen
  <2>7. Prepared(it[m] \o ss[k], FALSE, {}, {}, W(k))
    BY <2>5, <2>6, PreparedLess
  <2>8. Laid(k)
    BY <2>4, <2>7
  <2>. QED
    <3> HIDE DEF Laid
    <3>. QED BY <2>8 DEF m, k
<1>5. Nat \subseteq H
  <2> HIDE DEF H
  <2>. QED BY <1>3, <1>4, CountUp
<1>6. Laid(N)
  <2>1. N - 1 \in Nat /\ N - 1 + 1 = N
    OBVIOUS
  <2>2. N - 1 \in H
    <3> HIDE DEF H
    <3>. QED BY <1>5, <2>1
  <2> HIDE DEF Laid
  <2>. QED BY <2>1, <2>2
<1>. QED
  BY <1>1, <1>6 DEF Merged

LEMMA ForwardPrepared ==
    ASSUME NEW U
    PROVE  Prepared(ForwardOf(U), FALSE, {}, {}, {})
<1> DEFINE ss == [u \in Kids |->
                    IF u \in U THEN <<Call("forward_pre", u), Call("forward", u)>> ELSE <<>>]
           V == [u \in Kids |-> {}]
<1>0. NKids \in Nat \ {0} /\ Kids = 1 .. NKids /\ \A u \in Kids : u \in Units
  BY ShardedAssumption DEF Kids, Units
<1>1. ASSUME NEW u \in Kids PROVE Prepared(ss[u], FALSE, {}, {}, V[u])
  <2> DEFINE x == Call("forward_pre", u)
             y == Call("forward", u)
             a == <<x>>
             b == <<y>>
  <2>1. x \in Calls /\ x.hook = "forward_pre" /\ y \in Calls /\ y.hook = "forward"
    BY <1>0 DEF Call, Calls, Hooks
  <2>2. ss[u] = IF u \in U THEN <<x, y>> ELSE <<>>
    OBVIOUS
  <2> HIDE DEF x, y, ss
  <2>3. Prepared(a, FALSE, {}, {}, {}) /\ Prepared(b, FALSE, {}, {}, {})
    BY <2>1, PreparedOne
  <2>4. <<x, y>> = a \o b
    BY <2>1, TwoCalls
  <2> HIDE DEF a, b
  <2>5. Prepared(a \o b, FALSE, {} \cup {}, {}, {} \cup {})
    BY <2>3, PreparedThen
  <2>6. Prepared(<<>>, FALSE, {}, {}, {})
    BY PreparedNone
  <2>. QED BY <2>2, <2>4, <2>5, <2>6
<1>2. Len(ss) = NKids
  BY <1>0
<1>3. \A i \in 1 .. NKids : Prepared(ss[i], FALSE, {}, {}, V[i])
  <2> HIDE DEF ss, V
  <2>. QED BY <1>0, <1>1
<1>4. ForwardOf(U) = FlattenSeq(ss)
  BY DEF ForwardOf
<1>5. Merged(V, NKids) = {}
  BY <1>0 DEF Merged
<1> HIDE DEF ss, V
<1>6. Prepared(FlattenSeq(ss), FALSE, {}, {}, Merged(V, NKids))
  BY <1>0, <1>2, <1>3, PreparedFlat
<1>. QED BY <1>4, <1>5, <1>6

LEMMA BackwardOfPrepared ==
    ASSUME NEW U, NEW micro \in Int, NEW quiet \in BOOLEAN, NEW u \in Units
    PROVE  Prepared(BackwardOf(U, u, micro, quiet), FALSE, {}, {}, {u})
<1> DEFINE segment == Segment(u) \cap U
           pre == <<Call("backward_pre", u)>>
           again == IF cfg.recompute /\ \A v \in segment : v <= u
                    THEN ForwardOf(segment) ELSE <<>>
           g == <<[Call("gradient", u) EXCEPT !.micro = micro]>>
           end == IF quiet /\ \A v \in U : u <= v THEN <<>> ELSE <<Call("backward", u)>>
<1>1. BackwardOf(U, u, micro, quiet) = pre \o again \o g \o end
  BY DEF BackwardOf
<1>2. Prepared(pre, FALSE, {u}, {}, {})
  <2> DEFINE c == Call("backward_pre", u)
  <2>1. c \in Calls /\ c.hook = "backward_pre" /\ c.unit = u
    BY DEF Call, Calls, Hooks
  <2> HIDE DEF c
  <2>2. Prepared(<<c>>, FALSE, {u}, {}, {})
    BY <2>1, PreparedOne
  <2>. QED BY <2>2 DEF c
<1>3. Prepared(again, FALSE, {}, {}, {})
  <2>1. Prepared(<<>>, FALSE, {}, {}, {})
    BY PreparedNone
  <2> HIDE DEF segment
  <2>2. Prepared(ForwardOf(segment), FALSE, {}, {}, {})
    BY ForwardPrepared
  <2>. QED BY <2>1, <2>2
<1>4. Prepared(g, FALSE, {}, {u}, {u})
  <2> DEFINE c == [Call("gradient", u) EXCEPT !.micro = micro]
  <2>1. c \in Calls /\ c.hook = "gradient" /\ c.unit = u
    BY DEF Call, Calls, Hooks
  <2> HIDE DEF c
  <2>2. Prepared(<<c>>, FALSE, {}, {u}, {u})
    BY <2>1, PreparedOne
  <2>. QED BY <2>2 DEF c
<1>5. Prepared(end, FALSE, {}, {}, {})
  <2> DEFINE c == Call("backward", u)
  <2>1. Prepared(<<>>, FALSE, {}, {}, {})
    BY PreparedNone
  <2>2. c \in Calls /\ c.hook = "backward"
    BY DEF Call, Calls, Hooks
  <2> HIDE DEF c
  <2>3. Prepared(<<c>>, FALSE, {}, {}, {})
    BY <2>2, PreparedOne
  <2>. QED BY <2>1, <2>3 DEF c
<1> HIDE DEF pre, again, g, end
<1>6. Prepared(pre \o again, FALSE, {u} \cup {}, {}, {} \cup {})
  BY <1>2, <1>3, PreparedThen
<1>7. Prepared(pre \o again, FALSE, {u}, {}, {})
  BY <1>6
<1>13. {u} \subseteq {} \cup {u}
  OBVIOUS
<1>8. Prepared((pre \o again) \o g, FALSE, {u} \cup {}, {}, {} \cup {u})
  BY <1>4, <1>7, <1>13, PreparedBoth
<1>9. Prepared((pre \o again) \o g, FALSE, {u}, {}, {u})
  BY <1>8
<1>10. Prepared(((pre \o again) \o g) \o end, FALSE, {u} \cup {}, {}, {u} \cup {})
  BY <1>5, <1>9, PreparedThen
<1>12. {u} \subseteq {u} \cup {}
  OBVIOUS
<1>11. Prepared(((pre \o again) \o g) \o end, FALSE, {}, {}, {u})
  BY <1>10, <1>12, PreparedLess
<1>. QED BY <1>1, <1>11

LEMMA BackwardPrepared ==
    ASSUME NEW U \in SUBSET Kids, NEW micro \in Int, NEW quiet \in BOOLEAN
    PROVE  Prepared(BackwardCalls(U, micro, quiet), TRUE, {}, {}, U \cup {Root})
<1> DEFINE ss == [i \in Kids |-> LET u == NKids + 1 - i
                                 IN  IF u \in U THEN BackwardOf(U, u, micro, quiet) ELSE <<>>]
           V == [i \in Kids |-> {NKids + 1 - i} \cap U]
           a == <<Call("backward_pre", Root)>>
           b == FlattenSeq(ss)
           g == [Call("gradient", Root) EXCEPT !.micro = micro]
           e == Call("root_backward", Root)
           g1 == <<g>>
           e1 == <<e>>
           c == <<g, e>>
<1>0. /\ NKids \in Nat \ {0} /\ Kids = 1 .. NKids /\ Root \in Units
      /\ \A u \in Kids : u \in Units /\ NKids + 1 - u \in Kids /\ NKids + 1 - (NKids + 1 - u) = u
  BY ShardedAssumption DEF Kids, Units, Root
<1>1. ASSUME NEW i \in Kids PROVE Prepared(ss[i], FALSE, {}, {}, V[i])
  <2> DEFINE u == NKids + 1 - i
  <2>1. u \in Units /\ V[i] = {u} \cap U
        /\ ss[i] = IF u \in U THEN BackwardOf(U, u, micro, quiet) ELSE <<>>
    BY <1>0
  <2> HIDE DEF u, ss, V
  <2>2. Prepared(BackwardOf(U, u, micro, quiet), FALSE, {}, {}, {u})
    BY <2>1, BackwardOfPrepared
  <2>3. Prepared(<<>>, FALSE, {}, {}, {})
    BY PreparedNone
  <2>4. V[i] = IF u \in U THEN {u} ELSE {}
    BY <2>1
  <2>. QED BY <2>1, <2>2, <2>3, <2>4
<1>2. Prepared(b, FALSE, {}, {}, U)
  <2>1. \A i \in 1 .. NKids : Prepared(ss[i], FALSE, {}, {}, V[i])
    <3> HIDE DEF ss, V
    <3>. QED BY <1>0, <1>1
  <2>2. Len(ss) = NKids
    BY <1>0
  <2>3. U \subseteq Merged(V, NKids)
    <3> SUFFICES ASSUME NEW u \in U PROVE u \in Merged(V, NKids)
      OBVIOUS
    <3>1. u \in Kids /\ NKids + 1 - u \in 1 .. NKids /\ V[NKids + 1 - u] = {u} \cap U
      BY <1>0
    <3> HIDE DEF V
    <3>. QED BY <3>1 DEF Merged
  <2> HIDE DEF ss, V
  <2>4. Prepared(b, FALSE, {}, {}, Merged(V, NKids))
    BY <1>0, <2>1, <2>2, PreparedFlat
  <2> HIDE DEF b
  <2>. QED BY <2>3, <2>4, PreparedLess
<1>3. /\ g \in Calls /\ g.hook = "gradient" /\ g.unit = Root
      /\ e \in Calls /\ e.hook = "root_backward"
  BY <1>0 DEF Call, Calls, Hooks
<1>4. Prepared(a, FALSE, {Root}, {}, {})
  <2> DEFINE d == Call("backward_pre", Root)
  <2>1. d \in Calls /\ d.hook = "backward_pre" /\ d.unit = Root
    BY <1>0 DEF Call, Calls, Hooks
  <2> HIDE DEF d
  <2>2. Prepared(<<d>>, FALSE, {Root}, {}, {})
    BY <2>1, PreparedOne
  <2>. QED BY <2>2 DEF d
<1>5. BackwardCalls(U, micro, quiet) = a \o b \o c
  BY DEF BackwardCalls
<1> HIDE DEF a, b, g, e
<1>6. Prepared(g1, FALSE, {}, {Root}, {Root}) /\ Prepared(e1, TRUE, {}, {}, {})
  BY <1>3, PreparedOne
<1>7. c = g1 \o e1
  BY <1>3, TwoCalls
<1> HIDE DEF g1, e1, c
<1>8. Prepared(g1 \o e1, TRUE, {} \cup {}, {Root}, {Root} \cup {})
  BY <1>6, PreparedThen
<1>9. Prepared(c, TRUE, {}, {Root}, {Root})
  BY <1>7, <1>8
<1>10. Prepared(a \o b, FALSE, {Root} \cup {}, {}, {} \cup U)
  BY <1>2, <1>4, PreparedThen
<1>11. Prepared(a \o b, FALSE, {Root}, {}, U)
  BY <1>10
<1>13. {Root} \subseteq {} \cup {Root}
  OBVIOUS
<1>12. Prepared((a \o b) \o c, TRUE, {Root} \cup {}, {}, U \cup {Root})
  BY <1>9, <1>11, <1>13, PreparedBoth
<1>. QED BY <1>5, <1>12 DEF Prepared

-----------------------------------------------------------------------------
(* The micro-batches of the step, the buffers its configuration leaves     *)
(* empty, and, once the last one goes backward, that every unit it used    *)
(* has a gradient to come, or one a hook will reduce, or is through.       *)
Tally ==
  /\ fwd \in 0 .. NMicro /\ bwd \in 0 .. fwd
  /\ used \in Seq(SUBSET Kids) /\ Len(used) = fwd - bwd /\ lastUsed \in SUBSET Kids
  /\ reduced => cfg.pipeline /\ bwd = NMicro /\ todo = <<>>
  /\ ~cfg.pipeline /\ fwd = NMicro => Reducing(s)
Lanes ==
  \A u \in Units : Lane(s, u, {}) /\ \A m \in Int : Copies(<<m, Half>>, stepped[u]) = 0

Prepares(q, t) ==
  \A i \in 1 .. Len(q) :
    /\ q[i].hook = "root_backward" => i = Len(q)
    /\ q[i].hook = "gradient" => \/ t.scheduler_state[q[i].unit] # "BACKWARD"
                                 \/ Before("backward_pre", q[i].unit, q, i)
Settled(q, t, u) ==
  \/ Among("gradient", u, q)
  \/ Through(t, u, {})
  \/ Closes(q) /\ Loaded(t, u) /\ t.scheduler_state[u] # "BACKWARD"
Finishing(q, t) == Prepares(q, t) /\ \A u \in lastUsed \cup {Root} : Settled(q, t, u)
Final ==
  /\ bwd = NMicro /\ ~cfg.pipeline => Finishing(todo, s)
  /\ reduced => \A u \in Units : Through(s, u, {})

StepInv == Tally /\ Lanes /\ Final

LEMMA SameThrough ==
    ASSUME NEW t, NEW t2, Gradients(t2) = Gradients(t),
           t2.requires_all_reduce = t.requires_all_reduce, NEW u \in Units
    PROVE  /\ Through(t, u, {}) => Through(t2, u, {})
           /\ Loaded(t, u) => Loaded(t2, u)
           /\ Lane(t, u, {}) => Lane(t2, u, {})
<1>1. /\ t2.grad = t.grad /\ t2.acc = t.acc /\ t2.rs = t.rs /\ t2.partial = t.partial
      /\ t2.pre_reduce_scatter_params = t.pre_reduce_scatter_params
      /\ t2.pre_all_reduce_groups = t.pre_all_reduce_groups
      /\ t2.ar = t.ar /\ t2.main = t.main
      /\ t2.pending_all_reduce_groups = t.pending_all_reduce_groups
      /\ t2.pre_param_group = t.pre_param_group
      /\ t2.all_reduce_param_group = t.all_reduce_param_group
  BY DEF Gradients
<1>2. /\ Scattering(t2, u) <=> Scattering(t, u)
      /\ Bucketing(t2, u) <=> Bucketing(t, u)
      /\ Pends(t2, u, {}) <=> Pends(t, u, {})
      /\ Spent(t2, u) <=> Spent(t, u)
  BY <1>1 DEF Scattering, Bucketing, Pends, Spent
<1>. QED
  BY <1>1, <1>2 DEF Through, Loaded, Lane, Awaits

LEMMA TailLen ==
    ASSUME NEW micro, NEW q, Orderly(q, micro, Units, Units), q # <<>>
    PROVE  Len(Tail(q)) \in Nat /\ Len(q) = Len(Tail(q)) + 1
<1>1. q \in Seq(Calls)
  BY DEF Orderly
<1>2. Len(q) \in Nat \ {0} /\ Len(Tail(q)) = Len(q) - 1
  BY <1>1, HeadTailProperties, EmptySeq, LenProperties
<1>. QED BY <1>2

LEMMA AmongTail ==
    ASSUME NEW micro, NEW q, Orderly(q, micro, Units, Units), q # <<>>, NEW u,
           Among("gradient", u, q), ~(Head(q).hook = "gradient" /\ Head(q).unit = u)
    PROVE  Among("gradient", u, Tail(q))
<1> DEFINE r == Tail(q)
<1>1. /\ Len(r) \in Nat /\ Len(q) = Len(r) + 1 /\ q[1] = Head(q)
      /\ \A i \in 1 .. Len(r) : r[i] = q[i + 1]
  BY OrderlyTail, TailLen
<1> HIDE DEF r
<1>2. PICK i \in 1 .. Len(q) : q[i].hook = "gradient" /\ q[i].unit = u
  BY DEF Among
<1>3. i # 1
  BY <1>1, <1>2
<1> DEFINE k == i - 1
<1>4. k \in 1 .. Len(r) /\ k + 1 = i
  BY <1>1, <1>3
<1> HIDE DEF k
<1>5. r[k].hook = "gradient" /\ r[k].unit = u
  BY <1>1, <1>2, <1>4
<1>. QED BY <1>4, <1>5 DEF Among, r

LEMMA PreparesTail ==
    ASSUME NEW micro, NEW q, NEW t, NEW t2,
           Orderly(q, micro, Units, Units), q # <<>>, Prepares(q, t),
           \A u \in Units : t.scheduler_state[u] # "BACKWARD" =>
              \/ t2.scheduler_state[u] # "BACKWARD"
              \/ Head(q).hook = "backward" /\ u = Head(q).unit,
           Head(q).hook = "backward_pre" => t2.scheduler_state[Head(q).unit] # "BACKWARD"
    PROVE  Prepares(Tail(q), t2)
<1> DEFINE r == Tail(q)
<1>1. /\ Len(r) \in Nat /\ Len(q) = Len(r) + 1 /\ q[1] = Head(q)
      /\ \A i \in 1 .. Len(r) : i + 1 \in 1 .. Len(q) /\ r[i] = q[i + 1]
      /\ Head(q).hook \in Marks =>
           \A i \in 1 .. Len(r) : r[i].hook = "gradient" => r[i].unit # Head(q).unit
  BY OrderlyTail, TailLen
<1>2. Orderly(r, micro, Units, Units)
  BY OrderlyTail
<1> HIDE DEF r
<1>3. ASSUME NEW i \in 1 .. Len(r), r[i].hook = "root_backward" PROVE i = Len(r)
  <2>1. i + 1 = Len(q)
    BY <1>1, <1>3 DEF Prepares
  <2>. QED BY <1>1, <2>1
<1>4. ASSUME NEW i \in 1 .. Len(r), r[i].hook = "gradient"
      PROVE  \/ t2.scheduler_state[r[i].unit] # "BACKWARD"
             \/ Before("backward_pre", r[i].unit, r, i)
  <2> DEFINE v == r[i].unit
  <2>1. v \in Units
    BY <1>2, <1>4 DEF Orderly, Marks
  <2>2. t.scheduler_state[v] # "BACKWARD" \/ Before("backward_pre", v, q, i + 1)
    BY <1>1, <1>4 DEF Prepares
  <2>3. ~(Head(q).hook = "backward" /\ v = Head(q).unit)
    BY <1>1, <1>4 DEF Marks
  <2>4. CASE t.scheduler_state[v] # "BACKWARD"
    BY <2>1, <2>3, <2>4
  <2>5. CASE Before("backward_pre", v, q, i + 1)
    <3>1. PICK j \in 1 .. (i + 1) - 1 : q[j].hook = "backward_pre" /\ q[j].unit = v
      BY <2>5 DEF Before
    <3>2. CASE j = 1
      BY <1>1, <3>1, <3>2
    <3>3. CASE j # 1
      <4> DEFINE k == j - 1
      <4>1. k \in 1 .. Len(r) /\ k \in 1 .. i - 1 /\ k + 1 = j
        BY <1>1, <3>3
      <4> HIDE DEF k
      <4>2. r[k] = q[j]
        BY <1>1, <4>1
      <4>. QED BY <3>1, <4>1, <4>2 DEF Before
    <3>. QED BY <3>2, <3>3
  <2>. QED BY <2>2, <2>4, <2>5
<1>5. Prepares(r, t2)
  BY <1>3, <1>4 DEF Prepares
<1>. QED BY <1>5 DEF r

\* A call changes neither the flags nor what a configuration leaves empty.
LEMMA CallStays ==
    ASSUME GradInv, StepInv, todo # <<>>,
           UNCHANGED <<cfg, version, fwd, bwd, used, lastUsed, reduced, stepped>>,
           SameFlags(s, s'), \A u \in Units : Lane(s, u, {}) => Lane(s', u, {}),
           bwd = NMicro /\ ~cfg.pipeline => Finishing(todo', s')
    PROVE  StepInv'
<1>1. ~reduced /\ ~reduced'
  BY DEF StepInv, Tally
<1>2. Tally'
  BY <1>1 DEF StepInv, Tally, Reducing, SameFlags
<1>3. Lanes'
  BY DEF StepInv, Lanes, Lane, Half
<1>4. Final'
  BY <1>1 DEF Final, Finishing
<1>. QED BY <1>2, <1>3, <1>4 DEF StepInv

LEMMA QuietStays ==
    ASSUME GradInv, StepInv, todo # <<>>, todo' = Tail(todo),
           UNCHANGED <<cfg, version, fwd, bwd, used, lastUsed, reduced, stepped>>,
           Head(todo).hook \in {"forward_pre", "forward", "backward_pre"}, Quiet(s, s'),
           Head(todo).hook = "backward_pre" => s'.scheduler_state[Head(todo).unit] # "BACKWARD"
    PROVE  StepInv'
<1>1. Gradients(s') = Gradients(s) /\ SameFlags(s, s')
  BY DEF Quiet
<1>2. \A u \in Units : /\ Through(s, u, {}) => Through(s', u, {})
                       /\ Loaded(s, u) => Loaded(s', u)
                       /\ Lane(s, u, {}) => Lane(s', u, {})
  BY <1>1, SameThrough DEF SameFlags
<1>3. ASSUME bwd = NMicro, ~cfg.pipeline PROVE Finishing(todo', s')
  <2>1. Prepares(todo, s) /\ \A u \in lastUsed \cup {Root} : Settled(todo, s, u)
    BY <1>3 DEF StepInv, Final, Finishing
  <2>2. Orderly(todo, Now, Units, Units)
    BY DEF GradInv, Ahead
  <2>3. \A u \in Units : s.scheduler_state[u] # "BACKWARD" => s'.scheduler_state[u] # "BACKWARD"
    BY DEF Quiet
  <2>4. Prepares(todo', s')
    BY <2>1, <2>2, <2>3, PreparesTail
  <2>5. Closes(todo) => Closes(todo')
    BY <2>2, OrderlyTail
  <2>6. lastUsed \cup {Root} \subseteq Units
    BY ShardedAssumption DEF StepInv, Tally, Kids, Units, Root
  <2>7. ASSUME NEW u \in lastUsed \cup {Root} PROVE Settled(todo', s', u)
    <3>1. Among("gradient", u, todo) => Among("gradient", u, todo')
      BY <2>2, AmongTail
    <3>. QED BY <1>2, <2>1, <2>3, <2>5, <2>6, <2>7, <3>1 DEF Settled
  <2>. QED BY <2>4, <2>7 DEF Finishing
<1>. QED BY <1>1, <1>2, <1>3, CallStays

LEMMA ForwardPreStays ==
    ASSUME GradInv, StepInv, NEW u \in Units, ForwardPreHook(u)
    PROVE  StepInv'
<1>1. Quiet(s, s')
  BY ForwardPreQuiet
<1>. QED BY <1>1, QuietStays DEF ForwardPreHook, Running

LEMMA ForwardStays ==
    ASSUME GradInv, StepInv, NEW u \in Units, ForwardHook(u)
    PROVE  StepInv'
<1>1. Quiet(s, s')
  BY ForwardQuiet
<1>. QED BY <1>1, QuietStays DEF ForwardHook, Running

LEMMA BackwardPreStays ==
    ASSUME GradInv, StepInv, NEW u \in Units, BackwardPreHook(u)
    PROVE  StepInv'
<1>1. Quiet(s, s') /\ s'.scheduler_state[u] # "BACKWARD"
  BY BackwardPreQuiet
<1>. QED BY <1>1, QuietStays DEF BackwardPreHook, Running

LEMMA UsedUnits ==
    ASSUME StepInv
    PROVE  lastUsed \cup {Root} \subseteq Units
  BY ShardedAssumption DEF StepInv, Tally, Kids, Units, Root

\* While the last backward of a step runs, every hook reduces, all the way.
LEMMA LastReduces ==
    ASSUME StepInv, bwd = NMicro, ~cfg.pipeline
    PROVE  Reducing(s) /\ Finishing(todo, s)
<1>1. fwd = NMicro
  BY ShardedAssumption DEF StepInv, Tally
<1>. QED BY <1>1 DEF StepInv, Tally, Final

\* A gradient that autograd adds finds no reduction of its unit under way, and
\* a hook ahead that will reduce it.
LEMMA GradientStays ==
    ASSUME GradInv, StepInv, NEW v \in Units, Gradient(v)
    PROVE  StepInv'
<1> DEFINE one == SetToBag({Head(todo).micro})
           sum == s.grad[v] (+) one
           f == [s.grad EXCEPT ![v] = sum]
<1>1. /\ todo # <<>> /\ todo' = Tail(todo)
      /\ UNCHANGED <<cfg, version, fwd, bwd, used, lastUsed, reduced, stepped>>
      /\ Head(todo).hook = "gradient" /\ Head(todo).unit = v
  BY DEF Gradient, Running
<1>2. /\ Orderly(todo, Now, Units, Units)
      /\ \A i \in 1 .. Len(todo) : todo[i].hook \in Marks => Closes(todo)
      /\ \A u \in Units :
           OnWay(s, u) => \A i \in 1 .. Len(todo) : todo[i].hook = "gradient" => todo[i].unit # u
  BY DEF GradInv, Ahead
<1>3. /\ Head(todo) \in Calls /\ 1 \in 1 .. Len(todo) /\ todo[1] = Head(todo)
      /\ Closes(todo) => Closes(todo')
  BY <1>1, <1>2, OrderlyTail
<1>4. ~OnWay(s, v) /\ Closes(todo')
  BY <1>1, <1>2, <1>3 DEF Marks
<1>5. s \in States /\ Placed(s, v, {})
  BY DEF GradInv, Good
<1>6. ~Awaits(s, v)
  BY <1>4, <1>5 DEF Placed, Awaits, OnWay, InRs, InBoth
<1>7. sum # EmptyBag
  <2>1. one \in MicroBags /\ one # EmptyBag
    <3>1. Head(todo).micro \in Int
      BY <1>3 DEF Calls
    <3>2. one = [e \in {Head(todo).micro} |-> 1]
      BY DEF SetToBag
    <3>3. one \in [{Head(todo).micro} -> Nat \ {0}] /\ DOMAIN one = {Head(todo).micro}
      BY <3>2
    <3> HIDE DEF one
    <3>4. one \in MicroBags
      BY <3>1, <3>3 DEF MicroBags, BagsOver
    <3>. QED BY <3>3, <3>4, IsEmpty DEF MicroBags
  <2> HIDE DEF one
  <2>2. s.grad[v] \in MicroBags
    BY <1>5, Counting
  <2>. QED BY <2>1, <2>2, SumCopies DEF MicroBags
<1>8. s' = [s EXCEPT !.grad = f]
  BY <1>5 DEF Gradient, States
<1>9. \A u \in Units : f[u] = IF u = v THEN sum ELSE s.grad[u]
  BY <1>5 DEF States, Bags1
<1> HIDE DEF sum, f
<1>10. /\ s'.grad = f /\ s'.acc = s.acc /\ s'.rs = s.rs /\ s'.partial = s.partial
       /\ s'.pre_reduce_scatter_params = s.pre_reduce_scatter_params
       /\ s'.pre_all_reduce_groups = s.pre_all_reduce_groups
       /\ s'.ar = s.ar /\ s'.main = s.main
       /\ s'.pending_all_reduce_groups = s.pending_all_reduce_groups
       /\ s'.pre_param_group = s.pre_param_group
       /\ s'.all_reduce_param_group = s.all_reduce_param_group
       /\ s'.requires_all_reduce = s.requires_all_reduce /\ s'.reduce_grads = s.reduce_grads
       /\ s'.scheduler_state = s.scheduler_state
  BY <1>5, <1>8 DEF States
<1>11. ASSUME NEW u \in Units
       PROVE  /\ Awaits(s', u) <=> Awaits(s, u)
              /\ Lane(s, u, {}) => Lane(s', u, {})
              /\ u # v => /\ Through(s, u, {}) => Through(s', u, {})
                          /\ Loaded(s, u) => Loaded(s', u)
  <2>1. /\ Scattering(s', u) <=> Scattering(s, u)
        /\ Bucketing(s', u) <=> Bucketing(s, u)
        /\ Pends(s', u, {}) <=> Pends(s, u, {})
        /\ u # v => (Spent(s', u) <=> Spent(s, u))
    BY <1>9, <1>10 DEF Scattering, Bucketing, Pends, Spent
  <2>. QED BY <1>10, <2>1 DEF Awaits, Lane, Through, Loaded
<1>12. Loaded(s', v)
  BY <1>6, <1>7, <1>9, <1>10, <1>11 DEF Loaded, Spent
<1>13. SameFlags(s, s')
  BY <1>10 DEF SameFlags
<1>14. ASSUME bwd = NMicro, ~cfg.pipeline PROVE Finishing(todo', s')
  <2>1. Prepares(todo, s) /\ \A u \in lastUsed \cup {Root} : Settled(todo, s, u)
    BY <1>14, LastReduces DEF Finishing
  <2>2. Prepares(todo', s')
    BY <1>1, <1>2, <1>10, <2>1, PreparesTail
  <2>3. s.scheduler_state[v] # "BACKWARD"
    <3>1. \/ s.scheduler_state[todo[1].unit] # "BACKWARD"
          \/ Before("backward_pre", todo[1].unit, todo, 1)
      BY <1>1, <1>3, <2>1 DEF Prepares
    <3>2. \A j \in 1 .. 1 - 1 : FALSE
      OBVIOUS
    <3>. QED BY <1>1, <1>3, <3>1, <3>2 DEF Before
  <2>4. ASSUME NEW u \in lastUsed \cup {Root} PROVE Settled(todo', s', u)
    <3>1. CASE u = v
      BY <1>4, <1>10, <1>12, <2>3, <3>1 DEF Settled
    <3>2. CASE u # v
      <4>1. u \in Units
        BY <2>4, UsedUnits
      <4>2. Among("gradient", u, todo) => Among("gradient", u, todo')
        BY <1>1, <1>2, <3>2, AmongTail
      <4>. QED BY <1>4, <1>10, <1>11, <2>1, <2>4, <3>2, <4>1, <4>2 DEF Settled
    <3>. QED BY <3>1, <3>2
  <2>. QED BY <2>2, <2>4 DEF Finishing
<1>. QED BY <1>1, <1>11, <1>13, <1>14, CallStays

\* A unit's own hook: no gradient of it is to come, so it is loaded or through.
LEMMA PostBackwardStays ==
    ASSUME GradInv, StepInv, NEW v \in Units, PostBackwardHook(v)
    PROVE  StepInv'
<1>1. /\ todo # <<>> /\ todo' = Tail(todo)
      /\ UNCHANGED <<cfg, version, fwd, bwd, used, lastUsed, reduced, stepped>>
      /\ Head(todo).hook = "backward" /\ Head(todo).unit = v
  BY DEF PostBackwardHook, Running
<1>2. Good(s, {}) /\ Orderly(todo, Now, Units, Units)
  BY DEF GradInv, Ahead
<1>3. /\ Carried(s, {}, s', {}, {v})
      /\ Reducing(s) /\ Ready(FALSE, s, v) => Through(s', v, {})
  <2>1. Hook(FALSE, s, v) = s'
    BY DEF Hook, PostBackwardHook
  <2> DEFINE t2 == Hook(FALSE, s, v)
  <2>2. /\ Carried(s, {}, t2, {}, {v})
        /\ Reducing(s) /\ Ready(FALSE, s, v) => Through(t2, v, {})
    BY <1>2, HookGood
  <2> HIDE DEF t2
  <2>. QED BY <2>1, <2>2 DEF t2
<1>4. SameFlags(s, s') /\ \A u \in Units : Lane(s, u, {}) => Lane(s', u, {})
  BY <1>3 DEF Carried
<1>5. ASSUME bwd = NMicro, ~cfg.pipeline PROVE Finishing(todo', s')
  <2>1. Prepares(todo, s) /\ \A u \in lastUsed \cup {Root} : Settled(todo, s, u)
    BY <1>5, LastReduces DEF Finishing
  <2>2. Reducing(s)
    BY <1>5, LastReduces
  <2>3. \A u \in Units : u # v =>
          /\ Through(s, u, {}) => Through(s', u, {})
          /\ Loaded(s, u) => Loaded(s', u)
          /\ s'.scheduler_state[u] = s.scheduler_state[u]
    BY <1>3, <2>2 DEF Carried, Reducing
  <2>4. Prepares(todo', s')
    BY <1>1, <1>2, <2>1, <2>3, PreparesTail
  <2>5. Closes(todo) => Closes(todo')
    BY <1>1, <1>2, OrderlyTail
  <2>6. ASSUME NEW u \in lastUsed \cup {Root} PROVE Settled(todo', s', u)
    <3>1. u \in Units
      BY <2>6, UsedUnits
    <3>2. Among("gradient", u, todo) => Among("gradient", u, todo')
      BY <1>1, <1>2, AmongTail
    <3>3. CASE u = v
      <4>1. CASE Among("gradient", u, todo)
        BY <3>2, <4>1 DEF Settled
      <4>2. CASE ~Among("gradient", u, todo)
        <5>1. Ready(FALSE, s, u)
          BY <2>1, <2>6, <4>2 DEF Settled, Ready
        <5>. QED BY <1>3, <2>2, <3>3, <5>1 DEF Settled
      <4>. QED BY <4>1, <4>2
    <3>4. CASE u # v
      BY <2>1, <2>3, <2>5, <2>6, <3>1, <3>2, <3>4 DEF Settled
    <3>. QED BY <3>3, <3>4
  <2>. QED BY <2>4, <2>6 DEF Finishing
<1>. QED BY <1>1, <1>4, <1>5, CallStays

\* The root's hook is the last call, and puts every unit of the pass through.
LEMMA RootBackwardStays ==
    ASSUME GradInv, StepInv, RootBackwardHook
    PROVE  StepInv'
<1>1. /\ todo # <<>> /\ todo' = Tail(todo)
      /\ UNCHANGED <<cfg, version, fwd, bwd, used, lastUsed, reduced, stepped>>
      /\ Head(todo).hook = "root_backward"
  BY DEF RootBackwardHook, Running
<1>2. Good(s, {}) /\ Orderly(todo, Now, Units, Units)
  BY DEF GradInv, Ahead
<1>3. /\ Carried(s, {}, s', {}, Units)
      /\ Reducing(s) => \A u \in Units : Ready(FALSE, s, u) => Through(s', u, {})
  <2> DEFINE t2 == RootHook(s)
  <2>1. /\ Carried(s, {}, t2, {}, Units)
        /\ Reducing(s) => \A u \in Units : Ready(FALSE, s, u) => Through(t2, u, {})
    BY <1>2, RootHookGood
  <2>2. s' = t2
    BY DEF RootBackwardHook
  <2> HIDE DEF t2
  <2>. QED BY <2>1, <2>2
<1>4. SameFlags(s, s') /\ \A u \in Units : Lane(s, u, {}) => Lane(s', u, {})
  BY <1>3 DEF Carried
<1>5. ASSUME bwd = NMicro, ~cfg.pipeline PROVE Finishing(todo', s')
  <2>1. Prepares(todo, s) /\ \A u \in lastUsed \cup {Root} : Settled(todo, s, u)
    BY <1>5, LastReduces DEF Finishing
  <2>2. Reducing(s)
    BY <1>5, LastReduces
  <2>3. Len(todo) = 1 /\ Len(todo') = 0
    <3>1. Len(todo') \in Nat /\ Len(todo) = Len(todo') + 1
      BY <1>1, <1>2, TailLen
    <3>2. 1 \in 1 .. Len(todo) /\ todo[1] = Head(todo)
      BY <1>1, <1>2, OrderlyTail
    <3>3. Len(todo) = 1
      BY <1>1, <2>1, <3>2 DEF Prepares
    <3> DEFINE n == Len(todo')
    <3>4. n \in Nat /\ 1 = n + 1
      BY <3>1, <3>3
    <3> HIDE DEF n
    <3>5. n = 0
      BY <3>4
    <3>. QED BY <3>3, <3>5 DEF n
  <2>4. Prepares(todo', s')
    BY <2>3 DEF Prepares
  <2>5. ASSUME NEW u \in lastUsed \cup {Root} PROVE Settled(todo', s', u)
    <3>1. u \in Units
      BY <2>5, UsedUnits
    <3>2. todo[1] = Head(todo)
      BY <1>1, <1>2, OrderlyTail
    <3>3. ~Among("gradient", u, todo)
      <4>1. \A i \in 1 .. Len(todo) : i = 1
        BY <2>3
      <4>. QED BY <1>1, <3>2, <4>1 DEF Among
    <3>4. Ready(FALSE, s, u)
      BY <2>1, <2>5, <3>3 DEF Settled, Ready
    <3>. QED BY <1>3, <2>2, <3>1, <3>4 DEF Settled
  <2>. QED BY <2>4, <2>5 DEF Finishing
<1>. QED BY <1>1, <1>4, <1>5, CallStays

LEMMA BetweenStays ==
    ASSUME StepInv, UNCHANGED <<cfg, fwd, bwd, used, lastUsed, reduced, stepped>>,
           bwd # NMicro, Gradients(s') = Gradients(s), SameFlags(s, s')
    PROVE  StepInv'
<1>1. ~reduced
  BY DEF StepInv, Tally
<1>2. \A u \in Units : Lane(s, u, {}) => Lane(s', u, {})
  BY SameThrough DEF SameFlags
<1>3. Tally'
  BY <1>1 DEF StepInv, Tally, Reducing, SameFlags
<1>4. Lanes'
  BY <1>2 DEF StepInv, Lanes, Lane, Half
<1>5. Final'
  BY <1>1 DEF Final
<1>. QED BY <1>3, <1>4, <1>5 DEF StepInv

LEMMA PipelineGathersStays ==
    ASSUME GradInv, StepInv, PipelineGathers
    PROVE  StepInv'
<1>1. s \in States /\ version \in Nat
  BY DEF GradInv, Good, Types
<1>2. s' = Unshard(s, Units) \/ s' = Shard(s, Units)
  BY DEF PipelineGathers
<1>3. Gradients(s') = Gradients(s) /\ SameFlags(s, s')
  BY <1>1, <1>2, UnshardSame, SharingSame
<1>4. bwd # NMicro
  BY ShardedAssumption DEF PipelineGathers, StepInv, Tally
<1>. QED BY <1>3, <1>4, BetweenStays DEF PipelineGathers

LEMMA NotLast ==
    ASSUME StepInv, fwd = 0
    PROVE  bwd # NMicro
<1>1. bwd \in 0 .. 0 /\ NMicro \in Nat \ {0}
  BY ShardedAssumption DEF StepInv, Tally
<1>. QED BY <1>1

LEMMA EvaluateStays ==
    ASSUME GradInv, StepInv, Evaluate
    PROVE  StepInv'
<1>1. bwd # NMicro
  BY NotLast DEF Evaluate
<1>2. Gradients(s') = Gradients(s) /\ SameFlags(s, s')
  BY DEF Evaluate, SameFlags
<1>. QED BY <1>1, <1>2, BetweenStays DEF Evaluate

LEMMA ResetStays ==
    ASSUME GradInv, StepInv, ResetIterState
    PROVE  StepInv'
<1>1. bwd # NMicro
  BY NotLast DEF ResetIterState
<1>2. Gradients(s') = Gradients(s) /\ SameFlags(s, s')
  <2>1. s \in States
    BY DEF GradInv, Good
  <2>2. s' = [s EXCEPT !.scheduler_state = Fresh("None"), !.gather = Fresh(FALSE),
                       !.root_bp_state = FALSE]
    BY DEF ResetIterState
  <2>. QED BY <2>1, <2>2 DEF States, Gradients, SameFlags
<1>. QED BY <1>1, <1>2, BetweenStays DEF ResetIterState

LEMMA BeginForwardStays ==
    ASSUME GradInv, StepInv, BeginForward
    PROVE  StepInv'
<1>1. /\ todo = <<>> /\ ~reduced /\ reduced' = reduced /\ fwd < NMicro /\ fwd' = fwd + 1
      /\ UNCHANGED <<cfg, bwd, lastUsed, stepped>>
      /\ s' = IF cfg.pipeline THEN PipelineFlags(fwd + 1) ELSE TrainerFlags(fwd + 1)
  BY DEF BeginForward
<1>2. fwd \in Nat /\ fwd \in 0 .. NMicro /\ bwd \in 0 .. fwd /\ NMicro \in Nat /\ NKids \in Nat
  BY ShardedAssumption DEF StepInv, Tally
<1>3. PICK U \in SUBSET Kids : used' = Append(used, U)
  BY DEF BeginForward, UsedSets
<1>4. s \in States /\ \A u \in Units : Placed(s, u, {})
  BY DEF GradInv, Good
<1>5. \A u \in Units : ~Awaits(s, u)
  <2>1. \A u \in Units : ~OnWay(s, u)
    BY <1>1, Resting
  <2>. QED BY <1>4, <2>1 DEF Placed, Awaits, OnWay, InRs, InBoth
<1>6. /\ Gradients(s') = Gradients(s)
      /\ cfg.pipeline => s'.requires_all_reduce = s.requires_all_reduce
      /\ ~cfg.pipeline /\ ~cfg.hsdp => s'.requires_all_reduce
      /\ ~cfg.pipeline /\ fwd + 1 = NMicro => s'.reduce_grads /\ s'.requires_all_reduce
  <2>1. CASE cfg.pipeline
    <3>1. s' = PipelineFlags(fwd + 1)
      BY <1>1, <2>1
    <3>2. Gradients(s') = Gradients(s) /\ s'.requires_all_reduce = s.requires_all_reduce
      BY <1>4, <3>1 DEF PipelineFlags, States, Gradients
    <3>. QED BY <2>1, <3>2
  <2>2. CASE ~cfg.pipeline
    <3> DEFINE last == fwd + 1 = NMicro
               a == ~cfg.keep \/ last
               b == cfg.requires_grad_sync \/ last
               c == ~cfg.hsdp \/ last
    <3>1. s' = [s EXCEPT !.reshard_after_backward = a, !.reduce_grads = b,
                         !.requires_all_reduce = c]
      BY <1>1, <2>2 DEF TrainerFlags
    <3>2. (last => b /\ c) /\ (~cfg.hsdp => c)
      OBVIOUS
    <3> HIDE DEF a, b, c
    <3>3. Gradients(s') = Gradients(s) /\ s'.requires_all_reduce = c /\ s'.reduce_grads = b
      BY <1>4, <3>1 DEF States, Gradients
    <3>. QED BY <2>2, <3>2, <3>3
  <2>. QED BY <2>1, <2>2
<1>7. Tally'
  <2>1. used' \in Seq(SUBSET Kids) /\ Len(used') = Len(used) + 1
    <3>1. used \in Seq(SUBSET Kids)
      BY DEF StepInv, Tally
    <3>. QED BY <1>3, <3>1, AppendProperties
  <2>2. Len(used) = fwd - bwd /\ lastUsed \in SUBSET Kids
    BY DEF StepInv, Tally
  <2>3. Len(used') = fwd' - bwd'
    BY <1>1, <1>2, <2>1, <2>2
  <2>4. fwd' \in 0 .. NMicro /\ bwd' \in 0 .. fwd'
    BY <1>1, <1>2
  <2>5. (~cfg.pipeline /\ fwd = NMicro => Reducing(s))'
    BY <1>1, <1>6 DEF Reducing
  <2>. QED BY <1>1, <2>1, <2>2, <2>3, <2>4, <2>5 DEF Tally
<1>8. ASSUME NEW u \in Units PROVE Lane(s', u, {})
  <2>1. Lane(s, u, {})
    BY DEF StepInv, Lanes
  <2>2. /\ s'.rs = s.rs /\ s'.partial = s.partial
        /\ s'.pre_reduce_scatter_params = s.pre_reduce_scatter_params
        /\ s'.pre_all_reduce_groups = s.pre_all_reduce_groups
        /\ s'.ar = s.ar /\ s'.main = s.main
        /\ s'.pending_all_reduce_groups = s.pending_all_reduce_groups
        /\ s'.all_reduce_param_group = s.all_reduce_param_group
    BY <1>6 DEF Gradients
  <2>3. /\ ~Scattering(s', u) /\ ~Scattering(s, u)
        /\ Bucketing(s', u) <=> Bucketing(s, u)
        /\ Pends(s', u, {}) <=> Pends(s, u, {})
    BY <1>5, <2>2 DEF Awaits, Scattering, Bucketing, Pends
  <2>. QED BY <1>6, <2>1, <2>2, <2>3 DEF Lane, Awaits
<1>9. Lanes'
  BY <1>1, <1>8 DEF StepInv, Lanes, Lane, Half
<1>10. Final'
  <2>1. bwd' # NMicro
    BY <1>1, <1>2
  <2>. QED BY <1>1, <2>1 DEF Final
<1>. QED BY <1>7, <1>9, <1>10 DEF StepInv

LEMMA BeginBackwardStays ==
    ASSUME GradInv, StepInv, BeginBackward
    PROVE  StepInv'
<1>1. /\ bwd < fwd /\ used' = Tail(used) /\ lastUsed' = Head(used) /\ bwd' = bwd + 1
      /\ UNCHANGED <<cfg, s, fwd, reduced, stepped>>
  BY DEF BeginBackward
<1>2. /\ fwd \in 0 .. NMicro /\ bwd \in 0 .. fwd /\ NMicro \in Nat
      /\ used \in Seq(SUBSET Kids) /\ Len(used) = fwd - bwd
  BY ShardedAssumption DEF StepInv, Tally
<1>3. ~reduced
  BY <1>1, <1>2 DEF StepInv, Tally
<1>4. /\ Head(used) \in SUBSET Kids /\ Tail(used) \in Seq(SUBSET Kids)
      /\ Len(Tail(used)) = Len(used) - 1
  <2>1. used # <<>>
    <3>1. Len(used) # 0
      BY <1>1, <1>2
    <3>. QED BY <3>1, EmptySeq
  <2>. QED BY <1>2, <2>1, HeadTailProperties
<1>5. Tally'
  <2>1. fwd' \in 0 .. NMicro /\ bwd' \in 0 .. fwd' /\ Len(used') = fwd' - bwd'
    BY <1>1, <1>2, <1>4
  <2>2. (~cfg.pipeline /\ fwd = NMicro => Reducing(s))'
    BY <1>1 DEF StepInv, Tally, Reducing
  <2>. QED BY <1>1, <1>3, <1>4, <2>1, <2>2 DEF Tally
<1>6. Lanes'
  BY <1>1 DEF StepInv, Lanes, Lane, Half
<1>7. Prepared(todo', TRUE, {}, {}, Head(used) \cup {Root})
  <2> DEFINE m == (version - 1) * NMicro + bwd + 1
             U == Head(used)
  <2>1. m \in Int
    BY <1>2 DEF GradInv, Types
  <2>2. PICK quiet \in BOOLEAN : todo' = BackwardCalls(U, m, quiet)
    BY DEF BeginBackward
  <2>3. U \in SUBSET Kids
    BY <1>4
  <2> HIDE DEF m, U
  <2>4. Prepared(BackwardCalls(U, m, quiet), TRUE, {}, {}, U \cup {Root})
    BY <2>1, <2>3, BackwardPrepared
  <2>. QED BY <2>2, <2>4 DEF U
<1>8. Finishing(todo, s)'
  <2>1. Prepares(todo', s')
    BY <1>7 DEF Prepared, Prepares
  <2>2. \A u \in lastUsed' \cup {Root} : Settled(todo', s', u)
    BY <1>1, <1>7 DEF Prepared, Settled
  <2>. QED BY <2>1, <2>2 DEF Finishing
<1>9. Final'
  BY <1>1, <1>3, <1>8 DEF Final
<1>. QED BY <1>5, <1>6, <1>9 DEF StepInv

\* The reduction after the last backward of a stage puts every unit through.
LEMMA ExecuteStays ==
    ASSUME GradInv, StepInv, ExecuteReduceGrad
    PROVE  StepInv'
<1> DEFINE t == [s EXCEPT !.reshard_after_backward = TRUE, !.reduce_grads = TRUE]
           g == FoldLeft(PostBackward, t, AllUnits)
           f == RootHook(g)
<1>1. /\ s \in States /\ Good(s, {}) /\ \A u \in Units : Placed(s, u, {})
      /\ cfg.pipeline /\ todo = <<>> /\ bwd = NMicro /\ reduced' = TRUE
      /\ UNCHANGED <<cfg, todo, fwd, bwd, used, lastUsed, stepped>>
  BY DEF GradInv, Good, ExecuteReduceGrad
<1>2. /\ t \in States /\ Gradients(t) = Gradients(s) /\ t.reduce_grads
      /\ t.requires_all_reduce = s.requires_all_reduce
  BY <1>1 DEF States, Gradients
<1>3. s' = f
  BY DEF ExecuteReduceGrad
<1> HIDE DEF t
<1>4. Root \in Units /\ \A u \in Units : Lane(s, u, {})
  BY ShardedAssumption DEF StepInv, Lanes, Root, Units
<1>5. Reducing(t) /\ \A u \in Units : s.partial[u] = EmptyBag
  BY <1>1, <1>2, <1>4 DEF Lane, Reducing
<1>6. \A u \in Units : Lane(t, u, {})
  BY <1>2, <1>4, SameThrough
<1>7. ASSUME NEW u \in Units PROVE Ready(TRUE, t, u)
  <2>1. ~OnWay(s, u) /\ Placed(s, u, {})
    BY <1>1, Resting
  <2>2. ~Awaits(s, u)
    BY <2>1 DEF Placed, Awaits, OnWay, InRs, InBoth
  <2>3. Through(s, u, {}) \/ Loaded(s, u)
    BY <1>5, <2>2 DEF Through, Loaded
  <2>. QED BY <1>2, <2>3, SameThrough DEF Ready
<1>8. Good(t, {})
  BY <1>1, <1>2, SameGradients
<1>9. Looped(TRUE, t, g)
  BY <1>8, LoopsGood
<1> HIDE DEF g
<1>10. Good(g, {}) /\ Carried(t, {}, g, {}, Units)
       /\ \A u \in Units : Through(g, u, {})
  BY <1>5, <1>7, <1>9 DEF Looped
<1>11. Carried(g, {}, f, {}, Units)
       /\ (Reducing(g) => \A u \in Units : Ready(FALSE, g, u) => Through(f, u, {}))
  BY <1>10, RootHookGood
<1> HIDE DEF f
<1>12. \A u \in Units : Lane(f, u, {})
  BY <1>6, <1>10, <1>11 DEF Carried
<1>13. \A u \in Units : Through(f, u, {})
  <2>1. Reducing(g)
    BY <1>5, <1>10 DEF Carried, SameFlags, Reducing
  <2>. QED BY <1>10, <1>11, <2>1 DEF Ready
<1>14. Tally'
  BY <1>1 DEF StepInv, Tally
<1>15. Lanes'
  BY <1>1, <1>3, <1>12 DEF StepInv, Lanes, Lane, Half
<1>16. Final'
  BY <1>1, <1>3, <1>13 DEF Final
<1>. QED BY <1>14, <1>15, <1>16 DEF StepInv

LEMMA OptimizerStays ==
    ASSUME GradInv, StepInv, OptimizerStep
    PROVE  StepInv'
<1> DEFINE none == Fresh(EmptyBag)
<1>1. /\ s' = [s EXCEPT !.main = none] /\ bwd = NMicro
      /\ stepped' = [u \in Units |-> stepped[u] (+) s.main[u]]
      /\ fwd' = 0 /\ bwd' = 0 /\ reduced' = FALSE /\ lastUsed' = {}
      /\ cfg' = cfg /\ used' = used
  BY DEF OptimizerStep, StepReady
<1>2. /\ NMicro \in Nat \ {0} /\ fwd \in 0 .. NMicro /\ bwd \in 0 .. fwd
      /\ used \in Seq(SUBSET Kids) /\ Len(used) = fwd - bwd
  BY ShardedAssumption DEF StepInv, Tally
<1>3. s \in States
  BY DEF GradInv, Good
<1>4. Tally'
  <2>1. Len(used') = fwd' - bwd' /\ fwd' \in 0 .. NMicro /\ bwd' \in 0 .. fwd' /\ fwd' # NMicro
    BY <1>1, <1>2
  <2>. QED BY <1>1, <1>2, <2>1 DEF Tally
<1>5. /\ s'.rs = s.rs /\ s'.partial = s.partial
      /\ s'.pre_reduce_scatter_params = s.pre_reduce_scatter_params
      /\ s'.pre_all_reduce_groups = s.pre_all_reduce_groups
      /\ s'.ar = s.ar /\ s'.main = none
      /\ s'.pending_all_reduce_groups = s.pending_all_reduce_groups
      /\ s'.all_reduce_param_group = s.all_reduce_param_group
      /\ s'.requires_all_reduce = s.requires_all_reduce
  BY <1>1, <1>3 DEF States
<1>6. \A u \in Units : none[u] = EmptyBag
  BY DEF Fresh
<1> HIDE DEF none
<1>7. ASSUME NEW u \in Units
      PROVE  Lane(s', u, {}) /\ \A m \in Int : Copies(<<m, Half>>, stepped'[u]) = 0
  <2>1. Lane(s, u, {}) /\ \A m \in Int : Copies(<<m, Half>>, stepped[u]) = 0
    BY DEF StepInv, Lanes
  <2>2. \A e : Copies(e, s'.main[u]) = 0
    BY <1>5, <1>6, NoCopies
  <2>3. /\ Scattering(s', u) <=> Scattering(s, u)
        /\ Bucketing(s', u) <=> Bucketing(s, u)
        /\ Pends(s', u, {}) <=> Pends(s, u, {})
    BY <1>5 DEF Scattering, Bucketing, Pends
  <2>4. Lane(s', u, {})
    BY <1>5, <2>1, <2>2, <2>3 DEF Lane, Awaits
  <2>5. stepped[u] \in LevelBags /\ s.main[u] \in LevelBags
    BY <1>3 DEF GradInv, Types, States
  <2>6. \A e : Copies(e, stepped'[u]) = Copies(e, stepped[u]) + Copies(e, s.main[u])
    BY <1>1, <2>5, SumCopies DEF LevelBags
  <2>7. \A m \in Int : Copies(<<m, Half>>, s.main[u]) = 0
    BY <2>1 DEF Lane
  <2>8. ASSUME NEW m \in Int PROVE Copies(<<m, Half>>, stepped'[u]) = 0
    <3>1. Copies(<<m, Half>>, stepped[u]) = 0 /\ Copies(<<m, Half>>, s.main[u]) = 0
      BY <2>1, <2>7
    <3>. QED BY <2>6, <3>1
  <2>. QED BY <2>4, <2>8
<1>8. Lanes'
  BY <1>1, <1>7 DEF Lanes, Lane, Half
<1>9. Final'
  BY <1>1, <1>2 DEF Final
<1>. QED BY <1>4, <1>8, <1>9 DEF StepInv

LEMMA InitStepInv == Init => StepInv
<1> SUFFICES ASSUME Init PROVE StepInv
  OBVIOUS
<1> DEFINE none == Fresh(EmptyBag)
<1>1. NMicro \in Nat \ {0} /\ Root \in Units /\ cfg \in Configs
  BY ShardedAssumption DEF Units, Root, Init
<1>2. /\ s.rs = none /\ s.partial = none /\ s.ar = none /\ s.main = none
      /\ s.pre_reduce_scatter_params = <<>> /\ s.pre_all_reduce_groups = <<>>
      /\ s.pending_all_reduce_groups = <<>> /\ s.all_reduce_param_group = NoUnit
      /\ s.requires_all_reduce = TRUE
  BY DEF Init
<1>3. \A u \in Units : none[u] = EmptyBag /\ stepped[u] = EmptyBag /\ NoUnit # u
  BY DEF Init, Fresh, NoUnit, Units
<1> HIDE DEF none
<1>4. Lanes
  <2>1. \A u \in Units : /\ ~Scattering(s, u) /\ ~Bucketing(s, u) /\ ~Pends(s, u, {})
    BY <1>2, Empty DEF Scattering, Bucketing, Pends
  <2>2. \A u \in Units : \A e : Copies(e, s.main[u]) = 0 /\ Copies(e, stepped[u]) = 0
    BY <1>2, <1>3, NoCopies
  <2>. QED BY <1>2, <1>3, <2>1, <2>2 DEF Lanes, Lane, Awaits
<1>5. fwd = 0 /\ bwd = 0 /\ used = <<>> /\ lastUsed = {} /\ reduced = FALSE
  BY DEF Init
<1>6. Tally
  BY <1>1, <1>5, EmptySeq DEF Tally
<1>7. Final
  BY <1>1, <1>5 DEF Final
<1>. QED BY <1>4, <1>6, <1>7 DEF StepInv

LEMMA NextStepInv == GradInv /\ StepInv /\ [Next]_vars => StepInv'
<1> SUFFICES ASSUME GradInv, StepInv, [Next]_vars PROVE StepInv'
  OBVIOUS
<1>1. ASSUME NEW u \in Units, ForwardPreHook(u) PROVE StepInv'
  BY <1>1, ForwardPreStays
<1>2. ASSUME NEW u \in Units, ForwardHook(u) PROVE StepInv'
  BY <1>2, ForwardStays
<1>3. ASSUME NEW u \in Units, BackwardPreHook(u) PROVE StepInv'
  BY <1>3, BackwardPreStays
<1>4. ASSUME NEW u \in Units, Gradient(u) PROVE StepInv'
  BY <1>4, GradientStays
<1>5. ASSUME NEW u \in Units, PostBackwardHook(u) PROVE StepInv'
  BY <1>5, PostBackwardStays
<1>6. CASE RootBackwardHook
  BY <1>6, RootBackwardStays
<1>7. CASE BeginForward
  BY <1>7, BeginForwardStays
<1>8. CASE BeginBackward
  BY <1>8, BeginBackwardStays
<1>9. CASE PipelineGathers
  BY <1>9, PipelineGathersStays
<1>10. CASE ExecuteReduceGrad
  BY <1>10, ExecuteStays
<1>11. CASE OptimizerStep
  BY <1>11, OptimizerStays
<1>12. CASE Evaluate
  BY <1>12, EvaluateStays
<1>13. CASE ResetIterState
  BY <1>13, ResetStays
<1>14. CASE UNCHANGED vars
  BY <1>14 DEF vars, StepInv, Tally, Lanes, Lane, Half, Final, Finishing, Reducing
<1>. QED
  BY <1>1, <1>2, <1>3, <1>4, <1>5, <1>6, <1>7, <1>8, <1>9, <1>10, <1>11, <1>12, <1>13, <1>14
  DEF Next

\* What is through and not on its way has arrived.
LEMMA StepFinds == GradInv /\ StepInv => StepSeesAll
<1> SUFFICES ASSUME GradInv, StepInv, StepReady, NEW u \in Units,
                    u \in lastUsed \cup {Root} \/ cfg.pipeline
             PROVE  s.main[u] (+) stepped[u] = Tagged(SetToBag(computed[u]), FullLevel)
  BY DEF StepSeesAll
<1>1. todo = <<>> /\ bwd = NMicro /\ (cfg.pipeline => reduced)
  BY DEF StepReady
<1>2. Through(s, u, {})
  <2>1. CASE cfg.pipeline
    BY <1>1, <2>1 DEF StepInv, Final
  <2>2. CASE ~cfg.pipeline
    <3>1. Settled(todo, s, u)
      BY <1>1, <2>2, LastReduces DEF Finishing
    <3>2. Len(todo) = 0
      BY <1>1, EmptySeq
    <3>3. ~Among("gradient", u, todo) /\ ~Closes(todo)
      BY <3>2 DEF Among, Closes
    <3>. QED BY <3>1, <3>3 DEF Settled
  <2>. QED BY <2>1, <2>2
<1>3. s \in States /\ Placed(s, u, {}) /\ ~OnWay(s, u)
  BY <1>1, Resting DEF GradInv, Good
<1>4. /\ ~Awaits(s, u) /\ s.grad[u] = EmptyBag /\ s.acc[u] = EmptyBag
      /\ s.rs[u] = EmptyBag /\ s.bucket[u] = EmptyBag /\ s.ar[u] = EmptyBag
      /\ s.partial[u] = EmptyBag
  BY <1>2, <1>3 DEF Through, Spent, Placed, Awaits, OnWay, InRs, InBucket, InBoth
<1> DEFINE a == s.main[u]
           b == stepped[u]
           w == a (+) b
           c == SetToBag(computed[u])
           d == Tagged(c, FullLevel)
<1>5. a \in LevelBags /\ b \in LevelBags /\ computed[u] \in SUBSET Int
  BY <1>3 DEF GradInv, Types, States
<1>6. ASSUME NEW m \in Int
      PROVE  Copies(<<m, "shards">>, a) + Copies(<<m, "replicas">>, a)
             + (Copies(<<m, "shards">>, b) + Copies(<<m, "replicas">>, b))
               = IF m \in computed[u] THEN 1 ELSE 0
  <2>1. Kept(s, u, m) + Stepped(u, m) = IF m \in computed[u] THEN 1 ELSE 0
    BY DEF GradInv, Account
  <2>2. Copies(<<m, "shards">>, a) \in Nat /\ Copies(<<m, "replicas">>, a) \in Nat
    BY <1>5, BagFacts DEF LevelBags
  <2>3. \A e : Copies(e, EmptyBag) = 0
    BY NoCopies
  <2>4. Kept(s, u, m) = Copies(<<m, "shards">>, a) + Copies(<<m, "replicas">>, a)
    BY <1>4, <2>2, <2>3 DEF Kept
  <2>. QED BY <2>1, <2>4 DEF Stepped
<1>7. \A m \in Int : Copies(<<m, Half>>, a) = 0 /\ Copies(<<m, Half>>, b) = 0
  BY DEF StepInv, Lanes, Lane
<1>8. w \in LevelBags /\ \A e : Copies(e, w) = Copies(e, a) + Copies(e, b)
  BY <1>5, SumCopies DEF LevelBags
<1>9. FullLevel \in Levels /\ Half \in Levels /\ Half # FullLevel /\ Levels = {Half, FullLevel}
  BY DEF FullLevel, Half, Levels
<1>10. c \in MicroBags /\ \A m \in Int : Copies(m, c) = IF m \in computed[u] THEN 1 ELSE 0
  BY <1>5, ComputedCopies
<1> HIDE DEF a, b, c
<1>11. /\ d \in LevelBags
       /\ \A m \in Int, k \in Levels :
            Copies(<<m, k>>, d) = IF k = FullLevel THEN Copies(m, c) ELSE 0
  BY <1>9, <1>10, TaggedCopies
<1> HIDE DEF w, d
<1>12. ASSUME NEW m \in Int PROVE Copies(<<m, FullLevel>>, w) = Copies(<<m, FullLevel>>, d)
                                  /\ Copies(<<m, Half>>, w) = Copies(<<m, Half>>, d)
  <2> DEFINE x == <<m, FullLevel>>
             y == <<m, Half>>
  <2>1. Copies(x, a) \in Nat /\ Copies(x, b) \in Nat
    BY <1>5, BagFacts DEF LevelBags, a, b
  <2>2. Copies(y, a) = 0 /\ Copies(y, b) = 0
    BY <1>7
  <2>3. \/ x = <<m, "shards">> /\ y = <<m, "replicas">>
        \/ x = <<m, "replicas">> /\ y = <<m, "shards">>
    BY DEF FullLevel, Half
  <2> HIDE DEF x, y
  <2>4. Copies(x, a) + Copies(y, a) + (Copies(x, b) + Copies(y, b))
          = IF m \in computed[u] THEN 1 ELSE 0
    <3>1. CASE x = <<m, "shards">> /\ y = <<m, "replicas">>
      BY <1>6, <3>1
    <3>2. CASE x = <<m, "replicas">> /\ y = <<m, "shards">>
      BY <1>6, <2>1, <2>2, <3>2
    <3>. QED BY <2>3, <3>1, <3>2
  <2>5. Copies(x, w) = Copies(m, c)
    BY <1>8, <1>10, <2>1, <2>2, <2>4
  <2>6. Copies(y, w) = 0
    BY <1>8, <2>2
  <2>7. Copies(x, d) = Copies(m, c) /\ Copies(y, d) = 0
    BY <1>9, <1>11 DEF x, y
  <2>. QED BY <2>5, <2>6, <2>7 DEF x, y
<1>13. ASSUME NEW e \in Int \X Levels PROVE Copies(e, w) = Copies(e, d)
  <2>1. PICK m \in Int, k \in Levels : e = <<m, k>>
    OBVIOUS
  <2>2. k = FullLevel \/ k = Half
    BY <1>9
  <2>. QED BY <1>12, <2>1, <2>2
<1>14. w = d
  BY <1>8, <1>11, <1>13, SameCopies DEF LevelBags
<1>. QED BY <1>14 DEF w, d, a, b, c

\* The last micro-batch of a step sets the flags under which every hook reduces
\* over the shards and, with HSDP, the replicas; a unit whose own hook autograd
\* does not call is reduced by the root's, and a pipeline stage reduces all its
\* units after its last backward.  So when the optimizer steps, each unit the
\* micro-batch used holds every gradient computed for it, reduced that far, and
\* no part of one is left in a partial sum or on its way, whatever the prefetch,
\* fusion, accumulation, recomputation and reshard settings (hsdp_scheduler.py,
\* _backward_hook, _root_backward_hook, launch_tp_replicate_reduce_and_apply;
\* hsdp_state.py, post_backward and the waits for the previous reductions;
\* trainer/runtime/fsdp.py, configure_fsdp_gradient_sync; stage.py,
\* execute_reduce_grad).
THEOREM StepFindsAll == Spec => []StepSeesAll
<1>1. Spec => []GradInv
  BY InitGradInv, NextGradInv, PTL DEF Spec
<1>2. Init => StepInv
  BY InitStepInv
<1>3. GradInv /\ StepInv /\ [Next]_vars => StepInv'
  BY NextStepInv
<1>4. Spec => []StepInv
  BY <1>1, <1>2, <1>3, PTL DEF Spec
<1>. QED
  BY <1>1, <1>4, StepFinds, PTL

-----------------------------------------------------------------------------
(***************************************************************************)
(* What a unit computes with.  The calls of a pass: a unit is gathered     *)
(* before it is used, no unit is used after the call that frees it, and    *)
(* the calls that prefetch come in the order of the prefetch lists.        *)
(***************************************************************************)
After(hook, u, q, i) == \E j \in i + 1 .. Len(q) : q[j].hook = hook /\ q[j].unit = u

ForwardKind ==
  [hooks |-> {"forward_pre", "forward"}, opens |-> {"forward_pre"}, uses |-> {"forward"},
   frees |-> {"forward"}, needs |-> {"forward_pre", "forward"},
   leads |-> "forward_pre", does |-> "forward", up |-> TRUE]
BackwardKind ==
  [hooks |-> Hooks, opens |-> {"forward_pre", "backward_pre"}, uses |-> {"forward", "gradient"},
   frees |-> {"backward"}, needs |-> {"forward", "gradient", "backward_pre"},
   leads |-> "backward_pre", does |-> "gradient", up |-> FALSE]

Opened(k, u, q, i) == \E j \in 1 .. i - 1 : q[j].hook \in k.opens /\ q[j].unit = u
Leads(k, a, b) == IF k.up THEN a < b ELSE b < a \/ a = Root

\* Of a sequence of calls: P leads a pass, N needs to be gathered, F is freed,
\* E computes; W has been gathered before.
Woven(k, q, P, N, F, E, W) ==
  /\ q \in Seq(Calls)
  /\ \A i \in 1 .. Len(q) :
       /\ q[i].hook \in k.hooks
       /\ q[i].hook = k.leads => q[i].unit \in P
       /\ q[i].hook \in k.needs => q[i].unit \in N
       /\ q[i].hook \in k.frees => q[i].unit \in F
       /\ q[i].hook \in k.uses => q[i].unit \in W \/ Opened(k, q[i].unit, q, i)
  /\ \A i, j \in 1 .. Len(q) : i < j =>
       /\ q[i].hook \in k.frees /\ q[j].hook \in k.needs => q[i].unit # q[j].unit
       /\ q[i].hook = k.leads /\ q[j].hook = k.leads => Leads(k, q[i].unit, q[j].unit)
  /\ \A u \in P : Among(k.leads, u, q)
  /\ \A u \in E : Among(k.does, u, q)

LEMMA WovenOne ==
    ASSUME NEW k, NEW c \in Calls, NEW P, NEW N, NEW F, NEW E, NEW W,
           c.hook \in k.hooks, c.hook = k.leads => c.unit \in P,
           c.hook \in k.needs => c.unit \in N, c.hook \in k.frees => c.unit \in F,
           c.hook \in k.uses => c.unit \in W,
           \A u \in P : c.hook = k.leads /\ c.unit = u,
           \A u \in E : c.hook = k.does /\ c.unit = u
    PROVE  Woven(k, <<c>>, P, N, F, E, W)
<1> DEFINE q == <<c>>
<1>1. q \in Seq(Calls) /\ Len(q) = 1 /\ q[1] = c
  OBVIOUS
<1> HIDE DEF q
<1>2. 1 \in 1 .. Len(q) /\ \A i \in 1 .. Len(q) : i = 1
  BY <1>1
<1>3. \A u \in P : Among(k.leads, u, q)
  BY <1>1, <1>2 DEF Among
<1>4. \A u \in E : Among(k.does, u, q)
  BY <1>1, <1>2 DEF Among
<1>5. \A i, j \in 1 .. Len(q) : ~(i < j)
  BY <1>2
<1>6. \A i \in 1 .. Len(q) : q[i] = c
  BY <1>1, <1>2
<1>7. Woven(k, q, P, N, F, E, W)
  BY <1>1, <1>3, <1>4, <1>5, <1>6 DEF Woven
<1>. QED BY <1>7 DEF q

LEMMA WovenNone ==
    ASSUME NEW k, NEW N, NEW F, NEW W
    PROVE  Woven(k, <<>>, {}, N, F, {}, W)
  BY EmptySeq DEF Woven

LEMMA AmongBoth ==
    ASSUME NEW p \in Seq(Calls), NEW q \in Seq(Calls), NEW hook, NEW u,
           Among(hook, u, p) \/ Among(hook, u, q)
    PROVE  Among(hook, u, p \o q)
<1> DEFINE r == p \o q
<1>1. /\ Len(p) \in Nat /\ Len(q) \in Nat /\ Len(r) = Len(p) + Len(q)
      /\ \A i \in 1 .. Len(r) : r[i] = IF i <= Len(p) THEN p[i] ELSE q[i - Len(p)]
  BY ConcatProperties, LenProperties
<1> HIDE DEF r
<1>2. CASE Among(hook, u, p)
  <2>1. PICK i \in 1 .. Len(p) : p[i].hook = hook /\ p[i].unit = u
    BY <1>2 DEF Among
  <2>2. i \in 1 .. Len(r) /\ r[i] = p[i]
    BY <1>1
  <2>. QED BY <2>1, <2>2 DEF Among, r
<1>3. CASE Among(hook, u, q)
  <2>1. PICK i \in 1 .. Len(q) : q[i].hook = hook /\ q[i].unit = u
    BY <1>3 DEF Among
  <2> DEFINE k == i + Len(p)
  <2>2. k \in 1 .. Len(r) /\ ~(k <= Len(p)) /\ k - Len(p) = i
    BY <1>1
  <2> HIDE DEF k
  <2>3. r[k] = q[i]
    BY <1>1, <2>2
  <2>. QED BY <2>1, <2>2, <2>3 DEF Among, r
<1>. QED BY <1>2, <1>3

LEMMA WovenBoth ==
    ASSUME NEW k, NEW p, NEW q, NEW P, NEW N, NEW F, NEW E, NEW W,
           NEW P2, NEW N2, NEW F2, NEW E2, NEW W2,
           Woven(k, p, P, N, F, E, W), Woven(k, q, P2, N2, F2, E2, W2),
           k.leads \in k.opens, W2 \subseteq W \cup P, F \cap N2 = {},
           \A a \in P : \A b \in P2 : Leads(k, a, b)
    PROVE  Woven(k, p \o q, P \cup P2, N \cup N2, F \cup F2, E \cup E2, W)
<1> DEFINE r == p \o q
<1>1. /\ p \in Seq(Calls) /\ q \in Seq(Calls)
      /\ Len(p) \in Nat /\ Len(q) \in Nat
      /\ r \in Seq(Calls) /\ Len(r) = Len(p) + Len(q)
      /\ \A i \in 1 .. Len(r) : r[i] = IF i <= Len(p) THEN p[i] ELSE q[i - Len(p)]
  BY ConcatProperties, LenProperties DEF Woven
<1>0. \A hook, u : Among(hook, u, p) \/ Among(hook, u, q) => Among(hook, u, r)
  BY <1>1, AmongBoth
<1> HIDE DEF r
<1>2. ASSUME NEW i \in 1 .. Len(r)
      PROVE  \/ i \in 1 .. Len(p) /\ r[i] = p[i]
             \/ i - Len(p) \in 1 .. Len(q) /\ r[i] = q[i - Len(p)] /\ i > Len(p)
  BY <1>1
<1>3. \A i \in 1 .. Len(p) : i \in 1 .. Len(r) /\ r[i] = p[i]
  <2> TAKE i \in 1 .. Len(p)
  <2>1. i \in 1 .. Len(r) /\ i <= Len(p)
    BY <1>1
  <2>. QED BY <1>1, <2>1
<1>4. \A i \in 1 .. Len(q) : i + Len(p) \in 1 .. Len(r) /\ r[i + Len(p)] = q[i]
  <2> TAKE i \in 1 .. Len(q)
  <2> DEFINE n == i + Len(p)
  <2>1. n \in 1 .. Len(r) /\ ~(n <= Len(p)) /\ n - Len(p) = i
    BY <1>1
  <2> HIDE DEF n
  <2>2. r[n] = q[i]
    BY <1>1, <2>1
  <2>. QED BY <2>1, <2>2 DEF n
<1>5. ASSUME NEW i \in 1 .. Len(r)
      PROVE  /\ r[i].hook \in k.hooks
             /\ r[i].hook = k.leads => r[i].unit \in P \cup P2
             /\ r[i].hook \in k.needs => r[i].unit \in N \cup N2
             /\ r[i].hook \in k.frees => r[i].unit \in F \cup F2
  BY <1>2 DEF Woven
<1>6. ASSUME NEW i \in 1 .. Len(r), r[i].hook \in k.uses, r[i].unit \notin W
      PROVE  Opened(k, r[i].unit, r, i)
  <2>1. CASE i \in 1 .. Len(p) /\ r[i] = p[i]
    <3>1. PICK j \in 1 .. i - 1 : p[j].hook \in k.opens /\ p[j].unit = r[i].unit
      BY <1>6, <2>1 DEF Woven, Opened
    <3>2. j \in 1 .. Len(p)
      BY <1>1, <2>1
    <3>. QED BY <1>3, <3>1, <3>2 DEF Opened
  <2>2. CASE i - Len(p) \in 1 .. Len(q) /\ r[i] = q[i - Len(p)]
    <3>1. CASE Opened(k, r[i].unit, q, i - Len(p))
      <4>1. PICK j \in 1 .. i - Len(p) - 1 : q[j].hook \in k.opens /\ q[j].unit = r[i].unit
        BY <3>1 DEF Opened
      <4>2. j \in 1 .. Len(q) /\ j + Len(p) \in 1 .. i - 1
        BY <1>1, <2>2
      <4>. QED BY <1>4, <4>1, <4>2 DEF Opened
    <3>2. CASE r[i].unit \in W2
      <4>1. r[i].unit \in P
        BY <1>6, <3>2
      <4>2. PICK j \in 1 .. Len(p) : p[j].hook = k.leads /\ p[j].unit = r[i].unit
        BY <4>1 DEF Woven, Among
      <4>3. j \in 1 .. i - 1
        BY <1>1, <2>2
      <4>. QED BY <1>3, <4>2, <4>3 DEF Opened
    <3>3. r[i].unit \in W2 \/ Opened(k, r[i].unit, q, i - Len(p))
      BY <1>6, <2>2 DEF Woven
    <3>. QED BY <3>1, <3>2, <3>3
  <2>. QED BY <1>2, <2>1, <2>2
<1>7. ASSUME NEW i \in 1 .. Len(r), NEW j \in 1 .. Len(r), i < j
      PROVE  /\ r[i].hook \in k.frees /\ r[j].hook \in k.needs => r[i].unit # r[j].unit
             /\ r[i].hook = k.leads /\ r[j].hook = k.leads => Leads(k, r[i].unit, r[j].unit)
  <2>1. CASE i \in 1 .. Len(p) /\ r[i] = p[i] /\ j \in 1 .. Len(p) /\ r[j] = p[j]
    BY <1>7, <2>1 DEF Woven
  <2>2. CASE i \in 1 .. Len(p) /\ r[i] = p[i]
             /\ j - Len(p) \in 1 .. Len(q) /\ r[j] = q[j - Len(p)]
    <3>1. /\ r[i].hook \in k.frees => r[i].unit \in F
          /\ r[j].hook \in k.needs => r[j].unit \in N2
          /\ r[i].hook = k.leads => r[i].unit \in P
          /\ r[j].hook = k.leads => r[j].unit \in P2
      BY <2>2 DEF Woven
    <3>. QED BY <3>1
  <2>3. CASE i - Len(p) \in 1 .. Len(q) /\ r[i] = q[i - Len(p)]
             /\ j - Len(p) \in 1 .. Len(q) /\ r[j] = q[j - Len(p)]
    <3>1. i - Len(p) < j - Len(p)
      BY <1>1, <1>7
    <3>. QED BY <2>3, <3>1 DEF Woven
  <2>. QED
    BY <1>1, <1>2, <1>7, <2>1, <2>2, <2>3
<1>8. (\A u \in P \cup P2 : Among(k.leads, u, r)) /\ (\A u \in E \cup E2 : Among(k.does, u, r))
  BY <1>0 DEF Woven
<1>9. Woven(k, r, P \cup P2, N \cup N2, F \cup F2, E \cup E2, W)
  BY <1>1, <1>5, <1>6, <1>7, <1>8 DEF Woven
<1>. QED BY <1>9 DEF r

LEMMA WovenLess ==
    ASSUME NEW k, NEW q, NEW P, NEW N, NEW F, NEW E, NEW W, NEW N2, NEW F2, NEW E2,
           Woven(k, q, P, N, F, E, W), N \subseteq N2, F \subseteq F2, E2 \subseteq E
    PROVE  Woven(k, q, P, N2, F2, E2, W)
  BY DEF Woven

LEMMA WovenFlat ==
    ASSUME NEW k, NEW ss, NEW n \in Nat \ {0}, Len(ss) = n, NEW V, NEW N, k.leads \in k.opens,
           \A i \in 1 .. n : Woven(k, ss[i], V[i], N[i], V[i], V[i], {}),
           \A i, j \in 1 .. n : i < j => /\ V[i] \cap N[j] = {}
                                       /\ \A a \in V[i] : \A b \in V[j] : Leads(k, a, b)
    PROVE  Woven(k, FlattenSeq(ss), Merged(V, n), Merged(N, n), Merged(V, n), Merged(V, n), {})
<1>1. PICK it : IsFlat(it, ss, n) /\ FlattenSeq(ss) = it[n]
  BY FlatUnfolds
<1>2. \A i \in 1 .. n : it[i] = IF i = 1 THEN ss[i] ELSE it[i - 1] \o ss[i]
  BY <1>1 DEF IsFlat
<1> DEFINE L(m) == Woven(k, it[m], Merged(V, m), Merged(N, m), Merged(V, m), Merged(V, m), {})
           H == {m \in Nat : m + 1 <= n => L(m + 1)}
<1>3. 0 \in H
  <2>1. it[1] = ss[1] /\ 1 \in 1 .. n
    BY <1>2
  <2>2. Merged(V, 1) = V[1] /\ Merged(N, 1) = N[1]
    <3>1. \A i \in 1 .. 1 : i = 1
      OBVIOUS
    <3>. QED BY <3>1 DEF Merged
  <2>3. Woven(k, ss[1], V[1], N[1], V[1], V[1], {})
    BY <2>1
  <2>4. L(1)
    BY <2>1, <2>2, <2>3
  <2> HIDE DEF L
  <2>5. 0 + 1 = 1
    OBVIOUS
  <2>. QED BY <2>4, <2>5
<1>4. ASSUME NEW m \in Nat, m \in H PROVE m + 1 \in H
  <2> HIDE DEF L
  <2> SUFFICES ASSUME m + 1 + 1 <= n PROVE L(m + 1 + 1)
    OBVIOUS
  <2> DEFINE a == m + 1
             b == a + 1
  <2>1. a \in 1 .. n /\ b \in 1 .. n /\ b # 1 /\ b - 1 = a /\ a \in Nat
    OBVIOUS
  <2>2. L(a)
    BY <1>4, <2>1
  <2>3. 1 .. b = (1 .. a) \cup {b} /\ \A i \in 1 .. a : i \in 1 .. n /\ i < b
    BY <2>1
  <2> HIDE DEF a, b
  <2>4. it[b] = it[a] \o ss[b]
    BY <1>2, <2>1
  <2>5. Merged(V, b) = Merged(V, a) \cup V[b] /\ Merged(N, b) = Merged(N, a) \cup N[b]
    BY <2>3 DEF Merged
  <2>6. Woven(k, it[a], Merged(V, a), Merged(N, a), Merged(V, a), Merged(V, a), {})
    BY <2>2 DEF L
  <2>7. Woven(k, ss[b], V[b], N[b], V[b], V[b], {})
    BY <2>1
  <2>8. /\ Merged(V, a) \cap N[b] = {}
        /\ \A x \in Merged(V, a) : \A y \in V[b] : Leads(k, x, y)
    <3>1. \A x \in Merged(V, a) : \E i \in 1 .. a : x \in V[i]
      BY DEF Merged
    <3>2. \A i \in 1 .. a : /\ V[i] \cap N[b] = {}
                            /\ \A x \in V[i] : \A y \in V[b] : Leads(k, x, y)
      BY <2>1, <2>3
    <3>. QED BY <3>1, <3>2
  <2> DEFINE none == {}
  <2>9. none \subseteq none \cup Merged(V, a)
    OBVIOUS
  <2>10. /\ Woven(k, it[a], Merged(V, a), Merged(N, a), Merged(V, a), Merged(V, a), none)
         /\ Woven(k, ss[b], V[b], N[b], V[b], V[b], none)
    BY <2>6, <2>7
  <2> HIDE DEF none
  <2>11. Woven(k, it[a] \o ss[b], Merged(V, a) \cup V[b], Merged(N, a) \cup N[b],
               Merged(V, a) \cup V[b], Merged(V, a) \cup V[b], none)
    BY <2>8, <2>9, <2>10, WovenBoth
  <2>12. L(b)
    BY <2>4, <2>5, <2>11 DEF L, none
  <2>. QED BY <2>12 DEF a, b
<1>5. Nat \subseteq H
  <2> HIDE DEF H
  <2>. QED BY <1>3, <1>4, CountUp
<1>6. L(n)
  <2>1. n - 1 \in Nat /\ n - 1 + 1 = n
    OBVIOUS
  <2>2. n - 1 \in H
    <3> HIDE DEF H
    <3>. QED BY <1>5, <2>1
  <2> HIDE DEF L
  <2>. QED BY <2>1, <2>2
<1>. QED BY <1>1, <1>6

\* One unit's calls in a forward, run the first time or again in a backward.
LEMMA WovenPair ==
    ASSUME NEW u \in Units
    PROVE  LET q == <<Call("forward_pre", u), Call("forward", u)>>
           IN  /\ Woven(ForwardKind, q, {u}, {u}, {u}, {u}, {})
               /\ Woven(BackwardKind, q, {}, {u}, {}, {}, {})
<1> DEFINE x == Call("forward_pre", u)
           y == Call("forward", u)
           q == <<x, y>>
<1>1. /\ x \in Calls /\ x.hook = "forward_pre" /\ x.unit = u
      /\ y \in Calls /\ y.hook = "forward" /\ y.unit = u
  BY DEF Call, Calls, Hooks
<1> HIDE DEF x, y
<1>2. q \in Seq(Calls) /\ Len(q) = 2 /\ q[1] = x /\ q[2] = y
  BY <1>1
<1> HIDE DEF q
<1>3. /\ \A i \in 1 .. Len(q) : i = 1 \/ i = 2
      /\ \A i, j \in 1 .. Len(q) : i < j => i = 1 /\ j = 2
      /\ 1 \in 1 .. Len(q) /\ 2 \in 1 .. Len(q) /\ 1 \in 1 .. 2 - 1
  BY <1>2
<1>4. Opened(ForwardKind, u, q, 2) /\ Opened(BackwardKind, u, q, 2)
  BY <1>1, <1>2, <1>3 DEF Opened, ForwardKind, BackwardKind
<1>5. Among("forward_pre", u, q) /\ Among("forward", u, q)
  BY <1>1, <1>2, <1>3 DEF Among
<1>6. Woven(ForwardKind, q, {u}, {u}, {u}, {u}, {})
  <2>1. ASSUME NEW i \in 1 .. Len(q)
        PROVE  /\ q[i].hook \in ForwardKind.hooks /\ q[i].unit = u
               /\ q[i].hook \in ForwardKind.uses => Opened(ForwardKind, q[i].unit, q, i)
    BY <1>1, <1>2, <1>3, <1>4 DEF ForwardKind
  <2>2. ASSUME NEW i \in 1 .. Len(q), NEW j \in 1 .. Len(q), i < j
        PROVE  q[i].hook \notin ForwardKind.frees /\ q[j].hook # ForwardKind.leads
    BY <1>1, <1>2, <1>3, <2>2 DEF ForwardKind
  <2>3. ForwardKind.leads = "forward_pre" /\ ForwardKind.does = "forward"
    BY DEF ForwardKind
  <2>. QED BY <1>2, <1>5, <2>1, <2>2, <2>3 DEF Woven
<1>7. Woven(BackwardKind, q, {}, {u}, {}, {}, {})
  <2>1. ASSUME NEW i \in 1 .. Len(q)
        PROVE  /\ q[i].hook \in BackwardKind.hooks /\ q[i].unit = u
               /\ q[i].hook # BackwardKind.leads /\ q[i].hook \notin BackwardKind.frees
               /\ q[i].hook \in BackwardKind.uses => Opened(BackwardKind, q[i].unit, q, i)
    BY <1>1, <1>2, <1>3, <1>4 DEF BackwardKind, Hooks
  <2>. QED BY <1>2, <2>1 DEF Woven
<1>. QED BY <1>6, <1>7 DEF q, x, y

LEMMA ForwardOfWoven ==
    ASSUME NEW U \in SUBSET Kids
    PROVE  /\ Woven(ForwardKind, ForwardOf(U), U, U, U, U, {})
           /\ Woven(BackwardKind, ForwardOf(U), {}, U, {}, {}, {})
<1> DEFINE ss == [u \in Kids |->
                    IF u \in U THEN <<Call("forward_pre", u), Call("forward", u)>> ELSE <<>>]
           V == [u \in Kids |-> {u} \cap U]
           O == [u \in Kids |-> {}]
<1>0. NKids \in Nat \ {0} /\ Kids = 1 .. NKids /\ \A u \in Kids : u \in Units
  BY ShardedAssumption DEF Kids, Units
<1>1. ASSUME NEW u \in Kids
      PROVE  /\ Woven(ForwardKind, ss[u], V[u], V[u], V[u], V[u], {})
             /\ Woven(BackwardKind, ss[u], O[u], V[u], O[u], O[u], {})
  <2> DEFINE q == <<Call("forward_pre", u), Call("forward", u)>>
  <2>1. /\ ss[u] = IF u \in U THEN q ELSE <<>>
        /\ V[u] = IF u \in U THEN {u} ELSE {}
        /\ O[u] = {}
    OBVIOUS
  <2> HIDE DEF ss, V, O
  <2>2. /\ Woven(ForwardKind, q, {u}, {u}, {u}, {u}, {})
        /\ Woven(BackwardKind, q, {}, {u}, {}, {}, {})
    BY <1>0, WovenPair
  <2> HIDE DEF q
  <2>3. /\ Woven(ForwardKind, <<>>, {}, {}, {}, {}, {})
        /\ Woven(BackwardKind, <<>>, {}, {}, {}, {}, {})
    BY WovenNone
  <2>. QED BY <2>1, <2>2, <2>3
<1>2. Len(ss) = NKids
  BY <1>0
<1>3. ForwardOf(U) = FlattenSeq(ss)
  BY DEF ForwardOf
<1>4. \A i, j \in 1 .. NKids : i < j =>
         /\ V[i] \cap V[j] = {} /\ O[i] \cap V[j] = {}
         /\ \A a \in V[i] : \A b \in V[j] : Leads(ForwardKind, a, b)
         /\ \A a \in O[i] : \A b \in O[j] : Leads(BackwardKind, a, b)
  <2> TAKE i, j \in 1 .. NKids
  <2> HAVE i < j
  <2>1. V[i] \subseteq {i} /\ V[j] \subseteq {j} /\ O[i] = {}
    BY <1>0
  <2>2. i \in Int /\ j \in Int /\ i # j /\ Leads(ForwardKind, i, j)
    BY DEF Leads, ForwardKind
  <2> HIDE DEF V, O
  <2>. QED BY <2>1, <2>2
<1>5. Merged(V, NKids) = U /\ Merged(O, NKids) = {}
  <2>1. Merged(O, NKids) = {}
    BY <1>0 DEF Merged
  <2>2. \A u \in U : u \in 1 .. NKids /\ u \in V[u]
    BY <1>0
  <2>3. \A u \in 1 .. NKids : V[u] \subseteq U
    BY <1>0
  <2> HIDE DEF V
  <2>4. Merged(V, NKids) = U
    BY <2>2, <2>3 DEF Merged
  <2>. QED BY <2>1, <2>4
<1>6. /\ \A i \in 1 .. NKids : Woven(ForwardKind, ss[i], V[i], V[i], V[i], V[i], {})
      /\ \A i \in 1 .. NKids : Woven(BackwardKind, ss[i], O[i], V[i], O[i], O[i], {})
  <2> HIDE DEF ss, V, O
  <2>. QED BY <1>0, <1>1
<1>7. ForwardKind.leads \in ForwardKind.opens /\ BackwardKind.leads \in BackwardKind.opens
  BY DEF ForwardKind, BackwardKind
<1> HIDE DEF ss, V, O
<1>8. Woven(ForwardKind, FlattenSeq(ss), Merged(V, NKids), Merged(V, NKids),
            Merged(V, NKids), Merged(V, NKids), {})
  BY <1>0, <1>2, <1>4, <1>6, <1>7, WovenFlat
<1>9. Woven(BackwardKind, FlattenSeq(ss), Merged(O, NKids), Merged(V, NKids),
            Merged(O, NKids), Merged(O, NKids), {})
  BY <1>0, <1>2, <1>4, <1>6, <1>7, WovenFlat
<1>. QED BY <1>3, <1>5, <1>8, <1>9

LEMMA ForwardWoven ==
    ASSUME NEW U \in SUBSET Kids
    PROVE  Woven(ForwardKind, ForwardCalls(U), U \cup {Root}, U \cup {Root}, U \cup {Root},
                 U \cup {Root}, {})
<1> DEFINE x == Call("forward_pre", Root)
           y == Call("forward", Root)
           a == <<x>>
           b == ForwardOf(U)
           c == <<y>>
           R == {Root}
           O == {}
           k == ForwardKind
<1>0. /\ Root \in Units /\ U \cap R = {} /\ \A v \in U : Leads(k, Root, v)
  BY ShardedAssumption DEF Kids, Units, Root, Leads, ForwardKind
<1>1. /\ x \in Calls /\ x.hook = "forward_pre" /\ x.unit = Root
      /\ y \in Calls /\ y.hook = "forward" /\ y.unit = Root
  BY <1>0 DEF Call, Calls, Hooks
<1>2. ForwardCalls(U) = a \o b \o c
  BY DEF ForwardCalls
<1>3. Woven(k, b, U, U, U, U, O)
  BY ForwardOfWoven
<1>4. k = [hooks |-> {"forward_pre", "forward"}, opens |-> {"forward_pre"}, uses |-> {"forward"},
           frees |-> {"forward"}, needs |-> {"forward_pre", "forward"},
           leads |-> "forward_pre", does |-> "forward", up |-> TRUE]
  BY DEF ForwardKind
<1> HIDE DEF x, y, b, k
<1>5. Woven(k, a, R, R, O, O, O)
  BY <1>1, <1>4, WovenOne
<1>6. Woven(k, c, O, R, R, R, R)
  BY <1>1, <1>4, WovenOne
<1> HIDE DEF a, c
<1>7. k.leads \in k.opens
  BY <1>4
<1>8. Woven(k, a \o b, R \cup U, R \cup U, O \cup U, O \cup U, O)
  BY <1>0, <1>3, <1>5, <1>7, WovenBoth
<1> DEFINE d == a \o b
           P == R \cup U
           F == O \cup U
<1>9. Woven(k, d, P, P, F, F, O)
  BY <1>8
<1>10. R \subseteq O \cup P /\ F \cap R = {} /\ \A i \in P : \A j \in O : Leads(k, i, j)
  BY <1>0
<1>11. P \cup O = U \cup {Root} /\ P \cup R = U \cup {Root} /\ F \cup R = U \cup {Root}
  OBVIOUS
<1> HIDE DEF d, P, F
<1>12. Woven(k, d \o c, P \cup O, P \cup R, F \cup R, F \cup R, O)
  BY <1>6, <1>7, <1>9, <1>10, WovenBoth
<1>. QED BY <1>2, <1>11, <1>12 DEF d, k, O

LEMMA BackwardOfWoven ==
    ASSUME NEW U \in SUBSET Kids, NEW micro \in Int, NEW quiet \in BOOLEAN, NEW u \in Kids
    PROVE  Woven(BackwardKind, BackwardOf(U, u, micro, quiet), {u}, {v \in Kids : v <= u},
                 {u}, {u}, {})
<1> DEFINE segment == Segment(u) \cap U
           x == Call("backward_pre", u)
           y == [Call("gradient", u) EXCEPT !.micro = micro]
           z == Call("backward", u)
           pre == <<x>>
           again == IF cfg.recompute /\ \A v \in segment : v <= u
                    THEN ForwardOf(segment) ELSE <<>>
           g == <<y>>
           end == IF quiet /\ \A v \in U : u <= v THEN <<>> ELSE <<z>>
           N == {v \in Kids : v <= u}
           R == {u}
           O == {}
           k == BackwardKind
<1>0. u \in Units /\ u \in N /\ u \in Int
  BY ShardedAssumption DEF Kids, Units
<1>1. BackwardOf(U, u, micro, quiet) = pre \o again \o g \o end
  BY DEF BackwardOf
<1>2. /\ x \in Calls /\ x.hook = "backward_pre" /\ x.unit = u
      /\ y \in Calls /\ y.hook = "gradient" /\ y.unit = u
      /\ z \in Calls /\ z.hook = "backward" /\ z.unit = u
  BY <1>0 DEF Call, Calls, Hooks
<1>3. k = [hooks |-> Hooks, opens |-> {"forward_pre", "backward_pre"},
           uses |-> {"forward", "gradient"}, frees |-> {"backward"},
           needs |-> {"forward", "gradient", "backward_pre"},
           leads |-> "backward_pre", does |-> "gradient", up |-> FALSE]
  BY DEF BackwardKind
<1>4. Woven(k, again, O, N, O, O, O)
  <2>1. segment \in SUBSET Kids
    OBVIOUS
  <2> HIDE DEF segment
  <2>2. Woven(k, ForwardOf(segment), O, segment, O, O, O)
    BY <2>1, ForwardOfWoven
  <2> HIDE DEF k
  <2>3. Woven(k, <<>>, O, N, O, O, O)
    BY WovenNone
  <2>4. ASSUME \A v \in segment : v <= u PROVE Woven(k, ForwardOf(segment), O, N, O, O, O)
    <3>1. segment \subseteq N /\ O \subseteq O
      BY <2>1, <2>4
    <3> HIDE DEF N, O
    <3>. QED BY <2>2, <3>1, WovenLess
  <2>. QED BY <2>3, <2>4
<1> HIDE DEF x, y, z, again, k, N
<1>5. "backward_pre" \in Hooks /\ "gradient" \in Hooks /\ "backward" \in Hooks
  BY DEF Hooks
<1>6. Woven(k, pre, R, N, O, O, O)
  BY <1>0, <1>2, <1>3, <1>5, WovenOne
<1>7. Woven(k, g, O, N, O, R, R)
  BY <1>0, <1>2, <1>3, <1>5, WovenOne
<1>8. Woven(k, end, O, O, R, O, O)
  <2>1. Woven(k, <<z>>, O, O, R, O, O)
    BY <1>0, <1>2, <1>3, <1>5, WovenOne
  <2>2. Woven(k, <<>>, O, O, R, O, O)
    BY WovenNone
  <2>. QED BY <2>1, <2>2
<1> HIDE DEF pre, g, end
<1>9. /\ k.leads \in k.opens /\ O \cap N = {} /\ O \cap O = {} /\ O \subseteq O \cup R
      /\ R \subseteq O \cup R /\ \A i \in R : \A j \in O : Leads(k, i, j)
      /\ R \cup O = R /\ N \cup N = N /\ O \cup O = O /\ O \cup R = R /\ N \cup O = N
  BY <1>3
<1> HIDE DEF R, O
<1>10. Woven(k, pre \o again, R \cup O, N \cup N, O \cup O, O \cup O, O)
  BY <1>4, <1>6, <1>9, WovenBoth
<1>11. Woven(k, pre \o again, R, N, O, O, O)
  BY <1>9, <1>10
<1>12. Woven(k, (pre \o again) \o g, R \cup O, N \cup N, O \cup O, O \cup R, O)
  BY <1>7, <1>9, <1>11, WovenBoth
<1>13. Woven(k, (pre \o again) \o g, R, N, O, R, O)
  BY <1>9, <1>12
<1>14. Woven(k, ((pre \o again) \o g) \o end, R \cup O, N \cup O, O \cup R, R \cup O, O)
  BY <1>8, <1>9, <1>13, WovenBoth
<1>. QED BY <1>1, <1>9, <1>14 DEF R, O, N, k

LEMMA BackwardWoven ==
    ASSUME NEW U \in SUBSET Kids, NEW micro \in Int, NEW quiet \in BOOLEAN
    PROVE  LET q == BackwardCalls(U, micro, quiet)
           IN  /\ Woven(BackwardKind, q, U \cup {Root}, Units, U, U \cup {Root}, {})
               /\ q[1].hook = "backward_pre"
<1> DEFINE ss == [i \in Kids |-> LET u == NKids + 1 - i
                                 IN  IF u \in U THEN BackwardOf(U, u, micro, quiet) ELSE <<>>]
           V == [i \in Kids |-> {NKids + 1 - i} \cap U]
           M == [i \in Kids |-> {v \in Kids : v <= NKids + 1 - i}]
           x == Call("backward_pre", Root)
           y == [Call("gradient", Root) EXCEPT !.micro = micro]
           z == Call("root_backward", Root)
           a == <<x>>
           b == FlattenSeq(ss)
           c == <<y, z>>
           c1 == <<y>>
           c2 == <<z>>
           R == {Root}
           O == {}
           N == Merged(M, NKids)
           k == BackwardKind
<1>0. /\ NKids \in Nat \ {0} /\ Kids = 1 .. NKids /\ Root \in Units /\ Kids \subseteq Units
      /\ \A u \in Kids : NKids + 1 - u \in Kids /\ NKids + 1 - (NKids + 1 - u) = u
      /\ Root \notin Kids
  BY ShardedAssumption DEF Kids, Units, Root
<1>1. ASSUME NEW i \in Kids PROVE Woven(k, ss[i], V[i], M[i], V[i], V[i], O)
  <2> DEFINE u == NKids + 1 - i
  <2>1. /\ u \in Kids /\ V[i] = {u} \cap U /\ M[i] = {v \in Kids : v <= u}
        /\ ss[i] = IF u \in U THEN BackwardOf(U, u, micro, quiet) ELSE <<>>
    BY <1>0
  <2> HIDE DEF u, ss, V, M, k
  <2>2. Woven(k, BackwardOf(U, u, micro, quiet), {u}, M[i], {u}, {u}, O)
    BY <2>1, BackwardOfWoven DEF k
  <2>3. Woven(k, <<>>, {}, M[i], {}, {}, O)
    BY WovenNone
  <2>4. V[i] = IF u \in U THEN {u} ELSE {}
    BY <2>1
  <2>. QED BY <2>1, <2>2, <2>3, <2>4
<1>2. Woven(k, b, U, N, U, U, O)
  <2>1. \A i \in 1 .. NKids : Woven(k, ss[i], V[i], M[i], V[i], V[i], O)
    <3> HIDE DEF ss, V, M, k
    <3>. QED BY <1>0, <1>1
  <2>2. Len(ss) = NKids
    BY <1>0
  <2>3. Merged(V, NKids) = U
    <3>1. \A u \in U : NKids + 1 - u \in 1 .. NKids /\ u \in V[NKids + 1 - u]
      BY <1>0
    <3>2. \A i \in 1 .. NKids : V[i] \subseteq U
      BY <1>0
    <3> HIDE DEF V
    <3>. QED BY <3>1, <3>2 DEF Merged
  <2>4. \A i, j \in 1 .. NKids : i < j =>
          V[i] \cap M[j] = {} /\ \A p \in V[i] : \A q \in V[j] : Leads(k, p, q)
    <3> TAKE i, j \in 1 .. NKids
    <3> HAVE i < j
    <3> DEFINE p == NKids + 1 - i
               q == NKids + 1 - j
    <3>1. V[i] \subseteq {p} /\ V[j] \subseteq {q} /\ M[j] = {v \in Kids : v <= q}
      BY <1>0
    <3>2. p \in Int /\ q \in Int /\ q < p
      BY <1>0
    <3>3. Leads(k, p, q) /\ ~(p <= q)
      BY <3>2 DEF Leads, BackwardKind
    <3> HIDE DEF p, q, V, M, k
    <3>. QED BY <3>1, <3>3
  <2>5. k.leads \in k.opens
    BY DEF BackwardKind
  <2> HIDE DEF ss, V, M, k
  <2>6. Woven(k, b, Merged(V, NKids), N, Merged(V, NKids), Merged(V, NKids), O)
    BY <1>0, <2>1, <2>2, <2>4, <2>5, WovenFlat
  <2>. QED BY <2>3, <2>6
<1>3. N \subseteq Kids
  BY <1>0 DEF Merged
<1>4. /\ x \in Calls /\ x.hook = "backward_pre" /\ x.unit = Root
      /\ y \in Calls /\ y.hook = "gradient" /\ y.unit = Root
      /\ z \in Calls /\ z.hook = "root_backward" /\ z.unit = Root
  BY <1>0 DEF Call, Calls, Hooks
<1>5. BackwardCalls(U, micro, quiet) = a \o b \o c
  BY DEF BackwardCalls
<1>6. k = [hooks |-> Hooks, opens |-> {"forward_pre", "backward_pre"},
           uses |-> {"forward", "gradient"}, frees |-> {"backward"},
           needs |-> {"forward", "gradient", "backward_pre"},
           leads |-> "backward_pre", does |-> "gradient", up |-> FALSE]
  BY DEF BackwardKind
<1>7. \A p \in R : \A q \in U : Leads(k, p, q)
  BY DEF Leads, BackwardKind
<1>8. c = c1 \o c2
  <2> HIDE DEF y, z
  <2>. QED BY <1>4, TwoCalls
<1> HIDE DEF x, y, z, b, c, N, k
<1>9. "backward_pre" \in Hooks /\ "gradient" \in Hooks /\ "root_backward" \in Hooks
  BY DEF Hooks
<1>10. Woven(k, a, R, R, O, O, O)
  BY <1>4, <1>6, <1>9, WovenOne
<1>11. Woven(k, c1, O, R, O, R, R)
  BY <1>4, <1>6, <1>9, WovenOne
<1>12. Woven(k, c2, O, O, O, O, O)
  BY <1>4, <1>6, <1>9, WovenOne
<1> HIDE DEF a, c1, c2
<1>13. /\ k.leads \in k.opens /\ O \cap N = {} /\ O \cap O = {} /\ O \subseteq O \cup R
       /\ O \subseteq O \cup O /\ R \cup U = U \cup {Root} /\ O \cup U = U /\ U \cap R = {}
       /\ R \subseteq O \cup (R \cup U) /\ O \cup R = R /\ O \cup O = O
       /\ (R \cup U) \cup O = U \cup {Root} /\ (R \cup N) \cup R \subseteq Units
       /\ (O \cup U) \cup O = U /\ (O \cup U) \cup R = U \cup {Root} /\ R \cup O = R
       /\ (\A i \in R \cup U : \A j \in O : Leads(k, i, j)) /\ \A i \in O : \A j \in O : Leads(k, i, j)
  BY <1>0, <1>3, <1>6
<1>14. Woven(k, c, O, R, O, R, R)
  <2>1. O \subseteq R \cup O
    BY <1>13
  <2> HIDE DEF R, O
  <2>2. Woven(k, c1 \o c2, O \cup O, R \cup O, O \cup O, R \cup O, R)
    BY <1>11, <1>12, <1>13, <2>1, WovenBoth
  <2>. QED BY <1>8, <1>13, <2>2
<1>15. Woven(k, a \o b, R \cup U, R \cup N, O \cup U, O \cup U, O)
  <2> HIDE DEF R, O
  <2>. QED BY <1>2, <1>7, <1>10, <1>13, WovenBoth
<1>16. Woven(k, (a \o b) \o c, (R \cup U) \cup O, (R \cup N) \cup R, (O \cup U) \cup O,
             (O \cup U) \cup R, O)
  <2>1. (O \cup U) \cap R = {}
    BY <1>13
  <2> DEFINE d == a \o b
             P == R \cup U
             Q == R \cup N
             F == O \cup U
  <2>2. Woven(k, d, P, Q, F, F, O) /\ R \subseteq O \cup P /\ F \cap R = {}
        /\ \A i \in P : \A j \in O : Leads(k, i, j)
    BY <1>13, <1>15, <2>1
  <2> HIDE DEF R, O, d, P, Q, F
  <2>3. Woven(k, d \o c, P \cup O, Q \cup R, F \cup O, F \cup R, O)
    BY <1>13, <1>14, <2>2, WovenBoth
  <2>. QED BY <2>3 DEF d, P, Q, F
<1> HIDE DEF R
<1>17. Woven(k, (a \o b) \o c, U \cup {Root}, (R \cup N) \cup R, U, U \cup {Root}, O)
  BY <1>13, <1>16
<1>18. Woven(k, (a \o b) \o c, U \cup {Root}, Units, U, U \cup {Root}, O)
  <2> DEFINE d == (a \o b) \o c
             Q == (R \cup N) \cup R
             P == U \cup {Root}
  <2>1. Woven(k, d, P, Q, U, P, O) /\ Q \subseteq Units
    BY <1>13, <1>17
  <2> HIDE DEF d, Q, P, O
  <2>2. Woven(k, d, P, Units, U, P, O)
    BY <2>1, WovenLess
  <2>. QED BY <2>2 DEF d, P
<1>19. ((a \o b) \o c)[1] = x
  <2> DEFINE p == a \o b
  <2>1. a \in Seq(Calls) /\ b \in Seq(Calls) /\ c \in Seq(Calls) /\ p \in Seq(Calls)
    BY <1>2, <1>10, <1>14, <1>15 DEF Woven
  <2>2. Len(a) = 1 /\ a[1] = x
    BY DEF a
  <2>3. 1 \in 1 .. Len(a) + Len(b) /\ 1 <= Len(a)
    BY <2>1, <2>2, LenProperties
  <2>4. Len(p) = Len(a) + Len(b) /\ p[1] = x
    BY <2>1, <2>2, <2>3, ConcatProperties
  <2> HIDE DEF p
  <2>5. 1 \in 1 .. Len(p) + Len(c) /\ 1 <= Len(p)
    BY <2>1, <2>2, <2>4, LenProperties
  <2>6. (p \o c)[1] = x
    BY <2>1, <2>4, <2>5, ConcatProperties
  <2>. QED BY <2>6 DEF p
<1>. QED BY <1>4, <1>5, <1>18, <1>19 DEF k, O

-----------------------------------------------------------------------------
(* What a pass still has to call, and how that shrinks call by call. *)
Kinds == {ForwardKind, BackwardKind}
Cells(k, u) == IF k.up THEN ForwardCells(u) ELSE BackwardCells(u)

\* What a pass still calls, the units of O being gathered.
Left(k, q, O) ==
  /\ \A i \in 1 .. Len(q) :
       /\ q[i].hook \in k.hooks
       /\ q[i].hook \in k.uses => q[i].unit \in O \/ Opened(k, q[i].unit, q, i)
       /\ q[i].hook = k.leads =>
            /\ \A v \in Cells(k, q[i].unit) : After(k.leads, v, q, i)
            /\ k.up => After(k.does, q[i].unit, q, i)
            /\ ~k.up /\ ~cfg.reshard_after_forward => q[i].unit \in O
       /\ q[i].hook = "root_backward" => i = Len(q)
  /\ \A i, j \in 1 .. Len(q) : i < j /\ q[i].hook \in k.frees /\ q[j].hook \in k.needs =>
       q[i].unit # q[j].unit

LEMMA KindFacts ==
    ASSUME NEW k \in Kinds
    PROVE  /\ k.leads \in k.opens /\ k.leads \in k.needs /\ k.uses \subseteq k.needs
           /\ k.leads # k.does
           /\ k.up => k.does \in k.frees
  BY DEF Kinds, ForwardKind, BackwardKind

LEMMA LeftAll ==
    ASSUME NEW k \in Kinds, NEW q, NEW P, NEW N, NEW F, NEW E, NEW O, P \subseteq Units,
           Woven(k, q, P, N, F, E, {}), P \subseteq E, \A u \in P : Cells(k, u) \subseteq P,
           \A i \in 1 .. Len(q) : q[i].hook = "root_backward" => i = Len(q),
           ~k.up /\ ~cfg.reshard_after_forward => P \subseteq O
    PROVE  Left(k, q, O)
<1>0. \A u \in P : u \in Int
  BY ShardedAssumption DEF Units
<1>1. Len(q) \in Nat
  BY LenProperties DEF Woven
<1>2. ASSUME NEW i \in 1 .. Len(q), q[i].hook = k.leads
      PROVE  /\ \A v \in Cells(k, q[i].unit) : After(k.leads, v, q, i)
             /\ k.up => After(k.does, q[i].unit, q, i)
             /\ ~k.up /\ ~cfg.reshard_after_forward => q[i].unit \in O
  <2> DEFINE u == q[i].unit
  <2>1. u \in P /\ u \in Int
    BY <1>0, <1>2 DEF Woven
  <2>2. ASSUME NEW v \in Cells(k, u) PROVE After(k.leads, v, q, i)
    <3>1. v \in P /\ v \in Int /\ u # v /\ ~Leads(k, v, u)
      <4>1. v \in P /\ v \in Int
        BY <1>0, <2>1, <2>2
      <4>2. IF k.up THEN u < v ELSE v < u /\ v # Root
        BY <2>2, ShardedAssumption DEF Cells, ForwardCells, BackwardCells, Kids, Root
      <4>. QED BY <2>1, <4>1, <4>2 DEF Leads
    <3>2. PICK j \in 1 .. Len(q) : q[j].hook = k.leads /\ q[j].unit = v
      BY <3>1 DEF Woven, Among
    <3>3. ~(j < i) /\ j # i
      BY <1>2, <3>1, <3>2 DEF Woven
    <3>4. j \in i + 1 .. Len(q)
      BY <1>1, <3>3
    <3>. QED BY <3>2, <3>4 DEF After
  <2>3. ASSUME k.up PROVE After(k.does, u, q, i)
    <3>1. PICK j \in 1 .. Len(q) : q[j].hook = k.does /\ q[j].unit = u
      BY <2>1 DEF Woven, Among
    <3>2. ~(j < i) /\ j # i
      BY <1>2, <2>3, <3>1, KindFacts DEF Woven
    <3>3. j \in i + 1 .. Len(q)
      BY <1>1, <3>2
    <3>. QED BY <3>1, <3>3 DEF After
  <2>. QED BY <2>1, <2>2, <2>3
<1>. QED BY <1>2 DEF Woven, Left

LEMMA TailIs ==
    ASSUME NEW q \in Seq(Calls), q # <<>>
    PROVE  /\ Len(q) \in Nat /\ Len(Tail(q)) \in Nat /\ Len(q) = Len(Tail(q)) + 1
           /\ Tail(q) \in Seq(Calls) /\ 1 \in 1 .. Len(q) /\ q[1] = Head(q) /\ Head(q) \in Calls
           /\ \A i \in 1 .. Len(Tail(q)) : i + 1 \in 1 .. Len(q) /\ Tail(q)[i] = q[i + 1]
<1> DEFINE r == Tail(q)
<1>1. Len(q) \in Nat \ {0} /\ Head(q) = q[1] /\ r \in Seq(Calls) /\ Len(r) = Len(q) - 1
        /\ \A i \in 1 .. Len(r) : r[i] = q[i + 1]
  BY HeadTailProperties, EmptySeq, LenProperties
<1> HIDE DEF r
<1>2. 1 \in 1 .. Len(q) /\ Len(r) \in Nat /\ Len(q) = Len(r) + 1
  BY <1>1
<1>3. q[1] \in Calls
  BY <1>2, ElementOfSeq
<1>4. \A i \in 1 .. Len(r) : i + 1 \in 1 .. Len(q)
  BY <1>2
<1>. QED BY <1>1, <1>2, <1>3, <1>4 DEF r

LEMMA AmongRest ==
    ASSUME NEW q \in Seq(Calls), q # <<>>, NEW hook, NEW u
    PROVE  /\ Among(hook, u, q) /\ ~(Head(q).hook = hook /\ Head(q).unit = u)
                => Among(hook, u, Tail(q))
           /\ After(hook, u, q, 1) => Among(hook, u, Tail(q))
           /\ \A i \in 1 .. Len(Tail(q)) :
                After(hook, u, q, i + 1) => After(hook, u, Tail(q), i)
<1> DEFINE r == Tail(q)
<1>1. /\ Len(q) \in Nat /\ Len(r) \in Nat /\ Len(q) = Len(r) + 1 /\ q[1] = Head(q)
      /\ \A i \in 1 .. Len(r) : r[i] = q[i + 1]
  BY TailIs
<1> HIDE DEF r
<1>2. ASSUME NEW j \in 1 .. Len(q), j # 1
      PROVE  \E i \in 1 .. Len(r) : i + 1 = j /\ r[i] = q[j]
  <2> DEFINE i == j - 1
  <2>1. i \in 1 .. Len(r) /\ i + 1 = j
    BY <1>1, <1>2
  <2> HIDE DEF i
  <2>. QED BY <1>1, <2>1
<1>3. ASSUME Among(hook, u, q), ~(Head(q).hook = hook /\ Head(q).unit = u)
      PROVE  Among(hook, u, r)
  <2>1. PICK j \in 1 .. Len(q) : q[j].hook = hook /\ q[j].unit = u
    BY <1>3 DEF Among
  <2>2. j # 1
    BY <1>1, <1>3, <2>1
  <2>. QED BY <1>2, <2>1, <2>2 DEF Among
<1>4. ASSUME After(hook, u, q, 1) PROVE Among(hook, u, r)
  <2>1. PICK j \in 1 + 1 .. Len(q) : q[j].hook = hook /\ q[j].unit = u
    BY <1>4 DEF After
  <2>2. j \in 1 .. Len(q) /\ j # 1
    BY <1>1
  <2>. QED BY <1>2, <2>1, <2>2 DEF Among
<1>5. ASSUME NEW i \in 1 .. Len(r), After(hook, u, q, i + 1) PROVE After(hook, u, r, i)
  <2>1. PICK j \in (i + 1) + 1 .. Len(q) : q[j].hook = hook /\ q[j].unit = u
    BY <1>5 DEF After
  <2>2. j \in 1 .. Len(q) /\ j # 1
    BY <1>1
  <2>3. PICK n \in 1 .. Len(r) : n + 1 = j /\ r[n] = q[j]
    BY <1>2, <2>2
  <2>4. n \in i + 1 .. Len(r)
    BY <1>1, <2>1, <2>3
  <2>. QED BY <2>1, <2>3, <2>4 DEF After
<1>. QED BY <1>3, <1>4, <1>5 DEF r

LEMMA LeftTail ==
    ASSUME NEW k \in Kinds, NEW q \in Seq(Calls), q # <<>>, NEW O, NEW O2, Left(k, q, O),
           \A u \in O : u \in O2 \/ (Head(q).hook \in k.frees /\ u = Head(q).unit),
           Head(q).hook \in k.opens => Head(q).unit \in O2
    PROVE  Left(k, Tail(q), O2)
<1> DEFINE r == Tail(q)
           c == Head(q)
<1>1. /\ Len(q) \in Nat /\ Len(r) \in Nat /\ Len(q) = Len(r) + 1 /\ q[1] = c
      /\ 1 \in 1 .. Len(q)
      /\ \A i \in 1 .. Len(r) : i + 1 \in 1 .. Len(q) /\ r[i] = q[i + 1]
  BY TailIs
<1>2. \A hook, u : \A i \in 1 .. Len(r) : After(hook, u, q, i + 1) => After(hook, u, r, i)
  BY AmongRest
<1> HIDE DEF r, c
<1>3. ASSUME NEW i \in 1 .. Len(r), r[i].hook \in k.needs, r[i].unit \in O
      PROVE  r[i].unit \in O2
  <2>1. 1 < i + 1
    BY <1>1
  <2>. QED BY <1>1, <1>3, <2>1 DEF Left, c
<1>4. ASSUME NEW i \in 1 .. Len(r), NEW u, Opened(k, u, q, i + 1)
      PROVE  u \in O2 \/ Opened(k, u, r, i)
  <2>1. PICK j \in 1 .. (i + 1) - 1 : q[j].hook \in k.opens /\ q[j].unit = u
    BY <1>4 DEF Opened
  <2>2. CASE j = 1
    BY <1>1, <2>1, <2>2 DEF c
  <2>3. CASE j # 1
    <3> DEFINE n == j - 1
    <3>1. n \in 1 .. Len(r) /\ n \in 1 .. i - 1 /\ n + 1 = j
      BY <1>1, <2>3
    <3> HIDE DEF n
    <3>2. r[n] = q[j]
      BY <1>1, <3>1
    <3>. QED BY <2>1, <3>1, <3>2 DEF Opened
  <2>. QED BY <2>2, <2>3
<1>5. ASSUME NEW i \in 1 .. Len(r)
      PROVE  /\ r[i].hook \in k.hooks
             /\ r[i].hook \in k.uses => r[i].unit \in O2 \/ Opened(k, r[i].unit, r, i)
             /\ r[i].hook = k.leads =>
                  /\ \A v \in Cells(k, r[i].unit) : After(k.leads, v, r, i)
                  /\ k.up => After(k.does, r[i].unit, r, i)
                  /\ ~k.up /\ ~cfg.reshard_after_forward => r[i].unit \in O2
             /\ r[i].hook = "root_backward" => i = Len(r)
  <2> DEFINE n == i + 1
  <2>1. n \in 1 .. Len(q) /\ r[i] = q[n] /\ (n = Len(q) => i = Len(r))
    BY <1>1
  <2>2. /\ q[n].hook \in k.hooks
        /\ q[n].hook \in k.uses => q[n].unit \in O \/ Opened(k, q[n].unit, q, n)
        /\ q[n].hook = k.leads =>
             /\ \A v \in Cells(k, q[n].unit) : After(k.leads, v, q, n)
             /\ k.up => After(k.does, q[n].unit, q, n)
             /\ ~k.up /\ ~cfg.reshard_after_forward => q[n].unit \in O
        /\ q[n].hook = "root_backward" => n = Len(q)
    <3> HIDE DEF n
    <3>. QED BY <2>1 DEF Left
  <2>3. /\ r[i].hook \in k.hooks
        /\ r[i].hook = "root_backward" => i = Len(r)
    BY <2>1, <2>2
  <2>4. ASSUME r[i].hook \in k.uses PROVE r[i].unit \in O2 \/ Opened(k, r[i].unit, r, i)
    <3>1. r[i].hook \in k.needs
      BY <2>4, KindFacts
    <3>. QED BY <1>3, <1>4, <2>1, <2>2, <2>4, <3>1
  <2>5. ASSUME r[i].hook = k.leads
        PROVE  /\ \A v \in Cells(k, r[i].unit) : After(k.leads, v, r, i)
               /\ k.up => After(k.does, r[i].unit, r, i)
               /\ ~k.up /\ ~cfg.reshard_after_forward => r[i].unit \in O2
    <3>1. r[i].hook \in k.needs
      BY <2>5, KindFacts
    <3>. QED BY <1>2, <1>3, <2>1, <2>2, <2>5, <3>1
  <2>. QED BY <2>3, <2>4, <2>5
<1>6. ASSUME NEW i \in 1 .. Len(r), NEW j \in 1 .. Len(r), i < j,
             r[i].hook \in k.frees, r[j].hook \in k.needs
      PROVE  r[i].unit # r[j].unit
  <2>1. i + 1 \in 1 .. Len(q) /\ j + 1 \in 1 .. Len(q) /\ i + 1 < j + 1
    BY <1>1, <1>6
  <2>. QED BY <1>1, <1>6, <2>1 DEF Left
<1>7. Left(k, r, O2)
  BY <1>5, <1>6 DEF Left
<1>. QED BY <1>7 DEF r

LEMMA LeftHead ==
    ASSUME NEW k \in Kinds, NEW q \in Seq(Calls), q # <<>>, NEW O, Left(k, q, O)
    PROVE  LET c == Head(q)
               r == Tail(q)
           IN  /\ c.hook \in k.hooks
               /\ c.hook \in k.uses => c.unit \in O
               /\ c.hook = k.leads =>
                    /\ \A v \in Cells(k, c.unit) : Among(k.leads, v, r)
                    /\ k.up => Among(k.does, c.unit, r)
                    /\ ~k.up /\ ~cfg.reshard_after_forward => c.unit \in O
               /\ c.hook = "root_backward" => r = <<>>
<1> DEFINE c == Head(q)
           r == Tail(q)
<1>1. /\ Len(q) \in Nat /\ Len(r) \in Nat /\ Len(q) = Len(r) + 1 /\ q[1] = c
      /\ 1 \in 1 .. Len(q) /\ r \in Seq(Calls)
  BY TailIs
<1>2. \A hook, u : After(hook, u, q, 1) => Among(hook, u, r)
  BY AmongRest
<1> HIDE DEF c, r
<1>3. \A u : ~Opened(k, u, q, 1)
  BY DEF Opened
<1>4. c.hook = "root_backward" => r = <<>>
  <2> HAVE c.hook = "root_backward"
  <2>1. 1 = Len(q)
    BY <1>1 DEF Left
  <2>. QED BY <1>1, <2>1, EmptySeq
<1>5. /\ c.hook \in k.hooks
      /\ c.hook \in k.uses => c.unit \in O
      /\ c.hook = k.leads =>
           /\ \A v \in Cells(k, c.unit) : After(k.leads, v, q, 1)
           /\ k.up => After(k.does, c.unit, q, 1)
           /\ ~k.up /\ ~cfg.reshard_after_forward => c.unit \in O
  BY <1>1, <1>3 DEF Left
<1>. QED BY <1>2, <1>4, <1>5 DEF c, r

-----------------------------------------------------------------------------
(* What the helpers of the hooks do to the parameters. *)
\* The fields a gather or a free touches, which no reduction does.
Sharding == {"is_shard", "gather", "buffer", "scheduler_state", "root_bp_state",
             "reshard_after_backward"}
SameSharding(t, t2) == DOMAIN t2 = DOMAIN t /\ \A f \in Sharding : t2[f] = t[f]
Whole(t) == Sharding \subseteq DOMAIN t /\ DOMAIN t.scheduler_state = Units

Unsharded(t) == {u \in Units : ~t.is_shard[u]}
Gathering(t) == {u \in Units : t.gather[u]}

\* What is gathered, or on its way, is of the weights the optimizer last wrote.
Current(t) ==
  \A u \in Units : /\ t.gather[u] => t.is_shard[u]
                   /\ t.gather[u] \/ ~t.is_shard[u] => t.buffer[u] = version

Steady(t, t2) ==
  /\ t2.scheduler_state = t.scheduler_state /\ t2.root_bp_state = t.root_bp_state
  /\ t2.reshard_after_backward = t.reshard_after_backward

LEMMA ShardFresh ==
    ASSUME NEW t, Whole(t), Current(t), NEW U
    PROVE  LET t2 == Shard(t, U)
           IN  /\ DOMAIN t2 = DOMAIN t /\ Current(t2) /\ Steady(t, t2)
               /\ Unsharded(t2) = Unsharded(t) \ U /\ Gathering(t2) = Gathering(t)
<1> DEFINE a == Replaced(t.is_shard, U, Fresh(TRUE))
           b == Replaced(t.buffer, {u \in U : ~t.is_shard[u]}, Fresh(Freed))
           t2 == [t EXCEPT !.is_shard = a, !.buffer = b]
<1>1. Shard(t, U) = t2
  BY DEF Shard, Whole, Sharding
<1>2. /\ \A u \in Units : a[u] = IF u \in U THEN TRUE ELSE t.is_shard[u]
      /\ \A u \in Units : b[u] = IF u \in U /\ ~t.is_shard[u] THEN Freed ELSE t.buffer[u]
  BY DEF Replaced, Fresh
<1> HIDE DEF a, b
<1>3. DOMAIN t2 = DOMAIN t /\ t2.is_shard = a /\ t2.buffer = b /\ t2.gather = t.gather
      /\ Steady(t, t2)
  BY DEF Whole, Sharding, Steady
<1> HIDE DEF t2
<1>4. Unsharded(t2) = Unsharded(t) \ U
  BY <1>2, <1>3 DEF Unsharded
<1>5. Gathering(t2) = Gathering(t)
  BY <1>3 DEF Gathering
<1>6. Current(t2)
  BY <1>2, <1>3 DEF Current
<1>. QED BY <1>1, <1>3, <1>4, <1>5, <1>6

LEMMA GatherFresh ==
    ASSUME NEW t, Whole(t), Current(t), NEW U, \A u \in U : t.is_shard[u]
    PROVE  LET t2 == Gather(t, U)
           IN  /\ DOMAIN t2 = DOMAIN t /\ Current(t2) /\ Steady(t, t2)
               /\ t2.is_shard = t.is_shard /\ \A u \in U \cap Units : t2.buffer[u] = version
               /\ Unsharded(t2) = Unsharded(t)
               /\ \A u \in Units : t2.gather[u] <=> (t.gather[u] \/ u \in U)
<1> DEFINE V == {u \in U : ~t.gather[u]}
           a == Replaced(t.gather, V, Fresh(TRUE))
           b == Replaced(t.buffer, V, Fresh(version))
           t2 == [t EXCEPT !.gather = a, !.buffer = b]
<1>1. Gather(t, U) = t2
  BY DEF Gather, Whole, Sharding
<1>2. /\ \A u \in Units : a[u] = IF u \in V THEN TRUE ELSE t.gather[u]
      /\ \A u \in Units : b[u] = IF u \in V THEN version ELSE t.buffer[u]
  BY DEF Replaced, Fresh
<1> HIDE DEF a, b
<1>3. DOMAIN t2 = DOMAIN t /\ t2.is_shard = t.is_shard /\ t2.buffer = b /\ t2.gather = a
      /\ Steady(t, t2)
  BY DEF Whole, Sharding, Steady
<1> HIDE DEF t2
<1>4. Unsharded(t2) = Unsharded(t)
  BY <1>3 DEF Unsharded
<1>5. \A u \in Units : t2.gather[u] <=> (t.gather[u] \/ u \in U)
  BY <1>2, <1>3
<1>6. Current(t2)
  BY <1>2, <1>3 DEF Current
<1>7. \A u \in U \cap Units : t2.buffer[u] = version
  BY <1>2, <1>3 DEF Current
<1>. QED BY <1>1, <1>3, <1>4, <1>5, <1>6, <1>7

LEMMA PrefetchFresh ==
    ASSUME NEW t, Whole(t), Current(t), NEW U
    PROVE  LET t2 == Prefetch(t, U)
           IN  /\ DOMAIN t2 = DOMAIN t /\ Current(t2) /\ Steady(t, t2)
               /\ Unsharded(t2) = Unsharded(t) /\ Gathering(t2) \subseteq Gathering(t) \cup U
<1> DEFINE V == {u \in U : t.is_shard[u]}
           t2 == Gather(t, V)
<1>1. Prefetch(t, U) = t2 /\ V \subseteq U /\ \A u \in V : t.is_shard[u]
  BY DEF Prefetch
<1> HIDE DEF V
<1>2. /\ DOMAIN t2 = DOMAIN t /\ Current(t2) /\ Steady(t, t2)
      /\ Unsharded(t2) = Unsharded(t)
      /\ \A u \in Units : t2.gather[u] <=> (t.gather[u] \/ u \in V)
  BY <1>1, GatherFresh
<1> HIDE DEF t2
<1>3. Gathering(t2) \subseteq Gathering(t) \cup U
  BY <1>1, <1>2 DEF Gathering
<1>. QED BY <1>1, <1>2, <1>3

LEMMA UnshardFresh ==
    ASSUME NEW t, Whole(t), Current(t), NEW U \in SUBSET Units
    PROVE  LET t2 == Unshard(t, U)
           IN  /\ DOMAIN t2 = DOMAIN t /\ Current(t2) /\ Steady(t, t2)
               /\ Unsharded(t2) = Unsharded(t) \cup U /\ Gathering(t2) \subseteq Gathering(t) \ U
<1> DEFINE V == {u \in U : t.is_shard[u]}
           g == Gather(t, V)
           a == Replaced(g.gather, V, Fresh(FALSE))
           b == Replaced(g.is_shard, V, Fresh(FALSE))
           t2 == [g EXCEPT !.gather = a, !.is_shard = b]
<1>1. V \subseteq U /\ \A u \in V : t.is_shard[u]
  OBVIOUS
<1>2. /\ DOMAIN g = DOMAIN t /\ Current(g) /\ Steady(t, g)
      /\ g.is_shard = t.is_shard /\ \A u \in V \cap Units : g.buffer[u] = version
      /\ \A u \in Units : g.gather[u] <=> (t.gather[u] \/ u \in V)
  <2> HIDE DEF V
  <2>. QED BY <1>1, GatherFresh
<1> HIDE DEF g
<1>3. Unshard(t, U) = t2
  BY <1>2 DEF Unshard, Whole, Sharding, g
<1>4. /\ \A u \in Units : a[u] = IF u \in V THEN FALSE ELSE g.gather[u]
      /\ \A u \in Units : b[u] = IF u \in V THEN FALSE ELSE g.is_shard[u]
  BY DEF Replaced, Fresh
<1> HIDE DEF a, b
<1>5. DOMAIN t2 = DOMAIN g /\ t2.is_shard = b /\ t2.buffer = g.buffer /\ t2.gather = a
      /\ Steady(g, t2)
  BY <1>2 DEF Whole, Sharding, Steady
<1> HIDE DEF t2
<1>6. Unsharded(t2) = Unsharded(t) \cup U
  BY <1>2, <1>4, <1>5 DEF Unsharded
<1>7. Gathering(t2) \subseteq Gathering(t) \ U
  <2>1. ASSUME NEW u \in Units, t2.gather[u] PROVE t.gather[u] /\ u \notin U
    <3>1. u \notin V /\ t.gather[u]
      BY <1>2, <1>4, <1>5, <2>1
    <3>2. t.is_shard[u]
      BY <3>1 DEF Current
    <3>. QED BY <3>1, <3>2
  <2>. QED BY <2>1 DEF Gathering
<1>8. Current(t2)
  BY <1>2, <1>4, <1>5 DEF Current
<1>9. Steady(t, t2)
  BY <1>2, <1>5 DEF Steady
<1>. QED BY <1>2, <1>3, <1>5, <1>6, <1>7, <1>8, <1>9

LEMMA SameOn ==
    ASSUME NEW t, NEW t1, NEW t2, SameSharding(t, t1), SameSharding(t1, t2)
    PROVE  SameSharding(t, t2)
  BY DEF SameSharding

LEMMA ReductionsSame ==
    ASSUME NEW t, Sharding \subseteq DOMAIN t
    PROVE  /\ SameSharding(t, WaitGroups(t)) /\ SameSharding(t, WaitParams(t))
           /\ SameSharding(t, SplitAllReduce(t)) /\ SameSharding(t, ApplyReduced(t))
           /\ SameSharding(t, SaveAllReduce(t)) /\ SameSharding(t, AdvanceFused(t))
           /\ \A u : SameSharding(t, IssueReduceScatter(t, u)) /\ SameSharding(t, IssueFused(t, u))
           /\ \A q : SameSharding(t, IssueAllReduce(t, q))
<1>1. \A U : SameSharding(t, ClearSource(t, U))
  BY DEF SameSharding, Sharding, ClearSource
<1>2. SameSharding(t, WaitGroups(t))
  <2> DEFINE d == ClearSource(t, ToSet(t.pre_all_reduce_groups))
  <2>1. SameSharding(t, d)
    BY <1>1
  <2>2. WaitGroups(t) = [d EXCEPT !.rs = Emptied(@, ToSet(t.pre_all_reduce_groups)),
                                  !.pre_all_reduce_groups = <<>>]
    BY DEF WaitGroups
  <2> HIDE DEF d
  <2>. QED BY <2>1, <2>2 DEF SameSharding, Sharding
<1>3. SameSharding(t, WaitParams(t))
  <2> DEFINE U == ToSet(t.pre_reduce_scatter_params)
             d == ClearSource(t, U)
             e == [d EXCEPT !.pre_reduce_scatter_params = <<>>]
  <2>1. SameSharding(t, d)
    BY <1>1
  <2>2. WaitParams(t) =
          IF t.requires_all_reduce
          THEN [e EXCEPT !.rs = Added(@, U, t.partial), !.partial = Emptied(@, U)]
          ELSE [e EXCEPT !.partial = Added(@, U, t.rs), !.rs = Emptied(@, U)]
    BY DEF WaitParams
  <2> HIDE DEF d, U
  <2>3. SameSharding(t, e)
    BY <2>1 DEF SameSharding, Sharding
  <2> HIDE DEF e
  <2>. QED BY <2>2, <2>3 DEF SameSharding, Sharding
<1>4. SameSharding(t, SplitAllReduce(t))
  BY DEF SameSharding, Sharding, SplitAllReduce
<1>5. SameSharding(t, ApplyReduced(t))
  <2> DEFINE reduction == [u \in Units |-> IF t.ar[u] # EmptyBag THEN Tagged(t.ar[u], "replicas")
                                           ELSE Tagged(t.rs[u], "shards")]
             U == {u \in Units : reduction[u] # EmptyBag}
             d == ClearSource(t, U)
  <2>1. SameSharding(t, d)
    BY <1>1
  <2>2. ApplyReduced(t) = [d EXCEPT !.main = Added(@, U, reduction),
                                    !.ar = Emptied(@, U), !.rs = Emptied(@, U)]
    BY DEF ApplyReduced
  <2> HIDE DEF d, U, reduction
  <2>. QED BY <2>1, <2>2 DEF SameSharding, Sharding
<1>6. SameSharding(t, SaveAllReduce(t))
  BY DEF SameSharding, Sharding, SaveAllReduce
<1>7. SameSharding(t, AdvanceFused(t))
  BY DEF SameSharding, Sharding, AdvanceFused
<1>8. ASSUME NEW u PROVE SameSharding(t, IssueReduceScatter(t, u))
  BY DEF SameSharding, Sharding, IssueReduceScatter
<1>9. ASSUME NEW u PROVE SameSharding(t, IssueFused(t, u))
  <2> DEFINE e == [t EXCEPT !.bucket[u] = Source(t, u), !.pre_param_group = u]
             d == ClearSource(e, {u})
  <2>1. SameSharding(t, e)
    BY DEF SameSharding, Sharding
  <2>2. IssueFused(t, u) = t \/ IssueFused(t, u) = d
    BY DEF IssueFused
  <2> HIDE DEF e
  <2>3. SameSharding(e, d)
    BY <2>1 DEF SameSharding, Sharding, ClearSource
  <2> HIDE DEF d
  <2>. QED BY <2>1, <2>2, <2>3, SameOn DEF SameSharding
<1>10. ASSUME NEW q PROVE SameSharding(t, IssueAllReduce(t, q))
  BY DEF SameSharding, Sharding, IssueAllReduce
<1>. QED BY <1>2, <1>3, <1>4, <1>5, <1>6, <1>7, <1>8, <1>9, <1>10

\* What the hooks that end a backward do to the parameters of the units of V.
Swept(post, t, t2, V) ==
  /\ DOMAIN t2 = DOMAIN t /\ Whole(t2) /\ Current(t2) /\ Gathering(t2) = Gathering(t)
  /\ t2.root_bp_state = t.root_bp_state
  /\ t2.reshard_after_backward = t.reshard_after_backward
  /\ Unsharded(t2) \subseteq Unsharded(t)
  /\ \A u \in Unsharded(t) :
       u \in Unsharded(t2) \/ (u \in V /\ t.reshard_after_backward)
  /\ \A u \in Units : t2.scheduler_state[u] = IF u \in V /\ ~post THEN "BACKWARD"
                                              ELSE t.scheduler_state[u]
  /\ t.reshard_after_backward =>
       \A u \in V : u \in Unsharded(t2) => ~post /\ t.scheduler_state[u] = "BACKWARD"

LEMMA SweptSame ==
    ASSUME NEW post \in BOOLEAN, NEW t, NEW t2, NEW t3, NEW V, Swept(post, t, t2, V),
           SameSharding(t2, t3)
    PROVE  Swept(post, t, t3, V)
<1>1. /\ DOMAIN t3 = DOMAIN t2 /\ t3.is_shard = t2.is_shard /\ t3.gather = t2.gather
      /\ t3.buffer = t2.buffer /\ t3.scheduler_state = t2.scheduler_state
      /\ t3.root_bp_state = t2.root_bp_state
      /\ t3.reshard_after_backward = t2.reshard_after_backward
  BY DEF SameSharding, Sharding
<1>2. Whole(t3) /\ Current(t3) /\ Gathering(t3) = Gathering(t2) /\ Unsharded(t3) = Unsharded(t2)
  BY <1>1 DEF Swept, Whole, Current, Gathering, Unsharded
<1>. QED BY <1>1, <1>2 DEF Swept

LEMMA ReduceSame ==
    ASSUME NEW t, Sharding \subseteq DOMAIN t, NEW u
    PROVE  SameSharding(t, Reduce(t, u))
<1> DEFINE a1 == SaveAllReduce(t)
           a2 == AdvanceFused(a1)
           a3 == IssueFused(a2, u)
           b1 == WaitGroups(t)
           b2 == WaitParams(b1)
           b3 == IssueReduceScatter(b2, u)
           b4 == IssueAllReduce(b3, t.pre_all_reduce_groups)
<1>1. Reduce(t, u) = a3 \/ Reduce(t, u) = b4
  BY DEF Reduce
<1>2. SameSharding(t, a1) /\ SameSharding(t, b1)
  BY ReductionsSame
<1> HIDE DEF a1, b1
<1>3. Sharding \subseteq DOMAIN a1 /\ Sharding \subseteq DOMAIN b1
  BY <1>2 DEF SameSharding
<1>4. SameSharding(t, a2) /\ SameSharding(t, b2)
  <2>1. SameSharding(a1, a2) /\ SameSharding(b1, b2)
    BY <1>3, ReductionsSame
  <2> HIDE DEF a2, b2
  <2>. QED BY <1>2, <2>1, SameOn
<1> HIDE DEF a2, b2
<1>5. Sharding \subseteq DOMAIN a2 /\ Sharding \subseteq DOMAIN b2
  BY <1>4 DEF SameSharding
<1>6. SameSharding(t, a3) /\ SameSharding(t, b3)
  <2>1. SameSharding(a2, a3)
    BY <1>5, ReductionsSame
  <2>2. SameSharding(b2, b3)
    BY <1>5, ReductionsSame
  <2> HIDE DEF a3, b3
  <2>. QED BY <1>4, <2>1, <2>2, SameOn
<1> HIDE DEF a3, b3
<1>7. Sharding \subseteq DOMAIN b3
  BY <1>6 DEF SameSharding
<1>8. SameSharding(b3, b4)
  BY <1>7, ReductionsSame
<1> HIDE DEF b4
<1>. QED BY <1>1, <1>6, <1>8, SameOn

LEMMA PostBackwardFresh ==
    ASSUME NEW t, Whole(t), Current(t), NEW u \in Units
    PROVE  Swept(TRUE, t, PostBackward(t, u), {u})
<1> DEFINE d == [t EXCEPT !.acc[u] = @ (+) t.grad[u], !.grad[u] = EmptyBag]
           g == IF t.acc[u] # EmptyBag THEN d ELSE t
           h == Shard(g, {u})
           p == IF t.reshard_after_backward THEN h ELSE g
           r == Reduce(p, u)
           e == [p EXCEPT !.acc[u] = @ (+) p.grad[u], !.grad[u] = EmptyBag]
<1>1. PostBackward(t, u) = IF t.reduce_grads THEN r ELSE e
  BY DEF PostBackward
<1>2. SameSharding(t, g)
  <2>1. SameSharding(t, d)
    BY DEF SameSharding, Sharding, Whole
  <2> HIDE DEF d
  <2>. QED BY <2>1 DEF SameSharding
<1> HIDE DEF g
<1>3. Swept(TRUE, t, g, {}) /\ Whole(g) /\ Current(g)
  <2>1. Swept(TRUE, t, t, {})
    BY DEF Swept
  <2>2. Swept(TRUE, t, g, {})
    BY <1>2, <2>1, SweptSame
  <2>. QED BY <2>2 DEF Swept
<1>4. Swept(TRUE, t, p, {u})
  <2>1. CASE ~t.reshard_after_backward
    <3>1. p = g
      BY <2>1
    <3>. QED BY <1>3, <2>1, <3>1 DEF Swept
  <2>2. CASE t.reshard_after_backward
    <3>1. p = h
      BY <2>2
    <3>2. /\ DOMAIN h = DOMAIN g /\ Current(h) /\ Steady(g, h)
          /\ Unsharded(h) = Unsharded(g) \ {u} /\ Gathering(h) = Gathering(g)
      BY <1>3, ShardFresh
    <3> HIDE DEF h, p
    <3>3. Whole(p)
      BY <1>3, <3>1, <3>2 DEF Whole, Steady
    <3>. QED BY <1>3, <2>2, <3>1, <3>2, <3>3 DEF Swept, Steady
  <2>. QED BY <2>1, <2>2
<1> HIDE DEF p
<1>5. Sharding \subseteq DOMAIN p
  BY <1>4 DEF Swept, Whole
<1>6. SameSharding(p, r) /\ SameSharding(p, e)
  <2>1. SameSharding(p, r)
    BY <1>5, ReduceSame
  <2>2. SameSharding(p, e)
    BY <1>5 DEF SameSharding, Sharding
  <2>. QED BY <2>1, <2>2
<1> HIDE DEF r, e
<1>7. Swept(TRUE, t, r, {u}) /\ Swept(TRUE, t, e, {u})
  BY <1>4, <1>6, SweptSame
<1>. QED BY <1>1, <1>7

LEMMA BackwardHookFresh ==
    ASSUME NEW t, Whole(t), Current(t), NEW u \in Units
    PROVE  Swept(FALSE, t, BackwardHook(t, u), {u})
<1> DEFINE d == [t EXCEPT !.scheduler_state[u] = "BACKWARD"]
           p == PostBackward(d, u)
<1>1. CASE t.scheduler_state[u] = "BACKWARD"
  <2>1. BackwardHook(t, u) = t
    BY <1>1 DEF BackwardHook
  <2>2. Swept(FALSE, t, t, {u})
    BY <1>1 DEF Swept
  <2>. QED BY <2>1, <2>2
<1>2. CASE t.scheduler_state[u] # "BACKWARD"
  <2>1. BackwardHook(t, u) = p
    BY <1>2 DEF BackwardHook
  <2>2. /\ DOMAIN d = DOMAIN t /\ d.is_shard = t.is_shard /\ d.gather = t.gather
        /\ d.buffer = t.buffer /\ d.root_bp_state = t.root_bp_state
        /\ d.reshard_after_backward = t.reshard_after_backward
        /\ DOMAIN d.scheduler_state = Units
        /\ \A v \in Units : d.scheduler_state[v] = IF v = u THEN "BACKWARD"
                                                   ELSE t.scheduler_state[v]
    BY DEF Whole, Sharding
  <2> HIDE DEF d
  <2>3. Whole(d) /\ Current(d) /\ Unsharded(d) = Unsharded(t) /\ Gathering(d) = Gathering(t)
    BY <2>2 DEF Whole, Current, Unsharded, Gathering
  <2>4. Swept(TRUE, d, p, {u})
    BY <2>3, PostBackwardFresh
  <2> HIDE DEF p
  <2>5. Swept(FALSE, t, p, {u})
    BY <1>2, <2>2, <2>3, <2>4 DEF Swept
  <2>. QED BY <2>1, <2>5
<1>. QED BY <1>1, <1>2

LEMMA SweptOn ==
    ASSUME NEW post \in BOOLEAN, NEW t, NEW t1, NEW t2, NEW V, NEW u, u \notin V,
           Swept(post, t, t1, V), Swept(post, t1, t2, {u})
    PROVE  Swept(post, t, t2, V \cup {u})
<1>1. \A v \in Units : t2.scheduler_state[v] = IF v \in V \cup {u} /\ ~post THEN "BACKWARD"
                                              ELSE t.scheduler_state[v]
  BY DEF Swept
<1>2. t.reshard_after_backward =>
        \A v \in V \cup {u} : v \in Unsharded(t2) => ~post /\ t.scheduler_state[v] = "BACKWARD"
  <2> SUFFICES ASSUME t.reshard_after_backward, NEW v \in V \cup {u}, v \in Unsharded(t2)
               PROVE  ~post /\ t.scheduler_state[v] = "BACKWARD"
    OBVIOUS
  <2>1. v \in Unsharded(t1) /\ v \in Units
    BY DEF Swept, Unsharded
  <2>2. CASE v \in V
    BY <2>1, <2>2 DEF Swept
  <2>3. CASE v = u
    <3>1. ~post /\ t1.scheduler_state[v] = "BACKWARD"
      BY <2>1, <2>3 DEF Swept
    <3>2. v \notin V
      BY <2>3
    <3>. QED BY <2>1, <3>1, <3>2 DEF Swept
  <2>. QED BY <2>2, <2>3
<1>3. \A v \in Unsharded(t) :
        v \in Unsharded(t2) \/ (v \in V \cup {u} /\ t.reshard_after_backward)
  BY DEF Swept
<1>. QED BY <1>1, <1>2, <1>3 DEF Swept

LEMMA FoldFresh ==
    ASSUME NEW post \in BOOLEAN, NEW st, Whole(st), Current(st), NEW it,
           IsFold(it, post, st, AllUnits)
    PROVE  Swept(post, st, it[DOMAIN AllUnits], Units)
<1> DEFINE N == NKids + 1
           S == 1 .. N
           At(p) == {AllUnits[i] : i \in p}
           G == {n \in Nat : \A p \in SUBSET S :
                               Cardinality(p) = n => Swept(post, st, it[p], At(p))}
<1>1. /\ N \in Nat /\ DOMAIN AllUnits = S /\ \A i \in S : AllUnits[i] \in Units
      /\ \A i, j \in S : i # j => AllUnits[i] # AllUnits[j]
      /\ \A u \in Units : u + 1 \in S /\ AllUnits[u + 1] = u
  BY ShardedAssumption DEF AllUnits, Units
<1>2. At(S) = Units
  BY <1>1
<1>3. \A p \in SUBSET S :
         it[p] = IF p = {} THEN st ELSE Hook(post, it[p \ {Top(p)}], AllUnits[Top(p)])
  BY <1>1 DEF IsFold
<1> HIDE DEF N
<1>4. \A p \in SUBSET S : IsFiniteSet(p) /\ Cardinality(p) \in Nat
  BY <1>1, PlacesFinite
<1>5. 0 \in G
  <2>1. \A p \in SUBSET S : Cardinality(p) = 0 => p = {}
    BY <1>4, FS_EmptySet
  <2>2. it[{}] = st
    BY <1>3
  <2>3. Swept(post, st, st, {}) /\ At({}) = {}
    BY DEF Swept
  <2> HIDE DEF At
  <2>. QED BY <2>1, <2>2, <2>3
<1>6. ASSUME NEW n \in Nat, n \in G PROVE n + 1 \in G
  <2> HIDE DEF At
  <2> SUFFICES ASSUME NEW p \in SUBSET S, Cardinality(p) = n + 1
               PROVE  Swept(post, st, it[p], At(p))
    OBVIOUS
  <2>0. \A q \in SUBSET S : Cardinality(q) = n => Swept(post, st, it[q], At(q))
    BY <1>6
  <2> HIDE DEF G
  <2>1. p # {}
    <3>1. Cardinality({}) = 0
      BY FS_EmptySet
    <3>2. n + 1 # 0
      OBVIOUS
    <3>. QED BY <3>1, <3>2
  <2>2. /\ Top(p) \in p /\ Cardinality(p) \in Nat
        /\ Cardinality(p \ {Top(p)}) = Cardinality(p) - 1
    BY <1>1, <2>1, TopOut
  <2>3. Cardinality(p \ {Top(p)}) = n /\ p \ {Top(p)} \in SUBSET S
    <3>1. n + 1 - 1 = n
      OBVIOUS
    <3>2. Cardinality(p \ {Top(p)}) = n + 1 - 1
      BY <2>2
    <3>. QED BY <3>1, <3>2
  <2> DEFINE o == p \ {Top(p)}
             a == it[o]
             v == AllUnits[Top(p)]
             U == At(o)
             t2 == Hook(post, a, v)
  <2>4. Swept(post, st, a, U)
    BY <2>0, <2>3
  <2>5. it[p] = t2
    BY <1>3, <2>1
  <2>6. v \in Units /\ v \notin U /\ At(p) = U \cup {v}
    <3>1. Top(p) \in S /\ p = o \cup {Top(p)} /\ Top(p) \notin o /\ o \subseteq S
      BY <2>2
    <3>2. v \in Units
      BY <1>1, <3>1
    <3>3. \A i \in o : AllUnits[i] # v
      BY <1>1, <3>1
    <3>4. v \notin U
      BY <3>3 DEF At
    <3> HIDE DEF o
    <3>5. At(p) = U \cup {v}
      BY <3>1 DEF At
    <3>. QED BY <3>2, <3>4, <3>5
  <2> HIDE DEF a, v, U, o
  <2>7. Whole(a) /\ Current(a)
    BY <2>4 DEF Swept
  <2>8. Swept(post, a, t2, {v})
    BY <2>6, <2>7, PostBackwardFresh, BackwardHookFresh DEF Hook
  <2> HIDE DEF t2
  <2>9. Swept(post, st, t2, U \cup {v})
    BY <2>4, <2>6, <2>8, SweptOn
  <2>. QED BY <2>5, <2>6, <2>9
<1>7. Nat \subseteq G
  <2> HIDE DEF G
  <2>. QED BY <1>5, <1>6, CountUp
<1>8. Cardinality(S) \in G /\ S \in SUBSET S
  BY <1>4, <1>7
<1>9. Swept(post, st, it[S], At(S))
  <2> HIDE DEF At
  <2>. QED BY <1>8
<1>. QED
  BY <1>1, <1>2, <1>9

\* Both loops over all units, and the root's hook.
LEMMA LoopsFresh ==
    ASSUME NEW t, Whole(t), Current(t)
    PROVE  /\ Swept(FALSE, t, FoldLeft(BackwardHook, t, AllUnits), Units)
           /\ Swept(TRUE, t, FoldLeft(PostBackward, t, AllUnits), Units)
<1>1. NKids + 1 \in Nat /\ DOMAIN AllUnits = 1 .. NKids + 1
  BY ShardedAssumption DEF AllUnits
<1>2. (\E it : IsFold(it, FALSE, t, AllUnits)) /\ (\E it : IsFold(it, TRUE, t, AllUnits))
  BY <1>1, FoldExists
<1>3. PICK jt : IsFold(jt, FALSE, t, AllUnits)
                /\ FoldLeft(BackwardHook, t, AllUnits) = jt[DOMAIN AllUnits]
  BY <1>2, FoldUnfolds
<1>4. PICK kt : IsFold(kt, TRUE, t, AllUnits)
                /\ FoldLeft(PostBackward, t, AllUnits) = kt[DOMAIN AllUnits]
  BY <1>2, FoldUnfolds
<1>5. Swept(FALSE, t, jt[DOMAIN AllUnits], Units)
  BY <1>3, FoldFresh
<1>6. Swept(TRUE, t, kt[DOMAIN AllUnits], Units)
  BY <1>4, FoldFresh
<1>. QED
  BY <1>3, <1>4, <1>5, <1>6

LEMMA RootHookFresh ==
    ASSUME NEW t, Whole(t), Current(t)
    PROVE  LET t2 == RootHook(t)
           IN  /\ Current(t2) /\ Gathering(t2) = Gathering(t) /\ ~t2.root_bp_state
               /\ t2.reshard_after_backward = t.reshard_after_backward
               /\ Unsharded(t2) \subseteq Unsharded(t)
               /\ \A u \in Units : t2.scheduler_state[u] = "BACKWARD"
               /\ t.reshard_after_backward =>
                    \A u \in Unsharded(t2) : t.scheduler_state[u] = "BACKWARD"
               /\ ~t.reshard_after_backward => Unsharded(t2) = Unsharded(t)
<1> DEFINE t0 == FoldLeft(BackwardHook, t, AllUnits)
           t1 == [t0 EXCEPT !.root_bp_state = FALSE]
           a1 == SaveAllReduce(t1)
           a2 == AdvanceFused(a1)
           a3 == SaveAllReduce(a2)
           q == a3.pre_all_reduce_groups
           b1 == WaitGroups(a3)
           b2 == WaitParams(b1)
           b3 == IssueAllReduce(b2, q)
           b4 == SplitAllReduce(b3)
           c == ApplyReduced(b4)
<1>1. RootHook(t) = c
  BY DEF RootHook, DrainParams, DrainFused
<1>2. Swept(FALSE, t, t0, Units)
  BY LoopsFresh
<1> HIDE DEF t0
<1>3. /\ DOMAIN t1 = DOMAIN t0 /\ t1.is_shard = t0.is_shard /\ t1.gather = t0.gather
      /\ t1.buffer = t0.buffer /\ t1.scheduler_state = t0.scheduler_state
      /\ t1.root_bp_state = FALSE /\ t1.reshard_after_backward = t0.reshard_after_backward
      /\ Sharding \subseteq DOMAIN t1
  BY <1>2 DEF Swept, Whole, Sharding
<1> HIDE DEF t1
<1>4. SameSharding(t1, a1)
  BY <1>3, ReductionsSame
<1> HIDE DEF a1
<1>5. SameSharding(t1, a2)
  BY <1>3, <1>4, ReductionsSame, SameOn DEF SameSharding
<1> HIDE DEF a2
<1>6. SameSharding(t1, a3)
  BY <1>3, <1>5, ReductionsSame, SameOn DEF SameSharding
<1> HIDE DEF a3, q
<1>7. SameSharding(t1, b1)
  BY <1>3, <1>6, ReductionsSame, SameOn DEF SameSharding
<1> HIDE DEF b1
<1>8. SameSharding(t1, b2)
  BY <1>3, <1>7, ReductionsSame, SameOn DEF SameSharding
<1> HIDE DEF b2
<1>9. SameSharding(t1, b3)
  BY <1>3, <1>8, ReductionsSame, SameOn DEF SameSharding
<1> HIDE DEF b3
<1>10. SameSharding(t1, b4)
  BY <1>3, <1>9, ReductionsSame, SameOn DEF SameSharding
<1> HIDE DEF b4
<1>11. SameSharding(t1, c)
  BY <1>3, <1>10, ReductionsSame, SameOn DEF SameSharding
<1> HIDE DEF c
<1>12. /\ c.is_shard = t0.is_shard /\ c.gather = t0.gather /\ c.buffer = t0.buffer
       /\ c.scheduler_state = t0.scheduler_state /\ c.root_bp_state = FALSE
       /\ c.reshard_after_backward = t0.reshard_after_backward
  BY <1>3, <1>11 DEF SameSharding, Sharding
<1>13. Current(c) /\ Gathering(c) = Gathering(t) /\ Unsharded(c) = Unsharded(t0)
  BY <1>2, <1>12 DEF Swept, Current, Gathering, Unsharded
<1>14. /\ Unsharded(c) \subseteq Unsharded(t)
       /\ \A u \in Units : c.scheduler_state[u] = "BACKWARD"
       /\ c.reshard_after_backward = t.reshard_after_backward
  BY <1>2, <1>12, <1>13 DEF Swept
<1>15. Unsharded(c) \subseteq Units
  BY DEF Unsharded
<1>16. t.reshard_after_backward => \A u \in Unsharded(c) : t.scheduler_state[u] = "BACKWARD"
  BY <1>2, <1>13, <1>15 DEF Swept
<1>17. ~t.reshard_after_backward => Unsharded(c) = Unsharded(t)
  BY <1>2, <1>13 DEF Swept
<1>. QED BY <1>1, <1>12, <1>13, <1>14, <1>16, <1>17

-----------------------------------------------------------------------------
(***************************************************************************)
(* The inductive invariant: what holds of the units at any time, and what  *)
(* a pass that is at rest, goes forward or goes backward adds to it.       *)
(***************************************************************************)
\* A unit prepared for its backward is gathered, and stays so until its hook.
Prepped(t) == \A u \in Units :
  t.scheduler_state[u] = "PRE_BACKWARD" => t.root_bp_state /\ u \in Unsharded(t)
Resharded(t) ==
  ~cfg.pipeline /\ (~cfg.keep \/ bwd = NMicro) =>
    \A u \in Unsharded(t) : t.scheduler_state[u] # "BACKWARD"
\* The flags of the passes under way, and what the configuration promises: a
\* unit some micro-batch leaves out is prefetched by none and resharded by all.
NoStrays(c) == c.skip => c.forward_prefetch = 0 /\ c.backward_prefetch = 0 /\ ~c.keep
Books(t) ==
  /\ NoStrays(cfg)
  /\ ~cfg.pipeline /\ fwd > 0 /\ (~cfg.keep \/ fwd = NMicro) => t.reshard_after_backward
  /\ cfg.pipeline /\ fwd > 0 /\ ~reduced => ~t.reshard_after_backward
  /\ ~cfg.skip => \A i \in 1 .. Len(used) : used[i] = Kids
  /\ ~cfg.pipeline => fwd <= bwd + 1
Staying(t) == cfg.pipeline => Unsharded(t) = Units

\* A unit the micro-batch went through: what its backward may count on.
Ran(t, u) ==
  t.scheduler_state[u] = "FORWARD" /\ (~cfg.reshard_after_forward => u \in Unsharded(t))
AtRest(t) ==
  /\ ~t.root_bp_state /\ Gathering(t) = {}
  /\ ~cfg.pipeline /\ bwd < fwd => \A u \in used[1] \cup {Root} : Ran(t, u)
  /\ ~cfg.pipeline /\ bwd = NMicro => \A u \in Units : t.scheduler_state[u] = "BACKWARD"
  /\ reduced => Unsharded(t) = {}
Forwarding(q, t) ==
  /\ Left(ForwardKind, q, Unsharded(t)) /\ Staying(t)
  /\ ~t.root_bp_state /\ bwd < NMicro /\ ~reduced
  /\ \A u \in Gathering(t) : Among("forward_pre", u, q)
  /\ ~cfg.pipeline /\ bwd < fwd =>
       \A u \in used[1] \cup {Root} : Among("forward", u, q) \/ Ran(t, u)
Backing(q, t) ==
  /\ Left(BackwardKind, q, Unsharded(t)) /\ Staying(t)
  /\ bwd > 0 /\ ~reduced /\ (~cfg.pipeline => bwd = fwd)
  /\ t.root_bp_state \/ q[1].hook = "backward_pre"
  /\ \A u \in Gathering(t) : Among("backward_pre", u, q)
Passing(q, t) ==
  \/ q = <<>> /\ AtRest(t)
  \/ q # <<>> /\ ~Closes(q) /\ Forwarding(q, t)
  \/ Closes(q) /\ Backing(q, t)
FreshInv == Current(s) /\ Prepped(s) /\ Resharded(s) /\ Books(s) /\ Passing(todo, s)

LEMMA WholeState ==
    ASSUME GradInv
    PROVE  Whole(s) /\ s.root_bp_state \in BOOLEAN /\ s.reshard_after_backward \in BOOLEAN
  BY DEF GradInv, Good, States, Whole, Sharding

LEMMA CallsLeft ==
    ASSUME GradInv, todo # <<>>
    PROVE  /\ todo \in Seq(Calls) /\ Tail(todo) \in Seq(Calls) /\ Head(todo) \in Calls
           /\ todo[1] = Head(todo)
           /\ Closes(todo) /\ Head(todo).hook # "root_backward" => Closes(Tail(todo))
<1>1. Orderly(todo, Now, Units, Units)
  BY DEF GradInv, Ahead
<1>2. todo \in Seq(Calls)
  BY <1>1 DEF Orderly
<1>. QED BY <1>1, <1>2, OrderlyTail, TailIs

LEMMA Numbers ==
    ASSUME StepInv
    PROVE  /\ fwd \in Nat /\ bwd \in Nat /\ bwd <= fwd /\ fwd <= NMicro /\ NMicro \in Nat \ {0}
           /\ used \in Seq(SUBSET Kids) /\ Len(used) = fwd - bwd
           /\ reduced => cfg.pipeline /\ bwd = NMicro /\ todo = <<>>
           /\ Kids \subseteq Units /\ Root \in Units /\ Units = Kids \cup {Root}
  BY ShardedAssumption DEF StepInv, Tally, Kids, Units, Root

LEMMA FirstUsed ==
    ASSUME StepInv, bwd < fwd
    PROVE  used[1] \in SUBSET Kids /\ used # <<>> /\ Head(used) = used[1]
<1>1. used \in Seq(SUBSET Kids) /\ Len(used) \in Nat /\ Len(used) > 0
  BY Numbers
<1>2. 1 \in 1 .. Len(used)
  BY <1>1
<1>3. used # <<>>
  BY <1>1, EmptySeq
<1>. QED BY <1>1, <1>2, <1>3, ElementOfSeq, HeadTailProperties

LEMMA Nowhere == ~Closes(<<>>) /\ \A hook, u : ~Among(hook, u, <<>>)
  BY EmptySeq DEF Closes, Among

\* A hook keeps the step's flags and counts: the rest is the state of the units.
LEMMA HookFresh ==
    ASSUME FreshInv, UNCHANGED <<cfg, version, fwd, bwd, used, reduced>>,
           Current(s'), Prepped(s'), Resharded(s'), Passing(todo', s'),
           s'.reshard_after_backward = s.reshard_after_backward
    PROVE  FreshInv'
<1>1. Current(s)' /\ Resharded(s)'
  BY DEF Current, Resharded
<1>2. Prepped(s)'
  BY DEF Prepped
<1>3. Books(s)'
  BY DEF FreshInv, Books
<1>4. Passing(todo, s)'
  BY DEF Passing, AtRest, Forwarding, Backing, Left, Cells, ForwardCells, BackwardCells,
         Staying, Ran
<1>. QED BY <1>1, <1>2, <1>3, <1>4 DEF FreshInv

\* A forward goes on, or has ended.
LEMMA ForwardGoesOn ==
    ASSUME StepInv, NEW q \in Seq(Calls), NEW t, Forwarding(q, t)
    PROVE  Passing(q, t)
<1>1. CASE q = <<>>
  <2>1. Gathering(t) = {}
    BY <1>1, Nowhere DEF Forwarding
  <2>2. bwd # NMicro /\ ~reduced
    BY Numbers DEF Forwarding
  <2>3. ~t.root_bp_state
        /\ (~cfg.pipeline /\ bwd < fwd => \A u \in used[1] \cup {Root} : Ran(t, u))
    BY <1>1, Nowhere DEF Forwarding
  <2>. QED BY <1>1, <2>1, <2>2, <2>3 DEF AtRest, Passing
<1>2. CASE q # <<>>
  <2>1. ~Closes(q)
    <3>1. Len(q) \in Nat
      BY LenProperties
    <3>2. \A i \in 1 .. Len(q) : q[i].hook # "root_backward"
      BY DEF Forwarding, Left, ForwardKind
    <3>. QED BY <3>1, <3>2 DEF Closes
  <2>. QED BY <1>2, <2>1 DEF Passing
<1>. QED BY <1>1, <1>2

LEMMA PhaseOf ==
    ASSUME FreshInv, todo # <<>>
    PROVE  (~Closes(todo) /\ Forwarding(todo, s)) \/ (Closes(todo) /\ Backing(todo, s))
  BY DEF FreshInv, Passing

\* A call of a backward other than its last: what it frees, nothing uses again.
LEMMA BackingOn ==
    ASSUME GradInv, StepInv, FreshInv, todo # <<>>, todo' = Tail(todo),
           UNCHANGED <<cfg, version, fwd, bwd, used, reduced>>,
           Closes(todo), Backing(todo, s), Head(todo).hook # "root_backward",
           Current(s'), Prepped(s'), Resharded(s'), s'.root_bp_state,
           s'.reshard_after_backward = s.reshard_after_backward,
           \A v \in Unsharded(s) :
             \/ v \in Unsharded(s')
             \/ Head(todo).hook = "backward" /\ v = Head(todo).unit /\ ~cfg.pipeline,
           Head(todo).hook \in BackwardKind.opens => Head(todo).unit \in Unsharded(s'),
           \A v \in Gathering(s') : Among("backward_pre", v, Tail(todo))
    PROVE  FreshInv'
<1> DEFINE r == Tail(todo)
<1>1. todo \in Seq(Calls) /\ Closes(r)
  BY CallsLeft
<1>2. Left(BackwardKind, todo, Unsharded(s)) /\ BackwardKind \in Kinds
      /\ "backward" \in BackwardKind.frees
  BY DEF Backing, Kinds, BackwardKind
<1>3. Left(BackwardKind, r, Unsharded(s'))
  BY <1>1, <1>2, LeftTail
<1>4. Staying(s')
  BY DEF Backing, Staying, Unsharded
<1> HIDE DEF r
<1>5. Backing(r, s')
  BY <1>3, <1>4 DEF Backing, r
<1>6. Passing(todo', s')
  BY <1>1, <1>5 DEF Passing, r
<1>. QED BY <1>6, HookFresh

\* The hooks, one by one, in each phase they are called in.
LEMMA ForwardPreFresh ==
    ASSUME GradInv, StepInv, FreshInv, NEW u \in Units, ForwardPreHook(u)
    PROVE  FreshInv'
<1> DEFINE q == todo
           r == Tail(todo)
           a == [s EXCEPT !.scheduler_state[u] = "PRE_FORWARD"]
           b == Unshard(a, {u})
           C == IF s.root_bp_state THEN {} ELSE ForwardCells(u)
           c == Prefetch(b, C)
<1>1. /\ todo # <<>> /\ todo' = r /\ Head(q).hook = "forward_pre" /\ Head(q).unit = u
      /\ UNCHANGED <<cfg, version, fwd, bwd, used, reduced>>
      /\ s' = IF s.scheduler_state[u] = "PRE_BACKWARD" THEN s ELSE c
  BY DEF ForwardPreHook, Running
<1>2. Whole(s) /\ Current(s) /\ Prepped(s) /\ Resharded(s)
  BY WholeState DEF FreshInv
<1>3. q \in Seq(Calls) /\ r \in Seq(Calls) /\ q # <<>> /\ q[1] = Head(q)
  BY <1>1, CallsLeft
<1> HIDE DEF q, r
<1>4. s.scheduler_state[u] # "PRE_BACKWARD" =>
        /\ Current(s') /\ Gathering(s') \subseteq (Gathering(s) \ {u}) \cup C
        /\ Unsharded(s') = Unsharded(s) \cup {u}
        /\ s'.root_bp_state = s.root_bp_state
        /\ s'.reshard_after_backward = s.reshard_after_backward
        /\ \A v \in Units : s'.scheduler_state[v] = IF v = u THEN "PRE_FORWARD"
                                                    ELSE s.scheduler_state[v]
  <2> HAVE s.scheduler_state[u] # "PRE_BACKWARD"
  <2>1. s' = c
    BY <1>1
  <2>2. /\ DOMAIN a = DOMAIN s /\ a.is_shard = s.is_shard /\ a.gather = s.gather
        /\ a.buffer = s.buffer /\ a.root_bp_state = s.root_bp_state
        /\ a.reshard_after_backward = s.reshard_after_backward
        /\ DOMAIN a.scheduler_state = Units
        /\ \A v \in Units : a.scheduler_state[v] = IF v = u THEN "PRE_FORWARD"
                                                   ELSE s.scheduler_state[v]
    BY <1>2 DEF Whole, Sharding
  <2> HIDE DEF a
  <2>3. Whole(a) /\ Current(a) /\ Unsharded(a) = Unsharded(s) /\ Gathering(a) = Gathering(s)
    BY <1>2, <2>2 DEF Whole, Current, Unsharded, Gathering
  <2>4. /\ DOMAIN b = DOMAIN a /\ Current(b) /\ Steady(a, b)
        /\ Unsharded(b) = Unsharded(a) \cup {u} /\ Gathering(b) \subseteq Gathering(a) \ {u}
    <3>1. {u} \in SUBSET Units
      OBVIOUS
    <3>. QED BY <2>3, <3>1, UnshardFresh
  <2> HIDE DEF b
  <2>5. Whole(b)
    BY <2>3, <2>4 DEF Whole, Steady
  <2> HIDE DEF C
  <2>6. /\ Current(c) /\ Steady(b, c) /\ Unsharded(c) = Unsharded(b)
        /\ Gathering(c) \subseteq Gathering(b) \cup C
    BY <2>4, <2>5, PrefetchFresh
  <2> HIDE DEF c
  <2>. QED BY <2>1, <2>2, <2>3, <2>4, <2>6 DEF Steady
<1> HIDE DEF c
<1>5. CASE Forwarding(q, s)
  <2>1. s.scheduler_state[u] # "PRE_BACKWARD"
    BY <1>2, <1>5 DEF Prepped, Forwarding
  <2>2. /\ Current(s') /\ Gathering(s') \subseteq (Gathering(s) \ {u}) \cup C
        /\ Unsharded(s') = Unsharded(s) \cup {u}
        /\ s'.root_bp_state = s.root_bp_state
        /\ s'.reshard_after_backward = s.reshard_after_backward
        /\ \A v \in Units : s'.scheduler_state[v] = IF v = u THEN "PRE_FORWARD"
                                                    ELSE s.scheduler_state[v]
    BY <1>4, <2>1
  <2>3. Prepped(s') /\ Resharded(s')
    BY <1>2, <2>2 DEF Prepped, Resharded, Unsharded
  <2>4. Left(ForwardKind, q, Unsharded(s)) /\ ForwardKind \in Kinds
    BY <1>5 DEF Forwarding, Kinds
  <2>5. Left(ForwardKind, r, Unsharded(s'))
    <3>1. Head(q).unit \in Unsharded(s') /\ \A v \in Unsharded(s) : v \in Unsharded(s')
      BY <1>1, <2>2 DEF q
    <3>2. Left(ForwardKind, Tail(q), Unsharded(s'))
      BY <1>3, <2>4, <3>1, LeftTail
    <3>. QED BY <3>2 DEF q, r
  <2>6. (\A v \in ForwardCells(u) : Among("forward_pre", v, r)) /\ Among("forward", u, r)
    <3>1. /\ \A v \in Cells(ForwardKind, Head(q).unit) : Among("forward_pre", v, Tail(q))
          /\ Among("forward", Head(q).unit, Tail(q))
      BY <1>1, <1>3, <2>4, LeftHead DEF ForwardKind, q
    <3>. QED BY <1>1, <3>1 DEF q, r, Cells, ForwardKind
  <2>7. \A hook, v : Among(hook, v, q) /\ ~(hook = "forward_pre" /\ v = u) => Among(hook, v, r)
    BY <1>1, <1>3, AmongRest DEF q, r
  <2>8. \A v \in Gathering(s') : Among("forward_pre", v, r)
    BY <1>5, <2>2, <2>6, <2>7 DEF Forwarding
  <2>9. Staying(s')
    BY <1>5, <2>2 DEF Forwarding, Staying
  <2>10. ASSUME ~cfg.pipeline, bwd < fwd, NEW v \in used[1] \cup {Root}
         PROVE  Among("forward", v, r) \/ Ran(s', v)
    <3>1. Among("forward", v, q) \/ Ran(s, v)
      BY <1>5, <2>10 DEF Forwarding
    <3>2. v \in Units
      BY <2>10, Numbers, FirstUsed
    <3>. QED BY <2>2, <2>6, <2>7, <3>1, <3>2 DEF Ran
  <2>11. Forwarding(r, s')
    BY <1>5, <2>2, <2>5, <2>8, <2>9, <2>10 DEF Forwarding
  <2>12. Passing(todo', s')
    BY <1>1, <1>3, <2>11, ForwardGoesOn
  <2>. QED BY <1>1, <2>2, <2>3, <2>12, HookFresh
<1>6. CASE Closes(q) /\ Backing(q, s)
  <2>1. s.root_bp_state
    BY <1>1, <1>3, <1>6 DEF Backing, q
  <2>2. /\ Current(s') /\ Gathering(s') \subseteq Gathering(s)
        /\ Unsharded(s) \subseteq Unsharded(s') /\ Unsharded(s') \subseteq Units
        /\ u \in Unsharded(s')
        /\ s'.root_bp_state = s.root_bp_state
        /\ s'.reshard_after_backward = s.reshard_after_backward
        /\ Prepped(s') /\ Resharded(s')
    <3>0. Unsharded(s') \subseteq Units
      BY DEF Unsharded
    <3>1. CASE s.scheduler_state[u] = "PRE_BACKWARD"
      <4>1. s' = s
        BY <1>1, <3>1
      <4>. QED BY <1>2, <3>0, <3>1, <4>1 DEF Prepped
    <3>2. CASE s.scheduler_state[u] # "PRE_BACKWARD"
      <4>1. C = {}
        BY <2>1
      <4>2. Prepped(s') /\ Resharded(s')
        BY <1>2, <1>4, <3>2 DEF Prepped, Resharded, Unsharded
      <4>. QED BY <1>4, <3>0, <3>2, <4>1, <4>2
    <3>. QED BY <3>1, <3>2
  <2>3. \A v : Among("backward_pre", v, q) => Among("backward_pre", v, r)
    BY <1>1, <1>3, AmongRest DEF q, r
  <2>4. \A v \in Gathering(s') : Among("backward_pre", v, r)
    BY <1>6, <2>2, <2>3 DEF Backing
  <2>. QED BY <1>1, <1>6, <2>1, <2>2, <2>4, BackingOn DEF q, r
<1>. QED
  BY <1>1, <1>5, <1>6, PhaseOf DEF q

LEMMA ForwardFresh ==
    ASSUME GradInv, StepInv, FreshInv, NEW u \in Units, ForwardHook(u)
    PROVE  FreshInv'
<1> DEFINE q == todo
           r == Tail(todo)
           a == [s EXCEPT !.scheduler_state[u] = "FORWARD"]
           b == IF cfg.reshard_after_forward THEN Shard(a, {u}) ELSE a
<1>1. /\ todo # <<>> /\ todo' = r /\ Head(q).hook = "forward" /\ Head(q).unit = u
      /\ UNCHANGED <<cfg, version, fwd, bwd, used, reduced>>
      /\ s' = IF s.scheduler_state[u] = "PRE_BACKWARD" \/ s.root_bp_state THEN s ELSE b
  BY DEF ForwardHook, Running
<1>2. Whole(s) /\ Current(s) /\ Prepped(s) /\ Resharded(s)
  BY WholeState DEF FreshInv
<1>3. q \in Seq(Calls) /\ r \in Seq(Calls) /\ q # <<>> /\ q[1] = Head(q)
  BY <1>1, CallsLeft
<1> HIDE DEF q, r
<1>4. CASE Forwarding(q, s)
  <2>1. s' = b
    BY <1>1, <1>2, <1>4 DEF Prepped, Forwarding
  <2>2. /\ DOMAIN a = DOMAIN s /\ a.is_shard = s.is_shard /\ a.gather = s.gather
        /\ a.buffer = s.buffer /\ a.root_bp_state = s.root_bp_state
        /\ a.reshard_after_backward = s.reshard_after_backward
        /\ DOMAIN a.scheduler_state = Units
        /\ \A v \in Units : a.scheduler_state[v] = IF v = u THEN "FORWARD"
                                                   ELSE s.scheduler_state[v]
    BY <1>2 DEF Whole, Sharding
  <2> HIDE DEF a
  <2>3. Whole(a) /\ Current(a) /\ Unsharded(a) = Unsharded(s) /\ Gathering(a) = Gathering(s)
    BY <1>2, <2>2 DEF Whole, Current, Unsharded, Gathering
  <2>4. /\ Current(b) /\ Steady(a, b) /\ Gathering(b) = Gathering(a)
        /\ Unsharded(b) = IF cfg.reshard_after_forward THEN Unsharded(a) \ {u} ELSE Unsharded(a)
    BY <2>3, ShardFresh DEF Steady
  <2> HIDE DEF b
  <2>5. /\ Current(s') /\ Gathering(s') = Gathering(s)
        /\ Unsharded(s') = IF cfg.reshard_after_forward THEN Unsharded(s) \ {u} ELSE Unsharded(s)
        /\ s'.root_bp_state = s.root_bp_state
        /\ s'.reshard_after_backward = s.reshard_after_backward
        /\ \A v \in Units : s'.scheduler_state[v] = IF v = u THEN "FORWARD"
                                                    ELSE s.scheduler_state[v]
    BY <2>1, <2>2, <2>3, <2>4 DEF Steady
  <2>6. Prepped(s') /\ Resharded(s')
    <3>1. \A v \in Units : s'.scheduler_state[v] # "PRE_BACKWARD"
      BY <1>2, <1>4, <2>5 DEF Prepped, Forwarding
    <3>2. Unsharded(s') \subseteq Unsharded(s) /\ Unsharded(s) \subseteq Units
      BY <2>5 DEF Unsharded
    <3>3. Resharded(s')
      BY <1>2, <2>5, <3>2 DEF Resharded
    <3>. QED BY <3>1, <3>3 DEF Prepped
  <2>7. Left(ForwardKind, q, Unsharded(s)) /\ ForwardKind \in Kinds
    BY <1>4 DEF Forwarding, Kinds
  <2>8. Left(ForwardKind, r, Unsharded(s'))
    <3>1. Head(q).hook \in ForwardKind.frees /\ Head(q).hook \notin ForwardKind.opens
      BY <1>1 DEF q, ForwardKind
    <3>2. \A v \in Unsharded(s) : v \in Unsharded(s') \/ v = Head(q).unit
      BY <1>1, <2>5 DEF q
    <3>3. Left(ForwardKind, Tail(q), Unsharded(s'))
      BY <1>3, <2>7, <3>1, <3>2, LeftTail
    <3>. QED BY <3>3 DEF q, r
  <2>9. u \in Unsharded(s)
    <3>1. Head(q).hook \in ForwardKind.uses
      BY <1>1 DEF q, ForwardKind
    <3>. QED BY <1>1, <1>3, <2>7, <3>1, LeftHead DEF q
  <2>10. \A hook, v : Among(hook, v, q) /\ ~(hook = "forward" /\ v = u) => Among(hook, v, r)
    BY <1>1, <1>3, AmongRest DEF q, r
  <2>11. Staying(s')
    <3>1. cfg.pipeline => ~cfg.reshard_after_forward
      BY ShardedAssumption DEF GradInv, Types
    <3>. QED BY <1>4, <2>5, <3>1 DEF Forwarding, Staying
  <2>12. ASSUME ~cfg.pipeline, bwd < fwd, NEW v \in used[1] \cup {Root}
         PROVE  Among("forward", v, r) \/ Ran(s', v)
    <3>1. Among("forward", v, q) \/ Ran(s, v)
      BY <1>4, <2>12 DEF Forwarding
    <3>2. v \in Units
      BY <2>12, Numbers, FirstUsed
    <3>3. CASE v = u
      BY <2>5, <2>9, <3>2, <3>3 DEF Ran
    <3>4. CASE v # u
      BY <2>5, <2>10, <3>1, <3>2, <3>4 DEF Ran
    <3>. QED BY <3>3, <3>4
  <2>13. \A v \in Gathering(s') : Among("forward_pre", v, r)
    BY <1>4, <2>5, <2>10 DEF Forwarding
  <2>14. Forwarding(r, s')
    BY <1>4, <2>5, <2>8, <2>11, <2>12, <2>13 DEF Forwarding
  <2>15. Passing(todo', s')
    BY <1>1, <1>3, <2>14, ForwardGoesOn
  <2>. QED BY <1>1, <2>5, <2>6, <2>15, HookFresh
<1>5. CASE Closes(q) /\ Backing(q, s)
  <2>1. s.root_bp_state /\ s' = s
    BY <1>1, <1>3, <1>5 DEF Backing, q
  <2>2. \A v : Among("backward_pre", v, q) => Among("backward_pre", v, r)
    BY <1>1, <1>3, AmongRest DEF q, r
  <2>3. \A v \in Gathering(s') : Among("backward_pre", v, r)
    BY <1>5, <2>1, <2>2 DEF Backing
  <2>4. Head(q).hook \notin BackwardKind.opens
    BY <1>1 DEF BackwardKind
  <2>. QED BY <1>1, <1>2, <1>5, <2>1, <2>3, <2>4, BackingOn DEF q, r
<1>. QED
  BY <1>1, <1>4, <1>5, PhaseOf DEF q

LEMMA BackwardPreFresh ==
    ASSUME GradInv, StepInv, FreshInv, NEW u \in Units, BackwardPreHook(u)
    PROVE  FreshInv'
<1> DEFINE q == todo
           r == Tail(todo)
           a == [s EXCEPT !.scheduler_state[u] = "PRE_BACKWARD", !.root_bp_state = TRUE]
           b == IF cfg.reshard_after_forward THEN Unshard(a, {u}) ELSE a
           c == Prefetch(b, BackwardCells(u))
<1>1. /\ todo # <<>> /\ todo' = r /\ Head(q).hook = "backward_pre" /\ Head(q).unit = u
      /\ UNCHANGED <<cfg, version, fwd, bwd, used, reduced>>
      /\ s' = IF s.scheduler_state[u] = "PRE_BACKWARD" THEN s ELSE c
  BY DEF BackwardPreHook, Running
<1>2. Whole(s) /\ Current(s) /\ Prepped(s) /\ Resharded(s)
  BY WholeState DEF FreshInv
<1>3. q \in Seq(Calls) /\ r \in Seq(Calls) /\ q # <<>> /\ q[1] = Head(q)
  BY <1>1, CallsLeft
<1> HIDE DEF q, r
<1>4. Closes(q) /\ Backing(q, s)
  <2>1. ~Forwarding(q, s)
    <3>1. 1 \in 1 .. Len(q)
      BY <1>3, TailIs
    <3>2. q[1].hook \notin ForwardKind.hooks
      BY <1>1, <1>3 DEF ForwardKind
    <3>. QED BY <3>1, <3>2 DEF Forwarding, Left
  <2>. QED BY <1>1, <2>1, PhaseOf DEF q
<1>5. Left(BackwardKind, q, Unsharded(s)) /\ BackwardKind \in Kinds
  BY <1>4 DEF Backing, Kinds
<1>6. /\ \A v \in BackwardCells(u) : Among("backward_pre", v, r)
      /\ ~cfg.reshard_after_forward => u \in Unsharded(s)
  <2>1. /\ \A v \in Cells(BackwardKind, Head(q).unit) : Among("backward_pre", v, Tail(q))
        /\ ~cfg.reshard_after_forward => Head(q).unit \in Unsharded(s)
    BY <1>1, <1>3, <1>5, LeftHead DEF BackwardKind
  <2>. QED BY <1>1, <2>1 DEF q, r, Cells, BackwardKind
<1>7. \A v : Among("backward_pre", v, q) /\ v # u => Among("backward_pre", v, r)
  BY <1>1, <1>3, AmongRest DEF q, r
<1>8. CASE s.scheduler_state[u] = "PRE_BACKWARD"
  <2>1. s' = s /\ s.root_bp_state /\ u \in Unsharded(s)
    BY <1>1, <1>2, <1>8 DEF Prepped
  <2>2. \A v \in Gathering(s) : v # u
    BY <1>2, <2>1 DEF Gathering, Unsharded, Current
  <2>3. \A v \in Gathering(s') : Among("backward_pre", v, r)
    BY <1>4, <1>7, <2>1, <2>2 DEF Backing
  <2>. QED BY <1>1, <1>2, <1>4, <2>1, <2>3, BackingOn DEF q, r
<1>9. CASE s.scheduler_state[u] # "PRE_BACKWARD"
  <2>1. s' = c
    BY <1>1, <1>9
  <2>2. /\ DOMAIN a = DOMAIN s /\ a.is_shard = s.is_shard /\ a.gather = s.gather
        /\ a.buffer = s.buffer /\ a.root_bp_state = TRUE
        /\ a.reshard_after_backward = s.reshard_after_backward
        /\ DOMAIN a.scheduler_state = Units
        /\ \A v \in Units : a.scheduler_state[v] = IF v = u THEN "PRE_BACKWARD"
                                                   ELSE s.scheduler_state[v]
    BY <1>2 DEF Whole, Sharding
  <2> HIDE DEF a
  <2>3. Whole(a) /\ Current(a) /\ Unsharded(a) = Unsharded(s) /\ Gathering(a) = Gathering(s)
    BY <1>2, <2>2 DEF Whole, Current, Unsharded, Gathering
  <2>4. /\ Whole(b) /\ Current(b) /\ Steady(a, b)
        /\ Unsharded(b) = Unsharded(s) \cup {u} /\ Gathering(b) \subseteq Gathering(s) \ {u}
    <3>1. CASE cfg.reshard_after_forward
      <4>1. b = Unshard(a, {u}) /\ {u} \in SUBSET Units
        BY <3>1
      <4>2. /\ DOMAIN b = DOMAIN a /\ Current(b) /\ Steady(a, b)
            /\ Unsharded(b) = Unsharded(a) \cup {u} /\ Gathering(b) \subseteq Gathering(a) \ {u}
        BY <2>3, <4>1, UnshardFresh
      <4>. QED BY <2>3, <4>2 DEF Whole, Steady
    <3>2. CASE ~cfg.reshard_after_forward
      <4>1. b = a
        BY <3>2
      <4>2. u \in Unsharded(s) /\ u \notin Gathering(s)
        BY <1>2, <1>6, <3>2 DEF Gathering, Unsharded, Current
      <4>. QED BY <2>3, <4>1, <4>2 DEF Steady
    <3>. QED BY <3>1, <3>2
  <2> HIDE DEF b
  <2>5. /\ Current(c) /\ Steady(b, c) /\ Unsharded(c) = Unsharded(b)
        /\ Gathering(c) \subseteq Gathering(b) \cup BackwardCells(u)
    BY <2>4, PrefetchFresh
  <2> HIDE DEF c
  <2>6. /\ Current(s') /\ Gathering(s') \subseteq (Gathering(s) \ {u}) \cup BackwardCells(u)
        /\ Unsharded(s') = Unsharded(s) \cup {u} /\ s'.root_bp_state
        /\ s'.reshard_after_backward = s.reshard_after_backward
        /\ \A v \in Units : s'.scheduler_state[v] = IF v = u THEN "PRE_BACKWARD"
                                                    ELSE s.scheduler_state[v]
    BY <2>1, <2>2, <2>4, <2>5 DEF Steady
  <2>7. Unsharded(s) \subseteq Units
    BY DEF Unsharded
  <2>8. Prepped(s') /\ Resharded(s')
    BY <1>2, <2>6, <2>7 DEF Prepped, Resharded
  <2>9. \A v \in Gathering(s') : Among("backward_pre", v, r)
    BY <1>4, <1>6, <1>7, <2>6 DEF Backing
  <2>. QED BY <1>1, <1>4, <2>6, <2>8, <2>9, BackingOn DEF q, r
<1>. QED
  BY <1>8, <1>9

LEMMA ReduceFacts ==
    ASSUME GradInv, StepInv, FreshInv, todo # <<>>, NEW hook,
           Head(todo).hook = hook, hook \in {"gradient", "backward", "root_backward"}
    PROVE  /\ Whole(s) /\ Current(s) /\ Prepped(s) /\ Resharded(s)
           /\ todo \in Seq(Calls) /\ Closes(todo) /\ Backing(todo, s) /\ s.root_bp_state
           /\ \A v \in Gathering(s) : Among("backward_pre", v, Tail(todo))
<1>1. todo \in Seq(Calls) /\ todo[1] = Head(todo)
  BY CallsLeft
<1>2. Closes(todo) /\ Backing(todo, s)
  <2>1. ~Forwarding(todo, s)
    <3>1. 1 \in 1 .. Len(todo)
      BY <1>1, TailIs
    <3>2. todo[1].hook \notin ForwardKind.hooks
      BY <1>1 DEF ForwardKind
    <3>. QED BY <3>1, <3>2 DEF Forwarding, Left
  <2>. QED BY <2>1, PhaseOf
<1>3. s.root_bp_state
  BY <1>1, <1>2 DEF Backing
<1>4. \A v \in Gathering(s) : Among("backward_pre", v, Tail(todo))
  <2>1. \A v : Among("backward_pre", v, todo) => Among("backward_pre", v, Tail(todo))
    BY <1>1, AmongRest
  <2>. QED BY <1>2, <2>1 DEF Backing
<1>. QED BY <1>1, <1>2, <1>3, <1>4, WholeState DEF FreshInv

LEMMA GradientFresh ==
    ASSUME GradInv, StepInv, FreshInv, NEW u \in Units, Gradient(u)
    PROVE  FreshInv'
<1>1. /\ todo # <<>> /\ todo' = Tail(todo) /\ Head(todo).hook = "gradient"
      /\ UNCHANGED <<cfg, version, fwd, bwd, used, reduced>>
      /\ s' = [s EXCEPT !.grad[u] = @ (+) SetToBag({Head(todo).micro})]
  BY DEF Gradient, Running
<1>2. /\ Whole(s) /\ Current(s) /\ Prepped(s) /\ Resharded(s)
      /\ Closes(todo) /\ Backing(todo, s) /\ s.root_bp_state
      /\ \A v \in Gathering(s) : Among("backward_pre", v, Tail(todo))
  BY <1>1, ReduceFacts
<1>3. /\ s'.is_shard = s.is_shard /\ s'.gather = s.gather /\ s'.buffer = s.buffer
      /\ s'.scheduler_state = s.scheduler_state /\ s'.root_bp_state = s.root_bp_state
      /\ s'.reshard_after_backward = s.reshard_after_backward
  BY <1>1, <1>2 DEF Whole, Sharding
<1>4. Unsharded(s') = Unsharded(s) /\ Gathering(s') = Gathering(s)
  BY <1>3 DEF Unsharded, Gathering
<1>5. Current(s') /\ Prepped(s') /\ Resharded(s')
  BY <1>2, <1>3, <1>4 DEF Current, Prepped, Resharded
<1>. QED BY <1>1, <1>2, <1>3, <1>4, <1>5, BackingOn DEF BackwardKind

LEMMA PostBackwardHookFresh ==
    ASSUME GradInv, StepInv, FreshInv, NEW u \in Units, PostBackwardHook(u)
    PROVE  FreshInv'
<1> DEFINE t2 == BackwardHook(s, u)
<1>1. /\ todo # <<>> /\ todo' = Tail(todo) /\ Head(todo).hook = "backward"
      /\ Head(todo).unit = u /\ s' = t2
      /\ UNCHANGED <<cfg, version, fwd, bwd, used, reduced>>
  BY DEF PostBackwardHook, Running
<1>2. /\ Whole(s) /\ Current(s) /\ Prepped(s) /\ Resharded(s)
      /\ Closes(todo) /\ Backing(todo, s) /\ s.root_bp_state
      /\ \A v \in Gathering(s) : Among("backward_pre", v, Tail(todo))
  BY <1>1, ReduceFacts
<1>3. Swept(FALSE, s, t2, {u})
  BY <1>2, BackwardHookFresh
<1> HIDE DEF t2
<1>4. /\ Current(s') /\ Gathering(s') = Gathering(s) /\ s'.root_bp_state
      /\ s'.reshard_after_backward = s.reshard_after_backward
      /\ Unsharded(s') \subseteq Unsharded(s) /\ Unsharded(s) \subseteq Units
      /\ \A v \in Unsharded(s) : v \in Unsharded(s') \/ (v = u /\ s.reshard_after_backward)
      /\ \A v \in Units : s'.scheduler_state[v] = IF v = u THEN "BACKWARD"
                                                  ELSE s.scheduler_state[v]
      /\ s.reshard_after_backward /\ u \in Unsharded(s') => s.scheduler_state[u] = "BACKWARD"
  BY <1>1, <1>2, <1>3 DEF Swept, Unsharded
<1>5. /\ cfg.pipeline => ~s.reshard_after_backward
      /\ ~cfg.pipeline /\ (~cfg.keep \/ bwd = NMicro) => s.reshard_after_backward
  <2>1. fwd > 0 /\ ~reduced /\ (bwd = NMicro => fwd = NMicro)
    BY <1>2, Numbers DEF Backing
  <2>. QED BY <2>1 DEF FreshInv, Books
<1>6. Prepped(s')
  BY <1>2, <1>4 DEF Prepped
<1>7. Resharded(s')
  <2> SUFFICES ASSUME ~cfg.pipeline, ~cfg.keep \/ bwd = NMicro, NEW v \in Unsharded(s')
               PROVE  s'.scheduler_state[v] # "BACKWARD"
    BY DEF Resharded
  <2>1. s.scheduler_state[v] # "BACKWARD" /\ v \in Units /\ s.reshard_after_backward
    BY <1>2, <1>4, <1>5 DEF Resharded
  <2>. QED BY <1>4, <2>1
<1>8. /\ \A v \in Unsharded(s) : \/ v \in Unsharded(s')
                                 \/ Head(todo).hook = "backward" /\ v = Head(todo).unit /\ ~cfg.pipeline
      /\ Head(todo).hook \notin BackwardKind.opens
  BY <1>1, <1>4, <1>5 DEF BackwardKind
<1>. QED BY <1>1, <1>2, <1>4, <1>6, <1>7, <1>8, BackingOn

LEMMA RootBackwardFresh ==
    ASSUME GradInv, StepInv, FreshInv, RootBackwardHook
    PROVE  FreshInv'
<1> DEFINE t2 == RootHook(s)
<1>1. /\ todo # <<>> /\ todo' = Tail(todo) /\ Head(todo).hook = "root_backward" /\ s' = t2
      /\ UNCHANGED <<cfg, version, fwd, bwd, used, reduced>>
  BY DEF RootBackwardHook, Running
<1>2. /\ Whole(s) /\ Current(s) /\ Prepped(s) /\ Resharded(s) /\ todo \in Seq(Calls)
      /\ Closes(todo) /\ Backing(todo, s) /\ s.root_bp_state
      /\ \A v \in Gathering(s) : Among("backward_pre", v, Tail(todo))
  BY <1>1, ReduceFacts
<1>3. Tail(todo) = <<>>
  <2>1. Left(BackwardKind, todo, Unsharded(s)) /\ BackwardKind \in Kinds
    BY <1>2 DEF Backing, Kinds
  <2>. QED BY <1>1, <1>2, <2>1, LeftHead
<1>4. /\ Current(t2) /\ Gathering(t2) = Gathering(s) /\ ~t2.root_bp_state
      /\ t2.reshard_after_backward = s.reshard_after_backward
      /\ Unsharded(t2) \subseteq Unsharded(s)
      /\ \A u \in Units : t2.scheduler_state[u] = "BACKWARD"
      /\ s.reshard_after_backward => \A u \in Unsharded(t2) : s.scheduler_state[u] = "BACKWARD"
  BY <1>2, RootHookFresh
<1> HIDE DEF t2
<1>5. ~cfg.pipeline /\ (~cfg.keep \/ bwd = NMicro) => s.reshard_after_backward
  <2>1. fwd > 0 /\ ~reduced /\ (bwd = NMicro => fwd = NMicro)
    BY <1>2, Numbers DEF Backing
  <2>. QED BY <2>1 DEF FreshInv, Books
<1>6. Prepped(s')
  BY <1>1, <1>4 DEF Prepped
<1>7. Resharded(s')
  BY <1>1, <1>2, <1>4, <1>5 DEF Resharded
<1>8. AtRest(s')
  <2>1. Gathering(s') = {}
    BY <1>1, <1>2, <1>3, <1>4, Nowhere
  <2>2. ~reduced /\ (~cfg.pipeline => ~(bwd < fwd))
    BY <1>2, Numbers DEF Backing
  <2>. QED BY <1>1, <1>4, <2>1, <2>2 DEF AtRest
<1>9. Passing(todo', s')
  BY <1>1, <1>3, <1>8 DEF Passing
<1>. QED BY <1>1, <1>4, <1>6, <1>7, <1>9, HookFresh

-----------------------------------------------------------------------------
(* The caller's steps. *)
LEMMA RestOf ==
    ASSUME FreshInv, todo = <<>>
    PROVE  AtRest(s)
  BY Nowhere DEF FreshInv, Passing

\* The calls of a forward, at its start: every unit it prefetches it will use.
LEMMA ForwardStarts ==
    ASSUME NEW U \in SUBSET Kids, NoStrays(cfg), cfg.skip \/ U = Kids, NEW O,
           GradInv
    PROVE  LET q == ForwardCalls(U)
           IN  /\ Left(ForwardKind, q, O) /\ q # <<>> /\ ~Closes(q)
               /\ \A u \in U \cup {Root} : Among("forward", u, q)
<1> DEFINE q == ForwardCalls(U)
           P == U \cup {Root}
           k == ForwardKind
<1>0. k \in Kinds /\ k.leads = "forward_pre" /\ k.does = "forward" /\ k.up
      /\ "root_backward" \notin k.hooks
  BY DEF ForwardKind, Kinds
<1> HIDE DEF k
<1>1. Woven(k, q, P, P, P, P, {})
  BY ForwardWoven DEF k
<1> HIDE DEF q
<1>2. P \subseteq Units
  BY ShardedAssumption DEF Kids, Units, Root
<1>3. \A u \in P : Cells(k, u) \subseteq P
  <2> SUFFICES ASSUME NEW u \in P, NEW v \in ForwardCells(u) PROVE v \in P
    BY <1>0 DEF Cells
  <2>1. v \in Kids /\ Root < u /\ u < v /\ v <= u + cfg.forward_prefetch
    BY DEF ForwardCells
  <2>2. u \in Int /\ v \in Int
    BY <1>2, <2>1, ShardedAssumption DEF Kids, Units
  <2>3. cfg.forward_prefetch # 0
    BY <2>1, <2>2
  <2>. QED BY <2>1, <2>3 DEF NoStrays
<1>4. \A i \in 1 .. Len(q) : q[i].hook # "root_backward"
  BY <1>0, <1>1 DEF Woven
<1>5. Left(k, q, O)
  BY <1>0, <1>1, <1>2, <1>3, <1>4, LeftAll
<1>6. \A u \in P : Among("forward", u, q)
  BY <1>0, <1>1 DEF Woven
<1>7. q # <<>>
  BY <1>6, Nowhere
<1>8. ~Closes(q)
  <2>1. Len(q) \in Nat
    BY <1>1, LenProperties DEF Woven
  <2>. QED BY <1>4, <2>1 DEF Closes
<1>. QED BY <1>5, <1>6, <1>7, <1>8 DEF q, k

\* The same of a backward: what it prepares is gathered, or will be.
LEMMA BackwardStarts ==
    ASSUME NEW U \in SUBSET Kids, NEW micro \in Int, NEW quiet \in BOOLEAN, NoStrays(cfg),
           cfg.skip \/ U = Kids, NEW O, GradInv,
           ~cfg.reshard_after_forward => U \cup {Root} \subseteq O
    PROVE  LET q == BackwardCalls(U, micro, quiet)
           IN  Left(BackwardKind, q, O) /\ Closes(q) /\ q[1].hook = "backward_pre"
<1> DEFINE q == BackwardCalls(U, micro, quiet)
           P == U \cup {Root}
           k == BackwardKind
<1>0. k \in Kinds /\ ~k.up
  BY DEF BackwardKind, Kinds
<1> HIDE DEF k
<1>1. Woven(k, q, P, Units, U, P, {})
  BY BackwardWoven DEF k
<1>2. \A i \in 1 .. Len(q) : q[i].hook = "root_backward" => i = Len(q)
  BY BackwardPrepared DEF Prepared
<1>3. Closes(q)
  BY BackwardOrderly
<1>4. q[1].hook = "backward_pre"
  BY BackwardWoven
<1> HIDE DEF q
<1>5. P \subseteq Units
  BY ShardedAssumption DEF Kids, Units, Root
<1>6. \A u \in P : Cells(k, u) \subseteq P
  <2> SUFFICES ASSUME NEW u \in P, NEW v \in BackwardCells(u) PROVE v \in P
    BY <1>0 DEF Cells
  <2>1. v \in Kids /\ v < u /\ u - cfg.backward_prefetch <= v
    BY DEF BackwardCells
  <2>2. u \in Int /\ v \in Int
    BY <1>5, <2>1, ShardedAssumption DEF Kids, Units
  <2>3. cfg.backward_prefetch # 0
    BY <2>1, <2>2
  <2>. QED BY <2>1, <2>3 DEF NoStrays
<1>7. Left(k, q, O)
  BY <1>0, <1>1, <1>2, <1>5, <1>6, LeftAll
<1>. QED BY <1>3, <1>4, <1>7 DEF q, k

LEMMA EvaluateFresh ==
    ASSUME GradInv, StepInv, FreshInv, Evaluate
    PROVE  FreshInv'
<1>1. /\ todo = <<>> /\ fwd = 0 /\ ~cfg.pipeline
      /\ UNCHANGED <<cfg, s, version, fwd, bwd, used, reduced>>
  BY DEF Evaluate
<1>2. PICK U \in SUBSET Kids : todo' = ForwardCalls(U) /\ (cfg.skip \/ U = Kids)
  BY DEF Evaluate, UsedSets
<1>3. AtRest(s) /\ NoStrays(cfg)
  BY <1>1, RestOf DEF FreshInv, Books
<1>4. /\ Left(ForwardKind, todo', Unsharded(s)) /\ todo' # <<>> /\ ~Closes(todo')
  BY <1>2, <1>3, ForwardStarts
<1>5. bwd < NMicro /\ ~reduced /\ bwd = 0
  BY <1>1, Numbers
<1>6. Forwarding(todo', s)
  BY <1>1, <1>3, <1>4, <1>5 DEF Forwarding, AtRest, Staying
<1>7. Passing(todo', s')
  BY <1>1, <1>4, <1>6 DEF Passing
<1>8. Current(s') /\ Prepped(s') /\ Resharded(s')
  BY <1>1 DEF FreshInv
<1>. QED BY <1>1, <1>7, <1>8, HookFresh

LEMMA BeginForwardFresh ==
    ASSUME GradInv, StepInv, FreshInv, BeginForward
    PROVE  FreshInv'
<1>1. /\ todo = <<>> /\ ~reduced /\ fwd < NMicro /\ fwd' = fwd + 1 /\ Gathered
      /\ ~cfg.pipeline => fwd - bwd < 1
      /\ UNCHANGED <<cfg, version, bwd, reduced>>
      /\ s' = IF cfg.pipeline THEN PipelineFlags(fwd + 1) ELSE TrainerFlags(fwd + 1)
  BY DEF BeginForward, InFlight
<1>2. PICK U \in SUBSET Kids : /\ todo' = ForwardCalls(U) /\ used' = Append(used, U)
                               /\ cfg.skip \/ U = Kids
  BY DEF BeginForward, UsedSets
<1>3. AtRest(s) /\ NoStrays(cfg) /\ Current(s) /\ Prepped(s) /\ Resharded(s) /\ Books(s)
  BY <1>1, RestOf DEF FreshInv, Books
<1>4. /\ fwd \in Nat /\ bwd \in Nat /\ bwd <= fwd /\ NMicro \in Nat
      /\ used \in Seq(SUBSET Kids) /\ Len(used) = fwd - bwd
  BY Numbers
<1>5. /\ s'.is_shard = s.is_shard /\ s'.gather = s.gather /\ s'.buffer = s.buffer
      /\ s'.scheduler_state = s.scheduler_state /\ s'.root_bp_state = s.root_bp_state
      /\ cfg.pipeline => s'.reshard_after_backward =
                           IF fwd = 0 THEN FALSE ELSE s.reshard_after_backward
      /\ ~cfg.pipeline => s'.reshard_after_backward = (~cfg.keep \/ fwd + 1 = NMicro)
  <2>1. Whole(s)
    BY WholeState
  <2>2. CASE cfg.pipeline
    <3>1. s' = PipelineFlags(fwd + 1) /\ (fwd + 1 = 1 <=> fwd = 0)
      BY <1>1, <1>4, <2>2
    <3>. QED BY <2>1, <2>2, <3>1 DEF PipelineFlags, Whole, Sharding
  <2>3. CASE ~cfg.pipeline
    <3>1. s' = TrainerFlags(fwd + 1)
      BY <1>1, <2>3
    <3>. QED BY <2>1, <2>3, <3>1 DEF TrainerFlags, Whole, Sharding
  <2>. QED BY <2>2, <2>3
<1>6. Unsharded(s') = Unsharded(s) /\ Gathering(s') = Gathering(s)
  BY <1>5 DEF Unsharded, Gathering
<1>7. Current(s)' /\ Prepped(s)' /\ Resharded(s)'
  BY <1>1, <1>3, <1>5, <1>6 DEF Current, Prepped, Resharded
<1>8. /\ used' \in Seq(SUBSET Kids) /\ Len(used') = Len(used) + 1
      /\ \A i \in 1 .. Len(used) : used'[i] = used[i]
      /\ used'[Len(used) + 1] = U
  BY <1>2, <1>4, AppendProperties
<1>9. Books(s)'
  <2>1. \A i \in 1 .. Len(used') : i \in 1 .. Len(used) \/ i = Len(used) + 1
    BY <1>4, <1>8
  <2>2. ~cfg.skip => \A i \in 1 .. Len(used') : used'[i] = Kids
    BY <1>2, <1>3, <1>8, <2>1 DEF Books
  <2>3. ~cfg.pipeline => fwd' <= bwd' + 1
    BY <1>1, <1>4
  <2>4. fwd # 0 => fwd > 0
    BY <1>4
  <2>. QED BY <1>1, <1>3, <1>5, <2>2, <2>3, <2>4 DEF Books
<1>10. /\ Left(ForwardKind, todo', Unsharded(s')) /\ todo' # <<>> /\ ~Closes(todo')
       /\ \A u \in U \cup {Root} : Among("forward", u, todo')
  BY <1>2, <1>3, ForwardStarts
<1>11. ~cfg.pipeline => used'[1] = U
  <2>1. ~cfg.pipeline => Len(used) + 1 = 1
    BY <1>1, <1>4
  <2>. QED BY <1>8, <2>1
<1>12. Left(ForwardKind, todo, Unsharded(s))'
  BY <1>1, <1>10 DEF Left, Cells, ForwardCells, BackwardCells
<1>13. Staying(s)'
  BY <1>1, <1>6 DEF Staying, Gathered, Unsharded
<1>14. Forwarding(todo, s)'
  <2>1. bwd < NMicro
    BY <1>1, <1>4
  <2>2. ~s'.root_bp_state /\ Gathering(s') = {}
    BY <1>3, <1>5, <1>6 DEF AtRest
  <2>. QED BY <1>1, <1>10, <1>11, <1>12, <1>13, <2>1, <2>2 DEF Forwarding
<1>15. Passing(todo, s)'
  BY <1>10, <1>14 DEF Passing
<1>. QED BY <1>7, <1>9, <1>15 DEF FreshInv

LEMMA BeginBackwardFresh ==
    ASSUME GradInv, StepInv, FreshInv, BeginBackward
    PROVE  FreshInv'
<1>1. /\ todo = <<>> /\ bwd < fwd /\ Gathered /\ bwd' = bwd + 1 /\ used' = Tail(used)
      /\ UNCHANGED <<cfg, s, version, fwd, reduced>>
  BY DEF BeginBackward
<1>2. AtRest(s) /\ NoStrays(cfg) /\ Current(s) /\ Prepped(s) /\ Resharded(s) /\ Books(s)
  BY <1>1, RestOf DEF FreshInv, Books
<1>3. /\ fwd \in Nat /\ bwd \in Nat /\ bwd <= fwd /\ fwd <= NMicro /\ NMicro \in Nat
      /\ used \in Seq(SUBSET Kids) /\ Len(used) = fwd - bwd
      /\ reduced => bwd = NMicro
      /\ Kids \subseteq Units /\ Units = Kids \cup {Root}
  BY Numbers
<1> DEFINE U == used[1]
<1>4. U \in SUBSET Kids /\ used # <<>> /\ Head(used) = U
  BY <1>1, FirstUsed
<1>5. cfg.skip \/ U = Kids
  <2>1. 1 \in 1 .. Len(used)
    BY <1>1, <1>3
  <2>. QED BY <1>2, <2>1 DEF Books
<1> DEFINE micro == (version - 1) * NMicro + bwd + 1
<1>6. PICK quiet \in BOOLEAN : todo' = BackwardCalls(U, micro, quiet)
  BY <1>4 DEF BeginBackward
<1>7. ~cfg.pipeline => \A u \in U \cup {Root} : Ran(s, u)
  BY <1>1, <1>2 DEF AtRest
<1> HIDE DEF U
<1>8. micro \in Int
  <2>1. version \in Nat
    BY DEF GradInv, Types
  <2>. QED BY <1>3, <2>1
<1> HIDE DEF micro
<1>9. ~cfg.reshard_after_forward => U \cup {Root} \subseteq Unsharded(s)
  <2>1. cfg.pipeline => Unsharded(s) = Units
    BY <1>1 DEF Gathered, Unsharded
  <2>. QED BY <1>3, <1>4, <1>7, <2>1 DEF Ran
<1>10. Left(BackwardKind, todo', Unsharded(s)) /\ Closes(todo') /\ todo'[1].hook = "backward_pre"
  BY <1>2, <1>4, <1>5, <1>6, <1>8, <1>9, BackwardStarts
<1>11. Current(s)' /\ Prepped(s)'
  BY <1>1, <1>2 DEF Current, Prepped
<1>12. Resharded(s)'
  <2> SUFFICES ASSUME ~cfg.pipeline, ~cfg.keep \/ bwd' = NMicro
               PROVE  \A u \in Unsharded(s) : s.scheduler_state[u] # "BACKWARD"
    BY <1>1 DEF Resharded
  <2>1. CASE ~cfg.keep
    BY <1>2, <2>1 DEF Resharded
  <2>2. CASE cfg.keep
    <3>1. U = Kids
      BY <1>2, <1>5, <2>2 DEF NoStrays
    <3>2. \A u \in Units : s.scheduler_state[u] = "FORWARD"
      BY <1>3, <1>7, <3>1 DEF Ran
    <3>. QED BY <3>2 DEF Unsharded
  <2>. QED BY <2>1, <2>2
<1>13. Books(s)'
  <2>1. /\ Len(used') = Len(used) - 1
        /\ \A i \in 1 .. Len(used') : i + 1 \in 1 .. Len(used) /\ used'[i] = used[i + 1]
    <3>1. Len(used') = Len(used) - 1 /\ \A i \in 1 .. Len(used') : used'[i] = used[i + 1]
      BY <1>1, <1>3, <1>4, HeadTailProperties
    <3>2. Len(used) \in Nat
      BY <1>3, LenProperties
    <3>. QED BY <3>1, <3>2
  <2>2. ~cfg.skip => \A i \in 1 .. Len(used') : used'[i] = Kids
    BY <1>2, <2>1 DEF Books
  <2>3. ~cfg.pipeline => fwd' <= bwd' + 1
    BY <1>1, <1>2, <1>3 DEF Books
  <2>. QED BY <1>1, <1>2, <2>2, <2>3 DEF Books
<1>14. Left(BackwardKind, todo, Unsharded(s))'
  BY <1>1, <1>10 DEF Left, Cells, ForwardCells, BackwardCells
<1>15. Staying(s)'
  BY <1>1 DEF Staying, Gathered, Unsharded
<1>16. Backing(todo, s)'
  <2>1. bwd' > 0 /\ ~reduced /\ (~cfg.pipeline => bwd' = fwd)
    BY <1>1, <1>2, <1>3 DEF Books
  <2>2. Gathering(s) = {}
    BY <1>2 DEF AtRest
  <2>. QED BY <1>1, <1>10, <1>14, <1>15, <2>1, <2>2 DEF Backing
<1>17. Passing(todo, s)'
  BY <1>10, <1>16 DEF Passing
<1>. QED BY <1>11, <1>12, <1>13, <1>17 DEF FreshInv

LEMMA PipelineGathersFresh ==
    ASSUME GradInv, StepInv, FreshInv, PipelineGathers
    PROVE  FreshInv'
<1>1. /\ todo = <<>> /\ cfg.pipeline /\ bwd < NMicro /\ todo' = todo
      /\ s' = Unshard(s, Units) \/ s' = Shard(s, Units)
      /\ UNCHANGED <<cfg, version, fwd, bwd, used, reduced>>
  BY DEF PipelineGathers
<1>2. AtRest(s) /\ Current(s) /\ Prepped(s) /\ Whole(s)
  BY <1>1, RestOf, WholeState DEF FreshInv
<1>3. Current(s') /\ Steady(s, s') /\ Gathering(s') \subseteq Gathering(s)
  BY <1>1, <1>2, UnshardFresh, ShardFresh
<1>4. Prepped(s') /\ Resharded(s')
  BY <1>1, <1>2, <1>3 DEF Prepped, AtRest, Steady, Resharded
<1>5. AtRest(s')
  <2>1. ~reduced
    BY <1>1, Numbers
  <2>. QED BY <1>1, <1>2, <1>3, <2>1 DEF AtRest, Steady
<1>6. Passing(todo', s')
  BY <1>1, <1>5 DEF Passing
<1>. QED BY <1>1, <1>3, <1>4, <1>6, HookFresh DEF Steady

LEMMA ExecuteFresh ==
    ASSUME GradInv, StepInv, FreshInv, ExecuteReduceGrad
    PROVE  FreshInv'
<1> DEFINE a == [s EXCEPT !.reshard_after_backward = TRUE, !.reduce_grads = TRUE]
           b == FoldLeft(PostBackward, a, AllUnits)
           c == RootHook(b)
<1>1. /\ todo = <<>> /\ todo' = todo /\ cfg.pipeline /\ reduced' /\ s' = c
      /\ UNCHANGED <<cfg, version, fwd, bwd, used>>
  BY DEF ExecuteReduceGrad
<1>2. AtRest(s) /\ Current(s) /\ Books(s) /\ Whole(s)
  BY <1>1, RestOf, WholeState DEF FreshInv
<1>3. /\ DOMAIN a = DOMAIN s /\ a.is_shard = s.is_shard /\ a.gather = s.gather
      /\ a.buffer = s.buffer /\ a.scheduler_state = s.scheduler_state
      /\ a.reshard_after_backward = TRUE
  BY <1>2 DEF Whole, Sharding
<1> HIDE DEF a
<1>4. Whole(a) /\ Current(a) /\ Gathering(a) = {} /\ a.reshard_after_backward
  BY <1>2, <1>3 DEF Whole, Current, Gathering, AtRest
<1>5. Swept(TRUE, a, b, Units)
  BY <1>4, LoopsFresh
<1> HIDE DEF b
<1>6. Whole(b) /\ Current(b) /\ Gathering(b) = {} /\ Unsharded(b) = {}
  BY <1>4, <1>5 DEF Swept, Unsharded
<1>7. /\ Current(c) /\ Gathering(c) = {} /\ ~c.root_bp_state /\ Unsharded(c) = {}
      /\ \A u \in Units : c.scheduler_state[u] = "BACKWARD"
  BY <1>6, RootHookFresh
<1> HIDE DEF c
<1>8. Current(s)' /\ Prepped(s)' /\ Resharded(s)'
  BY <1>1, <1>7 DEF Current, Prepped, Resharded
<1>9. Books(s)'
  BY <1>1, <1>2 DEF Books
<1>10. AtRest(s)'
  BY <1>1, <1>7 DEF AtRest
<1>11. Passing(todo, s)'
  BY <1>1, <1>10 DEF Passing
<1>. QED BY <1>8, <1>9, <1>11 DEF FreshInv

LEMMA OptimizerFresh ==
    ASSUME GradInv, StepInv, FreshInv, OptimizerStep
    PROVE  FreshInv'
<1>1. /\ todo = <<>> /\ todo' = todo /\ bwd = NMicro /\ (cfg.pipeline => reduced)
      /\ fwd' = 0 /\ bwd' = 0 /\ reduced' = FALSE /\ cfg' = cfg /\ used' = used
      /\ s' = [s EXCEPT !.main = Fresh(EmptyBag)]
  BY DEF OptimizerStep, StepReady
<1>2. AtRest(s) /\ Current(s) /\ Resharded(s) /\ Books(s) /\ Whole(s)
  BY <1>1, RestOf, WholeState DEF FreshInv
<1>3. Unsharded(s) = {} /\ Gathering(s) = {} /\ ~s.root_bp_state
  <2>1. ~cfg.pipeline => Unsharded(s) = {}
    <3>1. Unsharded(s) \subseteq Units
      BY DEF Unsharded
    <3>. QED BY <1>1, <1>2, <3>1 DEF AtRest, Resharded
  <2>. QED BY <1>1, <1>2, <2>1 DEF AtRest
<1>4. /\ s'.is_shard = s.is_shard /\ s'.gather = s.gather
      /\ s'.scheduler_state = s.scheduler_state /\ s'.root_bp_state = s.root_bp_state
      /\ s'.reshard_after_backward = s.reshard_after_backward
  BY <1>1, <1>2 DEF Whole, Sharding
<1>5. Unsharded(s') = {} /\ Gathering(s') = {} /\ ~s'.root_bp_state
  BY <1>3, <1>4 DEF Unsharded, Gathering
<1>6. Current(s)' /\ Resharded(s)'
  BY <1>5 DEF Current, Resharded, Unsharded, Gathering
<1>7. Prepped(s)'
  BY <1>2, <1>3, <1>4 DEF FreshInv, Prepped
<1>8. Books(s)'
  BY <1>1, <1>2 DEF Books
<1>9. AtRest(s)'
  <2>1. NMicro # 0
    BY Numbers
  <2>. QED BY <1>1, <1>5, <2>1 DEF AtRest
<1>10. Passing(todo, s)'
  BY <1>1, <1>9 DEF Passing
<1>. QED BY <1>6, <1>7, <1>8, <1>10 DEF FreshInv

LEMMA ResetFresh ==
    ASSUME GradInv, StepInv, FreshInv, ResetIterState
    PROVE  FreshInv'
<1> DEFINE none == Fresh("None")
           still == Fresh(FALSE)
<1>1. /\ todo = <<>> /\ todo' = todo /\ fwd = 0
      /\ UNCHANGED <<cfg, version, fwd, bwd, used, reduced>>
      /\ s' = [s EXCEPT !.scheduler_state = none, !.gather = still, !.root_bp_state = FALSE]
  BY DEF ResetIterState
<1>2. AtRest(s) /\ Current(s) /\ Whole(s)
  BY <1>1, RestOf, WholeState DEF FreshInv
<1>3. \A u \in Units : none[u] = "None" /\ still[u] = FALSE
  BY DEF Fresh
<1> HIDE DEF none, still
<1>4. /\ s'.is_shard = s.is_shard /\ s'.gather = still /\ s'.buffer = s.buffer
      /\ s'.scheduler_state = none /\ s'.root_bp_state = FALSE
      /\ s'.reshard_after_backward = s.reshard_after_backward
  BY <1>1, <1>2 DEF Whole, Sharding
<1>5. Current(s') /\ Prepped(s') /\ Resharded(s') /\ Gathering(s') = {}
  BY <1>2, <1>3, <1>4 DEF Current, Prepped, Resharded, Gathering, Unsharded
<1>6. AtRest(s')
  <2>1. bwd = 0 /\ bwd # NMicro /\ ~reduced
    BY <1>1, Numbers
  <2>. QED BY <1>1, <1>4, <1>5, <2>1 DEF AtRest
<1>7. Passing(todo', s')
  BY <1>1, <1>6 DEF Passing
<1>. QED BY <1>1, <1>4, <1>5, <1>7, HookFresh

\* Units a micro-batch leaves out are prefetched by no other and are resharded
\* after every backward.
NoStrayConfigs == \A c \in Configs : NoStrays(c)

LEMMA InitFreshInv ==
    ASSUME NoStrayConfigs, Init
    PROVE  FreshInv
<1>1. /\ cfg \in Configs /\ fwd = 0 /\ bwd = 0 /\ used = <<>> /\ reduced = FALSE /\ todo = <<>>
      /\ s.is_shard = Fresh(TRUE) /\ s.gather = Fresh(FALSE)
      /\ s.scheduler_state = Fresh("None") /\ s.root_bp_state = FALSE
  BY DEF Init
<1>2. \A u \in Units : s.is_shard[u] = TRUE /\ s.gather[u] = FALSE
                       /\ s.scheduler_state[u] = "None"
  BY <1>1 DEF Fresh
<1>3. Unsharded(s) = {} /\ Gathering(s) = {}
  BY <1>2 DEF Unsharded, Gathering
<1>4. Current(s) /\ Prepped(s) /\ Resharded(s)
  BY <1>2, <1>3 DEF Current, Prepped, Resharded
<1>5. Books(s)
  <2>1. Len(used) = 0
    BY <1>1
  <2>. QED BY <1>1, <2>1 DEF Books, NoStrayConfigs
<1>6. AtRest(s)
  <2>1. NMicro # 0
    BY ShardedAssumption
  <2>. QED BY <1>1, <1>3, <2>1 DEF AtRest
<1>. QED BY <1>1, <1>4, <1>5, <1>6 DEF FreshInv, Passing

LEMMA StutterFresh ==
    ASSUME FreshInv, UNCHANGED vars
    PROVE  FreshInv'
<1>1. /\ UNCHANGED <<cfg, version, fwd, bwd, used, reduced>> /\ s' = s /\ todo' = todo
  BY DEF vars
<1>. QED BY <1>1, HookFresh DEF FreshInv

LEMMA NextFreshInv == GradInv /\ StepInv /\ FreshInv /\ [Next]_vars => FreshInv'
<1> SUFFICES ASSUME GradInv, StepInv, FreshInv, [Next]_vars PROVE FreshInv'
  OBVIOUS
<1>1. ASSUME NEW u \in Units, ForwardPreHook(u) PROVE FreshInv'
  BY <1>1, ForwardPreFresh
<1>2. ASSUME NEW u \in Units, ForwardHook(u) PROVE FreshInv'
  BY <1>2, ForwardFresh
<1>3. ASSUME NEW u \in Units, BackwardPreHook(u) PROVE FreshInv'
  BY <1>3, BackwardPreFresh
<1>4. ASSUME NEW u \in Units, Gradient(u) PROVE FreshInv'
  BY <1>4, GradientFresh
<1>5. ASSUME NEW u \in Units, PostBackwardHook(u) PROVE FreshInv'
  BY <1>5, PostBackwardHookFresh
<1>6. CASE RootBackwardHook
  BY <1>6, RootBackwardFresh
<1>7. CASE BeginForward
  BY <1>7, BeginForwardFresh
<1>8. CASE BeginBackward
  BY <1>8, BeginBackwardFresh
<1>9. CASE PipelineGathers
  BY <1>9, PipelineGathersFresh
<1>10. CASE ExecuteReduceGrad
  BY <1>10, ExecuteFresh
<1>11. CASE OptimizerStep
  BY <1>11, OptimizerFresh
<1>12. CASE Evaluate
  BY <1>12, EvaluateFresh
<1>13. CASE ResetIterState
  BY <1>13, ResetFresh
<1>14. CASE UNCHANGED vars
  BY <1>14, StutterFresh
<1>. QED
  BY <1>1, <1>2, <1>3, <1>4, <1>5, <1>6, <1>7, <1>8, <1>9, <1>10, <1>11, <1>12, <1>13, <1>14
  DEF Next

LEMMA FreshWhenUsed == GradInv /\ FreshInv => ComputesFresh
<1> SUFFICES ASSUME GradInv, FreshInv, todo # <<>>, Head(todo).hook \in {"forward", "gradient"}
             PROVE  LET u == Head(todo).unit IN ~s.is_shard[u] /\ s.buffer[u] = version
  BY DEF ComputesFresh
<1> DEFINE u == Head(todo).unit
<1>1. todo \in Seq(Calls) /\ Head(todo) \in Calls /\ todo[1] = Head(todo)
  BY CallsLeft
<1>2. u \in Units
  BY <1>1 DEF Calls
<1>3. u \in Unsharded(s)
  <2>1. CASE Forwarding(todo, s)
    <3>1. Left(ForwardKind, todo, Unsharded(s)) /\ ForwardKind \in Kinds
      BY <2>1 DEF Forwarding, Kinds
    <3>2. Head(todo).hook \in ForwardKind.hooks
      BY <1>1, <3>1, LeftHead
    <3>3. Head(todo).hook \in ForwardKind.uses
      BY <3>2 DEF ForwardKind
    <3>. QED BY <1>1, <3>1, <3>3, LeftHead
  <2>2. CASE Backing(todo, s)
    <3>1. Left(BackwardKind, todo, Unsharded(s)) /\ BackwardKind \in Kinds
      BY <2>2 DEF Backing, Kinds
    <3>2. Head(todo).hook \in BackwardKind.uses
      BY DEF BackwardKind
    <3>. QED BY <1>1, <3>1, <3>2, LeftHead
  <2>. QED BY <2>1, <2>2, PhaseOf
<1>. QED BY <1>2, <1>3 DEF FreshInv, Current, Unsharded

\* Whatever the prefetch lists, the reshard flags, recomputation and the passes
\* before, evaluation and the pipeline's interleaved ones included, a unit
\* computes, in forward, again in recomputation and in backward, with gathered
\* parameters of the version the optimizer last wrote: its own hook gathers it
\* before, none frees it in between, a prefetch under way is taken by the hook
\* it was made for, and no step begins with a unit gathered in an earlier one
\* (hsdp_scheduler.py, the forward and backward hooks and the root's;
\* hsdp_state.py, shard, unshard and prefetch; hsdp_param.py, unshard, which
\* takes a pending gather for the current one).  NoStrayConfigs leaves out the
\* configurations in which it does not hold: a unit that some micro-batches skip
\* while others prefetch it or keep it gathered (hsdp_param.py:1086).
THEOREM GathersFresh == NoStrayConfigs => (Spec => []ComputesFresh)
<1>1. Spec => []GradInv
  BY InitGradInv, NextGradInv, PTL DEF Spec
<1>2. Spec => []StepInv
  <2>1. Init => StepInv
    BY InitStepInv
  <2>2. GradInv /\ StepInv /\ [Next]_vars => StepInv'
    BY NextStepInv
  <2>. QED BY <1>1, <2>1, <2>2, PTL DEF Spec
<1>3. NoStrayConfigs /\ Init => FreshInv
  BY InitFreshInv
<1>4. GradInv /\ StepInv /\ FreshInv /\ [Next]_vars => FreshInv'
  BY NextFreshInv
<1>5. NoStrayConfigs => (Spec => []FreshInv)
  BY <1>1, <1>2, <1>3, <1>4, PTL DEF Spec
<1>6. GradInv /\ FreshInv => ComputesFresh
  BY FreshWhenUsed
<1>. QED
  BY <1>1, <1>5, <1>6, PTL

=============================================================================
