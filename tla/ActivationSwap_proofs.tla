----------------------- MODULE ActivationSwap_proofs -----------------------
(***************************************************************************)
(* No host buffer of the activation swap is lost or handed out twice, for  *)
(* any configuration in which groups are loaded back before they are       *)
(* offloaded again or released (ConfigAssumption), and wherever calls and  *)
(* copies raise.                                                           *)
(*                                                                         *)
(* The inductive invariant says where a buffer is (Placed), and that, as   *)
(* long as nothing has raised, a group holds buffers only between its      *)
(* launchOffload and its waitLoad (Returned): launchOffload overwrites the *)
(* buckets of a group and releaseStorage its tensors, so what they held    *)
(* then would be lost.  The larger part of the proof is about the helpers: *)
(* that InOrder lists every member once, that what a group needs buffers   *)
(* for is listed once, and that each buffer taken is entered somewhere.    *)
(***************************************************************************)
EXTENDS ActivationSwap, FiniteSetTheorems, SequenceTheorems, TLAPS

\* What InOrder counts off.
Below(x, numbers) == {y \in numbers : y < x}

LEMMA BelowGrows ==
    ASSUME NEW S, IsFiniteSet(S), S \subseteq Int, NEW x \in S, NEW y \in S, x < y
    PROVE  /\ Cardinality(Below(x, S)) \in Nat /\ Cardinality(Below(y, S)) \in Nat
           /\ Cardinality(Below(x, S)) < Cardinality(Below(y, S))
<1>1. /\ Below(x, S) \subseteq Below(y, S) /\ Below(y, S) \subseteq S
      /\ x \in Below(y, S) /\ x \notin Below(x, S)
  <2>1. x \in Int /\ y \in Int /\ \A z \in S : z \in Int
    OBVIOUS
  <2>2. \A z \in S : z < x => z < y
    BY <2>1
  <2>3. \A z \in Below(x, S) : z \in Below(y, S)
    BY <2>2 DEF Below
  <2>4. Below(y, S) \subseteq S /\ x \in Below(y, S)
    BY DEF Below
  <2>5. x \notin Below(x, S)
    BY <2>1 DEF Below
  <2>. QED
    BY <2>3, <2>4, <2>5
<1>2. IsFiniteSet(Below(y, S)) /\ IsFiniteSet(Below(x, S))
  BY <1>1, FS_Subset
<1>3. /\ Cardinality(Below(x, S)) <= Cardinality(Below(y, S))
      /\ Cardinality(Below(x, S)) # Cardinality(Below(y, S))
  BY <1>1, <1>2, FS_Subset
<1>4. Cardinality(Below(x, S)) \in Nat /\ Cardinality(Below(y, S)) \in Nat
  BY <1>2, FS_CardinalityType
<1>. QED
  BY <1>3, <1>4

\* Every place below the number of members is the place of one of them.
LEMMA PlaceTaken ==
    ASSUME NEW S, IsFiniteSet(S), S \subseteq Int, NEW i \in 1 .. Cardinality(S)
    PROVE  \E x \in S : Cardinality(Below(x, S)) = i - 1
<1> DEFINE n == Cardinality(S)
           f == [x \in S |-> Cardinality(Below(x, S)) + 1]
<1>1. n \in Nat
  BY FS_CardinalityType
<1>2. ASSUME NEW x \in S PROVE Cardinality(Below(x, S)) \in 0 .. n - 1
  <2>1. Below(x, S) \subseteq S /\ x \notin Below(x, S)
    BY DEF Below
  <2>2. IsFiniteSet(Below(x, S)) /\ Cardinality(Below(x, S)) <= n /\ Cardinality(Below(x, S)) # n
    BY <2>1, FS_Subset
  <2>3. Cardinality(Below(x, S)) \in Nat
    BY <2>2, FS_CardinalityType
  <2>. QED
    BY <1>1, <2>2, <2>3
<1>3. f \in [S -> 1 .. n]
  BY <1>1, <1>2
<1>4. \A x, y \in S : f[x] = f[y] => x = y
  <2> SUFFICES ASSUME NEW x \in S, NEW y \in S, x < y PROVE f[x] # f[y]
    OBVIOUS
  <2>1. Cardinality(Below(x, S)) < Cardinality(Below(y, S))
    BY BelowGrows
  <2>2. Cardinality(Below(x, S)) \in Nat /\ Cardinality(Below(y, S)) \in Nat
    BY <1>2
  <2>. QED
    BY <2>1, <2>2
<1>5. f \in Injection(S, 1 .. n)
  BY <1>3, <1>4 DEF Injection, IsInjective
<1>6. IsFiniteSet(1 .. n) /\ Cardinality(1 .. n) = n
  BY <1>1, FS_Interval
<1>7. f \in Surjection(S, 1 .. n)
  BY <1>5, <1>6, FS_Injection
<1>8. PICK x \in S : f[x] = i
  BY <1>7 DEF Surjection
<1>9. Cardinality(Below(x, S)) = i - 1
  BY <1>2, <1>8
<1>. QED
  BY <1>9

\* InOrder lists every member once.
LEMMA InOrderLists ==
    ASSUME NEW S, IsFiniteSet(S), S \subseteq Int
    PROVE  /\ Cardinality(S) \in Nat
           /\ DOMAIN InOrder(S) = 1 .. Cardinality(S)
           /\ InOrder(S) \in [1 .. Cardinality(S) -> S]
           /\ \A i, j \in 1 .. Cardinality(S) : InOrder(S)[i] = InOrder(S)[j] => i = j
<1>1. Cardinality(S) \in Nat
  BY FS_CardinalityType
<1>2. InOrder(S) = [i \in 1 .. Cardinality(S) |->
                       CHOOSE x \in S : Cardinality(Below(x, S)) = i - 1]
  BY DEF InOrder, Below
<1>3. ASSUME NEW i \in 1 .. Cardinality(S)
      PROVE  InOrder(S)[i] \in S /\ Cardinality(Below(InOrder(S)[i], S)) = i - 1
  BY <1>2, PlaceTaken
<1>4. \A i, j \in 1 .. Cardinality(S) : InOrder(S)[i] = InOrder(S)[j] => i = j
  <2> SUFFICES ASSUME NEW i \in 1 .. Cardinality(S), NEW j \in 1 .. Cardinality(S),
                      InOrder(S)[i] = InOrder(S)[j]
               PROVE  i = j
    OBVIOUS
  <2>1. i - 1 = j - 1
    BY <1>3
  <2>. QED
    BY <2>1
<1>5. InOrder(S) \in [1 .. Cardinality(S) -> S] /\ DOMAIN InOrder(S) = 1 .. Cardinality(S)
  BY <1>2, <1>3
<1>. QED
  BY <1>1, <1>4, <1>5

-----------------------------------------------------------------------------
IsTensor(t) ==
    t = [store |-> t.store, pack |-> t.pack, kept |-> t.kept, state |-> t.state,
         buffer |-> t.buffer, dup |-> t.dup]
IsTensors(s) == s \in Seq(ToSet(s)) /\ \A k \in DOMAIN s : IsTensor(s[k])
IsGroup(r) ==
    /\ r = [live |-> r.live, tensors |-> r.tensors, off |-> r.off, load |-> r.load,
            bulk |-> r.bulk]
    /\ IsTensors(r.tensors)

\* A function on an interval from 1 is a sequence.
LEMMA Listed ==
    ASSUME NEW n \in Nat, NEW s, DOMAIN s = 1 .. n, s = [k \in 1 .. n |-> s[k]]
    PROVE  s \in Seq(ToSet(s)) /\ Len(s) = n
<1>1. \A k \in 1 .. n : s[k] \in ToSet(s)
  BY DEF ToSet
<1>2. s \in [1 .. n -> ToSet(s)]
  BY <1>1
<1>. QED
  BY <1>2, SeqDef, LenProperties

\* What LaunchOffload needs buffers for: the buckets, then one tensor each.
LEMMA NeedsListed ==
    ASSUME NEW tensors, tensors \in Seq(ToSet(tensors))
    PROVE  /\ Len(Buckets(tensors)) \in Nat /\ Len(Needs(tensors)) \in Nat
           /\ Len(Buckets(tensors)) <= Len(Needs(tensors))
           /\ DOMAIN Needs(tensors) = 1 .. Len(Needs(tensors))
           /\ \E s : LET later == Len(Buckets(tensors)) + 1 .. Len(Needs(tensors)) IN
                /\ \A i \in later : Needs(tensors)[i] = {s[i]} /\ s[i] \in DOMAIN tensors
                /\ \A i, j \in later : s[i] = s[j] => i = j
<1> DEFINE ready(b) == {k \in Moves(tensors, "device") : tensors[k].pack = b}
           fullSet == {b \in 1 .. 2 : Cardinality(ready(b)) >= 2}
           full == InOrder(fullSet)
           buckets == Buckets(tensors)
           rest == Moves(tensors, "device") \ UNION ToSet(buckets)
           singles == InOrder(rest)
           tail == [i \in DOMAIN singles |-> {singles[i]}]
<1>1. IsFiniteSet(fullSet) /\ fullSet \subseteq Int
  <2>1. fullSet \subseteq 1 .. 2
    OBVIOUS
  <2> HIDE DEF fullSet
  <2>2. IsFiniteSet(1 .. 2)
    <3>1. 1 .. 2 = {1, 2}
      OBVIOUS
    <3>2. IsFiniteSet({1})
      BY FS_Singleton
    <3>3. IsFiniteSet({1} \cup {2})
      BY <3>2, FS_AddElement
    <3>4. {1} \cup {2} = {1, 2}
      OBVIOUS
    <3>. QED
      BY <3>1, <3>3, <3>4
  <2>3. IsFiniteSet(fullSet)
    BY <2>1, <2>2, FS_Subset
  <2>4. fullSet \subseteq Int
    BY <2>1
  <2>. QED
    BY <2>3, <2>4
<1>2. Cardinality(fullSet) \in Nat /\ DOMAIN full = 1 .. Cardinality(fullSet)
  BY <1>1, InOrderLists
<1>3. buckets = [i \in 1 .. Cardinality(fullSet) |-> ready(full[i])]
  BY <1>2 DEF Buckets
<1>4. buckets \in Seq(ToSet(buckets)) /\ Len(buckets) = Cardinality(fullSet)
  <2> HIDE DEF fullSet, full, ready
  <2>. QED
    BY <1>2, <1>3, Listed
<1>5. Len(tensors) \in Nat /\ DOMAIN tensors = 1 .. Len(tensors)
  BY LenProperties
<1>6. rest \subseteq DOMAIN tensors
  BY DEF Moves
<1>7. IsFiniteSet(rest) /\ rest \subseteq Int
  <2>1. IsFiniteSet(1 .. Len(tensors)) /\ rest \in SUBSET (1 .. Len(tensors))
    BY <1>5, <1>6, FS_Interval
  <2>. QED
    BY <2>1, FS_Subset
<1>8. /\ Cardinality(rest) \in Nat /\ DOMAIN singles = 1 .. Cardinality(rest)
      /\ singles \in [1 .. Cardinality(rest) -> rest]
      /\ \A i, j \in 1 .. Cardinality(rest) : singles[i] = singles[j] => i = j
  <2> HIDE DEF rest
  <2>. QED
    BY <1>7, InOrderLists
<1>9. tail \in Seq(ToSet(tail)) /\ Len(tail) = Cardinality(rest)
  <2>1. DOMAIN tail = 1 .. Cardinality(rest) /\ tail = [i \in 1 .. Cardinality(rest) |-> tail[i]]
    BY <1>8
  <2> HIDE DEF tail
  <2>. QED
    BY <1>8, <2>1, Listed
<1>10. Needs(tensors) = buckets \o tail
  BY DEF Needs
<1> DEFINE all == ToSet(buckets) \cup ToSet(tail)
<1>11. buckets \in Seq(all) /\ tail \in Seq(all)
  <2>1. ToSet(buckets) \subseteq all /\ ToSet(tail) \subseteq all
    OBVIOUS
  <2> HIDE DEF all, buckets, tail
  <2>. QED
    BY <1>4, <1>9, <2>1, SeqMonotonic
<1>12. Needs(tensors) \in Seq(all)
  BY <1>10, <1>11, ConcatProperties
<1>13. /\ Len(Needs(tensors)) = Cardinality(fullSet) + Cardinality(rest)
       /\ \A i \in Cardinality(fullSet) + 1 .. Cardinality(fullSet) + Cardinality(rest) :
             Needs(tensors)[i] = tail[i - Cardinality(fullSet)]
  <2>1. /\ Len(buckets \o tail) = Len(buckets) + Len(tail)
        /\ \A i \in 1 .. Len(buckets) + Len(tail) :
              (buckets \o tail)[i] = IF i <= Len(buckets) THEN buckets[i] ELSE tail[i - Len(buckets)]
    BY <1>11, ConcatProperties
  <2> DEFINE b == Cardinality(fullSet)
             m == Cardinality(rest)
  <2>2. b \in Nat /\ m \in Nat /\ Len(buckets) = b /\ Len(tail) = m
    BY <1>2, <1>4, <1>8, <1>9
  <2> HIDE DEF b, m, tail, buckets, fullSet, rest
  <2>3. Len(Needs(tensors)) = b + m /\ \A i \in b + 1 .. b + m : Needs(tensors)[i] = tail[i - b]
    BY <1>10, <2>1, <2>2
  <2>. QED
    BY <2>3 DEF b, m
<1>14. DOMAIN Needs(tensors) = 1 .. Len(Needs(tensors))
  BY <1>12, LenProperties
<1> DEFINE b == Cardinality(fullSet)
           m == Cardinality(rest)
           s == [i \in b + 1 .. b + m |-> singles[i - b]]
<1>15. ASSUME NEW i \in b + 1 .. b + m
       PROVE  /\ i - b \in 1 .. m /\ s[i] = singles[i - b]
              /\ Needs(tensors)[i] = {s[i]} /\ s[i] \in DOMAIN tensors
  <2>1. i - b \in 1 .. m
    BY <1>2, <1>8
  <2>2. s[i] = singles[i - b]
    OBVIOUS
  <2>3. tail[i - b] = {singles[i - b]} /\ singles[i - b] \in rest
    BY <1>8, <2>1
  <2>. QED
    BY <1>6, <1>13, <2>1, <2>2, <2>3
<1>16. \A i, j \in b + 1 .. b + m : s[i] = s[j] => i = j
  <2> SUFFICES ASSUME NEW i \in b + 1 .. b + m, NEW j \in b + 1 .. b + m, s[i] = s[j]
               PROVE  i = j
    OBVIOUS
  <2>1. i - b = j - b
    BY <1>8, <1>15
  <2>2. b \in Nat /\ i \in Int /\ j \in Int
    BY <1>2
  <2>. QED
    BY <2>1, <2>2
<1> HIDE DEF s, b, m, fullSet, rest, buckets, tail
<1>17. b \in Nat /\ m \in Nat /\ Len(buckets) = b /\ Len(Needs(tensors)) = b + m
  BY <1>2, <1>4, <1>8, <1>13 DEF b, m
<1>18. /\ Len(Buckets(tensors)) = b /\ Len(Needs(tensors)) \in Nat
       /\ Len(Buckets(tensors)) <= Len(Needs(tensors))
  BY <1>17 DEF buckets
<1>19. /\ \A i \in b + 1 .. b + m : Needs(tensors)[i] = {s[i]} /\ s[i] \in DOMAIN tensors
       /\ \A i, j \in b + 1 .. b + m : s[i] = s[j] => i = j
  BY <1>15, <1>16
<1>20. \E z : LET later == Len(Buckets(tensors)) + 1 .. Len(Needs(tensors)) IN
                /\ \A i \in later : Needs(tensors)[i] = {z[i]} /\ z[i] \in DOMAIN tensors
                /\ \A i, j \in later : z[i] = z[j] => i = j
  BY <1>17, <1>18, <1>19
<1>. QED
  BY <1>14, <1>17, <1>18, <1>20

\* The buffers a group holds.
Singles(r) == {t.buffer : t \in ToSet(r.tensors)} \ {NoBuffer}
Bulks(r) == {p[2] : p \in r.bulk}
HeldBy(r) == Singles(r) \cup Bulks(r)

\* A group that held nothing holds all it took: none of the first n is lost.
LEMMA OffloadingHolds ==
    ASSUME NEW g, IsGroup(group[g]), HeldBy(group[g]) = {},
           NEW n \in Nat, n <= Len(Needs(group[g].tensors)),
           NEW taken, \A i \in 1 .. n : taken[i] # NoBuffer
    PROVE  LET r == Offloading(g, n, taken)
               b == Len(Buckets(group[g].tensors))
           IN  /\ IsGroup(r) /\ r.live = group[g].live /\ DOMAIN r.tensors = DOMAIN group[g].tensors
               /\ Bulks(r) = {taken[i] : i \in {j \in 1 .. n : j <= b}}
               /\ Singles(r) = {taken[i] : i \in {j \in 1 .. n : j > b}}
<1> DEFINE tensors == group[g].tensors
           needs == Needs(tensors)
           b == Len(Buckets(tensors))
           bulk == {i \in 1 .. n : IsBulk(tensors, i)}
           moved == UNION ToSet(Buckets(tensors)) \cup UNION {needs[i] : i \in 1 .. n}
           bufferOf(k) == IF \E i \in 1 .. n \ bulk : needs[i] = {k}
                          THEN taken[CHOOSE i \in 1 .. n \ bulk : needs[i] = {k}]
                          ELSE tensors[k].buffer
           after == [k \in DOMAIN tensors |->
                        [Become(tensors, moved, "d2h")[k] EXCEPT !.buffer = bufferOf(k)]]
           r == Offloading(g, n, taken)
<1>1. r = [group[g] EXCEPT
              !.off = Event(2),
              !.bulk = {<< StoresAt(tensors, needs[i]), taken[i] >> : i \in bulk},
              !.tensors = after]
  BY DEF Offloading
<1> HIDE DEF after, r
<1>2. /\ r = [live |-> group[g].live, tensors |-> after, off |-> Event(2), load |-> group[g].load,
              bulk |-> {<< StoresAt(tensors, needs[i]), taken[i] >> : i \in bulk}]
  BY <1>1 DEF IsGroup
<1>3. /\ tensors \in Seq(ToSet(tensors)) /\ \A k \in DOMAIN tensors : IsTensor(tensors[k])
      /\ Len(tensors) \in Nat /\ DOMAIN tensors = 1 .. Len(tensors)
  BY LenProperties DEF IsGroup, IsTensors
<1>4. ASSUME NEW k \in DOMAIN tensors
      PROVE  IsTensor(after[k]) /\ after[k].buffer = bufferOf(k)
  <2>1. IsTensor(tensors[k])
    BY <1>3
  <2>2. Become(tensors, moved, "d2h")[k] = IF k \in moved THEN [tensors[k] EXCEPT !.state = "d2h"]
                                           ELSE tensors[k]
    BY DEF Become
  <2>3. IsTensor(Become(tensors, moved, "d2h")[k])
    <3> DEFINE t == tensors[k]
    <3>1. t = [store |-> t.store, pack |-> t.pack, kept |-> t.kept, state |-> t.state,
               buffer |-> t.buffer, dup |-> t.dup]
      BY <2>1 DEF IsTensor
    <3> HIDE DEF t, moved
    <3>2. IsTensor([t EXCEPT !.state = "d2h"])
      BY <3>1 DEF IsTensor
    <3>. QED
      BY <2>1, <2>2, <3>2 DEF t
  <2>4. after[k] = [Become(tensors, moved, "d2h")[k] EXCEPT !.buffer = bufferOf(k)]
    BY DEF after
  <2> DEFINE u == Become(tensors, moved, "d2h")[k]
             v == bufferOf(k)
  <2>5. IsTensor(u) /\ after[k] = [u EXCEPT !.buffer = v]
    BY <2>3, <2>4
  <2> HIDE DEF u, v
  <2>6. IsTensor(after[k]) /\ after[k].buffer = v
    BY <2>5 DEF IsTensor
  <2>. QED
    BY <2>6 DEF v
<1>5. DOMAIN after = DOMAIN tensors /\ after = [k \in DOMAIN tensors |-> after[k]]
  BY DEF after
<1>6. after \in Seq(ToSet(after))
  BY <1>3, <1>5, Listed
<1>7. IsGroup(r) /\ r.live = group[g].live /\ DOMAIN r.tensors = DOMAIN tensors
  BY <1>2, <1>4, <1>5, <1>6 DEF IsGroup, IsTensors
<1>8. bulk = {j \in 1 .. n : j <= b}
  BY DEF IsBulk
<1>9. Bulks(r) = {taken[i] : i \in {j \in 1 .. n : j <= b}}
  <2>1. r.bulk = {<< StoresAt(tensors, needs[i]), taken[i] >> : i \in bulk}
    BY <1>2
  <2> DEFINE pair(i) == << StoresAt(tensors, needs[i]), taken[i] >>
  <2>2. \A i \in bulk : pair(i) \in r.bulk /\ pair(i)[2] = taken[i]
    BY <2>1
  <2>3. \A p \in r.bulk : \E i \in bulk : p = pair(i)
    BY <2>1
  <2> HIDE DEF bulk, pair
  <2>4. Bulks(r) = {taken[i] : i \in bulk}
    BY <2>2, <2>3 DEF Bulks
  <2>. QED
    BY <1>8, <2>4
<1>10. b \in Nat /\ Len(needs) \in Nat /\ b <= Len(needs)
  BY <1>3, NeedsListed
<1>11. PICK s : /\ \A i \in b + 1 .. Len(needs) : needs[i] = {s[i]} /\ s[i] \in DOMAIN tensors
                /\ \A i, j \in b + 1 .. Len(needs) : s[i] = s[j] => i = j
  BY <1>3, NeedsListed
<1> DEFINE single == {j \in 1 .. n : j > b}
<1>12. 1 .. n \ bulk = single /\ \A i \in single : i \in b + 1 .. Len(needs)
  BY <1>8, <1>10
<1>13. \A k \in DOMAIN tensors : tensors[k].buffer = NoBuffer
  BY DEF HeldBy, Singles, ToSet
<1>14. ASSUME NEW i \in single PROVE bufferOf(s[i]) = taken[i]
  <2>1. needs[i] = {s[i]} /\ \A j \in single : needs[j] = {s[i]} => j = i
    BY <1>11, <1>12
  <2>2. (CHOOSE j \in 1 .. n \ bulk : needs[j] = {s[i]}) = i
    <3> HIDE DEF single, bulk
    <3>. QED
      BY <1>12, <2>1
  <2>3. \E j \in 1 .. n \ bulk : needs[j] = {s[i]}
    BY <1>12, <2>1
  <2>. QED
    BY <2>2, <2>3
<1>15. ASSUME NEW k \in DOMAIN tensors
       PROVE  bufferOf(k) = NoBuffer \/ \E i \in single : bufferOf(k) = taken[i]
  <2>1. CASE \E i \in 1 .. n \ bulk : needs[i] = {k}
    <3>1. PICK i \in single : needs[i] = {k}
      BY <1>12, <2>1
    <3>2. s[i] = k
      BY <1>11, <1>12, <3>1
    <3>. QED
      BY <1>14, <3>2
  <2>2. CASE ~ \E i \in 1 .. n \ bulk : needs[i] = {k}
    BY <1>13, <2>2
  <2>. QED
    BY <2>1, <2>2
<1>16. Singles(r) = {taken[i] : i \in single}
  <2>1. r.tensors = after
    BY <1>2
  <2>2. Singles(r) = {after[k].buffer : k \in DOMAIN tensors} \ {NoBuffer}
    BY <1>5, <2>1 DEF Singles, ToSet
  <2>3. ASSUME NEW k \in DOMAIN tensors
        PROVE  after[k].buffer = NoBuffer \/ \E i \in single : after[k].buffer = taken[i]
    <3> DEFINE x == bufferOf(k)
    <3>1. after[k].buffer = x
      BY <1>4
    <3>2. x = NoBuffer \/ \E i \in single : x = taken[i]
      BY <1>15
    <3> HIDE DEF x, single
    <3>. QED
      BY <3>1, <3>2
  <2>4. \A i \in single : s[i] \in DOMAIN tensors /\ after[s[i]].buffer = taken[i] /\ taken[i] # NoBuffer
    <3> SUFFICES ASSUME NEW i \in single
                 PROVE  s[i] \in DOMAIN tensors /\ after[s[i]].buffer = taken[i] /\ taken[i] # NoBuffer
      OBVIOUS
    <3>1. s[i] \in DOMAIN tensors
      BY <1>11, <1>12
    <3>2. after[s[i]].buffer = bufferOf(s[i])
      BY <1>4, <3>1
    <3>. QED
      BY <1>14, <3>1, <3>2
  <2> HIDE DEF single
  <2>. QED
    BY <2>2, <2>3, <2>4
<1>. QED
  BY <1>7, <1>9, <1>16 DEF r

-----------------------------------------------------------------------------
Firsts(P) == {p[1] : p \in P}
Distinct(P) == \A p, q \in P : p[1] = q[1] => p = q

Types ==
    /\ cfg \in Configs
    /\ pos \in Nat \ {0} /\ (phase = "run" => pos <= Len(cfg.calls) + 1)
    /\ group = [g \in Groups |-> group[g]]
    /\ \A g \in Groups : IsGroup(group[g])
\* Every buffer is at one place.
Placed ==
    /\ free \cup Firsts(pending) \cup UNION {HeldBy(group[g]) : g \in Groups} = cfg.buffers
    /\ free \cap Firsts(pending) = {} /\ Distinct(pending)
    /\ \A g \in Groups : /\ HeldBy(group[g]) \cap (free \cup Firsts(pending)) = {}
                         /\ Singles(group[g]) \cap Bulks(group[g]) = {}
    /\ \A g, h \in Groups : g # h => HeldBy(group[g]) \cap HeldBy(group[h]) = {}
\* Groups hold buffers between launchOffload and waitLoad only, unless a call raised.
Returned ==
    /\ \A g \in Groups : ~group[g].live => group[g].tensors = <<>> /\ HeldBy(group[g]) = {}
    /\ phase = "run" => \A g \in Groups : ~Lent(cfg.calls, g, pos) => HeldBy(group[g]) = {}
    /\ phase = "over" => \A g \in Groups : HeldBy(group[g]) = {}
IInv == Types /\ Placed /\ Returned

\* A step that changes one group and redistributes what it held and what was free.
LEMMA Redistributed ==
    ASSUME Types, Placed, NEW g \in Groups, NEW r, UNCHANGED cfg,
           group' = [group EXCEPT ![g] = r],
           HeldBy(r) \cup free' \cup Firsts(pending')
              = HeldBy(group[g]) \cup free \cup Firsts(pending),
           free' \cap Firsts(pending') = {}, Distinct(pending'),
           HeldBy(r) \cap (free' \cup Firsts(pending')) = {},
           Singles(r) \cap Bulks(r) = {}
    PROVE  Placed'
<1>1. Groups' = Groups /\ cfg' = cfg
  BY DEF Groups
<1>2. \A h \in Groups : group'[h] = IF h = g THEN r ELSE group[h]
  BY DEF Types
<1> DEFINE old == HeldBy(group[g])
           pool2 == free' \cup Firsts(pending')
           pool1 == free \cup Firsts(pending)
           Others == {h \in Groups : h # g}
           rest == UNION {HeldBy(group[h]) : h \in Others}
<1>3. /\ UNION {HeldBy(group[h]) : h \in Groups} = old \cup rest
      /\ UNION {HeldBy(group'[h]) : h \in Groups} = HeldBy(r) \cup rest
  BY <1>2
<1>4. free' \cup Firsts(pending') \cup UNION {HeldBy(group'[h]) : h \in Groups} = cfg.buffers
  BY <1>3 DEF Placed
<1>5. ASSUME NEW h \in Groups, h # g
      PROVE  /\ HeldBy(group[h]) \cap pool1 = {} /\ HeldBy(group[h]) \cap old = {}
             /\ HeldBy(group[h]) \cap pool2 = {} /\ HeldBy(group[h]) \cap HeldBy(r) = {}
  <2>1. HeldBy(group[h]) \cap pool1 = {} /\ HeldBy(group[h]) \cap old = {}
    BY <1>5 DEF Placed
  <2>. QED
    BY <2>1
<1>6. \A h \in Groups : /\ HeldBy(group'[h]) \cap pool2 = {}
                        /\ Singles(group'[h]) \cap Bulks(group'[h]) = {}
  BY <1>2, <1>5 DEF Placed
<1>7. \A h, k \in Groups : h # k => HeldBy(group'[h]) \cap HeldBy(group'[k]) = {}
  <2> SUFFICES ASSUME NEW h \in Groups, NEW k \in Groups, h # k
               PROVE  HeldBy(group'[h]) \cap HeldBy(group'[k]) = {}
    OBVIOUS
  <2>1. CASE h # g /\ k # g
    BY <1>2, <2>1 DEF Placed
  <2>2. CASE h = g
    BY <1>2, <1>5, <2>2
  <2>3. CASE k = g
    BY <1>2, <1>5, <2>3
  <2>. QED
    BY <2>1, <2>2, <2>3
<1>. QED
  BY <1>1, <1>4, <1>6, <1>7 DEF Placed

\* Nothing is lent, or returned, between two calls but by the call itself.
LEMMA LentStep ==
    ASSUME Types, Running, NEW g \in Groups, ~Lent(cfg.calls, g, pos + 1)
    PROVE  /\ ~ (Call.do = "launchOffload" /\ Call.g = g)
           /\ ~ (Call.do = "waitLoad" /\ Call.g = g) => ~Lent(cfg.calls, g, pos)
<1> DEFINE calls == cfg.calls
<1>1. pos \in Nat \ {0}
  BY DEF Types
<1>2. ASSUME Call.do = "launchOffload", Call.g = g PROVE FALSE
  <2>1. pos \in 1 .. pos /\ \A j \in pos + 1 .. pos : FALSE
    BY <1>1
  <2>2. Lent(calls, g, pos + 1)
    BY <1>1, <1>2, <2>1 DEF Lent, Call
  <2>. QED
    BY <2>2
<1>3. ASSUME ~ (Call.do = "waitLoad" /\ Call.g = g), Lent(calls, g, pos) PROVE FALSE
  <2>1. PICK k \in 1 .. pos - 1 :
          /\ calls[k].do = "launchOffload" /\ calls[k].g = g
          /\ \A j \in k + 1 .. pos - 1 : ~ (calls[j].do = "waitLoad" /\ calls[j].g = g)
    BY <1>3 DEF Lent
  <2>2. k \in 1 .. pos /\ \A j \in k + 1 .. pos : j \in k + 1 .. pos - 1 \/ j = pos
    BY <1>1
  <2>3. \A j \in k + 1 .. pos : ~ (calls[j].do = "waitLoad" /\ calls[j].g = g)
    BY <1>3, <2>1, <2>2 DEF Call
  <2>4. (pos + 1) - 1 = pos
    BY <1>1
  <2>5. Lent(calls, g, pos + 1)
    BY <2>1, <2>2, <2>3, <2>4 DEF Lent
  <2>. QED
    BY <2>5
<1>. QED
  BY <1>2, <1>3

LEMMA CallReturns ==
    ASSUME Types, Returned, NEW do, NEW g \in Groups, NEW r, Calls(do, g), Return,
           group' = [group EXCEPT ![g] = r], IsGroup(r),
           ~r.live => r.tensors = <<>> /\ HeldBy(r) = {},
           \/ do = "launchOffload" \/ HeldBy(r) = {}
           \/ do # "waitLoad" /\ HeldBy(r) = HeldBy(group[g])
    PROVE  Types' /\ Returned'
<1>1. /\ UNCHANGED << cfg, it, phase, faults >> /\ pos' = pos + 1 /\ Groups' = Groups
      /\ phase = "run" /\ pos <= Len(cfg.calls) /\ Running /\ Call.do = do /\ Call.g = g
  BY DEF Return, Calls, Running, Groups
<1>2. /\ \A h \in Groups : group'[h] = IF h = g THEN r ELSE group[h]
      /\ group' = [h \in Groups |-> group'[h]]
  BY DEF Types
<1>3. Len(cfg.calls) \in Nat
  BY ConfigAssumption, LenProperties DEF Types
<1>4. Types'
  BY <1>1, <1>2, <1>3 DEF Types
<1>5. ASSUME NEW h \in Groups, ~Lent(cfg.calls, h, pos + 1) PROVE HeldBy(group'[h]) = {}
  <2>1. CASE h # g
    <3>1. ~Lent(cfg.calls, h, pos)
      BY <1>1, <1>5, <2>1, LentStep
    <3>. QED
      BY <1>1, <1>2, <2>1, <3>1 DEF Returned
  <2>2. CASE h = g
    <3>1. do # "launchOffload"
      BY <1>1, <1>5, <2>2, LentStep
    <3>2. do # "waitLoad" => HeldBy(group[g]) = {}
      BY <1>1, <1>5, <2>2, LentStep DEF Returned
    <3>. QED
      BY <1>2, <2>2, <3>1, <3>2
  <2>. QED
    BY <2>1, <2>2
<1>6. \A h \in Groups : ~group'[h].live => group'[h].tensors = <<>> /\ HeldBy(group'[h]) = {}
  BY <1>2 DEF Returned
<1>7. phase' # "over" /\ cfg' = cfg /\ pos' = pos + 1
  BY <1>1
<1>8. Returned'
  BY <1>1, <1>5, <1>6, <1>7 DEF Returned
<1>. QED
  BY <1>4, <1>8

LEMMA CallThrows ==
    ASSUME Types, Returned, NEW g \in Groups, NEW r, Throw,
           group' = [group EXCEPT ![g] = r], IsGroup(r),
           ~r.live => r.tensors = <<>> /\ HeldBy(r) = {}
    PROVE  Types' /\ Returned'
<1>1. UNCHANGED << cfg, it, pos >> /\ phase' = "closing" /\ Groups' = Groups
  BY DEF Throw, Groups
<1>2. /\ \A h \in Groups : group'[h] = IF h = g THEN r ELSE group[h]
      /\ group' = [h \in Groups |-> group'[h]]
  BY DEF Types
<1>3. Types'
  BY <1>1, <1>2 DEF Types
<1>4. \A h \in Groups : ~group'[h].live => group'[h].tensors = <<>> /\ HeldBy(group'[h]) = {}
  BY <1>2 DEF Returned
<1>5. Returned'
  BY <1>1, <1>4 DEF Returned
<1>. QED
  BY <1>3, <1>5

-----------------------------------------------------------------------------
\* Calls that leave every buffer where it is.
LEMMA HoldsOn ==
    ASSUME Types, Placed, NEW g \in Groups, NEW r, UNCHANGED << cfg, free, pending >>,
           group' = [group EXCEPT ![g] = r],
           Singles(r) = Singles(group[g]), Bulks(r) = Bulks(group[g])
    PROVE  Placed' /\ HeldBy(r) = HeldBy(group[g])
<1>1. HeldBy(r) = HeldBy(group[g])
  BY DEF HeldBy
<1>2. /\ HeldBy(r) \cap (free \cup Firsts(pending)) = {}
      /\ Singles(r) \cap Bulks(r) = {} /\ free \cap Firsts(pending) = {} /\ Distinct(pending)
  BY <1>1 DEF Placed
<1>3. free' = free /\ pending' = pending
  OBVIOUS
<1>4. HeldBy(r) \cup free' \cup Firsts(pending') = HeldBy(group[g]) \cup free \cup Firsts(pending)
  BY <1>1, <1>3
<1>5. /\ free' \cap Firsts(pending') = {} /\ Distinct(pending')
      /\ HeldBy(r) \cap (free' \cup Firsts(pending')) = {}
  BY <1>2, <1>3
<1>6. Placed'
  BY <1>2, <1>4, <1>5, Redistributed
<1>. QED
  BY <1>1, <1>6

\* A change of states only.
LEMMA BecomeKeeps ==
    ASSUME NEW tensors, IsTensors(tensors), NEW ks, NEW state
    PROVE  /\ IsTensors(Become(tensors, ks, state))
           /\ {t.buffer : t \in ToSet(Become(tensors, ks, state))}
                 = {t.buffer : t \in ToSet(tensors)}
           /\ tensors = <<>> => Become(tensors, ks, state) = <<>>
<1> DEFINE after == Become(tensors, ks, state)
<1>1. /\ Len(tensors) \in Nat /\ DOMAIN tensors = 1 .. Len(tensors)
      /\ \A k \in DOMAIN tensors : IsTensor(tensors[k])
  BY LenProperties DEF IsTensors
<1>2. after = [k \in DOMAIN tensors |-> IF k \in ks THEN [tensors[k] EXCEPT !.state = state]
                                        ELSE tensors[k]]
  BY DEF Become
<1>3. ASSUME NEW k \in DOMAIN tensors
      PROVE  IsTensor(after[k]) /\ after[k].buffer = tensors[k].buffer
  <2> DEFINE t == tensors[k]
  <2>1. IsTensor(t) /\ (after[k] = t \/ after[k] = [t EXCEPT !.state = state])
    BY <1>1, <1>2
  <2> HIDE DEF t
  <2>2. IsTensor(after[k]) /\ after[k].buffer = t.buffer
    <3>1. CASE after[k] = t
      BY <2>1, <3>1
    <3>2. CASE after[k] = [t EXCEPT !.state = state]
      BY <2>1, <3>2 DEF IsTensor
    <3>. QED
      BY <2>1, <3>1, <3>2
  <2>. QED
    BY <2>2 DEF t
<1>4. DOMAIN after = DOMAIN tensors /\ after = [k \in DOMAIN tensors |-> after[k]]
  BY <1>2
<1> HIDE DEF after
<1>5. after \in Seq(ToSet(after))
  BY <1>1, <1>4, Listed
<1>6. IsTensors(after)
  BY <1>3, <1>4, <1>5 DEF IsTensors
<1>7. {t.buffer : t \in ToSet(after)} = {t.buffer : t \in ToSet(tensors)}
  <2>1. /\ {t.buffer : t \in ToSet(after)} = {after[k].buffer : k \in DOMAIN tensors}
        /\ {t.buffer : t \in ToSet(tensors)} = {tensors[k].buffer : k \in DOMAIN tensors}
    BY <1>4 DEF ToSet
  <2>. QED
    BY <1>3, <2>1
<1>8. tensors = <<>> => after = <<>>
  BY <1>4
<1>. QED
  BY <1>6, <1>7, <1>8 DEF after

\* SwapGroup.add: new wrappers have no host buffer.
LEMMA RegisterHolds ==
    ASSUME NEW old, IsTensors(old), NEW new, new \in Seq(ToSet(new))
    PROVE  /\ IsTensors(old \o Register(new))
           /\ {t.buffer : t \in ToSet(old \o Register(new))} \ {NoBuffer}
                 = {t.buffer : t \in ToSet(old)} \ {NoBuffer}
<1> DEFINE reg == Register(new)
           all == old \o reg
           X == ToSet(old) \cup ToSet(reg)
<1>1. Len(new) \in Nat /\ DOMAIN new = 1 .. Len(new)
  BY LenProperties
<1>2. /\ DOMAIN reg = DOMAIN new /\ reg = [k \in DOMAIN new |-> reg[k]]
      /\ \A k \in DOMAIN reg : IsTensor(reg[k]) /\ reg[k].buffer = NoBuffer
  BY DEF Register, IsTensor
<1> HIDE DEF reg
<1>3. reg \in Seq(ToSet(reg)) /\ Len(reg) = Len(new)
  BY <1>1, <1>2, Listed
<1>4. /\ Len(old) \in Nat /\ DOMAIN old = 1 .. Len(old)
      /\ Len(reg) \in Nat /\ DOMAIN reg = 1 .. Len(reg)
      /\ old \in Seq(ToSet(old)) /\ \A k \in DOMAIN old : IsTensor(old[k])
  BY <1>3, LenProperties DEF IsTensors
<1>5. old \in Seq(X) /\ reg \in Seq(X)
  <2>1. ToSet(old) \subseteq X /\ ToSet(reg) \subseteq X
    OBVIOUS
  <2> HIDE DEF X
  <2>. QED
    BY <1>3, <1>4, <2>1, SeqMonotonic
<1>6. /\ all \in Seq(X) /\ Len(all) = Len(old) + Len(reg)
      /\ \A i \in 1 .. Len(old) + Len(reg) :
            all[i] = IF i <= Len(old) THEN old[i] ELSE reg[i - Len(old)]
  BY <1>5, ConcatProperties
<1>7. DOMAIN all = 1 .. Len(old) + Len(reg)
  BY <1>6, LenProperties
<1> DEFINE a == Len(old)
           b == Len(reg)
<1>8. a \in Nat /\ b \in Nat
  BY <1>4
<1> HIDE DEF all, X, a, b
<1>9. \A i \in 1 .. a : i \in DOMAIN all /\ all[i] = old[i]
  BY <1>6, <1>7, <1>8 DEF a, b
<1>10. \A i \in DOMAIN all : \/ i \in 1 .. a /\ all[i] = old[i]
                             \/ i - a \in 1 .. b /\ all[i] = reg[i - a]
  BY <1>6, <1>7, <1>8 DEF a, b
<1>11. \A i \in DOMAIN all : IsTensor(all[i])
  BY <1>2, <1>4, <1>10 DEF a, b
<1>12. all \in Seq(ToSet(all))
  <2>1. all = [i \in 1 .. Len(all) |-> all[i]] /\ Len(all) \in Nat /\ DOMAIN all = 1 .. Len(all)
    BY <1>6, LenProperties, IsASeq
  <2>. QED
    BY <2>1, Listed
<1>13. {t.buffer : t \in ToSet(all)} \ {NoBuffer} = {t.buffer : t \in ToSet(old)} \ {NoBuffer}
  <2>1. /\ {t.buffer : t \in ToSet(all)} = {all[i].buffer : i \in DOMAIN all}
        /\ {t.buffer : t \in ToSet(old)} = {old[i].buffer : i \in DOMAIN old}
    BY DEF ToSet
  <2>2. \A i \in DOMAIN all : all[i].buffer = NoBuffer \/ (i \in DOMAIN old /\ all[i].buffer = old[i].buffer)
    BY <1>2, <1>4, <1>10 DEF a, b
  <2>3. \A i \in DOMAIN old : i \in DOMAIN all /\ all[i].buffer = old[i].buffer
    BY <1>4, <1>9 DEF a
  <2> DEFINE N(q) == {q[i].buffer : i \in DOMAIN q} \ {NoBuffer}
  <2>4. ASSUME NEW x \in N(all) PROVE x \in N(old)
    <3>1. PICK i \in DOMAIN all : x = all[i].buffer /\ x # NoBuffer
      BY <2>4
    <3>. QED BY <2>2, <3>1
  <2>5. ASSUME NEW x \in N(old) PROVE x \in N(all)
    <3>1. PICK i \in DOMAIN old : x = old[i].buffer /\ x # NoBuffer
      BY <2>5
    <3>. QED BY <2>3, <3>1
  <2>6. N(all) = N(old)
    <3> HIDE DEF N
    <3>. QED BY <2>4, <2>5
  <2>. QED
    BY <2>1, <2>6
<1>14. IsTensors(all)
  BY <1>11, <1>12 DEF IsTensors
<1>. QED
  BY <1>13, <1>14 DEF all, reg

LEMMA ForwardInv == ASSUME IInv, NEW g \in Groups, Forward(g) PROVE IInv'
<1> DEFINE r == [group[g] EXCEPT !.live = TRUE,
                                 !.tensors = group[g].tensors \o Register(cfg.saved[g])]
<1>1. /\ Calls("forward", g) /\ Return /\ UNCHANGED << free, pending >>
      /\ group' = [group EXCEPT ![g] = r]
  BY DEF Forward
<1>2. /\ Types /\ Placed /\ Returned /\ IsGroup(group[g]) /\ UNCHANGED cfg
  BY <1>1 DEF IInv, Types, Return
<1>3. cfg.saved[g] \in Seq(ToSet(cfg.saved[g]))
  BY <1>2, ConfigAssumption DEF Types, Groups
<1>4. /\ IsTensors(group[g].tensors \o Register(cfg.saved[g]))
      /\ {t.buffer : t \in ToSet(group[g].tensors \o Register(cfg.saved[g]))} \ {NoBuffer}
            = {t.buffer : t \in ToSet(group[g].tensors)} \ {NoBuffer}
  BY <1>2, <1>3, RegisterHolds DEF IsGroup
<1> DEFINE new == group[g].tensors \o Register(cfg.saved[g])
<1> HIDE DEF new
<1>5. r = [live |-> TRUE, tensors |-> new, off |-> group[g].off, load |-> group[g].load,
           bulk |-> group[g].bulk]
  <2> DEFINE e == group[g]
  <2>1. e = [live |-> e.live, tensors |-> e.tensors, off |-> e.off, load |-> e.load,
             bulk |-> e.bulk]
    BY <1>2 DEF IsGroup
  <2>2. r = [e EXCEPT !.live = TRUE, !.tensors = new]
    BY DEF new
  <2> HIDE DEF e, r
  <2>3. r = [live |-> TRUE, tensors |-> new, off |-> e.off, load |-> e.load, bulk |-> e.bulk]
    BY <2>1, <2>2
  <2>. QED
    BY <2>3 DEF e
<1> HIDE DEF r
<1>6. IsGroup(r) /\ r.live
  BY <1>4, <1>5 DEF IsGroup, new
<1>7. Singles(r) = Singles(group[g]) /\ Bulks(r) = Bulks(group[g])
  BY <1>4, <1>5 DEF Singles, Bulks, new
<1>8. Placed' /\ HeldBy(r) = HeldBy(group[g])
  BY <1>1, <1>2, <1>7, HoldsOn
<1>9. Types' /\ Returned'
  BY <1>1, <1>2, <1>6, <1>8, CallReturns
<1>. QED
  BY <1>8, <1>9 DEF IInv

\* What a group of new contents holds.
LEMMA Contents ==
    ASSUME NEW live, NEW tensors, NEW off, NEW load, NEW bulk, IsTensors(tensors)
    PROVE  LET r == [live |-> live, tensors |-> tensors, off |-> off, load |-> load, bulk |-> bulk]
           IN  /\ IsGroup(r) /\ r.live = live /\ r.tensors = tensors
               /\ Singles(r) = {t.buffer : t \in ToSet(tensors)} \ {NoBuffer}
               /\ Bulks(r) = {p[2] : p \in bulk}
<1> DEFINE r == [live |-> live, tensors |-> tensors, off |-> off, load |-> load, bulk |-> bulk]
<1>1. /\ r.live = live /\ r.tensors = tensors /\ r.off = off /\ r.load = load /\ r.bulk = bulk
      /\ r = [live |-> live, tensors |-> tensors, off |-> off, load |-> load, bulk |-> bulk]
  OBVIOUS
<1> HIDE DEF r
<1>2. IsGroup(r)
  BY <1>1 DEF IsGroup
<1>3. Singles(r) = {t.buffer : t \in ToSet(tensors)} \ {NoBuffer} /\ Bulks(r) = {p[2] : p \in bulk}
  BY <1>1 DEF Singles, Bulks
<1>. QED
  BY <1>1, <1>2, <1>3 DEF r

LEMMA BackwardInv == ASSUME IInv, NEW g \in Groups, Backward(g) PROVE IInv'
<1> DEFINE r == group[g]
<1>1. /\ Calls("backward", g) /\ Return /\ UNCHANGED << cfg, free, pending >>
      /\ group' = [group EXCEPT ![g] = r]
  BY DEF Backward, Return, IInv, Types
<1>2. Types /\ Placed /\ Returned /\ IsGroup(r)
  BY DEF IInv, Types
<1>3. Placed' /\ HeldBy(r) = HeldBy(group[g])
  BY <1>1, <1>2, HoldsOn
<1>4. ~r.live => r.tensors = <<>> /\ HeldBy(r) = {}
  BY <1>2 DEF Returned
<1>5. Types' /\ Returned'
  <2> HIDE DEF r
  <2>. QED
    BY <1>1, <1>2, <1>3, <1>4, CallReturns
<1>. QED
  BY <1>3, <1>5 DEF IInv

LEMMA WaitOffloadInv == ASSUME IInv, NEW g \in Groups, WaitOffload(g) PROVE IInv'
<1> DEFINE e == group[g]
           new == Become(e.tensors, Moves(e.tensors, "d2h"), "host")
           r == [e EXCEPT !.off = NoEvent, !.tensors = new]
<1>1. /\ Calls("waitOffload", g) /\ Return /\ UNCHANGED << cfg, free, pending >>
      /\ group' = [group EXCEPT ![g] = r]
  BY DEF WaitOffload, Return
<1>2. Types /\ Placed /\ Returned /\ IsGroup(e)
  BY DEF IInv, Types
<1>3. /\ IsTensors(new) /\ {t.buffer : t \in ToSet(new)} = {t.buffer : t \in ToSet(e.tensors)}
      /\ e.tensors = <<>> => new = <<>>
  BY <1>2, BecomeKeeps DEF IsGroup
<1>4. r = [live |-> e.live, tensors |-> new, off |-> NoEvent, load |-> e.load, bulk |-> e.bulk]
  <2>1. e = [live |-> e.live, tensors |-> e.tensors, off |-> e.off, load |-> e.load,
             bulk |-> e.bulk]
    BY <1>2 DEF IsGroup
  <2>2. r = [e EXCEPT !.off = NoEvent, !.tensors = new]
    OBVIOUS
  <2> HIDE DEF e, new, r
  <2>. QED
    BY <2>1, <2>2
<1> HIDE DEF r, new
<1>5. /\ IsGroup(r) /\ r.live = e.live /\ r.tensors = new
      /\ Singles(r) = {t.buffer : t \in ToSet(new)} \ {NoBuffer}
      /\ Bulks(r) = {p[2] : p \in e.bulk}
  BY <1>3, <1>4, Contents
<1>6. Singles(r) = Singles(e) /\ Bulks(r) = Bulks(e)
  BY <1>3, <1>5 DEF Singles, Bulks
<1>7. Placed' /\ HeldBy(r) = HeldBy(e)
  BY <1>1, <1>2, <1>6, HoldsOn
<1>8. ~r.live => r.tensors = <<>> /\ HeldBy(r) = {}
  BY <1>2, <1>3, <1>5, <1>7 DEF Returned
<1>9. Types' /\ Returned'
  BY <1>1, <1>2, <1>5, <1>7, <1>8, CallReturns
<1>. QED
  BY <1>7, <1>9 DEF IInv

LEMMA LaunchLoadInv == ASSUME IInv, NEW g \in Groups, LaunchLoad(g) PROVE IInv'
<1> DEFINE e == group[g]
           new == Become(e.tensors, Moves(e.tensors, "host"), "h2d")
           r == [e EXCEPT !.load = Event(2), !.tensors = new]
<1>1. /\ Calls("launchLoad", g) /\ Return /\ UNCHANGED << cfg, free, pending >>
      /\ group' = [group EXCEPT ![g] = r]
  BY DEF LaunchLoad, Return
<1>2. Types /\ Placed /\ Returned /\ IsGroup(e)
  BY DEF IInv, Types
<1>3. /\ IsTensors(new) /\ {t.buffer : t \in ToSet(new)} = {t.buffer : t \in ToSet(e.tensors)}
      /\ e.tensors = <<>> => new = <<>>
  BY <1>2, BecomeKeeps DEF IsGroup
<1>4. r = [live |-> e.live, tensors |-> new, off |-> e.off, load |-> Event(2), bulk |-> e.bulk]
  <2>1. e = [live |-> e.live, tensors |-> e.tensors, off |-> e.off, load |-> e.load,
             bulk |-> e.bulk]
    BY <1>2 DEF IsGroup
  <2>2. r = [e EXCEPT !.load = Event(2), !.tensors = new]
    OBVIOUS
  <2> HIDE DEF e, new, r
  <2>. QED
    BY <2>1, <2>2
<1> HIDE DEF r, new
<1>5. /\ IsGroup(r) /\ r.live = e.live /\ r.tensors = new
      /\ Singles(r) = {t.buffer : t \in ToSet(new)} \ {NoBuffer}
      /\ Bulks(r) = {p[2] : p \in e.bulk}
  BY <1>3, <1>4, Contents
<1>6. Singles(r) = Singles(e) /\ Bulks(r) = Bulks(e)
  BY <1>3, <1>5 DEF Singles, Bulks
<1>7. Placed' /\ HeldBy(r) = HeldBy(e)
  BY <1>1, <1>2, <1>6, HoldsOn
<1>8. ~r.live => r.tensors = <<>> /\ HeldBy(r) = {}
  BY <1>2, <1>3, <1>5, <1>7 DEF Returned
<1>9. Types' /\ Returned'
  BY <1>1, <1>2, <1>5, <1>7, <1>8, CallReturns
<1>. QED
  BY <1>7, <1>9 DEF IInv

LEMMA LoadRaisesInv == ASSUME IInv, NEW g \in Groups, NEW n, LoadRaises(g, n) PROVE IInv'
<1> DEFINE e == group[g]
           r == [e EXCEPT !.load = Event(2)]
<1>1. /\ Throw /\ UNCHANGED << cfg, free, pending >> /\ group' = [group EXCEPT ![g] = r]
  BY DEF LoadRaises, Throw
<1>2. Types /\ Placed /\ Returned /\ IsGroup(e)
  BY DEF IInv, Types
<1>4. r = [live |-> e.live, tensors |-> e.tensors, off |-> e.off, load |-> Event(2), bulk |-> e.bulk]
  <2> HIDE DEF e
  <2>. QED
    BY <1>2 DEF IsGroup
<1> HIDE DEF r
<1>5. /\ IsGroup(r) /\ r.live = e.live /\ r.tensors = e.tensors
      /\ Singles(r) = {t.buffer : t \in ToSet(e.tensors)} \ {NoBuffer}
      /\ Bulks(r) = {p[2] : p \in e.bulk}
  BY <1>2, <1>4, Contents DEF IsGroup
<1>6. Singles(r) = Singles(e) /\ Bulks(r) = Bulks(e)
  BY <1>5 DEF Singles, Bulks
<1>7. Placed' /\ HeldBy(r) = HeldBy(e)
  BY <1>1, <1>2, <1>6, HoldsOn
<1>8. ~r.live => r.tensors = <<>> /\ HeldBy(r) = {}
  BY <1>2, <1>5, <1>7 DEF Returned
<1>9. Types' /\ Returned'
  BY <1>1, <1>2, <1>5, <1>8, CallThrows
<1>. QED
  BY <1>7, <1>9 DEF IInv

\* The host between calls, an exception of somebody else, and the device.
LEMMA OthersInv ==
    ASSUME IInv, CallRaises \/ EndIteration \/ NextRun \/ ComputeStream \/ CopyStream \/ UNCHANGED vars
    PROVE  IInv'
<1>1. UNCHANGED << cfg, group, free, pending >> /\ Groups' = Groups
  BY DEF CallRaises, Throw, EndIteration, NextRun, ComputeStream, CopyStream, vars, hostVars, Groups
<1>2. Types /\ Placed /\ Returned
  BY DEF IInv
<1>3. Placed'
  BY <1>1, <1>2 DEF Placed
<1>4. Len(cfg.calls) \in Nat
  BY <1>2, ConfigAssumption, LenProperties DEF Types
<1>5. ASSUME pos' = pos, phase' = phase PROVE Types' /\ Returned'
  BY <1>1, <1>2, <1>5 DEF Types, Returned
<1>6. ASSUME phase' = "closing", pos' = pos PROVE Types' /\ Returned'
  BY <1>1, <1>2, <1>6 DEF Types, Returned
<1>7. ASSUME phase' \in {"run", "over"}, pos' \in {pos, 1}, phase' = "run" => pos' = 1,
             \A g \in Groups : HeldBy(group[g]) = {}
      PROVE  Types' /\ Returned'
  <2>1. Types'
    BY <1>1, <1>2, <1>4, <1>7 DEF Types
  <2>2. Returned'
    BY <1>1, <1>2, <1>7 DEF Returned
  <2>. QED
    BY <2>1, <2>2
<1>8. CASE CallRaises
  BY <1>3, <1>6, <1>8 DEF CallRaises, Throw, IInv
<1>9. CASE EndIteration
  <2>1. CASE phase' = "closing"
    BY <1>3, <1>6, <1>9, <2>1 DEF EndIteration, IInv
  <2>2. CASE phase' = "run"
    <3>1. phase = "run" /\ pos = Len(cfg.calls) + 1
      BY <1>2, <1>4, <1>9 DEF EndIteration, Types
    <3>2. \A g \in Groups : ~Lent(cfg.calls, g, pos)
      BY <1>2, <3>1, ConfigAssumption DEF Types, Groups
    <3>3. \A g \in Groups : HeldBy(group[g]) = {}
      BY <1>2, <3>1, <3>2 DEF Returned
    <3>. QED
      BY <1>3, <1>7, <1>9, <2>2, <3>3 DEF EndIteration, IInv
  <2>. QED
    BY <1>9, <2>1, <2>2 DEF EndIteration
<1>10. CASE NextRun
  <2>1. \A g \in Groups : HeldBy(group[g]) = {}
    BY <1>2, <1>10 DEF NextRun, Closed, Returned
  <2>. QED
    BY <1>3, <1>7, <1>10, <2>1 DEF NextRun, IInv
<1>11. CASE ComputeStream \/ CopyStream \/ UNCHANGED vars
  BY <1>3, <1>5, <1>11 DEF ComputeStream, CopyStream, vars, hostVars, IInv
<1>. QED
  BY <1>8, <1>9, <1>10, <1>11

-----------------------------------------------------------------------------
\* Buffers given back: each is free or pending behind one event.
IsReturn(back, buffers) ==
    /\ back.free \cup Firsts(back.pending) = buffers
    /\ back.free \cap Firsts(back.pending) = {}
    /\ Distinct(back.pending)

LEMMA ReturnsAll ==
    ASSUME NEW buffers, NEW bulk, NEW event
    PROVE  /\ IsReturn(ReturnSingle(buffers, event), buffers)
           /\ IsReturn(ReturnBulk(bulk, event), {p[2] : p \in bulk})
<1>1. ASSUME NEW B
      PROVE  /\ IsReturn([free |-> B, pending |-> {}], B)
             /\ IsReturn([free |-> {}, pending |-> B \X {event}], B)
  <2>1. Firsts({}) = {} /\ Distinct({})
    BY DEF Firsts, Distinct
  <2>2. Firsts(B \X {event}) = B
    <3>1. \A b \in B : << b, event >> \in B \X {event} /\ << b, event >>[1] = b
      OBVIOUS
    <3>2. \A p \in B \X {event} : p[1] \in B
      OBVIOUS
    <3>. QED
      BY <3>1, <3>2 DEF Firsts
  <2>3. Distinct(B \X {event})
    BY DEF Distinct
  <2>. QED
    BY <2>1, <2>2, <2>3 DEF IsReturn
<1>. QED
  BY <1>1 DEF ReturnSingle, ReturnBulk

LEMMA UnitedPending ==
    ASSUME NEW P, NEW Q, Distinct(P), Distinct(Q), Firsts(P) \cap Firsts(Q) = {}
    PROVE  Firsts(P \cup Q) = Firsts(P) \cup Firsts(Q) /\ Distinct(P \cup Q)
<1>1. Firsts(P \cup Q) = Firsts(P) \cup Firsts(Q)
  BY DEF Firsts
<1>2. Distinct(P \cup Q)
  BY DEF Firsts, Distinct
<1>. QED
  BY <1>1, <1>2

\* A group that gives up all it holds.
LEMMA GivesAll ==
    ASSUME Types, Placed, NEW g \in Groups, NEW r, UNCHANGED cfg,
           group' = [group EXCEPT ![g] = r], HeldBy(r) = {},
           NEW s, IsReturn(s, Singles(group[g])), NEW b, IsReturn(b, Bulks(group[g])),
           free' = free \cup s.free \cup b.free,
           pending' = pending \cup s.pending \cup b.pending
    PROVE  Placed'
<1> DEFINE P == Firsts(pending)
           S == Singles(group[g])
           B == Bulks(group[g])
<1>1. /\ S \cap B = {} /\ S \cap (free \cup P) = {} /\ B \cap (free \cup P) = {}
      /\ free \cap P = {} /\ Distinct(pending) /\ HeldBy(group[g]) = S \cup B
  BY DEF Placed, HeldBy
<1>2. /\ s.free \subseteq S /\ Firsts(s.pending) \subseteq S /\ s.free \cup Firsts(s.pending) = S
      /\ s.free \cap Firsts(s.pending) = {} /\ Distinct(s.pending)
      /\ b.free \subseteq B /\ Firsts(b.pending) \subseteq B /\ b.free \cup Firsts(b.pending) = B
      /\ b.free \cap Firsts(b.pending) = {} /\ Distinct(b.pending)
  BY DEF IsReturn
<1> HIDE DEF P, S, B
<1>3. /\ Firsts(pending \cup s.pending) = P \cup Firsts(s.pending)
      /\ Distinct(pending \cup s.pending)
  <2>1. P \cap Firsts(s.pending) = {}
    BY <1>1, <1>2
  <2>. QED
    BY <1>1, <1>2, <2>1, UnitedPending DEF P
<1>4. /\ Firsts(pending') = P \cup Firsts(s.pending) \cup Firsts(b.pending)
      /\ Distinct(pending')
  <2>1. (P \cup Firsts(s.pending)) \cap Firsts(b.pending) = {}
    BY <1>1, <1>2
  <2>2. Firsts(pending \cup s.pending) \cap Firsts(b.pending) = {}
    BY <1>3, <2>1
  <2>. QED
    BY <1>2, <1>3, <2>2, UnitedPending
<1>5. free' \cap Firsts(pending') = {}
  BY <1>1, <1>2, <1>4
<1>6. HeldBy(r) \cup free' \cup Firsts(pending') = HeldBy(group[g]) \cup free \cup P
  BY <1>1, <1>2, <1>4
<1>7. Singles(r) \cap Bulks(r) = {} /\ HeldBy(r) \cap (free' \cup Firsts(pending')) = {}
  BY DEF HeldBy
<1>. QED
  BY <1>4, <1>5, <1>6, <1>7, Redistributed DEF P

LEMMA EmptyHolds ==
    ASSUME NEW r, r.tensors = <<>>, r.bulk = {}
    PROVE  HeldBy(r) = {}
<1>1. ToSet(r.tensors) = {}
  BY DEF ToSet
<1>. QED
  BY <1>1 DEF HeldBy, Singles, Bulks

LEMMA NoTensors == IsTensors(<<>>)
<1>1. ToSet(<<>>) = {} /\ DOMAIN <<>> = {}
  BY DEF ToSet
<1>. QED
  BY <1>1, EmptySeq DEF IsTensors

LEMMA WaitLoadInv == ASSUME IInv, NEW g \in Groups, WaitLoad(g) PROVE IInv'
<1> DEFINE e == group[g]
           r == [e EXCEPT !.load = NoEvent, !.bulk = {}, !.tensors = <<>>]
           s == ReturnSingle(SingleBuffers(g), e.load)
           b == ReturnBulk(e.bulk, e.load)
<1>1. /\ Calls("waitLoad", g) /\ Return /\ UNCHANGED cfg
      /\ group' = [group EXCEPT ![g] = r]
      /\ free' = free \cup s.free \cup b.free
      /\ pending' = pending \cup s.pending \cup b.pending
  BY DEF WaitLoad, Return
<1>2. Types /\ Placed /\ Returned /\ IsGroup(e)
  BY DEF IInv, Types
<1>3. r = [live |-> e.live, tensors |-> <<>>, off |-> e.off, load |-> NoEvent, bulk |-> {}]
  <2>1. e = [live |-> e.live, tensors |-> e.tensors, off |-> e.off, load |-> e.load,
             bulk |-> e.bulk]
    BY <1>2 DEF IsGroup
  <2>2. r = [e EXCEPT !.load = NoEvent, !.bulk = {}, !.tensors = <<>>]
    OBVIOUS
  <2> HIDE DEF e, r
  <2>. QED
    BY <2>1, <2>2
<1>4. IsReturn(s, Singles(e)) /\ IsReturn(b, Bulks(e))
  <2>1. SingleBuffers(g) = Singles(e)
    BY DEF SingleBuffers, Singles
  <2>2. Bulks(e) = {p[2] : p \in e.bulk}
    BY DEF Bulks
  <2> HIDE DEF e
  <2>. QED
    BY <2>1, <2>2, ReturnsAll
<1> HIDE DEF r, s, b
<1>5. IsGroup(r) /\ r.tensors = <<>> /\ r.bulk = {}
  <2>1. IsGroup(r) /\ r.tensors = <<>>
    BY <1>3, NoTensors, Contents
  <2>. QED
    BY <1>3, <2>1
<1>6. HeldBy(r) = {}
  BY <1>5, EmptyHolds
<1>7. Placed'
  BY <1>1, <1>2, <1>4, <1>6, GivesAll
<1>8. Types' /\ Returned'
  BY <1>1, <1>2, <1>5, <1>6, CallReturns
<1>. QED
  BY <1>7, <1>8 DEF IInv

LEMMA ReleaseStorageInv == ASSUME IInv, NEW g \in Groups, ReleaseStorage(g) PROVE IInv'
<1> DEFINE e == group[g]
           r == [e EXCEPT !.tensors = <<>>]
<1>1. /\ Calls("releaseStorage", g) /\ Return /\ UNCHANGED << cfg, free, pending >>
      /\ group' = [group EXCEPT ![g] = r]
  BY DEF ReleaseStorage, Return
<1>2. Types /\ Placed /\ Returned /\ IsGroup(e)
  BY DEF IInv, Types
<1>3. r = [live |-> e.live, tensors |-> <<>>, off |-> e.off, load |-> e.load, bulk |-> e.bulk]
  <2>1. e = [live |-> e.live, tensors |-> e.tensors, off |-> e.off, load |-> e.load,
             bulk |-> e.bulk]
    BY <1>2 DEF IsGroup
  <2>2. r = [e EXCEPT !.tensors = <<>>]
    OBVIOUS
  <2> HIDE DEF e, r
  <2>. QED
    BY <2>1, <2>2
<1>4. HeldBy(e) = {}
  <2>1. /\ phase = "run" /\ cfg.calls[pos].do = "releaseStorage" /\ cfg.calls[pos].g = g
        /\ pos \in 1 .. Len(cfg.calls)
    BY <1>1, <1>2 DEF Calls, Running, Call, Types
  <2>2. ~Lent(cfg.calls, g, pos)
    <3>1. DOMAIN cfg.calls = 1 .. Len(cfg.calls)
      BY <1>2, ConfigAssumption, LenProperties DEF Types
    <3>. QED
      BY <1>2, <2>1, <3>1, ConfigAssumption DEF Types, Groups
  <2>. QED
    BY <1>2, <2>1, <2>2 DEF Returned
<1> HIDE DEF r
<1>5. /\ IsGroup(r) /\ r.tensors = <<>>
      /\ Singles(r) = {t.buffer : t \in ToSet(<<>>)} \ {NoBuffer} /\ Bulks(r) = {p[2] : p \in e.bulk}
  BY <1>3, NoTensors, Contents
<1>6. Singles(r) = {} /\ Bulks(r) = Bulks(e) /\ Singles(e) = {} /\ HeldBy(r) = {}
  <2>1. ToSet(<<>>) = {}
    BY DEF ToSet
  <2>. QED
    BY <1>4, <1>5, <2>1 DEF HeldBy, Bulks
<1>7. Placed'
  BY <1>1, <1>2, <1>6, HoldsOn
<1>8. Types' /\ Returned'
  BY <1>1, <1>2, <1>5, <1>6, CallReturns
<1>. QED
  BY <1>7, <1>8 DEF IInv

LEMMA AbortInv == ASSUME IInv, NEW g \in Groups, Abort(g) PROVE IInv'
<1> DEFINE e == group[g]
           s == ReturnSingle(SingleBuffers(g), IF cfg.explicit THEN NoEvent ELSE Event(3 + g))
           b == ReturnBulk(e.bulk, NoEvent)
<1>1. /\ phase = "closing" /\ UNCHANGED << cfg, hostVars >>
      /\ group' = [group EXCEPT ![g] = EmptyGroup]
      /\ free' = free \cup s.free \cup b.free
      /\ pending' = pending \cup s.pending \cup b.pending
  BY DEF Abort
<1>2. Types /\ Placed /\ Returned
  BY DEF IInv
<1>3. IsReturn(s, Singles(e)) /\ IsReturn(b, Bulks(e))
  <2>1. SingleBuffers(g) = Singles(e)
    BY DEF SingleBuffers, Singles
  <2>2. Bulks(e) = {p[2] : p \in e.bulk}
    BY DEF Bulks
  <2> HIDE DEF e
  <2>. QED
    BY <2>1, <2>2, ReturnsAll
<1> HIDE DEF s, b
<1>4. IsGroup(EmptyGroup) /\ EmptyGroup.tensors = <<>> /\ EmptyGroup.bulk = {}
  BY NoTensors DEF EmptyGroup, IsGroup
<1>5. HeldBy(EmptyGroup) = {}
  BY <1>4, EmptyHolds
<1>6. Placed'
  BY <1>1, <1>2, <1>3, <1>5, GivesAll
<1>7. /\ \A h \in Groups : group'[h] = IF h = g THEN EmptyGroup ELSE group[h]
      /\ group' = [h \in Groups |-> group'[h]] /\ Groups' = Groups
      /\ phase' = "closing" /\ pos' = pos /\ cfg' = cfg
  BY <1>1, <1>2 DEF Types, Groups, hostVars
<1>8. Types'
  BY <1>2, <1>4, <1>7 DEF Types
<1>9. \A h \in Groups : ~group'[h].live => group'[h].tensors = <<>> /\ HeldBy(group'[h]) = {}
  BY <1>2, <1>4, <1>5, <1>7 DEF Returned
<1>10. Returned'
  BY <1>7, <1>9 DEF Returned
<1>. QED
  BY <1>6, <1>8, <1>10 DEF IInv

-----------------------------------------------------------------------------
\* What acquire takes: buffers of the pool, each once.
LEMMA LowestTaken ==
    ASSUME Types, Placed, NEW n \in Nat, Cardinality(Usable) >= n
    PROVE  /\ DOMAIN Lowest(n) = 1 .. n
           /\ \A i \in 1 .. n : /\ Lowest(n)[i] \in free \cup Firsts(pending)
                                /\ Lowest(n)[i] # NoBuffer
           /\ \A i, j \in 1 .. n : Lowest(n)[i] = Lowest(n)[j] => i = j
<1> DEFINE list == InOrder(Usable)
           c == Cardinality(Usable)
<1>1. Usable \subseteq free \cup Firsts(pending)
  BY DEF Usable, Firsts
<1>2. Usable \subseteq cfg.buffers
  BY <1>1 DEF Placed
<1>3. IsFiniteSet(cfg.buffers) /\ cfg.buffers \subseteq Nat \ {0}
  BY ConfigAssumption DEF Types
<1>4. IsFiniteSet(Usable) /\ Usable \subseteq Int
  BY <1>2, <1>3, FS_Subset
<1>5. /\ c \in Nat /\ list \in [1 .. c -> Usable]
      /\ \A i, j \in 1 .. c : list[i] = list[j] => i = j
  <2> HIDE DEF Usable
  <2>. QED
    BY <1>4, InOrderLists
<1>6. n <= c
  BY <1>5
<1> HIDE DEF list, c
<1>7. \A i \in 1 .. n : i \in 1 .. c /\ list[i] \in Usable
  BY <1>5, <1>6
<1>8. /\ Lowest(n) \in Seq(Usable) /\ Len(Lowest(n)) = n
      /\ \A i \in 1 .. n : Lowest(n)[i] = list[i]
  <2> DEFINE U == Usable
  <2>1. \A i \in 1 .. n : list[i] \in U
    BY <1>7
  <2> HIDE DEF U
  <2>2. /\ SubSeq(list, 1, n) \in Seq(U)
        /\ Len(SubSeq(list, 1, n)) = IF 1 <= n THEN n - 1 + 1 ELSE 0
        /\ \A i \in 1 .. n - 1 + 1 : SubSeq(list, 1, n)[i] = list[1 + i - 1]
    BY <2>1, SubSeqProperties
  <2>3. /\ Len(SubSeq(list, 1, n)) = n
        /\ \A i \in 1 .. n : SubSeq(list, 1, n)[i] = list[i]
    BY <2>2
  <2>. QED
    BY <2>2, <2>3 DEF Lowest, list, U
<1>9. DOMAIN Lowest(n) = 1 .. n
  BY <1>8, LenProperties
<1>10. \A i \in 1 .. n : Lowest(n)[i] \in free \cup Firsts(pending) /\ Lowest(n)[i] # NoBuffer
  <2>1. \A i \in 1 .. n : Lowest(n)[i] \in Usable
    BY <1>7, <1>8
  <2>2. NoBuffer \notin Usable
    BY <1>2, <1>3 DEF NoBuffer
  <2>. QED
    BY <1>1, <2>1, <2>2
<1>11. \A i, j \in 1 .. n : Lowest(n)[i] = Lowest(n)[j] => i = j
  BY <1>5, <1>7, <1>8
<1>. QED
  BY <1>9, <1>10, <1>11

\* A group that held nothing keeps some of what was taken; the rest goes back.
LEMMA TakesSome ==
    ASSUME Types, Placed, NEW g \in Groups, HeldBy(group[g]) = {}, UNCHANGED cfg,
           NEW r, group' = [group EXCEPT ![g] = r], Singles(r) \cap Bulks(r) = {},
           NEW T, T \subseteq free \cup Firsts(pending), HeldBy(r) \subseteq T,
           NEW back, IsReturn(back, T \ HeldBy(r)),
           free' = (free \ T) \cup back.free,
           pending' = {p \in pending : p[1] \notin T} \cup back.pending
    PROVE  Placed'
<1> DEFINE left == {p \in pending : p[1] \notin T}
           P == Firsts(pending)
           K == HeldBy(r)
<1>1. free \cap P = {} /\ Distinct(pending)
  BY DEF Placed
<1>2. Firsts(left) = P \ T /\ Distinct(left)
  BY <1>1 DEF Firsts, Distinct
<1>3. /\ back.free \cup Firsts(back.pending) = T \ K
      /\ back.free \cap Firsts(back.pending) = {} /\ Distinct(back.pending)
  BY DEF IsReturn
<1> HIDE DEF left, P, K
<1>4. Firsts(pending') = (P \ T) \cup Firsts(back.pending) /\ Distinct(pending')
  <2>1. Firsts(left) \cap Firsts(back.pending) = {}
    BY <1>2, <1>3
  <2>2. Firsts(left \cup back.pending) = Firsts(left) \cup Firsts(back.pending)
        /\ Distinct(left \cup back.pending)
    BY <1>2, <1>3, <2>1, UnitedPending
  <2>. QED
    BY <1>2, <2>2 DEF left
<1>5. free' \cap Firsts(pending') = {}
  BY <1>1, <1>3, <1>4
<1>6. K \cap (free' \cup Firsts(pending')) = {} /\ K \subseteq T /\ T \subseteq free \cup P
  <2>1. K \subseteq T /\ T \subseteq free \cup P
    BY DEF K, P
  <2>. QED
    BY <1>3, <1>4, <2>1
<1>7. K \cup free' \cup Firsts(pending') = free \cup P
  BY <1>3, <1>4, <1>6
<1>8. HeldBy(r) \cup free' \cup Firsts(pending') = HeldBy(group[g]) \cup free \cup Firsts(pending)
  BY <1>7 DEF K, P
<1>. QED
  BY <1>4, <1>5, <1>6, <1>8, Redistributed DEF K

\* A group to be offloaded has nothing lent to it.
LEMMA OffloadsEmpty ==
    ASSUME Types, Returned, NEW g \in Groups, Calls("launchOffload", g)
    PROVE  HeldBy(group[g]) = {}
<1>1. /\ phase = "run" /\ cfg.calls[pos].do = "launchOffload" /\ cfg.calls[pos].g = g
      /\ pos \in 1 .. Len(cfg.calls)
  BY DEF Calls, Running, Call, Types
<1>2. ~Lent(cfg.calls, g, pos)
  <2>1. DOMAIN cfg.calls = 1 .. Len(cfg.calls)
    BY ConfigAssumption, LenProperties DEF Types
  <2>. QED
    BY <1>1, <2>1, ConfigAssumption DEF Types, Groups
<1>. QED
  BY <1>1, <1>2 DEF Returned

\* Without tensors there is nothing to take a buffer for.
LEMMA NoNeeds == Len(Needs(<<>>)) = 0
<1>1. <<>> \in Seq(ToSet(<<>>)) /\ DOMAIN <<>> = {}
  BY EmptySeq
<1>2. Len(Buckets(<<>>)) = 0
  <2> DEFINE ready(b) == {k \in Moves(<<>>, "device") : <<>>[k].pack = b}
             fullSet == {b \in 1 .. 2 : Cardinality(ready(b)) >= 2}
  <2>1. Moves(<<>>, "device") = {}
    BY DEF Moves
  <2>2. \A b \in 1 .. 2 : ready(b) = {}
    BY <2>1
  <2>3. fullSet = {}
    BY <2>2, FS_EmptySet
  <2>4. Buckets(<<>>) = [i \in DOMAIN InOrder(fullSet) |-> ready(InOrder(fullSet)[i])]
    BY DEF Buckets
  <2>5. DOMAIN InOrder(fullSet) = 1 .. 0
    BY <2>3, FS_EmptySet DEF InOrder
  <2> HIDE DEF fullSet, ready
  <2>6. DOMAIN Buckets(<<>>) = 1 .. 0 /\ Buckets(<<>>) = [i \in 1 .. 0 |-> Buckets(<<>>)[i]]
    BY <2>4, <2>5
  <2>. QED
    BY <2>6, Listed
<1>3. \A i \in 1 .. Len(Needs(<<>>)) : FALSE
  <2> DEFINE none == <<>>
             n == Len(Needs(none))
  <2>1. Len(Buckets(none)) = 0 /\ none \in Seq(ToSet(none)) /\ DOMAIN none = {}
    BY <1>1, <1>2
  <2> HIDE DEF none
  <2>2. \E s : \A i \in 0 + 1 .. n : s[i] \in DOMAIN none
    BY <2>1, NeedsListed
  <2>3. \A i \in 1 .. n : FALSE
    BY <2>1, <2>2
  <2>. QED
    BY <2>3 DEF none
<1>. QED
  BY <1>1, <1>3, NeedsListed

LEMMA LaunchOffloadInv == ASSUME IInv, NEW g \in Groups, LaunchOffload(g) PROVE IInv'
<1> DEFINE e == group[g]
           n == Len(Needs(e.tensors))
           taken == Lowest(n)
           r == Offloading(g, n, taken)
           b == Len(Buckets(e.tensors))
<1>1. /\ Calls("launchOffload", g) /\ Return /\ UNCHANGED cfg /\ Cardinality(Usable) >= n
      /\ group' = [group EXCEPT ![g] = r] /\ Take(ToSet(taken))
  BY DEF LaunchOffload, Return
<1>2. Types /\ Placed /\ Returned /\ IsGroup(e) /\ e.tensors \in Seq(ToSet(e.tensors))
  BY DEF IInv, Types, IsGroup, IsTensors
<1>3. n \in Nat /\ b \in Nat /\ b <= n
  BY <1>2, NeedsListed
<1>4. HeldBy(e) = {}
  BY <1>1, <1>2, OffloadsEmpty
<1> HIDE DEF n, taken, r, b
<1>5. /\ DOMAIN taken = 1 .. n
      /\ \A i \in 1 .. n : taken[i] \in free \cup Firsts(pending) /\ taken[i] # NoBuffer
      /\ \A i, j \in 1 .. n : taken[i] = taken[j] => i = j
  BY <1>1, <1>2, <1>3, LowestTaken DEF taken
<1>6. /\ IsGroup(r) /\ r.live = e.live /\ DOMAIN r.tensors = DOMAIN e.tensors
      /\ Bulks(r) = {taken[i] : i \in {j \in 1 .. n : j <= b}}
      /\ Singles(r) = {taken[i] : i \in {j \in 1 .. n : j > b}}
  <2>1. n <= Len(Needs(group[g].tensors))
    BY <1>3 DEF n
  <2>2. \A i \in 1 .. n : taken[i] # NoBuffer
    BY <1>5
  <2>. QED
    BY <1>2, <1>3, <1>4, <2>1, <2>2, OffloadingHolds DEF r, b
<1>7. Singles(r) \cap Bulks(r) = {}
  BY <1>3, <1>5, <1>6
<1>8. ToSet(taken) = {taken[i] : i \in 1 .. n} /\ HeldBy(r) = ToSet(taken)
  <2>1. ToSet(taken) = {taken[i] : i \in 1 .. n}
    BY <1>5 DEF ToSet
  <2>2. \A i \in 1 .. n : i \in {j \in 1 .. n : j <= b} \/ i \in {j \in 1 .. n : j > b}
    BY <1>3
  <2>. QED
    BY <1>6, <2>1, <2>2 DEF HeldBy
<1> DEFINE back == [free |-> {}, pending |-> {}]
<1>9. IsReturn(back, ToSet(taken) \ HeldBy(r))
  BY <1>8 DEF IsReturn, Firsts, Distinct
<1>10. /\ ToSet(taken) \subseteq free \cup Firsts(pending)
       /\ free' = (free \ ToSet(taken)) \cup back.free
       /\ pending' = {p \in pending : p[1] \notin ToSet(taken)} \cup back.pending
  BY <1>1, <1>5, <1>8 DEF Take
<1>11. Placed'
  <2> HIDE DEF back
  <2>. QED
    BY <1>1, <1>2, <1>4, <1>7, <1>8, <1>9, <1>10, TakesSome
<1>12. ~r.live => r.tensors = <<>> /\ HeldBy(r) = {}
  <2> SUFFICES ASSUME ~r.live PROVE r.tensors = <<>> /\ HeldBy(r) = {}
    OBVIOUS
  <2>1. e.tensors = <<>>
    BY <1>2, <1>6 DEF Returned
  <2>2. n = 0
    BY <2>1, NoNeeds DEF n
  <2>3. DOMAIN r.tensors = {} /\ r.tensors \in Seq(ToSet(r.tensors))
    BY <1>6, <2>1 DEF IsGroup, IsTensors
  <2>4. r.tensors = <<>>
    BY <2>3
  <2>. QED
    BY <1>8, <2>2, <2>4
<1>13. Types' /\ Returned'
  BY <1>1, <1>2, <1>6, <1>12, CallReturns
<1>. QED
  BY <1>11, <1>13 DEF IInv

\* A failure half-way: what was taken is with the group or was given back.
LEMMA OffloadRaisesInv ==
    ASSUME IInv, NEW g \in Groups, Calls("launchOffload", g),
           NEW j \in DOMAIN Needs(group[g].tensors), NEW own \in BOOLEAN, OffloadRaises(g, j, own)
    PROVE  IInv'
<1> DEFINE e == group[g]
           n == IF own THEN j ELSE j - 1
           m == j - 1
           taken == Lowest(n)
           b == Len(Buckets(e.tensors))
           bulk == IsBulk(e.tensors, j)
           given == IF bulk THEN ToSet(taken) ELSE ToSet(SubSeq(taken, j, n))
           back == IF bulk THEN ReturnBulk({<< {}, x >> : x \in given}, Event(3))
                   ELSE ReturnSingle(given, Event(3))
           left == Offloading(g, m, taken)
           r == AfterFailure(g, j, taken)
<1>1. /\ Throw /\ UNCHANGED cfg /\ Cardinality(Usable) >= n
      /\ group' = [group EXCEPT ![g] = r] /\ Exchange(ToSet(taken), back)
  BY DEF OffloadRaises, Throw
<1>2. Types /\ Placed /\ Returned /\ IsGroup(e) /\ e.tensors \in Seq(ToSet(e.tensors))
  BY DEF IInv, Types, IsGroup, IsTensors
<1>3. b \in Nat /\ Len(Needs(e.tensors)) \in Nat /\ j \in 1 .. Len(Needs(e.tensors))
  BY <1>2, NeedsListed
<1>4. /\ n \in Nat /\ m \in Nat /\ m <= n /\ n <= j /\ j = m + 1 /\ m <= Len(Needs(e.tensors))
      /\ bulk <=> j <= b
  BY <1>3 DEF IsBulk
<1>5. HeldBy(e) = {}
  BY <1>2, OffloadsEmpty
<1>6. r = IF bulk THEN [left EXCEPT !.bulk = {}] ELSE left
  BY DEF AfterFailure
<1> HIDE DEF n, m, taken, bulk, b, left, r, back
<1>7. /\ DOMAIN taken = 1 .. n
      /\ \A i \in 1 .. n : taken[i] \in free \cup Firsts(pending) /\ taken[i] # NoBuffer
      /\ \A i, k \in 1 .. n : taken[i] = taken[k] => i = k
  BY <1>1, <1>2, <1>4, LowestTaken DEF taken
<1>8. /\ IsGroup(left) /\ left.live = e.live /\ DOMAIN left.tensors = DOMAIN e.tensors
      /\ Bulks(left) = {taken[i] : i \in {k \in 1 .. m : k <= b}}
      /\ Singles(left) = {taken[i] : i \in {k \in 1 .. m : k > b}}
  <2>1. \A i \in 1 .. m : taken[i] # NoBuffer
    BY <1>4, <1>7
  <2>. QED
    BY <1>2, <1>4, <1>5, <2>1, OffloadingHolds DEF left, b
<1>9. ToSet(taken) = {taken[i] : i \in 1 .. n}
  BY <1>7 DEF ToSet
<1>10. /\ IsGroup(r) /\ r.live = left.live /\ r.tensors = left.tensors
       /\ bulk => HeldBy(r) = {}
       /\ ~bulk => HeldBy(r) = {taken[i] : i \in 1 .. m}
       /\ Singles(r) \cap Bulks(r) = {}
  <2>1. CASE bulk
    <3>1. left = [live |-> left.live, tensors |-> left.tensors, off |-> left.off,
                  load |-> left.load, bulk |-> left.bulk] /\ IsTensors(left.tensors)
      BY <1>8 DEF IsGroup
    <3>2. r = [live |-> left.live, tensors |-> left.tensors, off |-> left.off,
               load |-> left.load, bulk |-> {}]
      BY <1>6, <2>1, <3>1
    <3>3. /\ IsGroup(r) /\ r.live = left.live /\ r.tensors = left.tensors
          /\ Singles(r) = {t.buffer : t \in ToSet(left.tensors)} \ {NoBuffer}
          /\ Bulks(r) = {p[2] : p \in {}}
      BY <3>1, <3>2, Contents
    <3>4. \A k \in 1 .. m : k <= b
      BY <1>3, <1>4, <2>1
    <3>5. Singles(r) = Singles(left) /\ Bulks(r) = {}
      BY <3>3 DEF Singles
    <3>6. Singles(left) = {}
      BY <1>4, <1>8, <3>4, <1>3 DEF b
    <3>. QED
      BY <2>1, <3>3, <3>5, <3>6 DEF HeldBy
  <2>2. CASE ~bulk
    <3>1. r = left
      BY <1>6, <2>2
    <3>2. \A i \in 1 .. m : i \in {k \in 1 .. m : k <= b} \/ i \in {k \in 1 .. m : k > b}
      BY <1>3, <1>4 DEF b
    <3>3. HeldBy(left) = {taken[i] : i \in 1 .. m}
      BY <1>8, <3>2 DEF HeldBy
    <3>4. Singles(left) \cap Bulks(left) = {}
      <4>1. \A i, k \in 1 .. m : taken[i] = taken[k] => i = k
        BY <1>4, <1>7
      <4>2. b \in Nat
        BY <1>3 DEF b
      <4>. QED
        BY <1>4, <1>8, <4>1, <4>2
    <3>. QED
      BY <1>8, <2>2, <3>1, <3>3, <3>4
  <2>. QED
    BY <2>1, <2>2
<1>11. given = ToSet(taken) \ HeldBy(r)
  <2>1. CASE bulk
    BY <1>10, <2>1
  <2>2. CASE ~bulk
    <3>1. given = ToSet(SubSeq(taken, j, n))
      BY <2>2
    <3>2. ToSet(SubSeq(taken, j, n)) = {taken[i] : i \in j .. n}
      <4> DEFINE T == ToSet(taken)
                 sub == SubSeq(taken, j, n)
      <4>1. j \in Int /\ n \in Int /\ \A i \in j .. n : taken[i] \in T
        BY <1>3, <1>4, <1>9
      <4> HIDE DEF T
      <4>2. /\ sub \in Seq(T) /\ Len(sub) = IF j <= n THEN n - j + 1 ELSE 0
            /\ \A i \in 1 .. n - j + 1 : sub[i] = taken[j + i - 1]
        BY <4>1, SubSeqProperties
      <4> HIDE DEF sub
      <4>3. DOMAIN sub = 1 .. Len(sub)
        BY <4>2, LenProperties
      <4>4. CASE n = j
        <5>0. j \in Int /\ n - j + 1 = 1 /\ j + 1 - 1 = j /\ j <= n
          BY <1>3, <4>4
        <5>1. DOMAIN sub = {1} /\ sub[1] = taken[j]
          <6>1. Len(sub) = 1 /\ DOMAIN sub = {1}
            BY <4>2, <4>3, <5>0
          <6>2. 1 \in 1 .. n - j + 1
            BY <5>0
          <6>3. sub[1] = taken[j + 1 - 1]
            BY <4>2, <6>2
          <6>. QED
            BY <5>0, <6>1, <6>3
        <5>2. j .. n = {j}
          BY <1>3, <4>4
        <5>. QED
          BY <5>1, <5>2 DEF ToSet, sub
      <4>5. CASE n = m
        <5>1. DOMAIN sub = {} /\ j .. n = {}
          BY <1>3, <1>4, <4>2, <4>3, <4>5
        <5>. QED
          BY <5>1 DEF ToSet, sub
      <4>. QED
        BY <1>4, <4>4, <4>5
    <3>3. \A i \in 1 .. n : i \in 1 .. m \/ i \in j .. n
      BY <1>3, <1>4
    <3>4. \A i \in j .. n : i \in 1 .. n /\ \A k \in 1 .. m : taken[k] # taken[i]
      <4> SUFFICES ASSUME NEW i \in j .. n PROVE i \in 1 .. n /\ \A k \in 1 .. m : taken[k] # taken[i]
        OBVIOUS
      <4>1. i \in 1 .. n /\ \A k \in 1 .. m : k \in 1 .. n /\ k # i
        BY <1>3, <1>4
      <4>. QED
        BY <1>7, <4>1
    <3>5. \A i \in 1 .. m : i \in 1 .. n
      BY <1>4
    <3>. QED
      BY <1>9, <1>10, <2>2, <3>1, <3>2, <3>3, <3>4, <3>5
  <2>. QED
    BY <2>1, <2>2
<1> HIDE DEF given
<1>12. IsReturn(back, given)
  <2>1. {p[2] : p \in {<< {}, x >> : x \in given}} = given
    <3>1. \A x \in given : << {}, x >> \in {<< {}, y >> : y \in given} /\ << {}, x >>[2] = x
      OBVIOUS
    <3>2. \A p \in {<< {}, y >> : y \in given} : p[2] \in given
      OBVIOUS
    <3>. QED
      BY <3>1, <3>2
  <2>2. IsReturn(ReturnBulk({<< {}, x >> : x \in given}, Event(3)), given)
    BY <2>1, ReturnsAll
  <2>. QED
    BY <2>2, ReturnsAll DEF back
<1>13. /\ HeldBy(r) \subseteq ToSet(taken) /\ ToSet(taken) \subseteq free \cup Firsts(pending)
       /\ free' = (free \ ToSet(taken)) \cup back.free
       /\ pending' = {p \in pending : p[1] \notin ToSet(taken)} \cup back.pending
  <2>1. \A i \in 1 .. m : i \in 1 .. n
    BY <1>4
  <2>2. HeldBy(r) \subseteq ToSet(taken)
    BY <1>9, <1>10, <2>1
  <2>. QED
    BY <1>1, <1>7, <1>9, <2>2 DEF Exchange
<1>14. Placed'
  <2>1. IsReturn(back, ToSet(taken) \ HeldBy(r))
    BY <1>11, <1>12
  <2>. QED
    BY <1>1, <1>2, <1>5, <1>10, <1>13, <2>1, TakesSome
<1>15. r.live
  <2> SUFFICES ASSUME ~r.live PROVE FALSE
    OBVIOUS
  <2>1. e.tensors = <<>>
    BY <1>2, <1>8, <1>10 DEF Returned
  <2>2. Len(Needs(e.tensors)) = 0
    BY <2>1, NoNeeds
  <2>. QED
    BY <1>3, <2>2
<1>16. Types' /\ Returned'
  BY <1>1, <1>2, <1>10, <1>15, CallThrows
<1>. QED
  BY <1>14, <1>16 DEF IInv

-----------------------------------------------------------------------------
LEMMA InitInv == Init => IInv
<1> SUFFICES ASSUME Init PROVE IInv
  OBVIOUS
<1>1. /\ cfg \in Configs /\ pos = 1 /\ phase = "run" /\ free = cfg.buffers /\ pending = {}
      /\ group = [g \in Groups |-> EmptyGroup]
  BY DEF Init
<1>2. IsGroup(EmptyGroup) /\ EmptyGroup.tensors = <<>> /\ EmptyGroup.bulk = {}
  BY NoTensors DEF EmptyGroup, IsGroup
<1>3. HeldBy(EmptyGroup) = {} /\ Singles(EmptyGroup) = {}
  BY <1>2, EmptyHolds DEF HeldBy
<1>4. \A g \in Groups : group[g] = EmptyGroup
  BY <1>1
<1>5. Types
  <2>1. Len(cfg.calls) \in Nat
    BY <1>1, ConfigAssumption, LenProperties
  <2>. QED
    BY <1>1, <1>2, <2>1 DEF Types
<1>6. Placed
  <2>1. Firsts({}) = {} /\ Distinct({})
    BY DEF Firsts, Distinct
  <2>2. UNION {HeldBy(group[g]) : g \in Groups} = {}
    BY <1>3, <1>4
  <2>. QED
    BY <1>1, <1>3, <1>4, <2>1, <2>2 DEF Placed
<1>7. Returned
  BY <1>1, <1>2, <1>3, <1>4 DEF Returned
<1>. QED
  BY <1>5, <1>6, <1>7 DEF IInv

LEMMA NextInv == IInv /\ [Next]_vars => IInv'
<1> SUFFICES ASSUME IInv, [Next]_vars PROVE IInv'
  OBVIOUS
<1>1. ASSUME NEW g \in Groups, Host(g) PROVE IInv'
  BY <1>1, ForwardInv, BackwardInv, LaunchOffloadInv, WaitOffloadInv, LaunchLoadInv,
     WaitLoadInv, ReleaseStorageInv, OffloadRaisesInv, LoadRaisesInv, AbortInv DEF Host
<1>2. CASE CallRaises \/ EndIteration \/ NextRun \/ ComputeStream \/ CopyStream \/ UNCHANGED vars
  BY <1>2, OthersInv
<1>3. CASE Finished
  BY <1>3, OthersInv DEF Finished
<1>. QED
  BY <1>1, <1>2, <1>3 DEF Next

\* The invariant says what BuffersAccounted says, without counting.
LEMMA InvAccounts == IInv => BuffersAccounted
<1> SUFFICES ASSUME IInv PROVE BuffersAccounted
  OBVIOUS
<1> DEFINE waiting == Firsts(pending)
           held == UNION {HeldBy(group[g]) : g \in Groups}
<1>1. Types /\ Placed /\ Returned
  BY DEF IInv
<1>2. \A g \in Groups : SingleBuffers(g) = Singles(group[g]) /\ BulkBuffers(g) = Bulks(group[g])
  BY DEF SingleBuffers, BulkBuffers, Singles, Bulks
<1>3. UNION {SingleBuffers(g) \cup BulkBuffers(g) : g \in Groups} = held
  BY <1>2 DEF HeldBy
<1>4. waiting = {p[1] : p \in pending}
  BY DEF Firsts
<1>5. Cardinality(waiting) = Cardinality(pending)
  <2> DEFINE f == [x \in waiting |-> CHOOSE p \in pending : p[1] = x]
  <2>1. IsFiniteSet(waiting)
    <3>1. waiting \subseteq cfg.buffers /\ IsFiniteSet(cfg.buffers)
      BY <1>1, ConfigAssumption DEF Types, Placed
    <3>. QED
      BY <3>1, FS_Subset
  <2>2. \A x \in waiting : f[x] \in pending /\ f[x][1] = x
    BY DEF Firsts
  <2>3. \A p \in pending : p[1] \in waiting /\ f[p[1]] = p
    <3> SUFFICES ASSUME NEW p \in pending PROVE p[1] \in waiting /\ f[p[1]] = p
      OBVIOUS
    <3>1. p[1] \in waiting
      BY DEF Firsts
    <3>2. f[p[1]] \in pending /\ f[p[1]][1] = p[1]
      BY <2>2, <3>1
    <3>. QED
      BY <1>1, <3>1, <3>2 DEF Placed, Distinct
  <2>4. f \in [waiting -> pending]
    BY <2>2
  <2> HIDE DEF f, waiting
  <2>5. f \in Bijection(waiting, pending)
    BY <2>2, <2>3, <2>4 DEF Bijection, Injection, Surjection, IsInjective
  <2>6. ExistsBijection(waiting, pending)
    BY <2>5 DEF ExistsBijection
  <2>. QED
    BY <2>1, <2>6, FS_Bijection
<1>6. /\ free \cup waiting \cup held = cfg.buffers /\ free \cap waiting = {}
      /\ held \cap (free \cup waiting) = {}
  BY <1>1 DEF Placed
<1>7. \A g, h \in Groups : g # h => (SingleBuffers(g) \cup BulkBuffers(g))
                                    \cap (SingleBuffers(h) \cup BulkBuffers(h)) = {}
  BY <1>1, <1>2 DEF Placed, HeldBy
<1>8. \A g \in Groups : SingleBuffers(g) \cap BulkBuffers(g) = {}
  BY <1>1, <1>2 DEF Placed
<1>9. phase = "over" => held = {}
  BY <1>1 DEF Returned
<1> HIDE DEF waiting, held
<1>. QED
  BY <1>3, <1>4, <1>5, <1>6, <1>7, <1>8, <1>9 DEF BuffersAccounted

\* No host buffer is lost or handed out twice, whatever raises where: each is
\* in the pool, pending behind one event, or with one tensor or bucket of one
\* group; and none is left behind once a chain or session is over.
THEOREM BuffersNeverLost == Spec => []BuffersAccounted
  BY InitInv, NextInv, InvAccounts, PTL DEF Spec
=============================================================================
