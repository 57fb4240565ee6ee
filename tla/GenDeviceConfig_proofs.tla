------------------------ MODULE GenDeviceConfig_proofs ------------------------
(***************************************************************************)
(* What the generator emits is well formed, for every phone: the ranks of  *)
(* a finite set in order are 0 .. n - 1, so the sorts and picks return     *)
(* what they name, and the rails of a header are the rails of one phone,   *)
(* none of them twice; and a run that ends well has listed them all.       *)
(***************************************************************************)
EXTENDS GenDeviceConfig, FiniteSetTheorems, TLAPS

-------------------------------------------------------------------------------
(* Sorting. *)

LEMMA RankGrows ==
  ASSUME NEW S, IsFiniteSet(S), NEW lt, Orders(lt, S),
         NEW x \in S, NEW y \in S, <<x, y>> \in lt
  PROVE  Rank(S, lt, x) < Rank(S, lt, y)
<1> DEFINE below(z) == {u \in S : <<u, z>> \in lt}
<1>1. IsFiniteSet(below(x)) /\ IsFiniteSet(below(y))
  BY FS_Subset
<1>2. below(x) \in SUBSET below(y)
  BY DEF Orders
<1>3. below(x) # below(y)
  BY DEF Orders
<1>4. Cardinality(below(x)) <= Cardinality(below(y))
  BY <1>1, <1>2, FS_Subset
<1>5. Cardinality(below(x)) # Cardinality(below(y))
  BY <1>1, <1>2, <1>3, FS_Subset
<1>6. Cardinality(below(x)) \in Nat /\ Cardinality(below(y)) \in Nat
  BY <1>1, FS_CardinalityType
<1> HIDE DEF below
<1>7. Cardinality(below(x)) < Cardinality(below(y))
  BY <1>4, <1>5, <1>6
<1> QED
  BY <1>7 DEF Rank, below

LEMMA RankRange ==
  ASSUME NEW S, IsFiniteSet(S), NEW lt, Orders(lt, S), NEW x \in S
  PROVE  Rank(S, lt, x) \in 0..(Cardinality(S) - 1)
<1> DEFINE below == {u \in S : <<u, x>> \in lt}
<1>1. below \in SUBSET (S \ {x})
  BY DEF Orders
<1>2. IsFiniteSet(S \ {x}) /\ Cardinality(S \ {x}) = Cardinality(S) - 1
  BY FS_RemoveElement
<1>3. IsFiniteSet(below) /\ Cardinality(below) <= Cardinality(S) - 1
  BY <1>1, <1>2, FS_Subset
<1>4. Cardinality(below) \in Nat /\ Cardinality(S) \in Nat
  BY <1>3, FS_CardinalityType
<1> HIDE DEF below
<1>5. Cardinality(below) \in 0..(Cardinality(S) - 1)
  BY <1>3, <1>4
<1> QED
  BY <1>5 DEF Rank, below

\* Every index of the sorted list has an element.
LEMMA NthRank ==
  ASSUME NEW S, IsFiniteSet(S), NEW lt, Orders(lt, S), NEW k \in 0..(Cardinality(S) - 1)
  PROVE  Nth(S, lt, k) \in S /\ Rank(S, lt, Nth(S, lt, k)) = k
<1> DEFINE T == 0..(Cardinality(S) - 1)
           f == [x \in S |-> Rank(S, lt, x)]
<1>1. Cardinality(S) \in Nat /\ Cardinality(S) > 0
  BY FS_CardinalityType
<1>2. IsFiniteSet(T) /\ Cardinality(T) = Cardinality(S)
  BY <1>1, FS_Interval
<1>3. f \in [S -> T]
  BY RankRange
<1>4. \A x, y \in S : x # y => f[x] # f[y]
  <2>1. SUFFICES ASSUME NEW x \in S, NEW y \in S, x # y PROVE f[x] # f[y]
    OBVIOUS
  <2>2. Rank(S, lt, x) \in T /\ Rank(S, lt, y) \in T
    BY RankRange
  <2>3. Rank(S, lt, x) < Rank(S, lt, y) \/ Rank(S, lt, y) < Rank(S, lt, x)
    BY <2>1, RankGrows DEF Orders
  <2> QED
    BY <1>1, <2>2, <2>3
<1> HIDE DEF f, T
<1>5. f \in Injection(S, T)
  BY <1>3, <1>4 DEF Injection, IsInjective
<1>6. f \in Surjection(S, T)
  BY <1>2, <1>5, FS_Injection
<1>7. k \in T
  BY DEF T
<1>8. PICK x \in S : f[x] = k
  BY <1>6, <1>7 DEF Surjection
<1>9. Rank(S, lt, x) = k
  BY <1>8 DEF f
<1>10. \E y \in S : Rank(S, lt, y) = k
  BY <1>9
<1> QED
  BY <1>10 DEF Nth

\* The order of numbers.
LEMMA LessOrders ==
  ASSUME NEW S \in SUBSET Nat
  PROVE  Orders(Less(S), S)
BY DEF Orders, Less

\* sorted(...)[k] is an element, and a larger index has no smaller one.
LEMMA NthNumber ==
  ASSUME NEW S \in SUBSET Nat, IsFiniteSet(S),
         NEW j \in 0..(Cardinality(S) - 1), NEW k \in 0..(Cardinality(S) - 1), j <= k
  PROVE  /\ Nth(S, Less(S), j) \in S /\ Nth(S, Less(S), k) \in S
         /\ Nth(S, Less(S), j) <= Nth(S, Less(S), k)
<1> DEFINE x == Nth(S, Less(S), j)
           y == Nth(S, Less(S), k)
<1>1. x \in S /\ y \in S /\ Rank(S, Less(S), x) = j /\ Rank(S, Less(S), y) = k
  BY LessOrders, NthRank
<1> HIDE DEF x, y
<1>2. Cardinality(S) \in Nat
  BY FS_CardinalityType
<1>3. y < x => Rank(S, Less(S), y) < Rank(S, Less(S), x)
  <2>1. y < x => <<y, x>> \in Less(S)
    BY <1>1 DEF Less
  <2> QED
    BY <1>1, <2>1, LessOrders, RankGrows
<1>4. ~(y < x)
  BY <1>1, <1>2, <1>3
<1>5. x <= y
  BY <1>1, <1>4
<1> QED
  BY <1>1, <1>5 DEF x, y

-------------------------------------------------------------------------------
(* Picking frequencies. *)

LEMMA PickIndexRange ==
  ASSUME NEW pct \in Nat, NEW n \in Nat \ {0}
  PROVE  PickIndex(pct, n) \in 0..(n - 1)
<1>1. pct * (n - 1) \in Nat
  OBVIOUS
<1>2. \A a \in Nat : a \div 100 \in Nat
  OBVIOUS
<1>3. Round(pct * (n - 1), 100) \in Nat
  <2> DEFINE a == pct * (n - 1)
  <2>1. a \div 100 \in Nat
    BY <1>1, <1>2
  <2> HIDE DEF a
  <2>2. Round(a, 100) \in {a \div 100, (a \div 100) + 1}
    BY DEF Round
  <2>3. Round(a, 100) \in Nat
    BY <2>1, <2>2
  <2> QED
    BY <2>3 DEF a
<1> DEFINE i == Round(pct * (n - 1), 100)
<1> HIDE DEF i
<1>4. i \in Nat
  BY <1>3 DEF i
<1>5. (IF i < n - 1 THEN i ELSE n - 1) \in 0..(n - 1)
  BY <1>4
<1> QED
  BY <1>5 DEF PickIndex, i

LEMMA FreqTableFacts ==
  ASSUME NEW freqs \in FreqTable
  PROVE  /\ freqs \in SUBSET Nat /\ IsFiniteSet(freqs) /\ 0 \notin freqs
         /\ Cardinality(freqs) \in Nat \ {0}
<1>1. freqs \in SUBSET Nat /\ IsFiniteSet(freqs) /\ 0 \notin freqs /\ freqs # {}
  BY DEF FreqTable
<1>2. Cardinality(freqs) \in Nat /\ Cardinality(freqs) # 0
  BY <1>1, FS_CardinalityType, FS_EmptySet
<1> QED
  BY <1>1, <1>2

\* The two values picked for a mode are in the table, and in order.
LEMMA PickedPair ==
  ASSUME NEW freqs \in FreqTable, NEW mode
  PROVE  LET p == PickFreqPair(freqs, mode)
         IN  p[1] \in freqs /\ p[2] \in freqs /\ 0 < p[1] /\ p[1] <= p[2]
<1> DEFINE n == Cardinality(freqs)
           lo == PickIndex(ModePercentiles(mode)[1], n)
           hi == PickIndex(ModePercentiles(mode)[2], n)
           top == IF hi < lo THEN lo ELSE hi
           a == Nth(freqs, Less(freqs), lo)
           b == Nth(freqs, Less(freqs), top)
<1>1. freqs \in SUBSET Nat /\ IsFiniteSet(freqs) /\ 0 \notin freqs /\ n \in Nat \ {0}
  BY FreqTableFacts
<1>2. ModePercentiles(mode)[1] \in Nat /\ ModePercentiles(mode)[2] \in Nat
  BY DEF ModePercentiles
<1>3. lo \in 0..(n - 1) /\ hi \in 0..(n - 1)
  <2> HIDE DEF n
  <2> QED
    BY <1>1, <1>2, PickIndexRange
<1>4. PickFreqPair(freqs, mode) = <<a, b>>
  BY DEF PickFreqPair
<1>5. lo \in 0..(n - 1) /\ top \in 0..(n - 1) /\ lo <= top
  <2> HIDE DEF n, lo, hi
  <2> QED
    BY <1>1, <1>3
<1>6. a \in freqs /\ b \in freqs /\ a <= b
  <2> HIDE DEF lo, hi, top
  <2> QED
    BY <1>1, <1>5, NthNumber
<1> HIDE DEF a, b
<1>7. 0 < a
  BY <1>1, <1>6
<1> QED
  BY <1>4, <1>6, <1>7

\* The speed of a policy orders the policies that were read.
LEMMA HighestNat ==
  ASSUME NEW freqs \in FreqTable
  PROVE  Highest(freqs) \in Nat
<1>1. freqs \in SUBSET Nat /\ IsFiniteSet(freqs) /\ Cardinality(freqs) \in Nat \ {0}
  BY FreqTableFacts
<1>2. Cardinality(freqs) - 1 \in 0..(Cardinality(freqs) - 1)
  BY <1>1
<1>3. Nth(freqs, Less(freqs), Cardinality(freqs) - 1) \in freqs
  BY <1>1, <1>2, NthNumber
<1> QED
  BY <1>1, <1>3 DEF Highest

LEMMA BySpeedOrders ==
  ASSUME NEW ph \in Phone, NEW S \in SUBSET DOMAIN ph.policies
  PROVE  Orders(BySpeed(ph, S), S)
<1> DEFINE top(n) == Highest(ph.policies[n].freqs)
<1>1. \A n \in S : n \in Nat /\ top(n) \in Nat
  <2>1. \A n \in S : n \in Nat /\ ph.policies[n] \in Policy
    BY PhoneAssumption
  <2>2. \A n \in S : ph.policies[n].freqs \in FreqTable
    BY <2>1 DEF Policy
  <2> QED
    BY <2>1, <2>2, HighestNat
<1>2. \A m, n \in S : <<m, n>> \in BySpeed(ph, S) <=>
        top(m) < top(n) \/ (top(m) = top(n) /\ m < n)
  BY DEF BySpeed
<1> HIDE DEF top
<1> QED
  BY <1>1, <1>2 DEF Orders

\* The r-th cluster has the policy of rank r - 1, and no other cluster has it.
LEMMA ClusterPolicy ==
  ASSUME NEW ph \in Phone, NEW S \in SUBSET DOMAIN ph.policies,
         NEW r \in 1..Cardinality(S)
  PROVE  /\ Nth(S, BySpeed(ph, S), r - 1) \in S
         /\ Rank(S, BySpeed(ph, S), Nth(S, BySpeed(ph, S), r - 1)) = r - 1
<1>1. IsFiniteSet(S)
  BY PhoneAssumption, FS_Subset
<1>2. Cardinality(S) \in Nat
  BY <1>1, FS_CardinalityType
<1>3. r - 1 \in 0..(Cardinality(S) - 1)
  BY <1>2
<1> QED
  BY <1>1, <1>3, BySpeedOrders, NthRank

-------------------------------------------------------------------------------
(* What is emitted from the rails of a phone. *)

DistinctRails(rails) ==
  \A j, k \in DOMAIN rails : j # k => rails[j].rail # rails[k].rail

LEMMA PhoneRailType ==
  ASSUME NEW ph \in Phone, NEW pr \in PhoneRails(ph)
  PROVE  pr.rail \in KernelRail /\ pr.freqs \in FreqTable
<1>1. CASE \E n \in DOMAIN ph.policies :
             pr = [rail |-> ph.policies[n].rail, freqs |-> ph.policies[n].freqs]
  <2>1. PICK n \in DOMAIN ph.policies :
          pr = [rail |-> ph.policies[n].rail, freqs |-> ph.policies[n].freqs]
    BY <1>1
  <2>2. ph.policies[n] \in Policy
    BY PhoneAssumption
  <2> QED
    BY <2>1, <2>2 DEF Policy
<1>2. CASE \E k \in DOMAIN ph.nodes : pr = Found(ph.nodes[k])
  <2>1. PICK k \in DOMAIN ph.nodes : pr = Found(ph.nodes[k])
    BY <1>2
  <2>2. ph.nodes[k] \in Node
    BY PhoneAssumption
  <2> QED
    BY <2>1, <2>2 DEF Node, Found, NodeRail
<1> QED
  BY <1>1, <1>2 DEF PhoneRails

LEMMA EmittedTarget ==
  ASSUME NEW ph \in Phone, NEW rails \in Seq(PhoneRails(ph)), NEW mode,
         NEW j \in DOMAIN rails
  PROVE  LET t == EmitTargets(rails, mode)[j]
         IN  /\ TargetRail(t) = rails[j].rail /\ rails[j].rail \in KernelRail
             /\ t.min_khz \in rails[j].freqs /\ t.max_khz \in rails[j].freqs
             /\ 0 < t.min_khz /\ t.min_khz <= t.max_khz
<1>1. rails[j] \in PhoneRails(ph)
  OBVIOUS
<1>2. rails[j].rail \in KernelRail /\ rails[j].freqs \in FreqTable
  BY <1>1, PhoneRailType
<1>3. rails[j].rail \in [min : Path, max : Path]
  BY <1>2, KernelRailAssumption
<1> QED
  BY <1>2, <1>3, PickedPair DEF EmitTargets, TargetRail

\* The tables of a header are what the library needs.
LEMMA BuiltWellFormed ==
  ASSUME NEW ph \in Phone, NEW rails \in Seq(PhoneRails(ph)), DistinctRails(rails),
         NEW soc, NEW S
  PROVE  WellFormedModes(BuildHeader(soc, ph, S, rails))
<1> DEFINE modes == BuildHeader(soc, ph, S, rails).modes
<1>1. SUFFICES ASSUME NEW k \in DOMAIN modes
               PROVE  /\ \A j \in DOMAIN modes[k].targets : WellFormedTarget(modes[k].targets[j])
                      /\ NoOverlap(modes[k])
  BY DEF WellFormedModes
<1>2. /\ modes[k].targets = EmitTargets(rails, KnownModes[k])
      /\ modes[k].tunables = BuildTunables(KnownModes[k])
  BY DEF BuildHeader, EmitModes
<1>3. DOMAIN modes[k].targets = DOMAIN rails
  BY <1>2 DEF EmitTargets
<1> DEFINE T == modes[k].targets
           U == modes[k].tunables
<1> HIDE DEF modes
<1>4. \A j \in DOMAIN rails :
        /\ TargetRail(T[j]) = rails[j].rail /\ rails[j].rail \in KernelRail
        /\ 0 < T[j].min_khz /\ T[j].min_khz <= T[j].max_khz
  BY <1>2, EmittedTarget
<1>5. \A j \in DOMAIN T : WellFormedTarget(T[j])
  BY <1>3, <1>4 DEF WellFormedTarget, TargetRail
<1>6. \A i, j \in DOMAIN T : i # j =>
        {T[i].min_path, T[i].max_path} \cap {T[j].min_path, T[j].max_path} \subseteq {NoPath}
  <2>1. SUFFICES ASSUME NEW i \in DOMAIN T, NEW j \in DOMAIN T, i # j
                 PROVE  {T[i].min_path, T[i].max_path} \cap {T[j].min_path, T[j].max_path} = {}
    OBVIOUS
  <2>2. rails[i].rail # rails[j].rail
    BY <1>3, <2>1 DEF DistinctRails
  <2>3. /\ rails[i].rail \in KernelRail /\ rails[j].rail \in KernelRail
        /\ TargetRail(T[i]) = rails[i].rail /\ TargetRail(T[j]) = rails[j].rail
    BY <1>3, <1>4
  <2>4. TargetRail(T[i]).min = T[i].min_path /\ TargetRail(T[i]).max = T[i].max_path
    BY DEF TargetRail
  <2>5. TargetRail(T[j]).min = T[j].min_path /\ TargetRail(T[j]).max = T[j].max_path
    BY DEF TargetRail
  <2>6. /\ rails[i].rail.min = T[i].min_path /\ rails[i].rail.max = T[i].max_path
        /\ rails[j].rail.min = T[j].min_path /\ rails[j].rail.max = T[j].max_path
    BY <2>3, <2>4, <2>5
  <2>7. \A r, s \in KernelRail : r # s =>
          r.min # s.min /\ r.max # s.max /\ r.min # s.max /\ r.max # s.min
    BY KernelRailAssumption
  <2>8. {rails[i].rail.min, rails[i].rail.max} \cap {rails[j].rail.min, rails[j].rail.max} = {}
    BY <2>2, <2>3, <2>7
  <2> QED
    BY <2>6, <2>8
<1>7. \A i, j \in DOMAIN U : i # j =>
        /\ U[i].name # U[j].name
        /\ U[i].sysfs_path # U[j].sysfs_path \/ U[i].sysfs_path = NoPath
  BY <1>2 DEF BuildTunables
<1> QED
  BY <1>5, <1>6, <1>7 DEF NoOverlap

LEMMA BuiltPicked ==
  ASSUME NEW ph \in Phone, NEW rails \in Seq(PhoneRails(ph)), NEW soc, NEW S
  PROVE  PickedOn(ph, BuildHeader(soc, ph, S, rails))
<1> DEFINE modes == BuildHeader(soc, ph, S, rails).modes
<1>1. SUFFICES ASSUME NEW k \in DOMAIN modes, NEW j \in DOMAIN modes[k].targets
               PROVE  \E pr \in PhoneRails(ph) :
                        /\ pr.rail = TargetRail(modes[k].targets[j])
                        /\ modes[k].targets[j].min_khz \in pr.freqs
                        /\ modes[k].targets[j].max_khz \in pr.freqs
  BY DEF PickedOn
<1>2. modes[k].targets = EmitTargets(rails, KnownModes[k])
  BY DEF BuildHeader, EmitModes
<1>3. j \in DOMAIN rails
  BY <1>2 DEF EmitTargets
<1> HIDE DEF modes
<1>4. rails[j] \in PhoneRails(ph)
  BY <1>3
<1> QED
  BY <1>2, <1>3, <1>4, EmittedTarget

-------------------------------------------------------------------------------
(* Clusters and rails. *)

\* The list of a set in order has its elements and no other.
LEMMA InOrderFacts ==
  ASSUME NEW S, IsFiniteSet(S), NEW lt, Orders(lt, S)
  PROVE  InOrder(S, lt) \in Seq(S) /\ Range(InOrder(S, lt)) = S
<1> DEFINE n == Cardinality(S)
           nth(k) == Nth(S, lt, k)
<1>1. n \in Nat
  BY FS_CardinalityType
<1>2. \A k \in 0..(n - 1) : nth(k) \in S /\ Rank(S, lt, nth(k)) = k
  BY NthRank
<1>3. ASSUME NEW k \in 1..n PROVE nth(k - 1) \in S
  <2>1. k - 1 \in 0..(n - 1)
    BY <1>1
  <2> QED
    BY <1>2, <2>1
<1>4. ASSUME NEW x \in S PROVE \E k \in 1..n : x = nth(k - 1)
  <2> DEFINE j == Rank(S, lt, x)
  <2>1. j \in 0..(n - 1)
    BY RankRange
  <2>2. nth(j) \in S /\ Rank(S, lt, nth(j)) = j
    BY <1>2, <2>1
  <2>3. nth(j) = x
    <3> DEFINE y == nth(j)
    <3>1. y \in S /\ Rank(S, lt, y) = Rank(S, lt, x) /\ Rank(S, lt, x) \in Nat
      BY <2>1, <2>2
    <3> HIDE DEF y, j
    <3>2. <<y, x>> \in lt => Rank(S, lt, y) < Rank(S, lt, x)
      BY <3>1, RankGrows
    <3>3. <<x, y>> \in lt => Rank(S, lt, x) < Rank(S, lt, y)
      BY <3>1, RankGrows
    <3>4. y = x
      BY <3>1, <3>2, <3>3 DEF Orders
    <3> QED
      BY <3>4 DEF y
  <2> HIDE DEF j, nth
  <2>4. j + 1 \in 1..n /\ (j + 1) - 1 = j
    BY <1>1, <2>1
  <2> QED
    BY <2>3, <2>4
<1> HIDE DEF nth, n
<1>5. InOrder(S, lt) = [k \in 1..n |-> nth(k - 1)]
  BY DEF InOrder, n, nth
<1>6. InOrder(S, lt) \in [1..n -> S]
  BY <1>3, <1>5
<1>7. InOrder(S, lt) \in Seq(S)
  BY <1>1, <1>6
<1>8. Range(InOrder(S, lt)) = S
  BY <1>3, <1>4, <1>5 DEF Range
<1> QED
  BY <1>7, <1>8

LEMMA SortedRange ==
  ASSUME NEW S \in SUBSET Nat, IsFiniteSet(S)
  PROVE  Sorted(S) \in Seq(Nat) /\ Range(Sorted(S)) = S
<1>1. Sorted(S) \in Seq(S) /\ Range(Sorted(S)) = S
  BY LessOrders, InOrderFacts DEF Sorted
<1>2. ASSUME NEW L \in Seq(S) PROVE L \in Seq(Nat)
  <2>1. L \in [1..Len(L) -> S] /\ Len(L) \in Nat
    OBVIOUS
  <2>2. L \in [1..Len(L) -> Nat]
    BY <2>1
  <2> QED
    BY <2>1, <2>2
<1> QED
  BY <1>1, <1>2

\* performance pins a rail to the top of its table.
LEMMA PerformancePin ==
  ASSUME NEW freqs \in FreqTable
  PROVE  PickFreqPair(freqs, "performance")[2] = Highest(freqs)
<1> DEFINE n == Cardinality(freqs)
<1>1. n \in Nat \ {0}
  BY FreqTableFacts
<1> HIDE DEF n
<1>2. \A a \in Nat : (100 * a) \div 100 = a /\ (100 * a) % 100 = 0
  OBVIOUS
<1>3. Round(100 * (n - 1), 100) = n - 1
  <2>1. n - 1 \in Nat
    BY <1>1
  <2>2. (100 * (n - 1)) \div 100 = n - 1 /\ (100 * (n - 1)) % 100 = 0
    BY <1>2, <2>1
  <2> QED
    BY <2>2 DEF Round
<1>4. PickIndex(100, n) = n - 1
  BY <1>1, <1>3 DEF PickIndex
<1>5. ModePercentiles("performance") = <<100, 100>>
  BY DEF ModePercentiles
<1>6. ~(n - 1 < n - 1)
  BY <1>1
<1> QED
  BY <1>4, <1>5, <1>6 DEF PickFreqPair, Highest, n

\* The rails of the clusters come first.
ClusterPrefix(ph, S, rails) ==
  \A r \in 1..Cardinality(S) : r \in DOMAIN rails /\ rails[r] = CpuRails(ph, S)[r]

LEMMA BuiltMatched ==
  ASSUME NEW ph \in Phone, NEW S \in SUBSET DOMAIN ph.policies,
         NEW rails \in Seq(PhoneRails(ph)), ClusterPrefix(ph, S, rails), NEW soc
  PROVE  MatchedOn(ph, BuildHeader(soc, ph, S, rails))
<1> DEFINE h == BuildHeader(soc, ph, S, rails)
           nth(r) == Nth(S, BySpeed(ph, S), r - 1)
           pol(r) == ph.policies[nth(r)]
           n == Cardinality(S)
           T == EmitTargets(rails, "performance")
<1>1. h.modes[2].targets = T
  BY DEF BuildHeader, EmitModes, KnownModes
<1>2. h.clusters = EmitClusters(ph, S)
  BY DEF BuildHeader
<1>3. DOMAIN h.clusters = 1..n /\ \A r \in 1..n : h.clusters[r].cpu_ids = Sorted(pol(r).cpus)
  BY <1>2 DEF EmitClusters, SortedPolicy
<1>4. \A r \in 1..n : nth(r) \in S /\ Rank(S, BySpeed(ph, S), nth(r)) = r - 1
  BY ClusterPolicy
<1>5. \A r \in 1..n : CpuRails(ph, S)[r] = [rail |-> pol(r).rail, freqs |-> pol(r).freqs]
  BY DEF CpuRails, SortedPolicy
<1>6. \A r \in 1..n :
        /\ nth(r) \in DOMAIN ph.policies /\ pol(r) \in Policy /\ IsFiniteSet(pol(r).cpus)
  BY <1>4, PhoneAssumption
<1>7. \A r \in 1..n : pol(r).freqs \in FreqTable /\ pol(r).cpus \in SUBSET Nat
  BY <1>6 DEF Policy
<1> HIDE DEF h, nth, T
<1>8. \A r \in 1..n : /\ TargetRail(T[r]) = pol(r).rail
                      /\ T[r].max_khz = Highest(pol(r).freqs)
  <2>1. SUFFICES ASSUME NEW r \in 1..n
                 PROVE  TargetRail(T[r]) = pol(r).rail /\ T[r].max_khz = Highest(pol(r).freqs)
    OBVIOUS
  <2>2. r \in DOMAIN rails /\ rails[r].rail = pol(r).rail /\ rails[r].freqs = pol(r).freqs
    <3>1. r \in DOMAIN rails /\ rails[r] = CpuRails(ph, S)[r]
      BY DEF ClusterPrefix
    <3>2. rails[r] = [rail |-> pol(r).rail, freqs |-> pol(r).freqs]
      BY <1>5, <3>1
    <3> HIDE DEF pol
    <3> QED
      BY <3>1, <3>2
  <2>3. TargetRail(T[r]) = rails[r].rail
    BY <2>2, EmittedTarget DEF T
  <2>4. T[r].max_khz = PickFreqPair(rails[r].freqs, "performance")[2]
    BY <2>2 DEF T, EmitTargets
  <2> QED
    BY <1>7, <2>2, <2>3, <2>4, PerformancePin
<1>9. \A r \in 1..n : pol(r).cpus = Range(h.clusters[r].cpu_ids)
  BY <1>3, <1>6, <1>7, SortedRange
<1>10. \A q, r \in 1..n : q < r => T[q].max_khz <= T[r].max_khz
  <2>1. SUFFICES ASSUME NEW q \in 1..n, NEW r \in 1..n, q < r
                 PROVE  Highest(pol(q).freqs) <= Highest(pol(r).freqs)
    BY <1>8
  <2>2. IsFiniteSet(S) /\ Orders(BySpeed(ph, S), S)
    BY PhoneAssumption, FS_Subset, BySpeedOrders
  <2>3. nth(q) # nth(r)
    BY <1>4, <2>1
  <2>4. <<nth(q), nth(r)>> \in BySpeed(ph, S)
    <3>1. ~(r - 1 < q - 1)
      BY <2>1
    <3>2. ~(<<nth(r), nth(q)>> \in BySpeed(ph, S))
      BY <1>4, <2>2, <3>1, RankGrows
    <3> QED
      BY <1>4, <2>2, <2>3, <3>2 DEF Orders
  <2>5. \/ Highest(pol(q).freqs) < Highest(pol(r).freqs)
        \/ Highest(pol(q).freqs) = Highest(pol(r).freqs)
    BY <2>4 DEF BySpeed
  <2>6. Highest(pol(q).freqs) \in Nat /\ Highest(pol(r).freqs) \in Nat
    BY <1>7, HighestNat
  <2> QED
    BY <2>5, <2>6
<1>11. \A r \in 1..n : \E p \in DOMAIN ph.policies :
         /\ ph.policies[p].rail = TargetRail(T[r])
         /\ ph.policies[p].cpus = Range(h.clusters[r].cpu_ids)
  BY <1>6, <1>8, <1>9
<1>12. MatchedOn(ph, h)
  BY <1>1, <1>3, <1>10, <1>11 DEF MatchedOn
<1> QED
  BY <1>12 DEF h

-------------------------------------------------------------------------------
(* The rails of a probe. *)

Probed == gen.pc \in {"soc", "policies", "nodes", "header", "header_text"}
Named == gen.pc \in {"policies", "nodes", "header", "header_text"}
Labelled == gen.pc \in {"nodes", "header", "header_text"}

\* Each rail is one of a policy, or that of a node found for an earlier needle.
RailOrigin(ph, rails, i) ==
  \A j \in DOMAIN rails :
    \/ \E n \in DOMAIN ph.policies : rails[j].rail = ph.policies[n].rail
    \/ \E k \in DOMAIN ph.nodes : \E l \in 1..(i - 1) :
         /\ l \in DOMAIN Extra /\ Extra[l] \in ph.nodes[k].matches
         /\ rails[j].rail = NodeRail(ph.nodes[k])

\* gen is a record of these fields.
Fields ==
  gen = [pc |-> gen.pc, phone |-> gen.phone, soc |-> gen.soc, todo |-> gen.todo,
         read |-> gen.read, rails |-> gen.rails, i |-> gen.i,
         soc_names |-> gen.soc_names, code |-> gen.code]

ProbeInv ==
  /\ Fields
  /\ Probed => gen.phone \in Phone
  /\ At("soc") => gen.read = {} /\ gen.i = 1
  /\ Named => /\ gen.soc \in {Sanitised[gen.phone.model], Sanitised[gen.phone.hardware]}
              /\ gen.read \subseteq DOMAIN gen.phone.policies
              /\ gen.todo \subseteq DOMAIN gen.phone.policies
  /\ Labelled => /\ gen.rails \in Seq(PhoneRails(gen.phone))
                 /\ DistinctRails(gen.rails)
                 /\ ClusterPrefix(gen.phone, gen.read, gen.rails)
  /\ At("policies") => gen.i = 1
  /\ At("nodes") => RailOrigin(gen.phone, gen.rails, gen.i)

FilesInv == EmittedWellFormed /\ IndexPicked /\ ClustersMatchRails

LEMMA CpuRailsFacts ==
  ASSUME NEW ph \in Phone, NEW S \in SUBSET DOMAIN ph.policies
  PROVE  /\ CpuRails(ph, S) \in Seq(PhoneRails(ph))
         /\ DistinctRails(CpuRails(ph, S))
         /\ DOMAIN CpuRails(ph, S) = 1..Cardinality(S)
         /\ \A r \in DOMAIN CpuRails(ph, S) : \E n \in DOMAIN ph.policies :
              CpuRails(ph, S)[r].rail = ph.policies[n].rail
<1> DEFINE nth(r) == Nth(S, BySpeed(ph, S), r - 1)
           c == CpuRails(ph, S)
<1>1. Cardinality(S) \in Nat
  BY PhoneAssumption, FS_Subset, FS_CardinalityType
<1>2. \A r \in 1..Cardinality(S) : nth(r) \in S /\ Rank(S, BySpeed(ph, S), nth(r)) = r - 1
  BY ClusterPolicy
<1>3. c = [r \in 1..Cardinality(S) |->
             [rail |-> ph.policies[nth(r)].rail, freqs |-> ph.policies[nth(r)].freqs]]
  BY DEF CpuRails, SortedPolicy
<1> HIDE DEF nth, c
<1>4. \A r \in 1..Cardinality(S) : c[r] \in PhoneRails(ph)
  BY <1>2, <1>3 DEF PhoneRails
<1>5. c \in Seq(PhoneRails(ph)) /\ DOMAIN c = 1..Cardinality(S)
  <2>1. c \in [1..Cardinality(S) -> PhoneRails(ph)]
    BY <1>3, <1>4
  <2> QED
    BY <1>1, <2>1
<1>6. DistinctRails(c)
  <2>1. SUFFICES ASSUME NEW j \in 1..Cardinality(S), NEW k \in 1..Cardinality(S), j # k
                 PROVE  c[j].rail # c[k].rail
    BY <1>5 DEF DistinctRails
  <2>2. nth(j) # nth(k)
    BY <1>1, <1>2, <2>1
  <2>3. ph.policies[nth(j)].rail # ph.policies[nth(k)].rail
    BY <1>2, <2>2, PhoneAssumption
  <2> QED
    BY <1>3, <2>3
<1>7. \A r \in DOMAIN c : \E n \in DOMAIN ph.policies : c[r].rail = ph.policies[n].rail
  BY <1>2, <1>3, <1>5
<1> QED
  BY <1>5, <1>6, <1>7 DEF c

\* The node found for a needle is on a rail that no earlier one was found on.
LEMMA AppendedRail ==
  ASSUME NEW ph \in Phone, NEW rails \in Seq(PhoneRails(ph)), DistinctRails(rails),
         NEW i \in DOMAIN Extra, RailOrigin(ph, rails, i),
         NEW k \in MatchingNodes(ph, Extra[i])
  PROVE  LET more == Append(rails, Found(ph.nodes[k]))
         IN  /\ more \in Seq(PhoneRails(ph)) /\ DistinctRails(more)
             /\ RailOrigin(ph, more, i + 1)
<1> DEFINE d == ph.nodes[k]
           more == Append(rails, Found(d))
<1>1. k \in DOMAIN ph.nodes /\ Extra[i] \in d.matches
  BY DEF MatchingNodes
<1>2. Found(d) \in PhoneRails(ph) /\ Found(d).rail = NodeRail(d)
  BY <1>1 DEF PhoneRails, Found
<1>3. \A j \in DOMAIN rails : rails[j].rail # NodeRail(d)
  <2>1. SUFFICES ASSUME NEW j \in DOMAIN rails, rails[j].rail = NodeRail(d) PROVE FALSE
    OBVIOUS
  <2>2. \A n \in DOMAIN ph.policies : ph.policies[n].rail # NodeRail(d)
    BY <1>1, PhoneAssumption
  <2>3. PICK l \in DOMAIN ph.nodes : \E m \in 1..(i - 1) :
          /\ m \in DOMAIN Extra /\ Extra[m] \in ph.nodes[l].matches
          /\ rails[j].rail = NodeRail(ph.nodes[l])
    BY <2>1, <2>2 DEF RailOrigin
  <2>4. PICK m \in 1..(i - 1) : m \in DOMAIN Extra /\ Extra[m] \in ph.nodes[l].matches
    BY <2>3
  <2>5. l = k
    BY <1>1, <2>1, <2>3, PhoneAssumption
  <2>6. Extra[m] = Extra[i]
    BY <1>1, <2>4, <2>5, PhoneAssumption
  <2>7. m < i /\ i \in 1..3 /\ m \in 1..3
    BY <2>4 DEF Extra
  <2> QED
    BY <2>6, <2>7 DEF Extra
<1> DEFINE f == Found(d)
<1> HIDE DEF d, f
<1>4. f \in PhoneRails(ph) /\ f.rail = NodeRail(d)
  BY <1>2 DEF f
<1>5. more = Append(rails, f)
  BY DEF f
<1> HIDE DEF more
<1>6. /\ more \in Seq(PhoneRails(ph)) /\ DOMAIN more = 1..(Len(rails) + 1)
      /\ DOMAIN rails = 1..Len(rails) /\ Len(rails) \in Nat
      /\ more[Len(rails) + 1] = f
      /\ \A j \in 1..Len(rails) : more[j] = rails[j]
  BY <1>4, <1>5
<1>7. DistinctRails(more)
  BY <1>3, <1>4, <1>6 DEF DistinctRails
<1>8. RailOrigin(ph, more, i + 1)
  <2>0. i \in Nat
    BY DEF Extra
  <2>1. SUFFICES ASSUME NEW j \in DOMAIN more
                 PROVE  \/ \E n \in DOMAIN ph.policies : more[j].rail = ph.policies[n].rail
                        \/ \E l \in DOMAIN ph.nodes : \E m \in 1..i :
                             /\ m \in DOMAIN Extra /\ Extra[m] \in ph.nodes[l].matches
                             /\ more[j].rail = NodeRail(ph.nodes[l])
    BY <2>0 DEF RailOrigin
  <2>2. CASE j \in DOMAIN rails
    <3>1. more[j] = rails[j]
      BY <1>6, <2>2
    <3>2. 1..(i - 1) \subseteq 1..i
      BY <2>0
    <3> QED
      BY <2>2, <3>1, <3>2 DEF RailOrigin
  <2>3. CASE j = Len(rails) + 1
    <3>1. i \in 1..i
      BY <2>0 DEF Extra
    <3>2. more[j].rail = NodeRail(ph.nodes[k])
      BY <1>4, <1>6, <2>3 DEF d
    <3>3. Extra[i] \in ph.nodes[k].matches /\ k \in DOMAIN ph.nodes
      BY <1>1 DEF d
    <3> QED
      BY <3>1, <3>2, <3>3
  <2> QED
    BY <1>6, <2>2, <2>3
<1> QED
  BY <1>6, <1>7, <1>8 DEF more, d

-------------------------------------------------------------------------------
(* The invariant. *)

GenInv == ProbeInv /\ FilesInv

USE DEF At, Goto, Exit, NewGen, Probing, files, gvars

LEMMA InitGen == GenInit => GenInv
BY DEF GenInit, GenInv, ProbeInv, Fields, FilesInv, Probed, Named, Labelled,
       EmittedWellFormed, IndexPicked, ClustersMatchRails, Whole

\* A generator that does not probe needs nothing of the invariant.
LEMMA NotProbing ==
  ASSUME Fields', gen'.pc \notin {"soc", "policies", "nodes", "header", "header_text"}
  PROVE  ProbeInv'
BY DEF ProbeInv, Probed, Named, Labelled

LEMMA Exits ==
  ASSUME NEW code, Exit(code)
  PROVE  ProbeInv'
<1>1. Fields' /\ gen'.pc = "off"
  BY DEF Fields
<1> QED
  BY <1>1, NotProbing

LEMMA SameFiles ==
  ASSUME FilesInv, UNCHANGED soc_dir
  PROVE  FilesInv'
BY DEF FilesInv, EmittedWellFormed, IndexPicked, ClustersMatchRails, Whole

LEMMA StepReadSocName ==
  ASSUME ProbeInv, ReadSocName
  PROVE  ProbeInv'
<1> DEFINE raw == IF gen.phone.model # NoName THEN gen.phone.model ELSE gen.phone.hardware
           soc == Sanitised[raw]
           todo == DOMAIN gen.phone.policies
<1>1. CASE gen' = [gen EXCEPT !.pc = "policies", !.soc = soc, !.todo = todo]
  <2>1. /\ soc \in {Sanitised[gen.phone.model], Sanitised[gen.phone.hardware]}
        /\ todo = DOMAIN gen.phone.policies
    OBVIOUS
  <2>2. At("soc") /\ gen.phone \in Phone /\ gen.read = {} /\ gen.i = 1
    BY DEF ReadSocName, ProbeInv, Probed
  <2> HIDE DEF soc, todo
  <2>3. /\ Fields' /\ gen'.pc = "policies" /\ gen'.phone = gen.phone
        /\ gen'.soc = soc /\ gen'.todo = todo /\ gen'.read = gen.read
        /\ gen'.i = gen.i
    BY <1>1 DEF ProbeInv, Fields
  <2> QED
    BY <2>1, <2>2, <2>3 DEF ProbeInv, Probed, Named, Labelled
<1>2. CASE Exit(1)
  BY <1>2, Exits
<1> QED
  BY <1>1, <1>2 DEF ReadSocName

LEMMA StepMain ==
  ASSUME NEW ph \in Phone, Main(ph)
  PROVE  ProbeInv'
<1>1. CASE gen' = NewGen("soc", ph)
  <2>1. Fields' /\ gen'.pc = "soc" /\ gen'.phone = ph /\ gen'.read = {} /\ gen'.i = 1
    BY <1>1 DEF Fields
  <2> QED
    BY <2>1 DEF ProbeInv, Probed, Named, Labelled
<1>2. CASE gen' = NewGen("scan", NoPhone)
  <2>1. Fields' /\ gen'.pc = "scan"
    BY <1>2 DEF Fields
  <2> QED
    BY <2>1, NotProbing
<1> QED
  BY <1>1, <1>2 DEF Main

LEMMA StepProbePolicy ==
  ASSUME ProbeInv, ProbePolicy
  PROVE  ProbeInv'
<1>1. PICK n \in gen.todo :
        gen' \in {[gen EXCEPT !.todo = @ \ {n}, !.read = @ \cup {n}],
                  [gen EXCEPT !.todo = @ \ {n}]}
  BY DEF ProbePolicy
<1>2. At("policies")
  BY DEF ProbePolicy
<1>3. /\ Fields' /\ gen'.pc = "policies" /\ gen'.phone = gen.phone /\ gen'.soc = gen.soc
      /\ gen'.todo = gen.todo \ {n} /\ gen'.read \in {gen.read, gen.read \cup {n}}
      /\ gen'.i = gen.i
  <2>1. CASE gen' = [gen EXCEPT !.todo = @ \ {n}, !.read = @ \cup {n}]
    BY <1>2, <2>1 DEF ProbeInv, Fields
  <2>2. CASE gen' = [gen EXCEPT !.todo = @ \ {n}]
    BY <1>2, <2>2 DEF ProbeInv, Fields
  <2> QED
    BY <1>1, <2>1, <2>2
<1> QED
  BY <1>1, <1>2, <1>3 DEF ProbeInv, Probed, Named, Labelled

LEMMA StepLabelClusters ==
  ASSUME ProbeInv, LabelClusters
  PROVE  ProbeInv'
<1> DEFINE rails == CpuRails(gen.phone, gen.read)
<1>1. CASE gen' = [gen EXCEPT !.pc = "nodes", !.rails = rails]
  <2>1. /\ At("policies") /\ gen.phone \in Phone /\ gen.i = 1
        /\ gen.read \in SUBSET DOMAIN gen.phone.policies
    BY DEF LabelClusters, ProbeInv, Probed, Named
  <2>2. /\ rails \in Seq(PhoneRails(gen.phone)) /\ DistinctRails(rails)
        /\ RailOrigin(gen.phone, rails, 1) /\ ClusterPrefix(gen.phone, gen.read, rails)
    BY <2>1, CpuRailsFacts DEF RailOrigin, ClusterPrefix
  <2> HIDE DEF rails
  <2>3. /\ Fields' /\ gen'.pc = "nodes" /\ gen'.phone = gen.phone /\ gen'.soc = gen.soc
        /\ gen'.todo = gen.todo /\ gen'.read = gen.read /\ gen'.rails = rails
        /\ gen'.i = gen.i
    BY <1>1 DEF ProbeInv, Fields
  <2> QED
    BY <2>1, <2>2, <2>3 DEF ProbeInv, Probed, Named, Labelled
<1>2. CASE Exit(1)
  BY <1>2, Exits
<1> QED
  BY <1>1, <1>2 DEF LabelClusters

LEMMA OriginGrows ==
  ASSUME NEW ph, NEW rails, NEW i \in Nat, RailOrigin(ph, rails, i)
  PROVE  RailOrigin(ph, rails, i + 1)
<1>1. \A m \in 1..(i - 1) : m \in 1..((i + 1) - 1)
  OBVIOUS
<1>2. SUFFICES ASSUME NEW j \in DOMAIN rails,
                      NEW k \in DOMAIN ph.nodes, NEW l \in 1..(i - 1),
                      l \in DOMAIN Extra, Extra[l] \in ph.nodes[k].matches,
                      rails[j].rail = NodeRail(ph.nodes[k])
               PROVE  \E q \in DOMAIN ph.nodes : \E m \in 1..((i + 1) - 1) :
                        /\ m \in DOMAIN Extra /\ Extra[m] \in ph.nodes[q].matches
                        /\ rails[j].rail = NodeRail(ph.nodes[q])
  BY DEF RailOrigin
<1>3. l \in 1..((i + 1) - 1)
  BY <1>1
<1> QED
  BY <1>2, <1>3

LEMMA StepProbeDevfreqNode ==
  ASSUME ProbeInv, ProbeDevfreqNode
  PROVE  ProbeInv'
<1>1. /\ At("nodes") /\ gen.phone \in Phone /\ gen.i \in DOMAIN Extra
      /\ gen.rails \in Seq(PhoneRails(gen.phone)) /\ DistinctRails(gen.rails)
      /\ RailOrigin(gen.phone, gen.rails, gen.i)
      /\ ClusterPrefix(gen.phone, gen.read, gen.rails)
  BY DEF ProbeDevfreqNode, ProbeInv, Probed, Labelled
<1>2. gen.i + 1 \in Nat \ {0} /\ gen.i \in Nat
  BY <1>1 DEF Extra
<1>3. CASE gen' = [gen EXCEPT !.i = @ + 1]
  <2>1. /\ Fields' /\ gen'.pc = "nodes" /\ gen'.phone = gen.phone /\ gen'.soc = gen.soc
        /\ gen'.todo = gen.todo /\ gen'.read = gen.read /\ gen'.rails = gen.rails
        /\ gen'.i = gen.i + 1
    BY <1>1, <1>3 DEF ProbeInv, Fields
  <2>3. RailOrigin(gen.phone, gen.rails, gen.i + 1)
    BY <1>1, <1>2, OriginGrows
  <2> QED
    BY <1>1, <1>2, <2>1, <2>3 DEF ProbeInv, Probed, Named, Labelled
<1>4. ASSUME NEW k \in MatchingNodes(gen.phone, Extra[gen.i]),
             gen' = [gen EXCEPT !.i = @ + 1, !.rails = Append(@, Found(gen.phone.nodes[k]))]
      PROVE  ProbeInv'
  <2> DEFINE rails == Append(gen.rails, Found(gen.phone.nodes[k]))
  <2>1. /\ rails \in Seq(PhoneRails(gen.phone)) /\ DistinctRails(rails)
        /\ RailOrigin(gen.phone, rails, gen.i + 1)
    BY <1>1, AppendedRail
  <2>4. ClusterPrefix(gen.phone, gen.read, rails)
    <3>1. \A r \in DOMAIN gen.rails : r \in DOMAIN rails /\ rails[r] = gen.rails[r]
      BY <1>1
    <3> HIDE DEF rails
    <3> QED
      BY <1>1, <3>1 DEF ClusterPrefix
  <2>2. gen' = [gen EXCEPT !.i = @ + 1, !.rails = rails]
    BY <1>4
  <2> HIDE DEF rails
  <2>3. /\ Fields' /\ gen'.pc = "nodes" /\ gen'.phone = gen.phone /\ gen'.soc = gen.soc
        /\ gen'.todo = gen.todo /\ gen'.read = gen.read /\ gen'.rails = rails
        /\ gen'.i = gen.i + 1
    BY <1>1, <2>2 DEF ProbeInv, Fields
  <2> QED
    BY <1>1, <1>2, <2>1, <2>3, <2>4 DEF ProbeInv, Probed, Named, Labelled
<1> QED
  BY <1>3, <1>4 DEF ProbeDevfreqNode

LEMMA StepProbeEnds ==
  ASSUME ProbeInv, ProbeEnds
  PROVE  ProbeInv'
<1>1. /\ At("nodes") /\ Fields' /\ gen'.pc = "header" /\ gen'.phone = gen.phone
      /\ gen'.soc = gen.soc /\ gen'.todo = gen.todo /\ gen'.read = gen.read
      /\ gen'.rails = gen.rails
  BY DEF ProbeEnds, ProbeInv, Fields
<1> QED
  BY <1>1 DEF ProbeInv, Probed, Named, Labelled

LEMMA StepOpenHeader ==
  ASSUME ProbeInv, FilesInv, OpenHeader
  PROVE  ProbeInv' /\ FilesInv'
<1>1. /\ At("header") /\ Fields' /\ gen'.pc = "header_text" /\ gen'.phone = gen.phone
      /\ gen'.soc = gen.soc /\ gen'.todo = gen.todo /\ gen'.read = gen.read
      /\ gen'.rails = gen.rails
  BY DEF OpenHeader, ProbeInv, Fields
<1>2. ProbeInv'
  BY <1>1 DEF ProbeInv, Probed, Named, Labelled
<1>3. \A s \in Whole' : s \in Whole /\ soc_dir'[s] = soc_dir[s]
  BY DEF OpenHeader, Whole
<1>4. FilesInv'
  BY <1>3 DEF FilesInv, EmittedWellFormed, IndexPicked, ClustersMatchRails
<1> QED
  BY <1>2, <1>4

LEMMA StepWriteHeader ==
  ASSUME ProbeInv, FilesInv, WriteHeader
  PROVE  ProbeInv' /\ FilesInv'
<1> DEFINE h == BuildHeader(gen.soc, gen.phone, gen.read, gen.rails)
<1>1. Fields' /\ gen'.pc = "scan"
  BY DEF WriteHeader, Fields
<1>2. ProbeInv'
  BY <1>1, NotProbing
<1>3. /\ gen.phone \in Phone
      /\ gen.soc \in {Sanitised[gen.phone.model], Sanitised[gen.phone.hardware]}
      /\ gen.rails \in Seq(PhoneRails(gen.phone)) /\ DistinctRails(gen.rails)
      /\ gen.read \in SUBSET DOMAIN gen.phone.policies
      /\ ClusterPrefix(gen.phone, gen.read, gen.rails)
  BY DEF WriteHeader, ProbeInv, Probed, Named, Labelled
<1>4. WellFormedModes(h) /\ PickedOn(gen.phone, h) /\ MatchedOn(gen.phone, h)
  BY <1>3, BuiltWellFormed, BuiltPicked, BuiltMatched
<1>5. soc_dir' = [soc_dir EXCEPT ![gen.soc] = h]
  BY DEF WriteHeader
<1> HIDE DEF h
<1>6. \A s \in Whole' : \/ s \in Whole /\ soc_dir'[s] = soc_dir[s]
                        \/ s = gen.soc /\ soc_dir'[s] = h
  BY <1>5 DEF Whole
<1>7. EmittedWellFormed'
  BY <1>4, <1>6 DEF FilesInv, EmittedWellFormed
<1>8. IndexPicked'
  BY <1>3, <1>4, <1>6 DEF FilesInv, IndexPicked
<1>9. ClustersMatchRails'
  BY <1>3, <1>4, <1>6 DEF FilesInv, ClustersMatchRails
<1> QED
  BY <1>2, <1>7, <1>8, <1>9 DEF FilesInv

LEMMA StepRemoveHeader ==
  ASSUME ProbeInv, FilesInv, NEW soc \in DOMAIN soc_dir, RemoveHeader(soc)
  PROVE  ProbeInv' /\ FilesInv'
<1>1. ProbeInv'
  BY DEF RemoveHeader, ProbeInv, Fields, Probed, Named, Labelled
<1>2. \A s \in Whole' : s \in Whole /\ soc_dir'[s] = soc_dir[s]
  BY DEF RemoveHeader, Whole
<1> QED
  BY <1>1, <1>2 DEF FilesInv, EmittedWellFormed, IndexPicked, ClustersMatchRails

LEMMA StepRegistry ==
  ASSUME ProbeInv, ScanSocDir \/ OpenRegistry \/ WriteRegistry
  PROVE  ProbeInv'
<1>1. CASE ScanSocDir
  <2> DEFINE names == Present
  <2>1. gen' = [gen EXCEPT !.pc = "registry", !.soc_names = names]
    BY <1>1 DEF ScanSocDir
  <2> HIDE DEF names
  <2>2. Fields' /\ gen'.pc = "registry"
    BY <2>1 DEF ProbeInv, Fields
  <2> QED
    BY <2>2, NotProbing
<1>2. CASE OpenRegistry
  <2>1. Fields' /\ gen'.pc = "registry_text"
    BY <1>2 DEF OpenRegistry, ProbeInv, Fields
  <2> QED
    BY <2>1, NotProbing
<1>3. CASE WriteRegistry
  BY <1>3, Exits DEF WriteRegistry
<1> QED
  BY <1>1, <1>2, <1>3

LEMMA StepGen ==
  ASSUME GenInv, [GenNext]_gvars
  PROVE  GenInv'
<1> USE DEF GenInv
<1>1. ASSUME NEW ph \in Phone, Main(ph) PROVE GenInv'
  <2>1. UNCHANGED soc_dir
    BY <1>1 DEF Main
  <2> QED
    BY <1>1, <2>1, StepMain, SameFiles
<1>2. ASSUME NEW soc \in DOMAIN soc_dir, RemoveHeader(soc) PROVE GenInv'
  BY <1>2, StepRemoveHeader
<1>3. CASE ReadSocName \/ ProbePolicy \/ LabelClusters \/ ProbeDevfreqNode \/ ProbeEnds
  <2>1. UNCHANGED soc_dir
    BY <1>3 DEF ReadSocName, ProbePolicy, LabelClusters, ProbeDevfreqNode, ProbeEnds
  <2> QED
    BY <1>3, <2>1, SameFiles, StepReadSocName, StepProbePolicy, StepLabelClusters,
       StepProbeDevfreqNode, StepProbeEnds
<1>4. CASE AdbFails \/ Killed
  <2>1. UNCHANGED soc_dir
    BY <1>4 DEF AdbFails, Killed
  <2>2. ProbeInv'
    BY <1>4, Exits DEF AdbFails, Killed
  <2> QED
    BY <2>1, <2>2, SameFiles
<1>5. CASE OpenHeader
  BY <1>5, StepOpenHeader
<1>6. CASE WriteHeader
  BY <1>6, StepWriteHeader
<1>7. CASE ScanSocDir \/ OpenRegistry \/ WriteRegistry
  <2>1. UNCHANGED soc_dir
    BY <1>7 DEF ScanSocDir, OpenRegistry, WriteRegistry
  <2> QED
    BY <1>7, <2>1, SameFiles, StepRegistry
<1>8. CASE UNCHANGED gvars
  BY <1>8 DEF ProbeInv, Fields, Probed, Named, Labelled, FilesInv, EmittedWellFormed,
              IndexPicked, ClustersMatchRails, Whole
<1> QED
  BY <1>1, <1>2, <1>3, <1>4, <1>5, <1>6, <1>7, <1>8 DEF GenNext, GenStep

-------------------------------------------------------------------------------
\* The generator probes one phone at a time and collects its rails only, each once;
\* every header that is whole was built from such a probe.
THEOREM GenInvariant == GenSpec => []GenInv
<1>1. GenInit => GenInv
  BY InitGen
<1>2. GenInv /\ [GenNext]_gvars => GenInv'
  BY StepGen
<1> QED
  BY <1>1, <1>2, PTL DEF GenSpec

\* Every header that is written whole is well formed, whatever the probe could read:
\* the assumption of the proofs about FreqController, for the targets of the tables
\* that _pick_freq_pair and _emit_targets make.
THEOREM EmitsWellFormed == GenSpec => []EmittedWellFormed
<1>1. GenInv => EmittedWellFormed
  BY DEF GenInv, FilesInv
<1> QED
  BY <1>1, GenInvariant, PTL

\* Every frequency that is written into a header is in the table of its rail.
THEOREM PicksByIndex == GenSpec => []IndexPicked
<1>1. GenInv => IndexPicked
  BY DEF GenInv, FilesInv
<1> QED
  BY <1>1, GenInvariant, PTL

\* The clusters of a header and its CPU rails are about the same policies.
THEOREM MatchesClusters == GenSpec => []ClustersMatchRails
<1>1. GenInv => ClustersMatchRails
  BY DEF GenInv, FilesInv
<1> QED
  BY <1>1, GenInvariant, PTL

-------------------------------------------------------------------------------
(* The types of the files, and what a run that ends has written. *)

\* gen.soc has been found to have a name that is left after sanitising, and a number
\* of policies for which there are labels was read; a header is rewritten where
\* OpenHeader has put it.
ProbeTyped ==
  /\ gen.soc \in SocName \cup {NoSoc}
  /\ Named => gen.soc # NoSoc
  /\ At("soc") => gen.todo = {}
  /\ Probed /\ ~Labelled => gen.rails = <<>>
  /\ Labelled => Cardinality(gen.read) \in DOMAIN ClusterLabelsByCount
  /\ At("header_text") => gen.soc \in DOMAIN soc_dir

FilesTyped ==
  /\ DOMAIN soc_dir \subseteq SocName /\ IsFiniteSet(DOMAIN soc_dir)
  /\ \A s \in Whole : soc_dir[s] \in Config
  /\ registry.entries \in Seq(SocName) \cup {<<NoSoc>>} /\ registry.torn \in BOOLEAN

\* From its scan on, a run knows the header it has written, and then the list of all.
Scanning == gen.pc \in {"scan", "registry", "registry_text"}

Scanned ==
  /\ Scanning /\ gen.soc # NoSoc => gen.soc \in Whole
  /\ Scanning /\ ~At("scan") => gen.soc_names = Present

ScanInv == ProbeTyped /\ FilesTyped /\ Scanned

\* What the library's tables are made of.
LEMMA BuiltModes ==
  ASSUME NEW ph \in Phone, NEW rails \in Seq(PhoneRails(ph))
  PROVE  EmitModes(rails) \in Seq(ModeProfile)
<1>1. ASSUME NEW mode PROVE EmitTargets(rails, mode) \in Seq(RailTarget)
  <2> DEFINE T == EmitTargets(rails, mode)
  <2>1. ASSUME NEW j \in DOMAIN rails PROVE T[j] \in RailTarget
    <3>1. rails[j] \in PhoneRails(ph)
      OBVIOUS
    <3>2. rails[j].rail \in [min : Path, max : Path] /\ rails[j].freqs \in SUBSET Nat
      BY <3>1, PhoneRailType, KernelRailAssumption, FreqTableFacts
    <3>3. T[j].min_khz \in Nat /\ T[j].max_khz \in Nat
      BY <3>2, EmittedTarget
    <3>4. T[j] = [min_path |-> rails[j].rail.min, max_path |-> rails[j].rail.max,
                  min_khz |-> T[j].min_khz, max_khz |-> T[j].max_khz]
      BY DEF EmitTargets
    <3> HIDE DEF T
    <3> QED
      BY <3>2, <3>3, <3>4 DEF RailTarget
  <2>2. DOMAIN T = 1..Len(rails) /\ Len(rails) \in Nat /\ DOMAIN rails = 1..Len(rails)
    BY DEF EmitTargets
  <2>3. T = [j \in 1..Len(rails) |-> T[j]]
    BY <2>2 DEF EmitTargets
  <2> HIDE DEF T
  <2>4. T \in [1..Len(rails) -> RailTarget]
    BY <2>1, <2>2, <2>3
  <2>5. T \in Seq(RailTarget)
    BY <2>2, <2>4
  <2> QED
    BY <2>5 DEF T
<1>2. ASSUME NEW mode PROVE BuildTunables(mode) \in Seq(Tunable)
  BY NamesAssumption DEF BuildTunables, Tunable
<1>3. \A k \in 1..3 : KnownModes[k] \in FrequencyMode
  BY NamesAssumption DEF KnownModes
<1>4. \A k \in 1..3 : EmitModes(rails)[k] \in ModeProfile
  BY <1>1, <1>2, <1>3 DEF EmitModes, ModeProfile, KnownModes
<1>5. EmitModes(rails) \in [1..3 -> ModeProfile]
  BY <1>4 DEF EmitModes, KnownModes
<1>6. 3 \in Nat
  OBVIOUS
<1> DEFINE M == EmitModes(rails)
<1> HIDE DEF M
<1>7. ASSUME NEW n \in Nat, M \in [1..n -> ModeProfile] PROVE M \in Seq(ModeProfile)
  BY <1>7
<1>8. M \in Seq(ModeProfile)
  BY <1>5, <1>6, <1>7 DEF M
<1> QED
  BY <1>8 DEF M

LEMMA BuiltClusters ==
  ASSUME NEW ph \in Phone, NEW S \in SUBSET DOMAIN ph.policies,
         Cardinality(S) \in DOMAIN ClusterLabelsByCount
  PROVE  EmitClusters(ph, S) \in Seq(CpuClusterMap)
<1> DEFINE n == Cardinality(S)
           C == EmitClusters(ph, S)
<1>1. n \in 1..4
  BY DEF ClusterLabelsByCount
<1>2. ASSUME NEW r \in 1..n PROVE ClusterLabelsByCount[n][r] \in CpuCluster
  <2> HIDE DEF n
  <2>1. n = 1 \/ n = 2 \/ n = 3 \/ n = 4
    BY <1>1
  <2> QED
    BY <2>1, NamesAssumption DEF ClusterLabelsByCount
<1>3. ASSUME NEW r \in 1..n PROVE Sorted(SortedPolicy(ph, S, r).cpus) \in Seq(Nat)
  <2> DEFINE m == Nth(S, BySpeed(ph, S), r - 1)
  <2>1. m \in S
    BY ClusterPolicy
  <2> HIDE DEF m
  <2>2. ph.policies[m] \in Policy /\ IsFiniteSet(ph.policies[m].cpus)
    BY <2>1, PhoneAssumption
  <2>3. Sorted(ph.policies[m].cpus) \in Seq(Nat)
    BY <2>2, SortedRange DEF Policy
  <2> QED
    BY <2>3 DEF SortedPolicy, m
<1>4. C = [r \in 1..n |-> [cluster |-> ClusterLabelsByCount[n][r],
                           cpu_ids |-> Sorted(SortedPolicy(ph, S, r).cpus)]]
  BY DEF EmitClusters
<1> HIDE DEF n, C
<1>5. C \in [1..n -> CpuClusterMap]
  BY <1>2, <1>3, <1>4 DEF CpuClusterMap
<1>6. C \in Seq(CpuClusterMap)
  BY <1>1, <1>5
<1> QED
  BY <1>6 DEF C

LEMMA BuiltConfig ==
  ASSUME NEW ph \in Phone, NEW rails \in Seq(PhoneRails(ph)),
         NEW S \in SUBSET DOMAIN ph.policies,
         Cardinality(S) \in DOMAIN ClusterLabelsByCount, NEW soc \in SocName
  PROVE  BuildHeader(soc, ph, S, rails) \in Config
<1>1. <<>> \in Seq(CustomProfile)
  OBVIOUS
<1> QED
  BY <1>1, BuiltModes, BuiltClusters DEF BuildHeader, Config

\* What regen_registry writes for the headers that it finds.
LEMMA PresentFacts ==
  ASSUME FilesTyped
  PROVE  /\ Present \in Seq(SocName) /\ Range(Present) = DOMAIN soc_dir
         /\ BuildRegistry(Present) \in Seq(SocName) \cup {<<NoSoc>>}
         /\ DOMAIN soc_dir \subseteq Range(BuildRegistry(Present))
<1> DEFINE D == DOMAIN soc_dir
           L == InOrder(D, SocOrder)
<1>1. D \subseteq SocName /\ IsFiniteSet(D)
  BY DEF FilesTyped
<1>2. Orders(SocOrder, D)
  BY <1>1, NamesAssumption DEF Orders
<1>3. L \in Seq(D) /\ Range(L) = D
  BY <1>1, <1>2, InOrderFacts
<1>4. L \in Seq(SocName)
  BY <1>1, <1>3
<1>5. Present = L
  BY DEF Present
<1> HIDE DEF L, D
<1>6. L = <<>> => Range(L) = {}
  BY DEF Range
<1>7. BuildRegistry(L) \in Seq(SocName) \cup {<<NoSoc>>} /\ D \subseteq Range(BuildRegistry(L))
  BY <1>3, <1>4, <1>6 DEF BuildRegistry
<1> QED
  BY <1>3, <1>4, <1>5, <1>7 DEF D

LEMMA InitScan == GenInit => ScanInv
<1> SUFFICES ASSUME GenInit PROVE ScanInv
  OBVIOUS
<1>1. DOMAIN soc_dir = {} /\ Whole = {} /\ IsFiniteSet({})
  BY FS_EmptySet DEF GenInit, Whole
<1>2. registry.entries = <<NoSoc>> /\ registry.torn = FALSE
  BY DEF GenInit, BuildRegistry
<1>3. gen.pc = "off" /\ gen.soc = NoSoc
  BY DEF GenInit
<1> QED
  BY <1>1, <1>2, <1>3
     DEF ScanInv, ProbeTyped, FilesTyped, Scanned, Probed, Named, Labelled, Scanning

\* A run that has ended owes nothing.
LEMMA ExitTyped ==
  ASSUME NEW code, Exit(code)
  PROVE  ProbeTyped' /\ Scanned'
BY DEF ProbeTyped, Scanned, Probed, Named, Labelled, Scanning

LEMMA KeepsFiles ==
  ASSUME FilesTyped, UNCHANGED files
  PROVE  FilesTyped'
BY DEF FilesTyped, Whole

\* A step of the probe writes no file, and ends no earlier than the header is written.
LEMMA TypedProbe ==
  ASSUME ScanInv, ProbeInv,
         ReadSocName \/ ProbePolicy \/ LabelClusters \/ ProbeDevfreqNode \/ ProbeEnds
  PROVE  ScanInv'
<1> USE DEF ScanInv
<1>1. UNCHANGED files
  BY DEF ReadSocName, ProbePolicy, LabelClusters, ProbeDevfreqNode, ProbeEnds
<1>2. FilesTyped'
  BY <1>1, KeepsFiles
<1>3. Fields
  BY DEF ProbeInv
<1>4. CASE ReadSocName
  <2> DEFINE raw == IF gen.phone.model # NoName THEN gen.phone.model ELSE gen.phone.hardware
             soc == Sanitised[raw]
             todo == DOMAIN gen.phone.policies
  <2>1. raw \in RawName \cup {NoName}
    BY <1>4, PhoneAssumption DEF ReadSocName, ProbeInv, Probed
  <2>2. soc \in SocName \cup {NoSoc}
    BY <2>1, NamesAssumption
  <2>3. CASE soc = NoSoc
    BY <1>2, <1>4, <2>3, ExitTyped DEF ReadSocName
  <2>4. CASE soc # NoSoc
    <3>1. gen' = [gen EXCEPT !.pc = "policies", !.soc = soc, !.todo = todo]
      BY <1>4, <2>4 DEF ReadSocName
    <3> HIDE DEF soc, todo
    <3>2. gen'.pc = "policies" /\ gen'.soc = soc /\ gen'.rails = gen.rails
      BY <1>3, <3>1 DEF Fields
    <3>3. gen.rails = <<>>
      BY <1>4 DEF ReadSocName, ProbeTyped, Probed, Labelled
    <3> QED
      BY <1>2, <2>2, <2>4, <3>2, <3>3
         DEF ProbeTyped, Scanned, Probed, Named, Labelled, Scanning
  <2> QED
    BY <2>3, <2>4
<1>5. CASE ProbePolicy
  <2>1. /\ gen'.pc = "policies" /\ gen'.soc = gen.soc /\ gen'.rails = gen.rails
        /\ gen.pc = "policies"
    BY <1>3, <1>5 DEF ProbePolicy, Fields
  <2> QED
    BY <1>2, <2>1 DEF ProbeTyped, Scanned, Probed, Named, Labelled, Scanning
<1>6. CASE LabelClusters
  <2> DEFINE rails == CpuRails(gen.phone, gen.read)
  <2>1. CASE Cardinality(gen.read) \in DOMAIN ClusterLabelsByCount
    <3>1. gen' = [gen EXCEPT !.pc = "nodes", !.rails = rails]
      BY <1>6, <2>1 DEF LabelClusters
    <3> HIDE DEF rails
    <3>2. /\ gen'.pc = "nodes" /\ gen'.soc = gen.soc /\ gen'.read = gen.read
          /\ gen.pc = "policies"
      BY <1>3, <1>6, <3>1 DEF LabelClusters, Fields
    <3> QED
      BY <1>2, <2>1, <3>2 DEF ProbeTyped, Scanned, Probed, Named, Labelled, Scanning
  <2>2. CASE Cardinality(gen.read) \notin DOMAIN ClusterLabelsByCount
    BY <1>2, <1>6, <2>2, ExitTyped DEF LabelClusters
  <2> QED
    BY <2>1, <2>2
<1>7. CASE ProbeDevfreqNode
  <2>1. PICK rails : \/ gen' = [gen EXCEPT !.i = @ + 1]
                     \/ gen' = [gen EXCEPT !.i = @ + 1, !.rails = rails]
    BY <1>7 DEF ProbeDevfreqNode
  <2>2. /\ gen'.pc = "nodes" /\ gen'.soc = gen.soc /\ gen'.read = gen.read
        /\ gen.pc = "nodes"
    BY <1>3, <1>7, <2>1 DEF ProbeDevfreqNode, Fields
  <2> QED
    BY <1>2, <2>2 DEF ProbeTyped, Scanned, Probed, Named, Labelled, Scanning
<1>8. CASE ProbeEnds
  <2>1. /\ gen'.pc = "header" /\ gen'.soc = gen.soc /\ gen'.read = gen.read
        /\ gen.pc = "nodes"
    BY <1>3, <1>8 DEF ProbeEnds, Fields
  <2> QED
    BY <1>2, <2>1 DEF ProbeTyped, Scanned, Probed, Named, Labelled, Scanning
<1> QED
  BY <1>4, <1>5, <1>6, <1>7, <1>8

LEMMA TypedOpenHeader ==
  ASSUME ScanInv, ProbeInv, OpenHeader
  PROVE  ScanInv'
<1> USE DEF ScanInv
<1>1. /\ gen.pc = "header" /\ gen'.pc = "header_text" /\ gen'.soc = gen.soc
      /\ gen'.read = gen.read
  BY DEF OpenHeader, ProbeInv, Fields
<1>2. gen.soc \in SocName
  BY <1>1 DEF ProbeTyped, Named
<1>3. /\ DOMAIN soc_dir' = DOMAIN soc_dir \cup {gen.soc}
      /\ \A s \in Whole' : s \in Whole /\ soc_dir'[s] = soc_dir[s]
      /\ UNCHANGED registry
  BY DEF OpenHeader, Whole
<1>4. IsFiniteSet(DOMAIN soc_dir \cup {gen.soc})
  BY FS_AddElement DEF FilesTyped
<1>5. FilesTyped'
  BY <1>2, <1>3, <1>4 DEF FilesTyped
<1> QED
  BY <1>1, <1>3, <1>5 DEF ProbeTyped, Scanned, Probed, Named, Labelled, Scanning

LEMMA TypedWriteHeader ==
  ASSUME ScanInv, ProbeInv, WriteHeader
  PROVE  ScanInv'
<1> USE DEF ScanInv
<1> DEFINE h == BuildHeader(gen.soc, gen.phone, gen.read, gen.rails)
<1>1. gen.pc = "header_text" /\ gen' = [NewGen("scan", NoPhone) EXCEPT !.soc = gen.soc]
  BY DEF WriteHeader
<1>2. gen'.pc = "scan" /\ gen'.soc = gen.soc
  BY <1>1
<1>3. gen.soc \in SocName /\ gen.soc \in DOMAIN soc_dir
  BY <1>1 DEF ProbeTyped, Named
<1>4. h \in Config
  BY <1>1, <1>3, BuiltConfig DEF ProbeTyped, ProbeInv, Probed, Named, Labelled
<1>5. soc_dir' = [soc_dir EXCEPT ![gen.soc] = h] /\ UNCHANGED registry
  BY DEF WriteHeader
<1> HIDE DEF h
<1>6. h # Torn
  BY <1>4, NamesAssumption
<1>7. /\ DOMAIN soc_dir' = DOMAIN soc_dir /\ gen.soc \in Whole'
      /\ \A s \in Whole' : soc_dir'[s] = h \/ (s \in Whole /\ soc_dir'[s] = soc_dir[s])
  BY <1>3, <1>5, <1>6 DEF Whole
<1>8. FilesTyped'
  BY <1>4, <1>5, <1>7 DEF FilesTyped
<1> QED
  BY <1>2, <1>3, <1>7, <1>8 DEF ProbeTyped, Scanned, Probed, Named, Labelled, Scanning

LEMMA TypedRegistry ==
  ASSUME ScanInv, ProbeInv, ScanSocDir \/ OpenRegistry \/ WriteRegistry
  PROVE  ScanInv'
<1> USE DEF ScanInv
<1>1. UNCHANGED soc_dir /\ UNCHANGED Present /\ UNCHANGED Whole
  BY DEF ScanSocDir, OpenRegistry, WriteRegistry, Present, Whole
<1>2. Fields
  BY DEF ProbeInv
<1>3. CASE ScanSocDir
  <2> DEFINE names == Present
  <2>1. gen' = [gen EXCEPT !.pc = "registry", !.soc_names = names] /\ gen.pc = "scan"
    BY <1>3 DEF ScanSocDir
  <2>2. UNCHANGED names
    BY <1>1
  <2> HIDE DEF names
  <2>3. gen'.pc = "registry" /\ gen'.soc = gen.soc /\ gen'.soc_names = names
    BY <1>2, <2>1 DEF Fields
  <2>4. FilesTyped'
    BY <1>3, KeepsFiles DEF ScanSocDir
  <2>5. gen'.soc_names = Present'
    BY <2>2, <2>3 DEF names
  <2> QED
    BY <1>1, <2>1, <2>3, <2>4, <2>5 DEF ProbeTyped, Scanned, Probed, Named, Labelled, Scanning
<1>4. CASE OpenRegistry
  <2>1. /\ gen'.pc = "registry_text" /\ gen'.soc = gen.soc /\ gen'.soc_names = gen.soc_names
        /\ gen.pc = "registry"
    BY <1>2, <1>4 DEF OpenRegistry, Fields
  <2>2. registry'.torn \in BOOLEAN /\ registry'.entries = registry.entries
    BY <1>4 DEF OpenRegistry, FilesTyped
  <2>3. FilesTyped'
    BY <1>1, <2>2 DEF FilesTyped
  <2> QED
    BY <1>1, <2>1, <2>3 DEF ProbeTyped, Scanned, Probed, Named, Labelled, Scanning
<1>5. CASE WriteRegistry
  <2>1. gen.soc_names = Present
    BY <1>5 DEF WriteRegistry, Scanned, Scanning
  <2>2. registry' = [entries |-> BuildRegistry(Present), torn |-> FALSE]
    BY <1>5, <2>1 DEF WriteRegistry
  <2>3. BuildRegistry(Present) \in Seq(SocName) \cup {<<NoSoc>>}
    BY PresentFacts
  <2>4. FilesTyped'
    BY <1>1, <2>2, <2>3 DEF FilesTyped
  <2> QED
    BY <1>5, <2>4, ExitTyped DEF WriteRegistry
<1> QED
  BY <1>3, <1>4, <1>5

LEMMA StepScan ==
  ASSUME ScanInv, ProbeInv, [GenNext]_gvars
  PROVE  ScanInv'
<1> USE DEF ScanInv
<1>1. ASSUME NEW ph \in Phone, Main(ph) PROVE ScanInv'
  <2>1. FilesTyped'
    BY <1>1, KeepsFiles DEF Main
  <2>2. \/ gen'.pc = "soc" /\ gen'.todo = {} /\ gen'.rails = <<>> /\ gen'.soc = NoSoc
        \/ gen'.pc = "scan" /\ gen'.soc = NoSoc
    BY <1>1 DEF Main
  <2> QED
    BY <2>1, <2>2 DEF ProbeTyped, Scanned, Probed, Named, Labelled, Scanning
<1>2. ASSUME NEW soc \in DOMAIN soc_dir, RemoveHeader(soc) PROVE ScanInv'
  <2>1. /\ DOMAIN soc_dir' = DOMAIN soc_dir \ {soc}
        /\ \A s \in Whole' : s \in Whole /\ soc_dir'[s] = soc_dir[s]
        /\ gen' = gen /\ gen.pc = "off" /\ registry' = registry
    BY <1>2 DEF RemoveHeader, Whole
  <2>2. IsFiniteSet(DOMAIN soc_dir \ {soc})
    BY FS_RemoveElement DEF FilesTyped
  <2>3. FilesTyped'
    BY <2>1, <2>2 DEF FilesTyped
  <2> QED
    BY <2>1, <2>3 DEF ProbeTyped, Scanned, Probed, Named, Labelled, Scanning
<1>3. CASE AdbFails \/ Killed
  <2>1. FilesTyped'
    BY <1>3, KeepsFiles DEF AdbFails, Killed
  <2> QED
    BY <1>3, <2>1, ExitTyped DEF AdbFails, Killed
<1>4. CASE UNCHANGED gvars
  <2>1. UNCHANGED Present /\ UNCHANGED Whole
    BY <1>4 DEF Present, Whole
  <2> QED
    BY <1>4, <2>1 DEF ProbeTyped, FilesTyped, Scanned, Probed, Named, Labelled, Scanning
<1> QED
  BY <1>1, <1>2, <1>3, <1>4, TypedProbe, TypedOpenHeader, TypedWriteHeader, TypedRegistry
     DEF GenNext, GenStep

\* What GenInv leaves open: the types of the files and of the run, and what a run
\* knows of them from its scan on.
THEOREM ScanInvariant == GenSpec => []ScanInv
<1>1. GenInit => ScanInv
  BY InitScan
<1>2. ScanInv /\ GenInv /\ [GenNext]_gvars => ScanInv'
  BY StepScan DEF GenInv
<1> QED
  BY <1>1, <1>2, GenInvariant, PTL DEF GenSpec

\* Whatever is killed or deleted, a header that is whole is a table of the library for
\* a SoC with a name, and the registry has names of SoCs only, or the one entry kNone;
\* while a phone is probed, what was read and found is the phone's.
THEOREM GenTypeCorrect == GenSpec => []GenTypeOK
<1>1. ProbeInv /\ ScanInv => GenTypeOK
  <2> SUFFICES ASSUME ProbeInv, ScanInv PROVE GenTypeOK
    OBVIOUS
  <2>1. ASSUME Probed
        PROVE  /\ gen.phone \in Phone
               /\ gen.read \cup gen.todo \subseteq DOMAIN gen.phone.policies
               /\ \A j \in DOMAIN gen.rails : gen.rails[j] \in PhoneRails(gen.phone)
    <3>1. CASE Labelled
      BY <2>1, <3>1 DEF ProbeInv, Probed, Named, Labelled
    <3>2. CASE ~Labelled
      <4>1. gen.rails = <<>>
        BY <2>1, <3>2 DEF ScanInv, ProbeTyped
      <4> QED
        BY <2>1, <3>2, <4>1 DEF ScanInv, ProbeTyped, ProbeInv, Probed, Named, Labelled
    <3> QED
      BY <3>1, <3>2
  <2> QED
    BY <2>1 DEF ScanInv, FilesTyped, ProbeTyped, GenTypeOK, Probed
<1>2. GenInv => ProbeInv
  BY DEF GenInv
<1> QED
  BY <1>1, <1>2, GenInvariant, ScanInvariant, PTL

\* A generator that exits with 0 has written a registry of exactly the headers there
\* are, the one of the SoC that it probed among them and whole.
THEOREM CompletesRegistry == GenSpec => RegistryComplete
<1> DEFINE Done == /\ registry' = [entries |-> BuildRegistry(Present'), torn |-> FALSE]
                   /\ gen.soc # NoSoc => gen.soc \in Whole' /\ gen.soc \in Range(registry'.entries)
<1>1. ASSUME ScanInv, ProbeInv, [GenNext]_gvars, RunSucceeds PROVE Done
  <2>1. gen.pc # "off" /\ gen'.pc = "off" /\ gen'.code = 0
    BY <1>1 DEF RunSucceeds
  <2>2. Fields
    BY <1>1 DEF ProbeInv
  <2>3. WriteRegistry
    <3>1. ~\E ph \in Phone : Main(ph)
      BY <2>1 DEF Main
    <3>2. ~\E soc \in DOMAIN soc_dir : RemoveHeader(soc)
      BY <2>1 DEF RemoveHeader
    <3>3. ~(AdbFails \/ Killed)
      BY <2>1 DEF AdbFails, Killed
    <3>4. ~(ReadSocName \/ LabelClusters)
      <4>1. ~Exit(1)
        BY <2>1
      <4>2. ASSUME NEW soc, NEW todo,
                   gen' = [gen EXCEPT !.pc = "policies", !.soc = soc, !.todo = todo]
            PROVE  FALSE
        BY <2>1, <2>2, <4>2 DEF Fields
      <4>3. ASSUME NEW rails, gen' = [gen EXCEPT !.pc = "nodes", !.rails = rails]
            PROVE  FALSE
        BY <2>1, <2>2, <4>3 DEF Fields
      <4> HIDE DEF Exit
      <4> QED
        BY <4>1, <4>2, <4>3 DEF ReadSocName, LabelClusters
    <3>5. ~(ProbePolicy \/ ProbeDevfreqNode \/ ProbeEnds)
      BY <2>1, <2>2 DEF ProbePolicy, ProbeDevfreqNode, ProbeEnds, Fields
    <3>6. ~(OpenHeader \/ WriteHeader \/ ScanSocDir \/ OpenRegistry)
      BY <2>1, <2>2 DEF OpenHeader, WriteHeader, ScanSocDir, OpenRegistry, Fields
    <3>7. ~UNCHANGED gvars
      BY <2>1
    <3> QED
      BY <1>1, <3>1, <3>2, <3>3, <3>4, <3>5, <3>6, <3>7 DEF GenNext, GenStep
  <2>4. UNCHANGED Present /\ UNCHANGED Whole
    BY <2>3 DEF WriteRegistry, Present, Whole
  <2>5. registry' = [entries |-> BuildRegistry(Present), torn |-> FALSE]
    BY <1>1, <2>3 DEF WriteRegistry, ScanInv, Scanned, Scanning
  <2>6. gen.soc # NoSoc => gen.soc \in Whole
    BY <1>1, <2>3 DEF WriteRegistry, ScanInv, Scanned, Scanning
  <2>7. gen.soc # NoSoc => gen.soc \in Range(BuildRegistry(Present))
    BY <1>1, <2>6, PresentFacts DEF ScanInv, Whole
  <2> QED
    BY <2>4, <2>5, <2>6, <2>7
<1>2. ScanInv /\ GenInv /\ [GenNext]_gvars => [RunSucceeds => Done]_gvars
  BY <1>1 DEF GenInv
<1> QED
  BY <1>2, GenInvariant, ScanInvariant, PTL DEF GenSpec, RegistryComplete

===============================================================================
