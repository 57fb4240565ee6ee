--------------------------- MODULE Contention_proofs ---------------------------
(***************************************************************************)
(* ContInv holds of every behaviour of Contention, and the properties of   *)
(* Contention follow from it.  What a step does to the views and the bases *)
(* is shown from the history first, then that the two controllers together *)
(* keep ContInv if each keeps its part (KeepsA, KeepsB); that part is what *)
(* FreqControllerViews_proofs shows of a controller among others.  Calm    *)
(* rests on what each keeps whatever the other one does.                   *)
(***************************************************************************)
EXTENDS ContentionInv, TLAPS

(* The sessions and their history. *)

LEMMA OverlapIs ==
  /\ Open \subseteq {"A", "B"} /\ Open' \subseteq {"A", "B"}
  /\ Overlap <=> "A" \in Open /\ "B" \in Open
  /\ Overlap' <=> "A" \in Open' /\ "B" \in Open'
  /\ Quiet <=> "A" \notin Open /\ "B" \notin Open
  /\ Quiet' <=> "A" \notin Open' /\ "B" \notin Open'
<1>1. Open \subseteq {"A", "B"} /\ Open' \subseteq {"A", "B"}
  BY DEF Open
<1> QED
  BY <1>1 DEF Overlap, Quiet

LEMMA OpenNodesAre ==
  /\ \A p : p \in OpenNodes <=> \/ "A" \in Open /\ p \in Nodes(implA)
                                \/ "B" \in Open /\ p \in Nodes(implB)
  /\ \A p : p \in OpenNodes' <=> \/ "A" \in Open' /\ p \in Nodes(implA)'
                                 \/ "B" \in Open' /\ p \in Nodes(implB)'
<1>1. "A" # "B"
  OBVIOUS
<1> QED
  BY <1>1, OverlapIs DEF OpenNodes

\* Who is the outer one.
LEMMA OuterMoves ==
  ASSUME Observe
  PROVE  /\ outer \in Open' => outer' = outer
         /\ (Quiet' /\ outer' = "none") \/ outer' \in Open' \/ (Quiet' /\ outer \in Open')
<1>1. CASE outer \in Open'
  BY <1>1 DEF Observe
<1>2. CASE outer \notin Open' /\ Quiet'
  BY <1>2 DEF Observe
<1>3. CASE outer \notin Open' /\ ~Quiet'
  <2>1. \E c \in Open' : TRUE
    BY <1>3 DEF Quiet
  <2>2. outer' = CHOOSE c \in Open' : TRUE
    BY <1>3 DEF Observe
  <2> QED
    BY <2>1, <2>2
<1> QED
  BY <1>1, <1>2, <1>3

LEMMA HistoryMoves ==
  ASSUME HistoryOK, Observe, sysfs \in [Path -> Nat], SA!Good(sysfs)
  PROVE  /\ HistoryOK'
         /\ start' \in [Path -> Nat] /\ under' \in [Path -> Nat]
         /\ SA!Good(start') /\ SA!Good(under')
         /\ BaseA' \in [Path -> Nat] /\ BaseB' \in [Path -> Nat]
         /\ Quiet => start' = sysfs
         /\ ~Quiet => start' = start /\ (crossed => crossed')
         /\ ~Overlap' => under' = start'
         /\ Overlap' /\ ~Overlap => under' = sysfs
         /\ Overlap' /\ Overlap => under' = under
<1>1. /\ Quiet => start' = sysfs
      /\ ~Quiet => start' = start /\ (crossed => crossed')
      /\ ~Overlap' => under' = start'
      /\ Overlap' /\ ~Overlap => under' = sysfs
      /\ Overlap' /\ Overlap => under' = under
      /\ Crossing' => crossed'
  BY DEF Observe
<1>2. /\ start \in [Path -> Nat] /\ under \in [Path -> Nat] /\ SA!Good(start) /\ SA!Good(under)
  BY DEF HistoryOK
<1>3. start' \in [Path -> Nat] /\ SA!Good(start')
  BY <1>1, <1>2
<1>4. under' \in [Path -> Nat] /\ SA!Good(under')
  BY <1>1, <1>2, <1>3
<1>5. BaseA' \in [Path -> Nat] /\ BaseB' \in [Path -> Nat]
  BY <1>3, <1>4 DEF BaseA, BaseB, Base
<1>6. HistoryOK'
  <2>1. \A nodes \in {start', under'} : nodes \in [Path -> Nat] /\ SA!Good(nodes)
    BY <1>3, <1>4
  <2>2. (Quiet' /\ outer' = "none") \/ outer' \in Open'
    BY OuterMoves DEF Quiet
  <2> QED
    BY <1>1, <2>1, <2>2
    DEF HistoryOK, SA!Good, SA!RailsOrdered, SA!RailNodes, SA!TargetPaths, SA!KernelNodes,
        SA!Profiles
<1> QED
  BY <1>1, <1>3, <1>4, <1>5, <1>6

\* The views and the bases, node by node.
LEMMA ViewsAre ==
  /\ \A p \in Path :
       /\ ViewA[p] = IF p \notin Nodes(implA) THEN start[p]
                     ELSE IF p \in HiddenA THEN under[p] ELSE sysfs[p]
       /\ ViewB[p] = IF p \notin Nodes(implB) THEN start[p]
                     ELSE IF p \in HiddenB THEN under[p] ELSE sysfs[p]
       /\ BaseA[p] = IF Overlap /\ outer = "B" /\ p \in Nodes(implA) THEN under[p] ELSE start[p]
       /\ BaseB[p] = IF Overlap /\ outer = "A" /\ p \in Nodes(implB) THEN under[p] ELSE start[p]
       /\ ViewA'[p] = IF p \notin Nodes(implA)' THEN start'[p]
                      ELSE IF p \in HiddenA' THEN under'[p] ELSE sysfs'[p]
       /\ ViewB'[p] = IF p \notin Nodes(implB)' THEN start'[p]
                      ELSE IF p \in HiddenB' THEN under'[p] ELSE sysfs'[p]
       /\ BaseA'[p] = IF Overlap' /\ outer' = "B" /\ p \in Nodes(implA)'
                      THEN under'[p] ELSE start'[p]
       /\ BaseB'[p] = IF Overlap' /\ outer' = "A" /\ p \in Nodes(implB)'
                      THEN under'[p] ELSE start'[p]
  /\ \A f \in {ViewA, ViewB, BaseA, BaseB, ViewA', ViewB', BaseA', BaseB'} :
       f = [p \in Path |-> f[p]]
BY DEF ViewA, ViewB, View, BaseA, BaseB, Base

LEMMA SameContent ==
  ASSUME NEW f, NEW g, f = [p \in Path |-> f[p]], g = [p \in Path |-> g[p]],
         \A p \in Path : f[p] = g[p]
  PROVE  f = g
OBVIOUS

-------------------------------------------------------------------------------
(* A step of A, as the history shows it. *)

\* A working outer session has its nodes for itself.
AloneA == Overlap /\ outer = "A" => Nodes(implA) \cap Nodes(implB) = {}

\* What a step of A may change, and when it does not cross the other one.
MovesA ==
  /\ Observe /\ HistoryOK /\ HistoryOK'
  /\ sysfs \in [Path -> Nat] /\ SA!Good(sysfs)
  /\ \A p \in Path \ Nodes(implA) : sysfs'[p] = sysfs[p]
  /\ UNCHANGED <<implB, frameB>>
  /\ ~Quiet => Untouched
  /\ "A" \in Open => AloneA

\* What it leaves: the other's view, and the nodes of neither.
LeavesA ==
  /\ "B" \in Open => ViewB' = ViewB /\ BaseB' = BaseB
  /\ Untouched'

LEMMA OtherStaysA ==
  ASSUME UNCHANGED <<implB, frameB>>
  PROVE  ("B" \in Open' <=> "B" \in Open) /\ Nodes(implB)' = Nodes(implB)
BY DEF Nodes, Open, B!clocks_applied, B!Running

LEMMA MovesFactsA ==
  ASSUME MovesA
  PROVE  /\ Quiet => start' = sysfs
         /\ ~Quiet => start' = start
         /\ ~Overlap' => under' = start'
         /\ Overlap' /\ ~Overlap => under' = sysfs
         /\ Overlap' /\ Overlap => under' = under
         /\ start' \in [Path -> Nat] /\ SA!Good(start')
         /\ outer \in Open' => outer' = outer
         /\ ~Quiet => outer \in Open
         /\ ("B" \in Open' <=> "B" \in Open) /\ Nodes(implB)' = Nodes(implB)
         /\ sysfs = [p \in Path |-> sysfs[p]]
BY HistoryMoves, OuterMoves, OtherStaysA DEF MovesA, HistoryOK

LEMMA ApartA ==
  ASSUME Observe, HistoryOK, HistoryOK', UNCHANGED <<implB, frameB>>, ~crossed, ~crossed',
         \/ "A" \in Working
         \/ "A" \in Open' /\ "A" \in Working' /\ Nodes(implA)' = Nodes(implA)
  PROVE  AloneA
<1> SUFFICES ASSUME Overlap, outer = "A"
             PROVE  Nodes(implA) \cap Nodes(implB) = {}
  BY DEF AloneA
<1>1. CASE "A" \in Working
  BY <1>1 DEF HistoryOK, Crossing, Sharing
<1>2. CASE "A" \in Open' /\ "A" \in Working' /\ Nodes(implA)' = Nodes(implA)
  <2>1. Overlap' /\ outer' = "A" /\ Nodes(implB)' = Nodes(implB)
    BY <1>2, OverlapIs, OtherStaysA, OuterMoves
  <2>2. ~Sharing'
    BY <1>2, <2>1 DEF HistoryOK, Crossing
  <2> QED
    BY <1>2, <2>1, <2>2 DEF Sharing
<1> QED
  BY <1>1, <1>2

\* The session goes on.
LEMMA GoesOnSeenA ==
  ASSUME MovesA, "A" \in Open, "A" \in Open', Nodes(implA)' = Nodes(implA)
  PROVE  /\ BaseA' = BaseA
         /\ ViewA' = [p \in Path |-> IF p \in Nodes(implA) THEN sysfs'[p] ELSE ViewA[p]]
         /\ LeavesA
<1>1. /\ start' = start /\ outer' = outer /\ outer \in {"A", "B"}
      /\ Overlap' <=> Overlap
      /\ Overlap => under' = under
      /\ AloneA /\ Untouched
      /\ Nodes(implB)' = Nodes(implB) /\ ("B" \in Open' <=> "B" \in Open)
  <2>1. ~Quiet /\ AloneA /\ Untouched
    BY OverlapIs DEF MovesA
  <2>2. (Overlap' <=> Overlap) /\ outer \in Open' /\ outer \in {"A", "B"}
    BY <2>1, MovesFactsA, OverlapIs
  <2> QED
    BY <2>1, <2>2, MovesFactsA
<1>2. /\ \A p : p \in HiddenA' <=> p \in HiddenA
      /\ \A p : p \in HiddenB' <=> p \in HiddenB
      /\ \A p : p \in OpenNodes' <=> p \in OpenNodes
      /\ OuterNodes' = OuterNodes
  <2>1. \A p : p \in OpenNodes' <=> p \in OpenNodes
    BY <1>1, OpenNodesAre
  <2> QED
    BY <1>1, <2>1 DEF HiddenA, HiddenB, OuterNodes
<1>3. BaseA' = BaseA /\ BaseB' = BaseB
  <2>1. \A p \in Path : BaseA'[p] = BaseA[p] /\ BaseB'[p] = BaseB[p]
    BY <1>1, ViewsAre
  <2> QED
    BY <2>1, ViewsAre
<1>4. ViewA' = [p \in Path |-> IF p \in Nodes(implA) THEN sysfs'[p] ELSE ViewA[p]]
  <2>1. ASSUME NEW p \in Nodes(implA) PROVE p \notin HiddenA
    BY <1>1, <2>1 DEF HiddenA, AloneA, MovesA
  <2>2. \A p \in Path : ViewA'[p] = IF p \in Nodes(implA) THEN sysfs'[p] ELSE ViewA[p]
    BY <1>1, <1>2, <2>1, ViewsAre
  <2>3. ViewA' = [p \in Path |-> ViewA'[p]]
    BY ViewsAre
  <2> QED
    BY <2>2, <2>3
<1>5. ASSUME "B" \in Open PROVE ViewB' = ViewB
  <2>1. Overlap
    BY <1>5, OverlapIs
  <2>2. ASSUME NEW p \in Nodes(implB), p \notin HiddenB PROVE p \notin Nodes(implA)
    BY <1>1, <2>1, <2>2 DEF HiddenB, AloneA, MovesA
  <2>3. \A p \in Path : p \notin Nodes(implA) => sysfs'[p] = sysfs[p]
    BY DEF MovesA
  <2>4. \A p \in Path : ViewB'[p] = ViewB[p]
    BY <1>1, <1>2, <2>1, <2>2, <2>3, ViewsAre
  <2> QED
    BY <2>4, ViewsAre
<1>6. Untouched'
  <2>1. Untouched /\ \A p \in Path \ Nodes(implA) : sysfs'[p] = sysfs[p]
    BY OverlapIs DEF MovesA
  <2>2. \A p \in Path \ OpenNodes' : sysfs'[p] = start'[p]
    BY <1>1, <1>2, <2>1, OpenNodesAre DEF Untouched
  <2>3. Overlap' => \A p \in Path \ OuterNodes' : under'[p] = start'[p]
    BY <1>1, <1>2, <2>1 DEF Untouched
  <2> QED
    BY <2>2, <2>3 DEF Untouched
<1> QED
  BY <1>3, <1>4, <1>5, <1>6 DEF LeavesA

\* It begins, alone or inside the other one.
LEMMA OpensSeenA ==
  ASSUME MovesA, "A" \notin Open, "A" \in Open', UNCHANGED <<sysfs, implA>>
  PROVE  /\ ViewA' = [p \in Path |-> IF p \in Nodes(implA) THEN sysfs[p] ELSE start'[p]]
         /\ BaseA' = ViewA'
         /\ LeavesA
<1> DEFINE mix == [p \in Path |-> IF p \in Nodes(implA) THEN sysfs[p] ELSE start'[p]]
<1>1. Nodes(implA)' = Nodes(implA)
  BY DEF Nodes
<1>2. ~Overlap /\ (Overlap' <=> "B" \in Open) /\ (Quiet <=> "B" \notin Open)
  BY MovesFactsA, OverlapIs
<1>3. "B" \in Open => outer = "B" /\ outer' = "B"
  BY <1>2, MovesFactsA, OverlapIs
<1>4. /\ \A p : p \notin HiddenA' /\ p \notin HiddenB
      /\ \A p : p \in HiddenB' => p \in Nodes(implA) /\ Overlap'
  BY <1>1, <1>2, <1>3 DEF HiddenA, HiddenB
<1>5. ViewA' = mix /\ BaseA' = mix
  <2>1. mix = [p \in Path |-> mix[p]]
        /\ \A p \in Path : mix[p] = IF p \in Nodes(implA) THEN sysfs[p] ELSE start'[p]
    OBVIOUS
  <2> HIDE DEF mix
  <2>2. \A p \in Path : ViewA'[p] = mix[p]
    BY <1>1, <1>4, <2>1, ViewsAre
  <2>3. \A p \in Path : BaseA'[p] = mix[p]
    BY <1>1, <1>2, <1>3, <2>1, MovesFactsA, ViewsAre
  <2> QED
    BY <2>1, <2>2, <2>3, ViewsAre, SameContent
<1>6. ASSUME "B" \in Open PROVE ViewB' = ViewB /\ BaseB' = BaseB
  <2>1. \A p \in Path : ViewB'[p] = ViewB[p] /\ BaseB'[p] = BaseB[p]
    BY <1>2, <1>3, <1>4, <1>6, MovesFactsA, ViewsAre
  <2> QED
    BY <2>1, ViewsAre
<1>7. Untouched'
  <2>1. CASE "B" \notin Open
    BY <1>2, <2>1, MovesFactsA DEF Untouched
  <2>2. CASE "B" \in Open
    <3>1. start' = start /\ under' = sysfs /\ Nodes(implB)' = Nodes(implB)
          /\ "B" \in Open'
      BY <1>2, <2>2, MovesFactsA
    <3>2. \A p \in Path : p \notin Nodes(implB) => sysfs[p] = start[p]
      BY <1>2, <2>2, OpenNodesAre DEF MovesA, Untouched
    <3>3. \A p \in Path \ OpenNodes' : sysfs'[p] = start'[p]
      BY <3>1, <3>2, OpenNodesAre
    <3>4. \A p \in Path \ OuterNodes' : under'[p] = start'[p]
      BY <1>3, <2>2, <3>1, <3>2 DEF OuterNodes
    <3> QED
      BY <3>3, <3>4 DEF Untouched
  <2> QED
    BY <2>1, <2>2
<1> QED
  BY <1>5, <1>6, <1>7 DEF LeavesA

\* It ends: what it took over is as it was.
LEMMA ClosesSeenA ==
  ASSUME MovesA, "A" \in Open, "A" \notin Open', UNCHANGED sysfs, ViewA = BaseA
  PROVE  LeavesA
<1>1. /\ start' = start /\ ~Overlap' /\ (Overlap <=> "B" \in Open)
      /\ AloneA /\ Untouched /\ outer \in {"A", "B"}
      /\ Nodes(implB)' = Nodes(implB) /\ ("B" \in Open' <=> "B" \in Open)
  BY MovesFactsA, OverlapIs DEF MovesA
<1>2. ASSUME NEW p \in Path, p \in Nodes(implA)
      PROVE  sysfs[p] = IF Overlap /\ outer = "B" THEN under[p] ELSE start[p]
  <2>1. p \notin HiddenA
    BY <1>1, <1>2 DEF HiddenA, AloneA
  <2> QED
    BY <1>2, <2>1, ViewsAre
<1>3. CASE "B" \notin Open
  <2>1. \A p \in Path : sysfs[p] = start[p]
    BY <1>1, <1>2, <1>3, OpenNodesAre DEF Untouched
  <2> QED
    BY <1>1, <1>3, <2>1 DEF LeavesA, Untouched
<1>4. CASE "B" \in Open
  <2>1. Overlap /\ \A p \in Path : p \notin OuterNodes => under[p] = start[p]
    BY <1>1, <1>4 DEF Untouched
  <2>2. ASSUME NEW p \in Path, p \in Nodes(implB)
        PROVE  ViewB[p] = sysfs[p] /\ BaseB[p] = start[p]
    <3>1. CASE outer = "A"
      <4>1. p \notin Nodes(implA)
        BY <1>1, <2>1, <2>2, <3>1 DEF AloneA
      <4> QED
        BY <2>1, <2>2, <3>1, <4>1, ViewsAre DEF HiddenB, OuterNodes
    <3>2. CASE outer = "B"
      BY <1>2, <2>1, <2>2, <3>2, ViewsAre DEF HiddenB
    <3> QED
      BY <1>1, <3>1, <3>2
  <2>3. ViewB' = ViewB /\ BaseB' = BaseB
    <3>1. \A p \in Path : ViewB'[p] = ViewB[p]
      BY <1>1, <2>2, ViewsAre DEF HiddenB
    <3>2. \A p \in Path : BaseB'[p] = BaseB[p]
      BY <1>1, <2>2, ViewsAre
    <3> QED
      BY <3>1, <3>2, ViewsAre
  <2>4. ASSUME NEW p \in Path, p \notin Nodes(implB) PROVE sysfs[p] = start[p]
    <3>1. CASE p \notin Nodes(implA)
      BY <1>1, <2>4, <3>1, OpenNodesAre DEF Untouched
    <3>2. CASE p \in Nodes(implA)
      BY <1>1, <1>2, <2>1, <2>4, <3>2 DEF OuterNodes
    <3> QED
      BY <3>1, <3>2
  <2>5. \A p \in Path \ OpenNodes' : sysfs'[p] = start'[p]
    BY <1>1, <1>4, <2>4, OpenNodesAre
  <2> QED
    BY <1>1, <2>3, <2>5 DEF LeavesA, Untouched
<1> QED
  BY <1>3, <1>4

\* There is none.
LEMMA IdleSeenA ==
  ASSUME MovesA, "A" \notin Open, "A" \notin Open', UNCHANGED sysfs
  PROVE  LeavesA
<1>1. ~Overlap /\ ~Overlap' /\ (Quiet <=> "B" \notin Open)
      /\ Nodes(implB)' = Nodes(implB) /\ ("B" \in Open' <=> "B" \in Open)
  BY MovesFactsA, OverlapIs
<1>2. CASE "B" \notin Open
  BY <1>1, <1>2, MovesFactsA DEF LeavesA, Untouched
<1>3. CASE "B" \in Open
  <2>1. start' = start /\ Untouched
    BY <1>1, <1>3, MovesFactsA DEF MovesA
  <2>2. \A p \in Path : ViewB'[p] = ViewB[p] /\ BaseB'[p] = BaseB[p]
    BY <1>1, <2>1, ViewsAre DEF HiddenB
  <2>3. ViewB' = ViewB /\ BaseB' = BaseB
    BY <2>2, ViewsAre
  <2>4. \A p \in Path \ OpenNodes' : sysfs'[p] = start'[p]
    BY <1>1, <1>3, <2>1, OpenNodesAre DEF Untouched
  <2> QED
    BY <1>1, <2>3, <2>4 DEF LeavesA, Untouched
<1> QED
  BY <1>2, <1>3

-------------------------------------------------------------------------------
(* A step of B, as the history shows it. *)

\* A working outer session has its nodes for itself.
AloneB == Overlap /\ outer = "B" => Nodes(implB) \cap Nodes(implA) = {}

\* What a step of B may change, and when it does not cross the other one.
MovesB ==
  /\ Observe /\ HistoryOK /\ HistoryOK'
  /\ sysfs \in [Path -> Nat] /\ SA!Good(sysfs)
  /\ \A p \in Path \ Nodes(implB) : sysfs'[p] = sysfs[p]
  /\ UNCHANGED <<implA, frameA>>
  /\ ~Quiet => Untouched
  /\ "B" \in Open => AloneB

\* What it leaves: the other's view, and the nodes of neither.
LeavesB ==
  /\ "A" \in Open => ViewA' = ViewA /\ BaseA' = BaseA
  /\ Untouched'

LEMMA OtherStaysB ==
  ASSUME UNCHANGED <<implA, frameA>>
  PROVE  ("A" \in Open' <=> "A" \in Open) /\ Nodes(implA)' = Nodes(implA)
BY DEF Nodes, Open, A!clocks_applied, A!Running

LEMMA MovesFactsB ==
  ASSUME MovesB
  PROVE  /\ Quiet => start' = sysfs
         /\ ~Quiet => start' = start
         /\ ~Overlap' => under' = start'
         /\ Overlap' /\ ~Overlap => under' = sysfs
         /\ Overlap' /\ Overlap => under' = under
         /\ start' \in [Path -> Nat] /\ SA!Good(start')
         /\ outer \in Open' => outer' = outer
         /\ ~Quiet => outer \in Open
         /\ ("A" \in Open' <=> "A" \in Open) /\ Nodes(implA)' = Nodes(implA)
         /\ sysfs = [p \in Path |-> sysfs[p]]
BY HistoryMoves, OuterMoves, OtherStaysB DEF MovesB, HistoryOK

LEMMA ApartB ==
  ASSUME Observe, HistoryOK, HistoryOK', UNCHANGED <<implA, frameA>>, ~crossed, ~crossed',
         \/ "B" \in Working
         \/ "B" \in Open' /\ "B" \in Working' /\ Nodes(implB)' = Nodes(implB)
  PROVE  AloneB
<1> SUFFICES ASSUME Overlap, outer = "B"
             PROVE  Nodes(implB) \cap Nodes(implA) = {}
  BY DEF AloneB
<1>1. CASE "B" \in Working
  BY <1>1 DEF HistoryOK, Crossing, Sharing
<1>2. CASE "B" \in Open' /\ "B" \in Working' /\ Nodes(implB)' = Nodes(implB)
  <2>1. Overlap' /\ outer' = "B" /\ Nodes(implA)' = Nodes(implA)
    BY <1>2, OverlapIs, OtherStaysB, OuterMoves
  <2>2. ~Sharing'
    BY <1>2, <2>1 DEF HistoryOK, Crossing
  <2> QED
    BY <1>2, <2>1, <2>2 DEF Sharing
<1> QED
  BY <1>1, <1>2

\* The session goes on.
LEMMA GoesOnSeenB ==
  ASSUME MovesB, "B" \in Open, "B" \in Open', Nodes(implB)' = Nodes(implB)
  PROVE  /\ BaseB' = BaseB
         /\ ViewB' = [p \in Path |-> IF p \in Nodes(implB) THEN sysfs'[p] ELSE ViewB[p]]
         /\ LeavesB
<1>1. /\ start' = start /\ outer' = outer /\ outer \in {"B", "A"}
      /\ Overlap' <=> Overlap
      /\ Overlap => under' = under
      /\ AloneB /\ Untouched
      /\ Nodes(implA)' = Nodes(implA) /\ ("A" \in Open' <=> "A" \in Open)
  <2>1. ~Quiet /\ AloneB /\ Untouched
    BY OverlapIs DEF MovesB
  <2>2. (Overlap' <=> Overlap) /\ outer \in Open' /\ outer \in {"B", "A"}
    BY <2>1, MovesFactsB, OverlapIs
  <2> QED
    BY <2>1, <2>2, MovesFactsB
<1>2. /\ \A p : p \in HiddenB' <=> p \in HiddenB
      /\ \A p : p \in HiddenA' <=> p \in HiddenA
      /\ \A p : p \in OpenNodes' <=> p \in OpenNodes
      /\ OuterNodes' = OuterNodes
  <2>1. \A p : p \in OpenNodes' <=> p \in OpenNodes
    BY <1>1, OpenNodesAre
  <2> QED
    BY <1>1, <2>1 DEF HiddenB, HiddenA, OuterNodes
<1>3. BaseB' = BaseB /\ BaseA' = BaseA
  <2>1. \A p \in Path : BaseB'[p] = BaseB[p] /\ BaseA'[p] = BaseA[p]
    BY <1>1, ViewsAre
  <2> QED
    BY <2>1, ViewsAre
<1>4. ViewB' = [p \in Path |-> IF p \in Nodes(implB) THEN sysfs'[p] ELSE ViewB[p]]
  <2>1. ASSUME NEW p \in Nodes(implB) PROVE p \notin HiddenB
    BY <1>1, <2>1 DEF HiddenB, AloneB, MovesB
  <2>2. \A p \in Path : ViewB'[p] = IF p \in Nodes(implB) THEN sysfs'[p] ELSE ViewB[p]
    BY <1>1, <1>2, <2>1, ViewsAre
  <2>3. ViewB' = [p \in Path |-> ViewB'[p]]
    BY ViewsAre
  <2> QED
    BY <2>2, <2>3
<1>5. ASSUME "A" \in Open PROVE ViewA' = ViewA
  <2>1. Overlap
    BY <1>5, OverlapIs
  <2>2. ASSUME NEW p \in Nodes(implA), p \notin HiddenA PROVE p \notin Nodes(implB)
    BY <1>1, <2>1, <2>2 DEF HiddenA, AloneB, MovesB
  <2>3. \A p \in Path : p \notin Nodes(implB) => sysfs'[p] = sysfs[p]
    BY DEF MovesB
  <2>4. \A p \in Path : ViewA'[p] = ViewA[p]
    BY <1>1, <1>2, <2>1, <2>2, <2>3, ViewsAre
  <2> QED
    BY <2>4, ViewsAre
<1>6. Untouched'
  <2>1. Untouched /\ \A p \in Path \ Nodes(implB) : sysfs'[p] = sysfs[p]
    BY OverlapIs DEF MovesB
  <2>2. \A p \in Path \ OpenNodes' : sysfs'[p] = start'[p]
    BY <1>1, <1>2, <2>1, OpenNodesAre DEF Untouched
  <2>3. Overlap' => \A p \in Path \ OuterNodes' : under'[p] = start'[p]
    BY <1>1, <1>2, <2>1 DEF Untouched
  <2> QED
    BY <2>2, <2>3 DEF Untouched
<1> QED
  BY <1>3, <1>4, <1>5, <1>6 DEF LeavesB

\* It begins, alone or inside the other one.
LEMMA OpensSeenB ==
  ASSUME MovesB, "B" \notin Open, "B" \in Open', UNCHANGED <<sysfs, implB>>
  PROVE  /\ ViewB' = [p \in Path |-> IF p \in Nodes(implB) THEN sysfs[p] ELSE start'[p]]
         /\ BaseB' = ViewB'
         /\ LeavesB
<1> DEFINE mix == [p \in Path |-> IF p \in Nodes(implB) THEN sysfs[p] ELSE start'[p]]
<1>1. Nodes(implB)' = Nodes(implB)
  BY DEF Nodes
<1>2. ~Overlap /\ (Overlap' <=> "A" \in Open) /\ (Quiet <=> "A" \notin Open)
  BY MovesFactsB, OverlapIs
<1>3. "A" \in Open => outer = "A" /\ outer' = "A"
  BY <1>2, MovesFactsB, OverlapIs
<1>4. /\ \A p : p \notin HiddenB' /\ p \notin HiddenA
      /\ \A p : p \in HiddenA' => p \in Nodes(implB) /\ Overlap'
  BY <1>1, <1>2, <1>3 DEF HiddenB, HiddenA
<1>5. ViewB' = mix /\ BaseB' = mix
  <2>1. mix = [p \in Path |-> mix[p]]
        /\ \A p \in Path : mix[p] = IF p \in Nodes(implB) THEN sysfs[p] ELSE start'[p]
    OBVIOUS
  <2> HIDE DEF mix
  <2>2. \A p \in Path : ViewB'[p] = mix[p]
    BY <1>1, <1>4, <2>1, ViewsAre
  <2>3. \A p \in Path : BaseB'[p] = mix[p]
    BY <1>1, <1>2, <1>3, <2>1, MovesFactsB, ViewsAre
  <2> QED
    BY <2>1, <2>2, <2>3, ViewsAre, SameContent
<1>6. ASSUME "A" \in Open PROVE ViewA' = ViewA /\ BaseA' = BaseA
  <2>1. \A p \in Path : ViewA'[p] = ViewA[p] /\ BaseA'[p] = BaseA[p]
    BY <1>2, <1>3, <1>4, <1>6, MovesFactsB, ViewsAre
  <2> QED
    BY <2>1, ViewsAre
<1>7. Untouched'
  <2>1. CASE "A" \notin Open
    BY <1>2, <2>1, MovesFactsB DEF Untouched
  <2>2. CASE "A" \in Open
    <3>1. start' = start /\ under' = sysfs /\ Nodes(implA)' = Nodes(implA)
          /\ "A" \in Open'
      BY <1>2, <2>2, MovesFactsB
    <3>2. \A p \in Path : p \notin Nodes(implA) => sysfs[p] = start[p]
      BY <1>2, <2>2, OpenNodesAre DEF MovesB, Untouched
    <3>3. \A p \in Path \ OpenNodes' : sysfs'[p] = start'[p]
      BY <3>1, <3>2, OpenNodesAre
    <3>4. \A p \in Path \ OuterNodes' : under'[p] = start'[p]
      BY <1>3, <2>2, <3>1, <3>2 DEF OuterNodes
    <3> QED
      BY <3>3, <3>4 DEF Untouched
  <2> QED
    BY <2>1, <2>2
<1> QED
  BY <1>5, <1>6, <1>7 DEF LeavesB

\* It ends: what it took over is as it was.
LEMMA ClosesSeenB ==
  ASSUME MovesB, "B" \in Open, "B" \notin Open', UNCHANGED sysfs, ViewB = BaseB
  PROVE  LeavesB
<1>1. /\ start' = start /\ ~Overlap' /\ (Overlap <=> "A" \in Open)
      /\ AloneB /\ Untouched /\ outer \in {"B", "A"}
      /\ Nodes(implA)' = Nodes(implA) /\ ("A" \in Open' <=> "A" \in Open)
  BY MovesFactsB, OverlapIs DEF MovesB
<1>2. ASSUME NEW p \in Path, p \in Nodes(implB)
      PROVE  sysfs[p] = IF Overlap /\ outer = "A" THEN under[p] ELSE start[p]
  <2>1. p \notin HiddenB
    BY <1>1, <1>2 DEF HiddenB, AloneB
  <2> QED
    BY <1>2, <2>1, ViewsAre
<1>3. CASE "A" \notin Open
  <2>1. \A p \in Path : sysfs[p] = start[p]
    BY <1>1, <1>2, <1>3, OpenNodesAre DEF Untouched
  <2> QED
    BY <1>1, <1>3, <2>1 DEF LeavesB, Untouched
<1>4. CASE "A" \in Open
  <2>1. Overlap /\ \A p \in Path : p \notin OuterNodes => under[p] = start[p]
    BY <1>1, <1>4 DEF Untouched
  <2>2. ASSUME NEW p \in Path, p \in Nodes(implA)
        PROVE  ViewA[p] = sysfs[p] /\ BaseA[p] = start[p]
    <3>1. CASE outer = "B"
      <4>1. p \notin Nodes(implB)
        BY <1>1, <2>1, <2>2, <3>1 DEF AloneB
      <4> QED
        BY <2>1, <2>2, <3>1, <4>1, ViewsAre DEF HiddenA, OuterNodes
    <3>2. CASE outer = "A"
      BY <1>2, <2>1, <2>2, <3>2, ViewsAre DEF HiddenA
    <3> QED
      BY <1>1, <3>1, <3>2
  <2>3. ViewA' = ViewA /\ BaseA' = BaseA
    <3>1. \A p \in Path : ViewA'[p] = ViewA[p]
      BY <1>1, <2>2, ViewsAre DEF HiddenA
    <3>2. \A p \in Path : BaseA'[p] = BaseA[p]
      BY <1>1, <2>2, ViewsAre
    <3> QED
      BY <3>1, <3>2, ViewsAre
  <2>4. ASSUME NEW p \in Path, p \notin Nodes(implA) PROVE sysfs[p] = start[p]
    <3>1. CASE p \notin Nodes(implB)
      BY <1>1, <2>4, <3>1, OpenNodesAre DEF Untouched
    <3>2. CASE p \in Nodes(implB)
      BY <1>1, <1>2, <2>1, <2>4, <3>2 DEF OuterNodes
    <3> QED
      BY <3>1, <3>2
  <2>5. \A p \in Path \ OpenNodes' : sysfs'[p] = start'[p]
    BY <1>1, <1>4, <2>4, OpenNodesAre
  <2> QED
    BY <1>1, <2>3, <2>5 DEF LeavesB, Untouched
<1> QED
  BY <1>3, <1>4

\* There is none.
LEMMA IdleSeenB ==
  ASSUME MovesB, "B" \notin Open, "B" \notin Open', UNCHANGED sysfs
  PROVE  LeavesB
<1>1. ~Overlap /\ ~Overlap' /\ (Quiet <=> "A" \notin Open)
      /\ Nodes(implA)' = Nodes(implA) /\ ("A" \in Open' <=> "A" \in Open)
  BY MovesFactsB, OverlapIs
<1>2. CASE "A" \notin Open
  BY <1>1, <1>2, MovesFactsB DEF LeavesB, Untouched
<1>3. CASE "A" \in Open
  <2>1. start' = start /\ Untouched
    BY <1>1, <1>3, MovesFactsB DEF MovesB
  <2>2. \A p \in Path : ViewA'[p] = ViewA[p] /\ BaseA'[p] = BaseA[p]
    BY <1>1, <2>1, ViewsAre DEF HiddenA
  <2>3. ViewA' = ViewA /\ BaseA' = BaseA
    BY <2>2, ViewsAre
  <2>4. \A p \in Path \ OpenNodes' : sysfs'[p] = start'[p]
    BY <1>1, <1>3, <2>1, OpenNodesAre DEF Untouched
  <2> QED
    BY <1>1, <2>3, <2>4 DEF LeavesB, Untouched
<1> QED
  BY <1>2, <1>3

-------------------------------------------------------------------------------
(* The two together. *)

LEMMA SameGoods ==
  (SA!Good(sysfs) <=> SB!Good(sysfs)) /\ (SA!Good(sysfs)' <=> SB!Good(sysfs)')
BY DEF SA!Good, SB!Good, SA!RailsOrdered, SB!RailsOrdered, SA!RailNodes, SB!RailNodes,
       SA!TargetPaths, SB!TargetPaths, SA!KernelNodes, SB!KernelNodes, SA!Profiles, SB!Profiles

\* A's part, shown below (ControllerA): how it begins; that its nodes are paths; what a
\* step of its own and a step of the other one leave it; that what it sees stays when
\* neither it nor its view moves; that it works in its session, on the same nodes; and
\* that its steps keep what it sees and the other one's view.
KeepsA ==
  /\ A!Init /\ BaseA = sysfs => SA!Own /\ "A" \notin Open
  /\ SA!Own => Nodes(implA) \subseteq Path
  /\ SA!Own /\ ActA /\ BaseA' \in [Path -> Nat] =>
       /\ SA!Own' /\ sysfs' \in [Path -> Nat] /\ SA!Good(sysfs)'
       /\ \A p \in Path \ Nodes(implA) : sysfs'[p] = sysfs[p]
       /\ UNCHANGED g_active_device
  /\ /\ SA!Own /\ UNCHANGED <<g_active_device, implA, frameA>>
     /\ sysfs' \in [Path -> Nat] /\ SA!Good(sysfs)' /\ BaseA' \in [Path -> Nat]
     => SA!Own'
  /\ /\ VA!Inv /\ VA!AppliedInv
     /\ UNCHANGED <<g_active_device, implA, frameA>> /\ ViewA' = ViewA /\ BaseA' = BaseA
     => VA!Inv' /\ VA!AppliedInv'
  /\ SA!Own /\ SA!Own' /\ ActA /\ "A" \in Open =>
       /\ "A" \in Working \/ ("A" \in Open' /\ "A" \in Working')
       /\ "A" \in Open' => Nodes(implA)' = Nodes(implA)
  /\ /\ SA!Own /\ SA!Own' /\ ActA /\ MovesA
     /\ "A" \in Open => VA!Inv /\ VA!AppliedInv
     => LeavesA /\ ("A" \in Open' => VA!Inv' /\ VA!AppliedInv')

\* B's part, shown below (ControllerB): how it begins; that its nodes are paths; what a
\* step of its own and a step of the other one leave it; that what it sees stays when
\* neither it nor its view moves; that it works in its session, on the same nodes; and
\* that its steps keep what it sees and the other one's view.
KeepsB ==
  /\ B!Init /\ BaseB = sysfs => SB!Own /\ "B" \notin Open
  /\ SB!Own => Nodes(implB) \subseteq Path
  /\ SB!Own /\ ActB /\ BaseB' \in [Path -> Nat] =>
       /\ SB!Own' /\ sysfs' \in [Path -> Nat] /\ SA!Good(sysfs)'
       /\ \A p \in Path \ Nodes(implB) : sysfs'[p] = sysfs[p]
       /\ UNCHANGED g_active_device
  /\ /\ SB!Own /\ UNCHANGED <<g_active_device, implB, frameB>>
     /\ sysfs' \in [Path -> Nat] /\ SA!Good(sysfs)' /\ BaseB' \in [Path -> Nat]
     => SB!Own'
  /\ /\ VB!Inv /\ VB!AppliedInv
     /\ UNCHANGED <<g_active_device, implB, frameB>> /\ ViewB' = ViewB /\ BaseB' = BaseB
     => VB!Inv' /\ VB!AppliedInv'
  /\ SB!Own /\ SB!Own' /\ ActB /\ "B" \in Open =>
       /\ "B" \in Working \/ ("B" \in Open' /\ "B" \in Working')
       /\ "B" \in Open' => Nodes(implB)' = Nodes(implB)
  /\ /\ SB!Own /\ SB!Own' /\ ActB /\ MovesB
     /\ "B" \in Open => VB!Inv /\ VB!AppliedInv
     => LeavesB /\ ("B" \in Open' => VB!Inv' /\ VB!AppliedInv')

LEMMA StepA ==
  ASSUME KeepsA, KeepsB, ContInv, ActA, Observe
  PROVE  ContInv'
<1>1. SA!Own /\ SB!Own /\ HistoryOK /\ UNCHANGED <<implB, frameB>>
  BY DEF ContInv, ActA
<1>2. sysfs \in [Path -> Nat] /\ SA!Good(sysfs)
  BY <1>1, SameGoods DEF SA!Own, SA!TypeOK
<1>3. /\ HistoryOK' /\ BaseA' \in [Path -> Nat] /\ BaseB' \in [Path -> Nat]
      /\ ~Quiet => (crossed => crossed')
  BY <1>1, <1>2, HistoryMoves
<1>4. /\ SA!Own' /\ sysfs' \in [Path -> Nat] /\ SA!Good(sysfs)'
      /\ \A p \in Path \ Nodes(implA) : sysfs'[p] = sysfs[p]
      /\ UNCHANGED g_active_device
  BY <1>1, <1>3 DEF KeepsA
<1>5. SB!Own'
  BY <1>1, <1>3, <1>4, SameGoods DEF KeepsB
<1>6. ASSUME ~crossed' PROVE Nested'
  <2>1. ~Quiet => ~crossed /\ Nested
    BY <1>3, <1>6 DEF ContInv
  <2>2. "A" \in Open => AloneA
    BY <1>1, <1>3, <1>4, <1>6, <2>1, ApartA, OverlapIs DEF KeepsA
  <2>3. MovesA /\ ("A" \in Open => VA!Inv /\ VA!AppliedInv)
        /\ ("B" \in Open => VB!Inv /\ VB!AppliedInv)
    BY <1>1, <1>2, <1>3, <1>4, <2>1, <2>2, OverlapIs DEF MovesA, Nested
  <2>4. LeavesA /\ ("A" \in Open' => VA!Inv' /\ VA!AppliedInv')
    BY <1>1, <1>4, <2>3 DEF KeepsA
  <2>5. "B" \in Open' => VB!Inv' /\ VB!AppliedInv'
    BY <1>1, <1>4, <2>3, <2>4, OtherStaysA DEF LeavesA, KeepsB
  <2> QED
    BY <2>2, <2>3, <2>4, <2>5 DEF Nested, LeavesA
<1> QED
  BY <1>3, <1>4, <1>5, <1>6 DEF ContInv

LEMMA StepB ==
  ASSUME KeepsB, KeepsA, ContInv, ActB, Observe
  PROVE  ContInv'
<1>1. SB!Own /\ SA!Own /\ HistoryOK /\ UNCHANGED <<implA, frameA>>
  BY DEF ContInv, ActB
<1>2. sysfs \in [Path -> Nat] /\ SA!Good(sysfs)
  BY <1>1, SameGoods DEF SB!Own, SB!TypeOK
<1>3. /\ HistoryOK' /\ BaseB' \in [Path -> Nat] /\ BaseA' \in [Path -> Nat]
      /\ ~Quiet => (crossed => crossed')
  BY <1>1, <1>2, HistoryMoves
<1>4. /\ SB!Own' /\ sysfs' \in [Path -> Nat] /\ SA!Good(sysfs)'
      /\ \A p \in Path \ Nodes(implB) : sysfs'[p] = sysfs[p]
      /\ UNCHANGED g_active_device
  BY <1>1, <1>3 DEF KeepsB
<1>5. SA!Own'
  BY <1>1, <1>3, <1>4, SameGoods DEF KeepsA
<1>6. ASSUME ~crossed' PROVE Nested'
  <2>1. ~Quiet => ~crossed /\ Nested
    BY <1>3, <1>6 DEF ContInv
  <2>2. "B" \in Open => AloneB
    BY <1>1, <1>3, <1>4, <1>6, <2>1, ApartB, OverlapIs DEF KeepsB
  <2>3. MovesB /\ ("B" \in Open => VB!Inv /\ VB!AppliedInv)
        /\ ("A" \in Open => VA!Inv /\ VA!AppliedInv)
    BY <1>1, <1>2, <1>3, <1>4, <2>1, <2>2, OverlapIs DEF MovesB, Nested
  <2>4. LeavesB /\ ("B" \in Open' => VB!Inv' /\ VB!AppliedInv')
    BY <1>1, <1>4, <2>3 DEF KeepsB
  <2>5. "A" \in Open' => VA!Inv' /\ VA!AppliedInv'
    BY <1>1, <1>4, <2>3, <2>4, OtherStaysB DEF LeavesB, KeepsA
  <2> QED
    BY <2>2, <2>3, <2>4, <2>5 DEF Nested, LeavesB
<1> QED
  BY <1>3, <1>4, <1>5, <1>6 DEF ContInv

LEMMA Begins == KeepsA /\ KeepsB /\ CInit => ContInv
<1> SUFFICES ASSUME KeepsA, KeepsB, CInit PROVE ContInv
  OBVIOUS
<1>1. ~Overlap
  <2>1. ~A!clocks_applied /\ ~A!Running
    BY DEF CInit, A!Init, A!clocks_applied, A!Running, A!NewImpl, A!Enter
  <2> QED
    BY <2>1, OverlapIs DEF Open
<1>2. sysfs \in [Path -> Nat] /\ start = sysfs /\ under = sysfs
  BY InitSysfsAssumption DEF CInit, A!Init, A!SysfsInit
<1>3. BaseA = sysfs /\ BaseB = sysfs
  <2>1. \A p \in Path : BaseA[p] = sysfs[p] /\ BaseB[p] = sysfs[p]
    BY <1>1, <1>2, ViewsAre
  <2>2. sysfs = [p \in Path |-> sysfs[p]]
    BY <1>2
  <2> QED
    BY <2>1, <2>2, ViewsAre, SameContent
<1>4. SA!Own /\ SB!Own /\ "A" \notin Open /\ "B" \notin Open
  BY <1>3 DEF CInit, KeepsA, KeepsB
<1>5. Quiet /\ outer = "none" /\ ~crossed /\ ~Crossing
  BY <1>1, <1>4, OverlapIs DEF CInit, Crossing
<1>6. HistoryOK
  BY <1>2, <1>4, <1>5 DEF HistoryOK, SA!Own
<1>7. Nested
  BY <1>1, <1>2, <1>4 DEF Nested, Untouched
<1> QED
  BY <1>4, <1>6, <1>7 DEF ContInv

LEMMA Stutters == KeepsA /\ KeepsB /\ ContInv /\ UNCHANGED cvars => ContInv'
<1> SUFFICES ASSUME KeepsA, KeepsB, ContInv, UNCHANGED cvars PROVE ContInv'
  OBVIOUS
<1>1. UNCHANGED <<g_active_device, sysfs, implA, frameA, implB, frameB>>
      /\ UNCHANGED <<start, outer, under, crossed>>
  BY DEF cvars, controllers
<1>2. Open' = Open /\ Working' = Working /\ Nodes(implA)' = Nodes(implA)
      /\ Nodes(implB)' = Nodes(implB)
  BY <1>1 DEF Open, Working, Nodes, A!clocks_applied, A!Running, B!clocks_applied, B!Running
<1>3. /\ Overlap' <=> Overlap
      /\ HiddenA' = HiddenA /\ HiddenB' = HiddenB
      /\ OuterNodes' = OuterNodes /\ OpenNodes' = OpenNodes
  <2>1. Overlap' <=> Overlap
    BY <1>2 DEF Overlap
  <2> QED
    BY <1>1, <1>2, <2>1 DEF HiddenA, HiddenB, OuterNodes, OpenNodes
<1>4. ViewA' = ViewA /\ ViewB' = ViewB /\ BaseA' = BaseA /\ BaseB' = BaseB
  <2>1. \A p \in Path : /\ ViewA'[p] = ViewA[p] /\ ViewB'[p] = ViewB[p]
                        /\ BaseA'[p] = BaseA[p] /\ BaseB'[p] = BaseB[p]
    BY <1>1, <1>2, <1>3, ViewsAre
  <2> QED
    BY <2>1, ViewsAre
<1>5. SA!Own /\ SB!Own /\ HistoryOK /\ sysfs' \in [Path -> Nat]
      /\ SA!Good(sysfs)
      /\ BaseA' \in [Path -> Nat] /\ BaseB' \in [Path -> Nat]
  <2>1. SA!Own /\ SB!Own /\ HistoryOK
    BY DEF ContInv
  <2>2. sysfs \in [Path -> Nat] /\ SA!Good(sysfs)
    BY <2>1 DEF SA!Own, SA!TypeOK
  <2>3. start \in [Path -> Nat] /\ under \in [Path -> Nat]
    BY <2>1 DEF HistoryOK
  <2>4. BaseA \in [Path -> Nat] /\ BaseB \in [Path -> Nat]
    BY <2>3 DEF BaseA, BaseB, Base
  <2> QED
    BY <1>1, <1>4, <2>1, <2>2, <2>4
<1>6. \A nodes \in {start', under'} : nodes \in [Path -> Nat] /\ SA!Good(nodes)
  BY <1>1, <1>5 DEF HistoryOK
<1>7. SA!Good(sysfs)'
  BY <1>1, <1>5
  DEF SA!Good, SA!RailsOrdered, SA!RailNodes, SA!TargetPaths, SA!KernelNodes, SA!Profiles
<1>8. SA!Own' /\ SB!Own'
  BY <1>1, <1>5, <1>7, SameGoods DEF KeepsA, KeepsB
<1>9. HistoryOK'
  BY <1>1, <1>2, <1>3, <1>5, <1>6
  DEF HistoryOK, Quiet, Crossing, Sharing, SA!Good, SA!RailsOrdered, SA!RailNodes,
      SA!TargetPaths, SA!KernelNodes, SA!Profiles
<1>10. ASSUME ~crossed' PROVE Nested'
  <2>1. Nested
    BY <1>1, <1>10 DEF ContInv
  <2>2. "A" \in Open' => VA!Inv' /\ VA!AppliedInv'
    BY <1>1, <1>2, <1>4, <2>1 DEF Nested, KeepsA
  <2>3. "B" \in Open' => VB!Inv' /\ VB!AppliedInv'
    BY <1>1, <1>2, <1>4, <2>1 DEF Nested, KeepsB
  <2>4. Untouched'
    BY <1>1, <1>3, <2>1 DEF Nested, Untouched
  <2> QED
    BY <2>2, <2>3, <2>4 DEF Nested
<1> QED
  BY <1>8, <1>9, <1>10 DEF ContInv

-------------------------------------------------------------------------------
(* The properties of Contention. *)

LEMMA Restored == ContInv => NestedRestores
<1> SUFFICES ASSUME ContInv, Quiet, ~crossed PROVE sysfs = start
  BY DEF NestedRestores
<1>1. sysfs \in [Path -> Nat] /\ start \in [Path -> Nat] /\ Nested
  BY DEF ContInv, HistoryOK, SA!Own, SA!TypeOK
<1>2. \A p \in Path : sysfs[p] = start[p]
  BY <1>1, OverlapIs, OpenNodesAre DEF Nested, Untouched
<1> QED
  BY <1>1, <1>2

\* A controller's profile as it sees it is its profile in sysfs.
LEMMA AppliedSeenA ==
  ASSUME KeepsA, SA!Own, VA!AppliedInv, A!Idle, frameA.op = "set", frameA.ok
  PROVE  InForce(implA, HiddenA)
<1>1. /\ \A j \in DOMAIN implA.selected_targets :
           VA!TargetHolds(implA.selected_targets[j], ViewA)
      /\ \A j \in DOMAIN implA.selected_tunables :
           VA!TunableHolds(implA.selected_tunables[j], ViewA)
  BY DEF VA!AppliedInv, VA!Applied, VA!Idle, A!Idle
<1>2. ASSUME NEW p \in Nodes(implA), p \notin HiddenA
      PROVE  ViewA[p] = sysfs[p]
  <2>1. p \in Path
    BY DEF KeepsA
  <2> QED
    BY <1>2, <2>1, ViewsAre
<1>3. ASSUME NEW t \in ToSet(implA.selected_targets)
      PROVE  /\ WantMin(t) /\ t.min_path \notin HiddenA => sysfs[t.min_path] = t.min_khz
             /\ WantMax(t) /\ t.max_path \notin HiddenA => sysfs[t.max_path] = t.max_khz
  <2>1. VA!TargetHolds(t, ViewA)
    BY <1>1 DEF ToSet
  <2>2. /\ t.min_path # NoPath => t.min_path \in Nodes(implA)
        /\ t.max_path # NoPath => t.max_path \in Nodes(implA)
    BY DEF Nodes
  <2> QED
    BY <1>2, <2>1, <2>2
    DEF VA!TargetHolds, VA!WantMin, VA!WantMax, VA!PathPresent, WantMin, WantMax, PathPresent
<1>4. ASSUME NEW t \in ToSet(implA.selected_tunables),
             PathPresent(t.sysfs_path), t.sysfs_path \notin HiddenA
      PROVE  sysfs[t.sysfs_path] = t.value
  <2>1. VA!TunableHolds(t, ViewA)
    BY <1>1 DEF ToSet
  <2>2. t.sysfs_path \in Nodes(implA)
    BY <1>4 DEF Nodes, PathPresent
  <2> QED
    BY <1>2, <1>4, <2>1, <2>2 DEF VA!TunableHolds, VA!PathPresent, PathPresent
<1> QED
  BY <1>3, <1>4 DEF InForce

LEMMA AppliedSeenB ==
  ASSUME KeepsB, SB!Own, VB!AppliedInv, B!Idle, frameB.op = "set", frameB.ok
  PROVE  InForce(implB, HiddenB)
<1>1. /\ \A j \in DOMAIN implB.selected_targets :
           VB!TargetHolds(implB.selected_targets[j], ViewB)
      /\ \A j \in DOMAIN implB.selected_tunables :
           VB!TunableHolds(implB.selected_tunables[j], ViewB)
  BY DEF VB!AppliedInv, VB!Applied, VB!Idle, B!Idle
<1>2. ASSUME NEW p \in Nodes(implB), p \notin HiddenB
      PROVE  ViewB[p] = sysfs[p]
  <2>1. p \in Path
    BY DEF KeepsB
  <2> QED
    BY <1>2, <2>1, ViewsAre
<1>3. ASSUME NEW t \in ToSet(implB.selected_targets)
      PROVE  /\ WantMin(t) /\ t.min_path \notin HiddenB => sysfs[t.min_path] = t.min_khz
             /\ WantMax(t) /\ t.max_path \notin HiddenB => sysfs[t.max_path] = t.max_khz
  <2>1. VB!TargetHolds(t, ViewB)
    BY <1>1 DEF ToSet
  <2>2. /\ t.min_path # NoPath => t.min_path \in Nodes(implB)
        /\ t.max_path # NoPath => t.max_path \in Nodes(implB)
    BY DEF Nodes
  <2> QED
    BY <1>2, <2>1, <2>2
    DEF VB!TargetHolds, VB!WantMin, VB!WantMax, VB!PathPresent, WantMin, WantMax, PathPresent
<1>4. ASSUME NEW t \in ToSet(implB.selected_tunables),
             PathPresent(t.sysfs_path), t.sysfs_path \notin HiddenB
      PROVE  sysfs[t.sysfs_path] = t.value
  <2>1. VB!TunableHolds(t, ViewB)
    BY <1>1 DEF ToSet
  <2>2. t.sysfs_path \in Nodes(implB)
    BY <1>4 DEF Nodes, PathPresent
  <2> QED
    BY <1>2, <1>4, <2>1, <2>2 DEF VB!TunableHolds, VB!PathPresent, PathPresent
<1> QED
  BY <1>3, <1>4 DEF InForce

LEMMA InForceThen == KeepsA /\ KeepsB /\ ContInv => NestedApplies
<1> SUFFICES ASSUME KeepsA, KeepsB, ContInv, ~crossed PROVE NestedApplies
  BY DEF NestedApplies
<1>1. SA!Own /\ SB!Own /\ Nested
  BY DEF ContInv
<1>2. (A!clocks_applied => "A" \in Open) /\ (B!clocks_applied => "B" \in Open)
  BY DEF Open
<1> QED
  BY <1>1, <1>2, AppliedSeenA, AppliedSeenB DEF Nested, NestedApplies

-------------------------------------------------------------------------------
(* What a controller has read, crossed or not. *)

\* A's part, shown below (GoesByA): without a session it has read nothing; a step of its
\* own keeps what it may go by, and one that may go by it is not refused; a step of the
\* other one keeps it, too, unless A is overtaken.
ReadsA ==
  /\ "A" \notin Open' => SA!SnapshotsWhole'
  /\ SA!Own /\ ActA =>
       /\ SA!SnapshotsWhole => SA!SnapshotsWhole'
       /\ frameA'.pc \in RailPc => frameA'.op = frameA.op
       /\ SA!MidRail /\ (SA!Setting \/ SA!SnapshotsWhole) =>
            SA!MidRail' /\ (A!Running /\ frameA.ok => frameA'.ok)
  /\ SA!Own /\ UNCHANGED <<implA, frameA>> =>
       /\ SA!SnapshotsWhole /\ ~Overtaken("A", HalfSaved("A")) => SA!SnapshotsWhole'
       /\ SA!MidRail /\ (frameA.pc \in RailPc => ~Overtaken("A", Ordered("A"))) => SA!MidRail'

\* A's part of Calm.
CalmA ==
  /\ "A" \notin torn => SA!SnapshotsWhole
  /\ "A" \notin stale /\ (SA!Setting \/ "A" \notin torn) => SA!MidRail

LEMMA WatchedA ==
  ASSUME Watch
  PROVE  /\ "A" \in Open' /\ "A" \notin torn' =>
              "A" \notin torn /\ ~Overtaken("A", HalfSaved("A"))
         /\ frameA'.pc \in RailPc /\ "A" \notin stale' =>
              "A" \notin stale /\ ~Overtaken("A", Ordered("A"))
BY DEF Watch, Ordered

LEMMA MidRailOpenA == frameA'.pc \in RailPc => "A" \in Open'
BY DEF Open, A!Running, RailPc

\* It stays so in a step of its own ...
LEMMA CalmOwnStepA ==
  ASSUME ReadsA, SA!Own, ActA, Watch, CalmA
  PROVE  CalmA'
<1>1. ASSUME "A" \notin torn' PROVE SA!SnapshotsWhole'
  BY <1>1, WatchedA DEF ReadsA, CalmA
<1>2. ASSUME "A" \notin stale', SA!Setting' \/ "A" \notin torn' PROVE SA!MidRail'
  <2>1. CASE frameA'.pc \notin RailPc
    BY <2>1 DEF SA!MidRail, RailPc
  <2>2. CASE frameA'.pc \in RailPc
    <3>1. "A" \notin stale /\ (SA!Setting \/ "A" \notin torn)
      BY <1>2, <2>2, WatchedA, MidRailOpenA DEF ReadsA, SA!Setting
    <3> QED
      BY <3>1 DEF ReadsA, CalmA
  <2> QED
    BY <2>1, <2>2
<1> QED
  BY <1>1, <1>2 DEF CalmA

\* ... in a step of the other one ...
LEMMA CalmOthersA ==
  ASSUME ReadsA, SA!Own, UNCHANGED <<implA, frameA>>, Watch, CalmA
  PROVE  CalmA'
<1>1. ASSUME "A" \notin torn' PROVE SA!SnapshotsWhole'
  BY <1>1, WatchedA DEF ReadsA, CalmA
<1>2. ASSUME "A" \notin stale', SA!Setting' \/ "A" \notin torn' PROVE SA!MidRail'
  <2>1. CASE frameA'.pc \notin RailPc
    BY <2>1 DEF SA!MidRail, RailPc
  <2>2. CASE frameA'.pc \in RailPc
    <3>1. /\ "A" \notin stale /\ ~Overtaken("A", Ordered("A"))
          /\ SA!Setting \/ "A" \notin torn
      BY <1>2, <2>2, WatchedA, MidRailOpenA DEF SA!Setting
    <3> QED
      BY <3>1 DEF ReadsA, CalmA
  <2> QED
    BY <2>1, <2>2
<1> QED
  BY <1>1, <1>2 DEF CalmA

\* ... and in a step of nobody.
LEMMA CalmStuttersA ==
  ASSUME ReadsA, SA!Own, CalmA, UNCHANGED <<sysfs, implA, frameA, stale, torn>>
  PROVE  CalmA'
<1>1. (SA!Setting' <=> SA!Setting) /\ \A nodes : ~Overtaken("A", nodes)
  BY DEF SA!Setting, Overtaken
<1> QED
  BY <1>1 DEF ReadsA, CalmA

\* B's part, shown below (GoesByB): without a session it has read nothing; a step of its
\* own keeps what it may go by, and one that may go by it is not refused; a step of the
\* other one keeps it, too, unless B is overtaken.
ReadsB ==
  /\ "B" \notin Open' => SB!SnapshotsWhole'
  /\ SB!Own /\ ActB =>
       /\ SB!SnapshotsWhole => SB!SnapshotsWhole'
       /\ frameB'.pc \in RailPc => frameB'.op = frameB.op
       /\ SB!MidRail /\ (SB!Setting \/ SB!SnapshotsWhole) =>
            SB!MidRail' /\ (B!Running /\ frameB.ok => frameB'.ok)
  /\ SB!Own /\ UNCHANGED <<implB, frameB>> =>
       /\ SB!SnapshotsWhole /\ ~Overtaken("B", HalfSaved("B")) => SB!SnapshotsWhole'
       /\ SB!MidRail /\ (frameB.pc \in RailPc => ~Overtaken("B", Ordered("B"))) => SB!MidRail'

\* B's part of Calm.
CalmB ==
  /\ "B" \notin torn => SB!SnapshotsWhole
  /\ "B" \notin stale /\ (SB!Setting \/ "B" \notin torn) => SB!MidRail

LEMMA WatchedB ==
  ASSUME Watch
  PROVE  /\ "B" \in Open' /\ "B" \notin torn' =>
              "B" \notin torn /\ ~Overtaken("B", HalfSaved("B"))
         /\ frameB'.pc \in RailPc /\ "B" \notin stale' =>
              "B" \notin stale /\ ~Overtaken("B", Ordered("B"))
BY DEF Watch, Ordered

LEMMA MidRailOpenB == frameB'.pc \in RailPc => "B" \in Open'
BY DEF Open, B!Running, RailPc

\* It stays so in a step of its own ...
LEMMA CalmOwnStepB ==
  ASSUME ReadsB, SB!Own, ActB, Watch, CalmB
  PROVE  CalmB'
<1>1. ASSUME "B" \notin torn' PROVE SB!SnapshotsWhole'
  BY <1>1, WatchedB DEF ReadsB, CalmB
<1>2. ASSUME "B" \notin stale', SB!Setting' \/ "B" \notin torn' PROVE SB!MidRail'
  <2>1. CASE frameB'.pc \notin RailPc
    BY <2>1 DEF SB!MidRail, RailPc
  <2>2. CASE frameB'.pc \in RailPc
    <3>1. "B" \notin stale /\ (SB!Setting \/ "B" \notin torn)
      BY <1>2, <2>2, WatchedB, MidRailOpenB DEF ReadsB, SB!Setting
    <3> QED
      BY <3>1 DEF ReadsB, CalmB
  <2> QED
    BY <2>1, <2>2
<1> QED
  BY <1>1, <1>2 DEF CalmB

\* ... in a step of the other one ...
LEMMA CalmOthersB ==
  ASSUME ReadsB, SB!Own, UNCHANGED <<implB, frameB>>, Watch, CalmB
  PROVE  CalmB'
<1>1. ASSUME "B" \notin torn' PROVE SB!SnapshotsWhole'
  BY <1>1, WatchedB DEF ReadsB, CalmB
<1>2. ASSUME "B" \notin stale', SB!Setting' \/ "B" \notin torn' PROVE SB!MidRail'
  <2>1. CASE frameB'.pc \notin RailPc
    BY <2>1 DEF SB!MidRail, RailPc
  <2>2. CASE frameB'.pc \in RailPc
    <3>1. /\ "B" \notin stale /\ ~Overtaken("B", Ordered("B"))
          /\ SB!Setting \/ "B" \notin torn
      BY <1>2, <2>2, WatchedB, MidRailOpenB DEF SB!Setting
    <3> QED
      BY <3>1 DEF ReadsB, CalmB
  <2> QED
    BY <2>1, <2>2
<1> QED
  BY <1>1, <1>2 DEF CalmB

\* ... and in a step of nobody.
LEMMA CalmStuttersB ==
  ASSUME ReadsB, SB!Own, CalmB, UNCHANGED <<sysfs, implB, frameB, stale, torn>>
  PROVE  CalmB'
<1>1. (SB!Setting' <=> SB!Setting) /\ \A nodes : ~Overtaken("B", nodes)
  BY DEF SB!Setting, Overtaken
<1> QED
  BY <1>1 DEF ReadsB, CalmB

LEMMA CalmAre == (Calm <=> CalmA /\ CalmB) /\ (Calm' <=> CalmA' /\ CalmB')
BY DEF Calm, CalmA, CalmB

LEMMA CalmBegins == CInit => Calm
BY DEF CInit, Calm, A!Init, B!Init, A!NewImpl, B!NewImpl, A!Enter, B!Enter,
       SA!SnapshotsWhole, SB!SnapshotsWhole, SA!Running, SB!Running, SA!MidRail, SB!MidRail

LEMMA CalmStays ==
  ASSUME ReadsA, ReadsB, ContInv, Calm, [CNext]_cvars
  PROVE  Calm'
<1>1. SA!Own /\ SB!Own /\ CalmA /\ CalmB
  BY CalmAre DEF ContInv
<1>2. CASE ActA /\ Watch
  <2>1. UNCHANGED <<implB, frameB>>
    BY <1>2 DEF ActA
  <2> QED
    BY <1>1, <1>2, <2>1, CalmOwnStepA, CalmOthersB, CalmAre
<1>3. CASE ActB /\ Watch
  <2>1. UNCHANGED <<implA, frameA>>
    BY <1>3 DEF ActB
  <2> QED
    BY <1>1, <1>3, <2>1, CalmOwnStepB, CalmOthersA, CalmAre
<1>4. CASE UNCHANGED cvars
  <2>1. UNCHANGED <<sysfs, implA, frameA, implB, frameB, stale, torn>>
    BY <1>4 DEF cvars, controllers
  <2> QED
    BY <1>1, <2>1, CalmStuttersA, CalmStuttersB, CalmAre
<1> QED
  BY <1>2, <1>3, <1>4 DEF CNext

\* Whoever is refused has been overtaken.
LEMMA Explained ==
  ASSUME ReadsA, ReadsB, ContInv, Calm, CNext
  PROVE  /\ A!Running /\ frameA.ok /\ ~frameA'.ok =>
              "A" \in stale \/ (~A!Setting /\ "A" \in torn)
         /\ B!Running /\ frameB.ok /\ ~frameB'.ok =>
              "B" \in stale \/ (~B!Setting /\ "B" \in torn)
<1>1. SA!Own /\ SB!Own /\ CalmA /\ CalmB
  BY CalmAre DEF ContInv
<1>2. CASE ActA
  <2>1. frameB' = frameB
    BY <1>2 DEF ActA
  <2> QED
    BY <1>1, <1>2, <2>1 DEF ReadsA, CalmA, A!Setting, SA!Setting
<1>3. CASE ActB
  <2>1. frameA' = frameA
    BY <1>3 DEF ActB
  <2> QED
    BY <1>1, <1>3, <2>1 DEF ReadsB, CalmB, B!Setting, SB!Setting
<1> QED
  BY <1>2, <1>3 DEF CNext

-------------------------------------------------------------------------------
(* Each controller on its own view.  The theorems on a controller are      *)
(* about definitions of their own, which are those of this module: the     *)
(* first lemmas expand both.                                               *)

PA == INSTANCE FreqControllerViews_proofs
  WITH impl <- implA, frame <- frameA, baseline <- BaseA, view <- ViewA

LEMMA SameOwnA == (SA!Own <=> PA!Own) /\ (SA!Own' <=> PA!Own')
BY DEF
   SA!Own, PA!Own, SA!TypeOK, PA!TypeOK, SA!NeverAborts, PA!NeverAborts, SA!Shape,
   PA!Shape, SA!DeadEmpty, PA!DeadEmpty, SA!SelectionOK, PA!SelectionOK, SA!SelectionApart,
   PA!SelectionApart, SA!Good, PA!Good, SA!SideWanted, PA!SideWanted, SA!SessionOK,
   PA!SessionOK, SA!ImplType, PA!ImplType, SA!FrameType, PA!FrameType, SA!SavePc,
   PA!SavePc, SA!WritePc, PA!WritePc, SA!GetDeviceConfigAborts, PA!GetDeviceConfigAborts,
   SA!RailPc, PA!RailPc, SA!More, PA!More, SA!Rails, PA!Rails, SA!NewImpl, PA!NewImpl,
   SA!AllTargets, PA!AllTargets, SA!TunablePaths, PA!TunablePaths, SA!NoOverlap,
   PA!NoOverlap, SA!RailsOrdered, PA!RailsOrdered, SA!RailNodes, PA!RailNodes, SA!WantMax,
   PA!WantMax, SA!Rail, PA!Rail, SA!PathPresent, PA!PathPresent, SA!WantMin, PA!WantMin,
   SA!InSession, PA!InSession, SA!HasSelection, PA!HasSelection, SA!Running, PA!Running,
   SA!Setting, PA!Setting, SA!clocks_applied, PA!clocks_applied, SA!SavedWithin,
   PA!SavedWithin, SA!RailTarget, PA!RailTarget, SA!Tunable, PA!Tunable, SA!SavedRail,
   PA!SavedRail, SA!SavedTunable, PA!SavedTunable, SA!FindEntry, PA!FindEntry, SA!Restore,
   PA!Restore, SA!Profiles, PA!Profiles, SA!TargetPaths, PA!TargetPaths, SA!KernelNodes,
   PA!KernelNodes, SA!RailsOf, PA!RailsOf, SA!TunablesOf, PA!TunablesOf, SA!SelectInSeq,
   PA!SelectInSeq, SA!Min, PA!Min

LEMMA SameInvA == (VA!Inv <=> PA!V!Inv) /\ (VA!Inv' <=> PA!V!Inv')
<1>1. /\ (VA!TypeOK <=> PA!V!TypeOK) /\ (VA!TypeOK' <=> PA!V!TypeOK')
      /\ (VA!NeverAborts <=> PA!V!NeverAborts) /\ (VA!NeverAborts' <=> PA!V!NeverAborts')
      /\ (VA!Shape <=> PA!V!Shape) /\ (VA!Shape' <=> PA!V!Shape')
  BY DEF
     VA!TypeOK, PA!V!TypeOK, VA!NeverAborts, PA!V!NeverAborts, VA!Shape, PA!V!Shape,
     VA!ImplType, PA!V!ImplType, VA!FrameType, PA!V!FrameType, VA!SavePc, PA!V!SavePc,
     VA!WritePc, PA!V!WritePc, VA!GetDeviceConfigAborts, PA!V!GetDeviceConfigAborts,
     VA!RailPc, PA!V!RailPc, VA!More, PA!V!More, VA!Rails, PA!V!Rails, VA!RailTarget,
     PA!V!RailTarget, VA!Tunable, PA!V!Tunable, VA!SavedRail, PA!V!SavedRail,
     VA!SavedTunable, PA!V!SavedTunable, VA!FindEntry, PA!V!FindEntry, VA!Setting,
     PA!V!Setting, VA!Restore, PA!V!Restore, VA!SelectInSeq, PA!V!SelectInSeq, VA!Min,
     PA!V!Min
<1>2. /\ (VA!DeadEmpty <=> PA!V!DeadEmpty) /\ (VA!DeadEmpty' <=> PA!V!DeadEmpty')
      /\ (VA!SelectionOK <=> PA!V!SelectionOK) /\ (VA!SelectionOK' <=> PA!V!SelectionOK')
      /\ (VA!Saving <=> PA!V!Saving) /\ (VA!Saving' <=> PA!V!Saving')
  BY DEF
     VA!DeadEmpty, PA!V!DeadEmpty, VA!SelectionOK, PA!V!SelectionOK, VA!Saving,
     PA!V!Saving, VA!NewImpl, PA!V!NewImpl, VA!AllTargets, PA!V!AllTargets,
     VA!TunablePaths, PA!V!TunablePaths, VA!SavePc, PA!V!SavePc, VA!HalfSnapshot,
     PA!V!HalfSnapshot, VA!Snapshot, PA!V!Snapshot, VA!SavedTunableOK, PA!V!SavedTunableOK,
     VA!PathPresent, PA!V!PathPresent, VA!Profiles, PA!V!Profiles, VA!WantMin,
     PA!V!WantMin, VA!WantMax, PA!V!WantMax
<1>3. /\ (VA!OwnerOK <=> PA!V!OwnerOK) /\ (VA!OwnerOK' <=> PA!V!OwnerOK')
      /\ (VA!WritesSaved <=> PA!V!WritesSaved) /\ (VA!WritesSaved' <=> PA!V!WritesSaved')
  BY DEF
     VA!OwnerOK, PA!V!OwnerOK, VA!WritesSaved, PA!V!WritesSaved, VA!Owner, PA!V!Owner,
     VA!AllTargets, PA!V!AllTargets, VA!Snapshot, PA!V!Snapshot, VA!SavedTunableOK,
     PA!V!SavedTunableOK, VA!WritePc, PA!V!WritePc, VA!Rails, PA!V!Rails, VA!WantMin,
     PA!V!WantMin, VA!SavedPath, PA!V!SavedPath, VA!WantMax, PA!V!WantMax, VA!Tunables,
     PA!V!Tunables, VA!PathPresent, PA!V!PathPresent, VA!Setting, PA!V!Setting,
     VA!Profiles, PA!V!Profiles, VA!TunablePaths, PA!V!TunablePaths, VA!Restore,
     PA!V!Restore
<1>4. /\ (VA!Covered <=> PA!V!Covered) /\ (VA!Covered' <=> PA!V!Covered')
      /\ (VA!MidRail <=> PA!V!MidRail) /\ (VA!MidRail' <=> PA!V!MidRail')
      /\ (VA!Restoring <=> PA!V!Restoring) /\ (VA!Restoring' <=> PA!V!Restoring')
  BY DEF
     VA!Covered, PA!V!Covered, VA!MidRail, PA!V!MidRail, VA!Restoring, PA!V!Restoring,
     VA!SavedPath, PA!V!SavedPath, VA!MinGoesFirst, PA!V!MinGoesFirst, VA!Rail, PA!V!Rail,
     VA!WantMin, PA!V!WantMin, VA!WantMax, PA!V!WantMax, VA!ReadMayFail, PA!V!ReadMayFail,
     VA!WritePc, PA!V!WritePc, VA!Setting, PA!V!Setting, VA!RailBack, PA!V!RailBack,
     VA!Back, PA!V!Back, VA!Owner, PA!V!Owner, VA!PathPresent, PA!V!PathPresent, VA!Rails,
     PA!V!Rails, VA!Healthy, PA!V!Healthy, VA!Restore, PA!V!Restore
<1>5. \A n : VA!Good(n) <=> PA!V!Good(n)
  BY DEF
     VA!Good, PA!V!Good, VA!RailsOrdered, PA!V!RailsOrdered, VA!RailNodes, PA!V!RailNodes,
     VA!TargetPaths, PA!V!TargetPaths, VA!KernelNodes, PA!V!KernelNodes, VA!Profiles,
     PA!V!Profiles
<1> QED
  BY <1>1, <1>2, <1>3, <1>4, <1>5 DEF VA!Inv, PA!V!Inv

LEMMA SameAppliedA ==
  (VA!AppliedInv <=> PA!V!AppliedInv) /\ (VA!AppliedInv' <=> PA!V!AppliedInv')
BY DEF
   VA!AppliedInv, PA!V!AppliedInv, VA!SelectionApart, PA!V!SelectionApart, VA!Applying,
   PA!V!Applying, VA!Applied, PA!V!Applied, VA!NoOverlap, PA!V!NoOverlap, VA!WritePc,
   PA!V!WritePc, VA!Setting, PA!V!Setting, VA!TargetHolds, PA!V!TargetHolds,
   VA!TunableHolds, PA!V!TunableHolds, VA!Idle, PA!V!Idle, VA!WantMin, PA!V!WantMin,
   VA!WantMax, PA!V!WantMax, VA!PathPresent, PA!V!PathPresent

LEMMA SameStepA == ActA => PA!SessionStep
<1>1. A!Save <=> PA!Save
  BY DEF
     A!Save, PA!Save, A!SaveMin, PA!SaveMin, A!SaveMax, PA!SaveMax, A!SaveRailsEnd,
     PA!SaveRailsEnd, A!SaveTunable, PA!SaveTunable, A!SaveTunablesEnd, PA!SaveTunablesEnd,
     A!SaveFails, PA!SaveFails, A!More, PA!More, A!SelectedTarget, PA!SelectedTarget,
     A!WantMin, PA!WantMin, A!Local, PA!Local, A!WantMax, PA!WantMax, A!SelectedTunable,
     PA!SelectedTunable, A!PathPresent, PA!PathPresent, A!ReadMayFail, PA!ReadMayFail,
     A!Returned, PA!Returned, A!Enter, PA!Enter
<1>2. A!Write <=> PA!Write
  BY DEF
     A!Write, PA!Write, A!ApplyRail, PA!ApplyRail, A!WriteMinFirst, PA!WriteMinFirst,
     A!WriteMaxLast, PA!WriteMaxLast, A!WriteMaxFirst, PA!WriteMaxFirst, A!WriteMinLast,
     PA!WriteMinLast, A!RailsEnd, PA!RailsEnd, A!WriteTunable, PA!WriteTunable,
     A!SkipTunable, PA!SkipTunable, A!SetReturns, PA!SetReturns, A!UnsetReturns,
     PA!UnsetReturns, A!Destroyed, PA!Destroyed, A!More, PA!More, A!Rails, PA!Rails,
     A!WantMin, PA!WantMin, A!Rail, PA!Rail, A!WantMax, PA!WantMax, A!NextRail,
     PA!NextRail, A!MinGoesFirst, PA!MinGoesFirst, A!ReadMayFail, PA!ReadMayFail, A!Local,
     PA!Local, A!WriteNode, PA!WriteNode, A!Tunables, PA!Tunables, A!PathPresent,
     PA!PathPresent, A!WritesEnd, PA!WritesEnd, A!Setting, PA!Setting, A!Commit, PA!Commit,
     A!Returned, PA!Returned, A!NewImpl, PA!NewImpl, A!Dead, PA!Dead, A!Restore,
     PA!Restore, A!WriteSucceeds, PA!WriteSucceeds, A!WriteFails, PA!WriteFails, A!Enter,
     PA!Enter, A!Accepts, PA!Accepts
<1>3. /\ \A mode : A!SetFrequencyMode(mode) <=> PA!SetFrequencyMode(mode)
      /\ \A id : A!SetFrequencyCustomId(id) <=> PA!SetFrequencyCustomId(id)
      /\ A!SetClocks <=> PA!SetClocks
      /\ A!UnsetClocks <=> PA!UnsetClocks
      /\ A!Destroy <=> PA!Destroy
      /\ A!Construct <=> PA!Construct
  BY DEF
     A!SetFrequencyMode, PA!SetFrequencyMode, A!SetFrequencyCustomId,
     PA!SetFrequencyCustomId, A!SetClocks, PA!SetClocks, A!UnsetClocks, PA!UnsetClocks,
     A!Destroy, PA!Destroy, A!Construct, PA!Construct, A!Select, PA!Select,
     A!GetDeviceConfig, PA!GetDeviceConfig, A!FindMode, PA!FindMode, A!FindCustom,
     PA!FindCustom, A!Idle, PA!Idle, A!HasSelection, PA!HasSelection, A!Enter, PA!Enter,
     A!Returned, PA!Returned, A!clocks_applied, PA!clocks_applied, A!Local, PA!Local,
     A!Dead, PA!Dead, A!NewImpl, PA!NewImpl, A!FindEntry, PA!FindEntry, A!SelectInSeq,
     PA!SelectInSeq, A!Min, PA!Min
<1> QED
  BY <1>1, <1>2, <1>3
  DEF ActA, PA!SessionStep, A!Step, PA!Step, A!HasSelection, PA!HasSelection,
      A!clocks_applied, PA!clocks_applied

LEMMA AssumptionsA ==
  /\ PA!NoPathAssumption /\ PA!KernelRailAssumption /\ PA!FaultyAssumption
  /\ PA!InitSysfsAssumption /\ PA!RegistryAssumption /\ PA!CustomIdAssumption
  /\ PA!TablesWellFormed /\ PA!NoRailAtZero
<1>1. PA!InitSysfsAssumption
  BY InitSysfsAssumption DEF RailsOrdered, PA!RailsOrdered
<1>2. PA!RegistryAssumption
  BY RegistryAssumption
  DEF DeviceRegistryEntry, Config, ModeProfile, CustomProfile, CpuClusterMap, RailTarget,
      Tunable, PA!DeviceRegistryEntry, PA!Config, PA!ModeProfile, PA!CustomProfile,
      PA!CpuClusterMap, PA!RailTarget, PA!Tunable
<1>3. PA!TablesWellFormed
  BY TablesWellFormed
  DEF Profiles, TargetPaths, TunablePaths, KernelNodes, WellFormedTarget, NoOverlap,
      PA!Profiles, PA!TargetPaths, PA!TunablePaths, PA!KernelNodes, PA!WellFormedTarget,
      PA!NoOverlap
<1>4. PA!NoRailAtZero
  BY NoRailAtZero
  DEF Profiles, TargetPaths, KernelNodes, PA!Profiles, PA!TargetPaths, PA!KernelNodes
<1> QED
  BY <1>1, <1>2, <1>3, <1>4, NoPathAssumption, KernelRailAssumption, FaultyAssumption,
     CustomIdAssumption

LEMMA SameGoodA ==
  /\ \A nodes : (PA!Good(nodes) <=> SA!Good(nodes)) /\ (PA!V!Good(nodes) <=> SA!Good(nodes))
  /\ SA!Good(sysfs)' <=> PA!Good(sysfs)'
  /\ SA!Good(ViewA') => PA!V!Good(ViewA)'
BY DEF
   SA!Good, PA!Good, PA!V!Good, SA!RailsOrdered, PA!RailsOrdered, PA!V!RailsOrdered,
   SA!RailNodes, PA!RailNodes, PA!V!RailNodes, SA!TargetPaths, PA!TargetPaths,
   PA!V!TargetPaths, SA!KernelNodes, PA!KernelNodes, PA!V!KernelNodes, SA!Profiles,
   PA!Profiles, PA!V!Profiles

LEMMA SameNodesA == PA!OwnNodes = Nodes(implA) /\ PA!OwnNodes' = Nodes(implA)'
BY DEF PA!OwnNodes, PA!RailsOf, PA!TunablesOf, Nodes, ToSet

LEMMA SessionIsA ==
  /\ ("A" \in Open <=> PA!InSession) /\ ("A" \in Open' <=> PA!InSession')
  /\ ("A" \in Working <=> PA!Running) /\ ("A" \in Working' <=> PA!Running')
BY DEF Open, Working, A!clocks_applied, A!Running, PA!InSession, PA!clocks_applied, PA!Running

LEMMA PathsA == SA!Own => Nodes(implA) \subseteq Path
BY SameOwnA, SameNodesA, AssumptionsA, PA!OwnRails, PA!OwnTunables DEF PA!OwnNodes

\* A new controller.
LEMMA NewA ==
  ASSUME A!Init, BaseA = sysfs
  PROVE  SA!Own /\ "A" \notin Open
<1>1. PA!Init
  BY DEF A!Init, A!DeviceInit, A!SysfsInit, A!NewImpl, A!Enter,
         PA!Init, PA!DeviceInit, PA!SysfsInit, PA!NewImpl, PA!Enter
<1> QED
  BY <1>1, SameOwnA, SessionIsA, AssumptionsA, PA!OwnInit

\* What it keeps in a step of its own, and in a step of the other one.
LEMMA OwnStepA ==
  ASSUME SA!Own, ActA, BaseA' \in [Path -> Nat]
  PROVE  /\ SA!Own' /\ sysfs' \in [Path -> Nat] /\ SA!Good(sysfs)'
         /\ \A p \in Path \ Nodes(implA) : sysfs'[p] = sysfs[p]
         /\ UNCHANGED g_active_device
<1>1. PA!Own' /\ PA!Elsewhere /\ UNCHANGED g_active_device
  BY SameOwnA, SameStepA, AssumptionsA, PA!OwnStep, PA!DeviceStays
<1> QED
  BY <1>1, SameOwnA, SameNodesA, SameGoodA DEF PA!Elsewhere, PA!Own, PA!TypeOK

LEMMA OthersA ==
  ASSUME SA!Own, UNCHANGED <<g_active_device, implA, frameA>>, sysfs' \in [Path -> Nat],
         SA!Good(sysfs)', BaseA' \in [Path -> Nat]
  PROVE  SA!Own'
BY SameOwnA, SameGoodA, AssumptionsA, PA!OwnOthers

LEMMA WaitsA ==
  ASSUME VA!Inv, VA!AppliedInv,
         UNCHANGED <<g_active_device, implA, frameA>>, ViewA' = ViewA, BaseA' = BaseA
  PROVE  VA!Inv' /\ VA!AppliedInv'
BY SameInvA, SameAppliedA, AssumptionsA, PA!SessionWaits

\* A session's nodes stay the same, and its first step in it is the call.
LEMMA WorksA ==
  ASSUME SA!Own, SA!Own', ActA, "A" \in Open
  PROVE  /\ "A" \in Working \/ ("A" \in Open' /\ "A" \in Working')
         /\ "A" \in Open' => Nodes(implA)' = Nodes(implA)
<1>1. PA!Own /\ PA!SessionStep /\ PA!InSession /\ PA!DeadEmpty'
  BY SameOwnA, SameStepA, SessionIsA DEF PA!Own
<1>2. PA!Running \/ PA!Running'
  BY <1>1, AssumptionsA, PA!InSessionSteps
<1>3. PA!InSession' => PA!OwnNodes' = PA!OwnNodes
  BY <1>1, AssumptionsA, PA!NodesStay
<1> QED
  BY <1>2, <1>3, SessionIsA, SameNodesA DEF PA!InSession

\* As long as sessions do not cross, the controller might as well be alone.
LEMMA SeesA ==
  ASSUME SA!Own, VA!Inv, AloneA
  PROVE  PA!Sees
<1>1. ViewA \in [Path -> Nat]
  BY SameInvA DEF PA!V!Inv, PA!V!TypeOK
<1>2. Nodes(implA) \subseteq Path
  BY PathsA
<1>3. \A p \in Nodes(implA) : ViewA[p] = sysfs[p]
  BY <1>2, ViewsAre DEF HiddenA, AloneA
<1> QED
  BY <1>1, <1>3, SameNodesA DEF PA!Sees

LEMMA SessionA ==
  ASSUME SA!Own, SA!Own', ActA, MovesA, "A" \in Open => VA!Inv /\ VA!AppliedInv
  PROVE  LeavesA /\ ("A" \in Open' => VA!Inv' /\ VA!AppliedInv')
<1>1. PA!Own /\ PA!Own' /\ PA!SessionStep /\ PA!DeadEmpty'
  BY SameOwnA, SameStepA DEF PA!Own
<1>2. ASSUME "A" \in Open PROVE PA!InSession /\ PA!Sees /\ PA!V!Inv /\ PA!V!AppliedInv
  BY <1>2, SessionIsA, SeesA, SameInvA, SameAppliedA DEF MovesA
<1>3. CASE "A" \in Open /\ "A" \in Open'
  <2>1. /\ BaseA' = BaseA /\ LeavesA
        /\ ViewA' = [p \in Path |-> IF p \in Nodes(implA) THEN sysfs'[p] ELSE ViewA[p]]
    BY <1>3, WorksA, GoesOnSeenA
  <2>2. PA!Follows
    BY <2>1, SameNodesA DEF PA!Follows
  <2>3. PA!V!Inv' /\ PA!V!AppliedInv'
    BY <1>1, <1>2, <1>3, <2>1, <2>2, SessionIsA, AssumptionsA, PA!SessionGoesOn
  <2> QED
    BY <2>1, <2>3, SameInvA, SameAppliedA
<1>4. CASE "A" \notin Open /\ "A" \in Open'
  <2>1. ~PA!InSession /\ PA!InSession'
    BY <1>4, SessionIsA
  <2>2. UNCHANGED <<sysfs, implA>>
    BY <1>1, <2>1, AssumptionsA, PA!Opens
  <2>3. /\ ViewA' = [p \in Path |-> IF p \in Nodes(implA) THEN sysfs[p] ELSE start'[p]]
        /\ BaseA' = ViewA' /\ LeavesA
    BY <1>4, <2>2, OpensSeenA
  <2>4. PA!Good(ViewA')
    <3>1. /\ sysfs \in [Path -> Nat] /\ start' \in [Path -> Nat]
          /\ PA!Good(sysfs) /\ PA!Good(start')
      BY MovesFactsA, SameGoodA DEF MovesA
    <3>2. PA!Good([p \in Path |-> IF p \in PA!OwnNodes THEN sysfs[p] ELSE start'[p]])
      BY <1>1, <3>1, AssumptionsA, PA!GoodMix
    <3> QED
      BY <2>3, <3>2, SameNodesA
  <2>5. PA!V!Inv' /\ PA!V!AppliedInv'
    BY <1>1, <2>1, <2>3, <2>4, SameGoodA, AssumptionsA, PA!SessionBegins
  <2> QED
    BY <2>3, <2>5, SameInvA, SameAppliedA
<1>5. CASE "A" \in Open /\ "A" \notin Open'
  <2>1. UNCHANGED sysfs /\ ViewA = BaseA
    BY <1>1, <1>2, <1>5, SessionIsA, NoFailures, AssumptionsA, PA!SessionEnds
  <2> QED
    BY <1>5, <2>1, ClosesSeenA
<1>6. CASE "A" \notin Open /\ "A" \notin Open'
  <2>1. UNCHANGED sysfs
    BY <1>1, <1>6, SessionIsA, AssumptionsA, PA!OutOfSession
  <2> QED
    BY <1>6, <2>1, IdleSeenA
<1> QED
  BY <1>3, <1>4, <1>5, <1>6

LEMMA ControllerA == KeepsA
BY NewA, PathsA, OwnStepA, OthersA, WaitsA, WorksA, SessionA DEF KeepsA

LEMMA SameReadsA ==
  /\ (SA!SnapshotsWhole <=> PA!SnapshotsWhole) /\ (SA!SnapshotsWhole' <=> PA!SnapshotsWhole')
  /\ (SA!MidRail <=> PA!MidRail) /\ (SA!MidRail' <=> PA!MidRail')
  /\ (SA!Setting <=> PA!Setting) /\ (SA!Setting' <=> PA!Setting')
<1>1. (SA!SnapshotsWhole <=> PA!SnapshotsWhole) /\ (SA!SnapshotsWhole' <=> PA!SnapshotsWhole')
  BY DEF
     SA!SnapshotsWhole, PA!SnapshotsWhole, SA!WF, PA!WF, SA!Restore, PA!Restore, SA!Running,
     PA!Running, SA!HalfSnapshot, PA!HalfSnapshot, SA!WantMin, PA!WantMin, SA!PathPresent,
     PA!PathPresent, SA!RailTarget, PA!RailTarget, SA!WellFormedTarget, PA!WellFormedTarget,
     SA!RailNodes, PA!RailNodes, SA!TargetPaths, PA!TargetPaths, SA!KernelNodes,
     PA!KernelNodes, SA!Profiles, PA!Profiles
<1>2. (SA!MidRail <=> PA!MidRail) /\ (SA!MidRail' <=> PA!MidRail')
  BY DEF
     SA!MidRail, PA!MidRail, SA!MinGoesFirst, PA!MinGoesFirst, SA!Rail, PA!Rail, SA!Rails,
     PA!Rails, SA!Setting, PA!Setting, SA!Restore, PA!Restore, SA!WantMin, PA!WantMin,
     SA!WantMax, PA!WantMax, SA!PathPresent, PA!PathPresent, SA!ReadMayFail, PA!ReadMayFail
<1>3. (SA!Setting <=> PA!Setting) /\ (SA!Setting' <=> PA!Setting')
  BY DEF SA!Setting, PA!Setting
<1> QED
  BY <1>1, <1>2, <1>3

LEMMA GoesByA == ReadsA
<1>1. ASSUME "A" \notin Open' PROVE SA!SnapshotsWhole'
  BY <1>1, SessionIsA, SameReadsA, AssumptionsA, PA!WholeClosed
<1>2. ASSUME SA!Own PROVE PA!Own
  BY <1>2, SameOwnA
<1>3. ASSUME SA!Own, ActA
      PROVE  /\ SA!SnapshotsWhole => SA!SnapshotsWhole'
             /\ frameA'.pc \in RailPc => frameA'.op = frameA.op
             /\ SA!MidRail /\ (SA!Setting \/ SA!SnapshotsWhole) =>
                  SA!MidRail' /\ (A!Running /\ frameA.ok => frameA'.ok)
  <2>1. PA!Own /\ PA!SessionStep /\ (A!Running => PA!Running)
    BY <1>2, <1>3, SameStepA DEF A!Running, PA!Running
  <2>2. frameA'.pc \in RailPc => frameA'.op = frameA.op
    BY <2>1, AssumptionsA, PA!RailSameCall DEF PA!RailPc, RailPc
  <2> QED
    BY <2>1, <2>2, SameReadsA, NoFailures, AssumptionsA, PA!WholeStep, PA!MidRailStep,
       PA!NoRefusal
<1>4. ASSUME SA!Own, UNCHANGED <<implA, frameA>>
      PROVE  /\ SA!SnapshotsWhole /\ ~Overtaken("A", HalfSaved("A")) => SA!SnapshotsWhole'
             /\ SA!MidRail /\ (frameA.pc \in RailPc => ~Overtaken("A", Ordered("A")))
                => SA!MidRail'
  <2>1. ~Overtaken("A", HalfSaved("A")) =>
          (frameA.pc = "save_max" =>
             \A p \in {PA!SelectedTarget.min_path} \cap Path : sysfs'[p] = sysfs[p])
    BY <1>4 DEF Overtaken, HalfSaved, A!SelectedTarget, PA!SelectedTarget
  <2>2. (frameA.pc \in RailPc => ~Overtaken("A", Ordered("A"))) =>
          (frameA.pc \in PA!RailPc =>
             \A p \in {PA!Rail.min_path, PA!Rail.max_path} \cap Path : sysfs'[p] = sysfs[p])
    BY <1>4 DEF Overtaken, Ordered, RailPc, PA!RailPc, A!Rail, PA!Rail, A!Rails, PA!Rails,
                A!Setting, PA!Setting, A!Restore, PA!Restore
  <2> QED
    BY <1>2, <1>4, <2>1, <2>2, SameReadsA, AssumptionsA, PA!WholeOthers, PA!MidRailOthers
<1> QED
  BY <1>1, <1>3, <1>4 DEF ReadsA

PB == INSTANCE FreqControllerViews_proofs
  WITH impl <- implB, frame <- frameB, baseline <- BaseB, view <- ViewB

LEMMA SameOwnB == (SB!Own <=> PB!Own) /\ (SB!Own' <=> PB!Own')
BY DEF
   SB!Own, PB!Own, SB!TypeOK, PB!TypeOK, SB!NeverAborts, PB!NeverAborts, SB!Shape,
   PB!Shape, SB!DeadEmpty, PB!DeadEmpty, SB!SelectionOK, PB!SelectionOK, SB!SelectionApart,
   PB!SelectionApart, SB!Good, PB!Good, SB!SideWanted, PB!SideWanted, SB!SessionOK,
   PB!SessionOK, SB!ImplType, PB!ImplType, SB!FrameType, PB!FrameType, SB!SavePc,
   PB!SavePc, SB!WritePc, PB!WritePc, SB!GetDeviceConfigAborts, PB!GetDeviceConfigAborts,
   SB!RailPc, PB!RailPc, SB!More, PB!More, SB!Rails, PB!Rails, SB!NewImpl, PB!NewImpl,
   SB!AllTargets, PB!AllTargets, SB!TunablePaths, PB!TunablePaths, SB!NoOverlap,
   PB!NoOverlap, SB!RailsOrdered, PB!RailsOrdered, SB!RailNodes, PB!RailNodes, SB!WantMax,
   PB!WantMax, SB!Rail, PB!Rail, SB!PathPresent, PB!PathPresent, SB!WantMin, PB!WantMin,
   SB!InSession, PB!InSession, SB!HasSelection, PB!HasSelection, SB!Running, PB!Running,
   SB!Setting, PB!Setting, SB!clocks_applied, PB!clocks_applied, SB!SavedWithin,
   PB!SavedWithin, SB!RailTarget, PB!RailTarget, SB!Tunable, PB!Tunable, SB!SavedRail,
   PB!SavedRail, SB!SavedTunable, PB!SavedTunable, SB!FindEntry, PB!FindEntry, SB!Restore,
   PB!Restore, SB!Profiles, PB!Profiles, SB!TargetPaths, PB!TargetPaths, SB!KernelNodes,
   PB!KernelNodes, SB!RailsOf, PB!RailsOf, SB!TunablesOf, PB!TunablesOf, SB!SelectInSeq,
   PB!SelectInSeq, SB!Min, PB!Min

LEMMA SameInvB == (VB!Inv <=> PB!V!Inv) /\ (VB!Inv' <=> PB!V!Inv')
<1>1. /\ (VB!TypeOK <=> PB!V!TypeOK) /\ (VB!TypeOK' <=> PB!V!TypeOK')
      /\ (VB!NeverAborts <=> PB!V!NeverAborts) /\ (VB!NeverAborts' <=> PB!V!NeverAborts')
      /\ (VB!Shape <=> PB!V!Shape) /\ (VB!Shape' <=> PB!V!Shape')
  BY DEF
     VB!TypeOK, PB!V!TypeOK, VB!NeverAborts, PB!V!NeverAborts, VB!Shape, PB!V!Shape,
     VB!ImplType, PB!V!ImplType, VB!FrameType, PB!V!FrameType, VB!SavePc, PB!V!SavePc,
     VB!WritePc, PB!V!WritePc, VB!GetDeviceConfigAborts, PB!V!GetDeviceConfigAborts,
     VB!RailPc, PB!V!RailPc, VB!More, PB!V!More, VB!Rails, PB!V!Rails, VB!RailTarget,
     PB!V!RailTarget, VB!Tunable, PB!V!Tunable, VB!SavedRail, PB!V!SavedRail,
     VB!SavedTunable, PB!V!SavedTunable, VB!FindEntry, PB!V!FindEntry, VB!Setting,
     PB!V!Setting, VB!Restore, PB!V!Restore, VB!SelectInSeq, PB!V!SelectInSeq, VB!Min,
     PB!V!Min
<1>2. /\ (VB!DeadEmpty <=> PB!V!DeadEmpty) /\ (VB!DeadEmpty' <=> PB!V!DeadEmpty')
      /\ (VB!SelectionOK <=> PB!V!SelectionOK) /\ (VB!SelectionOK' <=> PB!V!SelectionOK')
      /\ (VB!Saving <=> PB!V!Saving) /\ (VB!Saving' <=> PB!V!Saving')
  BY DEF
     VB!DeadEmpty, PB!V!DeadEmpty, VB!SelectionOK, PB!V!SelectionOK, VB!Saving,
     PB!V!Saving, VB!NewImpl, PB!V!NewImpl, VB!AllTargets, PB!V!AllTargets,
     VB!TunablePaths, PB!V!TunablePaths, VB!SavePc, PB!V!SavePc, VB!HalfSnapshot,
     PB!V!HalfSnapshot, VB!Snapshot, PB!V!Snapshot, VB!SavedTunableOK, PB!V!SavedTunableOK,
     VB!PathPresent, PB!V!PathPresent, VB!Profiles, PB!V!Profiles, VB!WantMin,
     PB!V!WantMin, VB!WantMax, PB!V!WantMax
<1>3. /\ (VB!OwnerOK <=> PB!V!OwnerOK) /\ (VB!OwnerOK' <=> PB!V!OwnerOK')
      /\ (VB!WritesSaved <=> PB!V!WritesSaved) /\ (VB!WritesSaved' <=> PB!V!WritesSaved')
  BY DEF
     VB!OwnerOK, PB!V!OwnerOK, VB!WritesSaved, PB!V!WritesSaved, VB!Owner, PB!V!Owner,
     VB!AllTargets, PB!V!AllTargets, VB!Snapshot, PB!V!Snapshot, VB!SavedTunableOK,
     PB!V!SavedTunableOK, VB!WritePc, PB!V!WritePc, VB!Rails, PB!V!Rails, VB!WantMin,
     PB!V!WantMin, VB!SavedPath, PB!V!SavedPath, VB!WantMax, PB!V!WantMax, VB!Tunables,
     PB!V!Tunables, VB!PathPresent, PB!V!PathPresent, VB!Setting, PB!V!Setting,
     VB!Profiles, PB!V!Profiles, VB!TunablePaths, PB!V!TunablePaths, VB!Restore,
     PB!V!Restore
<1>4. /\ (VB!Covered <=> PB!V!Covered) /\ (VB!Covered' <=> PB!V!Covered')
      /\ (VB!MidRail <=> PB!V!MidRail) /\ (VB!MidRail' <=> PB!V!MidRail')
      /\ (VB!Restoring <=> PB!V!Restoring) /\ (VB!Restoring' <=> PB!V!Restoring')
  BY DEF
     VB!Covered, PB!V!Covered, VB!MidRail, PB!V!MidRail, VB!Restoring, PB!V!Restoring,
     VB!SavedPath, PB!V!SavedPath, VB!MinGoesFirst, PB!V!MinGoesFirst, VB!Rail, PB!V!Rail,
     VB!WantMin, PB!V!WantMin, VB!WantMax, PB!V!WantMax, VB!ReadMayFail, PB!V!ReadMayFail,
     VB!WritePc, PB!V!WritePc, VB!Setting, PB!V!Setting, VB!RailBack, PB!V!RailBack,
     VB!Back, PB!V!Back, VB!Owner, PB!V!Owner, VB!PathPresent, PB!V!PathPresent, VB!Rails,
     PB!V!Rails, VB!Healthy, PB!V!Healthy, VB!Restore, PB!V!Restore
<1>5. \A n : VB!Good(n) <=> PB!V!Good(n)
  BY DEF
     VB!Good, PB!V!Good, VB!RailsOrdered, PB!V!RailsOrdered, VB!RailNodes, PB!V!RailNodes,
     VB!TargetPaths, PB!V!TargetPaths, VB!KernelNodes, PB!V!KernelNodes, VB!Profiles,
     PB!V!Profiles
<1> QED
  BY <1>1, <1>2, <1>3, <1>4, <1>5 DEF VB!Inv, PB!V!Inv

LEMMA SameAppliedB ==
  (VB!AppliedInv <=> PB!V!AppliedInv) /\ (VB!AppliedInv' <=> PB!V!AppliedInv')
BY DEF
   VB!AppliedInv, PB!V!AppliedInv, VB!SelectionApart, PB!V!SelectionApart, VB!Applying,
   PB!V!Applying, VB!Applied, PB!V!Applied, VB!NoOverlap, PB!V!NoOverlap, VB!WritePc,
   PB!V!WritePc, VB!Setting, PB!V!Setting, VB!TargetHolds, PB!V!TargetHolds,
   VB!TunableHolds, PB!V!TunableHolds, VB!Idle, PB!V!Idle, VB!WantMin, PB!V!WantMin,
   VB!WantMax, PB!V!WantMax, VB!PathPresent, PB!V!PathPresent

LEMMA SameStepB == ActB => PB!SessionStep
<1>1. B!Save <=> PB!Save
  BY DEF
     B!Save, PB!Save, B!SaveMin, PB!SaveMin, B!SaveMax, PB!SaveMax, B!SaveRailsEnd,
     PB!SaveRailsEnd, B!SaveTunable, PB!SaveTunable, B!SaveTunablesEnd, PB!SaveTunablesEnd,
     B!SaveFails, PB!SaveFails, B!More, PB!More, B!SelectedTarget, PB!SelectedTarget,
     B!WantMin, PB!WantMin, B!Local, PB!Local, B!WantMax, PB!WantMax, B!SelectedTunable,
     PB!SelectedTunable, B!PathPresent, PB!PathPresent, B!ReadMayFail, PB!ReadMayFail,
     B!Returned, PB!Returned, B!Enter, PB!Enter
<1>2. B!Write <=> PB!Write
  BY DEF
     B!Write, PB!Write, B!ApplyRail, PB!ApplyRail, B!WriteMinFirst, PB!WriteMinFirst,
     B!WriteMaxLast, PB!WriteMaxLast, B!WriteMaxFirst, PB!WriteMaxFirst, B!WriteMinLast,
     PB!WriteMinLast, B!RailsEnd, PB!RailsEnd, B!WriteTunable, PB!WriteTunable,
     B!SkipTunable, PB!SkipTunable, B!SetReturns, PB!SetReturns, B!UnsetReturns,
     PB!UnsetReturns, B!Destroyed, PB!Destroyed, B!More, PB!More, B!Rails, PB!Rails,
     B!WantMin, PB!WantMin, B!Rail, PB!Rail, B!WantMax, PB!WantMax, B!NextRail,
     PB!NextRail, B!MinGoesFirst, PB!MinGoesFirst, B!ReadMayFail, PB!ReadMayFail, B!Local,
     PB!Local, B!WriteNode, PB!WriteNode, B!Tunables, PB!Tunables, B!PathPresent,
     PB!PathPresent, B!WritesEnd, PB!WritesEnd, B!Setting, PB!Setting, B!Commit, PB!Commit,
     B!Returned, PB!Returned, B!NewImpl, PB!NewImpl, B!Dead, PB!Dead, B!Restore,
     PB!Restore, B!WriteSucceeds, PB!WriteSucceeds, B!WriteFails, PB!WriteFails, B!Enter,
     PB!Enter, B!Accepts, PB!Accepts
<1>3. /\ \A mode : B!SetFrequencyMode(mode) <=> PB!SetFrequencyMode(mode)
      /\ \A id : B!SetFrequencyCustomId(id) <=> PB!SetFrequencyCustomId(id)
      /\ B!SetClocks <=> PB!SetClocks
      /\ B!UnsetClocks <=> PB!UnsetClocks
      /\ B!Destroy <=> PB!Destroy
      /\ B!Construct <=> PB!Construct
  BY DEF
     B!SetFrequencyMode, PB!SetFrequencyMode, B!SetFrequencyCustomId,
     PB!SetFrequencyCustomId, B!SetClocks, PB!SetClocks, B!UnsetClocks, PB!UnsetClocks,
     B!Destroy, PB!Destroy, B!Construct, PB!Construct, B!Select, PB!Select,
     B!GetDeviceConfig, PB!GetDeviceConfig, B!FindMode, PB!FindMode, B!FindCustom,
     PB!FindCustom, B!Idle, PB!Idle, B!HasSelection, PB!HasSelection, B!Enter, PB!Enter,
     B!Returned, PB!Returned, B!clocks_applied, PB!clocks_applied, B!Local, PB!Local,
     B!Dead, PB!Dead, B!NewImpl, PB!NewImpl, B!FindEntry, PB!FindEntry, B!SelectInSeq,
     PB!SelectInSeq, B!Min, PB!Min
<1> QED
  BY <1>1, <1>2, <1>3
  DEF ActB, PB!SessionStep, B!Step, PB!Step, B!HasSelection, PB!HasSelection,
      B!clocks_applied, PB!clocks_applied

LEMMA AssumptionsB ==
  /\ PB!NoPathAssumption /\ PB!KernelRailAssumption /\ PB!FaultyAssumption
  /\ PB!InitSysfsAssumption /\ PB!RegistryAssumption /\ PB!CustomIdAssumption
  /\ PB!TablesWellFormed /\ PB!NoRailAtZero
<1>1. PB!InitSysfsAssumption
  BY InitSysfsAssumption DEF RailsOrdered, PB!RailsOrdered
<1>2. PB!RegistryAssumption
  BY RegistryAssumption
  DEF DeviceRegistryEntry, Config, ModeProfile, CustomProfile, CpuClusterMap, RailTarget,
      Tunable, PB!DeviceRegistryEntry, PB!Config, PB!ModeProfile, PB!CustomProfile,
      PB!CpuClusterMap, PB!RailTarget, PB!Tunable
<1>3. PB!TablesWellFormed
  BY TablesWellFormed
  DEF Profiles, TargetPaths, TunablePaths, KernelNodes, WellFormedTarget, NoOverlap,
      PB!Profiles, PB!TargetPaths, PB!TunablePaths, PB!KernelNodes, PB!WellFormedTarget,
      PB!NoOverlap
<1>4. PB!NoRailAtZero
  BY NoRailAtZero
  DEF Profiles, TargetPaths, KernelNodes, PB!Profiles, PB!TargetPaths, PB!KernelNodes
<1> QED
  BY <1>1, <1>2, <1>3, <1>4, NoPathAssumption, KernelRailAssumption, FaultyAssumption,
     CustomIdAssumption

LEMMA SameGoodB ==
  /\ \A nodes : (PB!Good(nodes) <=> SA!Good(nodes)) /\ (PB!V!Good(nodes) <=> SA!Good(nodes))
  /\ SA!Good(sysfs)' <=> PB!Good(sysfs)'
  /\ SA!Good(ViewB') => PB!V!Good(ViewB)'
BY DEF
   SA!Good, PB!Good, PB!V!Good, SA!RailsOrdered, PB!RailsOrdered, PB!V!RailsOrdered,
   SA!RailNodes, PB!RailNodes, PB!V!RailNodes, SA!TargetPaths, PB!TargetPaths,
   PB!V!TargetPaths, SA!KernelNodes, PB!KernelNodes, PB!V!KernelNodes, SA!Profiles,
   PB!Profiles, PB!V!Profiles

LEMMA SameNodesB == PB!OwnNodes = Nodes(implB) /\ PB!OwnNodes' = Nodes(implB)'
BY DEF PB!OwnNodes, PB!RailsOf, PB!TunablesOf, Nodes, ToSet

LEMMA SessionIsB ==
  /\ ("B" \in Open <=> PB!InSession) /\ ("B" \in Open' <=> PB!InSession')
  /\ ("B" \in Working <=> PB!Running) /\ ("B" \in Working' <=> PB!Running')
BY DEF Open, Working, B!clocks_applied, B!Running, PB!InSession, PB!clocks_applied, PB!Running

LEMMA PathsB == SB!Own => Nodes(implB) \subseteq Path
BY SameOwnB, SameNodesB, AssumptionsB, PB!OwnRails, PB!OwnTunables DEF PB!OwnNodes

\* A new controller.
LEMMA NewB ==
  ASSUME B!Init, BaseB = sysfs
  PROVE  SB!Own /\ "B" \notin Open
<1>1. PB!Init
  BY DEF B!Init, B!DeviceInit, B!SysfsInit, B!NewImpl, B!Enter,
         PB!Init, PB!DeviceInit, PB!SysfsInit, PB!NewImpl, PB!Enter
<1> QED
  BY <1>1, SameOwnB, SessionIsB, AssumptionsB, PB!OwnInit

\* What it keeps in a step of its own, and in a step of the other one.
LEMMA OwnStepB ==
  ASSUME SB!Own, ActB, BaseB' \in [Path -> Nat]
  PROVE  /\ SB!Own' /\ sysfs' \in [Path -> Nat] /\ SA!Good(sysfs)'
         /\ \A p \in Path \ Nodes(implB) : sysfs'[p] = sysfs[p]
         /\ UNCHANGED g_active_device
<1>1. PB!Own' /\ PB!Elsewhere /\ UNCHANGED g_active_device
  BY SameOwnB, SameStepB, AssumptionsB, PB!OwnStep, PB!DeviceStays
<1> QED
  BY <1>1, SameOwnB, SameNodesB, SameGoodB DEF PB!Elsewhere, PB!Own, PB!TypeOK

LEMMA OthersB ==
  ASSUME SB!Own, UNCHANGED <<g_active_device, implB, frameB>>, sysfs' \in [Path -> Nat],
         SA!Good(sysfs)', BaseB' \in [Path -> Nat]
  PROVE  SB!Own'
BY SameOwnB, SameGoodB, AssumptionsB, PB!OwnOthers

LEMMA WaitsB ==
  ASSUME VB!Inv, VB!AppliedInv,
         UNCHANGED <<g_active_device, implB, frameB>>, ViewB' = ViewB, BaseB' = BaseB
  PROVE  VB!Inv' /\ VB!AppliedInv'
BY SameInvB, SameAppliedB, AssumptionsB, PB!SessionWaits

\* A session's nodes stay the same, and its first step in it is the call.
LEMMA WorksB ==
  ASSUME SB!Own, SB!Own', ActB, "B" \in Open
  PROVE  /\ "B" \in Working \/ ("B" \in Open' /\ "B" \in Working')
         /\ "B" \in Open' => Nodes(implB)' = Nodes(implB)
<1>1. PB!Own /\ PB!SessionStep /\ PB!InSession /\ PB!DeadEmpty'
  BY SameOwnB, SameStepB, SessionIsB DEF PB!Own
<1>2. PB!Running \/ PB!Running'
  BY <1>1, AssumptionsB, PB!InSessionSteps
<1>3. PB!InSession' => PB!OwnNodes' = PB!OwnNodes
  BY <1>1, AssumptionsB, PB!NodesStay
<1> QED
  BY <1>2, <1>3, SessionIsB, SameNodesB DEF PB!InSession

\* As long as sessions do not cross, the controller might as well be alone.
LEMMA SeesB ==
  ASSUME SB!Own, VB!Inv, AloneB
  PROVE  PB!Sees
<1>1. ViewB \in [Path -> Nat]
  BY SameInvB DEF PB!V!Inv, PB!V!TypeOK
<1>2. Nodes(implB) \subseteq Path
  BY PathsB
<1>3. \A p \in Nodes(implB) : ViewB[p] = sysfs[p]
  BY <1>2, ViewsAre DEF HiddenB, AloneB
<1> QED
  BY <1>1, <1>3, SameNodesB DEF PB!Sees

LEMMA SessionB ==
  ASSUME SB!Own, SB!Own', ActB, MovesB, "B" \in Open => VB!Inv /\ VB!AppliedInv
  PROVE  LeavesB /\ ("B" \in Open' => VB!Inv' /\ VB!AppliedInv')
<1>1. PB!Own /\ PB!Own' /\ PB!SessionStep /\ PB!DeadEmpty'
  BY SameOwnB, SameStepB DEF PB!Own
<1>2. ASSUME "B" \in Open PROVE PB!InSession /\ PB!Sees /\ PB!V!Inv /\ PB!V!AppliedInv
  BY <1>2, SessionIsB, SeesB, SameInvB, SameAppliedB DEF MovesB
<1>3. CASE "B" \in Open /\ "B" \in Open'
  <2>1. /\ BaseB' = BaseB /\ LeavesB
        /\ ViewB' = [p \in Path |-> IF p \in Nodes(implB) THEN sysfs'[p] ELSE ViewB[p]]
    BY <1>3, WorksB, GoesOnSeenB
  <2>2. PB!Follows
    BY <2>1, SameNodesB DEF PB!Follows
  <2>3. PB!V!Inv' /\ PB!V!AppliedInv'
    BY <1>1, <1>2, <1>3, <2>1, <2>2, SessionIsB, AssumptionsB, PB!SessionGoesOn
  <2> QED
    BY <2>1, <2>3, SameInvB, SameAppliedB
<1>4. CASE "B" \notin Open /\ "B" \in Open'
  <2>1. ~PB!InSession /\ PB!InSession'
    BY <1>4, SessionIsB
  <2>2. UNCHANGED <<sysfs, implB>>
    BY <1>1, <2>1, AssumptionsB, PB!Opens
  <2>3. /\ ViewB' = [p \in Path |-> IF p \in Nodes(implB) THEN sysfs[p] ELSE start'[p]]
        /\ BaseB' = ViewB' /\ LeavesB
    BY <1>4, <2>2, OpensSeenB
  <2>4. PB!Good(ViewB')
    <3>1. /\ sysfs \in [Path -> Nat] /\ start' \in [Path -> Nat]
          /\ PB!Good(sysfs) /\ PB!Good(start')
      BY MovesFactsB, SameGoodB DEF MovesB
    <3>2. PB!Good([p \in Path |-> IF p \in PB!OwnNodes THEN sysfs[p] ELSE start'[p]])
      BY <1>1, <3>1, AssumptionsB, PB!GoodMix
    <3> QED
      BY <2>3, <3>2, SameNodesB
  <2>5. PB!V!Inv' /\ PB!V!AppliedInv'
    BY <1>1, <2>1, <2>3, <2>4, SameGoodB, AssumptionsB, PB!SessionBegins
  <2> QED
    BY <2>3, <2>5, SameInvB, SameAppliedB
<1>5. CASE "B" \in Open /\ "B" \notin Open'
  <2>1. UNCHANGED sysfs /\ ViewB = BaseB
    BY <1>1, <1>2, <1>5, SessionIsB, NoFailures, AssumptionsB, PB!SessionEnds
  <2> QED
    BY <1>5, <2>1, ClosesSeenB
<1>6. CASE "B" \notin Open /\ "B" \notin Open'
  <2>1. UNCHANGED sysfs
    BY <1>1, <1>6, SessionIsB, AssumptionsB, PB!OutOfSession
  <2> QED
    BY <1>6, <2>1, IdleSeenB
<1> QED
  BY <1>3, <1>4, <1>5, <1>6

LEMMA ControllerB == KeepsB
BY NewB, PathsB, OwnStepB, OthersB, WaitsB, WorksB, SessionB DEF KeepsB

-------------------------------------------------------------------------------
(* What they may go by, crossed or not. *)

LEMMA SameReadsB ==
  /\ (SB!SnapshotsWhole <=> PB!SnapshotsWhole) /\ (SB!SnapshotsWhole' <=> PB!SnapshotsWhole')
  /\ (SB!MidRail <=> PB!MidRail) /\ (SB!MidRail' <=> PB!MidRail')
  /\ (SB!Setting <=> PB!Setting) /\ (SB!Setting' <=> PB!Setting')
<1>1. (SB!SnapshotsWhole <=> PB!SnapshotsWhole) /\ (SB!SnapshotsWhole' <=> PB!SnapshotsWhole')
  BY DEF
     SB!SnapshotsWhole, PB!SnapshotsWhole, SB!WF, PB!WF, SB!Restore, PB!Restore, SB!Running,
     PB!Running, SB!HalfSnapshot, PB!HalfSnapshot, SB!WantMin, PB!WantMin, SB!PathPresent,
     PB!PathPresent, SB!RailTarget, PB!RailTarget, SB!WellFormedTarget, PB!WellFormedTarget,
     SB!RailNodes, PB!RailNodes, SB!TargetPaths, PB!TargetPaths, SB!KernelNodes,
     PB!KernelNodes, SB!Profiles, PB!Profiles
<1>2. (SB!MidRail <=> PB!MidRail) /\ (SB!MidRail' <=> PB!MidRail')
  BY DEF
     SB!MidRail, PB!MidRail, SB!MinGoesFirst, PB!MinGoesFirst, SB!Rail, PB!Rail, SB!Rails,
     PB!Rails, SB!Setting, PB!Setting, SB!Restore, PB!Restore, SB!WantMin, PB!WantMin,
     SB!WantMax, PB!WantMax, SB!PathPresent, PB!PathPresent, SB!ReadMayFail, PB!ReadMayFail
<1>3. (SB!Setting <=> PB!Setting) /\ (SB!Setting' <=> PB!Setting')
  BY DEF SB!Setting, PB!Setting
<1> QED
  BY <1>1, <1>2, <1>3

LEMMA GoesByB == ReadsB
<1>1. ASSUME "B" \notin Open' PROVE SB!SnapshotsWhole'
  BY <1>1, SessionIsB, SameReadsB, AssumptionsB, PB!WholeClosed
<1>2. ASSUME SB!Own PROVE PB!Own
  BY <1>2, SameOwnB
<1>3. ASSUME SB!Own, ActB
      PROVE  /\ SB!SnapshotsWhole => SB!SnapshotsWhole'
             /\ frameB'.pc \in RailPc => frameB'.op = frameB.op
             /\ SB!MidRail /\ (SB!Setting \/ SB!SnapshotsWhole) =>
                  SB!MidRail' /\ (B!Running /\ frameB.ok => frameB'.ok)
  <2>1. PB!Own /\ PB!SessionStep /\ (B!Running => PB!Running)
    BY <1>2, <1>3, SameStepB DEF B!Running, PB!Running
  <2>2. frameB'.pc \in RailPc => frameB'.op = frameB.op
    BY <2>1, AssumptionsB, PB!RailSameCall DEF PB!RailPc, RailPc
  <2> QED
    BY <2>1, <2>2, SameReadsB, NoFailures, AssumptionsB, PB!WholeStep, PB!MidRailStep,
       PB!NoRefusal
<1>4. ASSUME SB!Own, UNCHANGED <<implB, frameB>>
      PROVE  /\ SB!SnapshotsWhole /\ ~Overtaken("B", HalfSaved("B")) => SB!SnapshotsWhole'
             /\ SB!MidRail /\ (frameB.pc \in RailPc => ~Overtaken("B", Ordered("B")))
                => SB!MidRail'
  <2>1. ~Overtaken("B", HalfSaved("B")) =>
          (frameB.pc = "save_max" =>
             \A p \in {PB!SelectedTarget.min_path} \cap Path : sysfs'[p] = sysfs[p])
    BY <1>4 DEF Overtaken, HalfSaved, B!SelectedTarget, PB!SelectedTarget
  <2>2. (frameB.pc \in RailPc => ~Overtaken("B", Ordered("B"))) =>
          (frameB.pc \in PB!RailPc =>
             \A p \in {PB!Rail.min_path, PB!Rail.max_path} \cap Path : sysfs'[p] = sysfs[p])
    BY <1>4 DEF Overtaken, Ordered, RailPc, PB!RailPc, B!Rail, PB!Rail, B!Rails, PB!Rails,
                B!Setting, PB!Setting, B!Restore, PB!Restore
  <2> QED
    BY <1>2, <1>4, <2>1, <2>2, SameReadsB, AssumptionsB, PB!WholeOthers, PB!MidRailOthers
<1> QED
  BY <1>1, <1>3, <1>4 DEF ReadsB

-------------------------------------------------------------------------------
(* The theorems. *)

\* In every reachable state each controller keeps what is its own, and sessions that
\* have not crossed leave each of them a view of sysfs on which it behaves as if it
\* were alone: SetClocks and UnsetClocks read and write the nodes of its profile only.
THEOREM ContentionInvariant == CSpec => []ContInv
<1>1. ContInv /\ [CNext]_cvars => ContInv'
  BY ControllerA, ControllerB, StepA, StepB, Stutters DEF CNext
<1>2. CInit => ContInv
  BY ControllerA, ControllerB, Begins
<1> QED
  BY <1>1, <1>2, PTL DEF CSpec

\* However two controllers' reads and writes interleave, once neither has a profile
\* applied or a call running, every node is as it was before the first of them,
\* unless sessions that share a node crossed.
THEOREM NestedRestoresHolds == CSpec => []NestedRestores
BY ContentionInvariant, Restored, PTL

\* A profile that SetClocks reported as applied stays on its nodes while it is
\* applied, except where an open inner session has taken a node over.
THEOREM NestedAppliesHolds == CSpec => []NestedApplies
<1>1. ContInv => NestedApplies
  BY ControllerA, ControllerB, InForceThen
<1> QED
  BY <1>1, ContentionInvariant, PTL

\* What a controller has read stays something it may go by, until the other one comes
\* between at one of two places.
THEOREM CalmInvariant == CSpec => []Calm
<1>1. ContInv /\ Calm /\ [CNext]_cvars => Calm'
  BY GoesByA, GoesByB, CalmStays
<1> QED
  BY <1>1, CalmBegins, ContentionInvariant, PTL DEF CSpec

\* Crossed or not, a write is refused only to a controller that was overtaken: between
\* ApplyRail's read of the minimum and its writes or, in a restore, between the two
\* reads of a saved pair.
THEOREM RefusalExplainedHolds == CSpec => RefusalExplained
<1> DEFINE Reason ==
      /\ A!Running /\ frameA.ok /\ ~frameA'.ok => "A" \in stale \/ (~A!Setting /\ "A" \in torn)
      /\ B!Running /\ frameB.ok /\ ~frameB'.ok => "B" \in stale \/ (~B!Setting /\ "B" \in torn)
<1>1. ContInv /\ Calm /\ [CNext]_cvars => [Reason]_cvars
  BY GoesByA, GoesByB, Explained
<1> QED
  BY <1>1, ContentionInvariant, CalmInvariant, PTL DEF CSpec, RefusalExplained
================================================================================
