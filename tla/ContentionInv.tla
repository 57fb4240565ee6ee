----------------------------- MODULE ContentionInv -----------------------------
(***************************************************************************)
(* The inductive invariant behind the properties of Contention, on         *)
(* well-formed tables and without failing nodes.                           *)
(*                                                                         *)
(* As long as sessions do not cross, each controller might as well be      *)
(* alone: ViewA is the content of sysfs that A would see if the other      *)
(* session had not begun.  Of its own nodes it sees what they hold, or     *)
(* held when the inner session took them over; all others stay as they     *)
(* were.  On that view A keeps the invariant of FreqControllerInv, and     *)
(* BaseA is what it owes its caller.  Calm is what is left to each when    *)
(* they cross.                                                             *)
(***************************************************************************)
EXTENDS Contention, WellFormedTables

ASSUME NoFailures == Faulty = {}

View(mine, hidden) ==
  [p \in Path |-> CASE p \notin mine -> start[p]
                    [] p \in mine \cap hidden -> under[p]
                    [] p \in mine \ hidden -> sysfs[p]]

Base(mine, inner) == [p \in Path |-> IF inner /\ p \in mine THEN under[p] ELSE start[p]]

ViewA == View(Nodes(implA), HiddenA)
ViewB == View(Nodes(implB), HiddenB)

BaseA == Base(Nodes(implA), Overlap /\ outer = "B")
BaseB == Base(Nodes(implB), Overlap /\ outer = "A")

SA == INSTANCE ControllerSession WITH impl <- implA, frame <- frameA, baseline <- BaseA
SB == INSTANCE ControllerSession WITH impl <- implB, frame <- frameB, baseline <- BaseB

VA == INSTANCE FreqControllerInv
  WITH impl <- implA, frame <- frameA, sysfs <- ViewA, baseline <- BaseA
VB == INSTANCE FreqControllerInv
  WITH impl <- implB, frame <- frameB, sysfs <- ViewB, baseline <- BaseB

OpenNodes == UNION {IF c = "A" THEN Nodes(implA) ELSE Nodes(implB) : c \in Open}

OuterNodes == IF outer = "A" THEN Nodes(implA) ELSE Nodes(implB)

HistoryOK ==
  /\ \A nodes \in {start, under} : nodes \in [Path -> Nat] /\ SA!Good(nodes)
  /\ (Quiet /\ outer = "none") \/ outer \in Open
  /\ Crossing => crossed

\* What no open session has for its own is as it was.
Untouched ==
  /\ \A p \in Path \ OpenNodes : sysfs[p] = start[p]
  /\ Overlap => \A p \in Path \ OuterNodes : under[p] = start[p]

\* Sessions that have not crossed.
Nested ==
  /\ "A" \in Open => VA!Inv /\ VA!AppliedInv
  /\ "B" \in Open => VB!Inv /\ VB!AppliedInv
  /\ Untouched

ContInv ==
  /\ SA!Own
  /\ SB!Own
  /\ HistoryOK
  /\ ~crossed => Nested

\* A controller that has not lost a race may go by what it has read, crossed or not.
Calm ==
  /\ "A" \notin torn => SA!SnapshotsWhole
  /\ "B" \notin torn => SB!SnapshotsWhole
  /\ "A" \notin stale /\ (SA!Setting \/ "A" \notin torn) => SA!MidRail
  /\ "B" \notin stale /\ (SB!Setting \/ "B" \notin torn) => SB!MidRail
================================================================================
