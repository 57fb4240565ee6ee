------------------------------ MODULE Contention ------------------------------
(***************************************************************************)
(* Two FreqControllers on the same device, in one process or in two: each  *)
(* applies a profile and restores it, as freq_ctl's cycle does, and every  *)
(* read and write of one may fall between any two of the other.            *)
(*                                                                         *)
(* A session of a controller lasts from its SetClocks to the end of its    *)
(* restore.  The history variables describe the time since no session was  *)
(* open: start is the content of sysfs then, outer the controller whose    *)
(* session opened first, under the content when the inner one opened,      *)
(* crossed tells whether two sessions that share a node were not nested:   *)
(* the outer one worked while the inner one was open.  Two more tell which *)
(* controllers have lost a race: torn, that the minimum of a rail changed  *)
(* between the two reads of a saved pair; stale, that the rail in progress *)
(* changed after ApplyRail had read its minimum.                           *)
(***************************************************************************)
EXTENDS SysfsIO, DeviceConfig

CONSTANTS CustomId,
          Reopen    \* FALSE bounds the model: see MayOpen

ASSUME CustomIdAssumption == CustomId \subseteq Nat

ASSUME ReopenAssumption == Reopen \in BOOLEAN

VARIABLES implA, frameA, implB, frameB, start, outer, under, crossed, stale, torn

A == INSTANCE FreqController WITH impl <- implA, frame <- frameA
B == INSTANCE FreqController WITH impl <- implB, frame <- frameB

controllers == <<g_active_device, sysfs, implA, frameA, implB, frameB>>
cvars == <<controllers, start, outer, under, crossed, stale, torn>>

Open == {c \in {"A", "B"} :
           CASE c = "A" -> A!clocks_applied \/ A!Running
             [] c = "B" -> B!clocks_applied \/ B!Running}

Working == {c \in {"A", "B"} :
              CASE c = "A" -> A!Running [] c = "B" -> B!Running}

Quiet == Open = {}

\* The nodes of a selected profile.
Nodes(impl) ==
  ((UNION {{t.min_path, t.max_path} : t \in ToSet(impl.selected_targets)})
   \cup {t.sysfs_path : t \in ToSet(impl.selected_tunables)}) \ {NoPath}

Sharing == Nodes(implA) \cap Nodes(implB) # {}

Overlap == Open = {"A", "B"}

Crossing == Sharing /\ Overlap /\ outer \in Working

Observe ==
  /\ start' = IF Quiet THEN sysfs ELSE start
  /\ outer' = IF outer \in Open' THEN outer
              ELSE IF Quiet' THEN "none" ELSE CHOOSE c \in Open' : TRUE
  /\ under' = CASE ~Overlap' -> start'
                [] Overlap' /\ ~Overlap -> sysfs
                [] Overlap' /\ Overlap -> under
  /\ crossed' = (Crossing' \/ (crossed /\ ~Quiet))

RailPc == {"min_first", "max_last", "max_first", "min_last"}

\* What a controller goes by: the rail whose writes ApplyRail has ordered, to the
\* last of them, and the minimum that was read before the maximum of its rail.
Ordered(c) ==
  CASE c = "A" /\ frameA.pc \in RailPc -> {A!Rail.min_path, A!Rail.max_path}
    [] c = "B" /\ frameB.pc \in RailPc -> {B!Rail.min_path, B!Rail.max_path}
    [] OTHER -> {}

HalfSaved(c) ==
  CASE c = "A" /\ frameA.pc = "save_max" -> {A!SelectedTarget.min_path}
    [] c = "B" /\ frameB.pc = "save_max" -> {B!SelectedTarget.min_path}
    [] OTHER -> {}

\* A step of the other one changes a node of these.
Overtaken(c, nodes) ==
  /\ CASE c = "A" -> UNCHANGED frameA [] c = "B" -> UNCHANGED frameB
  /\ \E p \in nodes \cap Path : sysfs'[p] # sysfs[p]

Watch ==
  /\ stale' = {c \in {"A", "B"} :
                 Ordered(c)' # {} /\ (c \in stale \/ Overtaken(c, Ordered(c)))}
  /\ torn' = {c \in Open' : c \in torn \/ Overtaken(c, HalfSaved(c))}

CInit ==
  /\ A!Init
  /\ B!Init
  /\ start = sysfs
  /\ outer = "none"
  /\ under = sysfs
  /\ crossed = FALSE
  /\ stale = {}
  /\ torn = {}

\* Bounds: a controller selects one profile in its life, as freq_ctl does, and
\* unless Reopen, after a crossing the open sessions end but no new one begins.
MayOpen == ~crossed \/ Reopen

ActA ==
  /\ \/ /\ ~A!HasSelection
        /\ \/ \E mode \in FrequencyMode : A!SetFrequencyMode(mode)
           \/ \E id \in CustomId : A!SetFrequencyCustomId(id)
     \/ A!HasSelection /\ ~A!clocks_applied /\ MayOpen /\ A!SetClocks
     \/ A!clocks_applied /\ A!UnsetClocks
     \/ A!Destroy
     \/ A!Construct
     \/ A!Step
  /\ UNCHANGED <<implB, frameB>>

ActB ==
  /\ \/ /\ ~B!HasSelection
        /\ \/ \E mode \in FrequencyMode : B!SetFrequencyMode(mode)
           \/ \E id \in CustomId : B!SetFrequencyCustomId(id)
     \/ B!HasSelection /\ ~B!clocks_applied /\ MayOpen /\ B!SetClocks
     \/ B!clocks_applied /\ B!UnsetClocks
     \/ B!Destroy
     \/ B!Construct
     \/ B!Step
  /\ UNCHANGED <<implA, frameA>>

CNext == (ActA \/ ActB) /\ Observe /\ Watch

CSpec == CInit /\ [][CNext]_cvars

-------------------------------------------------------------------------------
\* The nodes an inner session has taken over.
HiddenA == IF Overlap /\ outer = "A" THEN Nodes(implB) ELSE {}
HiddenB == IF Overlap /\ outer = "B" THEN Nodes(implA) ELSE {}

\* The selected profile's values are on its nodes, the hidden ones aside.
InForce(impl, hidden) ==
  /\ \A t \in ToSet(impl.selected_targets) :
       /\ WantMin(t) /\ t.min_path \notin hidden => sysfs[t.min_path] = t.min_khz
       /\ WantMax(t) /\ t.max_path \notin hidden => sysfs[t.max_path] = t.max_khz
  /\ \A t \in ToSet(impl.selected_tunables) :
       PathPresent(t.sysfs_path) /\ t.sysfs_path \notin hidden => sysfs[t.sysfs_path] = t.value

-------------------------------------------------------------------------------
\* Sessions that are nested, or that share no node, however their reads and writes
\* interleave, leave every node as it was before the first of them.  (Crossed
\* sessions do not: the last restore writes what it found, the other's profile.)
NestedRestores == Quiet /\ ~crossed => sysfs = start

\* A controller whose SetClocks returned true has its profile on its nodes for as
\* long as it leaves it applied: another one may take nodes over, but its
\* UnsetClocks gives them back as they were.
NestedApplies ==
  ~crossed =>
    /\ A!clocks_applied /\ A!Idle /\ frameA.op = "set" /\ frameA.ok => InForce(implA, HiddenA)
    /\ B!clocks_applied /\ B!Idle /\ frameB.op = "set" /\ frameB.ok => InForce(implB, HiddenB)

\* Crossed or not, the kernel refuses a write of a controller only if the other one
\* came between at one of two places: it changed the rail after ApplyRail had read
\* its minimum to order the writes, or, when a restore is refused, it changed the
\* minimum of a rail between the two reads SetClocks saved.  (A torn pair may have
\* min > max, which no order of writes restores.)  Without failing nodes nothing
\* else makes a call return false: not what other sessions left on the rail before
\* a call began, nor that the saved values are the other one's.
RefusalExplained ==
  [][/\ A!Running /\ frameA.ok /\ ~frameA'.ok => "A" \in stale \/ (~A!Setting /\ "A" \in torn)
     /\ B!Running /\ frameB.ok /\ ~frameB'.ok => "B" \in stale \/ (~B!Setting /\ "B" \in torn)
    ]_cvars
===============================================================================
