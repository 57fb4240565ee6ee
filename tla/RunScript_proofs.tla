---------------------------- MODULE RunScript_proofs ----------------------------
(***************************************************************************)
(* What the verdict of run.py is worth: CleanCyclePasses and               *)
(* BlamesTheFaulty, from the invariant of the cycle's process (CtlInv) and *)
(* from what the two snapshots show of it.                                 *)
(***************************************************************************)
EXTENDS RunScriptInv, FreqCtl_proofs

-------------------------------------------------------------------------------
(* The device, as far as the host is concerned. *)

\* A device with no process on it stays as it is.
LEMMA DeviceQuiet ==
  ASSUME CtlInv, At("exited")
  PROVE  ~CtlStep /\ ~Kill
<1>1. frame.pc = "dead" /\ cli.pc = "exited"
  BY DEF CtlInv, Stage, At
<1>2. ~Save
  BY <1>1 DEF Save, SaveMin, SaveMax, SaveRailsEnd, SaveTunable, SaveTunablesEnd, SaveFails
<1>3. ~Write
  BY <1>1 DEF Write, ApplyRail, WriteMinFirst, WriteMaxLast, WriteMaxFirst, WriteMinLast,
              RailsEnd, WriteTunable, SkipTunable, SetReturns, UnsetReturns, Destroyed, WritesEnd
<1>4. ~LibraryStep
  BY <1>2, <1>3 DEF LibraryStep, Step
<1> QED
  BY <1>1, <1>4
  DEF CtlStep, Kill, At, SelectDevice, UsageError, MakeController, ResolveProfile, Apply,
      Applied, Unapply, Unapplied, Leave, Left, PrintTables, Probe, CmdAffinity, AffinityCall,
      AffinityDone

\* Only a launch starts a process.
LEMMA DeviceKeeps ==
  ASSUME CtlInv, CtlStep \/ Kill
  PROVE  started' = started /\ cli'.cmd = cli.cmd /\ cli'.device = cli.device /\ cli'.arg = cli.arg
<1>1. started' = started
  BY DEF CtlStep, Kill, LibraryStep, SelectDevice, UsageError, MakeController, ResolveProfile,
         Apply, Applied, Unapply, Unapplied, Leave, Left, PrintTables, Probe, CmdAffinity,
         AffinityCall, AffinityDone
<1>2. LineOK
  BY DEF CtlInv
<1>3. CASE \/ UNCHANGED cli
           \/ \E pc : Goto(pc)
           \/ \E pc, success : Result(pc, success)
           \/ \E pc, code : cli' = [cli EXCEPT !.pc = pc, !.code = code]
  BY <1>1, <1>2, <1>3 DEF LineOK, Goto, Result
<1>4. CASE UsageError \/ PrintTables \/ Probe \/ CmdAffinity \/ AffinityCall \/ AffinityDone
  BY <1>3, <1>4 DEF UsageError, PrintTables, Probe, CmdAffinity, AffinityCall, AffinityDone
<1>5. CASE SelectDevice \/ MakeController \/ ResolveProfile \/ Apply \/ Applied
  BY <1>3, <1>5 DEF SelectDevice, MakeController, ResolveProfile, Apply, Applied
<1>6. CASE Unapply \/ Unapplied \/ Leave \/ Left \/ LibraryStep \/ Kill
  BY <1>3, <1>6 DEF Unapply, Unapplied, Leave, Left, LibraryStep, Kill
<1> QED
  BY <1>1, <1>4, <1>5, <1>6 DEF CtlStep

-------------------------------------------------------------------------------
(* Snapshots. *)

LEMMA SamePaths == ASSUME host'.rails = host.rails PROVE Paths' = Paths
BY DEF Paths

LEMMA ShowsNothing == ASSUME NEW nodes PROVE Shows(<<>>, nodes)
BY DEF Shows

LEMMA ShowsMore ==
  ASSUME NEW snap, NEW nodes, Shows(snap, nodes),
         NEW value, value = nodes[Paths[Len(snap) + 1]]
  PROVE  Shows(Append(snap, value), nodes)
<1> DEFINE T == {nodes[Paths[j]] : j \in DOMAIN Append(snap, value)}
<1>1. Len(snap) \in Nat /\ DOMAIN snap = 1..Len(snap)
  BY DEF Shows
<1>2. /\ Append(snap, value) = [j \in 1..Len(snap) + 1 |->
                                  IF j = Len(snap) + 1 THEN value ELSE snap[j]]
  BY <1>1 DEF Shows
<1>3. /\ DOMAIN Append(snap, value) = 1..Len(snap) + 1
      /\ \A j \in 1..Len(snap) + 1 : Append(snap, value)[j] = nodes[Paths[j]]
  BY <1>1, <1>2 DEF Shows
<1>4. Append(snap, value) \in Seq(T)
  BY <1>1, <1>2, <1>3
<1> QED
  BY <1>3, <1>4 DEF Shows

LEMMA SameShown ==
  ASSUME NEW a, NEW b, NEW nodes, Shows(a, nodes), Shows(b, nodes), Len(a) = Len(b)
  PROVE  a = b
<1>1. a = [j \in 1..Len(a) |-> a[j]] /\ b = [j \in 1..Len(b) |-> b[j]]
  BY DEF Shows
<1>2. DOMAIN a = 1..Len(a) /\ DOMAIN b = 1..Len(b)
  BY DEF Shows
<1>3. \A j \in 1..Len(a) : a[j] = b[j]
  BY <1>2 DEF Shows
<1> QED
  BY <1>1, <1>3

-------------------------------------------------------------------------------
(* The device moves while the script stands still. *)

LEMMA DeviceRun ==
  ASSUME RunInv, CtlStep \/ Kill, UNCHANGED host
  PROVE  RunInv'
<1>1. ~At("exited")
  BY DeviceQuiet DEF RunInv
<1>2. started' = started /\ cli'.cmd = cli.cmd
  BY DeviceKeeps DEF RunInv
<1>3. CtlInv'
  BY StepProcess DEF RunInv, CtlNext
<1>4. host.pc \notin {"push", "list", "before"} /\ ~Awaited
  BY <1>1 DEF RunInv, HostStage, AfterLeft
<1>5. HostStage'
  BY <1>4 DEF RunInv, HostStage, Judged
<1>6. BeforeStarted'
  BY <1>2, <1>4, SamePaths DEF RunInv, BeforeStarted, Cycling, Judged, Shows
<1>7. AfterLeft' /\ VerdictOK'
  BY <1>4 DEF RunInv, AfterLeft, Awaited, VerdictOK, Judged, Mismatches
<1> QED
  BY <1>3, <1>5, <1>6, <1>7 DEF RunInv

-------------------------------------------------------------------------------
(* The steps of the script. *)

LEMMA HostMoves ==
  ASSUME RunInv, UNCHANGED cvars
  PROVE  /\ CtlInv'
         /\ sysfs' = sysfs /\ started' = started /\ cli' = cli
         /\ (At("exited")' <=> At("exited"))
<1>1. sysfs' = sysfs /\ started' = started /\ cli' = cli
  BY DEF cvars, vars
<1> QED
  BY <1>1, StepProcess DEF RunInv, At

\* The script gives up, or has not begun: nothing is said of the snapshots.
LEMMA HostOff ==
  ASSUME RunInv, UNCHANGED cvars, host' = [host EXCEPT !.pc = "off", !.verdict = "none"]
  PROVE  RunInv'
<1>1. /\ HostStage' /\ ~Judged' /\ ~Cycling' /\ ~Awaited' /\ host'.pc = "off"
  BY DEF RunInv, HostStage, Judged, Cycling, Awaited
<1> QED
  BY <1>1, HostMoves DEF RunInv, BeforeStarted, AfterLeft, VerdictOK

LEMMA HostStarts ==
  ASSUME RunInv, NEW line \in Invocation, Start(line)
  PROVE  RunInv'
<1>1. HostStage' /\ ~Judged' /\ ~Cycling' /\ ~Awaited' /\ host'.pc = "push"
  BY HostMoves DEF Start, Off, HostStage, Judged, Cycling, Awaited
<1> QED
  BY <1>1, HostMoves DEF Start, RunInv, BeforeStarted, AfterLeft, VerdictOK

LEMMA HostPrepares ==
  ASSUME RunInv, PushBinary \/ ParseProfile \/ RailsForMode
  PROVE  RunInv'
<1>1. /\ UNCHANGED cvars
      /\ host'.pc \in {"list", "listing", "before"} /\ host'.snap = <<>>
      /\ HostStage' /\ ~Judged' /\ ~Cycling' /\ ~Awaited'
  BY HostMoves
  DEF PushBinary, ParseProfile, RailsForMode, HostAt, Listed, RunInv, HostStage, Judged, Cycling, Awaited
<1> QED
  BY <1>1, HostMoves, ShowsNothing DEF RunInv, BeforeStarted, AfterLeft, VerdictOK, Shows

LEMMA HostLaunches ==
  ASSUME RunInv, FreqCtlList \/ SpawnCycle
  PROVE  RunInv'
<1>1. /\ host.line = [cmd |-> "cycle", device |-> host.line.device, arg |-> host.line.arg]
      /\ LineTyped(host.line)
  BY InvocationAssumption, RunLineAssumption
  DEF FreqCtlList, SpawnCycle, HostAt, RunInv, HostStage
<1>2. PICK cmd \in {"list", "cycle"} :
        /\ Launch([host.line EXCEPT !.cmd = cmd])
        /\ cmd = "list" <=> FreqCtlList
        /\ cmd = "cycle" <=> SpawnCycle
  BY DEF FreqCtlList, SpawnCycle, HostAt
<1>3. /\ LineTyped([host.line EXCEPT !.cmd = cmd])
      /\ [host.line EXCEPT !.cmd = cmd].cmd = cmd
  BY <1>1 DEF LineTyped
<1>4. CtlInv' /\ cli'.cmd = cmd /\ sysfs' = sysfs /\ started' = sysfs
  BY <1>2, <1>3, LaunchProcess DEF RunInv, Launch
<1>5. CASE FreqCtlList
  <2>1. HostStage' /\ ~Judged' /\ ~Cycling' /\ ~Awaited' /\ host'.pc = "listing"
    BY <1>5 DEF FreqCtlList, HostAt, RunInv, HostStage, Judged, Cycling, Awaited
  <2> QED
    BY <2>1, <1>4 DEF RunInv, BeforeStarted, AfterLeft, VerdictOK
<1>6. CASE SpawnCycle
  <2>1. /\ HostStage' /\ ~Judged' /\ ~Awaited' /\ host'.pc = "during"
        /\ host'.before = host.snap /\ host'.rails = host.rails
        /\ Shows(host.snap, sysfs) /\ Len(host.snap) = Len(Paths)
    BY <1>6
    DEF SpawnCycle, HostAt, SnapshotTaken, RunInv, HostStage, BeforeStarted, Judged, Awaited
  <2>2. BeforeStarted'
    BY <2>1, <1>2, <1>4, <1>6, SamePaths DEF BeforeStarted, Shows
  <2> QED
    BY <2>1, <2>2, <1>4 DEF RunInv, AfterLeft, VerdictOK
<1> QED
  BY <1>5, <1>6

LEMMA HostReads ==
  ASSUME RunInv, ReadNode
  PROVE  RunInv'
<1>1. /\ UNCHANGED cvars
      /\ host.pc \in {"before", "during", "after"}
      /\ host' = [host EXCEPT !.snap = Append(@, sysfs[NextPath]), !.held = host'.held]
  BY DEF ReadNode, Reading, RunInv, HostStage
<1>2. /\ HostStage' /\ ~Judged /\ ~Judged' /\ (Cycling' <=> Cycling) /\ (Awaited' <=> Awaited)
      /\ host'.pc = host.pc /\ host'.rails = host.rails /\ host'.before = host.before
      /\ host'.snap = Append(host.snap, sysfs[NextPath])
  BY <1>1, HostMoves DEF RunInv, HostStage, Judged, Cycling, Awaited
<1>3. Shows(host.snap, sysfs) => Shows(host.snap, sysfs)'
  <2> SUFFICES ASSUME Shows(host.snap, sysfs) PROVE Shows(host.snap, sysfs)'
    OBVIOUS
  <2>1. Shows(host'.snap, sysfs)
    BY <1>2, ShowsMore DEF NextPath
  <2> QED
    BY <2>1, <1>1, <1>2, HostMoves, SamePaths DEF Shows
<1>4. BeforeStarted'
  BY <1>1, <1>2, <1>3, HostMoves, SamePaths DEF RunInv, BeforeStarted, Shows
<1>5. AfterLeft' /\ VerdictOK'
  BY <1>1, <1>2, <1>3, HostMoves DEF RunInv, AfterLeft, VerdictOK
<1> QED
  BY <1>1, <1>2, <1>4, <1>5, HostMoves DEF RunInv

LEMMA HostWaits ==
  ASSUME RunInv, DuringTaken \/ CycleEnded \/ ClientLost
  PROVE  RunInv'
<1>1. /\ UNCHANGED cvars /\ Cycling
      /\ host'.pc \in {"wait", "after"} /\ host'.snap = <<>>
      /\ host'.rails = host.rails /\ host'.before = host.before
      /\ HostStage' /\ ~Judged' /\ Cycling'
      /\ Awaited' => At("exited")
  BY HostMoves
  DEF DuringTaken, CycleEnded, ClientLost, ClientGone, HostAt, RunInv, HostStage, Judged,
      Cycling, Awaited
<1>2. BeforeStarted'
  BY <1>1, HostMoves, SamePaths DEF RunInv, BeforeStarted, Shows
<1>3. AfterLeft'
  BY <1>1, HostMoves, SamePaths DEF AfterLeft, Shows
<1> QED
  BY <1>1, <1>2, <1>3, HostMoves DEF RunInv, VerdictOK

LEMMA HostJudges ==
  ASSUME RunInv, DiffSnapshots
  PROVE  RunInv'
<1>1. /\ UNCHANGED cvars
      /\ host.pc = "after" /\ Len(host.snap) = Len(Paths)
      /\ host' = [host EXCEPT !.pc = "off", !.verdict = IF Mismatches = {} THEN "PASS" ELSE "FAIL"]
  BY DEF DiffSnapshots, HostAt, SnapshotTaken, Exit
<1>2. /\ host'.pc = "off" /\ host'.verdict = IF Mismatches = {} THEN "PASS" ELSE "FAIL"
      /\ host'.rails = host.rails /\ host'.before = host.before /\ host'.snap = host.snap
      /\ HostStage' /\ Judged' /\ Cycling /\ (Awaited' <=> Awaited)
  BY <1>1, HostMoves DEF RunInv, HostStage, Judged, Cycling, Awaited
<1>3. BeforeStarted'
  BY <1>2, <1>1, HostMoves, SamePaths DEF RunInv, BeforeStarted, Shows
<1>4. AfterLeft'
  BY <1>2, <1>1, HostMoves, SamePaths DEF RunInv, AfterLeft, Shows
<1>5. VerdictOK'
  <2>1. Mismatches' = Mismatches
    BY <1>2 DEF Mismatches
  <2> QED
    BY <2>1, <1>1, <1>2 DEF RunInv, BeforeStarted, VerdictOK
<1> QED
  BY <1>1, <1>2, <1>3, <1>4, <1>5, HostMoves DEF RunInv

LEMMA HostStutters ==
  ASSUME RunInv, UNCHANGED <<cvars, host>>
  PROVE  RunInv'
BY HostMoves, SamePaths
DEF RunInv, HostStage, BeforeStarted, AfterLeft, VerdictOK, Judged, Cycling, Awaited, Shows,
    Mismatches

LEMMA InitRun == RunInit => RunInv
<1> SUFFICES ASSUME RunInit PROVE RunInv
  OBVIOUS
<1>1. CtlInv
  BY InitProcess DEF RunInit
<1>2. HostStage /\ ~Judged /\ ~Cycling /\ ~Awaited /\ host.pc = "off"
  BY DEF RunInit, Off, HostStage, Judged, Cycling, Awaited
<1> QED
  BY <1>1, <1>2 DEF RunInv, BeforeStarted, AfterLeft, VerdictOK

LEMMA StepRun == RunInv /\ [RunNext]_rvars => RunInv'
<1> SUFFICES ASSUME RunInv, [RunNext]_rvars PROVE RunInv'
  OBVIOUS
<1>1. CASE \E line \in Invocation : Start(line)
  BY <1>1, HostStarts
<1>2. CASE HostStep
  <2>1. CASE GiveUp
    BY <2>1, HostOff DEF GiveUp, Exit
  <2> QED
    BY <1>2, <2>1, HostPrepares, HostLaunches, HostReads, HostWaits, HostJudges DEF HostStep
<1>3. CASE Abort
  BY <1>3, HostOff DEF Abort, Exit
<1>4. CASE DeviceStep \/ (Kill /\ UNCHANGED host)
  BY <1>4, DeviceRun DEF DeviceStep
<1>5. CASE UNCHANGED rvars
  BY <1>5, HostStutters DEF rvars, cvars
<1> QED
  BY <1>1, <1>2, <1>3, <1>4, <1>5 DEF RunNext

\* Whatever fails, is lost or is interrupted, BEFORE is what the cycle found and, when
\* the script has waited for the cycle, AFTER is what it left.
THEOREM RunInvariant == RunSpec => []RunInv
<1> QED
  BY InitRun, StepRun, PTL DEF RunSpec

\* run.py passes a cycle it has waited for if freq_ctl reported success, and is right:
\* all of sysfs is as it was.
THEOREM PassesCleanCycles == RunSpec => []CleanCyclePasses
<1>1. RunInv => CleanCyclePasses
  <2> SUFFICES ASSUME RunInv, Judged, host.client = "ended", cli.code = 0
               PROVE  host.verdict = "PASS" /\ sysfs = started
    BY DEF CleanCyclePasses, Judged
  <2>1. /\ Cycling /\ Awaited
    BY DEF Cycling, Awaited
  <2>2. sysfs = started
    BY <2>1 DEF RunInv, BeforeStarted, AfterLeft, CtlInv, CycleRestores, Exited
  <2>3. host.snap = host.before
    BY <2>1, <2>2, SameShown DEF RunInv, BeforeStarted, AfterLeft, VerdictOK
  <2> QED
    BY <2>2, <2>3 DEF RunInv, VerdictOK, Mismatches
<1> QED
  BY <1>1, RunInvariant, PTL

\* When the cycle run.py has waited for was not killed, each value it blames is on a rail
\* with a node whose accesses may fail.
THEOREM BlamesOnlyTheFaulty == RunSpec => []BlamesTheFaulty
<1>1. RunInv => BlamesTheFaulty
  <2> SUFFICES ASSUME RunInv, host.verdict = "FAIL", host.client = "ended", cli.code # 137,
                      NEW j \in Mismatches, Paths[j] \in Healthy
               PROVE  FALSE
    BY DEF BlamesTheFaulty
  <2>1. Cycling /\ Awaited
    BY DEF Cycling, Awaited, Judged
  <2>2. sysfs[Paths[j]] = started[Paths[j]]
    BY <2>1 DEF RunInv, AfterLeft, CtlInv, HealthyRestored, Exited
  <2>3. /\ Shows(host.before, started) /\ Shows(host.snap, sysfs)
        /\ Len(host.snap) = Len(host.before) /\ j \in DOMAIN host.before
    BY <2>1 DEF RunInv, BeforeStarted, AfterLeft, VerdictOK, Judged, Mismatches
  <2>4. j \in DOMAIN host.snap
    BY <2>3 DEF Shows
  <2>5. host.snap[j] = host.before[j]
    BY <2>2, <2>3, <2>4 DEF Shows
  <2> QED
    BY <2>5 DEF Mismatches
<1> QED
  BY <1>1, RunInvariant, PTL

-------------------------------------------------------------------------------
(* The cycle, for DuringShowsProfile: what it has selected and applied. *)

LEMMA SameApplied == (H!AppliedInv <=> HP!AppliedInv) /\ (H!AppliedInv' <=> HP!AppliedInv')
BY DEF
    H!AppliedInv, HP!AppliedInv, H!SelectionApart, HP!SelectionApart, H!Applying, HP!Applying,
    H!Applied, HP!Applied, H!NoOverlap, HP!NoOverlap, H!WritePc, HP!WritePc, H!Setting,
    HP!Setting, H!TargetHolds, HP!TargetHolds, H!TunableHolds, HP!TunableHolds, H!WantMin,
    HP!WantMin, H!WantMax, HP!WantMax, H!PathPresent, HP!PathPresent, H!Idle, HP!Idle

\* The controller moves inside a call of the process only.
LEMMA StepAt ==
  ASSUME CtlInv, Step
  PROVE  cli.pc \in {"applied", "unapplied", "leaving"} /\ ~Idle
<1>1. frame.pc # "dead" /\ frame.pc # "idle"
  <2>1. CASE Save
    BY <2>1 DEF Save, SaveMin, SaveMax, SaveRailsEnd, SaveTunable, SaveTunablesEnd, SaveFails
  <2>2. CASE Write
    BY <2>2 DEF Write, ApplyRail, WriteMinFirst, WriteMaxLast, WriteMaxFirst, WriteMinLast,
                RailsEnd, WriteTunable, SkipTunable, SetReturns, UnsetReturns, Destroyed,
                WritesEnd
  <2> QED
    BY <2>1, <2>2 DEF Step
<1> QED
  BY <1>1 DEF CtlInv, Stage, Idle

LEMMA StepKeeps ==
  ASSUME CtlInv, Step
  PROVE  /\ g_active_device' = g_active_device
         /\ Destroyed \/ impl'.selected_targets = impl.selected_targets
<1> DEFINE Kept == /\ g_active_device' = g_active_device
                   /\ impl'.selected_targets = impl.selected_targets
<1>1. impl \in H!ImplType
  BY DEF CtlInv, H!Inv, H!TypeOK
<1>2. CASE Save
  BY <1>2 DEF Save, SaveMin, SaveMax, SaveRailsEnd, SaveTunable, SaveTunablesEnd, SaveFails, Local
<1>3. CASE Write
  <2>1. CASE ApplyRail \/ RailsEnd \/ SkipTunable
    BY <2>1 DEF ApplyRail, RailsEnd, SkipTunable, Local
  <2>2. CASE \E path, value, next : WriteNode(path, value, next)
    BY <1>1, <2>2 DEF WriteNode, Commit, H!ImplType
  <2>3. CASE SetReturns \/ UnsetReturns \/ Destroyed
    BY <1>1, <2>3 DEF SetReturns, UnsetReturns, Destroyed, Commit, H!ImplType
  <2>4. WriteMinFirst \/ WriteMaxLast \/ WriteMaxFirst \/ WriteMinLast \/ WriteTunable =>
          \E path, value, next : WriteNode(path, value, next)
    BY DEF WriteMinFirst, WriteMaxLast, WriteMaxFirst, WriteMinLast, WriteTunable
  <2> QED
    BY <1>3, <2>1, <2>2, <2>3, <2>4 DEF Write
<1> QED
  BY <1>2, <1>3 DEF Step

\* To its controller, a step of the process is one of a caller, or none.
LEMMA CallerStep ==
  ASSUME CtlInv, CtlStep \/ Kill
  PROVE  Next \/ UNCHANGED vars
<1>1. LineTyped(cli) /\ LineOK
  BY DEF CtlInv, LineOK
<1>2. CASE SelectDevice
  BY <1>1, <1>2 DEF SelectDevice, LineTyped, Next, Call
<1>3. CASE UsageError \/ PrintTables \/ Probe \/ CmdAffinity \/ AffinityCall \/ AffinityDone
  BY <1>3 DEF UsageError, PrintTables, Probe, CmdAffinity, AffinityCall, AffinityDone, vars,
              SetThreadAffinity, ResetThreadAffinity, BuildMask, ApplyMask
<1>4. CASE ResolveProfile
  BY <1>1, <1>4 DEF ResolveProfile, LineTyped, At, CtlInv, Stage, Next, Call
<1>5. CASE MakeController \/ Apply \/ Applied \/ Unapply \/ Unapplied \/ Leave \/ Left
           \/ LibraryStep
  BY <1>5 DEF MakeController, Apply, Applied, Unapply, Unapplied, Leave, Left, LibraryStep, Next,
              Call
<1>6. CASE Kill
  BY <1>6 DEF Kill, Next
<1> QED
  BY <1>2, <1>3, <1>4, <1>5, <1>6 DEF CtlStep

\* What may happen on the device, whoever starts the process.
HostProcessMoves == (\E line : Launch(line)) \/ CtlStep \/ Kill \/ UNCHANGED cvars

LEMMA AppliedProcess ==
  ASSUME CtlInv, CtlInv', H!AppliedInv, HostProcessMoves
  PROVE  H!AppliedInv'
<1>1. CASE Next \/ UNCHANGED vars
  <2>1. [HP!Next]_HP!vars
    BY <1>1, SameNext DEF vars, HP!vars
  <2>2. HP!Inv /\ HP!Inv' /\ HP!AppliedInv
    BY SameInv, SameApplied DEF CtlInv
  <2> QED
    BY <2>1, <2>2, SameApplied, SameAssumptions, HP!StepApplied
<1>2. CASE \E line : Launch(line)
  <2>1. frame'.pc = "dead" /\ impl' = NewImpl
    BY <1>2, ControllerFacts DEF CtlInv, Stage, Launch, At, Dead, Enter
  <2> QED
    BY <2>1
    DEF NewImpl, H!AppliedInv, H!SelectionApart, H!Applying, H!Applied, H!NoOverlap, H!WritePc,
        H!Idle
<1>3. UNCHANGED cvars => UNCHANGED vars
  BY DEF cvars
<1> QED
  BY <1>1, <1>2, <1>3, CallerStep DEF HostProcessMoves

\* What the steps of the process do to its own state.
LEMMA ProcessGoes ==
  ASSUME CtlInv, CtlStep \/ Kill
  PROVE  \/ At("main") /\ cli'.pc \in {"command", "exited"}
         \/ /\ cli.pc \notin {"main", "exited"} /\ cli'.pc # "main"
            /\ g_active_device' = g_active_device
         \/ cli'.pc = "exited" /\ cli'.code = 137
<1>1. LineOK
  BY DEF CtlInv
<1>2. CASE SelectDevice
  BY <1>1, <1>2 DEF SelectDevice, Goto, Result, LineOK, At
<1>3. CASE UsageError \/ PrintTables \/ Probe \/ CmdAffinity \/ AffinityCall \/ AffinityDone
  <2>1. UNCHANGED g_active_device
    BY <1>3 DEF UsageError, PrintTables, Probe, CmdAffinity, AffinityCall, AffinityDone, vars,
                SetThreadAffinity, ResetThreadAffinity, BuildMask, ApplyMask
  <2> QED
    BY <1>1, <1>3, <2>1
    DEF UsageError, PrintTables, Probe, CmdAffinity, AffinityCall, AffinityDone, Goto, Result,
        LineOK, At
<1>4. CASE MakeController \/ ResolveProfile \/ Apply \/ Applied
  BY <1>1, <1>4
  DEF MakeController, Construct, Local, ResolveProfile, SetFrequencyMode, SetFrequencyCustomId,
      Select, Apply, SetClocks, Applied, vars, Goto, Result, LineOK, At
<1>5. CASE Unapply \/ Unapplied \/ Leave \/ Left
  BY <1>1, <1>5
  DEF Unapply, UnsetClocks, Local, Unapplied, Leave, Destroy, Left, vars, Goto, Result, LineOK, At
<1>6. CASE LibraryStep
  BY <1>6, StepAt, StepKeeps DEF LibraryStep
<1>7. CASE Kill
  BY <1>1, <1>7 DEF Kill, LineOK
<1> QED
  BY <1>2, <1>3, <1>4, <1>5, <1>6, <1>7 DEF CtlStep

LEMMA SameTable ==
  ASSUME g_active_device' = g_active_device
  PROVE  GetDeviceConfig' = GetDeviceConfig
<1>1. FindEntry(g_active_device)' = FindEntry(g_active_device)
  BY DEF FindEntry, SelectInSeq
<1> QED
  BY <1>1 DEF GetDeviceConfig

LEMMA ChosenProcess ==
  ASSUME CtlInv, DeviceChosen, CtlStep \/ Kill
  PROVE  DeviceChosen'
<1>1. cli'.device = cli.device
  BY DeviceKeeps
<1>2. CASE SelectDevice
  <2>1. At("main") /\ g_active_device = kDeviceRegistry[1].device
    BY <1>2 DEF SelectDevice, DeviceChosen
  <2>2. CASE cli.device = NoSoc /\ Goto("command") /\ UNCHANGED vars
    BY <1>1, <2>1, <2>2 DEF Goto, vars, DeviceChosen, ChosenDevice, At, CtlInv, LineOK
  <2>3. CASE cli.device # NoSoc /\ SetActiveDeviceByName(cli.device) /\ FindName(cli.device) # 0
             /\ Goto("command")
    BY <1>1, <2>3
    DEF SetActiveDeviceByName, ActivateDeviceByName, Goto, DeviceChosen, ChosenDevice, At, CtlInv,
        LineOK
  <2>4. CASE Result("exited", FALSE)
    BY <2>4 DEF Result, DeviceChosen, At, CtlInv, LineOK
  <2> QED
    BY <1>2, <2>2, <2>3, <2>4 DEF SelectDevice
<1>3. CASE ~At("main") /\ CtlStep
  BY <1>1, <1>3, ProcessGoes DEF DeviceChosen, ChosenDevice, At
<1>4. CASE Kill
  BY <1>4 DEF Kill, DeviceChosen, At, CtlInv, LineOK
<1>5. At("main") /\ CtlStep => SelectDevice
  BY StepAt
  DEF CtlStep, UsageError, MakeController, ResolveProfile, Apply, Applied, Unapply, Unapplied,
      Leave, Left, PrintTables, Probe, CmdAffinity, AffinityCall, AffinityDone, LibraryStep, At
<1> QED
  BY <1>2, <1>3, <1>4, <1>5

LEMMA ModeFound ==
  ASSUME NEW mode, GetDeviceConfig \in Config, FindMode(mode) # 0
  PROVE  /\ FindMode(mode) \in DOMAIN GetDeviceConfig.modes
         /\ GetDeviceConfig.modes[FindMode(mode)].mode = mode
<1> DEFINE modes == GetDeviceConfig.modes
           I == {i \in 1..Len(modes) : modes[i].mode = mode}
<1>1. FindMode(mode) = IF I # {} THEN Min(I) ELSE 0
  BY DEF FindMode, SelectInSeq
<1>2. I \subseteq 1..Len(modes) /\ modes \in Seq(ModeProfile)
  BY DEF Config
<1>3. FindMode(mode) \in DOMAIN modes /\ FindMode(mode) \in I
  <2> HIDE DEF I, modes
  <2> QED
    BY <1>1, <1>2, SelectedIndex
<1> QED
  BY <1>3

LEMMA CustomFound ==
  ASSUME NEW id, GetDeviceConfig \in Config, FindCustom(id) # 0
  PROVE  /\ FindCustom(id) \in DOMAIN GetDeviceConfig.custom_profiles
         /\ GetDeviceConfig.custom_profiles[FindCustom(id)].id = id
<1> DEFINE profiles == GetDeviceConfig.custom_profiles
           I == {i \in 1..Len(profiles) : profiles[i].id = id}
<1>1. FindCustom(id) = IF I # {} THEN Min(I) ELSE 0
  BY DEF FindCustom, SelectInSeq
<1>2. I \subseteq 1..Len(profiles) /\ profiles \in Seq(CustomProfile)
  BY DEF Config
<1>3. FindCustom(id) \in DOMAIN profiles /\ FindCustom(id) \in I
  <2> HIDE DEF I, profiles
  <2> QED
    BY <1>1, <1>2, SelectedIndex
<1> QED
  BY <1>3

\* The table of the active device.
LEMMA ActiveTable ==
  ASSUME CtlInv
  PROVE  /\ FindEntry(g_active_device) \in DOMAIN kDeviceRegistry
         /\ GetDeviceConfig \in Config
<1>1. ~GetDeviceConfigAborts
  BY DEF CtlInv, H!Inv, H!NeverAborts, H!GetDeviceConfigAborts, GetDeviceConfigAborts,
         FindEntry, H!FindEntry, SelectInSeq, H!SelectInSeq, Min, H!Min
<1> QED
  BY <1>1, ActiveConfig

LEMMA SelectedProcess ==
  ASSUME CtlInv, ProfileSelected, CtlStep \/ Kill
  PROVE  ProfileSelected'
<1>1. cli'.arg = cli.arg /\ LineOK /\ impl \in H!ImplType
  BY DeviceKeeps DEF CtlInv, H!Inv, H!TypeOK
<1>2. CASE cli'.pc \notin {"apply", "applied", "sleep"}
  BY <1>2 DEF ProfileSelected, At
<1>3. CASE ResolveProfile /\ cli'.pc = "apply"
  <2>1. GetDeviceConfig' = GetDeviceConfig
    BY <1>3, SameTable DEF ResolveProfile, SetFrequencyMode, SetFrequencyCustomId, Select, vars
  <2>2. CASE cli.arg.kind = "mode" /\ SetFrequencyMode(cli.arg.mode) /\ frame'.ok
    <3> DEFINE k == FindMode(cli.arg.mode)
    <3>1. k # 0 /\ impl'.selected_targets = GetDeviceConfig.modes[k].targets
      BY <1>1, <2>2 DEF SetFrequencyMode, Select, Returned, Enter, H!ImplType
    <3>2. k \in DOMAIN GetDeviceConfig.modes /\ GetDeviceConfig.modes[k].mode = cli.arg.mode
      BY <3>1, ActiveTable, ModeFound
    <3> HIDE DEF k
    <3> QED
      BY <1>1, <1>3, <2>1, <2>2, <3>1, <3>2 DEF ProfileSelected, At
  <2>3. CASE cli.arg.kind = "number" /\ SetFrequencyCustomId(cli.arg.number % Width) /\ frame'.ok
    <3> DEFINE id == cli.arg.number % Width
               k == FindCustom(id)
    <3>1. k # 0 /\ impl'.selected_targets = GetDeviceConfig.custom_profiles[k].targets
      BY <1>1, <2>3 DEF SetFrequencyCustomId, Select, Returned, Enter, H!ImplType
    <3>2. /\ k \in DOMAIN GetDeviceConfig.custom_profiles
          /\ GetDeviceConfig.custom_profiles[k].id = id
      BY <3>1, ActiveTable, CustomFound
    <3> HIDE DEF k
    <3> QED
      BY <1>1, <1>3, <2>1, <2>3, <3>1, <3>2 DEF ProfileSelected, At
  <2>4. frame'.ok /\ ~(Result("leave", FALSE) /\ UNCHANGED vars)
    BY <1>1, <1>3 DEF ResolveProfile, Result, LineOK
  <2> QED
    BY <1>3, <2>2, <2>3, <2>4 DEF ResolveProfile
<1>4. CASE /\ UNCHANGED <<g_active_device, impl>>
           /\ cli.pc \in {"apply", "applied"} /\ cli'.pc \in {"applied", "sleep"}
           /\ cli'.pc = "sleep" => frame'.op = "set" /\ frame'.ok
  <2>1. GetDeviceConfig' = GetDeviceConfig
    BY <1>4, SameTable
  <2> QED
    BY <1>1, <1>4, <2>1 DEF ProfileSelected, At
<1>5. CASE Apply
  BY <1>1, <1>4, <1>5 DEF Apply, SetClocks, Goto, At, LineOK
<1>6. CASE Applied
  <2>1. cli.pc = "applied" /\ frame.op = "set" /\ UNCHANGED vars
    BY <1>6 DEF Applied, At, CtlInv, Stage
  <2>2. cli'.pc = (IF cli.cmd = "cycle" /\ frame.ok THEN "sleep" ELSE "leave")
    BY <1>1, <1>6 DEF Applied, Result, LineOK
  <2> QED
    BY <1>2, <1>4, <2>1, <2>2 DEF vars
<1>7. CASE LibraryStep
  <2>1. cli' = cli /\ Step
    BY <1>7 DEF LibraryStep
  <2>2. CASE cli.pc = "applied"
    <3>1. ~Destroyed
      BY <2>2 DEF Destroyed, CtlInv, Stage
    <3>2. GetDeviceConfig' = GetDeviceConfig /\ impl'.selected_targets = impl.selected_targets
      BY <2>1, <3>1, StepKeeps, SameTable
    <3> QED
      BY <2>1, <2>2, <3>2 DEF ProfileSelected, At
  <2> QED
    BY <1>2, <2>1, <2>2, StepAt
<1>8. CASE ResolveProfile /\ cli'.pc # "apply"
  BY <1>1, <1>2, <1>8 DEF ResolveProfile, Result, LineOK
<1>9. CASE SelectDevice \/ UsageError \/ PrintTables \/ Probe \/ CmdAffinity \/ AffinityCall
           \/ AffinityDone \/ MakeController
  <2>1. cli'.pc \in {"command", "exited", "affinity", "resolve"}
    BY <1>1, <1>9
    DEF SelectDevice, UsageError, PrintTables, Probe, CmdAffinity, AffinityCall, AffinityDone,
        MakeController, Goto, Result, LineOK, At
  <2> QED
    BY <1>2, <2>1
<1>10. CASE Unapply \/ Unapplied \/ Leave \/ Left \/ Kill
  <2>1. cli'.pc \in {"unapplied", "leave", "leaving", "exited"}
    BY <1>1, <1>10 DEF Unapply, Unapplied, Leave, Left, Kill, Goto, Result, LineOK
  <2> QED
    BY <1>2, <2>1
<1> QED
  BY <1>3, <1>5, <1>6, <1>7, <1>8, <1>9, <1>10 DEF CtlStep

LEMMA CycleShown ==
  ASSUME CtlInv, CtlInv', H!AppliedInv, DeviceChosen, ProfileSelected, HostProcessMoves
  PROVE  (H!AppliedInv /\ DeviceChosen /\ ProfileSelected)'
<1>1. CASE \E line : Launch(line)
  <2>1. cli'.pc = "main" /\ g_active_device' = kDeviceRegistry[1].device
    BY <1>1 DEF Launch
  <2> QED
    BY <2>1, AppliedProcess DEF DeviceChosen, ProfileSelected, At
<1>2. CASE UNCHANGED cvars
  <2>1. UNCHANGED <<g_active_device, impl, frame, cli>>
    BY <1>2 DEF cvars, vars
  <2>2. GetDeviceConfig' = GetDeviceConfig
    BY <2>1, SameTable
  <2> QED
    BY <2>1, <2>2, AppliedProcess DEF DeviceChosen, ProfileSelected, At
<1> QED
  BY <1>1, <1>2, AppliedProcess, ChosenProcess, SelectedProcess DEF HostProcessMoves

-------------------------------------------------------------------------------
(* The rails the script watches. *)

LEMMA PathsLen ==
  ASSUME host.rails \in Seq(RailTarget)
  PROVE  Len(Paths) = 2 * Len(host.rails) /\ Len(host.rails) \in Nat
<1>1. Len(host.rails) \in Nat
  OBVIOUS
<1> DEFINE N == 2 * Len(host.rails)
<1>2. N \in Nat /\ DOMAIN Paths = 1..N
  BY <1>1 DEF Paths
<1> HIDE DEF N
<1>3. Len(Paths) = N
  BY <1>2
<1> QED
  BY <1>1, <1>3 DEF N

LEMMA Halves ==
  ASSUME NEW j \in Nat, NEW len \in Nat, 1 <= j, j <= len
  PROVE  /\ 2 * j - 1 \in 1..2 * len /\ 2 * j \in 1..2 * len
         /\ (2 * j - 1) % 2 = 1 /\ (2 * j) % 2 # 1
         /\ ((2 * j - 1) + 1) \div 2 = j /\ (2 * j) \div 2 = j
<1>1. 2 * j - 1 \in 1..2 * len /\ 2 * j \in 1..2 * len
  OBVIOUS
<1>2. (2 * j - 1) % 2 = 1 /\ (2 * j) % 2 # 1
  OBVIOUS
<1>3. (2 * j) \div 2 = j
  OBVIOUS
<1>4. (2 * j - 1) + 1 = 2 * j
  OBVIOUS
<1> QED
  BY <1>1, <1>2, <1>3, <1>4

LEMMA RailPaths ==
  ASSUME host.rails \in Seq(RailTarget), NEW j \in DOMAIN host.rails
  PROVE  Paths[2 * j - 1] = host.rails[j].min_path /\ Paths[2 * j] = host.rails[j].max_path
<1>1. Len(host.rails) \in Nat /\ j \in 1..Len(host.rails)
  OBVIOUS
<1>2. /\ 2 * j - 1 \in 1..2 * Len(host.rails) /\ 2 * j \in 1..2 * Len(host.rails)
      /\ (2 * j - 1) % 2 = 1 /\ (2 * j) % 2 # 1
      /\ ((2 * j - 1) + 1) \div 2 = j /\ (2 * j) \div 2 = j
  <2>1. j \in Nat /\ 1 <= j /\ j <= Len(host.rails)
    BY <1>1
  <2> QED
    BY <1>1, <2>1, Halves
<1> QED
  BY <1>2 DEF Paths

LEMMA PathTyped ==
  ASSUME host.rails \in Seq(RailTarget), NEW n \in 1..Len(Paths)
  PROVE  Paths[n] \in Path \cup {NoPath}
<1>1. n \in 1..2 * Len(host.rails) /\ Len(host.rails) \in Nat
  BY PathsLen
<1>2. \A j \in 1..Len(host.rails) : host.rails[j] \in RailTarget
  OBVIOUS
<1>3. CASE n % 2 = 1
  <2>1. (n + 1) \div 2 \in 1..Len(host.rails)
    BY <1>1, <1>3
  <2> QED
    BY <1>1, <1>2, <1>3, <2>1 DEF Paths, RailTarget
<1>4. CASE n % 2 # 1
  <2>1. n \div 2 \in 1..Len(host.rails)
    BY <1>1, <1>4
  <2> QED
    BY <1>1, <1>2, <1>4, <2>1 DEF Paths, RailTarget
<1> QED
  BY <1>3, <1>4

LEMMA ConcatAt ==
  ASSUME NEW S, NEW T, NEW a \in Seq(S), NEW b \in Seq(T), NEW j \in 1..Len(a \o b)
  PROVE  /\ Len(a) \in Nat /\ j \in Nat
         /\ j <= Len(a) => j \in DOMAIN a /\ (a \o b)[j] = a[j]
         /\ j > Len(a) => j - Len(a) \in DOMAIN b /\ (a \o b)[j] = b[j - Len(a)]
<1>1. a \in Seq(S \cup T) /\ b \in Seq(S \cup T)
  OBVIOUS
<1>2. Len(a \o b) = Len(a) + Len(b) /\ Len(a) \in Nat /\ Len(b) \in Nat
  BY <1>1
<1>3. j \in 1..Len(a) + Len(b)
  BY <1>2
<1> QED
  BY <1>1, <1>2, <1>3

\* A header that matches announces rails of the profile.
LEMMA ListedProfile ==
  ASSUME CtlInv, NEW j \in 1..Len(Listing), InTarget(j)
  PROVE  /\ Listing[j].targets \in Matching(GetDeviceConfig, host.line.arg)
         /\ Listing[j].targets \in Seq(RailTarget)
<1> DEFINE modes == GetDeviceConfig.modes
           customs == GetDeviceConfig.custom_profiles
           k == j - Len(modes)
<1>1. modes \in Seq(ModeProfile) /\ customs \in Seq(CustomProfile)
  BY ActiveTable DEF Config
<1>2. /\ Len(modes) \in Nat /\ j \in Nat
      /\ j <= Len(modes) => j \in DOMAIN modes /\ Listing[j] = modes[j]
      /\ j > Len(modes) => k \in DOMAIN customs /\ Listing[j] = customs[k]
  <2> HIDE DEF modes, customs
  <2>1. Listing = modes \o customs
    BY DEF Listing, modes, customs
  <2> QED
    BY <1>1, <2>1, ConcatAt
<1>3. CASE j <= Len(modes)
  <2>1. /\ j \in DOMAIN modes /\ Listing[j] = modes[j] /\ modes[j] \in ModeProfile
        /\ ~(j > Len(modes))
    BY <1>1, <1>2, <1>3
  <2>2. host.line.arg.kind = "mode" /\ modes[j].mode = host.line.arg.mode
    BY <2>1 DEF InTarget
  <2>3. j \in {n \in DOMAIN modes : host.line.arg.kind = "mode" /\ modes[n].mode = host.line.arg.mode}
    BY <2>1, <2>2
  <2>4. modes[j].targets \in Matching(GetDeviceConfig, host.line.arg)
    BY <2>3 DEF Matching
  <2> QED
    BY <2>1, <2>4 DEF ModeProfile
<1>4. CASE j > Len(modes)
  <2>1. k \in DOMAIN customs /\ Listing[j] = customs[k] /\ customs[k] \in CustomProfile
    BY <1>1, <1>2, <1>4
  <2>2. \/ host.line.arg.kind = "number" /\ customs[k].id = host.line.arg.number
        \/ host.line.arg.kind = "name" /\ customs[k].id = host.line.arg.id
    BY <1>4, <2>1 DEF InTarget
  <2> HIDE DEF k
  <2>3. customs[k].targets \in Matching(GetDeviceConfig, host.line.arg)
    BY <2>1, <2>2 DEF Matching
  <2> QED
    BY <2>1, <2>3 DEF CustomProfile
<1> QED
  BY <1>2, <1>3, <1>4

\* In the sleep the profile that is selected is the only one that is announced.
LEMMA OneProfile ==
  ASSUME CtlInv, ProfileSelected, At("sleep"), NEW T \in Matching(GetDeviceConfig, cli.arg)
  PROVE  impl.selected_targets = T
<1> DEFINE modes == GetDeviceConfig.modes
           customs == GetDeviceConfig.custom_profiles
<1>1. PICK e \in DOMAIN kDeviceRegistry : GetDeviceConfig = kDeviceRegistry[e].config
  BY ActiveTable DEF GetDeviceConfig
<1>2. /\ \A i, j \in DOMAIN modes : modes[i].mode = modes[j].mode => i = j
      /\ \A i, j \in DOMAIN customs : customs[i].id = customs[j].id => i = j
      /\ \A j \in DOMAIN customs : customs[j].id < Width
  BY <1>1, ProfilesDistinct
<1>3. \A j \in DOMAIN customs : customs[j].id \in Nat
  <2>1. customs \in Seq(CustomProfile)
    BY ActiveTable DEF Config
  <2> HIDE DEF customs
  <2>2. \A j \in DOMAIN customs : customs[j] \in CustomProfile
    BY <2>1
  <2> QED
    BY <2>2 DEF CustomProfile
<1> HIDE DEF modes, customs
<1>4. CASE cli.arg.kind = "mode"
  <2>1. PICK j \in DOMAIN modes :
          modes[j].mode = cli.arg.mode /\ impl.selected_targets = modes[j].targets
    BY <1>4 DEF ProfileSelected, At, modes
  <2>2. PICK k \in DOMAIN modes : modes[k].mode = cli.arg.mode /\ T = modes[k].targets
    BY <1>4 DEF Matching, modes
  <2>3. j = k
    BY <1>2, <2>1, <2>2
  <2> QED
    BY <2>1, <2>2, <2>3
<1>5. CASE cli.arg.kind = "number"
  <2>1. PICK j \in DOMAIN customs :
          customs[j].id = cli.arg.number % Width /\ impl.selected_targets = customs[j].targets
    BY <1>5 DEF ProfileSelected, At, customs
  <2>2. PICK k \in DOMAIN customs : customs[k].id = cli.arg.number /\ T = customs[k].targets
    BY <1>5 DEF Matching, customs
  <2>3. cli.arg.number % Width = cli.arg.number
    BY <1>2, <1>3, <2>2, FreqCtlAssumption
  <2>4. j = k
    BY <1>2, <2>1, <2>2, <2>3
  <2> QED
    BY <2>1, <2>2, <2>4
<1> QED
  BY <1>4, <1>5 DEF ProfileSelected, At

\* While the script watches a cycle that sleeps, its rails hold the announced values.
LEMMA SleepShows ==
  ASSUME CtlInv, ShownInv, At("sleep"), HostAt("during"), NEW r \in DOMAIN host.rails
  PROVE  /\ WantMin(host.rails[r]) => sysfs[host.rails[r].min_path] = host.rails[r].min_khz
         /\ WantMax(host.rails[r]) => sysfs[host.rails[r].max_path] = host.rails[r].max_khz
<1>1. cli.device = host.line.device /\ cli.arg = host.line.arg
  BY DEF ShownInv, Launched, HostAt
<1>2. g_active_device = ChosenDevice(host.line.device)
  BY <1>1 DEF ShownInv, DeviceChosen, At
<1>3. PICK T \in Announced(host.line) : host.rails[r] \in {T[k] : k \in DOMAIN T}
  BY DEF ShownInv, RailsListed, HostAt
<1>4. T \in Matching(GetDeviceConfig, cli.arg)
  BY <1>1, <1>2, <1>3 DEF Announced, GetDeviceConfig
<1>5. impl.selected_targets = T
  BY <1>4, OneProfile DEF ShownInv
<1>6. Idle /\ frame.op = "set" /\ frame.ok
  BY DEF ShownInv, ProfileSelected, CtlInv, Stage, At
<1>7. \A k \in DOMAIN T : H!TargetHolds(T[k], sysfs)
  BY <1>5, <1>6 DEF ShownInv, H!AppliedInv, H!Applied, H!Idle, Idle
<1> QED
  BY <1>3, <1>7
  DEF H!TargetHolds, H!WantMin, WantMin, H!WantMax, WantMax, H!PathPresent, PathPresent

-------------------------------------------------------------------------------
(* What the script holds: the four parts of ShownInv about host. *)

HostShown == HostTyped /\ Launched /\ RailsListed /\ HeldShows

\* The device, or nothing, moves; or only the host's place, client and verdict change.
LEMMA ShownStays ==
  ASSUME RunInv, RunInv', HostShown, CtlStep \/ Kill \/ UNCHANGED cvars,
         host' = [host EXCEPT !.pc = host'.pc, !.client = host'.client, !.verdict = host'.verdict],
         host'.pc \in {"push", "list", "listing", "before"} =>
           host.pc \in {"push", "list", "listing", "before"},
         host'.pc \in {"listing", "during"} => host.pc = host'.pc,
         host.pc = "off" => host'.pc = "off",
         host'.client \in {"none", "attached", "ended", "lost"},
         host'.verdict \in {"none", "PASS", "FAIL"}
  PROVE  HostShown'
<1>1. /\ host'.line = host.line /\ host'.rails = host.rails /\ host'.parsed = host.parsed
      /\ host'.snap = host.snap /\ host'.before = host.before /\ host'.held = host.held
  BY DEF RunInv, HostStage
<1>2. HostTyped'
  BY <1>1, SamePaths DEF HostShown, HostTyped
<1>3. cli'.device = cli.device /\ cli'.arg = cli.arg
  BY DeviceKeeps DEF RunInv, cvars
<1>4. Launched'
  BY <1>1, <1>3 DEF HostShown, Launched
<1>5. RailsListed'
  BY <1>1 DEF HostShown, RailsListed, HostAt
<1>6. HeldShows'
  BY <1>1 DEF HostShown, HeldShows, HostAt
<1> QED
  BY <1>2, <1>4, <1>5, <1>6 DEF HostShown

LEMMA EmptySeq == ASSUME NEW S PROVE <<>> \in Seq(S)
OBVIOUS

LEMMA ShownStarts ==
  ASSUME RunInv, NEW line \in Invocation, Start(line)
  PROVE  HostShown'
<1>1. /\ host' = [Off EXCEPT !.pc = "push", !.line = line]
      /\ host'.pc = "push" /\ host'.rails = <<>> /\ host'.snap = <<>> /\ host'.before = <<>>
      /\ host'.parsed = 0 /\ host'.client = "none" /\ host'.verdict = "none"
  BY DEF Start, Off
<1>2. Len(Paths)' \in Nat
  BY <1>1 DEF Paths
<1>3. HostTyped'
  <2>1. host'.rails \in Seq(RailTarget) /\ host'.snap \in Seq(Nat) /\ host'.before \in Seq(Nat)
    BY <1>1, EmptySeq
  <2>2. Len(host'.snap) <= Len(Paths)'
    BY <1>1, <1>2
  <2> QED
    BY <1>1, <2>1, <2>2 DEF HostTyped
<1> QED
  BY <1>1, <1>3 DEF HostShown, Launched, RailsListed, HeldShows, HostAt

LEMMA ShownParses ==
  ASSUME RunInv, ShownInv, ParseProfile
  PROVE  HostShown'
<1> DEFINE j == host.parsed + 1
<1>1. /\ host.pc = "listing" /\ cli.code = 0 /\ At("exited") /\ UNCHANGED cvars
      /\ host' = [host EXCEPT !.parsed = j,
                             !.rails = IF InTarget(j) THEN @ \o Listing[j].targets ELSE @]
  BY DEF ParseProfile, Listed, HostAt
<1>2. /\ host'.pc = "listing" /\ host'.line = host.line /\ host'.parsed = j
      /\ host'.rails = IF InTarget(j) THEN host.rails \o Listing[j].targets ELSE host.rails
      /\ host'.snap = <<>> /\ host'.before = <<>>
      /\ host'.client = host.client /\ host'.verdict = host.verdict
  BY <1>1 DEF RunInv, HostStage, ShownInv, HostTyped
<1>3. Announced(host.line) = Matching(GetDeviceConfig, host.line.arg)
  BY <1>1 DEF ShownInv, DeviceChosen, Launched, Announced, GetDeviceConfig, At
<1>4. InTarget(j) => /\ Listing[j].targets \in Announced(host.line)
                     /\ Listing[j].targets \in Seq(RailTarget)
  <2>1. j \in 1..Len(Listing)
    BY DEF ParseProfile, Parsed, ShownInv, HostTyped
  <2> QED
    BY <1>3, <2>1, ListedProfile DEF RunInv
<1>5. HostTyped'
  <2>1. host'.rails \in Seq(RailTarget) /\ host'.parsed \in Nat
    BY <1>2, <1>4 DEF ShownInv, HostTyped
  <2>2. Len(host'.snap) <= Len(Paths)'
    BY <1>2, <2>1, PathsLen
  <2> QED
    BY <1>2, <2>1, <2>2 DEF ShownInv, HostTyped
<1>6. RailsListed'
  <2> SUFFICES ASSUME NEW r \in DOMAIN host'.rails
               PROVE  \E T \in Announced(host.line) : host'.rails[r] \in {T[k] : k \in DOMAIN T}
    BY <1>2 DEF RailsListed
  <2>1. CASE r \in DOMAIN host.rails /\ host'.rails[r] = host.rails[r]
    BY <1>1, <2>1 DEF ShownInv, RailsListed, HostAt
  <2>2. CASE InTarget(j) /\ \E k \in DOMAIN Listing[j].targets : host'.rails[r] = Listing[j].targets[k]
    BY <1>4, <2>2
  <2>3. CASE InTarget(j)
    <3> DEFINE targets == Listing[j].targets
    <3>1. /\ host.rails \in Seq(RailTarget) /\ targets \in Seq(RailTarget)
          /\ host'.rails = host.rails \o targets
      BY <1>2, <1>4, <2>3 DEF ShownInv, HostTyped
    <3>2. \/ r \in DOMAIN host.rails /\ host'.rails[r] = host.rails[r]
          \/ \E k \in DOMAIN targets : host'.rails[r] = targets[k]
      <4> HIDE DEF targets
      <4> DEFINE both == host.rails \o targets
      <4>1. both \in Seq(RailTarget) /\ host'.rails = both
        BY <3>1
      <4>2. r \in 1..Len(both)
        <5> HIDE DEF both
        <5> QED  BY <4>1
      <4>3. r <= Len(host.rails) \/ r > Len(host.rails)
        BY <3>1, <4>2
      <4> QED
        BY <3>1, <4>2, <4>3, ConcatAt
    <3> QED
      BY <2>1, <2>2, <2>3, <3>2
  <2> QED
    BY <1>2, <2>1, <2>3
<1>7. Launched' /\ HeldShows'
  BY <1>1, <1>2 DEF ShownInv, Launched, HeldShows, HostAt, cvars
<1> QED
  BY <1>5, <1>6, <1>7 DEF HostShown

LEMMA ShownReads ==
  ASSUME RunInv, ShownInv, ReadNode
  PROVE  HostShown'
<1> DEFINE n == Len(host.snap) + 1
<1>1. /\ host.pc \in {"before", "during", "after"} /\ Len(host.snap) # Len(Paths)
      /\ UNCHANGED cvars /\ PathPresent(Paths[n])
      /\ host' = [host EXCEPT !.snap = Append(@, sysfs[Paths[n]]), !.held = host'.held]
      /\ host'.held => host.held /\ (HostAt("during") => At("sleep"))
  BY DEF ReadNode, Reading, SnapshotTaken, NextPath, RunInv, HostStage
<1>2. /\ host'.pc = host.pc /\ host'.line = host.line /\ host'.rails = host.rails
      /\ host'.parsed = host.parsed /\ host'.before = host.before
      /\ host'.client = host.client /\ host'.verdict = host.verdict
      /\ host'.snap = Append(host.snap, sysfs[Paths[n]])
  BY <1>1 DEF RunInv, HostStage
<1>3. /\ host.rails \in Seq(RailTarget) /\ host.snap \in Seq(Nat) /\ n \in 1..Len(Paths)
  BY <1>1, PathsLen DEF ShownInv, HostTyped
<1>4. sysfs[Paths[n]] \in Nat
  <2>1. sysfs \in [Path -> Nat]
    BY DEF RunInv, CtlInv, H!Inv, H!TypeOK
  <2>2. Paths[n] \in Path
    BY <1>1, <1>3, PathTyped DEF PathPresent
  <2> QED
    BY <2>1, <2>2
<1>5. /\ host'.snap \in Seq(Nat) /\ Len(host'.snap) = n /\ DOMAIN host'.snap = 1..n
      /\ host'.snap[n] = sysfs[Paths[n]]
      /\ \A j \in 1..n : j # n => j \in DOMAIN host.snap /\ host'.snap[j] = host.snap[j]
  BY <1>2, <1>3, <1>4
<1>6. HostTyped'
  BY <1>2, <1>3, <1>5, SamePaths DEF ShownInv, HostTyped
<1>7. Launched' /\ RailsListed'
  BY <1>1, <1>2 DEF ShownInv, Launched, RailsListed, HostAt, cvars
<1>8. HeldShows'
  <2> SUFFICES ASSUME host.pc = "during", host'.held, NEW j \in DOMAIN host.rails
               PROVE  /\ WantMin(host.rails[j]) /\ 2 * j - 1 \in DOMAIN host'.snap =>
                           host'.snap[2 * j - 1] = host.rails[j].min_khz
                      /\ WantMax(host.rails[j]) /\ 2 * j \in DOMAIN host'.snap =>
                           host'.snap[2 * j] = host.rails[j].max_khz
    BY <1>2 DEF HeldShows, HostAt
  <2>1. host.held /\ At("sleep")
    BY <1>1 DEF HostAt
  <2>2. /\ WantMin(host.rails[j]) => sysfs[Paths[2 * j - 1]] = host.rails[j].min_khz
        /\ WantMax(host.rails[j]) => sysfs[Paths[2 * j]] = host.rails[j].max_khz
    BY <1>3, <2>1, SleepShows, RailPaths DEF RunInv, HostAt
  <2>3. /\ WantMin(host.rails[j]) /\ 2 * j - 1 \in DOMAIN host.snap =>
             host.snap[2 * j - 1] = host.rails[j].min_khz
        /\ WantMax(host.rails[j]) /\ 2 * j \in DOMAIN host.snap =>
             host.snap[2 * j] = host.rails[j].max_khz
    BY <2>1 DEF ShownInv, HeldShows, HostAt
  <2>4. ASSUME NEW i \in DOMAIN host'.snap
        PROVE  \/ i = n /\ host'.snap[i] = sysfs[Paths[i]]
               \/ i \in DOMAIN host.snap /\ host'.snap[i] = host.snap[i]
    BY <1>5
  <2> QED
    BY <2>2, <2>3, <2>4
<1> QED
  BY <1>6, <1>7, <1>8 DEF HostShown

LEMMA ShownLaunches ==
  ASSUME RunInv, ShownInv, FreqCtlList \/ SpawnCycle
  PROVE  HostShown' /\ \E line : Launch(line)
<1>1. host.line = [cmd |-> "cycle", device |-> host.line.device, arg |-> host.line.arg]
  BY RunLineAssumption DEF FreqCtlList, SpawnCycle, HostAt, RunInv, HostStage
<1>2. PICK cmd \in {"list", "cycle"} : Launch([host.line EXCEPT !.cmd = cmd])
  BY DEF FreqCtlList, SpawnCycle
<1>3. cli'.device = host.line.device /\ cli'.arg = host.line.arg
  BY <1>1, <1>2 DEF Launch
<1>4. CASE FreqCtlList
  <2>1. /\ host.pc = "list" /\ host'.pc = "listing" /\ host' = [host EXCEPT !.pc = host'.pc]
        /\ host'.line = host.line /\ host'.rails = host.rails /\ host'.parsed = host.parsed
        /\ host'.before = host.before /\ host'.snap = host.snap
        /\ host'.client = host.client /\ host'.verdict = host.verdict
    BY <1>4 DEF FreqCtlList, HostAt, RunInv, HostStage
  <2>2. HostTyped'
    BY <2>1, SamePaths DEF ShownInv, HostTyped
  <2> QED
    BY <1>2, <1>3, <2>1, <2>2 DEF ShownInv, HostShown, Launched, RailsListed, HeldShows, HostAt
<1>5. CASE SpawnCycle
  <2>1. /\ host.pc = "before" /\ Len(host.snap) = Len(Paths) /\ host'.pc = "during"
        /\ host'.line = host.line /\ host'.rails = host.rails /\ host'.parsed = host.parsed
        /\ host'.before = host.snap /\ host'.snap = <<>>
        /\ host'.client = "attached" /\ host'.verdict = host.verdict
    BY <1>5 DEF SpawnCycle, HostAt, SnapshotTaken, RunInv, HostStage
  <2>2. Len(Paths) \in Nat /\ Paths' = Paths
    BY <2>1, PathsLen, SamePaths DEF ShownInv, HostTyped
  <2>3. HostTyped'
    BY <2>1, <2>2 DEF ShownInv, HostTyped
  <2> QED
    BY <1>2, <1>3, <2>1, <2>3 DEF ShownInv, HostShown, Launched, RailsListed, HeldShows, HostAt
<1> QED
  BY <1>4, <1>5

\* A snapshot ends, or the script goes on to the next.
LEMMA ShownClears ==
  ASSUME RunInv, ShownInv, DuringTaken
  PROVE  HostShown'
<1>1. /\ UNCHANGED cvars /\ host'.pc = "wait" /\ host.pc = "during"
      /\ host'.line = host.line /\ host'.rails = host.rails /\ host'.parsed = host.parsed
      /\ host'.before = host.before /\ host'.snap = <<>>
      /\ host'.client = host.client /\ host'.verdict = host.verdict
  BY DEF DuringTaken, HostAt, RunInv, HostStage
<1>2. Len(Paths) \in Nat /\ Paths' = Paths
  BY <1>1, PathsLen, SamePaths DEF ShownInv, HostTyped
<1>3. HostTyped'
  BY <1>1, <1>2 DEF ShownInv, HostTyped
<1> QED
  BY <1>1, <1>3 DEF ShownInv, HostShown, Launched, RailsListed, HeldShows, HostAt

LEMMA InitShown == RunInit => ShownInv
<1> SUFFICES ASSUME RunInit PROVE ShownInv
  OBVIOUS
<1>1. /\ cli.pc = "exited" /\ g_active_device = kDeviceRegistry[1].device
      /\ cli.device = NoSoc /\ frame.pc = "dead" /\ impl = NewImpl
  BY ControllerFacts DEF RunInit, CtlInit, DeviceInit, Dead, Enter
<1>2. H!AppliedInv
  BY <1>1
  DEF NewImpl, H!AppliedInv, H!SelectionApart, H!Applying, H!Applied, H!NoOverlap, H!WritePc,
      H!Idle
<1>3. DeviceChosen /\ ProfileSelected
  BY <1>1 DEF DeviceChosen, ChosenDevice, ProfileSelected, At
<1>4. /\ host.pc = "off" /\ host.rails = <<>> /\ host.snap = <<>> /\ host.before = <<>>
      /\ host.parsed = 0 /\ host.client = "none" /\ host.verdict = "none"
  BY DEF RunInit, Off
<1>5. HostTyped
  <2>1. host.rails \in Seq(RailTarget) /\ host.snap \in Seq(Nat) /\ host.before \in Seq(Nat)
    BY <1>4, EmptySeq
  <2>2. Len(host.snap) <= Len(Paths)
    BY <1>4, <2>1, PathsLen
  <2> QED
    BY <1>4, <2>1, <2>2 DEF HostTyped
<1> QED
  BY <1>2, <1>3, <1>4, <1>5 DEF ShownInv, Launched, RailsListed, HeldShows, HostAt

LEMMA StepShown ==
  ASSUME RunInv, RunInv', ShownInv, [RunNext]_rvars
  PROVE  ShownInv'
<1> USE DEF RunInv
<1>1. CASE \E line \in Invocation : Start(line)
  <2>1. UNCHANGED cvars /\ HostShown'
    BY <1>1, ShownStarts DEF Start
  <2> QED
    BY <2>1, CycleShown DEF HostProcessMoves, ShownInv, HostShown
<1>2. CASE FreqCtlList \/ SpawnCycle
  BY <1>2, ShownLaunches, CycleShown DEF HostProcessMoves, ShownInv, HostShown
<1>3. CASE ParseProfile \/ ReadNode \/ DuringTaken
  <2>1. UNCHANGED cvars /\ HostShown'
    BY <1>3, ShownParses, ShownReads, ShownClears DEF ParseProfile, ReadNode, DuringTaken
  <2> QED
    BY <2>1, CycleShown DEF HostProcessMoves, ShownInv, HostShown
<1>4. HostShown
  BY DEF ShownInv, HostShown
<1>5. CASE PushBinary \/ RailsForMode \/ GiveUp \/ CycleEnded \/ ClientLost \/ DiffSnapshots \/ Abort
  <2>1. UNCHANGED cvars /\ HostShown'
    <3>1. CASE PushBinary \/ RailsForMode
      BY <1>4, <3>1, ShownStays
      DEF PushBinary, RailsForMode, Listed, HostAt, HostStage, ShownInv, HostTyped
    <3>2. CASE CycleEnded \/ ClientLost
      BY <1>4, <3>2, ShownStays
      DEF CycleEnded, ClientLost, ClientGone, HostAt, HostStage, ShownInv, HostTyped
    <3>3. CASE GiveUp \/ DiffSnapshots \/ Abort
      <4>1. UNCHANGED cvars /\ \E verdict \in {"none", "PASS", "FAIL"} : Exit(verdict)
        BY <3>3 DEF GiveUp, DiffSnapshots, Abort
      <4> QED
        BY <1>4, <4>1, ShownStays DEF Exit, HostStage, ShownInv, HostTyped
    <3> QED
      BY <1>5, <3>1, <3>2, <3>3
  <2> QED
    BY <2>1, CycleShown DEF HostProcessMoves, ShownInv, HostShown
<1>6. CASE DeviceStep \/ (Kill /\ UNCHANGED host) \/ UNCHANGED rvars
  <2>1. UNCHANGED host /\ (CtlStep \/ Kill \/ UNCHANGED cvars)
    BY <1>6 DEF DeviceStep, rvars, cvars
  <2>2. HostShown'
    BY <1>4, <2>1, ShownStays DEF HostStage, ShownInv, HostTyped
  <2> QED
    BY <2>1, <2>2, CycleShown DEF HostProcessMoves, ShownInv, HostShown
<1> QED
  BY <1>1, <1>2, <1>3, <1>5, <1>6 DEF RunNext, HostStep

\* The rails run.py watches are those of the profile the cycle has selected, whatever
\* the device, the argument and the order of the tables; a DURING snapshot taken in the
\* hold shows what `list` announced.
THEOREM ShownInvariant == RunSpec => []ShownInv
<1> QED
  BY InitShown, StepShown, RunInvariant, PTL DEF RunSpec

\* What run.py holds keeps its types; a snapshot never outgrows the nodes it watches,
\* and BEFORE is complete once a cycle has been started.
THEOREM RunTypeCorrect == RunSpec => []RunTypeOK
<1>1. RunInv /\ ShownInv => RunTypeOK
  BY DEF RunInv, HostStage, ShownInv, HostTyped, RunTypeOK
<1> QED
  BY <1>1, RunInvariant, ShownInvariant, PTL

\* A DURING snapshot that fell into the hold of the cycle shows the values `list`
\* announces for the profile on every rail, whichever way --mode names it.
THEOREM DuringShows == RunSpec => []DuringShowsProfile
<1>1. ShownInv => DuringShowsProfile
  <2> SUFFICES ASSUME ShownInv, HostAt("during"), SnapshotTaken, host.held,
                      NEW j \in DOMAIN host.rails
               PROVE  /\ WantMin(host.rails[j]) => host.snap[2 * j - 1] = host.rails[j].min_khz
                      /\ WantMax(host.rails[j]) => host.snap[2 * j] = host.rails[j].max_khz
    BY DEF DuringShowsProfile
  <2>1. 2 * j - 1 \in DOMAIN host.snap /\ 2 * j \in DOMAIN host.snap
    <3>1. /\ Len(host.snap) = 2 * Len(host.rails) /\ Len(host.rails) \in Nat
          /\ host.snap \in Seq(Nat) /\ host.rails \in Seq(RailTarget)
      BY PathsLen DEF SnapshotTaken, ShownInv, HostTyped
    <3>2. j \in Nat /\ 1 <= j /\ j <= Len(host.rails)
      BY <3>1
    <3> QED
      BY <3>1, <3>2
  <2> QED
    BY <2>1 DEF ShownInv, HeldShows
<1> QED
  BY <1>1, ShownInvariant, PTL
================================================================================
