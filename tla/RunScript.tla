------------------------------ MODULE RunScript ------------------------------
(***************************************************************************)
(* The device test harness src/run.py on the host, composed with the       *)
(* processes of freq_ctl it starts on the device over adb.                 *)
(*                                                                         *)
(* host is the script: where main() stands, its command line, the nodes it *)
(* watches, the snapshot it is taking and the verdict of its last run.  A  *)
(* snapshot is a shell's `cat` of one node after another, so the device    *)
(* moves between two of its values.  client is the adb process that runs   *)
(* the cycle; when it is gone, the cycle on the device may still run.      *)
(*                                                                         *)
(* There is no clock: the settle delay is any delay, and a timeout may     *)
(* come at any time.  The script is not started while a cycle it has lost  *)
(* still runs.                                                             *)
(***************************************************************************)
EXTENDS FreqCtl

\* What the script is told: a profile, and perhaps a device.
ASSUME RunLineAssumption ==
  \A line \in Invocation :
    line = [cmd |-> "cycle", device |-> line.device, arg |-> line.arg]

VARIABLE host

rvars == <<vars, process, cli, started, host>>

HostAt(pc) == host.pc = pc

Off == [pc |-> "off", line |-> NoSoc, parsed |-> 0, rails |-> <<>>, before |-> <<>>,
        snap |-> <<>>, held |-> FALSE, client |-> "none", verdict |-> "none"]

RunInit == CtlInit /\ host = Off

\* main() reads its arguments; the line is --device and --mode.
Start(line) ==
  /\ HostAt("off") /\ At("exited")
  /\ host' = [Off EXCEPT !.pc = "push", !.line = line]
  /\ UNCHANGED cvars

\* The binary is pushed and made executable, or --no-push says it is there.
PushBinary ==
  /\ HostAt("push")
  /\ host' = [host EXCEPT !.pc = "list"]
  /\ UNCHANGED cvars

-------------------------------------------------------------------------------
(* _rails_for_mode: the nodes the chosen profile touches, as `list` prints *)
(* them.                                                                   *)

FreqCtlList ==
  /\ HostAt("list")
  /\ Launch([host.line EXCEPT !.cmd = "list"])
  /\ host' = [host EXCEPT !.pc = "listing"]

Listed == HostAt("listing") /\ At("exited")

\* The profiles in the order of the output, a header and the rails of each.
Listing == GetDeviceConfig.modes \o GetDeviceConfig.custom_profiles

\* The header of a mode matches by name, that of a custom profile by id or name; a
\* number is compared as it was typed.
InTarget(j) ==
  LET arg == host.line.arg
      custom == j > Len(GetDeviceConfig.modes)
  IN  \/ ~custom /\ arg.kind = "mode" /\ Listing[j].mode = arg.mode
      \/ custom /\ arg.kind = "number" /\ Listing[j].id = arg.number
      \/ custom /\ arg.kind = "name" /\ Listing[j].id = arg.id

Parsed == host.parsed >= Len(Listing)

\* The loop over the lines: the rails below a header that matches are the script's.
\* It keeps the two paths of a rail; its frequencies are history.
ParseProfile ==
  /\ Listed /\ cli.code = 0 /\ ~Parsed
  /\ LET j == host.parsed + 1
     IN  host' = [host EXCEPT !.parsed = j,
                              !.rails = IF InTarget(j) THEN @ \o Listing[j].targets ELSE @]
  /\ UNCHANGED cvars

NothingListed == cli.code # 0 \/ (Parsed /\ host.rails = <<>>)

RailsForMode ==
  /\ Listed /\ cli.code = 0 /\ Parsed /\ host.rails # <<>>
  /\ host' = [host EXCEPT !.pc = "before"]
  /\ UNCHANGED cvars

-------------------------------------------------------------------------------
(* _read_snapshot: one cat for each node.                                  *)

\* Mutant: the two paths of a rail are exchanged.
PathsSwapped ==
  [n \in 1 .. 2 * Len(host.rails) |->
     IF n % 2 = 1 THEN host.rails[(n + 1) \div 2].max_path ELSE host.rails[n \div 2].min_path]

\* The minimum and the maximum of each rail; a side without a path is printed as
\* (none), which the script takes for one.
Paths ==
  [n \in 1 .. 2 * Len(host.rails) |->
     IF n % 2 = 1 THEN host.rails[(n + 1) \div 2].min_path ELSE host.rails[n \div 2].max_path]

Reading == host.pc \in {"before", "during", "after"}
SnapshotTaken == Len(host.snap) = Len(Paths)
NextPath == Paths[Len(host.snap) + 1]

\* held is a history variable: the cycle has slept through the DURING snapshot.
ReadNode ==
  /\ Reading /\ ~SnapshotTaken
  /\ PathPresent(NextPath) /\ NextPath \notin Missing
  /\ host' = [host EXCEPT !.snap = Append(@, sysfs[NextPath]),
                          !.held = @ /\ (HostAt("during") => At("sleep"))]
  /\ UNCHANGED cvars

Exit(verdict) == host' = [host EXCEPT !.pc = "off", !.verdict = verdict]

\* SystemExit: the listing failed or has no rails for the mode, or a cat printed
\* nothing.  A cycle that runs is left to itself.
GiveUp ==
  /\ \/ Listed /\ NothingListed
     \/ /\ Reading /\ ~SnapshotTaken
        /\ ~PathPresent(NextPath) \/ ReadMayFail(NextPath)
  /\ Exit("none")
  /\ UNCHANGED cvars

\* Any adb command may fail, at the latest when the device is unplugged, and the
\* user may interrupt the script.
Abort ==
  /\ ~HostAt("off")
  /\ Exit("none")
  /\ UNCHANGED cvars

-------------------------------------------------------------------------------
(* main(): BEFORE, the cycle in the background, DURING, wait, AFTER. *)

\* Mutant: the cycle is started before the snapshot is complete.
SpawnEarly ==
  /\ HostAt("before")
  /\ Launch([host.line EXCEPT !.cmd = "cycle"])
  /\ host' = [host EXCEPT !.pc = "during", !.before = host.snap, !.snap = <<>>,
                          !.held = TRUE, !.client = "attached"]

SpawnCycle ==
  /\ HostAt("before") /\ SnapshotTaken
  /\ Launch([host.line EXCEPT !.cmd = "cycle"])
  /\ host' = [host EXCEPT !.pc = "during", !.before = host.snap, !.snap = <<>>,
                          !.held = TRUE, !.client = "attached"]

DuringTaken ==
  /\ HostAt("during") /\ SnapshotTaken
  /\ host' = [host EXCEPT !.pc = "wait", !.snap = <<>>]
  /\ UNCHANGED cvars

ClientGone(client) ==
  /\ host' = [host EXCEPT !.pc = "after", !.client = client]
  /\ UNCHANGED cvars

\* Mutant: the script does not wait.
CycleNotAwaited == HostAt("wait") /\ ClientGone("ended")

\* communicate() returns: the cycle has ended, with the exit code of freq_ctl.
CycleEnded == HostAt("wait") /\ At("exited") /\ ClientGone("ended")

\* Mutant: no timeout.
NoTimeout == FALSE

\* The timeout kills the adb client, or the client has lost the device: an exit
\* code of its own.
ClientLost == HostAt("wait") /\ ClientGone("lost")

Mismatches == {j \in DOMAIN host.before : host.before[j] # host.snap[j]}

DiffSnapshots ==
  /\ HostAt("after") /\ SnapshotTaken
  /\ Exit(IF Mismatches = {} THEN "PASS" ELSE "FAIL")
  /\ UNCHANGED cvars

-------------------------------------------------------------------------------
HostStep ==
  \/ PushBinary \/ FreqCtlList \/ ParseProfile \/ RailsForMode \/ ReadNode \/ GiveUp
  \/ SpawnCycle \/ DuringTaken \/ CycleEnded \/ ClientLost \/ DiffSnapshots

DeviceStep == CtlStep /\ UNCHANGED host

RunNext ==
  \/ \E line \in Invocation : Start(line)
  \/ HostStep
  \/ Abort
  \/ DeviceStep
  \/ Kill /\ UNCHANGED host

\* The script runs on, and a listing returns; nothing is assumed of a cycle.
RunSpec ==
  /\ RunInit /\ [][RunNext]_rvars
  /\ WF_rvars(HostStep)
  /\ WF_rvars(cli.cmd = "list" /\ DeviceStep)

-------------------------------------------------------------------------------
RunTypeOK ==
  /\ host.pc \in {"off", "push", "list", "listing", "before", "during", "wait", "after"}
  /\ host.rails \in Seq(RailTarget)
  /\ {host.before, host.snap} \subseteq Seq(Nat)
  /\ host.parsed \in Nat
  /\ Len(host.snap) <= Len(Paths)
  /\ host.before # <<>> => Len(host.before) = Len(Paths)
  /\ host.client \in {"none", "attached", "ended", "lost"}
  /\ host.verdict \in {"none", "PASS", "FAIL"}

\* "After `cycle` [...] the values should return": a cycle that reported success, to
\* a script that waited for it, passes, and then all of sysfs, the tunables and rails
\* the script does not watch included, is as it was when the cycle started.
CleanCyclePasses ==
  host.verdict # "none" /\ host.client = "ended" /\ cli.code = 0 =>
    host.verdict = "PASS" /\ sysfs = started

\* "reports any rail that didn't restore", and no other: when a cycle the script waited
\* for was not killed, every value it blames is on a rail with a failing node.
BlamesTheFaulty ==
  host.verdict = "FAIL" /\ host.client = "ended" /\ cli.code # 137 =>
    \A j \in Mismatches : Paths[j] \notin Healthy

\* A DURING snapshot that fell into the hold of the cycle, however long SetClocks took,
\* shows the values `list` announces for the profile, rail by rail.
DuringShowsProfile ==
  HostAt("during") /\ SnapshotTaken /\ host.held =>
    \A j \in DOMAIN host.rails :
      /\ WantMin(host.rails[j]) => host.snap[2 * j - 1] = host.rails[j].min_khz
      /\ WantMax(host.rails[j]) => host.snap[2 * j] = host.rails[j].max_khz

\* The script ends whatever the cycle does, hanging included: it has a timeout.
HarnessEnds == ~HostAt("off") ~> HostAt("off")

\* However the script ends after it has started a cycle (a timeout, a failed snapshot,
\* a lost device, an interrupt), a cycle that runs on and is not killed brings the
\* healthy nodes back to what BEFORE showed.
OrphanRestores ==
  WF_rvars(DeviceStep) =>
    (HostAt("during") ~>
       /\ At("exited")
       /\ cli.code # 137 =>
            \A j \in DOMAIN host.before :
              Paths[j] \in Healthy => sysfs[Paths[j]] = host.before[j])

\* "PASS: AFTER matches BEFORE -- UnsetClocks restored correctly.": after a PASS the
\* cycle, unless it was lost or killed, has applied the mode and restored it.
PassMeansRestored ==
  host.verdict = "PASS" /\ host.client = "ended" /\ cli.code # 137 => cli.code = 0
===============================================================================
