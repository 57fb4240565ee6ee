----------------------------- MODULE RunScriptInv -----------------------------
(***************************************************************************)
(* The inductive invariant behind CleanCyclePasses and BlamesTheFaulty of  *)
(* RunScript: what the script's two snapshots have to do with the cycle    *)
(* between them.                                                           *)
(***************************************************************************)
EXTENDS RunScript, FreqCtlInv

\* A snapshot, complete or not, shows what the watched nodes hold in nodes.
Shows(snap, nodes) ==
  /\ snap \in Seq({nodes[Paths[j]] : j \in DOMAIN snap})
  /\ \A j \in DOMAIN snap : snap[j] = nodes[Paths[j]]

Judged == host.verdict # "none"

\* The script has started its cycle and has not given up.
Cycling == host.pc \in {"during", "wait", "after"} \/ Judged

\* The cycle has ended before the last snapshot began.
Awaited == host.client = "ended" /\ (host.pc = "after" \/ Judged)

\* Where the script stands.
HostStage ==
  /\ host = [pc |-> host.pc, line |-> host.line, parsed |-> host.parsed,
             rails |-> host.rails, before |-> host.before, snap |-> host.snap, held |-> host.held,
             client |-> host.client, verdict |-> host.verdict]
  /\ host.pc \in {"off", "push", "list", "listing", "before", "during", "wait", "after"}
  /\ host.pc # "off" => host.line \in Invocation /\ ~Judged
  /\ host.pc \in {"push", "list", "listing", "before"} => host.client = "none"
  /\ host.pc \in {"push", "list", "listing", "wait"} => host.snap = <<>>
  /\ host.pc \in {"push", "list", "before"} => At("exited")
  /\ host.pc \in {"during", "wait"} => host.client = "attached"

\* BEFORE is what the cycle found when it started.
BeforeStarted ==
  /\ host.pc = "before" => Shows(host.snap, sysfs)
  /\ Cycling => cli.cmd = "cycle" /\ Shows(host.before, started)
                /\ Len(host.before) = Len(Paths)

\* AFTER, of a cycle the script has waited for, is what the cycle left.
AfterLeft == Awaited => At("exited") /\ Shows(host.snap, sysfs)

\* The verdict compares two complete snapshots.
VerdictOK ==
  Judged => /\ Len(host.snap) = Len(host.before)
            /\ host.verdict = IF Mismatches = {} THEN "PASS" ELSE "FAIL"

RunInv == CtlInv /\ HostStage /\ BeforeStarted /\ AfterLeft /\ VerdictOK

-------------------------------------------------------------------------------
(* For DuringShowsProfile: the rails the script watches are those of the   *)
(* profile that the cycle applies.                                         *)

\* No device has two modes of one name or two custom profiles of one id, and an id
\* is a uint32_t.
ASSUME ProfilesDistinct ==
  \A k \in DOMAIN kDeviceRegistry :
    LET c == kDeviceRegistry[k].config
    IN  /\ \A i, j \in DOMAIN c.modes : c.modes[i].mode = c.modes[j].mode => i = j
        /\ \A i, j \in DOMAIN c.custom_profiles :
             c.custom_profiles[i].id = c.custom_profiles[j].id => i = j
        /\ \A j \in DOMAIN c.custom_profiles : c.custom_profiles[j].id < Width

ChosenDevice(device) ==
  IF device = NoSoc THEN kDeviceRegistry[1].device ELSE kDeviceRegistry[FindName(device)].device

\* The rails of each profile that matches the argument.
Matching(c, arg) ==
  {c.modes[j].targets :
     j \in {k \in DOMAIN c.modes : arg.kind = "mode" /\ c.modes[k].mode = arg.mode}}
  \cup
  {c.custom_profiles[j].targets :
     j \in {k \in DOMAIN c.custom_profiles :
              \/ arg.kind = "number" /\ c.custom_profiles[k].id = arg.number
              \/ arg.kind = "name" /\ c.custom_profiles[k].id = arg.id}}

Announced(line) == Matching(kDeviceRegistry[FindEntry(ChosenDevice(line.device))].config, line.arg)

\* A process that has got past --device is on the device it names.
DeviceChosen ==
  /\ At("main") => g_active_device = kDeviceRegistry[1].device
  /\ ~At("main") /\ (At("exited") => cli.code = 0) =>
       g_active_device = ChosenDevice(cli.device)

\* From ResolveProfile to the end of the sleep the profile is selected; in the sleep it
\* is applied.
ProfileSelected ==
  /\ cli.pc \in {"apply", "applied", "sleep"} =>
       \/ /\ cli.arg.kind = "mode"
          /\ \E j \in DOMAIN GetDeviceConfig.modes :
               /\ GetDeviceConfig.modes[j].mode = cli.arg.mode
               /\ impl.selected_targets = GetDeviceConfig.modes[j].targets
       \/ /\ cli.arg.kind = "number"
          /\ \E j \in DOMAIN GetDeviceConfig.custom_profiles :
               /\ GetDeviceConfig.custom_profiles[j].id = cli.arg.number % Width
               /\ impl.selected_targets = GetDeviceConfig.custom_profiles[j].targets
  /\ At("sleep") => frame.op = "set" /\ frame.ok

\* The types of what the script holds, and how its snapshots fill up.
HostTyped ==
  /\ host.rails \in Seq(RailTarget) /\ host.parsed \in Nat
  /\ host.snap \in Seq(Nat) /\ Len(host.snap) <= Len(Paths)
  /\ host.before \in Seq(Nat)
  /\ host.before # <<>> => Len(host.before) = Len(Paths)
  /\ host.pc \in {"push", "list", "listing", "before"} => host.before = <<>>
  /\ host.client \in {"none", "attached", "ended", "lost"}
  /\ host.verdict \in {"none", "PASS", "FAIL"}

\* The two processes the script waits for have its device and its profile.
Launched ==
  host.pc \in {"listing", "during"} =>
    cli.device = host.line.device /\ cli.arg = host.line.arg

RailsListed ==
  ~HostAt("off") =>
    \A r \in DOMAIN host.rails :
      \E T \in Announced(host.line) : host.rails[r] \in {T[k] : k \in DOMAIN T}

\* A snapshot that has only seen the cycle asleep shows the announced values.
HeldShows ==
  HostAt("during") /\ host.held =>
    \A j \in DOMAIN host.rails :
      /\ WantMin(host.rails[j]) /\ 2 * j - 1 \in DOMAIN host.snap =>
           host.snap[2 * j - 1] = host.rails[j].min_khz
      /\ WantMax(host.rails[j]) /\ 2 * j \in DOMAIN host.snap =>
           host.snap[2 * j] = host.rails[j].max_khz

ShownInv ==
  /\ H!AppliedInv
  /\ DeviceChosen
  /\ ProfileSelected
  /\ HostTyped
  /\ Launched
  /\ RailsListed
  /\ HeldShows
===============================================================================
