------------------------------- MODULE FreqCtl -------------------------------
(***************************************************************************)
(* The command line tool freq_ctl (src/app/freq_ctl.cc), one process after *)
(* another on one device, composed with the library it calls.              *)
(*                                                                         *)
(* cli is the process: its arguments, where it stands and its exit code.   *)
(* Its FreqController lives from the start of CmdSet or CmdCycle to their  *)
(* return, where the destructor runs.  The process may be killed at any    *)
(* time.  started is a history variable: what sysfs held when the process  *)
(* started.                                                                *)
(***************************************************************************)
EXTENDS FreqController, ThreadAffinity

CONSTANTS
  Invocation,  \* the command lines, [cmd, device, arg]
  NoSoc,       \* a command line without --device
  Missing,     \* nodes that do not exist: some of those whose accesses may fail
  Width        \* 2^32: a custom id is cut to a uint32_t

ASSUME FreqCtlAssumption ==
  /\ Missing \subseteq Faulty
  /\ Width \in Nat \ {0}

\* The command lines name devices, modes and ids that callers of the library pass.
LineTyped(line) ==
  /\ line.device \in SocName \cup {NoSoc}
  /\ line.cmd \in {"set", "cycle"} =>
       /\ line.arg.kind = "mode" => line.arg.mode \in FrequencyMode
       /\ line.arg.kind = "number" => line.arg.number % Width \in CustomId

ASSUME InvocationAssumption == \A line \in Invocation : LineTyped(line)

VARIABLES cli, started

process == <<affinity, call>>
cvars == <<vars, process, cli, started>>

main == CHOOSE t \in Thread : TRUE

At(pc) == cli.pc = pc
Goto(pc) == cli' = [cli EXCEPT !.pc = pc]
Result(pc, success) == cli' = [cli EXCEPT !.pc = pc, !.code = IF success THEN 0 ELSE 1]

CtlInit ==
  /\ DeviceInit /\ SysfsInit
  /\ impl = NewImpl /\ frame = Dead
  /\ affinity = [t \in Thread |-> OnlineCpu]
  /\ call = [t \in Thread |-> NotCalling]
  /\ cli = [pc |-> "exited", cmd |-> "none", device |-> NoSoc, arg |-> NoSoc, code |-> 0]
  /\ started = sysfs

\* A new process: nothing of the last one is left but sysfs.
Launch(line) ==
  /\ At("exited")
  /\ cli' = [pc |-> "main", cmd |-> line.cmd, device |-> line.device, arg |-> line.arg,
             code |-> 0]
  /\ started' = sysfs
  /\ g_active_device' = kDeviceRegistry[1].device
  /\ frame' = Dead
  /\ affinity' = [t \in Thread |-> OnlineCpu]
  /\ call' = [t \in Thread |-> NotCalling]
  /\ UNCHANGED <<sysfs, impl>>

\* main(): --device, then the command; anything else is a usage error.
SelectDevice ==
  /\ At("main")
  /\ \/ /\ cli.device = NoSoc
        /\ Goto("command")
        /\ UNCHANGED vars
     \/ /\ cli.device # NoSoc
        /\ SetActiveDeviceByName(cli.device)
        /\ IF FindName(cli.device) # 0 THEN Goto("command") ELSE Result("exited", FALSE)
  /\ UNCHANGED <<process, started>>

UsageError ==
  /\ At("command")
  /\ cli.cmd \notin {"devices", "list", "set", "cycle", "probe", "affinity", "reset-affinity"}
  /\ Result("exited", FALSE)
  /\ UNCHANGED <<vars, process, started>>

-------------------------------------------------------------------------------
(* set and cycle. *)

MakeController ==
  /\ At("command")
  /\ cli.cmd \in {"set", "cycle"}
  /\ Construct
  /\ Goto("resolve")
  /\ UNCHANGED <<process, started>>

\* ResolveProfile: the name of a mode of the table, or a number, cut to the width
\* of a custom id; no other name is known, that of a custom profile neither.  The
\* failed lookups leave through the destructor.
ResolveProfile ==
  LET arg == cli.arg
      declared == \E j \in DOMAIN GetDeviceConfig.modes : GetDeviceConfig.modes[j].mode = arg.mode
  IN  /\ At("resolve")
      /\ Idle
      /\ \/ /\ \/ arg.kind = "mode" /\ declared /\ SetFrequencyMode(arg.mode)
               \/ arg.kind = "number" /\ SetFrequencyCustomId(arg.number % Width)
            /\ Result(IF frame'.ok THEN "apply" ELSE "leave", frame'.ok)
         \/ /\ arg.kind = "name" \/ (arg.kind = "mode" /\ ~declared)
            /\ Result("leave", FALSE)
            /\ UNCHANGED vars
      /\ UNCHANGED <<process, started>>

Apply ==
  /\ At("apply")
  /\ SetClocks
  /\ Goto("applied")
  /\ UNCHANGED <<process, started>>

Applied ==
  /\ At("applied")
  /\ Idle
  /\ Result(IF cli.cmd = "cycle" /\ frame.ok THEN "sleep" ELSE "leave", frame.ok)
  /\ UNCHANGED <<vars, process, started>>

\* The sleep is over.
Unapply ==
  /\ At("sleep")
  /\ UnsetClocks
  /\ Goto("unapplied")
  /\ UNCHANGED <<process, started>>

\* Mutants: the result of UnsetClocks is ignored; UnsetClocks is tried again.
UnappliedAnyhow ==
  /\ At("unapplied")
  /\ Idle
  /\ Result("leave", TRUE)
  /\ UNCHANGED <<vars, process, started>>
UnappliedRetry ==
  /\ At("unapplied")
  /\ Idle
  /\ Result(IF frame.ok THEN "leave" ELSE "sleep", frame.ok)
  /\ UNCHANGED <<vars, process, started>>

Unapplied ==
  /\ At("unapplied")
  /\ Idle
  /\ Result("leave", frame.ok)
  /\ UNCHANGED <<vars, process, started>>

\* Mutant: the command calls exit(), which does not destroy its local objects.
LeaveByExit ==
  /\ At("leave")
  /\ Crash
  /\ Goto("leaving")
  /\ UNCHANGED <<process, started>>

Leave ==
  /\ At("leave")
  /\ Destroy
  /\ Goto("leaving")
  /\ UNCHANGED <<process, started>>

Left ==
  /\ At("leaving")
  /\ frame.pc = "dead"
  /\ Goto("exited")
  /\ UNCHANGED <<vars, process, started>>

-------------------------------------------------------------------------------
(* devices and list print the tables.  probe looks only at the paths of    *)
(* the modes and counts those that do not exist; whether one can be read   *)
(* is printed and not counted.                                             *)

PrintTables ==
  /\ At("command")
  /\ cli.cmd \in {"devices", "list"}
  /\ Result("exited", TRUE)
  /\ UNCHANGED <<vars, process, started>>

ProbedPaths ==
  UNION {LET m == GetDeviceConfig.modes[j]
         IN  {m.targets[k].min_path : k \in DOMAIN m.targets} \cup
             {m.targets[k].max_path : k \in DOMAIN m.targets} \cup
             {m.tunables[k].sysfs_path : k \in DOMAIN m.tunables} :
         j \in DOMAIN GetDeviceConfig.modes}

Probe ==
  /\ At("command")
  /\ cli.cmd = "probe"
  /\ cli' = [cli EXCEPT !.pc = "exited", !.code = IF ProbedPaths \cap Missing = {} THEN 0 ELSE 2]
  /\ UNCHANGED <<vars, process, started>>

-------------------------------------------------------------------------------
(* affinity and reset-affinity act on the tool's own thread. *)

CmdAffinity ==
  /\ At("command")
  /\ \/ /\ cli.cmd = "affinity" /\ FindCluster(cli.arg.cluster) # 0
        /\ SetThreadAffinity(main, cli.arg.cluster, main)
        /\ Goto("affinity")
     \/ /\ cli.cmd = "affinity" /\ FindCluster(cli.arg.cluster) = 0
        /\ Result("exited", FALSE)
        /\ UNCHANGED <<g_active_device, process>>
     \/ /\ cli.cmd = "reset-affinity"
        /\ ResetThreadAffinity(main, main)
        /\ Goto("affinity")
  /\ UNCHANGED <<sysfs, impl, frame, started>>

AffinityCall ==
  /\ At("affinity")
  /\ ApplyMask(main)
  /\ UNCHANGED <<sysfs, impl, frame, cli, started>>

AffinityDone ==
  /\ At("affinity")
  /\ call[main].pc = "idle"
  /\ Result("exited", call[main].ok)
  /\ UNCHANGED <<vars, process, started>>

-------------------------------------------------------------------------------
LibraryStep == Step /\ UNCHANGED <<process, cli, started>>

\* A signal ends the process; no destructor runs.
Kill ==
  /\ ~At("exited")
  /\ \/ Crash
     \/ frame.pc = "dead" /\ UNCHANGED vars
  /\ cli' = [cli EXCEPT !.pc = "exited", !.code = 137]
  /\ UNCHANGED <<process, started>>

CtlStep ==
  \/ SelectDevice \/ UsageError
  \/ MakeController \/ ResolveProfile \/ Apply \/ Applied \/ Unapply \/ Unapplied
  \/ Leave \/ Left \/ PrintTables \/ Probe
  \/ CmdAffinity \/ AffinityCall \/ AffinityDone
  \/ LibraryStep

CtlNext == (\E line \in Invocation : Launch(line)) \/ CtlStep \/ Kill

\* A process that is not killed runs on; a sleep ends.
CtlSpec == CtlInit /\ [][CtlNext]_cvars /\ WF_cvars(CtlStep)

-------------------------------------------------------------------------------
Exited == At("exited") /\ cli.code # 137

\* "After `cycle <mode> <secs>` the values should return to whatever they were
\* before the cycle started": they have whenever the tool reports success, on every
\* path through SetClocks, UnsetClocks and the destructor.
CycleRestores == Exited /\ cli.cmd = "cycle" /\ cli.code = 0 => sysfs = started

\* Whatever fails and wherever, a process that leaves by itself, with any exit code,
\* leaves every healthy rail and node as it found it: a failed SetClocks is undone
\* by the destructor, and a failed write does not keep UnsetClocks from the rest.
HealthyRestored == Exited => \A p \in Healthy : sysfs[p] = started[p]

\* Every process ends.
ProcessEnds == ~At("exited") ~> At("exited")

\* "After `set performance` on a rooted device, [...] the freshly-read values should
\* match the `performance` row": set leaves the mode applied when it reports success.
SetLasts ==
  Exited /\ cli.cmd = "set" /\ cli.arg.kind = "mode" /\ cli.code = 0 =>
    \E j \in DOMAIN GetDeviceConfig.modes :
      LET m == GetDeviceConfig.modes[j]
      IN  /\ m.mode = cli.arg.mode
          /\ \A k \in DOMAIN m.targets :
               /\ WantMin(m.targets[k]) => sysfs[m.targets[k].min_path] = m.targets[k].min_khz
               /\ WantMax(m.targets[k]) => sysfs[m.targets[k].max_path] = m.targets[k].max_khz
===============================================================================
