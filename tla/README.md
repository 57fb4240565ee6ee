# freq_control in TLA+

`freq_control` is a small C++ library that pins CPU, GPU and memory frequencies on
Android devices by writing sysfs nodes, and puts the old values back afterwards. With it
come a command line tool, a test harness that drives the tool over adb, and a generator
of per-device tables. This directory holds models of all four, the configurations that
check them with TLC, and proofs for TLAPS. Paths below are relative
to the root of the repository.

## The system

| component | state | operations | talks to |
|---|---|---|---|
| sysfs helpers (`src/sysfs_io.cc`) | none | `ReadSysfsUint64`, `WriteSysfsUint64`, `SysfsExists` | the kernel's nodes |
| device registry (`src/device_config.cc`, `device_registry.h`) | `g_active_device` | `SetActiveDevice`, `SetActiveDeviceByName`, `GetDeviceConfig` (aborts on an unknown device) | the compiled-in tables |
| `FreqController` (`src/freq_controller.cc`) | selection, `saved_rails`, `saved_tunables` | `SetFrequencyMode`, `SetFrequencyCustomId`, `SetClocks`, `UnsetClocks`, `HasTunable`, `GetTunable`, destructor | registry, sysfs helpers |
| thread affinity (`src/thread_affinity.cc`) | none (the kernel's mask per thread) | `SetThreadAffinity`, `ResetThreadAffinity` | registry, `sched_setaffinity` |
| shipped tables (`soc/s5e9955.h`) | constants | none | |
| `freq_ctl` (`app/freq_ctl.cc`) | one process: arguments, a local controller | `set`, `cycle`, `probe`, `affinity`, `reset-affinity`, `list`, `devices` | the library |
| `run.py` | snapshots of the nodes | push, list, snapshots before, during and after a cycle, verdict | `freq_ctl` over adb |
| `tools/gen_device_config.py` | generated headers | probe a device, pick frequencies, emit the SoC header, regenerate the registry | adb, the include directory |

What makes it hard:

* **Partial failure.** Any of a dozen reads and writes of one call may fail; the library
  does not roll back, it promises that `UnsetClocks()` can ("to restore whatever was
  successfully saved").
* **Order of writes.** The kernel refuses `min > max` even for a moment. `ApplyRail`
  chooses the order of the two writes of a rail from the current minimum, and the same
  function serves profiles, restores, and rails a failed call left half done.
* **Sequences of calls.** A profile may be selected or applied over another, the active
  device may change between selection and application, a destructor may run at any point
  between calls, a process may be killed anywhere.
* **A magic value.** 0 is "leave this side alone" in a target, and a number a node may hold.
* **Threads and processes.** Threads pin one another while another one switches the active
  device. Two controllers may use the same nodes.
* **Two machines.** The harness sees the device through one `cat` after another and an adb
  client that may be lost, or killed by a timeout, while the cycle goes on.
* **A moving list.** The generator skips what it cannot read, so labels, rails and clusters
  shift together or not at all; it writes two files one after the other, and numbers the
  devices anew each time.

## Modules

`DeviceTypes` - the table types of `device_config.h`: structs as records, an array with its
count as a sequence. Names, modes and paths are opaque.

`DeviceConfig` - the registry and `g_active_device`. The table lookups are `SelectInSeq`,
the first match, 0 for none.

`SysfsIO` - the nodes (`sysfs`, a number per node) and the two helpers. A call fails on a
node in `Faulty` whenever it likes, or because the kernel refuses the value. The kernel is
external: on the pairs in `KernelRail` it keeps `min <= max`; it takes any value elsewhere.

`FreqController` - one controller and the thread that calls it. `impl` is `struct Impl`.
`frame` is the call in progress, with its program counter, loop index and locals; between
calls it keeps the last call and what it returned. Every sysfs access is one step:

| code | actions |
|---|---|
| `SetFrequencyMode`, `SetFrequencyCustomId` | the actions of that name, over `Select` |
| `SetClocks`, no selection / entry | `SetClocks` |
| its two saving loops | `SaveMin`, `SaveMax`, `SaveRailsEnd`, `SaveTunable`, `SaveTunablesEnd`, and `SaveFails` for every early return |
| `ApplyRail` (decision, then up to two writes) | `ApplyRail`, `WriteMinFirst`, `WriteMaxLast`, `WriteMaxFirst`, `WriteMinLast` |
| the loops around it in `SetClocks` and `UnsetClocks` | `RailsEnd`, `WriteTunable`, `SkipTunable`, `SetReturns`, `UnsetReturns`; the failing returns are disjuncts of `WriteNode` |
| `UnsetClocks`, entry | `UnsetClocks` |
| destructor, constructor | `Destroy`, `Destroyed`, `Construct` |
| a kill | `Crash` |

Both calls write a list of rails, then a list of tunables; `Rails` and `Tunables` are those
lists for the call in progress, and `Setting` tells the calls apart where they differ
(stop and commit at a failed write, or go on). The reads of the kernel's two-rail state in
`ApplyRail` and the write that follows are separate steps.

`FreqControllerSafety` - the history variable `baseline`, what the nodes held when the most
recent `SetClocks` was about to write (what a restore owes), and the properties. A further
`SetClocks` moves the baseline, as it overwrites the saved state; and when the saved state is
gone for good, because the object has died or `UnsetClocks` has reported a failure, nothing is
owed any more and the baseline is the present content.

`TableRules` - the kernel's rails, and what a well-formed target and profile are.
`WellFormedTables` - that the tables of the registry consist of such profiles, the assumption
of the library's guarantees. `FreqControllerInv` - the inductive invariant.
`FreqControllerInv_proofs` - the theorems on types and aborts, for any tables, and on saving,
applying, restoring and the order of writes, for well-formed ones. `DeviceConfig_proofs` -
lemmas about the registry's lookups.

`UndoLog` - what a controller promises, with no loops, vectors or sides: applying logs the
present value of every node it will change at one instant and changes logged nodes only;
restoring writes logged values and ends when all are back or failed.
`FreqControllerRefinement` - the mapping: the log is the saved state a restore would use.
`FreqControllerViews_proofs` - that the controller implements `UndoLog`, and what it keeps
when others write the same nodes.

`Contention` - two controllers (two instances of `FreqController` over one `sysfs`), each
applying and restoring. `start`, `outer`, `under` and `crossed` are history variables that
tell whether overlapping sessions on shared nodes were nested, and what `sysfs` held when
the first and the second of them began. Two more tell who has been overtaken: `stale`, whose
rail the other one changed after `ApplyRail` had read its minimum; `torn`, of whose rail it
changed the minimum between the two reads `SetClocks` saves. `ControllerSession` - what a controller keeps
among others (`Own`); `ContentionInv` - the inductive invariant of both;
`Contention_proofs` - the theorems.

`DocumentedClaims` - sentences of the headers that the code does not keep.

`S5E9955` - the shipped tables in MHz (all entries are multiples of 1000 kHz).

`ThreadAffinity` - both calls, split in two: the mask built from the active device's table,
then the system call. Masks are sets of CPU ids. `ThreadAffinity_proofs` - its theorems.

`FreqCtl` - processes of the tool, one after another, composed of `FreqController` and
`ThreadAffinity`. `cli` is the process; its controller is constructed by `set` and `cycle`
and destroyed when they return. A process may be killed at any point. `FreqCtlInv`,
`FreqCtl_proofs` - its inductive invariant and its theorems.

`RunScript` - `run.py` on the host, composed with `FreqCtl` on the device; `host` is the
script:

| code | actions |
|---|---|
| arguments, `_push_binary` | `Start`, `PushBinary` |
| `_rails_for_mode`: `freq_ctl list`, then its output profile by profile | `FreqCtlList`, `ParseProfile`, `RailsForMode` |
| `_read_snapshot`, three times | `ReadNode`, one `cat` each; the cycle moves between two |
| `Popen` of the cycle; the DURING snapshot | `SpawnCycle`, `DuringTaken` |
| `communicate` returns; its timeout, or a lost client | `CycleEnded`, `ClientLost` |
| the diff and the verdict | `DiffSnapshots` |
| `SystemExit` of the parser and the snapshots; of `_adb`, and Ctrl-C | `GiveUp`, `Abort` |

`host.rails` is the list the parser builds, one header with its rails per step, and `Paths` the
nodes a snapshot reads, two per rail. There is no clock: the settle delay is any delay, a
timeout comes at any time of the wait.
`RunScriptInv`, `RunScript_proofs` - its inductive invariant and its theorems.

`GenDeviceConfig` - the generator and the files it keeps. `gen` is the running process,
`soc_dir` the headers, `registry` the registry file; a file that is open is torn:

| code | actions |
|---|---|
| arguments | `Main` |
| `probe_device`: the name, policies, labels, devfreq nodes | `ReadSocName`, `ProbePolicy`, `LabelClusters`, `ProbeDevfreqNode`, `ProbeEnds` |
| `_run_adb`'s `SystemExit` | `AdbFails` |
| `_adb_cat` that finds nothing | the skipping alternatives of `ProbePolicy` and `ProbeDevfreqNode` |
| `build_header` with the emitters; `write_text` | `BuildHeader` in `OpenHeader`, `WriteHeader` |
| `regen_registry` | `ScanSocDir`, `OpenRegistry`, `WriteRegistry` |
| a kill; a user who deletes a header | `Killed`, `RemoveHeader` |

A frequency table is a set of numbers, and so are the names of the headers a set, with the
order of `sorted` a constant; `sorted(...)[k]` is the element of rank k. `Round` is
Python's `round`, half to even; the percentiles are in hundredths. The tables are records of
`DeviceTypes`, so the modules on both sides speak of the same thing.
`GenDeviceConfig_proofs` - its theorems.

The `MC*` modules give the constants for TLC. Definitions marked "Mutant" are wrong
variants of the definition that follows them: replacing it by one must break a property,
which shows that the property looks at the code.

## Runs

| run | configuration | question |
|---|---|---|
| `core` | `core.cfg` | one controller, all sequences of calls, failures at every access, kills; does every call return; does it implement `UndoLog` |
| `s5e9955` | `s5e9955.cfg` | the shipped tables, one failing node |
| `contention` | `contention.cfg` | two controllers on the same nodes |
| `affinity` | `affinity.cfg` | three threads, two devices |
| `freq_ctl` | `freq_ctl.cfg` | the tool: exit codes, destructor, kills |
| `run_script` | `run_script.cfg` | the harness: verdicts, lost clients, timeouts |
| `gen_config` | `gen_config.cfg` | the generator: the tables it emits, kills and repeated runs |

Properties of the core (`FreqControllerSafety`):

* `Recoverable`: as long as the object lives, a node that differs from `baseline` is among
  the saved ones with its baseline value. No failed access within a call loses it, no new
  selection and no other device. It speaks of the most recent `SetClocks` only: what an
  earlier one had saved is overwritten by the next, also by one that tries again after a
  half-done one, and what a failed `UnsetClocks` has not put back is given up, although the
  object lives and could be asked again. In both places the baseline moves.
* `RestoreExact`: a restore that is about to report success has put back every node.
* `HealthyRestored`: one that met failures has put back every node on a rail without a
  failing node.
* `AppliedExact`: after a successful `SetClocks` every node has the profile's value.
* `WritesOrdered`: every write of a rail is one the kernel takes, except in the order
  `ApplyRail` falls back to when it could not read the minimum.
* `NeverAborts`, `TypeOK`, and `CallsReturn`.
* `Refines`: every step of a call is a step of `UndoLog` or leaves its variables alone. So
  the snapshot `SetClocks` collects read by read is that of one instant; both restores
  write only saved values, and both directions only saved nodes; selecting another profile
  or device, failing, or applying nothing does not lose the log; a restore that drops it has
  put back all that did not fail.

`NestedRestores`, `NestedApplies` (`Contention`): sessions that are nested, or share no node,
leave the nodes as before the first of them, and keep what they applied in force (an inner
session may take a node over, and gives it back), whatever the interleaving. Sessions that
cross do not: the last restore writes the other's profile.

`RefusalExplained` (`Contention`): sessions that cross included, the kernel refuses a write
only to a controller that lost one of two races. Either its rail was changed after `ApplyRail`
had read the minimum that decides the order of its writes; or it is restoring a pair of
values that were never on the rail at one time, because the minimum was changed between the two
reads that saved them. Such a pair may have min > max, and then no order of writes puts it
back; the saved state is dropped all the same. Neither what others left on a rail before a
call began, nor that the saved values are another's profile, makes a call fail. The run reaches
both races: without either of the two exceptions the property is violated.

`OneTable` (`ThreadAffinity`): however pins, resets and device switches interleave, a thread
runs where the kernel put it, on one cluster, or on all clusters of one device.

`CycleRestores`, `HealthyRestored`, `ProcessEnds` (`FreqCtl`): `cycle` exits with 0 only if
everything is as before; a process that leaves by itself, with any code, leaves the
healthy nodes as it found them; every process ends.

`RunScript`: after a cycle that was waited for and exited with 0 the verdict is PASS and all
of sysfs, tunables included, is as it was when the cycle started (`CleanCyclePasses`); FAIL
blames no node of a healthy rail unless the cycle was killed (`BlamesTheFaulty`); a DURING
snapshot that falls into the hold shows the profile (`DuringShowsProfile`); the script ends
whatever the cycle does (`HarnessEnds`); and when it has lost the cycle, by a timeout, a
failed snapshot or an interrupt, the cycle still brings the healthy nodes back
(`OrphanRestores`).

`GenDeviceConfig`: whatever could not be read, every emitted target is both sides of one rail
with 0 < min <= max and no node is used twice (`EmittedWellFormed`: `WellFormedTables` asks
no more of targets); both frequencies are in the table of that very rail (`IndexPicked`); the
r-th cluster has the CPUs of the policy behind the r-th target, and later ones are not slower
(`ClustersMatchRails`); a run that exits with 0 leaves a registry of exactly the headers there
are and a whole header of its own, whatever killed runs have left (`RegistryComplete`).

### What the code does not keep

Each of these runs checks one documented sentence and finds a counterexample.

| run | sentence | what happens |
|---|---|---|
| `claim_zero` | "A 0 frequency means 'do not change that side'" (`device_config.h:46`) | a target with only a maximum lowers the minimum when it is in the way, and has not saved it |
| `claim_restore` | "restores previous values" (`freq_controller.h:10`) | a node that held 0 is skipped by the restore, which returns true |
| `claim_set` | "After `set performance` [...] the freshly-read values should match" (`TABNINE.md:228`) | the destructor restores before the process exits |
| `claim_pass` | "PASS: AFTER matches BEFORE -- UnsetClocks restored correctly." (`run.py:240`) | also after a cycle that failed before it wrote anything, as with a custom name, which `run.py:156` offers and `freq_ctl` does not know |
| `claim_append` | "so the new SoC is appended to the runtime `Device` enum" (`README.md:130`) | the names are sorted and numbered anew: another device may become number 0 and the default |

Smaller differences met on the way, not checked by a run: an `UnsetClocks` that fails clears
the saved state as well, so that it cannot be tried again (`freq_controller.h:49` speaks of a
successful one); a `SetClocks` after `SetActiveDevice` applies the profile selected under the old device (`device_config.h:116`);
`clocks_applied()` stays false after a profile that writes no node (`freq_controller.h:54`);
`ResetThreadAffinity` leaves out online CPUs that no cluster lists (`thread_affinity.h:34`);
the help of `run.py`, and `TABNINE.md`, name five modes where the code has three.

Neither of the first two runs concerns the shipped tables: they have both sides of every rail,
no 0, and no node of their rails holds 0. `WellFormedTables` says so as assumptions.

### Bounds

* `core`: a rail with both sides, a node that has only a maximum, a sysfs-bound tunable and
  an application-readable one; frequencies 1..3, so that a new maximum can lie below, at and
  above the current minimum; two devices, one unregistered; two modes, one undeclared; a
  custom id, one unknown. Two targets are enough for a failure at the first, between the
  first and the second, and in the middle of one; the loops treat every element alike.
  Every node may fail.
* `s5e9955`: all six rails and three modes, starting unconstrained; one failing node on the
  first rail, so that the others come after it.
* `affinity`: three threads (one is gone), two devices with overlapping ids, masks of 4 bits,
  a cluster with an id of exactly the width, an offline CPU, an online CPU no table of the
  first device lists.
* `contention`: two profiles on one rail, above and below the range it starts in, one with a
  tunable, and one profile on another node; two initial ranges. A controller selects one
  profile in its life, and after a crossing no new session begins until both have ended
  (`MayOpen` with `Reopen = FALSE`), so that a controller saves at most once while the other
  one works across it. The theorems hold of both values of `Reopen`. No I/O failures, so that
  every refusal comes from the overlap.
* `freq_ctl`: two devices; a GPU rail with a failing node before a CPU rail; ids reduced
  modulo 16 in place of 2^32, with one that wraps to a known id; all commands, with known
  and unknown devices and profiles. Processes follow one another without bound: the states
  of `sysfs` are finitely many.
* `run_script`: the devices and failing nodes of `freq_ctl`, with command lines for a mode with
  two rails and a tunable, one that exists on the other device only, a custom profile by
  number, by a number that wraps to it and by name, and an unknown device. A new run starts
  when the cycle of the last one has ended.
* `gen_config`: a phone with two clusters, the faster one numbered lower, and devfreq nodes of
  both kinds, two of which match one pattern; one on the same SoC with five policies, two of
  them equally fast, so that skips leave any number of clusters and none skipped is one too
  many, and tables of one to six frequencies; a phone that tells its name in `ro.hardware`
  only; a phone without a usable name. Two SoCs, so that the second one probed may sort
  before the first.

No counter is unbounded: loop indices end with their tables, values come from the tables
and `InitSysfs`. The core never deadlocks (a dead object is constructed again), so deadlock
is checked in all runs.

### Fairness

`core` assumes weak fairness of the steps inside a call, and nothing of the caller: a call
does not wait for anything but system calls that return. `freq_ctl` assumes it of the
process as a whole (a runnable process runs, `sleep` ends), and nothing of launches and
kills. `run_script` assumes it of the script and of a `list` on the device; of a cycle it
assumes nothing, so that a cycle may hang, and `OrphanRestores` states the fairness of the
device as its own premise.

## Proofs

`FreqControllerInv_proofs` proves, in its first part, for every registry, content of the
nodes, set of failing nodes and set of ids:

* `TypeCorrect`: `HSpec => []TypeOK`. `TypeOK` is not inductive: that `SaveMax` finds an
  element at its index, and that the write steps have a rail, needs `Shape`, which ties the
  loop index to the lengths of the locals and of the list that is written.
* `NeverAbortsHolds`: `HSpec => []NeverAborts`. The setters store only registered devices, the
  initial device is the first entry.

The invariant of both is `TypeInv == TypeOK /\ NeverAborts /\ Shape`; `InitTypes` and
`StepTypes` are the two halves of the induction, with one lemma for each group of actions.
They rest on `RegistryAssumption` (the registry is a non-empty, typed sequence),
`InitSysfsAssumption` and `NoPathAssumption`, and on lemmas about the table lookups
(`FindEntryType`, `RegisteredFound`, `FoundMode`, ...), which need that a set of naturals has
a minimum.

The other parts prove, for every well-formed registry (`TablesWellFormed`), every
content of the nodes the kernel admits in which no rail starts at 0 (`NoRailAtZero`), and
every set of failing nodes:

* `AlwaysRecoverable`: `HSpec => []Recoverable`, of the most recent `SetClocks`, as said above.
* `RestoresExactly`: `HSpec => []RestoreExact`.
* `RestoresHealthyRails`: `HSpec => []HealthyRestored`.
* `OrdersItsWrites`: `HSpec => []WritesOrdered`.

None of the four is inductive; all follow from `Inv` (`InvInvariant`: `HSpec => []Inv`), which
adds what the code relies on between its steps:

| part of `Inv` | says | needed for |
|---|---|---|
| `Good` | rails are ordered and no rail node holds 0, in `sysfs` and in `baseline` | a restored rail is again a well-formed target (`RestoreWF`) |
| `SelectionOK` | the selection comes from a profile of the tables | every target written is well formed |
| `Saving` | in the first half of `SetClocks` the locals are a snapshot of `sysfs` for the targets passed | the snapshot the second half starts with |
| `OwnerOK` | the saved state that counts is a snapshot of `baseline` | the values a restore writes |
| `WritesSaved`, `Covered` | all a call may write is saved; all that differs from `baseline` is saved | `Recoverable` |
| `MidRail` | in the middle of a rail: what `ApplyRail` found, or what its first write left | `WritesOrdered` |
| `Restoring` | the nodes a restore has passed are back, unless a failure explains it | `RestoreExact`, `HealthyRestored` |
| `DeadEmpty`, `Shape`, types | | the above |

"The saved state that counts" is the crux: during the second half of `SetClocks` it is the
function's local vectors, because every way out of it commits them, and otherwise the
object's (`Owner`). Three lemmas carry most of the induction: `AtRest` (a step after which no
call runs keeps the saved state, or nothing is owed), `NodeWritten` (a write of a saved node
keeps `Good` and `Covered` and, in a restore, puts that node back) and `OrderedWrites` (the
next write is one the kernel takes), from which `RailFailure` concludes that a failing
restore has met a faulty node of the same rail.

Two more results rest on `Inv`:

* `AppliesExactly`: `HSpec => []AppliedExact`. How far a `SetClocks` has come (`Applying`, the
  counterpart of `Restoring`) is inductive because no later write of a profile touches an
  earlier one's node (`SelectionApart`, from `NoOverlap`); `AppliedInvariant` adds that what a
  call returned stays true until the next one.
* `ImplementsUndoLog` (`FreqControllerViews_proofs`): `HSpec => Refines`, the initial
  states and every step of the controller mapped to `UndoLog`. `Saving` makes the vectors that
  were collected read by read the snapshot of one instant, `WritesSaved` makes every write one
  of a logged node, and `Restoring` lets a restore that ends drop the log.

`Contention_proofs` proves, for two controllers, registries and contents of the nodes as
above, and no failing node (`NoFailures`: a node that fails keeps what it has, and a refused
write could not be put down to the overlap):

* `NestedRestoresHolds`: `CSpec => []NestedRestores`.
* `NestedAppliesHolds`: `CSpec => []NestedApplies`.
* `RefusalExplainedHolds`: `CSpec => RefusalExplained`, an action property.

The first two follow from `ContInv` (`ContentionInvariant`), in two layers. The first, `Own`, a
controller keeps whatever the other one writes, crossed or not: types, the shape of its
call, that selection and saved state name nodes of its profile only, that the side about to
be written has a value. The second holds while `~crossed`: each controller keeps the `Inv` and
`AppliedInv` of a controller that is alone, with `sysfs` replaced by its view and `baseline` by
its base. The view (`ViewA`) is the content `sysfs` would have if the other session had not
begun: its own nodes hold what they hold, or what they held when the inner session began
(`under`) where that one has them; all other nodes hold what they held at the `start`. The base
of the inner controller is `under` on its own nodes. So a step of one controller is a stutter
of the other's view, and a step of its own is a step of the controller alone, of which
`FreqControllerInv_proofs` is instantiated with the view in place of `sysfs`; nothing is proved
twice. That the view really is what a controller reads and writes while it works (`AloneA`) is
where crossing matters: the outer one must not move on a node the inner one has. When a
session ends `Restoring` makes its view equal to its base, which hands the nodes back.

The third needs nothing of nesting. It follows from the first layer and `Calm`
(`CalmInvariant`), which is what is left of the second when sessions cross: unless a
controller is `torn`, every pair it has saved is a well-formed target, one that `ApplyRail` can
put on the rail (`SnapshotsWhole`, with the pair being read tied to the node it has half
read); unless it is `stale`, and if it restores also not `torn`, what it knows in the middle of
a rail is still so (`MidRail`). An own step keeps both, by what it reads or writes itself; a
step of the other one keeps them unless it changes one of the nodes concerned, which is what
sets `torn` and `stale`. And a controller with both meets no refusal, for then its next write
is one the kernel takes (`RailAccepted`).

`FreqControllerViews_proofs` shows what is needed of one controller: for the views `OwnStep`,
`OwnOthers`, `SessionBegins`, `SessionGoesOn`, `SessionWaits` and `SessionEnds`; for `Calm`
`WholeStep`, `WholeOthers`, `WholeClosed`, `RailSameCall`, `MidRailStep`, `MidRailOthers` and
`NoRefusal`. `Contention_proofs` shows from the history what a step does to the views
(`GoesOnSeenA`, ...), that `ContInv` and `Calm` are inductive if each controller keeps its part
(`KeepsA`, `ReadsA`, and the same of B), and last that each does (`ControllerA`, `GoesByA`, ...).
The bound on the selection (one profile in the life of a controller) is that of the theorems
as well; `MayOpen` is not, as `Reopen` is any Boolean.

`ThreadAffinity_proofs` proves, for every registry, number of threads, width of the mask and
set of online CPUs, `AffinityTypeCorrect` (`[]AffinityTypeOK`) and `PinsToOneTable`
(`[]OneTable`). The invariant (`AffinityInv`) adds `CallOneTable`: the mask of a call that waits
for the system call is that of one table, also when the device has been switched since, and
that the active device is registered.

`FreqCtl_proofs` proves, for well-formed tables and every set of command lines (typed as
`InvocationAssumption` says):

* `CycleAlwaysRestores`: `CtlSpec => []CycleRestores`.
* `LeavesHealthyRestored`: `CtlSpec => []HealthyRestored`.

The tool has no variable `baseline`; what its controller owes is what the process found, while
something is written or saved, and what `sysfs` holds otherwise (`Owed`). With `Owed` in its
place the tool's controller keeps `FreqControllerInv!Inv`, and its steps are taken from the
theorems of `FreqControllerInv_proofs`, instantiated, not from a second proof. `CtlInv` adds
where the process and its controller stand together (`Stage`), that nothing has changed before
the first write (`Untouched`), that what is no longer owed is back on the healthy rails
(`Settled`), and that a cycle about to report success has nothing left to restore (`CycleDone`).

`RunScript_proofs` proves, for the same tables and command lines of the script
(`RunLineAssumption`: it passes a profile and perhaps a device):

* `PassesCleanCycles`: `RunSpec => []CleanCyclePasses`.
* `BlamesOnlyTheFaulty`: `RunSpec => []BlamesTheFaulty`.

`RunInv` extends `CtlInv`: a snapshot shows what the watched nodes hold (`Shows`), BEFORE what
they held when the cycle started (`BeforeStarted`), which needs that the script runs nothing
on the device meanwhile, and AFTER what the cycle left, if it was waited for (`AfterLeft`). The
verdict then compares `started` with `sysfs` on the watched nodes, and the two theorems about
`FreqCtl` say how these differ.

It proves as well

* `DuringShows`: `RunSpec => []DuringShowsProfile`.
* `RunTypeCorrect`: `RunSpec => []RunTypeOK`.

The first says that two programs which find a profile in different ways mean the same one:
the script matches the headers that `list` prints, the tool searches its tables for a mode, or
for a number cut to 32 bits. It follows from `ShownInv`: a process beyond `--device` is on the
device it was told, or on the first one (`DeviceChosen`); from `ResolveProfile` to the end of
the sleep the selection is a profile of the table that the argument names, and in the sleep it
is applied (`ProfileSelected`, with the `AppliedInv` of the controller); the process on the
device has the script's own arguments (`Launched`); every watched rail is one of a profile
that matches them (`RailsListed`); and a snapshot that saw the cycle asleep only shows the
announced values (`HeldShows`). `OneProfile` joins the two searches; it needs
`ProfilesDistinct`: no table has two modes of one name or two custom profiles of one id, and
an id is a `uint32_t`. The generator emits each mode once and no custom profile; in a table
with a repeated id the script would watch the rails of both profiles and the tool apply the
first. A custom profile that bears the name of a mode is not considered.

`GenDeviceConfig_proofs` proves, for every set of phones (`PhoneAssumption`: the rails of a
phone differ and no node matches two of the three name patterns), every sanitising function
and every order of the names:

* `EmitsWellFormed`: `GenSpec => []EmittedWellFormed`.
* `PicksByIndex`: `GenSpec => []IndexPicked`.
* `MatchesClusters`: `GenSpec => []ClustersMatchRails`.

* `GenTypeCorrect`: `GenSpec => []GenTypeOK`.
* `CompletesRegistry`: `GenSpec => RegistryComplete`, an action property.

The first three follow from `GenInv` (`GenInvariant`): the probed phone is a phone, the policies read and
to be read are its own, the collected rails are those of the policies read followed by nodes
of different needles, and every whole header was built from such a probe. The lemmas below it
are about ranks (`RankGrows`, `RankRange`, `NthRank`, `NthNumber`: `Nth` enumerates a finite
ordered set, in order), the rounding (`PickIndexRange`: an index never leaves the list) and
the pairs picked (`PickedPair`: both are elements, the minimum is not above the maximum).
They close the gap between the generator and the library: `EmittedWellFormed` is the first
conjunct of `TablesWellFormed`, and the second holds of generated tables because none of
their tunables has a path.

The last two need `ScanInv` (`ScanInvariant`): whole headers are tables of the library, which
has labels for the number of policies read, and from its scan on a run knows its own header
to be whole and its list of names to be that of the headers there are: a user deletes headers
between runs only, and only one generator runs. `InOrderFacts` says that the sorted list has
every name.

Only model-checked:

* Liveness (`CallsReturn`, `ProcessEnds`, `HarnessEnds`, `OrphanRestores`), which the prover
  cannot do.
* The shipped tables (`S5E9955`): that they are well formed is evaluated by TLC, which makes
  the theorems about well-formed tables hold of them.

## Not modelled

* The text of the nodes: a node holds a number. What `strtoull` does with a negative or
  empty text, and a value above 2^64, are left out.
* Kernels that clamp or round a written frequency, or move a limit on their own (thermal).
* The output of `list` and `devices` beyond the tables it shows. `probe` is modelled for its
  exit code: it looks at the paths of the modes only and counts those that do not exist.
* A second harness, or one started while a cycle of the last one still runs: `Contention`
  says what two controllers do to each other.
* Two generators at once, and hand edits of generated headers (the custom profiles
  `TABNINE.md:298` suggests to add are overwritten by the next probe).
* What the sanitiser makes of a string (a function the instance gives), the C++ text of the
  headers, and headers with only one of Samsung's two files.
* A build without any header: its registry has a null configuration, which the library
  would follow. The library models take a registry of real ones.
* Usage errors of `freq_ctl` other than an unknown command (a wrong number of arguments): they
  exit as that one does, before there is a controller.
* Two needles of the generator that choose one node: `PhoneAssumption` excludes such phones.
* The order of `_KNOWN_CLUSTER_ENUMS`, in which the clusters are emitted: it is that of the
  labels `_policy_labels` gives by rank, so `EmitClusters` goes by rank.
* The build files: they keep no state of the system.
* `SetActiveDevice` during a `SetClocks` of another thread: `SetClocks` does not look at the
  active device, so it makes no difference.

## Plan

1. `Contention` with failing nodes: what of `NestedRestores` is left on the healthy rails,
   as `HealthyRestored` says it of one controller.
2. `Contention` with controllers that select again while a profile is applied.
