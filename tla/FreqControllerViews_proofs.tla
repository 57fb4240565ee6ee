----------------------- MODULE FreqControllerViews_proofs -----------------------
(***************************************************************************)
(* The controller seen from outside, in two ways.  Alone, it implements    *)
(* UndoLog: every initial state is one of the log, and every step is a     *)
(* step of the log or leaves it as it is.  Among others, it keeps Own      *)
(* whatever they write, and as long as the nodes of its profile hold what  *)
(* view says it behaves as a controller that is alone and sees view.       *)
(***************************************************************************)
EXTENDS FreqControllerRefinement, ControllerSession, FreqControllerInv_proofs

VARIABLE view

V == INSTANCE FreqControllerInv_proofs WITH sysfs <- view

-------------------------------------------------------------------------------
(* The log, in terms of the invariant. *)

Entry(p) == [node |-> p, value |-> baseline[p]]

\* The log holds the baseline value of every saved node, and nothing else.
LEMMA UndoEntries ==
  ASSUME Inv
  PROVE  Undo = {Entry(p) : p \in {q \in Path : SavedPath(q)}}
<1> DEFINE Saved == {q \in Path : SavedPath(q)}
<1>1. ASSUME NEW s \in ToSet(Owner.saved_rails)
      PROVE  /\ s.has_min => /\ s.min_path \in Saved
                             /\ s.prev_min = baseline[s.min_path]
             /\ s.has_max => /\ s.max_path \in Saved
                             /\ s.prev_max = baseline[s.max_path]
  <2>1. PICK j \in DOMAIN Owner.saved_rails : s = Owner.saved_rails[j]
    BY DEF ToSet
  <2>2. PICK t \in AllTargets : s = Snapshot(t, baseline)
    BY <2>1 DEF Inv, OwnerOK
  <2>3. WF(t)
    BY <2>2, TargetWF
  <2>4. /\ s.min_path = t.min_path /\ s.max_path = t.max_path
        /\ s.has_min <=> WantMin(t)
        /\ s.has_max <=> WantMax(t)
        /\ s.has_min => s.prev_min = baseline[t.min_path]
        /\ s.has_max => s.prev_max = baseline[t.max_path]
    BY <2>2 DEF Snapshot
  <2> QED
    BY <2>1, <2>3, <2>4, WantedNodes DEF SavedPath
<1>2. ASSUME NEW u \in ToSet(Owner.saved_tunables)
      PROVE  u.sysfs_path \in Saved /\ u.prev_value = baseline[u.sysfs_path]
  <2>1. PICK j \in DOMAIN Owner.saved_tunables : u = Owner.saved_tunables[j]
    BY DEF ToSet
  <2>2. u \in SavedTunable
    BY <2>1, InvTypes DEF Owner, FrameType, ImplType
  <2> QED
    BY <2>1, <2>2 DEF Inv, OwnerOK, SavedTunableOK, SavedPath, SavedTunable
<1>3. ASSUME NEW e \in Undo PROVE e \in {Entry(p) : p \in Saved}
  BY <1>1, <1>2 DEF Undo, SavedMins, SavedMaxes, Entry
<1>4. ASSUME NEW p \in Saved PROVE Entry(p) \in Undo
  <2>1. CASE \E j \in DOMAIN Owner.saved_rails :
               LET s == Owner.saved_rails[j]
               IN  (s.has_min /\ s.min_path = p) \/ (s.has_max /\ s.max_path = p)
    <3>1. PICK s \in ToSet(Owner.saved_rails) :
            (s.has_min /\ s.min_path = p) \/ (s.has_max /\ s.max_path = p)
      BY <2>1 DEF ToSet
    <3> QED
      BY <1>1, <3>1 DEF Undo, SavedMins, SavedMaxes, Entry
  <2>2. CASE \E j \in DOMAIN Owner.saved_tunables : Owner.saved_tunables[j].sysfs_path = p
    <3>1. PICK u \in ToSet(Owner.saved_tunables) : u.sysfs_path = p
      BY <2>2 DEF ToSet
    <3> QED
      BY <1>2, <3>1 DEF Undo, Entry
  <2> QED
    BY <2>1, <2>2 DEF SavedPath
<1> QED
  BY <1>3, <1>4

LEMMA SameUndo ==
  ASSUME SameOwner
  PROVE  Undo' = Undo
BY DEF Undo, SavedMins, SavedMaxes, SameOwner

\* Where the call stands decides over the log's phase.
PhaseOK ==
  /\ frame.pc \in WritePc /\ Setting => Phase = "applying"
  /\ frame.pc \in WritePc /\ ~Setting => Phase = "restoring"
  /\ frame.pc = "dead" => Phase = "dead"
  /\ frame.pc \in {"idle"} \cup SavePc => Phase = "idle"

LEMMA PhaseIs == PhaseOK /\ PhaseOK'
BY DEF PhaseOK, Phase, WritePc, SavePc

\* The log is untouched by a step that moves no node, no saved state and, in a
\* restore, no result.
LEMMA Stutter ==
  ASSUME UNCHANGED sysfs, SameOwner, Phase' = Phase,
         Phase = "restoring" => (frame'.ok <=> frame.ok)
  PROVE  UNCHANGED Log!vars
BY SameUndo DEF Log!vars

\* What the log promises of a finished restore.
LEMMA AllRestored ==
  ASSUME Inv, WritesEnd, ~Setting, NEW e \in Undo
  PROVE  sysfs[e.node] = e.value \/ (~frame.ok /\ e.node \in Path \ Healthy)
<1>1. PICK p \in Path : e = Entry(p)
  BY UndoEntries
<1> QED
  BY <1>1, AllBack DEF Back, Entry

-------------------------------------------------------------------------------
(* The steps. *)

\* One write of a call; next is the frame after its success.
LEMMA WriteNodeLogged ==
  ASSUME Inv, Inv', HNext, frame.pc \in WritePc, NEW p \in Path, NEW v \in Nat,
         SavedPath(p), ~Setting => v = baseline[p],
         NEW next, WriteNode(p, v, next),
         frame' = next /\ UNCHANGED impl => Writing /\ (frame'.ok <=> frame.ok)
  PROVE  Log!Next
<1>1. Entry(p) \in Undo
  BY UndoEntries
<1>2. CASE WriteSucceeds(p, v) /\ frame' = next /\ UNCHANGED impl
  <2>1. Writing /\ (frame'.ok <=> frame.ok)
    BY <1>2
  <2>2. (Setting' <=> Setting) /\ SameOwner
    BY <2>1 DEF Writing, Setting, SameOwner, Owner
  <2>3. Undo' = Undo
    BY <2>2, SameUndo
  <2>4. sysfs' = [sysfs EXCEPT ![p] = v] /\ sysfs' \in [Path -> Nat] /\ sysfs \in [Path -> Nat]
    BY <1>2, InvTypes DEF WriteSucceeds
  <2>5. CASE Setting
    <3>1. Phase = "applying" /\ Phase' = "applying"
      BY <2>1, <2>2, <2>5, PhaseIs DEF Writing, PhaseOK
    <3>2. p \in Log!Logged
      BY <1>1 DEF Log!Logged, Entry
    <3>3. Log!Change
      BY <2>3, <2>4, <3>1, <3>2 DEF Log!Change
    <3> QED
      BY <3>3 DEF Log!Next
  <2>6. CASE ~Setting
    <3>1. Phase = "restoring" /\ Phase' = "restoring"
      BY <2>1, <2>2, <2>6, PhaseIs DEF Writing, PhaseOK
    <3>2. Entry(p).node = p /\ Entry(p).value = v
      BY <2>6 DEF Entry
    <3>3. Log!PutBack
      BY <1>1, <2>1, <2>3, <2>4, <3>1, <3>2 DEF Log!PutBack
    <3> QED
      BY <3>3 DEF Log!Next
  <2> QED
    BY <2>5, <2>6
<1>3. CASE /\ WriteFails(p, v) /\ Setting
           /\ impl' = Commit /\ frame' = Returned("set", FALSE)
  <2>1. frame'.pc = "idle" /\ UNCHANGED sysfs
    BY <1>3, ReturnedTyped DEF Ops, WriteFails
  <2>2. Phase = "applying" /\ Phase' = "idle"
    BY <1>3, <2>1, PhaseIs DEF PhaseOK
  <2>3. SameOwner
    BY <1>3, <2>1, InvTypes DEF SameOwner, Owner, Commit, ImplType, WritePc
  <2>4. Log!EndApply
    BY <2>1, <2>2, <2>3, SameUndo DEF Log!EndApply
  <2> QED
    BY <2>4 DEF Log!Next
<1>4. CASE /\ WriteFails(p, v) /\ ~Setting
           /\ frame' = [frame EXCEPT !.ok = FALSE, !.i = @ + 1,
                                     !.pc = IF @ = "tunable" THEN "tunable" ELSE "rail"]
           /\ UNCHANGED impl
  <2>1. UNCHANGED baseline
    <3>1. frame'.pc \in {"tunable", "rail"}
      BY <1>4, InvTypes DEF FrameType
    <3> QED
      BY <1>4, <3>1, BaselineKept
  <2>2. Writing /\ frame'.ok = FALSE
    BY <1>4, <2>1, FrameFailed
  <2>3. ~Setting' /\ SameOwner
    BY <1>4, <2>2 DEF Writing, Setting, SameOwner, Owner
  <2>4. Phase = "restoring" /\ Phase' = "restoring"
    BY <1>4, <2>2, <2>3, PhaseIs DEF Writing, PhaseOK
  <2>5. UNCHANGED sysfs /\ Undo' = Undo
    BY <1>4, <2>3, SameUndo DEF WriteFails
  <2>6. Log!Fail
    BY <2>2, <2>4, <2>5 DEF Log!Fail
  <2> QED
    BY <2>6 DEF Log!Next
<1> QED
  BY <1>2, <1>3, <1>4 DEF WriteNode

\* The four writes in the middle of a rail.
LEMMA RailStepsLogged ==
  ASSUME Inv, Inv', HNext, WriteMinFirst \/ WriteMaxLast \/ WriteMaxFirst \/ WriteMinLast
  PROVE  Log!Next
<1>1. frame.pc \in RailPc /\ frame.pc \in WritePc
  BY DEF WriteMinFirst, WriteMaxLast, WriteMaxFirst, WriteMinLast, RailPc, WritePc
<1>2. PICK next :
        /\ WriteNode(PendingWrite[1], PendingWrite[2], next)
        /\ \/ next = NextRail
           \/ \E pc \in {"max_last", "min_last"} : next = [frame EXCEPT !.pc = pc]
  BY DEF PendingWrite, WriteMinFirst, WriteMaxLast, WriteMaxFirst, WriteMinLast
<1>3. ASSUME frame' = next, UNCHANGED impl
      PROVE  Writing /\ (frame'.ok <=> frame.ok)
  <2>1. CASE next = NextRail
    <3>1. NextRail.pc = "rail"
      BY InvTypes, NextRailTyped
    <3>2. UNCHANGED baseline
      BY <1>1, <1>3, <2>1, <3>1, BaselineKept
    <3> QED
      BY <1>1, <1>3, <2>1, <3>2, FrameAdvanced
  <2>2. CASE \E pc \in {"max_last", "min_last"} : next = [frame EXCEPT !.pc = pc]
    <3>1. PICK pc \in {"max_last", "min_last"} : frame' = [frame EXCEPT !.pc = pc]
      BY <1>3, <2>2
    <3>2. frame'.pc = pc /\ pc \in WritePc
      BY <3>1, InvTypes DEF FrameType, WritePc
    <3>3. UNCHANGED baseline
      BY <1>1, <3>2, BaselineKept
    <3> QED
      BY <1>1, <1>3, <3>1, <3>2, <3>3, FrameMoved
  <2> QED
    BY <1>2, <2>1, <2>2
<1>4. /\ PendingWrite[1] \in Path /\ PendingWrite[2] \in Nat /\ SavedPath(PendingWrite[1])
      /\ ~Setting => PendingWrite[2] = baseline[PendingWrite[1]]
  BY <1>1, PendingNode
<1> QED
  BY <1>1, <1>2, <1>3, <1>4, WriteNodeLogged

\* The steps of the loops that write nothing.
LEMMA LoopStepsLogged ==
  ASSUME Inv, HNext, ApplyRail \/ RailsEnd \/ SkipTunable
  PROVE  UNCHANGED Log!vars
<1>1. frame.pc \in WritePc /\ UNCHANGED <<sysfs, impl>>
  BY DEF ApplyRail, RailsEnd, SkipTunable, WritePc, Local
<1>2. /\ frame'.pc \in WritePc /\ frame'.op = frame.op /\ (frame'.ok <=> frame.ok)
      /\ frame'.saved_rails = frame.saved_rails
      /\ frame'.saved_tunables = frame.saved_tunables
  BY InvTypes DEF ApplyRail, RailsEnd, SkipTunable, NextRail, WritePc, FrameType
<1>3. (Setting' <=> Setting) /\ SameOwner
  BY <1>1, <1>2 DEF Setting, SameOwner, Owner
<1>4. Phase' = Phase
  BY <1>1, <1>2, <1>3, PhaseIs DEF PhaseOK
<1> QED
  BY <1>1, <1>2, <1>3, <1>4, Stutter

\* A restore ends.
LEMMA RestoreEnds ==
  ASSUME Inv, WritesEnd, ~Setting, UNCHANGED sysfs, frame'.pc \in {"idle", "dead"},
         impl'.saved_rails = <<>>, impl'.saved_tunables = <<>>
  PROVE  Log!Next
<1>1. frame.pc \in WritePc /\ frame'.pc \notin WritePc
  BY DEF WritesEnd, WritePc
<1>2. Phase = "restoring" /\ Phase' \in {"idle", "dead"}
  BY <1>1, PhaseIs DEF PhaseOK
<1>3. Undo' = {}
  BY <1>1 DEF Undo, SavedMins, SavedMaxes, Owner, ToSet
<1>4. \A e \in Undo : sysfs[e.node] = e.value \/ (~frame.ok /\ e.node \in Path \ Healthy)
  BY AllRestored
<1>5. Log!EndRestore
  BY <1>2, <1>3, <1>4 DEF Log!EndRestore
<1> QED
  BY <1>5 DEF Log!Next

LEMMA WriteStepsLogged ==
  ASSUME Inv, Inv', HNext, Write
  PROVE  [Log!Next]_Log!vars
<1>1. CASE WriteMinFirst \/ WriteMaxLast \/ WriteMaxFirst \/ WriteMinLast
  BY <1>1, RailStepsLogged
<1>2. CASE ApplyRail \/ RailsEnd \/ SkipTunable
  BY <1>2, LoopStepsLogged
<1>3. CASE WriteTunable
  <2> DEFINE path == Tunables[frame.i].sysfs_path
             value == Tunables[frame.i].value
             next == [frame EXCEPT !.i = @ + 1]
  <2>1. /\ frame.pc = "tunable" /\ frame.pc \in WritePc /\ More(Tunables)
        /\ PathPresent(path) /\ WriteNode(path, value, next)
    BY <1>3 DEF WriteTunable, WritePc
  <2>2. /\ path \in Path /\ value \in Nat /\ SavedPath(path)
        /\ ~Setting => value = baseline[path]
    BY <2>1, CurrentTunable
  <2>3. next.pc = "tunable" /\ next.op = frame.op /\ (next.ok <=> frame.ok)
        /\ next.saved_rails = frame.saved_rails /\ next.saved_tunables = frame.saved_tunables
    BY <2>1, InvTypes DEF FrameType
  <2>4. ASSUME frame' = next, UNCHANGED impl
        PROVE  Writing /\ (frame'.ok <=> frame.ok)
    <3>1. UNCHANGED baseline
      BY <2>1, <2>3, <2>4, BaselineKept
    <3> QED
      BY <2>1, <2>3, <2>4, <3>1 DEF Writing
  <2> HIDE DEF path, value, next
  <2>5. Log!Next
    BY <2>1, <2>2, <2>4, WriteNodeLogged
  <2> QED
    BY <2>5
<1>4. CASE SetReturns
  <2>1. frame.pc \in WritePc /\ Setting /\ UNCHANGED sysfs
    BY <1>4 DEF SetReturns, WritesEnd, WritePc
  <2>2. frame'.pc = "idle"
    BY <1>4, ReturnedTyped DEF SetReturns, Ops
  <2>3. Phase = "applying" /\ Phase' = "idle"
    BY <2>1, <2>2, PhaseIs DEF PhaseOK
  <2>4. SameOwner
    BY <1>4, <2>1, <2>2, InvTypes DEF SetReturns, SameOwner, Owner, Commit, ImplType, WritePc
  <2>5. Log!EndApply
    BY <2>1, <2>3, <2>4, SameUndo DEF Log!EndApply
  <2> QED
    BY <2>5 DEF Log!Next
<1>5. CASE UnsetReturns \/ Destroyed
  <2>1. WritesEnd /\ ~Setting /\ UNCHANGED sysfs
    BY <1>5 DEF UnsetReturns, Destroyed, Setting
  <2>2. frame'.pc \in {"idle", "dead"}
    BY <1>5 DEF UnsetReturns, Destroyed, Returned, Enter, Dead
  <2>3. impl'.saved_rails = <<>> /\ impl'.saved_tunables = <<>>
    <3>1. CASE UnsetReturns
      BY <3>1, InvTypes DEF UnsetReturns, ImplType
    <3>2. CASE Destroyed
      BY <3>2 DEF Destroyed, NewImpl
    <3> QED
      BY <1>5, <3>1, <3>2
  <2> QED
    BY <2>1, <2>2, <2>3, RestoreEnds
<1> QED
  BY <1>1, <1>2, <1>3, <1>4, <1>5 DEF Write

-------------------------------------------------------------------------------
\* The first half of SetClocks is invisible, up to the step that begins to write:
\* there the log takes the snapshot.
LEMMA SaveStepsLogged ==
  ASSUME Inv, Inv', HNext, Save
  PROVE  [Log!Next]_Log!vars
<1>1. UNCHANGED <<sysfs, impl>> /\ frame.pc \in SavePc
  BY DEF Save, SaveMin, SaveMax, SaveRailsEnd, SaveTunable, SaveTunablesEnd, SaveFails,
         Local, SavePc
<1>2. Phase = "idle"
  BY <1>1, PhaseIs DEF PhaseOK
<1>3. CASE ~SaveTunablesEnd
  <2>1. frame'.pc \in {"idle"} \cup SavePc
    BY <1>3, InvTypes
    DEF Save, SaveMin, SaveMax, SaveRailsEnd, SaveTunable, SaveFails, FrameType, SavePc,
        Returned, Enter
  <2>2. Phase' = "idle"
    BY <2>1, PhaseIs DEF PhaseOK
  <2>3. SameOwner
    BY <1>1, <2>1 DEF SameOwner, Owner, SavePc, WritePc
  <2> QED
    BY <1>1, <1>2, <2>2, <2>3, Stutter
<1>4. CASE SaveTunablesEnd
  <2>1. /\ frame'.pc = "rail" /\ frame'.op = frame.op /\ frame'.ok = frame.ok
        /\ frame.op = "set" /\ frame.pc = "save_tunable"
    BY <1>1, <1>4, InvTypes DEF SaveTunablesEnd, FrameType, TypeInv, TypeOK
  <2>2. baseline' = sysfs
    BY <1>1, <2>1 DEF HNext, BeginsWriting
  <2>3. Phase' = "applying"
    BY <2>1, PhaseIs DEF PhaseOK, Setting, WritePc
  <2> DEFINE D == {q \in Path : SavedPath(q)'}
  <2>4. Undo' = {[node |-> p, value |-> baseline'[p]] : p \in D}
    <3>1. (Inv => Undo = {Entry(p) : p \in {q \in Path : SavedPath(q)}})'
      BY UndoEntries, PTL
    <3> QED
      BY <3>1 DEF Entry
  <2>5. D \in SUBSET Path
    OBVIOUS
  <2> HIDE DEF D
  <2>6. Log!BeginApply
    BY <1>1, <1>2, <2>2, <2>3, <2>4, <2>5 DEF Log!BeginApply
  <2> QED
    BY <2>6 DEF Log!Next
<1> QED
  BY <1>3, <1>4

\* What a caller does between the calls.
LEMMA CallStepsLogged ==
  ASSUME Inv, Inv', HNext, Call \/ Crash
  PROVE  [Log!Next]_Log!vars
<1>1. ASSUME frame.pc \in {"idle", "dead"}, frame'.pc \in {frame.pc} \cup SavePc,
             UNCHANGED sysfs,
             impl'.saved_rails = impl.saved_rails, impl'.saved_tunables = impl.saved_tunables,
             frame.pc = "dead" => frame'.pc = "dead"
      PROVE  UNCHANGED Log!vars
  <2>1. frame.pc \notin WritePc /\ frame'.pc \notin WritePc
    BY <1>1 DEF WritePc, SavePc
  <2>2. SameOwner
    BY <1>1, <2>1 DEF SameOwner, Owner
  <2>3. Phase' = Phase /\ Phase # "restoring"
    BY <1>1, PhaseIs DEF PhaseOK
  <2> QED
    BY <1>1, <2>2, <2>3, Stutter
<1>2. CASE \/ \E device \in Device : SetActiveDevice(device)
           \/ \E soc_name \in SocName : SetActiveDeviceByName(soc_name)
  <2>1. frame'.pc = frame.pc /\ ~Running /\ UNCHANGED <<sysfs, impl>>
    BY <1>2, InvTypes, DeviceStepTypes
  <2> QED
    BY <1>1, <2>1 DEF Running
<1>3. CASE \/ \E mode \in FrequencyMode : SetFrequencyMode(mode)
           \/ \E id \in CustomId : SetFrequencyCustomId(id)
  <2>1. PICK op, table, k : Select(op, table, k)
    BY <1>3 DEF SetFrequencyMode, SetFrequencyCustomId
  <2>2. /\ frame.pc = "idle" /\ frame'.pc = "idle" /\ UNCHANGED sysfs
        /\ impl'.saved_rails = impl.saved_rails
        /\ impl'.saved_tunables = impl.saved_tunables
    BY <2>1, InvTypes DEF Select, Idle, Returned, Enter, ImplType
  <2> QED
    BY <1>1, <2>2
<1>4. CASE SetClocks
  <2>1. frame.pc = "idle" /\ frame'.pc \in {"idle", "save_min"} /\ UNCHANGED <<sysfs, impl>>
    BY <1>4 DEF SetClocks, Idle, Returned, Enter
  <2> QED
    BY <1>1, <2>1 DEF SavePc
\* A restore begins.
<1>5. ASSUME Idle, NEW op \in {"unset", "dtor"}, frame' = Enter("rail", op),
             UNCHANGED <<sysfs, impl>>
      PROVE  Log!Next
  <2>1. frame.pc = "idle" /\ frame'.pc = "rail" /\ frame'.op = op /\ frame'.ok = TRUE
    BY <1>5 DEF Idle, Enter
  <2>2. Phase = "idle" /\ Phase' = "restoring"
    BY <1>5, <2>1, PhaseIs DEF PhaseOK, Setting, WritePc
  <2>3. SameOwner
    BY <1>5, <2>1 DEF SameOwner, Owner, WritePc, Setting
  <2>4. Log!BeginRestore
    BY <1>5, <2>1, <2>2, <2>3, SameUndo DEF Log!BeginRestore
  <2> QED
    BY <2>4 DEF Log!Next
<1>6. CASE UnsetClocks
  <2>1. CASE clocks_applied
    BY <1>5, <1>6, <2>1 DEF UnsetClocks, Local
  <2>2. CASE ~clocks_applied
    <3>1. frame.pc = "idle" /\ frame'.pc = "idle" /\ UNCHANGED <<sysfs, impl>>
      BY <1>6, <2>2 DEF UnsetClocks, Idle, Returned, Enter, Local
    <3> QED
      BY <1>1, <3>1
  <2> QED
    BY <2>1, <2>2
\* The log goes with the object.
<1>7. ASSUME frame'.pc = "dead", impl' = NewImpl, UNCHANGED sysfs
      PROVE  Log!Next
  <2>1. Phase' = "dead"
    BY <1>7, PhaseIs DEF PhaseOK
  <2>2. Undo' = {}
    BY <1>7 DEF Undo, SavedMins, SavedMaxes, Owner, ToSet, NewImpl, WritePc
  <2>3. Log!Die
    BY <1>7, <2>1, <2>2 DEF Log!Die
  <2> QED
    BY <2>3 DEF Log!Next
<1>8. CASE Destroy
  <2>1. CASE clocks_applied
    BY <1>5, <1>8, <2>1 DEF Destroy
  <2>2. CASE ~clocks_applied
    BY <1>7, <1>8, <2>2 DEF Destroy, Dead, Enter
  <2> QED
    BY <2>1, <2>2
<1>9. CASE Construct
  <2>1. frame.pc = "dead" /\ frame'.pc = "idle" /\ UNCHANGED <<sysfs, impl>>
    BY <1>9 DEF Construct, Enter, Local
  <2>2. Phase = "dead" /\ Phase' = "idle"
    BY <2>1, PhaseIs DEF PhaseOK
  <2>3. SameOwner
    BY <2>1 DEF SameOwner, Owner, WritePc
  <2>4. Log!StartAnew
    BY <2>1, <2>2, <2>3, SameUndo DEF Log!StartAnew
  <2> QED
    BY <2>4 DEF Log!Next
<1>10. CASE Crash
  BY <1>7, <1>10 DEF Crash, Dead, Enter
<1> QED
  BY <1>2, <1>3, <1>4, <1>6, <1>8, <1>9, <1>10 DEF Call

-------------------------------------------------------------------------------
LEMMA InitLogged == HInit => Log!Init
<1> SUFFICES ASSUME HInit PROVE Log!Init
  OBVIOUS
<1>1. sysfs \in [Path -> Nat]
  BY InitTypes DEF TypeInv, TypeOK
<1>2. frame.pc = "idle" /\ impl = NewImpl
  BY DEF HInit, Init, Enter
<1>3. Phase = "idle"
  BY <1>2, PhaseIs DEF PhaseOK
<1>4. Undo = {}
  BY <1>2 DEF Undo, SavedMins, SavedMaxes, Owner, ToSet, NewImpl, WritePc
<1> QED
  BY <1>1, <1>3, <1>4 DEF Log!Init

LEMMA StepLogged == Inv /\ Inv' /\ [HNext]_hvars => [Log!Next]_Log!vars
<1> SUFFICES ASSUME Inv, Inv', [HNext]_hvars PROVE [Log!Next]_Log!vars
  OBVIOUS
<1>1. CASE HNext
  BY <1>1, CallStepsLogged, SaveStepsLogged, WriteStepsLogged DEF HNext, Next, Step
<1>2. CASE UNCHANGED hvars
  <2>1. UNCHANGED <<sysfs, impl, frame>>
    BY <1>2 DEF hvars
  <2>2. SameOwner /\ Phase' = Phase
    BY <2>1 DEF SameOwner, Owner, Phase, Setting
  <2> QED
    BY <2>1, <2>2, Stutter
<1> QED
  BY <1>1, <1>2

\* FreqController, down to the single read and write, is an undo log: for all
\* well-formed tables, any content of sysfs the kernel admits, any failures of any
\* node and a death at any point.
THEOREM ImplementsUndoLog == HSpec => Refines
<1> QED
  BY InitLogged, StepLogged, InvInvariant, PTL DEF HSpec, Refines, Log!Spec

-------------------------------------------------------------------------------
(* What a controller among others keeps.  Its nodes first. *)

LEMMA OwnTypes ==
  ASSUME Own
  PROVE  /\ TypeInv
         /\ frame \in FrameType /\ impl \in ImplType
         /\ sysfs \in [Path -> Nat] /\ baseline \in [Path -> Nat]
         /\ frame.i \in Nat \ {0} /\ frame.ok \in BOOLEAN
         /\ RailsOrdered(sysfs) /\ Good(sysfs)
         /\ frame.pc \in SavePc => frame.op = "set"
         /\ frame.pc \in WritePc => frame.op \in {"set", "unset", "dtor"}
         /\ frame.pc \in RailPc => More(Rails)
BY DEF Own, TypeInv, TypeOK, FrameType, Good, Shape

LEMMA SelectedNode ==
  ASSUME Own
  PROVE  /\ \A j \in DOMAIN impl.selected_targets :
              LET t == impl.selected_targets[j]
              IN  /\ WF(t)
                  /\ PathPresent(t.min_path) => t.min_path \in RailsOf(impl.selected_targets)
                  /\ PathPresent(t.max_path) => t.max_path \in RailsOf(impl.selected_targets)
         /\ \A j \in DOMAIN impl.selected_tunables :
              LET u == impl.selected_tunables[j]
              IN  PathPresent(u.sysfs_path) =>
                    /\ u.sysfs_path \in TunablesOf(impl.selected_tunables)
                    /\ u.sysfs_path \in Path /\ u.sysfs_path \in TunablePaths
<1>1. ASSUME NEW j \in DOMAIN impl.selected_targets
      PROVE  LET t == impl.selected_targets[j]
             IN  /\ WF(t)
                 /\ PathPresent(t.min_path) => t.min_path \in RailsOf(impl.selected_targets)
                 /\ PathPresent(t.max_path) => t.max_path \in RailsOf(impl.selected_targets)
  <2>1. WF(impl.selected_targets[j])
    BY TargetWF DEF Own, SelectionOK
  <2> QED
    BY <2>1 DEF RailsOf, PathPresent
<1>2. ASSUME NEW j \in DOMAIN impl.selected_tunables,
             PathPresent(impl.selected_tunables[j].sysfs_path)
      PROVE  LET u == impl.selected_tunables[j]
             IN  /\ u.sysfs_path \in TunablesOf(impl.selected_tunables)
                 /\ u.sysfs_path \in Path /\ u.sysfs_path \in TunablePaths
  <2>1. impl.selected_tunables[j] \in Tunable
    BY OwnTypes DEF ImplType
  <2> QED
    BY <1>2, <2>1 DEF Own, SelectionOK, TunablesOf, PathPresent, Tunable
<1> QED
  BY <1>1, <1>2

\* The nodes of rails and tunables, and how they lie to the kernel's rails.
LEMMA OwnRails ==
  ASSUME Own, NEW p \in RailsOf(impl.selected_targets)
  PROVE  p \in Path /\ p \in RailNodes
<1>1. PICK j \in DOMAIN impl.selected_targets :
        p \in {impl.selected_targets[j].min_path, impl.selected_targets[j].max_path} /\ p # NoPath
  BY DEF RailsOf
<1>2. WF(impl.selected_targets[j])
  BY SelectedNode
<1> QED
  BY <1>1, <1>2 DEF WF, RailTarget

LEMMA OwnTunables ==
  ASSUME Own, NEW p \in TunablesOf(impl.selected_tunables)
  PROVE  p \in Path /\ p \notin RailNodes /\ p \notin KernelNodes
<1>1. PICK j \in DOMAIN impl.selected_tunables :
        p = impl.selected_tunables[j].sysfs_path /\ p # NoPath
  BY DEF TunablesOf
<1>2. p \in Path /\ p \in TunablePaths
  BY <1>1, SelectedNode DEF PathPresent
<1> QED
  BY <1>1, <1>2, TunableApart

\* A controller owns both sides of a rail of the kernel or none.
LEMMA OwnBothSides ==
  ASSUME Own, NEW r \in KernelRail
  PROVE  r.min \in OwnNodes <=> r.max \in OwnNodes
<1> DEFINE rails == RailsOf(impl.selected_targets)
<1>1. r.min \in KernelNodes /\ r.max \in KernelNodes
  BY DEF KernelNodes
<1>2. r.min \in OwnNodes => r.min \in rails
  BY <1>1, OwnTunables DEF OwnNodes
<1>3. r.max \in OwnNodes => r.max \in rails
  BY <1>1, OwnTunables DEF OwnNodes
<1>4. ASSUME NEW j \in DOMAIN impl.selected_targets,
             r.min \in {impl.selected_targets[j].min_path, impl.selected_targets[j].max_path}
             \/ r.max \in {impl.selected_targets[j].min_path, impl.selected_targets[j].max_path}
      PROVE  r.min \in rails /\ r.max \in rails
  <2> DEFINE t == impl.selected_targets[j]
             k == [min |-> t.min_path, max |-> t.max_path]
  <2>1. WF(t)
    BY SelectedNode
  <2>2. t.min_path # NoPath /\ t.max_path # NoPath
    BY <1>1, <1>4, <2>1, OneSided
  <2>3. k \in KernelRail /\ k.min = t.min_path /\ k.max = t.max_path
    BY <2>1, <2>2, TwoSided
  <2>4. r = k
    <3> HIDE DEF k
    <3> QED
      BY <1>4, <2>3, KernelRailAssumption
  <2> QED
    BY <2>2, <2>3, <2>4, SelectedNode DEF PathPresent
<1>5. ASSUME NEW p \in rails
      PROVE  \E j \in DOMAIN impl.selected_targets :
               p \in {impl.selected_targets[j].min_path, impl.selected_targets[j].max_path}
  BY DEF RailsOf
<1> HIDE DEF rails
<1>6. r.min \in rails <=> r.max \in rails
  BY <1>4, <1>5
<1> QED
  BY <1>2, <1>3, <1>6 DEF OwnNodes, rails

LEMMA RailNodesArePaths == RailNodes \subseteq Path
<1>1. ASSUME NEW p \in TargetPaths, p # NoPath
      PROVE  p \in Path
  <2>1. PICK q \in Profiles : \E j \in DOMAIN q.targets :
          p \in {q.targets[j].min_path, q.targets[j].max_path}
    BY <1>1 DEF TargetPaths
  <2>2. PICK j \in DOMAIN q.targets : p \in {q.targets[j].min_path, q.targets[j].max_path}
    BY <2>1
  <2>3. q.targets[j] \in RailTarget
    BY <2>2, ProfileTyped
  <2> QED
    BY <1>1, <2>2, <2>3 DEF RailTarget
<1>2. KernelNodes \subseteq Path
  BY KernelRailAssumption DEF KernelNodes
<1> QED
  BY <1>1, <1>2 DEF RailNodes

\* Two good contents, one for its nodes and one for the others, make a good one.
LEMMA GoodMix ==
  ASSUME Own, NEW f \in [Path -> Nat], NEW g \in [Path -> Nat], Good(f), Good(g)
  PROVE  Good([p \in Path |-> IF p \in OwnNodes THEN f[p] ELSE g[p]])
<1> DEFINE h == [p \in Path |-> IF p \in OwnNodes THEN f[p] ELSE g[p]]
<1>1. \A p \in Path : h[p] = IF p \in OwnNodes THEN f[p] ELSE g[p]
  OBVIOUS
<1> HIDE DEF h
<1>2. ASSUME NEW r \in KernelRail PROVE h[r.min] <= h[r.max]
  <2>1. r.min \in Path /\ r.max \in Path
    BY KernelRailAssumption
  <2> QED
    BY <1>1, <2>1, OwnBothSides DEF Good, RailsOrdered
<1>3. \A p \in RailNodes : h[p] # 0
  BY <1>1, RailNodesArePaths DEF Good
<1>4. Good(h)
  BY <1>2, <1>3 DEF Good, RailsOrdered
<1> QED
  BY <1>4 DEF h

\* Every node a call reads or writes is one of the selected profile.
LEMMA RailsOwn ==
  ASSUME Own, NEW j \in DOMAIN Rails
  PROVE  /\ PathPresent(Rails[j].min_path) => Rails[j].min_path \in RailsOf(impl.selected_targets)
         /\ PathPresent(Rails[j].max_path) => Rails[j].max_path \in RailsOf(impl.selected_targets)
         /\ Rails[j].min_khz \in Nat /\ Rails[j].max_khz \in Nat
<1>1. CASE Setting
  BY <1>1, SelectedNode DEF Rails, WF, RailTarget
<1>2. CASE ~Setting
  <2> DEFINE s == impl.saved_rails[j]
  <2>1. j \in DOMAIN impl.saved_rails /\ Rails[j] = Restore(s)
    BY <1>2 DEF Rails
  <2>2. s \in SavedRail
    BY <2>1, OwnTypes DEF ImplType
  <2>3. /\ PathPresent(s.min_path) => s.min_path \in RailsOf(impl.saved_rails)
        /\ PathPresent(s.max_path) => s.max_path \in RailsOf(impl.saved_rails)
    BY <2>1 DEF RailsOf, PathPresent
  <2> QED
    BY <2>1, <2>2, <2>3 DEF Restore, Own, SessionOK, SavedWithin, SavedRail
<1> QED
  BY <1>1, <1>2

LEMMA TunablesOwn ==
  ASSUME Own, NEW j \in DOMAIN Tunables, PathPresent(Tunables[j].sysfs_path)
  PROVE  /\ Tunables[j].sysfs_path \in TunablesOf(impl.selected_tunables)
         /\ Tunables[j].value \in Nat
<1>1. CASE Setting
  <2> DEFINE u == impl.selected_tunables[j]
  <2>1. j \in DOMAIN impl.selected_tunables
        /\ Tunables[j] = [sysfs_path |-> u.sysfs_path, value |-> u.value]
    BY <1>1 DEF Tunables
  <2>2. u \in Tunable
    BY <2>1, OwnTypes DEF ImplType
  <2> QED
    BY <2>1, <2>2, SelectedNode DEF Tunable
<1>2. CASE ~Setting
  <2> DEFINE u == impl.saved_tunables[j]
  <2>1. j \in DOMAIN impl.saved_tunables
        /\ Tunables[j] = [sysfs_path |-> u.sysfs_path, value |-> u.prev_value]
    BY <1>2 DEF Tunables
  <2>2. u \in SavedTunable
    BY <2>1, OwnTypes DEF ImplType
  <2>3. u.sysfs_path \in TunablesOf(impl.saved_tunables)
    BY <2>1 DEF TunablesOf, PathPresent
  <2> QED
    BY <2>1, <2>2, <2>3 DEF Own, SessionOK, SavedWithin, SavedTunable
<1> QED
  BY <1>1, <1>2

\* Own without what the types already give.
RestOwn ==
  DeadEmpty /\ SelectionOK /\ SelectionApart /\ Good(sysfs) /\ SideWanted /\ SessionOK

LEMMA OwnParts == Own <=> TypeInv /\ RestOwn
BY DEF Own, TypeInv, RestOwn

\* The nodes of a list of rails lie in a set if those of each rail do.
LEMMA RailsWithin ==
  ASSUME NEW rails, NEW S
  PROVE  RailsOf(rails) \subseteq S <=>
           \A j \in DOMAIN rails : {rails[j].min_path, rails[j].max_path} \subseteq S \cup {NoPath}
BY DEF RailsOf

LEMMA NothingSaved == RailsOf(<<>>) = {} /\ TunablesOf(<<>>) = {}
BY DEF RailsOf, TunablesOf

\* A call has returned, or the object has died or been constructed.
LEMMA OwnAtRest ==
  ASSUME frame'.pc \in {"idle", "dead"},
         frame'.saved_rails = <<>>, frame'.saved_tunables = <<>>, Good(sysfs)',
         SelectionOK', SelectionApart', DeadEmpty', SavedWithin(impl)',
         clocks_applied' => HasSelection'
  PROVE  RestOwn'
<1>1. SavedWithin(frame)'
  BY NothingSaved DEF SavedWithin
<1>2. SideWanted'
  BY DEF SideWanted
<1>3. ~Running'
  BY DEF Running
<1> QED
  BY <1>1, <1>2, <1>3 DEF RestOwn, SessionOK, InSession

LEMMA SelectionKept ==
  ASSUME Own, impl'.selected_targets = impl.selected_targets,
         impl'.selected_tunables = impl.selected_tunables
  PROVE  /\ SelectionOK' /\ SelectionApart' /\ (HasSelection' <=> HasSelection)
         /\ OwnNodes' = OwnNodes
BY DEF Own, SelectionOK, SelectionApart, HasSelection, OwnNodes

\* A call goes on.
LEMMA OwnGoesOn ==
  ASSUME Own, HasSelection, UNCHANGED impl, frame'.pc \in SavePc \cup WritePc,
         frame'.op = "set" => ~clocks_applied,
         Good(sysfs)', SideWanted', SavedWithin(frame)'
  PROVE  RestOwn'
<1>1. SelectionOK' /\ SelectionApart' /\ HasSelection' /\ (clocks_applied' <=> clocks_applied)
  BY SelectionKept DEF clocks_applied
<1>2. frame'.pc # "dead" /\ DeadEmpty'
  BY DEF DeadEmpty, SavePc, WritePc
<1>3. SavedWithin(impl)'
  BY DEF Own, SessionOK, SavedWithin
<1> QED
  BY <1>1, <1>2, <1>3 DEF RestOwn, SessionOK, Setting

\* The calls.
LEMMA OwnSelects ==
  ASSUME Own, ~HasSelection, NEW op \in Ops, NEW table, NEW k, Select(op, table, k),
         k # 0 => [targets |-> table[k].targets, tunables |-> table[k].tunables] \in Profiles
  PROVE  RestOwn' /\ UNCHANGED sysfs
<1>1. /\ frame.pc = "idle" /\ frame'.pc = "idle" /\ UNCHANGED sysfs
      /\ frame'.saved_rails = <<>> /\ frame'.saved_tunables = <<>>
  BY DEF Select, Idle, Returned, Enter
<1>2. ~clocks_applied /\ impl.saved_rails = <<>> /\ impl.saved_tunables = <<>>
  BY DEF Own, SessionOK, InSession, clocks_applied
<1>3. /\ impl'.saved_rails = <<>> /\ impl'.saved_tunables = <<>>
      /\ SelectionOK' /\ SelectionApart'
  <2>1. CASE k # 0
    <3> DEFINE p == [targets |-> table[k].targets, tunables |-> table[k].tunables]
    <3>1. /\ impl'.saved_rails = <<>> /\ impl'.saved_tunables = <<>>
          /\ impl'.selected_targets = p.targets /\ impl'.selected_tunables = p.tunables
      BY <1>2, <2>1, OwnTypes DEF Select, ImplType
    <3>2. p \in Profiles /\ NoOverlap(p)
      BY <2>1, TablesWellFormed
    <3> HIDE DEF p
    <3> QED
      BY <3>1, <3>2, ProfileSelected DEF SelectionOK, SelectionApart, NoOverlap
  <2>2. CASE k = 0
    BY <1>2, <2>2 DEF Select, Own, SelectionOK, SelectionApart
  <2> QED
    BY <2>1, <2>2
<1>4. SavedWithin(impl)'
  BY <1>3, NothingSaved DEF SavedWithin
<1>5. ~clocks_applied' /\ DeadEmpty' /\ Good(sysfs)'
  BY <1>1, <1>3 DEF clocks_applied, DeadEmpty, Own, Good, RailsOrdered
<1> QED
  BY <1>1, <1>3, <1>4, <1>5, OwnAtRest

LEMMA OwnNew ==
  ASSUME Own, frame'.pc \in {"idle", "dead"}, impl' = NewImpl,
         frame'.saved_rails = <<>>, frame'.saved_tunables = <<>>, UNCHANGED sysfs
  PROVE  RestOwn'
<1>1. /\ impl'.selected_targets = <<>> /\ impl'.selected_tunables = <<>>
      /\ impl'.saved_rails = <<>> /\ impl'.saved_tunables = <<>>
  BY DEF NewImpl
<1>2. SelectionOK' /\ SelectionApart' /\ DeadEmpty' /\ ~clocks_applied'
  BY <1>1 DEF SelectionOK, SelectionApart, NoOverlap, DeadEmpty, clocks_applied, NewImpl
<1>3. SavedWithin(impl)' /\ Good(sysfs)'
  BY <1>1, NothingSaved DEF SavedWithin, Own, Good, RailsOrdered
<1> QED
  BY <1>2, <1>3, OwnAtRest

LEMMA OwnCalls ==
  ASSUME Own,
         \/ /\ ~HasSelection
            /\ \/ \E mode \in FrequencyMode : SetFrequencyMode(mode)
               \/ \E id \in CustomId : SetFrequencyCustomId(id)
         \/ HasSelection /\ ~clocks_applied /\ SetClocks
         \/ clocks_applied /\ UnsetClocks
         \/ Destroy
         \/ Construct
  PROVE  RestOwn' /\ UNCHANGED sysfs
<1>1. NeverAborts /\ SessionOK
  BY DEF Own
<1>2. ASSUME NEW mode \in FrequencyMode, ~HasSelection, SetFrequencyMode(mode)
      PROVE  RestOwn' /\ UNCHANGED sysfs
  <2>1. FindMode(mode) # 0 => FindMode(mode) \in DOMAIN GetDeviceConfig.modes
    BY <1>1, ConfigType, FoundMode
  <2> QED
    BY <1>1, <1>2, <2>1, ActiveProfiles, OwnSelects DEF SetFrequencyMode, Ops
<1>3. ASSUME NEW id \in CustomId, ~HasSelection, SetFrequencyCustomId(id)
      PROVE  RestOwn' /\ UNCHANGED sysfs
  <2>1. FindCustom(id) # 0 => FindCustom(id) \in DOMAIN GetDeviceConfig.custom_profiles
    BY <1>1, ConfigType, FoundCustom
  <2> QED
    BY <1>1, <1>3, <2>1, ActiveProfiles, OwnSelects DEF SetFrequencyCustomId, Ops
<1>4. ASSUME NEW pc \in {"save_min", "rail"}, NEW op \in {"set", "unset", "dtor"},
             HasSelection, frame' = Enter(pc, op), UNCHANGED <<sysfs, impl>>,
             op = "set" => ~clocks_applied
      PROVE  RestOwn'
  <2>1. frame'.pc = pc /\ frame'.op = op
        /\ frame'.saved_rails = <<>> /\ frame'.saved_tunables = <<>>
    BY <1>4 DEF Enter
  <2>2. SavedWithin(frame)'
    BY <2>1, NothingSaved DEF SavedWithin
  <2>3. Good(sysfs)' /\ SideWanted'
    BY <1>4, <2>1 DEF Own, Good, RailsOrdered, SideWanted
  <2> QED
    BY <1>4, <2>1, <2>2, <2>3, OwnGoesOn DEF SavePc, WritePc
<1>5. CASE HasSelection /\ ~clocks_applied /\ SetClocks
  BY <1>5, <1>4 DEF SetClocks
<1>6. CASE clocks_applied /\ UnsetClocks
  BY <1>1, <1>6, <1>4 DEF UnsetClocks, Local, SessionOK, InSession
<1>8. CASE Destroy
  <2>1. CASE clocks_applied
    BY <1>1, <1>8, <2>1, <1>4 DEF Destroy, SessionOK, InSession
  <2>2. CASE ~clocks_applied
    BY <1>8, <2>2, OwnNew DEF Destroy, Dead, Enter
  <2> QED
    BY <1>8, <2>1, <2>2 DEF Destroy
<1>9. CASE Construct
  <2>1. impl = NewImpl /\ frame'.pc = "idle" /\ UNCHANGED <<sysfs, impl>>
        /\ frame'.saved_rails = <<>> /\ frame'.saved_tunables = <<>>
    BY <1>9 DEF Own, DeadEmpty, Construct, Local, Enter
  <2> QED
    BY <2>1, OwnNew
<1> QED
  BY <1>2, <1>3, <1>5, <1>6, <1>8, <1>9 DEF SetClocks, UnsetClocks, Local, Destroy, Construct

\* The first half of SetClocks.
LEMMA OwnSaves ==
  ASSUME Own, Save
  PROVE  RestOwn' /\ UNCHANGED sysfs
<1>1. /\ UNCHANGED <<sysfs, impl>> /\ frame.pc \in SavePc /\ frame.op = "set"
      /\ Good(sysfs)' /\ HasSelection /\ ~clocks_applied /\ frame \in FrameType
      /\ SavedWithin(frame) /\ SavedWithin(impl)
  <2>1. UNCHANGED <<sysfs, impl>> /\ frame.pc \in SavePc
    BY DEF Save, SaveMin, SaveMax, SaveRailsEnd, SaveTunable, SaveTunablesEnd, SaveFails, Local,
           SavePc
  <2> QED
    BY <2>1, OwnTypes
    DEF Own, SessionOK, InSession, Running, Setting, Good, RailsOrdered, SavePc
<1>2. ASSUME frame'.pc \in SavePc \cup {"rail"}, frame'.op = "set", SavedWithin(frame)'
      PROVE  RestOwn'
  <2>1. SideWanted'
    BY <1>2 DEF SideWanted, SavePc
  <2> QED
    BY <1>1, <1>2, <2>1, OwnGoesOn DEF WritePc
<1>3. CASE SaveMin
  <2> DEFINE t == SelectedTarget
             lo == IF WantMin(t) THEN sysfs[t.min_path] ELSE 0
             s == [min_path |-> t.min_path, max_path |-> t.max_path, prev_min |-> lo,
                   prev_max |-> 0, has_min |-> WantMin(t), has_max |-> FALSE]
             old == frame.saved_rails
  <2>1. /\ frame.i \in DOMAIN impl.selected_targets
        /\ frame' = [frame EXCEPT !.pc = "save_max", !.saved_rails = Append(@, s)]
    BY <1>3 DEF SaveMin, More
  <2> HIDE DEF lo
  <2>2. /\ frame'.pc = "save_max" /\ frame'.op = "set" /\ frame'.saved_rails = Append(old, s)
        /\ frame'.saved_tunables = frame.saved_tunables /\ old \in Seq(SavedRail)
    BY <1>1, <2>1 DEF FrameType
  <2>3. \A j \in DOMAIN Append(old, s) :
          (j \in DOMAIN old /\ Append(old, s)[j] = old[j]) \/ Append(old, s)[j] = s
    BY <2>2
  <2>4. /\ PathPresent(s.min_path) => s.min_path \in RailsOf(impl.selected_targets)
        /\ PathPresent(s.max_path) => s.max_path \in RailsOf(impl.selected_targets)
    BY <2>1, SelectedNode DEF SelectedTarget
  <2>5. RailsOf(Append(old, s)) \subseteq RailsOf(impl.selected_targets)
    <3> HIDE DEF s
    <3>1. \A j \in DOMAIN old :
            {old[j].min_path, old[j].max_path}
            \subseteq RailsOf(impl.selected_targets) \cup {NoPath}
      BY <1>1, RailsWithin DEF SavedWithin
    <3>2. {s.min_path, s.max_path} \subseteq RailsOf(impl.selected_targets) \cup {NoPath}
      BY <2>4 DEF PathPresent
    <3> DEFINE new == Append(old, s)
    <3>3. ASSUME NEW j \in DOMAIN new
          PROVE  {new[j].min_path, new[j].max_path}
                 \subseteq RailsOf(impl.selected_targets) \cup {NoPath}
      <4>1. (j \in DOMAIN old /\ new[j] = old[j]) \/ new[j] = s
        BY <2>3
      <4> HIDE DEF new
      <4> QED
        BY <3>1, <3>2, <4>1
    <3> QED
      BY <3>3, RailsWithin
  <2> QED
    BY <1>1, <1>2, <2>2, <2>5 DEF SavedWithin, SavePc
<1>4. CASE SaveMax
  <2> DEFINE t == SelectedTarget
             hi == IF WantMax(t) THEN sysfs[t.max_path] ELSE 0
             has == WantMax(t)
             old == frame.saved_rails
             s == [old[frame.i] EXCEPT !.prev_max = hi, !.has_max = has]
  <2>1. frame' = [frame EXCEPT !.pc = "save_min", !.i = @ + 1,
                               !.saved_rails = [@ EXCEPT ![frame.i] = s]]
        /\ frame.pc = "save_max"
    BY <1>4 DEF SaveMax
  <2> HIDE DEF hi, has
  <2>2. /\ frame'.pc = "save_min" /\ frame'.op = "set"
        /\ frame'.saved_rails = [old EXCEPT ![frame.i] = s]
        /\ frame'.saved_tunables = frame.saved_tunables /\ old \in Seq(SavedRail)
        /\ frame.i \in DOMAIN old
    BY <1>1, <2>1 DEF FrameType, Own, Shape
  <2>3. old[frame.i] \in SavedRail
    BY <2>2
  <2>4. s.min_path = old[frame.i].min_path /\ s.max_path = old[frame.i].max_path
    BY <2>3 DEF SavedRail
  <2>5. RailsOf([old EXCEPT ![frame.i] = s]) = RailsOf(old)
    <3> HIDE DEF s
    <3> QED
      BY <2>2, <2>4 DEF RailsOf
  <2> QED
    BY <1>1, <1>2, <2>2, <2>5 DEF SavedWithin, SavePc
<1>5. CASE SaveTunable
  <2> DEFINE path == SelectedTunable.sysfs_path
             u == [sysfs_path |-> path, prev_value |-> sysfs[path]]
             old == frame.saved_tunables
             saved == IF PathPresent(path) THEN Append(old, u) ELSE old
  <2>1. /\ frame.i \in DOMAIN impl.selected_tunables /\ frame.pc = "save_tunable"
        /\ frame' = [frame EXCEPT !.i = @ + 1, !.saved_tunables = saved]
    BY <1>5 DEF SaveTunable, More
  <2> HIDE DEF saved
  <2>2. /\ frame'.pc = "save_tunable" /\ frame'.op = "set" /\ frame'.saved_tunables = saved
        /\ frame'.saved_rails = frame.saved_rails /\ old \in Seq(SavedTunable)
    BY <1>1, <2>1 DEF FrameType
  <2>3. TunablesOf(saved) \subseteq TunablesOf(impl.selected_tunables)
    <3>1. CASE PathPresent(path)
      <4>1. saved = Append(old, u) /\ u.sysfs_path = path
        BY <3>1 DEF saved
      <4>2. path \in TunablesOf(impl.selected_tunables)
        BY <2>1, <3>1, SelectedNode DEF SelectedTunable
      <4>3. \A j \in DOMAIN Append(old, u) :
              (j \in DOMAIN old /\ Append(old, u)[j] = old[j]) \/ Append(old, u)[j] = u
        BY <2>2
      <4> HIDE DEF u, path
      <4> QED
        BY <1>1, <4>1, <4>2, <4>3 DEF TunablesOf, SavedWithin
    <3>2. CASE ~PathPresent(path)
      BY <1>1, <3>2 DEF saved, SavedWithin
    <3> QED
      BY <3>1, <3>2
  <2> QED
    BY <1>1, <1>2, <2>2, <2>3 DEF SavedWithin, SavePc
<1>6. CASE SaveRailsEnd \/ SaveTunablesEnd
  <2>1. /\ frame'.pc \in {"save_tunable", "rail"} /\ frame'.op = "set"
        /\ frame'.saved_rails = frame.saved_rails
        /\ frame'.saved_tunables = frame.saved_tunables
    BY <1>1, <1>6 DEF SaveRailsEnd, SaveTunablesEnd, FrameType
  <2> QED
    BY <1>1, <1>2, <2>1 DEF SavedWithin, SavePc
<1>7. CASE SaveFails
  <2>1. frame'.pc = "idle" /\ frame'.saved_rails = <<>> /\ frame'.saved_tunables = <<>>
    BY <1>7 DEF SaveFails, Returned, Enter
  <2>2. /\ SelectionOK' /\ SelectionApart' /\ ~clocks_applied' /\ DeadEmpty'
        /\ SavedWithin(impl)'
    BY <1>1, <2>1, SelectionKept DEF clocks_applied, DeadEmpty, SavedWithin
  <2> QED
    BY <1>1, <2>1, <2>2, OwnAtRest
<1> QED
  BY <1>1, <1>3, <1>4, <1>5, <1>6, <1>7 DEF Save

\* The second half, and the restores.
LEMMA OwnPending ==
  ASSUME Own, frame.pc \in RailPc
  PROVE  /\ PendingWrite[1] \in RailsOf(impl.selected_targets)
         /\ PendingWrite[2] \in Nat /\ PendingWrite[2] # 0
<1>1. More(Rails)
  BY OwnTypes
<1>2. /\ PathPresent(Rail.min_path) => Rail.min_path \in RailsOf(impl.selected_targets)
      /\ PathPresent(Rail.max_path) => Rail.max_path \in RailsOf(impl.selected_targets)
      /\ Rail.min_khz \in Nat /\ Rail.max_khz \in Nat
  BY <1>1, RailsOwn DEF More, Rail
<1>3. CASE frame.pc = "min_first"
  <2>1. PendingWrite = <<Rail.min_path, IF Rail.min_khz # 0 THEN Rail.min_khz ELSE Rail.max_khz>>
    BY <1>3 DEF PendingWrite
  <2> QED
    BY <1>2, <1>3, <2>1 DEF Own, SideWanted, WantMax
<1>4. CASE frame.pc \in {"max_last", "max_first"}
  <2>1. PendingWrite = <<Rail.max_path, Rail.max_khz>>
    BY <1>4 DEF PendingWrite
  <2> QED
    BY <1>2, <1>4, <2>1 DEF Own, SideWanted, WantMax
<1>5. CASE frame.pc = "min_last"
  <2>1. PendingWrite = <<Rail.min_path, Rail.min_khz>>
    BY <1>5 DEF PendingWrite
  <2> QED
    BY <1>2, <1>5, <2>1 DEF Own, SideWanted, WantMin
<1> QED
  BY <1>3, <1>4, <1>5 DEF RailPc

\* The four writes of ApplyRail, and where each leads.
RailFollows(next) ==
  \/ next = NextRail
  \/ frame.pc = "min_first" /\ next = [frame EXCEPT !.pc = "max_last"]
  \/ frame.pc = "max_first" /\ WantMin(Rail) /\ next = [frame EXCEPT !.pc = "min_last"]

LEMMA RailWrites ==
  ASSUME WriteMinFirst \/ WriteMaxLast \/ WriteMaxFirst \/ WriteMinLast
  PROVE  /\ frame.pc \in RailPc
         /\ \E next : RailFollows(next) /\ WriteNode(PendingWrite[1], PendingWrite[2], next)
<1>1. CASE WriteMinFirst
  <2> DEFINE value == IF Rail.min_khz # 0 THEN Rail.min_khz ELSE Rail.max_khz
             next == [frame EXCEPT !.pc = "max_last"]
  <2>1. frame.pc = "min_first" /\ WriteNode(Rail.min_path, value, next)
    BY <1>1 DEF WriteMinFirst
  <2>2. PendingWrite = <<Rail.min_path, value>>
    BY <2>1 DEF PendingWrite
  <2>3. RailFollows(next)
    BY <2>1 DEF RailFollows
  <2> HIDE DEF next, value
  <2> QED
    BY <2>1, <2>2, <2>3 DEF RailPc
<1>2. CASE WriteMaxLast
  BY <1>2 DEF WriteMaxLast, PendingWrite, RailFollows, RailPc
<1>3. CASE WriteMaxFirst
  <2> DEFINE next == IF WantMin(Rail) THEN [frame EXCEPT !.pc = "min_last"] ELSE NextRail
  <2>1. frame.pc = "max_first" /\ WriteNode(Rail.max_path, Rail.max_khz, next)
    BY <1>3 DEF WriteMaxFirst
  <2>2. PendingWrite = <<Rail.max_path, Rail.max_khz>>
    BY <2>1 DEF PendingWrite
  <2>3. RailFollows(next)
    BY <2>1 DEF RailFollows
  <2> HIDE DEF next
  <2> QED
    BY <2>1, <2>2, <2>3 DEF RailPc
<1>4. CASE WriteMinLast
  BY <1>4 DEF WriteMinLast, PendingWrite, RailFollows, RailPc
<1> QED
  BY <1>1, <1>2, <1>3, <1>4

\* What a step leaves of the other nodes.
Elsewhere == \A p \in Path \ OwnNodes : sysfs'[p] = sysfs[p]

LEMMA OwnCommits ==
  ASSUME Own, UNCHANGED sysfs, Running, impl' = Commit,
         NEW result \in BOOLEAN, frame' = Returned("set", result)
  PROVE  RestOwn'
<1>1. frame'.pc = "idle" /\ frame'.saved_rails = <<>> /\ frame'.saved_tunables = <<>>
  BY DEF Returned, Enter
<1>2. /\ impl'.selected_targets = impl.selected_targets
      /\ impl'.selected_tunables = impl.selected_tunables
      /\ impl'.saved_rails = frame.saved_rails /\ impl'.saved_tunables = frame.saved_tunables
  BY OwnTypes DEF Commit, ImplType
<1>3. /\ SelectionOK' /\ SelectionApart' /\ HasSelection' /\ DeadEmpty' /\ Good(sysfs)'
      /\ SavedWithin(impl)'
  BY <1>1, <1>2, SelectionKept
  DEF Own, SessionOK, InSession, DeadEmpty, Good, RailsOrdered, SavedWithin
<1> QED
  BY <1>1, <1>3, OwnAtRest

LEMMA OwnMoves ==
  ASSUME Own, frame.pc \in WritePc, UNCHANGED impl, Good(sysfs)', SideWanted',
         frame'.pc \in WritePc, frame'.op = frame.op,
         frame'.saved_rails = frame.saved_rails, frame'.saved_tunables = frame.saved_tunables
  PROVE  RestOwn'
<1>1. HasSelection /\ SavedWithin(frame) /\ (frame.op = "set" => ~clocks_applied)
  BY DEF Own, SessionOK, InSession, Running, Setting, WritePc
<1>2. SavedWithin(frame)'
  BY <1>1 DEF SavedWithin
<1> QED
  BY <1>1, <1>2, OwnGoesOn

LEMMA OwnNode ==
  ASSUME Own, frame.pc \in WritePc, NEW path \in OwnNodes, NEW value \in Nat,
         path \in RailNodes => value # 0, NEW next, WriteNode(path, value, next),
         next \in FrameType /\ next.pc \in WritePc /\ next.op = frame.op,
         next.saved_rails = frame.saved_rails /\ next.saved_tunables = frame.saved_tunables,
         UNCHANGED impl /\ frame' = next => SideWanted'
  PROVE  RestOwn' /\ Elsewhere
<1>1. path \in Path /\ Running
  BY OwnRails, OwnTunables DEF OwnNodes, Running, WritePc
<1>2. CASE WriteSucceeds(path, value) /\ frame' = next /\ UNCHANGED impl
  <2>1. Good(sysfs)'
    BY <1>1, <1>2, OwnTypes, WriteGood
  <2>2. Elsewhere
    BY <1>1, <1>2, OwnTypes DEF WriteSucceeds, Elsewhere
  <2> QED
    BY <1>2, <2>1, <2>2, OwnMoves
<1>3. ASSUME UNCHANGED sysfs PROVE Elsewhere /\ Good(sysfs)'
  BY <1>3 DEF Elsewhere, Own, Good, RailsOrdered
<1>4. CASE WriteFails(path, value) /\ Setting /\ impl' = Commit /\ frame' = Returned("set", FALSE)
  BY <1>1, <1>3, <1>4, OwnCommits DEF WriteFails
<1>5. CASE /\ WriteFails(path, value) /\ UNCHANGED impl
           /\ frame' = [frame EXCEPT !.ok = FALSE, !.i = @ + 1,
                                     !.pc = IF @ = "tunable" THEN "tunable" ELSE "rail"]
  <2>1. /\ frame'.pc \in {"tunable", "rail"} /\ frame'.op = frame.op
        /\ frame'.saved_rails = frame.saved_rails
        /\ frame'.saved_tunables = frame.saved_tunables
    BY <1>5, OwnTypes DEF FrameType
  <2>2. SideWanted'
    BY <2>1 DEF SideWanted
  <2> QED
    BY <1>3, <1>5, <2>1, <2>2, OwnMoves DEF WriteFails, WritePc
<1> QED
  BY <1>2, <1>4, <1>5 DEF WriteNode

LEMMA OwnWrites ==
  ASSUME Own, Write
  PROVE  RestOwn' /\ Elsewhere
<1>1. ASSUME UNCHANGED sysfs PROVE Elsewhere /\ Good(sysfs)'
  BY <1>1 DEF Elsewhere, Own, Good, RailsOrdered
<1>2. /\ NextRail \in FrameType /\ NextRail.pc = "rail" /\ NextRail.op = frame.op
      /\ NextRail.saved_rails = frame.saved_rails
      /\ NextRail.saved_tunables = frame.saved_tunables
  BY OwnTypes, NextRailTyped DEF NextRail, FrameType
<1>3. ASSUME NEW pc \in WritePc
      PROVE  LET next == [frame EXCEPT !.pc = pc]
             IN  /\ next \in FrameType /\ next.pc = pc /\ next.op = frame.op
                 /\ next.i = frame.i
                 /\ next.saved_rails = frame.saved_rails
                 /\ next.saved_tunables = frame.saved_tunables
  BY OwnTypes DEF FrameType
<1>4. ASSUME UNCHANGED impl, frame'.op = frame.op, frame'.i = frame.i
      PROVE  Rail' = Rail
  BY <1>4, RailsKept DEF Rail
<1>5. CASE WriteMinFirst \/ WriteMaxLast \/ WriteMaxFirst \/ WriteMinLast
  <2>1. /\ frame.pc \in RailPc /\ frame.pc \in WritePc
        /\ \E next : RailFollows(next) /\ WriteNode(PendingWrite[1], PendingWrite[2], next)
    BY <1>5, RailWrites DEF RailPc, WritePc
  <2>2. PICK next : RailFollows(next) /\ WriteNode(PendingWrite[1], PendingWrite[2], next)
    BY <2>1
  <2>3. /\ next \in FrameType /\ next.pc \in {"rail", "max_last", "min_last"}
        /\ next.op = frame.op
        /\ next.saved_rails = frame.saved_rails /\ next.saved_tunables = frame.saved_tunables
        /\ next.pc # "rail" => next.i = frame.i
        /\ next.pc = "max_last" => frame.pc = "min_first"
        /\ next.pc = "min_last" => WantMin(Rail)
    BY <1>2, <1>3, <2>2 DEF RailFollows, WritePc
  <2>4. ASSUME UNCHANGED impl, frame' = next PROVE SideWanted'
    <3>1. CASE next.pc = "rail"
      BY <2>4, <3>1 DEF SideWanted
    <3>2. CASE next.pc # "rail"
      <4>1. Rail' = Rail
        BY <1>4, <2>3, <2>4, <3>2
      <4> QED
        BY <2>3, <2>4, <3>2, <4>1 DEF SideWanted, Own, WantMin, WantMax
    <3> QED
      BY <3>1, <3>2
  <2> QED
    BY <2>1, <2>2, <2>3, <2>4, OwnPending, OwnNode DEF OwnNodes, WritePc
<1>6. CASE WriteTunable
  <2> DEFINE path == Tunables[frame.i].sysfs_path
             next == [frame EXCEPT !.i = @ + 1]
  <2>1. /\ frame.pc = "tunable" /\ frame.i \in DOMAIN Tunables /\ PathPresent(path)
        /\ WriteNode(path, Tunables[frame.i].value, next)
    BY <1>6 DEF WriteTunable, More
  <2>2. path \in OwnNodes /\ path \notin RailNodes /\ Tunables[frame.i].value \in Nat
    BY <2>1, TunablesOwn, OwnTunables DEF OwnNodes
  <2>3. /\ next \in FrameType /\ next.pc = "tunable" /\ next.op = frame.op
        /\ next.saved_rails = frame.saved_rails /\ next.saved_tunables = frame.saved_tunables
    <3>1. frame.i + 1 \in Nat \ {0}
      BY OwnTypes
    <3> QED
      BY <2>1, <3>1, OwnTypes DEF FrameType
  <2>4. frame' = next => SideWanted'
    BY <2>3 DEF SideWanted
  <2> HIDE DEF path, next
  <2> QED
    BY <2>1, <2>2, <2>3, <2>4, OwnNode DEF WritePc
<1>7. CASE ApplyRail
  <2>1. /\ UNCHANGED <<sysfs, impl>> /\ frame.pc = "rail"
    BY <1>7 DEF ApplyRail, Local
  <2>2. \/ frame' = NextRail
        \/ MinGoesFirst(Rail) /\ frame' = [frame EXCEPT !.pc = "min_first"]
        \/ WantMax(Rail) /\ frame' = [frame EXCEPT !.pc = "max_first"]
        \/ WantMin(Rail) /\ frame' = [frame EXCEPT !.pc = "min_last"]
    BY <1>7 DEF ApplyRail
  <2>3. CASE frame' = NextRail
    BY <1>1, <1>2, <2>1, <2>3, OwnMoves DEF SideWanted, WritePc
  <2>4. ASSUME NEW pc \in {"min_first", "max_first", "min_last"},
               frame' = [frame EXCEPT !.pc = pc],
               pc = "min_first" => WantMax(Rail) /\ PathPresent(Rail.min_path),
               pc = "max_first" => WantMax(Rail), pc = "min_last" => WantMin(Rail)
        PROVE  RestOwn'
    <3>1. /\ pc \in WritePc /\ frame'.pc = pc /\ frame'.op = frame.op /\ frame'.i = frame.i
          /\ frame'.saved_rails = frame.saved_rails
          /\ frame'.saved_tunables = frame.saved_tunables
      BY <1>3, <2>4 DEF WritePc
    <3>2. Rail' = Rail
      BY <1>4, <2>1, <3>1
    <3>3. SideWanted'
      BY <2>4, <3>1, <3>2 DEF SideWanted, WantMin, WantMax
    <3> QED
      BY <1>1, <2>1, <3>1, <3>3, OwnMoves DEF WritePc
  <2> QED
    BY <1>1, <2>1, <2>2, <2>3, <2>4 DEF MinGoesFirst
<1>8. CASE RailsEnd \/ SkipTunable
  <2>1. /\ UNCHANGED <<sysfs, impl>> /\ frame.pc \in WritePc
        /\ frame'.pc = "tunable" /\ frame'.op = frame.op
        /\ frame'.saved_rails = frame.saved_rails
        /\ frame'.saved_tunables = frame.saved_tunables
    BY <1>8, OwnTypes DEF RailsEnd, SkipTunable, Local, WritePc, FrameType
  <2> QED
    BY <1>1, <2>1, OwnMoves DEF SideWanted, WritePc
<1>9. CASE SetReturns
  BY <1>1, <1>9, OwnCommits DEF SetReturns, WritesEnd, Running
<1>10. CASE UnsetReturns
  <2>1. /\ UNCHANGED sysfs /\ frame'.pc = "idle"
        /\ frame'.saved_rails = <<>> /\ frame'.saved_tunables = <<>>
    BY <1>10 DEF UnsetReturns, Returned, Enter
  <2>2. /\ impl'.selected_targets = impl.selected_targets
        /\ impl'.selected_tunables = impl.selected_tunables
        /\ impl'.saved_rails = <<>> /\ impl'.saved_tunables = <<>>
    BY <1>10, OwnTypes DEF UnsetReturns, ImplType
  <2>3. /\ SelectionOK' /\ SelectionApart' /\ DeadEmpty' /\ ~clocks_applied'
        /\ SavedWithin(impl)'
    BY <2>1, <2>2, SelectionKept, NothingSaved DEF DeadEmpty, clocks_applied, SavedWithin
  <2> QED
    BY <1>1, <2>1, <2>3, OwnAtRest
<1>11. CASE Destroyed
  <2>1. /\ UNCHANGED sysfs /\ frame'.pc = "dead" /\ impl' = NewImpl
        /\ frame'.saved_rails = <<>> /\ frame'.saved_tunables = <<>>
    BY <1>11 DEF Destroyed, Dead, Enter
  <2> QED
    BY <1>1, <2>1, OwnNew
<1> QED
  BY <1>5, <1>6, <1>7, <1>8, <1>9, <1>10, <1>11 DEF Write

LEMMA DeviceStays == SessionStep => UNCHANGED g_active_device
BY DEF SessionStep, SetFrequencyMode, SetFrequencyCustomId, Select, SetClocks, UnsetClocks,
       Destroy, Construct, Step, Save, SaveMin, SaveMax, SaveRailsEnd, SaveTunable,
       SaveTunablesEnd, SaveFails, Write, ApplyRail, WriteMinFirst, WriteMaxLast,
       WriteMaxFirst, WriteMinLast, RailsEnd, WriteTunable, SkipTunable, SetReturns,
       UnsetReturns, Destroyed, WriteNode, Local

\* A new controller.
LEMMA OwnInit ==
  ASSUME Init, baseline = sysfs
  PROVE  Own /\ ~InSession
<1>1. HInit
  BY DEF HInit
<1>2. TypeInv /\ Inv
  BY <1>1, InitTypes, InitInv
<1>3. SelectionApart
  BY <1>1, InitApplied DEF AppliedInv
<1>4. /\ frame.pc = "idle" /\ frame.saved_rails = <<>> /\ frame.saved_tunables = <<>>
      /\ impl.saved_rails = <<>> /\ impl.saved_tunables = <<>>
  BY DEF Init, Enter, NewImpl
<1>5. SideWanted /\ SavedWithin(impl) /\ SavedWithin(frame) /\ ~InSession
  BY <1>4, NothingSaved DEF SideWanted, SavedWithin, InSession, clocks_applied, Running
<1>6. SessionOK
  BY <1>5 DEF SessionOK, InSession
<1> QED
  BY <1>2, <1>3, <1>5, <1>6 DEF Own, TypeInv, Inv

\* A step of its own, and a step of another.
LEMMA OwnStep ==
  ASSUME Own, SessionStep, baseline' \in [Path -> Nat]
  PROVE  Own' /\ Elsewhere
<1>1. TypeInv
  BY OwnParts
<1>2. Next
  BY DEF SessionStep, Next, Call
<1>3. TypeInv'
  BY <1>1, <1>2, NextTypes DEF TypeInv, TypeOK, FrameOK
<1>4. RestOwn' /\ Elsewhere
  <2>1. UNCHANGED sysfs => Elsewhere
    BY DEF Elsewhere
  <2>2. CASE Write
    BY <2>2, OwnWrites
  <2>3. CASE Save
    BY <2>1, <2>3, OwnSaves
  <2>4. CASE \/ /\ ~HasSelection
                /\ \/ \E mode \in FrequencyMode : SetFrequencyMode(mode)
                   \/ \E id \in CustomId : SetFrequencyCustomId(id)
             \/ HasSelection /\ ~clocks_applied /\ SetClocks
             \/ clocks_applied /\ UnsetClocks
             \/ Destroy
             \/ Construct
    BY <2>1, <2>4, OwnCalls
  <2> QED
    BY <2>2, <2>3, <2>4 DEF SessionStep, Step
<1>5. Own' <=> TypeInv' /\ RestOwn'
  BY DEF Own, TypeInv, RestOwn
<1> QED
  BY <1>2, <1>3, <1>4, <1>5

LEMMA OwnOthers ==
  ASSUME Own, UNCHANGED <<g_active_device, impl, frame>>, sysfs' \in [Path -> Nat],
         Good(sysfs)', baseline' \in [Path -> Nat]
  PROVE  Own'
<1>1. UNCHANGED <<impl, frame, g_active_device>>
  OBVIOUS
<1>2. TypeOK' /\ NeverAborts' /\ Shape' /\ DeadEmpty'
  BY <1>1 DEF Own, TypeOK, NeverAborts, GetDeviceConfigAborts, Shape, DeadEmpty, More, Rails,
              Setting
<1>3. SelectionOK' /\ SelectionApart'
  BY SelectionKept
<1>4. SideWanted' /\ SessionOK'
  BY <1>1 DEF Own, SideWanted, Rail, Rails, Setting, WantMin, WantMax, SessionOK, InSession,
              clocks_applied, Running, HasSelection, SavedWithin
<1> QED
  BY <1>2, <1>3, <1>4 DEF Own

-------------------------------------------------------------------------------
(* A controller that looks at view instead of sysfs. *)

Sees == view \in [Path -> Nat] /\ \A p \in OwnNodes : view[p] = sysfs[p]

Follows == view' = [p \in Path |-> IF p \in OwnNodes THEN sysfs'[p] ELSE view[p]]

LEMMA ViewAssumptions ==
  /\ V!NoPathAssumption /\ V!KernelRailAssumption /\ V!FaultyAssumption
  /\ V!InitSysfsAssumption /\ V!RegistryAssumption /\ V!CustomIdAssumption
  /\ V!TablesWellFormed /\ V!NoRailAtZero
<1>1. V!InitSysfsAssumption
  BY InitSysfsAssumption DEF RailsOrdered, V!RailsOrdered
<1>2. V!RegistryAssumption
  BY RegistryAssumption
  DEF DeviceRegistryEntry, Config, ModeProfile, CustomProfile, CpuClusterMap, RailTarget,
      Tunable, V!DeviceRegistryEntry, V!Config, V!ModeProfile, V!CustomProfile,
      V!CpuClusterMap, V!RailTarget, V!Tunable
<1>3. V!TablesWellFormed
  BY TablesWellFormed
  DEF Profiles, TargetPaths, TunablePaths, KernelNodes, WellFormedTarget, NoOverlap,
      V!Profiles, V!TargetPaths, V!TunablePaths, V!KernelNodes, V!WellFormedTarget,
      V!NoOverlap
<1>4. V!NoRailAtZero
  BY NoRailAtZero
  DEF Profiles, TargetPaths, KernelNodes, V!Profiles, V!TargetPaths, V!KernelNodes
<1> QED
  BY <1>1, <1>2, <1>3, <1>4, NoPathAssumption, KernelRailAssumption, FaultyAssumption,
     CustomIdAssumption

\* What does not look at sysfs is the same.
LEMMA SameCode ==
  /\ V!Rails = Rails /\ V!Rail = Rail /\ V!Tunables = Tunables
  /\ V!SavePc = SavePc /\ V!WritePc = WritePc /\ V!RailPc = RailPc
  /\ (V!Setting <=> Setting) /\ (V!Idle <=> Idle) /\ (V!WritesEnd <=> WritesEnd)
  /\ V!Commit = Commit /\ V!NextRail = NextRail /\ V!Owner = Owner
  /\ \A seq : V!More(seq) <=> More(seq)
  /\ \A t : (V!WantMin(t) <=> WantMin(t)) /\ (V!WantMax(t) <=> WantMax(t))
  /\ \A p : (V!PathPresent(p) <=> PathPresent(p)) /\ (V!ReadMayFail(p) <=> ReadMayFail(p))
  /\ \A op, r : V!Returned(op, r) = Returned(op, r) /\ V!Enter(op, r) = Enter(op, r)
BY DEF V!Rails, Rails, V!Rail, Rail, V!Tunables, Tunables, V!SavePc, SavePc, V!WritePc, WritePc,
       V!RailPc, RailPc, V!Setting, Setting, V!Idle, Idle, V!WritesEnd, WritesEnd, V!Commit,
       Commit, V!NextRail, NextRail, V!Owner, Owner, V!More, More, V!WantMin, WantMin,
       V!WantMax, WantMax, V!PathPresent, PathPresent, V!ReadMayFail, ReadMayFail, V!Returned,
       Returned, V!Enter, Enter, V!Restore, Restore

\* The kernel takes in view what it takes in sysfs.
LEMMA SameAccepts ==
  ASSUME Own, Sees, NEW p \in OwnNodes, NEW v
  PROVE  V!Accepts(p, v) <=> Accepts(p, v)
<1>1. ASSUME NEW r \in KernelRail, r.min = p \/ r.max = p
      PROVE  view[r.min] = sysfs[r.min] /\ view[r.max] = sysfs[r.max]
  BY <1>1, OwnBothSides DEF Sees
<1> QED
  BY <1>1 DEF V!Accepts, Accepts

LEMMA SameWrite ==
  ASSUME Own, Sees, Follows, NEW p \in OwnNodes, NEW v, NEW next, WriteNode(p, v, next)
  PROVE  V!WriteNode(p, v, next)
<1>1. p \in Path
  BY OwnRails, OwnTunables DEF OwnNodes
<1>2. WriteSucceeds(p, v) => V!WriteSucceeds(p, v)
  <2> SUFFICES ASSUME WriteSucceeds(p, v) PROVE V!WriteSucceeds(p, v)
    OBVIOUS
  <2>1. sysfs' = [sysfs EXCEPT ![p] = v] /\ V!Accepts(p, v) /\ sysfs \in [Path -> Nat]
    BY SameAccepts, OwnTypes DEF WriteSucceeds
  <2>2. view' = [view EXCEPT ![p] = v]
    BY <1>1, <2>1 DEF Sees, Follows
  <2> QED
    BY <2>1, <2>2 DEF V!WriteSucceeds
<1>3. WriteFails(p, v) => V!WriteFails(p, v)
  <2> SUFFICES ASSUME WriteFails(p, v) PROVE V!WriteFails(p, v)
    OBVIOUS
  <2>1. UNCHANGED view
    BY DEF Sees, Follows, WriteFails
  <2> QED
    BY <2>1, SameAccepts DEF V!WriteFails, WriteFails
<1> QED
  BY <1>2, <1>3, SameCode DEF WriteNode, V!WriteNode

LEMMA SameNodes ==
  ASSUME Own, Sees
  PROVE  /\ frame.pc = "save_min" /\ More(impl.selected_targets) /\ WantMin(SelectedTarget) =>
                view[SelectedTarget.min_path] = sysfs[SelectedTarget.min_path]
         /\ frame.pc = "save_max" /\ WantMax(SelectedTarget) =>
                view[SelectedTarget.max_path] = sysfs[SelectedTarget.max_path]
         /\ More(impl.selected_tunables) /\ PathPresent(SelectedTunable.sysfs_path) =>
                view[SelectedTunable.sysfs_path] = sysfs[SelectedTunable.sysfs_path]
         /\ More(Rails) => (V!MinGoesFirst(Rail) <=> MinGoesFirst(Rail))
<1>1. ASSUME (frame.pc = "save_min" /\ More(impl.selected_targets)) \/ frame.pc = "save_max"
      PROVE  frame.i \in DOMAIN impl.selected_targets
  <2>1. impl.selected_targets \in Seq(RailTarget)
    BY OwnTypes DEF ImplType
  <2>2. frame.pc = "save_max" => frame.i <= Len(impl.selected_targets)
    BY DEF Own, Shape
  <2> QED
    BY <1>1, <2>1, <2>2, OwnTypes DEF More
<1>2. ASSUME More(Rails)
      PROVE  V!MinGoesFirst(Rail) <=> MinGoesFirst(Rail)
  <2>1. PathPresent(Rail.min_path) => view[Rail.min_path] = sysfs[Rail.min_path]
    BY <1>2, RailsOwn DEF More, Rail, OwnNodes, Sees
  <2> QED
    BY <2>1, SameCode DEF V!MinGoesFirst, MinGoesFirst
<1> QED
  BY <1>1, <1>2, SelectedNode
  DEF SelectedTarget, SelectedTunable, More, OwnNodes, Sees, WantMin, WantMax

LEMMA SaveSeen ==
  ASSUME Own, Sees, Save, UNCHANGED view
  PROVE  V!Save
<1> USE SameCode, SameNodes
<1>1. Local => V!Local
  BY DEF Local, V!Local
<1>2. V!SelectedTarget = SelectedTarget /\ V!SelectedTunable = SelectedTunable
  BY DEF V!SelectedTarget, SelectedTarget, V!SelectedTunable, SelectedTunable
<1>3. CASE SaveMin
  <2> DEFINE t == SelectedTarget
             S(v) == [min_path |-> t.min_path, max_path |-> t.max_path, prev_min |-> v,
                      prev_max |-> 0, has_min |-> WantMin(t), has_max |-> FALSE]
             lo == IF WantMin(t) THEN sysfs[t.min_path] ELSE 0
             seen == IF WantMin(t) THEN view[t.min_path] ELSE 0
             Next1(v) == [frame EXCEPT !.pc = "save_max", !.saved_rails = Append(@, S(v))]
  <2>1. frame.pc = "save_min" /\ More(impl.selected_targets) /\ Local /\ frame' = Next1(lo)
    BY <1>3 DEF SaveMin
  <2>2. seen = lo
    BY <2>1
  <2>3. V!SaveMin <=> /\ frame.pc = "save_min" /\ More(impl.selected_targets) /\ V!Local
                      /\ frame' = Next1(seen)
    BY DEF V!SaveMin, V!SelectedTarget, SelectedTarget, V!WantMin, WantMin, V!PathPresent,
           PathPresent, V!More, More
  <2> HIDE DEF Next1, lo, seen
  <2> QED
    BY <1>1, <2>1, <2>2, <2>3 DEF V!Save
<1>4. CASE SaveMax
  <2> DEFINE t == SelectedTarget
             hi == IF WantMax(t) THEN sysfs[t.max_path] ELSE 0
             seen == IF WantMax(t) THEN view[t.max_path] ELSE 0
             S(v) == [frame.saved_rails[frame.i] EXCEPT !.prev_max = v, !.has_max = WantMax(t)]
             Next1(v) == [frame EXCEPT !.pc = "save_min", !.i = @ + 1,
                                       !.saved_rails = [@ EXCEPT ![frame.i] = S(v)]]
  <2>1. frame.pc = "save_max" /\ Local /\ frame' = Next1(hi)
    BY <1>4 DEF SaveMax
  <2>2. seen = hi
    BY <2>1
  <2>3. V!SaveMax <=> frame.pc = "save_max" /\ V!Local /\ frame' = Next1(seen)
    BY DEF V!SaveMax, V!SelectedTarget, SelectedTarget, V!WantMax, WantMax, V!PathPresent,
           PathPresent, V!More, More
  <2> HIDE DEF Next1, hi, seen
  <2> QED
    BY <1>1, <2>1, <2>2, <2>3 DEF V!Save
<1>5. CASE SaveRailsEnd
  BY <1>1, <1>5 DEF SaveRailsEnd, V!SaveRailsEnd, V!Save
<1>6. CASE SaveTunable
  BY <1>1, <1>2, <1>6 DEF SaveTunable, V!SaveTunable, V!Save
<1>7. CASE SaveTunablesEnd
  BY <1>1, <1>7 DEF SaveTunablesEnd, V!SaveTunablesEnd, V!Save
<1>8. CASE SaveFails
  BY <1>1, <1>2, <1>8 DEF SaveFails, V!SaveFails, V!Save
<1> QED
  BY <1>3, <1>4, <1>5, <1>6, <1>7, <1>8 DEF Save

LEMMA WriteSeen ==
  ASSUME Own, Sees, Follows, Write
  PROVE  V!Write
<1> USE SameCode
<1>1. UNCHANGED sysfs => UNCHANGED view
  BY DEF Sees, Follows
<1>2. Local => V!Local
  BY <1>1 DEF Local, V!Local
<1>3. ASSUME frame.pc \in RailPc
      PROVE  /\ More(Rails)
             /\ PathPresent(Rail.min_path) => Rail.min_path \in OwnNodes
             /\ PathPresent(Rail.max_path) => Rail.max_path \in OwnNodes
  <2>1. More(Rails)
    BY <1>3, OwnTypes
  <2> QED
    BY <2>1, RailsOwn DEF More, Rail, OwnNodes
<1>4. CASE ApplyRail
  <2>1. More(Rails) /\ Local
    BY <1>4 DEF ApplyRail
  <2>2. V!MinGoesFirst(Rail) <=> MinGoesFirst(Rail)
    BY <2>1, SameNodes
  <2>3. V!ApplyRail
    BY <1>2, <1>4, <2>1, <2>2 DEF ApplyRail, V!ApplyRail
  <2> QED
    BY <2>3 DEF V!Write
<1>5. CASE WriteMinFirst
  <2>1. Rail.min_path \in OwnNodes
    BY <1>3, <1>5 DEF WriteMinFirst, RailPc, Own, SideWanted
  <2>2. V!WriteMinFirst
    BY <1>5, <2>1, SameWrite DEF WriteMinFirst, V!WriteMinFirst
  <2> QED
    BY <2>2 DEF V!Write
<1>6. CASE WriteMaxLast
  <2>1. Rail.max_path \in OwnNodes
    BY <1>3, <1>6 DEF WriteMaxLast, RailPc, Own, SideWanted, WantMax
  <2>2. V!WriteMaxLast
    BY <1>6, <2>1, SameWrite DEF WriteMaxLast, V!WriteMaxLast
  <2> QED
    BY <2>2 DEF V!Write
<1>7. CASE WriteMaxFirst
  <2>1. Rail.max_path \in OwnNodes
    BY <1>3, <1>7 DEF WriteMaxFirst, RailPc, Own, SideWanted, WantMax
  <2>2. V!WriteMaxFirst
    BY <1>7, <2>1, SameWrite DEF WriteMaxFirst, V!WriteMaxFirst
  <2> QED
    BY <2>2 DEF V!Write
<1>8. CASE WriteMinLast
  <2>1. Rail.min_path \in OwnNodes
    BY <1>3, <1>8 DEF WriteMinLast, RailPc, Own, SideWanted, WantMin
  <2>2. V!WriteMinLast
    BY <1>8, <2>1, SameWrite DEF WriteMinLast, V!WriteMinLast
  <2> QED
    BY <2>2 DEF V!Write
<1>9. CASE RailsEnd
  BY <1>2, <1>9 DEF RailsEnd, V!RailsEnd, V!Write
<1>10. CASE WriteTunable
  <2>1. Tunables[frame.i].sysfs_path \in OwnNodes
    BY <1>10, TunablesOwn DEF WriteTunable, More, OwnNodes
  <2>2. V!WriteTunable
    BY <1>10, <2>1, SameWrite DEF WriteTunable, V!WriteTunable
  <2> QED
    BY <2>2 DEF V!Write
<1>11. CASE SkipTunable
  BY <1>2, <1>11 DEF SkipTunable, V!SkipTunable, V!Write
<1>12. CASE SetReturns
  BY <1>1, <1>12 DEF SetReturns, V!SetReturns, V!Write
<1>13. CASE UnsetReturns
  BY <1>1, <1>13 DEF UnsetReturns, V!UnsetReturns, V!Write
<1>14. CASE Destroyed
  BY <1>1, <1>14 DEF Destroyed, V!Destroyed, V!Write, V!NewImpl, NewImpl, V!Dead, Dead
<1> QED
  BY <1>4, <1>5, <1>6, <1>7, <1>8, <1>9, <1>10, <1>11, <1>12, <1>13, <1>14 DEF Write

\* In a session: only the calls that end it, and the steps of a call.
LEMMA InSessionSteps ==
  ASSUME Own, InSession, SessionStep
  PROVE  \/ /\ clocks_applied /\ (UnsetClocks \/ Destroy)
            /\ UNCHANGED sysfs /\ ~Running /\ Running'
         \/ Running /\ Save /\ UNCHANGED sysfs
         \/ Running /\ Write
<1>1. HasSelection /\ (frame.pc = "dead" => ~clocks_applied)
  BY DEF Own, SessionOK, DeadEmpty, clocks_applied, NewImpl
<1>2. Running \/ clocks_applied
  BY DEF InSession
<1>3. (Idle \/ frame.pc = "dead") => ~Running
  BY DEF Running, Idle
<1>4. ASSUME clocks_applied, UnsetClocks \/ Destroy
      PROVE  UNCHANGED sysfs /\ ~Running /\ Running'
  BY <1>3, <1>4 DEF UnsetClocks, Destroy, Local, Running, Enter
<1>5. Save => Running /\ UNCHANGED sysfs
  BY DEF Save, SaveMin, SaveMax, SaveRailsEnd, SaveTunable, SaveTunablesEnd, SaveFails, Local,
         Running
<1>6. Write => Running
  BY DEF Write, ApplyRail, WriteMinFirst, WriteMaxLast, WriteMaxFirst, WriteMinLast, RailsEnd,
         WriteTunable, SkipTunable, SetReturns, UnsetReturns, Destroyed, WritesEnd, Running
<1>7. Destroy => Idle
  BY DEF Destroy
<1>8. ~Construct
  BY <1>1, <1>2 DEF Construct, Running
<1>9. CASE HasSelection /\ ~clocks_applied /\ SetClocks
  BY <1>2, <1>3, <1>9 DEF SetClocks
<1>10. CASE clocks_applied /\ UnsetClocks
  BY <1>4, <1>10
<1>11. CASE Destroy
  BY <1>2, <1>3, <1>4, <1>7, <1>11
<1>12. CASE Save \/ Write
  BY <1>5, <1>6, <1>12
<1> QED
  BY <1>1, <1>8, <1>9, <1>10, <1>11, <1>12 DEF SessionStep, Step

LEMMA Simulation ==
  ASSUME Own, Sees, Follows, InSession, SessionStep
  PROVE  V!Next
<1>1. UNCHANGED sysfs => UNCHANGED view
  BY DEF Sees, Follows
<1>2. CASE UnsetClocks \/ Destroy
  <2>1. UNCHANGED view /\ (V!clocks_applied <=> clocks_applied)
        /\ V!NewImpl = NewImpl /\ V!Dead = Dead
    BY <1>1, <1>2
    DEF UnsetClocks, Destroy, Local, V!clocks_applied, clocks_applied, V!NewImpl, NewImpl,
        V!Dead, Dead, V!Enter, Enter
  <2>2. UnsetClocks => V!UnsetClocks
    BY <2>1, SameCode DEF UnsetClocks, V!UnsetClocks, Local, V!Local
  <2>3. Destroy => V!Destroy
    BY <2>1, SameCode DEF Destroy, V!Destroy
  <2> QED
    BY <1>2, <2>2, <2>3 DEF V!Next, V!Call
<1>3. CASE Save /\ UNCHANGED sysfs
  BY <1>1, <1>3, SaveSeen DEF V!Next, V!Step
<1>4. CASE Write
  BY <1>4, WriteSeen DEF V!Next, V!Step
<1> QED
  BY <1>2, <1>3, <1>4, InSessionSteps

\* A session's nodes stay the same.
LEMMA NodesStay ==
  ASSUME Own, InSession, InSession', SessionStep, DeadEmpty'
  PROVE  OwnNodes' = OwnNodes
<1>1. frame'.pc # "dead"
  BY DEF InSession, clocks_applied, DeadEmpty, NewImpl, Running
<1>2. ASSUME impl' \in {impl, Commit, [impl EXCEPT !.saved_rails = <<>>, !.saved_tunables = <<>>]}
      PROVE  OwnNodes' = OwnNodes
  <2>1. /\ impl'.selected_targets = impl.selected_targets
        /\ impl'.selected_tunables = impl.selected_tunables
    BY <1>2, OwnTypes DEF Commit, ImplType
  <2> QED
    BY <2>1 DEF OwnNodes
<1>3. CASE UnsetClocks \/ Destroy
  <2>1. Dead.pc = "dead"
    BY DEF Dead, Enter
  <2>2. UNCHANGED impl
    BY <1>1, <1>3, <2>1 DEF UnsetClocks, Destroy, Local
  <2> QED
    BY <1>2, <2>2
<1>4. CASE Save
  BY <1>2, <1>4
  DEF Save, SaveMin, SaveMax, SaveRailsEnd, SaveTunable, SaveTunablesEnd, SaveFails, Local
<1>5. CASE Write
  <2>1. ~Destroyed
    BY <1>1 DEF Destroyed, Dead, Enter
  <2>2. \A p, v, next : WriteNode(p, v, next) => impl' \in {impl, Commit}
    BY DEF WriteNode
  <2> QED
    BY <1>2, <1>5, <2>1, <2>2
    DEF Write, ApplyRail, WriteMinFirst, WriteMaxLast, WriteMaxFirst, WriteMinLast, RailsEnd,
        WriteTunable, SkipTunable, SetReturns, UnsetReturns, Local
<1> QED
  BY <1>3, <1>4, <1>5, InSessionSteps

\* As long as nothing is saved, the view is what the caller is owed.
LEMMA NothingChanged ==
  ASSUME V!Inv, Sees, Owner.saved_rails = <<>>, Owner.saved_tunables = <<>>
  PROVE  view = baseline
<1>1. \A p \in Path : ~V!SavedPath(p)
  BY SameCode DEF V!SavedPath
<1>2. V!Covered /\ baseline \in [Path -> Nat]
  BY DEF V!Inv, V!TypeOK
<1> QED
  BY <1>1, <1>2 DEF V!Covered, Sees

\* A session goes on: to the controller it is as if it were alone.
LEMMA SessionGoesOn ==
  ASSUME Own, DeadEmpty', Sees, Follows, V!Inv, V!AppliedInv, InSession, InSession', SessionStep,
         UNCHANGED baseline
  PROVE  V!Inv' /\ V!AppliedInv'
<1>1. V!Next
  BY Simulation
<1>2. ASSUME V!OwesNothing PROVE FALSE
  <2>1. frame'.pc # "dead"
    BY DEF InSession, clocks_applied, DeadEmpty, NewImpl, Running
  <2>2. WritesEnd /\ frame.op = "unset" /\ frame'.pc = "idle"
    BY <1>2, <2>1, SameCode DEF V!OwesNothing
  <2>3. UnsetReturns
    BY <2>2, InSessionSteps
    DEF WritesEnd, More, Save, SaveMin, SaveMax, SaveRailsEnd, SaveTunable, SaveTunablesEnd,
        SaveFails, UnsetClocks, Destroy, Idle, Write, ApplyRail, WriteMinFirst, WriteMaxLast,
        WriteMaxFirst, WriteMinLast, RailsEnd, WriteTunable, SkipTunable, SetReturns, Setting,
        Destroyed
  <2> QED
    BY <2>2, <2>3, OwnTypes DEF UnsetReturns, InSession, clocks_applied, Running, ImplType
<1>3. ASSUME V!BeginsWriting PROVE UNCHANGED view /\ view = baseline
  <2>1. frame.pc = "save_tunable" /\ frame.op = "set"
    BY <1>3, OwnTypes DEF V!BeginsWriting, SavePc
  <2>2. Running /\ ~clocks_applied
    BY <2>1 DEF Own, SessionOK, Running, Setting
  <2>3. Owner = impl /\ impl.saved_rails = <<>> /\ impl.saved_tunables = <<>>
    BY <2>1, <2>2 DEF Owner, WritePc, clocks_applied
  <2>4. UNCHANGED sysfs
    BY <2>1, InSessionSteps
    DEF Write, ApplyRail, WriteMinFirst, WriteMaxLast, WriteMaxFirst, WriteMinLast, RailsEnd,
        WriteTunable, SkipTunable, SetReturns, UnsetReturns, Destroyed, WritesEnd
  <2> QED
    BY <2>3, <2>4, NothingChanged DEF Sees, Follows
<1>4. V!HNext
  BY <1>1, <1>2, <1>3 DEF V!HNext
<1>5. V!Inv'
  BY <1>4, ViewAssumptions, V!StepInv
<1>6. V!AppliedInv'
  BY <1>1, <1>5, ViewAssumptions, V!StepApplied
<1> QED
  BY <1>5, <1>6

\* A step of another that the view does not show.
LEMMA SessionWaits ==
  ASSUME V!Inv, V!AppliedInv, UNCHANGED <<g_active_device, view, impl, frame, baseline>>
  PROVE  V!Inv' /\ V!AppliedInv'
<1>1. UNCHANGED V!hvars /\ UNCHANGED V!vars
  BY DEF V!hvars, V!vars
<1>2. V!Inv'
  BY <1>1, ViewAssumptions, V!StepInv
<1> QED
  BY <1>1, <1>2, ViewAssumptions, V!StepApplied

\* Outside a session the controller leaves sysfs alone.
LEMMA OutOfSession ==
  ASSUME Own, ~InSession, SessionStep
  PROVE  UNCHANGED sysfs
<1>1. ~Step
  BY DEF Step, Save, SaveMin, SaveMax, SaveRailsEnd, SaveTunable, SaveTunablesEnd, SaveFails,
         Write, ApplyRail, WriteMinFirst, WriteMaxLast, WriteMaxFirst, WriteMinLast, RailsEnd,
         WriteTunable, SkipTunable, SetReturns, UnsetReturns, Destroyed, WritesEnd, Running,
         InSession
<1> QED
  BY <1>1, OwnCalls DEF SessionStep

\* A session begins.
LEMMA Opens ==
  ASSUME Own, ~InSession, InSession', SessionStep
  PROVE  frame' = Enter("save_min", "set") /\ UNCHANGED <<sysfs, impl>> /\ HasSelection
<1>1. ~clocks_applied /\ ~Running
  BY DEF InSession
<1>2. ASSUME NEW op, NEW table, NEW k, Select(op, table, k)
      PROVE  FALSE
  <2>1. ~Running'
    BY <1>2 DEF Select, Returned, Enter, Running
  <2>2. ~clocks_applied'
    BY <1>1, <1>2, OwnTypes DEF Select, clocks_applied, ImplType
  <2> QED
    BY <2>1, <2>2 DEF InSession
<1>3. ~Destroy /\ ~Construct
  BY <1>1 DEF Destroy, Construct, Local, InSession, Running, clocks_applied, NewImpl, Dead, Enter
<1>4. ~Step
  BY <1>1
  DEF Step, Save, SaveMin, SaveMax, SaveRailsEnd, SaveTunable, SaveTunablesEnd, SaveFails,
      Write, ApplyRail, WriteMinFirst, WriteMaxLast, WriteMaxFirst, WriteMinLast, RailsEnd,
      WriteTunable, SkipTunable, SetReturns, UnsetReturns, Destroyed, WritesEnd, Running
<1>5. HasSelection /\ SetClocks
  BY <1>1, <1>2, <1>3, <1>4 DEF SessionStep, SetFrequencyMode, SetFrequencyCustomId
<1> QED
  BY <1>5 DEF SetClocks

LEMMA SessionBegins ==
  ASSUME Own, Own', ~InSession, InSession', SessionStep, view' = baseline',
         V!Good(view)'
  PROVE  V!Inv' /\ V!AppliedInv'
<1>1. /\ frame' = Enter("save_min", "set") /\ UNCHANGED <<sysfs, impl>>
      /\ impl.saved_rails = <<>> /\ impl.saved_tunables = <<>>
  BY Opens DEF InSession, clocks_applied
<1>2. /\ frame'.pc = "save_min" /\ frame'.op = "set" /\ frame'.i = 1
      /\ frame'.saved_rails = <<>> /\ frame'.saved_tunables = <<>>
  BY <1>1 DEF Enter
<1>3. V!TypeOK'
  BY DEF Own, TypeOK, V!TypeOK, ImplType, V!ImplType, FrameType, V!FrameType, SavePc, V!SavePc,
         WritePc, V!WritePc, SavedRail, V!SavedRail, SavedTunable, V!SavedTunable, RailTarget,
         V!RailTarget, Tunable, V!Tunable
<1>4. V!NeverAborts' /\ V!Shape' /\ V!DeadEmpty' /\ V!SelectionOK' /\ V!SelectionApart'
  <2>1. V!NeverAborts'
    BY DEF Own, NeverAborts, GetDeviceConfigAborts, FindEntry, SelectInSeq, Min,
           V!NeverAborts, V!GetDeviceConfigAborts, V!FindEntry, V!SelectInSeq, V!Min
  <2>2. V!Shape'
    BY <1>2 DEF Own, Shape, V!Shape, V!RailPc
  <2>3. V!SelectionOK' /\ V!SelectionApart'
    BY DEF Own, SelectionOK, V!SelectionOK, AllTargets, V!AllTargets, Profiles, V!Profiles,
           TunablePaths, V!TunablePaths, SelectionApart, V!SelectionApart, NoOverlap,
           V!NoOverlap
  <2> QED
    BY <1>2, <2>1, <2>2, <2>3 DEF V!DeadEmpty
<1>5. V!Owner' = impl'
  BY <1>2 DEF V!Owner, V!WritePc
<1>6. V!OwnerOK'
  BY <1>1, <1>5 DEF V!OwnerOK
<1>7. V!Saving'
  BY <1>2 DEF V!Saving
<1>8. V!WritesSaved' /\ V!MidRail' /\ V!Restoring' /\ V!Applying' /\ V!Applied' /\ V!Covered'
  BY <1>2 DEF V!WritesSaved, V!MidRail, V!Restoring, V!Applying, V!Applied, V!Covered,
              V!WritePc, V!Idle
<1> QED
  BY <1>3, <1>4, <1>6, <1>7, <1>8 DEF V!Inv, V!AppliedInv

\* A session ends: the view is what the caller was owed.
LEMMA SessionEnds ==
  ASSUME Own, Sees, V!Inv, InSession, ~InSession', SessionStep, Faulty = {}
  PROVE  Running /\ UNCHANGED sysfs /\ view = baseline
<1>1. Running /\ (Save \/ Write)
  BY InSessionSteps DEF InSession
<1>2. frame'.pc \in {"idle", "dead"} /\ ~clocks_applied'
  BY DEF InSession, Running
<1>3. CASE Save
  <2>1. Setting /\ UNCHANGED <<sysfs, impl>> /\ frame.pc \in SavePc
    BY <1>3, OwnTypes
    DEF Save, SaveMin, SaveMax, SaveRailsEnd, SaveTunable, SaveTunablesEnd, SaveFails, Local,
        SavePc, Setting
  <2>2. Owner = impl /\ impl.saved_rails = <<>> /\ impl.saved_tunables = <<>>
    BY <1>2, <2>1 DEF Owner, clocks_applied, SavePc, WritePc
  <2> QED
    BY <1>1, <2>1, <2>2, NothingChanged
<1>4. ASSUME frame.pc \in WritePc, Setting, impl' = Commit
      PROVE  view = baseline
  <2>1. Owner = frame /\ impl'.saved_rails = frame.saved_rails
        /\ impl'.saved_tunables = frame.saved_tunables
    BY <1>4, OwnTypes DEF Owner, Commit, ImplType
  <2> QED
    BY <1>2, <2>1, NothingChanged DEF clocks_applied
<1>5. CASE SetReturns
  BY <1>1, <1>4, <1>5 DEF SetReturns, WritesEnd, WritePc
<1>6. CASE UnsetReturns \/ Destroyed
  <2>1. V!WritesEnd /\ ~V!Setting
    BY <1>6, SameCode DEF UnsetReturns, Destroyed, Setting
  <2>2. V!HealthyRestored
    BY ViewAssumptions, V!InvHealthyRestored
  <2>3. V!Healthy = Path
    BY DEF V!Healthy
  <2>4. baseline \in [Path -> Nat]
    BY OwnTypes
  <2> QED
    BY <1>1, <1>6, <2>1, <2>2, <2>3, <2>4 DEF V!HealthyRestored, Sees, UnsetReturns, Destroyed
<1>7. ASSUME NEW p, NEW v, NEW next, WriteNode(p, v, next), frame.pc \in WritePc,
             next.pc \in WritePc
      PROVE  UNCHANGED sysfs /\ view = baseline
  <2>1. frame'.pc \notin WritePc
    BY <1>2 DEF WritePc
  <2>2. ~UNCHANGED impl \/ frame'.pc \notin WritePc
    BY <2>1
  <2>3. [frame EXCEPT !.ok = FALSE, !.i = @ + 1,
                      !.pc = IF @ = "tunable" THEN "tunable" ELSE "rail"].pc \in WritePc
    BY OwnTypes DEF FrameType, WritePc
  <2>4. WriteFails(p, v) /\ Setting /\ impl' = Commit
    BY <1>7, <2>1, <2>3 DEF WriteNode
  <2> QED
    BY <1>4, <1>7, <2>4 DEF WriteFails
<1>8. CASE WriteMinFirst \/ WriteMaxLast \/ WriteMaxFirst \/ WriteMinLast
  <2>1. /\ frame.pc \in RailPc
        /\ \E next : RailFollows(next) /\ WriteNode(PendingWrite[1], PendingWrite[2], next)
    BY <1>8, RailWrites
  <2>2. \A next : RailFollows(next) => next.pc \in WritePc
    BY OwnTypes, NextRailTyped DEF RailFollows, WritePc, FrameType
  <2>3. frame.pc \in WritePc
    BY <2>1 DEF RailPc, WritePc
  <2> QED
    BY <1>1, <1>7, <2>1, <2>2, <2>3
<1>9. CASE WriteTunable
  <2>1. [frame EXCEPT !.i = @ + 1].pc \in WritePc /\ frame.pc \in WritePc
    BY <1>9, OwnTypes DEF WriteTunable, WritePc, FrameType
  <2> QED
    BY <1>1, <1>7, <1>9, <2>1 DEF WriteTunable
<1>10. CASE ApplyRail \/ RailsEnd \/ SkipTunable
  <2>1. frame'.pc \in WritePc
    BY <1>10, OwnTypes DEF ApplyRail, RailsEnd, SkipTunable, NextRail, WritePc, FrameType
  <2> QED
    BY <1>2, <2>1 DEF WritePc
<1> QED
  BY <1>1, <1>3, <1>5, <1>6, <1>8, <1>9, <1>10 DEF Write

-------------------------------------------------------------------------------
(* Whatever others write to its nodes: what a controller may go by until   *)
(* one of them comes between at the wrong place.                           *)

\* The rail of a call in progress is well formed.
LEMMA RailFormed ==
  ASSUME Own, More(Rails), Setting \/ SnapshotsWhole
  PROVE  WF(Rail)
<1>1. CASE Setting
  BY <1>1, SelectedNode DEF More, Rails, Rail
<1>2. CASE ~Setting
  BY <1>2 DEF SnapshotsWhole, More, Rails, Rail
<1> QED
  BY <1>1, <1>2

\* SnapshotsWhole of the next state, with the primes where they belong.
LEMMA WholeThen ==
  ASSUME \A j \in DOMAIN impl'.saved_rails : WF(Restore(impl'.saved_rails[j])),
         Running' => \A j \in DOMAIN frame'.saved_rails :
           IF frame'.pc = "save_max" /\ j = frame'.i
           THEN frame'.saved_rails[j] = HalfSnapshot(impl'.selected_targets[j], sysfs')
           ELSE WF(Restore(frame'.saved_rails[j]))
  PROVE  SnapshotsWhole'
BY DEF SnapshotsWhole, WF, WellFormedTarget, Restore, HalfSnapshot, WantMin, PathPresent

\* Nothing is being saved: the lists stay, are committed or dropped.
LEMMA WholeKept ==
  ASSUME SnapshotsWhole,
         \/ impl'.saved_rails \in {impl.saved_rails, <<>>}
         \/ frame.pc \in WritePc /\ impl'.saved_rails = frame.saved_rails,
         \/ frame'.saved_rails = <<>>
         \/ /\ Running /\ frame.pc # "save_max" /\ frame'.pc # "save_max"
            /\ frame'.saved_rails = frame.saved_rails
  PROVE  SnapshotsWhole'
<1>1. /\ \A j \in DOMAIN impl.saved_rails : WF(Restore(impl.saved_rails[j]))
      /\ Running /\ frame.pc # "save_max" =>
           \A j \in DOMAIN frame.saved_rails : WF(Restore(frame.saved_rails[j]))
  BY DEF SnapshotsWhole
<1>2. frame.pc \in WritePc => Running /\ frame.pc # "save_max"
  BY DEF WritePc, Running
<1>3. \A j \in DOMAIN impl'.saved_rails : WF(Restore(impl'.saved_rails[j]))
  BY <1>1, <1>2
<1>4. Running' => \A j \in DOMAIN frame'.saved_rails :
        IF frame'.pc = "save_max" /\ j = frame'.i
        THEN frame'.saved_rails[j] = HalfSnapshot(impl'.selected_targets[j], sysfs')
        ELSE WF(Restore(frame'.saved_rails[j]))
  BY <1>1
<1> QED
  BY <1>3, <1>4, WholeThen

LEMMA WholeSaves ==
  ASSUME Own, SnapshotsWhole, Save
  PROVE  SnapshotsWhole'
<1>1. frame.pc \in SavePc /\ Running /\ UNCHANGED impl /\ TypeInv
  BY OwnTypes DEF Save, SaveMin, SaveMax, SaveRailsEnd, SaveTunable, SaveTunablesEnd, SaveFails,
                  Local, SavePc, Running
<1>2. \A j \in DOMAIN impl'.saved_rails : WF(Restore(impl'.saved_rails[j]))
  BY <1>1 DEF SnapshotsWhole
<1>3. CASE SaveMin
  <2>1. \A j \in DOMAIN frame.saved_rails : WF(Restore(frame.saved_rails[j]))
    BY <1>1, <1>3 DEF SnapshotsWhole, SaveMin
  <2>2. \A j \in DOMAIN frame'.saved_rails :
          IF frame'.pc = "save_max" /\ j = frame'.i
          THEN frame'.saved_rails[j] = HalfSnapshot(impl'.selected_targets[j], sysfs')
          ELSE WF(Restore(frame'.saved_rails[j]))
    BY <1>1, <1>3, <2>1, MinSaved
  <2> QED
    BY <1>2, <2>2, WholeThen
<1>4. CASE SaveMax
  <2>1. frame.pc = "save_max" /\ frame.i \in DOMAIN frame.saved_rails
    BY <1>4, OwnTypes DEF SaveMax, TypeInv, Shape, FrameType
  <2>2. /\ frame.saved_rails[frame.i] = HalfSnapshot(SelectedTarget, sysfs)
        /\ \A j \in DOMAIN frame.saved_rails :
             j # frame.i => WF(Restore(frame.saved_rails[j]))
    BY <1>1, <2>1 DEF SnapshotsWhole, SelectedTarget
  <2>3. frame.i \in DOMAIN impl.selected_targets /\ frame'.pc = "save_min"
    BY <1>1, <1>4, <2>2, MaxSaved
  <2>4. WF(Restore(Snapshot(impl.selected_targets[frame.i], sysfs)))
    BY <2>3, OwnTypes, RestoreWF DEF Own, SelectionOK
  <2>5. \A j \in DOMAIN frame'.saved_rails : WF(Restore(frame'.saved_rails[j]))
    BY <1>1, <1>4, <2>2, <2>4, MaxSaved
  <2> QED
    BY <1>2, <2>3, <2>5, WholeThen
<1>5. CASE SaveRailsEnd \/ SaveTunable \/ SaveTunablesEnd
  <2>1. /\ frame.pc # "save_max" /\ frame'.pc # "save_max"
        /\ frame'.saved_rails = frame.saved_rails
    BY <1>5, OwnTypes DEF SaveRailsEnd, SaveTunable, SaveTunablesEnd, FrameType
  <2> QED
    BY <1>1, <2>1, WholeKept
<1>6. CASE SaveFails
  BY <1>1, <1>6, WholeKept DEF SaveFails, Returned, Enter
<1> QED
  BY <1>3, <1>4, <1>5, <1>6 DEF Save

LEMMA WholeWrites ==
  ASSUME Own, SnapshotsWhole, Write
  PROVE  SnapshotsWhole'
<1>1. frame.pc \in WritePc
  BY DEF Write, ApplyRail, WriteMinFirst, WriteMaxLast, WriteMaxFirst, WriteMinLast, RailsEnd,
         WriteTunable, SkipTunable, SetReturns, UnsetReturns, Destroyed, WritesEnd, WritePc
<1>2. Running /\ frame.pc # "save_max" /\ Commit.saved_rails = frame.saved_rails
  BY <1>1, OwnTypes DEF Running, WritePc, Commit, ImplType
<1>3. ASSUME NEW result, impl' = Commit, frame' = Returned("set", result)
      PROVE  SnapshotsWhole'
  <2>1. frame'.saved_rails = <<>>
    BY <1>3 DEF Returned, Enter
  <2> QED
    BY <1>1, <1>2, <1>3, <2>1, WholeKept
<1>4. ASSUME UNCHANGED impl, frame'.saved_rails = frame.saved_rails, frame'.pc \in WritePc
      PROVE  SnapshotsWhole'
  BY <1>2, <1>4, WholeKept DEF WritePc
<1>5. ASSUME NEW p, NEW v, NEW next, WriteNode(p, v, next),
             next.saved_rails = frame.saved_rails, next.pc \in WritePc
      PROVE  SnapshotsWhole'
  <2>1. CASE frame' = next /\ UNCHANGED impl
    BY <1>4, <1>5, <2>1
  <2>2. CASE impl' = Commit /\ frame' = Returned("set", FALSE)
    BY <1>3, <2>2
  <2>3. CASE /\ UNCHANGED impl
             /\ frame' = [frame EXCEPT !.ok = FALSE, !.i = @ + 1,
                                       !.pc = IF @ = "tunable" THEN "tunable" ELSE "rail"]
    <3>1. frame'.saved_rails = frame.saved_rails /\ frame'.pc \in WritePc
      BY <2>3, OwnTypes DEF FrameType, WritePc
    <3> QED
      BY <1>4, <2>3, <3>1
  <2> QED
    BY <1>5, <2>1, <2>2, <2>3 DEF WriteNode
<1>6. CASE WriteMinFirst \/ WriteMaxLast \/ WriteMaxFirst \/ WriteMinLast
  <2>1. PICK next : RailFollows(next) /\ WriteNode(PendingWrite[1], PendingWrite[2], next)
    BY <1>6, RailWrites
  <2>2. next.saved_rails = frame.saved_rails /\ next.pc \in WritePc
    BY <2>1, OwnTypes DEF RailFollows, NextRail, FrameType, WritePc
  <2> QED
    BY <1>5, <2>1, <2>2
<1>7. CASE WriteTunable
  <2>1. [frame EXCEPT !.i = @ + 1].saved_rails = frame.saved_rails
        /\ [frame EXCEPT !.i = @ + 1].pc \in WritePc
    BY <1>1, OwnTypes DEF FrameType
  <2> QED
    BY <1>5, <1>7, <2>1 DEF WriteTunable
<1>8. CASE ApplyRail \/ RailsEnd \/ SkipTunable
  <2>1. UNCHANGED impl /\ frame'.saved_rails = frame.saved_rails /\ frame'.pc \in WritePc
    BY <1>8, OwnTypes
    DEF ApplyRail, RailsEnd, SkipTunable, Local, NextRail, FrameType, WritePc
  <2> QED
    BY <1>4, <2>1
<1>9. CASE SetReturns
  BY <1>3, <1>9 DEF SetReturns
<1>10. CASE UnsetReturns \/ Destroyed
  <2>1. frame'.saved_rails = <<>>
    BY <1>10 DEF UnsetReturns, Destroyed, Returned, Dead, Enter
  <2>2. UnsetReturns => impl'.saved_rails = <<>>
    BY OwnTypes DEF UnsetReturns, ImplType
  <2>3. impl'.saved_rails = <<>>
    BY <1>10, <2>2 DEF Destroyed, NewImpl
  <2> QED
    BY <2>1, <2>3, WholeKept
<1> QED
  BY <1>6, <1>7, <1>8, <1>9, <1>10 DEF Write

\* A step of its own keeps the snapshots whole.
LEMMA WholeStep ==
  ASSUME Own, SnapshotsWhole, SessionStep
  PROVE  SnapshotsWhole'
<1>1. ASSUME NEW op, NEW table, NEW k, Select(op, table, k)
      PROVE  SnapshotsWhole'
  <2>1. impl'.saved_rails = impl.saved_rails /\ frame'.saved_rails = <<>>
    BY <1>1, OwnTypes DEF Select, ImplType, Returned, Enter
  <2> QED
    BY <2>1, WholeKept
<1>2. CASE SetClocks \/ UnsetClocks \/ Destroy \/ Construct
  <2>1. impl'.saved_rails \in {impl.saved_rails, <<>>} /\ frame'.saved_rails = <<>>
    BY <1>2 DEF SetClocks, UnsetClocks, Destroy, Construct, Local, Returned, Enter, Dead, NewImpl
  <2> QED
    BY <2>1, WholeKept
<1> QED
  BY <1>1, <1>2, WholeSaves, WholeWrites DEF SessionStep, Step, SetFrequencyMode,
                                             SetFrequencyCustomId

\* A step of another keeps them unless it changes the minimum in the middle of a pair.
LEMMA WholeOthers ==
  ASSUME Own, SnapshotsWhole, UNCHANGED <<impl, frame>>,
         frame.pc = "save_max" =>
           \A p \in {SelectedTarget.min_path} \cap Path : sysfs'[p] = sysfs[p]
  PROVE  SnapshotsWhole'
<1>1. UNCHANGED impl /\ UNCHANGED frame /\ (Running' <=> Running)
  BY DEF Running
<1>2. ASSUME frame.pc = "save_max"
      PROVE  HalfSnapshot(impl.selected_targets[frame.i], sysfs')
             = HalfSnapshot(impl.selected_targets[frame.i], sysfs)
  <2> DEFINE t == impl.selected_targets[frame.i]
  <2>1. frame.i \in DOMAIN impl.selected_targets
    BY <1>2, OwnTypes DEF TypeInv, Shape, ImplType
  <2>2. WantMin(t) => t.min_path \in Path
    BY <2>1, SelectedNode, WantedNodes
  <2>3. WantMin(t) => sysfs'[t.min_path] = sysfs[t.min_path]
    BY <1>2, <2>2 DEF SelectedTarget
  <2> HIDE DEF t
  <2>4. HalfSnapshot(t, sysfs') = HalfSnapshot(t, sysfs)
    BY <2>3 DEF HalfSnapshot
  <2> QED
    BY <2>4 DEF t
<1>3. \A j \in DOMAIN impl'.saved_rails : WF(Restore(impl'.saved_rails[j]))
  BY <1>1 DEF SnapshotsWhole
<1>4. Running' => \A j \in DOMAIN frame'.saved_rails :
        IF frame'.pc = "save_max" /\ j = frame'.i
        THEN frame'.saved_rails[j] = HalfSnapshot(impl'.selected_targets[j], sysfs')
        ELSE WF(Restore(frame'.saved_rails[j]))
  BY <1>1, <1>2 DEF SnapshotsWhole
<1> QED
  BY <1>3, <1>4, WholeThen

\* Without a session there are none.
LEMMA WholeClosed ==
  ASSUME ~InSession'
  PROVE  SnapshotsWhole'
<1>1. impl'.saved_rails = <<>> /\ ~Running'
  BY DEF InSession, clocks_applied
<1> QED
  BY <1>1, WholeThen

\* A call is in the middle of a rail only after a step of its second half.
LEMMA RailSameCall ==
  ASSUME Own, SessionStep, frame'.pc \in RailPc
  PROVE  Write /\ frame'.op = frame.op
<1>1. Write
  <2>1. ASSUME NEW op, NEW table, NEW k, Select(op, table, k) PROVE FALSE
    BY <2>1 DEF Select, Returned, Enter, RailPc
  <2>2. ~SetClocks /\ ~UnsetClocks /\ ~Destroy /\ ~Construct
    BY DEF SetClocks, UnsetClocks, Destroy, Construct, Returned, Enter, Dead, RailPc
  <2>3. ~Save
    BY OwnTypes DEF Save, SaveMin, SaveMax, SaveRailsEnd, SaveTunable, SaveTunablesEnd,
                    SaveFails, Returned, Enter, RailPc, FrameType
  <2> QED
    BY <2>1, <2>2, <2>3 DEF SessionStep, Step, SetFrequencyMode, SetFrequencyCustomId
<1> SUFFICES frame'.op = frame.op
  BY <1>1
<1>2. CASE ApplyRail \/ RailsEnd \/ SkipTunable
  BY <1>2, OwnTypes DEF ApplyRail, NextRail, RailsEnd, SkipTunable, FrameType
<1>3. ASSUME NEW p, NEW v, NEW next, WriteNode(p, v, next), next.op = frame.op
      PROVE  frame'.op = frame.op
  <2>1. Returned("set", FALSE).pc \notin RailPc
    BY DEF Returned, Enter, RailPc
  <2>2. [frame EXCEPT !.ok = FALSE, !.i = @ + 1,
                      !.pc = IF @ = "tunable" THEN "tunable" ELSE "rail"].op = frame.op
    BY OwnTypes DEF FrameType
  <2> QED
    BY <1>3, <2>1, <2>2 DEF WriteNode
<1>4. CASE WriteMinFirst \/ WriteMaxLast \/ WriteMaxFirst \/ WriteMinLast
  <2>1. PICK next : RailFollows(next) /\ WriteNode(PendingWrite[1], PendingWrite[2], next)
    BY <1>4, RailWrites
  <2>2. next.op = frame.op
    BY <2>1, OwnTypes DEF RailFollows, NextRail, FrameType
  <2> QED
    BY <1>3, <2>1, <2>2
<1>5. CASE WriteTunable
  <2>1. [frame EXCEPT !.i = @ + 1].op = frame.op
    BY OwnTypes DEF FrameType
  <2> QED
    BY <1>3, <1>5, <2>1 DEF WriteTunable
<1>6. ~SetReturns /\ ~UnsetReturns /\ ~Destroyed
  BY DEF SetReturns, UnsetReturns, Destroyed, Returned, Dead, Enter, RailPc
<1> QED
  BY <1>1, <1>2, <1>4, <1>5, <1>6 DEF Write

\* A step of its own: the next write goes by what the last step knew or wrote.
LEMMA MidRailStep ==
  ASSUME Own, MidRail, Setting \/ SnapshotsWhole, SessionStep
  PROVE  MidRail'
<1> SUFFICES ASSUME frame'.pc \in RailPc
             PROVE  MidRail'
  BY DEF MidRail, RailPc
<1>1. Write
  BY RailSameCall
<1>2. ASSUME UNCHANGED impl, NEW pc \in RailPc, frame' = [frame EXCEPT !.pc = pc]
      PROVE  frame'.pc = pc /\ Rail' = Rail
  <2>1. frame'.pc = pc /\ frame'.op = frame.op /\ frame'.i = frame.i
    BY <1>2, OwnTypes DEF FrameType
  <2> QED
    BY <1>2, <2>1, RailsKept DEF Rail
<1>3. NextRail.pc \notin RailPc
  BY OwnTypes, NextRailTyped DEF RailPc
<1>4. CASE ApplyRail
  <2>1. UNCHANGED <<sysfs, impl>>
    BY <1>4 DEF ApplyRail, Local
  <2>2. PICK pc \in RailPc :
          /\ frame' = [frame EXCEPT !.pc = pc]
          /\ \/ pc = "min_first" /\ MinGoesFirst(Rail)
             \/ /\ pc = "max_first" /\ WantMax(Rail)
                /\ MinGoesFirst(Rail) => ReadMayFail(Rail.min_path)
             \/ pc = "min_last" /\ WantMin(Rail) /\ ~WantMax(Rail)
    BY <1>3, <1>4 DEF ApplyRail, RailPc
  <2> QED
    BY <1>2, <2>1, <2>2 DEF MidRail, MinGoesFirst, ReadMayFail, WantMin, WantMax, PathPresent
<1>5. ASSUME NEW p, NEW v, NEW pc \in RailPc, NEW next, WriteNode(p, v, next),
             next \in {NextRail, [frame EXCEPT !.pc = pc]}, frame.pc \in RailPc
      PROVE  /\ WriteSucceeds(p, v) /\ UNCHANGED impl
             /\ frame' = next /\ frame' = [frame EXCEPT !.pc = pc]
             /\ frame'.pc = pc /\ Rail' = Rail
  <2>1. Returned("set", FALSE).pc \notin RailPc
    BY DEF Returned, Enter, RailPc
  <2>2. [frame EXCEPT !.ok = FALSE, !.i = @ + 1,
                      !.pc = IF @ = "tunable" THEN "tunable" ELSE "rail"].pc \notin RailPc
    BY OwnTypes DEF FrameType, RailPc
  <2>3. WriteSucceeds(p, v) /\ frame' = next /\ UNCHANGED impl
    BY <1>5, <2>1, <2>2 DEF WriteNode
  <2> QED
    BY <1>2, <1>3, <1>5, <2>3
<1>6. CASE WriteMinFirst
  <2>1. /\ frame.pc = "min_first" /\ frame.pc \in RailPc
        /\ WriteNode(Rail.min_path, IF Rail.min_khz # 0 THEN Rail.min_khz ELSE Rail.max_khz,
                     [frame EXCEPT !.pc = "max_last"])
    BY <1>6 DEF WriteMinFirst, RailPc
  <2>2. WF(Rail) /\ MinGoesFirst(Rail)
    BY <2>1, OwnTypes, RailFormed DEF MidRail
  <2>3. WantMin(Rail) /\ WantMax(Rail) /\ Rail.min_khz # 0 /\ Rail.min_path \in Path
    BY <2>2, MinFirstRail, WantedNodes
  <2>4. /\ WriteSucceeds(Rail.min_path, Rail.min_khz)
        /\ frame'.pc = "max_last" /\ Rail' = Rail
    BY <1>5, <2>1, <2>3 DEF RailPc
  <2>5. sysfs'[Rail.min_path] = Rail.min_khz
    BY <2>3, <2>4, OwnTypes DEF WriteSucceeds
  <2> QED
    BY <2>3, <2>4, <2>5 DEF MidRail, WantMin, WantMax, PathPresent
<1>7. CASE WriteMaxFirst
  <2>1. /\ frame.pc = "max_first" /\ frame.pc \in RailPc
        /\ WriteNode(Rail.max_path, Rail.max_khz,
                     IF WantMin(Rail) THEN [frame EXCEPT !.pc = "min_last"] ELSE NextRail)
    BY <1>7 DEF WriteMaxFirst, RailPc
  <2>2. WantMax(Rail) /\ Rail.max_path \in Path
    <3>1. WantMax(Rail)
      BY <2>1 DEF MidRail
    <3>2. Rail.max_path \in RailsOf(impl.selected_targets)
      BY <2>1, <3>1, OwnTypes, RailsOwn DEF More, Rail, WantMax
    <3> QED
      BY <3>1, <3>2, OwnRails
  <2> DEFINE next == IF WantMin(Rail) THEN [frame EXCEPT !.pc = "min_last"] ELSE NextRail
  <2>3. /\ next \in {NextRail, [frame EXCEPT !.pc = "min_last"]} /\ "min_last" \in RailPc
        /\ ~WantMin(Rail) => next = NextRail
        /\ WriteNode(Rail.max_path, Rail.max_khz, next)
    BY <2>1 DEF RailPc
  <2> HIDE DEF next
  <2>4. /\ WriteSucceeds(Rail.max_path, Rail.max_khz) /\ UNCHANGED impl
        /\ frame' = next /\ frame'.pc = "min_last" /\ Rail' = Rail
    BY <1>5, <2>1, <2>3
  <2>5. WantMin(Rail)
    BY <1>3, <2>3, <2>4
  <2>6. sysfs'[Rail.max_path] = Rail.max_khz
    BY <2>2, <2>4, OwnTypes DEF WriteSucceeds
  <2> QED
    BY <2>4, <2>5, <2>6 DEF MidRail, WantMin, WantMax, PathPresent
<1>8. CASE WriteMaxLast \/ WriteMinLast
  <2>1. /\ frame.pc \in RailPc
        /\ \E p, v : WriteNode(p, v, NextRail)
    BY <1>8 DEF WriteMaxLast, WriteMinLast, RailPc
  <2>2. \A pc \in RailPc : frame'.pc = pc
    BY <1>5, <2>1
  <2> QED
    BY <2>2 DEF RailPc
<1>9. CASE WriteTunable
  <2>1. PICK p, v : WriteNode(p, v, [frame EXCEPT !.i = @ + 1]) /\ frame.pc = "tunable"
    BY <1>9 DEF WriteTunable
  <2>2. [frame EXCEPT !.i = @ + 1].pc = "tunable" /\ Returned("set", FALSE).pc = "idle"
    BY <2>1, OwnTypes DEF FrameType, Returned, Enter
  <2>3. [frame EXCEPT !.ok = FALSE, !.i = @ + 1,
                      !.pc = IF @ = "tunable" THEN "tunable" ELSE "rail"].pc \notin RailPc
    BY OwnTypes DEF FrameType, RailPc
  <2>4. frame'.pc \notin RailPc
    BY <2>1, <2>2, <2>3 DEF WriteNode, RailPc
  <2> QED
    BY <2>4
<1>10. CASE RailsEnd \/ SkipTunable \/ SetReturns \/ UnsetReturns \/ Destroyed
  <2>1. RailsEnd \/ SkipTunable => frame'.pc = "tunable"
    BY OwnTypes DEF RailsEnd, SkipTunable, FrameType
  <2>2. SetReturns \/ UnsetReturns => frame'.pc = "idle"
    BY DEF SetReturns, UnsetReturns, Returned, Enter
  <2>3. Destroyed => frame'.pc = "dead"
    BY DEF Destroyed, Dead, Enter
  <2> QED
    BY <1>10, <2>1, <2>2, <2>3 DEF RailPc
<1> QED
  BY <1>1, <1>4, <1>6, <1>7, <1>8, <1>9, <1>10 DEF Write

\* A step of another leaves it so unless it changes a node of the rail.
LEMMA MidRailOthers ==
  ASSUME Own, MidRail, UNCHANGED <<impl, frame>>,
         frame.pc \in RailPc =>
           \A p \in {Rail.min_path, Rail.max_path} \cap Path : sysfs'[p] = sysfs[p]
  PROVE  MidRail'
<1> SUFFICES ASSUME frame.pc \in RailPc
             PROVE  MidRail'
  BY DEF MidRail, RailPc
<1>1. UNCHANGED impl /\ UNCHANGED frame /\ Rail' = Rail
  BY DEF Rail, Rails, Setting
<1>2. /\ PathPresent(Rail.min_path) => sysfs'[Rail.min_path] = sysfs[Rail.min_path]
      /\ PathPresent(Rail.max_path) => sysfs'[Rail.max_path] = sysfs[Rail.max_path]
  <2>1. /\ PathPresent(Rail.min_path) => Rail.min_path \in RailsOf(impl.selected_targets)
        /\ PathPresent(Rail.max_path) => Rail.max_path \in RailsOf(impl.selected_targets)
    BY OwnTypes, RailsOwn DEF More, Rail
  <2> QED
    BY <2>1, OwnRails
<1> QED
  BY <1>1, <1>2 DEF MidRail, MinGoesFirst, ReadMayFail, WantMin, WantMax, PathPresent

\* Without failing nodes the kernel refuses no write that goes by what is so.
LEMMA NoRefusal ==
  ASSUME Own, MidRail, Setting \/ SnapshotsWhole, Faulty = {}, SessionStep, Running, frame.ok
  PROVE  frame'.ok
<1>1. Save \/ Write
  BY InSessionSteps DEF InSession
<1>2. CASE Save
  BY <1>2, OwnTypes
  DEF Save, SaveMin, SaveMax, SaveRailsEnd, SaveTunable, SaveTunablesEnd, SaveFails,
      ReadMayFail, FrameType
<1>3. \A next : next = NextRail \/ RailFollows(next) => next.ok
  BY OwnTypes DEF RailFollows, NextRail, FrameType
<1>4. ASSUME NEW p \in OwnNodes, NEW v, NEW next, WriteNode(p, v, next), Accepts(p, v), next.ok
      PROVE  frame'.ok
  BY <1>4 DEF WriteNode, WriteFails
<1>5. CASE WriteMinFirst \/ WriteMaxLast \/ WriteMaxFirst \/ WriteMinLast
  <2>1. /\ frame.pc \in RailPc
        /\ \E next : RailFollows(next) /\ WriteNode(PendingWrite[1], PendingWrite[2], next)
    BY <1>5, RailWrites
  <2>2. WF(Rail)
    BY <2>1, OwnTypes, RailFormed
  <2>3. Accepts(PendingWrite[1], PendingWrite[2])
    BY <2>1, <2>2, OwnTypes, RailAccepted DEF ReadMayFail
  <2>4. PendingWrite[1] \in OwnNodes
    BY <2>1, OwnPending DEF OwnNodes
  <2> QED
    BY <1>3, <1>4, <2>1, <2>3, <2>4
<1>6. CASE WriteTunable
  <2> DEFINE path == Tunables[frame.i].sysfs_path
             value == Tunables[frame.i].value
             after == [frame EXCEPT !.i = @ + 1]
  <2>1. WriteNode(path, value, after) /\ frame.i \in DOMAIN Tunables /\ PathPresent(path)
    BY <1>6 DEF WriteTunable, More
  <2>2. path \in TunablesOf(impl.selected_tunables)
    BY <2>1, TunablesOwn
  <2>3. path \in OwnNodes /\ Accepts(path, value)
    BY <2>2, OwnTunables, AcceptsFree DEF OwnNodes
  <2>4. after.ok
    BY OwnTypes DEF FrameType
  <2> HIDE DEF path, value, after
  <2> QED
    BY <1>4, <2>1, <2>3, <2>4
<1>7. CASE ApplyRail \/ RailsEnd \/ SkipTunable
  <2>1. frame' = NextRail \/ (\E pc : frame' = [frame EXCEPT !.pc = pc])
        \/ (\E pc, i : frame' = [frame EXCEPT !.pc = pc, !.i = i])
        \/ (\E i : frame' = [frame EXCEPT !.i = i])
    BY <1>7 DEF ApplyRail, RailsEnd, SkipTunable
  <2> QED
    BY <1>3, <2>1, OwnTypes DEF FrameType
<1>8. CASE SetReturns \/ UnsetReturns \/ Destroyed
  BY <1>8 DEF SetReturns, UnsetReturns, Destroyed, Returned, Dead, Enter
<1> QED
  BY <1>1, <1>2, <1>5, <1>6, <1>7, <1>8 DEF Write
=================================================================================
