------------------------------ MODULE FreqCtlInv ------------------------------
(***************************************************************************)
(* The inductive invariant behind CycleRestores and HealthyRestored of     *)
(* FreqCtl, on well-formed tables.  The tool's FreqController keeps the    *)
(* invariant of FreqControllerInv; what its caller is owed is what sysfs   *)
(* held when the process started.                                          *)
(***************************************************************************)
EXTENDS FreqCtl, WellFormedTables

Writing == frame.pc \in {"rail", "min_first", "max_last", "max_first", "min_last", "tunable"}

Owed == IF Writing \/ clocks_applied THEN started ELSE sysfs

H == INSTANCE FreqControllerInv WITH baseline <- Owed

\* The process has its five parts; its command line is one of a caller's.
LineOK ==
  /\ cli = [pc |-> cli.pc, cmd |-> cli.cmd, device |-> cli.device, arg |-> cli.arg,
            code |-> cli.code]
  /\ LineTyped(cli)

\* Where the process stands, and where its controller then is.
Stage ==
  /\ cli.pc \in {"exited", "main", "command", "affinity", "resolve", "apply", "applied",
                "sleep", "unapplied", "leave", "leaving"}
  /\ cli.pc \in {"exited", "main", "command", "affinity"} => frame.pc = "dead"
  /\ cli.pc \in {"resolve", "apply"} => Idle /\ ~clocks_applied
  /\ cli.pc = "resolve" => cli.cmd \in {"set", "cycle"}
  /\ cli.pc = "applied" =>
       frame.op = "set" /\ frame.pc # "dead" /\ (~Idle => ~clocks_applied)
  /\ cli.pc \in {"sleep", "leave"} => Idle
  /\ cli.pc = "unapplied" => Idle \/ (Writing /\ frame.op = "unset")
  /\ cli.pc = "leaving" => frame.pc = "dead" \/ (Writing /\ frame.op = "dtor")

\* Nothing has been written before SetClocks reaches its second half.
Untouched ==
  \/ cli.pc \in {"main", "command", "affinity", "resolve", "apply"}
  \/ cli.pc = "applied" /\ ~Idle /\ ~Writing

\* What nobody owes any more is back, on every healthy rail.
Settled ==
  cli.pc # "exited" /\ ~Writing /\ ~clocks_applied =>
    \A p \in Healthy : sysfs[p] = started[p]

\* A cycle that is about to report success has restored everything.
CycleDone ==
  cli.cmd = "cycle" =>
    /\ cli.pc = "unapplied" /\ Idle /\ frame.ok => sysfs = started /\ ~clocks_applied
    /\ cli.pc \in {"leave", "leaving"} /\ cli.code = 0 =>
         sysfs = started /\ ~clocks_applied /\ ~Writing

CtlInv ==
  /\ H!Inv
  /\ LineOK
  /\ Stage
  /\ Untouched => sysfs = started
  /\ Settled
  /\ CycleDone
  /\ HealthyRestored
  /\ CycleRestores
===============================================================================
