----------------------------- MODULE MCRunScript -----------------------------
(***************************************************************************)
(* The harness on the two devices of MCFreqCtl: a mode with two rails and  *)
(* a tunable, one that needs --device, a custom profile by id, by a number *)
(* that wraps to its id and by name, and an unknown device.                *)
(***************************************************************************)
EXTENDS MCFreqCtl, RunScriptInv

RunLine == {Line("cycle", NoSoc, arg) :
              arg \in {[kind |-> "mode", mode |-> power_save],
                       [kind |-> "mode", mode |-> boost],
                       [kind |-> "number", number |-> 7],
                       [kind |-> "number", number |-> 16 + 7]}}
           \cup {Line("cycle", soc_b, [kind |-> "mode", mode |-> boost]),
                 Line("cycle", soc_x, [kind |-> "mode", mode |-> boost]),
                 Line("cycle", NoSoc, [kind |-> "name", id |-> 9])}
===============================================================================
