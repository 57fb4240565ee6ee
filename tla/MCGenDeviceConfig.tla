--------------------------- MODULE MCGenDeviceConfig ---------------------------
(***************************************************************************)
(* Four phones.  The first has two clusters, the faster one numbered       *)
(* lower, and among its devfreq nodes two that match "mif".  The second,   *)
(* on the same SoC, has five policies, two with the same top, so that      *)
(* skips leave any number of clusters and some must be skipped; its tables *)
(* have one to six frequencies.  The third tells its name in ro.hardware   *)
(* only.  The fourth has no usable name.                                   *)
(***************************************************************************)
EXTENDS GenDeviceConfig

CONSTANTS soc_a, soc_b, raw_a, raw_b, raw_sign

\* The rail with the n-th pair of nodes.
Pair(n) == [min |-> 2 * n, max |-> 2 * n + 1]

MCKernelRail == {Pair(n) : n \in 0..8}

Pol(n, freqs, cpus) == [rail |-> Pair(n), freqs |-> freqs, cpus |-> cpus]

Dev(matches, scaling, n, freqs) ==
  [matches |-> matches, scaling |-> scaling, standard |-> Pair(n), freqs |-> freqs]

FastFirst == [n \in {0, 4} |-> IF n = 0 THEN Pol(0, {1, 2, 5}, 0..3) ELSE Pol(1, {1, 3}, 4..5)]

Phone1 ==
  [model |-> raw_a, hardware |-> raw_b, policies |-> FastFirst,
   nodes |-> <<Dev({}, NoRail, 2, {7}), Dev({"mif"}, Pair(4), 3, {2, 4, 6, 8}),
               Dev({"gpu"}, NoRail, 5, {3, 4, 5}), Dev({"mif"}, NoRail, 6, {1})>>]

Phone2 ==
  [model |-> raw_a, hardware |-> raw_a,
   policies |-> [n \in 0..4 |->
     CASE n = 0 -> Pol(0, {4}, {0}) [] n = 1 -> Pol(1, {1, 2}, {1, 2})
       [] n = 2 -> Pol(2, {1, 3, 4}, {3}) [] n = 3 -> Pol(3, {1, 2, 3, 5}, {4})
       [] n = 4 -> Pol(4, {1, 2, 3, 4, 5, 7}, {5})],
   nodes |-> <<>>]

Phone3 ==
  [model |-> NoName, hardware |-> raw_b, policies |-> [n \in {0} |-> Pol(0, {2, 4}, 0..1)],
   nodes |-> <<Dev({"int"}, NoRail, 3, {5, 6})>>]

Phone4 == [Phone1 EXCEPT !.model = raw_sign]

MCPhone == {Phone1, Phone2, Phone3, Phone4}

MCSanitised == [r \in {raw_a, raw_b, raw_sign, NoName} |->
  CASE r = raw_a -> soc_a [] r = raw_b -> soc_b [] OTHER -> NoSoc]

MCSocOrder == {<<soc_a, soc_b>>}
===============================================================================
