---------------------------- MODULE MCThreadAffinity ----------------------------
(***************************************************************************)
(* Two devices that share CPU ids, 4-bit masks, and a cluster whose id     *)
(* does not fit.  CPU 3 is online but in no table of the first device, as  *)
(* when the generator could not read its policy; CPU 2 is offline.         *)
(***************************************************************************)
EXTENDS ThreadAffinity

CONSTANTS dev_a, dev_b, dev_x, soc_a, soc_b, little, mid, big, t1, t2, t3

Table(soc, clusters) ==
  [soc_name |-> soc, modes |-> <<>>, custom_profiles |-> <<>>, clusters |-> clusters]

Map(cluster, ids) == [cluster |-> cluster, cpu_ids |-> ids]

MCRegistry == <<
  [device |-> dev_a, soc_name |-> soc_a, config |->
     Table(soc_a, <<Map(little, <<0, 1>>), Map(big, <<2>>)>>)],
  [device |-> dev_b, soc_name |-> soc_b, config |->
     Table(soc_b, <<Map(little, <<1, 3>>), Map(big, <<4>>)>>)]>>
=================================================================================
