---------------------------- MODULE GenDeviceConfig ----------------------------
(***************************************************************************)
(* The table generator src/tools/gen_device_config.py: it probes a phone   *)
(* over adb, writes the header of its SoC and regenerates the registry     *)
(* from the headers it finds.                                              *)
(*                                                                         *)
(* soc_dir and registry are the files; a file that is being written, or    *)
(* whose writer was killed, is torn.  gen is the running generator; it may *)
(* be killed at any point, and the user may delete headers between runs.   *)
(*                                                                         *)
(* A frequency table is a set; sorted(...)[k] is its element of rank k.  A *)
(* file the shell cannot cat is skipped with a warning, for its own sake   *)
(* or because adb failed just then; every other adb failure ends the run.  *)
(***************************************************************************)
EXTENDS TableRules, FiniteSets, SequencesExt

CONSTANTS
  RawName,     \* what ro.soc.model and ro.hardware may say
  NoName,      \* an empty property
  NoSoc,       \* a name of which no identifier is left
  Sanitised,   \* _sanitise_soc_name
  Phone,       \* the phones that may be attached
  NoPhone,     \* no phone is being probed
  SocOrder,    \* the order of sorted() on the SoC names, a set of pairs
  NoRail,      \* a devfreq node without scaling_devfreq_min
  Torn         \* a header that is not complete

\* The rails beside those of the CPU, by the end of the name of their node.
Extra == <<"gpu", "mif", "int">>

FreqTable == {T \in SUBSET (Nat \ {0}) : IsFiniteSet(T) /\ T # {}}

Policy == [rail : KernelRail, freqs : FreqTable, cpus : SUBSET Nat]

Node == [matches : SUBSET {"gpu", "mif", "int"}, scaling : KernelRail \cup {NoRail},
         standard : KernelRail, freqs : FreqTable]

\* _probe_devfreq_node prefers Samsung's pair of files; it looks for the minimum only.
NodeRail(d) == IF d.scaling # NoRail THEN d.scaling ELSE d.standard

\* lt is a strict order of the elements of S.
Orders(lt, S) ==
  /\ \A x \in S : <<x, x>> \notin lt
  /\ \A x, y \in S : x # y => <<x, y>> \in lt \/ <<y, x>> \in lt
  /\ \A x, y, z \in S : <<x, y>> \in lt /\ <<y, z>> \in lt => <<x, z>> \in lt

ASSUME NamesAssumption ==
  /\ NoSoc \notin SocName /\ NoRail \notin KernelRail /\ Torn \notin Config
  /\ Sanitised \in [RawName \cup {NoName} -> SocName \cup {NoSoc}]
  /\ Sanitised[NoName] = NoSoc
  /\ Orders(SocOrder, SocName)
  /\ {"power_save", "performance", "boost"} \subseteq FrequencyMode
  /\ {"little", "mid", "big", "prime"} \subseteq CpuCluster
  /\ {"SCHED_COMMON_TARGET_LATENCY", "MEM_MO_SCEN_ID_CUSTOMIZED"} \subseteq TunableName

\* A phone as adb shows it.  Its rails are all different, and no name of a node
\* matches two of the needles.
ASSUME PhoneAssumption ==
  \A ph \in Phone :
    /\ ph # NoPhone
    /\ ph.model \in RawName \cup {NoName} /\ ph.hardware \in RawName \cup {NoName}
    /\ DOMAIN ph.policies \subseteq Nat /\ IsFiniteSet(DOMAIN ph.policies)
    /\ \A n \in DOMAIN ph.policies :
         ph.policies[n] \in Policy /\ IsFiniteSet(ph.policies[n].cpus)
    /\ ph.nodes \in Seq(Node)
    /\ \A m, n \in DOMAIN ph.policies :
         ph.policies[m].rail = ph.policies[n].rail => m = n
    /\ \A k \in DOMAIN ph.nodes :
         /\ \A n \in DOMAIN ph.policies : ph.policies[n].rail # NodeRail(ph.nodes[k])
         /\ \A l \in DOMAIN ph.nodes : NodeRail(ph.nodes[k]) = NodeRail(ph.nodes[l]) => k = l
         /\ \A x, y \in ph.nodes[k].matches : x = y

-------------------------------------------------------------------------------
(* Sorting and picking. *)

\* A set S under the strict order lt.
Rank(S, lt, x) == Cardinality({y \in S : <<y, x>> \in lt})

Nth(S, lt, k) == CHOOSE x \in S : Rank(S, lt, x) = k

Less(S) == {e \in S \X S : e[1] < e[2]}

InOrder(S, lt) == [k \in 1..Cardinality(S) |-> Nth(S, lt, k - 1)]

Sorted(S) == InOrder(S, Less(S))

KnownModes == <<"power_save", "performance", "boost">>

\* In hundredths, the minimum and the maximum.
ModePercentiles(mode) == IF mode = "power_save" THEN <<0, 40>> ELSE <<100, 100>>

\* Python's round(a / b): to the nearest, a half to the even neighbour.
Round(a, b) ==
  LET q == a \div b
      r == a % b
  IN  IF 2 * r < b \/ (2 * r = b /\ q % 2 = 0) THEN q ELSE q + 1

\* The index into a list of n frequencies, from 0.
PickIndex(pct, n) ==
  LET idx == Round(pct * (n - 1), 100)
  IN  IF idx < n - 1 THEN idx ELSE n - 1

\* Mutant: the percentile is one of the range, not of the list.
PickByValue(freqs, mode) ==
  LET low == Nth(freqs, Less(freqs), 0)
      range == Nth(freqs, Less(freqs), Cardinality(freqs) - 1) - low
      value(pct) == low + Round(pct * range, 100)
  IN  <<value(ModePercentiles(mode)[1]), value(ModePercentiles(mode)[2])>>

PickFreqPair(freqs, mode) ==
  LET n == Cardinality(freqs)
      lo_idx == PickIndex(ModePercentiles(mode)[1], n)
      hi_idx == PickIndex(ModePercentiles(mode)[2], n)
  IN  <<Nth(freqs, Less(freqs), lo_idx),
        Nth(freqs, Less(freqs), IF hi_idx < lo_idx THEN lo_idx ELSE hi_idx)>>

Highest(freqs) == Nth(freqs, Less(freqs), Cardinality(freqs) - 1)

\* The readable policies S by their highest frequency, then by number: the sort is
\* stable.
BySpeed(ph, S) ==
  {e \in S \X S : LET a == Highest(ph.policies[e[1]].freqs)
                      b == Highest(ph.policies[e[2]].freqs)
                  IN  a < b \/ (a = b /\ e[1] < e[2])}

SortedPolicy(ph, S, r) == ph.policies[Nth(S, BySpeed(ph, S), r - 1)]

ClusterLabelsByCount == <<
  <<"little">>, <<"little", "big">>, <<"little", "big", "prime">>,
  <<"little", "mid", "big", "prime">>>>

-------------------------------------------------------------------------------
(* build_header: the tables it emits for a SoC. *)

BuildTunables(mode) == <<
  [name |-> "SCHED_COMMON_TARGET_LATENCY", sysfs_path |-> NoPath,
   value |-> IF mode = "power_save" THEN 0 ELSE 1],
  [name |-> "MEM_MO_SCEN_ID_CUSTOMIZED", sysfs_path |-> NoPath,
   value |-> IF mode = "boost" THEN 1 ELSE 0]>>

\* One target for every rail that was probed, in that order.
EmitTargets(rails, mode) ==
  [j \in DOMAIN rails |->
     [min_path |-> rails[j].rail.min, max_path |-> rails[j].rail.max,
      min_khz |-> PickFreqPair(rails[j].freqs, mode)[1],
      max_khz |-> PickFreqPair(rails[j].freqs, mode)[2]]]

EmitModes(rails) ==
  [k \in DOMAIN KnownModes |->
     [mode |-> KnownModes[k], targets |-> EmitTargets(rails, KnownModes[k]),
      tunables |-> BuildTunables(KnownModes[k])]]

EmitClusters(ph, S) ==
  [r \in 1..Cardinality(S) |->
     [cluster |-> ClusterLabelsByCount[Cardinality(S)][r],
      cpu_ids |-> Sorted(SortedPolicy(ph, S, r).cpus)]]

BuildHeader(soc, ph, S, rails) ==
  [soc_name |-> soc, modes |-> EmitModes(rails), custom_profiles |-> <<>>,
   clusters |-> EmitClusters(ph, S)]

-------------------------------------------------------------------------------
VARIABLES soc_dir, registry, gen

files == <<soc_dir, registry>>
gvars == <<soc_dir, registry, gen>>

\* The probing process: its phone and SoC, the policies still to be read (todo) and
\* those read, the rails in the order of the dict, the extra rail it looks for.
NewGen(pc, phone) ==
  [pc |-> pc, phone |-> phone, soc |-> NoSoc, todo |-> {}, read |-> {}, rails |-> <<>>,
   i |-> 1, soc_names |-> <<>>, code |-> 0]

At(pc) == gen.pc = pc
Goto(pc) == gen' = [gen EXCEPT !.pc = pc]
Exit(code) == gen' = [NewGen("off", NoPhone) EXCEPT !.code = code]

\* No registry entry but {kNone, "", nullptr}.
BuildRegistry(soc_names) == IF soc_names = <<>> THEN <<NoSoc>> ELSE soc_names

GenInit ==
  /\ soc_dir = [s \in {} |-> Torn]
  /\ registry = [entries |-> BuildRegistry(<<>>), torn |-> FALSE]
  /\ gen = NewGen("off", NoPhone)

\* main(), with a serial or with --regen-registry.
Main(phone) ==
  /\ At("off")
  /\ gen' \in {NewGen("soc", phone), NewGen("scan", NoPhone)}
  /\ UNCHANGED files

Probing == UNCHANGED files

\* Mutant: the name is not checked.
ReadAnyName ==
  /\ At("soc")
  /\ gen' = [gen EXCEPT !.pc = "policies", !.soc = Sanitised[gen.phone.model],
                         !.todo = DOMAIN gen.phone.policies]
  /\ Probing

\* ro.soc.model, or ro.hardware when it is empty.
ReadSocName ==
  LET raw == IF gen.phone.model # NoName THEN gen.phone.model ELSE gen.phone.hardware
  IN  /\ At("soc")
      /\ IF Sanitised[raw] = NoSoc
         THEN Exit(1)
         ELSE gen' = [gen EXCEPT !.pc = "policies", !.soc = Sanitised[raw],
                                 !.todo = DOMAIN gen.phone.policies]
      /\ Probing

\* _probe_cpu_policies reads them by number, and skips one with an unreadable file.
ProbePolicy ==
  /\ At("policies")
  /\ \E n \in gen.todo :
       /\ \A m \in gen.todo : n <= m
       /\ gen' \in {[gen EXCEPT !.todo = @ \ {n}, !.read = @ \cup {n}],
                    [gen EXCEPT !.todo = @ \ {n}]}
  /\ Probing

\* Mutant: the rails stay in the order of the policies.
CpuRailsByNumber(ph, S) ==
  [r \in 1..Cardinality(S) |->
     [rail |-> ph.policies[Sorted(S)[r]].rail, freqs |-> ph.policies[Sorted(S)[r]].freqs]]

CpuRails(ph, S) ==
  [r \in 1..Cardinality(S) |->
     [rail |-> SortedPolicy(ph, S, r).rail, freqs |-> SortedPolicy(ph, S, r).freqs]]

\* No readable policy, or too many, is an error.
LabelClusters ==
  /\ At("policies") /\ gen.todo = {}
  /\ IF Cardinality(gen.read) \in DOMAIN ClusterLabelsByCount
     THEN gen' = [gen EXCEPT !.pc = "nodes", !.rails = CpuRails(gen.phone, gen.read)]
     ELSE Exit(1)
  /\ Probing

\* Mutant: any node will do.
SomeNodes(ph, needle) == DOMAIN ph.nodes

\* The first node in the listing whose name matches.
MatchingNodes(ph, needle) ==
  {k \in DOMAIN ph.nodes : /\ needle \in ph.nodes[k].matches
                           /\ \A l \in 1..(k - 1) : needle \notin ph.nodes[l].matches}

Found(d) == [rail |-> NodeRail(d), freqs |-> d.freqs]

ProbeDevfreqNode ==
  /\ At("nodes") /\ gen.i \in DOMAIN Extra
  /\ \/ gen' = [gen EXCEPT !.i = @ + 1]
     \/ \E k \in MatchingNodes(gen.phone, Extra[gen.i]) :
          gen' = [gen EXCEPT !.i = @ + 1, !.rails = Append(@, Found(gen.phone.nodes[k]))]
  /\ Probing

ProbeEnds ==
  /\ At("nodes") /\ gen.i \notin DOMAIN Extra
  /\ Goto("header")
  /\ Probing

\* SystemExit from _run_adb: no adb, a failed getprop, a failed listing of either
\* directory, or no answer to whether a node has Samsung's files.
AdbFails ==
  /\ \/ At("soc")
     \/ At("policies") /\ gen.todo = DOMAIN gen.phone.policies
     \/ At("nodes") /\ gen.i = 1
     \/ At("nodes") /\ gen.i \in DOMAIN Extra /\ MatchingNodes(gen.phone, Extra[gen.i]) # {}
  /\ Exit(1)
  /\ Probing

-------------------------------------------------------------------------------
(* write_text truncates the file, then writes it. *)

OpenHeader ==
  /\ At("header")
  /\ soc_dir' = [s \in DOMAIN soc_dir \cup {gen.soc} |->
                   IF s = gen.soc THEN Torn ELSE soc_dir[s]]
  /\ Goto("header_text")
  /\ UNCHANGED registry

WriteHeader ==
  /\ At("header_text")
  /\ soc_dir' = [soc_dir EXCEPT ![gen.soc] =
                   BuildHeader(gen.soc, gen.phone, gen.read, gen.rails)]
  /\ gen' = [NewGen("scan", NoPhone) EXCEPT !.soc = gen.soc]
  /\ UNCHANGED registry

Present == InOrder(DOMAIN soc_dir, SocOrder)

\* Mutant: the new SoC is appended to the list there is.
AppendSoc ==
  /\ At("scan")
  /\ gen' = [gen EXCEPT !.pc = "registry",
                        !.soc_names = SelectSeq(registry.entries, LAMBDA s : s \notin {gen.soc, NoSoc})
                                      \o (IF gen.soc = NoSoc THEN <<>> ELSE <<gen.soc>>)]
  /\ UNCHANGED files

\* regen_registry: the names of the headers there are.
ScanSocDir ==
  /\ At("scan")
  /\ gen' = [gen EXCEPT !.pc = "registry", !.soc_names = Present]
  /\ UNCHANGED files

OpenRegistry ==
  /\ At("registry")
  /\ registry' = [registry EXCEPT !.torn = TRUE]
  /\ Goto("registry_text")
  /\ UNCHANGED soc_dir

WriteRegistry ==
  /\ At("registry_text")
  /\ registry' = [entries |-> BuildRegistry(gen.soc_names), torn |-> FALSE]
  /\ Exit(0)
  /\ UNCHANGED soc_dir

-------------------------------------------------------------------------------
Killed ==
  /\ ~At("off")
  /\ Exit(137)
  /\ UNCHANGED files

\* The user deletes a header; --regen-registry is for that.
RemoveHeader(soc) ==
  /\ At("off")
  /\ soc_dir' = [s \in DOMAIN soc_dir \ {soc} |-> soc_dir[s]]
  /\ UNCHANGED <<registry, gen>>

GenStep ==
  \/ ReadSocName \/ ProbePolicy \/ LabelClusters \/ ProbeDevfreqNode \/ ProbeEnds
  \/ AdbFails
  \/ OpenHeader \/ WriteHeader \/ ScanSocDir \/ OpenRegistry \/ WriteRegistry

GenNext ==
  \/ \E ph \in Phone : Main(ph)
  \/ GenStep
  \/ Killed
  \/ \E soc \in DOMAIN soc_dir : RemoveHeader(soc)

GenSpec == GenInit /\ [][GenNext]_gvars

-------------------------------------------------------------------------------
Whole == {s \in DOMAIN soc_dir : soc_dir[s] # Torn}

\* What a phone has: its rails with their frequencies.
PhoneRails(ph) ==
  {[rail |-> ph.policies[n].rail, freqs |-> ph.policies[n].freqs] : n \in DOMAIN ph.policies}
  \cup {Found(ph.nodes[k]) : k \in DOMAIN ph.nodes}

GenTypeOK ==
  /\ DOMAIN soc_dir \subseteq SocName
  /\ \A s \in Whole : soc_dir[s] \in Config
  /\ registry.entries \in Seq(SocName) \cup {<<NoSoc>>} /\ registry.torn \in BOOLEAN
  /\ gen.soc \in SocName \cup {NoSoc}
  /\ gen.pc \in {"soc", "policies", "nodes", "header", "header_text"} =>
       /\ gen.phone \in Phone
       /\ gen.read \cup gen.todo \subseteq DOMAIN gen.phone.policies
       /\ \A j \in DOMAIN gen.rails : gen.rails[j] \in PhoneRails(gen.phone)

WellFormedModes(h) ==
  \A k \in DOMAIN h.modes :
    /\ \A j \in DOMAIN h.modes[k].targets : WellFormedTarget(h.modes[k].targets[j])
    /\ NoOverlap(h.modes[k])

TargetRail(t) == [min |-> t.min_path, max |-> t.max_path]

PickedOn(ph, h) ==
  \A k \in DOMAIN h.modes : \A j \in DOMAIN h.modes[k].targets :
    LET t == h.modes[k].targets[j]
    IN  \E pr \in PhoneRails(ph) : pr.rail = TargetRail(t) /\ {t.min_khz, t.max_khz} \subseteq pr.freqs

MatchedOn(ph, h) ==
  LET targets == h.modes[2].targets
  IN  /\ \A r \in DOMAIN h.clusters : \E n \in DOMAIN ph.policies :
           /\ ph.policies[n].rail = TargetRail(targets[r])
           /\ ph.policies[n].cpus = Range(h.clusters[r].cpu_ids)
      /\ \A q, r \in DOMAIN h.clusters : q < r => targets[q].max_khz <= targets[r].max_khz

\* Whichever policies, nodes and files a probe could read, what it emits is what the
\* library needs of a table: every target of a mode is both sides of one rail, with
\* a minimum that is not 0 and not above the maximum, and no two targets share a node.
EmittedWellFormed == \A s \in Whole : WellFormedModes(soc_dir[s])

\* "Every emitted value is guaranteed valid on that kernel": both frequencies of a
\* target are in the table of the very rail they are written to, on a phone with the
\* SoC the header is for.
IndexPicked ==
  \A s \in Whole : \E ph \in Phone :
    s \in {Sanitised[ph.model], Sanitised[ph.hardware]} /\ PickedOn(ph, soc_dir[s])

\* The thread affinity and the clocks of a cluster are about the same CPUs, also when
\* policies were skipped and the labels have moved: the r-th cluster has the CPUs of
\* the policy whose rail is the r-th target, and a later cluster is not slower.
ClustersMatchRails ==
  \A s \in Whole : \E ph \in Phone :
    s \in {Sanitised[ph.model], Sanitised[ph.hardware]} /\ MatchedOn(ph, soc_dir[s])

RunSucceeds == gen.pc # "off" /\ gen'.pc = "off" /\ gen'.code = 0

\* A run that exits with 0 leaves a registry of exactly the headers there are, and the
\* header of the SoC it has probed is whole, whatever earlier runs that were killed
\* between two writes, and deleted headers, had left.
RegistryComplete ==
  [][RunSucceeds =>
       /\ registry' = [entries |-> BuildRegistry(Present'), torn |-> FALSE]
       /\ gen.soc # NoSoc => gen.soc \in Whole' /\ gen.soc \in Range(registry'.entries)]_gvars

\* "the new SoC is appended to the runtime Device enum": a run that adds a SoC to a
\* registry leaves the enumerators, and the default device, of the others alone.
AppendsNewSoc ==
  [][/\ registry.entries # registry'.entries
     /\ Range(registry.entries) \subseteq Range(registry'.entries)
     => IsPrefix(registry.entries, registry'.entries)]_gvars
===============================================================================
