------------------------------ MODULE DagSync -------------------------------
(* The dag-sync command (src/cmd/dagsync): the registered IPs of a Palo Alto  *)
(* device are made to carry the label values of the PCE workload that has the *)
(* IP, plus the href of that workload as the mark of an entry workloader      *)
(* added.  The device and the PCE are read one after the other; the device is *)
(* then changed by a register call and an unregister call.                    *)
EXTENDS Naturals, FiniteSets

CONSTANTS
  IPs,
  NumWklds,     \* workloads are numbered in the order the PCE returns them
  Dims, Values, \* label dimensions and label values
  None,         \* no label, no address
  FlagSets,     \* flag combinations a run may be given
  InitPCE,      \* the workloads at the start
  InitReg,      \* the tags on the device at the start
  MaxFaults,    \* bound: crashes and changes by others
  MaxRuns       \* bound: invocations of the command

Hrefs == 1..NumWklds
Tags == Values \cup Hrefs
Workload == [ip : IPs \cup {None}, labels : [Dims -> Values \cup {None}]]
Flags == [update : BOOLEAN, noPrompt : BOOLEAN, removeOld : BOOLEAN,
          noHref : BOOLEAN, flush : BOOLEAN]
IPTags == [labels : SUBSET Values, size : 1..Cardinality(Dims), href : Hrefs]

ASSUME InputAssumption ==
  /\ NumWklds \in Nat /\ Values \cap Hrefs = {}
  /\ IsFiniteSet(Dims)
  /\ None \notin Values \cup IPs
  /\ FlagSets \subseteq Flags
  /\ InitPCE \in [Hrefs -> Workload]
  /\ InitReg \in [IPs -> SUBSET Tags]
  /\ MaxFaults \in Nat /\ MaxRuns \in Nat \ {0}

VARIABLES
  reg,               \* the device: tags by IP, none for an unregistered IP
  wklds,             \* the PCE
  flags, phase,
  regView,           \* pan.RegIPs: what LoadRegisteredIPs saw
  pceView,           \* what workloadIPMap built
  answer, wrote, faults, runs,
  clean,             \* nothing was disturbed since the run began
  full               \* undisturbed full runs in a row

vars == <<reg, wklds, flags, phase, regView, pceView, answer, wrote, faults,
          runs, clean, full>>

NoEntry == [ip \in {} |-> [labels |-> {}, size |-> 1, href |-> 1]]

Init ==
  /\ reg = InitReg /\ wklds = InitPCE
  /\ flags \in FlagSets
  /\ phase = "loadPAN"
  /\ regView = [ip \in IPs |-> {}] /\ pceView = NoEntry
  /\ answer = "unasked" /\ wrote = FALSE
  /\ faults = 0 /\ runs = 1 /\ clean = TRUE /\ full = 0

-----------------------------------------------------------------------------
(* Reading the device, then the PCE. *)

LoadRegisteredIPs ==
  /\ phase = "loadPAN"
  /\ regView' = reg
  /\ phase' = IF flags.flush THEN "decide" ELSE "loadPCE"
  /\ UNCHANGED <<reg, wklds, flags, pceView, answer, wrote, faults, runs, clean,
                 full>>

LabelDims(w) == {d \in Dims : wklds[w].labels[d] # None}

\* Workloads with an address and at least one label; the last one wins.
Owner(ip) ==
  LET W == {w \in Hrefs : wklds[w].ip = ip /\ LabelDims(w) # {}}
  IN {w \in W : \A v \in W : v <= w}

workloadIPMap ==
  /\ phase = "loadPCE"
  /\ pceView' =
       [ip \in {i \in IPs : Owner(i) # {}} |->
          LET w == CHOOSE v \in Owner(ip) : TRUE
          IN [labels |-> {wklds[w].labels[d] : d \in LabelDims(w)},
              size |-> Cardinality(LabelDims(w)),
              href |-> w]]
  /\ phase' = "decide"
  /\ UNCHANGED <<reg, wklds, flags, regView, answer, wrote, faults, runs, clean,
                 full>>

-----------------------------------------------------------------------------
(* Comparing.  With --no-href every entry of the device counts as found, and  *)
(* hrefs count as labels.                                                     *)

PanLabels(ip) == IF flags.noHref THEN regView[ip] ELSE regView[ip] \ Hrefs
Found(ip) == flags.noHref \/ regView[ip] \cap Hrefs # {}
Mark(ip) == IF flags.noHref THEN {} ELSE {pceView[ip].href}

\* Slip: labels the PCE no longer has are not looked for.
Stray_None(ip) == {}

\* isEqual: labels to remove, labels to add, and whether the lists are equal.
Stray(ip) == PanLabels(ip) \ pceView[ip].labels

Missing(ip) == pceView[ip].labels \ PanLabels(ip)
isEqual(ip) ==
  Stray(ip) = {} /\ Cardinality(PanLabels(ip)) >= pceView[ip].size

\* Slip: an entry without a mark whose labels are right is left alone.
ToRegister_NoMark(ip) ==
  IF regView[ip] = {} THEN pceView[ip].labels \cup Mark(ip) ELSE Missing(ip)

\* The tags to register for an IP of a workload.
ToRegister(ip) ==
  IF regView[ip] = {} THEN pceView[ip].labels \cup Mark(ip)
  ELSE IF ~isEqual(ip) THEN Missing(ip)
  ELSE IF Found(ip) THEN {}
  ELSE Mark(ip)

\* --remove-stale: entries workloader added for an IP no workload has.
Stale(ip) ==
  /\ regView[ip] # {} /\ ip \notin DOMAIN pceView
  /\ flags.removeOld /\ Found(ip)

\* The tags to unregister; all of them for a whole entry.
ToUnregister(ip) ==
  CASE flags.flush          -> IF Found(ip) THEN regView[ip] ELSE {}
    [] ip \in DOMAIN pceView -> IF regView[ip] = {} THEN {} ELSE Stray(ip)
    [] OTHER                 -> IF Stale(ip) THEN regView[ip] ELSE {}

NothingRegistered == \A ip \in IPs : regView[ip] = {}

NoChange ==
  /\ \A ip \in DOMAIN pceView : ToRegister(ip) = {}
  /\ \A ip \in IPs : ToUnregister(ip) = {}

-----------------------------------------------------------------------------
(* Deciding.  Flushing, and filling an empty device, need --update-panos; a   *)
(* normal update asks with it and goes ahead without it.                      *)

Decision(next) ==
  /\ phase = "decide"
  /\ phase' = next
  /\ UNCHANGED <<reg, wklds, flags, regView, pceView, wrote, faults, runs,
                 clean>>

\* The flush and the first fill return before the entries are compared.
Shortcut ==
  \/ flags.flush /\ ~NothingRegistered
  \/ NothingRegistered /\ DOMAIN pceView # {}

NoChangeNeeded ==
  /\ Decision("ended")
  /\ ~Shortcut /\ NoChange
  /\ full' = IF clean THEN full + 1 ELSE 0
  /\ UNCHANGED answer

LogOnly ==
  /\ Decision("ended")
  /\ Shortcut /\ ~flags.update
  /\ UNCHANGED <<answer, full>>

Prompted == flags.update /\ ~flags.noPrompt

PromptDenied ==
  /\ Decision("ended")
  /\ Shortcut \/ ~NoChange
  /\ Prompted
  /\ answer' = "no"
  /\ UNCHANGED full

Proceed ==
  /\ Decision("register")
  /\ IF Shortcut THEN flags.update ELSE ~NoChange
  /\ answer' = IF Prompted THEN "yes" ELSE answer
  /\ UNCHANGED full

-----------------------------------------------------------------------------
(* Changing the device. *)

Register ==
  /\ phase = "register"
  /\ IF \E ip \in DOMAIN pceView : ToRegister(ip) # {}
     THEN /\ reg' = [ip \in IPs |-> IF ip \in DOMAIN pceView
                                    THEN reg[ip] \cup ToRegister(ip)
                                    ELSE reg[ip]]
          /\ wrote' = TRUE
     ELSE UNCHANGED <<reg, wrote>>
  /\ phase' = "unregister"
  /\ UNCHANGED <<wklds, flags, regView, pceView, answer, faults, runs, clean,
                 full>>

\* Slip: the IP is removed to get rid of one of its tags.
Unregistered_Whole(ip) == IF ToUnregister(ip) # {} THEN {} ELSE reg[ip]

\* An entry without labels removes the IP, whatever its tags are by now.
Unregistered(ip) ==
  IF ToUnregister(ip) # {} /\ (flags.flush \/ ip \notin DOMAIN pceView)
  THEN {} ELSE reg[ip] \ ToUnregister(ip)

UnRegister ==
  /\ phase = "unregister"
  /\ IF \E ip \in IPs : ToUnregister(ip) # {}
     THEN /\ reg' = [ip \in IPs |-> Unregistered(ip)]
          /\ wrote' = TRUE
     ELSE UNCHANGED <<reg, wrote>>
  /\ phase' = "ended"
  /\ full' = IF clean THEN full + 1 ELSE 0
  /\ UNCHANGED <<wklds, flags, regView, pceView, answer, faults, runs, clean>>

-----------------------------------------------------------------------------
(* The environment. *)

Crash ==
  /\ phase \notin {"ended", "dead"}
  /\ faults < MaxFaults
  /\ faults' = faults + 1
  /\ phase' = "dead"
  /\ UNCHANGED <<reg, wklds, flags, regView, pceView, answer, wrote, runs, clean,
                 full>>

Rerun ==
  /\ phase \in {"ended", "dead"}
  /\ runs < MaxRuns
  /\ runs' = runs + 1
  /\ phase' = "loadPAN"
  /\ regView' = [ip \in IPs |-> {}] /\ pceView' = NoEntry
  /\ answer' = "unasked" /\ wrote' = FALSE
  /\ clean' = TRUE
  /\ UNCHANGED <<reg, wklds, flags, faults, full>>

Others ==
  /\ faults < MaxFaults
  /\ faults' = faults + 1
  /\ clean' = FALSE /\ full' = 0
  /\ UNCHANGED <<flags, phase, regView, pceView, answer, wrote, runs>>

WorkloadChanges(w, new) ==
  /\ Others
  /\ wklds' = [wklds EXCEPT ![w] = new]
  /\ UNCHANGED reg

ForeignEntry(ip, tags) ==
  /\ Others
  /\ reg' = [reg EXCEPT ![ip] = tags]
  /\ UNCHANGED wklds

RunStep ==
  \/ LoadRegisteredIPs \/ workloadIPMap
  \/ NoChangeNeeded \/ LogOnly \/ PromptDenied \/ Proceed
  \/ Register \/ UnRegister

Next ==
  \/ RunStep
  \/ Crash \/ Rerun
  \/ \E w \in Hrefs, new \in Workload : WorkloadChanges(w, new)
  \/ \E ip \in IPs, tags \in SUBSET Values : ForeignEntry(ip, tags)

Spec == Init /\ [][Next]_vars

-----------------------------------------------------------------------------
(* Properties. *)

\* Every variable holds a value of its type.
TypeOK ==
  /\ reg \in [IPs -> SUBSET Tags] /\ wklds \in [Hrefs -> Workload]
  /\ flags \in Flags
  /\ phase \in {"loadPAN", "loadPCE", "decide", "register", "unregister",
                "ended", "dead"}
  /\ regView \in [IPs -> SUBSET Tags]
  /\ DOMAIN pceView \subseteq IPs
  /\ \A ip \in DOMAIN pceView : pceView[ip] \in IPTags
  /\ answer \in {"unasked", "yes", "no"} /\ wrote \in BOOLEAN
  /\ faults \in Nat /\ runs \in Nat /\ clean \in BOOLEAN /\ full \in Nat

OwnedLabels(ip) ==
  UNION {{wklds[w].labels[d] : d \in LabelDims(w)} : w \in Owner(ip)}

\* One undisturbed full run is enough for the labels: every IP of a labelled
\* workload carries the workload's labels and no other, and, with
\* --remove-stale, entries workloader marked are gone with their workload.
Synced ==
  full >= 1 /\ ~flags.flush =>
    \A ip \in IPs :
      IF Owner(ip) # {} THEN reg[ip] \ Hrefs = OwnedLabels(ip)
      ELSE flags.removeOld => reg[ip] \cap Hrefs = {}

\* Two are enough for the mark, for workloads whose label values differ from
\* each other ("If labels are equal but we didnt find a workload tag then add
\* it"): an entry someone else made is first given the labels, then the mark.
MarkedInTwo ==
  full >= 2 /\ ~flags.flush /\ ~flags.noHref =>
    \A ip \in IPs : \A w \in Owner(ip) :
      Cardinality(OwnedLabels(ip)) = Cardinality(LabelDims(w))
        => reg[ip] \cap Hrefs # {}

\* No step of an undisturbed run takes from the device what it must have, not
\* even between the two calls: the entry of an IP of a labelled workload never
\* vanishes, and keeps those of its tags that are the workload's labels.  An
\* entry without such a workload is left alone unless the flags ask for removal.
EntriesKept ==
  [][\A ip \in IPs :
       clean /\ clean' /\ ~flags.flush /\ reg[ip] # {} =>
         IF Owner(ip) # {}
         THEN reg'[ip] # {} /\ reg[ip] \cap OwnedLabels(ip) \subseteq reg'[ip]
         ELSE flags.removeOld \/ reg'[ip] = reg[ip]]_vars

\* The device is changed only with --update-panos and the operator's consent.
Gate == INSTANCE UpdateGate WITH updatePCE <- flags.update,
                                 noPrompt <- flags.noPrompt
GateSpec == Gate!Spec
=============================================================================
