------------------------ MODULE DagSyncFleet_proofs -------------------------
(* Two components, each for all values of its constants.                      *)
(* For every device, every PCE and every combination of flags: an undisturbed *)
(* dag-sync takes nothing from the device that it must have; one run is       *)
(* enough for the labels, two for the mark.                                   *)
(* For every fleet, every age of the file and every choice of VENs that stay: *)
(* wkld-cleanup and unpair leave a VEN of every hostname that was in use; for *)
(* every size of a call, increase-ven-rate asks VENs evenly.                  *)
(*                                                                            *)
(* Fleet is an instance, under the assumption it makes of its constants.  A   *)
(* variable that both have, such as flags, stands for each of them in turn:   *)
(* no statement is about both components.                                     *)
EXTENDS DagSync, Sequences, Integers, SequenceTheorems, FiniteSetTheorems,
        WellFoundedInduction, TLAPS

CONSTANTS
  FleetFlags, Vens, HostOf, Mute, Loose, Labelled, InitialOnline, UnpairChunk,
  RateChunk, Iterations, MaxTime

VARIABLES
  alone, cmd, now, paired, online, beat, old, list, removed, asked,
  pc, targets, calls, iterations

F == INSTANCE Fleet WITH FlagSets <- FleetFlags

-----------------------------------------------------------------------------
(* dag-sync *)

Comparing == {"decide", "register", "unregister"}

\* The inductive invariant: until something is disturbed, what was read of an
\* IP without a workload is what the device has, even between the two calls.
ViewInv ==
  /\ DOMAIN reg = IPs
  /\ phase \in {"loadPAN", "loadPCE"} => DOMAIN pceView = {}
  /\ clean /\ phase = "loadPCE" => regView = reg
  /\ clean /\ phase \in Comparing =>
       /\ \A ip \in IPs \ DOMAIN pceView : regView[ip] = reg[ip]
       /\ \A ip \in DOMAIN pceView : Owner(ip) # {}

\* What the property says of one step, for IPs without a workload.
Kept ==
  \A ip \in IPs :
    clean /\ clean' /\ ~flags.flush /\ ~flags.removeOld /\ Owner(ip) = {}
      => reg'[ip] = reg[ip]

LEMMA ViewInit == Init => ViewInv
  BY InputAssumption DEF Init, ViewInv, NoEntry, Comparing

LEMMA OwnerKept ==
  ASSUME wklds' = wklds, NEW ip
  PROVE  Owner(ip)' = Owner(ip)
  BY DEF Owner, LabelDims

LEMMA ReadStep ==
  ASSUME ViewInv, LoadRegisteredIPs \/ workloadIPMap
  PROVE  ViewInv'
<1>1. CASE LoadRegisteredIPs
  BY <1>1 DEF ViewInv, LoadRegisteredIPs, Comparing
<1>2. CASE workloadIPMap
  <2>1. /\ DOMAIN pceView' = {i \in IPs : Owner(i) # {}}
        /\ phase' = "decide"
        /\ UNCHANGED <<reg, wklds, regView, clean>>
        /\ clean => regView = reg
    BY <1>2 DEF ViewInv, workloadIPMap
  <2> QED
    BY <2>1, OwnerKept DEF ViewInv, Comparing
<1> QED
  BY <1>1, <1>2

LEMMA DecideStep ==
  ASSUME ViewInv, NoChangeNeeded \/ LogOnly \/ PromptDenied \/ Proceed
  PROVE  ViewInv'
<1>1. /\ phase = "decide" /\ phase' \in {"ended", "register"}
      /\ UNCHANGED <<reg, wklds, regView, pceView, clean>>
  BY DEF NoChangeNeeded, LogOnly, PromptDenied, Proceed, Decision
<1> QED
  BY <1>1, OwnerKept DEF ViewInv, Comparing

\* Registering changes only entries of workloads.
LEMMA RegisterStep ==
  ASSUME ViewInv, Register
  PROVE  ViewInv' /\ Kept
<1>1. /\ phase = "register" /\ phase' = "unregister"
      /\ UNCHANGED <<wklds, regView, pceView, clean>>
  BY DEF Register
<1>2. DOMAIN reg' = IPs /\ \A ip \in IPs \ DOMAIN pceView : reg'[ip] = reg[ip]
  BY DEF Register, ViewInv
<1>3. ViewInv'
  BY <1>1, <1>2, OwnerKept DEF ViewInv, Comparing
<1>4. Kept
  BY <1>1, <1>2 DEF Kept, ViewInv, Comparing
<1> QED
  BY <1>3, <1>4

\* What is unregistered of an entry is what was read of it, which is what there is.
LEMMA UnRegisterStep ==
  ASSUME ViewInv, UnRegister
  PROVE  ViewInv' /\ Kept
<1>1. phase = "unregister" /\ phase' = "ended" /\ UNCHANGED <<wklds, pceView, clean>>
  BY DEF UnRegister
<1>2. DOMAIN reg' = IPs
  BY DEF UnRegister, ViewInv
<1>3. ViewInv'
  BY <1>1, <1>2 DEF ViewInv, Comparing
<1>4. ASSUME NEW ip \in IPs, clean, ~flags.flush, ~flags.removeOld, Owner(ip) = {}
      PROVE  reg'[ip] = reg[ip]
  <2>1. ip \notin DOMAIN pceView
    BY <1>1, <1>4 DEF ViewInv, Comparing
  <2>3. ToUnregister(ip) = {}
    BY <1>4, <2>1 DEF ToUnregister, Stale
  <2>4. Unregistered(ip) = reg[ip]
    BY <2>3 DEF Unregistered
  <2> QED
    BY <2>4 DEF UnRegister
<1>5. Kept
  BY <1>4 DEF Kept
<1> QED
  BY <1>3, <1>5

LEMMA RestStep ==
  ASSUME ViewInv,
         \/ Crash \/ Rerun
         \/ \E w \in Hrefs, new \in Workload : WorkloadChanges(w, new)
         \/ \E ip \in IPs, tags \in SUBSET Values : ForeignEntry(ip, tags)
         \/ UNCHANGED vars
  PROVE  ViewInv' /\ Kept
<1>1. CASE Crash
  BY <1>1 DEF Crash, ViewInv, Comparing, Kept
<1>2. CASE Rerun
  BY <1>2 DEF Rerun, ViewInv, Comparing, Kept, NoEntry
<1>3. CASE \/ \E w \in Hrefs, new \in Workload : WorkloadChanges(w, new)
           \/ \E ip \in IPs, tags \in SUBSET Values : ForeignEntry(ip, tags)
  <2>1. DOMAIN reg' = DOMAIN reg /\ clean' = FALSE /\ UNCHANGED <<phase, pceView>>
    BY <1>3 DEF WorkloadChanges, ForeignEntry, Others
  <2> QED
    BY <2>1 DEF ViewInv, Kept
<1>4. CASE UNCHANGED vars
  BY <1>4, OwnerKept DEF vars, ViewInv, Kept
<1> QED
  BY <1>1, <1>2, <1>3, <1>4

LEMMA ViewStep == ViewInv /\ [Next]_vars => ViewInv' /\ Kept
<1> SUFFICES ASSUME ViewInv, [Next]_vars PROVE ViewInv' /\ Kept
  OBVIOUS
<1>1. ASSUME \/ LoadRegisteredIPs \/ workloadIPMap
             \/ NoChangeNeeded \/ LogOnly \/ PromptDenied \/ Proceed
      PROVE  Kept
  BY <1>1 DEF Kept, LoadRegisteredIPs, workloadIPMap, NoChangeNeeded, LogOnly,
              PromptDenied, Proceed, Decision
<1> QED
  BY <1>1, ReadStep, DecideStep, RegisterStep, UnRegisterStep, RestStep DEF Next, RunStep

-----------------------------------------------------------------------------
(* What an undisturbed run leaves on the device. *)

\* What workloadIPMap makes of a workload, and the entry of an IP being what it
\* makes of the workload that owns the IP now.
Seen(w) ==
  [labels |-> {wklds[w].labels[d] : d \in LabelDims(w)},
   size |-> Cardinality(LabelDims(w)),
   href |-> w]

Viewed(ip) == \E w \in Owner(ip) : pceView[ip] = Seen(w)

\* The tags the device has for an IP of a workload, before and after the
\* register call.
Entry(ip) ==
  IF phase = "unregister" THEN regView[ip] \cup ToRegister(ip) ELSE regView[ip]

\* While an undisturbed run compares and changes.
Halfway ==
  \A ip \in IPs :
    /\ ip \in DOMAIN pceView <=> Owner(ip) # {}
    /\ ip \in DOMAIN pceView =>
         /\ Viewed(ip)
         /\ reg[ip] = Entry(ip)
         /\ full >= 1 => regView[ip] \ Hrefs = pceView[ip].labels

SyncInv ==
  /\ ViewInv
  /\ wklds \in [Hrefs -> Workload]
  /\ full \in Nat
  /\ full >= 1 => clean
  /\ clean /\ phase \in Comparing /\ ~flags.flush => Halfway
  /\ Synced /\ MarkedInTwo

LEMMA OwnerIsOne ==
  ASSUME NEW ip, NEW v \in Owner(ip), NEW w \in Owner(ip)
  PROVE  v = w
BY DEF Owner, Hrefs

LEMMA LabelsAre ==
  ASSUME NEW ip, NEW w \in Owner(ip)
  PROVE  OwnedLabels(ip) = {wklds[w].labels[d] : d \in LabelDims(w)}
<1>1. Owner(ip) = {w}
  BY OwnerIsOne
<1> QED
  BY <1>1 DEF OwnedLabels

\* What a run knows of an entry it has to bring in line.
LEMMA ViewedIs ==
  ASSUME wklds \in [Hrefs -> Workload], NEW ip, Viewed(ip)
  PROVE  /\ pceView[ip].labels = OwnedLabels(ip)
         /\ pceView[ip].labels # {} /\ pceView[ip].labels \cap Hrefs = {}
         /\ IsFiniteSet(pceView[ip].labels)
         /\ pceView[ip].size \in Nat
         /\ Cardinality(pceView[ip].labels) <= pceView[ip].size
         /\ pceView[ip].href \in Hrefs
         /\ \A w \in Owner(ip) : Cardinality(LabelDims(w)) = pceView[ip].size
<1>1. PICK w \in Owner(ip) : pceView[ip] = Seen(w)
  BY DEF Viewed
<1>2. w \in Hrefs /\ LabelDims(w) # {}
  BY DEF Owner
<1>3. wklds[w].labels \in [Dims -> Values \cup {None}]
  BY <1>2 DEF Workload
<1>4. LabelDims(w) \subseteq Dims /\ \A d \in LabelDims(w) : wklds[w].labels[d] \in Values
  BY <1>3 DEF LabelDims
<1>5. IsFiniteSet(LabelDims(w))
  BY <1>4, FS_Subset, InputAssumption
<1> DEFINE L == {wklds[w].labels[d] : d \in LabelDims(w)}
           f == [d \in LabelDims(w) |-> wklds[w].labels[d]]
<1>6. f \in Surjection(LabelDims(w), L)
  BY DEF Surjection
<1>7. IsFiniteSet(L) /\ Cardinality(L) <= Cardinality(LabelDims(w))
  BY <1>5, <1>6, FS_Surjection
<1>8. Cardinality(LabelDims(w)) \in Nat
  BY <1>5, FS_CardinalityType
<1>9. L # {} /\ L \cap Hrefs = {}
  BY <1>2, <1>4, InputAssumption
<1>10. L = OwnedLabels(ip)
  BY LabelsAre
<1>11. \A v \in Owner(ip) : v = w
  BY OwnerIsOne
<1>12. /\ pceView[ip].labels = L /\ pceView[ip].href = w
       /\ pceView[ip].size = Cardinality(LabelDims(w))
  BY <1>1 DEF Seen
<1> HIDE DEF L
<1> QED
  BY <1>2, <1>7, <1>8, <1>9, <1>10, <1>11, <1>12

\* The comparison of the lists by length and by one inclusion is a comparison
\* of the sets.
LEMMA EqualMeansSame ==
  ASSUME wklds \in [Hrefs -> Workload], NEW ip, Viewed(ip), isEqual(ip)
  PROVE  PanLabels(ip) = pceView[ip].labels
<1> DEFINE L == pceView[ip].labels
           P == PanLabels(ip)
<1>1. P \subseteq L /\ Cardinality(P) >= pceView[ip].size
  BY DEF isEqual, Stray
<1>2. IsFiniteSet(L) /\ Cardinality(L) <= pceView[ip].size /\ pceView[ip].size \in Nat
  BY ViewedIs
<1>3. IsFiniteSet(P) /\ (P # L => Cardinality(P) < Cardinality(L))
  BY <1>1, <1>2, FS_Subset, FS_CardinalityType
<1>4. Cardinality(P) \in Nat /\ Cardinality(L) \in Nat
  BY <1>2, <1>3, FS_CardinalityType
<1> HIDE DEF P, L
<1>5. P = L
  BY <1>1, <1>2, <1>3, <1>4
<1> QED
  BY <1>5 DEF P, L

\* Registering what is missing and unregistering what is too much leaves the
\* labels of the workload.
LEMMA Turned ==
  ASSUME wklds \in [Hrefs -> Workload], NEW ip \in DOMAIN pceView, Viewed(ip),
         ~flags.flush
  PROVE  /\ ((regView[ip] \cup ToRegister(ip)) \ ToUnregister(ip)) \ Hrefs
              = pceView[ip].labels
         /\ ToUnregister(ip) = {} \/ ToUnregister(ip) = Stray(ip)
<1> DEFINE L == pceView[ip].labels
           V == regView[ip]
           P == PanLabels(ip)
<1>1. L \cap Hrefs = {} /\ pceView[ip].href \in Hrefs
  BY ViewedIs
<1>2. ToUnregister(ip) = IF V = {} THEN {} ELSE P \ L
  BY DEF ToUnregister, Stray
<1>3. CASE V = {}
  <2>1. ToRegister(ip) = L \cup Mark(ip) /\ ToUnregister(ip) = {}
    BY <1>2, <1>3 DEF ToRegister
  <2> QED
    BY <1>1, <1>3, <2>1 DEF Mark
<1>4. CASE V # {} /\ ~isEqual(ip)
  <2>1. ToRegister(ip) = L \ P /\ ToUnregister(ip) = P \ L
    BY <1>2, <1>4 DEF ToRegister, Missing
  <2>2. P = V \/ P = V \ Hrefs
    BY DEF PanLabels
  <2>3. Stray(ip) = P \ L
    BY DEF Stray
  <2> HIDE DEF P, V, L
  <2>4. ((V \cup (L \ P)) \ (P \ L)) \ Hrefs = L
    BY <1>1, <2>2
  <2> QED
    BY <2>1, <2>3, <2>4 DEF V, L
<1>5. CASE V # {} /\ isEqual(ip)
  <2>1. P = L
    BY <1>5, EqualMeansSame
  <2>2. ToUnregister(ip) = {}
    BY <1>2, <2>1
  <2>3. ToRegister(ip) \subseteq Hrefs
    BY <1>1, <1>5 DEF ToRegister, Mark
  <2>4. P = V \/ P = V \ Hrefs
    BY DEF PanLabels
  <2> QED
    BY <1>1, <2>1, <2>2, <2>3, <2>4
<1> QED
  BY <1>3, <1>4, <1>5

\* The second run finds the labels right and adds the mark.
LEMMA TurnedMarked ==
  ASSUME wklds \in [Hrefs -> Workload], NEW ip \in DOMAIN pceView, Viewed(ip),
         ~flags.flush, ~flags.noHref,
         regView[ip] \ Hrefs = pceView[ip].labels,
         Cardinality(pceView[ip].labels) = pceView[ip].size
  PROVE  ((regView[ip] \cup ToRegister(ip)) \ ToUnregister(ip)) \cap Hrefs # {}
<1> DEFINE L == pceView[ip].labels
           V == regView[ip]
<1>1. /\ L # {} /\ L \cap Hrefs = {} /\ pceView[ip].href \in Hrefs
      /\ pceView[ip].size \in Nat
  BY ViewedIs
<1>2. PanLabels(ip) = L
  BY DEF PanLabels
<1>3. Stray(ip) = {} /\ isEqual(ip)
  BY <1>1, <1>2 DEF Stray, isEqual
<1>4. V # {}
  BY <1>1
<1>5. ToUnregister(ip) = {}
  BY <1>3 DEF ToUnregister
<1>6. ToRegister(ip) = IF Found(ip) THEN {} ELSE Mark(ip)
  BY <1>3, <1>4 DEF ToRegister
<1>7. Found(ip) => V \cap Hrefs # {}
  BY DEF Found
<1>8. Mark(ip) = {pceView[ip].href}
  BY DEF Mark
<1> QED
  BY <1>1, <1>5, <1>6, <1>7, <1>8

\* With the labels right already, only marks are registered.
LEMMA OnlyMarks ==
  ASSUME wklds \in [Hrefs -> Workload], NEW ip \in DOMAIN pceView, Viewed(ip),
         regView[ip] \ Hrefs = pceView[ip].labels
  PROVE  ToRegister(ip) \subseteq Hrefs
<1>1. /\ pceView[ip].labels # {} /\ pceView[ip].href \in Hrefs
      /\ pceView[ip].labels \cap Hrefs = {}
  BY ViewedIs
<1>2. regView[ip] # {}
  BY <1>1
<1>3. PanLabels(ip) = regView[ip] \/ PanLabels(ip) = regView[ip] \ Hrefs
  BY DEF PanLabels
<1>4. Missing(ip) = {}
  BY <1>1, <1>3 DEF Missing
<1>5. Mark(ip) \subseteq Hrefs
  BY <1>1 DEF Mark
<1> QED
  BY <1>2, <1>4, <1>5 DEF ToRegister

LEMMA LabelsKept ==
  ASSUME wklds' = wklds
  PROVE  /\ \A w : LabelDims(w)' = LabelDims(w) /\ Seen(w)' = Seen(w)
         /\ \A ip : Owner(ip)' = Owner(ip) /\ OwnedLabels(ip)' = OwnedLabels(ip)
<1>1. \A w : LabelDims(w)' = LabelDims(w)
  BY DEF LabelDims
<1>2. \A w : Seen(w)' = Seen(w)
  BY <1>1 DEF Seen
<1> QED
  BY <1>1, <1>2 DEF Owner, OwnedLabels

LEMMA ViewKept ==
  ASSUME UNCHANGED <<wklds, pceView>>
  PROVE  \A ip : Viewed(ip)' = Viewed(ip)
<1> SUFFICES ASSUME NEW ip PROVE Viewed(ip)' = Viewed(ip)
  OBVIOUS
<1>1. Owner(ip)' = Owner(ip) /\ \A w : Seen(w)' = Seen(w)
  BY LabelsKept
<1> QED
  BY <1>1 DEF Viewed

\* A step that leaves the device and the PCE alone keeps what was reached.
LEMMA ReachedKept ==
  ASSUME Synced, MarkedInTwo, UNCHANGED <<reg, wklds, flags, full>>
  PROVE  Synced' /\ MarkedInTwo'
<1>1. Synced'
  BY LabelsKept DEF Synced
<1>2. MarkedInTwo'
  BY LabelsKept DEF MarkedInTwo
<1> QED
  BY <1>1, <1>2

LEMMA NothingReached ==
  ASSUME full' = 0
  PROVE  Synced' /\ MarkedInTwo'
BY DEF Synced, MarkedInTwo

\* What the device has when the run is done.
Brought(ip) ==
  IF ip \in DOMAIN pceView
  THEN (regView[ip] \cup ToRegister(ip)) \ ToUnregister(ip)
  ELSE IF Stale(ip) THEN {} ELSE regView[ip]

LEMMA Landing ==
  ASSUME SyncInv, clean, phase \in Comparing, full' = full + 1,
         ~flags.flush => \A ip \in IPs : reg'[ip] = Brought(ip),
         UNCHANGED <<wklds, flags>>
  PROVE  Synced' /\ MarkedInTwo'
<1> USE DEF SyncInv
<1>1. CASE flags.flush
  BY <1>1 DEF Synced, MarkedInTwo
<1>2. CASE ~flags.flush
  <2>1. Halfway /\ full \in Nat /\ wklds \in [Hrefs -> Workload]
    BY <1>2
  <2>2. ASSUME NEW ip \in IPs, Owner(ip) # {}
        PROVE  reg'[ip] \ Hrefs = OwnedLabels(ip)
    <3>1. ip \in DOMAIN pceView /\ Viewed(ip)
      BY <2>1, <2>2 DEF Halfway
    <3>2. Brought(ip) \ Hrefs = pceView[ip].labels
      BY <1>2, <2>1, <3>1, Turned DEF Brought
    <3> QED
      BY <1>2, <2>1, <3>1, <3>2, ViewedIs
  <2>3. ASSUME NEW ip \in IPs, Owner(ip) = {}, flags.removeOld
        PROVE  reg'[ip] \cap Hrefs = {}
    <3>1. ip \notin DOMAIN pceView
      BY <2>1, <2>3 DEF Halfway
    <3>2. CASE Stale(ip)
      BY <1>2, <3>1, <3>2 DEF Brought
    <3>3. CASE ~Stale(ip)
      <4>1. reg'[ip] = regView[ip]
        BY <1>2, <3>1, <3>3 DEF Brought
      <4> QED
        BY <2>3, <3>1, <3>3, <4>1 DEF Stale, Found
    <3> QED
      BY <3>2, <3>3
  <2>4. Synced'
    BY <2>2, <2>3, LabelsKept DEF Synced
  <2>5. ASSUME full + 1 >= 2, ~flags.noHref, NEW ip \in IPs, NEW w \in Owner(ip),
               Cardinality(OwnedLabels(ip)) = Cardinality(LabelDims(w))
        PROVE  reg'[ip] \cap Hrefs # {}
    <3>1. full >= 1
      BY <2>1, <2>5
    <3>2. /\ ip \in DOMAIN pceView /\ Viewed(ip)
          /\ regView[ip] \ Hrefs = pceView[ip].labels
      BY <2>1, <2>5, <3>1 DEF Halfway
    <3>3. Cardinality(pceView[ip].labels) = pceView[ip].size
      BY <2>1, <2>5, <3>2, ViewedIs
    <3>4. Brought(ip) \cap Hrefs # {}
      BY <1>2, <2>1, <2>5, <3>2, <3>3, TurnedMarked DEF Brought
    <3> QED
      BY <1>2, <3>4
  <2>6. MarkedInTwo'
    BY <2>5, LabelsKept DEF MarkedInTwo
  <2> QED
    BY <2>4, <2>6
<1> QED
  BY <1>1, <1>2

LEMMA SyncInit == Init => SyncInv
<1> SUFFICES ASSUME Init PROVE SyncInv
  OBVIOUS
<1>1. ViewInv
  BY ViewInit
<1>2. phase = "loadPAN" /\ full = 0 /\ wklds = InitPCE
  BY DEF Init
<1> QED
  BY <1>1, <1>2, InputAssumption DEF SyncInv, Comparing, Synced, MarkedInTwo

LEMMA SyncRead ==
  ASSUME SyncInv, ViewInv', LoadRegisteredIPs \/ workloadIPMap
  PROVE  SyncInv'
<1>1. UNCHANGED <<reg, wklds, flags, full, clean>>
  BY DEF LoadRegisteredIPs, workloadIPMap
<1>2. Synced' /\ MarkedInTwo'
  BY <1>1, ReachedKept DEF SyncInv
<1>3. CASE LoadRegisteredIPs
  <2>1. ~flags.flush => phase' = "loadPCE"
    BY <1>3 DEF LoadRegisteredIPs
  <2> QED
    BY <1>1, <1>2, <2>1 DEF SyncInv, Comparing
<1>4. CASE workloadIPMap
  <2>1. /\ phase = "loadPCE" /\ phase' = "decide" /\ regView' = regView
        /\ DOMAIN pceView' = {i \in IPs : Owner(i) # {}}
    BY <1>4 DEF workloadIPMap
  <2>2. ASSUME NEW ip \in IPs, Owner(ip) # {}
        PROVE  Viewed(ip)'
    <3>1. PICK w \in Owner(ip) : w = CHOOSE v \in Owner(ip) : TRUE
      BY <2>2
    <3>2. pceView'[ip] = Seen(w)
      BY <1>4, <2>2, <3>1 DEF workloadIPMap, Seen
    <3> QED
      BY <1>1, <3>2, LabelsKept DEF Viewed
  <2>3. ASSUME clean, ~flags.flush PROVE Halfway'
    <3>1. regView = reg
      BY <2>1, <2>3 DEF SyncInv, ViewInv
    <3>2. \A ip \in IPs : Entry(ip)' = reg[ip]
      BY <2>1, <3>1 DEF Entry
    <3>3. ASSUME NEW ip \in IPs, ip \in DOMAIN pceView', full >= 1
          PROVE  regView[ip] \ Hrefs = pceView'[ip].labels
      <4>1. Viewed(ip)' /\ Owner(ip) # {}
        BY <2>1, <2>2, <3>3
      <4>2. PICK w \in Owner(ip) : pceView'[ip] = Seen(w)
        BY <1>1, <4>1, LabelsKept DEF Viewed
      <4>3. pceView'[ip].labels = OwnedLabels(ip)
        BY <4>2, LabelsAre DEF Seen
      <4>4. reg[ip] \ Hrefs = OwnedLabels(ip)
        BY <2>3, <3>3, <4>1 DEF SyncInv, Synced
      <4> QED
        BY <1>1, <3>1, <4>3, <4>4, LabelsKept
    <3> QED
      BY <1>1, <2>1, <2>2, <3>2, <3>3, LabelsKept DEF Halfway
  <2> QED
    BY <1>1, <1>2, <2>3 DEF SyncInv
<1> QED
  BY <1>3, <1>4

LEMMA SyncDecide ==
  ASSUME SyncInv, ViewInv', NoChangeNeeded \/ LogOnly \/ PromptDenied \/ Proceed
  PROVE  SyncInv'
<1>1. /\ phase = "decide" /\ UNCHANGED <<reg, wklds, flags, regView, pceView, clean>>
  BY DEF NoChangeNeeded, LogOnly, PromptDenied, Proceed, Decision
<1>2. CASE LogOnly \/ PromptDenied
  <2>1. phase' = "ended" /\ full' = full
    BY <1>2 DEF LogOnly, PromptDenied, Decision
  <2>2. Synced' /\ MarkedInTwo'
    BY <1>1, <2>1, ReachedKept DEF SyncInv
  <2> QED
    BY <1>1, <2>1, <2>2 DEF SyncInv, Comparing
<1>3. CASE Proceed
  <2>1. phase' = "register" /\ full' = full
    BY <1>3 DEF Proceed, Decision
  <2>2. Synced' /\ MarkedInTwo'
    BY <1>1, <2>1, ReachedKept DEF SyncInv
  <2>3. \A ip : Viewed(ip)' = Viewed(ip) /\ Entry(ip)' = Entry(ip)
    BY <1>1, <2>1, ViewKept DEF Entry
  <2>4. clean /\ ~flags.flush => Halfway
    BY <1>1 DEF SyncInv, Comparing
  <2>5. clean /\ ~flags.flush => Halfway'
    BY <1>1, <2>1, <2>3, <2>4, LabelsKept DEF Halfway
  <2> QED
    BY <1>1, <2>1, <2>2, <2>5 DEF SyncInv
<1>4. CASE NoChangeNeeded
  <2>1. phase' = "ended" /\ NoChange /\ full' = IF clean THEN full + 1 ELSE 0
    BY <1>4 DEF NoChangeNeeded, Decision
  <2>2. full' \in Nat /\ (full' >= 1 => clean)
    BY <2>1 DEF SyncInv
  <2>3. ASSUME ~clean PROVE Synced' /\ MarkedInTwo'
    BY <2>1, <2>3, NothingReached
  <2>4. ASSUME clean PROVE Synced' /\ MarkedInTwo'
    <3>1. ASSUME ~flags.flush, NEW ip \in IPs PROVE reg'[ip] = Brought(ip)
      <4>1. Halfway
        BY <1>1, <2>4, <3>1 DEF SyncInv, Comparing
      <4>2. CASE ip \in DOMAIN pceView
        <5>1. reg[ip] = regView[ip]
          BY <1>1, <4>1, <4>2 DEF Halfway, Entry
        <5>2. ToRegister(ip) = {} /\ ToUnregister(ip) = {}
          BY <2>1, <4>2, <3>1 DEF NoChange
        <5> QED
          BY <1>1, <4>2, <5>1, <5>2 DEF Brought
      <4>3. CASE ip \notin DOMAIN pceView
        <5>1. reg[ip] = regView[ip]
          BY <1>1, <2>4, <3>1, <4>3 DEF SyncInv, ViewInv, Comparing
        <5>2. ToUnregister(ip) = {}
          BY <2>1, <3>1 DEF NoChange
        <5>3. ~Stale(ip)
          BY <3>1, <4>3, <5>2 DEF ToUnregister, Stale
        <5> QED
          BY <1>1, <4>3, <5>1, <5>3 DEF Brought
      <4> QED
        BY <4>2, <4>3
    <3>2. phase \in Comparing /\ full' = full + 1
      BY <1>1, <2>1, <2>4 DEF Comparing
    <3> QED
      BY <1>1, <2>4, <3>1, <3>2, Landing
  <2>5. Synced' /\ MarkedInTwo'
    BY <2>3, <2>4
  <2> QED
    BY <1>1, <2>1, <2>2, <2>5 DEF SyncInv, Comparing
<1> QED
  BY <1>2, <1>3, <1>4

LEMMA SyncRegister ==
  ASSUME SyncInv, ViewInv', Register
  PROVE  SyncInv'
<1>1. /\ phase = "register" /\ phase' = "unregister"
      /\ UNCHANGED <<wklds, flags, regView, pceView, clean, full>>
  BY DEF Register
<1>2. DOMAIN reg = IPs
  BY DEF SyncInv, ViewInv
<1>3. \A ip \in IPs : reg'[ip] = IF ip \in DOMAIN pceView
                                THEN reg[ip] \cup ToRegister(ip) ELSE reg[ip]
  <2>1. CASE \E ip \in DOMAIN pceView : ToRegister(ip) # {}
    BY <2>1 DEF Register
  <2>2. CASE \A ip \in DOMAIN pceView : ToRegister(ip) = {}
    BY <2>2 DEF Register
  <2> QED
    BY <2>1, <2>2
<1>4. clean /\ ~flags.flush => Halfway
  BY <1>1 DEF SyncInv, Comparing
<1>5. \A ip : /\ Viewed(ip)' = Viewed(ip)
              /\ Entry(ip)' = regView[ip] \cup ToRegister(ip)
  <2>1. \A ip : ToRegister(ip)' = ToRegister(ip)
    BY <1>1 DEF ToRegister, isEqual, Stray, Missing, Mark, Found, PanLabels
  <2> QED
    BY <1>1, <2>1, ViewKept DEF Entry
<1>6. ASSUME clean, ~flags.flush PROVE Halfway'
  <2>1. Halfway
    BY <1>4, <1>6
  <2>2. \A ip \in DOMAIN pceView : ip \in IPs => reg[ip] = regView[ip]
    BY <1>1, <2>1 DEF Halfway, Entry
  <2> QED
    BY <1>1, <1>3, <1>5, <2>1, <2>2, LabelsKept DEF Halfway
<1>7. Synced'
  <2>1. ASSUME full >= 1, ~flags.flush, NEW ip \in IPs, Owner(ip) # {}
        PROVE  reg'[ip] \ Hrefs = reg[ip] \ Hrefs
    <3>1. Halfway
      BY <1>4, <2>1 DEF SyncInv
    <3>2. /\ ip \in DOMAIN pceView /\ Viewed(ip)
          /\ regView[ip] \ Hrefs = pceView[ip].labels
      BY <2>1, <3>1 DEF Halfway
    <3>3. ToRegister(ip) \subseteq Hrefs
      BY <3>2, OnlyMarks DEF SyncInv
    <3> QED
      BY <1>3, <3>2, <3>3
  <2>2. ASSUME full >= 1, ~flags.flush, NEW ip \in IPs, Owner(ip) = {}
        PROVE  reg'[ip] = reg[ip]
    <3>1. Halfway
      BY <1>4, <2>2 DEF SyncInv
    <3>2. ip \notin DOMAIN pceView
      BY <2>2, <3>1 DEF Halfway
    <3> QED
      BY <1>3, <3>2
  <2> QED
    BY <1>1, <2>1, <2>2, LabelsKept DEF SyncInv, Synced
<1>8. MarkedInTwo'
  <2>1. \A ip \in IPs : reg[ip] \subseteq reg'[ip]
    BY <1>3
  <2> QED
    BY <1>1, <2>1, LabelsKept DEF SyncInv, MarkedInTwo
<1> QED
  BY <1>1, <1>6, <1>7, <1>8 DEF SyncInv

\* The unregister call of an undisturbed run leaves what the run was for.
LEMMA Lands ==
  ASSUME SyncInv, UnRegister, clean, ~flags.flush, NEW ip \in IPs
  PROVE  reg'[ip] = Brought(ip)
<1>1. phase = "unregister"
  BY DEF UnRegister
<1>2. reg'[ip] = Unregistered(ip)
  <2>1. CASE \E i \in IPs : ToUnregister(i) # {}
    BY <2>1 DEF UnRegister
  <2>2. CASE \A i \in IPs : ToUnregister(i) = {}
    BY <2>2 DEF UnRegister, Unregistered
  <2> QED
    BY <2>1, <2>2
<1>3. Halfway
  BY <1>1 DEF SyncInv, Comparing
<1>4. CASE ip \in DOMAIN pceView
  <2>1. reg[ip] = regView[ip] \cup ToRegister(ip)
    BY <1>1, <1>3, <1>4 DEF Halfway, Entry
  <2> QED
    BY <1>2, <1>4, <2>1 DEF Brought, Unregistered
<1>5. CASE ip \notin DOMAIN pceView
  <2>1. reg[ip] = regView[ip]
    BY <1>1, <1>5 DEF SyncInv, ViewInv, Comparing
  <2>2. ToUnregister(ip) = IF Stale(ip) THEN regView[ip] ELSE {}
    BY <1>5 DEF ToUnregister
  <2>3. CASE Stale(ip)
    BY <1>2, <1>5, <2>2, <2>3 DEF Brought, Unregistered, Stale
  <2>4. CASE ~Stale(ip)
    BY <1>2, <1>5, <2>1, <2>2, <2>4 DEF Brought, Unregistered
  <2> QED
    BY <2>3, <2>4
<1> QED
  BY <1>4, <1>5

LEMMA SyncUnRegister ==
  ASSUME SyncInv, ViewInv', UnRegister
  PROVE  SyncInv'
<1>1. /\ phase = "unregister" /\ phase' = "ended"
      /\ UNCHANGED <<wklds, flags, regView, pceView, clean>>
      /\ full' = IF clean THEN full + 1 ELSE 0
  BY DEF UnRegister
<1>2. full' \in Nat /\ (full' >= 1 => clean)
  BY <1>1 DEF SyncInv
<1>3. ASSUME ~clean PROVE Synced' /\ MarkedInTwo'
  BY <1>1, <1>3, NothingReached
<1>4. ASSUME clean PROVE Synced' /\ MarkedInTwo'
  <2>1. ~flags.flush => \A ip \in IPs : reg'[ip] = Brought(ip)
    BY <1>4, Lands
  <2>2. phase \in Comparing /\ full' = full + 1
    BY <1>1, <1>4 DEF Comparing
  <2> QED
    BY <1>1, <1>4, <2>1, <2>2, Landing
<1>5. Synced' /\ MarkedInTwo'
  BY <1>3, <1>4
<1> QED
  BY <1>1, <1>2, <1>5 DEF SyncInv, Comparing

LEMMA SyncRest ==
  ASSUME SyncInv, ViewInv',
         \/ Crash \/ Rerun
         \/ \E w \in Hrefs, new \in Workload : WorkloadChanges(w, new)
         \/ \E ip \in IPs, tags \in SUBSET Values : ForeignEntry(ip, tags)
         \/ UNCHANGED vars
  PROVE  SyncInv'
<1>1. CASE Crash \/ Rerun
  <2>1. /\ UNCHANGED <<reg, wklds, flags, full>>
        /\ phase' \notin Comparing /\ (clean => clean')
    BY <1>1 DEF Crash, Rerun, Comparing
  <2>2. Synced' /\ MarkedInTwo'
    BY <2>1, ReachedKept DEF SyncInv
  <2> QED
    BY <2>1, <2>2 DEF SyncInv
<1>2. CASE \/ \E w \in Hrefs, new \in Workload : WorkloadChanges(w, new)
           \/ \E ip \in IPs, tags \in SUBSET Values : ForeignEntry(ip, tags)
  <2>1. ~clean' /\ full' = 0
    BY <1>2 DEF WorkloadChanges, ForeignEntry, Others
  <2>2. wklds' \in [Hrefs -> Workload]
    BY <1>2 DEF SyncInv, WorkloadChanges, ForeignEntry
  <2> QED
    BY <2>1, <2>2, NothingReached DEF SyncInv
<1>3. CASE UNCHANGED vars
  <2>1. UNCHANGED <<reg, wklds, flags, full, phase, regView, pceView, clean>>
    BY <1>3 DEF vars
  <2>2. Synced' /\ MarkedInTwo'
    BY <2>1, ReachedKept DEF SyncInv
  <2>3. \A ip : ToRegister(ip)' = ToRegister(ip)
    BY <2>1 DEF ToRegister, isEqual, Stray, Missing, Mark, Found, PanLabels
  <2>4. \A ip : Viewed(ip)' = Viewed(ip) /\ Entry(ip)' = Entry(ip)
    BY <2>1, <2>3, ViewKept DEF Entry
  <2>5. Halfway' <=> Halfway
    BY <2>1, <2>4, LabelsKept DEF Halfway
  <2> QED
    BY <2>1, <2>2, <2>5 DEF SyncInv
<1> QED
  BY <1>1, <1>2, <1>3

LEMMA SyncStep == SyncInv /\ [Next]_vars => SyncInv'
<1> SUFFICES ASSUME SyncInv, [Next]_vars PROVE SyncInv'
  OBVIOUS
<1>1. ViewInv'
  BY ViewStep DEF SyncInv
<1> QED
  BY <1>1, SyncRead, SyncDecide, SyncRegister, SyncUnRegister, SyncRest
     DEF Next, RunStep

\* What the property says of one step, for IPs of a labelled workload.
OwnedKept ==
  \A ip \in IPs :
    clean /\ clean' /\ ~flags.flush /\ reg[ip] # {} /\ Owner(ip) # {}
      => reg'[ip] # {} /\ reg[ip] \cap OwnedLabels(ip) \subseteq reg'[ip]

\* The register call only adds, and when the unregister call is made the labels
\* are all there and none of them is unregistered.
LEMMA OwnedStep == SyncInv /\ [Next]_vars => OwnedKept
<1> SUFFICES ASSUME SyncInv, [Next]_vars, NEW ip \in IPs, clean, clean', ~flags.flush,
                    reg[ip] # {}, Owner(ip) # {}
             PROVE  reg'[ip] # {} /\ reg[ip] \cap OwnedLabels(ip) \subseteq reg'[ip]
  BY DEF OwnedKept
<1>1. CASE Register
  <2>1. reg[ip] \subseteq reg'[ip]
    BY <1>1 DEF Register, SyncInv, ViewInv
  <2> QED
    BY <2>1
<1>2. CASE UnRegister
  <2>1. Halfway
    BY <1>2 DEF UnRegister, SyncInv, Comparing
  <2>2. ip \in DOMAIN pceView /\ Viewed(ip)
    BY <2>1 DEF Halfway
  <2>3. reg'[ip] = (regView[ip] \cup ToRegister(ip)) \ ToUnregister(ip)
    BY <1>2, <2>2, Lands DEF Brought
  <2>4. reg'[ip] \ Hrefs = pceView[ip].labels
    BY <2>2, <2>3, Turned DEF SyncInv
  <2>5. pceView[ip].labels = OwnedLabels(ip) /\ pceView[ip].labels # {}
    BY <2>2, ViewedIs DEF SyncInv
  <2> QED
    BY <2>4, <2>5
<1>3. CASE \/ \E w \in Hrefs, new \in Workload : WorkloadChanges(w, new)
           \/ \E i \in IPs, tags \in SUBSET Values : ForeignEntry(i, tags)
  BY <1>3 DEF WorkloadChanges, ForeignEntry, Others
<1>4. CASE \/ LoadRegisteredIPs \/ workloadIPMap \/ NoChangeNeeded \/ LogOnly \/ PromptDenied
           \/ Proceed \/ Crash \/ Rerun \/ UNCHANGED vars
  <2>1. reg' = reg
    BY <1>4 DEF LoadRegisteredIPs, workloadIPMap, NoChangeNeeded, LogOnly, PromptDenied,
                Proceed, Decision, Crash, Rerun, vars
  <2> QED
    BY <2>1
<1> QED
  BY <1>1, <1>2, <1>3, <1>4 DEF Next, RunStep

LEMMA SyncHolds == Spec => []SyncInv
  BY SyncInit, SyncStep, PTL DEF Spec

\* One undisturbed full run is enough for the labels, whatever the device and
\* the PCE hold and whatever others changed or crashes cut short before it.
THEOREM OneRunSyncs == Spec => []Synced
<1>1. SyncInv => Synced
  BY DEF SyncInv
<1> QED
  BY <1>1, SyncHolds, PTL

\* Two are enough for the mark of every entry whose workload has no label value
\* twice: the first may have spent its comparison on the labels.
THEOREM TwoRunsMark == Spec => []MarkedInTwo
<1>1. SyncInv => MarkedInTwo
  BY DEF SyncInv
<1> QED
  BY <1>1, SyncHolds, PTL

\* No step of an undisturbed run takes from the device what it must have: the
\* entry of a workload's IP never vanishes and never loses a label it should
\* have, and entries of no workload stay unless the flags ask for removal.
THEOREM EntriesStay == Spec => EntriesKept
<1> DEFINE Step == Kept /\ OwnedKept
<1>1. SyncInv /\ [Next]_vars => SyncInv' /\ [Step]_vars
  <2> SUFFICES ASSUME SyncInv, [Next]_vars PROVE SyncInv' /\ Step
    OBVIOUS
  <2>1. Kept
    BY ViewStep DEF SyncInv
  <2> QED
    BY <2>1, SyncStep, OwnedStep
<1>2. Spec => [][Step]_vars
  BY <1>1, SyncInit, PTL DEF Spec
<1>3. Step => \A ip \in IPs :
        clean /\ clean' /\ ~flags.flush /\ reg[ip] # {} =>
          IF Owner(ip) # {}
          THEN reg'[ip] # {} /\ reg[ip] \cap OwnedLabels(ip) \subseteq reg'[ip]
          ELSE flags.removeOld \/ reg'[ip] = reg[ip]
  BY DEF Kept, OwnedKept
<1> HIDE DEF Step
<1> QED
  BY <1>2, <1>3, PTL DEF EntriesKept

-----------------------------------------------------------------------------
(* The consent gate of dag-sync *)

\* Not run plainly: given neither, dag-sync goes ahead all the same.
UpdatesOrFlushes == \A f \in FlagSets : f.update \/ f.flush

\* What makes the gate inductive: a run that flushes does not read the PCE.
SyncGateInv ==
  /\ flags \in FlagSets
  /\ phase \in {"loadPAN", "loadPCE", "decide"} => answer = "unasked" /\ wrote = FALSE
  /\ phase \in {"loadPAN", "loadPCE"} \/ (phase = "decide" /\ flags.flush) =>
       DOMAIN pceView = {}
  /\ phase = "loadPCE" => ~flags.flush
  /\ phase \in {"register", "unregister"} => Gate!Consent

LEMMA FlushNeedsUpdate ==
  ASSUME UpdatesOrFlushes, SyncGateInv, Proceed
  PROVE  flags.update
<1> SUFFICES ASSUME ~flags.update PROVE FALSE
  OBVIOUS
<1>1. flags.flush /\ phase = "decide" /\ DOMAIN pceView = {}
  BY DEF UpdatesOrFlushes, SyncGateInv, Proceed, Decision
<1>2. ~Shortcut /\ ~NoChange
  BY DEF Proceed
<1>3. \A ip \in IPs : regView[ip] = {}
  BY <1>1, <1>2 DEF Shortcut, NothingRegistered
<1>4. \A ip \in IPs : ToUnregister(ip) = {}
  BY <1>1, <1>3 DEF ToUnregister
<1> QED
  BY <1>1, <1>2, <1>4 DEF NoChange

LEMMA SyncGateStep ==
  ASSUME UpdatesOrFlushes, SyncGateInv, [Next]_vars
  PROVE  SyncGateInv' /\ [Gate!Next]_Gate!vars
<1>0. flags.update \in BOOLEAN /\ flags.noPrompt \in BOOLEAN /\ flags.flush \in BOOLEAN
  BY InputAssumption DEF SyncGateInv, Flags
<1>1. CASE LoadRegisteredIPs \/ workloadIPMap
  <2>1. CASE LoadRegisteredIPs
    BY <1>0, <2>1 DEF LoadRegisteredIPs, SyncGateInv, Gate!vars, Gate!Consent
  <2>2. CASE workloadIPMap
    <3>1. /\ phase = "loadPCE" /\ phase' = "decide"
          /\ UNCHANGED <<flags, answer, wrote>>
      BY <2>2 DEF workloadIPMap
    <3> QED
      BY <3>1 DEF SyncGateInv, Gate!vars, Gate!Consent
  <2> QED
    BY <1>1, <2>1, <2>2
<1>2. CASE NoChangeNeeded \/ LogOnly \/ PromptDenied
  <2>1. /\ phase = "decide" /\ phase' = "ended" /\ UNCHANGED <<flags, wrote>>
        /\ UNCHANGED answer \/ (flags.update /\ ~flags.noPrompt /\ answer' = "no")
    BY <1>2 DEF NoChangeNeeded, LogOnly, PromptDenied, Decision, Prompted
  <2> QED
    BY <2>1 DEF SyncGateInv, Gate!vars, Gate!Consent, Gate!Next, Gate!Ask
<1>3. CASE Proceed
  <2>1. flags.update
    BY <1>3, FlushNeedsUpdate
  <2>2. /\ phase = "decide" /\ phase' = "register" /\ UNCHANGED <<flags, wrote>>
        /\ answer' = IF flags.noPrompt THEN answer ELSE "yes"
    BY <1>0, <1>3, <2>1 DEF Proceed, Decision, Prompted
  <2> QED
    BY <1>0, <2>1, <2>2 DEF SyncGateInv, Gate!vars, Gate!Consent, Gate!Next, Gate!Ask
<1>4. CASE Register \/ UnRegister
  <2>1. /\ phase \in {"register", "unregister"} /\ phase' \in {"unregister", "ended"}
        /\ wrote' = TRUE \/ wrote' = wrote
        /\ UNCHANGED <<flags, answer>>
    BY <1>4 DEF Register, UnRegister
  <2> QED
    BY <2>1 DEF SyncGateInv, Gate!vars, Gate!Consent, Gate!Next, Gate!Write
<1>5. CASE Crash
  BY <1>5 DEF Crash, SyncGateInv, Gate!vars, Gate!Consent
<1>6. CASE Rerun
  BY <1>6 DEF Rerun, NoEntry, SyncGateInv, Gate!vars, Gate!Consent, Gate!Next, Gate!Rerun
<1>7. CASE \/ \E w \in Hrefs, new \in Workload : WorkloadChanges(w, new)
           \/ \E ip \in IPs, tags \in SUBSET Values : ForeignEntry(ip, tags)
  BY <1>7 DEF WorkloadChanges, ForeignEntry, Others, SyncGateInv, Gate!vars, Gate!Consent
<1>8. CASE UNCHANGED vars
  BY <1>8 DEF vars, SyncGateInv, Gate!vars, Gate!Consent
<1> QED
  BY <1>1, <1>2, <1>3, <1>4, <1>5, <1>6, <1>7, <1>8 DEF Next, RunStep

\* With --update-panos, or with --clean, the device is changed only with
\* --update-panos and, without --no-prompt, the operator's yes.  A run with
\* neither is left out: it changes the device unasked (dagsync, dagSync).
THEOREM SyncGated == UpdatesOrFlushes => (Spec => GateSpec)
<1> SUFFICES ASSUME UpdatesOrFlushes PROVE Spec => GateSpec
  OBVIOUS
<1>1. Init => SyncGateInv /\ Gate!Init
  BY InputAssumption DEF Init, NoEntry, Flags, SyncGateInv, Gate!Init, Gate!Consent
<1>2. SyncGateInv /\ [Next]_vars => SyncGateInv' /\ [Gate!Next]_Gate!vars
  BY SyncGateStep
<1> QED
  BY <1>1, <1>2, PTL DEF Spec, GateSpec, Gate!Spec

-----------------------------------------------------------------------------
(* wkld-cleanup, unpair and increase-ven-rate *)

\* VENs that unpair has removed, or may remove now or by the file.
Doomed == removed \cup list \cup (IF cmd = "unpair" THEN F!ToSet(targets) ELSE {})

\* Each hostname in use has a VEN in use that nothing is about to remove.
Spared ==
  \A v \in Vens \ Mute : \E u \in Vens \ (Mute \cup Doomed) : HostOf[u] = HostOf[v]

\* The inductive invariant.
HostInv ==
  /\ now \in Nat \ {0} /\ beat \in [Vens -> 0..now]
  /\ \A v \in Vens : beat[v] = 0 <=> v \in Mute
  /\ paired \subseteq Vens /\ online \subseteq Vens \ Mute
  /\ list \subseteq Vens /\ removed \cap paired = {}
  /\ targets \in Seq(Vens) /\ calls \in Nat
  /\ pc = "load" => targets = <<>>
  /\ cmd \in F!Commands /\ (cmd = "wkld-cleanup" => pc \in {"load", "ended", "dead"})
  /\ flags.source = "file" => Spared

-----------------------------------------------------------------------------
(* Sets and sequences. *)

\* A finite set has an element of the largest rank.
LEMMA Latest ==
  ASSUME NEW T, T # {}, IsFiniteSet(T), NEW b, \A u \in T : b[u] \in Nat
  PROVE  \E u \in T : \A v \in T : b[u] >= b[v]
<1> DEFINE After(u) == {w \in T : b[w] > b[u]}
           W == {After(u) : u \in T}
<1>1. IsWellFoundedOn(StrictSubsetOrdering(T), FiniteSubsetsOf(T))
  BY FS_StrictSubsetOrderingWellFounded
<1>2. W \subseteq FiniteSubsetsOf(T)
  BY FS_Subset DEF FiniteSubsetsOf
<1>3. W # {}
  OBVIOUS
<1>4. PICK S \in W : \A R \in W : ~ (<<R, S>> \in StrictSubsetOrdering(T))
  <2> HIDE DEF W
  <2> QED
    BY <1>1, <1>2, <1>3, WFMin
<1>5. PICK u \in T : S = After(u)
  BY <1>4
<1>6. ASSUME NEW v \in T, b[v] > b[u] PROVE FALSE
  <2>1. After(v) \subseteq After(u) /\ v \in After(u) /\ v \notin After(v)
    BY <1>6
  <2>2. After(v) \in W /\ After(v) \subseteq T /\ After(u) \subseteq T
    OBVIOUS
  <2>3. <<After(v), After(u)>> \in StrictSubsetOrdering(T)
    <3> HIDE DEF After, W
    <3> QED
      BY <2>1, <2>2 DEF StrictSubsetOrdering
  <2> QED
    BY <1>4, <1>5, <2>2, <2>3
<1> QED
  BY <1>6

\* The operators on sets that Fleet has from the libraries are those of this
\* module.
LEMMA SameOperators ==
  /\ \A S : F!IsFiniteSet(S) <=> IsFiniteSet(S)
  /\ \A S : F!Cardinality(S) = Cardinality(S)
  /\ \A f : F!IsInjective(f) <=> IsInjective(f)
<1>1. \A S : F!IsFiniteSet(S) <=> IsFiniteSet(S)
  BY Zenon DEF F!IsFiniteSet, IsFiniteSet
<1>2. \A S : F!Cardinality(S) = Cardinality(S)
  BY Zenon DEF F!Cardinality, Cardinality
<1>3. \A f : F!IsInjective(f) <=> IsInjective(f)
  BY Zenon DEF F!IsInjective, IsInjective
<1> QED
  BY <1>1, <1>2, <1>3

LEMMA SequenceOfSet ==
  ASSUME NEW T, IsFiniteSet(T)
  PROVE  F!SetToSeq(T) \in [1..Cardinality(T) -> T] /\ Cardinality(T) \in Nat
<1>1. Cardinality(T) \in Nat /\ \E g \in [1..Cardinality(T) -> T] : IsInjective(g)
  BY FS_CardinalityType DEF ExistsBijection, Bijection, Injection
<1>2. F!SetToSeq(T) = CHOOSE f \in [1..Cardinality(T) -> T] : IsInjective(f)
  BY SameOperators, Zenon DEF F!SetToSeq
<1>3. F!SetToSeq(T) \in [1..Cardinality(T) -> T]
  BY <1>1, <1>2, Zenon
<1> QED
  BY <1>1, <1>3

LEMMA PlanInRange ==
  ASSUME F!FleetAssumption, NEW T \in SUBSET Vens
  PROVE  F!SetToSeq(T) \in Seq(Vens) /\ F!ToSet(F!SetToSeq(T)) \subseteq T
<1>1. IsFiniteSet(T)
  BY FS_Subset, SameOperators, F!FleetAssumption
<1>2. F!SetToSeq(T) \in [1..Cardinality(T) -> T] /\ Cardinality(T) \in Nat
  BY <1>1, SequenceOfSet
<1>3. F!SetToSeq(T) \in Seq(Vens)
  <2>1. F!SetToSeq(T) \in [1..Cardinality(T) -> Vens]
    BY <1>2
  <2> QED
    BY <1>2, <2>1
<1> QED
  BY <1>2, <1>3 DEF F!ToSet

\* The pieces lie within the targets, the last one included.
LEMMA PieceInTargets ==
  ASSUME F!FleetAssumption, HostInv, cmd = "unpair", calls < F!NumCalls
  PROVE  F!ToSet(F!Piece(calls + 1)) \subseteq F!ToSet(targets)
<1> DEFINE C == F!Chunk
           k == calls + 1
           n == IF k = F!NumCalls THEN Len(targets) ELSE k * F!Chunk
<1>1. C \in Nat \ {0}
  BY F!FleetAssumption DEF F!Chunk
<1>2. Len(targets) \in Nat /\ targets \in Seq(Vens) /\ calls \in Nat
  BY DEF HostInv
<1>3. F!NumCalls \in Int
  BY <1>1, <1>2 DEF F!NumCalls
<1>4. n \in Int /\ n <= Len(targets)
  <2>1. CASE k = F!NumCalls
    BY <1>2, <2>1
  <2>2. CASE k # F!NumCalls
    <3>1. k < F!NumCalls /\ k \in Nat
      BY <1>2, <1>3, <2>2
    <3>2. \A L \in Nat, c \in Nat \ {0}, i \in Nat :
            i < (L + c - 1) \div c => i * c <= L /\ i * c \in Int
      OBVIOUS
    <3>3. k * C <= Len(targets) /\ k * C \in Int
      BY <1>1, <1>2, <3>1, <3>2 DEF F!NumCalls
    <3> QED
      BY <2>2, <3>3
  <2> QED
    BY <2>1, <2>2
<1>5. (k - 1) * C + 1 \in Nat \ {0}
  BY <1>1, <1>2
<1>6. \A i \in ((k - 1) * C + 1)..n : i \in 1..Len(targets)
  <2> HIDE DEF n, C, k
  <2> QED
    BY <1>2, <1>4, <1>5
<1>7. \A i \in ((k - 1) * C + 1)..n : targets[i] \in F!ToSet(targets)
  BY <1>2, <1>6 DEF F!ToSet
<1>8. SubSeq(targets, (k - 1) * C + 1, n) \in Seq(F!ToSet(targets))
  <2> HIDE DEF n, C, k
  <2> QED
    BY <1>4, <1>5, <1>7, SubSeqProperties
<1>9. F!Piece(k) = SubSeq(targets, (k - 1) * C + 1, n)
  BY DEF F!Piece
<1>10. ASSUME NEW s \in Seq(F!ToSet(targets)) PROVE F!ToSet(s) \subseteq F!ToSet(targets)
  BY ElementOfSeq, LenProperties DEF F!ToSet
<1> QED
  BY <1>8, <1>9, <1>10

-----------------------------------------------------------------------------
(* Steps. *)

LEMMA HostInit ==
  ASSUME F!FleetAssumption
  PROVE  F!Init => HostInv
<1> SUFFICES ASSUME F!Init PROVE HostInv
  OBVIOUS
<1>1. Doomed = {}
  BY DEF F!Init, Doomed, F!ToSet
<1>2. Spared
  BY <1>1 DEF Spared
<1> QED
  BY <1>2, F!FleetAssumption DEF F!Init, HostInv, F!Commands

LEMMA DoomedShrinks ==
  ASSUME Spared, Doomed' \subseteq Doomed
  PROVE  Spared'
  BY DEF Spared

\* Every hostname with a VEN in use that is paired keeps one: a newest VEN has
\* a heartbeat, so it is in use, and one of the newest ones stays.
LEMMA CleanupSpares ==
  ASSUME F!FleetAssumption, HostInv, flags.source = "file", NEW keep \in SUBSET paired,
         F!Stay(keep), NEW v \in Vens \ Mute
  PROVE  \E u \in Vens \ (Mute \cup removed \cup F!Superseded(keep)) : HostOf[u] = HostOf[v]
<1>1. CASE \A w \in paired \ Mute : HostOf[w] # HostOf[v]
  <2>1. PICK u \in Vens \ (Mute \cup Doomed) : HostOf[u] = HostOf[v]
    BY DEF HostInv, Spared
  <2>2. u \notin paired /\ u \notin removed
    BY <1>1, <2>1 DEF Doomed
  <2> QED
    BY <2>1, <2>2 DEF F!Superseded
<1>2. CASE \E w \in paired \ Mute : HostOf[w] = HostOf[v]
  <2>1. PICK w \in paired \ Mute : HostOf[w] = HostOf[v]
    BY <1>2
  <2>2. w \in F!Twins(w) /\ F!Twins(w) \subseteq Vens /\ IsFiniteSet(F!Twins(w))
    <3>1. F!Twins(w) \in SUBSET Vens
      BY DEF F!Twins, HostInv
    <3> QED
      BY <2>1, <3>1, FS_Subset, SameOperators, F!FleetAssumption DEF F!Twins
  <2>3. \A u \in F!Twins(w) : beat[u] \in Nat
    BY <2>2 DEF HostInv
  <2>4. PICK m \in F!Twins(w) : \A u \in F!Twins(w) : beat[m] >= beat[u]
    BY <2>2, <2>3, Latest
  <2>5. F!Twins(m) = F!Twins(w)
    BY <2>4 DEF F!Twins
  <2>6. beat[m] > 0
    <3>1. beat[w] # 0 /\ beat[w] \in Nat /\ beat[m] \in Nat
      BY <2>1, <2>2, <2>3, <2>4 DEF HostInv
    <3> QED
      BY <2>2, <2>4, <3>1
  <2>7. F!Newest(m) /\ m \in paired
    BY <2>4, <2>5, <2>6 DEF F!Newest, F!Twins
  <2>8. Cardinality(F!Twins(m) \cap keep) = 1
    BY <2>7, SameOperators DEF F!Stay
  <2>9. F!Twins(m) \cap keep # {}
    BY <2>8, FS_EmptySet
  <2>10. PICK u \in F!Twins(m) \cap keep : TRUE
    BY <2>9
  <2>11. F!Newest(u) /\ u \in paired
    BY <2>10 DEF F!Stay
  <2>12. u \in Vens /\ u \notin Mute
    BY <2>11 DEF F!Newest, HostInv
  <2>13. u \notin removed /\ u \notin F!Superseded(keep)
    BY <2>10, <2>11 DEF HostInv, F!Superseded
  <2>14. HostOf[u] = HostOf[v]
    BY <2>1, <2>5, <2>10 DEF F!Twins
  <2> QED
    BY <2>12, <2>13, <2>14
<1> QED
  BY <1>1, <1>2

LEMMA ListKeeps ==
  ASSUME F!FleetAssumption, HostInv, F!List
  PROVE  HostInv'
<1>1. PICK keep \in SUBSET paired :
        /\ F!Stay(keep)
        /\ \/ UNCHANGED list
           \/ list' = F!Superseded(keep)
  BY DEF F!List, F!Written
<1>2. /\ UNCHANGED <<flags, cmd, now, beat, paired, online, removed, targets, calls>>
      /\ pc = "load" /\ pc' \in {"ended", "dead"} /\ cmd = "wkld-cleanup"
  BY DEF F!List, F!Stops, F!Silent, F!session, F!fleet
<1>3. CASE UNCHANGED list
  <2>1. Doomed' = Doomed
    BY <1>2, <1>3 DEF Doomed
  <2> QED
    BY <1>2, <1>3, <2>1 DEF HostInv, Spared
<1>4. CASE list' = F!Superseded(keep)
  <2>1. Doomed' = removed \cup F!Superseded(keep)
    BY <1>2, <1>4 DEF Doomed
  <2>2. flags.source = "file" => Spared'
    BY <1>1, <2>1, CleanupSpares DEF Spared
  <2>3. list' \subseteq Vens
    BY <1>4 DEF F!Superseded, HostInv
  <2> QED
    BY <1>2, <2>2, <2>3 DEF HostInv
<1> QED
  BY <1>1, <1>3, <1>4

\* Targets are read from the file, so nothing else is doomed.
LEMMA PlanKeeps ==
  ASSUME F!FleetAssumption, HostInv, pc = "load", cmd # "wkld-cleanup",
         NEW T \in SUBSET Vens, F!Planned(T),
         cmd = "unpair" /\ flags.source = "file" => T \subseteq list,
         UNCHANGED <<flags, F!fleet, F!history>>
  PROVE  HostInv'
<1>1. targets' \in Seq(Vens) /\ F!ToSet(targets') \subseteq T
  BY PlanInRange DEF F!Planned
<1>2. pc' # "load" /\ UNCHANGED <<cmd, calls>>
  BY DEF F!Planned
<1>3. flags.source = "file" => Doomed' \subseteq Doomed
  BY <1>1, <1>2 DEF Doomed, F!history
<1>4. flags.source = "file" => Spared'
  BY <1>3, DoomedShrinks DEF HostInv
<1> QED
  BY <1>1, <1>2, <1>4 DEF HostInv, F!fleet, F!history

LEMMA LoadKeeps ==
  ASSUME F!FleetAssumption, HostInv, F!Load \/ F!LoadFails
  PROVE  HostInv'
<1>1. F!ToUnpair \in SUBSET Vens /\ (flags.source = "file" => F!ToUnpair \subseteq list)
  BY DEF F!ToUnpair, F!Candidates, F!Named, HostInv
<1>2. CASE F!Load
  <2>1. F!Targets \in SUBSET Vens
    BY <1>1, <1>2 DEF F!Load, F!Targets, F!ToUpgrade, F!ToAsk, HostInv, F!Commands
  <2> QED
    BY <1>1, <1>2, <2>1, PlanKeeps DEF F!Load, F!Targets, F!Silent, F!session
<1>3. CASE F!LoadFails
  <2>1. UNCHANGED <<flags, F!fleet, F!history>> /\ pc = "load"
    BY <1>3 DEF F!LoadFails, F!Fault
  <2>2. CASE cmd = "unpair" /\ F!Planned(F!ToUnpair)
    BY <1>1, <2>1, <2>2, PlanKeeps
  <2>3. CASE F!Stops("ended") \/ F!Stops("dead")
    <3>1. pc' \in {"ended", "dead"} /\ UNCHANGED <<cmd, targets, calls>>
      BY <2>3 DEF F!Stops
    <3> QED
      BY <2>1, <3>1 DEF HostInv, Spared, Doomed, F!fleet, F!history
  <2> QED
    BY <1>3, <2>2, <2>3 DEF F!LoadFails
<1> QED
  BY <1>2, <1>3

\* Removing a piece of the targets removes what was doomed.
LEMMA EffectKeeps ==
  ASSUME F!FleetAssumption, HostInv, F!Pushing, F!Effect(F!ToSet(F!Piece(calls + 1))),
         UNCHANGED <<flags, cmd, targets>>, calls' \in Nat, pc' # "load"
  PROVE  HostInv'
<1> DEFINE P == F!ToSet(F!Piece(calls + 1))
<1>0. cmd \in {"unpair", "upgrade", "increase-ven-rate"} /\ cmd' = cmd
  BY DEF HostInv, F!Commands, F!Pushing
<1>1. CASE cmd = "unpair"
  <2>1. /\ paired' = paired \ P /\ online' = online \ P /\ removed' = removed \cup P
        /\ UNCHANGED <<now, beat, list>>
    BY <1>1 DEF F!Effect
  <2>2. P \subseteq F!ToSet(targets)
    BY <1>1, PieceInTargets DEF F!Pushing
  <2> HIDE DEF P
  <2>3. Doomed' \subseteq Doomed
    BY <1>1, <2>1, <2>2 DEF Doomed
  <2>4. flags.source = "file" => Spared'
    BY <2>3, DoomedShrinks DEF HostInv
  <2> QED
    BY <1>0, <2>1, <2>4 DEF HostInv
<1>2. CASE cmd \in {"upgrade", "increase-ven-rate"}
  <2>1. UNCHANGED <<now, beat, paired, online, list, removed>>
    BY <1>2 DEF F!Effect, F!history, F!fleet
  <2> QED
    BY <1>0, <2>1 DEF HostInv, Spared, Doomed
<1> QED
  BY <1>0, <1>1, <1>2

LEMMA PushKeeps ==
  ASSUME F!FleetAssumption, HostInv, F!Call \/ F!CallFails \/ F!CallsDone
  PROVE  HostInv'
<1>1. UNCHANGED <<flags, cmd, targets>> /\ pc = "push"
  BY DEF F!Call, F!CallFails, F!CallsDone, F!Pushing, F!Works, F!Fault, F!LostAnswer,
     F!Silent, F!session
<1>2. CASE F!Call
  <2>1. calls' \in Nat /\ pc' # "load"
    BY <1>2 DEF F!Call, F!Pushing, HostInv
  <2> QED
    BY <1>1, <1>2, <2>1, EffectKeeps DEF F!Call
<1>3. CASE F!CallFails
  <2>1. ASSUME cmd = "unpair" PROVE F!NumCalls \in Int
    <3>1. F!Chunk \in Nat \ {0} /\ Len(targets) \in Nat
      BY <2>1, F!FleetAssumption DEF F!Chunk, HostInv
    <3> QED
      BY <3>1 DEF F!NumCalls
  <2>2. cmd = "unpair" => F!NumCalls \in Nat
    BY <1>3, <2>1 DEF F!CallFails, F!Pushing, HostInv
  <2>3. calls' \in Nat /\ pc' \in {"dead", "push"}
    BY <1>1, <1>3, <2>2 DEF F!CallFails, F!LogError, HostInv
  <2>4. CASE UNCHANGED <<F!fleet, F!history>>
    <3>1. Doomed' = Doomed
      BY <1>1, <2>4 DEF Doomed, F!history
    <3> QED
      BY <1>1, <2>3, <2>4, <3>1 DEF HostInv, Spared, F!fleet, F!history
  <2>5. CASE F!Effect(F!ToSet(F!Piece(calls + 1)))
    BY <1>1, <1>3, <2>3, <2>5, EffectKeeps DEF F!CallFails
  <2> QED
    BY <1>3, <2>4, <2>5 DEF F!CallFails
<1>4. CASE F!CallsDone
  <2>1. UNCHANGED <<F!fleet, F!history>> /\ calls' \in Nat /\ pc' \in {"push", "ended"}
    BY <1>1, <1>4 DEF F!CallsDone, HostInv
  <2>2. Doomed' = Doomed
    BY <1>1, <2>1 DEF Doomed, F!history
  <2> QED
    BY <1>1, <2>1, <2>2 DEF HostInv, Spared, F!fleet, F!history
<1> QED
  BY <1>2, <1>3, <1>4

LEMMA StopKeeps ==
  ASSUME HostInv, F!DryRun \/ F!PromptDenied \/ F!Approve \/ F!Crash
  PROVE  HostInv'
<1>1. UNCHANGED <<flags, F!fleet, F!history, cmd, targets, calls>>
  BY DEF F!DryRun, F!PromptDenied, F!Approve, F!Crash, F!Decision, F!Stops, F!NotAsked,
     F!Denied, F!Approved, F!Silent, F!Fault, F!session
<1>2. pc' \in {"ended", "dead"} \/ (pc = "decide" /\ pc' = "push")
  BY DEF F!DryRun, F!PromptDenied, F!Approve, F!Crash, F!Decision, F!Stops
<1>3. Doomed' = Doomed
  BY <1>1 DEF Doomed, F!history
<1> QED
  BY <1>1, <1>2, <1>3 DEF HostInv, Spared, F!fleet, F!history

LEMMA OutsideKeeps ==
  ASSUME HostInv, F!Tick \/ F!ComesOnline \/ F!GoesOffline \/ F!Others \/ UNCHANGED F!vars
  PROVE  HostInv'
<1>1. UNCHANGED <<flags, cmd, pc, targets, calls, list, removed>>
  BY DEF F!Tick, F!ComesOnline, F!GoesOffline, F!Others, F!vars, F!session, F!command,
     F!history, F!Fault
<1>2. Doomed' = Doomed
  BY <1>1 DEF Doomed
<1>3. flags.source = "file" => Spared'
  BY <1>1, <1>2 DEF HostInv, Spared
<1>4. /\ now' \in Nat \ {0} /\ beat' \in [Vens -> 0..now']
      /\ \A v \in Vens : beat'[v] = 0 <=> v \in Mute
  <2>1. CASE F!Tick
    BY <2>1 DEF F!Tick, HostInv
  <2>2. CASE F!ComesOnline
    BY <2>2 DEF F!ComesOnline, HostInv
  <2>3. CASE F!GoesOffline \/ F!Others \/ UNCHANGED F!vars
    BY <2>3 DEF F!GoesOffline, F!Others, F!vars, F!fleet, HostInv
  <2> QED
    BY <2>1, <2>2, <2>3
<1>5. paired' \subseteq paired /\ online' \subseteq Vens \ Mute
  BY DEF HostInv, F!Tick, F!ComesOnline, F!GoesOffline, F!Others, F!vars, F!fleet
<1> QED
  BY <1>1, <1>3, <1>4, <1>5 DEF HostInv

LEMMA CommandKeeps ==
  ASSUME HostInv, F!NewCommand
  PROVE  HostInv'
<1>1. /\ UNCHANGED <<flags, F!fleet, list, removed>>
      /\ targets' = <<>> /\ calls' = 0 /\ pc' = "load" /\ cmd' \in F!Commands
  BY DEF F!NewCommand, F!NextCommand
<1>2. Doomed' \subseteq Doomed
  BY <1>1 DEF Doomed, F!ToSet
<1>3. flags.source = "file" => Spared'
  BY <1>2, DoomedShrinks DEF HostInv
<1> QED
  BY <1>1, <1>3 DEF HostInv, F!fleet

LEMMA HostStep ==
  ASSUME F!FleetAssumption
  PROVE  HostInv /\ [F!Next]_F!vars => HostInv'
  BY ListKeeps, LoadKeeps, PushKeeps, StopKeeps, OutsideKeeps, CommandKeeps DEF F!Next,
     F!Command

\* However old the file is when unpair reads it, however the VENs of a hostname
\* took turns meanwhile and whatever failed, a VEN in use stays.
THEOREM HostsStay ==
  ASSUME F!FleetAssumption
  PROVE  F!Spec => []F!HostsKept
<1>1. HostInv => F!HostsKept
  BY DEF HostInv, Spared, Doomed, F!HostsKept
<1>2. F!Spec => []HostInv
  BY HostInit, HostStep, PTL DEF F!Spec
<1> QED
  BY <1>1, <1>2, PTL

-----------------------------------------------------------------------------
(* increase-ven-rate asks its VENs equally often. *)

\* No VEN is a target twice.
OneEach == \A i, j \in 1..Len(targets) : targets[i] = targets[j] => i = j

\* What the iteration that is under way has added for the j-th target.
Turn(j) == IF j <= calls * RateChunk THEN 1 ELSE 0

\* A command that has ended has asked all of its VENs in every iteration, or it
\* has asked nobody.
AskedAlike ==
  cmd = "increase-ven-rate" /\ pc = "ended" /\ alone =>
    \/ \A v \in F!ToSet(targets) : asked[v] = Iterations + 1
    \/ wrote = FALSE /\ \A v \in F!ToSet(targets) : asked[v] = 0

\* The inductive invariant: an undisturbed command has asked its j-th target in
\* every iteration before, and in this one if the pieces have come to it.
EvenInv ==
  /\ asked \in [Vens -> Nat] /\ iterations \in Nat /\ OneEach
  /\ cmd = "increase-ven-rate" /\ alone =>
       /\ pc \in {"load", "decide"} =>
            calls = 0 /\ iterations = 0 /\ wrote = FALSE /\ \A v \in Vens : asked[v] = 0
       /\ pc = "push" =>
            /\ calls <= F!NumCalls /\ iterations <= Iterations
            /\ \A j \in 1..Len(targets) : asked[targets[j]] = iterations + Turn(j)
  /\ AskedAlike

\* A plan lists each VEN of a set once.
LEMMA PlanInjective ==
  ASSUME F!FleetAssumption, NEW T \in SUBSET Vens
  PROVE  /\ Len(F!SetToSeq(T)) \in Nat
         /\ \A i, j \in 1..Len(F!SetToSeq(T)) : F!SetToSeq(T)[i] = F!SetToSeq(T)[j] => i = j
<1>1. IsFiniteSet(T)
  BY FS_Subset, SameOperators, F!FleetAssumption
<1>2. Cardinality(T) \in Nat /\ \E g \in [1..Cardinality(T) -> T] : IsInjective(g)
  BY <1>1, FS_CardinalityType DEF ExistsBijection, Bijection, Injection
<1>3. F!SetToSeq(T) = CHOOSE f \in [1..Cardinality(T) -> T] : IsInjective(f)
  BY SameOperators, Zenon DEF F!SetToSeq
<1>4. F!SetToSeq(T) \in [1..Cardinality(T) -> T] /\ IsInjective(F!SetToSeq(T))
  BY <1>2, <1>3, Zenon
<1>5. Len(F!SetToSeq(T)) = Cardinality(T)
  BY <1>2, <1>4
<1> QED
  BY <1>2, <1>4, <1>5 DEF IsInjective

\* The pieces cover the targets: whole ones up to the last, which is the rest.
LEMMA PiecesCover ==
  ASSUME NEW L \in Nat, NEW c \in Nat \ {0}
  PROVE  /\ (L + c - 1) \div c \in Nat
         /\ L <= ((L + c - 1) \div c) * c
         /\ \A k \in Nat : k < (L + c - 1) \div c => k * c <= L
  OBVIOUS


\* The targets of the next piece.
LEMMA PieceIs ==
  ASSUME F!FleetAssumption, targets \in Seq(Vens), OneEach,
         calls \in Nat, cmd = "increase-ven-rate",
         calls < F!NumCalls, NEW j \in 1..Len(targets)
  PROVE  targets[j] \in F!ToSet(F!Piece(calls + 1)) <=>
           calls * RateChunk < j /\ j <= (calls + 1) * RateChunk
<1> DEFINE m == calls * RateChunk + 1
           n == IF calls + 1 = F!NumCalls THEN Len(targets) ELSE (calls + 1) * RateChunk
           s == SubSeq(targets, m, n)
<1>1. /\ Len(targets) \in Nat /\ RateChunk \in Nat \ {0} /\ F!Chunk = RateChunk
      /\ F!NumCalls = (Len(targets) + RateChunk - 1) \div RateChunk
  BY F!FleetAssumption DEF F!Chunk, F!NumCalls
<1>2. /\ F!NumCalls \in Nat /\ Len(targets) <= F!NumCalls * RateChunk
      /\ \A k \in Nat : k < F!NumCalls => k * RateChunk <= Len(targets)
  BY <1>1, PiecesCover
<1>3. m \in Nat \ {0} /\ (calls + 1) * RateChunk \in Nat
  BY <1>1
<1>4. F!Piece(calls + 1) = s
  <2>1. (calls + 1) - 1 = calls
    OBVIOUS
  <2>2. F!Piece(calls + 1) = SubSeq(targets, ((calls + 1) - 1) * RateChunk + 1, n)
    BY <1>1, Zenon DEF F!Piece
  <2> QED
    BY <2>1, <2>2
<1>5. n \in Nat /\ n <= Len(targets) /\ (j <= n <=> j <= (calls + 1) * RateChunk)
  <2>1. CASE calls + 1 = F!NumCalls
    BY <1>1, <1>2, <2>1
  <2>2. CASE calls + 1 # F!NumCalls
    <3>1. calls + 1 \in Nat /\ calls + 1 < F!NumCalls
      BY <1>2, <2>2
    <3> QED
      BY <1>2, <1>3, <2>2, <3>1
  <2> QED
    BY <2>1, <2>2
<1>6. calls * RateChunk < j <=> m <= j
  <2>1. calls * RateChunk \in Nat
    BY <1>1
  <2> QED
    BY <2>1
<1> HIDE DEF m, n
<1>7. \A i \in m..n : i \in 1..Len(targets)
  BY <1>1, <1>3, <1>5
<1>8. /\ s \in Seq(Vens) /\ Len(s) = IF m <= n THEN n - m + 1 ELSE 0
      /\ \A i \in 1..(n - m + 1) : s[i] = targets[m + i - 1]
  <2>1. \A i \in m..n : targets[i] \in Vens
    BY <1>7, ElementOfSeq
  <2> QED
    BY <1>3, <1>5, <2>1, SubSeqProperties
<1>9. F!ToSet(s) = {s[i] : i \in 1..(n - m + 1)}
  <2>1. DOMAIN s = 1..(n - m + 1)
    BY <1>3, <1>5, <1>8
  <2> QED
    BY <2>1 DEF F!ToSet
<1> HIDE DEF s
<1>10. ASSUME targets[j] \in F!ToSet(s) PROVE m <= j /\ j <= n
  <2>1. PICK i \in 1..(n - m + 1) : targets[j] = s[i]
    BY <1>9, <1>10
  <2>2. m + i - 1 \in m..n /\ s[i] = targets[m + i - 1]
    BY <1>3, <1>5, <1>8
  <2>3. j = m + i - 1
    BY <1>7, <2>1, <2>2 DEF OneEach
  <2> QED
    BY <2>2, <2>3
<1>11. ASSUME m <= j, j <= n PROVE targets[j] \in F!ToSet(s)
  <2>1. j - m + 1 \in 1..(n - m + 1) /\ m + (j - m + 1) - 1 = j
    BY <1>3, <1>5, <1>11
  <2>2. s[j - m + 1] = targets[j]
    BY <1>8, <2>1
  <2> QED
    BY <1>9, <2>1, <2>2
<1> QED
  BY <1>4, <1>5, <1>6, <1>10, <1>11

LEMMA EvenInit == F!Init => EvenInv
  BY DEF F!Init, F!SessionInit, EvenInv, OneEach, AskedAlike

\* Steps after which the command is disturbed.
LEMMA DisturbedKeepsEven ==
  ASSUME ~alone', asked' \in [Vens -> Nat], iterations' \in Nat, OneEach'
  PROVE  EvenInv'
  BY DEF EvenInv, AskedAlike

\* Steps that leave the targets and the counts alone.
LEMMA QuietKeepsEven ==
  ASSUME F!FleetAssumption, HostInv, EvenInv,
         UNCHANGED <<flags, cmd, targets, calls, iterations, asked>>,
         alone' => alone /\ wrote' = wrote,
         pc' \in {pc, "dead"} \/ (pc = "decide" /\ pc' \in {"push", "ended"})
  PROVE  EvenInv'
<1> DEFINE E == cmd = "increase-ven-rate" /\ alone'
<1>1. OneEach' /\ asked' \in [Vens -> Nat] /\ iterations' \in Nat
  BY DEF EvenInv, OneEach
<1>2. E => alone /\ wrote' = wrote
  OBVIOUS
<1>3. targets \in Seq(Vens) /\ Len(targets) \in Nat /\ RateChunk \in Nat \ {0}
  BY F!FleetAssumption DEF HostInv
<1>4. \A j \in 1..Len(targets) : targets[j] \in Vens
  BY <1>3, ElementOfSeq
<1>5. F!NumCalls' = F!NumCalls /\ \A j : Turn(j)' = Turn(j)
  BY DEF F!NumCalls, F!Chunk, Turn
<1>6. CASE pc' = pc
  <2>1. E /\ pc \in {"load", "decide"} =>
          calls = 0 /\ iterations = 0 /\ wrote' = FALSE /\ \A v \in Vens : asked[v] = 0
    BY <1>2 DEF EvenInv
  <2>2. E /\ pc = "push" =>
          /\ calls <= F!NumCalls /\ iterations <= Iterations
          /\ \A j \in 1..Len(targets) : asked[targets[j]] = iterations + Turn(j)
    BY <1>2 DEF EvenInv
  <2>3. AskedAlike'
    BY <1>2, <1>6 DEF EvenInv, AskedAlike
  <2> QED
    BY <1>1, <1>5, <1>6, <2>1, <2>2, <2>3 DEF EvenInv
<1>7. CASE pc = "decide" /\ pc' = "push"
  <2>1. E => calls = 0 /\ iterations = 0 /\ \A v \in Vens : asked[v] = 0
    BY <1>2, <1>7 DEF EvenInv
  <2>2. E => 0 <= F!NumCalls
    <3>1. E => F!NumCalls = (Len(targets) + RateChunk - 1) \div RateChunk
      BY DEF F!NumCalls, F!Chunk
    <3> QED
      BY <1>3, <3>1, PiecesCover
  <2>3. E => \A j \in 1..Len(targets) : Turn(j) = 0
    BY <1>3, <2>1 DEF Turn
  <2>4. E => /\ calls <= F!NumCalls /\ iterations <= Iterations
             /\ \A j \in 1..Len(targets) : asked[targets[j]] = iterations + Turn(j)
    BY <1>4, <2>1, <2>2, <2>3, F!FleetAssumption
  <2>5. AskedAlike'
    BY <1>7 DEF AskedAlike
  <2> QED
    BY <1>1, <1>5, <1>7, <2>4, <2>5 DEF EvenInv
<1>8. CASE pc = "decide" /\ pc' = "ended"
  <2>1. E => wrote' = FALSE /\ \A v \in Vens : asked[v] = 0
    BY <1>2, <1>8 DEF EvenInv
  <2>2. \A v \in F!ToSet(targets) : v \in Vens
    BY <1>3, <1>4 DEF F!ToSet
  <2>3. AskedAlike'
    BY <2>1, <2>2 DEF AskedAlike
  <2> QED
    BY <1>1, <1>8, <2>3 DEF EvenInv
<1>9. CASE pc' = "dead"
  BY <1>1, <1>9 DEF EvenInv, AskedAlike
<1> QED
  BY <1>6, <1>7, <1>8, <1>9

\* One piece is asked.
LEMMA CallKeepsEven ==
  ASSUME F!FleetAssumption, HostInv, EvenInv, F!Call
  PROVE  EvenInv'
<1> DEFINE P == F!ToSet(F!Piece(calls + 1))
<1>1. /\ pc = "push" /\ calls < F!NumCalls /\ calls' = calls + 1 /\ F!Effect(P)
      /\ UNCHANGED <<flags, alone, cmd, pc, targets, iterations>>
  BY DEF F!Call, F!Pushing, F!Works
<1>2. /\ targets \in Seq(Vens) /\ Len(targets) \in Nat /\ calls \in Nat
      /\ RateChunk \in Nat \ {0}
  BY F!FleetAssumption DEF HostInv
<1> HIDE DEF P
<1>3. OneEach' /\ iterations' \in Nat /\ AskedAlike'
  BY <1>1 DEF EvenInv, OneEach, AskedAlike
<1>4. CASE cmd # "increase-ven-rate"
  <2>1. asked' = asked
    BY <1>1, <1>4 DEF F!Effect, HostInv, F!Commands, F!Call, F!Pushing, F!history
  <2> QED
    BY <1>1, <1>3, <1>4, <2>1 DEF EvenInv
<1>5. CASE cmd = "increase-ven-rate"
  <2>1. asked' = [v \in Vens |-> IF v \in P /\ asked[v] < Iterations + 2
                                 THEN asked[v] + 1 ELSE asked[v]]
    BY <1>1, <1>5 DEF F!Effect
  <2>2. asked' \in [Vens -> Nat]
    BY <2>1 DEF EvenInv
  <2>3. ASSUME alone
        PROVE  /\ calls + 1 <= F!NumCalls /\ iterations <= Iterations
               /\ \A j \in 1..Len(targets) :
                    asked'[targets[j]] = iterations + Turn(j)'
    <3>1. /\ iterations \in Nat /\ iterations <= Iterations /\ Iterations \in Nat
          /\ \A j \in 1..Len(targets) : asked[targets[j]] = iterations + Turn(j)
      BY <1>1, <1>5, <2>3, F!FleetAssumption DEF EvenInv
    <3>2. calls + 1 <= F!NumCalls
      <4>1. F!NumCalls \in Nat
        BY <1>2, <1>5, PiecesCover DEF F!NumCalls, F!Chunk
      <4> QED
        BY <1>1, <1>2, <4>1
    <3>3. ASSUME NEW j \in 1..Len(targets)
          PROVE  asked'[targets[j]] = iterations + Turn(j)'
      <4>1. targets[j] \in Vens
        BY <1>2, ElementOfSeq
      <4>2. targets[j] \in P <=> calls * RateChunk < j /\ j <= (calls + 1) * RateChunk
        BY <1>1, <1>2, <1>5, PieceIs DEF P, EvenInv
      <4>3. asked[targets[j]] = iterations + Turn(j)
        BY <3>1
      <4>4. Turn(j)' = IF j <= (calls + 1) * RateChunk THEN 1 ELSE 0
        BY <1>1 DEF Turn
      <4>5. calls * RateChunk \in Nat /\ (calls + 1) * RateChunk \in Nat
            /\ calls * RateChunk <= (calls + 1) * RateChunk
        BY <1>2
      <4>6. CASE targets[j] \in P
        <5>1. Turn(j) = 0 /\ Turn(j)' = 1
          BY <4>2, <4>4, <4>5, <4>6 DEF Turn
        <5>2. asked[targets[j]] = iterations /\ asked[targets[j]] < Iterations + 2
          BY <3>1, <4>3, <5>1
        <5> QED
          BY <2>1, <4>1, <4>6, <5>1, <5>2
      <4>7. CASE targets[j] \notin P
        <5>1. Turn(j)' = Turn(j)
          BY <4>2, <4>4, <4>5, <4>7 DEF Turn
        <5> QED
          BY <2>1, <4>1, <4>3, <4>7, <5>1
      <4> QED
        BY <4>6, <4>7
    <3> QED
      BY <3>1, <3>2, <3>3
  <2>4. F!NumCalls' = F!NumCalls
    BY <1>1 DEF F!NumCalls, F!Chunk
  <2> QED
    BY <1>1, <1>3, <2>2, <2>3, <2>4 DEF EvenInv
<1> QED
  BY <1>4, <1>5

LEMMA CallFailsKeepsEven ==
  ASSUME HostInv, EvenInv, F!CallFails
  PROVE  EvenInv'
<1>1. alone' = FALSE /\ UNCHANGED <<targets, iterations>> /\ pc = "push"
  BY DEF F!CallFails, F!Pushing, F!Fault, F!LostAnswer
<1>2. asked' \in [Vens -> Nat]
  <2>1. CASE UNCHANGED <<F!fleet, F!history>>
    BY <2>1 DEF EvenInv, F!history
  <2>2. ASSUME NEW P, F!Effect(P) PROVE asked' \in [Vens -> Nat]
    <3>1. asked \in [Vens -> Nat] /\ cmd \in {"unpair", "upgrade", "increase-ven-rate"}
      BY <1>1 DEF HostInv, F!Commands, EvenInv
    <3>2. CASE cmd = "increase-ven-rate"
      <4>1. asked' = [v \in Vens |-> IF v \in P /\ asked[v] < Iterations + 2
                                     THEN asked[v] + 1 ELSE asked[v]]
        BY <2>2, <3>2 DEF F!Effect
      <4> QED
        BY <3>1, <4>1
    <3>3. CASE cmd \in {"unpair", "upgrade"}
      <4>1. asked' = asked
        BY <2>2, <3>3 DEF F!Effect, F!history
      <4> QED
        BY <3>1, <4>1
    <3> QED
      BY <3>1, <3>2, <3>3
  <2> QED
    BY <2>1, <2>2 DEF F!CallFails
<1> QED
  BY <1>1, <1>2, DisturbedKeepsEven DEF EvenInv, OneEach

\* The iteration is over: every target has its turn.
LEMMA DoneKeepsEven ==
  ASSUME F!FleetAssumption, HostInv, EvenInv, F!CallsDone
  PROVE  EvenInv'
<1>1. /\ pc = "push" /\ calls = F!NumCalls
      /\ UNCHANGED <<flags, alone, cmd, targets, asked, wrote>>
  BY DEF F!CallsDone, F!Silent, F!session, F!history
<1>2. /\ targets \in Seq(Vens) /\ Len(targets) \in Nat /\ RateChunk \in Nat \ {0}
      /\ Iterations \in Nat /\ iterations \in Nat
  BY F!FleetAssumption DEF HostInv, EvenInv
<1>3. OneEach' /\ asked' \in [Vens -> Nat] /\ iterations' \in Nat
  BY <1>1, <1>2 DEF EvenInv, OneEach, F!CallsDone, F!Counted
<1>4. CASE ~(cmd = "increase-ven-rate" /\ alone)
  BY <1>1, <1>3, <1>4 DEF EvenInv, AskedAlike
<1>5. CASE cmd = "increase-ven-rate" /\ alone
  <2>1. \A j \in 1..Len(targets) : asked[targets[j]] = iterations + 1
    <3>1. \A j \in 1..Len(targets) : asked[targets[j]] = iterations + Turn(j)
      BY <1>1, <1>5 DEF EvenInv
    <3>2. F!NumCalls \in Nat /\ Len(targets) <= F!NumCalls * RateChunk
      BY <1>2, <1>5, PiecesCover DEF F!NumCalls, F!Chunk
    <3>3. \A j \in 1..Len(targets) : Turn(j) = 1
      <4>1. F!NumCalls * RateChunk \in Nat
        BY <1>2, <3>2
      <4> QED
        BY <1>1, <1>2, <3>2, <4>1 DEF Turn
    <3> QED
      BY <3>1, <3>3
  <2>2. CASE iterations + 1 <= Iterations
    <3>1. calls' = 0 /\ iterations' = iterations + 1 /\ pc' = "push"
      BY <1>1, <1>5, <2>2 DEF F!CallsDone, F!Counted
    <3>2. \A j \in 1..Len(targets) : Turn(j)' = 0
      <4>1. calls' * RateChunk = 0
        BY <1>2, <3>1
      <4> QED
        BY <1>1, <4>1 DEF Turn
    <3>3. 0 <= F!NumCalls'
      <4>1. F!NumCalls' = (Len(targets) + RateChunk - 1) \div RateChunk
        BY <1>1, <1>5 DEF F!NumCalls, F!Chunk
      <4> QED
        BY <1>2, <4>1, PiecesCover
    <3>4. \A j \in 1..Len(targets) : asked[targets[j]] = iterations' + 0
      BY <1>2, <2>1, <3>1
    <3>5. \A j \in 1..Len(targets) : asked[targets[j]] = iterations' + Turn(j)'
      BY <3>2, <3>4
    <3>6. AskedAlike'
      BY <3>1 DEF AskedAlike
    <3> QED
      BY <1>1, <1>3, <2>2, <3>1, <3>3, <3>5, <3>6 DEF EvenInv
  <2>3. CASE ~(iterations + 1 <= Iterations)
    <3>1. pc' = "ended"
      BY <1>1, <1>5, <2>3 DEF F!CallsDone, F!Counted
    <3>2. iterations = Iterations
      <4>1. iterations <= Iterations
        BY <1>1, <1>5 DEF EvenInv
      <4> QED
        BY <1>2, <2>3, <4>1
    <3>3. \A v \in F!ToSet(targets) : asked[v] = Iterations + 1
      BY <1>2, <2>1, <3>2 DEF F!ToSet
    <3>4. AskedAlike'
      BY <1>1, <3>3 DEF AskedAlike
    <3> QED
      BY <1>3, <3>1, <3>4 DEF EvenInv
  <2> QED
    BY <2>2, <2>3
<1> QED
  BY <1>4, <1>5

\* A plan lists every VEN once, and nobody has been asked yet.
LEMMA LoadKeepsEven ==
  ASSUME F!FleetAssumption, HostInv, EvenInv, F!Load
  PROVE  EvenInv'
<1>1. F!Targets \in SUBSET Vens
  BY DEF F!Load, F!Targets, F!ToUnpair, F!Candidates, F!Named, F!ToUpgrade, F!ToAsk,
     HostInv, F!Commands
<1>2. /\ targets' = F!SetToSeq(F!Targets) /\ pc = "load" /\ pc' \in {"ended", "decide"}
      /\ UNCHANGED <<flags, alone, wrote, cmd, asked, calls, iterations>>
  BY DEF F!Load, F!Planned, F!Silent, F!session, F!history
<1>3. OneEach'
  BY <1>1, <1>2, PlanInjective DEF OneEach
<1>4. \A v \in F!ToSet(targets') : v \in Vens
  BY <1>1, <1>2, PlanInRange
<1>5. cmd = "increase-ven-rate" /\ alone =>
        calls = 0 /\ iterations = 0 /\ wrote = FALSE /\ \A v \in Vens : asked[v] = 0
  BY <1>2 DEF EvenInv
<1>6. AskedAlike'
  BY <1>2, <1>4, <1>5 DEF AskedAlike
<1> QED
  BY <1>2, <1>3, <1>5, <1>6 DEF EvenInv

LEMMA LoadFailsKeepsEven ==
  ASSUME F!FleetAssumption, HostInv, EvenInv, F!LoadFails
  PROVE  EvenInv'
<1>1. F!ToUnpair \in SUBSET Vens
  BY DEF F!ToUnpair, F!Candidates, F!Named, HostInv
<1>2. alone' = FALSE /\ UNCHANGED <<asked, iterations>>
  BY DEF F!LoadFails, F!Fault, F!Stops, F!Planned, F!history
<1>3. targets' = targets \/ targets' = F!SetToSeq(F!ToUnpair)
  BY DEF F!LoadFails, F!Stops, F!Planned
<1>4. OneEach'
  BY <1>1, <1>3, PlanInjective DEF OneEach, EvenInv
<1> QED
  BY <1>2, <1>4, DisturbedKeepsEven DEF EvenInv

LEMMA OthersKeepEven ==
  ASSUME F!FleetAssumption, HostInv, EvenInv,
         \/ F!List \/ F!DryRun \/ F!PromptDenied \/ F!Approve \/ F!Crash
         \/ F!Tick \/ F!ComesOnline \/ F!GoesOffline \/ F!Others \/ UNCHANGED F!vars
  PROVE  EvenInv'
<1>1. CASE F!List
  <2>1. /\ cmd = "wkld-cleanup" /\ UNCHANGED <<cmd, targets, iterations, asked>>
    BY <1>1 DEF F!List, F!Stops
  <2> QED
    BY <2>1 DEF EvenInv, OneEach, AskedAlike
<1>2. CASE F!DryRun \/ F!PromptDenied \/ F!Approve
  BY <1>2, QuietKeepsEven DEF F!DryRun, F!PromptDenied, F!Approve, F!Decision, F!Stops,
     F!NotAsked, F!Denied, F!Approved, F!Silent, F!session, F!history
<1>3. CASE F!Crash
  BY <1>3, QuietKeepsEven DEF F!Crash, F!Stops, F!Fault, F!history
<1>4. CASE F!Tick \/ F!ComesOnline \/ F!GoesOffline
  BY <1>4, QuietKeepsEven DEF F!Tick, F!ComesOnline, F!GoesOffline, F!session,
     F!command, F!history
<1>5. CASE F!Others
  BY <1>5, QuietKeepsEven DEF F!Others, F!Fault, F!command, F!history
<1>6. CASE UNCHANGED F!vars
  BY <1>6, QuietKeepsEven DEF F!vars, F!session, F!command, F!history
<1> QED
  BY <1>1, <1>2, <1>3, <1>4, <1>5, <1>6

LEMMA CommandKeepsEven ==
  ASSUME EvenInv, F!NewCommand
  PROVE  EvenInv'
<1>1. /\ pc' = "load" /\ targets' = <<>> /\ calls' = 0 /\ iterations' = 0
      /\ asked' = [v \in Vens |-> 0] /\ wrote' = FALSE
  BY DEF F!NewCommand, F!NextCommand
<1> QED
  BY <1>1 DEF EvenInv, OneEach, AskedAlike

\* An undisturbed increase-ven-rate treats its VENs alike, however many it has and
\* however they are cut into calls: none is left out between two pieces or after
\* the last whole one and none is in two.  Each is asked as often as --for-minutes
\* promises or more (increaseVENUpdateRate).
THEOREM AskedAlikeAndEnough ==
  ASSUME F!FleetAssumption
  PROVE  F!Spec => []F!AskedEvenly
<1>1. F!Init => HostInv /\ EvenInv
  BY HostInit, EvenInit
<1>2. HostInv /\ EvenInv /\ [F!Next]_F!vars => (HostInv /\ EvenInv)'
  BY HostStep, CallKeepsEven, CallFailsKeepsEven, DoneKeepsEven, LoadKeepsEven,
     LoadFailsKeepsEven, OthersKeepEven, CommandKeepsEven DEF F!Next, F!Command
<1>3. EvenInv => F!AskedEvenly
  <2>1. Iterations \in Nat
    BY F!FleetAssumption
  <2> QED
    BY <2>1 DEF EvenInv, AskedAlike, F!AskedEvenly
<1> QED
  BY <1>1, <1>2, <1>3, PTL DEF F!Spec
-----------------------------------------------------------------------------
(* The consent gate of the commands that manage VENs *)

\* What makes the gate inductive.
VenGateInv ==
  /\ flags \in FleetFlags
  /\ pc \in {"load", "decide"} => answer = "unasked" /\ wrote = FALSE
  /\ pc = "push" => F!Consent

LEMMA VenGateStep ==
  ASSUME VenGateInv, [F!Next]_F!vars
  PROVE  VenGateInv' /\ [F!Gate!Next]_F!Gate!vars
<1> USE DEF VenGateInv, F!Consent, F!Gate!vars, F!Silent, F!session, F!Stops
<1>1. CASE F!Load \/ F!List \/ F!LoadFails
  <2>1. /\ pc = "load" /\ pc' \in {"decide", "ended", "dead"}
        /\ UNCHANGED <<flags, answer, wrote>>
    BY <1>1 DEF F!Load, F!List, F!LoadFails, F!Planned, F!Fault
  <2> QED
    BY <2>1
<1>2. CASE F!DryRun \/ F!PromptDenied \/ F!Approve
  BY <1>2 DEF F!DryRun, F!PromptDenied, F!Approve, F!Decision, F!NotAsked, F!Denied,
              F!Approved, F!Gate!Next, F!Gate!Ask
<1>3. CASE F!Call \/ F!CallFails
  <2>1. /\ pc = "push" /\ pc' \in {"push", "dead"}
        /\ wrote' = TRUE \/ wrote' = wrote
        /\ UNCHANGED <<flags, answer>>
    BY <1>3 DEF F!Call, F!CallFails, F!Pushing, F!Works, F!LostAnswer, F!Fault, F!LogError
  <2> QED
    BY <2>1 DEF F!Gate!Next, F!Gate!Write, F!Gate!Consent
<1>4. CASE F!CallsDone \/ F!Crash
  BY <1>4 DEF F!CallsDone, F!Crash, F!Fault
<1>5. CASE F!NewCommand
  BY <1>5 DEF F!NewCommand, F!NextCommand, F!Gate!Next, F!Gate!Rerun
<1>6. CASE F!Tick \/ F!ComesOnline \/ F!GoesOffline \/ F!Others
  BY <1>6 DEF F!Tick, F!ComesOnline, F!GoesOffline, F!Others, F!command, F!Fault
<1>7. CASE UNCHANGED F!vars
  BY <1>7 DEF F!vars, F!command
<1> QED
  BY <1>1, <1>2, <1>3, <1>4, <1>5, <1>6, <1>7 DEF F!Next, F!Command

\* unpair, upgrade and increase-ven-rate call nothing that changes a VEN unless
\* --update-pce is set and, without --no-prompt, the operator has said yes, in
\* all the calls and iterations that follow.
THEOREM FleetGated ==
  ASSUME F!SessionAssumption
  PROVE  F!Spec => F!GateSpec
<1>1. F!Init => VenGateInv /\ F!Gate!Init
  BY F!SessionAssumption DEF F!Init, F!SessionInit, VenGateInv, F!Gate!Init
<1>2. VenGateInv /\ [F!Next]_F!vars => VenGateInv' /\ [F!Gate!Next]_F!Gate!vars
  BY VenGateStep
<1> QED
  BY <1>1, <1>2, PTL DEF F!Spec, F!GateSpec, F!Gate!Spec
=============================================================================
