------------------------- MODULE WkldImport_proofs --------------------------
(* Type correctness of WkldImport, the fate of the placeholder labels and what *)
(* an undisturbed run does, for every CSV, every flag combination and every   *)
(* number of runs and faults.                                                 *)
EXTENDS WkldImport, FiniteSetTheorems, WellFoundedInduction, TLAPS

-----------------------------------------------------------------------------
(* What the operators of the plan return. *)

LEMMA HostKeyType ==
  ASSUME NEW w \in Workloads
  PROVE  HostKey(w) \in Names
BY DataAssumption DEF HostKey, Workloads

LEMMA WornType ==
  ASSUME NEW L \in LabelMaps
  PROVE  Worn(L) \subseteq Labels
BY DEF Worn, LabelMaps, Labels

LEMMA WantedType ==
  ASSUME NEW L, NEW r \in Rows
  PROVE  Wanted(L, r) \subseteq Labels
<1>1. DOMAIN r.cells \subseteq Dims
  BY DEF Rows
<1> QED
  BY <1>1 DEF Wanted, Labels

LEMMA RowLabelsType ==
  ASSUME NEW L \in LabelMaps, NEW r \in Rows
  PROVE  RowLabels(L, r) \subseteq Hrefs
<1>1. Kept(L, r) \subseteq Labels
  BY WornType DEF Kept
<1>2. Wanted(L, r) \subseteq Labels
  BY WantedType
<1>3. ASSUME NEW l \in Labels
      PROVE  RealHref(l) \in Hrefs /\ checkLabel(l) \in Hrefs
  <2>1. (l \notin loaded) \in BOOLEAN
    OBVIOUS
  <2> QED
    BY <2>1 DEF RealHref, checkLabel, Hrefs
<1> QED
  BY <1>1, <1>2, <1>3 DEF RowLabels

LEMMA LabelsOfType ==
  ASSUME NEW hrefs
  PROVE  LabelsOf(hrefs) \in LabelMaps
BY DEF LabelsOf, LabelMaps

LEMMA UpdatedType ==
  ASSUME NEW w \in Workloads, NEW u \in Updates
  PROVE  Updated(w, u) \in Workloads
BY LabelsOfType DEF Updated, Workloads, Updates

LEMMA ResolveType ==
  ASSUME replacement \in PartialMaps, NEW h \in Hrefs
  PROVE  Resolve(h) \in Hrefs
BY DEF Resolve, PartialMaps, EmptyHref, Hrefs

LEMMA ResolveAllType ==
  ASSUME replacement \in PartialMaps,
         NEW list \in Seq(Updates) \cup Seq(Creates)
  PROVE  /\ DOMAIN ResolveAll(list) = DOMAIN list
         /\ list \in Seq(Updates) => ResolveAll(list) \in Seq(Updates)
         /\ list \in Seq(Creates) => ResolveAll(list) \in Seq(Creates)
<1>1. ASSUME NEW x \in Updates \cup Creates
      PROVE  {Resolve(h) : h \in x.labels} \in SUBSET Hrefs
  <2>1. x.labels \subseteq Hrefs
    BY DEF Updates, Creates
  <2> QED
    BY <2>1, ResolveType
<1> DEFINE R(x) == [x EXCEPT !.labels = {Resolve(h) : h \in x.labels}]
<1>2. ASSUME NEW x \in Updates
      PROVE  R(x) \in Updates
  BY <1>1 DEF Updates
<1>3. ASSUME NEW x \in Creates
      PROVE  R(x) \in Creates
  BY <1>1 DEF Creates
<1>4. ResolveAll(list) = [i \in DOMAIN list |-> R(list[i])]
  BY DEF ResolveAll
<1> HIDE DEF R
<1> QED
  BY <1>2, <1>3, <1>4

LEMMA NoLabelsType == NoLabels \in LabelMaps
BY DEF NoLabels, LabelMaps

LEMMA ReplacedType ==
  ASSUME replacement \in PartialMaps, NEW l \in Labels, NEW h \in Hrefs,
         Replaced(l, h)
  PROVE  replacement' \in PartialMaps
<1>1. PICK S \in SUBSET Labels : replacement \in [S -> Hrefs]
  BY DEF PartialMaps
<1>2. replacement' \in [S \cup {l} -> Hrefs]
  BY <1>1 DEF Replaced
<1> QED
  BY <1>2 DEF PartialMaps

-----------------------------------------------------------------------------
(* Type correctness. *)

LEMMA EmptyReplacement == [l \in {} |-> EmptyHref] \in PartialMaps
<1>1. [l \in {} |-> EmptyHref] \in [{} -> Hrefs]
  OBVIOUS
<1> QED
  BY <1>1 DEF PartialMaps

LEMMA TypeInit == Init => TypeOK
<1> SUFFICES ASSUME Init PROVE TypeOK
  OBVIOUS
<1>1. pceLabels \subseteq Labels /\ pceWklds \in Seq(Workloads)
  BY InputAssumption DEF Init
<1>2. csv \in Seq(Rows) /\ flags \in Flags
  BY InputAssumption DEF Init
<1>3. replacement \in PartialMaps
  BY EmptyReplacement DEF Init
<1>4. /\ phase \in Phases /\ loaded \subseteq Labels /\ newLabels \subseteq Labels
      /\ snap \in Seq(Workloads)
      /\ updates \in Seq(Updates) /\ creates \in Seq(Creates)
      /\ row \in Nat \ {0} /\ pos \in Nat \ {0} /\ faults \in Nat /\ runs \in Nat
      /\ answer \in {"unasked", "yes", "no"}
  BY DEF Init, Phases
<1>5. wrote \in BOOLEAN /\ clean \in BOOLEAN /\ settled \in BOOLEAN
  BY DEF Init
<1> QED
  BY <1>1, <1>2, <1>3, <1>4, <1>5 DEF TypeOK

\* The workloads of the map are workloads of the snapshot.
LEMMA MatchesType ==
  ASSUME NEW host
  PROVE  Matches(host) \subseteq DOMAIN snap
BY DEF Matches

LEMMA PlanExistingType ==
  ASSUME TypeOK, PlanExisting
  PROVE  TypeOK'
<1>1. PICK id \in Matches(csv[row].host) :
        LET L == snap[id].labels IN
        /\ newLabels' = newLabels \cup Placeholders(L, csv[row])
        /\ updates' = IF Changes(L, csv[row])
                      THEN Append(updates, [id |-> id,
                                            host |-> HostKey(snap[id]),
                                            labels |-> RowLabels(L, csv[row])])
                      ELSE updates
  BY DEF PlanExisting
<1>2. id \in Nat \ {0} /\ snap[id] \in Workloads
  BY MatchesType DEF TypeOK
<1>3. csv[row] \in Rows
  BY DEF PlanExisting, NextRow, TypeOK
<1>4. snap[id].labels \in LabelMaps
  BY <1>2 DEF Workloads
<1>5. newLabels' \subseteq Labels
  BY <1>1, <1>3, WantedType DEF Placeholders, TypeOK
<1>6. [id |-> id, host |-> HostKey(snap[id]),
       labels |-> RowLabels(snap[id].labels, csv[row])] \in Updates
  BY <1>2, <1>3, <1>4, HostKeyType, RowLabelsType DEF Updates
<1>7. updates' \in Seq(Updates)
  BY <1>1, <1>6 DEF TypeOK
<1> QED
  BY <1>5, <1>7
  DEF TypeOK, PlanExisting, NextRow, pce, input, view, track

LEMMA PlanUnmanagedType ==
  ASSUME TypeOK, PlanUnmanaged
  PROVE  TypeOK'
<1>1. csv[row] \in Rows
  BY DEF PlanUnmanaged, NextRow, TypeOK
<1>2. newLabels' \subseteq Labels
  BY <1>1, WantedType DEF Placeholders, PlanUnmanaged, TypeOK
<1>3. [host |-> csv[row].host, labels |-> RowLabels(NoLabels, csv[row])]
        \in Creates
  BY <1>1, NoLabelsType, RowLabelsType DEF Creates, Rows
<1>4. creates' \in Seq(Creates)
  BY <1>3 DEF PlanUnmanaged, TypeOK
<1> QED
  BY <1>2, <1>4
  DEF TypeOK, PlanUnmanaged, NextRow, pce, input, view, track

LEMMA PushUpdateType ==
  ASSUME TypeOK, PushUpdate
  PROVE  TypeOK'
<1> DEFINE u == updates[pos]
<1>1. u \in Updates
  BY DEF PushUpdate, Due, TypeOK
<1>2. ASSUME NEW i \in DOMAIN pceWklds
      PROVE  Updated(pceWklds[i], u) \in Workloads
  BY <1>1, UpdatedType DEF TypeOK
<1>3. pceWklds' \in Seq(Workloads)
  <2>1. CASE Accepted(u.labels)
    <3>1. pceWklds' = [pceWklds EXCEPT ![u.id] = Updated(@, u)]
      BY <2>1 DEF PushUpdate
    <3> HIDE DEF u
    <3>2. pceWklds' = [i \in DOMAIN pceWklds |->
                         IF i = u.id THEN Updated(pceWklds[i], u)
                                     ELSE pceWklds[i]]
      BY <3>1
    <3>3. pceWklds \in Seq(Workloads)
      BY DEF TypeOK
    <3> QED
      BY <1>2, <3>2, <3>3
  <2>2. CASE ~Accepted(u.labels)
    BY <2>2 DEF PushUpdate, TypeOK
  <2> QED
    BY <2>1, <2>2
<1>4. clean' \in BOOLEAN
  BY DEF PushUpdate, TypeOK
<1>5. wrote' \in BOOLEAN
  BY DEF PushUpdate
<1>6. pos' \in Nat \ {0}
  BY DEF PushUpdate, TypeOK
<1> QED
  BY <1>3, <1>4, <1>5, <1>6 DEF TypeOK, PushUpdate, input, view, plan, track

LEMMA PushCreateType ==
  ASSUME TypeOK, PushCreate
  PROVE  TypeOK'
<1> DEFINE c == creates[pos]
<1>1. c \in Creates
  BY DEF PushCreate, Due, TypeOK
<1>2. [host |-> c.host, managed |-> FALSE, labels |-> LabelsOf(c.labels)]
        \in Workloads
  BY <1>1, LabelsOfType DEF Workloads, Creates
<1>3. pceWklds' \in Seq(Workloads)
  <2>1. pceWklds \in Seq(Workloads)
    BY DEF TypeOK
  <2>2. \/ pceWklds' = pceWklds
        \/ pceWklds' = Append(pceWklds, [host |-> c.host, managed |-> FALSE,
                                         labels |-> LabelsOf(c.labels)])
    BY DEF PushCreate
  <2> HIDE DEF c
  <2> QED
    BY <1>2, <2>1, <2>2
<1>4. clean' \in BOOLEAN
  BY DEF PushCreate, TypeOK
<1>5. wrote' \in BOOLEAN
  BY DEF PushCreate
<1>6. pos' \in Nat \ {0}
  BY DEF PushCreate, TypeOK
<1> QED
  BY <1>3, <1>4, <1>5, <1>6 DEF TypeOK, PushCreate, input, view, plan, track

LEMMA CreateLabelType ==
  ASSUME TypeOK, NEW l \in Labels, CreateLabel(l) \/ CreateLabelFails(l)
  PROVE  TypeOK'
<1>1. RealHref(l) \in Hrefs /\ EmptyHref \in Hrefs
  BY DEF RealHref, EmptyHref, Hrefs
<1>2. CASE CreateLabel(l)
  <2>1. replacement' \in PartialMaps
    BY <1>1, <1>2, ReplacedType DEF CreateLabel, TypeOK
  <2> QED
    BY <1>2, <2>1 DEF CreateLabel, TypeOK, input, view, plan, track
<1>3. CASE CreateLabelFails(l)
  <2>1. replacement' \in PartialMaps
    BY <1>1, <1>3, ReplacedType DEF CreateLabelFails, TypeOK
  <2>2. phase' \in Phases
    BY <1>3 DEF CreateLabelFails, Fatal, TypeOK, Phases
  <2>3. faults' \in Nat
    BY <1>3 DEF CreateLabelFails, TypeOK
  <2>4. clean' \in BOOLEAN
    BY <1>3 DEF CreateLabelFails
  <2> QED
    BY <1>3, <2>1, <2>2, <2>3, <2>4
    DEF CreateLabelFails, TypeOK, pce, input, view, plan
<1> QED
  BY <1>2, <1>3

LEMMA AdminRelabelsType ==
  ASSUME TypeOK, NEW i \in DOMAIN pceWklds, NEW l \in Labels,
         AdminRelabels(i, l)
  PROVE  TypeOK'
<1>1. pceLabels' \subseteq Labels
  BY DEF AdminRelabels, TypeOK
<1>2. pceWklds' \in Seq(Workloads)
  <2>1. pceWklds \in Seq(Workloads)
    BY DEF TypeOK
  <2> DEFINE w == [pceWklds[i] EXCEPT !.labels[l[1]] = l[2]]
  <2>2. pceWklds[i] \in Workloads
    BY <2>1
  <2>3. w \in Workloads
    BY <2>2 DEF Workloads, LabelMaps, Labels
  <2>4. pceWklds' = [j \in DOMAIN pceWklds |-> IF j = i THEN w
                                               ELSE pceWklds[j]]
    BY <2>1 DEF AdminRelabels
  <2> HIDE DEF w
  <2> QED
    BY <2>1, <2>3, <2>4
<1>3. faults' \in Nat
  BY DEF AdminRelabels, Others, TypeOK
<1>4. clean' \in BOOLEAN /\ settled' \in BOOLEAN
  BY DEF AdminRelabels, Others
<1> QED
  BY <1>1, <1>2, <1>3, <1>4 DEF AdminRelabels, Others, TypeOK, input, view, plan

LEMMA AgentPairsType ==
  ASSUME TypeOK, NEW n \in Names, AgentPairs(n)
  PROVE  TypeOK'
<1>1. [host |-> n, managed |-> TRUE, labels |-> NoLabels] \in Workloads
  BY NoLabelsType DEF Workloads
<1>2. pceWklds' \in Seq(Workloads)
  BY <1>1 DEF AgentPairs, TypeOK
<1>3. faults' \in Nat
  BY DEF AgentPairs, Others, TypeOK
<1>4. clean' \in BOOLEAN /\ settled' \in BOOLEAN
  BY DEF AgentPairs, Others
<1> QED
  BY <1>2, <1>3, <1>4 DEF AgentPairs, Others, TypeOK, input, view, plan

LEMMA TypeStep == TypeOK /\ [Next]_vars => TypeOK'
<1> SUFFICES ASSUME TypeOK, [Next]_vars
             PROVE  TypeOK'
  OBVIOUS
<1> USE DEF Phases
<1>1. CASE Load
  BY <1>1 DEF TypeOK, Load, pce, input, plan, track
<1>2. CASE LoadRefused
  BY <1>2 DEF TypeOK, LoadRefused, Fatal, pce, input, view, plan, track
<1>3. CASE LoadFails
  <2>1. phase' \in Phases /\ loaded' \subseteq Labels
    BY <1>3 DEF TypeOK, LoadFails, Fatal
  <2>2. faults' \in Nat
    BY <1>3 DEF TypeOK, LoadFails
  <2>3. clean' \in BOOLEAN /\ settled' \in BOOLEAN
    BY <1>3 DEF LoadFails
  <2> QED
    BY <1>3, <2>1, <2>2, <2>3 DEF TypeOK, LoadFails, pce, input, plan
<1>4. CASE PlanExisting
  BY <1>4, PlanExistingType
<1>5. CASE PlanUnmanaged
  BY <1>5, PlanUnmanagedType
<1>6. CASE SkipRow
  BY <1>6 DEF TypeOK, SkipRow, NextRow, pce, input, view, plan, track
<1>7. CASE PlanDone
  BY <1>7 DEF TypeOK, PlanDone, pce, input, view, plan, track
<1>8. CASE NothingToDo
  BY <1>8 DEF TypeOK, NothingToDo, Decision, pce, input, view, plan, track
<1>9. CASE DryRun
  BY <1>9 DEF TypeOK, DryRun, Decision, pce, input, view, plan, track
<1>10. CASE Approve
  BY <1>10 DEF TypeOK, Approve, Decision, pce, input, view, plan, track
<1>11. CASE PromptDenied
  BY <1>11 DEF TypeOK, PromptDenied, Decision, pce, input, view, plan, track
<1>12. CASE \E l \in Labels : CreateLabel(l) \/ CreateLabelFails(l)
  BY <1>12, CreateLabelType
<1>13. CASE LabelsDone
  <2>1. updates' \in Seq(Updates) /\ creates' \in Seq(Creates)
    BY <1>13, ResolveAllType DEF TypeOK, LabelsDone
  <2> QED
    BY <1>13, <2>1 DEF TypeOK, LabelsDone, pce, input, view, track
<1>14. CASE PushUpdate
  BY <1>14, PushUpdateType
<1>15. CASE PushCreate
  BY <1>15, PushCreateType
<1>16. CASE BulkFails
  <2>1. phase' \in Phases /\ pos' \in Nat \ {0}
    BY <1>16 DEF TypeOK, BulkFails, Fatal
  <2>2. faults' \in Nat
    BY <1>16 DEF TypeOK, BulkFails
  <2>3. clean' \in BOOLEAN
    BY <1>16 DEF BulkFails
  <2> QED
    BY <1>16, <2>1, <2>2, <2>3 DEF TypeOK, BulkFails, pce, input, view, plan
<1>17. CASE LimitExceeded
  <2>1. phase' \in Phases
    BY <1>17 DEF TypeOK, LimitExceeded, Fatal
  <2>2. clean' \in BOOLEAN
    BY <1>17 DEF LimitExceeded
  <2> QED
    BY <1>17, <2>1, <2>2 DEF TypeOK, LimitExceeded, pce, input, view, plan, track
<1>18. CASE UpdatesDone
  BY <1>18 DEF TypeOK, UpdatesDone, pce, input, view, plan, track
<1>19. CASE Finish
  BY <1>19 DEF TypeOK, Finish, pce, input, view, plan, track
<1>20. CASE Crash
  BY <1>20 DEF TypeOK, Crash, pce, input, view, plan
<1>21. CASE Rerun
  <2>1. replacement' \in PartialMaps
    BY <1>21, EmptyReplacement DEF Rerun
  <2>2. wrote' \in BOOLEAN /\ clean' \in BOOLEAN
    BY <1>21 DEF Rerun
  <2>3. runs' \in Nat /\ row' \in Nat \ {0} /\ pos' \in Nat \ {0}
    BY <1>21 DEF TypeOK, Rerun
  <2>4. /\ phase' \in Phases /\ answer' \in {"unasked", "yes", "no"}
        /\ loaded' \subseteq Labels /\ newLabels' \subseteq Labels
        /\ snap' \in Seq(Workloads)
        /\ updates' \in Seq(Updates) /\ creates' \in Seq(Creates)
    BY <1>21 DEF Rerun
  <2> QED
    BY <1>21, <2>1, <2>2, <2>3, <2>4 DEF TypeOK, Rerun, pce, input
<1>22. CASE \E i \in DOMAIN pceWklds, l \in Labels : AdminRelabels(i, l)
  BY <1>22, AdminRelabelsType
<1>23. CASE \E n \in Names : AgentPairs(n)
  BY <1>23, AgentPairsType
<1>24. CASE UNCHANGED vars
  BY <1>24 DEF TypeOK, vars, pce, input, view, plan, track
<1> QED
  BY <1>1, <1>2, <1>3, <1>4, <1>5, <1>6, <1>7, <1>8, <1>9, <1>10, <1>11, <1>12,
     <1>13, <1>14, <1>15, <1>16, <1>17, <1>18, <1>19, <1>20, <1>21, <1>22,
     <1>23, <1>24 DEF Next, RunStep

\* TypeOK holds in every state of the specification.
THEOREM Typing == Spec => []TypeOK
<1> QED
  BY TypeInit, TypeStep, PTL DEF Spec

-----------------------------------------------------------------------------
(* What is pushed names labels that exist. *)

LEMMA InvInit == Init => IInv
<1> SUFFICES ASSUME Init PROVE IInv
  OBVIOUS
<1>1. TypeOK
  BY TypeInit
<1>2. WornLabelsExist
  BY InputAssumption DEF Init, WornLabelsExist
<1>3. PlannedLabelsKnown
  BY DEF Init, PlannedLabelsKnown
<1>4. ReplacementsExist
  BY DEF Init, ReplacementsExist
<1>5. PushedLabelsExist
  BY DEF Init, PushedLabelsExist
<1>6. RunInv
  BY DEF Init, RunInv, Stages, Undisturbed
<1>7. SettledInv
  BY Zenon DEF Init, SettledInv
<1> QED
  BY <1>1, <1>2, <1>3, <1>4, <1>5, <1>6, <1>7 DEF IInv

\* No action deletes a label.
LEMMA LabelsGrow == [Next]_vars => pceLabels \subseteq pceLabels'
BY DEF Next, RunStep, vars, pce, Load, LoadRefused, LoadFails, PlanExisting,
       PlanUnmanaged, SkipRow, NextRow, PlanDone, NothingToDo, DryRun, Approve,
       PromptDenied, Decision, CreateLabel, CreateLabelFails, LabelsDone,
       PushUpdate, PushCreate, BulkFails, LimitExceeded, UpdatesDone, Finish,
       Crash, Rerun, AdminRelabels, AgentPairs

\* A pushed payload leaves a workload with labels that exist.
LEMMA PushedWorn ==
  ASSUME TypeOK, NEW hrefs,
         \A h \in hrefs : h # EmptyHref => ~h.temp /\ h.label \in pceLabels
  PROVE  Worn(LabelsOf(hrefs)) \subseteq pceLabels
<1> SUFFICES ASSUME NEW d \in Dims, LabelsOf(hrefs)[d] # None
             PROVE  <<d, LabelsOf(hrefs)[d]>> \in pceLabels
  BY DEF Worn
<1> DEFINE v == LabelsOf(hrefs)[d]
<1>1. v \in Values /\ RealHref(<<d, v>>) \in hrefs
  BY DEF LabelsOf
<1>2. RealHref(<<d, v>>) # EmptyHref
  BY <1>1, DataAssumption DEF RealHref, EmptyHref, Labels
<1>3. RealHref(<<d, v>>).label = <<d, v>>
  BY DEF RealHref
<1> HIDE DEF v
<1>4. <<d, v>> \in pceLabels
  BY <1>1, <1>2, <1>3
<1> QED
  BY <1>4 DEF v

LEMMA PayloadMembers ==
  /\ \A i \in DOMAIN updates : updates[i].labels \in Payloads
  /\ \A i \in DOMAIN creates : creates[i].labels \in Payloads
BY DEF Payloads

LEMMA NoLabelsWorn == Worn(NoLabels) = {}
BY DEF Worn, NoLabels

LEMMA WornStep == IInv /\ [Next]_vars => WornLabelsExist'
<1> SUFFICES ASSUME IInv, [Next]_vars
             PROVE  WornLabelsExist'
  OBVIOUS
<1> DEFINE Exist(ws) == \A i \in DOMAIN ws : Worn(ws[i].labels) \subseteq pceLabels
<1>1. /\ TypeOK /\ loaded \subseteq pceLabels
      /\ Exist(pceWklds) /\ Exist(snap)
      /\ pceLabels \subseteq pceLabels'
  BY LabelsGrow DEF IInv, WornLabelsExist
<1>2. CASE Load \/ LoadFails \/ Rerun
  BY <1>1, <1>2 DEF Load, LoadFails, Rerun, pce, WornLabelsExist
<1>3. CASE PushUpdate
  <2> DEFINE u == updates[pos]
  <2>1. u \in Updates /\ pos \in DOMAIN updates /\ phase = "update"
    BY <1>1, <1>3 DEF PushUpdate, Due, TypeOK
  <2>2. \A h \in u.labels : h # EmptyHref => ~h.temp /\ h.label \in pceLabels
    <3>1. u.labels \in Payloads
      BY <2>1, PayloadMembers
    <3>2. PushedLabelsExist
      BY DEF IInv
    <3> HIDE DEF u
    <3> QED
      BY <2>1, <3>1, <3>2 DEF PushedLabelsExist
  <2>3. Worn(LabelsOf(u.labels)) \subseteq pceLabels
    BY <1>1, <2>2, PushedWorn
  <2>4. \A w \in Workloads : Updated(w, u).labels = LabelsOf(u.labels)
    BY DEF Updated, Workloads
  <2>5. pceLabels' = pceLabels /\ UNCHANGED <<loaded, snap>>
    BY <1>3 DEF PushUpdate, view
  <2>6. \A i \in DOMAIN pceWklds : pceWklds[i] \in Workloads
    BY <1>1 DEF TypeOK
  <2>7. \/ pceWklds' = pceWklds
        \/ pceWklds' = [i \in DOMAIN pceWklds |->
                          IF i = u.id THEN Updated(pceWklds[i], u)
                                      ELSE pceWklds[i]]
    <3>1. \/ pceWklds' = pceWklds
          \/ pceWklds' = [pceWklds EXCEPT ![u.id] = Updated(@, u)]
      BY <1>3 DEF PushUpdate
    <3> HIDE DEF u
    <3> QED
      BY <1>1, <3>1 DEF TypeOK
  <2> HIDE DEF u
  <2>8. \A i \in DOMAIN pceWklds' : Worn(pceWklds'[i].labels) \subseteq pceLabels
    BY <1>1, <2>3, <2>4, <2>6, <2>7
  <2> QED
    BY <1>1, <2>5, <2>8 DEF WornLabelsExist
<1>4. CASE PushCreate
  <2> DEFINE c == creates[pos]
             w == [host |-> c.host, managed |-> FALSE,
                   labels |-> LabelsOf(c.labels)]
  <2>1. pos \in DOMAIN creates /\ phase = "create"
    BY <1>4 DEF PushCreate, Due
  <2>2. \A h \in c.labels : h # EmptyHref => ~h.temp /\ h.label \in pceLabels
    <3>1. c.labels \in Payloads
      BY <2>1, PayloadMembers
    <3>2. PushedLabelsExist
      BY DEF IInv
    <3> HIDE DEF c
    <3> QED
      BY <2>1, <3>1, <3>2 DEF PushedLabelsExist
  <2>3. Worn(w.labels) \subseteq pceLabels
    BY <1>1, <2>2, PushedWorn
  <2>4. pceWklds' = pceWklds \/ pceWklds' = Append(pceWklds, w)
    BY <1>4 DEF PushCreate
  <2>5. pceLabels' = pceLabels /\ UNCHANGED <<loaded, snap>>
    BY <1>4 DEF PushCreate, view
  <2>6. pceWklds \in Seq(Workloads)
    BY <1>1 DEF TypeOK
  <2> HIDE DEF w
  <2>7. \A i \in DOMAIN pceWklds' : Worn(pceWklds'[i].labels) \subseteq pceLabels
    BY <1>1, <2>3, <2>4, <2>6
  <2> QED
    BY <1>1, <2>5, <2>7 DEF WornLabelsExist
<1>5. CASE \E i \in DOMAIN pceWklds, l \in Labels : AdminRelabels(i, l)
  <2>1. PICK i \in DOMAIN pceWklds, l \in Labels : AdminRelabels(i, l)
    BY <1>5
  <2>2. pceLabels' = pceLabels \cup {l} /\ UNCHANGED <<loaded, snap>>
    BY <2>1 DEF AdminRelabels, Others, view
  <2> DEFINE M == [pceWklds[i].labels EXCEPT ![l[1]] = l[2]]
  <2>3. pceWklds[i] \in Workloads
    BY <1>1 DEF TypeOK
  <2>4. Worn(M) \subseteq Worn(pceWklds[i].labels) \cup {l}
    BY <2>3 DEF Worn, Workloads, LabelMaps, Labels
  <2>5. \A j \in DOMAIN pceWklds' :
          pceWklds'[j].labels = IF j = i THEN M ELSE pceWklds[j].labels
    BY <2>1, <2>3 DEF AdminRelabels, Workloads
  <2>6. DOMAIN pceWklds' = DOMAIN pceWklds
    BY <2>1 DEF AdminRelabels
  <2> HIDE DEF M
  <2>7. \A j \in DOMAIN pceWklds' :
          Worn(pceWklds'[j].labels) \subseteq pceLabels'
    BY <1>1, <2>2, <2>4, <2>5, <2>6
  <2> QED
    BY <1>1, <2>2, <2>7 DEF WornLabelsExist
<1>6. CASE \E n \in Names : AgentPairs(n)
  <2>1. PICK n \in Names : AgentPairs(n)
    BY <1>6
  <2> DEFINE w == [host |-> n, managed |-> TRUE, labels |-> NoLabels]
  <2>2. pceWklds' = Append(pceWklds, w) /\ UNCHANGED <<pceLabels, loaded, snap>>
    BY <2>1 DEF AgentPairs, Others, view
  <2>3. Worn(w.labels) = {}
    BY NoLabelsWorn
  <2>4. pceWklds \in Seq(Workloads)
    BY <1>1 DEF TypeOK
  <2> HIDE DEF w
  <2>5. \A i \in DOMAIN pceWklds' : Worn(pceWklds'[i].labels) \subseteq pceLabels
    BY <1>1, <2>2, <2>3, <2>4
  <2> QED
    BY <1>1, <2>2, <2>5 DEF WornLabelsExist
<1>7. CASE UNCHANGED <<pceWklds, loaded, snap>>
  BY <1>1, <1>7 DEF WornLabelsExist
<1> QED
  BY <1>2, <1>3, <1>4, <1>5, <1>6, <1>7
  DEF Next, RunStep, vars, pce, view, LoadRefused, PlanExisting,
       PlanUnmanaged, SkipRow, NextRow, PlanDone, NothingToDo, DryRun, Approve,
       PromptDenied, Decision, CreateLabel, CreateLabelFails, LabelsDone,
       BulkFails, LimitExceeded, UpdatesDone, Finish, Crash

\* What a row plans is known: real hrefs exist, placeholders are collected.
LEMMA RowPlanned ==
  ASSUME loaded \subseteq pceLabels,
         NEW L \in LabelMaps, Worn(L) \subseteq pceLabels,
         NEW r, Placeholders(L, r) \subseteq newLabels'
  PROVE  \A h \in RowLabels(L, r) : IF h.temp THEN h.label \in newLabels'
                                              ELSE h.label \in pceLabels
<1>1. \A l \in Kept(L, r) : ~RealHref(l).temp /\ RealHref(l).label \in pceLabels
  BY DEF Kept, RealHref
<1>2. ASSUME NEW l \in Wanted(L, r)
      PROVE  IF checkLabel(l).temp THEN checkLabel(l).label \in newLabels'
                                   ELSE checkLabel(l).label \in pceLabels
  <2>1. CASE l \in loaded
    BY <2>1 DEF checkLabel
  <2>2. CASE l \notin loaded
    BY <1>2, <2>2 DEF checkLabel, Placeholders
  <2> QED
    BY <2>1, <2>2
<1> QED
  BY <1>1, <1>2 DEF RowLabels

LEMMA PlannedStep == IInv /\ [Next]_vars => PlannedLabelsKnown'
<1> SUFFICES ASSUME IInv, [Next]_vars
             PROVE  PlannedLabelsKnown'
  OBVIOUS
<1>1. TypeOK /\ WornLabelsExist /\ PlannedLabelsKnown /\ pceLabels \subseteq pceLabels'
  BY LabelsGrow DEF IInv
<1>2. CASE PlanExisting
  <2>1. PICK id \in Matches(csv[row].host) :
          LET L == snap[id].labels IN
          /\ newLabels' = newLabels \cup Placeholders(L, csv[row])
          /\ updates' = IF Changes(L, csv[row])
                        THEN Append(updates, [id |-> id,
                                              host |-> HostKey(snap[id]),
                                              labels |-> RowLabels(L, csv[row])])
                        ELSE updates
    BY <1>2 DEF PlanExisting
  <2> DEFINE L == snap[id].labels
             H == RowLabels(L, csv[row])
  <2>2. id \in DOMAIN snap /\ snap[id] \in Workloads
    BY <1>1, MatchesType DEF TypeOK
  <2>3. L \in LabelMaps /\ Worn(L) \subseteq pceLabels
    BY <1>1, <2>2 DEF Workloads, WornLabelsExist
  <2>4. \A h \in H : IF h.temp THEN h.label \in newLabels'
                               ELSE h.label \in pceLabels
    BY <1>1, <2>1, <2>3, RowPlanned DEF WornLabelsExist
  <2>5. /\ phase = "plan" /\ creates' = creates /\ pceLabels' = pceLabels
        /\ newLabels \subseteq newLabels' /\ updates \in Seq(Updates)
    BY <1>1, <1>2, <2>1 DEF PlanExisting, NextRow, pce, TypeOK
  <2>6. updates' = updates
          \/ updates' = Append(updates, [id |-> id, host |-> HostKey(snap[id]),
                                         labels |-> H])
    BY <2>1
  <2> HIDE DEF L, H
  <2>7. \A i \in DOMAIN updates : Planned(updates[i].labels)
    BY <1>1, <2>5 DEF PlannedLabelsKnown
  <2>8. \A i \in DOMAIN creates : Planned(creates[i].labels)
    BY <1>1, <2>5 DEF PlannedLabelsKnown
  <2>9. (\A i \in DOMAIN updates : Planned(updates[i].labels))'
    BY <2>4, <2>5, <2>6, <2>7 DEF Planned
  <2>10. (\A i \in DOMAIN creates : Planned(creates[i].labels))'
    BY <2>5, <2>8 DEF Planned
  <2> QED
    BY <2>9, <2>10 DEF PlannedLabelsKnown
<1>3. CASE PlanUnmanaged
  <2> DEFINE H == RowLabels(NoLabels, csv[row])
  <2>1. \A h \in H : IF h.temp THEN h.label \in newLabels'
                               ELSE h.label \in pceLabels
    BY <1>1, <1>3, RowPlanned, NoLabelsType, NoLabelsWorn
    DEF PlanUnmanaged, WornLabelsExist
  <2>2. /\ phase = "plan" /\ updates' = updates /\ pceLabels' = pceLabels
        /\ newLabels \subseteq newLabels' /\ creates \in Seq(Creates)
        /\ creates' = Append(creates, [host |-> csv[row].host, labels |-> H])
    BY <1>1, <1>3 DEF PlanUnmanaged, NextRow, pce, TypeOK
  <2> HIDE DEF H
  <2>3. \A i \in DOMAIN updates : Planned(updates[i].labels)
    BY <1>1, <2>2 DEF PlannedLabelsKnown
  <2>4. \A i \in DOMAIN creates : Planned(creates[i].labels)
    BY <1>1, <2>2 DEF PlannedLabelsKnown
  <2>5. (\A i \in DOMAIN updates : Planned(updates[i].labels))'
    BY <2>2, <2>3 DEF Planned
  <2>6. (\A i \in DOMAIN creates : Planned(creates[i].labels))'
    BY <2>1, <2>2, <2>4 DEF Planned
  <2> QED
    BY <2>5, <2>6 DEF PlannedLabelsKnown
<1>4. CASE Rerun
  BY <1>4 DEF Rerun, PlannedLabelsKnown
<1>5. CASE phase' \notin {"load", "plan", "decide", "labels"}
  BY <1>5 DEF PlannedLabelsKnown
<1>6. CASE /\ phase \in {"load", "plan", "decide", "labels"}
           /\ UNCHANGED plan
  <2>1. /\ \A i \in DOMAIN updates : Planned(updates[i].labels)
        /\ \A i \in DOMAIN creates : Planned(creates[i].labels)
    BY <1>1, <1>6 DEF PlannedLabelsKnown
  <2>2. \A hrefs : Planned(hrefs) => Planned(hrefs)'
    BY <1>1, <1>6 DEF Planned, plan
  <2> QED
    BY <1>6, <2>1, <2>2 DEF PlannedLabelsKnown, plan
<1>7. CASE UNCHANGED <<pceLabels, phase, plan>>
  BY <1>1, <1>7 DEF PlannedLabelsKnown, Planned, plan
<1> QED
  BY <1>1, <1>2, <1>3, <1>4, <1>5, <1>6, <1>7
  DEF Next, RunStep, vars, pce, Load, LoadRefused, LoadFails, SkipRow, NextRow,
      PlanDone, NothingToDo, DryRun, Approve, PromptDenied, Decision,
      CreateLabel, CreateLabelFails, Fatal, LabelsDone, PushUpdate, PushCreate,
      Due, BulkFails, LimitExceeded, UpdatesDone, Finish, Crash, Running,
      AdminRelabels, AgentPairs, Others, TypeOK, Phases

LEMMA ReplacementsStep == IInv /\ [Next]_vars => ReplacementsExist'
<1> SUFFICES ASSUME IInv, [Next]_vars
             PROVE  ReplacementsExist'
  OBVIOUS
<1>1. ReplacementsExist /\ pceLabels \subseteq pceLabels'
  BY LabelsGrow DEF IInv
<1>2. CASE \E l \in Labels : CreateLabel(l) \/ CreateLabelFails(l)
  BY <1>1, <1>2
  DEF CreateLabel, CreateLabelFails, Fatal, Replaced, ReplacementsExist, pce,
      input
<1>3. CASE Rerun
  BY <1>3 DEF Rerun, ReplacementsExist
<1>4. CASE UNCHANGED <<replacement, flags>>
  BY <1>1, <1>4 DEF ReplacementsExist, RealHref, EmptyHref
<1> QED
  BY <1>2, <1>3, <1>4
  DEF Next, RunStep, vars, input, Load, LoadRefused, LoadFails, PlanExisting,
      PlanUnmanaged, SkipRow, NextRow, PlanDone, NothingToDo, DryRun, Approve,
      PromptDenied, Decision, LabelsDone, PushUpdate, PushCreate, BulkFails,
      LimitExceeded, UpdatesDone, Finish, Crash, AdminRelabels, AgentPairs,
      Others

\* A planned href resolves to a label that exists, or to an empty href.
LEMMA ResolveExists ==
  ASSUME ReplacementsExist, Pending = {}, NEW h \in Hrefs,
         IF h.temp THEN h.label \in newLabels ELSE h.label \in pceLabels
  PROVE  \/ Resolve(h) = EmptyHref /\ flags.continueOnError
         \/ ~Resolve(h).temp /\ Resolve(h).label \in pceLabels
<1>1. CASE ~h.temp
  BY <1>1 DEF Resolve
<1>2. CASE h.temp
  <2>1. h.label \in DOMAIN replacement
    BY <1>2 DEF Pending
  <2> QED
    BY <1>2, <2>1 DEF Resolve, ReplacementsExist, RealHref
<1> QED
  BY <1>1, <1>2

LEMMA PushedStep == IInv /\ [Next]_vars => PushedLabelsExist'
<1> SUFFICES ASSUME IInv, [Next]_vars
             PROVE  PushedLabelsExist'
  OBVIOUS
<1>1. TypeOK /\ PushedLabelsExist /\ pceLabels \subseteq pceLabels'
  BY LabelsGrow DEF IInv
<1>2. CASE LabelsDone
  <2>1. /\ phase = "labels" /\ Pending = {}
        /\ updates' = ResolveAll(updates) /\ creates' = ResolveAll(creates)
        /\ UNCHANGED <<pceLabels, flags>>
    BY <1>2 DEF LabelsDone, pce, input
  <2>2. ReplacementsExist /\ PlannedLabelsKnown
    BY DEF IInv
  <2> DEFINE Fine(h) == \/ h = EmptyHref /\ flags.continueOnError
                        \/ ~h.temp /\ h.label \in pceLabels
  <2>3. ASSUME NEW list \in Seq(Updates) \cup Seq(Creates),
               \A i \in DOMAIN list : Planned(list[i].labels),
               NEW i \in DOMAIN list
        PROVE  \A h \in ResolveAll(list)[i].labels : Fine(h)
    <3>1. list[i].labels \subseteq Hrefs /\ list[i] \in Updates \cup Creates
      <4>1. list[i] \in Updates \cup Creates
        BY <2>3
      <4> QED
        BY <4>1 DEF Updates, Creates
    <3>2. \A h \in list[i].labels : Fine(Resolve(h))
      BY <2>1, <2>2, <2>3, <3>1, ResolveExists DEF Planned
    <3>3. ResolveAll(list)[i].labels = {Resolve(h) : h \in list[i].labels}
      <4>1. ResolveAll(list)[i] =
              [list[i] EXCEPT !.labels = {Resolve(h) : h \in list[i].labels}]
        BY DEF ResolveAll
      <4>2. CASE list[i] \in Updates
        BY <4>1, <4>2 DEF Updates
      <4>3. CASE list[i] \in Creates
        BY <4>1, <4>3 DEF Creates
      <4> QED
        BY <3>1, <4>2, <4>3
    <3> HIDE DEF Fine
    <3> QED
      BY <3>2, <3>3
  <2>4. /\ \A i \in DOMAIN updates : Planned(updates[i].labels)
        /\ \A i \in DOMAIN creates : Planned(creates[i].labels)
        /\ updates \in Seq(Updates) /\ creates \in Seq(Creates)
    BY <1>1, <2>1, <2>2 DEF PlannedLabelsKnown, TypeOK
  <2>5. /\ DOMAIN ResolveAll(updates) = DOMAIN updates
        /\ DOMAIN ResolveAll(creates) = DOMAIN creates
    BY DEF ResolveAll
  <2> HIDE DEF Fine
  <2>6. \A hrefs \in Payloads' : \A h \in hrefs : Fine(h)
    BY <2>1, <2>3, <2>4, <2>5 DEF Payloads
  <2> QED
    BY <2>1, <2>6 DEF PushedLabelsExist, Fine
<1>3. CASE phase' \notin {"update", "create"}
  BY <1>3 DEF PushedLabelsExist
<1>4. CASE phase \in {"update", "create"} /\ UNCHANGED <<updates, creates, flags>>
  <2>1. Payloads' = Payloads
    BY <1>4 DEF Payloads
  <2> QED
    BY <1>1, <1>4, <2>1 DEF PushedLabelsExist
<1> QED
  BY <1>1, <1>2, <1>3, <1>4
  DEF Next, RunStep, vars, plan, input, Load, LoadRefused, LoadFails,
      PlanExisting, PlanUnmanaged, SkipRow, NextRow, PlanDone, NothingToDo,
      DryRun, Approve, PromptDenied, Decision, CreateLabel, CreateLabelFails,
      Fatal, PushUpdate, PushCreate, Due, BulkFails, LimitExceeded, UpdatesDone,
      Finish, Crash, Running, Rerun, AdminRelabels, AgentPairs, Others, TypeOK,
      Phases

-----------------------------------------------------------------------------
(* What an undisturbed run does to the labels of a workload. *)

\* The labels a row makes of the labels L.
After(L, r) ==
  [d \in Dims |-> IF d \notin DOMAIN r.cells \/ r.cells[d] = Blank THEN L[d]
                  ELSE IF r.cells[d] = Remove THEN None
                  ELSE r.cells[d]]

LEMMA CellsType ==
  ASSUME NEW r \in Rows
  PROVE  /\ DOMAIN r.cells \subseteq Dims
         /\ \A d \in DOMAIN r.cells : r.cells[d] \in Values \cup {Blank, Remove}
BY DEF Rows, Cells

LEMMA AfterType ==
  ASSUME NEW L \in LabelMaps, NEW r \in Rows
  PROVE  After(L, r) \in LabelMaps
BY CellsType DEF After, LabelMaps

LEMMA TargetIsAfter ==
  ASSUME NEW L \in LabelMaps, NEW r \in Rows, NEW d \in Dims, NEW v \in Values
  PROVE  <<d, v>> \in Target(L, r) <=> v = After(L, r)[d]
<1>1. <<d, v>> \in Worn(L) <=> v = L[d]
  BY DataAssumption DEF Worn, LabelMaps
<1>2. <<d, v>> \in Kept(L, r) <=>
        v = L[d] /\ (d \in DOMAIN r.cells => r.cells[d] \in {Blank, v})
  BY <1>1 DEF Kept
<1>3. <<d, v>> \in Wanted(L, r) <=>
        d \in DOMAIN r.cells /\ r.cells[d] = v /\ v # L[d]
  BY DEF Wanted
<1>4. After(L, r)[d] = IF d \notin DOMAIN r.cells \/ r.cells[d] = Blank THEN L[d]
                       ELSE IF r.cells[d] = Remove THEN None
                       ELSE r.cells[d]
  BY DEF After
<1> QED
  BY <1>2, <1>3, <1>4, CellsType, DataAssumption DEF Target

\* An undisturbed payload says what the row makes of the labels.
LEMMA PayloadLabels ==
  ASSUME NEW L \in LabelMaps, NEW r \in Rows, NEW hrefs \in SUBSET Hrefs,
         \A h \in hrefs : ~h.temp, Meant(hrefs) = Target(L, r)
  PROVE  LabelsOf(hrefs) = After(L, r)
<1>1. ASSUME NEW d \in Dims, NEW v \in Values
      PROVE  RealHref(<<d, v>>) \in hrefs <=> v = After(L, r)[d]
  <2>1. RealHref(<<d, v>>) \in hrefs <=> <<d, v>> \in Meant(hrefs)
    <3>1. ASSUME NEW h \in hrefs, h.label = <<d, v>>
          PROVE  h = RealHref(<<d, v>>)
      BY <3>1 DEF Hrefs, RealHref
    <3>2. RealHref(<<d, v>>).label = <<d, v>>
      BY DEF RealHref
    <3> QED
      BY <3>1, <3>2 DEF Meant
  <2> QED
    BY <2>1, TargetIsAfter
<1>2. ASSUME NEW d \in Dims
      PROVE  LabelsOf(hrefs)[d] = After(L, r)[d]
  <2>1. After(L, r)[d] \in Values \cup {None}
    BY AfterType DEF LabelMaps
  <2>2. LabelsOf(hrefs)[d] =
          IF \E v \in Values : RealHref(<<d, v>>) \in hrefs
          THEN CHOOSE v \in Values : RealHref(<<d, v>>) \in hrefs
          ELSE None
    BY DEF LabelsOf
  <2>3. CASE After(L, r)[d] = None
    BY <1>1, <2>2, <2>3, DataAssumption
  <2>4. CASE After(L, r)[d] \in Values
    <3> DEFINE w == CHOOSE v \in Values : RealHref(<<d, v>>) \in hrefs
    <3>1. \E v \in Values : RealHref(<<d, v>>) \in hrefs
      BY <1>1, <2>4
    <3>2. w \in Values /\ RealHref(<<d, w>>) \in hrefs
      BY <3>1
    <3>3. LabelsOf(hrefs)[d] = w
      BY <2>2, <3>1
    <3> HIDE DEF w
    <3> QED
      BY <1>1, <3>2, <3>3
  <2> QED
    BY <2>1, <2>3, <2>4
<1> QED
  BY <1>2, AfterType, LabelsOfType DEF LabelMaps

LEMMA AfterHolds ==
  ASSUME NEW L \in LabelMaps, NEW r \in Rows
  PROVE  RowHolds(After(L, r), r)
BY CellsType, DataAssumption DEF After, RowHolds

\* A row changes a workload exactly when it is not in force there.
LEMMA ChangesUnlessHolds ==
  ASSUME NEW L \in LabelMaps, NEW r \in Rows
  PROVE  Changes(L, r) <=> flags.update /\ ~RowHolds(L, r)
<1>1. Wanted(L, r) = {} <=>
        \A d \in DOMAIN r.cells : r.cells[d] \in Values => L[d] = r.cells[d]
  BY DEF Wanted
<1>2. Removed(L, r) = {} <=>
        \A d \in DOMAIN r.cells : r.cells[d] = Remove => L[d] = None
  <2>1. \A d \in Dims : L[d] # None =>
          (<<d, L[d]>> \in Removed(L, r) <=>
             d \in DOMAIN r.cells /\ r.cells[d] = Remove)
    BY DEF Removed, Worn
  <2>2. \A l \in Removed(L, r) : \E d \in Dims : L[d] # None /\ l = <<d, L[d]>>
    BY DEF Removed, Worn
  <2> QED
    BY <2>1, <2>2, CellsType
<1> QED
  BY <1>1, <1>2 DEF Changes, RowHolds

LEMMA RowLabelsMean ==
  ASSUME NEW L, NEW r
  PROVE  Meant(RowLabels(L, r)) = Target(L, r)
<1> DEFINE A == {RealHref(l) : l \in Kept(L, r)}
           B == {checkLabel(l) : l \in Wanted(L, r)}
<1>1. \A l : RealHref(l).label = l /\ checkLabel(l).label = l
  BY DEF RealHref, checkLabel
<1>2. {h.label : h \in A} = Kept(L, r)
  BY <1>1
<1>3. {h.label : h \in B} = Wanted(L, r)
  BY <1>1
<1>4. RowLabels(L, r) = A \cup B
  BY DEF RowLabels
<1> HIDE DEF A, B
<1> QED
  BY <1>2, <1>3, <1>4 DEF Meant, Target

\* The last of a set of places in a list.
LEMMA LastPlace ==
  ASSUME NEW n \in Nat, NEW C \in SUBSET (1..n), C # {}
  PROVE  \E i \in C : \A j \in C : j <= i
<1> DEFINE Above(i) == {j \in C : j > i}
           W == {Above(i) : i \in C}
<1>0. \A i \in C : i \in Nat
  OBVIOUS
<1>1. IsFiniteSet(C)
  <2>1. IsFiniteSet(1..n)
    BY FS_Interval
  <2> QED
    BY <2>1, FS_Subset
<1>2. IsWellFoundedOn(StrictSubsetOrdering(C), FiniteSubsetsOf(C))
  BY <1>1, FS_StrictSubsetOrderingWellFounded
<1>3. W \subseteq FiniteSubsetsOf(C) /\ W # {}
  <2>1. \A i \in C : Above(i) \subseteq C
    OBVIOUS
  <2>2. \A i \in C : IsFiniteSet(Above(i))
    BY <1>1, <2>1, FS_Subset
  <2> QED
    BY <2>1, <2>2 DEF FiniteSubsetsOf
<1>4. PICK S \in W : \A R \in W : ~ (<<R, S>> \in StrictSubsetOrdering(C))
  <2> HIDE DEF W
  <2> QED
    BY <1>2, <1>3, WFMin
<1>5. PICK i \in C : S = Above(i)
  BY <1>4
<1>6. ASSUME NEW j \in C, j > i PROVE FALSE
  <2> HIDE DEF W
  <2>1. Above(j) \subseteq Above(i) /\ j \in Above(i) /\ j \notin Above(j)
    <3>1. i \in Nat /\ j \in Nat
      BY <1>0
    <3>2. \A k \in C : k > j => k > i
      BY <1>0, <1>6, <3>1
    <3>3. ~ (j > j)
      BY <3>1
    <3> QED
      BY <1>6, <3>2, <3>3
  <2> USE DEF W
  <2>2. Above(j) \in W /\ Above(j) \subseteq C /\ Above(i) \subseteq C
    OBVIOUS
  <2>3. <<Above(j), Above(i)>> \in StrictSubsetOrdering(C)
    <3> HIDE DEF Above, W
    <3> QED
      BY <2>1, <2>2 DEF StrictSubsetOrdering
  <2> QED
    BY <1>4, <1>5, <2>2, <2>3
<1> QED
  BY <1>0, <1>6

\* A hostname without a match is the hostname of no workload of the map.
LEMMA Unmatched ==
  ASSUME TypeOK, NEW host, Matches(host) = {}
  PROVE  \A i \in DOMAIN snap : ~(InMap(snap[i]) /\ HostKey(snap[i]) = host)
<1> DEFINE C == {i \in DOMAIN snap : InMap(snap[i]) /\ HostKey(snap[i]) = host}
<1>1. C \in SUBSET (1..Len(snap)) /\ Len(snap) \in Nat
  BY DEF TypeOK
<1>2. ~ \E i \in C : \A j \in C : j <= i
  BY DEF Matches
<1>3. C = {}
  <2> HIDE DEF C
  <2> QED
    BY <1>1, <1>2, LastPlace
<1> QED
  BY <1>3

LEMMA MatchesOne ==
  ASSUME TypeOK, NEW host, NEW i \in Matches(host)
  PROVE  /\ i \in DOMAIN snap /\ InMap(snap[i]) /\ HostKey(snap[i]) = host
         /\ \A j \in DOMAIN snap : InMap(snap[j]) /\ HostKey(snap[j]) = host
                                     => j <= i
         /\ Matches(host) = {i}
BY DEF Matches, TypeOK

-----------------------------------------------------------------------------
(* The plan of an undisturbed run follows the rows, and the PCE the plan. *)

\* The file and the flags are the same in every run.
LEMMA InputKept == [Next]_vars => UNCHANGED <<csv, flags>>
BY DEF Next, RunStep, vars, input, Load, LoadRefused, LoadFails, PlanExisting,
       PlanUnmanaged, SkipRow, NextRow, PlanDone, NothingToDo, DryRun, Approve,
       PromptDenied, Decision, CreateLabel, CreateLabelFails, LabelsDone,
       PushUpdate, PushCreate, BulkFails, LimitExceeded, UpdatesDone, Finish,
       Crash, Rerun, AdminRelabels, AgentPairs, Others

LEMMA StagesStep == IInv /\ [Next]_vars => Stages'
<1> SUFFICES ASSUME IInv, [Next]_vars
             PROVE  Stages'
  OBVIOUS
<1>1. Stages /\ TypeOK
  BY DEF IInv, RunInv
<1>2. CASE Rerun
  BY <1>2 DEF Rerun, Stages
<1>3. CASE PlanExisting \/ PlanUnmanaged \/ SkipRow
  BY <1>1, <1>3
  DEF PlanExisting, PlanUnmanaged, SkipRow, NextRow, Stages, pce, input, view
<1>4. CASE PlanDone
  BY <1>1, <1>4 DEF PlanDone, Stages, TypeOK, pce, input, view, plan
<1>5. CASE Load \/ LoadFails
  BY <1>1, <1>5 DEF Load, LoadFails, Fatal, Stages, pce, input, plan
<1>6. CASE /\ UNCHANGED <<csv, row>>
           /\ \/ phase' \in {"ended", "dead"}
              \/ /\ phase' = "labels" /\ UNCHANGED pos
                 /\ phase \in {"decide", "labels"}
              \/ /\ phase' \in {"update", "create"}
                 /\ phase \in {"labels", "update", "create"}
              \/ UNCHANGED <<phase, pos, updates, creates, replacement>>
  BY <1>1, <1>6 DEF Stages
<1> QED
  BY <1>1, <1>2, <1>3, <1>4, <1>5, <1>6
  DEF Next, RunStep, vars, input, plan, LoadRefused, NothingToDo, DryRun,
      Approve, PromptDenied, Decision, CreateLabel, CreateLabelFails, Fatal,
      LabelsDone, PushUpdate, PushCreate, Due, BulkFails, LimitExceeded,
      UpdatesDone, Finish, Crash, AdminRelabels, AgentPairs, Others, Stages

\* The plan is read through the snapshot, the rows and the flags only.
LEMMA SamePlan ==
  ASSUME UNCHANGED <<csv, flags, snap, updates, creates, row>>,
         PlanFollowsRows, RowsPlanned
  PROVE  PlanFollowsRows' /\ RowsPlanned'
BY DEF PlanFollowsRows, RowsPlanned, IsUpdateOf, IsCreateOf, Matches, Changes,
       Target, Kept, Wanted, Removed, Meant, InMap, HostKey, NoLabels, Worn

LEMMA SameMatches ==
  ASSUME UNCHANGED <<flags, snap>>
  PROVE  /\ \A host : Matches(host)' = Matches(host)
         /\ \A L, r : Changes(L, r)' = Changes(L, r)
BY DEF Matches, Changes, InMap, HostKey

LEMMA PlanExistingFollows ==
  ASSUME IInv, OneRowEach, Undisturbed, PlanExisting
  PROVE  PlanFollowsRows' /\ RowsPlanned'
<1> DEFINE r == csv[row]
<1>1. PICK id \in Matches(r.host) :
        updates' = IF Changes(snap[id].labels, r)
                   THEN Append(updates, [id |-> id,
                                         host |-> HostKey(snap[id]),
                                         labels |-> RowLabels(snap[id].labels, r)])
                   ELSE updates
  BY DEF PlanExisting
<1> DEFINE u == [id |-> id, host |-> HostKey(snap[id]),
                 labels |-> RowLabels(snap[id].labels, r)]
<1>2. /\ TypeOK /\ PlanFollowsRows /\ RowsPlanned
      /\ row \in DOMAIN csv /\ row' = row + 1 /\ creates' = creates
      /\ UNCHANGED <<csv, flags, snap>>
  BY DEF IInv, Undisturbed, PlanExisting, NextRow, input, view
<1>3. /\ updates \in Seq(Updates) /\ csv \in Seq(Rows) /\ row \in Nat
  BY <1>2 DEF TypeOK
<1>4. HostKey(snap[id]) = r.host /\ Matches(r.host) = {id}
  BY <1>2, MatchesOne
<1>5. u.id = id /\ u.host = r.host /\ Meant(u.labels) = Target(snap[id].labels, r)
  BY <1>4, RowLabelsMean
<1>6. IsUpdateOf(u, row)
  BY <1>4, <1>5 DEF IsUpdateOf
<1>7. \A h : Matches(h)' = Matches(h)
  BY <1>2, SameMatches
<1>8. \A k, x : (IsUpdateOf(x, k)' <=> IsUpdateOf(x, k))
                /\ (IsCreateOf(x, k)' <=> IsCreateOf(x, k))
  BY <1>2, <1>7 DEF IsUpdateOf, IsCreateOf, Target, Kept, Wanted, Meant,
                    NoLabels, Worn
<1>9. \A L, x : Changes(L, x)' = Changes(L, x)
  BY <1>2, SameMatches
<1>10. updates' = updates
        \/ (updates' = Append(updates, u) /\ Changes(snap[id].labels, r))
  BY <1>1
<1>11. Changes(snap[id].labels, r) => updates' = Append(updates, u)
  BY <1>1
<1> HIDE DEF u, r
<1>12. ASSUME NEW k \in DOMAIN csv, csv[k].host = r.host
       PROVE  k = row
  BY <1>2, <1>12 DEF OneRowEach, r
<1>13. \A i \in DOMAIN updates : updates[i].id # id
  <2>1. ASSUME NEW i \in DOMAIN updates, updates[i].id = id PROVE FALSE
    <3>1. PICK k \in DOMAIN csv : k < row /\ IsUpdateOf(updates[i], k)
      BY <1>2 DEF PlanFollowsRows
    <3>2. HostKey(snap[id]) = csv[k].host
      BY <1>2, <2>1, <3>1, MatchesOne DEF IsUpdateOf
    <3>3. k = row
      BY <1>4, <1>12, <3>2
    <3> QED
      BY <1>3, <3>1, <3>3
  <2> QED
    BY <2>1
<1>14. /\ Len(updates) \in Nat /\ DOMAIN updates = 1..Len(updates)
       /\ DOMAIN Append(updates, u) = 1..(Len(updates) + 1)
       /\ \A i \in DOMAIN updates : Append(updates, u)[i] = updates[i]
       /\ Append(updates, u)[Len(updates) + 1] = u
  BY <1>3
<1>15. PlanFollowsRows'
  <2>1. \A i \in DOMAIN updates' :
          \E k \in DOMAIN csv : k < row + 1 /\ IsUpdateOf(updates'[i], k)
    <3>1. ASSUME NEW i \in DOMAIN updates
          PROVE  \E k \in DOMAIN csv : k < row + 1 /\ IsUpdateOf(updates[i], k)
      BY <1>2, <1>3 DEF PlanFollowsRows
    <3>2. row \in DOMAIN csv /\ row < row + 1
      BY <1>2, <1>3
    <3> QED
      BY <1>6, <1>10, <1>14, <3>1, <3>2
  <2>2. \A i \in DOMAIN creates :
          \E k \in DOMAIN csv : k < row + 1 /\ IsCreateOf(creates[i], k)
    BY <1>2, <1>3 DEF PlanFollowsRows
  <2>3. \A i, j \in DOMAIN updates' : updates'[i].id = updates'[j].id => i = j
    <3>1. \A i, j \in DOMAIN updates : updates[i].id = updates[j].id => i = j
      BY <1>2 DEF PlanFollowsRows
    <3> QED
      BY <1>5, <1>10, <1>13, <1>14, <3>1
  <2>4. \A i, j \in DOMAIN creates : creates[i].host = creates[j].host => i = j
    BY <1>2 DEF PlanFollowsRows
  <2> QED
    BY <1>2, <1>8, <2>1, <2>2, <2>3, <2>4 DEF PlanFollowsRows
<1>16. ASSUME NEW k \in DOMAIN csv, k < row + 1
       PROVE  /\ \A i \in Matches(csv[k].host) :
                   Changes(snap[i].labels, csv[k]) =>
                     \E j \in DOMAIN updates' : updates'[j].id = i
              /\ flags.umwl /\ Matches(csv[k].host) = {} =>
                   \E i \in DOMAIN creates : creates[i].host = csv[k].host
  <2>1. CASE k < row
    <3>1. \A j \in DOMAIN updates : j \in DOMAIN updates' /\ updates'[j] = updates[j]
      BY <1>10, <1>14
    <3> QED
      BY <1>2, <2>1, <3>1 DEF RowsPlanned
  <2>2. CASE k = row
    <3>1. Changes(snap[id].labels, r) =>
            \E j \in DOMAIN updates' : updates'[j].id = id
      BY <1>5, <1>11, <1>14
    <3> QED
      BY <1>4, <2>2, <3>1 DEF r
  <2> QED
    BY <1>3, <1>16, <2>1, <2>2
<1>17. RowsPlanned'
  BY <1>2, <1>7, <1>9, <1>16 DEF RowsPlanned
<1> QED
  BY <1>15, <1>17

LEMMA PlanUnmanagedFollows ==
  ASSUME IInv, OneRowEach, Undisturbed, PlanUnmanaged
  PROVE  PlanFollowsRows' /\ RowsPlanned'
<1> DEFINE r == csv[row]
           c == [host |-> r.host, labels |-> RowLabels(NoLabels, r)]
<1>1. /\ TypeOK /\ PlanFollowsRows /\ RowsPlanned
      /\ row \in DOMAIN csv /\ row' = row + 1 /\ updates' = updates
      /\ UNCHANGED <<csv, flags, snap>>
      /\ Matches(r.host) = {} /\ flags.umwl /\ creates' = Append(creates, c)
  BY DEF IInv, Undisturbed, PlanUnmanaged, NextRow, input, view
<1>2. creates \in Seq(Creates) /\ csv \in Seq(Rows) /\ row \in Nat
  BY <1>1 DEF TypeOK
<1>3. c.host = r.host /\ Meant(c.labels) = Target(NoLabels, r)
  BY RowLabelsMean
<1>4. IsCreateOf(c, row)
  BY <1>1, <1>3 DEF IsCreateOf
<1>5. \A h : Matches(h)' = Matches(h)
  BY <1>1, SameMatches
<1>6. \A k, x : (IsUpdateOf(x, k)' <=> IsUpdateOf(x, k))
                /\ (IsCreateOf(x, k)' <=> IsCreateOf(x, k))
  BY <1>1, <1>5 DEF IsUpdateOf, IsCreateOf, Target, Kept, Wanted, Meant,
                    NoLabels, Worn
<1>7. \A L, x : Changes(L, x)' = Changes(L, x)
  BY <1>1, SameMatches
<1> HIDE DEF c, r
<1>8. ASSUME NEW k \in DOMAIN csv, csv[k].host = r.host
      PROVE  k = row
  BY <1>1, <1>8 DEF OneRowEach, r
<1>9. \A i \in DOMAIN creates : creates[i].host # r.host
  <2>1. ASSUME NEW i \in DOMAIN creates, creates[i].host = r.host PROVE FALSE
    <3>1. PICK k \in DOMAIN csv : k < row /\ IsCreateOf(creates[i], k)
      BY <1>1 DEF PlanFollowsRows
    <3>2. k = row
      BY <1>8, <2>1, <3>1 DEF IsCreateOf
    <3> QED
      BY <1>2, <3>1, <3>2
  <2> QED
    BY <2>1
<1>10. /\ Len(creates) \in Nat /\ DOMAIN creates = 1..Len(creates)
       /\ DOMAIN creates' = 1..(Len(creates) + 1)
       /\ \A i \in DOMAIN creates : creates'[i] = creates[i]
       /\ creates'[Len(creates) + 1] = c
  BY <1>1, <1>2
<1>11. PlanFollowsRows'
  <2>1. \A i \in DOMAIN creates' :
          \E k \in DOMAIN csv : k < row + 1 /\ IsCreateOf(creates'[i], k)
    <3>1. ASSUME NEW i \in DOMAIN creates
          PROVE  \E k \in DOMAIN csv : k < row + 1 /\ IsCreateOf(creates[i], k)
      BY <1>1, <1>2 DEF PlanFollowsRows
    <3>2. row \in DOMAIN csv /\ row < row + 1
      BY <1>1, <1>2
    <3> QED
      BY <1>4, <1>10, <3>1, <3>2
  <2>2. \A i \in DOMAIN updates :
          \E k \in DOMAIN csv : k < row + 1 /\ IsUpdateOf(updates[i], k)
    BY <1>1, <1>2 DEF PlanFollowsRows
  <2>3. \A i, j \in DOMAIN creates' : creates'[i].host = creates'[j].host => i = j
    <3>1. \A i, j \in DOMAIN creates : creates[i].host = creates[j].host => i = j
      BY <1>1 DEF PlanFollowsRows
    <3> QED
      BY <1>3, <1>9, <1>10, <3>1
  <2>4. \A i, j \in DOMAIN updates : updates[i].id = updates[j].id => i = j
    BY <1>1 DEF PlanFollowsRows
  <2> QED
    BY <1>1, <1>6, <2>1, <2>2, <2>3, <2>4 DEF PlanFollowsRows
<1>12. ASSUME NEW k \in DOMAIN csv, k < row + 1
       PROVE  /\ \A i \in Matches(csv[k].host) :
                   Changes(snap[i].labels, csv[k]) =>
                     \E j \in DOMAIN updates : updates[j].id = i
              /\ flags.umwl /\ Matches(csv[k].host) = {} =>
                   \E i \in DOMAIN creates' : creates'[i].host = csv[k].host
  <2>1. CASE k < row
    <3>1. \A j \in DOMAIN creates : j \in DOMAIN creates' /\ creates'[j] = creates[j]
      BY <1>10
    <3> QED
      BY <1>1, <2>1, <3>1 DEF RowsPlanned
  <2>2. CASE k = row
    <3>1. \E i \in DOMAIN creates' : creates'[i].host = r.host
      BY <1>3, <1>10
    <3> QED
      BY <1>1, <2>2, <3>1 DEF r
  <2> QED
    BY <1>2, <1>12, <2>1, <2>2
<1>13. RowsPlanned'
  BY <1>1, <1>5, <1>7, <1>12 DEF RowsPlanned
<1> QED
  BY <1>11, <1>13

LEMMA SkipRowFollows ==
  ASSUME IInv, OneRowEach, Undisturbed, SkipRow
  PROVE  PlanFollowsRows' /\ RowsPlanned'
<1>1. /\ PlanFollowsRows /\ RowsPlanned /\ row \in Nat /\ csv \in Seq(Rows)
      /\ row \in DOMAIN csv /\ row' = row + 1
      /\ UNCHANGED <<csv, flags, snap, updates, creates>>
      /\ Matches(csv[row].host) = {} /\ ~flags.umwl
  BY DEF IInv, TypeOK, Undisturbed, SkipRow, NextRow, input, view, plan
<1>2. /\ \A h : Matches(h)' = Matches(h)
      /\ \A L, x : Changes(L, x)' = Changes(L, x)
  BY <1>1, SameMatches
<1>3. \A k, x : (IsUpdateOf(x, k)' <=> IsUpdateOf(x, k))
                /\ (IsCreateOf(x, k)' <=> IsCreateOf(x, k))
  BY <1>1, <1>2 DEF IsUpdateOf, IsCreateOf, Target, Kept, Wanted, Meant,
                    NoLabels, Worn
<1>4. \A k \in DOMAIN csv : k < row => k < row + 1
  BY <1>1
<1>5. PlanFollowsRows'
  BY <1>1, <1>3, <1>4 DEF PlanFollowsRows
<1>6. \A k \in DOMAIN csv : k < row + 1 => k < row \/ k = row
  BY <1>1
<1>7. RowsPlanned'
  BY <1>1, <1>2, <1>6 DEF RowsPlanned
<1> QED
  BY <1>5, <1>7

\* Replacing placeholders by the labels created for them keeps what is meant.
LEMMA ResolveMeans ==
  ASSUME NEW list \in Seq(Updates) \cup Seq(Creates), NEW i \in DOMAIN list,
         \A l \in DOMAIN replacement : replacement[l] = RealHref(l),
         \A h \in list[i].labels : h.temp => h.label \in DOMAIN replacement
  PROVE  /\ ResolveAll(list)[i].host = list[i].host
         /\ list \in Seq(Updates) => ResolveAll(list)[i].id = list[i].id
         /\ Meant(ResolveAll(list)[i].labels) = Meant(list[i].labels)
<1> DEFINE S == {Resolve(h) : h \in list[i].labels}
<1>1. ResolveAll(list)[i] = [list[i] EXCEPT !.labels = S]
  BY DEF ResolveAll
<1>2. list[i] \in Updates \cup Creates
  OBVIOUS
<1>3. \A h \in list[i].labels : Resolve(h).label = h.label
  BY DEF Resolve, RealHref
<1>4. {h.label : h \in S} = {h.label : h \in list[i].labels}
  BY <1>3
<1> HIDE DEF S
<1>5. CASE list[i] \in Updates
  BY <1>1, <1>4, <1>5 DEF Updates, Meant
<1>6. CASE list[i] \notin Updates
  <2>1. list[i] \in Creates /\ list \notin Seq(Updates)
    BY <1>2, <1>6
  <2> QED
    BY <1>1, <1>4, <2>1 DEF Creates, Meant
<1> QED
  BY <1>5, <1>6

LEMMA LabelsDoneFollows ==
  ASSUME IInv, OneRowEach, Undisturbed, LabelsDone
  PROVE  Undisturbed'
<1>1. /\ TypeOK /\ PlanFollowsRows /\ RowsPlanned /\ PlannedLabelsKnown
      /\ snap = pceWklds /\ pos = 1
      /\ \A l \in DOMAIN replacement : replacement[l] = RealHref(l)
  BY DEF IInv, RunInv, Stages, Undisturbed, LabelsDone
<1>2. /\ Pending = {} /\ phase = "labels" /\ phase' = "update"
      /\ updates' = ResolveAll(updates) /\ creates' = ResolveAll(creates)
      /\ UNCHANGED <<csv, flags, snap, pceWklds, row, pos>>
  BY DEF LabelsDone, pce, input, view
<1>3. updates \in Seq(Updates) /\ creates \in Seq(Creates)
  BY <1>1 DEF TypeOK
<1>4. /\ \A i \in DOMAIN updates : \A h \in updates[i].labels :
           h.temp => h.label \in DOMAIN replacement
      /\ \A i \in DOMAIN creates : \A h \in creates[i].labels :
           h.temp => h.label \in DOMAIN replacement
  BY <1>1, <1>2 DEF PlannedLabelsKnown, Planned, Pending
<1>5. /\ DOMAIN updates' = DOMAIN updates
      /\ \A i \in DOMAIN updates :
           /\ updates'[i].id = updates[i].id
           /\ updates'[i].host = updates[i].host
           /\ Meant(updates'[i].labels) = Meant(updates[i].labels)
  <2>1. DOMAIN ResolveAll(updates) = DOMAIN updates
    BY DEF ResolveAll
  <2> QED
    BY <1>1, <1>2, <1>3, <1>4, <2>1, ResolveMeans
<1>6. /\ DOMAIN creates' = DOMAIN creates
      /\ \A i \in DOMAIN creates :
           /\ creates'[i].host = creates[i].host
           /\ Meant(creates'[i].labels) = Meant(creates[i].labels)
  <2>1. DOMAIN ResolveAll(creates) = DOMAIN creates
    BY DEF ResolveAll
  <2> QED
    BY <1>1, <1>2, <1>3, <1>4, <2>1, ResolveMeans
<1>7. /\ \A h : Matches(h)' = Matches(h)
      /\ \A L, x : Changes(L, x)' = Changes(L, x)
  BY <1>2, SameMatches
<1>8. \A k, x : (IsUpdateOf(x, k)' <=> IsUpdateOf(x, k))
                /\ (IsCreateOf(x, k)' <=> IsCreateOf(x, k))
  BY <1>2, <1>7 DEF IsUpdateOf, IsCreateOf, Target, Kept, Wanted, Meant,
                    NoLabels, Worn
<1>9. \A k, x, y : x.host = y.host /\ Meant(x.labels) = Meant(y.labels) =>
        /\ x.id = y.id /\ IsUpdateOf(x, k) => IsUpdateOf(y, k)
        /\ IsCreateOf(x, k) => IsCreateOf(y, k)
  BY DEF IsUpdateOf, IsCreateOf
<1>10. PlanFollowsRows'
  <2>1. \A i \in DOMAIN updates' :
          \E k \in DOMAIN csv : k < row /\ IsUpdateOf(updates'[i], k)
    BY <1>1, <1>5, <1>9 DEF PlanFollowsRows
  <2>2. \A i \in DOMAIN creates' :
          \E k \in DOMAIN csv : k < row /\ IsCreateOf(creates'[i], k)
    BY <1>1, <1>6, <1>9 DEF PlanFollowsRows
  <2>3. /\ \A i, j \in DOMAIN updates' : updates'[i].id = updates'[j].id => i = j
        /\ \A i, j \in DOMAIN creates' : creates'[i].host = creates'[j].host => i = j
    BY <1>1, <1>5, <1>6 DEF PlanFollowsRows
  <2> QED
    BY <1>2, <1>8, <2>1, <2>2, <2>3 DEF PlanFollowsRows
<1>11. RowsPlanned'
  BY <1>1, <1>2, <1>5, <1>6, <1>7 DEF RowsPlanned
<1>12. PushedSoFar'
  <2>1. \A j \in DOMAIN updates' : ~Sent(j)'
    <3>1. \A j \in DOMAIN updates' : ~(j < 1)
      BY <1>3, <1>5
    <3> QED
      BY <1>1, <1>2, <3>1 DEF Sent
  <2>2. Len(updates') \in Nat
    BY <1>2, <1>3, <1>5, ResolveAllType, <1>1 DEF TypeOK
  <2> QED
    BY <1>1, <1>2, <2>1, <2>2 DEF PushedSoFar
<1> QED
  BY <1>2, <1>10, <1>11, <1>12 DEF Undisturbed

LEMMA PushUpdateFollows ==
  ASSUME IInv, Undisturbed, PushUpdate, clean'
  PROVE  Undisturbed'
<1> DEFINE u == updates[pos]
<1>1. /\ TypeOK /\ PlanFollowsRows /\ RowsPlanned /\ PushedSoFar
  BY DEF IInv, Undisturbed, PushUpdate, Due
<1>2. /\ phase = "update" /\ phase' = "update" /\ pos \in DOMAIN updates
      /\ pos' = pos + 1
      /\ UNCHANGED <<csv, flags, snap, updates, creates, row>>
      /\ pceWklds' = [pceWklds EXCEPT ![u.id] = Updated(@, u)]
  BY DEF PushUpdate, Due, input, view, plan
<1>3. /\ updates \in Seq(Updates) /\ pceWklds \in Seq(Workloads)
      /\ snap \in Seq(Workloads) /\ pos \in Nat
  BY <1>1 DEF TypeOK
<1>4. PlanFollowsRows' /\ RowsPlanned'
  BY <1>1, <1>2, SamePlan
<1>5. /\ \A j \in DOMAIN updates : updates[j].id \in DOMAIN snap
      /\ \A i, j \in DOMAIN updates : updates[i].id = updates[j].id => i = j
  BY <1>1, MatchesType DEF PlanFollowsRows, IsUpdateOf
<1>6. DOMAIN pceWklds = DOMAIN snap
  BY <1>1, <1>2, <1>3 DEF PushedSoFar
<1>7. \A j \in DOMAIN updates : (Sent(j) <=> j < pos) /\ (Sent(j)' <=> j < pos + 1)
  BY <1>2 DEF Sent
<1>8. pceWklds[u.id] = snap[u.id]
  <2>1. \A j \in DOMAIN updates : Sent(j) => updates[j].id # u.id
    BY <1>2, <1>3, <1>5, <1>7
  <2> QED
    BY <1>1, <1>2, <1>5, <2>1 DEF PushedSoFar
<1>9. /\ DOMAIN pceWklds' = DOMAIN pceWklds
      /\ \A i \in DOMAIN pceWklds :
           pceWklds'[i] = IF i = u.id THEN Updated(snap[i], u) ELSE pceWklds[i]
  BY <1>2, <1>8
<1> HIDE DEF u
<1>10. \A j \in DOMAIN updates : Sent(j)' =>
         pceWklds'[updates[j].id] = Updated(snap[updates[j].id], updates[j])
  <2> SUFFICES ASSUME NEW j \in DOMAIN updates, j < pos + 1
               PROVE  pceWklds'[updates[j].id] =
                        Updated(snap[updates[j].id], updates[j])
    BY <1>7
  <2>1. CASE j = pos
    BY <1>5, <1>6, <1>9, <2>1 DEF u
  <2>2. CASE j # pos
    <3>1. j < pos
      BY <1>3, <2>2
    <3>2. updates[j].id # u.id
      BY <1>2, <1>5, <2>2 DEF u
    <3>3. pceWklds[updates[j].id] = Updated(snap[updates[j].id], updates[j])
      BY <1>1, <1>7, <3>1 DEF PushedSoFar
    <3> QED
      BY <1>5, <1>6, <1>9, <3>2, <3>3
  <2> QED
    BY <2>1, <2>2
<1>11. \A i \in DOMAIN snap :
         (\A j \in DOMAIN updates : Sent(j)' => updates[j].id # i)
           => pceWklds'[i] = snap[i]
  <2> SUFFICES ASSUME NEW i \in DOMAIN snap,
                      \A j \in DOMAIN updates : Sent(j)' => updates[j].id # i
               PROVE  pceWklds'[i] = snap[i]
    OBVIOUS
  <2>1. i # u.id
    BY <1>2, <1>3, <1>7 DEF u
  <2>2. \A j \in DOMAIN updates : Sent(j) => updates[j].id # i
    BY <1>3, <1>7
  <2>3. pceWklds[i] = snap[i]
    BY <1>1, <2>2 DEF PushedSoFar
  <2> QED
    BY <1>6, <1>9, <2>1, <2>3
<1>12. Len(pceWklds') = Len(snap) /\ pos' <= Len(updates) + 1
  BY <1>2, <1>3, <1>6, <1>9, <1>1 DEF PushedSoFar
<1>13. PushedSoFar'
  BY <1>2, <1>10, <1>11, <1>12 DEF PushedSoFar
<1> QED
  BY <1>2, <1>4, <1>13 DEF Undisturbed

LEMMA UpdatesDoneFollows ==
  ASSUME IInv, Undisturbed, UpdatesDone
  PROVE  Undisturbed'
<1>1. /\ TypeOK /\ PlanFollowsRows /\ RowsPlanned /\ PushedSoFar
  BY DEF IInv, Undisturbed, UpdatesDone
<1>2. /\ phase = "update" /\ phase' = "create" /\ pos \notin DOMAIN updates
      /\ pos' = 1
      /\ UNCHANGED <<csv, flags, snap, updates, creates, row, pceWklds>>
  BY DEF UpdatesDone, pce, input, view, plan
<1>3. /\ updates \in Seq(Updates) /\ creates \in Seq(Creates) /\ pos \in Nat \ {0}
      /\ pceWklds \in Seq(Workloads) /\ snap \in Seq(Workloads)
  BY <1>1 DEF TypeOK
<1>4. PlanFollowsRows' /\ RowsPlanned'
  BY <1>1, <1>2, SamePlan
<1>5. \A j \in DOMAIN updates : Sent(j) /\ Sent(j)'
  <2>1. pos = Len(updates) + 1
    BY <1>1, <1>2, <1>3 DEF PushedSoFar
  <2> QED
    BY <1>2, <1>3, <2>1 DEF Sent
<1>6. Len(pceWklds) = Len(snap) + 1 - 1 /\ 1 <= Len(creates) + 1 /\ 1..(1-1) = {}
  BY <1>1, <1>2, <1>3 DEF PushedSoFar
<1>7. PushedSoFar'
  BY <1>1, <1>2, <1>5, <1>6 DEF PushedSoFar
<1> QED
  BY <1>2, <1>4, <1>7 DEF Undisturbed

LEMMA PushCreateFollows ==
  ASSUME IInv, Undisturbed, PushCreate, clean'
  PROVE  Undisturbed'
<1> DEFINE w == Created(creates[pos])
<1>1. /\ TypeOK /\ PlanFollowsRows /\ RowsPlanned /\ PushedSoFar
  BY DEF IInv, Undisturbed, PushCreate, Due
<1>2. /\ phase = "create" /\ phase' = "create" /\ pos \in DOMAIN creates
      /\ pos' = pos + 1
      /\ UNCHANGED <<csv, flags, snap, updates, creates, row>>
      /\ pceWklds' = Append(pceWklds, w)
  BY DEF PushCreate, Due, input, view, plan, Created
<1>3. /\ creates \in Seq(Creates) /\ pceWklds \in Seq(Workloads)
      /\ snap \in Seq(Workloads) /\ pos \in Nat \ {0}
  BY <1>1 DEF TypeOK
<1>4. PlanFollowsRows' /\ RowsPlanned'
  BY <1>1, <1>2, SamePlan
<1>5. \A j \in DOMAIN updates : updates[j].id \in DOMAIN snap
  BY <1>1, MatchesType DEF PlanFollowsRows, IsUpdateOf
<1>6. Len(pceWklds) = Len(snap) + pos - 1
  BY <1>1, <1>2 DEF PushedSoFar
<1> HIDE DEF w
<1>7. /\ Len(pceWklds') = Len(pceWklds) + 1
      /\ \A i \in 1..Len(pceWklds) : pceWklds'[i] = pceWklds[i]
      /\ pceWklds'[Len(pceWklds) + 1] = w
  BY <1>2, <1>3
<1>8. \A i \in DOMAIN snap : i \in 1..Len(pceWklds) /\ pceWklds'[i] = pceWklds[i]
  BY <1>3, <1>6, <1>7
<1>9. \A j \in DOMAIN updates :
        /\ Sent(j) /\ Sent(j)'
        /\ pceWklds'[updates[j].id] = pceWklds[updates[j].id]
  BY <1>2, <1>5, <1>8 DEF Sent
<1>10. /\ Len(pceWklds') = Len(snap) + pos' - 1
       /\ pos' <= Len(creates) + 1
  BY <1>2, <1>3, <1>6, <1>7
<1>11. \A j \in 1..(pos' - 1) : pceWklds'[Len(snap) + j] = Created(creates[j])
  <2> SUFFICES ASSUME NEW j \in 1..pos
               PROVE  pceWklds'[Len(snap) + j] = Created(creates[j])
    <3>1. pos' - 1 = pos
      BY <1>2, <1>3
    <3> QED
      BY <3>1
  <2>1. CASE j = pos
    <3>1. Len(snap) + j = Len(pceWklds) + 1
      BY <1>3, <1>6, <2>1
    <3> QED
      BY <1>7, <2>1, <3>1 DEF w
  <2>2. CASE j # pos
    <3>1. j \in 1..(pos - 1) /\ Len(snap) + j \in 1..Len(pceWklds)
      BY <1>3, <1>6, <2>2
    <3>2. pceWklds[Len(snap) + j] = Created(creates[j])
      BY <1>1, <1>2, <3>1 DEF PushedSoFar
    <3> QED
      BY <1>7, <3>1, <3>2
  <2> QED
    BY <2>1, <2>2
<1>12. \A c : Created(c)' = Created(c)
  BY DEF Created, LabelsOf, RealHref
<1>13. PushedSoFar'
  BY <1>1, <1>2, <1>8, <1>9, <1>10, <1>11, <1>12 DEF PushedSoFar
<1> QED
  BY <1>2, <1>4, <1>13 DEF Undisturbed

\* Steps of the run that leave the plan, the snapshot and the PCE alone.
LEMMA QuietFollows ==
  ASSUME Undisturbed, UNCHANGED <<csv, flags, snap, updates, creates, row>>,
         UNCHANGED <<pceWklds, pos, replacement>>,
         \/ phase' = phase
         \/ phase' \in {"load", "ended", "dead"}
         \/ phase = "plan" /\ phase' = "decide"
  PROVE  Undisturbed'
<1>1. PlanFollowsRows /\ RowsPlanned => PlanFollowsRows' /\ RowsPlanned'
  BY SamePlan
<1>2. ASSUME phase' = phase, PushedSoFar
      PROVE  PushedSoFar'
  <2>1. \A j : Sent(j)' <=> Sent(j)
    BY <1>2 DEF Sent
  <2> QED
    BY <1>2, <2>1 DEF PushedSoFar
<1> QED
  BY <1>1, <1>2 DEF Undisturbed, RealHref

LEMMA RunInvStep == IInv /\ [Next]_vars => RunInv'
<1> SUFFICES ASSUME IInv, [Next]_vars
             PROVE  RunInv'
  OBVIOUS
<1>1. Stages'
  BY StagesStep
<1> SUFFICES ASSUME OneRowEach', clean'
             PROVE  Undisturbed'
  BY <1>1 DEF RunInv
<1>2. OneRowEach
  <2>1. csv' = csv
    BY InputKept
  <2> QED
    BY <2>1 DEF OneRowEach
<1>3. CASE Rerun
  BY <1>3 DEF Rerun, Undisturbed
<1>4. ASSUME ~Rerun
      PROVE  clean
  BY <1>4 DEF Next, RunStep, vars, Load, LoadRefused, LoadFails,
         PlanExisting, PlanUnmanaged, SkipRow, NextRow, PlanDone, NothingToDo,
         DryRun, Approve, PromptDenied, Decision, CreateLabel,
         CreateLabelFails, LabelsDone, PushUpdate, PushCreate, BulkFails,
         LimitExceeded, UpdatesDone, Finish, Crash, AdminRelabels,
         AgentPairs, Others
<1>5. ASSUME ~Rerun
      PROVE  Undisturbed
  BY <1>2, <1>4, <1>5 DEF IInv, RunInv
<1>6. CASE Load
  <2>1. phase' = "plan" /\ snap' = pceWklds' /\ row' = 1
        /\ updates' = <<>> /\ creates' = <<>>
    BY <1>6 DEF Load, IInv, RunInv, Stages, pce, plan
  <2>2. PlanFollowsRows'
    BY <2>1 DEF PlanFollowsRows
  <2>3. RowsPlanned'
    <3>1. \A k \in DOMAIN csv' : ~(k < 1)
      BY <1>6 DEF Load, IInv, TypeOK, input
    <3> QED
      BY <2>1, <3>1 DEF RowsPlanned
  <2> QED
    BY <2>1, <2>2, <2>3 DEF Undisturbed
<1>7. CASE PlanExisting \/ PlanUnmanaged \/ SkipRow
  <2>1. PlanFollowsRows' /\ RowsPlanned'
    BY <1>2, <1>5, <1>7, PlanExistingFollows, PlanUnmanagedFollows,
       SkipRowFollows DEF PlanExisting, PlanUnmanaged, SkipRow, NextRow, Rerun,
       Running
  <2>2. phase = "plan" /\ phase' = "plan" /\ UNCHANGED <<pceWklds, snap>>
    BY <1>7 DEF PlanExisting, PlanUnmanaged, SkipRow, NextRow, pce, view
  <2> QED
    BY <1>5, <2>1, <2>2 DEF Undisturbed, Rerun, Running
<1>8. CASE LabelsDone \/ PushUpdate \/ PushCreate \/ UpdatesDone
  BY <1>2, <1>5, <1>8, LabelsDoneFollows, PushUpdateFollows, PushCreateFollows,
     UpdatesDoneFollows
  DEF LabelsDone, PushUpdate, PushCreate, UpdatesDone, Due, Rerun, Running
<1>9. CASE \E l \in Labels : CreateLabel(l)
  <2>1. PICK l \in Labels : CreateLabel(l)
    BY <1>9
  <2>2. /\ phase = "labels" /\ phase' = "labels"
        /\ UNCHANGED <<csv, flags, snap, updates, creates, row, pceWklds>>
        /\ Replaced(l, RealHref(l))
    BY <2>1 DEF CreateLabel, input, view, plan
  <2>3. Undisturbed
    BY <1>5, <2>2 DEF Rerun, Running
  <2>4. PlanFollowsRows' /\ RowsPlanned' /\ snap' = pceWklds'
    BY <2>2, <2>3, SamePlan DEF Undisturbed
  <2>5. \A k \in DOMAIN replacement' : replacement'[k] = RealHref(k)
    BY <2>2, <2>3 DEF Undisturbed, Replaced
  <2> QED
    BY <2>2, <2>4, <2>5 DEF Undisturbed
<1>10. CASE Approve
  <2>1. /\ phase = "decide" /\ phase' = "labels" /\ DOMAIN replacement' = {}
        /\ UNCHANGED <<csv, flags, snap, updates, creates, row, pceWklds>>
    BY <1>10 DEF Approve, Decision, IInv, RunInv, Stages, pce, input, view, plan
  <2>2. Undisturbed
    BY <1>5, <2>1 DEF Rerun, Running
  <2>3. PlanFollowsRows' /\ RowsPlanned' /\ snap' = pceWklds'
    BY <2>1, <2>2, SamePlan DEF Undisturbed
  <2> QED
    BY <2>1, <2>3 DEF Undisturbed
<1>11. CASE LoadRefused \/ PlanDone \/ NothingToDo \/ DryRun \/ PromptDenied
            \/ Finish \/ Crash \/ UNCHANGED vars
  <2>1. CASE Rerun
    BY <1>3, <2>1
  <2>2. CASE ~Rerun
    <3>1. /\ UNCHANGED <<csv, flags, snap, updates, creates, row>>
          /\ UNCHANGED <<pceWklds, pos, replacement>>
          /\ \/ phase' = phase
             \/ phase' \in {"load", "ended", "dead"}
             \/ phase = "plan" /\ phase' = "decide"
      BY <1>11 DEF LoadRefused, PlanDone, NothingToDo, DryRun, PromptDenied,
                   Finish, Crash, Fatal, Decision, vars, pce, input, view, plan
    <3> QED
      BY <1>5, <2>2, <3>1, QuietFollows
  <2> QED
    BY <2>1, <2>2
<1> QED
  BY <1>3, <1>6, <1>7, <1>8, <1>9, <1>10, <1>11
  DEF Next, RunStep, LoadFails, CreateLabelFails, BulkFails, LimitExceeded,
      AdminRelabels, AgentPairs, Others

\* What an undisturbed run pushes is what the row makes of the labels.
LEMMA PushedUpdate ==
  ASSUME IInv, Undisturbed, phase \in {"update", "create"},
         NEW j \in DOMAIN updates
  PROVE  \E k \in DOMAIN csv :
           /\ IsUpdateOf(updates[j], k)
           /\ LabelsOf(updates[j].labels) =
                After(snap[updates[j].id].labels, csv[k])
<1> DEFINE u == updates[j]
<1>1. TypeOK /\ PlanFollowsRows /\ PushedLabelsExist
  BY DEF IInv, Undisturbed
<1>2. PICK k \in DOMAIN csv : IsUpdateOf(u, k)
  BY <1>1 DEF PlanFollowsRows
<1>3. u \in Updates /\ csv[k] \in Rows
  BY <1>1 DEF TypeOK
<1>4. u.id \in DOMAIN snap /\ snap[u.id] \in Workloads
  BY <1>1, <1>2, MatchesType DEF IsUpdateOf, TypeOK
<1>5. u.labels \in SUBSET Hrefs /\ snap[u.id].labels \in LabelMaps
  BY <1>3, <1>4 DEF Updates, Workloads
<1>6. \A h \in u.labels : ~h.temp
  <2>1. u.labels \in Payloads
    BY PayloadMembers
  <2> HIDE DEF u
  <2> QED
    BY <1>1, <2>1 DEF PushedLabelsExist, EmptyHref
<1>7. Meant(u.labels) = Target(snap[u.id].labels, csv[k])
  BY <1>2 DEF IsUpdateOf
<1> HIDE DEF u
<1>8. LabelsOf(u.labels) = After(snap[u.id].labels, csv[k])
  BY <1>3, <1>5, <1>6, <1>7, PayloadLabels
<1> QED
  BY <1>2, <1>8 DEF u

LEMMA PushedCreate ==
  ASSUME IInv, Undisturbed, phase \in {"update", "create"},
         NEW j \in DOMAIN creates
  PROVE  \E k \in DOMAIN csv :
           /\ IsCreateOf(creates[j], k)
           /\ LabelsOf(creates[j].labels) = After(NoLabels, csv[k])
<1> DEFINE c == creates[j]
<1>1. TypeOK /\ PlanFollowsRows /\ PushedLabelsExist
  BY DEF IInv, Undisturbed
<1>2. PICK k \in DOMAIN csv : IsCreateOf(c, k)
  BY <1>1 DEF PlanFollowsRows
<1>3. c \in Creates /\ csv[k] \in Rows
  BY <1>1 DEF TypeOK
<1>4. c.labels \in SUBSET Hrefs
  BY <1>3 DEF Creates
<1>5. \A h \in c.labels : ~h.temp
  <2>1. c.labels \in Payloads
    BY PayloadMembers
  <2> HIDE DEF c
  <2> QED
    BY <1>1, <2>1 DEF PushedLabelsExist, EmptyHref
<1>6. Meant(c.labels) = Target(NoLabels, csv[k])
  BY <1>2 DEF IsCreateOf
<1> HIDE DEF c
<1>7. LabelsOf(c.labels) = After(NoLabels, csv[k])
  BY <1>3, <1>4, <1>5, <1>6, PayloadLabels, NoLabelsType
<1> QED
  BY <1>2, <1>7 DEF c

LEMMA AfterAsked ==
  ASSUME NEW L \in LabelMaps, NEW r \in Rows, NEW d \in Dims,
         After(L, r)[d] # L[d]
  PROVE  /\ d \in DOMAIN r.cells
         /\ r.cells[d] = IF After(L, r)[d] = None THEN Remove ELSE After(L, r)[d]
BY CellsType, DataAssumption DEF After

LEMMA OnlyAskedStep ==
  ASSUME IInv, OneRowEach, [Next]_vars
  PROVE  [OnlyAsked]_vars
<1> SUFFICES ASSUME clean, clean', NEW i \in DOMAIN pceWklds, NEW d \in Dims,
                    pceWklds'[i].labels[d] # pceWklds[i].labels[d]
             PROVE  Asks(i, d, pceWklds'[i].labels[d])
  BY DEF OnlyAsked
<1>1. TypeOK /\ Undisturbed
  BY DEF IInv, RunInv
<1>2. pceWklds \in Seq(Workloads) /\ i \in 1..Len(pceWklds)
  BY <1>1 DEF TypeOK
<1>3. CASE PushUpdate
  <2> DEFINE u == updates[pos]
  <2>1. /\ phase = "update" /\ pos \in DOMAIN updates
        /\ pceWklds' = [pceWklds EXCEPT ![u.id] = Updated(@, u)]
    BY <1>3 DEF PushUpdate, Due
  <2>2. PICK k \in DOMAIN csv :
          /\ IsUpdateOf(u, k)
          /\ LabelsOf(u.labels) = After(snap[u.id].labels, csv[k])
    BY <1>1, <2>1, PushedUpdate
  <2>3. pceWklds[u.id] = snap[u.id]
    <3>1. /\ \A j \in DOMAIN updates : Sent(j) => updates[j].id # u.id
          /\ u.id \in DOMAIN snap
      <4>1. \A j \in DOMAIN updates : Sent(j) => j # pos
        BY <1>1, <2>1 DEF Sent, TypeOK
      <4>2. \A j \in DOMAIN updates : updates[j].id = u.id => j = pos
        BY <1>1, <2>1 DEF Undisturbed, PlanFollowsRows
      <4>3. u.id \in DOMAIN snap
        BY <2>2, MatchesType DEF IsUpdateOf
      <4> HIDE DEF u
      <4> QED
        BY <4>1, <4>2, <4>3
    <3> HIDE DEF u
    <3> QED
      BY <1>1, <2>1, <3>1 DEF Undisturbed, PushedSoFar
  <2> HIDE DEF u
  <2>4. i = u.id
    BY <2>1
  <2>5. pceWklds[i] \in Workloads
    BY <1>2
  <2>6. pceWklds'[i].labels = LabelsOf(u.labels)
    BY <2>1, <2>4, <2>5 DEF Updated, Workloads
  <2>7. csv[k] \in Rows /\ pceWklds[i].labels \in LabelMaps
    BY <1>1, <2>5 DEF TypeOK, Workloads
  <2>8. /\ d \in DOMAIN csv[k].cells
        /\ csv[k].cells[d] = IF pceWklds'[i].labels[d] = None THEN Remove
                             ELSE pceWklds'[i].labels[d]
    BY <2>2, <2>3, <2>4, <2>6, <2>7, AfterAsked
  <2> QED
    BY <2>2, <2>4, <2>8 DEF Asks, IsUpdateOf
<1>4. CASE PushCreate
  <2>1. pceWklds'[i] = pceWklds[i]
    BY <1>2, <1>4 DEF PushCreate
  <2> QED
    BY <2>1
<1>5. CASE UNCHANGED pceWklds
  BY <1>5
<1> QED
  BY <1>3, <1>4, <1>5
  DEF Next, RunStep, vars, pce, Load, LoadRefused, LoadFails, PlanExisting,
      PlanUnmanaged, SkipRow, NextRow, PlanDone, NothingToDo, DryRun,
      Approve, PromptDenied, Decision, CreateLabel, CreateLabelFails,
      LabelsDone, BulkFails, LimitExceeded, UpdatesDone, Finish, Crash, Rerun,
      AdminRelabels, AgentPairs, Others

\* A push keeps the place of every workload of the snapshot in the map.
LEMMA SnapKept ==
  ASSUME IInv, Undisturbed, phase \in {"update", "create"}, NEW i \in DOMAIN snap
  PROVE  /\ i \in DOMAIN pceWklds
         /\ pceWklds[i].managed = snap[i].managed
         /\ pceWklds[i].host \in {snap[i].host, HostKey(snap[i])}
         /\ HostKey(pceWklds[i]) = HostKey(snap[i])
<1>1. TypeOK /\ PlanFollowsRows /\ PushedSoFar
  BY DEF IInv, Undisturbed
<1>2. snap[i] \in Workloads /\ snap[i].host \in Names
  <2>1. snap[i] \in Workloads
    BY <1>1 DEF TypeOK
  <2> QED
    BY <2>1 DEF Workloads
<1>3. i \in DOMAIN pceWklds
  <2>1. /\ pceWklds \in Seq(Workloads) /\ snap \in Seq(Workloads)
        /\ pos \in Nat \ {0}
    BY <1>1 DEF TypeOK
  <2>2. Len(pceWklds) >= Len(snap)
    BY <1>1, <2>1 DEF PushedSoFar
  <2> QED
    BY <2>1, <2>2
<1>4. CASE \E j \in DOMAIN updates : Sent(j) /\ updates[j].id = i
  <2>1. PICK j \in DOMAIN updates : Sent(j) /\ updates[j].id = i
    BY <1>4
  <2> DEFINE u == updates[j]
  <2>2. pceWklds[i] = Updated(snap[i], u)
    BY <1>1, <2>1 DEF PushedSoFar
  <2>3. u.host = HostKey(snap[i])
    <3>1. PICK k \in DOMAIN csv : IsUpdateOf(u, k)
      BY <1>1 DEF PlanFollowsRows
    <3> QED
      BY <1>1, <2>1, <3>1, MatchesOne DEF IsUpdateOf
  <2> HIDE DEF u
  <2>4. /\ pceWklds[i].managed = snap[i].managed
        /\ pceWklds[i].host = IF snap[i].managed THEN snap[i].host ELSE u.host
    BY <1>2, <2>2 DEF Updated, Workloads
  <2> QED
    BY <1>2, <1>3, <2>3, <2>4, DataAssumption DEF HostKey
<1>5. CASE \A j \in DOMAIN updates : Sent(j) => updates[j].id # i
  <2>1. pceWklds[i] = snap[i]
    BY <1>1, <1>5 DEF PushedSoFar
  <2> QED
    BY <1>3, <2>1
<1> QED
  BY <1>4, <1>5

LEMMA NewHostStep ==
  ASSUME IInv, OneRowEach, HostsFit, [Next]_vars
  PROVE  [NewHost]_vars
<1> SUFFICES ASSUME Len(pceWklds') > Len(pceWklds), clean, clean',
                    NEW i \in DOMAIN pceWklds
             PROVE  pceWklds[i].host # pceWklds'[Len(pceWklds')].host
  BY DEF NewHost
<1>1. TypeOK /\ Undisturbed
  BY DEF IInv, RunInv
<1>2. /\ pceWklds \in Seq(Workloads) /\ i \in 1..Len(pceWklds)
      /\ snap \in Seq(Workloads) /\ pos \in Nat \ {0}
  BY <1>1 DEF TypeOK
<1>3. CASE PushCreate
  <2> DEFINE c == creates[pos]
             w == Created(c)
  <2>1. /\ phase = "create" /\ pos \in DOMAIN creates
        /\ pceWklds' = Append(pceWklds, w)
    BY <1>2, <1>3 DEF PushCreate, Due, Created
  <2>2. PICK k \in DOMAIN csv : IsCreateOf(c, k)
    BY <1>1, <2>1, PushedCreate
  <2>3. w.host = c.host
    BY DEF Created
  <2> HIDE DEF c, w
  <2>4. pceWklds'[Len(pceWklds')].host = c.host
    BY <1>2, <2>1, <2>3
  <2>5. CASE i \in DOMAIN snap
    <3>1. InMap(snap[i]) /\ (flags.fqdnToShort => Short[c.host] = c.host)
      BY <2>2 DEF IsCreateOf, HostsFit, InMap
    <3>2. HostKey(snap[i]) # c.host
      BY <1>1, <2>2, <2>5, <3>1, Unmatched DEF IsCreateOf
    <3>3. pceWklds[i].host \in {snap[i].host, HostKey(snap[i])}
      BY <1>1, <2>1, <2>5, SnapKept
    <3> QED
      BY <2>4, <3>1, <3>2, <3>3 DEF HostKey
  <2>6. CASE i \notin DOMAIN snap
    <3>1. Len(pceWklds) = Len(snap) + pos - 1
      BY <1>1, <2>1 DEF Undisturbed, PushedSoFar
    <3>2. i - Len(snap) \in 1..(pos - 1) /\ i = Len(snap) + (i - Len(snap))
      BY <1>2, <2>6, <3>1
    <3> DEFINE j == i - Len(snap)
    <3>3. pceWklds[i] = Created(creates[j])
      BY <1>1, <2>1, <3>2 DEF Undisturbed, PushedSoFar
    <3>4. j \in DOMAIN creates /\ j # pos
      <4>1. creates \in Seq(Creates)
        BY <1>1 DEF TypeOK
      <4> QED
        BY <1>2, <2>1, <3>2, <4>1
    <3> HIDE DEF j
    <3>5. creates[j].host # c.host
      BY <1>1, <2>1, <3>4 DEF Undisturbed, PlanFollowsRows, c
    <3>6. Created(creates[j]).host = creates[j].host
      BY DEF Created
    <3> QED
      BY <2>4, <3>3, <3>5, <3>6
  <2> QED
    BY <2>5, <2>6
<1>4. CASE PushUpdate
  <2>1. \/ pceWklds' = pceWklds
        \/ pceWklds' = [pceWklds EXCEPT ![updates[pos].id] =
                          Updated(@, updates[pos])]
    BY <1>4 DEF PushUpdate
  <2>2. Len(pceWklds') = Len(pceWklds)
    BY <1>2, <2>1
  <2> QED
    BY <1>2, <2>2
<1>5. CASE UNCHANGED pceWklds
  BY <1>2, <1>5
<1> QED
  BY <1>3, <1>4, <1>5
  DEF Next, RunStep, vars, pce, Load, LoadRefused, LoadFails, PlanExisting,
      PlanUnmanaged, SkipRow, NextRow, PlanDone, NothingToDo, DryRun,
      Approve, PromptDenied, Decision, CreateLabel, CreateLabelFails,
      LabelsDone, BulkFails, LimitExceeded, UpdatesDone, Finish, Crash, Rerun,
      AdminRelabels, AgentPairs, Others

\* A run that plans nothing found the rows in force.
LEMMA NothingPlanned ==
  ASSUME IInv, OneRowEach, clean, phase = "decide",
         updates = <<>>, creates = <<>>
  PROVE  AllInForce
<1>1. TypeOK /\ Stages /\ Undisturbed
  BY DEF IInv, RunInv
<1>2. snap = pceWklds /\ RowsPlanned /\ row > Len(csv)
  BY <1>1 DEF Undisturbed, Stages
<1>3. DOMAIN updates = {} /\ DOMAIN creates = {}
  OBVIOUS
<1> SUFFICES ASSUME NEW k \in DOMAIN csv
             PROVE  LET C == {i \in DOMAIN pceWklds : Listed(i, csv[k].host)} IN
                    /\ flags.umwl => C # {}
                    /\ flags.update => \A i \in C : (\A j \in C : j <= i) =>
                         RowHolds(pceWklds[i].labels, csv[k])
  BY DEF AllInForce
<1> DEFINE C == {i \in DOMAIN pceWklds : Listed(i, csv[k].host)}
<1>4. k < row /\ csv[k] \in Rows
  BY <1>1, <1>2 DEF TypeOK
<1>5. Matches(csv[k].host) = {i \in C : \A j \in C : j <= i}
  BY <1>2 DEF Matches, Listed
<1>6. flags.umwl => C # {}
  BY <1>2, <1>3, <1>4, <1>5 DEF RowsPlanned
<1>7. ASSUME flags.update, NEW i \in C, \A j \in C : j <= i
      PROVE  RowHolds(pceWklds[i].labels, csv[k])
  <2>1. i \in Matches(csv[k].host) /\ i \in DOMAIN snap
    BY <1>2, <1>5, <1>7
  <2>2. ~Changes(snap[i].labels, csv[k])
    BY <1>2, <1>3, <1>4, <2>1 DEF RowsPlanned
  <2>3. snap[i] \in Workloads
    BY <1>1, <2>1 DEF TypeOK
  <2>4. snap[i].labels \in LabelMaps
    BY <2>3 DEF Workloads
  <2> QED
    BY <1>2, <1>4, <1>7, <2>2, <2>4, ChangesUnlessHolds
<1> QED
  BY <1>6, <1>7

\* The labels of a workload of the snapshot after the push.
LEMMA SentHolds ==
  ASSUME IInv, OneRowEach, Undisturbed, phase = "create", flags.update,
         NEW k \in DOMAIN csv, NEW i \in Matches(csv[k].host)
  PROVE  RowHolds(pceWklds[i].labels, csv[k])
<1>1. /\ TypeOK /\ Stages /\ PlanFollowsRows /\ RowsPlanned /\ PushedSoFar
  BY DEF IInv, RunInv, Undisturbed
<1>2. /\ i \in DOMAIN snap /\ HostKey(snap[i]) = csv[k].host
  BY <1>1, MatchesOne
<1>3. csv[k] \in Rows /\ k < row
  BY <1>1 DEF TypeOK, Stages
<1>4. snap[i] \in Workloads
  BY <1>1, <1>2 DEF TypeOK
<1>5. snap[i].labels \in LabelMaps
  BY <1>4 DEF Workloads
<1>6. CASE \E j \in DOMAIN updates : updates[j].id = i
  <2>1. PICK j \in DOMAIN updates : updates[j].id = i
    BY <1>6
  <2>2. pceWklds[i] = Updated(snap[i], updates[j])
    BY <1>1, <2>1 DEF PushedSoFar, Sent
  <2>3. PICK l \in DOMAIN csv :
          /\ IsUpdateOf(updates[j], l)
          /\ LabelsOf(updates[j].labels) = After(snap[i].labels, csv[l])
    BY <2>1, PushedUpdate
  <2>4. l = k
    BY <1>1, <1>2, <2>1, <2>3, MatchesOne DEF IsUpdateOf, OneRowEach
  <2>5. pceWklds[i].labels = LabelsOf(updates[j].labels)
    BY <1>4, <2>2 DEF Updated, Workloads
  <2> QED
    BY <1>3, <1>5, <2>3, <2>4, <2>5, AfterHolds
<1>7. CASE \A j \in DOMAIN updates : updates[j].id # i
  <2>1. pceWklds[i] = snap[i]
    BY <1>1, <1>2, <1>7 DEF PushedSoFar
  <2>2. ~Changes(snap[i].labels, csv[k])
    BY <1>1, <1>3, <1>7 DEF RowsPlanned
  <2> QED
    BY <1>3, <1>5, <2>1, <2>2, ChangesUnlessHolds
<1> QED
  BY <1>6, <1>7

\* A run that pushed both lists to their end leaves the rows in force.
LEMMA AllPushed ==
  ASSUME IInv, OneRowEach, HostsFit, clean, phase = "create",
         pos \notin DOMAIN creates
  PROVE  AllInForce
<1>1. /\ TypeOK /\ Stages /\ Undisturbed
  BY DEF IInv, RunInv
<1>2. PlanFollowsRows /\ RowsPlanned /\ PushedSoFar /\ row > Len(csv)
  BY <1>1 DEF Undisturbed, Stages
<1>3. /\ creates \in Seq(Creates) /\ pos \in Nat \ {0}
      /\ snap \in Seq(Workloads) /\ pceWklds \in Seq(Workloads)
  BY <1>1 DEF TypeOK
<1>4. /\ Len(pceWklds) = Len(snap) + Len(creates)
      /\ \A j \in DOMAIN creates : pceWklds[Len(snap) + j] = Created(creates[j])
  <2>1. pos = Len(creates) + 1
    BY <1>2, <1>3 DEF PushedSoFar
  <2>2. Len(pceWklds) = Len(snap) + pos - 1
    BY <1>2 DEF PushedSoFar
  <2>3. \A j \in 1..(pos - 1) : pceWklds[Len(snap) + j] = Created(creates[j])
    BY <1>2 DEF PushedSoFar
  <2>4. 1..(pos - 1) = DOMAIN creates
    BY <1>3, <2>1
  <2>5. Len(pceWklds) = Len(snap) + Len(creates)
    BY <1>3, <2>1, <2>2
  <2> QED
    BY <2>3, <2>4, <2>5
<1> SUFFICES ASSUME NEW k \in DOMAIN csv
             PROVE  LET C == {i \in DOMAIN pceWklds : Listed(i, csv[k].host)} IN
                    /\ flags.umwl => C # {}
                    /\ flags.update => \A i \in C : (\A j \in C : j <= i) =>
                         RowHolds(pceWklds[i].labels, csv[k])
  BY DEF AllInForce
<1> DEFINE host == csv[k].host
           C == {i \in DOMAIN pceWklds : Listed(i, host)}
<1>5. k < row /\ csv[k] \in Rows
  BY <1>1, <1>2 DEF TypeOK
<1>6. \A i \in DOMAIN pceWklds :
        \/ i \in DOMAIN snap
        \/ \E j \in DOMAIN creates : i = Len(snap) + j
  <2>1. ASSUME NEW i \in DOMAIN pceWklds, i \notin DOMAIN snap
        PROVE  i - Len(snap) \in DOMAIN creates /\ i = Len(snap) + (i - Len(snap))
    BY <1>3, <1>4, <2>1
  <2> QED
    BY <2>1
<1>7. \A i \in DOMAIN snap :
        Listed(i, host) <=> InMap(snap[i]) /\ HostKey(snap[i]) = host
  BY <1>1, SnapKept DEF Listed, InMap
<1>8. ASSUME NEW j \in DOMAIN creates
      PROVE  /\ Len(snap) + j \in DOMAIN pceWklds
             /\ Listed(Len(snap) + j, host) <=> creates[j].host = host
             /\ Len(snap) + j \notin DOMAIN snap
  <2>1. PICK l \in DOMAIN csv : IsCreateOf(creates[j], l)
    BY <1>2 DEF PlanFollowsRows
  <2>2. /\ flags.umwl /\ ~flags.managedOnly /\ ~flags.unmanagedOnly
        /\ flags.fqdnToShort => Short[creates[j].host] = creates[j].host
    BY <2>1 DEF IsCreateOf, HostsFit
  <2>3. Created(creates[j]).host = creates[j].host
    BY DEF Created
  <2>4. HostKey(Created(creates[j])) = creates[j].host
    BY <2>2, <2>3 DEF HostKey
  <2>5. InMap(Created(creates[j]))
    BY <2>2 DEF InMap
  <2>6. /\ Len(snap) + j \in DOMAIN pceWklds
        /\ Len(snap) + j \notin DOMAIN snap
    BY <1>3, <1>4
  <2> QED
    BY <1>4, <2>4, <2>5, <2>6 DEF Listed
<1>9. CASE Matches(host) # {}
  <2>1. PICK id \in Matches(host) : TRUE
    BY <1>9
  <2>2. /\ id \in DOMAIN snap /\ InMap(snap[id]) /\ HostKey(snap[id]) = host
        /\ \A j \in DOMAIN snap : InMap(snap[j]) /\ HostKey(snap[j]) = host
                                    => j <= id
    BY <1>1, <2>1, MatchesOne
  <2>3. \A j \in DOMAIN creates : creates[j].host # host
    BY <1>2, <1>9 DEF PlanFollowsRows, IsCreateOf
  <2>4. id \in C
    BY <1>1, <1>7, <2>2, SnapKept
  <2>5. \A i \in C : i <= id
    BY <1>6, <1>7, <1>8, <2>2, <2>3
  <2>6. ASSUME NEW i \in C, \A j \in C : j <= i PROVE i = id
    <3>1. id <= i /\ i <= id /\ i \in Nat /\ id \in Nat
      BY <1>3, <2>4, <2>5, <2>6
    <3> QED
      BY <3>1
  <2>7. flags.update => RowHolds(pceWklds[id].labels, csv[k])
    BY <1>1, <2>1, SentHolds
  <2> QED
    BY <2>4, <2>6, <2>7
<1>10. CASE Matches(host) = {}
  <2>1. \A i \in DOMAIN snap : ~Listed(i, host)
    BY <1>1, <1>7, <1>10, Unmatched
  <2>2. flags.umwl => \E j \in DOMAIN creates : creates[j].host = host
    BY <1>2, <1>5, <1>10 DEF RowsPlanned
  <2>3. flags.umwl => C # {}
    BY <1>8, <2>2
  <2>4. ASSUME NEW i \in C
        PROVE  RowHolds(pceWklds[i].labels, csv[k])
    <3>1. PICK j \in DOMAIN creates : i = Len(snap) + j
      BY <1>6, <2>1
    <3>2. creates[j].host = host
      BY <1>8, <3>1
    <3>3. PICK l \in DOMAIN csv :
            /\ IsCreateOf(creates[j], l)
            /\ LabelsOf(creates[j].labels) = After(NoLabels, csv[l])
      BY <1>1, PushedCreate
    <3>4. l = k
      BY <3>2, <3>3 DEF IsCreateOf, OneRowEach
    <3>5. pceWklds[i].labels = LabelsOf(creates[j].labels)
      <4>1. Created(creates[j]).labels = LabelsOf(creates[j].labels)
        BY DEF Created
      <4> QED
        BY <1>4, <3>1, <4>1
    <3> QED
      BY <1>5, <3>3, <3>4, <3>5, NoLabelsType, AfterHolds
  <2> QED
    BY <2>3, <2>4
<1> QED
  BY <1>9, <1>10

\* Where every row is in force, planning finds nothing to change.
LEMMA NothingToPlan ==
  ASSUME TypeOK, AllInForce, snap = pceWklds,
         NEW k \in DOMAIN csv, NEW id \in Matches(csv[k].host)
  PROVE  ~Changes(snap[id].labels, csv[k])
<1>1. csv[k] \in Rows
  BY DEF TypeOK
<1>2. /\ id \in DOMAIN pceWklds /\ Listed(id, csv[k].host)
      /\ \A j \in DOMAIN pceWklds : Listed(j, csv[k].host) => j <= id
  BY MatchesOne DEF Listed
<1>3. snap[id] \in Workloads
  BY <1>2 DEF TypeOK
<1>4. snap[id].labels \in LabelMaps
  BY <1>3 DEF Workloads
<1>5. flags.update => RowHolds(pceWklds[id].labels, csv[k])
  BY <1>2 DEF AllInForce
<1> QED
  BY <1>1, <1>4, <1>5, ChangesUnlessHolds

LEMMA StillInForce ==
  ASSUME AllInForce, UNCHANGED <<csv, flags, pceWklds>>
  PROVE  AllInForce'
BY DEF AllInForce, Listed, InMap, HostKey, RowHolds

LEMMA SettledStep == IInv /\ [Next]_vars => SettledInv'
<1> SUFFICES ASSUME IInv, [Next]_vars, settled', OneRowEach', HostsFit'
             PROVE  /\ phase' \in {"load", "plan", "decide", "ended", "dead"}
                    /\ phase' \in {"plan", "decide"} =>
                         snap' = pceWklds' /\ updates' = <<>> /\ creates' = <<>>
                    /\ AllInForce'
  BY DEF SettledInv
<1>1. UNCHANGED <<csv, flags>>
  BY InputKept
<1>2. OneRowEach /\ HostsFit /\ TypeOK /\ Stages
  BY <1>1 DEF OneRowEach, HostsFit, IInv, RunInv
<1>3. CASE NothingToDo
  <2>1. AllInForce
    BY <1>2, <1>3, NothingPlanned DEF NothingToDo, Decision, Nothing
  <2> QED
    BY <1>1, <1>3, <2>1, StillInForce DEF NothingToDo, Decision, pce
<1>4. CASE Finish
  <2>1. AllInForce
    BY <1>2, <1>4, AllPushed DEF Finish
  <2> QED
    BY <1>1, <1>4, <2>1, StillInForce DEF Finish, pce
<1>5. CASE /\ settled
           /\ phase \in {"load", "plan", "decide", "ended", "dead"}
           /\ phase \in {"plan", "decide"} =>
                snap = pceWklds /\ updates = <<>> /\ creates = <<>>
           /\ AllInForce
  <2>1. CASE PlanExisting
    <3>1. PICK id \in Matches(csv[row].host) :
            updates' = IF Changes(snap[id].labels, csv[row])
                       THEN Append(updates,
                                   [id |-> id, host |-> HostKey(snap[id]),
                                    labels |-> RowLabels(snap[id].labels, csv[row])])
                       ELSE updates
      BY <2>1 DEF PlanExisting
    <3>2. ~Changes(snap[id].labels, csv[row])
      BY <1>2, <1>5, <2>1, NothingToPlan DEF PlanExisting, NextRow
    <3> QED
      BY <1>1, <1>5, <2>1, <3>1, <3>2, StillInForce
      DEF PlanExisting, NextRow, pce, view
  <2>2. CASE PlanUnmanaged
    <3>1. /\ row \in DOMAIN csv /\ Matches(csv[row].host) = {} /\ flags.umwl
          /\ snap = pceWklds
      BY <1>5, <2>2 DEF PlanUnmanaged, NextRow
    <3>2. \A i \in DOMAIN pceWklds : ~Listed(i, csv[row].host)
      BY <1>2, <3>1, Unmatched DEF Listed
    <3> QED
      BY <1>5, <3>1, <3>2 DEF AllInForce
  <2>3. CASE Load
    BY <1>1, <1>2, <1>5, <2>3, StillInForce DEF Load, Stages, pce, plan
  <2>4. CASE Rerun
    BY <1>1, <1>5, <2>4, StillInForce DEF Rerun, pce
  <2>5. CASE SkipRow \/ PlanDone
    BY <1>1, <1>5, <2>5, StillInForce
    DEF SkipRow, NextRow, PlanDone, pce, view, plan
  <2>6. CASE LoadRefused \/ Crash \/ UNCHANGED vars
    <3>1. /\ UNCHANGED <<pceWklds, snap, updates, creates>>
          /\ phase' = phase \/ phase' = "dead"
      BY <2>6 DEF LoadRefused, Fatal, Crash, vars, pce, view, plan
    <3> QED
      BY <1>1, <1>5, <3>1, StillInForce
  <2> QED
    BY <1>3, <1>4, <1>5, <2>1, <2>2, <2>3, <2>4, <2>5, <2>6
    DEF Next, RunStep, LoadFails, DryRun, Approve, PromptDenied, Decision,
        Nothing, CreateLabel, CreateLabelFails, LabelsDone, PushUpdate,
        PushCreate, Due, BulkFails, LimitExceeded, UpdatesDone, AdminRelabels,
        AgentPairs, Others
<1>6. CASE ~settled
  BY <1>3, <1>4, <1>6
  DEF Next, RunStep, vars, Load, LoadRefused, LoadFails, PlanExisting,
      PlanUnmanaged, SkipRow, NextRow, PlanDone, DryRun, Approve,
      PromptDenied, Decision, CreateLabel, CreateLabelFails, LabelsDone,
      PushUpdate, PushCreate, BulkFails, LimitExceeded, UpdatesDone, Crash,
      Rerun, AdminRelabels, AgentPairs, Others
<1> QED
  BY <1>2, <1>5, <1>6 DEF IInv, SettledInv

-----------------------------------------------------------------------------
(* The theorems. *)

\* IInv is inductive, so it holds in every state of the specification.
THEOREM Invariance == Spec => []IInv
<1>1. IInv /\ [Next]_vars => IInv'
  BY TypeStep, WornStep, PlannedStep, ReplacementsStep, PushedStep,
     RunInvStep, SettledStep DEF IInv
<1> QED
  BY InvInit, <1>1, PTL DEF Spec

\* What a run pushes names labels the PCE has: no placeholder reaches the API,
\* whatever the CSV, the faults and the number of runs.
THEOREM PushedLabels == Spec => []PushedLabelsExist
<1>1. IInv => PushedLabelsExist
  BY DEF IInv
<1> QED
  BY Invariance, <1>1, PTL

LEMMA InputFits ==
  /\ Spec /\ OneRowEach => []OneRowEach
  /\ Spec /\ OneRowEach /\ HostsFit => [](OneRowEach /\ HostsFit)
<1>1. OneRowEach /\ [Next]_vars => OneRowEach'
  BY InputKept DEF OneRowEach
<1>2. HostsFit /\ [Next]_vars => HostsFit'
  BY InputKept DEF HostsFit
<1> QED
  BY <1>1, <1>2, PTL DEF Spec

\* Where no hostname has two rows, a run in which nothing goes wrong and nobody
\* else writes changes a label of a workload only to what a row asks for, and
\* leaves every blank cell and every dimension without a column alone.
THEOREM OnlyAskedFor == Spec /\ OneRowEach => OnlyAskedChanges
<1>1. IInv /\ OneRowEach /\ [Next]_vars => [OnlyAsked]_vars
  BY OnlyAskedStep
<1> QED
  BY <1>1, Invariance, InputFits, PTL DEF Spec, OnlyAskedChanges

\* Where moreover the hostnames fit the map, such a run creates no unmanaged
\* workload for a hostname that the PCE has or that it has just created.
THEOREM NoSecondUmwl == Spec /\ OneRowEach /\ HostsFit => NoDuplicateUmwl
<1>1. IInv /\ OneRowEach /\ HostsFit /\ [Next]_vars => [NewHost]_vars
  BY NewHostStep
<1> QED
  BY <1>1, Invariance, InputFits, PTL DEF Spec, NoDuplicateUmwl

\* After an undisturbed full run every row is in force.
THEOREM RowsInForce == Spec /\ OneRowEach /\ HostsFit => []SettledMeansDone
<1>1. IInv /\ OneRowEach /\ HostsFit => SettledMeansDone
  BY DEF IInv, SettledInv, SettledMeansDone
<1> QED
  BY <1>1, Invariance, InputFits, PTL

\* Running the same import again after an undisturbed full run plans nothing.
THEOREM SecondRunPlansNothing ==
  Spec /\ OneRowEach /\ HostsFit => []RerunIsNoOp
<1>1. IInv /\ OneRowEach /\ HostsFit => RerunIsNoOp
  BY DEF IInv, SettledInv, RerunIsNoOp, Nothing
<1> QED
  BY <1>1, Invariance, InputFits, PTL

-----------------------------------------------------------------------------
(* Consent: WkldImport implements UpdateGate. *)

GateInv ==
  /\ flags \in Flags
  /\ phase \in {"load", "plan", "decide"} => answer = "unasked" /\ wrote = FALSE
  /\ phase \in {"labels", "update", "create"} =>
       flags.updatePCE /\ (flags.noPrompt \/ answer = "yes")

LEMMA GateInit == Init => GateInv /\ Gate!Init
<1> SUFFICES ASSUME Init PROVE GateInv /\ Gate!Init
  OBVIOUS
<1>1. flags \in Flags
  BY InputAssumption DEF Init
<1>2. flags.updatePCE \in BOOLEAN /\ flags.noPrompt \in BOOLEAN
  BY <1>1 DEF Flags
<1> QED
  BY <1>1, <1>2 DEF Init, GateInv, Gate!Init

\* Every step keeps GateInv and is a step of UpdateGate or changes nothing there.
LEMMA GateStep == GateInv /\ [Next]_vars => GateInv' /\ [Gate!Next]_(Gate!vars)
<1> SUFFICES ASSUME GateInv, [Next]_vars
             PROVE  GateInv' /\ [Gate!Next]_(Gate!vars)
  OBVIOUS
<1>1. CASE Approve \/ PromptDenied
  BY <1>1 DEF GateInv, Approve, PromptDenied, Decision, input, Gate!Next,
              Gate!Ask, Gate!vars
<1>2. CASE \E l \in Labels : CreateLabel(l)
  BY <1>2 DEF GateInv, CreateLabel, input, Gate!Next, Gate!Write, Gate!Consent,
              Gate!vars
<1>3. CASE PushUpdate \/ PushCreate
  BY <1>3 DEF GateInv, PushUpdate, PushCreate, Due, input, Gate!Next,
              Gate!Write, Gate!Consent, Gate!vars
<1>4. CASE Rerun
  BY <1>4 DEF GateInv, Rerun, input, Gate!Next, Gate!Rerun, Gate!vars
<1>5. CASE /\ UNCHANGED <<flags, answer, wrote>>
           /\ \/ phase' = phase
              \/ phase' \in {"ended", "dead"}
              \/ /\ phase \in {"load", "plan"}
                 /\ phase' \in {"plan", "decide"}
              \/ /\ phase \in {"labels", "update"}
                 /\ phase' \in {"update", "create"}
  BY <1>5 DEF GateInv, Gate!vars
<1> QED
  BY <1>1, <1>2, <1>3, <1>4, <1>5
  DEF Next, RunStep, vars, input, Load, LoadRefused, LoadFails, PlanExisting,
      PlanUnmanaged, SkipRow, NextRow, PlanDone, NothingToDo, DryRun,
      Decision, CreateLabelFails, Fatal, LabelsDone, BulkFails, Due,
      LimitExceeded, UpdatesDone, Finish, Crash, AdminRelabels, AgentPairs,
      Others

\* wkld-import writes to the PCE only with --update-pce and, without
\* --no-prompt, after the operator has said yes in the same run.
THEOREM ImportGated == Spec => GateSpec
BY GateInit, GateStep, PTL DEF Spec, GateSpec, Gate!Spec
=============================================================================
