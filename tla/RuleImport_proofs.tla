------------------------- MODULE RuleImport_proofs --------------------------
(* rule-import and delete, as an operator runs them one after the other, for  *)
(* every PCE, file and combination of flags: they implement the consent gate, *)
(* make no second rule for a pair, provision what they changed, put every row *)
(* into the draft and, with --authoritative, leave no other rule.             *)
EXTENDS RuleImport, SequenceTheorems, FiniteSetTheorems, TLAPS

-----------------------------------------------------------------------------
(* The consent gate. *)

Asking == {"load", "rows", "decide"}
Pushing == {"create", "update", "provision"}

\* What ties the place of the two commands to the operator's answer.
GateInv ==
  /\ flags \in Flags
  /\ phase \notin Done => del.phase \in DeleteDone
  /\ phase \in Asking \/ del.phase = "gate" => answer = "unasked" /\ wrote = FALSE
  /\ phase \in Pushing => Consent
  /\ del.phase \in {"delete", "bulk", "provision"} => Consent
  /\ phase \in Phases /\ del.phase \in DeletePhases
  /\ DOMAIN del = {"phase", "list", "todo", "prov", "before"}

LEMMA GateInit == Init => GateInv
  BY StoreAssumption
  DEF Init, StoreInit, SessionInit, DeleteInit, GateInv, Asking, Pushing, Done, DeleteDone,
      Phases, DeletePhases, ListOf

LEMMA ImportKeepsGate ==
  ASSUME GateInv, RunStep \/ CreateLabelFails \/ CreateRuleFails \/ UpdateRuleFails
                  \/ ProvisionFails \/ Crash
  PROVE  GateInv' /\ [Gate!Next]_Gate!vars
<1> USE DEF GateInv, Consent, Asking, Pushing, Done, DeleteDone, Phases, DeletePhases,
            session, Gate!vars
<1>1. CASE Load \/ SkipRow \/ CreateLabel \/ MissingLabel \/ Panic
  BY <1>1 DEF Load, SkipRow, CreateLabel, MissingLabel, Panic, NeedsLabel, AtRow, Ready, Silent
<1>2. CASE PlanRow \/ RowsDone
  BY <1>2 DEF PlanRow, RowsDone, Ready, AtRow, Silent, Nothing
<1>3. CASE DryRun
  BY <1>3 DEF DryRun, Decision, NotAsked, Silent
<1>4. CASE PromptDenied
  BY <1>4 DEF PromptDenied, Decision, Denied, Gate!Next, Gate!Ask
<1>5. CASE Approve
  BY <1>5 DEF Approve, Decision, Approved, Gate!Next, Gate!Ask
<1>6. CASE CreateRule \/ UpdateRule \/ Provision
  BY <1>6 DEF CreateRule, UpdateRule, Provision, Creating, Updating, Works,
              Gate!Next, Gate!Write, Gate!Consent
<1>7. CASE CreatesDone \/ UpdatesDone
  BY <1>7 DEF CreatesDone, UpdatesDone, Silent
<1>8. CASE CreateLabelFails
  BY <1>8 DEF CreateLabelFails, NeedsLabel, AtRow, Fault, LogError
<1>9. CASE CreateRuleFails
  <2>1. phase = "create" /\ phase' \in {"dead", "create"}
    BY <1>9 DEF CreateRuleFails, Creating, LogError
  <2>2. CASE wrote' = TRUE /\ UNCHANGED <<flags, answer>>
    BY <1>9, <2>1, <2>2 DEF CreateRuleFails, Gate!Next, Gate!Write, Gate!Consent
  <2>3. CASE UNCHANGED <<flags, answer, wrote>>
    BY <1>9, <2>1, <2>3 DEF CreateRuleFails
  <2> QED
    BY <1>9, <2>2, <2>3 DEF CreateRuleFails, Fault, Silent
<1>10. CASE UpdateRuleFails
  BY <1>10 DEF UpdateRuleFails, Updating, Fault, LogError
<1>11. CASE ProvisionFails \/ Crash
  BY <1>11 DEF ProvisionFails, Crash, Fault, LogError
<1> QED
  BY <1>1, <1>2, <1>3, <1>4, <1>5, <1>6, <1>7, <1>8, <1>9, <1>10, <1>11 DEF RunStep

LEMMA DeleteKeepsGate ==
  ASSUME GateInv, DeleteStep
  PROVE  GateInv' /\ [Gate!Next]_Gate!vars
<1> USE DEF GateInv, Consent, Asking, Pushing, Done, DeleteDone, Phases, DeletePhases,
            session, import, Gate!vars
<1>1. CASE DeleteDryRun
  BY <1>1, DeleteStep DEF DeleteStep, DeleteDryRun, DeleteDecision, NotAsked, Silent
<1>2. CASE DeleteDenied
  BY <1>2, DeleteStep DEF DeleteStep, DeleteDenied, DeleteDecision, Denied, Gate!Next, Gate!Ask
<1>3. CASE DeleteApproved
  BY <1>3, DeleteStep DEF DeleteStep, DeleteApproved, DeleteDecision, Approved, Gate!Next, Gate!Ask
<1>4. CASE DeleteHref
  <2> PICK i \in del.todo :
        /\ del' = [del EXCEPT !.todo = @ \ {i},
                              !.prov = @ \cup {ProvisionHrefOf(x) : x \in {y \in draft : y.id = i}}]
        /\ IF {y \in draft : y.id = i} = {} THEN Silent ELSE Works
    BY <1>4 DEF DeleteHref
  <2>1. phase \in Done /\ Consent /\ del.phase = "delete" /\ del'.phase = "delete"
        /\ DOMAIN del' = DOMAIN del
    BY <1>4 DEF DeleteHref
  <2> QED
    BY <2>1, DeleteStep DEF DeleteStep, Silent, Works, Gate!Next, Gate!Write, Gate!Consent
<1>5. CASE DeleteHrefFails \/ AllDeleted
  BY <1>5, DeleteStep DEF DeleteStep, DeleteHrefFails, AllDeleted, Fault, Silent
<1>6. CASE BulkWorkload
  BY <1>6, DeleteStep DEF DeleteStep, BulkWorkload, Silent, Works, Gate!Next, Gate!Write, Gate!Consent
<1>7. CASE BulkWorkloadFails \/ ProvisionDeletedFails
  BY <1>7, DeleteStep DEF DeleteStep, BulkWorkloadFails, ProvisionDeletedFails, Fault, LogError
<1>8. CASE ProvisionDeleted
  BY <1>8, DeleteStep DEF DeleteStep, ProvisionDeleted, Works, Gate!Next, Gate!Write, Gate!Consent
<1>9. CASE NothingToProvision \/ CrashDelete
  BY <1>9, DeleteStep DEF DeleteStep, NothingToProvision, CrashDelete, Silent, Fault
<1> QED
  BY <1>1, <1>2, <1>3, <1>4, <1>5, <1>6, <1>7, <1>8, <1>9, DeleteStep DEF DeleteStep, DeleteNext

LEMMA SessionKeepsGate ==
  ASSUME GateInv, Rerun \/ Delete \/ Others \/ UNCHANGED vars
  PROVE  GateInv' /\ [Gate!Next]_Gate!vars
<1> USE DEF GateInv, Consent, Asking, Pushing, Done, DeleteDone, Phases, DeletePhases,
            session, Gate!vars
<1>1. CASE Rerun
  BY <1>1 DEF Rerun, NextCommand, Gate!Next, Gate!Rerun
<1>2. CASE Delete
  <2> PICK list : StartDelete(list)
    BY <1>2 DEF Delete
  <2> QED
    BY <1>2 DEF Delete, StartDelete, NextCommand, Gate!Next, Gate!Rerun
<1>3. CASE Others
  BY <1>3 DEF Others, Fault
<1>4. CASE UNCHANGED vars
  BY <1>4 DEF vars, storeVars, import
<1> QED
  BY <1>1, <1>2, <1>3, <1>4

\* rule-import and delete modify rules and workloads only if --update-pce is
\* set and, without --no-prompt, the operator has said yes to this command.
THEOREM RuleImportGated == Spec => GateSpec
<1>1. Init => GateInv
  BY GateInit
<1>2. GateInv /\ [Next]_vars => GateInv' /\ [Gate!Next]_Gate!vars
  BY ImportKeepsGate, DeleteKeepsGate, SessionKeepsGate DEF Next
<1>3. Init => Gate!Init
  BY StoreAssumption DEF Init, StoreInit, SessionInit, Flags, Gate!Init
<1> QED
  BY <1>1, <1>2, <1>3, PTL DEF Spec, GateSpec, Gate!Spec

-----------------------------------------------------------------------------
(* One rule per pair. *)

\* Rules without a pair, or with pairs of one key.
SamePair(x, y) == (x.ext = NoExt /\ y.ext = NoExt) \/ HasKey(x, y)

OnePerKey(rules) == \A x, y \in rules : HasKey(x, y) => x = y

\* Rules are numbered, and no number is used twice.
Numbered(rules) ==
  /\ \A x \in rules : /\ {"id", "rs", "ext"} \subseteq DOMAIN x
                      /\ x.id \in RuleIds /\ x.id < nextId
  /\ \A x, y \in rules : x.id = y.id => x = y

\* The draft may lose rules since it was read, but a rule keeps its pair.
\* Until they are pushed, planned rules have pairs that neither the draft nor
\* another planned rule has, and planned updates have the pair of their rule.
Keyed ==
  /\ OnePerKey(draft) /\ OnePerKey(loaded)
  /\ \A x \in loaded, y \in draft : x.id = y.id => SamePair(x, y)
  /\ phase \in {"rows", "decide"} => Ids(draft) \subseteq Ids(loaded)
  /\ phase \in {"rows", "decide", "create"} =>
       \A i \in 1..Len(creates) :
         /\ \A x \in draft : ~HasKey(x, creates[i].row)
         /\ \A j \in 1..Len(creates) : i # j => ~HasKey(creates[i].row, creates[j].row)
         /\ phase = "rows" => \E n \in 1..(rowNo - 1) : n <= Len(file) /\ creates[i].row = file[n]
  /\ phase \in {"rows", "decide", "create", "update"} =>
       \A i \in 1..Len(updates) :
         \E x \in loaded : x.id = updates[i].id /\ HasKey(x, updates[i].row)

\* Hypothesis: no two rules of the PCE have one key when the session begins.
UniqueKeys == \A s \in InitialRules : \A x, y \in s : HasKey(x, y) => x = y

\* The inductive invariant.
PairInv ==
  /\ nextId \in Nat \ {0} /\ rowNo \in Nat \ {0} /\ file \in Seq(Row)
  /\ Numbered(draft) /\ Numbered(loaded)
  /\ creates \in Seq(Entry) /\ updates \in Seq(Entry)
  /\ flags.matchOnExt /\ Distinct /\ UniqueKeys => Keyed

Unpushed == <<flags, file, loaded, creates, updates, draft, nextId>>

LEMMA SameExt ==
  ASSUME NEW x, NEW y, x.ext = y.ext
  PROVE  /\ Key(x) = Key(y)
         /\ \A z : (HasKey(x, z) <=> HasKey(y, z)) /\ (HasKey(z, x) <=> HasKey(z, y))
  BY DEF Key, HasKey

LEMMA PairInit ==
  ASSUME Init
  PROVE  PairInv
<1>1. nextId \in Nat \ {0} /\ Numbered(draft)
  <2>1. draft \in InitialRules /\ nextId = 1 + Cardinality(draft) /\ IsFiniteSet(draft)
    BY StoreAssumption DEF Init, StoreInit
  <2>2. Cardinality(draft) \in Nat
    BY <2>1, FS_CardinalityType
  <2>3. \A x \in draft : x \in Rule /\ x.id <= Cardinality(draft)
    BY <2>1, StoreAssumption
  <2>4. \A x \in draft : {"id", "rs", "ext"} \subseteq DOMAIN x /\ x.id \in RuleIds
    BY <2>3 DEF Rule
  <2>5. \A x, y \in draft : x.id = y.id => x = y
    BY <2>1, StoreAssumption
  <2>6. \A x \in draft : x.id < nextId
    BY <2>1, <2>2, <2>3, <2>4, StoreAssumption DEF RuleIds
  <2> QED
    BY <2>1, <2>2, <2>4, <2>5, <2>6 DEF Numbered
<1>2. UniqueKeys => OnePerKey(draft)
  BY DEF Init, StoreInit, OnePerKey, UniqueKeys
<1> QED
  BY <1>1, <1>2, FileAssumption DEF Init, PairInv, Numbered, Keyed, OnePerKey

\* Steps that leave the rules and the plan as they are.
LEMMA QuietKeepsPairs ==
  ASSUME PairInv, UNCHANGED Unpushed,
         rowNo' \in {rowNo, rowNo + 1},
         phase' = "rows" => phase = "rows",
         phase' = "decide" => phase \in {"rows", "decide"},
         phase' = "create" => phase \in {"decide", "create"},
         phase' = "update" => phase \in {"create", "update"}
  PROVE  PairInv'
<1>1. UNCHANGED <<flags, file, loaded, creates, updates, draft, nextId>>
  BY DEF Unpushed
<1>2. Numbered(draft)' /\ Numbered(loaded)'
  BY <1>1 DEF PairInv, Numbered
<1>3. ASSUME flags.matchOnExt /\ Distinct /\ UniqueKeys PROVE Keyed'
  <2>1. Keyed
    BY <1>3 DEF PairInv
  <2>2. OnePerKey(draft)' /\ OnePerKey(loaded)'
    BY <1>1, <2>1 DEF Keyed, OnePerKey
  <2>3. \A i \in 1..Len(creates) : phase' = "rows" =>
          \E n \in 1..(rowNo' - 1) : n <= Len(file) /\ creates[i].row = file[n]
    <3> SUFFICES ASSUME NEW i \in 1..Len(creates), phase = "rows"
                 PROVE  \E n \in 1..(rowNo' - 1) : n <= Len(file) /\ creates[i].row = file[n]
      OBVIOUS
    <3>1. PICK n \in 1..(rowNo - 1) : n <= Len(file) /\ creates[i].row = file[n]
      BY <2>1 DEF Keyed
    <3>2. n \in 1..(rowNo' - 1)
      <4>1. rowNo \in Int /\ n \in Int /\ 1 <= n /\ n <= rowNo - 1
        BY <3>1 DEF PairInv
      <4>2. CASE rowNo' = rowNo
        BY <4>1, <4>2
      <4>3. CASE rowNo' = rowNo + 1
        BY <4>1, <4>3
      <4> QED
        BY <4>2, <4>3
    <3> QED
      BY <3>1, <3>2
  <2> QED
    BY <1>1, <2>1, <2>2, <2>3 DEF Keyed, Ids, SamePair
<1>4. Distinct' <=> Distinct
  BY <1>1 DEF Distinct
<1> QED
  BY <1>1, <1>2, <1>3, <1>4 DEF PairInv

LEMMA LoadKeepsPairs ==
  ASSUME PairInv, Load
  PROVE  PairInv'
<1>1. /\ loaded' = draft /\ creates' = <<>> /\ updates' = <<>> /\ rowNo' = 1
      /\ UNCHANGED <<flags, file, draft, nextId>>
  BY DEF Load, Silent, session, pce, policy
<1>2. Numbered(draft)' /\ Numbered(loaded)'
  BY <1>1 DEF PairInv, Numbered
<1>3. ASSUME flags.matchOnExt /\ Distinct /\ UniqueKeys PROVE Keyed'
  <2>1. OnePerKey(draft)
    BY <1>3 DEF PairInv, Keyed
  <2>2. OnePerKey(draft)' /\ OnePerKey(loaded)'
    BY <1>1, <2>1 DEF OnePerKey
  <2>3. \A x \in loaded', y \in draft' : x.id = y.id => SamePair(x, y)
    BY <1>1 DEF PairInv, Numbered, SamePair, HasKey
  <2> QED
    BY <1>1, <2>2, <2>3 DEF Keyed, Ids
<1>4. Distinct' <=> Distinct
  BY <1>1 DEF Distinct
<1> QED
  BY <1>1, <1>2, <1>3, <1>4 DEF PairInv

\* A row with a key that the loaded rules have matches one of them.
LEMMA MatchFound ==
  ASSUME flags.matchOnExt, OnePerKey(loaded), NEW r, NEW x \in loaded, HasKey(x, r),
         \A y \in loaded : y.id \in RuleIds
  PROVE  Match(r) # {}
<1>1. \A y \in loaded : HasKey(y, r) => y = x
  BY DEF OnePerKey, HasKey
<1>2. \A y \in loaded : HasKey(y, r) => y.id <= x.id
  BY <1>1, StoreAssumption DEF RuleIds
<1> QED
  BY <1>2 DEF Match

LEMMA PlanKeepsPairs ==
  ASSUME PairInv, PlanRow
  PROVE  PairInv'
<1>1. PICK r \in Range(file) :
        /\ AtRow(r)
        /\ \/ creates' = creates
           \/ /\ Match(r) = {}
              /\ creates' = Append(creates, [row |-> r, id |-> 0, labels |-> RowLabels(r)])
        /\ updates' = updates \/ updates' = PlanUpdate(r)
  BY DEF PlanRow, Ready
<1>2. /\ rowNo' = rowNo + 1 /\ phase = "rows" /\ phase' = "rows"
      /\ UNCHANGED <<flags, file, loaded, draft, nextId>>
  BY <1>1 DEF PlanRow, AtRow, pce, policy
<1>3. /\ r \in Row /\ rowNo \in 1..Len(file) /\ r = file[rowNo]
  BY <1>1 DEF AtRow, PairInv
<1>4. RowLabels(r) \subseteq AllLabels
  BY <1>3 DEF RowLabels, Row
<1>5. creates' \in Seq(Entry)
  <2> DEFINE e == [row |-> r, id |-> 0, labels |-> RowLabels(r)]
  <2>1. e \in Entry
    BY <1>3, <1>4 DEF Entry
  <2>2. creates' = creates \/ creates' = Append(creates, e)
    BY <1>1
  <2> HIDE DEF e
  <2>3. creates \in Seq(Entry)
    BY DEF PairInv
  <2>4. Append(creates, e) \in Seq(Entry)
    BY <2>1, <2>3, AppendProperties
  <2> QED
    BY <2>2, <2>3, <2>4
<1>6. \/ updates' = updates
      \/ \E x \in Match(r) :
           updates' = Append(updates, [row |-> r, id |-> x.id, labels |-> RowLabels(r)])
  BY <1>1 DEF PlanUpdate
<1>7. Match(r) \subseteq loaded
  BY DEF Match
<1>8. updates' \in Seq(Entry)
  <2>1. ASSUME NEW x \in Match(r)
        PROVE  Append(updates, [row |-> r, id |-> x.id, labels |-> RowLabels(r)]) \in Seq(Entry)
    <3> DEFINE e == [row |-> r, id |-> x.id, labels |-> RowLabels(r)]
    <3>1. x.id \in RuleIds
      BY <1>7 DEF PairInv, Numbered
    <3>2. e \in Entry
      BY <1>3, <1>4, <3>1 DEF Entry
    <3> HIDE DEF e
    <3>3. Append(updates, e) \in Seq(Entry)
      BY <3>2, AppendProperties DEF PairInv
    <3> QED
      BY <3>3 DEF e
  <2> QED
    BY <1>6, <2>1 DEF PairInv
<1>9. Numbered(draft)' /\ Numbered(loaded)'
  BY <1>2 DEF PairInv, Numbered
<1>10. ASSUME flags.matchOnExt, Distinct, UniqueKeys PROVE Keyed'
  <2>1. Keyed
    BY <1>10 DEF PairInv
  <2>2. \A i \in 1..Len(updates') :
          \E x \in loaded : x.id = updates'[i].id /\ HasKey(x, updates'[i].row)
    <3>1. \A i \in 1..Len(updates) :
            \E x \in loaded : x.id = updates[i].id /\ HasKey(x, updates[i].row)
      BY <1>2, <2>1 DEF Keyed
    <3>2. \A x \in Match(r) : HasKey(x, r)
      BY <1>10 DEF Match
    <3>3. CASE updates' = updates
      BY <3>1, <3>3
    <3>4. ASSUME NEW x \in Match(r),
                 updates' = Append(updates, [row |-> r, id |-> x.id, labels |-> RowLabels(r)])
          PROVE  \A i \in 1..Len(updates') :
                   \E z \in loaded : z.id = updates'[i].id /\ HasKey(z, updates'[i].row)
      <4>1. Len(updates') = Len(updates) + 1 /\ Len(updates) \in Nat
            /\ updates'[Len(updates) + 1] = [row |-> r, id |-> x.id, labels |-> RowLabels(r)]
            /\ \A i \in 1..Len(updates) : updates'[i] = updates[i]
        BY <3>4, AppendProperties DEF PairInv
      <4>2. x \in loaded /\ HasKey(x, r)
        BY <1>7, <3>2
      <4> QED
        BY <3>1, <4>1, <4>2
    <3> QED
      BY <1>6, <3>3, <3>4
  <2>3. ASSUME Match(r) = {}, NEW x \in draft PROVE ~HasKey(x, r)
    <3>0. Ids(draft) \subseteq Ids(loaded)
      BY <1>2, <2>1 DEF Keyed
    <3>1. PICK y \in loaded : y.id = x.id
      BY <3>0 DEF Ids
    <3>2. SamePair(y, x)
      BY <2>1, <3>1 DEF Keyed
    <3>3. ~HasKey(y, r)
      BY <1>10, <2>1, <2>3, MatchFound DEF Keyed, PairInv, Numbered
    <3> QED
      BY <3>2, <3>3 DEF SamePair, HasKey
  <2>4. \A i \in 1..Len(creates') :
          /\ \A x \in draft : ~HasKey(x, creates'[i].row)
          /\ \A j \in 1..Len(creates') : i # j => ~HasKey(creates'[i].row, creates'[j].row)
          /\ \E n \in 1..rowNo : n <= Len(file) /\ creates'[i].row = file[n]
    <3>1. \A i \in 1..Len(creates) :
            /\ \A x \in draft : ~HasKey(x, creates[i].row)
            /\ \A j \in 1..Len(creates) : i # j => ~HasKey(creates[i].row, creates[j].row)
            /\ \E n \in 1..(rowNo - 1) : n <= Len(file) /\ creates[i].row = file[n]
      BY <1>2, <2>1 DEF Keyed
    <3>2. \A n \in 1..(rowNo - 1) : n \in 1..rowNo
      BY DEF PairInv
    <3>3. CASE creates' = creates
      BY <3>1, <3>2, <3>3
    <3>4. CASE /\ Match(r) = {}
               /\ creates' = Append(creates, [row |-> r, id |-> 0, labels |-> RowLabels(r)])
      <4>1. Len(creates') = Len(creates) + 1 /\ Len(creates) \in Nat
            /\ creates'[Len(creates) + 1].row = r
            /\ \A i \in 1..Len(creates) : creates'[i] = creates[i]
        BY <3>4, AppendProperties DEF PairInv
      <4>2. ASSUME NEW i \in 1..Len(creates)
            PROVE  ~HasKey(creates[i].row, r) /\ ~HasKey(r, creates[i].row)
        <5>1. PICK n \in 1..(rowNo - 1) : n <= Len(file) /\ creates[i].row = file[n]
          BY <3>1
        <5>2. n \in 1..Len(file) /\ n # rowNo
          BY <1>3, <5>1
        <5>3. file[n].ext # NoExt => ~HasKey(file[n], r)
          BY <1>3, <1>10, <5>2 DEF Distinct
        <5> QED
          BY <5>1, <5>3 DEF HasKey
      <4>3. rowNo \in 1..rowNo /\ rowNo <= Len(file) /\ r = file[rowNo]
        BY <1>3 DEF PairInv
      <4>4. \A x \in draft : ~HasKey(x, r)
        BY <2>3, <3>4
      <4>5. ASSUME NEW i \in 1..Len(creates')
            PROVE  /\ \A x \in draft : ~HasKey(x, creates'[i].row)
                   /\ \A j \in 1..Len(creates') : i # j => ~HasKey(creates'[i].row, creates'[j].row)
                   /\ \E n \in 1..rowNo : n <= Len(file) /\ creates'[i].row = file[n]
        <5>1. CASE i = Len(creates) + 1
          <6>1. creates'[i].row = r
            BY <4>1, <5>1
          <6>2. \A j \in 1..Len(creates') : i # j => ~HasKey(r, creates'[j].row)
            BY <4>1, <4>2, <5>1
          <6> QED
            BY <4>3, <4>4, <6>1, <6>2
        <5>2. CASE i \in 1..Len(creates)
          <6>1. \A j \in 1..Len(creates') : i # j => ~HasKey(creates[i].row, creates'[j].row)
            <7> SUFFICES ASSUME NEW j \in 1..Len(creates'), i # j
                         PROVE  ~HasKey(creates[i].row, creates'[j].row)
              OBVIOUS
            <7>1. CASE j \in 1..Len(creates)
              BY <3>1, <4>1, <5>2, <7>1
            <7>2. CASE j = Len(creates) + 1
              BY <4>1, <4>2, <5>2, <7>2
            <7> QED
              BY <4>1, <7>1, <7>2
          <6> QED
            BY <3>1, <3>2, <4>1, <5>2, <6>1
        <5> QED
          BY <4>1, <5>1, <5>2
      <4> QED
        BY <4>5
    <3> QED
      BY <1>1, <3>3, <3>4
  <2>5. rowNo' - 1 = rowNo
    BY <1>2 DEF PairInv
  <2>6. OnePerKey(draft)' /\ OnePerKey(loaded)'
    BY <1>2, <2>1 DEF Keyed, OnePerKey
  <2>7. \A x \in loaded', y \in draft' : x.id = y.id => SamePair(x, y)
    BY <1>2, <2>1 DEF Keyed
  <2>8. Ids(draft)' \subseteq Ids(loaded)'
    BY <1>2, <2>1 DEF Keyed, Ids
  <2> QED
    BY <1>2, <2>2, <2>4, <2>5, <2>6, <2>7, <2>8 DEF Keyed
<1>11. Distinct' <=> Distinct
  BY <1>2 DEF Distinct
<1> QED
  BY <1>2, <1>5, <1>8, <1>9, <1>10, <1>11 DEF PairInv

\* Steps that delete rules or change them, but not their pairs.
LEMMA ThinKeepsPairs ==
  ASSUME PairInv, UNCHANGED <<flags, file, loaded, creates, updates, nextId, rowNo>>,
         phase' = phase,
         \A y \in draft' :
           /\ {"id", "rs", "ext"} \subseteq DOMAIN y
           /\ \E x \in draft : x.id = y.id /\ x.ext = y.ext,
         \A y, z \in draft' : y.id = z.id => y = z
  PROVE  PairInv'
<1>1. Numbered(draft)' /\ Numbered(loaded)'
  BY DEF PairInv, Numbered
<1>2. ASSUME flags.matchOnExt /\ Distinct /\ UniqueKeys PROVE Keyed'
  <2>1. Keyed
    BY <1>2 DEF PairInv
  <2>2. \A y \in draft' : \E x \in draft :
          /\ x.id = y.id
          /\ \A z : (HasKey(x, z) <=> HasKey(y, z)) /\ (HasKey(z, x) <=> HasKey(z, y))
          /\ \A z : SamePair(z, x) <=> SamePair(z, y)
    BY SameExt DEF SamePair
  <2>3. OnePerKey(draft)'
    <3> SUFFICES ASSUME NEW y \in draft', NEW z \in draft', HasKey(y, z)
                 PROVE  y.id = z.id
      BY DEF OnePerKey
    <3>1. PICK a \in draft : a.id = y.id /\ \A w : HasKey(a, w) <=> HasKey(y, w)
      BY <2>2
    <3>2. PICK b \in draft : b.id = z.id /\ \A w : HasKey(w, b) <=> HasKey(w, z)
      BY <2>2
    <3>3. HasKey(a, b)
      BY <3>1, <3>2
    <3> QED
      BY <2>1, <3>1, <3>2, <3>3 DEF Keyed, OnePerKey
  <2>4. OnePerKey(loaded)'
    BY <2>1 DEF Keyed, OnePerKey
  <2>5. \A x \in loaded', y \in draft' : x.id = y.id => SamePair(x, y)
    BY <2>1, <2>2 DEF Keyed
  <2>6. Ids(draft') \subseteq Ids(draft)
    BY <2>2 DEF Ids
  <2>7. phase' \in {"rows", "decide"} => Ids(draft') \subseteq Ids(loaded')
    BY <2>1, <2>6 DEF Keyed, Ids
  <2>8. phase' \in {"rows", "decide", "create"} =>
          \A i \in 1..Len(creates') : \A x \in draft' : ~HasKey(x, creates'[i].row)
    BY <2>1, <2>2 DEF Keyed
  <2> QED
    BY <2>1, <2>3, <2>4, <2>5, <2>7, <2>8 DEF Keyed, Ids
<1>3. Distinct' <=> Distinct
  BY DEF Distinct
<1> QED
  BY <1>1, <1>2, <1>3 DEF PairInv

\* The pushing of one planned rule, whether the answer arrives or not.
LEMMA CreateKeepsPairs ==
  ASSUME PairInv, CreateRule \/ CreateRuleFails
  PROVE  PairInv'
<1>1. /\ creates # <<>> /\ creates' = Tail(creates)
      /\ phase = "create" /\ phase' \in {"create", "dead"} /\ nextId <= MaxRules
      /\ UNCHANGED <<flags, file, loaded, updates, rowNo>>
      /\ Stored \/ UNCHANGED <<draft, nextId>>
  BY DEF CreateRule, CreateRuleFails, Creating, Works, Fault, Silent, session, LogError
<1>2. /\ Len(creates') = Len(creates) - 1 /\ creates' \in Seq(Entry) /\ Len(creates) \in Nat
      /\ \A i \in 1..Len(creates') : creates'[i] = creates[i + 1]
      /\ Head(creates) = creates[1] /\ 1 \in 1..Len(creates)
  BY <1>1, HeadTailProperties, EmptySeq DEF PairInv
<1> DEFINE row == creates[1].row
           p == Pushed(creates[1], nextId, row.rs, NoExt)
<1>3. p.id = nextId /\ p.ext = row.ext /\ {"id", "rs", "ext"} \subseteq DOMAIN p
  BY DEF Pushed
<1>4. \/ draft' = draft \cup {p} /\ nextId' = nextId + 1
      \/ UNCHANGED <<draft, nextId>>
  BY <1>1, <1>2 DEF Stored
<1>6. nextId \in 1..MaxRules /\ nextId' \in Nat \ {0} /\ nextId <= nextId'
  BY <1>1, <1>4, StoreAssumption DEF PairInv
<1> HIDE DEF p, row
<1>5. \A x \in draft' : x \in draft \/ (x = p /\ nextId' = nextId + 1)
  BY <1>4
<1>7. Numbered(draft)' /\ Numbered(loaded)'
  <2>1. \A x \in draft \cup loaded : x.id # p.id /\ x.id < nextId' /\ x.id \in RuleIds
                                     /\ {"id", "rs", "ext"} \subseteq DOMAIN x
    BY <1>3, <1>6, StoreAssumption DEF PairInv, Numbered, RuleIds
  <2>2. p.id \in RuleIds /\ (nextId' = nextId + 1 => p.id < nextId')
    BY <1>3, <1>6 DEF RuleIds
  <2> QED
    BY <1>1, <1>3, <1>5, <2>1, <2>2 DEF PairInv, Numbered
<1>8. ASSUME flags.matchOnExt /\ Distinct /\ UniqueKeys PROVE Keyed'
  <2>1. Keyed
    BY <1>8 DEF PairInv
  <2>2. \A i \in 1..Len(creates) :
          /\ \A x \in draft : ~HasKey(x, creates[i].row)
          /\ \A j \in 1..Len(creates) : i # j => ~HasKey(creates[i].row, creates[j].row)
    BY <1>1, <2>1 DEF Keyed
  <2>3. \A x : HasKey(p, x) <=> HasKey(row, x)
    BY <1>3 DEF HasKey, Key
  <2>4. \A x \in draft : ~HasKey(x, p) /\ ~HasKey(p, x)
    BY <1>2, <1>3, <2>2 DEF HasKey, Key, row
  <2>5. OnePerKey(draft)' /\ OnePerKey(loaded)'
    BY <1>1, <1>5, <2>1, <2>4 DEF Keyed, OnePerKey
  <2>6. \A x \in loaded', y \in draft' : x.id = y.id => SamePair(x, y)
    <3>1. \A x \in loaded : x.id # p.id
      BY <1>3, <1>6 DEF PairInv, Numbered, RuleIds
    <3> QED
      BY <1>1, <1>5, <2>1, <3>1 DEF Keyed
  <2>7. \A i \in 1..Len(creates') :
          /\ i + 1 \in 1..Len(creates) /\ i + 1 # 1 /\ creates'[i] = creates[i + 1]
          /\ \A j \in 1..Len(creates') : i # j => i + 1 # j + 1
    BY <1>2
  <2>8. ASSUME NEW i \in 1..Len(creates')
        PROVE  /\ \A x \in draft' : ~HasKey(x, creates'[i].row)
               /\ \A j \in 1..Len(creates') : i # j => ~HasKey(creates'[i].row, creates'[j].row)
    <3>1. ~HasKey(row, creates[i + 1].row)
      BY <1>2, <2>2, <2>7 DEF row
    <3>2. \A x \in draft' : ~HasKey(x, creates'[i].row)
      BY <1>5, <2>2, <2>3, <2>7, <3>1
    <3>3. \A j \in 1..Len(creates') : i # j => ~HasKey(creates'[i].row, creates'[j].row)
      BY <2>2, <2>7
    <3> QED
      BY <3>2, <3>3
  <2>9. phase' \notin {"rows", "decide", "update"}
    BY <1>1
  <2>10. phase' = "create" => \A i \in 1..Len(updates') :
           \E x \in loaded' : x.id = updates'[i].id /\ HasKey(x, updates'[i].row)
    BY <1>1, <2>1 DEF Keyed
  <2> QED
    BY <2>5, <2>6, <2>8, <2>9, <2>10 DEF Keyed
<1>9. Distinct' <=> Distinct
  BY <1>1 DEF Distinct
<1> QED
  BY <1>1, <1>2, <1>6, <1>7, <1>8, <1>9 DEF PairInv

\* The pushing of one planned update, whether the call succeeds or not.
LEMMA UpdateKeepsPairs ==
  ASSUME PairInv, UpdateRule \/ UpdateRuleFails
  PROVE  PairInv'
<1> DEFINE e == updates[1]
<1>1. /\ updates # <<>> /\ updates' = Tail(updates)
      /\ phase = "update" /\ phase' \in {"update", "dead"}
      /\ UNCHANGED <<flags, file, loaded, creates, rowNo, nextId>>
      /\ \/ \E x \in Target(Head(updates)) :
              draft' = (draft \ {x}) \cup {Pushed(Head(updates), x.id, x.rs, x.ext)}
         \/ draft' = draft
  BY DEF UpdateRule, UpdateRuleFails, Updating, Works, Fault, session, pce, policy, LogError
<1>2. /\ Len(updates') = Len(updates) - 1 /\ updates' \in Seq(Entry) /\ Len(updates) \in Nat
      /\ \A i \in 1..Len(updates') : updates'[i] = updates[i + 1]
      /\ Head(updates) = e /\ 1 \in 1..Len(updates)
  BY <1>1, HeadTailProperties, EmptySeq DEF PairInv
<1>3. ASSUME flags.matchOnExt /\ Distinct /\ UniqueKeys
      PROVE  /\ OnePerKey(loaded)'
             /\ \A i \in 1..Len(updates') :
                  \E x \in loaded' : x.id = updates'[i].id /\ HasKey(x, updates'[i].row)
  <2>1. OnePerKey(loaded)
        /\ \A i \in 1..Len(updates) :
             \E x \in loaded : x.id = updates[i].id /\ HasKey(x, updates[i].row)
    BY <1>1, <1>3 DEF PairInv, Keyed
  <2>2. \A i \in 1..Len(updates') : i + 1 \in 1..Len(updates) /\ updates'[i] = updates[i + 1]
    BY <1>2
  <2> QED
    BY <1>1, <2>1, <2>2 DEF OnePerKey
<1>4. Numbered(loaded)'
  BY <1>1 DEF PairInv, Numbered
<1>5. Distinct' <=> Distinct
  BY <1>1 DEF Distinct
<1>6. CASE draft' = draft
  <2>1. Numbered(draft)' /\ (flags.matchOnExt /\ Distinct /\ UniqueKeys => OnePerKey(draft)')
    BY <1>1, <1>6 DEF PairInv, Numbered, Keyed, OnePerKey
  <2>2. flags.matchOnExt /\ Distinct /\ UniqueKeys =>
          \A x \in loaded', y \in draft' : x.id = y.id => SamePair(x, y)
    BY <1>1, <1>6 DEF PairInv, Keyed
  <2> QED
    BY <1>1, <1>2, <1>3, <1>4, <1>5, <2>1, <2>2 DEF PairInv, Keyed
<1>7. ASSUME NEW x \in draft, x.id = e.id,
             draft' = (draft \ {x}) \cup {Pushed(e, x.id, x.rs, x.ext)}
      PROVE  PairInv'
  <2> DEFINE p == Pushed(e, x.id, x.rs, x.ext)
  <2>1. /\ p.id = x.id /\ {"id", "rs", "ext"} \subseteq DOMAIN p
        /\ p.ext = IF e.row.ext = NoExt THEN x.ext ELSE e.row.ext
    BY DEF Pushed
  <2>2. draft' = (draft \ {x}) \cup {p}
    BY <1>7
  <2> HIDE DEF p, e
  <2>3. \A y \in draft' : y = p \/ (y \in draft /\ y # x)
    BY <2>2
  <2>4. Numbered(draft)'
    BY <1>1, <2>1, <2>3 DEF PairInv, Numbered
  <2>5. ASSUME flags.matchOnExt /\ Distinct /\ UniqueKeys
        PROVE  /\ OnePerKey(draft)'
               /\ \A w \in loaded', y \in draft' : w.id = y.id => SamePair(w, y)
    <3>1. Keyed
      BY <2>5 DEF PairInv
    <3>2. PICK z \in loaded : z.id = e.id /\ HasKey(z, e.row)
      BY <1>1, <1>2, <3>1 DEF Keyed, e
    <3>3. SamePair(z, x)
      BY <1>7, <3>1, <3>2 DEF Keyed
    <3>4. HasKey(z, x) /\ e.row.ext # NoExt /\ p.ext = e.row.ext
      BY <2>1, <3>2, <3>3 DEF SamePair, HasKey
    <3>5. HasKey(z, p) /\ \A y : (HasKey(p, y) <=> HasKey(x, y)) /\ (HasKey(y, p) <=> HasKey(y, x))
      BY <3>2, <3>4 DEF HasKey, Key
    <3>6. OnePerKey(draft)'
      <4>1. \A a, b \in draft : HasKey(a, b) => a = b
        BY <3>1 DEF Keyed, OnePerKey
      <4>2. \A y \in draft' : y # p => ~HasKey(p, y) /\ ~HasKey(y, p)
        BY <1>7, <2>3, <3>5, <4>1
      <4>3. \A a, b \in draft' : HasKey(a, b) => a = b
        BY <2>3, <4>1, <4>2
      <4> QED
        BY <4>3 DEF OnePerKey
    <3>7. \A w \in loaded : w.id = p.id => w = z
      BY <1>7, <2>1, <3>2 DEF PairInv, Numbered
    <3>8. \A w \in loaded', y \in draft' : w.id = y.id => SamePair(w, y)
      BY <1>1, <2>3, <3>1, <3>5, <3>7 DEF Keyed, SamePair
    <3> QED
      BY <3>6, <3>8
  <2> QED
    BY <1>1, <1>2, <1>3, <1>4, <1>5, <2>4, <2>5 DEF PairInv, Keyed
<1> QED
  BY <1>1, <1>2, <1>6, <1>7 DEF Target

\* The delete command takes rules and changes none.
LEMMA DeleteKeepsPairs ==
  ASSUME PairInv, DeleteStep
  PROVE  PairInv'
<1>1. UNCHANGED import
  BY DEF DeleteStep
<1>2. UNCHANGED <<flags, nextId>> /\ draft' \subseteq draft
  <2>1. CASE DeleteDryRun \/ DeleteDenied \/ DeleteApproved
    BY <2>1 DEF DeleteDryRun, DeleteDenied, DeleteApproved, DeleteDecision, NotAsked, Denied,
                Approved, Silent, session, pce, policy
  <2>2. CASE DeleteHref
    BY <2>2 DEF DeleteHref, Silent, Works, session
  <2>3. CASE DeleteHrefFails \/ AllDeleted \/ BulkWorkload \/ BulkWorkloadFails
    BY <2>3 DEF DeleteHrefFails, AllDeleted, BulkWorkload, BulkWorkloadFails, Silent, Works,
                Fault, session, pce, policy
  <2>4. CASE ProvisionDeleted \/ ProvisionDeletedFails \/ NothingToProvision \/ CrashDelete
    BY <2>4 DEF ProvisionDeleted, ProvisionDeletedFails, NothingToProvision, CrashDelete,
                Silent, Works, Fault, session, pce, policy
  <2> QED
    BY <2>1, <2>2, <2>3, <2>4 DEF DeleteStep, DeleteNext
<1> QED
  BY <1>1, <1>2, ThinKeepsPairs DEF import, plan, PairInv, Numbered

\* Others delete a rule, switch one on or off, or make a label.
LEMMA OthersKeepPairs ==
  ASSUME PairInv, Others
  PROVE  PairInv'
<1>1. UNCHANGED <<flags, file, loaded, creates, updates, nextId, rowNo, phase>>
  BY DEF Others, Fault, plan
<1>2. CASE draft' \subseteq draft
  BY <1>1, <1>2, ThinKeepsPairs DEF PairInv, Numbered
<1>3. ASSUME NEW x \in draft, draft' = (draft \ {x}) \cup {[x EXCEPT !.enabled = ~@]}
      PROVE  PairInv'
  <2> DEFINE p == [x EXCEPT !.enabled = ~@]
  <2>1. p.id = x.id /\ p.ext = x.ext /\ {"id", "rs", "ext"} \subseteq DOMAIN p
    BY DEF PairInv, Numbered
  <2>2. \A y \in draft' : y = p \/ (y \in draft /\ y # x)
    BY <1>3
  <2> HIDE DEF p
  <2> QED
    BY <1>1, <2>1, <2>2, ThinKeepsPairs DEF PairInv, Numbered
<1> QED
  BY <1>2, <1>3 DEF Others

\* Everything else leaves the rules, the plan and its place in the file alone,
\* or goes on to the next row.
LEMMA OtherStepsKeepPairs ==
  ASSUME PairInv,
         \/ SkipRow \/ CreateLabel \/ CreateLabelFails \/ MissingLabel \/ Panic \/ RowsDone
         \/ DryRun \/ PromptDenied \/ Approve \/ CreatesDone \/ UpdatesDone
         \/ Provision \/ ProvisionFails \/ Crash \/ Rerun \/ Delete \/ UNCHANGED vars
  PROVE  PairInv'
<1> USE DEF Unpushed, session, pce, policy, plan
<1>1. CASE SkipRow \/ CreateLabel
  BY <1>1, QuietKeepsPairs DEF SkipRow, CreateLabel, NeedsLabel, AtRow, Silent
<1>2. CASE CreateLabelFails
  BY <1>2, QuietKeepsPairs DEF CreateLabelFails, NeedsLabel, AtRow, Fault, LogError
<1>3. CASE MissingLabel \/ Panic
  BY <1>3, QuietKeepsPairs DEF MissingLabel, Panic, Silent
<1>4. CASE RowsDone
  BY <1>4, QuietKeepsPairs DEF RowsDone, Silent
<1>5. CASE DryRun \/ PromptDenied \/ Approve
  <2>1. /\ UNCHANGED flags /\ UNCHANGED <<pce, del, file, plan, deleteFile, prov, settled>>
        /\ phase = "decide" /\ phase' \in {"ended", "create"}
    BY <1>5 DEF DryRun, PromptDenied, Approve, Decision, NotAsked, Denied, Approved, Silent
  <2> QED
    BY <2>1, QuietKeepsPairs
<1>6. CASE CreatesDone \/ UpdatesDone
  BY <1>6, QuietKeepsPairs DEF CreatesDone, UpdatesDone, Silent
<1>7. CASE Provision \/ ProvisionFails \/ Crash
  BY <1>7, QuietKeepsPairs DEF Provision, ProvisionFails, Crash, Works, Fault, LogError
<1>8. CASE Rerun \/ Delete
  BY <1>8, QuietKeepsPairs DEF Rerun, Delete, StartDelete, NextCommand, Done
<1>9. CASE UNCHANGED vars
  BY <1>9, QuietKeepsPairs DEF vars, storeVars, import
<1> QED
  BY <1>1, <1>2, <1>3, <1>4, <1>5, <1>6, <1>7, <1>8, <1>9

\* With --match-on-ext the import never makes a second rule for one pair,
\* although a create may have succeeded without an answer, the process may die
\* anywhere, others delete rules and the operator runs it again.
THEOREM NoSecondRule ==
  ASSUME UniqueKeys
  PROVE  Spec => []OneRulePerPair
<1>1. Init => PairInv
  BY PairInit
<1>2. PairInv /\ [Next]_vars => PairInv'
  BY LoadKeepsPairs, PlanKeepsPairs, CreateKeepsPairs, UpdateKeepsPairs, DeleteKeepsPairs,
     OthersKeepPairs, OtherStepsKeepPairs DEF Next, RunStep
<1>3. PairInv => OneRulePerPair
  BY DEF PairInv, Keyed, OnePerKey, OneRulePerPair
<1> QED
  BY <1>1, <1>2, <1>3, PTL DEF Spec
-----------------------------------------------------------------------------
(* What an undisturbed run changes is provisioned. *)

Working == {"rows", "decide", "create", "update", "provision"}

\* Rules that the draft has and the snapshot has not, or the other way round.
Drift == (draft \ loaded) \cup (loaded \ draft)

\* The inductive invariant: until the command pushes, an undisturbed one has the
\* draft as it loaded it, and from then on collects the rulesets of all drift.
DriftInv ==
  /\ phase \in Working => ~settled
  /\ alone /\ phase \in {"rows", "decide"} => draft = loaded
  /\ alone /\ phase \in Pushing => \A x \in Drift : x.rs \in prov
  /\ ChangesProvisioned

\* Where the property looks.
Judged == phase = "ended" /\ settled /\ flags.provision /\ del.phase = "idle"

\* Steps that change no rule.
LEMMA QuietKeepsDrift ==
  ASSUME DriftInv, UNCHANGED <<draft, loaded, active, prov>>,
         alone' => alone,
         phase' \in Working => ~settled',
         phase' \in {"rows", "decide"} => phase \in {"rows", "decide"},
         phase' \in Pushing => phase \in Pushing \cup {"decide"},
         Judged' => Judged
  PROVE  DriftInv'
<1>1. alone' /\ phase' \in {"rows", "decide"} => (draft = loaded)'
  BY DEF DriftInv
<1>2. Drift' = Drift
  BY DEF Drift
<1>3. alone /\ phase \in Pushing \cup {"decide"} => \A x \in Drift : x.rs \in prov
  BY DEF DriftInv, Drift
<1>4. ChangesProvisioned'
  BY DEF DriftInv, ChangesProvisioned, Judged
<1> QED
  BY <1>1, <1>2, <1>3, <1>4 DEF DriftInv

\* Steps after which the run is disturbed, or over without a claim.
LEMMA DisturbedKeepsDrift ==
  ASSUME phase' \in Working => ~settled' /\ ~alone', ~Judged'
  PROVE  DriftInv'
BY Zenon DEF DriftInv, ChangesProvisioned, Judged, Working, Pushing

LEMMA RunKeepsDrift ==
  ASSUME GateInv, DriftInv, RunStep
  PROVE  DriftInv'
<1> USE DEF Working, Pushing
<1>1. CASE Load
  <2>1. loaded' = draft /\ draft' = draft /\ phase' = "rows" /\ settled' = FALSE
    BY <1>1 DEF Load, pce, policy
  <2> QED
    BY <2>1, Zenon DEF DriftInv, ChangesProvisioned
<1>2. CASE SkipRow \/ CreateLabel \/ MissingLabel \/ Panic
  <2>1. /\ UNCHANGED <<draft, loaded, active, prov, alone, settled>>
        /\ phase = "rows" /\ phase' \in {"rows", "dead"}
    BY <1>2 DEF SkipRow, CreateLabel, MissingLabel, Panic, NeedsLabel, Ready, AtRow, Silent,
                session, pce, policy, plan
  <2> QED
    BY <2>1, QuietKeepsDrift DEF DriftInv, Judged
<1>3. CASE PlanRow
  <2>1. /\ UNCHANGED <<draft, loaded, active, prov, settled>> /\ (alone' => alone)
        /\ phase = "rows" /\ phase' = "rows"
    BY <1>3 DEF PlanRow, Ready, AtRow, pce, policy
  <2> QED
    BY <2>1, QuietKeepsDrift DEF DriftInv, Judged
<1>4. CASE RowsDone
  <2>1. /\ UNCHANGED <<draft, loaded, active, prov, alone>> /\ phase = "rows"
        /\ phase' \in {"ended", "decide"}
    BY <1>4 DEF RowsDone, Silent, session, pce, policy, plan
  <2>2. settled' => alone /\ phase' = "ended"
    BY <1>4 DEF RowsDone
  <2>3. CASE settled'
    <3>1. draft' = loaded' /\ phase' = "ended"
      BY <2>1, <2>2, <2>3 DEF DriftInv
    <3> QED
      BY <3>1 DEF DriftInv, ChangesProvisioned
  <2>4. CASE ~settled'
    BY <2>1, <2>4, QuietKeepsDrift DEF Judged
  <2> QED
    BY <2>3, <2>4
<1>5. CASE DryRun \/ PromptDenied \/ Approve
  <2>1. /\ UNCHANGED <<draft, loaded, active, prov, alone, settled>>
        /\ phase = "decide" /\ phase' \in {"ended", "create"}
    BY <1>5 DEF DryRun, PromptDenied, Approve, Decision, NotAsked, Denied, Approved, Silent,
                session, pce, policy, plan
  <2> QED
    BY <2>1, QuietKeepsDrift DEF DriftInv, Judged
<1>6. CASE CreatesDone
  <2>1. /\ UNCHANGED <<draft, loaded, active, prov, alone, settled>>
        /\ phase = "create" /\ phase' = "update"
    BY <1>6 DEF CreatesDone, Silent, session, pce, policy, plan
  <2> QED
    BY <2>1, QuietKeepsDrift DEF DriftInv, Judged
<1>7. CASE UpdatesDone
  <2>1. /\ UNCHANGED <<draft, loaded, active, prov, alone, flags>>
        /\ phase = "update" /\ phase' \in {"provision", "ended"}
    BY <1>7 DEF UpdatesDone, Silent, session, pce, policy, plan
  <2>2. settled' => ~flags.provision /\ phase' = "ended"
    BY <1>7 DEF UpdatesDone
  <2> QED
    BY <2>1, <2>2, QuietKeepsDrift DEF Judged
<1>8. CASE CreateRule
  <2> DEFINE p == Pushed(Head(creates), nextId, Head(creates).row.rs, NoExt)
  <2>1. /\ draft' = draft \cup {p} /\ prov' = prov \cup {Head(creates).row.rs}
        /\ phase = "create" /\ phase' = "create" /\ UNCHANGED <<loaded, alone, settled>>
    BY <1>8 DEF CreateRule, Creating, Stored, ToProvision, Works
  <2>2. p.rs = Head(creates).row.rs
    BY DEF Pushed
  <2> HIDE DEF p
  <2>3. \A x \in Drift' : x \in Drift \/ x = p
    BY <2>1 DEF Drift
  <2>4. alone' => \A x \in Drift' : x.rs \in prov'
    BY <2>1, <2>2, <2>3 DEF DriftInv
  <2> QED
    BY <2>1, <2>4 DEF DriftInv, ChangesProvisioned
<1>9. CASE UpdateRule
  <2>1. PICK x \in draft :
          /\ draft' = (draft \ {x}) \cup {Pushed(Head(updates), x.id, x.rs, x.ext)}
          /\ prov' = prov \cup {x.rs}
    BY <1>9 DEF UpdateRule, Target, ToProvision
  <2> DEFINE p == Pushed(Head(updates), x.id, x.rs, x.ext)
  <2>2. p.rs = x.rs
    BY DEF Pushed
  <2>3. draft' = (draft \ {x}) \cup {p}
    BY <2>1
  <2>4. phase = "update" /\ phase' = "update" /\ UNCHANGED <<loaded, alone, settled>>
    BY <1>9 DEF UpdateRule, Updating, Works
  <2> HIDE DEF p
  <2>5. \A y \in Drift' : y \in Drift \/ y = p \/ y = x
    BY <2>3, <2>4 DEF Drift
  <2>6. alone' => \A y \in Drift' : y.rs \in prov'
    BY <2>1, <2>2, <2>4, <2>5 DEF DriftInv
  <2> QED
    BY <2>4, <2>6 DEF DriftInv, ChangesProvisioned
<1>10. CASE Provision
  <2>1. /\ active' = Provisioned(prov) /\ phase' = "ended" /\ phase = "provision"
        /\ (settled' => alone) /\ UNCHANGED <<draft, loaded, prov>>
    BY <1>10 DEF Provision, plan
  <2>2. alone => \A x \in Drift : x.rs \in prov
    BY <2>1 DEF DriftInv
  <2>3. \A r \in prov : {y \in active' : y.rs = r} = {y \in draft' : y.rs = r}
    BY <2>1 DEF Provisioned
  <2>4. ChangesProvisioned'
    BY <2>1, <2>2, <2>3 DEF ChangesProvisioned, Drift
  <2> QED
    BY <2>1, <2>4 DEF DriftInv
<1> QED
  BY <1>1, <1>2, <1>3, <1>4, <1>5, <1>6, <1>7, <1>8, <1>9, <1>10 DEF RunStep

LEMMA OthersKeepDrift ==
  ASSUME GateInv, DriftInv,
         \/ CreateLabelFails \/ CreateRuleFails \/ UpdateRuleFails \/ ProvisionFails \/ Crash
         \/ Rerun \/ Delete \/ DeleteStep \/ Others \/ UNCHANGED vars
  PROVE  DriftInv'
<1> USE DEF Working, Pushing, Judged
<1>1. CASE CreateLabelFails \/ UpdateRuleFails \/ ProvisionFails
  <2>1. /\ phase \in Working /\ alone' = FALSE /\ UNCHANGED settled
    BY <1>1 DEF CreateLabelFails, UpdateRuleFails, ProvisionFails, NeedsLabel, AtRow, Updating,
                Fault
  <2> QED
    BY <2>1, DisturbedKeepsDrift DEF DriftInv
<1>2. CASE CreateRuleFails
  <2>1. phase = "create" /\ phase' \in {"create", "dead"} /\ UNCHANGED settled
    BY <1>2 DEF CreateRuleFails, Creating, LogError
  <2>2. alone' = FALSE \/ UNCHANGED <<alone, draft, loaded, active, prov>>
    BY <1>2 DEF CreateRuleFails, Fault, Silent, session
  <2>3. CASE alone' = FALSE
    BY <2>1, <2>3, DisturbedKeepsDrift DEF DriftInv
  <2>4. CASE UNCHANGED <<alone, draft, loaded, active, prov>>
    BY <2>1, <2>4, QuietKeepsDrift DEF DriftInv
  <2> QED
    BY <2>2, <2>3, <2>4
<1>3. CASE Crash \/ Rerun
  <2>1. phase' \in {"dead", "load"}
    BY <1>3 DEF Crash, Rerun
  <2> QED
    BY <2>1, DisturbedKeepsDrift
<1>4. CASE Delete
  <2> PICK list : StartDelete(list)
    BY <1>4 DEF Delete
  <2>1. phase' = phase /\ phase \in Done /\ del'.phase = "gate"
    BY <1>4 DEF Delete, StartDelete
  <2> QED
    BY <2>1, DisturbedKeepsDrift DEF Done
<1>5. CASE DeleteStep
  <2>1. phase' = phase /\ phase \in Done
    BY <1>5 DEF DeleteStep, import, DeleteNext, DeleteDryRun, DeleteDenied, DeleteApproved,
                DeleteDecision, DeleteHref, DeleteHrefFails, AllDeleted, BulkWorkload,
                BulkWorkloadFails, ProvisionDeleted, ProvisionDeletedFails,
                NothingToProvision, CrashDelete, GateInv, DeleteDone
  <2>2. del'.phase # "idle"
    BY <1>5 DEF DeleteStep, DeleteNext, DeleteDryRun, DeleteDenied, DeleteApproved,
                DeleteDecision, DeleteHref, DeleteHrefFails, AllDeleted, BulkWorkload,
                BulkWorkloadFails, ProvisionDeleted, ProvisionDeletedFails,
                NothingToProvision, CrashDelete, GateInv, LogError
  <2> QED
    BY <2>1, <2>2, DisturbedKeepsDrift DEF Done
<1>6. CASE Others
  <2>1. alone' = FALSE /\ settled' = FALSE
    BY <1>6 DEF Others, Fault
  <2> QED
    BY <2>1, DisturbedKeepsDrift
<1>7. CASE UNCHANGED vars
  BY <1>7, QuietKeepsDrift DEF vars, storeVars, pce, policy, session, import, plan, DriftInv
<1> QED
  BY <1>1, <1>2, <1>3, <1>4, <1>5, <1>6, <1>7

\* After an undisturbed run with --provision the rulesets it changed are in
\* force as drafted.
THEOREM DriftProvisioned == Spec => []ChangesProvisioned
<1>1. Init => GateInv /\ DriftInv
  BY GateInit DEF Init, DriftInv, ChangesProvisioned, Working, Pushing
<1>2. GateInv /\ DriftInv /\ [Next]_vars => (GateInv /\ DriftInv)'
  BY ImportKeepsGate, DeleteKeepsGate, SessionKeepsGate, RunKeepsDrift, OthersKeepDrift
     DEF Next
<1>3. DriftInv => ChangesProvisioned
  BY DEF DriftInv
<1> QED
  BY <1>1, <1>2, <1>3, PTL DEF Spec

-----------------------------------------------------------------------------
(* An undisturbed run puts every row into force in the draft. *)

\* A row read is held by a planned entry or by a rule of the draft.
Held(r) ==
  /\ Match(r) = {} =>
       \/ \E i \in 1..Len(creates) : creates[i].row = r /\ creates[i].labels = r.labels
       \/ \E x \in draft : Reflects(x, r) /\ x.id \notin Ids(loaded)
  /\ \A x \in Match(r) :
       \/ \E i \in 1..Len(updates) : updates[i].id = x.id /\ updates[i].row = r
       \/ \E y \in draft : y.id = x.id /\ Reflects(y, r)

\* Updates are of rows and the rules they match, with the labels of the row.
UpdatesFit ==
  \A i \in 1..Len(updates) :
    /\ updates[i].row \in Range(file) /\ updates[i].labels = updates[i].row.labels
    /\ updates[i].id \in Ids(Match(updates[i].row))

\* Rows that have been read.
Read(n) == phase = "rows" => n < rowNo

AllHeld == \A n \in 1..Len(file) : Read(n) /\ Acts(file[n]) => Held(file[n])

\* No list is left when its stage is over.
Emptied ==
  /\ phase \in {"update", "provision"} => creates = <<>>
  /\ phase = "provision" => updates = <<>>

\* The inductive invariant: no label of an undisturbed command is without an
\* href, and it holds the rows that it has read.
RowsInv ==
  /\ alone /\ phase \in Working => empty = {}
  /\ Emptied
  /\ phase \in Working /\ alone /\ Distinct /\ flags.updatePCE => UpdatesFit /\ AllHeld
  /\ RowsInDraft

\* Where the property looks.
RowsJudged == settled /\ del.phase = "idle" /\ phase = "ended"

\* A rule is matched by one row of a file whose keys, or hrefs, differ.
LEMMA RowOfRule ==
  ASSUME Distinct, Numbered(loaded), NEW n \in 1..Len(file), NEW m \in 1..Len(file),
         NEW x \in Match(file[n]), x \in Match(file[m])
  PROVE  n = m
<1>1. x.id # 0
  BY StoreAssumption DEF Numbered, RuleIds, Match
<1>2. CASE flags.matchOnExt
  <2>1. HasKey(x, file[n]) /\ HasKey(x, file[m])
    BY <1>2 DEF Match
  <2> QED
    BY <1>2, <2>1 DEF HasKey, Distinct
<1>3. CASE ~flags.matchOnExt
  BY <1>1, <1>3 DEF Match, Distinct
<1> QED
  BY <1>2, <1>3

\* A row matches one rule at most.
LEMMA OneMatch ==
  ASSUME Numbered(loaded), NEW r, NEW x \in Match(r), NEW y \in Match(r)
  PROVE  x = y
<1>1. x \in loaded /\ y \in loaded /\ x.id \in Nat /\ y.id \in Nat
  BY StoreAssumption DEF Match, Numbered, RuleIds
<1>2. x.id = y.id
  BY <1>1 DEF Match
<1> QED
  BY <1>1, <1>2 DEF Numbered

\* Steps that leave the rules and the lists as they are.
LEMMA QuietKeepsRows ==
  ASSUME RowsInv, UNCHANGED <<flags, file, loaded, draft, creates, updates, empty>>,
         alone' => alone,
         phase' \in Working => phase \in Working,
         \A n \in 1..Len(file) : Read(n)' /\ Acts(file[n]) => Read(n),
         Emptied',
         RowsJudged' => RowsJudged
  PROVE  RowsInv'
<1>1. \A r : Match(r)' = Match(r)
  BY DEF Match
<1>2. /\ Distinct' <=> Distinct
      /\ UpdatesFit' <=> UpdatesFit
      /\ \A r : Held(r)' <=> Held(r)
      /\ \A r : Acts(r)' <=> Acts(r)
  BY <1>1 DEF Distinct, UpdatesFit, Held, Acts
<1>3. UpdatesFit /\ AllHeld => UpdatesFit' /\ AllHeld'
  BY <1>2 DEF AllHeld
<1>4. RowsInDraft'
  BY <1>1, <1>2 DEF RowsInv, RowsInDraft, RowsJudged, Rows
<1> QED
  BY <1>2, <1>3, <1>4 DEF RowsInv

\* Steps after which the run is disturbed, or over without a claim.
LEMMA DisturbedKeepsRows ==
  ASSUME phase' \in Working => ~alone', Emptied', ~RowsJudged'
  PROVE  RowsInv'
BY Zenon DEF RowsInv, RowsInDraft, RowsJudged

\* An undisturbed run that has nothing left to push.
LEMMA EndedHoldsRows ==
  ASSUME RowsInv, phase \in Working, alone, flags.updatePCE,
         creates = <<>>, updates = <<>>, \A n \in 1..Len(file) : Read(n),
         file \in Seq(Row),
         UNCHANGED <<flags, file, loaded, draft>>, phase' = "ended"
  PROVE  RowsInv'
<1>1. \A r : Match(r)' = Match(r)
  BY DEF Match
<1>2. (Distinct' <=> Distinct) /\ \A r : Acts(r)' <=> Acts(r)
  BY <1>1 DEF Distinct, Acts
<1>3. RowsInDraft'
  <2> SUFFICES ASSUME Distinct, NEW r \in Range(file), Acts(r)
               PROVE  \E x \in draft :
                        /\ Reflects(x, r)
                        /\ IF Match(r) = {} THEN x.id \notin Ids(loaded) ELSE x.id \in Ids(Match(r))
    BY <1>1, <1>2 DEF RowsInDraft, Rows
  <2>1. PICK n \in 1..Len(file) : r = file[n]
    BY DEF Range
  <2>2. Held(r)
    BY <2>1 DEF RowsInv, AllHeld
  <2>3. CASE Match(r) = {}
    BY <2>2, <2>3 DEF Held
  <2>4. CASE Match(r) # {}
    BY <2>2, <2>4 DEF Held, Ids
  <2> QED
    BY <2>3, <2>4
<1> QED
  BY <1>3 DEF RowsInv, Emptied, Working

LEMMA PlanKeepsRows ==
  ASSUME GateInv, DriftInv, PairInv, RowsInv, PlanRow
  PROVE  RowsInv'
<1>1. PICK r \in Range(file) :
        /\ Ready(r) /\ ~Panics(r)
        /\ creates' = IF ~Dropped(r) /\ Match(r) = {}
                      THEN Append(creates, [row |-> r, id |-> 0, labels |-> RowLabels(r)])
                      ELSE creates
        /\ updates' = IF Dropped(r) THEN updates ELSE PlanUpdate(r)
        /\ alone' = (alone /\ ~LabelIsFatal(r))
  BY DEF PlanRow
<1>2. /\ rowNo' = rowNo + 1 /\ phase = "rows" /\ phase' = "rows"
      /\ UNCHANGED <<flags, file, loaded, draft, empty, settled, del>>
  BY <1>1 DEF PlanRow, Ready, AtRow, pce, policy
<1>3. /\ rowNo \in 1..Len(file) /\ r = file[rowNo]
      /\ creates \in Seq(Entry) /\ updates \in Seq(Entry) /\ Numbered(loaded)
  BY <1>1 DEF Ready, AtRow, PairInv
<1>4. \A q : Match(q)' = Match(q)
  BY <1>2 DEF Match
<1>5. (Distinct' <=> Distinct) /\ \A q : Acts(q)' <=> Acts(q)
  BY <1>2, <1>4 DEF Distinct, Acts
<1>6. ~settled
  BY <1>2 DEF DriftInv, Working
<1>7. Emptied' /\ RowsInDraft'
  BY <1>2, <1>6 DEF Emptied, RowsInDraft
<1>8. alone' => alone /\ empty = {}
  BY <1>1, <1>2 DEF RowsInv, Working
<1>9. ASSUME alone', Distinct, flags.updatePCE
      PROVE  UpdatesFit' /\ AllHeld'
  <2>1. UpdatesFit /\ AllHeld /\ draft = loaded
    BY <1>2, <1>8, <1>9 DEF RowsInv, DriftInv, Working
  <2>2. Missing(r) = {} /\ RowLabels(r) = r.labels
    <3>1. Missing(r) = {}
      BY <1>1, <1>9 DEF Ready, LabelIsFatal
    <3> QED
      BY <3>1 DEF Missing, RowLabels
  <2>3. /\ \A i \in 1..Len(creates) : i \in 1..Len(creates') /\ creates'[i] = creates[i]
        /\ ~Dropped(r) /\ Match(r) = {} =>
             \E i \in 1..Len(creates') : creates'[i].row = r /\ creates'[i].labels = r.labels
    <3> DEFINE e == [row |-> r, id |-> 0, labels |-> RowLabels(r)]
    <3>1. e.row = r /\ e.labels = r.labels
      BY <2>2
    <3>2. creates' = creates \/ creates' = Append(creates, e)
      BY <1>1
    <3>3. ~Dropped(r) /\ Match(r) = {} => creates' = Append(creates, e)
      BY <1>1
    <3> HIDE DEF e
    <3>4. CASE creates' = creates /\ ~(~Dropped(r) /\ Match(r) = {})
      BY <3>4
    <3>5. CASE creates' = Append(creates, e)
      <4>1. /\ Len(creates) \in Nat /\ Len(creates') = Len(creates) + 1
            /\ creates'[Len(creates) + 1] = e
            /\ \A i \in 1..Len(creates) : creates'[i] = creates[i]
        BY <1>3, <3>5, AppendProperties, LenProperties
      <4> QED
        BY <3>1, <4>1
    <3> QED
      BY <3>2, <3>3, <3>4, <3>5
  <2>4. /\ \A i \in 1..Len(updates) : i \in 1..Len(updates') /\ updates'[i] = updates[i]
        /\ ~Dropped(r) => \A x \in Match(r) : Differs(x, r) =>
             \E i \in 1..Len(updates') : updates'[i].row = r /\ updates'[i].id = x.id
        /\ \A i \in 1..Len(updates') :
             \/ i \in 1..Len(updates)
             \/ updates'[i].row = r /\ updates'[i].labels = r.labels /\ updates'[i].id \in Ids(Match(r))
    <3>1. CASE updates' = updates /\ (~Dropped(r) => \A x \in Match(r) : ~Differs(x, r))
      BY <3>1
    <3>2. ASSUME NEW x \in Match(r),
                 updates' = Append(updates, [row |-> r, id |-> x.id, labels |-> RowLabels(r)])
          PROVE  /\ \A i \in 1..Len(updates) : i \in 1..Len(updates') /\ updates'[i] = updates[i]
                 /\ \A y \in Match(r) :
                      \E i \in 1..Len(updates') : updates'[i].row = r /\ updates'[i].id = y.id
                 /\ \A i \in 1..Len(updates') :
                      \/ i \in 1..Len(updates)
                      \/ /\ updates'[i].row = r /\ updates'[i].labels = r.labels
                         /\ updates'[i].id \in Ids(Match(r))
      <4> DEFINE e == [row |-> r, id |-> x.id, labels |-> RowLabels(r)]
      <4>1. e.row = r /\ e.labels = r.labels /\ e.id = x.id
        BY <2>2
      <4>2. updates' = Append(updates, e)
        BY <3>2
      <4> HIDE DEF e
      <4>3. /\ Len(updates) \in Nat /\ Len(updates') = Len(updates) + 1
            /\ updates'[Len(updates) + 1] = e
            /\ \A i \in 1..Len(updates) : updates'[i] = updates[i]
        BY <1>3, <4>2, AppendProperties, LenProperties
      <4>4. \A y \in Match(r) : y = x
        BY <1>3, OneMatch
      <4>5. \A i \in 1..Len(updates') : i \in 1..Len(updates) \/ i = Len(updates) + 1
        BY <4>3
      <4>6. Len(updates) + 1 \in 1..Len(updates') /\ x.id \in Ids(Match(r))
        BY <4>3 DEF Ids
      <4>7. \A i \in 1..Len(updates) : i \in 1..Len(updates') /\ updates'[i] = updates[i]
        BY <4>3
      <4> DEFINE k == Len(updates) + 1
      <4>8. k \in 1..Len(updates') /\ updates'[k] = e
        BY <4>3, <4>6
      <4> HIDE DEF k
      <4>9. \A y \in Match(r) : updates'[k].row = r /\ updates'[k].id = y.id
        BY <4>1, <4>4, <4>8
      <4>10. \A i \in 1..Len(updates') :
               \/ i \in 1..Len(updates)
               \/ /\ updates'[i].row = r /\ updates'[i].labels = r.labels
                  /\ updates'[i].id \in Ids(Match(r))
        BY <4>1, <4>5, <4>6, <4>8 DEF k
      <4> QED
        BY <4>7, <4>8, <4>9, <4>10
    <3> QED
      BY <1>1, <3>1, <3>2 DEF PlanUpdate
  <2>5. UpdatesFit'
    BY <1>2, <1>4, <2>1, <2>4 DEF UpdatesFit
  <2>6. ASSUME NEW n \in 1..Len(file), n < rowNo, Acts(file[n])
        PROVE  Held(file[n])'
    <3> DEFINE q == file[n]
    <3>1. Held(q)
      BY <2>1, <2>6 DEF AllHeld, Read
    <3> HIDE DEF q
    <3>2. ASSUME Match(q) = {}
          PROVE  \/ \E i \in 1..Len(creates') : creates'[i].row = q /\ creates'[i].labels = q.labels
                 \/ \E x \in draft : Reflects(x, q) /\ x.id \notin Ids(loaded)
      BY <2>3, <3>1, <3>2 DEF Held
    <3>3. ASSUME NEW x \in Match(q)
          PROVE  \/ \E i \in 1..Len(updates') : updates'[i].id = x.id /\ updates'[i].row = q
                 \/ \E y \in draft : y.id = x.id /\ Reflects(y, q)
      BY <2>4, <3>1 DEF Held
    <3> QED
      BY <1>2, <1>4, <3>2, <3>3 DEF Held, q
  <2>7. ASSUME Acts(r) PROVE Held(r)'
    <3>1. ~Dropped(r)
      BY <2>7 DEF Acts
    <3>2. ASSUME NEW x \in Match(r), ~Differs(x, r)
          PROVE  x \in draft /\ Reflects(x, r)
      <4>1. x \in loaded
        BY DEF Match
      <4>2. x.kind = r.kind
        BY <1>1 DEF Panics
      <4> QED
        BY <2>1, <2>2, <3>2, <4>1, <4>2 DEF Differs, Reflects
    <3> QED
      BY <1>2, <1>4, <2>3, <2>4, <3>1, <3>2 DEF Held
  <2>8. AllHeld'
    <3> SUFFICES ASSUME NEW n \in 1..Len(file), n < rowNo + 1, Acts(file[n])
                 PROVE  Held(file[n])'
      BY <1>2, <1>5 DEF AllHeld, Read
    <3> QED
      BY <1>2, <1>3, <2>6, <2>7
  <2> QED
    BY <2>5, <2>8
<1> QED
  BY <1>2, <1>5, <1>7, <1>8, <1>9 DEF RowsInv, Working

\* One planned rule is made.
LEMMA CreateKeepsRows ==
  ASSUME GateInv, DriftInv, PairInv, RowsInv, CreateRule
  PROVE  RowsInv'
<1> DEFINE e == creates[1]
           p == Pushed(e, nextId, e.row.rs, NoExt)
<1>1. /\ creates # <<>> /\ creates' = Tail(creates) /\ phase = "create" /\ phase' = "create"
      /\ UNCHANGED <<flags, file, loaded, updates, empty, settled, del, alone>>
  BY DEF CreateRule, Creating, Works
<1>2. /\ Len(creates') = Len(creates) - 1 /\ Len(creates) \in Nat
      /\ \A i \in 1..Len(creates') : creates'[i] = creates[i + 1]
      /\ Head(creates) = e
  BY <1>1, HeadTailProperties, EmptySeq DEF PairInv
<1>3. draft' = draft \cup {p}
  BY <1>2 DEF CreateRule, Stored
<1>4. \A q : Match(q)' = Match(q)
  BY <1>1 DEF Match
<1>5. /\ Distinct' <=> Distinct
      /\ \A q : Acts(q)' <=> Acts(q)
      /\ UpdatesFit' <=> UpdatesFit
  BY <1>1, <1>4 DEF Distinct, Acts, UpdatesFit
<1>6. Emptied' /\ RowsInDraft'
  BY <1>1 DEF Emptied, RowsInDraft
<1>7. p.id \notin Ids(loaded)
  BY StoreAssumption DEF Pushed, Ids, PairInv, Numbered, RuleIds
<1>8. e.labels = e.row.labels => Reflects(p, e.row)
  BY DEF Pushed, Reflects
<1> HIDE DEF p, e
<1>9. ASSUME alone, Distinct, flags.updatePCE, NEW n \in 1..Len(file), Acts(file[n])
      PROVE  Held(file[n])'
  <2> DEFINE r == file[n]
  <2>1. Held(r)
    BY <1>1, <1>9 DEF RowsInv, AllHeld, Read, Working
  <2> HIDE DEF r
  <2>2. ASSUME NEW i \in 1..Len(creates), creates[i].row = r, creates[i].labels = r.labels
        PROVE  \/ \E j \in 1..Len(creates') : creates'[j].row = r /\ creates'[j].labels = r.labels
               \/ \E x \in draft' : Reflects(x, r) /\ x.id \notin Ids(loaded)
    <3>1. CASE i = 1
      BY <1>3, <1>7, <1>8, <2>2, <3>1 DEF e
    <3>2. CASE i # 1
      <4>1. i - 1 \in 1..Len(creates') /\ creates'[i - 1] = creates[i]
        BY <1>2, <3>2
      <4> QED
        BY <2>2, <4>1
    <3> QED
      BY <3>1, <3>2
  <2>3. Held(r)'
    BY <1>1, <1>3, <1>4, <2>1, <2>2 DEF Held, r
  <2> QED
    BY <1>1, <2>3 DEF r
<1> QED
  BY <1>1, <1>5, <1>6, <1>9 DEF RowsInv, AllHeld, Working

\* One planned update is made: only the rule of its own row changes.
LEMMA UpdateKeepsRows ==
  ASSUME GateInv, DriftInv, PairInv, RowsInv, UpdateRule
  PROVE  RowsInv'
<1> DEFINE e == updates[1]
<1>1. /\ updates # <<>> /\ updates' = Tail(updates) /\ phase = "update" /\ phase' = "update"
      /\ UNCHANGED <<flags, file, loaded, creates, empty, settled, del, alone>>
  BY DEF UpdateRule, Updating, Works
<1>2. /\ Len(updates') = Len(updates) - 1 /\ Len(updates) \in Nat
      /\ \A i \in 1..Len(updates') : updates'[i] = updates[i + 1] /\ i + 1 \in 1..Len(updates)
      /\ Head(updates) = e /\ 1 \in 1..Len(updates)
  BY <1>1, HeadTailProperties, EmptySeq DEF PairInv
<1>3. PICK x \in draft :
        x.id = e.id /\ draft' = (draft \ {x}) \cup {Pushed(e, x.id, x.rs, x.ext)}
  BY <1>2 DEF UpdateRule, Target
<1> DEFINE p == Pushed(e, x.id, x.rs, x.ext)
<1>4. draft' = (draft \ {x}) \cup {p}
  BY <1>3
<1>5. p.id = x.id /\ (e.labels = e.row.labels => Reflects(p, e.row))
  BY DEF Pushed, Reflects
<1>6. \A q : Match(q)' = Match(q)
  BY <1>1 DEF Match
<1>7. (Distinct' <=> Distinct) /\ \A q : Acts(q)' <=> Acts(q)
  BY <1>1, <1>6 DEF Distinct, Acts
<1>8. Emptied' /\ RowsInDraft'
  BY <1>1 DEF Emptied, RowsInDraft, RowsInv
<1> HIDE DEF p, e
<1>9. ASSUME alone, Distinct, flags.updatePCE
      PROVE  UpdatesFit' /\ AllHeld'
  <2>1. UpdatesFit /\ AllHeld
    BY <1>1, <1>9 DEF RowsInv, Working
  <2>2. UpdatesFit'
    BY <1>1, <1>2, <1>6, <2>1 DEF UpdatesFit
  <2>3. e.row \in Range(file) /\ e.labels = e.row.labels
    BY <1>2, <2>1 DEF UpdatesFit, e
  <2>4. PICK z \in Match(e.row) : z.id = e.id
    BY <1>2, <2>1 DEF UpdatesFit, e, Ids
  <2>5. PICK m \in 1..Len(file) : e.row = file[m]
    BY <2>3 DEF Range
  <2>6. Reflects(p, e.row) /\ z \in loaded
    BY <1>5, <2>3 DEF Match
  <2>7. ASSUME NEW n \in 1..Len(file), Acts(file[n])
        PROVE  Held(file[n])'
    <3> DEFINE r == file[n]
    <3>1. Held(r)
      BY <1>1, <2>1, <2>7 DEF AllHeld, Read
    <3>2. ASSUME NEW y \in Match(r), y.id = x.id
          PROVE  p \in draft' /\ p.id = y.id /\ Reflects(p, r)
      <4>1. y = z
        BY <1>3, <2>4, <2>6, <3>2 DEF Match, PairInv, Numbered
      <4>2. n = m
        BY <1>9, <2>4, <2>5, <4>1, RowOfRule DEF PairInv
      <4> QED
        BY <1>4, <1>5, <2>5, <2>6, <3>2, <4>2
    <3> HIDE DEF r
    <3>3. ASSUME Match(r) = {}
          PROVE  \/ \E i \in 1..Len(creates) : creates[i].row = r /\ creates[i].labels = r.labels
                 \/ \E y \in draft' : Reflects(y, r) /\ y.id \notin Ids(loaded)
      <4>1. x.id \in Ids(loaded)
        BY <1>3, <2>4, <2>6 DEF Ids
      <4> QED
        BY <1>4, <3>1, <3>3, <4>1 DEF Held
    <3>4. ASSUME NEW y \in Match(r)
          PROVE  \/ \E i \in 1..Len(updates') : updates'[i].id = y.id /\ updates'[i].row = r
                 \/ \E w \in draft' : w.id = y.id /\ Reflects(w, r)
      <4>1. ASSUME NEW i \in 1..Len(updates), updates[i].id = y.id, updates[i].row = r
            PROVE  \/ \E j \in 1..Len(updates') : updates'[j].id = y.id /\ updates'[j].row = r
                   \/ \E w \in draft' : w.id = y.id /\ Reflects(w, r)
        <5>1. CASE i = 1
          BY <1>3, <3>2, <4>1, <5>1 DEF e
        <5>2. CASE i # 1
          <6>1. i - 1 \in 1..Len(updates') /\ updates'[i - 1] = updates[i]
            BY <1>2, <5>2
          <6> QED
            BY <4>1, <6>1
        <5> QED
          BY <5>1, <5>2
      <4>2. ASSUME NEW w \in draft, w.id = y.id, Reflects(w, r)
            PROVE  \E v \in draft' : v.id = y.id /\ Reflects(v, r)
        <5>1. CASE w = x
          BY <3>2, <4>2, <5>1
        <5>2. CASE w # x
          BY <1>4, <4>2, <5>2
        <5> QED
          BY <5>1, <5>2
      <4> QED
        BY <3>1, <4>1, <4>2 DEF Held
    <3>5. Held(r)'
      BY <1>1, <1>6, <3>3, <3>4 DEF Held, r
    <3> QED
      BY <1>1, <3>5 DEF r
  <2> QED
    BY <1>1, <1>7, <2>2, <2>7 DEF AllHeld
<1> QED
  BY <1>1, <1>7, <1>8, <1>9 DEF RowsInv, Working

LEMMA RunKeepsRows ==
  ASSUME GateInv, DriftInv, PairInv, RowsInv, RunStep
  PROVE  RowsInv'
<1> USE DEF Working, RowsJudged, Read
<1>1. CASE Load
  <2>1. /\ empty' = {} /\ rowNo' = 1 /\ updates' = <<>> /\ phase' = "rows" /\ settled' = FALSE
    BY <1>1 DEF Load
  <2>2. Emptied' /\ RowsInDraft'
    BY <2>1, Zenon DEF Emptied, RowsInDraft
  <2>3. UpdatesFit' /\ AllHeld'
    BY <2>1 DEF UpdatesFit, AllHeld
  <2> QED
    BY <2>1, <2>2, <2>3 DEF RowsInv
<1>2. CASE SkipRow
  <2>1. PICK r \in Range(file) : AtRow(r) /\ Skipped(r)
    BY <1>2 DEF SkipRow
  <2>2. /\ UNCHANGED <<flags, file, loaded, draft, creates, updates, empty, alone, settled, del>>
        /\ phase = "rows" /\ phase' = "rows" /\ rowNo' = rowNo + 1
    BY <1>2, <2>1 DEF SkipRow, AtRow, Silent, session, pce, policy
  <2>3. ~Acts(r) /\ r = file[rowNo]
    BY <2>1 DEF AtRow, Skipped, Acts
  <2>4. \A n \in 1..Len(file) : Read(n)' /\ Acts(file[n]) => Read(n)
    BY <2>2, <2>3 DEF PairInv
  <2> QED
    BY <2>2, <2>4, QuietKeepsRows DEF Emptied
<1>3. CASE CreateLabel \/ MissingLabel \/ Panic
  <2>1. /\ UNCHANGED <<flags, file, loaded, draft, creates, updates, empty, rowNo, alone, settled, del>>
        /\ phase = "rows" /\ phase' \in {"rows", "dead"}
    BY <1>3 DEF CreateLabel, MissingLabel, Panic, NeedsLabel, Ready, AtRow, Silent,
                session, pce, policy, plan
  <2>2. phase' = "dead" => RowsInv'
    BY <2>1, DisturbedKeepsRows DEF Emptied
  <2>3. phase' = "rows" => RowsInv'
    BY <2>1, QuietKeepsRows DEF Emptied
  <2> QED
    BY <2>1, <2>2, <2>3
<1>4. CASE PlanRow
  BY <1>4, PlanKeepsRows
<1>5. CASE RowsDone
  <2>1. /\ UNCHANGED <<flags, file, loaded, draft, creates, updates, empty, rowNo, alone, del>>
        /\ phase = "rows" /\ phase' \in {"ended", "decide"} /\ rowNo > Len(file)
        /\ settled' => Nothing /\ alone /\ flags.updatePCE /\ phase' = "ended"
    BY <1>5 DEF RowsDone, Silent, session, pce, policy, plan
  <2>2. \A n \in 1..Len(file) : Read(n)
    BY <2>1 DEF PairInv
  <2>3. CASE settled'
    BY <2>1, <2>2, <2>3, EndedHoldsRows DEF Nothing, PairInv
  <2>4. CASE ~settled'
    BY <2>1, <2>2, <2>4, QuietKeepsRows DEF Emptied
  <2> QED
    BY <2>3, <2>4
<1>6. CASE DryRun \/ PromptDenied \/ Approve
  <2>1. /\ UNCHANGED <<flags, file, loaded, draft, creates, updates, empty, rowNo, alone, settled, del>>
        /\ phase = "decide" /\ phase' \in {"ended", "create"} /\ ~settled
    BY <1>6 DEF DryRun, PromptDenied, Approve, Decision, NotAsked, Denied, Approved, Silent,
                session, pce, policy, plan, DriftInv
  <2> QED
    BY <2>1, QuietKeepsRows DEF Emptied
<1>7. CASE CreatesDone
  <2>1. /\ UNCHANGED <<flags, file, loaded, draft, creates, updates, empty, rowNo, alone, settled, del>>
        /\ phase = "create" /\ phase' = "update" /\ creates = <<>>
    BY <1>7 DEF CreatesDone, Silent, session, pce, policy, plan
  <2> QED
    BY <2>1, QuietKeepsRows DEF Emptied
<1>8. CASE CreateRule
  BY <1>8, CreateKeepsRows
<1>9. CASE UpdateRule
  BY <1>9, UpdateKeepsRows
<1>10. CASE UpdatesDone
  <2>1. /\ UNCHANGED <<flags, file, loaded, draft, creates, updates, empty, rowNo, alone, del>>
        /\ phase = "update" /\ phase' \in {"provision", "ended"} /\ updates = <<>> /\ creates = <<>>
        /\ settled' => alone /\ phase' = "ended"
    BY <1>10 DEF UpdatesDone, Silent, session, pce, policy, plan, RowsInv, Emptied
  <2>2. CASE settled'
    BY <2>1, <2>2, EndedHoldsRows DEF GateInv, Pushing, Consent, PairInv
  <2>3. CASE ~settled'
    BY <2>1, <2>3, QuietKeepsRows DEF Emptied
  <2> QED
    BY <2>2, <2>3
<1>11. CASE Provision
  <2>1. /\ UNCHANGED <<flags, file, loaded, draft, creates, updates, empty, rowNo, alone, del>>
        /\ phase = "provision" /\ phase' = "ended" /\ updates = <<>> /\ creates = <<>>
        /\ settled' = alone
    BY <1>11 DEF Provision, Works, plan, RowsInv, Emptied
  <2>2. CASE alone
    BY <2>1, <2>2, EndedHoldsRows DEF GateInv, Pushing, Consent, PairInv
  <2>3. CASE ~alone
    BY <2>1, <2>3, DisturbedKeepsRows DEF Emptied
  <2> QED
    BY <2>2, <2>3
<1> QED
  BY <1>1, <1>2, <1>3, <1>4, <1>5, <1>6, <1>7, <1>8, <1>9, <1>10, <1>11 DEF RunStep

LEMMA OthersKeepRows ==
  ASSUME GateInv, DriftInv, PairInv, RowsInv,
         \/ CreateLabelFails \/ CreateRuleFails \/ UpdateRuleFails \/ ProvisionFails \/ Crash
         \/ Rerun \/ Delete \/ DeleteStep \/ Others \/ UNCHANGED vars
  PROVE  RowsInv'
<1> USE DEF Working, Pushing, RowsJudged
<1>1. CASE CreateLabelFails \/ ProvisionFails
  <2>1. /\ phase \in {"rows", "provision"} /\ phase' \in {"rows", "dead", "ended"}
        /\ alone' = FALSE /\ UNCHANGED settled
    BY <1>1 DEF CreateLabelFails, ProvisionFails, NeedsLabel, AtRow, Fault, LogError
  <2> QED
    BY <2>1, DisturbedKeepsRows DEF DriftInv, Emptied
<1>2. CASE UpdateRuleFails
  <2>1. /\ phase = "update" /\ phase' \in {"update", "dead"} /\ alone' = FALSE
        /\ UNCHANGED <<settled, creates>>
    BY <1>2 DEF UpdateRuleFails, Updating, Fault, LogError
  <2> QED
    BY <2>1, DisturbedKeepsRows DEF DriftInv, Emptied, RowsInv
<1>3. CASE CreateRuleFails
  <2>1. phase = "create" /\ phase' \in {"create", "dead"} /\ UNCHANGED settled
    BY <1>3 DEF CreateRuleFails, Creating, LogError
  <2>2. alone' = FALSE \/ (Refused(Head(creates)) /\ alone' = alone)
    BY <1>3 DEF CreateRuleFails, Fault, Silent, session
  <2>3. alone' => FALSE
    BY <2>1, <2>2 DEF RowsInv, Refused
  <2> QED
    BY <2>1, <2>3, DisturbedKeepsRows DEF DriftInv, Emptied
<1>4. CASE Crash \/ Rerun
  <2>1. phase' \in {"dead", "load"}
    BY <1>4 DEF Crash, Rerun
  <2> QED
    BY <2>1, DisturbedKeepsRows DEF Emptied
<1>5. CASE Delete
  <2> PICK list : StartDelete(list)
    BY <1>5 DEF Delete
  <2>1. phase' = phase /\ phase \in Done /\ del'.phase = "gate"
    BY <1>5 DEF Delete, StartDelete
  <2> QED
    BY <2>1, DisturbedKeepsRows DEF Done, Emptied
<1>6. CASE DeleteStep
  <2>1. phase' = phase /\ phase \in Done
    BY <1>6 DEF DeleteStep, import, DeleteNext, DeleteDryRun, DeleteDenied, DeleteApproved,
                DeleteDecision, DeleteHref, DeleteHrefFails, AllDeleted, BulkWorkload,
                BulkWorkloadFails, ProvisionDeleted, ProvisionDeletedFails,
                NothingToProvision, CrashDelete, GateInv, DeleteDone
  <2>2. del'.phase # "idle"
    BY <1>6 DEF DeleteStep, DeleteNext, DeleteDryRun, DeleteDenied, DeleteApproved,
                DeleteDecision, DeleteHref, DeleteHrefFails, AllDeleted, BulkWorkload,
                BulkWorkloadFails, ProvisionDeleted, ProvisionDeletedFails,
                NothingToProvision, CrashDelete, GateInv, LogError
  <2> QED
    BY <2>1, <2>2, DisturbedKeepsRows DEF Done, Emptied
<1>7. CASE Others
  <2>1. alone' = FALSE /\ settled' = FALSE /\ UNCHANGED <<phase, creates, updates>>
    BY <1>7 DEF Others, Fault, plan
  <2> QED
    BY <2>1, DisturbedKeepsRows DEF Emptied, RowsInv
<1>8. CASE UNCHANGED vars
  <2>1. UNCHANGED <<flags, file, loaded, draft, creates, updates, empty, rowNo, alone, settled, del, phase>>
    BY <1>8 DEF vars, storeVars, pce, policy, session, import, plan
  <2>2. Emptied'
    BY <2>1 DEF RowsInv, Emptied
  <2> QED
    BY <2>1, <2>2, QuietKeepsRows DEF Read
<1> QED
  BY <1>1, <1>2, <1>3, <1>4, <1>5, <1>6, <1>7, <1>8

\* Once an undisturbed run has ended every row that counts is in force in the
\* draft: in the rule it matched, or in a rule that was not there before.
THEOREM RowsDrafted == Spec => []RowsInDraft
<1> DEFINE I == GateInv /\ DriftInv /\ PairInv /\ RowsInv
<1>1. Init => I
  <2>1. ASSUME Init PROVE DriftInv /\ RowsInv
    BY <2>1 DEF Init, DriftInv, ChangesProvisioned, Working, Pushing, RowsInv, Emptied, RowsInDraft
  <2> QED
    BY <2>1, GateInit, PairInit
<1>2. I /\ [Next]_vars => GateInv' /\ DriftInv'
  BY ImportKeepsGate, DeleteKeepsGate, SessionKeepsGate, RunKeepsDrift, OthersKeepDrift
     DEF Next
<1>3. I /\ [Next]_vars => PairInv'
  BY LoadKeepsPairs, PlanKeepsPairs, CreateKeepsPairs, UpdateKeepsPairs, DeleteKeepsPairs,
     OthersKeepPairs, OtherStepsKeepPairs DEF Next, RunStep
<1>4. I /\ [Next]_vars => RowsInv'
  BY RunKeepsRows, OthersKeepRows DEF Next
<1>5. I => RowsInDraft
  BY DEF RowsInv
<1> QED
  BY <1>1, <1>2, <1>3, <1>4, <1>5, PTL DEF Spec

-----------------------------------------------------------------------------
(* What --authoritative is for. *)

\* Where the property looks: good files, matched by pairs and authoritative.
Keen ==
  /\ Distinct
  /\ flags.matchOnExt /\ flags.updatePCE /\ flags.authoritative
  /\ \A r \in Range(file) : r.rs # NoRuleset /\ ~Dropped(r) /\ r.ext # NoExt

\* The rules seen are those that the rows read match, and a rule seen has the
\* key of its row, before and after its update.
SeenFits ==
  /\ \A n \in 1..Len(file) : Read(n) => Ids(Match(file[n])) \subseteq seen
  /\ seen \subseteq Ids(loaded)
  /\ \A x \in draft : x.id \in seen =>
       \E r \in Range(file) : x.id \in Ids(Match(r)) /\ HasKey(x, r)

\* Rules made, and planned, are of rows that match none, one for each.
NewRulesFit ==
  /\ \A x \in draft : x.id \notin Ids(loaded) =>
       \E r \in Range(file) : Match(r) = {} /\ HasKey(x, r)
  /\ \A x, y \in draft :
       x.id \notin Ids(loaded) /\ y.id \notin Ids(loaded) /\ HasKey(x, y) => x = y
  /\ \A i \in 1..Len(creates) :
       /\ Match(creates[i].row) = {}
       /\ \E n \in 1..Len(file) : Read(n) /\ creates[i].row = file[n]
       /\ \A j \in 1..Len(creates) : i # j => ~HasKey(creates[i].row, creates[j].row)
       /\ \A x \in draft : x.id \notin Ids(loaded) => ~HasKey(x, creates[i].row)

Planned ==
  /\ SeenFits /\ NewRulesFit
  /\ phase # "rows" => deleteFile = Ids(loaded) \ seen

\* What is not to be deleted are the rules of the rows, one for each.
Sorted ==
  /\ \A x \in draft : x.id \in deleteFile \/ \E r \in Range(file) : HasKey(x, r)
  /\ \A r \in Range(file) : \E x \in draft :
       /\ HasKey(x, r) /\ x.id \notin deleteFile
       /\ \A y \in draft : HasKey(y, r) /\ y.id \notin deleteFile => y = x

\* A delete command that runs with the file of the import has left what it has
\* not reached yet, and when it is through nothing of the file is in the draft.
DeleteFits ==
  /\ settled /\ del.phase \in {"gate", "delete"} => del.todo \subseteq deleteFile
  /\ settled /\ alone /\ del.phase \in {"gate", "delete"} =>
       \A x \in draft : x.id \in deleteFile => x.id \in del.todo
  /\ settled /\ alone /\ (del.phase \in {"bulk", "provision"} \/ (del.phase = "ended" /\ Consent)) =>
       \A x \in draft : x.id \notin deleteFile

\* The inductive invariant.
SortInv ==
  /\ phase \notin Done => del.phase = "idle"
  /\ phase \in Working /\ alone /\ Keen => Planned
  /\ settled /\ Keen => Sorted
  /\ DeleteFits

\* Two rows of a file whose keys differ do not have the key of one rule.
LEMMA RowOfKey ==
  ASSUME Distinct, flags.matchOnExt, NEW x, NEW r \in Range(file), NEW q \in Range(file),
         HasKey(x, r), HasKey(x, q)
  PROVE  r = q
<1>1. PICK n \in 1..Len(file) : r = file[n]
  BY DEF Range
<1>2. PICK m \in 1..Len(file) : q = file[m]
  BY DEF Range
<1>3. n = m
  BY <1>1, <1>2 DEF Distinct, HasKey
<1> QED
  BY <1>1, <1>2, <1>3

\* An undisturbed run that has nothing left to push leaves the rules sorted.
LEMMA EndedSorts ==
  ASSUME PairInv, RowsInv, SortInv, Keen, phase \in Working, alone,
         creates = <<>>, updates = <<>>, \A n \in 1..Len(file) : Read(n),
         deleteFile' = Ids(loaded) \ seen, UNCHANGED <<file, draft>>
  PROVE  Sorted'
<1> DEFINE gone == Ids(loaded) \ seen
<1>1. SeenFits /\ NewRulesFit /\ AllHeld
  BY DEF SortInv, Planned, RowsInv, Keen
<1>2. ASSUME NEW x \in draft
      PROVE  x.id \in gone \/ \E r \in Range(file) : HasKey(x, r)
  BY <1>1 DEF SeenFits, NewRulesFit
<1>3. ASSUME NEW r \in Range(file)
      PROVE  \E x \in draft :
               /\ HasKey(x, r) /\ x.id \notin gone
               /\ \A y \in draft : HasKey(y, r) /\ y.id \notin gone => y = x
  <2>1. PICK n \in 1..Len(file) : r = file[n]
    BY DEF Range
  <2>2. Acts(r) /\ r.ext # NoExt
    BY DEF Keen, Acts
  <2>3. Held(r)
    BY <1>1, <2>1, <2>2 DEF AllHeld
  <2>4. \A x : Reflects(x, r) => HasKey(x, r)
    BY <2>2 DEF Reflects, HasKey, Key
  <2>5. ASSUME NEW y \in draft, HasKey(y, r), y.id \in seen
        PROVE  y.id \in Ids(Match(r))
    <3>1. PICK q \in Range(file) : y.id \in Ids(Match(q)) /\ HasKey(y, q)
      BY <1>1, <2>5 DEF SeenFits
    <3>2. q = r
      BY <2>5, <3>1, RowOfKey DEF Keen
    <3> QED
      BY <3>1, <3>2
  <2>6. ASSUME NEW y \in draft, HasKey(y, r), y.id \notin Ids(loaded)
        PROVE  Match(r) = {}
    <3>1. PICK q \in Range(file) : Match(q) = {} /\ HasKey(y, q)
      BY <1>1, <2>6 DEF NewRulesFit
    <3>2. q = r
      BY <2>6, <3>1, RowOfKey DEF Keen
    <3> QED
      BY <3>1, <3>2
  <2>7. CASE Match(r) = {}
    <3>1. PICK x \in draft : HasKey(x, r) /\ x.id \notin Ids(loaded)
      BY <2>3, <2>4, <2>7 DEF Held
    <3>2. ASSUME NEW y \in draft, HasKey(y, r), y.id \notin gone
          PROVE  y = x
      <4>1. y.id \notin Ids(loaded)
        BY <2>5, <2>7, <3>2 DEF Ids
      <4>2. HasKey(x, y)
        BY <3>1, <3>2 DEF HasKey
      <4> QED
        BY <1>1, <3>1, <4>1, <4>2 DEF NewRulesFit
    <3> QED
      BY <3>1, <3>2
  <2>8. ASSUME NEW z \in Match(r)
        PROVE  \E x \in draft :
                 /\ HasKey(x, r) /\ x.id \notin gone
                 /\ \A y \in draft : HasKey(y, r) /\ y.id \notin gone => y = x
    <3>1. PICK x \in draft : x.id = z.id /\ HasKey(x, r)
      BY <2>3, <2>4 DEF Held
    <3>2. x.id \in seen
      BY <1>1, <2>1, <3>1 DEF SeenFits, Ids
    <3>3. ASSUME NEW y \in draft, HasKey(y, r), y.id \notin gone
          PROVE  y = x
      <4>1. y.id \in Ids(Match(r))
        BY <2>5, <2>6, <2>8, <3>3
      <4>2. y.id = z.id
        BY <4>1, OneMatch DEF Ids, PairInv
      <4> QED
        BY <3>1, <4>2 DEF PairInv, Numbered
    <3> QED
      BY <3>1, <3>2, <3>3
  <2> QED
    BY <2>7, <2>8
<1> QED
  BY <1>2, <1>3 DEF Sorted

\* Steps that leave the rules and the lists as they are.
LEMMA QuietKeepsSort ==
  ASSUME SortInv, UNCHANGED <<flags, file, loaded, draft, creates, seen, deleteFile, settled>>,
         alone' => alone,
         phase' \in Working => phase \in Working /\ (phase' # "rows" => phase # "rows"),
         \A n \in 1..Len(file) : (Keen /\ Read(n)' => Read(n)) /\ (Read(n) => Read(n)'),
         phase' \notin Done => del'.phase = "idle", DeleteFits'
  PROVE  SortInv'
<1>1. \A r : Match(r)' = Match(r)
  BY DEF Match
<1>2. (Keen' <=> Keen) /\ (Sorted' <=> Sorted)
  BY DEF Keen, Distinct, Dropped, Sorted
<1>3. Keen /\ SeenFits => SeenFits'
  BY <1>1 DEF SeenFits
<1>4. NewRulesFit => NewRulesFit'
  BY <1>1 DEF NewRulesFit
<1>5. Keen /\ Planned /\ phase' \in Working => Planned'
  BY <1>3, <1>4 DEF Planned, Ids
<1> QED
  BY <1>2, <1>5 DEF SortInv

\* Steps after which the run is disturbed.
LEMMA DisturbedKeepsSort ==
  ASSUME phase' \in Working => ~alone', ~settled', phase' \notin Done => del'.phase = "idle"
  PROVE  SortInv'
BY Zenon DEF SortInv, DeleteFits

LEMMA PlanKeepsSort ==
  ASSUME GateInv, DriftInv, PairInv, SortInv, PlanRow
  PROVE  SortInv'
<1>1. PICK r \in Range(file) :
        /\ AtRow(r)
        /\ seen' = seen \cup Seen(r)
        /\ creates' = IF ~Dropped(r) /\ Match(r) = {}
                      THEN Append(creates, [row |-> r, id |-> 0, labels |-> RowLabels(r)])
                      ELSE creates
  BY DEF PlanRow, Ready
<1>2. /\ rowNo' = rowNo + 1 /\ phase = "rows" /\ phase' = "rows" /\ (alone' => alone)
      /\ UNCHANGED <<flags, file, loaded, draft, settled, del, deleteFile>>
  BY <1>1 DEF PlanRow, AtRow, pce, policy
<1>3. /\ rowNo \in 1..Len(file) /\ r = file[rowNo] /\ creates \in Seq(Entry)
      /\ Numbered(loaded) /\ Numbered(draft)
  BY <1>1 DEF AtRow, PairInv
<1>4. \A q : Match(q)' = Match(q)
  BY <1>2 DEF Match
<1>5. Keen' <=> Keen
  BY <1>2 DEF Keen, Distinct, Dropped
<1>6. ~settled /\ del.phase = "idle"
  BY <1>2 DEF DriftInv, Working, SortInv, Done
<1>7. ASSUME alone, Keen PROVE Planned'
  <2>1. SeenFits /\ NewRulesFit /\ draft = loaded
    BY <1>2, <1>7 DEF SortInv, Planned, DriftInv, Working
  <2>2. seen' = seen \cup Ids(Match(r)) /\ Match(r) \subseteq loaded
    BY <1>1, <1>7 DEF Seen, Keen, Match
  <2>3. SeenFits'
    <3>1. \A n \in 1..Len(file) : n < rowNo + 1 => Ids(Match(file[n])) \subseteq seen'
      BY <1>2, <1>3, <2>1, <2>2 DEF SeenFits, Read
    <3>2. seen' \subseteq Ids(loaded)
      BY <2>1, <2>2 DEF SeenFits, Ids
    <3>3. ASSUME NEW x \in draft, x.id \in Ids(Match(r))
          PROVE  HasKey(x, r)
      <4>1. PICK z \in Match(r) : z.id = x.id
        BY <3>3 DEF Ids
      <4>2. z = x /\ HasKey(z, r)
        BY <1>3, <1>7, <2>1, <2>2, <4>1 DEF Numbered, Match, Keen
      <4> QED
        BY <4>2
    <3>4. \A x \in draft : x.id \in seen' =>
            \E q \in Range(file) : x.id \in Ids(Match(q)) /\ HasKey(x, q)
      BY <2>1, <2>2, <3>3 DEF SeenFits
    <3> QED
      BY <1>2, <1>4, <3>1, <3>2, <3>4 DEF SeenFits, Read, Ids
  <2>4. NewRulesFit'
    <3>1. \A x \in draft : x.id \in Ids(loaded)
      BY <2>1 DEF Ids
    <3> DEFINE e == [row |-> r, id |-> 0, labels |-> RowLabels(r)]
    <3>2. e.row = r
      OBVIOUS
    <3>3. creates' = creates \/ (Match(r) = {} /\ creates' = Append(creates, e))
      BY <1>1
    <3> HIDE DEF e
    <3>4. \A i \in 1..Len(creates) :
            /\ Match(creates[i].row) = {}
            /\ \E n \in 1..Len(file) : n < rowNo /\ creates[i].row = file[n]
            /\ \A j \in 1..Len(creates) : i # j => ~HasKey(creates[i].row, creates[j].row)
      BY <1>2, <2>1 DEF NewRulesFit, Read
    <3>5. ASSUME NEW i \in 1..Len(creates)
          PROVE  ~HasKey(creates[i].row, r) /\ ~HasKey(r, creates[i].row)
      <4>1. PICK n \in 1..Len(file) : n < rowNo /\ creates[i].row = file[n]
        BY <3>4
      <4>2. ~HasKey(file[n], r) /\ ~HasKey(r, file[n])
        BY <1>3, <1>7, <4>1 DEF Keen, Distinct, HasKey
      <4> QED
        BY <4>1, <4>2
    <3>6. \A i \in 1..Len(creates') :
            /\ Match(creates'[i].row) = {}
            /\ \E n \in 1..Len(file) : n < rowNo + 1 /\ creates'[i].row = file[n]
            /\ \A j \in 1..Len(creates') : i # j => ~HasKey(creates'[i].row, creates'[j].row)
      <4>0. \A n \in 1..Len(file) : n < rowNo => n < rowNo + 1
        BY <1>3
      <4>1. CASE creates' = creates
        <5>1. \A i \in 1..Len(creates) :
                \E n \in 1..Len(file) : n < rowNo + 1 /\ creates[i].row = file[n]
          BY <3>4, <4>0
        <5> QED
          BY <3>4, <4>1, <5>1
      <4>2. CASE Match(r) = {} /\ creates' = Append(creates, e)
        <5>1. /\ Len(creates) \in Nat /\ Len(creates') = Len(creates) + 1
              /\ creates'[Len(creates) + 1].row = r
              /\ \A i \in 1..Len(creates) : creates'[i] = creates[i]
          BY <1>3, <3>2, <4>2, AppendProperties, LenProperties
        <5>2. ASSUME NEW i \in 1..Len(creates')
              PROVE  /\ Match(creates'[i].row) = {}
                     /\ \E n \in 1..Len(file) : n < rowNo + 1 /\ creates'[i].row = file[n]
          <6>1. CASE i \in 1..Len(creates)
            <7>1. PICK n \in 1..Len(file) : n < rowNo /\ creates[i].row = file[n]
              BY <3>4, <6>1
            <7>2. n < rowNo + 1 /\ creates'[i] = creates[i] /\ Match(creates[i].row) = {}
              BY <3>4, <4>0, <5>1, <6>1, <7>1
            <7> QED
              BY <7>1, <7>2
          <6>2. CASE i = Len(creates) + 1
            BY <1>3, <4>2, <5>1, <6>2
          <6> QED
            BY <5>1, <6>1, <6>2
        <5>3. ASSUME NEW i \in 1..Len(creates'), NEW j \in 1..Len(creates'), i # j
              PROVE  ~HasKey(creates'[i].row, creates'[j].row)
          <6>1. CASE i \in 1..Len(creates) /\ j \in 1..Len(creates)
            BY <3>4, <5>1, <5>3, <6>1
          <6>2. CASE i \in 1..Len(creates) /\ j = Len(creates) + 1
            BY <3>5, <5>1, <6>2
          <6>3. CASE i = Len(creates) + 1 /\ j \in 1..Len(creates)
            BY <3>5, <5>1, <6>3
          <6> QED
            BY <5>1, <5>3, <6>1, <6>2, <6>3
        <5> QED
          BY <5>2, <5>3
      <4> QED
        BY <3>3, <4>1, <4>2
    <3> QED
      BY <1>2, <1>4, <3>1, <3>6 DEF NewRulesFit, Read, Ids
  <2> QED
    BY <1>2, <2>3, <2>4 DEF Planned
<1> QED
  BY <1>2, <1>5, <1>6, <1>7 DEF SortInv, DeleteFits, Working

LEMMA CreateKeepsSort ==
  ASSUME GateInv, DriftInv, PairInv, SortInv, CreateRule
  PROVE  SortInv'
<1> DEFINE e == creates[1]
           p == Pushed(e, nextId, e.row.rs, NoExt)
<1>1. /\ creates # <<>> /\ creates' = Tail(creates) /\ phase = "create" /\ phase' = "create"
      /\ UNCHANGED <<flags, file, loaded, seen, settled, del, alone, deleteFile>>
  BY DEF CreateRule, Creating, Works
<1>2. /\ Len(creates') = Len(creates) - 1 /\ Len(creates) \in Nat
      /\ \A i \in 1..Len(creates') : creates'[i] = creates[i + 1] /\ i + 1 \in 1..Len(creates)
      /\ Head(creates) = e /\ 1 \in 1..Len(creates)
  BY <1>1, HeadTailProperties, EmptySeq DEF PairInv
<1>3. draft' = draft \cup {p}
  BY <1>2 DEF CreateRule, Stored
<1>4. \A q : Match(q)' = Match(q)
  BY <1>1 DEF Match
<1>5. Keen' <=> Keen
  BY <1>1 DEF Keen, Distinct, Dropped
<1>6. ~settled /\ del.phase = "idle"
  BY <1>1 DEF DriftInv, Working, SortInv, Done
<1>7. p.id \notin Ids(loaded) /\ p.ext = e.row.ext
  BY StoreAssumption DEF Pushed, Ids, PairInv, Numbered, RuleIds
<1> HIDE DEF p, e
<1>8. ASSUME alone, Keen PROVE Planned'
  <2>1. SeenFits /\ NewRulesFit /\ deleteFile = Ids(loaded) \ seen
    BY <1>1, <1>8 DEF SortInv, Planned, Working
  <2>2. /\ Match(e.row) = {} /\ e.row \in Range(file)
        /\ \A j \in 1..Len(creates) : 1 # j => ~HasKey(e.row, creates[j].row)
        /\ \A x \in draft : x.id \notin Ids(loaded) => ~HasKey(x, e.row)
    <3>1. Match(creates[1].row) = {} /\ \E n \in 1..Len(file) : creates[1].row = file[n]
      BY <1>2, <2>1 DEF NewRulesFit
    <3>2. \A j \in 1..Len(creates) : 1 # j => ~HasKey(creates[1].row, creates[j].row)
      BY <1>2, <2>1 DEF NewRulesFit
    <3>3. \A x \in draft : x.id \notin Ids(loaded) => ~HasKey(x, creates[1].row)
      BY <1>2, <2>1 DEF NewRulesFit
    <3> QED
      BY <3>1, <3>2, <3>3 DEF e, Range
  <2>3. e.row.ext # NoExt
    BY <1>8, <2>2 DEF Keen
  <2>4. /\ HasKey(p, e.row)
        /\ \A q : (HasKey(p, q) <=> HasKey(e.row, q)) /\ (HasKey(q, p) <=> HasKey(q, e.row))
    BY <1>7, <2>3 DEF HasKey, Key
  <2>5. SeenFits'
    <3>1. p.id \notin seen
      BY <1>7, <2>1 DEF SeenFits
    <3>2. \A x \in draft' : x.id \in seen =>
            \E q \in Range(file) : x.id \in Ids(Match(q)) /\ HasKey(x, q)
      BY <1>3, <2>1, <3>1 DEF SeenFits
    <3> QED
      BY <1>1, <1>4, <2>1, <3>2 DEF SeenFits, Read, Ids
  <2>6. NewRulesFit'
    <3>1. \A x \in draft' : x.id \notin Ids(loaded) =>
            \E r \in Range(file) : Match(r) = {} /\ HasKey(x, r)
      BY <1>3, <2>1, <2>2, <2>4 DEF NewRulesFit
    <3>2. \A x, y \in draft' :
            x.id \notin Ids(loaded) /\ y.id \notin Ids(loaded) /\ HasKey(x, y) => x = y
      <4>1. \A x \in draft : x.id \notin Ids(loaded) => ~HasKey(x, p) /\ ~HasKey(p, x)
        BY <2>2, <2>4 DEF HasKey
      <4> QED
        BY <1>3, <2>1, <4>1 DEF NewRulesFit
    <3>3. \A i \in 1..Len(creates') :
            /\ Match(creates'[i].row) = {}
            /\ \E n \in 1..Len(file) : creates'[i].row = file[n]
            /\ \A j \in 1..Len(creates') : i # j => ~HasKey(creates'[i].row, creates'[j].row)
            /\ \A x \in draft' : x.id \notin Ids(loaded) => ~HasKey(x, creates'[i].row)
      <4> SUFFICES ASSUME NEW i \in 1..Len(creates')
                   PROVE  /\ Match(creates'[i].row) = {}
                          /\ \E n \in 1..Len(file) : creates'[i].row = file[n]
                          /\ \A j \in 1..Len(creates') : i # j => ~HasKey(creates'[i].row, creates'[j].row)
                          /\ \A x \in draft' : x.id \notin Ids(loaded) => ~HasKey(x, creates'[i].row)
        OBVIOUS
      <4>1. creates'[i] = creates[i + 1] /\ i + 1 \in 1..Len(creates) /\ 1 # i + 1
        BY <1>2
      <4>2. ~HasKey(p, creates'[i].row)
        BY <2>2, <2>4, <4>1
      <4>3. \A x \in draft' : x.id \notin Ids(loaded) => ~HasKey(x, creates'[i].row)
        BY <1>3, <2>1, <4>1, <4>2 DEF NewRulesFit
      <4>4. \A j \in 1..Len(creates') : i # j => ~HasKey(creates'[i].row, creates'[j].row)
        <5> SUFFICES ASSUME NEW j \in 1..Len(creates'), i # j
                     PROVE  ~HasKey(creates'[i].row, creates'[j].row)
          OBVIOUS
        <5>1. creates'[j] = creates[j + 1] /\ j + 1 \in 1..Len(creates) /\ i + 1 # j + 1
          BY <1>2
        <5>2. ~HasKey(creates[i + 1].row, creates[j + 1].row)
          BY <2>1, <4>1, <5>1 DEF NewRulesFit
        <5> QED
          BY <4>1, <5>1, <5>2
      <4> QED
        BY <2>1, <4>1, <4>3, <4>4 DEF NewRulesFit
    <3> QED
      BY <1>1, <1>4, <3>1, <3>2, <3>3 DEF NewRulesFit, Read, Ids
  <2> QED
    BY <1>1, <2>1, <2>5, <2>6 DEF Planned, Ids
<1> QED
  BY <1>1, <1>5, <1>6, <1>8 DEF SortInv, DeleteFits, Working

LEMMA UpdateKeepsSort ==
  ASSUME GateInv, DriftInv, PairInv, RowsInv, SortInv, UpdateRule
  PROVE  SortInv'
<1> DEFINE e == updates[1]
<1>1. /\ updates # <<>> /\ phase = "update" /\ phase' = "update"
      /\ UNCHANGED <<flags, file, loaded, creates, seen, settled, del, alone, deleteFile>>
  BY DEF UpdateRule, Updating, Works
<1>2. Head(updates) = e /\ 1 \in 1..Len(updates)
  BY <1>1, HeadTailProperties, EmptySeq DEF PairInv
<1>3. PICK x \in draft :
        x.id = e.id /\ draft' = (draft \ {x}) \cup {Pushed(e, x.id, x.rs, x.ext)}
  BY <1>2 DEF UpdateRule, Target
<1> DEFINE p == Pushed(e, x.id, x.rs, x.ext)
<1>4. draft' = (draft \ {x}) \cup {p}
  BY <1>3
<1>5. p.id = e.id /\ (e.row.ext # NoExt => p.ext = e.row.ext)
  BY <1>3 DEF Pushed
<1>6. \A q : Match(q)' = Match(q)
  BY <1>1 DEF Match
<1>7. Keen' <=> Keen
  BY <1>1 DEF Keen, Distinct, Dropped
<1>8. ~settled /\ del.phase = "idle"
  BY <1>1 DEF DriftInv, Working, SortInv, Done
<1>9. creates = <<>>
  BY <1>1 DEF RowsInv, Emptied
<1> HIDE DEF p, e
<1>10. ASSUME alone, Keen PROVE Planned'
  <2>1. SeenFits /\ NewRulesFit /\ deleteFile = Ids(loaded) \ seen /\ UpdatesFit
    BY <1>1, <1>10 DEF SortInv, Planned, Working, RowsInv, Keen
  <2>2. e.row \in Range(file) /\ e.id \in Ids(Match(e.row))
    BY <1>2, <2>1 DEF UpdatesFit, e
  <2>3. HasKey(p, e.row) /\ p.id \in Ids(loaded)
    <3>1. e.row.ext # NoExt
      BY <1>10, <2>2 DEF Keen
    <3>2. Ids(Match(e.row)) \subseteq Ids(loaded)
      BY DEF Ids, Match
    <3> QED
      BY <1>5, <2>2, <3>1, <3>2 DEF HasKey, Key
  <2>4. SeenFits'
    <3>1. \A y \in draft' : y.id \in seen =>
            \E q \in Range(file) : y.id \in Ids(Match(q)) /\ HasKey(y, q)
      BY <1>4, <1>5, <2>1, <2>2, <2>3 DEF SeenFits
    <3> QED
      BY <1>1, <1>6, <2>1, <3>1 DEF SeenFits, Read, Ids
  <2>5. NewRulesFit'
    <3>1. \A y \in draft' : y.id \notin Ids(loaded) => y \in draft
      BY <1>4, <2>3
    <3>2. \A i \in 1..Len(creates') : FALSE
      BY <1>1, <1>9
    <3> QED
      BY <1>1, <1>6, <2>1, <3>1, <3>2 DEF NewRulesFit, Ids
  <2> QED
    BY <1>1, <2>1, <2>4, <2>5 DEF Planned, Ids
<1> QED
  BY <1>1, <1>7, <1>8, <1>10 DEF SortInv, DeleteFits, Working

LEMMA RunKeepsSort ==
  ASSUME GateInv, DriftInv, PairInv, RowsInv, SortInv, RunStep
  PROVE  SortInv'
<1> USE DEF Working, Done, Read
<1>0. phase \notin Done => del.phase = "idle"
  BY DEF SortInv
<1>1. CASE Load
  <2>1. /\ loaded' = draft /\ draft' = draft /\ seen' = {} /\ creates' = <<>> /\ rowNo' = 1
        /\ phase = "load" /\ phase' = "rows" /\ settled' = FALSE /\ del' = del
    BY <1>1 DEF Load, pce, policy
  <2>2. \A x \in draft' : x.id \in Ids(loaded')
    BY <2>1 DEF Ids
  <2>3. SeenFits'
    BY <2>1 DEF SeenFits
  <2>4. NewRulesFit'
    BY <2>1, <2>2 DEF NewRulesFit, Ids
  <2>5. DeleteFits'
    BY <2>1, Zenon DEF DeleteFits
  <2> QED
    BY <1>0, <2>1, <2>3, <2>4, <2>5 DEF SortInv, Planned
<1>2. CASE SkipRow
  <2>1. PICK r \in Range(file) : AtRow(r) /\ Skipped(r)
    BY <1>2 DEF SkipRow
  <2>2. /\ UNCHANGED <<flags, file, loaded, draft, creates, seen, deleteFile, alone, settled, del>>
        /\ phase = "rows" /\ phase' = "rows" /\ rowNo' = rowNo + 1
    BY <1>2, <2>1 DEF SkipRow, AtRow, Silent, session, pce, policy
  <2>3. ~Keen
    BY <2>1 DEF Skipped, Keen
  <2>4. \A n \in 1..Len(file) : (Keen /\ Read(n)' => Read(n)) /\ (Read(n) => Read(n)')
    BY <2>2, <2>3 DEF PairInv
  <2>5. DeleteFits'
    BY <1>0, <2>2 DEF DeleteFits
  <2> QED
    BY <1>0, <2>2, <2>4, <2>5, QuietKeepsSort
<1>3. CASE CreateLabel \/ MissingLabel \/ Panic
  <2>1. /\ UNCHANGED <<flags, file, loaded, draft, creates, seen, deleteFile, rowNo, alone, settled, del>>
        /\ phase = "rows" /\ phase' \in {"rows", "dead"}
    BY <1>3 DEF CreateLabel, MissingLabel, Panic, NeedsLabel, Ready, AtRow, Silent,
                session, pce, policy, plan
  <2>2. DeleteFits' /\ ~settled
    BY <1>0, <2>1 DEF DeleteFits, DriftInv
  <2>3. CASE phase' = "rows"
    BY <1>0, <2>1, <2>2, <2>3, QuietKeepsSort
  <2>4. CASE phase' = "dead"
    BY <2>1, <2>2, <2>4, DisturbedKeepsSort
  <2> QED
    BY <2>1, <2>3, <2>4
<1>4. CASE PlanRow
  BY <1>4, PlanKeepsSort
<1>5. CASE RowsDone
  <2>1. /\ UNCHANGED <<flags, file, loaded, draft, creates, updates, seen, rowNo, alone, del>>
        /\ phase = "rows" /\ phase' \in {"ended", "decide"} /\ rowNo > Len(file)
        /\ deleteFile' = IF flags.authoritative THEN Ids(loaded) \ seen ELSE deleteFile
        /\ settled' => Nothing /\ alone /\ flags.updatePCE
    BY <1>5 DEF RowsDone, Silent, session, pce, policy, plan
  <2>2. \A n \in 1..Len(file) : Read(n)
    BY <2>1 DEF PairInv
  <2>3. Keen' <=> Keen
    BY <2>1 DEF Keen, Distinct, Dropped
  <2>4. settled' /\ Keen => Sorted'
    BY <2>1, <2>2, EndedSorts DEF Nothing, Keen
  <2>5. DeleteFits'
    BY <1>0, <2>1 DEF DeleteFits
  <2>6. ASSUME alone, Keen, phase' = "decide" PROVE Planned'
    <3>1. SeenFits /\ NewRulesFit /\ deleteFile' = Ids(loaded) \ seen
      BY <2>1, <2>6 DEF SortInv, Planned, Keen
    <3>2. \A r : Match(r)' = Match(r)
      BY <2>1 DEF Match
    <3>3. SeenFits'
      BY <2>1, <2>2, <3>1, <3>2 DEF SeenFits
    <3>4. NewRulesFit'
      BY <2>1, <2>2, <3>1, <3>2 DEF NewRulesFit
    <3> QED
      BY <2>1, <3>1, <3>3, <3>4 DEF Planned, Ids
  <2> QED
    BY <1>0, <2>1, <2>3, <2>4, <2>5, <2>6 DEF SortInv
<1>6. CASE DryRun \/ PromptDenied \/ Approve
  <2>1. /\ UNCHANGED <<flags, file, loaded, draft, creates, seen, deleteFile, rowNo, alone, settled, del>>
        /\ phase = "decide" /\ phase' \in {"ended", "create"}
    BY <1>6 DEF DryRun, PromptDenied, Approve, Decision, NotAsked, Denied, Approved, Silent,
                session, pce, policy, plan
  <2>2. DeleteFits'
    BY <1>0, <2>1 DEF DeleteFits
  <2> QED
    BY <1>0, <2>1, <2>2, QuietKeepsSort
<1>7. CASE CreatesDone
  <2>1. /\ UNCHANGED <<flags, file, loaded, draft, creates, seen, deleteFile, rowNo, alone, settled, del>>
        /\ phase = "create" /\ phase' = "update"
    BY <1>7 DEF CreatesDone, Silent, session, pce, policy, plan
  <2>2. DeleteFits'
    BY <1>0, <2>1 DEF DeleteFits
  <2> QED
    BY <1>0, <2>1, <2>2, QuietKeepsSort
<1>8. CASE CreateRule
  BY <1>8, CreateKeepsSort
<1>9. CASE UpdateRule
  BY <1>9, UpdateKeepsSort
<1>10. CASE UpdatesDone \/ Provision
  <2>1. /\ UNCHANGED <<flags, file, loaded, draft, creates, updates, seen, deleteFile, rowNo, alone, del>>
        /\ phase \in {"update", "provision"} /\ phase' \in {"provision", "ended"}
        /\ updates = <<>> /\ creates = <<>> /\ (settled' => alone)
    <3>1. Emptied
      BY DEF RowsInv
    <3>2. CASE UpdatesDone
      BY <3>1, <3>2 DEF UpdatesDone, Silent, session, pce, policy, plan, Emptied
    <3>3. CASE Provision
      BY <3>1, <3>3 DEF Provision, Works, plan, Emptied
    <3> QED
      BY <1>10, <3>2, <3>3
  <2>2. Keen' <=> Keen
    BY <2>1 DEF Keen, Distinct, Dropped
  <2>3. alone /\ Keen => Planned
    BY <2>1 DEF SortInv
  <2>4. settled' /\ Keen => Sorted'
    BY <2>1, <2>3, EndedSorts DEF Planned
  <2>5. DeleteFits'
    BY <1>0, <2>1 DEF DeleteFits
  <2>6. Planned /\ phase' \in Working => Planned'
    <3>1. \A r : Match(r)' = Match(r)
      BY <2>1 DEF Match
    <3>2. (SeenFits => SeenFits') /\ (NewRulesFit => NewRulesFit')
      BY <2>1, <3>1 DEF SeenFits, NewRulesFit
    <3> QED
      BY <2>1, <3>2 DEF Planned, Ids
  <2> QED
    BY <1>0, <2>1, <2>2, <2>3, <2>4, <2>5, <2>6 DEF SortInv
<1> QED
  BY <1>1, <1>2, <1>3, <1>4, <1>5, <1>6, <1>7, <1>8, <1>9, <1>10 DEF RunStep

\* Steps of the delete command, which take rules of its list.
LEMMA DeleteKeepsSort ==
  ASSUME GateInv, SortInv, DeleteStep
  PROVE  SortInv'
<1>1. UNCHANGED <<phase, file, loaded, creates, seen, deleteFile, settled, rowNo>>
  BY DEF DeleteStep, import, plan
<1>2. phase \in Done /\ UNCHANGED flags /\ (alone' => alone)
  BY DEF DeleteStep, DeleteNext, DeleteDryRun, DeleteDenied, DeleteApproved,
         DeleteDecision, DeleteHref, DeleteHrefFails, AllDeleted, BulkWorkload,
         BulkWorkloadFails, ProvisionDeleted, ProvisionDeletedFails,
         NothingToProvision, CrashDelete, GateInv, DeleteDone,
         NotAsked, Denied, Approved, Silent, Works, Fault, session
<1>3. Keen' <=> Keen
  BY <1>1, <1>2 DEF Keen, Distinct, Dropped
<1>4. CASE UNCHANGED draft
  <2>1. Sorted' <=> Sorted
    BY <1>1, <1>4 DEF Sorted
  <2>2. DeleteFits'
    <3> USE DEF DeleteFits, GateInv, Consent
    <3>0. DeleteFits
      BY DEF SortInv
    <3>1. CASE DeleteDryRun
      BY <1>1, <1>4, <3>0, <3>1 DEF DeleteDryRun, DeleteDecision, NotAsked, Silent, session
    <3>2. CASE DeleteDenied
      BY <1>1, <1>4, <3>0, <3>2 DEF DeleteDenied, DeleteDecision, Denied
    <3>3. CASE DeleteApproved
      BY <1>1, <1>4, <3>0, <3>3 DEF DeleteApproved, DeleteDecision, Approved
    <3>4. CASE DeleteHref
      <4> PICK i \in del.todo :
            LET gone == {x \in draft : x.id = i} IN
            /\ del' = [del EXCEPT !.todo = @ \ {i}, !.prov = @ \cup {ProvisionHrefOf(x) : x \in gone}]
            /\ draft' = draft \ gone
        BY <3>4 DEF DeleteHref
      <4>1. /\ del'.phase = del.phase /\ del.phase = "delete" /\ del'.todo = del.todo \ {i}
            /\ \A x \in draft' : x \in draft /\ x.id # i
        BY <3>4 DEF DeleteHref
      <4> QED
        BY <1>1, <1>2, <1>4, <3>0, <4>1
    <3>5. CASE DeleteHrefFails
      <4> PICK i \in del.todo : del' = [del EXCEPT !.todo = @ \ {i}]
        BY <3>5 DEF DeleteHrefFails
      <4>1. /\ del'.phase = del.phase /\ del.phase = "delete" /\ del'.todo = del.todo \ {i}
            /\ alone' = FALSE
        BY <3>5 DEF DeleteHrefFails, Fault
      <4> QED
        BY <1>1, <1>4, <3>0, <4>1
    <3>6. CASE AllDeleted
      BY <1>1, <1>2, <1>4, <3>0, <3>6 DEF AllDeleted
    <3>7. CASE BulkWorkload
      BY <1>1, <1>2, <1>4, <3>0, <3>7 DEF BulkWorkload
    <3>8. CASE BulkWorkloadFails \/ ProvisionDeletedFails \/ CrashDelete
      <4>1. alone' = FALSE /\ del'.phase \in {"dead", "provision", "ended"}
        BY <3>8 DEF BulkWorkloadFails, ProvisionDeletedFails, CrashDelete, Fault, LogError
      <4> QED
        BY <4>1
    <3>9. CASE ProvisionDeleted \/ NothingToProvision
      BY <1>1, <1>2, <1>4, <3>0, <3>9 DEF ProvisionDeleted, NothingToProvision
    <3> QED
      BY <3>1, <3>2, <3>3, <3>4, <3>5, <3>6, <3>7, <3>8, <3>9 DEF DeleteStep, DeleteNext
  <2> QED
    BY <1>1, <1>2, <1>3, <2>1, <2>2 DEF SortInv, Working, Done
<1>5. CASE DeleteHref
  <2> PICK i \in del.todo :
        LET gone == {x \in draft : x.id = i} IN
        /\ del' = [del EXCEPT !.todo = @ \ {i}, !.prov = @ \cup {ProvisionHrefOf(x) : x \in gone}]
        /\ draft' = draft \ gone
    BY <1>5 DEF DeleteHref
  <2>1. /\ del'.phase = del.phase /\ del.phase = "delete" /\ del'.todo = del.todo \ {i}
        /\ draft' \subseteq draft
        /\ \A x \in draft : x \in draft' <=> x.id # i
    BY <1>5 DEF DeleteHref, GateInv
  <2>2. settled => i \in deleteFile
    BY <2>1 DEF SortInv, DeleteFits
  <2>3. settled /\ Sorted => Sorted'
    <3>1. ASSUME settled, NEW x \in draft, x.id \notin deleteFile PROVE x \in draft'
      BY <2>1, <2>2, <3>1
    <3> QED
      BY <1>1, <2>1, <3>1 DEF Sorted
  <2>4. DeleteFits'
    BY <1>1, <1>2, <2>1 DEF SortInv, DeleteFits
  <2> QED
    BY <1>1, <1>2, <1>3, <2>3, <2>4 DEF SortInv, Working, Done
<1> QED
  BY <1>4, <1>5 DEF DeleteStep, DeleteNext, DeleteDryRun, DeleteDenied, DeleteApproved,
     DeleteDecision, DeleteHrefFails, AllDeleted, BulkWorkload, BulkWorkloadFails,
     ProvisionDeleted, ProvisionDeletedFails, NothingToProvision, CrashDelete, pce, policy

LEMMA OthersKeepSort ==
  ASSUME GateInv, DriftInv, RowsInv, SortInv,
         \/ CreateLabelFails \/ CreateRuleFails \/ UpdateRuleFails \/ ProvisionFails \/ Crash
         \/ Rerun \/ Delete \/ DeleteStep \/ Others \/ UNCHANGED vars
  PROVE  SortInv'
<1> USE DEF Working, Done
<1>0. phase \notin Done => del.phase = "idle"
  BY DEF SortInv
<1>1. CASE CreateLabelFails \/ UpdateRuleFails \/ ProvisionFails
  <2>1. /\ phase \in Working /\ alone' = FALSE /\ UNCHANGED <<settled, del>>
    BY <1>1 DEF CreateLabelFails, UpdateRuleFails, ProvisionFails, NeedsLabel, AtRow, Updating,
                Fault
  <2> QED
    BY <1>0, <2>1, DisturbedKeepsSort DEF DriftInv
<1>2. CASE CreateRuleFails
  <2>1. phase = "create" /\ UNCHANGED <<settled, del>>
    BY <1>2 DEF CreateRuleFails, Creating
  <2>2. alone' = FALSE \/ (Refused(Head(creates)) /\ alone' = alone)
    BY <1>2 DEF CreateRuleFails, Fault, Silent, session
  <2>3. alone' => FALSE
    BY <2>1, <2>2 DEF RowsInv, Refused
  <2> QED
    BY <1>0, <2>1, <2>3, DisturbedKeepsSort DEF DriftInv
<1>3. CASE Crash \/ Rerun
  <2>1. /\ UNCHANGED <<flags, file, draft, deleteFile, settled>>
        /\ phase' \in {"dead", "load"} /\ del'.phase = "idle"
    BY <1>0, <1>3 DEF Crash, Rerun, Fault, NextCommand, pce, policy, GateInv
  <2>2. (Keen' <=> Keen) /\ (Sorted' <=> Sorted)
    BY <2>1 DEF Keen, Distinct, Dropped, Sorted
  <2> QED
    BY <2>1, <2>2 DEF SortInv, DeleteFits
<1>4. CASE Delete
  <2> PICK list :
        /\ StartDelete(list)
        /\ settled' = (settled /\ del'.list = ListOf(deleteFile, {}))
    BY <1>4 DEF Delete
  <2>1. /\ UNCHANGED <<phase, flags, file, draft, deleteFile>> /\ phase \in Done
        /\ del'.phase = "gate" /\ del'.todo = list.rules /\ del'.list = list
    BY <1>4 DEF Delete, StartDelete, NextCommand, pce, policy
  <2>2. settled' => settled /\ list.rules = deleteFile
    <3>1. ListOf(deleteFile, {}).rules = deleteFile
      BY DEF ListOf
    <3>2. settled' => settled /\ list = ListOf(deleteFile, {})
      BY <2>1
    <3> QED
      BY <3>1, <3>2
  <2>3. (Keen' <=> Keen) /\ (Sorted' <=> Sorted)
    BY <2>1 DEF Keen, Distinct, Dropped, Sorted
  <2> QED
    BY <2>1, <2>2, <2>3 DEF SortInv, DeleteFits
<1>5. CASE DeleteStep
  BY <1>5, DeleteKeepsSort
<1>6. CASE Others
  <2>1. alone' = FALSE /\ settled' = FALSE /\ UNCHANGED <<phase, del>>
    BY <1>6 DEF Others, Fault
  <2> QED
    BY <1>0, <2>1, DisturbedKeepsSort
<1>7. CASE UNCHANGED vars
  <2>1. /\ UNCHANGED <<flags, answer, file, loaded, draft, creates, seen, deleteFile, rowNo>>
        /\ UNCHANGED <<alone, settled, del, phase>>
    BY <1>7 DEF vars, storeVars, pce, policy, session, import, plan
  <2>2. DeleteFits'
    BY <2>1 DEF SortInv, DeleteFits, Consent
  <2> QED
    BY <1>0, <2>1, <2>2, QuietKeepsSort DEF Read
<1> QED
  BY <1>1, <1>2, <1>3, <1>4, <1>5, <1>6, <1>7

\* When an undisturbed import with --match-on-ext and an undisturbed delete with
\* its file have run, each row of a good file has exactly one rule and there is
\* no other rule, whatever rules the PCE had before.
THEOREM RulesMatchRows == Spec => []RulesAreRows
<1> DEFINE I == GateInv /\ DriftInv /\ PairInv /\ RowsInv /\ SortInv
<1>1. Init => I
  <2>1. ASSUME Init PROVE DriftInv /\ RowsInv /\ SortInv
    BY <2>1 DEF Init, DeleteInit, DriftInv, ChangesProvisioned, Working, Pushing, Done,
                RowsInv, Emptied, RowsInDraft, SortInv, DeleteFits
  <2> QED
    BY <2>1, GateInit, PairInit
<1>2. I /\ [Next]_vars => GateInv' /\ DriftInv'
  BY ImportKeepsGate, DeleteKeepsGate, SessionKeepsGate, RunKeepsDrift, OthersKeepDrift
     DEF Next
<1>3. I /\ [Next]_vars => PairInv'
  BY LoadKeepsPairs, PlanKeepsPairs, CreateKeepsPairs, UpdateKeepsPairs, DeleteKeepsPairs,
     OthersKeepPairs, OtherStepsKeepPairs DEF Next, RunStep
<1>4. I /\ [Next]_vars => RowsInv' /\ SortInv'
  BY RunKeepsRows, OthersKeepRows, RunKeepsSort, OthersKeepSort DEF Next
<1>5. I => RulesAreRows
  <2> SUFFICES ASSUME SortInv, settled, alone, Consent, del.phase = "ended",
                      flags.authoritative, flags.matchOnExt, Distinct,
                      \A r \in Range(file) : Acts(r) /\ r.ext # NoExt
               PROVE  /\ \A x \in draft : \E r \in Range(file) : HasKey(x, r)
                      /\ \A r \in Range(file) : Cardinality({x \in draft : HasKey(x, r)}) = 1
    BY DEF RulesAreRows
  <2>1. Sorted
    BY DEF SortInv, Keen, Consent, Acts
  <2>2. \A x \in draft : x.id \notin deleteFile
    BY DEF SortInv, DeleteFits
  <2>3. ASSUME NEW r \in Range(file)
        PROVE  Cardinality({x \in draft : HasKey(x, r)}) = 1
    <3>1. PICK x \in draft : HasKey(x, r) /\ \A y \in draft : HasKey(y, r) => y = x
      BY <2>1, <2>2 DEF Sorted
    <3>2. {y \in draft : HasKey(y, r)} = {x}
      BY <3>1
    <3> QED
      BY <3>2, FS_Singleton
  <2> QED
    BY <2>1, <2>2, <2>3 DEF Sorted
<1> QED
  BY <1>1, <1>2, <1>3, <1>4, <1>5, PTL DEF Spec
=============================================================================
