----------------------------- MODULE RuleImport -----------------------------
(* The rule-import command (src/cmd/ruleimport): rows of a CSV are matched    *)
(* with the rules of a snapshot, by href or by external data set and          *)
(* reference; labels that are missing are made while the rows are compared;   *)
(* after the prompt rules are created and updated one by one and the touched  *)
(* rulesets provisioned.  With --authoritative it writes the list of rules to *)
(* be passed to the delete command, with which this module composes it.       *)
EXTENDS DeleteHrefs

CONSTANT Files   \* CSV files: each a sequence of rows

NoRuleset == "no such ruleset"
Row == [rs : Rulesets \cup {NoRuleset}, href : RuleIds \cup {0},
        kind : Kinds, ext : Exts \cup {NoExt}, labels : SUBSET AllLabels,
        enabled : BOOLEAN, resolve : BOOLEAN]
Entry == [row : Row, id : RuleIds \cup {0}, labels : SUBSET AllLabels]

ASSUME FileAssumption == Files \subseteq Seq(Row)

VARIABLES
  phase,
  file,         \* the CSV
  loaded,       \* the draft rules when the command loaded the PCE
  known,        \* labels the command knows
  empty,        \* labels it could not create and believes to have created
  rowNo,        \* the row it is at
  creates, updates,  \* planned rules
  seen,         \* csvRuleHrefMap: rules matched by their external data
  deleteFile,   \* the file the last --authoritative run left
  prov,         \* rulesets to provision
  settled       \* an undisturbed run with --update-pce ended, nobody interfered since

plan == <<loaded, known, empty, rowNo, creates, updates, seen>>
import == <<phase, file, plan, deleteFile, prov, settled>>
vars == <<storeVars, del, import>>

Phases == {"load", "rows", "decide", "create", "update", "provision", "ended", "dead"}
Done == {"ended", "dead"}

Init ==
  /\ StoreInit /\ DeleteInit
  /\ phase = "load" /\ file \in Files
  /\ loaded = {} /\ known = {} /\ empty = {} /\ rowNo = 1
  /\ creates = <<>> /\ updates = <<>> /\ seen = {}
  /\ deleteFile = {} /\ prov = {} /\ settled = FALSE

TypeOK ==
  /\ StoreTypeOK /\ DeleteTypeOK
  /\ phase \in Phases /\ file \in Files
  /\ loaded \subseteq Rule /\ known \subseteq AllLabels /\ empty \subseteq known
  /\ rowNo \in 1..(Len(file) + 1)
  /\ Range(creates) \cup Range(updates) \subseteq Entry
  /\ seen \subseteq RuleIds /\ deleteFile \subseteq RuleIds
  /\ prov \subseteq Rulesets /\ settled \in BOOLEAN

-----------------------------------------------------------------------------
(* Matching and comparing a row. *)

\* The key of a pair is the set and the reference in one string.
Key(x) == x.ext.set \o x.ext.ref

HasKey(x, r) == x.ext # NoExt /\ r.ext # NoExt /\ Key(x) = Key(r)

\* Slip: --match-on-ext is not looked at.
Match_ByHref(r) == {x \in loaded : x.id = r.href}

\* The rule a row is about, as a set.  Of rules with one key the map holds the
\* last.
Match(r) ==
  IF flags.matchOnExt
  THEN {x \in loaded : /\ HasKey(x, r)
                       /\ \A y \in loaded : HasKey(y, r) => y.id <= x.id}
  ELSE {x \in loaded : x.id = r.href}

\* Rows that are skipped before anything is done with them.
Skipped(r) ==
  \/ r.rs = NoRuleset
  \/ ~flags.matchOnExt /\ r.href # 0 /\ Match(r) = {}

Missing(r) == r.labels \ known

\* A dry run leaves missing labels out; so does a run that survives their lack.
RowLabels(r) == r.labels \cap known

\* A rule differs from its row.  Blank labels are not compared.  A label
\* without an href is never among those of the rule.
Differs(x, r) ==
  \/ x.enabled # r.enabled
  \/ r.labels # {} /\ (RowLabels(r) # x.labels \/ r.labels \cap empty # {})
  \/ r.ext # NoExt /\ r.ext # x.ext

\* A row of one type that meets a rule of the other dereferences nil.
Panics(r) == \E x \in Match(r) : x.kind # r.kind

-----------------------------------------------------------------------------
(* Reading and planning. *)

Load ==
  /\ phase = "load"
  /\ loaded' = draft /\ known' = labels /\ empty' = {}
  /\ rowNo' = 1 /\ creates' = <<>> /\ updates' = <<>> /\ seen' = {}
  /\ phase' = "rows" /\ prov' = {} /\ settled' = FALSE
  /\ Silent /\ UNCHANGED <<pce, del, file, deleteFile>>

AtRow(r) == phase = "rows" /\ rowNo <= Len(file) /\ r = file[rowNo]

SkipRow ==
  /\ \E r \in Range(file) : AtRow(r) /\ Skipped(r)
  /\ rowNo' = rowNo + 1
  /\ Silent
  /\ UNCHANGED <<pce, del, phase, file, loaded, known, empty, creates, updates,
                 seen, deleteFile, prov, settled>>

NeedsLabel(r, l) ==
  AtRow(r) /\ ~Skipped(r) /\ l \in Missing(r) /\ flags.createLabels /\ flags.updatePCE

\* Labels are made before the operator is asked.
CreateLabel ==
  /\ \E r \in Range(file), l \in AllLabels \ labels :
       NeedsLabel(r, l) /\ labels' = labels \cup {l} /\ known' = known \cup {l}
  /\ Silent
  /\ UNCHANGED <<policy, wklds, del, phase, file, loaded, empty, rowNo, creates,
                 updates, seen, deleteFile, prov, settled>>

\* The call fails, or the label is there by now and the PCE refuses another.
CreateLabelFails ==
  /\ \E r \in Range(file), l \in AllLabels :
       /\ NeedsLabel(r, l)
       /\ known' = known \cup {l} /\ empty' = empty \cup {l}
       /\ IF l \in labels
          THEN alone' = FALSE /\ UNCHANGED <<flags, answer, wrote, faults, runs>>
          ELSE Fault
  /\ phase' = LogError("dead", "rows")
  /\ UNCHANGED <<pce, del, file, loaded, rowNo, creates, updates, seen,
                 deleteFile, prov, settled>>

\* Without --create-labels a missing label is an error, as the name of an IP
\* list, service, workload or group that does not exist always is.
LabelIsFatal(r) == Missing(r) # {} /\ ~flags.createLabels

MissingLabel ==
  /\ \E r \in Range(file) : AtRow(r) /\ ~Skipped(r) /\ LabelIsFatal(r)
  /\ ~flags.continueOnError
  /\ phase' = "dead"
  /\ Silent
  /\ UNCHANGED <<pce, del, file, plan, deleteFile, prov, settled>>

Ready(r) ==
  /\ AtRow(r) /\ ~Skipped(r)
  /\ LabelIsFatal(r) => flags.continueOnError
  /\ flags.createLabels /\ flags.updatePCE => Missing(r) = {}

Panic ==
  /\ \E r \in Range(file) : Ready(r) /\ Panics(r)
  /\ phase' = "dead"
  /\ Silent
  /\ UNCHANGED <<pce, del, file, plan, deleteFile, prov, settled>>

\* Slip: only what is created goes to the list.
PlanUpdate_Never(r) == updates

\* An update is planned for the rule of a row that differs from it.
PlanUpdate(r) ==
  IF \E x \in Match(r) : Differs(x, r)
  THEN Append(updates, [row |-> r, id |-> (CHOOSE x \in Match(r) : TRUE).id,
                        labels |-> RowLabels(r)])
  ELSE updates

\* Slip: a rule that is matched but needs no update is not remembered.
Seen_Updated(r) ==
  IF flags.matchOnExt THEN Ids({x \in Match(r) : Differs(x, r)}) ELSE {}

\* Only matches by external data are remembered.
Seen(r) == IF flags.matchOnExt THEN Ids(Match(r)) ELSE {}

\* A row for an allow rule with invalid resolve-as values is dropped late.
Dropped(r) == r.kind = "allow" /\ ~r.resolve

PlanRow ==
  /\ \E r \in Range(file) :
       /\ Ready(r) /\ ~Panics(r)
       /\ seen' = seen \cup Seen(r)
       /\ creates' = IF ~Dropped(r) /\ Match(r) = {}
                     THEN Append(creates, [row |-> r, id |-> 0, labels |-> RowLabels(r)])
                     ELSE creates
       /\ updates' = IF Dropped(r) THEN updates ELSE PlanUpdate(r)
       /\ alone' = (alone /\ ~LabelIsFatal(r))
  /\ rowNo' = rowNo + 1
  /\ UNCHANGED <<pce, flags, answer, wrote, faults, runs, del, phase, file, loaded,
                 known, empty, deleteFile, prov, settled>>

Nothing == creates = <<>> /\ updates = <<>>

\* The delete file is written in a dry run, too.
RowsDone ==
  /\ phase = "rows" /\ rowNo > Len(file)
  /\ deleteFile' = IF flags.authoritative THEN Ids(loaded) \ seen ELSE deleteFile
  /\ phase' = IF Nothing THEN "ended" ELSE "decide"
  /\ settled' = (Nothing /\ alone /\ flags.updatePCE)
  /\ Silent
  /\ UNCHANGED <<pce, del, file, plan, prov>>

-----------------------------------------------------------------------------
(* Deciding and pushing. *)

Decision(next) ==
  /\ phase = "decide"
  /\ phase' = next
  /\ UNCHANGED <<pce, del, file, plan, deleteFile, prov, settled>>

DryRun == Decision("ended") /\ NotAsked
PromptDenied == Decision("ended") /\ Denied
Approve == Decision("create") /\ Approved

\* What the PCE stores: every field of the row, the pair only if the row has it.
Pushed(e, i, rs, old) ==
  [id |-> i, rs |-> rs, kind |-> e.row.kind,
   ext |-> IF e.row.ext = NoExt THEN old ELSE e.row.ext,
   labels |-> e.labels, enabled |-> e.row.enabled]

\* The PCE refuses labels without an href.
Refused(e) == e.row.labels \cap empty # {}

Creating == phase = "create" /\ creates # <<>> /\ nextId <= MaxRules

Stored ==
  LET e == Head(creates) IN
  /\ ~Refused(e)
  /\ draft' = draft \cup {Pushed(e, nextId, e.row.rs, NoExt)}
  /\ nextId' = nextId + 1

\* Slip: a new rule is not provisioned.
ToProvision_Updates(rs) == IF phase = "create" THEN prov ELSE prov \cup {rs}

ToProvision(rs) == prov \cup {rs}

CreateRule ==
  /\ Creating
  /\ Stored
  /\ creates' = Tail(creates)
  /\ prov' = ToProvision(Head(creates).row.rs)
  /\ Works
  /\ UNCHANGED <<active, labels, wklds, del, phase, file, loaded, known, empty,
                 rowNo, updates, seen, deleteFile, settled>>

\* The call fails, or only its answer is lost; with --continue-on-error the
\* next rule follows.  The failed rule's empty href names no ruleset.
CreateRuleFails ==
  /\ Creating
  /\ \/ Stored /\ faults < MaxFaults /\ faults' = faults + 1 /\ wrote' = TRUE
        /\ alone' = FALSE /\ UNCHANGED <<flags, answer, runs>>
     \/ ~Refused(Head(creates)) /\ Fault /\ UNCHANGED <<draft, nextId>>
     \/ Refused(Head(creates)) /\ Silent /\ UNCHANGED <<draft, nextId>>
  /\ creates' = Tail(creates)
  /\ phase' = LogError("dead", "create")
  /\ UNCHANGED <<active, labels, wklds, del, file, loaded, known, empty, rowNo,
                 updates, seen, deleteFile, prov, settled>>

CreatesDone ==
  /\ phase = "create" /\ creates = <<>>
  /\ phase' = "update"
  /\ Silent
  /\ UNCHANGED <<pce, del, file, plan, deleteFile, prov, settled>>

Updating == phase = "update" /\ updates # <<>>

\* The rule with the href of the entry, if it is still there.
Target(e) == {x \in draft : x.id = e.id}

UpdateRule ==
  /\ Updating
  /\ LET e == Head(updates) IN
       /\ ~Refused(e)
       /\ \E x \in Target(e) :
            /\ draft' = (draft \ {x}) \cup {Pushed(e, x.id, x.rs, x.ext)}
            /\ prov' = ToProvision(x.rs)
  /\ updates' = Tail(updates)
  /\ Works
  /\ UNCHANGED <<active, nextId, labels, wklds, del, phase, file, loaded, known,
                 empty, rowNo, creates, seen, deleteFile, settled>>

\* The call fails, or the rule is gone, or a label is refused.  The ruleset is
\* provisioned nevertheless if the command goes on.
UpdateRuleFails ==
  /\ Updating
  /\ LET e == Head(updates) IN
       /\ IF Refused(e) \/ Target(e) = {}
          THEN alone' = FALSE /\ UNCHANGED <<flags, answer, wrote, faults, runs>>
          ELSE Fault
       /\ prov' = prov \cup {x.rs : x \in {y \in loaded : y.id = e.id}}
  /\ updates' = Tail(updates)
  /\ phase' = LogError("dead", "update")
  /\ UNCHANGED <<pce, del, file, loaded, known, empty, rowNo, creates, seen,
                 deleteFile, settled>>

\* With --provision the call is made even if the list is empty.
UpdatesDone ==
  /\ phase = "update" /\ updates = <<>>
  /\ phase' = IF flags.provision THEN "provision" ELSE "ended"
  /\ settled' = (~flags.provision /\ alone)
  /\ Silent
  /\ UNCHANGED <<pce, del, file, plan, deleteFile, prov>>

Provision ==
  /\ phase = "provision"
  /\ active' = Provisioned(prov)
  /\ phase' = "ended"
  /\ settled' = alone
  /\ Works
  /\ UNCHANGED <<draft, nextId, labels, wklds, del, file, plan, deleteFile, prov>>

ProvisionFails ==
  /\ phase = "provision"
  /\ phase' = LogError("dead", "ended")
  /\ Fault
  /\ UNCHANGED <<pce, del, file, plan, deleteFile, prov, settled>>

-----------------------------------------------------------------------------
(* The session, and everyone else. *)

Crash ==
  /\ phase \notin Done
  /\ phase' = "dead"
  /\ Fault
  /\ UNCHANGED <<pce, del, file, plan, deleteFile, prov, settled>>

Rerun ==
  /\ phase \in Done /\ del.phase \in DeleteDone
  /\ phase' = "load" /\ del' = [del EXCEPT !.phase = "idle"]
  /\ NextCommand
  /\ UNCHANGED <<pce, file, plan, deleteFile, prov, settled>>

\* The delete command with the file of the import, or with hrefs of workloads
\* and one rule from elsewhere.
Delete ==
  /\ phase \in Done
  /\ \/ flags.authoritative /\ StartDelete(ListOf(deleteFile, {}))
     \/ \E i \in RuleIds : StartDelete(ListOf({i}, AllWklds))
  /\ settled' = (settled /\ del'.list = ListOf(deleteFile, {}))
  /\ UNCHANGED <<phase, file, plan, deleteFile, prov>>

DeleteStep == DeleteNext /\ UNCHANGED import

\* Others toggle or delete a rule of the draft, or make a label.
Others ==
  /\ \/ \E x \in draft :
          /\ draft' = (draft \ {x}) \cup {[x EXCEPT !.enabled = ~@]}
          /\ UNCHANGED labels
     \/ \E x \in draft : draft' = draft \ {x} /\ UNCHANGED labels
     \/ \E l \in AllLabels \ labels : labels' = labels \cup {l} /\ UNCHANGED draft
  /\ Fault
  /\ settled' = FALSE
  /\ UNCHANGED <<active, nextId, wklds, del, phase, file, plan, deleteFile, prov>>

RunStep ==
  \/ Load \/ SkipRow \/ CreateLabel \/ MissingLabel \/ Panic \/ PlanRow \/ RowsDone
  \/ DryRun \/ PromptDenied \/ Approve
  \/ CreateRule \/ CreatesDone \/ UpdateRule \/ UpdatesDone \/ Provision

Next ==
  \/ RunStep \/ CreateLabelFails \/ CreateRuleFails \/ UpdateRuleFails
  \/ ProvisionFails \/ Crash \/ Rerun \/ Delete \/ DeleteStep \/ Others

Spec == Init /\ [][Next]_vars

-----------------------------------------------------------------------------
(* Properties. *)

\* Rows of a file that the command acts on, and the pairs they carry.
Acts(r) == r.rs # NoRuleset /\ ~Dropped(r) /\ (flags.matchOnExt \/ r.href = 0
                                                \/ Match(r) # {})
Rows == {r \in Range(file) : Acts(r)}

\* No two rows mean one rule: the keys, or the hrefs, of the file differ.
Distinct ==
  \A i, j \in 1..Len(file) :
    i # j => IF flags.matchOnExt
             THEN file[i].ext # NoExt => ~HasKey(file[i], file[j])
             ELSE file[i].href # 0 => file[i].href # file[j].href

\* With --match-on-ext the import never makes a second rule for one pair,
\* although a create may have succeeded without an answer, the process may die
\* anywhere and the operator runs it again.
OneRulePerPair ==
  flags.matchOnExt /\ Distinct =>
    \A x, y \in draft : HasKey(x, y) => x = y

\* A rule has what its row says; labels the row leaves blank are not claimed.
Reflects(x, r) ==
  /\ x.kind = r.kind /\ x.enabled = r.enabled
  /\ r.labels # {} => x.labels = r.labels
  /\ r.ext # NoExt => x.ext = r.ext

\* Once an undisturbed run has ended every row is in force in the draft: in the
\* rule it matched, or in a rule of its own that was not there before.
RowsInDraft ==
  settled /\ del.phase = "idle" /\ Distinct /\ phase = "ended" =>
    \A r \in Rows : \E x \in draft :
      /\ Reflects(x, r)
      /\ IF Match(r) = {} THEN x.id \notin Ids(loaded) ELSE x.id \in Ids(Match(r))

\* After an undisturbed run with --provision the rulesets it changed are in
\* force as drafted.
ChangesProvisioned ==
  phase = "ended" /\ settled /\ flags.provision /\ del.phase = "idle" =>
    \A x \in (draft \ loaded) \cup (loaded \ draft) :
      {y \in active : y.rs = x.rs} = {y \in draft : y.rs = x.rs}

\* What --authoritative is for: when an undisturbed import with --match-on-ext
\* and an undisturbed delete with its file have run, each row of the file has
\* exactly one rule and there is no other, provided the rows are good.
RulesAreRows ==
  /\ settled /\ alone /\ Consent /\ del.phase = "ended"
  /\ flags.authoritative /\ flags.matchOnExt
  /\ Distinct /\ \A r \in Range(file) : Acts(r) /\ r.ext # NoExt
  => /\ \A x \in draft : \E r \in Range(file) : HasKey(x, r)
     /\ \A r \in Range(file) : Cardinality({x \in draft : HasKey(x, r)}) = 1
=============================================================================
