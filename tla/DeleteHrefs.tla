---------------------------- MODULE DeleteHrefs -----------------------------
(* The delete command (src/cmd/deletehrefs): a list of hrefs is deleted, the  *)
(* policy objects one by one, the workloads in one bulk call, and what was    *)
(* deleted from the draft is provisioned last.                                *)
EXTENDS PolicyStore, Sequences, Functions

VARIABLE del   \* the command: its place, its list, what is left and collected

ListOf(ids, ws) == [rules |-> ids, wklds |-> ws]

DeletePhases == {"idle", "gate", "delete", "bulk", "provision", "ended", "dead"}
DeleteDone == {"idle", "ended", "dead"}

DeleteInit ==
  del = [phase |-> "idle", list |-> ListOf({}, {}), todo |-> {}, prov |-> {},
         before |-> {}]

DeleteTypeOK ==
  /\ del.phase \in DeletePhases
  /\ del.list.rules \subseteq RuleIds /\ del.list.wklds \subseteq AllWklds
  /\ del.todo \subseteq del.list.rules
  /\ del.prov \subseteq Rulesets \cup RuleIds
  /\ del.before \subseteq Rule

\* The command starts with a list.  "before", which the program does not have,
\* is what of the list is still in the draft.
StartDelete(list) ==
  /\ del.phase \in DeleteDone
  /\ del' = [phase |-> "gate", list |-> list, todo |-> list.rules, prov |-> {},
             before |-> {x \in draft : x.id \in list.rules}]
  /\ NextCommand
  /\ UNCHANGED pce

DeleteDecision(next) ==
  /\ del.phase = "gate"
  /\ del' = [del EXCEPT !.phase = next]
  /\ UNCHANGED pce

DeleteDryRun == DeleteDecision("ended") /\ NotAsked
DeleteDenied == DeleteDecision("ended") /\ Denied

\* Slip: the prompt is not waited for.
DeleteApproved_Unasked == DeleteDecision("delete") /\ flags.updatePCE /\ Silent

DeleteApproved == DeleteDecision("delete") /\ Approved

\* What a deleted rule adds to the list to provision: its ruleset, but the
\* href of a deny rule is not recognised as that of a rule.
ProvisionHrefOf(x) == IF x.kind = "allow" THEN x.rs ELSE x.id

\* One rule is deleted.  One that is gone already is answered with 404, which
\* is a warning and leaves no trace.
DeleteHref ==
  /\ del.phase = "delete"
  /\ \E i \in del.todo :
       LET gone == {x \in draft : x.id = i} IN
       /\ del' = [del EXCEPT !.todo = @ \ {i},
                             !.prov = @ \cup {ProvisionHrefOf(x) : x \in gone}]
       /\ draft' = draft \ gone
       /\ IF gone = {} THEN Silent ELSE Works
  /\ UNCHANGED <<active, nextId, labels, wklds>>

\* A deletion that fails is a warning, too.
DeleteHrefFails ==
  /\ del.phase = "delete"
  /\ \E i \in del.todo : del' = [del EXCEPT !.todo = @ \ {i}]
  /\ Fault
  /\ UNCHANGED pce

AllDeleted ==
  /\ del.phase = "delete" /\ del.todo = {}
  /\ del' = [del EXCEPT !.phase = "bulk"]
  /\ Silent /\ UNCHANGED pce

BulkWorkload ==
  /\ del.phase = "bulk"
  /\ wklds' = wklds \ del.list.wklds
  /\ del' = [del EXCEPT !.phase = "provision"]
  /\ IF del.list.wklds = {} THEN Silent ELSE Works
  /\ UNCHANGED <<policy, labels>>

\* A fatal error of the bulk call also skips the provisioning.
BulkWorkloadFails ==
  /\ del.phase = "bulk" /\ del.list.wklds # {}
  /\ del' = [del EXCEPT !.phase = LogError("dead", "provision")]
  /\ Fault
  /\ UNCHANGED pce

DeleteProvisions == flags.provision /\ del.prov # {}

\* The PCE provisions rulesets.  Whether it takes a request that names anything
\* else is its affair.
ProvisionDeleted ==
  /\ del.phase = "provision" /\ DeleteProvisions
  /\ active' \in {Provisioned(del.prov)} \cup
                 (IF del.prov \subseteq Rulesets THEN {} ELSE {active})
  /\ del' = [del EXCEPT !.phase = "ended"]
  /\ Works
  /\ UNCHANGED <<draft, nextId, labels, wklds>>

ProvisionDeletedFails ==
  /\ del.phase = "provision" /\ DeleteProvisions
  /\ del' = [del EXCEPT !.phase = LogError("dead", "ended")]
  /\ Fault
  /\ UNCHANGED pce

NothingToProvision ==
  /\ del.phase = "provision" /\ ~DeleteProvisions
  /\ del' = [del EXCEPT !.phase = "ended"]
  /\ Silent /\ UNCHANGED pce

CrashDelete ==
  /\ del.phase \notin DeleteDone
  /\ del' = [del EXCEPT !.phase = "dead"]
  /\ Fault
  /\ UNCHANGED pce

DeleteNext ==
  \/ DeleteDryRun \/ DeleteDenied \/ DeleteApproved
  \/ DeleteHref \/ DeleteHrefFails \/ AllDeleted
  \/ BulkWorkload \/ BulkWorkloadFails
  \/ ProvisionDeleted \/ ProvisionDeletedFails \/ NothingToProvision
  \/ CrashDelete

-----------------------------------------------------------------------------
=============================================================================
