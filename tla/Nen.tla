--------------------------------- MODULE Nen ---------------------------------
(* The commands for a switch of a network enforcement node (NEN).  nen-switch *)
(* adds the switch and its interfaces, with workloads it may import first;    *)
(* nen-acl has the PCE generate the ACLs of the switch, polls until they are  *)
(* done, and writes them to a file by way of a template.                      *)
EXTENDS Session, Sequences

CONSTANTS
  Ports,        \* interfaces of the switch
  Workloads,    \* names of workloads
  NoWorkload,
  InitialWorkloads,
  SwitchFiles,  \* the CSV files of nen-switch
  Timeout,      \* polls before nen-acl gives up
  MaxPolicy     \* bound: changes of the policy

Row == [port : Ports, name : Workloads \cup {NoWorkload}]

ASSUME NenAssumption ==
  /\ InitialWorkloads \subseteq Workloads /\ NoWorkload \notin Workloads
  /\ \A f \in SwitchFiles : f \in Seq(Row)
  /\ Timeout \in Nat \ {0} /\ MaxPolicy \in Nat \ {0}
  /\ \A f \in FlagSets : /\ f.umwl \in BOOLEAN /\ f.rebuild \in BOOLEAN
                         /\ f.nenFound \in BOOLEAN

VARIABLES
  cmd, rows,
  workloads,    \* names of the workloads of the PCE
  exists,       \* the switch is there
  attached,     \* its endpoints, pairs of a port and a workload
  covered,      \* the workloads that the ACLs are for
  policy,       \* version of the policy
  acl,          \* version of the ACLs of the switch, 0 if there are none
  outdated,     \* they are older than --days
  generating,   \* the PCE is generating them
  pc,
  known,        \* what the command has loaded and, at the end, the ACLs it has fetched
  line,         \* rows of the file that are done
  polls,
  out,          \* version in the output file
  since         \* history: version of the policy when this command asked for ACLs

pce == <<workloads, exists, attached, covered, policy, acl, outdated, generating>>
command == <<cmd, rows, pc, known, line, polls>>
vars == <<session, pce, command, out, since>>

Commands == {"nen-switch", "nen-acl"}
Empty == 0
Cut == MaxPolicy + 1   \* an output file that is not complete
Unknown == [workloads |-> {}, exists |-> FALSE, attached |-> {}, acl |-> Empty]

Init ==
  /\ SessionInit
  /\ cmd \in Commands /\ rows \in SwitchFiles
  /\ workloads = InitialWorkloads /\ exists = FALSE /\ attached = {}
  /\ covered = {} /\ policy = 1 /\ acl = Empty /\ outdated = FALSE /\ generating = FALSE
  /\ pc = "begin" /\ known = Unknown /\ line = 0 /\ polls = 0
  /\ out = Empty /\ since = Empty

TypeOK ==
  /\ SessionTypeOK
  /\ cmd \in Commands /\ rows \in SwitchFiles
  /\ workloads \subseteq Workloads /\ exists \in BOOLEAN
  /\ attached \subseteq Ports \X (Workloads \cup {NoWorkload})
  /\ covered \subseteq Workloads
  /\ policy \in 1..MaxPolicy /\ acl \in 0..MaxPolicy
  /\ outdated \in BOOLEAN /\ generating \in BOOLEAN
  /\ pc \in {"begin", "load", "create", "attach", "poll", "fetch", "write", "fill", "ended", "dead"}
  /\ line \in 0..Len(rows) /\ polls \in 0..Timeout
  /\ out \in 0..Cut /\ since \in 0..MaxPolicy

Goes(next) == pc' = next /\ UNCHANGED <<cmd, rows, known, line, polls>>

-----------------------------------------------------------------------------
(* nen-switch *)

\* The names of the file, which wkld-import makes unmanaged workloads of.
Named == {rows[i].name : i \in DOMAIN rows} \ {NoWorkload}

\* Whatever becomes of the import, the command goes on with the switch.
ImportWorkloads ==
  /\ pc = "begin" /\ cmd = "nen-switch"
  /\ \/ ~flags.umwl /\ Silent /\ UNCHANGED workloads
     \/ flags.umwl /\ (NotAsked \/ Denied) /\ UNCHANGED workloads
     \/ /\ flags.umwl /\ flags.updatePCE
        /\ workloads' = workloads \cup Named
        /\ answer' = IF flags.noPrompt THEN answer ELSE "yes"
        /\ wrote' = TRUE /\ UNCHANGED <<flags, alone, faults, runs>>
  /\ Goes("load")
  /\ UNCHANGED <<exists, attached, covered, policy, acl, outdated, generating, out, since>>

\* Slip: the workloads are those from before the import.
Loaded_Before == [Unknown EXCEPT !.workloads = InitialWorkloads, !.exists = exists, !.attached = attached]

Loaded == [Unknown EXCEPT !.workloads = workloads, !.exists = exists, !.attached = attached]

LoadSwitch ==
  /\ pc = "load" /\ cmd = "nen-switch"
  /\ known' = Loaded
  /\ pc' = IF exists \/ ~flags.nenFound THEN LogError("dead", "create") ELSE "create"
  /\ Silent
  /\ UNCHANGED <<pce, cmd, rows, line, polls, out, since>>

\* With --continue-on-error there is no NEN then, and no switch.
LoadSwitchFails ==
  /\ pc = "load" /\ cmd = "nen-switch"
  /\ Goes(LogError("dead", "attach")) /\ Fault
  /\ UNCHANGED <<pce, out, since>>

\* --update-pce is not looked at.  With --continue-on-error a switch that is
\* there is used, and without a NEN the call fails.
CreateSwitch ==
  /\ pc = "create" /\ (known.exists \/ (flags.nenFound /\ ~exists))
  /\ exists' = TRUE /\ known' = [known EXCEPT !.exists = TRUE]
  /\ IF known.exists THEN Silent ELSE Works
  /\ pc' = "attach"
  /\ UNCHANGED <<workloads, attached, covered, policy, acl, outdated, generating, cmd, rows, line, polls, out, since>>

CreateFails ==
  /\ pc = "create" /\ ~known.exists
  /\ \/ flags.nenFound /\ Fault /\ UNCHANGED exists
     \/ flags.nenFound /\ LostAnswer /\ exists' = TRUE
     \/ ~flags.nenFound /\ alone' = FALSE /\ UNCHANGED <<flags, answer, wrote, faults, runs, exists>>
  /\ Goes(LogError("dead", "attach"))
  /\ UNCHANGED <<workloads, attached, covered, policy, acl, outdated, generating, out, since>>

\* The workload of a row, if the command knows it.
Resolved(r) == IF r.name \in known.workloads THEN r.name ELSE NoWorkload

\* A workload that has an endpoint gets the port of the row; a port that has
\* one is refused.
Endpoints(r) ==
  LET w == Resolved(r)
      had == {e \in known.attached \cap attached : e[2] = w /\ w # NoWorkload} IN
  IF had # {} THEN (attached \ had) \cup {<<r.port, w>>}
  ELSE attached \cup {<<r.port, w>>}

Attaching == pc = "attach" /\ line < Len(rows)

Accepted(r) == known.exists /\ Resolved(r) \in workloads \cup {NoWorkload}

Attach ==
  /\ Attaching /\ Accepted(rows[line + 1])
  /\ attached' = Endpoints(rows[line + 1])
  /\ line' = line + 1
  /\ Works
  /\ UNCHANGED <<workloads, exists, covered, policy, acl, outdated, generating, cmd, rows, pc, known, polls, out, since>>

\* A row that fails is only noted.
AttachFails ==
  /\ Attaching
  /\ IF Accepted(rows[line + 1]) THEN Fault
     ELSE alone' = FALSE /\ UNCHANGED <<flags, answer, wrote, faults, runs>>
  /\ line' = line + 1
  /\ UNCHANGED <<pce, cmd, rows, pc, known, polls, out, since>>

Attached ==
  /\ pc = "attach" /\ line = Len(rows)
  /\ Goes("ended") /\ Silent
  /\ UNCHANGED <<pce, out, since>>

-----------------------------------------------------------------------------
(* nen-acl *)

TooOld == flags.rebuild \/ acl = Empty \/ outdated

Starts(next) == /\ pc = "begin" /\ cmd = "nen-acl"
                /\ known' = Loaded /\ pc' = next
                /\ UNCHANGED <<cmd, rows, line, polls>>

\* The PCE begins to generate ACLs, or begins anew.
RequestAcl ==
  /\ exists /\ TooOld
  /\ Starts("poll") /\ Silent
  /\ generating' = TRUE /\ since' = policy
  /\ UNCHANGED <<workloads, exists, attached, covered, policy, acl, outdated, out>>

\* The error of the request is not looked at.
RequestFails ==
  /\ exists /\ TooOld
  /\ Starts("poll") /\ Fault
  /\ since' = policy
  /\ UNCHANGED <<pce, out>>

UseAcl ==
  /\ exists /\ ~TooOld
  /\ Starts("fetch") /\ Silent
  /\ UNCHANGED <<pce, out, since>>

\* There is no such switch, or the load failed, which nothing looks at.
NoMatch ==
  /\ Starts(LogError("dead", "ended"))
  /\ IF exists THEN Fault ELSE Silent
  /\ UNCHANGED <<pce, out, since>>

\* Slip: the device is looked at as it was before the request.
Generated_Loaded == acl # Empty \/ ~generating

Generated == ~generating

\* Slip: the polls are not counted.
Counted_Not(n) == n

Counted(n) == n + 1

\* After the timeout, with --continue-on-error, the polls go on.
Poll ==
  /\ pc = "poll" /\ Silent
  /\ \/ /\ Generated
        /\ pc' = "fetch" /\ UNCHANGED polls
     \/ /\ ~Generated /\ Counted(polls) < Timeout
        /\ polls' = Counted(polls) /\ UNCHANGED pc
     \/ /\ ~Generated /\ Counted(polls) >= Timeout
        /\ polls' = Timeout /\ pc' = LogError("dead", "poll")
  /\ UNCHANGED <<pce, cmd, rows, known, line, out, since>>

\* With --continue-on-error a poll without an answer ends the wait.
PollFails ==
  /\ pc = "poll"
  /\ Goes(LogError("dead", "fetch")) /\ Fault
  /\ UNCHANGED <<pce, out, since>>

\* A workload of the ACLs that was not loaded is a nil dereference.
Fetch ==
  /\ pc = "fetch" /\ Silent
  /\ known' = [known EXCEPT !.acl = acl]
  /\ pc' = IF covered \subseteq known.workloads THEN "write" ELSE "dead"
  /\ UNCHANGED <<pce, cmd, rows, line, polls, out, since>>

FetchFails ==
  /\ pc = "fetch"
  /\ Goes(LogError("dead", "write")) /\ Fault
  /\ UNCHANGED <<pce, out, since>>

\* The file is emptied before the template is executed.
Create ==
  /\ pc = "write" /\ Silent
  /\ out' = Cut
  /\ Goes("fill")
  /\ UNCHANGED <<pce, since>>

Fill ==
  /\ pc = "fill" /\ Silent
  /\ out' = known.acl
  /\ Goes("ended")
  /\ UNCHANGED <<pce, since>>

\* A function of the template fails, which leaves what is written.
FillFails ==
  /\ pc = "fill" /\ Fault
  /\ Goes(LogError("dead", "ended"))
  /\ UNCHANGED <<pce, out, since>>

-----------------------------------------------------------------------------
(* The session, the PCE and others. *)

Crash ==
  /\ pc \notin {"ended", "dead"}
  /\ Fault
  /\ Goes("dead")
  /\ UNCHANGED <<pce, out, since>>

NewCommand ==
  /\ pc \in {"ended", "dead"}
  /\ NextCommand
  /\ cmd' \in Commands /\ rows' \in SwitchFiles
  /\ pc' = "begin" /\ known' = Unknown /\ line' = 0 /\ polls' = 0 /\ since' = Empty
  /\ UNCHANGED <<pce, out>>

Generate ==
  /\ generating /\ Silent
  /\ generating' = FALSE /\ acl' = policy /\ outdated' = FALSE
  /\ covered' = {e[2] : e \in attached} \ {NoWorkload}
  /\ UNCHANGED <<workloads, exists, attached, policy, command, out, since>>

\* The policy changes, which makes no difference to a command.
EditPolicy ==
  /\ policy < MaxPolicy /\ Silent
  /\ policy' = policy + 1
  /\ UNCHANGED <<workloads, exists, attached, covered, acl, outdated, generating, command, out, since>>

Age ==
  /\ acl # Empty /\ ~outdated /\ Silent
  /\ outdated' = TRUE
  /\ UNCHANGED <<workloads, exists, attached, covered, policy, acl, generating, command, out, since>>

\* Someone attaches a new workload.
Others ==
  /\ exists /\ Fault
  /\ \E p \in Ports, w \in Workloads \ workloads :
       workloads' = workloads \cup {w} /\ attached' = attached \cup {<<p, w>>}
  /\ UNCHANGED <<exists, covered, policy, acl, outdated, generating, command, out, since>>

Step ==
  \/ ImportWorkloads \/ LoadSwitch \/ LoadSwitchFails \/ CreateSwitch \/ CreateFails
  \/ Attach \/ AttachFails \/ Attached
  \/ RequestAcl \/ RequestFails \/ UseAcl \/ NoMatch \/ Poll \/ PollFails
  \/ Fetch \/ FetchFails \/ Create \/ Fill \/ FillFails

Next == Step \/ Crash \/ NewCommand \/ Generate \/ EditPolicy \/ Age \/ Others

\* The process runs; nothing is assumed of the PCE.
Spec == Init /\ [][Next]_vars /\ WF_vars(Step)

-----------------------------------------------------------------------------
(* Properties *)

\* When nothing failed and --update-pce is set, every row of the file that names a
\* workload of the PCE has it on its interface, those imported by the same
\* command included (nen-switch.go, ImportWkldsFromCSV, Load and AttachInterfaces).
PortsFilled ==
  (pc = "ended" /\ cmd = "nen-switch" /\ alone /\ flags.updatePCE) =>
    \A i \in DOMAIN rows :
      rows[i].name \in workloads => <<rows[i].port, rows[i].name>> \in attached

\* When nothing failed, a nen-acl that asked for ACLs writes a whole file, of
\* ACLs no older than the policy when it asked (nen-acl.go,
\* BuildAndWaitForACLData).
FreshAcl ==
  (pc = "ended" /\ cmd = "nen-acl" /\ alone /\ since # Empty) => out \in since..MaxPolicy

\* Without --continue-on-error a command ends even if the PCE never generates
\* the ACLs (nen-acl.go, the timeout of BuildAndWaitForACLData).
CommandEnds ==
  (pc \notin {"ended", "dead"} /\ ~flags.continueOnError) ~> (pc \in {"ended", "dead"})
=============================================================================
