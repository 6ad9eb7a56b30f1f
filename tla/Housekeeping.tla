---------------------------- MODULE Housekeeping ----------------------------
(* The commands that tidy up workloads.  unused-umwl lists the unmanaged      *)
(* workloads without traffic, asking for the traffic of each; umwl-cleanup    *)
(* lists the unmanaged workloads that a managed one with the same addresses   *)
(* has replaced; nic-manage sets which interfaces of a workload are ignored.  *)
(* The operator hands a list to delete.                                       *)
EXTENDS Session, SequencesExt

CONSTANTS
  Managed, Unmanaged,  \* workloads
  Addrs,               \* the addresses of the interfaces of a workload
  Gateway,             \* those of a managed workload that have a default gateway
  Nics,                \* names of interfaces
  NicFiles,            \* the CSV files of nic-manage
  MaxAttempts          \* attempts of a traffic query

Workloads == Managed \cup Unmanaged
NicRow == [wkld : Workloads, nic : Nics, ignored : BOOLEAN]

ASSUME HousekeepingAssumption ==
  /\ IsFiniteSet(Workloads) /\ Managed \cap Unmanaged = {}
  /\ \A m \in Managed : Gateway[m] \subseteq Addrs[m]
  /\ \A f \in NicFiles : f \in Seq(NicRow)
  /\ MaxAttempts \in Nat \ {0}
  /\ \A f \in FlagSets : f.all \in BOOLEAN /\ f.oneInterfaceMatch \in BOOLEAN

VARIABLES
  cmd, nicFile,
  present,     \* workloads of the PCE
  ignored,     \* the ignored interfaces of each workload
  traffic,     \* unmanaged workloads with traffic in the time of the query
  pc,
  todo,        \* unmanaged workloads whose traffic is still to be asked for
  attempt,     \* attempts made for the first of them
  rows,        \* what the command is going to list
  seen,        \* the ignored interfaces that nic-manage read
  line,        \* the row of its file that it comes to
  planned,     \* its payloads, by workload
  file,        \* the list on disk, pairs of a managed and an unmanaged workload,
               \* with, as history, busy of that time
  busy         \* history: workloads with traffic when the listing began

pce == <<present, ignored, traffic>>
nics == <<nicFile, seen, line, planned>>
command == <<cmd, pc, todo, attempt, rows, nics>>
disk == <<file, busy>>
vars == <<session, pce, command, disk>>

Commands == {"unused-umwl", "umwl-cleanup", "nic-manage"}
Nothing == <<>>
Unlisted == [cmd |-> "none", rows |-> {}, busy |-> {}]

Init ==
  /\ SessionInit
  /\ cmd \in Commands /\ nicFile \in NicFiles
  /\ present = Workloads
  /\ ignored = [w \in Workloads |-> {}] /\ traffic \in SUBSET Unmanaged
  /\ pc = "load" /\ todo = <<>> /\ attempt = 0 /\ rows = {}
  /\ seen = Nothing /\ line = 1 /\ planned = Nothing
  /\ file = Unlisted /\ busy = {}

TypeOK ==
  /\ SessionTypeOK
  /\ cmd \in Commands /\ present \subseteq Workloads
  /\ ignored \in [Workloads -> SUBSET Nics] /\ traffic \subseteq Unmanaged
  /\ pc \in {"load", "query", "rows", "decide", "push", "ended", "dead"}
  /\ todo \in Seq(Unmanaged) /\ attempt \in 0..MaxAttempts
  /\ line \in 1..(Len(nicFile) + 1)
  /\ busy \subseteq Unmanaged

Goes(next) == pc' = next /\ UNCHANGED <<cmd, todo, attempt, rows, nics>>

-----------------------------------------------------------------------------
(* unused-umwl *)

\* What comes after the traffic of the first workload is known, or given up.
Next1(found) ==
  /\ rows' = IF found /\ ~flags.all THEN rows ELSE rows \cup {Head(todo)}
  /\ todo' = Tail(todo) /\ attempt' = 0
  /\ UNCHANGED <<cmd, pc, nics>>

LoadUnmanaged ==
  /\ pc = "load" /\ cmd = "unused-umwl"
  /\ todo' = SetToSeq(present \cap Unmanaged)
  /\ pc' = "query" /\ busy' = traffic
  /\ Silent
  /\ UNCHANGED <<pce, file, cmd, attempt, rows, nics>>

Querying == pc = "query" /\ todo # <<>>

Query ==
  /\ Querying
  /\ Next1(Head(todo) \in traffic)
  /\ Silent
  /\ UNCHANGED <<pce, disk>>

\* Slip: a transient error of the last attempt is not reported, and the loop
\* ends without traffic.
Reported_NotLast(transient, n) == ~transient

\* Whether the error of attempt n is reported, or retried after a pause.
Reported(transient, n) == ~transient \/ n = MaxAttempts

\* An error that is reported ends the process; with --continue-on-error the
\* next attempt follows, and after the last one there is no traffic.
QueryFails ==
  /\ Querying
  /\ \E transient \in BOOLEAN :
       IF Reported(transient, attempt + 1) /\ ~flags.continueOnError THEN Goes("dead")
       ELSE IF attempt + 1 < MaxAttempts
            THEN attempt' = attempt + 1 /\ UNCHANGED <<cmd, pc, todo, rows, nics>>
            ELSE Next1(FALSE)
  /\ alone' = FALSE
  /\ UNCHANGED <<flags, answer, wrote, faults, runs, pce, disk>>

\* Without a row no file is written, and the one of an earlier run stays.
Listed ==
  /\ pc = "query" /\ todo = <<>>
  /\ Goes("ended")
  /\ file' = IF rows = {} THEN file ELSE [cmd |-> cmd, rows |-> {<<u, u>> : u \in rows}, busy |-> busy]
  /\ Silent
  /\ UNCHANGED <<pce, busy>>

-----------------------------------------------------------------------------
(* umwl-cleanup: maps from addresses to workloads, in which the last workload *)
(* of the PCE's answer with an address takes it.                              *)

Orders == {o \in [Workloads -> 1..Cardinality(Workloads)] :
             \A v, w \in Workloads : o[v] = o[w] => v = w}

Owner(o, S, has, a) ==
  {w \in S \cap present : a \in has[w] /\ \A v \in S \cap present : a \in has[v] => o[v] <= o[w]}

\* Slip: an address of any managed workload will do.
Covers_Any(o, m, u) == \A a \in Addrs[u] : Owner(o, Managed, Addrs, a) # {}

\* All addresses of u are looked up as addresses of m.
Covers(o, m, u) == \A a \in Addrs[u] : Owner(o, Managed, Addrs, a) = {m}

Matches(o) ==
  { p \in (Managed \cap present) \X (Unmanaged \cap present) :
      /\ \E a \in Gateway[p[1]] : /\ Owner(o, Managed, Gateway, a) = {p[1]}
                                  /\ Owner(o, Unmanaged, Addrs, a) = {p[2]}
      /\ flags.oneInterfaceMatch \/ Covers(o, p[1], p[2]) }

\* The file is written even if there is no match.
Match ==
  /\ pc = "load" /\ cmd = "umwl-cleanup"
  /\ \E o \in Orders : file' = [cmd |-> cmd, rows |-> Matches(o), busy |-> {}]
  /\ Goes("ended")
  /\ Silent
  /\ UNCHANGED <<pce, busy>>

-----------------------------------------------------------------------------
(* nic-manage *)

LoadNics ==
  /\ pc = "load" /\ cmd = "nic-manage"
  /\ seen' = [w \in present |-> ignored[w]]
  /\ pc' = "rows"
  /\ Silent
  /\ UNCHANGED <<pce, disk, cmd, todo, attempt, rows, nicFile, line, planned>>

\* A row for the interface of an earlier one is an error, and so is one for a
\* workload that is not there, of which no interface is ignored.
Repeated(r) ==
  \E i \in 1..(line - 1) : nicFile[i].wkld = r.wkld /\ nicFile[i].nic = r.nic
Unknown(r) == r.wkld \notin DOMAIN seen
Ignored(r) == ~Unknown(r) /\ r.nic \in seen[r.wkld]

\* Slip: every row starts from the workload as it was read.
Base_Read(w) == seen[w]

\* The payload of an earlier row for the same workload is built upon.
Base(w) == IF w \in DOMAIN planned THEN planned[w] ELSE seen[w]

Payload(r) == IF r.ignored THEN Base(r.wkld) \cup {r.nic} ELSE Base(r.wkld) \ {r.nic}

Reading == pc = "rows" /\ line <= Len(nicFile)

PlanNic ==
  /\ Reading
  /\ LET r == nicFile[line] IN
       /\ ~(Repeated(r) \/ Unknown(r)) \/ flags.continueOnError
       /\ Unknown(r) => ~r.ignored
       /\ planned' = IF Ignored(r) <=> r.ignored THEN planned
                     ELSE [w \in DOMAIN planned \cup {r.wkld} |->
                             IF w = r.wkld THEN Payload(r) ELSE planned[w]]
       /\ alone' = (alone /\ ~Repeated(r) /\ ~Unknown(r))
  /\ line' = line + 1
  /\ UNCHANGED <<flags, answer, wrote, faults, runs, pce, disk, cmd, pc, todo, attempt, rows,
                 nicFile, seen>>

\* An error ends the process unless --continue-on-error is given; even then a
\* row to ignore an interface of a workload that is not there dereferences nil.
RowFails ==
  /\ Reading
  /\ LET r == nicFile[line] IN
       \/ (Repeated(r) \/ Unknown(r)) /\ ~flags.continueOnError
       \/ Unknown(r) /\ r.ignored
  /\ Goes("dead")
  /\ alone' = FALSE
  /\ UNCHANGED <<flags, answer, wrote, faults, runs, pce, disk>>

RowsDone ==
  /\ pc = "rows" /\ line > Len(nicFile)
  /\ Goes(IF planned = Nothing THEN "ended" ELSE "decide")
  /\ Silent
  /\ UNCHANGED <<pce, disk>>

Decision(next) == pc = "decide" /\ Goes(next) /\ UNCHANGED <<pce, disk>>

DryRun == Decision("ended") /\ NotAsked
PromptDenied == Decision("ended") /\ Denied

Approve == Decision("push") /\ Approved

\* The PCE takes the payloads of the workloads in W.
Ignore(W) ==
  ignored' = [w \in Workloads |-> IF w \in W \cap present THEN planned[w] ELSE ignored[w]]

PushNics ==
  /\ pc = "push" /\ DOMAIN planned \subseteq present
  /\ Ignore(DOMAIN planned)
  /\ Goes("ended") /\ Works
  /\ UNCHANGED <<present, traffic, disk>>

\* The PCE refuses some of the payloads, or the answer is lost.
PushFails ==
  /\ pc = "push"
  /\ \E W \in SUBSET DOMAIN planned : Ignore(W)
  /\ Goes("dead") /\ LostAnswer
  /\ UNCHANGED <<present, traffic, disk>>

-----------------------------------------------------------------------------
(* The operator and everyone else. *)

LoadFails == pc = "load" /\ Goes("dead") /\ Fault /\ UNCHANGED <<pce, disk>>

Crash ==
  /\ pc \in {"query", "rows", "decide", "push"}
  /\ Goes("dead") /\ Fault
  /\ UNCHANGED <<pce, disk>>

NewCommand ==
  /\ pc \in {"ended", "dead"}
  /\ NextCommand
  /\ cmd' \in Commands
  /\ pc' = "load" /\ todo' = <<>> /\ attempt' = 0 /\ rows' = {}
  /\ seen' = Nothing /\ line' = 1 /\ planned' = Nothing
  /\ UNCHANGED <<pce, disk, nicFile>>

\* delete of the list.
DeleteListed ==
  /\ pc \in {"ended", "dead"}
  /\ present' = present \ {p[2] : p \in file.rows}
  /\ UNCHANGED <<session, command, disk, ignored, traffic>>

Traffic ==
  /\ \E u \in (Unmanaged \cap present) \ traffic : traffic' = traffic \cup {u}
  /\ Fault
  /\ UNCHANGED <<present, ignored, command, disk>>

OthersIgnore ==
  /\ \E w \in present, n \in Nics : ignored' = [ignored EXCEPT ![w] = {n}]
  /\ Fault
  /\ UNCHANGED <<present, traffic, command, disk>>

Next ==
  \/ LoadUnmanaged \/ Query \/ QueryFails \/ Listed \/ Match
  \/ LoadNics \/ PlanNic \/ RowFails \/ RowsDone
  \/ DryRun \/ PromptDenied \/ Approve \/ PushNics \/ PushFails \/ LoadFails
  \/ Crash \/ NewCommand \/ DeleteListed \/ Traffic \/ OthersIgnore

Spec == Init /\ [][Next]_vars

-----------------------------------------------------------------------------
(* Properties. *)

\* A workload that had traffic when the listing began is not listed as unused,
\* whatever queries fail.
UsedNotListed ==
  file.cmd = "unused-umwl" /\ ~flags.all /\ ~flags.continueOnError =>
    \A p \in file.rows : p[2] \notin file.busy

\* A workload is listed as replaced by a managed one only if that one has all
\* of its addresses.
ReplacedOnly ==
  file.cmd = "umwl-cleanup" /\ ~flags.oneInterfaceMatch =>
    \A p \in file.rows : Addrs[p[2]] \subseteq Addrs[p[1]]

\* After an undisturbed nic-manage every row of the file holds, however many
\* rows there are for one workload.
NicRowsHold ==
  cmd = "nic-manage" /\ pc = "ended" /\ alone /\ flags.updatePCE /\ answer # "no" =>
    \A i \in DOMAIN nicFile :
      nicFile[i].nic \in ignored[nicFile[i].wkld] <=> nicFile[i].ignored
=============================================================================
