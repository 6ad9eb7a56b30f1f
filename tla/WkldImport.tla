----------------------------- MODULE WkldImport -----------------------------
(* The wkld-import command (src/cmd/wkldimport): a CSV of workloads and their *)
(* labels is compared with a snapshot of the PCE, the differences become a    *)
(* list of updates and a list of unmanaged workloads to create, and, with the *)
(* operator's consent, missing labels are created and both lists are pushed.  *)
(*                                                                            *)
(* Data is abstracted to what the properties tell apart: a label is a pair    *)
(* <<dimension, value>>; the index of a workload in the PCE stands for its    *)
(* href; the columns modelled are the match column and the label columns.     *)
EXTENDS Integers, Sequences, FiniteSets

CONSTANTS
  Dims, Values,          \* label dimensions and label values
  Names,                 \* hostnames
  Blank, Remove, None,   \* an empty cell, the --remove-value cell, no label
  NoLabel,               \* the label of an empty href
  Short,                 \* [Names -> Names]: the hostname up to its first dot
  Csvs,                  \* the CSV files a run may be given
  FlagSets,              \* the flag combinations a run may be given
  InitWklds, InitLabels, \* the PCE before the first run
  MaxFaults,             \* bound: crashes, API errors and edits by others
  MaxRuns                \* bound: invocations of the command

Labels == Dims \X Values
Cells == Values \cup {Blank, Remove}
LabelMaps == [Dims -> Values \cup {None}]
Hrefs == [temp : BOOLEAN, label : Labels \cup {NoLabel}]
Workloads == [host : Names, managed : BOOLEAN, labels : LabelMaps]
Rows == [host : Names, cells : UNION {[H -> Cells] : H \in SUBSET Dims}]
Updates == [id : Nat \ {0}, host : Names, labels : SUBSET Hrefs]
Creates == [host : Names, labels : SUBSET Hrefs]
Flags == [umwl : BOOLEAN, update : BOOLEAN, managedOnly : BOOLEAN,
          unmanagedOnly : BOOLEAN, fqdnToShort : BOOLEAN,
          maxUpdate : Nat \cup {-1}, maxCreate : Nat \cup {-1},
          updatePCE : BOOLEAN, noPrompt : BOOLEAN, continueOnError : BOOLEAN]

\* The labels worn by a workload.
Worn(L) == {<<d, L[d]>> : d \in {e \in Dims : L[e] # None}}

ASSUME DataAssumption ==
  /\ None \notin Values /\ Blank \notin Values /\ Remove \notin Values
  /\ Blank # None /\ Remove # None /\ Blank # Remove
  /\ NoLabel \notin Labels
  /\ Short \in [Names -> Names]
  /\ \A n \in Names : Short[Short[n]] = Short[n]

ASSUME InputAssumption ==
  /\ Csvs \subseteq Seq(Rows)
  /\ FlagSets \subseteq Flags
  /\ InitLabels \subseteq Labels
  /\ InitWklds \in Seq(Workloads)
  /\ \A i \in DOMAIN InitWklds : Worn(InitWklds[i].labels) \subseteq InitLabels

ASSUME BoundAssumption ==
  MaxFaults \in Nat /\ MaxRuns \in Nat \ {0}

VARIABLES
  pceLabels, pceWklds,   \* the PCE
  csv, flags,            \* the input file and the flags, the same in every run
  phase,                 \* where the run is
  loaded, snap,          \* pce.Labels without placeholders, WorkloadsSlice
  row,                   \* the next CSV row
  newLabels,             \* labels with a placeholder href
  replacement,           \* labelReplacementMap, by label
  updates, creates,      \* updatedWklds and newUMWLs
  pos,                   \* the next element of the list being pushed
  answer, wrote,         \* the prompt of this run; did it modify the PCE
  faults, runs,          \* the bounds so far
  clean, settled         \* nothing went wrong in this run / since a full run

pce  == <<pceLabels, pceWklds>>
input == <<csv, flags>>
plan == <<newLabels, updates, creates>>
view == <<loaded, snap>>
track == <<faults, runs>>
vars == <<pce, input, phase, view, row, plan, replacement, pos, answer, wrote,
          track, clean, settled>>

Phases == {"load", "plan", "decide", "labels", "update", "create",
           "ended", "dead"}

EmptyHref == [temp |-> FALSE, label |-> NoLabel]
RealHref(l) == [temp |-> FALSE, label |-> l]

-----------------------------------------------------------------------------
(* The state a fresh invocation starts in. *)

Init ==
  /\ pceLabels = InitLabels /\ pceWklds = InitWklds
  /\ csv \in Csvs /\ flags \in FlagSets
  /\ phase = "load"
  /\ loaded = {} /\ snap = <<>>
  /\ row = 1
  /\ newLabels = {} /\ updates = <<>> /\ creates = <<>>
  /\ replacement = [l \in {} |-> EmptyHref]
  /\ pos = 1
  /\ answer = "unasked" /\ wrote = FALSE
  /\ faults = 0 /\ runs = 1
  /\ clean = TRUE /\ settled = FALSE

(* utils.LogError: the process exits, unless --continue-on-error. *)
Fatal ==
  /\ ~flags.continueOnError
  /\ phase' = "dead"

-----------------------------------------------------------------------------
(* Loading the PCE and building the map the rows are matched with. *)

Load ==
  /\ phase = "load"
  /\ (flags.umwl => ~flags.managedOnly /\ ~flags.unmanagedOnly)
       \/ flags.continueOnError
  /\ phase' = "plan"
  /\ loaded' = pceLabels
  /\ snap' = pceWklds
  /\ UNCHANGED <<pce, input, row, plan, replacement, pos, answer, wrote, track,
                 clean, settled>>

\* --umwl together with a filter is refused.
LoadRefused ==
  /\ phase = "load"
  /\ flags.umwl /\ (flags.managedOnly \/ flags.unmanagedOnly)
  /\ Fatal
  /\ UNCHANGED <<pce, input, view, row, plan, replacement, pos, answer, wrote,
                 track, clean, settled>>

\* Loading the workloads fails; the labels were loaded with the target PCE.
LoadFails ==
  /\ phase = "load"
  /\ faults < MaxFaults
  /\ faults' = faults + 1
  /\ \/ Fatal /\ UNCHANGED loaded
     \/ /\ flags.continueOnError
        /\ phase' = "plan"
        /\ loaded' = pceLabels
  /\ clean' = FALSE /\ settled' = FALSE
  /\ UNCHANGED <<pce, input, snap, row, plan, replacement, pos, answer, wrote,
                 runs>>

\* The hostname of a workload after the --fqdn-to-short rewrite of the slice.
HostKey(w) == IF flags.fqdnToShort THEN Short[w.host] ELSE w.host

\* Slip: the map is only filled for a filtered run.
InMap_Filtered(w) ==
  \/ flags.managedOnly /\ w.managed
  \/ flags.unmanagedOnly /\ ~w.managed

\* Which workloads are in the map.  --fqdn-to-short rebuilds the map from the
\* whole slice, after the filter of --managed-only and --unmanaged-only.
InMap(w) ==
  \/ flags.fqdnToShort
  \/ ~flags.managedOnly /\ ~flags.unmanagedOnly
  \/ flags.managedOnly /\ w.managed
  \/ flags.unmanagedOnly /\ ~w.managed

\* The workload a hostname maps to (the last one of the slice), if any.
Matches(host) ==
  LET C == {i \in DOMAIN snap : InMap(snap[i]) /\ HostKey(snap[i]) = host}
  IN {i \in C : \A j \in C : j <= i}

-----------------------------------------------------------------------------
(* Planning one CSV row.  L is the label map of the snapshot workload (of a   *)
(* blank workload when the row is to create one), r the row.                  *)

NoLabels == [d \in Dims |-> None]

\* Slip: a blank cell clears the label.
Kept_NotBlank(L, r) ==
  {l \in Worn(L) : l[1] \in DOMAIN r.cells => r.cells[l[1]] = l[2]}

\* Labels the row leaves alone: dimensions without a column, blank cells and
\* cells equal to the current value.
Kept(L, r) ==
  {l \in Worn(L) : l[1] \in DOMAIN r.cells => r.cells[l[1]] \in {Blank, l[2]}}

\* Slip: the current value is not compared.
Wanted_Again(L, r) ==
  {<<d, r.cells[d]>> : d \in {e \in DOMAIN r.cells : r.cells[e] \in Values}}

\* Labels the row asks for and the workload does not wear.
Wanted(L, r) ==
  {<<d, r.cells[d]>> : d \in {e \in DOMAIN r.cells :
                                r.cells[e] \in Values /\ r.cells[e] # L[e]}}

Removed(L, r) ==
  {l \in Worn(L) : l[1] \in DOMAIN r.cells /\ r.cells[l[1]] = Remove}

\* A label known to the PCE keeps its href, any other one gets a placeholder.
checkLabel(l) == [temp |-> l \notin loaded, label |-> l]

RowLabels(L, r) ==
  {RealHref(l) : l \in Kept(L, r)} \cup {checkLabel(l) : l \in Wanted(L, r)}

\* Slip: removing a label does not mark the workload as changed.
Changes_NoRemoval(L, r) == flags.update /\ Wanted(L, r) # {}

Changes(L, r) ==
  flags.update /\ (Wanted(L, r) # {} \/ Removed(L, r) # {})

Placeholders(L, r) == Wanted(L, r) \ loaded

NextRow ==
  /\ phase = "plan"
  /\ row \in DOMAIN csv
  /\ row' = row + 1
  /\ UNCHANGED <<pce, input, phase, view, replacement, pos, answer, wrote,
                 track, clean, settled>>

\* The row names a workload of the map: placeholders are collected even when
\* the workload is not going to be updated.
PlanExisting ==
  /\ NextRow
  /\ \E id \in Matches(csv[row].host) :
       LET L == snap[id].labels IN
       /\ newLabels' = newLabels \cup Placeholders(L, csv[row])
       /\ updates' = IF Changes(L, csv[row])
                     THEN Append(updates, [id |-> id,
                                           host |-> HostKey(snap[id]),
                                           labels |-> RowLabels(L, csv[row])])
                     ELSE updates
  /\ UNCHANGED creates

\* No such workload, and --umwl: the row becomes a new unmanaged workload.
PlanUnmanaged ==
  /\ NextRow
  /\ Matches(csv[row].host) = {}
  /\ flags.umwl
  /\ newLabels' = newLabels \cup Placeholders(NoLabels, csv[row])
  /\ creates' = Append(creates, [host |-> csv[row].host,
                                 labels |-> RowLabels(NoLabels, csv[row])])
  /\ UNCHANGED updates

SkipRow ==
  /\ NextRow
  /\ Matches(csv[row].host) = {}
  /\ ~flags.umwl
  /\ UNCHANGED plan

PlanDone ==
  /\ phase = "plan"
  /\ row \notin DOMAIN csv
  /\ phase' = "decide"
  /\ UNCHANGED <<pce, input, view, row, plan, replacement, pos, answer, wrote,
                 track, clean, settled>>

-----------------------------------------------------------------------------
(* Deciding whether to write. *)

Nothing == updates = <<>> /\ creates = <<>>

Decision(next) ==
  /\ phase = "decide"
  /\ phase' = next
  /\ UNCHANGED <<pce, input, view, row, plan, replacement, pos, wrote, track,
                 clean>>

NothingToDo ==
  /\ Decision("ended")
  /\ Nothing
  /\ settled' = clean
  /\ UNCHANGED answer

DryRun ==
  /\ Decision("ended")
  /\ ~Nothing
  /\ ~flags.updatePCE
  /\ UNCHANGED <<answer, settled>>

\* Slip: --update-pce is not looked at when --no-prompt is set.
Approve_NoPromptOnly ==
  /\ Decision("labels")
  /\ ~Nothing
  /\ \/ flags.noPrompt /\ UNCHANGED answer
     \/ ~flags.noPrompt /\ flags.updatePCE /\ answer' = "yes"
  /\ UNCHANGED settled

Approve ==
  /\ Decision("labels")
  /\ ~Nothing
  /\ flags.updatePCE
  /\ \/ flags.noPrompt /\ UNCHANGED answer
     \/ ~flags.noPrompt /\ answer' = "yes"
  /\ UNCHANGED settled

PromptDenied ==
  /\ Decision("ended")
  /\ ~Nothing
  /\ flags.updatePCE /\ ~flags.noPrompt
  /\ answer' = "no"
  /\ UNCHANGED settled

-----------------------------------------------------------------------------
(* Creating the missing labels, in any order. *)

\* Slip: a label whose creation failed is tried again.
Pending_Retry ==
  newLabels \ {l \in DOMAIN replacement : replacement[l] # EmptyHref}

Pending == newLabels \ DOMAIN replacement

Replaced(l, h) ==
  replacement' = [k \in DOMAIN replacement \cup {l} |->
                    IF k = l THEN h ELSE replacement[k]]

CreateLabel(l) ==
  /\ phase = "labels"
  /\ l \in Pending
  /\ l \notin pceLabels
  /\ pceLabels' = pceLabels \cup {l}
  /\ Replaced(l, RealHref(l))
  /\ wrote' = TRUE
  /\ UNCHANGED <<pceWklds, input, phase, view, row, plan, pos, answer, track,
                 clean, settled>>

\* The PCE refuses the label (someone created it meanwhile) or the call fails.
CreateLabelFails(l) ==
  /\ phase = "labels"
  /\ l \in Pending
  /\ \/ l \in pceLabels /\ UNCHANGED faults
     \/ faults < MaxFaults /\ faults' = faults + 1
  /\ \/ Fatal /\ UNCHANGED replacement
     \/ /\ flags.continueOnError
        /\ Replaced(l, EmptyHref)
        /\ UNCHANGED phase
  /\ clean' = FALSE
  /\ UNCHANGED <<pce, input, view, row, plan, pos, answer, wrote, runs, settled>>

\* Slip: placeholders are pushed as they are.
Resolve_Identity(h) == h

\* labelReplacementMap[h]: an empty href when the label is not in the map.
Resolve(h) ==
  IF ~h.temp THEN h
  ELSE IF h.label \in DOMAIN replacement THEN replacement[h.label]
  ELSE EmptyHref

ResolveAll(list) ==
  [i \in DOMAIN list |->
     [list[i] EXCEPT !.labels = {Resolve(h) : h \in list[i].labels}]]

LabelsDone ==
  /\ phase = "labels"
  /\ Pending = {}
  /\ phase' = "update"
  /\ updates' = ResolveAll(updates)
  /\ creates' = ResolveAll(creates)
  /\ UNCHANGED <<pce, input, view, row, newLabels, replacement, pos, answer,
                 wrote, track, clean, settled>>

-----------------------------------------------------------------------------
(* Pushing the two lists.  The PCE handles a bulk request item by item; an    *)
(* item with an empty href is refused without the request failing, and the    *)
(* hostname of a managed workload is the agent's to set.                      *)

OverLimit(list, max) == max # -1 /\ Len(list) > max

Accepted(hrefs) == EmptyHref \notin hrefs

LabelsOf(hrefs) ==
  [d \in Dims |->
     IF \E v \in Values : RealHref(<<d, v>>) \in hrefs
     THEN CHOOSE v \in Values : RealHref(<<d, v>>) \in hrefs
     ELSE None]

Updated(w, u) ==
  [w EXCEPT !.labels = LabelsOf(u.labels),
            !.host = IF w.managed THEN @ ELSE u.host]

Running == phase \notin {"ended", "dead"}

\* An item of the list is due.
Due(here, list, max) ==
  /\ phase = here
  /\ ~OverLimit(list, max)
  /\ pos \in DOMAIN list

PushUpdate ==
  /\ Due("update", updates, flags.maxUpdate)
  /\ LET u == updates[pos] IN
     IF Accepted(u.labels)
     THEN /\ pceWklds' = [pceWklds EXCEPT ![u.id] = Updated(@, u)]
          /\ UNCHANGED clean
     ELSE /\ clean' = FALSE
          /\ UNCHANGED pceWklds
  /\ pos' = pos + 1
  /\ wrote' = TRUE
  /\ UNCHANGED <<pceLabels, input, phase, view, row, plan, replacement, answer,
                 track, settled>>

PushCreate ==
  /\ Due("create", creates, flags.maxCreate)
  /\ LET c == creates[pos] IN
     IF Accepted(c.labels)
     THEN /\ pceWklds' = Append(pceWklds, [host |-> c.host, managed |-> FALSE,
                                           labels |-> LabelsOf(c.labels)])
          /\ UNCHANGED clean
     ELSE /\ clean' = FALSE
          /\ UNCHANGED pceWklds
  /\ pos' = pos + 1
  /\ wrote' = TRUE
  /\ UNCHANGED <<pceLabels, input, phase, view, row, plan, replacement, answer,
                 track, settled>>

\* A bulk call fails: the rest of its list is not pushed.
BulkFails ==
  /\ \/ Due("update", updates, flags.maxUpdate)
     \/ Due("create", creates, flags.maxCreate)
  /\ faults < MaxFaults
  /\ faults' = faults + 1
  /\ \/ Fatal /\ UNCHANGED pos
     \/ /\ flags.continueOnError
        /\ phase' = IF phase = "update" THEN "create" ELSE "ended"
        /\ pos' = 1
  /\ clean' = FALSE
  /\ UNCHANGED <<pce, input, view, row, plan, replacement, answer, wrote, runs,
                 settled>>

\* --max-update and --max-create are looked at here, after the labels.
LimitExceeded ==
  /\ \/ phase = "update" /\ OverLimit(updates, flags.maxUpdate)
     \/ phase = "create" /\ OverLimit(creates, flags.maxCreate)
  /\ \/ Fatal
     \/ /\ flags.continueOnError
        /\ phase' = IF phase = "update" THEN "create" ELSE "ended"
  /\ clean' = FALSE
  /\ UNCHANGED <<pce, input, view, row, plan, replacement, pos, answer, wrote,
                 track, settled>>

UpdatesDone ==
  /\ phase = "update"
  /\ ~OverLimit(updates, flags.maxUpdate)
  /\ pos \notin DOMAIN updates
  /\ phase' = "create"
  /\ pos' = 1
  /\ UNCHANGED <<pce, input, view, row, plan, replacement, answer, wrote,
                 track, clean, settled>>

Finish ==
  /\ phase = "create"
  /\ ~OverLimit(creates, flags.maxCreate)
  /\ pos \notin DOMAIN creates
  /\ phase' = "ended"
  /\ settled' = clean
  /\ UNCHANGED <<pce, input, view, row, plan, replacement, pos, answer, wrote,
                 track, clean>>

-----------------------------------------------------------------------------
(* The environment: the process is killed, the operator runs the command      *)
(* again, other administrators and agents change the PCE.                     *)

Crash ==
  /\ Running
  /\ faults < MaxFaults
  /\ faults' = faults + 1
  /\ phase' = "dead"
  /\ UNCHANGED <<pce, input, view, row, plan, replacement, pos, answer, wrote,
                 runs, clean, settled>>

Rerun ==
  /\ ~Running
  /\ runs < MaxRuns
  /\ runs' = runs + 1
  /\ phase' = "load"
  /\ loaded' = {} /\ snap' = <<>>
  /\ row' = 1
  /\ newLabels' = {} /\ updates' = <<>> /\ creates' = <<>>
  /\ replacement' = [l \in {} |-> EmptyHref]
  /\ pos' = 1
  /\ answer' = "unasked" /\ wrote' = FALSE
  /\ clean' = TRUE
  /\ UNCHANGED <<pce, input, faults, settled>>

Others ==
  /\ faults < MaxFaults
  /\ faults' = faults + 1
  /\ clean' = FALSE /\ settled' = FALSE
  /\ UNCHANGED <<input, phase, view, row, plan, replacement, pos, answer, wrote,
                 runs>>

AdminRelabels(i, l) ==
  /\ Others
  /\ i \in DOMAIN pceWklds
  /\ pceLabels' = pceLabels \cup {l}
  /\ pceWklds' = [pceWklds EXCEPT ![i].labels[l[1]] = l[2]]

AgentPairs(n) ==
  /\ Others
  /\ pceWklds' = Append(pceWklds, [host |-> n, managed |-> TRUE,
                                   labels |-> NoLabels])
  /\ UNCHANGED pceLabels

-----------------------------------------------------------------------------
(* The specification: RunStep is what the process does by itself. *)

RunStep ==
  \/ Load \/ LoadRefused
  \/ PlanExisting \/ PlanUnmanaged \/ SkipRow \/ PlanDone
  \/ NothingToDo \/ DryRun \/ Approve \/ PromptDenied
  \/ \E l \in Labels : CreateLabel(l) \/ CreateLabelFails(l)
  \/ LabelsDone
  \/ PushUpdate \/ PushCreate \/ LimitExceeded \/ UpdatesDone \/ Finish

Next ==
  \/ RunStep
  \/ LoadFails \/ BulkFails \/ Crash \/ Rerun
  \/ \E i \in DOMAIN pceWklds, l \in Labels : AdminRelabels(i, l)
  \/ \E n \in Names : AgentPairs(n)

Spec == Init /\ [][Next]_vars

\* A started process keeps running and the operator answers the prompt.
FairSpec == Spec /\ WF_vars(RunStep)

-----------------------------------------------------------------------------
(* Properties. *)

PartialMaps == UNION {[S -> Hrefs] : S \in SUBSET Labels}

\* Every variable holds a value of its type.
TypeOK ==
  /\ pceLabels \subseteq Labels /\ pceWklds \in Seq(Workloads)
  /\ csv \in Seq(Rows) /\ flags \in Flags
  /\ phase \in Phases
  /\ loaded \subseteq Labels /\ snap \in Seq(Workloads)
  /\ row \in Nat \ {0} /\ pos \in Nat \ {0}
  /\ newLabels \subseteq Labels
  /\ replacement \in PartialMaps
  /\ updates \in Seq(Updates) /\ creates \in Seq(Creates)
  /\ answer \in {"unasked", "yes", "no"} /\ wrote \in BOOLEAN
  /\ faults \in Nat /\ runs \in Nat
  /\ clean \in BOOLEAN /\ settled \in BOOLEAN

Payloads ==
  {updates[i].labels : i \in DOMAIN updates} \cup
  {creates[i].labels : i \in DOMAIN creates}

\* import.go's replacement loops: once labels are created, what is pushed names
\* only labels that exist in the PCE; a placeholder never reaches the API, and
\* an empty href only when --continue-on-error went past a failed creation.
PushedLabelsExist ==
  phase \in {"update", "create"} =>
    \A hrefs \in Payloads : \A h \in hrefs :
      \/ h = EmptyHref /\ flags.continueOnError
      \/ ~h.temp /\ h.label \in pceLabels

\* The inductive invariant behind PushedLabelsExist: labels are never deleted,
\* so what was loaded, what is worn and what was created still exists, and a
\* planned href is either real or the placeholder of a label to be created.
WornLabelsExist ==
  /\ loaded \subseteq pceLabels
  /\ \A i \in DOMAIN pceWklds : Worn(pceWklds[i].labels) \subseteq pceLabels
  /\ \A i \in DOMAIN snap : Worn(snap[i].labels) \subseteq pceLabels

Planned(hrefs) ==
  \A h \in hrefs : IF h.temp THEN h.label \in newLabels
                            ELSE h.label \in pceLabels

PlannedLabelsKnown ==
  phase \in {"load", "plan", "decide", "labels"} =>
    /\ \A i \in DOMAIN updates : Planned(updates[i].labels)
    /\ \A i \in DOMAIN creates : Planned(creates[i].labels)

ReplacementsExist ==
  \A l \in DOMAIN replacement :
    \/ replacement[l] = EmptyHref /\ flags.continueOnError
    \/ replacement[l] = RealHref(l) /\ l \in pceLabels

\* What the properties of an undisturbed run ask of the input: no hostname has
\* two rows, and --umwl takes them as the map has them (unfiltered, and short
\* when --fqdn-to-short shortens the others).
OneRowEach == \A j, k \in DOMAIN csv : csv[j].host = csv[k].host => j = k

HostsFit ==
  flags.umwl =>
    /\ ~flags.managedOnly /\ ~flags.unmanagedOnly
    /\ flags.fqdnToShort => \A k \in DOMAIN csv : Short[csv[k].host] = csv[k].host

\* The labels a payload stands for, and those a row makes of the labels L.
Meant(hrefs) == {h.label : h \in hrefs}
Target(L, r) == Kept(L, r) \cup Wanted(L, r)

IsUpdateOf(u, k) ==
  /\ u.host = csv[k].host
  /\ u.id \in Matches(csv[k].host)
  /\ Meant(u.labels) = Target(snap[u.id].labels, csv[k])

IsCreateOf(c, k) ==
  /\ flags.umwl
  /\ c.host = csv[k].host
  /\ Matches(csv[k].host) = {}
  /\ Meant(c.labels) = Target(NoLabels, csv[k])

\* Every planned item stands for a row read so far, a row for at most one item.
PlanFollowsRows ==
  /\ \A i \in DOMAIN updates :
       \E k \in DOMAIN csv : k < row /\ IsUpdateOf(updates[i], k)
  /\ \A i \in DOMAIN creates :
       \E k \in DOMAIN csv : k < row /\ IsCreateOf(creates[i], k)
  /\ \A i, j \in DOMAIN updates : updates[i].id = updates[j].id => i = j
  /\ \A i, j \in DOMAIN creates : creates[i].host = creates[j].host => i = j

\* Every row read so far that changes something has its item.
RowsPlanned ==
  \A k \in DOMAIN csv : k < row =>
    /\ \A id \in Matches(csv[k].host) :
         Changes(snap[id].labels, csv[k]) =>
           \E i \in DOMAIN updates : updates[i].id = id
    /\ flags.umwl /\ Matches(csv[k].host) = {} =>
         \E i \in DOMAIN creates : creates[i].host = csv[k].host

Created(c) ==
  [host |-> c.host, managed |-> FALSE, labels |-> LabelsOf(c.labels)]

Sent(j) == phase = "create" \/ j < pos

\* The PCE is the snapshot with the items sent so far.
PushedSoFar ==
  /\ \A j \in DOMAIN updates : Sent(j) =>
       pceWklds[updates[j].id] = Updated(snap[updates[j].id], updates[j])
  /\ \A i \in DOMAIN snap :
       (\A j \in DOMAIN updates : Sent(j) => updates[j].id # i)
         => pceWklds[i] = snap[i]
  /\ phase = "update" =>
       Len(pceWklds) = Len(snap) /\ pos <= Len(updates) + 1
  /\ phase = "create" =>
       /\ Len(pceWklds) = Len(snap) + pos - 1 /\ pos <= Len(creates) + 1
       /\ \A j \in 1..(pos - 1) : pceWklds[Len(snap) + j] = Created(creates[j])

\* What the stages of a run leave untouched.
Stages ==
  /\ phase = "load" => row = 1 /\ updates = <<>> /\ creates = <<>>
  /\ phase \in {"load", "plan", "decide", "labels"} => pos = 1
  /\ phase \in {"load", "plan", "decide"} => DOMAIN replacement = {}
  /\ phase \in {"decide", "labels", "update", "create"} => row > Len(csv)

\* How the plan and the PCE of an undisturbed run relate to its snapshot.
Undisturbed ==
  /\ phase \in {"plan", "decide", "labels"} => snap = pceWklds
  /\ phase \in {"plan", "decide", "labels", "update", "create"} =>
       PlanFollowsRows /\ RowsPlanned
  /\ phase = "labels" =>
       \A l \in DOMAIN replacement : replacement[l] = RealHref(l)
  /\ phase \in {"update", "create"} => PushedSoFar

RunInv == Stages /\ (OneRowEach /\ clean => Undisturbed)

Listed(i, host) ==
  InMap(pceWklds[i]) /\ HostKey(pceWklds[i]) = host

RowHolds(L, r) ==
  \A d \in DOMAIN r.cells :
    /\ r.cells[d] \in Values => L[d] = r.cells[d]
    /\ r.cells[d] = Remove => L[d] = None

\* The last workload with a row's hostname wears what the row says.
AllInForce ==
  \A k \in DOMAIN csv :
    LET C == {i \in DOMAIN pceWklds : Listed(i, csv[k].host)} IN
    /\ flags.umwl => C # {}
    /\ flags.update => \A i \in C : (\A j \in C : j <= i) =>
                         RowHolds(pceWklds[i].labels, csv[k])

\* After an undisturbed full run the rows stay in force, and a later run, as far
\* as it gets, sees the PCE as it is and plans nothing.
SettledInv ==
  settled /\ OneRowEach /\ HostsFit =>
    /\ phase \in {"load", "plan", "decide", "ended", "dead"}
    /\ phase \in {"plan", "decide"} =>
         snap = pceWklds /\ updates = <<>> /\ creates = <<>>
    /\ AllInForce

IInv ==
  /\ TypeOK
  /\ WornLabelsExist
  /\ PlannedLabelsKnown
  /\ ReplacementsExist
  /\ PushedLabelsExist
  /\ RunInv
  /\ SettledInv

Asks(i, d, v) ==
  \E k \in DOMAIN csv :
    /\ i \in Matches(csv[k].host)
    /\ d \in DOMAIN csv[k].cells
    /\ csv[k].cells[d] = IF v = None THEN Remove ELSE v

\* "Blank values in the CSV will not change existing": in an undisturbed run a
\* label of an existing workload changes only to what some row asks for.
OnlyAsked ==
  \A i \in DOMAIN pceWklds : \A d \in Dims :
    clean /\ clean' /\ pceWklds'[i].labels[d] # pceWklds[i].labels[d]
      => Asks(i, d, pceWklds'[i].labels[d])
OnlyAskedChanges == [][OnlyAsked]_vars

\* "create unmanaged workloads if the host does not exist": an undisturbed run
\* creates none for a hostname the PCE has.
NewHost ==
  Len(pceWklds') > Len(pceWklds) /\ clean /\ clean' =>
    \A i \in DOMAIN pceWklds :
      pceWklds[i].host # pceWklds'[Len(pceWklds')].host
NoDuplicateUmwl == [][NewHost]_vars

\* After an undisturbed full run every row is in force: its workload exists
\* when --umwl says so, and wears the labels of the row.
SettledMeansDone ==
  settled /\ phase = "ended" /\ flags.update => AllInForce

\* Running the same import again after an undisturbed full run plans nothing.
RerunIsNoOp == settled /\ clean /\ phase = "decide" => Nothing

\* The command obeys --update-pce and the prompt.
Gate == INSTANCE UpdateGate WITH updatePCE <- flags.updatePCE,
                                 noPrompt <- flags.noPrompt
GateSpec == Gate!Spec

\* A started run ends: by finishing, by a fatal error or by a crash.
RunEnds == Running ~> ~Running
=============================================================================
