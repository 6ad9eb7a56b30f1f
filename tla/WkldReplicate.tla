--------------------------- MODULE WkldReplicate ----------------------------
(* The wkld-replicate command (src/cmd/wkldreplicate): workloads of several   *)
(* PCEs are replicated to the other PCEs as unmanaged workloads.  The command *)
(* keeps no state of its own: who owns a workload is written in the external  *)
(* data reference of the replicas, "<fqdn>-managed-wkld-<href>" or            *)
(* "<fqdn>-unmanaged-wkld-<href>", here a pair <<pce, kind>>.  All PCEs are   *)
(* read first; then each PCE is given the whole CSV (wkld-import) and loses   *)
(* the replicas whose source was not seen.                                    *)
EXTENDS Naturals, FiniteSets

CONSTANTS
  PCEs, Hosts,
  Data,         \* the labels and interfaces of a workload
  None,         \* no external data reference
  SkipChoices,  \* --skip-source: sets of PCEs, chosen for each run
  Consents,     \* pairs of --update-pce and --no-prompt
  Moves,        \* a hostname may move between PCEs while it has replicas
  Settling,     \* undisturbed runs in a row after which all is replicated
  MaxFaults,    \* bound: crashes, failed imports and changes by others
  MaxRuns       \* bound: invocations of the command

Refs == PCEs \X {"managed", "unmanaged"}
Ids == 1..(2 * Cardinality(Hosts) * Cardinality(PCEs))
Wkld == [id : Ids, host : Hosts, managed : BOOLEAN, ref : Refs \cup {None},
         data : Data]

ASSUME InputAssumption ==
  /\ IsFiniteSet(PCEs) /\ IsFiniteSet(Hosts)
  /\ None \notin Refs \cup PCEs
  /\ SkipChoices \subseteq SUBSET PCEs /\ SkipChoices # {}
  /\ Consents \subseteq BOOLEAN \X BOOLEAN
  /\ Moves \in BOOLEAN
  /\ Settling \in Nat /\ MaxFaults \in Nat /\ MaxRuns \in Nat \ {0}

VARIABLES
  wk,                \* the workloads of each PCE
  consent, skip,     \* the flags
  phase,
  view,              \* workloads read from each PCE: managedWkldMap, unmanagedWkldMap
  unread,            \* PCEs still to be read
  undone, cur, todo, \* PCEs to do, the one being done, its hosts to import
  answer, wrote, faults, runs,
  clean, full        \* this run is undisturbed; undisturbed full runs in a row

vars == <<wk, consent, skip, phase, view, unread, undone, cur, todo, answer,
          wrote, faults, runs, clean, full>>

Nothing == [p \in PCEs |-> {}]

Init ==
  /\ wk = Nothing
  /\ consent \in Consents /\ skip \in SkipChoices
  /\ phase = "read"
  /\ view = Nothing /\ unread = PCEs
  /\ undone = PCEs /\ cur = None /\ todo = {}
  /\ answer = "unasked" /\ wrote = FALSE
  /\ faults = 0 /\ runs = 1 /\ clean = TRUE /\ full = 0

-----------------------------------------------------------------------------
(* Reading.  The maps are keyed by FQDN and hostname, so of several unmanaged *)
(* workloads with one hostname a PCE contributes one.                         *)

OnePerHost(U) ==
  {S \in SUBSET U : \A h \in Hosts :
     Cardinality({w \in S : w.host = h}) =
       IF \E w \in U : w.host = h THEN 1 ELSE 0}

\* Slip: managed workloads are not put into the map.
Visible_Unmanaged(p, W) == {}

\* Managed workloads of a skipped PCE are left out of managedWkldMap.
Visible(p, W) == IF p \in skip THEN {} ELSE {w \in W : w.managed}

LastRead(p) == unread = {p}

Read(p) ==
  /\ phase = "read"
  /\ p \in unread
  /\ \E S \in OnePerHost({w \in wk[p] : ~w.managed}) :
       view' = [view EXCEPT ![p] = Visible(p, wk[p]) \cup S]
  /\ unread' = unread \ {p}
  /\ phase' = IF LastRead(p) THEN "decide" ELSE "read"
  /\ UNCHANGED <<wk, consent, skip, undone, cur, todo, answer, wrote, faults,
                 runs, clean, full>>

Seen(p, h, managed) == \E w \in view[p] : w.host = h /\ w.managed = managed

-----------------------------------------------------------------------------
(* The CSV and the lists of hrefs to delete. *)

\* Slip: workloads someone else already tagged are exported again.
Exported_Replicas(p, w) == p \notin skip \/ w.ref = <<p, "unmanaged">>

\* A workload is a source: managed, not yet in the data set, or owned by its
\* own PCE.  The last kind is exported even from a skipped PCE.
Exported(p, w) ==
  \/ w.managed
  \/ w.ref = None /\ p \notin skip
  \/ ~w.managed /\ w.ref = <<p, "unmanaged">>

Kind(w) == IF w.managed THEN "managed" ELSE "unmanaged"

Rows(h) ==
  UNION {{[ref |-> <<p, Kind(w)>>, data |-> w.data] :
            w \in {v \in view[p] : v.host = h /\ Exported(p, v)}} : p \in PCEs}

\* Slip: the owner is looked for among the unmanaged workloads only.
SourceSeen_Unmanaged(ref, h) == Seen(ref[1], h, FALSE)

\* The owner named by a reference was read, under the replica's hostname.
SourceSeen(ref, h) == Seen(ref[1], h, ref[2] = "managed")

Deletes(p) ==
  {w.id : w \in {v \in view[p] :
     /\ ~v.managed
     /\ v.ref \notin {None, <<p, "unmanaged">>}
     /\ ~SourceSeen(v.ref, v.host)}}

-----------------------------------------------------------------------------
(* Deciding and applying. *)

Decision(next) ==
  /\ phase = "decide"
  /\ phase' = next
  /\ UNCHANGED <<wk, consent, skip, view, unread, undone, cur, todo, wrote,
                 faults, runs, clean, full>>

DryRun == Decision("ended") /\ ~consent[1] /\ UNCHANGED answer

PromptDenied ==
  Decision("ended") /\ consent = <<TRUE, FALSE>> /\ answer' = "no"

Approve ==
  /\ Decision("apply")
  /\ consent[1]
  /\ answer' = IF consent[2] THEN answer ELSE "yes"

StartPCE(p) ==
  /\ phase = "apply" /\ cur = None
  /\ p \in undone
  /\ cur' = p
  /\ undone' = undone \ {p}
  /\ todo' = {h \in Hosts : Rows(h) # {}}
  /\ UNCHANGED <<wk, consent, skip, phase, view, unread, answer, wrote, faults,
                 runs, clean, full>>

FreshId(p) ==
  CHOOSE i \in Ids : i \notin Deletes(p) /\ \A w \in wk[p] : w.id # i

\* wkld-import on one hostname: a workload with the hostname takes over the row
\* (the hostname map holds one of them), otherwise one is created.
ImportHost(h) ==
  /\ phase = "apply" /\ cur # None
  /\ h \in todo
  /\ LET same == {w \in wk[cur] : w.host = h} IN
     \E r \in Rows(h) :
       IF same # {}
       THEN \E w \in same :
              wk' = [wk EXCEPT ![cur] =
                       (@ \ {w}) \cup {[w EXCEPT !.ref = r.ref, !.data = r.data]}]
       ELSE wk' = [wk EXCEPT ![cur] =
                     @ \cup {[id |-> FreshId(cur), host |-> h, managed |-> FALSE,
                              ref |-> r.ref, data |-> r.data]}]
  /\ todo' = todo \ {h}
  /\ wrote' = TRUE
  /\ UNCHANGED <<consent, skip, phase, view, unread, undone, cur, answer, faults,
                 runs, clean, full>>

\* After the import the hrefs of the list are deleted one by one.
DeleteHref(w) ==
  /\ phase = "apply" /\ cur # None /\ todo = {}
  /\ w \in wk[cur] /\ w.id \in Deletes(cur)
  /\ wk' = [wk EXCEPT ![cur] = @ \ {w}]
  /\ wrote' = TRUE
  /\ UNCHANGED <<consent, skip, phase, view, unread, undone, cur, todo, answer,
                 faults, runs, clean, full>>

FinishPCE ==
  /\ phase = "apply" /\ cur # None /\ todo = {}
  /\ \A w \in wk[cur] : w.id \notin Deletes(cur)
  /\ cur' = None
  /\ UNCHANGED <<wk, consent, skip, phase, view, unread, undone, todo, answer,
                 wrote, faults, runs, clean, full>>

Finish ==
  /\ phase = "apply" /\ cur = None /\ undone = {}
  /\ phase' = "ended"
  /\ full' = IF clean THEN full + 1 ELSE 0
  /\ UNCHANGED <<wk, consent, skip, view, unread, undone, cur, todo, answer,
                 wrote, faults, runs, clean>>

-----------------------------------------------------------------------------
(* Failures, other people's changes, and the next run. *)

\* An API error ends the process (utils.LogError): the run is over as it is.
Crash ==
  /\ phase \in {"read", "apply"}
  /\ faults < MaxFaults
  /\ phase' = "ended"
  /\ faults' = faults + 1 /\ full' = 0 /\ clean' = FALSE
  /\ UNCHANGED <<wk, consent, skip, view, unread, undone, cur, todo, answer,
                 wrote, runs>>

\* A workload that is not a replica of another one.
Source(p, w) == w.managed \/ w.ref \in {None, <<p, "unmanaged">>}

Others(p, W) ==
  /\ faults < MaxFaults
  /\ wk' = [wk EXCEPT ![p] = W]
  /\ faults' = faults + 1 /\ full' = 0 /\ clean' = FALSE
  /\ UNCHANGED <<consent, skip, phase, view, unread, undone, cur, todo, answer,
                 wrote, runs>>

\* A VEN is paired or an unmanaged workload created.  Hostnames are unique
\* among the sources, as the command requires.  With Moves the hostname may
\* still have replicas of a source it had on another PCE, or be in the data of
\* the run under way; without, the replicas are gone first.
AddSource(p, h, managed, d) ==
  /\ \A q \in PCEs : \A w \in wk[q] : w.host = h =>
       Moves /\ ~Source(q, w) /\ (managed \/ q # p)
  /\ Moves \/ phase = "ended"
  /\ Others(p, wk[p] \cup {[id |-> FreshId(p), host |-> h, managed |-> managed,
                            ref |-> None, data |-> d]})

\* A VEN is unpaired or an unmanaged workload deleted.
RemoveSource(p, w) ==
  /\ w \in wk[p] /\ Source(p, w)
  /\ Others(p, wk[p] \ {w})

Relabel(p, w, d) ==
  /\ w \in wk[p] /\ w.data # d
  /\ Others(p, (wk[p] \ {w}) \cup {[w EXCEPT !.data = d]})

Rerun ==
  /\ phase = "ended"
  /\ runs < MaxRuns
  /\ skip' \in SkipChoices
  /\ phase' = "read"
  /\ view' = Nothing /\ unread' = PCEs
  /\ undone' = PCEs /\ cur' = None /\ todo' = {}
  /\ answer' = "unasked" /\ wrote' = FALSE
  /\ runs' = runs + 1 /\ clean' = TRUE
  /\ UNCHANGED <<wk, consent, faults, full>>

RunStep ==
  \/ \E p \in PCEs : Read(p) \/ StartPCE(p)
  \/ DryRun \/ PromptDenied \/ Approve
  \/ \E h \in Hosts : ImportHost(h)
  \/ cur # None /\ \E w \in wk[cur] : DeleteHref(w)
  \/ FinishPCE \/ Finish

Next ==
  \/ RunStep
  \/ Crash
  \/ \E p \in PCEs, h \in Hosts, m \in BOOLEAN, d \in Data : AddSource(p, h, m, d)
  \/ \E p \in PCEs : \E w \in wk[p] :
       RemoveSource(p, w) \/ \E d \in Data : Relabel(p, w, d)
  \/ Rerun

Spec == Init /\ [][Next]_vars

-----------------------------------------------------------------------------
(* Properties. *)

\* Every identifier on a PCE names one workload, and nothing is decided before
\* all PCEs are read.
TypeOK ==
  /\ wk \in [PCEs -> SUBSET Wkld] /\ view \in [PCEs -> SUBSET Wkld]
  /\ \A p \in PCEs : \A v, w \in wk[p] : v.id = w.id => v = w
  /\ consent \in Consents /\ skip \in SkipChoices
  /\ phase \in {"read", "decide", "apply", "ended"}
  /\ phase \in {"decide", "apply"} => unread = {}
  /\ unread \subseteq PCEs /\ undone \subseteq PCEs
  /\ cur \in PCEs \cup {None} /\ todo \subseteq Hosts
  /\ answer \in {"unasked", "yes", "no"} /\ wrote \in BOOLEAN
  /\ faults \in 0..MaxFaults /\ runs \in 1..MaxRuns
  /\ clean \in BOOLEAN /\ full \in 0..MaxRuns

SourceExists(ref, h) ==
  \E w \in wk[ref[1]] : w.host = h /\ Source(ref[1], w) /\ Kind(w) = ref[2]

\* Help of the command: an unmanaged workload is deleted when the workload it
\* was replicated from is unpaired or deleted.  A run nobody disturbs deletes
\* only workloads that it read as replicas and whose source is gone.
DeletedOnlyIfSourceGone ==
  [][clean' /\ phase' # "read" =>
       \A p \in PCEs : \A w \in wk[p] :
         (\A v \in wk'[p] : v.id # w.id) =>
           \E v \in view[p] : /\ v.id = w.id /\ ~v.managed
                              /\ v.ref # None
                              /\ ~SourceExists(v.ref, v.host)]_vars

\* Settling undisturbed runs in a row replicate every source, with its data, to
\* every PCE, whatever crashed runs and changes under way left behind.
Replicated ==
  full >= Settling =>
    \A p \in PCEs : \A w \in wk[p] : Source(p, w) =>
      \A q \in PCEs \ {p} :
        \E v \in wk[q] : v.host = w.host /\ v.data = w.data

\* ... and leave no replica without the workload it was replicated from.
NoOrphans ==
  full >= Settling =>
    \A p \in PCEs : \A w \in wk[p] :
      Source(p, w) \/ SourceExists(w.ref, w.host)

\* The command implements the consent gate.
Gate == INSTANCE UpdateGate WITH updatePCE <- consent[1], noPrompt <- consent[2]
GateSpec == Gate!Spec
=============================================================================
