------------------------------ MODULE Labelling ------------------------------
(* The commands that label workloads from a source other than a CSV file of   *)
(* workloads: the tags of VMs in vCenter (vmsync) or in a cloud (aws-label,   *)
(* azure-label, gcp-label), the network of a workload (subnet) and a regular  *)
(* expression on its hostname (hostparse).  All but hostparse write a file    *)
(* and pass it to wkld-import, of which WkldImport has the detail.            *)
EXTENDS Session, Sequences

CONSTANTS
  Sources,        \* commands of the instance
  Names,          \* hostnames
  Check,          \* nameCheck: a hostname without its domain, unless --keep-fqdn
  Dims, HostDims, \* label dimensions, and the four that hostparse knows
  Values, None,
  InitialLabels,  \* hostnames of the PCE and their labels
  InitialValues,  \* labels of the PCE, pairs of a dimension and a value
  Machines, NoMachine,
  VmName,         \* name of a VM
  GuestName,      \* hostname by VMware tools, or its Name tag, or None
  Taggings,       \* tags to begin with
  Folders, FolderOf, Children,
  NumVM,          \* VMs in the first request for tags
  Networks,       \* rows of the file of subnet
  Nics,           \* interfaces of a workload
  HostRules,      \* rows of the file of hostparse
  HostFile        \* its hostfile, or {}

Cells == [Dims -> Values \cup {None}]

ASSUME LabellingAssumption ==
  /\ Sources \subseteq {"vmsync", "cloud", "subnet", "hostparse"}
  /\ Check \in [Names -> Names] /\ HostDims \subseteq Dims /\ None \notin Values
  /\ DOMAIN InitialLabels \subseteq Names
  /\ \A w \in DOMAIN InitialLabels : InitialLabels[w] \in Cells
  /\ InitialValues \subseteq Dims \X Values
  /\ NoMachine \notin Machines /\ IsFiniteSet(Machines)
  /\ VmName \in [Machines -> Names] /\ GuestName \in [Machines -> Names \cup {None}]
  /\ Taggings \subseteq [Machines -> [Dims -> SUBSET Values]]
  /\ FolderOf \in [Machines -> Folders] /\ Children \in [Folders -> SUBSET Folders]
  /\ NumVM \in Nat \ {0} /\ HostFile \subseteq Names
  /\ Networks \in Seq([addresses : SUBSET Nat, cells : Cells])
  /\ Nics \in [Names -> Seq([address : Nat, gateway : BOOLEAN])]
  /\ HostRules \in Seq([hosts : SUBSET Names, cells : Cells])
  /\ \A f \in FlagSets : /\ f.umwl \in BOOLEAN /\ f.vmName \in BOOLEAN /\ f.all \in BOOLEAN
                         /\ f.roots \subseteq Folders /\ f.subfolders \in BOOLEAN

VARIABLES
  source,
  labels,           \* hostnames of the PCE and their labels
  values,           \* labels of the PCE
  tags, on,         \* tags of the VMs, and the VMs that are powered on
  pc,
  known,            \* labels of the workloads as they were loaded
  folders, frontier,\* folders found, and those whose subfolders are asked for next
  named,            \* VMs of interest and their names
  tagMap,           \* tags of the mapped categories
  fetched,          \* VMs whose tags have been asked for, and their labels
  rows,             \* what is to be imported
  todo,             \* labels that hostparse creates
  made,             \* history: workloads made of a VM
  before            \* history: labels when this command began

outside == <<labels, values, tags, on>>
command == <<pc, known, folders, frontier, named, tagMap, fetched, rows, todo>>
history == <<made, before>>
vars == <<session, source, outside, command, history>>

NoFunction == [x \in {} |-> None]

Init ==
  /\ SessionInit
  /\ source \in Sources
  /\ labels = InitialLabels /\ values = InitialValues
  /\ tags \in Taggings /\ on = Machines
  /\ pc = "begin" /\ known = NoFunction /\ folders = {} /\ frontier = {} /\ named = NoFunction
  /\ tagMap = {} /\ fetched = NoFunction /\ rows = {} /\ todo = {}
  /\ made = [m \in Machines |-> 0] /\ before = InitialLabels

TypeOK ==
  /\ SessionTypeOK /\ source \in Sources
  /\ DOMAIN labels \subseteq Names /\ \A w \in DOMAIN labels : labels[w] \in Cells
  /\ values \subseteq Dims \X Values /\ on \subseteq Machines
  /\ pc \in {"begin", "find", "walk", "list", "identify", "tags", "ask", "decide", "create", "write", "ended", "dead"}
  /\ folders \subseteq Folders /\ frontier \subseteq Folders
  /\ DOMAIN named \subseteq Machines /\ DOMAIN fetched \subseteq DOMAIN named
  /\ tagMap \subseteq Dims \X Values /\ todo \subseteq Dims \X Values
  /\ \A r \in rows : r.from \in Machines \cup {NoMachine} /\ r.name \in Names /\ r.cells \in Cells

At(step) == pc = step /\ UNCHANGED <<source, tags, on>>
Reads == UNCHANGED <<labels, values, history>>
Goes(next) == pc' = next

-----------------------------------------------------------------------------
(* vmsync: which VMs, their names, their tags. *)

\* Where the command goes with the PCE loaded, and with its folders looked up.
ToSearch == IF flags.roots = {} THEN "list" ELSE "find"
ToWalk == IF flags.subfolders THEN "walk" ELSE "list"

\* The workloads are loaded and kept for the import.
Load ==
  /\ At("begin") /\ source = "vmsync"
  /\ known' = labels /\ Goes(ToSearch)
  /\ Silent /\ Reads
  /\ UNCHANGED <<named, folders, frontier, tagMap, fetched, rows, todo>>

LoadFails ==
  /\ At("begin") /\ source = "vmsync"
  /\ Goes(LogError("dead", ToSearch)) /\ Fault /\ Reads
  /\ UNCHANGED <<known, folders, frontier, named, tagMap, fetched, rows, todo>>

FindFolders ==
  /\ At("find")
  /\ folders' = flags.roots /\ frontier' = flags.roots /\ Goes(ToWalk)
  /\ Silent /\ Reads
  /\ UNCHANGED <<known, named, tagMap, fetched, rows, todo>>

\* The service is unavailable or its answer cannot be read: no folder is found,
\* which with --continue-on-error is no reason to stop.
NoFolders ==
  /\ At("find")
  /\ Goes(LogError("dead", ToWalk)) /\ Fault /\ Reads
  /\ UNCHANGED <<known, folders, frontier, named, tagMap, fetched, rows, todo>>

\* The subfolders of no folder are all folders: the request has no filter then.
Subfolders == IF frontier = {} THEN Folders ELSE UNION {Children[f] : f \in frontier}

\* Slip: the folders of the last call replace those of the calls before.
Gathered_Last(found) == found

Gathered(found) == folders \cup found

\* The subfolders of the subfolders, until there are none.  A call that finds
\* the service unavailable has no folders and no error.
WalkFolders ==
  /\ At("walk")
  /\ \/ frontier' = Subfolders /\ Silent
     \/ frontier' = {} /\ Fault
  /\ folders' = Gathered(frontier')
  /\ Goes(IF frontier' = {} THEN "list" ELSE "walk")
  /\ Reads /\ UNCHANGED <<known, named, tagMap, fetched, rows, todo>>

\* Without a folder, or if none is found, the VMs are not limited.
InFolders(m) == folders = {} \/ FolderOf[m] \in folders

ListVMs ==
  /\ At("list")
  /\ LET listed == {m \in on : InFolders(m)} IN
       /\ named' = [m \in listed |-> VmName[m]]
       /\ Goes(IF listed = {} THEN "ended" ELSE "identify")
  /\ Silent /\ Reads
  /\ UNCHANGED <<known, folders, frontier, tagMap, fetched, rows, todo>>

ListFails ==
  /\ At("list")
  /\ pc' \in {"ended", LogError("dead", "ended")} /\ Fault /\ Reads
  /\ UNCHANGED <<known, folders, frontier, named, tagMap, fetched, rows, todo>>

\* Slip: the domain is taken off the workload's name only.
Matches_Half(n, w) == Check[w] = n

Matches(n, w) == Check[w] = Check[n]

\* VMs that are labelled are those the PCE has, by any workload that matches;
\* VMs that are imported are those it has not and that report an address.
Interesting(m, n, tools) ==
  LET matching == {w \in DOMAIN known : Matches(n, w)} IN
  IF flags.umwl THEN (IF matching = {} /\ tools THEN {n} ELSE {}) ELSE matching

\* Without VMware tools, or when they do not answer, the name of the VM counts.
Identify ==
  /\ At("identify")
  /\ \E silent \in SUBSET {m \in DOMAIN named : GuestName[m] # None} :
       LET tools(m) == GuestName[m] # None /\ m \notin silent
           name(m) == IF tools(m) /\ ~flags.vmName THEN GuestName[m] ELSE VmName[m]
           names == [m \in DOMAIN named |-> Interesting(m, name(m), tools(m))]
           kept == {m \in DOMAIN named : names[m] # {}} IN
         /\ IF silent = {} THEN Silent ELSE Fault
         /\ \E f \in [kept -> Names] :
              (\A m \in kept : f[m] \in names[m]) /\ named' = f
  /\ Goes("tags") /\ Reads
  /\ UNCHANGED <<known, folders, frontier, tagMap, fetched, rows, todo>>

\* All tags of the categories in the file; no tags when the service is unavailable.
GetTagMap ==
  /\ At("tags")
  /\ \/ /\ tagMap' = {dv \in Dims \X Values : \E m \in Machines : dv[2] \in tags[m][dv[1]]}
        /\ Silent
     \/ tagMap' = {} /\ Fault
  /\ Goes("ask") /\ Reads
  /\ UNCHANGED <<known, folders, frontier, named, fetched, rows, todo>>

\* The list of VMs in a request is never emptied, so that from the first NumVM
\* VMs on there is a request for every further one.
Requested ==
  LET all == Cardinality(DOMAIN named)
      size == IF DOMAIN fetched # {} THEN Cardinality(DOMAIN fetched) + 1
              ELSE IF NumVM < all THEN NumVM ELSE all IN
  {S \in SUBSET DOMAIN named : DOMAIN fetched \subseteq S /\ Cardinality(S) = size}

\* Slip: the VMs after the last full request are not asked for.
AllAsked_Full == named = NoFunction \/ Cardinality(DOMAIN fetched) >= NumVM

AllAsked == DOMAIN fetched = DOMAIN named

\* Of two tags of one category the first counts.
LabelsOf(m) ==
  {c \in Cells : \A d \in Dims :
     LET known_tags == {v \in tags[m][d] : <<d, v>> \in tagMap} IN
     IF known_tags = {} THEN c[d] = None ELSE c[d] \in known_tags}

AskTags ==
  /\ At("ask") /\ ~AllAsked
  /\ \E S \in Requested :
       fetched' \in {f \in [S -> Cells] : \A m \in S : f[m] \in LabelsOf(m)}
  /\ Silent /\ Reads
  /\ UNCHANGED <<pc, known, folders, frontier, named, tagMap, rows, todo>>

AskFails ==
  /\ At("ask") /\ ~AllAsked
  /\ \E S \in Requested :
       fetched' = [m \in S |-> IF m \in DOMAIN fetched THEN fetched[m] ELSE [d \in Dims |-> None]]
  /\ Goes(LogError("dead", pc)) /\ Fault /\ Reads
  /\ UNCHANGED <<known, folders, frontier, named, tagMap, rows, todo>>

\* The file.  A tag that a VM has not is a blank cell, which changes nothing.
BuildRows ==
  /\ At("ask") /\ AllAsked
  /\ rows' = {[from |-> m, name |-> named[m],
               cells |-> IF m \in DOMAIN fetched THEN fetched[m] ELSE [d \in Dims |-> None]]
              : m \in DOMAIN named}
  /\ Goes(IF rows' = {} THEN "ended" ELSE "decide") /\ Silent /\ Reads
  /\ UNCHANGED <<known, folders, frontier, named, tagMap, fetched, todo>>

-----------------------------------------------------------------------------
(* aws-label, azure-label, gcp-label; subnet. *)

CloudName(m) == IF GuestName[m] # None THEN GuestName[m] ELSE VmName[m]

\* One call of the command line of the cloud lists the VMs with their tags.
Describe ==
  /\ At("begin") /\ source = "cloud"
  /\ rows' \in {{[from |-> m, name |-> CloudName(m), cells |-> f[m]] : m \in on}
                : f \in {f \in [on -> Cells] : \A m \in on : \A d \in Dims :
                           IF tags[m][d] = {} THEN f[m][d] = None ELSE f[m][d] \in tags[m][d]}}
  /\ Goes(IF rows' = {} THEN "ended" ELSE "decide") /\ Silent /\ Reads
  /\ UNCHANGED <<known, folders, frontier, named, tagMap, fetched, todo>>

\* gcp-label takes output that cannot be read for no VMs.
DescribeFails ==
  /\ At("begin") /\ source = "cloud"
  /\ pc' \in {"ended", LogError("dead", "ended")} /\ Fault /\ Reads
  /\ UNCHANGED <<known, folders, frontier, named, tagMap, fetched, rows, todo>>

\* With several interfaces those without a default gateway are passed over.
Usable(w) == {i \in DOMAIN Nics[w] : Len(Nics[w]) = 1 \/ Nics[w][i].gateway}

First(S) == CHOOSE i \in S : \A j \in S : i <= j

\* The first interface with a network, and of its networks the first.
NetworksOf(nic) == {j \in DOMAIN Networks : nic.address \in Networks[j].addresses}
NetworkRows(w) ==
  LET hits == {i \in Usable(w) : NetworksOf(Nics[w][i]) # {}} IN
  IF hits = {} THEN {}
  ELSE {[from |-> NoMachine, name |-> w,
         cells |-> Networks[First(NetworksOf(Nics[w][First(hits)]))].cells]}

FindNetworks ==
  /\ At("begin") /\ source = "subnet"
  /\ known' = labels
  /\ rows' = UNION {NetworkRows(w) : w \in DOMAIN labels}
  /\ Goes(IF rows' = {} THEN "ended" ELSE "decide") /\ Silent /\ Reads
  /\ UNCHANGED <<folders, frontier, named, tagMap, fetched, todo>>

FindFails ==
  /\ At("begin") /\ source = "subnet"
  /\ Goes(LogError("dead", "ended")) /\ Fault /\ Reads
  /\ UNCHANGED <<known, folders, frontier, named, tagMap, fetched, rows, todo>>

-----------------------------------------------------------------------------
(* wkld-import of the file. *)

Decision ==
  /\ At("decide") /\ source # "hostparse"
  /\ \/ (NotAsked \/ Denied) /\ Goes("ended")
     \/ Approved /\ Goes("write")
  /\ Reads /\ UNCHANGED <<known, folders, frontier, named, tagMap, fetched, rows, todo>>

\* The workloads are those that were loaded; if there are none they are loaded now.
Loaded == IF known = NoFunction THEN labels ELSE known

Filled(old, cells) == [d \in Dims |-> IF cells[d] = None THEN old[d] ELSE cells[d]]

\* The import of some rows.  Of two rows for one workload either may be last.
Import(some) ==
  LET old == {r \in some : r.name \in DOMAIN Loaded}
      fresh == IF flags.umwl THEN some \ old ELSE {}
      hosts == {r.name : r \in old} \cup ({r.name : r \in fresh} \ DOMAIN labels) IN
  /\ \E last \in [hosts -> some] :
       /\ \A w \in hosts : last[w].name = w
       /\ labels' = [w \in DOMAIN labels \cup hosts |->
            IF w \notin hosts THEN labels[w]
            ELSE IF w \in DOMAIN Loaded THEN Filled(Loaded[w], last[w].cells)
            ELSE last[w].cells]
       /\ values' = values \cup {dv \in Dims \X Values :
                                   \E w \in hosts : labels'[w][dv[1]] = dv[2]}
  /\ made' = [m \in Machines |->
       made[m] + Cardinality({r \in fresh : r.from = m})]

Write ==
  /\ At("write") /\ source # "hostparse"
  /\ Import(rows) /\ Works /\ Goes("ended")
  /\ UNCHANGED <<before, known, folders, frontier, named, tagMap, fetched, rows, todo>>

\* Part of it is done.
WriteFails ==
  /\ At("write") /\ source # "hostparse"
  /\ \E some \in SUBSET rows : Import(some)
  /\ LostAnswer /\ Goes(LogError("dead", "ended"))
  /\ UNCHANGED <<before, known, folders, frontier, named, tagMap, fetched, rows, todo>>

-----------------------------------------------------------------------------
(* hostparse. *)

\* Without --all and label flags only workloads without labels are parsed.
Parsed(w) ==
  /\ HostFile # {} => w \in HostFile
  /\ flags.all \/ \A d \in HostDims : labels[w][d] = None

\* The labels of the four dimensions, replaced or kept.  A label of another
\* dimension is not among them.
Replaced(w, cells) ==
  [d \in Dims |-> IF d \notin HostDims THEN None
                  ELSE IF cells[d] = None THEN labels[w][d] ELSE cells[d]]

SameFour(a, b) == \A d \in HostDims : a[d] = b[d]

\* The first expression that matches counts.
RelabelFromHostname(w) ==
  LET hits == {i \in DOMAIN HostRules : w \in HostRules[i].hosts} IN
  IF hits = {} \/ ~Parsed(w) THEN {}
  ELSE LET cells == Replaced(w, HostRules[First(hits)].cells) IN
       IF SameFour(cells, labels[w]) THEN {}
       ELSE {[from |-> NoMachine, name |-> w, cells |-> cells]}

CellsOf(some) == {dv \in Dims \X Values : \E r \in some : r.cells[dv[1]] = dv[2]}

\* A host of the hostfile that the PCE has not has no labels to look at, which
\* is a nil dereference.
Parse ==
  /\ At("begin") /\ source = "hostparse"
  /\ known' = labels
  /\ rows' = UNION {RelabelFromHostname(w) : w \in DOMAIN labels}
  /\ todo' = CellsOf(rows') \ values
  /\ Goes(IF ~(HostFile \subseteq DOMAIN labels) THEN "dead"
          ELSE IF rows' = {} THEN "ended" ELSE "decide")
  /\ Silent /\ Reads
  /\ UNCHANGED <<folders, frontier, named, tagMap, fetched>>

\* Without labels or workloads of the PCE only the output file is written.
ParseFails ==
  /\ At("begin") /\ source = "hostparse"
  /\ Goes("ended") /\ Fault /\ Reads
  /\ UNCHANGED <<known, folders, frontier, named, tagMap, fetched, rows, todo>>

\* --no-prompt is enough, --update-pce is not looked at then.
HostDecision ==
  /\ At("decide") /\ source = "hostparse"
  /\ \/ flags.noPrompt /\ Silent /\ Goes("create")
     \/ ~flags.noPrompt /\ Approved /\ Goes("create")
     \/ ~flags.noPrompt /\ (NotAsked \/ Denied) /\ Goes("ended")
  /\ Reads /\ UNCHANGED <<known, folders, frontier, named, tagMap, fetched, rows, todo>>

CreateLabel ==
  /\ At("create")
  /\ \E dv \in todo : values' = values \cup {dv} /\ todo' = todo \ {dv}
  /\ Works
  /\ UNCHANGED <<labels, history, pc, known, folders, frontier, named, tagMap, fetched, rows>>

CreateFails ==
  /\ At("create")
  /\ \E dv \in todo : todo' = todo \ {dv}
  /\ Goes(LogError("dead", pc)) /\ Fault /\ Reads
  /\ UNCHANGED <<known, folders, frontier, named, tagMap, fetched, rows>>

\* A workload with a label that could not be created is refused.  An error of
\* the bulk update is only noted.
BulkUpdate ==
  /\ At("create") /\ todo = {}
  /\ LET done == {r \in rows : CellsOf({r}) \subseteq values} IN
       labels' = [w \in DOMAIN labels |->
         IF \E r \in done : r.name = w THEN (CHOOSE r \in done : r.name = w).cells
         ELSE labels[w]]
  /\ (Works \/ LostAnswer) /\ Goes("ended")
  /\ UNCHANGED <<values, history, known, folders, frontier, named, tagMap, fetched, rows, todo>>

BulkFails ==
  /\ At("create") /\ todo = {}
  /\ Goes("ended") /\ Fault /\ Reads
  /\ UNCHANGED <<known, folders, frontier, named, tagMap, fetched, rows, todo>>

-----------------------------------------------------------------------------
(* The session and others. *)

Crash ==
  /\ pc \notin {"ended", "dead"} /\ Fault
  /\ Goes("dead") /\ Reads
  /\ UNCHANGED <<source, tags, on, known, folders, frontier, named, tagMap, fetched, rows, todo>>

NewCommand ==
  /\ pc \in {"ended", "dead"} /\ NextCommand
  /\ pc' = "begin" /\ known' = NoFunction /\ folders' = {} /\ frontier' = {}
  /\ named' = NoFunction /\ tagMap' = {} /\ fetched' = NoFunction /\ rows' = {} /\ todo' = {}
  /\ before' = labels
  /\ UNCHANGED <<source, outside, made>>

\* A VM is tagged anew, or switched on or off.
Retag ==
  /\ source \in {"vmsync", "cloud"} /\ Fault
  /\ \E m \in Machines, d \in Dims, S \in {{}} \cup {{v} : v \in Values} :
       tags' = [tags EXCEPT ![m][d] = S]
  /\ UNCHANGED <<source, labels, values, on, command, history>>

Switch ==
  /\ source \in {"vmsync", "cloud"} /\ Fault
  /\ \E m \in Machines : on' = IF m \in on THEN on \ {m} ELSE on \cup {m}
  /\ UNCHANGED <<source, labels, values, tags, command, history>>

Next ==
  \/ Load \/ LoadFails \/ FindFolders \/ NoFolders \/ WalkFolders \/ ListVMs \/ ListFails \/ Identify
  \/ GetTagMap \/ AskTags \/ AskFails \/ BuildRows
  \/ Describe \/ DescribeFails \/ FindNetworks \/ FindFails
  \/ Decision \/ Write \/ WriteFails
  \/ Parse \/ ParseFails \/ HostDecision \/ CreateLabel \/ CreateFails \/ BulkUpdate \/ BulkFails
  \/ Crash \/ NewCommand \/ Retag \/ Switch

Spec == Init /\ [][Next]_vars

-----------------------------------------------------------------------------
(* Properties *)

SameHost(n, w) == Check[n] = Check[w]

\* The folders of the command and those below them: what every set has that
\* has the former and with a folder its subfolders.
WithSubfolders(S) == flags.roots \subseteq S /\ \A f \in S : Children[f] \subseteq S
Below == {f \in Folders : \A S \in SUBSET Folders : WithSubfolders(S) => f \in S}
InRange(m) ==
  \/ source # "vmsync" \/ flags.roots = {}
  \/ FolderOf[m] \in IF flags.subfolders THEN Below ELSE flags.roots

\* The workloads a VM stands for.
IsFor(m, w) ==
  IF source = "cloud" THEN w = CloudName(m)
  ELSE SameHost(IF flags.vmName THEN VmName[m] ELSE CloudName(m), w)

Sole(m, w) ==
  /\ \A o \in on : (InRange(o) /\ IsFor(o, w)) <=> o = m
  /\ \A o \in DOMAIN before : IsFor(m, o) <=> o = w

Chosen(w, d) ==
  CASE source = "subnet" -> {r.cells[d] : r \in NetworkRows(w)} \ {None}
    [] source = "hostparse" ->
         {HostRules[i].cells[d] : i \in {i \in DOMAIN HostRules :
            /\ w \in HostRules[i].hosts /\ (HostFile # {} => w \in HostFile)
            /\ \A j \in 1..(i - 1) : w \notin HostRules[j].hosts
            /\ flags.all \/ \A e \in HostDims : before[w][e] = None}} \ {None}
    [] OTHER -> UNION {tags[m][d] : m \in {m \in on : Sole(m, w)}}

Settled(w, d) ==
  labels[w][d] \in IF Chosen(w, d) = {} THEN {before[w][d]} ELSE Chosen(w, d)

\* When nothing failed and the operator agreed, every workload has the label its
\* tag, network or hostname asks for, and where there is none the one it had.
\* Left out are workloads that several VMs stand for, --umwl of vmsync, which
\* leaves workloads of the PCE alone, and the dimensions hostparse does not know
\* (vcenter.go, getTagsfromVMs and buildWkldImport; subnet.go, subnetParser;
\* hostparse.go, hostnameParser).
Labelled ==
  (pc = "ended" /\ alone /\ Consent) =>
    \A w \in DOMAIN before, d \in Dims :
      \/ source = "hostparse" /\ d \notin HostDims
      \/ source = "vmsync" /\ flags.umwl
      \/ source \in {"vmsync", "cloud"} /\ \A m \in on : ~Sole(m, w)
      \/ Settled(w, d)

\* Without --continue-on-error, and whatever fails, a workload that no VM of the
\* chosen folders is named like keeps its labels: folders that cannot be walked
\* are left out and do not widen the choice (vcenter.go, getVCenterVMs and
\* compileVMData).
OnlyTheirs ==
  (source = "vmsync" /\ ~flags.continueOnError) =>
    \A w \in DOMAIN before :
      (\A m \in Machines : InRange(m) =>
         ~SameHost(VmName[m], w) /\ (GuestName[m] # None => ~SameHost(GuestName[m], w)))
      => labels[w] = before[w]

\* Without --continue-on-error the reruns of vmsync --umwl, also after a lost
\* answer, make at most one workload of a VM, and none of a VM that has a
\* workload with another domain (vcenter.go, compileVMData).
OneUmwl ==
  (source = "vmsync" /\ ~flags.continueOnError) =>
    \A m \in Machines :
      /\ made[m] <= 1
      /\ made[m] = 1 => \A w \in DOMAIN InitialLabels :
                          ~SameHost(IF flags.vmName THEN VmName[m] ELSE GuestName[m], w)
=============================================================================
