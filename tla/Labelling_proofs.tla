-------------------------- MODULE Labelling_proofs --------------------------
(* For every set of VMs, workloads, tags, folders, networks and expressions,  *)
(* whatever fails and however VMs are tagged and switched meanwhile: the      *)
(* state keeps its types, a workload that no VM of the chosen folders is      *)
(* named like keeps its labels without --continue-on-error, reruns make no second workload of a VM, and   *)
(* undisturbed commands leave the labels that their source asks for.          *)
EXTENDS Labelling, FiniteSetTheorems, TLAPS

-----------------------------------------------------------------------------
(* Types, and what belongs to each place of a command. *)

LabelMap(f) == DOMAIN f \subseteq Names /\ \A w \in DOMAIN f : f[w] \in Cells

Places == {"begin", "find", "walk", "list", "identify", "tags", "ask", "decide", "create", "write", "ended", "dead"}
Over == pc \in {"ended", "dead"}

\* Only a finished command has changed labels, and the workloads it has kept
\* are those of the PCE.
Place ==
  /\ pc \in {"find", "walk", "list", "identify", "tags", "ask"} => source = "vmsync"
  /\ pc = "create" => source = "hostparse"
  /\ pc = "write" => source # "hostparse"
  /\ pc = "begin" => known = NoFunction /\ folders = {} /\ frontier = {}
  /\ pc \in {"begin", "find", "walk", "list", "identify", "tags"} => fetched = NoFunction /\ rows = {}
  /\ ~Over => labels = before /\ known \in {NoFunction, labels}
  /\ DOMAIN InitialLabels \subseteq DOMAIN before
  /\ DOMAIN before \subseteq DOMAIN labels

Types ==
  /\ TypeOK
  /\ tags \in [Machines -> [Dims -> SUBSET Values]]
  /\ LabelMap(labels) /\ LabelMap(before)
  /\ \A m \in DOMAIN named : named[m] \in Names
  /\ \A m \in DOMAIN fetched : fetched[m] \in Cells

Inv == Types /\ Place

LEMMA FlagTypes ==
  ASSUME flags \in FlagSets
  PROVE  /\ flags.updatePCE \in BOOLEAN /\ flags.noPrompt \in BOOLEAN
         /\ flags.continueOnError \in BOOLEAN
         /\ flags.umwl \in BOOLEAN /\ flags.vmName \in BOOLEAN /\ flags.all \in BOOLEAN
         /\ flags.roots \subseteq Folders /\ flags.subfolders \in BOOLEAN
BY SessionAssumption, LabellingAssumption

\* The steps of the session that are no new command.
SessionStep == \/ Silent \/ Fault \/ LostAnswer \/ Works \/ NotAsked \/ Denied \/ Approved

LEMMA SessionTypes ==
  ASSUME SessionTypeOK, SessionStep \/ NextCommand
  PROVE  SessionTypeOK'
<1> USE DEF SessionTypeOK
<1>1. flags' \in FlagSets /\ answer' \in {"unasked", "yes", "no"}
  BY DEF SessionStep, Silent, session, Fault, LostAnswer, Works, NotAsked, Denied, Approved, NextCommand
<1>2. wrote' \in BOOLEAN
  <2>1. wrote' = wrote \/ wrote' = TRUE \/ wrote' = FALSE
    BY DEF SessionStep, Silent, session, Fault, LostAnswer, Works, NotAsked, Denied, Approved, NextCommand
  <2> QED
    BY <2>1, Zenon
<1>3. alone' \in BOOLEAN
  <2>1. alone' = alone \/ alone' = TRUE \/ alone' = FALSE
    BY DEF SessionStep, Silent, session, Fault, LostAnswer, Works, NotAsked, Denied, Approved, NextCommand
  <2> QED
    BY <2>1, Zenon
<1>4. faults' \in 0..MaxFaults /\ runs' \in 1..MaxRuns
  BY SessionAssumption
     DEF SessionStep, Silent, session, Fault, LostAnswer, Works, NotAsked, Denied, Approved, NextCommand
<1> QED
  BY <1>1, <1>2, <1>3, <1>4

\* A step of the session keeps the flags; the command is undisturbed after it
\* only if it was before and nothing failed.
LEMMA SessionFacts ==
  ASSUME SessionStep
  PROVE  /\ flags' = flags
         /\ alone' => alone
         /\ Fault \/ LostAnswer => ~alone'
BY DEF SessionStep, Silent, session, Fault, LostAnswer, Works, NotAsked, Denied, Approved

LEMMA CellsAreCells ==
  /\ [d \in Dims |-> None] \in Cells
  /\ \A a \in Cells, b \in Cells : Filled(a, b) \in Cells
  /\ \A c \in Cells, d \in Dims : c[d] \in Values \cup {None}
BY DEF Cells, Filled

LEMMA NoFunctionIs == DOMAIN NoFunction = {} /\ LabelMap(NoFunction)
BY DEF NoFunction, LabelMap

\* In a command that imports, the workloads are those of the PCE.
LEMMA LoadedIs ==
  ASSUME Place, pc = "write"
  PROVE  Loaded = labels
BY DEF Place, Over, Loaded

-----------------------------------------------------------------------------
(* The import. *)

Matching(some) == {r \in some : r.name \in DOMAIN Loaded}
FreshRows(some) == IF flags.umwl THEN some \ Matching(some) ELSE {}
Hosts(some) ==
  {r.name : r \in Matching(some)} \cup ({r.name : r \in FreshRows(some)} \ DOMAIN labels)

\* What an import of some rows does, the last rows of the workloads given.
Effect(some, last) ==
  /\ last \in [Hosts(some) -> some]
  /\ \A w \in Hosts(some) : last[w].name = w
  /\ labels' = [w \in DOMAIN labels \cup Hosts(some) |->
       IF w \notin Hosts(some) THEN labels[w]
       ELSE IF w \in DOMAIN Loaded THEN Filled(Loaded[w], last[w].cells)
       ELSE last[w].cells]

LEMMA ImportEffect ==
  ASSUME NEW some, Import(some)
  PROVE  /\ \E last : Effect(some, last)
         /\ made' = [m \in Machines |->
              made[m] + Cardinality({r \in FreshRows(some) : r.from = m})]
         /\ values' \subseteq values \cup (Dims \X Values)
         /\ values \subseteq values'
BY DEF Import, Effect, Hosts, FreshRows, Matching

LEMMA ImportTypes ==
  ASSUME Inv, pc = "write", NEW some \in SUBSET rows, Import(some)
  PROVE  LabelMap(labels') /\ DOMAIN labels \subseteq DOMAIN labels' /\ values' \subseteq Dims \X Values
<1>1. Loaded = labels
  BY LoadedIs DEF Inv
<1>2. PICK last : Effect(some, last)
  BY ImportEffect
<1>3. \A r \in some : r.name \in Names /\ r.cells \in Cells
  BY DEF Inv, Types, TypeOK
<1>4. Hosts(some) \subseteq {r.name : r \in some}
  BY DEF Hosts, FreshRows, Matching
<1>5. Hosts(some) \subseteq Names
  BY <1>3, <1>4
<1>6. DOMAIN labels' = DOMAIN labels \cup Hosts(some)
  BY <1>2 DEF Effect
<1>7. ASSUME NEW w \in DOMAIN labels'
      PROVE  labels'[w] \in Cells
  <2>1. CASE w \notin Hosts(some)
    BY <1>2, <1>6, <1>7, <2>1 DEF Effect, Inv, Types, LabelMap
  <2>2. CASE w \in Hosts(some)
    <3>1. last[w] \in some
      BY <1>2, <2>2 DEF Effect
    <3>2. last[w].cells \in Cells
      BY <1>3, <3>1
    <3>3. w \in DOMAIN labels => Filled(labels[w], last[w].cells) \in Cells
      BY <3>2, CellsAreCells DEF Inv, Types, LabelMap
    <3> QED
      BY <1>1, <1>2, <1>6, <1>7, <2>2, <3>2, <3>3 DEF Effect
  <2> QED
    BY <2>1, <2>2
<1>8. values' \subseteq Dims \X Values
  BY ImportEffect DEF Inv, Types, TypeOK
<1> QED
  BY <1>5, <1>6, <1>7, <1>8 DEF Inv, Types, LabelMap

-----------------------------------------------------------------------------
(* The least of some numbers. *)

LEMMA FirstIs ==
  ASSUME NEW S \in SUBSET Nat, S # {}, IsFiniteSet(S)
  PROVE  First(S) \in S /\ \A j \in S : First(S) <= j
<1> DEFINE Lower(i) == {j \in S : j < i}
           W == {Lower(i) : i \in S}
<1>1. IsWellFoundedOn(StrictSubsetOrdering(S), FiniteSubsetsOf(S))
  BY FS_StrictSubsetOrderingWellFounded
<1>2. W \subseteq FiniteSubsetsOf(S)
  BY FS_Subset DEF FiniteSubsetsOf
<1>3. W # {}
  OBVIOUS
<1>4. PICK L \in W : \A R \in W : ~ (<<R, L>> \in StrictSubsetOrdering(S))
  <2> HIDE DEF W
  <2> QED
    BY <1>1, <1>2, <1>3, WFMin
<1>5. PICK i \in S : L = Lower(i)
  BY <1>4
<1>6. ASSUME NEW j \in S, j < i PROVE FALSE
  <2>1. Lower(j) \subseteq Lower(i) /\ j \in Lower(i) /\ j \notin Lower(j)
    <3>1. \A k \in S : k \in Nat
      OBVIOUS
    <3>2. \A k \in S : k < j => k < i
      BY <1>6, <3>1
    <3>3. ~(j < j)
      BY <3>1
    <3> HIDE DEF W
    <3> QED
      BY <1>6, <3>2, <3>3
  <2>2. Lower(j) \in W /\ Lower(j) \subseteq S /\ Lower(i) \subseteq S
    OBVIOUS
  <2>3. <<Lower(j), Lower(i)>> \in StrictSubsetOrdering(S)
    <3> HIDE DEF Lower, W
    <3> QED
      BY <2>1, <2>2 DEF StrictSubsetOrdering
  <2> QED
    BY <1>4, <1>5, <2>2, <2>3
<1>7. \A j \in S : i <= j
  BY <1>6
<1> QED
  BY <1>7 DEF First

LEMMA FirstOfSeq ==
  ASSUME NEW T, NEW q \in Seq(T), NEW S \in SUBSET DOMAIN q, S # {}
  PROVE  /\ First(S) \in DOMAIN q /\ First(S) \in S
         /\ \A j \in S : First(S) <= j
         /\ \A j \in 1..(First(S) - 1) : j \notin S
         /\ DOMAIN q = 1..Len(q)
<1>1. DOMAIN q = 1..Len(q) /\ Len(q) \in Nat
  OBVIOUS
<1>2. IsFiniteSet(S) /\ S \subseteq Nat
  <2>1. IsFiniteSet(1..Len(q))
    BY <1>1, FS_Interval
  <2>2. IsFiniteSet(S)
    BY <1>1, <2>1, FS_Subset
  <2> QED
    BY <1>1, <2>2
<1>3. First(S) \in S /\ \A j \in S : First(S) <= j
  BY <1>2, FirstIs
<1>4. \A j \in 1..(First(S) - 1) : j < First(S)
  BY <1>1, <1>3
<1> QED
  BY <1>1, <1>3, <1>4

-----------------------------------------------------------------------------
(* Types and places are kept. *)

LEMMA InvInit == Init => Inv
<1> SUFFICES ASSUME Init PROVE Inv
  OBVIOUS
<1>1. SessionTypeOK
  <2>1. wrote \in BOOLEAN /\ alone \in BOOLEAN
    BY Zenon DEF Init, SessionInit
  <2> QED
    BY <2>1, SessionAssumption DEF Init, SessionInit, SessionTypeOK
<1>2. LabelMap(labels) /\ LabelMap(before)
  BY LabellingAssumption DEF Init, LabelMap
<1>3. TypeOK
  BY <1>1, <1>2, LabellingAssumption, NoFunctionIs DEF Init, TypeOK, LabelMap
<1>4. tags \in [Machines -> [Dims -> SUBSET Values]]
  BY LabellingAssumption DEF Init
<1>5. Types
  BY <1>2, <1>3, <1>4, NoFunctionIs DEF Init, Types
<1>6. Place
  BY DEF Init, Place, Over
<1> QED
  BY <1>5, <1>6 DEF Inv

\* A step that only reads keeps the invariant if what it finds has its types.
LEMMA ReadKeeps ==
  ASSUME Inv, SessionStep, UNCHANGED <<source, tags, on, labels, values, history>>,
         pc' \in Places, folders' \subseteq Folders, frontier' \subseteq Folders,
         DOMAIN named' \subseteq Machines, \A m \in DOMAIN named' : named'[m] \in Names,
         DOMAIN fetched' \subseteq DOMAIN named', \A m \in DOMAIN fetched' : fetched'[m] \in Cells,
         tagMap' \subseteq Dims \X Values, todo' \subseteq Dims \X Values,
         \A r \in rows' : r.from \in Machines \cup {NoMachine} /\ r.name \in Names /\ r.cells \in Cells,
         Place'
  PROVE  Inv'
<1>1. SessionTypeOK'
  BY SessionTypes DEF Inv, Types, TypeOK
<1>2. TypeOK'
  BY <1>1 DEF Inv, Types, TypeOK, Places, history
<1> QED
  BY <1>2 DEF Inv, Types, LabelMap, history

\* The steps in which vmsync finds its VMs.
Collect ==
  Load \/ LoadFails \/ FindFolders \/ NoFolders \/ WalkFolders \/ ListVMs \/ ListFails

LEMMA CollectKeeps ==
  ASSUME Inv, Collect
  PROVE  Inv'
<1> USE DEF Reads, At, Goes
<1>1. SessionStep
  BY DEF SessionStep, Collect, Load, LoadFails, FindFolders, NoFolders, WalkFolders, ListVMs, ListFails
<1>2. UNCHANGED <<source, tags, on, labels, values, history>> /\ source = "vmsync"
  BY DEF Collect, Load, LoadFails, FindFolders, NoFolders, WalkFolders, ListVMs, ListFails, Inv, Place
<1>3. flags.roots \subseteq Folders
  BY FlagTypes DEF Inv, Types, TypeOK, SessionTypeOK
<1>4. pc' \in {"find", "walk", "list", "identify", "ended", "dead"}
  BY DEF ToSearch, ToWalk, Collect, Load, LoadFails, FindFolders, NoFolders, WalkFolders, ListVMs, ListFails, LogError
<1>5. folders' \subseteq Folders /\ frontier' \subseteq Folders
  <2>1. \A f \in frontier : Children[f] \subseteq Folders
    BY LabellingAssumption DEF Inv, Types, TypeOK
  <2> QED
    BY <1>3, <2>1 DEF Subfolders, Gathered, Collect, Load, LoadFails, FindFolders, NoFolders, WalkFolders, ListVMs, ListFails, Inv, Types, TypeOK
<1>6. DOMAIN named' \subseteq Machines /\ \A m \in DOMAIN named' : named'[m] \in Names
  <2>1. CASE ListVMs
    BY <2>1, LabellingAssumption DEF ListVMs, Inv, Types, TypeOK
  <2> QED
    BY <2>1 DEF Collect, Load, LoadFails, FindFolders, NoFolders, WalkFolders, ListFails, Inv, Types, TypeOK
<1>7. UNCHANGED <<fetched, tagMap, rows, todo>>
  BY DEF Collect, Load, LoadFails, FindFolders, NoFolders, WalkFolders, ListVMs, ListFails
<1>8. pc \in {"begin", "find", "walk", "list"} /\ (known' = known \/ (pc = "begin" /\ known' = labels))
  BY DEF Collect, Load, LoadFails, FindFolders, NoFolders, WalkFolders, ListVMs, ListFails
<1>9. Place'
  <2>1. labels = before /\ known \in {NoFunction, labels} /\ fetched = NoFunction /\ rows = {}
    BY <1>8 DEF Inv, Place, Over
  <2>2. labels' = labels /\ before' = before /\ source' = "vmsync" /\ known' \in {NoFunction, labels}
    BY <1>2, <1>8, <2>1 DEF history
  <2> QED
    BY <1>4, <1>7, <2>1, <2>2 DEF Inv, Place, Over
<1>10. DOMAIN fetched' \subseteq DOMAIN named'
  BY <1>7, <1>8, NoFunctionIs DEF Inv, Place
<1> QED
  BY <1>1, <1>2, <1>4, <1>5, <1>6, <1>7, <1>9, <1>10, ReadKeeps DEF Inv, Types, TypeOK, Places

LEMMA IdentifyKeeps ==
  ASSUME Inv, Identify \/ GetTagMap
  PROVE  Inv'
<1> USE DEF Reads, At, Goes
<1>1. SessionStep
  BY DEF SessionStep, Identify, GetTagMap
<1>2. UNCHANGED <<source, tags, on, labels, values, history, known, folders, frontier, fetched, rows, todo>>
  BY DEF Identify, GetTagMap
<1>3. (pc = "identify" /\ pc' = "tags") \/ (pc = "tags" /\ pc' = "ask")
  BY DEF Identify, GetTagMap
<1>4. DOMAIN named' \subseteq Machines /\ \A m \in DOMAIN named' : named'[m] \in Names
  <2>1. CASE Identify
    BY <2>1 DEF Identify, Inv, Types, TypeOK
  <2> QED
    BY <2>1 DEF GetTagMap, Inv, Types, TypeOK
<1>5. tagMap' \subseteq Dims \X Values
  BY DEF Identify, GetTagMap, Inv, Types, TypeOK
<1>6. fetched = NoFunction /\ rows = {}
  BY <1>3 DEF Inv, Place
<1>7. Place'
  BY <1>2, <1>3, <1>6 DEF Inv, Place, Over, history
<1> QED
  BY <1>1, <1>2, <1>3, <1>4, <1>5, <1>6, <1>7, NoFunctionIs, ReadKeeps DEF Inv, Types, TypeOK, Places

LEMMA AskKeeps ==
  ASSUME Inv, AskTags \/ AskFails \/ BuildRows
  PROVE  Inv'
<1> USE DEF Reads, At, Goes
<1>1. SessionStep
  BY DEF SessionStep, AskTags, AskFails, BuildRows
<1>2. UNCHANGED <<source, tags, on, labels, values, history, known, folders, frontier, named, tagMap, todo>>
  BY DEF AskTags, AskFails, BuildRows
<1>3. pc = "ask" /\ pc' \in {"ask", "dead", "decide", "ended"}
  BY DEF AskTags, AskFails, BuildRows, LogError
<1>4. DOMAIN fetched' \subseteq DOMAIN named' /\ \A m \in DOMAIN fetched' : fetched'[m] \in Cells
  <2>1. CASE AskTags
    <3>1. PICK S \in Requested :
            fetched' \in {f \in [S -> Cells] : \A m \in S : f[m] \in LabelsOf(m)}
      BY <2>1 DEF AskTags
    <3>2. S \subseteq DOMAIN named
      BY DEF Requested
    <3> QED
      BY <1>2, <3>1, <3>2
  <2>2. CASE AskFails
    <3>1. PICK S \in Requested :
            fetched' = [m \in S |-> IF m \in DOMAIN fetched THEN fetched[m] ELSE [d \in Dims |-> None]]
      BY <2>2 DEF AskFails
    <3>2. S \subseteq DOMAIN named
      BY DEF Requested
    <3> QED
      BY <1>2, <3>1, <3>2, CellsAreCells DEF Inv, Types
  <2> QED
    BY <1>2, <2>1, <2>2 DEF BuildRows, Inv, Types, TypeOK
<1>5. \A r \in rows' : r.from \in Machines \cup {NoMachine} /\ r.name \in Names /\ r.cells \in Cells
  <2>1. CASE BuildRows
    <3>1. ASSUME NEW r \in rows'
          PROVE  r.from \in Machines /\ r.name \in Names /\ r.cells \in Cells
      <4>1. PICK m \in DOMAIN named :
              r = [from |-> m, name |-> named[m],
                   cells |-> IF m \in DOMAIN fetched THEN fetched[m] ELSE [d \in Dims |-> None]]
        BY <2>1, <3>1 DEF BuildRows
      <4> QED
        BY <4>1, CellsAreCells DEF Inv, Types, TypeOK
    <3> QED
      BY <3>1
  <2>2. CASE rows' = rows
    BY <2>2 DEF Inv, Types, TypeOK
  <2> QED
    BY <2>1, <2>2 DEF AskTags, AskFails
<1>6. Place'
  BY <1>2, <1>3 DEF Inv, Place, Over, history
<1> QED
  BY <1>1, <1>2, <1>3, <1>4, <1>5, <1>6, ReadKeeps DEF Inv, Types, TypeOK, Places

\* The cells of a row of the files.
LEMMA RuleCells ==
  /\ \A i \in DOMAIN Networks : Networks[i].cells \in Cells
  /\ \A i \in DOMAIN HostRules : HostRules[i].cells \in Cells
<1>1. ASSUME NEW T, NEW q \in Seq(T), NEW i \in DOMAIN q
      PROVE  q[i] \in T
  OBVIOUS
<1>2. ASSUME NEW i \in DOMAIN Networks
      PROVE  Networks[i] \in [addresses : SUBSET Nat, cells : Cells]
  BY <1>1, LabellingAssumption
<1>3. ASSUME NEW i \in DOMAIN HostRules
      PROVE  HostRules[i] \in [hosts : SUBSET Names, cells : Cells]
  BY <1>1, LabellingAssumption
<1> QED
  BY <1>2, <1>3

LEMMA CloudNameType ==
  ASSUME NEW m \in Machines
  PROVE  CloudName(m) \in Names
BY LabellingAssumption DEF CloudName

LEMMA NetworkRowsIs ==
  ASSUME NEW w \in Names, NEW r \in NetworkRows(w)
  PROVE  r.from = NoMachine /\ r.name = w /\ r.cells \in Cells /\ NetworkRows(w) = {r}
<1> DEFINE hits == {i \in Usable(w) : NetworksOf(Nics[w][i]) # {}}
           j == First(NetworksOf(Nics[w][First(hits)]))
<1>1. hits # {} /\ NetworkRows(w) = {[from |-> NoMachine, name |-> w, cells |-> Networks[j].cells]}
  BY DEF NetworkRows
<1>2. Nics[w] \in Seq([address : Nat, gateway : BOOLEAN]) /\ hits \subseteq DOMAIN Nics[w]
  BY LabellingAssumption DEF Usable
<1>3. First(hits) \in hits
  <2> HIDE DEF hits
  <2> QED
    BY <1>1, <1>2, FirstOfSeq
<1>4. NetworksOf(Nics[w][First(hits)]) # {}
  BY <1>3
<1>5. NetworksOf(Nics[w][First(hits)]) \subseteq DOMAIN Networks
  BY DEF NetworksOf
<1>6. Networks \in Seq([addresses : SUBSET Nat, cells : Cells])
  BY LabellingAssumption
<1>7. j \in DOMAIN Networks
  <2> HIDE DEF hits
  <2> QED
    BY <1>4, <1>5, <1>6, FirstOfSeq
<1>8. Networks[j].cells \in Cells
  <2> HIDE DEF j
  <2> QED
    BY <1>7, RuleCells
<1>9. PICK c : c = Networks[j].cells
  OBVIOUS
<1>10. r = [from |-> NoMachine, name |-> w, cells |-> c] /\ NetworkRows(w) = {r}
  BY <1>1, <1>9
<1> QED
  BY <1>8, <1>9, <1>10

LEMMA HostRowsIs ==
  ASSUME Inv, NEW w \in DOMAIN labels, NEW r \in RelabelFromHostname(w)
  PROVE  r.from = NoMachine /\ r.name = w /\ r.cells \in Cells /\ RelabelFromHostname(w) = {r}
<1> DEFINE hits == {i \in DOMAIN HostRules : w \in HostRules[i].hosts}
           cells == Replaced(w, HostRules[First(hits)].cells)
<1>1. hits # {} /\ RelabelFromHostname(w) = {[from |-> NoMachine, name |-> w, cells |-> cells]}
  BY DEF RelabelFromHostname
<1>2. HostRules \in Seq([hosts : SUBSET Names, cells : Cells])
  BY LabellingAssumption
<1>3. First(hits) \in DOMAIN HostRules
  <2>1. hits \subseteq DOMAIN HostRules
    OBVIOUS
  <2> HIDE DEF hits
  <2> QED
    BY <1>1, <1>2, <2>1, FirstOfSeq
<1>4. HostRules[First(hits)].cells \in Cells
  <2> HIDE DEF hits
  <2> QED
    BY <1>3, RuleCells
<1>5. labels[w] \in Cells
  BY DEF Inv, Types, LabelMap
<1>6. cells \in Cells
  <2> HIDE DEF hits
  <2> QED
    BY <1>4, <1>5, CellsAreCells DEF Replaced, Cells
<1> QED
  BY <1>1, <1>6

LEMMA DescribeKeeps ==
  ASSUME Inv, Describe \/ DescribeFails \/ FindNetworks \/ FindFails \/ Parse \/ ParseFails
  PROVE  Inv'
<1> USE DEF Reads, At, Goes
<1>1. SessionStep
  BY DEF SessionStep, Describe, DescribeFails, FindNetworks, FindFails, Parse, ParseFails
<1>2. UNCHANGED <<source, tags, on, labels, values, history, named, tagMap, fetched, folders, frontier>>
  BY DEF Describe, DescribeFails, FindNetworks, FindFails, Parse, ParseFails
<1>3. pc = "begin" /\ pc' \in {"dead", "decide", "ended"} /\ known' \in {known, labels}
  BY DEF Describe, DescribeFails, FindNetworks, FindFails, Parse, ParseFails, LogError
<1>4. todo' \subseteq Dims \X Values
  BY DEF Describe, DescribeFails, FindNetworks, FindFails, Parse, ParseFails, CellsOf, Inv, Types, TypeOK
<1>5. \A r \in rows' : r.from \in Machines \cup {NoMachine} /\ r.name \in Names /\ r.cells \in Cells
  <2>1. CASE Describe
    <3>1. PICK f \in [on -> Cells] :
            rows' = {[from |-> m, name |-> CloudName(m), cells |-> f[m]] : m \in on}
      BY <2>1 DEF Describe
    <3> QED
      BY <3>1, CloudNameType DEF Inv, Types, TypeOK
  <2>2. CASE FindNetworks
    <3>1. \A r \in rows' : \E w \in DOMAIN labels : r \in NetworkRows(w)
      BY <2>2 DEF FindNetworks
    <3> QED
      BY <3>1, NetworkRowsIs DEF Inv, Types, LabelMap
  <2>3. CASE Parse
    <3>1. \A r \in rows' : \E w \in DOMAIN labels : r \in RelabelFromHostname(w)
      BY <2>3 DEF Parse
    <3> QED
      BY <3>1, HostRowsIs DEF Inv, Types, LabelMap
  <2> QED
    BY <2>1, <2>2, <2>3 DEF DescribeFails, FindFails, ParseFails, Inv, Types, TypeOK
<1>6. Place'
  BY <1>2, <1>3 DEF Inv, Place, Over, history
<1> QED
  BY <1>1, <1>2, <1>3, <1>4, <1>5, <1>6, ReadKeeps DEF Inv, Types, TypeOK, Places

\* Steps that change neither what is read nor what is to be done.
LEMMA DecideKeeps ==
  ASSUME Inv, Decision \/ HostDecision \/ Crash \/ BulkFails \/ CreateFails
  PROVE  Inv'
<1> USE DEF Reads, At, Goes
<1>1. SessionStep
  BY DEF SessionStep, Decision, HostDecision, Crash, BulkFails, CreateFails
<1>2. UNCHANGED <<source, tags, on, labels, values, history, named, tagMap, fetched, folders, frontier, known, rows>>
  BY DEF Decision, HostDecision, Crash, BulkFails, CreateFails
<1>3. /\ ~Over
      /\ pc' \in {"write", "ended", "dead", "create"}
      /\ pc' = "write" => source # "hostparse"
      /\ pc' = "create" => source = "hostparse"
  BY DEF Decision, HostDecision, Crash, BulkFails, CreateFails, Over, LogError, Inv, Place
<1>4. todo' \subseteq Dims \X Values
  BY DEF Decision, HostDecision, Crash, BulkFails, CreateFails, Inv, Types, TypeOK
<1>5. Place'
  BY <1>2, <1>3 DEF Inv, Place, Over, history
<1> QED
  BY <1>1, <1>2, <1>3, <1>4, <1>5, ReadKeeps DEF Inv, Types, TypeOK, Places

LEMMA WriteKeeps ==
  ASSUME Inv, Write \/ WriteFails \/ CreateLabel \/ BulkUpdate
  PROVE  Inv'
<1> USE DEF At, Goes
<1>1. SessionTypeOK'
  BY SessionTypes DEF SessionStep, Write, WriteFails, CreateLabel, BulkUpdate, Inv, Types, TypeOK
<1>2. UNCHANGED <<source, tags, on, before, named, tagMap, fetched, folders, frontier, known, rows>>
  BY DEF Write, WriteFails, CreateLabel, BulkUpdate, history
<1>3. /\ LabelMap(labels') /\ DOMAIN labels \subseteq DOMAIN labels' /\ values' \subseteq Dims \X Values
      /\ todo' \subseteq Dims \X Values
  <2>1. CASE Write \/ WriteFails
    <3>1. pc = "write" /\ UNCHANGED todo
      BY <2>1 DEF Write, WriteFails
    <3>2. PICK some \in SUBSET rows : Import(some)
      BY <2>1 DEF Write, WriteFails
    <3> QED
      BY <3>1, <3>2, ImportTypes DEF Inv, Types, TypeOK
  <2>2. CASE CreateLabel
    BY <2>2 DEF CreateLabel, Inv, Types, TypeOK, LabelMap
  <2>3. CASE BulkUpdate
    <3> DEFINE done == {r \in rows : CellsOf({r}) \subseteq values}
               New(w) == IF \E r \in done : r.name = w THEN (CHOOSE r \in done : r.name = w).cells
                         ELSE labels[w]
    <3>1. labels' = [w \in DOMAIN labels |-> New(w)] /\ values' = values /\ todo' = todo
      BY <2>3 DEF BulkUpdate
    <3>2. ASSUME NEW w \in DOMAIN labels PROVE New(w) \in Cells
      <4>1. CASE \E r \in done : r.name = w
        <5>1. (CHOOSE r \in done : r.name = w) \in rows
          BY <4>1
        <5> QED
          BY <4>1, <5>1 DEF Inv, Types, TypeOK
      <4>2. CASE ~ \E r \in done : r.name = w
        BY <4>2 DEF Inv, Types, LabelMap
      <4> QED
        BY <4>1, <4>2
    <3> HIDE DEF New
    <3> QED
      BY <3>1, <3>2 DEF Inv, Types, TypeOK, LabelMap
  <2> QED
    BY <2>1, <2>2, <2>3
<1>4. pc' \in {"ended", "dead"} \/ (CreateLabel /\ pc' = pc)
  BY DEF Write, WriteFails, CreateLabel, BulkUpdate, LogError
<1>5. Place'
  <2>1. CASE pc' \in {"ended", "dead"}
    BY <1>2, <1>3, <2>1 DEF Inv, Place, Over
  <2>2. CASE CreateLabel /\ pc' = pc
    BY <1>2, <1>3, <2>2 DEF Inv, Place, Over, CreateLabel
  <2> QED
    BY <1>4, <2>1, <2>2
<1>6. TypeOK'
  BY <1>1, <1>2, <1>3, <1>4 DEF Inv, Types, TypeOK, LabelMap
<1> QED
  BY <1>2, <1>3, <1>5, <1>6 DEF Inv, Types, LabelMap

LEMMA OthersKeep ==
  ASSUME Inv, NewCommand \/ Retag \/ Switch
  PROVE  Inv'
<1>1. SessionTypeOK'
  BY SessionTypes DEF SessionStep, NewCommand, Retag, Switch, Inv, Types, TypeOK
<1>2. CASE NewCommand
  <2>1. TypeOK'
    BY <1>1, <1>2, NoFunctionIs DEF NewCommand, outside, Inv, Types, TypeOK
  <2>2. Place'
    BY <1>2, NoFunctionIs DEF NewCommand, outside, Inv, Place, Over
  <2> QED
    BY <1>2, <2>1, <2>2, NoFunctionIs DEF NewCommand, outside, Inv, Types, LabelMap
<1>3. CASE Retag \/ Switch
  <2>1. UNCHANGED <<source, labels, values, command, history>>
    BY <1>3 DEF Retag, Switch
  <2>2. on' \subseteq Machines
    BY <1>3 DEF Retag, Switch, Inv, Types, TypeOK
  <2>3. tags' \in [Machines -> [Dims -> SUBSET Values]]
    <3>1. CASE Retag
      <4>1. PICK m \in Machines, d \in Dims, S \in {{}} \cup {{v} : v \in Values} :
              tags' = [tags EXCEPT ![m][d] = S]
        BY <3>1 DEF Retag
      <4>2. S \in SUBSET Values
        BY <4>1
      <4> QED
        BY <4>1, <4>2 DEF Inv, Types
    <3>2. CASE Switch
      BY <3>2 DEF Switch, Inv, Types
    <3> QED
      BY <1>3, <3>1, <3>2
  <2>4. TypeOK'
    BY <1>1, <2>1, <2>2 DEF command, Inv, Types, TypeOK
  <2> QED
    BY <2>1, <2>3, <2>4 DEF command, history, Inv, Types, LabelMap, Place, Over
<1> QED
  BY <1>2, <1>3

LEMMA InvStep == Inv /\ [Next]_vars => Inv'
<1> SUFFICES ASSUME Inv, [Next]_vars PROVE Inv'
  OBVIOUS
<1>1. CASE UNCHANGED vars
  BY <1>1 DEF vars, session, outside, command, history, Inv, Types, TypeOK, SessionTypeOK, LabelMap,
              Place, Over
<1>2. CASE Next
  BY <1>2, CollectKeeps, IdentifyKeeps, AskKeeps, DescribeKeeps, DecideKeeps, WriteKeeps, OthersKeep
     DEF Next, Collect
<1> QED
  BY <1>1, <1>2

\* The variables keep their types, and the workloads that a command imports
\* into are those that the PCE has (vcenter.go, subnet.go, hostparse.go).
THEOREM Typing == Spec => []TypeOK
<1>1. Inv => TypeOK
  BY DEF Inv, Types
<1> QED
  BY InvInit, InvStep, <1>1, PTL DEF Spec

-----------------------------------------------------------------------------
(* Whose labels vmsync changes. *)

Reach == IF flags.subfolders THEN Below ELSE flags.roots

LEMMA BelowIs ==
  ASSUME flags.roots \subseteq Folders
  PROVE  /\ flags.roots \subseteq Below
         /\ \A f \in Below : Children[f] \subseteq Below
         /\ \A S \in SUBSET Folders : WithSubfolders(S) => Below \subseteq S
<1>1. flags.roots \subseteq Below
  BY DEF Below, WithSubfolders
<1>2. ASSUME NEW f \in Below, NEW g \in Children[f]
      PROVE  g \in Below
  <2>1. g \in Folders
    BY <1>2, LabellingAssumption DEF Below
  <2>2. ASSUME NEW S \in SUBSET Folders, WithSubfolders(S) PROVE g \in S
    BY <1>2, <2>2 DEF Below, WithSubfolders
  <2> QED
    BY <2>1, <2>2 DEF Below
<1> QED
  BY <1>1, <1>2 DEF Below

LEMMA RangeStays ==
  ASSUME UNCHANGED <<source, flags>>
  PROVE  Reach' = Reach /\ \A m : InRange(m)' <=> InRange(m)
<1>1. Below' = Below
  BY DEF Below, WithSubfolders
<1> QED
  BY <1>1 DEF Reach, InRange

\* A VM that is asked for, and a name of it.
Likely(m, n) ==
  /\ m \in Machines /\ InRange(m)
  /\ SameHost(VmName[m], n) \/ (GuestName[m] # None /\ SameHost(GuestName[m], n))

\* The folders of the command have been looked up, if it has come so far.
Sure == ~flags.continueOnError \/ alone

\* What vmsync has collected is about the VMs of the folders it was given.
Theirs ==
  (source = "vmsync" /\ Sure) =>
    /\ folders \subseteq Reach /\ frontier \subseteq Reach
    /\ pc = "find" => flags.roots # {}
    /\ pc = "walk" => flags.subfolders /\ frontier # {}
    /\ pc \in {"walk", "list"} => flags.roots \subseteq folders
    /\ pc = "identify" => \A m \in DOMAIN named : InRange(m)
    /\ pc \in {"tags", "ask"} => \A m \in DOMAIN named : Likely(m, named[m])
    /\ \A r \in rows : Likely(r.from, r.name)

LEMMA FlagsStay ==
  ASSUME [Next]_vars
  PROVE  UNCHANGED <<source, flags>>
<1> USE DEF At, Silent, session, Fault, LostAnswer, Works, NotAsked, Denied, Approved, NextCommand
<1>1. CASE UNCHANGED vars
  BY <1>1 DEF vars
<1>2. CASE Collect \/ Identify \/ GetTagMap
  BY <1>2 DEF Collect, Load, LoadFails, FindFolders, NoFolders, WalkFolders, ListVMs, ListFails, Identify, GetTagMap
<1>3. CASE AskTags \/ AskFails \/ BuildRows \/ Describe \/ DescribeFails \/ FindNetworks \/ FindFails
  BY <1>3 DEF AskTags, AskFails, BuildRows, Describe, DescribeFails, FindNetworks, FindFails
<1>4. CASE Decision \/ Write \/ WriteFails \/ Parse \/ ParseFails \/ HostDecision
  BY <1>4 DEF Decision, Write, WriteFails, Parse, ParseFails, HostDecision
<1>5. CASE CreateLabel \/ CreateFails \/ BulkUpdate \/ BulkFails \/ Crash \/ NewCommand \/ Retag \/ Switch
  BY <1>5 DEF CreateLabel, CreateFails, BulkUpdate, BulkFails, Crash, NewCommand, Retag, Switch
<1> QED
  BY <1>1, <1>2, <1>3, <1>4, <1>5 DEF Next, Collect

\* What has been disturbed stays so until the next command.
LEMMA AloneBefore ==
  ASSUME [Next]_vars, ~NewCommand, alone'
  PROVE  alone
<1> USE DEF At, Silent, session, Fault, LostAnswer, Works, NotAsked, Denied, Approved
<1>1. CASE UNCHANGED vars
  BY <1>1 DEF vars
<1>2. CASE Collect \/ Identify \/ GetTagMap
  BY <1>2 DEF Collect, Load, LoadFails, FindFolders, NoFolders, WalkFolders, ListVMs, ListFails, Identify, GetTagMap
<1>3. CASE AskTags \/ AskFails \/ BuildRows \/ Describe \/ DescribeFails \/ FindNetworks \/ FindFails
  BY <1>3 DEF AskTags, AskFails, BuildRows, Describe, DescribeFails, FindNetworks, FindFails
<1>4. CASE Decision \/ Write \/ WriteFails \/ Parse \/ ParseFails \/ HostDecision
  BY <1>4 DEF Decision, Write, WriteFails, Parse, ParseFails, HostDecision
<1>5. CASE CreateLabel \/ CreateFails \/ BulkUpdate \/ BulkFails \/ Crash \/ Retag \/ Switch
  BY <1>5 DEF CreateLabel, CreateFails, BulkUpdate, BulkFails, Crash, Retag, Switch
<1> QED
  BY <1>1, <1>2, <1>3, <1>4, <1>5 DEF Next, Collect

LEMMA LikelyStays ==
  ASSUME UNCHANGED <<source, flags>>
  PROVE  \A m, n : Likely(m, n)' <=> Likely(m, n)
BY RangeStays DEF Likely, SameHost

\* The names under which VMs are looked for are theirs.
LEMMA IdentifyIsTheirs ==
  ASSUME Inv, Identify, \A m \in DOMAIN named : InRange(m)
  PROVE  \A m \in DOMAIN named' : Likely(m, named'[m])
<1>1. PICK silent \in SUBSET {m \in DOMAIN named : GuestName[m] # None} :
        LET tools(m) == GuestName[m] # None /\ m \notin silent
            name(m) == IF tools(m) /\ ~flags.vmName THEN GuestName[m] ELSE VmName[m]
            names == [m \in DOMAIN named |-> Interesting(m, name(m), tools(m))]
            kept == {m \in DOMAIN named : names[m] # {}} IN
          \E f \in [kept -> Names] : (\A m \in kept : f[m] \in names[m]) /\ named' = f
  BY DEF Identify
<1> DEFINE tools(m) == GuestName[m] # None /\ m \notin silent
           name(m) == IF tools(m) /\ ~flags.vmName THEN GuestName[m] ELSE VmName[m]
           names == [m \in DOMAIN named |-> Interesting(m, name(m), tools(m))]
           kept == {m \in DOMAIN named : names[m] # {}}
<1>2. PICK f \in [kept -> Names] : (\A m \in kept : f[m] \in names[m]) /\ named' = f
  BY <1>1
<1>3. ASSUME NEW m \in DOMAIN named'
      PROVE  Likely(m, named'[m])
  <2>1. m \in DOMAIN named /\ named'[m] \in Interesting(m, name(m), tools(m))
    BY <1>2, <1>3
  <2>2. SameHost(name(m), named'[m])
    BY <2>1 DEF Interesting, Matches, SameHost
  <2>3. name(m) = VmName[m] \/ (GuestName[m] # None /\ name(m) = GuestName[m])
    OBVIOUS
  <2>4. m \in Machines /\ InRange(m)
    BY <2>1 DEF Inv, Types, TypeOK
  <2> HIDE DEF name, kept, names, tools
  <2> QED
    BY <2>2, <2>3, <2>4 DEF Likely
<1> QED
  BY <1>3

LEMMA TheirsStep ==
  ASSUME Inv, Theirs, [Next]_vars
  PROVE  Theirs'
<1> SUFFICES ASSUME source' = "vmsync", Sure' PROVE Theirs'
  BY DEF Theirs
<1> USE DEF Goes
<1>1. UNCHANGED <<source, flags>> /\ source = "vmsync" /\ (~NewCommand => Sure)
  BY FlagsStay, AloneBefore DEF Sure
<1>2. Reach' = Reach /\ (\A m : InRange(m)' <=> InRange(m)) /\ \A m, n : Likely(m, n)' <=> Likely(m, n)
  BY <1>1, RangeStays, LikelyStays
<1>3. flags.roots \subseteq Folders
  BY FlagTypes DEF Inv, Types, TypeOK, SessionTypeOK
<1>13. CASE NewCommand
  <2>1. pc' = "begin" /\ folders' = {} /\ frontier' = {} /\ rows' = {}
    BY <1>13 DEF NewCommand
  <2> QED
    BY <2>1 DEF Theirs
<1> SUFFICES ASSUME ~NewCommand PROVE Theirs'
  BY <1>13
<1>4. CASE Load
  <2>1. /\ pc' = IF flags.roots = {} THEN "list" ELSE "find"
        /\ UNCHANGED <<folders, frontier, rows>>
    BY <1>4 DEF Load, ToSearch
  <2> QED
    BY <1>1, <1>2, <2>1 DEF Theirs
<1>15. CASE LoadFails \/ NoFolders
  <2>1. pc' = "dead" /\ UNCHANGED <<folders, frontier, rows>>
    BY <1>1, <1>15 DEF LoadFails, NoFolders, LogError, Fault, Sure
  <2> QED
    BY <1>1, <1>2, <2>1 DEF Theirs
<1>16. CASE FindFolders
  <2>1. /\ pc = "find" /\ pc' = IF flags.subfolders THEN "walk" ELSE "list"
        /\ folders' = flags.roots /\ frontier' = flags.roots /\ rows' = rows
    BY <1>16 DEF FindFolders, ToWalk, At
  <2>2. flags.roots \subseteq Reach
    BY <1>3, BelowIs DEF Reach
  <2>3. flags.roots # {}
    BY <1>1, <2>1 DEF Theirs
  <2> QED
    BY <1>1, <1>2, <2>1, <2>2, <2>3 DEF Theirs
<1>5. CASE WalkFolders
  <2>1. /\ pc = "walk" /\ rows' = rows /\ folders' = folders \cup frontier'
        /\ pc' = IF frontier' = {} THEN "list" ELSE "walk"
        /\ frontier' \subseteq Subfolders
    BY <1>5 DEF WalkFolders, Gathered, At
  <2>2. flags.subfolders /\ Subfolders = UNION {Children[f] : f \in frontier}
    BY <1>1, <2>1 DEF Theirs, Subfolders
  <2>3. frontier' \subseteq Reach
    BY <1>1, <1>3, <2>1, <2>2, BelowIs DEF Theirs, Reach
  <2> QED
    BY <1>1, <1>2, <2>1, <2>2, <2>3 DEF Theirs
<1>6. CASE ListVMs
  <2>1. /\ pc = "list" /\ pc' \in {"ended", "identify"} /\ UNCHANGED <<folders, frontier, rows>>
        /\ DOMAIN named' = {m \in on : InFolders(m)}
    BY <1>6 DEF ListVMs, At
  <2>2. \A m \in DOMAIN named' : InRange(m)
    BY <1>1, <2>1 DEF Theirs, InFolders, InRange, Reach
  <2> QED
    BY <1>1, <1>2, <2>1, <2>2 DEF Theirs
<1>7. CASE Identify
  <2>1. pc = "identify" /\ pc' = "tags" /\ UNCHANGED <<folders, frontier, rows>>
    BY <1>7 DEF Identify, At
  <2>2. \A m \in DOMAIN named' : Likely(m, named'[m])
    BY <1>1, <1>7, <2>1, IdentifyIsTheirs DEF Theirs
  <2> QED
    BY <1>1, <1>2, <2>1, <2>2 DEF Theirs
<1>8. CASE GetTagMap \/ AskTags \/ AskFails
  <2>1. /\ pc \in {"tags", "ask"} /\ pc' \in {"ask", "dead"}
        /\ UNCHANGED <<folders, frontier, rows, named>>
    BY <1>8 DEF GetTagMap, AskTags, AskFails, At, LogError
  <2> QED
    BY <1>1, <1>2, <2>1 DEF Theirs
<1>9. CASE BuildRows
  <2>1. /\ pc = "ask" /\ pc' \in {"decide", "ended"} /\ UNCHANGED <<folders, frontier, named>>
        /\ \A r \in rows' : \E m \in DOMAIN named : r.from = m /\ r.name = named[m]
    BY <1>9 DEF BuildRows, At
  <2> QED
    BY <1>1, <1>2, <2>1 DEF Theirs
<1>10. CASE Describe \/ DescribeFails \/ FindNetworks \/ FindFails \/ Parse \/ ParseFails \/ HostDecision
  BY <1>1, <1>10 DEF Describe, DescribeFails, FindNetworks, FindFails, Parse, ParseFails, HostDecision
<1>11. CASE CreateLabel \/ CreateFails \/ BulkUpdate \/ BulkFails
  BY <1>1, <1>11 DEF CreateLabel, CreateFails, BulkUpdate, BulkFails, At, Inv, Place
<1>12. CASE ListFails \/ Decision \/ Write \/ WriteFails \/ Crash
  <2>1. pc' \in {"ended", "dead", "write"} /\ UNCHANGED <<folders, frontier, rows>>
    BY <1>12 DEF ListFails, Decision, Write, WriteFails, Crash, LogError
  <2> QED
    BY <1>1, <1>2, <2>1 DEF Theirs
<1>14. CASE Retag \/ Switch \/ UNCHANGED vars
  <2>1. UNCHANGED command
    BY <1>14 DEF Retag, Switch, vars
  <2> QED
    BY <1>1, <1>2, <2>1 DEF Theirs, command
<1> QED
  BY <1>4, <1>15, <1>16, <1>5, <1>6, <1>7, <1>8, <1>9, <1>10, <1>11, <1>12, <1>14 DEF Next

LEMMA TheirsInit == Init => Theirs
<1> SUFFICES ASSUME Init PROVE Theirs
  OBVIOUS
<1>1. folders = {} /\ frontier = {} /\ rows = {} /\ pc = "begin"
  BY DEF Init
<1> QED
  BY <1>1 DEF Theirs

\* What a workload is named like no VM that is asked for stays as it is.
LEMMA OnlyTheirsStep ==
  ASSUME Inv, Theirs, OnlyTheirs, [Next]_vars
  PROVE  OnlyTheirs'
<1> SUFFICES ASSUME source' = "vmsync", ~flags'.continueOnError, NEW w \in DOMAIN before',
                    \A m \in Machines : InRange(m)' =>
                      ~SameHost(VmName[m], w) /\ (GuestName[m] # None => ~SameHost(GuestName[m], w))
             PROVE  labels'[w] = before'[w]
  BY DEF OnlyTheirs, SameHost
<1>1. UNCHANGED <<source, flags>> /\ source = "vmsync" /\ ~flags.continueOnError /\ Sure
  BY FlagsStay DEF Sure
<1>2. \A m : ~Likely(m, w)
  BY <1>1, RangeStays DEF Likely
<1>3. w \in DOMAIN before => labels[w] = before[w]
  BY <1>1, RangeStays DEF OnlyTheirs
<1>4. CASE Write \/ WriteFails
  <2>1. pc = "write" /\ before' = before
    BY <1>4 DEF Write, WriteFails, At
  <2>2. PICK some \in SUBSET rows : Import(some)
    BY <1>4 DEF Write, WriteFails
  <2>3. PICK last : Effect(some, last)
    BY <2>2, ImportEffect
  <2>4. Hosts(some) \subseteq {r.name : r \in some}
    BY DEF Hosts, FreshRows, Matching
  <2>5. w \notin Hosts(some)
    BY <1>1, <1>2, <2>4 DEF Theirs
  <2>6. w \in DOMAIN labels
    BY <2>1 DEF Inv, Place
  <2>7. labels'[w] = labels[w]
    BY <2>3, <2>5, <2>6 DEF Effect
  <2> QED
    BY <1>3, <2>1, <2>7
<1>5. CASE NewCommand
  BY <1>5 DEF NewCommand, outside
<1>6. CASE \/ Collect \/ Identify \/ GetTagMap
           \/ AskTags \/ AskFails \/ BuildRows \/ Describe \/ DescribeFails \/ FindNetworks
           \/ FindFails \/ Decision \/ Crash \/ Retag \/ Switch \/ UNCHANGED vars
  <2>1. UNCHANGED <<labels, before>>
    BY <1>6 DEF Collect, Load, LoadFails, FindFolders, NoFolders, WalkFolders, ListVMs, ListFails, Identify, GetTagMap, AskTags,
         AskFails, BuildRows, Describe, DescribeFails, FindNetworks, FindFails, Decision, Crash,
         Retag, Switch, Reads, vars, outside, history
  <2> QED
    BY <1>3, <2>1
<1>7. CASE Parse \/ ParseFails \/ HostDecision \/ CreateLabel \/ CreateFails \/ BulkUpdate \/ BulkFails
  BY <1>1, <1>7 DEF Parse, ParseFails, HostDecision, CreateLabel, CreateFails, BulkUpdate, BulkFails,
                    At, Inv, Place
<1> QED
  BY <1>4, <1>5, <1>6, <1>7 DEF Next, Collect

\* Without --continue-on-error, whatever fails and however VMs are tagged and
\* switched, a workload that no VM of the chosen folders is named like keeps its
\* labels in vmsync: the lookup of the folders ends the command or has found
\* them, and a walk that breaks off leaves folders out (vcenter.go, getVCenterVMs
\* and compileVMData).
THEOREM TheirsOnly == Spec => []OnlyTheirs
<1>1. Init => OnlyTheirs
  BY DEF Init, OnlyTheirs
<1>2. Inv /\ Theirs /\ OnlyTheirs /\ [Next]_vars => (Inv /\ Theirs /\ OnlyTheirs)'
  BY InvStep, TheirsStep, OnlyTheirsStep
<1> QED
  BY InvInit, TheirsInit, <1>1, <1>2, PTL DEF Spec

-----------------------------------------------------------------------------
(* The workloads that vmsync --umwl makes. *)

UName(m) == IF flags.vmName THEN VmName[m] ELSE GuestName[m]

\* A VM that no workload is named like, and its name.
Missing(m, n) ==
  m \in Machines /\ n = UName(m) /\ \A w \in DOMAIN labels : ~SameHost(n, w)

MadeOnce ==
  \A m \in Machines :
    /\ made[m] \in {0, 1}
    /\ made[m] = 1 => /\ \E w \in DOMAIN labels : SameHost(UName(m), w)
                      /\ \A w \in DOMAIN InitialLabels : ~SameHost(UName(m), w)

Reruns ==
  (source = "vmsync" /\ ~flags.continueOnError) =>
    /\ pc \in {"find", "walk", "list", "identify", "tags", "ask", "decide", "write"} => known = labels
    /\ pc \in {"tags", "ask"} /\ flags.umwl => \A m \in DOMAIN named : Missing(m, named[m])
    /\ pc \in {"decide", "write"} /\ flags.umwl => \A r \in rows : Missing(r.from, r.name)
    /\ \A q, r \in rows : q.from = r.from => q = r
    /\ made \in [Machines -> Nat] /\ MadeOnce

LEMMA RerunsInit == Init => Reruns
<1> SUFFICES ASSUME Init PROVE Reruns
  OBVIOUS
<1>1. /\ pc = "begin" /\ rows = {} /\ made = [m \in Machines |-> 0]
  BY DEF Init
<1> QED
  BY <1>1 DEF Reruns, MadeOnce

\* With --umwl only VMs stay that no workload is named like.
LEMMA IdentifyIsMissing ==
  ASSUME Inv, Identify, known = labels, flags.umwl
  PROVE  \A m \in DOMAIN named' : Missing(m, named'[m])
<1>1. PICK silent \in SUBSET {m \in DOMAIN named : GuestName[m] # None} :
        LET tools(m) == GuestName[m] # None /\ m \notin silent
            name(m) == IF tools(m) /\ ~flags.vmName THEN GuestName[m] ELSE VmName[m]
            names == [m \in DOMAIN named |-> Interesting(m, name(m), tools(m))]
            kept == {m \in DOMAIN named : names[m] # {}} IN
          \E f \in [kept -> Names] : (\A m \in kept : f[m] \in names[m]) /\ named' = f
  BY DEF Identify
<1> DEFINE tools(m) == GuestName[m] # None /\ m \notin silent
           name(m) == IF tools(m) /\ ~flags.vmName THEN GuestName[m] ELSE VmName[m]
           names == [m \in DOMAIN named |-> Interesting(m, name(m), tools(m))]
           kept == {m \in DOMAIN named : names[m] # {}}
<1>2. PICK f \in [kept -> Names] : (\A m \in kept : f[m] \in names[m]) /\ named' = f
  BY <1>1
<1>3. ASSUME NEW m \in DOMAIN named'
      PROVE  Missing(m, named'[m])
  <2>1. m \in DOMAIN named /\ named'[m] \in Interesting(m, name(m), tools(m))
    BY <1>2, <1>3
  <2>2. m \in Machines
    BY <2>1 DEF Inv, Types, TypeOK
  <2>3. \A n, t : Interesting(m, n, t) # {} =>
          /\ Interesting(m, n, t) = {n} /\ t /\ \A w \in DOMAIN labels : ~Matches(n, w)
    BY DEF Interesting
  <2>4. /\ named'[m] = name(m) /\ tools(m)
        /\ \A w \in DOMAIN labels : ~Matches(name(m), w)
    <3> HIDE DEF name, tools
    <3> QED
      BY <2>1, <2>3
  <2>5. name(m) = UName(m)
    BY <2>4 DEF UName
  <2> HIDE DEF name, kept, names, tools
  <2> QED
    BY <2>2, <2>4, <2>5 DEF Missing, Matches, SameHost
<1> QED
  BY <1>3

LEMMA ImportOnce ==
  ASSUME Inv, Reruns, source = "vmsync", ~flags.continueOnError, pc = "write", UNCHANGED flags,
         NEW some \in SUBSET rows, Import(some)
  PROVE  made' \in [Machines -> Nat] /\ MadeOnce'
<1>1. Loaded = labels
  BY LoadedIs DEF Inv
<1>2. PICK last : Effect(some, last)
  BY ImportEffect
<1>3. DOMAIN labels' = DOMAIN labels \cup Hosts(some)
  BY <1>2 DEF Effect
<1> DEFINE Fresh(m) == {r \in FreshRows(some) : r.from = m}
<1>4. made' = [m \in Machines |-> made[m] + Cardinality(Fresh(m))]
  BY ImportEffect
<1>5. made \in [Machines -> Nat] /\ MadeOnce
  BY DEF Reruns
<1>6. ASSUME NEW m \in Machines
      PROVE  \/ Cardinality(Fresh(m)) = 0
             \/ /\ Cardinality(Fresh(m)) = 1 /\ made[m] = 0
                /\ \E w \in DOMAIN labels' : SameHost(UName(m), w)
                /\ \A w \in DOMAIN InitialLabels : ~SameHost(UName(m), w)
  <2>1. CASE Fresh(m) = {}
    BY <2>1, FS_EmptySet
  <2>2. CASE Fresh(m) # {}
    <3>1. PICK r \in Fresh(m) : TRUE
      BY <2>2
    <3>2. r \in FreshRows(some) /\ r.from = m /\ flags.umwl /\ r \in rows /\ r.name \notin DOMAIN labels
      BY <1>1, <3>1 DEF FreshRows, Matching
    <3>3. Fresh(m) = {r}
      <4>1. ASSUME NEW q \in Fresh(m) PROVE q = r
        <5>1. q \in rows /\ q.from = m
          BY <4>1 DEF FreshRows
        <5> QED
          BY <3>2, <5>1 DEF Reruns
      <4> QED
        BY <3>1, <4>1
    <3>4. Cardinality(Fresh(m)) = 1
      BY <3>3, FS_Singleton
    <3>5. Missing(m, r.name)
      BY <3>2 DEF Reruns
    <3>6. made[m] # 1
      BY <1>5, <3>5 DEF MadeOnce, Missing
    <3>7. r.name \in DOMAIN labels'
      BY <1>3, <3>2 DEF Hosts
    <3>8. SameHost(UName(m), r.name) /\ \A w \in DOMAIN labels : ~SameHost(UName(m), w)
      BY <3>5 DEF Missing, SameHost
    <3> HIDE DEF Fresh
    <3> QED
      BY <1>5, <3>4, <3>6, <3>7, <3>8 DEF Inv, Place, MadeOnce
  <2> QED
    BY <2>1, <2>2
<1> HIDE DEF Fresh
<1>7. \A m \in Machines : made'[m] = made[m] + Cardinality(Fresh(m)) /\ made[m] \in {0, 1}
  BY <1>4, <1>5 DEF MadeOnce
<1>8. ASSUME NEW m \in Machines
      PROVE  made[m] + Cardinality(Fresh(m)) \in {0, 1}
  BY <1>6, <1>7
<1>9. made' \in [Machines -> Nat]
  BY <1>4, <1>8
<1>10. \A m : UName(m)' = UName(m)
  BY DEF UName
<1>11. ASSUME NEW m \in Machines, made'[m] = 1
       PROVE  /\ \E w \in DOMAIN labels' : SameHost(UName(m), w)
              /\ \A w \in DOMAIN InitialLabels : ~SameHost(UName(m), w)
  <2>1. CASE made[m] = 1
    BY <1>3, <1>5, <2>1 DEF MadeOnce
  <2>2. CASE made[m] = 0
    BY <1>6, <1>7, <1>11, <2>2
  <2> QED
    BY <1>7, <2>1, <2>2
<1> QED
  BY <1>7, <1>8, <1>9, <1>10, <1>11 DEF MadeOnce, SameHost

LEMMA MissingStays ==
  ASSUME UNCHANGED <<source, flags, labels, made>>
  PROVE  (\A m, n : Missing(m, n)' <=> Missing(m, n)) /\ (MadeOnce => MadeOnce')
BY DEF Missing, UName, SameHost, MadeOnce

LEMMA RerunsStep ==
  ASSUME Inv, Reruns, [Next]_vars
  PROVE  Reruns'
<1> SUFFICES ASSUME source' = "vmsync", ~flags'.continueOnError PROVE Reruns'
  BY DEF Reruns
<1> USE DEF Goes, Reads, history
<1>1. UNCHANGED <<source, flags>> /\ source = "vmsync" /\ ~flags.continueOnError
  BY FlagsStay
<1>2. labels' = labels /\ made' = made =>
        (\A m, n : Missing(m, n)' <=> Missing(m, n)) /\ (MadeOnce => MadeOnce')
  BY <1>1, MissingStays
<1>3. made \in [Machines -> Nat] /\ MadeOnce /\ \A q, r \in rows : q.from = r.from => q = r
  BY <1>1 DEF Reruns
<1>4. CASE Load \/ LoadFails \/ FindFolders \/ NoFolders \/ WalkFolders \/ ListVMs
  <2>1. /\ UNCHANGED <<labels, made, rows>>
        /\ pc' \in {"find", "walk", "list", "identify", "dead", "ended"}
        /\ pc' \in {"find", "walk", "list", "identify"} => known' = labels
    BY <1>1, <1>4 DEF Load, LoadFails, FindFolders, NoFolders, WalkFolders, ListVMs, LogError, At,
                      ToSearch, ToWalk, Reruns
  <2> QED
    BY <1>1, <1>2, <1>3, <2>1 DEF Reruns
<1>5. CASE Identify
  <2>1. pc = "identify" /\ pc' = "tags" /\ UNCHANGED <<labels, made, rows, known>>
    BY <1>5 DEF Identify, At
  <2>2. known = labels
    BY <1>1, <2>1 DEF Reruns
  <2>3. flags.umwl => \A m \in DOMAIN named' : Missing(m, named'[m])
    BY <1>5, <2>2, IdentifyIsMissing
  <2> QED
    BY <1>1, <1>2, <1>3, <2>1, <2>2, <2>3 DEF Reruns
<1>6. CASE GetTagMap \/ AskTags \/ AskFails
  <2>1. /\ pc \in {"tags", "ask"} /\ pc' \in {"ask", "dead"}
        /\ UNCHANGED <<labels, made, rows, known, named>>
    BY <1>6 DEF GetTagMap, AskTags, AskFails, At, LogError
  <2> QED
    BY <1>1, <1>2, <1>3, <2>1 DEF Reruns
<1>7. CASE BuildRows
  <2> DEFINE Row(m) == [from |-> m, name |-> named[m],
                        cells |-> IF m \in DOMAIN fetched THEN fetched[m] ELSE [d \in Dims |-> None]]
  <2>1. /\ pc = "ask" /\ pc' \in {"decide", "ended"} /\ UNCHANGED <<labels, made, known, named>>
        /\ rows' = {Row(m) : m \in DOMAIN named}
    BY <1>7 DEF BuildRows, At
  <2>2. \A m : Row(m).from = m /\ Row(m).name = named[m]
    OBVIOUS
  <2> HIDE DEF Row
  <2>3. \A r \in rows' : r = Row(r.from) /\ r.from \in DOMAIN named /\ r.name = named[r.from]
    BY <2>1, <2>2
  <2>4. flags.umwl => \A r \in rows' : Missing(r.from, r.name)
    BY <1>1, <2>1, <2>3 DEF Reruns
  <2>5. \A q, r \in rows' : q.from = r.from => q = r
    BY <2>3
  <2>6. known = labels
    BY <1>1, <2>1 DEF Reruns
  <2> QED
    BY <1>1, <1>2, <1>3, <2>1, <2>4, <2>5, <2>6 DEF Reruns
<1>8. CASE Decision
  <2>1. /\ pc = "decide" /\ pc' \in {"write", "ended"} /\ UNCHANGED <<labels, made, rows, known>>
    BY <1>8 DEF Decision, At
  <2> QED
    BY <1>1, <1>2, <1>3, <2>1 DEF Reruns
<1>9. CASE Write \/ WriteFails
  <2>1. pc = "write" /\ pc' \in {"ended", "dead"} /\ rows' = rows
    BY <1>9 DEF Write, WriteFails, At, LogError
  <2>2. PICK some \in SUBSET rows : Import(some)
    BY <1>9 DEF Write, WriteFails
  <2>3. made' \in [Machines -> Nat] /\ MadeOnce'
    BY <1>1, <2>1, <2>2, ImportOnce
  <2> QED
    BY <1>3, <2>1, <2>3 DEF Reruns
<1>10. CASE Describe \/ DescribeFails \/ FindNetworks \/ FindFails \/ Parse \/ ParseFails \/ HostDecision
  BY <1>1, <1>10 DEF Describe, DescribeFails, FindNetworks, FindFails, Parse, ParseFails, HostDecision
<1>11. CASE CreateLabel \/ CreateFails \/ BulkUpdate \/ BulkFails
  BY <1>1, <1>11 DEF CreateLabel, CreateFails, BulkUpdate, BulkFails, At, Inv, Place
<1>12. CASE ListFails \/ Crash
  <2>1. pc' \in {"ended", "dead"} /\ UNCHANGED <<labels, made, rows>>
    BY <1>12 DEF ListFails, Crash, LogError
  <2> QED
    BY <1>2, <1>3, <2>1 DEF Reruns
<1>13. CASE NewCommand
  <2>1. pc' = "begin" /\ rows' = {} /\ UNCHANGED <<labels, made>>
    BY <1>13 DEF NewCommand, outside
  <2> QED
    BY <1>2, <1>3, <2>1 DEF Reruns
<1>14. CASE Retag \/ Switch \/ UNCHANGED vars
  <2>1. UNCHANGED <<command, labels, made>>
    BY <1>14 DEF Retag, Switch, vars, outside
  <2> QED
    BY <1>1, <1>2, <2>1 DEF Reruns, command
<1> QED
  BY <1>4, <1>5, <1>6, <1>7, <1>8, <1>9, <1>10, <1>11, <1>12, <1>13, <1>14 DEF Next

\* Without --continue-on-error the reruns of vmsync --umwl, also after a lost
\* answer or a crash, make at most one workload of a VM, and none of a VM that
\* has a workload with another domain (vcenter.go, compileVMData).
THEOREM UmwlOnce == Spec => []OneUmwl
<1>1. Reruns => OneUmwl
  BY DEF Reruns, MadeOnce, OneUmwl, UName
<1>2. Inv /\ Reruns /\ [Next]_vars => (Inv /\ Reruns)'
  BY InvStep, RerunsStep
<1> QED
  BY InvInit, RerunsInit, <1>1, <1>2, PTL DEF Spec

-----------------------------------------------------------------------------
(* What an undisturbed command leaves. *)

\* The sources that label by VMs, VMs with a workload, and the cells of a VM.
ByMachine == source = "cloud" \/ (source = "vmsync" /\ ~flags.umwl)
ForSome(m) == InRange(m) /\ \E w \in DOMAIN labels : IsFor(m, w)
CellsFor(m, c) ==
  c \in Cells /\ \A d \in Dims : IF tags[m][d] = {} THEN c[d] = None ELSE c[d] \in tags[m][d]

Exempt(w, d) ==
  \/ source = "hostparse" /\ d \notin HostDims
  \/ source = "vmsync" /\ flags.umwl
  \/ source \in {"vmsync", "cloud"} /\ \A m \in on : ~Sole(m, w)
Want(w, d) == IF Chosen(w, d) = {} THEN {before[w][d]} ELSE Chosen(w, d)
LabelledBy(L) == \A w \in DOMAIN before, d \in Dims : Exempt(w, d) \/ L[w][d] \in Want(w, d)

Walked ==
  /\ known = labels /\ flags.roots \subseteq folders /\ frontier \subseteq folders
  /\ ~flags.subfolders => folders = flags.roots
  /\ flags.subfolders => \A f \in folders : f \in frontier \/ Children[f] \subseteq folders
Listed == known = labels /\ DOMAIN named = {m \in on : InRange(m)}
Identified ==
  /\ DOMAIN named = {m \in on : ForSome(m)}
  /\ \A m \in DOMAIN named : IsFor(m, named[m]) /\ named[m] \in DOMAIN labels
Asked ==
  /\ \A m \in Machines, d \in Dims, v \in Values : v \in tags[m][d] => <<d, v>> \in tagMap
  /\ \A m \in DOMAIN fetched : CellsFor(m, fetched[m])
MachineRows ==
  /\ \A r \in rows : /\ r.from \in on /\ InRange(r.from) /\ IsFor(r.from, r.name)
                     /\ CellsFor(r.from, r.cells)
  /\ \A m \in on : ForSome(m) => \E r \in rows : r.from = m /\ r.name \in DOMAIN labels
NetRows == rows = UNION {NetworkRows(w) : w \in DOMAIN labels}
ParsedRows == rows = UNION {RelabelFromHostname(w) : w \in DOMAIN labels}

Undisturbed ==
  alone =>
    /\ source = "vmsync" /\ ~flags.umwl =>
         /\ pc = "find" => known = labels
         /\ pc \in {"walk", "list"} => Walked
         /\ pc = "list" => (flags.subfolders => frontier = {})
         /\ pc = "identify" => Listed
         /\ pc \in {"tags", "ask"} => Identified
         /\ pc = "ask" => Asked
    /\ ByMachine /\ pc \in {"decide", "write"} => MachineRows
    /\ source = "subnet" /\ pc \in {"decide", "write"} => NetRows
    /\ source = "hostparse" /\ pc \in {"decide", "create"} =>
         ParsedRows /\ CellsOf(rows) \subseteq values \cup todo
    /\ pc = "ended" /\ Consent => LabelledBy(labels)

LEMMA SameWorld ==
  ASSUME UNCHANGED <<source, flags, tags, on, before>>
  PROVE  /\ \A m, w : IsFor(m, w)' <=> IsFor(m, w)
         /\ \A m : InRange(m)' <=> InRange(m)
         /\ \A m, c : CellsFor(m, c)' <=> CellsFor(m, c)
         /\ \A w, d : Exempt(w, d)' <=> Exempt(w, d)
         /\ \A w, d : Want(w, d)' = Want(w, d)
         /\ ByMachine' <=> ByMachine
<1>1. \A m : InRange(m)' <=> InRange(m)
  BY RangeStays
<1>2. \A m, w : IsFor(m, w)' <=> IsFor(m, w)
  BY DEF IsFor, SameHost
<1>3. \A m, w : Sole(m, w)' <=> Sole(m, w)
  BY <1>1, <1>2 DEF Sole
<1>4. \A w, d : Chosen(w, d)' = Chosen(w, d)
  BY <1>3 DEF Chosen
<1>5. \A w, d : Exempt(w, d)' <=> Exempt(w, d)
  BY <1>3 DEF Exempt
<1>6. \A m, c : CellsFor(m, c)' <=> CellsFor(m, c)
  BY DEF CellsFor
<1> QED
  BY <1>1, <1>2, <1>4, <1>5, <1>6 DEF Want, ByMachine

LEMMA SameLabels ==
  ASSUME UNCHANGED <<source, flags, tags, on, before, labels>>
  PROVE  /\ \A m : ForSome(m)' <=> ForSome(m)
         /\ \A w : RelabelFromHostname(w)' = RelabelFromHostname(w)
<1>1. \A m : ForSome(m)' <=> ForSome(m)
  BY SameWorld DEF ForSome
<1>2. \A w : RelabelFromHostname(w)' = RelabelFromHostname(w)
  BY DEF RelabelFromHostname, Parsed, Replaced, SameFour
<1> QED
  BY <1>1, <1>2

LEMMA LabelledPrimed ==
  ASSUME UNCHANGED <<source, flags, tags, on, before>>, LabelledBy(labels')
  PROVE  LabelledBy(labels)'
BY SameWorld DEF LabelledBy

-----------------------------------------------------------------------------
(* The labels after each import. *)

LEMMA SoleIs ==
  ASSUME ByMachine, labels = before, NEW m \in on, NEW w \in DOMAIN before, Sole(m, w)
  PROVE  /\ InRange(m) /\ IsFor(m, w) /\ ForSome(m)
         /\ \A o \in on : InRange(o) /\ IsFor(o, w) => o = m
         /\ \A o \in DOMAIN labels : IsFor(m, o) => o = w
         /\ \A d \in Dims : Chosen(w, d) = tags[m][d]
<1>1. InRange(m) /\ IsFor(m, w) /\ \A o \in on : InRange(o) /\ IsFor(o, w) => o = m
  BY DEF Sole
<1>2. {k \in on : Sole(k, w)} = {m}
  BY <1>1 DEF Sole
<1>3. \A d \in Dims : Chosen(w, d) = tags[m][d]
  <2>1. source \notin {"subnet", "hostparse"}
    BY DEF ByMachine
  <2>2. \A d \in Dims : Chosen(w, d) = UNION {tags[k][d] : k \in {m}}
    BY <1>2, <2>1 DEF Chosen
  <2> QED
    BY <2>2
<1> QED
  BY <1>1, <1>3 DEF Sole, ForSome

LEMMA NoMachines ==
  ASSUME ByMachine, labels = before, \A m \in on : ~ForSome(m)
  PROVE  LabelledBy(labels)
<1>1. \A w \in DOMAIN before, m \in on : ~Sole(m, w)
  BY SoleIs
<1> QED
  BY <1>1 DEF LabelledBy, Exempt, ByMachine

LEMMA MachinesLabelled ==
  ASSUME Inv, pc = "write", ByMachine, MachineRows, Import(rows)
  PROVE  LabelledBy(labels')
<1>1. Loaded = labels /\ labels = before
  BY LoadedIs DEF Inv, Place, Over
<1>2. PICK last : Effect(rows, last)
  BY ImportEffect
<1>3. SUFFICES ASSUME NEW w \in DOMAIN before, NEW d \in Dims, NEW m \in on, Sole(m, w)
               PROVE  labels'[w][d] \in Want(w, d)
  BY DEF LabelledBy, Exempt, ByMachine
<1>4. /\ InRange(m) /\ IsFor(m, w) /\ ForSome(m)
      /\ \A o \in on : InRange(o) /\ IsFor(o, w) => o = m
      /\ \A o \in DOMAIN labels : IsFor(m, o) => o = w
      /\ Chosen(w, d) = tags[m][d]
  BY <1>1, <1>3, SoleIs
<1>5. PICK r \in rows : r.from = m /\ r.name \in DOMAIN labels
  BY <1>4 DEF MachineRows
<1>6. r.name = w
  BY <1>4, <1>5 DEF MachineRows
<1>7. w \in Hosts(rows) /\ w \in DOMAIN labels
  BY <1>1, <1>3, <1>5, <1>6 DEF Hosts, Matching
<1>8. last[w] \in rows /\ last[w].name = w
  BY <1>2, <1>7 DEF Effect
<1>9. CellsFor(m, last[w].cells)
  BY <1>4, <1>8 DEF MachineRows
<1>10. labels'[w] = Filled(labels[w], last[w].cells)
  BY <1>1, <1>2, <1>7 DEF Effect
<1>11. labels'[w][d] = IF last[w].cells[d] = None THEN before[w][d] ELSE last[w].cells[d]
  BY <1>1, <1>10 DEF Filled
<1>12. tags[m][d] \subseteq Values
  BY DEF Inv, Types, TypeOK
<1>13. None \notin tags[m][d]
  BY <1>12, LabellingAssumption
<1>14. IF tags[m][d] = {} THEN last[w].cells[d] = None ELSE last[w].cells[d] \in tags[m][d]
  BY <1>9 DEF CellsFor
<1> QED
  BY <1>4, <1>11, <1>13, <1>14 DEF Want

\* A workload has at most one row of subnet; its cell is chosen.
LEMMA ChosenOfNetwork ==
  ASSUME source = "subnet", NEW w \in Names, NEW d \in Dims
  PROVE  /\ NetworkRows(w) = {} => Chosen(w, d) = {}
         /\ \A r \in NetworkRows(w) : Chosen(w, d) = {r.cells[d]} \ {None}
<1>1. Chosen(w, d) = {r.cells[d] : r \in NetworkRows(w)} \ {None}
  BY DEF Chosen
<1>2. ASSUME NEW r \in NetworkRows(w)
      PROVE  Chosen(w, d) = {r.cells[d]} \ {None}
  <2>1. NetworkRows(w) = {r}
    BY NetworkRowsIs
  <2> QED
    BY <1>1, <2>1
<1> QED
  BY <1>1, <1>2

LEMMA NetworksLabelled ==
  ASSUME Inv, pc = "write", source = "subnet", NetRows, Import(rows)
  PROVE  LabelledBy(labels')
<1>1. Loaded = labels /\ labels = before
  BY LoadedIs DEF Inv, Place, Over
<1>2. PICK last : Effect(rows, last)
  BY ImportEffect
<1>3. SUFFICES ASSUME NEW w \in DOMAIN before, NEW d \in Dims
               PROVE  labels'[w][d] \in Want(w, d)
  BY DEF LabelledBy
<1>4. w \in Names /\ w \in DOMAIN labels
  BY <1>1, <1>3 DEF Inv, Types, LabelMap
<1>5. \A r \in rows : r.name \in DOMAIN labels /\ r \in NetworkRows(r.name)
  <2>1. ASSUME NEW r \in rows
        PROVE  r.name \in DOMAIN labels /\ r \in NetworkRows(r.name)
    <3>1. PICK v \in DOMAIN labels : r \in NetworkRows(v)
      BY DEF NetRows
    <3>2. r.name = v
      BY <3>1, NetworkRowsIs DEF Inv, Types, LabelMap
    <3> QED
      BY <3>1, <3>2
  <2> QED
    BY <2>1
<1>6. CASE NetworkRows(w) = {}
  <2>1. w \notin Hosts(rows)
    BY <1>5, <1>6 DEF Hosts, Matching, FreshRows
  <2>2. labels'[w] = labels[w]
    BY <1>2, <1>4, <2>1 DEF Effect
  <2> QED
    BY <1>1, <1>4, <1>6, <2>2, ChosenOfNetwork DEF Want
<1>7. CASE NetworkRows(w) # {}
  <2>1. PICK r : r \in NetworkRows(w)
    BY <1>7
  <2>2. r \in rows /\ r.name = w
    BY <1>4, <2>1, NetworkRowsIs DEF NetRows
  <2>3. w \in Hosts(rows)
    BY <1>1, <1>4, <2>2 DEF Hosts, Matching
  <2>4. last[w] \in rows /\ last[w].name = w
    BY <1>2, <2>3 DEF Effect
  <2>5. last[w] \in NetworkRows(w)
    BY <1>5, <2>4
  <2>6. labels'[w] = Filled(labels[w], last[w].cells)
    BY <1>1, <1>2, <1>4, <2>3 DEF Effect
  <2>7. labels'[w][d] = IF last[w].cells[d] = None THEN before[w][d] ELSE last[w].cells[d]
    BY <1>1, <2>6 DEF Filled
  <2>8. Chosen(w, d) = {last[w].cells[d]} \ {None}
    BY <1>4, <2>5, ChosenOfNetwork
  <2> QED
    BY <2>7, <2>8 DEF Want
<1> QED
  BY <1>6, <1>7

LEMMA NoNetworks ==
  ASSUME Inv, source = "subnet", labels = before, \A w \in DOMAIN labels : NetworkRows(w) = {}
  PROVE  LabelledBy(labels)
<1>1. \A w \in DOMAIN before, d \in Dims : Chosen(w, d) = {}
  BY ChosenOfNetwork DEF Inv, Types, LabelMap
<1> QED
  BY <1>1 DEF LabelledBy, Want

\* The expressions that match a hostname; the first of them counts, if the
\* workload is parsed at all.
Hits(w) == {i \in DOMAIN HostRules : w \in HostRules[i].hosts}

LEMMA ChosenOfHost ==
  ASSUME source = "hostparse", labels = before, NEW w, NEW d
  PROVE  /\ Hits(w) = {} \/ ~Parsed(w) => Chosen(w, d) = {}
         /\ Hits(w) # {} /\ Parsed(w) =>
              Chosen(w, d) = {HostRules[First(Hits(w))].cells[d]} \ {None}
<1> DEFINE I == {i \in DOMAIN HostRules :
                  /\ w \in HostRules[i].hosts /\ (HostFile # {} => w \in HostFile)
                  /\ \A j \in 1..(i - 1) : w \notin HostRules[j].hosts
                  /\ flags.all \/ \A e \in HostDims : before[w][e] = None}
<1>1. Chosen(w, d) = {HostRules[i].cells[d] : i \in I} \ {None}
  BY DEF Chosen
<1>2. CASE Hits(w) = {} \/ ~Parsed(w)
  <2>1. I = {}
    BY <1>2 DEF Hits, Parsed
  <2> QED
    BY <1>1, <1>2, <2>1
<1>3. CASE Hits(w) # {} /\ Parsed(w)
  <2>1. HostRules \in Seq([hosts : SUBSET Names, cells : Cells]) /\ Hits(w) \subseteq DOMAIN HostRules
    BY LabellingAssumption DEF Hits
  <2>2. /\ First(Hits(w)) \in DOMAIN HostRules /\ First(Hits(w)) \in Hits(w)
        /\ \A j \in Hits(w) : First(Hits(w)) <= j
        /\ \A j \in 1..(First(Hits(w)) - 1) : j \notin Hits(w)
        /\ DOMAIN HostRules = 1..Len(HostRules)
    BY <1>3, <2>1, FirstOfSeq
  <2>3. Len(HostRules) \in Nat
    BY <2>1
  <2>4. ASSUME NEW i \in I
        PROVE  i = First(Hits(w))
    <3>1. i \in Hits(w) /\ \A j \in 1..(i - 1) : j \notin Hits(w)
      BY DEF Hits
    <3>2. First(Hits(w)) \in 1..Len(HostRules) /\ i \in 1..Len(HostRules) /\ First(Hits(w)) <= i
      BY <2>2, <3>1
    <3> HIDE DEF I
    <3>3. First(Hits(w)) \notin 1..(i - 1)
      BY <2>2, <3>1
    <3> QED
      BY <2>3, <3>2, <3>3
  <2>5. First(Hits(w)) \in I
    <3>1. \A j \in 1..(First(Hits(w)) - 1) : w \notin HostRules[j].hosts
      <4>1. \A j \in 1..(First(Hits(w)) - 1) : j \in 1..Len(HostRules)
        BY <2>2, <2>3
      <4> QED
        BY <2>2, <4>1 DEF Hits
    <3> QED
      BY <1>3, <2>2, <3>1 DEF Parsed, Hits
  <2>6. I = {First(Hits(w))}
    <3> HIDE DEF I
    <3> QED
      BY <2>4, <2>5
  <2> HIDE DEF I
  <2> QED
    BY <1>1, <1>3, <2>6
<1> QED
  BY <1>2, <1>3

\* What hostparse makes of the labels of a workload is what is asked for.
LEMMA HostRight ==
  ASSUME Inv, source = "hostparse", labels = before, NEW w \in DOMAIN labels, NEW d \in HostDims
  PROVE  /\ RelabelFromHostname(w) = {} => labels[w][d] \in Want(w, d)
         /\ \A r \in RelabelFromHostname(w) : r.cells[d] \in Want(w, d)
<1>1. CASE Hits(w) = {} \/ ~Parsed(w)
  <2>1. RelabelFromHostname(w) = {}
    BY <1>1 DEF RelabelFromHostname, Hits
  <2> QED
    BY <1>1, <2>1, ChosenOfHost DEF Want
<1>2. CASE Hits(w) # {} /\ Parsed(w)
  <2> DEFINE rule == HostRules[First(Hits(w))].cells
             cells == Replaced(w, rule)
  <2>1. RelabelFromHostname(w) =
          IF SameFour(cells, labels[w]) THEN {}
          ELSE {[from |-> NoMachine, name |-> w, cells |-> cells]}
    BY <1>2 DEF RelabelFromHostname, Hits
  <2>2. Chosen(w, d) = {rule[d]} \ {None}
    BY <1>2, ChosenOfHost
  <2>3. cells[d] = IF rule[d] = None THEN labels[w][d] ELSE rule[d]
    BY LabellingAssumption DEF Replaced
  <2> HIDE DEF rule, cells
  <2>4. cells[d] \in Want(w, d)
    BY <2>2, <2>3 DEF Want
  <2>5. RelabelFromHostname(w) = {} => labels[w][d] = cells[d]
    BY <2>1 DEF SameFour
  <2>6. \A r \in RelabelFromHostname(w) : r.cells = cells
    BY <2>1
  <2> QED
    BY <2>4, <2>5, <2>6
<1> QED
  BY <1>1, <1>2

LEMMA HostsLabelled ==
  ASSUME Inv, source = "hostparse", labels = before, ParsedRows, CellsOf(rows) \subseteq values,
         NEW done, done = {r \in rows : CellsOf({r}) \subseteq values},
         labels' = [w \in DOMAIN labels |->
           IF \E r \in done : r.name = w THEN (CHOOSE r \in done : r.name = w).cells
           ELSE labels[w]]
  PROVE  LabelledBy(labels')
<1>1. done = rows
  BY DEF CellsOf
<1>2. SUFFICES ASSUME NEW w \in DOMAIN before, NEW d \in HostDims
               PROVE  labels'[w][d] \in Want(w, d)
  BY DEF LabelledBy, Exempt
<1>3. \A r \in rows : r.name \in DOMAIN labels /\ r \in RelabelFromHostname(r.name)
  <2>1. ASSUME NEW r \in rows
        PROVE  r.name \in DOMAIN labels /\ r \in RelabelFromHostname(r.name)
    <3>1. PICK v \in DOMAIN labels : r \in RelabelFromHostname(v)
      BY DEF ParsedRows
    <3>2. r.name = v
      BY <3>1, HostRowsIs
    <3> QED
      BY <3>1, <3>2
  <2> QED
    BY <2>1
<1>4. CASE \E r \in done : r.name = w
  <2>1. PICK r \in done : r = (CHOOSE q \in done : q.name = w) /\ r.name = w
    BY <1>4
  <2>2. labels'[w] = r.cells
    BY <1>2, <1>4, <2>1
  <2>3. r \in RelabelFromHostname(w)
    BY <1>1, <1>3, <2>1
  <2> QED
    BY <1>2, <2>2, <2>3, HostRight
<1>5. CASE ~ \E r \in done : r.name = w
  <2>1. labels'[w] = labels[w]
    BY <1>2, <1>5
  <2>2. RelabelFromHostname(w) = {}
    <3>1. ASSUME NEW r \in RelabelFromHostname(w) PROVE FALSE
      <4>1. r.name = w /\ r \in rows
        BY <1>2, <3>1, HostRowsIs DEF ParsedRows
      <4> QED
        BY <1>1, <1>5, <4>1
    <3> QED
      BY <3>1
  <2> QED
    BY <1>2, <2>1, <2>2, HostRight
<1> QED
  BY <1>4, <1>5

LEMMA NoHosts ==
  ASSUME Inv, source = "hostparse", labels = before,
         \A w \in DOMAIN labels : RelabelFromHostname(w) = {}
  PROVE  LabelledBy(labels)
BY HostRight DEF LabelledBy, Exempt

-----------------------------------------------------------------------------
(* Step by step. *)

World == <<source, flags, tags, on, labels, before>>

LEMMA UndisturbedInit == Init => Undisturbed
<1> SUFFICES ASSUME Init PROVE Undisturbed
  OBVIOUS
<1>1. pc = "begin"
  BY DEF Init
<1> QED
  BY <1>1 DEF Undisturbed

\* A finished command of which nothing was asked has changed nothing.
LEMMA NotAgreed ==
  ASSUME pc' = "ended", ~Consent'
  PROVE  Undisturbed'
BY DEF Undisturbed

LEMMA FinishedRight ==
  ASSUME UNCHANGED <<source, flags, tags, on, before>>, pc' = "ended", LabelledBy(labels')
  PROVE  Undisturbed'
BY LabelledPrimed DEF Undisturbed

LEMMA NotFailed ==
  ASSUME alone'
  PROVE  ~Fault /\ ~LostAnswer
BY DEF Fault, LostAnswer

LEMMA WalkUndisturbed ==
  ASSUME Theirs, Undisturbed, alone, alone', UNCHANGED World, source = "vmsync", ~flags.umwl,
         Inv, Load \/ FindFolders \/ WalkFolders
  PROVE  Undisturbed'
<1> USE DEF At, Goes, World
<1>1. pc' \in {"find", "walk", "list"}
  BY DEF Load, FindFolders, WalkFolders, ToSearch, ToWalk
<1>2. CASE Load
  <2>1. known' = labels' /\ pc' \in {"find", "list"} /\ (pc' = "list" => flags.roots = {})
    BY <1>2 DEF Load, ToSearch
  <2>2. folders = {} /\ frontier = {} /\ UNCHANGED <<folders, frontier>>
    BY <1>2 DEF Load, Inv, Place
  <2>3. pc' = "list" => Walked'
    BY <2>1, <2>2 DEF Walked
  <2> QED
    BY <2>1, <2>2, <2>3 DEF Undisturbed, ByMachine
<1>3. CASE FindFolders
  <2>1. /\ pc = "find" /\ pc' = IF flags.subfolders THEN "walk" ELSE "list"
        /\ known' = known /\ frontier' = flags.roots /\ folders' = flags.roots
    BY <1>3 DEF FindFolders, ToWalk
  <2>2. known = labels
    BY <2>1 DEF Undisturbed
  <2>3. Walked'
    BY <2>1, <2>2 DEF Walked
  <2> QED
    BY <2>1, <2>3 DEF Undisturbed, ByMachine
<1>4. CASE WalkFolders
  <2>1. /\ pc = "walk" /\ known' = known /\ folders' = folders \cup frontier'
        /\ frontier' = Subfolders /\ pc' = IF frontier' = {} THEN "list" ELSE "walk"
    BY <1>4, NotFailed DEF WalkFolders, Gathered
  <2>2. Walked
    BY <2>1 DEF Undisturbed
  <2>3. flags.subfolders /\ frontier' = UNION {Children[f] : f \in frontier}
    BY <2>1 DEF Theirs, Sure, Subfolders
  <2>4. \A f \in folders' : f \in frontier' \/ Children[f] \subseteq folders'
    BY <2>1, <2>2, <2>3 DEF Walked
  <2>5. Walked'
    BY <2>1, <2>2, <2>3, <2>4 DEF Walked
  <2> QED
    BY <2>1, <2>5 DEF Undisturbed, ByMachine
<1> QED
  BY <1>2, <1>3, <1>4

\* When the walk is over the folders are those of the command and below.
LEMMA AllFolders ==
  ASSUME Inv, Theirs, alone, Walked, source = "vmsync", flags.subfolders => frontier = {}, NEW m
  PROVE  InFolders(m) <=> InRange(m)
<1>1. flags.roots \subseteq Folders /\ flags.subfolders \in BOOLEAN
  BY FlagTypes DEF Inv, Types, TypeOK, SessionTypeOK
<1>2. folders \subseteq Reach /\ folders \subseteq Folders
  BY DEF Theirs, Sure, Inv, Types, TypeOK
<1>3. CASE flags.subfolders
  <2>1. WithSubfolders(folders)
    BY <1>3 DEF Walked, WithSubfolders
  <2>2. Reach = folders
    BY <1>1, <1>2, <1>3, <2>1, BelowIs DEF Reach
  <2>3. flags.roots = {} => folders = {}
    <3>1. flags.roots = {} => WithSubfolders({})
      BY DEF WithSubfolders
    <3>2. flags.roots = {} => Below \subseteq {}
      BY <1>1, <3>1, BelowIs
    <3> QED
      BY <1>3, <2>2, <3>2 DEF Reach
  <2>4. folders = {} => flags.roots = {}
    BY DEF Walked
  <2> QED
    BY <1>3, <2>2, <2>3, <2>4 DEF InFolders, InRange, Reach
<1>4. CASE ~flags.subfolders
  BY <1>4 DEF Walked, InFolders, InRange
<1> QED
  BY <1>3, <1>4

LEMMA ListUndisturbed ==
  ASSUME Inv, Theirs, Undisturbed, alone, alone', UNCHANGED World, source = "vmsync", ~flags.umwl,
         ListVMs
  PROVE  Undisturbed'
<1> USE DEF At, Goes
<1>1. /\ pc = "list" /\ known' = known
      /\ DOMAIN named' = {m \in on : InFolders(m)}
      /\ pc' = IF {m \in on : InFolders(m)} = {} THEN "ended" ELSE "identify"
  BY DEF ListVMs
<1>2. Walked /\ (flags.subfolders => frontier = {}) /\ labels = before
  BY <1>1 DEF Undisturbed, Inv, Place, Over
<1>3. DOMAIN named' = {m \in on : InRange(m)}
  BY <1>1, <1>2, AllFolders
<1>4. CASE pc' = "ended"
  <2>1. \A m \in on : ~ForSome(m)
    BY <1>1, <1>3, <1>4 DEF ForSome
  <2>2. LabelledBy(labels')
    BY <1>2, <2>1, NoMachines DEF ByMachine, World
  <2> QED
    BY <1>4, <2>2, FinishedRight DEF World
<1>5. CASE pc' = "identify"
  <2>1. Listed'
    BY <1>1, <1>2, <1>3, SameWorld DEF Listed, Walked, World
  <2> QED
    BY <1>5, <2>1 DEF Undisturbed
<1> QED
  BY <1>1, <1>4, <1>5

\* When everything answers the VMs of the folders that some workload is for stay.
LEMMA IdentifyUndisturbed ==
  ASSUME Inv, Undisturbed, alone, alone', UNCHANGED World, source = "vmsync", ~flags.umwl,
         Identify
  PROVE  Undisturbed'
<1>1. pc = "identify" /\ pc' = "tags"
  BY DEF Identify, At, Goes
<1>2. Listed
  BY <1>1 DEF Undisturbed
<1>3. PICK silent \in SUBSET {m \in DOMAIN named : GuestName[m] # None} :
        LET tools(m) == GuestName[m] # None /\ m \notin silent
            name(m) == IF tools(m) /\ ~flags.vmName THEN GuestName[m] ELSE VmName[m]
            names == [m \in DOMAIN named |-> Interesting(m, name(m), tools(m))]
            kept == {m \in DOMAIN named : names[m] # {}} IN
          /\ IF silent = {} THEN Silent ELSE Fault
          /\ \E f \in [kept -> Names] : (\A m \in kept : f[m] \in names[m]) /\ named' = f
  BY DEF Identify
<1>4. silent = {}
  BY <1>3, NotFailed
<1> DEFINE tools(m) == GuestName[m] # None /\ m \notin silent
           name(m) == IF tools(m) /\ ~flags.vmName THEN GuestName[m] ELSE VmName[m]
           names == [m \in DOMAIN named |-> Interesting(m, name(m), tools(m))]
           kept == {m \in DOMAIN named : names[m] # {}}
<1>5. PICK f \in [kept -> Names] : (\A m \in kept : f[m] \in names[m]) /\ named' = f
  BY <1>3
<1>6. \A m, n, t : Interesting(m, n, t) = {w \in DOMAIN labels : Matches(n, w)}
  BY <1>2 DEF Interesting, Listed
<1>7. \A m \in DOMAIN named : \A w : Matches(name(m), w) <=> IsFor(m, w)
  BY <1>4 DEF Matches, IsFor, SameHost, CloudName
<1>8. \A m \in DOMAIN named : names[m] = {w \in DOMAIN labels : IsFor(m, w)}
  BY <1>6, <1>7
<1>9. kept = {m \in on : ForSome(m)}
  BY <1>2, <1>8 DEF Listed, ForSome
<1>10. \A m \in kept : named'[m] \in {w \in DOMAIN labels : IsFor(m, w)}
  BY <1>5, <1>8
<1>11. DOMAIN named' = kept
  BY <1>5
<1> HIDE DEF kept, names, name, tools
<1>12. Identified'
  BY <1>9, <1>10, <1>11, SameWorld, SameLabels DEF Identified, World
<1> QED
  BY <1>1, <1>12 DEF Undisturbed

LEMMA AskUndisturbed ==
  ASSUME Inv, Undisturbed, alone, alone', UNCHANGED World, source = "vmsync", ~flags.umwl,
         GetTagMap \/ AskTags
  PROVE  Undisturbed'
<1> USE DEF At, Goes
<1>1. pc \in {"tags", "ask"} /\ pc' = "ask" /\ named' = named
  BY DEF GetTagMap, AskTags
<1>2. Identified
  BY <1>1 DEF Undisturbed
<1>3. Identified'
  BY <1>1, <1>2, SameWorld, SameLabels DEF Identified, World
<1>4. CASE GetTagMap
  <2>1. /\ tagMap' = {dv \in Dims \X Values : \E m \in Machines : dv[2] \in tags[m][dv[1]]}
        /\ fetched' = NoFunction
    BY <1>4, NotFailed DEF GetTagMap, Inv, Place
  <2>2. Asked'
    BY <2>1, NoFunctionIs DEF Asked, World
  <2> QED
    BY <1>1, <1>3, <2>2 DEF Undisturbed
<1>5. CASE AskTags
  <2>1. pc = "ask" /\ tagMap' = tagMap
    BY <1>5 DEF AskTags
  <2>2. Asked
    BY <2>1 DEF Undisturbed
  <2>3. PICK S \in Requested :
          fetched' \in {f \in [S -> Cells] : \A m \in S : f[m] \in LabelsOf(m)}
    BY <1>5 DEF AskTags
  <2>4. S \subseteq Machines
    BY DEF Requested, Inv, Types, TypeOK
  <2>5. ASSUME NEW m \in S
        PROVE  CellsFor(m, fetched'[m])
    <3>1. fetched'[m] \in LabelsOf(m)
      BY <2>3
    <3>2. ASSUME NEW d \in Dims
          PROVE  {v \in tags[m][d] : <<d, v>> \in tagMap} = tags[m][d]
      <4>1. tags[m][d] \subseteq Values
        BY <2>4 DEF Inv, Types
      <4> QED
        BY <2>2, <2>4, <4>1 DEF Asked
    <3> QED
      BY <3>1, <3>2 DEF LabelsOf, CellsFor
  <2>6. DOMAIN fetched' = S
    BY <2>3
  <2>7. Asked'
    BY <2>1, <2>2, <2>5, <2>6, SameWorld DEF Asked, World
  <2> QED
    BY <1>1, <1>3, <2>7 DEF Undisturbed
<1> QED
  BY <1>4, <1>5

LEMMA BuildUndisturbed ==
  ASSUME Inv, Undisturbed, alone, alone', UNCHANGED World, source = "vmsync", ~flags.umwl,
         BuildRows
  PROVE  Undisturbed'
<1> USE DEF At, Goes
<1> DEFINE Row(m) == [from |-> m, name |-> named[m],
                      cells |-> IF m \in DOMAIN fetched THEN fetched[m] ELSE [d \in Dims |-> None]]
<1>1. /\ pc = "ask" /\ DOMAIN fetched = DOMAIN named /\ rows' = {Row(m) : m \in DOMAIN named}
      /\ pc' = IF rows' = {} THEN "ended" ELSE "decide"
  BY DEF BuildRows, AllAsked
<1>2. Identified /\ Asked /\ labels = before
  BY <1>1 DEF Undisturbed, Inv, Place, Over
<1>3. \A m \in DOMAIN named : Row(m).from = m /\ Row(m).name = named[m] /\ Row(m).cells = fetched[m]
  BY <1>1
<1> HIDE DEF Row
<1>4. CASE pc' = "ended"
  <2>1. \A m \in on : ~ForSome(m)
    BY <1>1, <1>2, <1>4 DEF Identified
  <2>2. LabelledBy(labels')
    BY <1>2, <2>1, NoMachines DEF ByMachine, World
  <2> QED
    BY <1>4, <2>2, FinishedRight DEF World
<1>5. CASE pc' = "decide"
  <2>1. ASSUME NEW r \in rows'
        PROVE  /\ r.from \in on /\ InRange(r.from) /\ IsFor(r.from, r.name)
               /\ CellsFor(r.from, r.cells)
    <3>1. PICK m \in DOMAIN named : r = Row(m)
      BY <1>1
    <3>2. r.from = m /\ r.name = named[m] /\ r.cells = fetched[m]
      BY <1>3, <3>1
    <3> QED
      BY <1>1, <1>2, <3>2 DEF Identified, Asked, ForSome
  <2>2. ASSUME NEW m \in on, ForSome(m)
        PROVE  \E r \in rows' : r.from = m /\ r.name \in DOMAIN labels
    <3>1. m \in DOMAIN named
      BY <1>2, <2>2 DEF Identified
    <3>2. Row(m) \in rows' /\ Row(m).from = m /\ Row(m).name \in DOMAIN labels
      BY <1>1, <1>2, <1>3, <3>1 DEF Identified
    <3> QED
      BY <3>2
  <2>3. MachineRows'
    BY <2>1, <2>2, SameWorld, SameLabels DEF MachineRows, World
  <2> QED
    BY <1>5, <2>3 DEF Undisturbed, World
<1> QED
  BY <1>1, <1>4, <1>5

LEMMA DescribeUndisturbed ==
  ASSUME Inv, Undisturbed, alone, alone', UNCHANGED World, Describe
  PROVE  Undisturbed'
<1> USE DEF At, Goes
<1>1. PICK f \in {f \in [on -> Cells] : \A m \in on : \A d \in Dims :
                   IF tags[m][d] = {} THEN f[m][d] = None ELSE f[m][d] \in tags[m][d]} :
        rows' = {[from |-> m, name |-> CloudName(m), cells |-> f[m]] : m \in on}
  BY DEF Describe
<1>2. /\ source = "cloud" /\ pc = "begin" /\ pc' = IF rows' = {} THEN "ended" ELSE "decide"
  BY DEF Describe
<1>3. labels = before /\ on \subseteq Machines
  BY <1>2 DEF Inv, Place, Over, Types, TypeOK
<1>4. CASE pc' = "ended"
  <2>1. on = {}
    BY <1>1, <1>2, <1>4
  <2>2. LabelledBy(labels')
    BY <1>2, <1>3, <2>1, NoMachines DEF ByMachine, World
  <2> QED
    BY <1>4, <2>2, FinishedRight DEF World
<1>5. CASE pc' = "decide"
  <2>1. \A m \in on : CellsFor(m, f[m])
    BY <1>1 DEF CellsFor
  <2>2. ASSUME NEW r \in rows'
        PROVE  /\ r.from \in on /\ InRange(r.from) /\ IsFor(r.from, r.name)
               /\ CellsFor(r.from, r.cells)
    <3>1. PICK m \in on : r = [from |-> m, name |-> CloudName(m), cells |-> f[m]]
      BY <1>1
    <3>2. r.from = m /\ r.name = CloudName(m) /\ r.cells = f[m]
      BY <3>1
    <3> QED
      BY <1>2, <2>1, <3>2 DEF InRange, IsFor
  <2>3. ASSUME NEW m \in on, ForSome(m)
        PROVE  \E r \in rows' : r.from = m /\ r.name \in DOMAIN labels
    <3>1. CloudName(m) \in DOMAIN labels
      BY <1>2, <2>3 DEF ForSome, IsFor
    <3> DEFINE r == [from |-> m, name |-> CloudName(m), cells |-> f[m]]
    <3>2. r \in rows' /\ r.from = m /\ r.name = CloudName(m)
      BY <1>1
    <3> QED
      BY <3>1, <3>2
  <2>4. MachineRows'
    BY <2>2, <2>3, SameWorld, SameLabels DEF MachineRows, World
  <2> QED
    BY <1>2, <1>5, <2>4 DEF Undisturbed, World
<1> QED
  BY <1>2, <1>4, <1>5

LEMMA FindUndisturbed ==
  ASSUME Inv, Undisturbed, alone, alone', UNCHANGED World, FindNetworks
  PROVE  Undisturbed'
<1> USE DEF At, Goes
<1>1. /\ source = "subnet" /\ pc = "begin" /\ pc' = IF rows' = {} THEN "ended" ELSE "decide"
      /\ rows' = UNION {NetworkRows(w) : w \in DOMAIN labels}
  BY DEF FindNetworks
<1>2. labels = before
  BY <1>1 DEF Inv, Place, Over
<1>3. CASE pc' = "ended"
  <2>1. \A w \in DOMAIN labels : NetworkRows(w) = {}
    BY <1>1, <1>3
  <2>2. LabelledBy(labels')
    BY <1>1, <1>2, <2>1, NoNetworks DEF World
  <2> QED
    BY <1>3, <2>2, FinishedRight DEF World
<1>4. CASE pc' = "decide"
  <2>1. NetRows'
    BY <1>1 DEF NetRows, World
  <2> QED
    BY <1>1, <1>4, <2>1 DEF Undisturbed, World, ByMachine
<1> QED
  BY <1>1, <1>3, <1>4

LEMMA ParseUndisturbed ==
  ASSUME Inv, Undisturbed, alone, alone', UNCHANGED World, Parse
  PROVE  Undisturbed'
<1> USE DEF At, Goes
<1>1. /\ source = "hostparse" /\ pc = "begin" /\ values' = values
      /\ rows' = UNION {RelabelFromHostname(w) : w \in DOMAIN labels}
      /\ todo' = CellsOf(rows') \ values
      /\ pc' \in {"dead", "ended", "decide"} /\ (pc' = "ended" => rows' = {})
  BY DEF Parse, Reads
<1>2. labels = before
  BY <1>1 DEF Inv, Place, Over
<1>3. CASE pc' = "ended"
  <2>1. \A w \in DOMAIN labels : RelabelFromHostname(w) = {}
    BY <1>1, <1>3
  <2>2. LabelledBy(labels')
    BY <1>1, <1>2, <2>1, NoHosts DEF World
  <2> QED
    BY <1>3, <2>2, FinishedRight DEF World
<1>4. CASE pc' = "decide"
  <2>1. ParsedRows'
    BY <1>1, SameLabels DEF ParsedRows, World
  <2>2. CellsOf(rows)' \subseteq values' \cup todo'
    BY <1>1 DEF CellsOf
  <2> QED
    BY <1>1, <1>4, <2>1, <2>2 DEF Undisturbed, World, ByMachine
<1>5. CASE pc' = "dead"
  BY <1>5 DEF Undisturbed
<1> QED
  BY <1>1, <1>3, <1>4, <1>5

LEMMA DecideUndisturbed ==
  ASSUME Undisturbed, alone, alone', UNCHANGED World, Decision \/ HostDecision
  PROVE  Undisturbed'
<1> USE DEF At, Goes, Reads
<1>1. /\ pc = "decide" /\ rows' = rows /\ values' = values /\ todo' = todo
      /\ \/ pc' = "ended" /\ ~Consent'
         \/ pc' = "write" /\ source # "hostparse"
         \/ pc' = "create" /\ source = "hostparse"
  BY DEF Decision, HostDecision, NotAsked, Denied, Silent, session, Consent
<1>2. CASE pc' = "ended" /\ ~Consent'
  BY <1>2, NotAgreed
<1>3. CASE pc' = "write" /\ source # "hostparse"
  <2>1. ByMachine => MachineRows'
    BY <1>1, SameWorld, SameLabels DEF Undisturbed, MachineRows, World
  <2>2. source = "subnet" => NetRows'
    BY <1>1 DEF Undisturbed, NetRows, World
  <2> QED
    BY <1>3, <2>1, <2>2 DEF Undisturbed, World, ByMachine
<1>4. CASE pc' = "create" /\ source = "hostparse"
  <2>1. ParsedRows' /\ CellsOf(rows)' \subseteq values' \cup todo'
    BY <1>1, <1>4, SameLabels DEF Undisturbed, ParsedRows, World, CellsOf
  <2> QED
    BY <1>4, <2>1 DEF Undisturbed, World, ByMachine
<1> QED
  BY <1>1, <1>2, <1>3, <1>4

LEMMA WriteUndisturbed ==
  ASSUME Inv, Undisturbed, alone, alone', UNCHANGED <<source, flags, tags, on, before>>,
         Write \/ CreateLabel \/ BulkUpdate
  PROVE  Undisturbed'
<1> USE DEF At, Goes
<1>1. CASE Write
  <2>1. pc = "write" /\ source # "hostparse" /\ pc' = "ended" /\ Import(rows)
    BY <1>1 DEF Write
  <2>2. CASE ByMachine
    <3>1. LabelledBy(labels')
      BY <2>1, <2>2, MachinesLabelled DEF Undisturbed
    <3> QED
      BY <2>1, <3>1, FinishedRight
  <2>3. CASE source = "subnet"
    <3>1. LabelledBy(labels')
      BY <2>1, <2>3, NetworksLabelled DEF Undisturbed
    <3> QED
      BY <2>1, <3>1, FinishedRight
  <2>4. CASE source = "vmsync" /\ flags.umwl
    <3>1. LabelledBy(labels')
      BY <2>4 DEF LabelledBy, Exempt
    <3> QED
      BY <2>1, <3>1, FinishedRight
  <2>5. source \in {"vmsync", "cloud", "subnet", "hostparse"}
    BY LabellingAssumption DEF Inv, Types, TypeOK
  <2> QED
    BY <2>1, <2>2, <2>3, <2>4, <2>5 DEF ByMachine
<1>2. CASE CreateLabel
  <2>1. /\ pc = "create" /\ pc' = pc /\ rows' = rows /\ labels' = labels
        /\ values \cup todo \subseteq values' \cup todo'
    BY <1>2 DEF CreateLabel
  <2>2. source = "hostparse"
    BY <2>1 DEF Inv, Place
  <2>3. ParsedRows' /\ CellsOf(rows)' \subseteq values' \cup todo'
    BY <2>1, <2>2, SameLabels DEF Undisturbed, ParsedRows, CellsOf
  <2> QED
    BY <2>1, <2>2, <2>3 DEF Undisturbed, ByMachine
<1>3. CASE BulkUpdate
  <2>1. pc = "create" /\ pc' = "ended" /\ todo = {}
    BY <1>3 DEF BulkUpdate
  <2>2. source = "hostparse" /\ labels = before
    BY <2>1 DEF Inv, Place, Over
  <2>3. ParsedRows /\ CellsOf(rows) \subseteq values
    BY <2>1, <2>2 DEF Undisturbed
  <2> DEFINE done == {r \in rows : CellsOf({r}) \subseteq values}
  <2>4. labels' = [w \in DOMAIN labels |->
          IF \E r \in done : r.name = w THEN (CHOOSE r \in done : r.name = w).cells
          ELSE labels[w]]
    BY <1>3 DEF BulkUpdate
  <2>5. PICK D : D = done
    OBVIOUS
  <2>6. LabelledBy(labels')
    BY <2>2, <2>3, <2>4, <2>5, HostsLabelled
  <2> QED
    BY <2>1, <2>6, FinishedRight
<1> QED
  BY <1>1, <1>2, <1>3

LEMMA UndisturbedStep ==
  ASSUME Inv, Theirs, Undisturbed, [Next]_vars
  PROVE  Undisturbed'
<1> SUFFICES ASSUME alone' PROVE Undisturbed'
  BY DEF Undisturbed
<1>1. UNCHANGED <<source, flags>>
  BY FlagsStay
<1>2. ~Fault /\ ~LostAnswer
  BY NotFailed
<1> USE DEF Reads, history
<1>3. CASE Load \/ FindFolders \/ WalkFolders \/ ListVMs \/ Identify \/ GetTagMap \/ AskTags \/ BuildRows
  <2>1. alone /\ UNCHANGED World /\ source = "vmsync"
    BY <1>1, <1>2, <1>3 DEF Load, FindFolders, WalkFolders, ListVMs, Identify, GetTagMap, AskTags, BuildRows, At,
                     World, Silent, session, Inv, Place
  <2>2. pc' \in {"find", "walk", "list", "identify", "tags", "ask", "decide", "ended"}
    BY <1>3 DEF ToSearch, ToWalk, Load, FindFolders, WalkFolders, ListVMs, Identify, GetTagMap, AskTags, BuildRows, At, Goes
  <2>3. CASE ~flags.umwl
    BY <1>3, <2>1, <2>3, WalkUndisturbed, ListUndisturbed, IdentifyUndisturbed, AskUndisturbed,
       BuildUndisturbed
  <2>4. CASE flags.umwl
    <3>1. LabelledBy(labels')
      BY <2>1, <2>4 DEF LabelledBy, Exempt
    <3>2. LabelledBy(labels)'
      BY <2>1, <3>1, LabelledPrimed DEF World
    <3> QED
      BY <1>1, <2>1, <2>4, <3>2 DEF Undisturbed, ByMachine
  <2> QED
    BY <2>3, <2>4
<1>4. CASE Describe \/ FindNetworks \/ Parse \/ Decision \/ HostDecision
  <2>1. alone /\ UNCHANGED World
    BY <1>1, <1>4 DEF Describe, FindNetworks, Parse, Decision, HostDecision, At,
                     World, Silent, session, NotAsked, Denied, Approved
  <2> QED
    BY <1>4, <2>1, DescribeUndisturbed, FindUndisturbed, ParseUndisturbed, DecideUndisturbed
<1>5. CASE Write \/ CreateLabel \/ BulkUpdate
  <2>1. alone /\ UNCHANGED <<source, flags, tags, on, before>>
    BY <1>1, <1>2, <1>5 DEF Write, CreateLabel, BulkUpdate, At, Works
  <2> QED
    BY <1>5, <2>1, WriteUndisturbed
<1>6. CASE NewCommand
  BY <1>6 DEF NewCommand, Undisturbed
<1>7. CASE UNCHANGED vars
  <2>1. UNCHANGED <<alone, answer, World, command, values>>
    BY <1>7 DEF vars, session, World, outside
  <2>2. pc = "ended" /\ Consent => LabelledBy(labels)'
    BY <2>1, SameWorld DEF Undisturbed, LabelledBy, World
  <2>3. (\A m : ForSome(m)' <=> ForSome(m)) /\ \A w : RelabelFromHostname(w)' = RelabelFromHostname(w)
    BY <2>1, SameLabels DEF World
  <2>4. Walked' <=> Walked
    BY <2>1 DEF Walked, command, World
  <2>5. Listed' <=> Listed
    BY <2>1, SameWorld DEF Listed, command, World
  <2>6. Identified' <=> Identified
    BY <2>1, <2>3, SameWorld DEF Identified, command, World
  <2>7. Asked' <=> Asked
    BY <2>1, SameWorld DEF Asked, command, World
  <2>8. MachineRows' <=> MachineRows
    BY <2>1, <2>3, SameWorld DEF MachineRows, command, World
  <2>9. (NetRows' <=> NetRows) /\ (ParsedRows' <=> ParsedRows)
    BY <2>1, <2>3 DEF NetRows, ParsedRows, command, World
  <2>10. CellsOf(rows)' = CellsOf(rows) /\ (Consent' <=> Consent) /\ (ByMachine' <=> ByMachine)
    BY <2>1 DEF CellsOf, Consent, ByMachine, command, World
  <2>11. UNCHANGED <<alone, source, flags, pc, labels, known, frontier, values, todo>>
    BY <2>1 DEF World, command
  <2> QED
    BY <2>2, <2>4, <2>5, <2>6, <2>7, <2>8, <2>9, <2>10, <2>11 DEF Undisturbed
<1>8. CASE \/ LoadFails \/ NoFolders \/ ListFails \/ AskFails \/ DescribeFails \/ FindFails \/ WriteFails
           \/ ParseFails \/ CreateFails \/ BulkFails \/ Crash \/ Retag \/ Switch
  BY <1>2, <1>8 DEF LoadFails, NoFolders, ListFails, AskFails, DescribeFails, FindFails, WriteFails, ParseFails,
                    CreateFails, BulkFails, Crash, Retag, Switch
<1> QED
  BY <1>3, <1>4, <1>5, <1>6, <1>7, <1>8 DEF Next

\* When nothing failed and the operator agreed, every workload that one VM
\* stands for has the labels of its tags, every workload in a network those of
\* the network and every workload whose hostname matches those of the first
\* expression; where no label is asked for it has the one it had (vcenter.go,
\* subnet.go, hostparse.go and the labels of the clouds).
THEOREM LabelsFollow == Spec => []Labelled
<1>1. Undisturbed => Labelled
  BY DEF Undisturbed, Labelled, LabelledBy, Exempt, Want, Settled
<1>2. Inv /\ Theirs /\ Undisturbed /\ [Next]_vars => (Inv /\ Theirs /\ Undisturbed)'
  BY InvStep, TheirsStep, UndisturbedStep
<1> QED
  BY InvInit, TheirsInit, UndisturbedInit, <1>1, <1>2, PTL DEF Spec
-----------------------------------------------------------------------------
(* The consent gate *)

Reading == {"begin", "find", "walk", "list", "identify", "tags", "ask", "decide"}

\* What makes the gate inductive: until the decision nothing is asked or
\* written, and the steps that write follow an answer.
GateInv ==
  /\ flags \in FlagSets /\ source \in Sources
  /\ pc \in Reading => answer = "unasked" /\ wrote = FALSE
  /\ pc \in {"write", "create"} => Consent

LEMMA GateStep ==
  ASSUME "hostparse" \notin Sources, GateInv, [Next]_vars
  PROVE  GateInv' /\ [Gate!Next]_Gate!vars
<1> USE DEF GateInv, Consent, Reading, At, Goes, Silent, session, Gate!vars
<1>1. CASE Load \/ FindFolders \/ WalkFolders \/ ListVMs \/ Identify \/ GetTagMap
  <2>1. UNCHANGED <<source, flags, answer, wrote>>
    <3>1. CASE Load \/ FindFolders \/ WalkFolders \/ ListVMs \/ GetTagMap
      BY <3>1 DEF Load, FindFolders, WalkFolders, ListVMs, GetTagMap, Fault
    <3>2. CASE Identify
      <4>1. Silent \/ Fault
        BY <3>2 DEF Identify
      <4> QED
        BY <3>2, <4>1 DEF Identify, Fault
    <3> QED
      BY <1>1, <3>1, <3>2
  <2>2. pc \in {"begin", "find", "walk", "list", "identify", "tags"} /\ pc' \in Reading \cup {"ended"}
    BY <1>1 DEF ToSearch, ToWalk, Load, FindFolders, WalkFolders, ListVMs, Identify, GetTagMap
  <2> QED
    BY <2>1, <2>2
<1>2. CASE AskTags \/ BuildRows \/ Describe \/ FindNetworks \/ Parse
  <2>1. /\ pc \in {"begin", "ask"} /\ pc' \in {"ask", "decide", "ended", "dead"}
        /\ UNCHANGED <<source, flags, answer, wrote>>
    BY <1>2 DEF AskTags, BuildRows, Describe, FindNetworks, Parse
  <2> QED
    BY <2>1
<1>3. CASE \/ LoadFails \/ NoFolders \/ ListFails \/ AskFails \/ DescribeFails \/ FindFails
           \/ ParseFails \/ CreateFails \/ BulkFails \/ Crash
  <2>1. /\ \/ pc' \in {pc, "ended", "dead"}
           \/ pc \in {"begin", "find"} /\ pc' \in {"find", "walk", "list"}
        /\ UNCHANGED <<source, flags, answer, wrote>>
    BY <1>3 DEF LoadFails, NoFolders, ListFails, AskFails, DescribeFails, FindFails,
                ParseFails, CreateFails, BulkFails, Crash, Fault, LogError, ToSearch, ToWalk
  <2> QED
    BY <2>1
<1>4. CASE Decision
  BY <1>4 DEF Decision, NotAsked, Denied, Approved, Gate!Next, Gate!Ask
<1>5. CASE Write \/ WriteFails \/ CreateLabel \/ BulkUpdate
  <2>1. /\ pc \in {"write", "create"} /\ pc' \in {pc, "ended", "dead"}
        /\ wrote' = TRUE \/ wrote' = wrote
        /\ UNCHANGED <<source, flags, answer>>
    BY <1>5 DEF Write, WriteFails, CreateLabel, BulkUpdate, Works, LostAnswer, LogError
  <2> QED
    BY <2>1 DEF Gate!Next, Gate!Write, Gate!Consent
<1>6. CASE HostDecision
  BY <1>6 DEF HostDecision
<1>7. CASE NewCommand
  BY <1>7 DEF NewCommand, NextCommand, Gate!Next, Gate!Rerun
<1>8. CASE Retag \/ Switch
  BY <1>8 DEF Retag, Switch, Fault, command
<1>9. CASE UNCHANGED vars
  BY <1>9 DEF vars, command
<1> QED
  BY <1>1, <1>2, <1>3, <1>4, <1>5, <1>6, <1>7, <1>8, <1>9 DEF Next

\* vmsync, subnet and the labels of the clouds write only with --update-pce and,
\* without --no-prompt, the answer yes.  hostparse is left out: it takes
\* --no-prompt for consent (hostparse.go, hostnameParser).
THEOREM LabellingGated == "hostparse" \notin Sources => (Spec => GateSpec)
<1> SUFFICES ASSUME "hostparse" \notin Sources PROVE Spec => GateSpec
  OBVIOUS
<1>1. Init => GateInv /\ Gate!Init
  BY SessionAssumption DEF Init, SessionInit, GateInv, Reading, Gate!Init
<1>2. GateInv /\ [Next]_vars => GateInv' /\ [Gate!Next]_Gate!vars
  BY GateStep
<1> QED
  BY <1>1, <1>2, PTL DEF Spec, GateSpec, Gate!Spec
=============================================================================
