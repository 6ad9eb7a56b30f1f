---------------------------- MODULE ObjectImport ----------------------------
(* The commands that import policy objects from a CSV: ipl-import, svc-import,*)
(* labelgroup-import, label-import, label-dimension-import, adgroup-import,   *)
(* sec-principal-import, permissions-import, ven-import, cwp-import,          *)
(* ruleset-import, deny-rule-import and ipl-replace.  Each matches the rows   *)
(* of the file with a snapshot of the PCE in its own way and plans what to    *)
(* create and to update; after the prompt it makes one call per planned       *)
(* object, and some then provision what was changed.                          *)
EXTENDS Session, Sequences, Functions

CONSTANTS
  Names,        \* names; of AD groups the SID, of permissions the principal
  Texts,        \* values of the other compared fields
  Items,        \* ranges, ports, members, scopes or labels of an object
  Invalid,      \* an item that does not parse
  Remove,       \* the value of --remove-value
  InitialObjs,  \* per command, the objects of the PCE
  InitialRefs,  \* items and principals that exist on their own
  Files,        \* per command, the CSV files
  MaxObjs       \* bound: objects ever created

Commands == {"ipl", "svc", "labelgroup", "label", "dimension", "adgroup",
             "principal", "permission", "ven", "cwp", "ruleset", "denyrule", "replace"}
Blank == ""
Ids == 1..MaxObjs
Object == [id : Ids, name : Names \cup {Blank}, text : Texts \cup {Blank},
           items : SUBSET Items, live : BOOLEAN]
Row == [href : Nat, name : Names \cup {Blank, Remove},
        text : Texts \cup {Blank, Remove}, items : SUBSET (Items \cup {Invalid}),
        drop : SUBSET Items]

ASSUME ImportAssumption ==
  /\ MaxObjs \in Nat /\ Remove # Blank
  /\ \A c \in Commands : /\ \A f \in Files[c] : f \in Seq(Row)
                         /\ \A s \in InitialObjs[c] :
                              /\ IsFiniteSet(s) /\ s \subseteq Object
                              /\ {x.id : x \in s} = 1..Cardinality(s)
  /\ \A f \in FlagSets : /\ f.provision \in BOOLEAN /\ f.meta \in BOOLEAN
                         /\ f.updateOnName \in BOOLEAN /\ f.create \in BOOLEAN

VARIABLES
  cmd, file,   \* the command and its CSV
  objs, refs,  \* the PCE
  nextId,
  pc,
  todo,        \* planned calls
  changed,     \* hrefs to provision
  touched,     \* history: objects whose call of this command was answered
  settled      \* an undisturbed run ended, and nobody interfered since

pce == <<objs, refs, nextId>>
import == <<cmd, file, pc, todo, changed, touched, settled>>
vars == <<session, pce, import>>

Task == [op : {"ref", "create", "update"}, line : Nat, id : Ids \cup {0},
         name : Names \cup Items \cup {Blank}, text : Texts \cup {Blank},
         items : SUBSET (Items \cup {Invalid})]

Init ==
  /\ SessionInit
  /\ cmd \in Commands /\ file \in Files[cmd] /\ objs \in InitialObjs[cmd]
  /\ refs = InitialRefs
  /\ nextId = Cardinality(objs) + 1
  /\ pc = "load" /\ todo = {} /\ changed = {} /\ touched = {} /\ settled = FALSE

TypeOK ==
  /\ SessionTypeOK
  /\ cmd \in Commands /\ file \in Files[cmd]
  /\ objs \subseteq Object /\ refs \subseteq Names \cup Items
  /\ nextId \in 1..(MaxObjs + 1)
  /\ pc \in {"load", "decide", "push", "provision", "ended", "dead"}
  /\ todo \subseteq Task /\ changed \subseteq Ids \cup {0} /\ touched \subseteq Ids
  /\ settled \in BOOLEAN

-----------------------------------------------------------------------------
(* Planning: what a row of the file makes of a snapshot S of the objects.     *)

ById(S, r) == {x \in S : x.id = r.href}
ByName(S, r) == {x \in S : x.name = r.name}
HrefColumn(f) == \E r \in Range(f) : r.href # 0

Create(i, r) == {[op |-> "create", line |-> i, id |-> 0, name |-> r.name,
                  text |-> r.text, items |-> r.items]}
Update(i, x, name, text, items) ==
  {[op |-> "update", line |-> i, id |-> x.id, name |-> name, text |-> text, items |-> items]}
None == {}

\* The update of an object that the code takes for the zero value.
Nobody == [id |-> 0, name |-> Blank, text |-> Blank, items |-> {}]

(* ipl-import: a row with an entry that is no address is not read. *)
IplRead(r) == Invalid \notin r.items

\* Slip: a list without an href is not looked up by its name.
IplMatch_ByHref(S, r) == ById(S, r)

IplMatch(S, r) == IF r.href # 0 THEN ById(S, r) ELSE ByName(S, r)

\* Slip: what the CSV no longer lists is not looked for.
IplDiffers_Added(f, x, r) ==
  x.name # r.name \/ x.text # r.text \/ ~(r.items \subseteq x.items)

\* What the list has is looked for in all rows of that name.
IplDiffers(f, x, r) ==
  \/ x.name # r.name \/ x.text # r.text
  \/ ~(r.items \subseteq x.items)
  \/ ~(x.items \subseteq UNION {q.items : q \in {p \in Range(f) : IplRead(p) /\ p.name = r.name}})

Ipl(S, f, i) ==
  LET r == f[i]  m == IplMatch(S, r) IN
  IF ~IplRead(r) THEN None
  ELSE IF m # {} THEN UNION {Update(i, x, r.name, r.text, r.items) :
                             x \in {y \in m : IplDiffers(f, y, r)}}
  ELSE IF r.href = 0 THEN Create(i, r) ELSE None

(* svc-import: the rows of one name are one service; the first gives its href *)
(* and description.  Only its ports are compared.                             *)
SvcParsed(r) == r.items \ {Invalid}

SvcJoined(f, i) ==
  [f[i] EXCEPT !.items = UNION {SvcParsed(r) : r \in {q \in Range(f) : q.name = f[i].name}}]

SvcFirst(f, i) == \A j \in 1..(i - 1) : f[j].name # f[i].name

SvcHref(S, f, i) ==
  IF HrefColumn(f) THEN {f[i].href} \ {0}
  ELSE {x.id : x \in {y \in ByName(S, f[i]) : flags.updateOnName}}

Svc(S, f, i) ==
  LET r == SvcJoined(f, i) IN
  IF ~SvcFirst(f, i) THEN None
  ELSE IF SvcHref(S, f, i) = {} THEN Create(i, r)
  ELSE UNION {Update(i, x, r.name, r.text, r.items) :
              x \in {y \in S : y.id \in SvcHref(S, f, i) /\ y.items # r.items}}

\* A name that is taken, a href that is unknown or a port that is no number.
SvcFatal(S, f, i) ==
  \/ Invalid \in f[i].items
  \/ SvcFirst(f, i) /\ IF SvcHref(S, f, i) = {} THEN ByName(S, f[i]) # {}
                       ELSE \A x \in S : x.id \notin SvcHref(S, f, i)

\* With --meta the other fields are compared, and services only updated.
SvcMetaMatch(S, r) == IF r.href # 0 THEN ById(S, r) ELSE ByName(S, r)

SvcMetaFatal(S, f, i) ==
  (HrefColumn(f) /\ f[i].href = 0) \/ SvcMetaMatch(S, f[i]) = {}

SvcMeta(S, f, i) ==
  LET r == f[i]  m == SvcMetaMatch(S, r) IN
  UNION {IF x.name # r.name \/ x.text # r.text
         THEN Update(i, x, r.name, r.text, x.items) ELSE None :
         x \in IF m = {} THEN {Nobody} ELSE m}

(* labelgroup-import: a row without a href is always a new group; blank       *)
(* members are kept.                                                          *)
LabelGroupNew(K, i, r) ==
  IF r.name # Blank /\ r.items \subseteq K THEN Create(i, r) ELSE None

\* Slip: blank members are kept, but compared as if they were to be removed.
LabelGroupUpdate_Blank(K, i, x, r) ==
  LET members == IF r.items = {} THEN x.items ELSE r.items IN
  IF <<r.name, r.text, r.items>> # <<x.name, x.text, x.items>>
  THEN Update(i, x, r.name, r.text, members) ELSE None

LabelGroupUpdate(K, i, x, r) ==
  LET members == IF r.items = {} THEN x.items ELSE r.items IN
  IF /\ members \ x.items \subseteq K
     /\ <<r.name, r.text, members>> # <<x.name, x.text, x.items>>
  THEN Update(i, x, r.name, r.text, members) ELSE None

LabelGroup(S, K, f, i) ==
  IF f[i].href = 0 THEN LabelGroupNew(K, i, f[i])
  ELSE UNION {LabelGroupUpdate(K, i, x, f[i]) : x \in ById(S, f[i])}

(* label-import: a label that exists is left alone unless its href is given;  *)
(* a label to be created is remembered for the rows that follow.              *)
LabelNew(S, f, i) ==
  IF /\ ByName(S, f[i]) = {}
     /\ \A j \in 1..(i - 1) : f[j].href = 0 => f[j].name # f[i].name
  THEN Create(i, f[i]) ELSE None

Label(S, f, i) ==
  LET r == f[i] IN
  IF r.href = 0 THEN LabelNew(S, f, i)
  ELSE UNION {Update(i, x, r.name, r.text, x.items) :
              x \in {y \in ById(S, r) : <<y.name, y.text>> # <<r.name, r.text>>}}

(* label-dimension-import: the key is the name.  Columns that the file lacks, *)
(* here the items, are not compared and yet written blank.                    *)
DimensionMatch(S, r) == IF r.href # 0 THEN ById(S, r) ELSE ByName(S, r)

DimensionFatal(S, f, i) == f[i].href # 0 /\ ById(S, f[i]) = {}

Dimension(S, f, i) ==
  LET r == f[i]  m == DimensionMatch(S, r) IN
  IF m = {} THEN Create(i, IF r.href = 0 THEN r ELSE [r EXCEPT !.name = Blank])
  ELSE UNION {Update(i, x, x.name, r.text, r.items) :
              x \in {y \in m : y.text # r.text \/ r.items \notin {{}, y.items}}}

(* adgroup-import *)
AdGroup(S, f, i) ==
  LET r == f[i] IN
  IF ByName(S, r) = {} THEN Create(i, r)
  ELSE UNION {Update(i, x, x.name, r.text, x.items) :
              x \in {y \in ByName(S, r) : y.text # r.text}}

(* sec-principal-import looks for the principal in a map that it never loads. *)
Principal(f, i) == Create(i, f[i])

(* permissions-import updates roles if there is a href column and creates     *)
(* otherwise; a scope entry that does not exist is left out.                  *)
Permission(S, K, f, i) ==
  LET r == f[i] IN
  IF HrefColumn(f)
  THEN UNION {Update(i, x, x.name, r.text, x.items) : x \in {y \in ById(S, r) : y.text # r.text}}
  ELSE IF r.name \in K THEN Create(i, [r EXCEPT !.items = r.items \cap K]) ELSE None

(* ven-import *)
VenFatal(S, f, i) == ById(S, f[i]) = {}

Ven(S, f, i) ==
  LET r == f[i] IN
  UNION {IF <<x.name, x.text>> # <<r.name, r.text>>
         THEN Update(i, x, r.name, r.text, x.items) ELSE None :
         x \in IF VenFatal(S, f, i) THEN {Nobody} ELSE ById(S, r)}

(* cwp-import: a blank cell keeps the value, --remove-value removes it.  An   *)
(* item is a label with a key of its own; missing ones are created first.     *)
Cell(new, old) == CASE new = Blank -> old [] new = Remove -> Blank [] OTHER -> new

CwpLabels(x, r) == (x.items \ r.drop) \cup r.items

Cwp(S, K, f, i) ==
  LET r == f[i] IN
  UNION { LET name == Cell(r.name, x.name)  text == Cell(r.text, x.text) IN
          IF r.drop # {} \/ <<name, text, CwpLabels(x, r)>> # <<x.name, x.text, x.items>>
          THEN Update(i, x, name, text, CwpLabels(x, r)) \cup
               {[op |-> "ref", line |-> 0, id |-> 0, name |-> l, text |-> Blank,
                 items |-> {}] : l \in r.items \ K}
          ELSE None : x \in ById(S, r) }

(* ruleset-import: a row without a href is always a new ruleset; scopes, the  *)
(* items, are not compared, and what does not exist is left out of them.      *)
RulesetFatal(S, K, r) == IF r.href = 0 THEN ~(r.items \subseteq K) ELSE ById(S, r) = {}

Ruleset(S, K, f, i) ==
  LET r == f[i] IN
  IF r.href = 0 THEN Create(i, [r EXCEPT !.items = @ \cap K])
  ELSE UNION {Update(i, x, r.name, r.text, x.items) :
              x \in {y \in ById(S, r) : <<y.name, y.text>> # <<r.name, r.text>>}}

(* deny-rule-import: blank labels, the items, are not compared, and yet an    *)
(* update for another reason writes them blank.                               *)
DenyRuleSkips(S, r) == r.href # 0 /\ ById(S, r) = {}

DenyRuleFatal(S, K, r) == ~DenyRuleSkips(S, r) /\ ~(r.items \subseteq K)

DenyRule(S, K, f, i) ==
  LET r == [f[i] EXCEPT !.items = @ \cap K] IN
  IF r.href = 0 THEN Create(i, r)
  ELSE UNION {Update(i, x, r.name, r.text, r.items) :
              x \in {y \in ById(S, r) : \/ <<y.name, y.text>> # <<r.name, r.text>>
                                       \/ (f[i].items # {} /\ r.items # y.items)}}

(* ipl-replace writes the one list it is about without comparing it.          *)
ReplaceFatal(S, r) == Invalid \in r.items \/ (ByName(S, r) = {} /\ ~flags.create)

Replace(S, f, i) ==
  LET r == [f[i] EXCEPT !.items = @ \ {Invalid}]  m == ByName(S, r) IN
  IF m = {} /\ flags.create THEN Create(i, r)
  ELSE UNION {Update(i, x, x.name, x.text, r.items) : x \in IF m = {} THEN {Nobody} ELSE m}

RowTasks(S, K, f, i) ==
  CASE cmd = "ipl" -> Ipl(S, f, i)
    [] cmd = "svc" -> IF flags.meta THEN SvcMeta(S, f, i) ELSE Svc(S, f, i)
    [] cmd = "labelgroup" -> LabelGroup(S, K, f, i)
    [] cmd = "label" -> Label(S, f, i)
    [] cmd = "dimension" -> Dimension(S, f, i)
    [] cmd = "adgroup" -> AdGroup(S, f, i)
    [] cmd = "principal" -> Principal(f, i)
    [] cmd = "permission" -> Permission(S, K, f, i)
    [] cmd = "ven" -> Ven(S, f, i)
    [] cmd = "cwp" -> Cwp(S, K, f, i)
    [] cmd = "ruleset" -> Ruleset(S, K, f, i)
    [] cmd = "denyrule" -> DenyRule(S, K, f, i)
    [] cmd = "replace" -> Replace(S, f, i)

Tasks(S, K) == UNION {RowTasks(S, K, file, i) : i \in DOMAIN file}

RowFatal(S, K, i) ==
  CASE cmd = "svc" -> IF flags.meta THEN SvcMetaFatal(S, file, i) ELSE SvcFatal(S, file, i)
    [] cmd = "dimension" -> DimensionFatal(S, file, i)
    [] cmd = "ven" -> VenFatal(S, file, i)
    [] cmd = "ruleset" -> RulesetFatal(S, K, file[i])
    [] cmd = "denyrule" -> DenyRuleFatal(S, K, file[i])
    [] cmd = "replace" -> ReplaceFatal(S, file[i])
    [] OTHER -> FALSE

Fatal(S, K) == \E i \in DOMAIN file : RowFatal(S, K, i)

\* ruleset-import compares a ruleset that does not exist and dereferences nil.
Panics(S) == cmd = "ruleset" /\ \E r \in Range(file) : r.href # 0 /\ ById(S, r) = {}

Dies(S, K) == Panics(S) \/ (Fatal(S, K) /\ ~flags.continueOnError)

-----------------------------------------------------------------------------
(* What follows the plan: whether a refused call (406) is only noted, what a  *)
(* failed call does, whether the command provisions, and whether it keeps the *)
(* href of a call that failed, which is empty when nothing was created.       *)

Follow(tolerant, failure, provisions) ==
  [tolerant |-> tolerant, failure |-> failure, provisions |-> provisions, keeps |-> FALSE]

IplFollow == Follow(TRUE, "error", TRUE)
SvcFollow == Follow(TRUE, "error", TRUE)
LabelGroupFollow == Follow(TRUE, "error", TRUE)
LabelFollow == Follow(TRUE, "error", FALSE)
DimensionFollow == Follow(FALSE, "error", FALSE)
AdGroupFollow == Follow(TRUE, "error", FALSE)
PrincipalFollow == Follow(FALSE, "error", FALSE)
PermissionFollow == Follow(FALSE, "error", FALSE)
VenFollow == Follow(FALSE, "warning", FALSE)
CwpFollow == Follow(FALSE, "error", FALSE)
RulesetFollow == [Follow(FALSE, "error", TRUE) EXCEPT !.keeps = TRUE]
DenyRuleFollow == [Follow(FALSE, "error", TRUE) EXCEPT !.keeps = TRUE]
ReplaceFollow == [Follow(FALSE, "error", TRUE) EXCEPT !.keeps = TRUE]

After ==
  CASE cmd = "ipl" -> IplFollow [] cmd = "svc" -> SvcFollow
    [] cmd = "labelgroup" -> LabelGroupFollow [] cmd = "label" -> LabelFollow
    [] cmd = "dimension" -> DimensionFollow [] cmd = "adgroup" -> AdGroupFollow
    [] cmd = "principal" -> PrincipalFollow [] cmd = "permission" -> PermissionFollow
    [] cmd = "ven" -> VenFollow [] cmd = "cwp" -> CwpFollow
    [] cmd = "ruleset" -> RulesetFollow [] cmd = "denyrule" -> DenyRuleFollow
    [] cmd = "replace" -> ReplaceFollow

-----------------------------------------------------------------------------
(* Reading and deciding. *)

Planned(S, K) ==
  /\ todo' = Tasks(S, K)
  /\ pc' = IF todo' = {} THEN "ended" ELSE "decide"

Load ==
  /\ pc = "load"
  /\ IF Dies(objs, refs)
     THEN pc' = "dead" /\ todo' = {}
     ELSE Planned(objs, refs)
  /\ alone' = (alone /\ ~Fatal(objs, refs))
  /\ settled' = (alone' /\ flags.updatePCE /\ pc' = "ended")
  /\ UNCHANGED <<flags, answer, wrote, faults, runs, pce, cmd, file, changed, touched>>

\* The PCE cannot be read.  svc-import does not look at the error and goes on
\* with no services at all, as every command does with --continue-on-error.
LoadFails ==
  /\ pc = "load"
  /\ Fault
  /\ IF (cmd # "svc" /\ ~flags.continueOnError) \/ Dies({}, refs)
     THEN pc' = "dead" /\ todo' = {}
     ELSE Planned({}, refs)
  /\ settled' = FALSE
  /\ UNCHANGED <<pce, cmd, file, changed, touched>>

Decision(next) ==
  /\ pc = "decide"
  /\ pc' = next
  /\ UNCHANGED <<pce, cmd, file, todo, changed, touched, settled>>

DryRun == Decision("ended") /\ NotAsked
PromptDenied == Decision("ended") /\ Denied

\* Slip: the prompt is not shown.
Approve_Unasked == Decision("push") /\ Silent

Approve == Decision("push") /\ Approved

-----------------------------------------------------------------------------
(* The calls: labels first, then new objects, then updates, by line of the    *)
(* file; svc-import takes them in the order of a map.                         *)

Rank(t) == CASE t.op = "ref" -> 1 [] t.op = "create" -> 2 [] t.op = "update" -> 3

IsNext(t) ==
  /\ pc = "push" /\ t \in todo
  /\ \A u \in todo : \/ Rank(t) < Rank(u)
                     \/ Rank(t) = Rank(u) /\ (t.line <= u.line \/ cmd = "svc")

\* The PCE refuses an update of what is gone and a label that does not exist.
Possible(t) ==
  /\ t.op = "update" => \E x \in objs : x.id = t.id
  /\ t.op = "create" => nextId <= MaxObjs
  /\ cmd = "cwp" => t.items \subseteq refs

Written(t, i) == [id |-> i, name |-> t.name, text |-> t.text, items |-> t.items,
                  live |-> ~After.provisions]

\* Slip: only updates are remembered for provisioning.
ToProvision_Updates(t, i) == IF t.op = "update" THEN {i} ELSE {}

\* The hrefs that a call adds to the provisioning request.
ToProvision(t, i) == {i}

Effect(t) ==
  \/ /\ t.op = "ref"
     /\ refs' = refs \cup {t.name} /\ UNCHANGED <<objs, nextId>>
  \/ /\ t.op = "create"
     /\ objs' = objs \cup {Written(t, nextId)}
     /\ nextId' = nextId + 1 /\ UNCHANGED refs
  \/ /\ t.op = "update"
     /\ objs' = {x \in objs : x.id # t.id} \cup {Written(t, t.id)}
     /\ UNCHANGED <<refs, nextId>>

Subject(t) == IF t.op = "create" THEN nextId ELSE t.id

Call ==
  /\ \E t \in todo :
       /\ IsNext(t) /\ Possible(t)
       /\ Effect(t)
       /\ todo' = todo \ {t}
       /\ IF t.op = "ref" THEN UNCHANGED <<changed, touched>>
          ELSE /\ changed' = changed \cup ToProvision(t, Subject(t))
               /\ touched' = touched \cup {Subject(t)}
  /\ Works
  /\ UNCHANGED <<cmd, file, pc, settled>>

Failure == IF After.failure = "warning" THEN pc ELSE LogError("dead", pc)

Kept(t) == IF After.keeps THEN {t.id} ELSE {}

\* The call fails, or it does its work and the answer is lost.
CallFails ==
  /\ \E t \in todo :
       /\ IsNext(t)
       /\ IF Possible(t) THEN \/ Fault /\ UNCHANGED pce
                              \/ LostAnswer /\ Effect(t)
          ELSE /\ UNCHANGED pce
               /\ alone' = FALSE /\ UNCHANGED <<flags, answer, wrote, faults, runs>>
       /\ todo' = todo \ {t}
       /\ changed' = changed \cup Kept(t)
  /\ pc' = Failure
  /\ UNCHANGED <<cmd, file, touched, settled>>

\* The PCE finds the object not acceptable (406).
Refused ==
  /\ \E t \in todo : /\ IsNext(t) /\ todo' = todo \ {t}
                      /\ changed' = changed \cup Kept(t)
  /\ pc' = IF After.tolerant THEN pc ELSE Failure
  /\ Fault
  /\ UNCHANGED <<pce, cmd, file, touched, settled>>

\* The request is made even if there is nothing to provision.
Provisions == flags.provision /\ After.provisions

Pushed ==
  /\ pc = "push" /\ todo = {}
  /\ pc' = IF Provisions THEN "provision" ELSE "ended"
  /\ settled' = (alone /\ ~Provisions)
  /\ Silent
  /\ UNCHANGED <<pce, cmd, file, todo, changed, touched>>

Provision ==
  /\ pc = "provision" /\ 0 \notin changed
  /\ objs' = {[x EXCEPT !.live = @ \/ x.id \in changed] : x \in objs}
  /\ pc' = "ended" /\ settled' = alone
  /\ Works
  /\ UNCHANGED <<refs, nextId, cmd, file, todo, changed, touched>>

\* The PCE refuses a request with an empty href.
ProvisionFails ==
  /\ pc = "provision"
  /\ pc' = LogError("dead", "ended")
  /\ IF 0 \in changed THEN Silent ELSE Fault
  /\ UNCHANGED <<pce, cmd, file, todo, changed, touched, settled>>

-----------------------------------------------------------------------------
(* The session, and everyone else. *)

Crash ==
  /\ pc \notin {"ended", "dead"}
  /\ pc' = "dead"
  /\ Fault
  /\ UNCHANGED <<pce, cmd, file, todo, changed, touched, settled>>

\* The operator imports the file again.
Rerun ==
  /\ pc \in {"ended", "dead"}
  /\ NextCommand
  /\ pc' = "load" /\ todo' = {} /\ changed' = {} /\ touched' = {}
  /\ UNCHANGED <<pce, cmd, file, settled>>

\* Somebody else deletes an object or edits it.
Others ==
  /\ \E x \in objs :
       \/ objs' = objs \ {x}
       \/ \E d \in Texts \ {x.text} : objs' = (objs \ {x}) \cup {[x EXCEPT !.text = d]}
  /\ Fault
  /\ settled' = FALSE
  /\ UNCHANGED <<refs, nextId, cmd, file, pc, todo, changed, touched>>

Next ==
  \/ Load \/ LoadFails \/ DryRun \/ PromptDenied \/ Approve
  \/ Call \/ CallFails \/ Refused \/ Pushed \/ Provision \/ ProvisionFails
  \/ Crash \/ Rerun \/ Others

Spec == Init /\ [][Next]_vars

-----------------------------------------------------------------------------
(* Properties. *)

\* The commands find what an earlier run has made.  svc-import, whose snapshot
\* may be empty, and the commands that never look are left out.
Finds == cmd \in {"ipl", "label", "dimension", "adgroup", "replace"} /\ ~flags.continueOnError

\* However runs are interrupted, refused and repeated, no name is given to two
\* objects: what a run created before it died, or without learning of it, is
\* found by the next.
NoTwins == Finds => \A x, y \in objs : x.name = y.name => x = y

\* After an undisturbed run a command that looks for its rows has nothing left
\* to do: what it compares is what it writes, and no row undoes another.
Converges ==
  /\ settled
  /\ \/ cmd \in {"ipl", "label", "dimension", "adgroup", "ven"}
     \/ cmd = "svc" /\ flags.updateOnName
     \/ cmd \in {"svc", "labelgroup", "permission", "ruleset", "denyrule"} /\ \A r \in Range(file) : r.href # 0
     \/ cmd = "cwp" /\ \A r \in Range(file) : r.drop = {}
  => Tasks(objs, refs) = {}

\* What a row asks of an object, by the fields that its command can set.
Asks(r, x) ==
  CASE cmd = "ipl" -> <<x.name, x.text, x.items>> = <<r.name, r.text, r.items>>
    [] cmd = "replace" -> x.name = r.name /\ x.items = r.items
    [] cmd = "ruleset" -> /\ x.name = r.name /\ x.text = r.text
                          /\ r.href # 0 \/ x.items = r.items
    [] cmd \in {"labelgroup", "denyrule"} ->
         x.name = r.name /\ x.text = r.text /\ r.items \in {{}, x.items}
    [] cmd = "svc" /\ ~flags.meta -> SvcParsed(r) \subseteq x.items
    [] cmd \in {"label", "ven"} \/ (cmd = "svc" /\ flags.meta) ->
         x.name = r.name /\ x.text = r.text
    [] cmd \in {"dimension", "adgroup", "permission"} -> x.text = r.text
    [] cmd = "principal" -> x.name = r.name
    [] cmd = "cwp" -> /\ r.name \in {Blank, Remove, x.name}
                      /\ r.text \in {Blank, Remove, x.text}
                      /\ r.items \subseteq x.items
                      /\ x.items \cap r.drop = {}

\* Rows that no command reads: hrefs that nobody has, items that nobody has.
Unreadable(r) ==
  \/ Invalid \in r.items
  \/ r.href # 0 /\ ById(objs, r) = {}
  \/ cmd = "labelgroup" /\ ~(r.items \subseteq refs)
  \/ cmd = "permission" /\ r.href = 0 /\ r.name \notin refs

\* After an undisturbed run there is an object for every row, the one with the
\* row's href if it has one.
RowsHold ==
  settled => \A r \in Range(file) :
    \/ Unreadable(r)
    \/ \E x \in objs : r.href \in {0, x.id} /\ Asks(r, x)
    \/ cmd = "label" /\ r.href = 0 /\ ByName(objs, r) # {}

\* With --provision what an undisturbed run has created and changed is active.
ChangesInForce ==
  settled /\ pc = "ended" /\ flags.provision =>
    \A x \in objs : x.id \in touched => x.live
=============================================================================
