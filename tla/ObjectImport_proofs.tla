------------------------ MODULE ObjectImport_proofs -------------------------
(* For every PCE, every CSV and every combination of flags the import         *)
(* commands implement the consent gate, with --provision an undisturbed run   *)
(* leaves everything it created or changed active, and the commands that look *)
(* for their rows make no second object of a name.                            *)
EXTENDS ObjectImport, FiniteSetTheorems, TLAPS

Steps == {"load", "decide", "push", "provision", "ended", "dead"}

\* What ties the place of a command to the operator's answer.
GateInv ==
  /\ flags \in FlagSets /\ pc \in Steps
  /\ pc \in {"load", "decide"} => answer = "unasked" /\ wrote = FALSE
  /\ pc \in {"push", "provision"} => Consent

LEMMA GateInit == Init => GateInv /\ Gate!Init
  BY SessionAssumption DEF Init, SessionInit, GateInv, Steps, Gate!Init

LEMMA LoadKeepsGate ==
  ASSUME GateInv, Load \/ LoadFails
  PROVE  GateInv' /\ UNCHANGED Gate!vars
<1>1. pc' \in {"decide", "ended", "dead"} /\ UNCHANGED <<flags, answer, wrote>> /\ pc = "load"
  BY DEF Load, LoadFails, Planned, Fault
<1> QED
  BY <1>1 DEF GateInv, Steps, Consent, Gate!vars

LEMMA CallKeepsGate ==
  ASSUME GateInv, Call \/ CallFails \/ Refused
  PROVE  GateInv' /\ [Gate!Next]_Gate!vars
<1>1. pc = "push"
  BY DEF Call, CallFails, Refused, IsNext
<1>2. pc' \in {"push", "dead"}
  BY <1>1 DEF Call, CallFails, Refused, Failure, LogError
<1>3. UNCHANGED <<flags, answer>> /\ (wrote' = TRUE \/ UNCHANGED wrote)
  BY DEF Call, Works, CallFails, Refused, Fault, LostAnswer
<1> QED
  BY <1>1, <1>2, <1>3 DEF GateInv, Steps, Consent, Gate!vars, Gate!Next, Gate!Write, Gate!Consent

LEMMA GateStep ==
  ASSUME GateInv, [Next]_vars
  PROVE  GateInv' /\ [Gate!Next]_Gate!vars
<1> USE DEF GateInv, Steps, Consent, Gate!vars
<1>1. CASE Load \/ LoadFails
  BY <1>1, LoadKeepsGate
<1>2. CASE DryRun \/ PromptDenied \/ Approve
  BY <1>2 DEF DryRun, PromptDenied, Approve, Decision, NotAsked, Denied, Approved, Silent,
              session, Gate!Next, Gate!Ask
<1>3. CASE Call \/ CallFails \/ Refused
  BY <1>3, CallKeepsGate
<1>4. CASE Pushed
  BY <1>4 DEF Pushed, Silent, session
<1>5. CASE Provision
  BY <1>5 DEF Provision, Works, Gate!Next, Gate!Write, Gate!Consent
<1>6. CASE ProvisionFails
  BY <1>6 DEF ProvisionFails, Silent, Fault, LogError, session
<1>7. CASE Crash \/ Others
  BY <1>7 DEF Crash, Others, Fault
<1>8. CASE Rerun
  BY <1>8 DEF Rerun, NextCommand, Gate!Next, Gate!Rerun
<1>9. CASE UNCHANGED vars
  BY <1>9 DEF vars, session, import
<1> QED
  BY <1>1, <1>2, <1>3, <1>4, <1>5, <1>6, <1>7, <1>8, <1>9 DEF Next

\* The import commands modify the PCE only if --update-pce is set and, without
\* --no-prompt, the operator has said yes to this command.
THEOREM ObjectImportGated == Spec => GateSpec
<1>1. Init => GateInv /\ Gate!Init
  BY GateInit
<1>2. GateInv /\ [Next]_vars => GateInv' /\ [Gate!Next]_Gate!vars
  BY GateStep
<1> QED
  BY <1>1, <1>2, PTL DEF Spec, GateSpec, Gate!Spec

-----------------------------------------------------------------------------
(* What was changed is in force. *)

Fields == {"id", "name", "text", "items", "live"}

\* The PCE has given out the hrefs below nextId.
Known == nextId \in Nat \ {0} /\ \A x \in objs : x.id \in 1..(nextId - 1)

TouchedLive == \A x \in objs : x.id \in touched => x.live

\* While a command goes on undisturbed, what it has touched is on the list of
\* hrefs to provision, or needs no provisioning.
ForceInv ==
  /\ \A x \in objs : DOMAIN x = Fields
  /\ Known
  /\ alone \in BOOLEAN
  /\ pc \in {"load", "decide"} => touched = {}
  /\ pc \in {"push", "provision"} => touched \subseteq changed
  /\ pc = "provision" => ~settled
  /\ pc = "push" /\ alone /\ ~After.provisions => TouchedLive
  /\ ChangesInForce

LEMMA ForceInit == Init => ForceInv
<1> SUFFICES ASSUME Init PROVE ForceInv
  OBVIOUS
<1>1. \A x \in objs : DOMAIN x = Fields
  BY ImportAssumption DEF Init, Object, Fields
<1>2. Known
  <2>1. IsFiniteSet(objs) /\ {x.id : x \in objs} = 1..Cardinality(objs)
    BY ImportAssumption DEF Init
  <2>2. Cardinality(objs) \in Nat
    BY <2>1, FS_CardinalityType
  <2> QED
    BY <2>1, <2>2 DEF Init, Known
<1> QED
  BY <1>1, <1>2 DEF Init, SessionInit, ForceInv, ChangesInForce

LEMMA WrittenFields ==
  ASSUME NEW t, NEW i
  PROVE  /\ DOMAIN Written(t, i) = Fields
         /\ Written(t, i).id = i
         /\ Written(t, i).live = ~After.provisions
  BY DEF Written, Fields

LEMMA EffectFields ==
  ASSUME NEW t, Effect(t), \A x \in objs : DOMAIN x = Fields
  PROVE  \A x \in objs' : DOMAIN x = Fields
<1>1. CASE UNCHANGED objs
  BY <1>1
<1>2. CASE objs' = objs \cup {Written(t, nextId)}
  BY <1>2, WrittenFields
<1>3. CASE objs' = {x \in objs : x.id # t.id} \cup {Written(t, t.id)}
  BY <1>3, WrittenFields
<1> QED
  BY <1>1, <1>2, <1>3 DEF Effect

LEMMA EffectKnown ==
  ASSUME NEW t, Effect(t), Possible(t), Known
  PROVE  Known'
<1>1. CASE t.op = "ref" /\ UNCHANGED <<objs, nextId>>
  BY <1>1 DEF Known
<1>2. CASE objs' = objs \cup {Written(t, nextId)} /\ nextId' = nextId + 1
  BY <1>2, WrittenFields DEF Known
<1>3. CASE /\ t.op = "update" /\ nextId' = nextId
           /\ objs' = {x \in objs : x.id # t.id} \cup {Written(t, t.id)}
  <2>1. t.id \in 1..(nextId - 1)
    BY <1>3 DEF Known, Possible
  <2> QED
    BY <1>3, <2>1, WrittenFields DEF Known
<1> QED
  BY <1>1, <1>2, <1>3 DEF Effect

LEMMA CallKeepsForce ==
  ASSUME ForceInv, Call
  PROVE  ForceInv'
<1> PICK t \in todo :
      /\ IsNext(t) /\ Possible(t) /\ Effect(t)
      /\ IF t.op = "ref" THEN UNCHANGED <<changed, touched>>
         ELSE /\ changed' = changed \cup ToProvision(t, Subject(t))
              /\ touched' = touched \cup {Subject(t)}
  BY DEF Call
<1>1. pc = "push" /\ UNCHANGED <<pc, alone, cmd, flags, settled>>
  BY DEF Call, IsNext, Works
<1>2. touched' \subseteq changed'
  BY <1>1 DEF ForceInv, ToProvision
<1>3. After' = After
  BY <1>1 DEF After, IplFollow, SvcFollow, LabelGroupFollow, LabelFollow, DimensionFollow,
              AdGroupFollow, PrincipalFollow, PermissionFollow, VenFollow, CwpFollow,
              RulesetFollow, DenyRuleFollow, ReplaceFollow
<1>4. ASSUME alone, ~After.provisions PROVE TouchedLive'
  <2>1. TouchedLive
    BY <1>1, <1>4 DEF ForceInv
  <2>2. CASE t.op = "ref"
    BY <2>1, <2>2 DEF TouchedLive, Effect
  <2>3. CASE t.op = "create"
    <3>1. objs' = objs \cup {Written(t, nextId)} /\ touched' = touched \cup {nextId}
      BY <2>3 DEF Effect, Subject
    <3>2. ASSUME NEW x \in objs, x.id \in touched' PROVE x.live
      BY <2>1, <3>1, <3>2 DEF TouchedLive, ForceInv, Known
    <3>3. Written(t, nextId).live
      BY <1>4, WrittenFields
    <3> QED
      BY <3>1, <3>2, <3>3 DEF TouchedLive
  <2>4. CASE t.op = "update"
    <3>1. /\ objs' = {x \in objs : x.id # t.id} \cup {Written(t, t.id)}
          /\ touched' = touched \cup {t.id}
      BY <2>4 DEF Effect, Subject
    <3>2. Written(t, t.id).live
      BY <1>4, WrittenFields
    <3> QED
      BY <2>1, <3>1, <3>2 DEF TouchedLive
  <2> QED
    BY <2>2, <2>3, <2>4 DEF Effect
<1>5. (\A x \in objs' : DOMAIN x = Fields) /\ Known'
  BY EffectFields, EffectKnown DEF ForceInv
<1> QED
  BY <1>1, <1>2, <1>3, <1>4, <1>5 DEF ForceInv, ChangesInForce

LEMMA FailedCallKeepsForce ==
  ASSUME ForceInv, CallFails \/ Refused
  PROVE  ForceInv'
<1>1. CASE CallFails
  <2> PICK t \in todo :
        /\ IsNext(t)
        /\ \/ UNCHANGED pce
           \/ Possible(t) /\ Effect(t)
        /\ changed' = changed \cup Kept(t)
    BY <1>1 DEF CallFails
  <2>1. pc = "push" /\ pc' \in {"push", "dead"} /\ touched' = touched /\ alone' = FALSE
    BY <1>1 DEF CallFails, IsNext, Failure, LogError, Fault, LostAnswer
  <2>2. (\A x \in objs' : DOMAIN x = Fields) /\ Known'
    BY EffectFields, EffectKnown DEF ForceInv, pce, Known
  <2> QED
    BY <2>1, <2>2 DEF ForceInv, ChangesInForce
<1>2. CASE Refused
  <2>1. /\ pc = "push" /\ pc' \in {"push", "dead"} /\ alone' = FALSE
        /\ UNCHANGED pce /\ touched' = touched /\ changed \subseteq changed'
    BY <1>2 DEF Refused, IsNext, Failure, LogError, Fault
  <2> QED
    BY <2>1 DEF ForceInv, ChangesInForce, pce, Known
<1> QED
  BY <1>1, <1>2

LEMMA ProvisionKeepsForce ==
  ASSUME ForceInv, Provision
  PROVE  ForceInv'
<1>1. /\ pc = "provision" /\ pc' = "ended" /\ UNCHANGED <<nextId, changed, touched, flags, alone>>
      /\ objs' = {[x EXCEPT !.live = @ \/ x.id \in changed] : x \in objs}
  BY DEF Provision, Works
<1>2. ASSUME NEW y \in objs'
      PROVE  /\ DOMAIN y = Fields /\ y.id \in 1..(nextId - 1)
             /\ y.id \in changed => y.live
  <2> PICK x \in objs : y = [x EXCEPT !.live = @ \/ x.id \in changed]
    BY <1>1
  <2>1. DOMAIN x = Fields /\ x.id \in 1..(nextId - 1)
    BY DEF ForceInv, Known
  <2>2. DOMAIN y = Fields /\ y.id = x.id /\ y.live = (x.live \/ x.id \in changed)
    BY <2>1 DEF Fields
  <2> QED
    BY <2>1, <2>2
<1>3. Known'
  BY <1>1, <1>2 DEF ForceInv, Known
<1> QED
  BY <1>1, <1>2, <1>3 DEF ForceInv, ChangesInForce

LEMMA OthersKeepForce ==
  ASSUME ForceInv, Others
  PROVE  ForceInv'
<1>1. /\ alone' = FALSE /\ settled' = FALSE
      /\ UNCHANGED <<nextId, pc, changed, touched, flags, cmd>>
  BY DEF Others, Fault
<1>2. ASSUME NEW y \in objs'
      PROVE  DOMAIN y = Fields /\ y.id \in 1..(nextId - 1)
  <2>1. CASE y \in objs
    BY <2>1 DEF ForceInv, Known
  <2>2. CASE \E x \in objs, d \in Texts : y = [x EXCEPT !.text = d]
    BY <2>2 DEF ForceInv, Known, Fields
  <2> QED
    BY <2>1, <2>2 DEF Others
<1> QED
  BY <1>1, <1>2 DEF ForceInv, Known, ChangesInForce

LEMMA QuietKeepsForce ==
  ASSUME ForceInv,
         \/ Load \/ LoadFails \/ DryRun \/ PromptDenied \/ Approve
         \/ Pushed \/ ProvisionFails \/ Crash \/ Rerun \/ UNCHANGED vars
  PROVE  ForceInv'
<1> USE DEF ForceInv, ChangesInForce, Known, TouchedLive, pce
<1>1. CASE Load
  <2>1. /\ pc = "load" /\ pc' \in {"decide", "ended", "dead"} /\ alone' \in BOOLEAN
        /\ UNCHANGED <<objs, nextId, touched>>
    BY <1>1 DEF Load, Planned
  <2> QED
    BY <2>1
<1>2. CASE LoadFails
  <2>1. /\ pc = "load" /\ pc' \in {"decide", "ended", "dead"} /\ alone' = FALSE
        /\ UNCHANGED <<objs, nextId, touched>>
    BY <1>2 DEF LoadFails, Planned, Fault
  <2> QED
    BY <2>1
<1>3. CASE DryRun \/ PromptDenied
  <2>1. /\ pc = "decide" /\ pc' = "ended" /\ UNCHANGED <<objs, nextId, touched, alone>>
    BY <1>3 DEF DryRun, PromptDenied, Decision, NotAsked, Denied, Silent, session
  <2> QED
    BY <2>1
<1>4. CASE Approve
  <2>1. /\ pc = "decide" /\ pc' = "push" /\ UNCHANGED <<objs, nextId, touched, alone>>
    BY <1>4 DEF Approve, Decision, Approved
  <2> QED
    BY <2>1
<1>5. CASE Pushed
  <2>1. /\ pc = "push" /\ UNCHANGED <<objs, nextId, touched, changed, alone, flags, cmd>>
        /\ pc' = IF Provisions THEN "provision" ELSE "ended"
        /\ settled' = (alone /\ ~Provisions)
    BY <1>5 DEF Pushed, Silent, session
  <2>2. CASE Provisions
    BY <2>1, <2>2
  <2>3. CASE ~Provisions /\ alone /\ flags.provision
    BY <2>1, <2>3 DEF Provisions
  <2>4. CASE ~Provisions /\ ~(alone /\ flags.provision)
    BY <2>1, <2>4
  <2> QED
    BY <2>2, <2>3, <2>4
<1>6. CASE ProvisionFails
  <2>1. /\ pc = "provision" /\ pc' \in {"ended", "dead"} /\ alone' \in BOOLEAN
        /\ UNCHANGED <<objs, nextId, touched, settled, flags>>
    BY <1>6 DEF ProvisionFails, LogError, Silent, Fault, session
  <2>2. ~settled
    BY <2>1 DEF ForceInv
  <2> QED
    BY <2>1, <2>2
<1>7. CASE Crash
  BY <1>7 DEF Crash, Fault
<1>8. CASE Rerun
  BY <1>8 DEF Rerun, NextCommand
<1>9. CASE UNCHANGED vars
  <2>1. ForceInv' = ForceInv
    BY <1>9 DEF vars, session, import, After, IplFollow
  <2> QED
    BY <2>1
<1> QED
  BY <1>1, <1>2, <1>3, <1>4, <1>5, <1>6, <1>7, <1>8, <1>9

LEMMA ForceStep == ForceInv /\ [Next]_vars => ForceInv'
  BY CallKeepsForce, FailedCallKeepsForce, ProvisionKeepsForce, OthersKeepForce, QuietKeepsForce
  DEF Next

\* With --provision what an undisturbed run has created and changed is active,
\* whatever the file, the PCE and the runs before.
THEOREM InForce == Spec => []ChangesInForce
<1>1. ForceInv => ChangesInForce
  BY DEF ForceInv
<1> QED
  BY <1>1, ForceInit, ForceStep, PTL DEF Spec

-----------------------------------------------------------------------------
(* Hrefs tell objects apart. *)

IdInv ==
  /\ cmd \in Commands /\ file \in Seq(Row)
  /\ Known /\ \A x, y \in objs : x.id = y.id => x = y

LEMMA IdInit == Init => IdInv
<1> SUFFICES ASSUME Init PROVE IdInv
  OBVIOUS
<1>1. Known
  BY ForceInit DEF ForceInv
<1>2. \A x, y \in objs : x.id = y.id => x = y
  <2>1. IsFiniteSet(objs) /\ {x.id : x \in objs} = 1..Cardinality(objs)
    BY ImportAssumption DEF Init
  <2> DEFINE idOf == [x \in objs |-> x.id]
  <2>2. idOf \in Surjection(objs, 1..Cardinality(objs))
    BY <2>1 DEF Surjection
  <2>3. IsFiniteSet(1..Cardinality(objs)) /\ Cardinality(1..Cardinality(objs)) = Cardinality(objs)
    BY <2>1, FS_CardinalityType, FS_Interval
  <2>4. idOf \in Injection(objs, 1..Cardinality(objs))
    BY <2>1, <2>2, <2>3, FS_SurjSameCardinalityImpliesInj
  <2> QED
    BY <2>4 DEF Injection, IsInjective
<1>3. cmd \in Commands /\ file \in Seq(Row)
  BY ImportAssumption DEF Init
<1> QED
  BY <1>1, <1>2, <1>3 DEF IdInv

LEMMA EffectKeepsIds ==
  ASSUME IdInv, NEW t, Possible(t), Effect(t), UNCHANGED <<cmd, file>>
  PROVE  IdInv'
<1>1. Known'
  BY EffectKnown DEF IdInv
<1>2. \A x, y \in objs' : x.id = y.id => x = y
  <2>1. CASE UNCHANGED objs
    BY <2>1 DEF IdInv
  <2>2. CASE objs' = objs \cup {Written(t, nextId)}
    BY <2>2, WrittenFields DEF IdInv, Known
  <2>3. CASE objs' = {x \in objs : x.id # t.id} \cup {Written(t, t.id)}
    BY <2>3, WrittenFields DEF IdInv
  <2> QED
    BY <2>1, <2>2, <2>3 DEF Effect
<1> QED
  BY <1>1, <1>2 DEF IdInv

LEMMA OthersKeepIds ==
  ASSUME IdInv, ForceInv, Others
  PROVE  IdInv' /\ \A y \in objs' : \E x \in objs : y.id = x.id /\ y.name = x.name
<1>1. UNCHANGED <<cmd, file, nextId>>
  BY DEF Others, Fault
<1>2. \A y \in objs' : \E x \in objs : y.id = x.id /\ y.name = x.name
  <2>1. \A x \in objs : DOMAIN x = Fields
    BY DEF ForceInv
  <2> QED
    BY <2>1 DEF Others, Fields
<1>3. \A x, y \in objs' : x.id = y.id => x = y
  <2> PICK z \in objs : \/ objs' = objs \ {z}
                        \/ \E d \in Texts \ {z.text} :
                             objs' = (objs \ {z}) \cup {[z EXCEPT !.text = d]}
    BY DEF Others
  <2>1. CASE objs' = objs \ {z}
    BY <2>1 DEF IdInv
  <2>2. ASSUME NEW d \in Texts, objs' = (objs \ {z}) \cup {[z EXCEPT !.text = d]}
        PROVE  \A x, y \in objs' : x.id = y.id => x = y
    <3>1. [z EXCEPT !.text = d].id = z.id
      BY DEF ForceInv, Fields
    <3> QED
      BY <2>2, <3>1 DEF IdInv
  <2> QED
    BY <2>1, <2>2
<1>4. Known'
  BY <1>1, <1>2 DEF IdInv, Known
<1> QED
  BY <1>1, <1>2, <1>3, <1>4 DEF IdInv

-----------------------------------------------------------------------------
(* No name for two objects. *)

\* The commands that write the name of a row whose href is given.
Renames == cmd \in {"ipl", "label"}

\* No name twice in the PCE nor in the file (label-import remembers what it is
\* about to create), and nobody else has a name that a row with an href gives.
NamesFit ==
  /\ \A x, y \in objs : x.name = y.name => x = y
  /\ \A i, j \in DOMAIN file : file[i].name = file[j].name =>
       i = j \/ (cmd = "label" /\ file[i].href = 0 /\ file[j].href = 0)
  /\ Renames => \A r \in Range(file) : r.href # 0 =>
                  \A x \in objs : x.name = r.name => x.id = r.href

\* A planned update keeps a name where it is; a planned creation has a name that
\* nobody has, and neither are there two of one name.
PlanFits ==
  /\ \A t \in todo : t.op \in {"create", "update"}
  /\ \A t \in todo : \A x \in objs : x.name = t.name => t.op = "update" /\ x.id = t.id
  /\ \A t, u \in todo : t.name = u.name => t = u \/ (t.op = "update" /\ u.op = "update" /\ t.id = u.id)
  /\ Renames => \A t \in todo, r \in Range(file) :
                  r.href # 0 /\ t.name = r.name => t.op = "update" /\ t.id = r.href

TwinInv == IdInv /\ (Finds => NamesFit /\ (pc \in {"decide", "push"} => PlanFits))

LEMMA TwinInit == Init /\ NamesFit => TwinInv
  BY IdInit DEF Init, TwinInv

\* What a row of the file makes of the PCE.  Only the commands that look for
\* their rows, and a file in which no row is an error.
LEMMA RowMakes ==
  ASSUME Finds, ~Fatal(objs, refs), NEW i \in DOMAIN file, NEW t \in RowTasks(objs, refs, file, i),
         file \in Seq(Row)
  PROVE  \/ /\ t.op = "create" /\ t.name = file[i].name
            /\ RowTasks(objs, refs, file, i) = {t}
            /\ ByName(objs, file[i]) = {}
            /\ Renames => file[i].href = 0
            /\ cmd = "label" => LabelNew(objs, file, i) # {}
         \/ /\ t.op = "update"
            /\ \E x \in objs : /\ x.id = t.id
                               /\ \/ t.name = x.name
                                  \/ /\ Renames /\ file[i].href = t.id
                                     /\ t.name = file[i].name
<1> DEFINE r == file[i]
<1>0. r \in Row
  OBVIOUS
<1> USE DEF Update, Create, None, ByName, ById
<1>1. CASE cmd = "ipl"
  <2>1. t \in Ipl(objs, file, i) /\ RowTasks(objs, refs, file, i) = Ipl(objs, file, i)
    BY <1>1 DEF RowTasks
  <2>2. CASE IplMatch(objs, r) # {}
    <3>1. PICK x \in IplMatch(objs, r) : t \in Update(i, x, r.name, r.text, r.items)
      BY <2>1, <2>2 DEF Ipl
    <3> QED
      BY <1>1, <3>1 DEF IplMatch, Renames
  <2>3. CASE IplMatch(objs, r) = {}
    <3>1. Ipl(objs, file, i) = Create(i, r) /\ r.href = 0
      BY <2>1, <2>3 DEF Ipl
    <3> QED
      BY <1>1, <2>1, <2>3, <3>1 DEF IplMatch
  <2> QED
    BY <2>2, <2>3
<1>2. CASE cmd = "label"
  <2>1. t \in Label(objs, file, i) /\ RowTasks(objs, refs, file, i) = Label(objs, file, i)
    BY <1>2 DEF RowTasks
  <2>2. CASE r.href = 0
    <3>1. Label(objs, file, i) = Create(i, r) /\ LabelNew(objs, file, i) # {} /\ ByName(objs, r) = {}
      BY <2>1, <2>2 DEF Label, LabelNew
    <3> QED
      BY <1>2, <2>1, <2>2, <3>1
  <2>3. CASE r.href # 0
    <3>1. PICK x \in ById(objs, r) : t \in Update(i, x, r.name, r.text, x.items)
      BY <2>1, <2>3 DEF Label
    <3> QED
      BY <1>2, <3>1 DEF Renames
  <2> QED
    BY <2>2, <2>3
<1>3. CASE cmd = "dimension"
  <2>1. /\ t \in Dimension(objs, file, i)
        /\ RowTasks(objs, refs, file, i) = Dimension(objs, file, i)
    BY <1>3 DEF RowTasks
  <2>2. ~DimensionFatal(objs, file, i)
    BY <1>3 DEF Fatal, RowFatal
  <2>3. CASE DimensionMatch(objs, r) = {}
    <3>1. r.href = 0 /\ ByName(objs, r) = {}
      BY <2>2, <2>3 DEF DimensionFatal, DimensionMatch
    <3>2. Dimension(objs, file, i) = Create(i, r)
      BY <2>3, <3>1 DEF Dimension
    <3> QED
      BY <1>3, <2>1, <3>1, <3>2
  <2>4. CASE DimensionMatch(objs, r) # {}
    <3>1. PICK x \in DimensionMatch(objs, r) : t \in Update(i, x, x.name, r.text, r.items)
      BY <2>1, <2>4 DEF Dimension
    <3> QED
      BY <3>1 DEF DimensionMatch
  <2> QED
    BY <2>3, <2>4
<1>4. CASE cmd = "adgroup"
  <2>1. t \in AdGroup(objs, file, i) /\ RowTasks(objs, refs, file, i) = AdGroup(objs, file, i)
    BY <1>4 DEF RowTasks
  <2>2. CASE ByName(objs, r) = {}
    BY <1>4, <2>1, <2>2 DEF AdGroup, Renames
  <2>3. CASE ByName(objs, r) # {}
    <3>1. PICK x \in ByName(objs, r) : t \in Update(i, x, x.name, r.text, x.items)
      BY <2>1, <2>3 DEF AdGroup
    <3> QED
      BY <3>1
  <2> QED
    BY <2>2, <2>3
<1>5. CASE cmd = "replace"
  <2> DEFINE q == [r EXCEPT !.items = @ \ {Invalid}]
  <2>1. t \in Replace(objs, file, i) /\ RowTasks(objs, refs, file, i) = Replace(objs, file, i)
    BY <1>5 DEF RowTasks
  <2>2. q.name = r.name
    BY <1>0 DEF Row
  <2>3. ByName(objs, q) = ByName(objs, r)
    BY <2>2
  <2>4. ~ReplaceFatal(objs, r)
    BY <1>5 DEF Fatal, RowFatal
  <2>5. CASE ByName(objs, r) = {}
    <3>1. Replace(objs, file, i) = Create(i, q)
      BY <2>3, <2>4, <2>5 DEF Replace, ReplaceFatal
    <3>2. t.op = "create" /\ t.name = q.name /\ RowTasks(objs, refs, file, i) = {t}
      <4> HIDE DEF q
      <4> QED
        BY <2>1, <3>1
    <3> HIDE DEF q
    <3> QED
      BY <1>5, <2>2, <2>5, <3>2 DEF Renames
  <2>6. CASE ByName(objs, r) # {}
    <3>1. PICK x \in ByName(objs, r) : t \in Update(i, x, x.name, x.text, q.items)
      BY <2>1, <2>3, <2>6 DEF Replace
    <3> QED
      BY <3>1
  <2> QED
    BY <2>5, <2>6
<1> QED
  BY <1>1, <1>2, <1>3, <1>4, <1>5 DEF Finds


\* The plan for a PCE and a file whose names fit.
LEMMA PlanIsFit ==
  ASSUME TwinInv, Finds, ~Fatal(objs, refs)
  PROVE  LET T == Tasks(objs, refs) IN
         /\ \A t \in T : t.op \in {"create", "update"}
         /\ \A t \in T : \A x \in objs : x.name = t.name => t.op = "update" /\ x.id = t.id
         /\ \A t, u \in T : t.name = u.name =>
              t = u \/ (t.op = "update" /\ u.op = "update" /\ t.id = u.id)
         /\ Renames => \A t \in T, r \in Range(file) :
              r.href # 0 /\ t.name = r.name => t.op = "update" /\ t.id = r.href
<1> DEFINE T == Tasks(objs, refs)
           New(t, i) == /\ t.op = "create" /\ t.name = file[i].name
                        /\ RowTasks(objs, refs, file, i) = {t}
                        /\ ByName(objs, file[i]) = {}
                        /\ Renames => file[i].href = 0
                        /\ cmd = "label" => LabelNew(objs, file, i) # {}
           Same(t) == t.op = "update" /\ \E x \in objs : x.id = t.id /\ t.name = x.name
           Renamed(t, i) == /\ t.op = "update" /\ Renames /\ file[i].href = t.id
                            /\ t.name = file[i].name /\ t.id # 0
<1>1. NamesFit /\ file \in Seq(Row) /\ \A x, y \in objs : x.id = y.id => x = y
  BY DEF TwinInv, IdInv
<1>2. \A x \in objs : x.id # 0
  BY DEF TwinInv, IdInv, Known
<1>3. ASSUME NEW t \in T
      PROVE  Same(t) \/ \E i \in DOMAIN file : New(t, i) \/ Renamed(t, i)
  <2>1. PICK i \in DOMAIN file : t \in RowTasks(objs, refs, file, i)
    BY DEF Tasks
  <2> QED
    BY <1>1, <1>2, <2>1, RowMakes
<1>4. ASSUME NEW t, NEW u, NEW i \in DOMAIN file, NEW j \in DOMAIN file,
             New(t, i), New(u, j), t.name = u.name
      PROVE  t = u
  <2>1. CASE i = j
    BY <1>4, <2>1
  <2>2. CASE i # j
    <3>1. cmd = "label" /\ file[i].href = 0 /\ file[j].href = 0
      BY <1>1, <1>4, <2>2 DEF NamesFit
    <3>2. i \in 1..Len(file) /\ j \in 1..Len(file)
      BY <1>1
    <3>3. i \notin 1..(j - 1) /\ j \notin 1..(i - 1)
      BY <1>4, <3>1 DEF LabelNew, None
    <3> QED
      BY <2>2, <3>2, <3>3
  <2> QED
    BY <2>1, <2>2
<1>5. ASSUME NEW t, NEW i \in DOMAIN file, NEW x \in objs, New(t, i) \/ Renamed(t, i), x.name = t.name
      PROVE  t.op = "update" /\ x.id = t.id
  <2>1. CASE New(t, i)
    BY <1>5, <2>1 DEF ByName
  <2>2. CASE Renamed(t, i)
    BY <1>1, <1>5, <2>2 DEF NamesFit, Range
  <2> QED
    BY <1>5, <2>1, <2>2
<1>6. ASSUME NEW t, NEW u, NEW i \in DOMAIN file, NEW j \in DOMAIN file,
             New(t, i) \/ Renamed(t, i), Renamed(u, j), t.name = u.name
      PROVE  t.op = "update" /\ t.id = u.id
  <2>1. i = j
    BY <1>1, <1>6 DEF NamesFit
  <2> QED
    BY <1>6, <2>1
<1>7. \A t \in T : t.op \in {"create", "update"}
  BY <1>3
<1>8. ASSUME NEW t \in T, NEW x \in objs, x.name = t.name
      PROVE  t.op = "update" /\ x.id = t.id
  <2>1. CASE Same(t)
    BY <1>1, <1>8, <2>1 DEF NamesFit
  <2>2. CASE \E i \in DOMAIN file : New(t, i) \/ Renamed(t, i)
    <3> HIDE DEF New, Renamed
    <3> QED
      BY <1>5, <1>8, <2>2
  <2> QED
    BY <1>3, <2>1, <2>2
<1>9. ASSUME NEW t \in T, NEW u \in T, t.name = u.name
      PROVE  t = u \/ (t.op = "update" /\ u.op = "update" /\ t.id = u.id)
  <2>1. CASE Same(t)
    BY <1>8, <1>9, <2>1
  <2>2. CASE Same(u)
    BY <1>8, <1>9, <2>2
  <2>3. CASE \E i, j \in DOMAIN file : (New(t, i) \/ Renamed(t, i)) /\ (New(u, j) \/ Renamed(u, j))
    <3> PICK i \in DOMAIN file, j \in DOMAIN file :
             (New(t, i) \/ Renamed(t, i)) /\ (New(u, j) \/ Renamed(u, j))
      BY <2>3
    <3>1. CASE New(t, i) /\ New(u, j)
      BY <1>4, <1>9, <3>1
    <3>2. CASE Renamed(u, j)
      BY <1>6, <1>9, <3>2
    <3>3. CASE Renamed(t, i)
      BY <1>6, <1>9, <3>3
    <3> QED
      BY <3>1, <3>2, <3>3
  <2> QED
    BY <1>3, <2>1, <2>2, <2>3
<1>10. ASSUME Renames, NEW t \in T, NEW r \in Range(file), r.href # 0, t.name = r.name
       PROVE  t.op = "update" /\ t.id = r.href
  <2> PICK k \in DOMAIN file : r = file[k]
    BY DEF Range
  <2>1. CASE Same(t)
    BY <1>1, <1>10, <2>1 DEF NamesFit
  <2>2. ASSUME NEW i \in DOMAIN file, New(t, i) \/ Renamed(t, i)
        PROVE  t.op = "update" /\ t.id = r.href
    <3>1. i = k
      BY <1>1, <1>10, <2>2 DEF NamesFit
    <3> QED
      BY <1>10, <2>2, <3>1
  <2> QED
    BY <1>3, <2>1, <2>2
<1> HIDE DEF T
<1> QED
  BY <1>7, <1>8, <1>9, <1>10 DEF T


LEMMA LoadKeepsTwin ==
  ASSUME TwinInv, Load \/ LoadFails
  PROVE  TwinInv'
<1>1. UNCHANGED <<objs, refs, nextId, cmd, file, flags>>
  BY DEF Load, LoadFails, pce, Fault
<1>2. (Finds' <=> Finds) /\ (Renames' <=> Renames) /\ (NamesFit' <=> NamesFit) /\ (Known' <=> Known)
  BY <1>1 DEF Finds, Renames, NamesFit, Known
<1>3. ASSUME Finds, pc' \in {"decide", "push"} PROVE PlanFits'
  <2>1. ~Fatal(objs, refs) /\ todo' = Tasks(objs, refs)
    BY <1>3 DEF Load, LoadFails, Dies, Planned, Finds
  <2> QED
    BY <1>1, <1>2, <1>3, <2>1, PlanIsFit DEF PlanFits
<1> QED
  BY <1>1, <1>2, <1>3 DEF TwinInv, IdInv

\* A call keeps names apart: what it writes has the name of its task.
LEMMA EffectKeepsFit ==
  ASSUME Known, \A x, y \in objs : x.id = y.id => x = y, NamesFit, PlanFits,
         NEW t \in todo, Possible(t), Effect(t), todo' = todo \ {t}, UNCHANGED <<cmd, file>>
  PROVE  /\ NamesFit' /\ PlanFits'
         /\ \A x, y \in objs' : x.id = y.id => x = y
<1> DEFINE w == Written(t, IF t.op = "create" THEN nextId ELSE t.id)
<1>1. w.name = t.name /\ (t.op = "create" => w.id = nextId) /\ (t.op # "create" => w.id = t.id)
  BY DEF Written
<1>2. /\ \A x \in objs' : x = w \/ (x \in objs /\ x.name # w.name /\ x.id # w.id)
      /\ t.op = "update" => w.id = t.id
      /\ t.op = "create" => w.id = nextId
  <2>1. CASE t.op = "create"
    <3>1. objs' = objs \cup {w}
      BY <2>1 DEF Effect
    <3>2. \A x \in objs : x.id # nextId
      BY DEF Known
    <3> HIDE DEF w
    <3> QED
      BY <1>1, <2>1, <3>1, <3>2 DEF PlanFits
  <2>2. CASE t.op = "update"
    <3>1. objs' = {x \in objs : x.id # t.id} \cup {w}
      BY <2>2 DEF Effect
    <3> HIDE DEF w
    <3> QED
      BY <1>1, <2>2, <3>1 DEF PlanFits
  <2> QED
    BY <2>1, <2>2 DEF PlanFits
<1>3. Renames' <=> Renames
  BY DEF Renames
<1> HIDE DEF w
<1>4. NamesFit'
  <2>1. \A x, y \in objs' : x.name = y.name => x = y
    BY <1>2 DEF NamesFit
  <2>2. ASSUME Renames, NEW r \in Range(file), r.href # 0, NEW x \in objs', x.name = r.name
        PROVE  x.id = r.href
    <3>1. CASE x = w
      BY <1>1, <1>2, <2>2, <3>1 DEF PlanFits
    <3>2. CASE x \in objs
      BY <2>2, <3>2 DEF NamesFit
    <3> QED
      BY <1>2, <3>1, <3>2
  <2> QED
    BY <1>3, <2>1, <2>2 DEF NamesFit
<1>5. PlanFits'
  <2>1. ASSUME NEW u \in todo', NEW x \in objs', x.name = u.name
        PROVE  u.op = "update" /\ x.id = u.id
    <3>1. CASE x = w
      BY <1>1, <1>2, <2>1, <3>1 DEF PlanFits
    <3>2. CASE x \in objs
      BY <2>1, <3>2 DEF PlanFits
    <3> QED
      BY <1>2, <3>1, <3>2
  <2> QED
    BY <1>3, <2>1 DEF PlanFits
<1> QED
  BY <1>2, <1>4, <1>5

LEMMA CallKeepsTwin ==
  ASSUME TwinInv, Call \/ CallFails \/ Refused
  PROVE  TwinInv'
<1> PICK t \in todo :
      /\ pc = "push" /\ todo' = todo \ {t}
      /\ (Possible(t) /\ Effect(t)) \/ UNCHANGED pce
  BY DEF Call, CallFails, Refused, IsNext
<1>1. UNCHANGED <<cmd, file, flags>>
  BY DEF Call, CallFails, Refused, Works, Fault, LostAnswer
<1>2. (Finds' <=> Finds) /\ (Renames' <=> Renames)
  BY <1>1 DEF Finds, Renames
<1>3. CASE UNCHANGED pce
  <2>1. (NamesFit' <=> NamesFit) /\ (Known' <=> Known)
    BY <1>1, <1>2, <1>3 DEF NamesFit, Known, pce
  <2>2. PlanFits => PlanFits'
    BY <1>1, <1>2, <1>3 DEF PlanFits, pce
  <2> QED
    BY <1>1, <1>2, <1>3, <2>1, <2>2 DEF TwinInv, IdInv, pce
<1>4. CASE Possible(t) /\ Effect(t)
  <2>1. IdInv'
    BY <1>1, <1>4, EffectKeepsIds DEF TwinInv
  <2>2. Finds => NamesFit' /\ PlanFits'
    BY <1>1, <1>4, EffectKeepsFit DEF TwinInv, IdInv
  <2> QED
    BY <1>1, <1>2, <2>1, <2>2 DEF TwinInv
<1> QED
  BY <1>3, <1>4

LEMMA OthersKeepTwin ==
  ASSUME TwinInv, ForceInv, Others
  PROVE  TwinInv'
<1>1. UNCHANGED <<cmd, file, flags, todo, pc, nextId>>
  BY DEF Others, Fault
<1>2. (Finds' <=> Finds) /\ (Renames' <=> Renames)
  BY <1>1 DEF Finds, Renames
<1>3. IdInv' /\ \A y \in objs' : \E x \in objs : y.id = x.id /\ y.name = x.name
  BY OthersKeepIds DEF TwinInv
<1>4. ASSUME Finds PROVE NamesFit'
  <2>1. \A x, y \in objs' : x.name = y.name => x = y
    <3> TAKE x, y \in objs'
    <3>1. PICK a, b \in objs : x.id = a.id /\ x.name = a.name /\ y.id = b.id /\ y.name = b.name
      BY <1>3
    <3>2. x.name = y.name => a = b
      BY <1>4, <3>1 DEF TwinInv, IdInv, NamesFit
    <3> QED
      BY <1>3, <3>1, <3>2 DEF IdInv
  <2> QED
    BY <1>1, <1>2, <1>3, <1>4, <2>1 DEF TwinInv, IdInv, NamesFit
<1>5. PlanFits => PlanFits'
  BY <1>1, <1>2, <1>3 DEF PlanFits
<1> QED
  BY <1>1, <1>2, <1>3, <1>4, <1>5 DEF TwinInv, IdInv

LEMMA ProvisionKeepsTwin ==
  ASSUME TwinInv, ForceInv, Provision
  PROVE  TwinInv'
<1>1. UNCHANGED <<cmd, file, flags, nextId>> /\ pc' = "ended"
  BY DEF Provision, Works
<1>2. (Finds' <=> Finds) /\ (Renames' <=> Renames)
  BY <1>1 DEF Finds, Renames
<1> DEFINE Live(x) == [x EXCEPT !.live = @ \/ x.id \in changed]
<1>3. objs' = {Live(x) : x \in objs}
  BY DEF Provision
<1>4. \A x \in objs : Live(x).id = x.id /\ Live(x).name = x.name
  BY DEF ForceInv, Fields
<1> HIDE DEF Live
<1>5. \A x, y \in objs' : x.id = y.id => x = y
  BY <1>3, <1>4 DEF TwinInv, IdInv
<1>6. Finds => NamesFit'
  BY <1>1, <1>2, <1>3, <1>4 DEF TwinInv, IdInv, NamesFit
<1>7. Known'
  BY <1>1, <1>3, <1>4 DEF TwinInv, IdInv, Known
<1> QED
  BY <1>1, <1>2, <1>5, <1>6, <1>7 DEF TwinInv, IdInv

LEMMA QuietKeepsTwin ==
  ASSUME TwinInv,
         \/ DryRun \/ PromptDenied \/ Approve \/ Pushed \/ ProvisionFails
         \/ Crash \/ Rerun \/ UNCHANGED vars
  PROVE  TwinInv'
<1>1. UNCHANGED <<objs, nextId, cmd, file, flags>>
  BY DEF DryRun, PromptDenied, Approve, Decision, NotAsked, Denied, Approved, Pushed,
         ProvisionFails, Crash, Rerun, NextCommand, Fault, Silent, session, pce, import, vars
<1>2. pc' \in {"decide", "push"} => pc \in {"decide", "push"} /\ UNCHANGED todo
  BY DEF DryRun, PromptDenied, Approve, Decision, Pushed, ProvisionFails, LogError, Crash,
         Rerun, import, vars
<1>3. (Finds' <=> Finds) /\ (Renames' <=> Renames) /\ (NamesFit' <=> NamesFit) /\ (Known' <=> Known)
  BY <1>1 DEF Finds, Renames, NamesFit, Known
<1>4. pc' \in {"decide", "push"} => (PlanFits' <=> PlanFits)
  BY <1>1, <1>2, <1>3 DEF PlanFits
<1> QED
  BY <1>1, <1>2, <1>3, <1>4 DEF TwinInv, IdInv

LEMMA TwinStep == ForceInv /\ TwinInv /\ [Next]_vars => TwinInv'
  BY LoadKeepsTwin, CallKeepsTwin, OthersKeepTwin, ProvisionKeepsTwin, QuietKeepsTwin DEF Next

\* Where neither the PCE nor the file has a name twice and no row renames an
\* object to the name of another, the commands that look for their rows never
\* make a second object of a name, however often they are interrupted, refused
\* and repeated.
THEOREM NoTwin == Spec /\ NamesFit => []NoTwins
<1>1. TwinInv => NoTwins
  BY DEF TwinInv, IdInv, NamesFit, NoTwins
<1>2. Spec => []ForceInv
  BY ForceInit, ForceStep, PTL DEF Spec
<1> QED
  BY <1>1, <1>2, TwinInit, TwinStep, PTL DEF Spec

-----------------------------------------------------------------------------
(* What an undisturbed import leaves: an object for every row, and nothing to *)
(* do for the next import.                                                    *)

\* The objects that a row is about.
Of(r, x) == IF r.href # 0 THEN x.id = r.href ELSE x.name = r.name
Mine(S, r) == {x \in S : Of(r, x)}

AllHrefs == \A i \in DOMAIN file : file[i].href # 0
NoHrefs == \A i \in DOMAIN file : file[i].href = 0

\* Two rows about one object: the ports of one service, a label named twice.
Kin(i, j) ==
  /\ file[i].name = file[j].name /\ file[i].href = file[j].href
  /\ (cmd = "svc" /\ ~flags.meta) \/ (cmd = "label" /\ file[i].href = 0)

Alike(i, j) == i = j \/ Kin(i, j)

\* A file with a row for each object.  Hrefs are those of objects that were
\* there when the file was written; a row without one has a name; the columns
\* are those the command reads; no row sets a label that it removes.
GoodFile ==
  /\ file \in Seq(Row)
  /\ \A i, j \in DOMAIN file :
       Alike(i, j) \/ IF file[i].href # 0 /\ file[j].href # 0
                      THEN /\ file[i].href # file[j].href
                           /\ cmd \in {"ipl", "svc"} => file[i].name # file[j].name
                      ELSE file[i].name # file[j].name
  /\ \A i \in DOMAIN file : /\ file[i].href < nextId \/ file[i].href > MaxObjs
                            /\ file[i].href = 0 => file[i].name # Blank
                            /\ file[i].items \cap file[i].drop = {}
  /\ cmd \in {"ven", "cwp"} => AllHrefs
  /\ cmd \in {"svc", "permission"} => AllHrefs \/ NoHrefs
  /\ cmd \in {"adgroup", "principal", "replace"} => NoHrefs

\* No object of the PCE is the object of two rows.
Apart ==
  \A i, j \in DOMAIN file : \A x \in Mine(objs, file[i]) \cap Mine(objs, file[j]) : Alike(i, j)

RowsApart == GoodFile /\ Apart

\* What a row asks of an object; a label that is named twice is left as it is.
Fits(r, x) == (cmd = "label" /\ r.href = 0) \/ Asks(r, x)

\* A command compares a row with an object and finds nothing to do.
Settles(i, x) ==
  LET r == file[i] IN
  CASE cmd = "ipl" -> ~IplDiffers(file, x, r)
    [] cmd = "svc" /\ ~flags.meta -> x.items = SvcJoined(file, i).items
    [] cmd = "labelgroup" -> LabelGroupUpdate(refs, i, x, r) = {}
    [] cmd = "dimension" -> x.text = r.text /\ r.items \in {{}, x.items}
    [] cmd \in {"adgroup", "permission"} -> x.text = r.text
    [] cmd = "cwp" -> <<Cell(r.name, x.name), Cell(r.text, x.text), CwpLabels(x, r)>>
                        = <<x.name, x.text, x.items>>
    [] cmd = "denyrule" -> /\ x.name = r.name /\ x.text = r.text
                           /\ r.items = {} \/ r.items \cap refs = x.items
    [] cmd = "label" /\ r.href = 0 -> TRUE
    [] OTHER -> x.name = r.name /\ x.text = r.text

\* Rows that an import is to find an object for.
NeedsOne(r) ==
  r.href = 0 \/ cmd \in {"dimension", "ven"} \/ (cmd = "svc" /\ flags.meta)

\* The commands and files of Converges.
Converging ==
  \/ cmd \in {"ipl", "label", "dimension", "adgroup", "ven"}
  \/ cmd = "svc" /\ flags.updateOnName
  \/ cmd \in {"svc", "labelgroup", "permission", "ruleset", "denyrule"} /\ AllHrefs
  \/ cmd = "cwp" /\ \A i \in DOMAIN file : file[i].drop = {}

\* A call whose result is what the row asks for.
Makes(r, t) ==
  /\ Fits(r, Written(t, t.id))
  /\ \/ t.op = "create" /\ r.href = 0 /\ t.name = r.name
     \/ t.op = "update" /\ IF r.href # 0 THEN t.id = r.href ELSE t.name = r.name

Held(T, i) ==
  \/ Unreadable(file[i])
  \/ \E x \in Mine(objs, file[i]) : Fits(file[i], x)
  \/ \E t \in T : Makes(file[i], t)

Compared(T, i) ==
  \/ cmd = "ipl" /\ ~IplRead(file[i])
  \/ /\ \A x \in Mine(objs, file[i]) :
          Settles(i, x) \/ \E t \in T : t.op = "update" /\ t.id = x.id
     /\ Mine(objs, file[i]) = {} /\ NeedsOne(file[i]) =>
          \E t \in T : t.op = "create" /\ t.name = file[i].name /\ file[i].href = 0

\* Of every row: the calls for it are right, and there is an object that it
\* fits or a call that is still to be made.
Rows(T) ==
  \A i \in DOMAIN file :
    /\ \A t \in T : t.line \in DOMAIN file /\ Alike(t.line, i) =>
         /\ Makes(file[i], t)
         /\ Converging => Settles(i, Written(t, t.id))
    /\ Held(T, i)
    /\ Converging => Compared(T, i)

\* The names that planned calls write.
NameFits(t, x) ==
  CASE AllHrefs -> TRUE
    [] ~AllHrefs /\ cmd = "dimension" -> t.name = x.name
    [] OTHER -> t.name = file[t.line].name

\* A planned update is of the object of its row.
Aimed(T) ==
  /\ \A t \in T : /\ t.op \in {"ref", "create", "update"}
                  /\ t.op = "ref" => cmd = "cwp"
                  /\ t.op # "ref" => t.line \in DOMAIN file
  /\ \A t \in T, x \in objs : t.op = "update" /\ t.id = x.id =>
                                x \in Mine(objs, file[t.line]) /\ NameFits(t, x)

RowInv ==
  /\ IdInv /\ RowsApart
  /\ pc \in {"decide", "push"} =>
       Aimed(todo) /\ \A t \in todo : t.op = "update" => t.id \in 0..(nextId - 1)
  /\ pc = "provision" => todo = {}
  /\ alone /\ pc \in {"decide", "push", "provision"} => Rows(todo)
  /\ settled => Rows({}) /\ pc \notin {"decide", "push", "provision"}

LEMMA MineIs ==
  \A S, r : /\ r.href # 0 => Mine(S, r) = ById(S, r)
            /\ r.href = 0 => Mine(S, r) = ByName(S, r)
BY DEF Mine, Of, ById, ByName

LEMMA WrittenIs ==
  ASSUME NEW t, NEW n
  PROVE  /\ Written(t, n).id = n /\ Written(t, n).name = t.name
         /\ Written(t, n).text = t.text /\ Written(t, n).items = t.items
BY DEF Written

LEMMA FitsSame ==
  ASSUME NEW r, NEW x, NEW y, x.name = y.name, x.text = y.text, x.items = y.items
  PROVE  Fits(r, x) <=> Fits(r, y)
BY DEF Fits, Asks

LEMMA SettlesSame ==
  ASSUME NEW i, NEW x, NEW y, x.name = y.name, x.text = y.text, x.items = y.items
  PROVE  Settles(i, x) <=> Settles(i, y)
BY DEF Settles, IplDiffers, LabelGroupUpdate, Update, None, CwpLabels

\* What the commands plan for a row of any file, whatever they have read.
Planning(S, i, t) ==
  \/ t.op = "ref" /\ cmd = "cwp" /\ t.line = 0
  \/ t.op = "create" /\ t.line = i
  \/ /\ t.op = "update" /\ t.line = i
     /\ t.id = 0 \/ \E x \in Mine(S, file[i]) : t.id = x.id /\ NameFits(t, x)

LEMMA CreateIs ==
  ASSUME NEW i, NEW r, NEW t \in Create(i, r)
  PROVE  /\ t.op = "create" /\ t.line = i /\ t.id = 0
         /\ t.name = r.name /\ t.text = r.text /\ t.items = r.items
BY DEF Create

LEMMA UpdateIs ==
  ASSUME NEW i, NEW x, NEW name, NEW text, NEW items, NEW t \in Update(i, x, name, text, items)
  PROVE  /\ t.op = "update" /\ t.line = i /\ t.id = x.id
         /\ t.name = name /\ t.text = text /\ t.items = items
BY DEF Update

\* How a file's rows find their services.
LEMMA SvcFinds ==
  ASSUME GoodFile, cmd = "svc", ~flags.meta, NEW S, NEW i \in DOMAIN file,
         \A x, y \in S : x.id = y.id => x = y
  PROVE  /\ {x \in S : x.id \in SvcHref(S, file, i)} \subseteq Mine(S, file[i])
         /\ AllHrefs => SvcHref(S, file, i) = {file[i].href}
         /\ ~AllHrefs /\ flags.updateOnName =>
              SvcHref(S, file, i) = {x.id : x \in Mine(S, file[i])}
<1>1. AllHrefs \/ NoHrefs
  BY DEF GoodFile
<1>2. CASE AllHrefs
  <2>1. HrefColumn(file) /\ file[i].href # 0
    BY <1>2 DEF HrefColumn, AllHrefs, Range
  <2>2. SvcHref(S, file, i) = {file[i].href}
    BY <2>1 DEF SvcHref
  <2> QED
    BY <1>2, <2>1, <2>2 DEF Mine, Of
<1>3. CASE ~AllHrefs
  <2>1. ~HrefColumn(file) /\ file[i].href = 0
    BY <1>1, <1>3 DEF HrefColumn, NoHrefs, Range
  <2>2. SvcHref(S, file, i) = {x.id : x \in {y \in ByName(S, file[i]) : flags.updateOnName}}
    BY <2>1 DEF SvcHref
  <2>3. Mine(S, file[i]) = ByName(S, file[i])
    BY <2>1, MineIs
  <2>4. ASSUME NEW x \in S, x.id \in SvcHref(S, file, i) PROVE x \in ByName(S, file[i])
    <3>1. PICK y \in ByName(S, file[i]) : x.id = y.id
      BY <2>2, <2>4
    <3> QED
      BY <3>1 DEF ByName
  <2> QED
    BY <1>3, <2>2, <2>3, <2>4
<1> QED
  BY <1>2, <1>3

\* The ports that the file has for a service.
Ports(name) == UNION {SvcParsed(r) : r \in {q \in Range(file) : q.name = name}}

LEMMA SvcJoinedIs ==
  ASSUME file \in Seq(Row), NEW i \in DOMAIN file
  PROVE  /\ SvcJoined(file, i).name = file[i].name /\ SvcJoined(file, i).text = file[i].text
         /\ SvcJoined(file, i).items = Ports(file[i].name)
BY DEF SvcJoined, Row, Ports

LEMMA TasksAre ==
  ASSUME GoodFile, NEW S, NEW K, NEW i \in DOMAIN file, NEW t \in RowTasks(S, K, file, i),
         cmd \in Commands, \A x, y \in S : x.id = y.id => x = y
  PROVE  Planning(S, i, t)
<1> DEFINE r == file[i]
<1>0. r \in Row /\ file \in Seq(Row)
  BY DEF GoodFile
<1>00. r.href # 0 => Mine(S, r) = ById(S, r)
  BY MineIs
<1>01. r.href = 0 => Mine(S, r) = ByName(S, r)
  BY MineIs
<1>c. ASSUME NEW q, t \in Create(i, q) PROVE Planning(S, i, t)
  BY <1>c, CreateIs DEF Planning
<1>u. ASSUME NEW x \in Mine(S, r), NEW name, NEW text, NEW items,
             t \in Update(i, x, name, text, items),
             \/ AllHrefs
             \/ IF cmd = "dimension" THEN name = x.name ELSE name = r.name
      PROVE  Planning(S, i, t)
  <2>1. t.op = "update" /\ t.line = i /\ t.id = x.id /\ t.name = name
    BY <1>u, UpdateIs
  <2>2. NameFits(t, x)
    BY <1>u, <2>1 DEF NameFits
  <2> QED
    BY <2>1, <2>2 DEF Planning
<1>n. ASSUME NEW name, NEW text, NEW items, t \in Update(i, Nobody, name, text, items)
      PROVE  Planning(S, i, t)
  BY <1>n, UpdateIs DEF Planning, Nobody
<1> HIDE DEF r
<1> USE DEF None
<1>1. CASE cmd = "ipl"
  <2>1. t \in Ipl(S, file, i)
    BY <1>1 DEF RowTasks
  <2>2. CASE IplMatch(S, r) # {}
    <3>1. PICK x \in IplMatch(S, r) : t \in Update(i, x, r.name, r.text, r.items)
      BY <2>1, <2>2 DEF Ipl, r
    <3>2. x \in Mine(S, r)
      BY <1>00, <1>01, <3>1 DEF IplMatch
    <3> QED
      BY <1>1, <1>u, <3>1, <3>2
  <2>3. CASE IplMatch(S, r) = {}
    BY <1>c, <2>1, <2>3 DEF Ipl, r
  <2> QED
    BY <2>2, <2>3
<1>2. CASE cmd = "svc" /\ ~flags.meta
  <2> DEFINE q == SvcJoined(file, i)
  <2>1. t \in Svc(S, file, i)
    BY <1>2 DEF RowTasks
  <2>2. t \in Create(i, q) \/ \E x \in {y \in S : y.id \in SvcHref(S, file, i)} :
                                 t \in Update(i, x, q.name, q.text, q.items)
    BY <2>1 DEF Svc
  <2>3. q.name = r.name
    BY <1>0, SvcJoinedIs DEF r
  <2>4. {y \in S : y.id \in SvcHref(S, file, i)} \subseteq Mine(S, r)
    BY <1>2, SvcFinds DEF r
  <2> HIDE DEF q
  <2> QED
    BY <1>2, <1>c, <1>u, <2>2, <2>3, <2>4
<1>3. CASE cmd = "svc" /\ flags.meta
  <2>1. t \in SvcMeta(S, file, i)
    BY <1>3 DEF RowTasks
  <2>2. \/ \E x \in SvcMetaMatch(S, r) : t \in Update(i, x, r.name, r.text, x.items)
        \/ t \in Update(i, Nobody, r.name, r.text, Nobody.items)
    BY <2>1 DEF SvcMeta, r
  <2>3. SvcMetaMatch(S, r) \subseteq Mine(S, r)
    BY <1>00, <1>01 DEF SvcMetaMatch
  <2> QED
    BY <1>3, <1>n, <1>u, <2>2, <2>3
<1>4. CASE cmd = "labelgroup"
  <2>1. t \in LabelGroup(S, K, file, i)
    BY <1>4 DEF RowTasks
  <2>2. CASE r.href = 0
    BY <1>c, <2>1, <2>2 DEF LabelGroup, LabelGroupNew, r
  <2>3. CASE r.href # 0
    <3>1. PICK x \in ById(S, r) : t \in LabelGroupUpdate(K, i, x, r)
      BY <2>1, <2>3 DEF LabelGroup, r
    <3>2. \E items : t \in Update(i, x, r.name, r.text, items)
      BY <3>1 DEF LabelGroupUpdate
    <3> QED
      BY <1>4, <1>00, <1>u, <2>3, <3>1, <3>2
  <2> QED
    BY <2>2, <2>3
<1>5. CASE cmd = "label"
  <2>1. t \in Label(S, file, i)
    BY <1>5 DEF RowTasks
  <2>2. CASE r.href = 0
    BY <1>c, <2>1, <2>2 DEF Label, LabelNew, r
  <2>3. CASE r.href # 0
    <3>1. PICK x \in ById(S, r) : t \in Update(i, x, r.name, r.text, x.items)
      BY <2>1, <2>3 DEF Label, r
    <3> QED
      BY <1>5, <1>00, <1>u, <2>3, <3>1
  <2> QED
    BY <2>2, <2>3
<1>6. CASE cmd = "dimension"
  <2>1. t \in Dimension(S, file, i)
    BY <1>6 DEF RowTasks
  <2>2. CASE DimensionMatch(S, r) # {}
    <3>1. PICK x \in DimensionMatch(S, r) : t \in Update(i, x, x.name, r.text, r.items)
      BY <2>1, <2>2 DEF Dimension, r
    <3>2. x \in Mine(S, r)
      BY <1>00, <1>01, <3>1 DEF DimensionMatch
    <3> QED
      BY <1>6, <1>u, <3>1, <3>2
  <2>3. CASE DimensionMatch(S, r) = {}
    <3>1. \E q : t \in Create(i, q)
      BY <2>1, <2>3 DEF Dimension, r
    <3> QED
      BY <1>c, <3>1
  <2> QED
    BY <2>2, <2>3
<1>7. CASE cmd \in {"adgroup", "replace"}
  <2>1. r.href = 0
    BY <1>7 DEF GoodFile, NoHrefs, r
  <2>2. \A x \in ByName(S, r) : x \in Mine(S, r) /\ x.name = r.name
    BY <1>01, <2>1 DEF ByName
  <2>3. CASE cmd = "adgroup"
    <3>1. t \in AdGroup(S, file, i)
      BY <2>3 DEF RowTasks
    <3>2. t \in Create(i, r) \/ \E x \in ByName(S, r) : t \in Update(i, x, x.name, r.text, x.items)
      BY <3>1 DEF AdGroup, r
    <3> QED
      BY <1>c, <1>u, <2>2, <2>3, <3>2
  <2>4. CASE cmd = "replace"
    <3> DEFINE q == [r EXCEPT !.items = @ \ {Invalid}]
    <3>1. t \in Replace(S, file, i)
      BY <2>4 DEF RowTasks
    <3>2. q.name = r.name
      BY <1>0 DEF Row
    <3>3. ByName(S, q) = ByName(S, r)
      BY <3>2 DEF ByName
    <3>4. \/ t \in Create(i, q)
          \/ t \in Update(i, Nobody, Nobody.name, Nobody.text, q.items)
          \/ \E x \in ByName(S, r) : t \in Update(i, x, x.name, x.text, q.items)
      BY <3>1, <3>3 DEF Replace, r
    <3> QED
      BY <1>c, <1>n, <1>u, <2>2, <2>4, <3>4
  <2> QED
    BY <1>7, <2>3, <2>4
<1>8. CASE cmd = "principal"
  BY <1>8, <1>c DEF RowTasks, Principal
<1>9. CASE cmd = "permission"
  <2>1. t \in Permission(S, K, file, i)
    BY <1>9 DEF RowTasks
  <2>2. CASE HrefColumn(file)
    <3>1. AllHrefs /\ r.href # 0
      BY <1>9, <2>2 DEF GoodFile, HrefColumn, AllHrefs, NoHrefs, Range, r
    <3>2. PICK x \in ById(S, r) : t \in Update(i, x, x.name, r.text, x.items)
      BY <2>1, <2>2 DEF Permission, r
    <3> QED
      BY <1>00, <1>u, <3>1, <3>2
  <2>3. CASE ~HrefColumn(file)
    <3>1. \E q : t \in Create(i, q)
      BY <2>1, <2>3 DEF Permission
    <3> QED
      BY <1>c, <3>1
  <2> QED
    BY <2>2, <2>3
<1>10. CASE cmd = "ven"
  <2>1. AllHrefs /\ r.href # 0 /\ t \in Ven(S, file, i)
    BY <1>10 DEF GoodFile, AllHrefs, RowTasks, r
  <2>2. \/ \E x \in ById(S, r) : t \in Update(i, x, r.name, r.text, x.items)
        \/ t \in Update(i, Nobody, r.name, r.text, Nobody.items)
    BY <2>1 DEF Ven, r
  <2> QED
    BY <1>00, <1>n, <1>u, <2>1, <2>2
<1>11. CASE cmd = "cwp"
  <2>1. AllHrefs /\ r.href # 0 /\ t \in Cwp(S, K, file, i)
    BY <1>11 DEF GoodFile, AllHrefs, RowTasks, r
  <2>2. \/ t.op = "ref" /\ t.line = 0
        \/ \E x \in ById(S, r) : \E name, text, items : t \in Update(i, x, name, text, items)
    BY <2>1 DEF Cwp, r
  <2>3. ASSUME NEW x \in ById(S, r), NEW name, NEW text, NEW items,
               t \in Update(i, x, name, text, items)
        PROVE  Planning(S, i, t)
    BY <1>00, <1>u, <2>1, <2>3
  <2> QED
    BY <1>11, <2>2, <2>3 DEF Planning
<1>12. CASE cmd = "ruleset"
  <2>1. t \in Ruleset(S, K, file, i)
    BY <1>12 DEF RowTasks
  <2>2. CASE r.href = 0
    BY <1>c, <2>1, <2>2 DEF Ruleset, r
  <2>3. CASE r.href # 0
    <3>1. PICK x \in ById(S, r) : t \in Update(i, x, r.name, r.text, x.items)
      BY <2>1, <2>3 DEF Ruleset, r
    <3> QED
      BY <1>12, <1>00, <1>u, <2>3, <3>1
  <2> QED
    BY <2>2, <2>3
<1>13. CASE cmd = "denyrule"
  <2> DEFINE q == [r EXCEPT !.items = @ \cap K]
  <2>1. t \in DenyRule(S, K, file, i)
    BY <1>13 DEF RowTasks
  <2>2. q.name = r.name /\ q.href = r.href /\ q.text = r.text
    BY <1>0 DEF Row
  <2>3. ById(S, q) = ById(S, r)
    BY <2>2 DEF ById
  <2>4. CASE r.href = 0
    <3>1. t \in Create(i, q)
      BY <2>1, <2>2, <2>4 DEF DenyRule, r
    <3> QED
      BY <1>c, <3>1
  <2>5. CASE r.href # 0
    <3>1. PICK x \in ById(S, q) : t \in Update(i, x, q.name, q.text, q.items)
      BY <2>1, <2>2, <2>5 DEF DenyRule, r
    <3> HIDE DEF q
    <3> QED
      BY <1>13, <1>00, <1>u, <2>2, <2>3, <2>5, <3>1
  <2> QED
    BY <2>4, <2>5
<1> QED
  BY <1>1, <1>2, <1>3, <1>4, <1>5, <1>6, <1>7, <1>8, <1>9, <1>10, <1>11, <1>12, <1>13
     DEF Commands

\* A call as the object that it writes.
LEMMA CreateMakes ==
  ASSUME NEW k, NEW r, NEW q, NEW t \in Create(k, q),
         r.href = 0, q.name = r.name, Fits(r, q)
  PROVE  Makes(r, t)
<1>1. t.op = "create" /\ t.name = q.name /\ t.text = q.text /\ t.items = q.items
  BY CreateIs
<1>2. Fits(r, Written(t, t.id))
  BY <1>1, WrittenIs, FitsSame
<1> QED
  BY <1>1, <1>2 DEF Makes

LEMMA UpdateMakes ==
  ASSUME NEW k, NEW S, NEW r, NEW x \in Mine(S, r), NEW q,
         NEW t \in Update(k, x, q.name, q.text, q.items),
         r.href = 0 => q.name = r.name, Fits(r, q)
  PROVE  Makes(r, t)
<1>1. t.op = "update" /\ t.id = x.id /\ t.name = q.name /\ t.text = q.text /\ t.items = q.items
  BY UpdateIs
<1>2. Fits(r, Written(t, t.id))
  BY <1>1, WrittenIs, FitsSame
<1>3. r.href # 0 => t.id = r.href
  BY <1>1 DEF Mine, Of
<1> QED
  BY <1>1, <1>2, <1>3 DEF Makes

LEMMA CreateSettles ==
  ASSUME NEW k, NEW i, NEW q, NEW t \in Create(k, q), Settles(i, q)
  PROVE  Settles(i, Written(t, t.id))
BY CreateIs, WrittenIs, SettlesSame

LEMMA UpdateSettles ==
  ASSUME NEW k, NEW i, NEW x, NEW q, NEW t \in Update(k, x, q.name, q.text, q.items),
         Settles(i, q)
  PROVE  Settles(i, Written(t, t.id))
BY UpdateIs, WrittenIs, SettlesSame

\* What a call for a row of an error-free file writes is what the row asks for,
\* and the next import has nothing to add to it.
Right(i, t) == Makes(file[i], t) /\ (Converging => Settles(i, Written(t, t.id)))

LEMMA SvcRight ==
  ASSUME IdInv, GoodFile, ~Fatal(objs, refs), cmd = "svc", ~flags.meta,
         NEW k \in DOMAIN file, NEW i \in DOMAIN file, Alike(k, i),
         NEW t \in RowTasks(objs, refs, file, k)
  PROVE  Right(i, t)
<1> DEFINE r == file[i]
           q == SvcJoined(file, k)
<1>1. t \in Svc(objs, file, k)
  BY DEF RowTasks
<1>2. file[k].name = r.name /\ file[k].href = r.href
  BY DEF Alike, Kin
<1>3. q.name = r.name /\ q.items = Ports(r.name) /\ SvcJoined(file, i).items = Ports(r.name)
  BY <1>2, SvcJoinedIs DEF IdInv
<1>4. SvcParsed(r) \subseteq q.items
  <2>1. r \in Range(file)
    BY DEF Range
  <2> QED
    BY <1>3, <2>1 DEF Ports
<1>5. Fits(r, q) /\ Settles(i, q)
  <2> HIDE DEF q, r
  <2>1. Fits(r, q)
    BY <1>4 DEF Fits, Asks, SvcParsed
  <2>2. Settles(i, q)
    BY <1>3 DEF Settles
  <2> QED
    BY <2>1, <2>2
<1>6. CASE SvcHref(objs, file, k) = {}
  <2>1. t \in Create(k, q)
    BY <1>1, <1>6 DEF Svc, None
  <2>2. r.href = 0
    <3>1. ~AllHrefs
      BY <1>6, SvcFinds DEF IdInv
    <3>2. NoHrefs
      BY <3>1 DEF GoodFile
    <3> QED
      BY <3>2 DEF NoHrefs
  <2> HIDE DEF q, r
  <2> QED
    BY <1>3, <1>5, <2>1, <2>2, CreateMakes, CreateSettles DEF Right, r
<1>7. CASE SvcHref(objs, file, k) # {}
  <2>1. PICK x \in {y \in objs : y.id \in SvcHref(objs, file, k)} :
               t \in Update(k, x, q.name, q.text, q.items)
    BY <1>1, <1>7 DEF Svc, None
  <2>2. x \in Mine(objs, file[k])
    BY <2>1, SvcFinds DEF IdInv
  <2>3. x \in Mine(objs, r)
    BY <1>2, <2>2 DEF Mine, Of
  <2> HIDE DEF q, r
  <2> QED
    BY <1>3, <1>5, <2>1, <2>3, UpdateMakes, UpdateSettles DEF Right, r
<1> QED
  BY <1>6, <1>7

LEMMA IplRight ==
  ASSUME IdInv, cmd = "ipl", NEW i \in DOMAIN file, NEW t \in RowTasks(objs, refs, file, i)
  PROVE  Right(i, t)
<1> DEFINE r == file[i]
<1>1. t \in Ipl(objs, file, i) /\ IplRead(r)
  BY DEF RowTasks, Ipl, None
<1>2. Fits(r, r)
  BY DEF Fits, Asks
<1>3. Settles(i, r)
  <2>1. r \in {p \in Range(file) : IplRead(p) /\ p.name = r.name}
    BY <1>1 DEF Range
  <2> HIDE DEF r
  <2> QED
    BY <2>1 DEF Settles, IplDiffers, r
<1>4. CASE IplMatch(objs, r) # {}
  <2>1. PICK x \in IplMatch(objs, r) : t \in Update(i, x, r.name, r.text, r.items)
    BY <1>1, <1>4 DEF Ipl, None
  <2>2. x \in Mine(objs, r)
    BY MineIs DEF IplMatch
  <2> QED
    BY <1>2, <1>3, <2>1, <2>2, UpdateMakes, UpdateSettles DEF Right
<1>5. CASE IplMatch(objs, r) = {}
  <2>1. t \in Create(i, r) /\ r.href = 0
    BY <1>1, <1>5 DEF Ipl, None
  <2> QED
    BY <1>2, <1>3, <2>1, CreateMakes, CreateSettles DEF Right
<1> QED
  BY <1>4, <1>5

LEMMA LabelRight ==
  ASSUME IdInv, cmd = "label", NEW k \in DOMAIN file, NEW i \in DOMAIN file, Alike(k, i),
         NEW t \in RowTasks(objs, refs, file, k)
  PROVE  Right(i, t)
<1> DEFINE r == file[i]
<1>1. t \in Label(objs, file, k) /\ file[k].name = r.name /\ file[k].href = r.href
  BY DEF RowTasks, Alike, Kin
<1>2. CASE r.href = 0
  <2>1. t \in Create(k, file[k])
    BY <1>1, <1>2 DEF Label, LabelNew, None
  <2>2. Fits(r, file[k]) /\ Settles(i, file[k])
    BY <1>2 DEF Fits, Settles
  <2> QED
    BY <1>1, <1>2, <2>1, <2>2, CreateMakes, CreateSettles DEF Right
<1>3. CASE r.href # 0
  <2>1. k = i
    BY <1>3 DEF Alike, Kin
  <2>2. PICK x \in ById(objs, r) : t \in Update(i, x, r.name, r.text, x.items)
    BY <1>1, <1>3, <2>1 DEF Label
  <2> DEFINE q == [name |-> r.name, text |-> r.text, items |-> x.items]
  <2>3. Fits(r, q) /\ Settles(i, q)
    BY DEF Fits, Asks, Settles
  <2>4. x \in Mine(objs, r)
    BY <1>3, <2>2, MineIs
  <2>5. t \in Update(i, x, q.name, q.text, q.items)
    BY <2>2
  <2> HIDE DEF q
  <2> QED
    BY <1>3, <2>3, <2>4, <2>5, UpdateMakes, UpdateSettles DEF Right
<1> QED
  BY <1>2, <1>3

LEMMA SvcMetaRight ==
  ASSUME IdInv, ~Fatal(objs, refs), cmd = "svc", flags.meta,
         NEW i \in DOMAIN file, NEW t \in RowTasks(objs, refs, file, i)
  PROVE  Right(i, t)
<1> DEFINE r == file[i]
<1>1. t \in SvcMeta(objs, file, i)
  BY DEF RowTasks
<1>2. SvcMetaMatch(objs, r) # {}
  BY DEF Fatal, RowFatal, SvcMetaFatal
<1>3. PICK x \in SvcMetaMatch(objs, r) : t \in Update(i, x, r.name, r.text, x.items)
  BY <1>1, <1>2 DEF SvcMeta, None
<1> DEFINE q == [name |-> r.name, text |-> r.text, items |-> x.items]
<1>4. Fits(r, q) /\ Settles(i, q)
  BY DEF Fits, Asks, Settles
<1>5. x \in Mine(objs, r)
  BY <1>3, MineIs DEF SvcMetaMatch
<1>6. t \in Update(i, x, q.name, q.text, q.items) /\ q.name = r.name
  BY <1>3
<1> HIDE DEF q
<1> QED
  BY <1>4, <1>5, <1>6, UpdateMakes, UpdateSettles DEF Right

LEMMA LabelGroupRight ==
  ASSUME IdInv, cmd = "labelgroup", NEW i \in DOMAIN file, NEW t \in RowTasks(objs, refs, file, i)
  PROVE  Right(i, t)
<1> DEFINE r == file[i]
<1>1. t \in LabelGroup(objs, refs, file, i)
  BY DEF RowTasks
<1>2. CASE r.href = 0
  <2>1. t \in Create(i, r)
    BY <1>1, <1>2 DEF LabelGroup, LabelGroupNew, None
  <2>2. Fits(r, r)
    BY DEF Fits, Asks
  <2>3. ~Converging
    BY <1>2 DEF Converging, AllHrefs
  <2> QED
    BY <1>2, <2>1, <2>2, <2>3, CreateMakes DEF Right
<1>3. CASE r.href # 0
  <2>1. PICK x \in ById(objs, r) : t \in LabelGroupUpdate(refs, i, x, r)
    BY <1>1, <1>3 DEF LabelGroup
  <2> DEFINE members == IF r.items = {} THEN x.items ELSE r.items
             q == [name |-> r.name, text |-> r.text, items |-> members]
  <2>2. t \in Update(i, x, q.name, q.text, q.items)
    BY <2>1 DEF LabelGroupUpdate, None
  <2>3. Fits(r, q)
    BY DEF Fits, Asks
  <2>4. Settles(i, q)
    <3>1. LabelGroupUpdate(refs, i, q, r) = {}
      BY DEF LabelGroupUpdate, None
    <3> QED
      BY <3>1 DEF Settles
  <2>5. x \in Mine(objs, r)
    BY <1>3, <2>1, MineIs
  <2> HIDE DEF q
  <2> QED
    BY <1>3, <2>2, <2>3, <2>4, <2>5, UpdateMakes, UpdateSettles DEF Right
<1> QED
  BY <1>2, <1>3

LEMMA DimensionRight ==
  ASSUME IdInv, ~Fatal(objs, refs), cmd = "dimension",
         NEW i \in DOMAIN file, NEW t \in RowTasks(objs, refs, file, i)
  PROVE  Right(i, t)
<1> DEFINE r == file[i]
<1>1. t \in Dimension(objs, file, i)
  BY DEF RowTasks
<1>2. r.href # 0 => ById(objs, r) # {}
  BY DEF Fatal, RowFatal, DimensionFatal
<1>3. CASE DimensionMatch(objs, r) = {}
  <2>1. r.href = 0
    BY <1>2, <1>3 DEF DimensionMatch
  <2>2. t \in Create(i, r)
    BY <1>1, <1>3, <2>1 DEF Dimension
  <2>3. Fits(r, r) /\ Settles(i, r)
    BY DEF Fits, Asks, Settles
  <2> QED
    BY <2>1, <2>2, <2>3, CreateMakes, CreateSettles DEF Right
<1>4. CASE DimensionMatch(objs, r) # {}
  <2>1. PICK x \in DimensionMatch(objs, r) : t \in Update(i, x, x.name, r.text, r.items)
    BY <1>1, <1>4 DEF Dimension
  <2> DEFINE q == [name |-> x.name, text |-> r.text, items |-> r.items]
  <2>2. Fits(r, q) /\ Settles(i, q)
    BY DEF Fits, Asks, Settles
  <2>3. x \in Mine(objs, r) /\ (r.href = 0 => x.name = r.name)
    BY <2>1, MineIs DEF DimensionMatch, ByName
  <2>4. t \in Update(i, x, q.name, q.text, q.items) /\ q.name = x.name
    BY <2>1
  <2> HIDE DEF q
  <2> QED
    BY <2>2, <2>3, <2>4, UpdateMakes, UpdateSettles DEF Right
<1> QED
  BY <1>3, <1>4

LEMMA NamedRight ==
  ASSUME IdInv, GoodFile, ~Fatal(objs, refs), cmd \in {"adgroup", "principal", "replace"},
         NEW i \in DOMAIN file, NEW t \in RowTasks(objs, refs, file, i)
  PROVE  Right(i, t)
<1> DEFINE r == file[i]
<1>0. r.href = 0 /\ r \in Row
  BY DEF GoodFile, NoHrefs
<1>1. \A x \in ByName(objs, r) : x \in Mine(objs, r) /\ x.name = r.name
  BY <1>0, MineIs DEF ByName
<1>2. CASE cmd = "adgroup"
  <2>1. t \in AdGroup(objs, file, i)
    BY <1>2 DEF RowTasks
  <2>2. CASE ByName(objs, r) = {}
    <3>1. t \in Create(i, r)
      BY <2>1, <2>2 DEF AdGroup
    <3>2. Fits(r, r) /\ Settles(i, r)
      BY <1>2 DEF Fits, Asks, Settles
    <3> QED
      BY <1>0, <3>1, <3>2, CreateMakes, CreateSettles DEF Right
  <2>3. CASE ByName(objs, r) # {}
    <3>1. PICK x \in ByName(objs, r) : t \in Update(i, x, x.name, r.text, x.items)
      BY <2>1, <2>3 DEF AdGroup
    <3> DEFINE q == [name |-> x.name, text |-> r.text, items |-> x.items]
    <3>2. Fits(r, q) /\ Settles(i, q)
      BY <1>2 DEF Fits, Asks, Settles
    <3>3. t \in Update(i, x, q.name, q.text, q.items) /\ q.name = x.name
      BY <3>1
    <3> HIDE DEF q
    <3> QED
      BY <1>1, <3>1, <3>2, <3>3, UpdateMakes, UpdateSettles DEF Right
  <2> QED
    BY <2>2, <2>3
<1>3. CASE cmd = "principal"
  <2>1. t \in Create(i, r) /\ ~Converging
    BY <1>3 DEF RowTasks, Principal, Converging
  <2>2. Fits(r, r)
    BY <1>3 DEF Fits, Asks
  <2> QED
    BY <1>0, <2>1, <2>2, CreateMakes DEF Right
<1>4. CASE cmd = "replace"
  <2> DEFINE q == [r EXCEPT !.items = @ \ {Invalid}]
  <2>1. t \in Replace(objs, file, i) /\ ~Converging
    BY <1>4 DEF RowTasks, Converging
  <2>2. Invalid \notin r.items /\ (ByName(objs, r) = {} => flags.create)
    BY <1>4 DEF Fatal, RowFatal, ReplaceFatal
  <2>3. q.name = r.name /\ q.text = r.text /\ q.items = r.items
    BY <1>0, <2>2 DEF Row
  <2>4. ByName(objs, q) = ByName(objs, r)
    BY <2>3 DEF ByName
  <2>5. CASE ByName(objs, r) = {}
    <3>1. t \in Create(i, q)
      BY <2>1, <2>2, <2>4, <2>5 DEF Replace
    <3> HIDE DEF q
    <3>2. Fits(r, q)
      BY <1>4, <2>3 DEF Fits, Asks
    <3> QED
      BY <1>0, <2>1, <2>3, <3>1, <3>2, CreateMakes DEF Right
  <2>6. CASE ByName(objs, r) # {}
    <3>1. PICK x \in ByName(objs, r) : t \in Update(i, x, x.name, x.text, q.items)
      BY <2>1, <2>4, <2>6 DEF Replace
    <3> DEFINE p == [name |-> x.name, text |-> x.text, items |-> q.items]
    <3>2. t \in Update(i, x, p.name, p.text, p.items) /\ p.name = x.name /\ p.items = q.items
      BY <3>1
    <3> HIDE DEF q, p
    <3>3. Fits(r, p)
      BY <1>1, <1>4, <2>3, <3>1, <3>2 DEF Fits, Asks
    <3> QED
      BY <1>1, <2>1, <3>1, <3>2, <3>3, UpdateMakes DEF Right
  <2> QED
    BY <2>5, <2>6
<1> QED
  BY <1>2, <1>3, <1>4

LEMMA PermissionRight ==
  ASSUME IdInv, GoodFile, cmd = "permission",
         NEW i \in DOMAIN file, NEW t \in RowTasks(objs, refs, file, i)
  PROVE  Right(i, t)
<1> DEFINE r == file[i]
<1>0. r \in Row /\ t \in Permission(objs, refs, file, i)
  BY DEF IdInv, RowTasks
<1>1. CASE HrefColumn(file)
  <2>1. r.href # 0
    BY <1>1 DEF GoodFile, HrefColumn, AllHrefs, NoHrefs, Range
  <2>2. PICK x \in ById(objs, r) : t \in Update(i, x, x.name, r.text, x.items)
    BY <1>0, <1>1 DEF Permission
  <2> DEFINE q == [name |-> x.name, text |-> r.text, items |-> x.items]
  <2>3. Fits(r, q) /\ Settles(i, q)
    BY DEF Fits, Asks, Settles
  <2>4. x \in Mine(objs, r)
    BY <2>1, <2>2, MineIs
  <2>5. t \in Update(i, x, q.name, q.text, q.items)
    BY <2>2
  <2> HIDE DEF q
  <2> QED
    BY <2>1, <2>3, <2>4, <2>5, UpdateMakes, UpdateSettles DEF Right
<1>2. CASE ~HrefColumn(file)
  <2> DEFINE q == [r EXCEPT !.items = r.items \cap refs]
  <2>1. t \in Create(i, q)
    BY <1>0, <1>2 DEF Permission, None
  <2>2. q.name = r.name /\ q.text = r.text
    BY <1>0 DEF Row
  <2>3. r.href = 0 /\ ~AllHrefs
    BY <1>2 DEF HrefColumn, AllHrefs, Range
  <2> HIDE DEF q
  <2>4. Fits(r, q)
    BY <2>2 DEF Fits, Asks
  <2>5. ~Converging
    BY <2>3 DEF Converging
  <2> QED
    BY <2>1, <2>2, <2>3, <2>4, <2>5, CreateMakes DEF Right
<1> QED
  BY <1>1, <1>2

LEMMA VenRight ==
  ASSUME IdInv, GoodFile, ~Fatal(objs, refs), cmd = "ven",
         NEW i \in DOMAIN file, NEW t \in RowTasks(objs, refs, file, i)
  PROVE  Right(i, t)
<1> DEFINE r == file[i]
<1>1. t \in Ven(objs, file, i) /\ r.href # 0
  BY DEF RowTasks, GoodFile, AllHrefs
<1>2. ~VenFatal(objs, file, i)
  BY DEF Fatal, RowFatal
<1>3. PICK x \in ById(objs, r) : t \in Update(i, x, r.name, r.text, x.items)
  BY <1>1, <1>2 DEF Ven, None
<1> DEFINE q == [name |-> r.name, text |-> r.text, items |-> x.items]
<1>4. Fits(r, q) /\ Settles(i, q)
  BY DEF Fits, Asks, Settles
<1>5. x \in Mine(objs, r)
  BY <1>1, <1>3, MineIs
<1>6. t \in Update(i, x, q.name, q.text, q.items)
  BY <1>3
<1> HIDE DEF q
<1> QED
  BY <1>1, <1>4, <1>5, <1>6, UpdateMakes, UpdateSettles DEF Right

LEMMA CwpRight ==
  ASSUME IdInv, GoodFile, cmd = "cwp",
         NEW i \in DOMAIN file, NEW t \in RowTasks(objs, refs, file, i), t.op # "ref"
  PROVE  Right(i, t)
<1> DEFINE r == file[i]
<1>1. t \in Cwp(objs, refs, file, i) /\ r.href # 0 /\ r.items \cap r.drop = {}
  BY DEF RowTasks, GoodFile, AllHrefs
<1>2. PICK x \in ById(objs, r) :
        t \in Update(i, x, Cell(r.name, x.name), Cell(r.text, x.text), CwpLabels(x, r))
  BY <1>1 DEF Cwp, None
<1> DEFINE q == [name |-> Cell(r.name, x.name), text |-> Cell(r.text, x.text),
                 items |-> CwpLabels(x, r)]
<1>3. Fits(r, q)
  <2>1. \A new, old : new \in {Blank, Remove, Cell(new, old)}
    BY DEF Cell
  <2>2. r.items \subseteq CwpLabels(x, r) /\ CwpLabels(x, r) \cap r.drop = {}
    BY <1>1 DEF CwpLabels
  <2> QED
    BY <2>1, <2>2 DEF Fits, Asks
<1>4. Converging => Settles(i, q)
  <2>1. \A new, old : Cell(new, Cell(new, old)) = Cell(new, old)
    BY ImportAssumption DEF Cell
  <2>2. Converging => r.drop = {}
    BY DEF Converging
  <2>3. r.drop = {} => CwpLabels(q, r) = CwpLabels(x, r)
    BY DEF CwpLabels
  <2> QED
    BY <2>1, <2>2, <2>3 DEF Settles
<1>5. x \in Mine(objs, r)
  BY <1>1, <1>2, MineIs
<1>6. t \in Update(i, x, q.name, q.text, q.items)
  BY <1>2
<1> HIDE DEF q
<1> QED
  BY <1>1, <1>3, <1>4, <1>5, <1>6, UpdateMakes, UpdateSettles DEF Right

LEMMA RulesetRight ==
  ASSUME IdInv, ~Fatal(objs, refs), cmd = "ruleset",
         NEW i \in DOMAIN file, NEW t \in RowTasks(objs, refs, file, i)
  PROVE  Right(i, t)
<1> DEFINE r == file[i]
<1>0. t \in Ruleset(objs, refs, file, i) /\ r \in Row /\ ~RulesetFatal(objs, refs, r)
  BY DEF RowTasks, Fatal, RowFatal, IdInv
<1>1. CASE r.href = 0
  <2> DEFINE q == [r EXCEPT !.items = @ \cap refs]
  <2>1. t \in Create(i, q)
    BY <1>0, <1>1 DEF Ruleset
  <2>2. q.name = r.name /\ q.text = r.text /\ q.items = r.items
    BY <1>0, <1>1 DEF Row, RulesetFatal
  <2> HIDE DEF q
  <2>3. Fits(r, q)
    BY <2>2 DEF Fits, Asks
  <2>4. ~Converging
    BY <1>1 DEF Converging, AllHrefs
  <2> QED
    BY <1>1, <2>1, <2>2, <2>3, <2>4, CreateMakes DEF Right
<1>2. CASE r.href # 0
  <2>1. PICK x \in ById(objs, r) : t \in Update(i, x, r.name, r.text, x.items)
    BY <1>0, <1>2 DEF Ruleset
  <2> DEFINE q == [name |-> r.name, text |-> r.text, items |-> x.items]
  <2>2. Fits(r, q) /\ Settles(i, q)
    BY <1>2 DEF Fits, Asks, Settles
  <2>3. x \in Mine(objs, r)
    BY <1>2, <2>1, MineIs
  <2>4. t \in Update(i, x, q.name, q.text, q.items)
    BY <2>1
  <2> HIDE DEF q
  <2> QED
    BY <1>2, <2>2, <2>3, <2>4, UpdateMakes, UpdateSettles DEF Right
<1> QED
  BY <1>1, <1>2

LEMMA DenyRuleRight ==
  ASSUME IdInv, ~Fatal(objs, refs), cmd = "denyrule",
         NEW i \in DOMAIN file, NEW t \in RowTasks(objs, refs, file, i)
  PROVE  Right(i, t)
<1> DEFINE r == file[i]
           q == [r EXCEPT !.items = @ \cap refs]
<1>0. t \in DenyRule(objs, refs, file, i) /\ r \in Row /\ ~DenyRuleFatal(objs, refs, r)
  BY DEF RowTasks, Fatal, RowFatal, IdInv
<1>1. q.name = r.name /\ q.text = r.text /\ q.href = r.href /\ q.items = r.items \cap refs
  BY <1>0 DEF Row
<1>2. ById(objs, q) = ById(objs, r)
  BY <1>1 DEF ById
<1>3. r.items \subseteq refs => Fits(r, q) /\ Settles(i, q)
  <2> HIDE DEF q
  <2> QED
    BY <1>1 DEF Fits, Asks, Settles
<1>4. CASE r.href = 0
  <2>1. t \in Create(i, q)
    BY <1>0, <1>1, <1>4 DEF DenyRule
  <2>2. r.items \subseteq refs
    BY <1>0, <1>4 DEF DenyRuleFatal, DenyRuleSkips
  <2> HIDE DEF q
  <2> QED
    BY <1>1, <1>3, <1>4, <2>1, <2>2, CreateMakes, CreateSettles DEF Right
<1>5. CASE r.href # 0
  <2>1. PICK x \in ById(objs, q) : t \in Update(i, x, q.name, q.text, q.items)
    BY <1>0, <1>1, <1>5 DEF DenyRule
  <2>2. x \in Mine(objs, r) /\ ById(objs, r) # {}
    BY <1>2, <1>5, <2>1, MineIs
  <2>3. r.items \subseteq refs
    BY <1>0, <2>2 DEF DenyRuleFatal, DenyRuleSkips
  <2> HIDE DEF q
  <2> QED
    BY <1>1, <1>3, <1>5, <2>1, <2>2, <2>3, UpdateMakes, UpdateSettles DEF Right
<1> QED
  BY <1>4, <1>5

LEMMA PlanIsRight ==
  ASSUME IdInv, GoodFile, ~Fatal(objs, refs), NEW k \in DOMAIN file, NEW i \in DOMAIN file,
         Alike(k, i), NEW t \in RowTasks(objs, refs, file, k), t.op # "ref"
  PROVE  Right(i, t)
<1>1. k = i \/ (cmd = "svc" /\ ~flags.meta) \/ cmd = "label"
  BY DEF Alike, Kin
<1>2. cmd \in Commands
  BY DEF IdInv
<1> QED
  BY <1>1, <1>2, IplRight, SvcRight, SvcMetaRight, LabelGroupRight, LabelRight, DimensionRight,
     NamedRight, PermissionRight, VenRight, CwpRight, RulesetRight, DenyRuleRight DEF Commands

\* The first of a set of places in a list.
LEMMA FirstPlace ==
  ASSUME NEW n \in Nat, NEW C \in SUBSET (1..n), C # {}
  PROVE  \E i \in C : \A j \in C : i <= j
<1> DEFINE Below(i) == {j \in C : j < i}
           W == {Below(i) : i \in C}
<1>0. \A i \in C : i \in Nat
  OBVIOUS
<1>1. IsFiniteSet(C)
  <2>1. IsFiniteSet(1..n)
    BY FS_Interval
  <2> QED
    BY <2>1, FS_Subset
<1>2. IsWellFoundedOn(StrictSubsetOrdering(C), FiniteSubsetsOf(C))
  BY <1>1, FS_StrictSubsetOrderingWellFounded
<1>3. W \subseteq FiniteSubsetsOf(C) /\ W # {}
  <2>1. \A i \in C : Below(i) \subseteq C
    OBVIOUS
  <2>2. \A i \in C : IsFiniteSet(Below(i))
    BY <1>1, <2>1, FS_Subset
  <2> QED
    BY <2>1, <2>2 DEF FiniteSubsetsOf
<1>4. PICK S \in W : \A R \in W : ~ (<<R, S>> \in StrictSubsetOrdering(C))
  <2> HIDE DEF W
  <2> QED
    BY <1>2, <1>3, WFMin
<1>5. PICK i \in C : S = Below(i)
  BY <1>4
<1>6. ASSUME NEW j \in C, j < i PROVE FALSE
  <2> HIDE DEF W
  <2>1. Below(j) \subseteq Below(i) /\ j \in Below(i) /\ j \notin Below(j)
    <3>1. i \in Nat /\ j \in Nat
      BY <1>0
    <3>2. \A k \in C : k < j => k < i
      BY <1>0, <1>6, <3>1
    <3>3. ~ (j < j)
      BY <3>1
    <3> QED
      BY <1>6, <3>2, <3>3
  <2> USE DEF W
  <2>2. Below(j) \in W /\ Below(j) \subseteq C /\ Below(i) \subseteq C
    OBVIOUS
  <2>3. <<Below(j), Below(i)>> \in StrictSubsetOrdering(C)
    <3> HIDE DEF Below, W
    <3> QED
      BY <2>1, <2>2 DEF StrictSubsetOrdering
  <2> QED
    BY <1>4, <1>5, <2>2, <2>3
<1> QED
  BY <1>0, <1>6

\* Among the rows of a name, and of a name that have no href, one comes first.
LEMMA FirstRow ==
  ASSUME file \in Seq(Row), NEW i \in DOMAIN file
  PROVE  /\ \E f \in DOMAIN file : file[f].name = file[i].name /\ SvcFirst(file, f)
         /\ file[i].href = 0 =>
              \E f \in DOMAIN file :
                /\ file[f].name = file[i].name /\ file[f].href = 0
                /\ \A j \in 1..(f - 1) : file[j].href = 0 => file[j].name # file[f].name
<1> DEFINE A == {j \in DOMAIN file : file[j].name = file[i].name}
           B == {j \in A : file[j].href = 0}
<1>1. Len(file) \in Nat /\ DOMAIN file = 1..Len(file)
  OBVIOUS
<1>2. \A f \in DOMAIN file : \A j \in 1..(f - 1) : j \in DOMAIN file /\ ~(f <= j)
  BY <1>1
<1>3. A \in SUBSET (1..Len(file)) /\ A # {}
  BY <1>1
<1>4. PICK f \in A : \A j \in A : f <= j
  BY <1>1, <1>3, FirstPlace
<1>5. SvcFirst(file, f)
  BY <1>2, <1>4 DEF SvcFirst
<1>6. ASSUME file[i].href = 0
      PROVE  \E g \in B : \A j \in B : g <= j
  <2>1. B \in SUBSET (1..Len(file)) /\ B # {}
    BY <1>1, <1>6
  <2> HIDE DEF B
  <2> QED
    BY <1>1, <2>1, FirstPlace
<1>7. ASSUME file[i].href = 0
      PROVE  \E g \in DOMAIN file :
               /\ file[g].name = file[i].name /\ file[g].href = 0
               /\ \A j \in 1..(g - 1) : file[j].href = 0 => file[j].name # file[g].name
  <2>1. PICK g \in B : \A j \in B : g <= j
    BY <1>6, <1>7
  <2> QED
    BY <1>2, <2>1
<1> QED
  BY <1>4, <1>5, <1>7

\* A command that looks for the object of a row answers the row: it changes what
\* it finds, unless there is nothing to change, and creates what it must have.
Answered(i) ==
  LET r == file[i]  T == Tasks(objs, refs) IN
  /\ \A x \in Mine(objs, r) :
       \/ Settles(i, x) /\ (Fits(r, x) \/ Unreadable(r))
       \/ \E t \in T : t.op = "update" /\ t.id = x.id /\ Makes(r, t)
  /\ Mine(objs, r) = {} /\ NeedsOne(r) => \E t \in T : t.op = "create" /\ Makes(r, t)

\* The calls planned for a row, or for the first row of its kind.
LEMMA UpdatePlanned ==
  ASSUME IdInv, GoodFile, ~Fatal(objs, refs), NEW k \in DOMAIN file, NEW i \in DOMAIN file,
         Alike(k, i), NEW x, NEW name, NEW text, NEW items,
         Update(k, x, name, text, items) \subseteq RowTasks(objs, refs, file, k)
  PROVE  \E t \in Tasks(objs, refs) : t.op = "update" /\ t.id = x.id /\ Makes(file[i], t)
<1>1. PICK t \in Update(k, x, name, text, items) : TRUE
  BY DEF Update
<1>2. t.op = "update" /\ t.id = x.id
  BY UpdateIs
<1>3. Makes(file[i], t)
  BY <1>2, PlanIsRight DEF Right
<1> QED
  BY <1>2, <1>3 DEF Tasks

LEMMA CreatePlanned ==
  ASSUME IdInv, GoodFile, ~Fatal(objs, refs), NEW k \in DOMAIN file, NEW i \in DOMAIN file,
         Alike(k, i), NEW q,
         Create(k, q) \subseteq RowTasks(objs, refs, file, k)
  PROVE  \E t \in Tasks(objs, refs) : t.op = "create" /\ Makes(file[i], t)
<1>1. PICK t \in Create(k, q) : TRUE
  BY DEF Create
<1>2. t.op = "create"
  BY CreateIs
<1>3. Makes(file[i], t)
  BY <1>2, PlanIsRight DEF Right
<1> QED
  BY <1>2, <1>3 DEF Tasks

LEMMA SomeUpdate ==
  ASSUME NEW k, NEW x, NEW name, NEW text, NEW items
  PROVE  Update(k, x, name, text, items) # {}
BY DEF Update

LEMMA IplAnswers ==
  ASSUME IdInv, GoodFile, ~Fatal(objs, refs), cmd = "ipl", NEW i \in DOMAIN file,
         IplRead(file[i])
  PROVE  Answered(i)
<1> DEFINE r == file[i]
<1>1. RowTasks(objs, refs, file, i) = Ipl(objs, file, i)
  BY DEF RowTasks
<1>2. Alike(i, i) /\ IplMatch(objs, r) = Mine(objs, r)
  BY MineIs DEF Alike, IplMatch
<1>3. ASSUME NEW x \in Mine(objs, r), IplDiffers(file, x, r)
      PROVE  \E t \in Tasks(objs, refs) : t.op = "update" /\ t.id = x.id /\ Makes(r, t)
  <2>1. Update(i, x, r.name, r.text, r.items) \subseteq RowTasks(objs, refs, file, i)
    BY <1>1, <1>2, <1>3 DEF Ipl
  <2> QED
    BY <1>2, <2>1, UpdatePlanned
<1>4. ASSUME NEW x \in Mine(objs, r), ~IplDiffers(file, x, r)
      PROVE  Settles(i, x) /\ Fits(r, x)
  <2>1. \A p \in Range(file) : p.name = r.name => p = r
    BY DEF GoodFile, Alike, Kin, Range
  <2>2. x.name = r.name /\ x.text = r.text /\ x.items = r.items
    BY <1>4, <2>1 DEF IplDiffers
  <2> QED
    BY <1>4, <2>2 DEF Settles, Fits, Asks
<1>5. ASSUME Mine(objs, r) = {}, NeedsOne(r)
      PROVE  \E t \in Tasks(objs, refs) : t.op = "create" /\ Makes(r, t)
  <2>1. Create(i, r) \subseteq RowTasks(objs, refs, file, i)
    BY <1>1, <1>2, <1>5 DEF Ipl, NeedsOne
  <2> QED
    BY <1>2, <2>1, CreatePlanned
<1> QED
  BY <1>3, <1>4, <1>5 DEF Answered

\* The first row of a service plans for all of them.
LEMMA SvcFirstRow ==
  ASSUME GoodFile, cmd = "svc", ~flags.meta, NEW i \in DOMAIN file
  PROVE  \E f \in DOMAIN file :
           /\ SvcFirst(file, f) /\ Alike(f, i)
           /\ file[f].name = file[i].name /\ file[f].href = file[i].href
<1>1. file \in Seq(Row)
  BY DEF GoodFile
<1>2. PICK f \in DOMAIN file : file[f].name = file[i].name /\ SvcFirst(file, f)
  BY <1>1, FirstRow
<1>3. CASE AllHrefs
  BY <1>2, <1>3 DEF GoodFile, AllHrefs, Alike, Kin
<1>4. CASE NoHrefs
  BY <1>2, <1>4 DEF NoHrefs, Alike, Kin
<1> QED
  BY <1>3, <1>4 DEF GoodFile

LEMMA SvcAnswers ==
  ASSUME IdInv, GoodFile, ~Fatal(objs, refs), cmd = "svc", ~flags.meta,
         flags.updateOnName \/ AllHrefs, NEW i \in DOMAIN file
  PROVE  Answered(i)
<1> DEFINE r == file[i]
<1>1. PICK f \in DOMAIN file : /\ SvcFirst(file, f) /\ Alike(f, i)
                               /\ file[f].name = r.name /\ file[f].href = r.href
  BY SvcFirstRow
<1> DEFINE q == SvcJoined(file, f)
<1>2. RowTasks(objs, refs, file, f) = Svc(objs, file, f)
  BY DEF RowTasks
<1>3. Mine(objs, file[f]) = Mine(objs, r)
  BY <1>1 DEF Mine, Of
<1>4. \A x \in Mine(objs, r) : x \in objs /\ x.id \in SvcHref(objs, file, f)
  <2>1. CASE AllHrefs
    BY <1>1, <1>3, <2>1, SvcFinds DEF IdInv, Mine, Of, AllHrefs
  <2>2. CASE ~AllHrefs
    BY <1>3, <2>2, SvcFinds DEF IdInv, Mine
  <2> QED
    BY <2>1, <2>2
<1>5. q.items = Ports(r.name) /\ SvcJoined(file, i).items = Ports(r.name)
  BY <1>1, SvcJoinedIs DEF IdInv
<1>6. SvcParsed(r) \subseteq Ports(r.name)
  BY DEF Ports, Range
<1> HIDE DEF q
<1>7. ASSUME NEW x \in Mine(objs, r), x.items # q.items
      PROVE  \E t \in Tasks(objs, refs) : t.op = "update" /\ t.id = x.id /\ Makes(r, t)
  <2>1. Update(f, x, q.name, q.text, q.items) \subseteq RowTasks(objs, refs, file, f)
    BY <1>1, <1>2, <1>4, <1>7 DEF Svc, q
  <2> QED
    BY <1>1, <2>1, UpdatePlanned
<1>8. ASSUME NEW x \in Mine(objs, r), x.items = q.items
      PROVE  Settles(i, x) /\ Fits(r, x)
  <2>1. Settles(i, x)
    BY <1>5, <1>8 DEF Settles
  <2>2. Asks(r, x)
    BY <1>5, <1>6, <1>8 DEF Asks
  <2> QED
    BY <2>1, <2>2 DEF Fits
<1>9. ASSUME Mine(objs, r) = {}, NeedsOne(r)
      PROVE  \E t \in Tasks(objs, refs) : t.op = "create" /\ Makes(r, t)
  <2>1. ~AllHrefs
    BY <1>9 DEF NeedsOne, AllHrefs
  <2>2. SvcHref(objs, file, f) = {}
    BY <1>3, <1>9, <2>1, SvcFinds DEF IdInv
  <2>3. Create(f, q) \subseteq RowTasks(objs, refs, file, f)
    BY <1>1, <1>2, <2>2 DEF Svc, q
  <2> QED
    BY <1>1, <2>3, CreatePlanned
<1> QED
  BY <1>7, <1>8, <1>9 DEF Answered

LEMMA SvcMetaAnswers ==
  ASSUME IdInv, GoodFile, ~Fatal(objs, refs), cmd = "svc", flags.meta, NEW i \in DOMAIN file
  PROVE  Answered(i)
<1> DEFINE r == file[i]
<1>1. RowTasks(objs, refs, file, i) = SvcMeta(objs, file, i)
  BY DEF RowTasks
<1>2. Alike(i, i) /\ SvcMetaMatch(objs, r) = Mine(objs, r) /\ Mine(objs, r) # {}
  BY MineIs DEF Alike, SvcMetaMatch, Fatal, RowFatal, SvcMetaFatal
<1>3. ASSUME NEW x \in Mine(objs, r), ~(x.name = r.name /\ x.text = r.text)
      PROVE  \E t \in Tasks(objs, refs) : t.op = "update" /\ t.id = x.id /\ Makes(r, t)
  <2>1. Update(i, x, r.name, r.text, x.items) \subseteq RowTasks(objs, refs, file, i)
    BY <1>1, <1>2, <1>3 DEF SvcMeta
  <2> QED
    BY <1>2, <2>1, UpdatePlanned
<1>4. ASSUME NEW x \in Mine(objs, r), x.name = r.name, x.text = r.text
      PROVE  Settles(i, x) /\ Fits(r, x)
  BY <1>4 DEF Settles, Fits, Asks
<1> QED
  BY <1>2, <1>3, <1>4 DEF Answered

LEMMA LabelGroupAnswers ==
  ASSUME IdInv, GoodFile, ~Fatal(objs, refs), cmd = "labelgroup", NEW i \in DOMAIN file,
         file[i].href # 0
  PROVE  Answered(i)
<1> DEFINE r == file[i]
<1>1. RowTasks(objs, refs, file, i) = UNION {LabelGroupUpdate(refs, i, x, r) : x \in ById(objs, r)}
  BY DEF RowTasks, LabelGroup
<1>2. Alike(i, i) /\ ById(objs, r) = Mine(objs, r) /\ ~NeedsOne(r)
  BY MineIs DEF Alike, NeedsOne
<1>3. ASSUME NEW x \in Mine(objs, r), LabelGroupUpdate(refs, i, x, r) # {}
      PROVE  \E t \in Tasks(objs, refs) : t.op = "update" /\ t.id = x.id /\ Makes(r, t)
  <2>1. PICK items : LabelGroupUpdate(refs, i, x, r) = Update(i, x, r.name, r.text, items)
    BY <1>3 DEF LabelGroupUpdate, None
  <2>2. Update(i, x, r.name, r.text, items) \subseteq RowTasks(objs, refs, file, i)
    BY <1>1, <1>2, <2>1
  <2> QED
    BY <1>2, <2>2, UpdatePlanned
<1>4. ASSUME NEW x \in Mine(objs, r), LabelGroupUpdate(refs, i, x, r) = {}
      PROVE  Settles(i, x) /\ (Fits(r, x) \/ Unreadable(r))
  <2> DEFINE members == IF r.items = {} THEN x.items ELSE r.items
  <2>1. \/ ~(members \ x.items \subseteq refs)
        \/ <<r.name, r.text, members>> = <<x.name, x.text, x.items>>
    BY <1>4, SomeUpdate DEF LabelGroupUpdate
  <2>2. CASE ~(members \ x.items \subseteq refs)
    <3>1. ~(r.items \subseteq refs)
      BY <2>2
    <3> QED
      BY <1>4, <3>1 DEF Settles, Unreadable
  <2>3. CASE <<r.name, r.text, members>> = <<x.name, x.text, x.items>>
    BY <1>4, <2>3 DEF Settles, Fits, Asks
  <2> QED
    BY <2>1, <2>2, <2>3
<1> QED
  BY <1>2, <1>3, <1>4 DEF Answered

LEMMA LabelAnswers ==
  ASSUME IdInv, GoodFile, ~Fatal(objs, refs), cmd = "label", NEW i \in DOMAIN file
  PROVE  Answered(i)
<1> DEFINE r == file[i]
<1>1. CASE r.href # 0
  <2>1. /\ RowTasks(objs, refs, file, i) =
             UNION {Update(i, x, r.name, r.text, x.items) :
                    x \in {y \in ById(objs, r) : <<y.name, y.text>> # <<r.name, r.text>>}}
        /\ Alike(i, i) /\ ById(objs, r) = Mine(objs, r) /\ ~NeedsOne(r)
    BY <1>1, MineIs DEF RowTasks, Label, Alike, NeedsOne
  <2>2. ASSUME NEW x \in Mine(objs, r), ~(x.name = r.name /\ x.text = r.text)
        PROVE  \E t \in Tasks(objs, refs) : t.op = "update" /\ t.id = x.id /\ Makes(r, t)
    <3>1. Update(i, x, r.name, r.text, x.items) \subseteq RowTasks(objs, refs, file, i)
      BY <2>1, <2>2
    <3> QED
      BY <2>1, <3>1, UpdatePlanned
  <2>3. ASSUME NEW x \in Mine(objs, r), x.name = r.name, x.text = r.text
        PROVE  Settles(i, x) /\ Fits(r, x)
    BY <2>3 DEF Settles, Fits, Asks
  <2> QED
    BY <2>1, <2>2, <2>3 DEF Answered
<1>2. CASE r.href = 0
  <2>1. \A x \in Mine(objs, r) : Settles(i, x) /\ Fits(r, x)
    BY <1>2 DEF Settles, Fits
  <2>2. ASSUME Mine(objs, r) = {}
        PROVE  \E t \in Tasks(objs, refs) : t.op = "create" /\ Makes(r, t)
    <3>1. PICK g \in DOMAIN file :
            /\ file[g].name = file[i].name /\ file[g].href = 0
            /\ \A j \in 1..(g - 1) : file[j].href = 0 => file[j].name # file[g].name
      BY <1>2, FirstRow DEF IdInv
    <3>2. Alike(g, i)
      BY <1>2, <3>1 DEF Alike, Kin
    <3>3. ByName(objs, file[g]) = {}
      BY <1>2, <2>2, <3>1 DEF Mine, Of, ByName
    <3>4. Create(g, file[g]) \subseteq RowTasks(objs, refs, file, g)
      BY <3>1, <3>3 DEF RowTasks, Label, LabelNew
    <3> QED
      BY <3>2, <3>4, CreatePlanned
  <2> QED
    BY <2>1, <2>2 DEF Answered
<1> QED
  BY <1>1, <1>2

LEMMA DimensionAnswers ==
  ASSUME IdInv, GoodFile, ~Fatal(objs, refs), cmd = "dimension", NEW i \in DOMAIN file
  PROVE  Answered(i)
<1> DEFINE r == file[i]
<1>1. RowTasks(objs, refs, file, i) = Dimension(objs, file, i)
  BY DEF RowTasks
<1>2. Alike(i, i) /\ DimensionMatch(objs, r) = Mine(objs, r)
  BY MineIs DEF Alike, DimensionMatch
<1>3. ASSUME NEW x \in Mine(objs, r), x.text # r.text \/ r.items \notin {{}, x.items}
      PROVE  \E t \in Tasks(objs, refs) : t.op = "update" /\ t.id = x.id /\ Makes(r, t)
  <2>1. Update(i, x, x.name, r.text, r.items) \subseteq RowTasks(objs, refs, file, i)
    BY <1>1, <1>2, <1>3 DEF Dimension
  <2> QED
    BY <1>2, <2>1, UpdatePlanned
<1>4. ASSUME NEW x \in Mine(objs, r), x.text = r.text, r.items \in {{}, x.items}
      PROVE  Settles(i, x) /\ Fits(r, x)
  BY <1>4 DEF Settles, Fits, Asks
<1>5. ASSUME Mine(objs, r) = {}
      PROVE  \E t \in Tasks(objs, refs) : t.op = "create" /\ Makes(r, t)
  <2>1. r.href = 0
    BY <1>5, MineIs DEF Fatal, RowFatal, DimensionFatal
  <2>2. Create(i, r) \subseteq RowTasks(objs, refs, file, i)
    BY <1>1, <1>2, <1>5, <2>1 DEF Dimension
  <2> QED
    BY <1>2, <2>2, CreatePlanned
<1> QED
  BY <1>3, <1>4, <1>5 DEF Answered

LEMMA AdGroupAnswers ==
  ASSUME IdInv, GoodFile, ~Fatal(objs, refs), cmd = "adgroup", NEW i \in DOMAIN file
  PROVE  Answered(i)
<1> DEFINE r == file[i]
<1>0. r.href = 0
  BY DEF GoodFile, NoHrefs
<1>1. RowTasks(objs, refs, file, i) = AdGroup(objs, file, i)
  BY DEF RowTasks
<1>2. Alike(i, i) /\ ByName(objs, r) = Mine(objs, r)
  BY <1>0, MineIs DEF Alike
<1>3. ASSUME NEW x \in Mine(objs, r), x.text # r.text
      PROVE  \E t \in Tasks(objs, refs) : t.op = "update" /\ t.id = x.id /\ Makes(r, t)
  <2>1. Update(i, x, x.name, r.text, x.items) \subseteq RowTasks(objs, refs, file, i)
    BY <1>1, <1>2, <1>3 DEF AdGroup
  <2> QED
    BY <1>2, <2>1, UpdatePlanned
<1>4. ASSUME NEW x \in Mine(objs, r), x.text = r.text
      PROVE  Settles(i, x) /\ Fits(r, x)
  BY <1>4 DEF Settles, Fits, Asks
<1>5. ASSUME Mine(objs, r) = {}
      PROVE  \E t \in Tasks(objs, refs) : t.op = "create" /\ Makes(r, t)
  <2>2. Create(i, r) \subseteq RowTasks(objs, refs, file, i)
    BY <1>1, <1>2, <1>5 DEF AdGroup
  <2> QED
    BY <1>2, <2>2, CreatePlanned
<1> QED
  BY <1>3, <1>4, <1>5 DEF Answered

\* The commands that update the object with the href of the row.
LEMMA HrefAnswers ==
  ASSUME IdInv, GoodFile, ~Fatal(objs, refs), cmd \in {"permission", "ven", "ruleset"},
         NEW i \in DOMAIN file, file[i].href # 0
  PROVE  Answered(i)
<1> DEFINE r == file[i]
<1>1. Alike(i, i) /\ ById(objs, r) = Mine(objs, r) /\ (NeedsOne(r) => Mine(objs, r) # {})
  BY MineIs DEF Alike, NeedsOne, Fatal, RowFatal, VenFatal
<1>2. CASE cmd = "permission"
  <2>1. RowTasks(objs, refs, file, i) =
          UNION {Update(i, x, x.name, r.text, x.items) : x \in {y \in ById(objs, r) : y.text # r.text}}
    BY <1>2 DEF RowTasks, Permission, HrefColumn, Range
  <2>2. ASSUME NEW x \in Mine(objs, r), x.text # r.text
        PROVE  \E t \in Tasks(objs, refs) : t.op = "update" /\ t.id = x.id /\ Makes(r, t)
    <3>1. Update(i, x, x.name, r.text, x.items) \subseteq RowTasks(objs, refs, file, i)
      BY <1>1, <2>1, <2>2
    <3> QED
      BY <1>1, <3>1, UpdatePlanned
  <2>3. ASSUME NEW x \in Mine(objs, r), x.text = r.text
        PROVE  Settles(i, x) /\ Fits(r, x)
    BY <1>2, <2>3 DEF Settles, Fits, Asks
  <2> QED
    BY <1>1, <2>2, <2>3 DEF Answered
<1>3. CASE cmd \in {"ven", "ruleset"}
  <2>1. ASSUME NEW x \in Mine(objs, r), ~(x.name = r.name /\ x.text = r.text)
        PROVE  \E t \in Tasks(objs, refs) : t.op = "update" /\ t.id = x.id /\ Makes(r, t)
    <3>1. CASE cmd = "ven"
      <4>1. Update(i, x, r.name, r.text, x.items) \subseteq RowTasks(objs, refs, file, i)
        BY <1>1, <2>1, <3>1 DEF RowTasks, Ven, VenFatal
      <4> QED
        BY <1>1, <4>1, UpdatePlanned
    <3>2. CASE cmd = "ruleset"
      <4>1. Update(i, x, r.name, r.text, x.items) \subseteq RowTasks(objs, refs, file, i)
        BY <1>1, <2>1, <3>2 DEF RowTasks, Ruleset
      <4> QED
        BY <1>1, <4>1, UpdatePlanned
    <3> QED
      BY <1>3, <3>1, <3>2
  <2>2. ASSUME NEW x \in Mine(objs, r), x.name = r.name, x.text = r.text
        PROVE  Settles(i, x) /\ Fits(r, x)
    BY <1>3, <2>2 DEF Settles, Fits, Asks
  <2> QED
    BY <1>1, <2>1, <2>2 DEF Answered
<1> QED
  BY <1>2, <1>3

LEMMA CwpAnswers ==
  ASSUME IdInv, GoodFile, ~Fatal(objs, refs), cmd = "cwp", NEW i \in DOMAIN file
  PROVE  Answered(i)
<1> DEFINE r == file[i]
           New(x) == <<Cell(r.name, x.name), Cell(r.text, x.text), CwpLabels(x, r)>>
           Old(x) == <<x.name, x.text, x.items>>
<1>0. r.href # 0
  BY DEF GoodFile, AllHrefs
<1>1. Alike(i, i) /\ ById(objs, r) = Mine(objs, r) /\ ~NeedsOne(r)
  BY <1>0, MineIs DEF Alike, NeedsOne
<1>2. ASSUME NEW x \in Mine(objs, r), r.drop # {} \/ New(x) # Old(x)
      PROVE  \E t \in Tasks(objs, refs) : t.op = "update" /\ t.id = x.id /\ Makes(r, t)
  <2>1. Update(i, x, Cell(r.name, x.name), Cell(r.text, x.text), CwpLabels(x, r))
          \subseteq RowTasks(objs, refs, file, i)
    BY <1>1, <1>2 DEF RowTasks, Cwp
  <2> QED
    BY <1>1, <2>1, UpdatePlanned
<1>3. ASSUME NEW x \in Mine(objs, r), r.drop = {}, New(x) = Old(x)
      PROVE  Settles(i, x) /\ Fits(r, x)
  <2>1. \A new, old : Cell(new, old) = old => new \in {Blank, Remove, old}
    BY DEF Cell
  <2>2. r.items \subseteq x.items
    BY <1>3 DEF CwpLabels
  <2>3. Settles(i, x)
    BY <1>3 DEF Settles
  <2> QED
    BY <1>3, <2>1, <2>2, <2>3 DEF Fits, Asks
<1> HIDE DEF New, Old
<1> QED
  BY <1>1, <1>2, <1>3 DEF Answered

LEMMA DenyRuleAnswers ==
  ASSUME IdInv, GoodFile, ~Fatal(objs, refs), cmd = "denyrule",
         NEW i \in DOMAIN file, file[i].href # 0
  PROVE  Answered(i)
<1> DEFINE r == file[i]
           q == [r EXCEPT !.items = @ \cap refs]
<1>0. r \in Row /\ ~DenyRuleFatal(objs, refs, r)
  BY DEF IdInv, Fatal, RowFatal
<1>1. q.name = r.name /\ q.text = r.text /\ q.href = r.href /\ q.items = r.items \cap refs
  BY <1>0 DEF Row
<1>2. Alike(i, i) /\ ById(objs, q) = Mine(objs, r) /\ ~NeedsOne(r)
  <2>1. ById(objs, q) = ById(objs, r)
    BY <1>1 DEF ById
  <2> QED
    BY <2>1, MineIs DEF Alike, NeedsOne
<1>3. ASSUME NEW x \in Mine(objs, r) PROVE r.items \subseteq refs
  BY <1>0, <1>3, MineIs DEF DenyRuleFatal, DenyRuleSkips
<1>4. ASSUME NEW x \in Mine(objs, r),
             \/ <<x.name, x.text>> # <<q.name, q.text>>
             \/ r.items # {} /\ q.items # x.items
      PROVE  \E t \in Tasks(objs, refs) : t.op = "update" /\ t.id = x.id /\ Makes(r, t)
  <2>1. Update(i, x, q.name, q.text, q.items) \subseteq RowTasks(objs, refs, file, i)
    <3>1. x \in {y \in ById(objs, q) : \/ <<y.name, y.text>> # <<q.name, q.text>>
                                       \/ (r.items # {} /\ q.items # y.items)}
      BY <1>2, <1>4
    <3>2. q.href # 0
      BY <1>1
    <3> QED
      BY <3>1, <3>2 DEF RowTasks, DenyRule
  <2> QED
    BY <1>2, <2>1, UpdatePlanned
<1> HIDE DEF q
<1>5. ASSUME NEW x \in Mine(objs, r),
             <<x.name, x.text>> = <<q.name, q.text>>,
             r.items = {} \/ q.items = x.items
      PROVE  Settles(i, x) /\ Fits(r, x)
  <2>1. x.name = r.name /\ x.text = r.text /\ (r.items = {} \/ r.items \cap refs = x.items)
    BY <1>1, <1>5
  <2>2. r.items \in {{}, x.items}
    BY <1>3, <2>1
  <2> QED
    BY <2>1, <2>2 DEF Settles, Fits, Asks
<1> QED
  BY <1>2, <1>4, <1>5 DEF Answered

\* The rows that a command only ever creates for.
LEMMA CreatesOnly ==
  ASSUME IdInv, GoodFile, ~Fatal(objs, refs), NEW i \in DOMAIN file, file[i].href = 0,
         \/ cmd \in {"labelgroup", "ruleset", "denyrule", "permission", "principal"}
         \/ cmd = "svc" /\ ~flags.meta /\ ~flags.updateOnName
  PROVE  Unreadable(file[i]) \/ \E t \in Tasks(objs, refs) : Makes(file[i], t)
<1> DEFINE r == file[i]
<1> SUFFICES ASSUME ~Unreadable(r)
             PROVE  \E k \in DOMAIN file : \E q : Alike(k, i) /\ Create(k, q) \subseteq RowTasks(objs, refs, file, k)
  BY CreatePlanned
<1>0. Alike(i, i)
  BY DEF Alike
<1>1. CASE cmd = "labelgroup"
  <2>1. Create(i, r) \subseteq RowTasks(objs, refs, file, i)
    BY <1>1 DEF RowTasks, LabelGroup, LabelGroupNew, GoodFile, Unreadable
  <2> QED
    BY <1>0, <2>1
<1>2. CASE cmd = "ruleset"
  <2>1. Create(i, [r EXCEPT !.items = @ \cap refs]) \subseteq RowTasks(objs, refs, file, i)
    BY <1>2 DEF RowTasks, Ruleset
  <2> QED
    BY <1>0, <2>1
<1>3. CASE cmd = "denyrule"
  <2> DEFINE q == [r EXCEPT !.items = @ \cap refs]
  <2>1. q.href = 0
    BY DEF IdInv, Row
  <2>2. Create(i, q) \subseteq RowTasks(objs, refs, file, i)
    BY <1>3, <2>1 DEF RowTasks, DenyRule
  <2> QED
    BY <1>0, <2>2
<1>4. CASE cmd = "permission"
  <2>1. ~HrefColumn(file) /\ r.name \in refs
    BY <1>4 DEF GoodFile, AllHrefs, NoHrefs, HrefColumn, Range, Unreadable
  <2>2. Create(i, [r EXCEPT !.items = r.items \cap refs]) \subseteq RowTasks(objs, refs, file, i)
    BY <1>4, <2>1 DEF RowTasks, Permission
  <2> QED
    BY <1>0, <2>2
<1>5. CASE cmd = "principal"
  <2>1. Create(i, r) \subseteq RowTasks(objs, refs, file, i)
    BY <1>5 DEF RowTasks, Principal
  <2> QED
    BY <1>0, <2>1
<1>6. CASE cmd = "svc" /\ ~flags.meta /\ ~flags.updateOnName
  <2>1. PICK f \in DOMAIN file : SvcFirst(file, f) /\ Alike(f, i)
    BY <1>6, SvcFirstRow
  <2>2. ~HrefColumn(file)
    BY <1>6 DEF GoodFile, AllHrefs, NoHrefs, HrefColumn, Range
  <2>3. SvcHref(objs, file, f) = {}
    BY <1>6, <2>2 DEF SvcHref
  <2>4. Create(f, SvcJoined(file, f)) \subseteq RowTasks(objs, refs, file, f)
    BY <1>6, <2>1, <2>3 DEF RowTasks, Svc
  <2> QED
    BY <2>1, <2>4
<1> QED
  BY <1>1, <1>2, <1>3, <1>4, <1>5, <1>6

LEMMA ReplaceWrites ==
  ASSUME IdInv, GoodFile, ~Fatal(objs, refs), cmd = "replace", NEW i \in DOMAIN file
  PROVE  \E t \in Tasks(objs, refs) : Makes(file[i], t)
<1> DEFINE r == file[i]
           q == [r EXCEPT !.items = @ \ {Invalid}]
<1>0. r \in Row /\ (ByName(objs, r) = {} => flags.create) /\ Alike(i, i)
  BY DEF IdInv, Fatal, RowFatal, ReplaceFatal, Alike
<1>1. RowTasks(objs, refs, file, i) = Replace(objs, file, i)
  BY DEF RowTasks
<1>2. ByName(objs, q) = ByName(objs, r)
  <2>1. q.name = r.name
    BY <1>0 DEF Row
  <2> QED
    BY <2>1 DEF ByName
<1>3. CASE ByName(objs, r) = {}
  <2>1. Create(i, q) \subseteq RowTasks(objs, refs, file, i)
    BY <1>0, <1>1, <1>2, <1>3 DEF Replace
  <2> QED
    BY <1>0, <2>1, CreatePlanned
<1>4. CASE ByName(objs, r) # {}
  <2>1. PICK x \in ByName(objs, r) : TRUE
    BY <1>4
  <2>2. Update(i, x, x.name, x.text, q.items) \subseteq RowTasks(objs, refs, file, i)
    BY <1>1, <1>2, <1>4, <2>1 DEF Replace
  <2> QED
    BY <1>0, <2>2, UpdatePlanned
<1> QED
  BY <1>3, <1>4

\* An undisturbed command that has read the PCE plans for every row.
LEMMA PlanAnswers ==
  ASSUME IdInv, GoodFile, ~Fatal(objs, refs), NEW i \in DOMAIN file
  PROVE  /\ Held(Tasks(objs, refs), i)
         /\ Converging => Compared(Tasks(objs, refs), i)
<1> DEFINE r == file[i]
<1>1. ASSUME Answered(i)
      PROVE  Held(Tasks(objs, refs), i) /\ Compared(Tasks(objs, refs), i)
  <2>1. CASE Mine(objs, r) = {} /\ ~NeedsOne(r)
    <3>1. Unreadable(r)
      BY <2>1, MineIs DEF NeedsOne, Unreadable
    <3> QED
      BY <2>1, <3>1 DEF Held, Compared
  <2>2. CASE Mine(objs, r) = {} /\ NeedsOne(r)
    BY <1>1, <2>2 DEF Answered, Held, Compared, Makes
  <2>3. CASE Mine(objs, r) # {}
    BY <1>1, <2>3 DEF Answered, Held, Compared
  <2> QED
    BY <2>1, <2>2, <2>3
<1>2. ASSUME ~Converging, Unreadable(r) \/ \E t \in Tasks(objs, refs) : Makes(r, t)
      PROVE  Held(Tasks(objs, refs), i)
  BY <1>2 DEF Held
<1>3. cmd \in Commands
  BY DEF IdInv
<1>4. r.href = 0 => ~AllHrefs
  BY DEF AllHrefs
<1>5. CASE cmd = "ipl"
  <2>1. CASE IplRead(r)
    BY <1>1, <1>5, <2>1, IplAnswers
  <2>2. CASE ~IplRead(r)
    BY <1>5, <2>2 DEF IplRead, Held, Compared, Unreadable
  <2> QED
    BY <2>1, <2>2
<1>6. CASE cmd = "svc" /\ flags.meta
  BY <1>1, <1>6, SvcMetaAnswers
<1>7. CASE cmd = "svc" /\ ~flags.meta /\ (flags.updateOnName \/ AllHrefs)
  BY <1>1, <1>7, SvcAnswers
<1>8. CASE cmd = "svc" /\ ~flags.meta /\ ~flags.updateOnName /\ ~AllHrefs
  <2>1. ~Converging /\ r.href = 0
    BY <1>8 DEF Converging, GoodFile, NoHrefs
  <2> QED
    BY <1>2, <1>8, <2>1, CreatesOnly
<1>9. CASE cmd \in {"labelgroup", "ruleset", "denyrule", "permission"} /\ r.href = 0
  <2>1. ~Converging
    BY <1>4, <1>9 DEF Converging
  <2> QED
    BY <1>2, <1>9, <2>1, CreatesOnly
<1>10. CASE cmd = "principal"
  <2>1. ~Converging /\ r.href = 0
    BY <1>10 DEF Converging, GoodFile, NoHrefs
  <2> QED
    BY <1>2, <1>10, <2>1, CreatesOnly
<1>11. CASE cmd = "replace"
  <2>1. ~Converging
    BY <1>11 DEF Converging
  <2> QED
    BY <1>2, <1>11, <2>1, ReplaceWrites
<1>12. CASE cmd \in {"labelgroup", "ruleset", "denyrule", "permission"} /\ r.href # 0
  BY <1>1, <1>12, LabelGroupAnswers, HrefAnswers, DenyRuleAnswers
<1>13. CASE cmd = "ven"
  <2>1. r.href # 0
    BY <1>13 DEF GoodFile, AllHrefs
  <2> QED
    BY <1>1, <1>13, <2>1, HrefAnswers
<1>14. CASE cmd \in {"label", "dimension", "adgroup", "cwp"}
  BY <1>1, <1>14, LabelAnswers, DimensionAnswers, AdGroupAnswers, CwpAnswers
<1> QED
  BY <1>3, <1>5, <1>6, <1>7, <1>8, <1>9, <1>10, <1>11, <1>12, <1>13, <1>14 DEF Commands

\* Where every row has its object, and the object nothing to change, the next
\* import plans nothing.
LEMMA NothingPlanned ==
  ASSUME IdInv, GoodFile, Converging, NEW i \in DOMAIN file, Compared({}, i)
  PROVE  RowTasks(objs, refs, file, i) = {}
<1> DEFINE r == file[i]
<1> USE DEF None
<1>0. cmd \in Commands /\ (AllHrefs => r.href # 0)
  BY DEF IdInv, AllHrefs
<1>a. r.href # 0 => Mine(objs, r) = ById(objs, r)
  BY MineIs
<1>b. r.href = 0 => Mine(objs, r) = ByName(objs, r)
  BY MineIs
<1>1. CASE cmd = "ipl"
  <2>1. CASE ~IplRead(r)
    BY <1>1, <2>1 DEF RowTasks, Ipl
  <2>2. CASE IplRead(r)
    <3>1. IplMatch(objs, r) = Mine(objs, r)
      BY <1>a, <1>b DEF IplMatch
    <3>2. \A x \in Mine(objs, r) : ~IplDiffers(file, x, r)
      BY <1>1, <2>2 DEF Compared, Settles
    <3>3. Mine(objs, r) = {} => r.href # 0
      BY <1>1, <2>2 DEF Compared, NeedsOne
    <3> QED
      BY <1>1, <2>2, <3>1, <3>2, <3>3 DEF RowTasks, Ipl
  <2> QED
    BY <2>1, <2>2
<1>2. ASSUME cmd # "ipl"
      PROVE  /\ \A x \in Mine(objs, r) : Settles(i, x)
             /\ NeedsOne(r) => Mine(objs, r) # {}
  BY <1>2 DEF Compared
<1>3. CASE cmd = "svc" /\ ~flags.meta
  <2>1. flags.updateOnName \/ AllHrefs
    BY <1>3 DEF Converging
  <2>2. SvcHref(objs, file, i) # {}
    <3>1. CASE AllHrefs
      BY <1>3, <3>1, SvcFinds DEF IdInv
    <3>2. CASE ~AllHrefs
      <4>1. r.href = 0
        BY <1>3, <3>2 DEF GoodFile, NoHrefs
      <4>2. Mine(objs, r) # {}
        BY <1>2, <1>3, <4>1 DEF NeedsOne
      <4> QED
        BY <1>3, <2>1, <3>2, <4>2, SvcFinds DEF IdInv
    <3> QED
      BY <3>1, <3>2
  <2>3. \A x \in objs : x.id \in SvcHref(objs, file, i) => x.items = SvcJoined(file, i).items
    <3>1. {x \in objs : x.id \in SvcHref(objs, file, i)} \subseteq Mine(objs, r)
      BY <1>3, SvcFinds DEF IdInv
    <3> QED
      BY <1>2, <1>3, <3>1 DEF Settles
  <2> QED
    BY <1>3, <2>2, <2>3 DEF RowTasks, Svc
<1>4. CASE cmd = "svc" /\ flags.meta
  <2>1. SvcMetaMatch(objs, r) = Mine(objs, r) /\ Mine(objs, r) # {}
    BY <1>2, <1>4, <1>a, <1>b DEF SvcMetaMatch, NeedsOne
  <2>2. \A x \in Mine(objs, r) : x.name = r.name /\ x.text = r.text
    BY <1>2, <1>4 DEF Settles
  <2>3. SvcMeta(objs, file, i) =
          UNION {IF x.name # r.name \/ x.text # r.text
                 THEN Update(i, x, r.name, r.text, x.items) ELSE {} : x \in Mine(objs, r)}
    BY <2>1 DEF SvcMeta
  <2> QED
    BY <1>4, <2>2, <2>3 DEF RowTasks
<1>5. CASE cmd = "labelgroup"
  <2>1. r.href # 0
    BY <1>0, <1>5 DEF Converging
  <2>2. \A x \in ById(objs, r) : LabelGroupUpdate(refs, i, x, r) = {}
    BY <1>2, <1>5, <1>a, <2>1 DEF Settles
  <2> QED
    BY <1>5, <2>1, <2>2 DEF RowTasks, LabelGroup
<1>6. CASE cmd = "label"
  <2>1. CASE r.href = 0
    BY <1>2, <1>6, <1>b, <2>1 DEF RowTasks, Label, LabelNew, NeedsOne
  <2>2. CASE r.href # 0
    <3>1. \A x \in ById(objs, r) : x.name = r.name /\ x.text = r.text
      BY <1>2, <1>6, <1>a, <2>2 DEF Settles
    <3> QED
      BY <1>6, <2>2, <3>1 DEF RowTasks, Label
  <2> QED
    BY <2>1, <2>2
<1>7. CASE cmd = "dimension"
  <2>1. DimensionMatch(objs, r) = Mine(objs, r) /\ Mine(objs, r) # {}
    BY <1>2, <1>7, <1>a, <1>b DEF DimensionMatch, NeedsOne
  <2>2. \A x \in Mine(objs, r) : x.text = r.text /\ r.items \in {{}, x.items}
    BY <1>2, <1>7 DEF Settles
  <2> QED
    BY <1>7, <2>1, <2>2 DEF RowTasks, Dimension
<1>8. CASE cmd = "adgroup"
  <2>1. r.href = 0
    BY <1>8 DEF GoodFile, NoHrefs
  <2>2. ByName(objs, r) # {} /\ \A x \in ByName(objs, r) : x.text = r.text
    BY <1>2, <1>8, <1>b, <2>1 DEF Settles, NeedsOne
  <2> QED
    BY <1>8, <2>2 DEF RowTasks, AdGroup
<1>9. CASE cmd = "permission"
  <2>1. r.href # 0
    BY <1>0, <1>9 DEF Converging
  <2>2. HrefColumn(file)
    BY <2>1 DEF HrefColumn, Range
  <2>3. \A x \in ById(objs, r) : x.text = r.text
    BY <1>2, <1>9, <1>a, <2>1 DEF Settles
  <2> QED
    BY <1>9, <2>2, <2>3 DEF RowTasks, Permission
<1>10. CASE cmd = "ven"
  <2>1. r.href # 0
    BY <1>0, <1>10 DEF GoodFile
  <2>2. ~VenFatal(objs, file, i)
    BY <1>2, <1>10, <1>a, <2>1 DEF NeedsOne, VenFatal
  <2>3. \A x \in ById(objs, r) : x.name = r.name /\ x.text = r.text
    BY <1>2, <1>10, <1>a, <2>1 DEF Settles
  <2>4. Ven(objs, file, i) =
          UNION {IF <<x.name, x.text>> # <<r.name, r.text>>
                 THEN Update(i, x, r.name, r.text, x.items) ELSE {} : x \in ById(objs, r)}
    BY <2>2 DEF Ven
  <2> QED
    BY <1>10, <2>3, <2>4 DEF RowTasks
<1>11. CASE cmd = "cwp"
  <2>1. r.href # 0 /\ r.drop = {}
    BY <1>0, <1>11 DEF GoodFile, Converging
  <2>2. \A x \in ById(objs, r) :
          <<Cell(r.name, x.name), Cell(r.text, x.text), CwpLabels(x, r)>> = <<x.name, x.text, x.items>>
    BY <1>2, <1>11, <1>a, <2>1 DEF Settles
  <2> QED
    BY <1>11, <2>1, <2>2 DEF RowTasks, Cwp
<1>12. CASE cmd = "ruleset"
  <2>1. r.href # 0
    BY <1>0, <1>12 DEF Converging
  <2>2. \A x \in ById(objs, r) : x.name = r.name /\ x.text = r.text
    BY <1>2, <1>12, <1>a, <2>1 DEF Settles
  <2> QED
    BY <1>12, <2>1, <2>2 DEF RowTasks, Ruleset
<1>13. CASE cmd = "denyrule"
  <2> DEFINE q == [r EXCEPT !.items = @ \cap refs]
  <2>1. r.href # 0
    BY <1>0, <1>13 DEF Converging
  <2>2. q.name = r.name /\ q.text = r.text /\ q.href = r.href /\ q.items = r.items \cap refs
    BY DEF IdInv, Row
  <2>3. ById(objs, q) = ById(objs, r)
    BY <2>2 DEF ById
  <2>4. \A x \in ById(objs, r) : /\ x.name = r.name /\ x.text = r.text
                                 /\ r.items = {} \/ r.items \cap refs = x.items
    BY <1>2, <1>13, <1>a, <2>1 DEF Settles
  <2>5. DenyRule(objs, refs, file, i) =
          UNION {Update(i, x, q.name, q.text, q.items) :
                 x \in {y \in ById(objs, q) : \/ <<y.name, y.text>> # <<q.name, q.text>>
                                              \/ (r.items # {} /\ q.items # y.items)}}
    BY <2>1, <2>2 DEF DenyRule
  <2> HIDE DEF q
  <2> QED
    BY <1>13, <2>2, <2>3, <2>4, <2>5 DEF RowTasks
<1>14. cmd \notin {"principal", "replace"}
  BY DEF Converging
<1> QED
  BY <1>0, <1>1, <1>3, <1>4, <1>5, <1>6, <1>7, <1>8, <1>9, <1>10, <1>11, <1>12, <1>13, <1>14
     DEF Commands

\* What RowInv says of an undisturbed run that has ended.
LEMMA RowsDone ==
  ASSUME RowInv
  PROVE  RowsHold /\ Converges
<1>1. ASSUME settled, NEW i \in DOMAIN file
      PROVE  \/ Unreadable(file[i])
             \/ \E x \in objs : file[i].href \in {0, x.id} /\ Asks(file[i], x)
             \/ cmd = "label" /\ file[i].href = 0 /\ ByName(objs, file[i]) # {}
  <2> DEFINE r == file[i]
  <2>1. Held({}, i)
    BY <1>1 DEF RowInv, Rows
  <2>2. CASE Unreadable(r)
    BY <2>2
  <2>3. ASSUME NEW x \in Mine(objs, r), Fits(r, x)
        PROVE  \/ \E y \in objs : r.href \in {0, y.id} /\ Asks(r, y)
               \/ cmd = "label" /\ r.href = 0 /\ ByName(objs, r) # {}
    BY <2>3 DEF Mine, Of, Fits, ByName
  <2> QED
    BY <2>1, <2>2, <2>3 DEF Held
<1>2. RowsHold
  BY <1>1 DEF RowsHold, Range
<1>3. Converges
  <2>1. ASSUME settled, Converging PROVE Tasks(objs, refs) = {}
    <3>1. \A i \in DOMAIN file : RowTasks(objs, refs, file, i) = {}
      BY <2>1, NothingPlanned DEF RowInv, RowsApart, Rows
    <3> QED
      BY <3>1 DEF Tasks
  <2>2. /\ (\A r \in Range(file) : r.href # 0) => AllHrefs
        /\ (\A r \in Range(file) : r.drop = {}) => \A i \in DOMAIN file : file[i].drop = {}
    BY DEF Range, AllHrefs
  <2> QED
    BY <2>1, <2>2 DEF Converges, Converging
<1> QED
  BY <1>2, <1>3

\* What does not change while the calls are made.
LEMMA SameRows ==
  ASSUME UNCHANGED <<cmd, file, flags>>, refs' = refs \/ cmd = "cwp"
  PROVE  /\ (AllHrefs' <=> AllHrefs) /\ (NoHrefs' <=> NoHrefs) /\ (Converging' <=> Converging)
         /\ \A i, j : Alike(i, j)' <=> Alike(i, j)
         /\ \A r : NeedsOne(r)' <=> NeedsOne(r)
         /\ \A t, x : NameFits(t, x)' <=> NameFits(t, x)
         /\ \A t, n : Written(t, n)' = Written(t, n)
         /\ \A r, x : Fits(r, x)' <=> Fits(r, x)
         /\ \A r, t : Makes(r, t)' <=> Makes(r, t)
         /\ \A i, x : Settles(i, x)' <=> Settles(i, x)
<1>1. (AllHrefs' <=> AllHrefs) /\ (NoHrefs' <=> NoHrefs)
  BY DEF AllHrefs, NoHrefs
<1>2. Converging' <=> Converging
  BY <1>1 DEF Converging
<1>3. \A i, j : Alike(i, j)' <=> Alike(i, j)
  BY DEF Alike, Kin
<1>4. \A r : NeedsOne(r)' <=> NeedsOne(r)
  BY DEF NeedsOne
<1>5. \A t, x : NameFits(t, x)' <=> NameFits(t, x)
  BY <1>1 DEF NameFits
<1>6. After' = After
  BY DEF After, IplFollow, SvcFollow, LabelGroupFollow, LabelFollow, DimensionFollow,
         AdGroupFollow, PrincipalFollow, PermissionFollow, VenFollow, CwpFollow,
         RulesetFollow, DenyRuleFollow, ReplaceFollow
<1>7. \A t, n : Written(t, n)' = Written(t, n)
  BY <1>6 DEF Written
<1>8. \A r, x : Fits(r, x)' <=> Fits(r, x)
  <2>1. \A r, x : Asks(r, x)' <=> Asks(r, x)
    BY DEF Asks
  <2> QED
    BY <2>1 DEF Fits
<1>9. \A r, t : Makes(r, t)' <=> Makes(r, t)
  BY <1>7, <1>8 DEF Makes
<1>10. \A i, x : Settles(i, x)' <=> Settles(i, x)
  <2>1. \A i : SvcJoined(file, i)' = SvcJoined(file, i)
    BY DEF SvcJoined
  <2>2. \A f, x, r : IplDiffers(f, x, r)' <=> IplDiffers(f, x, r)
    OBVIOUS
  <2>3. CASE refs' = refs
    BY <2>1, <2>3 DEF Settles
  <2>4. CASE cmd = "cwp"
    BY <2>4 DEF Settles
  <2> QED
    BY <2>3, <2>4
<1> QED
  BY <1>1, <1>2, <1>3, <1>4, <1>5, <1>7, <1>8, <1>9, <1>10

LEMMA EffectIs ==
  ASSUME IdInv, NEW t, t.op \in {"create", "update"}, Possible(t), Effect(t)
  PROVE  LET w == Written(t, Subject(t)) IN
         /\ objs' = {x \in objs : x.id # w.id} \cup {w}
         /\ w.id = Subject(t) /\ w.name = t.name /\ w.text = t.text /\ w.items = t.items
         /\ t.op = "create" => w.id = nextId /\ nextId <= MaxObjs /\ nextId' = nextId + 1
         /\ t.op = "update" => w.id = t.id /\ nextId' = nextId /\ \E x \in objs : x.id = t.id
         /\ refs' = refs
<1> DEFINE w == Written(t, Subject(t))
<1>1. w.id = Subject(t) /\ w.name = t.name /\ w.text = t.text /\ w.items = t.items
  BY WrittenIs
<1>2. CASE t.op = "create"
  <2>1. objs' = objs \cup {w} /\ nextId' = nextId + 1 /\ refs' = refs /\ Subject(t) = nextId
    BY <1>2 DEF Effect, Subject
  <2>2. \A x \in objs : x.id # nextId
    BY DEF IdInv, Known
  <2> HIDE DEF w
  <2> QED
    BY <1>1, <1>2, <2>1, <2>2 DEF Possible, w
<1>3. CASE t.op = "update"
  <2>1. /\ objs' = {x \in objs : x.id # t.id} \cup {w} /\ nextId' = nextId /\ refs' = refs
        /\ Subject(t) = t.id
    BY <1>3 DEF Effect, Subject
  <2> HIDE DEF w
  <2> QED
    BY <1>1, <1>3, <2>1 DEF Possible, w
<1> QED
  BY <1>2, <1>3

\* What a planned update writes is about its row only.
LEMMA AimedOnce ==
  ASSUME RowsApart, NEW T, Aimed(T), NEW t \in T, t.op = "update",
         NEW x \in objs, x.id = t.id, NEW i \in DOMAIN file, x \in Mine(objs, file[i])
  PROVE  t.line \in DOMAIN file /\ Alike(t.line, i)
BY DEF RowsApart, Apart, Aimed

LEMMA EffectKeepsApart ==
  ASSUME IdInv, RowsApart, Aimed(todo), \A u \in todo : u.op = "update" => u.id \in 0..(nextId - 1),
         NEW t \in todo, Possible(t), Effect(t), todo' = todo \ {t}, UNCHANGED <<cmd, file, flags>>
  PROVE  /\ IdInv' /\ RowsApart' /\ Aimed(todo)'
         /\ \A u \in todo' : u.op = "update" => u.id \in 0..(nextId' - 1)
<1> DEFINE w == Written(t, Subject(t))
<1>0. t.op \in {"ref", "create", "update"} /\ (t.op = "ref" => cmd = "cwp")
  BY DEF Aimed
<1>1. CASE t.op = "ref"
  <2>1. UNCHANGED <<objs, nextId>>
    BY <1>1 DEF Effect
  <2>2. /\ \A i, j : Alike(i, j)' <=> Alike(i, j)
        /\ \A u, x : NameFits(u, x)' <=> NameFits(u, x)
        /\ (AllHrefs' <=> AllHrefs) /\ (NoHrefs' <=> NoHrefs)
    BY <1>0, <1>1, SameRows
  <2>3. IdInv' /\ GoodFile' /\ Apart'
    BY <2>1, <2>2 DEF IdInv, Known, RowsApart, GoodFile, Apart
  <2>4. Aimed(todo)'
    BY <2>1, <2>2 DEF Aimed
  <2> QED
    BY <2>1, <2>3, <2>4 DEF RowsApart
<1>2. CASE t.op \in {"create", "update"}
  <2>1. /\ objs' = {x \in objs : x.id # w.id} \cup {w} /\ w.name = t.name
        /\ t.op = "create" => w.id = nextId /\ nextId <= MaxObjs /\ nextId' = nextId + 1
        /\ t.op = "update" => w.id = t.id /\ nextId' = nextId /\ \E x \in objs : x.id = t.id
        /\ refs' = refs
    BY <1>2, EffectIs
  <2> HIDE DEF w
  <2>2. /\ \A i, j : Alike(i, j)' <=> Alike(i, j)
        /\ \A u, x : NameFits(u, x)' <=> NameFits(u, x)
        /\ (AllHrefs' <=> AllHrefs) /\ (NoHrefs' <=> NoHrefs)
    BY <2>1, SameRows
  <2>3. /\ nextId \in Nat \ {0} /\ nextId' \in Nat \ {0} /\ nextId <= nextId'
        /\ w.id \in 1..(nextId' - 1) /\ \A x \in objs : x.id \in 1..(nextId - 1)
    BY <1>2, <2>1 DEF IdInv, Known
  <2>4. IdInv'
    BY EffectKeepsIds
  <2>5. \A i \in DOMAIN file : file[i].href \in Nat /\ MaxObjs \in Nat
    <3>1. \A i \in DOMAIN file : file[i] \in Row
      BY DEF IdInv
    <3> QED
      BY <3>1, ImportAssumption DEF Row
  <2>6. GoodFile'
    <3>1. \A i \in DOMAIN file : file[i].href < nextId' \/ file[i].href > MaxObjs
      BY <2>3, <2>5 DEF RowsApart, GoodFile
    <3> QED
      BY <2>2, <3>1 DEF RowsApart, GoodFile
  <2>7. ASSUME NEW y \in objs, t.op = "update", y.id = t.id
        PROVE  /\ y \in Mine(objs, file[t.line]) /\ t.line \in DOMAIN file
               /\ ~AllHrefs => IF cmd = "dimension" THEN w.name = y.name
                                                    ELSE w.name = file[t.line].name
    BY <2>1, <2>7 DEF Aimed, NameFits
  <2>8. ASSUME NEW i \in DOMAIN file, NEW j \in DOMAIN file, Of(file[i], w), Of(file[j], w),
               file[i].href # 0, file[j].href = 0
        PROVE  Alike(i, j)
    <3>1. w.id = file[i].href /\ w.name = file[j].name /\ ~AllHrefs
      BY <2>8 DEF Of, AllHrefs
    <3>2. t.op = "update"
      <4>1. file[i].href < nextId \/ file[i].href > MaxObjs
        BY DEF RowsApart, GoodFile
      <4>2. file[i].href # nextId \/ ~(nextId <= MaxObjs)
        BY <2>3, <2>5, <4>1
      <4> QED
        BY <1>2, <2>1, <3>1, <4>2
    <3>3. PICK y \in objs : y.id = t.id
      BY <2>1, <3>2
    <3>4. y \in Mine(objs, file[i])
      BY <2>1, <2>8, <3>1, <3>2, <3>3 DEF Mine, Of
    <3>5. CASE cmd = "dimension"
      <4>1. y \in Mine(objs, file[j])
        BY <2>7, <2>8, <3>1, <3>2, <3>3, <3>5 DEF Mine, Of
      <4> QED
        BY <3>3, <3>4, <4>1 DEF RowsApart, Apart
    <3>6. CASE cmd # "dimension"
      <4>1. file[t.line].name = file[j].name /\ y \in Mine(objs, file[t.line]) /\ t.line \in DOMAIN file
        BY <2>7, <3>1, <3>2, <3>3, <3>6
      <4>2. Alike(t.line, i)
        BY <3>3, <3>4, <4>1 DEF RowsApart, Apart
      <4>3. file[i].name = file[j].name
        BY <4>1, <4>2 DEF Alike, Kin
      <4> QED
        BY <2>8, <4>3 DEF RowsApart, GoodFile
    <3> QED
      BY <3>5, <3>6
  <2>9. ASSUME NEW i \in DOMAIN file, NEW j \in DOMAIN file, Of(file[i], w), Of(file[j], w)
        PROVE  Alike(i, j)
    <3>1. CASE file[i].href # 0 /\ file[j].href # 0
      BY <2>9, <3>1 DEF RowsApart, GoodFile, Of
    <3>2. CASE file[i].href = 0 /\ file[j].href = 0
      BY <2>9, <3>2 DEF RowsApart, GoodFile, Of
    <3>3. CASE file[i].href # 0 /\ file[j].href = 0
      BY <2>8, <2>9, <3>3
    <3>4. CASE file[i].href = 0 /\ file[j].href # 0
      <4>1. Alike(j, i)
        BY <2>8, <2>9, <3>4
      <4> QED
        BY <4>1 DEF Alike, Kin
    <3> QED
      BY <3>1, <3>2, <3>3, <3>4
  <2>10. Apart'
    <3>1. ASSUME NEW i \in DOMAIN file, NEW j \in DOMAIN file,
                 NEW x \in Mine(objs', file[i]) \cap Mine(objs', file[j])
          PROVE  Alike(i, j)
      <4>1. CASE x = w
        BY <2>9, <3>1, <4>1 DEF Mine
      <4>2. CASE x \in objs
        BY <3>1, <4>2 DEF Mine, RowsApart, Apart
      <4> QED
        BY <2>1, <3>1, <4>1, <4>2 DEF Mine
    <3> QED
      BY <2>2, <3>1 DEF Apart
  <2>11. ASSUME NEW u \in todo', NEW x \in objs', u.op = "update", u.id = x.id
         PROVE  x \in Mine(objs', file[u.line]) /\ NameFits(u, x)
    <3>1. u \in todo /\ u.id \in 0..(nextId - 1)
      BY <2>11
    <3>2. CASE x \in objs
      BY <2>11, <3>1, <3>2 DEF Aimed, Mine
    <3>3. CASE x = w
      <4>1. t.op = "update"
        BY <1>2, <2>1, <2>3, <2>11, <3>1, <3>3
      <4>2. PICK y \in objs : y.id = t.id
        BY <2>1, <4>1
      <4>3. y \in Mine(objs, file[u.line]) /\ NameFits(u, y) /\ u.line \in DOMAIN file
        BY <2>1, <2>11, <3>1, <3>3, <4>1, <4>2 DEF Aimed
      <4>4. t.line \in DOMAIN file /\ Alike(t.line, u.line)
        BY <2>7, <4>1, <4>2, <4>3, AimedOnce
      <4>5. file[t.line].name = file[u.line].name
        BY <4>4 DEF Alike, Kin
      <4>6. NameFits(u, w)
        BY <2>7, <4>1, <4>2, <4>3 DEF NameFits
      <4>7. Of(file[u.line], w)
        BY <2>1, <2>7, <4>1, <4>2, <4>3, <4>5 DEF Of, Mine, AllHrefs
      <4> QED
        BY <2>11, <3>3, <4>6, <4>7 DEF Mine
    <3> QED
      BY <2>1, <3>2, <3>3
  <2>12. Aimed(todo)'
    BY <2>2, <2>11 DEF Aimed
  <2>13. \A u \in todo' : u.op = "update" => u.id \in 0..(nextId' - 1)
    BY <2>3
  <2> QED
    BY <2>4, <2>6, <2>10, <2>12, <2>13 DEF RowsApart
<1> QED
  BY <1>0, <1>1, <1>2

\* A call that answers leaves every row with its object, or with the call that
\* is still to come.
LEMMA EffectKeepsRows ==
  ASSUME IdInv, RowsApart, Aimed(todo), \A u \in todo : u.op = "update" => u.id \in 0..(nextId - 1),
         NEW t \in todo, Possible(t), Effect(t), todo' = todo \ {t}, UNCHANGED <<cmd, file, flags>>,
         Rows(todo)
  PROVE  Rows(todo)'
<1> DEFINE w == Written(t, Subject(t))
<1>0. t.op \in {"ref", "create", "update"} /\ (t.op = "ref" => cmd = "cwp")
  BY DEF Aimed
<1>a. refs' = refs \/ cmd = "cwp"
  BY <1>0 DEF Effect
<1>b. /\ Converging' <=> Converging
      /\ \A i, j : Alike(i, j)' <=> Alike(i, j)
      /\ \A r : NeedsOne(r)' <=> NeedsOne(r)
      /\ \A u, n : Written(u, n)' = Written(u, n)
      /\ \A r, x : Fits(r, x)' <=> Fits(r, x)
      /\ \A r, u : Makes(r, u)' <=> Makes(r, u)
      /\ \A i, x : Settles(i, x)' <=> Settles(i, x)
  BY <1>a, SameRows
<1>c. ASSUME NEW i \in DOMAIN file, NEW u \in todo', u.line \in DOMAIN file, Alike(u.line, i)
      PROVE  Makes(file[i], u) /\ (Converging => Settles(i, Written(u, u.id)))
  BY <1>c DEF Rows
<1>d. SUFFICES ASSUME NEW i \in DOMAIN file
               PROVE  Held(todo, i)' /\ (Converging => Compared(todo, i)')
  BY <1>b, <1>c DEF Rows
<1> DEFINE r == file[i]
<1>e. Held(todo, i) /\ (Converging => Compared(todo, i))
  BY DEF Rows
<1>1. CASE t.op = "ref"
  <2>1. UNCHANGED objs /\ cmd = "cwp"
    BY <1>0, <1>1 DEF Effect
  <2>2. Unreadable(r) => Unreadable(r)'
    BY <2>1 DEF Unreadable, ById
  <2>3. ~Makes(r, t)
    BY <1>1 DEF Makes
  <2>4. Held(todo, i)'
    BY <1>b, <1>e, <2>1, <2>2, <2>3 DEF Held
  <2>5. Compared(todo, i) => Compared(todo, i)'
    BY <1>b, <1>1, <2>1 DEF Compared
  <2> QED
    BY <1>e, <2>4, <2>5
<1>2. CASE t.op \in {"create", "update"}
  <2>1. /\ objs' = {x \in objs : x.id # w.id} \cup {w}
        /\ w.name = t.name /\ w.text = t.text /\ w.items = t.items
        /\ t.op = "create" => w.id = nextId /\ nextId <= MaxObjs
        /\ t.op = "update" => w.id = t.id /\ \E x \in objs : x.id = t.id
        /\ refs' = refs
    BY <1>2, EffectIs
  <2>2. /\ Written(t, t.id).name = w.name /\ Written(t, t.id).text = w.text
        /\ Written(t, t.id).items = w.items
    BY <2>1, WrittenIs
  <2> HIDE DEF w
  <2>3. t.line \in DOMAIN file
    BY <1>2 DEF Aimed
  <2>4. Apart'
    BY EffectKeepsApart DEF RowsApart
  <2>5. \A x \in objs : x.id = w.id => t.op = "update" /\ x.id = t.id
    BY <1>2, <2>1 DEF IdInv, Known
  \* What is written has what a row asks for that it is made for ...
  <2>6. ASSUME NEW j \in DOMAIN file, Makes(file[j], t)
        PROVE  w \in Mine(objs', file[j]) /\ Fits(file[j], w)
    <3>1. Of(file[j], w)
      BY <2>1, <2>6 DEF Makes, Of
    <3>2. Fits(file[j], w)
      BY <2>2, <2>6, FitsSame DEF Makes
    <3> QED
      BY <2>1, <3>1, <3>2 DEF Mine
  \* ... and that is every row whose object it is or replaces.
  <2>7. ASSUME NEW j \in DOMAIN file, Alike(t.line, j)
        PROVE  Makes(file[j], t) /\ (Converging => Settles(j, w))
    <3>1. Makes(file[j], t) /\ (Converging => Settles(j, Written(t, t.id)))
      BY <2>3, <2>7 DEF Rows
    <3> QED
      BY <2>2, <3>1, SettlesSame
  <2>8. ASSUME w \in Mine(objs', r) PROVE Alike(t.line, i)
    <3>1. Makes(file[t.line], t)
      BY <2>3, <2>7 DEF Alike
    <3>2. w \in Mine(objs', file[t.line])
      BY <2>3, <2>6, <3>1
    <3> QED
      BY <1>b, <2>3, <2>4, <2>8, <3>2 DEF Apart
  <2>9. ASSUME NEW x \in Mine(objs, r), x.id = w.id
        PROVE  w \in Mine(objs', r) /\ Fits(r, w)
    <3>1. Alike(t.line, i)
      BY <2>5, <2>9, AimedOnce DEF Mine
    <3> QED
      BY <2>6, <2>7, <3>1
  <2>10. \A x \in Mine(objs, r) : x.id # w.id => x \in Mine(objs', r)
    BY <2>1 DEF Mine
  <2>11. Unreadable(r) => Unreadable(r)'
    <3>1. ASSUME r.href # 0, ById(objs, r) = {} PROVE ById(objs', r) = {}
      <4>1. w.id # r.href
        <5>1. CASE t.op = "create"
          <6>1. r.href < nextId \/ r.href > MaxObjs
            BY DEF RowsApart, GoodFile
          <6>2. r.href \in Nat /\ nextId \in Nat /\ MaxObjs \in Nat
            <7>1. r \in Row
              BY DEF IdInv
            <7> QED
              BY <7>1, ImportAssumption DEF IdInv, Known, Row
          <6> HIDE DEF r
          <6> QED
            BY <2>1, <5>1, <6>1, <6>2
        <5>2. CASE t.op = "update"
          BY <2>1, <3>1, <5>2 DEF ById
        <5> QED
          BY <1>2, <5>1, <5>2
      <4> QED
        BY <2>1, <3>1, <4>1 DEF ById
    <3> QED
      BY <2>1, <3>1 DEF Unreadable
  <2>12. Held(todo, i)'
    <3>1. CASE Unreadable(r)
      BY <2>11, <3>1 DEF Held
    <3>2. ASSUME NEW x \in Mine(objs, r), Fits(r, x) PROVE Held(todo, i)'
      <4>1. \E y \in Mine(objs', r) : Fits(r, y)
        BY <2>9, <2>10, <3>2
      <4> QED
        BY <1>b, <4>1 DEF Held
    <3>3. ASSUME NEW u \in todo, Makes(r, u) PROVE Held(todo, i)'
      <4>1. CASE u = t
        BY <1>b, <2>6, <3>3, <4>1 DEF Held
      <4>2. CASE u # t
        BY <1>b, <3>3, <4>2 DEF Held
      <4> QED
        BY <4>1, <4>2
    <3> QED
      BY <1>e, <3>1, <3>2, <3>3 DEF Held
  <2>13. ASSUME Converging PROVE Compared(todo, i)'
    <3>1. Compared(todo, i)
      BY <1>e, <2>13
    <3>2. CASE cmd = "ipl" /\ ~IplRead(r)
      BY <3>2 DEF Compared, IplRead
    <3>3. ASSUME ~(cmd = "ipl" /\ ~IplRead(r)), NEW x \in Mine(objs', r)
          PROVE  Settles(i, x) \/ \E u \in todo' : u.op = "update" /\ u.id = x.id
      <4>1. CASE x = w
        BY <2>7, <2>8, <2>13, <3>3, <4>1
      <4>2. CASE x # w
        <5>1. x \in Mine(objs, r) /\ x.id # w.id
          BY <2>1, <3>3, <4>2 DEF Mine
        <5>2. Settles(i, x) \/ \E u \in todo : u.op = "update" /\ u.id = x.id
          BY <3>1, <3>3, <5>1 DEF Compared
        <5> QED
          BY <2>1, <5>1, <5>2
      <4> QED
        BY <4>1, <4>2
    <3>4. ASSUME ~(cmd = "ipl" /\ ~IplRead(r)), Mine(objs', r) = {}, NeedsOne(r)
          PROVE  \E u \in todo' : u.op = "create" /\ u.name = r.name /\ r.href = 0
      <4>1. Mine(objs, r) = {}
        BY <2>9, <2>10, <3>4
      <4>2. PICK u \in todo : u.op = "create" /\ u.name = r.name /\ r.href = 0
        BY <3>1, <3>4, <4>1 DEF Compared
      <4>3. u # t
        BY <2>1, <3>4, <4>2 DEF Mine, Of
      <4> QED
        BY <4>2, <4>3
    <3> QED
      BY <1>b, <3>2, <3>3, <3>4 DEF Compared, IplRead
  <2> QED
    BY <2>12, <2>13
<1> QED
  BY <1>0, <1>1, <1>2

LEMMA StillRows ==
  ASSUME UNCHANGED <<objs, refs, nextId, cmd, file, flags>>
  PROVE  /\ (IdInv' <=> IdInv) /\ (RowsApart' <=> RowsApart)
         /\ \A T : (Aimed(T)' <=> Aimed(T)) /\ (Rows(T)' <=> Rows(T))
<1>1. /\ (AllHrefs' <=> AllHrefs) /\ (NoHrefs' <=> NoHrefs) /\ (Converging' <=> Converging)
      /\ \A i, j : Alike(i, j)' <=> Alike(i, j)
      /\ \A r : NeedsOne(r)' <=> NeedsOne(r)
      /\ \A t, x : NameFits(t, x)' <=> NameFits(t, x)
      /\ \A t, n : Written(t, n)' = Written(t, n)
      /\ \A r, x : Fits(r, x)' <=> Fits(r, x)
      /\ \A r, t : Makes(r, t)' <=> Makes(r, t)
      /\ \A i, x : Settles(i, x)' <=> Settles(i, x)
  BY SameRows
<1>2. IdInv' <=> IdInv
  BY DEF IdInv, Known
<1>3. RowsApart' <=> RowsApart
  <2>1. GoodFile' <=> GoodFile
    BY <1>1 DEF GoodFile
  <2>2. Apart' <=> Apart
    BY <1>1 DEF Apart
  <2> QED
    BY <2>1, <2>2 DEF RowsApart
<1>4. \A T : Aimed(T)' <=> Aimed(T)
  BY <1>1 DEF Aimed
<1>5. \A T : Rows(T)' <=> Rows(T)
  <2>1. \A r : Unreadable(r)' <=> Unreadable(r)
    BY DEF Unreadable
  <2>2. \A T, i : Held(T, i)' <=> Held(T, i)
    BY <1>1, <2>1 DEF Held
  <2>3. \A T, i : Compared(T, i)' <=> Compared(T, i)
    BY <1>1 DEF Compared
  <2> QED
    BY <1>1, <2>2, <2>3 DEF Rows
<1> QED
  BY <1>2, <1>3, <1>4, <1>5

LEMMA PlanIsAimed ==
  ASSUME IdInv, GoodFile, NEW S \in SUBSET objs, NEW K, NEW T, T = Tasks(S, K)
  PROVE  Aimed(T) /\ \A t \in T : t.op = "update" => t.id \in 0..(nextId - 1)
<1>0. \A x, y \in S : x.id = y.id => x = y
  BY DEF IdInv
<1>1. ASSUME NEW t \in T
      PROVE  \/ t.op = "ref" /\ cmd = "cwp"
             \/ t.op = "create" /\ t.line \in DOMAIN file
             \/ /\ t.op = "update" /\ t.line \in DOMAIN file
                /\ t.id = 0 \/ \E x \in Mine(S, file[t.line]) : t.id = x.id /\ NameFits(t, x)
  <2>1. PICK i \in DOMAIN file : t \in RowTasks(S, K, file, i)
    BY DEF Tasks
  <2>2. Planning(S, i, t)
    BY <1>0, <2>1, TasksAre DEF IdInv
  <2> QED
    BY <2>2 DEF Planning
<1>2. ASSUME NEW t \in T, NEW x \in objs, t.op = "update", t.id = x.id
      PROVE  x \in Mine(objs, file[t.line]) /\ NameFits(t, x)
  <2>1. t.id # 0
    BY <1>2 DEF IdInv, Known
  <2>2. PICK y \in Mine(S, file[t.line]) : t.id = y.id /\ NameFits(t, y)
    BY <1>1, <1>2, <2>1
  <2>3. y = x
    BY <1>2, <2>2 DEF IdInv, Mine
  <2> QED
    BY <1>2, <2>2, <2>3 DEF Mine
<1>3. ASSUME NEW t \in T, t.op = "update" PROVE t.id \in 0..(nextId - 1)
  <2>1. t.id = 0 \/ \E x \in objs : t.id = x.id
    BY <1>1, <1>3 DEF Mine
  <2> QED
    BY <2>1 DEF IdInv, Known
<1> QED
  BY <1>1, <1>2, <1>3 DEF Aimed

LEMMA PlanIsRows ==
  ASSUME IdInv, GoodFile, ~Fatal(objs, refs)
  PROVE  Rows(Tasks(objs, refs))
<1>1. ASSUME NEW i \in DOMAIN file, NEW t \in Tasks(objs, refs), t.line \in DOMAIN file,
             Alike(t.line, i)
      PROVE  Makes(file[i], t) /\ (Converging => Settles(i, Written(t, t.id)))
  <2>1. PICK k \in DOMAIN file : t \in RowTasks(objs, refs, file, k)
    BY DEF Tasks
  <2>2. Planning(objs, k, t)
    BY <2>1, TasksAre DEF IdInv
  <2>3. 0 \notin DOMAIN file
    <3>1. file \in Seq(Row)
      BY DEF IdInv
    <3>2. DOMAIN file = 1..Len(file)
      BY <3>1
    <3> QED
      BY <3>2
  <2>4. t.line = k /\ t.op # "ref"
    BY <1>1, <2>2, <2>3 DEF Planning
  <2> QED
    BY <1>1, <2>1, <2>4, PlanIsRight DEF Right
<1> QED
  BY <1>1, PlanAnswers DEF Rows

LEMMA LoadKeepsRows ==
  ASSUME RowInv, Load \/ LoadFails
  PROVE  RowInv'
<1>1. UNCHANGED <<objs, refs, nextId, cmd, file, flags>>
  BY DEF Load, LoadFails, pce, Fault
<1>2. IdInv /\ GoodFile /\ RowsApart
  BY DEF RowInv, RowsApart
<1>3. IdInv' /\ RowsApart' /\ \A T : (Aimed(T)' <=> Aimed(T)) /\ (Rows(T)' <=> Rows(T))
  BY <1>1, <1>2, StillRows
<1>4. pc' \in {"decide", "ended", "dead"}
  BY DEF Load, LoadFails, Planned
<1>5. ASSUME pc' = "decide"
      PROVE  Aimed(todo') /\ \A t \in todo' : t.op = "update" => t.id \in 0..(nextId - 1)
  <2>1. \E S \in SUBSET objs : todo' = Tasks(S, refs)
    BY <1>5 DEF Load, LoadFails, Planned
  <2> QED
    BY <1>2, <2>1, PlanIsAimed
<1>6. ASSUME Load, alone', pc' \in {"decide", "ended"}
      PROVE  Rows(todo')
  <2>1. ~Fatal(objs, refs) /\ todo' = Tasks(objs, refs)
    BY <1>6 DEF Load, Planned
  <2> QED
    BY <1>2, <2>1, PlanIsRows
<1>7. ASSUME alone', pc' = "decide"
      PROVE  Rows(todo')
  <2>1. Load
    BY <1>7 DEF LoadFails, Fault
  <2> QED
    BY <1>6, <1>7, <2>1
<1>8. ASSUME settled'
      PROVE  Rows({}) /\ pc' = "ended"
  <2>1. Load
    BY <1>8 DEF LoadFails
  <2>2. alone' /\ pc' = "ended"
    BY <1>8, <2>1 DEF Load
  <2>3. todo' = {}
    BY <2>1, <2>2 DEF Load, Planned
  <2> QED
    BY <1>6, <2>1, <2>2, <2>3
<1>9. Aimed(todo)' <=> Aimed(todo')
  BY <1>3
<1>10. Rows(todo)' <=> Rows(todo')
  BY <1>3
<1>11. Rows({})' <=> Rows({})
  BY <1>3
<1> QED
  BY <1>1, <1>3, <1>4, <1>5, <1>7, <1>8, <1>9, <1>10, <1>11 DEF RowInv

LEMMA CallKeepsRows ==
  ASSUME RowInv, Call \/ CallFails \/ Refused
  PROVE  RowInv'
<1> PICK t \in todo :
      /\ pc = "push" /\ todo' = todo \ {t}
      /\ Call => Possible(t) /\ Effect(t)
      /\ (Possible(t) /\ Effect(t)) \/ UNCHANGED pce
  BY DEF Call, CallFails, Refused, IsNext
<1>1. /\ UNCHANGED <<cmd, file, flags, settled>>
      /\ pc' \in {"push", "dead"} /\ (Call => UNCHANGED <<pc, alone>>) /\ (~Call => alone' = FALSE)
  BY DEF Call, CallFails, Refused, Works, Fault, LostAnswer, Failure, LogError
<1>2. /\ IdInv /\ RowsApart /\ Aimed(todo) /\ ~settled
      /\ \A u \in todo : u.op = "update" => u.id \in 0..(nextId - 1)
  BY DEF RowInv
<1>3. /\ IdInv' /\ RowsApart' /\ Aimed(todo)'
      /\ \A u \in todo' : u.op = "update" => u.id \in 0..(nextId' - 1)
  <2>1. CASE Possible(t) /\ Effect(t)
    BY <1>1, <1>2, <2>1, EffectKeepsApart
  <2>2. CASE UNCHANGED pce
    <3>1. IdInv' /\ RowsApart' /\ (Aimed(todo)' <=> Aimed(todo'))
      BY <1>1, <1>2, <2>2, StillRows DEF pce
    <3>2. Aimed(todo')
      BY <1>2 DEF Aimed
    <3> QED
      BY <1>2, <2>2, <3>1, <3>2 DEF pce
  <2> QED
    BY <2>1, <2>2
<1>4. Call /\ alone => Rows(todo)'
  <2>1. alone => Rows(todo)
    BY DEF RowInv
  <2> QED
    BY <1>1, <1>2, <2>1, EffectKeepsRows
<1> QED
  BY <1>1, <1>2, <1>3, <1>4 DEF RowInv

LEMMA QuietKeepsRows ==
  ASSUME RowInv,
         \/ DryRun \/ PromptDenied \/ Approve \/ Pushed \/ ProvisionFails
         \/ Crash \/ Rerun \/ UNCHANGED vars
  PROVE  RowInv'
<1>1. UNCHANGED <<objs, refs, nextId, cmd, file, flags>>
  BY DEF DryRun, PromptDenied, Approve, Decision, NotAsked, Denied, Approved, Pushed,
         ProvisionFails, Crash, Rerun, NextCommand, Fault, Silent, session, pce, import, vars
<1>2. IdInv' /\ RowsApart' /\ \A T : (Aimed(T)' <=> Aimed(T)) /\ (Rows(T)' <=> Rows(T))
  BY <1>1, StillRows DEF RowInv
<1>3. (Rows({})' <=> Rows({})) /\ (Rows(todo)' <=> Rows(todo')) /\ (Aimed(todo)' <=> Aimed(todo'))
  BY <1>2
<1>4. CASE DryRun \/ PromptDenied \/ Approve
  <2>1. pc = "decide" /\ pc' \in {"ended", "push"} /\ UNCHANGED <<todo, settled, alone>>
    BY <1>4 DEF DryRun, PromptDenied, Approve, Decision, NotAsked, Denied, Approved, Silent, session
  <2> QED
    BY <1>1, <1>2, <1>3, <2>1 DEF RowInv
<1>5. CASE Pushed
  <2>1. /\ pc = "push" /\ todo = {} /\ pc' = IF Provisions THEN "provision" ELSE "ended"
        /\ settled' = (alone /\ ~Provisions) /\ UNCHANGED <<todo, alone>>
    BY <1>5 DEF Pushed, Silent, session
  <2>2. alone => Rows({})
    BY <2>1 DEF RowInv
  <2> QED
    BY <1>1, <1>2, <1>3, <2>1, <2>2 DEF RowInv
<1>6. CASE ProvisionFails
  <2>1. /\ pc = "provision" /\ pc' \in {"ended", "dead"} /\ UNCHANGED <<todo, settled>>
    BY <1>6 DEF ProvisionFails, LogError
  <2> QED
    BY <1>1, <1>2, <1>3, <2>1 DEF RowInv
<1>7. CASE Crash \/ Rerun
  <2>1. pc' \in {"load", "dead"} /\ UNCHANGED settled
    BY <1>7 DEF Crash, Rerun
  <2> QED
    BY <1>1, <1>2, <1>3, <2>1 DEF RowInv
<1>8. CASE UNCHANGED vars
  BY <1>1, <1>2, <1>3, <1>8 DEF RowInv, vars, import, session
<1> QED
  BY <1>4, <1>5, <1>6, <1>7, <1>8

LEMMA ProvisionKeepsRows ==
  ASSUME RowInv, ForceInv, Provision
  PROVE  RowInv'
<1>1. /\ UNCHANGED <<refs, nextId, cmd, file, flags, todo, alone>> /\ settled' = alone
      /\ pc = "provision" /\ pc' = "ended"
  BY DEF Provision, Works
<1> DEFINE Live(x) == [x EXCEPT !.live = @ \/ x.id \in changed]
<1>2. objs' = {Live(x) : x \in objs}
  BY DEF Provision
<1>3. \A x \in objs : /\ Live(x).id = x.id /\ Live(x).name = x.name
                      /\ Live(x).text = x.text /\ Live(x).items = x.items
  BY DEF ForceInv, Fields
<1> HIDE DEF Live
<1>4. /\ Converging' <=> Converging
      /\ (AllHrefs' <=> AllHrefs) /\ (NoHrefs' <=> NoHrefs)
      /\ \A i, j : Alike(i, j)' <=> Alike(i, j)
      /\ \A r : NeedsOne(r)' <=> NeedsOne(r)
      /\ \A r, x : Fits(r, x)' <=> Fits(r, x)
      /\ \A i, x : Settles(i, x)' <=> Settles(i, x)
  BY <1>1, SameRows
<1>5. \A r : /\ \A x \in Mine(objs, r) : Live(x) \in Mine(objs', r)
             /\ \A y \in Mine(objs', r) : \E x \in Mine(objs, r) : y = Live(x)
  <2>1. \A r, x : x \in objs => (Of(r, Live(x)) <=> Of(r, x))
    BY <1>3 DEF Of
  <2> QED
    BY <1>2, <2>1 DEF Mine
<1>6. IdInv'
  <2>1. Known'
    BY <1>1, <1>2, <1>3 DEF RowInv, IdInv, Known
  <2>2. \A x, y \in objs' : x.id = y.id => x = y
    BY <1>2, <1>3 DEF RowInv, IdInv
  <2> QED
    BY <1>1, <2>1, <2>2 DEF RowInv, IdInv
<1>7. RowsApart'
  <2>1. GoodFile'
    BY <1>1, <1>4 DEF RowInv, RowsApart, GoodFile
  <2>2. ASSUME NEW i \in DOMAIN file, NEW j \in DOMAIN file,
               NEW y \in Mine(objs', file[i]) \cap Mine(objs', file[j])
        PROVE  Alike(i, j)
    <3>1. PICK x \in Mine(objs, file[i]) : y = Live(x)
      BY <1>5
    <3>2. PICK z \in Mine(objs, file[j]) : y = Live(z)
      BY <1>5
    <3>3. x = z
      <4>1. x \in objs /\ z \in objs /\ Live(x) = Live(z)
        BY <3>1, <3>2 DEF Mine
      <4>2. x.id = z.id
        BY <1>3, <4>1
      <4> QED
        BY <4>1, <4>2 DEF RowInv, IdInv
    <3> QED
      BY <3>1, <3>2, <3>3 DEF RowInv, RowsApart, Apart
  <2> QED
    BY <1>1, <1>4, <2>1, <2>2 DEF RowsApart, Apart
<1>8. ASSUME alone PROVE Rows({})'
  <2>1. Rows({})
    BY <1>1, <1>8 DEF RowInv
  <2>2. ASSUME NEW i \in DOMAIN file
        PROVE  Held({}, i)' /\ (Converging => Compared({}, i)')
    <3> DEFINE r == file[i]
    <3>1. Held({}, i) /\ (Converging => Compared({}, i))
      BY <2>1 DEF Rows
    <3>2. Unreadable(r) => Unreadable(r)'
      BY <1>1, <1>2, <1>3 DEF Unreadable, ById
    <3>3. \A x \in Mine(objs, r) : (Fits(r, Live(x)) <=> Fits(r, x)) /\ (Settles(i, Live(x)) <=> Settles(i, x))
      BY <1>3, FitsSame, SettlesSame DEF Mine
    <3> HIDE DEF r
    <3>4. (Unreadable(r) \/ \E x \in Mine(objs, r) : Fits(r, x)) => Held({}, i)'
      BY <1>1, <1>4, <1>5, <3>2, <3>3 DEF Held, r
    <3>5. Held({}, i)'
      BY <3>1, <3>4 DEF Held, r
    <3>6. Compared({}, i) => Compared({}, i)'
      <4>1. CASE cmd = "ipl" /\ ~IplRead(r)
        BY <1>1, <4>1 DEF Compared, IplRead, r
      <4>2. ASSUME \A x \in Mine(objs, r) : Settles(i, x), ~(Mine(objs, r) = {} /\ NeedsOne(r))
            PROVE  Compared({}, i)'
        <5>1. \A y \in Mine(objs', r) : Settles(i, y)
          BY <1>5, <3>3, <4>2
        <5>2. ~(Mine(objs', r) = {} /\ NeedsOne(r))
          BY <1>5, <4>2
        <5> QED
          BY <1>1, <1>4, <5>1, <5>2 DEF Compared, r
      <4> QED
        BY <4>1, <4>2 DEF Compared, r
    <3> QED
      BY <3>1, <3>5, <3>6
  <2> QED
    BY <1>1, <1>4, <2>2 DEF Rows
<1> QED
  BY <1>1, <1>6, <1>7, <1>8 DEF RowInv

LEMMA OthersKeepRows ==
  ASSUME RowInv, ForceInv, Others
  PROVE  RowInv'
<1>1. /\ UNCHANGED <<refs, nextId, cmd, file, flags, todo, pc>>
      /\ settled' = FALSE /\ alone' = FALSE
  BY DEF Others, Fault
<1>2. IdInv' /\ \A y \in objs' : \E x \in objs : y.id = x.id /\ y.name = x.name
  BY OthersKeepIds DEF RowInv
<1>3. /\ (AllHrefs' <=> AllHrefs) /\ (NoHrefs' <=> NoHrefs)
      /\ \A i, j : Alike(i, j)' <=> Alike(i, j)
      /\ \A t, x : NameFits(t, x)' <=> NameFits(t, x)
  BY <1>1, SameRows
<1>4. ASSUME NEW y \in objs'
      PROVE  \E x \in objs : /\ y.id = x.id /\ \A r : Of(r, y) <=> Of(r, x)
                             /\ \A t : NameFits(t, y) <=> NameFits(t, x)
  <2>1. PICK x \in objs : y.id = x.id /\ y.name = x.name
    BY <1>2
  <2> QED
    BY <2>1 DEF Of, NameFits
<1>5. RowsApart'
  <2>1. GoodFile'
    BY <1>1, <1>3 DEF RowInv, RowsApart, GoodFile
  <2>2. ASSUME NEW i \in DOMAIN file, NEW j \in DOMAIN file,
               NEW y \in Mine(objs', file[i]) \cap Mine(objs', file[j])
        PROVE  Alike(i, j)
    <3>1. PICK x \in objs : \A r : Of(r, y) <=> Of(r, x)
      BY <1>4 DEF Mine
    <3>2. x \in Mine(objs, file[i]) \cap Mine(objs, file[j])
      BY <3>1 DEF Mine
    <3> QED
      BY <3>2 DEF RowInv, RowsApart, Apart
  <2> QED
    BY <1>1, <1>3, <2>1, <2>2 DEF RowsApart, Apart
<1>6. Aimed(todo) => Aimed(todo)'
  <2>1. ASSUME Aimed(todo), NEW t \in todo, NEW y \in objs', t.op = "update", t.id = y.id
        PROVE  y \in Mine(objs', file[t.line]) /\ NameFits(t, y)
    <3>1. PICK x \in objs : /\ y.id = x.id /\ \A r : Of(r, y) <=> Of(r, x)
                            /\ \A u : NameFits(u, y) <=> NameFits(u, x)
      BY <1>4
    <3>2. x \in Mine(objs, file[t.line]) /\ NameFits(t, x)
      BY <2>1, <3>1 DEF Aimed
    <3> QED
      BY <3>1, <3>2 DEF Mine
  <2> QED
    BY <1>1, <1>3, <2>1 DEF Aimed
<1> QED
  BY <1>1, <1>2, <1>5, <1>6 DEF RowInv

LEMMA RowStep == ForceInv /\ RowInv /\ [Next]_vars => RowInv'
  BY LoadKeepsRows, CallKeepsRows, OthersKeepRows, ProvisionKeepsRows, QuietKeepsRows DEF Next

LEMMA RowInit == Init /\ RowsApart => RowInv
  BY IdInit DEF Init, RowInv

\* Whatever the PCE, the file, the flags, and the runs that failed, died, were
\* refused or disturbed before: when an undisturbed import has ended there is an
\* object for every row that it could read, with the fields that the row gives,
\* if no object is the object of two rows.
THEOREM RowsAnswered == Spec /\ RowsApart => []RowsHold
<1>1. Spec => []ForceInv
  BY ForceInit, ForceStep, PTL DEF Spec
<1>2. RowInv => RowsHold
  BY RowsDone
<1> QED
  BY <1>1, <1>2, RowInit, RowStep, PTL DEF Spec

\* And then the commands that look for their rows find nothing to do, until
\* somebody else changes the PCE.
THEOREM NothingLeft == Spec /\ RowsApart => []Converges
<1>1. Spec => []ForceInv
  BY ForceInit, ForceStep, PTL DEF Spec
<1>2. RowInv => Converges
  BY RowsDone
<1> QED
  BY <1>1, <1>2, RowInit, RowStep, PTL DEF Spec
=============================================================================
