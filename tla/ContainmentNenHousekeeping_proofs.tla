------------------ MODULE ContainmentNenHousekeeping_proofs ------------------
(* Three components, each for all values of its constants and any number of   *)
(* failures.  containment-switch closes the port only where the flows it saw  *)
(* stay allowed, and moves workloads only behind an active boundary.  What    *)
(* unused-umwl lists for deletion is unused and what umwl-cleanup lists is    *)
(* replaced; nic-manage implements the consent gate.  A nen-acl that asked    *)
(* for ACLs writes ACLs that are as new as its request, and nen-switch puts   *)
(* the workloads of its file on their interfaces.                             *)
(*                                                                            *)
(* Housekeeping and Nen are instances, each under the assumption it makes of  *)
(* its constants.  A variable that several have, such as pc, stands for each  *)
(* of them in turn: no statement is about two components.                     *)
EXTENDS ContainmentSwitch, Sequences, SequenceTheorems, TLAPS

CONSTANTS
  HouseFlags, Managed, Unmanaged, Addrs, Gateway, Nics, NicFiles, MaxAttempts,
  NenFlags, Ports, Workloads, NoWorkload, InitialWorkloads, SwitchFiles, Timeout, MaxPolicy

VARIABLES
  alone, cmd, pc, rows,
  nicFile, present, ignored, traffic, todo, attempt, seen, planned, file, busy,
  workloads, exists, attached, covered, policy, acl, outdated, generating,
  known, line, polls, out, since

HK == INSTANCE Housekeeping WITH FlagSets <- HouseFlags
Nen == INSTANCE Nen WITH FlagSets <- NenFlags


-----------------------------------------------------------------------------
(* containment-switch *)

Before == {"list", "query", "decide"}
OpenSide == {"createBoundary", "provisionBoundary", "modes"}

AllAllowed == \A w \in targets : AllowActive(w)

\* What a run that stops on errors knows from having come this far.
Progress ==
  /\ phase \in Before => mine = {}
  /\ phase \in {"createRuleset", "createRule", "provisionRuleset"} => targets \subseteq bound
  /\ phase = "provisionRuleset" => obj["rule"] # "none"
  /\ phase \in OpenSide => AllAllowed
  /\ "boundary" \in mine =>
       phase \in {"provisionBoundary", "modes", "ended", "dead"} /\ AllAllowed
  /\ phase = "modes" => obj["boundary"] = "active"

\* What the calls build on: hrefs of objects that exist, a ruleset for the rule,
\* an active virtual service for the bindings.
Coherent ==
  /\ \A o \in mine : obj[o] # "none"
  /\ obj["rule"] # "none" => obj["ruleset"] # "none"
  /\ bound # {} => obj["vs"] = "active"

\* The inductive invariant.
IInv ==
  /\ TypeOK
  /\ Coherent
  /\ phase = "list" => targets = {}
  /\ ~flags.continueOnError => Progress

LEMMA PhasesKnown ==
  /\ Phases = {"createVS", "provisionVS", "bind", "createRuleset", "createRule",
               "provisionRuleset", "createBoundary", "provisionBoundary",
               "list", "query", "decide", "modes", "ended", "dead"}
  /\ DOMAIN NextCall = Phases \ {"list", "query", "decide", "modes", "ended", "dead"}
  /\ NextCall["createVS"] = "provisionVS" /\ NextCall["provisionVS"] = "bind"
  /\ NextCall["bind"] = "createRuleset" /\ NextCall["createRuleset"] = "createRule"
  /\ NextCall["createRule"] = "provisionRuleset"
  /\ NextCall["provisionRuleset"] = "createBoundary"
  /\ NextCall["createBoundary"] = "provisionBoundary"
  /\ NextCall["provisionBoundary"] = "modes"
<1>1. DOMAIN NextCall = {"createVS", "provisionVS", "bind", "createRuleset", "createRule",
                         "provisionRuleset", "createBoundary", "provisionBoundary"}
  BY DEF NextCall
<1>2. /\ NextCall["createVS"] = "provisionVS" /\ NextCall["provisionVS"] = "bind"
      /\ NextCall["bind"] = "createRuleset" /\ NextCall["createRuleset"] = "createRule"
      /\ NextCall["createRule"] = "provisionRuleset"
      /\ NextCall["provisionRuleset"] = "createBoundary"
      /\ NextCall["createBoundary"] = "provisionBoundary"
      /\ NextCall["provisionBoundary"] = "modes"
  BY DEF NextCall
<1> QED
  BY <1>1, <1>2 DEF Phases

LEMMA InitInv == Init => IInv
<1> SUFFICES ASSUME Init PROVE IInv
  OBVIOUS
<1>1. TypeOK
  <2>1. faults \in 0..MaxFaults /\ runs \in 1..MaxRuns
    BY InputAssumption DEF Init
  <2>2. wrote \in BOOLEAN
    BY Zenon DEF Init
  <2>3. flags \in Flags /\ phase \in Phases
    BY InputAssumption, PhasesKnown DEF Init
  <2> QED
    BY <2>1, <2>2, <2>3 DEF Init, TypeOK, Policy
<1>2. Coherent
  BY DEF Init, Coherent, Objects
<1>3. targets = {} /\ Progress
  BY DEF Init, Progress, Before, OpenSide
<1> QED
  BY <1>1, <1>2, <1>3 DEF IInv

LEMMA ReadKeeps ==
  ASSUME IInv, ListVisibilityOnly \/ GetTrafficAnalysis \/ DryRun \/ PromptDenied \/ Approve
  PROVE  IInv'
<1> USE PhasesKnown DEF IInv, TypeOK, Coherent, Progress, Before, OpenSide, AllAllowed,
                        AllowActive, pce, Decision
<1>1. CASE ListVisibilityOnly
  BY <1>1 DEF ListVisibilityOnly
<1>2. CASE GetTrafficAnalysis
  <2>1. targets' \subseteq Wklds
    BY <1>2 DEF GetTrafficAnalysis, Destinations
  <2> QED
    BY <1>2, <2>1 DEF GetTrafficAnalysis
<1>3. CASE DryRun \/ PromptDenied
  BY <1>3 DEF DryRun, PromptDenied
<1>4. CASE Approve
  BY <1>4 DEF Approve
<1> QED
  BY <1>1, <1>2, <1>3, <1>4

LEMMA CreateKeeps ==
  ASSUME IInv, CreateVirtualService \/ CreateRuleset \/ CreateRule \/ CreateEnforcementBoundary
  PROVE  IInv'
<1> USE PhasesKnown DEF IInv, TypeOK, Coherent, Progress, Before, OpenSide, AllAllowed,
                        AllowActive, Create, Call, Objects, Policy
<1>1. CASE CreateVirtualService
  BY <1>1 DEF CreateVirtualService
<1>2. CASE CreateRuleset
  BY <1>2 DEF CreateRuleset
<1>3. CASE CreateRule
  BY <1>3 DEF CreateRule
<1>4. CASE CreateEnforcementBoundary
  BY <1>4 DEF CreateEnforcementBoundary
<1> QED
  BY <1>1, <1>2, <1>3, <1>4

LEMMA ProvisionKeeps ==
  ASSUME IInv, ProvisionVirtualService \/ CreateServiceBinding \/ ProvisionRuleset
               \/ ProvisionBoundary
  PROVE  IInv'
<1> USE PhasesKnown DEF IInv, TypeOK, Coherent, Progress, Before, OpenSide, AllAllowed,
                        AllowActive, Provision, Call, Objects, Policy
<1>1. CASE ProvisionVirtualService
  BY <1>1 DEF ProvisionVirtualService
<1>2. CASE CreateServiceBinding
  BY <1>2 DEF CreateServiceBinding
<1>3. CASE ProvisionRuleset
  <2>1. ~flags.continueOnError => obj'["rule"] = "active"
    BY <1>3 DEF ProvisionRuleset
  <2>2. ~flags.continueOnError => \A w \in targets : obj'["vs"] = "active" /\ w \in bound'
    BY <1>3 DEF ProvisionRuleset
  <2> QED
    BY <1>3, <2>1, <2>2 DEF ProvisionRuleset
<1>4. CASE ProvisionBoundary
  BY <1>4 DEF ProvisionBoundary
<1> QED
  BY <1>1, <1>2, <1>3, <1>4

LEMMA RestKeeps ==
  ASSUME IInv, \/ CallFails \/ Finish \/ Crash \/ Rerun
               \/ \E w \in Wklds : MoveWorkload(w)
               \/ \E w \in Wklds, m \in Modes : AdminSetsMode(w, m)
               \/ UNCHANGED vars
  PROVE  IInv'
<1> USE PhasesKnown, InputAssumption
    DEF IInv, TypeOK, Coherent, Progress, Before, OpenSide, AllAllowed, AllowActive,
        pce, Modes
<1>1. CASE CallFails
  <2>1. phase' \in {NextCall[phase], "dead"} /\ (~flags.continueOnError => phase' = "dead")
    BY <1>1 DEF CallFails
  <2>2. phase' \in Phases \ {"list"}
    BY <1>1, <2>1 DEF CallFails
  <2> QED
    BY <1>1, <2>1, <2>2 DEF CallFails
<1>2. CASE Finish
  BY <1>2 DEF Finish
<1>3. CASE Crash
  BY <1>3 DEF Crash, Fault
<1>4. CASE Rerun
  <2>1. faults' \in 0..MaxFaults /\ runs' \in 1..MaxRuns
    BY <1>4 DEF Rerun
  <2>2. wrote' \in BOOLEAN
    BY <1>4, Zenon DEF Rerun
  <2>3. TypeOK'
    BY <1>4, <2>1, <2>2 DEF Rerun
  <2> QED
    BY <1>4, <2>3 DEF Rerun
<1>5. CASE \E w \in Wklds : MoveWorkload(w)
  BY <1>5 DEF MoveWorkload, Moving
<1>6. CASE \E w \in Wklds, m \in Modes : AdminSetsMode(w, m)
  BY <1>6 DEF AdminSetsMode, Fault
<1>7. CASE UNCHANGED vars
  BY <1>7 DEF vars
<1> QED
  BY <1>1, <1>2, <1>3, <1>4, <1>5, <1>6, <1>7

LEMMA StepInv == IInv /\ [Next]_vars => IInv'
  BY ReadKeeps, CreateKeeps, ProvisionKeeps, RestKeeps DEF Next, RunStep

THEOREM Invariance == Spec => []IInv
<1> QED
  BY InitInv, StepInv, PTL DEF Spec

\* Once the boundary of a run that stops on errors is in force, so is the allow
\* rule of every workload with traffic.
THEOREM FlowsStayAllowed == Spec => []FlowsKept
<1>1. IInv => FlowsKept
  BY DEF IInv, Progress, FlowsKept, AllAllowed
<1> QED
  BY <1>1, Invariance, PTL

\* A run that stops on errors moves no workload before its boundary is active.
THEOREM BoundaryFirst == Spec => ModesAfterBoundary
<1>1. IInv /\ [Next]_vars
        => [\A w \in Wklds :
              mode'[w] # mode[w] /\ faults' = faults /\ ~flags.continueOnError
                => obj["boundary"] = "active"]_vars
  <2> SUFFICES ASSUME IInv, [Next]_vars,
                      NEW w \in Wklds, mode'[w] # mode[w], faults' = faults,
                      ~flags.continueOnError
               PROVE  obj["boundary"] = "active"
    OBVIOUS
  <2>1. CASE \E v \in Wklds : MoveWorkload(v)
    BY <2>1 DEF MoveWorkload, Moving, IInv, Progress
  <2>2. CASE \E v \in Wklds, m \in Modes : AdminSetsMode(v, m)
    BY <2>2, InputAssumption DEF AdminSetsMode, Fault, IInv, TypeOK
  <2>3. CASE ~ \E v \in Wklds : MoveWorkload(v)
    <3>1. UNCHANGED mode \/ \E v \in Wklds, m \in Modes : AdminSetsMode(v, m)
      BY <2>3
      DEF Next, RunStep, vars, pce, ListVisibilityOnly, GetTrafficAnalysis, DryRun, PromptDenied,
          Approve, Decision, CreateVirtualService, CreateRuleset, CreateRule,
          CreateEnforcementBoundary, Create, Call, ProvisionVirtualService, ProvisionBoundary,
          ProvisionRuleset, Provision, CreateServiceBinding, CallFails, Finish, Crash, Rerun
    <3> QED
      BY <2>2, <3>1
  <2> QED
    BY <2>1, <2>3
<1> QED
  BY <1>1, Invariance, PTL DEF Spec, ModesAfterBoundary

-----------------------------------------------------------------------------
(* Consent.  With --skip-allow the command never comes to the prompt, so the  *)
(* gate is only promised to the other combinations of flags.                  *)

Calling == (Phases \ Before) \ {"ended", "dead"}

Consent == flags.updatePCE /\ (flags.noPrompt \/ answer = "yes")

GateInv ==
  /\ flags \in FlagSets /\ phase \in Phases
  /\ phase \in Before => answer = "unasked" /\ wrote = FALSE
  /\ phase \in Calling => Consent

LEMMA GateStep ==
  ASSUME \A f \in FlagSets : ~f.skipAllow,
         GateInv, [Next]_vars
  PROVE  GateInv' /\ [Gate!Next]_Gate!vars
<1> USE PhasesKnown DEF GateInv, Consent, Before, Calling, Gate!vars, pce
<1>1. CASE ListVisibilityOnly \/ GetTrafficAnalysis
  BY <1>1 DEF ListVisibilityOnly, GetTrafficAnalysis
<1>2. CASE DryRun \/ PromptDenied \/ Approve
  BY <1>2 DEF DryRun, PromptDenied, Approve, Decision, Gate!Next, Gate!Ask
<1>3. CASE CreateVirtualService \/ CreateRuleset \/ CreateRule \/ CreateEnforcementBoundary
  BY <1>3 DEF CreateVirtualService, CreateRuleset, CreateRule, CreateEnforcementBoundary,
              Create, Call, Gate!Next, Gate!Write, Gate!Consent
<1>4. CASE ProvisionVirtualService \/ CreateServiceBinding \/ ProvisionRuleset
           \/ ProvisionBoundary
  BY <1>4 DEF ProvisionVirtualService, CreateServiceBinding, ProvisionRuleset,
              ProvisionBoundary, Provision, Call, Gate!Next, Gate!Write, Gate!Consent
<1>5. CASE CallFails
  <2>1. phase \in Calling /\ phase' \in Calling \cup {"dead"}
    BY <1>5 DEF CallFails
  <2> QED
    BY <1>5, <2>1 DEF CallFails
<1>6. CASE \E w \in Wklds : MoveWorkload(w)
  BY <1>6 DEF MoveWorkload, Moving, Gate!Next, Gate!Write, Gate!Consent
<1>7. CASE Finish \/ Crash
  BY <1>7 DEF Finish, Crash, Fault
<1>8. CASE Rerun
  BY <1>8 DEF Rerun, Gate!Next, Gate!Rerun
<1>9. CASE \E w \in Wklds, m \in Modes : AdminSetsMode(w, m)
  BY <1>9 DEF AdminSetsMode, Fault
<1>10. CASE UNCHANGED vars
  BY <1>10 DEF vars
<1> QED
  BY <1>1, <1>2, <1>3, <1>4, <1>5, <1>6, <1>7, <1>8, <1>9, <1>10 DEF Next, RunStep

\* Unless it is given --skip-allow, containment-switch modifies the PCE only
\* with --update-pce and, without --no-prompt, after the answer yes.
THEOREM GatedUnlessSkipAllow ==
  ASSUME \A f \in FlagSets : ~f.skipAllow
  PROVE  Spec => GateSpec
<1>1. Init => GateInv /\ Gate!Init
  BY InputAssumption, PhasesKnown DEF Init, GateInv, Before, Calling, Gate!Init, Flags
<1>2. GateInv /\ [Next]_vars => GateInv' /\ [Gate!Next]_Gate!vars
  BY GateStep
<1> QED
  BY <1>1, <1>2, PTL DEF Spec, GateSpec, Gate!Spec

-----------------------------------------------------------------------------
(* unused-umwl, umwl-cleanup and nic-manage *)

\* Traffic does not go away while a listing lasts, attempts stay below the
\* limit, and no workload with traffic has slipped into the rows.
ListInv ==
  /\ pc = "query" => cmd = "unused-umwl" /\ busy \subseteq traffic
  /\ attempt \in Nat /\ attempt < MaxAttempts
  /\ pc = "load" => rows = {} /\ attempt = 0
  /\ pc = "query" /\ ~flags.all /\ ~flags.continueOnError => rows \cap busy = {}
  /\ HK!UsedNotListed /\ HK!ReplacedOnly

LEMMA ListInit ==
  ASSUME HK!HousekeepingAssumption
  PROVE  HK!Init => ListInv
  BY HK!HousekeepingAssumption DEF HK!Init, ListInv, HK!UsedNotListed, HK!ReplacedOnly,
                                   HK!Unlisted

LEMMA QueriesKeepList ==
  ASSUME HK!HousekeepingAssumption,
         ListInv, HK!LoadUnmanaged \/ HK!Query \/ HK!QueryFails \/ HK!Listed
  PROVE  ListInv'
<1> USE HK!HousekeepingAssumption
    DEF ListInv, HK!UsedNotListed, HK!ReplacedOnly, HK!Goes, HK!Silent, HK!session,
        HK!pce, HK!disk, HK!Querying
<1>1. CASE HK!LoadUnmanaged
  BY <1>1 DEF HK!LoadUnmanaged
<1>2. CASE HK!Query
  <2>1. /\ rows' = IF Head(todo) \in traffic /\ ~flags.all THEN rows ELSE rows \cup {Head(todo)}
        /\ attempt' = 0
    BY <1>2 DEF HK!Query, HK!Next1
  <2>2. UNCHANGED <<pc, cmd, flags, busy, traffic, file>> /\ pc = "query"
    BY <1>2 DEF HK!Query, HK!Next1
  <2>3. ASSUME ~flags.all, ~flags.continueOnError PROVE rows' \cap busy' = {}
    <3>1. rows \cap busy = {} /\ busy \subseteq traffic
      BY <2>2, <2>3
    <3>2. CASE Head(todo) \in traffic
      BY <2>1, <2>2, <2>3, <3>1, <3>2
    <3>3. CASE Head(todo) \notin traffic
      BY <2>1, <2>2, <3>1, <3>3
    <3> QED
      BY <3>2, <3>3
  <2>4. HK!UsedNotListed' /\ HK!ReplacedOnly'
    BY <2>2
  <2> QED
    BY <2>1, <2>2, <2>3, <2>4
<1>3. CASE HK!QueryFails
  <2>1. UNCHANGED <<cmd, flags, busy, traffic, file>> /\ pc = "query"
    BY <1>3 DEF HK!QueryFails, HK!Next1
  <2>2. CASE HK!Goes("dead")
    BY <2>1, <2>2
  <2>3. CASE /\ attempt + 1 < MaxAttempts /\ attempt' = attempt + 1
             /\ UNCHANGED <<pc, rows>>
    BY <2>1, <2>3
  <2>4. CASE ~(attempt + 1 < MaxAttempts) /\ HK!Next1(FALSE) /\ flags.continueOnError
    BY <2>1, <2>4 DEF HK!Next1
  <2>5. \/ HK!Goes("dead")
        \/ /\ attempt + 1 < MaxAttempts /\ attempt' = attempt + 1
           /\ UNCHANGED <<pc, rows>>
        \/ ~(attempt + 1 < MaxAttempts) /\ HK!Next1(FALSE) /\ flags.continueOnError
    <3> PICK transient \in BOOLEAN :
          IF HK!Reported(transient, attempt + 1) /\ ~flags.continueOnError
          THEN HK!Goes("dead")
          ELSE IF attempt + 1 < MaxAttempts
               THEN /\ attempt' = attempt + 1
                    /\ UNCHANGED <<cmd, pc, todo, rows, HK!nics>>
               ELSE HK!Next1(FALSE)
      BY <1>3 DEF HK!QueryFails
    <3>1. ~(attempt + 1 < MaxAttempts) => HK!Reported(transient, attempt + 1)
      BY DEF HK!Reported
    <3> QED
      BY <3>1
  <2> QED
    BY <2>2, <2>3, <2>4, <2>5
<1>4. CASE HK!Listed
  BY <1>4 DEF HK!Listed
<1> QED
  BY <1>1, <1>2, <1>3, <1>4

\* Whatever the order of the workloads, umwl-cleanup pairs a workload only with
\* a managed one that has all of its addresses.
LEMMA MatchedIsCovered ==
  ASSUME NEW o, ~flags.oneInterfaceMatch, NEW p \in HK!Matches(o)
  PROVE  Addrs[p[2]] \subseteq Addrs[p[1]]
  BY DEF HK!Matches, HK!Covers, HK!Owner

LEMMA RestKeepsList ==
  ASSUME HK!HousekeepingAssumption,
         ListInv,
         \/ HK!Match \/ HK!LoadNics \/ HK!PlanNic \/ HK!RowFails \/ HK!RowsDone
         \/ HK!DryRun \/ HK!PromptDenied \/ HK!Approve
         \/ HK!PushNics \/ HK!PushFails
         \/ HK!LoadFails \/ HK!Crash \/ HK!NewCommand \/ HK!DeleteListed \/ HK!Traffic
         \/ HK!OthersIgnore
         \/ UNCHANGED HK!vars
  PROVE  ListInv'
<1> USE HK!HousekeepingAssumption
    DEF ListInv, HK!UsedNotListed, HK!ReplacedOnly, HK!Goes, HK!Silent, HK!session,
        HK!pce, HK!disk, HK!command
<1>1. CASE HK!Match
  <2> PICK o \in HK!Orders : file' = [cmd |-> cmd, rows |-> HK!Matches(o), busy |-> {}]
    BY <1>1 DEF HK!Match
  <2>1. /\ file'.cmd = "umwl-cleanup" /\ file'.rows = HK!Matches(o)
        /\ pc' = "ended" /\ UNCHANGED <<attempt, flags>>
    BY <1>1 DEF HK!Match
  <2> QED
    BY <2>1, MatchedIsCovered
<1>2. CASE HK!LoadNics \/ HK!PlanNic \/ HK!RowFails \/ HK!RowsDone
  <2>1. /\ pc' \in {"rows", "dead", "ended", "decide"}
        /\ UNCHANGED <<attempt, rows, flags, file>>
    BY <1>2 DEF HK!LoadNics, HK!PlanNic, HK!RowFails, HK!RowsDone, HK!Reading
  <2> QED
    BY <2>1
<1>3. CASE HK!DryRun \/ HK!PromptDenied \/ HK!Approve
  BY <1>3 DEF HK!DryRun, HK!PromptDenied, HK!Approve, HK!Decision, HK!NotAsked,
              HK!Denied, HK!Approved
<1>4. CASE HK!PushNics \/ HK!PushFails \/ HK!LoadFails
  BY <1>4 DEF HK!PushNics, HK!PushFails, HK!LoadFails, HK!Works, HK!LostAnswer, HK!Fault
<1>5. CASE HK!Crash \/ HK!DeleteListed
  BY <1>5 DEF HK!Crash, HK!DeleteListed, HK!Fault
<1>6. CASE HK!NewCommand
  BY <1>6 DEF HK!NewCommand, HK!NextCommand
<1>7. CASE HK!Traffic \/ HK!OthersIgnore
  BY <1>7 DEF HK!Traffic, HK!OthersIgnore, HK!Fault
<1>8. CASE UNCHANGED HK!vars
  BY <1>8 DEF HK!vars
<1> QED
  BY <1>1, <1>2, <1>3, <1>4, <1>5, <1>6, <1>7, <1>8

LEMMA ListStep ==
  ASSUME HK!HousekeepingAssumption
  PROVE  ListInv /\ [HK!Next]_HK!vars => ListInv'
  BY QueriesKeepList, RestKeepsList DEF HK!Next

THEOREM Listing ==
  ASSUME HK!HousekeepingAssumption
  PROVE  HK!Spec => []ListInv
<1> QED
  BY ListInit, ListStep, PTL DEF HK!Spec

\* Unless it goes on after errors, unused-umwl lists no workload that had
\* traffic when the listing began.
THEOREM UsedStay ==
  ASSUME HK!HousekeepingAssumption
  PROVE  HK!Spec => []HK!UsedNotListed
<1>1. ListInv => HK!UsedNotListed
  BY DEF ListInv
<1> QED
  BY <1>1, Listing, PTL

\* Without --one-interface-match umwl-cleanup lists a workload only beside a
\* managed one that has all of its addresses.
THEOREM ReplacedListed ==
  ASSUME HK!HousekeepingAssumption
  PROVE  HK!Spec => []HK!ReplacedOnly
<1>1. ListInv => HK!ReplacedOnly
  BY DEF ListInv
<1> QED
  BY <1>1, Listing, PTL

-----------------------------------------------------------------------------
(* The rows of nic-manage. *)

\* What is planned for a row's workload agrees with the row.
Agrees(i) ==
  /\ nicFile[i].wkld \in present
  /\ nicFile[i].nic \in HK!Base(nicFile[i].wkld) <=> nicFile[i].ignored

\* No row so far is for the interface n of the workload w.
Unnamed(w, n) ==
  \A i \in DOMAIN nicFile : i < line => ~(nicFile[i].wkld = w /\ nicFile[i].nic = n)

\* The plan has what the rows so far ask for, and is otherwise as it was read.
Planning ==
  /\ seen = [w \in present |-> ignored[w]]
  /\ DOMAIN planned \subseteq present
  /\ \A i \in DOMAIN nicFile : i < line => Agrees(i)
  /\ \A w \in present, n \in Nics : Unnamed(w, n) => (n \in HK!Base(w) <=> n \in seen[w])
  /\ pc # "rows" => line > Len(nicFile)

\* The inductive invariant.
NicInv ==
  /\ nicFile \in NicFiles /\ present \subseteq HK!Workloads
  /\ DOMAIN ignored = HK!Workloads /\ line \in Nat \ {0}
  /\ pc = "load" => line = 1 /\ planned = HK!Nothing
  /\ pc \in {"rows", "decide", "push"} => cmd = "nic-manage" /\ (alone => Planning)
  /\ pc = "query" => cmd = "unused-umwl"
  /\ HK!NicRowsHold

LEMMA NicInit ==
  ASSUME HK!HousekeepingAssumption
  PROVE  HK!Init => NicInv
  BY DEF HK!Init, NicInv, HK!NicRowsHold

\* Reading the workloads: nothing is planned, so everything is as it was read.
LEMMA LoadKeepsNics ==
  ASSUME HK!HousekeepingAssumption, NicInv, HK!LoadNics
  PROVE  NicInv'
<1>1. /\ pc = "load" /\ cmd = "nic-manage" /\ pc' = "rows" /\ line = 1 /\ planned = HK!Nothing
      /\ seen' = [w \in present |-> ignored[w]]
      /\ UNCHANGED <<nicFile, present, ignored, line, planned, cmd, alone>>
  BY DEF HK!LoadNics, NicInv, HK!Silent, HK!session, HK!pce
<1>2. DOMAIN planned = {}
  BY <1>1 DEF HK!Nothing
<1>3. nicFile \in Seq(HK!NicRow)
  BY HK!HousekeepingAssumption DEF NicInv
<1>4. \A i \in DOMAIN nicFile : ~(i < line)
  BY <1>1, <1>3
<1>5. \A w \in present : HK!Base(w)' = seen'[w]
  BY <1>1, <1>2 DEF HK!Base
<1>6. Planning'
  BY <1>1, <1>2, <1>4, <1>5 DEF Planning
<1> QED
  BY <1>1, <1>6 DEF NicInv, HK!NicRowsHold

\* A row that is no error leaves the other interfaces alone, those of its
\* workload included.
LEMMA RowKeepsNics ==
  ASSUME HK!HousekeepingAssumption, NicInv, HK!PlanNic
  PROVE  NicInv'
<1>0. PICK r : r = nicFile[line]
  OBVIOUS
<1>1. /\ pc = "rows" /\ pc' = "rows" /\ line' = line + 1 /\ line <= Len(nicFile)
      /\ planned' = IF HK!Ignored(r) <=> r.ignored THEN planned
                    ELSE [w \in DOMAIN planned \cup {r.wkld} |->
                            IF w = r.wkld THEN HK!Payload(r) ELSE planned[w]]
      /\ alone' = (alone /\ ~HK!Repeated(r) /\ ~HK!Unknown(r))
      /\ UNCHANGED <<nicFile, present, ignored, seen, cmd>>
  BY <1>0 DEF HK!PlanNic, HK!Reading, HK!pce
<1>2. /\ nicFile \in Seq(HK!NicRow) /\ line \in 1..Len(nicFile) /\ r \in HK!NicRow
      /\ r.ignored \in BOOLEAN /\ r.nic \in Nics /\ Len(nicFile) \in Nat
      /\ DOMAIN nicFile = 1..Len(nicFile)
  <2>1. nicFile \in Seq(HK!NicRow) /\ line \in Nat \ {0}
    BY HK!HousekeepingAssumption DEF NicInv
  <2>2. Len(nicFile) \in Nat /\ DOMAIN nicFile = 1..Len(nicFile)
    BY <2>1
  <2>3. r \in HK!NicRow
    BY <1>0, <1>1, <2>1, <2>2, ElementOfSeq
  <2> QED
    BY <1>1, <2>1, <2>2, <2>3 DEF HK!NicRow
<1>3. ASSUME alone' PROVE Planning'
  <2>1. Planning /\ ~HK!Repeated(r) /\ ~HK!Unknown(r) /\ r.wkld \in present
    BY <1>1, <1>3 DEF NicInv, Planning, HK!Unknown
  <2>2. /\ seen' = [w \in present' |-> ignored'[w]] /\ DOMAIN planned' \subseteq present'
    BY <1>1, <2>1 DEF Planning
  <2>3. \A i \in DOMAIN nicFile : i < line => ~(nicFile[i].wkld = r.wkld /\ nicFile[i].nic = r.nic)
    BY <1>2, <2>1 DEF HK!Repeated
  <2>4. r.nic \in HK!Base(r.wkld) <=> r.nic \in seen[r.wkld]
    BY <1>2, <2>1, <2>3 DEF Planning, Unnamed
  <2>5. HK!Ignored(r) <=> r.nic \in seen[r.wkld]
    BY <2>1 DEF HK!Ignored
  <2>6. /\ \A w, n : w # r.wkld \/ n # r.nic => (n \in HK!Base(w)' <=> n \in HK!Base(w))
        /\ r.nic \in HK!Base(r.wkld)' <=> r.ignored
    <3>1. CASE HK!Ignored(r) <=> r.ignored
      <4>1. planned' = planned
        BY <1>1, <3>1
      <4>2. \A w : HK!Base(w)' = HK!Base(w)
        BY <1>1, <4>1 DEF HK!Base
      <4>3. r.nic \in seen[r.wkld] <=> r.ignored
        BY <2>5, <3>1
      <4> QED
        BY <2>4, <4>2, <4>3
    <3>2. CASE ~(HK!Ignored(r) <=> r.ignored)
      <4>1. planned' = [w \in DOMAIN planned \cup {r.wkld} |->
                          IF w = r.wkld THEN HK!Payload(r) ELSE planned[w]]
        BY <1>1, <3>2
      <4>2. HK!Base(r.wkld)' = HK!Payload(r)
        BY <4>1 DEF HK!Base
      <4>3. \A w : w # r.wkld => HK!Base(w)' = HK!Base(w)
        BY <1>1, <4>1 DEF HK!Base
      <4>4. /\ r.nic \in HK!Payload(r) <=> r.ignored
            /\ \A n : n # r.nic => (n \in HK!Payload(r) <=> n \in HK!Base(r.wkld))
        BY <1>2 DEF HK!Payload
      <4> QED
        BY <4>2, <4>3, <4>4
    <3> QED
      BY <3>1, <3>2
  <2>7. ASSUME NEW i \in DOMAIN nicFile, i < line + 1 PROVE Agrees(i)'
    <3>0. PICK q : q = nicFile[i]
      OBVIOUS
    <3>1. CASE i = line
      <4>1. q = r /\ q.wkld \in present /\ (q.nic \in HK!Base(q.wkld)' <=> q.ignored)
        BY <1>0, <2>1, <2>6, <3>0, <3>1
      <4> QED
        BY <1>1, <3>0, <4>1 DEF Agrees
    <3>2. CASE i < line
      <4>1. /\ q.wkld \in present /\ (q.nic \in HK!Base(q.wkld) <=> q.ignored)
            /\ q.wkld # r.wkld \/ q.nic # r.nic
        BY <2>1, <2>3, <3>0, <3>2 DEF Planning, Agrees
      <4>2. q.nic \in HK!Base(q.wkld)' <=> q.nic \in HK!Base(q.wkld)
        BY <2>6, <4>1
      <4> QED
        BY <1>1, <3>0, <4>1, <4>2 DEF Agrees
    <3> QED
      BY <1>2, <2>7, <3>1, <3>2
  <2>8. ASSUME NEW w \in present, NEW n \in Nics, Unnamed(w, n)'
        PROVE  n \in HK!Base(w)' <=> n \in seen'[w]
    <3>1. Unnamed(w, n) /\ ~(r.wkld = w /\ r.nic = n)
      BY <1>0, <1>1, <1>2, <2>8 DEF Unnamed
    <3> QED
      BY <1>1, <2>1, <2>6, <3>1 DEF Planning
  <2> QED
    BY <1>1, <2>2, <2>7, <2>8 DEF Planning
<1> QED
  BY <1>1, <1>2, <1>3 DEF NicInv, HK!NicRowsHold

\* What is planned when the rows are done, and what the bulk call leaves.
LEMMA EndKeepsNics ==
  ASSUME HK!HousekeepingAssumption, NicInv,
         HK!RowsDone \/ HK!DryRun \/ HK!PromptDenied \/ HK!Approve \/ HK!PushNics
  PROVE  NicInv'
<1>1. /\ DOMAIN nicFile = 1..Len(nicFile) /\ Len(nicFile) \in Nat
      /\ \A i \in DOMAIN nicFile : nicFile[i].ignored \in BOOLEAN
  <2>1. nicFile \in Seq(HK!NicRow)
    BY HK!HousekeepingAssumption DEF NicInv
  <2>2. \A i \in DOMAIN nicFile : nicFile[i] \in HK!NicRow
    BY <2>1, ElementOfSeq
  <2> QED
    BY <2>1, <2>2 DEF HK!NicRow
<1>2. ASSUME Planning, line > Len(nicFile)
      PROVE  \A i \in DOMAIN nicFile : Agrees(i)
  BY <1>1, <1>2 DEF Planning, NicInv
<1>3. CASE HK!RowsDone
  <2>1. /\ pc = "rows" /\ line > Len(nicFile)
        /\ pc' = IF planned = HK!Nothing THEN "ended" ELSE "decide"
        /\ UNCHANGED <<nicFile, present, ignored, seen, line, planned, cmd, alone, flags, answer>>
    BY <1>3 DEF HK!RowsDone, HK!Goes, HK!Silent, HK!session, HK!pce, HK!nics
  <2>2. CASE planned = HK!Nothing
    <3>1. ASSUME alone, NEW i \in DOMAIN nicFile
          PROVE  nicFile[i].nic \in ignored[nicFile[i].wkld] <=> nicFile[i].ignored
      <4>1. Agrees(i) /\ Planning
        BY <1>2, <2>1, <3>1 DEF NicInv
      <4>2. DOMAIN planned = {}
        BY <2>2 DEF HK!Nothing
      <4>3. HK!Base(nicFile[i].wkld) = ignored[nicFile[i].wkld]
        BY <4>1, <4>2 DEF HK!Base, Agrees, Planning
      <4>4. nicFile[i].ignored \in BOOLEAN
        BY <1>1
      <4> QED
        BY <4>1, <4>3, <4>4 DEF Agrees
    <3>2. HK!NicRowsHold'
      BY <2>1, <3>1 DEF HK!NicRowsHold
    <3> QED
      BY <2>1, <2>2, <3>2 DEF NicInv
  <2>3. CASE planned # HK!Nothing
    <3>1. alone' => Planning'
      <4>1. alone' => Planning
        BY <2>1 DEF NicInv
      <4>2. \A w, n, i : /\ HK!Base(w)' = HK!Base(w)
                         /\ Unnamed(w, n)' = Unnamed(w, n) /\ Agrees(i)' = Agrees(i)
        BY <2>1 DEF HK!Base, Unnamed, Agrees
      <4> QED
        BY <2>1, <4>1, <4>2 DEF Planning
    <3> QED
      BY <2>1, <2>3, <3>1 DEF NicInv, HK!NicRowsHold
  <2> QED
    BY <2>2, <2>3
<1>4. CASE HK!DryRun \/ HK!PromptDenied
  <2>1. /\ pc = "decide" /\ pc' = "ended" /\ (~flags'.updatePCE \/ answer' = "no")
        /\ UNCHANGED <<nicFile, present, ignored, line>>
    BY <1>4 DEF HK!DryRun, HK!PromptDenied, HK!Decision, HK!NotAsked, HK!Denied, HK!Goes,
                HK!Silent, HK!session, HK!pce, HK!nics
  <2> QED
    BY <2>1 DEF NicInv, HK!NicRowsHold
<1>5. CASE HK!Approve
  <2>1. /\ pc = "decide" /\ pc' = "push"
        /\ UNCHANGED <<nicFile, present, ignored, seen, line, planned, cmd, alone>>
    BY <1>5 DEF HK!Approve, HK!Decision, HK!Approved, HK!Goes, HK!pce, HK!nics
  <2>2. alone' => Planning'
    <3>1. alone' => Planning
      BY <2>1 DEF NicInv
    <3>2. \A w, n, i : /\ HK!Base(w)' = HK!Base(w)
                       /\ Unnamed(w, n)' = Unnamed(w, n) /\ Agrees(i)' = Agrees(i)
      BY <2>1 DEF HK!Base, Unnamed, Agrees
    <3> QED
      BY <2>1, <3>1, <3>2 DEF Planning
  <2> QED
    BY <2>1, <2>2 DEF NicInv, HK!NicRowsHold
<1>6. CASE HK!PushNics
  <2>1. /\ pc = "push" /\ pc' = "ended" /\ DOMAIN planned \subseteq present
        /\ ignored' = [w \in HK!Workloads |-> IF w \in DOMAIN planned \cap present THEN planned[w]
                                              ELSE ignored[w]]
        /\ UNCHANGED <<nicFile, present, line, planned, seen, cmd, alone>>
    BY <1>6 DEF HK!PushNics, HK!Ignore, HK!Goes, HK!Works, HK!nics
  <2>2. ASSUME alone, NEW i \in DOMAIN nicFile
        PROVE  nicFile[i].nic \in ignored'[nicFile[i].wkld] <=> nicFile[i].ignored
    <3>1. Planning
      BY <2>1, <2>2 DEF NicInv
    <3>2. Agrees(i)
      BY <1>2, <2>1, <3>1 DEF Planning
    <3>3. ignored'[nicFile[i].wkld] = HK!Base(nicFile[i].wkld)
      BY <2>1, <3>1, <3>2 DEF HK!Base, Agrees, Planning, NicInv
    <3>4. nicFile[i].ignored \in BOOLEAN
      BY <1>1
    <3> QED
      BY <3>2, <3>3, <3>4 DEF Agrees
  <2>3. HK!NicRowsHold'
    BY <2>1, <2>2 DEF HK!NicRowsHold
  <2> QED
    BY <2>1, <2>3 DEF NicInv
<1> QED
  BY <1>3, <1>4, <1>5, <1>6

\* Steps that disturb the command, end it, or leave nic-manage as it is.
LEMMA OthersKeepNics ==
  ASSUME HK!HousekeepingAssumption, NicInv,
         \/ HK!LoadUnmanaged \/ HK!Query \/ HK!QueryFails \/ HK!Listed \/ HK!Match
         \/ HK!RowFails \/ HK!PushFails \/ HK!LoadFails \/ HK!Crash \/ HK!NewCommand
         \/ HK!DeleteListed \/ HK!Traffic \/ HK!OthersIgnore
         \/ UNCHANGED HK!vars
  PROVE  NicInv'
<1> USE DEF NicInv, HK!NicRowsHold, HK!nics, HK!pce, HK!command, HK!disk
<1>1. CASE HK!LoadUnmanaged \/ HK!Query \/ HK!Listed \/ HK!Match
  <2>1. /\ cmd # "nic-manage" /\ pc' \in {"query", "ended"}
        /\ pc' = "query" => cmd = "unused-umwl"
        /\ UNCHANGED <<nicFile, present, ignored, line, cmd>>
    BY <1>1 DEF HK!LoadUnmanaged, HK!Query, HK!Listed, HK!Match, HK!Next1, HK!Goes, HK!Querying
  <2> QED
    BY <2>1
<1>2. CASE HK!QueryFails
  <2>1. /\ pc = "query" /\ pc' \in {"query", "dead"}
        /\ UNCHANGED <<nicFile, present, ignored, line, cmd>>
    BY <1>2 DEF HK!QueryFails, HK!Querying, HK!Next1, HK!Goes
  <2> QED
    BY <2>1
<1>3. CASE HK!RowFails \/ HK!LoadFails \/ HK!Crash
  <2>1. pc' = "dead" /\ UNCHANGED <<nicFile, present, ignored, line>>
    BY <1>3 DEF HK!RowFails, HK!LoadFails, HK!Crash, HK!Goes
  <2> QED
    BY <2>1
<1>4. CASE HK!PushFails
  <2>1. pc' = "dead" /\ UNCHANGED <<nicFile, present, line>> /\ DOMAIN ignored' = HK!Workloads
    BY <1>4 DEF HK!PushFails, HK!Goes, HK!Ignore
  <2> QED
    BY <2>1
<1>5. CASE HK!NewCommand
  <2>1. /\ pc' = "load" /\ line' = 1 /\ planned' = HK!Nothing
        /\ UNCHANGED <<nicFile, present, ignored>>
    BY <1>5 DEF HK!NewCommand
  <2> QED
    BY <2>1
<1>6. CASE HK!DeleteListed
  <2>1. /\ pc \in {"ended", "dead"} /\ present' \subseteq present
        /\ UNCHANGED <<nicFile, ignored, line, cmd, pc, alone, flags, answer>>
    BY <1>6 DEF HK!DeleteListed, HK!session
  <2> QED
    BY <2>1
<1>7. CASE HK!Traffic \/ HK!OthersIgnore
  <2>1. /\ ~alone' /\ UNCHANGED <<nicFile, present, line, planned, cmd, pc>>
        /\ DOMAIN ignored' = HK!Workloads
    BY <1>7 DEF HK!Traffic, HK!OthersIgnore, HK!Fault
  <2> QED
    BY <2>1
<1>8. CASE UNCHANGED HK!vars
  <2>1. UNCHANGED <<nicFile, present, ignored, seen, line, planned, cmd, pc, alone, flags, answer>>
    BY <1>8 DEF HK!vars, HK!session
  <2>2. Planning => Planning'
    <3>1. \A w, n, i : /\ HK!Base(w)' = HK!Base(w)
                       /\ Unnamed(w, n)' = Unnamed(w, n) /\ Agrees(i)' = Agrees(i)
      BY <2>1 DEF HK!Base, Unnamed, Agrees
    <3> QED
      BY <2>1, <3>1 DEF Planning
  <2> QED
    BY <2>1, <2>2
<1> QED
  BY <1>1, <1>2, <1>3, <1>4, <1>5, <1>6, <1>7, <1>8

\* After an undisturbed nic-manage every row of the file holds, however many rows
\* a workload has: each payload is built upon those before it (nicmanage.go).
THEOREM RowsInEffect ==
  ASSUME HK!HousekeepingAssumption
  PROVE  HK!Spec => []HK!NicRowsHold
<1>1. NicInv /\ [HK!Next]_HK!vars => NicInv'
  BY LoadKeepsNics, RowKeepsNics, EndKeepsNics, OthersKeepNics DEF HK!Next
<1>2. NicInv => HK!NicRowsHold
  BY DEF NicInv
<1> QED
  BY NicInit, <1>1, <1>2, PTL DEF HK!Spec

-----------------------------------------------------------------------------
(* Consent. *)

HouseGateInv ==
  /\ flags \in HouseFlags
  /\ pc \in {"load", "query", "rows", "decide"} => answer = "unasked" /\ wrote = FALSE
  /\ pc = "push" => HK!Consent

LEMMA HouseGateStep ==
  ASSUME HouseGateInv, [HK!Next]_HK!vars
  PROVE  HouseGateInv' /\ [HK!Gate!Next]_HK!Gate!vars
<1> USE DEF HouseGateInv, HK!Consent, HK!Gate!vars, HK!Goes, HK!Silent, HK!session
<1>1. CASE HK!LoadUnmanaged \/ HK!Query \/ HK!Listed \/ HK!Match
  BY <1>1 DEF HK!LoadUnmanaged, HK!Query, HK!Next1, HK!Querying, HK!Listed, HK!Match
<1>2. CASE HK!QueryFails
  <2>1. pc = "query" /\ pc' \in {"query", "dead"} /\ UNCHANGED <<flags, answer, wrote>>
    BY <1>2 DEF HK!QueryFails, HK!Querying, HK!Next1
  <2> QED
    BY <2>1
<1>3. CASE HK!LoadNics \/ HK!PlanNic \/ HK!RowFails \/ HK!RowsDone
  <2>1. /\ pc \in {"load", "rows"} /\ pc' \in {"rows", "dead", "ended", "decide"}
        /\ UNCHANGED <<flags, answer, wrote>>
    BY <1>3 DEF HK!LoadNics, HK!PlanNic, HK!RowFails, HK!RowsDone, HK!Reading
  <2> QED
    BY <2>1
<1>4. CASE HK!DryRun \/ HK!PromptDenied \/ HK!Approve
  BY <1>4 DEF HK!DryRun, HK!PromptDenied, HK!Approve, HK!Decision, HK!NotAsked,
              HK!Denied, HK!Approved,
              HK!Gate!Next, HK!Gate!Ask
<1>5. CASE HK!PushNics \/ HK!PushFails
  BY <1>5 DEF HK!PushNics, HK!PushFails, HK!Works, HK!LostAnswer, HK!Gate!Next,
              HK!Gate!Write, HK!Gate!Consent
<1>6. CASE HK!LoadFails \/ HK!Crash
  BY <1>6 DEF HK!LoadFails, HK!Crash, HK!Fault
<1>7. CASE HK!NewCommand
  BY <1>7 DEF HK!NewCommand, HK!NextCommand, HK!Gate!Next, HK!Gate!Rerun
<1>8. CASE HK!DeleteListed \/ HK!Traffic \/ HK!OthersIgnore
  BY <1>8 DEF HK!DeleteListed, HK!Traffic, HK!OthersIgnore, HK!command, HK!Fault
<1>9. CASE UNCHANGED HK!vars
  BY <1>9 DEF HK!vars, HK!command
<1> QED
  BY <1>1, <1>2, <1>3, <1>4, <1>5, <1>6, <1>7, <1>8, <1>9 DEF HK!Next

\* nic-manage modifies workloads only if --update-pce is set and, without
\* --no-prompt, the operator has said yes; the listings modify nothing.
THEOREM HousekeepingGated ==
  ASSUME HK!SessionAssumption
  PROVE  HK!Spec => HK!GateSpec
<1>1. HK!Init => HouseGateInv /\ HK!Gate!Init
  BY HK!SessionAssumption DEF HK!Init, HK!SessionInit, HouseGateInv, HK!Gate!Init
<1>2. HouseGateInv /\ [HK!Next]_HK!vars => HouseGateInv' /\ [HK!Gate!Next]_HK!Gate!vars
  BY HouseGateStep
<1> QED
  BY <1>1, <1>2, PTL DEF HK!Spec, HK!GateSpec, HK!Gate!Spec

-----------------------------------------------------------------------------
(* nen-acl and nen-switch *)

\* Where the ACLs of the request are while the command goes on.
Promise ==
  /\ pc = "poll" /\ ~generating => acl >= since
  /\ pc = "fetch" => acl >= since
  /\ pc \in {"write", "fill"} => known.acl \in since..policy
  /\ pc = "ended" => out \in since..MaxPolicy

\* The inductive invariant.
AclInv ==
  /\ policy \in 1..MaxPolicy /\ acl \in 0..policy /\ since \in 0..policy
  /\ "acl" \in DOMAIN known
  /\ pc = "begin" \/ cmd = "nen-switch" => since = Nen!Empty
  /\ pc \in {"load", "create", "attach"} => cmd = "nen-switch"
  /\ alone /\ since # Nen!Empty => Promise

LEMMA KnownAcl ==
  /\ "acl" \in DOMAIN Nen!Unknown
  /\ "acl" \in DOMAIN Nen!Loaded
  BY DEF Nen!Unknown, Nen!Loaded

LEMMA AclInit ==
  ASSUME Nen!NenAssumption
  PROVE  Nen!Init => AclInv
  BY Nen!NenAssumption, KnownAcl DEF Nen!Init, AclInv, Nen!Empty

LEMMA SwitchKeepsAcl ==
  ASSUME AclInv,
         \/ Nen!ImportWorkloads \/ Nen!LoadSwitch \/ Nen!LoadSwitchFails
         \/ Nen!CreateSwitch \/ Nen!CreateFails
         \/ Nen!Attach \/ Nen!AttachFails \/ Nen!Attached
  PROVE  AclInv'
<1>1. cmd = "nen-switch"
  BY DEF AclInv, Nen!ImportWorkloads, Nen!LoadSwitch, Nen!LoadSwitchFails,
         Nen!CreateSwitch, Nen!CreateFails,
         Nen!Attach, Nen!AttachFails, Nen!Attached, Nen!Attaching
<1>2. UNCHANGED <<cmd, policy, acl, since>>
  BY DEF Nen!ImportWorkloads, Nen!LoadSwitch, Nen!LoadSwitchFails, Nen!CreateSwitch,
         Nen!CreateFails,
         Nen!Attach, Nen!AttachFails, Nen!Attached, Nen!Goes, Nen!pce
<1>3. "acl" \in DOMAIN known'
  BY KnownAcl DEF AclInv, Nen!ImportWorkloads, Nen!LoadSwitch, Nen!LoadSwitchFails,
                  Nen!CreateSwitch, Nen!CreateFails,
         Nen!Attach, Nen!AttachFails, Nen!Attached, Nen!Goes
<1> QED
  BY <1>1, <1>2, <1>3 DEF AclInv, Promise

LEMMA RequestKeepsAcl ==
  ASSUME AclInv, Nen!RequestAcl \/ Nen!RequestFails \/ Nen!UseAcl \/ Nen!NoMatch
  PROVE  AclInv'
<1> USE KnownAcl DEF AclInv, Promise, Nen!Empty, Nen!Starts, Nen!Silent, Nen!Fault,
                     Nen!session, Nen!pce
<1>1. CASE Nen!RequestAcl
  BY <1>1 DEF Nen!RequestAcl
<1>2. CASE Nen!RequestFails
  BY <1>2 DEF Nen!RequestFails
<1>3. CASE Nen!UseAcl
  BY <1>3 DEF Nen!UseAcl
<1>4. CASE Nen!NoMatch
  BY <1>4 DEF Nen!NoMatch, Nen!LogError
<1> QED
  BY <1>1, <1>2, <1>3, <1>4

LEMMA WaitKeepsAcl ==
  ASSUME AclInv, Nen!Poll \/ Nen!PollFails \/ Nen!Fetch \/ Nen!FetchFails
  PROVE  AclInv'
<1> USE DEF AclInv, Promise, Nen!Empty, Nen!Goes, Nen!Silent, Nen!Fault, Nen!LogError,
            Nen!session, Nen!pce
<1>1. CASE Nen!Poll
  BY <1>1 DEF Nen!Poll, Nen!Generated
<1>2. CASE Nen!PollFails
  BY <1>2 DEF Nen!PollFails
<1>3. CASE Nen!Fetch
  <2>1. known'.acl = acl /\ "acl" \in DOMAIN known'
    BY <1>3 DEF Nen!Fetch
  <2> QED
    BY <1>3, <2>1 DEF Nen!Fetch
<1>4. CASE Nen!FetchFails
  BY <1>4 DEF Nen!FetchFails
<1> QED
  BY <1>1, <1>2, <1>3, <1>4

LEMMA WriteKeepsAcl ==
  ASSUME Nen!NenAssumption,
         AclInv, Nen!Create \/ Nen!Fill \/ Nen!FillFails
  PROVE  AclInv'
<1> USE Nen!NenAssumption DEF AclInv, Promise, Nen!Empty, Nen!Goes, Nen!Silent,
                              Nen!Fault, Nen!LogError, Nen!session, Nen!pce
<1>1. CASE Nen!Create
  BY <1>1 DEF Nen!Create
<1>2. CASE Nen!Fill
  BY <1>2 DEF Nen!Fill
<1>3. CASE Nen!FillFails
  BY <1>3 DEF Nen!FillFails
<1> QED
  BY <1>1, <1>2, <1>3

LEMMA RestKeepsAcl ==
  ASSUME Nen!NenAssumption,
         AclInv,
         \/ Nen!Crash \/ Nen!NewCommand \/ Nen!Generate \/ Nen!EditPolicy \/ Nen!Age
         \/ Nen!Others \/ UNCHANGED Nen!vars
  PROVE  AclInv'
<1> USE Nen!NenAssumption
    DEF AclInv, Promise, Nen!Empty, Nen!Goes, Nen!Silent, Nen!Fault, Nen!session,
        Nen!pce, Nen!command
<1>1. CASE Nen!Crash
  BY <1>1 DEF Nen!Crash
<1>2. CASE Nen!NewCommand
  BY <1>2, KnownAcl DEF Nen!NewCommand, Nen!NextCommand
<1>3. CASE Nen!Generate
  BY <1>3 DEF Nen!Generate
<1>4. CASE Nen!EditPolicy
  BY <1>4 DEF Nen!EditPolicy
<1>5. CASE Nen!Age \/ Nen!Others
  BY <1>5 DEF Nen!Age, Nen!Others
<1>6. CASE UNCHANGED Nen!vars
  BY <1>6 DEF Nen!vars
<1> QED
  BY <1>1, <1>2, <1>3, <1>4, <1>5, <1>6

LEMMA AclStep ==
  ASSUME Nen!NenAssumption
  PROVE  AclInv /\ [Nen!Next]_Nen!vars => AclInv'
  BY SwitchKeepsAcl, RequestKeepsAcl, WaitKeepsAcl, WriteKeepsAcl, RestKeepsAcl
  DEF Nen!Next, Nen!Step

\* However the policy changes while the PCE generates, and however long it
\* takes, the file of an undisturbed nen-acl is as new as its request.
THEOREM Fresh ==
  ASSUME Nen!NenAssumption
  PROVE  Nen!Spec => []Nen!FreshAcl
<1>1. AclInv => Nen!FreshAcl
  BY DEF AclInv, Promise, Nen!FreshAcl
<1>2. Nen!Spec => []AclInv
  BY AclInit, AclStep, PTL DEF Nen!Spec
<1> QED
  BY <1>1, <1>2, PTL

-----------------------------------------------------------------------------
(* The workloads of the interfaces. *)

\* No workload is named on two interfaces of the file.
NamedOnce ==
  \A i, j \in DOMAIN rows :
    rows[i].name = rows[j].name /\ rows[i].name # NoWorkload => rows[i].port = rows[j].port

\* The rows that are done have their workloads on their interfaces.
Done == \A i \in DOMAIN rows :
          i <= line /\ rows[i].name \in workloads =>
            <<rows[i].port, rows[i].name>> \in attached

\* The inductive invariant.
FillInv ==
  /\ rows \in Seq(Nen!Row) /\ workloads \subseteq Workloads /\ line \in 0..Len(rows)
  /\ pc \in {"poll", "fetch", "write", "fill"} => cmd = "nen-acl"
  /\ pc \in {"begin", "load", "create"} => line = 0
  /\ cmd = "nen-switch" /\ alone =>
       /\ pc \in {"create", "attach"} => known.workloads = workloads
       /\ NamedOnce => Done
       /\ pc = "ended" => line = Len(rows)

LEMMA FillInit ==
  ASSUME Nen!NenAssumption
  PROVE  Nen!Init => FillInv
  BY Nen!NenAssumption DEF Nen!Init, FillInv, Done

LEMMA StartKeepsFill ==
  ASSUME Nen!NenAssumption,
         FillInv,
         Nen!ImportWorkloads \/ Nen!LoadSwitch \/ Nen!LoadSwitchFails
         \/ Nen!CreateSwitch \/ Nen!CreateFails
  PROVE  FillInv'
<1> USE Nen!NenAssumption DEF FillInv, NamedOnce, Done, Nen!Silent, Nen!Fault,
                              Nen!LogError, Nen!session, Nen!pce, Nen!Works,
                              Nen!LostAnswer
<1>1. CASE Nen!ImportWorkloads
  <2>1. /\ rows' = rows /\ line' = 0 /\ pc' = "load" /\ cmd' = cmd /\ line = 0
    BY <1>1 DEF Nen!ImportWorkloads, Nen!Goes
  <2>2. workloads' \subseteq Workloads
    <3>1. \A i \in DOMAIN rows : rows[i].name \in Workloads \cup {NoWorkload}
      <4>1. \A i \in DOMAIN rows : rows[i] \in Nen!Row
        OBVIOUS
      <4> QED
        BY <4>1 DEF Nen!Row
    <3> QED
      BY <1>1, <3>1 DEF Nen!ImportWorkloads, Nen!Named
  <2> QED
    BY <2>1, <2>2
<1>2. CASE Nen!LoadSwitch
  <2>1. known'.workloads = workloads
    BY <1>2 DEF Nen!LoadSwitch, Nen!Loaded, Nen!Unknown
  <2> QED
    BY <1>2, <2>1 DEF Nen!LoadSwitch
<1>3. CASE Nen!LoadSwitchFails
  BY <1>3 DEF Nen!LoadSwitchFails, Nen!Goes
<1>4. CASE Nen!CreateSwitch
  <2>1. known'.workloads = known.workloads
    BY <1>4 DEF Nen!CreateSwitch
  <2> QED
    BY <1>4, <2>1 DEF Nen!CreateSwitch
<1>5. CASE Nen!CreateFails
  BY <1>5 DEF Nen!CreateFails, Nen!Goes
<1> QED
  BY <1>1, <1>2, <1>3, <1>4, <1>5

\* What a row attaches stays, unless a later row names the same workload.
LEMMA EndpointsKeep ==
  ASSUME NEW r \in Nen!Row, NEW e \in attached,
         e[2] # Nen!Resolved(r) \/ e = <<r.port, Nen!Resolved(r)>>
  PROVE  e \in Nen!Endpoints(r)
  BY DEF Nen!Endpoints

LEMMA AttachKeepsFill ==
  ASSUME Nen!NenAssumption,
         FillInv, Nen!Attach \/ Nen!AttachFails \/ Nen!Attached
  PROVE  FillInv'
<1> USE DEF FillInv, Nen!Silent, Nen!Fault, Nen!session, Nen!pce, Nen!Works
<1>1. CASE Nen!Attach
  <2> DEFINE n == line + 1
  <2>1. /\ n \in DOMAIN rows /\ rows' = rows /\ line' = n /\ pc = "attach" /\ pc' = "attach"
        /\ workloads' = workloads /\ known' = known /\ cmd' = cmd /\ alone' = alone
        /\ attached' = Nen!Endpoints(rows[n]) /\ rows[n] \in Nen!Row
    BY <1>1 DEF Nen!Attach, Nen!Attaching
  <2>2. ASSUME cmd = "nen-switch", alone, NamedOnce, NEW i \in DOMAIN rows, i <= n,
               rows[i].name \in workloads
        PROVE  <<rows[i].port, rows[i].name>> \in attached'
    <3>1. known.workloads = workloads /\ Done
      BY <2>1, <2>2
    <3>2. rows[i].name # NoWorkload
      BY <2>2, Nen!NenAssumption
    <3>3. CASE i = n
      <4>1. Nen!Resolved(rows[n]) = rows[n].name
        BY <2>2, <3>1, <3>3 DEF Nen!Resolved
      <4> QED
        BY <2>1, <3>3, <4>1 DEF Nen!Endpoints
    <3>4. CASE i # n
      <4> DEFINE e == <<rows[i].port, rows[i].name>>
      <4>1. e \in attached
        BY <2>1, <2>2, <3>1, <3>4 DEF Done
      <4>2. Nen!Resolved(rows[n]) \in {rows[n].name, NoWorkload}
        BY DEF Nen!Resolved
      <4>3. e[2] # Nen!Resolved(rows[n]) \/ e = <<rows[n].port, Nen!Resolved(rows[n])>>
        BY <2>1, <2>2, <3>2, <4>2 DEF NamedOnce
      <4> QED
        BY <2>1, <4>1, <4>3, EndpointsKeep
    <3> QED
      BY <3>3, <3>4
  <2> QED
    BY <2>1, <2>2 DEF NamedOnce, Done
<1>2. CASE Nen!AttachFails
  BY <1>2 DEF Nen!AttachFails, Nen!Attaching
<1>3. CASE Nen!Attached
  BY <1>3 DEF Nen!Attached, Nen!Goes, NamedOnce, Done
<1> QED
  BY <1>1, <1>2, <1>3

LEMMA AclKeepsFill ==
  ASSUME FillInv,
         \/ Nen!RequestAcl \/ Nen!RequestFails \/ Nen!UseAcl \/ Nen!NoMatch \/ Nen!Poll
         \/ Nen!PollFails
         \/ Nen!Fetch \/ Nen!FetchFails \/ Nen!Create \/ Nen!Fill \/ Nen!FillFails
  PROVE  FillInv'
<1>1. cmd = "nen-acl" /\ cmd' = cmd
  BY DEF FillInv, Nen!RequestAcl, Nen!RequestFails, Nen!UseAcl, Nen!NoMatch, Nen!Starts,
         Nen!Poll, Nen!PollFails, Nen!Fetch,
         Nen!FetchFails, Nen!Create, Nen!Fill, Nen!FillFails, Nen!Goes
<1>2. UNCHANGED <<rows, workloads, line>>
  BY DEF Nen!RequestAcl, Nen!RequestFails, Nen!UseAcl, Nen!NoMatch, Nen!Starts, Nen!Poll,
         Nen!PollFails, Nen!Fetch,
         Nen!FetchFails, Nen!Create, Nen!Fill, Nen!FillFails, Nen!Goes, Nen!pce
<1>3. pc' \notin {"begin", "load", "create"}
  BY DEF Nen!RequestAcl, Nen!RequestFails, Nen!UseAcl, Nen!NoMatch, Nen!Starts, Nen!Poll,
         Nen!PollFails, Nen!Fetch,
         Nen!FetchFails, Nen!Create, Nen!Fill, Nen!FillFails, Nen!Goes, Nen!LogError
<1> QED
  BY <1>1, <1>2, <1>3 DEF FillInv

LEMMA RestKeepsFill ==
  ASSUME Nen!NenAssumption,
         FillInv,
         \/ Nen!Crash \/ Nen!NewCommand \/ Nen!Generate \/ Nen!EditPolicy \/ Nen!Age
         \/ Nen!Others \/ UNCHANGED Nen!vars
  PROVE  FillInv'
<1> USE Nen!NenAssumption
    DEF FillInv, NamedOnce, Done, Nen!Goes, Nen!Silent, Nen!Fault, Nen!session, Nen!pce,
        Nen!command
<1>1. CASE Nen!Crash
  BY <1>1 DEF Nen!Crash
<1>2. CASE Nen!NewCommand
  BY <1>2 DEF Nen!NewCommand, Nen!NextCommand
<1>3. CASE Nen!Generate \/ Nen!EditPolicy \/ Nen!Age
  BY <1>3 DEF Nen!Generate, Nen!EditPolicy, Nen!Age
<1>4. CASE Nen!Others
  BY <1>4 DEF Nen!Others
<1>5. CASE UNCHANGED Nen!vars
  BY <1>5 DEF Nen!vars
<1> QED
  BY <1>1, <1>2, <1>3, <1>4, <1>5

LEMMA FillStep ==
  ASSUME Nen!NenAssumption
  PROVE  FillInv /\ [Nen!Next]_Nen!vars => FillInv'
  BY StartKeepsFill, AttachKeepsFill, AclKeepsFill, RestKeepsFill DEF Nen!Next, Nen!Step

\* Where a file names no workload on two interfaces, an undisturbed nen-switch
\* with --update-pce leaves every workload it names, imported ones included, on its
\* interface.
THEOREM FilledPorts ==
  ASSUME Nen!NenAssumption
  PROVE  Nen!Spec => [](NamedOnce => Nen!PortsFilled)
<1>1. FillInv /\ NamedOnce => Nen!PortsFilled
  BY DEF FillInv, Done, Nen!PortsFilled
<1>2. Nen!Spec => []FillInv
  BY FillInit, FillStep, PTL DEF Nen!Spec
<1> QED
  BY <1>1, <1>2, PTL
=============================================================================
