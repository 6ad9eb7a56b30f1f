------------------------- MODULE ContainmentSwitch --------------------------
(* The containment-switch command (src/cmd/containmentswitch): close a port   *)
(* on every workload, and keep it open where traffic was seen.  The allow     *)
(* side (virtual service, bindings, ruleset, rule) is built and provisioned   *)
(* before the enforcement boundary, and workloads are moved to selective      *)
(* enforcement last.  Every call may fail and the process may die between     *)
(* two calls; what was created stays in the PCE.                              *)
EXTENDS Naturals, FiniteSets

CONSTANTS
  Wklds,      \* managed workloads
  Containers, \* container workloads, which explorer also reports
  FlagSets,   \* flag combinations a run may be given
  MaxFaults,  \* bound: failed calls, crashes and edits by others
  MaxRuns     \* bound: invocations of the command

Modes == {"visibility_only", "selective", "full"}
Flags == [skipAllow : BOOLEAN, skipModeChange : BOOLEAN, updatePCE : BOOLEAN,
          noPrompt : BOOLEAN, continueOnError : BOOLEAN]
Objects == {"vs", "ruleset", "rule", "boundary"}
Policy == {"none", "draft", "active"}

ASSUME InputAssumption ==
  /\ FlagSets \subseteq Flags /\ Wklds \cap Containers = {}
  /\ MaxFaults \in Nat /\ MaxRuns \in Nat \ {0}

\* The API calls of a run, in the order of the code.
NextCall ==
  [c \in {"createVS", "provisionVS", "bind", "createRuleset", "createRule",
          "provisionRuleset", "createBoundary", "provisionBoundary"} |->
     CASE c = "createVS"          -> "provisionVS"
       [] c = "provisionVS"       -> "bind"
       [] c = "bind"              -> "createRuleset"
       [] c = "createRuleset"     -> "createRule"
       [] c = "createRule"        -> "provisionRuleset"
       [] c = "provisionRuleset"  -> "createBoundary"
       [] c = "createBoundary"    -> "provisionBoundary"
       [] c = "provisionBoundary" -> "modes"]

Phases == DOMAIN NextCall \cup {"list", "query", "decide", "modes", "ended", "dead"}

VARIABLES
  obj,            \* policy objects of this object name in the PCE
  bound,          \* workloads bound to the virtual service
  mode,           \* enforcement mode of each workload
  flags, phase,
  listed,         \* visibility-only workloads when the run began
  targets,        \* workloads with traffic in the window
  mine,           \* objects whose href this run holds
  answer, wrote, faults, runs

pce == <<obj, bound, mode>>
vars == <<pce, flags, phase, listed, targets, mine, answer, wrote, faults, runs>>

Init ==
  /\ obj = [o \in Objects |-> "none"]
  /\ bound = {}
  /\ mode \in [Wklds -> Modes]
  /\ flags \in FlagSets
  /\ phase = "list"
  /\ listed = {} /\ targets = {} /\ mine = {}
  /\ answer = "unasked" /\ wrote = FALSE
  /\ faults = 0 /\ runs = 1

-----------------------------------------------------------------------------
(* Reading. *)

ListVisibilityOnly ==
  /\ phase = "list"
  /\ listed' = {w \in Wklds : mode[w] = "visibility_only"}
  /\ phase' = IF flags.skipAllow THEN "createBoundary" ELSE "query"
  /\ UNCHANGED <<pce, flags, targets, mine, answer, wrote, faults, runs>>

\* The workloads to bind: container workloads cannot be.
Destinations(T) == T \ Containers

\* The explorer query finds traffic to some of the workloads.
GetTrafficAnalysis ==
  /\ phase = "query"
  /\ \E T \in SUBSET (Wklds \cup Containers) : targets' = Destinations(T)
  /\ phase' = "decide"
  /\ UNCHANGED <<pce, flags, listed, mine, answer, wrote, faults, runs>>

-----------------------------------------------------------------------------
(* Deciding.  The check of --update-pce and the prompt are reached only       *)
(* without --skip-allow.                                                      *)

Decision(next) ==
  /\ phase = "decide"
  /\ phase' = next
  /\ UNCHANGED <<pce, flags, listed, targets, mine, wrote, faults, runs>>

DryRun ==
  /\ Decision("ended")
  /\ ~flags.updatePCE
  /\ UNCHANGED answer

PromptDenied ==
  /\ Decision("ended")
  /\ flags.updatePCE /\ ~flags.noPrompt
  /\ answer' = "no"

Approve ==
  /\ Decision(IF targets = {} THEN "createBoundary" ELSE "createVS")
  /\ flags.updatePCE
  /\ \/ flags.noPrompt /\ UNCHANGED answer
     \/ ~flags.noPrompt /\ answer' = "yes"

-----------------------------------------------------------------------------
(* The calls.  A create is refused when the name is taken; a provision, the   *)
(* binding and the rule need the hrefs earlier calls of the run returned.     *)

Call(c) ==
  /\ phase = c
  /\ phase' = NextCall[c]
  /\ wrote' = TRUE
  /\ UNCHANGED <<mode, flags, listed, targets, answer, faults, runs>>

Create(c, o) ==
  /\ Call(c)
  /\ obj[o] = "none"
  /\ obj' = [obj EXCEPT ![o] = "draft"]
  /\ mine' = mine \cup {o}
  /\ UNCHANGED bound

CreateVirtualService == Create("createVS", "vs")
CreateRuleset == Create("createRuleset", "ruleset")

CreateRule == Create("createRule", "rule") /\ {"vs", "ruleset"} \subseteq mine

CreateEnforcementBoundary == Create("createBoundary", "boundary")

Provision(c, objects) ==
  /\ Call(c)
  /\ objects \cap mine # {}
  /\ obj' = [o \in Objects |-> IF o \in objects /\ obj[o] = "draft"
                               THEN "active" ELSE obj[o]]
  /\ UNCHANGED <<mine, bound>>

ProvisionVirtualService == Provision("provisionVS", {"vs"})
ProvisionBoundary == Provision("provisionBoundary", {"boundary"})

\* Slip: the ruleset is left as a draft.
ProvisionRuleset_Skipped ==
  Call("provisionRuleset") /\ UNCHANGED <<obj, mine, bound>>

\* Provisioning a ruleset provisions the rules in it.
ProvisionRuleset ==
  /\ Provision("provisionRuleset", {"ruleset", "rule"})
  /\ "ruleset" \in mine

CreateServiceBinding ==
  /\ Call("bind")
  /\ "vs" \in mine /\ obj["vs"] = "active"
  /\ bound' = bound \cup targets
  /\ UNCHANGED <<obj, mine>>

\* Calls that cannot succeed in this state.
Blocked(c) ==
  \/ c = "createVS" /\ obj["vs"] # "none"
  \/ c \in {"provisionVS", "bind"} /\ "vs" \notin mine
  \/ c = "bind" /\ obj["vs"] # "active"
  \/ c = "createRuleset" /\ obj["ruleset"] # "none"
  \/ c = "createRule" /\ ({"vs", "ruleset"} \ mine # {} \/ obj["rule"] # "none")
  \/ c = "provisionRuleset" /\ "ruleset" \notin mine
  \/ c = "createBoundary" /\ obj["boundary"] # "none"
  \/ c = "provisionBoundary" /\ "boundary" \notin mine

\* utils.LogError ends the process, unless --continue-on-error.
CallFails ==
  /\ phase \in DOMAIN NextCall
  /\ \/ Blocked(phase) /\ UNCHANGED faults
     \/ faults < MaxFaults /\ faults' = faults + 1
  /\ phase' = IF flags.continueOnError THEN NextCall[phase] ELSE "dead"
  /\ UNCHANGED <<pce, flags, listed, targets, mine, answer, wrote, runs>>

\* Slip: modes are changed before the boundary is provisioned.
Moving_Early == phase \in {"provisionBoundary", "modes"} /\ ~flags.skipModeChange

Moving == phase = "modes" /\ ~flags.skipModeChange

\* The bulk update moves every listed workload, whatever its mode is by now.
MoveWorkload(w) ==
  /\ Moving
  /\ w \in listed
  /\ mode' = [mode EXCEPT ![w] = "selective"]
  /\ listed' = listed \ {w}
  /\ wrote' = TRUE
  /\ UNCHANGED <<obj, bound, flags, phase, targets, mine, answer, faults, runs>>

Finish ==
  /\ phase = "modes"
  /\ flags.skipModeChange \/ listed = {}
  /\ phase' = "ended"
  /\ UNCHANGED <<pce, flags, listed, targets, mine, answer, wrote, faults, runs>>

-----------------------------------------------------------------------------
(* The environment. *)

Fault ==
  /\ faults < MaxFaults
  /\ faults' = faults + 1
  /\ UNCHANGED <<obj, bound, flags, listed, targets, mine, answer, wrote, runs>>

Crash ==
  /\ Fault
  /\ phase \notin {"ended", "dead"}
  /\ phase' = "dead"
  /\ UNCHANGED mode

AdminSetsMode(w, m) ==
  /\ Fault
  /\ mode' = [mode EXCEPT ![w] = m]
  /\ UNCHANGED phase

Rerun ==
  /\ phase \in {"ended", "dead"}
  /\ runs < MaxRuns
  /\ runs' = runs + 1
  /\ phase' = "list"
  /\ listed' = {} /\ targets' = {} /\ mine' = {}
  /\ answer' = "unasked" /\ wrote' = FALSE
  /\ UNCHANGED <<pce, flags, faults>>

RunStep ==
  \/ ListVisibilityOnly \/ GetTrafficAnalysis
  \/ DryRun \/ PromptDenied \/ Approve
  \/ CreateVirtualService \/ ProvisionVirtualService \/ CreateServiceBinding
  \/ CreateRuleset \/ CreateRule \/ ProvisionRuleset
  \/ CreateEnforcementBoundary \/ ProvisionBoundary
  \/ CallFails
  \/ \E w \in Wklds : MoveWorkload(w)
  \/ Finish

Next ==
  \/ RunStep
  \/ Crash \/ Rerun
  \/ \E w \in Wklds, m \in Modes : AdminSetsMode(w, m)

Spec == Init /\ [][Next]_vars

-----------------------------------------------------------------------------
(* Properties. *)

\* Every variable holds a value of its type.
TypeOK ==
  /\ obj \in [Objects -> Policy] /\ bound \subseteq Wklds
  /\ mode \in [Wklds -> Modes]
  /\ flags \in Flags /\ phase \in Phases
  /\ listed \subseteq Wklds /\ targets \subseteq Wklds /\ mine \subseteq Objects
  /\ answer \in {"unasked", "yes", "no"} /\ wrote \in BOOLEAN
  /\ faults \in 0..MaxFaults /\ runs \in 1..MaxRuns

AllowActive(w) == obj["vs"] = "active" /\ obj["rule"] = "active" /\ w \in bound

\* "This process allows any workload that has had flows to the target port in
\* the defined window to continue accepting connections": once the boundary of
\* this run is in force, so is the allow rule for every such workload, even if
\* the run died on the way.
FlowsKept ==
  /\ "boundary" \in mine /\ obj["boundary"] = "active"
  /\ ~flags.continueOnError
  => \A w \in targets : AllowActive(w)

\* A run that stops on errors moves no workload to selective enforcement before
\* the boundary it was to enforce is provisioned.
ModesAfterBoundary ==
  [][\A w \in Wklds :
       mode'[w] # mode[w] /\ faults' = faults /\ ~flags.continueOnError
         => obj["boundary"] = "active"]_vars

\* The command obeys --update-pce and the prompt.
Gate == INSTANCE UpdateGate WITH updatePCE <- flags.updatePCE,
                                 noPrompt <- flags.noPrompt
GateSpec == Gate!Spec
=============================================================================
