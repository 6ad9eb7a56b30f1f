------------------------------- MODULE Session -------------------------------
(* The session of an operator who runs commands of workloader, one after the  *)
(* other, with one set of flags: consent, failed calls, crashes and reruns.   *)
(* The command modules extend it.                                             *)
EXTENDS Naturals, FiniteSets

CONSTANTS
  FlagSets,      \* flag combinations of a session
  MaxFaults,     \* bound: failed calls, crashes and edits by others
  MaxRuns        \* bound: commands of a session

ASSUME SessionAssumption ==
  /\ \A f \in FlagSets : /\ f.updatePCE \in BOOLEAN /\ f.noPrompt \in BOOLEAN
                         /\ f.continueOnError \in BOOLEAN
  /\ MaxFaults \in Nat /\ MaxRuns \in Nat \ {0}

VARIABLES
  flags,
  answer,    \* the operator's answer to the prompt of this command
  wrote,     \* this command has modified what it manages
  alone,     \* nothing failed and nobody interfered since this command began
  faults, runs

session == <<flags, answer, wrote, alone, faults, runs>>

SessionInit ==
  /\ flags \in FlagSets
  /\ answer = "unasked" /\ wrote = FALSE /\ alone = TRUE
  /\ faults = 0 /\ runs = 1

SessionTypeOK ==
  /\ flags \in FlagSets
  /\ answer \in {"unasked", "yes", "no"}
  /\ wrote \in BOOLEAN /\ alone \in BOOLEAN
  /\ faults \in 0..MaxFaults /\ runs \in 1..MaxRuns

Consent == flags.updatePCE /\ (flags.noPrompt \/ answer = "yes")

-----------------------------------------------------------------------------
(* Steps of the session that every command has. *)

\* Something goes wrong: a fault of the environment.
Fault ==
  /\ faults < MaxFaults
  /\ faults' = faults + 1
  /\ alone' = FALSE
  /\ UNCHANGED <<flags, answer, wrote, runs>>

\* A call does its work and its answer is lost.
LostAnswer ==
  /\ faults < MaxFaults
  /\ faults' = faults + 1
  /\ alone' = FALSE /\ wrote' = TRUE
  /\ UNCHANGED <<flags, answer, runs>>

\* The next command of the session begins.
NextCommand ==
  /\ runs < MaxRuns
  /\ runs' = runs + 1
  /\ answer' = "unasked" /\ wrote' = FALSE /\ alone' = TRUE
  /\ UNCHANGED <<flags, faults>>

\* A call that does its work.
Works == wrote' = TRUE /\ UNCHANGED <<flags, answer, alone, faults, runs>>

\* The command goes on without a call.
Silent == UNCHANGED session

\* --update-pce is not given.
NotAsked == ~flags.updatePCE /\ Silent

\* The prompt is answered with no.
Denied ==
  /\ flags.updatePCE /\ ~flags.noPrompt
  /\ answer' = "no"
  /\ UNCHANGED <<flags, wrote, alone, faults, runs>>

\* The prompt is answered with yes, or is not shown.
Approved ==
  /\ flags.updatePCE
  /\ \/ flags.noPrompt /\ UNCHANGED answer
     \/ ~flags.noPrompt /\ answer' = "yes"
  /\ UNCHANGED <<flags, wrote, alone, faults, runs>>

\* LogError ends the process unless --continue-on-error is given.
LogError(here, next) == IF flags.continueOnError THEN next ELSE here

-----------------------------------------------------------------------------
(* The consent gate, which every command that extends this module implements. *)

Gate == INSTANCE UpdateGate WITH updatePCE <- flags.updatePCE,
                                 noPrompt <- flags.noPrompt

\* The consent gate (UpdateGate) is implemented: nothing is written without
\* --update-pce and, unless --no-prompt is given, the answer yes.
GateSpec == Gate!Spec
=============================================================================
