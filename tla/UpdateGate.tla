----------------------------- MODULE UpdateGate -----------------------------
(* What every workloader command that changes a PCE promises about consent:   *)
(* nothing is modified unless --update-pce is set, and without --no-prompt    *)
(* the operator has answered yes.  The command modules implement this module  *)
(* under a refinement mapping; nothing here is tied to one command.           *)

VARIABLES
  updatePCE,   \* the --update-pce flag of the run
  noPrompt,    \* the --no-prompt flag of the run
  answer,      \* the operator's answer to the prompt of this run
  wrote        \* this run has modified the system it manages

vars == <<updatePCE, noPrompt, answer, wrote>>

Answers == {"unasked", "yes", "no"}

Consent == updatePCE /\ (noPrompt \/ answer = "yes")

Init ==
  /\ updatePCE \in BOOLEAN
  /\ noPrompt \in BOOLEAN
  /\ answer = "unasked"
  /\ wrote = FALSE

\* The prompt is shown once, and only when the run may write at all.
Ask ==
  /\ updatePCE /\ ~noPrompt
  /\ answer = "unasked"
  /\ ~wrote
  /\ answer' \in {"yes", "no"}
  /\ UNCHANGED <<updatePCE, noPrompt, wrote>>

Write ==
  /\ Consent
  /\ wrote' = TRUE
  /\ UNCHANGED <<updatePCE, noPrompt, answer>>

\* A new invocation of the command asks for consent again.
Rerun ==
  /\ answer' = "unasked"
  /\ wrote' = FALSE
  /\ UNCHANGED <<updatePCE, noPrompt>>

Next == Ask \/ Write \/ Rerun

Spec == Init /\ [][Next]_vars
=============================================================================
