------------------------------- MODULE MCFleet -------------------------------
EXTENDS Fleet

CONSTANTS v1, v2, v3, v4, v5

\* v1, v2 and v3 share a hostname; v3 and v5 have never been heard from.
MCHostOf == [v \in Vens |-> CASE v = v4 -> "b" [] v = v5 -> "c" [] OTHER -> "a"]

F(src, incl, single, hours, never, update, quiet, cont) ==
  [source |-> src, includeOnline |-> incl, single |-> single, hours |-> hours, never |-> never,
   updatePCE |-> update, noPrompt |-> quiet, continueOnError |-> cont]

MCFlagSets == { F("file", FALSE, FALSE, 0, {}, TRUE, FALSE, TRUE),
                F("file", TRUE, TRUE, 1, {}, TRUE, TRUE, FALSE),
                F("labels", TRUE, FALSE, 0, {v2}, TRUE, TRUE, FALSE),
                F("file", FALSE, TRUE, 0, {}, FALSE, TRUE, FALSE) }
=============================================================================
