----------------------------- MODULE MCPceConfig -----------------------------
(* Two PCEs; n1 is configured, with the first of its two keys, and the        *)
(* default.                                                                   *)
EXTENDS PceConfig, TLC

CONSTANTS p1, p2, p3, n1, n2

MCNames == {n1, n2}
MCTwo == {p1, p2}
MCThree == {p1, p2, p3}
MCSymmetry == Permutations(Procs)

Base == [kind |-> "run", name |-> None, pce |-> None, only |-> {},
         update |-> FALSE, noPrompt |-> FALSE, continueOnError |-> FALSE,
         apiKey |-> FALSE, clear |-> FALSE, stdin |-> TRUE]

Run == [Base EXCEPT !.update = TRUE]
Look == [Base EXCEPT !.noPrompt = TRUE]
RunOn(n) == [Run EXCEPT !.pce = n]
Add(n) == [Base EXCEPT !.kind = "add", !.name = n]
Remove(n) == [Base EXCEPT !.kind = "remove", !.name = n]
Clear(n) == [Remove(n) EXCEPT !.clear = TRUE]
Default(n) == [Base EXCEPT !.kind = "default", !.name = n]
All == [Base EXCEPT !.kind = "all", !.only = MCNames, !.update = TRUE,
                    !.noPrompt = TRUE]
Loose(c) == [c EXCEPT !.continueOnError = TRUE]

MCCommands == {Run, Look, RunOn(n1), RunOn(n2), Loose(Run), Add(n1), Add(n2),
               Loose(Add(n2)), [Add(n2) EXCEPT !.apiKey = TRUE], Remove(n2),
               Clear(n1), Loose(Clear(n1)), Default(n2), Loose(Default(n2)),
               [Base EXCEPT !.kind = "always", !.name = n1], All}

MCInitKeys == [n \in MCNames |-> IF n = n1 THEN {1, 2} ELSE {3}]
MCInitFile == [key |-> [n \in MCNames |-> IF n = n1 THEN 1 ELSE 3],
               default |-> n1, target |-> None,
               update |-> FALSE, noPrompt |-> FALSE,
               continueOnError |-> FALSE, always |-> FALSE]
=============================================================================
