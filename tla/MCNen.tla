------------------------------- MODULE MCNen --------------------------------
EXTENDS Nen

CONSTANTS p1, p2, w1, w2

Flag(u, n, c, i, r, f) == [updatePCE |-> u, noPrompt |-> n, continueOnError |-> c,
                           umwl |-> i, rebuild |-> r, nenFound |-> f]

MCFlagSets == {
  Flag(TRUE, TRUE, FALSE, TRUE, TRUE, TRUE),
  Flag(TRUE, FALSE, TRUE, TRUE, FALSE, TRUE),
  Flag(FALSE, FALSE, TRUE, TRUE, FALSE, FALSE),
  Flag(FALSE, FALSE, FALSE, FALSE, FALSE, TRUE) }

MCInitialWorkloads == {w1}

R(p, w) == [port |-> p, name |-> w]

\* The second file moves a workload to another interface.
MCSwitchFiles == { <<R(p1, w1), R(p2, w2)>>, <<R(p1, NoWorkload), R(p2, w1)>> }
=============================================================================
