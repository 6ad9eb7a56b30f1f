--------------------------- MODULE MCHousekeeping ---------------------------
EXTENDS Housekeeping

CONSTANTS m1, m2, u1, u2, x, y, z, eth0, eth1

\* y is an address of both managed workloads, x of m1 and u1 and u2.
MCAddrs == [w \in Workloads |->
  CASE w = m1 -> {x, y} [] w = m2 -> {y, z} [] w = u1 -> {x} [] w = u2 -> {x, z}]
MCGateway == [m \in Managed |-> IF m = m1 THEN {x} ELSE {z}]

R(w, n, i) == [wkld |-> w, nic |-> n, ignored |-> i]

MCNicFiles == { <<R(m1, eth0, TRUE), R(u1, eth0, TRUE), R(m1, eth1, TRUE)>>,
                <<R(u1, eth0, FALSE), R(u2, eth0, TRUE), R(u2, eth0, FALSE)>> }

F(all, one, update, quiet, cont) ==
  [all |-> all, oneInterfaceMatch |-> one, updatePCE |-> update, noPrompt |-> quiet,
   continueOnError |-> cont]

MCFlagSets == { F(FALSE, FALSE, TRUE, FALSE, FALSE), F(FALSE, FALSE, TRUE, TRUE, TRUE),
                F(TRUE, TRUE, FALSE, TRUE, FALSE) }
=============================================================================
