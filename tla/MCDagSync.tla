----------------------------- MODULE MCDagSync ------------------------------
(* Two IPs, two workloads, two label dimensions; the device starts with one   *)
(* entry of someone else.                                                     *)
EXTENDS DagSync

CONSTANTS ip1, ip2, role, app, web, db

MCIPs == {ip1, ip2}
MCDims == {role, app}
MCValues == {web, db}

MCPCE == 
  [w \in 1..2 |->
     IF w = 1
     THEN [ip |-> ip1, labels |-> [d \in MCDims |-> IF d = role THEN web ELSE db]]
     ELSE [ip |-> None, labels |-> [d \in MCDims |-> None]]]

MCReg == [i \in MCIPs |-> IF i = ip1 THEN {web} ELSE {db}]

MCFlagSets == {f \in Flags : f.update \/ f.flush}
=============================================================================
