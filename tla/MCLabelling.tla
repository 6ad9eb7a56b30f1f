----------------------------- MODULE MCLabelling -----------------------------
EXTENDS Labelling

CONSTANTS app, bu, x, y, m1, m2, m3, db, dbDom, web, new, newDom, vm2, top, sub, other

Flag(u, n, c, i, v, a, r, f) ==
  [updatePCE |-> u, noPrompt |-> n, continueOnError |-> c, umwl |-> i, vmName |-> v,
   all |-> a, roots |-> r, subfolders |-> f]

MCFlagSets == {
  Flag(TRUE, TRUE, FALSE, FALSE, FALSE, TRUE, {}, FALSE),
  Flag(TRUE, TRUE, TRUE, FALSE, FALSE, TRUE, {top}, FALSE),
  Flag(TRUE, FALSE, FALSE, FALSE, FALSE, FALSE, {top}, TRUE),
  Flag(TRUE, TRUE, FALSE, TRUE, FALSE, TRUE, {}, FALSE),
  Flag(TRUE, TRUE, TRUE, TRUE, FALSE, TRUE, {top}, TRUE),
  Flag(FALSE, TRUE, FALSE, FALSE, TRUE, TRUE, {top}, TRUE) }

MCSources == {"vmsync", "cloud", "subnet", "hostparse"}
MCNames == {db, dbDom, web, new, newDom, vm2}
MCCheck == [n \in MCNames |-> IF n = dbDom THEN db ELSE IF n = newDom THEN new ELSE n]

C(a, b) == [d \in Dims |-> IF d = app THEN a ELSE b]

MCInitialLabels == [w \in {db, web, vm2} |-> IF w = db THEN C(x, y) ELSE C(None, None)]
MCInitialValues == {<<app, x>>, <<bu, y>>}

\* The first VM is called what another host is called, the second has no tools.
MCVmName == [m \in Machines |-> IF m = m1 THEN vm2 ELSE IF m = m2 THEN web ELSE new]
MCGuestName == [m \in Machines |-> IF m = m1 THEN dbDom ELSE IF m = m2 THEN None ELSE newDom]

MCTaggings == {
  [m \in Machines |-> [d \in Dims |-> IF m = m1 THEN {y} ELSE IF m = m2 /\ d = app THEN {x} ELSE {}]],
  [m \in Machines |-> [d \in Dims |-> IF m = m3 THEN {x} ELSE IF d = bu THEN {x, y} ELSE {}]] }

MCFolderOf == [m \in Machines |-> IF m = m1 THEN top ELSE IF m = m2 THEN other ELSE sub]
MCChildren == [f \in Folders |-> IF f = top THEN {sub} ELSE {}]

MCNetworks == << [addresses |-> {1}, cells |-> C(y, None)],
                 [addresses |-> {1, 2}, cells |-> C(x, x)] >>
Nic(a, g) == [address |-> a, gateway |-> g]
MCNics == [w \in Names |-> IF w = db THEN <<Nic(1, FALSE), Nic(2, TRUE)>>
                           ELSE <<Nic(1, FALSE)>>]

MCHostRules == << [hosts |-> {vm2}, cells |-> C(y, None)],
                  [hosts |-> {vm2, db}, cells |-> C(x, x)] >>
=============================================================================
