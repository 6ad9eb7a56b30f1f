---------------------------- MODULE MCWkldImport ----------------------------
(* A small PCE for WkldImport: one managed and one unmanaged workload, one    *)
(* hostname the PCE does not have, two label dimensions.                      *)
EXTENDS WkldImport

CONSTANTS app, env, web, db, srv, fqdn, short, new

MCDims == {app, env}
MCValues == {web, db}
MCNames == {srv, fqdn, short, new}
MCShort == [n \in MCNames |-> IF n = fqdn THEN short ELSE n]
MCLabels == {<<app, web>>, <<env, db>>}

MCWklds == <<
  [host |-> srv, managed |-> TRUE,
   labels |-> [d \in MCDims |-> IF d = app THEN web ELSE db]],
  [host |-> fqdn, managed |-> FALSE,
   labels |-> [d \in MCDims |-> IF d = app THEN web ELSE None]] >>

Row1(h, a) == [host |-> h, cells |-> [d \in {app} |-> a]]
Row2(h, a, e) ==
  [host |-> h, cells |-> [d \in MCDims |-> IF d = app THEN a ELSE e]]

\* Every workload has at most one row.
MCCsvs == {
  << Row1(srv, db), Row1(fqdn, Blank), Row1(new, db) >>,
  << Row2(srv, Blank, Remove), Row2(fqdn, db, web) >>,
  << Row2(new, web, Blank), Row2(srv, db, db) >>,
  << Row1(short, db), Row1(srv, web) >> }

Default == [umwl |-> FALSE, update |-> TRUE, managedOnly |-> FALSE,
            unmanagedOnly |-> FALSE, fqdnToShort |-> FALSE,
            maxUpdate |-> -1, maxCreate |-> -1,
            updatePCE |-> TRUE, noPrompt |-> TRUE, continueOnError |-> FALSE]

MCFlagSets == {
  [Default EXCEPT !.umwl = TRUE],
  [Default EXCEPT !.umwl = TRUE, !.continueOnError = TRUE, !.noPrompt = FALSE],
  [Default EXCEPT !.umwl = TRUE, !.update = FALSE],
  [Default EXCEPT !.umwl = TRUE, !.maxUpdate = 0, !.continueOnError = TRUE],
  [Default EXCEPT !.umwl = TRUE, !.maxCreate = 0],
  [Default EXCEPT !.umwl = TRUE, !.managedOnly = TRUE],
  [Default EXCEPT !.managedOnly = TRUE],
  [Default EXCEPT !.unmanagedOnly = TRUE],
  [Default EXCEPT !.fqdnToShort = TRUE],
  [Default EXCEPT !.updatePCE = FALSE] }
=============================================================================
