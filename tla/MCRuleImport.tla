---------------------------- MODULE MCRuleImport ----------------------------
EXTENDS RuleImport

CONSTANTS rs1, rs2, lab, new, w, noExt

E1 == [set |-> <<"s">>, ref |-> <<"1">>]
E2 == [set |-> <<"s">>, ref |-> <<"2">>]
E3 == [set |-> <<"s">>, ref |-> <<"3">>]
MCExts == {E1, E2, E3}

TheRule(i, rs, kind, ext, ls) ==
  [id |-> i, rs |-> rs, kind |-> kind, ext |-> ext, labels |-> ls, enabled |-> TRUE]

MCInitialRules ==
  { {TheRule(1, rs1, "allow", E1, {lab}), TheRule(2, rs2, "deny", E3, {})} }

TheRow(rs, href, kind, ext, ls, resolve) ==
  [rs |-> rs, href |-> href, kind |-> kind, ext |-> ext, labels |-> ls,
   enabled |-> FALSE, resolve |-> resolve]

MCFiles ==
  { \* one rule to update, one to create, with a label to create
    << TheRow(rs1, 1, "allow", E1, {lab, new}, TRUE),
       TheRow(rs2, 0, "allow", E2, {new}, TRUE) >>,
    \* blank labels, and a deny rule that is matched
    << TheRow(rs1, 1, "allow", E1, {}, TRUE),
       TheRow(rs2, 2, "deny", E3, {lab}, FALSE) >>,
    \* rows that are skipped, dropped, and that panic
    << TheRow(NoRuleset, 0, "allow", E2, {lab}, TRUE),
       TheRow(rs1, 1, "allow", E1, {lab}, FALSE),
       TheRow(rs2, 2, "allow", E3, {lab}, TRUE) >>,
    \* a rule that is not there, and one without a pair
    << TheRow(rs2, 3, "allow", E2, {lab}, TRUE),
       TheRow(rs2, 0, "deny", noExt, {lab}, TRUE) >> }

F(ext, create, auth, provn, update, ask, cont) ==
  [matchOnExt |-> ext, createLabels |-> create, authoritative |-> auth,
   provision |-> provn, updatePCE |-> update, noPrompt |-> ask,
   continueOnError |-> cont]

MCFlagSets ==
  { F(TRUE, TRUE, TRUE, TRUE, TRUE, FALSE, FALSE),
    F(TRUE, TRUE, TRUE, FALSE, TRUE, TRUE, TRUE),
    F(TRUE, TRUE, TRUE, FALSE, FALSE, FALSE, FALSE),
    F(FALSE, TRUE, TRUE, TRUE, TRUE, FALSE, FALSE),
    F(FALSE, FALSE, FALSE, FALSE, TRUE, TRUE, FALSE),
    F(TRUE, FALSE, FALSE, TRUE, TRUE, TRUE, TRUE) }
=============================================================================
