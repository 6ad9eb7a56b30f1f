--------------------------- MODULE MCObjectImport ---------------------------
EXTENDS ObjectImport

CONSTANTS a, b, c, s, t, i1, i2

Obj(id, name, text, items) ==
  [id |-> id, name |-> name, text |-> text, items |-> items, live |-> TRUE]

R(href, name, text, items) ==
  [href |-> href, name |-> name, text |-> text, items |-> items, drop |-> {}]

MCInitialObjs == [x \in Commands |-> {{Obj(1, a, s, {i1}), Obj(2, b, t, {})}}]

MCFiles == [x \in Commands |->
  CASE x = "ipl" ->
         {<<R(1, c, s, {i1, i2}), R(0, b, s, {})>>,
          <<R(0, a, s, {}), R(0, c, t, {i1}), R(9, b, t, {}), R(0, b, t, {Invalid})>>}
    [] x = "svc" ->
         {<<R(0, a, s, {i2}), R(0, c, t, {i1}), R(0, c, s, {i2})>>,
          <<R(1, c, t, {i1, i2}), R(2, b, t, {i1})>>,
          <<R(2, b, t, {Invalid}), R(9, c, t, {i1})>>}
    [] x = "labelgroup" ->
         {<<R(1, c, s, {}), R(2, b, t, {i1})>>,
          <<R(0, c, s, {i1}), R(2, b, s, {i2}), R(9, a, s, {})>>}
    [] x = "label" ->
         {<<R(1, a, t, {}), R(0, c, s, {}), R(0, c, t, {}), R(0, b, s, {})>>,
          <<R(9, a, t, {}), R(2, c, t, {})>>}
    [] x = "dimension" ->
         {<<R(1, a, t, {}), R(0, b, t, {i1}), R(0, c, s, {})>>,
          <<R(9, a, t, {})>>}
    [] x = "adgroup" -> {<<R(0, a, t, {}), R(0, c, s, {})>>}
    [] x = "principal" -> {<<R(0, a, s, {}), R(0, c, s, {})>>}
    [] x = "permission" ->
         {<<R(0, a, t, {i1, i2}), R(0, c, s, {})>>, <<R(1, a, t, {}), R(9, b, t, {})>>}
    [] x = "ven" -> {<<R(1, c, t, {}), R(2, b, s, {})>>, <<R(1, a, t, {}), R(9, b, s, {})>>}
    [] x = "ruleset" ->
         {<<R(1, c, t, {}), R(2, b, s, {i2}), R(0, c, s, {i1})>>,
          <<R(0, c, s, {i1, i2}), R(9, a, s, {})>>}
    [] x = "denyrule" ->
         {<<R(1, c, t, {i2}), R(2, b, s, {}), R(9, a, s, {i1})>>,
          <<R(1, c, t, {}), R(2, b, t, {i1}), R(0, c, s, {i1})>>}
    [] x = "replace" -> {<<R(0, a, s, {i2, Invalid})>>, <<R(0, b, t, {i1})>>, <<R(0, c, s, {i1})>>}
    [] x = "cwp" ->
         {<<R(1, Blank, t, {i2}), R(9, c, s, {}), R(2, c, Remove, {i2})>>,
          <<[R(1, Remove, Blank, {i2}) EXCEPT !.drop = {i1}], R(2, c, Blank, {})>>}]

F(prov, name, create, meta, update, ask, cont) ==
  [provision |-> prov, updateOnName |-> name, create |-> create, meta |-> meta, updatePCE |-> update,
   noPrompt |-> ask, continueOnError |-> cont]

MCFlagSets == { F(TRUE, TRUE, TRUE, FALSE, TRUE, FALSE, FALSE),
                F(TRUE, FALSE, FALSE, FALSE, TRUE, TRUE, TRUE),
                F(FALSE, TRUE, TRUE, TRUE, TRUE, TRUE, FALSE),
                F(FALSE, FALSE, TRUE, TRUE, FALSE, FALSE, TRUE) }
=============================================================================
