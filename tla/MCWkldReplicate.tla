--------------------------- MODULE MCWkldReplicate --------------------------
(* Three PCEs, one hostname that moves between them, two contents. *)
EXTENDS WkldReplicate

CONSTANTS A, B, C, web, d1, d2

MCPCEs == {A, B, C}
MCHosts == {web}
MCData == {d1, d2}

MCNoSkip == {{}}
MCConsents == BOOLEAN \X BOOLEAN
=============================================================================
