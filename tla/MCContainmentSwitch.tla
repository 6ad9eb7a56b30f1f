----------------------- MODULE MCContainmentSwitch --------------------------
(* Two workloads; all flag combinations that consent to what they do.         *)
EXTENDS ContainmentSwitch

CONSTANTS w1, w2, pod

MCWklds == {w1, w2}
MCContainers == {pod}

\* --skip-allow only together with --update-pce and --no-prompt.
MCFlagSets == {f \in Flags : f.skipAllow => f.updatePCE /\ f.noPrompt}
=============================================================================
