---------------------------- MODULE PolicyStore -----------------------------
(* What the policy commands share: the rules of a PCE as a draft and in the   *)
(* provisioned version, in one session.  The PCE is external; its calls are *)
(* modelled from how rule-import and delete use them.                         *)
EXTENDS Session

CONSTANTS
  Rulesets,      \* rulesets of the PCE
  AllLabels,     \* labels that rows or rules may name
  Exts,          \* pairs of external data set and reference
  NoExt,         \* a rule or row without such a pair
  AllWklds,      \* unmanaged workloads
  InitialRules,  \* sets of rules a session may begin with
  InitialLabels, \* labels that exist when a session begins
  MaxRules       \* bound: rules the PCE ever holds

RuleIds == 1..MaxRules
Kinds == {"allow", "deny"}
Rule == [id : RuleIds, rs : Rulesets, kind : Kinds, ext : Exts \cup {NoExt},
         labels : SUBSET AllLabels, enabled : BOOLEAN]
Flags == [matchOnExt : BOOLEAN, createLabels : BOOLEAN, authoritative : BOOLEAN,
          provision : BOOLEAN, updatePCE : BOOLEAN, noPrompt : BOOLEAN,
          continueOnError : BOOLEAN]

ASSUME StoreAssumption ==
  /\ FlagSets \subseteq Flags
  /\ \A s \in InitialRules :
       /\ IsFiniteSet(s) /\ s \subseteq Rule
       /\ \A x \in s : x.id <= Cardinality(s)
       /\ \A x, y \in s : x.id = y.id => x = y
  /\ InitialLabels \subseteq AllLabels
  /\ NoExt \notin Exts
  /\ MaxRules \in Nat

VARIABLES
  draft,     \* rules of the draft policy
  active,    \* rules of the provisioned policy
  labels,    \* labels that exist
  wklds,     \* unmanaged workloads that exist
  nextId     \* the id the PCE gives to the next rule

policy == <<draft, active, nextId>>
pce == <<policy, labels, wklds>>
storeVars == <<pce, session>>

StoreInit ==
  /\ draft \in InitialRules /\ active = draft
  /\ labels = InitialLabels /\ wklds = AllWklds
  /\ nextId = 1 + Cardinality(draft)
  /\ SessionInit

StoreTypeOK ==
  /\ draft \subseteq Rule /\ active \subseteq Rule
  /\ labels \subseteq AllLabels /\ wklds \subseteq AllWklds
  /\ nextId \in 1..(MaxRules + 1)
  /\ SessionTypeOK

\* The ids of a set of rules.
Ids(rules) == {x.id : x \in rules}

\* Provisioning makes the draft of the named rulesets the active policy.
Provisioned(rulesets) == {x \in active : x.rs \notin rulesets}
                         \cup {x \in draft : x.rs \in rulesets}
=============================================================================
