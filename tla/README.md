# A TLA+ model of workloader

workloader is a command line tool that manages the workloads, labels and policy
of an Illumio PCE. One process runs one command: it reads configuration and
flags, loads parts of a PCE, compares them with a CSV file (or with another
system), shows what it would do, asks, and then calls the API of the PCE one
object after the other. There is no daemon, no database and almost no
goroutine; what makes the program hard is that

* the PCE is shared with other people, agents and tools, and a run works on a
  snapshot that is as old as the operator's answer to the prompt;
* a run is a long chain of calls without a transaction: it can fail or die
  between any two of them, and the operator then runs it again;
* "continue on error" turns every failed call into a run that goes on with
  whatever the failed call left behind;
* what is pushed is computed from the whole file before the first call, so rows
  of one file can work against each other;
* commands that own objects (replicas, tags on a firewall, policy of a
  containment) recognise them in a later run only by marks they left on them;
* all commands share one configuration file, which every process rewrites.

No test of the repository exercises any of this. This directory models it.

## The system

### Skeleton of every writing command

    read pce.yaml (init) -> PersistentPreRun: flags into viper, rewrite pce.yaml
    -> load the PCE -> parse the CSV -> compare: a list of changes
    -> "nothing to be done" | --update-pce missing: log only
    -> prompt unless --no-prompt: "prompt denied" | go on
    -> API calls, each followed by LogError on failure -> provision

`utils.LogError` (src/utils/log.go) ends the process unless
`--continue-on-error` or the setting of that name is in force; then the caller
simply goes on.

### Components

| component (src/...) | state it keeps or changes | operations | hard parts | correct means | module |
|---|---|---|---|---|---|
| start-up and configuration: main.go, cmd/root.go, cmd/pcemgmt, utils/pce*.go | pce.yaml: PCEs, keys, default PCE, last flags; API keys on the PCEs | pce-add, pce-remove, settings, all-pces, target-pces, every start | file shared without a lock, written twice by some commands, emptied before it is written; children inherit an empty stdin; flags stored for the next process | a command does to the file what it says and no more; flags do not leak; every PCE is reached | `PceConfig` |
| consent and errors: utils/log.go and each command | flags, answer to the prompt | ask, refuse, dry run, survive an error | repeated by hand in every command | nothing is written without --update-pce and the answer | `UpdateGate`, `Session` |
| wkld-import: cmd/wkldimport | labels and workloads of a PCE | match, plan, create labels, bulk update, bulk create | placeholders for labels that do not exist yet; rows planned from one snapshot; limits checked late | pushed labels exist, only asked changes, a rerun converges | `WkldImport` |
| containment-switch: cmd/containmentswitch | virtual service, ruleset, rule, boundary, enforcement modes | eight calls in a chain, then modes | partial failure between allow and block; the traffic query is old | the allow side is in force before the block | `ContainmentSwitch` |
| dag-sync: cmd/dagsync | registered IPs and tags of a PAN-OS device | load both sides, compare, register, unregister | two systems read one after the other; whose entry it is | device equals PCE after an undisturbed run, foreign entries stay | `DagSync` |
| wkld-replicate: cmd/wkldreplicate | unmanaged workloads of several PCEs, ownership in the external data reference | read all, decide owner, import to each, delete orphans | ownership is only a mark; the list of deletions is older than the import | all sources replicated, no orphan, no deletion of a live source's replica | `WkldReplicate` |
| rule-import and delete: cmd/ruleimport, cmd/deletehrefs | rules in rulesets, draft and active | compare, create, update, list what the file lacks, delete, provision | lost answers and reruns; two pairs of one key; provisioning after partial failure | one rule per pair, rows in the draft, changes provisioned | `RuleImport`, `DeleteHrefs` |
| object imports: iplimport, svcimport, labelgroupimport, labelimport, labeldimension, permissions, secprincipalimport, adgroupimport, venimport, cwpimport, rulesetimport, denyruleimport, iplreplace | one kind of object each | match rows by href or name, compare, create, update, provision | thirteen hand-written copies of one skeleton with different matching, blanks and error handling | the next run finds what the last one made; rows hold; a rerun has nothing to do | `ObjectImport` |
| VENs: unpair, wkldcleanup, upgrade, increasevenupdaterate | VENs of the PCE | list superseded VENs, remove a list, upgrade, ask again every ten minutes | the list is old when it is used; VENs of one hostname take turns | no hostname loses its last VEN | `Fleet` |
| workload hygiene: unusedumwl, umwlcleanup, nic | lists of workloads; ignored interfaces | query with retries, compare addresses, merge rows | a failed query looks like "no traffic"; one payload of many rows | what is listed is unused or replaced | `Housekeeping` |
| NEN: nen | switch, interfaces, ACL files | import, add, attach; request, poll, fetch | polling and time-outs; policy changes meanwhile | the ACLs are as new as the request; every interface has its workload | `Nen` |
| labelling: vmsync, awslabel, azurelabel, gcplabel, subnet, hostparse | labels of workloads | read an inventory or match names, write a file, import | two names of a machine, tools that do not answer, tags in chunks | labels end as the source has them; nobody else's change | `Labelling` |
| template import and creation, flow-import, csp-iplist, auto-deny-rules, netscaler-sync, cloud inventory, ServiceNow, delete-unused-labels, exports, traffic, explorer, checks | see "Not modelled" | | | | |

Interactions: all-pces and target-pces start child processes and talk to them by
pce.yaml and exit code only. wkld-replicate, nen-switch, vmsync, subnet and
the cloud commands call `wkldimport.ImportWkldsFromCSV` in the same process; it
reads `update_pce` and `no_prompt` from its input. rule-import, wkld-cleanup,
unused-umwl and umwl-cleanup leave files that the operator hands to delete or
unpair. Everything else meets in the PCE. PROJECT.json lists every source file
under one of these components.

## Modules

| module | models | state | actions |
|---|---|---|---|
| `UpdateGate` | the consent every command promises (abstract) | the two flags, the answer, "this run wrote" | Ask, Write, Rerun |
| `Session` | what every command of a session shares | flags, answer, faults, runs, whether the run was disturbed | Fault, LostAnswer, NextCommand, Works, Silent, NotAsked, Denied, Approved: conjuncts of the actions of the command modules |
| `WkldImport` | cmd/wkldimport | labels and workloads of the PCE; snapshot, row, planned updates and creates, replacement map, position in the push | one per stage of `ImportWkldsFromCSV`: Load, Plan..., DryRun/Approve/PromptDenied, CreateLabel, LabelsDone, PushUpdate, PushCreate, their failures, Crash, Rerun; AdminRelabels and AgentPairs for everyone else |
| `ContainmentSwitch` | cmd/containmentswitch | policy objects as none/draft/active, bindings, modes; what the run listed and holds hrefs of | one per API call, CallFails, MoveWorkload, Crash, Rerun, AdminSetsMode |
| `DagSync` | cmd/dagsync | tags on the device, workloads of the PCE, the two views of the run | LoadRegisteredIPs, workloadIPMap, decisions, Register, UnRegister, Crash, Rerun, changes on either side |
| `WkldReplicate` | cmd/wkldreplicate, with wkld-import as it calls it | workloads of each PCE with their external data reference; the view of each PCE; progress over PCEs | Read, decisions, StartPCE, ImportHost, DeleteHref, FinishPCE, Finish, Crash, Rerun, sources that appear, change, vanish |
| `PolicyStore` | rules of a PCE as draft and in force, in one session | draft, active, labels, workloads | |
| `DeleteHrefs` | cmd/deletehrefs over `PolicyStore` | one record: place, list, what is left, what to provision | StartDelete, decisions, DeleteHref, BulkWorkload, ProvisionDeleted, their failures, CrashDelete |
| `RuleImport` | cmd/ruleimport, composed with `DeleteHrefs` | snapshot, known labels, row, planned rules, matched rules, delete file, rulesets to provision | Load, SkipRow, CreateLabel, PlanRow, RowsDone, decisions, CreateRule, UpdateRule, Provision, failures and lost answers, Panic, Crash, Rerun, Delete, Others |
| `ObjectImport` | the thirteen imports of objects | objects and what they refer to; the planned calls, hrefs to provision | Load and its failures, decisions, one call at a time, refusal, failure, lost answer, Provision, Crash, Rerun, Others |
| `Fleet` | wkld-cleanup, unpair, upgrade, increase-ven-rate | VENs: paired, online, last heartbeat, version; the file of wkld-cleanup | Cleanup, Select..., decisions, Unpair by pieces, Upgrade, Ask by pieces and iterations, failures, Crash, NewCommand, time, heartbeats, others |
| `Housekeeping` | unused-umwl, umwl-cleanup, nic-manage | workloads, traffic, ignored interfaces, the file of the last listing | query with attempts, listing, the rows of nic-manage one by one, decisions, the bulk call, deletion of a list, changes by others |
| `Nen` | nen-switch, nen-acl | switch, endpoints, versions of policy and ACLs, the output file | import, load, add, attach, request, poll, write, failures, the PCE that generates, others |
| `Labelling` | vmsync, aws-, azure-, gcp-label, subnet, hostparse | labels of workloads, tags and power state of VMs | folders, VM list, identity, tags in chunks, rows, import; networks; parsing, label creation, bulk update; failures, Crash, NewCommand, Retag, Switch |
| `PceConfig` | start-up, pce.yaml, pce-add, pce-remove, settings, all-pces | the file, the API keys, and for each process its settings in memory and its place | Start, PersistentPreRun and the write that follows, Act, AddPCE, GetAllAPIKeys, DeleteKey, RemovePCE, SetDefault, SetAlways, Save, WriteConfig, Spawn, Wait, failures, Crash |
| `X_proofs` | theorems about module `X`; `ContainmentNenHousekeeping_proofs` and `DagSyncFleet_proofs` hold those of several components | | |

`MC*` modules give the constants small values; each `.cfg` is one run.

The modules with a `GateSpec` implement `UpdateGate` under a refinement mapping
(`Gate == INSTANCE UpdateGate WITH ...`): the flags, the answer and the history
variable `wrote` of the command take the place of the abstract variables.
Modules that extend `Session` inherit the mapping.

### From code to model

* A label is a pair dimension/value, a workload's href its index or its name, an
  href of the replacement map a record that says whether it is a placeholder.
  Hostnames, values and addresses are model values.
* An API call is one step: the PCE does it or refuses it, or does it and the
  answer is lost. What is computed between two calls without reading anything
  shared is one step with the next call, or a step of its own where a row or an
  object is the natural unit.
* "Slip" definitions (`X_Y` next to a definition `X`) are forms of `X` with a
  plausible mistake. They are used nowhere; each shows that a property would
  notice (PROJECT.json, "mutants").
* Variables that the program does not have are marked in each module: `clean`
  and `alone` (nobody interfered with this run), `settled` and `full`
  (undisturbed runs), `faults` and `runs` (bounds), `answer` and `wrote`
  (for the gate), and the histories of `PceConfig`, `Fleet`, `Housekeeping`, `Nen`
  and `Labelling`.
* Properties such as "one undisturbed run repairs everything" put no
  restriction on what happened before: the state such a run starts in is
  whatever crashes, failures and other people left.
* `TypeOK` of a module documents the types of its variables. The run `WkldImport`
  checks its one as a part of `IInv`. Those of `WkldImport`, `PceConfig` and `Labelling`
  are theorems (`Typing`), and that of `ContainmentSwitch` is part of its inductive
  invariant.

### wkld-import

`Init` is a fresh invocation on a PCE; `csv` and `flags` stay the same in a
second one (`Rerun`), as an operator would repeat a failed run. `HostKey` and
`InMap` are the workload map the rows are matched with, with the filters and the
FQDN rewrite in the order of the code. `RowLabels` is `labels()`: `Kept` (what has
no column or a blank cell), `Wanted` (what the cells say, through `checkLabel`,
which hands out placeholders). `CreateLabel` fills `replacement`; `LabelsDone`
replaces all placeholders; pushes follow in the order of the lists. Left out:
the columns that are a plain compare-and-set (interfaces, public IP, enforcement
mode, description and so on), matching by href or external data, the CSV report.

### containment-switch

`NextCall` is the chain of calls; with `--skip-allow` the run enters it at the
boundary. The traffic query yields an arbitrary set of destinations and
`Destinations` is the filter of the code. `CallFails` is any call that fails:
the run ends, or with `--continue-on-error` goes on with the next call.

### dag-sync

`isEqual` compares what the PCE wants with what the device has by looking for
strays, for missing labels and at the length of the lists, exactly as the code
does; two dimensions with one value therefore never compare equal, and
`MarkedInTwo` excludes them (known limit below). The mark is the href tag.

### wkld-replicate

A workload's external data reference is a pair of owning PCE and kind. `Read`
fills the maps keyed by host (`OnePerHost`: of several unmanaged workloads with
one hostname, the map holds one, whichever the API returned last). `Rows` is the
CSV, `Deletes` the list of hrefs to delete; deletion uses the hrefs of the read,
not of the time of deletion. `ImportHost` is wkld-import with `--umwl`,
restricted to what the replication asks of it.

### rule-import and delete

`PolicyStore` is extended by both command modules, so that one session runs
either command on one PCE; they never overlap, since the operator starts one
after the other. `Match` is `ruleLookup`: by href, or with `--match-on-ext` by
`Key`, the external data set and reference in one string (sequences of letters
in the model). `Differs` keeps one list that is not compared when its cell is
blank (labels), one scalar that always is (`enabled`) and the pair; the other
columns of a rule are of these kinds. `Pushed` is the whole rule as the row says,
blanks included. `CreateLabel` comes before the prompt, as in the code; a label
that could not be created stays in `known` and `empty`, and the PCE refuses a rule
that carries it. `Panic` is the nil dereference of a row for one type of rule that
matches a rule of the other. `RowsDone` writes the delete file, in a dry run
too, and `Delete` starts the delete command with it, or with other hrefs.
`ProvisionHrefOf` recognises rules as the code does: not deny rules.

### Object imports

An object has a name, one more compared text, a set of items (addresses, ports,
members, scopes or labels, by the command) and whether it is provisioned. Each
command has an operator that says what a row makes of the snapshot (`Ipl`, `Svc`,
`LabelGroup` and so on: which rows match what, which fields are compared, which
are written though not compared, what is dropped or fatal) and a record that says
what follows (`IplFollow` and so on: whether a refused call is tolerated, whether
a failed one is an error or a warning, whether the command provisions, whether it
keeps the href of a failed call). The session is the same for all.

### VENs

wkld-cleanup keeps one VEN of a hostname, of those with the latest heartbeat
(`Newest`, `Stay`), and lists every other one (`Superseded`). unpair reads the VENs again
and filters a file or a selection by labels with the online state and
`--hours`; it makes a call per VEN or per piece of the list. upgrade makes one
call. increase-ven-rate asks in pieces, waits ten minutes and asks again;
`asked` counts.

### Hygiene

A query of unused-umwl fails, is repeated up to `MaxAttempts` times, and then is
fatal or, with `--continue-on-error`, leaves the workload among those without
traffic. `busy` is the traffic of the time the listing began. nic-manage reads
the workloads (`LoadNics`) and comes to its rows one by one (`PlanNic`, `RowFails`): a row
builds on the payload an earlier one made for its workload (`Base`), and there is one
call with all payloads (`PushNics`). `file` is on disk and outlives the run.

### NEN

The policy is a number that grows; the ACLs carry the number of the policy they
were generated from. `since` is the policy when the command asked, so that
`FreshAcl` can say "as new as the request". The PCE may change the policy, finish
or never finish between any two polls. nen-switch imports workloads first and then
reads the PCE again, so that it can attach what it has just made.

### Labelling

A VM has a name, a hostname that its tools may or may not report, a folder and a set
of tags per category; a workload is known by its name. `Check` is the hostname
without its domain. vmsync looks up the folders it was given (`FindFolders`), walks
the folders below them, lists VMs, finds their names, gets the tags of the mapped
categories, then asks for the tags of VMs in requests that grow as the code's do,
and passes the rows to wkld-import (`Import`, without the stages that `WkldImport`
has). When the lookup fails and the command goes on (`NoFolders`), it has no
folders: the request for subfolders then has no filter and returns all there are
(`Subfolders`), and where that fails as well the list of VMs is not limited. The
cloud commands have one call. subnet and hostparse choose by the first network and
the first expression that match.

### pce.yaml

A process reads the file once. viper overlays the flags (`Flags`: the target,
`--update-pce`, `--no-prompt`, `--continue-on-error`) and writes the whole memory,
them included, which empties the file first: two steps, and if another process wrote
in between the result may be garbled (`Unreadable`). A process that reads an
unreadable file goes on with an empty configuration, since the error of
`ReadInConfig` is dropped. What a command does (`Act`), and whether `Fatal` ends it,
goes by the settings in memory, and never by the command line, as the code reads
viper. `Outcome` says of each kind of command what is then in the file: the flags,
the always-setting, the default and every entry, and which API keys exist; `had` and
`read` are the keys and the file of the time the process began. The process of
all-pces never reaches PersistentPreRun and so keeps the flags of the file; its
children get `--pce` and no stdin, so they cannot be asked. Names of PCEs are taken
to be lower case (see limits); PCEs have one account each; `--session` and
`--no-auth` differ from `--api-key` only in the key that is written.

## Runs

| run | shows | instance |
|---|---|---|
| `WkldImport` | pushed labels exist; undisturbed runs do only what a row asks and keep other dimensions; no workload is created twice; after one such run every row is in force and the next plans nothing; every run ends; the gate | 4 CSVs with one row per workload, 10 flag combinations, a managed and an unmanaged workload, 1 new host, 2 dimensions, 2 faults, 2 runs |
| `ContainmentSwitch` | the allow rule is in force when the boundary of the run is, whatever call failed on the way; modes last | 2 workloads and a container, all flag combinations that consent to what they do, any initial modes, 2 faults, 2 runs |
| `DagSync` | after one undisturbed run labels agree, after two the marks; no step on the way takes the entry of a workload or one of its labels away, and without `--remove-stale` and `--clean` entries of no workload stay | 2 addresses, 2 workloads, 2 dimensions, an entry of someone else, 2 faults, 3 runs |
| `WkldReplicate` | one undisturbed run replicates everything and leaves no orphan, whatever came before; deletions only of replicas whose source is gone | 3 PCEs, 1 hostname, 2 contents, 3 faults, 4 runs; a hostname stays on its PCE while it has replicas; no source is skipped |
| `PceConfig` | an undisturbed command changes file and keys as it says and nothing else in them; a run uses its own flags, whatever the file has of others; all-pces reaches every PCE | 3 process slots, 16 command lines, 2 started by the user, 2 PCEs, 4 keys, 2 faults; symmetric in the slots |
| `RuleImport` | no second rule for one pair after lost answers, crashes and reruns; an undisturbed run puts every row into the draft and, with `--provision`, what it changed in force; an authoritative import followed by delete leaves exactly the rules of the file; the gate | 2 rulesets, 2 rules (one a deny rule), 4 files, 6 flag combinations, 2 labels of which one is missing, 1 workload, 2 faults, 3 commands |
| `ObjectImport` | what a run made is found by the next, whatever failed; after an undisturbed run every row holds, the next has nothing to do and what was changed is provisioned; the gate | 13 commands, 25 files, 3 names, 2 texts, 2 items, 4 flag combinations |
| `Fleet` | wkld-cleanup and unpair together leave every hostname a VEN that has been heard from; the VENs of an undisturbed increase-ven-rate are asked equally often, and not less often than the minutes call for | 5 VENs, three of one hostname, two never heard from, requests of up to 2 VENs of which one is shorter, 4 flag combinations |
| `Housekeeping` | a workload with traffic is not listed as unused, whatever queries fail; one is listed as replaced only if it is; rows of one workload hold together | 2 managed and 2 unmanaged workloads, 3 addresses, 2 interfaces, 2 files, 3 flag combinations |
| `Nen` | with `--update-pce` interfaces get their workloads, imported ones included; ACLs are no older than the request; a command ends even if the PCE never does | 2 interfaces, 2 workloads, 2 files, 2 polls, 3 policies, 1 fault, 3 runs |
| `Labelling` | labels end as the source has them and elsewhere as they were; without `--continue-on-error` a workload that no VM of the chosen folders is named like keeps its labels whatever fails; reruns make no second workload of a VM | 4 sources, 6 names of which two pairs differ by domain, 3 VMs, 2 dimensions, 3 folders, 2 networks, 2 expressions, 6 flag combinations |

One run shows where the code does not do what its help says:
`HostparseConsent` checks `GateSpec` of `Labelling`, and TLC finds a behaviour that
violates it: with `--no-prompt` alone hostparse creates labels and updates workloads,
while its help says that nothing is updated without `--update-pce`. That is why
`Labelling` does not check the gate in its passing run.

### Why the bounds are enough to be interesting

Two faults are one disturbance and one crash in the repair of it. Two runs
are a run that fails and the one that repeats it; `DagSync` needs a
third because the mark takes two undisturbed ones after a disturbed one,
`WkldReplicate` a fourth because a replica must be made, lose its source, survive
a crashed cleaning and be cleaned. The three commands of `RuleImport` are an import
that fails, the one that repeats it, and the delete with its file. Three commands of
`Fleet` are a listing, one that takes time, and unpair with the old file. Three PCEs
are the least for which a replica can be mistaken for a source by a
third. Two label dimensions are the least with a column and without one; two
values the least that differ. Three VENs of one hostname are the least of which
one can be listed, one online and one removed. The first request for tags
is for one VM (`NumVM`), so that three VMs need a second and larger one. Three VENs in
requests of two make one whole and one shorter request. Three process slots are all-pces,
its child and someone else. Together the passing runs fire every action.

### Fairness

Two modules state liveness. `WkldImport` has `FairSpec`, weak fairness of `RunStep`:
the process keeps running and the operator answers the prompt, yes or no. `Nen` has
weak fairness of `Step`, the steps of the process, and nothing is assumed of
the PCE, which may never finish generating: that a command ends then rests on the
timeout of the polls. In both, failures, crashes, other people and the next
command are outside and never forced. The other modules claim safety only. The
runs switch the deadlock check off because a command that ended may be the last
thing that happens.

## Proofs

Eight modules hold theorems, each for every value of the constants its assumptions
admit: every set of names, files, flag combinations and every number of faults and
runs. TLC evaluates the assumptions on the instance of each run, and checked the
inductive invariants where they can be evaluated.

| module | theorem | argument |
|---|---|---|
| `WkldImport_proofs` | `Typing`, `Invariance`, `PushedLabels`, `ImportGated` | `PushedLabelsExist` is not inductive: when the push begins one has to know that replacing the placeholders left none, and that the labels planned from the snapshot still exist. `IInv` adds `WornLabelsExist` (what is worn, was loaded or is in the snapshot exists: the PCE never loses labels in this model, as it refuses to delete labels in use), `PlannedLabelsKnown` (a planned href is real or the placeholder of a label in `newLabels`), and `ReplacementsExist`. The step to the push uses that every member of `newLabels` has a replacement by then. The gate needs an invariant that ties the phase to the answer. |
| | `OnlyAskedFor`, `NoSecondUmwl`, `RowsInForce`, `SecondRunPlansNothing` | What an undisturbed run does follows from what it planned, and the plan was made from a snapshot that still is the PCE. `RunInv` says so stage by stage: while planning, every item stands for a row read so far and every such row that changes something has its item (`PlanFollowsRows`, `RowsPlanned`); when the push begins, the real hrefs mean the labels the placeholders meant; while pushing, the PCE is the snapshot with the items sent so far (`PushedSoFar`). `SettledInv` carries the result over to the next run, which finds nothing to plan. Two hypotheses on the input, both needed: `OneRowEach`, because two rows of a hostname are planned from one snapshot and undo each other or create twins, and for all but the first theorem `HostsFit`, because `--umwl` creates whatever its map leaves out, be it for `--managed-only` or `--unmanaged-only` (which the code refuses beside `--umwl`, but lets pass with `--continue-on-error`) or for a row with a domain under `--fqdn-to-short`. The assumptions say that cutting a hostname at its first dot twice is the same as once. |
| `RuleImport_proofs` | `RuleImportGated` | `GateInv`: while either command asks nothing is written or answered, while one pushes the operator has consented, and the two are never at work together. |
| | `NoSecondRule` | `PairInv`: rules are numbered and no number is used twice; the draft may lose rules since it was read, but a rule keeps its pair (`Keyed`); until they are pushed, planned rules have keys that neither the draft nor another planned rule has, because the rows of the file differ in theirs (`Distinct`) and `Match` found none; a planned update has the key of its rule, so writing the row's pair does not make a new key. Assumes that no two rows have one key and that the PCE has no two rules of one key to begin with (`UniqueKeys`). |
| | `RowsDrafted` | `RowsInv`: an undisturbed command holds every row it has read, in a planned entry with the labels of the row or in a rule of the draft (`AllHeld`), and the lists are empty when their stage is over. That the rows do not undo each other uses that a rule is matched by one row (`RowOfRule`). |
| | `RulesMatchRows` | `SortInv`, for import and delete together: the rules seen are those that rows match, and keep the key of their row through the update; a new rule has the key of a row that matched none; the delete file is the rest (`Planned`). Afterwards what is not in the delete file is one rule for each row (`Sorted`), and the delete takes the rest away. |
| | `DriftProvisioned` | `DriftInv`: an undisturbed run has the draft as it loaded it until it pushes; from then on every rule in which draft and snapshot differ is of a ruleset in `prov`. |
| `ContainmentNenHousekeeping_proofs` | `Invariance`, `FlowsStayAllowed`, `BoundaryFirst`, `GatedUnlessSkipAllow` | `IInv` is the types, the coherence of the policy objects (`Coherent`, a lemma that holds by what the PCE refuses) and `Progress`: for each place in the chain of calls, what must exist or be active by then if the run stops on errors; once the boundary of the run exists, the allow rule of all targets is active. The gate holds except with `--skip-allow`, which the code lets pass. |
| | `Fresh` | nen-acl. `AclInv` and `Promise`: once the PCE has finished generating, the version of the ACLs is at least `since`, because the policy only grows; what an undisturbed run fetches, and then writes, is as new. |
| | `FilledPorts` | nen-switch with `--update-pce`. `FillInv`: an undisturbed nen-switch has loaded the workloads the PCE has, and the rows it is past have their workloads on their interfaces (`Done`); it ends when it is past all. Hypothesis `NamedOnce`: a file that names a workload on two interfaces moves it from one to the other. |
| | `UsedStay`, `ReplacedListed`, `HousekeepingGated` | `ListInv`: traffic does not go away while a listing lasts, attempts stay below the limit, and no workload with traffic at the start is among the rows so far. |
| | `RowsInEffect` | `NicInv` with `Planning`: for each row so far the plan agrees with the row (`Agrees`), and for an interface that no row so far names it is what was read (`Unnamed`). A later row does not undo an earlier one because it is for another interface, or the command is disturbed, and because its payload starts from the plan and not from what was read. |
| `ObjectImport_proofs` | `ObjectImportGated`, `InForce` | `GateInv` as above; `ForceInv`: what this run has touched is in `changed` until it provisions, or is in force without; objects are numbered below `nextId`, so that a new object is never one that was touched before. |
| | `NoTwin` | `TwinInv`: a planned creation has a name that neither an object nor another planned call has, a planned update keeps a name where it is. Hypothesis `NamesFit`: the PCE has no twins to begin with, the file names nothing twice (two rows for a new name are two objects: only label-import looks for that), and no row with an href takes the name of another object. |
| | `RowsAnswered`, `NothingLeft` | `RowInv`: every row of an undisturbed run has an object that it fits or a right call that is still to be made; and, for the commands and files that converge, whatever is out of line has its call. A call leaves the other rows alone because no object is the object of two rows, which is the hypothesis `RowsApart`: a file with one row for each object, of hrefs that exist or ids no object will have, with the columns the command reads. After the run nothing is left to call, and planning again finds nothing. Assumes that the value that clears a cell is not the blank cell. |
| `DagSyncFleet_proofs` | `EntriesStay` | An action property, which matters in the steps Register and UnRegister. `ViewInv`: until something is disturbed, what was read of an address without a workload is what the device has, even between the two calls, and every address in the view of the PCE has a workload. That an entry of a workload survives both calls, with its right labels, is from `SyncInv` (next row). |
| | `OneRunSyncs`, `TwoRunsMark` | `SyncInv`: while an undisturbed run compares and changes, what it knows of the workload of an IP is what the PCE says, and the device has the tags it read, plus those to register once that call is made (`Halfway`); after a full run, the labels are in line. That `isEqual`, which compares lengths and looks for the labels of one list in the other, means equality of sets is a fact about finite sets, for which the dimensions are assumed finite. |
| | `SyncGated` | `SyncGateInv`: a run that flushes has not read the PCE, so that without `--update-panos` it either stops or finds nothing to unregister (`FlushNeedsUpdate`). Hypothesis `UpdatesOrFlushes`: a run with neither `--update-panos` nor `--clean` goes ahead unasked (see the limits). |
| | `HostsStay` | `HostInv` with `Spared`: for every hostname there is a VEN heard from that is neither removed nor listed nor selected. That the listing spares one uses that a finite set of VENs has a latest heartbeat (`Latest`, from the well-foundedness of strict inclusion), and that the pieces unpair deletes are pieces of its selection. |
| | `AskedAlikeAndEnough` | `EvenInv`: no VEN is a target twice, and an undisturbed command has asked its j-th target once in every iteration before, and in this one if the pieces have come to it (`Turn`); at the end all have been asked alike (`AskedAlike`), and whoever was asked at all at least `Iterations` times. |
| | `FleetGated` | As the other gates: until the decision nothing is asked or written, and while the calls are made the operator has consented. |
| `PceConfig_proofs` | `Invariance`, `Typing`, `NoForeignFlags`, `EveryPCEServed`, `CommandDone` | `Local`, of each process: where it can be by its command (`Placed`); its settings are what it read with the flags of its own run until it changes them (`Own`); the PCEs served and those still to do are together the list it began with (`Served`); and, as long as nothing failed and nobody else wrote, what the file and the keys are at each of its stages, with flags, default, always-setting and all entries, up to what its command promises (`Undisturbed`). A step of one process either leaves the file and the keys alone or ends the others' being undisturbed, so that the others keep `Local` whatever the step was (`OthersKeep`); only starting a child, its end and its parent's touch two processes. `EveryPCEServed` uses from `TypeOK` that a child's PCE is still on the list of its parent. |
| `WkldReplicate_proofs` | `DeletesOnlyReplicas` | `SourcesSeen`: in an undisturbed run, every source of a PCE that was read is in the view of it under its hostname. What is deleted was read as a replica whose owner was not seen; so the owner, had it existed, would have been seen; that this holds after the imports of the run itself too uses that an import makes a source only of what was seen as one. Hypothesis `NoSkip`: all PCEs are read in full, because with `--skip-source` replicas of what was skipped are deleted (see the limits). Hostnames may move as they like. |
| | `Replicates`, `NoneOrphaned` | `Agreed`: hostnames and identifiers are unique on a PCE, and whatever has one hostname, in the PCEs or in the views of a run, stands for one source (`Claim`). From it, each hostname has at most one row, so that the PCEs cannot be given different data. `Undisturbed` follows a run over the PCEs: one that is still to be done is as it was read; one that is being done or is done has nothing that would be deleted without being on the list, and every host that was imported has the data of its row (`Doing`); one that is done has only hosts with rows. When all are done, that is `Settled`, which undisturbed runs and reads keep. Hypothesis `Stays`: `NoSkip`, and a hostname moves to another PCE only when its replicas are gone, without which replicas take each other for their source. |
| | `ReplicationGated` | One answer, given before the first PCE is changed, is the consent for all. |
| `Labelling_proofs` | `Typing` | `Place`: which of its variables a command has filled by the step it is at. With it goes that what was loaded is still what the PCE has when the import runs: the commands are taken one at a time, and nobody else labels meanwhile. |
| | `TheirsOnly` | `Theirs`: the folders so far are below those of the command, a VM that was listed is in one, and a row has a name the VM is known by, whatever failed on the way. The empty list of folders, which stands for all, is excluded by `Sure`: without `--continue-on-error` a command that is past the lookup has found its folders. That the walk stays within `Below` is by its definition as what every set closed under subfolders has. |
| | `UmwlOnce` | `Reruns`: a VM for which a workload was made has a workload of its name ever after, so that a rerun, which reads again, finds it; the rows of one run hold each VM once. Without `--continue-on-error` the workloads were loaded. |
| | `LabelsFollow` | `Undisturbed`: what each step of the four commands has found is what the folders, tags, networks and expressions say, up to the rows of the file (`MachineRows`, `NetRows`, `ParsedRows`); the import of such rows gives each workload the labels of its row. A workload that only one VM stands for (`Sole`) has one row. That the walk ends with all folders below uses that its result is closed under subfolders. For hostparse, every label of a row exists or is to be created. |
| | `LabellingGated` | The gate again. Hypothesis: hostparse is not among the commands, for the run `HostparseConsent` shows that it takes `--no-prompt` for consent. |

A module may hold the theorems of several components, as two do. It extends one and has the others
as instances (`HK`, `Nen`, `F`); the assumptions these make of their constants are then
hypotheses of the theorems. A variable both components have stands for each in turn; no
theorem there is about two of them.

Beyond the prover and left to TLC: the liveness properties `RunEnds` and `CommandEnds`. Every
other property that a passing run checks is a theorem. The gate does not hold of nen-switch, which
never looks at `--update-pce`, and so is not claimed of it. The loops of the code are actions with an index or sets, so that no
module needs a recursive operator.

## Known limits of the code that no run shows

Met while modelling; the model has the behaviour, a property or an instance
excludes it, or it concerns data that is abstracted. Paths are under src/cmd.

wkld-import, wkld-replicate
* `--fqdn-to-short` undoes `--managed-only` and `--unmanaged-only`: the map is rebuilt
  from the unfiltered slice (wkldimport/import.go line 72).
* Two rows for one workload are planned from one snapshot; a blank cell of the
  second undoes the first (wkldimport/import.go line 179). Two rows for one unknown
  hostname create two workloads. Labels planned for rows that a limit then
  refuses are created nevertheless.
* A host that moves between PCEs leaves replicas that take each other for their
  source (wkldreplicate/wkkdreplicate.go line 246); `--skip-source` deletes replicas
  of managed workloads of the PCE it skips (line 175); an unmanaged workload
  that was replicated once is exported even when its PCE is skipped (line 228).

Policy
* containment-switch: with `--skip-allow` neither `--update-pce` nor the prompt is
  looked at (containmentswitch.go line 118).
* rule-import: without `--match-on-ext` the authoritative delete file lists every rule
  (ruleimport.go line 313); a run that dies before provisioning leaves a draft that
  no rerun provisions; two pairs can have one key ("ab" with "c", "a" with "bc",
  line 202); a row whose ruleset does not exist is skipped before its rule is marked
  as matched, so that the delete file lists it; a blank label cell leaves the labels
  alone unless something else changes, and then removes them.
* delete: a fatal error of the bulk call skips the provisioning (delete.go line 228),
  and the rerun does not make up for it; for a deny rule its own href is handed to
  provisioning (line 203).

Object imports
* sec-principal-import checks a map that is never loaded and so creates always.
* permissions-import and ruleset-import drop a scope entry that does not exist and
  with `--continue-on-error` create an object of wider scope.
* ruleset-import of an unknown href with `--continue-on-error` dereferences nil.
* ruleset-import, deny-rule-import and ipl-replace keep the empty href of a failed call
  for provisioning.
* Creations without an href of labelgroup-, permissions-, ruleset- and
  deny-rule-import are repeated by a rerun. svc-import ignores the error of its load
  and then makes twins.
* cwp-import reads column 0 for a missing header; with `--remove-value` it always
  updates. svc-import compares no descriptions without `--meta`.
* label-dimension-import and deny-rule-import write blank what they did not compare.
* label-import needs two runs for a renamed value that is used again. Two rows of one
  name never converge in ipl-import. deny-rule-import has an unused flag
  `--create-labels`, and a blank network type never converges. ven-import pushes the
  status in the case it was written.

VENs and hygiene
* unused-umwl with `--continue-on-error` lists workloads whose query failed.
* wkld-cleanup lists all VENs of a hostname of which none has sent a heartbeat, and
  leaves an old file alone when nothing is found.
* increase-ven-rate for 60 minutes asks seven times; its help says "running 6 total
  times" (increasevenupdaterate/cmd.go line 27). `AskedEvenly` therefore only says as
  often as the minutes call for, or more.
* upgrade by hostname reaches one of two VENs with that hostname.

NEN and labelling
* nen-acl waits three times as long as `--timeout` says: it counts polls as
  seconds, and a poll waits three (nen/nen-acl.go line 151); the error of the request is ignored, so that an old ACL is written; an ACL that names a workload
  that was not loaded is a nil dereference. nen-switch cannot be repeated after a
  partial failure.
* nen-switch writes without `--update-pce`, while its help says that the flag "must also
  be set to update the PCE" (nen/nen-switch.go lines 40-41). `PortsFilled` is about runs
  with the flag.
* hostparse drops labels of dimensions other than the four it knows; an unknown host
  in the hostfile is a nil dereference; a label value with a dot is cut.
* vmsync: with `--continue-on-error`, chosen folders that could not be looked up
  (vmsync/vcenter.go lines 244-250), be it that the call failed or that the name is
  misspelt, become all folders, or all VMs: the labels of VMs nobody chose change. `OnlyTheirs` excludes the flag; the model has the behaviour.
* vmsync: `--umwl` does not relabel workloads that exist; after a failed load with `--continue-on-error` it can make twins under
  another domain; a tag that was removed leaves its label.
* aws-label: the key "subnet_id " has a trailing blank.
* netscaler-sync (not modelled): `--cleanup` is never looked at; services that were
  created and not provisioned are not provisioned by a rerun; two subnet addresses of
  one network undo each other.

dag-sync and pce.yaml
* An ordinary run of dag-sync registers and unregisters without `--update-panos`
  (dagsync/cmd.go line 746); two dimensions with one value never compare equal and never
  get the mark.
* The help of `--remove-stale` says "Remove all Registered IPs that don't have IP on the
  PCE" (dagsync/cmd.go line 136), and the log of the removal says the same (line 724);
  the code removes those with the mark, and the others only with `--no-href` (line 717).
  The help of `--clean` says "Remove all Registered IPs from PanOS" (line 138), a comment
  "Remove no matter if there are labels" (line 437); the code takes the tags of marked
  entries only (line 441). The model has the code's conditions, and `EntriesKept` says
  nothing of entries without a workload in a run with either flag.
* all-pces and target-pces handle errors with the flag of the previous run
  (main.go line 57). Overlapping processes lose each other's changes; a crash while the
  file is written loses all PCEs; removing the default PCE leaves its name as the
  default (pcemgmt/removepce.go line 93); viper lowers keys, so `pce-remove` of a name
  with capitals removes nothing from the file.

## Not modelled

* Exports, traffic, explorer, checks, label summaries: read, format, write a file.
* Template import and creation: the import commands one after the other.
* flow-import and the key commands: one call.
* csp-iplist and auto-deny-rules: consolidation of address ranges and derivation
  from traffic; pure algorithms over 32-bit and 128-bit addresses (see the plan).
* netscaler-sync: the command says of itself that it is going to be removed.
* Cloud inventory and the ServiceNow update: a foreign inventory or table becomes a
  CSV file, which one of the modelled imports reads. wkld-label labels one workload.
* delete-unused-labels: asks the PCE to delete every label and logs what it refuses;
  that labels in use stay is up to the PCE.
* Reading, parsing and formatting of files, logging and the API library.
* Of modelled components, the parts their notes in PROJECT.json name.

## Plan

1. Consolidation of ranges in csp-iplist and auto-deny-rules as functions over a
   small address space, checked against sets of addresses.
2. Limits of wkld-replicate, `--single-api` and the file of hostnames of `Fleet`.
