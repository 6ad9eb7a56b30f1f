------------------------------ MODULE PceConfig ------------------------------
(* The file pce.yaml and the processes that share it.  It holds the PCEs with *)
(* their API keys, the default PCE and the global flags of the last run.      *)
(* Every process reads it once at its start (root.go, init), overrides the    *)
(* flags in memory and writes ALL of its memory back (PersistentPreRun);      *)
(* pce-add, pce-remove and settings write it a second time.  Nothing locks    *)
(* the file.  all-pces and target-pces (main.go) are processes that run a     *)
(* child process for one PCE after the other.                                 *)
(*                                                                            *)
(* "run" stands for every command that works on one PCE.                      *)
EXTENDS Integers, FiniteSets

CONSTANTS Procs,      \* slots for processes
          Names,      \* names of PCEs
          Commands,   \* the command lines users type
          InitFile,   \* pce.yaml before the first run
          InitKeys,   \* the API keys workloader has made so far, per PCE
          None,       \* no PCE; in a file: the PCE is not configured
          Blank,      \* a PCE configured without a key
          Given,      \* a key that workloader did not make (--api-key)
          Unreadable, \* pce.yaml truncated or garbled
          MaxKeys, MaxRuns, MaxFaults

Keys == 1..MaxKeys
Kinds == {"run", "add", "remove", "default", "always", "all"}

Cmd == [kind : Kinds,
        name : Names \cup {None},     \* argument of pce-add, pce-remove, ...
        pce : Names \cup {None},      \* --pce
        only : SUBSET Names,          \* the file of target-pces
        update : BOOLEAN, noPrompt : BOOLEAN, continueOnError : BOOLEAN,
        apiKey : BOOLEAN,             \* pce-add --api-key
        clear : BOOLEAN,              \* pce-remove --clear-keys
        stdin : BOOLEAN]              \* children of all-pces have none

Conf == [key : [Names -> Keys \cup {None, Blank, Given}],
         default : Names \cup {None},
         target : Names \cup {None},
         update : BOOLEAN, noPrompt : BOOLEAN,
         continueOnError : BOOLEAN,
         always : BOOLEAN]            \* continue_on_error_default: continue

ASSUME ConfigAssumption ==
  /\ Commands \subseteq Cmd
  /\ InitFile \in Conf
  /\ InitKeys \in [Names -> SUBSET Keys]
  /\ \E k \in 0..MaxKeys : UNION {InitKeys[n] : n \in Names} = 1..k
  /\ \A c \in Commands : c.kind # "run" /\ c.kind # "all" => c.name \in Names
  /\ None \notin Names \cup Procs /\ Unreadable \notin Conf
  /\ MaxKeys \in Nat /\ MaxRuns \in Nat /\ MaxFaults \in Nat

VARIABLES file,     \* pce.yaml
          keys,     \* the API keys named "workloader" on each PCE
          pc,       \* where each process is
          cmd,      \* its command line
          mem,      \* its viper settings
          listed,   \* pce-remove: keys still to be deleted
          todo,     \* all-pces: PCEs still to be run on
          parent,   \* the all-pces process a child belongs to
          code,     \* "ok", "error": an error was survived, "failed"
          read,     \* history: what each process read
          had,      \* history: the keys when it began
          alone,    \* history: no one interfered with the process so far
          acted,    \* history: the PCE a "run" worked on
          wrote,    \* history: whether it changed it
          served,   \* history: the PCEs whose child of all-pces ended well
          nkeys, runs, faults

shared == <<file, keys>>
local == <<cmd, mem, listed, todo, parent, code>>
history == <<read, had, acted, wrote, served>>
counters == <<nkeys, runs, faults>>
vars == <<shared, pc, local, history, alone, counters>>

(* ------------------------------- Helpers -------------------------------- *)

\* What viper holds when there is nothing it can read.
NoConf == [key |-> [n \in Names |-> None], default |-> None, target |-> None,
           update |-> FALSE, noPrompt |-> FALSE,
           continueOnError |-> FALSE, always |-> FALSE]

\* The error of ReadInConfig is not looked at.
ReadInConfig == IF file = Unreadable THEN NoConf ELSE file

Configured(conf) == {n \in Names : conf.key[n] # None}

\* LogError ends the process unless errors are to be survived.
Fatal(conf) == ~conf.continueOnError /\ ~conf.always

\* The credentials of PCE n in a configuration are good.
Live(conf, n) == conf.key[n] = Given \/ conf.key[n] \in keys[n]

At(p, label) == pc[p] = label /\ UNCHANGED <<runs, read, had, parent>>
Goto(p, label) == pc' = [pc EXCEPT ![p] = label]
Exit(p, result) ==
  /\ Goto(p, "done")
  /\ code' = [code EXCEPT ![p] = IF @ = "error" /\ result = "ok" THEN @ ELSE result]

\* LogError: the end of the process, or on to the next step.
LogError(p, label) ==
  IF Fatal(mem[p])
  THEN Exit(p, "failed")
  ELSE Goto(p, label) /\ code' = [code EXCEPT ![p] = "error"]

Fault == faults < MaxFaults /\ faults' = faults + 1

\* p has changed the file or the keys: no other process is alone any more.
Disturb(p) == alone' = [q \in Procs |-> alone[q] /\ q = p]

(* ------------------------------- Start-up -------------------------------- *)

Idle == [kind |-> "run", name |-> None, pce |-> None, only |-> {},
         update |-> FALSE, noPrompt |-> FALSE, continueOnError |-> FALSE,
         apiKey |-> FALSE, clear |-> FALSE, stdin |-> FALSE]

Init ==
  /\ file = InitFile
  /\ keys = InitKeys
  /\ pc = [p \in Procs |-> "off"]
  /\ cmd = [p \in Procs |-> Idle]
  /\ mem = [p \in Procs |-> NoConf]
  /\ read = mem
  /\ had = [p \in Procs |-> InitKeys]
  /\ listed = [p \in Procs |-> {}]
  /\ todo = [p \in Procs |-> {}]
  /\ served = todo
  /\ parent = [p \in Procs |-> None]
  /\ acted = parent
  /\ code = [p \in Procs |-> "ok"]
  /\ alone = [p \in Procs |-> FALSE]
  /\ wrote = alone
  /\ nkeys = Cardinality(UNION {InitKeys[n] : n \in Names})
  /\ runs = 0
  /\ faults = 0

\* A process begins: viper reads the file.  all-pces and target-pces never get
\* to PersistentPreRun, they go through the PCEs of the file.
Begin(p, c, par) ==
  /\ pc[p] = "off"
  /\ cmd' = [cmd EXCEPT ![p] = c]
  /\ mem' = [mem EXCEPT ![p] = ReadInConfig]
  /\ read' = [read EXCEPT ![p] = ReadInConfig]
  /\ had' = [had EXCEPT ![p] = keys]
  /\ alone' = [alone EXCEPT ![p] = file # Unreadable]
  /\ parent' = [parent EXCEPT ![p] = par]
  /\ code' = [code EXCEPT ![p] = "ok"]
  /\ listed' = [listed EXCEPT ![p] = {}]
  /\ todo' = [todo EXCEPT ![p] = IF c.kind = "all"
                                 THEN Configured(ReadInConfig) \cap c.only
                                 ELSE {}]
  /\ acted' = [acted EXCEPT ![p] = None]
  /\ wrote' = [wrote EXCEPT ![p] = FALSE]
  /\ served' = [served EXCEPT ![p] = {}]
  /\ UNCHANGED <<shared, nkeys, faults>>

Start(p) ==
  /\ runs < MaxRuns
  /\ runs' = runs + 1
  /\ \E c \in Commands :
       /\ Begin(p, c, None)
       /\ Goto(p, IF c.kind = "all" THEN "spawn" ELSE "pre")

\* Slip: a flag that is not given stays as the last run left it.
Flags_Kept(conf, c) ==
  [conf EXCEPT !.target = IF c.pce = None THEN @ ELSE c.pce,
               !.update = @ \/ c.update, !.noPrompt = @ \/ c.noPrompt,
               !.continueOnError = @ \/ c.continueOnError]

\* The flags of this run replace those of the last one, target_pce also when
\* --pce is not given; then the file is opened for writing, which empties it.
Flags(conf, c) ==
  [conf EXCEPT !.target = c.pce, !.update = c.update, !.noPrompt = c.noPrompt,
               !.continueOnError = c.continueOnError]

PersistentPreRun(p) ==
  /\ At(p, "pre")
  /\ mem' = [mem EXCEPT ![p] = Flags(@, cmd[p])]
  /\ file' = Unreadable
  /\ Disturb(p)
  /\ Goto(p, "preWrite")
  /\ UNCHANGED <<keys, cmd, listed, todo, code, acted, wrote, served, nkeys, faults>>

\* The content follows.  If another process wrote since the file was emptied
\* the two texts may overlay each other.
Write(p, from, to) ==
  /\ At(p, from)
  /\ \/ file' = mem[p]
     \/ file # Unreadable /\ file' = Unreadable
  /\ Disturb(p)
  /\ Goto(p, to)
  /\ UNCHANGED <<keys, cmd, mem, listed, todo, code, acted, wrote, served, nkeys, faults>>

WritePreRun(p) == Write(p, "preWrite", "body")
WriteConfig(p) == Write(p, "saveWrite", "done")

\* The second WriteConfig of pce-add, pce-remove and settings.
Save(p) ==
  /\ At(p, "save")
  /\ file' = Unreadable
  /\ Disturb(p)
  /\ Goto(p, "saveWrite")
  /\ UNCHANGED <<keys, cmd, mem, listed, todo, code, acted, wrote, served, nkeys, faults>>

(* -------------------------- One PCE, any command ------------------------- *)

\* --pce, else the default PCE.
GetTargetPCE(p) == IF mem[p].target # None THEN mem[p].target ELSE mem[p].default

Reachable(p) ==
  /\ GetTargetPCE(p) # None
  /\ Live(mem[p], GetTargetPCE(p))

Body(p, kind) == At(p, "body") /\ cmd[p].kind = kind

\* The command does its work on the PCE, if it may and the operator agrees.
Act(p) ==
  /\ Body(p, "run")
  /\ Reachable(p)
  /\ acted' = [acted EXCEPT ![p] = GetTargetPCE(p)]
  /\ \E yes \in IF cmd[p].stdin THEN BOOLEAN ELSE {FALSE} :
       wrote' = [wrote EXCEPT ![p] = mem[p].update /\ (mem[p].noPrompt \/ yes)]
  /\ Exit(p, "ok")
  /\ UNCHANGED <<shared, cmd, mem, listed, todo, served, alone, nkeys, faults>>

\* No PCE, bad credentials, or a call that fails.
ActFails(p) ==
  /\ Body(p, "run")
  /\ \/ ~Reachable(p) /\ UNCHANGED faults
     \/ Reachable(p) /\ Fault
  /\ LogError(p, "done")
  /\ UNCHANGED <<shared, cmd, mem, listed, todo, acted, wrote, served, alone, nkeys>>

(* -------------------------------- pce-add -------------------------------- *)

\* Slip: every new PCE becomes the default.
Added_Default(conf, n, k) == [conf EXCEPT !.key[n] = k, !.default = n]

\* The PCE becomes the default if none is set.
Added(conf, n, k) ==
  [conf EXCEPT !.key[n] = k,
               !.default = IF conf.default = None THEN n ELSE @]

\* Log in and make an API key, or take the one given.  The operator types while
\* the process holds what it read at its start.
AddPCE(p) ==
  /\ Body(p, "add")
  /\ IF cmd[p].apiKey
     THEN /\ mem' = [mem EXCEPT ![p] = Added(@, cmd[p].name, Given)]
          /\ UNCHANGED <<keys, nkeys, alone>>
     ELSE /\ nkeys < MaxKeys
          /\ nkeys' = nkeys + 1
          /\ keys' = [keys EXCEPT ![cmd[p].name] = @ \cup {nkeys'}]
          /\ mem' = [mem EXCEPT ![p] = Added(@, cmd[p].name, nkeys')]
          /\ Disturb(p)
  /\ Goto(p, "save")
  /\ UNCHANGED <<file, cmd, listed, todo, code, acted, wrote, served, faults>>

\* A failed login that is survived leaves an entry without a key.
AddPCEFails(p) ==
  /\ Body(p, "add")
  /\ Fault
  /\ LogError(p, "save")
  /\ mem' = [mem EXCEPT ![p] =
       Added(@, cmd[p].name, IF cmd[p].apiKey THEN Given ELSE Blank)]
  /\ UNCHANGED <<shared, cmd, listed, todo, acted, wrote, served, alone, nkeys>>

(* ------------------------------ pce-remove ------------------------------- *)

\* --clear-keys starts with the list of the keys; the one in use is kept for last.
GetAllAPIKeys(p) ==
  /\ Body(p, "remove")
  /\ cmd[p].clear
  /\ mem[p].key[cmd[p].name] \in keys[cmd[p].name]
  /\ listed' = [listed EXCEPT ![p] = keys[cmd[p].name] \ {mem[p].key[cmd[p].name]}]
  /\ Goto(p, "clear")
  /\ UNCHANGED <<shared, cmd, mem, todo, code, acted, wrote, served, alone, nkeys, faults>>

\* Without credentials of workloader's own there is nothing to list or delete.
GetAllAPIKeysFails(p) ==
  /\ Body(p, "remove")
  /\ cmd[p].clear
  /\ \/ mem[p].key[cmd[p].name] \notin keys[cmd[p].name] /\ UNCHANGED faults
     \/ mem[p].key[cmd[p].name] \in keys[cmd[p].name] /\ Fault
  /\ LogError(p, "drop")
  /\ UNCHANGED <<shared, cmd, mem, listed, todo, acted, wrote, served, alone, nkeys>>

\* The next key to delete.
Deletable(p) == IF listed[p] # {} THEN listed[p] ELSE {mem[p].key[cmd[p].name]}

AfterDelete(p, k) == IF k \in listed[p] THEN "clear" ELSE "drop"

\* A call needs the key in use and the key it deletes.
Deletes(p, k) == {mem[p].key[cmd[p].name], k} \subseteq keys[cmd[p].name]

DeleteKey(p) ==
  /\ At(p, "clear")
  /\ \E k \in Deletable(p) :
       /\ Deletes(p, k)
       /\ keys' = [keys EXCEPT ![cmd[p].name] = @ \ {k}]
       /\ listed' = [listed EXCEPT ![p] = @ \ {k}]
       /\ Goto(p, AfterDelete(p, k))
  /\ Disturb(p)
  /\ UNCHANGED <<file, cmd, mem, todo, code, acted, wrote, served, nkeys, faults>>

DeleteKeyFails(p) ==
  /\ At(p, "clear")
  /\ \E k \in Deletable(p) :
       /\ \/ ~Deletes(p, k) /\ UNCHANGED faults
          \/ Deletes(p, k) /\ Fault
       /\ listed' = [listed EXCEPT ![p] = @ \ {k}]
       /\ LogError(p, AfterDelete(p, k))
  /\ UNCHANGED <<shared, cmd, mem, todo, acted, wrote, served, alone, nkeys>>

\* The entry goes; a default PCE of that name stays.
RemovePCE(p) ==
  /\ \/ At(p, "drop")
     \/ Body(p, "remove") /\ ~cmd[p].clear
  /\ mem' = [mem EXCEPT ![p].key[cmd[p].name] = None]
  /\ Goto(p, "save")
  /\ UNCHANGED <<shared, cmd, listed, todo, code, acted, wrote, served, alone, nkeys, faults>>

(* ------------------------------- settings -------------------------------- *)

\* --default-pce.  With errors survived the name need not exist.
SetDefault(p) ==
  /\ Body(p, "default")
  /\ mem' = [mem EXCEPT ![p].default = cmd[p].name]
  /\ IF cmd[p].name \in Configured(mem[p])
     THEN Goto(p, "save") /\ UNCHANGED code
     ELSE LogError(p, "save")
  /\ UNCHANGED <<shared, cmd, listed, todo, acted, wrote, served, alone, nkeys, faults>>

\* --continue-on-error-default continue
SetAlways(p) ==
  /\ Body(p, "always")
  /\ mem' = [mem EXCEPT ![p].always = TRUE]
  /\ Goto(p, "save")
  /\ UNCHANGED <<shared, cmd, listed, todo, code, acted, wrote, served, alone, nkeys, faults>>

(* ------------------------ all-pces and target-pces ----------------------- *)

\* The child gets the rest of the command line and --pce; its stdin is empty.
Spawn(p) ==
  /\ pc[p] = "spawn"
  /\ \E n \in todo[p], q \in Procs \ {p} :
       /\ Begin(q, [cmd[p] EXCEPT !.kind = "run", !.pce = n, !.only = {},
                                  !.stdin = FALSE], p)
       /\ pc' = [pc EXCEPT ![p] = "wait", ![q] = "pre"]
  /\ UNCHANGED runs

\* Slip: the exit code of the child is not looked at.
Reap_Blind(p, q) == Goto(p, "spawn") /\ UNCHANGED code

\* The child has ended.  LogError looks at the settings of the parent, which
\* never took the flags of its own command line.
Reap(p, q) ==
  IF code[q] = "failed" THEN LogError(p, "spawn")
                        ELSE Goto(p, "spawn") /\ UNCHANGED code

Wait(p) ==
  /\ pc[p] = "wait"
  /\ \E q \in Procs :
       /\ parent[q] = p
       /\ pc[q] = "done"
       /\ todo' = [todo EXCEPT ![p] = @ \ {cmd[q].pce}]
       /\ served' = [served EXCEPT ![p] =
            IF code[q] = "failed" THEN @ ELSE @ \cup {cmd[q].pce}]
       /\ parent' = [parent EXCEPT ![q] = None]
       /\ Reap(p, q)
  /\ UNCHANGED <<shared, cmd, mem, listed, read, had, acted, wrote, alone, counters>>

AllDone(p) ==
  /\ At(p, "spawn")
  /\ todo[p] = {}
  /\ Exit(p, "ok")
  /\ UNCHANGED <<shared, cmd, mem, listed, todo, acted, wrote, served, alone, nkeys, faults>>

(* ------------------------------- The end --------------------------------- *)

\* What is left of the links to parents when p is gone.
Orphaned(p) == [q \in Procs |-> IF parent[q] = p THEN None ELSE parent[q]]

\* The process is gone; a child stays until its parent has seen its exit code.
Reset(p) ==
  /\ pc' = [pc EXCEPT ![p] = "off"]
  /\ cmd' = [cmd EXCEPT ![p] = Idle]
  /\ mem' = [mem EXCEPT ![p] = NoConf]
  /\ read' = [read EXCEPT ![p] = NoConf]
  /\ had' = [had EXCEPT ![p] = InitKeys]
  /\ listed' = [listed EXCEPT ![p] = {}]
  /\ todo' = [todo EXCEPT ![p] = {}]
  /\ code' = [code EXCEPT ![p] = "ok"]
  /\ alone' = [alone EXCEPT ![p] = FALSE]
  /\ acted' = [acted EXCEPT ![p] = None]
  /\ wrote' = [wrote EXCEPT ![p] = FALSE]
  /\ served' = [served EXCEPT ![p] = {}]
  /\ parent' = Orphaned(p)

End(p) ==
  /\ pc[p] = "done"
  /\ parent[p] = None
  /\ Reset(p)
  /\ UNCHANGED <<shared, counters>>

\* A process is killed; its parent, if any, sees a failed child.
Crash(p) ==
  /\ pc[p] \notin {"off", "done"}
  /\ Fault
  /\ IF parent[p] = None
     THEN Reset(p)
     ELSE /\ Exit(p, "failed")
          /\ UNCHANGED <<cmd, mem, read, had, listed, todo, alone, acted, wrote,
                         served, parent>>
  /\ UNCHANGED <<shared, nkeys, runs>>

Step(p) ==
  \/ PersistentPreRun(p) \/ WritePreRun(p) \/ Save(p) \/ WriteConfig(p)
  \/ Act(p) \/ ActFails(p)
  \/ AddPCE(p) \/ AddPCEFails(p)
  \/ GetAllAPIKeys(p) \/ GetAllAPIKeysFails(p) \/ DeleteKey(p) \/ DeleteKeyFails(p)
  \/ RemovePCE(p) \/ SetDefault(p) \/ SetAlways(p)
  \/ Spawn(p) \/ Wait(p) \/ AllDone(p) \/ End(p)

Next == \E p \in Procs : Start(p) \/ Step(p) \/ Crash(p)

Spec == Init /\ [][Next]_vars

(* ------------------------------ Properties ------------------------------- *)

Labels == {"off", "pre", "preWrite", "body", "save", "saveWrite", "clear",
           "drop", "spawn", "wait", "done"}

\* Types, and: a child belongs to a process that waits for it, which has no
\* second one, and runs on a PCE that is still to be done.
TypeOK ==
  /\ file \in Conf \cup {Unreadable}
  /\ keys \in [Names -> SUBSET (1..nkeys)]
  /\ pc \in [Procs -> Labels]
  /\ cmd \in [Procs -> Cmd]
  /\ mem \in [Procs -> Conf] /\ read \in [Procs -> Conf]
  /\ had \in [Procs -> [Names -> SUBSET Keys]]
  /\ listed \in [Procs -> SUBSET Keys]
  /\ todo \in [Procs -> SUBSET Names] /\ served \in [Procs -> SUBSET Names]
  /\ parent \in [Procs -> Procs \cup {None}]
  /\ acted \in [Procs -> Names \cup {None}]
  /\ code \in [Procs -> {"ok", "error", "failed"}]
  /\ alone \in [Procs -> BOOLEAN] /\ wrote \in [Procs -> BOOLEAN]
  /\ nkeys \in 0..MaxKeys /\ runs \in 0..MaxRuns /\ faults \in 0..MaxFaults
  /\ \A q \in Procs : parent[q] # None =>
       /\ pc[parent[q]] = "wait"
       /\ cmd[q].pce \in todo[parent[q]]
       /\ \A r \in Procs \ {q} : parent[r] # parent[q]

\* What a command leaves in pce.yaml and of the keys: the flags of its own run;
\* pce-add one entry, with the key given or the one key it made; pce-remove no
\* entry and, with --clear-keys, no key; settings what was set; otherwise all as
\* it was when the process began.
Outcome(p, conf) ==
  LET c == cmd[p]
      n == c.name
  IN /\ conf.target = c.pce /\ conf.update = c.update
     /\ conf.noPrompt = c.noPrompt /\ conf.continueOnError = c.continueOnError
     /\ conf.always <=> read[p].always \/ c.kind = "always"
     /\ conf.default = IF \/ c.kind = "default"
                          \/ c.kind = "add" /\ read[p].default = None
                       THEN n ELSE read[p].default
     /\ \A m \in Names :
          m # n \/ c.kind \notin {"add", "remove"} =>
            conf.key[m] = read[p].key[m] /\ keys[m] = had[p][m]
     /\ c.kind = "add" /\ c.apiKey => conf.key[n] = Given /\ keys[n] = had[p][n]
     /\ c.kind = "add" /\ ~c.apiKey => /\ conf.key[n] \notin had[p][n]
                                       /\ keys[n] = had[p][n] \cup {conf.key[n]}
     /\ c.kind = "remove" => /\ n \notin Configured(conf)
                             /\ keys[n] = IF c.clear THEN {} ELSE had[p][n]
     /\ c.kind = "default" => n \in Configured(conf)

\* A process that ended without an error and that nobody interfered with has
\* done what its command says to pce.yaml and to the keys, and nothing else.
Effect ==
  \A p \in Procs :
    pc[p] = "done" /\ code[p] = "ok" /\ alone[p] /\ cmd[p].kind # "all" =>
      file # Unreadable /\ Outcome(p, file)

\* The file keeps --pce, --continue-on-error and so on of the last run, of
\* whatever process: a run works on the PCE of its own command line or else on
\* the default PCE, and changes it only if its own command line says so.
OwnFlags ==
  \A p \in Procs : acted[p] # None =>
    /\ acted[p] = IF cmd[p].pce # None THEN cmd[p].pce ELSE read[p].default
    /\ wrote[p] => cmd[p].update /\ (cmd[p].noPrompt \/ cmd[p].stdin)

\* all-pces: "Run a command on all PCEs in your pce.yaml file": if the process
\* met no error, a child ended well for every PCE, and for each only one.
EveryPCE ==
  \A p \in Procs :
    pc[p] = "done" /\ cmd[p].kind = "all" /\ code[p] = "ok" =>
      served[p] = Configured(read[p]) \cap cmd[p].only
=============================================================================
