-------------------------- MODULE PceConfig_proofs --------------------------
(* For every number of processes that share pce.yaml, every file and every    *)
(* crash: what a process reads, does and leaves behind.  The processes meet   *)
(* in the file and the keys only, so that the invariant is one statement per  *)
(* process (Local) and a step has to be looked at for the process that makes  *)
(* it (Good) and for the others at once (Same).  A parent and its child are   *)
(* the exception: Spawn, Wait and the end of a process touch both.            *)
EXTENDS PceConfig, TLAPS, FiniteSetTheorems

\* Where a process is, by its command.
Placed(p) ==
  /\ pc[p] \in {"spawn", "wait"} => cmd[p].kind = "all" /\ parent[p] = None
  /\ cmd[p].kind = "all" => pc[p] \in {"spawn", "wait", "done"}
  /\ cmd[p].kind \notin {"run", "all"} => cmd[p].name \in Names
  /\ pc[p] # "done" => code[p] # "failed"
  /\ pc[p] = "clear" => cmd[p].kind = "remove" /\ cmd[p].clear
  /\ pc[p] = "drop" => cmd[p].kind = "remove" /\ cmd[p].clear
  /\ pc[p] \in {"save", "saveWrite"} => cmd[p].kind \notin {"run", "all"}

\* The settings of a process are those it read, with the flags of its own run.
Own(p) ==
  /\ pc[p] = "pre" => mem[p] = read[p]
  /\ pc[p] \in {"preWrite", "body", "clear", "drop"} => mem[p] = Flags(read[p], cmd[p])
  /\ acted[p] # None =>
       /\ acted[p] = IF cmd[p].pce # None THEN cmd[p].pce ELSE read[p].default
       /\ wrote[p] => cmd[p].update /\ (cmd[p].noPrompt \/ cmd[p].stdin)

\* all-pces
Served(p) ==
  cmd[p].kind = "all" /\ code[p] = "ok" =>
    /\ served[p] \cup todo[p] = Configured(read[p]) \cap cmd[p].only
    /\ pc[p] = "done" => todo[p] = {}

\* The file and the keys, as long as nothing failed and nobody else came in between.
Undisturbed(p) ==
  code[p] = "ok" /\ alone[p] =>
    /\ pc[p] = "pre" => file = read[p]
    /\ pc[p] \in {"pre", "preWrite", "body"} => keys = had[p]
    /\ pc[p] \in {"clear", "drop"} =>
         \A m \in Names \ {cmd[p].name} : keys[m] = had[p][m]
    /\ pc[p] \in {"preWrite", "saveWrite"} => file = Unreadable
    /\ pc[p] = "body" => file = mem[p]
    /\ pc[p] = "clear" => LET own == mem[p].key[cmd[p].name]
                         IN own \notin listed[p] /\ keys[cmd[p].name] = listed[p] \cup {own}
    /\ pc[p] = "drop" /\ cmd[p].clear => keys[cmd[p].name] = {}
    /\ pc[p] \in {"save", "saveWrite"} => Outcome(p, mem[p])
    /\ pc[p] = "done" /\ cmd[p].kind # "all" => file # Unreadable /\ Outcome(p, file)

Local(p) == Placed(p) /\ Own(p) /\ Served(p) /\ Undisturbed(p)

IInv == TypeOK /\ \A p \in Procs : Local(p)

-----------------------------------------------------------------------------
(* Settings. *)

LEMMA NoConfTyped == NoConf \in Conf
  BY DEF NoConf, Conf

\* The flags in a configuration are those of a command line.
FlagsOf(conf, c) ==
  /\ conf.target = c.pce /\ conf.update = c.update
  /\ conf.noPrompt = c.noPrompt /\ conf.continueOnError = c.continueOnError

LEMMA FlagsTyped ==
  ASSUME NEW conf \in Conf, NEW c \in Cmd
  PROVE  /\ Flags(conf, c) \in Conf
         /\ Flags(conf, c).key = conf.key
         /\ Flags(conf, c).default = conf.default
         /\ Flags(conf, c).always = conf.always
         /\ FlagsOf(Flags(conf, c), c)
  BY DEF Conf, Cmd, Flags, FlagsOf

LEMMA AddedTyped ==
  ASSUME NEW conf \in Conf, NEW n \in Names, NEW k \in Keys \cup {Blank, Given}
  PROVE  /\ Added(conf, n, k) \in Conf
         /\ Added(conf, n, k).key = [conf.key EXCEPT ![n] = k]
         /\ Added(conf, n, k).default = IF conf.default = None THEN n ELSE conf.default
         /\ Added(conf, n, k).always = conf.always
         /\ \A c : FlagsOf(conf, c) => FlagsOf(Added(conf, n, k), c)
  BY DEF Conf, Added, FlagsOf

Without(conf, n) == [conf EXCEPT !.key[n] = None]

LEMMA WithoutTyped ==
  ASSUME NEW conf \in Conf, NEW n \in Names
  PROVE  /\ Without(conf, n) \in Conf
         /\ Without(conf, n).key = [conf.key EXCEPT ![n] = None]
         /\ Without(conf, n).default = conf.default
         /\ Without(conf, n).always = conf.always
         /\ \A c : FlagsOf(conf, c) => FlagsOf(Without(conf, n), c)
  BY DEF Conf, Without, FlagsOf

LEMMA DefaultTyped ==
  ASSUME NEW conf \in Conf, NEW n \in Names
  PROVE  /\ [conf EXCEPT !.default = n] \in Conf
         /\ [conf EXCEPT !.default = n].key = conf.key
         /\ [conf EXCEPT !.default = n].default = n
         /\ [conf EXCEPT !.default = n].always = conf.always
         /\ \A c : FlagsOf(conf, c) => FlagsOf([conf EXCEPT !.default = n], c)
         /\ [conf EXCEPT !.always = TRUE] \in Conf
         /\ [conf EXCEPT !.always = TRUE].key = conf.key
         /\ [conf EXCEPT !.always = TRUE].default = conf.default
         /\ [conf EXCEPT !.always = TRUE].always = TRUE
         /\ \A c : FlagsOf(conf, c) => FlagsOf([conf EXCEPT !.always = TRUE], c)
  BY DEF Conf, FlagsOf

-----------------------------------------------------------------------------
(* What a step leaves alone. *)

\* A step is not one of q: if it changes the file or the keys q is not
\* undisturbed any more.
Same(q) ==
  /\ pc'[q] = pc[q] /\ cmd'[q] = cmd[q] /\ mem'[q] = mem[q]
  /\ read'[q] = read[q] /\ had'[q] = had[q]
  /\ listed'[q] = listed[q] /\ todo'[q] = todo[q] /\ code'[q] = code[q]
  /\ acted'[q] = acted[q] /\ wrote'[q] = wrote[q] /\ served'[q] = served[q]
  /\ parent'[q] \in {parent[q], None}
  /\ alone'[q] => alone[q] /\ file' = file /\ keys' = keys

Frame(p) == \A q \in Procs \ {p} : Same(q)

LEMMA OthersKeep ==
  ASSUME NEW q \in Procs, Same(q), Local(q)
  PROVE  Local(q)'
<1>1. /\ pc'[q] = pc[q] /\ cmd'[q] = cmd[q] /\ mem'[q] = mem[q]
      /\ read'[q] = read[q] /\ had'[q] = had[q]
      /\ listed'[q] = listed[q] /\ todo'[q] = todo[q] /\ code'[q] = code[q]
      /\ acted'[q] = acted[q] /\ wrote'[q] = wrote[q] /\ served'[q] = served[q]
      /\ parent'[q] \in {parent[q], None}
      /\ alone'[q] => alone[q] /\ file' = file /\ keys' = keys
  BY DEF Same
<1>2. Placed(q)'
  BY <1>1 DEF Local, Placed
<1>3. Own(q)'
  BY <1>1 DEF Local, Own
<1>4. Served(q)'
  BY <1>1 DEF Local, Served, Configured
<1>5. Undisturbed(q)'
  <2> SUFFICES ASSUME code'[q] = "ok", alone'[q]
               PROVE  Undisturbed(q)'
    BY DEF Undisturbed
  <2>1. Undisturbed(q) /\ code[q] = "ok" /\ alone[q] /\ file' = file /\ keys' = keys
    BY <1>1 DEF Local
  <2>2. \A conf : Outcome(q, conf)' = Outcome(q, conf)
    BY <1>1, <2>1 DEF Outcome, Configured
  <2> QED
    BY <1>1, <2>1, <2>2 DEF Undisturbed
<1> QED
  BY <1>2, <1>3, <1>4, <1>5 DEF Local

-----------------------------------------------------------------------------
(* Types. *)

LEMMA InitInv == Init => IInv
<1> SUFFICES ASSUME Init PROVE IInv
  OBVIOUS
<1>1. nkeys \in 0..MaxKeys /\ keys \in [Names -> SUBSET (1..nkeys)]
  <2> DEFINE U == UNION {InitKeys[n] : n \in Names}
  <2>1. PICK k \in 0..MaxKeys : U = 1..k
    BY ConfigAssumption
  <2>2. \A n \in Names : InitKeys[n] \subseteq U
    OBVIOUS
  <2>3. nkeys = Cardinality(U)
    BY Zenon DEF Init, U
  <2> HIDE DEF U
  <2>4. k \in Nat /\ nkeys = k
    BY <2>1, <2>3, ConfigAssumption, FS_Interval
  <2> QED
    BY <2>1, <2>2, <2>4, ConfigAssumption DEF Init
<1>2. Idle \in Cmd
  BY ConfigAssumption DEF Idle, Cmd, Kinds
<1>3. TypeOK
  <2>1. wrote \in [Procs -> BOOLEAN] /\ alone \in [Procs -> BOOLEAN]
    BY Zenon DEF Init
  <2>2. mem \in [Procs -> Conf] /\ read \in [Procs -> Conf]
    BY NoConfTyped DEF Init
  <2>3. cmd \in [Procs -> Cmd]
    BY <1>2 DEF Init
  <2>4. file \in Conf /\ had \in [Procs -> [Names -> SUBSET Keys]]
    BY ConfigAssumption DEF Init
  <2>5. runs \in 0..MaxRuns /\ faults \in 0..MaxFaults
    BY ConfigAssumption DEF Init
  <2>6. \A q \in Procs : parent[q] = None
    BY DEF Init
  <2> QED
    BY <1>1, <2>1, <2>2, <2>3, <2>4, <2>5, <2>6 DEF Init, TypeOK, Labels
<1>4. ASSUME NEW p \in Procs PROVE Local(p)
  <2>1. cmd[p].kind = "run" /\ pc[p] = "off" /\ code[p] = "ok" /\ acted[p] = None
    BY DEF Init, Idle
  <2>2. ~alone[p]
    BY Zenon DEF Init
  <2> QED
    BY <2>1, <2>2 DEF Local, Placed, Own, Served, Undisturbed
<1> QED
  BY <1>3, <1>4 DEF IInv

\* Children and what is still to be done.
Family ==
  \A q \in Procs : parent[q] # None =>
    /\ pc[parent[q]] = "wait"
    /\ cmd[q].pce \in todo[parent[q]]
    /\ \A r \in Procs \ {q} : parent[r] # parent[q]

Types ==
  /\ file \in Conf \cup {Unreadable}
  /\ keys \in [Names -> SUBSET (1..nkeys)]
  /\ pc \in [Procs -> Labels]
  /\ cmd \in [Procs -> Cmd]
  /\ mem \in [Procs -> Conf] /\ read \in [Procs -> Conf]
  /\ had \in [Procs -> [Names -> SUBSET Keys]]
  /\ listed \in [Procs -> SUBSET Keys]
  /\ todo \in [Procs -> SUBSET Names] /\ served \in [Procs -> SUBSET Names]
  /\ parent \in [Procs -> Procs \cup {None}]
  /\ acted \in [Procs -> Names \cup {None}]
  /\ code \in [Procs -> {"ok", "error", "failed"}]
  /\ alone \in [Procs -> BOOLEAN] /\ wrote \in [Procs -> BOOLEAN]
  /\ nkeys \in 0..MaxKeys /\ runs \in 0..MaxRuns /\ faults \in 0..MaxFaults

LEMMA TypeParts == TypeOK <=> Types /\ Family
  BY DEF TypeOK, Types, Family

LEMMA TypePartsNext == TypeOK' <=> Types' /\ Family'
  BY DEF TypeOK, Types, Family

LEMMA KeysTyped ==
  ASSUME Types
  PROVE  keys \in [Names -> SUBSET Keys]
<1>1. nkeys \in 0..MaxKeys /\ keys \in [Names -> SUBSET (1..nkeys)]
  BY DEF Types
<1>2. 1..nkeys \subseteq Keys
  BY <1>1, ConfigAssumption DEF Keys
<1> QED
  BY <1>1, <1>2

\* A process that does not wait for a child may go on as it likes.
LEMMA FamilyKept ==
  ASSUME Types, Family, NEW p \in Procs, pc[p] # "wait",
         \A q \in Procs \ {p} : pc'[q] = pc[q],
         UNCHANGED <<cmd, todo, parent>>
  PROVE  Family'
  BY DEF Types, Family

LEMMA LogErrorGoes ==
  ASSUME Types, NEW p \in Procs, NEW l \in Labels, LogError(p, l)
  PROVE  \E m \in {l, "done"}, c \in {"error", "failed"} :
           /\ pc' = [pc EXCEPT ![p] = m]
           /\ code' = [code EXCEPT ![p] = c]
           /\ c = "failed" => m = "done"
<1>1. CASE Fatal(mem[p])
  <2>1. pc' = [pc EXCEPT ![p] = "done"] /\ code' = [code EXCEPT ![p] = "failed"]
    BY <1>1 DEF LogError, Exit, Goto, Types
  <2> QED
    BY <2>1
<1>2. CASE ~Fatal(mem[p])
  BY <1>2 DEF LogError, Goto
<1> QED
  BY <1>1, <1>2

-----------------------------------------------------------------------------
(* The steps of one process. *)

\* What a step of p leaves behind.
Good(p) == Types' /\ Family' /\ Frame(p) /\ Local(p)'

\* A step of p that changes nothing of the others.
Steps(p) ==
  /\ Types'
  /\ pc[p] # "wait"
  /\ UNCHANGED <<cmd, todo, served, parent, read, had>>
  /\ \A q \in Procs \ {p} :
       /\ pc'[q] = pc[q] /\ mem'[q] = mem[q] /\ listed'[q] = listed[q]
       /\ code'[q] = code[q] /\ acted'[q] = acted[q] /\ wrote'[q] = wrote[q]
  /\ Disturb(p) \/ UNCHANGED <<file, keys, alone>>

LEMMA StepsKeep ==
  ASSUME Types, Family, NEW p \in Procs, Steps(p), Local(p)'
  PROVE  Good(p)
<1>1. Family'
  BY FamilyKept DEF Steps
<1>2. Frame(p)
  BY DEF Steps, Frame, Same, Disturb, Types
<1> QED
  BY <1>1, <1>2 DEF Good, Steps

LEMMA PreRunKeeps ==
  ASSUME Types, Family, NEW p \in Procs, Local(p), PersistentPreRun(p)
  PROVE  Good(p)
<1> DEFINE conf == Flags(mem[p], cmd[p])
<1>1. /\ pc[p] = "pre" /\ pc' = [pc EXCEPT ![p] = "preWrite"]
      /\ mem' = [mem EXCEPT ![p] = conf] /\ file' = Unreadable
      /\ UNCHANGED <<keys, cmd, listed, todo, code, acted, wrote, served, nkeys, faults, runs,
                     read, had, parent>>
      /\ Disturb(p)
  BY DEF PersistentPreRun, At, Goto
<1>2. conf \in Conf
  BY FlagsTyped DEF Types
<1>3. Steps(p)
  BY <1>1, <1>2 DEF Steps, Types, Labels, Disturb
<1>4. pc'[p] = "preWrite" /\ mem'[p] = Flags(read[p], cmd[p])
  BY <1>1 DEF Types, Local, Own
<1>5. alone'[p] => alone[p]
  BY <1>1 DEF Types, Disturb
<1>6. Local(p)'
  BY <1>1, <1>4, <1>5 DEF Local, Placed, Own, Served, Undisturbed, Configured
<1> QED
  BY <1>3, <1>6, StepsKeep

LEMMA WritePreRunKeeps ==
  ASSUME Types, Family, NEW p \in Procs, Local(p), WritePreRun(p)
  PROVE  Good(p)
<1>1. /\ pc[p] = "preWrite" /\ pc' = [pc EXCEPT ![p] = "body"]
      /\ file' = mem[p] \/ (file # Unreadable /\ file' = Unreadable)
      /\ UNCHANGED <<keys, cmd, mem, listed, todo, code, acted, wrote, served, nkeys, faults,
                     runs, read, had, parent>>
      /\ Disturb(p)
  BY DEF WritePreRun, Write, At, Goto
<1>2. Steps(p)
  BY <1>1 DEF Steps, Types, Labels, Disturb
<1>3. pc'[p] = "body" /\ (alone'[p] => alone[p])
  BY <1>1 DEF Types, Disturb
<1>4. Undisturbed(p)'
  BY <1>1, <1>3 DEF Local, Undisturbed
<1>5. Local(p)'
  BY <1>1, <1>3, <1>4 DEF Local, Placed, Own, Served, Configured
<1> QED
  BY <1>2, <1>5, StepsKeep

\* Nothing but the keys and what p is and has read counts for what it promises.
LEMMA SamePromise ==
  ASSUME NEW p \in Procs, cmd'[p] = cmd[p], read'[p] = read[p], had'[p] = had[p],
         UNCHANGED keys, NEW conf
  PROVE  Outcome(p, conf)' = Outcome(p, conf)
  BY DEF Outcome, Configured

LEMMA SaveKeeps ==
  ASSUME Types, Family, NEW p \in Procs, Local(p), Save(p)
  PROVE  Good(p)
<1>1. /\ pc[p] = "save" /\ pc' = [pc EXCEPT ![p] = "saveWrite"]
      /\ file' = Unreadable
      /\ UNCHANGED <<keys, cmd, mem, listed, todo, code, acted, wrote, served, nkeys, faults,
                     runs, read, had, parent>>
      /\ Disturb(p)
  BY DEF Save, At, Goto
<1>2. Steps(p)
  BY <1>1 DEF Steps, Types, Labels, Disturb
<1>3. pc'[p] = "saveWrite" /\ (alone'[p] => alone[p])
  BY <1>1 DEF Types, Disturb
<1>4. Outcome(p, mem[p])' = Outcome(p, mem[p])
  BY <1>1, SamePromise
<1>5. Undisturbed(p)'
  BY <1>1, <1>3, <1>4 DEF Local, Undisturbed
<1>6. Local(p)'
  BY <1>1, <1>3, <1>5 DEF Local, Placed, Own, Served, Configured
<1> QED
  BY <1>2, <1>6, StepsKeep

LEMMA WriteConfigKeeps ==
  ASSUME Types, Family, NEW p \in Procs, Local(p), WriteConfig(p)
  PROVE  Good(p)
<1>1. /\ pc[p] = "saveWrite" /\ pc' = [pc EXCEPT ![p] = "done"]
      /\ file' = mem[p] \/ (file # Unreadable /\ file' = Unreadable)
      /\ UNCHANGED <<keys, cmd, mem, listed, todo, code, acted, wrote, served, nkeys, faults,
                     runs, read, had, parent>>
      /\ Disturb(p)
  BY DEF WriteConfig, Write, At, Goto
<1>2. Steps(p)
  BY <1>1 DEF Steps, Types, Labels, Disturb
<1>3. pc'[p] = "done" /\ (alone'[p] => alone[p]) /\ cmd[p].kind # "all"
  BY <1>1 DEF Types, Disturb, Local, Placed
<1>4. \A conf : Outcome(p, conf)' = Outcome(p, conf)
  BY <1>1, SamePromise
<1>5. mem[p] # Unreadable
  BY ConfigAssumption DEF Types
<1>6. Undisturbed(p)'
  BY <1>1, <1>3, <1>4, <1>5 DEF Local, Undisturbed
<1>7. Local(p)'
  BY <1>1, <1>3, <1>6 DEF Local, Placed, Own, Served, Configured
<1> QED
  BY <1>2, <1>7, StepsKeep

LEMMA ConfFields ==
  ASSUME NEW conf \in Conf
  PROVE  /\ conf.key \in [Names -> Keys \cup {None, Blank, Given}]
         /\ conf.default \in Names \cup {None} /\ conf.target \in Names \cup {None}
  BY DEF Conf

\* In the body of a command the settings are those of the file, apart from flags.
LEMMA BodySettings ==
  ASSUME Types, NEW p \in Procs, Local(p), pc[p] \in {"body", "clear", "drop"}
  PROVE  /\ mem[p] \in Conf
         /\ mem[p].key = read[p].key /\ mem[p].default = read[p].default
         /\ mem[p].always = read[p].always /\ FlagsOf(mem[p], cmd[p])
  BY FlagsTyped DEF Types, Local, Own

LEMMA NameKnown ==
  ASSUME NEW p \in Procs, Local(p), cmd[p].kind \notin {"run", "all"}
  PROVE  cmd[p].name \in Names
  BY DEF Local, Placed

LEMMA ActKeeps ==
  ASSUME Types, Family, NEW p \in Procs, Local(p), Act(p)
  PROVE  Good(p)
<1> DEFINE c == IF code[p] = "error" THEN "error" ELSE "ok"
<1>1. /\ pc[p] = "body" /\ pc' = [pc EXCEPT ![p] = "done"] /\ cmd[p].kind = "run"
      /\ acted' = [acted EXCEPT ![p] = GetTargetPCE(p)]
      /\ code' = [code EXCEPT ![p] = c]
      /\ UNCHANGED <<shared, cmd, mem, listed, todo, served, alone, nkeys, faults, runs, read, had,
                     parent>>
  BY DEF Act, Body, At, Exit, Goto
<1>2. \E yes \in IF cmd[p].stdin THEN BOOLEAN ELSE {FALSE} :
        wrote' = [wrote EXCEPT ![p] = mem[p].update /\ (mem[p].noPrompt \/ yes)]
  BY DEF Act
<1>3. GetTargetPCE(p) \in Names \cup {None}
  BY ConfFields DEF GetTargetPCE, Types
<1>7. /\ mem[p].key = read[p].key /\ mem[p].default = read[p].default
      /\ mem[p].always = read[p].always /\ FlagsOf(mem[p], cmd[p])
  BY <1>1, BodySettings
<1>8. /\ mem[p].target = cmd[p].pce
      /\ mem[p].update = cmd[p].update /\ mem[p].noPrompt = cmd[p].noPrompt
  BY <1>7 DEF FlagsOf
<1>4. /\ wrote' \in [Procs -> BOOLEAN]
      /\ \A q \in Procs \ {p} : wrote'[q] = wrote[q]
      /\ wrote'[p] => cmd[p].update /\ (cmd[p].noPrompt \/ cmd[p].stdin)
  <2> PICK yes \in IF cmd[p].stdin THEN BOOLEAN ELSE {FALSE} :
             wrote' = [wrote EXCEPT ![p] = cmd[p].update /\ (cmd[p].noPrompt \/ yes)]
    BY <1>2, <1>8
  <2>1. wrote \in [Procs -> BOOLEAN] /\ cmd[p].update \in BOOLEAN /\ cmd[p].noPrompt \in BOOLEAN
    BY DEF Types, Cmd
  <2>2. yes \in BOOLEAN /\ (yes => cmd[p].stdin)
    BY Zenon
  <2> QED
    BY <2>1, <2>2
<1>5. Steps(p)
  BY <1>1, <1>3, <1>4 DEF Steps, Types, Labels, shared
<1>6. /\ pc'[p] = "done" /\ acted'[p] = GetTargetPCE(p)
      /\ code'[p] = "ok" => code[p] = "ok"
  BY <1>1 DEF Types, Local, Placed
<1>9. Own(p)'
  BY <1>1, <1>4, <1>6, <1>7, <1>8 DEF Own, GetTargetPCE
<1>10. Undisturbed(p)'
  <2> SUFFICES ASSUME code'[p] = "ok", alone'[p]
               PROVE  file' # Unreadable /\ Outcome(p, file)'
    BY <1>6 DEF Undisturbed
  <2>1. file' = mem[p]
    BY <1>1, <1>6 DEF Local, Undisturbed, shared
  <2>2. file' # Unreadable
    BY <2>1, ConfigAssumption DEF Types
  <2>3. UNCHANGED <<file, keys, cmd, read, had>> /\ file = mem[p] /\ keys = had[p]
    BY <1>1, <1>6, <2>1 DEF Local, Undisturbed, shared
  <2>4. Outcome(p, file)
    BY <1>1, <1>7, <2>3 DEF Outcome, FlagsOf
  <2>5. Outcome(p, file)'
    BY <2>3, <2>4 DEF Outcome, Configured
  <2> QED
    BY <2>2, <2>5
<1>11. Local(p)'
  BY <1>1, <1>6, <1>9, <1>10 DEF Local, Placed, Served, Configured
<1> QED
  BY <1>5, <1>11, StepsKeep

\* After an error nothing is promised any more.
LEMMA ErrorKeeps ==
  ASSUME Types, NEW p \in Procs, Local(p), pc[p] \notin {"pre", "spawn", "wait"},
         cmd[p].kind # "all", UNCHANGED <<cmd, read, parent, acted, wrote>>,
         NEW l \in Labels, NEW c \in {"error", "failed"},
         pc' = [pc EXCEPT ![p] = l], code' = [code EXCEPT ![p] = c],
         l \notin {"pre", "spawn", "wait"}, c = "failed" => l = "done",
         l = "clear" => cmd[p].kind = "remove" /\ cmd[p].clear,
         l = "drop" => cmd[p].kind = "remove" /\ cmd[p].clear,
         l = "save" => cmd[p].kind \notin {"run", "all"}, l # "saveWrite",
         l \in {"preWrite", "body", "clear", "drop"} => mem'[p] = Flags(read[p], cmd[p])
  PROVE  Local(p)'
<1>1. pc'[p] = l /\ code'[p] = c
  BY DEF Types
<1> QED
  BY <1>1 DEF Local, Placed, Own, Served, Undisturbed

LEMMA ActFailsKeeps ==
  ASSUME Types, Family, NEW p \in Procs, Local(p), ActFails(p)
  PROVE  Good(p)
<1>1. /\ pc[p] = "body" /\ cmd[p].kind = "run" /\ LogError(p, "done")
      /\ UNCHANGED <<shared, cmd, mem, listed, todo, acted, wrote, served, alone, nkeys, runs,
                     read, had, parent>>
  BY DEF ActFails, Body, At
<1>2. faults' \in 0..MaxFaults
  BY ConfigAssumption DEF ActFails, Fault, Types
<1>3. "done" \in Labels
  BY DEF Labels
<1>4. PICK m \in {"done"}, c \in {"error", "failed"} :
        pc' = [pc EXCEPT ![p] = m] /\ code' = [code EXCEPT ![p] = c]
  BY <1>1, <1>3, LogErrorGoes
<1>5. Steps(p)
  BY <1>1, <1>2, <1>4 DEF Steps, Types, Labels, shared
<1>6. Local(p)'
  BY <1>1, <1>3, <1>4, ErrorKeeps
<1> QED
  BY <1>5, <1>6, StepsKeep

LEMMA AddPCEKeeps ==
  ASSUME Types, Family, NEW p \in Procs, Local(p), AddPCE(p)
  PROVE  Good(p)
<1> DEFINE n == cmd[p].name
<1>1. /\ pc[p] = "body" /\ pc' = [pc EXCEPT ![p] = "save"] /\ cmd[p].kind = "add"
      /\ UNCHANGED <<file, cmd, listed, todo, code, acted, wrote, served, faults, runs, read,
                     had, parent>>
  BY DEF AddPCE, Body, At, Goto
<1>2. n \in Names
  BY <1>1, NameKnown
<1>3. /\ mem[p] \in Conf /\ mem[p].key = read[p].key /\ mem[p].default = read[p].default
      /\ mem[p].always = read[p].always /\ FlagsOf(mem[p], cmd[p])
  BY <1>1, BodySettings
<1>4. PICK k \in Keys \cup {Given} :
        /\ mem' = [mem EXCEPT ![p] = Added(@, n, k)]
        /\ nkeys' \in 0..MaxKeys /\ keys' \in [Names -> SUBSET (1..nkeys')]
        /\ Disturb(p) \/ UNCHANGED <<keys, alone>>
        /\ \A m \in Names \ {n} : keys'[m] = keys[m]
        /\ cmd[p].apiKey => k = Given /\ keys'[n] = keys[n]
        /\ ~cmd[p].apiKey => k \notin keys[n] /\ keys'[n] = keys[n] \cup {k}
  <2>1. CASE cmd[p].apiKey
    BY <1>1, <2>1 DEF AddPCE, Types
  <2>2. CASE ~cmd[p].apiKey
    <3>1. /\ nkeys < MaxKeys /\ nkeys' = nkeys + 1
          /\ keys' = [keys EXCEPT ![n] = @ \cup {nkeys'}]
          /\ mem' = [mem EXCEPT ![p] = Added(@, n, nkeys')]
          /\ Disturb(p)
      BY <1>1, <2>2 DEF AddPCE
    <3>2. nkeys' \in 0..MaxKeys /\ nkeys' \in Keys /\ nkeys \in Nat
      BY <3>1, ConfigAssumption DEF Types, Keys
    <3>3. \A m \in Names : keys[m] \subseteq 1..nkeys
      BY DEF Types
    <3>4. nkeys' \notin keys[n]
      BY <1>2, <3>1, <3>2, <3>3
    <3>5. 1..nkeys \subseteq 1..nkeys' /\ nkeys' \in 1..nkeys'
      BY <3>1, <3>2
    <3>6. keys' \in [Names -> SUBSET (1..nkeys')]
      BY <1>2, <3>1, <3>3, <3>5 DEF Types
    <3>7. keys'[n] = keys[n] \cup {nkeys'} /\ \A m \in Names \ {n} : keys'[m] = keys[m]
      BY <1>2, <3>1 DEF Types
    <3> QED
      BY <2>2, <3>1, <3>2, <3>4, <3>6, <3>7
  <2> QED
    BY <2>1, <2>2
<1> DEFINE conf == Added(mem[p], n, k)
<1>5. /\ conf \in Conf /\ conf.key = [mem[p].key EXCEPT ![n] = k]
      /\ conf.default = IF mem[p].default = None THEN n ELSE mem[p].default
      /\ conf.always = read[p].always /\ FlagsOf(conf, cmd[p])
  <2> HIDE DEF n
  <2>1. k \in Keys \cup {Blank, Given} /\ mem[p] \in Conf
    BY <1>3
  <2> QED
    BY <1>2, <1>3, <2>1, AddedTyped
<1>6. /\ mem' = [mem EXCEPT ![p] = conf] /\ mem'[p] = conf /\ pc'[p] = "save"
      /\ alone'[p] => alone[p]
  BY <1>1, <1>4 DEF Types, Disturb
<1>7. mem[p].key \in [Names -> Keys \cup {None, Blank, Given}]
  BY <1>3, ConfFields
<1> HIDE DEF conf, n
<1>8. Steps(p)
  <2>1. Disturb(p) => alone' \in [Procs -> BOOLEAN]
    BY DEF Disturb, Types
  <2>2. alone' \in [Procs -> BOOLEAN]
    BY <1>4, <2>1 DEF Types
  <2>3. Types'
    BY <1>1, <1>4, <1>5, <1>6, <2>2 DEF Types, Labels
  <2>4. Disturb(p) \/ UNCHANGED <<file, keys, alone>>
    BY <1>1, <1>4
  <2> QED
    BY <1>1, <1>6, <2>3, <2>4 DEF Steps, Types
<1>9. ASSUME code[p] = "ok", alone[p] PROVE Outcome(p, mem[p])'
  <2>1. conf.key[n] = k /\ \A m \in Names \ {n} : conf.key[m] = read[p].key[m]
    BY <1>2, <1>3, <1>5, <1>7
  <2>2. conf.default = IF read[p].default = None THEN n ELSE read[p].default
    BY <1>3, <1>5
  <2>3. keys = had[p]
    BY <1>1, <1>9 DEF Local, Undisturbed
  <2>4. /\ \A m \in Names \ {n} : keys'[m] = had[p][m]
        /\ cmd[p].apiKey => k = Given /\ keys'[n] = had[p][n]
        /\ ~cmd[p].apiKey => k \notin had[p][n] /\ keys'[n] = had[p][n] \cup {k}
    BY <1>4, <2>3
  <2>5. UNCHANGED <<cmd, read, had>> /\ cmd[p].kind = "add"
    BY <1>1
  <2>6. FlagsOf(conf, cmd[p]) /\ conf.always = read[p].always
    BY <1>5
  <2> QED
    BY <1>6, <2>1, <2>2, <2>4, <2>5, <2>6 DEF Outcome, FlagsOf, n
<1>10. Local(p)'
  BY <1>1, <1>6, <1>9 DEF Local, Placed, Own, Served, Undisturbed, Configured, n
<1> QED
  BY <1>8, <1>10, StepsKeep

LEMMA AddPCEFailsKeeps ==
  ASSUME Types, Family, NEW p \in Procs, Local(p), AddPCEFails(p)
  PROVE  Good(p)
<1> DEFINE k == IF cmd[p].apiKey THEN Given ELSE Blank
           conf == Added(mem[p], cmd[p].name, k)
<1>1. /\ pc[p] = "body" /\ cmd[p].kind = "add" /\ LogError(p, "save")
      /\ mem' = [mem EXCEPT ![p] = conf]
      /\ UNCHANGED <<shared, cmd, listed, todo, acted, wrote, served, alone, nkeys, runs,
                     read, had, parent>>
  BY DEF AddPCEFails, Body, At
<1>2. faults' \in 0..MaxFaults
  BY ConfigAssumption DEF AddPCEFails, Fault, Types
<1>3. "save" \in Labels /\ "done" \in Labels
  BY DEF Labels
<1>4. PICK m \in {"save", "done"}, c \in {"error", "failed"} :
        /\ pc' = [pc EXCEPT ![p] = m] /\ code' = [code EXCEPT ![p] = c]
        /\ c = "failed" => m = "done"
  BY <1>1, <1>3, LogErrorGoes
<1>5. conf \in Conf
  BY <1>1, NameKnown, BodySettings, AddedTyped
<1> HIDE DEF conf
<1>6. Steps(p)
  BY <1>1, <1>2, <1>4, <1>5 DEF Steps, Types, Labels, shared
<1>7. Local(p)'
  BY <1>1, <1>3, <1>4, ErrorKeeps
<1> QED
  BY <1>6, <1>7, StepsKeep

LEMMA GetAllAPIKeysKeeps ==
  ASSUME Types, Family, NEW p \in Procs, Local(p), GetAllAPIKeys(p)
  PROVE  Good(p)
<1> DEFINE n == cmd[p].name
<1>1. /\ pc[p] = "body" /\ pc' = [pc EXCEPT ![p] = "clear"]
      /\ cmd[p].kind = "remove" /\ cmd[p].clear /\ mem[p].key[n] \in keys[n]
      /\ listed' = [listed EXCEPT ![p] = keys[n] \ {mem[p].key[n]}]
      /\ UNCHANGED <<shared, cmd, mem, todo, code, acted, wrote, served, alone, nkeys, faults,
                     runs, read, had, parent>>
  BY DEF GetAllAPIKeys, Body, At, Goto
<1>2. n \in Names
  BY <1>1, NameKnown
<1> HIDE DEF n
<1>3. keys[n] \subseteq Keys
  BY <1>2, KeysTyped
<1>4. Steps(p)
  BY <1>1, <1>3 DEF Steps, Types, Labels, shared
<1>5. pc'[p] = "clear" /\ listed'[p] = keys[n] \ {mem[p].key[n]}
  BY <1>1 DEF Types
<1>6. keys[n] = listed'[p] \cup {mem[p].key[n]} /\ mem[p].key[n] \notin listed'[p]
  BY <1>1, <1>5
<1>7. Local(p)'
  BY <1>1, <1>5, <1>6 DEF Local, Placed, Own, Served, Undisturbed, Configured, shared, n
<1> QED
  BY <1>4, <1>7, StepsKeep

LEMMA GetAllAPIKeysFailsKeeps ==
  ASSUME Types, Family, NEW p \in Procs, Local(p), GetAllAPIKeysFails(p)
  PROVE  Good(p)
<1>1. /\ pc[p] = "body" /\ cmd[p].kind = "remove" /\ cmd[p].clear /\ LogError(p, "drop")
      /\ UNCHANGED <<shared, cmd, mem, listed, todo, acted, wrote, served, alone, nkeys, runs,
                     read, had, parent>>
  BY DEF GetAllAPIKeysFails, Body, At
<1>2. faults' \in 0..MaxFaults
  BY ConfigAssumption DEF GetAllAPIKeysFails, Fault, Types
<1>3. "drop" \in Labels /\ "done" \in Labels
  BY DEF Labels
<1>4. PICK m \in {"drop", "done"}, c \in {"error", "failed"} :
        /\ pc' = [pc EXCEPT ![p] = m] /\ code' = [code EXCEPT ![p] = c]
        /\ c = "failed" => m = "done"
  BY <1>1, <1>3, LogErrorGoes
<1>5. Steps(p)
  BY <1>1, <1>2, <1>4 DEF Steps, Types, Labels, shared
<1>6. mem'[p] = Flags(read[p], cmd[p])
  BY <1>1 DEF Local, Own
<1>7. Local(p)'
  BY <1>1, <1>3, <1>4, <1>6, ErrorKeeps
<1> QED
  BY <1>5, <1>7, StepsKeep

\* The keys that are left are those still listed and, as long as it is not
\* deleted itself, the one in use.
LEMMA DeleteKeyKeeps ==
  ASSUME Types, Family, NEW p \in Procs, Local(p), DeleteKey(p)
  PROVE  Good(p)
<1> DEFINE n == cmd[p].name
           own == mem[p].key[n]
<1>1. PICK k \in Deletable(p) :
        /\ Deletes(p, k)
        /\ keys' = [keys EXCEPT ![n] = @ \ {k}]
        /\ listed' = [listed EXCEPT ![p] = @ \ {k}]
        /\ pc' = [pc EXCEPT ![p] = AfterDelete(p, k)]
  BY DEF DeleteKey, Goto
<1>2. /\ pc[p] = "clear" /\ Disturb(p)
      /\ UNCHANGED <<file, cmd, mem, todo, code, acted, wrote, served, nkeys, faults, runs,
                     read, had, parent>>
  BY DEF DeleteKey, At
<1>3. cmd[p].kind = "remove" /\ cmd[p].clear /\ n \in Names
  BY <1>2, NameKnown DEF Local, Placed
<1>4. AfterDelete(p, k) \in {"clear", "drop"}
  BY DEF AfterDelete
<1>5. Types'
  BY <1>1, <1>2, <1>3, <1>4 DEF Types, Labels, Disturb
<1>6. Steps(p)
  BY <1>1, <1>2, <1>5 DEF Steps, Types
<1>7. /\ pc'[p] = AfterDelete(p, k) /\ listed'[p] = listed[p] \ {k}
      /\ keys'[n] = keys[n] \ {k}
      /\ alone'[p] => alone[p]
  BY <1>1, <1>2, <1>3 DEF Types, Disturb
<1>8. Undisturbed(p)'
  <2> SUFFICES ASSUME code'[p] = "ok", alone'[p]
               PROVE  /\ pc'[p] = "clear" =>
                            own \notin listed'[p] /\ keys'[n] = listed'[p] \cup {own}
                      /\ pc'[p] = "drop" => keys'[n] = {}
                      /\ \A m \in Names \ {n} : keys'[m] = had[p][m]
    BY <1>2, <1>4, <1>7 DEF Undisturbed
  <2>1. keys[n] = listed[p] \cup {own} /\ own \notin listed[p]
    BY <1>2, <1>7 DEF Local, Undisturbed
  <2>4. \A m \in Names \ {n} : keys'[m] = had[p][m]
    BY <1>1, <1>2, <1>7 DEF Local, Undisturbed, Types
  <2>2. CASE k \in listed[p]
    <3>1. pc'[p] = "clear"
      BY <1>7, <2>2 DEF AfterDelete
    <3> QED
      BY <1>7, <2>1, <2>2, <2>4, <3>1
  <2>3. CASE k \notin listed[p]
    <3>1. pc'[p] = "drop" /\ listed[p] = {} /\ k = own
      BY <1>7, <2>3 DEF AfterDelete, Deletable
    <3> QED
      BY <1>7, <2>1, <2>4, <3>1
  <2> QED
    BY <2>2, <2>3
<1>9. Local(p)'
  BY <1>2, <1>3, <1>4, <1>7, <1>8 DEF Local, Placed, Own, Served, Configured
<1> QED
  BY <1>6, <1>9, StepsKeep

LEMMA DeleteKeyFailsKeeps ==
  ASSUME Types, Family, NEW p \in Procs, Local(p), DeleteKeyFails(p)
  PROVE  Good(p)
<1>1. PICK k \in Deletable(p) :
        /\ UNCHANGED faults \/ Fault
        /\ listed' = [listed EXCEPT ![p] = @ \ {k}]
        /\ LogError(p, AfterDelete(p, k))
  BY DEF DeleteKeyFails
<1>0. faults' \in 0..MaxFaults
  BY <1>1, ConfigAssumption DEF Fault, Types
<1>2. /\ pc[p] = "clear"
      /\ UNCHANGED <<shared, cmd, mem, todo, acted, wrote, served, alone, nkeys, runs, read, had,
                     parent>>
  BY DEF DeleteKeyFails, At
<1>3. cmd[p].kind = "remove" /\ cmd[p].clear
  BY <1>2 DEF Local, Placed
<1>4. AfterDelete(p, k) \in {"clear", "drop"} /\ {"clear", "drop", "done"} \subseteq Labels
  BY DEF AfterDelete, Labels
<1>5. PICK m \in {AfterDelete(p, k), "done"}, c \in {"error", "failed"} :
        /\ pc' = [pc EXCEPT ![p] = m] /\ code' = [code EXCEPT ![p] = c]
        /\ c = "failed" => m = "done"
  BY <1>1, <1>4, LogErrorGoes
<1>6. Steps(p)
  BY <1>0, <1>1, <1>2, <1>4, <1>5 DEF Steps, Types, shared
<1>7. mem'[p] = Flags(read[p], cmd[p])
  BY <1>2 DEF Local, Own
<1>8. Local(p)'
  BY <1>2, <1>3, <1>4, <1>5, <1>7, ErrorKeeps
<1> QED
  BY <1>6, <1>8, StepsKeep

LEMMA RemovePCEKeeps ==
  ASSUME Types, Family, NEW p \in Procs, Local(p), RemovePCE(p)
  PROVE  Good(p)
<1> DEFINE n == cmd[p].name
           new == Without(mem[p], n)
<1>1. /\ pc[p] = "drop" \/ (pc[p] = "body" /\ cmd[p].kind = "remove" /\ ~cmd[p].clear)
      /\ mem' = [mem EXCEPT ![p] = new] /\ pc' = [pc EXCEPT ![p] = "save"]
      /\ UNCHANGED <<shared, cmd, listed, todo, code, acted, wrote, served, alone, nkeys, faults,
                     runs, read, had, parent>>
  BY DEF RemovePCE, Body, At, Goto, Without
<1>2. cmd[p].kind = "remove" /\ n \in Names
  BY <1>1, NameKnown DEF Local, Placed
<1>3. /\ mem[p] \in Conf /\ mem[p].key = read[p].key /\ mem[p].default = read[p].default
      /\ mem[p].always = read[p].always /\ FlagsOf(mem[p], cmd[p])
  BY <1>1, BodySettings
<1>4. /\ new \in Conf /\ new.key = [mem[p].key EXCEPT ![n] = None]
      /\ new.default = mem[p].default
      /\ new.always = read[p].always /\ FlagsOf(new, cmd[p])
  BY <1>2, <1>3, WithoutTyped
<1>5. mem[p].key \in [Names -> Keys \cup {None, Blank, Given}]
  BY <1>3, ConfFields
<1> HIDE DEF new
<1>6. Steps(p)
  BY <1>1, <1>4 DEF Steps, Types, Labels, shared
<1>7. mem'[p] = new /\ pc'[p] = "save"
  BY <1>1 DEF Types
<1>8. ASSUME code[p] = "ok", alone[p] PROVE Outcome(p, mem[p])'
  <2>1. new.key[n] = None /\ \A m \in Names \ {n} : new.key[m] = read[p].key[m]
    BY <1>2, <1>3, <1>4, <1>5
  <2>2. keys[n] = IF cmd[p].clear THEN {} ELSE had[p][n]
    BY <1>1, <1>8 DEF Local, Placed, Undisturbed
  <2>3. \A m \in Names \ {n} : keys[m] = had[p][m]
    BY <1>1, <1>8 DEF Local, Undisturbed
  <2>4. UNCHANGED <<cmd, read, had, keys>> /\ new.default = read[p].default
    BY <1>1, <1>3, <1>4 DEF shared
  <2> QED
    BY <1>2, <1>4, <1>7, <2>1, <2>2, <2>3, <2>4 DEF Outcome, FlagsOf, Configured
<1>9. Local(p)'
  BY <1>1, <1>2, <1>7, <1>8 DEF Local, Placed, Own, Served, Undisturbed, Configured
<1> QED
  BY <1>6, <1>9, StepsKeep

LEMMA SetDefaultKeeps ==
  ASSUME Types, Family, NEW p \in Procs, Local(p), SetDefault(p)
  PROVE  Good(p)
<1> DEFINE n == cmd[p].name
           new == [mem[p] EXCEPT !.default = n]
<1>1. /\ pc[p] = "body" /\ cmd[p].kind = "default"
      /\ mem' = [mem EXCEPT ![p] = new]
      /\ UNCHANGED <<shared, cmd, listed, todo, acted, wrote, served, alone, nkeys, faults, runs,
                     read, had, parent>>
  BY DEF SetDefault, Body, At
<1>2. n \in Names
  BY <1>1, NameKnown
<1>3. /\ mem[p] \in Conf /\ mem[p].key = read[p].key
      /\ mem[p].always = read[p].always /\ FlagsOf(mem[p], cmd[p])
  BY <1>1, BodySettings
<1>4. /\ new \in Conf /\ new.key = mem[p].key /\ new.default = n
      /\ new.always = read[p].always /\ FlagsOf(new, cmd[p])
  <2> HIDE DEF n
  <2>1. FlagsOf(mem[p], cmd[p]) => FlagsOf([mem[p] EXCEPT !.default = n], cmd[p])
    BY <1>2, <1>3, DefaultTyped
  <2> QED
    BY <1>2, <1>3, <2>1, DefaultTyped
<1> HIDE DEF new
<1>5. mem'[p] = new
  BY <1>1 DEF Types
<1>6. CASE n \in Configured(mem[p])
  <2>1. pc' = [pc EXCEPT ![p] = "save"] /\ code' = code
    BY <1>6 DEF SetDefault, Goto
  <2>2. Steps(p)
    BY <1>1, <1>4, <2>1 DEF Steps, Types, Labels, shared
  <2>3. pc'[p] = "save"
    BY <2>1 DEF Types
  <2>4. ASSUME code[p] = "ok", alone[p] PROVE Outcome(p, mem[p])'
    <3>1. keys = had[p] /\ UNCHANGED keys
      BY <1>1, <2>4 DEF Local, Undisturbed, shared
    <3> QED
      BY <1>1, <1>3, <1>4, <1>5, <1>6, <3>1 DEF Outcome, FlagsOf, Configured
  <2>5. Local(p)'
    BY <1>1, <1>5, <2>1, <2>3, <2>4 DEF Local, Placed, Own, Served, Undisturbed, Configured
  <2> QED
    BY <2>2, <2>5, StepsKeep
<1>7. CASE n \notin Configured(mem[p])
  <2>1. LogError(p, "save") /\ {"save", "done"} \subseteq Labels
    BY <1>7 DEF SetDefault, Labels
  <2>2. PICK m \in {"save", "done"}, c \in {"error", "failed"} :
          /\ pc' = [pc EXCEPT ![p] = m] /\ code' = [code EXCEPT ![p] = c]
          /\ c = "failed" => m = "done"
    BY <2>1, LogErrorGoes
  <2>3. Steps(p)
    BY <1>1, <1>4, <2>1, <2>2 DEF Steps, Types, shared
  <2>4. Local(p)'
    BY <1>1, <2>1, <2>2, ErrorKeeps
  <2> QED
    BY <2>3, <2>4, StepsKeep
<1> QED
  BY <1>6, <1>7

LEMMA SetAlwaysKeeps ==
  ASSUME Types, Family, NEW p \in Procs, Local(p), SetAlways(p)
  PROVE  Good(p)
<1> DEFINE new == [mem[p] EXCEPT !.always = TRUE]
<1>1. /\ pc[p] = "body" /\ cmd[p].kind = "always"
      /\ mem' = [mem EXCEPT ![p] = new] /\ pc' = [pc EXCEPT ![p] = "save"]
      /\ UNCHANGED <<shared, cmd, listed, todo, code, acted, wrote, served, alone, nkeys, faults,
                     runs, read, had, parent>>
  BY DEF SetAlways, Body, At, Goto
<1>2. cmd[p].name \in Names
  BY <1>1, NameKnown
<1>3. /\ mem[p] \in Conf /\ mem[p].key = read[p].key /\ mem[p].default = read[p].default
      /\ mem[p].always = read[p].always /\ FlagsOf(mem[p], cmd[p])
  BY <1>1, BodySettings
<1>4. /\ new \in Conf /\ new.key = mem[p].key /\ new.default = mem[p].default
      /\ new.always = TRUE /\ FlagsOf(new, cmd[p])
  BY <1>2, <1>3, DefaultTyped
<1> HIDE DEF new
<1>5. Steps(p)
  BY <1>1, <1>4 DEF Steps, Types, Labels, shared
<1>6. mem'[p] = new /\ pc'[p] = "save"
  BY <1>1 DEF Types
<1>7. ASSUME code[p] = "ok", alone[p] PROVE Outcome(p, mem[p])'
  <2>1. keys = had[p] /\ UNCHANGED keys
    BY <1>1, <1>7 DEF Local, Undisturbed, shared
  <2> QED
    BY <1>1, <1>3, <1>4, <1>6, <2>1 DEF Outcome, FlagsOf
<1>8. Local(p)'
  BY <1>1, <1>6, <1>7 DEF Local, Placed, Own, Served, Undisturbed, Configured
<1> QED
  BY <1>5, <1>8, StepsKeep

LEMMA AllDoneKeeps ==
  ASSUME Types, Family, NEW p \in Procs, Local(p), AllDone(p)
  PROVE  Good(p)
<1> DEFINE c == IF code[p] = "error" THEN "error" ELSE "ok"
<1>1. /\ pc[p] = "spawn" /\ pc' = [pc EXCEPT ![p] = "done"] /\ todo[p] = {}
      /\ code' = [code EXCEPT ![p] = c]
      /\ UNCHANGED <<shared, cmd, mem, listed, todo, acted, wrote, served, alone, nkeys, faults,
                     runs, read, had, parent>>
  BY DEF AllDone, At, Exit, Goto
<1>2. Steps(p)
  BY <1>1 DEF Steps, Types, Labels, shared
<1>3. pc'[p] = "done" /\ cmd[p].kind = "all" /\ (code'[p] = "ok" => code[p] = "ok")
  BY <1>1 DEF Types, Local, Placed
<1>4. Local(p)'
  BY <1>1, <1>3 DEF Local, Placed, Own, Served, Undisturbed, Configured
<1> QED
  BY <1>2, <1>4, StepsKeep

-----------------------------------------------------------------------------
(* Processes that begin, wait for each other and are gone. *)

\* What a process is when it begins.
LEMMA BeginGood ==
  ASSUME Types, NEW q \in Procs, NEW c \in Cmd, NEW par \in Procs \cup {None}, Begin(q, c, par),
         pc'[q] = IF c.kind = "all" THEN "spawn" ELSE "pre",
         c.kind = "all" => par = None,
         c.kind \notin {"run", "all"} => c.name \in Names
  PROVE  /\ cmd' \in [Procs -> Cmd] /\ mem' \in [Procs -> Conf] /\ read' \in [Procs -> Conf]
         /\ had' \in [Procs -> [Names -> SUBSET Keys]]
         /\ alone' \in [Procs -> BOOLEAN] /\ parent' \in [Procs -> Procs \cup {None}]
         /\ code' \in [Procs -> {"ok", "error", "failed"}] /\ listed' \in [Procs -> SUBSET Keys]
         /\ todo' \in [Procs -> SUBSET Names] /\ served' \in [Procs -> SUBSET Names]
         /\ acted' \in [Procs -> Names \cup {None}] /\ wrote' \in [Procs -> BOOLEAN]
         /\ parent'[q] = par /\ cmd'[q] = c
         /\ Local(q)'
<1> DEFINE conf == ReadInConfig
           new == IF c.kind = "all" THEN Configured(conf) \cap c.only ELSE {}
<1>1. conf \in Conf
  BY NoConfTyped DEF Types, ReadInConfig
<1>2. new \subseteq Names
  BY DEF Configured
<1>3. alone' = [alone EXCEPT ![q] = file # Unreadable]
  BY DEF Begin
<1>4. alone' \in [Procs -> BOOLEAN] /\ alone'[q] = (file # Unreadable)
  BY <1>3, Zenon DEF Types
<1>5. wrote' \in [Procs -> BOOLEAN]
  <2>1. wrote' = [wrote EXCEPT ![q] = FALSE]
    BY DEF Begin
  <2> QED
    BY <2>1, Zenon DEF Types
<1>6. alone'[q] => file' = conf
  BY <1>4 DEF ReadInConfig, Begin, shared
<1> HIDE DEF conf
<1>7. /\ cmd' = [cmd EXCEPT ![q] = c] /\ mem' = [mem EXCEPT ![q] = conf]
      /\ read' = [read EXCEPT ![q] = conf] /\ had' = [had EXCEPT ![q] = keys]
      /\ parent' = [parent EXCEPT ![q] = par]
      /\ code' = [code EXCEPT ![q] = "ok"] /\ listed' = [listed EXCEPT ![q] = {}]
      /\ todo' = [todo EXCEPT ![q] = new] /\ acted' = [acted EXCEPT ![q] = None]
      /\ served' = [served EXCEPT ![q] = {}]
  BY DEF Begin, conf
<1>8. /\ cmd'[q] = c /\ mem'[q] = conf /\ read'[q] = conf /\ had'[q] = keys
      /\ parent'[q] = par /\ code'[q] = "ok"
      /\ todo'[q] = new /\ acted'[q] = None /\ served'[q] = {}
  BY <1>7 DEF Types
<1>9. Placed(q)' /\ Own(q)'
  BY <1>8 DEF Placed, Own
<1>10. Served(q)'
  <2>1. c.kind = "all" => served'[q] \cup todo'[q] = Configured(read'[q]) \cap c.only
    BY <1>8
  <2> QED
    BY <1>8, <2>1 DEF Served, Configured
<1>11. Undisturbed(q)'
  <2>1. UNCHANGED keys
    BY DEF Begin, shared
  <2> QED
    BY <1>6, <1>8, <2>1 DEF Undisturbed
<1> HIDE DEF new
<1> QED
  BY <1>1, <1>2, <1>4, <1>5, <1>7, <1>8, <1>9, <1>10, <1>11, KeysTyped DEF Local, Types

\* What Begin leaves alone.
LEMMA BeginFrame ==
  ASSUME Types, NEW q \in Procs, NEW c, NEW par, Begin(q, c, par), NEW r \in Procs \ {q},
         pc'[r] = pc[r]
  PROVE  Same(r)
<1>1. alone'[r] = alone[r]
  BY DEF Begin, Types
<1> QED
  BY <1>1 DEF Begin, Same, Types, shared

LEMMA StartKeeps ==
  ASSUME Types, Family, NEW p \in Procs, Start(p)
  PROVE  Good(p)
<1>1. PICK c \in Commands :
        Begin(p, c, None) /\ pc' = [pc EXCEPT ![p] = IF c.kind = "all" THEN "spawn" ELSE "pre"]
  BY DEF Start, Goto
<1>2. c \in Cmd /\ (c.kind \notin {"run", "all"} => c.name \in Names)
  BY ConfigAssumption
<1>3. pc[p] = "off" /\ UNCHANGED <<file, keys, nkeys, faults>>
  BY <1>1 DEF Begin, shared
<1>4. runs' \in 0..MaxRuns
  BY ConfigAssumption DEF Start, Types
<1>5. pc' \in [Procs -> Labels] /\ pc'[p] = IF c.kind = "all" THEN "spawn" ELSE "pre"
  BY <1>1 DEF Types, Labels
<1>6. /\ cmd' \in [Procs -> Cmd] /\ mem' \in [Procs -> Conf] /\ read' \in [Procs -> Conf]
      /\ had' \in [Procs -> [Names -> SUBSET Keys]]
      /\ alone' \in [Procs -> BOOLEAN] /\ parent' \in [Procs -> Procs \cup {None}]
      /\ code' \in [Procs -> {"ok", "error", "failed"}] /\ listed' \in [Procs -> SUBSET Keys]
      /\ todo' \in [Procs -> SUBSET Names] /\ served' \in [Procs -> SUBSET Names]
      /\ acted' \in [Procs -> Names \cup {None}] /\ wrote' \in [Procs -> BOOLEAN]
      /\ parent'[p] = None
      /\ Local(p)'
  BY <1>1, <1>2, <1>5, BeginGood
<1>7. Types'
  BY <1>3, <1>4, <1>5, <1>6 DEF Types
<1>8. ASSUME NEW r \in Procs \ {p} PROVE Same(r)
  <2>1. pc'[r] = pc[r]
    BY <1>1
  <2> QED
    BY <1>1, <2>1, BeginFrame
<1>9. Family'
  <2> SUFFICES ASSUME NEW q \in Procs, parent'[q] # None
               PROVE  /\ pc'[parent'[q]] = "wait"
                      /\ cmd'[q].pce \in todo'[parent'[q]]
                      /\ \A r \in Procs \ {q} : parent'[r] # parent'[q]
    BY DEF Family
  <2>1. \A r \in Procs \ {p} : parent'[r] = parent[r]
    BY <1>1 DEF Begin, Types
  <2>2. q # p /\ parent'[q] = parent[q] /\ parent[q] \in Procs
    BY <1>6, <2>1 DEF Types
  <2>3. parent[q] # p
    BY <1>3, <2>2 DEF Family
  <2>4. Same(q) /\ Same(parent[q])
    BY <1>8, <2>2, <2>3
  <2>5. \A r \in Procs \ {q} : parent'[r] # parent[q]
    BY <1>6, <2>1, <2>2 DEF Family
  <2> QED
    BY <2>2, <2>4, <2>5 DEF Family, Same
<1> QED
  BY <1>6, <1>7, <1>8, <1>9 DEF Good, Frame

\* A parent and its new child: the one step that moves two processes.
LEMMA SpawnKeeps ==
  ASSUME TypeOK, NEW p \in Procs, Spawn(p), \A r \in Procs : Local(r)
  PROVE  TypeOK' /\ \A r \in Procs : Local(r)'
<1> USE TypeParts, TypePartsNext
<1>1. PICK n \in todo[p], q \in Procs \ {p} :
        /\ Begin(q, [cmd[p] EXCEPT !.kind = "run", !.pce = n, !.only = {}, !.stdin = FALSE], p)
        /\ pc' = [pc EXCEPT ![p] = "wait", ![q] = "pre"]
  BY DEF Spawn
<1> DEFINE c == [cmd[p] EXCEPT !.kind = "run", !.pce = n, !.only = {}, !.stdin = FALSE]
<1>2. n \in Names /\ cmd[p] \in Cmd
  BY DEF Types
<1>3. c \in Cmd /\ c.kind = "run" /\ c.pce = n
  BY <1>2 DEF Cmd, Kinds
<1>4. Begin(q, c, p)
  BY <1>1
<1> HIDE DEF c
<1>5. pc[p] = "spawn" /\ pc[q] = "off" /\ UNCHANGED <<file, keys, nkeys, faults, runs>>
  BY <1>4 DEF Spawn, Begin, shared
<1>6. /\ pc' \in [Procs -> Labels] /\ pc'[p] = "wait" /\ pc'[q] = "pre"
      /\ \A r \in Procs \ {p, q} : pc'[r] = pc[r]
  BY <1>1 DEF Types, Labels
<1>7. /\ cmd' \in [Procs -> Cmd] /\ mem' \in [Procs -> Conf] /\ read' \in [Procs -> Conf]
      /\ had' \in [Procs -> [Names -> SUBSET Keys]]
      /\ alone' \in [Procs -> BOOLEAN] /\ parent' \in [Procs -> Procs \cup {None}]
      /\ code' \in [Procs -> {"ok", "error", "failed"}] /\ listed' \in [Procs -> SUBSET Keys]
      /\ todo' \in [Procs -> SUBSET Names] /\ served' \in [Procs -> SUBSET Names]
      /\ acted' \in [Procs -> Names \cup {None}] /\ wrote' \in [Procs -> BOOLEAN]
      /\ parent'[q] = p /\ cmd'[q] = c
      /\ Local(q)'
  BY <1>3, <1>4, <1>6, BeginGood
<1>8. Types'
  BY <1>5, <1>6, <1>7 DEF Types
<1>9. ASSUME NEW r \in Procs \ {p, q} PROVE Same(r)
  <2>1. pc'[r] = pc[r]
    BY <1>6
  <2> QED
    BY <1>4, <2>1, BeginFrame
<1>10. /\ cmd'[p] = cmd[p] /\ mem'[p] = mem[p] /\ read'[p] = read[p] /\ had'[p] = had[p]
       /\ todo'[p] = todo[p] /\ code'[p] = code[p] /\ parent'[p] = parent[p]
       /\ acted'[p] = acted[p] /\ wrote'[p] = wrote[p] /\ served'[p] = served[p]
  BY <1>4 DEF Begin, Types
<1>11. Local(p)'
  <2>1. Local(p)
    OBVIOUS
  <2>2. cmd[p].kind = "all" /\ parent[p] = None
    BY <1>5, <2>1 DEF Local, Placed
  <2>3. Placed(p)' /\ Own(p)' /\ Undisturbed(p)'
    BY <1>5, <1>6, <1>10, <2>1, <2>2 DEF Local, Placed, Own, Undisturbed
  <2>4. Served(p)'
    BY <1>5, <1>6, <1>10, <2>1 DEF Local, Served, Configured
  <2> QED
    BY <2>3, <2>4 DEF Local
<1>12. Family'
  <2> SUFFICES ASSUME NEW r \in Procs, parent'[r] # None
               PROVE  /\ pc'[parent'[r]] = "wait"
                      /\ cmd'[r].pce \in todo'[parent'[r]]
                      /\ \A t \in Procs \ {r} : parent'[t] # parent'[r]
    BY DEF Family
  <2>1. \A t \in Procs \ {q} : parent'[t] = parent[t] /\ parent[t] # p /\ parent[t] # q
    <3>1. \A t \in Procs : parent[t] # p /\ parent[t] # q
      BY <1>5, ConfigAssumption DEF Family
    <3> QED
      BY <1>4, <3>1 DEF Begin, Types
  <2>2. CASE r = q
    BY <1>3, <1>6, <1>7, <1>10, <2>1, <2>2
  <2>3. CASE r # q
    <3>1. parent'[r] = parent[r] /\ parent[r] \in Procs \ {p, q}
      BY <2>1, <2>3 DEF Types
    <3>2. pc'[parent[r]] = pc[parent[r]] /\ todo'[parent[r]] = todo[parent[r]]
      BY <1>9, <3>1 DEF Same
    <3>3. cmd'[r] = cmd[r]
      BY <1>9, <1>10, <2>3 DEF Same
    <3> QED
      BY <1>7, <2>1, <3>1, <3>2, <3>3 DEF Family
  <2> QED
    BY <2>2, <2>3
<1>13. \A r \in Procs : Local(r)'
  <2>1. ASSUME NEW r \in Procs \ {p, q} PROVE Local(r)'
    BY <1>9, OthersKeep
  <2> QED
    BY <1>7, <1>11, <2>1
<1> QED
  BY <1>8, <1>12, <1>13

\* The parent takes note of the child's end: what was still to be done on its
\* PCE is now done, or the parent has met an error.
LEMMA WaitKeeps ==
  ASSUME Types, Family, NEW p \in Procs, Wait(p), \A r \in Procs : Local(r)
  PROVE  Types' /\ Family' /\ \A r \in Procs : Local(r)'
<1>1. PICK q \in Procs :
        /\ parent[q] = p /\ pc[q] = "done"
        /\ todo' = [todo EXCEPT ![p] = @ \ {cmd[q].pce}]
        /\ served' = [served EXCEPT ![p] =
             IF code[q] = "failed" THEN @ ELSE @ \cup {cmd[q].pce}]
        /\ parent' = [parent EXCEPT ![q] = None]
        /\ Reap(p, q)
  BY DEF Wait
<1>2. /\ pc[p] = "wait"
      /\ UNCHANGED <<file, keys, cmd, mem, listed, read, had, acted, wrote, alone, nkeys, runs,
                     faults>>
  BY DEF Wait, shared, counters
<1>3. q # p /\ cmd[q].pce \in todo[p] /\ cmd[q].pce \in Names
  <2>1. parent[q] # None
    BY <1>1, ConfigAssumption
  <2> QED
    BY <1>1, <1>2, <2>1 DEF Family, Types
<1>4. PICK m \in {"spawn", "done"}, c \in {"ok", "error", "failed"} :
        /\ pc' = [pc EXCEPT ![p] = m] /\ code' = [code EXCEPT ![p] = c]
        /\ c = "ok" => m = "spawn" /\ code[p] = "ok" /\ code[q] # "failed"
        /\ c = "failed" => m = "done" \/ code[p] = "failed"
  <2>1. CASE code[q] = "failed"
    <3>1. LogError(p, "spawn") /\ {"spawn", "done"} \subseteq Labels
      BY <1>1, <2>1 DEF Reap, Labels
    <3>2. PICK m \in {"spawn", "done"}, c \in {"error", "failed"} :
            /\ pc' = [pc EXCEPT ![p] = m] /\ code' = [code EXCEPT ![p] = c]
            /\ c = "failed" => m = "done"
      BY <3>1, LogErrorGoes
    <3> QED
      BY <3>2
  <2>2. CASE code[q] # "failed"
    <3>1. pc' = [pc EXCEPT ![p] = "spawn"] /\ code' = code
      BY <1>1, <2>2 DEF Reap, Goto
    <3>2. code' = [code EXCEPT ![p] = code[p]] /\ code[p] \in {"ok", "error", "failed"}
      BY <3>1 DEF Types
    <3> QED
      BY <2>2, <3>1, <3>2
  <2> QED
    BY <2>1, <2>2
<1>5. Types'
  BY <1>1, <1>2, <1>3, <1>4 DEF Types, Labels
<1>6. /\ pc'[p] = m /\ code'[p] = c /\ todo'[p] = todo[p] \ {cmd[q].pce}
      /\ served'[p] = IF code[q] = "failed" THEN served[p] ELSE served[p] \cup {cmd[q].pce}
      /\ parent'[p] = parent[p]
  BY <1>1, <1>3, <1>4 DEF Types
<1>7. ASSUME NEW r \in Procs \ {p} PROVE Same(r)
  <2>1. parent'[r] \in {parent[r], None}
    BY <1>1 DEF Types
  <2> QED
    BY <1>1, <1>2, <1>4, <2>1 DEF Same
<1>8. Family'
  <2> SUFFICES ASSUME NEW r \in Procs, parent'[r] # None
               PROVE  /\ pc'[parent'[r]] = "wait"
                      /\ cmd'[r].pce \in todo'[parent'[r]]
                      /\ \A t \in Procs \ {r} : parent'[t] # parent'[r]
    BY DEF Family
  <2>1. \A t \in Procs : parent'[t] = IF t = q THEN None ELSE parent[t]
    BY <1>1 DEF Types
  <2>2. r # q /\ parent'[r] = parent[r] /\ parent[r] \in Procs /\ parent[r] # None
    BY <2>1 DEF Types
  <2>3. parent[r] # p
    BY <1>1, <2>2 DEF Family
  <2>4. /\ pc'[parent[r]] = pc[parent[r]] /\ todo'[parent[r]] = todo[parent[r]]
    BY <1>7, <2>2, <2>3 DEF Same
  <2> QED
    BY <1>2, <2>1, <2>2, <2>4 DEF Family
<1>9. Local(p)'
  <2>1. Local(p) /\ cmd[p].kind = "all" /\ parent[p] = None
    BY <1>2 DEF Local, Placed
  <2>2. code[p] # "failed"
    BY <1>2, <2>1 DEF Local, Placed
  <2>3. Placed(p)'
    BY <1>2, <1>4, <1>6, <2>1, <2>2 DEF Placed
  <2>4. Own(p)'
    BY <1>2, <1>4, <1>6, <2>1 DEF Local, Own
  <2>5. Served(p)'
    <3> SUFFICES ASSUME code'[p] = "ok"
                 PROVE  /\ served'[p] \cup todo'[p] = Configured(read'[p]) \cap cmd'[p].only
                        /\ pc'[p] # "done"
      BY DEF Served, Configured
    <3>1. code[p] = "ok" /\ code[q] # "failed" /\ m = "spawn"
      BY <1>4, <1>6
    <3>2. served[p] \cup todo[p] = Configured(read[p]) \cap cmd[p].only
      BY <2>1, <3>1 DEF Local, Served
    <3>3. served'[p] \cup todo'[p] = served[p] \cup todo[p]
      BY <1>3, <1>6, <3>1
    <3> QED
      BY <1>2, <1>6, <3>1, <3>2, <3>3
  <2>6. Undisturbed(p)'
    BY <1>2, <1>4, <1>6, <2>1 DEF Undisturbed
  <2> QED
    BY <2>3, <2>4, <2>5, <2>6 DEF Local
<1>10. \A r \in Procs : Local(r)'
  <2>1. ASSUME NEW r \in Procs \ {p} PROVE Local(r)'
    BY <1>7, OthersKeep
  <2> QED
    BY <1>9, <2>1
<1> QED
  BY <1>5, <1>8, <1>10

\* A process that is gone leaves nothing behind, and nobody waits for it.
LEMMA ResetKeeps ==
  ASSUME Types, Family, NEW p \in Procs, parent[p] = None, Reset(p), UNCHANGED <<shared, nkeys, runs>>,
         faults' \in 0..MaxFaults
  PROVE  Good(p)
<1>1. alone' \in [Procs -> BOOLEAN] /\ alone'[p] = FALSE /\ \A r \in Procs \ {p} : alone'[r] = alone[r]
  <2>1. alone' = [alone EXCEPT ![p] = FALSE]
    BY DEF Reset
  <2> QED
    BY <2>1, Zenon DEF Types
<1>2. wrote' \in [Procs -> BOOLEAN] /\ \A r \in Procs \ {p} : wrote'[r] = wrote[r]
  <2>1. wrote' = [wrote EXCEPT ![p] = FALSE]
    BY DEF Reset
  <2> QED
    BY <2>1, Zenon DEF Types
<1>3. Idle \in Cmd /\ Idle.kind = "run"
  BY DEF Idle, Cmd, Kinds
<1>4. \A r \in Procs : parent'[r] = IF parent[r] = p THEN None ELSE parent[r]
  BY DEF Reset, Orphaned
<1>5. parent' \in [Procs -> Procs \cup {None}]
  <2>1. parent' = Orphaned(p)
    BY DEF Reset
  <2> QED
    BY <2>1 DEF Types, Orphaned
<1>6. Types'
  BY <1>1, <1>2, <1>3, <1>5, NoConfTyped, KeysTyped, ConfigAssumption
     DEF Reset, Types, Labels, shared
<1>7. /\ pc'[p] = "off" /\ cmd'[p] = Idle /\ code'[p] = "ok" /\ acted'[p] = None
      /\ parent'[p] = None
  BY <1>4, ConfigAssumption DEF Reset, Types
<1>8. Local(p)'
  BY <1>1, <1>3, <1>7 DEF Local, Placed, Own, Served, Undisturbed
<1>9. ASSUME NEW r \in Procs \ {p} PROVE Same(r)
  <2>1. parent'[r] \in {parent[r], None}
    BY <1>4
  <2> QED
    BY <1>1, <1>2, <2>1 DEF Reset, Same, Types, shared
<1>10. Family'
  <2> SUFFICES ASSUME NEW r \in Procs, parent'[r] # None
               PROVE  /\ pc'[parent'[r]] = "wait"
                      /\ cmd'[r].pce \in todo'[parent'[r]]
                      /\ \A t \in Procs \ {r} : parent'[t] # parent'[r]
    BY DEF Family
  <2>1. parent'[r] = parent[r] /\ parent[r] # p /\ parent[r] \in Procs /\ r # p
    BY <1>4, <1>7 DEF Types
  <2>2. Same(r) /\ Same(parent[r])
    BY <1>9, <2>1
  <2>3. \A t \in Procs \ {r} : parent'[t] # parent[r]
    BY <1>4, <2>1 DEF Family
  <2> QED
    BY <2>1, <2>2, <2>3 DEF Family, Same
<1> QED
  BY <1>6, <1>8, <1>9, <1>10 DEF Good, Frame

LEMMA EndKeeps ==
  ASSUME Types, Family, NEW p \in Procs, End(p)
  PROVE  Good(p)
BY ResetKeeps DEF End, counters, Types

LEMMA CrashKeeps ==
  ASSUME Types, Family, NEW p \in Procs, Local(p), Crash(p)
  PROVE  Good(p)
<1>1. pc[p] \notin {"off", "done"} /\ UNCHANGED <<shared, nkeys, runs>>
  BY DEF Crash
<1>2. faults' \in 0..MaxFaults
  BY ConfigAssumption DEF Crash, Fault, Types
<1>3. CASE parent[p] = None
  BY <1>1, <1>2, <1>3, ResetKeeps DEF Crash
<1>4. CASE parent[p] # None
  <2>1. /\ pc' = [pc EXCEPT ![p] = "done"] /\ code' = [code EXCEPT ![p] = "failed"]
        /\ UNCHANGED <<cmd, mem, read, had, listed, todo, alone, acted, wrote, served, parent>>
    BY <1>4 DEF Crash, Exit, Goto
  <2>2. pc[p] # "wait"
    BY <1>4 DEF Local, Placed
  <2>3. Steps(p)
    BY <1>1, <1>2, <2>1, <2>2 DEF Steps, Types, Labels, shared
  <2>4. pc'[p] = "done" /\ code'[p] = "failed"
    BY <2>1 DEF Types
  <2>5. Local(p)'
    BY <2>1, <2>4 DEF Local, Placed, Own, Served, Undisturbed
  <2> QED
    BY <2>3, <2>5, StepsKeep
<1> QED
  BY <1>3, <1>4

-----------------------------------------------------------------------------
(* The theorems. *)

LEMMA NextKeeps ==
  ASSUME IInv, Next
  PROVE  IInv'
<1>1. Types /\ Family /\ \A r \in Procs : Local(r)
  BY TypeParts DEF IInv
<1>2. PICK p \in Procs : Start(p) \/ Step(p) \/ Crash(p)
  BY DEF Next
<1>3. ASSUME Good(p) PROVE IInv'
  <2>1. Types' /\ Family' /\ Local(p)' /\ \A q \in Procs \ {p} : Same(q)
    BY <1>3 DEF Good, Frame
  <2>2. ASSUME NEW q \in Procs \ {p} PROVE Local(q)'
    BY <1>1, <2>1, OthersKeep
  <2> QED
    BY <2>1, <2>2, TypePartsNext DEF IInv
<1>4. CASE Spawn(p)
  BY <1>4, SpawnKeeps DEF IInv
<1>5. CASE Wait(p)
  BY <1>1, <1>5, WaitKeeps, TypePartsNext DEF IInv
<1>6. CASE Start(p) \/ Crash(p) \/ End(p) \/ AllDone(p)
  BY <1>1, <1>3, <1>6, StartKeeps, CrashKeeps, EndKeeps, AllDoneKeeps
<1>7. CASE PersistentPreRun(p) \/ WritePreRun(p) \/ Save(p) \/ WriteConfig(p)
  BY <1>1, <1>3, <1>7, PreRunKeeps, WritePreRunKeeps, SaveKeeps, WriteConfigKeeps
<1>8. CASE Act(p) \/ ActFails(p) \/ AddPCE(p) \/ AddPCEFails(p) \/ SetDefault(p) \/ SetAlways(p)
  BY <1>1, <1>3, <1>8, ActKeeps, ActFailsKeeps, AddPCEKeeps, AddPCEFailsKeeps, SetDefaultKeeps,
     SetAlwaysKeeps
<1>9. CASE \/ GetAllAPIKeys(p) \/ GetAllAPIKeysFails(p) \/ DeleteKey(p) \/ DeleteKeyFails(p)
           \/ RemovePCE(p)
  BY <1>1, <1>3, <1>9, GetAllAPIKeysKeeps, GetAllAPIKeysFailsKeeps, DeleteKeyKeeps,
     DeleteKeyFailsKeeps, RemovePCEKeeps
<1> QED
  BY <1>2, <1>4, <1>5, <1>6, <1>7, <1>8, <1>9 DEF Step

LEMMA Stuttering ==
  ASSUME IInv, UNCHANGED vars
  PROVE  IInv'
<1>1. UNCHANGED <<file, keys, pc, cmd, mem, listed, todo, parent, code, read, had, alone, acted, wrote,
                  served, nkeys, runs, faults>>
  BY DEF vars, shared, local, history, counters
<1>2. Types' /\ Family'
  BY <1>1, TypeParts DEF IInv, Types, Family
<1>3. ASSUME NEW q \in Procs PROVE Local(q)'
  <2>1. Same(q) /\ Local(q)
    BY <1>1 DEF Same, IInv
  <2> QED
    BY <2>1, OthersKeep
<1> QED
  BY <1>2, <1>3, TypePartsNext DEF IInv

\* What every process has read, does and leaves behind, whatever the other
\* processes do.
THEOREM Invariance == Spec => []IInv
BY InitInv, NextKeeps, Stuttering, PTL DEF Spec

\* Types, and who waits for whom.
THEOREM Typing == Spec => []TypeOK
<1>1. IInv => TypeOK
  BY DEF IInv
<1> QED
  BY <1>1, Invariance, PTL

\* A run works on the PCE of its own command line or else on the default PCE
\* that it read, and changes it only if its own command line says so, although
\* the file keeps the flags of the last run of whatever process.
THEOREM NoForeignFlags == Spec => []OwnFlags
<1>1. IInv => OwnFlags
  BY DEF IInv, Local, Own, OwnFlags
<1> QED
  BY <1>1, Invariance, PTL

\* An all-pces that met no error has had a child end well for every PCE.
THEOREM EveryPCEServed == Spec => []EveryPCE
<1>1. IInv => EveryPCE
  <2> SUFFICES ASSUME IInv, NEW p \in Procs, pc[p] = "done", cmd[p].kind = "all", code[p] = "ok"
               PROVE  served[p] = Configured(read[p]) \cap cmd[p].only
    BY DEF EveryPCE
  <2>1. served[p] \cup todo[p] = Configured(read[p]) \cap cmd[p].only /\ todo[p] = {}
    BY DEF IInv, Local, Served
  <2> QED
    BY <2>1
<1> QED
  BY <1>1, Invariance, PTL

\* An undisturbed process that ended without an error has left in pce.yaml, and
\* of the keys, what its command is for.
THEOREM CommandDone == Spec => []Effect
<1>1. IInv => Effect
  BY DEF IInv, Local, Undisturbed, Effect
<1> QED
  BY <1>1, Invariance, PTL
=============================================================================
