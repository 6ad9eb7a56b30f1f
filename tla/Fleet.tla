------------------------------- MODULE Fleet -------------------------------
(* The commands that manage VENs: wkld-cleanup lists the VENs of a hostname   *)
(* that another one has superseded, unpair removes the VENs of such a file,   *)
(* upgrade changes the version of VENs and increase-ven-rate asks VENs every  *)
(* ten minutes to report traffic faster.  Meanwhile VENs come online, send    *)
(* heartbeats and go offline.                                                 *)
EXTENDS Session, SequencesExt

CONSTANTS
  Vens, HostOf,  \* VENs and their hostnames
  Mute,          \* VENs that never send a heartbeat
  Loose,         \* VENs without a workload
  Labelled,      \* VENs whose workload has the labels of the command
  InitialOnline,
  UnpairChunk,   \* VENs per call of unpair
  RateChunk,     \* VENs per call of increase-ven-rate
  Iterations,    \* --for-minutes divided by 10
  MaxTime        \* bound: hours

ASSUME FleetAssumption ==
  /\ IsFiniteSet(Vens)
  /\ Mute \cup Loose \cup Labelled \cup InitialOnline \subseteq Vens
  /\ Mute \cap InitialOnline = {}
  /\ UnpairChunk \in Nat \ {0} /\ RateChunk \in Nat \ {0}
  /\ Iterations \in Nat /\ MaxTime \in Nat \ {0}
  /\ \A f \in FlagSets : /\ f.source \in {"file", "labels"}
                         /\ f.includeOnline \in BOOLEAN /\ f.single \in BOOLEAN
                         /\ f.hours \in Nat /\ f.never \subseteq Vens

VARIABLES
  cmd,
  now,
  paired, online,   \* VENs of the PCE
  beat,             \* last heartbeat of each VEN, 0 if there is none
  old,              \* VENs that are not on the target version
  list,             \* the file that wkld-cleanup wrote
  removed,          \* history: VENs that unpair has removed
  asked,            \* history: how often this command asked each VEN (capped)
  pc, targets, calls, iterations

fleet == <<now, paired, online, beat, old>>
command == <<cmd, pc, targets, calls, iterations>>
history == <<list, removed, asked>>
vars == <<session, fleet, command, history>>

Commands == {"wkld-cleanup", "unpair", "upgrade", "increase-ven-rate"}

Init ==
  /\ SessionInit
  /\ cmd \in Commands
  /\ now = 1 /\ paired = Vens /\ online = InitialOnline /\ old = Vens
  /\ beat = [v \in Vens |-> IF v \in Mute THEN 0 ELSE 1]
  /\ list = {} /\ removed = {} /\ asked = [v \in Vens |-> 0]
  /\ pc = "load" /\ targets = <<>> /\ calls = 0 /\ iterations = 0

TypeOK ==
  /\ SessionTypeOK
  /\ cmd \in Commands
  /\ now \in 1..MaxTime /\ online \subseteq paired /\ paired \subseteq Vens
  /\ beat \in [Vens -> 0..MaxTime] /\ old \subseteq Vens
  /\ list \cup removed \subseteq Vens /\ asked \in [Vens -> Nat]
  /\ pc \in {"load", "decide", "push", "ended", "dead"}
  /\ targets \in Seq(Vens) /\ calls \in Nat /\ iterations \in Nat

-----------------------------------------------------------------------------
(* What a command aims at. *)

Twins(v) == {u \in paired : HostOf[u] = HostOf[v]}

\* The VENs with the most recent heartbeat; a VEN without one does not count.
Newest(v) == beat[v] > 0 /\ \A u \in Twins(v) : beat[v] >= beat[u]

\* One choice of the VENs that stay, the first newest one of each hostname.
Stay(keep) ==
  /\ \A v \in keep : Newest(v)
  /\ \A v \in paired : Newest(v) => Cardinality(Twins(v) \cap keep) = 1

Superseded(keep) == {v \in paired : Cardinality(Twins(v)) > 1 /\ v \notin keep}

\* The VENs of the file, or with --label-file those of the labels.
Named == IF flags.source = "file" THEN list ELSE Labelled \ Loose

TooRecent(v) == flags.hours > 0 /\ now - beat[v] < flags.hours

\* VENs that unpair looks up the workload of.
Candidates == {v \in (Named \cap paired) \ (flags.never \cup Loose) : ~TooRecent(v)}

ToUnpair == {v \in Candidates : flags.includeOnline \/ v \notin online}

ToUpgrade ==
  IF flags.source = "file" THEN list \cap paired \cap old
  ELSE (Labelled \ Loose) \cap online \cap old

ToAsk == (online \cap (IF flags.source = "labels" THEN Labelled ELSE Vens)) \ Loose

Targets ==
  CASE cmd = "unpair" -> ToUnpair
    [] cmd = "upgrade" -> ToUpgrade
    [] cmd = "increase-ven-rate" -> ToAsk

-----------------------------------------------------------------------------
(* Reading and deciding. *)

Planned(T) ==
  /\ targets' = SetToSeq(T)
  /\ pc' = IF T = {} THEN "ended" ELSE "decide"
  /\ UNCHANGED <<cmd, calls, iterations>>

Stops(next) == pc' = next /\ UNCHANGED <<cmd, targets, calls, iterations>>

Load ==
  /\ pc = "load" /\ cmd # "wkld-cleanup"
  /\ Planned(Targets)
  /\ Silent
  /\ UNCHANGED <<fleet, history>>

\* Slip: the file is appended to.
Written_Append(S) == list \cup S

\* The file with the VENs to remove.
Written(S) == S

\* A VEN to remove that has no workload ends the command; without any VEN to
\* remove no file is written, and the one of an earlier run stays.
List ==
  /\ pc = "load" /\ cmd = "wkld-cleanup"
  /\ \E keep \in SUBSET paired :
       /\ Stay(keep)
       /\ IF Superseded(keep) \cap Loose # {} THEN Stops("dead") /\ UNCHANGED list
          ELSE /\ Stops("ended")
               /\ IF Superseded(keep) = {} THEN UNCHANGED list
                  ELSE list' = Written(Superseded(keep))
  /\ Silent
  /\ UNCHANGED <<fleet, removed, asked>>

\* unpair and increase-ven-rate do not look at the error of loading workloads.
\* With --include-online unpair does not need them, else it dereferences nil.
LoadFails ==
  /\ pc = "load"
  /\ \/ Stops("ended") /\ (cmd = "upgrade" => flags.continueOnError)
     \/ Stops("dead")
     \/ cmd = "unpair" /\ flags.source = "file" /\ flags.includeOnline /\ Planned(ToUnpair)
  /\ Fault
  /\ UNCHANGED <<fleet, history>>

Decision(next) == pc = "decide" /\ Stops(next) /\ UNCHANGED <<fleet, history>>

DryRun == Decision("ended") /\ NotAsked
PromptDenied == Decision("ended") /\ Denied

Approve == Decision("push") /\ Approved

-----------------------------------------------------------------------------
(* The calls.  unpair and increase-ven-rate cut their targets into pieces.    *)

Chunk ==
  CASE cmd = "unpair" -> IF flags.single THEN 1 ELSE UnpairChunk
    [] cmd = "upgrade" -> Len(targets)
    [] cmd = "increase-ven-rate" -> RateChunk

NumCalls == (Len(targets) + Chunk - 1) \div Chunk

\* Slip: a piece that is not the last ends one VEN too early.
Piece_Short(k) ==
  SubSeq(targets, (k - 1) * Chunk + 1, IF k = NumCalls THEN Len(targets) ELSE k * Chunk - 1)

Piece(k) ==
  SubSeq(targets, (k - 1) * Chunk + 1, IF k = NumCalls THEN Len(targets) ELSE k * Chunk)

\* The PCE does what it can of a call for the VENs in P.
Effect(P) ==
  CASE cmd = "unpair" -> /\ paired' = paired \ P /\ online' = online \ P
                         /\ removed' = removed \cup P
                         /\ UNCHANGED <<now, beat, old, list, asked>>
    [] cmd = "upgrade" -> /\ old' = old \ (P \cap paired)
                          /\ UNCHANGED <<now, paired, online, beat, history>>
    [] cmd = "increase-ven-rate" ->
         /\ asked' = [v \in Vens |-> IF v \in P /\ asked[v] < Iterations + 2
                                     THEN asked[v] + 1 ELSE asked[v]]
         /\ UNCHANGED <<fleet, list, removed>>

Pushing == pc = "push" /\ calls < NumCalls

Call ==
  /\ Pushing
  /\ Effect(ToSet(Piece(calls + 1)))
  /\ calls' = calls + 1
  /\ Works
  /\ UNCHANGED <<cmd, pc, targets, iterations>>

\* A failed piece of a bulk call ends the call.
CallFails ==
  /\ Pushing
  /\ \/ Fault /\ UNCHANGED <<fleet, history>>
     \/ LostAnswer /\ Effect(ToSet(Piece(calls + 1)))
  /\ calls' = IF cmd = "unpair" /\ ~flags.single THEN NumCalls ELSE calls + 1
  /\ pc' = LogError("dead", pc)
  /\ UNCHANGED <<cmd, targets, iterations>>

Counted(i) == i + 1

\* increase-ven-rate sleeps and starts over, with the VENs that it has read.
CallsDone ==
  /\ pc = "push" /\ calls = NumCalls
  /\ IF cmd = "increase-ven-rate" /\ Counted(iterations) <= Iterations
     THEN calls' = 0 /\ iterations' = Counted(iterations) /\ UNCHANGED pc
     ELSE pc' = "ended" /\ UNCHANGED <<calls, iterations>>
  /\ Silent
  /\ UNCHANGED <<fleet, history, cmd, targets>>

-----------------------------------------------------------------------------
(* The session, the VENs, and everyone else. *)

Crash ==
  /\ pc \notin {"ended", "dead"}
  /\ Stops("dead")
  /\ Fault
  /\ UNCHANGED <<fleet, history>>

NewCommand ==
  /\ pc \in {"ended", "dead"}
  /\ NextCommand
  /\ cmd' \in Commands
  /\ pc' = "load" /\ targets' = <<>> /\ calls' = 0 /\ iterations' = 0
  /\ asked' = [v \in Vens |-> 0]
  /\ UNCHANGED <<fleet, list, removed>>

\* An hour passes, in which the VENs that are online send heartbeats.
Tick ==
  /\ now < MaxTime
  /\ now' = now + 1
  /\ beat' = [v \in Vens |-> IF v \in online THEN now + 1 ELSE beat[v]]
  /\ UNCHANGED <<session, command, paired, online, old, list, removed, asked>>

ComesOnline ==
  /\ \E v \in paired \ (online \cup Mute) :
       /\ online' = online \cup {v}
       /\ beat' = [beat EXCEPT ![v] = now]
  /\ UNCHANGED <<session, command, now, paired, old, list, removed, asked>>

GoesOffline ==
  /\ \E v \in online : online' = online \ {v}
  /\ UNCHANGED <<session, command, history, now, paired, beat, old>>

\* Somebody else unpairs a VEN.
Others ==
  /\ \E v \in paired : paired' = paired \ {v} /\ online' = online \ {v}
  /\ Fault
  /\ UNCHANGED <<command, history, now, beat, old>>

Command ==
  \/ Load \/ List \/ LoadFails \/ DryRun \/ PromptDenied \/ Approve
  \/ Call \/ CallFails \/ CallsDone

Next ==
  \/ Command
  \/ Crash \/ NewCommand \/ Tick \/ ComesOnline \/ GoesOffline \/ Others

Spec == Init /\ [][Next]_vars

-----------------------------------------------------------------------------
(* Properties. *)

\* However often the VENs of a hostname take turns in being online, cleanup and
\* unpair leave one of those that have ever sent a heartbeat.
HostsKept ==
  flags.source = "file" =>
    \A v \in Vens \ Mute : \E u \in Vens \ (Mute \cup removed) : HostOf[u] = HostOf[v]

\* However its VENs are cut into pieces, an undisturbed increase-ven-rate treats
\* them alike, and once it has begun it asks each of them as often as
\* --for-minutes promises or more, and never not at all.
AskedEvenly ==
  cmd = "increase-ven-rate" /\ pc = "ended" /\ alone =>
    /\ \A u, v \in ToSet(targets) : asked[u] = asked[v]
    /\ wrote => \A v \in ToSet(targets) : asked[v] > 0 /\ asked[v] >= Iterations
=============================================================================
