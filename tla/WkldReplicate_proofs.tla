------------------------ MODULE WkldReplicate_proofs ------------------------
(* For all PCEs, hostnames and workloads, whatever crashes, fails and is      *)
(* changed meanwhile: a run nobody disturbs deletes only replicas whose       *)
(* source is gone, and after it, until somebody changes something, every      *)
(* source is on every PCE and no replica is without its source.               *)
EXTENDS WkldReplicate, FiniteSetTheorems, TLAPS

-----------------------------------------------------------------------------
(* The parts of the inductive invariant. *)

\* The shape of a workload: the type but for the range of the identifier.
IsWkld(w) ==
  /\ w = [id |-> w.id, host |-> w.host, managed |-> w.managed, ref |-> w.ref, data |-> w.data]
  /\ w.host \in Hosts /\ w.managed \in BOOLEAN /\ w.ref \in Refs \cup {None} /\ w.data \in Data

Shape ==
  /\ wk = [p \in PCEs |-> wk[p]] /\ view = [p \in PCEs |-> view[p]]
  /\ \A p \in PCEs : \A w \in wk[p] \cup view[p] : IsWkld(w)
  /\ consent \in Consents /\ skip \in SkipChoices
  /\ phase \in {"read", "decide", "apply", "ended"}
  /\ phase \in {"decide", "apply"} => unread = {}
  /\ unread \subseteq PCEs /\ undone \subseteq PCEs
  /\ cur \in PCEs \cup {None} /\ todo \subseteq Hosts
  /\ phase \in {"read", "decide"} => undone = PCEs /\ cur = None
  /\ cur \notin undone
  /\ cur = None => todo = {}
  /\ full \in Nat /\ (full > 0 => clean)
  /\ \A p \in unread : view[p] = {}

\* In an undisturbed run every source of a PCE that was read is seen.
SourcesSeen ==
  clean /\ phase # "ended" =>
    \A p \in PCEs \ unread : \A w \in wk[p] : Source(p, w) => Seen(p, w.host, w.managed)

\* Which workload a workload is or is a replica of.
Claim(p, w) == IF Source(p, w) THEN <<p, Kind(w)>> ELSE w.ref

Known(p) == wk[p] \cup (IF phase = "ended" THEN {} ELSE view[p])

\* What a PCE has, and what was read of it: identifiers and hostnames are unique.
Unique(W) ==
  \A v, w \in W : v.id = w.id \/ v.host = w.host => v = w

Agreed ==
  /\ \A p \in PCEs : Unique(wk[p]) /\ Unique(view[p]) /\ \A w \in wk[p] : w.id \in Ids
  /\ \A p, q \in PCEs : \A v \in Known(p), w \in Known(q) :
       v.host = w.host => Claim(p, v) = Claim(q, w)

\* A PCE that is being done, or is done, in an undisturbed run.
Doing(p) ==
  /\ \A w \in wk[p] : IF Rows(w.host) = {} THEN w \in view[p] ELSE w.id \notin Deletes(p)
  /\ \A h \in Hosts : Rows(h) # {} /\ ~(p = cur /\ h \in todo) =>
       \E w \in wk[p] : w.host = h /\ \E r \in Rows(h) : w.data = r.data
  /\ \A v \in view[p] : Exported(p, v) => \E w \in wk[p] : w.host = v.host /\ w.managed = v.managed

Undisturbed ==
  clean /\ phase # "ended" =>
    \A p \in PCEs \ unread :
      /\ p \in undone => view[p] = wk[p]
      /\ p \notin undone => Doing(p)
      /\ p \notin undone /\ p # cur => \A w \in wk[p] : Rows(w.host) # {}
      /\ \A h \in todo : Rows(h) # {}

\* Every workload is on every PCE with the same data, and its source exists.
Settled ==
  \A p \in PCEs : \A w \in wk[p] :
    /\ \A q \in PCEs : \E v \in wk[q] : v.host = w.host /\ v.data = w.data
    /\ SourceExists(Claim(p, w), w.host)

AllSettled ==
  full > 0 =>
    /\ Settled
    /\ phase # "ended" =>
         \A p \in PCEs : \A v \in view[p] : \E w \in wk[p] : w.host = v.host /\ w.data = v.data

-----------------------------------------------------------------------------
(* Rows of the CSV and the workloads they make. *)

\* Every run reads the workloads of all PCEs, and a hostname moves only when it
\* has no replicas left.
NoSkip == SkipChoices = {{}}
Stays == NoSkip /\ ~Moves /\ Settling > 0

LEMMA RowsAre ==
  ASSUME Shape, NEW h, NEW r \in Rows(h)
  PROVE  /\ \E q \in PCEs : \E v \in view[q] :
              /\ v.host = h /\ Exported(q, v) /\ r.ref = <<q, Kind(v)>> /\ r.data = v.data
              /\ IsWkld(v)
         /\ r.ref \in Refs /\ r.data \in Data /\ h \in Hosts
<1>1. PICK q \in PCEs : r \in {[ref |-> <<q, Kind(w)>>, data |-> w.data] :
                              w \in {v \in view[q] : v.host = h /\ Exported(q, v)}}
  BY DEF Rows
<1>2. PICK v \in view[q] : /\ v.host = h /\ Exported(q, v)
                          /\ r = [ref |-> <<q, Kind(v)>>, data |-> v.data]
  BY <1>1
<1>3. IsWkld(v)
  BY DEF Shape
<1>4. r.ref = <<q, Kind(v)>> /\ r.data = v.data
  BY <1>2
<1>5. Kind(v) \in {"managed", "unmanaged"} /\ v.data \in Data /\ v.host \in Hosts
  BY <1>3 DEF Kind, IsWkld
<1>6. <<q, Kind(v)>> \in Refs
  BY <1>5 DEF Refs
<1> QED
  BY <1>2, <1>3, <1>4, <1>5, <1>6

LEMMA RowOf ==
  ASSUME NEW q \in PCEs, NEW v \in view[q], Exported(q, v)
  PROVE  \E r \in Rows(v.host) : r.ref = <<q, Kind(v)>> /\ r.data = v.data
<1> DEFINE Row(w) == [ref |-> <<q, Kind(w)>>, data |-> w.data]
           r == Row(v)
           S == {w \in view[q] : w.host = v.host /\ Exported(q, w)}
<1>1. r \in Rows(v.host)
  <2>1. v \in S
    OBVIOUS
  <2>2. r \in {Row(w) : w \in S}
    <3> HIDE DEF S
    <3> QED
      BY <2>1
  <2>3. {Row(w) : w \in S} \subseteq Rows(v.host)
    BY DEF Rows
  <2> QED
    BY <2>2, <2>3
<1>2. r.ref = <<q, Kind(v)>> /\ r.data = v.data
  OBVIOUS
<1> HIDE DEF r
<1> QED
  BY <1>1, <1>2

\* A workload with another reference and other data, and any workload.
Updated(w, ref, data) == [w EXCEPT !.ref = ref, !.data = data]
Workload(i, h, m, ref, data) == [id |-> i, host |-> h, managed |-> m, ref |-> ref, data |-> data]

LEMMA UpdatedIs ==
  ASSUME NEW w, IsWkld(w), NEW ref \in Refs \cup {None}, NEW data \in Data, NEW u,
         u = Updated(w, ref, data)
  PROVE  /\ IsWkld(u) /\ u.id = w.id /\ u.host = w.host /\ u.managed = w.managed
         /\ u.ref = ref /\ u.data = data
<1>1. w = [id |-> w.id, host |-> w.host, managed |-> w.managed, ref |-> w.ref, data |-> w.data]
  BY DEF IsWkld
<1>2. u = [id |-> w.id, host |-> w.host, managed |-> w.managed, ref |-> ref, data |-> data]
  BY <1>1 DEF Updated
<1>3. u.id = w.id /\ u.host = w.host /\ u.managed = w.managed /\ u.ref = ref /\ u.data = data
  BY <1>2
<1> QED
  BY <1>2, <1>3 DEF IsWkld

LEMMA CreatedIs ==
  ASSUME NEW i, NEW h \in Hosts, NEW m \in BOOLEAN, NEW ref \in Refs \cup {None}, NEW data \in Data,
         NEW u, u = Workload(i, h, m, ref, data)
  PROVE  /\ IsWkld(u) /\ u.id = i /\ u.host = h /\ u.managed = m
         /\ u.ref = ref /\ u.data = data
<1>1. u.id = i /\ u.host = h /\ u.managed = m /\ u.ref = ref /\ u.data = data
  BY DEF Workload
<1> QED
  BY <1>1 DEF IsWkld, Workload

-----------------------------------------------------------------------------
(* What the steps do to the workloads. *)

\* The import of a row: a workload of the host takes it over, or one is made.
TakesOver(h, r, w, u) ==
  /\ w \in wk[cur] /\ w.host = h
  /\ IsWkld(u) /\ u.id = w.id /\ u.host = h /\ u.managed = w.managed /\ u.ref = r.ref /\ u.data = r.data
  /\ wk'[cur] = (wk[cur] \ {w}) \cup {u}
IsMade(h, r, u) ==
  /\ \A w \in wk[cur] : w.host # h
  /\ IsWkld(u) /\ u.id = FreshId(cur) /\ u.host = h /\ u.managed = FALSE /\ u.ref = r.ref
  /\ u.data = r.data
  /\ wk'[cur] = wk[cur] \cup {u}

LEMMA ImportForm ==
  ASSUME Shape, NEW h \in Hosts, ImportHost(h)
  PROVE  /\ cur \in PCEs /\ h \in todo /\ phase = "apply"
         /\ wk' = [p \in PCEs |-> wk'[p]] /\ \A p \in PCEs \ {cur} : wk'[p] = wk[p]
         /\ \E r \in Rows(h) :
              \/ \E w, u : TakesOver(h, r, w, u)
              \/ \E u : IsMade(h, r, u)
<1>1. cur \in PCEs /\ h \in todo /\ phase = "apply"
  BY DEF ImportHost, Shape
<1> DEFINE same == {w \in wk[cur] : w.host = h}
           Made(r) == Workload(FreshId(cur), h, FALSE, r.ref, r.data)
           Taken(w, r) == Updated(w, r.ref, r.data)
<1>2. PICK r \in Rows(h) :
        IF same # {} THEN \E w \in same : wk' = [wk EXCEPT ![cur] = (@ \ {w}) \cup {Taken(w, r)}]
        ELSE wk' = [wk EXCEPT ![cur] = @ \cup {Made(r)}]
  BY DEF ImportHost, Updated, Workload
<1>3. r.ref \in Refs \cup {None} /\ r.data \in Data
  BY RowsAre
<1>4. wk = [p \in PCEs |-> wk[p]] /\ \A w \in wk[cur] : IsWkld(w)
  BY <1>1 DEF Shape
<1>5. CASE same # {}
  <2>1. PICK w \in same : wk' = [wk EXCEPT ![cur] = (@ \ {w}) \cup {Taken(w, r)}]
    BY <1>2, <1>5
  <2>2. PICK u : u = Taken(w, r)
    OBVIOUS
  <2>3. /\ wk' = [p \in PCEs |-> wk'[p]] /\ \A p \in PCEs \ {cur} : wk'[p] = wk[p]
        /\ wk'[cur] = (wk[cur] \ {w}) \cup {u}
    BY <1>1, <1>4, <2>1, <2>2
  <2>4. /\ IsWkld(u) /\ u.id = w.id /\ u.host = w.host /\ u.managed = w.managed
        /\ u.ref = r.ref /\ u.data = r.data
    <3>1. IsWkld(w) /\ u = Updated(w, r.ref, r.data)
      BY <1>4, <2>2
    <3> HIDE DEF same, Taken, Made
    <3> QED
      BY <1>3, <3>1, UpdatedIs
  <2>5. TakesOver(h, r, w, u)
    BY <2>3, <2>4 DEF TakesOver
  <2> QED
    BY <1>1, <2>3, <2>5
<1>6. CASE same = {}
  <2>1. PICK u : u = Made(r)
    OBVIOUS
  <2>2. /\ wk' = [p \in PCEs |-> wk'[p]] /\ \A p \in PCEs \ {cur} : wk'[p] = wk[p]
        /\ wk'[cur] = wk[cur] \cup {u}
    BY <1>1, <1>2, <1>4, <1>6, <2>1
  <2>3. /\ IsWkld(u) /\ u.id = FreshId(cur) /\ u.host = h /\ u.managed = FALSE
        /\ u.ref = r.ref /\ u.data = r.data
    <3>1. PICK m \in BOOLEAN : m = FALSE
      BY Zenon
    <3>2. u = Workload(FreshId(cur), h, m, r.ref, r.data)
      BY <2>1, <3>1
    <3> QED
      BY <1>3, <3>1, <3>2, CreatedIs
  <2>4. IsMade(h, r, u)
    BY <1>6, <2>2, <2>3 DEF IsMade
  <2> QED
    BY <1>1, <2>2, <2>4
<1> QED
  BY <1>5, <1>6

\* What somebody else does to the workloads of a PCE.
Changes ==
  \/ \E p \in PCEs, h \in Hosts, m \in BOOLEAN, d \in Data : AddSource(p, h, m, d)
  \/ \E p \in PCEs : \E w \in wk[p] : RemoveSource(p, w) \/ \E d \in Data : Relabel(p, w, d)

Adds(p, u) ==
  /\ IsWkld(u) /\ u.id = FreshId(p) /\ u.ref = None
  /\ \A q \in PCEs : \A w \in wk[q] : w.host = u.host => Moves
  /\ Moves \/ phase = "ended"
  /\ wk'[p] = wk[p] \cup {u}
Replaces(p, w, u) ==
  /\ w \in wk[p] /\ IsWkld(u) /\ u.id = w.id /\ u.host = w.host /\ u.managed = w.managed
  /\ u.ref = w.ref /\ wk'[p] = (wk[p] \ {w}) \cup {u}

LEMMA ChangeForm ==
  ASSUME Shape, Changes
  PROVE  /\ wk' = [q \in PCEs |-> wk'[q]]
         /\ \E p \in PCEs :
              /\ \A q \in PCEs \ {p} : wk'[q] = wk[q]
              /\ \/ \E u : Adds(p, u)
                 \/ wk'[p] \subseteq wk[p]
                 \/ \E w, u : Replaces(p, w, u)
         /\ full' = 0 /\ clean' = FALSE
         /\ UNCHANGED <<consent, skip, phase, view, unread, undone, cur, todo, answer, wrote, runs>>
<1> DEFINE One(p) ==
      /\ \A q \in PCEs \ {p} : wk'[q] = wk[q]
      /\ \/ \E u : Adds(p, u)
         \/ wk'[p] \subseteq wk[p]
         \/ \E w, u : Replaces(p, w, u)
<1>1. wk = [q \in PCEs |-> wk[q]]
  BY DEF Shape
<1>2. ASSUME NEW p \in PCEs, NEW h \in Hosts, NEW m \in BOOLEAN, NEW d \in Data, AddSource(p, h, m, d)
      PROVE  wk' = [q \in PCEs |-> wk'[q]] /\ One(p)
  <2>1. PICK u : u = Workload(FreshId(p), h, m, None, d)
    OBVIOUS
  <2>2. wk' = [wk EXCEPT ![p] = wk[p] \cup {u}]
    BY <1>2, <2>1 DEF AddSource, Others, Workload
  <2>3. /\ wk' = [q \in PCEs |-> wk'[q]] /\ \A q \in PCEs \ {p} : wk'[q] = wk[q]
        /\ wk'[p] = wk[p] \cup {u}
    BY <1>1, <2>2
  <2>4. IsWkld(u) /\ u.id = FreshId(p) /\ u.ref = None /\ u.host = h
    BY <2>1, CreatedIs
  <2>5. Adds(p, u)
    BY <1>2, <2>3, <2>4 DEF Adds, AddSource
  <2> QED
    BY <2>3, <2>5
<1>3. ASSUME NEW p \in PCEs, NEW w \in wk[p], RemoveSource(p, w)
      PROVE  wk' = [q \in PCEs |-> wk'[q]] /\ One(p)
  <2>1. wk' = [wk EXCEPT ![p] = wk[p] \ {w}]
    BY <1>3 DEF RemoveSource, Others
  <2> QED
    BY <1>1, <2>1
<1>4. ASSUME NEW p \in PCEs, NEW w \in wk[p], NEW d \in Data, Relabel(p, w, d)
      PROVE  wk' = [q \in PCEs |-> wk'[q]] /\ One(p)
  <2>1. PICK u : u = [w EXCEPT !.data = d]
    OBVIOUS
  <2>2. wk' = [wk EXCEPT ![p] = (wk[p] \ {w}) \cup {u}]
    BY <1>4, <2>1 DEF Relabel, Others
  <2>3. /\ wk' = [q \in PCEs |-> wk'[q]] /\ \A q \in PCEs \ {p} : wk'[q] = wk[q]
        /\ wk'[p] = (wk[p] \ {w}) \cup {u}
    BY <1>1, <2>2
  <2>4. IsWkld(w)
    BY DEF Shape
  <2>5. w = [id |-> w.id, host |-> w.host, managed |-> w.managed, ref |-> w.ref, data |-> w.data]
    BY <2>4 DEF IsWkld
  <2>6. u = Workload(w.id, w.host, w.managed, w.ref, d)
    BY <2>1, <2>5 DEF Workload
  <2>7. w.host \in Hosts /\ w.managed \in BOOLEAN /\ w.ref \in Refs \cup {None}
    BY <2>4 DEF IsWkld
  <2>8. Replaces(p, w, u)
    BY <2>3, <2>6, <2>7, CreatedIs DEF Replaces
  <2> QED
    BY <2>3, <2>8
<1>5. /\ full' = 0 /\ clean' = FALSE
      /\ UNCHANGED <<consent, skip, phase, view, unread, undone, cur, todo, answer, wrote, runs>>
  BY DEF Changes, AddSource, RemoveSource, Relabel, Others
<1> HIDE DEF One
<1>6. \E p \in PCEs : One(p) /\ wk' = [q \in PCEs |-> wk'[q]]
  BY <1>2, <1>3, <1>4 DEF Changes
<1> QED
  BY <1>5, <1>6 DEF One

\* What is read of a PCE.
LEMMA ReadForm ==
  ASSUME Shape, NEW p \in PCEs, Read(p)
  PROVE  /\ p \in unread /\ phase = "read" /\ wk' = wk
         /\ view' = [q \in PCEs |-> view'[q]] /\ \A q \in PCEs \ {p} : view'[q] = view[q]
         /\ view'[p] \subseteq wk[p]
         /\ NoSkip => \A w \in wk[p] :
              /\ w.managed => w \in view'[p]
              /\ \E v \in view'[p] : v.host = w.host /\ v.managed = w.managed
<1> DEFINE U == {w \in wk[p] : ~w.managed}
<1>1. PICK S \in OnePerHost(U) : view' = [view EXCEPT ![p] = Visible(p, wk[p]) \cup S]
  BY DEF Read
<1>2. view = [q \in PCEs |-> view[q]]
  BY DEF Shape
<1>3. /\ view' = [q \in PCEs |-> view'[q]] /\ \A q \in PCEs \ {p} : view'[q] = view[q]
      /\ view'[p] = Visible(p, wk[p]) \cup S
  BY <1>1, <1>2
<1>4. S \subseteq U /\ Visible(p, wk[p]) \subseteq wk[p]
  BY <1>1 DEF OnePerHost, Visible
<1>5. view'[p] \subseteq wk[p]
  BY <1>3, <1>4
<1>6. ASSUME NoSkip, NEW w \in wk[p]
      PROVE  /\ w.managed => w \in view'[p]
             /\ \E v \in view'[p] : v.host = w.host /\ v.managed = w.managed
  <2>1. w.host \in Hosts /\ w.managed \in BOOLEAN
    BY DEF Shape, IsWkld
  <2>2. skip = {}
    BY <1>6 DEF NoSkip, Shape
  <2>3. w.managed => w \in view'[p]
    BY <1>3, <2>2 DEF Visible
  <2>4. CASE ~w.managed
    <3>1. w \in U
      BY <2>4
    <3>2. Cardinality({v \in S : v.host = w.host}) = 1
      BY <1>1, <2>1, <3>1 DEF OnePerHost
    <3>3. {v \in S : v.host = w.host} # {}
      BY <3>2, FS_EmptySet
    <3>4. PICK v \in S : v.host = w.host
      BY <3>3
    <3>5. v \in view'[p] /\ ~v.managed /\ v \in wk[p]
      BY <1>3, <1>4
    <3>6. v.managed \in BOOLEAN
      BY <3>5 DEF Shape, IsWkld
    <3>7. v.managed = w.managed
      BY <2>1, <2>4, <3>5, <3>6
    <3> QED
      BY <2>3, <3>4, <3>5, <3>7
  <2> QED
    BY <2>3, <2>4
<1> QED
  BY <1>3, <1>5, <1>6 DEF Read

\* Steps that change neither workloads nor what was read of them.
Quiet ==
  \/ \E p \in PCEs : StartPCE(p)
  \/ DryRun \/ PromptDenied \/ Approve \/ FinishPCE \/ Finish \/ Crash

LEMMA QuietForm ==
  ASSUME Shape, Quiet
  PROVE  /\ UNCHANGED <<wk, view, unread, consent, skip>>
         /\ phase # "ended" /\ phase' \in {"apply", "ended"}
         /\ phase' = "apply" => phase \in {"decide", "apply"}
         /\ clean' => clean' = clean
  <1> USE DEF Decision
  <1>1. CASE \E p \in PCEs : StartPCE(p)
    BY <1>1 DEF StartPCE
  <1>2. CASE DryRun \/ PromptDenied \/ Approve
    BY <1>2 DEF DryRun, PromptDenied, Approve
  <1>3. CASE FinishPCE \/ Finish
    BY <1>3 DEF FinishPCE, Finish
  <1>4. CASE Crash
    BY <1>4 DEF Crash
  <1> QED
    BY <1>1, <1>2, <1>3, <1>4 DEF Quiet

LEMMA NextIs ==
  ASSUME Next
  PROVE  \/ \E p \in PCEs : Read(p)
         \/ Quiet
         \/ \E h \in Hosts : ImportHost(h)
         \/ cur # None /\ \E w \in wk[cur] : DeleteHref(w)
         \/ Changes
         \/ Rerun
BY DEF Next, RunStep, Quiet, Changes

LEMMA DeleteForm ==
  ASSUME Shape, cur # None, NEW w \in wk[cur], DeleteHref(w)
  PROVE  /\ cur \in PCEs /\ phase = "apply" /\ todo = {} /\ w.id \in Deletes(cur)
         /\ wk' = [p \in PCEs |-> wk'[p]] /\ \A p \in PCEs \ {cur} : wk'[p] = wk[p]
         /\ wk'[cur] = wk[cur] \ {w}
         /\ UNCHANGED <<consent, skip, phase, view, unread, undone, cur, todo, clean, full>>
<1>1. cur \in PCEs /\ wk = [p \in PCEs |-> wk[p]]
  BY DEF Shape
<1> QED
  BY <1>1 DEF DeleteHref

-----------------------------------------------------------------------------
(* The shape. *)

LEMMA ShapeInit == Init => Shape
BY InputAssumption DEF Init, Shape, Nothing

LEMMA ShapeStep ==
  ASSUME Shape, [Next]_vars
  PROVE  Shape'
<1>1. CASE \E p \in PCEs : Read(p)
  <2>1. PICK p \in PCEs : Read(p)
    BY <1>1
  <2>2. \A q \in PCEs : \A w \in wk'[q] \cup view'[q] : IsWkld(w)
    BY <2>1, ReadForm DEF Shape
  <2>3. /\ UNCHANGED <<consent, skip, undone, cur, todo, clean, full>>
        /\ unread' = unread \ {p} /\ phase' = IF unread = {p} THEN "decide" ELSE "read"
    BY <2>1 DEF Read, LastRead
  <2> QED
    BY <2>1, <2>2, <2>3, ReadForm DEF Shape
<1>2. CASE Quiet
  <2>1. UNCHANGED <<wk, view, unread, consent, skip>>
    BY <1>2, QuietForm
  <2>2. CASE \E p \in PCEs : StartPCE(p)
    BY <2>1, <2>2, InputAssumption DEF StartPCE, Shape
  <2>3. CASE DryRun \/ PromptDenied \/ Approve
    BY <2>1, <2>3 DEF DryRun, PromptDenied, Approve, Decision, Shape
  <2>4. CASE FinishPCE
    BY <2>1, <2>4, InputAssumption DEF FinishPCE, Shape
  <2>5. CASE Finish
    BY <2>1, <2>5 DEF Finish, Shape
  <2>6. CASE Crash
    BY <2>1, <2>6 DEF Crash, Shape
  <2> QED
    BY <1>2, <2>2, <2>3, <2>4, <2>5, <2>6 DEF Quiet
<1>3. CASE \E h \in Hosts : ImportHost(h)
  <2>1. PICK h \in Hosts : ImportHost(h)
    BY <1>3
  <2>2. /\ UNCHANGED <<consent, skip, phase, view, unread, undone, cur, clean, full>>
        /\ todo' \subseteq todo
    BY <2>1 DEF ImportHost
  <2>3. \A p \in PCEs : \A w \in wk'[p] : IsWkld(w)
    <3>1. cur \in PCEs /\ \A p \in PCEs \ {cur} : wk'[p] = wk[p]
      BY <2>1, ImportForm
    <3>2. \E u : IsWkld(u) /\ wk'[cur] \subseteq wk[cur] \cup {u}
      BY <2>1, ImportForm DEF TakesOver, IsMade
    <3>3. \A w \in wk'[cur] : IsWkld(w)
      BY <3>1, <3>2 DEF Shape
    <3> QED
      BY <3>1, <3>3 DEF Shape
  <2>4. wk' = [p \in PCEs |-> wk'[p]]
    BY <2>1, ImportForm
  <2> QED
    BY <2>2, <2>3, <2>4 DEF Shape
<1>4. CASE cur # None /\ \E w \in wk[cur] : DeleteHref(w)
  <2>1. PICK w \in wk[cur] : DeleteHref(w)
    BY <1>4
  <2>2. \A p \in PCEs : wk'[p] \subseteq wk[p]
    BY <1>4, <2>1, DeleteForm
  <2> QED
    BY <1>4, <2>1, <2>2, DeleteForm DEF Shape
<1>5. CASE Changes
  <2>1. \A p \in PCEs : \A w \in wk'[p] : IsWkld(w)
    BY <1>5, ChangeForm DEF Adds, Replaces, Shape
  <2>2. /\ wk' = [q \in PCEs |-> wk'[q]] /\ full' = 0
        /\ UNCHANGED <<consent, skip, phase, view, unread, undone, cur, todo>>
    BY <1>5, ChangeForm
  <2> QED
    BY <2>1, <2>2 DEF Shape
<1>6. CASE Rerun
  BY <1>6, InputAssumption DEF Rerun, Shape, Nothing
<1>7. CASE UNCHANGED vars
  BY <1>7 DEF vars, Shape
<1> QED
  BY <1>1, <1>2, <1>3, <1>4, <1>5, <1>6, <1>7, NextIs

-----------------------------------------------------------------------------
(* Deletions of an undisturbed run. *)

\* A source is looked for as what it is.
LEMMA KindIs ==
  ASSUME NEW w, w.managed \in BOOLEAN
  PROVE  (Kind(w) = "managed") = w.managed
<1>1. CASE w.managed = TRUE
  BY <1>1 DEF Kind
<1>2. CASE w.managed = FALSE
  <2>1. Kind(w) = "unmanaged"
    BY <1>2 DEF Kind
  <2>2. (Kind(w) = "managed") = FALSE
    BY <2>1
  <2> QED
    BY <1>2, <2>2, Zenon
<1> QED
  BY <1>1, <1>2

\* An unmanaged workload becomes a source by a row of its own PCE only.
LEMMA BecomesSource ==
  ASSUME Shape, NEW h, NEW r \in Rows(h), NEW p, r.ref = <<p, "unmanaged">>
  PROVE  Seen(p, h, FALSE)
<1>1. PICK q \in PCEs : \E v \in view[q] :
         v.host = h /\ r.ref = <<q, Kind(v)>> /\ IsWkld(v)
  BY RowsAre
<1>2. PICK v \in view[q] : v.host = h /\ r.ref = <<q, Kind(v)>> /\ IsWkld(v)
  BY <1>1
<1>3. q = p /\ Kind(v) = "unmanaged"
  BY <1>2
<1>4. v.managed = FALSE
  BY <1>2, <1>3 DEF Kind, IsWkld
<1> QED
  BY <1>2, <1>3, <1>4 DEF Seen

LEMMA SeenInit == Init => SourcesSeen
BY DEF Init, SourcesSeen

LEMMA ImportSeen ==
  ASSUME Shape, SourcesSeen, clean, NEW h \in Hosts, ImportHost(h)
  PROVE  \A p \in PCEs : \A w \in wk'[p] : Source(p, w) => Seen(p, w.host, w.managed)
<1>1. cur \in PCEs /\ \A p \in PCEs \ {cur} : wk'[p] = wk[p]
  BY ImportForm
<1>2. phase = "apply" /\ unread = {}
  BY ImportForm DEF Shape
<1>3. \A p \in PCEs : \A w \in wk[p] : Source(p, w) => Seen(p, w.host, w.managed)
  BY <1>2 DEF SourcesSeen
<1>4. PICK r \in Rows(h) : \/ \E w, u : TakesOver(h, r, w, u)
                          \/ \E u : IsMade(h, r, u)
  BY ImportForm
<1>5. r.ref # None
  BY RowsAre, InputAssumption
<1>6. ASSUME NEW u, u.managed = FALSE, u.ref = r.ref, u.host = h, Source(cur, u)
      PROVE  Seen(cur, u.host, u.managed)
  <2>1. u.ref = <<cur, "unmanaged">>
    BY <1>5, <1>6 DEF Source
  <2>2. Seen(cur, h, FALSE)
    BY <1>6, <2>1, BecomesSource
  <2> QED
    BY <1>6, <2>2
<1>7. ASSUME NEW w, NEW u, TakesOver(h, r, w, u), NEW x \in wk'[cur], Source(cur, x)
      PROVE  Seen(cur, x.host, x.managed)
  <2>1. x \in wk[cur] \/ x = u
    BY <1>7 DEF TakesOver
  <2>2. w \in wk[cur] /\ w.host = h /\ u.host = h /\ u.managed = w.managed /\ u.ref = r.ref /\ IsWkld(u)
    BY <1>7 DEF TakesOver
  <2>3. CASE x = u /\ u.managed = FALSE
    BY <1>6, <1>7, <2>2, <2>3
  <2>4. CASE x = u /\ u.managed = TRUE
    <3>1. Source(cur, w)
      BY <2>2, <2>4 DEF Source
    <3>2. Seen(cur, w.host, w.managed)
      BY <1>1, <1>3, <2>2, <3>1
    <3> QED
      BY <2>2, <2>4, <3>2
  <2>5. u.managed \in BOOLEAN
    BY <2>2 DEF IsWkld
  <2> QED
    BY <1>1, <1>3, <1>7, <2>1, <2>3, <2>4, <2>5
<1>8. ASSUME NEW u, IsMade(h, r, u), NEW x \in wk'[cur], Source(cur, x)
      PROVE  Seen(cur, x.host, x.managed)
  <2>1. x \in wk[cur] \/ x = u
    BY <1>8 DEF IsMade
  <2>2. u.managed = FALSE /\ u.ref = r.ref /\ u.host = h
    BY <1>8 DEF IsMade
  <2> QED
    BY <1>1, <1>3, <1>6, <1>8, <2>1, <2>2
<1> QED
  BY <1>1, <1>3, <1>4, <1>7, <1>8

LEMMA SeenStep ==
  ASSUME NoSkip, Shape, SourcesSeen, [Next]_vars
  PROVE  SourcesSeen'
<1> SUFFICES ASSUME clean', phase' # "ended"
             PROVE  \A p \in PCEs \ unread' : \A w \in wk'[p] : Source(p, w) => Seen(p, w.host, w.managed)'
  BY DEF SourcesSeen, Source
<1>1. CASE \E p \in PCEs : Read(p)
  <2>1. PICK p \in PCEs : Read(p)
    BY <1>1
  <2>2. clean' = clean /\ unread' = unread \ {p}
    BY <2>1 DEF Read
  <2>3. phase = "read" /\ wk' = wk /\ \A q \in PCEs \ {p} : view'[q] = view[q]
    BY <2>1, ReadForm
  <2>4. \A w \in wk[p] : \E v \in view'[p] : v.host = w.host /\ v.managed = w.managed
    BY <2>1, ReadForm
  <2>5. ASSUME NEW q \in PCEs \ unread', q # p, NEW w \in wk[q], Source(q, w)
        PROVE  \E v \in view'[q] : v.host = w.host /\ v.managed = w.managed
    BY <2>2, <2>3, <2>5 DEF SourcesSeen, Seen
  <2> QED
    BY <2>3, <2>4, <2>5 DEF Seen
<1>2. CASE Quiet
  BY <1>2, QuietForm DEF SourcesSeen, Seen
<1>3. CASE \E h \in Hosts : ImportHost(h)
  <2>1. PICK h \in Hosts : ImportHost(h)
    BY <1>3
  <2>2. clean' = clean /\ view' = view
    BY <2>1 DEF ImportHost
  <2> QED
    BY <2>1, <2>2, ImportSeen DEF Seen
<1>4. CASE cur # None /\ \E w \in wk[cur] : DeleteHref(w)
  <2>1. PICK w \in wk[cur] : DeleteHref(w)
    BY <1>4
  <2>2. \A p \in PCEs : wk'[p] \subseteq wk[p]
    BY <1>4, <2>1, DeleteForm
  <2>3. UNCHANGED <<phase, view, unread, clean>>
    BY <1>4, <2>1, DeleteForm
  <2> QED
    BY <2>2, <2>3 DEF SourcesSeen, Seen
<1>5. CASE Changes
  BY <1>5, ChangeForm
<1>6. CASE Rerun
  BY <1>6 DEF Rerun
<1>7. CASE UNCHANGED vars
  BY <1>7 DEF vars, SourcesSeen, Seen
<1> QED
  BY <1>1, <1>2, <1>3, <1>4, <1>5, <1>6, <1>7, NextIs

\* What is to be deleted was read as a replica and its source was not.
LEMMA DeletesAre ==
  ASSUME Shape, NEW p \in PCEs, NEW i \in Deletes(p)
  PROVE  \E v \in view[p] : /\ v.id = i /\ ~v.managed /\ v.ref \in Refs /\ v.ref # <<p, "unmanaged">>
                           /\ ~SourceSeen(v.ref, v.host) /\ IsWkld(v)
<1>1. PICK v \in view[p] : /\ v.id = i /\ ~v.managed /\ v.ref \notin {None, <<p, "unmanaged">>}
                          /\ ~SourceSeen(v.ref, v.host)
  BY DEF Deletes
<1>2. IsWkld(v)
  BY DEF Shape
<1> QED
  BY <1>1, <1>2 DEF IsWkld

\* A source that exists is seen as what a reference says it is.
LEMMA ExistsIsSeen ==
  ASSUME Shape, SourcesSeen, clean, phase = "apply", NEW ref \in Refs, NEW h, SourceExists(ref, h)
  PROVE  SourceSeen(ref, h)
<1>1. ref[1] \in PCEs /\ unread = {}
  BY DEF Refs, Shape
<1>2. PICK w \in wk[ref[1]] : w.host = h /\ Source(ref[1], w) /\ Kind(w) = ref[2]
  BY DEF SourceExists
<1>3. Seen(ref[1], h, w.managed)
  BY <1>1, <1>2 DEF SourcesSeen
<1>4. w.managed \in BOOLEAN
  BY <1>1 DEF Shape, IsWkld
<1>5. (ref[2] = "managed") = w.managed
  BY <1>2, <1>4, KindIs
<1> QED
  BY <1>3, <1>5 DEF SourceSeen

LEMMA OnlyGone ==
  ASSUME NoSkip, Shape, SourcesSeen, [Next]_vars, clean', phase' # "read",
         NEW p \in PCEs, NEW w \in wk[p], \A v \in wk'[p] : v.id # w.id
  PROVE  \E v \in view[p] : /\ v.id = w.id /\ ~v.managed /\ v.ref # None
                           /\ ~SourceExists(v.ref, v.host)
<1>1. CASE wk' = wk
  BY <1>1
<1>2. CASE \E h \in Hosts : ImportHost(h)
  <2>1. PICK h \in Hosts : ImportHost(h)
    BY <1>2
  <2>2. \A q \in PCEs \ {cur} : wk'[q] = wk[q]
    BY <2>1, ImportForm
  <2>3. \A x \in wk[cur] : \E v \in wk'[cur] : v.id = x.id
    <3>1. ASSUME NEW r, NEW y, NEW u, TakesOver(h, r, y, u), NEW x \in wk[cur]
          PROVE  \E v \in wk'[cur] : v.id = x.id
      <4>1. u \in wk'[cur] /\ u.id = y.id /\ wk[cur] \ {y} \subseteq wk'[cur]
        BY <3>1 DEF TakesOver
      <4> QED
        BY <4>1
    <3>2. ASSUME NEW r, NEW u, IsMade(h, r, u)
          PROVE  wk[cur] \subseteq wk'[cur]
      BY <3>2 DEF IsMade
    <3> QED
      BY <2>1, <3>1, <3>2, ImportForm
  <2> QED
    BY <2>2, <2>3
<1>3. CASE cur # None /\ \E x \in wk[cur] : DeleteHref(x)
  <2>1. PICK x \in wk[cur] : DeleteHref(x)
    BY <1>3
  <2>2. p = cur /\ w = x
    BY <1>3, <2>1, DeleteForm
  <2>3. w.id \in Deletes(p) /\ phase = "apply" /\ clean
    BY <1>3, <2>1, <2>2, DeleteForm
  <2>4. PICK v \in view[p] : /\ v.id = w.id /\ ~v.managed /\ v.ref \in Refs
                            /\ ~SourceSeen(v.ref, v.host)
    BY <2>3, DeletesAre
  <2>5. ~SourceExists(v.ref, v.host)
    BY <2>3, <2>4, ExistsIsSeen
  <2> QED
    BY <2>4, <2>5, InputAssumption
<1>4. CASE Changes
  BY <1>4, ChangeForm
<1>5. CASE (\E q \in PCEs : Read(q)) \/ Quiet \/ Rerun \/ UNCHANGED vars
  BY <1>1, <1>5, QuietForm DEF Read, Rerun, vars
<1> QED
  BY <1>1, <1>2, <1>3, <1>4, <1>5, NextIs

\* A run nobody disturbs and that skips no PCE deletes only what it read as a
\* replica and whose source is gone, whoever has moved a hostname and whatever
\* earlier runs have left (wkldreplicate.go, replicate).
THEOREM DeletesOnlyReplicas == NoSkip => (Spec => DeletedOnlyIfSourceGone)
<1> SUFFICES ASSUME NoSkip PROVE Spec => DeletedOnlyIfSourceGone
  OBVIOUS
<1>1. Shape /\ SourcesSeen /\ [Next]_vars => (Shape /\ SourcesSeen)'
  BY ShapeStep, SeenStep
<1>2. Shape /\ SourcesSeen /\ [Next]_vars =>
        [clean' /\ phase' # "read" =>
           \A p \in PCEs : \A w \in wk[p] :
             (\A v \in wk'[p] : v.id # w.id) =>
               \E v \in view[p] : /\ v.id = w.id /\ ~v.managed
                                  /\ v.ref # None
                                  /\ ~SourceExists(v.ref, v.host)]_vars
  BY OnlyGone
<1> QED
  BY ShapeInit, SeenInit, <1>1, <1>2, PTL DEF Spec, DeletedOnlyIfSourceGone
-----------------------------------------------------------------------------
(* Which workload a workload stands for. *)

LEMMA IntervalCount ==
  ASSUME NEW k \in Nat
  PROVE  IsFiniteSet(1..k) /\ Cardinality(1..k) = k
<1>1. IsFiniteSet(1..k) /\ Cardinality(1..k) = IF 1 > k THEN 0 ELSE k - 1 + 1
  BY FS_Interval
<1>2. (IF 1 > k THEN 0 ELSE k - 1 + 1) = k
  OBVIOUS
<1> QED
  BY <1>1, <1>2

\* With one workload of a hostname on a PCE, and one free hostname, there are
\* identifiers to give.
LEMMA UnusedId ==
  ASSUME Shape, NEW p \in PCEs, NEW h \in Hosts, Unique(wk[p]), Unique(view[p]),
         \A w \in wk[p] : w.host # h
  PROVE  \E i \in Ids : i \notin Deletes(p) /\ \A w \in wk[p] : w.id # i
<1> SUFFICES ASSUME \A i \in Ids : i \in Deletes(p) \/ \E w \in wk[p] : w.id = i
             PROVE  FALSE
  OBVIOUS
<1> DEFINE T == ({1, 2} \X Hosts) \ {<<1, h>>}
           Owner(i, t) == \/ t[1] = 1 /\ \E w \in wk[p] : w.id = i /\ w.host = t[2]
                          \/ t[1] = 2 /\ \E v \in view[p] : v.id = i /\ v.host = t[2]
           f == [i \in Ids |-> CHOOSE t \in T : Owner(i, t)]
           n == Cardinality(Hosts)
           m == Cardinality(PCEs)
<1>1. ASSUME NEW i \in Ids
      PROVE  \E t \in T : Owner(i, t)
  <2>1. CASE \E w \in wk[p] : w.id = i
    <3>1. PICK w \in wk[p] : w.id = i
      BY <2>1
    <3>2. w.host \in Hosts /\ w.host # h
      BY DEF Shape, IsWkld
    <3>3. <<1, w.host>> \in T /\ Owner(i, <<1, w.host>>)
      BY <3>1, <3>2
    <3> QED
      BY <3>3
  <2>2. CASE i \in Deletes(p)
    <3>1. PICK v \in view[p] : v.id = i /\ IsWkld(v)
      BY <2>2, DeletesAre
    <3>2. <<2, v.host>> \in T /\ Owner(i, <<2, v.host>>)
      BY <3>1 DEF IsWkld
    <3> QED
      BY <3>2
  <2> QED
    BY <2>1, <2>2
<1>2. ASSUME NEW i \in Ids, NEW j \in Ids, NEW t \in T, Owner(i, t), Owner(j, t)
      PROVE  i = j
  BY <1>2 DEF Unique
<1>3. f \in [Ids -> T] /\ \A i \in Ids : Owner(i, f[i])
  <2> HIDE DEF T, Owner
  <2> QED
    BY <1>1
<1>4. /\ IsFiniteSet(Ids) /\ IsFiniteSet(T) /\ Cardinality(T) < Cardinality(Ids)
  <2>1. n \in Nat /\ m \in Nat /\ n > 0 /\ m > 0
    <3>1. n \in Nat /\ m \in Nat
      BY FS_CardinalityType, InputAssumption
    <3>2. n # 0 /\ m # 0
      BY FS_EmptySet, InputAssumption
    <3> HIDE DEF n, m
    <3> QED
      BY <3>1, <3>2
  <2>2. 2 * n * m \in Nat /\ 2 * n * m >= 2 * n
    <3> HIDE DEF n, m
    <3>1. PICK k \in Nat : m = k + 1
      BY <2>1
    <3>2. n * k \in Nat /\ n * k >= 0
      BY <2>1, <3>1
    <3>3. 2 * n * m = 2 * n + 2 * (n * k)
      BY <2>1, <3>1
    <3> QED
      BY <2>1, <3>2, <3>3
  <2>3. IsFiniteSet(Ids) /\ Cardinality(Ids) = 2 * n * m
    <3>1. Ids = 1..(2 * n * m)
      BY DEF Ids
    <3> HIDE DEF n, m
    <3>2. PICK k \in Nat : k = 2 * n * m
      BY <2>2
    <3>3. IsFiniteSet(1..k) /\ Cardinality(1..k) = k
      BY IntervalCount
    <3> QED
      BY <3>1, <3>2, <3>3
  <2>4. IsFiniteSet({1, 2}) /\ Cardinality({1, 2}) = 2
    <3>1. {1, 2} = 1..2
      OBVIOUS
    <3>2. IsFiniteSet(1..2) /\ Cardinality(1..2) = 2
      BY IntervalCount
    <3> QED
      BY <3>1, <3>2
  <2>5. IsFiniteSet({1, 2} \X Hosts) /\ Cardinality({1, 2} \X Hosts) = 2 * n
    BY <2>4, FS_Product, InputAssumption
  <2>6. <<1, h>> \in {1, 2} \X Hosts
    OBVIOUS
  <2>7. IsFiniteSet(T) /\ Cardinality(T) = 2 * n - 1
    <3>1. PICK S : S = {1, 2} \X Hosts
      OBVIOUS
    <3>2. IsFiniteSet(S \ {<<1, h>>}) /\ Cardinality(S \ {<<1, h>>}) = Cardinality(S) - 1
      BY <2>5, <2>6, <3>1, FS_RemoveElement
    <3>3. T = S \ {<<1, h>>}
      BY <3>1
    <3>4. Cardinality(S) = 2 * n
      BY <2>5, <3>1
    <3> HIDE DEF T, n
    <3> QED
      BY <3>2, <3>3, <3>4
  <2> HIDE DEF n, m, T
  <2> QED
    BY <2>1, <2>2, <2>3, <2>7
<1>5. \E i, j \in Ids : i # j /\ f[i] = f[j]
  <2> HIDE DEF T, f
  <2> QED
    BY <1>3, <1>4, FS_PigeonHole
<1>6. \A i \in Ids : f[i] \in T
  <2> HIDE DEF T, f
  <2> QED
    BY <1>3
<1> HIDE DEF T, Owner, f
<1> QED
  BY <1>2, <1>3, <1>5, <1>6

LEMMA FreshIs ==
  ASSUME Shape, NEW p \in PCEs, NEW h \in Hosts, Unique(wk[p]), Unique(view[p]),
         \A w \in wk[p] : w.host # h
  PROVE  FreshId(p) \in Ids /\ FreshId(p) \notin Deletes(p) /\ \A w \in wk[p] : w.id # FreshId(p)
BY UnusedId DEF FreshId

\* Without --skip-source just the sources are exported.
LEMMA ExportsSources ==
  ASSUME NoSkip, Shape, NEW p \in PCEs, NEW w
  PROVE  Exported(p, w) <=> Source(p, w)
<1>1. skip = {}
  BY DEF NoSkip, Shape
<1> QED
  BY <1>1 DEF Exported, Source

\* A row names the source it was made of ...
LEMMA RowClaim ==
  ASSUME NoSkip, Shape, NEW h, NEW r \in Rows(h)
  PROVE  \E q \in PCEs : \E v \in view[q] :
           /\ v.host = h /\ Exported(q, v) /\ Source(q, v) /\ r.data = v.data
           /\ r.ref = Claim(q, v) /\ r.ref = <<q, Kind(v)>> /\ IsWkld(v)
BY RowsAre, ExportsSources DEF Claim

\* ... and so does the workload that carries its reference.
LEMMA ClaimOfRef ==
  ASSUME NEW p, NEW u, IsWkld(u), u.managed = FALSE, u.ref # None
  PROVE  Claim(p, u) = u.ref
BY DEF Claim, Source, Kind

LEMMA ClaimSource ==
  ASSUME NEW p, NEW w, IsWkld(w), Claim(p, w) = <<p, Kind(w)>>
  PROVE  Source(p, w)
BY DEF Claim, Source, Kind, IsWkld

LEMMA ClaimSame ==
  ASSUME NEW p, NEW w, NEW u, u.managed = w.managed, u.ref = w.ref \/ w.managed
  PROVE  Claim(p, u) = Claim(p, w) /\ Kind(u) = Kind(w)
BY DEF Claim, Source, Kind

\* Steps that at most take workloads away.
LEMMA AgreedShrinks ==
  ASSUME Agreed, \A p \in PCEs : wk'[p] \subseteq wk[p] /\ Unique(view'[p]),
         \A p \in PCEs : Known(p)' \subseteq Known(p)
  PROVE  Agreed'
<1>1. \A p \in PCEs : Unique(wk'[p]) /\ Unique(view'[p]) /\ \A w \in wk'[p] : w.id \in Ids
  BY DEF Agreed, Unique
<1>2. \A p, q \in PCEs : \A v \in Known(p)', w \in Known(q)' :
        v.host = w.host => Claim(p, v) = Claim(q, w)
  BY DEF Agreed
<1> QED
  BY <1>1, <1>2 DEF Agreed, Unique, Claim, Source, Kind

\* A workload that joins a PCE, or takes another one's place there.
Joins(p, u) ==
  /\ u.id \in Ids /\ \A w \in wk[p] : w.id # u.id /\ w.host # u.host
  /\ wk'[p] = wk[p] \cup {u}
Succeeds(p, w, u) ==
  /\ w \in wk[p] /\ u.id = w.id /\ u.host = w.host
  /\ wk'[p] = (wk[p] \ {w}) \cup {u}

LEMMA AgreedGrows ==
  ASSUME Agreed, NEW p \in PCEs, NEW u, Joins(p, u) \/ \E w : Succeeds(p, w, u),
         \A q \in PCEs \ {p} : wk'[q] = wk[q],
         \A q \in PCEs : Known(q)' \subseteq Known(q) \cup IF q = p THEN {u} ELSE {},
         \A q \in PCEs : Unique(view'[q]),
         \A q \in PCEs : \A y \in Known(q) : y.host = u.host => Claim(q, y) = Claim(p, u)
  PROVE  Agreed'
<1>1. Unique(wk'[p]) /\ \A w \in wk'[p] : w.id \in Ids
  <2>1. CASE Joins(p, u)
    BY <2>1 DEF Agreed, Unique, Joins
  <2>2. CASE \E w : Succeeds(p, w, u)
    <3>1. PICK w : Succeeds(p, w, u)
      BY <2>2
    <3>2. \A x \in wk[p] \ {w} : x.id # u.id /\ x.host # u.host
      BY <3>1 DEF Agreed, Unique, Succeeds
    <3>3. \A x, y \in wk[p] : x.id = y.id \/ x.host = y.host => x = y
      BY DEF Agreed, Unique
    <3>4. u.id \in Ids /\ \A x \in wk[p] : x.id \in Ids
      BY <3>1 DEF Agreed, Succeeds
    <3> QED
      BY <3>1, <3>2, <3>3, <3>4 DEF Succeeds, Unique
  <2> QED
    BY <2>1, <2>2
<1>2. \A q \in PCEs : Unique(wk'[q]) /\ Unique(view'[q]) /\ \A w \in wk'[q] : w.id \in Ids
  BY <1>1 DEF Agreed
<1>3. ASSUME NEW s \in PCEs, NEW q \in PCEs, NEW v \in Known(s)', NEW w \in Known(q)', v.host = w.host
      PROVE  Claim(s, v) = Claim(q, w)
  <2>1. v \in Known(s) \/ (s = p /\ v = u)
    OBVIOUS
  <2>2. w \in Known(q) \/ (q = p /\ w = u)
    OBVIOUS
  <2>3. v \in Known(s) /\ w \in Known(q) => Claim(s, v) = Claim(q, w)
    BY <1>3 DEF Agreed
  <2> QED
    BY <1>3, <2>1, <2>2, <2>3
<1> QED
  BY <1>2, <1>3 DEF Agreed, Unique, Claim, Source, Kind

LEMMA AgreedInit == Init => Agreed
BY DEF Init, Agreed, Nothing, Known, Unique

\* A row tells every workload of its hostname what it stands for.
LEMMA RowTells ==
  ASSUME NoSkip, Shape, Agreed, phase # "ended", NEW h, NEW r \in Rows(h),
         NEW q \in PCEs, NEW y \in Known(q), y.host = h
  PROVE  Claim(q, y) = r.ref
<1>1. PICK s \in PCEs : \E v \in view[s] : v.host = h /\ r.ref = Claim(s, v)
  BY RowClaim
<1>2. PICK v \in view[s] : v.host = h /\ r.ref = Claim(s, v)
  BY <1>1
<1>3. v \in Known(s)
  BY <1>2 DEF Known
<1> QED
  BY <1>2, <1>3 DEF Agreed

\* The workload an import leaves stands for what its host stood for.
LEMMA ImportClaim ==
  ASSUME NoSkip, Shape, Agreed, NEW h \in Hosts, ImportHost(h), NEW r \in Rows(h), NEW u
  PROVE  /\ IsMade(h, r, u) => Claim(cur, u) = r.ref
         /\ \A w : TakesOver(h, r, w, u) => Claim(cur, u) = r.ref /\ Claim(cur, w) = r.ref
<1>1. r.ref # None
  BY RowsAre, InputAssumption
<1>2. cur \in PCEs /\ phase = "apply"
  BY ImportForm
<1>3. ASSUME IsMade(h, r, u)
      PROVE  Claim(cur, u) = r.ref
  BY <1>1, <1>3, ClaimOfRef DEF IsMade
<1>4. ASSUME NEW w, TakesOver(h, r, w, u)
      PROVE  Claim(cur, u) = r.ref /\ Claim(cur, w) = r.ref
  <2>1. w \in Known(cur) /\ w.host = h
    BY <1>4 DEF TakesOver, Known
  <2>2. Claim(cur, w) = r.ref
    BY <1>2, <2>1, RowTells
  <2>3. IsWkld(u) /\ u.managed = w.managed /\ u.ref = r.ref
    BY <1>4 DEF TakesOver
  <2>4. CASE w.managed
    BY <2>2, <2>3, <2>4, ClaimSame
  <2>5. CASE ~w.managed
    <3>1. u.managed = FALSE
      BY <2>3, <2>5 DEF IsWkld
    <3> QED
      BY <1>1, <2>2, <2>3, <3>1, ClaimOfRef
  <2> QED
    BY <2>4, <2>5
<1> QED
  BY <1>3, <1>4

LEMMA AgreedImport ==
  ASSUME NoSkip, Shape, Agreed, NEW h \in Hosts, ImportHost(h)
  PROVE  Agreed'
<1>1. cur \in PCEs /\ phase = "apply" /\ \A q \in PCEs \ {cur} : wk'[q] = wk[q]
  BY ImportForm
<1>2. view' = view /\ phase' = phase
  BY DEF ImportHost
<1>3. PICK r \in Rows(h) : \/ \E w, u : TakesOver(h, r, w, u)
                          \/ \E u : IsMade(h, r, u)
  BY ImportForm
<1>4. \A q \in PCEs : Unique(wk[q]) /\ Unique(view'[q])
  BY <1>2 DEF Agreed
<1>5. \A q \in PCEs : \A y \in Known(q) : y.host = h => Claim(q, y) = r.ref
  BY <1>1, RowTells
<1>6. CASE \E w, u : TakesOver(h, r, w, u)
  <2>1. PICK w, u : TakesOver(h, r, w, u)
    BY <1>6
  <2>2. Claim(cur, u) = r.ref
    BY <2>1, ImportClaim
  <2>3. Succeeds(cur, w, u) /\ u.host = h
    BY <2>1 DEF TakesOver, Succeeds
  <2>4. \A q \in PCEs : Known(q)' \subseteq Known(q) \cup IF q = cur THEN {u} ELSE {}
    BY <1>1, <1>2, <2>3 DEF Known, Succeeds
  <2> QED
    BY <1>1, <1>4, <1>5, <2>2, <2>3, <2>4, AgreedGrows
<1>7. CASE \E u : IsMade(h, r, u)
  <2>1. PICK u : IsMade(h, r, u)
    BY <1>7
  <2>2. Claim(cur, u) = r.ref
    BY <2>1, ImportClaim
  <2>3. FreshId(cur) \in Ids /\ \A w \in wk[cur] : w.id # FreshId(cur)
    BY <1>1, <2>1, FreshIs DEF IsMade, Agreed
  <2>4. Joins(cur, u) /\ u.host = h
    BY <2>1, <2>3 DEF IsMade, Joins
  <2>5. \A q \in PCEs : Known(q)' \subseteq Known(q) \cup IF q = cur THEN {u} ELSE {}
    BY <1>1, <1>2, <2>4 DEF Known, Joins
  <2> QED
    BY <1>1, <1>4, <1>5, <2>2, <2>4, <2>5, AgreedGrows
<1> QED
  BY <1>3, <1>6, <1>7

LEMMA AgreedChange ==
  ASSUME ~Moves, Shape, Agreed, Changes
  PROVE  Agreed'
<1>1. UNCHANGED <<view, phase>>
  BY ChangeForm
<1>2. PICK p \in PCEs :
        /\ \A q \in PCEs \ {p} : wk'[q] = wk[q]
        /\ \/ \E u : Adds(p, u)
           \/ wk'[p] \subseteq wk[p]
           \/ \E w, u : Replaces(p, w, u)
  BY ChangeForm
<1>3. \A q \in PCEs : Unique(wk[q]) /\ Unique(view'[q])
  BY <1>1 DEF Agreed
<1>4. CASE \E u : Adds(p, u)
  <2>1. PICK u : Adds(p, u)
    BY <1>4
  <2>2. phase = "ended" /\ \A q \in PCEs : \A w \in wk[q] : w.host # u.host
    BY <2>1 DEF Adds
  <2>3. u.host \in Hosts
    BY <2>1 DEF Adds, IsWkld
  <2>4. FreshId(p) \in Ids /\ \A w \in wk[p] : w.id # FreshId(p)
    BY <1>3, <2>2, <2>3, FreshIs DEF Agreed
  <2>5. Joins(p, u)
    BY <2>1, <2>2, <2>4 DEF Adds, Joins
  <2>6. \A q \in PCEs : Known(q)' \subseteq Known(q) \cup IF q = p THEN {u} ELSE {}
    BY <1>1, <1>2, <2>5 DEF Known, Joins
  <2>7. \A q \in PCEs : \A y \in Known(q) : y.host # u.host
    BY <2>2 DEF Known
  <2> QED
    BY <1>2, <1>3, <2>5, <2>6, <2>7, AgreedGrows
<1>5. CASE wk'[p] \subseteq wk[p]
  <2>1. \A q \in PCEs : wk'[q] \subseteq wk[q]
    BY <1>2, <1>5
  <2>2. \A q \in PCEs : Known(q)' \subseteq Known(q)
    BY <1>1, <2>1 DEF Known
  <2> QED
    BY <1>3, <2>1, <2>2, AgreedShrinks
<1>6. CASE \E w, u : Replaces(p, w, u)
  <2>1. PICK w, u : Replaces(p, w, u)
    BY <1>6
  <2>2. Succeeds(p, w, u)
    BY <2>1 DEF Replaces, Succeeds
  <2>3. Claim(p, u) = Claim(p, w)
    BY <2>1, ClaimSame DEF Replaces
  <2>4. \A q \in PCEs : Known(q)' \subseteq Known(q) \cup IF q = p THEN {u} ELSE {}
    BY <1>1, <1>2, <2>2 DEF Known, Succeeds
  <2>5. w \in Known(p) /\ w.host = u.host
    BY <2>2 DEF Known, Succeeds
  <2>6. \A q \in PCEs : \A y \in Known(q) : y.host = u.host => Claim(q, y) = Claim(p, u)
    BY <2>3, <2>5 DEF Agreed
  <2> QED
    BY <1>2, <1>3, <2>2, <2>4, <2>6, AgreedGrows
<1> QED
  BY <1>2, <1>4, <1>5, <1>6

LEMMA AgreedStep ==
  ASSUME NoSkip, ~Moves, Shape, Agreed, [Next]_vars
  PROVE  Agreed'
<1>1. CASE \E p \in PCEs : Read(p)
  <2>1. PICK p \in PCEs : Read(p)
    BY <1>1
  <2>2. /\ phase = "read" /\ wk' = wk /\ view'[p] \subseteq wk[p]
        /\ \A q \in PCEs \ {p} : view'[q] = view[q]
    BY <2>1, ReadForm
  <2>3. \A q \in PCEs : Unique(view'[q])
    BY <2>2 DEF Agreed, Unique
  <2>4. \A q \in PCEs : Known(q)' \subseteq Known(q)
    BY <2>2 DEF Known
  <2> QED
    BY <2>2, <2>3, <2>4, AgreedShrinks
<1>2. CASE Quiet
  <2>1. wk' = wk /\ view' = view /\ phase # "ended"
    BY <1>2, QuietForm
  <2>2. \A q \in PCEs : Known(q)' \subseteq Known(q) /\ Unique(view'[q])
    BY <2>1 DEF Known, Agreed
  <2> QED
    BY <2>1, <2>2, AgreedShrinks
<1>3. CASE \E h \in Hosts : ImportHost(h)
  BY <1>3, AgreedImport
<1>4. CASE cur # None /\ \E w \in wk[cur] : DeleteHref(w)
  <2>1. PICK w \in wk[cur] : DeleteHref(w)
    BY <1>4
  <2>2. UNCHANGED <<view, phase>> /\ \A p \in PCEs : wk'[p] \subseteq wk[p]
    BY <1>4, <2>1, DeleteForm
  <2>3. \A q \in PCEs : Known(q)' \subseteq Known(q) /\ Unique(view'[q])
    BY <2>2 DEF Known, Agreed
  <2> QED
    BY <2>2, <2>3, AgreedShrinks
<1>5. CASE Changes
  BY <1>5, AgreedChange
<1>6. CASE Rerun
  <2>1. wk' = wk /\ view' = Nothing /\ phase = "ended"
    BY <1>6 DEF Rerun
  <2>2. \A q \in PCEs : Known(q)' \subseteq Known(q) /\ Unique(view'[q])
    BY <2>1 DEF Known, Nothing, Unique
  <2> QED
    BY <2>1, <2>2, AgreedShrinks
<1>7. CASE UNCHANGED vars
  <2>1. wk' = wk /\ view' = view /\ phase' = phase
    BY <1>7 DEF vars
  <2>2. \A q \in PCEs : Known(q)' \subseteq Known(q) /\ Unique(view'[q])
    BY <2>1 DEF Known, Agreed
  <2> QED
    BY <2>1, <2>2, AgreedShrinks
<1> QED
  BY <1>1, <1>2, <1>3, <1>4, <1>5, <1>6, <1>7, NextIs

-----------------------------------------------------------------------------
(* What an undisturbed run has done. *)

LEMMA SameRows ==
  ASSUME view' = view, skip' = skip
  PROVE  /\ \A h : Rows(h)' = Rows(h)
         /\ \A p : Deletes(p)' = Deletes(p)
         /\ \A p, w : Exported(p, w)' <=> Exported(p, w)
<1>1. \A p, w : Exported(p, w)' <=> Exported(p, w)
  BY DEF Exported
<1>2. \A p, h, m : Seen(p, h, m)' <=> Seen(p, h, m)
  BY DEF Seen
<1>3. \A p : Deletes(p)' = Deletes(p)
  BY DEF Deletes, SourceSeen, Seen
<1>4. \A h : Rows(h)' = Rows(h)
  BY DEF Rows, Exported
<1> QED
  BY <1>1, <1>3, <1>4

LEMMA DoingIs ==
  ASSUME view' = view, skip' = skip, NEW p,
         \A w \in wk'[p] : IF Rows(w.host) = {} THEN w \in view[p] ELSE w.id \notin Deletes(p),
         \A h \in Hosts : Rows(h) # {} /\ ~(p = cur' /\ h \in todo') =>
           \E w \in wk'[p] : w.host = h /\ \E r \in Rows(h) : w.data = r.data,
         \A v \in view[p] : Exported(p, v) =>
           \E w \in wk'[p] : w.host = v.host /\ w.managed = v.managed
  PROVE  Doing(p)'
<1>1. \A w \in wk'[p] : IF Rows(w.host)' = {} THEN w \in view'[p] ELSE w.id \notin Deletes(p)'
  BY SameRows
<1>2. \A h \in Hosts : Rows(h)' # {} /\ ~(p = cur' /\ h \in todo') =>
        \E w \in wk'[p] : w.host = h /\ \E r \in Rows(h)' : w.data = r.data
  BY SameRows
<1>3. \A v \in view'[p] : Exported(p, v)' =>
        \E w \in wk'[p] : w.host = v.host /\ w.managed = v.managed
  BY SameRows
<1> QED
  BY <1>1, <1>2, <1>3 DEF Doing

\* A workload that is to go, once all was read, has no row ...
LEMMA DeletedHasNoRow ==
  ASSUME NoSkip, Shape, Agreed, phase = "apply", NEW p \in PCEs, view[p] = wk[p],
         NEW w \in wk[p], w.id \in Deletes(p)
  PROVE  Rows(w.host) = {}
<1> SUFFICES ASSUME NEW r \in Rows(w.host) PROVE FALSE
  OBVIOUS
<1>1. PICK v \in view[p] : /\ v.id = w.id /\ ~v.managed /\ v.ref \in Refs
                          /\ v.ref # <<p, "unmanaged">> /\ ~SourceSeen(v.ref, v.host)
  BY DeletesAre
<1>2. v = w
  BY <1>1 DEF Agreed, Unique
<1>3. w.ref # None
  BY <1>1, <1>2, InputAssumption
<1>4. Claim(p, w) = w.ref
  BY <1>1, <1>2, <1>3 DEF Claim, Source
<1>5. PICK q \in PCEs : \E x \in view[q] :
        x.host = w.host /\ r.ref = Claim(q, x) /\ r.ref = <<q, Kind(x)>> /\ IsWkld(x)
  BY RowClaim
<1>6. PICK x \in view[q] :
        x.host = w.host /\ r.ref = Claim(q, x) /\ r.ref = <<q, Kind(x)>> /\ IsWkld(x)
  BY <1>5
<1>7. w \in Known(p) /\ x \in Known(q)
  BY <1>6 DEF Known
<1>8. w.ref = <<q, Kind(x)>>
  BY <1>4, <1>6, <1>7 DEF Agreed
<1>9. w.ref[1] = q /\ (w.ref[2] = "managed") = x.managed
  BY <1>6, <1>8, KindIs DEF IsWkld
<1>10. SourceSeen(w.ref, w.host)
  BY <1>6, <1>9 DEF SourceSeen, Seen
<1> QED
  BY <1>1, <1>2, <1>10

\* ... and one that was read, has no row and may stay does not exist.
LEMMA StaysHasRow ==
  ASSUME NoSkip, Shape, Agreed, phase = "apply", NEW p \in PCEs,
         NEW w \in wk[p], w \in view[p], w.id \notin Deletes(p)
  PROVE  Rows(w.host) # {}
<1> SUFFICES ASSUME Rows(w.host) = {} PROVE FALSE
  OBVIOUS
<1>1. \A q \in PCEs : \A x \in view[q] : x.host = w.host => ~Exported(q, x)
  BY RowOf
<1>2. ~Source(p, w) /\ IsWkld(w)
  BY <1>1, ExportsSources DEF Shape
<1>3. ~w.managed /\ w.ref \notin {None, <<p, "unmanaged">>} /\ Claim(p, w) = w.ref
  BY <1>2 DEF Source, Claim
<1>4. SourceSeen(w.ref, w.host)
  BY <1>3 DEF Deletes
<1>5. w.ref \in Refs
  BY <1>2, <1>3 DEF IsWkld
<1>6. PICK q \in PCEs, k \in {"managed", "unmanaged"} : w.ref = <<q, k>>
  BY <1>5 DEF Refs
<1>7. Seen(q, w.host, k = "managed")
  BY <1>4, <1>6 DEF SourceSeen
<1>8. PICK x \in view[q] : x.host = w.host /\ x.managed = (k = "managed")
  BY <1>7 DEF Seen
<1>9. ~Source(q, x) /\ IsWkld(x)
  BY <1>1, <1>8, ExportsSources DEF Shape
<1>10. ~x.managed /\ x.ref # <<q, "unmanaged">> /\ Claim(q, x) = x.ref
  BY <1>9 DEF Source, Claim
<1>11. k = "unmanaged"
  BY <1>8, <1>10
<1>12. Claim(q, x) = Claim(p, w)
  BY <1>8 DEF Agreed, Known
<1> QED
  BY <1>3, <1>6, <1>10, <1>11, <1>12

LEMMA UndisturbedInit == Init => Undisturbed
BY DEF Init, Undisturbed

LEMMA UndisturbedRead ==
  ASSUME NoSkip, Shape, Agreed, Undisturbed, clean, NEW p \in PCEs, Read(p)
  PROVE  Undisturbed'
<1>1. /\ phase = "read" /\ wk' = wk /\ view'[p] \subseteq wk[p]
      /\ \A q \in PCEs \ {p} : view'[q] = view[q]
  BY ReadForm
<1>2. UNCHANGED <<undone, cur, todo, clean>> /\ unread' = unread \ {p}
  BY DEF Read
<1>3. undone = PCEs /\ cur = None /\ todo = {}
  BY <1>1 DEF Shape
<1>4. wk[p] \subseteq view'[p]
  <2> SUFFICES ASSUME NEW w \in wk[p] PROVE w \in view'[p]
    OBVIOUS
  <2>1. PICK v \in view'[p] : v.host = w.host
    BY ReadForm
  <2>2. v \in wk[p]
    BY <1>1, <2>1
  <2>3. v = w
    BY <2>1, <2>2 DEF Agreed, Unique
  <2> QED
    BY <2>1, <2>3
<1>5. \A q \in PCEs \ unread' : view'[q] = wk'[q]
  <2>1. view'[p] = wk[p]
    BY <1>1, <1>4
  <2>2. \A q \in PCEs \ unread : view[q] = wk[q]
    BY <1>1, <1>3 DEF Undisturbed
  <2> QED
    BY <1>1, <1>2, <2>1, <2>2
<1> QED
  BY <1>2, <1>3, <1>5 DEF Undisturbed

LEMMA UndisturbedStart ==
  ASSUME NoSkip, Shape, Agreed, Undisturbed, clean, NEW p \in PCEs, StartPCE(p)
  PROVE  Undisturbed'
<1>1. /\ phase = "apply" /\ cur = None /\ p \in undone /\ cur' = p /\ undone' = undone \ {p}
      /\ todo' = {h \in Hosts : Rows(h) # {}}
      /\ UNCHANGED <<wk, view, skip, phase, unread, clean>>
  BY DEF StartPCE
<1>2. unread = {} /\ todo = {} /\ cur \notin PCEs
  BY <1>1, InputAssumption DEF Shape
<1>3. view[p] = wk[p]
  BY <1>1, <1>2 DEF Undisturbed
<1>4. Doing(p)'
  <2>1. \A w \in wk'[p] : IF Rows(w.host) = {} THEN w \in view[p] ELSE w.id \notin Deletes(p)
    BY <1>1, <1>3, DeletedHasNoRow
  <2>2. \A h \in Hosts : Rows(h) # {} => h \in todo'
    BY <1>1
  <2>3. \A v \in view[p] : \E w \in wk'[p] : w.host = v.host /\ w.managed = v.managed
    BY <1>1, <1>3
  <2> QED
    BY <1>1, <2>1, <2>2, <2>3, DoingIs
<1>5. ASSUME NEW q \in PCEs, q \notin undone', q # p
      PROVE  Doing(q)' /\ \A w \in wk[q] : Rows(w.host) # {}
  <2>1. q \notin undone /\ q # cur
    BY <1>1, <1>2, <1>5
  <2>2. Doing(q) /\ \A w \in wk[q] : Rows(w.host) # {}
    BY <1>1, <1>2, <2>1 DEF Undisturbed
  <2>3. Doing(q)'
    <3>1. \A h \in Hosts : Rows(h) # {} =>
            \E w \in wk[q] : w.host = h /\ \E r \in Rows(h) : w.data = r.data
      BY <2>1, <2>2 DEF Doing
    <3>2. /\ \A w \in wk[q] : IF Rows(w.host) = {} THEN w \in view[q] ELSE w.id \notin Deletes(q)
          /\ \A v \in view[q] : Exported(q, v) =>
               \E w \in wk[q] : w.host = v.host /\ w.managed = v.managed
      BY <2>2 DEF Doing
    <3> QED
      BY <1>1, <3>1, <3>2, DoingIs
  <2> QED
    BY <2>2, <2>3
<1>6. \A q \in PCEs : q \in undone' => view'[q] = wk'[q]
  BY <1>1, <1>2 DEF Undisturbed
<1>7. \A h \in todo' : Rows(h)' # {}
  BY <1>1, SameRows
<1>8. \A q \in PCEs : q \notin undone' /\ q # cur' => \A w \in wk'[q] : Rows(w.host)' # {}
  BY <1>1, <1>5, SameRows
<1>9. \A q \in PCEs : q \notin undone' => Doing(q)'
  BY <1>4, <1>5
<1> QED
  BY <1>6, <1>7, <1>8, <1>9 DEF Undisturbed

LEMMA UndisturbedFinishPCE ==
  ASSUME NoSkip, Shape, Agreed, Undisturbed, clean, FinishPCE
  PROVE  Undisturbed'
<1>1. /\ phase = "apply" /\ cur # None /\ todo = {} /\ cur' = None
      /\ \A w \in wk[cur] : w.id \notin Deletes(cur)
      /\ UNCHANGED <<wk, view, skip, phase, unread, undone, todo, clean>>
  BY DEF FinishPCE
<1>2. unread = {} /\ cur \in PCEs /\ cur \notin undone
  BY <1>1 DEF Shape
<1>3. ASSUME NEW q \in PCEs, q \notin undone'
      PROVE  Doing(q)' /\ \A w \in wk[q] : Rows(w.host) # {}
  <2>1. Doing(q)
    BY <1>1, <1>2, <1>3 DEF Undisturbed
  <2>2. Doing(q)'
    <3>1. \A h \in Hosts : Rows(h) # {} =>
            \E w \in wk[q] : w.host = h /\ \E r \in Rows(h) : w.data = r.data
      BY <1>1, <2>1 DEF Doing
    <3>2. /\ \A w \in wk[q] : IF Rows(w.host) = {} THEN w \in view[q] ELSE w.id \notin Deletes(q)
          /\ \A v \in view[q] : Exported(q, v) =>
               \E w \in wk[q] : w.host = v.host /\ w.managed = v.managed
      BY <2>1 DEF Doing
    <3> QED
      BY <1>1, <3>1, <3>2, DoingIs
  <2>3. CASE q # cur
    BY <1>1, <1>2, <1>3, <2>2, <2>3 DEF Undisturbed
  <2>4. CASE q = cur
    <3> SUFFICES ASSUME NEW w \in wk[q], Rows(w.host) = {} PROVE FALSE
      BY <2>2
    <3>1. w \in view[q] /\ w.id \notin Deletes(q)
      BY <1>1, <2>1, <2>4 DEF Doing
    <3> QED
      BY <1>1, <3>1, StaysHasRow
  <2> QED
    BY <2>3, <2>4
<1>4. \A q \in PCEs : q \in undone' => view'[q] = wk'[q]
  BY <1>1, <1>2 DEF Undisturbed
<1>5. \A q \in PCEs : q \notin undone' => \A w \in wk'[q] : Rows(w.host)' # {}
  BY <1>1, <1>3, SameRows
<1> QED
  BY <1>1, <1>3, <1>4, <1>5 DEF Undisturbed

LEMMA UndisturbedDelete ==
  ASSUME Shape, Undisturbed, clean, cur # None, NEW w \in wk[cur], DeleteHref(w)
  PROVE  Undisturbed'
<1>1. /\ cur \in PCEs /\ phase = "apply" /\ todo = {} /\ w.id \in Deletes(cur)
      /\ \A p \in PCEs \ {cur} : wk'[p] = wk[p] /\ wk'[cur] = wk[cur] \ {w}
      /\ UNCHANGED <<view, skip, phase, unread, undone, cur, todo, clean>>
  BY DeleteForm
<1>2. unread = {} /\ cur \notin undone
  BY <1>1 DEF Shape
<1>3. ASSUME NEW q \in PCEs, q \notin undone'
      PROVE  Doing(q)'
  <2>1. Doing(q)
    BY <1>1, <1>2, <1>3 DEF Undisturbed
  <2>2. CASE q # cur
    <3>1. wk'[q] = wk[q]
      BY <1>1, <2>2
    <3>2. /\ \A x \in wk[q] : IF Rows(x.host) = {} THEN x \in view[q] ELSE x.id \notin Deletes(q)
          /\ \A h \in Hosts : Rows(h) # {} /\ ~(q = cur /\ h \in todo) =>
               \E x \in wk[q] : x.host = h /\ \E r \in Rows(h) : x.data = r.data
          /\ \A v \in view[q] : Exported(q, v) =>
               \E x \in wk[q] : x.host = v.host /\ x.managed = v.managed
      BY <2>1 DEF Doing
    <3> QED
      BY <1>1, <3>1, <3>2, DoingIs
  <2>3. CASE q = cur
    <3>1. \A x \in wk[q] : IF Rows(x.host) = {} THEN x \in view[q] ELSE x.id \notin Deletes(q)
      BY <2>1 DEF Doing
    <3>2. Rows(w.host) = {}
      BY <1>1, <2>3, <3>1
    <3>3. wk'[q] = wk[q] \ {w}
      BY DeleteForm, <2>3
    <3>4. \A h \in Hosts : Rows(h) # {} =>
            \E x \in wk'[q] : x.host = h /\ \E r \in Rows(h) : x.data = r.data
      BY <1>1, <2>1, <3>2, <3>3 DEF Doing
    <3>5. \A v \in view[q] : Exported(q, v) =>
            \E x \in wk'[q] : x.host = v.host /\ x.managed = v.managed
      <4> SUFFICES ASSUME NEW v \in view[q], Exported(q, v)
                   PROVE  \E x \in wk'[q] : x.host = v.host /\ x.managed = v.managed
        OBVIOUS
      <4>1. PICK x \in wk[q] : x.host = v.host /\ x.managed = v.managed
        BY <2>1 DEF Doing
      <4>2. Rows(v.host) # {}
        BY RowOf
      <4> QED
        BY <3>2, <3>3, <4>1, <4>2
    <3> QED
      BY <1>1, <3>1, <3>3, <3>4, <3>5, DoingIs
  <2> QED
    BY <2>2, <2>3
<1>4. \A q \in PCEs : q \in undone' => view'[q] = wk'[q]
  BY <1>1, <1>2 DEF Undisturbed
<1>5. \A q \in PCEs : q \notin undone' /\ q # cur' => \A x \in wk'[q] : Rows(x.host)' # {}
  BY <1>1, <1>2, SameRows DEF Undisturbed
<1> QED
  BY <1>1, <1>3, <1>4, <1>5 DEF Undisturbed

\* An import keeps what was done and does its hostname.
LEMMA DoingImport ==
  ASSUME Shape, Agreed, NEW p \in PCEs, p = cur, Doing(p), NEW h \in Hosts, ImportHost(h)
  PROVE  Doing(p)'
<1>1. cur \in PCEs /\ h \in todo /\ phase = "apply"
  BY ImportForm
<1>2. cur' = cur /\ view' = view /\ skip' = skip /\ todo' = todo \ {h}
  BY DEF ImportHost
<1>3. PICK r \in Rows(h) : \/ \E w, u : TakesOver(h, r, w, u)
                          \/ \E u : IsMade(h, r, u)
  BY ImportForm
<1>4. /\ \A w \in wk[cur] : IF Rows(w.host) = {} THEN w \in view[cur] ELSE w.id \notin Deletes(cur)
      /\ \A g \in Hosts : Rows(g) # {} /\ g \notin todo =>
           \E w \in wk[cur] : w.host = g /\ \E s \in Rows(g) : w.data = s.data
      /\ \A v \in view[cur] : Exported(cur, v) =>
           \E w \in wk[cur] : w.host = v.host /\ w.managed = v.managed
  BY DEF Doing
<1>5. PICK u : \/ \E w : TakesOver(h, r, w, u)
              \/ IsMade(h, r, u)
  BY <1>3
<1>6. /\ u \in wk'[cur] /\ u.host = h /\ u.data = r.data
      /\ \A x \in wk'[cur] : x \in wk[cur] \/ x = u
      /\ \A x \in wk[cur] : x \in wk'[cur] \/ (x.host = h /\ u.managed = x.managed)
  BY <1>5 DEF TakesOver, IsMade
<1>7. u.id \notin Deletes(cur)
  <2>1. ASSUME NEW w, TakesOver(h, r, w, u)
        PROVE  u.id \notin Deletes(cur)
    BY <1>4, <2>1 DEF TakesOver
  <2>2. CASE IsMade(h, r, u)
    BY <1>1, <2>2, FreshIs DEF IsMade, Agreed
  <2> QED
    BY <1>5, <2>1, <2>2
<1>8. \A x \in wk'[cur] : IF Rows(x.host) = {} THEN x \in view[cur] ELSE x.id \notin Deletes(cur)
  <2> SUFFICES ASSUME NEW x \in wk'[cur]
               PROVE  IF Rows(x.host) = {} THEN x \in view[cur] ELSE x.id \notin Deletes(cur)
    OBVIOUS
  <2>1. CASE x = u
    BY <1>6, <1>7, <2>1
  <2>2. CASE x \in wk[cur]
    BY <1>4, <2>2
  <2> QED
    BY <1>6, <2>1, <2>2
<1>9. \A g \in Hosts : Rows(g) # {} /\ ~(cur = cur' /\ g \in todo') =>
        \E w \in wk'[cur] : w.host = g /\ \E s \in Rows(g) : w.data = s.data
  <2> SUFFICES ASSUME NEW g \in Hosts, Rows(g) # {}, g \notin todo'
               PROVE  \E w \in wk'[cur] : w.host = g /\ \E s \in Rows(g) : w.data = s.data
    BY <1>2
  <2>1. CASE g = h
    BY <1>6, <2>1
  <2>2. CASE g # h
    <3>1. g \notin todo
      BY <1>2, <2>2
    <3>2. PICK w \in wk[cur] : w.host = g /\ \E s \in Rows(g) : w.data = s.data
      BY <1>4, <3>1
    <3> QED
      BY <1>6, <2>2, <3>2
  <2> QED
    BY <2>1, <2>2
<1>10. \A v \in view[cur] : Exported(cur, v) =>
         \E w \in wk'[cur] : w.host = v.host /\ w.managed = v.managed
  <2> SUFFICES ASSUME NEW v \in view[cur], Exported(cur, v)
               PROVE  \E w \in wk'[cur] : w.host = v.host /\ w.managed = v.managed
    OBVIOUS
  <2>1. PICK w \in wk[cur] : w.host = v.host /\ w.managed = v.managed
    BY <1>4
  <2> QED
    BY <1>6, <2>1
<1> QED
  BY <1>2, <1>8, <1>9, <1>10, DoingIs

LEMMA UndisturbedSame ==
  ASSUME Undisturbed, UNCHANGED vars
  PROVE  Undisturbed'
<1>1. UNCHANGED <<wk, view, skip, phase, unread, undone, cur, todo, clean>>
  BY DEF vars
<1>2. ASSUME NEW q, Doing(q) PROVE Doing(q)'
  <2>1. /\ \A w \in wk[q] : IF Rows(w.host) = {} THEN w \in view[q] ELSE w.id \notin Deletes(q)
        /\ \A h \in Hosts : Rows(h) # {} /\ ~(q = cur /\ h \in todo) =>
             \E w \in wk[q] : w.host = h /\ \E r \in Rows(h) : w.data = r.data
        /\ \A v \in view[q] : Exported(q, v) =>
             \E w \in wk[q] : w.host = v.host /\ w.managed = v.managed
    BY <1>2 DEF Doing
  <2> QED
    BY <1>1, <2>1, DoingIs
<1>3. \A h : Rows(h)' = Rows(h)
  BY <1>1, SameRows
<1> QED
  BY <1>1, <1>2, <1>3 DEF Undisturbed

LEMMA UndisturbedImport ==
  ASSUME Shape, Agreed, Undisturbed, clean, NEW h \in Hosts, ImportHost(h)
  PROVE  Undisturbed'
<1>1. /\ cur \in PCEs /\ h \in todo /\ phase = "apply"
      /\ \A p \in PCEs \ {cur} : wk'[p] = wk[p]
  BY ImportForm
<1>2. /\ UNCHANGED <<view, skip, phase, unread, undone, cur, clean>>
      /\ todo' = todo \ {h}
  BY DEF ImportHost
<1>3. unread = {} /\ cur \notin undone
  BY <1>1 DEF Shape
<1>4. ASSUME NEW q \in PCEs, q \notin undone'
      PROVE  Doing(q)'
  <2>1. Doing(q)
    BY <1>1, <1>2, <1>3, <1>4 DEF Undisturbed
  <2>2. CASE q # cur
    <3>1. wk'[q] = wk[q] /\ q # cur'
      BY <1>1, <1>2, <2>2
    <3>2. /\ \A x \in wk[q] : IF Rows(x.host) = {} THEN x \in view[q] ELSE x.id \notin Deletes(q)
          /\ \A g \in Hosts : Rows(g) # {} =>
               \E x \in wk[q] : x.host = g /\ \E r \in Rows(g) : x.data = r.data
          /\ \A v \in view[q] : Exported(q, v) =>
               \E x \in wk[q] : x.host = v.host /\ x.managed = v.managed
      BY <2>1, <2>2 DEF Doing
    <3> QED
      BY <1>2, <3>1, <3>2, DoingIs
  <2>3. CASE q = cur
    BY <2>1, <2>3, DoingImport
  <2> QED
    BY <2>2, <2>3
<1>5. \A q \in PCEs : q \in undone' => view'[q] = wk'[q]
  BY <1>1, <1>2, <1>3 DEF Undisturbed
<1>6. \A q \in PCEs : q \notin undone' /\ q # cur' => \A x \in wk'[q] : Rows(x.host)' # {}
  BY <1>1, <1>2, <1>3, SameRows DEF Undisturbed
<1>7. \A g \in todo' : Rows(g)' # {}
  BY <1>1, <1>2, <1>3, SameRows DEF Undisturbed
<1> QED
  BY <1>4, <1>5, <1>6, <1>7 DEF Undisturbed

LEMMA UndisturbedStep ==
  ASSUME NoSkip, Shape, Agreed, Undisturbed, [Next]_vars
  PROVE  Undisturbed'
<1> SUFFICES ASSUME clean', phase' # "ended" PROVE Undisturbed'
  BY DEF Undisturbed
<1>1. CASE \E p \in PCEs : Read(p)
  <2>1. PICK p \in PCEs : Read(p)
    BY <1>1
  <2>2. clean
    BY <2>1 DEF Read
  <2> QED
    BY <2>1, <2>2, UndisturbedRead
<1>2. CASE Quiet
  <2>1. clean
    BY <1>2, QuietForm
  <2>2. CASE \E p \in PCEs : StartPCE(p)
    BY <2>1, <2>2, UndisturbedStart
  <2>3. CASE DryRun \/ PromptDenied
    BY <2>3 DEF DryRun, PromptDenied, Decision
  <2>4. CASE Approve
    <3>1. /\ UNCHANGED <<wk, consent, skip, view, unread, undone, cur, todo, clean>>
          /\ phase = "decide"
      BY <2>4 DEF Approve, Decision
    <3>2. unread = {} /\ undone = PCEs /\ todo = {}
      BY <3>1 DEF Shape
    <3>3. \A p \in PCEs : view[p] = wk[p]
      BY <2>1, <3>1, <3>2 DEF Undisturbed
    <3> QED
      BY <3>1, <3>2, <3>3 DEF Undisturbed
  <2>5. CASE FinishPCE
    BY <2>1, <2>5, UndisturbedFinishPCE
  <2>6. CASE Finish \/ Crash
    BY <2>6 DEF Finish, Crash
  <2> QED
    BY <1>2, <2>2, <2>3, <2>4, <2>5, <2>6 DEF Quiet
<1>3. CASE \E h \in Hosts : ImportHost(h)
  <2>1. PICK h \in Hosts : ImportHost(h)
    BY <1>3
  <2>2. clean
    BY <2>1 DEF ImportHost
  <2> QED
    BY <2>1, <2>2, UndisturbedImport
<1>4. CASE cur # None /\ \E w \in wk[cur] : DeleteHref(w)
  <2>1. PICK w \in wk[cur] : DeleteHref(w)
    BY <1>4
  <2>2. clean
    BY <1>4, <2>1, DeleteForm
  <2> QED
    BY <1>4, <2>1, <2>2, UndisturbedDelete
<1>5. CASE Changes
  <2>1. clean' = FALSE
    BY <1>5, ChangeForm
  <2> QED
    BY <2>1
<1>6. CASE Rerun
  BY <1>6 DEF Rerun, Undisturbed
<1>7. CASE UNCHANGED vars
  BY <1>7, UndisturbedSame
<1> QED
  BY <1>1, <1>2, <1>3, <1>4, <1>5, <1>6, <1>7, NextIs

-----------------------------------------------------------------------------
(* What an undisturbed run leaves, and later runs keep. *)

\* Two workloads that stand for the same and hold the same data.
Alike(p, x, y) ==
  /\ y.host = x.host /\ y.data = x.data /\ Kind(y) = Kind(x)
  /\ Claim(p, y) = Claim(p, x) /\ (Source(p, x) => Source(p, y))

LEMMA SettledKept ==
  ASSUME Settled, \A p \in PCEs : \A w \in wk[p] : Claim(p, w)[1] \in PCEs,
         \A p \in PCEs : \A x \in wk[p] : \E y \in wk'[p] : Alike(p, x, y),
         \A p \in PCEs : \A y \in wk'[p] : \E x \in wk[p] : Alike(p, x, y)
  PROVE  Settled'
<1>1. ASSUME NEW p \in PCEs, NEW y \in wk'[p]
      PROVE  /\ \A q \in PCEs : \E v \in wk'[q] : v.host = y.host /\ v.data = y.data
             /\ SourceExists(Claim(p, y), y.host)'
  <2>1. PICK x \in wk[p] : Alike(p, x, y)
    OBVIOUS
  <2>2. ASSUME NEW q \in PCEs
        PROVE  \E v \in wk'[q] : v.host = y.host /\ v.data = y.data
    <3>1. PICK z \in wk[q] : z.host = x.host /\ z.data = x.data
      BY DEF Settled
    <3>2. PICK v \in wk'[q] : Alike(q, z, v)
      OBVIOUS
    <3> QED
      BY <2>1, <3>1, <3>2 DEF Alike
  <2>3. SourceExists(Claim(p, y), y.host)'
    <3>1. SourceExists(Claim(p, x), x.host) /\ Claim(p, x)[1] \in PCEs
      BY DEF Settled
    <3>2. PICK ref : ref = Claim(p, x)
      OBVIOUS
    <3>3. PICK z \in wk[ref[1]] : z.host = x.host /\ Source(ref[1], z) /\ Kind(z) = ref[2]
      BY <3>1, <3>2 DEF SourceExists
    <3>4. PICK v \in wk'[ref[1]] : Alike(ref[1], z, v)
      BY <3>1, <3>2
    <3>5. v.host = y.host /\ Source(ref[1], v) /\ Kind(v) = ref[2] /\ ref = Claim(p, y)
      BY <2>1, <3>2, <3>3, <3>4 DEF Alike
    <3>6. \E z1 \in wk'[ref[1]] : z1.host = y.host /\ Source(ref[1], z1) /\ Kind(z1) = ref[2]
      BY <3>4, <3>5
    <3> QED
      BY <3>5, <3>6 DEF SourceExists, Claim, Source, Kind
  <2> QED
    BY <2>2, <2>3
<1> QED
  BY <1>1 DEF Settled, Claim, Source, Kind

LEMMA AlikeSelf == \A p, x : Alike(p, x, x)
BY DEF Alike

LEMMA ClaimsPCE ==
  ASSUME Shape, NEW p \in PCEs, NEW w \in wk[p]
  PROVE  Claim(p, w) \in Refs /\ Claim(p, w)[1] \in PCEs
<1>1. IsWkld(w)
  BY DEF Shape
<1>2. Kind(w) \in {"managed", "unmanaged"}
  BY DEF Kind
<1>3. ~Source(p, w) => w.ref # None
  BY DEF Source
<1>4. Claim(p, w) \in Refs
  BY <1>1, <1>2, <1>3 DEF Claim, Refs, IsWkld
<1> QED
  BY <1>4 DEF Refs

\* A hostname has one row.
LEMMA OneRow ==
  ASSUME NoSkip, Shape, Agreed, phase # "ended", NEW h, NEW r \in Rows(h), NEW s \in Rows(h)
  PROVE  r.data = s.data
<1>1. PICK q \in PCEs : \E v \in view[q] :
        v.host = h /\ r.data = v.data /\ r.ref = Claim(q, v) /\ r.ref = <<q, Kind(v)>>
  BY RowClaim
<1>2. PICK v \in view[q] :
        v.host = h /\ r.data = v.data /\ r.ref = Claim(q, v) /\ r.ref = <<q, Kind(v)>>
  BY <1>1
<1>3. PICK p \in PCEs : \E w \in view[p] :
        w.host = h /\ s.data = w.data /\ s.ref = Claim(p, w) /\ s.ref = <<p, Kind(w)>>
  BY RowClaim
<1>4. PICK w \in view[p] :
        w.host = h /\ s.data = w.data /\ s.ref = Claim(p, w) /\ s.ref = <<p, Kind(w)>>
  BY <1>3
<1>5. v \in Known(q) /\ w \in Known(p)
  BY <1>2, <1>4 DEF Known
<1>6. r.ref = s.ref
  <2>1. Claim(q, v) = s.ref
    BY <1>2, <1>5, RowTells
  <2> QED
    BY <1>2, <2>1
<1>7. p = q
  BY <1>2, <1>4, <1>6
<1>8. v = w
  BY <1>2, <1>4, <1>7 DEF Agreed, Unique
<1> QED
  BY <1>2, <1>4, <1>8

\* The end of an undisturbed run.
LEMMA FinishSettles ==
  ASSUME NoSkip, Shape, Agreed, Undisturbed, clean,
         phase = "apply", cur = None, undone = {}
  PROVE  Settled
<1>1. /\ \A p \in PCEs : Doing(p) /\ (\A w \in wk[p] : Rows(w.host) # {})
      /\ cur \notin PCEs
  BY InputAssumption DEF Shape, Undisturbed
<1>2. \A p \in PCEs : \A h \in Hosts : Rows(h) # {} =>
        \E w \in wk[p] : w.host = h /\ \E r \in Rows(h) : w.data = r.data
  BY <1>1 DEF Doing
<1>3. ASSUME NEW p \in PCEs, NEW w \in wk[p]
      PROVE  /\ \A q \in PCEs : \E v \in wk[q] : v.host = w.host /\ v.data = w.data
             /\ SourceExists(Claim(p, w), w.host)
  <2>1. w.host \in Hosts /\ Rows(w.host) # {}
    BY <1>1, <1>3 DEF Shape, IsWkld
  <2>2. \E r \in Rows(w.host) : w.data = r.data
    <3>1. PICK x \in wk[p] : x.host = w.host /\ \E r \in Rows(w.host) : x.data = r.data
      BY <1>2, <2>1
    <3>2. x = w
      BY <3>1 DEF Agreed, Unique
    <3> QED
      BY <3>1, <3>2
  <2>3. PICK r \in Rows(w.host) : w.data = r.data
    BY <2>2
  <2>4. ASSUME NEW q \in PCEs
        PROVE  \E v \in wk[q] : v.host = w.host /\ v.data = w.data
    <3>1. PICK v \in wk[q] : v.host = w.host /\ \E s \in Rows(w.host) : v.data = s.data
      BY <1>2, <2>1
    <3>2. PICK s \in Rows(w.host) : v.data = s.data
      BY <3>1
    <3>3. s.data = r.data
      BY OneRow
    <3> QED
      BY <2>3, <3>1, <3>2, <3>3
  <2>5. SourceExists(Claim(p, w), w.host)
    <3>1. PICK q \in PCEs : \E v \in view[q] :
            v.host = w.host /\ Exported(q, v) /\ r.ref = <<q, Kind(v)>> /\ r.ref = Claim(q, v)
      BY RowClaim
    <3>2. PICK v \in view[q] :
            v.host = w.host /\ Exported(q, v) /\ r.ref = <<q, Kind(v)>> /\ r.ref = Claim(q, v)
      BY <3>1
    <3>3. w \in Known(p)
      BY DEF Known
    <3>4. Claim(p, w) = r.ref
      BY <3>3, RowTells
    <3>5. PICK x \in wk[q] : x.host = v.host /\ x.managed = v.managed
      BY <1>1, <3>2 DEF Doing
    <3>6. x \in Known(q)
      BY DEF Known
    <3>7. Claim(q, x) = r.ref
      BY <3>2, <3>5, <3>6, RowTells
    <3>8. Kind(x) = Kind(v) /\ IsWkld(x)
      BY <3>5 DEF Kind, Shape
    <3>9. Source(q, x)
      BY <3>2, <3>7, <3>8, ClaimSource
    <3>10. r.ref[1] = q /\ r.ref[2] = Kind(x)
      BY <3>2, <3>8
    <3>11. SourceExists(r.ref, w.host)
      BY <3>2, <3>5, <3>9, <3>10 DEF SourceExists
    <3> QED
      BY <3>4, <3>11
  <2> QED
    BY <2>4, <2>5
<1> QED
  BY <1>3 DEF Settled

\* What is true of every workload that was read of PCEs that are settled.
ReadSettled ==
  \A p \in PCEs : \A v \in view[p] : \E w \in wk[p] : w.host = v.host /\ w.data = v.data

\* Importing what is everywhere already changes nothing but references.
LEMMA ImportSettled ==
  ASSUME NoSkip, Shape, Agreed, Settled, ReadSettled, NEW h \in Hosts, ImportHost(h)
  PROVE  Settled' /\ ReadSettled'
<1>1. /\ cur \in PCEs /\ phase = "apply" /\ \A p \in PCEs \ {cur} : wk'[p] = wk[p]
  BY ImportForm
<1>2. view' = view
  BY DEF ImportHost
<1>3. PICK r \in Rows(h) : \/ \E w, u : TakesOver(h, r, w, u)
                          \/ \E u : IsMade(h, r, u)
  BY ImportForm
<1>4. PICK q \in PCEs : \E v \in view[q] : v.host = h /\ r.data = v.data
  BY RowClaim
<1>5. PICK x \in wk[q] : x.host = h /\ x.data = r.data
  BY <1>4 DEF ReadSettled
<1>6. \E w \in wk[cur] : w.host = h /\ w.data = r.data
  BY <1>1, <1>5 DEF Settled
<1>7. \A w \in wk[cur] : w.host = h => w.data = r.data
  BY <1>1, <1>6 DEF Agreed, Unique
<1>8. PICK w, u : TakesOver(h, r, w, u)
  BY <1>3, <1>6 DEF IsMade
<1>9. /\ w \in wk[cur] /\ w.host = h /\ u.host = h /\ u.managed = w.managed /\ IsWkld(u)
      /\ u.data = r.data /\ wk'[cur] = (wk[cur] \ {w}) \cup {u}
  BY <1>8 DEF TakesOver
<1>10. Alike(cur, w, u)
  <2>1. Claim(cur, u) = r.ref /\ Claim(cur, w) = r.ref
    BY <1>8, ImportClaim
  <2>2. Kind(u) = Kind(w)
    BY <1>9 DEF Kind
  <2>3. Source(cur, w) => Source(cur, u)
    <3>1. Source(cur, w) => Claim(cur, u) = <<cur, Kind(u)>>
      BY <2>1, <2>2 DEF Claim
    <3> QED
      BY <1>9, <3>1, ClaimSource
  <2> QED
    BY <1>7, <1>9, <2>1, <2>2, <2>3 DEF Alike
<1>11. \A p \in PCEs : \A y \in wk[p] : \E z \in wk'[p] : Alike(p, y, z)
  <2> SUFFICES ASSUME NEW p \in PCEs, NEW y \in wk[p] PROVE \E z \in wk'[p] : Alike(p, y, z)
    OBVIOUS
  <2>1. CASE p = cur /\ y = w
    BY <1>9, <1>10, <2>1
  <2>2. CASE ~(p = cur /\ y = w)
    <3>1. y \in wk'[p]
      BY <1>1, <1>9, <2>2
    <3> QED
      BY <3>1, AlikeSelf
  <2> QED
    BY <2>1, <2>2
<1>12. \A p \in PCEs : \A z \in wk'[p] : \E y \in wk[p] : Alike(p, y, z)
  <2> SUFFICES ASSUME NEW p \in PCEs, NEW z \in wk'[p] PROVE \E y \in wk[p] : Alike(p, y, z)
    OBVIOUS
  <2>1. CASE p = cur /\ z = u
    BY <1>9, <1>10, <2>1
  <2>2. CASE ~(p = cur /\ z = u)
    <3>1. z \in wk[p]
      BY <1>1, <1>9, <2>2
    <3> QED
      BY <3>1, AlikeSelf
  <2> QED
    BY <2>1, <2>2
<1>13. Settled'
  BY <1>11, <1>12, ClaimsPCE, SettledKept
<1>14. ReadSettled'
  <2> SUFFICES ASSUME NEW p \in PCEs, NEW v \in view[p]
               PROVE  \E z \in wk'[p] : z.host = v.host /\ z.data = v.data
    BY <1>2 DEF ReadSettled
  <2>1. PICK y \in wk[p] : y.host = v.host /\ y.data = v.data
    BY DEF ReadSettled
  <2>2. PICK z \in wk'[p] : Alike(p, y, z)
    BY <1>11
  <2> QED
    BY <2>1, <2>2 DEF Alike
<1> QED
  BY <1>13, <1>14

\* No replica of settled PCEs is to be deleted.
LEMMA NothingToDelete ==
  ASSUME NoSkip, Shape, SourcesSeen, Agreed, Settled, ReadSettled, clean, phase = "apply",
         NEW p \in PCEs
  PROVE  Deletes(p) = {}
<1> SUFFICES ASSUME NEW i \in Deletes(p) PROVE FALSE
  OBVIOUS
<1>1. PICK v \in view[p] : /\ ~v.managed /\ v.ref \in Refs /\ v.ref # <<p, "unmanaged">>
                          /\ ~SourceSeen(v.ref, v.host)
  BY DeletesAre
<1>2. v.ref # None
  BY <1>1, InputAssumption
<1>3. Claim(p, v) = v.ref
  BY <1>1, <1>2 DEF Claim, Source
<1>4. PICK x \in wk[p] : x.host = v.host
  BY DEF ReadSettled
<1>5. v \in Known(p) /\ x \in Known(p)
  BY DEF Known
<1>6. Claim(p, x) = v.ref
  BY <1>3, <1>4, <1>5 DEF Agreed
<1>7. SourceExists(v.ref, v.host)
  BY <1>4, <1>6 DEF Settled
<1> QED
  BY <1>1, <1>7, ExistsIsSeen

LEMMA SettledInit == Init => AllSettled
BY DEF Init, AllSettled

LEMMA SettledSame ==
  ASSUME wk' = wk
  PROVE  /\ Settled => Settled'
         /\ view' = view /\ ReadSettled => ReadSettled'
BY DEF Settled, ReadSettled, SourceExists, Claim, Source, Kind

LEMMA SettledStep ==
  ASSUME NoSkip, Shape, SourcesSeen, Agreed, Undisturbed, AllSettled, [Next]_vars
  PROVE  AllSettled'
<1> SUFFICES ASSUME full' > 0
             PROVE  Settled' /\ (phase' # "ended" => ReadSettled')
  BY DEF AllSettled, ReadSettled
<1>1. full > 0 => clean /\ Settled /\ (phase # "ended" => ReadSettled)
  BY DEF AllSettled, ReadSettled, Shape
<1>2. CASE \E p \in PCEs : Read(p)
  <2>1. PICK p \in PCEs : Read(p)
    BY <1>2
  <2>2. full' = full
    BY <2>1 DEF Read
  <2>3. /\ phase = "read" /\ wk' = wk /\ view'[p] \subseteq wk[p]
        /\ \A q \in PCEs \ {p} : view'[q] = view[q]
    BY <2>1, ReadForm
  <2>4. Settled' /\ ReadSettled
    BY <1>1, <2>2, <2>3, SettledSame
  <2>5. ReadSettled'
    BY <2>3, <2>4 DEF ReadSettled
  <2> QED
    BY <2>4, <2>5
<1>3. CASE Quiet
  <2>1. wk' = wk /\ view' = view /\ phase # "ended"
    BY <1>3, QuietForm
  <2>2. CASE full' = full
    BY <1>1, <2>1, <2>2, SettledSame
  <2>3. CASE Finish
    <3>1. phase = "apply" /\ cur = None /\ undone = {} /\ phase' = "ended"
      BY <2>3 DEF Finish
    <3>2. clean
      BY <2>3 DEF Finish
    <3> QED
      BY <2>1, <3>1, <3>2, FinishSettles, SettledSame
  <2>4. CASE Crash
    BY <2>4 DEF Crash
  <2> QED
    BY <1>3, <2>2, <2>3, <2>4
    DEF Quiet, StartPCE, DryRun, PromptDenied, Approve, Decision, FinishPCE
<1>4. CASE \E h \in Hosts : ImportHost(h)
  <2>1. PICK h \in Hosts : ImportHost(h)
    BY <1>4
  <2>2. full' = full /\ phase = "apply"
    BY <2>1 DEF ImportHost
  <2> QED
    BY <1>1, <2>1, <2>2, ImportSettled
<1>5. CASE cur # None /\ \E w \in wk[cur] : DeleteHref(w)
  <2>1. PICK w \in wk[cur] : DeleteHref(w)
    BY <1>5
  <2>2. cur \in PCEs /\ phase = "apply" /\ w.id \in Deletes(cur) /\ full' = full
    BY <1>5, <2>1, DeleteForm
  <2> QED
    BY <1>1, <2>2, NothingToDelete
<1>6. CASE Changes
  BY <1>6, ChangeForm
<1>7. CASE Rerun
  <2>1. wk' = wk /\ view' = Nothing /\ full' = full
    BY <1>7 DEF Rerun
  <2>2. ReadSettled'
    BY <2>1 DEF ReadSettled, Nothing
  <2> QED
    BY <1>1, <2>1, <2>2, SettledSame
<1>8. CASE UNCHANGED vars
  BY <1>1, <1>8, SettledSame DEF vars
<1> QED
  BY <1>2, <1>3, <1>4, <1>5, <1>6, <1>7, <1>8, NextIs

-----------------------------------------------------------------------------
(* The theorems. *)

Inv == Shape /\ SourcesSeen /\ Agreed /\ Undisturbed /\ AllSettled

LEMMA Invariant == Stays => (Spec => []Inv)
<1> SUFFICES ASSUME Stays PROVE Spec => []Inv
  OBVIOUS
<1>1. Init => Inv
  BY ShapeInit, SeenInit, AgreedInit, UndisturbedInit, SettledInit DEF Inv
<1>2. Inv /\ [Next]_vars => Inv'
  BY ShapeStep, SeenStep, AgreedStep, UndisturbedStep, SettledStep DEF Inv, Stays
<1> QED
  BY <1>1, <1>2, PTL DEF Spec

\* After an undisturbed run, and until somebody changes something, every source
\* is with its data on every PCE, whatever earlier runs that failed or were
\* disturbed have left (wkldreplicate.go, replicate).
THEOREM Replicates == Stays => (Spec => []Replicated)
<1> SUFFICES ASSUME Stays PROVE Spec => []Replicated
  OBVIOUS
<1>1. Inv => Replicated
  <2> SUFFICES ASSUME Inv, full >= Settling,
                      NEW p \in PCEs, NEW w \in wk[p], Source(p, w), NEW q \in PCEs \ {p}
               PROVE  \E v \in wk[q] : v.host = w.host /\ v.data = w.data
    BY DEF Replicated
  <2>1. Settled
    BY InputAssumption DEF Inv, Stays, AllSettled, Shape
  <2> QED
    BY <2>1 DEF Settled
<1>2. Spec => []Inv
  BY Invariant
<1> QED
  BY <1>1, <1>2, PTL

\* ... and every workload with another's external data reference has it: no
\* replica outlives its source, or is taken for one whose source is gone.
THEOREM NoneOrphaned == Stays => (Spec => []NoOrphans)
<1> SUFFICES ASSUME Stays PROVE Spec => []NoOrphans
  OBVIOUS
<1>1. Inv => NoOrphans
  <2> SUFFICES ASSUME Inv, full >= Settling,
                      NEW p \in PCEs, NEW w \in wk[p], ~Source(p, w)
               PROVE  SourceExists(w.ref, w.host)
    BY DEF NoOrphans
  <2>1. Settled
    BY InputAssumption DEF Inv, Stays, AllSettled, Shape
  <2> QED
    BY <2>1 DEF Settled, Claim
<1>2. Spec => []Inv
  BY Invariant
<1> QED
  BY <1>1, <1>2, PTL
-----------------------------------------------------------------------------
(* The consent gate *)

\* What makes the gate inductive.
GateInv ==
  /\ consent \in Consents
  /\ phase \in {"read", "decide"} => answer = "unasked" /\ wrote = FALSE
  /\ phase = "apply" => Gate!Consent

LEMMA GateStep ==
  ASSUME GateInv, [Next]_vars
  PROVE  GateInv' /\ [Gate!Next]_Gate!vars
<1> USE DEF GateInv, Gate!Consent, Gate!vars
<1>0. consent[1] \in BOOLEAN /\ consent[2] \in BOOLEAN
  BY InputAssumption
<1>1. CASE \E p \in PCEs : Read(p) \/ StartPCE(p)
  BY <1>1 DEF Read, StartPCE
<1>2. CASE DryRun \/ PromptDenied \/ Approve
  <2>1. CASE DryRun
    BY <2>1 DEF DryRun, Decision
  <2>2. CASE PromptDenied
    <3>1. /\ phase = "decide" /\ phase' = "ended" /\ answer' = "no"
          /\ consent = <<TRUE, FALSE>> /\ UNCHANGED <<consent, wrote>>
      BY <2>2 DEF PromptDenied, Decision
    <3>2. consent[1] /\ ~consent[2]
      BY <3>1
    <3> QED
      BY <3>1, <3>2 DEF Gate!Next, Gate!Ask
  <2>3. CASE Approve
    BY <1>0, <2>3 DEF Approve, Decision, Gate!Next, Gate!Ask
  <2> QED
    BY <1>2, <2>1, <2>2, <2>3
<1>3. CASE \/ \E h \in Hosts : ImportHost(h)
           \/ cur # None /\ \E w \in wk[cur] : DeleteHref(w)
  <2>1. /\ phase = "apply" /\ phase' = phase /\ wrote' = TRUE
        /\ UNCHANGED <<consent, answer>>
    BY <1>3 DEF ImportHost, DeleteHref
  <2> QED
    BY <2>1 DEF Gate!Next, Gate!Write
<1>4. CASE FinishPCE \/ Finish \/ Crash
  BY <1>4 DEF FinishPCE, Finish, Crash
<1>5. CASE \/ \E p \in PCEs, h \in Hosts, m \in BOOLEAN, d \in Data : AddSource(p, h, m, d)
           \/ \E p \in PCEs : \E w \in wk[p] :
                RemoveSource(p, w) \/ \E d \in Data : Relabel(p, w, d)
  BY <1>5 DEF AddSource, RemoveSource, Relabel, Others
<1>6. CASE Rerun
  BY <1>6 DEF Rerun, Gate!Next, Gate!Rerun
<1>7. CASE UNCHANGED vars
  BY <1>7 DEF vars
<1> QED
  BY <1>1, <1>2, <1>3, <1>4, <1>5, <1>6, <1>7 DEF Next, RunStep

\* wkld-replicate imports and deletes on no PCE unless --update-pce is set and,
\* without --no-prompt, the operator has said yes, once for all PCEs.
THEOREM ReplicationGated == Spec => GateSpec
<1>1. Init => GateInv /\ Gate!Init
  BY InputAssumption DEF Init, GateInv, Gate!Init
<1>2. GateInv /\ [Next]_vars => GateInv' /\ [Gate!Next]_Gate!vars
  BY GateStep
<1> QED
  BY <1>1, <1>2, PTL DEF Spec, GateSpec, Gate!Spec
=============================================================================
