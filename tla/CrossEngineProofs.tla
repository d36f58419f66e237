-------------------------- MODULE CrossEngineProofs --------------------------
(***************************************************************************)
(* Proofs about CrossEngine, for any statements, tables, rows and chunk     *)
(* sizes and any interleaving of the scans: the registry names tables of   *)
(* the running statement only, and its scans are bound to them; and a scan *)
(* delivers its rows in order, once each and, without an error, all of     *)
(* them.                                                                   *)
(***************************************************************************)
EXTENDS CrossEngine, TLAPS, WellFoundedInduction, SequenceTheorems

(* A fiber has its fields. *)
FiberOk(f) ==
    f \in [thd : {"none", "live", "destroyed"}, started : BOOLEAN, active : BOOLEAN,
           killed : BOOLEAN, finished : BOOLEAN, error : BOOLEAN,
           sent : {f.sent}, buffer : {f.buffer}, frees : {f.frees}]

(* A scan has its fields, and while rows are pulled a scan that has not
   finished has a fiber that can be resumed. *)
ScanOk(s, ph) ==
    /\ s \in [table : {s.table}, where : {s.where}, direct : {s.direct},
              scan_started : BOOLEAN, rnd_inited : BOOLEAN, finished : BOOLEAN,
              fiber : {s.fiber}, delivered : {s.delivered}, drained : BOOLEAN]
    /\ FiberOk(s.fiber)
    /\ ph = "stream" /\ ~s.finished => ~s.fiber.finished

(* The data that bind leaves to a scan does not change. *)
SameBinding(s, t) == t.table = s.table /\ t.where = s.where /\ t.direct = s.direct

(* A step of one scan leaves every scan its binding. *)
BindingsKept ==
    /\ DOMAIN scan' = DOMAIN scan
    /\ \A r \in DOMAIN scan : SameBinding(scan[r], scan'[r])

(* The inductive invariant. *)
FiberInv == \A r \in DOMAIN scan : ScanOk(scan[r], phase)

---------------------------------------------------------------------------
(* A fiber has its fields when it yields or returns. *)
LEMMA ResumeOk ==
    ASSUME NEW f, FiberOk(f), NEW rows
    PROVE  FiberOk(FiberResume(f, rows))
<1> DEFINE rest == SubSeq(rows, f.sent + 1, Len(rows))
           full == Len(rest) >= VectorSize
           part == SubSeq(rest, 1, VectorSize)
           next == f.sent + VectorSize
           len == Len(rows)
<1>1. FiberResume(f, rows) =
        IF f.killed THEN FiberAborted(f)
        ELSE IF full
        THEN [f EXCEPT !.started = TRUE, !.active = TRUE, !.sent = next, !.buffer = part]
        ELSE [f EXCEPT !.started = TRUE, !.active = FALSE, !.finished = TRUE,
                       !.sent = len, !.buffer = rest]
  BY Zenon DEF FiberResume
<1> HIDE DEF rest, full, part, next, len
<1> QED
  BY <1>1, ZenonT(60) DEF FiberOk, FiberAborted

LEMMA AbortOk ==
    ASSUME NEW f, FiberOk(f)
    PROVE  FiberOk(FiberAborted(f))
  BY Zenon DEF FiberOk, FiberAborted

LEMMA InitOk == /\ FiberOk(FiberInit) /\ ~FiberInit.finished
                /\ FiberOk(NoFiber) /\ ~NoFiber.finished
  BY Zenon DEF FiberOk, FiberInit, NoFiber

LEMMA FailedInitOk ==
    ASSUME NEW f \in FailedInit PROVE FiberOk(f) /\ ~f.killed
<1>1. PICK n \in {0, 2} : f = [NoFiber EXCEPT !.frees = n]
  BY Zenon DEF FailedInit
<1> QED
  BY <1>1, Zenon DEF FiberOk, NoFiber

(* A fiber that could not be entered or resumed. *)
NotResumed(f) == [f EXCEPT !.started = TRUE, !.buffer = <<>>]

LEMMA NotResumedOk ==
    ASSUME NEW f, FiberOk(f)
    PROVE  FiberOk(NotResumed(f)) /\ NotResumed(f).killed = f.killed
  BY Zenon DEF FiberOk, NotResumed

(* Handing over a chunk touches neither the fiber nor the flags. *)
LEMMA DeliverOk ==
    ASSUME NEW s, NEW ph, ScanOk(s, ph), NEW chunk
    PROVE  ScanOk(Deliver(s, chunk), ph) /\ SameBinding(s, Deliver(s, chunk))
<1> DEFINE all == s.delivered \o chunk
           empty == chunk = <<>>
<1>1. Deliver(s, chunk) = [s EXCEPT !.delivered = all, !.drained = empty]
  BY Zenon DEF Deliver
<1>2. empty \in BOOLEAN
  BY Zenon
<1> HIDE DEF all, empty
<1> QED
  BY <1>1, <1>2, Zenon DEF ScanOk, SameBinding

(* A step that changes one scan, the phase staying the same. *)
LEMMA OneScanOk ==
    ASSUME FiberInv, NEW r \in DOMAIN scan, NEW s,
           scan' = [scan EXCEPT ![r] = s], ScanOk(s, phase), SameBinding(scan[r], s),
           phase' = phase
    PROVE  FiberInv' /\ BindingsKept
  BY Zenon DEF FiberInv, BindingsKept, SameBinding

(* The fiber of a call that pulls rows can be resumed. *)
LEMMA FiberOfOk ==
    ASSUME NEW s, ScanOk(s, "stream"), ~s.finished, ~s.direct
    PROVE  /\ FiberOk(FiberOf(s))
           /\ ~FiberOf(s).finished
<1>1. CASE s.scan_started
  BY <1>1, Zenon DEF FiberOf, ScanOk
<1>2. CASE ~s.scan_started
  BY <1>2, InitOk, Zenon DEF FiberOf
<1> QED
  BY <1>1, <1>2, Zenon

---------------------------------------------------------------------------
LEMMA FunctionKeepsInv ==
    ASSUME FiberInv, NEW r \in DOMAIN scan, mdb_scan_function(r)
    PROVE  FiberInv' /\ BindingsKept
<1> DEFINE s == scan[r]
<1>1. ScanOk(s, "stream") /\ phase = "stream" /\ phase' = phase
  BY Zenon DEF FiberInv, mdb_scan_function, Pulls, ScanFinished, FiberInitFails, FiberChunk,
         FiberError, FiberSwitchFails, DirectInitFails, DirectChunk, DirectError, DirectThrows
<1>2. CASE ScanFinished(r)
  <2>1. scan' = [scan EXCEPT ![r] = Deliver(s, <<>>)]
    BY <1>2, Zenon DEF ScanFinished
  <2>2. ScanOk(Deliver(s, <<>>), "stream") /\ SameBinding(s, Deliver(s, <<>>))
    BY <1>1, DeliverOk, Zenon DEF SameBinding
  <2> QED
    BY <1>1, <2>1, <2>2, OneScanOk, Zenon
<1>3. CASE FiberInitFails(r)
  <2>0. PICK f \in FailedInit :
          scan' = [scan EXCEPT ![r] =
                      Deliver([s EXCEPT !.finished = TRUE, !.fiber = f], <<>>)]
    BY <1>3, Zenon DEF FiberInitFails
  <2> DEFINE n == [s EXCEPT !.finished = TRUE, !.fiber = f]
  <2>1. scan' = [scan EXCEPT ![r] = Deliver(n, <<>>)]
    BY <2>0, Zenon
  <2>2. ScanOk(n, "stream") /\ SameBinding(s, n)
    BY <1>1, FailedInitOk, Zenon DEF ScanOk, SameBinding
  <2> HIDE DEF n
  <2>3. ScanOk(Deliver(n, <<>>), "stream") /\ SameBinding(s, Deliver(n, <<>>))
    BY <2>2, DeliverOk, ZenonT(30) DEF SameBinding
  <2> QED
    BY <1>1, <2>1, <2>3, OneScanOk, Zenon
<1>4. CASE FiberChunk(r)
  <2> DEFINE f == FiberResume(FiberOf(s), SyntheticRows(s))
             done == f.finished \/ f.buffer = <<>>
             n == [s EXCEPT !.scan_started = TRUE, !.fiber = f, !.finished = done]
  <2>1. scan' = [scan EXCEPT ![r] = Deliver(n, f.buffer)] /\ ~s.finished /\ ~s.direct
    BY <1>4, Zenon DEF FiberChunk
  <2>2. FiberOk(f)
    BY <1>1, <2>1, FiberOfOk, ResumeOk, Zenon
  <2>3. ScanOk(n, "stream") /\ SameBinding(s, n)
    <3>1. done \in BOOLEAN /\ (~done => ~f.finished)
      BY Zenon
    <3> HIDE DEF f, done
    <3> QED
      BY <1>1, <2>2, <3>1, Zenon DEF ScanOk, SameBinding
  <2> HIDE DEF n
  <2>4. ScanOk(Deliver(n, f.buffer), "stream") /\ SameBinding(s, Deliver(n, f.buffer))
    BY <2>3, DeliverOk DEF SameBinding
  <2> QED
    BY <1>1, <2>1, <2>4, OneScanOk, Zenon
<1>5. CASE FiberError(r)
  <2> DEFINE f == FiberAborted(FiberOf(s))
             n == [s EXCEPT !.scan_started = TRUE, !.finished = TRUE, !.fiber = f]
  <2>1. scan' = [scan EXCEPT ![r] = n] /\ ~s.finished /\ ~s.direct
    BY <1>5, Zenon DEF FiberError
  <2>2. FiberOk(f)
    BY <1>1, <2>1, FiberOfOk, AbortOk, Zenon
  <2>3. ScanOk(n, "stream") /\ SameBinding(s, n)
    <3> HIDE DEF f
    <3> QED
      BY <1>1, <2>2, Zenon DEF ScanOk, SameBinding
  <2> HIDE DEF n
  <2> QED
    BY <1>1, <2>1, <2>3, OneScanOk, Zenon
<1>6. CASE DirectInitFails(r)
  <2> DEFINE n == [s EXCEPT !.scan_started = TRUE, !.finished = TRUE]
  <2>1. scan' = [scan EXCEPT ![r] = Deliver(n, <<>>)] /\ s.direct
    BY <1>6, Zenon DEF DirectInitFails
  <2>2. ScanOk(n, "stream") /\ SameBinding(s, n)
    BY <1>1, <2>1, Zenon DEF ScanOk, SameBinding
  <2> HIDE DEF n
  <2>3. ScanOk(Deliver(n, <<>>), "stream") /\ SameBinding(s, Deliver(n, <<>>))
    BY <2>2, DeliverOk, ZenonT(30) DEF SameBinding
  <2> QED
    BY <1>1, <2>1, <2>3, OneScanOk, Zenon
<1>7. CASE DirectChunk(r) \/ DirectError(r)
  <2> DEFINE n(b) == [s EXCEPT !.scan_started = TRUE, !.rnd_inited = TRUE, !.finished = b]
  <2>1. PICK b \in BOOLEAN :
          \E chunk : scan' = [scan EXCEPT ![r] = Deliver(n(b), chunk)]
    BY <1>7, Zenon DEF DirectChunk, DirectError
  <2>2. PICK chunk : scan' = [scan EXCEPT ![r] = Deliver(n(b), chunk)]
    BY <2>1, ZenonT(30)
  <2>3. s.direct /\ ~s.finished
    BY <1>7, Zenon DEF DirectChunk, DirectError
  <2>4. ScanOk(n(b), "stream") /\ SameBinding(s, n(b))
    BY <1>1, <2>3, Zenon DEF ScanOk, SameBinding
  <2> HIDE DEF n
  <2>5. ScanOk(Deliver(n(b), chunk), "stream") /\ SameBinding(s, Deliver(n(b), chunk))
    BY <2>4, DeliverOk, ZenonT(30) DEF SameBinding
  <2> QED
    BY <1>1, <2>2, <2>5, OneScanOk, Zenon
<1>8. CASE DirectThrows(r)
  <2> DEFINE n == [s EXCEPT !.scan_started = TRUE, !.rnd_inited = TRUE]
  <2>1. scan' = [scan EXCEPT ![r] = n] /\ s.direct
    BY <1>8, Zenon DEF DirectThrows
  <2>2. ScanOk(n, "stream") /\ SameBinding(s, n)
    BY <1>1, <2>1, Zenon DEF ScanOk, SameBinding
  <2> HIDE DEF n
  <2> QED
    BY <1>1, <2>1, <2>2, OneScanOk, Zenon
<1>9. CASE FiberSwitchFails(r)
  <2> DEFINE f == NotResumed(FiberOf(s))
             n == [s EXCEPT !.scan_started = TRUE, !.finished = TRUE, !.fiber = f]
  <2>1. scan' = [scan EXCEPT ![r] = Deliver(n, <<>>)] /\ ~s.finished /\ ~s.direct
    BY <1>9, Zenon DEF FiberSwitchFails, NotResumed
  <2>2. FiberOk(f)
    BY <1>1, <2>1, FiberOfOk, NotResumedOk, Zenon
  <2>3. ScanOk(n, "stream") /\ SameBinding(s, n)
    <3> HIDE DEF f
    <3> QED
      BY <1>1, <2>2, Zenon DEF ScanOk, SameBinding
  <2> HIDE DEF n
  <2>4. ScanOk(Deliver(n, <<>>), "stream") /\ SameBinding(s, Deliver(n, <<>>))
    BY <2>3, DeliverOk, ZenonT(30) DEF SameBinding
  <2> QED
    BY <1>1, <2>1, <2>4, OneScanOk, Zenon
<1> QED
  BY <1>2, <1>3, <1>4, <1>5, <1>6, <1>7, <1>8, <1>9, Zenon DEF mdb_scan_function

(* ~FiberScanState: a suspended fiber is killed and resumed, and its THD goes. *)
LEMMA DestructorKeepsInv ==
    ASSUME FiberInv, NEW r \in DOMAIN scan, ResumeKilled(r) \/ DestroyFiber(r) \/ ResumeFails(r)
    PROVE  FiberInv' /\ BindingsKept
<1> DEFINE s == scan[r]
<1>1. ScanOk(s, "closing") /\ phase = "closing" /\ phase' = phase
  BY Zenon DEF FiberInv, ResumeKilled, DestroyFiber, ResumeFails
<1>2. CASE ResumeKilled(r)
  <2> DEFINE f == FiberResume([s.fiber EXCEPT !.killed = TRUE], SyntheticRows(s))
             n == [s EXCEPT !.fiber = f]
  <2>1. scan' = [scan EXCEPT ![r] = n]
    BY <1>2, Zenon DEF ResumeKilled
  <2>2. FiberOk([s.fiber EXCEPT !.killed = TRUE])
    BY <1>1, Zenon DEF ScanOk, FiberOk
  <2>3. FiberOk(f)
    BY <2>2, ResumeOk, Zenon
  <2>4. ScanOk(n, "closing") /\ SameBinding(s, n)
    <3> HIDE DEF f
    <3> QED
      BY <1>1, <2>3, Zenon DEF ScanOk, SameBinding
  <2> HIDE DEF n
  <2> QED
    BY <1>1, <2>1, <2>4, OneScanOk, Zenon
<1>3. CASE DestroyFiber(r) \/ ResumeFails(r)
  <2> DEFINE m == s.fiber.frees + 1
             f == Freed(s.fiber)
             n == [s EXCEPT !.fiber = f]
  <2>1. scan' = [scan EXCEPT ![r] = n]
    BY <1>3, Zenon DEF DestroyFiber, ResumeFails
  <2>2. FiberOk(f)
    <3>1. f = [s.fiber EXCEPT !.thd = "destroyed", !.frees = m]
      BY Zenon DEF Freed
    <3> HIDE DEF m, f
    <3> QED
      BY <1>1, <3>1, Zenon DEF ScanOk, FiberOk
  <2>3. ScanOk(n, "closing") /\ SameBinding(s, n)
    <3> HIDE DEF f
    <3> QED
      BY <1>1, <2>2, Zenon DEF ScanOk, SameBinding
  <2> HIDE DEF n
  <2> QED
    BY <1>1, <2>1, <2>3, OneScanOk, Zenon
<1> QED
  BY <1>2, <1>3, Zenon

LEMMA NextFiberInv == FiberInv /\ [Next]_vars => FiberInv'
<1> SUFFICES ASSUME FiberInv, [Next]_vars PROVE FiberInv'
  BY Zenon
<1>1. CASE InitScan
  <2> DEFINE b(r) == Bound(RegistryForScan, Name(query, r))
  <2>1. scan' = [r \in ExternalRefs(query) |-> b(r)] /\ phase' = "stream"
    BY <1>1, Zenon DEF InitScan
  <2>2. ASSUME NEW reg, NEW name PROVE ScanOk(Bound(reg, name), "stream")
    <3> DEFINE t == reg.tables[name]
               w == reg.where[name]
               d == reg.ryow
    <3>1. Bound(reg, name) =
            [table |-> t, where |-> w, direct |-> d, scan_started |-> FALSE,
             rnd_inited |-> FALSE, finished |-> FALSE, fiber |-> NoFiber,
             delivered |-> <<>>, drained |-> FALSE]
      BY Zenon DEF Bound
    <3> HIDE DEF t, w, d
    <3> QED
      BY <3>1, InitOk DEF ScanOk
  <2>3. \A r : ScanOk(b(r), "stream")
    BY <2>2, Zenon
  <2> HIDE DEF b
  <2> QED
    BY <2>1, <2>3, Zenon DEF FiberInv
<1>2. CASE CloseTables
  <2>1. scan' = <<>>
    BY <1>2, Zenon DEF CloseTables
  <2> QED
    BY <2>1 DEF FiberInv
<1>3. CASE scan' = scan /\ (phase' = "stream" => phase = "stream")
           /\ (phase = "closing" => phase' = "closing")
  BY <1>3, Zenon DEF FiberInv, ScanOk
<1>4. CASE \E q \in Queries, ry \in BOOLEAN : CreateHandler(q, ry)
  BY <1>3, <1>4, Zenon DEF CreateHandler
<1>6. CASE InitScanFails \/ NextRowEof \/ NextRowFails \/ EndScan \/ SkipEndScan
  BY <1>3, <1>6, Zenon DEF InitScanFails, NextRowEof, NextRowFails, EndScan, SkipEndScan
<1>7. CASE UNCHANGED vars
  BY <1>3, <1>7, Zenon DEF vars
<1>8. CASE \E r \in DOMAIN scan : mdb_scan_function(r)
  BY <1>8, FunctionKeepsInv, Zenon
<1>9. CASE \E r \in DOMAIN scan : ResumeKilled(r) \/ DestroyFiber(r) \/ ResumeFails(r)
  BY <1>9, DestructorKeepsInv, Zenon
<1> QED
  BY <1>1, <1>2, <1>4, <1>6, <1>7, <1>8, <1>9, Zenon DEF Next, Progress

---------------------------------------------------------------------------
(* The registry *)

(* The least-number principle: the form of induction used in this module. *)
LEMMA Least ==
    ASSUME NEW T, T \subseteq Nat, T # {}
    PROVE  \E n \in T : \A m \in T : n <= m
<1>1. PICK n \in T : \A m \in T : ~(<<m, n>> \in OpToRel(<, Nat))
  BY WFMin, NatLessThanWellFounded, Zenon
<1>2. \A m \in T : ~(m < n)
  BY <1>1, Zenon DEF OpToRel
<1> QED
  BY <1>2

LEMMA Greatest ==
    ASSUME NEW T, T \subseteq Nat, T # {}, NEW b \in Nat, \A t \in T : t <= b
    PROVE  \E n \in T : \A m \in T : m <= n
<1> DEFINE U == {b - t : t \in T}
<1>1. U \subseteq Nat /\ U # {}
  <2>1. \A t \in T : b - t \in Nat
    OBVIOUS
  <2> QED
    BY <2>1, Zenon
<1>2. PICK u \in U : \A w \in U : u <= w
  BY <1>1, Least, Zenon
<1>3. PICK n \in T : u = b - n
  BY Zenon
<1>4. ASSUME NEW m \in T PROVE m <= n
  BY <1>2, <1>3, SMTT(30), ZenonT(30)
<1> QED
  BY <1>4, Zenon

LEMMA RoundShape ==
    ASSUME NEW q, NEW v \in Rounds(q)
    PROVE  /\ v = <<v[1], v[2]>> /\ v[2] = <<v[2][1], v[2][2]>>
           /\ v[1] \in Nat /\ v[2][1] \in Nat /\ v[2][2] \in Nat
           /\ v[1] <= v[2][1]
           /\ v[2][1] \in Selects(q)
           /\ v[2][2] \in 1 .. Len(q.selects[v[2][1]].tables)
           /\ v[2] \in Refs(q)
<1>1. PICK i \in IF q.unit THEN Selects(q) ELSE {1} : v \in {i} \X GlobalTail(q, i)
  BY Zenon DEF Rounds
<1>2. i \in Nat /\ v[1] = i /\ v = <<v[1], v[2]>> /\ v[2] \in Refs(q) /\ i <= v[2][1]
  BY <1>1 DEF GlobalTail, Selects
<1>3. PICK j \in Selects(q) : v[2] \in {j} \X (1 .. Len(q.selects[j].tables))
  BY <1>2, Zenon DEF Refs
<1> QED
  BY <1>2, <1>3 DEF Selects

(* The rounds of a statement are finitely many and ordered: a set of them that
   is not empty has a last one. *)
LEMMA LastIn ==
    ASSUME NEW q \in Queries, NEW V, V \subseteq Rounds(q), V # {}
    PROVE  LastRound(V) \in V
<1>1. Len(q.selects) \in Nat /\ \A i \in Selects(q) : Len(q.selects[i].tables) \in Nat
  BY QueriesAssumption, Zenon
<1> DEFINE I == {v[1] : v \in V}
<1>2. I \subseteq Nat /\ I # {} /\ \A i \in I : i <= Len(q.selects)
  BY <1>1, RoundShape DEF Selects
<1>3. PICK i \in I : \A m \in I : m <= i
  BY <1>1, <1>2, Greatest, Zenon
<1> DEFINE V1 == {v \in V : v[1] = i}
           J == {v[2][1] : v \in V1}
<1>4. J \subseteq Nat /\ J # {} /\ \A j \in J : j <= Len(q.selects)
  BY <1>1, <1>3, RoundShape DEF Selects
<1>5. PICK j \in J : \A m \in J : m <= j
  BY <1>1, <1>4, Greatest, Zenon
<1> DEFINE V2 == {v \in V1 : v[2][1] = j}
           K == {v[2][2] : v \in V2}
<1>6. j \in Selects(q)
  BY <1>5, RoundShape, SMTT(30), Zenon
<1>7. K \subseteq Nat /\ K # {} /\ \A k \in K : k <= Len(q.selects[j].tables)
  BY <1>1, <1>5, <1>6, RoundShape, SMTT(30), ZenonT(30)
<1>8. PICK k \in K : \A m \in K : m <= k
  BY <1>1, <1>6, <1>7, Greatest, Zenon
<1>9. PICK v \in V : v[1] = i /\ v[2][1] = j /\ v[2][2] = k
  BY <1>8, Zenon
<1>10. ASSUME NEW u \in V PROVE u = v \/ Before(u, v)
  <2>1. u[1] <= i /\ (u[1] = i => u[2][1] <= j)
        /\ (u[1] = i /\ u[2][1] = j => u[2][2] <= k)
    BY <1>3, <1>5, <1>8, Zenon
  <2>2. u = <<u[1], u[2]>> /\ u[2] = <<u[2][1], u[2][2]>>
        /\ v = <<v[1], v[2]>> /\ v[2] = <<v[2][1], v[2][2]>>
        /\ u[1] \in Nat /\ u[2][1] \in Nat /\ u[2][2] \in Nat
        /\ v[1] \in Nat /\ v[2][1] \in Nat /\ v[2][2] \in Nat
    BY RoundShape, SMTT(30), ZenonT(30)
  <2>3. CASE u[1] = i /\ u[2][1] = j /\ u[2][2] = k
    BY <1>9, <2>2, <2>3, Zenon
  <2>4. CASE ~(u[1] = i /\ u[2][1] = j /\ u[2][2] = k)
    BY <1>9, <2>1, <2>2, <2>4 DEF Before
  <2> QED
    BY <2>3, <2>4, Zenon
<1>11. \E w \in V : \A u \in V : u = w \/ Before(u, w)
  BY <1>10, Zenon
<1> QED
  BY <1>11, Zenon DEF LastRound

(* Every external reference of a statement is reached by some round. *)
LEMMA RoundReaches ==
    ASSUME NEW q \in Queries, NEW r \in Refs(q)
    PROVE  TableRounds(q, Name(q, r)) # {}
<1>1. PICK j \in Selects(q) : r \in {j} \X (1 .. Len(q.selects[j].tables))
  BY Zenon DEF Refs
<1>2. r[1] = j /\ j \in Nat /\ 1 <= j
  BY <1>1 DEF Selects
<1> DEFINE i == IF q.unit THEN j ELSE 1
<1>3. i \in (IF q.unit THEN Selects(q) ELSE {1}) /\ i <= r[1]
  BY <1>1, <1>2
<1>4. <<i, r>> \in {i} \X GlobalTail(q, i)
  BY <1>3, Zenon DEF GlobalTail
<1>5. <<i, r>> \in Rounds(q)
  BY <1>3, <1>4, Zenon DEF Rounds
<1>6. <<i, r>> \in TableRounds(q, Name(q, r))
  BY <1>5, Zenon DEF TableRounds
<1> QED
  BY <1>6, Zenon

(* The reference whose TABLE a name of a statement is bound to. *)
BoundRef(q, n) == LastRound(TableRounds(q, n))[2]

LEMMA BoundRefOk ==
    ASSUME NEW q \in Queries, NEW n, TableRounds(q, n) # {}
    PROVE  BoundRef(q, n) \in Refs(q) /\ Name(q, BoundRef(q, n)) = n
<1>1. LastRound(TableRounds(q, n)) \in TableRounds(q, n)
  BY LastIn, SMTT(30), Zenon DEF TableRounds
<1> QED
  BY <1>1, RoundShape, ZenonT(30) DEF BoundRef, TableRounds

(* What init_scan binds, whatever the registry held. *)
LEMMA RegisteredTables ==
    ASSUME NEW q \in Queries, NEW k, NEW ry, NEW reg, NEW r \in ExternalRefs(q)
    PROVE  Registered(q, k, ry, reg).tables[Name(q, r)] = <<BoundRef(q, Name(q, r)), k>>
<1>1. r \in Refs(q) /\ Name(q, r) \in Externals
  BY Zenon DEF ExternalRefs
<1> QED
  BY <1>1, RoundReaches, Zenon DEF Registered, BoundRef

(* What init_scan leaves in a registry that was empty. *)
FreshRegistry ==
    IF HasCrossEngine THEN Registered(query, stmt, ryow, EmptyRegistry)
    ELSE EmptyRegistry

(* The registry is empty between statements and holds the running statement's
   tables from init_scan to end_scan, unless an end_scan was skipped. *)
RegistryInv ==
    /\ phase \in {"idle", "created", "stream", "eof", "failed", "closing"}
    /\ phase # "idle" => query \in Queries
    /\ ~skipped => registry = IF phase \in {"stream", "eof", "failed"}
                              THEN FreshRegistry ELSE EmptyRegistry
    /\ phase \in {"idle", "created"} => DOMAIN scan = {}
    /\ DOMAIN scan \subseteq ExternalRefs(query)
    /\ \A r \in DOMAIN scan : scan[r].table = <<BoundRef(query, Name(query, r)), stmt>>

(* init_scan, after an end_scan that was not skipped, leaves what it leaves in
   an empty registry. *)
LEMMA FreshOk ==
    ASSUME RegistryInv, phase = "created"
    PROVE  ~skipped => RegistryForScan = FreshRegistry
  BY Zenon DEF RegistryInv, RegistryForScan, FreshRegistry

(* A step that leaves the statement and the registry alone. *)
Local ==
    /\ UNCHANGED <<statement, registry, skipped>>
    /\ \/ phase' = phase
       \/ {phase, phase'} \subseteq {"stream", "eof", "failed"}

LEMMA SameRegistry ==
    ASSUME RegistryInv, Local, BindingsKept
    PROVE  RegistryInv'
<1>1. DOMAIN scan' = DOMAIN scan /\ \A r \in DOMAIN scan : scan'[r].table = scan[r].table
  BY Zenon DEF BindingsKept, SameBinding
<1>2. query' = query /\ stmt' = stmt /\ ryow' = ryow /\ registry' = registry
      /\ skipped' = skipped
  BY Zenon DEF Local, statement
<1>3. FreshRegistry' = FreshRegistry
  BY <1>2, SMTT(30), Zenon DEF FreshRegistry, HasCrossEngine
<1> QED
  BY <1>1, <1>2, <1>3, SMTT(30), Zenon DEF RegistryInv, Local

LEMMA InitScanRegistry ==
    ASSUME RegistryInv, InitScan
    PROVE  RegistryInv'
<1>1. phase = "created" /\ query \in Queries /\ phase' = "stream"
      /\ query' = query /\ stmt' = stmt /\ ryow' = ryow /\ skipped' = skipped
  BY Zenon DEF RegistryInv, InitScan, statement
<1>2. FreshRegistry' = FreshRegistry
  BY <1>1, SMTT(30), ZenonT(30) DEF FreshRegistry, HasCrossEngine
<1>3. ~skipped => registry' = FreshRegistry
  BY <1>1, FreshOk, SMTT(30), ZenonT(30) DEF InitScan
<1>4. ASSUME NEW r \in ExternalRefs(query)
      PROVE  RegistryForScan.tables[Name(query, r)]
               = <<BoundRef(query, Name(query, r)), stmt>>
  <2>1. HasCrossEngine
    BY Zenon DEF HasCrossEngine
  <2> QED
    BY <1>1, <2>1, RegisteredTables, SMTT(30), Zenon DEF RegistryForScan
<1>5. DOMAIN scan' = ExternalRefs(query)
      /\ \A r \in DOMAIN scan' : scan'[r].table = <<BoundRef(query, Name(query, r)), stmt>>
  BY <1>4, Zenon DEF InitScan, Bound
<1> QED
  BY <1>1, <1>2, <1>3, <1>5, SMTT(30), ZenonT(30) DEF RegistryInv

LEMMA NextRegistry == FiberInv /\ RegistryInv /\ [Next]_vars => RegistryInv'
<1> SUFFICES ASSUME FiberInv, RegistryInv, [Next]_vars PROVE RegistryInv'
  BY Zenon
<1>1. ASSUME NEW q \in Queries, NEW ry \in BOOLEAN, CreateHandler(q, ry) PROVE RegistryInv'
  BY <1>1, SMTT(30), Zenon DEF CreateHandler, RegistryInv, history
<1>3. CASE InitScanFails
  <2>1. ~skipped => registry' = FreshRegistry
    BY <1>3, FreshOk, Zenon DEF InitScanFails
  <2>2. FreshRegistry' = FreshRegistry
    BY <1>3, Zenon DEF FreshRegistry, HasCrossEngine, InitScanFails, statement
  <2> QED
    BY <1>3, <2>1, <2>2, SMTT(30), Zenon DEF InitScanFails, RegistryInv, statement, history
<1>4. CASE NextRowEof \/ NextRowFails
  <2>1. Local /\ BindingsKept
    BY <1>4, Zenon DEF NextRowEof, NextRowFails, statement, history, Local, BindingsKept, SameBinding,
                RegistryInv
  <2> QED
    BY <2>1, SameRegistry, Zenon
<1>5. CASE EndScan
  <2>1. ~skipped => registry' = EmptyRegistry
    BY <1>5, SMTT(30), Zenon DEF EndScan, RegistryInv, FreshRegistry
  <2> QED
    BY <1>5, <2>1, SMTT(30), Zenon DEF EndScan, RegistryInv, statement, history
<1>6. CASE SkipEndScan
  <2>1. ~skipped' => registry = EmptyRegistry
    BY <1>6, Zenon DEF SkipEndScan, RegistryInv, FreshRegistry
  <2>2. skipped => skipped'
    BY <1>6, Zenon DEF SkipEndScan
  <2> QED
    BY <1>6, <2>1, <2>2, SMTT(30), Zenon DEF SkipEndScan, RegistryInv, statement
<1>7. CASE CloseTables
  BY <1>7, SMTT(30), Zenon DEF CloseTables, RegistryInv
<1>8. CASE UNCHANGED vars
  <2>1. Local /\ BindingsKept
    BY <1>8, Zenon DEF vars, statement, Local, BindingsKept, SameBinding
  <2> QED
    BY <2>1, SameRegistry, Zenon
<1>9. ASSUME NEW r \in DOMAIN scan, mdb_scan_function(r) PROVE RegistryInv'
  <2>1. Local
    BY <1>9, Zenon DEF Local, mdb_scan_function, ScanFinished, FiberInitFails, FiberChunk, FiberError,
                FiberSwitchFails, DirectInitFails, DirectChunk, DirectError, DirectThrows, history
  <2> QED
    BY <1>9, <2>1, FunctionKeepsInv, SameRegistry, ZenonT(30)
<1>10. ASSUME NEW r \in DOMAIN scan, ResumeKilled(r) \/ DestroyFiber(r) \/ ResumeFails(r) PROVE RegistryInv'
  <2>1. Local
    BY <1>10, Zenon DEF Local, ResumeKilled, DestroyFiber, ResumeFails, history
  <2> QED
    BY <1>10, <2>1, DestructorKeepsInv, SameRegistry, Zenon
<1>11. CASE InitScan
  BY <1>11, InitScanRegistry, Zenon
<1> QED
  BY <1>1, <1>3, <1>4, <1>5, <1>6, <1>7, <1>8, <1>9, <1>10, <1>11, ZenonT(30)
     DEF Next, Progress

LEMMA RegistryAlways == Spec => [](FiberInv /\ RegistryInv)
<1>1. Init => FiberInv /\ RegistryInv
  BY DEF Init, FiberInv, RegistryInv
<1> QED
  BY <1>1, NextFiberInv, NextRegistry, PTL DEF Spec

(* The registry is emptied by end_scan however the statement ended: between
   statements it names no table, and during one only its own. *)
THEOREM RegistryIsScoped == Spec => []RegistryNamesOpenTables
<1>1. RegistryInv => RegistryNamesOpenTables
  <2> SUFFICES ASSUME RegistryInv, NEW n \in Externals, registry.tables[n] # NoTable, ~skipped
               PROVE  phase # "idle" /\ registry.tables[n][2] = stmt
    BY Zenon DEF RegistryNamesOpenTables
  <2>1. EmptyRegistry.tables[n] = NoTable
    BY Zenon DEF EmptyRegistry
  <2>2. phase # "idle" /\ registry = Registered(query, stmt, ryow, EmptyRegistry)
    BY <2>1, SMTT(30), ZenonT(30) DEF RegistryInv, FreshRegistry
  <2> QED
    BY <2>1, <2>2, SMTT(30), Zenon DEF Registered
<1> QED
  BY <1>1, RegistryAlways, PTL

(* Every reference is bound to a TABLE of its own statement and of its own
   name, whatever the registry held before init_scan. *)
THEOREM ScansBindOwnTables == Spec => []BindsOwnTables
<1>1. RegistryInv => BindsOwnTables
  <2> SUFFICES ASSUME RegistryInv, NEW r \in DOMAIN scan
               PROVE  scan[r].table[2] = stmt
                      /\ Name(query, scan[r].table[1]) = Name(query, r)
    BY Zenon DEF BindsOwnTables
  <2>1. query \in Queries /\ r \in ExternalRefs(query)
    BY Zenon DEF RegistryInv
  <2>2. Name(query, BoundRef(query, Name(query, r))) = Name(query, r)
    BY <2>1, RoundReaches, BoundRefOk, SMTT(30), Zenon DEF ExternalRefs
  <2> QED
    BY <2>2 DEF RegistryInv
<1> QED
  BY <1>1, RegistryAlways, PTL

---------------------------------------------------------------------------
(* What a condition keeps.  Kept is a recursive function: it exists, and its
   values are related, by induction on the number of rows. *)

KeptAt(g, rows, cond, i) ==
    IF i = 0 THEN <<>>
    ELSE IF Accepts(cond, rows[i]) THEN Append(g[i - 1], rows[i])
    ELSE g[i - 1]

Keeps(g, rows, cond, n) == g = [i \in 0 .. n |-> KeptAt(g, rows, cond, i)]

LEMMA KeepsExtends ==
    ASSUME NEW rows, NEW cond, NEW n \in Nat, NEW g, Keeps(g, rows, cond, n)
    PROVE  \E h : Keeps(h, rows, cond, n + 1)
<1> DEFINE v == KeptAt(g, rows, cond, n + 1)
           h == [i \in 0 .. n + 1 |-> IF i = n + 1 THEN v ELSE g[i]]
<1>1. \A i \in 0 .. n : g[i] = KeptAt(g, rows, cond, i)
  BY Zenon DEF Keeps
<1>2. \A i \in 0 .. n : h[i] = g[i]
  BY SMTT(30)
<1>3. \A i \in 0 .. n + 1 : KeptAt(h, rows, cond, i) = KeptAt(g, rows, cond, i)
  BY <1>2 DEF KeptAt
<1>4. \A i \in 0 .. n + 1 : h[i] = KeptAt(h, rows, cond, i)
  BY <1>1, <1>2, <1>3
<1>5. h = [i \in 0 .. n + 1 |-> h[i]]
  BY Zenon
<1> HIDE DEF h
<1>6. Keeps(h, rows, cond, n + 1)
  BY <1>4, <1>5, Zenon DEF Keeps
<1> QED
  BY <1>6, Zenon

LEMMA KeepsExists ==
    ASSUME NEW rows, NEW cond, NEW n \in Nat
    PROVE  \E g : Keeps(g, rows, cond, n)
<1> DEFINE T == {k \in Nat : ~\E g : Keeps(g, rows, cond, k)}
<1> SUFFICES ASSUME T # {} PROVE FALSE
  BY Zenon
<1>1. PICK k \in T : \A m \in T : k <= m
  BY Least, Zenon
<1>2. CASE k = 0
  <2> DEFINE g == [i \in 0 .. 0 |-> <<>>]
  <2>1. g = [i \in 0 .. 0 |-> KeptAt(g, rows, cond, i)]
    BY DEF KeptAt
  <2> HIDE DEF g
  <2> QED
    BY <1>1, <1>2, <2>1, Zenon DEF Keeps
<1>3. CASE k # 0
  <2>1. k - 1 \in Nat /\ k - 1 \notin T /\ k - 1 + 1 = k
    BY <1>1, <1>3, SMTT(30), ZenonT(30)
  <2>2. PICK g : Keeps(g, rows, cond, k - 1)
    BY <2>1, SMTT(30), Zenon
  <2>3. \E h : Keeps(h, rows, cond, k - 1 + 1)
    BY <2>1, <2>2, KeepsExtends, SMTT(30), ZenonT(30)
  <2> QED
    BY <1>1, <2>1, <2>3, ZenonT(30)
<1> QED
  BY <1>2, <1>3, Zenon

LEMMA KeptKeeps ==
    ASSUME NEW rows, NEW cond, Len(rows) \in Nat
    PROVE  Keeps(Kept(rows, cond), rows, cond, Len(rows))
<1> DEFINE P(g) == g = [i \in 0 .. Len(rows) |->
            IF i = 0 THEN <<>>
            ELSE IF Accepts(cond, rows[i]) THEN Append(g[i - 1], rows[i])
            ELSE g[i - 1]]
<1>1. \E g : P(g)
  <2>1. PICK g : Keeps(g, rows, cond, Len(rows))
    BY KeepsExists, Zenon
  <2>2. P(g)
    BY <2>1, Zenon DEF Keeps, KeptAt
  <2> QED
    BY <2>2, Zenon
<1>2. Kept(rows, cond) = CHOOSE g : P(g)
  BY Zenon DEF Kept
<1>3. P(Kept(rows, cond))
  BY <1>1, <1>2, Zenon
<1> QED
  BY <1>3, Zenon DEF Keeps, KeptAt

LEMMA KeptValue ==
    ASSUME NEW rows, NEW cond, Len(rows) \in Nat
    PROVE  /\ Kept(rows, cond)[0] = <<>>
           /\ \A i \in 1 .. Len(rows) :
                 Kept(rows, cond)[i] =
                     IF Accepts(cond, rows[i]) THEN Append(Kept(rows, cond)[i - 1], rows[i])
                     ELSE Kept(rows, cond)[i - 1]
<1> DEFINE g == Kept(rows, cond)
<1>1. g = [i \in 0 .. Len(rows) |-> KeptAt(g, rows, cond, i)]
  BY KeptKeeps, Zenon DEF Keeps
<1> HIDE DEF g
<1>2. \A i \in 0 .. Len(rows) : g[i] = KeptAt(g, rows, cond, i)
  BY <1>1, Zenon
<1>3. g[0] = <<>>
  BY <1>2 DEF KeptAt
<1>4. \A i \in 1 .. Len(rows) :
          g[i] = IF Accepts(cond, rows[i]) THEN Append(g[i - 1], rows[i]) ELSE g[i - 1]
  BY <1>2 DEF KeptAt
<1> QED
  BY <1>3, <1>4, Zenon DEF g

LEMMA KeptType ==
    ASSUME NEW V, NEW rows \in Seq(V), NEW cond
    PROVE  \A i \in 0 .. Len(rows) : Kept(rows, cond)[i] \in Seq(V)
<1> DEFINE g == Kept(rows, cond)
           T == {i \in Nat : i <= Len(rows) /\ g[i] \notin Seq(V)}
<1>1. g[0] = <<>> /\ \A i \in 1 .. Len(rows) :
          g[i] = IF Accepts(cond, rows[i]) THEN Append(g[i - 1], rows[i]) ELSE g[i - 1]
  BY KeptValue
<1> HIDE DEF g
<1>2. ASSUME T # {} PROVE FALSE
  <2>1. PICK k \in T : \A m \in T : k <= m
    BY <1>2, Least, Zenon
  <2>2. CASE k = 0
    <3>1. <<>> \in Seq(V)
      OBVIOUS
    <3>2. g[k] = <<>> /\ g[k] \notin Seq(V)
      BY <1>1, <2>1, <2>2, Zenon
    <3> QED
      BY <3>1, <3>2, Zenon
  <2>3. CASE k # 0
    <3>1. k \in 1 .. Len(rows) /\ k - 1 \in Nat /\ k - 1 <= Len(rows)
      BY <2>1, <2>3
    <3>2. k - 1 \notin T
      BY <2>1, <3>1
    <3>3. g[k - 1] \in Seq(V) /\ rows[k] \in V
      BY <3>1, <3>2
    <3>4. Append(g[k - 1], rows[k]) \in Seq(V)
      BY <3>3
    <3>5. g[k] \notin Seq(V) /\ (g[k] = Append(g[k - 1], rows[k]) \/ g[k] = g[k - 1])
      BY <1>1, <2>1, <3>1, Zenon
    <3> QED
      BY <3>3, <3>4, <3>5, Zenon
  <2> QED
    BY <2>2, <2>3, Zenon
<1> QED
  BY <1>2 DEF g

(* What is kept of the first k rows is found on the way to what is kept of
   all rows. *)
LEMMA KeptOfPrefix ==
    ASSUME NEW V, NEW rows \in Seq(V), NEW cond, NEW k \in 0 .. Len(rows)
    PROVE  Keep(SubSeq(rows, 1, k), cond) = Kept(rows, cond)[k]
<1> DEFINE p == SubSeq(rows, 1, k)
           f == Kept(rows, cond)
           g == Kept(p, cond)
           T == {i \in Nat : i <= k /\ g[i] # f[i]}
<1>1. Len(p) = k /\ \A i \in 1 .. k : p[i] = rows[i]
  OBVIOUS
<1> HIDE DEF p
<1>2. f[0] = <<>> /\ \A i \in 1 .. Len(rows) :
          f[i] = IF Accepts(cond, rows[i]) THEN Append(f[i - 1], rows[i]) ELSE f[i - 1]
  BY KeptValue, SMTT(30), Zenon
<1>3. g[0] = <<>> /\ \A i \in 1 .. k :
          g[i] = IF Accepts(cond, p[i]) THEN Append(g[i - 1], p[i]) ELSE g[i - 1]
  BY <1>1, KeptValue, SMTT(30), ZenonT(30)
<1> HIDE DEF f, g
<1>4. ASSUME T # {} PROVE FALSE
  <2>1. PICK j \in T : \A m \in T : j <= m
    BY <1>4, Least, Zenon
  <2>2. j # 0
    BY <1>2, <1>3, <2>1, SMTT(30), Zenon
  <2>3. j \in 1 .. k /\ j \in 1 .. Len(rows) /\ j - 1 \in Nat /\ j - 1 <= k
    BY <2>1, <2>2
  <2>4. g[j - 1] = f[j - 1]
    BY <2>1, <2>3
  <2> QED
    BY <1>1, <1>2, <1>3, <2>1, <2>3, <2>4, SMTT(30), ZenonT(30)
<1>5. g[k] = f[k]
  BY <1>4
<1> QED
  BY <1>1, <1>5, Zenon DEF Keep, f, g, p

LEMMA KeptGrows ==
    ASSUME NEW V, NEW rows \in Seq(V), NEW cond, NEW k \in 0 .. Len(rows)
    PROVE  Starts(Kept(rows, cond)[k], Keep(rows, cond))
<1> DEFINE f == Kept(rows, cond)
           T == {n \in Nat : k <= n /\ n <= Len(rows) /\ ~Starts(f[k], f[n])}
<1>1. \A i \in 0 .. Len(rows) : f[i] \in Seq(V)
  BY KeptType, Zenon
<1>2. \A i \in 1 .. Len(rows) :
          f[i] = IF Accepts(cond, rows[i]) THEN Append(f[i - 1], rows[i]) ELSE f[i - 1]
  BY KeptValue
<1> HIDE DEF f
<1>3. ASSUME T # {} PROVE FALSE
  <2>1. PICK n \in T : \A m \in T : n <= m
    BY <1>3, Least, Zenon
  <2>2. n # k
    BY <1>1, <2>1 DEF Starts
  <2>3. n \in 1 .. Len(rows) /\ n - 1 \in Nat /\ k <= n - 1 /\ n - 1 <= Len(rows)
    BY <2>1, <2>2
  <2>4. Starts(f[k], f[n - 1])
    BY <2>1, <2>3
  <2>5. f[k] \in Seq(V) /\ f[n - 1] \in Seq(V) /\ rows[n] \in V
    BY <1>1, <2>3, SMTT(30), Zenon
  <2>6. Starts(f[k], Append(f[n - 1], rows[n]))
    BY <2>4, <2>5, SMTT(30), Zenon DEF Starts
  <2>7. Starts(f[k], f[n])
    BY <1>2, <2>3, <2>4, <2>6, SMTT(30), ZenonT(30)
  <2> QED
    BY <2>1, <2>7, Zenon
<1>4. Starts(f[k], f[Len(rows)])
  BY <1>3
<1> QED
  BY <1>4, Zenon DEF Keep, f

---------------------------------------------------------------------------
(* What a scan has delivered *)

(* The rows a scan reads. *)
RowsOf(s) == IF s.direct THEN Own[Name(query, s.table[1])] ELSE SyntheticRows(s)

(* A scan has delivered a prefix of its rows; the fiber, or the handler cursor
   c, stands right behind it; and a scan that finished without an exception
   (thrown) or an error it hid has delivered all of them. *)
ReadOk(s, rows, c, hidden, failed) ==
    LET k == Len(s.delivered)
    IN /\ k \in 0 .. Len(rows)
       /\ s.delivered = SubSeq(rows, 1, k)
       /\ s.drained => s.finished
       /\ ~s.fiber.killed
       /\ ~s.direct /\ ~s.scan_started => k = 0
       /\ ~s.direct /\ s.scan_started /\ ~s.finished => s.fiber.sent = k
       /\ s.direct /\ ~s.rnd_inited => k = 0
       /\ s.direct /\ s.rnd_inited /\ ~s.finished /\ ~failed => c.inited /\ c.pos = k
       /\ s.finished /\ ~failed /\ ~hidden => k = Len(rows)

LEMMA RestOfRows ==
    ASSUME NEW V, NEW rows \in Seq(V), NEW k \in 0 .. Len(rows)
    PROVE  LET rest == SubSeq(rows, k + 1, Len(rows))
           IN /\ Len(rest) = Len(rows) - k
              /\ \A m \in 0 .. Len(rows) - k : SubSeq(rest, 1, m) = SubSeq(rows, k + 1, k + m)
<1> DEFINE rest == SubSeq(rows, k + 1, Len(rows))
<1>1. rest \in Seq(V) /\ Len(rest) = Len(rows) - k
      /\ \A i \in 1 .. Len(rows) - k : rest[i] = rows[k + i]
  OBVIOUS
<1> HIDE DEF rest
<1>2. ASSUME NEW m \in 0 .. Len(rows) - k PROVE SubSeq(rest, 1, m) = SubSeq(rows, k + 1, k + m)
  <2>1. SubSeq(rest, 1, m) = [i \in 1 .. m |-> rest[i]]
    BY <1>1
  <2>2. SubSeq(rows, k + 1, k + m) = [i \in 1 .. m |-> rows[k + i]]
    OBVIOUS
  <2> QED
    BY <1>1, <2>1, <2>2, SMTT(30), ZenonT(30)
<1> QED
  BY <1>1, <1>2, Zenon DEF rest

LEMMA NextRows ==
    ASSUME NEW V, NEW rows \in Seq(V), NEW k \in 0 .. Len(rows), NEW m \in 0 .. Len(rows) - k
    PROVE  LET chunk == SubSeq(rows, k + 1, k + m)
           IN /\ Len(chunk) = m
              /\ chunk = <<>> <=> m = 0
              /\ SubSeq(rows, 1, k) \o chunk = SubSeq(rows, 1, k + m)
<1> DEFINE chunk == SubSeq(rows, k + 1, k + m)
<1>1. chunk \in Seq(V) /\ Len(chunk) = m
  OBVIOUS
<1>2. 1 \in 1 .. Len(rows) + 1 /\ k \in 1 - 1 .. Len(rows) /\ k + m \in k .. Len(rows)
  OBVIOUS
<1>3. SubSeq(rows, 1, k) \o chunk = SubSeq(rows, 1, k + m)
  BY <1>2, ConcatAdjacentSubSeq, Zenon
<1> HIDE DEF chunk
<1>4. chunk = <<>> <=> m = 0
  BY <1>1
<1> QED
  BY <1>1, <1>3, <1>4, Zenon DEF chunk

(* What Deliver changes. *)
Handed(s, chunk, d) ==
    /\ d.delivered = s.delivered \o chunk
    /\ d.drained <=> chunk = <<>>
    /\ d.direct = s.direct /\ d.scan_started = s.scan_started
    /\ d.rnd_inited = s.rnd_inited /\ d.finished = s.finished
    /\ d.fiber = s.fiber

LEMMA DeliverFields ==
    ASSUME NEW s, NEW ph, ScanOk(s, ph), NEW chunk
    PROVE  Handed(s, chunk, Deliver(s, chunk))
  BY Zenon DEF ScanOk, Deliver, Handed

(* d has delivered the next m rows after s. *)
Follows(s, d, rows, m) ==
    d.delivered = s.delivered \o SubSeq(rows, Len(s.delivered) + 1, Len(s.delivered) + m)

(* k rows of a prefix are delivered. *)
HasPrefix(d, rows, k) ==
    /\ k \in 0 .. Len(rows)
    /\ Len(d.delivered) = k
    /\ d.delivered = SubSeq(rows, 1, k)

(* The next m rows, delivered after a prefix, make a longer prefix. *)
LEMMA Delivered ==
    ASSUME NEW V, NEW rows \in Seq(V), NEW s, NEW c, NEW hidden, NEW failed,
           ReadOk(s, rows, c, hidden, failed),
           NEW m \in 0 .. Len(rows) - Len(s.delivered), NEW d, Follows(s, d, rows, m)
    PROVE  HasPrefix(d, rows, Len(s.delivered) + m)
<1> DEFINE k == Len(s.delivered)
<1>1. k \in 0 .. Len(rows) /\ s.delivered = SubSeq(rows, 1, k)
  BY Zenon DEF ReadOk
<1> HIDE DEF k
<1>2. d.delivered = SubSeq(rows, 1, k) \o SubSeq(rows, k + 1, k + m)
  BY <1>1, Zenon DEF k, Follows
<1>3. d.delivered = SubSeq(rows, 1, k + m)
  BY <1>1, <1>2, NextRows, ZenonT(30) DEF k
<1>4. k + m \in 0 .. Len(rows)
  BY <1>1 DEF k
<1>5. \A j \in 0 .. Len(rows) : Len(SubSeq(rows, 1, j)) = j
  OBVIOUS
<1>6. Len(d.delivered) = k + m
  BY <1>3, <1>4, <1>5, Zenon
<1> QED
  BY <1>3, <1>4, <1>6, Zenon DEF k, HasPrefix

(* What a fiber hands over when it is resumed behind k rows. *)
LEMMA ResumeRows ==
    ASSUME NEW V, NEW rows \in Seq(V), NEW f, FiberOk(f), ~f.killed, ~f.finished,
           NEW k \in 0 .. Len(rows), f.sent = k
    PROVE  LET g == FiberResume(f, rows)
           IN \E m \in 0 .. Len(rows) - k :
                 /\ g.buffer = SubSeq(rows, k + 1, k + m)
                 /\ ~g.killed
                 /\ g.finished => k + m = Len(rows)
                 /\ ~g.finished => m # 0 /\ g.sent = k + m
<1> DEFINE g == FiberResume(f, rows)
           rest == SubSeq(rows, k + 1, Len(rows))
           part == SubSeq(rest, 1, VectorSize)
<1>1. DOMAIN f = {"thd", "started", "active", "killed", "finished", "error", "sent",
               "buffer", "frees"}
  BY Zenon DEF FiberOk
<1>2. Len(rest) = Len(rows) - k
      /\ \A m \in 0 .. Len(rows) - k : SubSeq(rest, 1, m) = SubSeq(rows, k + 1, k + m)
  BY RestOfRows, Zenon
<1>3. CASE Len(rest) >= VectorSize
  <2>1. g = [f EXCEPT !.started = TRUE, !.active = TRUE, !.sent = k + VectorSize,
                      !.buffer = part]
    BY <1>3, Zenon DEF FiberResume
  <2> HIDE DEF g, rest, part
  <2>2. g.buffer = part /\ g.sent = k + VectorSize /\ g.killed = f.killed
        /\ g.finished = f.finished
    BY <1>1, <2>1, Zenon
  <2>3. VectorSize \in 0 .. Len(rows) - k /\ VectorSize # 0
    BY <1>2, <1>3, VectorAssumption
  <2>4. part = SubSeq(rows, k + 1, k + VectorSize)
    BY <1>2, <2>3, Zenon DEF part
  <2> QED
    BY <2>2, <2>3, <2>4, Zenon DEF g
<1>4. CASE ~(Len(rest) >= VectorSize)
  <2> DEFINE len == Len(rows)
  <2>1. g = [f EXCEPT !.started = TRUE, !.active = FALSE, !.finished = TRUE,
                      !.sent = len, !.buffer = rest]
    BY <1>4, Zenon DEF FiberResume
  <2> HIDE DEF g, rest, len
  <2>2. g.buffer = rest /\ g.killed = f.killed /\ g.finished
    BY <1>1, <2>1, SMTT(30), Zenon
  <2>3. len - k \in 0 .. len - k /\ k + (len - k) = len
    BY DEF len
  <2>4. rest = SubSeq(rows, k + 1, k + (len - k))
    BY <2>3, Zenon DEF rest, len
  <2> QED
    BY <2>2, <2>3, <2>4, Zenon DEF g, len
<1> QED
  BY <1>3, <1>4, SMTT(30), Zenon

LEMMA FiberChunkRead ==
    ASSUME NEW V, NEW rows \in Seq(V), NEW s, ScanOk(s, "stream"), NEW c, NEW hidden,
           ReadOk(s, rows, c, hidden, FALSE), ~s.finished, ~s.direct
    PROVE  LET f == FiberResume(FiberOf(s), rows)
               n == [s EXCEPT !.scan_started = TRUE, !.fiber = f,
                              !.finished = f.finished \/ f.buffer = <<>>]
           IN ReadOk(Deliver(n, f.buffer), rows, c, hidden, FALSE)
<1> DEFINE k == Len(s.delivered)
           f == FiberResume(FiberOf(s), rows)
           done == f.finished \/ f.buffer = <<>>
           n == [s EXCEPT !.scan_started = TRUE, !.fiber = f, !.finished = done]
           d == Deliver(n, f.buffer)
<1>1. FiberOk(FiberOf(s)) /\ ~FiberOf(s).finished
  BY FiberOfOk, Zenon
<1>2. ~FiberOf(s).killed /\ FiberOf(s).sent = k
  <2>1. CASE s.scan_started
    BY <2>1, SMTT(30), Zenon DEF FiberOf, ReadOk
  <2>2. CASE ~s.scan_started
    BY <2>2, SMTT(30), Zenon DEF FiberOf, ReadOk, FiberInit, NoFiber
  <2> QED
    BY <2>1, <2>2, SMTT(30), Zenon
<1>3. k \in 0 .. Len(rows)
  BY Zenon DEF ReadOk
<1>4. PICK m \in 0 .. Len(rows) - k :
        /\ f.buffer = SubSeq(rows, k + 1, k + m)
        /\ ~f.killed
        /\ f.finished => k + m = Len(rows)
        /\ ~f.finished => m # 0 /\ f.sent = k + m
  BY <1>1, <1>2, <1>3, ResumeRows, Zenon
<1>5. FiberOk(f)
  BY <1>1, ResumeOk, Zenon
<1> HIDE DEF f
<1>6. f.buffer = <<>> <=> m = 0
  <2>1. SubSeq(rows, k + 1, k + m) = <<>> <=> m = 0
    BY <1>3, NextRows, ZenonT(30)
  <2> QED
    BY <1>4, <2>1, Zenon
<1>7. done <=> f.finished
  BY <1>4, <1>6, Zenon
<1>8. ScanOk(n, "stream")
  <2>1. done \in BOOLEAN /\ (~done => ~f.finished)
    BY Zenon
  <2> HIDE DEF done
  <2> QED
    BY <1>5, <2>1, Zenon DEF ScanOk
<1>9. n.delivered = s.delivered /\ n.direct = s.direct /\ n.scan_started /\ n.fiber = f
      /\ (n.finished <=> done) /\ n.rnd_inited = s.rnd_inited
  <2> HIDE DEF done
  <2> QED
    BY Zenon DEF ScanOk
<1> HIDE DEF n, done
<1>10. Handed(n, f.buffer, d)
  BY <1>8, DeliverFields, Zenon
<1> HIDE DEF d
<1>11. Follows(s, d, rows, m)
  BY <1>4, <1>9, <1>10, SMTT(30), ZenonT(30) DEF Follows, Handed
<1>12. HasPrefix(d, rows, k + m)
  BY <1>11, Delivered, Zenon
<1>13. ReadOk(d, rows, c, hidden, FALSE)
  BY <1>3, <1>4, <1>6, <1>7, <1>9, <1>10, <1>12, ZenonT(30) DEF ReadOk, HasPrefix, Handed
<1> QED
  BY <1>13, Zenon DEF d, n, done, f

SameRows(s, n) == n.delivered = s.delivered

(* Scan s becomes n and hands over the next m rows. *)
HandsOver(s, n, rows, m) ==
    LET k == Len(s.delivered)
        chunk == SubSeq(rows, k + 1, k + m)
        d == Deliver(n, chunk)
    IN /\ Handed(n, chunk, d)
       /\ HasPrefix(d, rows, k + m)
       /\ d.drained <=> m = 0

LEMMA HandedPrefix ==
    ASSUME NEW V, NEW rows \in Seq(V), NEW s, NEW c, NEW hidden, NEW failed,
           ReadOk(s, rows, c, hidden, failed),
           NEW m \in 0 .. Len(rows) - Len(s.delivered),
           NEW n, ScanOk(n, "stream"), SameRows(s, n)
    PROVE  HandsOver(s, n, rows, m)
<1> DEFINE k == Len(s.delivered)
           chunk == SubSeq(rows, k + 1, k + m)
           d == Deliver(n, chunk)
<1>1. k \in 0 .. Len(rows)
  BY Zenon DEF ReadOk
<1>2. Handed(n, chunk, d)
  BY DeliverFields, Zenon
<1>3. chunk = <<>> <=> m = 0
  BY <1>1, NextRows, Zenon
<1> HIDE DEF d
<1>4. Follows(s, d, rows, m)
  BY <1>2, Zenon DEF Follows, Handed, SameRows
<1>5. HasPrefix(d, rows, k + m)
  BY <1>4, Delivered, Zenon
<1>6. d.drained <=> m = 0
  BY <1>2, <1>3, Zenon DEF Handed
<1> QED
  BY <1>2, <1>5, <1>6, Zenon DEF d, HandsOver

LEMMA NoRows ==
    ASSUME NEW rows, NEW k \in Nat
    PROVE  SubSeq(rows, k + 1, k + 0) = <<>>
  BY SubSeqEmpty

(* An empty chunk of a scan that has finished, or ends because of an error it
   hides before its first row. *)
LEMMA EmptyChunkRead ==
    ASSUME NEW V, NEW rows \in Seq(V), NEW s, ScanOk(s, "stream"), NEW c, NEW hidden,
           NEW h \in BOOLEAN,
           ReadOk(s, rows, c, hidden, FALSE), hidden => h, s.finished \/ h,
           NEW n, ScanOk(n, "stream"), n.delivered = s.delivered, n.direct = s.direct,
           n.finished, ~n.fiber.killed,
           s.scan_started => n.scan_started, n.rnd_inited = s.rnd_inited
    PROVE  ReadOk(Deliver(n, <<>>), rows, c, h, FALSE)
<1> DEFINE k == Len(s.delivered)
           d == Deliver(n, <<>>)
<1>1. k \in 0 .. Len(rows) /\ k \in Nat /\ 0 \in 0 .. Len(rows) - k /\ k + 0 = k
  BY DEF ReadOk
<1>2. SubSeq(rows, k + 1, k + 0) = <<>>
  BY <1>1, NoRows, Zenon
<1>3. Handed(n, <<>>, d) /\ HasPrefix(d, rows, k + 0)
  <2>1. SameRows(s, n)
    BY Zenon DEF SameRows
  <2>2. HandsOver(s, n, rows, 0)
    BY <1>1, <2>1, HandedPrefix, Zenon
  <2> QED
    BY <1>2, <2>2, Zenon DEF HandsOver
<1> HIDE DEF d
<1>4. HasPrefix(d, rows, k)
  BY <1>1, <1>3, ZenonT(30)
<1>5. ReadOk(d, rows, c, h, FALSE)
  BY <1>1, <1>3, <1>4, SMTT(30), ZenonT(30) DEF ReadOk, HasPrefix, Handed
<1> QED
  BY <1>5, Zenon DEF d

(* An exception leaves mdb_scan_function: what was delivered stays. *)
LEMMA ThrownRead ==
    ASSUME NEW rows, NEW s, NEW c, NEW hidden, ReadOk(s, rows, c, hidden, FALSE),
           NEW n, n.delivered = s.delivered, n.direct = s.direct, n.drained = s.drained,
           s.finished => n.finished, ~n.fiber.killed, n.scan_started,
           ~s.direct => n.finished, s.direct => n.rnd_inited, NEW d
    PROVE  ReadOk(n, rows, d, hidden, TRUE)
  BY Zenon DEF ReadOk

(* The handler cursor of a call stands right behind the rows delivered. *)
LEMMA CursorAt ==
    ASSUME NEW s, NEW rows, NEW hidden, ReadOk(s, rows, cursor[s.table[1]], hidden, FALSE),
           ~s.finished, s.direct
    PROVE  CursorOf(s).inited /\ CursorOf(s).pos = Len(s.delivered)
<1>1. CASE s.rnd_inited
  BY <1>1, SMTT(30), Zenon DEF CursorOf, ReadOk
<1>2. CASE ~s.rnd_inited
  BY <1>2, Zenon DEF CursorOf, ReadOk
<1> QED
  BY <1>1, <1>2, SMTT(30), ZenonT(30)

(* A direct scan hands over m rows; it ends short of a full chunk. *)
LEMMA DirectRead ==
    ASSUME NEW V, NEW rows \in Seq(V), NEW s, ScanOk(s, "stream"), NEW c, NEW hidden,
           NEW h \in BOOLEAN, hidden => h,
           ReadOk(s, rows, c, hidden, FALSE), ~s.finished, s.direct,
           NEW m \in 0 .. Len(rows) - Len(s.delivered), NEW done \in BOOLEAN,
           done \/ m # 0, done => h \/ Len(s.delivered) + m = Len(rows),
           NEW e, ~done => e.inited /\ e.pos = Len(s.delivered) + m
    PROVE  LET n == [s EXCEPT !.scan_started = TRUE, !.rnd_inited = TRUE, !.finished = done]
               chunk == SubSeq(rows, Len(s.delivered) + 1, Len(s.delivered) + m)
           IN ReadOk(Deliver(n, chunk), rows, e, h, FALSE)
<1> DEFINE k == Len(s.delivered)
           n == [s EXCEPT !.scan_started = TRUE, !.rnd_inited = TRUE, !.finished = done]
           chunk == SubSeq(rows, k + 1, k + m)
           d == Deliver(n, chunk)
<1>1. ScanOk(n, "stream")
  BY Zenon DEF ScanOk
<1>2. n.delivered = s.delivered /\ n.direct = s.direct /\ n.scan_started /\ n.fiber = s.fiber
      /\ (n.finished <=> done) /\ n.rnd_inited
  BY Zenon DEF ScanOk
<1> HIDE DEF n
<1>3. Handed(n, chunk, d) /\ HasPrefix(d, rows, k + m) /\ (d.drained <=> m = 0)
  <2>1. SameRows(s, n)
    BY <1>2, Zenon DEF SameRows
  <2>2. HandsOver(s, n, rows, m)
    BY <1>1, <2>1, HandedPrefix, Zenon
  <2> QED
    BY <2>2, Zenon DEF HandsOver
<1> HIDE DEF d
<1>4. ReadOk(d, rows, e, h, FALSE)
  BY <1>2, <1>3, Zenon DEF ReadOk, HasPrefix, Handed
<1> QED
  BY <1>4, Zenon DEF d, n

ReadAt(r) == ReadOk(scan[r], RowsOf(scan[r]), cursor[r], r \in swallowed, thrown)

(* The inductive invariant: every scan of a running statement reads its rows,
   with a cursor of its own. *)
ReadInv ==
    /\ phase # "idle" => DOMAIN cursor = ExternalRefs(query)
    /\ phase = "eof" => /\ ~thrown
                        /\ query.limit \/ \A r \in DOMAIN scan : scan[r].drained
    /\ phase \in {"stream", "eof"} => \A r \in DOMAIN scan : ReadAt(r)

(* Without a name used twice, a reference is bound to its own TABLE. *)
LEMMA OwnTable ==
    ASSUME \A q \in Queries : NamesOnce(q), RegistryInv, NEW r \in DOMAIN scan
    PROVE  scan[r].table[1] = r /\ Name(query, r) \in Externals /\ r \in ExternalRefs(query)
<1>1. query \in Queries /\ r \in ExternalRefs(query)
  BY Zenon DEF RegistryInv
<1>2. r \in Refs(query) /\ Name(query, r) \in Externals
  BY <1>1, SMTT(30), ZenonT(30) DEF ExternalRefs
<1> DEFINE b == BoundRef(query, Name(query, r))
<1>3. b \in Refs(query) /\ Name(query, b) = Name(query, r)
  BY <1>1, <1>2, RoundReaches, BoundRefOk, SMTT(30), ZenonT(30)
<1>4. b = r
  BY <1>1, <1>2, <1>3, SMTT(30), ZenonT(30) DEF NamesOnce, ExternalRefs
<1>5. scan[r].table = <<b, stmt>>
  BY Zenon DEF RegistryInv
<1> QED
  BY <1>1, <1>2, <1>4, <1>5, SMTT(30), ZenonT(30)

LEMMA KeepType ==
    ASSUME NEW V, NEW rows \in Seq(V), NEW cond
    PROVE  Keep(rows, cond) \in Seq(V)
<1>1. Len(rows) \in 0 .. Len(rows)
  OBVIOUS
<1> QED
  BY <1>1, KeptType, Zenon DEF Keep

LEMMA RowsTyped ==
    ASSUME NEW s, Name(query, s.table[1]) \in Externals
    PROVE  \E V : RowsOf(s) \in Seq(V)
<1> DEFINE t == Name(query, s.table[1])
           V(rows) == {rows[i] : i \in DOMAIN rows}
<1>1. Own[t] \in Seq(V(Own[t])) /\ Committed[t] \in Seq(V(Committed[t]))
  BY RowsAssumption, Zenon DEF IsRows
<1> HIDE DEF V
<1>2. Keep(Committed[t], s.where) \in Seq(V(Committed[t]))
  BY <1>1, KeepType, ZenonT(30)
<1> QED
  BY <1>1, <1>2, Zenon DEF RowsOf, SyntheticRows

(* Scan r becomes n. *)
Becomes(r, n) == scan' = [scan EXCEPT ![r] = n] /\ SameBinding(scan[r], n)

(* The rest of a step that moves at most the cursor of reference r. *)
Around(r) ==
    /\ phase = "stream" /\ phase' = phase /\ query' = query
    /\ DOMAIN cursor' = DOMAIN cursor
    /\ \A p \in DOMAIN scan : p # r => cursor'[p] = cursor[p]
    /\ thrown => thrown'
    /\ swallowed \subseteq swallowed'

LEMMA OneRead ==
    ASSUME ReadInv, NEW r \in DOMAIN scan, NEW n, Becomes(r, n), Around(r),
           ReadOk(n, RowsOf(scan[r]), cursor'[r], r \in swallowed', thrown')
    PROVE  ReadInv'
<1>1. ASSUME NEW p \in DOMAIN scan PROVE ReadAt(p)'
  <2>1. CASE p = r
    <3>1. scan'[p] = n
      BY <2>1, SMTT(30), ZenonT(30) DEF Becomes
    <3>2. RowsOf(scan[p])' = RowsOf(scan[r])
      BY <3>1, SMTT(30), ZenonT(30) DEF RowsOf, SyntheticRows, SameBinding, Becomes, Around
    <3> QED
      BY <2>1, <3>1, <3>2, SMTT(30), ZenonT(30) DEF ReadAt
  <2>2. CASE p # r
    <3>1. scan'[p] = scan[p] /\ cursor'[p] = cursor[p]
      BY <2>2, SMTT(30), ZenonT(30) DEF Becomes, Around
    <3>2. RowsOf(scan[p])' = RowsOf(scan[p])
      BY <3>1, SMTT(30), Zenon DEF RowsOf, SyntheticRows, Around
    <3>3. ReadAt(p)
      BY Zenon DEF ReadInv, Around
    <3>4. (p \in swallowed) => (p \in swallowed')
      BY ZenonT(30) DEF Around
    <3>5. ReadOk(scan[p], RowsOf(scan[p]), cursor[p], p \in swallowed', thrown')
      BY <3>3, <3>4, SMTT(30), Zenon DEF ReadAt, ReadOk, Around
    <3> QED
      BY <3>1, <3>2, <3>5, SMTT(30), ZenonT(30) DEF ReadAt
  <2> QED
    BY <2>1, <2>2, SMTT(30), ZenonT(30)
<1>2. DOMAIN scan' = DOMAIN scan
  BY ZenonT(30) DEF Becomes
<1>3. DOMAIN cursor' = ExternalRefs(query')
  BY DEF ReadInv, Around
<1> QED
  BY <1>1, <1>2, <1>3, SMTT(30), ZenonT(30) DEF ReadInv, Around

LEMMA FunctionReads ==
    ASSUME \A q \in Queries : NamesOnce(q), FiberInv, RegistryInv, ReadInv,
           NEW r \in DOMAIN scan, mdb_scan_function(r)
    PROVE  ReadInv'
<1> DEFINE s == scan[r]
           rows == RowsOf(s)
           k == Len(s.delivered)
<1>1. phase = "stream" /\ ~thrown /\ phase' = phase /\ query' = query
  BY Zenon DEF mdb_scan_function, Pulls, ScanFinished, FiberInitFails, FiberChunk,
         FiberError, FiberSwitchFails, DirectInitFails, DirectChunk, DirectError, DirectThrows, statement
<1>2. ScanOk(s, "stream")
  BY <1>1, SMTT(30), ZenonT(30) DEF FiberInv
<1>3. ReadOk(s, rows, cursor[r], r \in swallowed, FALSE)
  <2>1. ReadAt(r)
    BY <1>1, SMTT(30), ZenonT(30) DEF ReadInv
  <2> QED
    BY <1>1, <2>1, SMTT(30), ZenonT(30) DEF ReadAt, ReadOk
<1>4. s.table[1] = r /\ Name(query, s.table[1]) \in Externals /\ r \in DOMAIN cursor
  BY <1>1, OwnTable, SMTT(30), ZenonT(30) DEF ReadInv
<1>5. PICK V : rows \in Seq(V)
  BY <1>4, RowsTyped, SMTT(30), ZenonT(30)
<1>6. k \in 0 .. Len(rows)
  BY <1>3, SMTT(30), Zenon DEF ReadOk
<1> HIDE DEF rows
<1> DEFINE hid == r \in swallowed
<1>0. hid \in BOOLEAN /\ ReadOk(s, rows, cursor[r], hid, FALSE)
  <2>1. hid \in BOOLEAN
    BY SMTT(30)
  <2> QED
    BY <1>3, <2>1, Zenon
<1> HIDE DEF hid
<1>7. CASE ScanFinished(r)
  <2>1. Around(r) /\ scan' = [scan EXCEPT ![r] = Deliver(s, <<>>)] /\ s.finished
        /\ cursor' = cursor /\ swallowed' = swallowed
    BY <1>1, <1>7, SMTT(30), ZenonT(30) DEF ScanFinished, Around, history
  <2>2. Becomes(r, Deliver(s, <<>>))
    BY <1>2, <2>1, DeliverOk, SMTT(30), ZenonT(30) DEF Becomes
  <2>3. ReadOk(Deliver(s, <<>>), rows, cursor[r], hid, FALSE)
    <3>1. ~s.fiber.killed
      BY <1>0, Zenon DEF ReadOk
    <3> QED
      BY <1>0, <1>2, <1>5, <2>1, <3>1, EmptyChunkRead, ZenonT(30)
  <2>4. ReadOk(Deliver(s, <<>>), rows, cursor'[r], r \in swallowed', thrown')
    BY <2>1, <2>3, SMTT(30), ZenonT(30) DEF ReadOk, hid
  <2> QED
    BY <2>1, <2>2, <2>4, OneRead, SMTT(30), ZenonT(30) DEF rows
<1>8. CASE FiberInitFails(r) \/ DirectInitFails(r) \/ FiberSwitchFails(r)
  <2> DEFINE n(b, f) == [s EXCEPT !.scan_started = b, !.finished = TRUE, !.fiber = f]
  <2>1. Around(r) /\ cursor' = cursor /\ r \in swallowed'
    BY <1>1, <1>8, ZenonT(30)
       DEF FiberInitFails, DirectInitFails, FiberSwitchFails, Around, history
  <2>2. ASSUME NEW b \in BOOLEAN, NEW f, FiberOk(f), ~f.killed, s.scan_started => b,
               scan' = [scan EXCEPT ![r] = Deliver(n(b, f), <<>>)]
        PROVE  ReadInv'
    <3> DEFINE m == n(b, f)
               d == Deliver(m, <<>>)
    <3>1. ScanOk(m, "stream") /\ SameBinding(s, m)
      BY <1>2, <2>2, Zenon DEF ScanOk, SameBinding
    <3>2. m.delivered = s.delivered /\ m.direct = s.direct /\ m.finished /\ m.fiber = f
          /\ m.scan_started = b /\ m.rnd_inited = s.rnd_inited
      BY <1>2, Zenon DEF ScanOk
    <3>3. scan' = [scan EXCEPT ![r] = d]
      BY <2>2, Zenon
    <3> HIDE DEF m
    <3>4. Becomes(r, d)
      BY <3>1, <3>3, DeliverOk, ZenonT(30) DEF Becomes, SameBinding
    <3>5. ReadOk(d, rows, cursor[r], TRUE, FALSE)
      BY <1>2, <1>3, <1>5, <2>2, <3>1, <3>2, EmptyChunkRead, ZenonT(30)
    <3> HIDE DEF d
    <3>6. ReadOk(d, rows, cursor'[r], r \in swallowed', thrown')
      BY <2>1, <3>5, ZenonT(30) DEF ReadOk
    <3> QED
      BY <2>1, <3>4, <3>6, OneRead, ZenonT(30) DEF rows
  <2>3. ~s.fiber.killed /\ FiberOk(s.fiber) /\ s.scan_started \in BOOLEAN
    BY <1>2, <1>3, Zenon DEF ReadOk, ScanOk
  <2>4. CASE FiberInitFails(r)
    <3>1. PICK f \in FailedInit :
            scan' = [scan EXCEPT ![r] =
                        Deliver([s EXCEPT !.finished = TRUE, !.fiber = f], <<>>)]
      BY <2>4, Zenon DEF FiberInitFails
    <3>2. [s EXCEPT !.finished = TRUE, !.fiber = f] = n(s.scan_started, f)
      BY <1>2, Zenon DEF ScanOk
    <3> HIDE DEF n
    <3> QED
      BY <2>2, <2>3, <3>1, <3>2, FailedInitOk, Zenon
  <2>5. CASE DirectInitFails(r)
    <3>1. scan' = [scan EXCEPT ![r] =
            Deliver([s EXCEPT !.scan_started = TRUE, !.finished = TRUE], <<>>)]
      BY <2>5, Zenon DEF DirectInitFails
    <3>2. [s EXCEPT !.scan_started = TRUE, !.finished = TRUE] = n(TRUE, s.fiber)
      BY <1>2, Zenon DEF ScanOk
    <3> HIDE DEF n
    <3> QED
      BY <2>2, <2>3, <3>1, <3>2, Zenon
  <2>6. CASE FiberSwitchFails(r)
    <3>1. scan' = [scan EXCEPT ![r] = Deliver(n(TRUE, NotResumed(FiberOf(s))), <<>>)]
          /\ ~s.finished /\ ~s.direct
      BY <2>6, Zenon DEF FiberSwitchFails, NotResumed
    <3>2. FiberOk(FiberOf(s))
      BY <1>2, <3>1, FiberOfOk, Zenon
    <3>3. ~FiberOf(s).killed
      BY <2>3, Zenon DEF FiberOf, FiberInit, NoFiber
    <3>4. FiberOk(NotResumed(FiberOf(s))) /\ ~NotResumed(FiberOf(s)).killed
      BY <3>2, <3>3, NotResumedOk, Zenon
    <3> HIDE DEF n
    <3> QED
      BY <2>2, <3>1, <3>4, Zenon
  <2> QED
    BY <1>8, <2>4, <2>5, <2>6, Zenon
<1>9. CASE FiberChunk(r)
  <2> DEFINE f == FiberResume(FiberOf(s), rows)
             n == [s EXCEPT !.scan_started = TRUE, !.fiber = f,
                            !.finished = f.finished \/ f.buffer = <<>>]
             d == Deliver(n, f.buffer)
  <2>1. Around(r) /\ cursor' = cursor /\ swallowed' = swallowed /\ ~s.finished /\ ~s.direct
    BY <1>1, <1>9, SMTT(30), ZenonT(30) DEF FiberChunk, Around, history
  <2>2. rows = SyntheticRows(s)
    BY <2>1, Zenon DEF rows, RowsOf
  <2>3. scan' = [scan EXCEPT ![r] = d]
    BY <1>9, <2>2, Zenon DEF FiberChunk
  <2>4. ReadOk(d, rows, cursor[r], r \in swallowed, FALSE)
    BY <1>2, <1>3, <1>5, <2>1, FiberChunkRead, ZenonT(30)
  <2> HIDE DEF d
  <2>5. Becomes(r, d)
    BY <2>3, FunctionKeepsInv, SMTT(30), ZenonT(30) DEF BindingsKept, Becomes
  <2>6. ReadOk(d, rows, cursor'[r], r \in swallowed', thrown')
    BY <2>1, <2>4, SMTT(30), ZenonT(30) DEF ReadOk
  <2> QED
    BY <2>1, <2>5, <2>6, OneRead, SMTT(30), ZenonT(30) DEF rows
<1>10. CASE FiberError(r)
  <2> DEFINE f == FiberAborted(FiberOf(s))
             n == [s EXCEPT !.scan_started = TRUE, !.finished = TRUE, !.fiber = f]
  <2>1. Around(r) /\ cursor' = cursor /\ swallowed' = swallowed /\ thrown'
        /\ ~s.finished /\ ~s.direct
    BY <1>1, <1>10, SMTT(30), Zenon DEF FiberError, Around, history
  <2>2. scan' = [scan EXCEPT ![r] = n]
    BY <1>10, Zenon DEF FiberError
  <2>3. ~f.killed
    <3>1. ~FiberOf(s).killed /\ FiberOk(FiberOf(s))
      BY <1>2, <1>3, <2>1, FiberOfOk, SMTT(30), ZenonT(30) DEF FiberOf, FiberInit, NoFiber, ReadOk
    <3> QED
      BY <3>1, Zenon DEF FiberAborted, FiberOk
  <2> HIDE DEF f
  <2>4. n.delivered = s.delivered /\ n.direct = s.direct /\ n.drained = s.drained
        /\ n.finished /\ n.fiber = f /\ n.scan_started
    BY <1>2, Zenon DEF ScanOk
  <2> HIDE DEF n
  <2>5. Becomes(r, n)
    BY <2>2, FunctionKeepsInv, ZenonT(30) DEF BindingsKept, Becomes
  <2>6. ReadOk(n, rows, cursor'[r], r \in swallowed, TRUE)
    BY <1>3, <2>1, <2>3, <2>4, ThrownRead, ZenonT(30)
  <2>7. ReadOk(n, rows, cursor'[r], r \in swallowed', thrown')
    BY <2>1, <2>6, SMTT(30), ZenonT(30) DEF ReadOk
  <2> QED
    BY <2>1, <2>5, <2>7, OneRead, ZenonT(30) DEF rows
<1>11. CASE DirectThrows(r)
  <2> DEFINE n == [s EXCEPT !.scan_started = TRUE, !.rnd_inited = TRUE]
  <2>1. Around(r) /\ swallowed' = swallowed /\ thrown' /\ ~s.finished /\ s.direct
    BY <1>1, <1>4, <1>11, SMTT(30), ZenonT(30) DEF DirectThrows, Around, history
  <2>2. scan' = [scan EXCEPT ![r] = n]
    BY <1>11, Zenon DEF DirectThrows
  <2>3. n.delivered = s.delivered /\ n.direct = s.direct /\ n.drained = s.drained
        /\ n.finished = s.finished /\ n.fiber = s.fiber /\ n.scan_started /\ n.rnd_inited
    BY <1>2, ZenonT(30) DEF ScanOk
  <2> HIDE DEF n
  <2>4. Becomes(r, n)
    BY <2>2, FunctionKeepsInv, Zenon DEF BindingsKept, Becomes
  <2>5. ~n.fiber.killed
    BY <1>3, <2>3, SMTT(30), ZenonT(30) DEF ReadOk
  <2>6. ReadOk(n, rows, cursor'[r], r \in swallowed, TRUE)
    BY <1>3, <2>1, <2>3, <2>5, ThrownRead, ZenonT(30)
  <2>7. ReadOk(n, rows, cursor'[r], r \in swallowed', thrown')
    BY <2>1, <2>6, SMTT(30), ZenonT(30) DEF ReadOk
  <2> QED
    BY <2>1, <2>4, <2>7, OneRead, ZenonT(30) DEF rows
<1>12. ASSUME DirectChunk(r) \/ DirectError(r)
       PROVE  /\ CursorOf(s).inited /\ CursorOf(s).pos = k
              /\ Own[Name(query, s.table[1])] = rows
              /\ ~s.finished /\ s.direct
  <2>1. ~s.finished /\ s.direct
    BY <1>12, Zenon DEF DirectChunk, DirectError
  <2>2. ReadOk(s, rows, cursor[s.table[1]], r \in swallowed, FALSE)
    BY <1>3, <1>4, Zenon
  <2> QED
    BY <2>1, <2>2, CursorAt, ZenonT(30) DEF rows, RowsOf
<1>13. CASE DirectChunk(r)
  <2> DEFINE c == CursorOf(s)
             own == Own[Name(query, s.table[1])]
             rest == IF c.inited THEN SubSeq(own, c.pos + 1, Len(own)) ELSE <<>>
             full == Len(rest) >= VectorSize
             done == ~full
             chunk == IF full THEN SubSeq(rest, 1, VectorSize) ELSE rest
             m == IF full THEN VectorSize ELSE Len(rows) - k
             next == SubSeq(rows, k + 1, k + m)
             n == [s EXCEPT !.scan_started = TRUE, !.rnd_inited = TRUE, !.finished = done]
             e == [inited |-> full, pos |-> c.pos + Len(chunk)]
             d == Deliver(n, chunk)
  <2>1. scan' = [scan EXCEPT ![r] = d] /\ cursor' = [cursor EXCEPT ![r] = e]
    BY <1>4, <1>13, ZenonT(30) DEF DirectChunk
  <2>2. c.inited /\ c.pos = k /\ own = rows /\ ~s.finished /\ s.direct
    BY <1>12, <1>13, SMTT(30), ZenonT(30)
  <2>3. rest = SubSeq(rows, k + 1, Len(rows))
    BY <2>2, SMTT(30), Zenon
  <2> HIDE DEF rest, own, c
  <2>4. Len(rest) = Len(rows) - k
        /\ \A i \in 0 .. Len(rows) - k : SubSeq(rest, 1, i) = SubSeq(rows, k + 1, k + i)
    BY <1>5, <1>6, <2>3, RestOfRows, ZenonT(30)
  <2>5. m \in 0 .. Len(rows) - k /\ (full \/ k + m = Len(rows)) /\ (~full \/ m # 0)
    <3>1. Len(rows) \in Nat /\ Len(rest) = Len(rows) - k
      BY <1>5, <2>4, SMTT(30), ZenonT(30)
    <3>2. CASE full
      <4>1. m = VectorSize
        BY <3>2, SMTT(30), Zenon
      <4>2. VectorSize \in 0 .. Len(rows) - k /\ VectorSize # 0
        BY <1>6, <3>1, <3>2, VectorAssumption, SMTT(30), ZenonT(30)
      <4> QED
        BY <3>2, <4>1, <4>2, Zenon
    <3>3. CASE ~full
      BY <1>6, <3>1, <3>3, SMTT(30), ZenonT(30)
    <3> QED
      BY <3>2, <3>3, SMTT(30), ZenonT(30)
  <2>6. chunk = next
    <3>1. CASE full
      BY <2>4, <2>5, <3>1, Zenon
    <3>2. CASE ~full
      <4>1. k + m = Len(rows)
        BY <2>5, <3>2, SMTT(30), ZenonT(30)
      <4>2. chunk = rest
        BY <3>2, SMTT(30), Zenon
      <4> QED
        BY <2>3, <4>1, <4>2, ZenonT(30)
    <3> QED
      BY <3>1, <3>2, Zenon
  <2>7. full \in BOOLEAN /\ done \in BOOLEAN /\ (done <=> ~full)
    OBVIOUS
  <2> HIDE DEF full, done, chunk, n, e, d, m
  <2>8. Len(next) = m
    BY <1>5, <1>6, <2>5, NextRows, ZenonT(30)
  <2> USE DEF chunk, n, e, d
  <2>9. (e.inited <=> full) /\ e.pos = k + m
    BY <2>2, <2>6, <2>7, <2>8, Zenon
  <2> HIDE DEF e
  <2>10. (done \/ m # 0) /\ (done => k + m = Len(rows))
         /\ (~done => e.inited /\ e.pos = k + m)
    BY <2>5, <2>7, <2>9, ZenonT(30)
  <2>11. ReadOk(Deliver(n, next), rows, e, hid, FALSE)
    <3>1. ~s.finished /\ s.direct /\ m \in 0 .. Len(rows) - k /\ done \in BOOLEAN
          /\ (done => hid \/ k + m = Len(rows))
      BY <2>2, <2>5, <2>7, <2>10, Zenon
    <3> QED
      BY <1>0, <1>2, <1>5, <2>10, <3>1, DirectRead, ZenonT(60)
  <2>12. ReadOk(d, rows, e, hid, FALSE)
    BY <2>6, <2>11, Zenon
  <2> HIDE DEF d
  <2>13. Becomes(r, d)
    BY <2>1, FunctionKeepsInv, Zenon DEF BindingsKept, Becomes
  <2>14. cursor'[r] = e /\ DOMAIN cursor' = DOMAIN cursor
         /\ \A p \in DOMAIN scan : p # r => cursor'[p] = cursor[p]
    BY <1>4, <2>1, SMTT(30), ZenonT(30)
  <2>15. swallowed' = swallowed /\ thrown' = thrown
    BY <1>13, SMTT(30), ZenonT(30) DEF DirectChunk, history
  <2>16. Around(r)
    BY <1>1, <2>14, <2>15, SMTT(30), ZenonT(30) DEF Around
  <2>17. ReadOk(d, rows, cursor'[r], r \in swallowed', thrown')
    BY <2>12, <2>14, <2>15, SMTT(30), ZenonT(30) DEF ReadOk, hid
  <2> QED
    BY <2>13, <2>16, <2>17, OneRead, ZenonT(30) DEF rows
<1>14. CASE DirectError(r)
  <2> DEFINE c == CursorOf(s)
             own == Own[Name(query, s.table[1])]
             n == [s EXCEPT !.scan_started = TRUE, !.rnd_inited = TRUE, !.finished = TRUE]
             e(m) == [inited |-> FALSE, pos |-> c.pos + m]
             d(m) == Deliver(n, SubSeq(own, c.pos + 1, c.pos + m))
  <2>1. PICK m \in 0 .. VectorSize - 1 :
          /\ c.pos + m <= Len(own)
          /\ scan' = [scan EXCEPT ![r] = d(m)]
          /\ cursor' = [cursor EXCEPT ![r] = e(m)]
    BY <1>4, <1>14, ZenonT(30) DEF DirectError
  <2>2. c.pos = k /\ own = rows /\ ~s.finished /\ s.direct
    BY <1>12, <1>14, SMTT(30), ZenonT(30)
  <2>3. m \in 0 .. Len(rows) - k
    BY <1>5, <1>6, <2>1, <2>2, VectorAssumption, SMTT(30), ZenonT(30)
  <2>4. d(m) = Deliver(n, SubSeq(rows, k + 1, k + m))
    BY <2>2, ZenonT(30)
  <2> HIDE DEF c, own, e
  <2>5. ReadOk(Deliver(n, SubSeq(rows, k + 1, k + m)), rows, e(m), TRUE, FALSE)
    BY <1>2, <1>3, <1>5, <2>2, <2>3, DirectRead, ZenonT(30)
  <2> HIDE DEF d
  <2>6. Becomes(r, d(m))
    BY <2>1, FunctionKeepsInv, SMTT(30), ZenonT(30) DEF BindingsKept, Becomes
  <2>7. Around(r) /\ cursor'[r] = e(m) /\ r \in swallowed'
    BY <1>1, <1>4, <1>14, <2>1, SMTT(30), ZenonT(30) DEF DirectError, Around
  <2>8. ReadOk(d(m), rows, cursor'[r], r \in swallowed', thrown')
    BY <2>4, <2>5, <2>7, SMTT(30), ZenonT(30) DEF ReadOk
  <2> QED
    BY <2>6, <2>7, <2>8, OneRead, SMTT(30), ZenonT(30) DEF rows
<1> QED
  BY <1>7, <1>8, <1>9, <1>10, <1>11, <1>13, <1>14, ZenonT(30) DEF mdb_scan_function

LEMMA BoundRead ==
    ASSUME NEW V, NEW rows \in Seq(V), NEW reg, NEW name, NEW c, NEW hidden, NEW failed
    PROVE  ReadOk(Bound(reg, name), rows, c, hidden, failed)
<1> DEFINE b == Bound(reg, name)
<1>1. b.delivered = <<>> /\ ~b.scan_started /\ ~b.rnd_inited /\ ~b.finished /\ ~b.drained
      /\ ~b.fiber.killed
  BY Zenon DEF Bound, NoFiber
<1> HIDE DEF b
<1>2. Len(rows) \in Nat /\ SubSeq(rows, 1, 0) = <<>> /\ Len(<<>>) = 0
  BY SubSeqEmpty, SMTT(30), ZenonT(30)
<1>3. ReadOk(b, rows, c, hidden, failed)
  BY <1>1, <1>2, SMTT(30), ZenonT(30) DEF ReadOk
<1> QED
  BY <1>3, SMTT(30), Zenon DEF b

LEMMA InitScanReads ==
    ASSUME \A q \in Queries : NamesOnce(q), RegistryInv, ReadInv, InitScan
    PROVE  ReadInv'
<1>1. RegistryInv' /\ phase' = "stream" /\ query' = query /\ cursor' = cursor
      /\ phase = "created"
  BY InitScanRegistry, SMTT(30), Zenon DEF InitScan, statement
<1>2. scan' = [r \in ExternalRefs(query) |-> Bound(RegistryForScan, Name(query, r))]
  BY Zenon DEF InitScan
<1>3. ASSUME NEW r \in DOMAIN scan' PROVE ReadAt(r)'
  <2>1. r \in ExternalRefs(query) /\ scan'[r] = Bound(RegistryForScan, Name(query, r))
    BY <1>2, SMTT(30), ZenonT(30)
  <2>2. Name(query', scan'[r].table[1]) \in Externals
    <3>1. query' \in Queries /\ scan'[r].table = <<BoundRef(query', Name(query', r)), stmt'>>
      BY <1>1, SMTT(30), ZenonT(30) DEF RegistryInv
    <3>2. r \in Refs(query') /\ Name(query', r) \in Externals
      BY <1>1, <2>1, SMTT(30), ZenonT(30) DEF ExternalRefs
    <3>3. Name(query', BoundRef(query', Name(query', r))) = Name(query', r)
      BY <3>1, <3>2, RoundReaches, BoundRefOk, SMTT(30), ZenonT(30)
    <3> QED
      BY <3>1, <3>2, <3>3, SMTT(30), ZenonT(30)
  <2>3. PICK V : RowsOf(scan[r])' \in Seq(V)
    <3> DEFINE t == Name(query', scan'[r].table[1])
               W(rows) == {rows[i] : i \in DOMAIN rows}
    <3>1. Own[t] \in Seq(W(Own[t])) /\ Committed[t] \in Seq(W(Committed[t]))
      BY <2>2, RowsAssumption, Zenon DEF IsRows
    <3> HIDE DEF W
    <3>2. Keep(Committed[t], scan'[r].where) \in Seq(W(Committed[t]))
      BY <3>1, KeepType, ZenonT(30)
    <3> QED
      BY <3>1, <3>2, Zenon DEF RowsOf, SyntheticRows
  <2>4. ReadOk(scan'[r], RowsOf(scan[r])', cursor'[r], r \in swallowed', thrown')
    BY <2>1, <2>3, BoundRead, SMTT(30), ZenonT(30)
  <2> QED
    BY <2>4, SMTT(30), ZenonT(30) DEF ReadAt
<1>4. DOMAIN cursor' = ExternalRefs(query')
  BY <1>1, SMTT(30), ZenonT(30) DEF ReadInv
<1> QED
  BY <1>1, <1>3, <1>4, SMTT(30), ZenonT(30) DEF ReadInv

LEMMA SameReads ==
    ASSUME ReadInv, UNCHANGED <<query, scan, cursor, thrown, swallowed>>,
           phase = "idle" => phase' = "idle", phase' = "stream" => phase = "stream",
           phase' = "eof" => phase = "eof"
    PROVE  ReadInv'
<1>1. \A r \in DOMAIN scan : ReadAt(r)' <=> ReadAt(r)
  BY Zenon DEF ReadAt, RowsOf, SyntheticRows
<1> QED
  BY <1>1, SMTT(30), Zenon DEF ReadInv

LEMMA NextReads ==
    ASSUME \A q \in Queries : NamesOnce(q), FiberInv, RegistryInv, ReadInv, [Next]_vars
    PROVE  ReadInv'
<1>1. ASSUME NEW q \in Queries, NEW ry \in BOOLEAN, CreateHandler(q, ry) PROVE ReadInv'
  BY <1>1, SMTT(30), Zenon DEF CreateHandler, ReadInv
<1>3. CASE InitScanFails
  BY <1>3, SameReads, SMTT(30), ZenonT(30) DEF InitScanFails, statement, history
<1>4. CASE NextRowFails
  BY <1>4, SameReads, SMTT(30), ZenonT(30) DEF NextRowFails, statement, history
<1>5. CASE EndScan
  BY <1>5, SameReads, SMTT(30), ZenonT(30) DEF EndScan, statement, history
<1>6. CASE SkipEndScan
  BY <1>6, SameReads, SMTT(30), ZenonT(30) DEF SkipEndScan, statement
<1>7. CASE UNCHANGED vars
  BY <1>7, SameReads, SMTT(30), ZenonT(30) DEF vars
<1>8. CASE NextRowEof
  <2>1. UNCHANGED <<query, scan, cursor, thrown, swallowed>> /\ phase = "stream"
        /\ phase' = "eof" /\ ~thrown
        /\ (query.limit \/ \A r \in ExternalRefs(query) : scan[r].drained)
    BY <1>8, SMTT(30), ZenonT(30) DEF NextRowEof, statement, history
  <2>2. \A r \in DOMAIN scan : ReadAt(r)' <=> ReadAt(r)
    BY <2>1, SMTT(30), ZenonT(30) DEF ReadAt, RowsOf, SyntheticRows
  <2>3. DOMAIN scan \subseteq ExternalRefs(query)
    BY Zenon DEF RegistryInv
  <2> QED
    BY <2>1, <2>2, <2>3, SMTT(30), ZenonT(30) DEF ReadInv
<1>9. CASE CloseTables
  BY <1>9, SMTT(30), ZenonT(30) DEF CloseTables, ReadInv
<1>10. ASSUME NEW r \in DOMAIN scan, mdb_scan_function(r) PROVE ReadInv'
  BY <1>10, FunctionReads, SMTT(30), ZenonT(30)
<1>11. ASSUME NEW r \in DOMAIN scan, ResumeKilled(r) \/ DestroyFiber(r) \/ ResumeFails(r) PROVE ReadInv'
  BY <1>11, SMTT(30), ZenonT(30) DEF ResumeKilled, DestroyFiber, ResumeFails, ReadInv, statement
<1>12. CASE InitScan
  BY <1>12, InitScanReads, SMTT(30), ZenonT(30)
<1> QED
  BY <1>1, <1>3, <1>4, <1>5, <1>6, <1>7, <1>8, <1>9, <1>10, <1>11, <1>12, ZenonT(30)
     DEF Next, Progress

(* A scan has the WHERE its statement registered. *)
WhereInv ==
    ~skipped => \A r \in DOMAIN scan :
                    scan[r].where = RegisteredWhere(query, EmptyRegistry)[Name(query, r)]

LEMMA NextWhere == FiberInv /\ RegistryInv /\ WhereInv /\ [Next]_vars => WhereInv'
<1> SUFFICES ASSUME FiberInv, RegistryInv, WhereInv, [Next]_vars PROVE WhereInv'
  BY Zenon
<1>1. CASE UNCHANGED <<query, skipped>> /\ BindingsKept
  BY <1>1, SMTT(30), ZenonT(30) DEF WhereInv, BindingsKept, SameBinding
<1>2. CASE scan' = scan /\ UNCHANGED <<query, skipped>>
  BY <1>2, SMTT(30), ZenonT(30) DEF WhereInv
<1>3. ASSUME NEW q \in Queries, NEW ry \in BOOLEAN, CreateHandler(q, ry) PROVE WhereInv'
  BY <1>3, SMTT(30), ZenonT(30) DEF CreateHandler, WhereInv, RegistryInv
<1>5. CASE InitScanFails \/ NextRowEof \/ NextRowFails \/ EndScan
  BY <1>2, <1>5, SMTT(30), ZenonT(30) DEF InitScanFails, NextRowEof, NextRowFails, EndScan, statement, history
<1>6. CASE SkipEndScan
  <2>1. ~skipped' => ~skipped
    BY <1>6, Zenon DEF SkipEndScan
  <2> QED
    BY <1>6, <2>1, ZenonT(30) DEF SkipEndScan, WhereInv, statement
<1>7. CASE UNCHANGED vars
  BY <1>2, <1>7, SMTT(30), ZenonT(30) DEF vars
<1>8. CASE CloseTables
  BY <1>8, SMTT(30), ZenonT(30) DEF CloseTables, WhereInv
<1>9. ASSUME NEW r \in DOMAIN scan, mdb_scan_function(r) PROVE WhereInv'
  <2>1. UNCHANGED <<query, skipped>>
    BY <1>9, SMTT(30), ZenonT(30) DEF mdb_scan_function, ScanFinished, FiberInitFails, FiberChunk, FiberError,
                FiberSwitchFails, DirectInitFails, DirectChunk, DirectError, DirectThrows, statement, history
  <2> QED
    BY <1>1, <1>9, <2>1, FunctionKeepsInv, SMTT(30), ZenonT(30)
<1>10. ASSUME NEW r \in DOMAIN scan, ResumeKilled(r) \/ DestroyFiber(r) \/ ResumeFails(r) PROVE WhereInv'
  <2>1. UNCHANGED <<query, skipped>>
    BY <1>10, SMTT(30), ZenonT(30) DEF ResumeKilled, DestroyFiber, ResumeFails, statement, history
  <2> QED
    BY <1>1, <1>10, <2>1, DestructorKeepsInv, SMTT(30), ZenonT(30)
<1>11. CASE InitScan
  <2>1. query' = query /\ skipped' = skipped /\ phase = "created"
        /\ scan' = [r \in ExternalRefs(query) |-> Bound(RegistryForScan, Name(query, r))]
    BY <1>11, SMTT(30), ZenonT(30) DEF InitScan, statement
  <2>2. ASSUME ~skipped, NEW r \in ExternalRefs(query)
        PROVE  RegistryForScan.where = RegisteredWhere(query, EmptyRegistry)
    <3>1. HasCrossEngine
      BY <2>2, SMTT(30), ZenonT(30) DEF HasCrossEngine
    <3>2. RegistryForScan = Registered(query, stmt, ryow, EmptyRegistry)
      BY <2>1, <2>2, <3>1, FreshOk, SMTT(30), ZenonT(30) DEF FreshRegistry
    <3> QED
      BY <3>2, SMTT(30), ZenonT(30) DEF Registered
  <2> QED
    BY <2>1, <2>2, ZenonT(30) DEF WhereInv, Bound
<1> QED
  BY <1>3, <1>5, <1>6, <1>7, <1>8, <1>9, <1>10, <1>11, ZenonT(30) DEF Next, Progress

(* What a direct scan delivered, filtered by DuckDB. *)
LEMMA DirectSeen ==
    ASSUME NEW V, NEW rows \in Seq(V), NEW cond, NEW k \in 0 .. Len(rows)
    PROVE  /\ Starts(Keep(SubSeq(rows, 1, k), cond), Keep(rows, cond))
           /\ k = Len(rows) => Keep(SubSeq(rows, 1, k), cond) = Keep(rows, cond)
<1> DEFINE part == Kept(rows, cond)[k]
<1>1. Keep(SubSeq(rows, 1, k), cond) = part
  BY KeptOfPrefix, ZenonT(30)
<1>2. Starts(part, Keep(rows, cond))
  BY KeptGrows, SMTT(30), ZenonT(30)
<1>3. k = Len(rows) => part = Keep(rows, cond)
  BY Zenon DEF Keep
<1> HIDE DEF part
<1> QED
  BY <1>1, <1>2, <1>3, SMTT(30), ZenonT(30)

(* What a fiber delivered. *)
LEMMA FiberSeen ==
    ASSUME NEW V, NEW t \in Seq(V), NEW k \in 0 .. Len(t)
    PROVE  /\ Starts(SubSeq(t, 1, k), t)
           /\ k = Len(t) => SubSeq(t, 1, k) = t
<1>1. Starts(SubSeq(t, 1, k), t)
  BY SMTT(30) DEF Starts
<1> QED
  BY <1>1, SubSeqFull, ZenonT(30)

LEMMA ReadIsExact ==
    ASSUME \A q \in Queries : NamesOnce(q) /\ FiltersOwn(q),
           RegistryInv, ReadInv, WhereInv, phase \in {"stream", "eof"}, ~skipped,
           NEW r \in DOMAIN scan
    PROVE  /\ Starts(Seen(r), Expected(r))
           /\ phase = "eof" /\ ~query.limit /\ r \notin swallowed => Seen(r) = Expected(r)
<1> DEFINE s == scan[r]
           k == Len(s.delivered)
           n == Name(query, r)
           cond == OwnCond(r)
<1>1. s.table[1] = r /\ n \in Externals /\ r \in ExternalRefs(query) /\ query \in Queries
  BY OwnTable, SMTT(30), ZenonT(30) DEF RegistryInv
<1>2. s.where = cond
  BY <1>1, SMTT(30), ZenonT(30) DEF WhereInv, FiltersOwn, OwnCond
<1>3. ReadAt(r)
  BY ZenonT(30) DEF ReadInv
<1>4. k \in 0 .. Len(RowsOf(s)) /\ s.delivered = SubSeq(RowsOf(s), 1, k)
  BY <1>3, SMTT(30), ZenonT(30) DEF ReadAt, ReadOk
<1>5. phase = "eof" /\ ~query.limit /\ r \notin swallowed => k = Len(RowsOf(s))
  BY <1>3, SMTT(30), ZenonT(30) DEF ReadAt, ReadOk, ReadInv
<1>6. PICK V : RowsOf(s) \in Seq(V)
  BY <1>1, RowsTyped, SMTT(30), ZenonT(30)
<1>7. CASE s.direct
  <2>1. RowsOf(s) = Own[n] /\ Seen(r) = Keep(s.delivered, cond)
        /\ Expected(r) = Keep(Own[n], cond)
    BY <1>1, <1>7, SMTT(30), ZenonT(30) DEF RowsOf, Seen, Expected
  <2>2. Starts(Keep(SubSeq(RowsOf(s), 1, k), cond), Keep(RowsOf(s), cond))
        /\ (k = Len(RowsOf(s)) =>
               Keep(SubSeq(RowsOf(s), 1, k), cond) = Keep(RowsOf(s), cond))
    BY <1>4, <1>6, DirectSeen, ZenonT(30)
  <2> QED
    BY <1>4, <1>5, <2>1, <2>2, ZenonT(30)
<1>8. CASE ~s.direct
  <2>1. RowsOf(s) = Keep(Committed[n], cond) /\ Seen(r) = s.delivered
        /\ Expected(r) = Keep(Committed[n], cond)
    BY <1>1, <1>2, <1>8, SMTT(30), ZenonT(30) DEF RowsOf, SyntheticRows, Seen, Expected
  <2>2. Starts(SubSeq(RowsOf(s), 1, k), RowsOf(s))
        /\ (k = Len(RowsOf(s)) => SubSeq(RowsOf(s), 1, k) = RowsOf(s))
    BY <1>4, <1>6, FiberSeen, ZenonT(30)
  <2> QED
    BY <1>4, <1>5, <2>1, <2>2, ZenonT(60)
<1> QED
  BY <1>7, <1>8, SMTT(30), ZenonT(30)

(* A statement that names no external table twice and registers every
   reference's own WHERE sees of every external table exactly the rows its
   condition selects, in both modes: over any rows, chunk size and
   interleaving of the scans, and after statements that failed half-way. *)
THEOREM ExactResults ==
    ASSUME \A q \in Queries : NamesOnce(q) /\ FiltersOwn(q)
    PROVE  Spec => []ResultsAreExact
<1> DEFINE I == FiberInv /\ RegistryInv /\ ReadInv /\ WhereInv
<1>1. Init => I
  <2>1. Init => FiberInv
    BY SMTT(30) DEF Init, FiberInv
  <2>2. Init => RegistryInv
    BY SMTT(30) DEF Init, RegistryInv
  <2>3. Init => ReadInv /\ WhereInv
    BY SMTT(30) DEF Init, ReadInv, WhereInv
  <2> QED
    BY <2>1, <2>2, <2>3, SMTT(30), ZenonT(30)
<1>2. I /\ [Next]_vars => I'
  BY NextFiberInv, NextRegistry, NextReads, NextWhere, SMTT(30), ZenonT(30)
<1>3. I => ResultsAreExact
  BY ReadIsExact, ZenonT(30) DEF ResultsAreExact
<1> QED
  BY <1>1, <1>2, <1>3, PTL, SMTT(30) DEF Spec

(* A statement of one SELECT registers its own conditions when it names no
   external table twice: the hypothesis of ExactResults holds of every such
   statement. *)
THEOREM JoinRegistersOwnFilters ==
    ASSUME NEW q \in Queries, Len(q.selects) = 1, NamesOnce(q)
    PROVE  FiltersOwn(q)
<1> SUFFICES ASSUME NEW r \in ExternalRefs(q)
             PROVE  RegisteredWhere(q, EmptyRegistry)[Name(q, r)] = CondFor(q, r[1], r[2])
  BY Zenon DEF FiltersOwn
<1> DEFINE n == Name(q, r)
<1>1. r \in Refs(q) /\ n \in Externals
  BY Zenon DEF ExternalRefs
<1>2. ASSUME NEW v \in TableRounds(q, n) PROVE v[2] = r /\ RoundCond(q, v) = CondFor(q, r[1], r[2])
  <2>1. v \in Rounds(q) /\ Name(q, v[2]) = n
    BY ZenonT(30) DEF TableRounds
  <2>2. v[2] \in Refs(q) /\ v[1] \in Nat /\ v[1] <= v[2][1] /\ v[2][1] \in 1 .. 1
    BY <2>1, RoundShape, SMTT(30), ZenonT(30) DEF Selects
  <2>3. v[2] = r
    BY <1>1, <2>1, <2>2, SMTT(30), ZenonT(30) DEF NamesOnce, ExternalRefs
  <2>4. v[1] # 0
    <3>1. PICK i \in IF q.unit THEN Selects(q) ELSE {1} : v \in {i} \X GlobalTail(q, i)
      BY <2>1, SMTT(30), ZenonT(30) DEF Rounds
    <3> QED
      BY <3>1, SMTT(30), ZenonT(30) DEF Selects
  <2>5. v[1] = 1 /\ v[2][1] = 1
    BY <2>2, <2>4, SMTT(30), ZenonT(30)
  <2> QED
    BY <2>3, <2>5, SMTT(30), ZenonT(30) DEF RoundCond
<1>3. CASE WhereRounds(q, n) = {}
  <2>1. PICK v : v \in TableRounds(q, n)
    BY <1>1, RoundReaches, SMTT(30), ZenonT(30)
  <2>2. RoundCond(q, v) = NoCond
    BY <1>3, <2>1, SMTT(30), ZenonT(30) DEF WhereRounds
  <2>3. CondFor(q, r[1], r[2]) = NoCond
    BY <1>2, <2>1, <2>2, SMTT(30), ZenonT(30)
  <2> QED
    BY <1>1, <1>3, <2>3, SMTT(30), ZenonT(30) DEF RegisteredWhere, EmptyRegistry
<1>4. CASE WhereRounds(q, n) # {}
  <2>1. WhereRounds(q, n) \subseteq Rounds(q)
    BY ZenonT(30) DEF WhereRounds, TableRounds
  <2>2. LastRound(WhereRounds(q, n)) \in TableRounds(q, n)
    BY <1>4, <2>1, LastIn, SMTT(30), ZenonT(30) DEF WhereRounds
  <2>3. RoundCond(q, LastRound(WhereRounds(q, n))) = CondFor(q, r[1], r[2])
    BY <1>2, <2>2, SMTT(30), ZenonT(30)
  <2> QED
    BY <1>1, <1>4, <2>3, SMTT(30), ZenonT(30) DEF RegisteredWhere
<1> QED
  BY <1>3, <1>4, SMTT(30), ZenonT(30)
=============================================================================
