----------------------- MODULE AutoIncAndCatalogProofs -----------------------
(***************************************************************************)
(* Proofs about AutoInc: no id is handed out twice, for any number of      *)
(* sessions, any requests and cache sizes and any interleaving with the    *)
(* writers inside DuckDB.                                                  *)
(*                                                                         *)
(* Proofs about Catalog: MariaDB's dictionary and DuckDB's catalog agree,  *)
(* and AUTO_INCREMENT tables have one counter, for any names and start     *)
(* values and any sequence of statements, failures and lost COMMITs.       *)
(***************************************************************************)
EXTENDS AutoInc, Catalog, TLAPS

---------------------------------------------------------------------------
(* AutoInc *)

Taken == claimed \cup external

(* The cached block is below the sequence and free. *)
RangeInv ==
    /\ range.next <= range.end
    /\ range.end <= seq
    /\ range.next = 0 => range.end = 0
    /\ Ids(range.next, range.end) \cap Taken = {}

(* Everything taken is below the sequence. *)
TakenInv == \A x \in Taken : x < seq

(* A call that is under way asks for at least one id. *)
CallInv == \A s \in Sessions : pc[s] # "idle" => call[s].need > 0

(* The values a refill has drawn lie above the cached block, and if there  *)
(* is no gap between them they are free.                                   *)
BlkInv ==
    \A s \in Sessions : pc[s] = "draw" =>
        LET b == blk[s] IN
        /\ b.n <= b.want
        /\ call[s].need <= b.want
        /\ b.n > 0 => /\ 0 < b.lo /\ b.lo <= b.hi /\ b.hi < seq
                      /\ range.end <= b.lo
                      /\ b.n <= b.hi - b.lo + 1
                      /\ b.hi - b.lo + 1 = b.n => (b.lo)..(b.hi) \cap Taken = {}

(* The inductive invariant.  CachedIdsAreFree is not inductive alone: that *)
(* a refill publishes only free ids needs BlkInv, and that the claims made *)
(* during the refill do not touch its values needs that they lie above the *)
(* old block, and that there is one refill at a time.                      *)
IdInv ==
    /\ TypeOK
    /\ MutexIsRefill
    /\ RangeInv
    /\ TakenInv
    /\ CallInv
    /\ BlkInv

LEMMA InitIdInv == Init => IdInv
<1> SUFFICES ASSUME Init PROVE IdInv
  BY Zenon
<1> USE SessionAssumption, RequestAssumption, WidthAssumption
<1>1. TypeOK
  BY DEF Init, TypeOK, Range, Call, Blk, Empty, NoBlk
<1>2. MutexIsRefill
  BY Zenon DEF Init, MutexIsRefill
<1>3. RangeInv /\ TakenInv /\ CallInv /\ BlkInv
  BY DEF Init, RangeInv, TakenInv, CallInv, BlkInv, Taken, Ids, Empty
<1> QED
  BY <1>1, <1>2, <1>3, Zenon DEF IdInv

(* A request whose product did not overflow asks for at least one id. *)
LEMMA NeedPositive ==
    ASSUME NEW nb \in Nb, NEW inc \in Increments
    PROVE  /\ Need(nb, inc) \in Nat
           /\ Need(nb, inc) \div inc = nb => Need(nb, inc) > 0
<1> USE RequestAssumption, WidthAssumption
<1>1. nb \in Nat \ {0} /\ inc \in Nat \ {0} /\ Word \in Nat \ {0}
  OBVIOUS
<1>2. nb * inc \in Nat
  BY <1>1
<1>3. Need(nb, inc) \in Nat
  BY <1>1, <1>2 DEF Need
<1>4. 0 \div inc = 0
  BY <1>1
<1> QED
  BY <1>1, <1>3, <1>4

LEMMA CallIdInv ==
    ASSUME IdInv, NEW s \in Sessions, NEW nb \in Nb, NEW inc \in Increments,
           get_auto_increment(s, nb, inc)
    PROVE  IdInv'
<1> USE SessionAssumption, RequestAssumption, WidthAssumption
<1> DEFINE c == [nb |-> nb, inc |-> inc, need |-> Need(nb, inc),
                 ok |-> FALSE, first |-> 0]
<1>1. c \in Call
  BY NeedPositive, Zenon DEF Call
<1>2. call' = [call EXCEPT ![s] = c] /\ call'[s].need = Need(nb, inc)
  BY Zenon DEF get_auto_increment, IdInv, TypeOK
<1>3. TypeOK'
  BY <1>1, <1>2 DEF IdInv, TypeOK, get_auto_increment
<1>4. \A u \in Sessions : pc'[u] = "draw" <=> pc[u] = "draw" /\ u # s
  BY Zenon DEF get_auto_increment, IdInv, TypeOK
<1>5. pc[s] = "idle"
  BY Zenon DEF get_auto_increment
<1>6. MutexIsRefill'
  BY <1>4, <1>5, Zenon DEF IdInv, MutexIsRefill, get_auto_increment
<1>7. RangeInv' /\ TakenInv'
  BY Zenon DEF IdInv, RangeInv, TakenInv, Taken, get_auto_increment
<1>8. CallInv'
  BY <1>2, NeedPositive DEF IdInv, TypeOK, CallInv, get_auto_increment
<1>9. BlkInv'
  BY <1>2, <1>4 DEF IdInv, TypeOK, BlkInv, Taken, get_auto_increment
<1> QED
  BY <1>3, <1>6, <1>7, <1>8, <1>9, Zenon DEF IdInv

(* What a return leaves behind. *)
LEMMA ReturnFacts ==
    ASSUME IdInv, NEW s \in Sessions, NEW ok \in BOOLEAN, NEW first \in Nat,
           Return(s, ok, first)
    PROVE  /\ call'[s].first = first
           /\ \A u \in Sessions : call'[u].need = call[u].need
           /\ \A u \in Sessions : pc'[u] = IF u = s THEN "idle" ELSE pc[u]
           /\ \A u \in Sessions : u # s => blk'[u] = blk[u]
           /\ call' \in [Sessions -> Call]
           /\ pc' \in [Sessions -> {"idle", "claim", "lock", "draw"}]
           /\ cur' \in [Sessions -> Range]
           /\ blk' \in [Sessions -> Blk]
<1> DEFINE c == [call[s] EXCEPT !.ok = ok, !.first = first]
<1>1. call[s] \in Call
  BY Zenon DEF IdInv, TypeOK
<1>2. c \in Call /\ c.first = first /\ c.need = call[s].need
  BY <1>1, Zenon DEF Call
<1>3. call' = [call EXCEPT ![s] = c]
  BY Zenon DEF Return, IdInv, TypeOK
<1>4. Empty \in Range /\ NoBlk \in Blk
  BY Zenon DEF Empty, Range, NoBlk, Blk
<1> QED
  BY <1>2, <1>3, <1>4 DEF Return, IdInv, TypeOK

(* The mutex admits one refill at a time. *)
LEMMA OneRefill ==
    ASSUME IdInv, NEW s \in Sessions, NEW u \in Sessions,
           pc[s] = "draw", pc[u] = "draw"
    PROVE  u = s
BY Zenon DEF IdInv, MutexIsRefill

(* A claim takes the front of the cached block. *)
LEMMA ClaimIdInv ==
    ASSUME IdInv, NEW s \in Sessions, Claim(s)
    PROVE  /\ IdInv'
           /\ Ids(call'[s].first, call'[s].first + call'[s].need) \cap Taken = {}
<1> USE SessionAssumption, RequestAssumption, WidthAssumption
<1> DEFINE n == range.next
           e == range.end
           k == call[s].need
<1>1. /\ n \in Nat /\ e \in Nat /\ k \in Nat /\ k > 0
      /\ e - n >= k /\ n > 0 /\ e <= seq /\ seq \in 1..(SeqMax + 1)
      /\ pc[s] = "claim"
  BY DEF IdInv, TypeOK, CallInv, RangeInv, Range, Call, Claim, Enough
<1>2. /\ range' = [next |-> n + k, end |-> e]
      /\ range'.next = n + k /\ range'.end = e
      /\ claimed' = claimed \cup Ids(n, n + k)
      /\ UNCHANGED <<seq, mutex, external, calls>>
      /\ Return(s, TRUE, n)
  BY Zenon DEF Claim
<1>3. /\ call'[s].first = n /\ call'[s].need = k
      /\ \A u \in Sessions : call'[u].need = call[u].need
      /\ call' \in [Sessions -> Call]
  BY <1>1, <1>2, ReturnFacts, Zenon
<1>4. Ids(n, n + k) \subseteq Ids(n, e) /\ Ids(n, n + k) \subseteq 1..SeqMax
  BY <1>1 DEF Ids
<1>5. Ids(n, e) \cap Taken = {}
  BY Zenon DEF IdInv, RangeInv
<1>6. \A u \in Sessions : pc'[u] = IF u = s THEN "idle" ELSE pc[u]
  BY <1>2, Zenon DEF IdInv, TypeOK, Return
<1>7. TypeOK'
  <2>1. [next |-> n + k, end |-> e] \in Range
    BY <1>1 DEF Range
  <2>2. claimed' \subseteq 1..SeqMax
    BY <1>2, <1>4, Zenon DEF IdInv, TypeOK
  <2> QED
    BY <1>1, <1>2, <2>1, <2>2, ReturnFacts, Zenon DEF IdInv, TypeOK
<1>8. MutexIsRefill'
  BY <1>1, <1>2, <1>6, Zenon DEF IdInv, MutexIsRefill
<1>9. RangeInv'
  <2>1. Ids(n + k, e) \cap Ids(n, n + k) = {} /\ Ids(n + k, e) \subseteq Ids(n, e)
    BY <1>1 DEF Ids
  <2>2. Taken' = Taken \cup Ids(n, n + k)
    BY <1>2, Zenon DEF Taken
  <2> QED
    BY <1>1, <1>2, <1>5, <2>1, <2>2 DEF RangeInv
<1>10. TakenInv'
  <2>1. \A x \in Ids(n, n + k) : x < seq
    BY <1>1 DEF Ids
  <2> QED
    BY <1>2, <2>1, Zenon DEF IdInv, TakenInv, Taken
<1>11. CallInv'
  BY <1>3, <1>6, Zenon DEF IdInv, CallInv
<1>12. BlkInv'
  <2> SUFFICES ASSUME NEW u \in Sessions, pc'[u] = "draw"
               PROVE  /\ blk'[u] = blk[u] /\ pc[u] = "draw"
                      /\ blk[u].n > 0 => Ids(n, n + k) \cap (blk[u].lo)..(blk[u].hi) = {}
    BY <1>1, <1>2, <1>3, ZenonT(30) DEF IdInv, BlkInv, Taken
  <2>1. u # s /\ pc[u] = "draw"
    BY <1>6, Zenon
  <2>2. blk'[u] = blk[u]
    BY <1>2, <2>1, SMTT(30), Zenon DEF IdInv, TypeOK, Return
  <2>3. blk[u].n > 0 => e <= blk[u].lo
    BY <2>1, Zenon DEF IdInv, BlkInv
  <2>4. blk[u].lo \in Nat /\ blk[u].hi \in Nat
    BY Zenon DEF IdInv, TypeOK, Blk
  <2> QED
    BY <1>1, <2>1, <2>2, <2>3, <2>4, SMTT(30), Zenon DEF Ids
<1>13. IdInv'
  BY <1>7, <1>8, <1>9, <1>10, <1>11, <1>12, Zenon DEF IdInv
<1> QED
  BY <1>3, <1>4, <1>5, <1>13, Zenon

(* The steps that only move a session around the loop. *)
LEMMA LoopIdInv ==
    ASSUME IdInv, NEW s \in Sessions,
           ClaimFails(s) \/ Exhausted(s) \/ LockFindsRefill(s)
    PROVE  IdInv'
<1> USE SessionAssumption, RequestAssumption, WidthAssumption
<1>1. /\ UNCHANGED <<seq, range, mutex, call, blk, claimed, external, calls>>
      /\ pc[s] \in {"claim", "lock"}
      /\ \E p \in {"claim", "lock"} : pc' = [pc EXCEPT ![s] = p]
  BY Zenon DEF ClaimFails, Exhausted, LockFindsRefill, IdInv, TypeOK
<1>2. TypeOK'
  <2>1. cur' \in [Sessions -> Range]
    BY Zenon DEF ClaimFails, Exhausted, LockFindsRefill, IdInv, TypeOK
  <2> QED
    BY <1>1, <2>1, Zenon DEF IdInv, TypeOK
<1>3. \A u \in Sessions : /\ pc'[u] = "draw" <=> pc[u] = "draw"
                          /\ pc'[u] = "idle" <=> pc[u] = "idle"
  BY <1>1, SMTT(30), Zenon DEF IdInv, TypeOK
<1>4. MutexIsRefill' /\ RangeInv' /\ TakenInv' /\ CallInv'
  BY <1>1, <1>3, SMTT(30), Zenon DEF IdInv, MutexIsRefill, RangeInv, TakenInv, CallInv, Taken
<1>5. BlkInv'
  BY <1>1, <1>3, Zenon DEF IdInv, BlkInv, Taken
<1> QED
  BY <1>2, <1>4, <1>5, Zenon DEF IdInv

LEMMA LockAndRefillIdInv ==
    ASSUME IdInv, NEW s \in Sessions, NEW c \in CacheSizes, LockAndRefill(s, c)
    PROVE  IdInv'
<1> USE SessionAssumption, RequestAssumption, WidthAssumption
<1> DEFINE w == IF call[s].need > c THEN call[s].need ELSE c
           b == [NoBlk EXCEPT !.want = w]
<1>1. /\ b \in Blk /\ b.n = 0 /\ b.want = w
      /\ w \in Nat /\ call[s].need <= w
  BY DEF NoBlk, Blk, IdInv, TypeOK, Call
<1>2. /\ blk' = [blk EXCEPT ![s] = b]
      /\ pc' = [pc EXCEPT ![s] = "draw"]
      /\ pc[s] = "lock" /\ mutex = NoSession /\ mutex' = s
      /\ cur' = [cur EXCEPT ![s] = range]
      /\ UNCHANGED <<seq, range, call, claimed, external, calls>>
  BY Zenon DEF LockAndRefill
<1>3. TypeOK'
  BY <1>1, <1>2, Zenon DEF IdInv, TypeOK
<1>4. MutexIsRefill'
  BY <1>2, Zenon DEF IdInv, TypeOK, MutexIsRefill
<1>5. RangeInv' /\ TakenInv' /\ CallInv'
  BY <1>2, Zenon DEF IdInv, TypeOK, RangeInv, TakenInv, CallInv, Taken
<1>6. BlkInv'
  <2> SUFFICES ASSUME NEW u \in Sessions, pc'[u] = "draw"
               PROVE  u = s
    BY <1>1, <1>2 DEF IdInv, TypeOK, BlkInv
  <2> QED
    BY <1>2, Zenon DEF IdInv, TypeOK, MutexIsRefill
<1> QED
  BY <1>3, <1>4, <1>5, <1>6, Zenon DEF IdInv

(* A value drawn right after the last one extends a block without gaps. *)
LEMMA DrawIdInv ==
    ASSUME IdInv, NEW s \in Sessions, Draw(s)
    PROVE  IdInv'
<1> USE SessionAssumption, RequestAssumption, WidthAssumption
<1> DEFINE b == blk[s]
           lo == IF b.n = 0 THEN seq ELSE b.lo
           c == [b EXCEPT !.lo = lo, !.hi = seq, !.n = b.n + 1]
<1>1. /\ seq \in Nat /\ seq > 0 /\ seq <= SeqMax /\ pc[s] = "draw"
      /\ b \in Blk /\ b.n < b.want
  BY DEF Draw, IdInv, TypeOK
<1>2. /\ b.n \in Nat /\ b.lo \in Nat /\ b.hi \in Nat /\ b.want \in Nat
      /\ lo \in Nat /\ b.n + 1 \in Nat
  BY <1>1 DEF Blk
<1>3. ASSUME NEW x \in Nat, NEW y \in Nat, NEW z \in Nat
      PROVE  [b EXCEPT !.lo = x, !.hi = y, !.n = z] \in Blk
  BY <1>1, Zenon DEF Blk
<1>4. /\ c \in Blk
      /\ c.lo = lo /\ c.hi = seq /\ c.n = b.n + 1 /\ c.want = b.want
  BY <1>1, <1>2, <1>3, Zenon DEF Blk
<1>5. blk' = [blk EXCEPT ![s] = c]
  BY <1>1, Zenon DEF Draw, IdInv, TypeOK
<1>6. /\ seq' = seq + 1
      /\ UNCHANGED <<range, mutex, pc, cur, call, claimed, external, calls>>
  BY Zenon DEF Draw
<1>7. TypeOK'
  BY <1>1, <1>4, <1>5, <1>6 DEF IdInv, TypeOK
<1>8. MutexIsRefill' /\ CallInv'
  BY <1>6, Zenon DEF IdInv, MutexIsRefill, CallInv
<1>9. RangeInv' /\ TakenInv'
  <2>1. range.end \in Nat /\ \A x \in Taken : x \in Nat
    BY DEF IdInv, TypeOK, Range, Taken
  <2> QED
    BY <1>1, <1>6, <2>1 DEF IdInv, RangeInv, TakenInv, Taken
<1>10. BlkInv'
  <2>1. \A u \in Sessions : pc[u] = "draw" => u = s
    BY <1>1, Zenon DEF IdInv, MutexIsRefill
  <2>2. blk'[s] = c
    BY <1>5, Zenon DEF IdInv, TypeOK
  <2>3. range.end \in Nat /\ range.end <= seq /\ \A x \in Taken : x \in Nat /\ x < seq
    BY SMTT(30) DEF IdInv, TypeOK, Range, RangeInv, TakenInv, Taken
  <2>4. /\ b.n > 0 => /\ 0 < b.lo /\ b.lo <= b.hi /\ b.hi < seq
                      /\ range.end <= b.lo
                      /\ b.n <= b.hi - b.lo + 1
                      /\ b.hi - b.lo + 1 = b.n => (b.lo)..(b.hi) \cap Taken = {}
        /\ call[s].need <= b.want
    BY <1>1, SMTT(30), Zenon DEF IdInv, BlkInv
  <2>5. /\ 0 < lo /\ lo <= seq /\ range.end <= lo
        /\ b.n + 1 <= seq - lo + 1
    BY <1>1, <1>2, <2>3, <2>4
  <2>6. ASSUME seq - lo + 1 = b.n + 1
        PROVE  lo..seq \cap Taken = {}
    <3>1. CASE b.n = 0
      BY <1>1, <2>3, <3>1
    <3>2. CASE b.n > 0
      <4>1. b.hi = seq - 1 /\ b.hi - b.lo + 1 = b.n
        BY <1>1, <1>2, <2>4, <2>6, <3>2
      <4>2. (b.lo)..(b.hi) \cap Taken = {}
        BY <2>4, <3>2, <4>1, Zenon
      <4>3. \A x \in lo..seq : x = seq \/ x \in (b.lo)..(b.hi)
        BY <1>1, <1>2, <3>2, <4>1, SMTT(30), Zenon
      <4> QED
        BY <2>3, <4>2, <4>3, SMTT(30), Zenon
    <3> QED
      BY <1>2, <3>1, <3>2
  <2>7. /\ c.n <= c.want
        /\ call[s].need <= c.want
        /\ 0 < c.lo /\ c.lo <= c.hi /\ c.hi < seq'
        /\ range'.end <= c.lo
        /\ c.n <= c.hi - c.lo + 1
        /\ c.hi - c.lo + 1 = c.n => (c.lo)..(c.hi) \cap Taken' = {}
    <3> HIDE DEF c
    <3>1. Taken' = Taken
      BY <1>6, SMTT(30), Zenon DEF Taken
    <3> QED
      BY <1>1, <1>2, <1>4, <1>6, <2>4, <2>5, <2>6, <3>1
  <2> QED
    BY <1>6, <2>1, <2>2, <2>7, Zenon DEF BlkInv
<1> QED
  BY <1>7, <1>8, <1>9, <1>10, Zenon DEF IdInv

(* A complete block without gaps becomes the cached block, less the ids of *)
(* the call itself.                                                        *)
LEMMA StoreIdInv ==
    ASSUME IdInv, NEW s \in Sessions, Store(s)
    PROVE  /\ IdInv'
           /\ Ids(call'[s].first, call'[s].first + call'[s].need) \cap Taken = {}
<1> USE SessionAssumption, RequestAssumption, WidthAssumption
<1> DEFINE b == blk[s]
           k == call[s].need
           f == b.lo
           l == b.lo + b.want
<1>1. /\ pc[s] = "draw" /\ b.n = b.want /\ b.hi - f + 1 = b.want
      /\ b.n \in Nat /\ f \in Nat /\ b.hi \in Nat /\ b.want \in Nat
      /\ k \in Nat /\ k > 0
      /\ seq \in Nat /\ seq <= SeqMax + 1
  BY SMTT(30) DEF Store, Complete, Dense, IdInv, TypeOK, CallInv, Call, Blk
<1>2. /\ k <= b.want /\ 0 < f /\ b.hi < seq
      /\ f..(b.hi) \cap Taken = {}
  <2>1. k <= b.want /\ b.n > 0
    BY <1>1 DEF IdInv, BlkInv
  <2> QED
    BY <1>1, <2>1, SMTT(30), Zenon DEF IdInv, BlkInv
<1>3. /\ range' = [next |-> f + k, end |-> l]
      /\ range'.next = f + k /\ range'.end = l
      /\ mutex' = NoSession
      /\ claimed' = claimed \cup Ids(f, f + k)
      /\ Return(s, TRUE, f)
      /\ UNCHANGED <<seq, external, calls>>
  BY Zenon DEF Store
<1>4. Ids(f, f + k) \subseteq f..(b.hi) /\ Ids(f, f + k) \subseteq 1..SeqMax
  BY <1>1, <1>2, SMTT(30), Zenon DEF Ids
<1>5. l <= seq /\ f + k <= l /\ l \in Nat /\ f + k \in Nat
  BY <1>1, <1>2
<1>6. TypeOK'
  <2>1. [next |-> f + k, end |-> l] \in Range
    BY <1>5, Zenon DEF Range
  <2>2. claimed' \subseteq 1..SeqMax
    BY <1>3, <1>4, Zenon DEF IdInv, TypeOK
  <2> QED
    BY <1>1, <1>3, <2>1, <2>2, ReturnFacts, Zenon DEF IdInv, TypeOK
<1>7. \A u \in Sessions : pc'[u] # "draw"
  BY <1>1, <1>3, ReturnFacts, OneRefill, ZenonT(30)
<1>8. MutexIsRefill' /\ BlkInv'
  BY <1>3, <1>7, Zenon DEF MutexIsRefill, BlkInv
<1>9. RangeInv'
  <2>1. /\ Ids(f + k, l) \cap Ids(f, f + k) = {}
        /\ Ids(f + k, l) \subseteq f..(b.hi)
    BY <1>1, <1>2, SMTT(30), Zenon DEF Ids
  <2>2. Taken' = Taken \cup Ids(f, f + k)
    BY <1>3, SMTT(30), Zenon DEF Taken
  <2>3. Ids(f + k, l) \cap Taken' = {}
    BY <1>2, <2>1, <2>2, SMTT(30), Zenon
  <2> QED
    BY <1>1, <1>2, <1>3, <1>5, <2>3 DEF RangeInv
<1>10. TakenInv'
  <2>1. \A x \in Ids(f, f + k) : x < seq
    BY <1>1, <1>2 DEF Ids
  <2> QED
    BY <1>3, <2>1, SMTT(30), Zenon DEF IdInv, TakenInv, Taken
<1>11. CallInv'
  BY <1>1, <1>3, ReturnFacts, Zenon DEF IdInv, CallInv
<1>12. IdInv'
  BY <1>6, <1>8, <1>9, <1>10, <1>11, Zenon DEF IdInv
<1>13. call'[s].first = f /\ call'[s].need = k
  BY <1>1, <1>3, ReturnFacts, Zenon
<1> QED
  BY <1>2, <1>4, <1>12, <1>13, SMTT(30), Zenon

LEMMA RetryIdInv ==
    ASSUME IdInv, NEW s \in Sessions, Retry(s)
    PROVE  IdInv'
<1> USE SessionAssumption, RequestAssumption, WidthAssumption
<1> DEFINE b == blk[s]
           c == [NoBlk EXCEPT !.want = b.want, !.attempt = b.attempt + 1]
<1>1. b \in Blk /\ pc[s] = "draw"
  BY Zenon DEF Retry, Complete, IdInv, TypeOK
<1>2. c \in Blk /\ c.n = 0 /\ c.want = b.want /\ b.want \in Nat
  <2>1. b.want \in Nat /\ b.attempt + 1 \in Nat
    BY <1>1 DEF Blk
  <2>2. ASSUME NEW w \in Nat, NEW a \in Nat
        PROVE  [NoBlk EXCEPT !.want = w, !.attempt = a] \in Blk
    BY Zenon DEF NoBlk, Blk
  <2>3. c.n = 0 /\ c.want = b.want
    BY Zenon DEF NoBlk
  <2> QED
    BY <2>1, <2>2, <2>3, Zenon
<1>3. /\ blk' = [blk EXCEPT ![s] = c]
      /\ UNCHANGED <<seq, range, mutex, pc, cur, call, claimed, external, calls>>
  BY Zenon DEF Retry
<1>4. TypeOK'
  BY <1>2, <1>3, Zenon DEF IdInv, TypeOK
<1>5. MutexIsRefill' /\ RangeInv' /\ TakenInv' /\ CallInv'
  BY <1>3, Zenon DEF IdInv, MutexIsRefill, RangeInv, TakenInv, CallInv, Taken
<1>6. BlkInv'
  <2>1. \A u \in Sessions : pc'[u] = "draw" => u = s
    BY <1>1, <1>3, OneRefill, Zenon
  <2>2. blk'[s] = c
    BY <1>3, Zenon DEF IdInv, TypeOK
  <2>3. call'[s].need <= b.want
    BY <1>1, <1>3, Zenon DEF IdInv, BlkInv
  <2> HIDE DEF c
  <2>4. c.n <= c.want /\ call'[s].need <= c.want /\ ~(c.n > 0)
    BY <1>2, <2>3
  <2> QED
    BY <2>1, <2>2, <2>4, Zenon DEF BlkInv
<1> QED
  BY <1>4, <1>5, <1>6, Zenon DEF IdInv

LEMMA RefillFailsIdInv ==
    ASSUME IdInv, NEW s \in Sessions, RefillFails(s)
    PROVE  IdInv' /\ ~call'[s].ok
<1> USE SessionAssumption, RequestAssumption, WidthAssumption
<1>1. /\ pc[s] = "draw" /\ mutex' = NoSession /\ Return(s, FALSE, 0)
      /\ UNCHANGED <<seq, range, claimed, external, calls>>
  BY Zenon DEF RefillFails
<1>2. TypeOK'
  BY <1>1, ReturnFacts, Zenon DEF IdInv, TypeOK
<1>3. \A u \in Sessions : pc'[u] # "draw"
  BY <1>1, ReturnFacts, OneRefill, Zenon
<1>4. MutexIsRefill' /\ BlkInv'
  BY <1>1, <1>3, Zenon DEF MutexIsRefill, BlkInv
<1>5. RangeInv' /\ TakenInv'
  BY <1>1, Zenon DEF IdInv, RangeInv, TakenInv, Taken
<1>6. CallInv'
  BY <1>1, ReturnFacts, Zenon DEF IdInv, CallInv
<1>7. ~call'[s].ok
  BY <1>1, Zenon DEF Return, IdInv, TypeOK, Call
<1> QED
  BY <1>2, <1>4, <1>5, <1>6, <1>7, Zenon DEF IdInv

(* A value drawn inside DuckDB is above everything taken so far. *)
LEMMA NextvalIdInv ==
    ASSUME IdInv, nextval
    PROVE  IdInv' /\ (external' \ external) \cap claimed = {}
<1> USE SessionAssumption, RequestAssumption, WidthAssumption
<1>1. /\ seq \in Nat /\ seq > 0 /\ seq <= SeqMax
      /\ seq' = seq + 1
      /\ external' = external \cup {seq}
      /\ UNCHANGED <<range, mutex, pc, cur, call, blk, claimed, calls>>
  BY DEF nextval, IdInv, TypeOK
<1>2. TypeOK'
  BY <1>1 DEF IdInv, TypeOK
<1>3. Taken' = Taken \cup {seq} /\ \A x \in Taken : x \in Nat /\ x < seq
  BY <1>1 DEF IdInv, TypeOK, TakenInv, Taken
<1>4. MutexIsRefill' /\ CallInv'
  BY <1>1, Zenon DEF IdInv, MutexIsRefill, CallInv
<1>5. RangeInv'
  <2>1. /\ range.next \in Nat /\ range.end \in Nat /\ range.end <= seq
        /\ range.next <= range.end /\ (range.next = 0 => range.end = 0)
        /\ Ids(range.next, range.end) \cap Taken = {}
    BY Zenon DEF IdInv, TypeOK, RangeInv, Range
  <2>2. seq \notin Ids(range.next, range.end)
    BY <1>1, <2>1 DEF Ids
  <2> QED
    BY <1>1, <1>3, <2>1, <2>2 DEF RangeInv
<1>6. TakenInv'
  BY <1>1, <1>3 DEF TakenInv
<1>7. BlkInv'
  <2> SUFFICES ASSUME NEW u \in Sessions, pc[u] = "draw", blk[u].n > 0
               PROVE  /\ blk[u].hi < seq + 1
                      /\ seq \notin (blk[u].lo)..(blk[u].hi)
    BY <1>1, <1>3, Zenon DEF IdInv, BlkInv
  <2>1. blk[u].lo \in Nat /\ blk[u].hi \in Nat /\ blk[u].hi < seq
    BY Zenon DEF IdInv, TypeOK, Blk, BlkInv
  <2> QED
    BY <1>1, <2>1, SMTT(30), Zenon
<1>8. (external' \ external) \cap claimed = {}
  BY <1>1, <1>3 DEF Taken
<1> QED
  BY <1>2, <1>4, <1>5, <1>6, <1>7, <1>8, Zenon DEF IdInv

LEMMA GetShareIdInv ==
    ASSUME IdInv, get_share
    PROVE  IdInv'
<1>1. /\ range' = Empty /\ \A s \in Sessions : pc[s] = "idle"
      /\ UNCHANGED <<seq, mutex, pc, cur, call, blk, claimed, external, calls>>
  BY Zenon DEF get_share
<1>2. TypeOK'
  BY <1>1, Zenon DEF IdInv, TypeOK, Empty, Range
<1>3. RangeInv'
  BY <1>1 DEF IdInv, TypeOK, RangeInv, Empty, Ids, Taken
<1>4. MutexIsRefill'
  BY <1>1, Zenon DEF IdInv, MutexIsRefill
<1>5. TakenInv'
  BY <1>1, Zenon DEF IdInv, TakenInv, Taken
<1>6. CallInv'
  BY <1>1, SMTT(30), Zenon DEF IdInv, CallInv, Taken
<1>7. BlkInv'
  BY <1>1, SMTT(30), Zenon DEF IdInv, BlkInv, Taken
<1> QED
  BY <1>2, <1>3, <1>4, <1>5, <1>6, <1>7, Zenon DEF IdInv

---------------------------------------------------------------------------

(* A step that ends a call successfully is a Claim or a Store of that      *)
(* session: every other step keeps the session's pc off "idle", or returns *)
(* a failure.                                                              *)
LEMMA NextIdInv ==
    ASSUME IdInv, [Next]_vars
    PROVE  /\ IdInv'
           /\ \A s \in Sessions :
                pc[s] # "idle" /\ pc'[s] = "idle" /\ call'[s].ok =>
                    Claim(s) \/ Store(s)
           /\ external' # external => nextval
<1>1. ASSUME NEW s \in Sessions, NEW nb \in Nb, NEW inc \in Increments,
             get_auto_increment(s, nb, inc)
      PROVE  /\ IdInv'
             /\ \A u \in Sessions : pc[u] # "idle" => pc'[u] # "idle"
             /\ external' = external
  <2>1. pc[s] = "idle" /\ external' = external
    BY <1>1, SMTT(30), Zenon DEF get_auto_increment
  <2>2. \A u \in Sessions : pc[u] # "idle" => pc'[u] # "idle"
    BY <1>1, <2>1, SMTT(30), Zenon DEF get_auto_increment, IdInv, TypeOK
  <2> QED
    BY <1>1, <2>1, <2>2, CallIdInv, Zenon
<1>2. ASSUME NEW s \in Sessions, Claim(s) \/ Store(s)
      PROVE  /\ IdInv'
             /\ \A u \in Sessions : u # s => pc'[u] = pc[u]
             /\ external' = external
  <2>1. /\ \A u \in Sessions : u # s => pc'[u] = pc[u]
        /\ external' = external
    BY <1>2, Zenon DEF Claim, Store, Return, IdInv, TypeOK
  <2> QED
    BY <1>2, <2>1, ClaimIdInv, StoreIdInv, Zenon
<1>3. ASSUME NEW s \in Sessions, ClaimFails(s) \/ Exhausted(s) \/ LockFindsRefill(s)
      PROVE  /\ IdInv'
             /\ \A u \in Sessions : pc[u] # "idle" => pc'[u] # "idle"
             /\ external' = external
  <2>1. /\ \A u \in Sessions : pc[u] # "idle" => pc'[u] # "idle"
        /\ external' = external
    BY <1>3, Zenon DEF ClaimFails, Exhausted, LockFindsRefill, IdInv, TypeOK
  <2> QED
    BY <1>3, <2>1, LoopIdInv, SMTT(30), Zenon
<1>4. ASSUME NEW s \in Sessions, NEW c \in CacheSizes, LockAndRefill(s, c)
      PROVE  /\ IdInv'
             /\ \A u \in Sessions : pc[u] # "idle" => pc'[u] # "idle"
             /\ external' = external
  <2>1. /\ \A u \in Sessions : pc[u] # "idle" => pc'[u] # "idle"
        /\ external' = external
    BY <1>4, Zenon DEF LockAndRefill, IdInv, TypeOK
  <2> QED
    BY <1>4, <2>1, LockAndRefillIdInv, Zenon
<1>5. ASSUME NEW s \in Sessions, Draw(s) \/ Retry(s)
      PROVE  /\ IdInv'
             /\ \A u \in Sessions : pc[u] # "idle" => pc'[u] # "idle"
             /\ external' = external
  <2>1. /\ \A u \in Sessions : pc[u] # "idle" => pc'[u] # "idle"
        /\ external' = external
    BY <1>5, Zenon DEF Draw, Retry
  <2> QED
    BY <1>5, <2>1, DrawIdInv, RetryIdInv, Zenon
<1>6. ASSUME NEW s \in Sessions, RefillFails(s)
      PROVE  /\ IdInv'
             /\ \A u \in Sessions : u # s => pc'[u] = pc[u]
             /\ ~call'[s].ok
             /\ external' = external
  <2>1. /\ \A u \in Sessions : u # s => pc'[u] = pc[u]
        /\ external' = external
    BY <1>6, SMTT(30), Zenon DEF RefillFails, Return, IdInv, TypeOK
  <2> QED
    BY <1>6, <2>1, RefillFailsIdInv, Zenon
<1>7. CASE nextval
  BY <1>7, NextvalIdInv, SMTT(30), Zenon DEF nextval
<1>8. CASE get_share
  BY <1>8, GetShareIdInv, Zenon DEF get_share
<1>9. CASE UNCHANGED vars
  <2>1. TypeOK' /\ MutexIsRefill'
    BY <1>9, Zenon DEF vars, IdInv, TypeOK, MutexIsRefill
  <2>2. RangeInv' /\ TakenInv'
    BY <1>9, SMTT(30), Zenon DEF vars, IdInv, RangeInv, TakenInv, Taken
  <2>3. CallInv' /\ BlkInv'
    BY <1>9, Zenon DEF vars, IdInv, CallInv, BlkInv, Taken
  <2>4. pc' = pc /\ external' = external
    BY <1>9, Zenon DEF vars
  <2> QED
    BY <2>1, <2>2, <2>3, <2>4, SMTT(30), Zenon DEF IdInv
<1> QED
  BY <1>1, <1>2, <1>3, <1>4, <1>5, <1>6, <1>7, <1>8, <1>9, SMTT(30), Zenon DEF Next, Step

(* The inductive invariant holds throughout. *)
THEOREM IdInvariant == Spec => []IdInv
<1>1. IdInv /\ [Next]_vars => IdInv'
  BY NextIdInv, Zenon
<1> QED
  BY <1>1, InitIdInv, PTL DEF Spec

(* The types, and with them that no id beyond the sequence is handed out.  *)
THEOREM AutoIncTypeCorrect == Spec => []TypeOK
<1>1. IdInv => TypeOK
  BY Zenon DEF IdInv
<1> QED
  BY <1>1, IdInvariant, PTL

(* Duckdb_share::autoinc_range only ever offers ids nobody else has. *)
THEOREM CachedIdsFree == Spec => []CachedIdsAreFree
<1>1. IdInv => CachedIdsAreFree
  BY Zenon DEF IdInv, RangeInv, CachedIdsAreFree, Taken
<1> QED
  BY <1>1, IdInvariant, PTL

(* autoinc_refill_mutex is held exactly during a refill. *)
THEOREM MutexCorrect == Spec => []MutexIsRefill
<1>1. IdInv => MutexIsRefill
  BY Zenon DEF IdInv
<1> QED
  BY <1>1, IdInvariant, PTL

(* get_auto_increment never hands out an id twice, whatever the sessions   *)
(* and the writers inside DuckDB do.                                       *)
THEOREM UniqueIds == Spec => NoIdTwice
<1> DEFINE A == /\ \A s \in Sessions :
                     pc[s] # "idle" /\ pc'[s] = "idle" /\ call'[s].ok =>
                         Ids(call'[s].first, call'[s].first + call'[s].need)
                             \cap (claimed \cup external) = {}
                /\ (external' \ external) \cap claimed = {}
<1>1. IdInv /\ [Next]_vars => A
  <2> SUFFICES ASSUME IdInv, [Next]_vars PROVE A
    BY Zenon
  <2>1. \A s \in Sessions :
          pc[s] # "idle" /\ pc'[s] = "idle" /\ call'[s].ok =>
              Ids(call'[s].first, call'[s].first + call'[s].need) \cap Taken = {}
    BY NextIdInv, ClaimIdInv, StoreIdInv, Zenon
  <2>2. (external' \ external) \cap claimed = {}
    BY NextIdInv, NextvalIdInv, SMTT(30), Zenon
  <2> QED
    BY <2>1, <2>2, SMTT(30), Zenon DEF Taken
<1>2. IdInv /\ [Next]_vars => [A]_vars
  BY <1>1, Zenon
<1> QED
  BY <1>2, IdInvariant, PTL DEF Spec, NoIdTwice

---------------------------------------------------------------------------
(* The ids of one call *)

(* A request that is being served has room for nb values, inc apart. *)
Roomy(c) == c.inc > 0 /\ c.nb * c.inc <= c.need

(* What ServerStaysInBlock rests on: the need of an accepted request did   *)
(* not overflow, and a successful answer is a whole block of claimed ids.  *)
BlockInv ==
    \A s \in Sessions :
        /\ pc[s] # "idle" \/ call[s].ok => Roomy(call[s])
        /\ pc[s] = "idle" /\ call[s].ok =>
              Ids(call[s].first, call[s].first + call[s].need) \subseteq claimed

(* The division notices every overflow of the multiplication. *)
LEMMA NeedIsRoomy ==
    ASSUME NEW nb \in Nb, NEW inc \in Increments, Need(nb, inc) \div inc = nb
    PROVE  nb * inc <= Need(nb, inc)
<1>1. nb \in Nat /\ inc \in Nat \ {0} /\ Need(nb, inc) \in Nat
  BY NeedPositive, RequestAssumption, Zenon
<1>2. ASSUME NEW n \in Nat, NEW d \in Nat \ {0}
      PROVE  (n \div d) * d <= n
  OBVIOUS
<1> QED
  BY <1>1, <1>2, Zenon

LEMMA ProductGrows ==
    ASSUME NEW i \in Nat, NEW j \in Nat, NEW d \in Nat, i < j
    PROVE  i * d + d <= j * d
<1>1. (j - i - 1) * d >= 0
  OBVIOUS
<1> QED
  BY <1>1

(* The round up of compute_next_insert_id skips less than one increment. *)
LEMMA ServerIdsInBlock ==
    ASSUME NEW c \in Call, Roomy(c), NEW off \in 1..c.inc
    PROVE  ServerIds(c, off) \subseteq Ids(c.first, c.first + c.need)
<1>1. /\ c.first \in Nat /\ c.inc \in Nat \ {0} /\ c.nb \in Nat /\ c.need \in Nat
      /\ c.nb * c.inc <= c.need /\ off \in Int
  BY DEF Call, Roomy
<1> DEFINE r == (off - c.first) % c.inc
<1>2. r \in 0..(c.inc - 1)
  BY <1>1
<1> SUFFICES ASSUME NEW i \in 0..(c.nb - 1)
             PROVE  c.first + r + i * c.inc \in Ids(c.first, c.first + c.need)
  BY Zenon DEF ServerIds, RoundUp
<1>3. i \in Nat /\ i < c.nb
  BY <1>1
<1>4. i * c.inc + c.inc <= c.nb * c.inc
  BY <1>1, <1>3, ProductGrows, Zenon
<1>5. i * c.inc \in Nat /\ c.nb * c.inc \in Nat
  BY <1>1, <1>3
<1> HIDE DEF r
<1> QED
  BY <1>1, <1>2, <1>4, <1>5 DEF Ids

(* A return leaves the request as it was. *)
LEMMA ReturnKeepsRoom ==
    ASSUME IdInv, NEW s \in Sessions, NEW ok \in BOOLEAN, NEW first \in Nat,
           Return(s, ok, first)
    PROVE  /\ call'[s].nb = call[s].nb /\ call'[s].inc = call[s].inc
           /\ call'[s].need = call[s].need
           /\ call'[s].ok = ok /\ call'[s].first = first
           /\ \A u \in Sessions : u # s => call'[u] = call[u] /\ pc'[u] = pc[u]
           /\ pc'[s] = "idle"
<1> DEFINE c == [call[s] EXCEPT !.ok = ok, !.first = first]
<1>1. call[s] \in Call
  BY Zenon DEF IdInv, TypeOK
<1>2. /\ c.nb = call[s].nb /\ c.inc = call[s].inc /\ c.need = call[s].need
      /\ c.ok = ok /\ c.first = first
  BY <1>1, Zenon DEF Call
<1>3. call' = [call EXCEPT ![s] = c]
  BY Zenon DEF Return, IdInv, TypeOK
<1> QED
  BY <1>2, <1>3, Zenon DEF Return, IdInv, TypeOK

(* A call that returns a block has claimed it; one that fails has none. *)
LEMMA ReturnBlockInv ==
    ASSUME IdInv, BlockInv, NEW s \in Sessions, NEW ok \in BOOLEAN, NEW first \in Nat,
           Return(s, ok, first), pc[s] # "idle", claimed \subseteq claimed',
           ok => Ids(first, first + call[s].need) \subseteq claimed'
    PROVE  BlockInv'
<1>1. /\ call'[s].nb = call[s].nb /\ call'[s].inc = call[s].inc
      /\ call'[s].need = call[s].need
      /\ call'[s].ok = ok /\ call'[s].first = first
      /\ \A u \in Sessions : u # s => call'[u] = call[u] /\ pc'[u] = pc[u]
      /\ pc'[s] = "idle"
  BY ReturnKeepsRoom, SMTT(30), Zenon
<1>2. Roomy(call'[s])
  BY <1>1, Zenon DEF BlockInv, Roomy
<1> QED
  BY <1>1, <1>2, Zenon DEF BlockInv

LEMMA NextBlockInv ==
    ASSUME IdInv, BlockInv, [Next]_vars
    PROVE  BlockInv'
<1> USE RequestAssumption
<1>1. ASSUME NEW s \in Sessions, NEW nb \in Nb, NEW inc \in Increments,
             get_auto_increment(s, nb, inc)
      PROVE  BlockInv'
  <2> DEFINE c == [nb |-> nb, inc |-> inc, need |-> Need(nb, inc),
                   ok |-> FALSE, first |-> 0]
  <2>1. /\ call' = [call EXCEPT ![s] = c] /\ claimed' = claimed
        /\ \A u \in Sessions : u # s => call'[u] = call[u] /\ pc'[u] = pc[u]
        /\ call'[s] = c
    BY <1>1, SMTT(30), Zenon DEF get_auto_increment, IdInv, TypeOK
  <2>2. pc'[s] # "idle" => Need(nb, inc) \div inc = nb
    BY <1>1, SMTT(30), Zenon DEF get_auto_increment
  <2>3. pc'[s] # "idle" => Roomy(c)
    BY <2>2, NeedIsRoomy DEF Roomy
  <2> QED
    BY <2>1, <2>3, SMTT(30), Zenon DEF BlockInv
<1>2. ASSUME NEW s \in Sessions, Claim(s)
      PROVE  BlockInv'
  <2>1. /\ pc[s] = "claim" /\ Return(s, TRUE, range.next)
        /\ claimed' = claimed \cup Ids(range.next, range.next + call[s].need)
    BY <1>2, Zenon DEF Claim
  <2>2. range.next \in Nat
    BY Zenon DEF IdInv, TypeOK, Range
  <2> QED
    <3>1. /\ pc[s] # "idle" /\ claimed \subseteq claimed'
          /\ Ids(range.next, range.next + call[s].need) \subseteq claimed'
      BY <2>1, Zenon
    <3> QED
      BY <2>1, <2>2, <3>1, ReturnBlockInv, Zenon
<1>3. ASSUME NEW s \in Sessions, Store(s)
      PROVE  BlockInv'
  <2>1. /\ pc[s] = "draw" /\ Return(s, TRUE, blk[s].lo)
        /\ claimed' = claimed \cup Ids(blk[s].lo, blk[s].lo + call[s].need)
    BY <1>3, Zenon DEF Store, Complete
  <2>2. blk[s].lo \in Nat
    BY Zenon DEF IdInv, TypeOK, Blk
  <2> QED
    <3>1. /\ pc[s] # "idle" /\ claimed \subseteq claimed'
          /\ Ids(blk[s].lo, blk[s].lo + call[s].need) \subseteq claimed'
      BY <2>1, Zenon
    <3> QED
      BY <2>1, <2>2, <3>1, ReturnBlockInv, Zenon
<1>4. ASSUME NEW s \in Sessions, RefillFails(s)
      PROVE  BlockInv'
  <2>1. pc[s] = "draw" /\ Return(s, FALSE, 0) /\ claimed' = claimed
    BY <1>4, ZenonT(30) DEF RefillFails
  <2> QED
    BY <2>1, ReturnBlockInv, Zenon
<1>5. ASSUME NEW s \in Sessions,
             \/ ClaimFails(s) \/ Exhausted(s) \/ LockFindsRefill(s)
             \/ \E c \in CacheSizes : LockAndRefill(s, c)
             \/ Draw(s) \/ Retry(s)
      PROVE  BlockInv'
  <2>1. /\ call' = call /\ claimed' = claimed
        /\ \A u \in Sessions : pc'[u] = "idle" <=> pc[u] = "idle"
    BY <1>5, SMTT(30), Zenon DEF ClaimFails, Exhausted, LockFindsRefill, LockAndRefill, Draw,
                Retry, Complete, IdInv, TypeOK
  <2> QED
    BY <2>1, Zenon DEF BlockInv
<1>6. CASE nextval \/ get_share \/ UNCHANGED vars
  <2>1. call' = call /\ claimed' = claimed /\ pc' = pc
    BY <1>6, Zenon DEF nextval, get_share, vars
  <2> QED
    BY <2>1, Zenon DEF BlockInv
<1> QED
  BY <1>1, <1>2, <1>3, <1>4, <1>5, <1>6, ZenonT(30) DEF Next, Step

(* The values compute_next_insert_id makes of an answer were all claimed   *)
(* for it, for every increment and offset and any width of the product.    *)
THEOREM ServerInBlock == Spec => []ServerStaysInBlock
<1>1. Init => BlockInv
  <2> SUFFICES ASSUME Init, NEW s \in Sessions
               PROVE  pc[s] = "idle" /\ ~call[s].ok
    BY Zenon DEF BlockInv
  <2> QED
    BY Zenon DEF Init
<1>2. IdInv /\ BlockInv /\ [Next]_vars => BlockInv'
  BY NextBlockInv, SMTT(30), Zenon
<1>3. IdInv /\ BlockInv => ServerStaysInBlock
  <2> SUFFICES ASSUME IdInv, BlockInv, NEW s \in Sessions, pc[s] = "idle",
                      call[s].ok, NEW off \in 1..call[s].inc
               PROVE  ServerIds(call[s], off) \subseteq claimed
    BY Zenon DEF ServerStaysInBlock
  <2>1. /\ call[s] \in Call /\ Roomy(call[s])
        /\ Ids(call[s].first, call[s].first + call[s].need) \subseteq claimed
    BY Zenon DEF IdInv, TypeOK, BlockInv
  <2> QED
    BY <2>1, ServerIdsInBlock, Zenon
<1> QED
  BY <1>1, <1>2, <1>3, IdInvariant, PTL DEF Spec

---------------------------------------------------------------------------
(* Catalog *)

Kinds == {"absent", "plain", "auto"}

TypeInv ==
    /\ db \in BOOLEAN /\ lost \in BOOLEAN
    /\ dropping \in BOOLEAN /\ doomed \in BOOLEAN
    /\ frm \in [Names -> Kinds]
    /\ committed \in Catalogs
    /\ work \in Catalogs \cup {None}
    /\ moved \subseteq Names

(* Catalog c fits the dictionary f of a database that exists or not (d), when
   the names m took part in renames of AUTO_INCREMENT tables. *)
TablesFit(c, f) ==
    \A t \in Names :
        /\ c.tables[t].exists <=> f[t] # "absent"
        /\ c.tables[t].seq # None <=> f[t] = "auto"
        /\ f[t] # "auto" => c.tables[t].rows = {}

CountersFit(c, f, m) ==
    \A t \in Names \ m :
        /\ f[t] = "auto" => c.tables[t].seq = t /\ c.sequences[t] # 0
        /\ c.sequences[t] # 0 => f[t] = "auto"
        /\ \A id \in c.tables[t].rows : id < c.sequences[t]

SchemaFits(c, d, f, m) ==
    ~d => /\ \A t \in Names : f[t] = "absent"
          /\ m = {} => ~c.schema

Fits(c, d, f, m) == TablesFit(c, f) /\ CountersFit(c, f, m) /\ SchemaFits(c, d, f, m)

(* The inductive invariant.  The properties speak of DuckDB's committed state
   between statements; within a statement the dictionary is ahead of it and
   fits the transaction's catalog, which COMMIT publishes.  That ids are not
   drawn twice needs that the rows of a table are below its counter. *)
CatalogInv ==
    /\ TypeInv
    /\ work # None => Fits(work, db, frm, moved)
    /\ Idle => Fits(committed, db, frm, moved)
    /\ dropping => work # None /\ db
    /\ dups \subseteq moved

---------------------------------------------------------------------------
(* The statements on a catalog *)

(* CREATE TABLE finds neither a table nor, under a name no rename touched, a
   sequence, and leaves a catalog that fits the new dictionary. *)
LEMMA CreateFits ==
    ASSUME NEW c \in Catalogs, NEW f \in [Names -> Kinds], NEW m,
           NEW t \in Names, NEW auto \in BOOLEAN, NEW start \in Starts,
           Fits(c, TRUE, f, m), f[t] = "absent"
    PROVE  LET n == CreateTranslate(c, t, auto, start)
               g == [f EXCEPT ![t] = IF auto THEN "auto" ELSE "plain"]
           IN n \in Catalogs /\ g \in [Names -> Kinds] /\ Fits(n, TRUE, g, m)
<1> DEFINE n == CreateTranslate(c, t, auto, start)
           g == [f EXCEPT ![t] = IF auto THEN "auto" ELSE "plain"]
           row == [rows |-> {}, seq |-> IF auto THEN t ELSE None, exists |-> TRUE]
<1>1. start \in Nat \ {0}
  BY StartAssumption, BoundAssumption, SMTT(30), Zenon
<1>2. n \in Catalogs
  BY <1>1, Zenon DEF CreateTranslate, Catalogs
<1>3. g \in [Names -> Kinds]
  BY Zenon DEF Kinds
<1>4. ~c.tables[t].exists
  BY Zenon DEF Fits, TablesFit
<1>5. n.tables = [c.tables EXCEPT ![t] = row]
  BY <1>4, SMTT(30), Zenon DEF CreateTranslate
<1>6. n.sequences = IF auto /\ c.sequences[t] = 0
                    THEN [c.sequences EXCEPT ![t] = start] ELSE c.sequences
  BY Zenon DEF CreateTranslate
<1> HIDE DEF n
<1>7. c.tables \in [Names -> [rows : SUBSET Nat, seq : Names \cup {None}, exists : BOOLEAN]]
      /\ c.sequences \in [Names -> Nat]
  BY Zenon DEF Catalogs
<1>8. TablesFit(n, g)
  BY <1>5, <1>7, NoneAssumption, SMTT(30), Zenon DEF Fits, TablesFit, Kinds
<1>9. CountersFit(n, g, m)
  BY <1>1, <1>5, <1>6, <1>7 DEF Fits, CountersFit, Kinds
<1> QED
  BY <1>2, <1>3, <1>8, <1>9, Zenon DEF Fits, SchemaFits, n

(* DROP TABLE and DROP SEQUENCE leave nothing of the name. *)
LEMMA DropFits ==
    ASSUME NEW c \in Catalogs, NEW f \in [Names -> Kinds], NEW m,
           NEW t \in Names, Fits(c, TRUE, f, m),
           NEW n, n = DropSequence(DropTable(c, t), t),
           NEW g, g = [f EXCEPT ![t] = "absent"]
    PROVE  n \in Catalogs /\ g \in [Names -> Kinds] /\ Fits(n, TRUE, g, m)
<1>1. c.tables \in [Names -> [rows : SUBSET Nat, seq : Names \cup {None}, exists : BOOLEAN]]
      /\ c.sequences \in [Names -> Nat]
  BY Zenon DEF Catalogs
<1>2. /\ n \in Catalogs
      /\ n.tables = [c.tables EXCEPT ![t] = Absent]
      /\ n.sequences = [c.sequences EXCEPT ![t] = 0]
  BY Zenon DEF DropSequence, DropTable, Absent, Catalogs
<1>3. g \in [Names -> Kinds]
  BY Zenon DEF Kinds
<1>4. TablesFit(n, g)
  BY <1>1, <1>2, SMTT(30), Zenon DEF Fits, TablesFit, Absent
<1>5. CountersFit(n, g, m)
  BY <1>1, <1>2 DEF Fits, CountersFit, Absent
<1>6. SchemaFits(n, TRUE, g, m)
  BY Zenon DEF SchemaFits
<1> QED
  BY <1>2, <1>3, <1>4, <1>5, <1>6, Zenon DEF Fits

(* The dictionary after RENAME TABLE, and the names renames have touched. *)
RenamedFrm(f, t, u) == [f EXCEPT ![u] = f[t], ![t] = "absent"]

RenamedNames(f, m, t, u) == IF f[t] = "auto" THEN m \cup {t, u} ELSE m

(* ALTER TABLE ... RENAME TO moves a table that fits to a free name; the
   counters of an AUTO_INCREMENT table are left to the names in m. *)
LEMMA RenameFits ==
    ASSUME NEW c \in Catalogs, NEW f \in [Names -> Kinds], NEW m,
           NEW t \in Names, NEW u \in Names, Fits(c, TRUE, f, m),
           f[u] = "absent"
    PROVE  LET n == RenameTranslate(c, t, u)
               g == RenamedFrm(f, t, u)
               l == RenamedNames(f, m, t, u)
           IN n \in Catalogs /\ g \in [Names -> Kinds] /\ Fits(n, TRUE, g, l)
<1> DEFINE n == RenameTranslate(c, t, u)
           g == RenamedFrm(f, t, u)
           l == RenamedNames(f, m, t, u)
<1>0. /\ g = [f EXCEPT ![u] = f[t], ![t] = "absent"]
      /\ l = IF f[t] = "auto" THEN m \cup {t, u} ELSE m
  BY Zenon DEF RenamedFrm, RenamedNames
<1>1. c.tables \in [Names -> [rows : SUBSET Nat, seq : Names \cup {None}, exists : BOOLEAN]]
      /\ c.sequences \in [Names -> Nat]
  BY Zenon DEF Catalogs
<1>2. /\ n \in Catalogs
      /\ n.tables = [c.tables EXCEPT ![u] = c.tables[t], ![t] = Absent]
      /\ n.sequences = c.sequences
  BY Zenon DEF RenameTranslate, Absent, Catalogs
<1>3. g \in [Names -> Kinds]
  BY <1>0, Zenon DEF Kinds
<1> HIDE DEF n, g, l
<1>4. SchemaFits(n, TRUE, g, l)
  BY Zenon DEF SchemaFits
<1>5. TablesFit(n, g)
  BY <1>0, <1>1, <1>2, SMTT(30), Zenon DEF Fits, TablesFit, Absent
<1>6. CountersFit(n, g, l)
  <2> SUFFICES ASSUME NEW x \in Names \ l
               PROVE  /\ g[x] = "auto" => n.tables[x].seq = x /\ n.sequences[x] # 0
                      /\ n.sequences[x] # 0 => g[x] = "auto"
                      /\ \A id \in n.tables[x].rows : id < n.sequences[x]
    BY Zenon DEF CountersFit
  <2>1. x \in Names \ m
    BY <1>0, SMTT(30), Zenon
  <2>2. CASE x \notin {t, u}
    BY <1>0, <1>1, <1>2, <2>1, <2>2, SMTT(30), Zenon DEF Fits, CountersFit
  <2>3. CASE x \in {t, u}
    <3>1. f[t] # "auto"
      BY <1>0, <2>3, SMTT(30), Zenon
    <3>2. c.sequences[x] = 0
      BY <1>1, <2>1, <2>3, <3>1, SMTT(30), Zenon DEF Fits, CountersFit
    <3>3. c.tables[t].rows = {}
      BY <3>1, Zenon DEF Fits, TablesFit
    <3> QED
      BY <1>0, <1>1, <1>2, <2>3, <3>1, <3>2, <3>3, SMTT(30), Zenon DEF Absent
  <2> QED
    BY <2>2, <2>3, SMTT(30), Zenon
<1> QED
  BY <1>2, <1>3, <1>4, <1>5, <1>6, Zenon DEF Fits, n, g, l

(* TRUNCATE keeps the counter. *)
LEMMA TruncateFits ==
    ASSUME NEW c \in Catalogs, NEW f \in [Names -> Kinds], NEW m, NEW d \in BOOLEAN,
           NEW t \in Names, Fits(c, d, f, m)
    PROVE  LET n == [c EXCEPT !.tables[t].rows = {}]
           IN n \in Catalogs /\ Fits(n, d, f, m)
<1> DEFINE n == [c EXCEPT !.tables[t].rows = {}]
<1>1. c.tables \in [Names -> [rows : SUBSET Nat, seq : Names \cup {None}, exists : BOOLEAN]]
      /\ c.sequences \in [Names -> Nat]
  BY Zenon DEF Catalogs
<1>2. /\ n \in Catalogs
      /\ n.tables = [c.tables EXCEPT ![t] = [c.tables[t] EXCEPT !.rows = {}]]
      /\ n.sequences = c.sequences
      /\ n.schema = c.schema
  BY ZenonT(30) DEF Catalogs
<1> HIDE DEF n
<1>3. TablesFit(n, f)
  BY <1>1, <1>2 DEF Fits, TablesFit
<1>4. CountersFit(n, f, m)
  BY <1>1, <1>2 DEF Fits, CountersFit
<1>5. SchemaFits(n, d, f, m)
  BY <1>2, Zenon DEF Fits, SchemaFits
<1> QED
  BY <1>2, <1>3, <1>4, <1>5, Zenon DEF Fits, n

(* One row with the next value of sequence s, which is the table's own unless
   the table was renamed: the value is new to the table. *)
LEMMA InsertFits ==
    ASSUME NEW c \in Catalogs, NEW f \in [Names -> Kinds], NEW m, NEW d \in BOOLEAN,
           NEW t \in Names, NEW s \in Names, Fits(c, d, f, m), f[t] = "auto",
           c.sequences[s] # 0, t \notin m => s = t
    PROVE  LET n == [NextVal(c, s) EXCEPT !.tables[t].rows = @ \cup {c.sequences[s]}]
           IN /\ n \in Catalogs
              /\ Fits(n, d, f, m)
              /\ t \notin m => c.sequences[s] \notin c.tables[t].rows
<1> DEFINE v == NextVal(c, s)
           n == [v EXCEPT !.tables[t].rows = @ \cup {c.sequences[s]}]
           row == [c.tables[t] EXCEPT !.rows = c.tables[t].rows \cup {c.sequences[s]}]
<1>1. c.tables \in [Names -> [rows : SUBSET Nat, seq : Names \cup {None}, exists : BOOLEAN]]
      /\ c.sequences \in [Names -> Nat]
  BY Zenon DEF Catalogs
<1>2. /\ v \in Catalogs
      /\ v.tables = c.tables
      /\ v.sequences = [c.sequences EXCEPT ![s] = c.sequences[s] + 1]
      /\ v.schema = c.schema
  BY <1>1, SMTT(30), Zenon DEF NextVal, Catalogs
<1> HIDE DEF v
<1>a. row \in [rows : SUBSET Nat, seq : Names \cup {None}, exists : BOOLEAN]
  BY <1>1, ZenonT(30)
<1>b. n = [v EXCEPT !.tables = [c.tables EXCEPT ![t] = row]]
  BY <1>1, <1>2, Zenon DEF Catalogs
<1>3. /\ n \in Catalogs
      /\ n.tables = [c.tables EXCEPT ![t] = row]
      /\ n.sequences = v.sequences
      /\ n.schema = c.schema
  <2> HIDE DEF n, row
  <2> QED
    BY <1>1, <1>2, <1>a, <1>b, SMTT(30), Zenon DEF Catalogs
<1> HIDE DEF n
<1>4. TablesFit(n, f)
  BY <1>1, <1>3 DEF Fits, TablesFit
<1>5. CountersFit(n, f, m)
  <2> SUFFICES ASSUME NEW x \in Names \ m
               PROVE  /\ f[x] = "auto" => n.tables[x].seq = x /\ n.sequences[x] # 0
                      /\ n.sequences[x] # 0 => f[x] = "auto"
                      /\ \A id \in n.tables[x].rows : id < n.sequences[x]
    BY Zenon DEF CountersFit
  <2>1. /\ f[x] = "auto" => c.tables[x].seq = x /\ c.sequences[x] # 0
        /\ c.sequences[x] # 0 => f[x] = "auto"
        /\ \A id \in c.tables[x].rows : id \in Nat /\ id < c.sequences[x]
    BY <1>1, Zenon DEF Fits, CountersFit
  <2>2. /\ n.sequences[x] = IF x = s THEN c.sequences[x] + 1 ELSE c.sequences[x]
        /\ n.tables[x].seq = c.tables[x].seq
        /\ n.tables[x].rows = IF x = t THEN c.tables[x].rows \cup {c.sequences[s]}
                              ELSE c.tables[x].rows
    <3>1. n.sequences[x] = IF x = s THEN c.sequences[x] + 1 ELSE c.sequences[x]
      BY <1>1, <1>2, <1>3
    <3>2. n.tables[x] = IF x = t THEN row ELSE c.tables[x]
      BY <1>1, <1>3, Zenon
    <3> QED
      BY <1>1, <3>1, <3>2, ZenonT(30)
  <2>3. c.sequences[x] \in Nat
    BY <1>1, Zenon
  <2> QED
    BY <2>1, <2>2, <2>3, SMTT(30), Zenon
<1>6. SchemaFits(n, d, f, m)
  BY <1>3, SMTT(30), Zenon DEF Fits, SchemaFits
<1>7. t \notin m => c.sequences[s] \notin c.tables[t].rows
  BY <1>1 DEF Fits, CountersFit
<1> QED
  BY <1>3, <1>4, <1>5, <1>6, <1>7, Zenon DEF Fits, n, v

(* DROP SCHEMA succeeds on a database without renamed tables. *)
LEMMA DropDatabaseFits ==
    ASSUME NEW c \in Catalogs, NEW f \in [Names -> Kinds], NEW m,
           Fits(c, TRUE, f, m), \A t \in Names : f[t] = "absent"
    PROVE  LET n == IF Occupied(c) THEN c ELSE [c EXCEPT !.schema = FALSE]
           IN n \in Catalogs /\ Fits(n, FALSE, f, m)
<1> DEFINE n == IF Occupied(c) THEN c ELSE [c EXCEPT !.schema = FALSE]
<1>1. /\ n \in Catalogs
      /\ n.tables = c.tables
      /\ n.sequences = c.sequences
  BY Zenon DEF Catalogs
<1>2. m = {} => ~n.schema
  <2> SUFFICES ASSUME m = {} PROVE ~n.schema
    BY Zenon
  <2>1. \A t \in Names : ~c.tables[t].exists /\ c.sequences[t] = 0
    BY Zenon DEF Fits, TablesFit, CountersFit
  <2>2. n = [c EXCEPT !.schema = FALSE]
    BY <2>1, Zenon DEF Occupied
  <2> QED
    BY <2>2, Zenon DEF Catalogs
<1> HIDE DEF n
<1>3. TablesFit(n, f) /\ CountersFit(n, f, m)
  BY <1>1, ZenonT(30) DEF Fits, TablesFit, CountersFit
<1>4. SchemaFits(n, FALSE, f, m)
  BY <1>2, Zenon DEF SchemaFits
<1> QED
  BY <1>1, <1>3, <1>4, Zenon DEF Fits, n

---------------------------------------------------------------------------
(* The inductive invariant *)

LEMMA InitCatalogInv == CatalogInit => CatalogInv
<1> SUFFICES ASSUME CatalogInit PROVE CatalogInv
  BY Zenon
<1>1. EmptyCatalog \in Catalogs
  BY Zenon DEF EmptyCatalog, Absent, Catalogs
<1>2. TypeInv
  BY <1>1, Zenon DEF CatalogInit, TypeInv, Kinds
<1>3. Fits(committed, db, frm, moved)
  BY NoneAssumption, SMTT(30), Zenon DEF CatalogInit, EmptyCatalog, Absent, Fits, TablesFit, CountersFit, SchemaFits
<1> QED
  BY <1>2, <1>3, Zenon DEF CatalogInv, CatalogInit

(* A statement that leaves its work to COMMIT keeps the invariant when its
   catalog fits the new dictionary. *)
LEMMA WorkKeepsInv ==
    ASSUME CatalogInv,
           work' \in Catalogs, committed' = committed, lost' = lost, dups' = dups,
           db' \in BOOLEAN, frm' \in [Names -> Kinds],
           dropping' \in BOOLEAN, doomed' \in BOOLEAN, dropping' => db',
           moved' \subseteq Names, moved \subseteq moved',
           Fits(work', db', frm', moved')
    PROVE  CatalogInv'
<1>1. TypeInv'
  BY Zenon DEF CatalogInv, TypeInv
<1>2. ~Idle'
  BY NoneAssumption, SMTT(30), Zenon DEF Idle
<1>3. work' # None
  BY NoneAssumption, Zenon
<1> QED
  BY <1>1, <1>2, <1>3, SMTT(30), Zenon DEF CatalogInv

(* The two ways to draw an id. *)
LEMMA InsertKeepsInv ==
    ASSUME CatalogInv, Idle, NEW t \in Names, NEW s \in Names,
           frm[t] = "auto", t \notin moved => s = t, InsertFrom(t, s)
    PROVE  CatalogInv'
<1> DEFINE n == [NextVal(committed, s) EXCEPT
                    !.tables[t].rows = @ \cup {committed.sequences[s]}]
<1>1. TypeInv /\ Fits(committed, db, frm, moved) /\ dups \subseteq moved
  BY Zenon DEF CatalogInv
<1>2. committed.sequences[s] # 0
  BY BoundAssumption DEF InsertFrom
<1>3. committed' = n
  BY Zenon DEF InsertFrom
<1>4. UNCHANGED <<db, frm, work, moved, lost, dropping, doomed>>
  BY Zenon DEF InsertFrom
<1>5. /\ n \in Catalogs
      /\ Fits(n, db, frm, moved)
      /\ t \notin moved => committed.sequences[s] \notin committed.tables[t].rows
  <2> HIDE DEF n
  <2> QED
    BY <1>1, <1>2, InsertFits, SMTT(30), Zenon DEF TypeInv, n
<1>6. dups' \subseteq moved
  BY <1>1, <1>5, SMTT(30), Zenon DEF InsertFrom
<1> HIDE DEF n
<1>7. TypeInv'
  BY <1>1, <1>3, <1>4, <1>5, Zenon DEF TypeInv
<1>8. work = None
  BY Zenon DEF Idle
<1> QED
  BY <1>3, <1>4, <1>5, <1>6, <1>7, <1>8, SMTT(30), Zenon DEF CatalogInv

LEMMA NextCatalogInv == CatalogInv /\ [CatalogNext]_catalogVars => CatalogInv'
<1> SUFFICES ASSUME CatalogInv, [CatalogNext]_catalogVars PROVE CatalogInv'
  BY Zenon
<1>1. TypeInv /\ dups \subseteq moved
  BY Zenon DEF CatalogInv
<1>2. StartDdl => /\ Idle /\ work = None /\ dropping = FALSE /\ doomed' = doomed
                  /\ Fits(committed, db, frm, moved)
  BY Zenon DEF StartDdl, Idle, CatalogInv, TypeInv
<1>3. ASSUME NEW t \in Names, NEW auto \in BOOLEAN, NEW start \in Starts,
             create(t, auto, start)
      PROVE  CatalogInv'
  <2> DEFINE n == CreateTranslate(committed, t, auto, start)
             g == [frm EXCEPT ![t] = IF auto THEN "auto" ELSE "plain"]
  <2>1. db = TRUE /\ frm[t] = "absent" /\ work' = n /\ frm' = g
        /\ UNCHANGED <<db, committed, moved, dups, lost, dropping>>
        /\ dropping = FALSE /\ UNCHANGED doomed
    BY <1>1, <1>2, <1>3, Zenon DEF create, TypeInv
  <2>2. Fits(committed, TRUE, frm, moved)
    BY <1>2, <1>3, <2>1, Zenon DEF create
  <2>3. n \in Catalogs /\ g \in [Names -> Kinds] /\ Fits(n, TRUE, g, moved)
    BY <1>1, <2>1, <2>2, CreateFits, ZenonT(30) DEF TypeInv
  <2> HIDE DEF n, g
  <2> QED
    BY <1>1, <2>1, <2>3, WorkKeepsInv, SMTT(30), Zenon DEF TypeInv
<1>4. ASSUME NEW t \in Names, delete_table(t)
      PROVE  CatalogInv'
  <2>1. /\ work' = DropSequence(DropTable(committed, t), t)
        /\ frm' = [frm EXCEPT ![t] = "absent"]
        /\ UNCHANGED <<db, committed, moved, dups, lost, dropping>>
        /\ dropping = FALSE /\ UNCHANGED doomed
    BY <1>2, <1>4, Zenon DEF delete_table
  <2>2. db = TRUE /\ Fits(committed, TRUE, frm, moved)
    BY <1>1, <1>2, <1>4, Zenon DEF delete_table, Fits, SchemaFits, TypeInv
  <2>3. work' \in Catalogs /\ frm' \in [Names -> Kinds] /\ Fits(work', TRUE, frm', moved)
    BY <1>1, <2>1, <2>2, DropFits, ZenonT(30) DEF TypeInv
  <2> QED
    BY <1>1, <2>1, <2>2, <2>3, WorkKeepsInv, SMTT(30), Zenon DEF TypeInv
<1>5. ASSUME NEW t \in Names, NEW u \in Names, rename_table(t, u)
      PROVE  CatalogInv'
  <2>1. /\ frm[u] = "absent"
        /\ work' = RenameTranslate(committed, t, u)
        /\ frm' = RenamedFrm(frm, t, u)
        /\ moved' = RenamedNames(frm, moved, t, u)
        /\ UNCHANGED <<db, committed, dups, lost, dropping>>
        /\ dropping = FALSE /\ UNCHANGED doomed
    BY <1>2, <1>5, Zenon DEF rename_table, RenamedFrm, RenamedNames
  <2>2. db = TRUE /\ Fits(committed, TRUE, frm, moved)
    BY <1>1, <1>2, <1>5, Zenon DEF rename_table, Fits, SchemaFits, TypeInv
  <2>3. work' \in Catalogs /\ frm' \in [Names -> Kinds] /\ Fits(work', TRUE, frm', moved')
    <3>1. committed \in Catalogs /\ frm \in [Names -> Kinds]
      BY <1>1, SMTT(30), Zenon DEF TypeInv
    <3> QED
      BY <2>1, <2>2, <3>1, RenameFits, Zenon
  <2>4. moved' \subseteq Names /\ moved \subseteq moved'
    BY <1>1, <2>1, SMTT(30), Zenon DEF TypeInv, RenamedNames
  <2> QED
    BY <1>1, <2>1, <2>2, <2>3, <2>4, WorkKeepsInv, Zenon DEF TypeInv
<1>6. ASSUME NEW t \in Names, truncate(t)
      PROVE  CatalogInv'
  <2> DEFINE n == [committed EXCEPT !.tables[t].rows = {}]
  <2>1. /\ work' = n /\ UNCHANGED <<db, frm, committed, moved, dups, lost, dropping>>
        /\ dropping = FALSE /\ UNCHANGED doomed
    BY <1>2, <1>6, Zenon DEF truncate
  <2>2. Fits(committed, db, frm, moved)
    BY <1>2, <1>6, Zenon DEF truncate
  <2>3. n \in Catalogs /\ Fits(n, db, frm, moved)
    BY <1>1, <2>2, TruncateFits, SMTT(30), Zenon DEF TypeInv
  <2> HIDE DEF n
  <2> QED
    BY <1>1, <2>1, <2>3, WorkKeepsInv, Zenon DEF TypeInv
<1>7. ASSUME NEW t \in Names, write_row(t)
      PROVE  CatalogInv'
  BY <1>7, InsertKeepsInv, SMTT(30), Zenon DEF write_row
<1>8. ASSUME NEW t \in Names, InsertInDuckdb(t)
      PROVE  CatalogInv'
  <2> DEFINE s == committed.tables[t].seq
  <2>1. Idle /\ s # None /\ InsertFrom(t, s) /\ Fits(committed, db, frm, moved)
    BY <1>8, SMTT(30), Zenon DEF InsertInDuckdb, CatalogInv
  <2>2. s \in Names
    BY <1>1, <2>1, SMTT(30), Zenon DEF TypeInv, Catalogs
  <2>3. frm[t] = "auto" /\ (t \notin moved => s = t)
    BY <2>1, Zenon DEF Fits, TablesFit, CountersFit
  <2> HIDE DEF s
  <2> QED
    BY <2>1, <2>2, <2>3, InsertKeepsInv, SMTT(30), Zenon
<1>9. CASE duckdb_drop_database
  <2> DEFINE n == IF Occupied(work) THEN work ELSE [work EXCEPT !.schema = FALSE]
  <2>1. dropping /\ db' = FALSE /\ (\A t \in Names : frm[t] = "absent")
        /\ UNCHANGED <<frm, committed, moved, dups, lost>> /\ dropping' = FALSE
    BY <1>9, Zenon DEF duckdb_drop_database
  <2>2. work' = n /\ doomed' \in BOOLEAN
    BY <1>1, <1>9, Zenon DEF duckdb_drop_database, TypeInv
  <2>3. work \in Catalogs /\ Fits(work, TRUE, frm, moved)
    BY <1>1, <2>1, Zenon DEF CatalogInv, TypeInv
  <2>4. n \in Catalogs /\ Fits(n, FALSE, frm, moved)
    BY <1>1, <2>1, <2>3, DropDatabaseFits, Zenon DEF TypeInv
  <2> HIDE DEF n
  <2> QED
    BY <1>1, <2>1, <2>2, <2>4, WorkKeepsInv, Zenon DEF TypeInv
<1>17. CASE StartDropDatabase
  <2>1. /\ db = TRUE /\ work' = committed /\ dropping' = TRUE
        /\ UNCHANGED <<db, frm, committed, moved, dups, lost, doomed>>
    BY <1>1, <1>2, <1>17, Zenon DEF StartDropDatabase, TypeInv
  <2>2. Fits(committed, db, frm, moved)
    BY <1>2, <1>17, Zenon DEF StartDropDatabase
  <2> QED
    BY <1>1, <2>1, <2>2, WorkKeepsInv, Zenon DEF TypeInv
<1>18. ASSUME NEW t \in Names, DropNext(t)
       PROVE  CatalogInv'
  <2>1. /\ dropping
        /\ work' = DropSequence(DropTable(work, t), t)
        /\ frm' = [frm EXCEPT ![t] = "absent"]
        /\ UNCHANGED <<db, committed, moved, dups, lost, dropping, doomed>>
    BY <1>18, Zenon DEF DropNext
  <2>2. db = TRUE /\ work \in Catalogs /\ Fits(work, TRUE, frm, moved)
    BY <1>1, <2>1, Zenon DEF CatalogInv, TypeInv
  <2>3. work' \in Catalogs /\ frm' \in [Names -> Kinds] /\ Fits(work', TRUE, frm', moved)
    BY <1>1, <2>1, <2>2, DropFits, ZenonT(30) DEF TypeInv
  <2> QED
    BY <1>1, <2>1, <2>2, <2>3, WorkKeepsInv, Zenon DEF TypeInv
<1>19. ASSUME NEW t \in Names, DropNextFails(t)
       PROVE  CatalogInv'
  <2>1. UNCHANGED <<db, frm, committed, work, moved, dups, lost, dropping>> /\ doomed' = TRUE
    BY <1>19, Zenon DEF DropNextFails
  <2> QED
    BY <1>1, <2>1, Zenon DEF CatalogInv, TypeInv, Idle
<1>10. CASE CreateDatabase
  <2>1. /\ db' = TRUE /\ UNCHANGED <<frm, committed, work, moved, dups, lost, dropping>>
        /\ UNCHANGED doomed /\ dropping = FALSE
    BY <1>2, <1>10, Zenon DEF CreateDatabase
  <2>2. TypeInv' /\ work' = None
    BY <1>1, <1>2, <1>10, <2>1, SMTT(30), Zenon DEF TypeInv, CreateDatabase
  <2>3. Fits(committed, TRUE, frm, moved)
    BY <1>2, <1>10, SMTT(30), Zenon DEF CreateDatabase, Fits, SchemaFits
  <2> QED
    BY <1>1, <2>1, <2>2, <2>3, Zenon DEF CatalogInv
<1>11. CASE Commit
  BY <1>1, <1>11, SMTT(30), Zenon DEF Commit, CatalogInv, TypeInv, Idle
<1>12. CASE CommitIsLost
  <2>1. work # None /\ work' = None /\ UNCHANGED <<db, frm, committed, moved, dups>>
        /\ dropping' = FALSE /\ doomed' = FALSE
        /\ lost' \in BOOLEAN /\ (~lost' => work = committed)
    BY <1>12, Zenon DEF CommitIsLost
  <2>2. Fits(work, db, frm, moved)
    BY <2>1, SMTT(30), Zenon DEF CatalogInv
  <2> QED
    BY <1>1, <2>1, <2>2, Zenon DEF CatalogInv, TypeInv, Idle
<1>13. CASE UNCHANGED <<db, frm, committed, work, moved, dups, lost, dropping, doomed>>
  BY <1>13, SMTT(30), Zenon DEF CatalogInv, TypeInv, Idle
<1>14. CASE \E t \in Names : delete_tableFails(t)
  BY <1>2, <1>13, <1>14, Zenon DEF delete_tableFails
<1>15. CASE HandlerFails
  BY <1>2, <1>13, <1>15, Zenon DEF HandlerFails
<1>16. CASE UNCHANGED catalogVars
  BY <1>13, <1>16, Zenon DEF catalogVars
<1> QED
  BY <1>3, <1>4, <1>5, <1>6, <1>7, <1>8, <1>9, <1>10, <1>11, <1>12, <1>14, <1>15, <1>16, <1>17, <1>18, <1>19, SMTT(30), Zenon
  DEF CatalogNext

---------------------------------------------------------------------------
(* The theorems *)

LEMMA CatalogCorrect == CatalogSpec => []CatalogInv
  BY InitCatalogInv, NextCatalogInv, PTL, SMTT(30) DEF CatalogSpec

(* Between statements MariaDB's dictionary and DuckDB's catalog name the same
   tables and AUTO_INCREMENT columns, unless a COMMIT was lost: create,
   delete_table, rename_table and truncate never leave them apart, and a
   delete_table that fails half-way is undone. *)
THEOREM DictionaryCorrect == CatalogSpec => []DictionaryAgrees
<1>1. CatalogInv => DictionaryAgrees
  BY ZenonT(60) DEF CatalogInv, Fits, TablesFit, DictionaryAgrees
<1> QED
  BY <1>1, CatalogCorrect, PTL

(* reserve_autoinc_block and the column default use one existing sequence for
   every table whose name took part in no rename. *)
THEOREM OneCounter == CatalogSpec => []OneCounterPerTable
<1>1. CatalogInv => OneCounterPerTable
  BY Zenon DEF CatalogInv, Fits, CountersFit, OneCounterPerTable
<1> QED
  BY <1>1, CatalogCorrect, PTL

(* delete_table leaves no sequence that a later CREATE SEQUENCE IF NOT EXISTS
   would take over. *)
THEOREM NoOrphan == CatalogSpec => []NoOrphanSequence
<1>1. CatalogInv => NoOrphanSequence
  BY Zenon DEF CatalogInv, Fits, CountersFit, NoOrphanSequence
<1> QED
  BY <1>1, CatalogCorrect, PTL

(* No table gets an id twice from write_row and the column default, unless a
   rename separated its two counters. *)
THEOREM UniqueRowIds == CatalogSpec => []IdsUniqueUnlessRenamed
<1>1. CatalogInv => IdsUniqueUnlessRenamed
  BY Zenon DEF CatalogInv, IdsUniqueUnlessRenamed
<1> QED
  BY <1>1, CatalogCorrect, PTL

(* duckdb_drop_database drops the schema although it does not cascade. *)
THEOREM DroppedSchema == CatalogSpec => []DroppedDatabaseIsGone
<1>1. CatalogInv => DroppedDatabaseIsGone
  BY Zenon DEF CatalogInv, Fits, SchemaFits, DroppedDatabaseIsGone
<1> QED
  BY <1>1, CatalogCorrect, PTL

=============================================================================
