------------------------------- MODULE AutoInc -------------------------------
(***************************************************************************)
(* AUTO_INCREMENT: ha_duckdb::get_auto_increment called by concurrent      *)
(* sessions on one table.  Ids come from the table's DuckDB sequence in    *)
(* blocks; the block of the Duckdb_share is claimed from with a            *)
(* compare-and-swap, and refilled under a mutex by a query of nextval()s.  *)
(* Writers inside DuckDB call nextval() of the same sequence at any time.  *)
(***************************************************************************)
EXTENDS Integers

CONSTANTS
    Sessions,     \* the threads that insert
    NoSession,    \* the refill mutex is free
    Nb,           \* values of nb_desired_values
    Increments,   \* values of auto_increment_increment
    CacheSizes,   \* values of duckdb_autoinc_cache_size
    Word,         \* one more than the largest ulonglong
    SeqMax,       \* last value of the sequence
    Attempts,     \* how often reserve_autoinc_block tries
    MaxCalls      \* bound on the calls of one session

ASSUME SessionAssumption == NoSession \notin Sessions
ASSUME RequestAssumption ==
    /\ Nb \subseteq Nat \ {0}
    /\ Increments \subseteq Nat \ {0}
    /\ CacheSizes \subseteq Nat \ {0} /\ CacheSizes # {}
ASSUME WidthAssumption ==
    /\ Word \in Nat /\ SeqMax \in Nat /\ SeqMax < Word
    /\ Attempts \in Nat \ {0} /\ MaxCalls \in Nat

VARIABLES
    seq,         \* the next value of the DuckDB sequence
    range,       \* Duckdb_share::autoinc_range
    mutex,       \* holder of autoinc_refill_mutex
    pc,          \* where each session is in get_auto_increment
    cur,         \* its copy of the range
    call,        \* its request, and its answer once pc is "idle" again
    blk,         \* its refill query: values drawn, wanted, attempts
    claimed,     \* the ids handed to the server
    external,    \* the ids drawn by writers inside DuckDB
    calls        \* calls made so far

vars == <<seq, range, mutex, pc, cur, call, blk, claimed, external, calls>>

Range == [next : Nat, end : Nat]

Call == [nb : Nat, inc : Nat, need : Nat, ok : BOOLEAN, first : Nat]

Blk == [lo : Nat, hi : Nat, n : Nat, want : Nat, attempt : Nat]

(* The type of the state. *)
TypeOK ==
    /\ seq \in 1..(SeqMax + 1)
    /\ range \in Range
    /\ mutex \in Sessions \cup {NoSession}
    /\ pc \in [Sessions -> {"idle", "claim", "lock", "draw"}]
    /\ cur \in [Sessions -> Range]
    /\ call \in [Sessions -> Call]
    /\ blk \in [Sessions -> Blk]
    /\ claimed \subseteq 1..SeqMax
    /\ external \subseteq 1..SeqMax
    /\ calls \in [Sessions -> Nat]

(* The ids of the block [next, end). *)
Ids(next, end) == next..(end - 1)

Empty == [next |-> 0, end |-> 0]

NoBlk == [lo |-> 0, hi |-> 0, n |-> 0, want |-> 0, attempt |-> 0]

(* nb_desired_values * increment, in 64 bits. *)
Need(nb, inc) == (nb * inc) % Word

(* The call returns first_value, or ULONGLONG_MAX as the sign of a failure; *)
(* its locals are gone.                                                    *)
Return(s, ok, first) ==
    /\ pc' = [pc EXCEPT ![s] = "idle"]
    /\ call' = [call EXCEPT ![s].ok = ok, ![s].first = first]
    /\ cur' = [cur EXCEPT ![s] = Empty]
    /\ blk' = [blk EXCEPT ![s] = NoBlk]

(* Mutant: the overflow of the multiplication is not noticed. *)
CallUnchecked(s, nb, inc) ==
    /\ pc[s] = "idle" /\ calls[s] < MaxCalls
    /\ calls' = [calls EXCEPT ![s] = @ + 1]
    /\ call' = [call EXCEPT ![s] = [nb |-> nb, inc |-> inc, need |-> Need(nb, inc),
                                    ok |-> FALSE, first |-> 0]]
    /\ pc' = [pc EXCEPT ![s] = "claim"]
    /\ cur' = [cur EXCEPT ![s] = range]
    /\ UNCHANGED <<seq, range, mutex, blk, claimed, external>>

(* get_auto_increment is called; a product that overflows is a failure. *)
get_auto_increment(s, nb, inc) ==
    /\ pc[s] = "idle" /\ calls[s] < MaxCalls
    /\ calls' = [calls EXCEPT ![s] = @ + 1]
    /\ call' = [call EXCEPT ![s] = [nb |-> nb, inc |-> inc, need |-> Need(nb, inc),
                                    ok |-> FALSE, first |-> 0]]
    /\ \/ /\ Need(nb, inc) \div inc # nb
          /\ UNCHANGED <<pc, cur>>
       \/ /\ Need(nb, inc) \div inc = nb
          /\ pc' = [pc EXCEPT ![s] = "claim"]
          /\ cur' = [cur EXCEPT ![s] = range]
    /\ UNCHANGED <<seq, range, mutex, blk, claimed, external>>

Enough(r, n) == r.end - r.next >= n

(* Mutant: the new bounds are stored without a compare. *)
ClaimWithoutCompare(s) ==
    /\ pc[s] = "claim"
    /\ Enough(cur[s], call[s].need)
    /\ range' = [next |-> cur[s].next + call[s].need, end |-> cur[s].end]
    /\ claimed' = claimed \cup Ids(cur[s].next, cur[s].next + call[s].need)
    /\ Return(s, TRUE, cur[s].next)
    /\ UNCHANGED <<seq, mutex, external, calls>>

(* The fast path: one CAS on both bounds.  (A spurious failure of          *)
(* compare_exchange_weak changes nothing.)                                 *)
Claim(s) ==
    /\ pc[s] = "claim"
    /\ Enough(cur[s], call[s].need)
    /\ range = cur[s]
    /\ range' = [next |-> cur[s].next + call[s].need, end |-> cur[s].end]
    /\ claimed' = claimed \cup Ids(cur[s].next, cur[s].next + call[s].need)
    /\ Return(s, TRUE, cur[s].next)
    /\ UNCHANGED <<seq, mutex, external, calls>>

(* The CAS fails and reloads. *)
ClaimFails(s) ==
    /\ pc[s] = "claim"
    /\ Enough(cur[s], call[s].need)
    /\ range # cur[s]
    /\ cur' = [cur EXCEPT ![s] = range]
    /\ UNCHANGED <<seq, range, mutex, pc, call, blk, claimed, external, calls>>

(* The block is too short: go for the mutex. *)
Exhausted(s) ==
    /\ pc[s] = "claim"
    /\ ~Enough(cur[s], call[s].need)
    /\ pc' = [pc EXCEPT ![s] = "lock"]
    /\ UNCHANGED <<seq, range, mutex, cur, call, blk, claimed, external, calls>>

(* Under the mutex somebody else's refill is enough: unlock and retry. *)
LockFindsRefill(s) ==
    /\ pc[s] = "lock" /\ mutex = NoSession
    /\ Enough(range, call[s].need)
    /\ cur' = [cur EXCEPT ![s] = range]
    /\ pc' = [pc EXCEPT ![s] = "claim"]
    /\ UNCHANGED <<seq, range, mutex, call, blk, claimed, external, calls>>

(* The block is still too short: start the refill query. *)
LockAndRefill(s, cache_size) ==
    /\ pc[s] = "lock" /\ mutex = NoSession
    /\ ~Enough(range, call[s].need)
    /\ mutex' = s
    /\ cur' = [cur EXCEPT ![s] = range]
    /\ pc' = [pc EXCEPT ![s] = "draw"]
    /\ blk' = [blk EXCEPT ![s] =
                 [NoBlk EXCEPT !.want = IF call[s].need > cache_size
                                        THEN call[s].need ELSE cache_size]]
    /\ UNCHANGED <<seq, range, call, claimed, external, calls>>

---------------------------------------------------------------------------
(* reserve_autoinc_block *)

(* One nextval() of SELECT min(x), max(x) FROM (SELECT nextval(...) ...). *)
Draw(s) ==
    /\ pc[s] = "draw" /\ blk[s].n < blk[s].want
    /\ seq <= SeqMax
    /\ seq' = seq + 1
    /\ blk' = [blk EXCEPT ![s].lo = IF blk[s].n = 0 THEN seq ELSE @,
                          ![s].hi = seq, ![s].n = @ + 1]
    /\ UNCHANGED <<range, mutex, pc, cur, call, claimed, external, calls>>

Complete(s) == pc[s] = "draw" /\ blk[s].n = blk[s].want

Dense(b) == b.hi - b.lo + 1 = b.want

(* No foreign id in the block: publish what the call leaves of it. *)
Store(s) ==
    /\ Complete(s)
    /\ Dense(blk[s])
    /\ range' = [next |-> blk[s].lo + call[s].need, end |-> blk[s].lo + blk[s].want]
    /\ mutex' = NoSession
    /\ claimed' = claimed \cup Ids(blk[s].lo, blk[s].lo + call[s].need)
    /\ Return(s, TRUE, blk[s].lo)
    /\ UNCHANGED <<seq, external, calls>>

(* A writer inside DuckDB got ids in between: the block is given up. *)
Retry(s) ==
    /\ Complete(s)
    /\ ~Dense(blk[s])
    /\ blk[s].attempt + 1 < Attempts
    /\ blk' = [blk EXCEPT ![s] = [NoBlk EXCEPT !.want = blk[s].want,
                                               !.attempt = blk[s].attempt + 1]]
    /\ UNCHANGED <<seq, range, mutex, pc, cur, call, claimed, external, calls>>

(* Mutant: a failed refill returns with the mutex locked. *)
RefillFailsLocked(s) ==
    /\ pc[s] = "draw"
    /\ \/ Complete(s) /\ ~Dense(blk[s]) /\ blk[s].attempt + 1 >= Attempts
       \/ blk[s].n < blk[s].want
    /\ Return(s, FALSE, 0)
    /\ UNCHANGED <<seq, range, mutex, claimed, external, calls>>

(* The last attempt is given up as well, or the query fails, as it does    *)
(* when the sequence is exhausted.                                         *)
RefillFails(s) ==
    /\ pc[s] = "draw"
    /\ \/ Complete(s) /\ ~Dense(blk[s]) /\ blk[s].attempt + 1 >= Attempts
       \/ blk[s].n < blk[s].want
    /\ mutex' = NoSession
    /\ Return(s, FALSE, 0)
    /\ UNCHANGED <<seq, range, claimed, external, calls>>

---------------------------------------------------------------------------
(* The surroundings *)

(* A writer inside DuckDB takes the column default (external). *)
nextval ==
    /\ seq <= SeqMax
    /\ external' = external \cup {seq}
    /\ seq' = seq + 1
    /\ UNCHANGED <<range, mutex, pc, cur, call, blk, claimed, calls>>

(* The share is freed when no handler uses it, and made anew by get_share. *)
get_share ==
    /\ \A s \in Sessions : pc[s] = "idle"
    /\ range # Empty
    /\ range' = Empty
    /\ UNCHANGED <<seq, mutex, pc, cur, call, blk, claimed, external, calls>>

Init ==
    /\ seq = 1
    /\ range = Empty
    /\ mutex = NoSession
    /\ pc = [s \in Sessions |-> "idle"]
    /\ cur = [s \in Sessions |-> Empty]
    /\ call = [s \in Sessions |-> [nb |-> 0, inc |-> 0, need |-> 0,
                                   ok |-> FALSE, first |-> 0]]
    /\ blk = [s \in Sessions |-> NoBlk]
    /\ claimed = {}
    /\ external = {}
    /\ calls = [s \in Sessions |-> 0]

(* The steps inside a call, on which the session does not wait for anyone  *)
(* but the holder of the mutex.                                            *)
Step(s) ==
    \/ Claim(s) \/ ClaimFails(s) \/ Exhausted(s)
    \/ LockFindsRefill(s)
    \/ \E c \in CacheSizes : LockAndRefill(s, c)
    \/ Draw(s) \/ Store(s) \/ Retry(s) \/ RefillFails(s)

Next ==
    \/ \E s \in Sessions, nb \in Nb, inc \in Increments : get_auto_increment(s, nb, inc)
    \/ \E s \in Sessions : Step(s)
    \/ nextval
    \/ get_share

Spec == Init /\ [][Next]_vars

(* The scheduler runs every thread that can go on. *)
FairSpec == Spec /\ \A s \in Sessions : WF_vars(Step(s))

---------------------------------------------------------------------------
(* Properties *)

(* The cached block holds only ids nobody has: not the server, which       *)
(* claims while the block is being replaced, and not a writer inside       *)
(* DuckDB, whose ids may lie between two blocks.                           *)
CachedIdsAreFree ==
    /\ Ids(range.next, range.end) \cap (claimed \cup external) = {}
    /\ range.next <= range.end

(* No id is handed out twice: whatever a call claims was not claimed       *)
(* before and was not drawn inside DuckDB, and neither was what DuckDB     *)
(* draws.                                                                  *)
NoIdTwice ==
    [][/\ \A s \in Sessions :
            pc[s] # "idle" /\ pc'[s] = "idle" /\ call'[s].ok =>
                Ids(call'[s].first, call'[s].first + call'[s].need)
                    \cap (claimed \cup external) = {}
       /\ (external' \ external) \cap claimed = {}]_vars

(* What the server makes of a block: compute_next_insert_id rounds the     *)
(* first value up to the offset and goes on in steps of the increment      *)
(* (external).                                                             *)
RoundUp(first, inc, off) == first + ((off - first) % inc)

ServerIds(c, off) == {RoundUp(c.first, c.inc, off) + i * c.inc : i \in 0..(c.nb - 1)}

(* The server never leaves the block it was given, for any offset up to    *)
(* the increment; need is nb_desired_values * increment and no less.       *)
ServerStaysInBlock ==
    \A s \in Sessions :
        pc[s] = "idle" /\ call[s].ok =>
            \A off \in 1..call[s].inc : ServerIds(call[s], off) \subseteq claimed

(* The refill mutex is held by the one session that runs the refill query, *)
(* and by nobody when there is none: every way out of it unlocks.          *)
MutexIsRefill ==
    \A s \in Sessions : pc[s] = "draw" <=> mutex = s

(* Every call returns: a session waits for the mutex only while somebody   *)
(* refills, and each time round the loop another session got ids.          *)
EveryCallReturns == \A s \in Sessions : pc[s] # "idle" ~> pc[s] = "idle"
=============================================================================
