---------------------------- MODULE TokenBucket -----------------------------
(***************************************************************************)
(* Bucket (crates/actant-reliability/src/throttle.rs).  Tokens and time are*)
(* counted in halves: refill gives Refill half tokens per tick, and only   *)
(* whole tokens can be consumed.                                           *)
(***************************************************************************)
EXTENDS Integers

CONSTANTS
    Limit,        \* policy.limit
    Refill,       \* half tokens per tick
    Requests,     \* numbers of tokens a caller asks for
    MaxTick       \* bound on time

VARIABLES
    tick,
    bucketState,  \* half tokens, and when they were last refilled
    spent,        \* history: whole tokens consumed before each tick
    promise       \* the last refusal: tokens asked and when to come back

vars == <<tick, bucketState, spent, promise>>

Half == 2
Least(a, b) == IF a < b THEN a ELSE b

Init ==
    /\ tick = 0
    /\ bucketState = [halves |-> Half * Limit, last |-> 0]
    /\ spent = [t \in 0..MaxTick + 1 |-> 0]
    /\ promise = [n |-> 0, at |-> 0]

Pass ==
    /\ tick < MaxTick
    /\ tick' = tick + 1
    /\ UNCHANGED <<bucketState, spent, promise>>

\* Fault: the bucket grows over its limit while nobody asks.
Unbounded == bucketState.halves + (tick - bucketState.last) * Refill

Refilled == Least(bucketState.halves + (tick - bucketState.last) * Refill, Half * Limit)

Deficit(n) == Half * n - Refilled

\* Fault: the wait is rounded down.
RoundsDown(n) == Deficit(n) \div Refill

\* Ceiling of the time the deficit takes to flow in.
Wait(n) == (Deficit(n) + Refill - 1) \div Refill

TryConsume(n) ==
    /\ IF Refilled \div Half >= n
       THEN /\ bucketState' = [halves |-> Refilled - Half * n, last |-> tick]
            /\ spent' = [t \in 0..MaxTick + 1 |-> IF t > tick THEN spent[t] + n ELSE spent[t]]
            /\ promise' = [n |-> 0, at |-> 0]
       ELSE /\ bucketState' = [halves |-> Refilled, last |-> tick]
            /\ promise' = [n |-> n, at |-> tick + Wait(n)]
            /\ UNCHANGED spent
    /\ UNCHANGED tick

Next == Pass \/ \E n \in Requests : TryConsume(n)

Spec == Init /\ [][Next]_vars

-----------------------------------------------------------------------------
TypeOK == tick \in 0..MaxTick /\ bucketState.halves \in 0..Half * Limit

(* In every stretch of time no more is consumed than the limit and what
   flowed in meanwhile, however long nobody asked before it.               *)
BurstIsBounded ==
    \A s, t \in 0..tick : s <= t =>
        Half * (spent[t + 1] - spent[s]) <= Half * Limit + (t - s) * Refill

(* A caller that was refused and comes back when it was told to is served,
   if nobody else consumed meanwhile and it asks for no more than the limit. *)
WaitIsEnough ==
    (promise.n \in 1..Limit /\ tick >= promise.at) => Refilled \div Half >= promise.n
=============================================================================
