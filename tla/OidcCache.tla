----------------------------- MODULE OidcCache ------------------------------
(***************************************************************************)
(* OidcResolver::ensure and verify_rs256 (crates/actant-auth/src/oidc.rs): *)
(* a cache of an issuer's key set behind a read-write lock, filled by      *)
(* tasks that fetch outside the lock.  The issuer rotates its keys; a key  *)
(* set is the number of the rotation that published it.                    *)
(***************************************************************************)
EXTENDS Naturals

CONSTANTS
    Tasks,        \* concurrent verifications
    Issuers,
    Ttl,          \* OidcResolver.ttl, in ticks
    MaxTime,      \* bound on the clock
    MaxKeys       \* bound on rotations

VARIABLES
    time,
    published,    \* [Issuers -> the key set the provider serves]
    replacedAt,   \* history: when each key set was replaced, or Never
    cache,        \* entries of the Vec<CachedIssuer>
    task          \* per task: next step, issuer, fetched key set, answer

vars == <<time, published, replacedAt, cache, task>>

Never == MaxTime + 1
Idle == [pc |-> "idle", issuer |-> CHOOSE i \in Issuers : TRUE, keys |-> 0, fetched |-> 0, entry |-> 0]

Init ==
    /\ time = 0
    /\ published = [i \in Issuers |-> 1]
    /\ replacedAt = [i \in Issuers |-> [k \in 1..MaxKeys |-> Never]]
    /\ cache = {}
    /\ task = [t \in Tasks |-> Idle]

Entries(i) == {c \in cache : c.issuer = i}

-----------------------------------------------------------------------------
\* Fault: an entry is used whatever its age.
NeverExpires(c) == TRUE

IsFresh(c) == time - c.at < Ttl

\* The read lock: find takes an entry of the issuer, which serves if fresh.
FastPath(t, i) ==
    /\ task[t].pc = "idle"
    /\ \/ \E c \in Entries(i) :
             /\ IsFresh(c)
             /\ task' = [task EXCEPT ![t] = [pc |-> "verify", issuer |-> i, keys |-> c.keys,
                                             fetched |-> c.fetched, entry |-> c.at]]
       \/ /\ Entries(i) = {} \/ \E c \in Entries(i) : ~IsFresh(c)
          /\ task' = [task EXCEPT ![t] = [pc |-> "discover", issuer |-> i, keys |-> 0,
                                          fetched |-> 0, entry |-> 0]]
    /\ UNCHANGED <<time, published, replacedAt, cache>>

Discover(t) ==
    /\ task[t].pc = "discover"
    /\ \/ task' = [task EXCEPT ![t].pc = "jwks"]
       \/ task' = [task EXCEPT ![t] = Idle]
    /\ UNCHANGED <<time, published, replacedAt, cache>>

FetchJwks(t) ==
    /\ task[t].pc = "jwks"
    /\ \/ task' = [task EXCEPT ![t].pc = "store", ![t].keys = published[task[t].issuer],
                               ![t].fetched = time]
       \/ task' = [task EXCEPT ![t] = Idle]
    /\ UNCHANGED <<time, published, replacedAt, cache>>

\* The new entry; fetched_at is the time of the push.
Fetched(t) == [issuer |-> task[t].issuer, keys |-> task[t].keys, at |-> time,
               fetched |-> task[t].fetched]

\* Fault: the entry is pushed beside the old one.
PushesOnly(t) ==
    /\ task[t].pc = "store"
    /\ cache' = cache \cup {Fetched(t)}
    /\ task' = [task EXCEPT ![t].pc = "verify", ![t].entry = time]
    /\ UNCHANGED <<time, published, replacedAt>>

\* The write lock: retain the other issuers' entries, push.
StoreEntry(t) ==
    /\ task[t].pc = "store"
    /\ cache' = (cache \ Entries(task[t].issuer)) \cup {Fetched(t)}
    /\ task' = [task EXCEPT ![t].pc = "verify", ![t].entry = time]
    /\ UNCHANGED <<time, published, replacedAt>>

\* verify_rs256: accepted if the token's kid is in the set, refused otherwise.
VerifyRs256(t) ==
    /\ task[t].pc = "verify"
    /\ task' = [task EXCEPT ![t] = Idle]
    /\ UNCHANGED <<time, published, replacedAt, cache>>

Rotate(i) ==
    /\ published[i] < MaxKeys
    /\ replacedAt' = [replacedAt EXCEPT ![i][published[i]] = time]
    /\ published' = [published EXCEPT ![i] = @ + 1]
    /\ UNCHANGED <<time, cache, task>>

\* Verification itself takes no time.
Tick ==
    /\ time < MaxTime
    /\ \A t \in Tasks : task[t].pc # "verify"
    /\ time' = time + 1
    /\ UNCHANGED <<published, replacedAt, cache, task>>

Next ==
    \/ \E t \in Tasks, i \in Issuers : FastPath(t, i)
    \/ \E t \in Tasks : Discover(t) \/ FetchJwks(t) \/ StoreEntry(t) \/ VerifyRs256(t)
    \/ \E i \in Issuers : Rotate(i)
    \/ Tick

Spec == Init /\ [][Next]_vars

-----------------------------------------------------------------------------
TypeOK ==
    /\ published \in [Issuers -> 1..MaxKeys]
    /\ \A c \in cache : c.issuer \in Issuers /\ c.at \in 0..MaxTime

(* The cache holds one entry per issuer however many tasks fetch it at     *)
(* once, so the entry find() meets is the one stored last.                 *)
OneEntryPerIssuer == \A c, d \in cache : c.issuer = d.issuer => c = d

(* A token is never judged by a key set that was replaced longer ago than  *)
(* the ttl plus the time the fetch that brought it took: late writers may  *)
(* put an old set back, and no later than that is it gone.                 *)
KeysAreNotOld ==
    \A t \in Tasks :
        task[t].pc = "verify" =>
            time <= replacedAt[task[t].issuer][task[t].keys] + Ttl + (task[t].entry - task[t].fetched)
=============================================================================
