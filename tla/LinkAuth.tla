------------------------------ MODULE LinkAuth ------------------------------
(***************************************************************************)
(* Ownership, passwords and sessions of one workspace                      *)
(* (crates/actant-server/src/auth_routes.rs and crates/actant-auth):       *)
(* mint_link_code_for at boot, POST /v1/auth/link, password, login, logout *)
(* and the resolution of a principal.  The claim is one transaction whose  *)
(* first statement writes, so that it is one step; everything else is a    *)
(* statement at a time.  Hashes are injective; time only expires rows.     *)
(***************************************************************************)
EXTENDS Naturals, FiniteSets

CONSTANTS
    Boots,        \* server processes that mint a code
    Browsers,     \* clients
    Passwords,    \* plaintexts of acceptable length
    MaxCodes,     \* bound on codes generated
    MaxTokens     \* bound on session tokens generated

VARIABLES
    owner,        \* workspace_owner: there or not, and password_hash
    code,         \* link_code rows: "absent", "open", "claimed" or "deleted"
    staleCodes,   \* codes past expires_at
    token,        \* session_token rows: "absent", "live", "revoked" or "expired"
    opened,       \* history: per token, how it was opened
    everSet,      \* history: passwords the owner ever had
    boot,         \* per process: next statement, its code, and the outcome
    browser,      \* per client: next statement and arguments
    lastMint      \* history: outcome of the mint that ended last

vars == <<owner, code, staleCodes, token, opened, everSet, boot, browser, lastMint>>

Codes == 1..MaxCodes
Tokens == 1..MaxTokens
Unset == "unset"
NoOwner == [set |-> FALSE, password |-> Unset]
Client(pc, k, t, p) == [pc |-> pc, code |-> k, token |-> t, password |-> p]
Reading == Client("idle", 0, 0, Unset)

Init ==
    /\ owner = NoOwner
    /\ code = [k \in Codes |-> "absent"]
    /\ staleCodes = {}
    /\ token = [t \in Tokens |-> "absent"]
    /\ opened = [t \in Tokens |-> [how |-> "none", password |-> Unset]]
    /\ everSet = {}
    /\ boot = [b \in Boots |-> [pc |-> "idle", code |-> 0]]
    /\ browser = [c \in Browsers |-> Reading]
    /\ lastMint = "none"

\* The handler answers; what it says is not state.
Answers(c) == browser' = [browser EXCEPT ![c] = Reading]
Fresh(row) == {k \in DOMAIN row : row[k] = "absent" /\ \A j \in DOMAIN row : row[j] = "absent" => k <= j}

-----------------------------------------------------------------------------
(* mint_link_code_for: owner?, DELETE the unclaimed codes, INSERT one.     *)

MintChecks(b) ==
    /\ boot[b].pc = "idle"
    /\ boot' = [boot EXCEPT ![b].pc = IF owner.set THEN "done" ELSE "delete"]
    /\ UNCHANGED <<owner, code, staleCodes, token, opened, everSet, browser, lastMint>>

DeleteUnclaimed(b) ==
    /\ boot[b].pc = "delete"
    /\ code' = [k \in Codes |-> IF code[k] = "open" THEN "deleted" ELSE code[k]]
    /\ boot' = [boot EXCEPT ![b].pc = "insert"]
    /\ UNCHANGED <<owner, staleCodes, token, opened, everSet, browser, lastMint>>

\* Fault: the old codes are deleted once the new one is in.
SweepsLast(b) ==
    /\ boot[b].pc = "insert"
    /\ \E k \in Fresh(code) :
          /\ code' = [j \in Codes |-> IF j = k \/ code[j] = "open" THEN "deleted" ELSE code[j]]
          /\ boot' = [boot EXCEPT ![b] = [pc |-> "done", code |-> k]]
    /\ lastMint' = "ok"
    /\ UNCHANGED <<owner, staleCodes, token, opened, everSet, browser>>

InsertCode(b) ==
    /\ boot[b].pc = "insert"
    /\ \/ /\ \E k \in Fresh(code) :
                /\ code' = [code EXCEPT ![k] = "open"]
                /\ boot' = [boot EXCEPT ![b] = [pc |-> "done", code |-> k]]
          /\ lastMint' = "ok"
       \/ /\ boot' = [boot EXCEPT ![b].pc = "done"]
          /\ lastMint' = "error"
          /\ UNCHANGED code
    /\ UNCHANGED <<owner, staleCodes, token, opened, everSet, browser>>

-----------------------------------------------------------------------------
(* POST /v1/auth/link.  A code is typed as displayed, dashed or not.       *)

\* Past the rate limit and validate_shape, with a row that is neither missing,
\* claimed nor past its time; every other answer changes nothing.
CheckCode(c, k) ==
    /\ browser[c].pc = "idle" /\ code[k] = "open" /\ k \notin staleCodes
    /\ browser' = [browser EXCEPT ![c] = Client("claim", k, 0, Unset)]
    /\ UNCHANGED <<owner, code, staleCodes, token, opened, everSet, boot, lastMint>>

Open(t, how, password) ==
    /\ token' = [token EXCEPT ![t] = "live"]
    /\ opened' = [opened EXCEPT ![t] = [how |-> how, password |-> password]]

\* Fault: INSERT OR IGNORE is not asked whether it inserted.
IgnoresRace(c) ==
    /\ browser[c].pc = "claim"
    /\ \E t \in Fresh(token) :
          IF code[browser[c].code] = "open"
          THEN /\ owner' = IF owner.set THEN owner ELSE [set |-> TRUE, password |-> Unset]
               /\ code' = [code EXCEPT ![browser[c].code] = "claimed"]
               /\ Open(t, "link", Unset) /\ Answers(c)
          ELSE Answers(c) /\ UNCHANGED <<owner, code, token, opened>>
    /\ UNCHANGED <<staleCodes, everSet, boot, lastMint>>

\* The transaction.  No row inserted (owned already), no row updated (claimed or
\* replaced meanwhile) and any error roll it back whole.
Claim(c) ==
    /\ browser[c].pc = "claim"
    /\ \/ /\ ~owner.set /\ code[browser[c].code] = "open"
          /\ owner' = [set |-> TRUE, password |-> Unset]
          /\ code' = [code EXCEPT ![browser[c].code] = "claimed"]
          /\ \E t \in Fresh(token) : Open(t, "link", Unset)
       \/ UNCHANGED <<owner, code, token, opened>>
    /\ Answers(c)
    /\ UNCHANGED <<staleCodes, everSet, boot, lastMint>>

-----------------------------------------------------------------------------
(* Principals: a bearer token of the owner is checked by its signature, a  *)
(* cookie by its row.                                                      *)

Bearer == 0
Resolves(t) == IF t = Bearer THEN TRUE ELSE token[t] = "live"

\* POST /v1/auth/password: resolve, hash, then UPDATE the owner row.
BeginPassword(c, t, p) ==
    /\ browser[c].pc = "idle" /\ Resolves(t)
    /\ browser' = [browser EXCEPT ![c] = Client("password", 0, t, p)]
    /\ UNCHANGED <<owner, code, staleCodes, token, opened, everSet, boot, lastMint>>

SetPassword(c) ==
    /\ browser[c].pc = "password"
    /\ IF owner.set
       THEN /\ owner' = [owner EXCEPT !.password = browser[c].password]
            /\ everSet' = everSet \cup {browser[c].password}
            /\ Answers(c)
       ELSE Answers(c) /\ UNCHANGED <<owner, everSet>>
    /\ UNCHANGED <<code, staleCodes, token, opened, boot, lastMint>>

-----------------------------------------------------------------------------
(* POST /v1/auth/login: the hash is read and verified, the row inserted in *)
(* a later statement.  A streak of failures only delays the answer.        *)

\* Fault: an owner without a password lets anyone in.
AcceptsUnset(p) == owner.set /\ owner.password \in {p, Unset}

VerifyPassword(p) == owner.set /\ owner.password = p

Login(c, p) ==
    /\ browser[c].pc = "idle" /\ VerifyPassword(p)
    /\ browser' = [browser EXCEPT ![c] = Client("mint", 0, 0, p)]
    /\ UNCHANGED <<owner, code, staleCodes, token, opened, everSet, boot, lastMint>>

MintSession(c) ==
    /\ browser[c].pc = "mint"
    /\ \/ (\E t \in Fresh(token) : Open(t, "login", browser[c].password)) /\ Answers(c)
       \/ Answers(c) /\ UNCHANGED <<token, opened>>
    /\ UNCHANGED <<owner, code, staleCodes, everSet, boot, lastMint>>

Logout(t) ==
    /\ token[t] = "live"
    /\ token' = [token EXCEPT ![t] = "revoked"]
    /\ UNCHANGED <<owner, code, staleCodes, opened, everSet, boot, browser, lastMint>>

-----------------------------------------------------------------------------
ExpireCode(k) ==
    /\ code[k] = "open" /\ k \notin staleCodes
    /\ staleCodes' = staleCodes \cup {k}
    /\ UNCHANGED <<owner, code, token, opened, everSet, boot, browser, lastMint>>

ExpireToken(t) ==
    /\ token[t] = "live"
    /\ token' = [token EXCEPT ![t] = "expired"]
    /\ UNCHANGED <<owner, code, staleCodes, opened, everSet, boot, browser, lastMint>>

Next ==
    \/ \E b \in Boots : MintChecks(b) \/ DeleteUnclaimed(b) \/ InsertCode(b)
    \/ \E c \in Browsers : Claim(c) \/ SetPassword(c) \/ MintSession(c)
    \/ \E c \in Browsers, k \in Codes : CheckCode(c, k)
    \/ \E c \in Browsers, t \in Tokens \cup {Bearer}, p \in Passwords : BeginPassword(c, t, p)
    \/ \E c \in Browsers, p \in Passwords : Login(c, p)
    \/ \E t \in Tokens : Logout(t) \/ ExpireToken(t)
    \/ \E k \in Codes : ExpireCode(k)

Spec == Init /\ [][Next]_vars

-----------------------------------------------------------------------------
TypeOK ==
    /\ owner.password \in Passwords \cup {Unset}
    /\ \A k \in Codes : code[k] \in {"absent", "open", "claimed", "deleted"}
    /\ \A t \in Tokens : token[t] \in {"absent", "live", "revoked", "expired"}
    /\ \A c \in Browsers : browser[c].pc \in {"idle", "claim", "password", "mint"}

(* A workspace is claimed once, by one code, whatever codes are outstanding:
   redemptions race each other, and a boot that looked before the claim may
   leave another open code behind it.                                      *)
ClaimedOnce ==
    /\ Cardinality({k \in Codes : code[k] = "claimed"}) = IF owner.set THEN 1 ELSE 0
    /\ Cardinality({t \in Tokens : opened[t].how = "link"}) = IF owner.set THEN 1 ELSE 0

(* As long as nobody owns the workspace, a boot that ended well leaves a code
   in the table that can claim it, even when two boots mint at once: each
   deletes the other's code before it inserts its own.                     *)
UnownedHasCode ==
    (~owner.set /\ lastMint = "ok" /\ \A b \in Boots : boot[b].pc # "insert")
        => \E k \in Codes : code[k] = "open"

(* A session comes from the claim or from a password the owner had set: an
   owner row without a password opens nothing, and a rotation during a slow
   verification leaves at most a session of the password before.           *)
SessionsHaveGrounds ==
    \A t \in Tokens : token[t] # "absent" =>
        opened[t].how = "link" \/ opened[t].password \in everSet
=============================================================================
