------------------------------- MODULE Lease --------------------------------
(***************************************************************************)
(* What a lease promises, apart from how rows implement it: a thing is     *)
(* granted to one user until a time.  The grant ends when its own user     *)
(* gives it back, or when the second in which it runs out has begun; a user*)
(* who comes back late, or never, changes nothing for the next one.        *)
(***************************************************************************)
EXTENDS Naturals

CONSTANTS
    Things,       \* what can be held
    Users,        \* who can hold it, one thing at a time
    TicksPerSecond,
    MaxTicket,    \* bound on the numbers of grants
    MaxTime       \* bound on the ends of grants

VARIABLES
    time,
    grant,        \* per thing: its grant, or Free
    ticket        \* per user: the grant it was given, or NoTicket

vars == <<time, grant, ticket>>

Second(t) == t \div TicksPerSecond
Free == [user |-> "nobody", number |-> 0, until |-> 0]
NoTicket == [thing |-> "none", number |-> 0]

Init ==
    /\ time = 0
    /\ grant = [x \in Things |-> Free]
    /\ ticket = [u \in Users |-> NoTicket]

Pass == time' = time + 1 /\ UNCHANGED <<grant, ticket>>

Give(x, u, number, until) ==
    /\ grant[x] = Free /\ ticket[u] = NoTicket
    /\ \A y \in Things : grant[y].number < number
    /\ grant' = [grant EXCEPT ![x] = [user |-> u, number |-> number, until |-> until]]
    /\ ticket' = [ticket EXCEPT ![u] = [thing |-> x, number |-> number]]
    /\ UNCHANGED time

\* Grants fall back when their second has come, any number at a time.
Lapse(X) ==
    /\ \A x \in X : Second(grant[x].until) <= Second(time)
    /\ grant' = [x \in Things |-> IF x \in X THEN Free ELSE grant[x]]
    /\ UNCHANGED <<time, ticket>>

\* The user's own grant and no other, if it is still there.
Return(u) ==
    /\ ticket[u] # NoTicket
    /\ grant' = [x \in Things |-> IF grant[x].number = ticket[u].number THEN Free ELSE grant[x]]
    /\ ticket' = [ticket EXCEPT ![u] = NoTicket]
    /\ UNCHANGED time

Forget(u) ==
    /\ ticket' = [ticket EXCEPT ![u] = NoTicket]
    /\ UNCHANGED <<time, grant>>

Next ==
    \/ Pass
    \/ \E u \in Users : Return(u) \/ Forget(u)
    \/ \E X \in SUBSET Things : Lapse(X)
    \/ \E x \in Things, u \in Users, number \in 1..MaxTicket, until \in 0..MaxTime :
          Give(x, u, number, until)

Spec == Init /\ [][Next]_vars
=============================================================================
