------------------------------- MODULE Watch -------------------------------
(***************************************************************************)
(* actantdb watch (crates/actant-cli/src/cmd/watch.rs): the expression is  *)
(* parsed by recursive descent (crates/actant-cli/src/predicate_parse.rs)  *)
(* and every event above the cursor is put to the predicate it stands for  *)
(* (crates/actant-subscribe/src/predicate.rs).  The tokens of a comparison *)
(* are one lexeme here; a query is the tree its author means, written with *)
(* as few parentheses as AND before OR allows.                             *)
(***************************************************************************)
EXTENDS Integers, Sequences, FiniteSets, FiniteSetsExt

CONSTANTS
    Leaves,     \* comparisons a query is made of: field op literal
    Payloads,   \* payloads of events: value of the one field
    Depth,      \* bound on the nesting of queries that are parsed
    Ids,        \* ids of events
    PageSize    \* limit of a poll

VARIABLES
    query,      \* the tree its author means
    predicate,  \* what parse made of it
    events,     \* id -> payload, of the events inserted
    cursor,     \* last_id
    printed,    \* ids printed
    overtaken   \* history: ids inserted below the cursor

vars == <<query, predicate, events, cursor, printed, overtaken>>

Leaf(l) == [op |-> "leaf", leaf |-> l, args |-> <<>>]
Node(op, args) == [op |-> op, leaf |-> "none", args |-> args]

RECURSIVE Trees(_)
Trees(d) ==
    IF d = 0 THEN {Leaf(l) : l \in DOMAIN Leaves}
    ELSE LET sub == Trees(d - 1) IN
         sub \cup {Node("not", <<t>>) : t \in sub}
             \cup {Node(op, <<t, u>>) : op \in {"and", "or"}, t \in sub, u \in sub}

-----------------------------------------------------------------------------
(* How a query is written: a level is 1 for or, 2 for and, 3 for not.      *)

RECURSIVE Written(_, _)
Written(t, level) ==
    LET Enclosed(toks, own) == IF own < level THEN <<"(">> \o toks \o <<")">> ELSE toks IN
    CASE t.op = "leaf" -> <<t.leaf>>
      [] t.op = "not" -> <<"NOT">> \o Written(t.args[1], 3)
      [] t.op = "and" -> Enclosed(Written(t.args[1], 2) \o <<"AND">> \o Written(t.args[2], 3), 2)
      [] t.op = "or" -> Enclosed(Written(t.args[1], 1) \o <<"OR">> \o Written(t.args[2], 2), 1)

-----------------------------------------------------------------------------
(* The parser: each operator gives the tree and the position after it.     *)

Failed == [pred |-> Leaf("none"), pos |-> 0]
Peek(toks, pos) == IF pos <= Len(toks) THEN toks[pos] ELSE "end"

\* A chain of one operator becomes one node with all operands.
Joined(op, left, right) ==
    IF left.op = op THEN Node(op, Append(left.args, right)) ELSE Node(op, <<left, right>>)

RECURSIVE ParseOr(_, _)
RECURSIVE OrTail(_, _)
RECURSIVE ParseAnd(_, _)
RECURSIVE AndTail(_, _)
RECURSIVE ParseNot(_, _)
RECURSIVE ParseAtom(_, _)

ParseAtom(toks, pos) ==
    CASE Peek(toks, pos) = "(" ->
           LET inner == ParseOr(toks, pos + 1) IN
           IF inner # Failed /\ Peek(toks, inner.pos) = ")" THEN [inner EXCEPT !.pos = @ + 1] ELSE Failed
      [] Peek(toks, pos) \in DOMAIN Leaves -> [pred |-> Leaf(toks[pos]), pos |-> pos + 1]
      [] OTHER -> Failed

\* Fault: NOT takes the rest of the conjunction.
NotTakesAll(toks, pos) ==
    IF Peek(toks, pos) # "NOT" THEN ParseAtom(toks, pos)
    ELSE LET inner == ParseAnd(toks, pos + 1) IN
         IF inner = Failed THEN Failed ELSE [inner EXCEPT !.pred = Node("not", <<inner.pred>>)]

ParseNot(toks, pos) ==
    IF Peek(toks, pos) # "NOT" THEN ParseAtom(toks, pos)
    ELSE LET inner == ParseNot(toks, pos + 1) IN
         IF inner = Failed THEN Failed ELSE [inner EXCEPT !.pred = Node("not", <<inner.pred>>)]

AndTail(toks, left) ==
    IF left = Failed \/ Peek(toks, left.pos) # "AND" THEN left
    ELSE LET right == ParseNot(toks, left.pos + 1) IN
         IF right = Failed THEN Failed
         ELSE AndTail(toks, [pred |-> Joined("and", left.pred, right.pred), pos |-> right.pos])

ParseAnd(toks, pos) == AndTail(toks, ParseNot(toks, pos))

OrTail(toks, left) ==
    IF left = Failed \/ Peek(toks, left.pos) # "OR" THEN left
    ELSE LET right == ParseAnd(toks, left.pos + 1) IN
         IF right = Failed THEN Failed
         ELSE OrTail(toks, [pred |-> Joined("or", left.pred, right.pred), pos |-> right.pos])

ParseOr(toks, pos) == OrTail(toks, ParseAnd(toks, pos))

\* Tokens left over are an error.
Parse(toks) ==
    LET all == ParseOr(toks, 1) IN
    IF all # Failed /\ all.pos = Len(toks) + 1 THEN all ELSE Failed

-----------------------------------------------------------------------------
(* Predicate::evaluate.  A JSON number is an integer or a float; the parser *)
(* makes floats only.  == compares kind and value, the others values.      *)

SameOrder(a, b) ==
    \/ a.kind \in {"int", "float"} /\ b.kind \in {"int", "float"}
    \/ a.kind = b.kind

\* Fault: >= forgets the equal case.
StrictlyAbove(op, value, lit) ==
    CASE op = "==" -> value.kind # "missing" /\ value = lit
      [] op = "!=" -> value.kind = "missing" \/ value # lit
      [] op = "<" -> SameOrder(value, lit) /\ value.of < lit.of
      [] op = "<=" -> SameOrder(value, lit) /\ value.of <= lit.of
      [] op \in {">", ">="} -> SameOrder(value, lit) /\ value.of > lit.of
      [] op = "exists" -> value.kind # "missing"

Compares(op, value, lit) ==
    CASE op = "==" -> value.kind # "missing" /\ value = lit
      [] op = "!=" -> value.kind = "missing" \/ value # lit
      [] op = "<" -> SameOrder(value, lit) /\ value.of < lit.of
      [] op = "<=" -> SameOrder(value, lit) /\ value.of <= lit.of
      [] op = ">" -> SameOrder(value, lit) /\ value.of > lit.of
      [] op = ">=" -> SameOrder(value, lit) /\ value.of >= lit.of
      [] op = "exists" -> value.kind # "missing"

Literal(l) == IF l.kind = "int" THEN [l EXCEPT !.kind = "float"] ELSE l

RECURSIVE Evaluate(_, _)
Evaluate(p, value) ==
    CASE p.op = "leaf" -> Compares(Leaves[p.leaf].op, value, Literal(Leaves[p.leaf].lit))
      [] p.op = "not" -> ~Evaluate(p.args[1], value)
      [] p.op = "and" -> \A n \in DOMAIN p.args : Evaluate(p.args[n], value)
      [] p.op = "or" -> \E n \in DOMAIN p.args : Evaluate(p.args[n], value)

-----------------------------------------------------------------------------
Init ==
    /\ query \in Trees(Depth)
    /\ predicate = Parse(Written(query, 1)).pred
    /\ events = <<>> /\ cursor = 0 /\ printed = {} /\ overtaken = {}

\* Events come only to the shallow queries: the others are for the parser.
Insert(id, payload) ==
    /\ query \in Trees(1) /\ id \notin DOMAIN events
    /\ events' = [i \in DOMAIN events \cup {id} |-> IF i = id THEN payload ELSE events[i]]
    /\ overtaken' = IF id < cursor THEN overtaken \cup {id} ELSE overtaken
    /\ UNCHANGED <<query, predicate, cursor, printed>>

\* Fault: only an event that was printed moves the cursor.
MovesIfPrinted(rows, shown) == IF shown = {} THEN cursor ELSE Max(shown)

\* Fault: the cursor goes to the newest event there is.
JumpsAhead(rows, shown) == IF rows = {} THEN cursor ELSE Max(DOMAIN events)

Advanced(rows, shown) == IF rows = {} THEN cursor ELSE Max(rows)

Poll ==
    /\ query \in Trees(1)
    /\ LET above == {i \in DOMAIN events : i > cursor}
           rows == {i \in above : Cardinality({j \in above : j < i}) < PageSize}
           shown == {i \in rows : Evaluate(predicate, events[i])}
       IN /\ cursor' = Advanced(rows, shown)
          /\ printed' = printed \cup shown
    /\ UNCHANGED <<query, predicate, events, overtaken>>

Next == Poll \/ \E id \in Ids, payload \in Payloads : Insert(id, payload)

Spec == Init /\ [][Next]_vars /\ WF_vars(Poll)

-----------------------------------------------------------------------------
(* parse takes every well-written query, and what it makes of it agrees with
   what its author means on every payload: OR binds loosest, NOT tightest,
   and parentheses group.                                                  *)
ParsesAsMeant ==
    /\ Parse(Written(query, 1)) # Failed
    /\ \A value \in Payloads : Evaluate(predicate, value) = Evaluate(query, value)

(* For a field that is there, != is the negation of ==, <= and >= are the
   negations of > and <, and equal is neither smaller nor greater.  The one
   gap: == is never true of an integer, since the parser's numbers are floats. *)
ComparatorsAgree ==
    \A i \in DOMAIN events, l \in DOMAIN Leaves :
        LET value == events[i]
            lit == Literal(Leaves[l].lit)
            Is(op) == Compares(op, value, lit) IN
        value.kind # "missing" =>
            /\ Is("!=") <=> ~Is("==")
            /\ SameOrder(value, lit) =>
                  /\ Is("<=") <=> ~Is(">")
                  /\ Is(">=") <=> ~Is("<")
                  /\ (Is("<=") /\ Is(">=")) <=> (Is("==") \/ (value.kind = "int" /\ value.of = lit.of))

(* What is printed is what matches the author's query, of all events up to the
   cursor but those inserted below it.                                     *)
PrintsMatches ==
    /\ \A i \in printed : Evaluate(query, events[i])
    /\ \A i \in DOMAIN events : i <= cursor /\ Evaluate(query, events[i]) => i \in printed \cup overtaken

(* A matching event above the cursor is printed in the end, though no event
   before it matches.                                                      *)
MatchIsPrinted ==
    \A i \in Ids : (i \in DOMAIN events /\ i > cursor /\ Evaluate(query, events[i])) ~> i \in printed
=============================================================================
