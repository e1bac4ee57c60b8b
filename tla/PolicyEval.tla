----------------------------- MODULE PolicyEval -----------------------------
(***************************************************************************)
(* Guard's evaluator (crates/actant-policy/src/lib.rs): evaluate goes      *)
(* through the deny rules, the sensitivity ceiling, the tool's entry, the  *)
(* shell default and the risk class, and may offer a narrowed shell        *)
(* command, which the agent can send back.  Operators tighten the policy   *)
(* between calls.  An argument string is the sequence of its path tokens.  *)
(***************************************************************************)
EXTENDS Integers, Sequences, FiniteSets

CONSTANTS
    Tokens,       \* paths a command may name
    Dangerous,    \* "/", dist and home paths: what suggest_constrain drops
    Rules,        \* deny rules: tool or "*", tokens its pattern matches, compiles or not
    MaxTokens,    \* bound on the length of a command
    MaxRules      \* bound on deny rules

VARIABLES
    policy,       \* deny rules, ceiling (0..2, 3 for none), tools that need approval
    input,        \* tool, tokens, sensitivity, critical risk
    offered       \* history: commands offered since the call was first made

policyVars == <<policy, input, offered>>

Tools == {"shell.run", "file.write"}
Inputs == [tool : Tools, tokens : UNION {[1..n -> Tokens] : n \in 1..MaxTokens},
           sensitivity : {0, 2}, critical : BOOLEAN]

\* The tokens a command names.
Named(tokens) == {tokens[n] : n \in DOMAIN tokens}

-----------------------------------------------------------------------------
\* Fault: a rule without a valid pattern ends the search.
StopsAtBad(rule, in) ==
    /\ rule.tool \in {"*", in.tool} /\ rule.compiles
    /\ rule.matches \cap Named(in.tokens) # {}
    /\ \A n \in DOMAIN policy.deny : policy.deny[n].compiles

\* A pattern that does not compile is passed over.
Matches(rule, in) ==
    /\ rule.tool \in {"*", in.tool} /\ rule.compiles
    /\ rule.matches \cap Named(in.tokens) # {}

\* Fault: the last token goes, dangerous or not.
DropsLast(tokens) ==
    IF Len(tokens) < 2 THEN tokens ELSE SubSeq(tokens, 1, Len(tokens) - 1)

\* The first dangerous token goes, wherever it stands; others stay.
Remaining(tokens) ==
    LET first == CHOOSE n \in DOMAIN tokens : tokens[n] \in Dangerous
                        /\ \A m \in 1..(n - 1) : tokens[m] \notin Dangerous
        kept == {n \in DOMAIN tokens : tokens[n] # tokens[first]}
    IN  [i \in 1..Cardinality(kept) |->
            tokens[CHOOSE n \in kept : Cardinality({m \in kept : m < n}) = i - 1]]

\* The narrowed command, or the empty sequence for no suggestion.
SuggestConstrain(in) ==
    IF in.tool # "shell.run" \/ Len(in.tokens) < 2 \/ Named(in.tokens) \cap Dangerous = {}
    THEN <<>> ELSE Remaining(in.tokens)

Verdict(kind, constrained) == [kind |-> kind, constrained |-> constrained]
RequireApproval == Verdict("require_approval", <<>>)

\* Fault: the ceiling is looked at first.
CeilingFirst(pol, in) ==
    CASE in.sensitivity > pol.ceiling -> RequireApproval
      [] \E n \in DOMAIN pol.deny : Matches(pol.deny[n], in) ->
           IF SuggestConstrain(in) # <<>> THEN Verdict("require_approval", SuggestConstrain(in))
           ELSE Verdict("block", <<>>)
      [] OTHER -> IF in.tool \in pol.approve \cup {"shell.run"} \/ in.critical THEN RequireApproval
                  ELSE Verdict("allow", <<>>)

Evaluate(pol, in) ==
    IF \E n \in DOMAIN pol.deny : Matches(pol.deny[n], in)
    THEN IF SuggestConstrain(in) # <<>> THEN Verdict("require_approval", SuggestConstrain(in))
         ELSE Verdict("block", <<>>)
    ELSE IF in.sensitivity > pol.ceiling \/ in.tool \in pol.approve THEN RequireApproval
    ELSE IF in.tool = "shell.run" THEN Verdict("require_approval", SuggestConstrain(in))
    ELSE IF in.critical THEN RequireApproval
    ELSE Verdict("allow", <<>>)

Severity == [allow |-> 0, require_approval |-> 1, block |-> 2]

-----------------------------------------------------------------------------
\* PolicyDoc::default.
EmptyPolicy == [deny |-> <<>>, ceiling |-> 3, approve |-> {}]

PolicyInit ==
    /\ policy = EmptyPolicy
    /\ input \in Inputs
    /\ offered = <<>>

\* Deny rules are put in at any place: their order must not matter.
AddRule(rule, at) ==
    /\ Len(policy.deny) < MaxRules /\ at \in 1..(Len(policy.deny) + 1)
    /\ LET old == policy.deny IN
       policy' = [policy EXCEPT !.deny = [n \in 1..(Len(old) + 1) |->
          IF n < at THEN old[n] ELSE IF n = at THEN rule ELSE old[n - 1]]]
    /\ UNCHANGED <<input, offered>>

LowerCeiling ==
    /\ policy.ceiling > 0
    /\ policy' = [policy EXCEPT !.ceiling = @ - 1]
    /\ UNCHANGED <<input, offered>>

NeedApproval(tool) ==
    /\ tool \notin policy.approve
    /\ policy' = [policy EXCEPT !.approve = @ \cup {tool}]
    /\ UNCHANGED <<input, offered>>

\* The agent sends the narrowed command.
Resubmit ==
    /\ Evaluate(policy, input).constrained # <<>>
    /\ input' = [input EXCEPT !.tokens = Evaluate(policy, input).constrained]
    /\ offered' = Append(offered, input.tokens)
    /\ UNCHANGED policy

PolicyNext ==
    \/ LowerCeiling \/ Resubmit
    \/ \E tool \in Tools : NeedApproval(tool)
    \/ \E rule \in Rules, at \in 1..(MaxRules + 1) : AddRule(rule, at)

PolicySpec == PolicyInit /\ [][PolicyNext]_policyVars

-----------------------------------------------------------------------------
(* Tightening the policy never loosens a verdict: a rule more, a lower ceiling
   or a tool put under approval leaves a blocked call blocked and a call that
   needs approval short of allowed, wherever the rule is put.              *)
TighterIsStricter ==
    [][UNCHANGED input =>
        Severity[Evaluate(policy', input).kind] >= Severity[Evaluate(policy, input).kind]]_policyVars

(* What a suggestion drops is dangerous and stays dropped, and it leaves
   something to run; so suggestions come to an end, each of them shorter.  *)
SuggestionsNarrow ==
    \A n \in DOMAIN offered :
        LET after == IF n = Len(offered) THEN input.tokens ELSE offered[n + 1] IN
        /\ after # <<>> /\ Len(after) < Len(offered[n])
        /\ Cardinality(Named(offered[n]) \ Named(after)) = 1
        /\ Named(offered[n]) \ Named(after) \subseteq Dangerous

(* Shell commands and critical tools never run without an approval, and no
   command that a deny rule matches does.                                  *)
RiskNeedsApproval ==
    Evaluate(policy, input).kind = "allow" =>
        /\ input.tool # "shell.run" /\ ~input.critical
        /\ \A n \in DOMAIN policy.deny :
              policy.deny[n].tool \in {"*", input.tool} /\ policy.deny[n].compiles =>
                 policy.deny[n].matches \cap Named(input.tokens) = {}
=============================================================================
