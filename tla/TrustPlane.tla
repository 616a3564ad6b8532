----------------------------- MODULE TrustPlane -----------------------------
(***************************************************************************)
(* TrustPlane of src/starcom/trust.py: policy rules, grants, and the       *)
(* immutable decisions that authorize() records.                           *)
(*                                                                         *)
(* A pattern (fnmatch text, conditions, mission scope) is represented by   *)
(* the set of requests it matches.  Timestamps are the caller's: authorize *)
(* compares expires_at with the now it is given.                           *)
(***************************************************************************)
EXTENDS Integers, Sequences

CONSTANTS Requests,     \* the AuthorizationRequests that subjects make
          Rules,        \* the policy rules an administrator may add
          Grants,       \* the grants an administrator may issue
          Times,        \* the timestamps callers pass to authorize
          MaxDecisions  \* bound: authorize is called this often at most

NoGrant == [id |-> "", scope |-> {}, expires |-> 0, single_use |-> FALSE]

ASSUME TrustAssumption ==
    /\ Rules \subseteq [effect : {"ALLOW", "DENY"}, scope : SUBSET Requests]
    /\ Grants \subseteq [id : STRING, scope : SUBSET Requests, expires : Nat,
                         single_use : BOOLEAN]
    /\ NoGrant \notin Grants
    /\ Times \subseteq Nat
    /\ MaxDecisions \in Nat

VARIABLES rules,      \* the rows of trust_policy_rules
          grants,     \* the rows of trust_grants
          consumed,   \* the grants whose consumed_at is set
          decisions   \* the rows of trust_decisions in the order they were made

trustVars == <<rules, grants, consumed, decisions>>

Decision == [request : Requests, allowed : BOOLEAN,
             grant : Grants \cup {NoGrant}, spends : BOOLEAN]

TrustInit == /\ rules = {} /\ grants = {} /\ consumed = {} /\ decisions = <<>>

\* add_rule; rules are never changed or removed.
AddRule == \E rule \in Rules \ rules :
              /\ rules' = rules \cup {rule}
              /\ UNCHANGED <<grants, consumed, decisions>>

IssueGrant == \E g \in Grants \ grants :
                 /\ grants' = grants \cup {g}
                 /\ UNCHANGED <<rules, consumed, decisions>>

\* Is the request matched by a rule with this effect?
Ruled(request, effect) ==
    \E rule \in rules : rule.effect = effect /\ request \in rule.scope

\* Bug: an expired grant is refused, a consumed one is not.
UsableTwice(request, at) ==
    {g \in grants : request \in g.scope /\ at < g.expires}

\* _grant_matches
Usable(request, at) ==
    {g \in grants \ consumed : request \in g.scope /\ at < g.expires}

\* Grants are tried in the order of their expiry.
FirstUsable(request, at) ==
    {g \in Usable(request, at) :
        \A h \in Usable(request, at) : g.expires <= h.expires}

\* Bug: a grant outranks a DENY rule.
GrantsFirst(request, at) ==
    IF Usable(request, at) # {} THEN {[allowed |-> TRUE, grant |-> g] : g \in FirstUsable(request, at)}
    ELSE {[allowed |-> Ruled(request, "ALLOW") /\ ~Ruled(request, "DENY"), grant |-> NoGrant]}

\* The verdicts authorize may reach: a DENY rule beats every ALLOW rule, a
\* rule beats every grant, and without either the answer is no.
Verdicts(request, at) ==
    IF Ruled(request, "DENY") THEN {[allowed |-> FALSE, grant |-> NoGrant]}
    ELSE IF Ruled(request, "ALLOW") THEN {[allowed |-> TRUE, grant |-> NoGrant]}
    ELSE IF Usable(request, at) = {} THEN {[allowed |-> FALSE, grant |-> NoGrant]}
    ELSE {[allowed |-> TRUE, grant |-> g] : g \in FirstUsable(request, at)}

\* authorize: the verdict is recorded; it spends a single-use grant (sets its
\* consumed_by_decision) unless the caller asked not to consume.
Authorize(request, at, consume) ==
    /\ Len(decisions) < MaxDecisions
    /\ \E v \in Verdicts(request, at) :
          LET spends == v.grant \in grants /\ v.grant.single_use /\ consume
          IN /\ decisions' = Append(decisions, [request |-> request, allowed |-> v.allowed,
                                                grant |-> v.grant, spends |-> spends])
             /\ consumed' = IF spends THEN consumed \cup {v.grant} ELSE consumed
    /\ UNCHANGED <<rules, grants>>

AuthorizeStep == \E r \in Requests, at \in Times, consume \in BOOLEAN :
                    Authorize(r, at, consume)

TrustStep == AddRule \/ IssueGrant \/ AuthorizeStep

\* Decisions are named by their position; 0 stands for none.
DecisionIds == 1..Len(decisions)

-----------------------------------------------------------------------------
TrustTypeOK == /\ rules \subseteq Rules
               /\ grants \subseteq Grants
               /\ consumed \subseteq grants
               /\ decisions \in Seq(Decision)

=============================================================================
