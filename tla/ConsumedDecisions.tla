------------------------- MODULE ConsumedDecisions --------------------------
(***************************************************************************)
(* The table continuity_authorization_consumptions of                      *)
(* src/starcom/continuity.py, which the continuity kernel shares with the  *)
(* executor registry and the services above it: which operation each       *)
(* decision of the trust plane was spent on.                               *)
(*                                                                         *)
(* A decision is immutable and may be recorded long before it is used, for *)
(* any request, so Decisions is a constant: the allowed decisions that the *)
(* callers of this instance come to hold.  A denied one can never be used. *)
(***************************************************************************)
EXTENDS Naturals, Sequences

CONSTANTS Actors,      \* subjects of decisions and actors of operations
          Names,       \* every identifier, digest and reason text in use
          Decisions    \* the recorded decisions, allowed and verifiable

\* object is the resource and its mission; terms the context that binds the
\* material: empty for the continuity kernel, which does not compare it.
ASSUME DecisionAssumption ==
    Decisions \subseteq [id : Names, subject : Actors, action : STRING,
                         object : Names, terms : Seq(Names)]

VARIABLE consumed      \* the rows of continuity_authorization_consumptions

Use(d, kind, op, actor) == [decision |-> d, kind |-> kind, op |-> op, by |-> actor]

\* Bug: a decision is spent once, an operation is not.
SpentOnly(d, kind, op) ==
    \A use \in consumed : use.decision # d

\* PRIMARY KEY (decision_id), UNIQUE (operation_kind, operation_id)
Unconsumed(d, kind, op) ==
    \A use \in consumed : use.decision # d /\ <<use.kind, use.op>> # <<kind, op>>

\* _consume_authorization, in the transaction of the operation it stands for.
Consume(d, kind, op, actor) ==
    /\ Unconsumed(d, kind, op)
    /\ consumed' = consumed \cup {Use(d, kind, op, actor)}

\* Bug: the decision is matched without its context.
AuthorizesObject(d, actor, action, object, terms) ==
    d.subject = actor /\ d.action = action /\ d.object = object

\* _assert_authorization of the services above the continuity kernel: subject,
\* action, resource, mission and context of the decision are the request's.
AuthorizesExactly(d, actor, action, object, terms) ==
    /\ d.subject = actor
    /\ d.action = action
    /\ d.object = object
    /\ d.terms = terms

ConsumedInit == consumed = {}
=============================================================================
