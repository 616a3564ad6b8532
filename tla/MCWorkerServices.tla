-------------------------- MODULE MCWorkerServices --------------------------
(***************************************************************************)
(* The services the adoption worker stands on, in small instances for TLC: *)
(* the outbox that it leases from, and the registry (with the continuity   *)
(* kernel) that attests its executor.  They share no row, so a behaviour   *)
(* of this instance belongs to one of them.                                *)
(***************************************************************************)
EXTENDS DurableOutbox, ExecutorRegistry, TLC

CONSTANTS p, q,         \* the two processes that revoke and attest
          pub1, pub2    \* the ids of two publications

Decided(id, action, object, terms) ==
    [id |-> id, subject |-> "ana", action |-> action, object |-> object, terms |-> terms]

\* One executor and one descriptor, registered by ana.
MCDescriptors == {[executor |-> "x", digest |-> "dx", serves |-> {"local"}]}

\* Ana's own qualification and an independent one.
MCPayloads == {[id |-> "qr", digest |-> "pr", executor |-> "x", material |-> "dx",
                reviewer |-> "rev", signer |-> "pem"],
               [id |-> "qa", digest |-> "pa", executor |-> "x", material |-> "dx",
                reviewer |-> "ana", signer |-> "pem"]}

\* A decision for each step of the executor, one to revoke it from each of its
\* states, and one about the executor y that nobody registered.
RegistryDecisions ==
    {Decided("1", "c3.executor.register", "x", <<"dx">>),
     Decided("2", "c3.executor.qualifier.accept", "k", <<"pem">>),
     Decided("3", "c3.executor.qualify", "x", <<"qr", "pr", "k">>),
     Decided("4", "c3.executor.qualify", "x", <<"qa", "pa", "k">>),
     Decided("5", "c3.executor.enable", "x", <<"pr">>),
     Decided("6", "c3.executor.enable", "y", <<"pr">>),
     Decided("7", "c3.executor.revoke", "x", <<"why", Registered>>),
     Decided("8", "c3.executor.revoke", "x", <<"why", Qualified>>),
     Decided("9", "c3.executor.revoke", "x", <<"why", Enabled>>)}

\* Two operators hold a decision to publish the recovery of incident i, and one
\* decision is about incident j, which has the same archive.
ContinuityDecisions ==
    {Decided("a", "continuity.trust-root.accept", "k", <<>>),
     Decided("b", "continuity.recovery.publish", "i", <<>>),
     Decided("c", "continuity.recovery.publish", "i", <<>>),
     Decided("d", "continuity.recovery.publish", "j", <<>>)}

MCDecisions == RegistryDecisions \cup ContinuityDecisions

\* A review that asks for recollection, and one that does not.
MCReviews == {[id |-> "good", archive |-> "a1", eligible |-> TRUE, signer |-> "pem"],
              [id |-> "bad", archive |-> "a1", eligible |-> FALSE, signer |-> "pem"]}

MCNames == {"x", "y", "dx", "k", "pem", "pr", "pa", "qr", "qa", "why", "i", "j",
            "good", "bad", pub1, pub2, "1", "2", "3", "4", "5", "6", "7", "8", "9",
            "a", "b", "c", "d"} \cup States

\* They are interchangeable, and so are the publications, and the outbox's
\* workers and its effects.
Alike == Permutations({p, q}) \cup Permutations({pub1, pub2})
         \cup Permutations(Workers) \cup Permutations(Effects)

-----------------------------------------------------------------------------
(* One service or the other                                                *)

OutboxAlone ==
    /\ consumed = {} /\ incidents = {} /\ roots = {} /\ descriptors = {} /\ qualifiers = {}

RegistryAlone ==
    clock = 0 /\ held = {} /\ \A e \in Effects : rows[e] = NoRow

WorkerServicesNext ==
    \/ OutboxAlone /\ Next /\ UNCHANGED authorityVars
    \/ RegistryAlone /\ RegistryNext /\ UNCHANGED vars

WorkerServicesInit == Init /\ RegistryInit

WorkerServicesSpec ==
    WorkerServicesInit /\ [][WorkerServicesNext]_<<vars, authorityVars>>
=============================================================================
