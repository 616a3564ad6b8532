------------------------------ MODULE Cockpit -------------------------------
(***************************************************************************)
(* cockpit.py: snapshots of the project's state, sessions of people who    *)
(* look at them, and commands that are authorized but not executed.  A     *)
(* command comes over HTTP, where the session is authenticated first, or   *)
(* by a call of the service, which asks for no token and believes the time *)
(* it is given.  The clock goes on between the steps of a request.         *)
(*                                                                         *)
(* Rows are never updated or deleted.  The decision of a command is spent  *)
(* in the table of commands.  A replay that returns a row is no step.      *)
(***************************************************************************)
EXTENDS ConsumedDecisions

CONSTANTS Views,      \* forms of admit_snapshot
          Sessions,   \* forms of create_session
          Commands,   \* forms of prepare_command
          Clients,    \* HTTP requests under way at once
          LastTime    \* bound: the clock stops there

\* digest: of the snapshot's payload; what: type, target and parameters.
ASSUME CockpitAssumption ==
    /\ Views \subseteq [id : Names, digest : Names, by : Actors]
    /\ Sessions \subseteq [id : Names, subject : Actors, token : Names, csrf : Names,
                           expires : Nat]
    /\ Commands \subseteq [id : Names, session : Names, snapshot : Names, what : Names]
    /\ LastTime \in Nat

VARIABLES now,        \* the machine's clock
          snapshots,  \* cockpit_snapshots
          sessions,   \* cockpit_sessions
          commands,   \* cockpit_commands and their transitions
          posting     \* posting[c]: the POST /api/v1/commands under way in c

cockpit == <<now, snapshots, sessions, commands, posting>>

NoPost == [stage |-> "NONE"]
SetPost(c, post) == posting' = [posting EXCEPT ![c] = post]

\* admit_snapshot
AdmitSnapshot(f) ==
    /\ \A s \in snapshots : s.id # f.id
    /\ snapshots' = snapshots \cup {f}
    /\ UNCHANGED <<now, sessions, commands, posting>>

\* create_session, at a time of the caller's.
CreateSession(f, at) ==
    /\ \A s \in sessions : s.id # f.id
    /\ at < f.expires
    /\ sessions' = sessions \cup {f}
    /\ UNCHANGED <<now, snapshots, commands, posting>>

\* The context of a command's decision.
CommandTerms(f, s, v) == <<s.id, s.subject, v.id, v.digest, f.what>>

\* prepare_command, and _verified_decision for the actor.
Commandable(f, d, actor) ==
    \E s \in sessions, v \in snapshots :
        /\ s.id = f.session /\ v.id = f.snapshot
        /\ AuthorizesExactly(d, actor, "cockpit.command.authorize", f.id, CommandTerms(f, s, v))

CommandFresh(f, d) == \A k \in commands : k.form.id # f.id /\ k.decision # d

\* Bug: who was authenticated may give the command.
SubjectOf(f, actor, at) == \E s \in sessions : s.id = f.session /\ s.subject = actor

\* The session as the transaction of authorize_command reads it.
SessionLives(f, actor, at) ==
    \E s \in sessions : s.id = f.session /\ s.subject = actor /\ at < s.expires

\* What authorize_command asks in its transaction.
Admissible(f, d, actor, at) ==
    /\ SessionLives(f, actor, at)
    /\ CommandFresh(f, d)
    /\ Commandable(f, d, actor)

InsertCommand(f, d, actor, at) ==
    commands' = commands \cup {[form |-> f, decision |-> d, by |-> actor, at |-> at]}

\* authorize_command called with a time of the caller's.
AuthorizeCommand(f, d, actor, at) ==
    /\ Admissible(f, d, actor, at)
    /\ InsertCommand(f, d, actor, at)
    /\ UNCHANGED <<now, snapshots, sessions, posting>>

\* _dispatch authenticates the session of a POST: authenticate, verify_csrf;
Authenticate(c, f, d, token, csrf) ==
    /\ posting[c].stage = "NONE"
    /\ \E s \in sessions :
          /\ s.id = f.session /\ now < s.expires /\ s.token = token /\ s.csrf = csrf
          /\ SetPost(c, [stage |-> "SESSION", form |-> f, decision |-> d, actor |-> s.subject])
    /\ UNCHANGED <<now, snapshots, sessions, commands>>

\* prepare_command, and authorize_command up to its transaction, at the time now;
StampCommand(c) ==
    LET post == posting[c]
    IN /\ post.stage = "SESSION"
       /\ Commandable(post.form, post.decision, post.actor)
       /\ \A k \in commands : k.decision = post.decision => k.form.id = post.form.id
       /\ SetPost(c, [stage |-> "STAMPED", form |-> post.form, decision |-> post.decision,
                      actor |-> post.actor, at |-> now])
       /\ UNCHANGED <<now, snapshots, sessions, commands>>

\* its transaction, which may have to wait for the database.
CommitCommand(c) ==
    LET post == posting[c]
    IN /\ post.stage = "STAMPED"
       /\ Admissible(post.form, post.decision, post.actor, post.at)
       /\ InsertCommand(post.form, post.decision, post.actor, post.at)
       /\ SetPost(c, NoPost)
       /\ UNCHANGED <<now, snapshots, sessions>>

\* The request fails, or finds its command there already.
EndPost(c) ==
    LET post == posting[c]
    IN /\ \/ /\ post.stage = "SESSION"
             /\ \/ ~Commandable(post.form, post.decision, post.actor)
                \/ \E k \in commands : k.decision = post.decision /\ k.form.id # post.form.id
          \/ /\ post.stage = "STAMPED"
             /\ ~Admissible(post.form, post.decision, post.actor, post.at)
       /\ SetPost(c, NoPost)
       /\ UNCHANGED <<now, snapshots, sessions, commands>>

CockpitTick ==
    /\ now < LastTime
    /\ now' = now + 1
    /\ UNCHANGED <<snapshots, sessions, commands, posting>>

CockpitInit ==
    /\ now = 0 /\ snapshots = {} /\ sessions = {} /\ commands = {}
    /\ posting = [c \in Clients |-> NoPost]

CockpitNext ==
    \/ CockpitTick
    \/ \E f \in Views : AdmitSnapshot(f)
    \/ \E f \in Sessions, at \in 0..LastTime : CreateSession(f, at)
    \/ \E f \in Commands, d \in Decisions, s \in sessions, at \in 0..LastTime :
          AuthorizeCommand(f, d, s.subject, at)
    \/ \E c \in Clients :
          \/ \E f \in Commands, d \in Decisions, s \in Sessions :
                Authenticate(c, f, d, s.token, s.csrf)
          \/ StampCommand(c)
          \/ CommitCommand(c)
          \/ EndPost(c)

CockpitSpec == CockpitInit /\ [][CockpitNext]_cockpit

-----------------------------------------------------------------------------
(* Properties                                                              *)

\* verify_command finds no defect: the expiry of the session is not asked for.
CommandVerifies(k) ==
    /\ Commandable(k.form, k.decision, k.by)
    /\ \A o \in commands : o.decision = k.decision => o = k

\* A command is stamped before its session expires, however long the request
\* took after it was authenticated, is the session subject's own, by a decision
\* about the snapshot it was shown and used for nothing else, and verifies.
CommandsOfALiveSession ==
    \A k \in commands :
        /\ CommandVerifies(k)
        /\ \E s \in sessions :
              /\ s.id = k.form.session
              /\ k.by = s.subject /\ k.decision.subject = s.subject
              /\ k.at < s.expires
=============================================================================
