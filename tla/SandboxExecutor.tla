-------------------------- MODULE SandboxExecutor --------------------------
(***************************************************************************)
(* SandboxComponentExecutor of src/starcom/sandbox_executor.py: the files  *)
(* under one sandbox_root and the file operations of execute and rollback. *)
(* execute writes current.json and then its journal entry, rollback writes *)
(* current.json and then its journal entry; each write is atomic, the pair *)
(* is not, so each write is an action of its own.                          *)
(*                                                                         *)
(* A release is named after the execution that activates it.  Journal      *)
(* entries are keyed by idempotency key, which determines the execution.   *)
(* Copying the release tree is left out: its name is its digest, and it is *)
(* renamed into place complete before the pointer moves.                   *)
(***************************************************************************)
CONSTANT Executions

VARIABLES pointer,   \* what current.json activates, or NoRelease
          journal    \* journal[e]: the journal entry of e

svars == <<pointer, journal>>

NoRelease == "none"
NoEntry == [state |-> "NONE", previous |-> NoRelease]
Entry == [state : {"NONE", "EXECUTED", "ROLLED_BACK"},
          previous : Executions \cup {NoRelease}]

SandboxTypeOK == /\ pointer \in Executions \cup {NoRelease}
                 /\ journal \in [Executions -> Entry]

SandboxInit == /\ pointer = NoRelease
               /\ journal = [e \in Executions |-> NoEntry]

\* execute and rollback look the idempotency key up first.
Journalled(e) == journal[e].state # "NONE"

\* execute, first write: current.json names the new release.
Activate(e) ==
    /\ pointer' = e
    /\ UNCHANGED journal

\* execute, second write: the result and the bytes current.json had before,
\* which execute read before it copied anything.
RecordExecuted(e, previous) ==
    /\ journal' = [journal EXCEPT ![e] = [state |-> "EXECUTED", previous |-> previous]]
    /\ UNCHANGED pointer

\* Bug: the earlier bytes are not put back.
RestoreNothing(entry) == UNCHANGED <<pointer, journal>>

\* rollback, first write: _restore_previous puts the earlier bytes back, or
\* removes current.json when there were none.
Restore(entry) ==
    /\ pointer' = entry.previous
    /\ UNCHANGED journal

\* rollback, second write: the entry that rollback loaded, marked.
RecordRolledBack(e, entry) ==
    /\ journal' = [journal EXCEPT ![e] = [entry EXCEPT !.state = "ROLLED_BACK"]]
    /\ UNCHANGED pointer
=============================================================================
