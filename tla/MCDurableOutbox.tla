-------------------------- MODULE MCDurableOutbox --------------------------
(***************************************************************************)
(* Small instances of DurableOutbox for TLC.                               *)
(***************************************************************************)
EXTENDS DurableOutbox
=============================================================================
