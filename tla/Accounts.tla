------------------------------ MODULE Accounts ------------------------------
(***************************************************************************)
(* The addresses the contracts of both chains know: the accounts that sign *)
(* transactions, and the dead address in which agentExec.ts locks what it  *)
(* bridges.                                                                *)
(***************************************************************************)
EXTENDS Integers

CONSTANTS Users, Sink

ASSUME AccountsAssumption == Sink \notin Users
=============================================================================
