------------------------------ MODULE MCAccounts ------------------------------
(***************************************************************************)
(* Accounts with two accounts, one employee record and two roles, one tick *)
(* of the clock, and enough failures for the first lock.                   *)
(***************************************************************************)
EXTENDS Accounts

MCLockTime(n) == 2 ^ n
=============================================================================
