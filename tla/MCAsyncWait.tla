---------------------------- MODULE MCAsyncWait -----------------------------
(***************************************************************************)
(* AsyncWait for TLC: two waiters for one job, and the program that        *)
(* started it.                                                             *)
(***************************************************************************)
EXTENDS AsyncWait, TLC
CONSTANTS v, w, k
=============================================================================
