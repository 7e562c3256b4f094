----------------------------- MODULE MCLockMap -----------------------------
(* A small instance of LockMap for TLC. *)
EXTENDS LockMap, TLC
=============================================================================
