--------------------------- MODULE MCLockManager ---------------------------
(***************************************************************************)
(* The finite instances of LockManager that TLC checks; every constant has *)
(* its value in the configuration.                                         *)
(***************************************************************************)
EXTENDS LockManager
=============================================================================
