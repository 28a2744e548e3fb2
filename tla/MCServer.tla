------------------------------ MODULE MCServer ------------------------------
(***************************************************************************)
(* A finite instance of Server for TLC: a client that sends two requests,  *)
(* or two clients one of which sends a request.  The window holds one      *)
(* response and a byte of the next.                                        *)
(***************************************************************************)
EXTENDS Server
=============================================================================
