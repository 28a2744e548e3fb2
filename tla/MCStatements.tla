---------------------------- MODULE MCStatements ----------------------------
(***************************************************************************)
(* Finite instances of Statements for TLC.                                 *)
(***************************************************************************)
EXTENDS Statements

\* One and two rows, the second of which may throw; scans with and without
\* condition; updates that change the key, keep it or throw.
Statements2 ==
    {[op |-> "insert", rows |-> rows] : rows \in {<<1>>, <<2>>, <<1, 2>>, <<1, Throws>>}}
    \cup {[op |-> "select", where |-> k] : k \in {NoKey, 1}}
    \cup {[op |-> "update", where |-> NoKey, set |-> 2], [op |-> "update", where |-> 1, set |-> 2],
           [op |-> "update", where |-> 1, set |-> Throws]}
    \cup {[op |-> "delete", where |-> k] : k \in {NoKey, 1}}
=============================================================================
