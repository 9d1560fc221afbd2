------------------------------ MODULE MCRunner ------------------------------
(***************************************************************************)
(* Small instances of Runner: the remote chain has an epoch boundary below *)
(* its head.                                                               *)
(***************************************************************************)
EXTENDS Runner

B(seq) == [seq |-> seq, tag |-> 0]

MCRemote == <<B(0), B(1), B(0)>>

\* The local client is new, behind, level, or on a fork.
MCLocals ==
    {<<>>, <<B(0)>>, MCRemote, <<B(0), B(1), [seq |-> 0, tag |-> 9]>>}
=============================================================================
