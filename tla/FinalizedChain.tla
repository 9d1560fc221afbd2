--------------------------- MODULE FinalizedChain ---------------------------
(***************************************************************************)
(* What the node promises of L2 finality: the chain the execution engine   *)
(* is told is final only ever grows, and never beyond what the finalized   *)
(* part of L1 says.  Both chains are sequences of L2 blocks.               *)
(***************************************************************************)
EXTENDS Sequences, SequencesExt

VARIABLES
    derivable,   \* the L2 chain that finalized L1 determines
    finalized    \* the L2 chain the engine holds as final

Init ==
    /\ derivable = <<>>
    /\ finalized = <<>>

\* L1 finality moves on.
FinalizeL1 ==
    /\ IsPrefix(derivable, derivable')
    /\ UNCHANGED finalized

\* The engine is told of a later final block.
FinalizeL2 ==
    /\ IsPrefix(finalized, finalized')
    /\ IsPrefix(finalized', derivable)
    /\ UNCHANGED derivable

Next == FinalizeL1 \/ FinalizeL2

Spec == Init /\ [][Next]_<<derivable, finalized>>
=============================================================================
