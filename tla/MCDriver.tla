------------------------------ MODULE MCDriver ------------------------------
(***************************************************************************)
(* Small instances of Driver.                                              *)
(***************************************************************************)
EXTENDS Driver

CONSTANT a

ContentOf(number, seq) == [txs |-> a, epoch |-> [number |-> number, hash |-> number, seq |-> seq]]

\* L1 is at its genesis.
MCGenesis == <<L1Block(0, Genesis)>>

\* L1 has two more blocks: the first ends epoch 0, the second begins epoch 1.
MCTwoBlocks ==
    <<L1Block(0, Genesis),
      L1Block(1, <<ContentOf(0, 1)>>),
      L1Block(2, <<ContentOf(0, 1), ContentOf(1, 0)>>)>>
=============================================================================
