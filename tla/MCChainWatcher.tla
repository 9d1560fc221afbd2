-------------------------- MODULE MCChainWatcher --------------------------
(***************************************************************************)
(* Small instances of ChainWatcher.                                        *)
(***************************************************************************)
EXTENDS ChainWatcher

Hashes == 0..(MaxHeight + MaxReorgs + MaxHeight * MaxReorgs + 2)

\* No block updates the system config.
MCNoUpdates == [h \in Hashes |-> 0]

\* Blocks 2 and 3 (hashes 3 and 4) update it, once each.
MCSingleUpdates == [h \in Hashes |-> IF h \in {3, 4} THEN 1 ELSE 0]

\* Block 2 updates it twice.
MCDoubleUpdate == [h \in Hashes |-> IF h = 3 THEN 2 ELSE 0]

=============================================================================
