------------------------------ MODULE L1Chain ------------------------------
(***************************************************************************)
(* The L1 chain as the node sees it through its RPC provider: blocks are   *)
(* mined, unfinalized blocks are replaced in a reorg, and finality moves   *)
(* on.  It is the environment of ChainWatcher; no code of the repository   *)
(* is modelled here.                                                       *)
(*                                                                         *)
(* A block is named by its hash, a number that is never used twice.  What  *)
(* the code reads from a block (deposit logs, batcher transactions) is     *)
(* named by the hash of the block as well, so that data of two blocks can  *)
(* be told apart and nothing else can.                                     *)
(***************************************************************************)
EXTENDS Integers, Sequences

CONSTANTS
    InitHeight,     \* number of the last block at the start
    MaxHeight,      \* bound: number of the last block
    MaxReorgs,      \* bound: number of reorgs
    ConfigUpdates   \* hash |-> number of system config updates in the block

VARIABLES
    chain,          \* canonical chain: chain[n + 1] is the hash of block n
    l1_finalized,   \* number of the last finalized block
    minted,         \* hashes given out so far
    reorgs          \* number of reorgs so far

l1_vars == <<chain, l1_finalized, minted, reorgs>>

ASSUME L1Assumption ==
    /\ InitHeight \in Nat /\ MaxHeight \in Nat /\ InitHeight <= MaxHeight
    /\ MaxReorgs \in Nat

Height(c) == Len(c) - 1
HashAt(n) == chain[n + 1]

L1Init ==
    /\ chain = [i \in 1..(InitHeight + 1) |-> i]
    /\ l1_finalized = 0
    /\ minted = InitHeight + 1
    /\ reorgs = 0

Mine ==
    /\ Height(chain) < MaxHeight
    /\ chain' = Append(chain, minted + 1)
    /\ minted' = minted + 1
    /\ UNCHANGED <<l1_finalized, reorgs>>

\* Block n and everything above it is replaced by one new block; the chain may
\* be shorter than before.
ReplaceFrom(n) ==
    /\ reorgs < MaxReorgs
    /\ chain' = Append(SubSeq(chain, 1, n), minted + 1)
    /\ minted' = minted + 1
    /\ reorgs' = reorgs + 1
    /\ UNCHANGED l1_finalized

Finalize(n) ==
    /\ l1_finalized' = n
    /\ UNCHANGED <<chain, minted, reorgs>>

L1Next ==
    \/ Mine
    \/ \E n \in (l1_finalized + 1)..Height(chain) : ReplaceFrom(n)
    \/ \E n \in (l1_finalized + 1)..Height(chain) : Finalize(n)

-----------------------------------------------------------------------------
\* A system config is named by the last update it contains; genesis has none.
NoUpdate == <<0, 0>>

\* The system config that block n of chain c has: the last of the updates in the
\* blocks up to n.
ConfigAt(c, n) ==
    LET with == {m \in 0..n : ConfigUpdates[c[m + 1]] > 0}
    IN  IF with = {}
        THEN NoUpdate
        ELSE LET last == CHOOSE m \in with : \A k \in with : k <= m
             IN  <<c[last + 1], ConfigUpdates[c[last + 1]]>>
=============================================================================
