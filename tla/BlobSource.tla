----------------------------- MODULE BlobSource -----------------------------
(***************************************************************************)
(* Where the batcher's data comes from (InnerWatcher::                     *)
(* get_batcher_transactions and l1/blob_fetcher.rs): the calldata of the   *)
(* batcher's transactions in an L1 block, and the blobs they carry, which  *)
(* are fetched from a beacon node by slot and index.  The slot follows     *)
(* from two values asked for once and cached.  Any request to the beacon   *)
(* node may fail; then the whole round is repeated.                        *)
(*                                                                         *)
(* The execution node and the beacon node are asked at different times, so *)
(* L1 may be reorganised in between.  What happens to blocks already read  *)
(* is ChainWatcher's subject.                                              *)
(***************************************************************************)
EXTENDS Integers, Sequences, FiniteSets, SequencesExt

CONSTANTS
    TxLists,         \* transaction lists an L1 block may have
    GenesisTime,     \* time of slot 0
    SlotTime,        \* SECONDS_PER_SLOT
    MaxBlocks,       \* bound: L1 blocks
    MaxReorgs,       \* bound: L1 reorgs
    MaxFailures      \* bound: failed requests to the beacon node

\* A transaction is the batcher's or not, and carries blobs (type 3) or calldata.
Transaction(valid, blobs) == [valid |-> valid, blobs |-> blobs]

ASSUME BlobSourceAssumption ==
    /\ \A txs \in TxLists : \A i \in DOMAIN txs : txs[i].blobs \in Nat
    /\ GenesisTime \in Nat \ {0} /\ SlotTime \in Nat \ {0}
    /\ MaxBlocks \in Nat /\ MaxReorgs \in Nat /\ MaxFailures \in Nat

VARIABLES
    chain,               \* L1 blocks
    minted,              \* hashes given out
    reorgs,
    pruned,              \* the beacon node has dropped the blobs up to this slot
    \* BlobFetcher
    genesis_timestamp, seconds_per_slot,   \* 0: not cached
    \* InnerWatcher
    pc, current_block, block, slot,
    delivered,           \* the data sent on, per block
    failures

l1_vars == <<chain, minted, reorgs, pruned>>
cache == <<genesis_timestamp, seconds_per_slot>>
round == <<pc, current_block, block, slot>>
vars == <<l1_vars, cache, round, delivered, failures>>

-----------------------------------------------------------------------------
(* L1 *)

NoBlock == [hash |-> 0, slot |-> 0, txs |-> <<>>, decodes |-> TRUE]

\* Blocks after slot s; a slot may stay empty.  The blobs in it decode or not.
BlocksAfter(s) ==
    [hash : {minted + 1}, slot : {s + 1, s + 2}, txs : TxLists, decodes : BOOLEAN]

LastSlot(c) == IF c = <<>> THEN 0 ELSE Last(c).slot

Mine ==
    /\ Len(chain) < MaxBlocks
    /\ \E b \in BlocksAfter(LastSlot(chain)) : chain' = Append(chain, b)
    /\ minted' = minted + 1
    /\ UNCHANGED <<reorgs, pruned, cache, round, delivered, failures>>

Reorg ==
    /\ chain # <<>> /\ reorgs < MaxReorgs
    /\ \E b \in BlocksAfter(LastSlot(Front(chain))) : chain' = Append(Front(chain), b)
    /\ minted' = minted + 1 /\ reorgs' = reorgs + 1
    /\ UNCHANGED <<pruned, cache, round, delivered, failures>>

\* The retention window of the beacon node moves past the oldest blocks.
Prune ==
    /\ \E n \in 1..(Len(chain) - 1) : chain[n].slot > pruned /\ pruned' = chain[n].slot
    /\ UNCHANGED <<chain, minted, reorgs, cache, round, delivered, failures>>

\* The blobs of a block, numbered through; each is named by where it comes from.
BlobsOf(b) ==
    FlattenSeq([i \in DOMAIN b.txs |-> [k \in 1..b.txs[i].blobs |-> <<b.hash, i, k>>]])

\* blob_sidecars of a slot.
Sidecars(s) ==
    UNION {{[index |-> k - 1, blob |-> BlobsOf(b)[k]] : k \in DOMAIN BlobsOf(b)} :
              b \in {c \in Range(chain) : c.slot = s /\ s > pruned}}

-----------------------------------------------------------------------------
(* get_batcher_transactions *)

Start == [next |-> 0, indexed |-> <<>>, calldata |-> <<>>]

\* The mutation: blobs of other senders are not counted.
Skipped_Uncounted(acc, tx) == acc

\* A transaction that is not the batcher's: its blobs are counted.
Skipped(acc, tx) == [acc EXCEPT !.next = @ + tx.blobs]

\* One transaction of the loop.
VisitTransaction(acc, tx) ==
    IF ~tx.valid THEN Skipped(acc, tx)
    ELSE IF tx.blobs = 0 THEN [acc EXCEPT !.calldata = Append(@, tx)]
    ELSE [acc EXCEPT !.next = @ + tx.blobs,
                     !.indexed = @ \o [k \in 1..tx.blobs |-> acc.next + k - 1]]

Scan(b) == FoldLeft(VisitTransaction, Start, b.txs)

\* What the block is sent on with: the calldata, named by the number of its transaction
\* among the batcher's calldata, then the blobs.
Deliver(blobs, raced) ==
    /\ delivered' = Append(delivered, [block |-> block', calldata |-> Len(Scan(block').calldata),
                                       blobs |-> blobs, raced |-> raced])
    /\ current_block' = current_block + 1
    /\ pc' = "block"

\* The block is read; without blobs nothing else is needed.
GetBlock ==
    /\ pc = "block"
    /\ current_block <= Len(chain)
    /\ block' = chain[current_block]
    /\ IF Scan(block').indexed = <<>>
       THEN Deliver(<<>>, FALSE)
       ELSE pc' = "slot" /\ UNCHANGED <<current_block, delivered>>
    /\ UNCHANGED <<l1_vars, cache, slot, failures>>

\* get_slot_from_time: nothing is asked for if the genesis time is cached, ...
FetchGenesis ==
    /\ pc = "slot"
    /\ \/ /\ genesis_timestamp = 0
          /\ genesis_timestamp' = GenesisTime
          /\ pc' = "spec"
       \/ genesis_timestamp # 0 /\ pc' = "divide" /\ UNCHANGED genesis_timestamp
    /\ UNCHANGED <<l1_vars, seconds_per_slot, current_block, block, slot, delivered, failures>>

\* The slot of a block's time.
SlotOf(genesis, per_slot) == (GenesisTime + block.slot * SlotTime - genesis) \div per_slot

\* ... else the spec is asked for as well, after the genesis time was stored; ...
FetchSpec ==
    /\ pc = "spec"
    /\ seconds_per_slot' = SlotTime
    /\ slot' = SlotOf(genesis_timestamp, SlotTime)
    /\ pc' = "sidecars"
    /\ UNCHANGED <<l1_vars, genesis_timestamp, current_block, block, delivered, failures>>

\* ... and the slot is a quotient: with nothing cached for the divisor the task panics.
Divide ==
    /\ pc = "divide"
    /\ \/ seconds_per_slot = 0 /\ pc' = "dead" /\ UNCHANGED slot
       \/ /\ seconds_per_slot # 0
          /\ slot' = SlotOf(genesis_timestamp, seconds_per_slot)
          /\ pc' = "sidecars"
    /\ UNCHANGED <<l1_vars, cache, current_block, block, delivered, failures>>

\* What the beacon node returns for an index, or nothing.
Found(i) == {s \in Sidecars(slot) : s.index = i}

\* Every blob the block needs is found and decodes.
Complete ==
    /\ \A i \in Range(Scan(block).indexed) : Found(i) # {}
    /\ \A c \in Range(chain) : c.slot = slot => c.decodes

\* The sidecars are looked up by index; the hash of a blob is not compared.
DeliverSidecars ==
    /\ Complete
    /\ UNCHANGED block
    /\ LET indexed == Scan(block).indexed
       IN  Deliver([j \in DOMAIN indexed |-> (CHOOSE s \in Found(indexed[j]) : TRUE).blob],
                   \A c \in Range(chain) : c.hash # block.hash)

\* The mutation: only the request for sidecars is repeated.
FetchSidecars_Again ==
    /\ pc = "sidecars"
    /\ \/ DeliverSidecars
       \/ ~Complete /\ UNCHANGED <<pc, current_block, block, delivered>>
    /\ UNCHANGED <<l1_vars, cache, slot, failures>>

\* The sidecars of the slot: one that is missing or does not decode fails the round.
FetchSidecars ==
    /\ pc = "sidecars"
    /\ \/ DeliverSidecars
       \/ ~Complete /\ pc' = "block" /\ UNCHANGED <<current_block, block, delivered>>
    /\ UNCHANGED <<l1_vars, cache, slot, failures>>

\* A request to the beacon node fails, and with it the round.
BeaconFails ==
    /\ pc \in {"spec", "sidecars"} \/ (pc = "slot" /\ genesis_timestamp = 0)
    /\ failures < MaxFailures
    /\ failures' = failures + 1
    /\ pc' = "block"
    /\ UNCHANGED <<l1_vars, cache, current_block, block, slot, delivered>>

-----------------------------------------------------------------------------

Init ==
    /\ chain = <<>> /\ minted = 0 /\ reorgs = 0 /\ pruned = 0
    /\ genesis_timestamp = 0 /\ seconds_per_slot = 0
    /\ pc = "block" /\ current_block = 1 /\ block = NoBlock /\ slot = 0
    /\ delivered = <<>> /\ failures = 0

WatcherStep == GetBlock \/ FetchGenesis \/ FetchSpec \/ Divide \/ FetchSidecars

Next == Mine \/ Reorg \/ Prune \/ WatcherStep \/ BeaconFails

\* The task loops; a request that does not fail is answered.
Spec == Init /\ [][Next]_vars /\ WF_vars(WatcherStep)

-----------------------------------------------------------------------------
(* Properties *)

\* The blobs of the batcher's transactions, in order.
BatcherBlobs(b) ==
    SelectSeq(BlobsOf(b), LAMBDA d : b.txs[d[2]].valid)

\* What is sent on for a block is the data of the batcher's transactions in it and of no
\* others, whoever else has blobs in the block and whichever slots are empty, unless the
\* block was replaced between the two nodes' answers.
DataOfBlock ==
    \A d \in Range(delivered) :
        /\ d.blobs = BatcherBlobs(d.block) \/ d.raced
        /\ d.calldata = Cardinality({i \in DOMAIN d.block.txs :
                                        d.block.txs[i].valid /\ d.block.txs[i].blobs = 0})

\* The blobs a block needs are there and decode.
Available(b) == Scan(b).indexed = <<>> \/ (b.slot > pruned /\ b.decodes)

\* With finitely many failures everything is sent on in the end, unless the next block has
\* a blob that is gone or does not decode.  The task dies only where a request to the
\* beacon node failed: otherwise the slot's divisor is known whenever it is needed.
AllDelivered ==
    <>[](\/ pc = "dead" /\ failures > 0
         \/ current_block > Len(chain)
         \/ ~Available(chain[current_block]))

\* The task never panics ("fetched on the first call to get_slot_from_time and cached
\* for all subsequent calls").
NeverPanics == pc # "dead"

\* The blobs sent on with a block are its own.
BlobsOfBlock == \A d \in Range(delivered) : d.blobs = BatcherBlobs(d.block)
=============================================================================
