------------------------------ MODULE MCCodecs ------------------------------
(***************************************************************************)
(* Inputs for Codecs: lengths around the ends of elements and rounds,      *)
(* transactions of every kind in every order, epochs with and without      *)
(* deposits before and after the forks.                                    *)
(***************************************************************************)
EXTENDS Codecs

\* Two rounds hold 250 bytes; the first element 27, the first round 123.
MCLengths == {0, 1, 27, 28, 60, 91, 92, 122, 123, 124, 155, 249, 250}

MCBlobData == {[i \in 1..n |-> (i * 37 + seed) % 256] : n \in MCLengths, seed \in {0, 200}}

MCBadBytes == {0, 1, 63, 64, 255}

MCBadOffsets == {0, 1, 2, 3, 4, 5, 31, 32, 33, 64, 96, 97, 127, 128, 129, 160, 224, 255}

\* The kinds of transactions, and transaction i of a kind: all its fields differ from
\* those of other transactions.
MCKinds ==
    {[type |-> 0, new |-> n, parity |-> p, protected |-> q] :
        n \in BOOLEAN, p \in {0, 1}, q \in BOOLEAN}
    \cup {[type |-> 1, new |-> n, parity |-> 1, protected |-> TRUE] : n \in BOOLEAN}
    \cup {[type |-> 2, new |-> n, parity |-> 0, protected |-> TRUE] : n \in BOOLEAN}

Tx(k, i) ==
    [type |-> k.type, parity |-> k.parity, protected |-> k.protected,
     to |-> IF k.new THEN Creation ELSE <<"a", "b", "c">>[i],
     nonce |-> 100 + i, gas |-> 200 + i, value |-> 300 + i, fee |-> 400 + i, tip |-> 500 + i,
     data |-> 600 + i, access_list |-> 700 + i, r |-> 800 + i, s |-> 900 + i]

MCTxs == {[i \in 1..n |-> Tx(ks[i], i)] : n \in 0..3, ks \in [1..3 -> MCKinds]}

\* The transactions cut into three blocks, the later two in the same or the next epoch.
MCCuts == {<<0, 0>>, <<1, 1>>, <<1, 2>>, <<0, 3>>, <<2, 3>>}

MCSpanBlocks ==
    {[b \in 1..3 |->
        [epoch |-> 20 + (IF b > 1 /\ up[1] THEN 1 ELSE 0) + (IF b > 2 /\ up[2] THEN 1 ELSE 0),
         txs |-> SubSeq(txs, IF b = 1 THEN 1 ELSE cut[b - 1] + 1,
                        IF b = 3 THEN Len(txs) ELSE cut[b])]] :
        txs \in {t \in MCTxs : Len(t) = 3}, cut \in MCCuts, up \in [1..2 -> BOOLEAN]}
    \cup {<<[epoch |-> 20, txs |-> txs]>> : txs \in MCTxs}

Log(hash, index, new) ==
    [topics |-> <<"TransactionDeposited", <<"from", index>>, <<"to", index>>>>,
     opaque_data |-> <<40 + index, 50 + index, 60 + index, IF new THEN 1 ELSE 0, 70 + index>>,
     block_hash |-> hash, log_index |-> index]

MCL1Info ==
    [n \in 0..3 |->
        [number |-> n, timestamp |-> 2 * n, base_fee |-> 80 + n, hash |-> <<"l1", n>>,
         mix_hash |-> <<"mix", n>>, gas_limit |-> 90 + n,
         batcher_hash |-> <<"batcher", n>>, fee_overhead |-> 10 + n, fee_scalar |-> 20 + n,
         logs |-> CASE n = 1 -> <<Log(<<"l1", n>>, 0, FALSE), Log(<<"l1", n>>, 2, TRUE)>>
                    [] n = 2 -> <<Log(<<"l1", n>>, 1, FALSE)>>
                    [] OTHER -> <<>>]]

\* One L2 block per second; a block is in the epoch of its parent or in the next one.
MCBlockInputs ==
    {[t \in 1..6 |->
        [timestamp |-> t,
         epoch |-> LET ups == Cardinality({u \in up : u <= t}) IN ups,
         transactions |-> IF t \in {2, 5} THEN <<<<"tx", t>>>> ELSE <<>>]] :
        up \in {s \in SUBSET (1..6) : Cardinality(s) <= 3}}
=============================================================================
