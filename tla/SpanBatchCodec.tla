--------------------------- MODULE SpanBatchCodec ---------------------------
(***************************************************************************)
(* The decoder of span batches, src/derive/stages/span_batch.rs: one       *)
(* stream holds the fields of all transactions of a range of L2 blocks     *)
(* column by column, several columns have entries for some transactions    *)
(* only, and the blocks' epochs are one bit each.                          *)
(*                                                                         *)
(* The stream is a sequence of items: a byte of a bit list, or what a      *)
(* library reads as one (a varint, a hash, a signature, an address, an     *)
(* RLP list, the byte in front of a typed transaction).  A byte has        *)
(* ByteBits bits, so that a few blocks or transactions need two of them.   *)
(***************************************************************************)
EXTENDS Integers, Sequences, FiniteSets, SequencesExt, FiniteSetsExt

CONSTANTS
    ByteBits,     \* bits of a byte: 8 in the code
    ChainId       \* l2_chain_id

ASSUME SpanBatchAssumption == ByteBits \in Nat \ {0} /\ ChainId \in Nat

\* The empty address of a contract creation (the "" of the encoder).
Creation == "creation"

CountIf(s, Test(_)) == Cardinality({i \in DOMAIN s : Test(s[i])})

-----------------------------------------------------------------------------
(* The decoder.  As in the code, a helper returns what it has read and what *)
(* is left of the stream.                                                   *)

take_data(data, length) ==
    [val |-> SubSeq(data, 1, length), rest |-> SubSeq(data, length + 1, Len(data))]

\* The bytes last to first, and the bits of a byte from the lowest.
decode_bitlist(data, len) ==
    LET taken == take_data(data, (len + ByteBits - 1) \div ByteBits)
        bytes == Reverse(taken.val)
    IN  [val |-> [i \in 1..len |->
                    (bytes[(i - 1) \div ByteBits + 1] \div 2^((i - 1) % ByteBits)) % 2 = 1],
         rest |-> taken.rest]

\* An item per entry: decode_block_tx_counts, decode_uvarint_list, decode_signatures
\* and decode_tos.
decode_list(data, count) == take_data(data, count)

TypeByte(type) == [byte |-> type]

\* One transaction's data: a typed one has its type in front of the list.
NextTxData(acc) ==
    LET typed == acc.rest[1] \in {TypeByte(1), TypeByte(2)}
        list == IF typed THEN acc.rest[2] ELSE acc.rest[1]
        type == IF typed THEN acc.rest[1].byte ELSE 0
    IN  [val |-> Append(acc.val, [type |-> type, list |-> list]),
         rest |-> take_data(acc.rest, IF typed THEN 2 ELSE 1).rest]

decode_tx_data(data, tx_count) ==
    FoldLeft(LAMBDA acc, i : NextTxData(acc),
             [val |-> <<>>, rest |-> data], [i \in 1..tx_count |-> i])

IsLegacy(d) == d.type = 0

\* The mutation: the protected bits are indexed like the other columns (the first is
\* taken where there is none).
LegacyIndex_All(tx_datas, i) ==
    IF i <= CountIf(tx_datas, IsLegacy) THEN i ELSE 1

\* legacy_i: the protected bits are those of the legacy transactions only.
LegacyIndex(tx_datas, i) ==
    Cardinality({j \in 1 .. i - 1 : IsLegacy(tx_datas[j])}) + 1

\* tos_i: only transactions that are no creation have an address.
TosIndex(creation_bits, i) ==
    Cardinality({j \in 1 .. i - 1 : ~creation_bits[j]}) + 1

\* v of a legacy signature, with or without replay protection (EIP-155).
LegacyV(protected, parity) ==
    IF protected THEN ChainId * 2 + 35 + parity ELSE 27 + parity

\* The columns of the transactions.
decode_columns(data, tx_count) ==
    LET creations == decode_bitlist(data, tx_count)
        parities == decode_bitlist(creations.rest, tx_count)
        signatures == decode_list(parities.rest, tx_count)
        tos == decode_list(signatures.rest, CountIf(creations.val, LAMBDA b : ~b))
        datas == decode_tx_data(tos.rest, tx_count)
        nonces == decode_list(datas.rest, tx_count)
        gas_limits == decode_list(nonces.rest, tx_count)
        protected == decode_bitlist(gas_limits.rest, CountIf(datas.val, IsLegacy))
    IN  [creations |-> creations.val, parities |-> parities.val,
         signatures |-> signatures.val, tos |-> tos.val, datas |-> datas.val,
         nonces |-> nonces.val, gas_limits |-> gas_limits.val,
         protected |-> protected.val]

\* Transaction i as it is signed: the fields in the order of its type.
RawTransaction(c, i) ==
    LET d == c.datas[i].list
        to == IF c.creations[i] THEN Creation ELSE c.tos[TosIndex(c.creations, i)]
        parity == IF c.parities[i] THEN 1 ELSE 0
        r == c.signatures[i][1]
        s == c.signatures[i][2]
    IN  CASE c.datas[i].type = 0 ->
               <<c.nonces[i], d.gas_price, c.gas_limits[i], to, d.value, d.data,
                 LegacyV(c.protected[LegacyIndex(c.datas, i)], parity), r, s>>
          [] c.datas[i].type = 1 ->
               <<1, ChainId, c.nonces[i], d.gas_price, c.gas_limits[i], to, d.value, d.data,
                 d.access_list, parity, r, s>>
          [] c.datas[i].type = 2 ->
               <<2, ChainId, c.nonces[i], d.max_priority_fee, d.max_fee, c.gas_limits[i], to,
                 d.value, d.data, d.access_list, parity, r, s>>

decode_transactions(data, tx_count) ==
    LET c == decode_columns(data, tx_count)
    IN  [i \in 1..tx_count |-> RawTransaction(c, i)]

\* SpanBatch::decode.
decode(data, l1_inclusion_block) ==
    LET head == take_data(data, 5)
        origin_bits == decode_bitlist(head.rest, head.val[5])
        tx_counts == decode_list(origin_bits.rest, head.val[5])
    IN  [rel_timestamp |-> head.val[1],
         l1_origin_num |-> head.val[2],
         parent_check |-> head.val[3],
         l1_origin_check |-> head.val[4],
         block_count |-> head.val[5],
         origin_bits |-> origin_bits.val,
         block_tx_counts |-> tx_counts.val,
         transactions |-> decode_transactions(tx_counts.rest, SumFunction(tx_counts.val)),
         l1_inclusion_block |-> l1_inclusion_block]

BitSum(bits) == CountIf(bits, LAMBDA b : b)

\* tx_index before block i: the transactions of the blocks before it.
TxIndex(batch, i) == SumFunction(SubSeq(batch.block_tx_counts, 1, i - 1))

\* SpanBatch::block_inputs; genesis and blocktime are those of the chain config.
block_inputs(batch, genesis, blocktime) ==
    LET init_epoch_num == batch.l1_origin_num - BitSum(batch.origin_bits)
    IN  [i \in 1..batch.block_count |->
            [timestamp |-> batch.rel_timestamp + genesis + (i - 1) * blocktime,
             epoch |-> init_epoch_num + BitSum(SubSeq(batch.origin_bits, 1, i)),
             transactions |-> SubSeq(batch.transactions, TxIndex(batch, i) + 1,
                                     TxIndex(batch, i) + batch.block_tx_counts[i]),
             l1_inclusion_block |-> batch.l1_inclusion_block]]

start_epoch_num(batch) ==
    batch.l1_origin_num - BitSum(batch.origin_bits) + (IF batch.origin_bits[1] THEN 1 ELSE 0)

-----------------------------------------------------------------------------
(* The format, as a batcher writes it (not part of this repository).  A     *)
(* block is [epoch, txs], a transaction a record with all its fields.       *)

\* A bit list is one number, bit i of which is entry i, written big endian.
BitlistBytes(bits) ==
    LET len == (Len(bits) + ByteBits - 1) \div ByteBits
        number == SumFunction([i \in DOMAIN bits |-> IF bits[i] THEN 2^(i - 1) ELSE 0])
    IN  [k \in 1..len |-> (number \div 2^(ByteBits * (len - k))) % 2^ByteBits]

TxDataItems(tx) ==
    CASE tx.type = 0 -> <<[value |-> tx.value, gas_price |-> tx.fee, data |-> tx.data]>>
      [] tx.type = 1 -> <<TypeByte(1), [value |-> tx.value, gas_price |-> tx.fee,
                                        data |-> tx.data, access_list |-> tx.access_list]>>
      [] tx.type = 2 -> <<TypeByte(2), [value |-> tx.value, max_priority_fee |-> tx.tip,
                                        max_fee |-> tx.fee, data |-> tx.data,
                                        access_list |-> tx.access_list]>>

Column(txs, Field(_)) == [i \in DOMAIN txs |-> Field(txs[i])]

\* first_epoch_bit says whether the first block is the first of its epoch.
EncodeSpan(blocks, first_epoch_bit, rel_timestamp, parent_check) ==
    LET txs == FlattenSeq([i \in DOMAIN blocks |-> blocks[i].txs])
        last == blocks[Len(blocks)].epoch
    IN  <<rel_timestamp, last, parent_check, last, Len(blocks)>>
        \o BitlistBytes([i \in DOMAIN blocks |->
                            IF i = 1 THEN first_epoch_bit
                            ELSE blocks[i].epoch # blocks[i - 1].epoch])
        \o [i \in DOMAIN blocks |-> Len(blocks[i].txs)]
        \o BitlistBytes(Column(txs, LAMBDA t : t.to = Creation))
        \o BitlistBytes(Column(txs, LAMBDA t : t.parity = 1))
        \o Column(txs, LAMBDA t : <<t.r, t.s>>)
        \o Column(SelectSeq(txs, LAMBDA t : t.to # Creation), LAMBDA t : t.to)
        \o FlattenSeq(Column(txs, TxDataItems))
        \o Column(txs, LAMBDA t : t.nonce)
        \o Column(txs, LAMBDA t : t.gas)
        \o BitlistBytes(Column(SelectSeq(txs, LAMBDA t : t.type = 0), LAMBDA t : t.protected))

\* A transaction as it is signed and broadcast.
Signed(t) ==
    CASE t.type = 0 -> <<t.nonce, t.fee, t.gas, t.to, t.value, t.data,
                         t.parity + (IF t.protected THEN 2 * ChainId + 35 ELSE 27), t.r, t.s>>
      [] t.type = 1 -> <<1, ChainId, t.nonce, t.fee, t.gas, t.to, t.value, t.data,
                         t.access_list, t.parity, t.r, t.s>>
      [] t.type = 2 -> <<2, ChainId, t.nonce, t.tip, t.fee, t.gas, t.to, t.value, t.data,
                         t.access_list, t.parity, t.r, t.s>>
=============================================================================
