--------------------------- MODULE AttributesCodec --------------------------
(***************************************************************************)
(* What the attributes stage writes into a block and what the node reads   *)
(* back from it.  Every L2 block begins with a transaction that deposits   *)
(* the attributes of its L1 block (derive/stages/attributes.rs); a node    *)
(* that starts on an engine with blocks takes the epoch and the sequence   *)
(* number of its head from that transaction's calldata (driver/types.rs,   *)
(* common/attributes_deposited.rs).                                        *)
(*                                                                         *)
(* Calldata is a selector and the words behind it; a transaction is the    *)
(* list of its RLP fields; a hash is what it is the hash of.               *)
(***************************************************************************)
EXTENDS Integers, Sequences, SequencesExt

CONSTANTS
    EcotoneTime, RegolithTime, CanyonTime,   \* of the chain config
    L1Info                                   \* the cached L1 blocks, by number

ASSUME AttributesAssumption ==
    EcotoneTime \in Nat /\ RegolithTime \in Nat /\ CanyonTime \in Nat

\* The error of a conversion.
Unreadable == [ok |-> FALSE]

BedrockSelector == "setL1BlockValues"
EcotoneSelector == "setL1BlockValuesEcotone"

hash_of(domain, block_hash, n) == <<"keccak", domain, <<"keccak", block_hash, n>>>>

-----------------------------------------------------------------------------
(* Writing: attributes.rs *)

is_ecotone_activation_block(timestamp) == timestamp = EcotoneTime

is_ecotone_but_not_first_block(timestamp) ==
    timestamp >= EcotoneTime /\ ~is_ecotone_activation_block(timestamp)

\* AttributesDeposited::encode, always the Bedrock format.
encode(info, seq) ==
    [selector |-> BedrockSelector,
     words |-> <<info.number, info.timestamp, info.base_fee, info.hash, seq,
                 info.batcher_hash, info.fee_overhead, info.fee_scalar>>]

\* DepositedTransaction::rlp_append.
rlp_append(tx) ==
    <<126, tx.source_hash, tx.from, tx.to, tx.mint, tx.value, tx.gas, tx.is_system_tx, tx.data>>

\* AttributesDeposited::from_block_info and DepositedTransaction::from.
derive_attributes_deposited(info, seq, timestamp) ==
    LET is_regolith == timestamp >= RegolithTime
    IN  rlp_append(
          [source_hash |-> hash_of(1, info.hash, seq),
           from |-> "attributes_depositor", to |-> "attributes_predeploy",
           mint |-> 0, value |-> 0,
           gas |-> IF is_regolith THEN 1000000 ELSE 150000000,
           is_system_tx |-> ~is_regolith,
           data |-> encode(info, seq)])

\* UserDeposited::try_from, of the log of a deposit.
UserDeposited(log) ==
    [from |-> log.topics[2], to |-> log.topics[3],
     mint |-> log.opaque_data[1], value |-> log.opaque_data[2], gas |-> log.opaque_data[3],
     is_creation |-> log.opaque_data[4] # 0, data |-> log.opaque_data[5],
     l1_block_hash |-> log.block_hash, log_index |-> log.log_index]

\* The mutation: the source hash of a deposit is made like that of the attributes.
SourceHash_OneDomain(deposit) == hash_of(1, deposit.l1_block_hash, deposit.log_index)

SourceHash(deposit) == hash_of(0, deposit.l1_block_hash, deposit.log_index)

\* derive_user_deposited and DepositedTransaction::from.
derive_user_deposited(info) ==
    [i \in DOMAIN info.logs |->
        LET deposit == UserDeposited(info.logs[i])
        IN  rlp_append(
              [source_hash |-> SourceHash(deposit),
               from |-> deposit.from,
               to |-> IF deposit.is_creation THEN "" ELSE deposit.to,
               mint |-> deposit.mint, value |-> deposit.value, gas |-> deposit.gas,
               is_system_tx |-> FALSE, data |-> deposit.data])]

derive_transactions(info, seq, input) ==
    <<derive_attributes_deposited(info, seq, input.timestamp)>>
    \o (IF seq = 0 THEN derive_user_deposited(info) ELSE <<>>)
    \o (IF is_ecotone_activation_block(input.timestamp) THEN <<<<"ecotone upgrade">>>> ELSE <<>>)
    \o input.transactions

update_sequence_number(stage, hash) ==
    [seq |-> IF stage.epoch_hash # hash THEN 0 ELSE stage.seq + 1, epoch_hash |-> hash]

\* derive_attributes: the stage goes on, and the block made of the attributes is added.
derive_attributes(acc, input) ==
    LET info == L1Info[input.epoch]
        stage == update_sequence_number(acc.stage, info.hash)
    IN  [stage |-> stage,
         blocks |-> Append(acc.blocks,
            [timestamp |-> input.timestamp,
             prev_randao |-> info.mix_hash,
             transactions |-> derive_transactions(info, stage.seq, input),
             gas_limit |-> info.gas_limit,
             withdrawals |-> IF input.timestamp >= CanyonTime THEN <<<<>>>> ELSE <<>>])]

\* The blocks made of a list of block inputs by a stage in a given state.
Derived(stage, inputs) ==
    FoldLeft(derive_attributes, [stage |-> stage, blocks |-> <<>>], inputs).blocks

-----------------------------------------------------------------------------
(* Reading: attributes_deposited.rs, types.rs *)

try_from_bedrock(calldata) ==
    IF Len(calldata.words) # 8 \/ calldata.selector # BedrockSelector
    THEN Unreadable
    ELSE [ok |-> TRUE, number |-> calldata.words[1], timestamp |-> calldata.words[2],
          hash |-> calldata.words[4], seq |-> calldata.words[5]]

\* The first word holds two scalars, the sequence number, the timestamp and the number.
try_from_ecotone(calldata) ==
    IF Len(calldata.words) # 5 \/ calldata.selector # EcotoneSelector
    THEN Unreadable
    ELSE [ok |-> TRUE, number |-> calldata.words[1][5], timestamp |-> calldata.words[1][4],
          hash |-> calldata.words[4], seq |-> calldata.words[1][3]]

\* The calldata of a transaction, as the engine returns it.
InputOf(tx) == tx[9]

\* HeadInfo::try_from_l2_block.
try_from_l2_block(block) ==
    IF block.transactions = <<>> THEN Unreadable
    ELSE LET calldata == InputOf(block.transactions[1])
         IN  IF is_ecotone_but_not_first_block(block.timestamp)
             THEN try_from_ecotone(calldata)
             ELSE try_from_bedrock(calldata)

\* The mutation: the position in the epoch is not taken over.
NewStage_Zero(head) == [seq |-> 0, epoch_hash |-> head.hash]

\* Attributes::new, with the head that was read.
NewStage(head) == [seq |-> head.seq, epoch_hash |-> head.hash]

\* Attributes::purge, when head is the safe head again.
PurgedStage(head) == [seq |-> 0, epoch_hash |-> head.hash]
=============================================================================
