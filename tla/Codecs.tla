------------------------------- MODULE Codecs -------------------------------
(***************************************************************************)
(* The three codecs at work: what a batcher puts into a blob, what it puts *)
(* into a span batch, and the attributes that the node itself puts into    *)
(* its blocks.  A behavior takes one input, encodes it, perhaps damages    *)
(* one byte of it, and decodes it.                                         *)
(***************************************************************************)
EXTENDS BlobEncoding, SpanBatchCodec, AttributesCodec

CONSTANTS
    BlobData,      \* data put into a blob: sequences of bytes
    BadBytes,      \* what a damaged byte may become
    BadOffsets,    \* which bytes may be damaged
    SpanBlocks,    \* span batches: sequences of blocks
    BlockInputs,   \* sequences of block inputs, consecutive from genesis on
    Genesis, BlockTime

VARIABLES
    kind,      \* the codec
    pc,        \* "encoded", "damaged" or "decoded"
    input, wire, output

vars == <<kind, pc, input, wire, output>>

Nothing == <<>>

-----------------------------------------------------------------------------
RelTimestamp == 3
Inclusion == 7

\* A span batch and whether its first block begins an epoch.
EncodeSpanInput(in) == EncodeSpan(in.blocks, in.first, RelTimestamp, "parent")

\* A node that starts at genesis.
GenesisStage == [seq |-> 0, epoch_hash |-> L1Info[0].hash]

Init ==
    /\ pc = "encoded"
    /\ output = Nothing
    /\ \/ /\ kind = "blob"
          /\ input \in BlobData
          /\ wire = EncodeBlob(input)
       \/ /\ kind = "span"
          /\ \E blocks \in SpanBlocks, first \in BOOLEAN :
                input = [blocks |-> blocks, first |-> first]
          /\ wire = EncodeSpanInput(input)
       \/ /\ kind = "attributes"
          /\ input \in BlockInputs
          /\ wire = Derived(GenesisStage, input)

\* A blob with one wrong byte.
Damage ==
    /\ kind = "blob"
    /\ pc = "encoded"
    /\ pc' = "damaged"
    /\ \E p \in BadOffsets, byte \in BadBytes :
          wire' = [wire EXCEPT ![p] = byte]
    /\ UNCHANGED <<kind, input, output>>

DecodeBlob ==
    /\ kind = "blob"
    /\ output' = decode_blob_data(wire)

DecodeSpan ==
    /\ kind = "span"
    /\ output' = decode(wire, Inclusion)

\* The node's head is read back from every block of the chain.
ReadHeads ==
    /\ kind = "attributes"
    /\ output' = [k \in DOMAIN wire |-> try_from_l2_block(wire[k])]

Decode ==
    /\ pc # "decoded"
    /\ pc' = "decoded"
    /\ DecodeBlob \/ DecodeSpan \/ ReadHeads
    /\ UNCHANGED <<kind, input, wire>>

Next == Damage \/ Decode

Spec == Init /\ [][Next]_vars

-----------------------------------------------------------------------------
(* Properties *)

Done(k) == kind = k /\ pc = "decoded"

\* decode_blob_data (blob_encoding.rs) returns the data the batcher put into the blob, and
\* of a damaged blob it accepts only what is the encoding of other data.  Two bits are
\* excepted, the upper ones of the first byte, which it does not look at.
OnlyEncodingsDecoded ==
    Done("blob") =>
        /\ wire = EncodeBlob(input) => output = [ok |-> TRUE, data |-> input]
        /\ output.ok => [wire EXCEPT ![0] = @ % 64] = EncodeBlob(output.data)

\* SpanBatch::decode and block_inputs (span_batch.rs) give the blocks of the batch back:
\* their epochs, their times and their transactions as they were signed; and the epoch
\* that span_batch_status tests (start_epoch_num) is that of the first of them.
SpanRoundTrip ==
    Done("span") =>
        /\ block_inputs(output, Genesis, BlockTime) =
             [i \in DOMAIN input.blocks |->
                [timestamp |-> Genesis + RelTimestamp + (i - 1) * BlockTime,
                 epoch |-> input.blocks[i].epoch,
                 transactions |-> Column(input.blocks[i].txs, Signed),
                 l1_inclusion_block |-> Inclusion]]
        /\ start_epoch_num(output) = input.blocks[1].epoch

\* What the node derives after a restart on block k, or after a purge down to a block k
\* that is the first of its epoch.
ResumesAlike(k) ==
    LET rest == SubSeq(input, k + 1, Len(input))
        tail == SubSeq(wire, k + 1, Len(wire))
        head == output[k]
    IN  /\ head.ok
        /\ Derived(NewStage(head), rest) = tail
        /\ head.seq = 0 => Derived(PurgedStage(head), rest) = tail

\* The comment on HeadInfo: the head info of an L2 block is its epoch and its "position in
\* the epoch".  So a node that takes it from any of its own blocks goes on deriving
\* exactly the blocks it would have derived anyway.
ResumesAlways == Done("attributes") => \A k \in DOMAIN wire : ResumesAlike(k)

\* The same for blocks up to the first one of Ecotone, whose attributes are still written
\* in the format in which they are read.
ResumesUntilEcotone ==
    Done("attributes") =>
        \A k \in DOMAIN wire :
            ~is_ecotone_but_not_first_block(wire[k].timestamp) => ResumesAlike(k)

\* The transactions that are deposits, of all blocks.
Deposits(blocks) ==
    SelectSeq(FlattenSeq([k \in DOMAIN blocks |-> blocks[k].transactions]),
              LAMBDA tx : Len(tx) = 9 /\ tx[1] = 126)

\* Every deposited transaction of the chain has a source hash of its own, and the deposits
\* of an L1 block are in the chain once if the chain has a block of that epoch.
DepositsOnce ==
    kind = "attributes" =>
        LET all == Deposits(wire)
        IN  /\ \A i, j \in DOMAIN all : all[i][2] = all[j][2] => i = j
            /\ \A i \in DOMAIN input : \A n \in DOMAIN L1Info[input[i].epoch].logs :
                  LET d == UserDeposited(L1Info[input[i].epoch].logs[n])
                  IN  input[i].epoch # 0 =>
                        \E j \in DOMAIN all : all[j][2] = SourceHash(d) /\ all[j][3] = d.from
=============================================================================
