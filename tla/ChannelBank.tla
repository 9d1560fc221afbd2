---------------------------- MODULE ChannelBank ----------------------------
(***************************************************************************)
(* The first two stages of the derivation pipeline:                        *)
(* BatcherTransactions (derive/stages/batcher_transactions.rs), which      *)
(* decodes the transactions of the batch inbox into frames, and Channels   *)
(* (derive/stages/channels.rs), which collects frames into channels.       *)
(*                                                                         *)
(* The driver thread sends the transactions of every L1 block into an mpsc *)
(* channel and then calls next() on the pipeline until it yields nothing.  *)
(* A call of Channels::next is several steps of this module, one per turn  *)
(* of the loops it runs; pc says where the call is.  Nothing but the call  *)
(* itself may step while it runs.                                          *)
(*                                                                         *)
(* A frame's payload is left out: channel id and frame number name it.     *)
(* The frames of a pending channel are a set, because they have distinct   *)
(* numbers (ChannelInv) and assemble() sorts them by number.           *)
(***************************************************************************)
EXTENDS Integers, Sequences, FiniteSets, SequencesExt

CONSTANTS
    ChannelIds,       \* channel ids
    RawFrames,        \* frames a batcher may put into a transaction
    BadFrame,         \* bytes that Frame::from_data rejects
    BlockTxs,         \* what an L1 block may carry: sequences of transactions
    MaxChannelSize,   \* config.chain.max_channel_size
    ChannelTimeout,   \* config.chain.channel_timeout
    U16,              \* 2^16: the width of frame_number and size
    MaxL1Block,       \* bound: last L1 block number
    MaxPurges         \* bound: number of reorgs

RawFrame == [channel_id : ChannelIds, frame_number : 0..(U16 - 1),
             frame_data_len : Nat, is_last : BOOLEAN]

\* A batcher transaction as it stands on L1: the frames one after the other.
RawTx == Seq(RawFrames \cup {BadFrame})

ASSUME ConstantsAssumption ==
    /\ U16 \in Nat \ {0}
    /\ MaxChannelSize \in Nat
    /\ ChannelTimeout \in Nat
    /\ MaxL1Block \in Nat
    /\ MaxPurges \in Nat
    /\ BadFrame \notin RawFrames

ASSUME FramesAssumption == RawFrames \subseteq RawFrame

ASSUME BlockTxsAssumption == BlockTxs \subseteq Seq(RawTx)

\* PendingChannel::size when no frame with is_last was seen.
NoSize == -1

Frame == [channel_id : ChannelIds, frame_number : 0..(U16 - 1),
          frame_data_len : Nat, is_last : BOOLEAN, l1_inclusion_block : Nat]

PendingChannel == [channel_id : ChannelIds, frames : SUBSET Frame,
                   size : 0..(U16 - 1) \cup {NoSize},
                   highest_l1_block : Nat, lowest_l1_block : Nat]

Channel == [id : ChannelIds, frames : SUBSET Frame, l1_inclusion_block : Nat]

VARIABLES
    l1_block,         \* number of the last L1 block handed to the pipeline
    transaction_rx,   \* mpsc channel of BatcherTransactionMessages
    txs,              \* BatcherTransactions::txs, each the sequence of its frames
    frame_bank,       \* Channels::frame_bank
    pending_channels, \* Channels::pending_channels
    pc,               \* where the running call of Channels::next is
    frame_id,         \* local frame_channel_id of process_frames
    purges,           \* number of purges so far
    submitted,        \* history: raw frames of the L1 blocks since the last purge
    emitted           \* history: channels returned since the last purge

vars == <<l1_block, transaction_rx, txs, frame_bank, pending_channels, pc,
          frame_id, purges, submitted, emitted>>

-----------------------------------------------------------------------------
(* Decoding a batcher transaction *)

\* BatcherTransaction::new parses frames while offset < frame_data.len().
\* Frame::from_data answers offset + data.len(), where data is what is left
\* of the whole transaction, so the loop body runs at most once.
ParsedFrames(tx) == IF tx = <<>> THEN <<>> ELSE <<Head(tx)>>

Decodable(tx) == BadFrame \notin Range(ParsedFrames(tx))

FrameOf(raw, l1) ==
    [channel_id |-> raw.channel_id, frame_number |-> raw.frame_number,
     frame_data_len |-> raw.frame_data_len, is_last |-> raw.is_last,
     l1_inclusion_block |-> l1]

BatcherTransaction(tx, l1) ==
    [i \in DOMAIN ParsedFrames(tx) |-> FrameOf(ParsedFrames(tx)[i], l1)]

-----------------------------------------------------------------------------
(* Pending channels *)

\* The size a frame marked is_last gives its channel; u16 arithmetic wraps.
SizeAt(frame, size) ==
    IF frame.is_last THEN (frame.frame_number + 1) % U16 ELSE size

NewPendingChannel(frame) ==
    [channel_id       |-> frame.channel_id,
     frames           |-> {frame},
     size             |-> SizeAt(frame, NoSize),
     highest_l1_block |-> frame.l1_inclusion_block,
     lowest_l1_block  |-> frame.l1_inclusion_block]

\* The mutation: a frame that was already seen is added again.
HasSeen_Never(c, frame) == FALSE

HasSeen(c, frame) == \E f \in c.frames : f.frame_number = frame.frame_number

\* PendingChannel::push_frame.
AddFrame(c, frame) ==
    LET l1 == frame.l1_inclusion_block
    IN  IF HasSeen(c, frame)
        THEN c
        ELSE [channel_id       |-> c.channel_id,
              frames           |-> c.frames \cup {frame},
              size             |-> SizeAt(frame, c.size),
              highest_l1_block |-> IF l1 > c.highest_l1_block
                                   THEN l1 ELSE c.highest_l1_block,
              lowest_l1_block  |-> IF l1 < c.lowest_l1_block
                                   THEN l1 ELSE c.lowest_l1_block]

\* The mutation: the last frame alone makes the channel complete.
IsComplete_LastSeen(c) == c.size # NoSize

\* frames.len() as u16 == size.
IsComplete(c) == c.size = Cardinality(c.frames) % U16

\* The mutation: a channel times out one block early.
IsTimedOut_Early(c) == c.highest_l1_block - c.lowest_l1_block >= ChannelTimeout

IsTimedOut(c) == c.highest_l1_block - c.lowest_l1_block > ChannelTimeout

ChannelOf(c) ==
    [id |-> c.channel_id, frames |-> c.frames,
     l1_inclusion_block |-> Max({f.l1_inclusion_block : f \in c.frames})]

ChannelSize(c) == MapThenSumSet(LAMBDA f : f.frame_data_len, c.frames)

TotalSize(pcs) == MapThenSumSet(LAMBDA i : ChannelSize(pcs[i]), DOMAIN pcs)

IndicesOf(pcs, id) == {i \in DOMAIN pcs : pcs[i].channel_id = id}

IsFirst(i, S) == i \in S /\ \A j \in S : i <= j

-----------------------------------------------------------------------------
Init ==
    /\ l1_block = 0
    /\ transaction_rx = <<>>
    /\ txs = <<>>
    /\ frame_bank = <<>>
    /\ pending_channels = <<>>
    /\ pc = "idle"
    /\ frame_id \in ChannelIds
    /\ purges = 0
    /\ submitted = {}
    /\ emitted = {}

\* Pipeline::push_batcher_transactions for the next L1 block.
PushBatcherTransactions(block) ==
    /\ pc = "idle"
    /\ l1_block < MaxL1Block
    /\ l1_block' = l1_block + 1
    /\ transaction_rx' = Append(transaction_rx, [txs |-> block, l1_origin |-> l1_block + 1])
    /\ submitted' = submitted \cup
         {FrameOf(f, l1_block + 1) :
            f \in (UNION {Range(block[i]) : i \in DOMAIN block}) \ {BadFrame}}
    /\ UNCHANGED <<txs, frame_bank, pending_channels, pc, frame_id, purges, emitted>>

\* The mutation: decoded transactions survive the purge.
Purge_KeepsTxs(start) ==
    /\ pc = "idle"
    /\ purges < MaxPurges
    /\ purges' = purges + 1
    /\ l1_block' = start
    /\ transaction_rx' = <<>>
    /\ txs' = txs
    /\ frame_bank' = <<>>
    /\ pending_channels' = <<>>
    /\ submitted' = {}
    /\ emitted' = {}
    /\ UNCHANGED <<pc, frame_id>>

\* Pipeline::purge on an L1 reorg; the watcher starts again at an earlier block.
Purge(start) ==
    /\ pc = "idle"
    /\ purges < MaxPurges
    /\ purges' = purges + 1
    /\ l1_block' = start
    /\ transaction_rx' = <<>>
    /\ txs' = <<>>
    /\ frame_bank' = <<>>
    /\ pending_channels' = <<>>
    /\ submitted' = {}
    /\ emitted' = {}
    /\ UNCHANGED <<pc, frame_id>>

\* A call of Channels::next by the Batches stage.
CallNext ==
    /\ pc = "idle"
    /\ pc' = "incoming"
    /\ UNCHANGED <<l1_block, transaction_rx, txs, frame_bank, pending_channels,
                   frame_id, purges, submitted, emitted>>

\* One turn of process_incoming: a transaction is decoded and queued, or
\* dropped; a message without further transactions leaves the channel.
ProcessIncoming ==
    /\ pc = "incoming"
    /\ transaction_rx # <<>>
    /\ LET msg == Head(transaction_rx)
       IN  \/ /\ msg.txs = <<>>
              /\ transaction_rx' = Tail(transaction_rx)
              /\ UNCHANGED txs
           \/ /\ msg.txs # <<>>
              /\ transaction_rx' =
                   <<[txs |-> Tail(msg.txs), l1_origin |-> msg.l1_origin]>>
                     \o Tail(transaction_rx)
              /\ txs' = IF Decodable(Head(msg.txs))
                        THEN Append(txs, BatcherTransaction(Head(msg.txs), msg.l1_origin))
                        ELSE txs
    /\ UNCHANGED <<l1_block, frame_bank, pending_channels, pc, frame_id, purges,
                   submitted, emitted>>

\* The mutation: the transaction stays at the front of the deque.
FillBank_KeepsTx ==
    /\ pc = "incoming"
    /\ transaction_rx = <<>>
    /\ pc' = "frames"
    /\ frame_bank' = IF txs = <<>> THEN frame_bank ELSE frame_bank \o Head(txs)
    /\ UNCHANGED <<l1_block, transaction_rx, txs, pending_channels, frame_id,
                   purges, submitted, emitted>>

\* fill_bank: the frames of at most one transaction move to the bank.
FillBank ==
    /\ pc = "incoming"
    /\ transaction_rx = <<>>
    /\ pc' = "frames"
    /\ \/ /\ txs = <<>>
          /\ UNCHANGED <<txs, frame_bank>>
       \/ /\ txs # <<>>
          /\ frame_bank' = frame_bank \o Head(txs)
          /\ txs' = Tail(txs)
    /\ UNCHANGED <<l1_block, transaction_rx, pending_channels, frame_id, purges,
                   submitted, emitted>>

\* The mutation: the timeout is not looked at.
PushFrame_NoTimeout(frame) ==
    LET known == IndicesOf(pending_channels, frame.channel_id)
    IN  \/ /\ known = {}
           /\ pending_channels' = Append(pending_channels, NewPendingChannel(frame))
        \/ \E i \in known :
             /\ IsFirst(i, known)
             /\ pending_channels' =
                  [pending_channels EXCEPT ![i] = AddFrame(pending_channels[i], frame)]

\* Channels::push_frame.
PushFrame(frame) ==
    LET known == IndicesOf(pending_channels, frame.channel_id)
    IN  \/ /\ known = {}
           /\ pending_channels' = Append(pending_channels, NewPendingChannel(frame))
        \/ \E i \in known :
             LET c == AddFrame(pending_channels[i], frame)
             IN  /\ IsFirst(i, known)
                 /\ pending_channels' = IF IsTimedOut(c)
                                        THEN RemoveAt(pending_channels, i)
                                        ELSE [pending_channels EXCEPT ![i] = c]

\* The body of the loop of process_frames up to push_frame.
ProcessFrame ==
    /\ pc = "frames"
    /\ frame_bank # <<>>
    /\ frame_id' = Head(frame_bank).channel_id
    /\ frame_bank' = Tail(frame_bank)
    /\ PushFrame(Head(frame_bank))
    /\ pc' = "prune"
    /\ UNCHANGED <<l1_block, transaction_rx, txs, purges, submitted, emitted>>

\* prune: the oldest pending channel goes while the bank is too large.
Prune ==
    /\ pc = "prune"
    /\ \/ /\ TotalSize(pending_channels) > MaxChannelSize
          /\ pending_channels # <<>>
          /\ pending_channels' = Tail(pending_channels)
          /\ UNCHANGED pc
       \/ /\ TotalSize(pending_channels) <= MaxChannelSize
          /\ pc' = "fetch"
          /\ UNCHANGED pending_channels
    /\ UNCHANGED <<l1_block, transaction_rx, txs, frame_bank, frame_id, purges,
                   submitted, emitted>>

\* fetch_ready_channel: a complete channel ends the call, otherwise the loop
\* goes on.
FetchReadyChannel ==
    /\ pc = "fetch"
    /\ LET ready == {i \in IndicesOf(pending_channels, frame_id) :
                        IsComplete(pending_channels[i])}
       IN  \/ /\ ready = {}
              /\ pc' = "frames"
              /\ UNCHANGED <<pending_channels, emitted>>
           \/ \E i \in ready :
                /\ IsFirst(i, ready)
                /\ pending_channels' = RemoveAt(pending_channels, i)
                /\ emitted' = emitted \cup {ChannelOf(pending_channels[i])}
                /\ pc' = "idle"
    /\ UNCHANGED <<l1_block, transaction_rx, txs, frame_bank, frame_id, purges, submitted>>

\* No frame is left: the call returns None.
ReturnNone ==
    /\ pc = "frames"
    /\ frame_bank = <<>>
    /\ pc' = "idle"
    /\ UNCHANGED <<l1_block, transaction_rx, txs, frame_bank, pending_channels,
                   frame_id, purges, submitted, emitted>>

ChannelsNext ==
    \/ CallNext
    \/ ProcessIncoming
    \/ FillBank
    \/ ProcessFrame
    \/ Prune
    \/ FetchReadyChannel
    \/ ReturnNone

Next ==
    \/ \E block \in BlockTxs : PushBatcherTransactions(block)
    \/ \E start \in 0..l1_block : Purge(start)
    \/ ChannelsNext

Spec == Init /\ [][Next]_vars

\* Driver::start advances forever, and every advance calls next() on the
\* pipeline until it yields nothing; no step of the call waits for anything.
FairSpec == Spec /\ WF_vars(ChannelsNext)

-----------------------------------------------------------------------------
(* Properties *)

Message == [txs : Seq(RawTx), l1_origin : Nat]

\* The type invariant of the two stages.
TypeOK ==
    /\ l1_block \in Nat
    /\ transaction_rx \in Seq(Message)
    /\ txs \in Seq(Seq(Frame))
    /\ frame_bank \in Seq(Frame)
    /\ pending_channels \in Seq(PendingChannel)
    /\ pc \in {"idle", "incoming", "frames", "prune", "fetch"}
    /\ frame_id \in ChannelIds
    /\ purges \in 0..MaxPurges
    /\ submitted \subseteq Frame
    /\ emitted \subseteq Channel

\* No two pending channels share an id.
UniqueIds ==
    \A i, j \in DOMAIN pending_channels :
        pending_channels[i].channel_id = pending_channels[j].channel_id => i = j

\* A frame that a batcher submitted.
Submittable(f) == \E r \in RawFrames : f = FrameOf(r, f.l1_inclusion_block)

\* A pending channel holds only frames of its own id, no frame number twice
\* (assemble() would put the payload into the channel twice); highest_l1_block
\* and lowest_l1_block are the extremes of its frames and no further apart than
\* the timeout; size is set if and only if a last frame is there, to its number
\* plus one.
ChannelInv(c) ==
    /\ IsFiniteSet(c.frames)
    /\ \A f \in c.frames :
         /\ f.channel_id = c.channel_id
         /\ Submittable(f)
         /\ f.l1_inclusion_block <= c.highest_l1_block
         /\ f.l1_inclusion_block >= c.lowest_l1_block
    /\ \E f \in c.frames : f.l1_inclusion_block = c.highest_l1_block
    /\ \E f \in c.frames : f.l1_inclusion_block = c.lowest_l1_block
    /\ c.highest_l1_block - c.lowest_l1_block <= ChannelTimeout
    /\ \A f, g \in c.frames : f.frame_number = g.frame_number => f = g
    /\ \/ c.size = NoSize /\ \A f \in c.frames : ~f.is_last
       \/ \E f \in c.frames : f.is_last /\ c.size = (f.frame_number + 1) % U16

\* A channel that is complete is handed on in the call that completed it: none
\* stays behind, where only a further frame of the same channel would find it.
NoCompleteChannelLingers ==
    \A i \in DOMAIN pending_channels :
        IsComplete(pending_channels[i]) =>
            /\ pc \in {"prune", "fetch"}
            /\ pending_channels[i].channel_id = frame_id

\* The invariant of the channel bank, whatever frames are submitted: ids are
\* unique, every pending channel is in order, complete channels leave.
BankInv ==
    /\ UniqueIds
    /\ \A i \in DOMAIN pending_channels : ChannelInv(pending_channels[i])
    /\ NoCompleteChannelLingers

\* Frames reach the bank in the order of the L1 blocks they are in, and nothing
\* of a chain that was purged is left anywhere: a frame waiting behind another is
\* in the same or a later block, and none is later than the last block pushed.
L1Order ==
    LET held   == UNION {c.frames : c \in Range(pending_channels)}
        bank   == Range(frame_bank)
        queued == UNION {Range(tx) : tx \in Range(txs)}
    IN  /\ \A f \in held, g \in bank \cup queued :
             f.l1_inclusion_block <= g.l1_inclusion_block
        /\ \A f \in bank, g \in queued : f.l1_inclusion_block <= g.l1_inclusion_block
        /\ \A f \in held \cup bank \cup queued, m \in Range(transaction_rx) :
             f.l1_inclusion_block <= m.l1_origin
        /\ \A f \in held \cup bank \cup queued : f.l1_inclusion_block <= l1_block

\* A batcher that follows the protocol numbers the frames of a channel from 0 and
\* marks the highest one, and only that, as the last.
HonestFrames ==
    \A f, g \in RawFrames : f.channel_id = g.channel_id =>
        /\ f.is_last => g.frame_number <= f.frame_number
        /\ f.frame_number = g.frame_number => f = g

\* A channel that is handed on is whole: it has exactly the frames 0..n, n being
\* its last frame, in order, with nothing missing or repeated.
EmittedWhole ==
    HonestFrames =>
        \A ch \in emitted : \E last \in ch.frames :
            /\ last.is_last
            /\ {f.frame_number : f \in ch.frames} = 0..last.frame_number
            /\ \A f, g \in ch.frames : f.frame_number = g.frame_number => f = g

\* The frames of a channel that is handed on lie within the channel timeout, and
\* its inclusion block is the block of its latest frame.
EmittedInTime ==
    \A ch \in emitted :
        /\ \A f, g \in ch.frames :
             f.l1_inclusion_block - g.l1_inclusion_block <= ChannelTimeout
        /\ ch.l1_inclusion_block \in {f.l1_inclusion_block : f \in ch.frames}
        /\ \A f \in ch.frames : f.l1_inclusion_block <= ch.l1_inclusion_block

Drained == pc = "idle" /\ transaction_rx = <<>> /\ txs = <<>> /\ frame_bank = <<>>

\* A channel all of whose frames are on L1, close enough together and in a bank
\* with room for them, is handed on once the stages have caught up, in whatever
\* order and however often the frames were submitted.
CompleteChannelsDelivered ==
    (Drained /\ HonestFrames /\
     MapThenSumSet(LAMBDA f : f.frame_data_len,
                   {r \in RawFrames : \E s \in submitted :
                       s.channel_id = r.channel_id /\ s.frame_number = r.frame_number})
       <= MaxChannelSize) =>
    \A id \in ChannelIds :
        LET own == {f \in submitted : f.channel_id = id}
        IN  (/\ \E last \in own :
                  last.is_last /\ {f.frame_number : f \in own} = 0..last.frame_number
             /\ \A f, g \in own :
                  f.l1_inclusion_block - g.l1_inclusion_block <= ChannelTimeout)
            => \E ch \in emitted : ch.id = id

\* The stages always catch up with what the driver sent them.
EventuallyDrained == []<>Drained

=============================================================================
