----------------------------- MODULE Derivation -----------------------------
(***************************************************************************)
(* The last two stages of the derivation pipeline and the state they share *)
(* with the driver: Batches (derive/stages/batches.rs), which decides      *)
(* which batches of the channels become L2 blocks and makes empty blocks   *)
(* where there are none, Attributes (derive/stages/attributes.rs), which   *)
(* gives a block its place in the epoch, and State (derive/state.rs), the  *)
(* cached L1 and L2 blocks.                                                *)
(*                                                                         *)
(* Time is counted in L2 blocks from L2 genesis; L1 block n has timestamp  *)
(* n * L1Time.  An L2 block is the chain that leads to it, a sequence of   *)
(* contents, as in Driver; here the engine always accepts what was         *)
(* derived.                                                                *)
(*                                                                         *)
(* A batcher and a sequencer are the environment.  They may follow the     *)
(* protocol or not (Kinds, Timely).                                        *)
(***************************************************************************)
EXTENDS Integers, Sequences, FiniteSets, SequencesExt, Subsequences

CONSTANTS
    L1Time,          \* L2 blocks per L1 block
    SeqWindow,       \* config.chain.seq_window_size
    MaxSeqDrift,     \* config.chain.max_seq_drift
    ChannelTimeout,  \* config.chain.channel_timeout
    U64,             \* stands for 2^64: where an unsigned subtraction wraps
    L2Genesis,       \* config.chain.l2_genesis.number
    DeltaTime,       \* config.chain.delta_time: span batches are valid from here on
    Kinds,           \* what batcher transactions may hold
    Timely,          \* whether every block is posted within its sequencing window
    MaxTxs,          \* bound: batcher transactions per L1 block
    MaxL1,           \* bound: number of the last L1 block
    MaxL2,           \* bound: number of the last L2 block posted
    MaxReorgs        \* bound: number of L1 reorgs

AllKinds == {"frame", "corrupt", "single", "again", "span", "overlap",
             "skip", "early", "orphan", "invalid"}

ASSUME DerivationAssumption ==
    /\ L1Time \in Nat \ {0} /\ SeqWindow \in Nat /\ MaxSeqDrift \in Nat
    /\ ChannelTimeout \in Nat /\ U64 \in Nat \ {0}
    /\ L2Genesis \in Nat /\ DeltaTime \in Nat
    /\ Kinds \subseteq AllKinds /\ Timely \in BOOLEAN
    /\ MaxTxs \in 0..2 /\ MaxL1 \in Nat /\ MaxL2 \in Nat /\ MaxReorgs \in Nat

VARIABLES
    \* L1
    l1,                  \* canonical L1 chain: l1[n + 1] is block n
    l1_finalized,        \* number of the last finalized L1 block
    minted,              \* L1 hashes given out so far
    reorgs,              \* L1 reorgs so far
    \* the chain watcher's place in L1
    next_block,
    last_hash,           \* hash of the block before next_block, or -1
    \* the stages
    txs,                 \* batcher transactions not read yet
    batches,             \* Batches::batches
    pending_inputs,      \* Batches::pending_inputs
    sequence_number,     \* Attributes::sequence_number
    epoch_hash,          \* Attributes::epoch_hash
    \* State
    l1_info,             \* block number |-> hash
    l2_refs,             \* block number |-> block
    current_epoch_num,
    safe_head,           \* with safe_epoch, the epoch of its last content
    \* the driver
    finalized_head,
    pc

l1_vars == <<l1, l1_finalized, minted, reorgs>>
watcher_vars == <<next_block, last_hash>>
batch_vars == <<txs, batches, pending_inputs>>
seq_vars == <<sequence_number, epoch_hash>>
state_vars == <<l1_info, l2_refs, current_epoch_num, safe_head>>
vars == <<l1_vars, watcher_vars, batch_vars, seq_vars, state_vars, finalized_head, pc>>

-----------------------------------------------------------------------------
Genesis == <<>>
Timestamp(l1_number) == l1_number * L1Time

EpochOf(block) ==
    IF block = Genesis THEN [number |-> 0, hash |-> 0] ELSE Last(block).epoch
PositionOf(block) == IF block = Genesis THEN 0 ELSE Last(block).seq
TimeOf(block) == IF block = Genesis THEN 0 ELSE Last(block).time
Number(block) == L2Genesis + Len(block)

\* The content of the block on top of `block` in the given epoch: user deposits
\* come with the first block of an epoch.
ContentOn(block, epoch, some_txs) ==
    LET first == epoch # EpochOf(block)
    IN  [epoch    |-> epoch,
         time     |-> TimeOf(block) + 1,
         seq      |-> IF first THEN 0 ELSE PositionOf(block) + 1,
         deposits |-> IF first THEN epoch.hash ELSE -1,
         txs      |-> some_txs]

-----------------------------------------------------------------------------
(* Sequencer and batcher *)

\* What the sequencer may build on `block` while c is the L1 chain: in the same epoch
\* or the next one, with transactions while the drift allows them.
Sequenced(block, c) ==
    LET time == TimeOf(block) + 1
        e    == EpochOf(block)
        next == IF e.number + 2 <= Len(c) /\ Timestamp(e.number + 1) <= time
                THEN {[number |-> e.number + 1, hash |-> c[e.number + 2].hash]} ELSE {}
        same == IF \/ time <= Timestamp(e.number) + MaxSeqDrift
                   \/ time < Timestamp(e.number + 1) /\ e.number + 2 <= Len(c)
                THEN {e} ELSE {}
    IN  IF Len(block) >= MaxL2 THEN {}
        ELSE {Append(block, ContentOn(block, x,
                  IF time <= Timestamp(x.number) + MaxSeqDrift THEN "some" ELSE "none")) :
                  x \in same \cup next}

SingleBatch(block) ==
    [kind |-> "single", timestamp |-> TimeOf(block), parent |-> Front(block),
     epoch |-> EpochOf(block), txs |-> Last(block).txs]

\* The blocks after number `from` up to the last one as a span batch.
SpanBatch(block, from) ==
    LET before == SubSeq(block, 1, from)
    IN  [kind |-> "span", timestamp |-> TimeOf(before) + 1, parent |-> before,
         origin |-> EpochOf(block),
         origin_bits |-> [i \in 1..(Len(block) - from) |->
                            EpochOf(SubSeq(block, 1, from + i)) #
                            EpochOf(SubSeq(block, 1, from + i - 1))],
         txs |-> [i \in 1..(Len(block) - from) |-> block[from + i].txs]]

Channel(batch) == [type |-> "channel", batches |-> <<batch>>]

\* What one batcher transaction of the block on top of chain c may hold, the chain
\* posted after it, and whether the blocks in it are in their sequencing window.
Post(tip, c) ==
    LET one == Sequenced(tip, c)
        two == UNION {Sequenced(b, c) : b \in one}
        far == EpochOf(tip).number + 2
        P(kind, tx, t, first) ==
            [kind |-> kind, tx |-> tx, tip |-> t,
             timely |-> EpochOf(first).number + SeqWindow >= Len(c)]
    IN  {p \in
          {P(k, [type |-> k], tip, tip) : k \in {"frame", "corrupt"}}
          \cup {P("single", Channel(SingleBatch(b)), b, b) : b \in one}
          \cup {P("span", Channel(SpanBatch(b, Len(b) - 2)), b, Front(b)) : b \in two}
          \cup {P("again", Channel(SingleBatch(tip)), tip, tip) : b \in {tip} \ {Genesis}}
          \cup {P("overlap", Channel(SpanBatch(b, Len(b) - 2)), b, tip) :
                    b \in {x \in one : Len(x) >= 2}}
          \* against the protocol: a batch ahead of its parent, on an unknown parent,
          \* with a deposit among its transactions; a span batch that leaves out an epoch
          \cup {P("early", Channel(SingleBatch(b)), tip, tip) : b \in two}
          \cup {P("orphan", Channel([SingleBatch(b) EXCEPT !.parent = b]), tip, tip) : b \in one}
          \cup {P("invalid", Channel([SingleBatch(b) EXCEPT !.txs = "invalid"]), tip, tip) :
                    b \in one}
          \cup {P("skip", Channel([SpanBatch(b, Len(b) - 1) EXCEPT
                                    !.origin = [number |-> far, hash |-> c[far + 1].hash],
                                    !.origin_bits = <<TRUE>>]), tip, tip) :
                    b \in {x \in one : far < Len(c)}} :
         p.kind \in Kinds}

\* The transactions of an L1 block on top of chain c, and the chain posted after it.
Posts(c) ==
    LET none  == {[txs |-> <<>>, tip |-> Last(c).tip, timely |-> TRUE]}
        After(ps) == UNION {{[txs |-> Append(p.txs, q.tx), tip |-> q.tip,
                              timely |-> p.timely /\ q.timely] : q \in Post(p.tip, c)} :
                            p \in ps}
        one   == IF MaxTxs >= 1 THEN After(none) ELSE {}
        two   == IF MaxTxs >= 2 THEN After(one) ELSE {}
    IN  none \cup one \cup two

\* Chain c and one more block.  A timely batcher posts every block within its window,
\* and does not let the window of the last one end.
Extended(c) ==
    {Append(c, [hash |-> minted + 1, txs |-> p.txs, tip |-> p.tip]) :
        p \in {q \in Posts(c) :
                 Timely => q.timely /\ EpochOf(q.tip).number + SeqWindow >= Len(c)}}

Mine ==
    /\ Len(l1) <= MaxL1
    /\ l1' \in Extended(l1)
    /\ minted' = minted + 1
    /\ UNCHANGED <<l1_finalized, reorgs, watcher_vars, batch_vars, seq_vars, state_vars,
                   finalized_head, pc>>

\* Block n and everything above it is replaced by one new block.
ReplaceFrom(n) ==
    /\ reorgs < MaxReorgs
    /\ l1' \in Extended(SubSeq(l1, 1, n))
    /\ minted' = minted + 1
    /\ reorgs' = reorgs + 1
    /\ UNCHANGED <<l1_finalized, watcher_vars, batch_vars, seq_vars, state_vars,
                   finalized_head, pc>>

L1Step == Mine \/ \E n \in (l1_finalized + 1)..(Len(l1) - 1) : ReplaceFrom(n)

-----------------------------------------------------------------------------
(* State *)

Pruned(f, until) == Restrict(f, {n \in DOMAIN f : n >= until})

Put(f, n, v) == [m \in DOMAIN f \cup {n} |-> IF m = n THEN v ELSE f[m]]

\* The mutation: one block too many is forgotten.
LookbackStart_OffByOne(head) == (Number(head) - MaxSeqDrift + 1) % U64

\* prune, second part: blocks older than the lookback are forgotten.  The subtraction
\* is on u64 and wraps.
LookbackStart(head) == (Number(head) - MaxSeqDrift) % U64

\* update_l1_info with prune.
UpdateL1Info(n, hash) ==
    /\ current_epoch_num' = n
    /\ l1_info' = LET from == EpochOf(safe_head).number - SeqWindow
                  IN  Pruned(Put(l1_info, n, hash), IF from > 0 THEN from ELSE 0)

\* update_safe_head.
UpdateSafeHead(refs, head) ==
    /\ safe_head' = head
    /\ l2_refs' = Put(refs, Number(head), head)

\* epoch_by_number, as a set with at most one element.
EpochByNumber(n) ==
    IF n \in DOMAIN l1_info THEN {[number |-> n, hash |-> l1_info[n]]} ELSE {}

\* l2_info_by_timestamp, as a set with at most one element.
L2InfoByTimestamp(time) ==
    {l2_refs[n] : n \in {time + L2Genesis} \cap DOMAIN l2_refs}

safe_epoch == EpochOf(safe_head)
next_epoch == EpochByNumber(safe_epoch.number + 1)
next_timestamp == TimeOf(safe_head) + 1

-----------------------------------------------------------------------------
(* Batches *)

\* The mutation: the last block of the window is not part of it.
WindowElapsed_Early(epoch_num, inclusion) == epoch_num + SeqWindow <= inclusion

\* The batch is in an L1 block after its sequencing window.
WindowElapsed(epoch_num, inclusion) == epoch_num + SeqWindow < inclusion

\* A block in epoch `origin` breaks the rule on sequencer drift, given what is known of
\* the next epoch: with transactions, or without them when the next epoch has begun.
DriftTooLarge(time, origin, some_txs, next, stays) ==
    /\ time > Timestamp(origin.number) + MaxSeqDrift
    /\ \/ some_txs # "none"
       \/ stays /\ \E e \in next : time >= Timestamp(e.number)

DriftUndecided(time, origin, some_txs, next, stays) ==
    /\ time > Timestamp(origin.number) + MaxSeqDrift
    /\ some_txs = "none" /\ stays /\ next = {}

\* The epochs a single batch with the given epoch number may refer to.
Origins(number) == IF number = safe_epoch.number THEN {safe_epoch} ELSE next_epoch

\* The mutation: the transactions are not looked at.
HasInvalidTransactions_Never(b) == FALSE

HasInvalidTransactions(b) == b.txs = "invalid"

\* single_batch_status.
SingleBatchStatus(b, inclusion) ==
    LET origin == Origins(b.epoch.number)
        stays  == b.epoch.number = safe_epoch.number
    IN  IF b.timestamp > next_timestamp THEN "Future"
        ELSE IF \/ b.timestamp < next_timestamp
                \/ b.parent # safe_head
                \/ WindowElapsed(b.epoch.number, inclusion)
                \/ b.epoch.number \notin {safe_epoch.number, safe_epoch.number + 1} THEN "Drop"
        ELSE IF origin = {} THEN "Undecided"
        ELSE IF \E o \in origin : \/ b.epoch.hash # o.hash
                                  \/ b.timestamp < Timestamp(o.number)
                                  \/ DriftTooLarge(b.timestamp, o, b.txs, next_epoch, stays)
             THEN "Drop"
        ELSE IF \E o \in origin : DriftUndecided(b.timestamp, o, b.txs, next_epoch, stays)
             THEN "Undecided"
        ELSE IF HasInvalidTransactions(b) THEN "Drop"
        ELSE "Accept"

Count(bits) == Cardinality({i \in DOMAIN bits : bits[i]})

\* start_epoch_num.
StartEpochNum(b) ==
    b.origin.number - Count(b.origin_bits) + (IF b.origin_bits[1] THEN 1 ELSE 0)

\* SpanBatch::block_inputs.
BlockInputs(b) ==
    [i \in DOMAIN b.origin_bits |->
        [timestamp |-> b.timestamp + i - 1,
         epoch |-> b.origin.number - Count(b.origin_bits) + Count(SubSeq(b.origin_bits, 1, i)),
         txs |-> b.txs[i]]]

\* What the loop on sequencer drift makes of one block of a span batch.
InputVerdict(b, i) ==
    LET input == BlockInputs(b)[i]
        known == EpochByNumber(input.epoch)
        next  == EpochByNumber(input.epoch + 1)
        stays == ~b.origin_bits[i]
    IN  IF known = {} THEN "Panic"
        ELSE IF \E o \in known : \/ input.timestamp < Timestamp(o.number)
                                 \/ DriftTooLarge(input.timestamp, o, input.txs, next, stays)
             THEN "Drop"
        ELSE IF \E o \in known : DriftUndecided(input.timestamp, o, input.txs, next, stays)
             THEN "Undecided"
        ELSE "Accept"

\* The first block of a span batch that the loop returns on, as a set.
Stops(b) ==
    LET bad == {i \in DOMAIN b.origin_bits : InputVerdict(b, i) # "Accept"}
    IN  {i \in bad : \A j \in bad : i <= j}

\* Blocks of a span batch that L2 already has must be in the same epoch.
OverlapDiffers(b) ==
    \E i \in DOMAIN b.origin_bits :
        LET input == BlockInputs(b)[i]
        IN  /\ input.timestamp < next_timestamp
            /\ input.epoch \notin {EpochOf(r).number : r \in L2InfoByTimestamp(input.timestamp)}

\* span_batch_status.  Its check for a start epoch that is too large compares with the
\* number of the L2 block before the span.
SpanBatchStatus(b, inclusion) ==
    LET start == StartEpochNum(b)
        end   == b.timestamp + Len(b.origin_bits)
        prev  == L2InfoByTimestamp(b.timestamp - 1)
        delta == IF start = safe_epoch.number + 1 THEN next_epoch ELSE {safe_epoch}
    IN  IF end < next_timestamp THEN "Drop"
        ELSE IF b.timestamp > next_timestamp THEN "Future"
        ELSE IF delta = {} THEN "Undecided"
        ELSE IF \/ \E e \in delta : Timestamp(e.number) < DeltaTime
                \/ prev # {b.parent}
                \/ WindowElapsed(start, inclusion)
                \/ start > Number(b.parent) + 1
                \/ b.origin \notin EpochByNumber(b.origin.number)
                \/ start < EpochOf(b.parent).number THEN "Drop"
        ELSE IF Stops(b) # {} THEN InputVerdict(b, CHOOSE i \in Stops(b) : TRUE)
        ELSE IF OverlapDiffers(b) THEN "Drop"
        ELSE "Accept"

\* The status of an entry of Batches::batches, a batch and the L1 block it was in.
BatchStatus(e) ==
    IF e.batch.kind = "single" THEN SingleBatchStatus(e.batch, e.inclusion)
    ELSE SpanBatchStatus(e.batch, e.inclusion)

\* filter_inputs: only blocks after the safe head.
FilterInputs(inputs) ==
    Keep(inputs, {i \in DOMAIN inputs : inputs[i].timestamp > TimeOf(safe_head)})

\* as_inputs, filtered.
InputsOf(b) ==
    FilterInputs(
        IF b.kind = "single"
        THEN <<[timestamp |-> b.timestamp, epoch |-> b.epoch.number, txs |-> b.txs]>>
        ELSE BlockInputs(b))

\* try_next reads at most one batcher transaction; a channel it completes is decoded
\* and its batches replace batches of the same timestamp.
Inserted ==
    IF txs = <<>> \/ Head(txs).tx.type # "channel" THEN batches
    ELSE LET new == Head(txs).tx.batches
         IN  [t \in DOMAIN batches \cup {new[i].timestamp : i \in DOMAIN new} |->
                IF \E i \in DOMAIN new : new[i].timestamp = t
                THEN LET i == CHOOSE i \in DOMAIN new :
                                 /\ new[i].timestamp = t
                                 /\ \A j \in DOMAIN new : new[j].timestamp = t => j <= i
                     IN  [batch |-> new[i], inclusion |-> Head(txs).inclusion]
                ELSE batches[t]]

\* The batches that are left when the loop has dropped the invalid ones in front.
Undropped(bs) ==
    LET valid == {t \in DOMAIN bs : BatchStatus(bs[t]) # "Drop"}
    IN  Restrict(bs, {t \in DOMAIN bs : \E u \in valid : u <= t})

FirstStatus(bs) ==
    IF DOMAIN bs = {} THEN "None" ELSE BatchStatus(bs[Min(DOMAIN bs)])

\* The mutation: a window that is just about to end counts as over.
EmptyEpoch_Early ==
    IF next_epoch = {} \/ current_epoch_num < safe_epoch.number + SeqWindow THEN {}
    ELSE {e \in {safe_epoch} \cup next_epoch :
            IF e = safe_epoch THEN next_timestamp < Timestamp(safe_epoch.number + 1)
            ELSE /\ next_timestamp >= Timestamp(e.number)
                 /\ current_epoch_num >= e.number + SeqWindow}

\* The mutation: the next epoch is never moved to.
EmptyEpoch_Stays ==
    IF next_epoch = {} \/ current_epoch_num <= safe_epoch.number + SeqWindow THEN {}
    ELSE {e \in {safe_epoch} : next_timestamp < Timestamp(safe_epoch.number + 1)}

\* The mutation: the next epoch is moved to before its time.
EmptyEpoch_AtOnce ==
    {e \in next_epoch : current_epoch_num > e.number + SeqWindow}

\* The epoch of an empty block, if one is due: the sequencing window of the safe epoch
\* is over, and that of the next one too if the block must belong to it.
EmptyEpoch ==
    IF next_epoch = {} \/ current_epoch_num <= safe_epoch.number + SeqWindow THEN {}
    ELSE {e \in {safe_epoch} \cup next_epoch :
            IF e = safe_epoch THEN next_timestamp < Timestamp(safe_epoch.number + 1)
            ELSE /\ next_timestamp >= Timestamp(e.number)
                 /\ current_epoch_num > e.number + SeqWindow}

-----------------------------------------------------------------------------
(* Attributes, and the driver's part in every block *)

\* update_sequence_number.
NextSeq(hash) == IF epoch_hash # hash THEN 0 ELSE sequence_number + 1

\* derive_attributes for a block input, and the block the engine makes of it; the
\* driver notes it as the safe head.  The epoch of the input must be cached.
Derive(input) ==
    LET known == EpochByNumber(input.epoch)
    IN  \/ /\ known = {}
           /\ pc' = "panicked"
           /\ UNCHANGED <<seq_vars, l2_refs, safe_head>>
        \/ \E e \in known :
             LET seq == NextSeq(e.hash)
             IN  /\ sequence_number' = seq
                 /\ epoch_hash' = e.hash
                 /\ UpdateSafeHead(l2_refs, Append(safe_head,
                        [epoch |-> e, time |-> input.timestamp, seq |-> seq, txs |-> input.txs,
                         deposits |-> IF seq = 0 THEN e.hash ELSE -1]))
                 /\ UNCHANGED pc

\* A pending block input of an earlier batch.
NextPending ==
    /\ pc = "derive"
    /\ pending_inputs # <<>>
    /\ Derive(Head(pending_inputs))
    /\ pending_inputs' = Tail(pending_inputs)
    /\ UNCHANGED <<l1_vars, watcher_vars, txs, batches, l1_info, current_epoch_num, finalized_head>>

\* The first batch is accepted: its first block is derived, the others are pending.
\* All its blocks may be known already, and then the call returns nothing.
TakeBatch(bs) ==
    /\ batches' = Restrict(bs, DOMAIN bs \ {Min(DOMAIN bs)})
    /\ \E inputs \in {InputsOf(bs[Min(DOMAIN bs)].batch)} :
         IF inputs = <<>>
         THEN /\ pc' = "idle"
              /\ UNCHANGED <<pending_inputs, seq_vars, l2_refs, safe_head>>
         ELSE /\ Derive(Head(inputs))
              /\ pending_inputs' = Tail(inputs)

\* No batch is taken: an empty block if one is due, else the advance ends.
EmptyBlock ==
    \/ \E e \in EmptyEpoch :
         Derive([timestamp |-> next_timestamp, epoch |-> e.number, txs |-> "none"])
    \/ /\ EmptyEpoch = {}
       /\ pc' = "idle"
       /\ UNCHANGED <<seq_vars, l2_refs, safe_head>>

\* The rest of try_next: read a transaction, drop batches up to the first that is not
\* invalid, take it if it is accepted, else make an empty block if one is due.
NextBatch ==
    /\ pc = "derive"
    /\ pending_inputs = <<>>
    /\ txs # <<>> => Head(txs).tx.type # "corrupt"
    /\ txs' = IF txs = <<>> THEN <<>> ELSE Tail(txs)
    /\ \E bs \in {Undropped(Inserted)} : \E status \in {FirstStatus(bs)} :
         \/ status = "Accept" /\ TakeBatch(bs)
         \/ /\ status = "Panic"
            /\ pc' = "panicked"
            /\ batches' = bs
            /\ UNCHANGED <<pending_inputs, seq_vars, l2_refs, safe_head>>
         \/ /\ status \notin {"Accept", "Panic"}
            /\ batches' = bs
            /\ EmptyBlock
            /\ UNCHANGED pending_inputs
    /\ UNCHANGED <<l1_vars, watcher_vars, l1_info, current_epoch_num, finalized_head>>

\* A channel that cannot be decoded ends the call, and with it the advance.
DecodeFails ==
    /\ pc = "derive"
    /\ pending_inputs = <<>>
    /\ txs # <<>> /\ Head(txs).tx.type = "corrupt"
    /\ txs' = Tail(txs)
    /\ pc' = "idle"
    /\ UNCHANGED <<l1_vars, watcher_vars, batches, pending_inputs, seq_vars, state_vars,
                   finalized_head>>

-----------------------------------------------------------------------------
(* The driver's advance *)

\* The blocks the watcher has sent are canonical.
OnChain ==
    last_hash # -1 => next_block <= Len(l1) /\ l1[next_block].hash = last_hash

\* The mutation: the block of the epoch itself is not read again.
L1StartBlock_After(e) == e + 1

\* get_l1_start_block.
L1StartBlock(e) == IF e > ChannelTimeout THEN e - ChannelTimeout ELSE 0

\* push_batcher_transactions: the transactions of L1 block next_block join the queue.
Enqueued(block) ==
    txs \o [i \in DOMAIN block.txs |-> [tx |-> block.txs[i], inclusion |-> next_block]]

\* BlockUpdate::NewBlock.
NewBlock ==
    /\ pc = "idle"
    /\ next_block < Len(l1)
    /\ OnChain
    /\ LET block == l1[next_block + 1]
       IN  /\ txs' = Enqueued(block)
           /\ UpdateL1Info(next_block, block.hash)
           /\ UpdateSafeHead(Pruned(l2_refs, LookbackStart(safe_head)), safe_head)
           /\ last_hash' = block.hash
    /\ next_block' = next_block + 1
    /\ pc' = "derive"
    /\ UNCHANGED <<l1_vars, batches, pending_inputs, seq_vars, finalized_head>>

\* Batches::purge, and that of the stages before it.
PurgeBatches == txs' = <<>> /\ batches' = <<>> /\ pending_inputs' = <<>>

\* Attributes::purge.
PurgeAttributes ==
    /\ PurgeBatches
    /\ sequence_number' = 0
    /\ epoch_hash' = EpochOf(safe_head').hash

\* The mutation: the head stays where it was.
PurgeState_KeepsHead(head) ==
    current_epoch_num' = 0 /\ l1_info' = <<>> /\ UpdateSafeHead(l2_refs, safe_head)

\* State::purge.
PurgeState(head) ==
    current_epoch_num' = 0 /\ l1_info' = <<>> /\ UpdateSafeHead(l2_refs, head)

\* BlockUpdate::Reorg: State::purge, Pipeline::purge; the watcher starts again.
Reorg ==
    /\ pc = "idle"
    /\ next_block < Len(l1)
    /\ ~OnChain
    /\ PurgeState(finalized_head)
    /\ PurgeAttributes
    /\ next_block' = L1StartBlock(EpochOf(finalized_head).number)
    /\ last_hash' = -1
    /\ pc' = "derive"
    /\ UNCHANGED <<l1_vars, finalized_head>>

\* No update is waiting.
NoUpdate ==
    /\ pc = "idle"
    /\ pc' = "derive"
    /\ UNCHANGED <<l1_vars, watcher_vars, batch_vars, seq_vars, state_vars, finalized_head>>

\* Blocks that are the first of their epoch.
EpochStarts(block) == {n \in 1..Len(block) : block[n].seq = 0}

\* L1 finality has reached the blocks read so far; update_finalized moves to the last
\* first block of an epoch.
Finalize ==
    /\ pc = "idle"
    /\ OnChain
    /\ \E n \in EpochStarts(safe_head) :
         /\ n > Len(finalized_head)
         /\ \A m \in EpochStarts(safe_head) : m <= n
         /\ finalized_head' = SubSeq(safe_head, 1, n)
    /\ l1_finalized' = IF current_epoch_num > l1_finalized THEN current_epoch_num ELSE l1_finalized
    /\ UNCHANGED <<l1, minted, reorgs, watcher_vars, batch_vars, seq_vars, state_vars, pc>>

Init ==
    /\ l1 = <<[hash |-> 0, txs |-> <<>>, tip |-> Genesis]>>
    /\ l1_finalized = 0 /\ minted = 0 /\ reorgs = 0
    /\ next_block = 0 /\ last_hash = -1
    /\ txs = <<>> /\ batches = <<>> /\ pending_inputs = <<>>
    /\ sequence_number = 0
    /\ epoch_hash = 0
    /\ l1_info = <<>>
    /\ l2_refs = [n \in {L2Genesis} |-> Genesis]
    /\ current_epoch_num = 0
    /\ safe_head = Genesis
    /\ finalized_head = Genesis
    /\ pc = "idle"

PipelineStep == NextPending \/ NextBatch \/ DecodeFails

Next == L1Step \/ PipelineStep \/ NewBlock \/ Reorg \/ NoUpdate \/ Finalize

Spec == Init /\ [][Next]_vars

\* The driver advances without end, and gets what the watcher sends.
FairSpec ==
    /\ Spec
    /\ WF_vars(PipelineStep)
    /\ SF_vars(NewBlock)
    /\ SF_vars(Reorg)
    /\ WF_vars(NoUpdate)

-----------------------------------------------------------------------------
(* Properties *)

Contents == [epoch : [number : 0..MaxL1, hash : 0..minted], time : Nat, seq : Nat,
             txs : {"none", "some", "invalid"}, deposits : -1..minted]

\* Type invariant: the caches of State (derive/state.rs) hold the block they are asked
\* for, and the safe head is always among the cached L2 blocks.
TypeOK ==
    /\ safe_head \in Seq(Contents)
    /\ finalized_head \in Seq(Contents)
    /\ \A n \in DOMAIN l1_info : n \in 0..current_epoch_num /\ l1_info[n] \in 0..minted
    /\ \A n \in DOMAIN l2_refs : l2_refs[n] \in Seq(Contents) /\ Number(l2_refs[n]) = n
    /\ Number(safe_head) \in DOMAIN l2_refs /\ l2_refs[Number(safe_head)] = safe_head
    /\ \A t \in DOMAIN batches : batches[t].batch.timestamp = t
    /\ sequence_number \in Nat
    /\ pc \in {"idle", "derive", "panicked"}

Before(n) == SubSeq(safe_head, 1, n - 1)

\* Whatever the batcher posts, the L2 chain that Batches::try_next (batches.rs) makes has
\* one block per slot, and every block is in the epoch of the block before it or in the
\* next one, not before that epoch began.
EpochsAdvance ==
    \A n \in 1..Len(safe_head) :
        LET e == safe_head[n].epoch
            p == EpochOf(Before(n))
        IN  /\ safe_head[n].time = n
            /\ e = p \/ e.number = p.number + 1
            /\ Timestamp(e.number) <= n

\* Transactions are only in blocks within the sequencer drift, and never deposits
\* smuggled in by a batch (single_batch_status, batches.rs).
DriftBounded ==
    \A n \in 1..Len(safe_head) :
        /\ safe_head[n].txs # "invalid"
        /\ safe_head[n].txs = "some" => n <= Timestamp(safe_head[n].epoch.number) + MaxSeqDrift

\* While the blocks the watcher has sent are canonical, every epoch of the safe chain is:
\* a reorg leaves nothing of the abandoned L1 chain in the stages or in State.
EpochsCanonical ==
    OnChain => \A n \in 1..Len(safe_head) :
                   /\ safe_head[n].epoch.number < Len(l1)
                   /\ l1[safe_head[n].epoch.number + 1].hash = safe_head[n].epoch.hash

\* Neither the epoch lookup in span_batch_status nor with_full_epoch finds a hole in the
\* cached L1 blocks (the unwraps of batches.rs and attributes.rs).
NoPanic == pc # "panicked"

\* The comment on empty blocks in try_next: they are made only "if we are past the epoch
\* number + sequencer window size".  So they never take the place of blocks that were
\* posted within their window.
SequencerNotOverruled == OnChain => IsPrefix(safe_head, Last(l1).tip)

\* The blocks that span_batch_status looks up under the safe head are there and are those
\* of the safe chain, from the finalized head on and as far as the lookback: neither a
\* reorg nor State::prune leaves a hole or a block of the abandoned chain among them.
RefsOfSafeChain ==
    \A n \in Len(finalized_head)..Len(safe_head) :
        Len(safe_head) - n <= MaxSeqDrift =>
            /\ L2Genesis + n \in DOMAIN l2_refs
            /\ l2_refs[L2Genesis + n] = SubSeq(safe_head, 1, n)

\* The comment on State::prune: L2 blocks are forgotten only when older than the safe
\* head minus the lookback.
L2RefsKept ==
    \A n \in 0..Len(safe_head) :
        Len(safe_head) - n <= MaxSeqDrift => L2Genesis + n \in DOMAIN l2_refs

\* A timely sequencer's chain is derived in the end, over batches that are early,
\* repeated, overlapping or undecodable, and over L1 reorgs (a reorg is noticed once the
\* new L1 chain is longer than what was read of the old one).
AllPostedDerived == <>[](OnChain => safe_head = Last(l1).tip)

\* Nobody can hold the chain up by posting nothing or by posting garbage: again and
\* again the safe epoch is within a window of the L1 blocks read.
EpochKeepsUp == []<>(current_epoch_num <= safe_epoch.number + SeqWindow + 1)

=============================================================================
