------------------------------- MODULE Driver -------------------------------
(***************************************************************************)
(* The driver (driver/mod.rs, driver/engine_driver.rs, driver/info.rs): it *)
(* takes updates of L1, lets the pipeline derive payload attributes, makes *)
(* the execution engine build or adopt the L2 block they describe, takes   *)
(* unsafe blocks from gossip in between, and moves the finalized head when *)
(* L1 finality moves.                                                      *)
(*                                                                         *)
(* The engine is another process: every call to it may fail, with or       *)
(* without effect, and what it knows outlives a crash of the node.         *)
(*                                                                         *)
(* An L2 block is the chain that leads to it, a sequence of contents; the  *)
(* empty sequence is genesis, the length is the block number, the prefixes *)
(* are the ancestors.  Blocks are one block time apart, so a number is a   *)
(* timestamp as well.  A content is what payload attributes determine:     *)
(* transactions, L1 origin (number and hash of the epoch), position in the *)
(* epoch.                                                                  *)
(***************************************************************************)
EXTENDS Integers, Sequences, FiniteSets, SequencesExt, Subsequences

CONSTANTS
    Txs,             \* transaction lists an L2 block may have
    InitL1,          \* L1 chain when the node is first started
    MaxL1,           \* bound: number of the last L1 block
    MaxL2,           \* bound: number of the last L2 block
    MaxReorgs,       \* bound: number of L1 reorgs
    MaxFaults,       \* bound: failed calls and crashes of the node
    QueueCap,        \* capacity of the block update channel: 1000 in the code
    ChannelTimeout,  \* config.chain.channel_timeout
    UnsafeWindow,    \* how far ahead an unsafe block is kept: 1024 in the code
    MaxFuture,       \* bound: unsafe blocks kept
    HeadQueryFails   \* whether the query for the finalized head may fail

\* The L1 origin of an L2 block and its position in the epoch, and what else of its
\* content is told apart.
Epoch == [number : Nat, hash : Nat, seq : Nat]
Content == [txs : Txs, epoch : Epoch]

\* L1 blocks are numbered from 0 and have distinct hashes; what L1 derives only grows.
ASSUME DriverAssumption ==
    /\ InitL1 \in Seq([hash : Nat, derived : Seq(Content)])
    /\ InitL1 # <<>> /\ InitL1[1].derived = <<>>
    /\ \A n \in DOMAIN InitL1 :
         /\ InitL1[n].hash = n - 1
         /\ \A m \in 1..n : IsPrefix(InitL1[m].derived, InitL1[n].derived)
    /\ MaxL1 \in Nat /\ MaxL2 \in Nat /\ MaxReorgs \in Nat /\ MaxFaults \in Nat
    /\ QueueCap \in Nat \ {0}
    /\ ChannelTimeout \in Nat
    /\ UnsafeWindow \in Nat \ {0}
    /\ MaxFuture \in Nat
    /\ HeadQueryFails \in BOOLEAN

VARIABLES
    \* L1
    l1,                   \* canonical L1 chain: l1[n + 1] is block n
    l1_finalized,         \* number of the last finalized L1 block
    minted,               \* L1 hashes given out so far
    reorgs,               \* L1 reorgs so far
    \* the chain watcher and its channel
    watcher,
    queue,
    \* the execution engine
    engine,
    \* Driver, EngineDriver and Pipeline
    pc,                   \* where in start / advance the driver is
    unsafe_head,
    safe_head,
    finalized_head,
    unfinalized_blocks,
    finalized_l1_block_number,
    future_unsafe_blocks,
    networking,           \* the network service was taken and started
    pipeline,             \* attributes the pushed L1 blocks contain
    attributes,           \* attributes being handled
    \* bound
    faults

l1_vars == <<l1, l1_finalized, minted, reorgs>>
watcher_vars == <<watcher, queue>>
heads == <<unsafe_head, safe_head, finalized_head>>
lists == <<unfinalized_blocks, finalized_l1_block_number, future_unsafe_blocks, networking>>
derivation == <<pipeline, attributes>>
vars == <<l1_vars, watcher_vars, engine, pc, heads, lists, derivation, faults>>

-----------------------------------------------------------------------------
(* L1 *)

Genesis == <<>>

\* An L1 block, with the L2 chain that L1 up to it determines.
L1Block(hash, derived) == [hash |-> hash, derived |-> derived]

\* The L1 origin and the position in the epoch of an L2 block.
EpochOf(block) ==
    IF block = Genesis THEN [number |-> 0, hash |-> 0, seq |-> 0]
    ELSE Last(block).epoch

\* Contents a block on top of `block` may have, given the L1 chain up to some
\* block: the next position in the same epoch, or the first of the next one.
Contents(block, c) ==
    LET e    == EpochOf(block)
        same == [e EXCEPT !.seq = @ + 1]
    IN  [txs : Txs,
         epoch : {same} \cup
                 {[number |-> n, hash |-> c[n + 1].hash, seq |-> 0] :
                      n \in {e.number + 1} \cap 0..(Len(c) - 1)}]

\* The block's children, up to the bound on L2 blocks.
Children(block, c) ==
    IF Len(block) < MaxL2 THEN {Append(block, x) : x \in Contents(block, c)} ELSE {}

\* What L1 block Len(c) may derive on top of L1 chain c: up to two L2 blocks, with
\* origins in c.
Derivable(c) ==
    LET tip == Last(c).derived
        one == Children(tip, c)
    IN  {tip} \cup one \cup UNION {Children(b, c) : b \in one}

Extend(c, next) == Append(c, L1Block(minted + 1, next))

Mine ==
    /\ Len(l1) <= MaxL1
    /\ \E next \in Derivable(l1) : l1' = Extend(l1, next)
    /\ minted' = minted + 1
    /\ UNCHANGED <<l1_finalized, reorgs, watcher_vars, engine, pc, heads, lists,
                   derivation, faults>>

\* Block n and everything above it is replaced by one new block.
ReplaceFrom(n) ==
    /\ reorgs < MaxReorgs
    /\ LET base == SubSeq(l1, 1, n)
       IN  \E next \in Derivable(base) : l1' = Extend(base, next)
    /\ minted' = minted + 1
    /\ reorgs' = reorgs + 1
    /\ UNCHANGED <<l1_finalized, watcher_vars, engine, pc, heads, lists, derivation, faults>>

Finalize(n) ==
    /\ l1_finalized' = n
    /\ UNCHANGED <<l1, minted, reorgs, watcher_vars, engine, pc, heads, lists,
                   derivation, faults>>

L1Step ==
    \/ Mine
    \/ \E n \in (l1_finalized + 1)..(Len(l1) - 1) : ReplaceFrom(n) \/ Finalize(n)

-----------------------------------------------------------------------------
(* The chain watcher, as far as the driver depends on it (see ChainWatcher) *)

\* A watcher that has read nothing; it reads from block `start` on.
StartWatcher(start) ==
    [next |-> start, last |-> -1, finalized |-> 0, reorged |-> FALSE]

\* The blocks it has sent are canonical.
OnChain ==
    watcher.last # -1 => watcher.next <= Len(l1) /\ l1[watcher.next].hash = watcher.last

\* The L2 blocks that L1 block n contains, as attributes.
AttributesIn(n) ==
    LET from == IF n = 0 THEN 0 ELSE Len(l1[n].derived)
        b    == l1[n + 1].derived
    IN  {[slot |-> s, content |-> b[s], inclusion |-> n] : s \in (from + 1)..Len(b)}

Send(update) ==
    /\ Len(queue) < QueueCap
    /\ queue' = Append(queue, update)

\* The next block, or the news that it does not extend the one sent before.
SendBlock ==
    /\ pc \notin {"down", "start"}
    /\ ~watcher.reorged
    /\ watcher.next < Len(l1)
    /\ IF OnChain
       THEN /\ Send([type |-> "NewBlock", attributes |-> AttributesIn(watcher.next)])
            /\ watcher' = [watcher EXCEPT !.next = @ + 1,
                                          !.last = l1[watcher.next + 1].hash]
       ELSE /\ Send([type |-> "Reorg"])
            /\ watcher' = [watcher EXCEPT !.reorged = TRUE]
    /\ UNCHANGED <<l1_vars, engine, pc, heads, lists, derivation, faults>>

\* Finality is sent by a watcher that has not missed a reorg.
SendFinality ==
    /\ pc \notin {"down", "start"}
    /\ ~watcher.reorged
    /\ OnChain
    /\ watcher.finalized < l1_finalized
    /\ Send([type |-> "FinalityUpdate", number |-> l1_finalized])
    /\ watcher' = [watcher EXCEPT !.finalized = l1_finalized]
    /\ UNCHANGED <<l1_vars, engine, pc, heads, lists, derivation, faults>>

WatcherStep == SendBlock \/ SendFinality

-----------------------------------------------------------------------------
(* The execution engine *)

\* forkchoiceUpdated with the driver's forkchoice (create_forkchoice_state): engine e
\* moves to a head it knows; safe and finalized blocks that are not ancestors of it
\* are refused.
ForkchoiceUpdated(e, head) ==
    IF head \notin e.known
    THEN [engine |-> e, valid |-> FALSE]
    ELSE IF IsPrefix(safe_head, head) /\ IsPrefix(finalized_head, head)
         THEN [engine |-> [e EXCEPT !.head = head, !.safe = safe_head,
                                    !.finalized = finalized_head],
               valid  |-> TRUE]
         ELSE [engine |-> [e EXCEPT !.head = head], valid |-> FALSE]

\* newPayload: the engine executes a block whose parent it knows.
NewPayload(block) == [engine EXCEPT !.known = @ \cup {block}]

\* The block of the engine's chain with the given number, or none.
EngineBlocks(n) == IF n <= Len(engine.head) THEN {SubSeq(engine.head, 1, n)} ELSE {}

\* A call that failed: the engine did not get it, or the answer was lost.
Fault == faults < MaxFaults /\ faults' = faults + 1

-----------------------------------------------------------------------------
(* Start and end of the process *)

\* get_l1_start_block: a saturating subtraction.
L1StartBlock(e) == IF e > ChannelTimeout THEN e - ChannelTimeout ELSE 0

\* EngineDriver::new and the initial values of from_config.
Fresh(head) ==
    /\ unsafe_head' = head
    /\ safe_head' = head
    /\ finalized_head' = head
    /\ unfinalized_blocks' = <<>>
    /\ finalized_l1_block_number' = 0
    /\ future_unsafe_blocks' = <<>>
    /\ networking' = FALSE
    /\ pipeline' = {}
    /\ attributes' = {}
    /\ queue' = <<>>
    /\ watcher' = StartWatcher(L1StartBlock(EpochOf(head).number))

Init ==
    /\ l1 = InitL1
    /\ l1_finalized = 0 /\ minted = Len(InitL1) - 1 /\ reorgs = 0
    /\ engine = [known |-> {Genesis}, head |-> Genesis, safe |-> Genesis, finalized |-> Genesis]
    /\ pc = "down"
    /\ unsafe_head = Genesis /\ safe_head = Genesis /\ finalized_head = Genesis
    /\ unfinalized_blocks = <<>> /\ finalized_l1_block_number = 0
    /\ future_unsafe_blocks = <<>> /\ networking = FALSE
    /\ pipeline = {} /\ attributes = {}
    /\ queue = <<>> /\ watcher = StartWatcher(0)
    /\ faults = 0

\* Nothing of the process is left; the engine keeps what it has.
Exit ==
    /\ pc' = "down"
    /\ Fresh(Genesis)

\* get_head_info: the block the engine has as final, or genesis if that cannot be read.
GetHeadInfo(head) ==
    \/ head = engine.finalized /\ UNCHANGED faults
    \/ HeadQueryFails /\ head = Genesis /\ Fault

\* from_config.
FromConfig ==
    /\ pc = "down"
    /\ pc' = "start"
    /\ \E head \in {engine.finalized, Genesis} : GetHeadInfo(head) /\ Fresh(head)
    /\ UNCHANGED <<l1_vars, engine>>

\* await_engine_ready: any answer will do.  The chain watcher is started.
EngineReady ==
    /\ pc = "start"
    /\ pc' = "update"
    /\ engine' = ForkchoiceUpdated(engine, unsafe_head).engine
    /\ UNCHANGED <<l1_vars, watcher_vars, heads, lists, derivation, faults>>

\* The process is killed between any two calls.
Crash ==
    /\ pc # "down"
    /\ Fault
    /\ Exit
    /\ UNCHANGED <<l1_vars, engine>>

-----------------------------------------------------------------------------
(* advance_safe_head *)

\* The mutation: the watcher is not restarted.
HandleReorg_NoRestart ==
    /\ unfinalized_blocks' = <<>>
    /\ queue' = Tail(queue)
    /\ pipeline' = {}
    /\ unsafe_head' = finalized_head
    /\ safe_head' = finalized_head
    /\ UNCHANGED <<watcher, finalized_head, finalized_l1_block_number>>

\* BlockUpdate::Reorg: everything starts again at the finalized head.
HandleReorg ==
    /\ unfinalized_blocks' = <<>>
    /\ watcher' = StartWatcher(L1StartBlock(EpochOf(finalized_head).number))
    /\ queue' = <<>>
    /\ pipeline' = {}
    /\ unsafe_head' = finalized_head
    /\ safe_head' = finalized_head
    /\ UNCHANGED <<finalized_head, finalized_l1_block_number>>

\* BlockUpdate::NewBlock: the pipeline gets the batches of the block.
HandleNewBlock(update) ==
    /\ pipeline' = pipeline \cup update.attributes
    /\ queue' = Tail(queue)
    /\ UNCHANGED <<watcher, heads, unfinalized_blocks, finalized_l1_block_number>>

\* BlockUpdate::FinalityUpdate.
HandleFinality(update) ==
    /\ finalized_l1_block_number' = update.number
    /\ queue' = Tail(queue)
    /\ UNCHANGED <<watcher, heads, unfinalized_blocks, pipeline>>

\* handle_next_block_update: at most one update per advance.
HandleNextBlockUpdate ==
    /\ pc = "update"
    /\ pc' = "derive"
    /\ \/ queue = <<>> /\ UNCHANGED <<watcher_vars, heads, pipeline, unfinalized_blocks,
                                      finalized_l1_block_number>>
       \/ /\ queue # <<>>
          /\ \/ Head(queue).type = "NewBlock" /\ HandleNewBlock(Head(queue))
             \/ Head(queue).type = "FinalityUpdate" /\ HandleFinality(Head(queue))
             \/ Head(queue).type = "Reorg" /\ HandleReorg
    /\ UNCHANGED <<l1_vars, engine, future_unsafe_blocks, networking, attributes, faults>>

\* What the pipeline yields next: attributes for the block after the safe head.
\* Batches of older blocks are dropped.
NextAttributes == {a \in pipeline : a.slot = Len(safe_head) + 1}

\* The mutation: contents are taken to be the same.
ShouldSkip_Always(block, a) == TRUE

\* should_skip: everything the attributes determine is the same.
ShouldSkip(block, a) == Last(block) = a.content

\* skip_attributes up to the forkchoice update: the engine's block is adopted.
SkipAttributes(block) ==
    /\ safe_head' = block
    /\ unsafe_head' = IF Len(block) > Len(unsafe_head) THEN block ELSE unsafe_head

\* An unsafe block that disagrees with L1 is given up.
ResetUnsafe ==
    /\ unsafe_head' = safe_head
    /\ UNCHANGED safe_head

\* handle_attributes up to the next engine call: block_at finds a block or does not,
\* a failed query counts as none.
HandleAttributes ==
    /\ pc = "derive"
    /\ \E a \in NextAttributes :
         /\ attributes' = {a}
         /\ pipeline' = {b \in pipeline : b.slot > a.slot}
         /\ \/ \E block \in EngineBlocks(a.slot) :
                 /\ UNCHANGED faults
                 /\ \/ /\ ShouldSkip(block, a)
                       /\ SkipAttributes(block)
                       /\ pc' = "fcu"
                    \/ /\ ~ShouldSkip(block, a)
                       /\ ResetUnsafe
                       /\ pc' = "build"
            \/ /\ \/ EngineBlocks(a.slot) = {} /\ UNCHANGED faults
                  \/ EngineBlocks(a.slot) # {} /\ Fault
               /\ UNCHANGED <<unsafe_head, safe_head>>
               /\ pc' = "build"
    /\ UNCHANGED <<l1_vars, watcher_vars, engine, finalized_head, lists>>

\* The pipeline yields nothing more.
PipelineDry ==
    /\ pc = "derive"
    /\ NextAttributes = {}
    /\ pc' = "unsafe"
    /\ UNCHANGED <<l1_vars, watcher_vars, engine, heads, lists, derivation, faults>>

\* build_payload: the engine moves to the unsafe head and starts a block on it, unless
\* the attributes are not later than that head.
BuildPayload ==
    /\ pc = "build"
    /\ \E a \in attributes :
         LET fcu == ForkchoiceUpdated(engine, unsafe_head)
         IN  \/ /\ fcu.valid /\ a.slot > Len(unsafe_head)
                /\ engine' = fcu.engine
                /\ pc' = "push"
                /\ UNCHANGED <<watcher_vars, heads, lists, derivation, faults>>
             \/ /\ ~(fcu.valid /\ a.slot > Len(unsafe_head))
                /\ engine' = fcu.engine
                /\ Exit
                /\ UNCHANGED faults
             \/ /\ Fault
                /\ engine' \in {engine, fcu.engine}
                /\ Exit
    /\ UNCHANGED l1_vars

\* push_payload and update_safe_head of process_attributes.
PushPayload ==
    /\ pc = "push"
    /\ \E a \in attributes :
         LET payload == Append(unsafe_head, a.content)
         IN  \/ /\ engine' = NewPayload(payload)
                /\ safe_head' = payload
                /\ unsafe_head' = payload
                /\ pc' = "fcu"
                /\ UNCHANGED <<watcher_vars, finalized_head, lists, derivation, faults>>
             \/ /\ Fault
                /\ engine' \in {engine, NewPayload(payload)}
                /\ Exit
    /\ UNCHANGED l1_vars

\* update_forkchoice, and the entry in unfinalized_blocks once it succeeded.
UpdateForkchoice ==
    /\ pc = "fcu"
    /\ \E a \in attributes :
         LET fcu == ForkchoiceUpdated(engine, unsafe_head)
         IN  \/ /\ fcu.valid
                /\ engine' = fcu.engine
                /\ unfinalized_blocks' =
                     Append(unfinalized_blocks, [head |-> safe_head, inclusion |-> a.inclusion,
                                                 seq |-> a.content.epoch.seq])
                /\ attributes' = {}
                /\ pc' = "derive"
                /\ UNCHANGED <<watcher_vars, heads, finalized_l1_block_number,
                               future_unsafe_blocks, networking, pipeline, faults>>
             \/ /\ ~fcu.valid
                /\ engine' = fcu.engine
                /\ Exit
                /\ UNCHANGED faults
             \/ /\ Fault
                /\ engine' \in {engine, fcu.engine}
                /\ Exit
    /\ UNCHANGED l1_vars

-----------------------------------------------------------------------------
(* advance_unsafe_head *)

\* Blocks that may be gossiped: the sequencer's, on top of a block the engine knows
\* or one ahead of that.
Gossip ==
    LET near == UNION {Children(b, l1) : b \in engine.known}
    IN  near \cup UNION {Children(b, l1) : b \in near}

\* The unsafe blocks worth keeping.
Retain(blocks) ==
    Keep(blocks, {i \in DOMAIN blocks : /\ Len(blocks[i]) > Len(unsafe_head)
                                       /\ Len(blocks[i]) - Len(unsafe_head) < UnsafeWindow})

\* The mutation: the next number is enough.
Applicable_ByNumber(blocks) ==
    Keep(blocks, {i \in DOMAIN blocks : Len(blocks[i]) = Len(unsafe_head) + 1})

\* Unsafe blocks that extend the unsafe head.
Applicable(blocks) == Keep(blocks, {i \in DOMAIN blocks : Front(blocks[i]) = unsafe_head})

\* handle_unsafe_payload: the engine executes the block, the unsafe head moves, the
\* forkchoice is updated; the driver ignores which of it failed.
HandleUnsafePayload(p) ==
    LET pushed == NewPayload(p)
        moved  == ForkchoiceUpdated(pushed, p).engine
    IN  \/ engine' = moved /\ unsafe_head' = p /\ UNCHANGED faults
        \/ Fault /\ engine' \in {engine, pushed} /\ UNCHANGED unsafe_head
        \/ Fault /\ engine' = pushed /\ unsafe_head' = p

\* advance_unsafe_head: drain the gossip channel, forget what is too old or too far
\* ahead, apply the first block that fits.
AdvanceUnsafeHead ==
    /\ pc = "unsafe"
    /\ pc' = "finalize"
    /\ \E new \in {<<>>} \cup
                  IF networking /\ Len(future_unsafe_blocks) < MaxFuture
                  THEN {<<p>> : p \in Gossip} ELSE {} :
         LET kept == Retain(future_unsafe_blocks \o new)
             fits == Applicable(kept)
         IN  /\ future_unsafe_blocks' = kept
             /\ IF fits = <<>>
                THEN UNCHANGED <<engine, unsafe_head, faults>>
                ELSE HandleUnsafePayload(Head(fits))
    /\ UNCHANGED <<l1_vars, watcher_vars, safe_head, finalized_head, unfinalized_blocks,
                   finalized_l1_block_number, networking, derivation>>

-----------------------------------------------------------------------------
(* update_finalized and try_start_networking *)

\* The mutation: L1 inclusion in a block that is not final yet is enough.
FinalEntries_OffByOne ==
    Keep(unfinalized_blocks,
         {i \in DOMAIN unfinalized_blocks :
            /\ unfinalized_blocks[i].inclusion <= finalized_l1_block_number + 1
            /\ unfinalized_blocks[i].seq = 0})

\* Unfinalized blocks that finalized L1 blocks contain, first of their epoch.
FinalEntries ==
    Keep(unfinalized_blocks,
         {i \in DOMAIN unfinalized_blocks :
            /\ unfinalized_blocks[i].inclusion <= finalized_l1_block_number
            /\ unfinalized_blocks[i].seq = 0})

\* The entries that stay.
StillUnfinalized ==
    Keep(unfinalized_blocks,
         {i \in DOMAIN unfinalized_blocks :
            unfinalized_blocks[i].inclusion > finalized_l1_block_number})

\* update_finalized, then try_start_networking.
UpdateFinalized ==
    /\ pc = "finalize"
    /\ pc' = "update"
    /\ finalized_head' = IF FinalEntries = <<>> THEN finalized_head ELSE Last(FinalEntries).head
    /\ unfinalized_blocks' = StillUnfinalized
    /\ networking' = (networking \/ unfinalized_blocks' # <<>>)
    /\ UNCHANGED <<l1_vars, watcher_vars, engine, unsafe_head, safe_head,
                   finalized_l1_block_number, future_unsafe_blocks, derivation, faults>>

DriverStep ==
    \/ FromConfig
    \/ EngineReady
    \/ HandleNextBlockUpdate
    \/ HandleAttributes
    \/ PipelineDry
    \/ BuildPayload
    \/ PushPayload
    \/ UpdateForkchoice
    \/ AdvanceUnsafeHead
    \/ UpdateFinalized

Next == L1Step \/ WatcherStep \/ DriverStep \/ Crash

Spec == Init /\ [][Next]_vars

\* The driver loops without end, a supervisor starts it again (docker-compose.yml:
\* restart: unless-stopped), and the watcher goes on reading L1.
FairSpec == Spec /\ WF_vars(DriverStep) /\ WF_vars(SendBlock) /\ WF_vars(SendFinality)

-----------------------------------------------------------------------------
(* Properties *)

\* The type invariant.
TypeOK ==
    /\ l1_finalized \in 0..(Len(l1) - 1)
    /\ Len(queue) <= QueueCap
    /\ pc \in {"down", "start", "update", "derive", "build", "push", "fcu", "unsafe", "finalize"}
    /\ {unsafe_head, safe_head, finalized_head} \subseteq engine.known
    /\ Cardinality(attributes) = IF pc \in {"build", "push", "fcu"} THEN 1 ELSE 0
    /\ finalized_l1_block_number \in 0..l1_finalized
    /\ Len(future_unsafe_blocks) <= MaxFuture

\* Outside of handle_attributes the three heads are on one chain, so that the next
\* forkchoice update is not refused for heads that contradict each other, whatever
\* was reorganised, lost or gossiped before.
HeadsOnOneChain ==
    /\ IsPrefix(finalized_head, safe_head)
    /\ IsPrefix(safe_head, unsafe_head) \/ pc = "fcu"

\* The forkchoice about to be sent names a safe block on the chain of its head
\* (ForkchoiceState: `32 byte "safe" block hash of the canonical chain', where the
\* head is "of the head of the canonical chain").
SafeOnCanonicalChain == IsPrefix(safe_head, unsafe_head)

\* While the watcher is on the canonical L1 chain, the safe head is what that chain
\* determines, whatever the engine held before and wherever the node was killed.
SafeHeadIsDerived ==
    pc \notin {"down", "start"} /\ OnChain /\ ~watcher.reorged
    => IsPrefix(safe_head, Last(l1).derived)

Promise == INSTANCE FinalizedChain WITH
    derivable <- l1[l1_finalized + 1].derived,
    finalized <- engine.finalized

\* The engine's finalized chain only grows and is what finalized L1 determines, across
\* reorgs, failed calls and restarts.
KeepsPromise == Promise!Spec

\* The last block of the chain that is the first of its epoch.
LastEpochStart(block) ==
    LET starts == {n \in 1..Len(block) : block[n].epoch.seq = 0}
    IN  IF starts = {} THEN Genesis
        ELSE SubSeq(block, 1, CHOOSE n \in starts : \A m \in starts : m <= n)

\* In the end the safe head is all that L1 determines and the finalized head is the last
\* epoch start that finalized L1 determines, unless L1 stops right after a reorg: the
\* watcher sees that with the next block only.
CatchesUp ==
    <>[](OnChain \/ watcher.next < Len(l1)
         => /\ safe_head = Last(l1).derived
            /\ finalized_head = LastEpochStart(l1[l1_finalized + 1].derived))

\* Networking begins when no block is unfinalized ("Begins p2p networking if fully
\* synced with no unfinalized blocks").
NetworkingWhenSynced == [][networking' /\ ~networking => unfinalized_blocks' = <<>>]_vars
=============================================================================
