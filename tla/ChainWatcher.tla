---------------------------- MODULE ChainWatcher ----------------------------
(***************************************************************************)
(* The L1 chain watcher (l1/chain_watcher.rs): a task that reads L1 block  *)
(* after block through an RPC provider and sends what it finds into a      *)
(* bounded mpsc channel, and the driver at the other end of the channel.   *)
(*                                                                         *)
(* try_ingest_block awaits the provider several times; each await is a     *)
(* step, so that L1 may change between any two of them (pc says which      *)
(* comes next).  Any of them may fail: the round is given up and the loop  *)
(* of start_watcher begins it again with whatever the failed round left in *)
(* the watcher.                                                            *)
(*                                                                         *)
(* Of the driver this module has what handle_next_block_update does with   *)
(* an update: it takes a block, notes finality, or restarts the watcher.   *)
(***************************************************************************)
EXTENDS L1Chain, FiniteSets, SequencesExt, Subsequences

CONSTANTS
    QueueCap,        \* capacity of the block update channel: 1000 in the code
    LogWindow,       \* span of a log query: 1000 in the code
    ChannelTimeout,  \* config.chain.channel_timeout
    MaxFailures      \* bound: number of failed RPC calls

ASSUME WatcherAssumption ==
    /\ QueueCap \in Nat \ {0}
    /\ LogWindow \in Nat \ {0}
    /\ ChannelTimeout \in Nat
    /\ MaxFailures \in Nat

VARIABLES
    watcher,         \* the running InnerWatcher
    queue,           \* block_update_sender / block_update_receiver
    applied,         \* L1 blocks the driver took since the last (re)start
    l1_start,        \* first block the running watcher was told to read
    seen_finalized,  \* Driver::finalized_l1_block_number
    epoch,           \* number of EngineDriver::finalized_epoch
    failures         \* failed RPC calls so far

task_vars == <<watcher, queue>>
driver_vars == <<applied, l1_start, seen_finalized, epoch>>
vars == <<l1_vars, task_vars, driver_vars, failures>>

-----------------------------------------------------------------------------
NoBlock == [hash |-> 0, number |-> 0, parent_hash |-> 0, sender |-> NoUpdate]

\* InnerWatcher::new.  The system config is that of the parent of the L2 block
\* to start from, in the same or the previous epoch.
NewWatcher(start, config) ==
    [pc                   |-> "finality",
     current_block        |-> start,
     head_block           |-> 0,
     finalized_block      |-> 0,
     unfinalized_blocks   |-> <<>>,
     deposits             |-> <<>>,
     system_config        |-> config,
     system_config_update |-> [block |-> start, config |-> NoUpdate],
     block                |-> NoBlock,
     user_deposits        |-> 0]

\* A watcher that is still inside InnerWatcher::new, reading the L2 block.
Starting(start) == [NewWatcher(start, NoUpdate) EXCEPT !.pc = "new"]

\* get_l1_start_block: a saturating subtraction.
L1StartBlock(e) == IF e > ChannelTimeout THEN e - ChannelTimeout ELSE 0

Init ==
    /\ L1Init
    /\ epoch = 0
    /\ l1_start = L1StartBlock(epoch)
    /\ watcher = Starting(l1_start)
    /\ queue = <<>>
    /\ applied = <<>>
    /\ seen_finalized = 0
    /\ failures = 0

\* The channel has room; send().await waits for that.
CanSend == Len(queue) < QueueCap

-----------------------------------------------------------------------------
(* The watcher task *)

\* InnerWatcher::new returns.  From L2 genesis it needs no RPC call.
WatcherNew ==
    /\ watcher.pc = "new"
    /\ \E e \in {epoch, epoch - 1} \cap Nat :
         watcher' = NewWatcher(watcher.current_block, ConfigAt(chain, e))
    /\ UNCHANGED <<l1_vars, queue, driver_vars, failures>>

\* InnerWatcher::new unwraps the answer of the L2 provider: the task panics and
\* its end of the channel is gone.
WatcherPanics ==
    /\ watcher.pc = "new"
    /\ epoch > 0
    /\ failures < MaxFailures
    /\ failures' = failures + 1
    /\ watcher' = [watcher EXCEPT !.pc = "dead"]
    /\ UNCHANGED <<l1_vars, queue, driver_vars>>

\* The blocks that stay in unfinalized_blocks.
Retained(blocks, finalized) ==
    Keep(blocks, {i \in DOMAIN blocks : blocks[i].number > finalized})

\* try_ingest_block: ask for the finalized block, but only once everything up to
\* the last known one was read, and tell the driver if it changed.
UpdateFinalized ==
    /\ watcher.pc = "finality"
    /\ \/ /\ watcher.current_block > watcher.finalized_block
          /\ watcher.finalized_block < l1_finalized
          /\ CanSend
          /\ queue' = Append(queue, [type |-> "FinalityUpdate", number |-> l1_finalized])
          /\ watcher' = [watcher EXCEPT !.pc = "head",
                            !.finalized_block = l1_finalized,
                            !.unfinalized_blocks = Retained(@, l1_finalized)]
       \/ /\ \/ watcher.current_block <= watcher.finalized_block
             \/ watcher.finalized_block >= l1_finalized
          /\ watcher' = [watcher EXCEPT !.pc = "head"]
          /\ UNCHANGED queue
    /\ UNCHANGED <<l1_vars, driver_vars, failures>>

\* The mutation: the head is asked for only once.
UpdateHead_Once ==
    /\ watcher.pc = "head"
    /\ LET head == IF watcher.head_block = 0 THEN Height(chain) ELSE watcher.head_block
       IN  watcher' = [watcher EXCEPT
                         !.head_block = head,
                         !.pc = IF watcher.current_block <= head
                                THEN "config" ELSE "finality"]
    /\ UNCHANGED <<l1_vars, queue, driver_vars, failures>>

\* The head is asked for only when the last known one was passed.  Without a
\* block to read the round ends (after a sleep).
UpdateHead ==
    /\ watcher.pc = "head"
    /\ LET head == IF watcher.current_block > watcher.head_block
                   THEN Height(chain) ELSE watcher.head_block
       IN  watcher' = [watcher EXCEPT
                         !.head_block = head,
                         !.pc = IF watcher.current_block <= head
                                THEN "config" ELSE "finality"]
    /\ UNCHANGED <<l1_vars, queue, driver_vars, failures>>

\* Logs of the blocks from..to that exist.
BlocksIn(from, to) == {n \in from..to : n <= Height(chain)}

\* SystemConfigUpdate: what the first update log of block n decodes to.  An update
\* names the config it makes.
FirstUpdateIn(n) == <<HashAt(n), 1>>

\* The first system config update after block `last`, or none up to the end of
\* the window; the window may reach beyond the head.
NextUpdate(last) ==
    LET with == {n \in BlocksIn(last + 1, last + LogWindow) : ConfigUpdates[HashAt(n)] > 0}
    IN  IF with = {}
        THEN [block |-> last + LogWindow, config |-> NoUpdate]
        ELSE LET first == CHOOSE n \in with : \A k \in with : n <= k
             IN  [block |-> first, config |-> FirstUpdateIn(first)]

\* The mutation: the update is active one block late.
Activated_Late(update, current) == update.block + 1 = current

Activated(update, current) == update.block = current

\* update_system_config.
UpdateSystemConfig ==
    /\ watcher.pc = "config"
    /\ LET last   == watcher.system_config_update
           update == IF last.block < watcher.current_block
                     THEN NextUpdate(last.block) ELSE last
       IN  watcher' = [watcher EXCEPT
                         !.pc = "block",
                         !.system_config_update = update,
                         !.system_config =
                            IF Activated(update, watcher.current_block) /\ update.config # NoUpdate
                            THEN update.config ELSE @]
    /\ UNCHANGED <<l1_vars, queue, driver_vars, failures>>

\* A block as the provider returns it.  The batcher posts in every block, from the
\* address that the system config of the block names.
BlockAt(n) ==
    [hash |-> HashAt(n), number |-> n,
     parent_hash |-> IF n = 0 THEN 0 ELSE HashAt(n - 1),
     sender |-> ConfigAt(chain, n)]

\* get_block.  The chain may have become shorter than head_block: then the
\* provider has no such block, and the round fails.
GetBlock ==
    /\ watcher.pc = "block"
    /\ LET n == watcher.current_block
       IN  watcher' = IF n <= Height(chain)
                      THEN [watcher EXCEPT !.pc = "deposits", !.block = BlockAt(n)]
                      ELSE [watcher EXCEPT !.pc = "finality"]
    /\ UNCHANGED <<l1_vars, queue, driver_vars, failures>>

\* Deposits of the blocks in a range, each set named by its block; 0 stands for
\* no deposits, for a block the chain does not have.
DepositsOf(n) == IF n <= Height(chain) THEN HashAt(n) ELSE 0

\* The mutation: the cached deposits are those of the block above.
FetchedDeposits_Shifted(from, to) == [n \in from..to |-> DepositsOf(n + 1)]

FetchedDeposits(from, to) == [n \in from..to |-> DepositsOf(n)]

\* The cache with what was fetched.
Inserted(new, cache) ==
    [n \in DOMAIN new \cup DOMAIN cache |-> IF n \in DOMAIN new THEN new[n] ELSE cache[n]]

\* get_deposits: from the cache, or of all blocks up to the head or the window.
GetDeposits ==
    /\ watcher.pc = "deposits"
    /\ LET n    == watcher.current_block
           end  == IF watcher.head_block < n + LogWindow
                   THEN watcher.head_block ELSE n + LogWindow
           known == IF n \in DOMAIN watcher.deposits
                    THEN watcher.deposits
                    ELSE Inserted(FetchedDeposits(n, end), watcher.deposits)
       IN  watcher' = [watcher EXCEPT
                         !.pc = "batches",
                         !.user_deposits = known[n],
                         !.deposits = [m \in DOMAIN known \ {n} |-> known[m]]]
    /\ UNCHANGED <<l1_vars, queue, driver_vars, failures>>

\* get_batcher_transactions with is_valid_batcher_transaction: the sender must be
\* the one of the static configuration, which no update changes.
BatcherTransactions(block) == block.sender = NoUpdate

\* What is sent for the block that was read; its sender is kept for BatcherOfConfig.
L1Info ==
    [hash                 |-> watcher.block.hash,
     number               |-> watcher.block.number,
     parent_hash          |-> watcher.block.parent_hash,
     sender               |-> watcher.block.sender,
     batcher_transactions |-> BatcherTransactions(watcher.block),
     user_deposits        |-> watcher.user_deposits,
     system_config        |-> watcher.system_config]

\* The mutation: the two blocks before the new one are compared.
CheckReorg_SkipsOne(blocks) ==
    Len(blocks) >= 3 /\ blocks[Len(blocks)].parent_hash # blocks[Len(blocks) - 1].hash

\* check_reorg.
CheckReorg(blocks) ==
    Len(blocks) >= 2 /\ blocks[Len(blocks)].parent_hash # blocks[Len(blocks) - 1].hash

\* The rest of the round: note the block, send it or a reorg, go on.
Send ==
    /\ watcher.pc = "batches"
    /\ CanSend
    /\ LET blocks == IF watcher.block.number >= watcher.finalized_block
                     THEN Append(watcher.unfinalized_blocks, watcher.block)
                     ELSE watcher.unfinalized_blocks
       IN  /\ queue' = Append(queue, IF CheckReorg(blocks)
                                     THEN [type |-> "Reorg"]
                                     ELSE [type |-> "NewBlock", info |-> L1Info])
           /\ watcher' = [watcher EXCEPT !.pc = "finality",
                            !.unfinalized_blocks = blocks,
                            !.current_block = @ + 1]
    /\ UNCHANGED <<l1_vars, driver_vars, failures>>

\* Any RPC call of the round may fail; the next round begins.
RpcFails ==
    /\ watcher.pc \in {"finality", "head", "config", "block", "deposits", "batches"}
    /\ failures < MaxFailures
    /\ failures' = failures + 1
    /\ watcher' = [watcher EXCEPT !.pc = "finality"]
    /\ UNCHANGED <<l1_vars, queue, driver_vars>>

WatcherStep ==
    \/ WatcherNew
    \/ UpdateFinalized
    \/ UpdateHead
    \/ UpdateSystemConfig
    \/ GetBlock
    \/ GetDeposits
    \/ Send

-----------------------------------------------------------------------------
(* The driver *)

\* BlockUpdate::NewBlock.
HandleNewBlock ==
    /\ queue # <<>>
    /\ Head(queue).type = "NewBlock"
    /\ applied' = Append(applied, Head(queue).info)
    /\ queue' = Tail(queue)
    /\ UNCHANGED <<l1_vars, watcher, l1_start, seen_finalized, epoch, failures>>

\* BlockUpdate::FinalityUpdate.
HandleFinality ==
    /\ queue # <<>>
    /\ Head(queue).type = "FinalityUpdate"
    /\ seen_finalized' = Head(queue).number
    /\ queue' = Tail(queue)
    /\ UNCHANGED <<l1_vars, watcher, applied, l1_start, epoch, failures>>

\* The mutation: the new task keeps sending into the old channel.
HandleReorg_KeepsChannel ==
    /\ queue # <<>>
    /\ Head(queue).type = "Reorg"
    /\ \E e \in epoch..seen_finalized \cup {epoch} :
         /\ epoch' = e
         /\ l1_start' = L1StartBlock(e)
         /\ watcher' = Starting(L1StartBlock(e))
    /\ queue' = Tail(queue)
    /\ applied' = <<>>
    /\ UNCHANGED <<l1_vars, seen_finalized, failures>>

\* BlockUpdate::Reorg: the task is aborted wherever it is and its channel dropped;
\* a new one starts below the epoch of the finalized L2 head, which has moved to
\* some finalized L1 block since.
HandleReorg ==
    /\ queue # <<>>
    /\ Head(queue).type = "Reorg"
    /\ \E e \in epoch..seen_finalized \cup {epoch} :
         /\ epoch' = e
         /\ l1_start' = L1StartBlock(e)
         /\ watcher' = Starting(L1StartBlock(e))
    /\ queue' = <<>>
    /\ applied' = <<>>
    /\ UNCHANGED <<l1_vars, seen_finalized, failures>>

DriverStep == HandleNewBlock \/ HandleFinality \/ HandleReorg

Next ==
    \/ L1Next /\ UNCHANGED <<task_vars, driver_vars, failures>>
    \/ WatcherStep
    \/ RpcFails
    \/ WatcherPanics
    \/ DriverStep

Spec == Init /\ [][Next]_vars

\* The task loops without end and the driver polls the channel in every advance;
\* the provider answers in the end.
FairSpec == Spec /\ WF_vars(WatcherStep) /\ WF_vars(DriverStep)

-----------------------------------------------------------------------------
(* Properties *)

\* The type invariant of the watcher and the driver's side of the channel.
TypeOK ==
    /\ watcher.pc \in {"new", "dead", "finality", "head", "config", "block",
                       "deposits", "batches"}
    /\ watcher.current_block \in l1_start..(MaxHeight + 1)
    /\ watcher.head_block \in 0..MaxHeight
    /\ watcher.finalized_block \in 0..l1_finalized
    /\ Len(queue) <= QueueCap
    /\ \A i \in DOMAIN queue : queue[i].type \in {"NewBlock", "FinalityUpdate", "Reorg"}
    /\ seen_finalized \in 0..l1_finalized
    /\ epoch \in 0..l1_finalized

\* The driver takes the blocks of one watcher without a gap, a repetition or a block
\* of an earlier watcher, whatever calls failed and wherever the task was aborted.
Contiguous == \A i \in DOMAIN applied : applied[i].number = l1_start + i - 1

Linked(i) == applied[i].parent_hash = applied[i - 1].hash

\* Every block the driver takes extends the one before it
\* (BlockUpdate::NewBlock: "A new block extending the current chain").
ExtendsCurrentChain == \A i \in 2..Len(applied) : Linked(i)

\* The only way a block reaches the driver that does not extend the one before it
\* is that the driver was told before that the one before is finalized.
UnlinkedOnlyIfFinalized ==
    \A i \in 2..Len(applied) : Linked(i) \/ applied[i - 1].number <= seen_finalized

\* A driver that was told that a block number is final holds the final block of that
\* number: it marks L2 blocks derived from it as finalized, for good
\* (EngineDriver::finalized_head: "Most recent block that can be derived from
\* finalized L1 data").
FinalizedIsCanonical ==
    \A i \in DOMAIN applied :
        applied[i].number <= seen_finalized => applied[i].hash = HashAt(applied[i].number)

\* The deposits the driver gets with a block are those of that block
\* (L1Info::user_deposits: "User deposits from that block").
DepositsOfBlock == \A i \in DOMAIN applied : applied[i].user_deposits = applied[i].hash

\* The system config the driver gets with a block, from the finalized epoch on, is
\* the one of that block (L1Info::system_config: "The system config at the block").
ConfigOfBlock ==
    \A i \in DOMAIN applied :
        /\ applied[i].number >= epoch
        /\ applied[i].hash = HashAt(applied[i].number)
        => applied[i].system_config = ConfigAt(chain, applied[i].number)

\* The batcher transactions the driver gets with a block are those sent by the batch
\* sender of the system config it gets with it ("Check if a transaction was sent
\* from the batch sender to the batch inbox").
BatcherOfConfig ==
    \A i \in DOMAIN applied :
        applied[i].batcher_transactions <=> applied[i].sender = applied[i].system_config

UpToDate == l1_start + Len(applied) > Height(chain)

\* The driver gets every block there is in the end, however small the channel and
\* whichever calls failed, unless it was a call of a starting task that failed
\* (the unwraps of InnerWatcher::new).
CatchesUp == <>[]((watcher.pc = "dead" /\ failures > 0) \/ UpToDate)

\* The watcher never stops to read L1 ("called periodically to keep updating
\* channels").
KeepsUpdating == <>[]UpToDate
=============================================================================
