------------------------------- MODULE Runner -------------------------------
(***************************************************************************)
(* The runner (runner/mod.rs): it brings the local execution client to a   *)
(* checkpoint block taken from a remote node, or does nothing of the kind, *)
(* and starts the driver.  Every RPC is a step, between which the remote   *)
(* chain grows or is reorganised, the local client becomes reachable or    *)
(* syncs, and the user may interrupt.                                      *)
(*                                                                         *)
(* An L2 block is the chain that leads to it, as in Driver; of its content *)
(* only the position in its epoch matters, and a tag that tells forks      *)
(* apart.                                                                  *)
(***************************************************************************)
EXTENDS Integers, Sequences, FiniteSets, SequencesExt

CONSTANTS
    InitRemote,    \* chain of the remote node at first
    InitLocals,    \* heads the local client may have at first
    MaxNumber,     \* bound: number of the last remote block
    MaxReorgs      \* bound: reorgs of the remote chain

\* An L2 block on top of its parent.
Content == [seq : Nat, tag : Nat]

ASSUME RunnerAssumption ==
    /\ InitRemote \in Seq(Content) /\ InitRemote # <<>>
    /\ InitLocals \subseteq Seq(Content)
    /\ MaxNumber \in Nat /\ MaxReorgs \in Nat

VARIABLES
    remote,            \* the remote node's chain
    seen,              \* blocks it has had: it keeps them by hash
    reorgs,
    local,             \* the local client: blocks and head
    target,            \* the block the local client was told to sync to, if any
    available,         \* the local engine answers
    shutdown,          \* SIGINT was received
    sync_mode,
    checkpoint_hash,   \* the block named on the command line, if any
    pc,
    block_number, l2_block,   \* locals of checkpoint_sync
    checkpoint                \* checkpoint_block, once chosen

remote_vars == <<remote, seen, reorgs>>
local_vars == <<local, target, available>>
options == <<sync_mode, checkpoint_hash>>
locals == <<block_number, l2_block, checkpoint>>
vars == <<remote_vars, local_vars, shutdown, options, pc, locals>>

Ended == {"exit0", "exit1", "panic", "error"}

-----------------------------------------------------------------------------
(* The remote node, the local client and the user *)

\* The next block is the first of a new epoch or goes on in the same one.
NextOn(c, tag) ==
    {Append(c, [seq |-> s, tag |-> tag]) : s \in {0, IF c = <<>> THEN 0 ELSE Last(c).seq + 1}}

RemoteGrows ==
    /\ Len(remote) < MaxNumber
    /\ remote' \in NextOn(remote, reorgs)
    /\ seen' = seen \cup {remote'}
    /\ UNCHANGED <<reorgs, local_vars, shutdown, options, pc, locals>>

\* The last block is replaced, or lost.
RemoteReorgs ==
    /\ reorgs < MaxReorgs
    /\ Len(remote) > 1
    /\ reorgs' = reorgs + 1
    /\ remote' \in {Front(remote)} \cup NextOn(Front(remote), reorgs')
    /\ seen' = seen \cup {remote'}
    /\ UNCHANGED <<local_vars, shutdown, options, pc, locals>>

BecomesAvailable ==
    /\ ~available
    /\ available' = TRUE
    /\ UNCHANGED <<remote_vars, local, target, shutdown, options, pc, locals>>

\* The local client fetches the next block it lacks on the way to its target.  Its head
\* is on the way if that makes it longer, and at the target in the end.
Sync ==
    /\ \E t \in target :
         LET missing == Prefixes(t) \ local.known
             next    == CHOOSE b \in missing : \A c \in missing : Len(b) <= Len(c)
         IN  /\ missing # {}
             /\ local' = [known |-> local.known \cup {next},
                          head  |-> IF Len(next) > Len(local.head) \/ next = t
                                    THEN next ELSE local.head]
    /\ UNCHANGED <<remote_vars, target, available, shutdown, options, pc, locals>>

Interrupt ==
    /\ ~shutdown
    /\ shutdown' = TRUE
    /\ UNCHANGED <<remote_vars, local_vars, options, pc, locals>>

-----------------------------------------------------------------------------
(* The runner *)

Goto(l) == pc' = l

\* run: two modes are not implemented, one goes straight to the driver.
Run ==
    /\ pc = "run"
    /\ \/ sync_mode \in {"Fast", "Challenge"} /\ Goto("panic")
       \/ sync_mode = "Full" /\ Goto("driver")
       \/ sync_mode = "Checkpoint" /\ Goto(IF checkpoint_hash # {} THEN "given" ELSE "number")
    /\ UNCHANGED <<remote_vars, local_vars, shutdown, options, locals>>

\* The mutation: the second block of an epoch will do.
IsEpochBoundary_Second(b) == Last(b).seq <= 1

\* is_epoch_boundary.
IsEpochBoundary(b) == Last(b).seq = 0

\* The genesis block has no L1 attributes transaction, so it has no head info.
HasHeadInfo(b) == b # <<>>

\* The block named on the command line, fetched by hash and tested.
GivenCheckpoint ==
    /\ pc = "given"
    /\ \E b \in checkpoint_hash :
         \/ /\ b \notin seen \/ ~HasHeadInfo(b)
            /\ Goto("error")
            /\ UNCHANGED checkpoint
         \/ /\ b \in seen /\ HasHeadInfo(b)
            /\ IF IsEpochBoundary(b)
               THEN checkpoint' = {b} /\ Goto("available")
               ELSE Goto("exit1") /\ UNCHANGED checkpoint
    /\ UNCHANGED <<remote_vars, local_vars, shutdown, options, block_number, l2_block>>

\* get_block_number.
GetBlockNumber ==
    /\ pc = "number"
    /\ block_number' = Len(remote)
    /\ Goto("latest")
    /\ UNCHANGED <<remote_vars, local_vars, shutdown, options, l2_block, checkpoint>>

BlockAt(n) == SubSeq(remote, 1, n)

\* get_block_with_txs of that number.
GetLatest ==
    /\ pc = "latest"
    /\ \/ block_number > Len(remote) /\ Goto("error") /\ UNCHANGED l2_block
       \/ /\ block_number <= Len(remote)
          /\ l2_block' = BlockAt(block_number)
          /\ Goto(IF HasHeadInfo(l2_block') THEN "search" ELSE "error")
    /\ UNCHANGED <<remote_vars, local_vars, shutdown, options, block_number, checkpoint>>

\* The search for an epoch boundary: the number goes down, the block stays the same;
\* below zero the subtraction panics.
Search ==
    /\ pc = "search"
    /\ \/ IsEpochBoundary(l2_block) /\ Goto("by_number") /\ UNCHANGED block_number
       \/ ~IsEpochBoundary(l2_block) /\ shutdown /\ Goto("exit0") /\ UNCHANGED block_number
       \/ /\ ~IsEpochBoundary(l2_block) /\ ~shutdown
          /\ IF block_number = 0
             THEN Goto("panic") /\ UNCHANGED block_number
             ELSE block_number' = block_number - 1 /\ UNCHANGED pc
    /\ UNCHANGED <<remote_vars, local_vars, shutdown, options, l2_block, checkpoint>>

\* get_block of the number found, then that block by its hash, which the node keeps.
FoundCheckpoint ==
    /\ pc = "by_number"
    /\ \/ block_number > Len(remote) /\ Goto("panic") /\ UNCHANGED checkpoint
       \/ /\ block_number <= Len(remote)
          /\ checkpoint' = {BlockAt(block_number)}
          /\ Goto("available")
    /\ UNCHANGED <<remote_vars, local_vars, shutdown, options, block_number, l2_block>>

\* The mutation: an interrupt is not looked for.
Await_NoCheck(done, next) == IF done THEN Goto(next) ELSE UNCHANGED pc

\* A loop that waits: check_shutdown, sleep, ask again.
Await(done, next) ==
    IF done THEN Goto(next) ELSE IF shutdown THEN Goto("exit0") ELSE UNCHANGED pc

\* while !engine_api.is_available().
AwaitAvailable ==
    /\ pc = "available"
    /\ Await(available, "present")
    /\ UNCHANGED <<remote_vars, local_vars, shutdown, options, locals>>

\* The local client may have the checkpoint already; else it gets a peer (add_peer).
CheckPresent ==
    /\ pc = "present"
    /\ Goto(IF checkpoint \subseteq local.known THEN "driver" ELSE "payload")
    /\ UNCHANGED <<remote_vars, local_vars, shutdown, options, locals>>

\* new_payload: executed if its parent is known, refused, or kept for later.
SendPayload ==
    /\ pc = "payload"
    /\ \/ /\ Goto("forkchoice")
          /\ \E c \in checkpoint :
               local' = [local EXCEPT !.known = IF Front(c) \in @ THEN @ \cup {c} ELSE @]
       \/ Goto("exit1") /\ UNCHANGED local
    /\ UNCHANGED <<remote_vars, target, available, shutdown, options, locals>>

\* forkchoice_updated with from_single_head: a head the client knows becomes its head at
\* once, another one its target.
SendForkchoice ==
    /\ pc = "forkchoice"
    /\ \/ /\ Goto("wait")
          /\ \E c \in checkpoint :
               IF c \in local.known
               THEN local' = [local EXCEPT !.head = c] /\ UNCHANGED target
               ELSE target' = {c} /\ UNCHANGED local
       \/ Goto("exit1") /\ UNCHANGED <<local, target>>
    /\ UNCHANGED <<remote_vars, available, shutdown, options, locals>>

\* The mutation: the client's number has to be above the checkpoint's.
Synced_Above == \A c \in checkpoint : Len(local.head) > Len(c)

\* The mutation: one block less is enough.
Synced_Below == \A c \in checkpoint : Len(local.head) >= Len(c) - 1

\* The client's block number has reached the checkpoint's.
Synced == \A c \in checkpoint : Len(local.head) >= Len(c)

AwaitSynced ==
    /\ pc = "wait"
    /\ Await(Synced, "driver")
    /\ UNCHANGED <<remote_vars, local_vars, shutdown, options, locals>>

\* start_driver: the driver runs until it fails or is interrupted.
StartDriver ==
    /\ pc = "driver"
    /\ \/ Goto("exit1")
       \/ shutdown /\ Goto("exit0")
    /\ UNCHANGED <<remote_vars, local_vars, shutdown, options, locals>>

\* An RPC fails, or the engine cannot be reached any more: checkpoint_sync returns.
RpcFails ==
    /\ pc \in {"given", "number", "latest", "by_number", "present", "payload", "forkchoice", "wait"}
    /\ Goto("error")
    /\ UNCHANGED <<remote_vars, local_vars, shutdown, options, locals>>

-----------------------------------------------------------------------------

Init ==
    /\ remote = InitRemote /\ seen = Prefixes(InitRemote) /\ reorgs = 0
    /\ \E h \in InitLocals : local = [known |-> Prefixes(h), head |-> h]
    /\ target = {} /\ available \in BOOLEAN
    /\ shutdown = FALSE
    /\ sync_mode \in {"Fast", "Challenge", "Full", "Checkpoint"}
    /\ checkpoint_hash \in {{}} \cup {{b} : b \in Prefixes(InitRemote) \cup InitLocals}
    /\ pc = "run"
    /\ block_number = 0 /\ l2_block = <<>> /\ checkpoint = {}

RunnerStep ==
    \/ Run
    \/ GivenCheckpoint
    \/ GetBlockNumber \/ GetLatest \/ Search \/ FoundCheckpoint
    \/ AwaitAvailable \/ CheckPresent
    \/ SendPayload \/ SendForkchoice \/ AwaitSynced

Next ==
    \/ RunnerStep \/ StartDriver \/ RpcFails
    \/ RemoteGrows \/ RemoteReorgs \/ BecomesAvailable \/ Sync \/ Interrupt

\* RPCs return and timers fire; the local client need not answer or sync.
Spec == Init /\ [][Next]_vars /\ WF_vars(RunnerStep)

-----------------------------------------------------------------------------
(* Properties *)

\* The block the client is brought to is the first of its epoch, so that the driver can
\* start there; between the test of the latest block and its use by number the remote
\* chain may have been reorganised.
CheckpointIsBoundary ==
    \A c \in checkpoint : Last(c).seq = 0 \/ (checkpoint_hash = {} /\ reorgs > 0)

\* When the driver starts after a checkpoint sync, the client has the checkpoint, unless
\* the client's own chain is a fork of the checkpoint's.
DriverHasCheckpoint ==
    pc = "driver" => \A c \in checkpoint : c \in local.known \/ ~IsPrefix(local.head, c)

\* An interrupt ends the runner if it has not come to the driver, even if the local client
\* never answers or never syncs.
InterruptEnds == shutdown ~> pc \in Ended \cup {"driver"}

\* If the local client comes up and syncs, the runner starts the driver or gives up.
ComesToDriver ==
    WF_vars(BecomesAvailable) /\ WF_vars(Sync) => <>(pc \in Ended \cup {"driver"})

\* The search finds a block ("finding the latest epoch boundary to use as checkpoint").
SearchFinds == pc = "panic" => sync_mode \in {"Fast", "Challenge"}
=============================================================================
