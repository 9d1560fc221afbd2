---------------------------- MODULE BlockHandler ----------------------------
(***************************************************************************)
(* Blocks from gossip: the block handler (network/handlers/block_handler.  *)
(* rs), the event loop of the network service that calls it, and the two   *)
(* channels between it and the driver.  Through a watch channel the driver *)
(* tells which signer the system config names; through an mpsc channel the *)
(* handler sends the blocks it accepts.  The service runs in a task of its *)
(* own, so messages come between any two steps of the driver.              *)
(*                                                                         *)
(* Gossipsub hands over a message of a subscribed topic once per           *)
(* duplicate_cache_time; otherwise peers may send anything at any time, in *)
(* any order.  A message has at least the bytes of a signature.  Of L1 the *)
(* module has the signer in force at each block, of the watcher the part   *)
(* of the system config that is the signer.                                *)
(***************************************************************************)
EXTENDS Integers, Sequences, Functions

CONSTANTS
    Signers,
    StaticSigner,        \* config.chain.system_config.unsafe_block_signer
    Data,                \* what messages may carry, uncompressed
    FutureLimit,         \* 5 seconds in the code
    AgeLimit,            \* 60 seconds in the code
    DuplicateCacheTime,  \* 65 seconds in the code
    MaxTime,             \* bound: the clock
    MaxL1,               \* bound: L1 blocks
    MaxReorgs            \* bound: reorgs the driver is told of

\* Versions of the SSZ payload; "none" is data that is not compressed or no payload.
Versions == {"v1", "v2", "v3"}

\* An envelope: payload, its time, and who signed it for which chain.
Envelope ==
    [version : Versions \cup {"none"}, timestamp : Nat, signer : Signers,
     chain : {"ours", "other"}]

ASSUME HandlerAssumption ==
    /\ StaticSigner \in Signers
    /\ Data \subseteq Envelope
    /\ FutureLimit \in Nat /\ AgeLimit \in Nat
    /\ DuplicateCacheTime \in Nat /\ DuplicateCacheTime >= FutureLimit + AgeLimit
    /\ DuplicateCacheTime > 0
    /\ MaxTime \in Nat /\ MaxL1 \in Nat \ {0} /\ MaxReorgs \in Nat

VARIABLES
    now,            \* SystemTime::now, in seconds
    networking,     \* the service runs
    l1_signers,     \* the signer in force at each L1 block
    l1_start,       \* the first L1 block the watcher was told to read
    current_block,  \* the next L1 block the driver gets
    system_config,  \* the watcher's: its unsafe_block_signer
    unsafe_signer,  \* the watch channel
    seen,           \* gossipsub's duplicate cache: when an entry expires
    unsafe_blocks,  \* the mpsc channel of accepted blocks
    reorgs,         \* number of watcher restarts
    accepted        \* history: what was accepted, when, and the signer L1 named then

l1_vars == <<l1_signers, l1_start, current_block, system_config, unsafe_signer, reorgs>>
gossip_vars == <<seen, accepted>>
vars == <<now, networking, l1_vars, gossip_vars, unsafe_blocks>>

-----------------------------------------------------------------------------
(* The handler *)

\* topics.
topics == {"v1", "v2"}

\* The topics that handle decodes; on each of them the payload of one version.
Decodes(topic, d) == topic \in Versions /\ d.version = topic

\* block_valid: neither too far ahead nor too old.
TimeValid(timestamp) ==
    LET is_future == timestamp > now + FutureLimit
        is_past   == timestamp < now - AgeLimit
    IN  ~(is_future \/ is_past)

\* block_valid: the signature is that of the current signer over the payload and
\* this chain's id.
SigValid(d) == d.signer = unsafe_signer /\ d.chain = "ours"

BlockValid(d) == TimeValid(d.timestamp) /\ SigValid(d)

-----------------------------------------------------------------------------
(* Gossipsub and the event loop *)

\* The mutation: an entry is kept as long as a block may be old.
Expiry_Short == now + AgeLimit

\* duplicate_cache_time.
Expiry == now + DuplicateCacheTime

\* compute_message_id names a message by its uncompressed data, whatever its topic.
IsDuplicate(d) == d \in DOMAIN seen

\* The signer of the last L1 block the driver was given.
NamedSigner == IF current_block = 1 THEN StaticSigner ELSE l1_signers[current_block - 1]

Acceptance(d) ==
    [data |-> d, at |-> now, named |-> NamedSigner, restarted |-> reorgs > 0]

\* Event::handle finds a handler for the message.
Delivered(topic, d) == networking /\ topic \in topics /\ ~IsDuplicate(d)

\* BlockHandler::handle.
Handle(topic, d) ==
    /\ Delivered(topic, d)
    /\ seen' = [x \in DOMAIN seen \cup {d} |-> IF x = d THEN Expiry ELSE seen[x]]
    /\ IF Decodes(topic, d) /\ BlockValid(d)
       THEN /\ unsafe_blocks' = Append(unsafe_blocks, d)
            /\ accepted' = accepted \cup {Acceptance(d)}
       ELSE UNCHANGED <<unsafe_blocks, accepted>>
    /\ UNCHANGED <<now, networking, l1_vars>>

\* try_start_networking; when it does is in Driver.
StartNetworking ==
    /\ ~networking
    /\ networking' = TRUE
    /\ UNCHANGED <<now, l1_vars, gossip_vars, unsafe_blocks>>

-----------------------------------------------------------------------------
(* The driver *)

\* advance_unsafe_head takes all there is.
CollectUnsafeBlocks ==
    /\ unsafe_blocks # <<>>
    /\ unsafe_blocks' = <<>>
    /\ UNCHANGED <<now, networking, l1_vars, gossip_vars>>

\* The mutation: an update is overlooked when it goes back to the static signer.
SignerAt_NotBack(n) ==
    IF n > l1_start /\ l1_signers[n] # StaticSigner THEN l1_signers[n] ELSE system_config

\* The watcher's config at block n.  It looks for the logs of updates in the blocks
\* after the one it was started at.
SignerAt(n) ==
    IF n > l1_start /\ l1_signers[n] # l1_signers[n - 1] THEN l1_signers[n] ELSE system_config

\* The mutation: the config before the update of the block.
NewBlock_Before ==
    /\ current_block <= Len(l1_signers)
    /\ system_config' = SignerAt(current_block)
    /\ unsafe_signer' = system_config
    /\ current_block' = current_block + 1
    /\ UNCHANGED <<now, networking, l1_signers, l1_start, reorgs, gossip_vars, unsafe_blocks>>

\* BlockUpdate::NewBlock: the signer of the block's system config is sent.
NewBlock ==
    /\ current_block <= Len(l1_signers)
    /\ system_config' = SignerAt(current_block)
    /\ unsafe_signer' = system_config'
    /\ current_block' = current_block + 1
    /\ UNCHANGED <<now, networking, l1_signers, l1_start, reorgs, gossip_vars, unsafe_blocks>>

\* BlockUpdate::Reorg: L1 was replaced above block `keep`.  The watcher restarts at
\* some block `start` with the signer of the static config, and the watch channel
\* stays as it is.
Reorg(keep, start) ==
    /\ reorgs < MaxReorgs
    /\ start <= keep /\ keep < current_block - 1
    /\ l1_signers' = SubSeq(l1_signers, 1, keep)
    /\ l1_start' = start
    /\ current_block' = start
    /\ system_config' = StaticSigner
    /\ reorgs' = reorgs + 1
    /\ UNCHANGED <<now, networking, unsafe_signer, gossip_vars, unsafe_blocks>>

-----------------------------------------------------------------------------
(* The environment *)

L1Block(signer) ==
    /\ Len(l1_signers) < MaxL1
    /\ l1_signers' = Append(l1_signers, signer)
    /\ UNCHANGED <<now, networking, l1_start, current_block, system_config, unsafe_signer,
                   reorgs, gossip_vars, unsafe_blocks>>

\* An entry of the cache is gone when its time has come.
Tick ==
    /\ now < MaxTime
    /\ now' = now + 1
    /\ seen' = Restrict(seen, {d \in DOMAIN seen : seen[d] > now'})
    /\ UNCHANGED <<networking, l1_vars, accepted, unsafe_blocks>>

Init ==
    /\ now = 0
    /\ networking = FALSE
    /\ l1_signers = <<StaticSigner>>
    /\ l1_start = 1
    /\ current_block = 1
    /\ system_config = StaticSigner
    /\ unsafe_signer = StaticSigner
    /\ seen = <<>>
    /\ unsafe_blocks = <<>>
    /\ reorgs = 0
    /\ accepted = {}

Next ==
    \/ \E topic \in topics, d \in Data : Handle(topic, d)
    \/ StartNetworking
    \/ CollectUnsafeBlocks
    \/ NewBlock
    \/ \E keep \in 1..MaxL1, start \in 1..MaxL1 : Reorg(keep, start)
    \/ \E signer \in Signers : L1Block(signer)
    \/ Tick

Spec == Init /\ [][Next]_vars

\* The driver's loop goes on; nothing is assumed of peers, of L1 or of the clock.
FairSpec == Spec /\ WF_vars(NewBlock) /\ WF_vars(CollectUnsafeBlocks)

-----------------------------------------------------------------------------
(* Properties *)

\* Every variable has its type.
TypeOK ==
    /\ now \in 0..MaxTime
    /\ networking \in BOOLEAN
    /\ l1_signers \in Seq(Signers) /\ Len(l1_signers) \in 1..MaxL1
    /\ l1_start \in 1..Len(l1_signers)
    /\ current_block \in l1_start..(Len(l1_signers) + 1)
    /\ system_config \in Signers /\ unsafe_signer \in Signers
    /\ DOMAIN seen \subseteq Data /\ \A d \in DOMAIN seen : seen[d] \in Nat
    /\ unsafe_blocks \in Seq(Data)
    /\ reorgs \in 0..MaxReorgs
    /\ accepted \subseteq
          [data : Data, at : 0..now, named : Signers, restarted : BOOLEAN]

\* A block reaches the driver only with a signature, for this chain, of the signer that
\* the last L1 block the driver was given names (block_valid: "correctly signed by the
\* unsafe block signer"), whichever way the updates of the watch channel and the
\* messages interleave, as long as the watcher was not restarted.
AcceptedBySigner ==
    \A a \in accepted : ~a.restarted => a.data.signer = a.named /\ a.data.chain = "ours"

\* The same after a restart of the watcher too.
AlwaysAcceptedBySigner == \A a \in accepted : a.data.signer = a.named

\* duplicate_cache_time just covers the span in which block_valid takes a block: one that
\* is sent again reaches the driver a second time only if it came as early as
\* possible first and as late as possible then, and no third time.
TwiceOnlyAtTheEdges ==
    \A a, b \in accepted :
        a.data = b.data /\ a.at < b.at
            => /\ a.at = a.data.timestamp - FutureLimit
               /\ b.at = a.data.timestamp + AgeLimit

\* The handler comes to use the signer of the newest L1 block, unless the watcher is
\* restarted: no update of the watch channel is lost for good.
SignerCatchesUp ==
    <>[](unsafe_signer = l1_signers[Len(l1_signers)]) \/ <>(reorgs > 0)

=============================================================================
