---------------------------- MODULE RunnerProofs ----------------------------
(***************************************************************************)
(* Proofs about Runner: for every remote chain, every local client and any *)
(* number of reorgs, the checkpoint is the first block of its epoch unless *)
(* the remote chain was reorganised, and the driver is started on a client *)
(* that has it or is on a fork.                                            *)
(***************************************************************************)
EXTENDS Runner, SequenceLemmas

Chains == Seq(Content)

\* What the variables hold.
Types ==
    /\ remote \in Chains
    /\ reorgs \in Nat
    /\ seen \subseteq Chains
    /\ checkpoint_hash \subseteq Chains
    /\ block_number \in Nat /\ l2_block \in Chains
    /\ checkpoint \subseteq Chains
    /\ \A c, d \in checkpoint : c = d
    /\ local \in [known : SUBSET Chains, head : Chains]
    /\ local.head \in local.known
    /\ target \subseteq checkpoint

\* The block number that the search walks down from was a number of the remote chain, and
\* the block that goes with it is on that chain still, unless there was a reorg.
SearchInv ==
    /\ pc \in {"number", "latest", "search", "by_number"} => checkpoint_hash = {}
    /\ pc = "latest" /\ reorgs = 0 => block_number <= Len(remote)
    /\ pc \in {"search", "by_number"} =>
         /\ l2_block # <<>>
         /\ reorgs = 0 => IsPrefix(l2_block, remote)
         /\ IsEpochBoundary(l2_block) => block_number = Len(l2_block)
    /\ pc = "by_number" => IsEpochBoundary(l2_block)

\* Until it is chosen there is no checkpoint.
ChosenInv ==
    pc \in {"run", "given", "number", "latest", "search", "by_number"} => checkpoint = {}

\* When the driver runs, the client has the checkpoint or got as far on another chain.
ReachedInv ==
    pc = "driver" => \A c \in checkpoint : c \in local.known \/ Len(local.head) >= Len(c)

IndInv ==
    /\ Types
    /\ SearchInv
    /\ ChosenInv
    /\ CheckpointIsBoundary
    /\ ReachedInv

-----------------------------------------------------------------------------
(* The invariant is inductive *)

LEMMA InitInv == Init => IndInv
  <1> SUFFICES ASSUME Init PROVE IndInv
    OBVIOUS
  <1>1. PICK h \in InitLocals : local = [known |-> Prefixes(h), head |-> h]
    BY DEF Init
  <1>2. h \in Chains /\ Prefixes(h) \subseteq Chains /\ h \in Prefixes(h)
    BY RunnerAssumption, PrefixesFacts DEF Chains
  <1>3. InitRemote \in Chains /\ Prefixes(InitRemote) \subseteq Chains
    BY RunnerAssumption, PrefixesFacts DEF Chains
  <1>4. checkpoint_hash \subseteq Chains
    BY <1>3, RunnerAssumption DEF Init, Chains
  <1>5. Types
    BY <1>1, <1>2, <1>3, <1>4, EmptySeq DEF Init, Types, Chains
  <1>6. QED
    BY <1>5 DEF Init, IndInv, SearchInv, ChosenInv, CheckpointIsBoundary, ReachedInv

\* A new block of the remote node extends its chain.
LEMMA NextOnFacts ==
    ASSUME NEW c \in Chains, NEW tag \in Nat, NEW d \in NextOn(c, tag)
    PROVE  d \in Chains /\ IsPrefix(c, d) /\ Len(d) = Len(c) + 1
  <1> DEFINE up == IF c = <<>> THEN 0 ELSE Last(c).seq + 1
  <1>1. up \in Nat
    <2>1. CASE c # <<>>
      <3>1. Last(c) \in Content
        BY <2>1, FrontIsParent DEF Chains
      <3>2. QED
        BY <3>1 DEF Content
    <2>2. QED
      BY <2>1
  <1> HIDE DEF up
  <1>2. PICK s \in {0, up} : d = Append(c, [seq |-> s, tag |-> tag])
    BY DEF NextOn, up
  <1>3. [seq |-> s, tag |-> tag] \in Content
    BY <1>1 DEF Content
  <1>4. QED
    BY <1>2, <1>3, FrontOfAppend DEF Chains

\* Steps of the remote node.
LEMMA RemoteInv == IndInv /\ (RemoteGrows \/ RemoteReorgs) => IndInv'
  <1> SUFFICES ASSUME IndInv, RemoteGrows \/ RemoteReorgs PROVE IndInv'
    OBVIOUS
  <1> USE DEF IndInv
  <1>1. UNCHANGED <<local, target, shutdown, checkpoint_hash, pc, block_number, l2_block,
                    checkpoint>>
    BY DEF RemoteGrows, RemoteReorgs, local_vars, options, locals
  <1>2. remote \in Chains /\ reorgs \in Nat /\ seen \subseteq Chains /\ l2_block \in Chains
    BY DEF Types
  <1>3. CASE RemoteGrows
    <2>1. remote' \in Chains /\ IsPrefix(remote, remote') /\ Len(remote') = Len(remote) + 1
      BY <1>2, <1>3, NextOnFacts DEF RemoteGrows
    <2>2. seen' \subseteq Chains /\ reorgs' = reorgs
      BY <1>2, <1>3, <2>1 DEF RemoteGrows
    <2>3. Types'
      BY <1>1, <2>1, <2>2 DEF Types
    <2>4. IsPrefix(l2_block, remote) => IsPrefix(l2_block, remote')
      BY <1>2, <2>1, PrefixTransitive DEF Chains
    <2>5. Len(remote) \in Nat /\ block_number \in Nat
      BY <1>2, LenProperties DEF Types, Chains
    <2>6. SearchInv'
      BY <1>1, <2>1, <2>2, <2>4, <2>5 DEF SearchInv, IsEpochBoundary
    <2>7. QED
      BY <1>1, <2>2, <2>3, <2>6 DEF ChosenInv, CheckpointIsBoundary, ReachedInv
  <1>4. CASE RemoteReorgs
    <2>1. reorgs' \in Nat /\ reorgs' > 0 /\ reorgs' = reorgs + 1
      BY <1>2, <1>4 DEF RemoteReorgs
    <2>2. remote # <<>>
      BY <1>4 DEF RemoteReorgs
    <2>3. Front(remote) \in Chains
      BY <1>2, <2>2, FrontIsParent DEF Chains
    <2>4. remote' \in Chains
      BY <1>4, <2>1, <2>3, NextOnFacts DEF RemoteReorgs
    <2>5. seen' \subseteq Chains
      BY <1>2, <1>4, <2>4 DEF RemoteReorgs
    <2>6. Types'
      BY <1>1, <2>1, <2>4, <2>5 DEF Types
    <2>7. SearchInv'
      BY <1>1, <2>1 DEF SearchInv, IsEpochBoundary
    <2>8. CheckpointIsBoundary'
      BY <1>1, <1>2, <2>1 DEF CheckpointIsBoundary
    <2>9. QED
      BY <1>1, <2>6, <2>7, <2>8 DEF ChosenInv, ReachedInv
  <1>5. QED
    BY <1>3, <1>4

\* The local client syncs: what it knows grows, and its head goes up or to the target.
LEMMA SyncInv == IndInv /\ Sync => IndInv'
  <1> SUFFICES ASSUME IndInv, Sync PROVE IndInv'
    OBVIOUS
  <1> USE DEF IndInv
  <1>1. UNCHANGED <<remote, seen, reorgs, target, checkpoint_hash, pc, block_number, l2_block,
                    checkpoint>>
    BY DEF Sync, remote_vars, options, locals
  <1>2. PICK t \in target :
          LET missing == Prefixes(t) \ local.known
              next    == CHOOSE b \in missing : \A c \in missing : Len(b) <= Len(c)
          IN  /\ missing # {}
              /\ local' = [known |-> local.known \cup {next},
                           head  |-> IF Len(next) > Len(local.head) \/ next = t
                                     THEN next ELSE local.head]
    BY DEF Sync
  <1> DEFINE missing == Prefixes(t) \ local.known
             next    == CHOOSE b \in missing : \A c \in missing : Len(b) <= Len(c)
  <1>3. t \in checkpoint /\ t \in Chains
    BY DEF Types
  <1>4. missing \subseteq Seq(Content)
    BY <1>3, PrefixesFacts DEF Chains
  <1>5. missing # {}
    BY <1>2
  <1>6. next \in Chains
    <2> HIDE DEF missing
    <2>1. next \in missing
      BY <1>4, <1>5, ShortestSeq
    <2>2. QED
      BY <1>4, <2>1 DEF Chains
  <1>7. local' = [known |-> local.known \cup {next},
                  head  |-> IF Len(next) > Len(local.head) \/ next = t
                            THEN next ELSE local.head]
    BY <1>2
  <1> HIDE DEF missing, next
  <1>8. /\ local' \in [known : SUBSET Chains, head : Chains]
        /\ local'.head \in local'.known
        /\ local.known \subseteq local'.known
        /\ \/ local'.head = local.head
           \/ Len(local'.head) > Len(local.head)
           \/ t \in local'.known
    BY <1>6, <1>7 DEF Types
  <1>9. Types'
    BY <1>1, <1>8 DEF Types
  <1>10. ReachedInv'
    <2> SUFFICES ASSUME pc' = "driver", NEW c \in checkpoint'
                 PROVE  c \in local'.known \/ Len(local'.head) >= Len(c)
      BY DEF ReachedInv
    <2>1. pc = "driver" /\ c \in checkpoint /\ c = t
      BY <1>1, <1>3 DEF Types
    <2>2. c \in local.known \/ Len(local.head) >= Len(c)
      BY <2>1 DEF ReachedInv
    <2>3. Len(local.head) \in Nat /\ Len(local'.head) \in Nat /\ Len(c) \in Nat
      BY <2>1, <1>8, LenProperties DEF Types, Chains
    <2>4. QED
      BY <1>8, <2>1, <2>2, <2>3
  <1>11. QED
    BY <1>1, <1>9, <1>10 DEF SearchInv, IsEpochBoundary, ChosenInv, CheckpointIsBoundary

\* Steps that only say where the runner goes on: all of them but the choice of the
\* checkpoint, the search and the calls that change the local client.
LEMMA ControlInv ==
    ASSUME IndInv,
           \/ Run \/ AwaitAvailable \/ CheckPresent \/ AwaitSynced
           \/ StartDriver \/ RpcFails \/ BecomesAvailable \/ Interrupt
    PROVE  IndInv'
  <1> USE DEF IndInv
  <1>1. UNCHANGED <<remote, seen, reorgs, local, target, checkpoint_hash, block_number,
                    l2_block, checkpoint>>
    BY DEF Run, AwaitAvailable, CheckPresent, AwaitSynced, StartDriver, RpcFails,
           BecomesAvailable, Interrupt, remote_vars, local_vars, options, locals
  <1>2. Types' /\ CheckpointIsBoundary'
    BY <1>1 DEF Types, CheckpointIsBoundary
  <1>3. \/ pc' = pc
        \/ pc = "run" /\ pc' \in {"driver", "given"}
        \/ pc = "run" /\ pc' = "number" /\ checkpoint_hash = {}
        \/ pc' \in {"exit0", "exit1", "panic", "error", "present", "payload"}
        \/ pc = "present" /\ pc' = "driver" /\ checkpoint \subseteq local.known
        \/ pc = "wait" /\ pc' = "driver" /\ Synced
    BY DEF Run, AwaitAvailable, CheckPresent, AwaitSynced, StartDriver, RpcFails,
           BecomesAvailable, Interrupt, Await, Goto
  <1>4. SearchInv' /\ ChosenInv'
    BY <1>1, <1>3 DEF SearchInv, ChosenInv, IsEpochBoundary
  <1>5. ReachedInv'
    BY <1>1, <1>3 DEF ReachedInv, ChosenInv, Synced
  <1>6. QED
    BY <1>2, <1>4, <1>5

\* The checkpoint named on the command line.
LEMMA GivenInv == IndInv /\ GivenCheckpoint => IndInv'
  <1> SUFFICES ASSUME IndInv, GivenCheckpoint PROVE IndInv'
    OBVIOUS
  <1> USE DEF IndInv
  <1>1. UNCHANGED <<remote, seen, reorgs, local, target, checkpoint_hash, block_number,
                    l2_block>>
    BY DEF GivenCheckpoint, remote_vars, local_vars, options
  <1>2. pc = "given" /\ pc' \in {"error", "exit1", "available"}
    BY DEF GivenCheckpoint, Goto
  <1>3. \/ checkpoint' = checkpoint
        \/ \E b \in checkpoint_hash : checkpoint' = {b} /\ IsEpochBoundary(b)
    BY DEF GivenCheckpoint, Goto
  <1>4. checkpoint = {} /\ target = {} /\ checkpoint_hash \subseteq Chains
    BY <1>2 DEF ChosenInv, Types
  <1>5. Types'
    BY <1>1, <1>3, <1>4 DEF Types
  <1>6. CheckpointIsBoundary'
    BY <1>1, <1>3 DEF CheckpointIsBoundary, IsEpochBoundary
  <1>7. QED
    BY <1>2, <1>5, <1>6 DEF SearchInv, ChosenInv, ReachedInv

\* The search for an epoch boundary, up to the choice of the checkpoint.
LEMMA SearchStepInv == IndInv /\ (GetBlockNumber \/ GetLatest \/ Search) => IndInv'
  <1> SUFFICES ASSUME IndInv, GetBlockNumber \/ GetLatest \/ Search PROVE IndInv'
    OBVIOUS
  <1> USE DEF IndInv
  <1>1. UNCHANGED <<remote, seen, reorgs, local, target, checkpoint_hash, checkpoint>>
    BY DEF GetBlockNumber, GetLatest, Search, remote_vars, local_vars, options
  <1>2. /\ remote \in Chains /\ block_number \in Nat /\ l2_block \in Chains
        /\ Len(remote) \in Nat
    BY LenProperties DEF Types, Chains
  <1>3. CASE GetBlockNumber
    <2>1. /\ pc = "number" /\ pc' = "latest"
          /\ block_number' = Len(remote) /\ l2_block' = l2_block
      BY <1>3 DEF GetBlockNumber, Goto
    <2>2. Types'
      BY <1>1, <1>2, <2>1 DEF Types
    <2>3. QED
      BY <1>1, <1>2, <2>1, <2>2 DEF SearchInv, ChosenInv, CheckpointIsBoundary, ReachedInv
  <1>4. CASE GetLatest
    <2>1. pc = "latest" /\ block_number' = block_number
      BY <1>4 DEF GetLatest
    <2>2. CASE pc' = "error" /\ l2_block' = l2_block
      BY <1>1, <2>1, <2>2 DEF Types, SearchInv, ChosenInv, CheckpointIsBoundary, ReachedInv
    <2>3. CASE /\ block_number <= Len(remote)
               /\ l2_block' = SubSeq(remote, 1, block_number)
               /\ pc' = IF l2_block' # <<>> THEN "search" ELSE "error"
      <3>1. block_number \in 0..Len(remote)
        BY <1>2, <2>3
      <3>2. /\ l2_block' \in Chains /\ Len(l2_block') = block_number
            /\ IsPrefix(l2_block', remote)
        BY <1>2, <2>3, <3>1, PrefixSubSeq DEF Chains
      <3>3. Types'
        BY <1>1, <2>1, <3>2 DEF Types
      <3>4. SearchInv'
        BY <1>1, <2>1, <2>3, <3>2 DEF SearchInv
      <3>5. QED
        BY <1>1, <2>1, <2>3, <3>3, <3>4 DEF ChosenInv, CheckpointIsBoundary, ReachedInv
    <2>4. QED
      BY <1>4, <2>2, <2>3 DEF GetLatest, Goto, BlockAt, HasHeadInfo
  <1>5. CASE Search
    <2>1. pc = "search" /\ l2_block' = l2_block
      BY <1>5 DEF Search
    <2>2. \/ IsEpochBoundary(l2_block) /\ pc' = "by_number" /\ block_number' = block_number
          \/ pc' \in {"exit0", "panic"} /\ block_number' = block_number
          \/ /\ ~IsEpochBoundary(l2_block) /\ pc' = pc
             /\ block_number # 0 /\ block_number' = block_number - 1
      BY <1>5 DEF Search, Goto
    <2>3. block_number' \in Nat
      BY <1>2, <2>2
    <2>4. Types'
      BY <1>1, <2>1, <2>3 DEF Types
    <2>5. SearchInv'
      BY <1>1, <2>1, <2>2 DEF SearchInv, IsEpochBoundary
    <2>6. QED
      BY <1>1, <2>1, <2>2, <2>4, <2>5 DEF ChosenInv, CheckpointIsBoundary, ReachedInv
  <1>6. QED
    BY <1>3, <1>4, <1>5

\* The block of the number found is the one that was tested, unless there was a reorg.
LEMMA FoundInv == IndInv /\ FoundCheckpoint => IndInv'
  <1> SUFFICES ASSUME IndInv, FoundCheckpoint PROVE IndInv'
    OBVIOUS
  <1> USE DEF IndInv
  <1>1. UNCHANGED <<remote, seen, reorgs, local, target, checkpoint_hash, block_number,
                    l2_block>>
    BY DEF FoundCheckpoint, remote_vars, local_vars, options
  <1>2. pc = "by_number" /\ checkpoint = {} /\ target = {}
    BY DEF FoundCheckpoint, ChosenInv, Types
  <1>3. CASE pc' = "panic" /\ checkpoint' = checkpoint
    BY <1>1, <1>3 DEF Types, SearchInv, ChosenInv, CheckpointIsBoundary, ReachedInv
  <1>4. CASE /\ block_number <= Len(remote) /\ pc' = "available"
             /\ checkpoint' = {SubSeq(remote, 1, block_number)}
    <2> DEFINE c == SubSeq(remote, 1, block_number)
    <2>1. remote \in Chains /\ block_number \in 0..Len(remote) /\ l2_block \in Chains
      BY <1>4, LenProperties DEF Types, Chains
    <2>2. c \in Chains
      BY <2>1, PrefixSubSeq DEF Chains
    <2>3. reorgs = 0 => c = l2_block
      BY <1>2, <2>1, PrefixIsSubSeq DEF SearchInv, Chains
    <2>4. Last(l2_block).seq = 0 /\ checkpoint_hash = {}
      BY <1>2 DEF SearchInv, IsEpochBoundary
    <2> HIDE DEF c
    <2>5. checkpoint' = {c}
      BY <1>4 DEF c
    <2>6. Types'
      BY <1>1, <1>2, <2>2, <2>5 DEF Types
    <2>7. reorgs \in Nat
      BY DEF Types
    <2>8. CheckpointIsBoundary'
      BY <1>1, <2>3, <2>4, <2>5, <2>7 DEF CheckpointIsBoundary
    <2>9. QED
      BY <1>4, <2>6, <2>8 DEF SearchInv, ChosenInv, ReachedInv
  <1>5. QED
    BY <1>3, <1>4 DEF FoundCheckpoint, Goto, BlockAt

\* The payload and the forkchoice update of the checkpoint.
LEMMA EngineCallInv == IndInv /\ (SendPayload \/ SendForkchoice) => IndInv'
  <1> SUFFICES ASSUME IndInv, SendPayload \/ SendForkchoice PROVE IndInv'
    OBVIOUS
  <1> USE DEF IndInv
  <1>1. UNCHANGED <<remote, seen, reorgs, checkpoint_hash, block_number, l2_block, checkpoint>>
    BY DEF SendPayload, SendForkchoice, remote_vars, options, locals
  <1>2. pc' \in {"forkchoice", "wait", "exit1"}
    BY DEF SendPayload, SendForkchoice, Goto
  <1>3. /\ local \in [known : SUBSET Chains, head : Chains] /\ local.head \in local.known
        /\ checkpoint \subseteq Chains /\ target \subseteq checkpoint
    BY DEF Types
  <1>4. /\ local' \in [known : SUBSET Chains, head : Chains] /\ local'.head \in local'.known
        /\ target' \subseteq checkpoint
    <2>1. CASE SendPayload
      BY <1>3, <2>1 DEF SendPayload
    <2>2. CASE SendForkchoice
      BY <1>3, <2>2 DEF SendForkchoice
    <2>3. QED
      BY <2>1, <2>2
  <1>5. Types'
    BY <1>1, <1>4 DEF Types
  <1>6. QED
    BY <1>1, <1>2, <1>5 DEF SearchInv, ChosenInv, CheckpointIsBoundary, ReachedInv

LEMMA Invariance == Spec => []IndInv
  <1>1. IndInv /\ [Next]_vars => IndInv'
    <2> SUFFICES ASSUME IndInv, [Next]_vars PROVE IndInv'
      OBVIOUS
    <2>1. CASE UNCHANGED vars
      BY <2>1 DEF vars, remote_vars, local_vars, options, locals, IndInv, Types, SearchInv,
                  IsEpochBoundary, ChosenInv, CheckpointIsBoundary, ReachedInv
    <2>2. CASE Next
      BY <2>2, RemoteInv, SyncInv, ControlInv, GivenInv, SearchStepInv, FoundInv, EngineCallInv
         DEF Next, RunnerStep
    <2>3. QED
      BY <2>1, <2>2
  <1>2. QED
    BY InitInv, <1>1, PTL DEF Spec

-----------------------------------------------------------------------------
(* Theorems *)

\* The checkpoint is the first block of its epoch for every remote chain, whether it was
\* named on the command line or found by the search that walks the number down without
\* reading a block; only a reorg between the two reads may bring another block.
THEOREM CheckpointIsBoundaryCorrect == Spec => []CheckpointIsBoundary
  <1>1. IndInv => CheckpointIsBoundary
    BY DEF IndInv
  <1>2. QED
    BY Invariance, <1>1, PTL

\* Comparing block numbers, as the runner does, is enough for the client to have the
\* checkpoint when the driver starts, unless the client is on a fork of it, and syncing
\* further does not take it away.
THEOREM DriverHasCheckpointCorrect == Spec => []DriverHasCheckpoint
  <1>1. IndInv => DriverHasCheckpoint
    <2> SUFFICES ASSUME IndInv, pc = "driver", NEW c \in checkpoint, IsPrefix(local.head, c)
                 PROVE  c \in local.known
      BY DEF DriverHasCheckpoint
    <2>1. c \in Seq(Content) /\ local.head \in Seq(Content) /\ local.head \in local.known
      BY DEF IndInv, Types, Chains
    <2>2. c \in local.known \/ Len(local.head) >= Len(c)
      BY DEF IndInv, ReachedInv
    <2>3. Len(local.head) <= Len(c) /\ Len(local.head) \in Nat /\ Len(c) \in Nat
      BY <2>1, PrefixEntries, LenProperties
    <2>4. CASE Len(local.head) >= Len(c)
      <3>1. Len(local.head) = Len(c)
        BY <2>3, <2>4
      <3>2. local.head = c
        BY <2>1, <3>1, PrefixSameLength
      <3>3. QED
        BY <2>1, <3>2
    <2>5. QED
      BY <2>2, <2>4
  <1>2. QED
    BY Invariance, <1>1, PTL
=============================================================================
