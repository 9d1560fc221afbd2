------------------------- MODULE BlockHandlerProofs -------------------------
(***************************************************************************)
(* Theorems about BlockHandler, for all signers, messages and limits: its  *)
(* variables keep their types, a block is accepted a second time only at   *)
(* the two ends of the time in which it is valid, and only with the        *)
(* signature of the signer that L1 names.                                  *)
(***************************************************************************)
EXTENDS BlockHandler, TLAPS

-----------------------------------------------------------------------------
(* Types *)

\* Every step keeps the types of all variables.
LEMMA TypeStep == TypeOK /\ [Next]_vars => TypeOK'
<1> SUFFICES ASSUME TypeOK, [Next]_vars PROVE TypeOK'
  OBVIOUS
<1> USE HandlerAssumption DEF HandlerAssumption
<1>1. ASSUME NEW topic \in topics, NEW d \in Data, Handle(topic, d) PROVE TypeOK'
  <2>1. accepted' \subseteq [data : Data, at : 0..now', named : Signers, restarted : BOOLEAN]
    <3>1. Acceptance(d) \in [data : Data, at : 0..now, named : Signers, restarted : BOOLEAN]
      BY DEF Acceptance, NamedSigner, TypeOK
    <3> QED BY <3>1, <1>1 DEF Handle, TypeOK
  <2>2. unsafe_blocks' \in Seq(Data)
    <3>1. unsafe_blocks \in Seq(Data) /\ Append(unsafe_blocks, d) \in Seq(Data)
      BY DEF TypeOK
    <3>2. unsafe_blocks' = unsafe_blocks \/ unsafe_blocks' = Append(unsafe_blocks, d)
      BY <1>1 DEF Handle
    <3> QED BY <3>1, <3>2
  <2>3. DOMAIN seen' \subseteq Data /\ \A x \in DOMAIN seen' : seen'[x] \in Nat
    BY <1>1 DEF Handle, Expiry, TypeOK
  <2> QED BY <2>1, <2>2, <2>3, <1>1 DEF Handle, l1_vars, TypeOK
<1>2. CASE StartNetworking
  BY <1>2 DEF StartNetworking, l1_vars, gossip_vars, TypeOK
<1>3. CASE CollectUnsafeBlocks
  BY <1>3 DEF CollectUnsafeBlocks, l1_vars, gossip_vars, TypeOK
<1>4. CASE NewBlock
  <2>1. SignerAt(current_block) \in Signers
    BY <1>4 DEF NewBlock, SignerAt, TypeOK
  <2> QED BY <2>1, <1>4 DEF NewBlock, gossip_vars, TypeOK
<1>5. ASSUME NEW keep \in 1..MaxL1, NEW start \in 1..MaxL1, Reorg(keep, start) PROVE TypeOK'
  <2>1. keep \in 1..Len(l1_signers)
    BY <1>5 DEF Reorg, TypeOK
  <2>2. l1_signers' \in Seq(Signers) /\ Len(l1_signers') = keep
    BY <2>1, <1>5 DEF Reorg, TypeOK
  <2> QED BY <2>1, <2>2, <1>5 DEF Reorg, gossip_vars, TypeOK
<1>6. ASSUME NEW signer \in Signers, L1Block(signer) PROVE TypeOK'
  BY <1>6 DEF L1Block, gossip_vars, TypeOK
<1>7. CASE Tick
  BY <1>7 DEF Tick, Restrict, l1_vars, TypeOK
<1>8. CASE UNCHANGED vars
  BY <1>8 DEF vars, l1_vars, gossip_vars, TypeOK
<1> QED BY <1>1, <1>2, <1>3, <1>4, <1>5, <1>6, <1>7, <1>8 DEF Next

\* Every variable of the handler, its service and the driver's side keeps its type.
THEOREM HandlerTypeCorrect == Spec => []TypeOK
<1>1. Init => TypeOK
  <2> SUFFICES ASSUME Init PROVE TypeOK
    OBVIOUS
  <2> USE HandlerAssumption DEF HandlerAssumption
  <2>1. l1_signers \in Seq(Signers) /\ Len(l1_signers) = 1
    BY DEF Init
  <2>2. DOMAIN seen \subseteq Data /\ \A d \in DOMAIN seen : seen[d] \in Nat
    BY DEF Init
  <2>3. unsafe_blocks \in Seq(Data)
    BY DEF Init
  <2>4. networking \in BOOLEAN
    BY DEF Init
  <2>5. /\ now = 0 /\ reorgs = 0 /\ accepted = {}
        /\ l1_start = 1 /\ current_block = 1
        /\ system_config = StaticSigner /\ unsafe_signer = StaticSigner
    BY DEF Init
  <2> QED BY <2>1, <2>2, <2>3, <2>4, <2>5 DEF TypeOK
<1> QED BY <1>1, TypeStep, PTL DEF Spec

-----------------------------------------------------------------------------
(* Repeated blocks *)

\* A block was accepted within the time in which block_valid takes it.
AcceptedFresh ==
    \A a \in accepted : /\ a.data.timestamp <= a.at + FutureLimit
                        /\ a.at <= a.data.timestamp + AgeLimit

\* An accepted block is in the duplicate cache for all of its time.
Remembered ==
    \A a \in accepted :
        \/ a.at + DuplicateCacheTime <= now
        \/ a.data \in DOMAIN seen /\ seen[a.data] >= a.at + DuplicateCacheTime

\* Two acceptances of one block are at least that time apart.
Spaced ==
    \A a, b \in accepted :
        a.data = b.data /\ a.at < b.at => a.at + DuplicateCacheTime <= b.at

DuplicateInv == AcceptedFresh /\ Remembered /\ Spaced

\* Steps other than those of the service and the clock do not touch any of it.
LEMMA DuplicateUntouched ==
    ASSUME DuplicateInv, UNCHANGED <<now, seen, accepted>>
    PROVE  DuplicateInv'
BY DEF DuplicateInv, AcceptedFresh, Remembered, Spaced

\* A message from the service keeps the invariant.
LEMMA DuplicateHandle ==
    ASSUME TypeOK, DuplicateInv, NEW topic \in topics, NEW d \in Data, Handle(topic, d)
    PROVE  DuplicateInv'
<1> USE HandlerAssumption DEF HandlerAssumption
<1>1. now \in Nat /\ d.timestamp \in Nat
  BY DEF TypeOK, Envelope
<1>2. \A a \in accepted : a.at \in Nat /\ a.at <= now /\ a.data \in Data /\ a.data.timestamp \in Nat
  BY DEF TypeOK, Envelope
<1>3. d \notin DOMAIN seen
  BY DEF Handle, Delivered, IsDuplicate
<1>4. /\ DOMAIN seen' = DOMAIN seen \cup {d}
      /\ seen'[d] = now + DuplicateCacheTime
      /\ \A x \in DOMAIN seen : seen'[x] = seen[x]
      /\ now' = now
  BY <1>3 DEF Handle, Expiry
<1>5. \A a \in accepted : a.data = d => a.at + DuplicateCacheTime <= now
  BY <1>3 DEF DuplicateInv, Remembered
<1>6. CASE accepted' = accepted
  BY <1>6, <1>4, <1>3 DEF DuplicateInv, AcceptedFresh, Remembered, Spaced
<1>7. CASE accepted' # accepted
  <2> DEFINE new == Acceptance(d)
  <2>1. accepted' = accepted \cup {new} /\ TimeValid(d.timestamp)
    BY <1>7 DEF Handle, BlockValid
  <2>2. new.data = d /\ new.at = now
    BY DEF Acceptance
  <2>3. d.timestamp <= now + FutureLimit /\ now <= d.timestamp + AgeLimit
    BY <2>1, <1>1 DEF TimeValid
  <2> HIDE DEF new
  <2>4. AcceptedFresh'
    BY <2>1, <2>2, <2>3 DEF DuplicateInv, AcceptedFresh
  <2>5. Remembered'
    BY <2>1, <2>2, <1>1, <1>2, <1>3, <1>4 DEF DuplicateInv, Remembered
  <2>6. Spaced'
    BY <2>1, <2>2, <1>2, <1>5, <1>1 DEF DuplicateInv, Spaced
  <2> QED BY <2>4, <2>5, <2>6 DEF DuplicateInv
<1> QED BY <1>6, <1>7

\* The clock keeps the invariant: an entry goes only when its time has come.
LEMMA DuplicateTick == TypeOK /\ DuplicateInv /\ Tick => DuplicateInv'
<1> SUFFICES ASSUME TypeOK, DuplicateInv, Tick PROVE DuplicateInv'
  OBVIOUS
<1> USE HandlerAssumption DEF HandlerAssumption
<1>1. /\ now \in Nat /\ now' = now + 1 /\ accepted' = accepted
      /\ \A a \in accepted : a.at \in Nat
      /\ \A x \in DOMAIN seen : seen[x] \in Nat
  BY DEF Tick, TypeOK
<1>2. \A x \in DOMAIN seen : seen[x] > now + 1 => x \in DOMAIN seen' /\ seen'[x] = seen[x]
  BY <1>1 DEF Tick, Restrict
<1>3. Remembered'
  BY <1>1, <1>2 DEF DuplicateInv, Remembered
<1> QED BY <1>1, <1>3 DEF DuplicateInv, AcceptedFresh, Spaced

\* The cache covers the time in which a block is valid.
LEMMA DuplicateImplies == TypeOK /\ DuplicateInv => TwiceOnlyAtTheEdges
<1> SUFFICES ASSUME TypeOK, DuplicateInv, NEW a \in accepted, NEW b \in accepted,
                    a.data = b.data, a.at < b.at
             PROVE  /\ a.at = a.data.timestamp - FutureLimit
                    /\ b.at = a.data.timestamp + AgeLimit
  BY DEF TwiceOnlyAtTheEdges
<1>1. a.at \in Nat /\ b.at \in Nat /\ a.data.timestamp \in Nat
  BY HandlerAssumption DEF HandlerAssumption, TypeOK, Envelope
<1>2. /\ a.data.timestamp <= a.at + FutureLimit
      /\ b.at <= a.data.timestamp + AgeLimit
      /\ a.at + DuplicateCacheTime <= b.at
  BY DEF DuplicateInv, AcceptedFresh, Spaced
<1> QED BY <1>1, <1>2, HandlerAssumption DEF HandlerAssumption

\* Gossipsub's duplicate cache and the age limits of block_valid together let a block
\* reach the driver twice only at the two ends of its time, whatever the limits are as
\* long as the cache time is their sum.
THEOREM TwiceOnlyAtTheEdgesCorrect == Spec => []TwiceOnlyAtTheEdges
<1>1. Init => DuplicateInv
  BY DEF Init, DuplicateInv, AcceptedFresh, Remembered, Spaced
<1>2. TypeOK /\ DuplicateInv /\ [Next]_vars => DuplicateInv'
  BY DuplicateUntouched, DuplicateHandle, DuplicateTick
     DEF Next, StartNetworking, CollectUnsafeBlocks, NewBlock, Reorg, L1Block, vars, gossip_vars
<1> QED BY <1>1, <1>2, DuplicateImplies, HandlerTypeCorrect, PTL DEF Spec

-----------------------------------------------------------------------------
(* The signer *)

\* Until the watcher is restarted, it and the watch channel have the signer of the last
\* L1 block given to the driver, and so had every block that was accepted.
SignerInv ==
    /\ reorgs = 0 => /\ l1_start = 1 /\ l1_signers[1] = StaticSigner
                     /\ system_config = NamedSigner
                     /\ unsafe_signer = NamedSigner
    /\ AcceptedBySigner

\* Every step keeps SignerInv.
LEMMA SignerStep == TypeOK /\ SignerInv /\ [Next]_vars => SignerInv'
<1> SUFFICES ASSUME TypeOK, SignerInv, [Next]_vars PROVE SignerInv'
  OBVIOUS
<1> USE HandlerAssumption DEF HandlerAssumption
<1>1. ASSUME NEW topic \in topics, NEW d \in Data, Handle(topic, d) PROVE SignerInv'
  <2>1. UNCHANGED l1_vars /\ UNCHANGED NamedSigner
    BY <1>1 DEF Handle, l1_vars, NamedSigner
  <2>2. AcceptedBySigner'
    <3>1. CASE accepted' = accepted
      BY <3>1 DEF SignerInv, AcceptedBySigner
    <3>2. CASE accepted' # accepted
      <4>1. accepted' = accepted \cup {Acceptance(d)} /\ SigValid(d)
        BY <1>1, <3>2 DEF Handle, BlockValid
      <4>2. reorgs \in Nat
        BY DEF TypeOK
      <4>3. ~Acceptance(d).restarted => d.signer = Acceptance(d).named /\ d.chain = "ours"
        <5>1. Acceptance(d).restarted = (reorgs > 0) /\ Acceptance(d).named = NamedSigner
          BY DEF Acceptance
        <5>2. ~(reorgs > 0) => reorgs = 0
          BY <4>2
        <5>3. reorgs = 0 => d.signer = NamedSigner /\ d.chain = "ours"
          BY <4>1 DEF SigValid, SignerInv
        <5> QED BY <5>1, <5>2, <5>3
      <4>4. Acceptance(d).data = d
        BY DEF Acceptance
      <4> QED BY <4>1, <4>3, <4>4 DEF SignerInv, AcceptedBySigner
    <3> QED BY <3>1, <3>2
  <2> QED BY <2>1, <2>2 DEF SignerInv, l1_vars
<1>2. CASE NewBlock
  <2>1. accepted' = accepted
    BY <1>2 DEF NewBlock, gossip_vars
  <2>2. ASSUME reorgs = 0
        PROVE  SignerAt(current_block) = l1_signers[current_block]
    <3>1. current_block \in Nat /\ current_block >= 1 /\ l1_start = 1
      BY <2>2 DEF TypeOK, SignerInv
    <3>2. CASE current_block = 1
      BY <2>2, <3>1, <3>2 DEF SignerAt, SignerInv, NamedSigner
    <3>3. CASE current_block # 1
      BY <2>2, <3>1, <3>3 DEF SignerAt, SignerInv, NamedSigner
    <3> QED BY <3>2, <3>3
  <2>3. NamedSigner' = l1_signers[current_block]
    BY <1>2 DEF NewBlock, NamedSigner, TypeOK
  <2> QED BY <1>2, <2>1, <2>2, <2>3 DEF NewBlock, SignerInv, AcceptedBySigner
<1>3. ASSUME NEW keep \in 1..MaxL1, NEW start \in 1..MaxL1, Reorg(keep, start) PROVE SignerInv'
  BY <1>3 DEF Reorg, gossip_vars, SignerInv, AcceptedBySigner, TypeOK
<1>4. ASSUME NEW signer \in Signers, L1Block(signer) PROVE SignerInv'
  <2>1. \A i \in 1..Len(l1_signers) : l1_signers'[i] = l1_signers[i]
    BY <1>4 DEF L1Block, TypeOK
  <2>2. UNCHANGED NamedSigner
    BY <2>1, <1>4 DEF L1Block, NamedSigner, TypeOK
  <2> QED BY <2>1, <2>2, <1>4 DEF L1Block, gossip_vars, SignerInv, AcceptedBySigner, TypeOK
<1>5. CASE UNCHANGED <<l1_vars, accepted>>
  BY <1>5 DEF l1_vars, SignerInv, NamedSigner, AcceptedBySigner
<1> QED BY <1>1, <1>2, <1>3, <1>4, <1>5
        DEF Next, StartNetworking, CollectUnsafeBlocks, Tick, vars, gossip_vars

\* Only blocks signed for this chain by the signer that L1 names are accepted, however
\* messages and signer updates interleave, until a watcher is restarted.
THEOREM AcceptedBySignerCorrect == Spec => []AcceptedBySigner
<1>1. Init => SignerInv
  BY DEF Init, SignerInv, NamedSigner, AcceptedBySigner
<1>2. SignerInv => AcceptedBySigner
  BY DEF SignerInv
<1> QED BY <1>1, <1>2, SignerStep, HandlerTypeCorrect, PTL DEF Spec

=============================================================================
