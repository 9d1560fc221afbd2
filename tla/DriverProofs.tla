---------------------------- MODULE DriverProofs ----------------------------
(***************************************************************************)
(* Proofs about Driver, for any L1 chain, any number of reorgs, faults and *)
(* crashes and any gossip: the three heads stay on one chain, the safe     *)
(* head is what L1 determines while the watcher is on it, and the driver   *)
(* implements FinalizedChain.                                              *)
(*                                                                         *)
(* The heart of the invariant is a chain nobody stores: the L1 chain the   *)
(* running watcher has read, which may have been replaced since.  All that *)
(* the driver has derived comes from it, and it agrees with the canonical  *)
(* chain as far as the driver takes L1 to be final.                        *)
(***************************************************************************)
EXTENDS Driver, SequenceLemmas

L2 == Seq(Content)
L1 == [hash : Nat, derived : L2]
Attributes == [slot : Nat, content : Content, inclusion : Nat]
Entry == [head : L2, inclusion : Nat, seq : Nat]
Update ==
    [type : {"NewBlock"}, attributes : SUBSET Attributes]
      \cup [type : {"FinalityUpdate"}, number : Nat]
      \cup [type : {"Reorg"}]

\* What the variables hold.
Types ==
    /\ l1 \in Seq(L1) /\ l1_finalized \in 0..(Len(l1) - 1) /\ minted \in Nat
    /\ watcher \in [next : Nat, last : Nat \cup {-1}, finalized : Nat, reorged : BOOLEAN]
    /\ queue \in Seq(Update)
    /\ unsafe_head \in L2 /\ safe_head \in L2 /\ finalized_head \in L2
    /\ unfinalized_blocks \in Seq(Entry)
    /\ finalized_l1_block_number \in Nat
    /\ future_unsafe_blocks \in Seq(L2)
    /\ pipeline \subseteq Attributes /\ attributes \subseteq Attributes

\* What L1 derives only grows along a chain c.
Grows(c) == \A j \in DOMAIN c : \A i \in 1..j : IsPrefix(c[i].derived, c[j].derived)

\* The canonical chain, whose hashes are never used again.
L1Inv ==
    /\ Grows(l1)
    /\ \A i \in DOMAIN l1 : l1[i].hash <= minted
    /\ watcher.last <= minted
    /\ watcher.last # -1 => watcher.next > 0

\* The engine knows the ancestors of every block it knows.
Closed(known) == \A b \in known : \A n \in 0..Len(b) : SubSeq(b, 1, n) \in known

EngineOK(e) ==
    /\ e \in [known : SUBSET L2, head : L2, safe : L2, finalized : L2]
    /\ Genesis \in e.known /\ e.head \in e.known /\ e.finalized \in e.known
    /\ Closed(e.known)

EngineInv ==
    /\ EngineOK(engine)
    /\ {unsafe_head, safe_head, finalized_head} \subseteq engine.known

\* The heads, the engine's head and the attributes being handled fit together.
HeadsInv ==
    /\ HeadsOnOneChain
    /\ pc \in {"update", "derive", "unsafe", "finalize"} =>
         IsPrefix(safe_head, engine.head)
    /\ pc \notin {"build", "push", "fcu"} => attributes = {}
    /\ pc = "push" => unsafe_head = safe_head
    /\ \A a \in attributes :
         /\ pc \in {"build", "push"} => a.slot = Len(safe_head) + 1
         /\ pc = "fcu" => a.slot = Len(safe_head)

\* unfinalized_blocks is a chain between the finalized and the safe head, in the order
\* of the L1 blocks it was derived from.
EntriesInv ==
    \A j \in DOMAIN unfinalized_blocks :
        LET u == unfinalized_blocks[j]
        IN  /\ IsPrefix(finalized_head, u.head)
            /\ IsPrefix(u.head, safe_head)
            /\ pc = "fcu" => Len(u.head) < Len(safe_head)
            /\ \A i \in 1..j : /\ IsPrefix(unfinalized_blocks[i].head, u.head)
                               /\ unfinalized_blocks[i].inclusion <= u.inclusion

\* L2 block number slot is derived from L1 block n of chain w.
InBlock(w, slot, n) ==
    /\ n < Len(w)
    /\ slot <= Len(w[n + 1].derived)
    /\ slot > IF n = 0 THEN 0 ELSE Len(w[n].derived)

ReadIn(w, a) ==
    /\ InBlock(w, a.slot, a.inclusion)
    /\ a.content = w[a.inclusion + 1].derived[a.slot]

\* Updates on their way to the driver.
UpdateOK(u, w, b) ==
    /\ u.type = "NewBlock" => \A a \in u.attributes : ReadIn(w, a)
    /\ u.type = "FinalityUpdate" => u.number <= b

\* The chain w that the watcher has read goes up to block number b, which is final, or as
\* far as the watcher has read.
ViewOK(w, b) ==
    /\ b < Len(w) /\ Grows(w)
    /\ \A i \in 1..(b + 1) : w[i] = l1[i]
    /\ Len(w) <= b + 1 \/ (watcher.last # -1 /\ Len(w) <= watcher.next)
    /\ OnChain /\ ~watcher.reorged => IsPrefix(w, l1)

\* What was derived comes from w, what is taken to be final from its final part.
DerivedOK(w, b) ==
    /\ watcher.finalized <= b /\ finalized_l1_block_number <= b
    /\ \A i \in DOMAIN queue : UpdateOK(queue[i], w, b)
    /\ \A a \in pipeline \cup attributes : ReadIn(w, a)
    /\ \A i \in DOMAIN unfinalized_blocks :
         InBlock(w, Len(unfinalized_blocks[i].head), unfinalized_blocks[i].inclusion)
    /\ IsPrefix(safe_head, w[Len(w)].derived)
    /\ IsPrefix(finalized_head, w[b + 1].derived)

ViewInv == \E w \in Seq(L1) : \E b \in 0..l1_finalized : ViewOK(w, b) /\ DerivedOK(w, b)

\* What the engine holds as final.
FinalInv ==
    /\ IsPrefix(engine.finalized, l1[l1_finalized + 1].derived)
    /\ ~HeadQueryFails /\ pc # "down" => IsPrefix(engine.finalized, finalized_head)

IndInv ==
    /\ Types
    /\ L1Inv
    /\ EngineInv
    /\ HeadsInv
    /\ EntriesInv
    /\ ViewInv
    /\ FinalInv

-----------------------------------------------------------------------------
(* The operators *)

LEMMA GenesisFacts ==
    /\ Genesis \in L2 /\ Len(Genesis) = 0
    /\ \A s \in L2 : IsPrefix(Genesis, s) /\ IsPrefix(s, s)
  BY PrefixEmpty, PrefixReflexive, EmptySeq DEF Genesis, L2

\* A chain from 1 on, and its last block.
LEMMA L1Facts ==
    ASSUME NEW c \in Seq(L1), NEW i \in 1..Len(c)
    PROVE  /\ c[i] \in L1 /\ c[i].hash \in Nat /\ c[i].derived \in L2
           /\ DOMAIN c = 1..Len(c) /\ Len(c) \in Nat
  <1>1. c[i] \in L1 /\ DOMAIN c = 1..Len(c) /\ Len(c) \in Nat
    BY ElementOfSeq, LenProperties
  <1>2. QED
    BY <1>1 DEF L1

\* Blocks derived from a chain have the types of blocks and extend what was derived before.
LEMMA ChildrenFacts ==
    ASSUME NEW block \in L2, NEW c \in Seq(L1), NEW d \in Children(block, c)
    PROVE  d \in L2 /\ IsPrefix(block, d)
  <1> DEFINE e == EpochOf(block)
             same == [e EXCEPT !.seq = @ + 1]
             nums == {e.number + 1} \cap 0..(Len(c) - 1)
             next == {[number |-> n, hash |-> c[n + 1].hash, seq |-> 0] : n \in nums}
  <1>1. e \in Epoch
    <2>1. CASE block = Genesis
      BY <2>1 DEF EpochOf, Epoch
    <2>2. CASE block # Genesis
      <3>1. Last(block) \in Content
        BY <2>2, FrontIsParent DEF Genesis, L2
      <3>2. QED
        BY <2>2, <3>1 DEF EpochOf, Content
    <2>3. QED
      BY <2>1, <2>2
  <1>2. same \in Epoch
    <2> HIDE DEF e
    <2>1. QED
      BY <1>1 DEF Epoch
  <1>3. next \subseteq Epoch
    <2> SUFFICES ASSUME NEW n \in nums
                 PROVE  [number |-> n, hash |-> c[n + 1].hash, seq |-> 0] \in Epoch
      OBVIOUS
    <2>1. n \in 0..(Len(c) - 1)
      OBVIOUS
    <2>2. n + 1 \in 1..Len(c) /\ n \in Nat
      BY <2>1, LenProperties
    <2>3. c[n + 1].hash \in Nat
      BY <2>2, L1Facts
    <2>4. QED
      BY <2>2, <2>3 DEF Epoch
  <1>4. PICK x \in Contents(block, c) : d = Append(block, x)
    BY DEF Children
  <1>5. x \in [txs : Txs, epoch : {same} \cup next]
    BY <1>4 DEF Contents
  <1> HIDE DEF same, next
  <1>6. x \in Content
    BY <1>2, <1>3, <1>5 DEF Content
  <1>7. QED
    BY <1>4, <1>6, FrontOfAppend DEF L2

LEMMA DerivableFacts ==
    ASSUME NEW c \in Seq(L1), c # <<>>, NEW d \in Derivable(c)
    PROVE  d \in L2 /\ IsPrefix(c[Len(c)].derived, d)
  <1> DEFINE tip == Last(c).derived
  <1>1. Len(c) \in 1..Len(c)
    BY LenProperties, EmptySeq
  <1>2. tip \in L2 /\ tip = c[Len(c)].derived
    BY <1>1, L1Facts DEF Last
  <1> HIDE DEF tip
  <1>3. CASE d = tip
    BY <1>2, <1>3, GenesisFacts
  <1>4. CASE d \in Children(tip, c)
    BY <1>2, <1>4, ChildrenFacts
  <1>5. ASSUME NEW b \in Children(tip, c), d \in Children(b, c)
        PROVE  d \in L2 /\ IsPrefix(tip, d)
    <2>1. b \in L2 /\ IsPrefix(tip, b)
      BY <1>2, ChildrenFacts
    <2>2. d \in L2 /\ IsPrefix(b, d)
      BY <1>5, <2>1, ChildrenFacts
    <2>3. QED
      BY <1>2, <2>1, <2>2, PrefixTransitive DEF L2
  <1>6. QED
    BY <1>2, <1>3, <1>4, <1>5 DEF Derivable, tip

\* L1 grows by a block.
LEMMA ExtendFacts ==
    ASSUME NEW c \in Seq(L1), c # <<>>, Grows(c), NEW h \in Nat, NEW next \in Derivable(c)
    PROVE  LET d == Append(c, L1Block(h, next))
           IN  /\ d \in Seq(L1) /\ Len(d) = Len(c) + 1
               /\ \A i \in 1..Len(c) : d[i] = c[i]
               /\ d[Len(c) + 1].hash = h
               /\ Grows(d)
  <1> DEFINE new == L1Block(h, next)
             d == Append(c, new)
  <1>1. next \in L2 /\ IsPrefix(c[Len(c)].derived, next)
    BY DerivableFacts
  <1>2. new \in L1 /\ new.hash = h /\ new.derived = next
    BY <1>1 DEF L1Block, L1
  <1> HIDE DEF new
  <1>3. /\ d \in Seq(L1) /\ Len(d) = Len(c) + 1
        /\ \A i \in 1..Len(c) : d[i] = c[i]
        /\ d[Len(c) + 1] = new
        /\ DOMAIN d = 1..(Len(c) + 1)
    BY <1>2, AppendProperties, LenProperties
  <1> HIDE DEF d
  <1>4. Len(c) \in Nat /\ Len(c) \in 1..Len(c) /\ DOMAIN c = 1..Len(c)
    BY LenProperties, EmptySeq
  <1>5. \A i \in 1..Len(c) : c[i].derived \in L2 /\ IsPrefix(c[i].derived, c[Len(c)].derived)
    BY <1>4, L1Facts DEF Grows
  <1>6. \A i \in 1..Len(c) : IsPrefix(c[i].derived, next)
    BY <1>1, <1>4, <1>5, PrefixTransitive DEF L2
  <1>7. IsPrefix(next, next)
    BY <1>1, GenesisFacts
  <1>8. Grows(d)
    <2> SUFFICES ASSUME NEW j \in 1..(Len(c) + 1), NEW i \in 1..j
                 PROVE  IsPrefix(d[i].derived, d[j].derived)
      BY <1>3 DEF Grows
    <2>1. CASE j \in 1..Len(c)
      <3>1. i \in 1..Len(c)
        BY <1>4, <2>1
      <3>2. QED
        BY <1>3, <1>4, <2>1, <3>1 DEF Grows
    <2>2. CASE j = Len(c) + 1
      <3>1. i \in 1..Len(c) \/ i = Len(c) + 1
        BY <1>4, <2>2
      <3>2. QED
        BY <1>2, <1>3, <1>6, <1>7, <2>2, <3>1
    <2>3. QED
      BY <1>4, <2>1, <2>2
  <1>9. QED
    BY <1>2, <1>3, <1>8 DEF d, new

\* What holds of a chain holds of the same chain read further.
LEMMA ReadFurther ==
    ASSUME NEW w \in Seq(L1), w # <<>>, NEW v \in Seq(L1), IsPrefix(w, v), Grows(v)
    PROVE  /\ \A slot \in Nat, n \in Nat : InBlock(w, slot, n) => InBlock(v, slot, n)
           /\ \A a \in Attributes : ReadIn(w, a) => ReadIn(v, a)
           /\ IsPrefix(w[Len(w)].derived, v[Len(v)].derived)
  <1>1. /\ Len(w) \in Nat /\ Len(v) \in Nat /\ Len(w) <= Len(v) /\ Len(w) > 0
        /\ \A i \in 1..Len(w) : w[i] = v[i]
    BY PrefixEntries, LenProperties, EmptySeq
  <1>2. \A slot \in Nat, n \in Nat : InBlock(w, slot, n) => InBlock(v, slot, n)
    <2> SUFFICES ASSUME NEW slot \in Nat, NEW n \in Nat, InBlock(w, slot, n)
                 PROVE  InBlock(v, slot, n)
      OBVIOUS
    <2>1. n < Len(w) /\ n < Len(v) /\ n + 1 \in 1..Len(w) /\ (n # 0 => n \in 1..Len(w))
      BY <1>1 DEF InBlock
    <2>2. w[n + 1] = v[n + 1] /\ (n # 0 => w[n] = v[n])
      BY <1>1, <2>1
    <2>3. QED
      BY <2>1, <2>2 DEF InBlock
  <1>3. \A a \in Attributes : ReadIn(w, a) => ReadIn(v, a)
    <2> SUFFICES ASSUME NEW a \in Attributes, ReadIn(w, a)
                 PROVE  ReadIn(v, a)
      OBVIOUS
    <2>1. a.slot \in Nat /\ a.inclusion \in Nat
      BY DEF Attributes
    <2>2. InBlock(w, a.slot, a.inclusion) /\ InBlock(v, a.slot, a.inclusion)
      BY <1>2, <2>1 DEF ReadIn
    <2>3. a.inclusion + 1 \in 1..Len(w)
      BY <1>1, <2>1, <2>2 DEF InBlock
    <2>4. w[a.inclusion + 1] = v[a.inclusion + 1]
      BY <1>1, <2>3
    <2>5. QED
      BY <2>2, <2>4 DEF ReadIn
  <1>4. Len(v) \in DOMAIN v /\ Len(w) \in 1..Len(v) /\ w[Len(w)] = v[Len(w)]
    BY <1>1, LenProperties
  <1>5. IsPrefix(w[Len(w)].derived, v[Len(v)].derived)
    BY <1>4 DEF Grows
  <1>6. QED
    BY <1>2, <1>3, <1>5

\* A block that goes on where s ends, on a chain that s is on.
LEMMA DerivesNext ==
    ASSUME NEW w \in Seq(L1), w # <<>>, Grows(w), NEW s \in L2,
           IsPrefix(s, w[Len(w)].derived),
           NEW a \in Attributes, ReadIn(w, a), a.slot = Len(s) + 1
    PROVE  IsPrefix(Append(s, a.content), w[Len(w)].derived)
  <1> DEFINE d == w[Len(w)].derived
             n == a.inclusion + 1
             e == w[n].derived
  <1>1. Len(w) \in Nat /\ Len(w) > 0 /\ DOMAIN w = 1..Len(w)
    BY LenProperties, EmptySeq
  <1>2. a.slot \in Nat /\ a.inclusion \in Nat
    BY DEF Attributes
  <1>3. n \in 1..Len(w) /\ a.slot <= Len(e) /\ a.content = e[a.slot]
    BY <1>1, <1>2 DEF ReadIn, InBlock
  <1>4. d \in L2 /\ e \in L2
    BY <1>1, <1>3, L1Facts
  <1>5. IsPrefix(e, d)
    BY <1>1, <1>3 DEF Grows
  <1> HIDE DEF d, e
  <1>6. Len(e) <= Len(d) /\ \A i \in 1..Len(e) : e[i] = d[i]
    BY <1>4, <1>5, PrefixEntries DEF L2
  <1>7. Len(s) \in Nat /\ Len(e) \in Nat /\ Len(d) \in Nat
    BY <1>4, LenProperties DEF L2
  <1>8. a.slot \in 1..Len(e) /\ Len(s) < Len(d)
    BY <1>2, <1>3, <1>6, <1>7
  <1>9. a.content = d[Len(s) + 1]
    BY <1>3, <1>6, <1>8
  <1>10. IsPrefix(s, d)
    BY DEF d
  <1>11. QED
    BY <1>4, <1>8, <1>9, <1>10, PrefixExtend DEF L2, d

\* What forkchoiceUpdated does to the engine.
LEMMA ForkchoiceFacts ==
    ASSUME NEW e, EngineOK(e), NEW head \in L2, safe_head \in L2,
           finalized_head \in e.known
    PROVE  LET f == ForkchoiceUpdated(e, head)
           IN  /\ EngineOK(f.engine)
               /\ f.engine.known = e.known
               /\ head \in e.known => f.engine.head = head
               /\ f.engine.finalized \in {e.finalized, finalized_head}
               /\ f.valid => /\ f.engine.head = head
                             /\ IsPrefix(safe_head, head) /\ IsPrefix(finalized_head, head)
  <1>1. finalized_head \in L2 /\ e.known \subseteq L2
    BY DEF EngineOK
  <1>2. CASE head \notin e.known
    BY <1>2 DEF ForkchoiceUpdated
  <1>3. CASE head \in e.known /\ IsPrefix(safe_head, head) /\ IsPrefix(finalized_head, head)
    BY <1>1, <1>3 DEF ForkchoiceUpdated, EngineOK
  <1>4. CASE head \in e.known /\ ~(IsPrefix(safe_head, head) /\ IsPrefix(finalized_head, head))
    BY <1>1, <1>4 DEF ForkchoiceUpdated, EngineOK
  <1>5. QED
    BY <1>2, <1>3, <1>4

\* The engine executes a block on top of one it knows.
LEMMA NewPayloadFacts ==
    ASSUME EngineOK(engine), NEW p \in L2, p # Genesis, Front(p) \in engine.known
    PROVE  /\ EngineOK(NewPayload(p))
           /\ NewPayload(p).known = engine.known \cup {p}
           /\ NewPayload(p).head = engine.head
           /\ NewPayload(p).finalized = engine.finalized
  <1> DEFINE k == engine.known \cup {p}
  <1>1. /\ Front(p) \in L2 /\ Len(Front(p)) = Len(p) - 1 /\ Len(p) \in Nat \ {0}
        /\ IsPrefix(Front(p), p)
    BY FrontIsParent DEF L2, Genesis
  <1>2. Closed(k)
    <2> SUFFICES ASSUME NEW b \in k, NEW n \in 0..Len(b)
                 PROVE  SubSeq(b, 1, n) \in k
      BY DEF Closed
    <2>1. CASE b \in engine.known
      BY <2>1 DEF EngineOK, Closed
    <2>2. CASE b = p /\ n = Len(p)
      <3>1. SubSeq(p, 1, Len(p)) = p
        BY PrefixReflexive, PrefixIsSubSeq DEF L2
      <3>2. QED
        BY <2>2, <3>1
    <2>3. CASE b = p /\ n # Len(p)
      <3> DEFINE q == SubSeq(p, 1, n)
                 f == Front(p)
      <3>1. n \in 0..Len(p) /\ n \in 0..Len(f)
        BY <1>1, <2>3
      <3>2. q \in L2 /\ Len(q) = n /\ IsPrefix(q, p)
        BY <3>1, PrefixSubSeq DEF L2
      <3>3. f \in L2 /\ IsPrefix(f, p) /\ f \in engine.known
        BY <1>1
      <3> HIDE DEF q, f
      <3>4. Len(q) <= Len(f)
        BY <3>1, <3>2
      <3>5. IsPrefix(q, f)
        BY <3>2, <3>3, <3>4, PrefixComparable DEF L2
      <3>6. q = SubSeq(f, 1, n)
        BY <3>2, <3>3, <3>5, PrefixIsSubSeq DEF L2
      <3>7. q \in engine.known
        BY <3>1, <3>3, <3>6 DEF EngineOK, Closed
      <3>8. QED
        BY <2>3, <3>7 DEF q
    <2>4. QED
      BY <2>1, <2>2, <2>3
  <1>3. /\ NewPayload(p) = [engine EXCEPT !.known = k]
    BY DEF NewPayload
  <1> HIDE DEF k
  <1>4. k \in SUBSET L2 /\ engine.known \subseteq k
    BY DEF EngineOK, k
  <1>5. QED
    BY <1>2, <1>3, <1>4 DEF EngineOK, k

-----------------------------------------------------------------------------
(* Steps of L1 *)

\* L1 is replaced from block n on, or grows: the blocks below n stay, and the watcher is
\* still on L1 only if it has read nothing else.
LEMMA L1ChangeInv ==
    ASSUME IndInv, NEW n \in (l1_finalized + 1)..Len(l1),
           NEW next \in Derivable(SubSeq(l1, 1, n)),
           l1' = Append(SubSeq(l1, 1, n), L1Block(minted + 1, next)),
           minted' = minted + 1,
           UNCHANGED <<l1_finalized, watcher_vars, engine, pc, heads, lists, derivation>>
    PROVE  IndInv'
  <1> USE DEF IndInv
  <1> DEFINE c == SubSeq(l1, 1, n)
  <1>1. /\ UNCHANGED <<l1_finalized, watcher, queue, engine, pc, unsafe_head, safe_head,
                       finalized_head, unfinalized_blocks, finalized_l1_block_number,
                       future_unsafe_blocks, networking, pipeline, attributes>>
    BY DEF watcher_vars, heads, lists, derivation
  <1>2. /\ l1 \in Seq(L1) /\ Len(l1) \in Nat /\ DOMAIN l1 = 1..Len(l1)
        /\ l1_finalized \in Nat /\ minted \in Nat /\ l1_finalized < Len(l1)
    BY LenProperties DEF Types
  <1>3. n \in 0..Len(l1) /\ n \in Nat /\ n > l1_finalized
    BY <1>2
  <1>4. /\ c \in Seq(L1) /\ Len(c) = n /\ c # <<>> /\ IsPrefix(c, l1)
        /\ \A i \in 1..n : c[i] = l1[i]
        /\ DOMAIN c = 1..n
    <2>1. /\ c \in Seq(L1) /\ Len(c) = n /\ IsPrefix(c, l1)
          /\ \A i \in 1..n : c[i] = l1[i]
      BY <1>2, <1>3, PrefixSubSeq
    <2> HIDE DEF c
    <2>2. c # <<>> /\ DOMAIN c = 1..n
      BY <1>2, <1>3, <2>1, LenProperties, EmptySeq
    <2>3. QED
      BY <2>1, <2>2
  <1>5. Grows(c)
    <2> SUFFICES ASSUME NEW j \in 1..n, NEW i \in 1..j
                 PROVE  IsPrefix(c[i].derived, c[j].derived)
      BY <1>4 DEF Grows
    <2>1. i \in 1..n /\ j \in DOMAIN l1
      BY <1>2, <1>3
    <2>2. QED
      BY <1>4, <2>1 DEF L1Inv, Grows
  <1> HIDE DEF c
  <1>6. l1' = Append(c, L1Block(minted + 1, next)) /\ next \in Derivable(c)
        /\ minted + 1 \in Nat
    BY <1>2 DEF c
  <1>7. /\ l1' \in Seq(L1) /\ Len(l1') = n + 1
        /\ \A i \in 1..n : l1'[i] = l1[i]
        /\ l1'[n + 1].hash = minted + 1
        /\ Grows(l1')
    <2> DEFINE h == minted + 1
               d == Append(c, L1Block(h, next))
    <2>1. h \in Nat /\ d = l1' /\ next \in Derivable(c)
      BY <1>6
    <2> HIDE DEF h
    <2>2. /\ d \in Seq(L1) /\ Len(d) = Len(c) + 1
          /\ \A i \in 1..Len(c) : d[i] = c[i]
          /\ d[Len(c) + 1].hash = h
          /\ Grows(d)
      BY <1>4, <1>5, <2>1, ExtendFacts
    <2>3. QED
      BY <1>4, <2>1, <2>2 DEF h
  <1>8. DOMAIN l1' = 1..(n + 1)
    BY <1>7, LenProperties
  <1>9. Types'
    BY <1>1, <1>2, <1>3, <1>6, <1>7 DEF Types
  <1>10. L1Inv'
    <2>1. \A i \in DOMAIN l1' : l1'[i].hash <= minted'
      <3> SUFFICES ASSUME NEW i \in 1..(n + 1) PROVE l1'[i].hash <= minted + 1
        BY <1>8
      <3>1. CASE i = n + 1
        BY <1>2, <1>7, <3>1
      <3>2. CASE i \in 1..n
        <4>1. i \in DOMAIN l1 /\ l1'[i] = l1[i]
          BY <1>2, <1>3, <1>7, <3>2
        <4>2. l1[i].hash <= minted /\ l1[i].hash \in Nat
          BY <1>2, <4>1, L1Facts DEF L1Inv
        <4>3. l1[i].hash <= minted + 1
          BY <1>2, <4>2
        <4>4. QED
          BY <4>1, <4>3
      <3>3. QED
        BY <1>3, <3>1, <3>2
    <2>2. watcher.last \in Int /\ watcher.last <= minted
      BY DEF Types, L1Inv
    <2>3. watcher'.last <= minted'
      BY <1>1, <1>2, <2>2
    <2>4. QED
      BY <1>1, <1>7, <2>1, <2>3 DEF L1Inv
  <1>11. EngineInv' /\ HeadsInv' /\ EntriesInv'
    BY <1>1 DEF EngineInv, HeadsInv, HeadsOnOneChain, EntriesInv
  <1>12. l1'[l1_finalized' + 1] = l1[l1_finalized + 1]
    <2>1. l1_finalized + 1 \in 1..n
      BY <1>2, <1>3
    <2>2. QED
      BY <1>1, <1>7, <2>1
  <1>13. FinalInv'
    BY <1>1, <1>12 DEF FinalInv
  <1>14. ViewInv'
    <2>1. PICK w \in Seq(L1), b \in 0..l1_finalized : ViewOK(w, b) /\ DerivedOK(w, b)
      BY DEF ViewInv
    <2>2. DerivedOK(w, b)'
      BY <1>1, <2>1 DEF DerivedOK, UpdateOK
    <2>3. b \in Nat /\ \A i \in 1..(b + 1) : i \in 1..n
      BY <1>2, <1>3
    <2>4. \A i \in 1..(b + 1) : w[i] = l1'[i]
      BY <1>7, <2>1, <2>3 DEF ViewOK
    <2>5. ASSUME OnChain', ~watcher'.reorged
          PROVE  IsPrefix(w, l1')
      <3>1. /\ watcher.next \in Nat /\ watcher.last \in Nat \cup {-1}
            /\ watcher.last <= minted
        BY DEF Types, L1Inv
      <3>2. watcher.last # -1 => watcher.next <= n + 1 /\ l1'[watcher.next].hash = watcher.last
        BY <1>1, <1>7, <2>5 DEF OnChain
      <3>3. watcher.last # -1 => watcher.next # n + 1
        BY <1>2, <1>7, <3>1, <3>2
      <3>4. Len(w) \in Nat /\ Len(w) <= n
        <4>1. Len(w) \in Nat /\ b + 1 <= n /\ b \in Nat
          BY <1>2, <1>3, LenProperties
        <4>2. watcher.last # -1 => watcher.next <= n
          BY <1>3, <3>1, <3>2, <3>3
        <4>3. Len(w) <= b + 1 \/ (watcher.last # -1 /\ Len(w) <= watcher.next)
          BY <2>1 DEF ViewOK
        <4>4. QED
          BY <1>3, <3>1, <4>1, <4>2, <4>3
      <3>5. OnChain
        <4> SUFFICES ASSUME watcher.last # -1
                     PROVE  watcher.next <= Len(l1) /\ l1[watcher.next].hash = watcher.last
          BY DEF OnChain
        <4>1. watcher.next <= n
          BY <1>3, <3>1, <3>2, <3>3
        <4>2. watcher.next \in 1..n
          BY <1>3, <3>1, <4>1 DEF L1Inv
        <4>3. QED
          BY <1>2, <1>3, <1>7, <3>2, <4>1, <4>2
      <3>6. IsPrefix(w, l1)
        BY <1>1, <2>1, <2>5, <3>5 DEF ViewOK
      <3>7. \A i \in 1..Len(w) : w[i] = l1[i]
        BY <1>2, <3>6, PrefixEntries
      <3>8. \A i \in 1..Len(w) : w[i] = l1'[i]
        BY <1>3, <1>7, <3>4, <3>7
      <3>9. Len(w) <= Len(l1')
        BY <1>3, <1>7, <3>4
      <3>10. QED
        BY <1>7, <3>8, <3>9, PrefixEntries
    <2>6. ViewOK(w, b)'
      BY <1>1, <2>1, <2>4, <2>5 DEF ViewOK
    <2>7. QED
      BY <1>1, <2>2, <2>6 DEF ViewInv
  <1>15. QED
    BY <1>9, <1>10, <1>11, <1>13, <1>14

\* Steps of L1.
LEMMA L1StepInv == IndInv /\ L1Step => IndInv'
  <1> SUFFICES ASSUME IndInv, L1Step PROVE IndInv'
    OBVIOUS
  <1>1. l1 \in Seq(L1) /\ Len(l1) \in Nat /\ l1_finalized \in 0..(Len(l1) - 1)
    BY LenProperties DEF IndInv, Types
  <1>2. CASE Mine
    <2>1. SubSeq(l1, 1, Len(l1)) = l1 /\ Len(l1) \in (l1_finalized + 1)..Len(l1)
      BY <1>1, PrefixReflexive, PrefixIsSubSeq
    <2>2. PICK next \in Derivable(l1) : l1' = Append(l1, L1Block(minted + 1, next))
      BY <1>2 DEF Mine, Extend
    <2>3. /\ minted' = minted + 1
          /\ UNCHANGED <<l1_finalized, watcher_vars, engine, pc, heads, lists, derivation>>
      BY <1>2 DEF Mine
    <2>4. QED
      BY <2>1, <2>2, <2>3, L1ChangeInv
  <1>3. ASSUME NEW n \in (l1_finalized + 1)..(Len(l1) - 1), ReplaceFrom(n)
        PROVE  IndInv'
    <2>1. n \in (l1_finalized + 1)..Len(l1)
      BY <1>1
    <2>2. PICK next \in Derivable(SubSeq(l1, 1, n)) :
            l1' = Append(SubSeq(l1, 1, n), L1Block(minted + 1, next))
      BY <1>3 DEF ReplaceFrom, Extend
    <2>3. /\ minted' = minted + 1
          /\ UNCHANGED <<l1_finalized, watcher_vars, engine, pc, heads, lists, derivation>>
      BY <1>3 DEF ReplaceFrom
    <2>4. QED
      BY <2>1, <2>2, <2>3, L1ChangeInv
  <1>4. ASSUME NEW n \in (l1_finalized + 1)..(Len(l1) - 1), Finalize(n)
        PROVE  IndInv'
    <2> USE DEF IndInv
    <2>1. /\ l1_finalized' = n
          /\ UNCHANGED <<l1, minted, watcher, queue, engine, pc, unsafe_head, safe_head,
                         finalized_head, unfinalized_blocks, finalized_l1_block_number,
                         future_unsafe_blocks, pipeline, attributes>>
      BY <1>4 DEF Finalize, watcher_vars, heads, lists, derivation
    <2>2. Types' /\ L1Inv' /\ EngineInv' /\ HeadsInv' /\ EntriesInv'
      <3>1. Types'
        BY <1>1, <2>1 DEF Types
      <3>2. QED
        BY <2>1, <3>1 DEF L1Inv, EngineInv, HeadsInv, HeadsOnOneChain, EntriesInv
    <2>3. ViewInv'
      <3>1. PICK w \in Seq(L1), b \in 0..l1_finalized : ViewOK(w, b) /\ DerivedOK(w, b)
        BY DEF ViewInv
      <3>2. ViewOK(w, b)' /\ DerivedOK(w, b)'
        BY <2>1, <3>1 DEF ViewOK, DerivedOK, OnChain, UpdateOK
      <3>3. b \in 0..l1_finalized'
        BY <1>1, <2>1
      <3>4. QED
        BY <3>2, <3>3 DEF ViewInv
    <2>4. FinalInv'
      <3> DEFINE d == l1[l1_finalized + 1].derived
                 e == l1[n + 1].derived
                 f == engine.finalized
      <3>1. l1_finalized + 1 \in 1..(n + 1) /\ n + 1 \in 1..Len(l1)
            /\ l1_finalized + 1 \in 1..Len(l1)
        BY <1>1
      <3>2. d \in L2 /\ e \in L2 /\ f \in L2
        BY <1>1, <3>1, L1Facts DEF EngineInv, EngineOK
      <3>3. IsPrefix(f, d) /\ IsPrefix(d, e)
        BY <1>1, <3>1, L1Facts DEF FinalInv, L1Inv, Grows
      <3> HIDE DEF d, e, f
      <3>4. IsPrefix(f, e)
        BY <3>2, <3>3, PrefixTransitive DEF L2
      <3>5. QED
        BY <2>1, <3>4 DEF FinalInv, e, f
    <2>5. QED
      BY <2>2, <2>3, <2>4
  <1>5. QED
    BY <1>2, <1>3, <1>4 DEF L1Step

-----------------------------------------------------------------------------
(* Start and end of the process *)

\* The final part of L1.
LEMMA FinalView ==
    ASSUME Types, L1Inv
    PROVE  LET w == SubSeq(l1, 1, l1_finalized + 1)
           IN  /\ w \in Seq(L1) /\ Len(w) = l1_finalized + 1 /\ Grows(w)
               /\ IsPrefix(w, l1)
               /\ \A i \in 1..(l1_finalized + 1) : w[i] = l1[i]
               /\ l1_finalized \in Nat /\ l1_finalized + 1 \in 1..Len(l1)
  <1> DEFINE n == l1_finalized + 1
             w == SubSeq(l1, 1, n)
  <1>1. l1 \in Seq(L1) /\ Len(l1) \in Nat /\ l1_finalized \in Nat
        /\ n \in 0..Len(l1) /\ n \in 1..Len(l1) /\ DOMAIN l1 = 1..Len(l1)
    BY LenProperties DEF Types
  <1> HIDE DEF n
  <1>2. w \in Seq(L1) /\ Len(w) = n /\ IsPrefix(w, l1) /\ \A i \in 1..n : w[i] = l1[i]
    BY <1>1, PrefixSubSeq
  <1> HIDE DEF w
  <1>3. DOMAIN w = 1..n
    BY <1>2, LenProperties
  <1>4. Grows(w)
    <2> SUFFICES ASSUME NEW j \in 1..n, NEW i \in 1..j
                 PROVE  IsPrefix(w[i].derived, w[j].derived)
      BY <1>3 DEF Grows
    <2>1. i \in 1..n /\ j \in DOMAIN l1
      BY <1>1
    <2>2. QED
      BY <1>2, <2>1 DEF L1Inv, Grows
  <1>5. QED
    BY <1>1, <1>2, <1>4 DEF n, w

\* A watcher that has read nothing.
LEMMA StartFacts ==
    ASSUME NEW head \in L2
    PROVE  LET r == StartWatcher(L1StartBlock(EpochOf(head).number))
           IN  /\ r \in [next : Nat, last : Nat \cup {-1}, finalized : Nat, reorged : BOOLEAN]
               /\ r.last = -1 /\ r.finalized = 0
  <1> DEFINE n == EpochOf(head).number
             start == L1StartBlock(n)
  <1>1. n \in Nat
    <2>1. CASE head = Genesis
      BY <2>1 DEF EpochOf
    <2>2. CASE head # Genesis
      <3>1. Last(head) \in Content
        BY <2>2, FrontIsParent DEF Genesis, L2
      <3>2. QED
        BY <2>2, <3>1 DEF EpochOf, Content, Epoch
    <2>3. QED
      BY <2>1, <2>2
  <1> HIDE DEF n
  <1>2. start \in Nat
    BY <1>1, DriverAssumption DEF L1StartBlock
  <1> HIDE DEF start
  <1>3. StartWatcher(start) = [next |-> start, last |-> -1, finalized |-> 0, reorged |-> FALSE]
    BY DEF StartWatcher
  <1>4. QED
    BY <1>2, <1>3 DEF start, n

\* The process begins again, or ends, on a block that final L1 determines.
LEMMA FreshInv ==
    ASSUME Types, L1Inv, UNCHANGED l1_vars, NEW head, Fresh(head), pc' \in {"down", "start"},
           EngineOK(engine'), head \in engine'.known,
           IsPrefix(head, l1[l1_finalized + 1].derived),
           IsPrefix(engine'.finalized, l1[l1_finalized + 1].derived),
           ~HeadQueryFails /\ pc' # "down" => IsPrefix(engine'.finalized, head)
    PROVE  IndInv'
  <1>1. UNCHANGED <<l1, l1_finalized, minted>>
    BY DEF l1_vars
  <1>2. /\ unsafe_head' = head /\ safe_head' = head /\ finalized_head' = head
        /\ unfinalized_blocks' = <<>> /\ finalized_l1_block_number' = 0
        /\ future_unsafe_blocks' = <<>> /\ pipeline' = {} /\ attributes' = {}
        /\ queue' = <<>>
        /\ watcher' = StartWatcher(L1StartBlock(EpochOf(head).number))
    BY DEF Fresh
  <1>3. head \in L2
    BY DEF EngineOK
  <1>4. /\ watcher' \in [next : Nat, last : Nat \cup {-1}, finalized : Nat, reorged : BOOLEAN]
        /\ watcher'.last = -1 /\ watcher'.finalized = 0
    BY <1>2, <1>3, StartFacts
  <1>5. Types'
    BY <1>1, <1>2, <1>3, <1>4, EmptySeq DEF Types
  <1>6. L1Inv'
    BY <1>1, <1>4 DEF L1Inv, Types
  <1>7. EngineInv'
    BY <1>2 DEF EngineInv
  <1>8. IsPrefix(head, head)
    BY <1>3, GenesisFacts
  <1>9. HeadsInv' /\ EntriesInv'
    BY <1>2, <1>8 DEF HeadsInv, HeadsOnOneChain, EntriesInv
  <1>10. FinalInv'
    BY <1>1, <1>2 DEF FinalInv
  <1>11. ViewInv'
    <2> DEFINE w == SubSeq(l1, 1, l1_finalized + 1)
    <2>1. /\ w \in Seq(L1) /\ Len(w) = l1_finalized + 1 /\ Grows(w) /\ IsPrefix(w, l1)
          /\ \A i \in 1..(l1_finalized + 1) : w[i] = l1[i]
          /\ l1_finalized \in Nat /\ l1_finalized + 1 \in 1..Len(l1)
      BY FinalView
    <2> HIDE DEF w
    <2>2. ASSUME NEW v, v = w PROVE ViewOK(v, l1_finalized)'
      BY <1>1, <2>1, <2>2 DEF ViewOK
    <2>3. ASSUME NEW v, v = w PROVE DerivedOK(v, l1_finalized)'
      <3>1. w[Len(w)].derived = l1[l1_finalized + 1].derived
            /\ w[l1_finalized + 1].derived = l1[l1_finalized + 1].derived
        BY <2>1
      <3>2. QED
        BY <1>1, <1>2, <1>4, <2>1, <2>3, <3>1 DEF DerivedOK
    <2>4. \E v \in Seq(L1) : v = w
      BY <2>1
    <2>5. PICK v \in Seq(L1) : v = w
      BY <2>4
    <2>6. l1_finalized' \in 0..l1_finalized' /\ l1_finalized' = l1_finalized
      BY <1>1, <2>1
    <2>7. ViewOK(v, l1_finalized)' /\ DerivedOK(v, l1_finalized)'
      BY <2>2, <2>3, <2>5
    <2>8. QED
      BY <2>6, <2>7 DEF ViewInv
  <1>12. QED
    BY <1>5, <1>6, <1>7, <1>9, <1>10, <1>11 DEF IndInv

LEMMA InitInv == Init => IndInv
  <1> SUFFICES ASSUME Init PROVE IndInv
    OBVIOUS
  <1>1. /\ InitL1 \in Seq(L1) /\ Len(InitL1) \in Nat /\ Len(InitL1) > 0
        /\ DOMAIN InitL1 = 1..Len(InitL1)
    BY DriverAssumption, LenProperties, EmptySeq DEF L1, L2
  <1>2. /\ l1 = InitL1 /\ l1_finalized = 0 /\ minted = Len(InitL1) - 1
        /\ watcher = [next |-> 0, last |-> -1, finalized |-> 0, reorged |-> FALSE]
        /\ engine = [known |-> {Genesis}, head |-> Genesis, safe |-> Genesis,
                     finalized |-> Genesis]
        /\ pc = "down" /\ queue = <<>> /\ unfinalized_blocks = <<>>
        /\ unsafe_head = Genesis /\ safe_head = Genesis /\ finalized_head = Genesis
        /\ finalized_l1_block_number = 0 /\ future_unsafe_blocks = <<>>
        /\ pipeline = {} /\ attributes = {}
    BY DEF Init, StartWatcher
  <1>3. Types
    BY <1>1, <1>2, GenesisFacts, EmptySeq DEF Types
  <1>4. L1Inv
    <2>1. Grows(l1)
      BY <1>1, <1>2, DriverAssumption DEF Grows
    <2>2. \A i \in DOMAIN l1 : l1[i].hash = i - 1
      BY <1>2, DriverAssumption
    <2>3. \A i \in DOMAIN l1 : l1[i].hash <= minted
      BY <1>1, <1>2, <2>2
    <2>4. watcher.last <= minted
      BY <1>1, <1>2
    <2>5. QED
      BY <1>2, <2>1, <2>3, <2>4 DEF L1Inv
  <1>5. EngineInv
    <2>1. Closed({Genesis})
      <3> SUFFICES ASSUME NEW n \in 0..Len(Genesis) PROVE SubSeq(Genesis, 1, n) = Genesis
        BY DEF Closed
      <3>1. n = 0 /\ n = Len(Genesis)
        BY GenesisFacts
      <3>2. Genesis = SubSeq(Genesis, 1, Len(Genesis))
        BY GenesisFacts, PrefixIsSubSeq DEF L2
      <3>3. QED
        BY <3>1, <3>2
    <2>2. QED
      BY <1>2, <2>1, GenesisFacts DEF EngineInv, EngineOK
  <1>6. IsPrefix(Genesis, Genesis)
    BY GenesisFacts
  <1>7. HeadsInv /\ EntriesInv
    BY <1>2, <1>6 DEF HeadsInv, HeadsOnOneChain, EntriesInv
  <1>8. /\ l1[l1_finalized + 1].derived \in L2
        /\ IsPrefix(Genesis, l1[l1_finalized + 1].derived)
    BY <1>1, <1>2, L1Facts, GenesisFacts
  <1>9. FinalInv
    BY <1>2, <1>8 DEF FinalInv
  <1>10. ViewInv
    <2> DEFINE w == SubSeq(l1, 1, l1_finalized + 1)
    <2>1. /\ w \in Seq(L1) /\ Len(w) = l1_finalized + 1 /\ Grows(w) /\ IsPrefix(w, l1)
          /\ \A i \in 1..(l1_finalized + 1) : w[i] = l1[i]
      BY <1>3, <1>4, FinalView
    <2> HIDE DEF w
    <2>2. ViewOK(w, 0)
      BY <1>2, <2>1 DEF ViewOK
    <2>3. DerivedOK(w, 0)
      BY <1>2, <1>8, <2>1 DEF DerivedOK
    <2>4. QED
      BY <1>2, <2>1, <2>2, <2>3 DEF ViewInv
  <1>11. QED
    BY <1>3, <1>4, <1>5, <1>7, <1>9, <1>10 DEF IndInv

\* What the driver takes to be final is what final L1 determines.
LEMMA FinalizedDerived ==
    ASSUME IndInv
    PROVE  IsPrefix(finalized_head, l1[l1_finalized + 1].derived)
  <1>1. PICK w \in Seq(L1), b \in 0..l1_finalized : ViewOK(w, b) /\ DerivedOK(w, b)
    BY DEF IndInv, ViewInv
  <1>2. l1 \in Seq(L1) /\ l1_finalized \in 0..(Len(l1) - 1) /\ Len(l1) \in Nat
        /\ DOMAIN l1 = 1..Len(l1) /\ finalized_head \in L2
    BY LenProperties DEF IndInv, Types
  <1>3. b + 1 \in 1..(l1_finalized + 1) /\ l1_finalized + 1 \in 1..Len(l1)
        /\ b + 1 \in 1..Len(l1) /\ b + 1 \in 1..(b + 1)
    BY <1>2
  <1> DEFINE d == l1[b + 1].derived
             e == l1[l1_finalized + 1].derived
  <1>4. d \in L2 /\ e \in L2 /\ IsPrefix(d, e)
    BY <1>2, <1>3, L1Facts DEF IndInv, L1Inv, Grows
  <1>5. IsPrefix(finalized_head, d)
    BY <1>1, <1>3 DEF ViewOK, DerivedOK
  <1> HIDE DEF d, e
  <1>6. IsPrefix(finalized_head, e)
    BY <1>2, <1>4, <1>5, PrefixTransitive DEF L2
  <1>7. QED
    BY <1>6 DEF e

\* The process ends; the engine is as it was, or a call had an effect on it.
LEMMA ExitInv ==
    ASSUME IndInv, UNCHANGED l1_vars, Exit, EngineOK(engine'),
           engine'.finalized \in {engine.finalized, finalized_head}
    PROVE  IndInv'
  <1>1. pc' = "down" /\ Fresh(Genesis)
    BY DEF Exit
  <1>2. Types /\ L1Inv /\ IsPrefix(engine.finalized, l1[l1_finalized + 1].derived)
    BY DEF IndInv, FinalInv
  <1>3. IsPrefix(engine'.finalized, l1[l1_finalized + 1].derived)
    BY <1>2, FinalizedDerived
  <1>4. Genesis \in engine'.known
    BY DEF EngineOK
  <1>5. IsPrefix(Genesis, l1[l1_finalized + 1].derived)
    <2>1. l1 \in Seq(L1) /\ l1_finalized + 1 \in 1..Len(l1)
      BY <1>2, FinalView DEF Types
    <2>2. QED
      BY <2>1, L1Facts, GenesisFacts
  <1>6. QED
    BY <1>1, <1>2, <1>3, <1>4, <1>5, FreshInv

LEMMA StartInv == IndInv /\ (FromConfig \/ Crash) => IndInv'
  <1> SUFFICES ASSUME IndInv, FromConfig \/ Crash PROVE IndInv'
    OBVIOUS
  <1>1. CASE FromConfig
    <2>1. PICK head \in {engine.finalized, Genesis} : GetHeadInfo(head) /\ Fresh(head)
      BY <1>1 DEF FromConfig
    <2>2. UNCHANGED l1_vars /\ engine' = engine /\ pc' = "start"
      BY <1>1 DEF FromConfig
    <2>3. Types /\ L1Inv /\ EngineOK(engine)
          /\ IsPrefix(engine.finalized, l1[l1_finalized + 1].derived)
      BY DEF IndInv, FinalInv, EngineInv
    <2>4. head \in engine.known /\ engine.finalized \in L2
      BY <2>3 DEF EngineOK
    <2>5. IsPrefix(head, l1[l1_finalized + 1].derived)
      <3>1. l1 \in Seq(L1) /\ l1_finalized + 1 \in 1..Len(l1)
        BY <2>3, FinalView DEF Types
      <3>2. IsPrefix(Genesis, l1[l1_finalized + 1].derived)
        BY <3>1, L1Facts, GenesisFacts
      <3>3. QED
        BY <2>1, <2>3, <3>2
    <2>6. ~HeadQueryFails => IsPrefix(engine.finalized, head)
      BY <2>1, <2>4, GenesisFacts DEF GetHeadInfo
    <2>7. QED
      BY <2>1, <2>2, <2>3, <2>4, <2>5, <2>6, FreshInv
  <1>2. CASE Crash
    <2>1. UNCHANGED l1_vars /\ engine' = engine /\ Exit
      BY <1>2 DEF Crash
    <2>2. QED
      BY <2>1, ExitInv DEF IndInv, EngineInv
  <1>3. QED
    BY <1>1, <1>2

\* The engine gets the first forkchoice update.
LEMMA ReadyInv == IndInv /\ EngineReady => IndInv'
  <1> SUFFICES ASSUME IndInv, EngineReady PROVE IndInv'
    OBVIOUS
  <1> USE DEF IndInv
  <1> DEFINE f == ForkchoiceUpdated(engine, unsafe_head)
  <1>1. /\ UNCHANGED <<l1, l1_finalized, minted, watcher, queue, unsafe_head, safe_head,
                       finalized_head, unfinalized_blocks, finalized_l1_block_number,
                       future_unsafe_blocks, pipeline, attributes>>
        /\ pc = "start" /\ pc' = "update" /\ engine' = f.engine
    BY DEF EngineReady, l1_vars, watcher_vars, heads, lists, derivation
  <1>2. /\ EngineOK(engine) /\ unsafe_head \in L2 /\ safe_head \in L2 /\ finalized_head \in L2
        /\ finalized_head \in engine.known /\ unsafe_head \in engine.known
    BY DEF EngineInv, Types
  <1>3. /\ EngineOK(engine') /\ engine'.known = engine.known
        /\ engine'.head = unsafe_head
        /\ engine'.finalized \in {engine.finalized, finalized_head}
    BY <1>1, <1>2, ForkchoiceFacts
  <1> HIDE DEF f
  <1>4. Types' /\ L1Inv' /\ EngineInv' /\ EntriesInv'
    BY <1>1, <1>3 DEF Types, L1Inv, EngineInv, EntriesInv
  <1>5. HeadsInv'
    BY <1>1, <1>3 DEF HeadsInv, HeadsOnOneChain
  <1>6. ViewInv'
    BY <1>1 DEF ViewInv, ViewOK, DerivedOK, OnChain, UpdateOK
  <1>7. FinalInv'
    BY <1>1, <1>2, <1>3, FinalizedDerived, GenesisFacts DEF FinalInv
  <1>8. QED
    BY <1>4, <1>5, <1>6, <1>7

-----------------------------------------------------------------------------
(* The watcher *)

\* A watcher that is on L1 may be taken to have read it up to index n.
LEMMA ReadMore ==
    ASSUME Types, L1Inv, NEW w \in Seq(L1), w # <<>>, IsPrefix(w, l1), NEW n \in 1..Len(l1)
    PROVE  \E v \in Seq(L1) :
             /\ IsPrefix(w, v) /\ IsPrefix(v, l1) /\ Grows(v)
             /\ Len(v) >= n /\ (Len(v) = Len(w) \/ Len(v) = n)
  <1>1. /\ l1 \in Seq(L1) /\ Len(l1) \in Nat /\ Len(w) \in Nat /\ Len(w) <= Len(l1)
        /\ DOMAIN l1 = 1..Len(l1) /\ Len(w) > 0 /\ n \in Nat /\ n <= Len(l1)
    BY LenProperties, PrefixEntries, EmptySeq DEF Types
  <1>2. ASSUME NEW v \in Seq(L1), IsPrefix(v, l1) PROVE Grows(v)
    <2>1. /\ Len(v) <= Len(l1) /\ \A i \in 1..Len(v) : v[i] = l1[i]
          /\ DOMAIN v = 1..Len(v) /\ Len(v) \in Nat
      BY <1>1, <1>2, PrefixEntries, LenProperties
    <2> SUFFICES ASSUME NEW j \in 1..Len(v), NEW i \in 1..j
                 PROVE  IsPrefix(v[i].derived, v[j].derived)
      BY <2>1 DEF Grows
    <2>2. i \in 1..Len(v) /\ j \in DOMAIN l1
      BY <1>1, <2>1
    <2>3. QED
      BY <2>1, <2>2 DEF L1Inv, Grows
  <1>3. CASE Len(w) >= n
    BY <1>2, <1>3, PrefixReflexive
  <1>4. CASE Len(w) < n
    <2> DEFINE v == SubSeq(l1, 1, n)
    <2>1. n \in 0..Len(l1)
      BY <1>1
    <2>2. v \in Seq(L1) /\ Len(v) = n /\ IsPrefix(v, l1)
      BY <1>1, <2>1, PrefixSubSeq
    <2> HIDE DEF v
    <2>3. Len(w) <= Len(v)
      BY <1>1, <1>4, <2>2
    <2>4. IsPrefix(w, v)
      BY <1>1, <2>2, <2>3, PrefixComparable
    <2>5. Len(v) >= n
      BY <1>1, <2>2
    <2>6. QED
      BY <1>2, <2>2, <2>4, <2>5
  <1>5. QED
    BY <1>1, <1>3, <1>4

\* What was derived from w was derived from a chain v that goes on from it.
LEMMA DerivedFurther ==
    ASSUME Types, NEW w \in Seq(L1), NEW b \in Nat, b < Len(w), DerivedOK(w, b),
           NEW v \in Seq(L1), IsPrefix(w, v), Grows(v), NEW c \in Nat, b <= c, c < Len(v)
    PROVE  DerivedOK(v, c)
  <1>1. /\ w # <<>> /\ Len(w) \in Nat /\ Len(v) \in Nat /\ Len(w) <= Len(v)
        /\ DOMAIN v = 1..Len(v) /\ \A i \in 1..Len(w) : w[i] = v[i]
    BY PrefixEntries, LenProperties, EmptySeq
  <1>2. /\ \A slot \in Nat, n \in Nat : InBlock(w, slot, n) => InBlock(v, slot, n)
        /\ \A a \in Attributes : ReadIn(w, a) => ReadIn(v, a)
        /\ IsPrefix(w[Len(w)].derived, v[Len(v)].derived)
    BY <1>1, ReadFurther
  <1>3. watcher.finalized <= c /\ finalized_l1_block_number <= c
    <2>1. watcher.finalized \in Nat /\ finalized_l1_block_number \in Nat
      BY DEF Types
    <2>2. watcher.finalized <= b /\ finalized_l1_block_number <= b
      BY DEF DerivedOK
    <2>3. QED
      BY <2>1, <2>2
  <1>4. ASSUME NEW i \in DOMAIN queue PROVE UpdateOK(queue[i], v, c)
    <2> DEFINE u == queue[i]
    <2>1. UpdateOK(u, w, b)
      BY DEF DerivedOK
    <2>2. u \in Update
      BY ElementOfSeq, LenProperties DEF Types
    <2> HIDE DEF u
    <2>3. UpdateOK(u, v, c)
      <3>1. CASE u \in [type : {"NewBlock"}, attributes : SUBSET Attributes]
        BY <1>2, <2>1, <3>1 DEF UpdateOK
      <3>2. CASE u \in [type : {"FinalityUpdate"}, number : Nat]
        BY <2>1, <3>2 DEF UpdateOK
      <3>3. CASE u \in [type : {"Reorg"}]
        BY <3>3 DEF UpdateOK
      <3>4. QED
        BY <2>2, <3>1, <3>2, <3>3 DEF Update
    <2>4. QED
      BY <2>3 DEF u
  <1>5. \A a \in pipeline \cup attributes : ReadIn(v, a)
    BY <1>2 DEF Types, DerivedOK
  <1>6. ASSUME NEW i \in DOMAIN unfinalized_blocks
        PROVE  InBlock(v, Len(unfinalized_blocks[i].head), unfinalized_blocks[i].inclusion)
    <2>1. unfinalized_blocks[i] \in Entry
      BY ElementOfSeq, LenProperties DEF Types
    <2>2. unfinalized_blocks[i].inclusion \in Nat /\ Len(unfinalized_blocks[i].head) \in Nat
      BY <2>1, LenProperties DEF Entry, L2
    <2>3. QED
      BY <1>2, <2>2 DEF DerivedOK
  <1>7. IsPrefix(safe_head, v[Len(v)].derived)
    <2>1. Len(w) \in 1..Len(w) /\ Len(v) \in 1..Len(v)
      BY <1>1, EmptySeq
    <2>2. w[Len(w)].derived \in L2 /\ v[Len(v)].derived \in L2 /\ safe_head \in L2
      BY <2>1, L1Facts DEF Types
    <2>3. IsPrefix(safe_head, w[Len(w)].derived)
      BY DEF DerivedOK
    <2>4. QED
      BY <1>2, <2>2, <2>3, PrefixTransitive DEF L2
  <1>8. IsPrefix(finalized_head, v[c + 1].derived)
    <2>1. b + 1 \in 1..Len(w) /\ b + 1 \in 1..(c + 1) /\ c + 1 \in 1..Len(v)
          /\ b + 1 \in 1..Len(v)
      BY <1>1
    <2>2. IsPrefix(finalized_head, v[b + 1].derived)
      BY <1>1, <2>1 DEF DerivedOK
    <2>3. IsPrefix(v[b + 1].derived, v[c + 1].derived)
      BY <1>1, <2>1 DEF Grows
    <2>4. v[b + 1].derived \in L2 /\ v[c + 1].derived \in L2 /\ finalized_head \in L2
      BY <2>1, L1Facts DEF Types
    <2>5. QED
      BY <2>2, <2>3, <2>4, PrefixTransitive DEF L2
  <1>9. QED
    BY <1>3, <1>4, <1>5, <1>6, <1>7, <1>8 DEF DerivedOK

\* The attributes in block n of L1 were read from any chain that has that block.
LEMMA AttributesInFacts ==
    ASSUME Types, NEW n \in 0..(Len(l1) - 1), NEW v \in Seq(L1), IsPrefix(v, l1), n < Len(v),
           NEW a \in AttributesIn(n)
    PROVE  a \in Attributes /\ ReadIn(v, a)
  <1> DEFINE from == IF n = 0 THEN 0 ELSE Len(l1[n].derived)
             d == l1[n + 1].derived
  <1>1. /\ l1 \in Seq(L1) /\ Len(l1) \in Nat /\ Len(v) \in Nat /\ n \in Nat
        /\ n + 1 \in 1..Len(v) /\ n + 1 \in 1..Len(l1)
        /\ n # 0 => n \in 1..Len(v) /\ n \in 1..Len(l1)
    BY LenProperties DEF Types
  <1>2. \A i \in 1..Len(v) : v[i] = l1[i]
    BY <1>1, PrefixEntries
  <1>3. v[n + 1] = l1[n + 1] /\ (n # 0 => v[n] = l1[n])
    BY <1>1, <1>2
  <1>4. d \in L2 /\ Len(d) \in Nat /\ (n # 0 => Len(l1[n].derived) \in Nat)
    BY <1>1, L1Facts, LenProperties DEF L2
  <1>5. from \in Nat
    BY <1>4
  <1>6. PICK s \in (from + 1)..Len(d) : a = [slot |-> s, content |-> d[s], inclusion |-> n]
    BY DEF AttributesIn
  <1>7. s \in Nat /\ s \in 1..Len(d) /\ s > from /\ s <= Len(d)
    BY <1>4, <1>5
  <1>8. d[s] \in Content
    BY <1>4, <1>7, ElementOfSeq DEF L2
  <1>9. a \in Attributes
    BY <1>1, <1>6, <1>7, <1>8 DEF Attributes
  <1>10. InBlock(v, s, n)
    BY <1>1, <1>3, <1>7 DEF InBlock
  <1>11. ReadIn(v, a)
    BY <1>3, <1>6, <1>10 DEF ReadIn
  <1>12. QED
    BY <1>9, <1>11

\* The watcher sends something: nothing of the driver changes.
LEMMA SendBlockInv == IndInv /\ SendBlock => IndInv'
  <1> SUFFICES ASSUME IndInv, SendBlock PROVE IndInv'
    OBVIOUS
  <1> USE DEF IndInv
  <1>1. UNCHANGED <<l1, l1_finalized, minted, engine, pc, unsafe_head, safe_head,
                    finalized_head, unfinalized_blocks, finalized_l1_block_number,
                    future_unsafe_blocks, pipeline, attributes>>
    BY DEF SendBlock, l1_vars, heads, lists, derivation
  <1>2. /\ l1 \in Seq(L1) /\ Len(l1) \in Nat /\ DOMAIN l1 = 1..Len(l1)
        /\ watcher \in [next : Nat, last : Nat \cup {-1}, finalized : Nat, reorged : BOOLEAN]
        /\ queue \in Seq(Update)
    BY LenProperties DEF Types
  <1>3. ~watcher.reorged /\ watcher.next < Len(l1) /\ watcher.next \in Nat
    BY <1>2 DEF SendBlock
  <1>4. EngineInv' /\ HeadsInv' /\ EntriesInv' /\ FinalInv'
    BY <1>1 DEF EngineInv, HeadsInv, HeadsOnOneChain, EntriesInv, FinalInv
  <1>5. PICK w \in Seq(L1), b \in 0..l1_finalized : ViewOK(w, b) /\ DerivedOK(w, b)
    BY DEF ViewInv
  <1>6. l1_finalized \in Nat /\ b \in Nat /\ b <= l1_finalized
    BY DEF Types
  <1>7. CASE OnChain
    <2> DEFINE n == watcher.next
               u == [type |-> "NewBlock", attributes |-> AttributesIn(n)]
    <2>1. /\ queue' = Append(queue, u)
          /\ watcher' = [watcher EXCEPT !.next = @ + 1, !.last = l1[n + 1].hash]
      BY <1>7 DEF SendBlock, Send
    <2>2. n + 1 \in 1..Len(l1) /\ n \in 0..(Len(l1) - 1) /\ n \in Nat
      BY <1>2, <1>3
    <2> HIDE DEF n
    <2>3. l1[n + 1].hash \in Nat /\ l1[n + 1].hash <= minted /\ minted \in Nat
      BY <1>2, <2>2, L1Facts DEF L1Inv, Types
    <2>4. /\ watcher' \in [next : Nat, last : Nat \cup {-1}, finalized : Nat, reorged : BOOLEAN]
          /\ watcher'.next = n + 1 /\ watcher'.last = l1[n + 1].hash
          /\ watcher'.finalized = watcher.finalized
      <3> DEFINE m == n + 1
                 h == l1[n + 1].hash
      <3>1. watcher' = [watcher EXCEPT !.next = m, !.last = h]
        BY <2>1 DEF n
      <3>2. m \in Nat /\ h \in Nat \cup {-1}
        BY <2>2, <2>3
      <3> HIDE DEF m, h
      <3>3. /\ watcher' \in [next : Nat, last : Nat \cup {-1}, finalized : Nat,
                              reorged : BOOLEAN]
            /\ watcher'.next = m /\ watcher'.last = h
            /\ watcher'.finalized = watcher.finalized
        BY <1>2, <3>1, <3>2
      <3>4. QED
        BY <3>3 DEF m, h
    <2>5. w # <<>> /\ IsPrefix(w, l1) /\ b < Len(w) /\ Len(w) \in Nat
          /\ (Len(w) <= b + 1 \/ (watcher.last # -1 /\ Len(w) <= n))
      BY <1>3, <1>5, <1>6, <1>7, EmptySeq, LenProperties DEF ViewOK, n
    <2>6. PICK v \in Seq(L1) : /\ IsPrefix(w, v) /\ IsPrefix(v, l1) /\ Grows(v)
                              /\ Len(v) >= n + 1 /\ (Len(v) = Len(w) \/ Len(v) = n + 1)
      BY <2>2, <2>5, ReadMore
    <2>7. Len(v) \in Nat /\ Len(w) <= Len(v) /\ b < Len(v)
          /\ \A i \in 1..Len(w) : w[i] = v[i]
      BY <1>6, <2>5, <2>6, PrefixEntries, LenProperties
    <2>8. DerivedOK(v, b)
      BY <1>5, <1>6, <2>5, <2>6, <2>7, DerivedFurther
    <2>9. \A a \in AttributesIn(n) : a \in Attributes /\ ReadIn(v, a)
      <3>1. n < Len(v)
        BY <2>2, <2>6, <2>7
      <3>2. QED
        BY <2>2, <2>6, <3>1, AttributesInFacts
    <2>10. u \in Update /\ UpdateOK(u, v, b)
      BY <2>9 DEF Update, UpdateOK
    <2> HIDE DEF u
    <2>11. /\ queue' \in Seq(Update)
           /\ \A i \in DOMAIN queue' : UpdateOK(queue'[i], v, b)
      <3>1. /\ queue' \in Seq(Update) /\ DOMAIN queue' = 1..(Len(queue) + 1)
            /\ \A i \in 1..Len(queue) : queue'[i] = queue[i]
            /\ queue'[Len(queue) + 1] = u
            /\ DOMAIN queue = 1..Len(queue) /\ Len(queue) \in Nat
        BY <1>2, <2>1, <2>10, AppendProperties, LenProperties
      <3>2. \A i \in DOMAIN queue' : i \in DOMAIN queue \/ i = Len(queue) + 1
        BY <3>1
      <3>3. QED
        BY <2>8, <2>10, <3>1, <3>2 DEF DerivedOK
    <2>12. Types'
      BY <1>1, <2>4, <2>11 DEF Types
    <2>13. L1Inv'
      BY <1>1, <2>2, <2>3, <2>4 DEF L1Inv
    <2>14. ViewOK(v, b)'
      <3>1. \A i \in 1..(b + 1) : v[i] = l1[i]
        <4>1. \A i \in 1..(b + 1) : i \in 1..Len(w)
          BY <1>6, <2>5
        <4>2. QED
          BY <1>5, <2>7, <4>1 DEF ViewOK
      <3>2. Len(v) <= b + 1 \/ (watcher'.last # -1 /\ Len(v) <= watcher'.next)
        <4>1. watcher'.last # -1
          BY <2>3, <2>4
        <4>2. Len(v) <= b + 1 \/ Len(v) <= n + 1
          BY <1>6, <2>2, <2>5, <2>6, <2>7
        <4>3. QED
          BY <2>4, <4>1, <4>2
      <3>3. QED
        BY <1>1, <2>6, <2>7, <3>1, <3>2 DEF ViewOK
    <2>15. DerivedOK(v, b)'
      BY <1>1, <2>4, <2>8, <2>11 DEF DerivedOK
    <2>16. ViewInv'
      BY <1>1, <2>14, <2>15 DEF ViewInv
    <2>17. QED
      BY <1>4, <2>12, <2>13, <2>16
  <1>8. CASE ~OnChain
    <2> DEFINE u == [type |-> "Reorg"]
    <2>1. queue' = Append(queue, u) /\ watcher' = [watcher EXCEPT !.reorged = TRUE]
      BY <1>8 DEF SendBlock, Send
    <2>2. /\ watcher' \in [next : Nat, last : Nat \cup {-1}, finalized : Nat, reorged : BOOLEAN]
          /\ watcher'.next = watcher.next /\ watcher'.last = watcher.last
          /\ watcher'.finalized = watcher.finalized /\ watcher'.reorged
      BY <1>2, <2>1
    <2>3. u \in Update /\ UpdateOK(u, w, b)
      BY DEF Update, UpdateOK
    <2> HIDE DEF u
    <2>4. /\ queue' \in Seq(Update)
          /\ \A i \in DOMAIN queue' : UpdateOK(queue'[i], w, b)
      <3>1. /\ queue' \in Seq(Update) /\ DOMAIN queue' = 1..(Len(queue) + 1)
            /\ \A i \in 1..Len(queue) : queue'[i] = queue[i]
            /\ queue'[Len(queue) + 1] = u
            /\ DOMAIN queue = 1..Len(queue) /\ Len(queue) \in Nat
        BY <1>2, <2>1, <2>3, AppendProperties, LenProperties
      <3>2. \A i \in DOMAIN queue' : i \in DOMAIN queue \/ i = Len(queue) + 1
        BY <3>1
      <3>3. QED
        BY <1>5, <2>3, <3>1, <3>2 DEF DerivedOK
    <2>5. Types'
      BY <1>1, <2>2, <2>4 DEF Types
    <2>6. L1Inv'
      BY <1>1, <2>2 DEF L1Inv
    <2>7. ViewOK(w, b)' /\ DerivedOK(w, b)'
      BY <1>1, <1>5, <2>2, <2>4 DEF ViewOK, DerivedOK
    <2>8. ViewInv'
      BY <1>1, <2>7 DEF ViewInv
    <2>9. QED
      BY <1>4, <2>5, <2>6, <2>8
  <1>9. QED
    BY <1>7, <1>8

LEMMA SendFinalityInv == IndInv /\ SendFinality => IndInv'
  <1> SUFFICES ASSUME IndInv, SendFinality PROVE IndInv'
    OBVIOUS
  <1> USE DEF IndInv
  <1> DEFINE f == l1_finalized
             u == [type |-> "FinalityUpdate", number |-> f]
  <1>1. UNCHANGED <<l1, l1_finalized, minted, engine, pc, unsafe_head, safe_head,
                    finalized_head, unfinalized_blocks, finalized_l1_block_number,
                    future_unsafe_blocks, pipeline, attributes>>
    BY DEF SendFinality, l1_vars, heads, lists, derivation
  <1>2. /\ l1 \in Seq(L1) /\ Len(l1) \in Nat /\ DOMAIN l1 = 1..Len(l1)
        /\ watcher \in [next : Nat, last : Nat \cup {-1}, finalized : Nat, reorged : BOOLEAN]
        /\ queue \in Seq(Update) /\ f \in Nat /\ f + 1 \in 1..Len(l1)
    BY LenProperties DEF Types
  <1>3. /\ ~watcher.reorged /\ OnChain
        /\ queue' = Append(queue, u) /\ watcher' = [watcher EXCEPT !.finalized = f]
    BY DEF SendFinality, Send
  <1>4. EngineInv' /\ HeadsInv' /\ EntriesInv' /\ FinalInv'
    BY <1>1 DEF EngineInv, HeadsInv, HeadsOnOneChain, EntriesInv, FinalInv
  <1>5. PICK w \in Seq(L1), b \in 0..l1_finalized : ViewOK(w, b) /\ DerivedOK(w, b)
    BY DEF ViewInv
  <1>6. b \in Nat /\ b <= f
    BY <1>2
  <1> HIDE DEF f
  <1>7. /\ watcher' \in [next : Nat, last : Nat \cup {-1}, finalized : Nat, reorged : BOOLEAN]
        /\ watcher'.next = watcher.next /\ watcher'.last = watcher.last
        /\ watcher'.finalized = f /\ watcher'.reorged = watcher.reorged
    BY <1>2, <1>3
  <1>8. w # <<>> /\ IsPrefix(w, l1) /\ b < Len(w) /\ Len(w) \in Nat
        /\ (Len(w) <= b + 1 \/ (watcher.last # -1 /\ Len(w) <= watcher.next))
    BY <1>3, <1>5, <1>6, EmptySeq, LenProperties DEF ViewOK
  <1>9. PICK v \in Seq(L1) : /\ IsPrefix(w, v) /\ IsPrefix(v, l1) /\ Grows(v)
                            /\ Len(v) >= f + 1 /\ (Len(v) = Len(w) \/ Len(v) = f + 1)
    BY <1>2, <1>8, ReadMore
  <1>10. Len(v) \in Nat /\ f < Len(v) /\ \A i \in 1..Len(v) : v[i] = l1[i]
    BY <1>2, <1>9, PrefixEntries, LenProperties
  <1>11. DerivedOK(v, f)
    BY <1>2, <1>5, <1>6, <1>8, <1>9, <1>10, DerivedFurther
  <1>12. u \in Update /\ UpdateOK(u, v, f)
    BY <1>2 DEF Update, UpdateOK
  <1> HIDE DEF u
  <1>13. /\ queue' \in Seq(Update)
         /\ \A i \in DOMAIN queue' : UpdateOK(queue'[i], v, f)
    <2>1. /\ queue' \in Seq(Update) /\ DOMAIN queue' = 1..(Len(queue) + 1)
          /\ \A i \in 1..Len(queue) : queue'[i] = queue[i]
          /\ queue'[Len(queue) + 1] = u
          /\ DOMAIN queue = 1..Len(queue) /\ Len(queue) \in Nat
      BY <1>2, <1>3, <1>12, AppendProperties, LenProperties
    <2>2. \A i \in DOMAIN queue' : i \in DOMAIN queue \/ i = Len(queue) + 1
      BY <2>1
    <2>3. QED
      BY <1>11, <1>12, <2>1, <2>2 DEF DerivedOK
  <1>14. Types' /\ L1Inv'
    BY <1>1, <1>7, <1>13 DEF Types, L1Inv
  <1>15. ASSUME NEW c, c = f PROVE ViewOK(v, c)'
    <2>1. \A i \in 1..(f + 1) : v[i] = l1[i]
      BY <1>2, <1>10
    <2>2. Len(v) <= f + 1 \/ (watcher'.last # -1 /\ Len(v) <= watcher'.next)
      BY <1>2, <1>6, <1>7, <1>8, <1>9, <1>10
    <2>3. QED
      BY <1>1, <1>9, <1>10, <1>15, <2>1, <2>2 DEF ViewOK
  <1>16. ASSUME NEW c, c = f PROVE DerivedOK(v, c)'
    <2>1. watcher'.finalized <= c
      BY <1>2, <1>7, <1>16
    <2>2. QED
      BY <1>1, <1>11, <1>13, <1>16, <2>1 DEF DerivedOK
  <1>17. \E c \in 0..l1_finalized' : c = f
    BY <1>1, <1>2 DEF f
  <1>18. ViewInv'
    BY <1>15, <1>16, <1>17 DEF ViewInv
  <1>19. QED
    BY <1>4, <1>14, <1>18

-----------------------------------------------------------------------------
(* The driver: updates of L1 *)

\* The first update is taken from the channel.
LEMMA TakeUpdate ==
    ASSUME Types, queue # <<>>, NEW w, NEW b, \A i \in DOMAIN queue : UpdateOK(queue[i], w, b)
    PROVE  /\ Head(queue) \in Update /\ UpdateOK(Head(queue), w, b)
           /\ Tail(queue) \in Seq(Update)
           /\ \A i \in DOMAIN Tail(queue) : UpdateOK(Tail(queue)[i], w, b)
  <1>1. queue \in Seq(Update) /\ Len(queue) \in Nat /\ DOMAIN queue = 1..Len(queue)
    BY LenProperties DEF Types
  <1>2. Head(queue) = queue[1] /\ 1 \in DOMAIN queue /\ Head(queue) \in Update
    BY <1>1
  <1>3. /\ Tail(queue) \in Seq(Update)
        /\ \A i \in DOMAIN Tail(queue) : i + 1 \in DOMAIN queue /\ Tail(queue)[i] = queue[i + 1]
    BY <1>1
  <1>4. QED
    BY <1>2, <1>3

LEMMA UpdateInv == IndInv /\ HandleNextBlockUpdate => IndInv'
  <1> SUFFICES ASSUME IndInv, HandleNextBlockUpdate PROVE IndInv'
    OBVIOUS
  <1> USE DEF IndInv
  <1>1. /\ UNCHANGED <<l1, l1_finalized, minted, engine, future_unsafe_blocks, attributes>>
        /\ pc = "update" /\ pc' = "derive" /\ attributes = {}
    BY DEF HandleNextBlockUpdate, l1_vars, HeadsInv
  <1>2. PICK w \in Seq(L1), b \in 0..l1_finalized : ViewOK(w, b) /\ DerivedOK(w, b)
    BY DEF ViewInv
  <1>3. CASE UNCHANGED <<watcher_vars, heads, pipeline, unfinalized_blocks,
                         finalized_l1_block_number>>
    <2>1. UNCHANGED <<watcher, queue, unsafe_head, safe_head, finalized_head, pipeline,
                      unfinalized_blocks, finalized_l1_block_number>>
      BY <1>3 DEF watcher_vars, heads
    <2>2. Types' /\ L1Inv' /\ EngineInv' /\ EntriesInv' /\ FinalInv'
      BY <1>1, <2>1 DEF Types, L1Inv, EngineInv, EntriesInv, FinalInv
    <2>3. HeadsInv'
      BY <1>1, <2>1 DEF HeadsInv, HeadsOnOneChain
    <2>4. ViewInv'
      BY <1>1, <2>1 DEF ViewInv, ViewOK, DerivedOK, OnChain, UpdateOK
    <2>5. QED
      BY <2>2, <2>3, <2>4
  <1>4. CASE queue # <<>> /\ Head(queue).type = "NewBlock" /\ HandleNewBlock(Head(queue))
    <2> DEFINE u == Head(queue)
    <2>1. /\ pipeline' = pipeline \cup u.attributes /\ queue' = Tail(queue)
          /\ UNCHANGED <<watcher, unsafe_head, safe_head, finalized_head, unfinalized_blocks,
                         finalized_l1_block_number>>
      BY <1>4 DEF HandleNewBlock, heads
    <2>2. /\ u \in Update /\ UpdateOK(u, w, b) /\ queue' \in Seq(Update)
          /\ \A i \in DOMAIN queue' : UpdateOK(queue'[i], w, b)
      BY <1>2, <1>4, <2>1, TakeUpdate DEF DerivedOK
    <2>3. u.type = "NewBlock"
      BY <1>4
    <2> HIDE DEF u
    <2>4. u \in [type : {"NewBlock"}, attributes : SUBSET Attributes]
      BY <2>2, <2>3 DEF Update
    <2>5. u.attributes \subseteq Attributes /\ \A a \in u.attributes : ReadIn(w, a)
      BY <2>2, <2>3, <2>4 DEF UpdateOK
    <2>6. Types'
      BY <1>1, <2>1, <2>2, <2>5 DEF Types
    <2>7. L1Inv' /\ EngineInv' /\ EntriesInv' /\ FinalInv'
      BY <1>1, <2>1 DEF L1Inv, EngineInv, EntriesInv, FinalInv
    <2>8. HeadsInv'
      BY <1>1, <2>1 DEF HeadsInv, HeadsOnOneChain
    <2>9. ViewOK(w, b)'
      BY <1>1, <1>2, <2>1 DEF ViewOK, OnChain
    <2>10. DerivedOK(w, b)'
      BY <1>1, <1>2, <2>1, <2>2, <2>5 DEF DerivedOK
    <2>11. QED
      BY <1>1, <2>6, <2>7, <2>8, <2>9, <2>10 DEF ViewInv
  <1>5. CASE queue # <<>> /\ Head(queue).type = "FinalityUpdate" /\ HandleFinality(Head(queue))
    <2> DEFINE u == Head(queue)
    <2>1. /\ finalized_l1_block_number' = u.number /\ queue' = Tail(queue)
          /\ UNCHANGED <<watcher, unsafe_head, safe_head, finalized_head, unfinalized_blocks,
                         pipeline>>
      BY <1>5 DEF HandleFinality, heads
    <2>2. /\ u \in Update /\ UpdateOK(u, w, b) /\ queue' \in Seq(Update)
          /\ \A i \in DOMAIN queue' : UpdateOK(queue'[i], w, b)
      BY <1>2, <1>5, <2>1, TakeUpdate DEF DerivedOK
    <2>3. u.type = "FinalityUpdate"
      BY <1>5
    <2> HIDE DEF u
    <2>4. u \in [type : {"FinalityUpdate"}, number : Nat]
      BY <2>2, <2>3 DEF Update
    <2>5. u.number \in Nat /\ u.number <= b
      BY <2>2, <2>3, <2>4 DEF UpdateOK
    <2>6. Types'
      BY <1>1, <2>1, <2>2, <2>5 DEF Types
    <2>7. L1Inv' /\ EngineInv' /\ EntriesInv' /\ FinalInv'
      BY <1>1, <2>1 DEF L1Inv, EngineInv, EntriesInv, FinalInv
    <2>8. HeadsInv'
      BY <1>1, <2>1 DEF HeadsInv, HeadsOnOneChain
    <2>9. ViewOK(w, b)'
      BY <1>1, <1>2, <2>1 DEF ViewOK, OnChain
    <2>10. DerivedOK(w, b)'
      BY <1>1, <1>2, <2>1, <2>2, <2>5 DEF DerivedOK
    <2>11. QED
      BY <1>1, <2>6, <2>7, <2>8, <2>9, <2>10 DEF ViewInv
  <1>6. CASE HandleReorg
    <2>1. /\ unfinalized_blocks' = <<>> /\ queue' = <<>> /\ pipeline' = {}
          /\ watcher' = StartWatcher(L1StartBlock(EpochOf(finalized_head).number))
          /\ unsafe_head' = finalized_head /\ safe_head' = finalized_head
          /\ UNCHANGED <<finalized_head, finalized_l1_block_number>>
      BY <1>6 DEF HandleReorg
    <2>2. finalized_head \in L2 /\ safe_head \in L2 /\ engine.head \in L2
      BY DEF Types, EngineInv, EngineOK
    <2>3. /\ watcher' \in [next : Nat, last : Nat \cup {-1}, finalized : Nat, reorged : BOOLEAN]
          /\ watcher'.last = -1 /\ watcher'.finalized = 0
      BY <2>1, <2>2, StartFacts
    <2>4. Types'
      BY <1>1, <2>1, <2>2, <2>3, EmptySeq DEF Types
    <2>5. L1Inv'
      BY <1>1, <2>3 DEF L1Inv, Types
    <2>6. EngineInv' /\ EntriesInv' /\ FinalInv'
      BY <1>1, <2>1 DEF EngineInv, EntriesInv, FinalInv
    <2>7. IsPrefix(finalized_head, safe_head) /\ IsPrefix(safe_head, engine.head)
      BY <1>1 DEF HeadsInv, HeadsOnOneChain
    <2>8. IsPrefix(finalized_head, engine.head) /\ IsPrefix(finalized_head, finalized_head)
      BY <2>2, <2>7, PrefixTransitive, GenesisFacts DEF L2
    <2>9. HeadsInv'
      BY <1>1, <2>1, <2>8 DEF HeadsInv, HeadsOnOneChain
    <2>10. ViewInv'
      <3> DEFINE v == SubSeq(l1, 1, l1_finalized + 1)
      <3>1. /\ v \in Seq(L1) /\ Len(v) = l1_finalized + 1 /\ Grows(v) /\ IsPrefix(v, l1)
            /\ \A i \in 1..(l1_finalized + 1) : v[i] = l1[i]
            /\ l1_finalized \in Nat /\ l1_finalized + 1 \in 1..Len(l1)
        BY FinalView
      <3> HIDE DEF v
      <3>2. ASSUME NEW x, x = v PROVE ViewOK(x, l1_finalized)'
        BY <1>1, <3>1, <3>2 DEF ViewOK
      <3>3. ASSUME NEW x, x = v PROVE DerivedOK(x, l1_finalized)'
        <4>1. v[Len(v)].derived = l1[l1_finalized + 1].derived
              /\ v[l1_finalized + 1].derived = l1[l1_finalized + 1].derived
          BY <3>1
        <4>2. IsPrefix(finalized_head, l1[l1_finalized + 1].derived)
          BY FinalizedDerived
        <4>3. finalized_l1_block_number <= l1_finalized
          <5>1. finalized_l1_block_number <= b /\ finalized_l1_block_number \in Nat
            BY <1>2 DEF DerivedOK, Types
          <5>2. QED
            BY <3>1, <5>1
        <4>4. QED
          BY <1>1, <2>1, <2>3, <3>1, <3>3, <4>1, <4>2, <4>3 DEF DerivedOK
      <3>4. PICK x \in Seq(L1) : x = v
        BY <3>1
      <3>5. l1_finalized' \in 0..l1_finalized' /\ l1_finalized' = l1_finalized
        BY <1>1, <3>1
      <3>6. ViewOK(x, l1_finalized)' /\ DerivedOK(x, l1_finalized)'
        BY <3>2, <3>3, <3>4
      <3>7. QED
        BY <3>5, <3>6 DEF ViewInv
    <2>11. QED
      BY <2>4, <2>5, <2>6, <2>9, <2>10
  <1>7. QED
    BY <1>3, <1>4, <1>5, <1>6 DEF HandleNextBlockUpdate

-----------------------------------------------------------------------------
(* The driver: attributes *)

\* The block of the engine's chain that follows the safe head.
LEMMA NextOnChain ==
    ASSUME NEW s \in L2, NEW h \in L2, IsPrefix(s, h), Len(s) + 1 <= Len(h)
    PROVE  LET block == SubSeq(h, 1, Len(s) + 1)
           IN  /\ block \in L2 /\ Last(block) \in Content
               /\ block = Append(s, Last(block))
               /\ Len(block) = Len(s) + 1 /\ IsPrefix(s, block)
  <1> DEFINE x == h[Len(s) + 1]
             c == Append(s, x)
  <1>1. Len(s) \in Nat /\ Len(h) \in Nat
    BY LenProperties DEF L2
  <1>2. x \in Content /\ IsPrefix(c, h)
    BY <1>1, PrefixExtend DEF L2
  <1> HIDE DEF x
  <1>3. c \in L2 /\ Len(c) = Len(s) + 1 /\ Last(c) = x /\ IsPrefix(s, c)
    BY <1>2, FrontOfAppend DEF L2
  <1> HIDE DEF c
  <1>4. c = SubSeq(h, 1, Len(c))
    BY <1>2, <1>3, PrefixIsSubSeq DEF L2
  <1>5. c = SubSeq(h, 1, Len(s) + 1) /\ c = Append(s, Last(c))
    BY <1>3, <1>4 DEF c
  <1>6. QED
    BY <1>2, <1>3, <1>5

\* Along a chain later L2 blocks are not derived from earlier L1 blocks.
LEMMA InclusionOrder ==
    ASSUME NEW w \in Seq(L1), Grows(w), NEW s \in Nat, NEW t \in Nat, NEW m \in Nat, NEW n \in Nat,
           InBlock(w, s, m), InBlock(w, t, n), s <= t
    PROVE  m <= n
  <1> SUFFICES ASSUME m > n PROVE FALSE
    OBVIOUS
  <1>1. Len(w) \in Nat /\ DOMAIN w = 1..Len(w)
    BY LenProperties
  <1>2. m < Len(w) /\ m # 0 /\ s > Len(w[m].derived) /\ t <= Len(w[n + 1].derived)
        /\ m \in 1..Len(w) /\ n + 1 \in 1..m /\ n + 1 \in 1..Len(w)
    BY <1>1 DEF InBlock
  <1> DEFINE d == w[n + 1].derived
             e == w[m].derived
  <1>3. d \in L2 /\ e \in L2 /\ IsPrefix(d, e)
    BY <1>1, <1>2, L1Facts DEF Grows
  <1> HIDE DEF d, e
  <1>4. Len(d) <= Len(e) /\ Len(d) \in Nat /\ Len(e) \in Nat
    BY <1>3, PrefixEntries, LenProperties DEF L2
  <1>5. s > Len(e) /\ t <= Len(d)
    BY <1>2 DEF d, e
  <1>6. QED
    BY <1>4, <1>5

\* The entries of unfinalized_blocks.
LEMMA EntryFacts ==
    ASSUME NEW us \in Seq(Entry), NEW j \in DOMAIN us
    PROVE  /\ us[j] \in Entry /\ us[j].head \in L2 /\ us[j].inclusion \in Nat
           /\ Len(us[j].head) \in Nat
  <1>1. us[j] \in Entry
    BY ElementOfSeq, LenProperties
  <1>2. us[j].head \in L2 /\ us[j].inclusion \in Nat
    BY <1>1 DEF Entry
  <1>3. QED
    BY <1>1, <1>2, LenProperties DEF L2

LEMMA AttributesInv == IndInv /\ HandleAttributes => IndInv'
  <1> SUFFICES ASSUME IndInv, HandleAttributes PROVE IndInv'
    OBVIOUS
  <1> USE DEF IndInv
  <1>1. /\ UNCHANGED <<l1, l1_finalized, minted, watcher, queue, engine, finalized_head,
                       unfinalized_blocks, finalized_l1_block_number, future_unsafe_blocks>>
        /\ pc = "derive"
    BY DEF HandleAttributes, l1_vars, watcher_vars, lists
  <1>2. PICK a \in NextAttributes :
          /\ attributes' = {a}
          /\ pipeline' = {b \in pipeline : b.slot > a.slot}
          /\ \/ \E block \in EngineBlocks(a.slot) :
                  \/ ShouldSkip(block, a) /\ SkipAttributes(block) /\ pc' = "fcu"
                  \/ ResetUnsafe /\ pc' = "build"
             \/ UNCHANGED <<unsafe_head, safe_head>> /\ pc' = "build"
    BY DEF HandleAttributes
  <1>3. a \in pipeline /\ a \in Attributes /\ a.slot = Len(safe_head) + 1
        /\ a.slot \in Nat /\ a.content \in Content
    BY DEF NextAttributes, Types, Attributes
  <1>4. pipeline' \subseteq pipeline /\ attributes' \subseteq pipeline
    BY <1>2, <1>3
  <1>5. /\ unsafe_head \in L2 /\ safe_head \in L2 /\ finalized_head \in L2
        /\ engine.head \in L2 /\ engine.head \in engine.known
        /\ Len(safe_head) \in Nat /\ Len(unsafe_head) \in Nat /\ Len(engine.head) \in Nat
    BY LenProperties DEF Types, EngineInv, EngineOK, L2
  <1>6. /\ IsPrefix(finalized_head, safe_head) /\ IsPrefix(safe_head, unsafe_head)
        /\ IsPrefix(safe_head, engine.head)
    BY <1>1 DEF HeadsInv, HeadsOnOneChain
  <1>7. PICK w \in Seq(L1), b \in 0..l1_finalized : ViewOK(w, b) /\ DerivedOK(w, b)
    BY DEF ViewInv
  <1>8. L1Inv' /\ FinalInv'
    BY <1>1, <1>2 DEF L1Inv, FinalInv
  <1>9. ViewOK(w, b)'
    BY <1>1, <1>7 DEF ViewOK, OnChain
  <1>10. CASE safe_head' = safe_head /\ unsafe_head' \in {unsafe_head, safe_head} /\ pc' = "build"
    <2>1. Types'
      BY <1>1, <1>3, <1>4, <1>5, <1>10 DEF Types
    <2>2. EngineInv' /\ EntriesInv'
      BY <1>1, <1>10 DEF EngineInv, EntriesInv
    <2>3. IsPrefix(safe_head, safe_head)
      BY <1>5, GenesisFacts
    <2>4. HeadsInv'
      BY <1>1, <1>2, <1>3, <1>6, <1>10, <2>3 DEF HeadsInv, HeadsOnOneChain
    <2>5. DerivedOK(w, b)'
      BY <1>1, <1>4, <1>7, <1>10 DEF DerivedOK
    <2>6. QED
      BY <1>1, <1>8, <1>9, <2>1, <2>2, <2>4, <2>5 DEF ViewInv
  <1>11. ASSUME NEW block \in EngineBlocks(a.slot), ShouldSkip(block, a),
                SkipAttributes(block), pc' = "fcu"
         PROVE  IndInv'
    <2>1. a.slot <= Len(engine.head) /\ block = SubSeq(engine.head, 1, a.slot)
      BY <1>11 DEF EngineBlocks
    <2>2. /\ block \in L2 /\ block = Append(safe_head, Last(block))
          /\ Len(block) = Len(safe_head) + 1 /\ IsPrefix(safe_head, block)
      BY <1>3, <1>5, <1>6, <2>1, NextOnChain
    <2>3. block = Append(safe_head, a.content)
      BY <1>11, <2>2 DEF ShouldSkip
    <2>4. block \in engine.known
      BY <1>3, <1>5, <2>1 DEF EngineInv, EngineOK, Closed
    <2>5. safe_head' = block /\ unsafe_head' \in {unsafe_head, block}
      BY <1>11 DEF SkipAttributes
    <2>6. Types'
      BY <1>1, <1>3, <1>4, <1>5, <2>2, <2>5 DEF Types
    <2>7. EngineInv'
      BY <1>1, <2>4, <2>5 DEF EngineInv
    <2>8. IsPrefix(finalized_head, block)
      BY <1>5, <1>6, <2>2, PrefixTransitive DEF L2
    <2>9. HeadsInv'
      BY <1>1, <1>2, <1>3, <1>11, <2>2, <2>5, <2>8 DEF HeadsInv, HeadsOnOneChain
    <2>10. EntriesInv'
      <3> SUFFICES ASSUME NEW j \in DOMAIN unfinalized_blocks
                   PROVE  /\ IsPrefix(unfinalized_blocks[j].head, block)
                          /\ Len(unfinalized_blocks[j].head) < Len(block)
        BY <1>1, <2>5 DEF EntriesInv
      <3> DEFINE u == unfinalized_blocks[j].head
      <3>1. u \in L2
        BY EntryFacts DEF Types
      <3>2. IsPrefix(u, safe_head)
        BY DEF EntriesInv
      <3> HIDE DEF u
      <3>3. IsPrefix(u, block) /\ Len(u) <= Len(safe_head) /\ Len(u) \in Nat
        BY <1>5, <2>2, <3>1, <3>2, PrefixTransitive, PrefixEntries, LenProperties DEF L2
      <3>4. Len(u) < Len(block)
        BY <1>5, <2>2, <3>3
      <3>5. QED
        BY <3>3, <3>4 DEF u
    <2>11. IsPrefix(block, w[Len(w)].derived)
      <3>1. w # <<>> /\ Grows(w) /\ ReadIn(w, a) /\ IsPrefix(safe_head, w[Len(w)].derived)
        BY <1>3, <1>7, EmptySeq DEF ViewOK, DerivedOK
      <3>2. QED
        BY <1>3, <1>5, <2>3, <3>1, DerivesNext
    <2>12. DerivedOK(w, b)'
      BY <1>1, <1>4, <1>7, <2>5, <2>11 DEF DerivedOK
    <2>13. QED
      BY <1>1, <1>8, <1>9, <2>6, <2>7, <2>9, <2>10, <2>12 DEF ViewInv
  <1>12. QED
    BY <1>2, <1>10, <1>11 DEF ResetUnsafe

LEMMA DryInv == IndInv /\ PipelineDry => IndInv'
  <1> SUFFICES ASSUME IndInv, PipelineDry PROVE IndInv'
    OBVIOUS
  <1> USE DEF IndInv
  <1>1. /\ UNCHANGED <<l1, l1_finalized, minted, watcher, queue, engine, unsafe_head, safe_head,
                       finalized_head, unfinalized_blocks, finalized_l1_block_number,
                       future_unsafe_blocks, pipeline, attributes>>
        /\ pc = "derive" /\ pc' = "unsafe"
    BY DEF PipelineDry, l1_vars, watcher_vars, heads, lists, derivation
  <1>2. Types' /\ L1Inv' /\ EngineInv' /\ EntriesInv' /\ FinalInv'
    BY <1>1 DEF Types, L1Inv, EngineInv, EntriesInv, FinalInv
  <1>3. HeadsInv'
    BY <1>1 DEF HeadsInv, HeadsOnOneChain
  <1>4. ViewInv'
    BY <1>1 DEF ViewInv, ViewOK, DerivedOK, OnChain, UpdateOK
  <1>5. QED
    BY <1>2, <1>3, <1>4

LEMMA BuildInv == IndInv /\ BuildPayload => IndInv'
  <1> SUFFICES ASSUME IndInv, BuildPayload PROVE IndInv'
    OBVIOUS
  <1> USE DEF IndInv
  <1> DEFINE f == ForkchoiceUpdated(engine, unsafe_head)
  <1>1. UNCHANGED l1_vars /\ pc = "build"
    BY DEF BuildPayload
  <1>2. PICK a \in attributes :
          \/ /\ f.valid /\ a.slot > Len(unsafe_head)
             /\ engine' = f.engine
             /\ pc' = "push"
             /\ UNCHANGED <<watcher_vars, heads, lists, derivation>>
          \/ engine' \in {engine, f.engine} /\ Exit
    BY DEF BuildPayload
  <1>3. /\ EngineOK(engine) /\ unsafe_head \in L2 /\ safe_head \in L2 /\ finalized_head \in L2
        /\ finalized_head \in engine.known /\ unsafe_head \in engine.known
    BY DEF EngineInv, Types
  <1>4. /\ EngineOK(f.engine) /\ f.engine.known = engine.known
        /\ f.engine.head = unsafe_head
        /\ f.engine.finalized \in {engine.finalized, finalized_head}
    BY <1>3, ForkchoiceFacts
  <1> HIDE DEF f
  <1>5. CASE engine' \in {engine, f.engine} /\ Exit
    <2>1. EngineOK(engine') /\ engine'.finalized \in {engine.finalized, finalized_head}
      BY <1>3, <1>4, <1>5
    <2>2. QED
      BY <1>1, <1>5, <2>1, ExitInv
  <1>6. CASE /\ f.valid /\ a.slot > Len(unsafe_head)
             /\ engine' = f.engine
             /\ pc' = "push"
             /\ UNCHANGED <<watcher_vars, heads, lists, derivation>>
    <2>1. UNCHANGED <<l1, l1_finalized, minted, watcher, queue, unsafe_head, safe_head,
                      finalized_head, unfinalized_blocks, finalized_l1_block_number,
                      future_unsafe_blocks, pipeline, attributes>>
      BY <1>1, <1>6 DEF l1_vars, watcher_vars, heads, lists, derivation
    <2>2. Types' /\ L1Inv' /\ EngineInv' /\ EntriesInv'
      BY <1>4, <1>6, <2>1 DEF Types, L1Inv, EngineInv, EntriesInv
    <2>3. unsafe_head = safe_head
      <3>1. IsPrefix(safe_head, unsafe_head) /\ a.slot = Len(safe_head) + 1
        BY <1>1 DEF HeadsInv, HeadsOnOneChain
      <3>2. Len(safe_head) \in Nat /\ Len(unsafe_head) \in Nat
            /\ Len(safe_head) <= Len(unsafe_head)
        BY <1>3, <3>1, PrefixEntries, LenProperties DEF L2
      <3>3. Len(safe_head) = Len(unsafe_head)
        BY <1>6, <3>1, <3>2
      <3>4. QED
        BY <1>3, <3>1, <3>3, PrefixSameLength DEF L2
    <2>4. HeadsInv'
      BY <1>1, <1>6, <2>1, <2>3 DEF HeadsInv, HeadsOnOneChain
    <2>5. ViewInv'
      BY <2>1 DEF ViewInv, ViewOK, DerivedOK, OnChain, UpdateOK
    <2>6. FinalInv'
      BY <1>1, <1>3, <1>4, <1>6, <2>1, FinalizedDerived, GenesisFacts DEF FinalInv
    <2>7. QED
      BY <2>2, <2>4, <2>5, <2>6
  <1>7. QED
    BY <1>2, <1>5, <1>6

LEMMA PushInv == IndInv /\ PushPayload => IndInv'
  <1> SUFFICES ASSUME IndInv, PushPayload PROVE IndInv'
    OBVIOUS
  <1> USE DEF IndInv
  <1>1. UNCHANGED l1_vars /\ pc = "push" /\ unsafe_head = safe_head
    BY DEF PushPayload, HeadsInv
  <1>2. PICK a \in attributes :
          LET payload == Append(unsafe_head, a.content)
          IN  \/ /\ engine' = NewPayload(payload)
                 /\ safe_head' = payload /\ unsafe_head' = payload
                 /\ pc' = "fcu"
                 /\ UNCHANGED <<watcher_vars, finalized_head, lists, derivation>>
              \/ engine' \in {engine, NewPayload(payload)} /\ Exit
    BY DEF PushPayload
  <1>3. /\ EngineOK(engine) /\ safe_head \in L2 /\ finalized_head \in L2
        /\ safe_head \in engine.known /\ Len(safe_head) \in Nat
    BY LenProperties DEF EngineInv, Types, L2
  <1>4. a \in Attributes /\ a.content \in Content /\ a.slot = Len(safe_head) + 1
    BY <1>1 DEF HeadsInv, Types, Attributes
  <1> DEFINE p == Append(safe_head, a.content)
  <1>5. /\ p \in L2 /\ p # Genesis /\ Front(p) = safe_head /\ Len(p) = Len(safe_head) + 1
        /\ IsPrefix(safe_head, p)
    BY <1>3, <1>4, FrontOfAppend DEF L2, Genesis
  <1>6. PICK w \in Seq(L1), b \in 0..l1_finalized : ViewOK(w, b) /\ DerivedOK(w, b)
    BY DEF ViewInv
  <1>7. IsPrefix(p, w[Len(w)].derived)
    <2>1. w # <<>> /\ Grows(w) /\ ReadIn(w, a) /\ IsPrefix(safe_head, w[Len(w)].derived)
      BY <1>6, EmptySeq DEF ViewOK, DerivedOK
    <2>2. QED
      BY <1>3, <1>4, <2>1, DerivesNext
  <1>8. \/ /\ engine' = NewPayload(p)
           /\ safe_head' = p /\ unsafe_head' = p
           /\ pc' = "fcu"
           /\ UNCHANGED <<watcher_vars, finalized_head, lists, derivation>>
        \/ engine' \in {engine, NewPayload(p)} /\ Exit
    BY <1>1, <1>2
  <1> HIDE DEF p
  <1>9. /\ EngineOK(NewPayload(p))
        /\ NewPayload(p).known = engine.known \cup {p}
        /\ NewPayload(p).head = engine.head
        /\ NewPayload(p).finalized = engine.finalized
    BY <1>3, <1>5, NewPayloadFacts
  <1>10. CASE engine' \in {engine, NewPayload(p)} /\ Exit
    <2>1. EngineOK(engine') /\ engine'.finalized \in {engine.finalized, finalized_head}
      BY <1>3, <1>9, <1>10
    <2>2. QED
      BY <1>1, <1>10, <2>1, ExitInv
  <1>11. CASE /\ engine' = NewPayload(p)
              /\ safe_head' = p /\ unsafe_head' = p
              /\ pc' = "fcu"
              /\ UNCHANGED <<watcher_vars, finalized_head, lists, derivation>>
    <2>1. UNCHANGED <<l1, l1_finalized, minted, watcher, queue,
                      finalized_head, unfinalized_blocks, finalized_l1_block_number,
                      future_unsafe_blocks, pipeline, attributes>>
      BY <1>1, <1>11 DEF l1_vars, watcher_vars, lists, derivation
    <2>2. Types' /\ L1Inv'
      BY <1>5, <1>11, <2>1 DEF Types, L1Inv
    <2>3. EngineInv'
      BY <1>9, <1>11, <2>1 DEF EngineInv
    <2>4. IsPrefix(finalized_head, p)
      BY <1>3, <1>5, PrefixTransitive DEF HeadsInv, HeadsOnOneChain, L2
    <2>5. \A c \in attributes : c.slot = Len(p)
      BY <1>1, <1>5 DEF HeadsInv
    <2>6. HeadsInv'
      BY <1>11, <2>1, <2>4, <2>5 DEF HeadsInv, HeadsOnOneChain
    <2>7. EntriesInv'
      <3> SUFFICES ASSUME NEW j \in DOMAIN unfinalized_blocks
                   PROVE  /\ IsPrefix(unfinalized_blocks[j].head, p)
                          /\ Len(unfinalized_blocks[j].head) < Len(p)
        BY <1>11, <2>1 DEF EntriesInv
      <3> DEFINE u == unfinalized_blocks[j].head
      <3>1. u \in L2
        BY EntryFacts DEF Types
      <3>2. IsPrefix(u, safe_head)
        BY DEF EntriesInv
      <3> HIDE DEF u
      <3>3. IsPrefix(u, p) /\ Len(u) <= Len(safe_head) /\ Len(u) \in Nat
        BY <1>3, <1>5, <3>1, <3>2, PrefixTransitive, PrefixEntries, LenProperties DEF L2
      <3>4. Len(u) < Len(p)
        BY <1>3, <1>5, <3>3
      <3>5. QED
        BY <3>3, <3>4 DEF u
    <2>8. ViewOK(w, b)' /\ DerivedOK(w, b)'
      BY <1>6, <1>7, <1>11, <2>1 DEF ViewOK, OnChain, DerivedOK
    <2>9. FinalInv'
      BY <1>1, <1>9, <1>11, <2>1 DEF FinalInv
    <2>10. QED
      BY <2>1, <2>2, <2>3, <2>6, <2>7, <2>8, <2>9 DEF ViewInv
  <1>12. QED
    BY <1>8, <1>10, <1>11

LEMMA UpdateForkchoiceInv == IndInv /\ UpdateForkchoice => IndInv'
  <1> SUFFICES ASSUME IndInv, UpdateForkchoice PROVE IndInv'
    OBVIOUS
  <1> USE DEF IndInv
  <1> DEFINE f == ForkchoiceUpdated(engine, unsafe_head)
             us == unfinalized_blocks
  <1>1. UNCHANGED l1_vars /\ pc = "fcu"
    BY DEF UpdateForkchoice
  <1>2. PICK a \in attributes :
          \/ /\ f.valid
             /\ engine' = f.engine
             /\ unfinalized_blocks' =
                  Append(us, [head |-> safe_head, inclusion |-> a.inclusion,
                              seq |-> a.content.epoch.seq])
             /\ attributes' = {}
             /\ pc' = "derive"
             /\ UNCHANGED <<watcher_vars, heads, finalized_l1_block_number,
                            future_unsafe_blocks, networking, pipeline>>
          \/ engine' \in {engine, f.engine} /\ Exit
    BY DEF UpdateForkchoice
  <1>3. /\ EngineOK(engine) /\ unsafe_head \in L2 /\ safe_head \in L2 /\ finalized_head \in L2
        /\ finalized_head \in engine.known /\ unsafe_head \in engine.known
    BY DEF EngineInv, Types
  <1>4. /\ EngineOK(f.engine) /\ f.engine.known = engine.known
        /\ f.engine.head = unsafe_head
        /\ f.engine.finalized \in {engine.finalized, finalized_head}
        /\ f.valid => IsPrefix(safe_head, unsafe_head)
    BY <1>3, ForkchoiceFacts
  <1> HIDE DEF f
  <1>5. CASE engine' \in {engine, f.engine} /\ Exit
    <2>1. EngineOK(engine') /\ engine'.finalized \in {engine.finalized, finalized_head}
      BY <1>3, <1>4, <1>5
    <2>2. QED
      BY <1>1, <1>5, <2>1, ExitInv
  <1> DEFINE new == [head |-> safe_head, inclusion |-> a.inclusion, seq |-> a.content.epoch.seq]
  <1>6. CASE /\ f.valid
             /\ engine' = f.engine
             /\ unfinalized_blocks' = Append(us, new)
             /\ attributes' = {}
             /\ pc' = "derive"
             /\ UNCHANGED <<watcher_vars, heads, finalized_l1_block_number,
                            future_unsafe_blocks, networking, pipeline>>
    <2>1. UNCHANGED <<l1, l1_finalized, minted, watcher, queue, unsafe_head, safe_head,
                      finalized_head, finalized_l1_block_number, future_unsafe_blocks, pipeline>>
      BY <1>1, <1>6 DEF l1_vars, watcher_vars, heads
    <2>2. a \in Attributes /\ a.inclusion \in Nat /\ a.slot = Len(safe_head)
          /\ a.content.epoch.seq \in Nat
      BY <1>1 DEF HeadsInv, Types, Attributes, Content, Epoch
    <2>3. new \in Entry /\ new.head = safe_head /\ new.inclusion = a.inclusion
      BY <1>3, <2>2 DEF Entry
    <2> HIDE DEF new
    <2>4. us \in Seq(Entry) /\ DOMAIN us = 1..Len(us) /\ Len(us) \in Nat
      BY LenProperties DEF Types
    <2>5. /\ unfinalized_blocks' \in Seq(Entry)
          /\ DOMAIN unfinalized_blocks' = 1..(Len(us) + 1)
          /\ \A i \in 1..Len(us) : unfinalized_blocks'[i] = us[i]
          /\ unfinalized_blocks'[Len(us) + 1] = new
      BY <1>6, <2>3, <2>4, AppendProperties, LenProperties
    <2>6. Types' /\ L1Inv'
      BY <1>6, <2>1, <2>5 DEF Types, L1Inv
    <2>7. EngineInv'
      BY <1>4, <1>6, <2>1 DEF EngineInv
    <2>8. HeadsInv'
      BY <1>1, <1>4, <1>6, <2>1 DEF HeadsInv, HeadsOnOneChain
    <2>9. PICK w \in Seq(L1), b \in 0..l1_finalized : ViewOK(w, b) /\ DerivedOK(w, b)
      BY DEF ViewInv
    <2>10. InBlock(w, Len(safe_head), a.inclusion)
      BY <2>2, <2>9 DEF DerivedOK, ReadIn
    <2>11. \A i \in 1..Len(us) : us[i].inclusion <= a.inclusion
      <3> SUFFICES ASSUME NEW i \in 1..Len(us)
                   PROVE  us[i].inclusion <= a.inclusion
        OBVIOUS
      <3>1. us[i].head \in L2 /\ us[i].inclusion \in Nat /\ Len(us[i].head) \in Nat
        BY <2>4, EntryFacts
      <3>2. InBlock(w, Len(us[i].head), us[i].inclusion) /\ Len(us[i].head) < Len(safe_head)
        BY <1>1, <2>4, <2>9 DEF DerivedOK, EntriesInv
      <3>3. Len(safe_head) \in Nat /\ Len(us[i].head) <= Len(safe_head) /\ Grows(w)
        BY <1>3, <2>9, <3>1, <3>2, LenProperties DEF L2, ViewOK
      <3>4. QED
        BY <2>2, <2>10, <3>1, <3>2, <3>3, InclusionOrder
    <2>12. EntriesInv'
      <3>1. IsPrefix(finalized_head, safe_head) /\ IsPrefix(safe_head, safe_head)
        BY <1>3, GenesisFacts DEF HeadsInv, HeadsOnOneChain
      <3> SUFFICES ASSUME NEW j \in 1..(Len(us) + 1)
                   PROVE  /\ IsPrefix(finalized_head, unfinalized_blocks'[j].head)
                          /\ IsPrefix(unfinalized_blocks'[j].head, safe_head)
                          /\ \A i \in 1..j :
                               /\ IsPrefix(unfinalized_blocks'[i].head, unfinalized_blocks'[j].head)
                               /\ unfinalized_blocks'[i].inclusion
                                    <= unfinalized_blocks'[j].inclusion
        BY <1>6, <2>1, <2>5 DEF EntriesInv
      <3>2. CASE j \in 1..Len(us)
        <4>1. \A i \in 1..j : i \in 1..Len(us)
          BY <2>4, <3>2
        <4>2. QED
          BY <2>4, <2>5, <3>2, <4>1 DEF EntriesInv
      <3>3. CASE j = Len(us) + 1
        <4>1. \A i \in 1..j : i \in 1..Len(us) \/ i = j
          BY <2>4, <3>3
        <4>2. unfinalized_blocks'[j] = new /\ a.inclusion <= a.inclusion
          BY <2>2, <2>5, <3>3
        <4>3. QED
          BY <2>3, <2>4, <2>5, <2>11, <3>1, <4>1, <4>2 DEF EntriesInv
      <3>4. QED
        BY <2>4, <3>2, <3>3
    <2>13. DerivedOK(w, b)'
      <3>1. \A i \in 1..(Len(us) + 1) : i \in 1..Len(us) \/ i = Len(us) + 1
        BY <2>4
      <3>2. \A i \in DOMAIN unfinalized_blocks' :
              InBlock(w, Len(unfinalized_blocks'[i].head), unfinalized_blocks'[i].inclusion)
        BY <2>3, <2>4, <2>5, <2>9, <2>10, <3>1 DEF DerivedOK
      <3>3. QED
        BY <1>6, <2>1, <2>9, <3>2 DEF DerivedOK
    <2>14. ViewOK(w, b)'
      BY <2>1, <2>9 DEF ViewOK, OnChain
    <2>15. FinalInv'
      BY <1>1, <1>3, <1>4, <1>6, <2>1, FinalizedDerived, GenesisFacts DEF FinalInv
    <2>16. QED
      BY <2>1, <2>6, <2>7, <2>8, <2>12, <2>13, <2>14, <2>15 DEF ViewInv
  <1>7. QED
    BY <1>2, <1>5, <1>6

-----------------------------------------------------------------------------
(* The driver: unsafe blocks *)

\* The sequencer's blocks have the types of blocks.
LEMMA GossipFacts ==
    ASSUME Types, EngineInv
    PROVE  Gossip \subseteq L2
  <1> DEFINE near == UNION {Children(b, l1) : b \in engine.known}
  <1>1. engine.known \subseteq L2 /\ l1 \in Seq(L1)
    BY DEF EngineInv, EngineOK, Types
  <1>2. near \subseteq L2
    BY <1>1, ChildrenFacts
  <1>3. \A b \in near : Children(b, l1) \subseteq L2
    BY <1>1, <1>2, ChildrenFacts
  <1> HIDE DEF near
  <1>4. near \cup UNION {Children(b, l1) : b \in near} \subseteq L2
    BY <1>2, <1>3
  <1>5. QED
    BY <1>4 DEF Gossip, near

\* What is kept of the unsafe blocks, and the first one that fits.
LEMMA UnsafeFacts ==
    ASSUME NEW blocks \in Seq(L2), unsafe_head \in L2
    PROVE  /\ Retain(blocks) \in Seq(L2)
           /\ Applicable(Retain(blocks)) # <<>> =>
                LET p == Head(Applicable(Retain(blocks)))
                IN  p \in L2 /\ p # Genesis /\ Front(p) = unsafe_head
  <1> DEFINE I == {i \in DOMAIN blocks : /\ Len(blocks[i]) > Len(unsafe_head)
                                         /\ Len(blocks[i]) - Len(unsafe_head) < UnsafeWindow}
             kept == Keep(blocks, I)
             J == {i \in DOMAIN kept : Front(kept[i]) = unsafe_head}
             fits == Keep(kept, J)
  <1>1. I \in SUBSET (DOMAIN blocks)
    OBVIOUS
  <1>2. \A i \in I : Len(blocks[i]) > Len(unsafe_head)
    OBVIOUS
  <1> HIDE DEF I
  <1>3. kept \in Seq(L2)
    BY <1>1, KeepFacts
  <1>4. \A k \in DOMAIN kept : \E i \in I : kept[k] = blocks[i]
    BY <1>1, KeepFacts
  <1>5. Retain(blocks) = kept /\ Applicable(Retain(blocks)) = fits
    BY DEF Retain, Applicable, I
  <1> HIDE DEF kept
  <1>6. J \in SUBSET (DOMAIN kept) /\ \A i \in J : Front(kept[i]) = unsafe_head
    OBVIOUS
  <1> HIDE DEF J
  <1>7. fits \in Seq(L2)
    BY <1>3, <1>6, KeepFacts
  <1>8. \A k \in DOMAIN fits : \E i \in J : fits[k] = kept[i]
    BY <1>3, <1>6, KeepFacts
  <1> HIDE DEF fits
  <1>9. ASSUME fits # <<>>
        PROVE  Head(fits) \in L2 /\ Head(fits) # Genesis /\ Front(Head(fits)) = unsafe_head
    <2>1. Head(fits) = fits[1] /\ 1 \in DOMAIN fits /\ Head(fits) \in L2
      BY <1>7, <1>9
    <2>2. PICK j \in J : Head(fits) = kept[j]
      BY <1>8, <2>1
    <2>3. PICK i \in I : kept[j] = blocks[i]
      BY <1>4, <1>6, <2>2
    <2>4. Front(Head(fits)) = unsafe_head
      BY <1>6, <2>2
    <2>5. Len(Head(fits)) > Len(unsafe_head)
      BY <1>2, <2>2, <2>3
    <2>6. Head(fits) # Genesis
      <3>1. Len(unsafe_head) \in Nat
        BY LenProperties DEF L2
      <3>2. QED
        BY <2>5, <3>1, GenesisFacts
    <2>7. QED
      BY <2>1, <2>4, <2>6
  <1>10. QED
    BY <1>3, <1>5, <1>9

LEMMA UnsafeInv == IndInv /\ AdvanceUnsafeHead => IndInv'
  <1> SUFFICES ASSUME IndInv, AdvanceUnsafeHead PROVE IndInv'
    OBVIOUS
  <1> USE DEF IndInv
  <1>1. /\ UNCHANGED <<l1, l1_finalized, minted, watcher, queue, safe_head, finalized_head,
                       unfinalized_blocks, finalized_l1_block_number, pipeline, attributes>>
        /\ pc = "unsafe" /\ pc' = "finalize"
    BY DEF AdvanceUnsafeHead, l1_vars, watcher_vars, derivation
  <1>2. PICK new \in {<<>>} \cup {<<p>> : p \in Gossip} :
          LET kept == Retain(future_unsafe_blocks \o new)
              fits == Applicable(kept)
          IN  /\ future_unsafe_blocks' = kept
              /\ IF fits = <<>>
                 THEN UNCHANGED <<engine, unsafe_head, faults>>
                 ELSE HandleUnsafePayload(Head(fits))
    BY DEF AdvanceUnsafeHead
  <1>3. /\ EngineOK(engine) /\ unsafe_head \in L2 /\ safe_head \in L2 /\ finalized_head \in L2
        /\ finalized_head \in engine.known /\ unsafe_head \in engine.known
        /\ safe_head \in engine.known
    BY DEF EngineInv, Types
  <1> DEFINE blocks == future_unsafe_blocks \o new
             fits == Applicable(Retain(blocks))
             p == Head(fits)
  <1>4. blocks \in Seq(L2)
    <2>1. new \in Seq(L2)
      <3>1. CASE new = <<>>
        BY <3>1, EmptySeq
      <3>2. ASSUME NEW q \in Gossip, new = <<q>> PROVE new \in Seq(L2)
        <4>1. q \in L2
          BY GossipFacts
        <4>2. QED
          BY <3>2, <4>1
      <3>3. QED
        BY <3>1, <3>2
    <2>2. future_unsafe_blocks \in Seq(L2)
      BY DEF Types
    <2>3. QED
      BY <2>1, <2>2, ConcatProperties
  <1>5. /\ future_unsafe_blocks' = Retain(blocks)
        /\ IF fits = <<>> THEN UNCHANGED <<engine, unsafe_head, faults>>
           ELSE HandleUnsafePayload(p)
    BY <1>2
  <1> HIDE DEF blocks
  <1>6. /\ future_unsafe_blocks' \in Seq(L2)
        /\ fits # <<>> => p \in L2 /\ p # Genesis /\ Front(p) = unsafe_head
    BY <1>3, <1>4, <1>5, UnsafeFacts
  <1>7. ASSUME fits # <<>>
        PROVE  /\ p \in L2 /\ IsPrefix(unsafe_head, p)
               /\ EngineOK(engine') /\ unsafe_head' \in {unsafe_head, p}
               /\ engine'.known \in {engine.known, engine.known \cup {p}}
               /\ unsafe_head' = p => p \in engine'.known
               /\ engine'.head \in {engine.head, p}
               /\ engine'.finalized \in {engine.finalized, finalized_head}
    <2>1. HandleUnsafePayload(p)
      BY <1>5, <1>7
    <2> HIDE DEF p
    <2>2. p \in L2 /\ p # Genesis /\ Front(p) = unsafe_head
      BY <1>6, <1>7
    <2>3. IsPrefix(unsafe_head, p)
      BY <2>2, FrontIsParent DEF L2, Genesis
    <2> DEFINE e == NewPayload(p)
               m == ForkchoiceUpdated(e, p).engine
    <2>4. /\ EngineOK(e) /\ e.known = engine.known \cup {p}
          /\ e.head = engine.head /\ e.finalized = engine.finalized
      BY <1>3, <2>2, NewPayloadFacts
    <2>5. \/ engine' = m /\ unsafe_head' = p
          \/ engine' \in {engine, e} /\ unsafe_head' = unsafe_head
          \/ engine' = e /\ unsafe_head' = p
      BY <2>1 DEF HandleUnsafePayload
    <2> HIDE DEF e
    <2>6. /\ EngineOK(m) /\ m.known = e.known /\ m.head = p
          /\ m.finalized \in {e.finalized, finalized_head}
      <3>1. finalized_head \in e.known /\ p \in e.known
        BY <1>3, <2>4
      <3>2. QED
        BY <1>3, <2>2, <2>4, <3>1, ForkchoiceFacts
    <2> HIDE DEF m
    <2>7. unsafe_head' = unsafe_head => engine' \in {engine, e, m}
      BY <2>5
    <2>8. QED
      BY <1>3, <2>2, <2>3, <2>4, <2>5, <2>6
  <1>8. /\ EngineOK(engine')
        /\ engine.known \subseteq engine'.known
        /\ unsafe_head' \in L2 /\ unsafe_head' \in engine'.known
        /\ engine'.finalized \in {engine.finalized, finalized_head}
        /\ IsPrefix(unsafe_head, unsafe_head')
        /\ IsPrefix(safe_head, engine'.head)
    <2>1. IsPrefix(safe_head, engine.head) /\ IsPrefix(safe_head, unsafe_head)
      BY <1>1 DEF HeadsInv, HeadsOnOneChain
    <2>2. CASE fits = <<>>
      BY <1>3, <1>5, <2>1, <2>2, GenesisFacts
    <2>3. CASE fits # <<>>
      <3> HIDE DEF p
      <3>1. p \in L2 /\ IsPrefix(unsafe_head, p)
        BY <1>7, <2>3
      <3>2. IsPrefix(safe_head, p)
        BY <1>3, <2>1, <3>1, PrefixTransitive DEF L2
      <3>3. QED
        BY <1>3, <1>7, <2>1, <2>3, <3>1, <3>2, GenesisFacts
    <2>4. QED
      BY <2>2, <2>3
  <1>9. Types' /\ L1Inv'
    BY <1>1, <1>6, <1>8 DEF Types, L1Inv
  <1>10. EngineInv'
    BY <1>1, <1>3, <1>8 DEF EngineInv
  <1>11. HeadsInv'
    <2>1. IsPrefix(safe_head, unsafe_head')
      BY <1>1, <1>3, <1>8, PrefixTransitive DEF HeadsInv, HeadsOnOneChain, L2
    <2>2. QED
      BY <1>1, <1>8, <2>1 DEF HeadsInv, HeadsOnOneChain
  <1>12. EntriesInv'
    BY <1>1 DEF EntriesInv
  <1>13. ViewInv'
    BY <1>1 DEF ViewInv, ViewOK, DerivedOK, OnChain, UpdateOK
  <1>14. FinalInv'
    BY <1>1, <1>3, <1>8, FinalizedDerived, GenesisFacts DEF FinalInv
  <1>15. QED
    BY <1>9, <1>10, <1>11, <1>12, <1>13, <1>14

-----------------------------------------------------------------------------
(* The driver: finality *)

\* What becomes final: it is on the chain of the entries that stay, and finalized L1
\* determines it.
LEMMA FinalizeFacts ==
    ASSUME IndInv, NEW w \in Seq(L1), NEW b \in 0..l1_finalized, ViewOK(w, b), DerivedOK(w, b),
           FinalEntries # <<>>
    PROVE  LET u == Last(FinalEntries).head
           IN  /\ u \in L2 /\ IsPrefix(finalized_head, u) /\ IsPrefix(u, safe_head)
               /\ IsPrefix(u, w[b + 1].derived)
               /\ \A i \in DOMAIN unfinalized_blocks :
                    unfinalized_blocks[i].inclusion > finalized_l1_block_number
                    => IsPrefix(u, unfinalized_blocks[i].head)
  <1> DEFINE us == unfinalized_blocks
             n == finalized_l1_block_number
             I == {i \in DOMAIN us : us[i].inclusion <= n /\ us[i].seq = 0}
             fe == Keep(us, I)
  <1>1. us \in Seq(Entry) /\ Len(us) \in Nat /\ DOMAIN us = 1..Len(us) /\ n \in Nat
        /\ safe_head \in L2
    BY LenProperties DEF IndInv, Types
  <1>2. I \in SUBSET (DOMAIN us) /\ \A i \in I : us[i].inclusion <= n
    OBVIOUS
  <1>3. fe = FinalEntries
    BY DEF FinalEntries
  <1> HIDE DEF I
  <1>4. fe \in Seq(Entry) /\ \A k \in DOMAIN fe : \E i \in I : fe[k] = us[i]
    BY <1>1, <1>2, KeepFacts
  <1> HIDE DEF fe
  <1>5. Last(fe) = fe[Len(fe)] /\ Len(fe) \in DOMAIN fe
    BY <1>3, <1>4, LenProperties, EmptySeq DEF Last
  <1>6. PICK j \in I : Last(fe) = us[j]
    BY <1>4, <1>5
  <1> DEFINE u == us[j].head
  <1>7. j \in 1..Len(us) /\ u \in L2 /\ Len(u) \in Nat /\ us[j].inclusion \in Nat
        /\ us[j].inclusion <= n
    BY <1>1, <1>2, EntryFacts
  <1>8. IsPrefix(finalized_head, u) /\ IsPrefix(u, safe_head)
    BY <1>1, <1>7 DEF IndInv, EntriesInv
  <1>9. \A i \in DOMAIN us : us[i].inclusion > n => IsPrefix(u, us[i].head)
    <2> SUFFICES ASSUME NEW i \in 1..Len(us), us[i].inclusion > n
                 PROVE  IsPrefix(u, us[i].head)
      BY <1>1
    <2>1. us[i].inclusion \in Nat
      BY <1>1, EntryFacts
    <2>2. CASE i <= j
      <3>1. i \in 1..j /\ us[i].inclusion <= us[j].inclusion
        BY <1>1, <1>7, <2>2 DEF IndInv, EntriesInv
      <3>2. QED
        BY <1>1, <1>7, <2>1, <3>1
    <2>3. CASE j < i
      <3>1. j \in 1..i
        BY <1>1, <1>7, <2>3
      <3>2. QED
        BY <1>1, <3>1 DEF IndInv, EntriesInv
    <2>4. QED
      BY <1>1, <1>7, <2>2, <2>3
  <1>10. IsPrefix(u, w[b + 1].derived)
    <2> DEFINE m == us[j].inclusion
    <2>1. n <= b /\ b \in Nat /\ b < Len(w) /\ Len(w) \in Nat /\ DOMAIN w = 1..Len(w)
          /\ Grows(w) /\ IsPrefix(safe_head, w[Len(w)].derived)
          /\ InBlock(w, Len(u), m)
      BY <1>1, <1>7, LenProperties DEF IndInv, Types, ViewOK, DerivedOK
    <2>2. m + 1 \in 1..(b + 1) /\ b + 1 \in 1..Len(w) /\ Len(w) \in 1..Len(w)
          /\ m + 1 \in 1..Len(w)
      BY <1>1, <1>7, <2>1
    <2> DEFINE d == w[m + 1].derived
               e == w[b + 1].derived
               t == w[Len(w)].derived
    <2>3. d \in L2 /\ e \in L2 /\ t \in L2
      BY <2>2, L1Facts
    <2>4. IsPrefix(d, e) /\ IsPrefix(e, t)
      BY <2>1, <2>2 DEF Grows
    <2>5. Len(u) <= Len(d) /\ IsPrefix(safe_head, t)
      BY <2>1 DEF InBlock
    <2> HIDE DEF d, e, t, u
    <2>6. IsPrefix(u, t)
      BY <1>1, <1>7, <1>8, <2>3, <2>5, PrefixTransitive DEF L2
    <2>7. Len(d) <= Len(e) /\ Len(d) \in Nat /\ Len(e) \in Nat
      BY <2>3, <2>4, PrefixEntries, LenProperties DEF L2
    <2>8. Len(u) <= Len(e)
      BY <1>7, <2>5, <2>7
    <2>9. IsPrefix(u, e)
      BY <1>7, <2>3, <2>4, <2>6, <2>8, PrefixComparable DEF L2
    <2>10. QED
      BY <2>9 DEF e
  <1>11. QED
    BY <1>3, <1>6, <1>7, <1>8, <1>9, <1>10

LEMMA FinalizedInv == IndInv /\ UpdateFinalized => IndInv'
  <1> SUFFICES ASSUME IndInv, UpdateFinalized PROVE IndInv'
    OBVIOUS
  <1> USE DEF IndInv
  <1> DEFINE us == unfinalized_blocks
             n == finalized_l1_block_number
             K == {i \in DOMAIN us : us[i].inclusion > n}
             rest == Keep(us, K)
  <1>1. /\ UNCHANGED <<l1, l1_finalized, minted, watcher, queue, engine, unsafe_head, safe_head,
                       finalized_l1_block_number, future_unsafe_blocks, pipeline, attributes>>
        /\ pc = "finalize" /\ pc' = "update"
    BY DEF UpdateFinalized, l1_vars, watcher_vars, derivation
  <1>2. /\ finalized_head' = IF FinalEntries = <<>> THEN finalized_head ELSE Last(FinalEntries).head
        /\ unfinalized_blocks' = rest
    BY DEF UpdateFinalized, StillUnfinalized
  <1>3. us \in Seq(Entry) /\ Len(us) \in Nat /\ DOMAIN us = 1..Len(us)
        /\ finalized_head \in L2 /\ safe_head \in L2
    BY LenProperties DEF Types
  <1>4. PICK w \in Seq(L1), b \in 0..l1_finalized : ViewOK(w, b) /\ DerivedOK(w, b)
    BY DEF ViewInv
  <1>5. /\ finalized_head' \in L2 /\ IsPrefix(finalized_head, finalized_head')
        /\ IsPrefix(finalized_head', safe_head)
        /\ IsPrefix(finalized_head', w[b + 1].derived)
        /\ \A i \in DOMAIN us : us[i].inclusion > n => IsPrefix(finalized_head', us[i].head)
    <2>1. CASE FinalEntries = <<>>
      BY <1>2, <1>3, <1>4, <2>1, GenesisFacts DEF HeadsInv, HeadsOnOneChain, EntriesInv, DerivedOK
    <2>2. CASE FinalEntries # <<>>
      BY <1>2, <1>4, <2>2, FinalizeFacts
    <2>3. QED
      BY <2>1, <2>2
  <1>6. finalized_head' \in engine.known
    <2> DEFINE h == finalized_head'
    <2>1. safe_head \in engine.known /\ Closed(engine.known) /\ h \in L2 /\ IsPrefix(h, safe_head)
      BY <1>5 DEF EngineInv, EngineOK
    <2> HIDE DEF h
    <2>2. Len(h) \in 0..Len(safe_head) /\ h = SubSeq(safe_head, 1, Len(h))
      BY <1>3, <2>1, PrefixEntries, PrefixIsSubSeq, LenProperties DEF L2
    <2>3. h \in engine.known
      BY <2>1, <2>2 DEF Closed
    <2>4. QED
      BY <2>3 DEF h
  <1>7. K \in SUBSET (DOMAIN us) /\ \A i \in K : us[i].inclusion > n
    OBVIOUS
  <1> HIDE DEF K
  <1>8. rest \in Seq(Entry)
    BY <1>3, <1>7, KeepFacts
  <1>9. \A j, k \in DOMAIN rest : j < k =>
          \E x, y \in K : x < y /\ rest[j] = us[x] /\ rest[k] = us[y]
    BY <1>3, <1>7, KeepOrder
  <1>10. \A k \in DOMAIN rest : \E x \in K : rest[k] = us[x]
    BY <1>3, <1>7, KeepFacts
  <1> HIDE DEF rest
  <1>11. Types'
    BY <1>1, <1>2, <1>5, <1>8 DEF Types
  <1>12. L1Inv' /\ EngineInv'
    BY <1>1, <1>6 DEF L1Inv, EngineInv
  <1>13. HeadsInv'
    BY <1>1, <1>5 DEF HeadsInv, HeadsOnOneChain
  <1>14. EntriesInv'
    <2> SUFFICES ASSUME NEW j \in DOMAIN rest
                 PROVE  /\ IsPrefix(finalized_head', rest[j].head)
                        /\ IsPrefix(rest[j].head, safe_head)
                        /\ \A i \in 1..j : /\ IsPrefix(rest[i].head, rest[j].head)
                                           /\ rest[i].inclusion <= rest[j].inclusion
      BY <1>1, <1>2 DEF EntriesInv
    <2>1. /\ IsPrefix(finalized_head', rest[j].head)
          /\ IsPrefix(rest[j].head, safe_head)
      BY <1>5, <1>7, <1>10 DEF EntriesInv
    <2>2. ASSUME NEW i \in 1..j
          PROVE  IsPrefix(rest[i].head, rest[j].head) /\ rest[i].inclusion <= rest[j].inclusion
      <3>1. DOMAIN rest = 1..Len(rest) /\ Len(rest) \in Nat
        BY <1>8, LenProperties
      <3>2. i \in DOMAIN rest /\ (i < j \/ i = j)
        BY <3>1
      <3>3. PICK x \in 1..Len(us), y \in 1..Len(us) :
              x <= y /\ rest[i] = us[x] /\ rest[j] = us[y]
        <4>1. CASE i < j
          BY <1>3, <1>7, <1>9, <3>2, <4>1
        <4>2. CASE i = j
          BY <1>3, <1>7, <1>10, <4>2
        <4>3. QED
          BY <3>2, <4>1, <4>2
      <3>4. x \in 1..y
        BY <1>3, <3>3
      <3>5. QED
        BY <1>3, <3>3, <3>4 DEF EntriesInv
    <2>3. QED
      BY <2>1, <2>2
  <1>15. DerivedOK(w, b)'
    <2>1. \A k \in DOMAIN rest : InBlock(w, Len(rest[k].head), rest[k].inclusion)
      BY <1>4, <1>7, <1>10 DEF DerivedOK
    <2>2. QED
      BY <1>1, <1>2, <1>4, <1>5, <2>1 DEF DerivedOK
  <1>16. ViewOK(w, b)'
    BY <1>1, <1>4 DEF ViewOK, OnChain
  <1>17. FinalInv'
    <2>1. engine.finalized \in L2
      BY DEF EngineInv, EngineOK
    <2>2. IsPrefix(engine.finalized, finalized_head) => IsPrefix(engine.finalized, finalized_head')
      <3> DEFINE h == finalized_head'
      <3>1. h \in L2 /\ IsPrefix(finalized_head, h)
        BY <1>5
      <3> HIDE DEF h
      <3>2. IsPrefix(engine.finalized, finalized_head) => IsPrefix(engine.finalized, h)
        BY <1>3, <2>1, <3>1, PrefixTransitive DEF L2
      <3>3. QED
        BY <3>2 DEF h
    <2>3. QED
      BY <1>1, <2>2 DEF FinalInv
  <1>18. QED
    BY <1>1, <1>11, <1>12, <1>13, <1>14, <1>15, <1>16, <1>17 DEF ViewInv

-----------------------------------------------------------------------------
(* The theorems *)

LEMMA Invariance == IndInv /\ [Next]_vars => IndInv'
  <1> SUFFICES ASSUME IndInv, [Next]_vars PROVE IndInv'
    OBVIOUS
  <1>1. CASE L1Step
    BY <1>1, L1StepInv
  <1>2. CASE WatcherStep
    BY <1>2, SendBlockInv, SendFinalityInv DEF WatcherStep
  <1>3. CASE DriverStep
    BY <1>3, StartInv, ReadyInv, UpdateInv, AttributesInv, DryInv, BuildInv, PushInv,
       UpdateForkchoiceInv, UnsafeInv, FinalizedInv DEF DriverStep
  <1>4. CASE Crash
    BY <1>4, StartInv
  <1>5. CASE UNCHANGED vars
    <2>1. UNCHANGED <<l1, l1_finalized, minted, watcher, queue, engine, pc, unsafe_head, safe_head,
                      finalized_head, unfinalized_blocks, finalized_l1_block_number,
                      future_unsafe_blocks, pipeline, attributes>>
      BY <1>5 DEF vars, l1_vars, watcher_vars, heads, lists, derivation
    <2>2. Types' /\ L1Inv' /\ EngineInv' /\ EntriesInv' /\ FinalInv'
      BY <2>1 DEF IndInv, Types, L1Inv, EngineInv, EntriesInv, FinalInv
    <2>3. HeadsInv'
      BY <2>1 DEF IndInv, HeadsInv, HeadsOnOneChain
    <2>4. ViewInv'
      BY <2>1 DEF IndInv, ViewInv, ViewOK, DerivedOK, OnChain, UpdateOK
    <2>5. QED
      BY <2>2, <2>3, <2>4 DEF IndInv
  <1>6. QED
    BY <1>1, <1>2, <1>3, <1>4, <1>5 DEF Next

LEMMA Inductive == Spec => []IndInv
  BY InitInv, Invariance, PTL DEF Spec

\* Outside of handle_attributes the three heads of the EngineDriver are on one chain,
\* after any reorgs, failed calls, crashes and gossip: a forkchoice update is not refused
\* because the heads it names contradict each other.
THEOREM HeadsOnOneChainCorrect == Spec => []HeadsOnOneChain
  <1>1. IndInv => HeadsOnOneChain
    BY DEF IndInv, HeadsInv
  <1>2. QED
    BY <1>1, Inductive, PTL

\* While the watcher is on the canonical L1 chain, the safe head is what that chain
\* determines: whatever the engine held before and wherever the node was killed.
THEOREM SafeHeadIsDerivedCorrect == Spec => []SafeHeadIsDerived
  <1>1. IndInv => SafeHeadIsDerived
    <2> SUFFICES ASSUME IndInv, OnChain, ~watcher.reorged
                 PROVE  IsPrefix(safe_head, Last(l1).derived)
      BY DEF SafeHeadIsDerived
    <2>1. PICK w \in Seq(L1), b \in 0..l1_finalized : ViewOK(w, b) /\ DerivedOK(w, b)
      BY DEF IndInv, ViewInv
    <2>2. l1 \in Seq(L1) /\ l1_finalized \in 0..(Len(l1) - 1) /\ safe_head \in L2
          /\ Len(l1) \in Nat /\ Len(w) \in Nat /\ Grows(l1)
      BY LenProperties DEF IndInv, Types, L1Inv
    <2>3. w # <<>> /\ IsPrefix(w, l1) /\ IsPrefix(safe_head, w[Len(w)].derived)
      BY <2>1, <2>2, EmptySeq DEF ViewOK, DerivedOK
    <2>4. IsPrefix(w[Len(w)].derived, l1[Len(l1)].derived)
      BY <2>2, <2>3, ReadFurther
    <2> DEFINE d == w[Len(w)].derived
               e == l1[Len(l1)].derived
    <2>5. Len(w) \in 1..Len(w) /\ Len(l1) \in 1..Len(l1)
      BY <2>2, <2>3, EmptySeq
    <2>6. d \in L2 /\ e \in L2
      BY <2>2, <2>5, L1Facts
    <2> HIDE DEF d, e
    <2>7. IsPrefix(safe_head, d) /\ IsPrefix(d, e)
      BY <2>3, <2>4 DEF d, e
    <2>8. IsPrefix(safe_head, e)
      BY <2>2, <2>6, <2>7, PrefixTransitive DEF L2
    <2>9. QED
      BY <2>8 DEF e, Last
  <1>2. QED
    BY <1>1, Inductive, PTL

\* L1 steps leave what was final as it was.
LEMMA FinalStep ==
    ASSUME IndInv, L1Step
    PROVE  /\ UNCHANGED engine
           /\ IsPrefix(l1[l1_finalized + 1].derived, l1'[l1_finalized' + 1].derived)
  <1>1. /\ l1 \in Seq(L1) /\ Len(l1) \in Nat /\ l1_finalized \in 0..(Len(l1) - 1)
        /\ DOMAIN l1 = 1..Len(l1) /\ minted \in Nat /\ Grows(l1)
    BY LenProperties DEF IndInv, Types, L1Inv
  <1> DEFINE k == l1_finalized + 1
             d == l1[k].derived
  <1>2. k \in 1..Len(l1) /\ d \in L2 /\ IsPrefix(d, d)
    BY <1>1, L1Facts, GenesisFacts
  <1>3. ASSUME NEW n \in k..Len(l1), NEW next \in Derivable(SubSeq(l1, 1, n)),
               l1' = Append(SubSeq(l1, 1, n), L1Block(minted + 1, next))
        PROVE  l1'[k] = l1[k]
    <2> DEFINE c == SubSeq(l1, 1, n)
               x == L1Block(minted + 1, next)
    <2>1. n \in 0..Len(l1)
      BY <1>1, <1>2
    <2>2. c \in Seq(L1) /\ Len(c) = n /\ \A i \in 1..n : c[i] = l1[i]
      BY <1>1, <2>1, PrefixSubSeq
    <2>3. c # <<>> /\ k \in 1..n
      BY <1>1, <1>2, <2>2, EmptySeq
    <2> HIDE DEF c
    <2>4. next \in L2
      BY <1>3, <2>2, <2>3, DerivableFacts DEF c
    <2>5. x \in L1
      BY <1>1, <2>4 DEF L1Block, L1
    <2>6. l1' = Append(c, x)
      BY <1>3 DEF c
    <2> HIDE DEF x, k
    <2>7. l1'[k] = c[k]
      BY <2>2, <2>3, <2>5, <2>6, AppendProperties
    <2>8. QED
      BY <2>2, <2>3, <2>7
  <1> HIDE DEF d
  <1>4. CASE Mine
    <2>1. SubSeq(l1, 1, Len(l1)) = l1 /\ Len(l1) \in k..Len(l1)
      BY <1>1, PrefixReflexive, PrefixIsSubSeq
    <2>2. PICK next \in Derivable(l1) : l1' = Append(l1, L1Block(minted + 1, next))
      BY <1>4 DEF Mine, Extend
    <2>3. UNCHANGED <<l1_finalized, engine>>
      BY <1>4 DEF Mine
    <2>4. l1'[k] = l1[k]
      BY <1>3, <2>1, <2>2
    <2>5. QED
      BY <1>2, <2>3, <2>4 DEF d
  <1>5. ASSUME NEW n \in (l1_finalized + 1)..(Len(l1) - 1), ReplaceFrom(n)
        PROVE  /\ UNCHANGED engine
               /\ IsPrefix(l1[l1_finalized + 1].derived, l1'[l1_finalized' + 1].derived)
    <2>1. n \in k..Len(l1)
      BY <1>1
    <2>2. PICK next \in Derivable(SubSeq(l1, 1, n)) :
            l1' = Append(SubSeq(l1, 1, n), L1Block(minted + 1, next))
      BY <1>5 DEF ReplaceFrom, Extend
    <2>3. UNCHANGED <<l1_finalized, engine>>
      BY <1>5 DEF ReplaceFrom
    <2>4. l1'[k] = l1[k]
      BY <1>3, <2>1, <2>2
    <2>5. QED
      BY <1>2, <2>3, <2>4 DEF d
  <1>6. ASSUME NEW n \in (l1_finalized + 1)..(Len(l1) - 1), Finalize(n)
        PROVE  /\ UNCHANGED engine
               /\ IsPrefix(l1[l1_finalized + 1].derived, l1'[l1_finalized' + 1].derived)
    <2>1. l1_finalized' = n /\ UNCHANGED <<l1, engine>>
      BY <1>6 DEF Finalize
    <2>2. n + 1 \in DOMAIN l1 /\ l1_finalized + 1 \in 1..(n + 1)
      BY <1>1
    <2>3. IsPrefix(l1[l1_finalized + 1].derived, l1[n + 1].derived)
      BY <1>1, <2>2 DEF Grows
    <2>4. QED
      BY <2>1, <2>3
  <1>7. QED
    BY <1>4, <1>5, <1>6 DEF L1Step

\* The engine is told no other final block than the driver's, by a driver that runs.
LEMMA EngineStep ==
    ASSUME IndInv, WatcherStep \/ DriverStep \/ Crash
    PROVE  /\ UNCHANGED l1_vars
           /\ \/ UNCHANGED engine
              \/ pc # "down" /\ engine'.finalized \in {engine.finalized, finalized_head}
  <1> DEFINE Told(e) == e.finalized \in {engine.finalized, finalized_head}
  <1>1. engine \in [known : SUBSET L2, head : L2, safe : L2, finalized : L2]
    BY DEF IndInv, EngineInv, EngineOK
  <1>2. \A h : Told(ForkchoiceUpdated(engine, h).engine)
    BY <1>1 DEF ForkchoiceUpdated
  <1>3. \A p : /\ Told(NewPayload(p))
               /\ \A h : Told(ForkchoiceUpdated(NewPayload(p), h).engine)
    BY <1>1 DEF ForkchoiceUpdated, NewPayload
  <1>4. CASE WatcherStep \/ FromConfig \/ Crash \/ HandleNextBlockUpdate \/ HandleAttributes
             \/ PipelineDry \/ UpdateFinalized
    BY <1>4 DEF WatcherStep, SendBlock, SendFinality, FromConfig, Crash, HandleNextBlockUpdate,
                HandleAttributes, PipelineDry, UpdateFinalized
  <1>5. CASE EngineReady
    BY <1>2, <1>5 DEF EngineReady
  <1>6. CASE BuildPayload
    BY <1>2, <1>6 DEF BuildPayload
  <1>7. CASE PushPayload
    BY <1>3, <1>7 DEF PushPayload
  <1>8. CASE UpdateForkchoice
    BY <1>2, <1>8 DEF UpdateForkchoice
  <1>9. CASE AdvanceUnsafeHead
    <2>1. UNCHANGED l1_vars /\ pc = "unsafe"
      BY <1>9 DEF AdvanceUnsafeHead
    <2>2. UNCHANGED engine \/ \E p : HandleUnsafePayload(p)
      BY <1>9 DEF AdvanceUnsafeHead
    <2>3. ASSUME NEW p, HandleUnsafePayload(p)
          PROVE  UNCHANGED engine \/ Told(engine')
      BY <1>3, <2>3 DEF HandleUnsafePayload
    <2>4. QED
      BY <2>1, <2>2, <2>3
  <1>10. QED
    BY <1>4, <1>5, <1>6, <1>7, <1>8, <1>9 DEF DriverStep

\* Every step of the node and of L1 is one that the promise allows.
LEMMA PromiseStep ==
    ASSUME ~HeadQueryFails, IndInv, [Next]_vars
    PROVE  [Promise!Next]_<<l1[l1_finalized + 1].derived, engine.finalized>>
  <1> DEFINE d == l1[l1_finalized + 1].derived
  <1>0. \A s, t : Promise!IsPrefix(s, t) <=> IsPrefix(s, t)
    BY DEF Promise!IsPrefix, IsPrefix
  <1>1. CASE L1Step
    BY <1>0, <1>1, FinalStep DEF Promise!Next, Promise!FinalizeL1
  <1>2. CASE WatcherStep \/ DriverStep \/ Crash
    <2>1. UNCHANGED d
      BY <1>2, EngineStep DEF l1_vars
    <2>2. CASE engine'.finalized = engine.finalized
      BY <2>1, <2>2
    <2>3. CASE engine'.finalized = finalized_head /\ pc # "down"
      <3>1. IsPrefix(engine.finalized, finalized_head) /\ IsPrefix(finalized_head, d)
        BY <2>3, FinalizedDerived DEF IndInv, FinalInv
      <3>2. QED
        BY <1>0, <2>1, <2>3, <3>1 DEF Promise!Next, Promise!FinalizeL2
    <2>4. QED
      BY <1>2, <2>2, <2>3, EngineStep
  <1>3. CASE UNCHANGED vars
    BY <1>3 DEF vars, l1_vars
  <1>4. QED
    BY <1>1, <1>2, <1>3 DEF Next

\* When the node reads its finalized head at startup, the driver implements FinalizedChain:
\* the chain the engine holds as final only grows, and finalized L1 determines it, across
\* reorgs, failed calls and restarts.
THEOREM KeepsPromiseCorrect == ~HeadQueryFails /\ Spec => KeepsPromise
  <1>1. Init => Promise!Init
    BY DriverAssumption DEF Init, Promise!Init, Genesis
  <1>2. ASSUME ~HeadQueryFails PROVE Spec => KeepsPromise
    <2>1. IndInv /\ [Next]_vars => [Promise!Next]_<<l1[l1_finalized + 1].derived, engine.finalized>>
      BY <1>2, PromiseStep
    <2>2. QED
      BY <1>1, <2>1, Inductive, PTL DEF Spec, KeepsPromise, Promise!Spec
  <1>3. QED
    BY <1>2
=============================================================================
