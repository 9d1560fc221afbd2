-------------------------- MODULE DerivationProofs --------------------------
(***************************************************************************)
(* Proofs about Derivation, for any L1 chain and number of reorgs, any     *)
(* windows and limits, and whatever the batcher posts; the last one is     *)
(* about a batcher that keeps to the protocol.                             *)
(***************************************************************************)
EXTENDS Derivation, SequenceLemmas

Epoch == [number : Nat, hash : Nat]
Txs == {"none", "some", "invalid"}
Content == [epoch : Epoch, time : Nat, seq : Nat, txs : Txs, deposits : Nat \cup {-1}]
Chain == Seq(Content)

\* The epoch of the block before the n-th.
EpochBefore(c, n) == IF n = 1 THEN [number |-> 0, hash |-> 0] ELSE c[n - 1].epoch

\* A chain that a sequencer builds: block by block in the same epoch or the next one.
Stepwise(c) ==
    \A n \in 1..Len(c) :
        /\ c[n].epoch = EpochBefore(c, n) \/ c[n].epoch.number = EpochBefore(c, n).number + 1
        /\ c[n].txs # "invalid"

Tip == {c \in Chain : Stepwise(c)}

SingleRecord == [kind : {"single"}, timestamp : Nat, parent : Chain, epoch : Epoch, txs : Txs]
SpanRecord ==
    [kind : {"span"}, timestamp : Nat, parent : Chain, origin : Epoch,
     origin_bits : Seq(BOOLEAN), txs : Seq({"none", "some"})]

\* A span batch that leaves no epoch out starts in the epoch of its parent or the next one.
LeavesNoneOut(b) == b.origin.number - Count(b.origin_bits) <= EpochOf(b.parent).number

Batch ==
    SingleRecord \cup
    {b \in SpanRecord : /\ Len(b.origin_bits) >= 1 /\ Len(b.txs) = Len(b.origin_bits)
                        /\ "skip" \notin Kinds => LeavesNoneOut(b)}

Tx == [type : {"frame", "corrupt"}] \cup [type : {"channel"}, batches : Seq(Batch)]
L1Block == [hash : Nat, txs : Seq(Tx), tip : Tip]
Queued == [tx : Tx, inclusion : Nat]
Entry == [batch : Batch, inclusion : Nat]
Input == [timestamp : Nat, epoch : Int, txs : Txs]

-----------------------------------------------------------------------------
(* The environment *)

\* What a chain says of its last block.
LEMMA ChainFacts ==
    ASSUME NEW c \in Chain
    PROVE  /\ EpochOf(c) \in Epoch /\ PositionOf(c) \in Nat /\ TimeOf(c) \in Nat
           /\ Number(c) \in Nat /\ Len(c) \in Nat
           /\ c # Genesis => Len(c) >= 1 /\ Last(c) = c[Len(c)] /\ EpochOf(c) = c[Len(c)].epoch
  <1>1. Len(c) \in Nat
    BY DEF Chain
  <1>2. CASE c = Genesis
    BY <1>1, <1>2, DerivationAssumption DEF EpochOf, PositionOf, TimeOf, Number, Epoch
  <1>3. CASE c # Genesis
    <2>1. Last(c) \in Content /\ Len(c) >= 1
      BY <1>1, <1>3, FrontIsParent DEF Genesis, Chain
    <2>2. Last(c) = c[Len(c)]
      BY DEF Last
    <2>3. QED
      BY <1>1, <1>3, <2>1, <2>2, DerivationAssumption
         DEF EpochOf, PositionOf, TimeOf, Number, Content
  <1>4. QED
    BY <1>2, <1>3

\* The epoch before the next block is that of the last one.
LEMMA EpochBeforeNext ==
    ASSUME NEW c \in Chain
    PROVE  EpochOf(c) = IF Len(c) = 0 THEN [number |-> 0, hash |-> 0] ELSE c[Len(c)].epoch
  <1>1. c = Genesis <=> Len(c) = 0
    BY DEF Genesis, Chain
  <1>2. QED
    BY <1>1, ChainFacts DEF EpochOf

\* A chain with one more block.
LEMMA GrownChain ==
    ASSUME NEW c \in Chain, NEW x \in Content
    PROVE  /\ Append(c, x) \in Chain
           /\ Append(c, x) # Genesis
           /\ Len(Append(c, x)) = Len(c) + 1
           /\ Append(c, x)[Len(c) + 1] = x
           /\ \A i \in 1..Len(c) : Append(c, x)[i] = c[i]
           /\ EpochOf(Append(c, x)) = x.epoch
           /\ TimeOf(Append(c, x)) = x.time
           /\ PositionOf(Append(c, x)) = x.seq
           /\ Front(Append(c, x)) = c
  <1>1. /\ Append(c, x) \in Chain
        /\ Len(Append(c, x)) = Len(c) + 1
        /\ Append(c, x)[Len(c) + 1] = x
        /\ \A i \in 1..Len(c) : Append(c, x)[i] = c[i]
    BY AppendProperties DEF Chain
  <1>2. Append(c, x) # Genesis /\ Last(Append(c, x)) = x /\ Front(Append(c, x)) = c
    BY FrontOfAppend DEF Chain, Genesis
  <1>3. QED
    BY <1>1, <1>2 DEF EpochOf, TimeOf, PositionOf

\* Stepwise chains grow step by step.
LEMMA GrownTip ==
    ASSUME NEW c \in Tip, NEW x \in Content, x.txs # "invalid",
           x.epoch = EpochOf(c) \/ x.epoch.number = EpochOf(c).number + 1
    PROVE  Append(c, x) \in Tip
  <1> DEFINE a == Append(c, x)
  <1>1. c \in Chain /\ Len(c) \in Nat /\ Stepwise(c)
    BY ChainFacts DEF Tip
  <1>2. /\ a \in Chain /\ Len(a) = Len(c) + 1 /\ a[Len(c) + 1] = x
        /\ \A i \in 1..Len(c) : a[i] = c[i]
    BY <1>1, GrownChain
  <1> HIDE DEF a
  <1>3. ASSUME NEW n \in 1..Len(a)
        PROVE  /\ a[n].epoch = EpochBefore(a, n) \/ a[n].epoch.number = EpochBefore(a, n).number + 1
               /\ a[n].txs # "invalid"
    <2>1. CASE n <= Len(c)
      <3>1. a[n] = c[n] /\ EpochBefore(a, n) = EpochBefore(c, n)
        BY <1>1, <1>2, <2>1 DEF EpochBefore
      <3>2. QED
        BY <1>1, <2>1, <3>1 DEF Stepwise
    <2>2. CASE n = Len(c) + 1
      <3>1. a[n] = x /\ EpochBefore(a, n) = EpochOf(c)
        BY <1>1, <1>2, <2>2, EpochBeforeNext DEF EpochBefore
      <3>2. QED
        BY <3>1
    <2>3. QED
      BY <1>1, <1>2, <2>1, <2>2
  <1>4. QED
    BY <1>2, <1>3 DEF a, Tip, Stepwise


\* What the sequencer builds.
LEMMA SequencedType ==
    ASSUME NEW c \in Seq(L1Block), NEW block \in Tip, NEW b \in Sequenced(block, c)
    PROVE  /\ b \in Tip
           /\ Len(b) = Len(block) + 1
           /\ b # Genesis
           /\ \A i \in 1..Len(block) : b[i] = block[i]
           /\ EpochOf(b) = EpochOf(block) \/ EpochOf(b).number < Len(c)
  <1> DEFINE e == EpochOf(block)
             next == IF e.number + 2 <= Len(c) /\ Timestamp(e.number + 1) <= TimeOf(block) + 1
                     THEN {[number |-> e.number + 1, hash |-> c[e.number + 2].hash]} ELSE {}
  <1>1. block \in Chain /\ e \in Epoch /\ TimeOf(block) \in Nat /\ PositionOf(block) \in Nat
    BY ChainFacts DEF Tip
  <1>2. \A x \in next : x \in Epoch /\ x.number = e.number + 1 /\ x.number < Len(c)
    <2>1. e.number \in Nat /\ Len(c) \in Nat
      BY <1>1 DEF Epoch
    <2>2. ASSUME e.number + 2 <= Len(c) PROVE c[e.number + 2].hash \in Nat
      <3>1. e.number + 2 \in DOMAIN c
        BY <2>1, <2>2
      <3>2. c[e.number + 2] \in L1Block
        BY <3>1, ElementOfSeq
      <3>3. QED
        BY <3>2 DEF L1Block
    <2>3. QED
      BY <2>1, <2>2 DEF Epoch
  <1>3. PICK x \in {e} \cup next, t \in {"some", "none"} : b = Append(block, ContentOn(block, x, t))
    BY DEF Sequenced
  <1> HIDE DEF e, next
  <1>4. /\ x \in Epoch
        /\ \/ x = EpochOf(block)
           \/ x.number = EpochOf(block).number + 1 /\ x.number < Len(c)
    BY <1>1, <1>2, <1>3 DEF e
  <1> DEFINE y == ContentOn(block, x, t)
  <1>5. y \in Content /\ y.epoch = x /\ y.txs = t
    BY <1>1, <1>3, <1>4 DEF ContentOn, Content, Txs, Epoch
  <1> HIDE DEF y
  <1>6. b = Append(block, y)
    BY <1>3 DEF y
  <1>7. QED
    BY <1>1, <1>3, <1>4, <1>5, <1>6, GrownTip, GrownChain

\* A part of a chain from its start.
LEMMA ChainPart ==
    ASSUME NEW c \in Chain, NEW n \in 0..Len(c)
    PROVE  /\ SubSeq(c, 1, n) \in Chain
           /\ Len(SubSeq(c, 1, n)) = n
           /\ \A i \in 1..n : SubSeq(c, 1, n)[i] = c[i]
           /\ EpochOf(SubSeq(c, 1, n)) = IF n = 0 THEN [number |-> 0, hash |-> 0] ELSE c[n].epoch
  <1> DEFINE s == SubSeq(c, 1, n)
  <1>1. s \in Chain /\ Len(s) = n /\ \A i \in 1..n : s[i] = c[i]
    BY PrefixSubSeq DEF Chain
  <1> HIDE DEF s
  <1>2. n \in Nat
    BY ChainFacts
  <1>3. EpochOf(s) = IF Len(s) = 0 THEN [number |-> 0, hash |-> 0] ELSE s[Len(s)].epoch
    BY <1>1, EpochBeforeNext
  <1>4. QED
    BY <1>1, <1>2, <1>3 DEF s

\* A block as a batch.
LEMMA SingleBatchType ==
    ASSUME NEW b \in Tip, b # Genesis
    PROVE  SingleBatch(b) \in SingleRecord
  <1>1. b \in Chain
    BY DEF Tip
  <1>2. Last(b) \in Content /\ Front(b) \in Chain
    BY <1>1, FrontIsParent DEF Genesis, Chain
  <1>3. EpochOf(b) \in Epoch /\ TimeOf(b) \in Nat
    BY <1>1, ChainFacts
  <1>4. QED
    BY <1>2, <1>3 DEF SingleBatch, SingleRecord, Content

\* Bits are counted one by one.
CountUpto(bits, k) == Cardinality({i \in 1..k : bits[i]})

LEMMA CountNext ==
    ASSUME NEW bits, NEW k \in Nat
    PROVE  /\ CountUpto(bits, k) \in Nat
           /\ CountUpto(bits, 0) = 0
           /\ CountUpto(bits, k + 1) = CountUpto(bits, k) + (IF bits[k + 1] THEN 1 ELSE 0)
  <1> DEFINE S(n) == {i \in 1..n : bits[i]}
  <1>1. IsFiniteSet(S(k)) /\ Cardinality(S(k)) \in Nat
    <2>1. IsFiniteSet(1..k)
      BY FS_Interval
    <2>2. QED
      BY <2>1, FS_Subset, FS_CardinalityType
  <1>2. S(0) = {}
    OBVIOUS
  <1>3. CASE bits[k + 1]
    <2>1. S(k + 1) = S(k) \cup {k + 1} /\ k + 1 \notin S(k)
      BY <1>3
    <2> HIDE DEF S
    <2>2. Cardinality(S(k + 1)) = Cardinality(S(k)) + 1
      BY <1>1, <2>1, FS_AddElement
    <2>3. QED
      BY <1>1, <1>2, <1>3, <2>2, FS_EmptySet DEF S, CountUpto
  <1>4. CASE ~bits[k + 1]
    <2>1. S(k + 1) = S(k)
      BY <1>4
    <2> HIDE DEF S
    <2>3. QED
      BY <1>1, <1>2, <1>4, <2>1, FS_EmptySet DEF S, CountUpto
  <1>5. QED
    BY <1>3, <1>4

\* Count and CountUpto.
LEMMA CountFacts ==
    ASSUME NEW bits \in Seq(BOOLEAN)
    PROVE  /\ Count(bits) = CountUpto(bits, Len(bits))
           /\ \A k \in 1..Len(bits) : Count(SubSeq(bits, 1, k)) = CountUpto(bits, k)
  <1>1. DOMAIN bits = 1..Len(bits) /\ Len(bits) \in Nat
    OBVIOUS
  <1>2. ASSUME NEW k \in 1..Len(bits) PROVE Count(SubSeq(bits, 1, k)) = CountUpto(bits, k)
    <2> DEFINE s == SubSeq(bits, 1, k)
    <2>1. s \in Seq(BOOLEAN) /\ Len(s) = k /\ \A i \in 1..k : s[i] = bits[i]
      BY <1>1, PrefixSubSeq
    <2>2. DOMAIN s = 1..k
      BY <2>1
    <2> HIDE DEF s
    <2>3. {i \in DOMAIN s : s[i]} = {i \in 1..k : bits[i]}
      BY <2>1, <2>2
    <2>4. QED
      BY <2>3 DEF s, Count, CountUpto
  <1>3. QED
    BY <1>1, <1>2 DEF Count, CountUpto

\* The last blocks of a chain as a span batch.
LEMMA SpanBatchRecord ==
    ASSUME NEW b \in Tip, NEW from \in Nat, from < Len(b)
    PROVE  LET s == SpanBatch(b, from)
           IN  /\ s \in SpanRecord
               /\ Len(s.origin_bits) = Len(b) - from
               /\ Len(s.txs) = Len(b) - from
               /\ s.origin = EpochOf(b)
               /\ s.parent = SubSeq(b, 1, from)
               /\ \A i \in 1..(Len(b) - from) :
                    s.origin_bits[i] = (EpochOf(SubSeq(b, 1, from + i)) #
                                        EpochOf(SubSeq(b, 1, from + i - 1)))
  <1>1. b \in Chain /\ Len(b) \in Nat /\ EpochOf(b) \in Epoch /\ Stepwise(b)
    BY ChainFacts DEF Tip
  <1> DEFINE n == Len(b) - from
             before == SubSeq(b, 1, from)
             bits == [i \in 1..n |-> EpochOf(SubSeq(b, 1, from + i)) #
                                     EpochOf(SubSeq(b, 1, from + i - 1))]
             t == [i \in 1..n |-> b[from + i].txs]
  <1>2. before \in Chain /\ TimeOf(before) \in Nat
    BY <1>1, ChainPart, ChainFacts
  <1>3. n \in Nat
    BY <1>1
  <1>4. bits \in Seq(BOOLEAN) /\ Len(bits) = n
    BY <1>3
  <1>5. t \in Seq({"none", "some"}) /\ Len(t) = n
    <2>1. ASSUME NEW i \in 1..n PROVE b[from + i].txs \in {"none", "some"}
      <3>1. from + i \in 1..Len(b)
        BY <1>1
      <3>2. b[from + i] \in Content /\ b[from + i].txs # "invalid"
        BY <1>1, <3>1 DEF Chain, Stepwise
      <3>3. QED
        BY <3>2 DEF Content, Txs
    <2>2. QED
      BY <1>3, <2>1
  <1> DEFINE s == SpanBatch(b, from)
  <1>6. s = [kind |-> "span", timestamp |-> TimeOf(before) + 1, parent |-> before,
             origin |-> EpochOf(b), origin_bits |-> bits, txs |-> t]
    BY DEF SpanBatch
  <1>7. \A i \in 1..n : bits[i] = (EpochOf(SubSeq(b, 1, from + i)) #
                                   EpochOf(SubSeq(b, 1, from + i - 1)))
    OBVIOUS
  <1> HIDE DEF s, bits, t, before
  <1>8. s \in SpanRecord /\ Len(s.origin_bits) = n /\ Len(s.txs) = n
        /\ s.origin = EpochOf(b) /\ s.parent = before /\ s.origin_bits = bits
    BY <1>1, <1>2, <1>4, <1>5, <1>6 DEF SpanRecord
  <1>9. QED
    BY <1>7, <1>8 DEF s, before

\* Neighbours on a stepwise chain.
LEMMA StepwiseEpochs ==
    ASSUME NEW b \in Tip, NEW n \in Nat, n < Len(b)
    PROVE  LET e == EpochOf(SubSeq(b, 1, n))
               f == EpochOf(SubSeq(b, 1, n + 1))
           IN  /\ e \in Epoch /\ f \in Epoch
               /\ f = e \/ f.number = e.number + 1
  <1>1. b \in Chain /\ Len(b) \in Nat /\ Stepwise(b)
    BY ChainFacts DEF Tip
  <1>2. /\ EpochOf(SubSeq(b, 1, n)) \in Epoch
        /\ EpochOf(SubSeq(b, 1, n)) = EpochBefore(b, n + 1)
    BY <1>1, ChainPart, ChainFacts DEF EpochBefore
  <1>3. /\ EpochOf(SubSeq(b, 1, n + 1)) \in Epoch
        /\ EpochOf(SubSeq(b, 1, n + 1)) = b[n + 1].epoch
    <2> DEFINE k == n + 1
    <2>1. k \in 0..Len(b) /\ k # 0
      BY <1>1
    <2> HIDE DEF k
    <2>2. SubSeq(b, 1, k) \in Chain /\ EpochOf(SubSeq(b, 1, k)) = b[k].epoch
      BY <1>1, <2>1, ChainPart
    <2>3. EpochOf(SubSeq(b, 1, k)) \in Epoch
      BY <2>2, ChainFacts
    <2>4. QED
      BY <2>2, <2>3 DEF k
  <1>4. b[n + 1].epoch = EpochBefore(b, n + 1) \/ b[n + 1].epoch.number = EpochBefore(b, n + 1).number + 1
    BY <1>1 DEF Stepwise
  <1>5. QED
    BY <1>2, <1>3, <1>4

\* The last two blocks of a chain as a span batch: no epoch is left out.
LEMMA SpanBatchType ==
    ASSUME NEW b \in Tip, Len(b) >= 2
    PROVE  SpanBatch(b, Len(b) - 2) \in Batch
  <1>1. b \in Chain /\ Len(b) \in Nat
    BY ChainFacts DEF Tip
  <1> DEFINE m == Len(b) - 2
             s == SpanBatch(b, m)
             e == EpochOf(SubSeq(b, 1, m))
             f == EpochOf(SubSeq(b, 1, m + 1))
             g == EpochOf(SubSeq(b, 1, m + 2))
  <1>2. m \in Nat /\ m < Len(b) /\ m + 1 < Len(b) /\ m + 1 + 1 = m + 2 /\ m + 2 = Len(b)
    BY <1>1
  <1> HIDE DEF m
  <1>3. /\ s \in SpanRecord /\ Len(s.origin_bits) = 2 /\ Len(s.txs) = 2
        /\ s.origin = EpochOf(b) /\ s.parent = SubSeq(b, 1, m)
        /\ s.origin_bits[1] = (f # e) /\ s.origin_bits[2] = (g # f)
    <2>1. Len(b) - m = 2 /\ m + 2 - 1 = m + 1 /\ m + 1 - 1 = m /\ 1 \in 1..2 /\ 2 \in 1..2
      BY <1>1, <1>2
    <2>2. /\ s \in SpanRecord /\ Len(s.origin_bits) = 2 /\ Len(s.txs) = 2
          /\ s.origin = EpochOf(b) /\ s.parent = SubSeq(b, 1, m)
          /\ \A i \in 1..2 : s.origin_bits[i] = (EpochOf(SubSeq(b, 1, m + i)) #
                                               EpochOf(SubSeq(b, 1, m + i - 1)))
      BY <1>2, <2>1, SpanBatchRecord
    <2> HIDE DEF s
    <2>3. s.origin_bits[1] = (f # e) /\ s.origin_bits[2] = (g # f)
      BY <2>1, <2>2
    <2>4. QED
      BY <2>2, <2>3
  <1>4. /\ e \in Epoch /\ f \in Epoch /\ g \in Epoch
        /\ f = e \/ f.number = e.number + 1
        /\ g = f \/ g.number = f.number + 1
    BY <1>2, StepwiseEpochs
  <1>5. g = EpochOf(b)
    <2>1. SubSeq(b, 1, Len(b)) = b
      BY <1>1 DEF Chain
    <2>2. QED
      BY <1>2, <2>1
  <1> HIDE DEF s, e, f, g
  <1> DEFINE bits == s.origin_bits
  <1>6. Count(bits) = (IF bits[1] THEN 1 ELSE 0) + (IF bits[2] THEN 1 ELSE 0)
    <2>1. bits \in Seq(BOOLEAN) /\ Len(bits) = 2
      BY <1>3 DEF SpanRecord
    <2> HIDE DEF bits
    <2>2. Count(bits) = CountUpto(bits, 2)
      BY <2>1, CountFacts
    <2>3. CountUpto(bits, 0) = 0 /\ CountUpto(bits, 0 + 1) = CountUpto(bits, 0) + (IF bits[0 + 1] THEN 1 ELSE 0)
      BY CountNext
    <2>4. CountUpto(bits, 1 + 1) = CountUpto(bits, 1) + (IF bits[1 + 1] THEN 1 ELSE 0)
      BY CountNext
    <2>5. QED
      BY <2>2, <2>3, <2>4
  <1>7. g.number - Count(bits) <= e.number
    <2>1. g.number \in Nat /\ f.number \in Nat /\ e.number \in Nat
      BY <1>4 DEF Epoch
    <2>2. (bits[1] <=> f # e) /\ (bits[2] <=> g # f)
      BY <1>3
    <2>3. Count(bits) \in 0..2
      BY <1>6
    <2> HIDE DEF bits
    <2>4. CASE f = e /\ g = f
      BY <1>6, <2>1, <2>2, <2>3, <2>4
    <2>5. CASE f = e /\ g.number = f.number + 1
      BY <1>6, <2>1, <2>2, <2>3, <2>5
    <2>6. CASE f.number = e.number + 1 /\ g = f
      BY <1>6, <2>1, <2>2, <2>3, <2>6
    <2>7. CASE f.number = e.number + 1 /\ g.number = f.number + 1
      BY <1>6, <2>1, <2>2, <2>3, <2>7
    <2>8. QED
      BY <1>4, <2>4, <2>5, <2>6, <2>7
  <1>8. LeavesNoneOut(s)
    BY <1>3, <1>5, <1>7 DEF LeavesNoneOut, e
  <1>9. QED
    BY <1>3, <1>8 DEF Batch, s, m


\* A channel with one batch.
LEMMA ChannelType ==
    ASSUME NEW b \in Batch
    PROVE  Channel(b) \in Tx
  <1>1. <<b>> \in Seq(Batch)
    OBVIOUS
  <1>2. QED
    BY <1>1 DEF Channel, Tx

\* A span batch of one block that leaves an epoch out.
LEMMA SkipRecord ==
    ASSUME "skip" \in Kinds, NEW s \in SpanRecord, Len(s.txs) = 1, NEW e \in Epoch,
           NEW bits \in Seq(BOOLEAN), Len(bits) = 1
    PROVE  [s EXCEPT !.origin = e, !.origin_bits = bits] \in Batch
  <1> DEFINE t == [s EXCEPT !.origin = e, !.origin_bits = bits]
  <1>1. t \in SpanRecord
    BY DEF SpanRecord
  <1>2. t.txs = s.txs /\ t.origin_bits = bits
    BY DEF SpanRecord
  <1> HIDE DEF t
  <1>3. Len(t.txs) = 1 /\ Len(t.origin_bits) = 1
    BY <1>2
  <1>4. Len(t.origin_bits) >= 1 /\ Len(t.txs) = Len(t.origin_bits)
    BY <1>3
  <1>5. t \in Batch
    BY <1>1, <1>4, Zenon DEF Batch
  <1>6. QED
    BY <1>5 DEF t

LEMMA SkipType ==
    ASSUME "skip" \in Kinds, NEW b \in Tip, Len(b) >= 1, NEW e \in Epoch
    PROVE  [SpanBatch(b, Len(b) - 1) EXCEPT !.origin = e, !.origin_bits = <<TRUE>>] \in Batch
  <1> DEFINE m == Len(b) - 1
             one == <<TRUE>>
  <1>1. m \in Nat /\ m < Len(b) /\ Len(b) - m = 1
    BY ChainFacts DEF Tip
  <1> HIDE DEF m
  <1>2. SpanBatch(b, m) \in SpanRecord /\ Len(SpanBatch(b, m).txs) = 1
    BY <1>1, SpanBatchRecord
  <1>3. one \in Seq(BOOLEAN) /\ Len(one) = 1
    OBVIOUS
  <1> HIDE DEF one
  <1>4. [SpanBatch(b, m) EXCEPT !.origin = e, !.origin_bits = one] \in Batch
    BY <1>2, <1>3, SkipRecord
  <1>5. QED
    BY <1>4 DEF m, one

\* The transactions a batcher may post, one by one.
LEMMA PostCases ==
    ASSUME NEW tip, NEW c, NEW p \in Post(tip, c)
    PROVE  LET one == Sequenced(tip, c)
               two == UNION {Sequenced(b, c) : b \in one}
               far == EpochOf(tip).number + 2
           IN  \/ \E k \in {"frame", "corrupt"} : p.tx = [type |-> k] /\ p.tip = tip
               \/ \E b \in one : p.tx = Channel(SingleBatch(b)) /\ p.tip = b
               \/ /\ "span" \in Kinds
                  /\ \E b \in two : p.tx = Channel(SpanBatch(b, Len(b) - 2)) /\ p.tip = b
               \/ tip # Genesis /\ p.tx = Channel(SingleBatch(tip)) /\ p.tip = tip
               \/ /\ "overlap" \in Kinds
                  /\ \E b \in one :
                       Len(b) >= 2 /\ p.tx = Channel(SpanBatch(b, Len(b) - 2)) /\ p.tip = b
               \/ /\ "early" \in Kinds
                  /\ \E b \in two : p.tx = Channel(SingleBatch(b)) /\ p.tip = tip
               \/ /\ "orphan" \in Kinds
                  /\ \E b \in one :
                       p.tx = Channel([SingleBatch(b) EXCEPT !.parent = b]) /\ p.tip = tip
               \/ /\ "invalid" \in Kinds
                  /\ \E b \in one :
                       p.tx = Channel([SingleBatch(b) EXCEPT !.txs = "invalid"]) /\ p.tip = tip
               \/ /\ "skip" \in Kinds /\ far < Len(c) /\ p.tip = tip
                  /\ \E b \in one :
                       p.tx = Channel([SpanBatch(b, Len(b) - 1) EXCEPT
                                        !.origin = [number |-> far, hash |-> c[far + 1].hash],
                                        !.origin_bits = <<TRUE>>])
  <1> DEFINE one == Sequenced(tip, c)
             two == UNION {Sequenced(b, c) : b \in one}
             far == EpochOf(tip).number + 2
             skipped(b) == Channel([SpanBatch(b, Len(b) - 1) EXCEPT
                                     !.origin = [number |-> far, hash |-> c[far + 1].hash],
                                     !.origin_bits = <<TRUE>>])
             P(kind, tx, t, first) ==
               [kind |-> kind, tx |-> tx, tip |-> t,
                timely |-> EpochOf(first).number + SeqWindow >= Len(c)]
  <1>1. \A kind, tx, t, first :
          p = P(kind, tx, t, first) => p.kind = kind /\ p.tx = tx /\ p.tip = t
    OBVIOUS
  <1>2. p.kind \in Kinds /\ p \in
        {P(k, [type |-> k], tip, tip) : k \in {"frame", "corrupt"}}
        \cup {P("single", Channel(SingleBatch(b)), b, b) : b \in one}
        \cup {P("span", Channel(SpanBatch(b, Len(b) - 2)), b, Front(b)) : b \in two}
        \cup {P("again", Channel(SingleBatch(tip)), tip, tip) : b \in {tip} \ {Genesis}}
        \cup {P("overlap", Channel(SpanBatch(b, Len(b) - 2)), b, tip) :
                  b \in {x \in one : Len(x) >= 2}}
        \cup {P("early", Channel(SingleBatch(b)), tip, tip) : b \in two}
        \cup {P("orphan", Channel([SingleBatch(b) EXCEPT !.parent = b]), tip, tip) : b \in one}
        \cup {P("invalid", Channel([SingleBatch(b) EXCEPT !.txs = "invalid"]), tip, tip) :
                  b \in one}
        \cup {P("skip", skipped(b), tip, tip) : b \in {x \in one : far < Len(c)}}
    BY Zenon DEF Post
  <1> HIDE DEF P, one, two, far, skipped
  <1>3. \/ \E k \in {"frame", "corrupt"} : p = P(k, [type |-> k], tip, tip)
        \/ \E b \in one : p = P("single", Channel(SingleBatch(b)), b, b)
        \/ \E b \in two : p = P("span", Channel(SpanBatch(b, Len(b) - 2)), b, Front(b))
        \/ tip # Genesis /\ p = P("again", Channel(SingleBatch(tip)), tip, tip)
        \/ \E b \in one :
             Len(b) >= 2 /\ p = P("overlap", Channel(SpanBatch(b, Len(b) - 2)), b, tip)
        \/ \E b \in two : p = P("early", Channel(SingleBatch(b)), tip, tip)
        \/ \E b \in one :
             p = P("orphan", Channel([SingleBatch(b) EXCEPT !.parent = b]), tip, tip)
        \/ \E b \in one :
             p = P("invalid", Channel([SingleBatch(b) EXCEPT !.txs = "invalid"]), tip, tip)
        \/ \E b \in one : far < Len(c) /\ p = P("skip", skipped(b), tip, tip)
    BY <1>2, Zenon
  <1>4. \/ \E k \in {"frame", "corrupt"} : p.tx = [type |-> k] /\ p.tip = tip
        \/ \E b \in one : p.tx = Channel(SingleBatch(b)) /\ p.tip = b
        \/ \E b \in two :
             p.kind = "span" /\ p.tx = Channel(SpanBatch(b, Len(b) - 2)) /\ p.tip = b
        \/ tip # Genesis /\ p.tx = Channel(SingleBatch(tip)) /\ p.tip = tip
        \/ \E b \in one : /\ p.kind = "overlap" /\ Len(b) >= 2
                           /\ p.tx = Channel(SpanBatch(b, Len(b) - 2)) /\ p.tip = b
        \/ \E b \in two : p.kind = "early" /\ p.tx = Channel(SingleBatch(b)) /\ p.tip = tip
        \/ \E b \in one : /\ p.kind = "orphan"
                           /\ p.tx = Channel([SingleBatch(b) EXCEPT !.parent = b]) /\ p.tip = tip
        \/ \E b \in one : /\ p.kind = "invalid"
                           /\ p.tx = Channel([SingleBatch(b) EXCEPT !.txs = "invalid"])
                           /\ p.tip = tip
        \/ \E b \in one : p.kind = "skip" /\ far < Len(c) /\ p.tx = skipped(b) /\ p.tip = tip
    BY <1>1, <1>3, Zenon
  <1>5. QED
    BY <1>2, <1>4, Zenon DEF one, two, far, skipped

\* What a batcher transaction may hold.
LEMMA PostType ==
    ASSUME NEW c \in Seq(L1Block), NEW tip \in Tip, NEW p \in Post(tip, c)
    PROVE  p.tx \in Tx /\ p.tip \in Tip
  <1> DEFINE one == Sequenced(tip, c)
             two == UNION {Sequenced(b, c) : b \in one}
             far == EpochOf(tip).number + 2
             e   == [number |-> far, hash |-> c[far + 1].hash]
             skipped(b) == [SpanBatch(b, Len(b) - 1) EXCEPT !.origin = e, !.origin_bits = <<TRUE>>]
  <1>1. tip \in Chain /\ Len(tip) \in Nat /\ EpochOf(tip) \in Epoch
    BY ChainFacts DEF Tip
  <1>2. \A b \in one : b \in Tip /\ b # Genesis /\ Len(b) = Len(tip) + 1
    BY SequencedType
  <1>3. \A b \in two : b \in Tip /\ b # Genesis /\ Len(b) = Len(tip) + 2
    BY <1>1, <1>2, SequencedType
  <1>4. \A b \in Tip : b # Genesis => SingleBatch(b) \in Batch /\ SingleBatch(b) \in SingleRecord
    BY SingleBatchType DEF Batch
  <1>5. \A b \in one \cup two : Len(b) >= 2 => SpanBatch(b, Len(b) - 2) \in Batch
    BY <1>2, <1>3, SpanBatchType
  <1>6. \A b \in two : Len(b) >= 2
    BY <1>1, <1>3
  <1>7. \A k \in {"frame", "corrupt"} : [type |-> k] \in Tx
    BY DEF Tx
  <1>8. ASSUME NEW b \in one
        PROVE  /\ [SingleBatch(b) EXCEPT !.parent = b] \in Batch
               /\ [SingleBatch(b) EXCEPT !.txs = "invalid"] \in Batch
    BY <1>2, <1>4 DEF SingleRecord, Batch, Txs, Tip
  <1>9. ASSUME "skip" \in Kinds, far < Len(c), NEW b \in one PROVE skipped(b) \in Batch
    <2>1. far \in Nat /\ far + 1 \in DOMAIN c
      BY <1>1, <1>9 DEF Epoch
    <2>2. e \in Epoch
      <3>1. c[far + 1] \in L1Block
        BY <2>1, ElementOfSeq
      <3>2. QED
        BY <2>1, <3>1 DEF L1Block, Epoch
    <2>3. b \in Tip /\ Len(b) >= 1
      BY <1>1, <1>2
    <2> HIDE DEF e
    <2>4. QED
      BY <1>9, <2>2, <2>3, SkipType
  <1>10. \A b \in Batch : Channel(b) \in Tx
    BY ChannelType
  <1>11. \/ \E k \in {"frame", "corrupt"} : p.tx = [type |-> k] /\ p.tip = tip
         \/ \E b \in one : p.tx = Channel(SingleBatch(b)) /\ p.tip = b
         \/ \E b \in two : p.tx = Channel(SpanBatch(b, Len(b) - 2)) /\ p.tip = b
         \/ tip # Genesis /\ p.tx = Channel(SingleBatch(tip)) /\ p.tip = tip
         \/ \E b \in one : Len(b) >= 2 /\ p.tx = Channel(SpanBatch(b, Len(b) - 2)) /\ p.tip = b
         \/ \E b \in two : p.tx = Channel(SingleBatch(b)) /\ p.tip = tip
         \/ \E b \in one : p.tx = Channel([SingleBatch(b) EXCEPT !.parent = b]) /\ p.tip = tip
         \/ \E b \in one : p.tx = Channel([SingleBatch(b) EXCEPT !.txs = "invalid"]) /\ p.tip = tip
         \/ /\ "skip" \in Kinds /\ far < Len(c) /\ p.tip = tip
            /\ \E b \in one : p.tx = Channel(skipped(b))
    BY PostCases, Zenon
  <1> HIDE DEF one, two, far, skipped
  <1>12. QED
    BY <1>2, <1>3, <1>4, <1>5, <1>6, <1>7, <1>8, <1>9, <1>10, <1>11, Zenon

\* What the transactions of a block may hold.
LEMMA PostsType ==
    ASSUME NEW c \in Seq(L1Block), c # <<>>, NEW p \in Posts(c)
    PROVE  p.txs \in Seq(Tx) /\ p.tip \in Tip
  <1> DEFINE OK(q) == q.txs \in Seq(Tx) /\ q.tip \in Tip
             none == {[txs |-> <<>>, tip |-> Last(c).tip, timely |-> TRUE]}
             After(ps) == UNION {{[txs |-> Append(q.txs, r.tx), tip |-> r.tip,
                                   timely |-> q.timely /\ r.timely] : r \in Post(q.tip, c)} :
                                 q \in ps}
  <1>1. \A q \in none : OK(q)
    <2>1. Last(c) \in L1Block
      BY FrontIsParent
    <2>2. Last(c).tip \in Tip
      BY <2>1 DEF L1Block
    <2>3. ASSUME NEW q \in none PROVE q.txs = <<>> /\ q.tip = Last(c).tip
      BY <2>3
    <2>4. <<>> \in Seq(Tx)
      OBVIOUS
    <2> HIDE DEF none
    <2>5. QED
      BY <2>2, <2>3, <2>4
  <1>2. ASSUME NEW ps, \A q \in ps : OK(q) PROVE \A q \in After(ps) : OK(q)
    <2>1. ASSUME NEW x \in After(ps) PROVE OK(x)
      <3>1. PICK q \in ps : \E r \in Post(q.tip, c) :
              x = [txs |-> Append(q.txs, r.tx), tip |-> r.tip, timely |-> q.timely /\ r.timely]
        BY <2>1, Zenon
      <3>b. PICK r \in Post(q.tip, c) :
              x = [txs |-> Append(q.txs, r.tx), tip |-> r.tip, timely |-> q.timely /\ r.timely]
        BY <3>1
      <3>2. x.txs = Append(q.txs, r.tx) /\ x.tip = r.tip
        BY <3>b
      <3>3. q.txs \in Seq(Tx) /\ q.tip \in Tip
        BY <1>2
      <3>4. r.tx \in Tx /\ r.tip \in Tip
        BY <3>3, PostType
      <3>5. QED
        BY <3>2, <3>3, <3>4
    <2>2. QED
      BY <2>1
  <1>3. Posts(c) = none \cup (IF MaxTxs >= 1 THEN After(none) ELSE {})
                        \cup (IF MaxTxs >= 2 THEN After(IF MaxTxs >= 1 THEN After(none) ELSE {}) ELSE {})
    BY DEF Posts
  <1> DEFINE one == IF MaxTxs >= 1 THEN After(none) ELSE {}
  <1> HIDE DEF OK, none, After
  <1>4. \A q \in one : OK(q)
    BY <1>1, <1>2
  <1> HIDE DEF one
  <1>5. \A q \in After(one) : OK(q)
    BY <1>2, <1>4
  <1>6. p \in none \cup one \cup After(one)
    BY <1>3 DEF one
  <1>7. OK(p)
    BY <1>1, <1>4, <1>5, <1>6
  <1>8. QED
    BY <1>7 DEF OK

\* A chain with one more L1 block, which has a new hash.
LEMMA ExtendedType ==
    ASSUME NEW c \in Seq(L1Block), c # <<>>, minted \in Nat, NEW d \in Extended(c)
    PROVE  \E r \in L1Block : r.hash = minted + 1 /\ d = Append(c, r)
  <1>1. PICK p \in Posts(c) : d = Append(c, [hash |-> minted + 1, txs |-> p.txs, tip |-> p.tip])
    BY DEF Extended
  <1>2. p.txs \in Seq(Tx) /\ p.tip \in Tip
    BY PostsType
  <1> DEFINE r == [hash |-> minted + 1, txs |-> p.txs, tip |-> p.tip]
  <1>3. r \in L1Block /\ r.hash = minted + 1
    BY <1>2 DEF L1Block
  <1>4. QED
    BY <1>1, <1>3

-----------------------------------------------------------------------------
(* Types *)

\* What the variables hold.
Types ==
    /\ l1 \in Seq(L1Block) /\ minted \in Nat
    /\ \A i \in DOMAIN l1 : l1[i].hash <= minted
    /\ l1_finalized \in 0..(Len(l1) - 1)
    /\ next_block \in Nat /\ last_hash \in -1..minted
    /\ txs \in Seq(Queued)
    /\ \A t \in DOMAIN batches : t \in Nat /\ batches[t] \in Entry
    /\ pending_inputs \in Seq(Input)
    /\ sequence_number \in Nat /\ epoch_hash \in Nat
    /\ \A n \in DOMAIN l1_info : n \in Nat /\ l1_info[n] \in Nat
    /\ \A n \in DOMAIN l2_refs : n \in Nat /\ l2_refs[n] \in Chain
    /\ current_epoch_num \in Nat
    /\ safe_head \in Chain /\ finalized_head \in Chain

\* A step of L1 extends the chain up to some block that is not below the last final one.
LEMMA L1Extends ==
    ASSUME Types, L1Step
    PROVE  \E n \in (l1_finalized + 1)..Len(l1) : l1' \in Extended(SubSeq(l1, 1, n))
  <1>1. l1 \in Seq(L1Block) /\ Len(l1) \in Nat /\ l1_finalized \in 0..(Len(l1) - 1)
    BY DEF Types
  <1>2. CASE Mine
    <2>1. SubSeq(l1, 1, Len(l1)) = l1
      BY <1>1
    <2>2. Len(l1) \in (l1_finalized + 1)..Len(l1)
      BY <1>1
    <2>3. QED
      BY <1>2, <2>1, <2>2 DEF Mine
  <1>3. CASE \E n \in (l1_finalized + 1)..(Len(l1) - 1) : ReplaceFrom(n)
    BY <1>1, <1>3 DEF ReplaceFrom
  <1>4. QED
    BY <1>2, <1>3 DEF L1Step

\* What one step of L1 does to the chain: the blocks up to some n, none of them final, are
\* kept, and a block with a new hash follows.
LEMMA L1StepFacts ==
    ASSUME Types, L1Step
    PROVE  /\ minted' = minted + 1
           /\ \E d \in Seq(L1Block), n \in Nat :
                /\ l1' = d
                /\ l1_finalized + 1 <= n /\ n <= Len(l1)
                /\ Len(d) = n + 1
                /\ \A i \in 1..n : d[i] = l1[i]
                /\ d[n + 1].hash = minted + 1
           /\ UNCHANGED <<l1_finalized, watcher_vars, batch_vars, seq_vars, state_vars,
                          finalized_head, pc>>
  <1>1. l1 \in Seq(L1Block) /\ Len(l1) \in Nat /\ minted \in Nat /\ l1_finalized \in 0..(Len(l1) - 1)
    BY DEF Types
  <1>3. minted' = minted + 1
        /\ UNCHANGED <<l1_finalized, watcher_vars, batch_vars, seq_vars, state_vars,
                       finalized_head, pc>>
    BY DEF L1Step, Mine, ReplaceFrom
  <1>4. PICK n \in (l1_finalized + 1)..Len(l1) : l1' \in Extended(SubSeq(l1, 1, n))
    BY L1Extends
  <1> DEFINE c == SubSeq(l1, 1, n)
  <1>5. n \in Nat /\ n >= 1 /\ n <= Len(l1)
    BY <1>1
  <1>6. c \in Seq(L1Block) /\ Len(c) = n /\ \A i \in 1..n : c[i] = l1[i]
    BY <1>1, <1>5, PrefixSubSeq
  <1>7. c # <<>>
    BY <1>5, <1>6
  <1>8. l1' \in Extended(c)
    BY <1>4
  <1> HIDE DEF c
  <1>9. \E r \in L1Block : r.hash = minted + 1 /\ l1' = Append(c, r)
    BY <1>1, <1>6, <1>7, <1>8, ExtendedType
  <1>10. PICK r \in L1Block : r.hash = minted + 1 /\ l1' = Append(c, r)
    BY <1>9
  <1> DEFINE d == Append(c, r)
  <1>11. /\ d \in Seq(L1Block) /\ Len(d) = n + 1
         /\ \A i \in 1..n : d[i] = l1[i]
         /\ d[n + 1] = r
    BY <1>5, <1>6, AppendProperties
  <1> HIDE DEF d
  <1>13. l1' = d
    BY <1>10 DEF d
  <1>14. \E e \in Seq(L1Block), m \in Nat :
            /\ l1' = e
            /\ l1_finalized + 1 <= m /\ m <= Len(l1)
            /\ Len(e) = m + 1
            /\ \A i \in 1..m : e[i] = l1[i]
            /\ e[m + 1].hash = minted + 1
    <2>1. l1_finalized + 1 <= n
      BY <1>1
    <2>2. d[n + 1].hash = minted + 1
      BY <1>10, <1>11
    <2>3. QED
      BY <1>5, <1>11, <1>13, <2>1, <2>2
  <1>12. QED
    BY <1>3, <1>14


\* What Derive does: the block it adds is in an epoch of the cache.
LEMMA DeriveFacts ==
    ASSUME Types, NEW input \in Input, Derive(input)
    PROVE  \/ pc' = "panicked" /\ UNCHANGED <<seq_vars, l2_refs, safe_head>>
           \/ /\ sequence_number' \in Nat /\ epoch_hash' \in Nat /\ pc' = pc
              /\ \E x \in Content :
                   /\ input.epoch \in DOMAIN l1_info
                   /\ x.epoch.number = input.epoch /\ x.epoch.hash = l1_info[input.epoch]
                   /\ x.time = input.timestamp /\ x.txs = input.txs
                   /\ x.seq = NextSeq(x.epoch.hash)
                   /\ x.deposits = IF x.seq = 0 THEN x.epoch.hash ELSE -1
                   /\ sequence_number' = x.seq /\ epoch_hash' = x.epoch.hash
                   /\ safe_head' = Append(safe_head, x)
                   /\ l2_refs' = Put(l2_refs, Number(Append(safe_head, x)), Append(safe_head, x))
  <1>1. CASE pc' = "panicked" /\ UNCHANGED <<seq_vars, l2_refs, safe_head>>
    BY <1>1
  <1>2. CASE \E e \in EpochByNumber(input.epoch) :
               LET seq == NextSeq(e.hash)
               IN  /\ sequence_number' = seq
                   /\ epoch_hash' = e.hash
                   /\ UpdateSafeHead(l2_refs, Append(safe_head,
                          [epoch |-> e, time |-> input.timestamp, seq |-> seq, txs |-> input.txs,
                           deposits |-> IF seq = 0 THEN e.hash ELSE -1]))
                   /\ UNCHANGED pc
    <2>1. PICK e \in EpochByNumber(input.epoch) :
            /\ sequence_number' = NextSeq(e.hash)
            /\ epoch_hash' = e.hash
            /\ UpdateSafeHead(l2_refs, Append(safe_head,
                   [epoch |-> e, time |-> input.timestamp, seq |-> NextSeq(e.hash), txs |-> input.txs,
                    deposits |-> IF NextSeq(e.hash) = 0 THEN e.hash ELSE -1]))
            /\ pc' = pc
      BY <1>2
    <2>2. /\ input.epoch \in DOMAIN l1_info
          /\ e \in Epoch /\ e.number = input.epoch /\ e.hash = l1_info[input.epoch]
      BY <2>1 DEF EpochByNumber, Types, Epoch
    <2>3. NextSeq(e.hash) \in Nat
      BY DEF NextSeq, Types
    <2>4. PICK q \in Nat : q = NextSeq(e.hash)
      BY <2>3
    <2> DEFINE x == [epoch |-> e, time |-> input.timestamp, seq |-> q, txs |-> input.txs,
                     deposits |-> IF q = 0 THEN e.hash ELSE -1]
    <2>5. /\ x \in Content /\ x.epoch = e /\ x.time = input.timestamp /\ x.txs = input.txs
          /\ x.seq = q /\ x.deposits = IF q = 0 THEN e.hash ELSE -1
      BY <2>2 DEF Content, Input, Epoch
    <2>6. UpdateSafeHead(l2_refs, Append(safe_head, x))
      BY <2>1, <2>4
    <2> HIDE DEF x
    <2>7. /\ safe_head' = Append(safe_head, x)
          /\ l2_refs' = Put(l2_refs, Number(Append(safe_head, x)), Append(safe_head, x))
      BY <2>6 DEF UpdateSafeHead
    <2>8. sequence_number' \in Nat /\ epoch_hash' \in Nat
      BY <2>1, <2>2, <2>3 DEF Epoch
    <2>9. /\ x.seq = NextSeq(x.epoch.hash) /\ x.deposits = IF x.seq = 0 THEN x.epoch.hash ELSE -1
          /\ sequence_number' = x.seq /\ epoch_hash' = x.epoch.hash
      BY <2>1, <2>4, <2>5
    <2>10. QED
      BY <2>1, <2>2, <2>5, <2>7, <2>8, <2>9
  <1>3. QED
    BY <1>1, <1>2 DEF Derive

\* The blocks of a span batch.
LEMMA BlockInputsFacts ==
    ASSUME NEW b \in Batch, b.kind # "single"
    PROVE  /\ b \in SpanRecord
           /\ "skip" \notin Kinds => LeavesNoneOut(b)
           /\ Len(b.origin_bits) \in Nat /\ Len(b.origin_bits) >= 1
           /\ DOMAIN b.origin_bits = 1..Len(b.origin_bits)
           /\ b.origin.number \in Nat /\ Count(b.origin_bits) \in Nat
           /\ BlockInputs(b) \in Seq(Input)
           /\ Len(BlockInputs(b)) = Len(b.origin_bits)
           /\ \A i \in 1..Len(b.origin_bits) :
                /\ BlockInputs(b)[i].timestamp = b.timestamp + i - 1
                /\ BlockInputs(b)[i].epoch =
                     b.origin.number - Count(b.origin_bits) + CountUpto(b.origin_bits, i)
                /\ BlockInputs(b)[i].txs \in {"none", "some"}
  <1>1. b \in SpanRecord /\ Len(b.origin_bits) >= 1 /\ Len(b.txs) = Len(b.origin_bits)
        /\ ("skip" \notin Kinds => LeavesNoneOut(b))
    BY DEF Batch, SingleRecord
  <1> DEFINE bits == b.origin_bits
             n == Len(bits)
  <1>2. /\ bits \in Seq(BOOLEAN) /\ n \in Nat /\ DOMAIN bits = 1..n
        /\ b.txs \in Seq({"none", "some"}) /\ b.timestamp \in Nat /\ b.origin.number \in Nat
    BY <1>1 DEF SpanRecord, Epoch
  <1>3. Count(bits) = CountUpto(bits, n) /\ \A k \in 1..n : Count(SubSeq(bits, 1, k)) = CountUpto(bits, k)
    BY <1>2, CountFacts
  <1>4. \A k \in 1..n : CountUpto(bits, k) \in Nat
    BY <1>2, CountNext
  <1>5. CountUpto(bits, n) \in Nat
    BY <1>2, CountNext
  <1>6. \A i \in 1..n : b.txs[i] \in {"none", "some"}
    BY <1>1, <1>2
  <1>7. BlockInputs(b) =
          [i \in 1..n |->
            [timestamp |-> b.timestamp + i - 1,
             epoch |-> b.origin.number - Count(bits) + Count(SubSeq(bits, 1, i)),
             txs |-> b.txs[i]]]
    BY <1>2 DEF BlockInputs
  <1> HIDE DEF bits, n
  <1>8. \A i \in 1..n :
          LET x == [timestamp |-> b.timestamp + i - 1,
                    epoch |-> b.origin.number - Count(bits) + Count(SubSeq(bits, 1, i)),
                    txs |-> b.txs[i]]
          IN  x \in Input
    <2> TAKE i \in 1..n
    <2>1. PICK c \in Int : c = b.origin.number - Count(bits) + Count(SubSeq(bits, 1, i))
      <3>1. Count(bits) \in Int /\ Count(SubSeq(bits, 1, i)) \in Int
        BY <1>3, <1>4, <1>5
      <3>2. QED
        BY <1>2, <3>1
    <2>2. PICK t \in Nat : t = b.timestamp + i - 1
      BY <1>2
    <2>3. PICK x \in Txs : x = b.txs[i]
      BY <1>6 DEF Txs
    <2>4. [timestamp |-> t, epoch |-> c, txs |-> x] \in Input
      BY DEF Input
    <2>5. QED
      BY <2>1, <2>2, <2>3, <2>4
  <1>9. BlockInputs(b) \in Seq(Input) /\ Len(BlockInputs(b)) = n
    BY <1>2, <1>7, <1>8
  <1>10. \A i \in 1..n :
           /\ BlockInputs(b)[i].timestamp = b.timestamp + i - 1
           /\ BlockInputs(b)[i].epoch = b.origin.number - Count(bits) + CountUpto(bits, i)
           /\ BlockInputs(b)[i].txs \in {"none", "some"}
    BY <1>3, <1>6, <1>7
  <1>11. QED
    BY <1>1, <1>2, <1>3, <1>5, <1>9, <1>10 DEF bits, n

\* What is left of the inputs of a batch.
LEMMA InputsOfType ==
    ASSUME NEW b \in Batch
    PROVE  InputsOf(b) \in Seq(Input)
  <1> DEFINE s == IF b.kind = "single"
                  THEN <<[timestamp |-> b.timestamp, epoch |-> b.epoch.number, txs |-> b.txs]>>
                  ELSE BlockInputs(b)
  <1>1. s \in Seq(Input)
    <2>1. CASE b.kind = "single"
      <3>1. b \in SingleRecord
        BY <2>1 DEF Batch, SpanRecord
      <3>2. [timestamp |-> b.timestamp, epoch |-> b.epoch.number, txs |-> b.txs] \in Input
        BY <3>1 DEF SingleRecord, Epoch, Input
      <3>3. QED
        BY <2>1, <3>2
    <2>2. CASE b.kind # "single"
      BY <2>2, BlockInputsFacts
    <2>3. QED
      BY <2>1, <2>2
  <1>2. InputsOf(b) = FilterInputs(s)
    BY DEF InputsOf
  <1> HIDE DEF s
  <1>3. QED
    BY <1>1, <1>2, KeepFacts DEF FilterInputs


\* An entry with a batch that waits, or that is in the next transaction.
OnOffer(x) ==
    \/ \E t \in DOMAIN batches : x = batches[t]
    \/ /\ txs # <<>> /\ Head(txs).tx.type = "channel"
       /\ \E i \in DOMAIN Head(txs).tx.batches : x.batch = Head(txs).tx.batches[i]

\* The batches when a transaction has been read.
LEMMA InsertedType ==
    ASSUME Types
    PROVE  \A t \in DOMAIN Inserted :
             t \in Nat /\ Inserted[t] \in Entry /\ OnOffer(Inserted[t])
  <1>1. CASE txs = <<>> \/ Head(txs).tx.type # "channel"
    <2>1. Inserted = batches
      BY <1>1 DEF Inserted
    <2>2. QED
      BY <2>1 DEF Types, OnOffer
  <1>2. CASE ~(txs = <<>> \/ Head(txs).tx.type # "channel")
    <2> DEFINE q == Head(txs)
               new == q.tx.batches
    <2>1. q \in Queued
      BY <1>2 DEF Types
    <2>2. new \in Seq(Batch) /\ q.inclusion \in Nat
      BY <1>2, <2>1 DEF Queued, Tx
    <2>3. \A i \in DOMAIN new : new[i] \in Batch /\ new[i].timestamp \in Nat
      BY <2>2 DEF Batch, SingleRecord, SpanRecord
    <2> DEFINE Newest(t, i) == /\ new[i].timestamp = t
                               /\ \A j \in DOMAIN new : new[j].timestamp = t => j <= i
    <2>4. ASSUME NEW t, \E i \in DOMAIN new : new[i].timestamp = t
          PROVE  \E i \in DOMAIN new : Newest(t, i)
      <3> DEFINE T == {i \in DOMAIN new : new[i].timestamp = t}
      <3>1. Len(new) \in Nat /\ DOMAIN new = 1..Len(new)
        BY <2>2
      <3>2. T \subseteq 0..Len(new) /\ T # {}
        BY <2>4, <3>1
      <3>3. \E x \in T : \A y \in T : y <= x
        BY <3>1, <3>2, GreatestNumber
      <3>4. QED
        BY <3>3
    <2>5. Inserted =
            [t \in DOMAIN batches \cup {new[i].timestamp : i \in DOMAIN new} |->
                IF \E i \in DOMAIN new : new[i].timestamp = t
                THEN LET i == CHOOSE i \in DOMAIN new : Newest(t, i)
                     IN  [batch |-> new[i], inclusion |-> q.inclusion]
                ELSE batches[t]]
      BY <1>2 DEF Inserted
    <2> HIDE DEF q, new, Newest
    <2>a. \A x : (\E i \in DOMAIN new : x.batch = new[i]) => OnOffer(x)
      BY <1>2 DEF q, new, OnOffer
    <2>6. ASSUME NEW t \in DOMAIN Inserted
          PROVE  t \in Nat /\ Inserted[t] \in Entry /\ OnOffer(Inserted[t])
      <3>1. t \in DOMAIN batches \cup {new[i].timestamp : i \in DOMAIN new}
        BY <2>5, <2>6
      <3>2. t \in Nat
        BY <2>3, <3>1 DEF Types
      <3>3. CASE \E i \in DOMAIN new : new[i].timestamp = t
        <4> DEFINE i == CHOOSE i \in DOMAIN new : Newest(t, i)
        <4>1. i \in DOMAIN new
          BY <2>4, <3>3
        <4>2. Inserted[t] = [batch |-> new[i], inclusion |-> q.inclusion]
          BY <2>5, <3>1, <3>3
        <4> HIDE DEF i
        <4>3. Inserted[t].batch = new[i]
          BY <4>2
        <4>4. QED
          BY <2>2, <2>3, <2>a, <3>2, <4>1, <4>2, <4>3 DEF Entry
      <3>4. CASE ~\E i \in DOMAIN new : new[i].timestamp = t
        <4>1. Inserted[t] = batches[t] /\ t \in DOMAIN batches
          BY <2>5, <3>1, <3>4
        <4>2. QED
          BY <3>2, <4>1 DEF Types, OnOffer
      <3>5. QED
        BY <3>3, <3>4
    <2>7. QED
      BY <2>6
  <1>3. QED
    BY <1>1, <1>2

\* The batches when the invalid ones in front are gone, and the first of them.
LEMMA UndroppedType ==
    ASSUME Types, NEW bs, bs = Undropped(Inserted)
    PROVE  /\ \A t \in DOMAIN bs : t \in Nat /\ bs[t] \in Entry /\ OnOffer(bs[t])
           /\ DOMAIN bs # {} => Min(DOMAIN bs) \in DOMAIN bs
  <1> DEFINE keep == {t \in DOMAIN Inserted :
                        \E u \in {v \in DOMAIN Inserted : BatchStatus(Inserted[v]) # "Drop"} : u <= t}
  <1>1. bs = [t \in keep |-> Inserted[t]]
    BY DEF Undropped, Restrict
  <1>2. keep \subseteq DOMAIN Inserted
    OBVIOUS
  <1> HIDE DEF keep
  <1>3. \A t \in DOMAIN bs : t \in Nat /\ bs[t] \in Entry /\ OnOffer(bs[t])
    BY <1>1, <1>2, InsertedType
  <1>4. ASSUME DOMAIN bs # {} PROVE Min(DOMAIN bs) \in DOMAIN bs
    <2>1. \E x \in DOMAIN bs : \A y \in DOMAIN bs : x <= y
      BY <1>3, <1>4, LeastNumber
    <2>2. QED
      BY <2>1 DEF Min
  <1>5. QED
    BY <1>3, <1>4

\* What NextBatch does: it takes the first batch if that is accepted, or makes an empty
\* block, or none.
LEMMA NextBatchFacts ==
    ASSUME Types, NextBatch
    PROVE  /\ UNCHANGED <<l1_vars, watcher_vars, l1_info, current_epoch_num, finalized_head>>
           /\ txs' \in Seq(Queued)
           /\ \A t \in DOMAIN batches' :
                t \in Nat /\ batches'[t] \in Entry /\ OnOffer(batches'[t])
           /\ pending_inputs = <<>>
           /\ \/ /\ UNCHANGED <<pending_inputs, seq_vars, l2_refs, safe_head>>
                 /\ pc' = "idle" \/ \E x \in Entry : OnOffer(x) /\ BatchStatus(x) = "Panic"
              \/ \E x \in Entry :
                   /\ OnOffer(x)
                   /\ BatchStatus(x) = "Accept"
                   /\ InputsOf(x.batch) # <<>>
                   /\ Derive(Head(InputsOf(x.batch)))
                   /\ pending_inputs' = Tail(InputsOf(x.batch))
              \/ /\ UNCHANGED pending_inputs
                 /\ \E e \in EmptyEpoch :
                      Derive([timestamp |-> next_timestamp, epoch |-> e.number, txs |-> "none"])
  <1>1. UNCHANGED <<l1_vars, watcher_vars, l1_info, current_epoch_num, finalized_head>>
        /\ pending_inputs = <<>>
    BY DEF NextBatch
  <1>2. txs' \in Seq(Queued)
    <2>1. txs \in Seq(Queued) /\ txs' = IF txs = <<>> THEN <<>> ELSE Tail(txs)
      BY DEF NextBatch, Types
    <2>2. CASE txs = <<>>
      BY <2>1, <2>2
    <2>3. CASE txs # <<>>
      BY <2>1, <2>3
    <2>4. QED
      BY <2>2, <2>3
  <1>3. \E bs \in {Undropped(Inserted)} : \E status \in {FirstStatus(bs)} :
           \/ status = "Accept" /\ TakeBatch(bs)
           \/ /\ status = "Panic"
              /\ batches' = bs
              /\ UNCHANGED <<pending_inputs, seq_vars, l2_refs, safe_head>>
           \/ /\ status \notin {"Accept", "Panic"}
              /\ batches' = bs
              /\ EmptyBlock
              /\ UNCHANGED pending_inputs
    BY Zenon DEF NextBatch
  <1>4. PICK bs : bs = Undropped(Inserted) /\
           \/ FirstStatus(bs) = "Accept" /\ TakeBatch(bs)
           \/ /\ FirstStatus(bs) = "Panic"
              /\ batches' = bs
              /\ UNCHANGED <<pending_inputs, seq_vars, l2_refs, safe_head>>
           \/ /\ batches' = bs
              /\ EmptyBlock
              /\ UNCHANGED pending_inputs
    BY <1>3, Zenon
  <1>5. /\ \A t \in DOMAIN bs : t \in Nat /\ bs[t] \in Entry /\ OnOffer(bs[t])
        /\ DOMAIN bs # {} => Min(DOMAIN bs) \in DOMAIN bs
    BY <1>4, UndroppedType
  <1>6. CASE FirstStatus(bs) = "Accept" /\ TakeBatch(bs)
    <2> DEFINE m == Min(DOMAIN bs)
               x == bs[m]
    <2>1. DOMAIN bs # {} /\ BatchStatus(x) = "Accept"
      BY <1>6 DEF FirstStatus
    <2>2. m \in DOMAIN bs /\ x \in Entry /\ OnOffer(x)
      BY <1>5, <2>1
    <2>3. batches' = [t \in DOMAIN bs \ {m} |-> bs[t]]
      BY <1>6 DEF TakeBatch, Restrict
    <2>4. \A t \in DOMAIN batches' : t \in Nat /\ batches'[t] \in Entry /\ OnOffer(batches'[t])
      BY <1>5, <2>3
    <2>5. \/ pc' = "idle" /\ UNCHANGED <<pending_inputs, seq_vars, l2_refs, safe_head>>
          \/ /\ InputsOf(x.batch) # <<>>
             /\ Derive(Head(InputsOf(x.batch)))
             /\ pending_inputs' = Tail(InputsOf(x.batch))
      BY <1>6, Zenon DEF TakeBatch
    <2> HIDE DEF x, m
    <2>6. QED
      BY <1>1, <1>2, <2>1, <2>2, <2>4, <2>5
  <1>7. CASE /\ FirstStatus(bs) = "Panic" /\ batches' = bs
             /\ UNCHANGED <<pending_inputs, seq_vars, l2_refs, safe_head>>
    <2> DEFINE x == bs[Min(DOMAIN bs)]
    <2>1. DOMAIN bs # {} /\ BatchStatus(x) = "Panic"
      BY <1>7 DEF FirstStatus
    <2>2. x \in Entry /\ OnOffer(x)
      BY <1>5, <2>1
    <2> HIDE DEF x
    <2>3. QED
      BY <1>1, <1>2, <1>5, <1>7, <2>1, <2>2
  <1>8. CASE batches' = bs /\ EmptyBlock /\ UNCHANGED pending_inputs
    <2>1. \/ pc' = "idle" /\ UNCHANGED <<seq_vars, l2_refs, safe_head>>
          \/ \E e \in EmptyEpoch :
               Derive([timestamp |-> next_timestamp, epoch |-> e.number, txs |-> "none"])
      BY <1>8, Zenon DEF EmptyBlock
    <2>2. QED
      BY <1>1, <1>2, <1>5, <1>8, <2>1
  <1>9. QED
    BY <1>4, <1>6, <1>7, <1>8


\* The epoch of an empty block.
LEMMA EmptyEpochFacts ==
    ASSUME Types, NEW e \in EmptyEpoch
    PROVE  /\ e \in Epoch
           /\ \/ e = safe_epoch
              \/ e.number = safe_epoch.number + 1 /\ next_timestamp >= Timestamp(e.number)
           /\ [timestamp |-> next_timestamp, epoch |-> e.number, txs |-> "none"] \in Input
  <1>1. safe_epoch \in Epoch /\ next_timestamp \in Nat
    BY ChainFacts DEF Types, safe_epoch, next_timestamp
  <1>2. \A x \in next_epoch : x \in Epoch /\ x.number = safe_epoch.number + 1
    BY <1>1 DEF next_epoch, EpochByNumber, Types, Epoch
  <1>3. /\ e \in {safe_epoch} \cup next_epoch
        /\ e # safe_epoch => next_timestamp >= Timestamp(e.number)
    BY DEF EmptyEpoch
  <1>4. e \in Epoch
    BY <1>1, <1>2, <1>3
  <1>5. [timestamp |-> next_timestamp, epoch |-> e.number, txs |-> "none"] \in Input
    BY <1>1, <1>4 DEF Epoch, Input, Txs
  <1>6. QED
    BY <1>2, <1>3, <1>4, <1>5

\* What a step of the pipeline may change.
LEMMA PipelineFacts ==
    ASSUME Types, PipelineStep
    PROVE  /\ UNCHANGED <<l1_vars, watcher_vars, l1_info, current_epoch_num, finalized_head>>
           /\ txs' \in Seq(Queued)
           /\ \A t \in DOMAIN batches' : t \in Nat /\ batches'[t] \in Entry
           /\ pending_inputs' \in Seq(Input)
           /\ \/ UNCHANGED <<seq_vars, l2_refs, safe_head>>
              \/ \E input \in Input : Derive(input)
  <1>1. CASE NextPending
    <2>1. pending_inputs \in Seq(Input) /\ pending_inputs # <<>>
          /\ Derive(Head(pending_inputs)) /\ pending_inputs' = Tail(pending_inputs)
      BY <1>1 DEF NextPending, Types
    <2>2. pending_inputs' \in Seq(Input) /\ Head(pending_inputs) \in Input
      BY <2>1
    <2>3. UNCHANGED <<l1_vars, watcher_vars, txs, batches, l1_info, current_epoch_num, finalized_head>>
      BY <1>1 DEF NextPending
    <2>4. QED
      BY <2>1, <2>2, <2>3 DEF Types
  <1>2. CASE NextBatch
    <2>1. /\ UNCHANGED <<l1_vars, watcher_vars, l1_info, current_epoch_num, finalized_head>>
          /\ txs' \in Seq(Queued)
          /\ \A t \in DOMAIN batches' : t \in Nat /\ batches'[t] \in Entry
          /\ \/ UNCHANGED <<pending_inputs, seq_vars, l2_refs, safe_head>>
             \/ \E x \in Entry :
                   /\ InputsOf(x.batch) # <<>>
                   /\ Derive(Head(InputsOf(x.batch)))
                   /\ pending_inputs' = Tail(InputsOf(x.batch))
             \/ /\ UNCHANGED pending_inputs
                /\ \E e \in EmptyEpoch :
                      Derive([timestamp |-> next_timestamp, epoch |-> e.number, txs |-> "none"])
      BY <1>2, NextBatchFacts
    <2>2. CASE UNCHANGED <<pending_inputs, seq_vars, l2_refs, safe_head>>
      BY <2>1, <2>2 DEF Types
    <2>3. ASSUME NEW x \in Entry, InputsOf(x.batch) # <<>>, Derive(Head(InputsOf(x.batch))),
                 pending_inputs' = Tail(InputsOf(x.batch))
          PROVE  pending_inputs' \in Seq(Input) /\ \E input \in Input : Derive(input)
      <3>1. InputsOf(x.batch) \in Seq(Input)
        BY InputsOfType DEF Entry
      <3>2. Tail(InputsOf(x.batch)) \in Seq(Input) /\ Head(InputsOf(x.batch)) \in Input
        BY <2>3, <3>1
      <3>3. QED
        BY <2>3, <3>2
    <2>4. ASSUME UNCHANGED pending_inputs, NEW e \in EmptyEpoch,
                 Derive([timestamp |-> next_timestamp, epoch |-> e.number, txs |-> "none"])
          PROVE  pending_inputs' \in Seq(Input) /\ \E input \in Input : Derive(input)
      BY <2>4, EmptyEpochFacts DEF Types
    <2>5. QED
      BY <2>1, <2>2, <2>3, <2>4
  <1>3. CASE DecodeFails
    <2>1. txs \in Seq(Queued) /\ txs # <<>> /\ txs' = Tail(txs)
          /\ UNCHANGED <<l1_vars, watcher_vars, batches, pending_inputs, seq_vars, state_vars,
                         finalized_head>>
      BY <1>3 DEF DecodeFails, Types
    <2>2. txs' \in Seq(Queued)
      BY <2>1
    <2>3. QED
      BY <2>1, <2>2 DEF Types, state_vars
  <1>4. QED
    BY <1>1, <1>2, <1>3 DEF PipelineStep

\* Cached blocks fewer.
LEMMA PrunedFacts ==
    ASSUME NEW f, NEW u
    PROVE  /\ \A n : n \in DOMAIN Pruned(f, u) <=> n \in DOMAIN f /\ n >= u
           /\ \A n \in DOMAIN Pruned(f, u) : Pruned(f, u)[n] = f[n]
  BY DEF Pruned, Restrict

\* The finalized head is an ancestor of the safe head, in epochs that are final on L1.
FinalizedBelow ==
    /\ Len(finalized_head) <= Len(safe_head)
    /\ \A i \in 1..Len(finalized_head) : finalized_head[i] = safe_head[i]
    /\ \A i \in 1..Len(finalized_head) : finalized_head[i].epoch.number <= l1_finalized

\* How far L1 has been read: since the watcher started again, from below what is final.
Places ==
    /\ last_hash = -1 => next_block <= l1_finalized + 1 /\ current_epoch_num = 0
    /\ last_hash # -1 => next_block >= 1 /\ current_epoch_num = next_block - 1
    /\ \A n \in DOMAIN l1_info : n < next_block
    /\ \A i \in 1..Len(safe_head) :
         safe_head[i].epoch.number < next_block \/ safe_head[i].epoch.number <= l1_finalized
    /\ FinalizedBelow

\* Types are kept.
LEMMA TypesStep == Types /\ Places /\ [Next]_vars => Types'
  <1> SUFFICES ASSUME Types, Places, [Next]_vars PROVE Types'
    OBVIOUS
  <1>1. CASE L1Step
    <2>1. /\ minted' = minted + 1
          /\ UNCHANGED <<l1_finalized, watcher_vars, batch_vars, seq_vars, state_vars,
                         finalized_head, pc>>
      BY <1>1, L1StepFacts
    <2>2. PICK d \in Seq(L1Block), n \in Nat :
            /\ l1' = d
            /\ l1_finalized + 1 <= n /\ n <= Len(l1)
            /\ Len(d) = n + 1
            /\ \A i \in 1..n : d[i] = l1[i]
            /\ d[n + 1].hash = minted + 1
      BY <1>1, L1StepFacts
    <2>3. l1 \in Seq(L1Block) /\ Len(l1) \in Nat /\ minted \in Nat /\ l1_finalized \in 0..(Len(l1) - 1)
          /\ \A i \in 1..Len(l1) : l1[i].hash <= minted /\ l1[i].hash \in Nat
      <3>1. l1 \in Seq(L1Block) /\ Len(l1) \in Nat /\ DOMAIN l1 = 1..Len(l1)
        BY DEF Types
      <3>2. \A i \in 1..Len(l1) : l1[i] \in L1Block
        BY <3>1
      <3>3. QED
        BY <3>1, <3>2 DEF Types, L1Block
    <2>4. ASSUME NEW i \in DOMAIN d PROVE d[i].hash <= minted + 1
      <3>1. i \in 1..(n + 1)
        BY <2>2
      <3>2. CASE i \in 1..n
        <4>1. i \in 1..Len(l1) /\ d[i] = l1[i]
          BY <2>2, <2>3, <3>2
        <4>2. QED
          BY <2>1, <2>3, <4>1
      <3>3. CASE i = n + 1
        BY <2>1, <2>2, <2>3, <3>3
      <3>4. QED
        BY <2>3, <3>1, <3>2, <3>3
    <2>5. l1_finalized \in 0..(Len(d) - 1)
      BY <2>2, <2>3
    <2>6. last_hash \in -1..(minted + 1) /\ minted + 1 \in Nat
      BY <2>3 DEF Types
    <2>7. QED
      BY <2>1, <2>2, <2>3, <2>4, <2>5, <2>6 DEF Types, watcher_vars, batch_vars, seq_vars, state_vars
  <1>2. CASE PipelineStep
    <2>1. /\ UNCHANGED <<l1_vars, watcher_vars, l1_info, current_epoch_num, finalized_head>>
          /\ txs' \in Seq(Queued)
          /\ \A t \in DOMAIN batches' : t \in Nat /\ batches'[t] \in Entry
          /\ pending_inputs' \in Seq(Input)
          /\ \/ UNCHANGED <<seq_vars, l2_refs, safe_head>>
             \/ \E input \in Input : Derive(input)
      BY <1>2, PipelineFacts
    <2>2. CASE UNCHANGED <<seq_vars, l2_refs, safe_head>>
      BY <2>1, <2>2 DEF Types, l1_vars, watcher_vars, seq_vars
    <2>3. ASSUME NEW x \in Content, sequence_number' \in Nat, epoch_hash' \in Nat,
                 safe_head' = Append(safe_head, x),
                 l2_refs' = Put(l2_refs, Number(Append(safe_head, x)), Append(safe_head, x))
          PROVE  Types'
      <3>1. safe_head \in Chain
        BY DEF Types
      <3>2. Append(safe_head, x) \in Chain /\ Number(Append(safe_head, x)) \in Nat
        BY <3>1, GrownChain, ChainFacts
      <3>3. \A n \in DOMAIN l2_refs' : n \in Nat /\ l2_refs'[n] \in Chain
        <4> DEFINE a == Append(safe_head, x)
                   k == Number(a)
        <4>1. a \in Chain /\ k \in Nat /\ l2_refs' = Put(l2_refs, k, a)
          BY <2>3, <3>2
        <4> HIDE DEF a, k
        <4>2. /\ DOMAIN l2_refs' = DOMAIN l2_refs \cup {k} /\ l2_refs'[k] = a
              /\ \A m \in DOMAIN l2_refs : m # k => l2_refs'[m] = l2_refs[m]
          BY <4>1 DEF Put
        <4>3. QED
          BY <4>1, <4>2 DEF Types
      <3>4. QED
        BY <2>1, <2>3, <3>2, <3>3 DEF Types, l1_vars, watcher_vars
    <2>4. QED
      BY <2>1, <2>2, <2>3, DeriveFacts
  <1>3. CASE NewBlock
    <2>1. /\ UNCHANGED <<l1_vars, batches, pending_inputs, seq_vars, finalized_head>>
          /\ next_block < Len(l1)
          /\ txs' = Enqueued(l1[next_block + 1])
          /\ UpdateL1Info(next_block, l1[next_block + 1].hash)
          /\ safe_head' = safe_head
          /\ l2_refs' = Put(Pruned(l2_refs, LookbackStart(safe_head)), Number(safe_head), safe_head)
          /\ last_hash' = l1[next_block + 1].hash
          /\ next_block' = next_block + 1
      BY <1>3 DEF NewBlock, UpdateSafeHead
    <2>2. l1 \in Seq(L1Block) /\ Len(l1) \in Nat /\ next_block \in Nat /\ safe_head \in Chain
          /\ minted \in Nat /\ txs \in Seq(Queued)
      BY DEF Types
    <2>3. next_block + 1 \in DOMAIN l1
      BY <2>1, <2>2
    <2>4. PICK block \in L1Block : block = l1[next_block + 1]
      BY <2>2, <2>3, ElementOfSeq
    <2>5. block.hash \in Nat /\ block.hash <= minted /\ block.txs \in Seq(Tx)
      BY <2>3, <2>4 DEF Types, L1Block
    <2>6. txs' \in Seq(Queued)
      <3> DEFINE more == [i \in DOMAIN block.txs |-> [tx |-> block.txs[i], inclusion |-> next_block]]
      <3>1. more \in Seq(Queued)
        <4>1. DOMAIN block.txs = 1..Len(block.txs) /\ Len(block.txs) \in Nat
              /\ \A i \in 1..Len(block.txs) : block.txs[i] \in Tx
          BY <2>5
        <4>2. \A i \in 1..Len(block.txs) : [tx |-> block.txs[i], inclusion |-> next_block] \in Queued
          BY <2>2, <4>1 DEF Queued
        <4>3. QED
          BY <4>1, <4>2
      <3>2. txs' = txs \o more
        BY <2>1, <2>4 DEF Enqueued
      <3> HIDE DEF more
      <3>3. QED
        BY <2>2, <3>1, <3>2, ConcatProperties
    <2>7. current_epoch_num' = next_block /\ \A n \in DOMAIN l1_info' : n \in Nat /\ l1_info'[n] \in Nat
      <3> DEFINE from == EpochOf(safe_head).number - SeqWindow
                 u == IF from > 0 THEN from ELSE 0
                 f == Put(l1_info, next_block, block.hash)
      <3>1. l1_info' = Pruned(f, u) /\ current_epoch_num' = next_block
        BY <2>1, <2>4 DEF UpdateL1Info
      <3>2. \A n \in DOMAIN f : n \in Nat /\ f[n] \in Nat
        BY <2>2, <2>5 DEF Put, Types
      <3> HIDE DEF f, u
      <3>3. \A n \in DOMAIN l1_info' : n \in DOMAIN f /\ l1_info'[n] = f[n]
        BY <3>1 DEF Pruned, Restrict
      <3>4. QED
        BY <3>1, <3>2, <3>3
    <2>8. \A n \in DOMAIN l2_refs' : n \in Nat /\ l2_refs'[n] \in Chain
      <3> DEFINE f == Pruned(l2_refs, LookbackStart(safe_head))
                 k == Number(safe_head)
      <3>1. k \in Nat
        BY <2>2, ChainFacts
      <3>2. \A n \in DOMAIN f : n \in DOMAIN l2_refs /\ f[n] = l2_refs[n]
        BY DEF Pruned, Restrict
      <3>3. l2_refs' = Put(f, k, safe_head)
        BY <2>1
      <3> HIDE DEF f, k
      <3>4. /\ DOMAIN l2_refs' = DOMAIN f \cup {k} /\ l2_refs'[k] = safe_head
            /\ \A m \in DOMAIN f : m # k => l2_refs'[m] = f[m]
        BY <3>3 DEF Put
      <3>5. QED
        BY <2>2, <3>1, <3>2, <3>4 DEF Types
    <2>9. last_hash' \in -1..minted'
      BY <2>1, <2>2, <2>4, <2>5 DEF l1_vars
    <2>10. QED
      BY <2>1, <2>2, <2>6, <2>7, <2>8, <2>9 DEF Types, l1_vars, seq_vars
  <1>4. CASE Reorg
    <2>1. /\ UNCHANGED <<l1_vars, finalized_head>>
          /\ current_epoch_num' = 0 /\ l1_info' = <<>>
          /\ safe_head' = finalized_head
          /\ l2_refs' = Put(l2_refs, Number(finalized_head), finalized_head)
          /\ txs' = <<>> /\ batches' = <<>> /\ pending_inputs' = <<>>
          /\ sequence_number' = 0 /\ epoch_hash' = EpochOf(safe_head').hash
          /\ next_block' = L1StartBlock(EpochOf(finalized_head).number)
          /\ last_hash' = -1
      BY <1>4 DEF Reorg, PurgeState, UpdateSafeHead, PurgeAttributes, PurgeBatches
    <2>2. finalized_head \in Chain /\ minted \in Nat
      BY DEF Types
    <2>3. EpochOf(finalized_head) \in Epoch /\ Number(finalized_head) \in Nat
      BY <2>2, ChainFacts
    <2>4. next_block' \in Nat
      BY <2>1, <2>3, DerivationAssumption DEF L1StartBlock, Epoch
    <2>5. epoch_hash' \in Nat
      BY <2>1, <2>3 DEF Epoch
    <2>6. \A n \in DOMAIN l2_refs' : n \in Nat /\ l2_refs'[n] \in Chain
      <3> DEFINE k == Number(finalized_head)
      <3>1. k \in Nat /\ l2_refs' = Put(l2_refs, k, finalized_head)
        BY <2>1, <2>3
      <3> HIDE DEF k
      <3>2. /\ DOMAIN l2_refs' = DOMAIN l2_refs \cup {k} /\ l2_refs'[k] = finalized_head
            /\ \A m \in DOMAIN l2_refs : m # k => l2_refs'[m] = l2_refs[m]
        BY <3>1 DEF Put
      <3>3. QED
        BY <2>2, <3>1, <3>2 DEF Types
    <2>7. /\ txs' \in Seq(Queued) /\ pending_inputs' \in Seq(Input)
          /\ \A t \in DOMAIN batches' : t \in Nat /\ batches'[t] \in Entry
          /\ \A n \in DOMAIN l1_info' : n \in Nat /\ l1_info'[n] \in Nat
      BY <2>1
    <2>8. last_hash' \in -1..minted'
      BY <2>1, <2>2 DEF l1_vars
    <2>9. QED
      BY <2>1, <2>2, <2>4, <2>5, <2>6, <2>7, <2>8 DEF Types, l1_vars
  <1>5. CASE NoUpdate
    BY <1>5 DEF NoUpdate, Types, l1_vars, watcher_vars, batch_vars, seq_vars, state_vars
  <1>6. CASE Finalize
    <2>1. /\ OnChain
          /\ l1_finalized' = IF current_epoch_num > l1_finalized THEN current_epoch_num ELSE l1_finalized
          /\ UNCHANGED <<l1, minted, reorgs, watcher_vars, batch_vars, seq_vars, state_vars, pc>>
      BY <1>6 DEF Finalize
    <2>2. PICK n \in 1..Len(safe_head) : finalized_head' = SubSeq(safe_head, 1, n)
      BY <1>6 DEF Finalize, EpochStarts
    <2>3. safe_head \in Chain /\ Len(safe_head) \in Nat
      BY ChainFacts DEF Types
    <2>4. finalized_head' \in Chain
      BY <2>2, <2>3, ChainPart
    <2>5. l1_finalized' \in 0..(Len(l1') - 1)
      <3>1. l1_finalized \in 0..(Len(l1) - 1) /\ current_epoch_num \in Nat /\ Len(l1) \in Nat
            /\ next_block \in Nat
        BY DEF Types
      <3>2. current_epoch_num > l1_finalized => current_epoch_num <= Len(l1) - 1
        BY <2>1, <3>1 DEF OnChain, Places
      <3>3. QED
        BY <2>1, <3>1, <3>2
    <2>6. QED
      BY <2>1, <2>4, <2>5 DEF Types, watcher_vars, batch_vars, seq_vars, state_vars
  <1>7. CASE UNCHANGED vars
    BY <1>7 DEF vars, Types, l1_vars, watcher_vars, batch_vars, seq_vars, state_vars
  <1>8. QED
    BY <1>1, <1>2, <1>3, <1>4, <1>5, <1>6, <1>7 DEF Next


\* The epochs of a chain are numbers.
LEMMA ChainEpochs ==
    ASSUME NEW c \in Chain, NEW i \in 1..Len(c)
    PROVE  c[i] \in Content /\ c[i].epoch \in Epoch /\ c[i].epoch.number \in Nat
  <1>1. c[i] \in Content
    BY DEF Chain
  <1>2. QED
    BY <1>1 DEF Content, Epoch

\* Places are kept.
LEMMA PlacesStep == Types /\ Places /\ [Next]_vars => Places'
  <1> SUFFICES ASSUME Types, Places, [Next]_vars PROVE Places'
    OBVIOUS
  <1>0. /\ safe_head \in Chain /\ Len(safe_head) \in Nat
        /\ finalized_head \in Chain /\ Len(finalized_head) \in Nat
        /\ next_block \in Nat /\ l1_finalized \in Nat /\ current_epoch_num \in Nat
        /\ \A n \in DOMAIN l1_info : n \in Nat
    BY ChainFacts DEF Types
  <1>1. CASE L1Step
    <2>1. UNCHANGED <<l1_finalized, watcher_vars, state_vars, finalized_head>>
      BY <1>1, L1StepFacts
    <2>2. QED
      BY <2>1 DEF Places, FinalizedBelow, watcher_vars, state_vars
  <1>2. CASE PipelineStep
    <2>1. /\ UNCHANGED <<l1_vars, watcher_vars, l1_info, current_epoch_num, finalized_head>>
          /\ \/ UNCHANGED <<seq_vars, l2_refs, safe_head>>
             \/ \E input \in Input : Derive(input)
      BY <1>2, PipelineFacts
    <2>2. CASE UNCHANGED safe_head
      BY <2>1, <2>2 DEF Places, FinalizedBelow, watcher_vars, l1_vars
    <2>3. ASSUME NEW x \in Content, x.epoch.number \in DOMAIN l1_info,
                 safe_head' = Append(safe_head, x)
          PROVE  Places'
      <3>1. /\ Len(safe_head') = Len(safe_head) + 1
            /\ safe_head'[Len(safe_head) + 1] = x
            /\ \A i \in 1..Len(safe_head) : safe_head'[i] = safe_head[i]
        BY <1>0, <2>3, GrownChain
      <3>2. FinalizedBelow'
        BY <1>0, <2>1, <3>1 DEF Places, FinalizedBelow, l1_vars
      <3>3. ASSUME NEW i \in 1..Len(safe_head')
            PROVE  safe_head'[i].epoch.number < next_block \/ safe_head'[i].epoch.number <= l1_finalized
        <4>1. CASE i \in 1..Len(safe_head)
          BY <3>1, <4>1 DEF Places
        <4>2. CASE i = Len(safe_head) + 1
          BY <2>3, <3>1, <4>2 DEF Places
        <4>3. QED
          BY <1>0, <3>1, <4>1, <4>2
      <3>4. QED
        BY <2>1, <3>2, <3>3 DEF Places, l1_vars, watcher_vars
    <2>4. QED
      BY <2>1, <2>2, <2>3, DeriveFacts
  <1>3. CASE NewBlock
    <2>1. /\ UNCHANGED <<l1_vars, finalized_head>>
          /\ next_block < Len(l1)
          /\ UpdateL1Info(next_block, l1[next_block + 1].hash)
          /\ safe_head' = safe_head
          /\ last_hash' = l1[next_block + 1].hash
          /\ next_block' = next_block + 1
      BY <1>3 DEF NewBlock, UpdateSafeHead
    <2>2. last_hash' # -1
      <3>1. l1 \in Seq(L1Block) /\ next_block + 1 \in DOMAIN l1
        BY <1>0, <2>1 DEF Types
      <3>2. l1[next_block + 1] \in L1Block
        BY <3>1, ElementOfSeq
      <3>3. QED
        BY <2>1, <3>2 DEF L1Block
    <2>3. current_epoch_num' = next_block /\ \A n \in DOMAIN l1_info' : n < next_block + 1
      <3> DEFINE f == Put(l1_info, next_block, l1[next_block + 1].hash)
      <3>1. /\ current_epoch_num' = next_block
            /\ \A n \in DOMAIN l1_info' : n \in DOMAIN f
        BY <2>1 DEF UpdateL1Info, Pruned, Restrict
      <3>2. \A n \in DOMAIN f : n \in DOMAIN l1_info \/ n = next_block
        BY DEF Put
      <3> HIDE DEF f
      <3>3. QED
        BY <1>0, <3>1, <3>2 DEF Places
    <2>4. \A i \in 1..Len(safe_head) : safe_head[i].epoch.number < next_block + 1
                                       \/ safe_head[i].epoch.number <= l1_finalized
      BY <1>0, ChainEpochs DEF Places
    <2>5. QED
      BY <1>0, <2>1, <2>2, <2>3, <2>4 DEF Places, FinalizedBelow, l1_vars
  <1>4. CASE Reorg
    <2>1. /\ UNCHANGED <<l1_vars, finalized_head>>
          /\ current_epoch_num' = 0 /\ l1_info' = <<>>
          /\ safe_head' = finalized_head
          /\ next_block' = L1StartBlock(EpochOf(finalized_head).number)
          /\ last_hash' = -1
      BY <1>4 DEF Reorg, PurgeState, UpdateSafeHead
    <2>2. EpochOf(finalized_head).number <= l1_finalized /\ EpochOf(finalized_head).number \in Nat
      <3>1. EpochOf(finalized_head) = IF Len(finalized_head) = 0 THEN [number |-> 0, hash |-> 0]
                                      ELSE finalized_head[Len(finalized_head)].epoch
        BY <1>0, EpochBeforeNext
      <3>2. EpochOf(finalized_head) \in Epoch
        BY <1>0, ChainFacts
      <3>3. QED
        BY <1>0, <3>1, <3>2 DEF Places, FinalizedBelow, Epoch
    <2>3. next_block' <= l1_finalized + 1
      BY <1>0, <2>1, <2>2, DerivationAssumption DEF L1StartBlock
    <2>4. FinalizedBelow'
      BY <1>0, <2>1 DEF Places, FinalizedBelow, l1_vars
    <2>5. \A i \in 1..Len(finalized_head) : finalized_head[i].epoch.number <= l1_finalized
      BY DEF Places, FinalizedBelow
    <2>6. QED
      BY <2>1, <2>3, <2>4, <2>5 DEF Places, l1_vars
  <1>5. CASE NoUpdate
    BY <1>5 DEF NoUpdate, Places, FinalizedBelow, l1_vars, watcher_vars, state_vars
  <1>6. CASE Finalize
    <2>1. /\ l1_finalized' = IF current_epoch_num > l1_finalized THEN current_epoch_num ELSE l1_finalized
          /\ UNCHANGED <<watcher_vars, state_vars>>
      BY <1>6 DEF Finalize
    <2>2. PICK n \in Nat : 1 <= n /\ n <= Len(safe_head) /\ finalized_head' = SubSeq(safe_head, 1, n)
      BY <1>0, <1>6 DEF Finalize, EpochStarts
    <2>4. PICK f \in Nat : l1_finalized' = f /\ f >= l1_finalized /\ f >= current_epoch_num
      BY <1>0, <2>1
    <2>5. ASSUME NEW i \in 1..Len(safe_head) PROVE safe_head[i].epoch.number <= f
      <3>1. safe_head[i].epoch.number \in Nat
        BY <1>0, ChainEpochs
      <3>2. safe_head[i].epoch.number < next_block \/ safe_head[i].epoch.number <= l1_finalized
        BY DEF Places
      <3>3. next_block <= l1_finalized + 1 \/ current_epoch_num = next_block - 1
        BY DEF Places
      <3>4. QED
        BY <1>0, <2>4, <3>1, <3>2, <3>3
    <2>6. FinalizedBelow'
      <3> DEFINE part == SubSeq(safe_head, 1, n)
      <3>0. n \in 0..Len(safe_head)
        BY <1>0, <2>2
      <3>a. part \in Chain /\ Len(part) = n /\ \A i \in 1..n : part[i] = safe_head[i]
        BY <1>0, <3>0, ChainPart
      <3>b. finalized_head' = part
        BY <2>2
      <3> HIDE DEF part
      <3>1. PICK c \in Chain : finalized_head' = c /\ Len(c) = n /\ \A i \in 1..n : c[i] = safe_head[i]
        BY <3>a, <3>b
      <3>2. \A i \in 1..n : c[i].epoch.number <= f
        BY <1>0, <2>2, <2>5, <3>1
      <3>3. QED
        BY <1>0, <2>1, <2>2, <2>4, <3>1, <3>2 DEF FinalizedBelow, state_vars
    <2>7. ASSUME last_hash = -1 PROVE next_block <= f + 1
      <3>1. next_block <= l1_finalized + 1
        BY <2>7 DEF Places
      <3>2. QED
        BY <1>0, <2>4, <3>1
    <2>8. QED
      BY <2>1, <2>4, <2>5, <2>6, <2>7 DEF Places, watcher_vars, state_vars
  <1>7. CASE UNCHANGED vars
    BY <1>7 DEF vars, Places, FinalizedBelow, l1_vars, watcher_vars, state_vars
  <1>8. QED
    BY <1>1, <1>2, <1>3, <1>4, <1>5, <1>6, <1>7 DEF Next


-----------------------------------------------------------------------------
(* The L1 chain that was read *)

\* w is the L1 chain the driver has seen, by number: the canonical one as far as it is
\* final, and all of it as long as the last block read is canonical.  The cache and the
\* epochs of the safe chain come from it.
View(w) ==
    /\ \A k \in 0..l1_finalized : w[k] = l1[k + 1].hash
    /\ last_hash # -1 /\ OnChain => \A k \in 0..(next_block - 1) : w[k] = l1[k + 1].hash
    /\ \A n \in DOMAIN l1_info : l1_info[n] = w[n]
    /\ \A i \in 1..Len(safe_head) : safe_head[i].epoch.hash = w[safe_head[i].epoch.number]
    /\ w[0] = 0

ViewInv == \E w \in [Nat -> Nat] : View(w)

\* L1 moves: what it takes back was not the last block read, or OnChain is lost for good,
\* since a new block has a new hash.
LEMMA ViewL1Step ==
    ASSUME Types, Places, NEW w \in [Nat -> Nat], View(w), L1Step
    PROVE  View(w)'
  <1>1. /\ minted' = minted + 1
        /\ UNCHANGED <<l1_finalized, watcher_vars, batch_vars, seq_vars, state_vars,
                       finalized_head, pc>>
    BY L1StepFacts
  <1>2. PICK d \in Seq(L1Block), n \in Nat :
          /\ l1' = d
          /\ l1_finalized + 1 <= n /\ n <= Len(l1)
          /\ Len(d) = n + 1
          /\ \A i \in 1..n : d[i] = l1[i]
          /\ d[n + 1].hash = minted + 1
    BY L1StepFacts
  <1>3. /\ Len(l1) \in Nat /\ l1_finalized \in Nat /\ next_block \in Nat /\ minted \in Nat
        /\ last_hash \in -1..minted
    BY DEF Types
  <1>4. UNCHANGED <<l1_finalized, next_block, last_hash, l1_info, safe_head>>
    BY <1>1 DEF watcher_vars, state_vars
  <1>5. \A k \in 0..l1_finalized : w[k] = d[k + 1].hash
    <2>1. \A k \in 0..l1_finalized : k + 1 \in 1..n
      BY <1>2, <1>3
    <2>2. \A k \in 0..l1_finalized : w[k] = l1[k + 1].hash
      BY DEF View
    <2>3. QED
      BY <1>2, <2>1, <2>2
  <1>6. ASSUME last_hash # -1, next_block <= Len(d), d[next_block].hash = last_hash
        PROVE  next_block \in 1..n /\ OnChain
    <2>1. next_block >= 1
      BY <1>6 DEF Places
    <2>2. next_block # n + 1
      <3>1. d[n + 1].hash = minted + 1
        BY <1>2
      <3>2. last_hash # minted + 1
        BY <1>3
      <3>3. QED
        BY <1>6, <3>1, <3>2
    <2>3. next_block \in 1..n /\ next_block <= Len(l1)
      BY <1>2, <1>3, <1>6, <2>1, <2>2
    <2>4. QED
      BY <1>2, <1>6, <2>3 DEF OnChain
  <1>7. ASSUME last_hash # -1, next_block <= Len(d), d[next_block].hash = last_hash,
               NEW k \in 0..(next_block - 1)
        PROVE  w[k] = d[k + 1].hash
    <2>1. next_block \in 1..n /\ OnChain
      BY <1>6, <1>7
    <2>2. k + 1 \in 1..n
      BY <1>3, <2>1
    <2>3. w[k] = l1[k + 1].hash
      BY <1>7, <2>1 DEF View
    <2>4. QED
      BY <1>2, <2>2, <2>3
  <1>8. QED
    BY <1>2, <1>4, <1>5, <1>7 DEF View, OnChain

\* A block is read.
LEMMA ViewNewBlock ==
    ASSUME Types, Places, NEW w \in [Nat -> Nat], View(w), NewBlock
    PROVE  \E v \in [Nat -> Nat] : View(v)'
  <1>1. /\ UNCHANGED <<l1_vars, finalized_head>>
        /\ next_block < Len(l1) /\ OnChain
        /\ UpdateL1Info(next_block, l1[next_block + 1].hash)
        /\ safe_head' = safe_head
        /\ last_hash' = l1[next_block + 1].hash
        /\ next_block' = next_block + 1
    BY DEF NewBlock, UpdateSafeHead
  <1>2. /\ l1 \in Seq(L1Block) /\ Len(l1) \in Nat /\ next_block \in Nat
        /\ l1_finalized \in Nat
        /\ safe_head \in Chain
    BY DEF Types
  <1>3. next_block + 1 \in DOMAIN l1
    BY <1>1, <1>2
  <1>4. l1[next_block + 1] \in L1Block
    BY <1>2, <1>3, ElementOfSeq
  <1>5. PICK h \in Nat : h = l1[next_block + 1].hash
    BY <1>4 DEF L1Block
  <1>6. PICK nb \in Nat : nb = next_block
    BY <1>2
  <1> DEFINE u == [w EXCEPT ![nb] = h]
  <1>7. u \in [Nat -> Nat] /\ u[nb] = h /\ \A k \in Nat : k # nb => u[k] = w[k]
    BY <1>6
  <1> HIDE DEF u
  <1>8. \A k \in 0..l1_finalized : u[k] = l1[k + 1].hash
    <2>1. \A k \in 0..l1_finalized : k \in Nat /\ w[k] = l1[k + 1].hash
      BY <1>2 DEF View
    <2>2. QED
      BY <1>5, <1>6, <1>7, <2>1
  <1>9. \A k \in 0..nb : u[k] = l1[k + 1].hash
    <2>1. ASSUME NEW k \in 0..(nb - 1) PROVE w[k] = l1[k + 1].hash
      <3>1. CASE last_hash # -1
        BY <1>1, <1>6, <3>1 DEF View
      <3>2. CASE last_hash = -1
        <4>1. nb <= l1_finalized + 1
          BY <1>6, <3>2 DEF Places
        <4>2. k \in 0..l1_finalized
          BY <1>2, <4>1
        <4>3. QED
          BY <4>2 DEF View
      <3>3. QED
        BY <3>1, <3>2
    <2>2. ASSUME NEW k \in 0..nb PROVE k = nb \/ (k \in 0..(nb - 1) /\ k \in Nat /\ k # nb)
      OBVIOUS
    <2>3. QED
      BY <1>5, <1>6, <1>7, <2>1, <2>2
  <1>10. \A n \in DOMAIN l1_info' : l1_info'[n] = u[n]
    <2> DEFINE f == Put(l1_info, nb, h)
    <2>1. \A n \in DOMAIN l1_info' : n \in DOMAIN f /\ l1_info'[n] = f[n]
      BY <1>1, <1>5, <1>6 DEF UpdateL1Info, Pruned, Restrict
    <2>2. /\ DOMAIN f = DOMAIN l1_info \cup {nb} /\ f[nb] = h
          /\ \A m \in DOMAIN l1_info : m # nb => f[m] = l1_info[m]
      BY DEF Put
    <2> HIDE DEF f
    <2>3. \A n \in DOMAIN l1_info : n \in Nat /\ l1_info[n] = w[n]
      BY DEF Types, View
    <2>4. QED
      BY <1>7, <2>1, <2>2, <2>3
  <1>11. ASSUME NEW i \in 1..Len(safe_head)
         PROVE  safe_head[i].epoch.hash = u[safe_head[i].epoch.number]
    <2>1. PICK k \in Nat : k = safe_head[i].epoch.number
      BY <1>2, ChainEpochs
    <2>2. safe_head[i].epoch.hash = w[k]
      BY <2>1 DEF View
    <2>3. CASE k # nb
      BY <1>7, <2>1, <2>2, <2>3
    <2>4. CASE k = nb
      <3>1. k <= l1_finalized
        <4>1. k < next_block \/ k <= l1_finalized
          BY <2>1 DEF Places
        <4>2. QED
          BY <1>6, <2>4, <4>1
      <3>2. w[k] = l1[k + 1].hash
        <4>1. k \in 0..l1_finalized
          BY <1>2, <3>1
        <4>2. QED
          BY <4>1 DEF View
      <3>3. QED
        BY <1>5, <1>6, <1>7, <2>1, <2>2, <2>4, <3>2
    <2>5. QED
      BY <2>3, <2>4
  <1>12. u[0] = 0
    <2>1. w[0] = 0 /\ w[0] = l1[0 + 1].hash
      BY <1>2 DEF View
    <2>2. QED
      BY <1>5, <1>6, <1>7, <2>1
  <1>13. next_block' - 1 = nb
    BY <1>1, <1>6
  <1>14. View(u)'
    BY <1>1, <1>8, <1>9, <1>10, <1>11, <1>12, <1>13 DEF View, l1_vars
  <1>15. QED
    BY <1>7, <1>14


\* A block is derived in an epoch the cache knows.
LEMMA ViewPipeline ==
    ASSUME Types, Places, NEW w \in [Nat -> Nat], View(w), PipelineStep
    PROVE  View(w)'
  <1>1. /\ UNCHANGED <<l1_vars, watcher_vars, l1_info, current_epoch_num, finalized_head>>
        /\ \/ UNCHANGED <<seq_vars, l2_refs, safe_head>>
           \/ \E input \in Input : Derive(input)
    BY PipelineFacts
  <1>2. CASE UNCHANGED safe_head
    BY <1>1, <1>2 DEF View, OnChain, l1_vars, watcher_vars
  <1>3. ASSUME NEW x \in Content, x.epoch.number \in DOMAIN l1_info,
               x.epoch.hash = l1_info[x.epoch.number],
               safe_head' = Append(safe_head, x)
        PROVE  View(w)'
    <2>0. safe_head \in Chain /\ Len(safe_head) \in Nat
      BY ChainFacts DEF Types
    <2>1. PICK s \in Chain :
            /\ safe_head' = s
            /\ Len(s) = Len(safe_head) + 1
            /\ s[Len(safe_head) + 1] = x
            /\ \A i \in 1..Len(safe_head) : s[i] = safe_head[i]
      <3> DEFINE t == Append(safe_head, x)
      <3>1. /\ t \in Chain
            /\ Len(t) = Len(safe_head) + 1
            /\ t[Len(safe_head) + 1] = x
            /\ \A i \in 1..Len(safe_head) : t[i] = safe_head[i]
        BY <2>0, GrownChain
      <3>2. safe_head' = t
        BY <1>3
      <3> HIDE DEF t
      <3>3. QED
        BY <3>1, <3>2
    <2>2. ASSUME NEW i \in 1..Len(s) PROVE s[i].epoch.hash = w[s[i].epoch.number]
      <3>1. CASE i \in 1..Len(safe_head)
        BY <2>1, <3>1 DEF View
      <3>2. CASE i = Len(safe_head) + 1
        BY <1>3, <2>1, <3>2 DEF View
      <3>3. PICK m \in Nat : m = Len(safe_head) /\ Len(s) = m + 1
        BY <2>0, <2>1
      <3>4. i \in 1..m \/ i = m + 1
        <4>1. i \in 1..(m + 1)
          BY <3>3
        <4>2. QED
          BY <4>1
      <3>5. QED
        BY <3>1, <3>2, <3>3, <3>4
    <2>3. QED
      BY <1>1, <2>1, <2>2 DEF View, OnChain, l1_vars, watcher_vars
  <1>4. QED
    BY <1>1, <1>2, <1>3, DeriveFacts

\* A reorg is noticed: the cache is emptied, and the safe chain ends where it is final.
LEMMA ViewReorg ==
    ASSUME Types, Places, NEW w \in [Nat -> Nat], View(w), Reorg
    PROVE  View(w)'
  <1>1. /\ UNCHANGED <<l1_vars, finalized_head>>
        /\ l1_info' = <<>>
        /\ safe_head' = finalized_head
        /\ last_hash' = -1
    BY DEF Reorg, PurgeState, UpdateSafeHead
  <1>2. Len(finalized_head) \in Nat /\ Len(safe_head) \in Nat
    BY ChainFacts DEF Types
  <1>3. ASSUME NEW i \in 1..Len(finalized_head)
        PROVE  finalized_head[i].epoch.hash = w[finalized_head[i].epoch.number]
    <2>1. Len(finalized_head) <= Len(safe_head) /\ finalized_head[i] = safe_head[i]
      BY DEF Places, FinalizedBelow
    <2>2. i \in 1..Len(safe_head)
      BY <1>2, <2>1
    <2>3. QED
      BY <2>1, <2>2 DEF View
  <1>4. \A n \in DOMAIN l1_info' : l1_info'[n] = w[n]
    <2>1. DOMAIN <<>> = {}
      OBVIOUS
    <2>2. QED
      BY <1>1, <2>1
  <1>5. QED
    BY <1>1, <1>3, <1>4 DEF View, OnChain, l1_vars

\* L1 finality reaches what was read, all of which is canonical.
LEMMA ViewFinalize ==
    ASSUME Types, Places, NEW w \in [Nat -> Nat], View(w), Finalize
    PROVE  View(w)'
  <1>1. /\ UNCHANGED <<l1, watcher_vars, state_vars>>
        /\ OnChain
        /\ l1_finalized' = IF current_epoch_num > l1_finalized THEN current_epoch_num ELSE l1_finalized
    BY DEF Finalize
  <1>2. l1_finalized \in Nat /\ current_epoch_num \in Nat /\ next_block \in Nat
    BY DEF Types
  <1>3. PICK f \in Nat : /\ l1_finalized' = f
                         /\ f = l1_finalized \/ f = current_epoch_num
    BY <1>1, <1>2
  <1>4. \A k \in 0..f : w[k] = l1[k + 1].hash
    <2>1. CASE f = l1_finalized
      BY <2>1 DEF View
    <2>2. CASE f = current_epoch_num /\ last_hash # -1
      <3>1. f = next_block - 1
        BY <2>2 DEF Places
      <3>2. QED
        BY <1>1, <2>2, <3>1 DEF View
    <2>3. CASE f = current_epoch_num /\ last_hash = -1
      <3>1. f = 0
        BY <2>3 DEF Places
      <3>2. 0..f \subseteq 0..l1_finalized
        BY <1>2, <3>1
      <3>3. QED
        BY <3>2 DEF View
    <2>4. QED
      BY <1>3, <2>1, <2>2, <2>3
  <1>5. QED
    BY <1>1, <1>3, <1>4 DEF View, OnChain, watcher_vars, state_vars

\* Some L1 chain explains what the driver holds, and one does after every step.
LEMMA ViewStep == Types /\ Places /\ ViewInv /\ [Next]_vars => ViewInv'
  <1> SUFFICES ASSUME Types, Places, ViewInv, [Next]_vars PROVE ViewInv'
    OBVIOUS
  <1>1. PICK w \in [Nat -> Nat] : View(w)
    BY DEF ViewInv
  <1>2. CASE L1Step
    BY <1>1, <1>2, ViewL1Step DEF ViewInv
  <1>3. CASE PipelineStep
    BY <1>1, <1>3, ViewPipeline DEF ViewInv
  <1>4. CASE NewBlock
    BY <1>1, <1>4, ViewNewBlock DEF ViewInv
  <1>5. CASE Reorg
    BY <1>1, <1>5, ViewReorg DEF ViewInv
  <1>6. CASE NoUpdate
    <2>1. View(w)'
      BY <1>1, <1>6 DEF NoUpdate, View, OnChain, l1_vars, watcher_vars, state_vars
    <2>2. QED
      BY <2>1 DEF ViewInv
  <1>7. CASE Finalize
    BY <1>1, <1>7, ViewFinalize DEF ViewInv
  <1>8. CASE UNCHANGED vars
    <2>1. View(w)'
      BY <1>1, <1>8 DEF vars, View, OnChain, l1_vars, watcher_vars, state_vars
    <2>2. QED
      BY <2>1 DEF ViewInv
  <1>9. QED
    BY <1>2, <1>3, <1>4, <1>5, <1>6, <1>7, <1>8 DEF Next

\* What holds before the first step.
LEMMA InitFacts == Init => Types /\ Places /\ ViewInv
  <1> SUFFICES ASSUME Init PROVE Types /\ Places /\ ViewInv
    OBVIOUS
  <1> DEFINE g == [hash |-> 0, txs |-> <<>>, tip |-> Genesis]
  <1>1. /\ l1 = <<g>> /\ l1_finalized = 0 /\ minted = 0 /\ next_block = 0 /\ last_hash = -1
        /\ txs = <<>> /\ batches = <<>> /\ pending_inputs = <<>>
        /\ sequence_number = 0 /\ epoch_hash = 0 /\ l1_info = <<>>
        /\ l2_refs = [n \in {L2Genesis} |-> Genesis]
        /\ current_epoch_num = 0 /\ safe_head = <<>> /\ finalized_head = <<>>
    BY DEF Init, Genesis
  <1>2. <<>> \in Chain /\ Len(<<>>) = 0 /\ DOMAIN <<>> = {} /\ Genesis = <<>>
    BY DEF Chain, Genesis
  <1>3. g \in L1Block
    BY <1>2 DEF L1Block, Tip, Stepwise
  <1>4. g.hash = 0
    OBVIOUS
  <1> HIDE DEF g
  <1>5. l1 \in Seq(L1Block) /\ Len(l1) = 1 /\ l1[1] = g /\ DOMAIN l1 = {1}
    BY <1>1, <1>3
  <1>6. Types
    <2>1. \A n \in DOMAIN l2_refs : n \in Nat /\ l2_refs[n] \in Chain
      BY <1>1, <1>2, DerivationAssumption
    <2>2. txs \in Seq(Queued) /\ pending_inputs \in Seq(Input)
      BY <1>1
    <2>3. DOMAIN batches = {} /\ DOMAIN l1_info = {}
      BY <1>1, <1>2
    <2>4. QED
      BY <1>1, <1>2, <1>4, <1>5, <2>1, <2>2, <2>3 DEF Types
  <1>7. Places
    BY <1>1, <1>2 DEF Places, FinalizedBelow
  <1>8. ViewInv
    <2> DEFINE w == [k \in Nat |-> 0]
    <2>1. w \in [Nat -> Nat] /\ w[0] = 0
      OBVIOUS
    <2> HIDE DEF w
    <2>2. \A k \in 0..l1_finalized : w[k] = l1[k + 1].hash
      BY <1>1, <1>4, <1>5, <2>1
    <2>3. View(w)
      BY <1>1, <1>2, <2>1, <2>2 DEF View
    <2>4. QED
      BY <2>1, <2>3 DEF ViewInv
  <1>9. QED
    BY <1>6, <1>7, <1>8

\* Spec keeps the inductive invariant.
LEMMA InvariantHolds == Spec => [](Types /\ Places /\ ViewInv)
  <1>1. Types /\ Places /\ ViewInv /\ [Next]_vars => (Types /\ Places /\ ViewInv)'
    BY TypesStep, PlacesStep, ViewStep
  <1>2. QED
    BY <1>1, InitFacts, PTL DEF Spec

\* While the blocks the watcher has sent are canonical, so is every epoch of the safe chain:
\* State::purge and the purge of the stages (derive/state.rs, derive/mod.rs) leave nothing
\* of an abandoned L1 chain, wherever the reorg finds them.
THEOREM EpochsCanonicalCorrect == Spec => []EpochsCanonical
  <1>1. Types /\ Places /\ ViewInv => EpochsCanonical
    <2>0. ASSUME Types
          PROVE  /\ l1_finalized \in Nat /\ l1_finalized < Len(l1) /\ next_block \in Nat
                 /\ Len(l1) \in Nat /\ safe_head \in Chain
      BY <2>0 DEF Types
    <2> SUFFICES ASSUME Types, Places, ViewInv, OnChain, NEW i \in 1..Len(safe_head)
                 PROVE  /\ safe_head[i].epoch.number < Len(l1)
                        /\ l1[safe_head[i].epoch.number + 1].hash = safe_head[i].epoch.hash
      BY DEF EpochsCanonical
    <2>1. PICK w \in [Nat -> Nat] : View(w)
      BY DEF ViewInv
    <2>2. /\ l1_finalized \in Nat /\ l1_finalized < Len(l1) /\ next_block \in Nat /\ Len(l1) \in Nat
          /\ safe_head \in Chain
      BY <2>0
    <2>3. PICK k \in Nat : k = safe_head[i].epoch.number
      BY <2>2, ChainEpochs
    <2>4. w[k] = safe_head[i].epoch.hash
      BY <2>1, <2>3 DEF View
    <2>5. k < next_block \/ k <= l1_finalized
      BY <2>3 DEF Places
    <2>6. CASE k <= l1_finalized
      <3>0. k \in 0..l1_finalized /\ k < Len(l1)
        BY <2>2, <2>6
      <3>1. w[k] = l1[k + 1].hash
        BY <2>1, <3>0 DEF View
      <3>2. QED
        BY <2>3, <2>4, <3>0, <3>1
    <2>7. CASE k > l1_finalized
      <3>1. last_hash # -1
        <4>1. last_hash = -1 => next_block <= l1_finalized + 1
          BY DEF Places
        <4>2. QED
          BY <2>2, <2>5, <2>7, <4>1
      <3>2. next_block <= Len(l1)
        BY <3>1 DEF OnChain
      <3>3. k \in 0..(next_block - 1)
        BY <2>2, <2>5, <2>7
      <3>4. w[k] = l1[k + 1].hash
        BY <2>1, <3>1, <3>3 DEF View
      <3>5. k < Len(l1)
        BY <2>2, <3>2, <3>3
      <3>6. QED
        BY <2>3, <2>4, <3>4, <3>5
    <2>8. QED
      BY <2>2, <2>6, <2>7
  <1>2. QED
    BY <1>1, InvariantHolds, PTL


-----------------------------------------------------------------------------
(* The cached L2 blocks *)

\* The part of a chain that was there before a block was added.
LEMMA PartOfGrown ==
    ASSUME NEW c \in Chain, NEW x \in Content, NEW n \in 0..Len(c)
    PROVE  SubSeq(Append(c, x), 1, n) = SubSeq(c, 1, n)
  <1> DEFINE d == Append(c, x)
             p == SubSeq(d, 1, n)
             q == SubSeq(c, 1, n)
  <1>1. d \in Chain /\ Len(d) = Len(c) + 1 /\ \A i \in 1..Len(c) : d[i] = c[i]
    BY GrownChain
  <1>2. Len(c) \in Nat
    BY ChainFacts
  <1> HIDE DEF d
  <1>3. n \in 0..Len(d)
    BY <1>1, <1>2
  <1>4. p \in Chain /\ Len(p) = n /\ \A i \in 1..n : p[i] = d[i]
    BY <1>1, <1>3, ChainPart
  <1>5. q \in Chain /\ Len(q) = n /\ \A i \in 1..n : q[i] = c[i]
    BY ChainPart
  <1> HIDE DEF p, q
  <1>6. \A i \in 1..n : p[i] = q[i]
    BY <1>1, <1>2, <1>4, <1>5
  <1>7. p = q
    BY <1>4, <1>5, <1>6 DEF Chain
  <1>8. QED
    BY <1>7 DEF p, q, d

\* All of a chain.
LEMMA WholeChain ==
    ASSUME NEW c \in Chain
    PROVE  SubSeq(c, 1, Len(c)) = c
  BY DEF Chain

\* A block is derived: it is noted under its number, the others stay.
LEMMA RefsPipeline ==
    ASSUME Types, Places, RefsOfSafeChain, PipelineStep
    PROVE  RefsOfSafeChain'
  <1>1. /\ UNCHANGED finalized_head
        /\ \/ UNCHANGED <<seq_vars, l2_refs, safe_head>>
           \/ \E input \in Input : Derive(input)
    BY PipelineFacts
  <1>2. CASE UNCHANGED <<l2_refs, safe_head>>
    BY <1>1, <1>2 DEF RefsOfSafeChain
  <1>3. ASSUME NEW x \in Content,
               safe_head' = Append(safe_head, x),
               l2_refs' = Put(l2_refs, Number(Append(safe_head, x)), Append(safe_head, x))
        PROVE  RefsOfSafeChain'
    <2>0. /\ safe_head \in Chain /\ Len(safe_head) \in Nat /\ Len(finalized_head) \in Nat
          /\ L2Genesis \in Nat /\ MaxSeqDrift \in Nat
          /\ Len(finalized_head) <= Len(safe_head)
      BY ChainFacts, DerivationAssumption DEF Types, Places, FinalizedBelow
    <2> DEFINE s == Append(safe_head, x)
               refs == Put(l2_refs, Number(s), s)
    <2>1. /\ s \in Chain /\ Len(s) = Len(safe_head) + 1
          /\ \A n \in 0..Len(safe_head) : SubSeq(s, 1, n) = SubSeq(safe_head, 1, n)
      BY <2>0, GrownChain, PartOfGrown
    <2>2. safe_head' = s /\ l2_refs' = refs
      BY <1>3
    <2> HIDE DEF s
    <2>3. Number(s) = L2Genesis + Len(safe_head) + 1
      BY <2>0, <2>1 DEF Number
    <2>4. /\ DOMAIN refs = DOMAIN l2_refs \cup {Number(s)} /\ refs[Number(s)] = s
          /\ \A m \in DOMAIN l2_refs : m # Number(s) => refs[m] = l2_refs[m]
      BY DEF Put
    <2> HIDE DEF refs
    <2>5. ASSUME NEW n \in Len(finalized_head)..Len(s), Len(s) - n <= MaxSeqDrift
          PROVE  L2Genesis + n \in DOMAIN refs /\ refs[L2Genesis + n] = SubSeq(s, 1, n)
      <3>1. n \in Nat /\ n <= Len(safe_head) + 1 /\ Len(safe_head) + 1 - n <= MaxSeqDrift
        BY <2>0, <2>1, <2>5
      <3>2. CASE n = Len(safe_head) + 1
        <4>1. L2Genesis + n = Number(s) /\ n = Len(s)
          BY <2>0, <2>1, <2>3, <3>2
        <4>2. SubSeq(s, 1, n) = s
          BY <2>1, <4>1, WholeChain
        <4>3. QED
          BY <2>4, <4>1, <4>2
      <3>3. CASE n <= Len(safe_head)
        <4>1. /\ n \in Len(finalized_head)..Len(safe_head) /\ Len(safe_head) - n <= MaxSeqDrift
              /\ n \in 0..Len(safe_head) /\ L2Genesis + n # Number(s)
          BY <2>0, <2>3, <2>5, <3>1, <3>3
        <4>2. L2Genesis + n \in DOMAIN l2_refs /\ l2_refs[L2Genesis + n] = SubSeq(safe_head, 1, n)
          BY <4>1 DEF RefsOfSafeChain
        <4>3. QED
          BY <2>1, <2>4, <4>1, <4>2
      <3>4. QED
        BY <2>0, <3>1, <3>2, <3>3
    <2>6. QED
      BY <1>1, <2>2, <2>5 DEF RefsOfSafeChain
  <1>4. QED
    BY <1>1, <1>2, <1>3, DeriveFacts

\* A block is read: State::prune forgets blocks below the lookback only.
LEMMA RefsNewBlock ==
    ASSUME L2Genesis >= MaxSeqDrift, Types, Places, RefsOfSafeChain, NewBlock
    PROVE  RefsOfSafeChain'
  <1>0. /\ safe_head \in Chain /\ Len(safe_head) \in Nat /\ Len(finalized_head) \in Nat
        /\ L2Genesis \in Nat /\ MaxSeqDrift \in Nat /\ U64 \in Nat \ {0}
    BY ChainFacts, DerivationAssumption DEF Types
  <1> DEFINE from == LookbackStart(safe_head)
             old  == Pruned(l2_refs, from)
             refs == Put(old, Number(safe_head), safe_head)
  <1>1. l2_refs' = refs /\ safe_head' = safe_head /\ finalized_head' = finalized_head
    BY DEF NewBlock, UpdateSafeHead
  <1>2. from \in Nat /\ from <= Number(safe_head) - MaxSeqDrift
    <2>1. PICK k \in Nat : k = Number(safe_head) - MaxSeqDrift
      BY <1>0 DEF Number
    <2>2. k % U64 <= k /\ k % U64 \in Nat
      BY <1>0
    <2>3. QED
      BY <2>1, <2>2 DEF LookbackStart
  <1> HIDE DEF from
  <1>3. /\ \A n : n \in DOMAIN old <=> n \in DOMAIN l2_refs /\ n >= from
        /\ \A n \in DOMAIN old : old[n] = l2_refs[n]
    BY PrunedFacts
  <1> HIDE DEF old
  <1>4. /\ DOMAIN refs = DOMAIN old \cup {Number(safe_head)} /\ refs[Number(safe_head)] = safe_head
        /\ \A m \in DOMAIN old : m # Number(safe_head) => refs[m] = old[m]
    BY DEF Put
  <1> HIDE DEF refs
  <1>5. ASSUME NEW n \in Len(finalized_head)..Len(safe_head), Len(safe_head) - n <= MaxSeqDrift
        PROVE  L2Genesis + n \in DOMAIN refs /\ refs[L2Genesis + n] = SubSeq(safe_head, 1, n)
    <2>1. CASE n = Len(safe_head)
      BY <1>0, <1>4, <2>1, WholeChain DEF Number
    <2>2. CASE n # Len(safe_head)
      <3>1. L2Genesis + n \in DOMAIN l2_refs /\ l2_refs[L2Genesis + n] = SubSeq(safe_head, 1, n)
        BY <1>5 DEF RefsOfSafeChain
      <3>2. L2Genesis + n >= from /\ L2Genesis + n # Number(safe_head)
        BY <1>0, <1>2, <1>5, <2>2 DEF Number
      <3>3. QED
        BY <1>3, <1>4, <3>1, <3>2
    <2>3. QED
      BY <2>1, <2>2
  <1>6. QED
    BY <1>1, <1>5 DEF RefsOfSafeChain

\* A reorg is noticed: the safe head is the finalized one, and is noted.
LEMMA RefsReorg ==
    ASSUME Types, Places, RefsOfSafeChain, Reorg
    PROVE  RefsOfSafeChain'
  <1>0. finalized_head \in Chain /\ Len(finalized_head) \in Nat /\ L2Genesis \in Nat
    BY ChainFacts, DerivationAssumption DEF Types
  <1>1. /\ finalized_head' = finalized_head /\ safe_head' = finalized_head
        /\ l2_refs' = Put(l2_refs, Number(finalized_head), finalized_head)
    BY DEF Reorg, PurgeState, UpdateSafeHead
  <1>2. Number(finalized_head) \in DOMAIN l2_refs' /\ l2_refs'[Number(finalized_head)] = finalized_head
    BY <1>1 DEF Put
  <1>3. ASSUME NEW n \in Len(finalized_head)..Len(finalized_head)
        PROVE  /\ L2Genesis + n \in DOMAIN l2_refs'
               /\ l2_refs'[L2Genesis + n] = SubSeq(finalized_head, 1, n)
    <2>1. n = Len(finalized_head)
      BY <1>0
    <2>2. L2Genesis + n = Number(finalized_head) /\ SubSeq(finalized_head, 1, n) = finalized_head
      BY <1>0, <2>1, WholeChain DEF Number
    <2>3. QED
      BY <1>2, <2>2
  <1>4. QED
    BY <1>1, <1>3 DEF RefsOfSafeChain

\* The finalized head moves up: fewer blocks need to be there.
LEMMA RefsFinalize ==
    ASSUME Types, Places, RefsOfSafeChain, Finalize
    PROVE  RefsOfSafeChain'
  <1>0. safe_head \in Chain /\ Len(safe_head) \in Nat /\ Len(finalized_head) \in Nat
    BY ChainFacts DEF Types
  <1>1. UNCHANGED <<l2_refs, safe_head>>
    BY DEF Finalize, state_vars
  <1>2. PICK n \in Nat : /\ n <= Len(safe_head) /\ n > Len(finalized_head)
                         /\ finalized_head' = SubSeq(safe_head, 1, n)
    BY <1>0 DEF Finalize, EpochStarts
  <1>3. Len(finalized_head') = n
    <2>1. n \in 0..Len(safe_head)
      BY <1>0, <1>2
    <2>2. QED
      BY <1>0, <1>2, <2>1, ChainPart
  <1>4. \A k \in n..Len(safe_head) : k \in Len(finalized_head)..Len(safe_head)
    BY <1>0, <1>2
  <1>5. QED
    BY <1>1, <1>3, <1>4 DEF RefsOfSafeChain

\* From the finalized head on and as far as the lookback of State::prune (derive/state.rs),
\* the cached L2 blocks are those of the safe chain, over any number of reorgs, as long
\* as L2 starts at a block number that the lookback does not reach below.
THEOREM RefsOfSafeChainCorrect ==
    L2Genesis >= MaxSeqDrift /\ Spec => []RefsOfSafeChain
  <1> SUFFICES ASSUME L2Genesis >= MaxSeqDrift PROVE Spec => []RefsOfSafeChain
    OBVIOUS
  <1>1. Init => RefsOfSafeChain
    <2> SUFFICES ASSUME Init PROVE RefsOfSafeChain
      OBVIOUS
    <2>1. /\ safe_head = <<>> /\ finalized_head = <<>>
          /\ l2_refs = [n \in {L2Genesis} |-> <<>>]
      BY DEF Init, Genesis
    <2>2. Len(<<>>) = 0 /\ SubSeq(<<>>, 1, 0) = <<>> /\ L2Genesis \in Nat
      BY DerivationAssumption
    <2>3. L2Genesis + 0 \in DOMAIN l2_refs /\ l2_refs[L2Genesis + 0] = <<>>
      BY <2>1, <2>2
    <2>4. QED
      BY <2>1, <2>2, <2>3 DEF RefsOfSafeChain
  <1>2. Types /\ Places /\ RefsOfSafeChain /\ [Next]_vars => RefsOfSafeChain'
    <2> SUFFICES ASSUME Types, Places, RefsOfSafeChain, [Next]_vars PROVE RefsOfSafeChain'
      OBVIOUS
    <2>1. CASE L1Step
      <3>1. UNCHANGED <<finalized_head, l2_refs, safe_head>>
        BY <2>1, L1StepFacts DEF state_vars
      <3>2. QED
        BY <3>1 DEF RefsOfSafeChain
    <2>2. CASE NoUpdate
      BY <2>2 DEF NoUpdate, state_vars, RefsOfSafeChain
    <2>3. CASE UNCHANGED vars
      BY <2>3 DEF vars, state_vars, RefsOfSafeChain
    <2>4. QED
      BY <2>1, <2>2, <2>3, RefsPipeline, RefsNewBlock, RefsReorg, RefsFinalize DEF Next
  <1>3. QED
    BY <1>1, <1>2, InvariantHolds, PTL DEF Spec


-----------------------------------------------------------------------------
(* The rules every L2 block keeps *)

\* The rules on a chain: one block per slot, in the epoch of the block before it or in the
\* next one, which has begun, and with transactions only within the sequencer drift.  A
\* batcher that posts span batches which leave an epoch out breaks the one on epochs.
GoodChain(c) ==
    \A n \in 1..Len(c) :
        /\ c[n].time = n
        /\ \/ c[n].epoch = EpochBefore(c, n)
           \/ c[n].epoch.number = EpochBefore(c, n).number + 1
           \/ "skip" \in Kinds
        /\ Timestamp(c[n].epoch.number) <= n
        /\ c[n].txs # "invalid"
        /\ c[n].txs = "some" => n <= Timestamp(c[n].epoch.number) + MaxSeqDrift

\* The same of a block input, when the block before it is in the epoch with number `before`.
Allowed(input, time, before) ==
    /\ input.timestamp = time
    /\ input.epoch \in {before, before + 1} \/ "skip" \in Kinds
    /\ Timestamp(input.epoch) <= time
    /\ input.txs # "invalid"
    /\ input.txs = "some" => time <= Timestamp(input.epoch) + MaxSeqDrift

\* Block inputs that may follow chain c one after the other.
Follow(c, inputs) ==
    \A i \in 1..Len(inputs) :
        Allowed(inputs[i], Len(c) + i, IF i = 1 THEN EpochOf(c).number ELSE inputs[i - 1].epoch)

\* The safe head can be looked up by its number.
HeadNoted == Number(safe_head) \in DOMAIN l2_refs /\ l2_refs[Number(safe_head)] = safe_head

Rules ==
    /\ GoodChain(safe_head)
    /\ HeadNoted
    /\ pc # "panicked" => Follow(safe_head, pending_inputs)

\* The last block of a chain that keeps the rules.
LEMMA GoodHead ==
    ASSUME NEW c \in Chain, GoodChain(c)
    PROVE  TimeOf(c) = Len(c) /\ Timestamp(EpochOf(c).number) <= Len(c)
  <1>1. Len(c) \in Nat
    BY ChainFacts
  <1>2. CASE c = Genesis
    BY <1>2, DerivationAssumption DEF TimeOf, EpochOf, Genesis, Timestamp
  <1>3. CASE c # Genesis
    <2>1. Len(c) >= 1 /\ Last(c) = c[Len(c)] /\ EpochOf(c) = c[Len(c)].epoch
      BY <1>3, ChainFacts
    <2>2. Len(c) \in 1..Len(c)
      BY <1>1, <2>1
    <2>3. QED
      BY <1>3, <2>1, <2>2 DEF GoodChain, TimeOf
  <1>4. QED
    BY <1>2, <1>3

\* A part of a chain that keeps the rules.
LEMMA GoodPart ==
    ASSUME NEW c \in Chain, NEW d \in Chain, GoodChain(c), Len(d) <= Len(c),
           \A i \in 1..Len(d) : d[i] = c[i]
    PROVE  GoodChain(d)
  <1>1. Len(c) \in Nat /\ Len(d) \in Nat
    BY ChainFacts
  <1> SUFFICES ASSUME NEW n \in 1..Len(d)
               PROVE  /\ d[n].time = n
                      /\ \/ d[n].epoch = EpochBefore(d, n)
                         \/ d[n].epoch.number = EpochBefore(d, n).number + 1
                         \/ "skip" \in Kinds
                      /\ Timestamp(d[n].epoch.number) <= n
                      /\ d[n].txs # "invalid"
                      /\ d[n].txs = "some" => n <= Timestamp(d[n].epoch.number) + MaxSeqDrift
    BY DEF GoodChain
  <1>2. n \in 1..Len(c) /\ (n # 1 => n - 1 \in 1..Len(d))
    BY <1>1
  <1>3. d[n] = c[n] /\ (n # 1 => d[n - 1] = c[n - 1])
    BY <1>2
  <1>4. EpochBefore(d, n) = EpochBefore(c, n)
    BY <1>3 DEF EpochBefore
  <1>5. QED
    BY <1>2, <1>3, <1>4 DEF GoodChain

\* A chain that keeps the rules and one more block that does.
LEMMA GoodGrown ==
    ASSUME NEW c \in Chain, NEW x \in Content, GoodChain(c),
           x.time = Len(c) + 1,
           \/ x.epoch = EpochOf(c) \/ x.epoch.number = EpochOf(c).number + 1
           \/ "skip" \in Kinds,
           Timestamp(x.epoch.number) <= Len(c) + 1,
           x.txs # "invalid",
           x.txs = "some" => Len(c) + 1 <= Timestamp(x.epoch.number) + MaxSeqDrift
    PROVE  GoodChain(Append(c, x))
  <1> DEFINE d == Append(c, x)
  <1>1. /\ d \in Chain /\ Len(d) = Len(c) + 1 /\ d[Len(c) + 1] = x
        /\ \A i \in 1..Len(c) : d[i] = c[i]
    BY GrownChain
  <1> HIDE DEF d
  <1>2. Len(c) \in Nat
    BY ChainFacts
  <1>3. ASSUME NEW n \in 1..(Len(c) + 1)
        PROVE  /\ d[n].time = n
               /\ \/ d[n].epoch = EpochBefore(d, n)
                  \/ d[n].epoch.number = EpochBefore(d, n).number + 1
                  \/ "skip" \in Kinds
               /\ Timestamp(d[n].epoch.number) <= n
               /\ d[n].txs # "invalid"
               /\ d[n].txs = "some" => n <= Timestamp(d[n].epoch.number) + MaxSeqDrift
    <2>1. CASE n = Len(c) + 1
      <3>1. EpochBefore(d, n) = EpochOf(c)
        <4>1. CASE Len(c) = 0
          BY <2>1, <4>1, EpochBeforeNext DEF EpochBefore
        <4>2. CASE Len(c) # 0
          <5>1. n # 1 /\ n - 1 = Len(c) /\ Len(c) \in 1..Len(c)
            BY <1>2, <2>1, <4>2
          <5>2. EpochOf(c) = c[Len(c)].epoch
            BY <4>2, EpochBeforeNext
          <5>3. QED
            BY <1>1, <5>1, <5>2 DEF EpochBefore
        <4>3. QED
          BY <4>1, <4>2
      <3>2. d[n] = x
        BY <1>1, <2>1
      <3>3. QED
        BY <2>1, <3>1, <3>2
    <2>2. CASE n # Len(c) + 1
      <3>1. n \in 1..Len(c) /\ (n # 1 => n - 1 \in 1..Len(c))
        BY <1>2, <2>2
      <3>2. d[n] = c[n] /\ (n # 1 => d[n - 1] = c[n - 1])
        BY <1>1, <3>1
      <3>3. EpochBefore(d, n) = EpochBefore(c, n)
        BY <3>2 DEF EpochBefore
      <3>4. QED
        BY <3>1, <3>2, <3>3 DEF GoodChain
    <2>3. QED
      BY <2>1, <2>2
  <1>4. GoodChain(d)
    BY <1>1, <1>3 DEF GoodChain
  <1>5. QED
    BY <1>4 DEF d


\* The cached epoch of a number that the safe head is in is the epoch of the safe head.
LEMMA CachedSafeEpoch ==
    ASSUME Types, ViewInv, NEW x \in Epoch,
           x.number \in DOMAIN l1_info, x.hash = l1_info[x.number],
           x.number = safe_epoch.number
    PROVE  x = safe_epoch
  <1>1. PICK w \in [Nat -> Nat] : View(w)
    BY DEF ViewInv
  <1>2. safe_head \in Chain
    BY DEF Types
  <1>3. safe_epoch.hash = w[safe_epoch.number] /\ safe_epoch \in Epoch
    <2>1. safe_epoch = IF Len(safe_head) = 0 THEN [number |-> 0, hash |-> 0]
                       ELSE safe_head[Len(safe_head)].epoch
      BY <1>2, EpochBeforeNext DEF safe_epoch
    <2>2. safe_epoch \in Epoch /\ Len(safe_head) \in Nat
      BY <1>2, ChainFacts DEF safe_epoch
    <2>3. CASE Len(safe_head) = 0
      BY <1>1, <2>1, <2>2, <2>3 DEF View
    <2>4. CASE Len(safe_head) # 0
      <3>1. Len(safe_head) \in 1..Len(safe_head)
        BY <2>2, <2>4
      <3>2. QED
        BY <1>1, <2>1, <2>2, <2>4, <3>1 DEF View
    <2>5. QED
      BY <2>3, <2>4
  <1>4. x.hash = w[x.number]
    BY <1>1 DEF View
  <1>5. QED
    BY <1>3, <1>4 DEF Epoch

\* A block input that may follow the safe head makes a safe head that keeps the rules.
LEMMA DeriveKeepsRules ==
    ASSUME Types, ViewInv, GoodChain(safe_head), NEW input \in Input, Derive(input),
           Allowed(input, Len(safe_head) + 1, safe_epoch.number)
    PROVE  \/ pc' = "panicked" /\ UNCHANGED <<l2_refs, safe_head>>
           \/ \E s \in Chain :
                /\ safe_head' = s
                /\ Len(s) = Len(safe_head) + 1
                /\ EpochOf(s).number = input.epoch
                /\ GoodChain(s)
                /\ HeadNoted'
  <1>1. CASE pc' = "panicked" /\ UNCHANGED <<seq_vars, l2_refs, safe_head>>
    BY <1>1
  <1>2. ASSUME NEW x \in Content, input.epoch \in DOMAIN l1_info,
               x.epoch.number = input.epoch, x.epoch.hash = l1_info[input.epoch],
               x.time = input.timestamp, x.txs = input.txs,
               safe_head' = Append(safe_head, x),
               l2_refs' = Put(l2_refs, Number(Append(safe_head, x)), Append(safe_head, x))
        PROVE  \E s \in Chain :
                /\ safe_head' = s
                /\ Len(s) = Len(safe_head) + 1
                /\ EpochOf(s).number = input.epoch
                /\ GoodChain(s)
                /\ HeadNoted'
    <2>1. safe_head \in Chain /\ x.epoch \in Epoch /\ safe_epoch \in Epoch
      BY ChainFacts DEF Types, Content, safe_epoch
    <2>2. x.epoch = safe_epoch \/ x.epoch.number = safe_epoch.number + 1 \/ "skip" \in Kinds
      <3>1. CASE input.epoch = safe_epoch.number
        BY <1>2, <2>1, <3>1, CachedSafeEpoch
      <3>2. QED
        BY <1>2, <3>1 DEF Allowed
    <2> DEFINE s == Append(safe_head, x)
    <2>3. s \in Chain /\ Len(s) = Len(safe_head) + 1 /\ EpochOf(s) = x.epoch
      BY <2>1, GrownChain
    <2>4. GoodChain(s)
      <3>1. /\ x.time = Len(safe_head) + 1
            /\ Timestamp(x.epoch.number) <= Len(safe_head) + 1
            /\ x.txs # "invalid"
            /\ x.txs = "some" => Len(safe_head) + 1 <= Timestamp(x.epoch.number) + MaxSeqDrift
        BY <1>2 DEF Allowed
      <3>2. QED
        BY <2>1, <2>2, <3>1, GoodGrown DEF safe_epoch
    <2>5. safe_head' = s /\ l2_refs' = Put(l2_refs, Number(s), s)
      BY <1>2
    <2> HIDE DEF s
    <2>6. HeadNoted'
      <3>1. Number(safe_head)' = Number(s)
        BY <2>5 DEF Number
      <3>2. QED
        BY <2>5, <3>1 DEF HeadNoted, Put
    <2>7. QED
      BY <1>2, <2>3, <2>4, <2>5, <2>6
  <1>3. QED
    BY <1>1, <1>2, DeriveFacts

\* What follows the first of the inputs that follow a chain.
LEMMA FollowRest ==
    ASSUME NEW c \in Chain, NEW q \in Seq(Input), q # <<>>, Follow(c, q),
           NEW s \in Chain, Len(s) = Len(c) + 1, EpochOf(s).number = Head(q).epoch
    PROVE  Follow(s, Tail(q))
  <1> DEFINE r == Tail(q)
  <1>1. /\ r \in Seq(Input) /\ Len(q) \in Nat /\ Len(q) >= 1 /\ Len(r) = Len(q) - 1
        /\ \A i \in 1..Len(r) : r[i] = q[i + 1]
        /\ Head(q) = q[1]
    OBVIOUS
  <1>2. Len(c) \in Nat
    BY ChainFacts
  <1> HIDE DEF r
  <1>3. ASSUME NEW i \in 1..Len(r)
        PROVE  Allowed(r[i], Len(s) + i, IF i = 1 THEN EpochOf(s).number ELSE r[i - 1].epoch)
    <2>1. i + 1 \in 1..Len(q) /\ i + 1 # 1 /\ i + 1 - 1 = i /\ Len(c) + (i + 1) = Len(s) + i
      <3>1. PICK m \in Nat : Len(q) = m + 1 /\ Len(r) = m
        BY <1>1
      <3>2. PICK k \in Nat : Len(c) = k /\ Len(s) = k + 1
        BY <1>2
      <3>3. i \in 1..m
        BY <3>1
      <3>4. QED
        BY <3>1, <3>2, <3>3
    <2>2. Allowed(q[i + 1], Len(s) + i, q[i].epoch)
      BY <2>1 DEF Follow
    <2>3. q[i].epoch = IF i = 1 THEN EpochOf(s).number ELSE r[i - 1].epoch
      <3>1. CASE i = 1
        BY <1>1, <3>1
      <3>2. CASE i # 1
        <4>1. i - 1 \in 1..Len(r) /\ (i - 1) + 1 = i
          BY <1>1, <3>2
        <4>2. QED
          BY <1>1, <3>2, <4>1
      <3>3. QED
        BY <3>1, <3>2
    <2>4. QED
      BY <1>1, <2>2, <2>3
  <1>4. Follow(s, r)
    BY <1>3 DEF Follow
  <1>5. QED
    BY <1>4 DEF r

\* The first of the inputs that follow a chain.
LEMMA FollowFirst ==
    ASSUME NEW c \in Chain, NEW q \in Seq(Input), q # <<>>, Follow(c, q)
    PROVE  Head(q) \in Input /\ Allowed(Head(q), Len(c) + 1, EpochOf(c).number)
  <1>1. 1 \in 1..Len(q) /\ Head(q) = q[1] /\ Head(q) \in Input
    OBVIOUS
  <1>2. QED
    BY <1>1 DEF Follow

\* An empty block keeps the rules.
LEMMA EmptyAllowed ==
    ASSUME Types, GoodChain(safe_head), NEW e \in EmptyEpoch
    PROVE  LET input == [timestamp |-> next_timestamp, epoch |-> e.number, txs |-> "none"]
           IN  input \in Input /\ Allowed(input, Len(safe_head) + 1, safe_epoch.number)
  <1>1. safe_head \in Chain /\ Len(safe_head) \in Nat /\ L1Time \in Nat
    BY ChainFacts, DerivationAssumption DEF Types
  <1>2. next_timestamp = Len(safe_head) + 1 /\ Timestamp(safe_epoch.number) <= Len(safe_head)
    BY <1>1, GoodHead DEF next_timestamp, safe_epoch
  <1>3. /\ e \in Epoch
        /\ \/ e = safe_epoch
           \/ e.number = safe_epoch.number + 1 /\ next_timestamp >= Timestamp(e.number)
        /\ [timestamp |-> next_timestamp, epoch |-> e.number, txs |-> "none"] \in Input
    BY EmptyEpochFacts
  <1>4. PICK t \in Int : t = Timestamp(e.number)
    BY <1>1, <1>3 DEF Epoch, Timestamp
  <1>5. t <= Len(safe_head) + 1
    <2>1. CASE e = safe_epoch
      <3>1. t <= Len(safe_head)
        BY <1>2, <1>4, <2>1
      <3>2. QED
        BY <1>1, <3>1
    <2>2. CASE next_timestamp >= Timestamp(e.number)
      BY <1>2, <1>4, <2>2
    <2>3. QED
      BY <1>3, <2>1, <2>2
  <1>6. QED
    BY <1>2, <1>3, <1>4, <1>5 DEF Allowed


\* A single batch for the next slot is one block input.
LEMMA SingleInput ==
    ASSUME Types, GoodChain(safe_head), NEW b \in Batch, b.kind = "single",
           b.timestamp = Len(safe_head) + 1
    PROVE  /\ Len(InputsOf(b)) = 1
           /\ InputsOf(b)[1] = [timestamp |-> b.timestamp, epoch |-> b.epoch.number, txs |-> b.txs]
  <1>1. TimeOf(safe_head) = Len(safe_head) /\ Len(safe_head) \in Nat
    BY GoodHead, ChainFacts DEF Types
  <1> DEFINE input == [timestamp |-> b.timestamp, epoch |-> b.epoch.number, txs |-> b.txs]
             all   == <<input>>
  <1>2. InputsOf(b) = Keep(all, 1..Len(all))
    <2>1. InputsOf(b) = FilterInputs(all)
      BY DEF InputsOf
    <2>2. DOMAIN all = {1} /\ Len(all) = 1 /\ all[1].timestamp = b.timestamp
      OBVIOUS
    <2> HIDE DEF all
    <2>3. {i \in DOMAIN all : all[i].timestamp > TimeOf(safe_head)} = 1..Len(all)
      <3>1. b.timestamp > TimeOf(safe_head)
        BY <1>1
      <3>2. QED
        BY <2>2, <3>1
    <2>4. QED
      BY <2>1, <2>3 DEF FilterInputs
  <1>3. all \in Seq({input}) /\ Len(all) = 1 /\ all[1] = input
    OBVIOUS
  <1> HIDE DEF all, input
  <1>4. Len(InputsOf(b)) = 1 /\ InputsOf(b)[1] = input
    <2>1. 1 \in 1..Len(all) /\ Len(all) - 1 + 1 = 1 /\ 1 \in 1..(Len(all) - 1 + 1)
      BY <1>3
    <2>2. /\ Len(Keep(all, 1..Len(all))) = Len(all) - 1 + 1
          /\ \A k \in 1..(Len(all) - 1 + 1) : Keep(all, 1..Len(all))[k] = all[1 + k - 1]
      BY <1>3, <2>1, KeepFrom
    <2>3. QED
      BY <1>2, <1>3, <2>1, <2>2
  <1>5. QED
    BY <1>4 DEF input

\* The block of a single batch that is accepted may follow the safe head.
LEMMA SingleFollows ==
    ASSUME Types, GoodChain(safe_head), NEW b \in Batch, b.kind = "single", NEW inclusion,
           SingleBatchStatus(b, inclusion) = "Accept"
    PROVE  Follow(safe_head, InputsOf(b))
  <1>0. /\ safe_head \in Chain /\ Len(safe_head) \in Nat
        /\ safe_epoch \in Epoch /\ safe_epoch.number \in Nat
    BY ChainFacts DEF Types, safe_epoch, Epoch
  <1>1. next_timestamp = Len(safe_head) + 1 /\ TimeOf(safe_head) = Len(safe_head)
    BY <1>0, GoodHead DEF next_timestamp
  <1>2. b.timestamp \in Nat /\ b.epoch \in Epoch /\ b.epoch.number \in Nat /\ b.txs \in Txs
    BY DEF Batch, SingleRecord, SpanRecord, Epoch
  <1> DEFINE origin == Origins(b.epoch.number)
             stays  == b.epoch.number = safe_epoch.number
  <1>3. /\ ~(b.timestamp > next_timestamp)
        /\ ~(b.timestamp < next_timestamp)
        /\ b.epoch.number \in {safe_epoch.number, safe_epoch.number + 1}
        /\ origin # {}
        /\ \A o \in origin : /\ ~(b.timestamp < Timestamp(o.number))
                             /\ ~DriftTooLarge(b.timestamp, o, b.txs, next_epoch, stays)
        /\ b.txs # "invalid"
    BY DEF SingleBatchStatus, HasInvalidTransactions
  <1>4. PICK o \in origin : TRUE
    BY <1>3
  <1>5. o.number = b.epoch.number
    BY <1>0, <1>3, <1>4 DEF Origins, next_epoch, EpochByNumber
  <1>6. b.timestamp = Len(safe_head) + 1
    BY <1>0, <1>1, <1>2, <1>3
  <1>7. PICK t \in Int : t = Timestamp(b.epoch.number)
    BY <1>2, DerivationAssumption DEF Timestamp
  <1>8. t <= Len(safe_head) + 1
    <2>1. ~(b.timestamp < t)
      BY <1>3, <1>4, <1>5, <1>7
    <2>2. QED
      BY <1>0, <1>6, <2>1
  <1>9. ASSUME b.txs = "some" PROVE Len(safe_head) + 1 <= t + MaxSeqDrift
    <2>1. ~(b.timestamp > t + MaxSeqDrift)
      BY <1>3, <1>4, <1>5, <1>7, <1>9 DEF DriftTooLarge
    <2>2. QED
      BY <1>0, <1>6, <2>1, DerivationAssumption
  <1> DEFINE input == [timestamp |-> b.timestamp, epoch |-> b.epoch.number, txs |-> b.txs]
  <1>10. Allowed(input, Len(safe_head) + 1, safe_epoch.number)
    BY <1>3, <1>6, <1>7, <1>8, <1>9 DEF Allowed
  <1>11. Len(InputsOf(b)) = 1 /\ InputsOf(b)[1] = input
    BY <1>6, SingleInput
  <1> HIDE DEF input
  <1>12. \A i \in 1..Len(InputsOf(b)) : i = 1
    BY <1>11
  <1>13. QED
    BY <1>10, <1>11, <1>12 DEF Follow, safe_epoch

\* What span_batch_status has seen of a batch that it accepts.
LEMMA SpanAccepted ==
    ASSUME Types, NEW b \in Batch, b.kind # "single", NEW inclusion,
           SpanBatchStatus(b, inclusion) = "Accept"
    PROVE  /\ ~(b.timestamp > next_timestamp)
           /\ L2InfoByTimestamp(b.timestamp - 1) = {b.parent}
           /\ ~(StartEpochNum(b) < EpochOf(b.parent).number)
           /\ \A i \in DOMAIN b.origin_bits : InputVerdict(b, i) = "Accept"
           /\ ~OverlapDiffers(b)
  <1>1. /\ ~(b.timestamp > next_timestamp)
        /\ L2InfoByTimestamp(b.timestamp - 1) = {b.parent}
        /\ ~(StartEpochNum(b) < EpochOf(b.parent).number)
        /\ IF Stops(b) # {} THEN InputVerdict(b, CHOOSE i \in Stops(b) : TRUE) = "Accept"
           ELSE ~OverlapDiffers(b)
    BY DEF SpanBatchStatus
  <1>2. Stops(b) = {}
    <2> SUFFICES ASSUME Stops(b) # {} PROVE FALSE
      OBVIOUS
    <2>1. (CHOOSE i \in Stops(b) : TRUE) \in Stops(b)
      OBVIOUS
    <2>2. InputVerdict(b, CHOOSE i \in Stops(b) : TRUE) # "Accept"
      BY <2>1 DEF Stops
    <2>3. QED
      BY <1>1, <2>2
  <1>3. \A i \in DOMAIN b.origin_bits : InputVerdict(b, i) = "Accept"
    <2> DEFINE bad == {i \in DOMAIN b.origin_bits : InputVerdict(b, i) # "Accept"}
    <2>1. bad \subseteq Nat
      BY BlockInputsFacts
    <2>2. \A i \in bad : ~\A j \in bad : i <= j
      BY <1>2 DEF Stops
    <2>3. bad = {}
      <3> HIDE DEF bad
      <3>1. QED
        BY <2>1, <2>2, LeastNumber
    <2>4. QED
      BY <2>3
  <1>4. QED
    BY <1>1, <1>2, <1>3


\* The loop on sequencer drift lets only blocks pass that keep the rules on time.
LEMMA VerdictFacts ==
    ASSUME NEW b \in Batch, b.kind # "single", NEW i \in DOMAIN b.origin_bits,
           InputVerdict(b, i) = "Accept"
    PROVE  LET input == BlockInputs(b)[i]
           IN  /\ Timestamp(input.epoch) <= input.timestamp
               /\ input.txs = "some" => input.timestamp <= Timestamp(input.epoch) + MaxSeqDrift
  <1> DEFINE input == BlockInputs(b)[i]
  <1>1. input \in Input
    BY BlockInputsFacts
  <1>2. /\ EpochByNumber(input.epoch) # {}
        /\ \A o \in EpochByNumber(input.epoch) :
             /\ ~(input.timestamp < Timestamp(o.number))
             /\ ~DriftTooLarge(input.timestamp, o, input.txs, EpochByNumber(input.epoch + 1),
                               ~b.origin_bits[i])
    BY DEF InputVerdict
  <1> HIDE DEF input
  <1>3. PICK o \in EpochByNumber(input.epoch) : o.number = input.epoch
    BY <1>2 DEF EpochByNumber
  <1>4. PICK t \in Int : t = Timestamp(input.epoch)
    BY <1>1, DerivationAssumption DEF Timestamp, Input
  <1>5. ~(input.timestamp < t)
    BY <1>2, <1>3, <1>4
  <1>6. input.txs = "some" => ~(input.timestamp > t + MaxSeqDrift)
    BY <1>2, <1>3, <1>4 DEF DriftTooLarge
  <1>7. input.timestamp \in Nat /\ MaxSeqDrift \in Nat
    BY <1>1, DerivationAssumption DEF Input
  <1>8. /\ t <= input.timestamp
        /\ input.txs = "some" => input.timestamp <= t + MaxSeqDrift
    BY <1>5, <1>6, <1>7
  <1>9. QED
    BY <1>4, <1>8 DEF input

\* The blocks of a span batch that is accepted may follow the safe head, those left out
\* that the safe chain already has.
LEMMA SpanFollows ==
    ASSUME Types, GoodChain(safe_head), HeadNoted,
           NEW b \in Batch, b.kind # "single", NEW inclusion,
           SpanBatchStatus(b, inclusion) = "Accept", InputsOf(b) # <<>>
    PROVE  Follow(safe_head, InputsOf(b))
  <1>0. /\ safe_head \in Chain /\ Len(safe_head) \in Nat
        /\ safe_epoch \in Epoch /\ safe_epoch.number \in Nat
    BY ChainFacts DEF Types, safe_epoch, Epoch
  <1>1. next_timestamp = Len(safe_head) + 1 /\ TimeOf(safe_head) = Len(safe_head)
    BY <1>0, GoodHead DEF next_timestamp
  <1> DEFINE bits == b.origin_bits
             I == BlockInputs(b)
             base == b.origin.number - Count(bits)
             CU(i) == CountUpto(bits, i)
  <1>2. /\ b \in SpanRecord /\ ("skip" \notin Kinds => LeavesNoneOut(b))
        /\ DOMAIN bits = 1..Len(bits)
        /\ b.origin.number \in Nat /\ Count(bits) \in Nat
        /\ I \in Seq(Input) /\ Len(I) = Len(bits)
        /\ \A i \in 1..Len(bits) : /\ I[i].timestamp = b.timestamp + i - 1
                                   /\ I[i].epoch = base + CU(i)
                                   /\ I[i].txs \in {"none", "some"}
    BY BlockInputsFacts
  <1>3. /\ ~(b.timestamp > next_timestamp)
        /\ L2InfoByTimestamp(b.timestamp - 1) = {b.parent}
        /\ ~(StartEpochNum(b) < EpochOf(b.parent).number)
        /\ \A i \in DOMAIN bits : InputVerdict(b, i) = "Accept"
        /\ ~OverlapDiffers(b)
    BY SpanAccepted
  <1>4. PICK T \in Nat, n \in Nat, h \in Nat : T = b.timestamp /\ n = Len(bits) /\ h = Len(safe_head)
    BY <1>0, <1>2 DEF SpanRecord
  <1>5. PICK a \in Nat : a = h + 2 - T /\ a >= 1
    BY <1>1, <1>3, <1>4
  <1>6. L2InfoByTimestamp(h) = {safe_head}
    BY <1>4, DerivationAssumption DEF HeadNoted, L2InfoByTimestamp, Number
  <1>7. \A k \in Nat : CU(k) \in Nat /\ CU(k + 1) \in {CU(k), CU(k) + 1}
    BY CountNext
  <1>8. base \in Int
    BY <1>2
  <1>9. StartEpochNum(b) = base + CU(1)
    <2>1. CU(0 + 1) = 0 + (IF bits[0 + 1] THEN 1 ELSE 0)
      BY CountNext
    <2>2. CU(1) = IF bits[1] THEN 1 ELSE 0
      BY <2>1
    <2>3. QED
      BY <2>2 DEF StartEpochNum
  <1> HIDE DEF CU, base, bits, I
  <1>10. \A i \in 1..n : I[i].timestamp = T + i - 1 /\ I[i].txs \in {"none", "some"}
    BY <1>2, <1>4
  <1>11. ASSUME NEW i \in 1..n, i # 1
         PROVE  I[i].epoch \in {I[i - 1].epoch, I[i - 1].epoch + 1}
    <2>1. PICK k \in Nat : k = i - 1 /\ k \in 1..n /\ k + 1 = i
      BY <1>11
    <2>2. I[k].epoch = base + CU(k) /\ I[i].epoch = base + CU(k + 1)
      BY <1>2, <1>4, <2>1
    <2>3. PICK x \in Nat : x = CU(k) /\ CU(k + 1) \in {x, x + 1}
      BY <1>7
    <2>4. QED
      BY <1>8, <2>1, <2>2, <2>3
  <1>12. a <= n /\ InputsOf(b) = Keep(I, a..n)
    <2>1. InputsOf(b) = Keep(I, {i \in DOMAIN I : I[i].timestamp > TimeOf(safe_head)})
      BY DEF InputsOf, FilterInputs, I
    <2>2. DOMAIN I = 1..n
      BY <1>2, <1>4
    <2>3. \A i \in 1..n : I[i].timestamp > TimeOf(safe_head) <=> i >= a
      <3>1. TimeOf(safe_head) = h
        BY <1>1, <1>4
      <3>2. \A i \in 1..n : T + i - 1 > h <=> i >= a
        BY <1>5
      <3>3. QED
        BY <1>10, <3>1, <3>2
    <2>4. {i \in DOMAIN I : I[i].timestamp > TimeOf(safe_head)} = a..n
      BY <1>5, <2>2, <2>3
    <2>5. a..n # {}
      <3>1. InputsOf(b) = Keep(I, a..n)
        BY <2>1, <2>4
      <3>2. a..n \in SUBSET (DOMAIN I)
        BY <1>5, <2>2
      <3>3. QED
        BY <1>2, <3>1, <3>2, KeepFacts
    <2>6. a <= n
      BY <1>5, <2>5
    <2>7. QED
      BY <2>1, <2>4, <2>6
  <1> DEFINE q == InputsOf(b)
  <1>13. Len(q) = n - a + 1 /\ \A k \in 1..(n - a + 1) : q[k] = I[a + k - 1]
    <2>1. Len(I) = n /\ a \in 1..n
      BY <1>2, <1>4, <1>5, <1>12
    <2>2. PICK s \in Seq(Input) : s = I
      BY <1>2
    <2>3. /\ Len(Keep(s, a..Len(s))) = Len(s) - a + 1
          /\ \A k \in 1..(Len(s) - a + 1) : Keep(s, a..Len(s))[k] = s[a + k - 1]
      BY <2>1, <2>2, KeepFrom
    <2>4. q = Keep(s, a..n) /\ Len(s) = n
      BY <1>12, <2>1, <2>2
    <2> HIDE DEF q
    <2>5. QED
      BY <2>2, <2>3, <2>4
  <1> HIDE DEF q
  <1>14. ASSUME "skip" \notin Kinds
         PROVE  I[a].epoch \in {safe_epoch.number, safe_epoch.number + 1}
    <2>1. CASE a = 1
      <3>1. T - 1 = h
        BY <1>5, <2>1
      <3>2. b.parent = safe_head
        BY <1>3, <1>4, <1>6, <3>1
      <3>3. I[1].epoch = base + CU(1)
        BY <1>2, <1>4, <1>12, <2>1
      <3>4. ~(I[1].epoch < safe_epoch.number)
        BY <1>3, <1>9, <3>2, <3>3 DEF safe_epoch
      <3>5. base <= safe_epoch.number
        BY <1>2, <1>14, <3>2 DEF LeavesNoneOut, safe_epoch, base, bits
      <3>6. CU(1) \in {0, 1}
        <4>1. CU(0 + 1) = 0 + (IF bits[0 + 1] THEN 1 ELSE 0)
          BY CountNext DEF CU
        <4>2. QED
          BY <4>1
      <3>7. QED
        BY <1>0, <1>8, <2>1, <3>3, <3>4, <3>5, <3>6
    <2>2. CASE a # 1
      <3>1. PICK k \in Nat : k = a - 1 /\ k \in 1..n
        BY <1>5, <1>12, <2>2
      <3>2. I[k].timestamp = h
        <4>1. T + k - 1 = h
          BY <1>5, <3>1
        <4>2. QED
          BY <1>10, <3>1, <4>1
      <3>3. h < next_timestamp
        BY <1>1, <1>4
      <3>4. I[k].epoch \in {EpochOf(r).number : r \in L2InfoByTimestamp(h)}
        <4>1. k \in DOMAIN b.origin_bits
          BY <1>2, <1>4, <3>1 DEF bits
        <4>2. QED
          BY <1>3, <3>2, <3>3, <4>1 DEF OverlapDiffers, I
      <3>5. I[k].epoch = safe_epoch.number
        BY <1>6, <3>4 DEF safe_epoch
      <3>6. I[a].epoch \in {I[k].epoch, I[k].epoch + 1}
        BY <1>5, <1>11, <1>12, <2>2, <3>1
      <3>7. QED
        BY <3>5, <3>6
    <2>3. QED
      BY <2>1, <2>2
  <1>15. ASSUME NEW i \in 1..Len(q)
         PROVE  Allowed(q[i], Len(safe_head) + i,
                        IF i = 1 THEN EpochOf(safe_head).number ELSE q[i - 1].epoch)
    <2>1. PICK k \in Nat : k = a + i - 1 /\ k \in 1..n /\ i \in 1..(n - a + 1)
      <3>1. i \in 1..(n - a + 1)
        BY <1>13
      <3>2. QED
        BY <1>5, <1>12, <3>1
    <2>2. q[i] = I[k]
      BY <1>13, <2>1
    <2>3. I[k].timestamp = Len(safe_head) + i /\ I[k].txs \in {"none", "some"}
      <3>1. T + k - 1 = h + i
        BY <1>5, <2>1
      <3>2. QED
        BY <1>4, <1>10, <2>1, <3>1
    <2>4. /\ Timestamp(I[k].epoch) <= I[k].timestamp
          /\ I[k].txs = "some" => I[k].timestamp <= Timestamp(I[k].epoch) + MaxSeqDrift
      <3>1. k \in DOMAIN b.origin_bits
        BY <1>2, <1>4, <2>1 DEF bits
      <3>2. InputVerdict(b, k) = "Accept"
        BY <1>3, <3>1 DEF bits
      <3>3. QED
        BY <3>1, <3>2, VerdictFacts DEF I
    <2>5. CASE i = 1
      <3>1. k = a
        BY <2>1, <2>5
      <3>2. \/ I[k].epoch \in {EpochOf(safe_head).number, EpochOf(safe_head).number + 1}
            \/ "skip" \in Kinds
        BY <1>14, <3>1 DEF safe_epoch
      <3>3. QED
        BY <2>2, <2>3, <2>4, <2>5, <3>2 DEF Allowed
    <2>6. CASE i # 1
      <3>1. i - 1 \in 1..(n - a + 1) /\ a + (i - 1) - 1 = k - 1 /\ k # 1
        BY <1>5, <2>1, <2>6
      <3>2. q[i - 1] = I[k - 1]
        BY <1>13, <3>1
      <3>3. I[k].epoch \in {q[i - 1].epoch, q[i - 1].epoch + 1}
        BY <1>11, <2>1, <3>1, <3>2
      <3>4. QED
        BY <2>2, <2>3, <2>4, <2>6, <3>3 DEF Allowed
    <2>7. QED
      BY <2>5, <2>6
  <1>16. QED
    BY <1>15 DEF Follow, q


\* No inputs follow every chain.
LEMMA FollowNone == \A c : Follow(c, <<>>)
  BY DEF Follow

\* A block is derived from the first of some inputs that follow the safe head, and the
\* others are left pending.
LEMMA TakeKeepsRules ==
    ASSUME Types, ViewInv, GoodChain(safe_head), HeadNoted,
           NEW q \in Seq(Input), q # <<>>, Follow(safe_head, q),
           Derive(Head(q)), pending_inputs' = Tail(q)
    PROVE  Rules'
  <1>0. safe_head \in Chain
    BY DEF Types
  <1>1. Head(q) \in Input /\ Allowed(Head(q), Len(safe_head) + 1, safe_epoch.number)
    BY <1>0, FollowFirst DEF safe_epoch
  <1>2. CASE pc' = "panicked" /\ UNCHANGED <<l2_refs, safe_head>>
    BY <1>2 DEF Rules, HeadNoted, Number
  <1>3. ASSUME NEW s \in Chain, safe_head' = s, Len(s) = Len(safe_head) + 1,
               EpochOf(s).number = Head(q).epoch, GoodChain(s), HeadNoted'
        PROVE  Rules'
    <2>1. Follow(s, Tail(q))
      BY <1>0, <1>3, FollowRest
    <2>2. QED
      BY <1>3, <2>1 DEF Rules
  <1>4. QED
    BY <1>1, <1>2, <1>3, DeriveKeepsRules

\* A step of the pipeline keeps the rules.
LEMMA RulesPipeline ==
    ASSUME Types, ViewInv, Rules, PipelineStep
    PROVE  Rules'
  <1>0. /\ safe_head \in Chain /\ GoodChain(safe_head) /\ HeadNoted
        /\ pending_inputs \in Seq(Input)
    BY DEF Types, Rules
  <1>1. CASE NextPending
    <2>1. /\ pc = "derive" /\ pending_inputs # <<>>
          /\ Derive(Head(pending_inputs)) /\ pending_inputs' = Tail(pending_inputs)
      BY <1>1 DEF NextPending
    <2>2. Follow(safe_head, pending_inputs)
      BY <2>1 DEF Rules
    <2>3. QED
      BY <1>0, <2>1, <2>2, TakeKeepsRules
  <1>2. CASE NextBatch
    <2>1. /\ pending_inputs = <<>>
          /\ \/ UNCHANGED <<pending_inputs, seq_vars, l2_refs, safe_head>>
             \/ \E x \in Entry :
                  /\ BatchStatus(x) = "Accept"
                  /\ InputsOf(x.batch) # <<>>
                  /\ Derive(Head(InputsOf(x.batch)))
                  /\ pending_inputs' = Tail(InputsOf(x.batch))
             \/ /\ UNCHANGED pending_inputs
                /\ \E e \in EmptyEpoch :
                     Derive([timestamp |-> next_timestamp, epoch |-> e.number, txs |-> "none"])
      BY <1>2, NextBatchFacts
    <2>2. CASE UNCHANGED <<pending_inputs, seq_vars, l2_refs, safe_head>>
      BY <1>0, <2>1, <2>2, FollowNone DEF Rules, HeadNoted, Number
    <2>3. ASSUME NEW x \in Entry, BatchStatus(x) = "Accept", InputsOf(x.batch) # <<>>,
                 Derive(Head(InputsOf(x.batch))), pending_inputs' = Tail(InputsOf(x.batch))
          PROVE  Rules'
      <3>1. x.batch \in Batch
        BY DEF Entry
      <3>2. InputsOf(x.batch) \in Seq(Input)
        BY <3>1, InputsOfType
      <3>3. Follow(safe_head, InputsOf(x.batch))
        <4>1. CASE x.batch.kind = "single"
          <5>1. SingleBatchStatus(x.batch, x.inclusion) = "Accept"
            BY <2>3, <4>1 DEF BatchStatus
          <5>2. QED
            BY <1>0, <3>1, <4>1, <5>1, SingleFollows
        <4>2. CASE x.batch.kind # "single"
          <5>1. SpanBatchStatus(x.batch, x.inclusion) = "Accept"
            BY <2>3, <4>2 DEF BatchStatus
          <5>2. QED
            BY <1>0, <2>3, <3>1, <4>2, <5>1, SpanFollows
        <4>3. QED
          BY <4>1, <4>2
      <3>4. QED
        BY <1>0, <2>3, <3>2, <3>3, TakeKeepsRules
    <2>4. ASSUME NEW e \in EmptyEpoch, UNCHANGED pending_inputs,
                 Derive([timestamp |-> next_timestamp, epoch |-> e.number, txs |-> "none"])
          PROVE  Rules'
      <3>1. PICK input \in Input : Derive(input) /\ Allowed(input, Len(safe_head) + 1, safe_epoch.number)
        BY <1>0, <2>4, EmptyAllowed
      <3>2. pending_inputs' = <<>>
        BY <2>1, <2>4
      <3>3. GoodChain(safe_head)' /\ HeadNoted'
        <4>1. CASE UNCHANGED <<l2_refs, safe_head>>
          BY <1>0, <4>1 DEF HeadNoted, Number
        <4>2. QED
          BY <1>0, <3>1, <4>1, DeriveKeepsRules
      <3>4. Follow(safe_head, pending_inputs)'
        BY <3>2, FollowNone
      <3>5. QED
        BY <3>3, <3>4 DEF Rules
    <2>5. QED
      BY <2>1, <2>2, <2>3, <2>4
  <1>3. CASE DecodeFails
    <2>1. pending_inputs' = <<>> /\ UNCHANGED <<l2_refs, safe_head>>
      BY <1>3 DEF DecodeFails, state_vars
    <2>2. QED
      BY <1>0, <2>1, FollowNone DEF Rules, HeadNoted, Number
  <1>4. QED
    BY <1>1, <1>2, <1>3 DEF PipelineStep

\* The driver's other steps keep the rules: a reorg goes back to the finalized head.
LEMMA RulesStep ==
    ASSUME Types, Places, ViewInv, Rules, [Next]_vars
    PROVE  Rules'
  <1>0. safe_head \in Chain /\ finalized_head \in Chain /\ GoodChain(safe_head)
    BY DEF Types, Rules
  <1>1. CASE L1Step
    <2>1. UNCHANGED <<pending_inputs, l2_refs, safe_head, pc>>
      BY <1>1, L1StepFacts DEF state_vars, batch_vars
    <2>2. QED
      BY <2>1 DEF Rules, HeadNoted, Number
  <1>2. CASE PipelineStep
    BY <1>2, RulesPipeline
  <1>3. CASE NewBlock
    <2> DEFINE old == Pruned(l2_refs, LookbackStart(safe_head))
    <2>1. /\ UNCHANGED <<pending_inputs, safe_head>> /\ pc = "idle"
          /\ l2_refs' = Put(old, Number(safe_head), safe_head)
      BY <1>3 DEF NewBlock, UpdateSafeHead
    <2> HIDE DEF old
    <2>2. HeadNoted'
      <3>1. Number(safe_head)' = Number(safe_head)
        BY <2>1
      <3>2. QED
        BY <2>1, <3>1 DEF HeadNoted, Put
    <2>3. QED
      BY <2>1, <2>2 DEF Rules
  <1>4. CASE Reorg
    <2>1. /\ pending_inputs' = <<>> /\ safe_head' = finalized_head
          /\ l2_refs' = Put(l2_refs, Number(finalized_head), finalized_head)
      BY <1>4 DEF Reorg, PurgeState, UpdateSafeHead, PurgeAttributes, PurgeBatches
    <2>2. HeadNoted'
      <3>1. Number(safe_head)' = Number(finalized_head)
        BY <2>1 DEF Number
      <3>2. QED
        BY <2>1, <3>1 DEF HeadNoted, Put
    <2>3. GoodChain(finalized_head)
      BY <1>0, GoodPart DEF Places, FinalizedBelow
    <2>4. QED
      BY <2>1, <2>2, <2>3, FollowNone DEF Rules
  <1>5. CASE NoUpdate
    <2>1. UNCHANGED <<pending_inputs, l2_refs, safe_head>> /\ pc = "idle"
      BY <1>5 DEF NoUpdate, state_vars, batch_vars
    <2>2. QED
      BY <2>1 DEF Rules, HeadNoted, Number
  <1>6. CASE Finalize
    BY <1>6 DEF Finalize, state_vars, batch_vars, Rules, HeadNoted, Number
  <1>7. CASE UNCHANGED vars
    BY <1>7 DEF vars, state_vars, batch_vars, Rules, HeadNoted, Number
  <1>8. QED
    BY <1>1, <1>2, <1>3, <1>4, <1>5, <1>6, <1>7 DEF Next

\* The rules always hold.
LEMMA RulesHold == Spec => [](Types /\ Rules)
  <1>1. Init => Rules
    <2> SUFFICES ASSUME Init PROVE Rules
      OBVIOUS
    <2>1. /\ safe_head = <<>> /\ pending_inputs = <<>>
          /\ l2_refs = [n \in {L2Genesis} |-> <<>>]
      BY DEF Init, Genesis
    <2>2. Number(safe_head) = L2Genesis
      BY <2>1, DerivationAssumption DEF Number
    <2>3. HeadNoted
      BY <2>1, <2>2 DEF HeadNoted
    <2>4. GoodChain(safe_head)
      BY <2>1 DEF GoodChain
    <2>5. QED
      BY <2>1, <2>3, <2>4, FollowNone DEF Rules
  <1>2. Types /\ Places /\ ViewInv /\ Rules /\ [Next]_vars => Rules'
    BY RulesStep
  <1>3. QED
    BY <1>1, <1>2, InvariantHolds, PTL DEF Spec

\* Whatever single and span batches are posted, early, repeated, overlapping or invalid
\* ones among them, Batches::try_next (batches.rs) makes one block per slot, in the epoch
\* of the block before it or in the next one, never before that one began.  Span batches
\* that leave out an epoch are the exception that span_batch_status lets through.
THEOREM EpochsAdvanceCorrect == "skip" \notin Kinds /\ Spec => []EpochsAdvance
  <1> SUFFICES ASSUME "skip" \notin Kinds PROVE Spec => []EpochsAdvance
    OBVIOUS
  <1>1. Types /\ Rules => EpochsAdvance
    <2> SUFFICES ASSUME Types, Rules, NEW n \in 1..Len(safe_head)
                 PROVE  LET e == safe_head[n].epoch
                            p == EpochOf(Before(n))
                        IN  /\ safe_head[n].time = n
                            /\ e = p \/ e.number = p.number + 1
                            /\ Timestamp(e.number) <= n
      BY DEF EpochsAdvance
    <2>1. safe_head \in Chain /\ Len(safe_head) \in Nat /\ GoodChain(safe_head)
      BY ChainFacts DEF Types, Rules
    <2>2. PICK m \in 0..Len(safe_head) : m = n - 1
      BY <2>1
    <2>3. EpochOf(Before(n)) = EpochBefore(safe_head, n)
      <3>1. Before(n) = SubSeq(safe_head, 1, m)
        BY <2>2 DEF Before
      <3>2. EpochOf(SubSeq(safe_head, 1, m)) = IF m = 0 THEN [number |-> 0, hash |-> 0]
                                               ELSE safe_head[m].epoch
        BY <2>1, <2>2, ChainPart
      <3>3. m = 0 <=> n = 1
        BY <2>1, <2>2
      <3>4. QED
        BY <2>2, <3>1, <3>2, <3>3 DEF EpochBefore
    <2>4. QED
      BY <2>1, <2>3 DEF GoodChain
  <1>2. QED
    BY <1>1, RulesHold, PTL

\* Transactions are only in blocks within the sequencer drift of their epoch, and no batch
\* smuggles a deposit in (single_batch_status, span_batch_status), whatever is posted.
THEOREM DriftBoundedCorrect == Spec => []DriftBounded
  <1>1. Types /\ Rules => DriftBounded
    BY DEF Rules, GoodChain, DriftBounded
  <1>2. QED
    BY <1>1, RulesHold, PTL

-----------------------------------------------------------------------------
(* NoPanic *)

\* A single batch that may be in L1 block n is of an epoch before it; a span batch has
\* at most two blocks.
Bounded(b, n) == IF b.kind = "single" THEN b.epoch.number < n ELSE Len(b.origin_bits) <= 2

TxBounded(tx, n) ==
    tx.type = "channel" => \A i \in DOMAIN tx.batches : Bounded(tx.batches[i], n)

\* An L1 chain on which the batcher knows no epoch before it is mined.
PostedBounded(c) ==
    \A k \in 1..Len(c) :
        /\ EpochOf(c[k].tip).number < k
        /\ \A i \in DOMAIN c[k].txs : TxBounded(c[k].txs[i], k - 1)

\* A channel holds one batch.
LEMMA ChannelBounded ==
    ASSUME NEW b, NEW n, Bounded(b, n)
    PROVE  TxBounded(Channel(b), n)
  <1>1. Channel(b).batches = <<b>>
    BY DEF Channel
  <1>2. \A i \in DOMAIN <<b>> : <<b>>[i] = b
    OBVIOUS
  <1>3. QED
    BY <1>1, <1>2, Zenon DEF TxBounded

\* The two kinds of batches made of a chain.
LEMMA BatchesBounded ==
    ASSUME NEW b \in Tip, b # Genesis, NEW n \in Nat, EpochOf(b).number < n
    PROVE  /\ Bounded(SingleBatch(b), n)
           /\ Bounded([SingleBatch(b) EXCEPT !.parent = b], n)
           /\ Bounded([SingleBatch(b) EXCEPT !.txs = "invalid"], n)
  BY DEF Bounded, SingleBatch

LEMMA SpansBounded ==
    ASSUME NEW b \in Tip, NEW n
    PROVE  /\ Len(b) >= 2 => Bounded(SpanBatch(b, Len(b) - 2), n)
           /\ \A e : Bounded([SpanBatch(b, Len(b) - 1) EXCEPT
                                !.origin = e, !.origin_bits = <<TRUE>>], n)
  <1>1. ASSUME Len(b) >= 2 PROVE Bounded(SpanBatch(b, Len(b) - 2), n)
    <2> DEFINE m == Len(b) - 2
    <2>1. m \in Nat /\ m < Len(b) /\ Len(b) - m = 2
      BY <1>1, ChainFacts DEF Tip
    <2> HIDE DEF m
    <2>2. Len(SpanBatch(b, m).origin_bits) = 2
      BY <2>1, SpanBatchRecord
    <2>3. SpanBatch(b, m).kind = "span"
      BY DEF SpanBatch
    <2>4. Bounded(SpanBatch(b, m), n)
      BY <2>2, <2>3 DEF Bounded
    <2>5. QED
      BY <2>4 DEF m
  <1>2. ASSUME NEW e PROVE Bounded([SpanBatch(b, Len(b) - 1) EXCEPT
                                      !.origin = e, !.origin_bits = <<TRUE>>], n)
    <2> DEFINE s == [SpanBatch(b, Len(b) - 1) EXCEPT !.origin = e, !.origin_bits = <<TRUE>>]
    <2>1. s.kind = "span" /\ s.origin_bits = <<TRUE>>
      BY DEF SpanBatch
    <2> HIDE DEF s
    <2>2. Len(<<TRUE>>) = 1
      OBVIOUS
    <2>3. Bounded(s, n)
      BY <2>1, <2>2 DEF Bounded
    <2>4. QED
      BY <2>3 DEF s
  <1>3. QED
    BY <1>1, <1>2

\* The batcher posts blocks of epochs that are on the chain it extends.
LEMMA PostBounded ==
    ASSUME NEW c \in Seq(L1Block), NEW tip \in Tip, EpochOf(tip).number < Len(c),
           NEW p \in Post(tip, c)
    PROVE  EpochOf(p.tip).number < Len(c) /\ TxBounded(p.tx, Len(c))
  <1> DEFINE one == Sequenced(tip, c)
             two == UNION {Sequenced(b, c) : b \in one}
             far == EpochOf(tip).number + 2
             n   == Len(c)
             skipped(b) == [SpanBatch(b, Len(b) - 1) EXCEPT
                              !.origin = [number |-> far, hash |-> c[far + 1].hash],
                              !.origin_bits = <<TRUE>>]
  <1>1. n \in Nat
    OBVIOUS
  <1>2. \A b \in one : b \in Tip /\ b # Genesis /\ EpochOf(b).number < n
    BY SequencedType
  <1>3. \A b \in two : b \in Tip /\ b # Genesis /\ EpochOf(b).number < n /\ Len(b) >= 2
    <2>1. ASSUME NEW a \in one, NEW b \in Sequenced(a, c)
          PROVE  b \in Tip /\ b # Genesis /\ EpochOf(b).number < n /\ Len(b) >= 2
      <3>1. a \in Tip /\ EpochOf(a).number < n /\ Len(a) = Len(tip) + 1 /\ Len(tip) \in Nat
        BY <1>2, SequencedType, ChainFacts DEF Tip
      <3>2. QED
        BY <3>1, SequencedType
    <2>2. QED
      BY <2>1
  <1>4. \/ \E k \in {"frame", "corrupt"} : p.tx = [type |-> k] /\ p.tip = tip
        \/ \E b \in one : p.tx = Channel(SingleBatch(b)) /\ p.tip = b
        \/ \E b \in two : p.tx = Channel(SpanBatch(b, Len(b) - 2)) /\ p.tip = b
        \/ tip # Genesis /\ p.tx = Channel(SingleBatch(tip)) /\ p.tip = tip
        \/ \E b \in one : Len(b) >= 2 /\ p.tx = Channel(SpanBatch(b, Len(b) - 2)) /\ p.tip = b
        \/ \E b \in two : p.tx = Channel(SingleBatch(b)) /\ p.tip = tip
        \/ \E b \in one : p.tx = Channel([SingleBatch(b) EXCEPT !.parent = b]) /\ p.tip = tip
        \/ \E b \in one : p.tx = Channel([SingleBatch(b) EXCEPT !.txs = "invalid"]) /\ p.tip = tip
        \/ /\ "skip" \in Kinds /\ far < Len(c) /\ p.tip = tip
           /\ \E b \in one : p.tx = Channel(skipped(b))
    BY PostCases, Zenon
  <1>5. \A b \in one : Bounded(skipped(b), n)
    BY <1>2, SpansBounded
  <1> HIDE DEF one, two, far, n, skipped
  <1>6. EpochOf(tip).number < n
    BY DEF n
  <1>7. \A k \in {"frame", "corrupt"} : TxBounded([type |-> k], n)
    BY DEF TxBounded
  <1>8. \A b : Bounded(b, n) => TxBounded(Channel(b), n)
    BY ChannelBounded
  <1>9. ASSUME NEW b \in Tip, b # Genesis, EpochOf(b).number < n
        PROVE  /\ Bounded(SingleBatch(b), n)
               /\ Bounded([SingleBatch(b) EXCEPT !.parent = b], n)
               /\ Bounded([SingleBatch(b) EXCEPT !.txs = "invalid"], n)
    BY <1>1, <1>9, BatchesBounded
  <1>10. \A b \in Tip : Len(b) >= 2 => Bounded(SpanBatch(b, Len(b) - 2), n)
    BY SpansBounded
  <1>11. EpochOf(p.tip).number < n /\ TxBounded(p.tx, n)
    BY <1>2, <1>3, <1>4, <1>5, <1>6, <1>7, <1>8, <1>9, <1>10, Zenon
  <1>12. QED
    BY <1>11 DEF n

LEMMA PostsBounded ==
    ASSUME NEW c \in Seq(L1Block), c # <<>>, EpochOf(Last(c).tip).number < Len(c),
           NEW p \in Posts(c)
    PROVE  /\ EpochOf(p.tip).number < Len(c)
           /\ \A i \in DOMAIN p.txs : TxBounded(p.txs[i], Len(c))
  <1> DEFINE n == Len(c)
             OK(q) == /\ q.txs \in Seq(Tx) /\ q.tip \in Tip
                      /\ EpochOf(q.tip).number < n
                      /\ \A i \in DOMAIN q.txs : TxBounded(q.txs[i], n)
             none == {[txs |-> <<>>, tip |-> Last(c).tip, timely |-> TRUE]}
             After(ps) == UNION {{[txs |-> Append(q.txs, r.tx), tip |-> r.tip,
                                   timely |-> q.timely /\ r.timely] : r \in Post(q.tip, c)} :
                                 q \in ps}
  <1>1. \A q \in none : OK(q)
    <2>1. Last(c) \in L1Block
      BY FrontIsParent
    <2>2. Last(c).tip \in Tip /\ EpochOf(Last(c).tip).number < n
      BY <2>1 DEF L1Block
    <2>3. ASSUME NEW q \in none PROVE q.txs = <<>> /\ q.tip = Last(c).tip
      BY <2>3
    <2>4. <<>> \in Seq(Tx) /\ DOMAIN <<>> = {}
      OBVIOUS
    <2> HIDE DEF none, n
    <2>5. QED
      BY <2>2, <2>3, <2>4
  <1>2. ASSUME NEW ps, \A q \in ps : OK(q) PROVE \A q \in After(ps) : OK(q)
    <2>1. ASSUME NEW x \in After(ps) PROVE OK(x)
      <3>1. PICK q \in ps : \E r \in Post(q.tip, c) :
              x = [txs |-> Append(q.txs, r.tx), tip |-> r.tip, timely |-> q.timely /\ r.timely]
        BY <2>1, Zenon
      <3>2. PICK r \in Post(q.tip, c) :
              x = [txs |-> Append(q.txs, r.tx), tip |-> r.tip, timely |-> q.timely /\ r.timely]
        BY <3>1
      <3>3. x.txs = Append(q.txs, r.tx) /\ x.tip = r.tip
        BY <3>2
      <3>4. OK(q)
        BY <1>2
      <3>5. r.tx \in Tx /\ r.tip \in Tip
        BY <3>4, PostType
      <3>6. EpochOf(r.tip).number < n /\ TxBounded(r.tx, n)
        BY <3>4, PostBounded
      <3> HIDE DEF n
      <3>7. Append(q.txs, r.tx) \in Seq(Tx)
            /\ \A i \in DOMAIN Append(q.txs, r.tx) : TxBounded(Append(q.txs, r.tx)[i], n)
        <4>1. q.txs \in Seq(Tx) /\ \A i \in DOMAIN q.txs : TxBounded(q.txs[i], n)
          BY <3>4
        <4> DEFINE s == q.txs
                   t == r.tx
        <4>2. s \in Seq(Tx) /\ t \in Tx /\ TxBounded(t, n) /\ \A i \in 1..Len(s) : TxBounded(s[i], n)
          BY <3>5, <3>6, <4>1
        <4> HIDE DEF s, t
        <4>3. /\ Append(s, t) \in Seq(Tx) /\ Len(s) \in Nat
              /\ DOMAIN Append(s, t) = 1..(Len(s) + 1)
              /\ \A i \in 1..Len(s) : Append(s, t)[i] = s[i]
              /\ Append(s, t)[Len(s) + 1] = t
          BY <4>2, AppendProperties
        <4>4. \A i \in 1..(Len(s) + 1) : i \in 1..Len(s) \/ i = Len(s) + 1
          BY <4>3
        <4>5. \A i \in DOMAIN Append(s, t) : TxBounded(Append(s, t)[i], n)
          BY <4>2, <4>3, <4>4, Zenon
        <4>6. QED
          BY <4>3, <4>5 DEF s, t
      <3>8. QED
        BY <3>3, <3>5, <3>6, <3>7
    <2>2. QED
      BY <2>1
  <1>3. Posts(c) = none \cup (IF MaxTxs >= 1 THEN After(none) ELSE {})
                        \cup (IF MaxTxs >= 2 THEN After(IF MaxTxs >= 1 THEN After(none) ELSE {}) ELSE {})
    BY DEF Posts
  <1> DEFINE one == IF MaxTxs >= 1 THEN After(none) ELSE {}
  <1> HIDE DEF OK, none, After
  <1>4. \A q \in one : OK(q)
    BY <1>1, <1>2
  <1> HIDE DEF one
  <1>5. \A q \in After(one) : OK(q)
    BY <1>2, <1>4
  <1>6. p \in none \cup one \cup After(one)
    BY <1>3 DEF one
  <1>7. OK(p)
    BY <1>1, <1>4, <1>5, <1>6
  <1>8. QED
    BY <1>7 DEF OK

LEMMA ExtendedBounded ==
    ASSUME NEW c \in Seq(L1Block), c # <<>>, PostedBounded(c), NEW d \in Extended(c)
    PROVE  PostedBounded(d)
  <1> DEFINE n == Len(c)
  <1>1. n \in Nat /\ n >= 1 /\ Last(c) = c[n]
    BY EmptySeq DEF Last
  <1>2. EpochOf(Last(c).tip).number < n
    BY <1>1 DEF PostedBounded
  <1>3. PICK p \in Posts(c) : d = Append(c, [hash |-> minted + 1, txs |-> p.txs, tip |-> p.tip])
    BY DEF Extended
  <1>4. EpochOf(p.tip).number < n /\ \A i \in DOMAIN p.txs : TxBounded(p.txs[i], n)
    BY <1>2, PostsBounded
  <1>5. EpochOf(p.tip).number \in Nat
    <2>1. p.tip \in Chain
      BY PostsType DEF Tip
    <2>2. QED
      BY <2>1, ChainFacts DEF Epoch
  <1> DEFINE r == [hash |-> minted + 1, txs |-> p.txs, tip |-> p.tip]
  <1>6. r.txs = p.txs /\ r.tip = p.tip
    OBVIOUS
  <1> HIDE DEF r
  <1>7. d = Append(c, r)
    BY <1>3 DEF r
  <1>8. Len(d) = n + 1 /\ d[n + 1] = r /\ \A k \in 1..n : d[k] = c[k]
    BY <1>7
  <1>9. ASSUME NEW k \in 1..(n + 1)
        PROVE  /\ EpochOf(d[k].tip).number < k
               /\ \A i \in DOMAIN d[k].txs : TxBounded(d[k].txs[i], k - 1)
    <2>1. CASE k \in 1..n
      BY <1>8, <2>1 DEF PostedBounded
    <2>2. CASE k = n + 1
      <3>1. k - 1 = n /\ d[k] = r
        BY <1>1, <1>8, <2>2
      <3>2. EpochOf(r.tip).number < k
        BY <1>1, <1>4, <1>5, <1>6, <2>2
      <3>3. QED
        BY <1>4, <1>6, <3>1, <3>2
    <2>3. QED
      BY <1>1, <2>1, <2>2
  <1>10. QED
    BY <1>8, <1>9 DEF PostedBounded

\* The single batches in the stages are of epochs that have been read; span batches are short.
BatchesSourced ==
    /\ PostedBounded(l1)
    /\ \A i \in 1..Len(txs) : TxBounded(txs[i].tx, next_block)
    /\ \A t \in DOMAIN batches : Bounded(batches[t].batch, next_block)

\* So is what may be taken next.
LEMMA OfferBounded ==
    ASSUME Types, BatchesSourced, NEW x, OnOffer(x)
    PROVE  Bounded(x.batch, next_block)
  <1>1. CASE \E t \in DOMAIN batches : x = batches[t]
    BY <1>1 DEF BatchesSourced
  <1>2. CASE /\ txs # <<>> /\ Head(txs).tx.type = "channel"
             /\ \E i \in DOMAIN Head(txs).tx.batches : x.batch = Head(txs).tx.batches[i]
    <2>1. txs \in Seq(Queued) /\ txs # <<>>
      BY <1>2 DEF Types
    <2>2. 1 \in 1..Len(txs) /\ Head(txs) = txs[1]
      BY <2>1, EmptySeq
    <2>3. TxBounded(Head(txs).tx, next_block)
      BY <2>2 DEF BatchesSourced
    <2>4. QED
      BY <1>2, <2>3, Zenon DEF TxBounded
  <1>3. QED
    BY <1>1, <1>2, Zenon DEF OnOffer

\* What has been read stays read.
LEMMA BoundedGrows ==
    ASSUME NEW n \in Nat
    PROVE  /\ \A b \in Batch : Bounded(b, n) => Bounded(b, n + 1)
           /\ \A tx \in Tx : TxBounded(tx, n) => TxBounded(tx, n + 1)
  <1>1. ASSUME NEW b \in Batch, Bounded(b, n) PROVE Bounded(b, n + 1)
    <2>1. CASE b.kind = "single"
      <3>1. b.epoch.number \in Nat
        BY <2>1 DEF Batch, SpanRecord, SingleRecord, Epoch
      <3>2. QED
        BY <1>1, <2>1, <3>1 DEF Bounded
    <2>2. CASE b.kind # "single"
      BY <1>1, <2>2 DEF Bounded
    <2>3. QED
      BY <2>1, <2>2
  <1>2. ASSUME NEW tx \in Tx, TxBounded(tx, n) PROVE TxBounded(tx, n + 1)
    <2>1. CASE tx.type = "channel"
      <3>1. tx.batches \in Seq(Batch)
        BY <2>1 DEF Tx
      <3>2. \A i \in DOMAIN tx.batches : tx.batches[i] \in Batch
        BY <3>1
      <3>3. QED
        BY <1>1, <1>2, <2>1, <3>2, Zenon DEF TxBounded
    <2>2. CASE tx.type # "channel"
      BY <2>2 DEF TxBounded
    <2>3. QED
      BY <2>1, <2>2
  <1>3. QED
    BY <1>1, <1>2

LEMMA SourcedL1Step ==
    ASSUME Types, BatchesSourced, L1Step
    PROVE  BatchesSourced'
  <1>1. l1 \in Seq(L1Block) /\ Len(l1) \in Nat /\ l1_finalized \in 0..(Len(l1) - 1)
        /\ PostedBounded(l1)
    BY DEF Types, BatchesSourced
  <1>2. PICK n \in (l1_finalized + 1)..Len(l1) : l1' \in Extended(SubSeq(l1, 1, n))
    BY L1Extends
  <1> DEFINE c == SubSeq(l1, 1, n)
  <1>3. n \in Nat /\ n >= 1 /\ n <= Len(l1)
    BY <1>1
  <1>4. c \in Seq(L1Block) /\ Len(c) = n /\ \A i \in 1..n : c[i] = l1[i]
    BY <1>1, <1>3, PrefixSubSeq
  <1>5. l1' \in Extended(c)
    BY <1>2
  <1> HIDE DEF c
  <1>6. c # <<>>
    BY <1>3, <1>4
  <1>7. PostedBounded(c)
    <2>1. \A k \in 1..n : k \in 1..Len(l1)
      BY <1>1, <1>3
    <2>2. QED
      BY <1>1, <1>4, <2>1 DEF PostedBounded
  <1>8. PICK d : d = l1'
    OBVIOUS
  <1>9. PostedBounded(d)
    BY <1>4, <1>5, <1>6, <1>7, <1>8, ExtendedBounded
  <1>10. UNCHANGED <<watcher_vars, batch_vars>>
    BY L1StepFacts
  <1>11. QED
    BY <1>8, <1>9, <1>10 DEF BatchesSourced, PostedBounded, watcher_vars, batch_vars

LEMMA SourcedTail ==
    ASSUME Types, BatchesSourced, txs # <<>>
    PROVE  \A i \in 1..Len(Tail(txs)) : TxBounded(Tail(txs)[i].tx, next_block)
  <1>1. PICK s : s = txs
    OBVIOUS
  <1>2. s \in Seq(Queued) /\ s # <<>> /\ \A i \in 1..Len(s) : TxBounded(s[i].tx, next_block)
    BY <1>1 DEF Types, BatchesSourced
  <1>3. /\ Len(s) \in Nat /\ Len(Tail(s)) = Len(s) - 1
        /\ \A i \in 1..(Len(s) - 1) : Tail(s)[i] = s[i + 1] /\ i + 1 \in 1..Len(s)
    BY <1>2, EmptySeq
  <1>4. QED
    BY <1>1, <1>2, <1>3

LEMMA SourcedPipeline ==
    ASSUME Types, BatchesSourced, PipelineStep
    PROVE  BatchesSourced'
  <1>1. UNCHANGED <<l1, next_block>>
    BY PipelineFacts DEF l1_vars, watcher_vars
  <1>2. CASE NextPending
    BY <1>1, <1>2 DEF NextPending, BatchesSourced, PostedBounded
  <1>3. ASSUME txs' = IF txs = <<>> THEN <<>> ELSE Tail(txs)
        PROVE  \A i \in 1..Len(txs') : TxBounded(txs'[i].tx, next_block)
    <2>1. CASE txs = <<>>
      BY <1>3, <2>1
    <2>2. CASE txs # <<>>
      BY <1>3, <2>2, SourcedTail
    <2>3. QED
      BY <2>1, <2>2
  <1>4. CASE NextBatch
    <2>1. \A t \in DOMAIN batches' : OnOffer(batches'[t])
      BY <1>4, NextBatchFacts
    <2>2. \A t \in DOMAIN batches' : Bounded(batches'[t].batch, next_block)
      BY <2>1, OfferBounded
    <2>3. txs' = IF txs = <<>> THEN <<>> ELSE Tail(txs)
      BY <1>4 DEF NextBatch
    <2>4. QED
      BY <1>1, <1>3, <2>2, <2>3 DEF BatchesSourced, PostedBounded
  <1>5. CASE DecodeFails
    <2>1. txs' = (IF txs = <<>> THEN <<>> ELSE Tail(txs)) /\ batches' = batches
      BY <1>5 DEF DecodeFails
    <2>2. QED
      BY <1>1, <1>3, <2>1 DEF BatchesSourced, PostedBounded
  <1>6. QED
    BY <1>2, <1>4, <1>5 DEF PipelineStep

LEMMA SourcedNewBlock ==
    ASSUME Types, BatchesSourced, NewBlock
    PROVE  BatchesSourced'
  <1>1. /\ UNCHANGED <<l1, batches>>
        /\ next_block < Len(l1)
        /\ txs' = Enqueued(l1[next_block + 1])
        /\ next_block' = next_block + 1
    BY DEF NewBlock, l1_vars
  <1>2. l1 \in Seq(L1Block) /\ Len(l1) \in Nat /\ next_block \in Nat /\ txs \in Seq(Queued)
    BY DEF Types
  <1>3. next_block + 1 \in 1..Len(l1) /\ next_block + 1 - 1 = next_block
    BY <1>1, <1>2
  <1>4. PICK block \in L1Block : block = l1[next_block + 1]
    BY <1>2, <1>3, ElementOfSeq
  <1>5. block.txs \in Seq(Tx) /\ \A i \in DOMAIN block.txs : TxBounded(block.txs[i], next_block)
    <2>1. PICK k \in 1..Len(l1) : k = next_block + 1 /\ k - 1 = next_block
      BY <1>2, <1>3
    <2>2. \A i \in DOMAIN l1[k].txs : TxBounded(l1[k].txs[i], k - 1)
      BY DEF BatchesSourced, PostedBounded
    <2>3. QED
      BY <1>4, <2>1, <2>2 DEF L1Block
  <1> DEFINE n == next_block
             s == txs
             more == [i \in DOMAIN block.txs |-> [tx |-> block.txs[i], inclusion |-> n]]
             q == s \o more
  <1>6. more \in Seq(Queued)
        /\ \A i \in 1..Len(more) : more[i].tx \in Tx /\ TxBounded(more[i].tx, n)
    <2>1. DOMAIN block.txs = 1..Len(block.txs) /\ Len(block.txs) \in Nat
          /\ \A i \in 1..Len(block.txs) : block.txs[i] \in Tx
      BY <1>5
    <2>2. \A i \in 1..Len(block.txs) : more[i].tx = block.txs[i] /\ more[i] \in Queued
      BY <1>2, <2>1 DEF Queued
    <2>3. more \in Seq(Queued) /\ Len(more) = Len(block.txs)
      <3>1. PICK k \in Nat : k = Len(block.txs)
        BY <2>1
      <3>2. more = [i \in 1..k |-> more[i]] /\ \A i \in 1..k : more[i] \in Queued
        BY <2>1, <2>2, <3>1
      <3> HIDE DEF more
      <3>3. [i \in 1..k |-> more[i]] \in Seq(Queued) /\ Len([i \in 1..k |-> more[i]]) = k
        BY <3>2
      <3>4. QED
        BY <3>1, <3>2, <3>3
    <2> HIDE DEF more, n
    <2>4. QED
      BY <1>5, <2>1, <2>2, <2>3 DEF n
  <1>7. txs' = q
    BY <1>1, <1>4 DEF Enqueued
  <1>8. \A i \in 1..Len(s) : s[i].tx \in Tx /\ TxBounded(s[i].tx, n)
    <2>1. \A i \in 1..Len(s) : s[i] \in Queued
      BY <1>2
    <2>2. QED
      BY <2>1 DEF BatchesSourced, Queued
  <1>9. s \in Seq(Queued) /\ n \in Nat
    BY <1>2
  <1> HIDE DEF s, more, n
  <1>10. \A i \in 1..Len(q) : q[i].tx \in Tx /\ TxBounded(q[i].tx, n)
    <2>1. /\ Len(s) \in Nat /\ Len(more) \in Nat /\ Len(q) = Len(s) + Len(more)
          /\ \A i \in 1..Len(s) : q[i] = s[i]
          /\ \A i \in 1..Len(more) : q[Len(s) + i] = more[i]
      BY <1>6, <1>9, ConcatProperties
    <2>2. ASSUME NEW i \in 1..Len(q) PROVE q[i].tx \in Tx /\ TxBounded(q[i].tx, n)
      <3>1. CASE i <= Len(s)
        <4>1. i \in 1..Len(s)
          BY <2>1, <3>1
        <4>2. QED
          BY <1>8, <2>1, <4>1
      <3>2. CASE i > Len(s)
        <4>1. i - Len(s) \in 1..Len(more) /\ Len(s) + (i - Len(s)) = i
          BY <2>1, <3>2
        <4>2. q[i] = more[i - Len(s)]
          BY <2>1, <4>1
        <4>3. QED
          BY <1>6, <4>1, <4>2
      <3>3. QED
        BY <2>1, <3>1, <3>2
    <2>3. QED
      BY <2>2
  <1> HIDE DEF q
  <1>11. \A i \in 1..Len(q) : TxBounded(q[i].tx, n + 1)
    BY <1>9, <1>10, BoundedGrows
  <1>12. \A t \in DOMAIN batches : Bounded(batches[t].batch, n + 1)
    <2>1. \A t \in DOMAIN batches : batches[t].batch \in Batch /\ Bounded(batches[t].batch, n)
      BY DEF Types, Entry, BatchesSourced, n
    <2>2. QED
      BY <1>9, <2>1, BoundedGrows
  <1>13. next_block' = n + 1 /\ PostedBounded(l1)
    BY <1>1 DEF n, BatchesSourced
  <1>14. QED
    BY <1>1, <1>7, <1>11, <1>12, <1>13 DEF BatchesSourced, PostedBounded

LEMMA SourcedStep ==
    ASSUME Types, BatchesSourced, [Next]_vars
    PROVE  BatchesSourced'
  <1>1. CASE Reorg
    BY <1>1 DEF Reorg, PurgeAttributes, PurgeBatches, BatchesSourced, PostedBounded, l1_vars
  <1>2. CASE UNCHANGED <<l1, batches, txs, next_block>>
    BY <1>2 DEF BatchesSourced, PostedBounded
  <1>3. QED
    BY <1>1, <1>2, SourcedL1Step, SourcedPipeline, SourcedNewBlock
    DEF Next, NoUpdate, Finalize, vars, l1_vars, watcher_vars, batch_vars

\* The cached L2 blocks up to the safe head are its parts.
RefsBelow ==
    /\ \A n \in DOMAIN l2_refs : n >= L2Genesis
    /\ \A m \in 0..Len(safe_head) :
         L2Genesis + m \in DOMAIN l2_refs => l2_refs[L2Genesis + m] = SubSeq(safe_head, 1, m)

\* Of the L1 blocks read, those from two below the safe epoch on are cached.
Covered == \A m \in 0..(next_block - 1) : m + 2 >= safe_epoch.number => m \in DOMAIN l1_info

\* Blocks of a batch are pending only within an advance, and their epochs are cached.
PendingCached ==
    /\ pc = "idle" => pending_inputs = <<>>
    /\ \A i \in 1..Len(pending_inputs) : pending_inputs[i].epoch \in DOMAIN l1_info

\* Two blocks of a chain span at most two epochs.
LEMMA EpochsClose ==
    ASSUME "skip" \notin Kinds, NEW c \in Chain, GoodChain(c),
           NEW n \in 0..Len(c), n + 2 >= Len(c)
    PROVE  EpochOf(c).number <= EpochOf(SubSeq(c, 1, n)).number + 2
  <1> DEFINE e(k) == EpochOf(SubSeq(c, 1, k)).number
  <1>1. Len(c) \in Nat /\ n \in Nat /\ n <= Len(c)
    BY ChainFacts
  <1>2. ASSUME NEW k \in 0..Len(c) PROVE e(k) \in Nat
    <2>1. SubSeq(c, 1, k) \in Chain
      BY ChainPart
    <2>2. QED
      BY <2>1, ChainFacts DEF Epoch
  <1>3. ASSUME NEW k \in Nat, k < Len(c) PROVE e(k + 1) <= e(k) + 1
    <2>1. k + 1 \in 1..Len(c) /\ k \in 0..Len(c) /\ k + 1 \in 0..Len(c)
      BY <1>1, <1>3
    <2>2. EpochOf(SubSeq(c, 1, k)) = IF k = 0 THEN [number |-> 0, hash |-> 0] ELSE c[k].epoch
      BY <2>1, ChainPart
    <2>3. EpochOf(SubSeq(c, 1, k + 1)) = c[k + 1].epoch
      <3>1. PICK j \in 0..Len(c) : j = k + 1 /\ j # 0
        BY <1>3, <2>1
      <3>2. EpochOf(SubSeq(c, 1, j)) = IF j = 0 THEN [number |-> 0, hash |-> 0] ELSE c[j].epoch
        BY ChainPart
      <3>3. QED
        BY <3>1, <3>2
    <2>4. EpochBefore(c, k + 1) = EpochOf(SubSeq(c, 1, k))
      <3>1. (k + 1 = 1 <=> k = 0) /\ k + 1 - 1 = k
        BY <1>3
      <3>2. QED
        BY <2>2, <3>1 DEF EpochBefore
    <2>5. \/ c[k + 1].epoch = EpochBefore(c, k + 1)
          \/ c[k + 1].epoch.number = EpochBefore(c, k + 1).number + 1
      BY <2>1 DEF GoodChain
    <2>6. e(k) \in Nat /\ (e(k + 1) = e(k) \/ e(k + 1) = e(k) + 1)
      BY <1>2, <2>1, <2>3, <2>4, <2>5
    <2> HIDE DEF e
    <2>7. QED
      BY <2>6
  <1>4. EpochOf(c).number = e(Len(c))
    BY WholeChain
  <1>5. e(n) \in Nat
    BY <1>1, <1>2
  <1> HIDE DEF e
  <1>6. e(Len(c)) <= e(n) + 2
    <2>1. CASE n = Len(c)
      BY <1>5, <2>1
    <2>2. CASE n + 1 = Len(c)
      <3>1. e(n + 1) <= e(n) + 1 /\ e(n + 1) \in Nat
        BY <1>1, <1>2, <1>3, <2>2
      <3>2. QED
        BY <1>5, <2>2, <3>1
    <2>3. CASE n + 2 = Len(c)
      <3>1. e(n + 1) <= e(n) + 1 /\ e(n + 1) \in Nat
        BY <1>1, <1>2, <1>3, <2>3
      <3>2. PICK k \in Nat : k = n + 1 /\ k + 1 = Len(c)
        BY <1>1, <2>3
      <3>3. e(k + 1) <= e(k) + 1 /\ e(k + 1) \in Nat
        BY <1>1, <1>2, <1>3, <3>2
      <3>4. QED
        BY <1>5, <3>1, <3>2, <3>3
    <2>4. QED
      BY <1>1, <2>1, <2>2, <2>3
  <1>7. QED
    BY <1>4, <1>6 DEF e

\* An epoch after the safe one is cached only if that one is.
LEMMA SafeEpochCached ==
    ASSUME Types, Places, Covered, NEW n \in DOMAIN l1_info, n >= safe_epoch.number
    PROVE  safe_epoch.number \in DOMAIN l1_info
  <1>1. safe_epoch.number \in Nat
    BY ChainFacts DEF Types, safe_epoch, Epoch
  <1>2. n \in Nat /\ n < next_block /\ next_block \in Nat
    BY DEF Types, Places
  <1>3. safe_epoch.number \in 0..(next_block - 1) /\ safe_epoch.number + 2 >= safe_epoch.number
    BY <1>1, <1>2
  <1>4. QED
    BY <1>3 DEF Covered

\* The epochs of a span batch that is on the safe chain, or partly on it, are all cached
\* if its last one is.
LEMMA SpanCached ==
    ASSUME "skip" \notin Kinds, Types, Places, GoodChain(safe_head), RefsBelow, Covered,
           NEW b \in Batch, b.kind # "single", Len(b.origin_bits) <= 2,
           ~(b.timestamp + Len(b.origin_bits) < next_timestamp),
           ~(b.timestamp > next_timestamp),
           L2InfoByTimestamp(b.timestamp - 1) = {b.parent},
           b.origin \in EpochByNumber(b.origin.number),
           ~(StartEpochNum(b) < EpochOf(b.parent).number)
    PROVE  \A i \in DOMAIN b.origin_bits : BlockInputs(b)[i].epoch \in DOMAIN l1_info
  <1>0. /\ safe_head \in Chain /\ Len(safe_head) \in Nat /\ L2Genesis \in Nat
        /\ safe_epoch.number \in Nat /\ next_block \in Nat
    BY ChainFacts, DerivationAssumption DEF Types, safe_epoch, Epoch
  <1>1. next_timestamp = Len(safe_head) + 1
    BY <1>0, GoodHead DEF next_timestamp
  <1>2. b.timestamp \in Nat /\ b.origin_bits \in Seq(BOOLEAN)
    BY BlockInputsFacts DEF SpanRecord
  <1>3. PICK k \in Nat : k = Len(b.origin_bits) /\ (k = 1 \/ k = 2)
    <2>1. Len(b.origin_bits) \in Nat /\ Len(b.origin_bits) >= 1
      BY BlockInputsFacts
    <2>2. QED
      BY <2>1
  <1>4. PICK m \in 0..Len(safe_head) : m = b.timestamp - 1 /\ m + 2 >= Len(safe_head)
                                       /\ b.parent = SubSeq(safe_head, 1, m)
    <2> DEFINE n == b.timestamp - 1 + L2Genesis
    <2>1. n \in DOMAIN l2_refs /\ b.parent = l2_refs[n]
      BY DEF L2InfoByTimestamp
    <2>2. n >= L2Genesis
      BY <2>1 DEF RefsBelow
    <2>3. PICK m \in 0..Len(safe_head) : m = b.timestamp - 1 /\ n = L2Genesis + m
      BY <1>0, <1>1, <1>2, <2>2
    <2>4. m + 2 >= Len(safe_head)
      <3>1. ~(b.timestamp + k < Len(safe_head) + 1)
        BY <1>1, <1>3
      <3>2. QED
        BY <1>0, <1>2, <1>3, <2>3, <3>1
    <2> HIDE DEF n
    <2>5. b.parent = SubSeq(safe_head, 1, m)
      BY <2>1, <2>3 DEF RefsBelow
    <2>6. QED
      BY <2>3, <2>4, <2>5
  <1>5. PICK p \in Nat : p = EpochOf(b.parent).number /\ safe_epoch.number <= p + 2
    <2>1. EpochOf(safe_head).number <= EpochOf(SubSeq(safe_head, 1, m)).number + 2
      BY <1>0, <1>4, EpochsClose
    <2>2. SubSeq(safe_head, 1, m) \in Chain
      BY <1>0, ChainPart
    <2>3. EpochOf(b.parent).number \in Nat
      BY <1>4, <2>2, ChainFacts DEF Epoch
    <2>4. QED
      BY <1>4, <2>1, <2>3 DEF safe_epoch
  <1>6. PICK o \in Nat : o = b.origin.number /\ o < next_block
    <2>1. b.origin.number \in DOMAIN l1_info
      BY DEF EpochByNumber
    <2>2. QED
      BY <2>1, BlockInputsFacts DEF Places
  <1> DEFINE C(i) == CountUpto(b.origin_bits, i)
             one == IF b.origin_bits[1] THEN 1 ELSE 0
  <1>7. one \in Nat /\ C(1) = one /\ C(1) <= C(2) /\ C(1) \in Nat /\ C(2) \in Nat
    <2>1. C(1) = C(0) + (IF b.origin_bits[0 + 1] THEN 1 ELSE 0) /\ C(0) = 0
      BY CountNext
    <2>2. C(1) \in Nat /\ C(1 + 1) = C(1) + (IF b.origin_bits[1 + 1] THEN 1 ELSE 0) /\ C(2) \in Nat
      BY CountNext
    <2> HIDE DEF C
    <2>3. C(1) = one /\ one \in Nat
      BY <2>1
    <2> HIDE DEF one
    <2>4. QED
      BY <2>2, <2>3
  <1>8. Count(b.origin_bits) = C(k)
    BY <1>2, <1>3, CountFacts
  <1>9. p <= o - C(k) + C(1)
    <2>1. StartEpochNum(b) = o - C(k) + one
      BY <1>6, <1>8 DEF StartEpochNum
    <2> HIDE DEF one, C
    <2>2. ~(o - C(k) + one < p)
      BY <1>5, <2>1
    <2>3. C(k) \in Nat
      BY <1>3, <1>7
    <2>4. QED
      BY <1>7, <2>2, <2>3
  <1>10. ASSUME NEW i \in DOMAIN b.origin_bits PROVE BlockInputs(b)[i].epoch \in DOMAIN l1_info
    <2>1. i \in 1..k /\ i \in 1..Len(b.origin_bits)
      BY <1>3, BlockInputsFacts
    <2>2. PICK e : e = BlockInputs(b)[i].epoch
      OBVIOUS
    <2>3. e = o - C(k) + C(i)
      BY <1>6, <1>8, <2>1, <2>2, BlockInputsFacts
    <2> HIDE DEF C, one
    <2>4. (i = 1 \/ i = 2) /\ (k = 1 => i = 1)
      BY <1>3, <2>1
    <2>5. e \in Int /\ p <= e /\ e <= o
      BY <1>3, <1>7, <1>9, <2>3, <2>4
    <2>6. e \in 0..(next_block - 1) /\ e + 2 >= safe_epoch.number
      BY <1>0, <1>5, <1>6, <2>5
    <2>7. QED
      BY <2>2, <2>6 DEF Covered
  <1>11. QED
    BY <1>10

\* So the loop on sequencer drift finds every epoch it looks up.
LEMMA SpanNoPanic ==
    ASSUME "skip" \notin Kinds, Types, Places, GoodChain(safe_head), RefsBelow, Covered,
           NEW b \in Batch, b.kind # "single", Len(b.origin_bits) <= 2, NEW inclusion
    PROVE  SpanBatchStatus(b, inclusion) # "Panic"
  <1> SUFFICES ASSUME SpanBatchStatus(b, inclusion) = "Panic" PROVE FALSE
    OBVIOUS
  <1>1. /\ ~(b.timestamp + Len(b.origin_bits) < next_timestamp)
        /\ ~(b.timestamp > next_timestamp)
        /\ L2InfoByTimestamp(b.timestamp - 1) = {b.parent}
        /\ b.origin \in EpochByNumber(b.origin.number)
        /\ ~(StartEpochNum(b) < EpochOf(b.parent).number)
        /\ Stops(b) # {} /\ InputVerdict(b, CHOOSE i \in Stops(b) : TRUE) = "Panic"
    BY DEF SpanBatchStatus
  <1>2. PICK i \in DOMAIN b.origin_bits : InputVerdict(b, i) = "Panic"
    <2>1. (CHOOSE i \in Stops(b) : TRUE) \in Stops(b)
      BY <1>1
    <2>2. (CHOOSE i \in Stops(b) : TRUE) \in DOMAIN b.origin_bits
      BY <2>1 DEF Stops
    <2>3. QED
      BY <1>1, <2>2
  <1>3. EpochByNumber(BlockInputs(b)[i].epoch) = {}
    BY <1>2 DEF InputVerdict
  <1>4. BlockInputs(b)[i].epoch \in DOMAIN l1_info
    BY <1>1, SpanCached
  <1>5. QED
    BY <1>3, <1>4 DEF EpochByNumber

\* Every block of a batch that is accepted is of a cached epoch.
LEMMA AcceptedCached ==
    ASSUME Types, Places, Covered, NEW x \in Entry, Bounded(x.batch, next_block),
           BatchStatus(x) = "Accept"
    PROVE  \A i \in 1..Len(InputsOf(x.batch)) : InputsOf(x.batch)[i].epoch \in DOMAIN l1_info
  <1> DEFINE b == x.batch
             all == IF b.kind = "single"
                    THEN <<[timestamp |-> b.timestamp, epoch |-> b.epoch.number, txs |-> b.txs]>>
                    ELSE BlockInputs(b)
  <1>1. b \in Batch
    BY DEF Entry
  <1>2. /\ \E S : all \in Seq(S)
        /\ \A i \in DOMAIN all : all[i].epoch \in DOMAIN l1_info
    <2>1. CASE b.kind = "single"
      <3>1. /\ b.epoch.number \in {safe_epoch.number, safe_epoch.number + 1}
            /\ Origins(b.epoch.number) # {}
        BY <2>1 DEF BatchStatus, SingleBatchStatus
      <3>2. b.epoch.number < next_block /\ b.epoch.number \in Nat
        BY <1>1, <2>1 DEF Bounded, Batch, SingleRecord, SpanRecord, Epoch
      <3>3. b.epoch.number \in DOMAIN l1_info
        <4>1. CASE b.epoch.number = safe_epoch.number
          <5>1. b.epoch.number \in 0..(next_block - 1) /\ b.epoch.number + 2 >= safe_epoch.number
            BY <3>2, <4>1 DEF Types
          <5>2. QED
            BY <5>1 DEF Covered
        <4>2. CASE b.epoch.number # safe_epoch.number
          BY <3>1, <4>2 DEF Origins, next_epoch, EpochByNumber
        <4>3. QED
          BY <4>1, <4>2
      <3> DEFINE input == [timestamp |-> b.timestamp, epoch |-> b.epoch.number, txs |-> b.txs]
      <3>4. all = <<input>> /\ input.epoch = b.epoch.number
        BY <2>1
      <3> HIDE DEF all, input
      <3>5. all \in Seq({input}) /\ \A i \in DOMAIN all : all[i] = input
        BY <3>4
      <3>6. QED
        BY <3>3, <3>4, <3>5
    <2>2. CASE b.kind # "single"
      <3>1. SpanBatchStatus(b, x.inclusion) = "Accept"
        BY <2>2 DEF BatchStatus
      <3>2. \A i \in DOMAIN b.origin_bits : InputVerdict(b, i) = "Accept"
        BY <1>1, <2>2, <3>1, SpanAccepted
      <3>3. \A i \in DOMAIN b.origin_bits : BlockInputs(b)[i].epoch \in DOMAIN l1_info
        BY <3>2 DEF InputVerdict, EpochByNumber
      <3>4. BlockInputs(b) \in Seq(Input) /\ DOMAIN BlockInputs(b) = DOMAIN b.origin_bits
        <4>1. BlockInputs(b) \in Seq(Input) /\ Len(BlockInputs(b)) = Len(b.origin_bits)
              /\ DOMAIN b.origin_bits = 1..Len(b.origin_bits)
          BY <1>1, <2>2, BlockInputsFacts
        <4>2. QED
          BY <4>1
      <3>5. all = BlockInputs(b)
        BY <2>2
      <3> HIDE DEF all, b
      <3>6. QED
        BY <3>3, <3>4, <3>5
    <2>3. QED
      BY <2>1, <2>2
  <1>3. InputsOf(b) = FilterInputs(all)
    BY DEF InputsOf
  <1> HIDE DEF all, b
  <1>4. PICK S : all \in Seq(S)
    BY <1>2
  <1> DEFINE I == {i \in DOMAIN all : all[i].timestamp > TimeOf(safe_head)}
             q == Keep(all, I)
  <1>5. q \in Seq(S) /\ \A k \in DOMAIN q : \E i \in I : q[k] = all[i]
    <2>1. I \in SUBSET (DOMAIN all)
      OBVIOUS
    <2> HIDE DEF I
    <2>2. QED
      BY <1>4, <2>1, KeepFacts
  <1>6. \A k \in DOMAIN q : q[k].epoch \in DOMAIN l1_info
    BY <1>2, <1>5
  <1>7. InputsOf(b) = q
    BY <1>3 DEF FilterInputs
  <1> HIDE DEF q
  <1>8. \A k \in 1..Len(q) : q[k].epoch \in DOMAIN l1_info
    BY <1>5, <1>6
  <1>9. QED
    BY <1>7, <1>8 DEF b

\* So is an empty block.
LEMMA EmptyCached ==
    ASSUME Types, Places, Covered, NEW e \in EmptyEpoch
    PROVE  e.number \in DOMAIN l1_info
  <1>1. next_epoch # {} /\ e \in {safe_epoch} \cup next_epoch
    BY DEF EmptyEpoch
  <1>2. safe_epoch.number \in Nat
    BY ChainFacts DEF Types, safe_epoch, Epoch
  <1>3. safe_epoch.number + 1 \in DOMAIN l1_info
        /\ \A x \in next_epoch : x.number = safe_epoch.number + 1
    BY <1>1 DEF next_epoch, EpochByNumber
  <1>4. safe_epoch.number + 1 >= safe_epoch.number
    BY <1>2
  <1>5. safe_epoch.number \in DOMAIN l1_info
    BY <1>3, <1>4, SafeEpochCached
  <1>6. QED
    BY <1>1, <1>3, <1>5

\* A block of a cached epoch is derived without panic.
LEMMA DeriveCached ==
    ASSUME NEW input, Derive(input), input.epoch \in DOMAIN l1_info
    PROVE  pc' = pc
  BY DEF Derive, EpochByNumber

\* What a step of the pipeline does while every epoch it needs is cached.
LEMMA PipelineCached ==
    ASSUME "skip" \notin Kinds, Types, Places, Rules, BatchesSourced, RefsBelow, Covered,
           PendingCached, NoPanic, PipelineStep
    PROVE  PendingCached' /\ NoPanic'
  <1>0. /\ pending_inputs \in Seq(Input) /\ GoodChain(safe_head)
        /\ \A i \in 1..Len(pending_inputs) : pending_inputs[i].epoch \in DOMAIN l1_info
    BY DEF Types, Rules, PendingCached
  <1>1. l1_info' = l1_info /\ pc = "derive"
    BY PipelineFacts DEF PipelineStep, NextPending, NextBatch, DecodeFails
  <1>2. ASSUME NEW q \in Seq(Input), q # <<>>, Derive(Head(q)), pending_inputs' = Tail(q),
               \A i \in 1..Len(q) : q[i].epoch \in DOMAIN l1_info
        PROVE  PendingCached' /\ NoPanic'
    <2>1. Len(q) \in Nat /\ 1 \in 1..Len(q) /\ Head(q) = q[1]
          /\ Len(Tail(q)) = Len(q) - 1
          /\ \A i \in 1..(Len(q) - 1) : Tail(q)[i] = q[i + 1] /\ i + 1 \in 1..Len(q)
      BY <1>2, EmptySeq
    <2>2. Head(q).epoch \in DOMAIN l1_info
      BY <1>2, <2>1
    <2>3. pc' = "derive"
      BY <1>1, <1>2, <2>2, DeriveCached
    <2>4. \A i \in 1..Len(Tail(q)) : Tail(q)[i].epoch \in DOMAIN l1_info
      BY <1>2, <2>1
    <2>5. QED
      BY <1>1, <1>2, <2>3, <2>4 DEF PendingCached, NoPanic
  <1>3. ASSUME pending_inputs' = <<>> PROVE PendingCached'
    BY <1>3 DEF PendingCached
  <1>4. CASE NextPending
    BY <1>0, <1>2, <1>4 DEF NextPending
  <1>5. CASE NextBatch
    <2>1. /\ pending_inputs = <<>>
          /\ \/ /\ UNCHANGED <<pending_inputs, seq_vars, l2_refs, safe_head>>
                /\ pc' = "idle" \/ \E x \in Entry : OnOffer(x) /\ BatchStatus(x) = "Panic"
             \/ \E x \in Entry :
                  /\ OnOffer(x)
                  /\ BatchStatus(x) = "Accept"
                  /\ InputsOf(x.batch) # <<>>
                  /\ Derive(Head(InputsOf(x.batch)))
                  /\ pending_inputs' = Tail(InputsOf(x.batch))
             \/ /\ UNCHANGED pending_inputs
                /\ \E e \in EmptyEpoch :
                     Derive([timestamp |-> next_timestamp, epoch |-> e.number, txs |-> "none"])
      BY <1>5, NextBatchFacts
    <2>2. CASE UNCHANGED pending_inputs /\ pc' = "idle"
      BY <1>3, <2>1, <2>2 DEF NoPanic
    <2>3. ASSUME NEW x \in Entry, OnOffer(x) PROVE BatchStatus(x) # "Panic"
      <3>1. x.batch \in Batch /\ Bounded(x.batch, next_block)
        BY <2>3, OfferBounded DEF Entry
      <3>2. CASE x.batch.kind = "single"
        BY <3>2 DEF BatchStatus, SingleBatchStatus
      <3>3. CASE x.batch.kind # "single"
        <4>1. Len(x.batch.origin_bits) <= 2
          BY <3>1, <3>3 DEF Bounded
        <4>2. SpanBatchStatus(x.batch, x.inclusion) # "Panic"
          BY <1>0, <3>1, <3>3, <4>1, SpanNoPanic
        <4>3. QED
          BY <3>3, <4>2 DEF BatchStatus
      <3>4. QED
        BY <3>2, <3>3
    <2>4. ASSUME NEW x \in Entry, OnOffer(x), BatchStatus(x) = "Accept",
                 InputsOf(x.batch) # <<>>, Derive(Head(InputsOf(x.batch))),
                 pending_inputs' = Tail(InputsOf(x.batch))
          PROVE  PendingCached' /\ NoPanic'
      <3>1. x.batch \in Batch /\ Bounded(x.batch, next_block)
        BY <2>4, OfferBounded DEF Entry
      <3>2. InputsOf(x.batch) \in Seq(Input)
        BY <3>1, InputsOfType
      <3>3. \A i \in 1..Len(InputsOf(x.batch)) : InputsOf(x.batch)[i].epoch \in DOMAIN l1_info
        BY <2>4, <3>1, AcceptedCached
      <3>4. QED
        BY <1>2, <2>4, <3>2, <3>3
    <2>5. ASSUME NEW e \in EmptyEpoch, UNCHANGED pending_inputs,
                 Derive([timestamp |-> next_timestamp, epoch |-> e.number, txs |-> "none"])
          PROVE  PendingCached' /\ NoPanic'
      <3> DEFINE input == [timestamp |-> next_timestamp, epoch |-> e.number, txs |-> "none"]
      <3>1. input.epoch \in DOMAIN l1_info
        BY EmptyCached
      <3>2. pc' = pc
        BY <2>5, <3>1, DeriveCached
      <3>3. QED
        BY <1>1, <1>3, <2>1, <2>5, <3>2 DEF NoPanic
    <2>6. QED
      BY <2>1, <2>2, <2>3, <2>4, <2>5
  <1>6. CASE DecodeFails
    BY <1>3, <1>6 DEF DecodeFails, NoPanic
  <1>7. QED
    BY <1>4, <1>5, <1>6 DEF PipelineStep

\* A derived block moves the safe head up, by at most one epoch.
LEMMA HeadPipeline ==
    ASSUME "skip" \notin Kinds, Types, Places, Rules, Rules', RefsBelow, Covered, PipelineStep
    PROVE  RefsBelow' /\ Covered'
  <1>1. /\ UNCHANGED <<next_block, l1_info>>
        /\ \/ UNCHANGED <<l2_refs, safe_head>>
           \/ \E input \in Input : Derive(input)
    BY PipelineFacts DEF watcher_vars
  <1>2. CASE UNCHANGED <<l2_refs, safe_head>>
    BY <1>1, <1>2 DEF RefsBelow, Covered, safe_epoch
  <1>3. ASSUME NEW x \in Content,
               safe_head' = Append(safe_head, x),
               l2_refs' = Put(l2_refs, Number(Append(safe_head, x)), Append(safe_head, x))
        PROVE  RefsBelow' /\ Covered'
    <2>0. /\ safe_head \in Chain /\ Len(safe_head) \in Nat /\ L2Genesis \in Nat
          /\ safe_epoch.number \in Nat
      BY ChainFacts, DerivationAssumption DEF Types, safe_epoch, Epoch
    <2> DEFINE s == Append(safe_head, x)
               refs == Put(l2_refs, Number(s), s)
    <2>1. /\ s \in Chain /\ Len(s) = Len(safe_head) + 1
          /\ \A n \in 0..Len(safe_head) : SubSeq(s, 1, n) = SubSeq(safe_head, 1, n)
          /\ \A i \in 1..Len(safe_head) : s[i] = safe_head[i]
          /\ s[Len(safe_head) + 1] = x /\ EpochOf(s) = x.epoch
      BY <2>0, GrownChain, PartOfGrown
    <2>2. safe_head' = s /\ l2_refs' = refs
      BY <1>3
    <2> HIDE DEF s
    <2>3. Number(s) = L2Genesis + Len(safe_head) + 1
      BY <2>0, <2>1 DEF Number
    <2>4. /\ DOMAIN refs = DOMAIN l2_refs \cup {Number(s)} /\ refs[Number(s)] = s
          /\ \A m \in DOMAIN l2_refs : m # Number(s) => refs[m] = l2_refs[m]
      BY DEF Put
    <2> HIDE DEF refs
    <2>5. ASSUME NEW m \in 0..Len(s), L2Genesis + m \in DOMAIN refs
          PROVE  refs[L2Genesis + m] = SubSeq(s, 1, m)
      <3>1. CASE m = Len(safe_head) + 1
        <4>1. L2Genesis + m = Number(s) /\ m = Len(s)
          BY <2>0, <2>1, <2>3, <3>1
        <4>2. SubSeq(s, 1, m) = s
          BY <2>1, <4>1, WholeChain
        <4>3. QED
          BY <2>4, <4>1, <4>2
      <3>2. CASE m \in 0..Len(safe_head)
        <4>1. L2Genesis + m # Number(s)
          BY <2>0, <2>3, <3>2
        <4>2. L2Genesis + m \in DOMAIN l2_refs
          BY <2>4, <2>5, <4>1
        <4>3. l2_refs[L2Genesis + m] = SubSeq(safe_head, 1, m)
          BY <3>2, <4>2 DEF RefsBelow
        <4>4. QED
          BY <2>1, <2>4, <3>2, <4>1, <4>2, <4>3
      <3>3. QED
        BY <2>0, <2>1, <3>1, <3>2
    <2>6. \A n \in DOMAIN refs : n >= L2Genesis
      BY <2>0, <2>3, <2>4 DEF RefsBelow
    <2>7. RefsBelow'
      BY <2>2, <2>5, <2>6 DEF RefsBelow
    <2>8. EpochOf(s).number >= safe_epoch.number
      <3>1. GoodChain(s)
        BY <2>2 DEF Rules
      <3>2. PICK n \in 1..Len(s) : n = Len(safe_head) + 1
        BY <2>0, <2>1
      <3>3. EpochBefore(s, n) = safe_epoch
        <4>1. (n = 1 <=> Len(safe_head) = 0) /\ n - 1 = Len(safe_head)
          BY <2>0, <3>2
        <4>2. Len(safe_head) # 0 => s[Len(safe_head)] = safe_head[Len(safe_head)]
          BY <2>0, <2>1
        <4>3. QED
          BY <2>0, <4>1, <4>2, EpochBeforeNext DEF EpochBefore, safe_epoch
      <3>4. s[n].epoch = EpochBefore(s, n) \/ s[n].epoch.number = EpochBefore(s, n).number + 1
        BY <3>1 DEF GoodChain
      <3>5. EpochOf(s).number = safe_epoch.number \/ EpochOf(s).number = safe_epoch.number + 1
        BY <2>1, <3>2, <3>3, <3>4
      <3>6. QED
        BY <2>0, <3>5
    <2>9. Covered'
      <3>1. PICK e \in Nat : e = EpochOf(s).number /\ e >= safe_epoch.number
        BY <2>1, <2>8, ChainFacts DEF Epoch
      <3>2. \A m \in 0..(next_block - 1) : m + 2 >= e => m \in DOMAIN l1_info
        <4>1. \A m \in 0..(next_block - 1) : m + 2 >= e => m + 2 >= safe_epoch.number
          BY <2>0, <3>1 DEF Types
        <4>2. QED
          BY <4>1 DEF Covered
      <3>3. safe_epoch'.number = e
        BY <2>2, <3>1 DEF safe_epoch
      <3>4. QED
        BY <1>1, <3>2, <3>3 DEF Covered
    <2>10. QED
      BY <2>7, <2>9
  <1>4. QED
    BY <1>1, <1>2, <1>3, DeriveFacts DEF NoPanic

\* State::prune keeps the epochs down to two below the safe one, and only forgets L2 blocks.
LEMMA HeadNewBlock ==
    ASSUME SeqWindow >= 2, Types, Places, RefsBelow, Covered, NewBlock
    PROVE  RefsBelow' /\ Covered'
  <1>0. /\ safe_head \in Chain /\ Len(safe_head) \in Nat /\ L2Genesis \in Nat
        /\ safe_epoch.number \in Nat /\ next_block \in Nat /\ SeqWindow \in Nat
    BY ChainFacts, DerivationAssumption DEF Types, safe_epoch, Epoch
  <1> DEFINE old  == Pruned(l2_refs, LookbackStart(safe_head))
             refs == Put(old, Number(safe_head), safe_head)
  <1>1. /\ l2_refs' = refs /\ safe_head' = safe_head /\ next_block' = next_block + 1
        /\ UpdateL1Info(next_block, l1[next_block + 1].hash)
    BY DEF NewBlock, UpdateSafeHead
  <1>2. \A n \in DOMAIN old : n \in DOMAIN l2_refs /\ old[n] = l2_refs[n]
    BY PrunedFacts
  <1> HIDE DEF old
  <1>3. /\ DOMAIN refs = DOMAIN old \cup {Number(safe_head)} /\ refs[Number(safe_head)] = safe_head
        /\ \A m \in DOMAIN old : m # Number(safe_head) => refs[m] = old[m]
    BY DEF Put
  <1> HIDE DEF refs
  <1>4. Number(safe_head) = L2Genesis + Len(safe_head)
    BY DEF Number
  <1>5. ASSUME NEW m \in 0..Len(safe_head), L2Genesis + m \in DOMAIN refs
        PROVE  refs[L2Genesis + m] = SubSeq(safe_head, 1, m)
    <2>1. CASE m = Len(safe_head)
      BY <1>0, <1>3, <1>4, <2>1, WholeChain
    <2>2. CASE m # Len(safe_head)
      <3>1. L2Genesis + m # Number(safe_head)
        BY <1>0, <1>4, <2>2
      <3>2. L2Genesis + m \in DOMAIN l2_refs /\ refs[L2Genesis + m] = l2_refs[L2Genesis + m]
        BY <1>2, <1>3, <1>5, <3>1
      <3>3. QED
        BY <3>2 DEF RefsBelow
    <2>3. QED
      BY <2>1, <2>2
  <1>6. \A n \in DOMAIN refs : n >= L2Genesis
    BY <1>0, <1>2, <1>3, <1>4 DEF RefsBelow
  <1>7. RefsBelow'
    BY <1>1, <1>5, <1>6 DEF RefsBelow
  <1> DEFINE from == EpochOf(safe_head).number - SeqWindow
             u == IF from > 0 THEN from ELSE 0
             f == Put(l1_info, next_block, l1[next_block + 1].hash)
  <1>8. l1_info' = Pruned(f, u)
    BY <1>1 DEF UpdateL1Info
  <1>9. u \in Nat /\ (u = 0 \/ u + SeqWindow = safe_epoch.number)
    BY <1>0 DEF safe_epoch
  <1> HIDE DEF u
  <1>10. DOMAIN f = DOMAIN l1_info \cup {next_block}
    BY DEF Put
  <1> HIDE DEF f
  <1>11. \A n : n \in DOMAIN l1_info' <=> n \in DOMAIN f /\ n >= u
    BY <1>8, PrunedFacts
  <1>12. ASSUME NEW m \in 0..next_block, m + 2 >= safe_epoch.number PROVE m \in DOMAIN l1_info'
    <2>1. m >= u
      BY <1>0, <1>9, <1>12
    <2>2. m \in DOMAIN f
      <3>1. CASE m = next_block
        BY <1>10, <3>1
      <3>2. CASE m \in 0..(next_block - 1)
        BY <1>10, <1>12, <3>2 DEF Covered
      <3>3. QED
        BY <1>0, <3>1, <3>2
    <2>3. QED
      BY <1>11, <2>1, <2>2
  <1>13. next_block' - 1 = next_block /\ safe_epoch' = safe_epoch
    BY <1>0, <1>1 DEF safe_epoch
  <1>14. Covered'
    BY <1>12, <1>13 DEF Covered
  <1>15. QED
    BY <1>7, <1>14

\* After a reorg the watcher starts a channel timeout below the finalized epoch.
LEMMA HeadReorg ==
    ASSUME ChannelTimeout >= 2, Types, Places, RefsBelow, Covered, Reorg
    PROVE  RefsBelow' /\ Covered'
  <1>0. /\ safe_head \in Chain /\ Len(safe_head) \in Nat /\ L2Genesis \in Nat
        /\ finalized_head \in Chain /\ Len(finalized_head) \in Nat
        /\ EpochOf(finalized_head).number \in Nat /\ ChannelTimeout \in Nat
        /\ Len(finalized_head) <= Len(safe_head)
        /\ \A i \in 1..Len(finalized_head) : finalized_head[i] = safe_head[i]
    BY ChainFacts, DerivationAssumption DEF Types, Epoch, Places, FinalizedBelow
  <1> DEFINE h == finalized_head
             refs == Put(l2_refs, Number(h), h)
  <1>1. /\ safe_head' = h /\ l2_refs' = refs
        /\ next_block' = L1StartBlock(EpochOf(h).number)
    BY DEF Reorg, PurgeState, UpdateSafeHead
  <1>2. Number(h) = L2Genesis + Len(h)
    BY DEF Number
  <1>3. /\ DOMAIN refs = DOMAIN l2_refs \cup {Number(h)} /\ refs[Number(h)] = h
        /\ \A m \in DOMAIN l2_refs : m # Number(h) => refs[m] = l2_refs[m]
    BY DEF Put
  <1> HIDE DEF refs
  <1>4. ASSUME NEW m \in 0..Len(h), L2Genesis + m \in DOMAIN refs
        PROVE  refs[L2Genesis + m] = SubSeq(h, 1, m)
    <2>1. CASE m = Len(h)
      BY <1>0, <1>2, <1>3, <2>1, WholeChain
    <2>2. CASE m # Len(h)
      <3>1. L2Genesis + m # Number(h) /\ m \in 0..Len(safe_head)
        BY <1>0, <1>2, <2>2
      <3>2. L2Genesis + m \in DOMAIN l2_refs /\ refs[L2Genesis + m] = l2_refs[L2Genesis + m]
        BY <1>3, <1>4, <3>1
      <3>3. l2_refs[L2Genesis + m] = SubSeq(safe_head, 1, m)
        BY <3>1, <3>2 DEF RefsBelow
      <3>4. SubSeq(safe_head, 1, m) = SubSeq(h, 1, m)
        <4>1. \A i \in 1..m : safe_head[i] = h[i]
          BY <1>0
        <4> DEFINE p == SubSeq(safe_head, 1, m)
                   q == SubSeq(h, 1, m)
        <4>2. /\ p \in Chain /\ Len(p) = m /\ \A i \in 1..m : p[i] = safe_head[i]
              /\ q \in Chain /\ Len(q) = m /\ \A i \in 1..m : q[i] = h[i]
          BY <1>0, <3>1, ChainPart
        <4> HIDE DEF p, q
        <4>3. p = q
          BY <4>1, <4>2 DEF Chain
        <4>4. QED
          BY <4>3 DEF p, q
      <3>5. QED
        BY <3>2, <3>3, <3>4
    <2>3. QED
      BY <2>1, <2>2
  <1>5. \A n \in DOMAIN refs : n >= L2Genesis
    BY <1>0, <1>2, <1>3 DEF RefsBelow
  <1>6. RefsBelow'
    BY <1>1, <1>4, <1>5 DEF RefsBelow
  <1>7. PICK e \in Nat : e = EpochOf(h).number
    BY <1>0
  <1>8. next_block' = (IF e > ChannelTimeout THEN e - ChannelTimeout ELSE 0)
    BY <1>1, <1>7 DEF L1StartBlock
  <1>9. \A m \in 0..(next_block' - 1) : ~(m + 2 >= e)
    BY <1>0, <1>7, <1>8
  <1>10. safe_epoch'.number = e
    BY <1>1, <1>7 DEF safe_epoch
  <1>11. Covered'
    BY <1>9, <1>10 DEF Covered
  <1>12. QED
    BY <1>6, <1>11

\* What every lookup of an epoch rests on.
CacheInv == BatchesSourced /\ RefsBelow /\ Covered /\ PendingCached /\ NoPanic

LEMMA CacheStep ==
    ASSUME "skip" \notin Kinds, ChannelTimeout >= 2, SeqWindow >= 2,
           Types, Places, Rules, Rules', CacheInv, [Next]_vars
    PROVE  CacheInv'
  <1>0. BatchesSourced /\ RefsBelow /\ Covered /\ PendingCached /\ NoPanic
    BY DEF CacheInv
  <1>1. BatchesSourced'
    BY <1>0, SourcedStep
  <1>2. CASE PipelineStep
    BY <1>0, <1>1, <1>2, PipelineCached, HeadPipeline DEF CacheInv
  <1>3. CASE NewBlock
    <2>1. PendingCached' /\ NoPanic'
      BY <1>0, <1>3 DEF NewBlock, PendingCached, NoPanic
    <2>2. QED
      BY <1>0, <1>1, <1>3, <2>1, HeadNewBlock DEF CacheInv
  <1>4. CASE Reorg
    <2>1. PendingCached' /\ NoPanic'
      BY <1>4 DEF Reorg, PurgeAttributes, PurgeBatches, PendingCached, NoPanic
    <2>2. QED
      BY <1>0, <1>1, <1>4, <2>1, HeadReorg DEF CacheInv
  <1>5. ASSUME UNCHANGED <<next_block, l1_info, l2_refs, safe_head, pending_inputs>>,
               pc' = pc \/ (pc = "idle" /\ pc' = "derive")
        PROVE  CacheInv'
    <2>1. PendingCached' /\ NoPanic'
      BY <1>0, <1>5 DEF PendingCached, NoPanic
    <2>2. RefsBelow' /\ Covered'
      BY <1>0, <1>5 DEF RefsBelow, Covered, safe_epoch
    <2>3. QED
      BY <1>1, <2>1, <2>2 DEF CacheInv
  <1>6. CASE L1Step
    BY <1>5, <1>6, L1StepFacts DEF watcher_vars, batch_vars, state_vars
  <1>7. CASE NoUpdate
    BY <1>5, <1>7 DEF NoUpdate, watcher_vars, batch_vars, state_vars
  <1>8. CASE Finalize
    BY <1>5, <1>8 DEF Finalize, watcher_vars, batch_vars, state_vars
  <1>9. CASE UNCHANGED vars
    BY <1>5, <1>9 DEF vars, watcher_vars, batch_vars, state_vars
  <1>10. QED
    BY <1>2, <1>3, <1>4, <1>6, <1>7, <1>8, <1>9 DEF Next

LEMMA CacheInit == Init => CacheInv
  <1> SUFFICES ASSUME Init PROVE CacheInv
    OBVIOUS
  <1>1. /\ l1 = <<[hash |-> 0, txs |-> <<>>, tip |-> <<>>]>>
        /\ next_block = 0 /\ txs = <<>> /\ batches = <<>> /\ pending_inputs = <<>>
        /\ l2_refs = [n \in {L2Genesis} |-> <<>>] /\ safe_head = <<>> /\ pc = "idle"
    BY DEF Init, Genesis
  <1>2. PostedBounded(l1)
    <2>1. Len(l1) = 1 /\ l1[1].tip = <<>> /\ l1[1].txs = <<>>
      BY <1>1
    <2>2. EpochOf(<<>>).number = 0
      BY DEF EpochOf, Genesis
    <2>3. \A k \in 1..1 : k = 1
      OBVIOUS
    <2>4. QED
      BY <2>1, <2>2, <2>3 DEF PostedBounded
  <1>3. BatchesSourced
    BY <1>1, <1>2 DEF BatchesSourced
  <1>4. RefsBelow
    <2>1. L2Genesis \in Nat
      BY DerivationAssumption
    <2>2. ASSUME NEW m \in 0..0
          PROVE  l2_refs[L2Genesis + m] = SubSeq(<<>>, 1, m)
      <3>1. m = 0 /\ L2Genesis + m = L2Genesis
        BY <2>1
      <3>2. SubSeq(<<>>, 1, 0) = <<>>
        OBVIOUS
      <3>3. QED
        BY <1>1, <3>1, <3>2
    <2>3. QED
      BY <1>1, <2>1, <2>2 DEF RefsBelow
  <1>5. Covered
    BY <1>1 DEF Covered
  <1>6. QED
    BY <1>1, <1>3, <1>4, <1>5 DEF CacheInv, PendingCached, NoPanic

\* The unwraps of batches.rs and attributes.rs never meet a missing epoch, whatever the
\* batcher posts, L1 reorgs included, provided that the sequencing window that State::prune
\* keeps and the channel timeout that the watcher goes back by are no shorter than a span
\* batch, which has at most two blocks here, and that span batches leave no epoch out.
THEOREM NoPanicCorrect ==
    "skip" \notin Kinds /\ ChannelTimeout >= 2 /\ SeqWindow >= 2 /\ Spec => []NoPanic
  <1> SUFFICES ASSUME "skip" \notin Kinds, ChannelTimeout >= 2, SeqWindow >= 2
               PROVE  Spec => []NoPanic
    OBVIOUS
  <1>1. Types /\ Places /\ Rules /\ Rules' /\ CacheInv /\ [Next]_vars => CacheInv'
    BY CacheStep
  <1>2. Spec => [](Types /\ Rules)
    BY RulesHold
  <1>3. Spec => []Places
    BY InvariantHolds, PTL
  <1>4. Init => CacheInv
    BY CacheInit
  <1>5. Spec => []CacheInv
    BY <1>1, <1>2, <1>3, <1>4, PTL DEF Spec
  <1>6. CacheInv => NoPanic
    BY DEF CacheInv
  <1>7. QED
    BY <1>5, <1>6, PTL


-----------------------------------------------------------------------------
(* SequencerNotOverruled *)

\* A batcher that keeps to the windows, with one transaction per L1 block that holds no
\* more than one block of the sequencer.
PostsSingly ==
    Timely /\ MaxTxs <= 1 /\ Kinds \subseteq {"frame", "corrupt", "single", "again"}

\* Block n of tip t keeps to the protocol on the first k blocks of the L1 chain c.
Lawful(c, k, t, n) ==
    LET parent == SubSeq(t, 1, n - 1)
        e      == t[n].epoch
        p      == EpochOf(parent)
    IN  /\ t[n] = ContentOn(parent, e, t[n].txs)
        /\ t[n].time = n
        /\ e = p \/ (e.number = p.number + 1 /\ e.hash # p.hash)
        /\ e.number < k /\ e.hash = c[e.number + 1].hash
        /\ Timestamp(e.number) <= n
        /\ t[n].txs \in {"some", "none"}
        /\ t[n].txs = "some" => n <= Timestamp(e.number) + MaxSeqDrift
        /\ e = p => n <= Timestamp(e.number) + MaxSeqDrift \/ n < Timestamp(e.number + 1)
        /\ \A m \in 1..n : t[m].epoch.number <= e.number

LawfulTip(c, k, t) == \A n \in 1..Len(t) : Lawful(c, k, t, n)

\* What the L1 block r may hold when p was posted before.
PostedOn(p, r) ==
    /\ Len(r.txs) <= 1
    /\ \/ r.tip = p
       \/ Len(r.tip) = Len(p) + 1 /\ IsPrefix(p, r.tip) /\ r.txs = <<Channel(SingleBatch(r.tip))>>
    /\ \A i \in DOMAIN r.txs :
         r.txs[i].type = "channel" => r.tip # Genesis /\ r.txs[i] = Channel(SingleBatch(r.tip))

\* The chain posted in the first k blocks of L1.
TipOf(c, k) == IF k = 0 THEN Genesis ELSE c[k].tip

OwnHashes(c) ==
    /\ c[1].hash = 0
    /\ \A i, j \in 1..Len(c) : c[i].hash = c[j].hash => i = j

HonestBlock(c, k) ==
    /\ LawfulTip(c, k, c[k].tip)
    /\ PostedOn(TipOf(c, k - 1), c[k])
    /\ \A j \in 1..k : IsPrefix(c[j].tip, c[k].tip)
    /\ EpochOf(c[k].tip).number + SeqWindow >= k - 1

\* The L1 chain of such a batcher.
HonestL1(c) == OwnHashes(c) /\ \A k \in 1..Len(c) : HonestBlock(c, k)

\* L1 blocks after the first k do not matter to it.
LEMMA LawfulKept ==
    ASSUME NEW c, NEW d, NEW k \in Nat, NEW m \in Nat, k <= m,
           \A i \in 1..k : d[i] = c[i], NEW t \in Chain, LawfulTip(c, k, t)
    PROVE  LawfulTip(d, m, t)
  <1>1. ASSUME NEW n \in 1..Len(t) PROVE Lawful(d, m, t, n)
    <2>1. Lawful(c, k, t, n)
      BY DEF LawfulTip
    <2>2. t[n].epoch.number \in Nat
      BY ChainEpochs
    <2>3. t[n].epoch.number < k
      BY <2>1 DEF Lawful
    <2>4. t[n].epoch.number < m /\ d[t[n].epoch.number + 1] = c[t[n].epoch.number + 1]
      BY <2>2, <2>3
    <2>5. QED
      BY <2>1, <2>4 DEF Lawful
  <1>2. QED
    BY <1>1 DEF LawfulTip

\* The last block of a tip.
LEMMA LawfulHead ==
    ASSUME NEW c, NEW k \in Nat, k >= 1, c[1].hash = 0, NEW t \in Chain, LawfulTip(c, k, t)
    PROVE  /\ TimeOf(t) = Len(t)
           /\ EpochOf(t).number < k
           /\ EpochOf(t).hash = c[EpochOf(t).number + 1].hash
           /\ Timestamp(EpochOf(t).number) <= Len(t)
           /\ \A m \in 1..Len(t) : t[m].epoch.number <= EpochOf(t).number
  <1>1. Len(t) \in Nat
    BY ChainFacts
  <1>2. CASE t = Genesis
    <2>1. Len(t) = 0 /\ TimeOf(t) = 0 /\ EpochOf(t).number = 0 /\ EpochOf(t).hash = 0
      BY <1>2 DEF TimeOf, EpochOf, Genesis
    <2>2. Timestamp(0) = 0
      BY DerivationAssumption DEF Timestamp
    <2>3. QED
      BY <2>1, <2>2
  <1>3. CASE t # Genesis
    <2>1. Len(t) >= 1 /\ Last(t) = t[Len(t)] /\ EpochOf(t) = t[Len(t)].epoch
      BY <1>3, ChainFacts
    <2>2. Lawful(c, k, t, Len(t))
      BY <1>1, <2>1 DEF LawfulTip
    <2>3. TimeOf(t) = Len(t)
      BY <1>3, <2>1, <2>2 DEF TimeOf, Lawful
    <2>4. QED
      BY <2>1, <2>2, <2>3 DEF Lawful
  <1>4. QED
    BY <1>2, <1>3

\* What the sequencer builds on a tip.
LEMMA SequencedLawful ==
    ASSUME NEW c \in Seq(L1Block), Len(c) >= 1, OwnHashes(c), NEW tip \in Tip,
           LawfulTip(c, Len(c), tip), NEW b \in Sequenced(tip, c)
    PROVE  LawfulTip(c, Len(c), b)
  <1> DEFINE e == EpochOf(tip)
             k == Len(c)
             L == Len(tip)
             fits(x) == L + 1 <= Timestamp(x.number) + MaxSeqDrift
  <1>1. /\ tip \in Chain /\ e \in Epoch /\ e.number \in Nat /\ L \in Nat /\ k \in Nat
        /\ PositionOf(tip) \in Nat
    BY ChainFacts DEF Tip, Epoch
  <1>2. /\ TimeOf(tip) = L /\ e.number < k /\ e.hash = c[e.number + 1].hash
        /\ Timestamp(e.number) <= L
        /\ \A m \in 1..L : tip[m].epoch.number <= e.number
    BY <1>1, LawfulHead DEF OwnHashes
  <1>3. PICK x \in {e, [number |-> e.number + 1, hash |-> c[e.number + 2].hash]} :
          /\ \/ /\ x = e
                /\ L + 1 <= Timestamp(e.number) + MaxSeqDrift \/ L + 1 < Timestamp(e.number + 1)
             \/ /\ x = [number |-> e.number + 1, hash |-> c[e.number + 2].hash]
                /\ e.number + 2 <= k /\ Timestamp(e.number + 1) <= L + 1
          /\ b = Append(tip, ContentOn(tip, x, IF fits(x) THEN "some" ELSE "none"))
    <2>1. TimeOf(tip) + 1 = L + 1
      BY <1>2
    <2>2. QED
      BY <2>1, Zenon DEF Sequenced
  <1>4. x \in Epoch
    <2>1. ASSUME e.number + 2 <= k PROVE c[e.number + 2] \in L1Block
      BY <1>1, <2>1, ElementOfSeq
    <2>2. CASE x = e
      BY <1>1, <2>2
    <2>3. CASE x # e
      <3>1. x = [number |-> e.number + 1, hash |-> c[e.number + 2].hash] /\ e.number + 2 <= k
        BY <1>3, <2>3
      <3>2. c[e.number + 2].hash \in Nat
        BY <2>1, <3>1 DEF L1Block
      <3>3. QED
        BY <1>1, <3>1, <3>2 DEF Epoch
    <2>4. QED
      BY <2>2, <2>3
  <1> DEFINE s == IF fits(x) THEN "some" ELSE "none"
  <1>5. s \in {"some", "none"} /\ (s = "some" => fits(x))
    OBVIOUS
  <1>6. b = Append(tip, ContentOn(tip, x, s))
    BY <1>3
  <1> HIDE DEF s
  <1> DEFINE y == ContentOn(tip, x, s)
  <1>7. y \in Content /\ y.epoch = x /\ y.txs = s /\ y.time = L + 1
    BY <1>1, <1>2, <1>4, <1>5 DEF ContentOn, Content, Txs, Epoch
  <1>8. y = ContentOn(tip, y.epoch, y.txs)
    BY <1>7
  <1> HIDE DEF y
  <1>9. /\ b \in Chain /\ Len(b) = L + 1 /\ b[L + 1] = y
        /\ \A i \in 1..L : b[i] = tip[i]
    BY <1>1, <1>6, <1>7, GrownChain DEF y
  <1>10. \A n \in 0..L : SubSeq(b, 1, n) = SubSeq(tip, 1, n)
    BY <1>1, <1>6, <1>7, PartOfGrown DEF y
  <1>11. SubSeq(b, 1, L) = tip
    BY <1>1, <1>10, WholeChain
  <1>12. ASSUME NEW n \in 1..L PROVE Lawful(c, k, b, n)
    <2>1. Lawful(c, k, tip, n)
      BY DEF LawfulTip
    <2>2. b[n] = tip[n] /\ \A m \in 1..n : b[m] = tip[m]
      BY <1>1, <1>9
    <2>3. SubSeq(b, 1, n - 1) = SubSeq(tip, 1, n - 1)
      BY <1>1, <1>10
    <2>4. QED
      BY <2>1, <2>2, <2>3 DEF Lawful
  <1>13. Lawful(c, k, b, L + 1)
    <2>1. SubSeq(b, 1, (L + 1) - 1) = tip
      BY <1>1, <1>11
    <2>2. PICK t \in Int : t = Timestamp(x.number)
      BY <1>4, DerivationAssumption DEF Timestamp, Epoch
    <2>3. /\ x = e \/ (x.number = e.number + 1 /\ x.hash # e.hash)
          /\ x.number < k /\ x.hash = c[x.number + 1].hash
          /\ Timestamp(x.number) <= L + 1
          /\ x = e => L + 1 <= Timestamp(x.number) + MaxSeqDrift \/ L + 1 < Timestamp(x.number + 1)
          /\ x.number >= e.number
      <3>1. CASE x = e
        <4>1. Timestamp(x.number) <= L + 1
          BY <1>1, <1>2, <2>2, <3>1
        <4>2. L + 1 <= Timestamp(e.number) + MaxSeqDrift \/ L + 1 < Timestamp(e.number + 1)
          <5>1. CASE x = [number |-> e.number + 1, hash |-> c[e.number + 2].hash]
            BY <1>1, <3>1, <5>1
          <5>2. QED
            BY <1>3, <5>1
        <4>3. QED
          BY <1>1, <1>2, <3>1, <4>1, <4>2
      <3>2. CASE x # e
        <4>1. /\ x.number = e.number + 1 /\ x.hash = c[e.number + 2].hash
              /\ e.number + 2 <= k /\ Timestamp(e.number + 1) <= L + 1
          BY <1>3, <3>2
        <4>2. e.number + 1 \in 1..Len(c) /\ e.number + 2 \in 1..Len(c)
              /\ e.number + 1 # e.number + 2
          BY <1>1, <4>1
        <4>3. x.hash # e.hash
          BY <1>2, <4>1, <4>2 DEF OwnHashes
        <4>4. QED
          BY <1>1, <3>2, <4>1, <4>3
      <3>3. QED
        BY <3>1, <3>2
    <2>4. \A m \in 1..(L + 1) : b[m].epoch.number <= x.number
      <3>1. ASSUME NEW m \in 1..(L + 1) PROVE b[m].epoch.number <= x.number
        <4>1. CASE m = L + 1
          BY <1>4, <1>7, <1>9, <4>1 DEF Epoch
        <4>2. CASE m # L + 1
          <5>1. m \in 1..L
            BY <1>1, <4>2
          <5>2. tip[m].epoch.number <= e.number /\ tip[m].epoch.number \in Nat /\ b[m] = tip[m]
            BY <1>1, <1>2, <1>9, <5>1, ChainEpochs
          <5>3. x.number \in Nat
            BY <1>4 DEF Epoch
          <5>4. QED
            BY <1>1, <2>3, <5>2, <5>3
        <4>3. QED
          BY <4>1, <4>2
      <3>2. QED
        BY <3>1
    <2>5. s = "some" => L + 1 <= Timestamp(x.number) + MaxSeqDrift
      BY <1>5
    <2>6. /\ b[L + 1] = y /\ y.epoch = x /\ y.txs = s /\ y.time = L + 1
          /\ b[L + 1] = ContentOn(tip, b[L + 1].epoch, b[L + 1].txs)
      BY <1>7, <1>8, <1>9
    <2> HIDE DEF e, k, L, fits
    <2>7. QED
      BY <1>5, <2>1, <2>3, <2>4, <2>5, <2>6 DEF Lawful, e
  <1>14. \A n \in 1..Len(b) : n \in 1..L \/ n = L + 1
    BY <1>1, <1>9
  <1>15. QED
    BY <1>12, <1>13, <1>14 DEF LawfulTip

\* A batcher transaction: nothing, a new block, or the last one again.
LEMMA PostSingly ==
    ASSUME PostsSingly, NEW tip, NEW c, NEW p \in Post(tip, c)
    PROVE  \/ \E k \in {"frame", "corrupt"} : p.tx = [type |-> k] /\ p.tip = tip
           \/ \E b \in Sequenced(tip, c) : p.tx = Channel(SingleBatch(b)) /\ p.tip = b
           \/ tip # Genesis /\ p.tx = Channel(SingleBatch(tip)) /\ p.tip = tip
  <1>1. /\ "span" \notin Kinds /\ "overlap" \notin Kinds /\ "early" \notin Kinds
        /\ "orphan" \notin Kinds /\ "invalid" \notin Kinds /\ "skip" \notin Kinds
    BY DEF PostsSingly
  <1>2. QED
    BY <1>1, PostCases, Zenon

\* The transactions of an L1 block.
LEMMA PostsSinglyFacts ==
    ASSUME PostsSingly, NEW c, NEW p \in Posts(c)
    PROVE  \/ p.txs = <<>> /\ p.tip = Last(c).tip
           \/ \E q \in Post(Last(c).tip, c) : p.txs = <<q.tx>> /\ p.tip = q.tip
  <1> DEFINE start == [txs |-> <<>>, tip |-> Last(c).tip, timely |-> TRUE]
             After(ps) == UNION {{[txs |-> Append(q.txs, r.tx), tip |-> r.tip,
                                   timely |-> q.timely /\ r.timely] : r \in Post(q.tip, c)} :
                                 q \in ps}
  <1>1. ~(MaxTxs >= 2)
    BY DerivationAssumption DEF PostsSingly
  <1>2. p \in {start} \cup (IF MaxTxs >= 1 THEN After({start}) ELSE {})
    BY <1>1 DEF Posts
  <1>3. start.txs = <<>> /\ start.tip = Last(c).tip
    OBVIOUS
  <1>4. CASE p = start
    BY <1>3, <1>4
  <1>5. CASE p \in After({start})
    <2>1. PICK q \in {start} : \E r \in Post(q.tip, c) :
            p = [txs |-> Append(q.txs, r.tx), tip |-> r.tip, timely |-> q.timely /\ r.timely]
      BY <1>5, Zenon
    <2>2. PICK r \in Post(q.tip, c) :
            p = [txs |-> Append(q.txs, r.tx), tip |-> r.tip, timely |-> q.timely /\ r.timely]
      BY <2>1
    <2>3. p.txs = Append(q.txs, r.tx) /\ p.tip = r.tip
      BY <2>2
    <2>4. q.txs = <<>> /\ q.tip = Last(c).tip
      BY <1>3
    <2>5. Append(<<>>, r.tx) = <<r.tx>>
      OBVIOUS
    <2>6. QED
      BY <2>2, <2>3, <2>4, <2>5
  <1>6. QED
    BY <1>2, <1>4, <1>5

\* A transaction for the tip is what PostedOn says.
LEMMA PostedOnFacts ==
    ASSUME NEW p \in Tip, NEW r \in L1Block,
           \/ r.txs = <<>> /\ r.tip = p
           \/ \E k \in {"frame", "corrupt"} : r.txs = <<[type |-> k]>> /\ r.tip = p
           \/ /\ r.txs = <<Channel(SingleBatch(r.tip))>> /\ r.tip # Genesis
              /\ r.tip = p \/ (Len(r.tip) = Len(p) + 1 /\ IsPrefix(p, r.tip))
    PROVE  PostedOn(p, r)
  <1>1. CASE r.txs = <<>> /\ r.tip = p
    <2>1. Len(r.txs) = 0 /\ DOMAIN r.txs = {}
      BY <1>1
    <2>2. QED
      BY <1>1, <2>1 DEF PostedOn
  <1>2. CASE \E k \in {"frame", "corrupt"} : r.txs = <<[type |-> k]>> /\ r.tip = p
    <2>1. PICK k \in {"frame", "corrupt"} : r.txs = <<[type |-> k]>> /\ r.tip = p
      BY <1>2
    <2>2. Len(r.txs) = 1 /\ \A i \in DOMAIN r.txs : r.txs[i] = [type |-> k]
      BY <2>1
    <2>3. [type |-> k].type # "channel"
      OBVIOUS
    <2>4. QED
      BY <2>1, <2>2, <2>3 DEF PostedOn
  <1>3. CASE /\ r.txs = <<Channel(SingleBatch(r.tip))>> /\ r.tip # Genesis
             /\ r.tip = p \/ (Len(r.tip) = Len(p) + 1 /\ IsPrefix(p, r.tip))
    <2>1. PICK t : t = Channel(SingleBatch(r.tip))
      OBVIOUS
    <2>2. r.txs = <<t>>
      BY <1>3, <2>1
    <2>3. Len(r.txs) = 1 /\ \A i \in DOMAIN r.txs : r.txs[i] = t
      BY <2>2
    <2>4. QED
      BY <1>3, <2>1, <2>3 DEF PostedOn
  <1>4. QED
    BY <1>1, <1>2, <1>3

\* The block that L1 is extended by.
LEMMA ExtendedSingly ==
    ASSUME PostsSingly, NEW c \in Seq(L1Block), c # <<>>, minted \in Nat, NEW d \in Extended(c)
    PROVE  \E r \in L1Block :
             /\ r.hash = minted + 1 /\ d = Append(c, r)
             /\ r.tip = Last(c).tip \/ r.tip \in Sequenced(Last(c).tip, c)
             /\ PostedOn(Last(c).tip, r)
             /\ EpochOf(r.tip).number + SeqWindow >= Len(c)
  <1>1. PICK p \in Posts(c) :
          /\ d = Append(c, [hash |-> minted + 1, txs |-> p.txs, tip |-> p.tip])
          /\ EpochOf(p.tip).number + SeqWindow >= Len(c)
    BY DEF Extended, PostsSingly
  <1>2. p.txs \in Seq(Tx) /\ p.tip \in Tip
    BY PostsType
  <1> DEFINE r == [hash |-> minted + 1, txs |-> p.txs, tip |-> p.tip]
             tip == Last(c).tip
  <1>3. r \in L1Block /\ r.hash = minted + 1 /\ r.txs = p.txs /\ r.tip = p.tip
    BY <1>2 DEF L1Block
  <1>4. d = Append(c, r)
    BY <1>1
  <1> HIDE DEF r
  <1>5. tip \in Tip
    <2>1. Last(c) \in L1Block
      BY FrontIsParent
    <2>2. QED
      BY <2>1 DEF L1Block
  <1>6. ASSUME NEW b \in Sequenced(tip, c)
        PROVE  b # Genesis /\ Len(b) = Len(tip) + 1 /\ IsPrefix(tip, b)
    <2>1. /\ b \in Tip /\ b # Genesis /\ Len(b) = Len(tip) + 1
          /\ \A i \in 1..Len(tip) : b[i] = tip[i]
      BY <1>5, SequencedType
    <2>2. tip \in Chain /\ b \in Chain /\ Len(tip) \in Nat
      BY <1>5, <2>1, ChainFacts DEF Tip
    <2>3. Len(tip) <= Len(b)
      BY <2>1, <2>2
    <2>4. QED
      BY <2>1, <2>2, <2>3, PrefixEntries DEF Chain
  <1>7. \/ r.txs = <<>> /\ r.tip = tip
        \/ \E k \in {"frame", "corrupt"} : r.txs = <<[type |-> k]>> /\ r.tip = tip
        \/ /\ r.txs = <<Channel(SingleBatch(r.tip))>> /\ r.tip # Genesis
           /\ r.tip = tip \/ r.tip \in Sequenced(tip, c)
    <2>1. CASE p.txs = <<>> /\ p.tip = tip
      BY <1>3, <2>1
    <2>2. CASE \E q \in Post(tip, c) : p.txs = <<q.tx>> /\ p.tip = q.tip
      <3>1. PICK q \in Post(tip, c) : p.txs = <<q.tx>> /\ p.tip = q.tip
        BY <2>2
      <3>2. CASE \E k \in {"frame", "corrupt"} : q.tx = [type |-> k] /\ q.tip = tip
        BY <1>3, <3>1, <3>2
      <3>3. CASE \E b \in Sequenced(tip, c) : q.tx = Channel(SingleBatch(b)) /\ q.tip = b
        <4>1. PICK b \in Sequenced(tip, c) : q.tx = Channel(SingleBatch(b)) /\ q.tip = b
          BY <3>3
        <4>2. r.tip = b /\ r.txs = <<Channel(SingleBatch(b))>> /\ b # Genesis
          BY <1>3, <1>6, <3>1, <4>1
        <4>3. QED
          BY <4>2
      <3>4. CASE tip # Genesis /\ q.tx = Channel(SingleBatch(tip)) /\ q.tip = tip
        <4>1. r.tip = tip /\ r.txs = <<Channel(SingleBatch(tip))>> /\ tip # Genesis
          BY <1>3, <3>1, <3>4
        <4>2. QED
          BY <4>1
      <3>5. QED
        BY <3>2, <3>3, <3>4, PostSingly
    <2>3. QED
      BY <2>1, <2>2, PostsSinglyFacts
  <1> HIDE DEF tip
  <1>8. PostedOn(tip, r)
    BY <1>3, <1>5, <1>6, <1>7, PostedOnFacts
  <1>9. r.tip = tip \/ r.tip \in Sequenced(tip, c)
    BY <1>7
  <1>10. EpochOf(r.tip).number + SeqWindow >= Len(c)
    BY <1>1, <1>3
  <1>11. QED
    BY <1>3, <1>4, <1>8, <1>9, <1>10 DEF tip

\* An L1 block of the batcher does not depend on the blocks after it.
LEMMA HonestBlockKept ==
    ASSUME NEW c \in Seq(L1Block), NEW d, NEW k \in 1..Len(c), \A i \in 1..k : d[i] = c[i],
           HonestBlock(c, k)
    PROVE  HonestBlock(d, k)
  <1>1. k \in Nat /\ k >= 1 /\ d[k] = c[k]
    OBVIOUS
  <1>2. c[k].tip \in Chain
    <2>1. c[k] \in L1Block
      OBVIOUS
    <2>2. QED
      BY <2>1 DEF L1Block, Tip
  <1>3. LawfulTip(d, k, d[k].tip)
    BY <1>1, <1>2, LawfulKept DEF HonestBlock
  <1>4. TipOf(d, k - 1) = TipOf(c, k - 1)
    <2>1. k - 1 # 0 => k - 1 \in 1..k
      BY <1>1
    <2>2. QED
      BY <2>1 DEF TipOf
  <1>5. \A j \in 1..k : IsPrefix(d[j].tip, d[k].tip)
    BY <1>1 DEF HonestBlock
  <1>6. QED
    BY <1>1, <1>3, <1>4, <1>5 DEF HonestBlock

LEMMA HonestPart ==
    ASSUME NEW c \in Seq(L1Block), HonestL1(c), NEW n \in 1..Len(c)
    PROVE  HonestL1(SubSeq(c, 1, n))
  <1> DEFINE d == SubSeq(c, 1, n)
  <1>1. Len(c) \in Nat /\ n \in 0..Len(c)
    OBVIOUS
  <1>2. Len(d) = n /\ \A i \in 1..n : d[i] = c[i]
    BY <1>1, PrefixSubSeq
  <1> HIDE DEF d
  <1>3. OwnHashes(d)
    <2>1. 1 \in 1..n /\ \A i \in 1..n : i \in 1..Len(c)
      BY <1>1
    <2>2. QED
      BY <1>2, <2>1 DEF OwnHashes, HonestL1
  <1>4. ASSUME NEW k \in 1..n PROVE HonestBlock(d, k)
    <2>1. k \in 1..Len(c) /\ \A i \in 1..k : i \in 1..n
      BY <1>1
    <2>2. HonestBlock(c, k)
      BY <2>1 DEF HonestL1
    <2>3. QED
      BY <1>2, <2>1, <2>2, HonestBlockKept
  <1>5. HonestL1(d)
    BY <1>2, <1>3, <1>4 DEF HonestL1
  <1>6. QED
    BY <1>5 DEF d

LEMMA HonestGrown ==
    ASSUME PostsSingly, NEW c \in Seq(L1Block), c # <<>>, minted \in Nat,
           \A i \in 1..Len(c) : c[i].hash <= minted, HonestL1(c), NEW d \in Extended(c)
    PROVE  HonestL1(d)
  <1>1. PICK r \in L1Block :
          /\ r.hash = minted + 1 /\ d = Append(c, r)
          /\ r.tip = Last(c).tip \/ r.tip \in Sequenced(Last(c).tip, c)
          /\ PostedOn(Last(c).tip, r)
          /\ EpochOf(r.tip).number + SeqWindow >= Len(c)
    BY ExtendedSingly
  <1> DEFINE n == Len(c)
             tip == c[n].tip
  <1>2. n \in Nat /\ n >= 1
    BY EmptySeq
  <1>3. Last(c) = c[n] /\ c[n] \in L1Block /\ tip \in Tip
    <2>1. c[n] \in L1Block
      BY <1>2
    <2>2. QED
      BY <2>1 DEF Last, L1Block
  <1>4. d \in Seq(L1Block) /\ Len(d) = n + 1 /\ d[n + 1] = r /\ \A i \in 1..n : d[i] = c[i]
    BY <1>1, AppendProperties
  <1>5. HonestBlock(c, n)
    BY <1>2 DEF HonestL1
  <1>6. \A k \in 1..n : c[k].hash \in Nat /\ c[k].tip \in Chain
    <2>1. \A k \in 1..n : c[k] \in L1Block
      BY <1>2
    <2>2. QED
      BY <2>1 DEF L1Block, Tip
  <1>7. OwnHashes(d)
    <2>1. ASSUME NEW i \in 1..(n + 1), NEW j \in 1..(n + 1), d[i].hash = d[j].hash PROVE i = j
      <3>1. OwnHashes(c)
        BY DEF HonestL1
      <3>2. CASE i \in 1..n /\ j \in 1..n
        BY <1>4, <2>1, <3>1, <3>2 DEF OwnHashes
      <3>3. CASE i \in 1..n /\ j = n + 1
        <4>1. d[i].hash <= minted /\ d[i].hash \in Nat /\ d[j].hash = minted + 1
          BY <1>1, <1>4, <1>6, <3>3
        <4>2. QED
          BY <2>1, <4>1
      <3>4. CASE i = n + 1 /\ j \in 1..n
        <4>1. d[j].hash <= minted /\ d[j].hash \in Nat /\ d[i].hash = minted + 1
          BY <1>1, <1>4, <1>6, <3>4
        <4>2. QED
          BY <2>1, <4>1
      <3>5. QED
        BY <1>2, <3>2, <3>3, <3>4
    <2>2. d[1].hash = 0
      BY <1>2, <1>4 DEF HonestL1, OwnHashes
    <2>3. QED
      BY <1>4, <2>1, <2>2 DEF OwnHashes
  <1>8. ASSUME NEW k \in 1..n PROVE HonestBlock(d, k)
    <2>1. HonestBlock(c, k) /\ \A i \in 1..k : d[i] = c[i]
      BY <1>2, <1>4 DEF HonestL1
    <2>2. QED
      BY <2>1, HonestBlockKept
  <1>9. HonestBlock(d, n + 1)
    <2>1. LawfulTip(c, n, r.tip) /\ r.tip \in Chain
      <3>1. r.tip \in Chain
        BY DEF L1Block, Tip
      <3>2. LawfulTip(c, n, tip)
        BY <1>5 DEF HonestBlock
      <3>3. CASE r.tip = tip
        BY <3>1, <3>2, <3>3
      <3>4. CASE r.tip \in Sequenced(tip, c)
        BY <1>2, <1>3, <3>1, <3>2, <3>4, SequencedLawful DEF HonestL1
      <3>5. QED
        BY <1>1, <1>3, <3>3, <3>4
    <2>2. LawfulTip(d, n + 1, r.tip)
      <3>1. n + 1 \in Nat /\ n <= n + 1
        BY <1>2
      <3>2. QED
        BY <1>2, <1>4, <2>1, <3>1, LawfulKept
    <2>3. TipOf(d, (n + 1) - 1) = tip
      <3>1. (n + 1) - 1 = n /\ n # 0 /\ d[n] = c[n]
        BY <1>2, <1>4
      <3>2. QED
        BY <3>1 DEF TipOf
    <2>4. PostedOn(TipOf(d, (n + 1) - 1), r)
      BY <1>1, <1>3, <2>3
    <2>5. IsPrefix(tip, r.tip)
      <3>1. tip \in Chain
        BY <1>2, <1>6
      <3>2. QED
        BY <1>1, <1>3, <3>1, PrefixReflexive DEF PostedOn, Chain
    <2>6. ASSUME NEW j \in 1..(n + 1) PROVE IsPrefix(d[j].tip, r.tip)
      <3>1. CASE j = n + 1
        BY <1>4, <2>1, <3>1, PrefixReflexive DEF Chain
      <3>2. CASE j \in 1..n
        <4>1. d[j].tip = c[j].tip /\ c[j].tip \in Chain /\ tip \in Chain
          BY <1>2, <1>4, <1>6, <3>2
        <4>2. IsPrefix(c[j].tip, tip)
          BY <1>5, <3>2 DEF HonestBlock
        <4>3. QED
          BY <2>1, <2>5, <4>1, <4>2, PrefixTransitive DEF Chain
      <3>3. QED
        BY <1>2, <3>1, <3>2
    <2>7. EpochOf(r.tip).number + SeqWindow >= (n + 1) - 1
      BY <1>1, <1>2
    <2> HIDE DEF n, tip
    <2>8. QED
      BY <1>4, <2>2, <2>4, <2>6, <2>7 DEF HonestBlock
  <1>10. \A k \in 1..Len(d) : k \in 1..n \/ k = n + 1
    BY <1>2, <1>4
  <1>11. QED
    BY <1>7, <1>8, <1>9, <1>10 DEF HonestL1

LEMMA HonestStep ==
    ASSUME PostsSingly, Types, HonestL1(l1), L1Step
    PROVE  HonestL1(l1')
  <1>1. l1 \in Seq(L1Block) /\ Len(l1) \in Nat /\ minted \in Nat /\ l1_finalized \in 0..(Len(l1) - 1)
    BY DEF Types
  <1>2. PICK n \in (l1_finalized + 1)..Len(l1) : l1' \in Extended(SubSeq(l1, 1, n))
    BY L1Extends
  <1> DEFINE c == SubSeq(l1, 1, n)
  <1>3. n \in 1..Len(l1) /\ n \in 0..Len(l1)
    BY <1>1
  <1>4. c \in Seq(L1Block) /\ Len(c) = n /\ \A i \in 1..n : c[i] = l1[i]
    BY <1>1, <1>3, PrefixSubSeq
  <1>5. HonestL1(c)
    BY <1>1, <1>3, HonestPart
  <1>6. l1' \in Extended(c)
    BY <1>2
  <1> HIDE DEF c
  <1>7. c # <<>> /\ \A i \in 1..Len(c) : c[i].hash <= minted
    <2>1. \A i \in 1..n : i \in DOMAIN l1
      BY <1>1, <1>3
    <2>2. QED
      BY <1>3, <1>4, <2>1 DEF Types
  <1>8. QED
    BY <1>1, <1>4, <1>5, <1>6, <1>7, HonestGrown

\* The last L1 block that has to do with what was derived: the last one read, or the last
\* final one when the watcher has started again.
Far == IF next_block > l1_finalized THEN next_block ELSE l1_finalized + 1

\* The chain that was posted in the L1 blocks read.
ReadTip == TipOf(l1, next_block)

\* Batch b, found in L1 block `inclusion`, is block t of tip, posted in its window.
InTime(tip, b, t, inclusion) ==
    /\ t \in 1..Len(tip)
    /\ b = SingleBatch(SubSeq(tip, 1, t))
    /\ tip[t].epoch.number + SeqWindow >= inclusion

\* Transaction tx holds block t of tip.
Holds(tx, tip, t) == tx = Channel(SingleBatch(SubSeq(tip, 1, t)))

\* The stages have the blocks of tip from the safe head on, and no others.
StagesHave(tip) ==
    /\ pending_inputs = <<>> /\ Len(txs) <= 1 /\ (pc = "idle" => txs = <<>>)
    /\ \A t \in DOMAIN batches : InTime(tip, batches[t].batch, t, batches[t].inclusion)
    /\ \A i \in DOMAIN txs :
         txs[i].tx.type = "channel" =>
             \E t \in 1..Len(tip) : /\ Holds(txs[i].tx, tip, t)
                                    /\ tip[t].epoch.number + SeqWindow >= txs[i].inclusion
    /\ pc # "panicked" =>
         \A n \in (Len(safe_head) + 1)..Len(tip) :
             n \in DOMAIN batches \/ \E i \in DOMAIN txs : Holds(txs[i].tx, tip, n)

\* Attributes counts on from the safe head.
SeqInStep == epoch_hash = EpochOf(safe_head).hash /\ sequence_number = PositionOf(safe_head)

InStep == OnChain => IsPrefix(safe_head, l1[Far].tip) /\ SeqInStep /\ StagesHave(ReadTip)

FinalPosted ==
    IsPrefix(finalized_head, l1[l1_finalized + 1].tip) /\ PositionOf(finalized_head) = 0

SequencerInv == HonestL1(l1) /\ FinalPosted /\ InStep

\* What was read while the last block read is canonical.
LEMMA Reading ==
    ASSUME Types, Places, HonestL1(l1), OnChain
    PROVE  /\ Far \in 1..Len(l1) /\ next_block \in 0..Len(l1) /\ next_block <= Far
           /\ ReadTip \in Chain /\ l1[Far].tip \in Chain
           /\ IsPrefix(ReadTip, l1[Far].tip)
           /\ LawfulTip(l1, Far, ReadTip) /\ LawfulTip(l1, Far, l1[Far].tip)
           /\ next_block >= 1 => EpochOf(ReadTip).number + SeqWindow >= next_block - 1
  <1>1. l1 \in Seq(L1Block) /\ Len(l1) \in Nat /\ l1_finalized \in 0..(Len(l1) - 1) /\ next_block \in Nat
    BY DEF Types
  <1>2. next_block <= Len(l1)
    <2>1. CASE last_hash = -1
      <3>1. next_block <= l1_finalized + 1
        BY <2>1 DEF Places
      <3>2. QED
        BY <1>1, <3>1
    <2>2. CASE last_hash # -1
      BY <2>2 DEF OnChain
    <2>3. QED
      BY <2>1, <2>2
  <1>3. PICK far \in Nat : far = Far
    BY <1>1 DEF Far
  <1>4. far \in 1..Len(l1) /\ next_block <= far
    BY <1>1, <1>2, <1>3 DEF Far
  <1>5. \A k \in 1..Len(l1) : l1[k].tip \in Chain
    <2>1. \A k \in 1..Len(l1) : l1[k] \in L1Block
      BY <1>1
    <2>2. QED
      BY <2>1 DEF L1Block, Tip
  <1>6. HonestBlock(l1, far)
    BY <1>4 DEF HonestL1
  <1>7. CASE next_block = 0
    <2>1. ReadTip = Genesis
      BY <1>7 DEF ReadTip, TipOf
    <2>2. Genesis \in Chain /\ Len(Genesis) = 0
      BY DEF Genesis, Chain
    <2>3. LawfulTip(l1, far, Genesis)
      <3>1. \A n \in 1..Len(Genesis) : FALSE
        BY <2>2
      <3>2. QED
        BY <3>1 DEF LawfulTip
    <2>4. IsPrefix(Genesis, l1[far].tip)
      BY <1>4, <1>5, PrefixEmpty DEF Genesis, Chain
    <2>5. QED
      BY <1>1, <1>3, <1>4, <1>5, <1>6, <1>7, <2>1, <2>2, <2>3, <2>4 DEF HonestBlock
  <1>8. CASE next_block # 0
    <2>1. next_block \in 1..Len(l1) /\ next_block \in 1..far
      BY <1>1, <1>2, <1>4, <1>8
    <2>2. ReadTip = l1[next_block].tip /\ ReadTip \in Chain
      BY <1>5, <1>8, <2>1 DEF ReadTip, TipOf
    <2>3. HonestBlock(l1, next_block)
      BY <2>1 DEF HonestL1
    <2>4. LawfulTip(l1, far, ReadTip)
      <3>1. LawfulTip(l1, next_block, ReadTip)
        BY <2>2, <2>3 DEF HonestBlock
      <3>2. QED
        BY <1>1, <1>4, <2>2, <3>1, LawfulKept
    <2>5. QED
      BY <1>1, <1>2, <1>3, <1>4, <1>5, <1>6, <2>2, <2>3, <2>4, <2>1 DEF HonestBlock
  <1>9. QED
    BY <1>7, <1>8

\* The cached L1 blocks are canonical.
LEMMA CanonicalCache ==
    ASSUME Types, Places, ViewInv, OnChain, NEW n \in DOMAIN l1_info
    PROVE  n \in Nat /\ l1_info[n] = l1[n + 1].hash
  <1>1. PICK w \in [Nat -> Nat] : View(w)
    BY DEF ViewInv
  <1>2. n \in Nat /\ next_block \in Nat /\ l1_finalized \in Nat /\ n < next_block
    BY DEF Types, Places
  <1>3. l1_info[n] = w[n]
    BY <1>1 DEF View
  <1>4. CASE last_hash = -1
    <2>1. n \in 0..l1_finalized
      BY <1>2, <1>4 DEF Places
    <2>2. QED
      BY <1>1, <1>2, <1>3, <2>1 DEF View
  <1>5. CASE last_hash # -1
    <2>1. n \in 0..(next_block - 1)
      BY <1>2
    <2>2. QED
      BY <1>1, <1>2, <1>3, <1>5, <2>1 DEF View
  <1>6. QED
    BY <1>4, <1>5

\* The batch of block t of a chain.
LEMMA SingleOf ==
    ASSUME NEW tip \in Chain, NEW t \in 1..Len(tip)
    PROVE  LET b == SingleBatch(SubSeq(tip, 1, t))
           IN  /\ b \in Batch /\ b.kind = "single"
               /\ b.timestamp = tip[t].time /\ b.parent = SubSeq(tip, 1, t - 1)
               /\ b.epoch = tip[t].epoch /\ b.txs = tip[t].txs
  <1> DEFINE s == SubSeq(tip, 1, t)
  <1>1. Len(tip) \in Nat /\ t \in 0..Len(tip) /\ t \in Nat /\ t >= 1 /\ t - 1 \in 0..Len(tip)
    BY ChainFacts
  <1>2. s \in Chain /\ Len(s) = t /\ \A i \in 1..t : s[i] = tip[i]
    BY <1>1, ChainPart
  <1>3. SubSeq(tip, 1, t - 1) \in Chain /\ Len(SubSeq(tip, 1, t - 1)) = t - 1
        /\ \A i \in 1..(t - 1) : SubSeq(tip, 1, t - 1)[i] = tip[i]
    BY <1>1, ChainPart
  <1> HIDE DEF s
  <1>4. s # Genesis
    BY <1>1, <1>2 DEF Genesis
  <1>5. Last(s) = tip[t] /\ EpochOf(s) = tip[t].epoch /\ TimeOf(s) = tip[t].time
    BY <1>1, <1>2, <1>4, ChainFacts DEF TimeOf
  <1>6. Front(s) = SubSeq(tip, 1, t - 1)
    <2> DEFINE p == SubSeq(tip, 1, t - 1)
    <2>1. /\ Front(s) \in Chain /\ Len(Front(s)) = t - 1
          /\ \A i \in 1..(t - 1) : Front(s)[i] = s[i]
      <3>1. Front(s) \in Seq(Content) /\ Len(Front(s)) = Len(s) - 1 /\ IsPrefix(Front(s), s)
        BY <1>2, <1>4, FrontIsParent DEF Chain, Genesis
      <3>2. QED
        BY <1>2, <3>1, PrefixEntries DEF Chain
    <2>2. \A i \in 1..(t - 1) : i \in 1..t
      BY <1>1
    <2>3. p \in Chain /\ Len(p) = t - 1 /\ \A i \in 1..(t - 1) : p[i] = tip[i]
      BY <1>3
    <2> HIDE DEF p
    <2>4. Front(s) = p
      BY <1>2, <2>1, <2>2, <2>3, SeqEqual DEF Chain
    <2>5. QED
      BY <2>4 DEF p
  <1>7. tip[t] \in Content
    BY ChainEpochs
  <1>8. SingleBatch(s) =
          [kind |-> "single", timestamp |-> tip[t].time, parent |-> SubSeq(tip, 1, t - 1),
           epoch |-> tip[t].epoch, txs |-> tip[t].txs]
    BY <1>5, <1>6 DEF SingleBatch
  <1>9. SingleBatch(s) \in Batch
    BY <1>3, <1>7, <1>8 DEF Batch, SingleRecord, Content
  <1>10. QED
    BY <1>8, <1>9 DEF s

\* The safe head is part of what was posted on the L1 chain that was read.
OnCourse ==
    /\ Types /\ Places /\ ViewInv /\ GoodChain(safe_head) /\ HonestL1(l1)
    /\ OnChain /\ IsPrefix(safe_head, l1[Far].tip)

\* The next block that was posted.
LEMMA NextPosted ==
    ASSUME OnCourse, NEW t, t = Len(safe_head) + 1, t \in 1..Len(ReadTip)
    PROVE  /\ SubSeq(ReadTip, 1, t - 1) = safe_head
           /\ Lawful(l1, Far, ReadTip, t)
           /\ l1[Far].tip[t] = ReadTip[t]
           /\ t <= Len(l1[Far].tip)
  <1>1. Types /\ Places /\ HonestL1(l1) /\ OnChain /\ IsPrefix(safe_head, l1[Far].tip)
    BY DEF OnCourse
  <1>2. safe_head \in Chain /\ Len(safe_head) \in Nat
    BY <1>1, ChainFacts DEF Types
  <1>3. ReadTip \in Chain /\ l1[Far].tip \in Chain /\ IsPrefix(ReadTip, l1[Far].tip)
        /\ LawfulTip(l1, Far, ReadTip)
    BY <1>1, Reading
  <1>4. PICK tip \in Chain : tip = ReadTip
    BY <1>3
  <1>5. PICK f \in Chain : f = l1[Far].tip
    BY <1>3
  <1>6. Len(tip) \in Nat /\ t \in 1..Len(tip) /\ t - 1 = Len(safe_head)
    BY <1>2, <1>4, ChainFacts
  <1>7. Len(safe_head) <= Len(tip)
    BY <1>2, <1>6
  <1>8. IsPrefix(safe_head, tip)
    BY <1>1, <1>2, <1>3, <1>4, <1>5, <1>7, PrefixComparable DEF Chain
  <1>9. safe_head = SubSeq(tip, 1, Len(safe_head))
    BY <1>2, <1>8, PrefixIsSubSeq DEF Chain
  <1>10. Len(tip) <= Len(f) /\ \A i \in 1..Len(tip) : tip[i] = f[i]
    BY <1>3, <1>4, <1>5, PrefixEntries DEF Chain
  <1>11. t <= Len(f) /\ f[t] = tip[t]
    BY <1>6, <1>10, ChainFacts
  <1>12. QED
    BY <1>3, <1>4, <1>5, <1>6, <1>9, <1>11 DEF LawfulTip

\* A batch of what was read is not for the next block, or is accepted as soon as its
\* epoch can be told.
LEMMA StatusInTime ==
    ASSUME OnCourse, NEW b, NEW t, NEW inclusion \in Nat, InTime(ReadTip, b, t, inclusion)
    PROVE  LET status == SingleBatchStatus(b, inclusion)
           IN  /\ b \in Batch /\ b.kind = "single" /\ t \in Nat
               /\ b.timestamp = t /\ b.epoch = ReadTip[t].epoch /\ b.txs = ReadTip[t].txs
               /\ status # "Drop" => t >= Len(safe_head) + 1
               /\ status = "Accept" => t = Len(safe_head) + 1
               /\ t = Len(safe_head) + 1 => status = "Accept" \/ (status = "Undecided" /\ next_epoch = {})
  <1>1. Types /\ Places /\ ViewInv /\ HonestL1(l1) /\ OnChain /\ GoodChain(safe_head)
    BY DEF OnCourse
  <1>2. safe_head \in Chain /\ Len(safe_head) \in Nat /\ TimeOf(safe_head) = Len(safe_head)
    BY <1>1, ChainFacts, GoodHead DEF Types
  <1>3. ReadTip \in Chain /\ LawfulTip(l1, Far, ReadTip)
    BY <1>1, Reading
  <1>4. /\ t \in 1..Len(ReadTip) /\ b = SingleBatch(SubSeq(ReadTip, 1, t))
        /\ ReadTip[t].epoch.number + SeqWindow >= inclusion
    BY DEF InTime
  <1>5. Lawful(l1, Far, ReadTip, t) /\ t \in Nat
    BY <1>3, <1>4 DEF LawfulTip
  <1>6. /\ b \in Batch /\ b.kind = "single"
        /\ b.timestamp = ReadTip[t].time /\ b.parent = SubSeq(ReadTip, 1, t - 1)
        /\ b.epoch = ReadTip[t].epoch /\ b.txs = ReadTip[t].txs
    BY <1>3, <1>4, SingleOf
  <1>7. b.timestamp = t
    BY <1>5, <1>6 DEF Lawful
  <1>8. next_timestamp = Len(safe_head) + 1
    BY <1>2 DEF next_timestamp
  <1> DEFINE status == SingleBatchStatus(b, inclusion)
             L == Len(safe_head)
  <1>9. ASSUME t > L + 1 PROVE status = "Future"
    BY <1>7, <1>8, <1>9 DEF SingleBatchStatus
  <1>10. ASSUME t < L + 1 PROVE status = "Drop"
    <2>1. ~(b.timestamp > next_timestamp) /\ b.timestamp < next_timestamp
      BY <1>2, <1>5, <1>7, <1>8, <1>10
    <2>2. QED
      BY <2>1 DEF SingleBatchStatus
  <1>11. ASSUME t = L + 1 PROVE status = "Accept" \/ (status = "Undecided" /\ next_epoch = {})
    <2> DEFINE e == b.epoch
               p == safe_epoch
               origin == Origins(e.number)
               stays == e.number = p.number
    <2>1. b.parent = safe_head
      BY <1>4, <1>6, <1>11, NextPosted
    <2>2. /\ e \in Epoch /\ e.number \in Nat /\ p \in Epoch /\ p.number \in Nat
      BY <1>2, <1>3, <1>4, <1>6, ChainEpochs, ChainFacts DEF safe_epoch, Epoch
    <2>3. /\ e = p \/ e.number = p.number + 1
          /\ e.hash = l1[e.number + 1].hash
          /\ Timestamp(e.number) <= t
          /\ b.txs \in {"some", "none"}
          /\ b.txs = "some" => t <= Timestamp(e.number) + MaxSeqDrift
          /\ e = p => t <= Timestamp(e.number) + MaxSeqDrift \/ t < Timestamp(e.number + 1)
      <3>1. EpochOf(SubSeq(ReadTip, 1, t - 1)) = p
        BY <1>6, <2>1 DEF safe_epoch
      <3>2. QED
        BY <1>5, <1>6, <3>1 DEF Lawful
    <2>4. ~WindowElapsed(e.number, inclusion)
      <3>1. PICK m \in Nat : m = e.number
        BY <2>2
      <3>2. m + SeqWindow >= inclusion
        BY <1>4, <1>6, <3>1
      <3>3. ~(m + SeqWindow < inclusion)
        BY <3>2, DerivationAssumption
      <3>4. QED
        BY <3>1, <3>3 DEF WindowElapsed
    <2>5. stays <=> e = p
      BY <2>2, <2>3
    <2>6. \A x \in next_epoch : x.number = p.number + 1 /\ x.hash = l1[p.number + 2].hash
      <3>1. ASSUME p.number + 1 \in DOMAIN l1_info
            PROVE  l1_info[p.number + 1] = l1[p.number + 2].hash
        <4>1. (p.number + 1) + 1 = p.number + 2
          BY <2>2
        <4>2. QED
          BY <1>1, <3>1, <4>1, CanonicalCache
      <3>2. QED
        BY <3>1 DEF next_epoch, EpochByNumber
    <2>7. \A o \in origin : o.number = e.number /\ o.hash = e.hash
      <3>1. CASE e = p
        BY <2>5, <3>1 DEF Origins
      <3>2. CASE e # p
        <4>1. e.number = p.number + 1 /\ e.hash = l1[p.number + 2].hash
          <5>1. e.number = p.number + 1 /\ e.number + 1 = p.number + 2
            BY <2>2, <2>3, <3>2
          <5>2. QED
            BY <2>3, <5>1
        <4>2. QED
          BY <2>5, <2>6, <3>2, <4>1 DEF Origins
      <3>3. QED
        BY <3>1, <3>2
    <2>8. PICK ts \in Int : ts = Timestamp(e.number)
      BY <2>2, DerivationAssumption DEF Timestamp
    <2>9. PICK tn \in Int : tn = Timestamp(e.number + 1)
      BY <2>2, DerivationAssumption DEF Timestamp
    <2>10. ASSUME NEW o \in origin
           PROVE  ~ (\/ b.epoch.hash # o.hash
                     \/ b.timestamp < Timestamp(o.number)
                     \/ DriftTooLarge(b.timestamp, o, b.txs, next_epoch, stays))
      <3>1. b.epoch.hash = o.hash /\ Timestamp(o.number) = ts
        BY <2>7, <2>8
      <3>2. ~(t < ts)
        BY <1>5, <2>3, <2>8
      <3>3. ~DriftTooLarge(t, o, b.txs, next_epoch, stays)
        <4> SUFFICES ASSUME t > ts + MaxSeqDrift,
                            \/ b.txs # "none"
                            \/ stays /\ \E x \in next_epoch : t >= Timestamp(x.number)
                     PROVE  FALSE
          BY <3>1 DEF DriftTooLarge
        <4>1. ~(t <= ts + MaxSeqDrift)
          BY <1>5, DerivationAssumption
        <4>2. b.txs = "none"
          BY <2>3, <2>8, <4>1
        <4>3. stays /\ \E x \in next_epoch : t >= Timestamp(x.number)
          BY <4>2
        <4>4. t >= tn
          BY <2>5, <2>6, <2>9, <4>3
        <4>5. t < tn
          BY <2>3, <2>5, <2>8, <2>9, <4>1, <4>3
        <4>6. QED
          BY <1>5, <4>4, <4>5
      <3>4. QED
        BY <1>7, <3>1, <3>2, <3>3
    <2>11. ASSUME NEW o \in origin, DriftUndecided(b.timestamp, o, b.txs, next_epoch, stays)
           PROVE  next_epoch = {}
      BY <2>11 DEF DriftUndecided
    <2>12. ASSUME origin = {} PROVE next_epoch = {}
      BY <2>12 DEF Origins
    <2>13. ~HasInvalidTransactions(b)
      BY <2>3 DEF HasInvalidTransactions
    <2>14. e.number \in {p.number, p.number + 1}
      BY <2>3
    <2>15. ~(b.timestamp > next_timestamp) /\ ~(b.timestamp < next_timestamp)
      BY <1>2, <1>5, <1>7, <1>8, <1>11
    <2>16. CASE origin = {}
      <3>1. status = "Undecided"
        BY <2>1, <2>4, <2>14, <2>15, <2>16 DEF SingleBatchStatus
      <3>2. QED
        BY <2>12, <2>16, <3>1
    <2>17. CASE origin # {} /\ \E o \in origin : DriftUndecided(b.timestamp, o, b.txs, next_epoch, stays)
      <3>1. status = "Undecided"
        BY <2>1, <2>4, <2>10, <2>14, <2>15, <2>17 DEF SingleBatchStatus
      <3>2. QED
        BY <2>11, <2>17, <3>1
    <2>18. CASE origin # {} /\ ~\E o \in origin : DriftUndecided(b.timestamp, o, b.txs, next_epoch, stays)
      BY <2>1, <2>4, <2>10, <2>13, <2>14, <2>15, <2>18 DEF SingleBatchStatus
    <2>19. QED
      BY <2>16, <2>17, <2>18
  <1>12. L \in Nat /\ t \in Nat
    BY <1>2, <1>5
  <1> HIDE DEF status, L
  <1>13. t > L + 1 \/ t < L + 1 \/ t = L + 1
    BY <1>12
  <1>14. /\ status # "Drop" => t >= L + 1
         /\ status = "Accept" => t = L + 1
    BY <1>9, <1>10, <1>12, <1>13
  <1>15. QED
    BY <1>6, <1>7, <1>11, <1>12, <1>14 DEF status, L

\* The next block that was posted is derived as it was built.
LEMMA DerivePosted ==
    ASSUME OnCourse, SeqInStep, NEW t, t = Len(safe_head) + 1, t \in 1..Len(ReadTip),
           NEW input \in Input, Derive(input),
           input.timestamp = t, input.epoch = ReadTip[t].epoch.number, input.txs = ReadTip[t].txs
    PROVE  \/ pc' = "panicked" /\ UNCHANGED <<seq_vars, safe_head>>
           \/ /\ pc' = pc /\ ReadTip[t] \in Content
              /\ safe_head' = Append(safe_head, ReadTip[t])
              /\ SeqInStep'
  <1>1. Types /\ Places /\ ViewInv /\ HonestL1(l1) /\ OnChain
    BY DEF OnCourse
  <1>2. CASE pc' = "panicked" /\ UNCHANGED <<seq_vars, l2_refs, safe_head>>
    BY <1>2
  <1>3. CASE /\ pc' = pc
             /\ \E x \in Content :
                   /\ input.epoch \in DOMAIN l1_info
                   /\ x.epoch.number = input.epoch /\ x.epoch.hash = l1_info[input.epoch]
                   /\ x.time = input.timestamp /\ x.txs = input.txs
                   /\ x.seq = NextSeq(x.epoch.hash)
                   /\ x.deposits = IF x.seq = 0 THEN x.epoch.hash ELSE -1
                   /\ sequence_number' = x.seq /\ epoch_hash' = x.epoch.hash
                   /\ safe_head' = Append(safe_head, x)
    <2>1. PICK x \in Content :
            /\ input.epoch \in DOMAIN l1_info
            /\ x.epoch.number = input.epoch /\ x.epoch.hash = l1_info[input.epoch]
            /\ x.time = input.timestamp /\ x.txs = input.txs
            /\ x.seq = NextSeq(x.epoch.hash)
            /\ x.deposits = IF x.seq = 0 THEN x.epoch.hash ELSE -1
            /\ sequence_number' = x.seq /\ epoch_hash' = x.epoch.hash
            /\ safe_head' = Append(safe_head, x)
      BY <1>3
    <2>2. ReadTip \in Chain
      BY <1>1, Reading
    <2>3. PICK y \in Content : y = ReadTip[t]
      BY <2>2, ChainEpochs
    <2>4. Lawful(l1, Far, ReadTip, t) /\ SubSeq(ReadTip, 1, t - 1) = safe_head
      BY NextPosted
    <2> DEFINE p == EpochOf(safe_head)
    <2>5. /\ y = ContentOn(safe_head, y.epoch, y.txs)
          /\ y.time = t
          /\ y.epoch = p \/ y.epoch.hash # p.hash
          /\ y.epoch.hash = l1[y.epoch.number + 1].hash
      BY <2>3, <2>4 DEF Lawful
    <2>6. x.epoch = y.epoch
      <3>1. x.epoch.number = y.epoch.number
        BY <2>1, <2>3
      <3>2. x.epoch.hash = y.epoch.hash
        BY <1>1, <2>1, <2>3, <2>5, CanonicalCache
      <3>3. x.epoch \in Epoch /\ y.epoch \in Epoch
        BY DEF Content
      <3>4. QED
        BY <3>1, <3>2, <3>3 DEF Epoch
    <2>7. y.seq = (IF y.epoch # p THEN 0 ELSE PositionOf(safe_head) + 1)
          /\ y.deposits = (IF y.epoch # p THEN y.epoch.hash ELSE -1)
      BY <2>5 DEF ContentOn
    <2>8. x.seq = (IF p.hash # y.epoch.hash THEN 0 ELSE PositionOf(safe_head) + 1)
      BY <2>1, <2>6 DEF NextSeq, SeqInStep
    <2>9. PositionOf(safe_head) \in Nat
      BY <1>1, ChainFacts DEF Types
    <2>10. x.seq = y.seq /\ x.deposits = y.deposits
      <3>1. CASE y.epoch = p
        <4>1. x.seq = PositionOf(safe_head) + 1 /\ y.seq = PositionOf(safe_head) + 1
          BY <2>7, <2>8, <3>1
        <4>2. x.seq # 0 /\ y.deposits = -1
          BY <2>7, <2>9, <3>1, <4>1
        <4>3. QED
          BY <2>1, <4>1, <4>2
      <3>2. CASE y.epoch # p
        BY <2>1, <2>5, <2>6, <2>7, <2>8, <3>2
      <3>3. QED
        BY <3>1, <3>2
    <2>11. x = y
      <3>1. x.time = y.time /\ x.txs = y.txs
        BY <2>1, <2>3, <2>5
      <3>2. QED
        BY <2>6, <2>10, <3>1 DEF Content
    <2>12. EpochOf(Append(safe_head, x)) = x.epoch /\ PositionOf(Append(safe_head, x)) = x.seq
      BY <1>1, GrownChain DEF Types
    <2>13. SeqInStep'
      BY <2>1, <2>12 DEF SeqInStep
    <2>14. QED
      BY <1>3, <2>1, <2>3, <2>11, <2>13
  <1>4. QED
    BY <1>1, <1>2, <1>3, DeriveFacts

\* A channel has one batch.
LEMMA ChannelBatches ==
    ASSUME NEW b
    PROVE  Channel(b).type = "channel" /\ Channel(b).batches = <<b>>
  BY DEF Channel

\* The batches when the next transaction has been read.
LEMMA InsertedInTime ==
    ASSUME OnCourse, StagesHave(ReadTip)
    PROVE  /\ \A t \in DOMAIN Inserted : InTime(ReadTip, Inserted[t].batch, t, Inserted[t].inclusion)
           /\ pc # "panicked" =>
                \A n \in (Len(safe_head) + 1)..Len(ReadTip) : n \in DOMAIN Inserted
  <1>1. Types /\ Places /\ HonestL1(l1) /\ OnChain
    BY DEF OnCourse
  <1>2. ReadTip \in Chain /\ LawfulTip(l1, Far, ReadTip)
    BY <1>1, Reading
  <1>3. PICK tip \in Chain : tip = ReadTip
    BY <1>2
  <1>4. txs \in Seq(Queued) /\ Len(txs) \in Nat /\ Len(txs) <= 1 /\ Len(safe_head) \in Nat
        /\ Len(tip) \in Nat
    BY <1>1, ChainFacts DEF Types, StagesHave
  <1>5. /\ \A t \in DOMAIN batches : InTime(tip, batches[t].batch, t, batches[t].inclusion)
        /\ \A i \in DOMAIN txs :
             txs[i].tx.type = "channel" =>
                 \E t \in 1..Len(tip) : /\ Holds(txs[i].tx, tip, t)
                                        /\ tip[t].epoch.number + SeqWindow >= txs[i].inclusion
        /\ pc # "panicked" =>
             \A n \in (Len(safe_head) + 1)..Len(tip) :
                 n \in DOMAIN batches \/ \E i \in DOMAIN txs : Holds(txs[i].tx, tip, n)
    BY <1>3 DEF StagesHave
  <1>6. \A i \in DOMAIN txs : i = 1 /\ txs[i] = Head(txs) /\ txs # <<>>
    BY <1>4
  <1>7. CASE txs = <<>> \/ Head(txs).tx.type # "channel"
    <2>1. Inserted = batches
      BY <1>7 DEF Inserted
    <2>2. \A n : \A i \in DOMAIN txs : ~Holds(txs[i].tx, tip, n)
      BY <1>6, <1>7, ChannelBatches DEF Holds
    <2>3. QED
      BY <1>3, <1>5, <2>1, <2>2
  <1>8. CASE ~(txs = <<>> \/ Head(txs).tx.type # "channel")
    <2>1. 1 \in DOMAIN txs /\ txs[1] = Head(txs)
      <3>1. Len(txs) # 0
        BY <1>4, <1>8, EmptySeq
      <3>2. QED
        BY <1>4, <3>1
    <2> DEFINE q == Head(txs)
               new == q.tx.batches
    <2>2. PICK u \in 1..Len(tip) :
            Holds(q.tx, tip, u) /\ tip[u].epoch.number + SeqWindow >= q.inclusion
      BY <1>5, <1>8, <2>1
    <2>3. PICK b : b = SingleBatch(SubSeq(tip, 1, u))
      OBVIOUS
    <2>4. new = <<b>>
      BY <2>2, <2>3, ChannelBatches DEF Holds
    <2>5. \A n \in 1..Len(tip) : SingleBatch(SubSeq(tip, 1, n)).timestamp = n
      <3>1. \A n \in 1..Len(tip) : tip[n].time = n
        BY <1>2, <1>3 DEF LawfulTip, Lawful
      <3>2. QED
        BY <3>1, SingleOf
    <2>6. b.timestamp = u
      BY <2>3, <2>5
    <2>7. Inserted =
            [t \in DOMAIN batches \cup {new[i].timestamp : i \in DOMAIN new} |->
                IF \E i \in DOMAIN new : new[i].timestamp = t
                THEN LET i == CHOOSE i \in DOMAIN new :
                                 /\ new[i].timestamp = t
                                 /\ \A j \in DOMAIN new : new[j].timestamp = t => j <= i
                     IN  [batch |-> new[i], inclusion |-> q.inclusion]
                ELSE batches[t]]
      BY <1>8 DEF Inserted
    <2>8. DOMAIN new = {1} /\ new[1] = b
      BY <2>4
    <2> HIDE DEF q, new
    <2>9. {new[i].timestamp : i \in DOMAIN new} = {u}
      BY <2>6, <2>8
    <2>10. \A t : (\E i \in DOMAIN new : new[i].timestamp = t) <=> t = u
      BY <2>6, <2>8
    <2>11. (CHOOSE i \in DOMAIN new :
              /\ new[i].timestamp = u
              /\ \A j \in DOMAIN new : new[j].timestamp = u => j <= i) = 1
      BY <2>6, <2>8
    <2>12. /\ DOMAIN Inserted = DOMAIN batches \cup {u}
           /\ Inserted[u] = [batch |-> b, inclusion |-> q.inclusion]
           /\ \A t \in DOMAIN batches : t # u => Inserted[t] = batches[t]
      BY <2>7, <2>8, <2>9, <2>10, <2>11
    <2>13. InTime(tip, Inserted[u].batch, u, Inserted[u].inclusion)
      BY <2>2, <2>3, <2>12 DEF InTime
    <2>14. \A t \in DOMAIN Inserted : InTime(tip, Inserted[t].batch, t, Inserted[t].inclusion)
      BY <1>5, <2>12, <2>13
    <2>15. ASSUME pc # "panicked", NEW n \in (Len(safe_head) + 1)..Len(tip)
           PROVE  n \in DOMAIN Inserted
      <3>1. CASE n \in DOMAIN batches
        BY <2>12, <3>1
      <3>2. CASE \E i \in DOMAIN txs : Holds(txs[i].tx, tip, n)
        <4>1. Holds(q.tx, tip, n)
          BY <1>6, <3>2 DEF q
        <4>2. PICK a : a = SingleBatch(SubSeq(tip, 1, n))
          OBVIOUS
        <4>3. Channel(a) = Channel(b)
          BY <2>2, <2>3, <4>1, <4>2 DEF Holds
        <4>4. <<a>> = <<b>>
          BY <4>3, ChannelBatches
        <4>5. a = b
          BY <4>4
        <4>6. n \in 1..Len(tip)
          BY <1>4
        <4>7. n = u
          BY <2>3, <2>5, <4>2, <4>5, <4>6
        <4>8. QED
          BY <2>12, <4>7
      <3>3. QED
        BY <1>5, <2>15, <3>1, <3>2
    <2>16. QED
      BY <1>3, <2>14, <2>15
  <1>9. QED
    BY <1>7, <1>8

\* The batches when those before the next block are gone.
LEMMA RemainingInTime ==
    ASSUME OnCourse, StagesHave(ReadTip), NEW bs, bs = Undropped(Inserted)
    PROVE  /\ \A t \in DOMAIN bs :
                /\ t \in Nat /\ t >= Len(safe_head) + 1 /\ bs[t] \in Entry
                /\ InTime(ReadTip, bs[t].batch, t, bs[t].inclusion)
           /\ DOMAIN bs # {} => Min(DOMAIN bs) \in DOMAIN bs
           /\ pc # "panicked" =>
                /\ \A n \in (Len(safe_head) + 1)..Len(ReadTip) : n \in DOMAIN bs
                /\ Len(safe_head) < Len(ReadTip) => Min(DOMAIN bs) = Len(safe_head) + 1
  <1> DEFINE valid == {v \in DOMAIN Inserted : BatchStatus(Inserted[v]) # "Drop"}
             keep  == {t \in DOMAIN Inserted : \E u \in valid : u <= t}
             L     == Len(safe_head)
             M     == Len(ReadTip)
  <1>1. bs = [t \in keep |-> Inserted[t]]
    BY DEF Undropped, Restrict
  <1>2. Types /\ Places /\ HonestL1(l1) /\ OnChain
    BY DEF OnCourse
  <1>3. L \in Nat /\ M \in Nat
    BY <1>2, ChainFacts, Reading DEF Types
  <1>4. \A t \in DOMAIN Inserted : t \in Nat /\ Inserted[t] \in Entry
    BY <1>2, InsertedType
  <1>5. /\ \A t \in DOMAIN Inserted :
             InTime(ReadTip, Inserted[t].batch, t, Inserted[t].inclusion)
        /\ pc # "panicked" => \A n \in (L + 1)..M : n \in DOMAIN Inserted
    BY InsertedInTime
  <1>6. ASSUME NEW t \in DOMAIN Inserted
        PROVE  /\ BatchStatus(Inserted[t]) # "Drop" => t >= L + 1
               /\ t = L + 1 => BatchStatus(Inserted[t]) # "Drop"
    <2>1. PICK x \in Entry : x = Inserted[t]
      BY <1>4
    <2>2. x.inclusion \in Nat /\ InTime(ReadTip, x.batch, t, x.inclusion)
      BY <1>5, <2>1 DEF Entry
    <2>3. /\ x.batch.kind = "single"
          /\ SingleBatchStatus(x.batch, x.inclusion) # "Drop" => t >= L + 1
          /\ t = L + 1 => SingleBatchStatus(x.batch, x.inclusion) \in {"Accept", "Undecided"}
      BY <2>2, StatusInTime
    <2>4. QED
      BY <2>1, <2>3 DEF BatchStatus
  <1> HIDE DEF L, M
  <1>7. \A u \in valid : u \in Nat /\ u >= L + 1
    BY <1>4, <1>6
  <1>8. \A t \in keep : t \in Nat /\ t >= L + 1 /\ t \in DOMAIN Inserted
    BY <1>3, <1>4, <1>7
  <1>9. ASSUME pc # "panicked", NEW n \in (L + 1)..M PROVE n \in keep
    <2>1. L + 1 \in (L + 1)..M /\ n \in Nat
      BY <1>3
    <2>2. L + 1 \in valid
      BY <1>5, <1>6, <1>9, <2>1
    <2>3. n \in DOMAIN Inserted /\ L + 1 <= n
      BY <1>3, <1>5, <1>9
    <2>4. QED
      BY <2>2, <2>3
  <1> HIDE DEF keep, valid
  <1>10. DOMAIN bs = keep /\ \A t \in keep : bs[t] = Inserted[t]
    BY <1>1
  <1>11. DOMAIN bs # {} => Min(DOMAIN bs) \in DOMAIN bs
    BY <1>2, UndroppedType
  <1>12. ASSUME pc # "panicked", L < M PROVE Min(DOMAIN bs) = L + 1
    <2>1. L + 1 \in (L + 1)..M
      BY <1>3, <1>12
    <2>2. L + 1 \in keep
      BY <1>9, <1>12, <2>1
    <2>3. \A t \in keep : L + 1 <= t
      BY <1>3, <1>8
    <2>4. ASSUME NEW x \in keep, \A y \in keep : x <= y PROVE x = L + 1
      BY <1>3, <1>8, <2>2, <2>4
    <2>5. Min(keep) \in keep /\ \A y \in keep : Min(keep) <= y
      BY <2>2, <2>3 DEF Min
    <2>6. QED
      BY <1>10, <2>4, <2>5
  <1>13. QED
    BY <1>4, <1>5, <1>8, <1>9, <1>10, <1>11, <1>12 DEF L, M

\* No empty block is due: the epoch after that of the safe head is not known, or the safe
\* head has all that was read, and the batcher is in the window.
LEMMA NoneEmpty ==
    ASSUME OnCourse, next_epoch = {} \/ Len(safe_head) >= Len(ReadTip)
    PROVE  EmptyEpoch = {}
  <1>1. CASE next_epoch = {}
    BY <1>1 DEF EmptyEpoch
  <1>2. CASE Len(safe_head) >= Len(ReadTip)
    <2>1. Types /\ Places /\ HonestL1(l1) /\ OnChain /\ IsPrefix(safe_head, l1[Far].tip)
      BY DEF OnCourse
    <2>2. /\ ReadTip \in Chain /\ l1[Far].tip \in Chain /\ IsPrefix(ReadTip, l1[Far].tip)
          /\ LawfulTip(l1, Far, l1[Far].tip)
          /\ next_block >= 1 => EpochOf(ReadTip).number + SeqWindow >= next_block - 1
      BY <2>1, Reading
    <2>3. PICK f \in Chain : f = l1[Far].tip
      BY <2>2
    <2>4. PICK tip \in Chain : tip = ReadTip
      BY <2>2
    <2>5. /\ safe_head \in Chain /\ safe_epoch.number \in Nat /\ EpochOf(tip).number \in Nat
          /\ Len(safe_head) \in Nat /\ Len(tip) \in Nat /\ Len(f) \in Nat
          /\ current_epoch_num \in Nat /\ next_block \in Nat
      BY <2>1, ChainFacts DEF Types, safe_epoch, Epoch
    <2>6. /\ Len(safe_head) <= Len(f) /\ \A i \in 1..Len(safe_head) : safe_head[i] = f[i]
          /\ Len(tip) <= Len(f) /\ \A i \in 1..Len(tip) : tip[i] = f[i]
      BY <2>1, <2>2, <2>3, <2>4, <2>5, PrefixEntries DEF Chain
    <2>7. EpochOf(tip).number <= safe_epoch.number
      <3>1. CASE Len(tip) = 0
        <4>1. EpochOf(tip).number = 0
          BY <3>1, EpochBeforeNext
        <4>2. QED
          BY <2>5, <4>1
      <3>2. CASE Len(tip) # 0
        <4>1. Len(tip) \in 1..Len(tip) /\ Len(safe_head) \in 1..Len(safe_head)
              /\ Len(safe_head) # 0 /\ Len(safe_head) \in 1..Len(f)
              /\ Len(tip) \in 1..Len(safe_head)
          BY <1>2, <2>4, <2>5, <2>6, <3>2
        <4>2. EpochOf(tip) = f[Len(tip)].epoch /\ safe_epoch = f[Len(safe_head)].epoch
          BY <2>5, <2>6, <3>2, <4>1, EpochBeforeNext DEF safe_epoch
        <4>3. Lawful(l1, Far, f, Len(safe_head))
          BY <2>2, <2>3, <4>1 DEF LawfulTip
        <4>4. f[Len(tip)].epoch.number <= f[Len(safe_head)].epoch.number
          BY <4>1, <4>3 DEF Lawful
        <4>5. QED
          BY <4>2, <4>4
      <3>3. QED
        BY <3>1, <3>2
    <2>8. current_epoch_num <= safe_epoch.number + SeqWindow
      <3>1. CASE last_hash = -1
        <4>1. current_epoch_num = 0
          BY <2>1, <3>1 DEF Places
        <4>2. QED
          BY <2>5, <4>1, DerivationAssumption
      <3>2. CASE last_hash # -1
        <4>1. next_block >= 1 /\ current_epoch_num = next_block - 1
          BY <2>1, <3>2 DEF Places
        <4>2. EpochOf(tip).number + SeqWindow >= next_block - 1
          BY <2>2, <2>4, <4>1
        <4>3. QED
          BY <2>5, <2>7, <4>1, <4>2, DerivationAssumption
      <3>3. QED
        BY <3>1, <3>2
    <2>9. QED
      BY <2>8 DEF EmptyEpoch
  <1>3. QED
    BY <1>1, <1>2

\* A list of one element.
LEMMA OnlyOne ==
    ASSUME NEW S, NEW s \in Seq(S), s # <<>>, Len(s) <= 1
    PROVE  Len(s) = 1 /\ Head(s) = s[1] /\ s[1] \in S /\ Tail(s) = <<>>
  <1>1. Len(s) \in Nat /\ Len(s) # 0
    BY EmptySeq
  <1>2. Len(s) = 1
    BY <1>1
  <1>3. Head(s) \in S /\ Tail(s) \in Seq(S) /\ Len(Tail(s)) = Len(s) - 1
    BY HeadTailProperties
  <1>4. Head(s) = s[1]
    OBVIOUS
  <1>5. Len(Tail(s)) = 0
    BY <1>2, <1>3
  <1>6. Tail(s) = <<>>
    BY <1>3, <1>5, EmptySeq
  <1>7. QED
    BY <1>2, <1>3, <1>4, <1>6

\* The stages when no transaction is waiting.
LEMMA StagesAfter ==
    ASSUME NEW tip, pending_inputs' = <<>>, txs' = <<>>,
           \A t \in DOMAIN batches' : InTime(tip, batches'[t].batch, t, batches'[t].inclusion),
           pc' # "panicked" =>
               \A n \in (Len(safe_head') + 1)..Len(tip) : n \in DOMAIN batches'
    PROVE  StagesHave(tip)'
  <1>1. Len(txs') <= 1 /\ DOMAIN txs' = {}
    OBVIOUS
  <1>2. QED
    BY <1>1 DEF StagesHave

\* A batch is taken, or none.
LEMMA NextBatchInStep ==
    ASSUME OnCourse, SeqInStep, StagesHave(ReadTip), NextBatch
    PROVE  InStep'
  <1>1. Types /\ Places /\ HonestL1(l1) /\ OnChain /\ GoodChain(safe_head)
        /\ IsPrefix(safe_head, l1[Far].tip)
    BY DEF OnCourse
  <1>2. /\ ReadTip \in Chain /\ l1[Far].tip \in Chain
    BY <1>1, Reading
  <1>3. PICK tip \in Chain : tip = ReadTip
    BY <1>2
  <1>4. PICK f \in Chain : f = l1[Far].tip
    BY <1>2
  <1>5. safe_head \in Chain /\ Len(safe_head) \in Nat /\ Len(tip) \in Nat
    BY <1>1, ChainFacts DEF Types
  <1>6. UNCHANGED <<l1, l1_finalized, next_block, last_hash>> /\ pc = "derive" /\ pending_inputs = <<>>
    BY DEF NextBatch, l1_vars, watcher_vars
  <1>7. txs' = <<>>
    <2>1. txs \in Seq(Queued) /\ Len(txs) \in Nat /\ Len(txs) <= 1
      BY <1>1 DEF Types, StagesHave
    <2>2. CASE txs = <<>>
      BY <2>2 DEF NextBatch
    <2>3. CASE txs # <<>>
      <3>1. txs' = Tail(txs)
        BY <2>3 DEF NextBatch
      <3>2. QED
        BY <2>1, <2>3, <3>1, OnlyOne
    <2>4. QED
      BY <2>2, <2>3
  <1> SUFFICES IsPrefix(safe_head', f) /\ SeqInStep' /\ StagesHave(tip)'
    BY <1>3, <1>4, <1>6 DEF InStep, OnChain, Far, ReadTip
  <1>8. PICK bs : /\ bs = Undropped(Inserted)
                  /\ \/ FirstStatus(bs) = "Accept" /\ TakeBatch(bs)
                     \/ /\ FirstStatus(bs) = "Panic"
                        /\ pc' = "panicked"
                        /\ batches' = bs
                        /\ UNCHANGED <<pending_inputs, seq_vars, l2_refs, safe_head>>
                     \/ /\ FirstStatus(bs) \notin {"Accept", "Panic"}
                        /\ batches' = bs
                        /\ EmptyBlock
                        /\ UNCHANGED pending_inputs
    BY DEF NextBatch
  <1>9. /\ \A t \in DOMAIN bs :
             /\ t \in Nat /\ t >= Len(safe_head) + 1 /\ bs[t] \in Entry
             /\ InTime(tip, bs[t].batch, t, bs[t].inclusion)
        /\ DOMAIN bs # {} => Min(DOMAIN bs) \in DOMAIN bs
        /\ \A n \in (Len(safe_head) + 1)..Len(tip) : n \in DOMAIN bs
        /\ Len(safe_head) < Len(tip) => Min(DOMAIN bs) = Len(safe_head) + 1
    BY <1>3, <1>6, <1>8, RemainingInTime
  <1> DEFINE m == Min(DOMAIN bs)
  <1>10. ASSUME DOMAIN bs # {}
         PROVE  /\ m \in DOMAIN bs /\ m \in 1..Len(tip) /\ bs[m] \in Entry
                /\ LET b == bs[m].batch
                   IN  /\ b \in Batch /\ b.kind = "single" /\ b.timestamp = m
                       /\ b.epoch = tip[m].epoch /\ b.txs = tip[m].txs
                /\ FirstStatus(bs) = "Accept" => m = Len(safe_head) + 1
                /\ m = Len(safe_head) + 1 => FirstStatus(bs) = "Accept" \/ next_epoch = {}
    <2>1. m \in DOMAIN bs
      BY <1>9, <1>10
    <2>2. PICK x \in Entry : x = bs[m]
      BY <1>9, <2>1
    <2>3. InTime(ReadTip, x.batch, m, x.inclusion) /\ x.inclusion \in Nat
      BY <1>3, <1>9, <2>1, <2>2 DEF Entry
    <2>4. m \in 1..Len(tip)
      BY <1>3, <2>3 DEF InTime
    <2> DEFINE status == SingleBatchStatus(x.batch, x.inclusion)
    <2>5. /\ x.batch \in Batch /\ x.batch.kind = "single"
          /\ x.batch.timestamp = m /\ x.batch.epoch = tip[m].epoch /\ x.batch.txs = tip[m].txs
          /\ status = "Accept" => m = Len(safe_head) + 1
          /\ m = Len(safe_head) + 1 => status = "Accept" \/ next_epoch = {}
      BY <1>3, <2>3, StatusInTime
    <2>6. FirstStatus(bs) = status
      BY <1>10, <2>2, <2>5 DEF FirstStatus, BatchStatus
    <2> HIDE DEF status, m
    <2>7. QED
      BY <2>1, <2>2, <2>4, <2>5, <2>6
  <1>11. CASE FirstStatus(bs) = "Accept" /\ TakeBatch(bs)
    <2>1. DOMAIN bs # {}
      BY <1>11 DEF FirstStatus
    <2>2. PICK b \in Batch : b = bs[m].batch
      BY <1>10, <2>1
    <2>3. /\ m \in DOMAIN bs /\ m = Len(safe_head) + 1 /\ m \in 1..Len(tip)
          /\ b.kind = "single" /\ b.timestamp = m /\ b.epoch = tip[m].epoch /\ b.txs = tip[m].txs
      BY <1>10, <1>11, <2>1, <2>2
    <2>4. PICK inputs : inputs = InputsOf(b)
      OBVIOUS
    <2>5. /\ batches' = Restrict(bs, DOMAIN bs \ {m})
          /\ IF inputs = <<>>
             THEN /\ pc' = "idle"
                  /\ UNCHANGED <<pending_inputs, seq_vars, l2_refs, safe_head>>
             ELSE /\ Derive(Head(inputs))
                  /\ pending_inputs' = Tail(inputs)
      BY <1>11, <2>2, <2>4 DEF TakeBatch
    <2> HIDE DEF m
    <2>6. inputs \in Seq(Input) /\ Len(inputs) = 1
          /\ inputs[1] = [timestamp |-> b.timestamp, epoch |-> b.epoch.number, txs |-> b.txs]
      BY <1>1, <2>3, <2>4, SingleInput, InputsOfType
    <2>7. inputs # <<>> /\ Tail(inputs) = <<>> /\ Head(inputs) = inputs[1] /\ inputs[1] \in Input
      <3>1. inputs # <<>> /\ Len(inputs) <= 1
        <4>1. Len(inputs) # 0 /\ Len(inputs) <= 1
          BY <2>6
        <4>2. QED
          BY <2>6, <4>1, EmptySeq
      <3>2. QED
        BY <2>6, <3>1, OnlyOne
    <2>8. PICK input \in Input : input = inputs[1]
      BY <2>7
    <2>9. /\ input.timestamp = m /\ input.epoch = tip[m].epoch.number /\ input.txs = tip[m].txs
      BY <2>3, <2>6, <2>8
    <2>10. Derive(input) /\ pending_inputs' = <<>>
      BY <2>5, <2>7, <2>8
    <2>11. DOMAIN batches' = DOMAIN bs \ {m} /\ \A t \in DOMAIN batches' : batches'[t] = bs[t]
      BY <2>5 DEF Restrict
    <2>12. \A t \in DOMAIN batches' : InTime(tip, batches'[t].batch, t, batches'[t].inclusion)
      BY <1>9, <2>11
    <2>13. CASE pc' = "panicked" /\ UNCHANGED <<seq_vars, safe_head>>
      <3>1. SeqInStep' /\ IsPrefix(safe_head', f)
        BY <1>1, <1>4, <2>13 DEF SeqInStep, seq_vars
      <3>2. StagesHave(tip)'
        BY <1>7, <2>10, <2>12, <2>13, StagesAfter
      <3>3. QED
        BY <3>1, <3>2
    <2>14. CASE /\ pc' = pc /\ tip[m] \in Content
                /\ safe_head' = Append(safe_head, tip[m])
                /\ SeqInStep'
      <3>1. f[m] = tip[m] /\ m <= Len(f)
        BY <1>3, <1>4, <2>3, NextPosted
      <3>2. Len(safe_head) < Len(f)
        BY <1>5, <2>3, <3>1, ChainFacts
      <3>3. IsPrefix(Append(safe_head, f[Len(safe_head) + 1]), f)
        BY <1>1, <1>4, <1>5, <3>2, PrefixExtend DEF Chain
      <3>4. IsPrefix(safe_head', f)
        BY <2>3, <2>14, <3>1, <3>3
      <3>5. Len(safe_head') = m
        BY <1>5, <2>3, <2>14, GrownChain
      <3>6. ASSUME NEW n \in (m + 1)..Len(tip) PROVE n \in DOMAIN batches'
        <4>1. n # m /\ n \in (Len(safe_head) + 1)..Len(tip)
          BY <1>5, <2>3
        <4>2. QED
          BY <1>9, <2>11, <4>1
      <3>7. StagesHave(tip)'
        BY <1>7, <2>10, <2>12, <3>5, <3>6, StagesAfter
      <3>8. QED
        BY <2>14, <3>4, <3>7
    <2>15. QED
      BY <1>3, <2>3, <2>9, <2>10, <2>13, <2>14, DerivePosted
  <1>12. CASE /\ FirstStatus(bs) = "Panic"
              /\ pc' = "panicked"
              /\ batches' = bs
              /\ UNCHANGED <<pending_inputs, seq_vars, l2_refs, safe_head>>
    <2>1. SeqInStep' /\ IsPrefix(safe_head', f)
      BY <1>1, <1>4, <1>12 DEF SeqInStep, seq_vars
    <2>2. StagesHave(tip)'
      BY <1>6, <1>7, <1>9, <1>12, StagesAfter
    <2>3. QED
      BY <2>1, <2>2
  <1>13. CASE /\ FirstStatus(bs) \notin {"Accept", "Panic"}
              /\ batches' = bs
              /\ EmptyBlock
              /\ UNCHANGED pending_inputs
    <2>1. EmptyEpoch = {}
      <3>1. CASE Len(safe_head) < Len(tip)
        <4>1. Len(safe_head) + 1 \in (Len(safe_head) + 1)..Len(tip)
          BY <1>5, <3>1
        <4>2. DOMAIN bs # {} /\ m = Len(safe_head) + 1
          BY <1>9, <3>1, <4>1
        <4>3. next_epoch = {}
          BY <1>10, <1>13, <4>2
        <4>4. QED
          BY <4>3, NoneEmpty
      <3>2. CASE ~(Len(safe_head) < Len(tip))
        BY <1>3, <1>5, <3>2, NoneEmpty
      <3>3. QED
        BY <3>1, <3>2
    <2>2. UNCHANGED <<seq_vars, l2_refs, safe_head>>
      BY <1>13, <2>1 DEF EmptyBlock
    <2>3. SeqInStep' /\ IsPrefix(safe_head', f)
      BY <1>1, <1>4, <2>2 DEF SeqInStep, seq_vars
    <2>4. StagesHave(tip)'
      BY <1>6, <1>7, <1>9, <1>13, <2>2, StagesAfter
    <2>5. QED
      BY <2>3, <2>4
  <1>14. QED
    BY <1>8, <1>11, <1>12, <1>13

\* A transaction that cannot be decoded holds no block.
LEMMA DecodeFailsInStep ==
    ASSUME OnCourse, SeqInStep, StagesHave(ReadTip), DecodeFails
    PROVE  InStep'
  <1>1. Types /\ Places /\ HonestL1(l1) /\ OnChain /\ IsPrefix(safe_head, l1[Far].tip)
    BY DEF OnCourse
  <1>2. PICK tip : tip = ReadTip
    OBVIOUS
  <1>3. /\ UNCHANGED <<l1, l1_finalized, next_block, last_hash, batches, pending_inputs,
                       sequence_number, epoch_hash, safe_head>>
        /\ pc = "derive" /\ pc' = "idle" /\ pending_inputs = <<>>
        /\ txs # <<>> /\ Head(txs).tx.type = "corrupt" /\ txs' = Tail(txs)
    BY DEF DecodeFails, l1_vars, watcher_vars, seq_vars, state_vars
  <1>4. txs \in Seq(Queued) /\ Len(txs) <= 1
    BY <1>1 DEF Types, StagesHave
  <1>5. Len(txs) = 1 /\ Head(txs) = txs[1] /\ txs' = <<>>
    BY <1>3, <1>4, OnlyOne
  <1>6. ASSUME NEW i \in DOMAIN txs, NEW n PROVE ~Holds(txs[i].tx, tip, n)
    <2>1. i = 1
      BY <1>4, <1>5
    <2>2. txs[i].tx.type = "corrupt"
      BY <1>3, <1>5, <2>1
    <2>3. "corrupt" # "channel"
      OBVIOUS
    <2>4. QED
      BY <2>2, <2>3, ChannelBatches DEF Holds
  <1>7. \A t \in DOMAIN batches' : InTime(tip, batches'[t].batch, t, batches'[t].inclusion)
    BY <1>2, <1>3 DEF StagesHave
  <1>8. \A n \in (Len(safe_head') + 1)..Len(tip) : n \in DOMAIN batches'
    BY <1>2, <1>3, <1>6 DEF StagesHave
  <1>9. StagesHave(tip)'
    BY <1>3, <1>5, <1>7, <1>8, StagesAfter
  <1>10. SeqInStep' /\ UNCHANGED <<l1, Far, ReadTip>>
    BY <1>3 DEF SeqInStep, Far, ReadTip
  <1>11. QED
    BY <1>1, <1>2, <1>3, <1>9, <1>10 DEF InStep

\* L1 moves: as long as the last block read stays canonical, nothing of what was read
\* changes.
LEMMA L1StepInStep ==
    ASSUME Types, Places, FinalPosted, InStep, L1Step
    PROVE  FinalPosted' /\ InStep'
  <1>1. /\ minted' = minted + 1
        /\ UNCHANGED <<l1_finalized, watcher_vars, batch_vars, seq_vars, state_vars,
                       finalized_head, pc>>
    BY L1StepFacts
  <1>2. PICK d \in Seq(L1Block), n \in Nat :
          /\ l1' = d
          /\ l1_finalized + 1 <= n /\ n <= Len(l1)
          /\ Len(d) = n + 1
          /\ \A i \in 1..n : d[i] = l1[i]
          /\ d[n + 1].hash = minted + 1
    BY L1StepFacts
  <1>3. /\ Len(l1) \in Nat /\ l1_finalized \in Nat /\ next_block \in Nat /\ minted \in Nat
        /\ last_hash \in -1..minted
    BY DEF Types
  <1>4. UNCHANGED <<l1_finalized, next_block, last_hash, txs, batches, pending_inputs,
                    sequence_number, epoch_hash, safe_head, finalized_head, pc>>
    BY <1>1 DEF watcher_vars, batch_vars, seq_vars, state_vars
  <1>5. FinalPosted'
    <2>1. l1_finalized + 1 \in 1..n
      BY <1>2, <1>3
    <2>2. QED
      BY <1>2, <1>4, <2>1 DEF FinalPosted
  <1>6. ASSUME OnChain' PROVE OnChain /\ next_block <= n
    <2>1. CASE last_hash = -1
      <3>1. next_block <= l1_finalized + 1
        BY <2>1 DEF Places
      <3>2. QED
        BY <1>2, <1>3, <2>1, <3>1 DEF OnChain
    <2>2. CASE last_hash # -1
      <3>1. next_block <= Len(d) /\ d[next_block].hash = last_hash
        BY <1>2, <1>4, <1>6, <2>2 DEF OnChain
      <3>2. next_block >= 1
        BY <2>2 DEF Places
      <3>3. last_hash # minted + 1
        BY <1>3
      <3>4. next_block # n + 1
        BY <1>2, <3>1, <3>3
      <3>5. next_block \in 1..n /\ next_block <= Len(l1)
        BY <1>2, <1>3, <3>1, <3>2, <3>4
      <3>6. QED
        BY <1>2, <3>1, <3>5 DEF OnChain
    <2>3. QED
      BY <2>1, <2>2
  <1>7. ASSUME OnChain' PROVE InStep'
    <2>1. OnChain /\ next_block <= n
      BY <1>6, <1>7
    <2>2. IsPrefix(safe_head, l1[Far].tip) /\ SeqInStep /\ StagesHave(ReadTip)
      BY <2>1 DEF InStep
    <2>3. Far' = Far /\ Far \in 1..n
      BY <1>2, <1>3, <1>4, <2>1 DEF Far
    <2>4. ReadTip' = ReadTip
      <3>1. next_block # 0 => next_block \in 1..n
        BY <1>3, <2>1
      <3>2. QED
        BY <1>2, <1>4, <3>1 DEF ReadTip, TipOf
    <2>5. PICK tip : tip = ReadTip
      OBVIOUS
    <2>6. StagesHave(tip)'
      BY <1>4, <2>2, <2>5 DEF StagesHave
    <2>7. SeqInStep'
      BY <1>4, <2>2 DEF SeqInStep
    <2>8. IsPrefix(safe_head, l1[Far].tip)'
      BY <1>2, <1>4, <2>2, <2>3
    <2>9. QED
      BY <2>4, <2>5, <2>6, <2>7, <2>8 DEF InStep
  <1>8. QED
    BY <1>5, <1>7 DEF InStep

\* L1 finality.
LEMMA FinalizeInStep ==
    ASSUME Types, Places, HonestL1(l1), InStep, Finalize
    PROVE  FinalPosted' /\ InStep'
  <1>1. /\ OnChain /\ pc = "idle"
        /\ UNCHANGED <<l1, next_block, last_hash, txs, batches, pending_inputs,
                       sequence_number, epoch_hash, safe_head, pc>>
    BY DEF Finalize, watcher_vars, batch_vars, seq_vars, state_vars
  <1>2. IsPrefix(safe_head, l1[Far].tip) /\ SeqInStep /\ StagesHave(ReadTip)
    BY <1>1 DEF InStep
  <1>3. /\ l1_finalized \in Nat /\ next_block \in Nat /\ current_epoch_num \in Nat
        /\ safe_head \in Chain
    BY DEF Types
  <1>4. PICK f \in Nat : /\ l1_finalized' = f
                         /\ f = IF current_epoch_num > l1_finalized THEN current_epoch_num
                                ELSE l1_finalized
    BY <1>3 DEF Finalize
  <1>5. f + 1 = Far /\ Far' = Far
    <2>1. CASE last_hash = -1
      <3>1. next_block <= l1_finalized + 1 /\ current_epoch_num = 0
        BY <2>1 DEF Places
      <3>2. QED
        BY <1>1, <1>3, <1>4, <3>1 DEF Far
    <2>2. CASE last_hash # -1
      <3>1. next_block >= 1 /\ current_epoch_num = next_block - 1
        BY <2>2 DEF Places
      <3>2. QED
        BY <1>1, <1>3, <1>4, <3>1 DEF Far
    <2>3. QED
      BY <2>1, <2>2
  <1>6. InStep'
    <2>1. PICK tip : tip = ReadTip
      OBVIOUS
    <2>2. StagesHave(tip)'
      BY <1>1, <1>2, <2>1 DEF StagesHave
    <2>3. SeqInStep' /\ ReadTip' = ReadTip
      BY <1>1, <1>2 DEF SeqInStep, ReadTip
    <2>4. IsPrefix(safe_head, l1[Far].tip)'
      BY <1>1, <1>2, <1>5
    <2>5. QED
      BY <2>1, <2>2, <2>3, <2>4 DEF InStep
  <1>7. FinalPosted'
    <2>1. PICK n \in 1..Len(safe_head) :
            safe_head[n].seq = 0 /\ finalized_head' = SubSeq(safe_head, 1, n)
      BY DEF Finalize, EpochStarts
    <2>2. Len(safe_head) \in Nat /\ n \in 0..Len(safe_head) /\ n \in Nat /\ n >= 1 /\ n \in 1..n
      BY <1>3, ChainFacts
    <2> DEFINE s == SubSeq(safe_head, 1, n)
    <2>3. s \in Chain /\ Len(s) = n /\ \A i \in 1..n : s[i] = safe_head[i]
      BY <1>3, <2>2, ChainPart
    <2> HIDE DEF s
    <2>4. s # Genesis
      BY <2>2, <2>3 DEF Genesis
    <2>5. PositionOf(s) = 0
      <3>1. Last(s) = safe_head[n]
        BY <2>2, <2>3, <2>4, ChainFacts
      <3>2. QED
        BY <2>1, <2>4, <3>1 DEF PositionOf
    <2>6. IsPrefix(s, safe_head)
      BY <1>3, <2>2, <2>3, PrefixEntries DEF Chain
    <2>7. l1[Far].tip \in Chain
      BY <1>1, Reading
    <2>8. IsPrefix(s, l1[Far].tip)
      BY <1>2, <1>3, <2>3, <2>6, <2>7, PrefixTransitive DEF Chain
    <2>9. finalized_head' = s /\ l1[l1_finalized + 1]' = l1[Far]
      BY <1>1, <1>4, <1>5, <2>1 DEF s
    <2>10. QED
      BY <2>5, <2>8, <2>9 DEF FinalPosted
  <1>8. QED
    BY <1>6, <1>7

\* After a reorg was noticed: what was posted before the L1 block that the watcher starts
\* from is part of the finalized head.
LEMMA ReorgInStep ==
    ASSUME Types, Places, HonestL1(l1), FinalPosted, Reorg
    PROVE  InStep'
  <1>1. /\ UNCHANGED <<l1, l1_finalized, finalized_head>>
        /\ safe_head' = finalized_head /\ last_hash' = -1 /\ pc' = "derive"
        /\ txs' = <<>> /\ batches' = <<>> /\ pending_inputs' = <<>>
        /\ sequence_number' = 0 /\ epoch_hash' = EpochOf(finalized_head).hash
        /\ next_block' = L1StartBlock(EpochOf(finalized_head).number)
    BY DEF Reorg, l1_vars, PurgeState, PurgeAttributes, PurgeBatches, UpdateSafeHead
  <1>2. /\ l1 \in Seq(L1Block) /\ Len(l1) \in Nat /\ l1_finalized \in 0..(Len(l1) - 1)
        /\ finalized_head \in Chain
    BY DEF Types
  <1>3. PICK e \in Nat : e = EpochOf(finalized_head).number
    BY <1>2, ChainFacts DEF Epoch
  <1>4. PICK L \in Nat : L = Len(finalized_head)
    BY <1>2, ChainFacts
  <1>5. e <= l1_finalized /\ (e # 0 => L # 0 /\ e = finalized_head[L].epoch.number)
    <2>1. CASE L = 0
      <3>1. EpochOf(finalized_head) = [number |-> 0, hash |-> 0]
        BY <1>2, <1>4, <2>1, EpochBeforeNext
      <3>2. e = 0
        BY <1>3, <3>1
      <3>3. QED
        BY <1>2, <3>2
    <2>2. CASE L # 0
      <3>1. e = finalized_head[L].epoch.number
        BY <1>2, <1>3, <1>4, <2>2, EpochBeforeNext
      <3>2. L \in 1..Len(finalized_head)
        BY <1>4, <2>2
      <3>3. finalized_head[L].epoch.number <= l1_finalized
        BY <3>2 DEF Places, FinalizedBelow
      <3>4. QED
        BY <2>2, <3>1, <3>3
    <2>3. QED
      BY <2>1, <2>2
  <1>6. PICK n \in Nat : n = L1StartBlock(e) /\ n <= e
    BY <1>3, DerivationAssumption DEF L1StartBlock
  <1>7. next_block' = n
    BY <1>1, <1>3, <1>6
  <1>8. Far' = l1_finalized + 1
    BY <1>1, <1>2, <1>5, <1>6, <1>7 DEF Far
  <1>9. PICK k \in 1..Len(l1) : k = l1_finalized + 1
    BY <1>2
  <1>10. \A j \in 1..Len(l1) : l1[j].tip \in Chain
    <2>1. \A j \in 1..Len(l1) : l1[j] \in L1Block
      BY <1>2
    <2>2. QED
      BY <2>1 DEF L1Block, Tip
  <1>11. PICK f \in Chain : f = l1[k].tip
    BY <1>10
  <1>12. IsPrefix(finalized_head, f) /\ PositionOf(finalized_head) = 0
    BY <1>9, <1>11 DEF FinalPosted
  <1>13. IsPrefix(safe_head, l1[Far].tip)'
    BY <1>1, <1>8, <1>9, <1>11, <1>12
  <1>14. SeqInStep'
    BY <1>1, <1>12 DEF SeqInStep
  <1>15. PICK tip : tip = TipOf(l1, n)
    OBVIOUS
  <1>16. ReadTip' = tip
    BY <1>1, <1>7, <1>15 DEF ReadTip
  <1>17. \A m \in (L + 1)..Len(tip) : FALSE
    <2>1. CASE n = 0
      <3>1. Len(tip) = 0
        BY <1>15, <2>1 DEF TipOf, Genesis
      <3>2. QED
        BY <3>1
    <2>2. CASE n # 0
      <3>1. n \in 1..Len(l1) /\ n \in 1..k /\ tip = l1[n].tip
        BY <1>2, <1>5, <1>6, <1>9, <1>15, <2>2 DEF TipOf
      <3>2. tip \in Chain /\ Len(tip) \in Nat
        BY <1>10, <3>1, ChainFacts
      <3>3. HonestBlock(l1, k) /\ HonestBlock(l1, n)
        BY <3>1 DEF HonestL1
      <3>4. IsPrefix(tip, f) /\ LawfulTip(l1, n, tip)
        BY <1>11, <3>1, <3>3 DEF HonestBlock
      <3>5. L # 0 /\ e = finalized_head[L].epoch.number
        BY <1>5, <1>6, <2>2
      <3>6. ASSUME L <= Len(tip) PROVE FALSE
        <4>1. L \in 1..Len(tip) /\ L \in 1..Len(finalized_head)
          BY <1>4, <3>2, <3>5, <3>6
        <4>2. tip[L] = f[L]
          BY <1>11, <3>2, <3>4, <4>1, PrefixEntries DEF Chain
        <4>3. finalized_head[L] = f[L]
          BY <1>2, <1>11, <1>12, <4>1, PrefixEntries DEF Chain
        <4>4. tip[L].epoch.number < n
          BY <3>4, <4>1 DEF LawfulTip, Lawful
        <4>5. QED
          BY <1>6, <3>5, <4>2, <4>3, <4>4
      <3>7. QED
        BY <3>2, <3>6
    <2>3. QED
      BY <2>1, <2>2
  <1>18. StagesHave(tip)'
    <2>1. DOMAIN batches' = {}
      BY <1>1
    <2>2. Len(safe_head') = L
      BY <1>1, <1>4
    <2>3. QED
      BY <1>1, <1>17, <2>1, <2>2, StagesAfter
  <1>19. QED
    BY <1>13, <1>14, <1>16, <1>18 DEF InStep

\* A batch of the tip before is one of the tip after.
LEMMA InTimeGrows ==
    ASSUME NEW old \in Chain, NEW new \in Chain, IsPrefix(old, new),
           NEW b, NEW t, NEW inclusion, InTime(old, b, t, inclusion)
    PROVE  InTime(new, b, t, inclusion)
  <1>1. Len(old) \in Nat /\ Len(new) \in Nat /\ Len(old) <= Len(new)
        /\ \A i \in 1..Len(old) : old[i] = new[i]
    BY ChainFacts, PrefixEntries DEF Chain
  <1>2. t \in 1..Len(old)
    BY DEF InTime
  <1>3. t \in 1..Len(new) /\ old[t] = new[t] /\ t \in 0..Len(old) /\ t \in 0..Len(new)
        /\ \A i \in 1..t : i \in 1..Len(old)
    BY <1>1, <1>2
  <1> DEFINE p == SubSeq(old, 1, t)
             q == SubSeq(new, 1, t)
  <1>4. /\ p \in Chain /\ Len(p) = t /\ \A i \in 1..t : p[i] = old[i]
        /\ q \in Chain /\ Len(q) = t /\ \A i \in 1..t : q[i] = new[i]
    BY <1>3, ChainPart
  <1> HIDE DEF p, q
  <1>5. p = q
    BY <1>1, <1>3, <1>4, SeqEqual DEF Chain
  <1>6. QED
    BY <1>3, <1>5 DEF InTime, p, q

\* The next L1 block is read: its transaction holds the block that it adds to the tip.
LEMMA NewBlockInStep ==
    ASSUME Types, Places, HonestL1(l1), InStep, NewBlock
    PROVE  InStep'
  <1>1. /\ OnChain /\ pc = "idle" /\ pc' = "derive" /\ next_block < Len(l1)
        /\ UNCHANGED <<l1, l1_finalized, batches, pending_inputs, sequence_number, epoch_hash,
                       safe_head>>
        /\ next_block' = next_block + 1
        /\ txs' = Enqueued(l1[next_block + 1])
    BY DEF NewBlock, l1_vars, seq_vars, UpdateSafeHead
  <1>2. IsPrefix(safe_head, l1[Far].tip) /\ SeqInStep /\ StagesHave(ReadTip)
    BY <1>1 DEF InStep
  <1>3. /\ l1 \in Seq(L1Block) /\ Len(l1) \in Nat /\ l1_finalized \in 0..(Len(l1) - 1)
        /\ next_block \in Nat /\ safe_head \in Chain /\ Len(safe_head) \in Nat
    BY ChainFacts DEF Types
  <1>4. PICK k \in 1..Len(l1) : k = next_block + 1
    BY <1>1, <1>3
  <1>5. PICK r \in L1Block : r = l1[k]
    BY <1>3
  <1>6. \A j \in 1..Len(l1) : l1[j].tip \in Chain
    <2>1. \A j \in 1..Len(l1) : l1[j] \in L1Block
      BY <1>3
    <2>2. QED
      BY <2>1 DEF L1Block, Tip
  <1>7. ReadTip \in Chain /\ Far \in 1..Len(l1)
    BY <1>1, Reading
  <1>8. PICK old \in Chain : old = ReadTip
    BY <1>7
  <1>9. PICK new \in Chain : new = r.tip
    BY <1>5, <1>6
  <1>10. ReadTip' = new
    <2>1. next_block' = k /\ k # 0
      BY <1>1, <1>3, <1>4
    <2>2. QED
      BY <1>1, <1>5, <1>9, <2>1 DEF ReadTip, TipOf
  <1>11. HonestBlock(l1, k)
    BY DEF HonestL1
  <1>12. PostedOn(old, r) /\ EpochOf(new).number + SeqWindow >= next_block
    <2>1. k - 1 = next_block
      BY <1>3, <1>4
    <2>2. QED
      BY <1>5, <1>8, <1>9, <1>11, <2>1 DEF HonestBlock, ReadTip
  <1>13. Len(old) \in Nat /\ Len(new) \in Nat
    BY ChainFacts
  <1>14. IsPrefix(old, new)
    BY <1>9, <1>12, PrefixReflexive DEF PostedOn, Chain
  <1>15. IsPrefix(safe_head, l1[Far].tip)'
    <2>1. PICK m \in 1..Len(l1) : m = Far'
      <3>1. (l1_finalized + 1) \in 1..Len(l1)
        BY <1>3
      <3>2. QED
        BY <1>1, <1>4, <3>1 DEF Far
    <2>2. Far \in 1..m
      <3>1. Far <= m
        BY <1>1, <1>3, <2>1 DEF Far
      <3>2. QED
        BY <1>3, <1>7, <3>1
    <2>3. IsPrefix(l1[Far].tip, l1[m].tip)
      BY <2>2 DEF HonestL1, HonestBlock
    <2>4. PICK j \in 1..Len(l1) : j = Far
      BY <1>7
    <2>5. l1[j].tip \in Chain /\ l1[m].tip \in Chain
      BY <1>6
    <2>6. IsPrefix(safe_head, l1[m].tip)
      BY <1>2, <1>3, <2>3, <2>4, <2>5, PrefixTransitive DEF Chain
    <2>7. QED
      BY <1>1, <2>1, <2>6
  <1>16. SeqInStep'
    BY <1>1, <1>2 DEF SeqInStep
  <1>17. txs = <<>> /\ pending_inputs = <<>>
        /\ (\A t \in DOMAIN batches : InTime(old, batches[t].batch, t, batches[t].inclusion))
        /\ \A n \in (Len(safe_head) + 1)..Len(old) : n \in DOMAIN batches
    <2>1. txs = <<>>
      BY <1>1, <1>2 DEF StagesHave
    <2>2. DOMAIN txs = {}
      BY <2>1
    <2>3. QED
      BY <1>1, <1>2, <1>8, <2>1, <2>2 DEF StagesHave
  <1>18. r.txs \in Seq(Tx)
    BY DEF L1Block
  <1>19. /\ Len(txs') = Len(r.txs) /\ DOMAIN txs' = DOMAIN r.txs
         /\ \A i \in DOMAIN r.txs : txs'[i].tx = r.txs[i] /\ txs'[i].inclusion = next_block
    <2> DEFINE q == [i \in DOMAIN r.txs |-> [tx |-> r.txs[i], inclusion |-> next_block]]
    <2>1. txs' = <<>> \o q
      BY <1>1, <1>4, <1>5, <1>17 DEF Enqueued
    <2>2. DOMAIN r.txs = 1..Len(r.txs) /\ Len(r.txs) \in Nat
          /\ \A i \in 1..Len(r.txs) : r.txs[i] \in Tx
      BY <1>18
    <2>3. \A i \in 1..Len(r.txs) : [tx |-> r.txs[i], inclusion |-> next_block] \in Queued
      BY <1>3, <2>2 DEF Queued
    <2>4. q \in Seq(Queued)
      BY <2>2, <2>3
    <2>5. DOMAIN q = DOMAIN r.txs
          /\ \A i \in DOMAIN r.txs : q[i].tx = r.txs[i] /\ q[i].inclusion = next_block
      OBVIOUS
    <2> HIDE DEF q
    <2>6. Len(q) = Len(r.txs)
      BY <2>2, <2>4, <2>5
    <2>7. <<>> \o q = q
      BY <2>4
    <2>8. QED
      BY <2>1, <2>5, <2>6, <2>7
  <1>20. ASSUME NEW i \in DOMAIN txs', txs'[i].tx.type = "channel"
         PROVE  \E t \in 1..Len(new) : /\ Holds(txs'[i].tx, new, t)
                                       /\ new[t].epoch.number + SeqWindow >= txs'[i].inclusion
    <2>1. txs'[i].tx = r.txs[i] /\ txs'[i].inclusion = next_block /\ i \in DOMAIN r.txs
      BY <1>19
    <2>2. new # Genesis /\ r.txs[i] = Channel(SingleBatch(new))
      BY <1>9, <1>12, <1>20, <2>1 DEF PostedOn
    <2>3. Len(new) \in 1..Len(new) /\ EpochOf(new) = new[Len(new)].epoch
      BY <1>13, <2>2, ChainFacts
    <2>4. Holds(txs'[i].tx, new, Len(new))
      BY <2>1, <2>2, WholeChain DEF Holds
    <2>5. QED
      BY <1>12, <2>1, <2>3, <2>4
  <1>21. ASSUME NEW n \in (Len(safe_head) + 1)..Len(new)
         PROVE  n \in DOMAIN batches \/ \E i \in DOMAIN txs' : Holds(txs'[i].tx, new, n)
    <2>1. CASE n <= Len(old)
      <3>1. n \in (Len(safe_head) + 1)..Len(old)
        BY <1>3, <1>13, <2>1
      <3>2. QED
        BY <1>17, <3>1
    <2>2. CASE n > Len(old)
      <3>1. new # old
        BY <1>13, <2>2
      <3>2. Len(new) = Len(old) + 1 /\ r.txs = <<Channel(SingleBatch(new))>>
        BY <1>9, <1>12, <3>1 DEF PostedOn
      <3>3. n = Len(new)
        BY <1>3, <1>13, <2>2, <3>2
      <3>4. 1 \in DOMAIN r.txs /\ r.txs[1] = Channel(SingleBatch(new))
        BY <3>2
      <3>5. 1 \in DOMAIN txs' /\ txs'[1].tx = Channel(SingleBatch(new))
        BY <1>19, <3>4
      <3>6. Holds(txs'[1].tx, new, n)
        BY <3>3, <3>5, WholeChain DEF Holds
      <3>7. QED
        BY <3>5, <3>6
    <2>3. QED
      BY <1>3, <1>13, <2>1, <2>2
  <1>22. StagesHave(new)'
    <2>1. Len(txs') <= 1
      BY <1>12, <1>19 DEF PostedOn
    <2>2. \A t \in DOMAIN batches : InTime(new, batches[t].batch, t, batches[t].inclusion)
      BY <1>14, <1>17, InTimeGrows
    <2>3. QED
      BY <1>1, <1>17, <1>20, <1>21, <2>1, <2>2 DEF StagesHave
  <1>23. QED
    BY <1>10, <1>15, <1>16, <1>22 DEF InStep

\* The driver goes on without news from L1.
LEMMA NoUpdateInStep ==
    ASSUME InStep, NoUpdate
    PROVE  InStep'
  <1>1. /\ UNCHANGED <<l1, l1_finalized, next_block, last_hash, txs, batches, pending_inputs,
                       sequence_number, epoch_hash, safe_head>>
        /\ pc = "idle" /\ pc' = "derive"
    BY DEF NoUpdate, l1_vars, watcher_vars, batch_vars, seq_vars, state_vars
  <1> SUFFICES ASSUME OnChain PROVE InStep'
    BY <1>1 DEF InStep, OnChain
  <1>2. IsPrefix(safe_head, l1[Far].tip) /\ SeqInStep /\ StagesHave(ReadTip)
    BY DEF InStep
  <1>3. PICK tip : tip = ReadTip
    OBVIOUS
  <1>4. StagesHave(tip)'
    BY <1>1, <1>2, <1>3 DEF StagesHave
  <1>5. UNCHANGED <<Far, ReadTip>> /\ SeqInStep'
    BY <1>1, <1>2 DEF Far, ReadTip, SeqInStep
  <1>6. QED
    BY <1>1, <1>2, <1>3, <1>4, <1>5 DEF InStep

\* Every step keeps the invariant.
LEMMA SequencerStep ==
    ASSUME PostsSingly, Types, Places, ViewInv, Rules, SequencerInv, [Next]_vars
    PROVE  SequencerInv'
  <1>1. HonestL1(l1) /\ FinalPosted /\ InStep /\ GoodChain(safe_head)
    BY DEF SequencerInv, Rules
  <1>2. CASE L1Step
    BY <1>1, <1>2, HonestStep, L1StepInStep DEF SequencerInv
  <1>3. CASE PipelineStep
    <2>1. UNCHANGED <<l1, l1_finalized, next_block, last_hash, finalized_head>>
      BY <1>3 DEF PipelineStep, NextPending, NextBatch, DecodeFails, l1_vars, watcher_vars
    <2>2. ASSUME OnChain PROVE InStep'
      <3>1. OnCourse /\ SeqInStep /\ StagesHave(ReadTip)
        BY <1>1, <2>2 DEF OnCourse, InStep
      <3>2. ~NextPending
        BY <3>1 DEF StagesHave, NextPending
      <3>3. QED
        BY <1>3, <3>1, <3>2, NextBatchInStep, DecodeFailsInStep DEF PipelineStep
    <2>3. ASSUME ~OnChain PROVE InStep'
      BY <2>1, <2>3 DEF InStep, OnChain
    <2>4. HonestL1(l1)' /\ FinalPosted'
      BY <1>1, <2>1 DEF FinalPosted
    <2>5. QED
      BY <2>2, <2>3, <2>4 DEF SequencerInv
  <1>4. CASE NewBlock
    <2>1. UNCHANGED <<l1, l1_finalized, finalized_head>>
      BY <1>4 DEF NewBlock, l1_vars
    <2>2. HonestL1(l1)' /\ FinalPosted'
      BY <1>1, <2>1 DEF FinalPosted
    <2>3. QED
      BY <1>1, <1>4, <2>2, NewBlockInStep DEF SequencerInv
  <1>5. CASE Reorg
    <2>1. UNCHANGED <<l1, l1_finalized, finalized_head>>
      BY <1>5 DEF Reorg, l1_vars
    <2>2. HonestL1(l1)' /\ FinalPosted'
      BY <1>1, <2>1 DEF FinalPosted
    <2>3. QED
      BY <1>1, <1>5, <2>2, ReorgInStep DEF SequencerInv
  <1>6. CASE NoUpdate
    <2>1. UNCHANGED <<l1, l1_finalized, finalized_head>>
      BY <1>6 DEF NoUpdate, l1_vars
    <2>2. HonestL1(l1)' /\ FinalPosted'
      BY <1>1, <2>1 DEF FinalPosted
    <2>3. QED
      BY <1>1, <1>6, <2>2, NoUpdateInStep DEF SequencerInv
  <1>7. CASE Finalize
    <2>1. HonestL1(l1)'
      BY <1>1, <1>7 DEF Finalize
    <2>2. QED
      BY <1>1, <1>7, <2>1, FinalizeInStep DEF SequencerInv
  <1>8. CASE UNCHANGED vars
    <2>1. UNCHANGED <<l1, l1_finalized, next_block, last_hash, txs, batches, pending_inputs,
                      sequence_number, epoch_hash, safe_head, finalized_head, pc>>
      BY <1>8 DEF vars, l1_vars, watcher_vars, batch_vars, seq_vars, state_vars
    <2>2. HonestL1(l1)' /\ FinalPosted'
      BY <1>1, <2>1 DEF FinalPosted
    <2>3. UNCHANGED <<Far, ReadTip, OnChain, SeqInStep>>
      BY <2>1 DEF Far, ReadTip, OnChain, SeqInStep
    <2>4. PICK tip : tip = ReadTip
      OBVIOUS
    <2>5. StagesHave(tip)' <=> StagesHave(tip)
      BY <2>1 DEF StagesHave
    <2>6. InStep'
      BY <1>1, <2>1, <2>3, <2>4, <2>5 DEF InStep
    <2>7. QED
      BY <2>2, <2>6 DEF SequencerInv
  <1>9. QED
    BY <1>2, <1>3, <1>4, <1>5, <1>6, <1>7, <1>8 DEF Next

LEMMA SequencerInit == Init => SequencerInv
  <1> SUFFICES ASSUME Init PROVE SequencerInv
    OBVIOUS
  <1>1. /\ l1 = <<[hash |-> 0, txs |-> <<>>, tip |-> <<>>]>> /\ l1_finalized = 0
        /\ next_block = 0 /\ txs = <<>> /\ batches = <<>> /\ pending_inputs = <<>>
        /\ sequence_number = 0 /\ epoch_hash = 0 /\ safe_head = <<>> /\ finalized_head = <<>>
    BY DEF Init, Genesis
  <1>2. /\ Len(l1) = 1 /\ l1[1].hash = 0 /\ l1[1].txs = <<>> /\ l1[1].tip = <<>>
    BY <1>1
  <1>3. /\ EpochOf(<<>>).number = 0 /\ EpochOf(<<>>).hash = 0 /\ PositionOf(<<>>) = 0
        /\ Genesis = <<>> /\ <<>> \in Chain
    BY DEF EpochOf, PositionOf, Genesis, Chain
  <1>4. IsPrefix(<<>>, <<>>)
    BY <1>3, PrefixReflexive DEF Chain
  <1>5. HonestL1(l1)
    <2>1. \A k \in 1..1 : k = 1
      OBVIOUS
    <2>2. OwnHashes(l1)
      BY <1>2, <2>1 DEF OwnHashes
    <2>3. LawfulTip(l1, 1, <<>>)
      BY DEF LawfulTip
    <2>4. TipOf(l1, 0) = <<>>
      BY <1>3 DEF TipOf
    <2>5. PostedOn(<<>>, l1[1])
      <3>1. Len(l1[1].txs) = 0 /\ DOMAIN l1[1].txs = {}
        BY <1>2
      <3>2. QED
        BY <1>2, <3>1 DEF PostedOn
    <2>6. 1 - 1 = 0 /\ 0 + SeqWindow >= 0
      BY DerivationAssumption
    <2>7. \A j \in 1..1 : IsPrefix(l1[j].tip, l1[1].tip)
      BY <1>2, <1>4, <2>1
    <2>8. HonestBlock(l1, 1)
      BY <1>2, <1>3, <2>3, <2>4, <2>5, <2>6, <2>7 DEF HonestBlock
    <2>9. QED
      BY <1>2, <2>1, <2>2, <2>8 DEF HonestL1
  <1>6. FinalPosted
    <2>1. l1_finalized + 1 = 1
      BY <1>1
    <2>2. QED
      BY <1>1, <1>2, <1>3, <1>4, <2>1 DEF FinalPosted
  <1>7. Far = 1 /\ ReadTip = <<>>
    BY <1>1, <1>3 DEF Far, ReadTip, TipOf
  <1>8. SeqInStep
    BY <1>1, <1>3 DEF SeqInStep
  <1>9. StagesHave(<<>>)
    <2>1. DOMAIN txs = {} /\ Len(txs) = 0 /\ DOMAIN batches = {}
      BY <1>1
    <2>2. \A n \in (Len(safe_head) + 1)..Len(<<>>) : FALSE
      BY <1>1
    <2>3. QED
      BY <1>1, <2>1, <2>2 DEF StagesHave
  <1>10. QED
    BY <1>1, <1>2, <1>4, <1>5, <1>6, <1>7, <1>8, <1>9 DEF SequencerInv, InStep

\* The comment on empty blocks in Batches::try_next (batches.rs), "if we are past the epoch
\* number + sequencer window size", for L1 chains of every length with any number of reorgs:
\* the blocks that a batcher posted in their windows, one single batch per L1 block, are
\* derived as they were built, and no empty block takes the place of one, as long as the L1
\* blocks read are canonical.  With a second transaction in an L1 block it is not so.
THEOREM SequencerNotOverruledCorrect == PostsSingly /\ Spec => []SequencerNotOverruled
  <1> SUFFICES ASSUME PostsSingly PROVE Spec => []SequencerNotOverruled
    OBVIOUS
  <1>1. Types /\ Places /\ ViewInv /\ Rules /\ SequencerInv /\ [Next]_vars => SequencerInv'
    BY SequencerStep
  <1>2. Init => SequencerInv
    BY SequencerInit
  <1>3. Spec => [](Types /\ Rules)
    BY RulesHold
  <1>4. Spec => [](Places /\ ViewInv)
    BY InvariantHolds, PTL
  <1>5. Spec => []SequencerInv
    BY <1>1, <1>2, <1>3, <1>4, PTL DEF Spec
  <1>6. Types /\ Places /\ SequencerInv => SequencerNotOverruled
    <2> SUFFICES ASSUME Types, Places, SequencerInv, OnChain
                 PROVE  IsPrefix(safe_head, Last(l1).tip)
      BY DEF SequencerNotOverruled
    <2>1. HonestL1(l1) /\ IsPrefix(safe_head, l1[Far].tip)
      BY DEF SequencerInv, InStep
    <2>2. l1 \in Seq(L1Block) /\ Len(l1) \in Nat /\ safe_head \in Chain
      BY DEF Types
    <2>3. Far \in 1..Len(l1) /\ l1[Far].tip \in Chain
      BY <2>1, Reading
    <2>4. PICK k \in 1..Len(l1) : k = Len(l1)
      BY <2>2, <2>3
    <2>5. Last(l1) = l1[k]
      BY <2>4 DEF Last
    <2>6. HonestBlock(l1, k) /\ l1[k] \in L1Block
      BY <2>1, <2>2 DEF HonestL1
    <2>7. IsPrefix(l1[Far].tip, l1[k].tip) /\ l1[k].tip \in Chain
      BY <2>3, <2>4, <2>6 DEF HonestBlock, L1Block, Tip
    <2>8. QED
      BY <2>1, <2>2, <2>3, <2>5, <2>7, PrefixTransitive DEF Chain
  <1>7. QED
    BY <1>3, <1>4, <1>5, <1>6, PTL
=============================================================================
