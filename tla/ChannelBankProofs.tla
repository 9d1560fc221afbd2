------------------------ MODULE ChannelBankProofs ------------------------
(***************************************************************************)
(* Proofs about ChannelBank for every set of frames, every block content,  *)
(* every timeout, size limit and bound.                                    *)
(*                                                                         *)
(* IndInv is the inductive invariant: types, frames that come from         *)
(* batchers, and BankInv.  TypeOK is not inductive on its own: the         *)
(* inclusion block of an emitted channel is a maximum over its frames,     *)
(* which is a number only because highest_l1_block is attained by one of   *)
(* them (part of ChannelInv).                                              *)
(*                                                                         *)
(* OrderInv is what L1Order needs on top of it: the transactions and the   *)
(* frames on their way to the bank are in the order of their blocks.       *)
(*                                                                         *)
(* NoneLost and FromL1 are what CompleteChannelsDelivered needs: what is   *)
(* in the stages was submitted, and what was submitted and fits into the   *)
(* bank is in the stages, pending or handed on.                            *)
(***************************************************************************)
EXTENDS ChannelBank, SequenceLemmas, TLAPS, SequenceTheorems, FiniteSetTheorems

\* Frames on their way to the bank are frames that a batcher can submit.
QueuedSubmittable ==
    /\ \A i \in DOMAIN frame_bank : Submittable(frame_bank[i])
    /\ \A i \in DOMAIN txs : \A j \in DOMAIN txs[i] : Submittable(txs[i][j])

\* The inductive invariant.
IndInv == TypeOK /\ QueuedSubmittable /\ BankInv

-----------------------------------------------------------------------------
(* Sequences *)

\* What is left when the element at position i is removed.
LEMMA RemoveAtFacts ==
    ASSUME NEW S, NEW s \in Seq(S), NEW i \in DOMAIN s
    PROVE  /\ RemoveAt(s, i) \in Seq(S)
           /\ Len(RemoveAt(s, i)) = Len(s) - 1
           /\ \A j \in 1..(Len(s) - 1) :
                RemoveAt(s, i)[j] = s[IF j < i THEN j ELSE j + 1]
  <1> DEFINE u == SubSeq(s, 1, i - 1)
             v == SubSeq(s, i + 1, Len(s))
  <1>0. i \in 1..Len(s) /\ Len(s) \in Nat
    OBVIOUS
  <1>1. u \in Seq(S) /\ Len(u) = i - 1 /\ \A j \in 1..(i - 1) : u[j] = s[j]
    BY <1>0, SubSeqProperties
  <1>2. v \in Seq(S) /\ Len(v) = Len(s) - i /\ \A j \in 1..(Len(s) - i) : v[j] = s[i + j]
    BY <1>0, SubSeqProperties
  <1> HIDE DEF u, v
  <1>3. /\ u \o v \in Seq(S)
        /\ Len(u \o v) = Len(s) - 1
        /\ \A j \in 1..(Len(s) - 1) :
             (u \o v)[j] = IF j <= i - 1 THEN u[j] ELSE v[j - (i - 1)]
    <2>1. Len(u) + Len(v) = Len(s) - 1
      BY <1>0, <1>1, <1>2
    <2>2. u \in Seq(S) /\ v \in Seq(S)
      BY <1>1, <1>2
    <2>3. /\ u \o v \in Seq(S)
          /\ Len(u \o v) = Len(u) + Len(v)
          /\ \A j \in 1..(Len(u) + Len(v)) :
               (u \o v)[j] = IF j <= Len(u) THEN u[j] ELSE v[j - Len(u)]
      BY <2>2, ConcatProperties, Zenon
    <2>4. QED
      BY <2>1, <2>3, <1>1
  <1>4. ASSUME NEW j \in 1..(Len(s) - 1)
        PROVE  (u \o v)[j] = s[IF j < i THEN j ELSE j + 1]
    <2>1. CASE j < i
      <3>1. (u \o v)[j] = u[j] /\ u[j] = s[j]
        BY <2>1, <1>0, <1>1, <1>3
      <3>2. QED
        BY <3>1, <2>1
    <2>2. CASE ~(j < i)
      <3>1. (u \o v)[j] = v[j - (i - 1)]
        BY <2>2, <1>0, <1>3
      <3>2. j - (i - 1) \in 1..(Len(s) - i) /\ i + (j - (i - 1)) = j + 1
        BY <2>2, <1>0
      <3>3. v[j - (i - 1)] = s[j + 1]
        BY <3>2, <1>2
      <3>4. QED
        BY <3>1, <3>3, <2>2
    <2>3. QED
      BY <2>1, <2>2
  <1>5. QED
    BY <1>3, <1>4 DEF RemoveAt, u, v

-----------------------------------------------------------------------------
(* Pending channels *)

\* Frames parsed from submitted bytes are well-typed.
LEMMA FrameOfType ==
    ASSUME NEW r \in RawFrames, NEW l1 \in Nat
    PROVE  FrameOf(r, l1) \in Frame /\ Submittable(FrameOf(r, l1))
  BY FramesAssumption DEF RawFrame, FrameOf, Frame, Submittable

\* The size of a channel, frame_number + 1 on 16 bits, is a u16.
LEMMA SizeAtType ==
    ASSUME NEW f \in Frame, NEW size \in 0..(U16 - 1) \cup {NoSize}
    PROVE  SizeAt(f, size) \in 0..(U16 - 1) \cup {NoSize}
  BY ConstantsAssumption DEF SizeAt, Frame

\* NoSize is not the size of any channel.
LEMMA NoSizeDiffers ==
    ASSUME NEW n \in Nat
    PROVE  n % U16 # NoSize /\ n % U16 \in 0..(U16 - 1)
  BY ConstantsAssumption DEF NoSize

\* PendingChannel::new makes a channel that is in order.
LEMMA NewPendingChannelInv ==
    ASSUME NEW f \in Frame, Submittable(f)
    PROVE  /\ NewPendingChannel(f) \in PendingChannel
           /\ ChannelInv(NewPendingChannel(f))
           /\ NewPendingChannel(f).channel_id = f.channel_id
  <1> DEFINE c == NewPendingChannel(f)
  <1>1. c.channel_id = f.channel_id /\ c.frames = {f} /\ c.size = SizeAt(f, NoSize)
        /\ c.highest_l1_block = f.l1_inclusion_block
        /\ c.lowest_l1_block = f.l1_inclusion_block
    BY DEF NewPendingChannel
  <1>2. c \in PendingChannel
    BY SizeAtType, NoSizeDiffers DEF NewPendingChannel, PendingChannel, Frame
  <1>3. IsFiniteSet(c.frames)
    BY <1>1, FS_Singleton
  <1>4. f.l1_inclusion_block \in Nat
    BY DEF Frame
  <1>5. \/ c.size = NoSize /\ \A g \in c.frames : ~g.is_last
        \/ \E g \in c.frames : g.is_last /\ c.size = (g.frame_number + 1) % U16
    BY <1>1 DEF SizeAt
  <1>6. ChannelInv(c)
    BY <1>1, <1>3, <1>4, <1>5, ConstantsAssumption DEF ChannelInv
  <1>7. QED
    BY <1>1, <1>2, <1>6

\* PendingChannel::push_frame keeps a channel in order, or it is removed.
LEMMA AddFrameInv ==
    ASSUME NEW c \in PendingChannel, ChannelInv(c),
           NEW f \in Frame, Submittable(f), f.channel_id = c.channel_id
    PROVE  LET d == AddFrame(c, f)
           IN  /\ d \in PendingChannel
               /\ d.channel_id = c.channel_id
               /\ ~IsTimedOut(d) => ChannelInv(d)
  <1> DEFINE d == AddFrame(c, f)
  <1>1. CASE HasSeen(c, f)
    BY <1>1 DEF AddFrame
  <1>2. CASE ~HasSeen(c, f)
    <2> DEFINE l1 == f.l1_inclusion_block
    <2>1. /\ d.channel_id = c.channel_id
          /\ d.frames = c.frames \cup {f}
          /\ d.size = SizeAt(f, c.size)
          /\ d.highest_l1_block = IF l1 > c.highest_l1_block THEN l1 ELSE c.highest_l1_block
          /\ d.lowest_l1_block = IF l1 < c.lowest_l1_block THEN l1 ELSE c.lowest_l1_block
      BY <1>2 DEF AddFrame
    <2>2. /\ c.channel_id \in ChannelIds /\ c.frames \subseteq Frame
          /\ c.size \in 0..(U16 - 1) \cup {NoSize}
          /\ c.highest_l1_block \in Nat /\ c.lowest_l1_block \in Nat
          /\ l1 \in Nat
      BY DEF PendingChannel, Frame
    <2>3. d \in PendingChannel
      <3>1. SizeAt(f, c.size) \in 0..(U16 - 1) \cup {NoSize}
        BY <2>2, SizeAtType
      <3>2. QED
        BY <1>2, <2>2, <3>1 DEF AddFrame, PendingChannel
    <2>4. ASSUME ~IsTimedOut(d)
          PROVE  ChannelInv(d)
      <3>1. IsFiniteSet(d.frames)
        BY <2>1, FS_AddElement DEF ChannelInv
      <3>2. ASSUME NEW g \in d.frames
            PROVE  /\ g.channel_id = d.channel_id
                   /\ Submittable(g)
                   /\ g.l1_inclusion_block <= d.highest_l1_block
                   /\ g.l1_inclusion_block >= d.lowest_l1_block
        <4>1. CASE g = f
          BY <4>1, <2>1, <2>2
        <4>2. CASE g \in c.frames
          <5>1. /\ g.channel_id = c.channel_id
                /\ Submittable(g)
                /\ g.l1_inclusion_block <= c.highest_l1_block
                /\ g.l1_inclusion_block >= c.lowest_l1_block
            BY <4>2 DEF ChannelInv
          <5>2. g.l1_inclusion_block \in Nat
            BY <4>2, <2>2 DEF Frame
          <5>3. QED
            BY <5>1, <5>2, <2>1, <2>2
        <4>3. QED
          BY <4>1, <4>2, <2>1
      <3>3. \E g \in d.frames : g.l1_inclusion_block = d.highest_l1_block
        BY <2>1 DEF ChannelInv
      <3>4. \E g \in d.frames : g.l1_inclusion_block = d.lowest_l1_block
        BY <2>1 DEF ChannelInv
      <3>5. d.highest_l1_block - d.lowest_l1_block <= ChannelTimeout
        BY <2>4, <2>1, <2>2, ConstantsAssumption DEF IsTimedOut
      <3>6. \A g, h \in d.frames : g.frame_number = h.frame_number => g = h
        BY <1>2, <2>1 DEF ChannelInv, HasSeen
      <3>7. \/ d.size = NoSize /\ \A g \in d.frames : ~g.is_last
            \/ \E g \in d.frames : g.is_last /\ d.size = (g.frame_number + 1) % U16
        BY <2>1 DEF ChannelInv, SizeAt
      <3>8. QED
        BY <3>1, <3>2, <3>3, <3>4, <3>5, <3>6, <3>7 DEF ChannelInv
    <2>5. QED
      BY <2>1, <2>3, <2>4
  <1>3. QED
    BY <1>1, <1>2

\* The inclusion block of a channel is its highest_l1_block.
LEMMA ChannelOfFacts ==
    ASSUME NEW c \in PendingChannel, ChannelInv(c)
    PROVE  /\ ChannelOf(c) \in Channel
           /\ ChannelOf(c).frames = c.frames
           /\ ChannelOf(c).l1_inclusion_block = c.highest_l1_block
  <1> DEFINE blocks == {f.l1_inclusion_block : f \in c.frames}
  <1>1. c.highest_l1_block \in blocks /\ \A b \in blocks : c.highest_l1_block >= b
    BY DEF ChannelInv, PendingChannel, Frame
  <1>2. blocks \subseteq Nat
    BY DEF PendingChannel, Frame
  <1> HIDE DEF blocks
  <1>3. Max(blocks) \in blocks /\ \A b \in blocks : Max(blocks) >= b
    BY <1>1 DEF Max
  <1> DEFINE m == Max(blocks)
             h == c.highest_l1_block
  <1>4. m \in Nat /\ h \in Nat /\ m >= h /\ h >= m
    BY <1>1, <1>2, <1>3
  <1> HIDE DEF m, h
  <1>5. m = h
    BY <1>4
  <1>6. QED
    BY <1>5 DEF ChannelOf, Channel, PendingChannel, blocks, m, h

\* A complete channel of an honest batcher has all its frames: they are numbered
\* at most n, the last one, there are n + 1 of them, and no two share a number.
LEMMA CompleteIsWhole ==
    ASSUME NEW c \in PendingChannel, ChannelInv(c), IsComplete(c), HonestFrames
    PROVE  \E last \in c.frames :
             /\ last.is_last
             /\ {f.frame_number : f \in c.frames} = 0..last.frame_number
  <1>1. IsFiniteSet(c.frames) /\ Cardinality(c.frames) \in Nat
    BY FS_CardinalityType DEF ChannelInv
  <1>2. c.size # NoSize
    BY <1>1, NoSizeDiffers DEF IsComplete
  <1>3. PICK last \in c.frames : last.is_last /\ c.size = (last.frame_number + 1) % U16
    BY <1>2 DEF ChannelInv
  <1> DEFINE n == last.frame_number
             numbers == {f.frame_number : f \in c.frames}
             number == [f \in c.frames |-> f.frame_number]
  <1>4. n \in 0..(U16 - 1) /\ c.frames \subseteq Frame
    BY DEF PendingChannel, Frame
  <1>5. numbers \subseteq 0..n
    <2> SUFFICES ASSUME NEW f \in c.frames PROVE f.frame_number \in 0..n
      OBVIOUS
    <2>1. PICK r \in RawFrames : f = FrameOf(r, f.l1_inclusion_block)
      BY DEF ChannelInv, Submittable
    <2>2. PICK q \in RawFrames : last = FrameOf(q, last.l1_inclusion_block)
      BY DEF ChannelInv, Submittable
    <2>3. r.channel_id = q.channel_id /\ q.is_last
      BY <2>1, <2>2, <1>3 DEF FrameOf, ChannelInv
    <2>4. r.frame_number <= q.frame_number
      BY <2>3 DEF HonestFrames
    <2>5. QED
      BY <2>1, <2>2, <2>4, <1>4 DEF FrameOf, Frame
  <1>6. Cardinality(numbers) = Cardinality(c.frames) /\ IsFiniteSet(numbers)
    <2>1. number \in Surjection(c.frames, numbers)
      BY DEF Surjection
    <2>2. number \in Injection(c.frames, numbers)
      BY DEF Injection, ChannelInv, IsInjective
    <2>3. QED
      BY <2>1, <2>2, <1>1, FS_Surjection
  <1>7. IsFiniteSet(0..n) /\ Cardinality(0..n) = n + 1
    BY <1>4, FS_Interval
  <1> HIDE DEF numbers, number
  <1>8. Cardinality(numbers) <= n + 1
    BY <1>5, <1>7, FS_Subset
  <1>9. Cardinality(numbers) # 0
    <2>1. numbers # {}
      BY <1>3 DEF numbers
    <2>2. QED
      BY <2>1, <1>6, FS_EmptySet
  <1>10. (n + 1) % U16 = Cardinality(numbers) % U16
    BY <1>3, <1>6 DEF IsComplete
  <1>11. Cardinality(numbers) = n + 1
    <2> DEFINE k == Cardinality(numbers)
    <2>1. k \in Nat /\ k # 0 /\ k <= n + 1 /\ n \in Nat /\ n < U16 /\ U16 \in Nat
      BY <1>1, <1>4, <1>6, <1>8, <1>9, ConstantsAssumption
    <2>2. (n + 1) % U16 = k % U16
      BY <1>10
    <2> HIDE DEF k, n
    <2>3. CASE n + 1 = U16
      <3>1. (n + 1) % U16 = 0
        BY <2>1, <2>3
      <3>2. k < U16 => k % U16 = k
        BY <2>1
      <3>3. QED
        BY <2>1, <2>2, <2>3, <3>1, <3>2 DEF k
    <2>4. CASE n + 1 # U16
      <3>1. n + 1 < U16 /\ k < U16
        BY <2>1, <2>4
      <3>2. (n + 1) % U16 = n + 1 /\ k % U16 = k
        BY <2>1, <3>1
      <3>3. QED
        BY <2>2, <3>2 DEF k
    <2>5. QED
      BY <2>3, <2>4
  <1>12. numbers = 0..n
    BY <1>5, <1>7, <1>11, FS_Subset
  <1>13. QED
    BY <1>3, <1>12 DEF numbers

-----------------------------------------------------------------------------
(* The bank *)

UniqueIn(pcs) == \A i, j \in DOMAIN pcs : pcs[i].channel_id = pcs[j].channel_id => i = j

\* Removing a channel keeps ids unique and every other channel in the bank, and
\* leaves none with the id of the one removed.
LEMMA RemoveChannel ==
    ASSUME NEW pcs \in Seq(PendingChannel), UniqueIn(pcs), NEW i \in DOMAIN pcs
    PROVE  LET rest == RemoveAt(pcs, i)
           IN  /\ rest \in Seq(PendingChannel)
               /\ UniqueIn(rest)
               /\ \A k \in DOMAIN rest : \E j \in DOMAIN pcs :
                    j # i /\ rest[k] = pcs[j] /\ pcs[j].channel_id # pcs[i].channel_id
  <1> DEFINE rest == RemoveAt(pcs, i)
             at(k) == IF k < i THEN k ELSE k + 1
  <1>1. /\ rest \in Seq(PendingChannel)
        /\ Len(rest) = Len(pcs) - 1
        /\ \A k \in 1..(Len(pcs) - 1) : rest[k] = pcs[at(k)]
    BY RemoveAtFacts
  <1> HIDE DEF rest
  <1>2. i \in 1..Len(pcs) /\ Len(pcs) \in Nat /\ DOMAIN pcs = 1..Len(pcs)
    OBVIOUS
  <1>3. DOMAIN rest = 1..(Len(pcs) - 1)
    BY <1>1, <1>2
  <1>4. \A k \in DOMAIN rest : at(k) \in DOMAIN pcs /\ at(k) # i /\ rest[k] = pcs[at(k)]
    BY <1>1, <1>2, <1>3
  <1>5. \A k, l \in DOMAIN rest : at(k) = at(l) => k = l
    BY <1>2, <1>3
  <1> HIDE DEF at
  <1>6. UniqueIn(rest)
    BY <1>4, <1>5 DEF UniqueIn
  <1>7. \A k \in DOMAIN rest : pcs[at(k)].channel_id # pcs[i].channel_id
    BY <1>4 DEF UniqueIn
  <1>8. QED
    BY <1>1, <1>4, <1>6, <1>7 DEF rest

\* Channels::push_frame touches only the channel of the frame.
LEMMA PushFrameInv ==
    ASSUME pending_channels \in Seq(PendingChannel), UniqueIds,
           \A i \in DOMAIN pending_channels : ChannelInv(pending_channels[i]),
           NEW f \in Frame, Submittable(f), PushFrame(f)
    PROVE  /\ pending_channels' \in Seq(PendingChannel)
           /\ UniqueIds'
           /\ \A i \in DOMAIN pending_channels' :
                /\ ChannelInv(pending_channels'[i])
                /\ \/ pending_channels'[i].channel_id = f.channel_id
                   \/ \E j \in DOMAIN pending_channels :
                        pending_channels'[i] = pending_channels[j]
  <1> DEFINE p == pending_channels
             known == IndicesOf(p, f.channel_id)
  <1>0. DOMAIN p = 1..Len(p) /\ Len(p) \in Nat /\ \A i \in DOMAIN p : p[i] \in PendingChannel
    OBVIOUS
  <1>1. CASE known = {} /\ p' = Append(p, NewPendingChannel(f))
    <2> DEFINE c == NewPendingChannel(f)
    <2>1. c \in PendingChannel /\ ChannelInv(c) /\ c.channel_id = f.channel_id
      BY NewPendingChannelInv
    <2> HIDE DEF c
    <2>2. /\ p' \in Seq(PendingChannel)
          /\ DOMAIN p' = 1..(Len(p) + 1)
          /\ \A i \in DOMAIN p : p'[i] = p[i]
          /\ p'[Len(p) + 1] = c
      BY <1>0, <1>1, <2>1, AppendProperties DEF c
    <2>3. \A i \in DOMAIN p : p[i].channel_id # f.channel_id
      BY <1>1 DEF IndicesOf
    <2>4. \A i \in DOMAIN p' : i \in DOMAIN p \/ i = Len(p) + 1
      BY <1>0, <2>2
    <2>5. UniqueIds'
      BY <2>1, <2>2, <2>3, <2>4 DEF UniqueIds
    <2>6. QED
      BY <2>1, <2>2, <2>4, <2>5
  <1>2. ASSUME NEW i \in known, IsFirst(i, known),
               p' = IF IsTimedOut(AddFrame(p[i], f))
                    THEN RemoveAt(p, i)
                    ELSE [p EXCEPT ![i] = AddFrame(p[i], f)]
        PROVE  /\ p' \in Seq(PendingChannel)
               /\ UniqueIds'
               /\ \A k \in DOMAIN p' :
                    /\ ChannelInv(p'[k])
                    /\ \/ p'[k].channel_id = f.channel_id
                       \/ \E j \in DOMAIN p : p'[k] = p[j]
    <2> DEFINE d == AddFrame(p[i], f)
    <2>1. i \in DOMAIN p /\ p[i].channel_id = f.channel_id
      BY DEF IndicesOf
    <2>2. /\ d \in PendingChannel
          /\ d.channel_id = f.channel_id
          /\ ~IsTimedOut(d) => ChannelInv(d)
      BY <1>0, <2>1, AddFrameInv
    <2> HIDE DEF d
    <2>3. CASE IsTimedOut(d)
      <3>1. p' = RemoveAt(p, i)
        BY <1>2, <2>3 DEF d
      <3>2. UniqueIn(p)
        BY DEF UniqueIds, UniqueIn
      <3>3. /\ p' \in Seq(PendingChannel)
            /\ UniqueIn(p')
            /\ \A k \in DOMAIN p' : \E j \in DOMAIN p : p'[k] = p[j]
        BY <3>1, <3>2, <2>1, RemoveChannel
      <3>4. QED
        BY <3>3 DEF UniqueIds, UniqueIn
    <2>4. CASE ~IsTimedOut(d)
      <3>1. p' = [p EXCEPT ![i] = d]
        BY <1>2, <2>4 DEF d
      <3>2. /\ p' \in Seq(PendingChannel)
            /\ DOMAIN p' = DOMAIN p
            /\ p'[i] = d
            /\ \A k \in DOMAIN p : k # i => p'[k] = p[k]
        BY <3>1, <2>1, <2>2
      <3>3. UniqueIds'
        BY <3>2, <2>1, <2>2 DEF UniqueIds
      <3>4. QED
        BY <3>2, <3>3, <2>2, <2>4
    <2>5. QED
      BY <2>3, <2>4
  <1>3. QED
    BY <1>1, <1>2 DEF PushFrame

-----------------------------------------------------------------------------
(* The inductive invariant *)

\* The empty bank of Channels::new is in order.
LEMMA InitInv == Init => IndInv
  <1> SUFFICES ASSUME Init PROVE IndInv
    OBVIOUS
  <1>1. TypeOK
    BY ConstantsAssumption DEF Init, TypeOK
  <1>2. QueuedSubmittable /\ BankInv
    BY DEF Init, QueuedSubmittable, BankInv, UniqueIds, NoCompleteChannelLingers
  <1>3. QED
    BY <1>1, <1>2 DEF IndInv

\* A batcher transaction decodes to well-typed, submitted frames.
LEMMA DecodedFrames ==
    ASSUME NEW tx \in RawTx, Decodable(tx), NEW l1 \in Nat
    PROVE  /\ BatcherTransaction(tx, l1) \in Seq(Frame)
           /\ \A j \in DOMAIN BatcherTransaction(tx, l1) :
                Submittable(BatcherTransaction(tx, l1)[j])
  <1> DEFINE b == BatcherTransaction(tx, l1)
  <1>1. CASE tx = <<>>
    BY <1>1 DEF ParsedFrames, BatcherTransaction
  <1>2. CASE tx # <<>>
    <2>1. ParsedFrames(tx) = <<Head(tx)>>
      BY <1>2 DEF ParsedFrames
    <2>2. Head(tx) \in RawFrames \cup {BadFrame}
      BY <1>2 DEF RawTx
    <2>3. Head(tx) # BadFrame
      BY <2>1 DEF Decodable, Range
    <2>4. FrameOf(Head(tx), l1) \in Frame /\ Submittable(FrameOf(Head(tx), l1))
      BY <2>2, <2>3, FrameOfType
    <2>5. DOMAIN b = 1..1 /\ \A j \in 1..1 : b[j] = FrameOf(Head(tx), l1)
      BY <2>1 DEF BatcherTransaction
    <2>6. b = [j \in 1..1 |-> FrameOf(Head(tx), l1)]
      BY <2>1 DEF BatcherTransaction
    <2> HIDE DEF b
    <2>7. b \in Seq(Frame)
      BY <2>4, <2>6, SeqDef
    <2>8. QED
      BY <2>4, <2>5, <2>7 DEF b
  <1>3. QED
    BY <1>1, <1>2

\* Every step of the stage, and every push or purge by the driver, keeps the invariant.
LEMMA StepInv == IndInv /\ [Next]_vars => IndInv'
  <1> SUFFICES ASSUME IndInv, [Next]_vars PROVE IndInv'
    OBVIOUS
  <1> USE DEF IndInv
  <1>1. ASSUME NEW block \in BlockTxs, PushBatcherTransactions(block)
        PROVE  IndInv'
    <2>1. block \in Seq(RawTx) /\ l1_block + 1 \in Nat
      BY BlockTxsAssumption DEF TypeOK
    <2>2. transaction_rx' \in Seq(Message)
      BY <1>1, <2>1 DEF PushBatcherTransactions, TypeOK, Message
    <2>3. submitted' \subseteq Frame
      <3> DEFINE new == (UNION {Range(block[i]) : i \in DOMAIN block}) \ {BadFrame}
      <3>1. new \subseteq RawFrames
        <4>1. \A i \in DOMAIN block : block[i] \in Seq(RawFrames \cup {BadFrame})
          BY <2>1 DEF RawTx
        <4>2. \A i \in DOMAIN block : Range(block[i]) \subseteq RawFrames \cup {BadFrame}
          BY <4>1 DEF Range
        <4>3. QED
          BY <4>2
      <3>2. {FrameOf(f, l1_block + 1) : f \in new} \subseteq Frame
        BY <2>1, <3>1, FrameOfType
      <3>3. QED
        BY <1>1, <3>2 DEF PushBatcherTransactions, TypeOK
    <2>4. TypeOK'
      BY <1>1, <2>1, <2>2, <2>3 DEF PushBatcherTransactions, TypeOK
    <2>5. QueuedSubmittable' /\ BankInv'
      BY <1>1 DEF PushBatcherTransactions, QueuedSubmittable, BankInv, UniqueIds,
                  NoCompleteChannelLingers
    <2>6. QED
      BY <2>4, <2>5
  <1>2. ASSUME NEW start \in 0..l1_block, Purge(start)
        PROVE  IndInv'
    <2>1. TypeOK'
      BY <1>2, ConstantsAssumption DEF Purge, TypeOK
    <2>2. QueuedSubmittable' /\ BankInv'
      BY <1>2 DEF Purge, QueuedSubmittable, BankInv, UniqueIds, NoCompleteChannelLingers
    <2>3. QED
      BY <2>1, <2>2
  <1>3. ASSUME CallNext PROVE IndInv'
    BY <1>3 DEF CallNext, TypeOK, QueuedSubmittable, BankInv, UniqueIds,
                NoCompleteChannelLingers
  <1>4. ASSUME ProcessIncoming PROVE IndInv'
    <2> DEFINE msg == Head(transaction_rx)
    <2>1. /\ msg \in Message /\ Tail(transaction_rx) \in Seq(Message)
          /\ msg.txs \in Seq(RawTx) /\ msg.l1_origin \in Nat
      <3>1. transaction_rx \in Seq(Message) /\ transaction_rx # <<>>
        BY <1>4 DEF ProcessIncoming, TypeOK
      <3>2. msg \in Message /\ Tail(transaction_rx) \in Seq(Message)
        BY <3>1
      <3>3. QED
        BY <3>2 DEF Message
    <2>2. /\ transaction_rx' \in Seq(Message)
          /\ txs' \in Seq(Seq(Frame))
          /\ \A i \in DOMAIN txs' : \A j \in DOMAIN txs'[i] : Submittable(txs'[i][j])
      <3>1. CASE msg.txs = <<>>
        BY <1>4, <2>1, <3>1 DEF ProcessIncoming, TypeOK, QueuedSubmittable
      <3>2. CASE msg.txs # <<>>
        <4> DEFINE tx == Head(msg.txs)
                   rest == [txs |-> Tail(msg.txs), l1_origin |-> msg.l1_origin]
                   b == BatcherTransaction(tx, msg.l1_origin)
        <4>1. tx \in RawTx /\ Tail(msg.txs) \in Seq(RawTx)
          BY <2>1, <3>2
        <4>2. transaction_rx' = <<rest>> \o Tail(transaction_rx)
              /\ txs' = IF Decodable(tx) THEN Append(txs, b) ELSE txs
          BY <1>4, <3>2 DEF ProcessIncoming
        <4>3. rest \in Message
          BY <2>1, <4>1 DEF Message
        <4> HIDE DEF rest, b
        <4>4. transaction_rx' \in Seq(Message)
          BY <2>1, <4>2, <4>3
        <4>5. CASE Decodable(tx)
          <5>1. b \in Seq(Frame) /\ \A j \in DOMAIN b : Submittable(b[j])
            BY <2>1, <4>1, <4>5, DecodedFrames DEF b
          <5>2. txs \in Seq(Seq(Frame)) /\ txs' = Append(txs, b)
            BY <4>2, <4>5 DEF TypeOK
          <5>3. /\ txs' \in Seq(Seq(Frame))
                /\ DOMAIN txs' = 1..(Len(txs) + 1)
                /\ \A i \in 1..Len(txs) : txs'[i] = txs[i]
                /\ txs'[Len(txs) + 1] = b
                /\ DOMAIN txs = 1..Len(txs) /\ Len(txs) \in Nat
            BY <5>1, <5>2, AppendProperties
          <5>4. \A i \in DOMAIN txs' : i \in DOMAIN txs \/ i = Len(txs) + 1
            BY <5>3
          <5>5. QED
            BY <4>4, <5>1, <5>3, <5>4 DEF QueuedSubmittable
        <4>6. CASE ~Decodable(tx)
          BY <4>2, <4>4, <4>6 DEF QueuedSubmittable, TypeOK
        <4>7. QED
          BY <4>5, <4>6
      <3>3. QED
        BY <3>1, <3>2
    <2>3. QED
      BY <1>4, <2>2 DEF ProcessIncoming, TypeOK, QueuedSubmittable, BankInv, UniqueIds,
                        NoCompleteChannelLingers
  <1>5. ASSUME FillBank PROVE IndInv'
    <2>1. /\ txs' \in Seq(Seq(Frame)) /\ frame_bank' \in Seq(Frame)
          /\ QueuedSubmittable'
      <3>1. CASE txs = <<>>
        BY <1>5, <3>1 DEF FillBank, TypeOK, QueuedSubmittable
      <3>2. CASE txs # <<>>
        <4>1. /\ txs \in Seq(Seq(Frame)) /\ frame_bank \in Seq(Frame)
              /\ frame_bank' = frame_bank \o Head(txs) /\ txs' = Tail(txs)
          BY <1>5, <3>2 DEF FillBank, TypeOK
        <4>2. Head(txs) \in Seq(Frame) /\ Head(txs) = txs[1] /\ 1 \in DOMAIN txs
          BY <4>1, <3>2
        <4>3. /\ txs' \in Seq(Seq(Frame))
              /\ \A i \in DOMAIN txs' : i + 1 \in DOMAIN txs /\ txs'[i] = txs[i + 1]
          BY <4>1, <3>2
        <4> DEFINE h == Head(txs)
        <4>4. /\ frame_bank' \in Seq(Frame)
              /\ \A i \in DOMAIN frame_bank' :
                   \/ i \in DOMAIN frame_bank /\ frame_bank'[i] = frame_bank[i]
                   \/ /\ i - Len(frame_bank) \in DOMAIN h
                      /\ frame_bank'[i] = h[i - Len(frame_bank)]
          <5>1. h \in Seq(Frame)
            BY <4>2
          <5> HIDE DEF h
          <5>2. frame_bank \in Seq(Frame) /\ frame_bank' = frame_bank \o h
            BY <4>1 DEF h
          <5>3. QED
            BY <5>1, <5>2
        <4>5. QED
          BY <4>2, <4>3, <4>4 DEF QueuedSubmittable
      <3>3. QED
        BY <3>1, <3>2
    <2>2. QED
      BY <1>5, <2>1 DEF FillBank, TypeOK, BankInv, UniqueIds, NoCompleteChannelLingers
  <1>6. ASSUME ProcessFrame PROVE IndInv'
    <2> DEFINE f == Head(frame_bank)
    <2>1. /\ f \in Frame /\ Submittable(f) /\ f.channel_id \in ChannelIds
          /\ frame_bank' \in Seq(Frame)
          /\ \A i \in DOMAIN frame_bank' :
               i + 1 \in DOMAIN frame_bank /\ frame_bank'[i] = frame_bank[i + 1]
      <3>1. frame_bank \in Seq(Frame) /\ frame_bank # <<>> /\ frame_bank' = Tail(frame_bank)
        BY <1>6 DEF ProcessFrame, TypeOK
      <3>2. f \in Frame /\ f = frame_bank[1] /\ 1 \in DOMAIN frame_bank
        BY <3>1
      <3>3. QED
        BY <3>1, <3>2 DEF QueuedSubmittable, Frame
    <2>2. PushFrame(f) /\ pc = "frames" /\ pc' = "prune" /\ frame_id' = f.channel_id
      BY <1>6 DEF ProcessFrame
    <2> HIDE DEF f
    <2>3. /\ pending_channels' \in Seq(PendingChannel)
          /\ UniqueIds'
          /\ \A i \in DOMAIN pending_channels' :
               /\ ChannelInv(pending_channels'[i])
               /\ \/ pending_channels'[i].channel_id = f.channel_id
                  \/ \E j \in DOMAIN pending_channels :
                       pending_channels'[i] = pending_channels[j]
      BY <2>1, <2>2, PushFrameInv DEF TypeOK, BankInv
    <2>4. \A j \in DOMAIN pending_channels : ~IsComplete(pending_channels[j])
      BY <2>2 DEF BankInv, NoCompleteChannelLingers
    <2>5. NoCompleteChannelLingers'
      BY <2>2, <2>3, <2>4 DEF NoCompleteChannelLingers, IsComplete
    <2>6. TypeOK' /\ QueuedSubmittable'
      BY <1>6, <2>1, <2>2, <2>3 DEF ProcessFrame, TypeOK, QueuedSubmittable
    <2>7. QED
      BY <2>3, <2>5, <2>6 DEF BankInv
  <1>7. ASSUME Prune PROVE IndInv'
    <2>1. /\ pending_channels' \in Seq(PendingChannel)
          /\ UniqueIds'
          /\ \A i \in DOMAIN pending_channels' : \E j \in DOMAIN pending_channels :
               pending_channels'[i] = pending_channels[j]
      <3>1. CASE UNCHANGED pending_channels
        BY <3>1 DEF TypeOK, BankInv, UniqueIds
      <3>2. CASE pending_channels # <<>> /\ pending_channels' = Tail(pending_channels)
        <4>1. pending_channels \in Seq(PendingChannel)
          BY DEF TypeOK
        <4>2. /\ pending_channels' \in Seq(PendingChannel)
              /\ \A i \in DOMAIN pending_channels' :
                   /\ i \in Nat
                   /\ i + 1 \in DOMAIN pending_channels
                   /\ pending_channels'[i] = pending_channels[i + 1]
          BY <3>2, <4>1
        <4>3. UniqueIds'
          BY <4>2 DEF BankInv, UniqueIds
        <4>4. QED
          BY <4>2, <4>3
      <3>3. QED
        BY <1>7, <3>1, <3>2 DEF Prune
    <2>2. pc = "prune" /\ pc' \in {"prune", "fetch"} /\ frame_id' = frame_id
      BY <1>7 DEF Prune
    <2>3. BankInv'
      BY <2>1, <2>2 DEF BankInv, NoCompleteChannelLingers, IsComplete
    <2>4. TypeOK' /\ QueuedSubmittable'
      BY <1>7, <2>1, <2>2 DEF Prune, TypeOK, QueuedSubmittable
    <2>5. QED
      BY <2>3, <2>4
  <1>8. ASSUME FetchReadyChannel PROVE IndInv'
    <2> DEFINE p == pending_channels
               ready == {i \in IndicesOf(p, frame_id) : IsComplete(p[i])}
    <2>1. \A i \in DOMAIN p : IsComplete(p[i]) => i \in ready
      BY DEF BankInv, NoCompleteChannelLingers, IndicesOf
    <2>2. CASE ready = {} /\ pc' = "frames" /\ UNCHANGED <<pending_channels, emitted>>
      <3>1. BankInv'
        BY <2>1, <2>2 DEF BankInv, UniqueIds, NoCompleteChannelLingers
      <3>2. QED
        BY <1>8, <2>2, <3>1 DEF FetchReadyChannel, TypeOK, QueuedSubmittable
    <2>3. ASSUME NEW i \in ready,
                 p' = RemoveAt(p, i),
                 emitted' = emitted \cup {ChannelOf(p[i])},
                 pc' = "idle"
          PROVE  IndInv'
      <3>1. i \in DOMAIN p /\ p \in Seq(PendingChannel) /\ p[i] \in PendingChannel
            /\ UniqueIn(p) /\ p[i].channel_id = frame_id
        BY DEF IndicesOf, TypeOK, BankInv, UniqueIds, UniqueIn
      <3>2. /\ p' \in Seq(PendingChannel)
            /\ UniqueIn(p')
            /\ \A k \in DOMAIN p' : \E j \in DOMAIN p :
                 j # i /\ p'[k] = p[j] /\ p[j].channel_id # p[i].channel_id
        BY <2>3, <3>1, RemoveChannel
      <3>3. \A j \in DOMAIN p : p[j].channel_id # frame_id => ~IsComplete(p[j])
        BY <2>1 DEF IndicesOf
      <3>4. BankInv'
        BY <3>1, <3>2, <3>3 DEF BankInv, UniqueIds, UniqueIn, NoCompleteChannelLingers,
                                IsComplete
      <3>5. ChannelOf(p[i]) \in Channel
        BY <3>1, ChannelOfFacts DEF BankInv
      <3>6. TypeOK' /\ QueuedSubmittable'
        BY <1>8, <2>3, <3>2, <3>5 DEF FetchReadyChannel, TypeOK, QueuedSubmittable
      <3>7. QED
        BY <3>4, <3>6
    <2>4. QED
      BY <1>8, <2>2, <2>3 DEF FetchReadyChannel
  <1>9. ASSUME ReturnNone PROVE IndInv'
    BY <1>9 DEF ReturnNone, TypeOK, QueuedSubmittable, BankInv, UniqueIds,
                NoCompleteChannelLingers
  <1>10. CASE UNCHANGED vars
    BY <1>10 DEF vars, TypeOK, QueuedSubmittable, BankInv, UniqueIds,
                 NoCompleteChannelLingers
  <1>11. QED
    BY <1>1, <1>2, <1>3, <1>4, <1>5, <1>6, <1>7, <1>8, <1>9, <1>10 DEF Next, ChannelsNext

\* The invariant holds always.
LEMMA Invariance == Spec => []IndInv
  <1>1. QED
    BY InitInv, StepInv, PTL DEF Spec

-----------------------------------------------------------------------------
(* Theorems *)

\* The type invariant holds for every value of the constants; in particular the
\* inclusion block of a channel handed on is a block number and size is a u16.
THEOREM TypeCorrect == Spec => []TypeOK
  <1>1. IndInv => TypeOK
    BY DEF IndInv
  <1>2. QED
    BY Invariance, <1>1, PTL

\* The channel bank is in order whatever frames are submitted: ids are unique,
\* frames distinct and within the timeout, and no complete channel stays behind.
THEOREM BankCorrect == Spec => []BankInv
  <1>1. IndInv => BankInv
    BY DEF IndInv
  <1>2. QED
    BY Invariance, <1>1, PTL

\* A channel is handed on only by fetch_ready_channel, when it is complete.
LEMMA EmittedStep ==
    ASSUME IndInv, [Next]_vars, NEW ch \in emitted'
    PROVE  \/ ch \in emitted
           \/ \E i \in DOMAIN pending_channels :
                IsComplete(pending_channels[i]) /\ ch = ChannelOf(pending_channels[i])
  <1>1. CASE FetchReadyChannel
    BY <1>1 DEF FetchReadyChannel, IndicesOf
  <1>2. CASE ~FetchReadyChannel
    <2>1. emitted' = emitted \/ emitted' = {}
      BY <1>2 DEF Next, ChannelsNext, PushBatcherTransactions, Purge, CallNext,
                  ProcessIncoming, FillBank, ProcessFrame, Prune, ReturnNone, vars
    <2>2. QED
      BY <2>1
  <1>3. QED
    BY <1>1, <1>2

\* Every channel handed on is whole, if the batcher numbers frames by the protocol:
\* counting frames, as is_complete does, is then as good as looking at each one,
\* even for a channel of 2^16 frames, whose size wraps to 0.
THEOREM EmittedWholeCorrect == Spec => []EmittedWhole
  <1>1. Init => EmittedWhole
    BY DEF Init, EmittedWhole
  <1>2. IndInv /\ EmittedWhole /\ [Next]_vars => EmittedWhole'
    <2> SUFFICES ASSUME IndInv, EmittedWhole, [Next]_vars, HonestFrames, NEW ch \in emitted'
                 PROVE  \E last \in ch.frames :
                          /\ last.is_last
                          /\ {f.frame_number : f \in ch.frames} = 0..last.frame_number
                          /\ \A f, g \in ch.frames : f.frame_number = g.frame_number => f = g
      BY DEF EmittedWhole
    <2>1. CASE ch \in emitted
      BY <2>1 DEF EmittedWhole
    <2>2. ASSUME NEW i \in DOMAIN pending_channels,
                 IsComplete(pending_channels[i]), ch = ChannelOf(pending_channels[i])
          PROVE  \E last \in ch.frames :
                   /\ last.is_last
                   /\ {f.frame_number : f \in ch.frames} = 0..last.frame_number
                   /\ \A f, g \in ch.frames : f.frame_number = g.frame_number => f = g
      <3> DEFINE c == pending_channels[i]
      <3>1. c \in PendingChannel /\ ChannelInv(c)
        BY DEF IndInv, TypeOK, BankInv
      <3>2. ch.frames = c.frames
        BY <2>2, <3>1, ChannelOfFacts
      <3>3. \E last \in c.frames :
              last.is_last /\ {f.frame_number : f \in c.frames} = 0..last.frame_number
        BY <2>2, <3>1, CompleteIsWhole
      <3>4. \A f, g \in c.frames : f.frame_number = g.frame_number => f = g
        BY <3>1 DEF ChannelInv
      <3> HIDE DEF c
      <3>5. QED
        BY <3>2, <3>3, <3>4
    <2>3. QED
      BY <2>1, <2>2, EmittedStep
  <1>3. QED
    BY Invariance, <1>1, <1>2, PTL DEF Spec

\* The frames of every channel handed on are within channel_timeout of each other,
\* and its inclusion block is that of its latest frame.
THEOREM EmittedInTimeCorrect == Spec => []EmittedInTime
  <1>1. Init => EmittedInTime
    BY DEF Init, EmittedInTime
  <1>2. IndInv /\ EmittedInTime /\ [Next]_vars => EmittedInTime'
    <2> SUFFICES ASSUME IndInv, EmittedInTime, [Next]_vars, NEW ch \in emitted'
                 PROVE  /\ \A f, g \in ch.frames :
                             f.l1_inclusion_block - g.l1_inclusion_block <= ChannelTimeout
                        /\ ch.l1_inclusion_block \in {f.l1_inclusion_block : f \in ch.frames}
                        /\ \A f \in ch.frames :
                             f.l1_inclusion_block <= ch.l1_inclusion_block
      BY DEF EmittedInTime
    <2>1. CASE ch \in emitted
      BY <2>1 DEF EmittedInTime
    <2>2. ASSUME NEW i \in DOMAIN pending_channels, ch = ChannelOf(pending_channels[i])
          PROVE  /\ \A f, g \in ch.frames :
                      f.l1_inclusion_block - g.l1_inclusion_block <= ChannelTimeout
                 /\ ch.l1_inclusion_block \in {f.l1_inclusion_block : f \in ch.frames}
                 /\ \A f \in ch.frames : f.l1_inclusion_block <= ch.l1_inclusion_block
      <3> DEFINE c == pending_channels[i]
      <3>1. c \in PendingChannel /\ ChannelInv(c)
        BY DEF IndInv, TypeOK, BankInv
      <3>2. ch.frames = c.frames /\ ch.l1_inclusion_block = c.highest_l1_block
        BY <2>2, <3>1, ChannelOfFacts
      <3>3. /\ c.highest_l1_block \in Nat /\ c.lowest_l1_block \in Nat
            /\ \A f \in c.frames : f.l1_inclusion_block \in Nat
        BY <3>1 DEF PendingChannel, Frame
      <3>4. /\ \A f \in c.frames : f.l1_inclusion_block <= c.highest_l1_block
                                  /\ f.l1_inclusion_block >= c.lowest_l1_block
            /\ \E f \in c.frames : f.l1_inclusion_block = c.highest_l1_block
            /\ c.highest_l1_block - c.lowest_l1_block <= ChannelTimeout
        BY <3>1 DEF ChannelInv
      <3> HIDE DEF c
      <3>5. \A f, g \in c.frames :
              f.l1_inclusion_block - g.l1_inclusion_block <= ChannelTimeout
        BY <3>3, <3>4, ConstantsAssumption
      <3>6. QED
        BY <3>2, <3>4, <3>5
    <2>3. QED
      BY <2>1, <2>2, EmittedStep
  <1>3. QED
    BY Invariance, <1>1, <1>2, PTL DEF Spec


-----------------------------------------------------------------------------
(* The order of the frames *)

\* L1 block n is not after anything in transaction_rx from place k on; in txs from place k
\* on and in transaction_rx; in the bank from place k on, in txs and in transaction_rx.
BeforeRx(n, k) ==
    /\ \A j \in DOMAIN transaction_rx : j >= k => n <= transaction_rx[j].l1_origin
    /\ n <= l1_block

BeforeTxs(n, k) ==
    /\ \A j \in DOMAIN txs :
         j >= k => \A m \in DOMAIN txs[j] : n <= txs[j][m].l1_inclusion_block
    /\ BeforeRx(n, 1)

BeforeBank(n, k) ==
    /\ \A j \in DOMAIN frame_bank : j >= k => n <= frame_bank[j].l1_inclusion_block
    /\ BeforeTxs(n, 1)

\* L1Order is not inductive: the frames of one queue must be in order among themselves.
OrderInv ==
    /\ \A i \in DOMAIN transaction_rx : BeforeRx(transaction_rx[i].l1_origin, i)
    /\ \A i \in DOMAIN txs : \A m \in DOMAIN txs[i] : BeforeTxs(txs[i][m].l1_inclusion_block, i)
    /\ \A i \in DOMAIN frame_bank : BeforeBank(frame_bank[i].l1_inclusion_block, i)
    /\ \A i \in DOMAIN pending_channels : \A f \in pending_channels[i].frames :
         BeforeBank(f.l1_inclusion_block, 1)

\* The places and L1 blocks are numbers.
LEMMA OrderTypes ==
    ASSUME TypeOK
    PROVE  /\ \A i \in DOMAIN transaction_rx : i \in Nat /\ i >= 1 /\ transaction_rx[i].l1_origin \in Nat
           /\ \A i \in DOMAIN txs : i \in Nat /\ i >= 1 /\ \A m \in DOMAIN txs[i] :
                txs[i][m].l1_inclusion_block \in Nat
           /\ \A i \in DOMAIN frame_bank :
                i \in Nat /\ i >= 1 /\ frame_bank[i].l1_inclusion_block \in Nat
           /\ \A i \in DOMAIN pending_channels : \A f \in pending_channels[i].frames :
                f.l1_inclusion_block \in Nat
           /\ l1_block \in Nat
  <1>1. /\ transaction_rx \in Seq(Message) /\ txs \in Seq(Seq(Frame)) /\ frame_bank \in Seq(Frame)
        /\ pending_channels \in Seq(PendingChannel) /\ l1_block \in Nat
    BY DEF TypeOK
  <1>2. \A i \in DOMAIN transaction_rx : i \in Nat /\ i >= 1 /\ transaction_rx[i] \in Message
    BY <1>1
  <1>3. \A i \in DOMAIN txs : i \in Nat /\ i >= 1 /\ txs[i] \in Seq(Frame)
    BY <1>1
  <1>4. \A i \in DOMAIN txs : \A m \in DOMAIN txs[i] : txs[i][m] \in Frame
    BY <1>3
  <1>5. \A i \in DOMAIN frame_bank : i \in Nat /\ i >= 1 /\ frame_bank[i] \in Frame
    BY <1>1
  <1>6. \A i \in DOMAIN pending_channels : pending_channels[i].frames \subseteq Frame
    <2>1. \A i \in DOMAIN pending_channels : pending_channels[i] \in PendingChannel
      BY <1>1
    <2>2. QED
      BY <2>1 DEF PendingChannel
  <1>7. QED
    BY <1>1, <1>2, <1>3, <1>4, <1>5, <1>6 DEF Message, Frame

\* What a channel has after push_frame it had before, but for the frame pushed.
LEMMA PushFrameHeld ==
    ASSUME pending_channels \in Seq(PendingChannel), UniqueIds, NEW f \in Frame, PushFrame(f)
    PROVE  \A k \in DOMAIN pending_channels' : \A g \in pending_channels'[k].frames :
             g = f \/ \E j \in DOMAIN pending_channels : g \in pending_channels[j].frames
  <1> DEFINE p == pending_channels
             known == IndicesOf(p, f.channel_id)
  <1>1. CASE p' = Append(p, NewPendingChannel(f))
    <2>1. NewPendingChannel(f).frames = {f}
      BY DEF NewPendingChannel
    <2> DEFINE c == NewPendingChannel(f)
    <2> HIDE DEF c
    <2>2. DOMAIN p = 1..Len(p) /\ Len(p) \in Nat
      OBVIOUS
    <2>3. /\ DOMAIN p' = 1..(Len(p) + 1) /\ p'[Len(p) + 1] = c
          /\ \A k \in 1..Len(p) : p'[k] = p[k]
      BY <1>1 DEF c
    <2>4. \A k \in DOMAIN p' : k \in DOMAIN p \/ k = Len(p) + 1
      BY <2>2, <2>3
    <2>5. QED
      BY <2>1, <2>2, <2>3, <2>4 DEF c
  <1>2. ASSUME NEW i \in known,
               p' = IF IsTimedOut(AddFrame(p[i], f)) THEN RemoveAt(p, i)
                    ELSE [p EXCEPT ![i] = AddFrame(p[i], f)]
        PROVE  \A k \in DOMAIN p' : \A g \in p'[k].frames :
                 g = f \/ \E j \in DOMAIN p : g \in p[j].frames
    <2>1. i \in DOMAIN p
      BY DEF IndicesOf
    <2> DEFINE c == AddFrame(p[i], f)
    <2>2. \A g \in c.frames : g = f \/ g \in p[i].frames
      BY DEF AddFrame
    <2> HIDE DEF c
    <2>3. CASE p' = RemoveAt(p, i)
      <3>1. UniqueIn(p)
        BY DEF UniqueIds, UniqueIn
      <3>2. \A k \in DOMAIN p' : \E j \in DOMAIN p : p'[k] = p[j]
        BY <2>1, <2>3, <3>1, RemoveChannel
      <3>3. QED
        BY <3>2
    <2>4. CASE p' = [p EXCEPT ![i] = c]
      <3>1. DOMAIN p' = DOMAIN p /\ \A k \in DOMAIN p : p'[k] = IF k = i THEN c ELSE p[k]
        BY <2>4
      <3>2. QED
        BY <2>1, <2>2, <3>1
    <2>5. QED
      BY <1>2, <2>3, <2>4 DEF c
  <1>3. QED
    BY <1>1, <1>2 DEF PushFrame

\* prune and fetch_ready_channel only take channels out.
LEMMA ShrinkHeld ==
    ASSUME pending_channels \in Seq(PendingChannel), UniqueIds, Prune \/ FetchReadyChannel
    PROVE  \A k \in DOMAIN pending_channels' : \E j \in DOMAIN pending_channels :
             pending_channels'[k] = pending_channels[j]
  <1>1. CASE UNCHANGED pending_channels
    BY <1>1
  <1>2. CASE pending_channels # <<>> /\ pending_channels' = Tail(pending_channels)
    <2>1. \A k \in DOMAIN pending_channels' :
            k + 1 \in DOMAIN pending_channels /\ pending_channels'[k] = pending_channels[k + 1]
      BY <1>2
    <2>2. QED
      BY <2>1
  <1>3. ASSUME NEW i \in DOMAIN pending_channels, pending_channels' = RemoveAt(pending_channels, i)
        PROVE  \A k \in DOMAIN pending_channels' : \E j \in DOMAIN pending_channels :
                 pending_channels'[k] = pending_channels[j]
    <2>1. UniqueIn(pending_channels)
      BY DEF UniqueIds, UniqueIn
    <2>2. QED
      BY <1>3, <2>1, RemoveChannel
  <1>4. QED
    BY <1>1, <1>2, <1>3 DEF Prune, FetchReadyChannel, IndicesOf

\* Putting the head of a sequence back changed leaves the rest where it is.
LEMMA ReplaceHead ==
    ASSUME NEW S, NEW s \in Seq(S), s # <<>>, NEW x \in S
    PROVE  /\ DOMAIN (<<x>> \o Tail(s)) = DOMAIN s
           /\ \A j \in DOMAIN s : (<<x>> \o Tail(s))[j] = IF j = 1 THEN x ELSE s[j]
  <1> DEFINE t == Tail(s)
             n == Len(s)
  <1>1. /\ t \in Seq(S) /\ Len(t) = n - 1 /\ n \in Nat /\ n >= 1
        /\ \A j \in 1..(n - 1) : t[j] = s[j + 1]
    OBVIOUS
  <1>2. DOMAIN s = 1..n
    OBVIOUS
  <1> HIDE DEF t, n
  <1> DEFINE u == <<x>> \o t
  <1>3. Len(u) = n /\ DOMAIN u = 1..n
    BY <1>1
  <1>4. \A j \in 1..n : u[j] = IF j = 1 THEN x ELSE t[j - 1]
    BY <1>1
  <1>5. \A j \in 1..n : j # 1 => t[j - 1] = s[j]
    BY <1>1
  <1>6. QED
    BY <1>2, <1>3, <1>4, <1>5 DEF t

\* What every step keeps of the order.
LEMMA OrderStep == IndInv /\ OrderInv /\ [Next]_vars => OrderInv'
  <1> SUFFICES ASSUME IndInv, OrderInv, [Next]_vars PROVE OrderInv'
    OBVIOUS
  <1>1. TypeOK /\ UniqueIds
    BY DEF IndInv, BankInv
  <1>2. /\ \A i \in DOMAIN transaction_rx : i \in Nat /\ i >= 1 /\ transaction_rx[i].l1_origin \in Nat
        /\ \A i \in DOMAIN txs : i \in Nat /\ i >= 1 /\ \A m \in DOMAIN txs[i] :
             txs[i][m].l1_inclusion_block \in Nat
        /\ \A i \in DOMAIN frame_bank :
             i \in Nat /\ i >= 1 /\ frame_bank[i].l1_inclusion_block \in Nat
        /\ \A i \in DOMAIN pending_channels : \A f \in pending_channels[i].frames :
             f.l1_inclusion_block \in Nat
        /\ l1_block \in Nat
    BY <1>1, OrderTypes
  <1>3. ASSUME NEW block \in BlockTxs, PushBatcherTransactions(block)
        PROVE  OrderInv'
    <2>1. /\ UNCHANGED <<txs, frame_bank, pending_channels>> /\ l1_block' = l1_block + 1
          /\ transaction_rx' = Append(transaction_rx, [txs |-> block, l1_origin |-> l1_block + 1])
      BY <1>3 DEF PushBatcherTransactions
    <2> DEFINE msg == [txs |-> block, l1_origin |-> l1_block + 1]
               n == Len(transaction_rx)
    <2>2. msg.l1_origin = l1_block + 1
      OBVIOUS
    <2> HIDE DEF msg
    <2>3. transaction_rx \in Seq(Message) /\ transaction_rx' = Append(transaction_rx, msg)
      BY <1>1, <2>1 DEF TypeOK, msg
    <2>4. /\ n \in Nat /\ DOMAIN transaction_rx = 1..n /\ DOMAIN transaction_rx' = 1..(n + 1)
          /\ \A j \in 1..n : transaction_rx'[j] = transaction_rx[j]
          /\ transaction_rx'[n + 1] = msg
      BY <2>3
    <2> HIDE DEF n
    <2>5. ASSUME NEW x \in Nat, NEW k \in Nat, BeforeRx(x, k) PROVE BeforeRx(x, k)'
      <3>1. x <= l1_block
        BY <2>5 DEF BeforeRx
      <3>2. ASSUME NEW j \in 1..(n + 1), j >= k PROVE x <= transaction_rx'[j].l1_origin
        <4>1. j \in 1..n \/ j = n + 1
          BY <2>4
        <4>2. QED
          BY <1>2, <2>2, <2>4, <2>5, <3>1, <3>2, <4>1 DEF BeforeRx
      <3>3. QED
        BY <1>2, <2>1, <2>4, <3>1, <3>2 DEF BeforeRx
    <2>6. ASSUME NEW x \in Nat, NEW k \in Nat, BeforeTxs(x, k) PROVE BeforeTxs(x, k)'
      BY <2>1, <2>5, <2>6 DEF BeforeTxs
    <2>7. ASSUME NEW x \in Nat, NEW k \in Nat, BeforeBank(x, k) PROVE BeforeBank(x, k)'
      BY <2>1, <2>6, <2>7 DEF BeforeBank
    <2>8. ASSUME NEW i \in 1..(n + 1), NEW x, x = transaction_rx'[i].l1_origin
          PROVE  BeforeRx(x, i)'
      <3>1. CASE i \in 1..n
        <4>1. x = transaction_rx[i].l1_origin /\ x \in Nat /\ BeforeRx(x, i)
          BY <1>2, <2>4, <2>8, <3>1 DEF OrderInv
        <4>2. QED
          BY <2>5, <4>1
      <3>2. CASE i = n + 1
        <4>1. x = l1_block + 1
          BY <2>2, <2>4, <2>8, <3>2
        <4>2. \A j \in 1..(n + 1) : j >= i => j = n + 1
          BY <2>4, <3>2
        <4>3. QED
          BY <1>2, <2>1, <2>2, <2>4, <4>1, <4>2 DEF BeforeRx
      <3>3. QED
        BY <2>4, <3>1, <3>2
    <2>9. (\A i \in DOMAIN transaction_rx : BeforeRx(transaction_rx[i].l1_origin, i))'
      BY <2>4, <2>8
    <2>10. (\A i \in DOMAIN txs : \A m \in DOMAIN txs[i] :
              BeforeTxs(txs[i][m].l1_inclusion_block, i))'
      BY <1>2, <2>1, <2>6 DEF OrderInv
    <2>11. /\ (\A i \in DOMAIN frame_bank : BeforeBank(frame_bank[i].l1_inclusion_block, i))'
           /\ (\A i \in DOMAIN pending_channels : \A f \in pending_channels[i].frames :
                 BeforeBank(f.l1_inclusion_block, 1))'
      BY <1>2, <2>1, <2>7 DEF OrderInv
    <2>12. QED
      BY <2>9, <2>10, <2>11 DEF OrderInv
  <1>4. ASSUME NEW start \in 0..l1_block, Purge(start) PROVE OrderInv'
    BY <1>4 DEF Purge, OrderInv
  <1>5. CASE UNCHANGED <<l1_block, transaction_rx, txs, frame_bank, pending_channels>>
    BY <1>5 DEF OrderInv, BeforeRx, BeforeTxs, BeforeBank
  <1>6. CASE ProcessIncoming
    <2> DEFINE rx == transaction_rx
               msg == Head(rx)
               o == msg.l1_origin
    <2>1. UNCHANGED <<l1_block, frame_bank, pending_channels>> /\ rx # <<>> /\ rx \in Seq(Message)
          /\ txs \in Seq(Seq(Frame))
      BY <1>1, <1>6 DEF ProcessIncoming, TypeOK
    <2>2. /\ msg = rx[1] /\ 1 \in DOMAIN rx /\ msg \in Message /\ o \in Nat
          /\ msg.txs \in Seq(RawTx) /\ Tail(rx) \in Seq(Message)
          /\ DOMAIN rx = 1..Len(rx) /\ Len(rx) \in Nat /\ Len(rx) >= 1
          /\ DOMAIN Tail(rx) = 1..(Len(rx) - 1)
          /\ \A j \in 1..(Len(rx) - 1) : Tail(rx)[j] = rx[j + 1]
      <3>1. msg = rx[1] /\ 1 \in DOMAIN rx /\ msg \in Message /\ Tail(rx) \in Seq(Message)
            /\ DOMAIN rx = 1..Len(rx) /\ Len(rx) \in Nat /\ Len(rx) >= 1
            /\ DOMAIN Tail(rx) = 1..(Len(rx) - 1)
            /\ \A j \in 1..(Len(rx) - 1) : Tail(rx)[j] = rx[j + 1]
        BY <2>1
      <3>2. QED
        BY <3>1 DEF Message
    <2>3. CASE rx' = Tail(rx) /\ UNCHANGED txs
      <3>1. ASSUME NEW x \in Nat, BeforeRx(x, 1) PROVE BeforeRx(x, 1)'
        <4>1. \A j \in 1..(Len(rx) - 1) : j + 1 \in 1..Len(rx) /\ j + 1 >= 1
          BY <2>2
        <4>2. QED
          BY <2>1, <2>2, <2>3, <3>1, <4>1 DEF BeforeRx
      <3>2. ASSUME NEW x \in Nat, NEW k \in Nat, BeforeTxs(x, k) PROVE BeforeTxs(x, k)'
        BY <2>3, <3>1, <3>2 DEF BeforeTxs
      <3>3. ASSUME NEW x \in Nat, NEW k \in Nat, BeforeBank(x, k) PROVE BeforeBank(x, k)'
        BY <2>1, <3>2, <3>3 DEF BeforeBank
      <3>4. ASSUME NEW i \in 1..(Len(rx) - 1), NEW x, x = rx'[i].l1_origin
            PROVE  BeforeRx(x, i)'
        <4>1. i + 1 \in 1..Len(rx) /\ \A j \in 1..(Len(rx) - 1) :
                j + 1 \in 1..Len(rx) /\ (j >= i => j + 1 >= i + 1)
          BY <2>2
        <4>2. BeforeRx(x, i + 1)
          BY <2>2, <2>3, <3>4, <4>1 DEF OrderInv
        <4>3. QED
          BY <2>1, <2>2, <2>3, <4>1, <4>2 DEF BeforeRx
      <3>5. (\A i \in DOMAIN transaction_rx : BeforeRx(transaction_rx[i].l1_origin, i))'
        BY <2>2, <2>3, <3>4
      <3>6. (\A i \in DOMAIN txs : \A m \in DOMAIN txs[i] :
               BeforeTxs(txs[i][m].l1_inclusion_block, i))'
        BY <1>2, <2>3, <3>2 DEF OrderInv
      <3>7. /\ (\A i \in DOMAIN frame_bank : BeforeBank(frame_bank[i].l1_inclusion_block, i))'
            /\ (\A i \in DOMAIN pending_channels : \A f \in pending_channels[i].frames :
                  BeforeBank(f.l1_inclusion_block, 1))'
        BY <1>2, <2>1, <3>3 DEF OrderInv
      <3>8. QED
        BY <3>5, <3>6, <3>7 DEF OrderInv
    <2>4. ASSUME msg.txs # <<>>,
                 rx' = <<[txs |-> Tail(msg.txs), l1_origin |-> o]>> \o Tail(rx),
                 txs' = IF Decodable(Head(msg.txs))
                        THEN Append(txs, BatcherTransaction(Head(msg.txs), o)) ELSE txs
          PROVE  OrderInv'
      <3> DEFINE rest == [txs |-> Tail(msg.txs), l1_origin |-> o]
                 tx == Head(msg.txs)
                 b == BatcherTransaction(tx, o)
      <3>1. rest.l1_origin = o /\ rest \in Message /\ tx \in RawTx
        BY <2>2, <2>4 DEF Message
      <3>2. DOMAIN rx' = DOMAIN rx /\ \A j \in DOMAIN rx : rx'[j].l1_origin = rx[j].l1_origin
        <4>1. rx \in Seq(Message) /\ rx # <<>>
          BY <2>1, <2>2
        <4>2. rx' = <<rest>> \o Tail(rx)
          BY <2>4
        <4> HIDE DEF rest, rx
        <4>3. /\ DOMAIN (<<rest>> \o Tail(rx)) = DOMAIN rx
              /\ \A j \in DOMAIN rx : (<<rest>> \o Tail(rx))[j] = IF j = 1 THEN rest ELSE rx[j]
          BY <3>1, <4>1, ReplaceHead
        <4>4. QED
          BY <2>2, <3>1, <4>2, <4>3 DEF o, msg
      <3>3. ASSUME NEW x \in Nat, NEW k \in Nat PROVE BeforeRx(x, k)' <=> BeforeRx(x, k)
        BY <2>1, <3>2 DEF BeforeRx
      <3>4. \A x \in Nat : BeforeRx(x, 1) => x <= o
        BY <2>2 DEF BeforeRx
      <3>5. BeforeRx(o, 1)
        BY <2>2 DEF OrderInv
      <3> HIDE DEF tx, b, rest, o, msg
      <3>6. /\ \A j \in DOMAIN txs : j \in DOMAIN txs' /\ txs'[j] = txs[j]
            /\ \A j \in DOMAIN txs' :
                 \/ j \in DOMAIN txs
                 \/ /\ j \in Nat /\ j >= 1
                    /\ \A m \in DOMAIN txs'[j] : txs'[j][m].l1_inclusion_block = o
        <4>1. CASE Decodable(tx)
          <5>1. b \in Seq(Frame) /\ \A m \in DOMAIN b : b[m].l1_inclusion_block = o
            <6>1. b \in Seq(Frame)
              BY <2>2, <3>1, <4>1, DecodedFrames DEF b, o
            <6>2. \A m \in DOMAIN b : b[m].l1_inclusion_block = o
              BY DEF b, BatcherTransaction, FrameOf
            <6>3. QED
              BY <6>1, <6>2
          <5>2. txs' = Append(txs, b)
            BY <2>4, <4>1 DEF tx, b, o
          <5>3. /\ DOMAIN txs = 1..Len(txs) /\ Len(txs) \in Nat /\ DOMAIN txs' = 1..(Len(txs) + 1)
                /\ \A j \in 1..Len(txs) : txs'[j] = txs[j]
                /\ txs'[Len(txs) + 1] = b
            BY <2>1, <5>1, <5>2, AppendProperties
          <5>4. \A j \in DOMAIN txs' : j \in DOMAIN txs \/ (j = Len(txs) + 1 /\ j \in Nat /\ j >= 1)
            BY <5>3
          <5>5. \A j \in DOMAIN txs : j \in DOMAIN txs'
            BY <5>3
          <5>6. QED
            BY <5>1, <5>3, <5>4, <5>5
        <4>2. CASE ~Decodable(tx)
          BY <2>4, <4>2 DEF tx
        <4>3. QED
          BY <4>1, <4>2
      <3>7. ASSUME NEW x \in Nat, NEW k \in Nat, BeforeTxs(x, k) PROVE BeforeTxs(x, k)'
        <4>1. BeforeRx(x, 1)' /\ x <= o
          BY <3>3, <3>4, <3>7 DEF BeforeTxs
        <4>2. ASSUME NEW j \in DOMAIN txs', j >= k, NEW m \in DOMAIN txs'[j]
              PROVE  x <= txs'[j][m].l1_inclusion_block
          BY <3>6, <3>7, <4>1, <4>2 DEF BeforeTxs
        <4>3. QED
          BY <4>1, <4>2 DEF BeforeTxs
      <3>8. ASSUME NEW x \in Nat, NEW k \in Nat, BeforeBank(x, k) PROVE BeforeBank(x, k)'
        BY <2>1, <3>7, <3>8 DEF BeforeBank
      <3>9. (\A i \in DOMAIN transaction_rx : BeforeRx(transaction_rx[i].l1_origin, i))'
        <4>1. ASSUME NEW i \in DOMAIN rx, NEW x, x = rx'[i].l1_origin PROVE BeforeRx(x, i)'
          BY <1>2, <3>2, <3>3, <4>1 DEF OrderInv
        <4>2. QED
          BY <3>2, <4>1
      <3>10. (\A i \in DOMAIN txs : \A m \in DOMAIN txs[i] :
                BeforeTxs(txs[i][m].l1_inclusion_block, i))'
        <4>1. ASSUME NEW i \in DOMAIN txs', NEW m \in DOMAIN txs'[i],
                     NEW x, x = txs'[i][m].l1_inclusion_block
              PROVE  BeforeTxs(x, i)'
          <5>1. CASE i \in DOMAIN txs
            BY <1>2, <3>6, <3>7, <4>1, <5>1 DEF OrderInv
          <5>2. CASE i \notin DOMAIN txs
            <6>1. x = o /\ BeforeRx(x, 1)' /\ i \in Nat
              BY <2>2, <3>3, <3>5, <3>6, <4>1, <5>2 DEF o
            <6>2. ASSUME NEW j \in DOMAIN txs', j >= i, NEW l \in DOMAIN txs'[j]
                  PROVE  x <= txs'[j][l].l1_inclusion_block
              <7>1. j \notin DOMAIN txs
                <8>1. DOMAIN txs = 1..Len(txs) /\ Len(txs) \in Nat
                  BY <2>1
                <8>2. i >= 1
                  BY <3>6, <4>1, <5>2
                <8>3. QED
                  BY <5>2, <6>1, <6>2, <8>1, <8>2
              <7>2. QED
                BY <2>2, <3>6, <6>1, <7>1 DEF o
            <6>3. QED
              BY <6>1, <6>2 DEF BeforeTxs
          <5>3. QED
            BY <5>1, <5>2
        <4>2. QED
          BY <4>1
      <3>11. /\ (\A i \in DOMAIN frame_bank : BeforeBank(frame_bank[i].l1_inclusion_block, i))'
             /\ (\A i \in DOMAIN pending_channels : \A f \in pending_channels[i].frames :
                   BeforeBank(f.l1_inclusion_block, 1))'
        BY <1>2, <2>1, <3>8 DEF OrderInv
      <3>12. QED
        BY <3>9, <3>10, <3>11 DEF OrderInv
    <2>5. QED
      BY <1>6, <2>3, <2>4 DEF ProcessIncoming
  <1>7. CASE FillBank
    <2>1. /\ UNCHANGED <<l1_block, transaction_rx, pending_channels>>
          /\ txs \in Seq(Seq(Frame)) /\ frame_bank \in Seq(Frame)
      BY <1>1, <1>7 DEF FillBank, TypeOK
    <2>2. CASE UNCHANGED <<txs, frame_bank>>
      BY <1>5, <2>1, <2>2
    <2>3. CASE txs # <<>> /\ frame_bank' = frame_bank \o Head(txs) /\ txs' = Tail(txs)
      <3> DEFINE h == Head(txs)
                 n == Len(frame_bank)
      <3>1. /\ h \in Seq(Frame) /\ h = txs[1] /\ 1 \in DOMAIN txs
            /\ DOMAIN txs = 1..Len(txs) /\ Len(txs) \in Nat
            /\ DOMAIN txs' = 1..(Len(txs) - 1)
            /\ \A j \in DOMAIN txs' : txs'[j] = txs[j + 1]
        BY <2>1, <2>3
      <3>2. \A j \in DOMAIN txs' : j \in Nat /\ j >= 1 /\ j + 1 \in DOMAIN txs
        BY <3>1
      <3> HIDE DEF h
      <3>3. frame_bank' = frame_bank \o h
        BY <2>3 DEF h
      <3>4. /\ n \in Nat /\ DOMAIN frame_bank = 1..n
            /\ \A i \in DOMAIN frame_bank' :
                 \/ i \in DOMAIN frame_bank /\ frame_bank'[i] = frame_bank[i]
                 \/ i \in Nat /\ i > n /\ i - n \in DOMAIN h /\ frame_bank'[i] = h[i - n]
        BY <2>1, <3>1, <3>3
      <3> HIDE DEF n
      <3>5. ASSUME NEW x \in Nat, NEW k \in Nat, BeforeTxs(x, k + 1) PROVE BeforeTxs(x, k)'
        <4>1. BeforeRx(x, 1)'
          BY <2>1, <3>5 DEF BeforeTxs, BeforeRx
        <4>2. \A j \in DOMAIN txs' : j >= k => j + 1 >= k + 1
          BY <3>2
        <4>3. QED
          BY <3>1, <3>2, <3>5, <4>1, <4>2 DEF BeforeTxs
      <3>6. ASSUME NEW x \in Nat, BeforeTxs(x, 1) PROVE BeforeTxs(x, 1)'
        <4>1. BeforeTxs(x, 1 + 1)
          <5>1. \A j \in DOMAIN txs : j >= 1 + 1 => j >= 1
            BY <3>1
          <5>2. QED
            BY <3>6, <5>1 DEF BeforeTxs
        <4>2. QED
          BY <3>5, <4>1
      <3>7. \A x \in Nat : BeforeTxs(x, 1) => \A m \in DOMAIN h : x <= h[m].l1_inclusion_block
        BY <3>1 DEF BeforeTxs
      <3>8. ASSUME NEW x \in Nat, NEW k \in Nat, BeforeBank(x, k) PROVE BeforeBank(x, k)'
        <4>1. BeforeTxs(x, 1) /\ BeforeTxs(x, 1)'
          BY <3>6, <3>8 DEF BeforeBank
        <4>2. ASSUME NEW j \in DOMAIN frame_bank', j >= k
              PROVE  x <= frame_bank'[j].l1_inclusion_block
          BY <3>4, <3>7, <3>8, <4>1, <4>2 DEF BeforeBank
        <4>3. QED
          BY <4>1, <4>2 DEF BeforeBank
      <3>9. (\A i \in DOMAIN transaction_rx : BeforeRx(transaction_rx[i].l1_origin, i))'
        BY <2>1 DEF OrderInv, BeforeRx
      <3>10. (\A i \in DOMAIN txs : \A m \in DOMAIN txs[i] :
                BeforeTxs(txs[i][m].l1_inclusion_block, i))'
        <4>1. ASSUME NEW i \in DOMAIN txs', NEW m \in DOMAIN txs'[i],
                     NEW x, x = txs'[i][m].l1_inclusion_block
              PROVE  BeforeTxs(x, i)'
          <5>1. x \in Nat /\ BeforeTxs(x, i + 1) /\ i \in Nat
            BY <1>2, <3>1, <3>2, <4>1 DEF OrderInv
          <5>2. QED
            BY <3>5, <5>1
        <4>2. QED
          BY <4>1
      <3>11. (\A i \in DOMAIN frame_bank : BeforeBank(frame_bank[i].l1_inclusion_block, i))'
        <4>1. ASSUME NEW i \in DOMAIN frame_bank', NEW x, x = frame_bank'[i].l1_inclusion_block
              PROVE  BeforeBank(x, i)'
          <5>1. CASE i \in DOMAIN frame_bank /\ frame_bank'[i] = frame_bank[i]
            BY <1>2, <3>8, <4>1, <5>1 DEF OrderInv
          <5>2. CASE i \in Nat /\ i > n /\ i - n \in DOMAIN h /\ frame_bank'[i] = h[i - n]
            <6>1. x \in Nat /\ BeforeTxs(x, 1)
              BY <1>2, <3>1, <4>1, <5>2 DEF OrderInv
            <6>2. ASSUME NEW j \in DOMAIN frame_bank', j >= i
                  PROVE  x <= frame_bank'[j].l1_inclusion_block
              <7>1. j \notin DOMAIN frame_bank
                BY <3>4, <5>2, <6>2
              <7>2. QED
                BY <3>4, <3>7, <6>1, <7>1
            <6>3. QED
              BY <3>6, <6>1, <6>2 DEF BeforeBank
          <5>3. QED
            BY <3>4, <5>1, <5>2
        <4>2. QED
          BY <4>1
      <3>12. (\A i \in DOMAIN pending_channels : \A f \in pending_channels[i].frames :
                BeforeBank(f.l1_inclusion_block, 1))'
        BY <1>2, <2>1, <3>8 DEF OrderInv
      <3>13. QED
        BY <3>9, <3>10, <3>11, <3>12 DEF OrderInv
    <2>4. QED
      BY <1>7, <2>2, <2>3 DEF FillBank
  <1>8. CASE ProcessFrame
    <2> DEFINE f == Head(frame_bank)
    <2>1. /\ UNCHANGED <<l1_block, transaction_rx, txs>> /\ PushFrame(f)
          /\ frame_bank \in Seq(Frame) /\ frame_bank # <<>> /\ frame_bank' = Tail(frame_bank)
          /\ pending_channels \in Seq(PendingChannel)
      BY <1>1, <1>8 DEF ProcessFrame, TypeOK
    <2>2. /\ f \in Frame /\ f = frame_bank[1] /\ 1 \in DOMAIN frame_bank
          /\ \A j \in DOMAIN frame_bank' :
               j \in Nat /\ j >= 1 /\ j + 1 \in DOMAIN frame_bank /\ frame_bank'[j] = frame_bank[j + 1]
      BY <2>1
    <2> HIDE DEF f
    <2>3. ASSUME NEW x \in Nat, NEW k \in Nat, BeforeTxs(x, k) PROVE BeforeTxs(x, k)'
      BY <2>1, <2>3 DEF BeforeTxs, BeforeRx
    <2>4. ASSUME NEW x \in Nat, NEW k \in Nat, BeforeBank(x, k + 1) PROVE BeforeBank(x, k)'
      <3>1. BeforeTxs(x, 1)'
        BY <2>3, <2>4 DEF BeforeBank
      <3>2. \A j \in DOMAIN frame_bank' : j >= k => j + 1 >= k + 1
        BY <2>2
      <3>3. QED
        BY <2>2, <2>4, <3>1, <3>2 DEF BeforeBank
    <2>5. ASSUME NEW x \in Nat, BeforeBank(x, 1) PROVE BeforeBank(x, 1)'
      <3>1. \A j \in DOMAIN frame_bank : j >= 1 + 1 => j >= 1
        BY <1>2
      <3>2. BeforeBank(x, 1 + 1)
        BY <2>5, <3>1 DEF BeforeBank
      <3>3. QED
        BY <2>4, <3>2
    <2>6. (\A i \in DOMAIN transaction_rx : BeforeRx(transaction_rx[i].l1_origin, i))'
      BY <2>1 DEF OrderInv, BeforeRx
    <2>7. (\A i \in DOMAIN txs : \A m \in DOMAIN txs[i] :
             BeforeTxs(txs[i][m].l1_inclusion_block, i))'
      BY <1>2, <2>1, <2>3 DEF OrderInv
    <2>8. (\A i \in DOMAIN frame_bank : BeforeBank(frame_bank[i].l1_inclusion_block, i))'
      <3>1. ASSUME NEW i \in DOMAIN frame_bank', NEW x, x = frame_bank'[i].l1_inclusion_block
            PROVE  BeforeBank(x, i)'
        <4>1. x \in Nat /\ BeforeBank(x, i + 1) /\ i \in Nat
          BY <1>2, <2>2, <3>1 DEF OrderInv
        <4>2. QED
          BY <2>4, <4>1
      <3>2. QED
        BY <3>1
    <2>9. \A k \in DOMAIN pending_channels' : \A g \in pending_channels'[k].frames :
            g = f \/ \E j \in DOMAIN pending_channels : g \in pending_channels[j].frames
      BY <1>1, <2>1, <2>2, PushFrameHeld
    <2>10. ASSUME NEW k \in DOMAIN pending_channels', NEW g \in pending_channels'[k].frames
           PROVE  BeforeBank(g.l1_inclusion_block, 1)'
      <3>1. g.l1_inclusion_block \in Nat /\ BeforeBank(g.l1_inclusion_block, 1)
        BY <1>2, <2>2, <2>9 DEF OrderInv
      <3>2. QED
        BY <2>5, <3>1
    <2>11. QED
      BY <2>6, <2>7, <2>8, <2>10 DEF OrderInv
  <1>9. CASE Prune \/ FetchReadyChannel
    <2>1. UNCHANGED <<l1_block, transaction_rx, txs, frame_bank>>
          /\ pending_channels \in Seq(PendingChannel)
      BY <1>1, <1>9 DEF Prune, FetchReadyChannel, TypeOK
    <2>2. \A k \in DOMAIN pending_channels' : \E j \in DOMAIN pending_channels :
            pending_channels'[k] = pending_channels[j]
      BY <1>1, <1>9, <2>1, ShrinkHeld
    <2>3. QED
      BY <2>1, <2>2 DEF OrderInv, BeforeRx, BeforeTxs, BeforeBank
  <1>10. QED
    BY <1>3, <1>4, <1>5, <1>6, <1>7, <1>8, <1>9 DEF Next, ChannelsNext, CallNext, ReturnNone, vars


\* L1Order from the order along the queues.
LEMMA OrderImplies == TypeOK /\ OrderInv => L1Order
  <1> SUFFICES ASSUME TypeOK, OrderInv PROVE L1Order
    OBVIOUS
  <1> DEFINE held == UNION {c.frames : c \in Range(pending_channels)}
             bank == Range(frame_bank)
             queued == UNION {Range(tx) : tx \in Range(txs)}
  <1>1. ASSUME NEW f \in held PROVE BeforeBank(f.l1_inclusion_block, 1)
    <2>1. PICK i \in DOMAIN pending_channels : f \in pending_channels[i].frames
      BY <1>1 DEF Range
    <2>2. QED
      BY <2>1 DEF OrderInv
  <1>2. ASSUME NEW f \in bank PROVE \E i \in DOMAIN frame_bank : f = frame_bank[i]
    BY <1>2 DEF Range
  <1>3. ASSUME NEW f \in queued
        PROVE  \E i \in DOMAIN txs : \E m \in DOMAIN txs[i] : f = txs[i][m]
    BY <1>3 DEF Range
  <1>4. ASSUME NEW f \in bank PROVE BeforeTxs(f.l1_inclusion_block, 1)
    BY <1>2, <1>4 DEF OrderInv, BeforeBank
  <1>5. ASSUME NEW f \in queued PROVE BeforeRx(f.l1_inclusion_block, 1)
    BY <1>3, <1>5 DEF OrderInv, BeforeTxs
  <1>6. /\ \A i \in DOMAIN frame_bank : i >= 1
        /\ \A i \in DOMAIN txs : i >= 1
        /\ \A i \in DOMAIN transaction_rx : i >= 1
    BY OrderTypes
  <1>7. ASSUME NEW f \in held, NEW g \in bank \cup queued
        PROVE  f.l1_inclusion_block <= g.l1_inclusion_block
    <2>1. CASE g \in bank
      BY <1>1, <1>2, <1>6, <2>1 DEF BeforeBank
    <2>2. CASE g \in queued
      BY <1>1, <1>3, <1>6, <2>2 DEF BeforeBank, BeforeTxs
    <2>3. QED
      BY <1>7, <2>1, <2>2
  <1>8. ASSUME NEW f \in bank, NEW g \in queued
        PROVE  f.l1_inclusion_block <= g.l1_inclusion_block
    BY <1>3, <1>4, <1>6, <1>8 DEF BeforeTxs
  <1>9. ASSUME NEW f \in held \cup bank \cup queued PROVE BeforeRx(f.l1_inclusion_block, 1)
    BY <1>1, <1>4, <1>5, <1>9 DEF BeforeBank, BeforeTxs
  <1>10. ASSUME NEW f \in held \cup bank \cup queued, NEW m \in Range(transaction_rx)
         PROVE  f.l1_inclusion_block <= m.l1_origin
    <2>1. PICK i \in DOMAIN transaction_rx : m = transaction_rx[i]
      BY <1>10 DEF Range
    <2>2. QED
      BY <1>6, <1>9, <2>1 DEF BeforeRx
  <1>11. ASSUME NEW f \in held \cup bank \cup queued PROVE f.l1_inclusion_block <= l1_block
    BY <1>9 DEF BeforeRx
  <1> HIDE DEF held, bank, queued
  <1>12. /\ \A f \in held, g \in bank \cup queued : f.l1_inclusion_block <= g.l1_inclusion_block
         /\ \A f \in bank, g \in queued : f.l1_inclusion_block <= g.l1_inclusion_block
         /\ \A f \in held \cup bank \cup queued, m \in Range(transaction_rx) :
              f.l1_inclusion_block <= m.l1_origin
         /\ \A f \in held \cup bank \cup queued : f.l1_inclusion_block <= l1_block
    BY <1>7, <1>8, <1>10, <1>11
  <1>13. QED
    BY <1>12 DEF held, bank, queued, L1Order

\* ChannelBank.L1Order: whatever is pushed, decoded and purged, a frame that waits behind
\* another of the pipeline's queues is in the same or a later L1 block, so nothing of a
\* purged chain is left behind the frames of the chain that replaced it.
THEOREM L1OrderCorrect == Spec => []L1Order
  <1>1. Init => OrderInv
    BY DEF Init, OrderInv
  <1>2. IndInv => TypeOK
    BY DEF IndInv
  <1>3. QED
    BY Invariance, <1>1, <1>2, OrderStep, OrderImplies, PTL DEF Spec

-----------------------------------------------------------------------------
(* Sums over sets *)

\* The element a fold over a set takes next.
Picked(s) == CHOOSE x \in s : TRUE

\* g adds up what w says of the elements, for the sets in D.
AddsUp(g, w, D) ==
    g = [s \in D |-> IF s = {} THEN 0 ELSE w[Picked(s)] + g[s \ {Picked(s)}]]

\* The subsets of T with at most n elements.
Upto(T, n) == {s \in SUBSET T : Cardinality(s) <= n}

\* Such a g exists: it is built up from the smaller subsets of T to the larger ones.
LEMMA SumExists ==
    ASSUME NEW T, IsFiniteSet(T), NEW w
    PROVE  \E g : AddsUp(g, w, SUBSET T)
  <1> DEFINE Bad == {n \in Nat : ~\E g : AddsUp(g, w, Upto(T, n))}
  <1>1. \A s \in SUBSET T : IsFiniteSet(s) /\ Cardinality(s) \in Nat
    BY FS_Subset, FS_CardinalityType
  <1>2. \A s \in SUBSET T : s # {} =>
          /\ Picked(s) \in s /\ s \ {Picked(s)} \in SUBSET T
          /\ Cardinality(s \ {Picked(s)}) = Cardinality(s) - 1 /\ Cardinality(s) >= 1
    <2> SUFFICES ASSUME NEW s \in SUBSET T, s # {}
                 PROVE  /\ Picked(s) \in s /\ s \ {Picked(s)} \in SUBSET T
                        /\ Cardinality(s \ {Picked(s)}) = Cardinality(s) - 1 /\ Cardinality(s) >= 1
      OBVIOUS
    <2>1. Picked(s) \in s
      BY DEF Picked
    <2>2. Cardinality(s \ {Picked(s)}) = Cardinality(s) - 1
      BY <1>1, <2>1, FS_RemoveElement
    <2>3. Cardinality(s) \in Nat /\ Cardinality(s) # 0
      BY <1>1, FS_EmptySet
    <2>4. QED
      BY <2>1, <2>2, <2>3
  <1>3. Bad = {}
    <2> SUFFICES ASSUME Bad # {} PROVE FALSE
      OBVIOUS
    <2>1. PICK m \in Bad : \A n \in Bad : m <= n
      <3>1. Bad \subseteq Nat
        OBVIOUS
      <3> HIDE DEF Bad
      <3>2. QED
        BY <3>1, LeastNumber
    <2>2. m \in Nat /\ ~\E g : AddsUp(g, w, Upto(T, m))
      OBVIOUS
    <2>3. CASE m = 0
      <3> DEFINE g == [s \in Upto(T, 0) |-> 0]
      <3>1. \A s \in Upto(T, 0) : s = {}
        BY <1>1, FS_EmptySet DEF Upto
      <3>2. g = [s \in Upto(T, 0) |-> IF s = {} THEN 0 ELSE w[Picked(s)] + g[s \ {Picked(s)}]]
        BY <3>1
      <3>3. AddsUp(g, w, Upto(T, 0))
        BY <3>2 DEF AddsUp
      <3> HIDE DEF g
      <3>4. QED
        BY <2>2, <2>3, <3>3
    <2>4. CASE m > 0
      <3>1. m - 1 \in Nat /\ ~(m <= m - 1)
        BY <2>2, <2>4
      <3>2. m - 1 \notin Bad
        BY <2>1, <3>1
      <3>3. PICK g : AddsUp(g, w, Upto(T, m - 1))
        BY <3>1, <3>2
      <3> DEFINE h == [s \in Upto(T, m) |->
                         IF s \in Upto(T, m - 1) THEN g[s]
                         ELSE w[Picked(s)] + g[s \ {Picked(s)}]]
      <3>4. \A s \in Upto(T, m - 1) :
              g[s] = IF s = {} THEN 0 ELSE w[Picked(s)] + g[s \ {Picked(s)}]
        <4> DEFINE e(s) == IF s = {} THEN 0 ELSE w[Picked(s)] + g[s \ {Picked(s)}]
        <4>1. g = [s \in Upto(T, m - 1) |-> e(s)]
          BY <3>3 DEF AddsUp
        <4> HIDE DEF e
        <4>2. \A s \in Upto(T, m - 1) : g[s] = e(s)
          BY <4>1
        <4>3. QED
          BY <4>2 DEF e
      <3>5. \A s \in Upto(T, m) : s # {} =>
              s \ {Picked(s)} \in Upto(T, m) /\ s \ {Picked(s)} \in Upto(T, m - 1)
        <4> SUFFICES ASSUME NEW s \in SUBSET T, Cardinality(s) <= m, s # {}
                     PROVE  s \ {Picked(s)} \in Upto(T, m) /\ s \ {Picked(s)} \in Upto(T, m - 1)
          BY DEF Upto
        <4>1. s \ {Picked(s)} \in SUBSET T /\ Cardinality(s \ {Picked(s)}) = Cardinality(s) - 1
              /\ Cardinality(s) \in Nat
          BY <1>1, <1>2
        <4>2. Cardinality(s \ {Picked(s)}) <= m /\ Cardinality(s \ {Picked(s)}) <= m - 1
          BY <2>2, <4>1
        <4>3. QED
          BY <4>1, <4>2 DEF Upto
      <3>6. {} \in Upto(T, m - 1)
        BY <3>1, FS_EmptySet DEF Upto
      <3>7. ASSUME NEW s \in Upto(T, m)
            PROVE  h[s] = IF s = {} THEN 0 ELSE w[Picked(s)] + h[s \ {Picked(s)}]
        <4>1. h[s] = IF s \in Upto(T, m - 1) THEN g[s] ELSE w[Picked(s)] + g[s \ {Picked(s)}]
          OBVIOUS
        <4>2. CASE s = {}
          BY <3>4, <3>6, <4>1, <4>2
        <4>3. CASE s # {}
          <5>1. h[s \ {Picked(s)}] = g[s \ {Picked(s)}]
            BY <3>5, <4>3
          <5> HIDE DEF h
          <5>2. QED
            BY <3>4, <4>1, <4>3, <5>1
        <4>4. QED
          BY <4>2, <4>3
      <3>8. h = [s \in Upto(T, m) |-> h[s]]
        OBVIOUS
      <3> HIDE DEF h
      <3>9. h = [s \in Upto(T, m) |-> IF s = {} THEN 0 ELSE w[Picked(s)] + h[s \ {Picked(s)}]]
        BY <3>7, <3>8
      <3>10. QED
        BY <2>2, <3>9 DEF AddsUp
    <2>5. QED
      BY <2>2, <2>3, <2>4
  <1>4. Cardinality(T) \in Nat
    BY <1>1
  <1>5. Upto(T, Cardinality(T)) = SUBSET T
    BY FS_Subset DEF Upto
  <1>6. \E g : AddsUp(g, w, Upto(T, Cardinality(T)))
    BY <1>3, <1>4
  <1>7. QED
    BY <1>5, <1>6

\* g adds up the sizes of disjoint sets, one for each element of T.
AddsSizes(g, w, C, T) ==
    /\ IsFiniteSet(T)
    /\ AddsUp(g, w, SUBSET T)
    /\ \A x \in T : IsFiniteSet(C[x]) /\ w[x] = Cardinality(C[x])
    /\ \A x, y \in T : x # y => C[x] \cap C[y] = {}

\* It then counts the elements of all of them.
LEMMA SumCounts ==
    ASSUME NEW g, NEW w, NEW C, NEW T, AddsSizes(g, w, C, T)
    PROVE  IsFiniteSet(UNION {C[x] : x \in T}) /\ g[T] = Cardinality(UNION {C[x] : x \in T})
  <1> DEFINE All(s) == UNION {C[x] : x \in s}
             Right(s) == IsFiniteSet(All(s)) /\ g[s] = Cardinality(All(s))
             Bad == {n \in Nat : \E s \in SUBSET T : Cardinality(s) = n /\ ~Right(s)}
  <1>1. \A s \in SUBSET T : IsFiniteSet(s) /\ Cardinality(s) \in Nat
    BY FS_Subset, FS_CardinalityType DEF AddsSizes
  <1>2. \A s \in SUBSET T : g[s] = IF s = {} THEN 0 ELSE w[Picked(s)] + g[s \ {Picked(s)}]
    <2> DEFINE e(s) == IF s = {} THEN 0 ELSE w[Picked(s)] + g[s \ {Picked(s)}]
    <2>1. g = [s \in SUBSET T |-> e(s)]
      BY DEF AddsUp, AddsSizes
    <2> HIDE DEF e
    <2>2. \A s \in SUBSET T : g[s] = e(s)
      BY <2>1
    <2>3. QED
      BY <2>2 DEF e
  <1>3. Bad = {}
    <2> SUFFICES ASSUME Bad # {} PROVE FALSE
      OBVIOUS
    <2>1. PICK m \in Bad : \A n \in Bad : m <= n
      <3>1. Bad \subseteq Nat
        OBVIOUS
      <3> HIDE DEF Bad
      <3>2. QED
        BY <3>1, LeastNumber
    <2>2. PICK s \in SUBSET T : m \in Nat /\ Cardinality(s) = m /\ ~Right(s)
      BY <2>1
    <2>3. CASE s = {}
      <3>1. All(s) = {}
        BY <2>3
      <3>2. g[s] = 0
        BY <1>2, <2>3
      <3>3. QED
        BY <2>2, <3>1, <3>2, FS_EmptySet
    <2>4. CASE s # {}
      <3>1. PICK x \in s : x = Picked(s)
        BY <2>4 DEF Picked
      <3>2. PICK r \in SUBSET T : r = s \ {x}
        BY <2>2
      <3>3. Cardinality(r) = m - 1 /\ Cardinality(r) \in Nat
        BY <1>1, <2>2, <3>2, FS_RemoveElement
      <3>4. Right(r)
        <4>1. m - 1 \notin Bad
          <5>1. m - 1 \in Nat /\ ~(m <= m - 1)
            BY <2>2, <3>3
          <5> HIDE DEF Bad
          <5>2. QED
            BY <2>1, <5>1
        <4> HIDE DEF Right
        <4>2. QED
          BY <3>3, <4>1
      <3>5. All(s) = All(r) \cup C[x] /\ All(r) \cap C[x] = {}
        <4>1. s = r \cup {x} /\ x \notin r
          BY <3>2
        <4>2. All(s) = All(r) \cup C[x]
          BY <4>1
        <4>3. All(r) \cap C[x] = {}
          BY <2>2, <3>1, <3>2, <4>1 DEF AddsSizes
        <4>4. QED
          BY <4>2, <4>3
      <3>6. g[s] = w[x] + g[r]
        BY <1>2, <2>4, <3>1, <3>2
      <3>7. x \in T /\ IsFiniteSet(C[x]) /\ w[x] = Cardinality(C[x])
        BY <2>2, <3>1 DEF AddsSizes
      <3>8. IsFiniteSet(All(r)) /\ g[r] = Cardinality(All(r))
        BY <3>4
      <3> HIDE DEF All
      <3>9. /\ IsFiniteSet(All(r) \cup C[x])
            /\ Cardinality(All(r) \cup C[x]) =
                 Cardinality(All(r)) + Cardinality(C[x]) - Cardinality(All(r) \cap C[x])
        BY <3>7, <3>8, FS_Union
      <3>10. Cardinality(All(r)) \in Nat /\ Cardinality(C[x]) \in Nat
             /\ Cardinality(All(r) \cap C[x]) = 0
        BY <3>5, <3>7, <3>8, FS_CardinalityType, FS_EmptySet
      <3>11. Right(s)
        BY <3>5, <3>6, <3>7, <3>8, <3>9, <3>10
      <3>12. QED
        BY <2>2, <3>11
    <2>5. QED
      BY <2>3, <2>4
  <1>4. Right(T)
    <2>1. Cardinality(T) \in Nat /\ T \in SUBSET T /\ Cardinality(T) \notin Bad
      BY <1>1, <1>3
    <2> HIDE DEF Right
    <2>2. QED
      BY <2>1
  <1>5. QED
    BY <1>4


\* The places of the payload of frame f among those of all frames.
Cells(f) == {<<f.channel_id, f.frame_number>>} \X (1..f.frame_data_len)

\* What a set of frames holds.
SizeOf(T) == MapThenSumSet(LAMBDA f : f.frame_data_len, T)

\* A frame has as many places as its payload is long.
LEMMA CellsCount ==
    ASSUME NEW f, f.frame_data_len \in Nat
    PROVE  IsFiniteSet(Cells(f)) /\ Cardinality(Cells(f)) = f.frame_data_len
  <1> DEFINE a == <<f.channel_id, f.frame_number>>
             I == 1..f.frame_data_len
  <1>1. IsFiniteSet({a}) /\ Cardinality({a}) = 1
    BY FS_Singleton
  <1>2. IsFiniteSet(I) /\ Cardinality(I) = f.frame_data_len
    BY FS_Interval
  <1> HIDE DEF a, I
  <1>3. IsFiniteSet({a} \X I) /\ Cardinality({a} \X I) = 1 * Cardinality(I)
    BY <1>1, <1>2, FS_Product
  <1>4. QED
    BY <1>2, <1>3 DEF a, I, Cells

\* The size of frames with distinct names is the number of their places.
LEMMA FrameSum ==
    ASSUME NEW T, IsFiniteSet(T), \A f \in T : f.frame_data_len \in Nat,
           \A f, g \in T :
              f.channel_id = g.channel_id /\ f.frame_number = g.frame_number => f = g
    PROVE  /\ IsFiniteSet(UNION {Cells(f) : f \in T})
           /\ SizeOf(T) = Cardinality(UNION {Cells(f) : f \in T})
  <1> DEFINE w == [f \in T |-> f.frame_data_len]
             C == [f \in T |-> Cells(f)]
             F(g) == [s \in SUBSET T |-> IF s = {} THEN 0
                        ELSE LET x == CHOOSE x \in s : TRUE
                             IN  x.frame_data_len + g[s \ {x}]]
             iter == CHOOSE g : g = F(g)
  <1>1. SizeOf(T) = iter[T]
    BY DEF SizeOf, MapThenSumSet, MapThenFoldSet
  <1>2. ASSUME NEW g PROVE AddsUp(g, w, SUBSET T) <=> g = F(g)
    <2> DEFINE a(s) == IF s = {} THEN 0 ELSE w[Picked(s)] + g[s \ {Picked(s)}]
               b(s) == IF s = {} THEN 0 ELSE Picked(s).frame_data_len + g[s \ {Picked(s)}]
    <2>1. ASSUME NEW s \in SUBSET T PROVE a(s) = b(s)
      <3>1. s # {} => Picked(s) \in T
        BY DEF Picked
      <3>2. QED
        BY <3>1
    <2>2. [s \in SUBSET T |-> a(s)] = [s \in SUBSET T |-> b(s)]
      <3> HIDE DEF a, b
      <3>1. QED
        BY <2>1
    <2>3. QED
      BY <2>2 DEF AddsUp, Picked
  <1>3. PICK g : AddsUp(g, w, SUBSET T)
    BY SumExists
  <1>4. \A f \in T : IsFiniteSet(C[f]) /\ w[f] = Cardinality(C[f])
    BY CellsCount
  <1>5. \A f, h \in T : f # h => C[f] \cap C[h] = {}
    BY DEF Cells
  <1>6. {C[f] : f \in T} = {Cells(f) : f \in T}
    OBVIOUS
  <1> HIDE DEF w, F, C
  <1>7. g = F(g)
    BY <1>2, <1>3
  <1>8. iter = F(iter)
    BY <1>7
  <1> HIDE DEF iter
  <1>9. AddsUp(iter, w, SUBSET T)
    BY <1>2, <1>8
  <1>10. /\ IsFiniteSet(UNION {C[f] : f \in T})
         /\ iter[T] = Cardinality(UNION {C[f] : f \in T})
    <2>1. AddsSizes(iter, w, C, T)
      BY <1>4, <1>5, <1>9 DEF AddsSizes
    <2>2. QED
      BY <2>1, SumCounts
  <1>11. QED
    BY <1>1, <1>6, <1>10

\* TotalSize counts the places of the frames of the pending channels.
LEMMA TotalSum ==
    ASSUME NEW pcs \in Seq(PendingChannel), UniqueIn(pcs),
           \A i \in DOMAIN pcs : ChannelInv(pcs[i])
    PROVE  LET held == UNION {pcs[i].frames : i \in DOMAIN pcs}
           IN  /\ IsFiniteSet(UNION {Cells(f) : f \in held})
               /\ TotalSize(pcs) = Cardinality(UNION {Cells(f) : f \in held})
  <1> DEFINE held == UNION {pcs[i].frames : i \in DOMAIN pcs}
             T == DOMAIN pcs
             all(i) == UNION {Cells(f) : f \in pcs[i].frames}
             w == [i \in T |-> ChannelSize(pcs[i])]
             C == [i \in T |-> all(i)]
             F(g) == [s \in SUBSET T |-> IF s = {} THEN 0
                        ELSE LET x == CHOOSE x \in s : TRUE
                             IN  ChannelSize(pcs[x]) + g[s \ {x}]]
             iter == CHOOSE g : g = F(g)
  <1>1. TotalSize(pcs) = iter[T]
    BY DEF TotalSize, MapThenSumSet, MapThenFoldSet
  <1>2. ASSUME NEW g PROVE AddsUp(g, w, SUBSET T) <=> g = F(g)
    <2> DEFINE a(s) == IF s = {} THEN 0 ELSE w[Picked(s)] + g[s \ {Picked(s)}]
               b(s) == IF s = {} THEN 0 ELSE ChannelSize(pcs[Picked(s)]) + g[s \ {Picked(s)}]
    <2>1. ASSUME NEW s \in SUBSET T PROVE a(s) = b(s)
      <3>1. s # {} => Picked(s) \in T
        BY DEF Picked
      <3>2. QED
        BY <3>1
    <2>2. [s \in SUBSET T |-> a(s)] = [s \in SUBSET T |-> b(s)]
      <3> HIDE DEF a, b
      <3>1. QED
        BY <2>1
    <2>3. QED
      BY <2>2 DEF AddsUp, Picked
  <1>3. IsFiniteSet(T)
    <2>1. T = 1..Len(pcs) /\ Len(pcs) \in Nat
      OBVIOUS
    <2>2. QED
      BY <2>1, FS_Interval
  <1>4. PICK g : AddsUp(g, w, SUBSET T)
    BY <1>3, SumExists
  <1>5. \A i \in T : IsFiniteSet(C[i]) /\ w[i] = Cardinality(C[i])
    <2> SUFFICES ASSUME NEW i \in T PROVE IsFiniteSet(all(i)) /\ ChannelSize(pcs[i]) = Cardinality(all(i))
      OBVIOUS
    <2>1. /\ IsFiniteSet(pcs[i].frames)
          /\ \A f, h \in pcs[i].frames : f.frame_number = h.frame_number => f = h
      BY DEF ChannelInv
    <2>2. \A f \in pcs[i].frames : f.frame_data_len \in Nat
      <3>1. pcs[i] \in PendingChannel
        OBVIOUS
      <3>2. QED
        BY <3>1 DEF PendingChannel, Frame
    <2>3. ChannelSize(pcs[i]) = SizeOf(pcs[i].frames)
      BY DEF ChannelSize, SizeOf
    <2>4. QED
      BY <2>1, <2>2, <2>3, FrameSum
  <1>6. \A i, j \in T : i # j => C[i] \cap C[j] = {}
    <2> SUFFICES ASSUME NEW i \in T, NEW j \in T, i # j,
                        NEW f \in pcs[i].frames, NEW h \in pcs[j].frames
                 PROVE  Cells(f) \cap Cells(h) = {}
      OBVIOUS
    <2>1. f.channel_id # h.channel_id
      BY DEF ChannelInv, UniqueIn
    <2>2. QED
      BY <2>1 DEF Cells
  <1>7. UNION {C[i] : i \in T} = UNION {Cells(f) : f \in held}
    OBVIOUS
  <1> HIDE DEF w, F, C, T
  <1>8. g = F(g)
    BY <1>2, <1>4
  <1>9. iter = F(iter)
    BY <1>8
  <1> HIDE DEF iter
  <1>10. AddsUp(iter, w, SUBSET T)
    BY <1>2, <1>9
  <1>11. AddsSizes(iter, w, C, T)
    BY <1>3, <1>5, <1>6, <1>10 DEF AddsSizes
  <1>12. /\ IsFiniteSet(UNION {C[x] : x \in T})
         /\ iter[T] = Cardinality(UNION {C[x] : x \in T})
    BY <1>11, SumCounts
  <1>13. QED
    BY <1>1, <1>7, <1>12 DEF T

-----------------------------------------------------------------------------
(* Complete channels are handed on *)

\* Where a frame s of an L1 block can be on its way to its channel: first in a
\* transaction of the mpsc channel, in a decoded transaction, in the bank.
InRx(s) ==
    \E i \in DOMAIN transaction_rx : \E j \in DOMAIN transaction_rx[i].txs :
        /\ transaction_rx[i].txs[j] # <<>>
        /\ Head(transaction_rx[i].txs[j]) # BadFrame
        /\ s = FrameOf(Head(transaction_rx[i].txs[j]), transaction_rx[i].l1_origin)

InTxs(s) == \E i \in DOMAIN txs : \E j \in DOMAIN txs[i] : s = txs[i][j]

InBank(s) == \E i \in DOMAIN frame_bank : s = frame_bank[i]

OnTheWay(s) == InRx(s) \/ InTxs(s) \/ InBank(s)

\* The pending channel of s has it, or an earlier copy of it.
Arrived(s) ==
    \E i \in DOMAIN pending_channels :
        pending_channels[i].channel_id = s.channel_id /\ HasSeen(pending_channels[i], s)

HandedOn(id) == \E ch \in emitted : ch.id = id

\* The frames a batcher made for what is on L1, and their size.
RawsOf(S) ==
    {r \in RawFrames : \E s \in S :
        s.channel_id = r.channel_id /\ s.frame_number = r.frame_number}

Fits(S) == SizeOf(RawsOf(S)) <= MaxChannelSize

\* The frames of channel id are on L1 within the timeout.
Timely(S, id) ==
    \A f, g \in S : f.channel_id = id /\ g.channel_id = id =>
        f.l1_inclusion_block - g.l1_inclusion_block <= ChannelTimeout

\* Every frame of the two stages is on L1.
FromL1 ==
    /\ IsFiniteSet(submitted)
    /\ \A s \in submitted : Submittable(s)
    /\ \A s : OnTheWay(s) => s \in submitted
    /\ \A i \in DOMAIN pending_channels : pending_channels[i].frames \subseteq submitted

\* No frame that is on L1 is lost, unless its channel was handed on.
NoneLost ==
    HonestFrames /\ Fits(submitted) =>
        \A s \in submitted :
            Timely(submitted, s.channel_id) =>
                OnTheWay(s) \/ Arrived(s) \/ HandedOn(s.channel_id)


\* The frames of honest batchers have distinct names, so their size is the number of
\* their places.
LEMMA RawsSize ==
    ASSUME NEW S, IsFiniteSet(S), \A s \in S : Submittable(s), HonestFrames
    PROVE  /\ IsFiniteSet(UNION {Cells(r) : r \in RawsOf(S)})
           /\ SizeOf(RawsOf(S)) = Cardinality(UNION {Cells(r) : r \in RawsOf(S)})
  <1> DEFINE made(s) == CHOOSE r \in RawFrames : s = FrameOf(r, s.l1_inclusion_block)
             m == [s \in S |-> made(s)]
  <1>1. ASSUME NEW s \in S, NEW r \in RawFrames,
               s.channel_id = r.channel_id, s.frame_number = r.frame_number
        PROVE  r = made(s)
    <2>1. made(s) \in RawFrames /\ s = FrameOf(made(s), s.l1_inclusion_block)
      BY DEF Submittable
    <2> HIDE DEF made
    <2>2. made(s).channel_id = r.channel_id /\ made(s).frame_number = r.frame_number
      BY <1>1, <2>1 DEF FrameOf
    <2>3. QED
      BY <2>1, <2>2 DEF HonestFrames
  <1>2. RawsOf(S) \subseteq {m[s] : s \in S}
    <2> SUFFICES ASSUME NEW r \in RawsOf(S) PROVE \E s \in S : r = m[s]
      OBVIOUS
    <2>1. PICK s \in S : r \in RawFrames /\ s.channel_id = r.channel_id
                         /\ s.frame_number = r.frame_number
      BY DEF RawsOf
    <2>2. QED
      BY <1>1, <2>1
  <1>3. IsFiniteSet(RawsOf(S))
    <2>1. m \in Surjection(S, {m[s] : s \in S})
      BY DEF Surjection
    <2>2. IsFiniteSet({m[s] : s \in S})
      BY <2>1, FS_Surjection
    <2>3. QED
      BY <1>2, <2>2, FS_Subset
  <1>4. \A r \in RawsOf(S) : r.frame_data_len \in Nat
    BY FramesAssumption DEF RawsOf, RawFrame
  <1>5. \A r, q \in RawsOf(S) :
          r.channel_id = q.channel_id /\ r.frame_number = q.frame_number => r = q
    BY DEF RawsOf, HonestFrames
  <1>6. QED
    BY <1>3, <1>4, <1>5, FrameSum

\* More frames on L1 take no less room.
LEMMA SizeGrows ==
    ASSUME NEW S, NEW R, S \subseteq R, IsFiniteSet(R), \A s \in R : Submittable(s),
           HonestFrames, Fits(R)
    PROVE  Fits(S)
  <1> DEFINE a == UNION {Cells(r) : r \in RawsOf(S)}
             b == UNION {Cells(r) : r \in RawsOf(R)}
  <1>1. IsFiniteSet(S) /\ \A s \in S : Submittable(s)
    BY FS_Subset
  <1>2. IsFiniteSet(a) /\ SizeOf(RawsOf(S)) = Cardinality(a)
    BY <1>1, RawsSize
  <1>3. IsFiniteSet(b) /\ SizeOf(RawsOf(R)) = Cardinality(b)
    BY RawsSize
  <1>4. a \subseteq b
    <2>1. RawsOf(S) \subseteq RawsOf(R)
      BY DEF RawsOf
    <2>2. QED
      BY <2>1
  <1> HIDE DEF a, b
  <1>5. Cardinality(a) \in Nat /\ Cardinality(b) \in Nat /\ Cardinality(a) <= Cardinality(b)
    BY <1>2, <1>3, <1>4, FS_Subset, FS_CardinalityType
  <1>6. QED
    BY <1>2, <1>3, <1>5, ConstantsAssumption DEF Fits

\* The bank never holds more than what is on L1, however often it was submitted: every
\* frame is held once.
LEMMA BankFits ==
    ASSUME IndInv, FromL1, HonestFrames, Fits(submitted)
    PROVE  ~(TotalSize(pending_channels) > MaxChannelSize)
  <1> DEFINE p == pending_channels
             held == UNION {p[i].frames : i \in DOMAIN p}
             a == UNION {Cells(f) : f \in held}
             b == UNION {Cells(r) : r \in RawsOf(submitted)}
  <1>1. IsFiniteSet(a) /\ TotalSize(p) = Cardinality(a)
    <2>1. p \in Seq(PendingChannel) /\ UniqueIn(p) /\ \A i \in DOMAIN p : ChannelInv(p[i])
      BY DEF IndInv, TypeOK, BankInv, UniqueIds, UniqueIn
    <2> HIDE DEF p
    <2>2. QED
      BY <2>1, TotalSum
  <1>2. IsFiniteSet(b) /\ SizeOf(RawsOf(submitted)) = Cardinality(b)
    BY RawsSize DEF FromL1
  <1>3. a \subseteq b
    <2> SUFFICES ASSUME NEW i \in DOMAIN p, NEW f \in p[i].frames
                 PROVE  \E r \in RawsOf(submitted) : Cells(f) = Cells(r)
      OBVIOUS
    <2>1. f \in submitted /\ Submittable(f)
      BY DEF FromL1
    <2>2. PICK r \in RawFrames : f = FrameOf(r, f.l1_inclusion_block)
      BY <2>1 DEF Submittable
    <2>3. /\ f.channel_id = r.channel_id /\ f.frame_number = r.frame_number
          /\ f.frame_data_len = r.frame_data_len
      BY <2>2 DEF FrameOf
    <2>4. r \in RawsOf(submitted)
      BY <2>1, <2>3 DEF RawsOf
    <2>5. Cells(f) = Cells(r)
      BY <2>3 DEF Cells
    <2>6. QED
      BY <2>4, <2>5
  <1> HIDE DEF a, b
  <1>4. Cardinality(a) \in Nat /\ Cardinality(b) \in Nat /\ Cardinality(a) <= Cardinality(b)
    BY <1>1, <1>2, <1>3, FS_Subset, FS_CardinalityType
  <1>5. QED
    BY <1>1, <1>2, <1>4, ConstantsAssumption DEF Fits


\* Frame s is the first of transaction tx of L1 block n.
FirstOf(tx, n, s) == tx # <<>> /\ Head(tx) # BadFrame /\ s = FrameOf(Head(tx), n)

\* What push_batcher_transactions puts on the way.
LEMMA PushWay ==
    ASSUME IndInv, NEW block \in BlockTxs, PushBatcherTransactions(block), NEW s
    PROVE  OnTheWay(s)' <=>
             OnTheWay(s) \/ \E j \in DOMAIN block : FirstOf(block[j], l1_block + 1, s)
  <1> DEFINE rx == transaction_rx
             msg == [txs |-> block, l1_origin |-> l1_block + 1]
             n == Len(rx)
  <1>1. msg.txs = block /\ msg.l1_origin = l1_block + 1
    OBVIOUS
  <1>2. msg \in Message
    BY BlockTxsAssumption DEF IndInv, TypeOK, Message
  <1> HIDE DEF msg
  <1>3. rx \in Seq(Message) /\ rx' = Append(rx, msg) /\ UNCHANGED <<txs, frame_bank>>
    BY DEF PushBatcherTransactions, IndInv, TypeOK, msg
  <1>4. /\ n \in Nat /\ DOMAIN rx = 1..n /\ DOMAIN rx' = 1..(n + 1)
        /\ \A i \in 1..n : rx'[i] = rx[i]
        /\ rx'[n + 1] = msg
    BY <1>2, <1>3
  <1>5. DOMAIN rx' = DOMAIN rx \cup {n + 1}
    BY <1>4
  <1>6. InRx(s)' <=> InRx(s) \/ \E j \in DOMAIN block : FirstOf(block[j], l1_block + 1, s)
    BY <1>1, <1>4, <1>5 DEF InRx, FirstOf
  <1>7. (InTxs(s)' <=> InTxs(s)) /\ (InBank(s)' <=> InBank(s))
    BY <1>3 DEF InTxs, InBank
  <1>8. QED
    BY <1>6, <1>7 DEF OnTheWay

\* process_incoming takes the first frame of a transaction with it.
LEMMA IncomingWay ==
    ASSUME IndInv, ProcessIncoming, NEW s
    PROVE  OnTheWay(s)' <=> OnTheWay(s)
  <1> DEFINE rx == transaction_rx
             msg == Head(rx)
  <1>1. /\ UNCHANGED frame_bank /\ rx # <<>> /\ rx \in Seq(Message)
        /\ txs \in Seq(Seq(Frame))
    BY DEF ProcessIncoming, IndInv, TypeOK
  <1>2. /\ msg = rx[1] /\ 1 \in DOMAIN rx /\ msg \in Message
        /\ msg.txs \in Seq(RawTx) /\ msg.l1_origin \in Nat
    <2>1. msg = rx[1] /\ 1 \in DOMAIN rx /\ msg \in Message
      BY <1>1
    <2>2. QED
      BY <2>1 DEF Message
  <1>3. InBank(s)' <=> InBank(s)
    BY <1>1 DEF InBank
  <1>4. CASE msg.txs = <<>> /\ rx' = Tail(rx) /\ UNCHANGED txs
    <2> DEFINE n == Len(rx)
    <2>1. /\ n \in Nat /\ n >= 1 /\ DOMAIN rx = 1..n /\ DOMAIN rx' = 1..(n - 1)
          /\ \A i \in 1..(n - 1) : rx'[i] = rx[i + 1]
      BY <1>1, <1>4
    <2>2. rx[1].txs = <<>>
      BY <1>2, <1>4
    <2> HIDE DEF n, msg
    <2>3. \A i \in 1..(n - 1) : i + 1 \in 1..n
      BY <2>1
    <2>4. \A i \in 1..n : i = 1 \/ (i - 1 \in 1..(n - 1) /\ (i - 1) + 1 = i)
      BY <2>1
    <2>5. InRx(s)' => InRx(s)
      BY <2>1, <2>3 DEF InRx
    <2>6. InRx(s) => InRx(s)'
      <3> SUFFICES ASSUME InRx(s) PROVE InRx(s)'
        OBVIOUS
      <3>1. PICK i \in DOMAIN rx : \E j \in DOMAIN rx[i].txs :
              /\ rx[i].txs[j] # <<>> /\ Head(rx[i].txs[j]) # BadFrame
              /\ s = FrameOf(Head(rx[i].txs[j]), rx[i].l1_origin)
        BY DEF InRx
      <3>2. i # 1
        BY <2>2, <3>1
      <3>3. i - 1 \in DOMAIN rx' /\ rx'[i - 1] = rx[i]
        BY <2>1, <2>4, <3>2
      <3>4. QED
        BY <3>1, <3>3 DEF InRx
    <2>7. InTxs(s)' <=> InTxs(s)
      BY <1>4 DEF InTxs
    <2>8. QED
      BY <1>3, <2>5, <2>6, <2>7 DEF OnTheWay
  <1>5. CASE msg.txs # <<>> /\ rx' = <<[txs |-> Tail(msg.txs), l1_origin |-> msg.l1_origin]>> \o Tail(rx)
             /\ txs' = IF Decodable(Head(msg.txs))
                       THEN Append(txs, BatcherTransaction(Head(msg.txs), msg.l1_origin))
                       ELSE txs
    <2> DEFINE left == [txs |-> Tail(msg.txs), l1_origin |-> msg.l1_origin]
               tx == Head(msg.txs)
               q == msg.txs
               o == msg.l1_origin
               k == Len(q)
    <2>1. left.txs = Tail(q) /\ left.l1_origin = o
      OBVIOUS
    <2>2. tx \in RawTx /\ Tail(q) \in Seq(RawTx) /\ q \in Seq(RawTx) /\ tx = q[1]
          /\ k \in Nat /\ k >= 1 /\ DOMAIN q = 1..k /\ DOMAIN Tail(q) = 1..(k - 1)
          /\ \A j \in 1..(k - 1) : Tail(q)[j] = q[j + 1]
      BY <1>2, <1>5
    <2>3. left \in Message
      BY <1>2, <2>2 DEF Message
    <2>4. rx' = <<left>> \o Tail(rx)
      BY <1>5
    <2> HIDE DEF left
    <2>5. /\ DOMAIN rx' = DOMAIN rx
          /\ \A i \in DOMAIN rx : rx'[i] = IF i = 1 THEN left ELSE rx[i]
      BY <1>1, <2>3, <2>4, ReplaceHead
    <2>6. rx[1].txs = q /\ rx[1].l1_origin = o
      BY <1>2
    <2>7. InTxs(s)' <=> InTxs(s) \/ FirstOf(tx, o, s)
      <3> DEFINE b == BatcherTransaction(tx, o)
      <3>1. CASE tx = <<>>
        <4>1. ParsedFrames(tx) = <<>>
          BY <3>1 DEF ParsedFrames
        <4>2. Decodable(tx)
          BY <4>1 DEF Decodable, Range
        <4>3. b = <<>>
          BY <4>1 DEF BatcherTransaction
        <4>4. txs' = Append(txs, <<>>)
          BY <1>5, <4>2, <4>3
        <4>5. /\ DOMAIN txs = 1..Len(txs) /\ Len(txs) \in Nat /\ DOMAIN txs' = 1..(Len(txs) + 1)
              /\ \A j \in 1..Len(txs) : txs'[j] = txs[j]
              /\ txs'[Len(txs) + 1] = <<>>
          BY <1>1, <4>4
        <4>6. DOMAIN txs' = DOMAIN txs \cup {Len(txs) + 1}
          BY <4>5
        <4>7. QED
          BY <3>1, <4>5, <4>6 DEF InTxs, FirstOf
      <3>2. CASE tx # <<>> /\ Head(tx) = BadFrame
        <4>1. ~Decodable(tx)
          BY <3>2 DEF ParsedFrames, Decodable, Range
        <4>2. QED
          BY <1>5, <3>2, <4>1 DEF InTxs, FirstOf
      <3>3. CASE tx # <<>> /\ Head(tx) # BadFrame
        <4>1. ParsedFrames(tx) = <<Head(tx)>>
          BY <3>3 DEF ParsedFrames
        <4>2. Decodable(tx)
          BY <3>3, <4>1 DEF Decodable, Range
        <4>3. b \in Seq(Frame)
          BY <1>2, <2>2, <4>2, DecodedFrames
        <4>4. DOMAIN b = 1..1 /\ b[1] = FrameOf(Head(tx), o)
          BY <4>1 DEF BatcherTransaction
        <4> HIDE DEF b
        <4>5. txs' = Append(txs, b)
          BY <1>5, <4>2 DEF b
        <4>6. /\ DOMAIN txs = 1..Len(txs) /\ Len(txs) \in Nat /\ DOMAIN txs' = 1..(Len(txs) + 1)
              /\ \A j \in 1..Len(txs) : txs'[j] = txs[j]
              /\ txs'[Len(txs) + 1] = b
          BY <1>1, <4>3, <4>5, AppendProperties
        <4>7. DOMAIN txs' = DOMAIN txs \cup {Len(txs) + 1} /\ DOMAIN b = {1}
          BY <4>4, <4>6
        <4>8. (\E j \in DOMAIN b : s = b[j]) <=> FirstOf(tx, o, s)
          BY <3>3, <4>4, <4>7 DEF FirstOf
        <4>9. QED
          BY <4>6, <4>7, <4>8 DEF InTxs
      <3>4. QED
        BY <3>1, <3>2, <3>3
    <2>8. InRx(s) <=> InRx(s)' \/ FirstOf(tx, o, s)
      <3> DEFINE have(i) == \E j \in DOMAIN rx[i].txs : FirstOf(rx[i].txs[j], rx[i].l1_origin, s)
                 keep(i) == \E j \in DOMAIN rx'[i].txs : FirstOf(rx'[i].txs[j], rx'[i].l1_origin, s)
      <3>1. InRx(s) <=> \E i \in DOMAIN rx : have(i)
        BY DEF InRx, FirstOf
      <3>2. InRx(s)' <=> \E i \in DOMAIN rx : keep(i)
        BY <2>5 DEF InRx, FirstOf
      <3>3. \A i \in DOMAIN rx : i # 1 => (have(i) <=> keep(i))
        BY <2>5
      <3>4. have(1) <=> \E j \in 1..k : FirstOf(q[j], o, s)
        BY <2>2, <2>6
      <3>5. keep(1) <=> \E j \in 1..(k - 1) : FirstOf(q[j + 1], o, s)
        <4>1. rx'[1].txs = Tail(q) /\ rx'[1].l1_origin = o
          BY <1>2, <2>1, <2>5
        <4>2. keep(1) <=> \E j \in DOMAIN Tail(q) : FirstOf(Tail(q)[j], o, s)
          BY <4>1
        <4> HIDE DEF keep, q, o, k
        <4>3. QED
          BY <2>2, <4>2
      <3> HIDE DEF have, keep, q, o, k, tx
      <3>6. \A j \in 1..k : j = 1 \/ (j - 1 \in 1..(k - 1) /\ (j - 1) + 1 = j)
        BY <2>2
      <3>7. 1 \in 1..k /\ \A j \in 1..(k - 1) : j + 1 \in 1..k
        BY <2>2
      <3>8. have(1) <=> keep(1) \/ FirstOf(tx, o, s)
        <4>1. have(1) => keep(1) \/ FirstOf(tx, o, s)
          BY <2>2, <3>4, <3>5, <3>6
        <4>2. keep(1) => have(1)
          BY <3>4, <3>5, <3>7
        <4>3. FirstOf(tx, o, s) => have(1)
          BY <2>2, <3>4, <3>7
        <4>4. QED
          BY <4>1, <4>2, <4>3
      <3>9. QED
        BY <1>2, <3>1, <3>2, <3>3, <3>8
    <2>9. QED
      BY <1>3, <2>7, <2>8 DEF OnTheWay
  <1>6. QED
    BY <1>4, <1>5 DEF ProcessIncoming

\* fill_bank moves the frames of a transaction to the bank.
LEMMA FillWay ==
    ASSUME IndInv, FillBank, NEW s
    PROVE  OnTheWay(s)' <=> OnTheWay(s)
  <1>1. /\ UNCHANGED transaction_rx
        /\ txs \in Seq(Seq(Frame)) /\ frame_bank \in Seq(Frame)
    BY DEF FillBank, IndInv, TypeOK
  <1>2. InRx(s)' <=> InRx(s)
    BY <1>1 DEF InRx
  <1>3. CASE UNCHANGED <<txs, frame_bank>>
    BY <1>2, <1>3 DEF OnTheWay, InTxs, InBank
  <1>4. CASE txs # <<>> /\ frame_bank' = frame_bank \o Head(txs) /\ txs' = Tail(txs)
    <2> DEFINE h == Head(txs)
               n == Len(frame_bank)
               k == Len(txs)
    <2>1. /\ h \in Seq(Frame) /\ h = txs[1] /\ k \in Nat /\ k >= 1
          /\ DOMAIN txs = 1..k /\ DOMAIN txs' = 1..(k - 1)
          /\ \A j \in 1..(k - 1) : txs'[j] = txs[j + 1]
      BY <1>1, <1>4
    <2> HIDE DEF h
    <2>2. frame_bank' = frame_bank \o h
      BY <1>4 DEF h
    <2>3. /\ n \in Nat /\ DOMAIN frame_bank = 1..n
          /\ Len(h) \in Nat /\ DOMAIN h = 1..Len(h) /\ DOMAIN frame_bank' = 1..(n + Len(h))
          /\ \A i \in 1..n : frame_bank'[i] = frame_bank[i]
          /\ \A i \in 1..Len(h) : frame_bank'[n + i] = h[i]
      BY <1>1, <2>1, <2>2
    <2> HIDE DEF n, k
    <2>4. /\ \A i \in 1..(n + Len(h)) : i \in 1..n \/ (i - n \in 1..Len(h) /\ n + (i - n) = i)
          /\ \A i \in 1..n : i \in 1..(n + Len(h))
          /\ \A i \in 1..Len(h) : n + i \in 1..(n + Len(h))
      BY <2>3
    <2>5. InBank(s)' <=> InBank(s) \/ \E i \in DOMAIN h : s = h[i]
      <3>1. ASSUME InBank(s) PROVE InBank(s)'
        BY <2>3, <2>4, <3>1 DEF InBank
      <3>2. ASSUME NEW i \in DOMAIN h, s = h[i] PROVE InBank(s)'
        <4>1. n + i \in DOMAIN frame_bank' /\ s = frame_bank'[n + i]
          BY <2>3, <2>4, <3>2
        <4>2. QED
          BY <4>1 DEF InBank
      <3>3. ASSUME NEW i \in DOMAIN frame_bank', s = frame_bank'[i]
            PROVE  InBank(s) \/ \E j \in DOMAIN h : s = h[j]
        <4>1. CASE i \in 1..n
          BY <2>3, <3>3, <4>1 DEF InBank
        <4>2. CASE i \notin 1..n
          <5>1. i - n \in DOMAIN h /\ s = h[i - n]
            BY <2>3, <2>4, <3>3, <4>2
          <5>2. QED
            BY <5>1
        <4>3. QED
          BY <4>1, <4>2
      <3>4. QED
        BY <3>1, <3>2, <3>3 DEF InBank
    <2>6. /\ \A j \in 1..k : j = 1 \/ (j - 1 \in 1..(k - 1) /\ (j - 1) + 1 = j)
          /\ 1 \in 1..k /\ \A j \in 1..(k - 1) : j + 1 \in 1..k
      BY <2>1
    <2>7. InTxs(s) <=> InTxs(s)' \/ \E i \in DOMAIN h : s = h[i]
      <3>1. ASSUME NEW i \in DOMAIN h, s = h[i] PROVE InTxs(s)
        BY <2>1, <2>6, <3>1 DEF InTxs
      <3>2. ASSUME NEW i \in DOMAIN txs', NEW j \in DOMAIN txs'[i], s = txs'[i][j] PROVE InTxs(s)
        <4>1. i + 1 \in DOMAIN txs /\ txs'[i] = txs[i + 1]
          BY <2>1, <2>6
        <4>2. QED
          BY <3>2, <4>1 DEF InTxs
      <3>3. ASSUME NEW i \in DOMAIN txs, NEW j \in DOMAIN txs[i], s = txs[i][j]
            PROVE  InTxs(s)' \/ \E m \in DOMAIN h : s = h[m]
        <4>1. CASE i = 1
          BY <2>1, <3>3, <4>1
        <4>2. CASE i # 1
          <5>1. i - 1 \in DOMAIN txs' /\ txs'[i - 1] = txs[i]
            BY <2>1, <2>6, <4>2
          <5>2. QED
            BY <3>3, <5>1 DEF InTxs
        <4>3. QED
          BY <4>1, <4>2
      <3>4. QED
        BY <3>1, <3>2, <3>3 DEF InTxs
    <2>8. QED
      BY <1>2, <2>5, <2>7 DEF OnTheWay
  <1>5. QED
    BY <1>3, <1>4 DEF FillBank

\* process_frames takes one frame out of the bank.
LEMMA FrameWay ==
    ASSUME IndInv, ProcessFrame, NEW s
    PROVE  OnTheWay(s) <=> OnTheWay(s)' \/ s = Head(frame_bank)
  <1> DEFINE k == Len(frame_bank)
  <1>1. /\ UNCHANGED <<transaction_rx, txs>> /\ frame_bank # <<>>
        /\ frame_bank \in Seq(Frame) /\ frame_bank' = Tail(frame_bank)
    BY DEF ProcessFrame, IndInv, TypeOK
  <1>2. /\ Head(frame_bank) = frame_bank[1] /\ k \in Nat /\ k >= 1
        /\ DOMAIN frame_bank = 1..k /\ DOMAIN frame_bank' = 1..(k - 1)
        /\ \A j \in 1..(k - 1) : frame_bank'[j] = frame_bank[j + 1]
    BY <1>1
  <1> HIDE DEF k
  <1>3. /\ \A j \in 1..k : j = 1 \/ (j - 1 \in 1..(k - 1) /\ (j - 1) + 1 = j)
        /\ 1 \in 1..k /\ \A j \in 1..(k - 1) : j + 1 \in 1..k
    BY <1>2
  <1>4. InBank(s) <=> InBank(s)' \/ s = Head(frame_bank)
    BY <1>2, <1>3 DEF InBank
  <1>5. (InRx(s)' <=> InRx(s)) /\ (InTxs(s)' <=> InTxs(s))
    BY <1>1 DEF InRx, InTxs
  <1>6. QED
    BY <1>4, <1>5 DEF OnTheWay


-----------------------------------------------------------------------------
(* Every frame on L1 arrives *)

\* A transaction has at most one frame; BatcherTransaction::new parses no more.
OneFrameEach == \A block \in BlockTxs : \A i \in DOMAIN block : Len(block[i]) <= 1

\* Every frame of an L1 block is then the first of its transaction.
LEMMA NewSubmitted ==
    ASSUME IndInv, OneFrameEach, NEW block \in BlockTxs, PushBatcherTransactions(block)
    PROVE  /\ submitted \subseteq submitted'
           /\ IsFiniteSet(submitted) => IsFiniteSet(submitted')
           /\ \A s \in submitted' :
                s \in submitted \/ \E j \in DOMAIN block : FirstOf(block[j], l1_block + 1, s)
           /\ \A s : (\E j \in DOMAIN block : FirstOf(block[j], l1_block + 1, s)) =>
                s \in submitted' /\ Submittable(s)
  <1> DEFINE n == l1_block + 1
             raws == (UNION {Range(block[i]) : i \in DOMAIN block}) \ {BadFrame}
             new == {FrameOf(f, n) : f \in raws}
  <1>1. submitted' = submitted \cup new
    BY DEF PushBatcherTransactions
  <1>2. /\ block \in Seq(RawTx) /\ n \in Nat
        /\ DOMAIN block = 1..Len(block) /\ Len(block) \in Nat
        /\ \A j \in DOMAIN block : block[j] \in Seq(RawFrames \cup {BadFrame})
    <2>1. block \in Seq(RawTx) /\ n \in Nat
      BY BlockTxsAssumption DEF IndInv, TypeOK
    <2>2. QED
      BY <2>1 DEF RawTx
  <1>3. \A j \in DOMAIN block : Len(block[j]) <= 1
    BY DEF OneFrameEach
  <1>4. ASSUME NEW j \in DOMAIN block, NEW f \in Range(block[j])
        PROVE  block[j] # <<>> /\ f = Head(block[j])
    <2>1. PICK tx \in Seq(RawFrames \cup {BadFrame}) : tx = block[j]
      BY <1>2
    <2>2. Len(tx) <= 1 /\ Len(tx) \in Nat /\ DOMAIN tx = 1..Len(tx)
      BY <1>3, <2>1
    <2>3. PICK i \in DOMAIN tx : f = tx[i]
      BY <1>4, <2>1 DEF Range
    <2>4. Len(tx) = 1 /\ i = 1
      BY <2>2, <2>3
    <2>5. tx # <<>> /\ Head(tx) = tx[1]
      <3>1. tx # <<>>
        BY <2>4, EmptySeq
      <3>2. QED
        BY <3>1
    <2>6. QED
      BY <2>1, <2>3, <2>4, <2>5
  <1>5. ASSUME NEW j \in DOMAIN block, block[j] # <<>>
        PROVE  Head(block[j]) \in Range(block[j]) /\ Head(block[j]) \in RawFrames \cup {BadFrame}
    <2>1. PICK tx \in Seq(RawFrames \cup {BadFrame}) : tx = block[j]
      BY <1>2
    <2>2. Head(tx) = tx[1] /\ 1 \in DOMAIN tx /\ tx[1] \in RawFrames \cup {BadFrame}
      BY <1>5, <2>1
    <2>3. QED
      BY <2>1, <2>2 DEF Range
  <1>6. ASSUME NEW s \in new PROVE \E j \in DOMAIN block : FirstOf(block[j], n, s)
    <2>1. PICK f \in raws : s = FrameOf(f, n)
      BY <1>6
    <2>2. PICK j \in DOMAIN block : f \in Range(block[j]) /\ f # BadFrame
      BY <2>1
    <2>3. QED
      BY <1>4, <2>1, <2>2 DEF FirstOf
  <1>7. ASSUME NEW s, NEW j \in DOMAIN block, FirstOf(block[j], n, s)
        PROVE  s \in new /\ Submittable(s)
    <2>1. PICK f : f = Head(block[j]) /\ f # BadFrame /\ s = FrameOf(f, n) /\ block[j] # <<>>
      BY <1>7 DEF FirstOf
    <2>2. f \in Range(block[j]) /\ f \in RawFrames
      BY <1>5, <2>1
    <2>3. f \in raws
      BY <2>1, <2>2
    <2>4. QED
      BY <1>2, <2>1, <2>2, <2>3, FrameOfType
  <1>8. IsFiniteSet(new)
    <2> DEFINE m == [j \in DOMAIN block |-> FrameOf(Head(block[j]), n)]
    <2>1. IsFiniteSet(DOMAIN block)
      BY <1>2, FS_Interval
    <2>2. m \in Surjection(DOMAIN block, {m[j] : j \in DOMAIN block})
      BY DEF Surjection
    <2>3. IsFiniteSet({m[j] : j \in DOMAIN block})
      BY <2>1, <2>2, FS_Surjection
    <2>4. new \subseteq {m[j] : j \in DOMAIN block}
      BY <1>6 DEF FirstOf
    <2> HIDE DEF new, m
    <2>5. QED
      BY <2>3, <2>4, FS_Subset
  <1> HIDE DEF new, n
  <1>9. IsFiniteSet(submitted) => IsFiniteSet(submitted')
    BY <1>1, <1>8, FS_Union
  <1>10. QED
    BY <1>1, <1>6, <1>7, <1>9 DEF n

\* Every frame of the stages stays one that is on L1.
LEMMA FromL1Step == OneFrameEach /\ IndInv /\ FromL1 /\ [Next]_vars => FromL1'
  <1> SUFFICES ASSUME OneFrameEach, IndInv, FromL1, [Next]_vars PROVE FromL1'
    OBVIOUS
  <1>1. ASSUME NEW block \in BlockTxs, PushBatcherTransactions(block) PROVE FromL1'
    <2>1. UNCHANGED pending_channels
      BY <1>1 DEF PushBatcherTransactions
    <2>2. IsFiniteSet(submitted') /\ submitted \subseteq submitted'
          /\ \A s \in submitted' : Submittable(s)
      BY <1>1, NewSubmitted DEF FromL1
    <2>3. ASSUME NEW s, OnTheWay(s)' PROVE s \in submitted'
      BY <1>1, <2>3, NewSubmitted, PushWay DEF FromL1
    <2>4. \A i \in DOMAIN pending_channels' : pending_channels'[i].frames \subseteq submitted'
      BY <2>1, <2>2 DEF FromL1
    <2>5. QED
      BY <2>2, <2>3, <2>4 DEF FromL1
  <1>2. ASSUME NEW start \in 0..l1_block, Purge(start) PROVE FromL1'
    BY <1>2, FS_EmptySet DEF Purge, FromL1, OnTheWay, InRx, InTxs, InBank
  <1>3. CASE UNCHANGED <<transaction_rx, txs, frame_bank, pending_channels, submitted>>
    BY <1>3 DEF FromL1, OnTheWay, InRx, InTxs, InBank
  <1>4. CASE ProcessIncoming
    <2>1. UNCHANGED <<pending_channels, submitted>>
      BY <1>4 DEF ProcessIncoming
    <2>2. ASSUME NEW s, OnTheWay(s)' PROVE s \in submitted'
      BY <1>4, <2>1, <2>2, IncomingWay DEF FromL1
    <2>3. QED
      BY <2>1, <2>2 DEF FromL1
  <1>5. CASE FillBank
    <2>1. UNCHANGED <<pending_channels, submitted>>
      BY <1>5 DEF FillBank
    <2>2. ASSUME NEW s, OnTheWay(s)' PROVE s \in submitted'
      BY <1>5, <2>1, <2>2, FillWay DEF FromL1
    <2>3. QED
      BY <2>1, <2>2 DEF FromL1
  <1>6. CASE ProcessFrame
    <2> DEFINE f == Head(frame_bank)
    <2>1. /\ UNCHANGED submitted /\ PushFrame(f) /\ f \in Frame
          /\ pending_channels \in Seq(PendingChannel) /\ UniqueIds
      BY <1>6 DEF ProcessFrame, IndInv, TypeOK, BankInv
    <2>2. OnTheWay(f)
      BY <1>6, FrameWay
    <2> HIDE DEF f
    <2>3. f \in submitted
      BY <2>2 DEF FromL1
    <2>4. ASSUME NEW s, OnTheWay(s)' PROVE s \in submitted'
      BY <1>6, <2>1, <2>4, FrameWay DEF FromL1
    <2>5. \A i \in DOMAIN pending_channels' : pending_channels'[i].frames \subseteq submitted
      BY <2>1, <2>3, PushFrameHeld DEF FromL1
    <2>6. QED
      BY <2>1, <2>4, <2>5 DEF FromL1
  <1>7. CASE Prune \/ FetchReadyChannel
    <2>1. UNCHANGED <<transaction_rx, txs, frame_bank, submitted>>
      BY <1>7 DEF Prune, FetchReadyChannel
    <2>2. \A k \in DOMAIN pending_channels' : \E j \in DOMAIN pending_channels :
            pending_channels'[k] = pending_channels[j]
      BY <1>7, ShrinkHeld DEF IndInv, TypeOK, BankInv
    <2>3. \A i \in DOMAIN pending_channels' : pending_channels'[i].frames \subseteq submitted
      BY <2>2 DEF FromL1
    <2>4. QED
      BY <2>1, <2>3 DEF FromL1, OnTheWay, InRx, InTxs, InBank
  <1>8. QED
    BY <1>1, <1>2, <1>3, <1>4, <1>5, <1>6, <1>7
       DEF Next, ChannelsNext, CallNext, ReturnNone, vars


\* Removing a channel keeps the others.
LEMMA RemoveKeeps ==
    ASSUME NEW pcs \in Seq(PendingChannel), NEW i \in DOMAIN pcs, NEW j \in DOMAIN pcs, j # i
    PROVE  \E k \in DOMAIN RemoveAt(pcs, i) : RemoveAt(pcs, i)[k] = pcs[j]
  <1>1. PICK n \in Nat : n = Len(pcs) /\ DOMAIN pcs = 1..n
    OBVIOUS
  <1>2. PICK rest \in Seq(PendingChannel) :
          /\ rest = RemoveAt(pcs, i)
          /\ Len(rest) = n - 1
          /\ \A k \in 1..(n - 1) : rest[k] = pcs[IF k < i THEN k ELSE k + 1]
    BY <1>1, RemoveAtFacts
  <1>3. DOMAIN rest = 1..(n - 1)
    BY <1>1, <1>2
  <1>4. CASE j < i
    <2>1. j \in 1..(n - 1)
      BY <1>1, <1>4
    <2>2. QED
      BY <1>2, <1>3, <1>4, <2>1
  <1>5. CASE ~(j < i)
    <2>1. j - 1 \in 1..(n - 1) /\ ~(j - 1 < i) /\ (j - 1) + 1 = j
      BY <1>1, <1>5
    <2>2. QED
      BY <1>2, <1>3, <2>1
  <1>6. QED
    BY <1>4, <1>5

\* push_frame times a channel out only if its frames are too far apart on L1, so a frame
\* of a timely channel arrives, and the ones that had arrived stay.
LEMMA PushArrives ==
    ASSUME IndInv, FromL1, ProcessFrame, NEW s, Timely(submitted, s.channel_id),
           s = Head(frame_bank) \/ Arrived(s)
    PROVE  Arrived(s)'
  <1> DEFINE p == pending_channels
             known == IndicesOf(p, Head(frame_bank).channel_id)
  <1>1. PICK f \in Frame : f = Head(frame_bank)
    BY DEF ProcessFrame, IndInv, TypeOK
  <1>2. /\ p \in Seq(PendingChannel) /\ UniqueIn(p) /\ PushFrame(f)
        /\ \A i \in DOMAIN p : p[i] \in PendingChannel /\ ChannelInv(p[i])
    BY <1>1 DEF ProcessFrame, IndInv, TypeOK, BankInv, UniqueIds, UniqueIn
  <1>3. OnTheWay(f)
    BY <1>1, FrameWay
  <1>4. f \in submitted
    BY <1>3 DEF FromL1
  <1>5. CASE known = {} /\ p' = Append(p, NewPendingChannel(f))
    <2>1. PICK c : c = NewPendingChannel(f)
      OBVIOUS
    <2>2. c.channel_id = f.channel_id /\ c.frames = {f}
      BY <2>1 DEF NewPendingChannel
    <2>3. PICK n \in Nat : n = Len(p) /\ DOMAIN p = 1..n
      BY <1>2
    <2>4. /\ DOMAIN p' = 1..(n + 1) /\ p'[n + 1] = c
          /\ \A k \in 1..n : p'[k] = p[k] /\ k \in 1..(n + 1)
      BY <1>2, <1>5, <2>1, <2>3
    <2>5. n + 1 \in DOMAIN p'
      BY <2>3, <2>4
    <2>6. CASE s = f
      <3>1. HasSeen(c, s) /\ c.channel_id = s.channel_id
        BY <2>2, <2>6 DEF HasSeen
      <3>2. QED
        BY <2>4, <2>5, <3>1 DEF Arrived, HasSeen
    <2>7. CASE Arrived(s)
      BY <2>3, <2>4, <2>7 DEF Arrived, HasSeen
    <2>8. QED
      BY <1>1, <2>6, <2>7
  <1>6. ASSUME NEW i \in known,
               p' = IF IsTimedOut(AddFrame(p[i], f)) THEN RemoveAt(p, i)
                    ELSE [p EXCEPT ![i] = AddFrame(p[i], f)]
        PROVE  Arrived(s)'
    <2>1. i \in DOMAIN p /\ p[i].channel_id = f.channel_id
      BY <1>1 DEF IndicesOf
    <2>2. PICK c : c = AddFrame(p[i], f)
      OBVIOUS
    <2>3. /\ c.channel_id = f.channel_id
          /\ p[i].frames \subseteq c.frames
          /\ c.frames \subseteq p[i].frames \cup {f}
          /\ \E g \in c.frames : g.frame_number = f.frame_number
          /\ \E g \in c.frames : g.l1_inclusion_block = c.highest_l1_block
          /\ \E g \in c.frames : g.l1_inclusion_block = c.lowest_l1_block
      <3>1. ChannelInv(p[i])
        BY <1>2, <2>1
      <3>2. PICK g \in p[i].frames : g.l1_inclusion_block = p[i].highest_l1_block
        BY <3>1 DEF ChannelInv
      <3>3. PICK h \in p[i].frames : h.l1_inclusion_block = p[i].lowest_l1_block
        BY <3>1 DEF ChannelInv
      <3>4. CASE HasSeen(p[i], f)
        BY <2>1, <2>2, <3>2, <3>3, <3>4 DEF AddFrame, HasSeen
      <3>5. CASE ~HasSeen(p[i], f)
        <4>1. /\ c.channel_id = p[i].channel_id /\ c.frames = p[i].frames \cup {f}
              /\ c.highest_l1_block \in {f.l1_inclusion_block, p[i].highest_l1_block}
              /\ c.lowest_l1_block \in {f.l1_inclusion_block, p[i].lowest_l1_block}
          BY <2>2, <3>5 DEF AddFrame
        <4>2. QED
          BY <2>1, <3>2, <3>3, <4>1
      <3>6. QED
        BY <3>4, <3>5
    <2>4. ASSUME s.channel_id = f.channel_id PROVE ~IsTimedOut(c)
      <3>1. \A g \in c.frames : g \in submitted /\ g.channel_id = f.channel_id
        BY <1>2, <1>4, <2>1, <2>3 DEF FromL1, ChannelInv
      <3>2. PICK g \in c.frames : g.l1_inclusion_block = c.highest_l1_block
        BY <2>3
      <3>3. PICK h \in c.frames : h.l1_inclusion_block = c.lowest_l1_block
        BY <2>3
      <3>4. c.highest_l1_block - c.lowest_l1_block <= ChannelTimeout
        BY <2>4, <3>1, <3>2, <3>3 DEF Timely
      <3>5. c.highest_l1_block \in Nat /\ c.lowest_l1_block \in Nat
        <4>1. g \in Frame /\ h \in Frame
          BY <3>1 DEF IndInv, TypeOK
        <4>2. QED
          BY <3>2, <3>3, <4>1 DEF Frame
      <3>6. QED
        BY <3>4, <3>5, ConstantsAssumption DEF IsTimedOut
    <2>5. CASE s.channel_id = f.channel_id
      <3>1. p' = [p EXCEPT ![i] = c]
        BY <1>6, <2>2, <2>4, <2>5
      <3>2. i \in DOMAIN p' /\ p'[i] = c
        BY <2>1, <3>1
      <3>3. \E g \in c.frames : g.frame_number = s.frame_number
        <4>1. CASE s = f
          BY <2>3, <4>1
        <4>2. CASE Arrived(s)
          <5>1. PICK j \in DOMAIN p : p[j].channel_id = s.channel_id /\ HasSeen(p[j], s)
            BY <4>2 DEF Arrived
          <5>2. j = i
            BY <1>2, <2>1, <2>5, <5>1 DEF UniqueIn
          <5>3. QED
            BY <2>3, <5>1, <5>2 DEF HasSeen
        <4>3. QED
          BY <1>1, <4>1, <4>2
      <3>4. QED
        BY <2>3, <2>5, <3>2, <3>3 DEF Arrived, HasSeen
    <2>6. CASE s.channel_id # f.channel_id
      <3>1. PICK j \in DOMAIN p : p[j].channel_id = s.channel_id /\ HasSeen(p[j], s)
        BY <1>1, <2>6 DEF Arrived
      <3>2. j # i
        BY <2>1, <2>6, <3>1
      <3>3. \E k \in DOMAIN p' : p'[k] = p[j]
        <4>1. CASE p' = RemoveAt(p, i)
          BY <1>2, <2>1, <3>2, <4>1, RemoveKeeps
        <4>2. CASE p' = [p EXCEPT ![i] = c]
          BY <2>1, <3>2, <4>2
        <4>3. QED
          BY <1>6, <2>2, <4>1, <4>2
      <3>4. QED
        BY <3>1, <3>3 DEF Arrived, HasSeen
    <2>7. QED
      BY <2>5, <2>6
  <1>7. QED
    BY <1>1, <1>2, <1>5, <1>6 DEF PushFrame

\* No step loses a frame that is on L1: it moves on towards its channel, or its channel is
\* handed on.
LEMMA NoneLostStep ==
    OneFrameEach /\ IndInv /\ FromL1 /\ FromL1' /\ NoneLost /\ [Next]_vars => NoneLost'
  <1> SUFFICES ASSUME OneFrameEach, IndInv, FromL1, FromL1', NoneLost, [Next]_vars,
                      HonestFrames, Fits(submitted'), NEW s \in submitted',
                      Timely(submitted', s.channel_id)
               PROVE  OnTheWay(s)' \/ Arrived(s)' \/ HandedOn(s.channel_id)'
    BY DEF NoneLost, Fits, Timely
  <1>1. ASSUME NEW block \in BlockTxs, PushBatcherTransactions(block)
        PROVE  OnTheWay(s)' \/ Arrived(s)' \/ HandedOn(s.channel_id)'
    <2>1. UNCHANGED <<pending_channels, emitted>>
      BY <1>1 DEF PushBatcherTransactions
    <2>2. CASE s \in submitted
      <3>1. submitted \subseteq submitted'
        BY <1>1, NewSubmitted
      <3>2. IsFiniteSet(submitted') /\ \A x \in submitted' : Submittable(x)
        BY DEF FromL1
      <3>3. Fits(submitted)
        BY <3>1, <3>2, SizeGrows
      <3>4. Timely(submitted, s.channel_id)
        BY <3>1 DEF Timely
      <3>5. OnTheWay(s) \/ Arrived(s) \/ HandedOn(s.channel_id)
        BY <2>2, <3>3, <3>4 DEF NoneLost
      <3>6. OnTheWay(s) => OnTheWay(s)'
        BY <1>1, PushWay
      <3>7. QED
        BY <2>1, <3>5, <3>6 DEF Arrived, HandedOn
    <2>3. CASE s \notin submitted
      BY <1>1, <2>3, NewSubmitted, PushWay
    <2>4. QED
      BY <2>2, <2>3
  <1>2. ASSUME NEW start \in 0..l1_block, Purge(start) PROVE FALSE
    BY <1>2 DEF Purge
  <1>3. ASSUME UNCHANGED submitted
        PROVE  /\ Timely(submitted, s.channel_id)
               /\ Fits(submitted)
               /\ OnTheWay(s) \/ Arrived(s) \/ HandedOn(s.channel_id)
    <2>1. s \in submitted /\ Timely(submitted, s.channel_id) /\ Fits(submitted)
      BY <1>3
    <2>2. QED
      BY <2>1 DEF NoneLost
  <1>4. CASE UNCHANGED <<transaction_rx, txs, frame_bank, pending_channels, submitted, emitted>>
    <2>1. OnTheWay(s) \/ Arrived(s) \/ HandedOn(s.channel_id)
      BY <1>3, <1>4
    <2>2. QED
      BY <1>4, <2>1 DEF OnTheWay, InRx, InTxs, InBank, Arrived, HandedOn
  <1>5. CASE ProcessIncoming \/ FillBank
    <2>1. UNCHANGED <<pending_channels, submitted, emitted>>
      BY <1>5 DEF ProcessIncoming, FillBank
    <2>2. OnTheWay(s) => OnTheWay(s)'
      BY <1>5, IncomingWay, FillWay
    <2>3. OnTheWay(s) \/ Arrived(s) \/ HandedOn(s.channel_id)
      BY <1>3, <2>1
    <2>4. QED
      BY <2>1, <2>2, <2>3 DEF Arrived, HandedOn
  <1>6. CASE ProcessFrame
    <2>1. UNCHANGED <<submitted, emitted>>
      BY <1>6 DEF ProcessFrame
    <2>2. Timely(submitted, s.channel_id)
          /\ (OnTheWay(s) \/ Arrived(s) \/ HandedOn(s.channel_id))
      BY <1>3, <2>1
    <2>3. OnTheWay(s) => OnTheWay(s)' \/ s = Head(frame_bank)
      BY <1>6, FrameWay
    <2>4. CASE s = Head(frame_bank) \/ Arrived(s)
      BY <1>6, <2>2, <2>4, PushArrives
    <2>5. CASE HandedOn(s.channel_id)
      BY <2>1, <2>5 DEF HandedOn
    <2>6. QED
      BY <2>2, <2>3, <2>4, <2>5
  <1>7. CASE Prune
    <2>1. UNCHANGED <<transaction_rx, txs, frame_bank, submitted, emitted>>
      BY <1>7 DEF Prune
    <2>2. Fits(submitted)
      BY <1>3, <2>1
    <2>3. ~(TotalSize(pending_channels) > MaxChannelSize)
      BY <2>2, BankFits
    <2>4. UNCHANGED pending_channels
      BY <1>7, <2>3 DEF Prune
    <2>5. QED
      BY <1>4, <2>1, <2>4
  <1>8. CASE FetchReadyChannel
    <2> DEFINE p == pending_channels
               ready == {i \in IndicesOf(p, frame_id) : IsComplete(p[i])}
    <2>1. UNCHANGED <<transaction_rx, txs, frame_bank, submitted>>
      BY <1>8 DEF FetchReadyChannel
    <2>2. CASE UNCHANGED <<pending_channels, emitted>>
      BY <1>4, <2>1, <2>2
    <2>3. ASSUME NEW i \in ready, p' = RemoveAt(p, i),
                 emitted' = emitted \cup {ChannelOf(p[i])}
          PROVE  OnTheWay(s)' \/ Arrived(s)' \/ HandedOn(s.channel_id)'
      <3>1. i \in DOMAIN p /\ p \in Seq(PendingChannel)
        BY DEF IndicesOf, IndInv, TypeOK
      <3>2. OnTheWay(s) \/ Arrived(s) \/ HandedOn(s.channel_id)
        BY <1>3, <2>1
      <3>3. CASE OnTheWay(s)
        BY <2>1, <3>3 DEF OnTheWay, InRx, InTxs, InBank
      <3>4. CASE Arrived(s)
        <4>1. PICK j \in DOMAIN p : p[j].channel_id = s.channel_id /\ HasSeen(p[j], s)
          BY <3>4 DEF Arrived
        <4>2. CASE j = i
          <5>1. ChannelOf(p[i]).id = s.channel_id
            BY <4>1, <4>2 DEF ChannelOf
          <5>2. QED
            BY <2>3, <5>1 DEF HandedOn
        <4>3. CASE j # i
          <5>1. \E k \in DOMAIN p' : p'[k] = p[j]
            BY <2>3, <3>1, <4>3, RemoveKeeps
          <5>2. QED
            BY <4>1, <5>1 DEF Arrived, HasSeen
        <4>4. QED
          BY <4>2, <4>3
      <3>5. CASE HandedOn(s.channel_id)
        BY <2>3, <3>5 DEF HandedOn
      <3>6. QED
        BY <3>2, <3>3, <3>4, <3>5
    <2>4. QED
      BY <1>8, <2>2, <2>3 DEF FetchReadyChannel
  <1>9. QED
    BY <1>1, <1>2, <1>4, <1>5, <1>6, <1>7, <1>8
       DEF Next, ChannelsNext, CallNext, ReturnNone, vars


\* A channel that has every number up to that of its last frame is complete.
LEMMA WholeIsComplete ==
    ASSUME NEW c \in PendingChannel, ChannelInv(c), NEW last \in c.frames, last.is_last,
           HonestFrames, \A k \in 0..last.frame_number : \E f \in c.frames : f.frame_number = k
    PROVE  IsComplete(c)
  <1> DEFINE numbers == {f.frame_number : f \in c.frames}
             number == [f \in c.frames |-> f.frame_number]
  <1>1. c.frames \subseteq Frame /\ IsFiniteSet(c.frames)
        /\ \A f, g \in c.frames : f.frame_number = g.frame_number => f = g
    BY DEF PendingChannel, ChannelInv
  <1>2. PICK n \in 0..(U16 - 1) : n = last.frame_number
    BY <1>1 DEF Frame
  <1>3. ASSUME NEW f \in c.frames, NEW g \in c.frames, f.is_last
        PROVE  g.frame_number <= f.frame_number
    <2>1. PICK r \in RawFrames : f = FrameOf(r, f.l1_inclusion_block)
      BY DEF ChannelInv, Submittable
    <2>2. PICK q \in RawFrames : g = FrameOf(q, g.l1_inclusion_block)
      BY DEF ChannelInv, Submittable
    <2>3. r.channel_id = q.channel_id /\ r.is_last
      BY <2>1, <2>2, <1>3 DEF FrameOf, ChannelInv
    <2>4. q.frame_number <= r.frame_number
      BY <2>3 DEF HonestFrames
    <2>5. QED
      BY <2>1, <2>2, <2>4 DEF FrameOf
  <1>4. \A f \in c.frames : f.frame_number \in 0..(U16 - 1)
    BY <1>1 DEF Frame
  <1>5. \A f \in c.frames : f.is_last => f.frame_number = n
    <2> SUFFICES ASSUME NEW f \in c.frames, f.is_last PROVE f.frame_number = n
      OBVIOUS
    <2>1. f.frame_number <= n /\ n <= f.frame_number
      BY <1>2, <1>3
    <2>2. QED
      BY <1>2, <1>4, <2>1, ConstantsAssumption
  <1>6. numbers = 0..n
    <2>1. \A f \in c.frames : f.frame_number \in 0..n
      BY <1>2, <1>3, <1>4, ConstantsAssumption
    <2>2. \A k \in 0..n : k \in numbers
      BY <1>2
    <2>3. QED
      BY <2>1, <2>2
  <1>7. Cardinality(c.frames) = n + 1
    <2>1. number \in Surjection(c.frames, numbers)
      BY DEF Surjection
    <2>2. number \in Injection(c.frames, numbers)
      BY <1>1 DEF Injection, IsInjective
    <2>3. Cardinality(numbers) = Cardinality(c.frames)
      BY <2>1, <2>2, <1>1, FS_Surjection
    <2>4. Cardinality(0..n) = n + 1
      BY <1>2, FS_Interval, ConstantsAssumption
    <2> HIDE DEF numbers
    <2>5. QED
      BY <1>6, <2>3, <2>4
  <1>8. c.size = (n + 1) % U16
    BY <1>5 DEF ChannelInv
  <1>9. QED
    BY <1>7, <1>8 DEF IsComplete

\* When nothing is on the way, every frame on L1 has arrived or its channel was handed on; a
\* channel all of whose frames have arrived is complete, and none lingers.
LEMMA DeliveredAtRest == IndInv /\ FromL1 /\ NoneLost => CompleteChannelsDelivered
  <1> SUFFICES ASSUME IndInv, FromL1, NoneLost, Drained, HonestFrames, Fits(submitted),
                      NEW id \in ChannelIds,
                      NEW own, own = {f \in submitted : f.channel_id = id},
                      NEW last \in own, last.is_last,
                      {f.frame_number : f \in own} = 0..last.frame_number,
                      \A f, g \in own :
                        f.l1_inclusion_block - g.l1_inclusion_block <= ChannelTimeout,
                      ~HandedOn(id)
               PROVE  FALSE
    BY DEF CompleteChannelsDelivered, Fits, SizeOf, RawsOf, HandedOn
  <1> DEFINE p == pending_channels
  <1>1. Timely(submitted, id)
    BY DEF Timely
  <1>2. ASSUME NEW s \in own PROVE Arrived(s)
    <2>1. s \in submitted /\ s.channel_id = id
      OBVIOUS
    <2>2. OnTheWay(s) \/ Arrived(s) \/ HandedOn(id)
      BY <1>1, <2>1 DEF NoneLost
    <2>3. ~OnTheWay(s)
      BY DEF Drained, OnTheWay, InRx, InTxs, InBank
    <2>4. QED
      BY <2>2, <2>3
  <1>3. PICK i \in DOMAIN p : p[i].channel_id = id
    BY <1>2 DEF Arrived
  <1>4. /\ p[i] \in PendingChannel /\ ChannelInv(p[i])
        /\ \A j \in DOMAIN p : p[j].channel_id = id => j = i
    BY <1>3 DEF IndInv, TypeOK, BankInv, UniqueIds
  <1>5. ASSUME NEW s \in own PROVE \E f \in p[i].frames : f.frame_number = s.frame_number
    <2>1. PICK j \in DOMAIN p : p[j].channel_id = s.channel_id /\ HasSeen(p[j], s)
      BY <1>2, <1>5 DEF Arrived
    <2>2. s.channel_id = id
      OBVIOUS
    <2>3. j = i
      BY <1>4, <2>1, <2>2
    <2>4. QED
      BY <2>1, <2>3 DEF HasSeen
  <1>6. PICK l \in p[i].frames : l.frame_number = last.frame_number
    BY <1>5
  <1>7. l.is_last
    <2>1. PICK r \in RawFrames : l = FrameOf(r, l.l1_inclusion_block)
      BY <1>4 DEF ChannelInv, Submittable
    <2>2. PICK q \in RawFrames : last = FrameOf(q, last.l1_inclusion_block)
      BY DEF FromL1, Submittable
    <2>3. last.channel_id = id /\ l.channel_id = id
      BY <1>3, <1>4 DEF ChannelInv
    <2>4. r.channel_id = q.channel_id /\ r.frame_number = q.frame_number
      BY <1>6, <2>1, <2>2, <2>3 DEF FrameOf
    <2>5. r = q
      BY <2>4 DEF HonestFrames
    <2>6. QED
      BY <2>1, <2>2, <2>5 DEF FrameOf
  <1>8. \A k \in 0..l.frame_number : \E f \in p[i].frames : f.frame_number = k
    BY <1>5, <1>6
  <1>9. IsComplete(p[i])
    BY <1>4, <1>7, <1>8, WholeIsComplete
  <1>10. QED
    BY <1>9 DEF IndInv, BankInv, NoCompleteChannelLingers, Drained

\* ChannelBank.CompleteChannelsDelivered, for every set of frames, block content, timeout
\* and limit: if no batcher transaction has more than one frame, a channel whose frames are
\* all on L1, within the timeout and with room for them, is handed on once the stages have
\* caught up, whatever the order of the frames and the channels, the repetitions, the
\* undecodable transactions and the purges.  With two frames in a transaction it fails.
THEOREM CompleteChannelsDeliveredCorrect ==
    OneFrameEach /\ Spec => []CompleteChannelsDelivered
  <1> SUFFICES ASSUME OneFrameEach PROVE Spec => []CompleteChannelsDelivered
    OBVIOUS
  <1>1. Init => FromL1 /\ NoneLost
    BY FS_EmptySet DEF Init, FromL1, NoneLost, OnTheWay, InRx, InTxs, InBank
  <1>2. IndInv /\ FromL1 /\ NoneLost /\ [Next]_vars => FromL1' /\ NoneLost'
    BY FromL1Step, NoneLostStep
  <1>3. QED
    BY Invariance, <1>1, <1>2, DeliveredAtRest, PTL DEF Spec
=============================================================================
