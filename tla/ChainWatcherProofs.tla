------------------------- MODULE ChainWatcherProofs -------------------------
(***************************************************************************)
(* Proofs about ChainWatcher, for any L1 chain, any number of reorgs and   *)
(* failed calls and any capacity of the channel.                           *)
(***************************************************************************)
EXTENDS ChainWatcher, SequenceLemmas

Config == {NoUpdate} \cup {<<h, ConfigUpdates[h]>> : h \in Nat} \cup {<<h, 1>> : h \in Nat}
Block == [hash : Nat, number : Nat, parent_hash : Nat, sender : Config]
Info ==
    [hash : Nat, number : Nat, parent_hash : Nat, sender : Config,
     batcher_transactions : BOOLEAN, user_deposits : Nat, system_config : Config]
Update ==
    [type : {"NewBlock"}, info : Info]
      \cup [type : {"FinalityUpdate"}, number : Nat]
      \cup [type : {"Reorg"}]
Cache == UNION {[D -> Nat] : D \in SUBSET Nat}
Watcher ==
    [pc : {"new", "dead", "finality", "head", "config", "block", "deposits", "batches"},
     current_block : Nat, head_block : Nat, finalized_block : Nat,
     unfinalized_blocks : Seq(Block), deposits : Cache, system_config : Config,
     system_config_update : [block : Nat, config : Config],
     block : Block, user_deposits : Nat]

\* What the variables hold.
Types ==
    /\ chain \in Seq(Nat) /\ minted \in Nat /\ reorgs \in Nat
    /\ l1_finalized \in 0..Height(chain)
    /\ watcher \in Watcher /\ queue \in Seq(Update) /\ applied \in Seq(Info)
    /\ l1_start \in Nat /\ seen_finalized \in Nat
    /\ epoch \in 0..l1_finalized

\* Where in a round the watcher is.
RoundInv ==
    /\ watcher.pc \in {"config", "block", "deposits", "batches"} =>
         watcher.current_block <= watcher.head_block
    /\ watcher.pc \in {"deposits", "batches"} => watcher.block.number = watcher.current_block
    /\ watcher.pc = "new" => watcher.finalized_block = 0 /\ watcher.unfinalized_blocks = <<>>

\* What a watcher has told the driver up to some place in the channel: the number of the
\* block to be told next, the hash of the one told last, what was said to be final.
Told == [next : Nat, hash : Nat, fin : Nat]

\* How an update goes on from there.
Follows(s, u, t) ==
    /\ u.type = "NewBlock" =>
         /\ u.info.number = s.next
         /\ s.next > l1_start => u.info.parent_hash = s.hash \/ s.next - 1 <= s.fin
         /\ t.next = s.next + 1 /\ t.hash = u.info.hash /\ t.fin = s.fin
    /\ u.type = "FinalityUpdate" =>
         /\ u.number >= s.fin
         /\ t.next = s.next /\ t.hash = s.hash /\ t.fin = u.number

\* The driver is at the front of the channel.
AtFront(s) ==
    /\ s.next = l1_start + Len(applied)
    /\ applied # <<>> => s.hash = applied[Len(applied)].hash
    /\ s.fin = seen_finalized

\* The watcher is at its back: unfinalized_blocks ends with the block told last, and if
\* there is none, that block is final.
AtBack(s) ==
    LET blocks == watcher.unfinalized_blocks
    IN  /\ s.next = watcher.current_block
        /\ watcher.finalized_block <= s.fin
        /\ \A i \in DOMAIN blocks : blocks[i].number < s.next
        /\ blocks # <<>> => /\ blocks[Len(blocks)].number = s.next - 1
                            /\ blocks[Len(blocks)].hash = s.hash
                            /\ watcher.finalized_block <= s.next - 1
        /\ blocks = <<>> => s.next <= l1_start \/ s.next - 1 <= watcher.finalized_block

Channel(st) ==
    /\ Len(st) = Len(queue) + 1
    /\ \A i \in DOMAIN queue : Follows(st[i], queue[i], st[i + 1])
    /\ \A i \in DOMAIN st : st[i].fin <= l1_finalized
    /\ AtFront(st[1])
    /\ AtBack(st[Len(st)])

ChannelInv == \E st \in Seq(Told) : Channel(st)

IndInv ==
    /\ Types
    /\ RoundInv
    /\ ChannelInv
    /\ Contiguous
    /\ UnlinkedOnlyIfFinalized

-----------------------------------------------------------------------------
(* The operators *)

\* The system config of a block is one.
LEMMA ConfigAtType ==
    ASSUME NEW c \in Seq(Nat), NEW n \in 0..(Len(c) - 1)
    PROVE  ConfigAt(c, n) \in Config
  <1> DEFINE with == {m \in 0..n : ConfigUpdates[c[m + 1]] > 0}
             last == CHOOSE m \in with : \A k \in with : k <= m
  <1>1. Len(c) \in Nat /\ n \in Nat
    BY LenProperties
  <1>2. CASE with = {}
    BY <1>2 DEF ConfigAt, Config
  <1>3. CASE with # {}
    <2>1. with \subseteq 0..n
      OBVIOUS
    <2>2. \E m \in with : \A k \in with : k <= m
      <3> HIDE DEF with
      <3>1. QED
        BY <1>1, <1>3, <2>1, GreatestNumber
    <2>3. last \in with
      <3> HIDE DEF with
      <3>1. QED
        BY <2>2
    <2>4. last + 1 \in 1..Len(c)
      <3> HIDE DEF last
      <3>1. QED
        BY <1>1, <2>1, <2>3
    <2>5. c[last + 1] \in Nat
      <3> HIDE DEF last
      <3>1. QED
        BY <2>4, ElementOfSeq
    <2>6. ConfigAt(c, n) = <<c[last + 1], ConfigUpdates[c[last + 1]]>>
      BY <1>3 DEF ConfigAt
    <2>7. QED
      <3> HIDE DEF last
      <3>1. QED
        BY <2>5, <2>6 DEF Config
  <1>4. QED
    BY <1>2, <1>3

\* A block that L1 has.
LEMMA HashAtType ==
    ASSUME Types, NEW n \in 0..Height(chain)
    PROVE  HashAt(n) \in Nat /\ n + 1 \in 1..Len(chain) /\ Len(chain) \in Nat
  <1>1. chain \in Seq(Nat) /\ Len(chain) \in Nat
    BY LenProperties DEF Types
  <1>2. n + 1 \in 1..Len(chain)
    BY <1>1 DEF Height
  <1>3. QED
    BY <1>1, <1>2, ElementOfSeq DEF HashAt

LEMMA BlockAtType ==
    ASSUME Types, NEW n \in 0..Height(chain)
    PROVE  BlockAt(n) \in Block /\ BlockAt(n).number = n /\ BlockAt(n).hash = HashAt(n)
  <1>1. HashAt(n) \in Nat /\ n \in Nat /\ chain \in Seq(Nat) /\ n \in 0..(Len(chain) - 1)
        /\ Len(chain) \in Nat
    BY HashAtType DEF Height, Types
  <1>2. n # 0 => HashAt(n - 1) \in Nat
    <2>1. n # 0 => n - 1 \in 0..Height(chain)
      BY <1>1 DEF Height
    <2>2. QED
      BY <2>1, HashAtType
  <1>3. ConfigAt(chain, n) \in Config
    BY <1>1, ConfigAtType
  <1>4. QED
    BY <1>1, <1>2, <1>3 DEF BlockAt, Block

\* The window of the next system config update.
LEMMA NextUpdateType ==
    ASSUME Types, NEW last \in Nat
    PROVE  NextUpdate(last) \in [block : Nat, config : Config]
  <1> DEFINE with == {n \in BlocksIn(last + 1, last + LogWindow) : ConfigUpdates[HashAt(n)] > 0}
             first == CHOOSE n \in with : \A k \in with : n <= k
  <1>1. Height(chain) \in Int /\ LogWindow \in Nat
    BY WatcherAssumption, LenProperties DEF Types, Height
  <1>2. with \subseteq Nat /\ with \subseteq 0..Height(chain)
    BY <1>1 DEF BlocksIn
  <1>3. NoUpdate \in Config
    BY DEF Config
  <1>4. CASE with = {}
    BY <1>1, <1>3, <1>4 DEF NextUpdate
  <1>5. CASE with # {}
    <2>1. NextUpdate(last) = [block |-> first, config |-> FirstUpdateIn(first)]
      BY <1>5 DEF NextUpdate
    <2> HIDE DEF with
    <2>2. \E n \in with : \A k \in with : n <= k
      BY <1>2, <1>5, LeastNumber
    <2>3. first \in with
      BY <2>2
    <2> HIDE DEF first
    <2>4. HashAt(first) \in Nat /\ first \in Nat
      BY <1>2, <2>3, HashAtType
    <2>5. QED
      BY <2>1, <2>4 DEF FirstUpdateIn, Config
  <1>6. QED
    BY <1>4, <1>5

\* Deposits that are fetched, and what is left of the cache.
LEMMA DepositsType ==
    ASSUME Types, NEW n \in Nat, NEW end \in Nat, n <= end
    PROVE  /\ watcher.deposits \in Cache
           /\ FetchedDeposits(n, end) \in Cache /\ DOMAIN FetchedDeposits(n, end) = n..end
  <1>1. \A m \in n..end : DepositsOf(m) \in Nat
    <2> TAKE m \in n..end
    <2>1. CASE m <= Height(chain)
      <3>1. Len(chain) \in Nat
        BY LenProperties DEF Types
      <3>2. m \in 0..Height(chain)
        BY <2>1, <3>1 DEF Height
      <3>3. QED
        BY <2>1, <3>2, HashAtType DEF DepositsOf
    <2>2. CASE ~(m <= Height(chain))
      BY <2>2 DEF DepositsOf
    <2>3. QED
      BY <2>1, <2>2
  <1>2. FetchedDeposits(n, end) \in [n..end -> Nat] /\ n..end \in SUBSET Nat
    BY <1>1 DEF FetchedDeposits
  <1>3. QED
    BY <1>2 DEF Types, Watcher, Cache

LEMMA CacheFacts ==
    ASSUME NEW f \in Cache, NEW g \in Cache
    PROVE  /\ Inserted(f, g) \in Cache /\ DOMAIN Inserted(f, g) = DOMAIN f \cup DOMAIN g
           /\ DOMAIN f \subseteq Nat /\ \A m \in DOMAIN f : f[m] \in Nat
           /\ \A n : [m \in DOMAIN f \ {n} |-> f[m]] \in Cache
  <1>1. PICK D \in SUBSET Nat : f \in [D -> Nat]
    BY DEF Cache
  <1>2. PICK E \in SUBSET Nat : g \in [E -> Nat]
    BY DEF Cache
  <1>3. D \cup E \in SUBSET Nat /\ Inserted(f, g) \in [D \cup E -> Nat]
    BY <1>1, <1>2 DEF Inserted
  <1>4. \A n : D \ {n} \in SUBSET Nat /\ [m \in DOMAIN f \ {n} |-> f[m]] \in [D \ {n} -> Nat]
    BY <1>1
  <1>5. Inserted(f, g) \in Cache /\ \A n : [m \in DOMAIN f \ {n} |-> f[m]] \in Cache
    <2>1. Inserted(f, g) \in Cache
      BY <1>3 DEF Cache
    <2>2. ASSUME NEW n PROVE [m \in DOMAIN f \ {n} |-> f[m]] \in Cache
      <3> DEFINE h == [m \in DOMAIN f \ {n} |-> f[m]]
      <3>1. h \in [D \ {n} -> Nat] /\ D \ {n} \in SUBSET Nat
        BY <1>4
      <3> HIDE DEF h
      <3>2. h \in Cache
        BY <3>1 DEF Cache
      <3>3. QED
        BY <3>2 DEF h
    <2>3. QED
      BY <2>1, <2>2
  <1>6. QED
    BY <1>1, <1>2, <1>3, <1>5

\* A watcher that starts.
LEMMA StartType ==
    ASSUME NEW start \in Nat, NEW config \in Config
    PROVE  /\ NewWatcher(start, config) \in Watcher /\ Starting(start) \in Watcher
           /\ NewWatcher(start, config).pc = "finality" /\ Starting(start).pc = "new"
           /\ \A w \in {NewWatcher(start, config), Starting(start)} :
                /\ w.current_block = start /\ w.finalized_block = 0 /\ w.head_block = 0
                /\ w.unfinalized_blocks = <<>> /\ w.deposits = <<>>
  <1>1. NoUpdate \in Config /\ NoBlock \in Block
    BY DEF Config, Block, NoBlock
  <1>2. <<>> \in Seq(Block)
    BY EmptySeq
  <1>3. <<>> \in Cache
    <2>1. PICK s \in Seq(Nat) : s = <<>>
      BY EmptySeq
    <2>2. s \in [1..Len(s) -> Nat] /\ 1..Len(s) \in SUBSET Nat
      BY LenProperties
    <2>3. QED
      BY <2>1, <2>2 DEF Cache
  <1> DEFINE none == <<>>
  <1>4. \A c \in Config :
          [pc |-> "finality", current_block |-> start, head_block |-> 0, finalized_block |-> 0,
           unfinalized_blocks |-> none, deposits |-> none, system_config |-> c,
           system_config_update |-> [block |-> start, config |-> NoUpdate],
           block |-> NoBlock, user_deposits |-> 0] \in Watcher
    <2> HIDE DEF none
    <2>1. none \in Seq(Block) /\ none \in Cache
      BY <1>2, <1>3 DEF none
    <2>2. QED
      BY <1>1, <2>1 DEF Watcher
  <1>5. NewWatcher(start, config) \in Watcher /\ NewWatcher(start, NoUpdate) \in Watcher
    BY <1>1, <1>4 DEF NewWatcher
  <1>6. Starting(start) \in Watcher
    BY <1>5 DEF Starting, Watcher
  <1>7. QED
    BY <1>5, <1>6 DEF NewWatcher, Starting

LEMMA StartBlockType ==
    ASSUME NEW e \in Nat
    PROVE  L1StartBlock(e) \in Nat
  BY WatcherAssumption DEF L1StartBlock

-----------------------------------------------------------------------------
(* Types *)

LEMMA TypesInit == Init => Types /\ RoundInv
  <1> SUFFICES ASSUME Init PROVE Types /\ RoundInv
    OBVIOUS
  <1>1. chain \in Seq(Nat) /\ Len(chain) = InitHeight + 1 /\ minted \in Nat /\ reorgs \in Nat
        /\ l1_finalized = 0 /\ InitHeight \in Nat
    BY L1Assumption, IsASeq DEF Init, L1Init
  <1>2. l1_finalized \in 0..Height(chain) /\ epoch \in 0..l1_finalized
    BY <1>1 DEF Height, Init
  <1>3. l1_start \in Nat /\ NoUpdate \in Config
    BY StartBlockType DEF Init, Config
  <1>4. watcher = Starting(l1_start)
    BY DEF Init
  <1>5. watcher \in Watcher /\ watcher.pc = "new" /\ watcher.finalized_block = 0
        /\ watcher.unfinalized_blocks = <<>>
    BY <1>3, <1>4, StartType
  <1>6. queue \in Seq(Update) /\ applied \in Seq(Info) /\ seen_finalized = 0
    BY EmptySeq DEF Init
  <1>7. QED
    BY <1>1, <1>2, <1>3, <1>5, <1>6 DEF Types, RoundInv

\* L1 leaves what is final as it is.
LEMMA L1Types ==
    ASSUME Types, L1Next
    PROVE  /\ chain' \in Seq(Nat) /\ minted' \in Nat /\ reorgs' \in Nat
           /\ l1_finalized' \in 0..Height(chain') /\ l1_finalized <= l1_finalized'
           /\ \A i \in 1..(l1_finalized + 1) : chain'[i] = chain[i]
  <1>1. chain \in Seq(Nat) /\ Len(chain) \in Nat /\ l1_finalized \in 0..(Len(chain) - 1)
        /\ minted + 1 \in Nat /\ reorgs \in Nat /\ minted \in Nat
    BY LenProperties DEF Types, Height
  <1>2. CASE Mine
    <2>1. chain' = Append(chain, minted + 1) /\ UNCHANGED <<l1_finalized, reorgs>>
          /\ minted' = minted + 1
      BY <1>2 DEF Mine
    <2>2. chain' \in Seq(Nat) /\ Len(chain') = Len(chain) + 1
          /\ \A i \in 1..Len(chain) : chain'[i] = chain[i]
      BY <1>1, <2>1, AppendProperties
    <2>3. QED
      BY <1>1, <2>1, <2>2 DEF Height
  <1>3. ASSUME NEW n \in (l1_finalized + 1)..Height(chain), ReplaceFrom(n)
        PROVE  /\ chain' \in Seq(Nat) /\ minted' \in Nat /\ reorgs' \in Nat
               /\ l1_finalized' \in 0..Height(chain') /\ l1_finalized <= l1_finalized'
               /\ \A i \in 1..(l1_finalized + 1) : chain'[i] = chain[i]
    <2>1. chain' = Append(SubSeq(chain, 1, n), minted + 1) /\ UNCHANGED l1_finalized
          /\ minted' = minted + 1 /\ reorgs' = reorgs + 1
      BY <1>3 DEF ReplaceFrom
    <2> DEFINE c == SubSeq(chain, 1, n)
    <2>2. n \in 0..Len(chain) /\ n \in Nat /\ l1_finalized + 1 <= n
      BY <1>1 DEF Height
    <2>3. c \in Seq(Nat) /\ Len(c) = n /\ \A i \in 1..n : c[i] = chain[i]
      BY <1>1, <2>2, PrefixSubSeq
    <2> HIDE DEF c
    <2>4. chain' = Append(c, minted + 1)
      BY <2>1 DEF c
    <2>5. chain' \in Seq(Nat) /\ Len(chain') = n + 1 /\ \A i \in 1..n : chain'[i] = c[i]
      BY <1>1, <2>3, <2>4, AppendProperties
    <2>6. \A i \in 1..(l1_finalized + 1) : i \in 1..n
      BY <1>1, <2>2
    <2>7. QED
      BY <1>1, <2>1, <2>2, <2>3, <2>5, <2>6 DEF Height
  <1>4. ASSUME NEW n \in (l1_finalized + 1)..Height(chain), Finalize(n)
        PROVE  /\ chain' \in Seq(Nat) /\ minted' \in Nat /\ reorgs' \in Nat
               /\ l1_finalized' \in 0..Height(chain') /\ l1_finalized <= l1_finalized'
               /\ \A i \in 1..(l1_finalized + 1) : chain'[i] = chain[i]
    BY <1>1, <1>4 DEF Finalize, Height
  <1>5. QED
    BY <1>2, <1>3, <1>4 DEF L1Next

LEMMA UpdateTypes ==
    ASSUME NEW u
    PROVE  /\ u \in Info => [type |-> "NewBlock", info |-> u] \in Update
           /\ u \in Nat => [type |-> "FinalityUpdate", number |-> u] \in Update
           /\ [type |-> "Reorg"] \in Update
           /\ u \in Update => /\ u.type = "NewBlock" => u.info \in Info
                              /\ u.type = "FinalityUpdate" => u.number \in Nat
  BY DEF Update

\* The first update is taken from the channel.
LEMMA TakeUpdate ==
    ASSUME Types, queue # <<>>
    PROVE  /\ Head(queue) = queue[1] /\ queue[1] \in Update
           /\ 1 \in DOMAIN queue /\ Len(queue) \in Nat \ {0} /\ DOMAIN queue = 1..Len(queue)
           /\ Tail(queue) \in Seq(Update) /\ Len(Tail(queue)) = Len(queue) - 1
           /\ DOMAIN Tail(queue) = 1..(Len(queue) - 1)
           /\ \A i \in 1..(Len(queue) - 1) : Tail(queue)[i] = queue[i + 1]
  <1>1. queue \in Seq(Update) /\ Len(queue) \in Nat \ {0} /\ DOMAIN queue = 1..Len(queue)
    BY LenProperties, EmptySeq DEF Types
  <1>2. Head(queue) = queue[1] /\ 1 \in DOMAIN queue /\ queue[1] \in Update
    BY <1>1, ElementOfSeq
  <1>3. /\ Tail(queue) \in Seq(Update) /\ Len(Tail(queue)) = Len(queue) - 1
        /\ \A i \in 1..Len(Tail(queue)) : Tail(queue)[i] = queue[i + 1]
    BY <1>1, HeadTailProperties
  <1>4. DOMAIN Tail(queue) = 1..Len(Tail(queue))
    BY <1>3, LenProperties
  <1>5. QED
    BY <1>1, <1>2, <1>3, <1>4

\* An update is put into the channel.
LEMMA PutUpdate ==
    ASSUME Types, NEW u \in Update
    PROVE  /\ Append(queue, u) \in Seq(Update) /\ Len(Append(queue, u)) = Len(queue) + 1
           /\ DOMAIN Append(queue, u) = 1..(Len(queue) + 1) /\ Len(queue) \in Nat
           /\ DOMAIN queue = 1..Len(queue)
           /\ \A i \in 1..Len(queue) : Append(queue, u)[i] = queue[i]
           /\ Append(queue, u)[Len(queue) + 1] = u
  <1>1. queue \in Seq(Update)
    BY DEF Types
  <1>2. QED
    BY <1>1, AppendProperties, LenProperties

\* Steps of the watcher in which it tells the driver nothing.
Quiet ==
    \/ WatcherNew \/ WatcherPanics \/ RpcFails
    \/ UpdateHead \/ UpdateSystemConfig \/ GetBlock \/ GetDeposits

LEMMA QuietTypes ==
    ASSUME Types, RoundInv, Quiet
    PROVE  /\ Types' /\ RoundInv'
           /\ UNCHANGED <<l1_vars, queue, driver_vars>>
           /\ watcher'.current_block = watcher.current_block
           /\ watcher'.finalized_block = watcher.finalized_block
           /\ watcher'.unfinalized_blocks = watcher.unfinalized_blocks
  <1> DEFINE Kept ==
               /\ watcher' \in Watcher /\ RoundInv'
               /\ watcher'.current_block = watcher.current_block
               /\ watcher'.finalized_block = watcher.finalized_block
               /\ watcher'.unfinalized_blocks = watcher.unfinalized_blocks
  <1>1. UNCHANGED <<l1_vars, queue, driver_vars>>
    BY DEF Quiet, WatcherNew, WatcherPanics, RpcFails, UpdateHead, UpdateSystemConfig, GetBlock,
           GetDeposits
  <1>2. watcher \in Watcher /\ watcher.current_block \in Nat /\ watcher.head_block \in Nat
        /\ watcher.system_config \in Config
        /\ watcher.system_config_update \in [block : Nat, config : Config]
    BY DEF Types, Watcher
  <1>3. chain \in Seq(Nat) /\ Len(chain) \in Nat /\ Height(chain) \in Nat
        /\ l1_finalized \in 0..Height(chain) /\ epoch \in 0..l1_finalized
    BY LenProperties DEF Types, Height
  <1> SUFFICES Kept
    BY <1>1 DEF Types, l1_vars, driver_vars, Height
  <1>4. CASE WatcherNew
    <2>1. watcher.pc = "new" /\ watcher.finalized_block = 0 /\ watcher.unfinalized_blocks = <<>>
      BY <1>4 DEF WatcherNew, RoundInv
    <2>2. PICK e \in {epoch, epoch - 1} \cap Nat :
            watcher' = NewWatcher(watcher.current_block, ConfigAt(chain, e))
      BY <1>4 DEF WatcherNew
    <2>3. e \in 0..(Len(chain) - 1)
      BY <1>3, <2>2 DEF Height
    <2>4. ConfigAt(chain, e) \in Config
      BY <1>3, <2>3, ConfigAtType
    <2>5. /\ watcher' \in Watcher /\ watcher'.pc = "finality"
          /\ watcher'.current_block = watcher.current_block
          /\ watcher'.finalized_block = 0 /\ watcher'.unfinalized_blocks = <<>>
      BY <1>2, <2>2, <2>4, StartType
    <2>6. QED
      BY <2>1, <2>5 DEF RoundInv
  <1>5. CASE WatcherPanics \/ RpcFails
    <2>1. PICK p \in {"dead", "finality"} : watcher' = [watcher EXCEPT !.pc = p]
      BY <1>5 DEF WatcherPanics, RpcFails
    <2>2. watcher' \in Watcher /\ watcher'.pc = p
      BY <1>2, <2>1 DEF Watcher
    <2>3. QED
      BY <1>2, <2>1, <2>2 DEF RoundInv, Watcher
  <1>6. CASE UpdateHead
    <2> DEFINE head == IF watcher.current_block > watcher.head_block
                       THEN Height(chain) ELSE watcher.head_block
    <2>1. /\ watcher.pc = "head"
          /\ watcher' = [watcher EXCEPT !.head_block = head,
                            !.pc = IF watcher.current_block <= head
                                   THEN "config" ELSE "finality"]
      BY <1>6 DEF UpdateHead
    <2>2. head \in Nat
      BY <1>2, <1>3
    <2> HIDE DEF head
    <2>3. /\ watcher' \in Watcher /\ watcher'.head_block = head
          /\ watcher'.current_block = watcher.current_block
          /\ watcher'.finalized_block = watcher.finalized_block
          /\ watcher'.unfinalized_blocks = watcher.unfinalized_blocks
          /\ watcher'.pc = IF watcher.current_block <= head THEN "config" ELSE "finality"
      BY <1>2, <2>1, <2>2 DEF Watcher
    <2>4. RoundInv'
      BY <2>3 DEF RoundInv
    <2>5. QED
      BY <2>3, <2>4
  <1>7. CASE UpdateSystemConfig
    <2> DEFINE last == watcher.system_config_update
               u == IF last.block < watcher.current_block THEN NextUpdate(last.block) ELSE last
               c == IF Activated(u, watcher.current_block) /\ u.config # NoUpdate
                    THEN u.config ELSE watcher.system_config
    <2>1. /\ watcher.pc = "config"
          /\ watcher' = [watcher EXCEPT !.pc = "block", !.system_config_update = u,
                            !.system_config = c]
      BY <1>7 DEF UpdateSystemConfig
    <2>2. u \in [block : Nat, config : Config]
      BY <1>2, NextUpdateType
    <2> HIDE DEF u
    <2>3. c \in Config
      BY <1>2, <2>2
    <2> HIDE DEF c
    <2>4. /\ watcher' \in Watcher /\ watcher'.pc = "block"
          /\ watcher'.head_block = watcher.head_block
          /\ watcher'.current_block = watcher.current_block
          /\ watcher'.finalized_block = watcher.finalized_block
          /\ watcher'.unfinalized_blocks = watcher.unfinalized_blocks
      BY <1>2, <2>1, <2>2, <2>3 DEF Watcher
    <2>5. RoundInv'
      BY <2>1, <2>4 DEF RoundInv
    <2>6. QED
      BY <2>4, <2>5
  <1>8. CASE GetBlock
    <2> DEFINE n == watcher.current_block
    <2>1. watcher.pc = "block" /\ n \in Nat
          /\ watcher' = IF n <= Height(chain)
                        THEN [watcher EXCEPT !.pc = "deposits", !.block = BlockAt(n)]
                        ELSE [watcher EXCEPT !.pc = "finality"]
      BY <1>2, <1>8 DEF GetBlock
    <2>2. CASE n <= Height(chain)
      <3> DEFINE b == BlockAt(n)
      <3>1. b \in Block /\ b.number = n
        BY <1>3, <2>1, <2>2, BlockAtType
      <3>2. watcher' = [watcher EXCEPT !.pc = "deposits", !.block = b]
        BY <2>1, <2>2
      <3> HIDE DEF b
      <3>3. /\ watcher' \in Watcher /\ watcher'.pc = "deposits" /\ watcher'.block = b
            /\ watcher'.head_block = watcher.head_block
            /\ watcher'.current_block = watcher.current_block
            /\ watcher'.finalized_block = watcher.finalized_block
            /\ watcher'.unfinalized_blocks = watcher.unfinalized_blocks
        BY <1>2, <3>1, <3>2 DEF Watcher
      <3>4. RoundInv'
        BY <2>1, <3>1, <3>3 DEF RoundInv
      <3>5. QED
        BY <3>3, <3>4
    <2>3. CASE ~(n <= Height(chain))
      <3>1. watcher' = [watcher EXCEPT !.pc = "finality"]
        BY <2>1, <2>3
      <3>2. watcher' \in Watcher /\ watcher'.pc = "finality"
        BY <1>2, <3>1 DEF Watcher
      <3>3. QED
        BY <1>2, <3>1, <3>2 DEF RoundInv, Watcher
    <2>4. QED
      BY <2>2, <2>3
  <1>9. CASE GetDeposits
    <2> DEFINE n     == watcher.current_block
               end   == IF watcher.head_block < n + LogWindow
                        THEN watcher.head_block ELSE n + LogWindow
               d     == watcher.deposits
               known == IF n \in DOMAIN d THEN d ELSE Inserted(FetchedDeposits(n, end), d)
               rest  == [m \in DOMAIN known \ {n} |-> known[m]]
    <2>1. /\ watcher.pc = "deposits"
          /\ watcher' = [watcher EXCEPT !.pc = "batches", !.user_deposits = known[n],
                            !.deposits = rest]
      BY <1>9 DEF GetDeposits
    <2>2. n \in Nat /\ end \in Nat /\ n <= end
      BY <1>2, <2>1, WatcherAssumption DEF RoundInv
    <2>3. n \in n..end
      <3> HIDE DEF end
      <3>1. QED
        BY <2>2
    <2> HIDE DEF end, n
    <2>4. d \in Cache /\ FetchedDeposits(n, end) \in Cache
          /\ DOMAIN FetchedDeposits(n, end) = n..end
      BY <2>2, DepositsType
    <2> HIDE DEF d
    <2>5. known \in Cache /\ n \in DOMAIN known
      BY <2>3, <2>4, CacheFacts
    <2> HIDE DEF known
    <2>6. known[n] \in Nat /\ rest \in Cache
      BY <2>5, CacheFacts
    <2> HIDE DEF rest
    <2>7. /\ watcher' \in Watcher /\ watcher'.pc = "batches"
          /\ watcher'.head_block = watcher.head_block
          /\ watcher'.block = watcher.block
          /\ watcher'.current_block = watcher.current_block
          /\ watcher'.finalized_block = watcher.finalized_block
          /\ watcher'.unfinalized_blocks = watcher.unfinalized_blocks
      BY <1>2, <2>1, <2>6 DEF Watcher
    <2>8. RoundInv'
      BY <2>1, <2>7 DEF RoundInv
    <2>9. QED
      BY <2>7, <2>8
  <1>10. QED
    BY <1>4, <1>5, <1>6, <1>7, <1>8, <1>9 DEF Quiet

-----------------------------------------------------------------------------
(* The channel *)

\* The watcher tells the driver something.
LEMMA PutTold ==
    ASSUME Types, NEW st \in Seq(Told), Channel(st),
           NEW u \in Update, NEW t \in Told, Follows(st[Len(st)], u, t), t.fin <= l1_finalized,
           queue' = Append(queue, u), AtBack(t)',
           UNCHANGED <<l1_finalized, l1_start, applied, seen_finalized>>
    PROVE  ChannelInv'
  <1> DEFINE n == Len(queue)
             q == Append(queue, u)
             v == Append(st, t)
  <1>1. /\ DOMAIN q = 1..(n + 1) /\ Len(q) = n + 1 /\ n \in Nat /\ DOMAIN queue = 1..n
        /\ \A i \in 1..n : q[i] = queue[i]
        /\ q[n + 1] = u
    BY PutUpdate
  <1>2. Len(st) = n + 1 /\ DOMAIN st = 1..(n + 1)
    BY LenProperties DEF Channel
  <1>3. /\ v \in Seq(Told) /\ Len(v) = n + 2 /\ DOMAIN v = 1..(n + 2)
        /\ \A i \in 1..(n + 1) : v[i] = st[i]
        /\ v[n + 2] = t
    BY <1>1, <1>2, AppendProperties, LenProperties
  <1>4. queue' = q
    OBVIOUS
  <1> HIDE DEF q, v, n
  <1>5. \A i \in 1..(n + 1) : Follows(v[i], q[i], v[i + 1])
    <2> TAKE i \in 1..(n + 1)
    <2>1. CASE i \in 1..n
      <3>1. i \in 1..(n + 1) /\ i + 1 \in 1..(n + 1)
        BY <1>1, <2>1
      <3>2. QED
        BY <1>1, <1>3, <2>1, <3>1 DEF Channel
    <2>2. CASE i = n + 1
      <3>1. i + 1 = n + 2 /\ v[i] = st[Len(st)] /\ q[i] = u /\ v[i + 1] = t
        BY <1>1, <1>2, <1>3, <2>2
      <3>2. QED
        BY <3>1
    <2>3. QED
      BY <1>1, <2>1, <2>2
  <1>6. \A i \in 1..(n + 2) : v[i].fin <= l1_finalized
    <2> TAKE i \in 1..(n + 2)
    <2>1. i \in 1..(n + 1) \/ i = n + 2
      BY <1>1
    <2>2. QED
      BY <1>2, <1>3, <2>1 DEF Channel
  <1>7. v[1] = st[1] /\ AtFront(st[1])
    <2>1. 1 \in 1..(n + 1)
      BY <1>1
    <2>2. QED
      BY <1>3, <2>1 DEF Channel
  <1>8. ASSUME NEW x \in Seq(Told), x = v PROVE Channel(x)'
    <2>1. Len(x) = n + 2 /\ Len(queue') = n + 1 /\ DOMAIN x = 1..(n + 2)
          /\ DOMAIN queue' = 1..(n + 1) /\ Len(x) = Len(queue') + 1
      BY <1>1, <1>3, <1>4, <1>8
    <2>2. (\A i \in DOMAIN queue : Follows(x[i], queue[i], x[i + 1]))'
      BY <1>4, <1>5, <1>8, <2>1 DEF Follows
    <2>3. AtFront(x[1])'
      BY <1>7, <1>8 DEF AtFront
    <2>4. AtBack(x[Len(x)])'
      BY <1>3, <1>8, <2>1
    <2>5. QED
      BY <1>6, <1>8, <2>1, <2>2, <2>3, <2>4 DEF Channel
  <1>9. QED
    BY <1>3, <1>8 DEF ChannelInv

\* The driver takes what it is told.
LEMMA TakeTold ==
    ASSUME Types, NEW st \in Seq(Told), Channel(st), queue # <<>>,
           queue' = Tail(queue), AtFront(st[2])',
           UNCHANGED <<l1_finalized, l1_start, watcher>>
    PROVE  ChannelInv'
  <1> DEFINE n == Len(queue)
             v == Tail(st)
  <1>1. /\ DOMAIN queue' = 1..(n - 1) /\ Len(queue') = n - 1 /\ n \in Nat \ {0}
        /\ DOMAIN queue = 1..n
        /\ \A i \in 1..(n - 1) : queue'[i] = queue[i + 1]
    BY TakeUpdate
  <1>2. Len(st) = n + 1 /\ DOMAIN st = 1..(n + 1)
    BY LenProperties DEF Channel
  <1>3. /\ v \in Seq(Told) /\ Len(v) = n /\ DOMAIN v = 1..n
        /\ \A i \in 1..n : v[i] = st[i + 1]
    <2>1. st # <<>>
      BY <1>1, <1>2, EmptySeq
    <2>2. QED
      BY <1>1, <1>2, <2>1, HeadTailProperties, LenProperties
  <1> HIDE DEF n, v
  <1>4. \A i \in 1..(n - 1) : Follows(v[i], queue'[i], v[i + 1])
    <2> TAKE i \in 1..(n - 1)
    <2>1. i \in 1..n /\ i + 1 \in 1..n
      BY <1>1
    <2>2. Follows(st[i + 1], queue[i + 1], st[(i + 1) + 1])
      BY <1>1, <2>1 DEF Channel
    <2>3. QED
      BY <1>1, <1>3, <2>1, <2>2
  <1>5. \A i \in 1..n : v[i].fin <= l1_finalized
    <2> TAKE i \in 1..n
    <2>1. i + 1 \in 1..(n + 1)
      BY <1>1
    <2>2. QED
      BY <1>2, <1>3, <2>1 DEF Channel
  <1>6. v[1] = st[2] /\ v[n] = st[Len(st)]
    BY <1>1, <1>2, <1>3
  <1>7. ASSUME NEW x \in Seq(Told), x = v PROVE Channel(x)'
    <2>1. Len(x) = n /\ DOMAIN x = 1..n /\ DOMAIN queue' = 1..(n - 1) /\ Len(x) = Len(queue') + 1
      BY <1>1, <1>3, <1>7
    <2>2. (\A i \in DOMAIN queue : Follows(x[i], queue[i], x[i + 1]))'
      BY <1>4, <1>7, <2>1 DEF Follows
    <2>3. AtFront(x[1])'
      BY <1>6, <1>7
    <2>4. AtBack(x[Len(x)])'
      BY <1>6, <1>7, <2>1 DEF Channel, AtBack
    <2>5. QED
      BY <1>5, <1>7, <2>1, <2>2, <2>3, <2>4 DEF Channel
  <1>8. QED
    BY <1>3, <1>7 DEF ChannelInv

\* The last thing told.
LEMMA BackFacts ==
    ASSUME Types, NEW st \in Seq(Told), Channel(st)
    PROVE  LET s == st[Len(st)]
           IN  /\ s \in Told /\ s.next \in Nat /\ s.hash \in Nat /\ s.fin \in Nat
               /\ AtBack(s) /\ s.fin <= l1_finalized
               /\ st[1] \in Told /\ st[1].fin <= l1_finalized
  <1>1. Len(st) = Len(queue) + 1 /\ Len(queue) \in Nat /\ DOMAIN st = 1..Len(st)
    BY LenProperties DEF Channel, Types
  <1>2. Len(st) \in 1..Len(st) /\ 1 \in 1..Len(st)
    BY <1>1
  <1>3. st[Len(st)] \in Told /\ st[1] \in Told
    BY <1>2, ElementOfSeq
  <1>4. QED
    BY <1>1, <1>2, <1>3 DEF Channel, Told

\* Without an update the channel is as it was.
LEMMA SameChannel ==
    ASSUME Types, ChannelInv, UNCHANGED <<queue, l1_start, applied, seen_finalized>>,
           l1_finalized <= l1_finalized', l1_finalized' \in Nat,
           watcher'.current_block = watcher.current_block,
           watcher'.finalized_block = watcher.finalized_block,
           watcher'.unfinalized_blocks = watcher.unfinalized_blocks
    PROVE  ChannelInv'
  <1>1. PICK st \in Seq(Told) : Channel(st)
    BY DEF ChannelInv
  <1>2. \A i \in DOMAIN st : st[i].fin <= l1_finalized'
    <2> TAKE i \in DOMAIN st
    <2>1. st[i] \in Told
      BY ElementOfSeq, LenProperties
    <2>2. st[i].fin \in Nat /\ l1_finalized \in Nat /\ st[i].fin <= l1_finalized
      BY <1>1, <2>1 DEF Channel, Told, Types
    <2>3. QED
      BY <2>2
  <1>3. \A i \in DOMAIN queue : Follows(st[i], queue[i], st[i + 1])'
    BY <1>1 DEF Channel, Follows
  <1>4. AtFront(st[1])' /\ AtBack(st[Len(st)])'
    BY <1>1 DEF Channel, AtFront, AtBack
  <1>5. Channel(st)'
    BY <1>1, <1>2, <1>3, <1>4 DEF Channel
  <1>6. QED
    BY <1>5 DEF ChannelInv


\* A watcher that starts with a new channel has told the driver nothing.
Fresh ==
    /\ queue = <<>> /\ applied = <<>>
    /\ l1_start \in Nat /\ l1_finalized \in Nat /\ seen_finalized \in 0..l1_finalized
    /\ watcher.current_block = l1_start /\ watcher.finalized_block = 0
    /\ watcher.unfinalized_blocks = <<>>

LEMMA FreshChannel == Fresh => ChannelInv /\ Contiguous /\ UnlinkedOnlyIfFinalized
  <1> SUFFICES ASSUME Fresh PROVE ChannelInv /\ Contiguous /\ UnlinkedOnlyIfFinalized
    OBVIOUS
  <1> USE DEF Fresh
  <1> DEFINE s == [next |-> l1_start, hash |-> 0, fin |-> seen_finalized]
             st == <<s>>
  <1>1. s \in Told
    BY DEF Told
  <1>2. st \in Seq(Told) /\ Len(st) = 1 /\ DOMAIN st = {1} /\ st[1] = s
    BY <1>1
  <1>3. Len(queue) = 0 /\ DOMAIN queue = {} /\ Len(applied) = 0 /\ DOMAIN applied = {}
    OBVIOUS
  <1>4. AtFront(s) /\ AtBack(s) /\ s.fin <= l1_finalized
    BY <1>3 DEF AtFront, AtBack
  <1> HIDE DEF s, st
  <1>5. Channel(st)
    BY <1>2, <1>3, <1>4 DEF Channel
  <1>6. QED
    BY <1>2, <1>3, <1>5 DEF ChannelInv, Contiguous, UnlinkedOnlyIfFinalized

LEMMA InitInv == Init => IndInv
  <1> SUFFICES ASSUME Init PROVE IndInv
    OBVIOUS
  <1>1. Types /\ RoundInv
    BY TypesInit
  <1>2. watcher = Starting(l1_start) /\ queue = <<>> /\ applied = <<>> /\ seen_finalized = 0
    BY DEF Init
  <1>3. l1_start \in Nat /\ l1_finalized \in Nat
    BY <1>1 DEF Types
  <1>4. NoUpdate \in Config
    BY DEF Config
  <1>5. Fresh
    BY <1>2, <1>3, <1>4, StartType DEF Fresh
  <1>6. QED
    BY <1>1, <1>5, FreshChannel DEF IndInv

-----------------------------------------------------------------------------
(* The steps *)

LEMMA L1Step ==
    ASSUME IndInv, L1Next, UNCHANGED <<task_vars, driver_vars, failures>>
    PROVE  IndInv'
  <1>1. UNCHANGED <<watcher, queue, applied, l1_start, seen_finalized, epoch>>
    BY DEF task_vars, driver_vars
  <1>2. /\ chain' \in Seq(Nat) /\ minted' \in Nat /\ reorgs' \in Nat
        /\ l1_finalized' \in 0..Height(chain') /\ l1_finalized <= l1_finalized'
    BY L1Types DEF IndInv
  <1>3. Len(chain') \in Nat
    BY <1>2, LenProperties
  <1>4. l1_finalized' \in Nat /\ l1_finalized \in Nat /\ epoch' \in 0..l1_finalized'
    BY <1>1, <1>2, <1>3 DEF Height, IndInv, Types
  <1>5. Types'
    BY <1>1, <1>2, <1>4 DEF IndInv, Types, Height
  <1>6. RoundInv' /\ Contiguous' /\ UnlinkedOnlyIfFinalized'
    BY <1>1 DEF IndInv, RoundInv, Contiguous, UnlinkedOnlyIfFinalized, Linked
  <1>7. ChannelInv'
    BY <1>1, <1>2, <1>4, SameChannel DEF IndInv
  <1>8. QED
    BY <1>5, <1>6, <1>7 DEF IndInv

LEMMA QuietStep ==
    ASSUME IndInv, Quiet
    PROVE  IndInv'
  <1>1. /\ Types' /\ RoundInv'
        /\ UNCHANGED <<l1_vars, queue, driver_vars>>
        /\ watcher'.current_block = watcher.current_block
        /\ watcher'.finalized_block = watcher.finalized_block
        /\ watcher'.unfinalized_blocks = watcher.unfinalized_blocks
    BY QuietTypes DEF IndInv
  <1>2. UNCHANGED <<queue, applied, l1_start, seen_finalized, epoch, l1_finalized>>
    BY <1>1 DEF l1_vars, driver_vars
  <1>3. l1_finalized' \in Nat /\ l1_finalized <= l1_finalized'
    BY <1>2 DEF IndInv, Types
  <1>4. ChannelInv'
    BY <1>1, <1>2, <1>3, SameChannel DEF IndInv
  <1>5. Contiguous' /\ UnlinkedOnlyIfFinalized'
    BY <1>2 DEF IndInv, Contiguous, UnlinkedOnlyIfFinalized, Linked
  <1>6. QED
    BY <1>1, <1>4, <1>5 DEF IndInv

\* The blocks left when more is final end with the block told last, or are none because
\* that block is final too.
LEMMA UpdateFinalizedStep ==
    ASSUME IndInv, UpdateFinalized
    PROVE  IndInv'
  <1> DEFINE f == l1_finalized
             blocks == watcher.unfinalized_blocks
             kept == Retained(blocks, f)
  <1>1. UNCHANGED <<l1_vars, driver_vars, failures>> /\ watcher.pc = "finality"
    BY DEF UpdateFinalized
  <1>2. UNCHANGED <<chain, minted, reorgs, l1_finalized, applied, l1_start, seen_finalized, epoch>>
    BY <1>1 DEF l1_vars, driver_vars
  <1>3. Types /\ watcher \in Watcher /\ f \in Nat /\ blocks \in Seq(Block) /\ queue \in Seq(Update)
        /\ watcher.finalized_block \in Nat /\ watcher.current_block \in Nat
    BY DEF IndInv, Types, Watcher
  <1>4. Contiguous' /\ UnlinkedOnlyIfFinalized'
    BY <1>2 DEF IndInv, Contiguous, UnlinkedOnlyIfFinalized, Linked
  <1>5. CASE /\ watcher.finalized_block < f
             /\ queue' = Append(queue, [type |-> "FinalityUpdate", number |-> f])
             /\ watcher' = [watcher EXCEPT !.pc = "head", !.finalized_block = f,
                               !.unfinalized_blocks = kept]
    <2> DEFINE I == {i \in DOMAIN blocks : blocks[i].number > f}
    <2>1. I \in SUBSET (DOMAIN blocks) /\ kept = Keep(blocks, I)
      BY DEF Retained
    <2>2. /\ kept \in Seq(Block)
          /\ kept = <<>> <=> I = {}
          /\ \A k \in DOMAIN kept : \E x \in I : kept[k] = blocks[x]
          /\ Len(blocks) \in I => kept[Len(kept)] = blocks[Len(blocks)]
      <3> HIDE DEF I, kept, blocks
      <3>1. QED
        BY <1>3, <2>1, KeepFacts, KeepLast
    <2>3. PICK u \in Update : u = [type |-> "FinalityUpdate", number |-> f]
      BY <1>3, UpdateTypes
    <2> HIDE DEF kept, f
    <2>4. /\ watcher' \in Watcher /\ watcher'.pc = "head"
          /\ watcher'.current_block = watcher.current_block
          /\ watcher'.finalized_block = f /\ watcher'.unfinalized_blocks = kept
      BY <1>3, <1>5, <2>2 DEF Watcher
    <2>5. RoundInv'
      BY <2>4 DEF RoundInv
    <2>6. Types'
      <3>1. queue' \in Seq(Update)
        BY <1>3, <1>5, <2>3, PutUpdate
      <3>2. QED
        BY <1>2, <2>4, <3>1 DEF Types, IndInv, Height
    <2>7. PICK st \in Seq(Told) : Channel(st)
      BY DEF IndInv, ChannelInv
    <2> DEFINE s == st[Len(st)]
    <2>8. s \in Told /\ s.next \in Nat /\ s.hash \in Nat /\ s.fin \in Nat
          /\ AtBack(s) /\ s.fin <= f
      BY <1>3, <2>7, BackFacts DEF f
    <2> HIDE DEF s
    <2>9. PICK t \in Told : t.next = s.next /\ t.hash = s.hash /\ t.fin = f
      <3>1. [next |-> s.next, hash |-> s.hash, fin |-> f] \in Told
        BY <1>3, <2>8 DEF Told
      <3>2. QED
        BY <3>1
    <2>10. Follows(s, u, t)
      BY <2>3, <2>8, <2>9 DEF Follows
    <2>11. Len(blocks) \in Nat /\ DOMAIN blocks = 1..Len(blocks)
           /\ \A i \in DOMAIN blocks : blocks[i].number \in Nat
      <3>1. Len(blocks) \in Nat /\ DOMAIN blocks = 1..Len(blocks)
            /\ \A i \in 1..Len(blocks) : blocks[i] \in Block
        <4> HIDE DEF blocks
        <4>1. QED
          BY <1>3, LenProperties, ElementOfSeq
      <3>2. QED
        BY <3>1 DEF Block
    <2>12. /\ s.next = watcher.current_block
           /\ \A i \in DOMAIN blocks : blocks[i].number < s.next
           /\ blocks # <<>> => /\ blocks[Len(blocks)].number = s.next - 1
                               /\ blocks[Len(blocks)].hash = s.hash
           /\ blocks = <<>> => s.next <= l1_start \/ s.next - 1 <= watcher.finalized_block
      BY <2>8 DEF AtBack
    <2>13. blocks # <<>> => Len(blocks) \in DOMAIN blocks
      BY <1>3, <2>11, EmptySeq
    <2> HIDE DEF blocks
    <2>14. \A k \in DOMAIN kept : kept[k].number < s.next
      <3> TAKE k \in DOMAIN kept
      <3>1. PICK x \in I : kept[k] = blocks[x]
        BY <2>2
      <3>2. QED
        BY <2>12, <3>1
    <2>15. kept # <<>> => /\ kept[Len(kept)].number = s.next - 1
                          /\ kept[Len(kept)].hash = s.hash
                          /\ f <= s.next - 1
      <3> SUFFICES ASSUME kept # <<>>
                   PROVE  /\ kept[Len(kept)].number = s.next - 1
                          /\ kept[Len(kept)].hash = s.hash
                          /\ f <= s.next - 1
        OBVIOUS
      <3>1. PICK x \in I : TRUE
        BY <2>2
      <3>2. x \in DOMAIN blocks /\ blocks[x].number > f /\ blocks[x].number < s.next
            /\ blocks[x].number \in Nat /\ blocks # <<>>
        BY <2>11, <2>12, <3>1
      <3>3. f < s.next - 1
        BY <1>3, <2>8, <3>2
      <3>4. Len(blocks) \in I
        BY <2>12, <2>13, <3>2, <3>3
      <3>5. QED
        BY <1>3, <2>2, <2>8, <2>12, <3>2, <3>3, <3>4
    <2>16. kept = <<>> => s.next <= l1_start \/ s.next - 1 <= f
      <3> SUFFICES ASSUME kept = <<>>
                   PROVE  s.next <= l1_start \/ s.next - 1 <= f
        OBVIOUS
      <3>1. CASE blocks = <<>>
        BY <1>3, <1>5, <2>8, <2>12, <3>1
      <3>2. CASE blocks # <<>>
        <4>1. ~(blocks[Len(blocks)].number > f)
          BY <2>2, <2>13, <3>2
        <4>2. QED
          BY <1>3, <2>8, <2>12, <3>2, <4>1
      <3>3. QED
        BY <3>1, <3>2
    <2>17. AtBack(t)'
      BY <1>2, <1>3, <2>4, <2>9, <2>12, <2>14, <2>15, <2>16 DEF AtBack
    <2>18. ChannelInv'
      <3>1. queue' = Append(queue, u) /\ t.fin <= l1_finalized
        BY <1>3, <1>5, <2>3, <2>9 DEF f
      <3>2. QED
        BY <1>2, <1>3, <2>7, <2>10, <2>17, <3>1, PutTold DEF s
    <2>19. QED
      BY <1>4, <2>5, <2>6, <2>18 DEF IndInv
  <1>6. CASE watcher' = [watcher EXCEPT !.pc = "head"] /\ UNCHANGED queue
    <2>1. /\ watcher' \in Watcher /\ watcher'.pc = "head"
          /\ watcher'.current_block = watcher.current_block
          /\ watcher'.finalized_block = watcher.finalized_block
          /\ watcher'.unfinalized_blocks = watcher.unfinalized_blocks
      BY <1>3, <1>6 DEF Watcher
    <2>2. Types' /\ RoundInv'
      BY <1>2, <1>6, <2>1 DEF IndInv, Types, RoundInv, Height
    <2>3. l1_finalized' \in Nat /\ l1_finalized <= l1_finalized'
      BY <1>2, <1>3
    <2>4. ChannelInv'
      BY <1>2, <1>6, <2>1, <2>3, SameChannel DEF IndInv
    <2>5. QED
      BY <1>4, <2>2, <2>4 DEF IndInv
  <1>7. QED
    BY <1>5, <1>6 DEF UpdateFinalized


\* What the watcher knows when it has read a block to send.
LEMMA AtSend ==
    ASSUME IndInv, watcher.pc = "batches"
    PROVE  /\ watcher.block \in Block /\ watcher.block.number = watcher.current_block
           /\ L1Info \in Info /\ L1Info.number = watcher.current_block
           /\ L1Info.hash = watcher.block.hash /\ L1Info.parent_hash = watcher.block.parent_hash
           /\ watcher.current_block \in Nat /\ watcher.finalized_block \in Nat
           /\ watcher.unfinalized_blocks \in Seq(Block)
  <1>1. watcher.block \in Block /\ watcher.user_deposits \in Nat /\ watcher.system_config \in Config
        /\ watcher.current_block \in Nat /\ watcher.finalized_block \in Nat
        /\ watcher.unfinalized_blocks \in Seq(Block)
    BY DEF IndInv, Types, Watcher
  <1>2. watcher.block.number = watcher.current_block
    BY DEF IndInv, RoundInv
  <1>3. BatcherTransactions(watcher.block) \in BOOLEAN
    BY DEF BatcherTransactions
  <1>4. L1Info \in Info
    BY <1>1, <1>3 DEF L1Info, Info, Block
  <1>5. QED
    BY <1>1, <1>2, <1>4 DEF L1Info

\* The block that is sent has the number to be told next; it is compared with the block
\* told last, unless that one is final.
LEMMA SendStep ==
    ASSUME IndInv, Send
    PROVE  IndInv'
  <1> DEFINE old == watcher.unfinalized_blocks
             b == watcher.block
             fin == watcher.finalized_block
             n == watcher.current_block
             more == Append(old, b)
             blocks == IF b.number >= fin THEN more ELSE old
             msg == IF CheckReorg(blocks) THEN [type |-> "Reorg"]
                    ELSE [type |-> "NewBlock", info |-> L1Info]
  <1>1. /\ watcher.pc = "batches" /\ queue' = Append(queue, msg)
        /\ watcher' = [watcher EXCEPT !.pc = "finality", !.unfinalized_blocks = blocks,
                         !.current_block = @ + 1]
        /\ UNCHANGED <<l1_vars, driver_vars, failures>>
    BY DEF Send
  <1>2. UNCHANGED <<chain, minted, reorgs, l1_finalized, applied, l1_start, seen_finalized, epoch>>
    BY <1>1 DEF l1_vars, driver_vars
  <1>3. Types /\ watcher \in Watcher /\ queue \in Seq(Update)
    BY DEF IndInv, Types
  <1>4. /\ b \in Block /\ b.number = n /\ n \in Nat /\ fin \in Nat /\ old \in Seq(Block)
        /\ L1Info \in Info /\ L1Info.number = n /\ L1Info.hash = b.hash
        /\ L1Info.parent_hash = b.parent_hash
    BY <1>1, AtSend
  <1>5. Contiguous' /\ UnlinkedOnlyIfFinalized'
    BY <1>2 DEF IndInv, Contiguous, UnlinkedOnlyIfFinalized, Linked
  <1>6. PICK u \in Update : u = msg
    BY <1>4, UpdateTypes
  <1>7. PICK st \in Seq(Told) : Channel(st)
    BY DEF IndInv, ChannelInv
  <1> DEFINE s == st[Len(st)]
  <1>8. /\ s \in Told /\ s.next \in Nat /\ s.hash \in Nat /\ s.fin \in Nat
        /\ AtBack(s) /\ s.fin <= l1_finalized
    BY <1>3, <1>7, BackFacts
  <1> HIDE DEF s
  <1>9. /\ s.next = n /\ fin <= s.fin
        /\ \A i \in DOMAIN old : old[i].number < n
        /\ old # <<>> => /\ old[Len(old)].number = n - 1
                         /\ old[Len(old)].hash = s.hash
                         /\ fin <= n - 1
        /\ old = <<>> => n <= l1_start \/ n - 1 <= fin
    BY <1>8 DEF AtBack
  <1>10. PICK t \in Told : t.next = n + 1 /\ t.hash = b.hash /\ t.fin = s.fin
    <2>1. b.hash \in Nat
      BY <1>4 DEF Block
    <2>2. [next |-> n + 1, hash |-> b.hash, fin |-> s.fin] \in Told
      BY <1>4, <1>8, <2>1 DEF Told
    <2>3. QED
      BY <2>2
  <1>11. Len(old) \in Nat /\ DOMAIN old = 1..Len(old) /\ (old = <<>> <=> Len(old) = 0)
         /\ more \in Seq(Block) /\ Len(more) = Len(old) + 1 /\ more # <<>>
         /\ DOMAIN more = 1..(Len(old) + 1)
         /\ (\A i \in 1..Len(old) : more[i] = old[i])
         /\ more[Len(old) + 1] = b
    <2> HIDE DEF old, b
    <2>1. QED
      BY <1>4, AppendProperties, LenProperties, EmptySeq
  <1> HIDE DEF msg, more
  <1>12. /\ blocks \in Seq(Block)
         /\ \A i \in DOMAIN blocks : blocks[i].number < n + 1
         /\ blocks # <<>> => /\ blocks[Len(blocks)].number = n
                             /\ blocks[Len(blocks)].hash = b.hash
                             /\ fin <= n
         /\ blocks = <<>> => n <= fin
    <2> HIDE DEF old, b, n, fin
    <2>1. CASE b.number >= fin
      <3>1. blocks = more /\ blocks # <<>>
        BY <1>11, <2>1
      <3>2. \A i \in 1..(Len(old) + 1) : blocks[i].number < n + 1
        <4> TAKE i \in 1..(Len(old) + 1)
        <4>1. CASE i \in 1..Len(old)
          <5>1. old[i].number < n /\ old[i].number \in Nat
            <6>1. old[i] \in Block
              BY <1>4, <4>1, ElementOfSeq
            <6>2. QED
              BY <1>9, <1>11, <4>1, <6>1 DEF Block
          <5>2. QED
            BY <1>4, <1>11, <3>1, <4>1, <5>1
        <4>2. CASE i = Len(old) + 1
          BY <1>4, <1>11, <3>1, <4>2
        <4>3. QED
          BY <1>11, <4>1, <4>2
      <3>3. QED
        BY <1>4, <1>11, <2>1, <3>1, <3>2
    <2>2. CASE ~(b.number >= fin)
      <3>1. old = <<>> /\ n < fin
        BY <1>4, <1>9, <2>2
      <3>2. blocks = <<>>
        BY <2>2, <3>1
      <3>3. QED
        BY <1>4, <1>11, <3>1, <3>2
    <2>3. QED
      BY <2>1, <2>2
  <1>13. Follows(s, u, t)
    <2>1. u.type = "NewBlock" => u.info = L1Info /\ ~CheckReorg(blocks)
      BY <1>6 DEF msg
    <2>2. u.type # "FinalityUpdate"
      BY <1>6 DEF msg
    <2>3. ASSUME ~CheckReorg(blocks), n > l1_start
          PROVE  b.parent_hash = s.hash \/ n - 1 <= s.fin
      <3>1. CASE old = <<>>
        BY <1>3, <1>4, <1>8, <1>9, <2>3, <3>1 DEF Types
      <3>2. CASE old # <<>> /\ b.number >= fin
        <4>1. blocks = more /\ ~CheckReorg(more)
          BY <2>3, <3>2
        <4> HIDE DEF old, b, n, fin, blocks
        <4>2. Len(old) \in 1..Len(old) /\ Len(more) - 1 = Len(old) /\ Len(more) >= 2
          BY <1>11, <3>2
        <4>3. b.parent_hash = old[Len(old)].hash
          BY <1>11, <4>1, <4>2 DEF CheckReorg
        <4>4. QED
          BY <1>9, <3>2, <4>3
      <3>3. CASE old # <<>> /\ ~(b.number >= fin)
        BY <1>4, <1>9, <3>3
      <3>4. QED
        BY <3>1, <3>2, <3>3
    <2> HIDE DEF blocks, b, n, fin, old
    <2>4. QED
      BY <1>4, <1>9, <1>10, <2>1, <2>2, <2>3 DEF Follows
  <1> HIDE DEF blocks
  <1>14. /\ watcher' \in Watcher /\ watcher'.pc = "finality" /\ watcher'.current_block = n + 1
         /\ watcher'.finalized_block = fin /\ watcher'.unfinalized_blocks = blocks
    <2>1. n + 1 \in Nat
      BY <1>4
    <2>2. QED
      BY <1>1, <1>3, <1>12, <2>1 DEF Watcher
  <1>15. Types'
    <2>1. queue' \in Seq(Update)
      BY <1>1, <1>3, <1>6, PutUpdate
    <2>2. QED
      BY <1>2, <1>3, <1>14, <2>1 DEF Types, Height
  <1>16. RoundInv'
    BY <1>14 DEF RoundInv
  <1>17. AtBack(t)'
    <2> HIDE DEF n, b, fin, old
    <2>1. n + 1 - 1 = n
      BY <1>4
    <2>2. QED
      BY <1>2, <1>8, <1>9, <1>10, <1>12, <1>14, <2>1 DEF AtBack
  <1>18. ChannelInv'
    <2>1. queue' = Append(queue, u) /\ t.fin <= l1_finalized
      BY <1>1, <1>6, <1>8, <1>10
    <2>2. QED
      BY <1>2, <1>3, <1>7, <1>13, <1>17, <2>1, PutTold DEF s
  <1>19. QED
    BY <1>5, <1>15, <1>16, <1>18 DEF IndInv

\* What the driver is told next.
LEMMA FrontFacts ==
    ASSUME Types, NEW st \in Seq(Told), Channel(st), queue # <<>>
    PROVE  /\ st[1] \in Told /\ st[2] \in Told
           /\ Follows(st[1], queue[1], st[2]) /\ AtFront(st[1]) /\ st[2].fin <= l1_finalized
           /\ Head(queue) = queue[1] /\ queue[1] \in Update /\ Tail(queue) \in Seq(Update)
  <1>1. Head(queue) = queue[1] /\ queue[1] \in Update /\ Tail(queue) \in Seq(Update)
        /\ 1 \in DOMAIN queue /\ Len(queue) \in Nat \ {0}
    BY TakeUpdate
  <1>2. Len(st) = Len(queue) + 1 /\ DOMAIN st = 1..Len(st)
    BY LenProperties DEF Channel
  <1>3. 1 \in DOMAIN st /\ 2 \in DOMAIN st
    BY <1>1, <1>2
  <1>4. st[1] \in Told /\ st[2] \in Told
    BY <1>2, <1>3, ElementOfSeq
  <1>5. Follows(st[1], queue[1], st[1 + 1])
    BY <1>1 DEF Channel
  <1>6. QED
    BY <1>1, <1>3, <1>4, <1>5 DEF Channel

\* The block the driver takes has the next number and extends the last one, or the last
\* one is final and the driver was told so.
LEMMA HandleNewBlockStep ==
    ASSUME IndInv, HandleNewBlock
    PROVE  IndInv'
  <1>1. /\ queue # <<>> /\ Head(queue).type = "NewBlock"
        /\ applied' = Append(applied, Head(queue).info) /\ queue' = Tail(queue)
        /\ UNCHANGED <<chain, minted, reorgs, l1_finalized, watcher, l1_start, seen_finalized, epoch>>
    BY DEF HandleNewBlock, l1_vars
  <1>2. Types /\ applied \in Seq(Info) /\ l1_start \in Nat /\ seen_finalized \in Nat
    BY DEF IndInv, Types
  <1>3. PICK st \in Seq(Told) : Channel(st)
    BY DEF IndInv, ChannelInv
  <1>4. /\ st[1] \in Told /\ st[2] \in Told
        /\ Follows(st[1], queue[1], st[2]) /\ AtFront(st[1]) /\ st[2].fin <= l1_finalized
        /\ Head(queue) = queue[1] /\ queue[1] \in Update /\ Tail(queue) \in Seq(Update)
    BY <1>1, <1>2, <1>3, FrontFacts
  <1>5. PICK i \in Info : i = queue[1].info
    BY <1>1, <1>4, UpdateTypes
  <1> DEFINE m == Len(applied)
  <1>6. /\ m \in Nat /\ DOMAIN applied = 1..m
        /\ applied' \in Seq(Info) /\ Len(applied') = m + 1 /\ DOMAIN applied' = 1..(m + 1)
        /\ \A k \in 1..m : applied'[k] = applied[k]
        /\ applied'[m + 1] = i
    BY <1>1, <1>2, <1>4, <1>5, AppendProperties, LenProperties
  <1>7. /\ i.number = l1_start + m
        /\ m > 0 => i.parent_hash = applied[m].hash \/ l1_start + m - 1 <= seen_finalized
        /\ st[2].next = l1_start + m + 1 /\ st[2].hash = i.hash /\ st[2].fin = seen_finalized
    <2>1. m > 0 => applied # <<>>
      OBVIOUS
    <2>2. st[1].next = l1_start + m /\ (m > 0 => st[1].hash = applied[m].hash)
          /\ st[1].fin = seen_finalized
      BY <1>4, <2>1 DEF AtFront
    <2>3. /\ i.number = st[1].next
          /\ st[1].next > l1_start => i.parent_hash = st[1].hash \/ st[1].next - 1 <= st[1].fin
          /\ st[2].next = st[1].next + 1 /\ st[2].hash = i.hash /\ st[2].fin = st[1].fin
      BY <1>1, <1>4, <1>5 DEF Follows
    <2>4. QED
      BY <1>2, <1>6, <2>2, <2>3
  <1> HIDE DEF m
  <1>8. Contiguous'
    <2>1. ASSUME NEW k \in 1..(m + 1) PROVE applied'[k].number = l1_start + k - 1
      <3>1. CASE k \in 1..m
        BY <1>6, <3>1 DEF IndInv, Contiguous
      <3>2. CASE k = m + 1
        BY <1>2, <1>6, <1>7, <3>2
      <3>3. QED
        BY <1>6, <3>1, <3>2
    <2>2. QED
      BY <1>1, <1>6, <2>1 DEF Contiguous
  <1>9. UnlinkedOnlyIfFinalized'
    <2>1. ASSUME NEW k \in 2..(m + 1)
          PROVE  \/ applied'[k].parent_hash = applied'[k - 1].hash
                 \/ applied'[k - 1].number <= seen_finalized
      <3>1. CASE k \in 2..m
        <4>1. k \in 1..m /\ k - 1 \in 1..m /\ k \in 2..Len(applied)
          BY <1>6, <3>1 DEF m
        <4>2. Linked(k) \/ applied[k - 1].number <= seen_finalized
          BY <4>1 DEF IndInv, UnlinkedOnlyIfFinalized
        <4>3. QED
          BY <1>6, <4>1, <4>2 DEF Linked
      <3>2. CASE k = m + 1
        <4>1. k - 1 = m /\ m \in 1..m /\ m > 0
          BY <1>6, <3>2
        <4>2. applied[m].number = l1_start + m - 1
          BY <1>6, <4>1 DEF IndInv, Contiguous
        <4>3. QED
          BY <1>6, <1>7, <3>2, <4>1, <4>2
      <3>3. QED
        BY <1>6, <3>1, <3>2
    <2>2. QED
      BY <1>1, <1>6, <2>1 DEF UnlinkedOnlyIfFinalized, Linked
  <1>10. Types' /\ RoundInv'
    BY <1>1, <1>4, <1>6 DEF IndInv, Types, RoundInv, Height
  <1>11. AtFront(st[2])'
    <2>1. st[2].next = l1_start + (m + 1)
      BY <1>2, <1>6, <1>7
    <2>2. applied'[Len(applied')] = i
      BY <1>6
    <2>3. QED
      BY <1>1, <1>6, <1>7, <2>1, <2>2 DEF AtFront
  <1>12. ChannelInv'
    BY <1>1, <1>2, <1>3, <1>11, TakeTold
  <1>13. QED
    BY <1>8, <1>9, <1>10, <1>12 DEF IndInv

\* What the driver knows to be final only grows.
LEMMA HandleFinalityStep ==
    ASSUME IndInv, HandleFinality
    PROVE  IndInv'
  <1>1. /\ queue # <<>> /\ Head(queue).type = "FinalityUpdate"
        /\ seen_finalized' = Head(queue).number /\ queue' = Tail(queue)
        /\ UNCHANGED <<chain, minted, reorgs, l1_finalized, watcher, applied, l1_start, epoch>>
    BY DEF HandleFinality, l1_vars
  <1>2. Types /\ applied \in Seq(Info) /\ l1_start \in Nat /\ seen_finalized \in Nat
    BY DEF IndInv, Types
  <1>3. PICK st \in Seq(Told) : Channel(st)
    BY DEF IndInv, ChannelInv
  <1>4. /\ st[1] \in Told /\ st[2] \in Told
        /\ Follows(st[1], queue[1], st[2]) /\ AtFront(st[1]) /\ st[2].fin <= l1_finalized
        /\ Head(queue) = queue[1] /\ queue[1] \in Update /\ Tail(queue) \in Seq(Update)
    BY <1>1, <1>2, <1>3, FrontFacts
  <1>5. seen_finalized' \in Nat
    BY <1>1, <1>4, UpdateTypes
  <1>6. /\ seen_finalized' >= seen_finalized /\ st[2].fin = seen_finalized'
        /\ st[2].next = st[1].next /\ st[2].hash = st[1].hash
    BY <1>1, <1>4 DEF Follows, AtFront
  <1>7. Types' /\ RoundInv' /\ Contiguous'
    BY <1>1, <1>4, <1>5 DEF IndInv, Types, RoundInv, Contiguous, Height
  <1>8. UnlinkedOnlyIfFinalized'
    <2>1. ASSUME NEW k \in 2..Len(applied)
          PROVE  Linked(k) \/ applied[k - 1].number <= seen_finalized'
      <3>1. Len(applied) \in Nat
        BY <1>2, LenProperties
      <3>2. k - 1 \in 1..Len(applied)
        BY <3>1
      <3>3. applied[k - 1] \in Info
        BY <1>2, <3>2, ElementOfSeq
      <3>4. applied[k - 1].number \in Nat
        BY <3>3 DEF Info
      <3>5. Linked(k) \/ applied[k - 1].number <= seen_finalized
        BY DEF IndInv, UnlinkedOnlyIfFinalized
      <3>6. QED
        BY <1>2, <1>5, <1>6, <3>4, <3>5
    <2>2. QED
      BY <1>1, <2>1 DEF UnlinkedOnlyIfFinalized, Linked
  <1>9. AtFront(st[2])'
    BY <1>1, <1>4, <1>6 DEF AtFront
  <1>10. ChannelInv'
    BY <1>1, <1>2, <1>3, <1>9, TakeTold
  <1>11. QED
    BY <1>7, <1>8, <1>10 DEF IndInv

\* The new watcher starts below something final, with a new channel.
LEMMA HandleReorgStep ==
    ASSUME IndInv, HandleReorg
    PROVE  IndInv'
  <1>1. PICK e \in epoch..seen_finalized \cup {epoch} :
          /\ epoch' = e /\ l1_start' = L1StartBlock(e) /\ watcher' = Starting(L1StartBlock(e))
    BY DEF HandleReorg
  <1>2. /\ queue # <<>> /\ queue' = <<>> /\ applied' = <<>>
        /\ UNCHANGED <<chain, minted, reorgs, l1_finalized, seen_finalized>>
    BY DEF HandleReorg, l1_vars
  <1>3. Types /\ seen_finalized \in Nat /\ l1_finalized \in Nat /\ epoch \in 0..l1_finalized
    BY DEF IndInv, Types
  <1>4. PICK st \in Seq(Told) : Channel(st)
    BY DEF IndInv, ChannelInv
  <1>5. seen_finalized <= l1_finalized
    <2>1. st[1].fin <= l1_finalized
      BY <1>3, <1>4, BackFacts
    <2>2. QED
      BY <1>4, <2>1 DEF Channel, AtFront
  <1>6. e \in 0..l1_finalized /\ e \in Nat
    BY <1>1, <1>3, <1>5
  <1>7. L1StartBlock(e) \in Nat /\ NoUpdate \in Config
    BY <1>6, StartBlockType DEF Config
  <1>8. /\ watcher' \in Watcher /\ watcher'.pc = "new" /\ watcher'.current_block = l1_start'
        /\ watcher'.finalized_block = 0 /\ watcher'.unfinalized_blocks = <<>>
    BY <1>1, <1>7, StartType
  <1>9. queue' \in Seq(Update) /\ applied' \in Seq(Info)
    BY <1>2, EmptySeq
  <1>10. Types' /\ RoundInv'
    BY <1>1, <1>2, <1>3, <1>6, <1>7, <1>8, <1>9 DEF Types, RoundInv, Height
  <1>11. Fresh'
    BY <1>1, <1>2, <1>3, <1>5, <1>7, <1>8 DEF Fresh
  <1>12. (ChannelInv /\ Contiguous /\ UnlinkedOnlyIfFinalized)'
    BY <1>11, FreshChannel, PTL
  <1>13. QED
    BY <1>10, <1>12 DEF IndInv

LEMMA Invariance == IndInv /\ [Next]_vars => IndInv'
  <1> SUFFICES ASSUME IndInv, [Next]_vars PROVE IndInv'
    OBVIOUS
  <1>1. CASE UNCHANGED vars
    <2>1. /\ UNCHANGED <<chain, minted, reorgs, l1_finalized, watcher, queue>>
          /\ UNCHANGED <<applied, l1_start, seen_finalized, epoch>>
      BY <1>1 DEF vars, l1_vars, task_vars, driver_vars
    <2>2. Types' /\ RoundInv'
      BY <2>1 DEF IndInv, Types, RoundInv, Height
    <2>3. Contiguous' /\ UnlinkedOnlyIfFinalized'
      BY <2>1 DEF IndInv, Contiguous, UnlinkedOnlyIfFinalized, Linked
    <2>4. l1_finalized' \in Nat /\ l1_finalized <= l1_finalized'
      BY <2>1 DEF IndInv, Types
    <2>5. ChannelInv'
      BY <2>1, <2>4, SameChannel DEF IndInv
    <2>6. QED
      BY <2>2, <2>3, <2>5 DEF IndInv
  <1>2. CASE Quiet
    BY <1>2, QuietStep
  <1>3. QED
    BY <1>1, <1>2, L1Step, UpdateFinalizedStep, SendStep, HandleNewBlockStep, HandleFinalityStep,
       HandleReorgStep DEF Next, WatcherStep, DriverStep, Quiet

LEMMA Inductive == Spec => []IndInv
  BY InitInv, Invariance, PTL DEF Spec

\* What the driver took since the watcher started is one block after the other from the
\* block the watcher was told to start with: a failed call repeats no block and skips none,
\* and nothing of an aborted watcher arrives, whatever L1 does and however small the channel.
THEOREM ContiguousCorrect == Spec => []Contiguous
  BY Inductive, PTL DEF IndInv

\* A block that does not extend the block before it reaches the driver only when the driver
\* was told before that the one before it is final: check_reorg misses nothing else.
THEOREM UnlinkedOnlyIfFinalizedCorrect == Spec => []UnlinkedOnlyIfFinalized
  BY Inductive, PTL DEF IndInv


-----------------------------------------------------------------------------
(* The deposits, until L1 reorganizes *)

\* Block n has hash n + 1, and the watcher knows of no block above the head.
HistoryInv ==
    /\ minted = Len(chain)
    /\ \A i \in 1..Len(chain) : chain[i] = i
    /\ watcher.head_block <= Height(chain)

\* Cached deposits are those of the block they are cached for.
CachedInv ==
    /\ \A m \in DOMAIN watcher.deposits : watcher.deposits[m] = m + 1
    /\ watcher.pc \in {"deposits", "batches"} => watcher.block.hash = watcher.current_block + 1
    /\ watcher.pc = "batches" => watcher.user_deposits = watcher.current_block + 1

SentInv ==
    \A i \in DOMAIN queue :
        queue[i].type = "NewBlock" => queue[i].info.user_deposits = queue[i].info.hash

DepositsInv == reorgs = 0 => HistoryInv /\ CachedInv /\ SentInv /\ DepositsOfBlock

LEMMA DepositsInit == Init => DepositsInv
  <1> SUFFICES ASSUME Init PROVE HistoryInv /\ CachedInv /\ SentInv /\ DepositsOfBlock
    BY DEF DepositsInv
  <1>1. /\ chain \in Seq(Nat) /\ Len(chain) = InitHeight + 1 /\ minted = InitHeight + 1
        /\ InitHeight \in Nat /\ \A i \in 1..(InitHeight + 1) : chain[i] = i
    BY L1Assumption, IsASeq DEF Init, L1Init
  <1>2. l1_start \in Nat /\ NoUpdate \in Config
    BY StartBlockType DEF Init, Config
  <1>3. watcher = Starting(l1_start)
    BY DEF Init
  <1>4. watcher.pc = "new" /\ watcher.head_block = 0 /\ watcher.deposits = <<>>
    BY <1>2, <1>3, StartType
  <1>5. DOMAIN watcher.deposits = {} /\ DOMAIN queue = {} /\ DOMAIN applied = {}
    BY <1>4 DEF Init
  <1>6. HistoryInv
    BY <1>1, <1>4 DEF HistoryInv, Height
  <1>7. QED
    BY <1>4, <1>5, <1>6 DEF CachedInv, SentInv, DepositsOfBlock

\* L1 only grows.
LEMMA DepositsL1 ==
    ASSUME Types, HistoryInv, L1Next, reorgs' = reorgs, UNCHANGED watcher
    PROVE  HistoryInv'
  <1>1. chain \in Seq(Nat) /\ Len(chain) \in Nat /\ minted \in Nat /\ reorgs \in Nat
        /\ watcher.head_block \in Nat
    BY LenProperties DEF Types, Watcher
  <1>2. CASE Mine
    <2>1. chain' = Append(chain, minted + 1) /\ minted' = minted + 1
      BY <1>2 DEF Mine
    <2>2. /\ Len(chain') = Len(chain) + 1 /\ chain'[Len(chain) + 1] = minted + 1
          /\ \A i \in 1..Len(chain) : chain'[i] = chain[i]
      BY <1>1, <2>1, AppendProperties
    <2>3. \A i \in 1..Len(chain') : chain'[i] = i
      <3> TAKE i \in 1..Len(chain')
      <3>1. i \in 1..Len(chain) \/ i = Len(chain) + 1
        BY <1>1, <2>2
      <3>2. QED
        BY <2>2, <3>1 DEF HistoryInv
    <2>4. watcher.head_block <= Len(chain') - 1
      BY <1>1, <2>2 DEF HistoryInv, Height
    <2>5. QED
      BY <2>1, <2>2, <2>3, <2>4 DEF HistoryInv, Height
  <1>3. ASSUME NEW n \in (l1_finalized + 1)..Height(chain), ReplaceFrom(n)
        PROVE  FALSE
    BY <1>1, <1>3 DEF ReplaceFrom
  <1>4. ASSUME NEW n \in (l1_finalized + 1)..Height(chain), Finalize(n)
        PROVE  HistoryInv'
    BY <1>4 DEF Finalize, HistoryInv, Height
  <1>5. QED
    BY <1>2, <1>3, <1>4 DEF L1Next

\* The steps of the watcher in which it tells nothing.
LEMMA DepositsQuiet ==
    ASSUME Types, RoundInv, HistoryInv, CachedInv, Quiet
    PROVE  HistoryInv' /\ CachedInv'
  <1>1. UNCHANGED <<l1_vars, queue, driver_vars>>
        /\ watcher'.current_block = watcher.current_block
    BY QuietTypes
  <1>2. watcher \in Watcher /\ watcher.current_block \in Nat /\ watcher.head_block \in Nat
        /\ watcher.deposits \in Cache
    BY DEF Types, Watcher
  <1>3. /\ Len(chain) \in Nat /\ Height(chain) \in Nat /\ Height(chain) = Len(chain) - 1
        /\ \A m \in 0..Height(chain) : HashAt(m) = m + 1
    <2>1. chain \in Seq(Nat) /\ Len(chain) \in Nat /\ Height(chain) = Len(chain) - 1
          /\ l1_finalized \in 0..Height(chain)
      BY LenProperties DEF Types, Height
    <2>2. \A m \in 0..Height(chain) : m + 1 \in 1..Len(chain)
      BY <2>1
    <2>3. QED
      BY <2>1, <2>2 DEF HistoryInv, HashAt
  <1>4. watcher'.head_block <= Height(chain) => HistoryInv'
    BY <1>1 DEF HistoryInv, l1_vars, Height
  <1>5. watcher.head_block <= Height(chain)
    BY DEF HistoryInv
  <1> SUFFICES watcher'.head_block <= Height(chain) /\ CachedInv'
    BY <1>4
  <1>6. CASE WatcherNew
    <2>1. PICK e \in {epoch, epoch - 1} \cap Nat :
            watcher' = NewWatcher(watcher.current_block, ConfigAt(chain, e))
      BY <1>6 DEF WatcherNew
    <2>2. watcher'.pc = "finality" /\ watcher'.head_block = 0 /\ watcher'.deposits = <<>>
      BY <2>1 DEF NewWatcher
    <2>3. QED
      BY <1>3, <2>2 DEF CachedInv
  <1>7. CASE WatcherPanics \/ RpcFails
    <2>1. PICK p \in {"dead", "finality"} : watcher' = [watcher EXCEPT !.pc = p]
      BY <1>7 DEF WatcherPanics, RpcFails
    <2>2. watcher'.pc = p /\ watcher'.head_block = watcher.head_block
          /\ watcher'.deposits = watcher.deposits
      BY <1>2, <2>1 DEF Watcher
    <2>3. QED
      BY <1>5, <2>2 DEF CachedInv
  <1>8. CASE UpdateHead
    <2>1. /\ watcher'.head_block \in {watcher.head_block, Height(chain)}
          /\ watcher'.pc \in {"config", "finality"}
          /\ watcher'.deposits = watcher.deposits
      BY <1>2, <1>8 DEF UpdateHead, Watcher
    <2>2. QED
      BY <1>3, <1>5, <2>1 DEF CachedInv
  <1>9. CASE UpdateSystemConfig
    <2>1. /\ watcher'.head_block = watcher.head_block
          /\ watcher'.pc = "block"
          /\ watcher'.deposits = watcher.deposits
      BY <1>2, <1>9 DEF UpdateSystemConfig, Watcher
    <2>2. QED
      BY <1>5, <2>1 DEF CachedInv
  <1>10. CASE GetBlock
    <2> DEFINE n == watcher.current_block
    <2>1. /\ watcher'.head_block = watcher.head_block
          /\ watcher'.deposits = watcher.deposits
          /\ \/ watcher'.pc = "finality"
             \/ n <= Height(chain) /\ watcher'.pc = "deposits" /\ watcher'.block = BlockAt(n)
      BY <1>2, <1>10 DEF GetBlock, Watcher
    <2>2. CASE watcher'.pc = "finality"
      BY <1>5, <2>1, <2>2 DEF CachedInv
    <2>3. CASE n <= Height(chain) /\ watcher'.pc = "deposits" /\ watcher'.block = BlockAt(n)
      <3>1. watcher'.block.hash = n + 1
        BY <1>2, <1>3, <2>3 DEF BlockAt
      <3>2. QED
        BY <1>1, <1>5, <2>1, <2>3, <3>1 DEF CachedInv
    <2>4. QED
      BY <2>1, <2>2, <2>3
  <1>11. CASE GetDeposits
    <2> DEFINE n     == watcher.current_block
               end   == IF watcher.head_block < n + LogWindow
                        THEN watcher.head_block ELSE n + LogWindow
               d     == watcher.deposits
               f     == FetchedDeposits(n, end)
               known == IF n \in DOMAIN d THEN d ELSE Inserted(f, d)
               rest  == [m \in DOMAIN known \ {n} |-> known[m]]
    <2>1. /\ watcher.pc = "deposits"
          /\ watcher' = [watcher EXCEPT !.pc = "batches", !.user_deposits = known[n],
                            !.deposits = rest]
      BY <1>11 DEF GetDeposits
    <2>2. n \in Nat /\ end \in Nat /\ n <= end /\ end <= Height(chain)
      BY <1>2, <1>3, <1>5, <2>1, WatcherAssumption DEF RoundInv
    <2> HIDE DEF end
    <2>3. n \in n..end /\ \A m \in n..end : m \in 0..Height(chain) /\ m <= Height(chain)
      BY <1>3, <2>2
    <2>4. DOMAIN f = n..end /\ \A m \in n..end : f[m] = m + 1
      <3>1. f = [m \in n..end |-> DepositsOf(m)]
        BY DEF FetchedDeposits
      <3>2. \A m \in n..end : DepositsOf(m) = m + 1
        BY <1>3, <2>3 DEF DepositsOf
      <3> HIDE DEF f
      <3>3. QED
        BY <3>1, <3>2
    <2>5. \A m \in DOMAIN d : d[m] = m + 1
      BY DEF CachedInv
    <2> HIDE DEF n, d, f
    <2>6. n \in DOMAIN known /\ \A m \in DOMAIN known : known[m] = m + 1
      BY <2>3, <2>4, <2>5 DEF Inserted
    <2> HIDE DEF known
    <2>7. \A m \in DOMAIN rest : rest[m] = m + 1
      BY <2>6
    <2> HIDE DEF rest
    <2>8. /\ watcher'.pc = "batches" /\ watcher'.user_deposits = known[n]
          /\ watcher'.deposits = rest /\ watcher'.block = watcher.block
          /\ watcher'.head_block = watcher.head_block
      BY <1>2, <2>1 DEF Watcher
    <2>9. known[n] = n + 1 /\ watcher.block.hash = n + 1
      BY <2>1, <2>6 DEF CachedInv, n
    <2>10. QED
      BY <1>1, <1>5, <2>7, <2>8, <2>9 DEF CachedInv, n
  <1>12. QED
    BY <1>6, <1>7, <1>8, <1>9, <1>10, <1>11 DEF Quiet

\* An update put into the channel or taken from it.
LEMMA SentPut ==
    ASSUME Types, SentInv, NEW u \in Update, queue' = Append(queue, u),
           u.type = "NewBlock" => u.info.user_deposits = u.info.hash
    PROVE  SentInv'
  <1>1. /\ DOMAIN queue' = 1..(Len(queue) + 1) /\ Len(queue) \in Nat /\ DOMAIN queue = 1..Len(queue)
        /\ \A i \in 1..Len(queue) : queue'[i] = queue[i]
        /\ queue'[Len(queue) + 1] = u
    BY PutUpdate
  <1>2. ASSUME NEW i \in 1..(Len(queue) + 1), queue'[i].type = "NewBlock"
        PROVE  queue'[i].info.user_deposits = queue'[i].info.hash
    <2>1. i \in 1..Len(queue) \/ i = Len(queue) + 1
      BY <1>1
    <2>2. QED
      BY <1>1, <1>2, <2>1 DEF SentInv
  <1>3. QED
    BY <1>1, <1>2 DEF SentInv

LEMMA SentTake ==
    ASSUME Types, SentInv, queue # <<>>, queue' = Tail(queue)
    PROVE  SentInv'
  <1>1. /\ Len(queue) \in Nat \ {0} /\ DOMAIN queue = 1..Len(queue)
        /\ DOMAIN queue' = 1..(Len(queue) - 1)
        /\ \A i \in 1..(Len(queue) - 1) : queue'[i] = queue[i + 1]
    BY TakeUpdate
  <1>2. \A i \in 1..(Len(queue) - 1) : i + 1 \in 1..Len(queue)
    BY <1>1
  <1>3. QED
    BY <1>1, <1>2 DEF SentInv


LEMMA DepositsNext == IndInv /\ DepositsInv /\ [Next]_vars => DepositsInv'
  <1> SUFFICES ASSUME IndInv, DepositsInv, [Next]_vars, reorgs' = 0
               PROVE  HistoryInv' /\ CachedInv' /\ SentInv' /\ DepositsOfBlock'
    BY DEF DepositsInv
  <1>1. Types /\ RoundInv /\ watcher \in Watcher /\ applied \in Seq(Info) /\ reorgs \in Nat
    BY DEF IndInv, Types
  <1>2. reorgs = 0
    BY <1>1, QuietTypes DEF Next, vars, l1_vars, L1Next, Mine, ReplaceFrom, Finalize, Quiet,
           WatcherStep, UpdateFinalized, Send, DriverStep, HandleNewBlock, HandleFinality,
           HandleReorg
  <1>3. HistoryInv /\ CachedInv /\ SentInv /\ DepositsOfBlock
    BY <1>2 DEF DepositsInv
  <1>4. CASE L1Next /\ UNCHANGED <<task_vars, driver_vars, failures>>
    <2>1. UNCHANGED <<watcher, queue, applied>>
      BY <1>4 DEF task_vars, driver_vars
    <2>2. QED
      BY <1>1, <1>2, <1>3, <1>4, <2>1, DepositsL1 DEF CachedInv, SentInv, DepositsOfBlock
  <1>5. CASE Quiet
    <2>1. UNCHANGED <<queue, applied>>
      BY <1>1, <1>5, QuietTypes DEF driver_vars
    <2>2. QED
      BY <1>1, <1>3, <1>5, <2>1, DepositsQuiet DEF SentInv, DepositsOfBlock
  <1>6. CASE UpdateFinalized
    <2>1. UNCHANGED <<chain, minted, applied>>
      BY <1>6 DEF UpdateFinalized, l1_vars, driver_vars
    <2>2. /\ watcher'.pc = "head" /\ watcher'.deposits = watcher.deposits
          /\ watcher'.head_block = watcher.head_block
      BY <1>1, <1>6 DEF UpdateFinalized, Watcher
    <2>3. HistoryInv' /\ CachedInv' /\ DepositsOfBlock'
      BY <1>3, <2>1, <2>2 DEF HistoryInv, CachedInv, DepositsOfBlock, Height
    <2>4. CASE UNCHANGED queue
      BY <1>3, <2>3, <2>4 DEF SentInv
    <2>5. CASE queue' = Append(queue, [type |-> "FinalityUpdate", number |-> l1_finalized])
      <3>1. l1_finalized \in Nat
        BY <1>1 DEF Types
      <3>2. PICK u \in Update : u = [type |-> "FinalityUpdate", number |-> l1_finalized]
        BY <3>1, UpdateTypes
      <3>3. SentInv'
        BY <1>1, <1>3, <2>5, <3>2, SentPut
      <3>4. QED
        BY <2>3, <3>3
    <2>6. QED
      BY <1>6, <2>4, <2>5 DEF UpdateFinalized
  <1>7. CASE Send
    <2>1. UNCHANGED <<chain, minted, applied>> /\ watcher.pc = "batches"
      BY <1>7 DEF Send, l1_vars, driver_vars
    <2>2. /\ watcher'.pc = "finality" /\ watcher'.deposits = watcher.deposits
          /\ watcher'.head_block = watcher.head_block
      BY <1>1, <1>7 DEF Send, Watcher
    <2>3. HistoryInv' /\ CachedInv' /\ DepositsOfBlock'
      BY <1>3, <2>1, <2>2 DEF HistoryInv, CachedInv, DepositsOfBlock, Height
    <2>4. L1Info \in Info /\ L1Info.user_deposits = L1Info.hash
      <3>1. L1Info \in Info
        BY <2>1, AtSend
      <3>2. watcher.user_deposits = watcher.block.hash
        BY <1>3, <2>1 DEF CachedInv
      <3>3. QED
        BY <3>1, <3>2 DEF L1Info
    <2>5. PICK u \in Update :
            /\ queue' = Append(queue, u)
            /\ u = [type |-> "Reorg"] \/ u = [type |-> "NewBlock", info |-> L1Info]
      BY <1>7, <2>4, UpdateTypes DEF Send
    <2>6. u.type = "NewBlock" => u.info.user_deposits = u.info.hash
      BY <2>4, <2>5
    <2>7. SentInv'
      BY <1>1, <1>3, <2>5, <2>6, SentPut
    <2>8. QED
      BY <2>3, <2>7
  <1>8. CASE HandleNewBlock \/ HandleFinality
    <2>1. UNCHANGED <<chain, minted, watcher>> /\ queue # <<>> /\ queue' = Tail(queue)
      BY <1>8 DEF HandleNewBlock, HandleFinality, l1_vars
    <2>2. HistoryInv' /\ CachedInv' /\ SentInv'
      BY <1>1, <1>3, <2>1, SentTake DEF HistoryInv, CachedInv, Height
    <2>3. CASE HandleFinality
      BY <1>3, <2>2, <2>3 DEF HandleFinality, DepositsOfBlock
    <2>4. CASE HandleNewBlock
      <3>1. queue[1] \in Update /\ Head(queue) = queue[1] /\ 1 \in DOMAIN queue
        BY <1>1, <2>1, TakeUpdate
      <3>2. PICK i \in Info : i = queue[1].info
        BY <2>4, <3>1, UpdateTypes DEF HandleNewBlock
      <3>3. i.user_deposits = i.hash
        BY <1>3, <2>4, <3>1, <3>2 DEF HandleNewBlock, SentInv
      <3>4. applied' = Append(applied, i)
        BY <2>4, <3>1, <3>2 DEF HandleNewBlock
      <3> DEFINE m == Len(applied)
      <3>5. /\ m \in Nat /\ DOMAIN applied = 1..m /\ DOMAIN applied' = 1..(m + 1)
            /\ \A k \in 1..m : applied'[k] = applied[k]
            /\ applied'[m + 1] = i
        BY <1>1, <3>4, AppendProperties, LenProperties
      <3> HIDE DEF m
      <3>6. ASSUME NEW k \in 1..(m + 1) PROVE applied'[k].user_deposits = applied'[k].hash
        <4>1. k \in 1..m \/ k = m + 1
          BY <3>5
        <4>2. QED
          BY <1>3, <3>3, <3>5, <4>1 DEF DepositsOfBlock
      <3>7. QED
        BY <2>2, <3>5, <3>6 DEF DepositsOfBlock
    <2>5. QED
      BY <1>8, <2>3, <2>4
  <1>9. CASE HandleReorg
    <2>1. PICK e \in epoch..seen_finalized \cup {epoch} : watcher' = Starting(L1StartBlock(e))
      BY <1>9 DEF HandleReorg
    <2>2. UNCHANGED <<chain, minted>> /\ queue' = <<>> /\ applied' = <<>>
      BY <1>9 DEF HandleReorg, l1_vars
    <2>3. watcher'.pc = "new" /\ watcher'.head_block = 0 /\ watcher'.deposits = <<>>
      BY <2>1 DEF Starting, NewWatcher
    <2>4. Height(chain) \in Nat
      BY <1>1, LenProperties DEF Types, Height
    <2>5. QED
      BY <1>3, <2>2, <2>3, <2>4 DEF HistoryInv, CachedInv, SentInv, DepositsOfBlock, Height
  <1>10. CASE UNCHANGED vars
    BY <1>3, <1>10 DEF vars, l1_vars, task_vars, driver_vars, HistoryInv, CachedInv, SentInv,
           DepositsOfBlock, Height
  <1>11. QED
    BY <1>4, <1>5, <1>6, <1>7, <1>8, <1>9, <1>10 DEF Next, WatcherStep, DriverStep, Quiet

\* As long as L1 has not reorganized, the deposits the driver gets with a block are those
\* of that block: the cache of get_deposits, which is filled for a window of blocks and
\* survives failed rounds, never hands out those of another.
THEOREM DepositsOfBlockCorrect == Spec => [](reorgs = 0 => DepositsOfBlock)
  <1>1. Spec => []DepositsInv
    BY DepositsInit, DepositsNext, Inductive, PTL DEF Spec
  <1>2. DepositsInv => (reorgs = 0 => DepositsOfBlock)
    BY DEF DepositsInv
  <1>3. QED
    BY <1>1, <1>2, PTL


-----------------------------------------------------------------------------
(* The system config, until L1 reorganizes *)

\* Each block of the history that the node started with has at most one update of the
\* system config, and blocks mined since have none.
UpdatesInHistory ==
    \A h \in 1..(MaxHeight + 1) :
        ConfigUpdates[h] = 0 \/ (ConfigUpdates[h] = 1 /\ h <= InitHeight + 1)

\* Block n has an update, which makes config UpdateOf(n).
HasUpdate(n) == n \in 0..InitHeight /\ ConfigUpdates[n + 1] = 1
UpdateOf(n) == <<n + 1, 1>>

\* Config c is made by the last update in blocks 0..n.
IsConfigOf(n, c) ==
    \/ c = NoUpdate /\ \A k \in 0..n : ~HasUpdate(k)
    \/ \E m \in 0..n : HasUpdate(m) /\ c = UpdateOf(m) /\ \A k \in (m + 1)..n : ~HasUpdate(k)

\* Until the first reorg no block is taken for one.
LinkedInv ==
    /\ epoch = 0 /\ l1_start = 0
    /\ Len(chain) \in (InitHeight + 1)..(MaxHeight + 1)
    /\ watcher.pc = "new" => watcher.current_block = 0
    /\ \A i \in DOMAIN watcher.unfinalized_blocks :
         watcher.unfinalized_blocks[i].hash = watcher.unfinalized_blocks[i].number + 1
    /\ watcher.pc \in {"deposits", "batches"} /\ watcher.current_block > 0 =>
         watcher.block.parent_hash = watcher.current_block
    /\ \A i \in DOMAIN queue : queue[i].type # "Reorg"

\* The next update that is known is the first one from the current block on, or stands
\* for the end of a window without one, or was passed with the last block.
KnownUpdate(update, n) ==
    /\ update.block + 1 >= n
    /\ n = 0 => update.block = 0 /\ update.config = NoUpdate
    /\ n > 0 => \A k \in n..(update.block - 1) : ~HasUpdate(k)
    /\ n > 0 /\ update.block >= n =>
         update.config = IF HasUpdate(update.block) THEN UpdateOf(update.block) ELSE NoUpdate

\* A round that failed may have left the config of the current block behind, not only
\* that of the last one.
WatcherConfigInv ==
    watcher.pc \notin {"new", "dead"} =>
        LET n      == watcher.current_block
            config == watcher.system_config
            update == watcher.system_config_update
        IN  /\ KnownUpdate(update, n)
            /\ \/ n > 0 /\ IsConfigOf(n - 1, config)
               \/ n <= update.block /\ IsConfigOf(n, config)
            /\ watcher.pc \in {"block", "deposits", "batches"} =>
                 n <= update.block /\ IsConfigOf(n, config)

\* What is on the way to the driver and what it has.
SentConfigInv ==
    /\ \A i \in DOMAIN queue : queue[i].type = "NewBlock" =>
         queue[i].info.number <= Height(chain)
         /\ IsConfigOf(queue[i].info.number, queue[i].info.system_config)
    /\ \A i \in DOMAIN applied :
         applied[i].number <= Height(chain) /\ IsConfigOf(applied[i].number, applied[i].system_config)

ConfigInv == reorgs = 0 => LinkedInv /\ WatcherConfigInv /\ SentConfigInv

\* Under HistoryInv ConfigAt is what IsConfigOf says, and what it says is one config.
LEMMA ConfigAtIs ==
    ASSUME UpdatesInHistory, Types, HistoryInv, LinkedInv, NEW n \in 0..Height(chain), NEW c,
           IsConfigOf(n, c)
    PROVE  ConfigAt(chain, n) = c
  <1> DEFINE with == {m \in 0..n : ConfigUpdates[chain[m + 1]] > 0}
             last == CHOOSE m \in with : \A k \in with : k <= m
  <1>1. /\ Len(chain) \in Nat /\ Height(chain) = Len(chain) - 1 /\ n \in Nat
        /\ InitHeight \in Nat /\ MaxHeight \in Nat
        /\ Len(chain) >= InitHeight + 1 /\ Len(chain) <= MaxHeight + 1
    BY LenProperties, L1Assumption DEF Types, Height, LinkedInv
  <1>2. \A m \in 0..n : chain[m + 1] = m + 1 /\ m + 1 \in 1..(MaxHeight + 1)
    BY <1>1 DEF HistoryInv
  <1>3. \A m \in 0..n : ConfigUpdates[m + 1] > 0 <=> HasUpdate(m)
    <2> TAKE m \in 0..n
    <2>1. ConfigUpdates[m + 1] = 0 \/ (ConfigUpdates[m + 1] = 1 /\ m + 1 <= InitHeight + 1)
      BY <1>2 DEF UpdatesInHistory
    <2>2. m + 1 <= InitHeight + 1 => m \in 0..InitHeight
      BY <1>1
    <2>3. QED
      BY <2>1, <2>2 DEF HasUpdate
  <1>4. with = {m \in 0..n : HasUpdate(m)}
    BY <1>2, <1>3
  <1>5. ConfigAt(chain, n) =
          IF with = {} THEN NoUpdate ELSE <<chain[last + 1], ConfigUpdates[chain[last + 1]]>>
    BY DEF ConfigAt
  <1>6. CASE c = NoUpdate /\ \A k \in 0..n : ~HasUpdate(k)
    BY <1>4, <1>5, <1>6
  <1>7. ASSUME NEW m \in 0..n, HasUpdate(m), c = UpdateOf(m), \A k \in (m + 1)..n : ~HasUpdate(k)
        PROVE  ConfigAt(chain, n) = c
    <2>1. m \in with /\ \A k \in with : k <= m /\ k \in Nat
      <3>1. m \in with
        BY <1>4, <1>7
      <3>2. ASSUME NEW k \in with PROVE k <= m /\ k \in Nat
        <4>1. k \in 0..n /\ HasUpdate(k)
          BY <1>4
        <4>2. ~(k \in (m + 1)..n)
          BY <1>7, <4>1
        <4> HIDE DEF with
        <4>3. QED
          BY <1>1, <4>1, <4>2
      <3>3. QED
        BY <3>1, <3>2
    <2>2. last = m
      <3> HIDE DEF with
      <3>1. last \in with /\ \A k \in with : k <= last
        BY <2>1
      <3> HIDE DEF last
      <3>2. QED
        BY <2>1, <3>1
    <2>3. chain[m + 1] = m + 1 /\ ConfigUpdates[m + 1] = 1
      BY <1>2, <1>7 DEF HasUpdate
    <2>4. with # {}
      BY <2>1
    <2> HIDE DEF with, last
    <2>5. ConfigAt(chain, n) = <<chain[m + 1], ConfigUpdates[chain[m + 1]]>>
      BY <1>5, <2>2, <2>4
    <2>6. QED
      BY <1>7, <2>3, <2>5 DEF UpdateOf
  <1>8. QED
    BY <1>6, <1>7 DEF IsConfigOf

\* Every block has a config.
LEMMA ConfigAtExists ==
    ASSUME NEW n \in Nat
    PROVE  \E c : IsConfigOf(n, c)
  <1> DEFINE with == {m \in 0..n : HasUpdate(m)}
  <1>1. CASE with = {}
    BY <1>1 DEF IsConfigOf
  <1>2. CASE with # {}
    <2>1. with \subseteq 0..n
      OBVIOUS
    <2>2. PICK m \in with : \A k \in with : k <= m
      <3> HIDE DEF with
      <3>1. QED
        BY <1>2, <2>1, GreatestNumber
    <2>3. \A k \in (m + 1)..n : ~HasUpdate(k)
      <3> SUFFICES ASSUME NEW k \in (m + 1)..n, HasUpdate(k) PROVE FALSE
        OBVIOUS
      <3>1. k \in 0..n /\ m \in 0..n /\ ~(k <= m)
        BY <2>1
      <3>2. QED
        BY <2>2, <3>1
    <2>4. m \in 0..n /\ HasUpdate(m)
      OBVIOUS
    <2>5. IsConfigOf(n, UpdateOf(m))
      BY <2>3, <2>4 DEF IsConfigOf
    <2>6. QED
      BY <2>5
  <1>3. QED
    BY <1>1, <1>2

\* A block without an update has the config of the one before, one with an update that.
LEMMA ConfigGoesOn ==
    ASSUME NEW n \in Nat, NEW c
    PROVE  /\ n > 0 /\ IsConfigOf(n - 1, c) /\ ~HasUpdate(n) => IsConfigOf(n, c)
           /\ HasUpdate(n) => IsConfigOf(n, UpdateOf(n))
  <1>1. ASSUME n > 0, IsConfigOf(n - 1, c), ~HasUpdate(n) PROVE IsConfigOf(n, c)
    <2>1. \A k \in Int : k \in 0..n => k \in 0..(n - 1) \/ k = n
      OBVIOUS
    <2>2. CASE c = NoUpdate /\ \A k \in 0..(n - 1) : ~HasUpdate(k)
      <3>1. \A k \in 0..n : ~HasUpdate(k)
        BY <1>1, <2>1, <2>2
      <3>2. QED
        BY <2>2, <3>1 DEF IsConfigOf
    <2>3. ASSUME NEW m \in 0..(n - 1), HasUpdate(m), c = UpdateOf(m),
                 \A k \in (m + 1)..(n - 1) : ~HasUpdate(k)
          PROVE  IsConfigOf(n, c)
      <3>1. m \in 0..n
        BY <1>1
      <3>2. \A k \in (m + 1)..n : ~HasUpdate(k)
        <4> TAKE k \in (m + 1)..n
        <4>1. k \in (m + 1)..(n - 1) \/ k = n
          OBVIOUS
        <4>2. QED
          BY <1>1, <2>3, <4>1
      <3>3. QED
        BY <2>3, <3>1, <3>2 DEF IsConfigOf
    <2>4. QED
      BY <1>1, <2>2, <2>3 DEF IsConfigOf
  <1>2. ASSUME HasUpdate(n) PROVE IsConfigOf(n, UpdateOf(n))
    <2>1. n \in 0..n /\ \A k \in (n + 1)..n : ~HasUpdate(k)
      OBVIOUS
    <2>2. QED
      BY <1>2, <2>1 DEF IsConfigOf
  <1>3. QED
    BY <1>1, <1>2

\* The log query finds the first update in its window.
LEMMA NextUpdateIs ==
    ASSUME UpdatesInHistory, Types, HistoryInv, LinkedInv, NEW n \in Nat \ {0}
    PROVE  NextUpdate(n - 1).block >= n /\ KnownUpdate(NextUpdate(n - 1), n)
  <1> DEFINE to == n - 1 + LogWindow
             with == {k \in BlocksIn(n, to) : ConfigUpdates[HashAt(k)] > 0}
             first == CHOOSE k \in with : \A j \in with : k <= j
  <1>1. /\ Len(chain) \in Nat /\ Height(chain) = Len(chain) - 1 /\ Height(chain) \in Nat
        /\ InitHeight \in Nat /\ MaxHeight \in Nat /\ to \in Nat /\ to >= n
        /\ InitHeight <= Height(chain) /\ Height(chain) <= MaxHeight
    BY LenProperties, L1Assumption, WatcherAssumption DEF Types, Height, LinkedInv
  <1>2. NextUpdate(n - 1) = IF with = {} THEN [block |-> to, config |-> NoUpdate]
                            ELSE [block |-> first, config |-> <<HashAt(first), 1>>]
    <2>1. (n - 1) + 1 = n
      OBVIOUS
    <2>2. QED
      BY <2>1 DEF NextUpdate, FirstUpdateIn
  <1>3. \A k \in 0..Height(chain) : HashAt(k) = k + 1 /\ k + 1 \in 1..(MaxHeight + 1)
    <2> TAKE k \in 0..Height(chain)
    <2>1. k + 1 \in 1..Len(chain)
      BY <1>1
    <2>2. QED
      BY <1>1, <2>1 DEF HistoryInv, HashAt
  <1>4. \A k \in 0..Height(chain) : ConfigUpdates[HashAt(k)] > 0 <=> HasUpdate(k)
    <2> TAKE k \in 0..Height(chain)
    <2>1. ConfigUpdates[k + 1] = 0 \/ (ConfigUpdates[k + 1] = 1 /\ k + 1 <= InitHeight + 1)
      BY <1>3 DEF UpdatesInHistory
    <2>2. k + 1 <= InitHeight + 1 => k \in 0..InitHeight
      BY <1>1
    <2>3. QED
      BY <1>3, <2>1, <2>2 DEF HasUpdate
  <1>5. \A k \in n..to : k \in with <=> HasUpdate(k)
    <2> TAKE k \in n..to
    <2>1. k \in with <=> k <= Height(chain) /\ ConfigUpdates[HashAt(k)] > 0
      BY DEF BlocksIn
    <2>2. k <= Height(chain) => k \in 0..Height(chain)
      BY <1>1
    <2>3. HasUpdate(k) => k <= Height(chain)
      BY <1>1 DEF HasUpdate
    <2>4. QED
      BY <1>4, <2>1, <2>2, <2>3
  <1>6. with \subseteq n..to /\ with \subseteq 0..Height(chain)
    BY <1>1 DEF BlocksIn
  <1> HIDE DEF with, to
  <1>7. CASE with = {}
    <2>1. \A k \in n..to : ~HasUpdate(k)
      BY <1>5, <1>7
    <2>2. to \in n..to /\ \A k \in n..(to - 1) : k \in n..to
      BY <1>1
    <2>3. NextUpdate(n - 1).block = to /\ NextUpdate(n - 1).config = NoUpdate
      BY <1>2, <1>7
    <2>4. QED
      BY <1>1, <2>1, <2>2, <2>3 DEF KnownUpdate
  <1>8. CASE with # {}
    <2>1. with \subseteq Nat
      BY <1>6
    <2>2. first \in with /\ \A j \in with : first <= j
      <3>1. \E k \in with : \A j \in with : k <= j
        BY <1>8, <2>1, LeastNumber
      <3>2. QED
        BY <3>1
    <2> HIDE DEF first
    <2>3. NextUpdate(n - 1).block = first /\ NextUpdate(n - 1).config = <<HashAt(first), 1>>
      BY <1>2, <1>8
    <2>4. HashAt(first) = first + 1 /\ first \in n..to /\ HasUpdate(first)
      BY <1>3, <1>5, <1>6, <2>2
    <2>5. \A k \in n..(first - 1) : ~HasUpdate(k)
      <3> SUFFICES ASSUME NEW k \in n..(first - 1), HasUpdate(k) PROVE FALSE
        OBVIOUS
      <3>1. k \in n..to /\ ~(first <= k)
        BY <1>1, <2>4
      <3>2. QED
        BY <1>5, <2>2, <3>1
    <2>6. first \in Nat /\ first >= n
      BY <1>1, <2>4
    <2>7. QED
      BY <2>3, <2>4, <2>5, <2>6 DEF KnownUpdate, UpdateOf
  <1>9. QED
    BY <1>7, <1>8


LEMMA ConfigInit == Init => ConfigInv
  <1> SUFFICES ASSUME Init PROVE LinkedInv /\ WatcherConfigInv /\ SentConfigInv
    BY DEF ConfigInv
  <1>1. InitHeight \in Nat /\ MaxHeight \in Nat /\ InitHeight <= MaxHeight /\ ChannelTimeout \in Nat
    BY L1Assumption, WatcherAssumption
  <1>2. epoch = 0 /\ l1_start = 0
    BY <1>1 DEF Init, L1StartBlock
  <1>3. Len(chain) = InitHeight + 1
    BY <1>1, IsASeq DEF Init, L1Init
  <1>4. watcher.pc = "new" /\ watcher.current_block = 0 /\ watcher.unfinalized_blocks = <<>>
    <2>1. NoUpdate \in Config
      BY DEF Config
    <2>2. watcher = Starting(0)
      BY <1>2 DEF Init
    <2>3. QED
      BY <2>1, <2>2, StartType
  <1>5. DOMAIN queue = {} /\ DOMAIN applied = {} /\ DOMAIN watcher.unfinalized_blocks = {}
    BY <1>4 DEF Init
  <1>6. Len(chain) \in (InitHeight + 1)..(MaxHeight + 1)
    BY <1>1, <1>3
  <1>7. QED
    BY <1>2, <1>4, <1>5, <1>6 DEF LinkedInv, WatcherConfigInv, SentConfigInv

\* L1 only grows.
LEMMA ConfigL1 ==
    ASSUME Types, LinkedInv, WatcherConfigInv, SentConfigInv, reorgs = 0, reorgs' = 0, L1Next,
           UNCHANGED <<task_vars, driver_vars>>
    PROVE  LinkedInv' /\ WatcherConfigInv' /\ SentConfigInv'
  <1>1. UNCHANGED <<watcher, queue, applied, l1_start, epoch>>
    BY DEF task_vars, driver_vars
  <1>2. chain \in Seq(Nat) /\ Len(chain) \in Nat /\ minted \in Nat
    BY LenProperties DEF Types
  <1>3. /\ Len(chain') \in (InitHeight + 1)..(MaxHeight + 1)
        /\ Len(chain') \in Nat /\ Len(chain') >= Len(chain)
    <2>1. CASE Mine
      <3>1. Len(chain') = Len(chain) + 1 /\ Len(chain) - 1 < MaxHeight
        BY <1>2, <2>1, AppendProperties DEF Mine, Height
      <3>2. QED
        BY <1>2, <3>1, L1Assumption DEF LinkedInv
    <2>2. ASSUME NEW n \in (l1_finalized + 1)..Height(chain), ReplaceFrom(n)
          PROVE  FALSE
      BY <2>2 DEF ReplaceFrom
    <2>3. ASSUME NEW n \in (l1_finalized + 1)..Height(chain), Finalize(n)
          PROVE  chain' = chain
      BY <2>3 DEF Finalize
    <2>4. CASE chain' = chain
      BY <1>2, <2>4 DEF LinkedInv
    <2>5. QED
      BY <2>1, <2>2, <2>3, <2>4 DEF L1Next
  <1>4. LinkedInv' /\ WatcherConfigInv'
    BY <1>1, <1>3 DEF LinkedInv, WatcherConfigInv
  <1>5. \A n \in Nat : n <= Height(chain) => n <= Height(chain')
    BY <1>2, <1>3 DEF Height
  <1>6. ASSUME NEW i \in DOMAIN queue, queue[i].type = "NewBlock"
        PROVE  queue[i].info.number \in Nat
    <2>1. queue[i] \in Update
      BY ElementOfSeq, LenProperties DEF Types
    <2>2. QED
      BY <1>6, <2>1, UpdateTypes DEF Info
  <1>7. ASSUME NEW i \in DOMAIN applied PROVE applied[i].number \in Nat
    <2>1. applied[i] \in Info
      BY ElementOfSeq, LenProperties DEF Types
    <2>2. QED
      BY <2>1 DEF Info
  <1>8. SentConfigInv'
    BY <1>1, <1>5, <1>6, <1>7 DEF SentConfigInv
  <1>9. QED
    BY <1>4, <1>8

\* update_system_config: whether the update was looked for in this round or was known
\* before, and whether or not a round for this block failed, the config is that of the
\* block.
LEMMA ConfigUpdated ==
    ASSUME UpdatesInHistory, Types, RoundInv, HistoryInv, LinkedInv, WatcherConfigInv,
           UpdateSystemConfig
    PROVE  WatcherConfigInv'
  <1> DEFINE n == watcher.current_block
             c == watcher.system_config
             last == watcher.system_config_update
             update == IF last.block < n THEN NextUpdate(last.block) ELSE last
             new == IF Activated(update, n) /\ update.config # NoUpdate THEN update.config ELSE c
  <1>1. /\ watcher.pc = "config"
        /\ watcher' = [watcher EXCEPT !.pc = "block", !.system_config_update = update,
                                      !.system_config = new]
    BY DEF UpdateSystemConfig
  <1>2. watcher \in Watcher /\ n \in Nat /\ last.block \in Nat
    BY DEF Types, Watcher
  <1>3. /\ KnownUpdate(last, n)
        /\ \/ n > 0 /\ IsConfigOf(n - 1, c)
           \/ n <= last.block /\ IsConfigOf(n, c)
    BY <1>1 DEF WatcherConfigInv
  <1>4. update.block \in Nat /\ update.block >= n /\ KnownUpdate(update, n)
    <2>1. CASE last.block < n
      <3>1. n \in Nat \ {0} /\ last.block = n - 1
        BY <1>2, <1>3, <2>1 DEF KnownUpdate
      <3>2. NextUpdate(n - 1).block >= n /\ KnownUpdate(NextUpdate(n - 1), n)
        BY <3>1, NextUpdateIs
      <3>3. NextUpdate(n - 1).block \in Nat
        <4>1. NextUpdate(n - 1) \in [block : Nat, config : Config]
          BY <1>2, <3>1, NextUpdateType
        <4>2. QED
          BY <4>1
      <3>4. QED
        BY <2>1, <3>1, <3>2, <3>3
    <2>2. CASE ~(last.block < n)
      BY <1>2, <1>3, <2>2
    <2>3. QED
      BY <2>1, <2>2
  <1>5. last.block >= n => update = last
    BY <1>2
  <1> HIDE DEF update, last, c
  <1>6. IsConfigOf(n, new)
    <2>1. CASE n = 0
      <3>1. update.config = NoUpdate
        BY <1>4, <2>1 DEF KnownUpdate
      <3>2. IsConfigOf(n, c)
        BY <1>3, <2>1
      <3>3. QED
        BY <3>1, <3>2
    <2>2. CASE n > 0 /\ HasUpdate(n)
      <3>1. ~(update.block > n)
        <4> SUFFICES ASSUME update.block > n PROVE FALSE
          OBVIOUS
        <4>1. n \in n..(update.block - 1)
          BY <1>2, <1>4
        <4>2. QED
          BY <1>4, <2>2, <4>1 DEF KnownUpdate
      <3>2. update.block = n
        BY <1>2, <1>4, <3>1
      <3>3. update.config = UpdateOf(n)
        BY <1>4, <2>2, <3>2 DEF KnownUpdate
      <3>4. UpdateOf(n) # NoUpdate
        BY <1>2 DEF UpdateOf, NoUpdate
      <3>5. new = UpdateOf(n)
        BY <3>2, <3>3, <3>4 DEF Activated
      <3>6. QED
        BY <1>2, <2>2, <3>5, ConfigGoesOn
    <2>3. CASE n > 0 /\ ~HasUpdate(n)
      <3>1. update.block = n => update.config = NoUpdate
        BY <1>2, <1>4, <2>3 DEF KnownUpdate
      <3>2. new = c
        BY <3>1 DEF Activated
      <3>3. IsConfigOf(n, c)
        BY <1>2, <1>3, <2>3, ConfigGoesOn
      <3>4. QED
        BY <3>2, <3>3
    <2>4. QED
      BY <1>2, <2>1, <2>2, <2>3
  <1> HIDE DEF new
  <1>7. /\ watcher'.pc = "block" /\ watcher'.current_block = n
        /\ watcher'.system_config_update = update /\ watcher'.system_config = new
    BY <1>1, <1>2 DEF Watcher
  <1> HIDE DEF n
  <1>8. n <= update.block
    BY <1>2, <1>4
  <1>9. QED
    BY <1>4, <1>6, <1>7, <1>8 DEF WatcherConfigInv

\* The steps of the watcher in which it tells nothing.
LEMMA ConfigQuiet ==
    ASSUME UpdatesInHistory, Types, RoundInv, HistoryInv, LinkedInv, WatcherConfigInv, Quiet
    PROVE  LinkedInv' /\ WatcherConfigInv'
  <1>1. UNCHANGED <<l1_vars, queue, driver_vars>>
        /\ watcher'.current_block = watcher.current_block
        /\ watcher'.unfinalized_blocks = watcher.unfinalized_blocks
    BY QuietTypes
  <1>2. UNCHANGED <<chain, queue, epoch, l1_start>>
    BY <1>1 DEF l1_vars, driver_vars
  <1>3. watcher \in Watcher /\ watcher.current_block \in Nat
    BY DEF Types, Watcher
  <1> DEFINE Parent ==
               watcher'.pc \in {"deposits", "batches"} /\ watcher.current_block > 0 =>
                 watcher'.block.parent_hash = watcher.current_block
             New == watcher'.pc = "new" => watcher.current_block = 0
  <1>4. Parent /\ New => LinkedInv'
    BY <1>1, <1>2 DEF LinkedInv
  <1> DEFINE Same == /\ watcher'.system_config = watcher.system_config
                     /\ watcher'.system_config_update = watcher.system_config_update
  <1>5. ASSUME Same, watcher'.pc \in {"dead", "finality", "head", "config"},
               watcher.pc \notin {"new", "dead"}
        PROVE  Parent /\ New /\ WatcherConfigInv'
    BY <1>1, <1>5 DEF WatcherConfigInv
  <1>6. ASSUME Same, watcher'.pc \in {"block", "deposits", "batches"},
               watcher.pc \in {"block", "deposits", "batches"}
        PROVE  New /\ WatcherConfigInv'
    BY <1>1, <1>6 DEF WatcherConfigInv
  <1>7. CASE WatcherNew
    <2>1. watcher.pc = "new" /\ watcher.current_block = 0 /\ epoch = 0
      BY <1>7 DEF WatcherNew, LinkedInv
    <2>2. PICK e \in {epoch, epoch - 1} \cap Nat : watcher' = NewWatcher(0, ConfigAt(chain, e))
      BY <1>7, <2>1 DEF WatcherNew
    <2>3. e = 0
      BY <2>1, <2>2
    <2>4. PICK c : IsConfigOf(0, c)
      BY ConfigAtExists
    <2>5. ConfigAt(chain, 0) = c
      <3>1. 0 \in 0..Height(chain)
        BY LenProperties DEF Types, Height
      <3>2. QED
        BY <2>4, <3>1, ConfigAtIs
    <2>6. /\ watcher'.pc = "finality" /\ watcher'.current_block = 0 /\ watcher'.system_config = c
          /\ watcher'.system_config_update.block = 0
          /\ watcher'.system_config_update.config = NoUpdate
      BY <2>2, <2>3, <2>5 DEF NewWatcher
    <2>7. KnownUpdate(watcher'.system_config_update, 0)
      BY <2>6 DEF KnownUpdate
    <2>8. WatcherConfigInv'
      BY <2>4, <2>6, <2>7 DEF WatcherConfigInv
    <2>9. QED
      BY <1>4, <2>6, <2>8
  <1>8. CASE WatcherPanics
    BY <1>8 DEF WatcherPanics, LinkedInv
  <1>9. CASE RpcFails
    <2>1. watcher.pc \notin {"new", "dead"} /\ Same /\ watcher'.pc = "finality"
      BY <1>3, <1>9 DEF RpcFails, Watcher
    <2>2. QED
      BY <1>4, <1>5, <2>1
  <1>10. CASE UpdateHead
    <2>1. watcher.pc = "head" /\ Same /\ watcher'.pc \in {"config", "finality"}
      BY <1>3, <1>10 DEF UpdateHead, Watcher
    <2>2. QED
      BY <1>4, <1>5, <2>1
  <1>11. CASE UpdateSystemConfig
    <2>1. watcher'.pc = "block"
      BY <1>3, <1>11 DEF UpdateSystemConfig, Watcher
    <2>2. WatcherConfigInv'
      BY <1>11, ConfigUpdated
    <2>3. QED
      BY <1>4, <2>1, <2>2
  <1>12. CASE GetBlock
    <2> DEFINE n == watcher.current_block
    <2>1. /\ watcher.pc = "block" /\ Same
          /\ \/ watcher'.pc = "finality"
             \/ n <= Height(chain) /\ watcher'.pc = "deposits" /\ watcher'.block = BlockAt(n)
      BY <1>3, <1>12 DEF GetBlock, Watcher
    <2>2. CASE watcher'.pc = "finality"
      BY <1>4, <1>5, <2>1, <2>2
    <2>3. CASE n <= Height(chain) /\ watcher'.pc = "deposits" /\ watcher'.block = BlockAt(n)
      <3>1. n > 0 => BlockAt(n).parent_hash = n
        <4> SUFFICES ASSUME n > 0 PROVE BlockAt(n).parent_hash = n
          OBVIOUS
        <4>1. BlockAt(n).parent_hash = chain[(n - 1) + 1]
          BY DEF BlockAt, HashAt
        <4>2. (n - 1) + 1 = n /\ n \in 1..Len(chain)
          BY <1>3, <2>3, LenProperties DEF Height, Types
        <4>3. chain[n] = n
          BY <4>2 DEF HistoryInv
        <4> HIDE DEF n
        <4>4. QED
          BY <4>1, <4>2, <4>3
      <3>2. Parent
        BY <2>3, <3>1
      <3>3. QED
        BY <1>4, <1>6, <2>1, <2>3, <3>2
    <2>4. QED
      BY <2>1, <2>2, <2>3
  <1>13. CASE GetDeposits
    <2>1. /\ watcher.pc = "deposits" /\ Same /\ watcher'.pc = "batches"
          /\ watcher'.block = watcher.block
      BY <1>3, <1>13 DEF GetDeposits, Watcher
    <2>2. Parent
      BY <2>1 DEF LinkedInv
    <2>3. QED
      BY <1>4, <1>6, <2>1, <2>2
  <1>14. QED
    BY <1>7, <1>8, <1>9, <1>10, <1>11, <1>12, <1>13 DEF Quiet


\* An update put into the channel or taken from it.
LEMMA ConfigPut ==
    ASSUME Types, LinkedInv, SentConfigInv, NEW u \in Update, queue' = Append(queue, u),
           UNCHANGED <<chain, applied>>, u.type # "Reorg",
           u.type = "NewBlock" =>
             u.info.number <= Height(chain) /\ IsConfigOf(u.info.number, u.info.system_config)
    PROVE  SentConfigInv' /\ \A i \in DOMAIN queue' : queue'[i].type # "Reorg"
  <1>1. /\ DOMAIN queue' = 1..(Len(queue) + 1) /\ Len(queue) \in Nat /\ DOMAIN queue = 1..Len(queue)
        /\ \A i \in 1..Len(queue) : queue'[i] = queue[i]
        /\ queue'[Len(queue) + 1] = u
    BY PutUpdate
  <1>2. \A i \in 1..(Len(queue) + 1) :
          (i \in DOMAIN queue /\ queue'[i] = queue[i]) \/ queue'[i] = u
    <2> TAKE i \in 1..(Len(queue) + 1)
    <2>1. i \in 1..Len(queue) \/ i = Len(queue) + 1
      BY <1>1
    <2>2. QED
      BY <1>1, <2>1
  <1>3. Height(chain') = Height(chain)
    BY DEF Height
  <1>4. ASSUME NEW i \in 1..(Len(queue) + 1)
        PROVE  /\ queue'[i].type # "Reorg"
               /\ queue'[i].type = "NewBlock" =>
                    queue'[i].info.number <= Height(chain)
                    /\ IsConfigOf(queue'[i].info.number, queue'[i].info.system_config)
    BY <1>2 DEF SentConfigInv, LinkedInv
  <1>5. QED
    BY <1>1, <1>3, <1>4 DEF SentConfigInv

LEMMA ConfigTake ==
    ASSUME Types, LinkedInv, SentConfigInv, queue # <<>>, queue' = Tail(queue), chain' = chain
    PROVE  /\ \A i \in DOMAIN queue' : queue'[i].type # "Reorg"
           /\ (\A i \in DOMAIN applied' :
                 applied'[i].number <= Height(chain)
                 /\ IsConfigOf(applied'[i].number, applied'[i].system_config)) => SentConfigInv'
  <1>1. /\ Len(queue) \in Nat \ {0} /\ DOMAIN queue = 1..Len(queue)
        /\ DOMAIN queue' = 1..(Len(queue) - 1)
        /\ \A i \in 1..(Len(queue) - 1) : queue'[i] = queue[i + 1]
    BY TakeUpdate
  <1>2. \A i \in DOMAIN queue' : i + 1 \in DOMAIN queue /\ queue'[i] = queue[i + 1]
    BY <1>1
  <1>3. Height(chain') = Height(chain)
    BY DEF Height
  <1>4. QED
    BY <1>2, <1>3 DEF SentConfigInv, LinkedInv

\* The block that is sent follows the one before it.
LEMMA NoReorgSent ==
    ASSUME IndInv, HistoryInv, CachedInv, LinkedInv, watcher.pc = "batches"
    PROVE  LET blocks == IF watcher.block.number >= watcher.finalized_block
                         THEN Append(watcher.unfinalized_blocks, watcher.block)
                         ELSE watcher.unfinalized_blocks
           IN  /\ ~CheckReorg(blocks)
               /\ \A i \in DOMAIN blocks : blocks[i].hash = blocks[i].number + 1
  <1> DEFINE old == watcher.unfinalized_blocks
             b == watcher.block
             n == watcher.current_block
             more == Append(old, b)
  <1>1. b \in Block /\ b.number = n /\ n \in Nat /\ watcher.finalized_block \in Nat /\ old \in Seq(Block)
    BY AtSend
  <1>2. PICK st \in Seq(Told) : Channel(st)
    BY DEF IndInv, ChannelInv
  <1>3. PICK s \in Told : AtBack(s)
    BY <1>2, BackFacts DEF IndInv
  <1>4. /\ \A i \in DOMAIN old : old[i].number < n
        /\ old # <<>> => old[Len(old)].number = n - 1 /\ watcher.finalized_block <= n - 1
    BY <1>3 DEF AtBack
  <1>5. PICK k \in Nat : k = Len(old) /\ DOMAIN old = 1..k /\ (k = 0 <=> old = <<>>)
    BY <1>1, LenProperties, EmptySeq
  <1>6. b.hash = n + 1 /\ (n > 0 => b.parent_hash = n)
    BY DEF CachedInv, LinkedInv
  <1>7. \A i \in DOMAIN old : old[i].hash = old[i].number + 1
    BY DEF LinkedInv
  <1>8. /\ Len(more) = k + 1 /\ DOMAIN more = 1..(k + 1) /\ more[k + 1] = b
        /\ \A i \in 1..k : more[i] = old[i]
    BY <1>1, <1>5, AppendProperties, LenProperties
  <1>9. k > 0 => old[k].number = n - 1 /\ old[k].hash = n /\ n > 0
    <2> SUFFICES ASSUME k > 0 PROVE old[k].number = n - 1 /\ old[k].hash = n /\ n > 0
      OBVIOUS
    <2>1. k \in DOMAIN old /\ old # <<>>
      BY <1>5
    <2>2. old[k].number = n - 1 /\ old[k].hash = old[k].number + 1 /\ old[k].number \in Nat
      <3>1. old[k].number = n - 1 /\ old[k].hash = old[k].number + 1
        BY <1>4, <1>5, <1>7, <2>1
      <3>2. old[k] \in Block
        <4> HIDE DEF old
        <4>1. QED
          BY <1>1, <1>5, <2>1, ElementOfSeq
      <3>3. QED
        BY <3>1, <3>2 DEF Block
    <2>3. QED
      BY <1>1, <2>2
  <1> HIDE DEF old, b, n, more
  <1>10. ~CheckReorg(more)
    <2>1. CASE k = 0
      BY <1>8, <2>1 DEF CheckReorg
    <2>2. CASE k > 0
      <3>1. k \in 1..k /\ (k + 1) - 1 = k
        BY <2>2
      <3>2. more[k + 1].parent_hash = n /\ more[(k + 1) - 1].hash = n
        BY <1>6, <1>8, <1>9, <2>2, <3>1
      <3>3. QED
        BY <1>8, <3>2 DEF CheckReorg
    <2>3. QED
      BY <2>1, <2>2
  <1>11. \A i \in DOMAIN more : more[i].hash = more[i].number + 1
    <2> TAKE i \in DOMAIN more
    <2>1. i \in 1..k \/ i = k + 1
      BY <1>8
    <2>2. QED
      BY <1>1, <1>5, <1>6, <1>7, <1>8, <2>1
  <1>12. CASE b.number >= watcher.finalized_block
    BY <1>10, <1>11, <1>12 DEF more, old, b
  <1>13. CASE ~(b.number >= watcher.finalized_block)
    <2>1. k = 0
      BY <1>1, <1>4, <1>5, <1>13
    <2>2. ~CheckReorg(old)
      BY <1>5, <2>1 DEF CheckReorg
    <2>3. QED
      BY <1>7, <1>13, <2>2 DEF old, b
  <1>14. QED
    BY <1>12, <1>13

LEMMA ConfigFinalized ==
    ASSUME Types, LinkedInv, WatcherConfigInv, SentConfigInv, UpdateFinalized
    PROVE  LinkedInv' /\ WatcherConfigInv' /\ SentConfigInv'
  <1> DEFINE f == l1_finalized
             blocks == watcher.unfinalized_blocks
             kept == Retained(blocks, f)
  <1>1. UNCHANGED <<chain, applied, l1_start, epoch>> /\ watcher.pc = "finality"
    BY DEF UpdateFinalized, l1_vars, driver_vars
  <1>2. watcher \in Watcher /\ f \in Nat /\ blocks \in Seq(Block)
    BY DEF Types, Watcher
  <1>3. /\ watcher'.pc = "head" /\ watcher'.current_block = watcher.current_block
        /\ watcher'.system_config = watcher.system_config
        /\ watcher'.system_config_update = watcher.system_config_update
        /\ watcher'.unfinalized_blocks \in {blocks, kept}
    BY <1>2 DEF UpdateFinalized, Watcher
  <1>4. \A i \in DOMAIN watcher'.unfinalized_blocks :
          watcher'.unfinalized_blocks[i].hash = watcher'.unfinalized_blocks[i].number + 1
    <2>1. \A i \in DOMAIN blocks : blocks[i].hash = blocks[i].number + 1
      BY DEF LinkedInv
    <2> DEFINE I == {i \in DOMAIN blocks : blocks[i].number > f}
    <2>2. I \in SUBSET (DOMAIN blocks) /\ kept = Keep(blocks, I)
      BY DEF Retained
    <2>3. \A k \in DOMAIN kept : \E x \in DOMAIN blocks : kept[k] = blocks[x]
      <3> HIDE DEF I, kept, blocks
      <3>1. QED
        BY <1>2, <2>2, KeepFacts
    <2> HIDE DEF kept, blocks
    <2>4. \A k \in DOMAIN kept : kept[k].hash = kept[k].number + 1
      BY <2>1, <2>3
    <2>5. QED
      BY <1>3, <2>1, <2>4
  <1>5. WatcherConfigInv'
    BY <1>1, <1>3 DEF WatcherConfigInv
  <1>6. CASE UNCHANGED queue
    <2>1. SentConfigInv'
      BY <1>1, <1>6 DEF SentConfigInv, Height
    <2>2. LinkedInv'
      BY <1>1, <1>3, <1>4, <1>6 DEF LinkedInv
    <2>3. QED
      BY <1>5, <2>1, <2>2
  <1>7. CASE queue' = Append(queue, [type |-> "FinalityUpdate", number |-> f])
    <2>1. PICK u \in Update : u = [type |-> "FinalityUpdate", number |-> f]
      BY <1>2, UpdateTypes
    <2>2. u.type = "FinalityUpdate"
      BY <2>1
    <2>3. SentConfigInv' /\ \A i \in DOMAIN queue' : queue'[i].type # "Reorg"
      BY <1>1, <1>7, <2>1, <2>2, ConfigPut
    <2>4. LinkedInv'
      BY <1>1, <1>3, <1>4, <2>3 DEF LinkedInv
    <2>5. QED
      BY <1>5, <2>3, <2>4
  <1>8. QED
    BY <1>6, <1>7 DEF UpdateFinalized

LEMMA ConfigSend ==
    ASSUME IndInv, HistoryInv, CachedInv, LinkedInv, WatcherConfigInv, SentConfigInv, Send
    PROVE  LinkedInv' /\ WatcherConfigInv' /\ SentConfigInv'
  <1> DEFINE n == watcher.current_block
             blocks == IF watcher.block.number >= watcher.finalized_block
                       THEN Append(watcher.unfinalized_blocks, watcher.block)
                       ELSE watcher.unfinalized_blocks
  <1>1. UNCHANGED <<chain, applied, l1_start, epoch>> /\ watcher.pc = "batches"
    BY DEF Send, l1_vars, driver_vars
  <1>2. Types /\ watcher \in Watcher /\ n \in Nat /\ watcher.head_block \in Nat
        /\ watcher.system_config_update.block \in Nat
    BY DEF IndInv, Types, Watcher
  <1>3. ~CheckReorg(blocks) /\ \A i \in DOMAIN blocks : blocks[i].hash = blocks[i].number + 1
    BY <1>1, NoReorgSent
  <1>4. queue' = Append(queue, [type |-> "NewBlock", info |-> L1Info])
    BY <1>3 DEF Send
  <1>5. watcher' = [watcher EXCEPT !.pc = "finality", !.unfinalized_blocks = blocks,
                      !.current_block = n + 1]
    BY DEF Send
  <1> HIDE DEF blocks
  <1>6. /\ watcher'.pc = "finality" /\ watcher'.current_block = n + 1
        /\ watcher'.system_config = watcher.system_config
        /\ watcher'.system_config_update = watcher.system_config_update
        /\ watcher'.unfinalized_blocks = blocks
    BY <1>2, <1>5 DEF Watcher
  <1>7. PICK u \in Update : u = [type |-> "NewBlock", info |-> L1Info]
    BY <1>1, AtSend, UpdateTypes
  <1>8. /\ IsConfigOf(n, watcher.system_config) /\ n <= watcher.system_config_update.block
        /\ KnownUpdate(watcher.system_config_update, n)
    BY <1>1 DEF WatcherConfigInv
  <1>9. u.type = "NewBlock" /\ u.info.number = n /\ u.info.system_config = watcher.system_config
    <2>1. L1Info.number = n /\ L1Info.system_config = watcher.system_config
      BY <1>1, AtSend DEF L1Info
    <2>2. QED
      BY <1>7, <2>1
  <1>10. n <= Height(chain)
    <2>1. n <= watcher.head_block /\ watcher.head_block <= Height(chain) /\ Height(chain) \in Int
      BY <1>1, LenProperties DEF IndInv, RoundInv, HistoryInv, Types, Height
    <2>2. QED
      BY <1>2, <2>1
  <1>11. SentConfigInv' /\ \A i \in DOMAIN queue' : queue'[i].type # "Reorg"
    BY <1>1, <1>2, <1>4, <1>7, <1>8, <1>9, <1>10, ConfigPut
  <1>12. LinkedInv'
    BY <1>1, <1>3, <1>6, <1>11 DEF LinkedInv
  <1>13. KnownUpdate(watcher.system_config_update, n + 1)
    <2> DEFINE update == watcher.system_config_update
    <2>1. update.block \in Nat /\ n <= update.block
      BY <1>2, <1>8
    <2>2. CASE n = 0
      <3>1. update.block = 0
        BY <1>8, <2>2 DEF KnownUpdate
      <3>2. QED
        BY <2>2, <3>1 DEF KnownUpdate
    <2>3. CASE n > 0
      <3>1. /\ \A k \in n..(update.block - 1) : ~HasUpdate(k)
            /\ update.config = IF HasUpdate(update.block) THEN UpdateOf(update.block) ELSE NoUpdate
        BY <1>8, <2>1, <2>3 DEF KnownUpdate
      <3>2. \A k \in (n + 1)..(update.block - 1) : k \in n..(update.block - 1)
        BY <1>2
      <3> HIDE DEF update
      <3>3. KnownUpdate(update, n + 1)
        BY <1>2, <2>1, <3>1, <3>2 DEF KnownUpdate
      <3>4. QED
        BY <3>3 DEF update
    <2>4. QED
      BY <1>2, <2>2, <2>3
  <1>14. WatcherConfigInv'
    <2>1. n + 1 > 0 /\ (n + 1) - 1 = n
      BY <1>2
    <2> HIDE DEF n
    <2>2. IsConfigOf((n + 1) - 1, watcher.system_config)
      BY <1>8, <2>1
    <2>3. QED
      BY <1>6, <1>13, <2>1, <2>2 DEF WatcherConfigInv
  <1>15. QED
    BY <1>11, <1>12, <1>14

LEMMA ConfigNext ==
    ASSUME UpdatesInHistory, IndInv, DepositsInv, ConfigInv, [Next]_vars
    PROVE  ConfigInv'
  <1> SUFFICES ASSUME reorgs' = 0 PROVE LinkedInv' /\ WatcherConfigInv' /\ SentConfigInv'
    BY DEF ConfigInv
  <1>1. Types /\ RoundInv /\ watcher \in Watcher /\ applied \in Seq(Info) /\ reorgs \in Nat
    BY DEF IndInv, Types
  <1>2. reorgs = 0
    BY <1>1, QuietTypes DEF Next, vars, l1_vars, L1Next, Mine, ReplaceFrom, Finalize, Quiet,
           WatcherStep, UpdateFinalized, Send, DriverStep, HandleNewBlock, HandleFinality,
           HandleReorg
  <1>3. HistoryInv /\ CachedInv /\ LinkedInv /\ WatcherConfigInv /\ SentConfigInv
    BY <1>2 DEF DepositsInv, ConfigInv
  <1>4. CASE L1Next /\ UNCHANGED <<task_vars, driver_vars, failures>>
    BY <1>1, <1>2, <1>3, <1>4, ConfigL1
  <1>5. CASE Quiet
    <2>1. UNCHANGED <<chain, queue, applied>>
      BY <1>1, <1>5, QuietTypes DEF l1_vars, driver_vars
    <2>2. SentConfigInv'
      BY <1>3, <2>1 DEF SentConfigInv, Height
    <2>3. QED
      BY <1>1, <1>3, <1>5, <2>2, ConfigQuiet
  <1>6. CASE UpdateFinalized
    BY <1>1, <1>3, <1>6, ConfigFinalized
  <1>7. CASE Send
    BY <1>3, <1>7, ConfigSend
  <1>8. CASE HandleNewBlock \/ HandleFinality
    <2>1. UNCHANGED <<chain, watcher, epoch, l1_start>> /\ queue # <<>> /\ queue' = Tail(queue)
      BY <1>8 DEF HandleNewBlock, HandleFinality, l1_vars
    <2>2. \A i \in DOMAIN queue' : queue'[i].type # "Reorg"
      BY <1>1, <1>3, <2>1, ConfigTake
    <2>3. LinkedInv' /\ WatcherConfigInv'
      BY <1>3, <2>1, <2>2 DEF LinkedInv, WatcherConfigInv
    <2>4. \A i \in DOMAIN applied' :
            applied'[i].number <= Height(chain)
            /\ IsConfigOf(applied'[i].number, applied'[i].system_config)
      <3>1. CASE HandleFinality
        BY <1>3, <3>1 DEF HandleFinality, SentConfigInv
      <3>2. CASE HandleNewBlock
        <4>1. queue[1] \in Update /\ Head(queue) = queue[1] /\ 1 \in DOMAIN queue
          BY <1>1, <2>1, TakeUpdate
        <4>2. PICK i \in Info : i = queue[1].info
          BY <3>2, <4>1, UpdateTypes DEF HandleNewBlock
        <4>3. i.number <= Height(chain) /\ IsConfigOf(i.number, i.system_config)
          BY <1>3, <3>2, <4>1, <4>2 DEF HandleNewBlock, SentConfigInv
        <4>4. applied' = Append(applied, i)
          BY <3>2, <4>1, <4>2 DEF HandleNewBlock
        <4>5. PICK m \in Nat : m = Len(applied)
          BY <1>1, LenProperties
        <4>6. /\ DOMAIN applied = 1..m /\ DOMAIN applied' = 1..(m + 1)
              /\ \A k \in 1..m : applied'[k] = applied[k]
              /\ applied'[m + 1] = i
          BY <1>1, <4>4, <4>5, AppendProperties, LenProperties
        <4> SUFFICES ASSUME NEW k \in 1..(m + 1)
                     PROVE  applied'[k].number <= Height(chain)
                            /\ IsConfigOf(applied'[k].number, applied'[k].system_config)
          BY <4>6
        <4>7. k \in 1..m \/ k = m + 1
          BY <4>5
        <4>8. QED
          BY <1>3, <4>3, <4>6, <4>7 DEF SentConfigInv
      <3>3. QED
        BY <1>8, <3>1, <3>2
    <2>5. SentConfigInv'
      BY <1>1, <1>3, <2>1, <2>4, ConfigTake
    <2>6. QED
      BY <2>3, <2>5
  <1>9. CASE HandleReorg
    <2>1. queue # <<>> /\ Head(queue).type = "Reorg"
      BY <1>9 DEF HandleReorg
    <2>2. Head(queue) = queue[1] /\ 1 \in DOMAIN queue
      BY <1>1, <2>1, TakeUpdate
    <2>3. QED
      BY <1>3, <2>1, <2>2 DEF LinkedInv
  <1>10. CASE UNCHANGED vars
    BY <1>3, <1>10 DEF vars, l1_vars, task_vars, driver_vars, LinkedInv, WatcherConfigInv,
           SentConfigInv, Height
  <1>11. QED
    BY <1>4, <1>5, <1>6, <1>7, <1>8, <1>9, <1>10 DEF Next, WatcherStep, DriverStep, Quiet

\* As long as L1 has not reorganized, and if no block of its history has more than one
\* update and no block mined since has any, the system config the driver gets with a block
\* is the one of that block: the updates that update_system_config finds window by window
\* are activated each with its block, whatever rounds fail before or after.
THEOREM ConfigOfBlockCorrect ==
    UpdatesInHistory /\ Spec => [](reorgs = 0 => ConfigOfBlock)
  <1>1. Spec => [](IndInv /\ DepositsInv)
    BY DepositsInit, DepositsNext, Inductive, PTL DEF Spec
  <1>2. UpdatesInHistory /\ IndInv /\ DepositsInv /\ ConfigInv /\ [Next]_vars => ConfigInv'
    BY ConfigNext
  <1>3. UpdatesInHistory /\ Spec => []ConfigInv
    <2> SUFFICES ASSUME UpdatesInHistory PROVE Spec => []ConfigInv
      OBVIOUS
    <2>1. IndInv /\ DepositsInv /\ ConfigInv /\ [Next]_vars => ConfigInv'
      BY <1>2
    <2>2. QED
      BY <1>1, <2>1, ConfigInit, PTL DEF Spec
  <1>4. UpdatesInHistory /\ IndInv /\ DepositsInv /\ ConfigInv => (reorgs = 0 => ConfigOfBlock)
    <2> SUFFICES ASSUME UpdatesInHistory, IndInv, DepositsInv, ConfigInv, reorgs = 0,
                        NEW i \in DOMAIN applied
                 PROVE  applied[i].system_config = ConfigAt(chain, applied[i].number)
      BY DEF ConfigOfBlock
    <2>1. Types /\ HistoryInv /\ LinkedInv /\ SentConfigInv
      BY DEF IndInv, DepositsInv, ConfigInv
    <2>2. applied[i] \in Info
      BY <2>1, ElementOfSeq, LenProperties DEF Types
    <2>3. applied[i].number \in 0..Height(chain)
      BY <2>1, <2>2, LenProperties DEF SentConfigInv, Info, Types, Height
    <2>4. IsConfigOf(applied[i].number, applied[i].system_config)
      BY <2>1 DEF SentConfigInv
    <2>5. QED
      BY <2>1, <2>3, <2>4, ConfigAtIs
  <1>5. QED
    <2> SUFFICES ASSUME UpdatesInHistory PROVE Spec => [](reorgs = 0 => ConfigOfBlock)
      OBVIOUS
    <2>1. IndInv /\ DepositsInv /\ ConfigInv => (reorgs = 0 => ConfigOfBlock)
      BY <1>4
    <2>2. Spec => []ConfigInv
      BY <1>3
    <2>3. QED
      BY <1>1, <2>1, <2>2, PTL
=============================================================================
