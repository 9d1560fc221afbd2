--------------------------- MODULE EngineApiProofs --------------------------
(***************************************************************************)
(* What holds of the engine API client for every number of retries, every  *)
(* set of contents and every pattern of lost, repeated and late requests.  *)
(*                                                                         *)
(* The engine driver never checks which block the engine is on.  The proof *)
(* shows why it need not, as long as no forkchoice update is executed      *)
(* after its call has ended: a forkchoice update that was answered VALID   *)
(* has put the engine on the driver's head, with the safe head below it    *)
(* (InStep), and nothing moves the engine before the next call.            *)
(***************************************************************************)
EXTENDS EngineApi, SequenceLemmas, FiniteSetTheorems

Block == Seq(Contents)

Engine == [known : SUBSET Block, head : Block, finalized : Block]

PayloadAttributes == [slot : Nat, content : Contents]

ForkchoiceRequest == [method : {"fcu"}, head : Block, safe : Block, finalized : Block,
                      attributes : SUBSET PayloadAttributes]
GetRequest == [method : {"get"}, id : Block \X Contents]
NewRequest == [method : {"new"}, block : Block \ {Genesis}]
Request == ForkchoiceRequest \cup GetRequest \cup NewRequest

\* Every block the engine knows comes with its ancestors.
KnownClosed == \A b \in engine.known : \A n \in 0..Len(b) : SubSeq(b, 1, n) \in engine.known

\* The types that the proof needs.
Types ==
    /\ engine \in Engine
    /\ KnownClosed
    /\ engine.finalized \in engine.known
    /\ \A l \in late : l.request \in Request
    /\ unsafe_head \in Block /\ safe_head \in Block /\ finalized_head \in Block
    /\ derived \in Block
    /\ overtaken \in BOOLEAN

CurrentForkchoice(attributes) == Forkchoice(unsafe_head, safe_head, finalized_head, attributes)

\* Which request is being posted, at each place of the driver.
CallOfPlace ==
    /\ pc \in {"down", "ready", "idle", "build", "get", "push", "fcu", "unsafe_push", "unsafe_fcu"}
    /\ pc \in {"down", "idle"} => call = {} /\ answer = {}
    /\ pc \in {"ready", "fcu", "unsafe_fcu"} => call = {CurrentForkchoice({})}
    /\ pc = "unsafe_push" => \E c \in Contents : call = {NewPayload(Append(unsafe_head, c))}
    /\ pc \in {"build", "get", "push"} =>
         \E c \in Contents :
            /\ content = {c}
            /\ overtaken \/ derived = Append(safe_head, c)
            /\ pc = "build" => call = {CurrentForkchoice({Attributes(c)})}
            /\ pc = "get" => unsafe_head = safe_head /\ call = {GetPayload(<<unsafe_head, c>>)}
            /\ pc = "push" => unsafe_head = safe_head
                              /\ call = {NewPayload(Append(unsafe_head, c))}

\* What a forkchoice update asks of the engine: the blocks it starts, whether the other
\* heads are below its head, and whether the block it starts is later.
Ids(r) == {<<r.head, x.content>> : x \in r.attributes}
Sound(r) == IsPrefix(r.safe, r.head) /\ IsPrefix(r.finalized, r.head)
Later(r) == \A x \in r.attributes : x.slot > Len(r.head)

\* What an answer says about the request it belongs to.
AnswerOf(r, a) ==
    \/ a = Error
    \/ /\ r.method = "fcu"
       /\ \/ a = Status("SYNCING", {}) /\ pc # "ready"
          \/ /\ a = Status("VALID", Ids(r))
             /\ Sound(r) /\ Later(r)
             /\ overtaken \/ engine.head = r.head
    \/ r.method = "get" /\ a = [type |-> "payload", block |-> Append(r.id[1], r.id[2])]
    \/ r.method = "new" /\ \E s \in {"VALID", "SYNCING"} : a = Status(s, {})

AnswersFit == \A a \in answer : \E r \in call : AnswerOf(r, a)

\* Where the heads are, at each place of the driver.
HeadsInOrder ==
    /\ pc \in {"ready", "idle", "unsafe_push", "unsafe_fcu"} =>
         IsPrefix(finalized_head, safe_head) /\ IsPrefix(safe_head, unsafe_head)
    /\ pc = "ready" => /\ unsafe_head = safe_head /\ unsafe_head = finalized_head
                       /\ unsafe_head = derived
                       /\ unsafe_head \in engine.known
    /\ pc \in {"build", "get", "push"} => IsPrefix(finalized_head, safe_head)
    /\ pc = "fcu" => Len(finalized_head) <= Len(safe_head)

\* Unless a forkchoice update was executed too late, the engine is where the driver takes
\* it to be: above the safe head whenever the driver looks for a block there, and never
\* ahead of the driver with what is final.
InStep ==
    overtaken \/
    /\ pc \in {"idle", "unsafe_push", "unsafe_fcu"} => IsPrefix(safe_head, engine.head)
    /\ pc \in {"idle", "fcu", "unsafe_push", "unsafe_fcu"} => safe_head = derived
    /\ pc # "down" => IsPrefix(engine.finalized, finalized_head)

\* The inductive invariant.
IndInv == Types /\ CallOfPlace /\ AnswersFit /\ HeadsInOrder /\ InStep

-----------------------------------------------------------------------------
(* The engine *)

\* The kinds of request exclude each other.
LEMMA RequestKinds ==
    ASSUME NEW r \in Request
    PROVE  /\ r.method \in {"fcu", "get", "new"}
           /\ r.method = "fcu" => r \in ForkchoiceRequest
           /\ r.method = "get" => r \in GetRequest
           /\ r.method = "new" => r \in NewRequest
  BY DEF Request, ForkchoiceRequest, GetRequest, NewRequest

\* A forkchoice update moves the engine to a head it knows, and is answered VALID only if
\* the safe and the finalized block are below that head.
LEMMA RunForkchoice ==
    ASSUME NEW e \in Engine, NEW r \in ForkchoiceRequest
    PROVE  LET x == Run(e, r)
           IN  /\ x.engine \in Engine
               /\ x.engine.known = e.known
               /\ r.head \notin e.known => x.engine = e /\ x.answer = Status("SYNCING", {})
               /\ r.head \in e.known =>
                    /\ x.engine.head = r.head
                    /\ x.engine.finalized = IF Sound(r) THEN r.finalized ELSE e.finalized
                    /\ x.answer = IF Sound(r) /\ Later(r)
                                  THEN Status("VALID", Ids(r))
                                  ELSE Error
  <1>1. r.method = "fcu" /\ r.head \in Block /\ r.finalized \in Block
    BY DEF ForkchoiceRequest
  <1>2. CASE r.head \notin e.known
    BY <1>1, <1>2 DEF Run
  <1>3. CASE r.head \in e.known
    <2>1. CASE Sound(r)
      <3>1. Run(e, r) =
              [engine |-> [e EXCEPT !.head = r.head, !.finalized = r.finalized],
               answer |-> IF Later(r)
                          THEN Status("VALID", Ids(r))
                          ELSE Error]
        <4>1. CASE Later(r)
          BY <1>1, <1>3, <2>1, <4>1 DEF Run, Sound, Later, Ids
        <4>2. CASE ~Later(r)
          BY <1>1, <1>3, <2>1, <4>2 DEF Run, Sound, Later, Ids
        <4>3. QED
          BY <4>1, <4>2
      <3>2. Run(e, r).engine = [e EXCEPT !.head = r.head, !.finalized = r.finalized]
        BY <3>1
      <3>3. Run(e, r).answer = IF Later(r) THEN Status("VALID", Ids(r)) ELSE Error
        BY <3>1
      <3>4. /\ Run(e, r).engine \in Engine
            /\ Run(e, r).engine.known = e.known
            /\ Run(e, r).engine.head = r.head
            /\ Run(e, r).engine.finalized = r.finalized
        BY <1>1, <3>2 DEF Engine
      <3>5. QED
        BY <1>3, <2>1, <3>3, <3>4
    <2>2. CASE ~Sound(r)
      <3>1. Run(e, r) = [engine |-> [e EXCEPT !.head = r.head], answer |-> Error]
        BY <1>1, <1>3, <2>2 DEF Run, Sound
      <3>2. QED
        BY <1>1, <1>3, <2>2, <3>1 DEF Engine
    <2>3. QED
      BY <2>1, <2>2
  <1>4. QED
    BY <1>2, <1>3

\* The block that was started is handed out, and nothing changes.
LEMMA RunGet ==
    ASSUME NEW e \in Engine, NEW r \in GetRequest
    PROVE  /\ Run(e, r).engine = e
           /\ Run(e, r).answer = [type |-> "payload", block |-> Append(r.id[1], r.id[2])]
  BY DEF GetRequest, Run

\* A payload is added to what the engine knows, or nothing changes.
LEMMA RunNew ==
    ASSUME NEW e \in Engine, NEW r \in NewRequest
    PROVE  LET x == Run(e, r)
           IN  /\ x.engine \in Engine
               /\ x.engine.head = e.head /\ x.engine.finalized = e.finalized
               /\ \/ x.engine.known = e.known
                  \/ /\ Front(r.block) \in e.known
                     /\ x.engine.known = e.known \cup {r.block}
               /\ \E s \in {"VALID", "SYNCING"} : x.answer = Status(s, {})
  <1>1. r.method = "new" /\ r.block \in Block
    BY DEF NewRequest
  <1>2. CASE Front(r.block) \in e.known
    <2>1. Run(e, r) = [engine |-> [e EXCEPT !.known = @ \cup {r.block}],
                       answer |-> Status("VALID", {})]
      BY <1>1, <1>2 DEF Run
    <2>2. QED
      BY <1>1, <1>2, <2>1 DEF Engine
  <1>3. CASE Front(r.block) \notin e.known
    <2>1. Run(e, r) = [engine |-> e, answer |-> Status("SYNCING", {})]
      BY <1>1, <1>3 DEF Run
    <2>2. QED
      BY <2>1
  <1>4. QED
    BY <1>2, <1>3

\* Whatever the engine executes, it knows the ancestors of what it knows, and what is
\* final is among it.
LEMMA RunTypes ==
    ASSUME NEW r \in Request, Types, engine' = Run(engine, r).engine
    PROVE  /\ engine' \in Engine
           /\ engine.known \subseteq engine'.known
           /\ KnownClosed'
           /\ engine'.finalized \in engine'.known
  <1>1. engine \in Engine
    BY DEF Types
  <1>2. CASE r \in ForkchoiceRequest
    <2>1. engine' \in Engine /\ engine'.known = engine.known
      BY <1>1, <1>2, RunForkchoice
    <2>2. engine'.finalized \in engine.known
      <3>1. CASE engine'.finalized = engine.finalized
        BY <3>1 DEF Types
      <3>2. CASE r.head \in engine.known /\ Sound(r) /\ engine'.finalized = r.finalized
        <4>1. r.head \in Block /\ r.finalized \in Block
          BY <1>2 DEF ForkchoiceRequest
        <4>2. r.finalized = SubSeq(r.head, 1, Len(r.finalized))
              /\ Len(r.finalized) \in 0..Len(r.head)
          BY <4>1, <3>2, PrefixIsSubSeq, PrefixEntries, LenProperties DEF Sound, Block
        <4>3. QED
          BY <3>2, <4>2 DEF Types, KnownClosed
      <3>3. QED
        BY <1>1, <1>2, <3>1, <3>2, RunForkchoice
    <2>3. QED
      BY <2>1, <2>2 DEF Types, KnownClosed
  <1>3. CASE r \in GetRequest
    BY <1>1, <1>3, RunGet DEF Types, KnownClosed
  <1>4. CASE r \in NewRequest
    <2>1. /\ engine' \in Engine /\ engine'.finalized = engine.finalized
          /\ \/ engine'.known = engine.known
             \/ /\ Front(r.block) \in engine.known
                /\ engine'.known = engine.known \cup {r.block}
      BY <1>1, <1>4, RunNew
    <2>2. CASE engine'.known = engine.known
      BY <2>1, <2>2 DEF Types, KnownClosed
    <2>3. CASE /\ Front(r.block) \in engine.known
               /\ engine'.known = engine.known \cup {r.block}
      <3> DEFINE b == r.block
      <3>1. b \in Block /\ b # Genesis
        BY <1>4 DEF NewRequest
      <3> HIDE DEF b
      <3>2. Len(b) \in Nat \ {0} /\ Front(b) \in Block /\ Len(Front(b)) = Len(b) - 1
            /\ IsPrefix(Front(b), b)
        BY <3>1, FrontIsParent DEF Block, Genesis
      <3>3. ASSUME NEW n \in 0..Len(b) PROVE SubSeq(b, 1, n) \in engine'.known
        <4>1. CASE n = Len(b)
          <5>1. SubSeq(b, 1, n) = b
            BY <3>1, <4>1, SubSeqFull DEF Block
          <5>2. QED
            BY <5>1, <2>3 DEF b
        <4>2. CASE n # Len(b)
          <5>1. n \in 0..Len(Front(b)) /\ n \in 0..Len(b)
            BY <3>2, <4>2
          <5>2. SubSeq(Front(b), 1, n) \in engine.known
            BY <2>3, <5>1 DEF Types, KnownClosed, b
          <5>3. SubSeq(Front(b), 1, n) = SubSeq(b, 1, n)
            <6> DEFINE s == SubSeq(Front(b), 1, n)
            <6>1. s \in Block /\ Len(s) = n /\ IsPrefix(s, Front(b))
              BY <3>2, <5>1, PrefixSubSeq DEF Block
            <6> HIDE DEF s
            <6>2. IsPrefix(s, b)
              BY <3>1, <3>2, <6>1, PrefixTransitive DEF Block
            <6>3. s = SubSeq(b, 1, n)
              BY <3>1, <6>1, <6>2, PrefixIsSubSeq DEF Block
            <6>4. QED
              BY <6>3 DEF s
          <5>4. QED
            BY <5>2, <5>3, <2>3
        <4>3. QED
          BY <4>1, <4>2
      <3>4. QED
        BY <2>1, <2>3, <3>3 DEF Types, KnownClosed, b
    <2>4. QED
      BY <2>1, <2>2, <2>3
  <1>5. QED
    BY <1>2, <1>3, <1>4 DEF Request

-----------------------------------------------------------------------------
(* The request being posted *)

\* A forkchoice update with the driver's heads is one the engine can execute.
LEMMA ForkchoiceTyped ==
    ASSUME NEW h \in Block, NEW sf \in Block, NEW fin \in Block,
           NEW at \in SUBSET PayloadAttributes
    PROVE  LET r == Forkchoice(h, sf, fin, at)
           IN  /\ r \in ForkchoiceRequest /\ r \in Request
               /\ r.method = "fcu" /\ r.head = h /\ r.safe = sf /\ r.finalized = fin
               /\ r.attributes = at
  BY DEF Forkchoice, ForkchoiceRequest, Request

LEMMA AttributesTyped ==
    ASSUME Types, NEW c \in Contents
    PROVE  /\ Attributes(c) \in PayloadAttributes
           /\ Attributes(c).slot = Len(safe_head) + 1 /\ Attributes(c).content = c
  BY LenProperties DEF Types, Block, Attributes, PayloadAttributes

\* Whatever is being posted is a request; a forkchoice update has the driver's heads, and
\* is posted only where the driver expects its answer.
LEMMA CallTyped ==
    ASSUME Types, CallOfPlace, NEW r \in call
    PROVE  /\ r \in Request
           /\ call = {r}
           /\ pc \notin {"down", "idle"}
           /\ r.method = "fcu" =>
                /\ pc \in {"ready", "fcu", "unsafe_fcu", "build"}
                /\ r.head = unsafe_head /\ r.safe = safe_head /\ r.finalized = finalized_head
           /\ r.method = "new" => pc \in {"push", "unsafe_push"}
           /\ r.method = "get" => pc = "get"
  <1>1. /\ unsafe_head \in Block /\ safe_head \in Block /\ finalized_head \in Block
    BY DEF Types
  <1>2. CASE pc \in {"ready", "fcu", "unsafe_fcu"}
    <2>1. r = CurrentForkchoice({}) /\ call = {r}
      BY <1>2 DEF CallOfPlace
    <2>2. QED
      BY <1>1, <1>2, <2>1, ForkchoiceTyped DEF CurrentForkchoice
  <1>3. CASE pc = "build"
    <2>1. PICK c \in Contents : call = {CurrentForkchoice({Attributes(c)})}
      BY <1>3 DEF CallOfPlace
    <2>2. {Attributes(c)} \in SUBSET PayloadAttributes
      BY AttributesTyped
    <2>3. QED
      BY <1>1, <1>3, <2>1, <2>2, ForkchoiceTyped DEF CurrentForkchoice
  <1>4. CASE pc = "get"
    <2>1. PICK c \in Contents : call = {GetPayload(<<unsafe_head, c>>)}
      BY <1>4 DEF CallOfPlace
    <2>2. QED
      BY <1>1, <1>4, <2>1 DEF GetPayload, GetRequest, Request
  <1>5. CASE pc \in {"push", "unsafe_push"}
    <2>1. PICK c \in Contents : call = {NewPayload(Append(unsafe_head, c))}
      BY <1>5 DEF CallOfPlace
    <2> DEFINE b == Append(unsafe_head, c)
    <2>2. b \in Block /\ b # Genesis /\ r = NewPayload(b) /\ call = {r}
      BY <1>1, <2>1, FrontOfAppend DEF Block, Genesis
    <2> HIDE DEF b
    <2>3. QED
      BY <1>5, <2>2 DEF NewPayload, NewRequest, Request
  <1>6. CASE pc \in {"down", "idle"}
    BY <1>6 DEF CallOfPlace
  <1>7. QED
    BY <1>2, <1>3, <1>4, <1>5, <1>6 DEF CallOfPlace

\* What the engine does with the request being posted, or with a late one that is not a
\* forkchoice update of an earlier call: its head and what is final stay, or become the
\* driver's.
LEMMA EngineMoves ==
    ASSUME Types, CallOfPlace, NEW r \in Request, r.method = "fcu" => r \in call,
           engine' = Run(engine, r).engine
    PROVE  /\ \/ engine'.head = engine.head
              \/ /\ pc \in {"ready", "fcu", "unsafe_fcu", "build"}
                 /\ engine'.head = unsafe_head
           /\ \/ engine'.finalized = engine.finalized
              \/ engine'.finalized = finalized_head
  <1>1. engine \in Engine
    BY DEF Types
  <1>2. CASE r.method = "fcu"
    <2>1. r \in ForkchoiceRequest
      BY <1>2, RequestKinds
    <2>2. /\ pc \in {"ready", "fcu", "unsafe_fcu", "build"}
          /\ r.head = unsafe_head /\ r.finalized = finalized_head
      BY <1>2, CallTyped
    <2>3. QED
      BY <1>1, <2>1, <2>2, RunForkchoice
  <1>3. CASE r.method = "get"
    BY <1>1, <1>3, RequestKinds, RunGet
  <1>4. CASE r.method = "new"
    BY <1>1, <1>4, RequestKinds, RunNew
  <1>5. QED
    BY <1>2, <1>3, <1>4, RequestKinds

\* Then the engine stays in step with the driver.
LEMMA StaysInStep ==
    ASSUME IndInv, NEW r \in Request, r.method = "fcu" => r \in call,
           engine' = Run(engine, r).engine, overtaken' = overtaken,
           UNCHANGED <<pc, heads, derived>>
    PROVE  InStep'
  <1>1. /\ unsafe_head \in Block /\ safe_head \in Block /\ finalized_head \in Block
    BY DEF IndInv, Types
  <1>2. /\ \/ engine'.head = engine.head
           \/ /\ pc \in {"ready", "fcu", "unsafe_fcu", "build"}
              /\ engine'.head = unsafe_head
        /\ \/ engine'.finalized = engine.finalized
           \/ engine'.finalized = finalized_head
    BY EngineMoves DEF IndInv
  <1>3. CASE overtaken
    BY <1>3 DEF InStep
  <1>4. CASE ~overtaken
    <2>1. pc \in {"idle", "unsafe_push", "unsafe_fcu"} => IsPrefix(safe_head, engine'.head)
      BY <1>2, <1>4 DEF IndInv, InStep, HeadsInOrder
    <2>2. pc # "down" => IsPrefix(engine'.finalized, finalized_head)
      BY <1>1, <1>2, <1>4, PrefixReflexive DEF IndInv, InStep, Block
    <2>3. QED
      BY <1>4, <2>1, <2>2 DEF IndInv, InStep, heads
  <1>5. QED
    BY <1>3, <1>4

-----------------------------------------------------------------------------
(* The invariant: initially, and for the steps of the engine *)

LEMMA InitInv == Init => IndInv
  <1> SUFFICES ASSUME Init PROVE IndInv
    OBVIOUS
  <1>1. Genesis \in Block /\ Len(Genesis) = 0
    BY EmptySeq DEF Genesis, Block
  <1>2. KnownClosed
    <2>1. SubSeq(Genesis, 1, 0) = Genesis
      BY <1>1, SubSeqEmpty DEF Genesis, Block
    <2>2. engine.known = {Genesis}
      BY DEF Init
    <2>3. ASSUME NEW n \in 0..Len(Genesis) PROVE SubSeq(Genesis, 1, n) \in {Genesis}
      <3>1. n = 0
        BY <1>1
      <3>2. QED
        BY <2>1, <3>1
    <2>4. QED
      BY <2>2, <2>3 DEF KnownClosed
  <1>3. Types
    BY <1>1, <1>2 DEF Init, Types, Engine
  <1>4. CallOfPlace /\ AnswersFit /\ HeadsInOrder /\ InStep
    BY DEF Init, CallOfPlace, AnswersFit, HeadsInOrder, InStep
  <1>5. QED
    BY <1>3, <1>4 DEF IndInv

LEMMA ExecuteInv == IndInv /\ Execute => IndInv'
  <1> SUFFICES ASSUME IndInv, Execute PROVE IndInv'
    OBVIOUS
  <1>1. PICK r \in call : engine' = Run(engine, r).engine /\ answer' = {Run(engine, r).answer}
    BY DEF Execute
  <1>2. UNCHANGED <<late, call, pc, unsafe_head, safe_head, finalized_head, content, derived,
                    overtaken>>
    BY DEF Execute, heads
  <1>3. /\ r \in Request /\ call = {r} /\ pc \notin {"down", "idle"}
        /\ r.method = "fcu" => r.head = unsafe_head
    BY CallTyped DEF IndInv
  <1>4. engine \in Engine
    BY DEF IndInv, Types
  <1>5. /\ engine' \in Engine /\ engine.known \subseteq engine'.known
        /\ KnownClosed' /\ engine'.finalized \in engine'.known
    BY <1>1, <1>3, RunTypes DEF IndInv
  <1>6. Types'
    BY <1>2, <1>5 DEF IndInv, Types
  <1>7. CallOfPlace'
    BY <1>2, <1>3 DEF IndInv, CallOfPlace, CurrentForkchoice, Attributes
  <1>8. ASSUME NEW a, a = Run(engine, r).answer PROVE AnswerOf(r, a)'
    <2>1. CASE r.method = "fcu"
      <3>1. r \in ForkchoiceRequest
        BY <1>3, <2>1, RequestKinds
      <3>2. CASE r.head \notin engine.known
        <4>1. pc # "ready"
          BY <1>3, <2>1, <3>2 DEF IndInv, HeadsInOrder
        <4>2. a = Status("SYNCING", {})
          BY <1>4, <1>8, <3>1, <3>2, RunForkchoice
        <4>3. QED
          BY <1>1, <1>2, <2>1, <4>1, <4>2 DEF AnswerOf
      <3>3. CASE r.head \in engine.known
        <4>1. engine'.head = r.head
          BY <1>1, <1>4, <3>1, <3>3, RunForkchoice
        <4>2. a = IF Sound(r) /\ Later(r)
                   THEN Status("VALID", Ids(r)) ELSE Error
          BY <1>4, <1>8, <3>1, <3>3, RunForkchoice
        <4>3. QED
          BY <1>1, <2>1, <4>1, <4>2 DEF AnswerOf
      <3>4. QED
        BY <3>2, <3>3
    <2>2. CASE r.method = "get"
      BY <1>3, <1>4, <1>8, <2>2, RequestKinds, RunGet DEF AnswerOf
    <2>3. CASE r.method = "new"
      BY <1>3, <1>4, <1>8, <2>3, RequestKinds, RunNew DEF AnswerOf
    <2>4. QED
      BY <1>3, <2>1, <2>2, <2>3, RequestKinds
  <1>9. AnswersFit'
    BY <1>1, <1>2, <1>8 DEF AnswersFit
  <1>10. HeadsInOrder'
    BY <1>2, <1>5 DEF IndInv, HeadsInOrder
  <1>11. InStep'
    BY <1>1, <1>2, <1>3, StaysInStep DEF heads
  <1>12. QED
    BY <1>6, <1>7, <1>9, <1>10, <1>11 DEF IndInv

LEMMA ExecuteLateInv == IndInv /\ ExecuteLate => IndInv'
  <1> SUFFICES ASSUME IndInv, ExecuteLate PROVE IndInv'
    OBVIOUS
  <1>1. PICK l \in late : /\ engine' = Run(engine, l.request).engine
                          /\ late' = late \ {l}
                          /\ overtaken' = (overtaken \/ Overtakes(l.request))
    BY DEF ExecuteLate
  <1>2. UNCHANGED <<call, answer, pc, unsafe_head, safe_head, finalized_head, content, derived>>
    BY DEF ExecuteLate, heads, post
  <1> DEFINE r == l.request
  <1>3. r \in Request
    BY DEF IndInv, Types
  <1> HIDE DEF r
  <1>4. engine' = Run(engine, r).engine /\ engine \in Engine
    BY <1>1 DEF IndInv, Types, r
  <1>5. /\ engine' \in Engine /\ engine.known \subseteq engine'.known
        /\ KnownClosed' /\ engine'.finalized \in engine'.known
    BY <1>3, <1>4, RunTypes DEF IndInv
  <1>6. overtaken' \in BOOLEAN /\ (overtaken => overtaken')
        /\ (~overtaken' => overtaken' = overtaken)
    BY <1>1 DEF IndInv, Types, Overtakes
  <1>7. ~overtaken' /\ r.method = "fcu" => r \in call
    BY <1>1 DEF Overtakes, r
  <1>8. Types'
    BY <1>1, <1>2, <1>5, <1>6 DEF IndInv, Types
  <1>9. CallOfPlace'
    BY <1>2, <1>6 DEF IndInv, CallOfPlace, CurrentForkchoice, Attributes
  <1>10. AnswersFit'
    <2> SUFFICES ASSUME NEW a \in answer PROVE \E q \in call : AnswerOf(q, a)'
      BY <1>2 DEF AnswersFit
    <2>1. PICK q \in call : AnswerOf(q, a)
      BY DEF IndInv, AnswersFit
    <2>2. q.method = "fcu" => q.head = unsafe_head
      BY CallTyped DEF IndInv
    <2>3. ~overtaken' => engine'.head = engine.head \/ engine'.head = unsafe_head
      BY <1>3, <1>4, <1>7, EngineMoves DEF IndInv
    <2>4. QED
      BY <1>2, <1>6, <2>1, <2>2, <2>3 DEF AnswerOf
  <1>11. HeadsInOrder'
    BY <1>2, <1>5 DEF IndInv, HeadsInOrder
  <1>12. InStep'
    <2>1. CASE overtaken'
      BY <2>1 DEF InStep
    <2>2. CASE ~overtaken'
      BY <1>2, <1>3, <1>4, <1>6, <1>7, <2>2, StaysInStep DEF heads
    <2>3. QED
      BY <2>1, <2>2
  <1>13. QED
    BY <1>8, <1>9, <1>10, <1>11, <1>12 DEF IndInv

\* A request given up by the client is one the engine may execute later.
LEMMA LateTyped ==
    ASSUME IndInv, \/ UNCHANGED late
                   \/ late' = late \cup {[request |-> q, nr |-> faults] : q \in call}
    PROVE  \A l \in late' : l.request \in Request
  BY CallTyped DEF IndInv, Types

LEMMA TimeOutInv == IndInv /\ TimeOut => IndInv'
  <1> SUFFICES ASSUME IndInv, TimeOut PROVE IndInv'
    OBVIOUS
  <1>1. UNCHANGED <<engine, call, pc, unsafe_head, safe_head, finalized_head, content, derived,
                    overtaken>>
    BY DEF TimeOut, heads
  <1>2. call # {} /\ answer' \in {{}, {Error}}
    BY DEF TimeOut, NextAttempt
  <1>3. \A l \in late' : l.request \in Request
    BY LateTyped DEF TimeOut, Lingers
  <1>4. Types'
    BY <1>1, <1>3 DEF IndInv, Types, KnownClosed
  <1>5. CallOfPlace'
    BY <1>1, <1>2 DEF IndInv, CallOfPlace, CurrentForkchoice, Attributes
  <1>6. AnswersFit'
    BY <1>1, <1>2 DEF AnswersFit, AnswerOf
  <1>7. HeadsInOrder' /\ InStep'
    BY <1>1 DEF IndInv, HeadsInOrder, InStep
  <1>8. QED
    BY <1>4, <1>5, <1>6, <1>7 DEF IndInv

-----------------------------------------------------------------------------
(* The steps of the driver *)

\* When the driver gives up nothing is left of it.
LEMMA ExitInv ==
    ASSUME IndInv, Exit, UNCHANGED <<engine, overtaken>>, \A l \in late' : l.request \in Request
    PROVE  IndInv'
  <1>1. Genesis \in Block
    BY EmptySeq DEF Genesis, Block
  <1>2. Types'
    BY <1>1 DEF IndInv, Types, Exit, KnownClosed
  <1>3. CallOfPlace' /\ AnswersFit' /\ HeadsInOrder' /\ InStep'
    BY DEF IndInv, Exit, NoCall, CallOfPlace, AnswersFit, HeadsInOrder, InStep
  <1>4. QED
    BY <1>2, <1>3 DEF IndInv

LEMMA StartInv == IndInv /\ Start => IndInv'
  <1> SUFFICES ASSUME IndInv, Start PROVE IndInv'
    OBVIOUS
  <1>1. /\ pc' = "ready"
        /\ unsafe_head' = engine.finalized /\ safe_head' = engine.finalized
        /\ finalized_head' = engine.finalized /\ derived' = engine.finalized
        /\ call' = {Forkchoice(unsafe_head', safe_head', finalized_head', {})} /\ answer' = {}
        /\ UNCHANGED <<engine, late, overtaken>>
    BY DEF Start, Post
  <1>2. engine.finalized \in Block /\ engine.finalized \in engine.known
    BY DEF IndInv, Types, Engine
  <1>3. IsPrefix(engine.finalized, engine.finalized)
    BY <1>2, PrefixReflexive DEF Block
  <1>4. Types'
    BY <1>1, <1>2 DEF IndInv, Types, KnownClosed
  <1>5. CallOfPlace' /\ AnswersFit'
    BY <1>1 DEF CallOfPlace, CurrentForkchoice, AnswersFit
  <1>6. HeadsInOrder' /\ InStep'
    BY <1>1, <1>2, <1>3 DEF HeadsInOrder, InStep
  <1>7. QED
    BY <1>4, <1>5, <1>6 DEF IndInv

\* The first answer puts the engine on the block the driver starts from.
LEMMA EngineReadyInv == IndInv /\ EngineReady => IndInv'
  <1> SUFFICES ASSUME IndInv, EngineReady PROVE IndInv'
    OBVIOUS
  <1>1. UNCHANGED <<engine, late, unsafe_head, safe_head, finalized_head, derived, overtaken>>
        /\ pc = "ready"
    BY DEF EngineReady, heads
  <1>2. Types'
    BY <1>1 DEF IndInv, Types, KnownClosed
  <1>3. CASE answer = {Error}
    <2>1. pc' = "ready" /\ answer' = {} /\ call' = {CurrentForkchoice({})'}
      BY <1>1, <1>3 DEF EngineReady, Post, CurrentForkchoice
    <2>2. CallOfPlace' /\ AnswersFit'
      BY <2>1 DEF CallOfPlace, AnswersFit
    <2>3. HeadsInOrder' /\ InStep'
      BY <1>1, <2>1 DEF IndInv, HeadsInOrder, InStep
    <2>4. QED
      BY <1>2, <2>2, <2>3 DEF IndInv
  <1>4. CASE answer # {Error}
    <2>1. pc' = "idle" /\ answer' = {} /\ call' = {} /\ answer # {}
      BY <1>1, <1>4 DEF EngineReady, NoCall
    <2>2. overtaken \/ engine.head = safe_head
      <3>1. PICK a \in answer : a # Error
        BY <1>4, <2>1
      <3>2. PICK r \in call : AnswerOf(r, a)
        BY DEF IndInv, AnswersFit
      <3>3. r.method = "fcu" /\ r.head = unsafe_head /\ unsafe_head = safe_head
        BY <1>1, CallTyped, RequestKinds DEF IndInv, HeadsInOrder
      <3>4. QED
        BY <1>1, <3>1, <3>2, <3>3 DEF AnswerOf
    <2>3. safe_head \in Block
      BY DEF IndInv, Types
    <2>4. overtaken \/ IsPrefix(safe_head, engine.head)
      BY <2>2, <2>3, PrefixReflexive DEF Block
    <2>5. CallOfPlace' /\ AnswersFit'
      BY <2>1 DEF CallOfPlace, AnswersFit
    <2>6. HeadsInOrder' /\ InStep'
      BY <1>1, <2>1, <2>4 DEF IndInv, HeadsInOrder, InStep
    <2>7. QED
      BY <1>2, <2>5, <2>6 DEF IndInv
  <1>5. QED
    BY <1>3, <1>4

\* The block of the engine after the safe head.  While the engine is in step it is on the
\* safe head.
LEMMA BlockAfterSafe ==
    ASSUME IndInv, pc = "idle", NEW b \in EngineBlocks(Len(safe_head) + 1)
    PROVE  /\ b \in Block /\ Len(b) = Len(safe_head) + 1 /\ Last(b) \in Contents
           /\ overtaken \/ b = Append(safe_head, Last(b))
  <1>1. engine.head \in Block /\ safe_head \in Block
    BY DEF IndInv, Types, Engine
  <1> DEFINE h == engine.head
             n == Len(safe_head) + 1
  <1>2. h \in Block /\ b = SubSeq(h, 1, n) /\ n \in 1..Len(h) /\ n \in 0..Len(h)
        /\ Len(safe_head) \in Nat /\ n - 1 = Len(safe_head)
    BY <1>1, LenProperties DEF EngineBlocks, Block
  <1> HIDE DEF h, n
  <1>3. b \in Block /\ Len(b) = n /\ IsPrefix(b, h)
    BY <1>2, PrefixSubSeq DEF Block
  <1>4. b # <<>>
    BY <1>2, <1>3, EmptySeq
  <1>5. /\ Last(b) \in Contents /\ Front(b) \in Block /\ Len(Front(b)) = Len(safe_head)
        /\ b = Append(Front(b), Last(b)) /\ IsPrefix(Front(b), b)
    BY <1>2, <1>3, <1>4, FrontIsParent DEF Block
  <1>6. ASSUME ~overtaken PROVE Front(b) = safe_head
    <2>1. IsPrefix(safe_head, h) /\ Len(safe_head) <= Len(b)
      BY <1>2, <1>3, <1>6 DEF IndInv, InStep, h, n
    <2>2. IsPrefix(safe_head, b)
      BY <1>1, <1>2, <1>3, <2>1, PrefixComparable DEF Block
    <2>3. IsPrefix(safe_head, Front(b))
      <3>1. Len(safe_head) <= Len(Front(b))
        BY <1>2, <1>5
      <3>2. QED
        BY <1>1, <1>3, <1>5, <2>2, <3>1, PrefixComparable DEF Block
    <2>4. QED
      BY <1>1, <1>5, <2>3, PrefixSameLength DEF Block
  <1>7. QED
    BY <1>3, <1>5, <1>6 DEF n

LEMMA HandleAttributesInv ==
    ASSUME IndInv, NEW c \in Contents, HandleAttributes(c)
    PROVE  IndInv'
  <1>1. /\ pc = "idle" /\ content' = {c} /\ derived' = Append(derived, c)
        /\ UNCHANGED <<engine, late, finalized_head, overtaken>>
    BY DEF HandleAttributes
  <1>2. /\ unsafe_head \in Block /\ safe_head \in Block /\ finalized_head \in Block
        /\ derived \in Block /\ derived' \in Block
    BY <1>1, FrontOfAppend DEF IndInv, Types, Block
  <1>3. /\ IsPrefix(finalized_head, safe_head) /\ IsPrefix(safe_head, unsafe_head)
        /\ overtaken \/ safe_head = derived
        /\ overtaken \/ IsPrefix(engine.finalized, finalized_head)
    BY <1>1 DEF IndInv, HeadsInOrder, InStep
  <1>4. CASE \E block \in EngineBlocks(Len(safe_head) + 1) :
               /\ ShouldSkip(block, c)
               /\ safe_head' = block
               /\ unsafe_head' = IF Len(block) > Len(unsafe_head) THEN block ELSE unsafe_head
               /\ Post(Forkchoice(unsafe_head', safe_head', finalized_head, {}))
               /\ pc' = "fcu"
    <2>1. PICK block \in EngineBlocks(Len(safe_head) + 1) :
               /\ ShouldSkip(block, c)
               /\ safe_head' = block
               /\ unsafe_head' = IF Len(block) > Len(unsafe_head) THEN block ELSE unsafe_head
               /\ Post(Forkchoice(unsafe_head', safe_head', finalized_head, {}))
               /\ pc' = "fcu"
      BY <1>4
    <2>2. /\ block \in Block /\ Len(block) = Len(safe_head) + 1 /\ Last(block) = c
          /\ overtaken \/ block = Append(safe_head, c)
      BY <1>1, <2>1, BlockAfterSafe DEF ShouldSkip
    <2>3. Types'
      BY <1>1, <1>2, <2>1, <2>2 DEF IndInv, Types, KnownClosed
    <2>4. CallOfPlace' /\ AnswersFit'
      BY <1>1, <2>1 DEF Post, CallOfPlace, CurrentForkchoice, AnswersFit
    <2>5. Len(finalized_head) <= Len(block)
      BY <1>2, <1>3, <2>2, PrefixEntries, LenProperties DEF Block
    <2>6. HeadsInOrder'
      BY <1>1, <2>1, <2>5 DEF HeadsInOrder
    <2>7. InStep'
      BY <1>1, <1>3, <2>1, <2>2 DEF InStep
    <2>8. QED
      BY <2>3, <2>4, <2>6, <2>7 DEF IndInv
  <1>5. CASE /\ safe_head' = safe_head /\ unsafe_head' \in {unsafe_head, safe_head}
             /\ Post(Forkchoice(unsafe_head', safe_head, finalized_head, {Attributes(c)}))
             /\ pc' = "build"
    <2>1. Types'
      BY <1>1, <1>2, <1>5 DEF IndInv, Types, KnownClosed
    <2>2. Attributes(c)' = Attributes(c)
      BY <1>5 DEF Attributes
    <2>3. call' = {CurrentForkchoice({Attributes(c)})'} /\ answer' = {}
      BY <1>1, <1>5, <2>2 DEF Post, CurrentForkchoice
    <2>4. overtaken' \/ derived' = Append(safe_head', c)
      BY <1>1, <1>3, <1>5
    <2>5. CallOfPlace' /\ AnswersFit'
      BY <1>1, <1>5, <2>2, <2>3, <2>4 DEF CallOfPlace, AnswersFit
    <2>6. HeadsInOrder' /\ InStep'
      BY <1>1, <1>3, <1>5 DEF HeadsInOrder, InStep
    <2>7. QED
      BY <2>1, <2>5, <2>6 DEF IndInv
  <1>6. QED
    BY <1>4, <1>5 DEF HandleAttributes

\* The engine starts a block only if the unsafe head is no longer than the safe head: so
\* they are the same.
LEMMA BuildInv == IndInv /\ Build => IndInv'
  <1> SUFFICES ASSUME IndInv, Build PROVE IndInv'
    OBVIOUS
  <1>1. PICK a \in answer :
          \/ /\ a.type = "status" /\ a.status = "VALID" /\ a.id # {}
             /\ \E id \in a.id : Post(GetPayload(id))
             /\ pc' = "get"
             /\ UNCHANGED <<heads, content, derived>>
          \/ Exit
    BY DEF Build
  <1>2. pc = "build" /\ UNCHANGED <<engine, late, overtaken>>
    BY DEF Build
  <1>3. CASE Exit
    BY <1>2, <1>3, ExitInv DEF IndInv, Types
  <1>4. ASSUME a.type = "status", a.status = "VALID", NEW id \in a.id,
               Post(GetPayload(id)), pc' = "get", UNCHANGED <<heads, content, derived>>
        PROVE  IndInv'
    <2>1. PICK c \in Contents : /\ content = {c}
                                /\ overtaken \/ derived = Append(safe_head, c)
                                /\ call = {CurrentForkchoice({Attributes(c)})}
      BY <1>2 DEF IndInv, CallOfPlace
    <2> DEFINE r == CurrentForkchoice({Attributes(c)})
    <2>2. /\ r.method = "fcu" /\ r.head = unsafe_head /\ r.safe = safe_head
          /\ r.attributes = {Attributes(c)}
          /\ Attributes(c).slot = Len(safe_head) + 1 /\ Attributes(c).content = c
      BY ForkchoiceTyped, AttributesTyped DEF IndInv, Types, CurrentForkchoice
    <2> HIDE DEF r
    <2>3. AnswerOf(r, a) /\ a # Error
      <3>1. a # Error
        BY <1>4 DEF Error
      <3>2. PICK q \in call : AnswerOf(q, a)
        BY DEF IndInv, AnswersFit
      <3>3. q = r
        BY <2>1 DEF r
      <3>4. QED
        BY <3>1, <3>2, <3>3
    <2>4. a = Status("VALID", Ids(r)) /\ Sound(r) /\ Later(r)
      BY <1>4, <2>2, <2>3 DEF AnswerOf, Status
    <2>5. id = <<unsafe_head, c>>
      BY <1>4, <2>2, <2>4 DEF Status, Ids
    <2>6. unsafe_head \in Block /\ safe_head \in Block
      BY DEF IndInv, Types
    <2>7. unsafe_head = safe_head
      <3>1. IsPrefix(safe_head, unsafe_head) /\ Len(safe_head) + 1 > Len(unsafe_head)
        BY <2>2, <2>4 DEF Sound, Later
      <3>2. Len(safe_head) = Len(unsafe_head)
        BY <2>6, <3>1, PrefixEntries, LenProperties DEF Block
      <3>3. QED
        BY <2>6, <3>1, <3>2, PrefixSameLength DEF Block
    <2>8. Types'
      BY <1>2, <1>4 DEF IndInv, Types, KnownClosed, heads
    <2>9. CallOfPlace' /\ AnswersFit'
      BY <1>2, <1>4, <2>1, <2>5, <2>7 DEF CallOfPlace, AnswersFit, Post, heads
    <2>10. HeadsInOrder' /\ InStep'
      BY <1>2, <1>4 DEF IndInv, HeadsInOrder, InStep, heads
    <2>11. QED
      BY <2>8, <2>9, <2>10 DEF IndInv
  <1>5. QED
    BY <1>1, <1>3, <1>4

\* Whatever was repeated, the payload that comes back is the one that was asked for.
LEMMA PushInv == IndInv /\ Push => IndInv'
  <1> SUFFICES ASSUME IndInv, Push PROVE IndInv'
    OBVIOUS
  <1>1. PICK a \in answer :
          \/ /\ a.type = "payload"
             /\ Post(NewPayload(a.block))
             /\ pc' = "push"
             /\ UNCHANGED <<heads, content, derived>>
          \/ Exit
    BY DEF Push
  <1>2. pc = "get" /\ UNCHANGED <<engine, late, overtaken>>
    BY DEF Push
  <1>3. CASE Exit
    BY <1>2, <1>3, ExitInv DEF IndInv, Types
  <1>4. ASSUME a.type = "payload", Post(NewPayload(a.block)), pc' = "push",
               UNCHANGED <<heads, content, derived>>
        PROVE  IndInv'
    <2>1. PICK c \in Contents : /\ content = {c}
                                /\ overtaken \/ derived = Append(safe_head, c)
                                /\ unsafe_head = safe_head
                                /\ call = {GetPayload(<<unsafe_head, c>>)}
      BY <1>2 DEF IndInv, CallOfPlace
    <2> DEFINE r == GetPayload(<<unsafe_head, c>>)
    <2>2. r.method = "get" /\ r.id[1] = unsafe_head /\ r.id[2] = c
      BY DEF GetPayload
    <2> HIDE DEF r
    <2>3. AnswerOf(r, a) /\ a # Error
      <3>1. a # Error
        BY <1>4 DEF Error
      <3>2. PICK q \in call : AnswerOf(q, a)
        BY DEF IndInv, AnswersFit
      <3>3. q = r
        BY <2>1 DEF r
      <3>4. QED
        BY <3>1, <3>2, <3>3
    <2>4. a.block = Append(unsafe_head, c)
      BY <2>2, <2>3 DEF AnswerOf
    <2>5. Types'
      BY <1>2, <1>4 DEF IndInv, Types, KnownClosed, heads
    <2>6. CallOfPlace' /\ AnswersFit'
      BY <1>2, <1>4, <2>1, <2>4 DEF CallOfPlace, AnswersFit, Post, heads
    <2>7. HeadsInOrder' /\ InStep'
      BY <1>2, <1>4 DEF IndInv, HeadsInOrder, InStep, heads
    <2>8. QED
      BY <2>5, <2>6, <2>7 DEF IndInv
  <1>5. QED
    BY <1>1, <1>3, <1>4

LEMMA UpdateSafeHeadInv == IndInv /\ UpdateSafeHead => IndInv'
  <1> SUFFICES ASSUME IndInv, UpdateSafeHead PROVE IndInv'
    OBVIOUS
  <1>1. pc = "push" /\ UNCHANGED <<engine, late, overtaken>>
    BY DEF UpdateSafeHead
  <1>2. CASE Exit
    BY <1>1, <1>2, ExitInv DEF IndInv, Types
  <1>3. ASSUME NEW r \in call, safe_head' = r.block, unsafe_head' = r.block,
               Post(Forkchoice(unsafe_head', safe_head', finalized_head, {})),
               pc' = "fcu", UNCHANGED <<finalized_head, content, derived>>
        PROVE  IndInv'
    <2>1. PICK c \in Contents : /\ content = {c}
                                /\ overtaken \/ derived = Append(safe_head, c)
                                /\ unsafe_head = safe_head
                                /\ call = {NewPayload(Append(unsafe_head, c))}
      BY <1>1 DEF IndInv, CallOfPlace
    <2>2. r.block = Append(safe_head, c)
      BY <2>1 DEF NewPayload
    <2>3. /\ safe_head \in Block /\ finalized_head \in Block
          /\ IsPrefix(finalized_head, safe_head)
          /\ overtaken \/ IsPrefix(engine.finalized, finalized_head)
      BY <1>1 DEF IndInv, Types, HeadsInOrder, InStep
    <2>4. r.block \in Block /\ Len(r.block) = Len(safe_head) + 1
      BY <2>2, <2>3, FrontOfAppend DEF Block
    <2>5. Len(finalized_head) <= Len(r.block)
      BY <2>3, <2>4, PrefixEntries, LenProperties DEF Block
    <2>6. Types'
      BY <1>1, <1>3, <2>4 DEF IndInv, Types, KnownClosed
    <2>7. CallOfPlace' /\ AnswersFit'
      BY <1>3 DEF CallOfPlace, AnswersFit, Post, CurrentForkchoice
    <2>8. HeadsInOrder'
      BY <1>3, <2>5 DEF HeadsInOrder
    <2>9. InStep'
      BY <1>1, <1>3, <2>1, <2>2, <2>3 DEF InStep
    <2>10. QED
      BY <2>6, <2>7, <2>8, <2>9 DEF IndInv
  <1>4. QED
    BY <1>2, <1>3 DEF UpdateSafeHead

\* A forkchoice update that is answered VALID leaves the engine on the driver's head.
LEMMA ValidForkchoice ==
    ASSUME IndInv, pc \in {"fcu", "unsafe_fcu"}, NEW a \in answer,
           a.type = "status", a.status = "VALID"
    PROVE  /\ IsPrefix(safe_head, unsafe_head) /\ IsPrefix(finalized_head, unsafe_head)
           /\ overtaken \/ engine.head = unsafe_head
  <1>1. PICK r \in call : AnswerOf(r, a)
    BY DEF IndInv, AnswersFit
  <1>2. /\ r.method = "fcu" /\ r.head = unsafe_head /\ r.safe = safe_head
        /\ r.finalized = finalized_head
    BY CallTyped, RequestKinds DEF IndInv
  <1>3. Sound(r) /\ (overtaken \/ engine.head = r.head)
    BY <1>1, <1>2 DEF AnswerOf, Error, Status
  <1>4. QED
    BY <1>2, <1>3 DEF Sound

LEMMA UpdateForkchoiceInv == IndInv /\ UpdateForkchoice => IndInv'
  <1> SUFFICES ASSUME IndInv, UpdateForkchoice PROVE IndInv'
    OBVIOUS
  <1>1. pc = "fcu" /\ UNCHANGED <<engine, late, overtaken>>
    BY DEF UpdateForkchoice
  <1>2. CASE Exit
    BY <1>1, <1>2, ExitInv DEF IndInv, Types
  <1>3. ASSUME NEW a \in answer, a.type = "status", a.status = "VALID",
               NoCall, pc' = "idle", UNCHANGED <<heads, derived>>
        PROVE  IndInv'
    <2>1. /\ unsafe_head \in Block /\ safe_head \in Block /\ finalized_head \in Block
          /\ Len(finalized_head) <= Len(safe_head)
      BY <1>1 DEF IndInv, Types, HeadsInOrder
    <2>2. /\ IsPrefix(safe_head, unsafe_head) /\ IsPrefix(finalized_head, unsafe_head)
          /\ overtaken \/ engine.head = unsafe_head
      BY <1>1, <1>3, ValidForkchoice
    <2>3. IsPrefix(finalized_head, safe_head)
      BY <2>1, <2>2, PrefixComparable DEF Block
    <2>4. Types'
      BY <1>1, <1>3 DEF IndInv, Types, KnownClosed, heads
    <2>5. CallOfPlace' /\ AnswersFit'
      BY <1>3 DEF CallOfPlace, AnswersFit, NoCall
    <2>6. HeadsInOrder'
      BY <1>3, <2>2, <2>3 DEF HeadsInOrder, heads
    <2>7. InStep'
      BY <1>1, <1>3, <2>2 DEF IndInv, InStep, heads
    <2>8. QED
      BY <2>4, <2>5, <2>6, <2>7 DEF IndInv
  <1>4. QED
    BY <1>2, <1>3 DEF UpdateForkchoice

LEMMA HandleUnsafePayloadInv ==
    ASSUME IndInv, NEW c \in Gossiped, HandleUnsafePayload(c)
    PROVE  IndInv'
  <1>1. /\ pc = "idle" /\ pc' = "unsafe_push"
        /\ call' = {NewPayload(Append(unsafe_head, c))} /\ answer' = {}
        /\ UNCHANGED <<engine, late, unsafe_head, safe_head, finalized_head, derived, overtaken>>
    BY DEF HandleUnsafePayload, Post, heads
  <1>2. c \in Contents
    BY EngineApiAssumption
  <1>3. Types'
    BY <1>1 DEF IndInv, Types, KnownClosed
  <1>4. CallOfPlace' /\ AnswersFit'
    BY <1>1, <1>2 DEF CallOfPlace, AnswersFit
  <1>5. HeadsInOrder' /\ InStep'
    BY <1>1 DEF IndInv, HeadsInOrder, InStep
  <1>6. QED
    BY <1>3, <1>4, <1>5 DEF IndInv

LEMMA UnsafePushedInv == IndInv /\ UnsafePushed => IndInv'
  <1> SUFFICES ASSUME IndInv, UnsafePushed PROVE IndInv'
    OBVIOUS
  <1>1. /\ pc = "unsafe_push"
        /\ UNCHANGED <<engine, late, safe_head, finalized_head, derived, overtaken>>
    BY DEF UnsafePushed
  <1>2. CASE NoCall /\ pc' = "idle" /\ UNCHANGED unsafe_head
    <2>1. Types'
      BY <1>1, <1>2 DEF IndInv, Types, KnownClosed
    <2>2. CallOfPlace' /\ AnswersFit'
      BY <1>2 DEF CallOfPlace, AnswersFit, NoCall
    <2>3. HeadsInOrder' /\ InStep'
      BY <1>1, <1>2 DEF IndInv, HeadsInOrder, InStep
    <2>4. QED
      BY <2>1, <2>2, <2>3 DEF IndInv
  <1>3. ASSUME NEW r \in call, unsafe_head' = r.block,
               Post(Forkchoice(unsafe_head', safe_head, finalized_head, {})),
               pc' = "unsafe_fcu"
        PROVE  IndInv'
    <2>1. PICK c \in Contents : call = {NewPayload(Append(unsafe_head, c))}
      BY <1>1 DEF IndInv, CallOfPlace
    <2>2. unsafe_head' = Append(unsafe_head, c)
      BY <1>3, <2>1 DEF NewPayload
    <2>3. /\ unsafe_head \in Block /\ safe_head \in Block
          /\ IsPrefix(safe_head, unsafe_head)
      BY <1>1 DEF IndInv, Types, HeadsInOrder
    <2>4. unsafe_head' \in Block /\ IsPrefix(safe_head, unsafe_head')
      BY <2>2, <2>3, FrontOfAppend, PrefixAppend DEF Block
    <2>5. Types'
      BY <1>1, <2>4 DEF IndInv, Types, KnownClosed
    <2>6. CallOfPlace' /\ AnswersFit'
      BY <1>1, <1>3 DEF CallOfPlace, AnswersFit, Post, CurrentForkchoice
    <2>7. HeadsInOrder' /\ InStep'
      BY <1>1, <1>3, <2>4 DEF IndInv, HeadsInOrder, InStep
    <2>8. QED
      BY <2>5, <2>6, <2>7 DEF IndInv
  <1>4. QED
    BY <1>2, <1>3 DEF UnsafePushed

LEMMA UnsafeUpdatedInv == IndInv /\ UnsafeUpdated => IndInv'
  <1> SUFFICES ASSUME IndInv, UnsafeUpdated PROVE IndInv'
    OBVIOUS
  <1>1. /\ pc = "unsafe_fcu" /\ pc' = "idle" /\ call' = {} /\ answer' = {}
        /\ UNCHANGED <<engine, late, unsafe_head, safe_head, finalized_head, derived, overtaken>>
    BY DEF UnsafeUpdated, NoCall, heads
  <1>2. Types'
    BY <1>1 DEF IndInv, Types, KnownClosed
  <1>3. CallOfPlace' /\ AnswersFit'
    BY <1>1 DEF CallOfPlace, AnswersFit
  <1>4. HeadsInOrder' /\ InStep'
    BY <1>1 DEF IndInv, HeadsInOrder, InStep
  <1>5. QED
    BY <1>2, <1>3, <1>4 DEF IndInv

LEMMA UpdateFinalizedInv == IndInv /\ UpdateFinalized => IndInv'
  <1> SUFFICES ASSUME IndInv, UpdateFinalized PROVE IndInv'
    OBVIOUS
  <1>1. /\ pc = "idle" /\ UNCHANGED <<engine, late, call, answer, pc, unsafe_head, safe_head,
                                     derived, overtaken>>
    BY DEF UpdateFinalized, post
  <1>2. PICK n \in (Len(finalized_head) + 1)..Len(safe_head) :
          finalized_head' = SubSeq(safe_head, 1, n)
    BY DEF UpdateFinalized
  <1>3. /\ safe_head \in Block /\ finalized_head \in Block /\ engine.finalized \in Block
        /\ IsPrefix(finalized_head, safe_head)
        /\ overtaken \/ IsPrefix(engine.finalized, finalized_head)
    BY <1>1 DEF IndInv, Types, Engine, HeadsInOrder, InStep
  <1>4. Len(finalized_head) \in Nat /\ Len(safe_head) \in Nat
    BY <1>3, LenProperties DEF Block
  <1>5. n \in 0..Len(safe_head) /\ Len(finalized_head) <= n
    BY <1>4
  <1>6. /\ finalized_head' \in Block /\ Len(finalized_head') = n
        /\ IsPrefix(finalized_head', safe_head)
    BY <1>2, <1>3, <1>5, PrefixSubSeq DEF Block
  <1>7. IsPrefix(finalized_head, finalized_head')
    BY <1>3, <1>5, <1>6, PrefixComparable DEF Block
  <1>8. overtaken \/ IsPrefix(engine.finalized, finalized_head')
    BY <1>3, <1>6, <1>7, PrefixTransitive DEF Block
  <1>9. Types'
    BY <1>1, <1>6 DEF IndInv, Types, KnownClosed
  <1>10. CallOfPlace' /\ AnswersFit'
    BY <1>1 DEF IndInv, CallOfPlace, AnswersFit
  <1>11. HeadsInOrder' /\ InStep'
    BY <1>1, <1>6, <1>8 DEF IndInv, HeadsInOrder, InStep
  <1>12. QED
    BY <1>9, <1>10, <1>11 DEF IndInv

LEMMA ReorgInv == IndInv /\ Reorg => IndInv'
  <1> SUFFICES ASSUME IndInv, Reorg PROVE IndInv'
    OBVIOUS
  <1>1. /\ pc = "idle" /\ unsafe_head' = finalized_head /\ safe_head' = finalized_head
        /\ derived' = finalized_head
        /\ UNCHANGED <<engine, late, call, answer, pc, finalized_head, overtaken>>
    BY DEF Reorg, post
  <1>2. /\ safe_head \in Block /\ finalized_head \in Block /\ engine.head \in Block
        /\ IsPrefix(finalized_head, safe_head)
        /\ overtaken \/ IsPrefix(safe_head, engine.head)
    BY <1>1 DEF IndInv, Types, Engine, HeadsInOrder, InStep
  <1>3. IsPrefix(finalized_head, finalized_head)
        /\ (overtaken \/ IsPrefix(finalized_head, engine.head))
    BY <1>2, PrefixReflexive, PrefixTransitive DEF Block
  <1>4. Types'
    BY <1>1, <1>2 DEF IndInv, Types, KnownClosed
  <1>5. CallOfPlace' /\ AnswersFit'
    BY <1>1 DEF IndInv, CallOfPlace, AnswersFit
  <1>6. HeadsInOrder' /\ InStep'
    BY <1>1, <1>3 DEF IndInv, HeadsInOrder, InStep
  <1>7. QED
    BY <1>4, <1>5, <1>6 DEF IndInv

-----------------------------------------------------------------------------
(* Theorems *)

LEMMA StepInv == IndInv /\ [Next]_vars => IndInv'
  <1> SUFFICES ASSUME IndInv, [Next]_vars PROVE IndInv'
    OBVIOUS
  <1>1. CASE Crash
    <2>1. \A l \in late' : l.request \in Request
      BY <1>1, LateTyped DEF Crash, Lingers
    <2>2. QED
      BY <1>1, <2>1, ExitInv DEF Crash
  <1>2. CASE Continue
    BY <1>2, EngineReadyInv, BuildInv, PushInv, UpdateSafeHeadInv, UpdateForkchoiceInv,
       UnsafePushedInv, UnsafeUpdatedInv DEF Continue
  <1>3. CASE \E c \in Contents : HandleAttributes(c)
    BY <1>3, HandleAttributesInv
  <1>4. CASE \E c \in Gossiped : HandleUnsafePayload(c)
    BY <1>4, HandleUnsafePayloadInv
  <1>5. CASE Execute \/ ExecuteLate \/ TimeOut \/ Start
    BY <1>5, ExecuteInv, ExecuteLateInv, TimeOutInv, StartInv
  <1>6. CASE UpdateFinalized \/ Reorg
    BY <1>6, UpdateFinalizedInv, ReorgInv
  <1>7. CASE UNCHANGED vars
    <2>1. UNCHANGED <<engine, late, call, answer, pc, unsafe_head, safe_head, finalized_head,
                      content, derived, overtaken>>
      BY <1>7 DEF vars, post, heads
    <2>2. Types' /\ HeadsInOrder' /\ InStep'
      BY <2>1 DEF IndInv, Types, KnownClosed, HeadsInOrder, InStep
    <2>3. CallOfPlace'
      BY <2>1 DEF IndInv, CallOfPlace, CurrentForkchoice, Attributes
    <2>4. AnswersFit'
      BY <2>1 DEF IndInv, AnswersFit, AnswerOf
    <2>5. QED
      BY <2>2, <2>3, <2>4 DEF IndInv
  <1>8. QED
    BY <1>1, <1>2, <1>3, <1>4, <1>5, <1>6, <1>7 DEF Next

LEMMA Invariance == Spec => []IndInv
  <1>1. QED
    BY InitInv, StepInv, PTL DEF Spec

\* The payload that push_payload sends back is the one that build_payload asked for,
\* however often a call was repeated and whatever was executed late.
THEOREM BuiltAsAskedCorrect == Spec => []BuiltAsAsked
  <1>1. IndInv => BuiltAsAsked
    <2> SUFFICES ASSUME IndInv, pc = "push", NEW r \in call, NEW c \in content
                 PROVE  r.block = Append(unsafe_head, c)
      BY DEF BuiltAsAsked
    <2>1. PICK d \in Contents : content = {d} /\ call = {NewPayload(Append(unsafe_head, d))}
      BY DEF IndInv, CallOfPlace
    <2>2. QED
      BY <2>1 DEF NewPayload
  <1>2. QED
    BY Invariance, <1>1, PTL

\* The safe head is what the pipeline derived, for every number of retries, lost answers,
\* crashes and late requests, unless a forkchoice update is executed after its call.
THEOREM SafeUnlessOvertakenCorrect == Spec => []SafeUnlessOvertaken
  <1>1. IndInv => SafeUnlessOvertaken
    BY DEF IndInv, InStep, SafeUnlessOvertaken
  <1>2. QED
    BY Invariance, <1>1, PTL

\* What the engine was told is final stays final, unless a forkchoice update is executed
\* after its call: neither a restart nor a reorg takes the finalized block back.
THEOREM FinalUnlessOvertakenCorrect == Spec => FinalUnlessOvertaken
  <1>1. IndInv /\ IndInv' /\ [Next]_vars =>
          [IsPrefix(engine.finalized, engine'.finalized) \/ overtaken']_vars
    <2> SUFFICES ASSUME IndInv, IndInv', Next
                 PROVE  IsPrefix(engine.finalized, engine'.finalized) \/ overtaken'
      OBVIOUS
    <2>1. engine.finalized \in Block /\ finalized_head \in Block
      BY DEF IndInv, Types, Engine
    <2>2. ASSUME NEW r \in Request, r.method = "fcu" => r \in call, ~overtaken,
                 engine' = Run(engine, r).engine
          PROVE  IsPrefix(engine.finalized, engine'.finalized)
      <3>1. engine'.finalized = engine.finalized
            \/ (engine'.finalized = finalized_head /\ r.method = "fcu")
        <4>1. CASE r.method = "fcu"
          BY <2>2, <4>1, EngineMoves DEF IndInv
        <4>2. CASE r.method # "fcu"
          BY <2>2, <4>2, RequestKinds, RunGet, RunNew DEF IndInv, Types
        <4>3. QED
          BY <4>1, <4>2
      <3>2. r.method = "fcu" => pc # "down"
        BY <2>2, CallTyped DEF IndInv
      <3>3. r.method = "fcu" => IsPrefix(engine.finalized, finalized_head)
        BY <2>2, <3>2 DEF IndInv, InStep
      <3>4. QED
        BY <2>1, <3>1, <3>3, PrefixReflexive DEF Block
    <2>3. CASE Execute
      <3>1. PICK r \in call : engine' = Run(engine, r).engine
        BY <2>3 DEF Execute
      <3>2. r \in Request
        BY CallTyped DEF IndInv
      <3>3. overtaken' = overtaken
        BY <2>3 DEF Execute
      <3>4. QED
        BY <2>2, <3>1, <3>2, <3>3
    <2>4. CASE ExecuteLate
      <3>1. PICK l \in late : /\ engine' = Run(engine, l.request).engine
                              /\ overtaken' = (overtaken \/ Overtakes(l.request))
        BY <2>4 DEF ExecuteLate
      <3>2. l.request \in Request
        BY DEF IndInv, Types
      <3>3. CASE overtaken'
        BY <3>3
      <3>4. CASE ~overtaken'
        <4>1. ~overtaken /\ (l.request.method = "fcu" => l.request \in call)
          BY <3>1, <3>4 DEF Overtakes
        <4>2. QED
          BY <2>2, <3>1, <3>2, <4>1
      <3>5. QED
        BY <3>3, <3>4
    <2>5. CASE ~Execute /\ ~ExecuteLate
      <3>1. engine' = engine
        BY <2>5 DEF Next, TimeOut, Crash, Start, Continue, EngineReady, Build, Push,
                    UpdateSafeHead, UpdateForkchoice, UnsafePushed, UnsafeUpdated,
                    HandleAttributes, HandleUnsafePayload, UpdateFinalized, Reorg
      <3>2. QED
        BY <2>1, <3>1, PrefixReflexive DEF Block
    <2>6. QED
      BY <2>3, <2>4, <2>5
  <1>2. QED
    BY Invariance, <1>1, PTL DEF Spec, FinalUnlessOvertaken
=============================================================================
