----------------------------- MODULE EngineApi ------------------------------
(***************************************************************************)
(* The client of the engine API (engine/api.rs) between the engine driver  *)
(* (driver/engine_driver.rs) and the execution engine.  A call is posted   *)
(* up to Retries + 1 times: an attempt that is not answered in time is     *)
(* dropped and made again at once.  The engine does not know: an attempt   *)
(* given up by the client may still be with the engine, and is executed    *)
(* when the engine gets to it, perhaps after later calls, perhaps after    *)
(* the node was restarted.                                                 *)
(*                                                                         *)
(* Driver takes every call to the engine as one step; here it is many, so  *)
(* this module says how far that is justified.  Blocks are the chains that *)
(* lead to them, as in Driver.                                             *)
(***************************************************************************)
EXTENDS Integers, Sequences, FiniteSets, SequencesExt

CONSTANTS
    Contents,     \* what payload attributes may say about a block
    Gossiped,     \* what a gossiped block may contain
    Retries,      \* with_max_retries: 5 in the code
    MaxL2,        \* bound: number of the last L2 block
    MaxReorgs,    \* bound: L1 reorgs
    MaxFaults,    \* bound: lost answers, lingering requests and crashes
    CanLinger     \* whether the engine executes requests given up by the client

ASSUME EngineApiAssumption ==
    /\ Gossiped \subseteq Contents
    /\ Retries \in Nat /\ MaxL2 \in Nat /\ MaxReorgs \in Nat /\ MaxFaults \in Nat
    /\ CanLinger \in BOOLEAN

VARIABLES
    engine,          \* the execution engine
    late,            \* requests given up by the client that the engine still has
    \* EngineApi::post
    call,            \* the request being posted, if any
    attempt,         \* attempts made of it
    answer,          \* what came back, if anything
    \* EngineDriver
    pc,
    unsafe_head, safe_head, finalized_head,
    content,         \* the attributes being handled, if any
    \* what the pipeline has derived so far, and whether a forkchoice update was
    \* executed after its call had ended: for the properties only
    derived, overtaken,
    \* bounds
    reorgs, faults

post == <<call, attempt, answer>>
heads == <<unsafe_head, safe_head, finalized_head>>
bounds == <<reorgs, faults>>
vars == <<engine, late, post, pc, heads, content, derived, overtaken, bounds>>

Genesis == <<>>

-----------------------------------------------------------------------------
(* Requests and the engine *)

\* forkchoice_updated with create_forkchoice_state; attributes are a set of at most one.
Forkchoice(head, safe, final, attributes) ==
    [method |-> "fcu", head |-> head, safe |-> safe, finalized |-> final,
     attributes |-> attributes]
GetPayload(id) == [method |-> "get", id |-> id]
NewPayload(block) == [method |-> "new", block |-> block]

Error == [type |-> "error"]
Status(s, id) == [type |-> "status", status |-> s, id |-> id]

\* The engine executes a request.  A forkchoice update moves it to a head it knows and
\* starts a block there, unless the attributes are not later than that head; the
\* identifier of that block is a hash of what it is made of, and the block is kept until
\* it is asked for.
Run(e, r) ==
    CASE r.method = "fcu" /\ r.head \notin e.known ->
           [engine |-> e, answer |-> Status("SYNCING", {})]
      [] r.method = "fcu" /\ r.head \in e.known ->
           LET sound == IsPrefix(r.safe, r.head) /\ IsPrefix(r.finalized, r.head)
               later == \A a \in r.attributes : a.slot > Len(r.head)
               ids   == IF later THEN {<<r.head, a.content>> : a \in r.attributes} ELSE {}
           IN  IF sound
               THEN [engine |-> [e EXCEPT !.head = r.head, !.finalized = r.finalized],
                     answer |-> IF later THEN Status("VALID", ids) ELSE Error]
               ELSE [engine |-> [e EXCEPT !.head = r.head], answer |-> Error]
      [] r.method = "get" ->
           [engine |-> e, answer |-> [type |-> "payload", block |-> Append(r.id[1], r.id[2])]]
      [] r.method = "new" ->
           IF Front(r.block) \in e.known
           THEN [engine |-> [e EXCEPT !.known = @ \cup {r.block}],
                 answer |-> Status("VALID", {})]
           ELSE [engine |-> e, answer |-> Status("SYNCING", {})]

\* The engine executes the attempt the client is waiting for.
Execute ==
    /\ answer = {}
    /\ \E r \in call :
         LET x == Run(engine, r) IN engine' = x.engine /\ answer' = {x.answer}
    /\ UNCHANGED <<late, call, attempt, pc, heads, content, derived, overtaken, bounds>>

\* A forkchoice update whose call is over.
Overtakes(r) == r.method = "fcu" /\ r \notin call

\* The mutation: all requests have the same id (STATIC_ID), and an answer is matched
\* with the call in progress by its id.
ExecuteLate_Matched ==
    /\ \E l \in late :
         LET x == Run(engine, l.request)
         IN  /\ engine' = x.engine
             /\ answer' = IF call # {} THEN {x.answer} ELSE answer
             /\ late' = late \ {l}
             /\ overtaken' = (overtaken \/ Overtakes(l.request))
    /\ UNCHANGED <<call, attempt, pc, heads, content, derived, bounds>>

\* The engine executes an attempt the client has given up; its answer goes nowhere,
\* since the connection is gone.
ExecuteLate ==
    /\ \E l \in late :
         /\ engine' = Run(engine, l.request).engine
         /\ late' = late \ {l}
         /\ overtaken' = (overtaken \/ Overtakes(l.request))
    /\ UNCHANGED <<post, pc, heads, content, derived, bounds>>

-----------------------------------------------------------------------------
(* EngineApi::post *)

Post(r) == call' = {r} /\ attempt' = 1 /\ answer' = {}
NoCall == call' = {} /\ attempt' = 0 /\ answer' = {}

\* The mutation: attempts are made without end.
NextAttempt_Forever == attempt' = attempt /\ answer' = {}

\* Another attempt, or the error of the last one.
NextAttempt ==
    IF attempt <= Retries
    THEN attempt' = attempt + 1 /\ answer' = {}
    ELSE answer' = {Error} /\ UNCHANGED attempt

\* What may become of the request in progress when the client lets go of it.
Fault == faults < MaxFaults /\ faults' = faults + 1
Lingers ==
    /\ CanLinger /\ answer = {} /\ Fault
    /\ late' = late \cup {[request |-> r, nr |-> faults] : r \in call}

\* Two seconds have passed, or the connection failed: the request never arrived, or
\* stays with the engine, or was executed and the answer is lost.
TimeOut ==
    /\ call # {}
    /\ \/ answer = {} /\ UNCHANGED <<late, faults>>
       \/ Lingers
       \/ answer # {} /\ answer # {Error} /\ Fault /\ UNCHANGED late
    /\ NextAttempt
    /\ UNCHANGED <<engine, call, pc, heads, content, derived, overtaken, reorgs>>

-----------------------------------------------------------------------------
(* EngineDriver: what it calls, and what it does with the answers *)

\* The driver gives up (advance returns an error, the process exits).
Exit ==
    /\ pc' = "down"
    /\ NoCall
    /\ unsafe_head' = Genesis /\ safe_head' = Genesis /\ finalized_head' = Genesis
    /\ derived' = Genesis /\ content' = {}

Crash ==
    /\ pc # "down"
    /\ \/ Fault /\ UNCHANGED late
       \/ Lingers
    /\ Exit
    /\ UNCHANGED <<engine, overtaken, reorgs>>

\* The mutation: the node starts at genesis.
Start_Genesis ==
    /\ pc = "down"
    /\ pc' = "ready"
    /\ unsafe_head' = Genesis /\ safe_head' = Genesis /\ finalized_head' = Genesis
    /\ derived' = Genesis
    /\ Post(Forkchoice(Genesis, Genesis, Genesis, {}))
    /\ UNCHANGED <<engine, late, content, overtaken, bounds>>

\* from_config and the first engine_ready.
Start ==
    /\ pc = "down"
    /\ pc' = "ready"
    /\ LET f == engine.finalized
       IN  /\ unsafe_head' = f /\ safe_head' = f /\ finalized_head' = f /\ derived' = f
           /\ Post(Forkchoice(f, f, f, {}))
    /\ UNCHANGED <<engine, late, content, overtaken, bounds>>

\* await_engine_ready: again until there is an answer that is not an error.
EngineReady ==
    /\ pc = "ready" /\ answer # {}
    /\ IF answer = {Error}
       THEN Post(Forkchoice(unsafe_head, safe_head, finalized_head, {})) /\ UNCHANGED pc
       ELSE NoCall /\ pc' = "idle"
    /\ UNCHANGED <<engine, late, heads, content, derived, overtaken, bounds>>

\* The block of the engine's chain with the given number.
EngineBlocks(n) == IF n <= Len(engine.head) THEN {SubSeq(engine.head, 1, n)} ELSE {}

\* should_skip: the block has what the attributes say.
ShouldSkip(block, c) == Last(block) = c

\* The attributes of the block after the safe head.
Attributes(c) == [slot |-> Len(safe_head) + 1, content |-> c]

\* handle_attributes up to the first call: block_at finds a block or does not (a failed
\* query counts as none); it is adopted, or overruled, or one is built.
HandleAttributes(c) ==
    /\ pc = "idle"
    /\ Len(safe_head) < MaxL2
    /\ content' = {c}
    /\ derived' = Append(derived, c)
    /\ \/ \E block \in EngineBlocks(Len(safe_head) + 1) :
            /\ UNCHANGED faults
            /\ \/ /\ ShouldSkip(block, c)
                  /\ safe_head' = block
                  /\ unsafe_head' = IF Len(block) > Len(unsafe_head) THEN block ELSE unsafe_head
                  /\ Post(Forkchoice(unsafe_head', safe_head', finalized_head, {}))
                  /\ pc' = "fcu"
               \/ /\ ~ShouldSkip(block, c)
                  /\ unsafe_head' = safe_head
                  /\ Post(Forkchoice(safe_head, safe_head, finalized_head, {Attributes(c)}))
                  /\ pc' = "build"
                  /\ UNCHANGED safe_head
       \/ /\ \/ EngineBlocks(Len(safe_head) + 1) = {} /\ UNCHANGED faults
             \/ EngineBlocks(Len(safe_head) + 1) # {} /\ Fault
          /\ Post(Forkchoice(unsafe_head, safe_head, finalized_head, {Attributes(c)}))
          /\ pc' = "build"
          /\ UNCHANGED <<unsafe_head, safe_head>>
    /\ UNCHANGED <<engine, late, finalized_head, overtaken, reorgs>>

\* build_payload, with the answer to its forkchoice update: the payload is asked for.
Build ==
    /\ pc = "build"
    /\ \E a \in answer :
         \/ /\ a.type = "status" /\ a.status = "VALID" /\ a.id # {}
            /\ \E id \in a.id : Post(GetPayload(id))
            /\ pc' = "get"
            /\ UNCHANGED <<heads, content, derived>>
         \/ /\ ~(a.type = "status" /\ a.status = "VALID" /\ a.id # {})
            /\ Exit
    /\ UNCHANGED <<engine, late, overtaken, bounds>>

\* build_payload returns the payload, push_payload sends it back.
Push ==
    /\ pc = "get"
    /\ \E a \in answer :
         \/ /\ a.type = "payload"
            /\ Post(NewPayload(a.block))
            /\ pc' = "push"
            /\ UNCHANGED <<heads, content, derived>>
         \/ a = Error /\ Exit
    /\ UNCHANGED <<engine, late, overtaken, bounds>>

\* The payload is accepted: update_safe_head, and the call of update_forkchoice.
UpdateSafeHead ==
    /\ pc = "push"
    /\ \E a \in answer :
         \/ /\ a.type = "status" /\ a.status = "VALID"
            /\ \E r \in call : safe_head' = r.block /\ unsafe_head' = r.block
            /\ Post(Forkchoice(unsafe_head', safe_head', finalized_head, {}))
            /\ pc' = "fcu"
            /\ UNCHANGED <<finalized_head, content, derived>>
         \/ ~(a.type = "status" /\ a.status = "VALID") /\ Exit
    /\ UNCHANGED <<engine, late, overtaken, bounds>>

\* The mutation: the status in the answer is not looked at.
UpdateForkchoice_Any ==
    /\ pc = "fcu" /\ answer # {}
    /\ NoCall /\ pc' = "idle" /\ content' = {}
    /\ UNCHANGED <<engine, late, heads, derived, overtaken, bounds>>

\* update_forkchoice, with the answer.
UpdateForkchoice ==
    /\ pc = "fcu"
    /\ \E a \in answer :
         \/ /\ a.type = "status" /\ a.status = "VALID"
            /\ NoCall /\ pc' = "idle" /\ content' = {}
            /\ UNCHANGED <<heads, derived>>
         \/ ~(a.type = "status" /\ a.status = "VALID") /\ Exit
    /\ UNCHANGED <<engine, late, overtaken, bounds>>

\* handle_unsafe_payload: a gossiped block on the unsafe head is executed, ...
HandleUnsafePayload(c) ==
    /\ pc = "idle"
    /\ Len(unsafe_head) < MaxL2
    /\ Post(NewPayload(Append(unsafe_head, c)))
    /\ pc' = "unsafe_push"
    /\ UNCHANGED <<engine, late, heads, content, derived, overtaken, bounds>>

\* ... becomes the unsafe head, and the engine is told; the caller ignores errors.
UnsafePushed ==
    /\ pc = "unsafe_push"
    /\ \E a \in answer :
         \/ /\ a.type = "status" /\ a.status = "VALID"
            /\ \E r \in call : unsafe_head' = r.block
            /\ Post(Forkchoice(unsafe_head', safe_head, finalized_head, {}))
            /\ pc' = "unsafe_fcu"
         \/ /\ ~(a.type = "status" /\ a.status = "VALID")
            /\ NoCall /\ pc' = "idle" /\ UNCHANGED unsafe_head
    /\ UNCHANGED <<engine, late, safe_head, finalized_head, content, derived, overtaken, bounds>>

UnsafeUpdated ==
    /\ pc = "unsafe_fcu" /\ answer # {}
    /\ NoCall /\ pc' = "idle"
    /\ UNCHANGED <<engine, late, heads, content, derived, overtaken, bounds>>

\* update_finalized: the driver moves the finalized head up to the safe head.
UpdateFinalized ==
    /\ pc = "idle"
    /\ finalized_head' \in {SubSeq(safe_head, 1, n) : n \in (Len(finalized_head) + 1)..Len(safe_head)}
    /\ UNCHANGED <<engine, late, post, pc, unsafe_head, safe_head, content, derived, overtaken,
                   bounds>>

\* reorg: L1 has changed, the pipeline derives again from the finalized head.
Reorg ==
    /\ pc = "idle"
    /\ reorgs < MaxReorgs
    /\ reorgs' = reorgs + 1
    /\ unsafe_head' = finalized_head /\ safe_head' = finalized_head
    /\ derived' = finalized_head
    /\ UNCHANGED <<engine, late, post, pc, finalized_head, content, overtaken, faults>>

-----------------------------------------------------------------------------

Init ==
    /\ engine = [known |-> {Genesis}, head |-> Genesis, finalized |-> Genesis]
    /\ late = {} /\ overtaken = FALSE
    /\ call = {} /\ attempt = 0 /\ answer = {}
    /\ pc = "down"
    /\ unsafe_head = Genesis /\ safe_head = Genesis /\ finalized_head = Genesis
    /\ content = {} /\ derived = Genesis
    /\ reorgs = 0 /\ faults = 0

\* The next step of the driver once it has an answer.
Continue ==
    \/ EngineReady \/ Build \/ Push \/ UpdateSafeHead \/ UpdateForkchoice
    \/ UnsafePushed \/ UnsafeUpdated

Next ==
    \/ Execute \/ ExecuteLate \/ TimeOut \/ Crash
    \/ Start \/ Continue
    \/ \E c \in Contents : HandleAttributes(c)
    \/ \E c \in Gossiped : HandleUnsafePayload(c)
    \/ UpdateFinalized \/ Reorg

\* The timer of an attempt runs out; the engine need not execute anything.
Spec == Init /\ [][Next]_vars /\ WF_vars(TimeOut) /\ WF_vars(Start) /\ WF_vars(Continue)

-----------------------------------------------------------------------------
(* Properties *)

\* The type invariant.
TypeOK ==
    /\ {engine.head, unsafe_head, safe_head, finalized_head} \subseteq engine.known
    /\ Cardinality(call) <= 1 /\ Cardinality(answer) <= Cardinality(call)
    /\ attempt \in 0..(Retries + 1) /\ (attempt = 0 <=> call = {})
    /\ call = {} <=> pc \in {"down", "idle"}
    /\ content = {} <=> pc \notin {"build", "get", "push", "fcu"}

\* The payload sent back to the engine is the one asked for: the derived content on the
\* unsafe head, whatever was repeated, lost or answered late in between.
BuiltAsAsked ==
    pc = "push" => \A r \in call, c \in content : r.block = Append(unsafe_head, c)

\* The safe head is the chain that was derived, unless the engine executed a forkchoice
\* update after its call had ended.
SafeUnlessOvertaken ==
    pc \in {"idle", "fcu", "unsafe_push", "unsafe_fcu"} => overtaken \/ safe_head = derived

\* The engine keeps what it was told is final, unless it executed a forkchoice update
\* after its call had ended.
FinalUnlessOvertaken ==
    [][IsPrefix(engine.finalized, engine'.finalized) \/ overtaken']_vars

\* A call ends, with an answer or an error, even if the engine never answers.
EveryCallEnds == (call # {}) ~> (answer # {} \/ call = {})

\* The safe head is the chain that was derived ("Most recent block that can be derived
\* from L1 data").
SafeHeadIsDerived ==
    pc \in {"idle", "fcu", "unsafe_push", "unsafe_fcu"} => safe_head = derived
=============================================================================
