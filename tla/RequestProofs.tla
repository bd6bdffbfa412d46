--------------------------- MODULE RequestProofs ----------------------------
(* The two queues in front of what JavaScript asks for asynchronously: the    *)
(* thread of Bun.build(), for any number of callers and builds, and a         *)
(* connection of Bun.SQL to MySQL, for any queries, statements and answers.   *)
EXTENDS BundleThread, MySQLQueue, FiniteSetTheorems, WellFoundedInduction, TLAPS

queueProofs == INSTANCE UnboundedQueueProofs WITH
  Producers <- Enqueuers, Nodes <- Completions, MaxChain <- 1

-----------------------------------------------------------------------------
(* The thread's own state and the queue's.  An enqueue() between its swap   *)
(* and its link is a push under way; only the thread pops.                  *)

CallsOK ==
  /\ \A p \in Enqueuers : epc[p] = "push" <=> chainFirst[p] # None
  /\ tpc = "popping" <=> cpc # "idle"

\* From the moment pop() said that there is nothing left.
WakeOK ==
  tpc \in {"collect", "wait"} /\ pending # <<>> =>
    signal \/ \E p \in Enqueuers : epc[p] # "out"

BundleInv == queueProofs!QueueInv /\ BundleTypeOK /\ CallsOK /\ WakeOK

LEMMA QueueTypes == queueProofs!QueueInv => queue!QueueTypeOK
BY DEF queueProofs!QueueInv, queueProofs!QueueTypeOK, queue!QueueTypeOK, queueProofs!Ptr,
       queue!Ptr

\* enqueue() pushes a chain of one, and nothing else touches the queue but the
\* thread's pop().
LEMMA QueueUse ==
  ASSUME [BundleNext]_bvars
  PROVE  [queueProofs!QueueNext]_(queueProofs!qvars)
<1>1. CASE UNCHANGED bvars
  BY <1>1 DEF bvars, queueVars, queueProofs!qvars
<1>2. ASSUME NEW p \in Enqueuers, Enqueue(p) PROVE queueProofs!QueueNext
  <2>1. PICK n \in Completions : queue!PushSwap(p, <<n>>)
    BY <1>2 DEF Enqueue
  <2>2. <<n>> \in queueProofs!fifo!Chains
    BY DEF queueProofs!fifo!Chains
  <2>3. queueProofs!PushSwap(p, <<n>>)
    BY <2>1 DEF queue!PushSwap, queueProofs!PushSwap, queue!Queued, queueProofs!Queued,
                queue!Linked, queueProofs!Linked
  <2>4. QED
    BY <2>2, <2>3 DEF queueProofs!QueueNext
<1>3. ASSUME NEW p \in Enqueuers, EnqueueLink(p) PROVE queueProofs!QueueNext
  BY <1>3 DEF EnqueueLink, queue!PushLink, queueProofs!PushLink, queueProofs!QueueNext
<1>4. CASE PopBegin \/ PopNothing \/ PopRetries
  BY <1>4 DEF PopBegin, PopNothing, PopRetries, queue!PopFirst, queue!PopEmpty, queue!PopRetry,
              queueProofs!PopFirst, queueProofs!PopEmpty, queueProofs!PopRetry,
              queue!producerVars, queueProofs!producerVars, queue!qvars, queueProofs!qvars,
              queueProofs!QueueNext
<1>5. CASE PopGoesOn
  BY <1>5 DEF PopGoesOn, queue!PopNext, queue!PopCas, queue!PopBack, queue!PopSpin,
              queue!PopStore, queueProofs!PopNext, queueProofs!PopCas, queueProofs!PopBack,
              queueProofs!PopSpin, queueProofs!PopStore, queue!ReturnFirst,
              queueProofs!ReturnFirst, queue!Without, queueProofs!Without, queue!Queued,
              queueProofs!Queued, queue!producerVars, queueProofs!producerVars,
              queueProofs!QueueNext, queueProofs!ConsumerStep
<1>6. CASE Start \/ Generate \/ CompleteFailed \/ Collect \/ Wait \/ WaitInterrupted
           \/ \E p \in Enqueuers : EnqueueWake(p)
  BY <1>6 DEF Start, Generate, CompleteFailed, Collect, Wait, WaitInterrupted, EnqueueWake,
              queueVars, queueProofs!qvars
<1>7. QED
  BY <1>1, <1>2, <1>3, <1>4, <1>5, <1>6 DEF BundleNext, ThreadStep

LEMMA QueueAfter ==
  ASSUME BundleInv, [BundleNext]_bvars
  PROVE  queueProofs!QueueInv' /\ queue!QueueTypeOK'
<1>1. None \notin Completions /\ 1 \in Nat \ {0}
  BY BundleAssumption
<1>2. queueProofs!QueueInv'
  BY <1>1, QueueUse, queueProofs!QueueStep DEF BundleInv
<1>3. QED
  BY <1>2 DEF queueProofs!QueueInv, queueProofs!QueueTypeOK, queue!QueueTypeOK,
              queueProofs!Ptr, queue!Ptr

-----------------------------------------------------------------------------
(* enqueue() *)

LEMMA EnqueueInv ==
  ASSUME BundleInv, NEW p \in Enqueuers, Enqueue(p) \/ EnqueueLink(p) \/ EnqueueWake(p)
  PROVE  BundleInv'
<1>1. queueProofs!QueueInv' /\ queue!QueueTypeOK'
  BY QueueAfter DEF BundleNext
<1>2. BundleTypeOK'
  BY <1>1 DEF BundleInv, BundleTypeOK, Enqueue, EnqueueLink, EnqueueWake
<1>3. CASE Enqueue(p)
  <2>1. PICK n \in Completions : queue!PushSwap(p, <<n>>)
    BY <1>3 DEF Enqueue
  <2>2. chainFirst' = [chainFirst EXCEPT ![p] = n] /\ UNCHANGED cpc /\ n # None
    BY <2>1, BundleAssumption DEF queue!PushSwap
  <2>3. CallsOK'
    BY <1>3, <2>2 DEF Enqueue, BundleInv, CallsOK, BundleTypeOK, queue!QueueTypeOK
  <2>4. WakeOK'
    BY <1>3 DEF Enqueue, BundleInv, BundleTypeOK, WakeOK
  <2>5. QED
    BY <1>1, <1>2, <2>3, <2>4 DEF BundleInv
<1>4. CASE EnqueueLink(p)
  <2>1. CallsOK'
    BY <1>4 DEF EnqueueLink, queue!PushLink, BundleInv, CallsOK, BundleTypeOK,
                queue!QueueTypeOK
  <2>2. WakeOK'
    BY <1>4 DEF EnqueueLink, BundleInv, BundleTypeOK, WakeOK
  <2>3. QED
    BY <1>1, <1>2, <2>1, <2>2 DEF BundleInv
<1>5. CASE EnqueueWake(p)
  <2>1. CallsOK'
    BY <1>5 DEF EnqueueWake, queueVars, BundleInv, CallsOK, BundleTypeOK
  <2>2. WakeOK'
    BY <1>5 DEF EnqueueWake, WakeOK
  <2>3. QED
    BY <1>1, <1>2, <2>1, <2>2 DEF BundleInv
<1>6. QED
  BY <1>3, <1>4, <1>5

-----------------------------------------------------------------------------
(* thread_main() *)

\* pop() found nothing: a node that is pending all the same belongs to an
\* enqueue() which has yet to wake the thread.
LEMMA NothingLeft ==
  ASSUME BundleInv, cpc = "idle", front = None, pending # <<>>
  PROVE  \E p \in Enqueuers : epc[p] # "out"
<1>1. None \notin Completions /\ 1 \in Nat \ {0}
  BY BundleAssumption
<1>2. queueProofs!PopSeesReturnedPush
  BY <1>1, queueProofs!OldestPushUnderWay DEF BundleInv
<1>3. PICK p \in Enqueuers : chainFirst[p] # None
  BY <1>2 DEF queueProofs!PopSeesReturnedPush, queueProofs!Pushing
<1>4. QED
  BY <1>3 DEF BundleInv, CallsOK

\* While pop() has read a node, it is the front: its CAS cannot find nothing.
LEMMA FrontInHand ==
  ASSUME BundleInv, cpc = "popCas"
  PROVE  front # None
<1>1. front = first
  BY DEF BundleInv, queueProofs!QueueInv, queueProofs!Shape, queueProofs!EndsOK
<1>2. first \in Completions
  BY DEF BundleInv, BundleTypeOK, queue!QueueTypeOK
<1>3. QED
  BY <1>1, <1>2, BundleAssumption

LEMMA PopsInv ==
  ASSUME BundleInv, PopBegin \/ PopGoesOn \/ PopRetries \/ PopNothing
  PROVE  BundleInv'
<1>1. queueProofs!QueueInv' /\ queue!QueueTypeOK'
  BY QueueAfter DEF BundleNext, ThreadStep
<1>2. CASE PopBegin
  <2>1. tpc' = "popping" /\ cpc' = "popNext" /\ UNCHANGED <<epc, chainFirst>>
    BY <1>2 DEF PopBegin, queue!PopFirst, queue!producerVars
  <2>2. CallsOK' /\ WakeOK'
    BY <2>1 DEF BundleInv, CallsOK, WakeOK
  <2>3. BundleTypeOK'
    BY <1>1, <1>2 DEF PopBegin, BundleInv, BundleTypeOK
  <2>4. QED
    BY <1>1, <2>2, <2>3 DEF BundleInv
<1>3. CASE PopGoesOn
  <2>1. /\ UNCHANGED <<epc, chainFirst, ready, signal, done>>
        /\ tpc = "popping"
        /\ IF cpc' = "idle" THEN tpc' = "generate" /\ completion' = first
                            ELSE UNCHANGED <<tpc, completion>>
    BY <1>3 DEF PopGoesOn, queue!PopNext, queue!PopCas, queue!PopBack, queue!PopSpin,
                queue!PopStore, queue!producerVars
  <2>2. first \in Completions
    BY <2>1 DEF BundleInv, BundleTypeOK, CallsOK, queue!QueueTypeOK
  <2>3. CallsOK' /\ WakeOK'
    BY <2>1 DEF BundleInv, CallsOK, WakeOK
  <2>4. BundleTypeOK'
    BY <1>1, <2>1, <2>2 DEF BundleInv, BundleTypeOK
  <2>5. QED
    BY <1>1, <2>3, <2>4 DEF BundleInv
<1>4. CASE PopRetries
  <2>1. cpc = "popCas" /\ front # None
    BY <1>4, FrontInHand DEF PopRetries, queue!PopRetry
  <2>2. tpc' = "popping" /\ cpc' = "popNext" /\ UNCHANGED <<epc, chainFirst>>
    BY <1>4, <2>1 DEF PopRetries, queue!PopRetry, queue!producerVars
  <2>3. CallsOK' /\ WakeOK'
    BY <2>2 DEF BundleInv, CallsOK, WakeOK
  <2>4. BundleTypeOK'
    BY <1>1, <1>4, <2>2 DEF PopRetries, BundleInv, BundleTypeOK
  <2>5. QED
    BY <1>1, <2>3, <2>4 DEF BundleInv
<1>5. CASE PopNothing
  <2>1. /\ cpc = "idle" /\ front = None /\ tpc' = "collect"
        /\ UNCHANGED <<epc, chainFirst, cpc, pending, signal>>
    BY <1>5 DEF PopNothing, queue!PopEmpty, queue!qvars
  <2>2. CallsOK'
    BY <2>1 DEF BundleInv, CallsOK
  <2>3. WakeOK'
    BY <2>1, NothingLeft DEF WakeOK
  <2>4. BundleTypeOK'
    BY <1>1, <1>5 DEF PopNothing, BundleInv, BundleTypeOK
  <2>5. QED
    BY <1>1, <2>2, <2>3, <2>4 DEF BundleInv
<1>6. QED
  BY <1>2, <1>3, <1>4, <1>5

LEMMA ThreadInv ==
  ASSUME BundleInv, Start \/ Generate \/ CompleteFailed \/ Collect \/ Wait \/ WaitInterrupted
  PROVE  BundleInv'
<1>1. queueProofs!QueueInv' /\ queue!QueueTypeOK'
  BY QueueAfter DEF BundleNext, ThreadStep
<1>2. /\ UNCHANGED <<epc, chainFirst, cpc, pending>>
      /\ tpc # "popping" /\ tpc' \in {"pop", "wait", "failed"}
  BY DEF Start, Generate, CompleteFailed, Collect, Wait, WaitInterrupted, queueVars
<1>3. CallsOK'
  BY <1>2 DEF BundleInv, CallsOK
<1>4. WakeOK'
  BY <1>2 DEF BundleInv, WakeOK, Start, Generate, CompleteFailed, Collect, Wait, WaitInterrupted
<1>5. BundleTypeOK'
  BY <1>1 DEF BundleInv, BundleTypeOK, Start, Generate, CompleteFailed, Collect, Wait, WaitInterrupted
<1>6. QED
  BY <1>1, <1>3, <1>4, <1>5 DEF BundleInv

-----------------------------------------------------------------------------
(* What is proved *)

THEOREM BundleInvariant == BundleSpec => []BundleInv
<1>1. BundleInit => BundleInv
  <2> SUFFICES ASSUME BundleInit PROVE BundleInv
    OBVIOUS
  <2>1. queueProofs!QueueInit
    BY DEF BundleInit, queue!QueueInit, queueProofs!QueueInit
  <2>2. None \notin Completions /\ 1 \in Nat \ {0}
    BY BundleAssumption
  <2>3. queueProofs!QueueInv
    BY <2>1, <2>2, queueProofs!InitInv
  <2>4. BundleTypeOK
    BY <2>3, QueueTypes DEF BundleInit, BundleTypeOK
  <2>5. CallsOK /\ WakeOK
    BY DEF BundleInit, queue!QueueInit, CallsOK, WakeOK
  <2>6. QED
    BY <2>3, <2>4, <2>5 DEF BundleInv
<1>2. BundleInv /\ [BundleNext]_bvars => BundleInv'
  <2> SUFFICES ASSUME BundleInv, [BundleNext]_bvars PROVE BundleInv'
    OBVIOUS
  <2>1. CASE UNCHANGED bvars
    <3>1. queueProofs!QueueInv' /\ queue!QueueTypeOK'
      BY QueueAfter
    <3>2. QED
      BY <2>1, <3>1 DEF bvars, queueVars, BundleInv, BundleTypeOK, CallsOK, WakeOK
  <2>2. QED
    BY <2>1, EnqueueInv, PopsInv, ThreadInv DEF BundleNext, ThreadStep
<1>3. QED
  BY <1>1, <1>2, PTL DEF BundleSpec

\* thread_main() works on a completion only while it holds one, and no pointer of
\* the queue is null where enqueue() and pop() follow it.
THEOREM BundleTypeCorrect == BundleSpec => []BundleTypeOK
<1>1. BundleInv => BundleTypeOK
  BY DEF BundleInv
<1>2. QED
  BY <1>1, BundleInvariant, PTL

\* The waker is signalled, or is about to be, whenever thread_main() waits with
\* builds in the queue: the swap and the link of push() and the wake-up are three
\* steps of enqueue(), and the thread may look between any two of them.
THEOREM WakeupIsNotLost == BundleSpec => []NoLostWakeup
<1>1. BundleInv => NoLostWakeup
  BY DEF BundleInv, WakeOK, NoLostWakeup
<1>2. QED
  BY <1>1, BundleInvariant, PTL

-----------------------------------------------------------------------------
(* A MySQL connection: states that differ in a few fields *)

Fields == {"status", "socket", "backpressure", "registered", "on_data", "buffer", "queue",
           "pipelined", "nonpipelinable", "waiting", "ready", "query", "attached", "statement",
           "sent", "inbound", "parts", "badRow", "promise", "muted", "skipped", "derailed"}

\* Two states differ at most in these fields.
Only(s, t, fields) == \A x \in Fields \ fields : t[x] = s[x]

\* The counters of the queue are 32-bit words.
LEMMA Modulo == \A i \in Int : i % U32 \in 0 .. U32 - 1
BY MySQLAssumption

\* A word has room for one query.
LEMMA ModuloSmall == 1 % U32 = 1 /\ 0 % U32 = 0 /\ 0 \in 0 .. U32 - 1
BY MySQLAssumption

QueryStates == {"new", "pending", "running", "partial", "success", "fail"}
StatementStates == {"none", "pending", "parsing", "prepared", "failed"}

\* The fields of a connection.
LEMMA FieldTypes ==
  ASSUME NEW s \in Connections
  PROVE  /\ s.status \in {"connected", "failed"} /\ s.socket \in {"open", "closing", "closed"}
         /\ s.backpressure \in BOOLEAN /\ s.registered \in BOOLEAN
         /\ s.buffer \in Seq(Command) /\ s.queue \in Seq(Queries)
         /\ s.pipelined \in 0 .. U32 - 1 /\ s.nonpipelinable \in 0 .. U32 - 1
         /\ s.waiting \in BOOLEAN /\ s.ready \in BOOLEAN
         /\ s.query \in [Queries -> QueryStates] /\ s.attached \in SUBSET Queries
         /\ s.statement \in [Statements -> StatementStates]
         /\ s.sent \in Seq(Command) /\ s.inbound \in Seq(Packet)
         /\ s.parts \in Nat /\ s.badRow \in BOOLEAN
         /\ s.promise \in [Queries -> {"unsettled", "resolved", "rejected"}]
         /\ s.muted \in SUBSET Queries /\ s.skipped \in BOOLEAN /\ s.derailed \in BOOLEAN
BY DEF Connections, QueryStates, StatementStates

\* A query that is not sent as text has a statement.
LEMMA SignatureType == \A q \in Queries : q \notin Simple => Signature[q] \in Statements
BY MySQLAssumption

\* What write() changes.
LEMMA WriteFacts ==
  ASSUME NEW s \in Connections, NEW q \in Queries, NEW kind \in {"query", "execute", "prepare"}
  PROVE  LET t == write(s, q, kind)
         IN  /\ t \in Connections /\ Only(s, t, {"buffer"})
             /\ t.buffer = Append(s.buffer, [q |-> q, kind |-> kind])
<1> DEFINE b == Append(s.buffer, [q |-> q, kind |-> kind])
<1>1. b \in Seq(Command)
  <2>1. [q |-> q, kind |-> kind] \in Command
    BY DEF Command
  <2>2. QED
    BY <2>1, FieldTypes
<1>2. write(s, q, kind) = [s EXCEPT !.buffer = b]
  BY DEF write, Connections
<1> HIDE DEF b
<1>3. [s EXCEPT !.buffer = b] \in Connections /\ [s EXCEPT !.buffer = b].buffer = b
      /\ Only(s, [s EXCEPT !.buffer = b], {"buffer"})
  BY <1>1 DEF Connections, Only, Fields
<1>4. QED
  BY <1>2, <1>3 DEF b

\* What set_fail() changes.
LEMMA SetFailFacts ==
  ASSUME NEW s \in Connections, NEW q \in Queries
  PROVE  LET t == set_fail(s, q)
         IN  /\ t \in Connections /\ Only(s, t, {"query"})
             /\ t.query = [s.query EXCEPT ![q] = "fail"]
<1> DEFINE f == [s.query EXCEPT ![q] = "fail"]
<1>1. f \in [Queries -> QueryStates]
  BY FieldTypes DEF QueryStates
<1>2. set_fail(s, q) = [s EXCEPT !.query = f]
  BY DEF set_fail, Connections
<1> HIDE DEF f
<1>3. [s EXCEPT !.query = f] \in Connections /\ [s EXCEPT !.query = f].query = f
      /\ Only(s, [s EXCEPT !.query = f], {"query"})
  BY <1>1 DEF Connections, Only, Fields, QueryStates
<1>4. QED
  BY <1>2, <1>3 DEF f

\* attach() sets the pointer of a query and makes a statement that nobody had asked
\* for.
LEMMA AttachFacts ==
  ASSUME NEW s \in Connections, NEW q \in Queries, q \notin Simple
  PROVE  LET t == attach(s, q)
         IN  /\ t \in Connections /\ Only(s, t, {"attached", "statement"})
             /\ s.attached \subseteq t.attached /\ t.attached \subseteq s.attached \cup {q}
             /\ \A x \in Statements :
                  \/ t.statement[x] = s.statement[x]
                  \/ s.statement[x] = "none" /\ t.statement[x] = "pending"
             /\ s.statement[Signature[q]] # "failed" => q \in t.attached
             /\ q \notin s.attached => t.statement[Signature[q]] # "none"
<1> DEFINE x == Signature[q]
           a == s.attached \cup {q}
           f == [s.statement EXCEPT ![x] = IF @ = "none" THEN "pending" ELSE @]
           t == [s EXCEPT !.attached = a, !.statement = f]
<1>1. x \in Statements
  BY SignatureType
<1>2. a \in SUBSET Queries /\ f \in [Statements -> StatementStates]
  BY <1>1, FieldTypes DEF StatementStates
<1>3. attach(s, q) = IF q \in s.attached \/ s.statement[x] = "failed" THEN s ELSE t
  BY DEF attach, Connections
<1>4. /\ \A y \in Statements : \/ f[y] = s.statement[y]
                               \/ s.statement[y] = "none" /\ f[y] = "pending"
      /\ f[x] # "none"
  BY <1>1, FieldTypes
<1>5. q \in a /\ s.attached \subseteq a /\ a \subseteq s.attached \cup {q}
  OBVIOUS
<1> HIDE DEF f, a, x
<1>6. t \in Connections /\ t.attached = a /\ t.statement = f
      /\ Only(s, t, {"attached", "statement"})
  BY <1>2 DEF Connections, Only, Fields, StatementStates
<1>7. Only(s, s, {"attached", "statement"})
  BY DEF Only
<1> HIDE DEF t
<1>8. CASE q \in s.attached \/ s.statement[x] = "failed"
  <2>1. attach(s, q) = s
    BY <1>3, <1>8
  <2>2. q \notin s.attached => s.statement[x] # "none"
    BY <1>8
  <2>3. s.statement[x] # "failed" => q \in s.attached
    BY <1>8
  <2>4. QED
    BY <1>7, <2>1, <2>2, <2>3 DEF x
<1>9. CASE ~(q \in s.attached \/ s.statement[x] = "failed")
  <2>1. attach(s, q) = t
    BY <1>3, <1>9
  <2>2. QED
    BY <1>4, <1>5, <1>6, <2>1 DEF x
<1>10. QED
  BY <1>8, <1>9

\* attach() only adds a query to those that have a statement, and makes a statement.
Grows(s, t) ==
  /\ s.attached \subseteq t.attached
  /\ \A x \in Statements : \/ t.statement[x] = s.statement[x]
                           \/ s.statement[x] = "none" /\ t.statement[x] = "pending"

\* What run() may do.
RunStays(s, r) == Only(s, r, {"attached", "statement"}) /\ Grows(s, r)

RunFails(s, r, q) ==
  /\ s.query[q] = "pending" /\ q \notin Simple
  /\ Only(s, r, {"attached", "statement", "query"}) /\ Grows(s, r)
  /\ r.query = [s.query EXCEPT ![q] = "fail"]

RunQueries(s, r, q) ==
  /\ s.query[q] = "pending" /\ q \in Simple /\ can_execute_query(s)
  /\ Only(s, r, {"attached", "buffer", "query"}) /\ Grows(s, r)
  /\ r.buffer = Append(s.buffer, [q |-> q, kind |-> "query"])
  /\ r.query = [s.query EXCEPT ![q] = "running"]

RunExecutes(s, r, q) ==
  /\ s.query[q] = "pending" /\ q \notin Simple /\ can_pipeline(s)
  /\ Only(s, r, {"attached", "statement", "buffer", "query"}) /\ Grows(s, r)
  /\ q \in r.attached /\ r.statement[Signature[q]] = "prepared"
  /\ r.buffer = Append(s.buffer, [q |-> q, kind |-> "execute"])
  /\ r.query = [s.query EXCEPT ![q] = "running"]

RunPrepares(s, r, q) ==
  /\ s.query[q] = "pending" /\ q \notin Simple /\ can_prepare_query(s)
  /\ Only(s, r, {"attached", "statement", "buffer"})
  /\ s.attached \subseteq r.attached /\ q \in r.attached
  /\ r.statement[Signature[q]] = "parsing"
  /\ \A x \in Statements : \/ r.statement[x] = s.statement[x]
                           \/ x = Signature[q]
                           \/ s.statement[x] = "none" /\ r.statement[x] = "pending"
  /\ r.buffer = Append(s.buffer, [q |-> q, kind |-> "prepare"])

\* run_simple_query() writes the text, or leaves the query for later.
LEMMA RunSimpleFacts ==
  ASSUME NEW s \in Connections, NEW q \in Simple, s.query[q] = "pending"
  PROVE  LET r == run_simple_query(s, q)
         IN  r \in Connections /\ ((r = s /\ ~can_execute_query(s)) \/ RunQueries(s, r, q))
<1> DEFINE r == run_simple_query(s, q)
           w == write(s, q, "query")
           f == [s.query EXCEPT ![q] = "running"]
           a == s.attached \cup {q}
           t == [w EXCEPT !.query = f, !.attached = a]
<1>0. q \in Queries
  BY MySQLAssumption
<1>1. CASE ~can_execute_query(s)
  BY <1>1 DEF run_simple_query
<1>2. CASE can_execute_query(s)
  <2>1. /\ w \in Connections /\ Only(s, w, {"buffer"})
        /\ w.buffer = Append(s.buffer, [q |-> q, kind |-> "query"])
    BY <1>0, WriteFacts
  <2>2. w.query = s.query /\ w.attached = s.attached /\ w.statement = s.statement
    BY <2>1 DEF Only, Fields
  <2> HIDE DEF w
  <2>3. f \in [Queries -> QueryStates] /\ a \in SUBSET Queries /\ s.attached \subseteq a
    BY <1>0, FieldTypes DEF QueryStates
  <2>4. r = t
    BY <1>2, <2>1, <2>2 DEF run_simple_query, Connections, w
  <2> HIDE DEF f, a, r
  <2>5. t \in Connections /\ t.query = f /\ t.attached = a
        /\ Only(w, t, {"query", "attached"})
    BY <2>1, <2>3 DEF Connections, Only, Fields, QueryStates
  <2> HIDE DEF t
  <2>6. t.buffer = w.buffer /\ t.statement = s.statement
    BY <2>2, <2>5 DEF Only, Fields
  <2>7. Only(s, t, {"attached", "buffer", "query"})
    BY <2>1, <2>5 DEF Only, Fields
  <2>8. RunQueries(s, t, q)
    BY <1>2, <2>1, <2>3, <2>5, <2>6, <2>7 DEF RunQueries, Grows, f
  <2>9. QED
    BY <2>4, <2>5, <2>8 DEF r
<1>3. QED
  BY <1>1, <1>2

\* run_prepared_query() fails the query, writes one command for it, or leaves it for
\* later.
LEMMA RunPreparedFacts ==
  ASSUME NEW s \in Connections, NEW q \in Queries, q \notin Simple, s.query[q] = "pending"
  PROVE  LET r == run_prepared_query(s, q)
         IN  /\ r \in Connections
             /\ RunStays(s, r) \/ RunFails(s, r, q) \/ RunExecutes(s, r, q) \/ RunPrepares(s, r, q)
<1> DEFINE x == Signature[q]
           a == attach(s, q)
           r == run_prepared_query(s, q)
           e == write(a, q, "execute")
           p == write(a, q, "prepare")
           f == [a.query EXCEPT ![q] = "running"]
           g == [a.statement EXCEPT ![x] = "parsing"]
           te == [e EXCEPT !.query = f]
           tp == [p EXCEPT !.statement = g]
<1>1. /\ a \in Connections /\ Only(s, a, {"attached", "statement"}) /\ Grows(s, a)
      /\ s.statement[x] # "failed" => q \in a.attached
  BY AttachFacts DEF Grows
<1>2. x \in Statements
  BY SignatureType
<1>3. a.query = s.query /\ a.buffer = s.buffer /\ a.ready = s.ready /\ a.waiting = s.waiting
      /\ a.status = s.status /\ a.backpressure = s.backpressure
      /\ a.pipelined = s.pipelined /\ a.nonpipelinable = s.nonpipelinable
  BY <1>1 DEF Only, Fields
<1>4. (can_pipeline(a) <=> can_pipeline(s)) /\ (can_prepare_query(a) <=> can_prepare_query(s))
  BY <1>3 DEF can_pipeline, can_prepare_query, is_able_to_write
<1>5. \/ a.statement[x] = "failed" /\ r = set_fail(a, q)
      \/ a.statement[x] = "prepared" /\ can_pipeline(a) /\ r = set_fail(a, q)
      \/ a.statement[x] = "prepared" /\ can_pipeline(a) /\ r = te
      \/ a.statement[x] = "pending" /\ can_prepare_query(a) /\ r = tp
      \/ r = a
  BY <1>1, <1>2 DEF run_prepared_query, write, Connections
<1> HIDE DEF a, r
<1>6. CASE r = a
  BY <1>1, <1>6 DEF RunStays, r
<1>7. CASE r = set_fail(a, q)
  <2>1. /\ r \in Connections /\ Only(a, r, {"query"})
        /\ r.query = [s.query EXCEPT ![q] = "fail"]
    BY <1>1, <1>3, <1>7, SetFailFacts
  <2>2. Only(s, r, {"attached", "statement", "query"})
    BY <1>1, <2>1 DEF Only, Fields
  <2>3. r.attached = a.attached /\ r.statement = a.statement
    BY <2>1 DEF Only, Fields
  <2>4. Grows(s, r)
    BY <1>1, <2>3 DEF Grows
  <2>5. RunFails(s, r, q)
    BY <2>1, <2>2, <2>4 DEF RunFails
  <2>6. QED
    BY <2>1, <2>5 DEF r
<1>8. CASE a.statement[x] = "prepared" /\ can_pipeline(a) /\ r = te
  <2>1. /\ e \in Connections /\ Only(a, e, {"buffer"})
        /\ e.buffer = Append(a.buffer, [q |-> q, kind |-> "execute"])
    BY <1>1, WriteFacts
  <2> HIDE DEF e
  <2>2. f \in [Queries -> QueryStates]
    BY <1>1, FieldTypes DEF QueryStates
  <2>3. f = [s.query EXCEPT ![q] = "running"]
    BY <1>3
  <2> HIDE DEF f
  <2>4. te \in Connections /\ te.query = f /\ Only(e, te, {"query"})
    BY <2>1, <2>2 DEF Connections, Only, Fields, QueryStates
  <2> HIDE DEF te
  <2>5. te.buffer = e.buffer /\ te.attached = a.attached /\ te.statement = a.statement
    BY <2>1, <2>4 DEF Only, Fields
  <2>6. Only(s, te, {"attached", "statement", "buffer", "query"})
    BY <1>1, <2>1, <2>4 DEF Only, Fields
  <2>7. q \in a.attached
    BY <1>1, <1>2, <1>8 DEF Grows
  <2>8. Grows(s, te)
    BY <1>1, <2>5 DEF Grows
  <2>9. RunExecutes(s, te, q)
    BY <1>3, <1>4, <1>8, <2>1, <2>3, <2>4, <2>5, <2>6, <2>7, <2>8 DEF RunExecutes
  <2>10. QED
    BY <1>8, <2>4, <2>9 DEF r
<1>9. CASE a.statement[x] = "pending" /\ can_prepare_query(a) /\ r = tp
  <2>1. /\ p \in Connections /\ Only(a, p, {"buffer"})
        /\ p.buffer = Append(a.buffer, [q |-> q, kind |-> "prepare"])
    BY <1>1, WriteFacts
  <2> HIDE DEF p
  <2>2. g \in [Statements -> StatementStates] /\ g[x] = "parsing"
        /\ \A y \in Statements : y # x => g[y] = a.statement[y]
    BY <1>1, <1>2, FieldTypes DEF StatementStates
  <2> HIDE DEF g
  <2>4. tp \in Connections /\ tp.statement = g /\ Only(p, tp, {"statement"})
    BY <2>1, <2>2 DEF Connections, Only, Fields, StatementStates
  <2> HIDE DEF tp
  <2>5. tp.buffer = p.buffer /\ tp.attached = a.attached
    BY <2>1, <2>4 DEF Only, Fields
  <2>6. Only(s, tp, {"attached", "statement", "buffer"})
    BY <1>1, <2>1, <2>4 DEF Only, Fields
  <2>7. q \in a.attached
    BY <1>1, <1>2, <1>9 DEF Grows
  <2>8. \A y \in Statements : \/ g[y] = s.statement[y]
                              \/ y = x
                              \/ s.statement[y] = "none" /\ g[y] = "pending"
    <3> SUFFICES ASSUME NEW y \in Statements, y # x
                 PROVE  g[y] = s.statement[y] \/ (s.statement[y] = "none" /\ g[y] = "pending")
      OBVIOUS
    <3>1. g[y] = a.statement[y]
      BY <2>2
    <3>2. a.statement[y] = s.statement[y] \/ (s.statement[y] = "none" /\ a.statement[y] = "pending")
      BY <1>1 DEF Grows
    <3>3. QED
      BY <3>1, <3>2
  <2>9. RunPrepares(s, tp, q)
    BY <1>1, <1>3, <1>4, <1>9, <2>1, <2>2, <2>4, <2>5, <2>6, <2>7, <2>8 DEF RunPrepares, Grows
  <2>10. QED
    BY <1>9, <2>4, <2>9 DEF r
<1>10. QED
  BY <1>5, <1>6, <1>7, <1>8, <1>9 DEF r

\* The five things that run() can do.
LEMMA RunFacts ==
  ASSUME NEW s \in Connections, NEW q \in Queries
  PROVE  LET r == run(s, q)
         IN  /\ r \in Connections
             /\ \/ RunStays(s, r)
                \/ RunFails(s, r, q)
                \/ RunQueries(s, r, q)
                \/ RunExecutes(s, r, q)
                \/ RunPrepares(s, r, q)
<1>1. RunStays(s, s)
  BY DEF RunStays, Only, Grows
<1>2. CASE s.query[q] # "pending" \/ is_being_prepared(s, q)
  BY <1>1, <1>2 DEF run
<1>3. CASE s.query[q] = "pending" /\ ~is_being_prepared(s, q) /\ q \in Simple
  <2>1. run(s, q) = run_simple_query(s, q)
    BY <1>3 DEF run
  <2>2. QED
    BY <1>1, <1>3, <2>1, RunSimpleFacts
<1>4. CASE s.query[q] = "pending" /\ ~is_being_prepared(s, q) /\ q \notin Simple
  <2>1. run(s, q) = run_prepared_query(s, q)
    BY <1>4 DEF run
  <2>2. QED
    BY <1>4, <2>1, RunPreparedFacts
<1>5. QED
  BY <1>2, <1>3, <1>4

RunFields == {"attached", "statement", "buffer", "query"}

\* What run() leaves alone.
LEMMA RunFrame ==
  ASSUME NEW s \in Connections, NEW q \in Queries
  PROVE  Only(s, run(s, q), RunFields)
<1> DEFINE r == run(s, q)
<1> USE DEF Only, Fields, RunFields
<1>1. CASE RunStays(s, r)
  BY <1>1 DEF RunStays
<1>2. CASE RunFails(s, r, q)
  BY <1>2 DEF RunFails
<1>3. CASE RunQueries(s, r, q)
  BY <1>3 DEF RunQueries
<1>4. CASE RunExecutes(s, r, q)
  BY <1>4 DEF RunExecutes
<1>5. CASE RunPrepares(s, r, q)
  BY <1>5 DEF RunPrepares
<1>6. QED
  BY <1>1, <1>2, <1>3, <1>4, <1>5, RunFacts

Attached(s) == \A q \in s.attached : q \notin Simple => s.statement[Signature[q]] # "none"

\* On a connection that is idle run() writes a command, or the query fails.
LEMMA RunRuns ==
  ASSUME NEW s \in Connections, NEW q \in Queries, s.query[q] = "pending", Attached(s),
         \A x \in Statements : s.statement[x] # "parsing",
         s.status = "connected", ~s.backpressure, s.ready, ~s.waiting,
         s.pipelined = 0, s.nonpipelinable = 0
  PROVE  LET r == run(s, q)
         IN  RunFails(s, r, q) \/ RunQueries(s, r, q) \/ RunExecutes(s, r, q) \/ RunPrepares(s, r, q)
<1>1. can_execute_query(s) /\ can_pipeline(s) /\ can_prepare_query(s)
  BY DEF can_execute_query, can_pipeline, can_prepare_query, is_able_to_write
<1>2. ~is_being_prepared(s, q)
  BY SignatureType DEF is_being_prepared
<1>3. CASE q \in Simple
  <2>1. run(s, q) = run_simple_query(s, q)
    BY <1>2, <1>3 DEF run
  <2>2. QED
    BY <1>1, <1>3, <2>1, RunSimpleFacts
<1>4. CASE q \notin Simple
  <2> DEFINE x == Signature[q]
             a == attach(s, q)
             r == run_prepared_query(s, q)
  <2>1. run(s, q) = r
    BY <1>2, <1>4 DEF run
  <2>2. /\ a \in Connections /\ Only(s, a, {"attached", "statement"}) /\ Grows(s, a)
        /\ q \notin s.attached => a.statement[x] # "none"
    BY <1>4, AttachFacts DEF Grows
  <2>3. x \in Statements
    BY <1>4, SignatureType
  <2>4. a.statement[x] # "none"
    BY <1>4, <2>2, <2>3 DEF Grows, Attached
  <2>5. a.statement[x] \in {"pending", "prepared", "failed"}
    <3>1. a.statement[x] # "parsing"
      BY <2>2, <2>3 DEF Grows
    <3>2. a.statement[x] \in StatementStates
      BY <2>2, <2>3, FieldTypes
    <3>3. QED
      BY <2>4, <3>1, <3>2 DEF StatementStates
  <2>6. can_pipeline(a) /\ can_prepare_query(a)
    BY <1>1, <2>2 DEF can_pipeline, can_prepare_query, is_able_to_write, Only, Fields
  <2>7. \/ r = set_fail(a, q)
        \/ r.buffer = Append(a.buffer, [q |-> q, kind |-> "execute"])
        \/ r.buffer = Append(a.buffer, [q |-> q, kind |-> "prepare"])
    <3>1. \/ r = set_fail(a, q)
          \/ r = [write(a, q, "execute") EXCEPT !.query[q] = "running"]
          \/ r = [write(a, q, "prepare") EXCEPT !.statement[x] = "parsing"]
      BY <2>5, <2>6 DEF run_prepared_query
    <3>2. write(a, q, "execute").buffer = Append(a.buffer, [q |-> q, kind |-> "execute"])
          /\ write(a, q, "prepare").buffer = Append(a.buffer, [q |-> q, kind |-> "prepare"])
          /\ write(a, q, "execute") \in Connections /\ write(a, q, "prepare") \in Connections
      BY <2>2, WriteFacts
    <3>3. \A w \in Connections : /\ [w EXCEPT !.query[q] = "running"].buffer = w.buffer
                                /\ [w EXCEPT !.statement[x] = "parsing"].buffer = w.buffer
      BY DEF Connections
    <3>4. QED
      BY <3>1, <3>2, <3>3
  <2>8. ~RunStays(s, r)
    <3>1. a.buffer = s.buffer /\ a.query = s.query
      BY <2>2 DEF Only, Fields
    <3>2. CASE r = set_fail(a, q)
      <4>1. r.query = [s.query EXCEPT ![q] = "fail"]
        BY <2>2, <3>1, <3>2, SetFailFacts
      <4>2. r.query[q] # s.query[q]
        BY <4>1, FieldTypes
      <4>3. QED
        BY <4>2 DEF RunStays, Only, Fields
    <3>3. ASSUME NEW c, r.buffer = Append(a.buffer, c) PROVE r.buffer # s.buffer
      <4>1. Len(Append(s.buffer, c)) # Len(s.buffer)
        BY FieldTypes
      <4>2. QED
        BY <3>1, <3>3, <4>1
    <3>4. CASE r.buffer # s.buffer
      BY <3>4 DEF RunStays, Only, Fields
    <3>5. QED
      BY <2>7, <3>2, <3>3, <3>4
  <2>9. QED
    BY <1>4, <2>1, <2>8, RunPreparedFacts
<1>5. QED
  BY <1>3, <1>4

AccountPrepares(s, t, q) ==
  is_being_prepared(s, q) /\ Only(s, t, {"ready", "waiting"}) /\ ~t.ready /\ t.waiting

AccountRuns(s, t, q) ==
  /\ is_running(s, q) /\ Only(s, t, {"ready", "pipelined", "nonpipelinable"}) /\ ~t.ready
  /\ \/ /\ q \in Simple
        /\ t.nonpipelinable = (s.nonpipelinable + 1) % U32 /\ t.pipelined = s.pipelined
     \/ /\ q \notin Simple
        /\ t.pipelined = (s.pipelined + 1) % U32 /\ t.nonpipelinable = s.nonpipelinable

\* What add() and advance() count.
LEMMA AccountFacts ==
  ASSUME NEW s \in Connections, NEW q \in Queries
  PROVE  LET t == account(s, q)
         IN  /\ t \in Connections
             /\ \/ t = s /\ ~is_being_prepared(s, q) /\ ~is_running(s, q)
                \/ AccountPrepares(s, t, q)
                \/ AccountRuns(s, t, q)
<1> DEFINE t == account(s, q)
           n == (s.nonpipelinable + 1) % U32
           p == (s.pipelined + 1) % U32
           a == [s EXCEPT !.ready = FALSE, !.waiting = TRUE]
           b == [s EXCEPT !.ready = FALSE, !.nonpipelinable = n]
           c == [s EXCEPT !.ready = FALSE, !.pipelined = p]
<1>1. t = IF is_being_prepared(s, q) THEN a
          ELSE IF ~is_running(s, q) THEN s ELSE IF q \in Simple THEN b ELSE c
  BY DEF account, Connections
<1>2. n \in 0 .. U32 - 1 /\ p \in 0 .. U32 - 1
  <2>1. s.nonpipelinable + 1 \in Int /\ s.pipelined + 1 \in Int
    BY FieldTypes, MySQLAssumption
  <2>2. QED
    BY <2>1, Modulo
<1> HIDE DEF n, p
<1>3. a \in Connections /\ Only(s, a, {"ready", "waiting"}) /\ a.ready = FALSE /\ a.waiting = TRUE
  BY DEF Connections, Only, Fields
<1>4. b \in Connections /\ Only(s, b, {"ready", "nonpipelinable"}) /\ b.ready = FALSE
      /\ b.nonpipelinable = n
  BY <1>2 DEF Connections, Only, Fields
<1>5. c \in Connections /\ Only(s, c, {"ready", "pipelined"}) /\ c.ready = FALSE
      /\ c.pipelined = p
  BY <1>2 DEF Connections, Only, Fields
<1> HIDE DEF a, b, c, t
<1>6. CASE t = s /\ ~is_being_prepared(s, q) /\ ~is_running(s, q)
  BY <1>6 DEF t
<1>7. CASE t = a /\ is_being_prepared(s, q)
  BY <1>3, <1>7 DEF t, AccountPrepares
<1>8. CASE t = b /\ is_running(s, q) /\ q \in Simple
  <2>1. b.pipelined = s.pipelined /\ Only(s, b, {"ready", "pipelined", "nonpipelinable"})
    BY <1>4 DEF Only, Fields
  <2>2. QED
    BY <1>4, <1>8, <2>1 DEF t, AccountRuns, n
<1>9. CASE t = c /\ is_running(s, q) /\ q \notin Simple
  <2>1. c.nonpipelinable = s.nonpipelinable /\ Only(s, c, {"ready", "pipelined", "nonpipelinable"})
    BY <1>5 DEF Only, Fields
  <2>2. QED
    BY <1>5, <1>9, <2>1 DEF t, AccountRuns, p
<1>10. QED
  BY <1>1, <1>6, <1>7, <1>8, <1>9

\* What discard() changes.
LEMMA DiscardFacts ==
  ASSUME NEW s \in Connections, s.queue # <<>>
  PROVE  LET t == discard(s)
         IN  t \in Connections /\ Only(s, t, {"queue"}) /\ t.queue = Tail(s.queue)
<1> DEFINE f == Tail(s.queue)
<1>1. f \in Seq(Queries)
  BY FieldTypes
<1>2. discard(s) = [s EXCEPT !.queue = f]
  BY DEF discard, Connections
<1> HIDE DEF f
<1>3. [s EXCEPT !.queue = f] \in Connections /\ [s EXCEPT !.queue = f].queue = f
      /\ Only(s, [s EXCEPT !.queue = f], {"queue"})
  BY <1>1 DEF Connections, Only, Fields
<1>4. QED
  BY <1>2, <1>3 DEF f

-----------------------------------------------------------------------------
(* A turn of advance() *)

Turns == [s : Connections, offset : Nat, go : BOOLEAN]

\* A query that fails is muted, and leaves the queue when it is the head.
TurnFails(s, t, q, offset) ==
  /\ RunFails(s, run(s, q), q)
  /\ Only(run(s, q), t, {"muted", "skipped", "queue"})
  /\ t.skipped = (s.skipped \/ offset = 0)
  /\ t.queue = IF offset = 0 THEN Tail(s.queue) ELSE s.queue

\* A query that is written, or that has to wait.
TurnWrites(s, t, q, offset) ==
  LET r == run(s, q) IN
  /\ ~is_completed(r, q)
  /\ Only(account(r, q), t, {"derailed"})
  /\ t.derailed = (s.derailed \/ (s.skipped /\ offset > 0 /\ r.buffer # s.buffer))

\* What a failed run() leaves behind in advance().
LEMMA MuteFacts ==
  ASSUME NEW s \in Connections, NEW mute \in SUBSET Queries, NEW skip \in BOOLEAN
  PROVE  LET t == [s EXCEPT !.muted = mute, !.skipped = skip]
         IN  t \in Connections /\ t.skipped = skip /\ Only(s, t, {"muted", "skipped"})
BY DEF Connections, Only, Fields

\* A turn in which run() fails.
LEMMA FailedFacts ==
  ASSUME NEW s \in Connections, NEW q \in Queries, NEW offset \in Nat, offset < Len(s.queue),
         is_completed(run(s, q), q), s.query[q] = "pending",
         NEW f, f = [run(s, q) EXCEPT !.muted = @ \cup {q}, !.skipped = @ \/ offset = 0],
         NEW t, t = IF offset = 0 THEN discard(f) ELSE f
  PROVE  t \in Connections /\ TurnFails(s, t, q, offset)
<1> DEFINE r == run(s, q)
           mute == r.muted \cup {q}
           skip == (r.skipped \/ offset = 0)
           g == [r EXCEPT !.muted = mute, !.skipped = skip]
<1>1. r \in Connections /\ RunFails(s, r, q)
  <2>1. r \in Connections /\ r.query \in [Queries -> QueryStates] /\ s.query \in [Queries -> QueryStates]
    BY RunFacts, FieldTypes
  <2>2. r.query[q] \in {"success", "fail"}
    BY DEF is_completed
  <2>3. ~RunStays(s, r) /\ ~RunPrepares(s, r, q)
    BY <2>2 DEF RunStays, RunPrepares, Only, Fields
  <2>4. ~RunQueries(s, r, q) /\ ~RunExecutes(s, r, q)
    BY <2>1, <2>2 DEF RunQueries, RunExecutes
  <2>5. QED
    BY <2>1, <2>3, <2>4, RunFacts
<1>2. f = g
  BY <1>1 DEF Connections
<1> HIDE DEF r
<1>3. mute \in SUBSET Queries /\ skip \in BOOLEAN
  <2>1. r.muted \in SUBSET Queries
    BY <1>1, FieldTypes
  <2>2. skip \in BOOLEAN
    BY Zenon
  <2>3. QED
    BY <2>1, <2>2
<1>4. r.skipped = s.skipped /\ r.queue = s.queue
  BY <1>1 DEF RunFails, Only, Fields
<1>5. skip = (s.skipped \/ offset = 0)
  BY <1>4
<1> HIDE DEF mute, skip
<1>6. f \in Connections /\ f.skipped = skip /\ Only(r, f, {"muted", "skipped"})
  <2>1. g \in Connections /\ g.skipped = skip /\ Only(r, g, {"muted", "skipped"})
    <3>1. r \in Connections
      BY <1>1
    <3>2. QED
      BY <1>3, <3>1, MuteFacts
  <2> HIDE DEF g
  <2>2. QED
    BY <1>2, <2>1, Zenon
<1>7. f.queue = s.queue /\ s.queue \in Seq(Queries) /\ s.queue # <<>>
  <2>1. f.queue = r.queue
    BY <1>6 DEF Only, Fields
  <2>2. s.queue \in Seq(Queries)
    BY FieldTypes
  <2>3. Len(s.queue) \in Nat /\ Len(s.queue) > 0
    BY <2>2
  <2>4. QED
    BY <1>4, <2>1, <2>2, <2>3
<1>8. CASE offset = 0
  <2>1. t \in Connections /\ Only(f, t, {"queue"}) /\ t.queue = Tail(s.queue)
    BY <1>6, <1>7, <1>8, DiscardFacts
  <2>2. Only(r, t, {"muted", "skipped", "queue"}) /\ t.skipped = f.skipped
    BY <1>6, <2>1 DEF Only, Fields
  <2>3. QED
    BY <1>1, <1>5, <1>6, <1>8, <2>1, <2>2 DEF TurnFails, r
<1>9. CASE offset # 0
  <2>1. t = f
    BY <1>9
  <2>2. Only(r, t, {"muted", "skipped", "queue"})
    BY <1>6, <2>1 DEF Only, Fields
  <2>3. QED
    BY <1>1, <1>5, <1>6, <1>7, <1>9, <2>1, <2>2 DEF TurnFails, r
<1>10. QED
  BY <1>8, <1>9

\* A turn in which run() does not fail.
LEMMA WrittenFacts ==
  ASSUME NEW s \in Connections, NEW q \in Queries, NEW offset \in Nat,
         ~is_completed(run(s, q), q),
         NEW t, t = [account(run(s, q), q) EXCEPT
                       !.derailed = @ \/ (s.skipped /\ offset > 0 /\ run(s, q).buffer # s.buffer)]
  PROVE  t \in Connections /\ TurnWrites(s, t, q, offset)
<1> DEFINE r == run(s, q)
           a == account(r, q)
           d == (a.derailed \/ (s.skipped /\ offset > 0 /\ r.buffer # s.buffer))
<1>1. r \in Connections /\ a \in Connections
  BY RunFacts, AccountFacts
<1>2. r.derailed = s.derailed
  BY RunFrame DEF Only, Fields, RunFields
<1>3. a.derailed = r.derailed
  BY <1>1, AccountFacts DEF AccountPrepares, AccountRuns, Only, Fields
<1>4. t = [a EXCEPT !.derailed = d]
  BY <1>1 DEF Connections
<1>5. d = (s.derailed \/ (s.skipped /\ offset > 0 /\ r.buffer # s.buffer))
  BY <1>2, <1>3
<1>6. d \in BOOLEAN
  BY <1>1, FieldTypes
<1> HIDE DEF d, a
<1>7. t \in Connections /\ t.derailed = d /\ Only(a, t, {"derailed"})
  BY <1>1, <1>4, <1>6 DEF Connections, Only, Fields
<1>8. QED
  BY <1>5, <1>7 DEF TurnWrites, a

TurnEnds(x, y) ==
  /\ y.s = x.s /\ ~y.go /\ y.offset = x.offset
  /\ ~x.go \/ Len(x.s.queue) <= x.offset \/ ~is_able_to_write(x.s)

\* What a turn may do while there is a query at the offset.
TurnMoves(x, y, q) ==
  \/ is_completed(x.s, q) /\ x.offset > 0 /\ y.s = x.s /\ y.go /\ y.offset = x.offset + 1
  \/ is_completed(x.s, q) /\ x.offset = 0 /\ y.s = discard(x.s) /\ y.go /\ y.offset = 0
  \/ is_being_prepared(x.s, q) /\ Only(x.s, y.s, {"waiting"}) /\ ~y.go /\ y.offset = x.offset
  \/ is_running(x.s, q) /\ y.s = x.s /\ y.go /\ y.offset > x.offset
  \/ /\ x.s.query[q] = "pending" /\ ~is_being_prepared(x.s, q)
     /\ TurnFails(x.s, y.s, q, x.offset) /\ y.go /\ y.offset = x.offset + 1
  \/ /\ ~is_completed(x.s, q) /\ ~is_being_prepared(x.s, q) /\ ~is_running(x.s, q)
     /\ TurnWrites(x.s, y.s, q, x.offset) /\ ~y.go /\ y.offset = x.offset

\* What a turn at a query that is being prepared changes.
LEMMA WaitingFacts ==
  ASSUME NEW s \in Connections, NEW b \in BOOLEAN
  PROVE  LET t == [s EXCEPT !.waiting = b]
         IN  t \in Connections /\ t.waiting = b /\ Only(s, t, {"waiting"})
BY DEF Connections, Only, Fields

\* Nothing is pipelined behind a query that has just been written.
LEMMA AccountedBlocks ==
  ASSUME NEW s \in Connections, NEW q \in Queries, is_running(s, q)
  PROVE  ~can_pipeline(account(s, q))
BY AccountFacts DEF AccountPrepares, AccountRuns, can_pipeline

\* A turn of advance() ends the loop or makes one of its moves.
LEMMA TurnCases ==
  ASSUME NEW x \in Turns
  PROVE  LET y == advance_turn(x)
             q == x.s.queue[x.offset + 1]
         IN  /\ y \in Turns
             /\ \/ TurnEnds(x, y)
                \/ /\ x.go /\ x.offset < Len(x.s.queue) /\ is_able_to_write(x.s)
                   /\ q \in Queries /\ TurnMoves(x, y, q)
<1> DEFINE s == x.s
           o == x.offset
           y == advance_turn(x)
           q == s.queue[o + 1]
           r == run(s, q)
           total == (s.pipelined + s.nonpipelinable) % U32
           jump == IF o < total THEN total ELSE 1
           failed == [r EXCEPT !.muted = @ \cup {q}, !.skipped = @ \/ o = 0]
           f == IF o = 0 THEN discard(failed) ELSE failed
           a == account(r, q)
           next == [a EXCEPT !.derailed = @ \/ (s.skipped /\ o > 0 /\ r.buffer # s.buffer)]
           wait == [s EXCEPT !.waiting = TRUE]
           End(t) == [s |-> t, offset |-> o, go |-> FALSE]
<1>1. s \in Connections /\ o \in Nat /\ s.queue \in Seq(Queries) /\ x.go \in BOOLEAN
  BY FieldTypes DEF Turns
<1>2. \A t \in Connections : \A n \in Nat :
        /\ At(t, n) \in Turns /\ At(t, n).s = t /\ At(t, n).go = TRUE /\ At(t, n).offset = n
        /\ End(t) \in Turns /\ End(t).s = t /\ End(t).go = FALSE /\ End(t).offset = o
  BY <1>1 DEF At, Turns
<1>3. CASE ~x.go \/ Len(s.queue) <= o \/ ~is_able_to_write(s)
  <2>1. y = End(s)
    BY <1>3 DEF advance_turn
  <2>2. QED
    BY <1>1, <1>2, <1>3, <2>1 DEF TurnEnds
<1>4. CASE ~(~x.go \/ Len(s.queue) <= o \/ ~is_able_to_write(s))
  <2>0. o < Len(s.queue) /\ o + 1 \in 1 .. Len(s.queue) /\ q \in Queries
    BY <1>1, <1>4
  <2>1. y = CASE is_completed(s, q) -> IF o > 0 THEN At(s, o + 1) ELSE At(discard(s), 0)
              [] is_being_prepared(s, q) -> End(wait)
              [] is_running(s, q) -> At(s, o + jump)
              [] s.query[q] = "pending" /\ is_completed(r, q) -> At(f, o + 1)
              [] OTHER -> IF is_running(r, q) /\ q \notin Simple /\ can_pipeline(a)
                            THEN At(next, o + 1) ELSE End(next)
    BY <1>4 DEF advance_turn
  <2>2. r \in Connections
    BY <1>1, <2>0, RunFacts
  <2>3. total \in Nat
    <3>1. s.pipelined + s.nonpipelinable \in Int
      <4>1. s.pipelined \in 0 .. U32 - 1 /\ s.nonpipelinable \in 0 .. U32 - 1
        BY <1>1, FieldTypes
      <4>2. QED
        BY <4>1
    <3>2. QED
      <4>1. total \in 0 .. U32 - 1
        BY <3>1, Modulo
      <4> HIDE DEF total
      <4>2. QED
        BY <4>1
  <2>4. jump \in Nat /\ jump > 0
    BY <1>1, <2>3
  <2>5. /\ is_completed(s, q) => ~is_being_prepared(s, q) /\ ~is_running(s, q) /\ s.query[q] # "pending"
        /\ is_being_prepared(s, q) => ~is_running(s, q) /\ s.query[q] = "pending" /\ r = s
        /\ is_running(s, q) => s.query[q] # "pending"
    BY DEF is_completed, is_being_prepared, is_running, run
  <2>6. s.query[q] # "pending" => r = s
    BY DEF run
  <2> HIDE DEF y, r, f, next, wait, jump, q, s, o, End, a
  <2>7. CASE is_completed(s, q)
    <3>1. y = IF o > 0 THEN At(s, o + 1) ELSE At(discard(s), 0)
      BY <2>1, <2>5, <2>7
    <3>2. CASE o > 0
      BY <1>1, <1>2, <1>4, <2>0, <2>7, <3>1, <3>2 DEF TurnMoves, y, q, s, o
    <3>3. CASE o = 0
      <4>1. discard(s) \in Connections
        BY <1>1, <2>0, DiscardFacts
      <4>2. y \in Turns /\ y.s = discard(s) /\ y.go = TRUE /\ y.offset = 0
        BY <1>2, <3>1, <3>3, <4>1
      <4>3. QED
        BY <1>4, <2>0, <2>7, <3>3, <4>2 DEF TurnMoves, y, q, s, o
    <3>4. QED
      BY <1>1, <3>2, <3>3
  <2>8. CASE is_being_prepared(s, q)
    <3>1. y = End(wait)
      BY <2>1, <2>5, <2>8
    <3>2. wait \in Connections /\ Only(s, wait, {"waiting"})
      BY <1>1, WaitingFacts DEF wait
    <3>3. y \in Turns /\ y.s = wait /\ y.go = FALSE /\ y.offset = o
      BY <1>1, <1>2, <3>1, <3>2
    <3>4. QED
      BY <1>4, <2>0, <2>8, <3>2, <3>3 DEF TurnMoves, y, q, s, o
  <2>9. CASE is_running(s, q)
    <3>1. y = At(s, o + jump)
      BY <2>1, <2>5, <2>9
    <3>2. o + jump \in Nat /\ o + jump > o
      BY <1>1, <2>4
    <3>3. y \in Turns /\ y.s = s /\ y.go = TRUE /\ y.offset > o
      BY <1>1, <1>2, <3>1, <3>2
    <3>4. QED
      BY <1>4, <2>0, <2>9, <3>3 DEF TurnMoves, y, q, s, o
  <2>10. CASE ~is_completed(s, q) /\ ~is_being_prepared(s, q) /\ s.query[q] = "pending" /\ is_completed(r, q)
    <3>1. y = At(f, o + 1)
      BY <2>1, <2>5, <2>10
    <3>2. f \in Connections /\ TurnFails(s, f, q, o)
      BY <1>1, <2>0, <2>10, FailedFacts DEF f, r
    <3>3. y \in Turns /\ y.s = f /\ y.go = TRUE /\ y.offset = o + 1
      BY <1>1, <1>2, <3>1, <3>2
    <3>4. QED
      BY <1>4, <2>0, <2>10, <3>2, <3>3 DEF TurnMoves, y, q, s, o
  <2>11. CASE /\ ~is_completed(s, q) /\ ~is_being_prepared(s, q) /\ ~is_running(s, q)
              /\ ~(s.query[q] = "pending" /\ is_completed(r, q))
    <3>1. y = IF is_running(r, q) /\ q \notin Simple /\ can_pipeline(a) THEN At(next, o + 1) ELSE End(next)
      BY <2>1, <2>11
    <3>2. ~is_completed(r, q)
      BY <2>6, <2>11
    <3>3. y = End(next)
      BY <2>0, <2>2, <3>1, AccountedBlocks DEF a
    <3>4. next \in Connections /\ TurnWrites(s, next, q, o)
      BY <1>1, <2>0, <3>2, WrittenFacts DEF next, r, a
    <3>5. y \in Turns /\ y.s = next /\ y.go = FALSE /\ y.offset = o
      BY <1>1, <1>2, <3>3, <3>4
    <3>6. QED
      BY <1>4, <2>0, <2>11, <3>4, <3>5 DEF TurnMoves, y, q, s, o
  <2>12. QED
    BY <2>7, <2>8, <2>9, <2>10, <2>11
<1>5. QED
  BY <1>3, <1>4

-----------------------------------------------------------------------------
(* Loops *)

\* A set of numbers has a least one.
LEMMA Least ==
  ASSUME NEW S, S \in SUBSET Nat, S # {}
  PROVE  \E n \in S : \A k \in S : n <= k
<1>1. PICK n \in S : \A y \in S : <<y, n>> \notin OpToRel(<, Nat)
  BY NatLessThanWellFounded, WFMin
<1>2. \A y \in S : ~(y < n)
  BY <1>1 DEF OpToRel
<1>3. QED
  BY <1>2

\* Induction, for a set of numbers.
LEMMA Induction ==
  ASSUME NEW S, 0 \in S, \A n \in Nat : n \in S => n + 1 \in S
  PROVE  \A n \in Nat : n \in S
<1> SUFFICES ASSUME NEW k \in Nat, k \notin S PROVE FALSE
  OBVIOUS
<1>1. PICK n \in Nat \ S : \A i \in Nat \ S : n <= i
  <2>1. Nat \ S \in SUBSET Nat /\ Nat \ S # {}
    OBVIOUS
  <2>2. QED
    BY <2>1, Least
<1>2. n # 0 /\ n - 1 \in Nat /\ n - 1 \in S
  BY <1>1
<1>3. QED
  BY <1>1, <1>2

\* The first k turns of F from x.
Run(F, x, k, T) == {g \in [0 .. k -> T] : g[0] = x /\ \A i \in 1 .. k : g[i] = F[g[i - 1]]}

\* The turns of a loop are a function of their number.
LEMMA RunExists ==
  ASSUME NEW T, NEW F \in [T -> T], NEW x \in T, NEW k \in Nat
  PROVE  Run(F, x, k, T) # {}
<1> DEFINE S == {n \in Nat : Run(F, x, n, T) # {}}
<1>1. 0 \in S
  <2>1. [i \in 0 .. 0 |-> x] \in Run(F, x, 0, T)
    BY DEF Run
  <2>2. QED
    BY <2>1
<1>2. ASSUME NEW n \in Nat, n \in S PROVE n + 1 \in S
  <2>1. PICK g : g \in Run(F, x, n, T)
    BY <1>2
  <2>2. g \in [0 .. n -> T] /\ g[0] = x /\ \A i \in 1 .. n : g[i] = F[g[i - 1]]
    BY <2>1 DEF Run
  <2> DEFINE h == [i \in 0 .. n + 1 |-> IF i <= n THEN g[i] ELSE F[g[n]]]
  <2>3. h \in [0 .. n + 1 -> T]
    BY <2>2
  <2>4. h[0] = x
    BY <2>2
  <2>5. \A i \in 1 .. n + 1 : h[i] = F[h[i - 1]]
    <3> SUFFICES ASSUME NEW i \in 1 .. n + 1 PROVE h[i] = F[h[i - 1]]
      OBVIOUS
    <3>1. CASE i <= n
      BY <2>2, <3>1
    <3>2. CASE i = n + 1
      BY <2>2, <3>2
    <3>3. QED
      BY <3>1, <3>2
  <2>6. h \in Run(F, x, n + 1, T)
    BY <2>3, <2>4, <2>5 DEF Run
  <2>7. QED
    BY <2>6
<1> HIDE DEF S
<1>3. k \in S
  BY <1>1, <1>2, Induction
<1>4. QED
  BY <1>3 DEF S

\* Iterate() takes the turns of advance() one after the other.
LEMMA AdvanceTurns ==
  ASSUME NEW x \in Turns, NEW k \in Nat
  PROVE  \E g : /\ g[0] = x
                /\ \A i \in 1 .. k : g[i] = advance_turn(g[i - 1])
                /\ Iterate(advance_turn, x, k) = g[k]
<1> DEFINE F == [y \in Turns |-> advance_turn(y)]
           Def(g) == [n \in 0 .. k |-> IF n = 0 THEN x ELSE advance_turn(g[n - 1])]
           after == CHOOSE g : g = Def(g)
<1>1. F \in [Turns -> Turns]
  BY TurnCases
<1>2. PICK g : g \in Run(F, x, k, Turns)
  BY <1>1, RunExists
<1>3. g \in [0 .. k -> Turns] /\ g[0] = x /\ \A i \in 1 .. k : g[i] = F[g[i - 1]]
  BY <1>2 DEF Run
<1>4. \A i \in 1 .. k : g[i] = advance_turn(g[i - 1])
  <2> SUFFICES ASSUME NEW i \in 1 .. k PROVE g[i] = advance_turn(g[i - 1])
    OBVIOUS
  <2>1. g[i - 1] \in Turns
    BY <1>3
  <2>2. QED
    BY <1>3, <2>1
<1>5. g = Def(g)
  BY <1>3, <1>4
<1>6. after = Def(after)
  BY <1>5
<1>7. Iterate(advance_turn, x, k) = after[k]
  BY DEF Iterate
<1>8. after[0] = x /\ \A i \in 1 .. k : after[i] = advance_turn(after[i - 1])
  <2> HIDE DEF after
  <2>1. \A i \in 0 .. k : after[i] = IF i = 0 THEN x ELSE advance_turn(after[i - 1])
    BY <1>6
  <2>2. QED
    BY <2>1
<1>9. QED
  BY <1>7, <1>8

\* Dropping a completed query yields a connection.
LEMMA DropType ==
  ASSUME NEW s \in Connections
  PROVE  /\ drop_turn(s) \in Connections /\ Only(s, drop_turn(s), {"queue"})
         /\ \/ drop_turn(s) = s /\ (s.queue = <<>> \/ ~is_completed(s, Head(s.queue)))
            \/ /\ s.queue # <<>> /\ is_completed(s, Head(s.queue))
               /\ drop_turn(s).queue = Tail(s.queue)
<1>1. CASE s.queue # <<>> /\ is_completed(s, Head(s.queue))
  BY <1>1, DiscardFacts DEF drop_turn
<1>2. CASE ~(s.queue # <<>> /\ is_completed(s, Head(s.queue)))
  BY <1>2 DEF drop_turn, Only
<1>3. QED
  BY <1>1, <1>2

\* Iterate() takes the turns of the pass that follows the loop one after the other.
LEMMA DropTurns ==
  ASSUME NEW x \in Connections, NEW k \in Nat
  PROVE  \E g : /\ g[0] = x
                /\ \A i \in 1 .. k : g[i] = drop_turn(g[i - 1])
                /\ Iterate(drop_turn, x, k) = g[k]
<1> DEFINE F == [y \in Connections |-> drop_turn(y)]
           Def(g) == [n \in 0 .. k |-> IF n = 0 THEN x ELSE drop_turn(g[n - 1])]
           after == CHOOSE g : g = Def(g)
<1>1. F \in [Connections -> Connections]
  BY DropType
<1>2. PICK g : g \in Run(F, x, k, Connections)
  BY <1>1, RunExists
<1>3. g \in [0 .. k -> Connections] /\ g[0] = x /\ \A i \in 1 .. k : g[i] = F[g[i - 1]]
  BY <1>2 DEF Run
<1>4. \A i \in 1 .. k : g[i] = drop_turn(g[i - 1])
  <2> SUFFICES ASSUME NEW i \in 1 .. k PROVE g[i] = drop_turn(g[i - 1])
    OBVIOUS
  <2>1. g[i - 1] \in Connections
    BY <1>3
  <2>2. QED
    BY <1>3, <2>1
<1>5. g = Def(g)
  BY <1>3, <1>4
<1>6. after = Def(after)
  BY <1>5
<1>7. Iterate(drop_turn, x, k) = after[k]
  BY DEF Iterate
<1>8. after[0] = x /\ \A i \in 1 .. k : after[i] = drop_turn(after[i - 1])
  <2> HIDE DEF after
  <2>1. \A i \in 0 .. k : after[i] = IF i = 0 THEN x ELSE drop_turn(after[i - 1])
    BY <1>6
  <2>2. QED
    BY <2>1
<1>9. QED
  BY <1>7, <1>8

-----------------------------------------------------------------------------
(* The invariant *)

NoneRuns(s) == \A q \in Queries : ~is_running(s, q)
NoneParses(s) == \A t \in Statements : s.statement[t] # "parsing"
Counts(s, p, n) == s.pipelined = p /\ s.nonpipelinable = n

\* Nothing has been sent and nothing is to come.
Idle(s) ==
  /\ s.ready /\ ~s.waiting /\ ~s.backpressure
  /\ s.buffer = <<>> /\ s.sent = <<>> /\ s.inbound = <<>>
  /\ Counts(s, 0, 0) /\ NoneRuns(s) /\ NoneParses(s)

\* A command of the head h is in the buffer, at the server or answered.
PrepareOut(s, h) ==
  \/ /\ s.buffer = <<[q |-> h, kind |-> "prepare"]>> /\ s.sent = <<>> /\ s.inbound = <<>>
  \/ /\ s.buffer = <<>> /\ s.sent = <<[q |-> h, kind |-> "prepare"]>> /\ s.inbound = <<>>
  \/ /\ s.buffer = <<>> /\ s.sent = <<>>
     /\ \E kind \in {"prepared", "err"} : s.inbound = <<[q |-> h, kind |-> kind]>>

Preparing(s, h) ==
  /\ PrepareOut(s, h)
  /\ h \notin Simple /\ h \in s.attached /\ s.query[h] = "pending"
  /\ \A t \in Statements : s.statement[t] = "parsing" <=> t = Signature[h]
  /\ Counts(s, 0, 0) /\ NoneRuns(s)

Parts(packets, h) ==
  \A i \in DOMAIN packets : packets[i].q = h /\ packets[i].kind \in {"bad_row", "more"}

Whole(packets, h) ==
  /\ packets # <<>>
  /\ \A i \in DOMAIN packets :
       /\ packets[i].q = h
       /\ packets[i].kind \in (IF i = Len(packets) THEN {"ok", "err"} ELSE {"bad_row", "more"})

ExecuteOut(s, h) ==
  LET c == [q |-> h, kind |-> IF h \in Simple THEN "query" ELSE "execute"] IN
  \/ s.buffer = <<c>> /\ s.sent = <<>> /\ s.inbound = <<>> /\ s.query[h] = "running"
  \/ s.buffer = <<>> /\ s.sent = <<c>> /\ Parts(s.inbound, h)
  \/ s.buffer = <<>> /\ s.sent = <<>> /\ Whole(s.inbound, h)

Executing(s, h) ==
  /\ ExecuteOut(s, h)
  /\ s.query[h] \in {"running", "partial", "fail"}
  /\ h \notin Simple => h \in s.attached /\ s.statement[Signature[h]] = "prepared"
  /\ NoneParses(s)
  /\ \A q \in Queries : is_running(s, q) => q = h
  /\ Counts(s, IF is_running(s, h) /\ h \notin Simple THEN 1 ELSE 0,
               IF is_running(s, h) /\ h \in Simple THEN 1 ELSE 0)

Busy(s) ==
  /\ ~s.ready /\ s.queue # <<>>
  /\ Preparing(s, Head(s.queue)) \/ Executing(s, Head(s.queue))

NoneNew(s) == \A i \in DOMAIN s.queue : s.query[s.queue[i]] # "new"

\* Only a query that was skipped waits while the connection is idle.
Skips(s) == s.queue # <<>> => s.skipped /\ ~is_completed(s, Head(s.queue))

Flusher(s) ==
  /\ s.registered => ~s.backpressure /\ (s.buffer # <<>> \/ s.ready)
  /\ s.backpressure => s.buffer # <<>>

Open(s) ==
  /\ NoneNew(s) /\ Attached(s) /\ Flusher(s)
  /\ Busy(s) \/ (Idle(s) /\ Skips(s))

Closed(s) == s.queue = <<>> /\ s.buffer = <<>> /\ Counts(s, 0, 0) /\ NoneRuns(s)

Sound(s) == ~s.derailed => IF usable(s) THEN Open(s) ELSE Closed(s)

MySQLInv == MySQLTypeOK /\ Attached(m) /\ Sound(m) /\ FlushIsDue

\* The answer that is awaited is for a query that is not completed.
BusyHead(s) ==
  Busy(s) /\ NoneNew(s) /\ Attached(s) /\ ~is_completed(s, Head(s.queue))

Ready(s) == Idle(s) /\ NoneNew(s) /\ Attached(s)

-----------------------------------------------------------------------------
(* Induction over the turns *)

\* What every turn of the loop preserves holds after any number of them.
LEMMA AdvanceInduction ==
  ASSUME NEW x \in Turns, NEW k \in Nat, NEW J, <<0, x>> \in J,
         \A n \in Nat, y \in Turns : <<n, y>> \in J => <<n + 1, advance_turn(y)>> \in J
  PROVE  LET y == Iterate(advance_turn, x, k) IN y \in Turns /\ <<k, y>> \in J
<1>1. PICK g : /\ g[0] = x
               /\ \A i \in 1 .. k : g[i] = advance_turn(g[i - 1])
               /\ Iterate(advance_turn, x, k) = g[k]
  BY AdvanceTurns
<1> DEFINE S == {n \in Nat : n <= k => g[n] \in Turns /\ <<n, g[n]>> \in J}
<1>2. 0 \in S
  BY <1>1
<1>3. ASSUME NEW n \in Nat, n \in S PROVE n + 1 \in S
  <2> SUFFICES ASSUME n + 1 <= k PROVE g[n + 1] \in Turns /\ <<n + 1, g[n + 1]>> \in J
    OBVIOUS
  <2>1. g[n] \in Turns /\ <<n, g[n]>> \in J
    BY <1>3
  <2>2. g[n + 1] = advance_turn(g[n])
    BY <1>1
  <2>3. advance_turn(g[n]) \in Turns
    BY <2>1, TurnCases
  <2>4. QED
    BY <2>1, <2>2, <2>3
<1> HIDE DEF S
<1>4. k \in S
  BY <1>2, <1>3, Induction
<1>5. QED
  BY <1>1, <1>4 DEF S

\* What dropping a completed query preserves holds after any number of them.
LEMMA DropInduction ==
  ASSUME NEW x \in Connections, NEW k \in Nat, NEW J, <<0, x>> \in J,
         \A n \in Nat, y \in Connections : <<n, y>> \in J => <<n + 1, drop_turn(y)>> \in J
  PROVE  LET y == Iterate(drop_turn, x, k) IN y \in Connections /\ <<k, y>> \in J
<1>1. PICK g : /\ g[0] = x
               /\ \A i \in 1 .. k : g[i] = drop_turn(g[i - 1])
               /\ Iterate(drop_turn, x, k) = g[k]
  BY DropTurns
<1> DEFINE S == {n \in Nat : n <= k => g[n] \in Connections /\ <<n, g[n]>> \in J}
<1>2. 0 \in S
  BY <1>1
<1>3. ASSUME NEW n \in Nat, n \in S PROVE n + 1 \in S
  <2> SUFFICES ASSUME n + 1 <= k PROVE g[n + 1] \in Connections /\ <<n + 1, g[n + 1]>> \in J
    OBVIOUS
  <2>1. g[n] \in Connections /\ <<n, g[n]>> \in J
    BY <1>3
  <2>2. g[n + 1] = drop_turn(g[n])
    BY <1>1
  <2>3. drop_turn(g[n]) \in Connections
    BY <2>1, DropType
  <2>4. QED
    BY <2>1, <2>2, <2>3
<1> HIDE DEF S
<1>4. k \in S
  BY <1>2, <1>3, Induction
<1>5. QED
  BY <1>1, <1>4 DEF S

AdvanceFields == {"buffer", "queue", "pipelined", "nonpipelinable", "waiting", "ready", "query",
                  "attached", "statement", "muted", "skipped", "derailed"}

\* run() attaches no query to a statement that nobody asked for.
LEMMA GrowsAttached ==
  ASSUME NEW s \in Connections, NEW r \in Connections, NEW q \in Queries, r = run(s, q), Attached(s)
  PROVE  Attached(r)
<1> USE DEF Attached
<1>0. \A p \in Queries : p \notin Simple => Signature[p] \in Statements
  BY SignatureType
<1>1. CASE q \in Simple \/ s.query[q] # "pending" \/ is_being_prepared(s, q)
  <2>1. CASE s.query[q] # "pending" \/ is_being_prepared(s, q)
    BY <2>1 DEF run
  <2>2. CASE s.query[q] = "pending" /\ ~is_being_prepared(s, q) /\ q \in Simple
    <3>1. r = run_simple_query(s, q)
      BY <2>2 DEF run
    <3>2. r = s \/ RunQueries(s, r, q)
      BY <2>2, <3>1, RunSimpleFacts
    <3>3. r.statement = s.statement /\ r.attached \subseteq s.attached \cup {q}
      BY <3>1, <3>2 DEF RunQueries, Only, Fields, run_simple_query, Connections, write
    <3>4. QED
      BY <2>2, <3>3
  <2>3. QED
    BY <1>1, <2>1, <2>2
<1>2. CASE q \notin Simple /\ s.query[q] = "pending" /\ ~is_being_prepared(s, q)
  <2> DEFINE x == Signature[q]
             a == attach(s, q)
  <2>1. /\ a \in Connections /\ Grows(s, a) /\ a.attached \subseteq s.attached \cup {q}
        /\ q \notin s.attached => a.statement[x] # "none"
    BY <1>2, AttachFacts DEF Grows
  <2>2. \A p \in a.attached : p \notin Simple => a.statement[Signature[p]] # "none"
    <3> SUFFICES ASSUME NEW p \in a.attached, p \notin Simple PROVE a.statement[Signature[p]] # "none"
      OBVIOUS
    <3>1. p \in Queries
      BY <2>1, FieldTypes
    <3>2. CASE p \in s.attached
      BY <1>0, <2>1, <3>1, <3>2 DEF Grows
    <3>3. CASE p \notin s.attached
      BY <2>1, <3>3
    <3>4. QED
      BY <3>2, <3>3
  <2> HIDE DEF a
  <2>3. r = run_prepared_query(s, q)
    BY <1>2 DEF run
  <2>4. /\ r.attached = a.attached
        /\ \A y \in Statements : r.statement[y] = a.statement[y] \/ r.statement[y] = "parsing"
    <3>1. \/ r = a
          \/ r = set_fail(a, q)
          \/ r = [write(a, q, "execute") EXCEPT !.query[q] = "running"]
          \/ r = [write(a, q, "prepare") EXCEPT !.statement[x] = "parsing"]
      BY <2>3 DEF run_prepared_query, a
    <3>2. /\ write(a, q, "execute") \in Connections /\ write(a, q, "prepare") \in Connections
          /\ Only(a, write(a, q, "execute"), {"buffer"}) /\ Only(a, write(a, q, "prepare"), {"buffer"})
          /\ Only(a, set_fail(a, q), {"query"})
      BY <2>1, WriteFacts, SetFailFacts
    <3>3. CASE r = a
      BY <3>3
    <3>4. CASE r = set_fail(a, q)
      BY <3>2, <3>4 DEF Only, Fields
    <3>5. CASE r = [write(a, q, "execute") EXCEPT !.query[q] = "running"]
      <4> DEFINE w == write(a, q, "execute")
      <4>1. w.attached = a.attached /\ w.statement = a.statement
        BY <3>2 DEF Only, Fields
      <4> HIDE DEF w
      <4>2. r.attached = w.attached /\ r.statement = w.statement
        BY <3>2, <3>5 DEF Connections, w
      <4>3. QED
        BY <4>1, <4>2
    <3>6. CASE r = [write(a, q, "prepare") EXCEPT !.statement[x] = "parsing"]
      <4> DEFINE w == write(a, q, "prepare")
      <4>1. w.attached = a.attached /\ w.statement = a.statement
        BY <3>2 DEF Only, Fields
      <4> HIDE DEF w
      <4>2. r.attached = w.attached /\ r.statement = [w.statement EXCEPT ![x] = "parsing"]
        BY <3>2, <3>6 DEF Connections, w
      <4>3. QED
        BY <2>1, <4>1, <4>2, FieldTypes
    <3>7. QED
      BY <3>1, <3>3, <3>4, <3>5, <3>6
  <2>5. QED
    <3> SUFFICES ASSUME NEW p \in r.attached, p \notin Simple PROVE r.statement[Signature[p]] # "none"
      OBVIOUS
    <3>1. p \in Queries /\ p \in a.attached
      BY <2>4, FieldTypes
    <3>2. QED
      BY <1>0, <2>2, <2>4, <3>1
<1>3. QED
  BY <1>1, <1>2

\* What a turn leaves alone.
LEMMA TurnFrame ==
  ASSUME NEW x \in Turns
  PROVE  LET y == advance_turn(x)
         IN  /\ Only(x.s, y.s, AdvanceFields) /\ (x.s.derailed => y.s.derailed)
             /\ Attached(x.s) => Attached(y.s)
<1> DEFINE y == advance_turn(x)
           q == x.s.queue[x.offset + 1]
           r == run(x.s, q)
           a == account(r, q)
<1>0. x.s \in Connections
  BY DEF Turns
<1>1. \/ TurnEnds(x, y)
      \/ q \in Queries /\ TurnMoves(x, y, q) /\ x.offset < Len(x.s.queue) /\ x.offset \in Nat
  BY TurnCases DEF Turns
<1> HIDE DEF q, y
<1>2. CASE y.s = x.s
  BY <1>2 DEF Only, y
<1>3. CASE x.s.queue # <<>> /\ y.s = discard(x.s)
  BY <1>0, <1>3, DiscardFacts DEF Only, Fields, AdvanceFields, Attached, y
<1>4. CASE Only(x.s, y.s, {"waiting"})
  BY <1>4 DEF Only, Fields, AdvanceFields, Attached, y
<1>5. CASE q \in Queries /\ TurnFails(x.s, y.s, q, x.offset)
  <2>1. Only(x.s, r, RunFields)
    BY <1>0, <1>5, RunFrame
  <2>2. Only(r, y.s, {"muted", "skipped", "queue"})
    BY <1>5 DEF TurnFails
  <2>3. Attached(x.s) => Attached(r)
    BY <1>0, <1>5, GrowsAttached, RunFacts
  <2> HIDE DEF r
  <2>4. Attached(r) => Attached(y.s)
    BY <2>2 DEF Only, Fields, Attached
  <2>5. QED
    BY <2>1, <2>2, <2>3, <2>4 DEF Only, Fields, AdvanceFields, RunFields, y
<1>6. CASE q \in Queries /\ TurnWrites(x.s, y.s, q, x.offset)
  <2>1. Only(x.s, r, RunFields) /\ r \in Connections
    BY <1>0, <1>6, RunFrame, RunFacts
  <2>2. Only(r, a, {"ready", "waiting", "pipelined", "nonpipelinable"})
    BY <1>6, <2>1, AccountFacts DEF AccountPrepares, AccountRuns, Only, Fields
  <2>3. Only(a, y.s, {"derailed"}) /\ (x.s.derailed => y.s.derailed)
    BY <1>6 DEF TurnWrites
  <2>4. Attached(x.s) => Attached(r)
    BY <1>0, <1>6, <2>1, GrowsAttached
  <2> HIDE DEF r, a
  <2>5. Only(x.s, y.s, AdvanceFields)
    BY <2>1, <2>2, <2>3 DEF Only, Fields, AdvanceFields, RunFields
  <2>6. Attached(r) => Attached(y.s)
    BY <2>2, <2>3 DEF Only, Fields, Attached
  <2>7. QED
    BY <2>3, <2>4, <2>5, <2>6 DEF y
<1>7. QED
  <2>1. CASE TurnEnds(x, y)
    BY <1>2, <2>1 DEF TurnEnds
  <2>2. CASE q \in Queries /\ TurnMoves(x, y, q) /\ x.offset < Len(x.s.queue) /\ x.offset \in Nat
    <3>1. x.s.queue # <<>>
      BY <1>0, <2>2, FieldTypes
    <3>2. QED
      BY <1>2, <1>3, <1>4, <1>5, <1>6, <2>2, <3>1 DEF TurnMoves
  <2>3. QED
    BY <1>1, <2>1, <2>2

\* advance() touches neither the socket nor what the server has.
LEMMA AdvanceFrame ==
  ASSUME NEW s \in Connections
  PROVE  LET t == advance(s)
         IN  /\ t \in Connections /\ Only(s, t, AdvanceFields)
             /\ (s.derailed => t.derailed) /\ (Attached(s) => Attached(t))
<1> DEFINE k == Len(s.queue)
           y == Iterate(advance_turn, At(s, 0), k)
           u == y.s
           l == Len(u.queue)
           J == {p \in Nat \X Turns :
                   /\ Only(s, p[2].s, AdvanceFields) /\ (s.derailed => p[2].s.derailed)
                   /\ Attached(s) => Attached(p[2].s)}
           D == {p \in Nat \X Connections : Only(u, p[2], {"queue"})}
           t == Iterate(drop_turn, u, l)
<1>1. k \in Nat /\ At(s, 0) \in Turns /\ At(s, 0).s = s
  BY FieldTypes DEF Turns, At
<1>2. <<0, At(s, 0)>> \in J
  BY <1>1 DEF Only
<1>3. ASSUME NEW n \in Nat, NEW z \in Turns, <<n, z>> \in J
      PROVE  <<n + 1, advance_turn(z)>> \in J
  <2>1. /\ Only(s, z.s, AdvanceFields) /\ (s.derailed => z.s.derailed)
        /\ Attached(s) => Attached(z.s)
    BY <1>3
  <2>2. /\ advance_turn(z) \in Turns /\ Only(z.s, advance_turn(z).s, AdvanceFields)
        /\ z.s.derailed => advance_turn(z).s.derailed
        /\ Attached(z.s) => Attached(advance_turn(z).s)
    BY TurnFrame, TurnCases
  <2>3. Only(s, advance_turn(z).s, AdvanceFields)
    BY <2>1, <2>2 DEF Only
  <2>4. QED
    BY <2>1, <2>2, <2>3
<1> HIDE DEF J, k
<1>4. y \in Turns /\ <<k, y>> \in J
  BY <1>1, <1>2, <1>3, AdvanceInduction
<1> HIDE DEF y
<1>5. /\ u \in Connections /\ Only(s, u, AdvanceFields)
      /\ (s.derailed => u.derailed) /\ (Attached(s) => Attached(u))
  BY <1>4 DEF J, Turns
<1> HIDE DEF u
<1>6. l \in Nat
  BY <1>5, FieldTypes
<1>7. <<0, u>> \in D
  BY <1>5 DEF Only
<1>8. ASSUME NEW n \in Nat, NEW z \in Connections, <<n, z>> \in D
      PROVE  <<n + 1, drop_turn(z)>> \in D
  BY <1>8, DropType DEF Only
<1> HIDE DEF D, l
<1>9. t \in Connections /\ <<l, t>> \in D
  BY <1>5, <1>6, <1>7, <1>8, DropInduction
<1>10. advance(s) = t
  BY DEF advance, k, y, u, l
<1> HIDE DEF t
<1>11. Only(u, t, {"queue"})
  BY <1>9 DEF D
<1>12. Only(s, t, AdvanceFields) /\ t.derailed = u.derailed
  BY <1>5, <1>11 DEF Only, Fields, AdvanceFields
<1>13. Attached(u) => Attached(t)
  BY <1>11 DEF Only, Fields, Attached
<1>14. QED
  BY <1>5, <1>9, <1>10, <1>12, <1>13

\* The head and the rest of a queue that is not empty.
LEMMA HeadType ==
  ASSUME NEW s \in Connections, s.queue # <<>>
  PROVE  /\ Head(s.queue) \in Queries /\ Head(s.queue) = s.queue[1]
         /\ 1 \in DOMAIN s.queue /\ Len(s.queue) \in Nat \ {0}
         /\ Tail(s.queue) \in Seq(Queries) /\ Len(Tail(s.queue)) = Len(s.queue) - 1
         /\ \A i \in DOMAIN Tail(s.queue) : i + 1 \in DOMAIN s.queue /\ Tail(s.queue)[i] = s.queue[i + 1]
<1>1. s.queue \in Seq(Queries)
  BY FieldTypes
<1> DEFINE f == s.queue
<1> HIDE DEF f
<1>2. ASSUME f \in Seq(Queries), f # <<>>
      PROVE /\ Head(f) \in Queries /\ Head(f) = f[1]
         /\ 1 \in DOMAIN f /\ Len(f) \in Nat \ {0}
         /\ Tail(f) \in Seq(Queries) /\ Len(Tail(f)) = Len(f) - 1
         /\ \A i \in DOMAIN Tail(f) : i + 1 \in DOMAIN f /\ Tail(f)[i] = f[i + 1]
  BY <1>2
<1>3. QED
  BY <1>1, <1>2 DEF f

\* Queries behind the head may change from new to pending or to fail, and statements
\* may be made for them.
Beside(s, t, h) ==
  /\ Grows(s, t)
  /\ \A q \in Queries :
       \/ t.query[q] = s.query[q]
       \/ q # h /\ s.query[q] \in {"new", "pending"} /\ t.query[q] \in {"pending", "fail"}

BesideFields == {"waiting", "query", "attached", "statement", "muted", "queue"}

\* What happens beside the head leaves its answer awaited.
LEMMA BusyStays ==
  ASSUME NEW s \in Connections, NEW t \in Connections, Busy(s),
         Beside(s, t, Head(s.queue)), Only(s, t, BesideFields \cup {"registered", "derailed"}),
         t.queue # <<>>, Head(t.queue) = Head(s.queue)
  PROVE  Busy(t)
<1> DEFINE h == Head(s.queue)
<1>1. h \in Queries /\ s.queue # <<>> /\ ~s.ready
  BY HeadType DEF Busy
<1>2. /\ t.ready = s.ready /\ t.buffer = s.buffer /\ t.sent = s.sent /\ t.inbound = s.inbound
      /\ t.pipelined = s.pipelined /\ t.nonpipelinable = s.nonpipelinable
  BY DEF Only, Fields, BesideFields
<1>3. t.query[h] = s.query[h]
  BY <1>1 DEF Beside
<1>4. \A q \in Queries : is_running(t, q) <=> is_running(s, q)
  BY DEF Beside, is_running
<1>6. \A x \in Statements : t.statement[x] = "parsing" <=> s.statement[x] = "parsing"
  BY DEF Beside, Grows
<1>7. h \in s.attached => h \in t.attached
  BY DEF Beside, Grows
<1>8. CASE Preparing(s, h)
  <2>1. PrepareOut(t, h)
    BY <1>2, <1>8 DEF Preparing, PrepareOut
  <2>2. Preparing(t, h)
    BY <1>2, <1>3, <1>4, <1>6, <1>7, <1>8, <2>1 DEF Preparing, Counts, NoneRuns
  <2>3. QED
    BY <1>1, <1>2, <2>2 DEF Busy
<1>9. CASE Executing(s, h)
  <2>1. ExecuteOut(t, h)
    BY <1>2, <1>3, <1>9 DEF Executing, ExecuteOut
  <2>2. h \notin Simple => h \in t.attached /\ t.statement[Signature[h]] = "prepared"
    <3> SUFFICES ASSUME h \notin Simple PROVE h \in t.attached /\ t.statement[Signature[h]] = "prepared"
      OBVIOUS
    <3>1. Signature[h] \in Statements
      BY <1>1, SignatureType
    <3>2. h \in s.attached /\ s.statement[Signature[h]] = "prepared"
      BY <1>9 DEF Executing
    <3>3. QED
      BY <1>7, <3>1, <3>2 DEF Beside, Grows
  <2>3. NoneParses(t)
    BY <1>6, <1>9 DEF Executing, NoneParses
  <2>4. \A q \in Queries : is_running(t, q) => q = h
    BY <1>4, <1>9 DEF Executing
  <2>5. Counts(t, IF is_running(t, h) /\ h \notin Simple THEN 1 ELSE 0,
                  IF is_running(t, h) /\ h \in Simple THEN 1 ELSE 0)
    BY <1>1, <1>2, <1>4, <1>9 DEF Executing, Counts
  <2>6. t.query[h] \in {"running", "partial", "fail"}
    BY <1>3, <1>9 DEF Executing
  <2>7. Executing(t, h)
    BY <2>1, <2>2, <2>3, <2>4, <2>5, <2>6 DEF Executing
  <2>8. QED
    BY <1>1, <1>2, <2>7 DEF Busy
<1>10. QED
  BY <1>8, <1>9 DEF Busy

\* The same while the head is not completed.
LEMMA BusyBeside ==
  ASSUME NEW s \in Connections, NEW t \in Connections, BusyHead(s),
         Beside(s, t, Head(s.queue)), Only(s, t, BesideFields \cup {"registered", "derailed"}),
         t.queue # <<>>, Head(t.queue) = Head(s.queue), NoneNew(t), Attached(t)
  PROVE  BusyHead(t)
<1>1. Busy(s) /\ s.queue # <<>> /\ ~is_completed(s, Head(s.queue))
  BY DEF BusyHead, Busy
<1>2. Busy(t)
  BY <1>1, BusyStays
<1>3. t.query[Head(s.queue)] = s.query[Head(s.queue)]
  BY <1>1, HeadType DEF Beside
<1>4. ~is_completed(t, Head(t.queue))
  BY <1>1, <1>3 DEF is_completed
<1>5. QED
  BY <1>2, <1>4 DEF BusyHead

\* While an answer is awaited run() writes nothing.
LEMMA RunBusy ==
  ASSUME NEW s \in Connections, NEW q \in Queries, ~s.ready
  PROVE  LET r == run(s, q) IN r \in Connections /\ (RunStays(s, r) \/ RunFails(s, r, q))
<1>1. ~can_execute_query(s) /\ ~can_pipeline(s) /\ ~can_prepare_query(s)
  BY DEF can_execute_query, can_pipeline, can_prepare_query
<1>2. QED
  BY <1>1, RunFacts DEF RunQueries, RunExecutes, RunPrepares

-----------------------------------------------------------------------------
(* advance() while an answer is awaited *)

\* What such a pass leaves as it was.
Awaits(s, t) ==
  /\ BusyHead(t) /\ t.queue = s.queue /\ t.buffer = s.buffer /\ t.derailed = s.derailed

\* A query does not become new again.
LEMMA NoneNewBeside ==
  ASSUME NEW s \in Connections, NEW t \in Connections, NoneNew(s), t.queue = s.queue,
         \A q \in Queries : t.query[q] = s.query[q] \/ t.query[q] \in {"pending", "fail"}
  PROVE  NoneNew(t)
<1> SUFFICES ASSUME NEW i \in DOMAIN t.queue PROVE t.query[t.queue[i]] # "new"
  BY DEF NoneNew
<1>1. t.queue[i] \in Queries /\ s.query[t.queue[i]] # "new"
  BY FieldTypes DEF NoneNew
<1>2. QED
  BY <1>1

\* While an answer is awaited, run() of another query writes nothing.
LEMMA RunBeside ==
  ASSUME NEW s \in Connections, NEW q \in Queries, BusyHead(s),
         ~is_being_prepared(s, q), ~is_running(s, q), ~is_completed(s, q)
  PROVE  LET r == run(s, q)
         IN  /\ r \in Connections /\ Beside(s, r, Head(s.queue))
             /\ Only(s, r, {"attached", "statement", "query"}) /\ Attached(r) /\ NoneNew(r)
             /\ q # Head(s.queue)
<1> DEFINE r == run(s, q)
           h == Head(s.queue)
<1>1. ~s.ready /\ s.queue # <<>> /\ Attached(s) /\ NoneNew(s) /\ h \in Queries
  BY HeadType DEF BusyHead, Busy
<1>2. r \in Connections /\ (RunStays(s, r) \/ RunFails(s, r, q))
  BY <1>1, RunBusy
<1>3. Attached(r)
  BY <1>1, <1>2, GrowsAttached
<1>4. q # h
  <2>1. CASE Preparing(s, h)
    <3>1. h \notin Simple /\ Signature[h] \in Statements
      BY <1>1, <2>1, SignatureType DEF Preparing
    <3>2. is_being_prepared(s, h)
      BY <2>1, <3>1 DEF Preparing, is_being_prepared
    <3>3. QED
      BY <3>2
  <2>2. CASE Executing(s, h)
    BY <2>2 DEF Executing, is_running, is_completed
  <2>3. QED
    BY <2>1, <2>2 DEF BusyHead, Busy
<1> HIDE DEF r
<1>5. CASE RunStays(s, r)
  <2>1. r.query = s.query /\ r.queue = s.queue /\ Only(s, r, {"attached", "statement", "query"})
    BY <1>5 DEF RunStays, Only, Fields
  <2>2. Beside(s, r, h)
    BY <1>5, <2>1 DEF RunStays, Beside
  <2>3. NoneNew(r)
    BY <1>1, <1>2, <2>1, NoneNewBeside
  <2>4. QED
    BY <1>2, <1>3, <1>4, <2>1, <2>2, <2>3 DEF r
<1>6. CASE RunFails(s, r, q)
  <2>1. r.query = [s.query EXCEPT ![q] = "fail"] /\ r.queue = s.queue /\ s.query[q] = "pending"
        /\ Only(s, r, {"attached", "statement", "query"})
    BY <1>6 DEF RunFails, Only, Fields
  <2>2. \A p \in Queries : r.query[p] = IF p = q THEN "fail" ELSE s.query[p]
    BY <2>1, FieldTypes
  <2>3. Beside(s, r, h)
    BY <1>4, <1>6, <2>1, <2>2 DEF RunFails, Beside
  <2>4. NoneNew(r)
    BY <1>1, <1>2, <2>1, <2>2, NoneNewBeside
  <2>5. QED
    BY <1>2, <1>3, <1>4, <2>1, <2>3, <2>4 DEF r
<1>7. QED
  BY <1>2, <1>5, <1>6

\* A turn while an answer is awaited.
LEMMA BusyTurn ==
  ASSUME NEW x \in Turns, BusyHead(x.s)
  PROVE  Awaits(x.s, advance_turn(x).s)
<1> DEFINE s == x.s
           y == advance_turn(x)
           t == y.s
           h == Head(s.queue)
           q == s.queue[x.offset + 1]
           r == run(s, q)
           a == account(r, q)
<1>1. s \in Connections /\ s.queue # <<>> /\ ~s.ready /\ Attached(s) /\ NoneNew(s)
      /\ h \in Queries /\ h = s.queue[1] /\ ~is_completed(s, h)
  BY HeadType DEF Turns, BusyHead, Busy
<1>2. /\ y \in Turns
      /\ \/ TurnEnds(x, y)
         \/ q \in Queries /\ TurnMoves(x, y, q)
  BY TurnCases
<1>3. t \in Connections
  BY <1>2 DEF Turns
<1> HIDE DEF y
<1>4. CASE t = s
  BY <1>4 DEF Awaits, y
<1>5. CASE is_completed(s, q) /\ x.offset = 0
  BY <1>1, <1>5
<1>6. CASE Only(s, t, {"waiting"})
  <2>1. /\ t.queue = s.queue /\ t.buffer = s.buffer /\ t.derailed = s.derailed
        /\ t.query = s.query /\ t.attached = s.attached /\ t.statement = s.statement
    BY <1>6 DEF Only, Fields
  <2>2. Only(s, t, BesideFields \cup {"registered", "derailed"})
    BY <1>6 DEF Only, Fields, BesideFields
  <2>3. Beside(s, t, h) /\ NoneNew(t) /\ Attached(t)
    BY <1>1, <2>1 DEF Beside, Grows, NoneNew, Attached
  <2>4. BusyHead(t)
    BY <1>1, <1>3, <2>1, <2>2, <2>3, BusyBeside
  <2>5. QED
    BY <2>1, <2>4 DEF Awaits, y
<1>7. CASE /\ q \in Queries /\ s.query[q] = "pending" /\ ~is_being_prepared(s, q)
           /\ TurnFails(s, t, q, x.offset)
  <2>0. ~is_running(s, q) /\ ~is_completed(s, q)
    BY <1>7 DEF is_running, is_completed
  <2>1. /\ r \in Connections /\ Beside(s, r, h) /\ q # h
        /\ Only(s, r, {"attached", "statement", "query"}) /\ Attached(r) /\ NoneNew(r)
    BY <1>1, <1>7, <2>0, RunBeside
  <2>2. x.offset # 0
    BY <1>1, <2>1
  <2>3. Only(r, t, {"muted", "skipped", "queue"}) /\ t.queue = s.queue
        /\ t.skipped = (s.skipped \/ x.offset = 0)
    BY <1>7, <2>2 DEF TurnFails
  <2> HIDE DEF r, t, q
  <2>4. t.skipped = s.skipped
    BY <1>1, <2>2, <2>3, FieldTypes
  <2>5. /\ t.buffer = s.buffer /\ t.derailed = s.derailed /\ r.queue = s.queue
        /\ t.query = r.query /\ t.attached = r.attached /\ t.statement = r.statement
    BY <2>1, <2>3 DEF Only, Fields
  <2>6. Only(s, t, BesideFields \cup {"registered", "derailed"})
    BY <2>1, <2>3, <2>4 DEF Only, Fields, BesideFields
  <2>7. Beside(s, t, h) /\ NoneNew(t) /\ Attached(t)
    BY <2>1, <2>3, <2>5 DEF Beside, Grows, NoneNew, Attached
  <2>8. BusyHead(t)
    BY <1>1, <1>3, <2>3, <2>6, <2>7, BusyBeside DEF t
  <2>9. QED
    BY <2>3, <2>5, <2>8 DEF Awaits, y, t
<1>8. CASE /\ q \in Queries /\ ~is_completed(s, q) /\ ~is_being_prepared(s, q) /\ ~is_running(s, q)
           /\ TurnWrites(s, t, q, x.offset)
  <2>1. /\ r \in Connections /\ Beside(s, r, h) /\ q # h
        /\ Only(s, r, {"attached", "statement", "query"}) /\ Attached(r) /\ NoneNew(r)
    BY <1>1, <1>8, RunBeside
  <2>2. r.buffer = s.buffer /\ r.ready = s.ready
    BY <2>1 DEF Only, Fields
  <2>3. ~is_running(r, q)
    BY <1>8, <2>1 DEF Beside, is_running
  <2>4. Only(r, a, {"waiting"})
    <3>1. a = r \/ AccountPrepares(r, a, q)
      BY <1>8, <2>1, <2>3, AccountFacts DEF AccountRuns
    <3>2. AccountPrepares(r, a, q) => a.ready = r.ready
      <4>1. a \in Connections /\ a.ready \in BOOLEAN /\ r.ready \in BOOLEAN
        BY <1>8, <2>1, AccountFacts, FieldTypes
      <4>2. QED
        BY <1>1, <2>2, <4>1 DEF AccountPrepares
    <3>3. QED
      BY <3>1, <3>2 DEF AccountPrepares, Only, Fields
  <2>5. Only(a, t, {"derailed"}) /\ t.derailed = s.derailed
    <3>1. Only(a, t, {"derailed"})
          /\ t.derailed = (s.derailed \/ (s.skipped /\ x.offset > 0 /\ r.buffer # s.buffer))
      BY <1>8 DEF TurnWrites
    <3>2. t.derailed \in BOOLEAN /\ s.derailed \in BOOLEAN
      BY <1>1, <1>3, FieldTypes
    <3>3. QED
      BY <2>2, <3>1, <3>2
  <2> HIDE DEF r, t, q, a
  <2>6. /\ t.buffer = s.buffer /\ t.queue = s.queue /\ r.queue = s.queue
        /\ t.query = r.query /\ t.attached = r.attached /\ t.statement = r.statement
    BY <2>1, <2>4, <2>5 DEF Only, Fields
  <2>7. Only(s, t, BesideFields \cup {"registered", "derailed"})
    BY <2>1, <2>4, <2>5 DEF Only, Fields, BesideFields
  <2>8. Beside(s, t, h) /\ NoneNew(t) /\ Attached(t)
    BY <2>1, <2>6 DEF Beside, Grows, NoneNew, Attached
  <2>9. BusyHead(t)
    BY <1>1, <1>3, <2>6, <2>7, <2>8, BusyBeside DEF t
  <2>10. QED
    BY <2>5, <2>6, <2>9 DEF Awaits, y, t
<1>9. QED
  BY <1>2, <1>4, <1>5, <1>6, <1>7, <1>8 DEF TurnEnds, TurnMoves

\* advance() while an answer is awaited: it goes on being awaited, and nothing is
\* written.
LEMMA AdvanceBusy ==
  ASSUME NEW s \in Connections, BusyHead(s)
  PROVE  Awaits(s, advance(s))
<1> DEFINE k == Len(s.queue)
           y == Iterate(advance_turn, At(s, 0), k)
           u == y.s
           l == Len(u.queue)
           J == {p \in Nat \X Turns : Awaits(s, p[2].s)}
           D == {p \in Nat \X Connections : p[2] = u}
           t == Iterate(drop_turn, u, l)
<1>1. k \in Nat /\ At(s, 0) \in Turns /\ At(s, 0).s = s
  BY FieldTypes DEF Turns, At
<1>2. <<0, At(s, 0)>> \in J
  BY <1>1 DEF Awaits
<1>3. ASSUME NEW n \in Nat, NEW z \in Turns, <<n, z>> \in J
      PROVE  <<n + 1, advance_turn(z)>> \in J
  <2>1. Awaits(s, z.s)
    BY <1>3
  <2>2. advance_turn(z) \in Turns /\ Awaits(z.s, advance_turn(z).s)
    BY <2>1, BusyTurn, TurnCases DEF Awaits
  <2>3. QED
    BY <2>1, <2>2 DEF Awaits
<1> HIDE DEF J, k
<1>4. y \in Turns /\ <<k, y>> \in J
  BY <1>1, <1>2, <1>3, AdvanceInduction
<1> HIDE DEF y
<1>5. u \in Connections /\ Awaits(s, u)
  BY <1>4 DEF J, Turns
<1> HIDE DEF u
<1>6. l \in Nat
  BY <1>5, FieldTypes
<1>7. <<0, u>> \in D
  BY <1>5
<1>8. ASSUME NEW n \in Nat, NEW z \in Connections, <<n, z>> \in D
      PROVE  <<n + 1, drop_turn(z)>> \in D
  <2>1. z = u /\ u.queue # <<>> /\ ~is_completed(u, Head(u.queue))
    BY <1>5, <1>8 DEF Awaits, BusyHead, Busy
  <2>2. drop_turn(z) = u
    BY <2>1 DEF drop_turn
  <2>3. QED
    BY <1>5, <2>2
<1> HIDE DEF D, l
<1>9. t \in Connections /\ <<l, t>> \in D
  BY <1>5, <1>6, <1>7, <1>8, DropInduction
<1>10. advance(s) = t
  BY DEF advance, k, y, u, l
<1> HIDE DEF t
<1>11. t = u
  BY <1>9 DEF D
<1>12. QED
  BY <1>5, <1>10, <1>11

-----------------------------------------------------------------------------
(* The first command on an idle connection *)

\* The command of q has been written.
Starts(a, q) ==
  /\ Preparing(a, q) \/ Executing(a, q)
  /\ ~a.ready /\ ~is_completed(a, q) /\ Attached(a) /\ a.buffer # <<>> /\ a.query[q] # "new"

StartFields == {"attached", "statement", "buffer", "query", "ready", "waiting", "pipelined",
                "nonpipelinable"}

\* The query that has been written at the head awaits its answer.
LEMMA StartsBusy ==
  ASSUME NEW a \in Connections, NEW t \in Connections, NEW q \in Queries, Starts(a, q),
         Only(a, t, {"derailed", "queue", "registered"}),
         t.queue # <<>>, Head(t.queue) = q, NoneNew(t)
  PROVE  BusyHead(t)
<1>1. /\ t.ready = a.ready /\ t.buffer = a.buffer /\ t.sent = a.sent /\ t.inbound = a.inbound
      /\ t.pipelined = a.pipelined /\ t.nonpipelinable = a.nonpipelinable
      /\ t.query = a.query /\ t.attached = a.attached /\ t.statement = a.statement
  BY DEF Only, Fields
<1>2. /\ Preparing(a, q) => Preparing(t, q)
      /\ Executing(a, q) => Executing(t, q)
  BY <1>1 DEF Preparing, PrepareOut, Executing, ExecuteOut, Counts, NoneRuns, NoneParses, is_running
<1>3. ~is_completed(t, q) /\ Attached(t)
  BY <1>1 DEF Starts, is_completed, Attached
<1>4. QED
  BY <1>1, <1>2, <1>3 DEF Starts, BusyHead, Busy

\* run() on an idle connection writes the first command.
LEMMA IdleWrites ==
  ASSUME NEW s \in Connections, NEW q \in Queries, Ready(s), s.status = "connected",
         s.query[q] = "pending", ~is_completed(run(s, q), q)
  PROVE  LET r == run(s, q)
             a == account(r, q)
         IN  /\ a \in Connections /\ Only(s, a, StartFields) /\ Starts(a, q)
             /\ r.buffer # s.buffer
             /\ \A p \in Queries : p # q => a.query[p] = s.query[p]
<1> DEFINE r == run(s, q)
           a == account(r, q)
<1>1. /\ s.ready /\ ~s.waiting /\ ~s.backpressure
      /\ s.buffer = <<>> /\ s.sent = <<>> /\ s.inbound = <<>>
      /\ s.pipelined = 0 /\ s.nonpipelinable = 0 /\ Attached(s)
      /\ \A p \in Queries : ~is_running(s, p)
      /\ \A x \in Statements : s.statement[x] # "parsing"
  BY DEF Ready, Idle, Counts, NoneRuns, NoneParses
<1>2. RunFails(s, r, q) \/ RunQueries(s, r, q) \/ RunExecutes(s, r, q) \/ RunPrepares(s, r, q)
  BY <1>1, RunRuns
<1>3. r \in Connections /\ Only(s, r, RunFields) /\ Attached(r)
  BY <1>1, RunFacts, RunFrame, GrowsAttached
<1>4. /\ r.sent = <<>> /\ r.inbound = <<>> /\ r.pipelined = 0 /\ r.nonpipelinable = 0
      /\ r.ready = s.ready
  BY <1>1, <1>3 DEF Only, Fields, RunFields
<1>5. /\ a \in Connections
      /\ \/ a = r /\ ~is_being_prepared(r, q) /\ ~is_running(r, q)
         \/ AccountPrepares(r, a, q)
         \/ AccountRuns(r, a, q)
  BY <1>3, AccountFacts
<1>6. Only(r, a, {"ready", "waiting", "pipelined", "nonpipelinable"})
  BY <1>5 DEF AccountPrepares, AccountRuns, Only, Fields
<1>7. Only(s, a, StartFields)
  BY <1>3, <1>6 DEF Only, Fields, RunFields, StartFields
<1>8. /\ a.sent = <<>> /\ a.inbound = <<>> /\ a.buffer = r.buffer /\ a.query = r.query
      /\ a.attached = r.attached /\ a.statement = r.statement
  BY <1>4, <1>6 DEF Only, Fields
<1>9. Attached(a)
  BY <1>3, <1>8 DEF Attached
<1>10. r.query \in [Queries -> QueryStates] /\ s.query \in [Queries -> QueryStates]
  BY <1>3, FieldTypes
<1>11. ASSUME NEW c PROVE Append(<<>>, c) = <<c>> /\ <<c>> # <<>>
  OBVIOUS
<1>12. is_completed(r, q) => FALSE
  OBVIOUS
<1> HIDE DEF r, a
<1>13. CASE RunFails(s, r, q)
  <2>1. r.query[q] = "fail"
    BY <1>10, <1>13 DEF RunFails
  <2>2. QED
    BY <1>12, <2>1 DEF is_completed
<1>14. CASE RunQueries(s, r, q)
  <2>1. /\ q \in Simple /\ r.buffer = <<[q |-> q, kind |-> "query"]>>
        /\ r.query[q] = "running" /\ \A p \in Queries : p # q => r.query[p] = s.query[p]
        /\ r.statement = s.statement
    BY <1>1, <1>10, <1>11, <1>14 DEF RunQueries, Only, Fields
  <2>2. is_running(r, q) /\ ~is_being_prepared(r, q)
    BY <2>1 DEF is_running, is_being_prepared
  <2>3. AccountRuns(r, a, q)
    BY <1>5, <2>2 DEF AccountPrepares
  <2>4. ~a.ready /\ a.nonpipelinable = 1 /\ a.pipelined = 0
    BY <1>4, <2>1, <2>3, ModuloSmall DEF AccountRuns
  <2>5. \A p \in Queries : is_running(a, p) <=> p = q
    BY <1>1, <1>8, <2>1 DEF is_running
  <2>6. ExecuteOut(a, q)
    BY <1>8, <2>1 DEF ExecuteOut
  <2>7. Executing(a, q)
    BY <1>1, <1>8, <2>1, <2>4, <2>5, <2>6 DEF Executing, NoneParses, Counts
  <2>8. Starts(a, q) /\ r.buffer # s.buffer
    BY <1>1, <1>8, <1>9, <1>11, <2>1, <2>4, <2>7 DEF Starts, is_completed
  <2>9. QED
    BY <1>5, <1>7, <1>8, <2>1, <2>8 DEF r, a
<1>15. CASE RunExecutes(s, r, q)
  <2>1. /\ q \notin Simple /\ r.buffer = <<[q |-> q, kind |-> "execute"]>>
        /\ r.query[q] = "running" /\ \A p \in Queries : p # q => r.query[p] = s.query[p]
        /\ q \in r.attached /\ r.statement[Signature[q]] = "prepared"
    BY <1>1, <1>10, <1>11, <1>15 DEF RunExecutes
  <2>2. is_running(r, q) /\ ~is_being_prepared(r, q)
    BY <2>1 DEF is_running, is_being_prepared
  <2>3. AccountRuns(r, a, q)
    BY <1>5, <2>2 DEF AccountPrepares
  <2>4. ~a.ready /\ a.nonpipelinable = 0 /\ a.pipelined = 1
    BY <1>4, <2>1, <2>3, ModuloSmall DEF AccountRuns
  <2>5. \A p \in Queries : is_running(a, p) <=> p = q
    BY <1>1, <1>8, <2>1 DEF is_running
  <2>6. ExecuteOut(a, q)
    BY <1>8, <2>1 DEF ExecuteOut
  <2>7. NoneParses(a)
    BY <1>1, <1>8, <1>15 DEF RunExecutes, Grows, NoneParses
  <2>8. Executing(a, q)
    BY <1>8, <2>1, <2>4, <2>5, <2>6, <2>7 DEF Executing, Counts
  <2>9. Starts(a, q) /\ r.buffer # s.buffer
    BY <1>1, <1>8, <1>9, <1>11, <2>1, <2>4, <2>8 DEF Starts, is_completed
  <2>10. QED
    BY <1>5, <1>7, <1>8, <2>1, <2>9 DEF r, a
<1>16. CASE RunPrepares(s, r, q)
  <2>1. /\ q \notin Simple /\ r.buffer = <<[q |-> q, kind |-> "prepare"]>>
        /\ r.query = s.query /\ r.query[q] = "pending"
        /\ q \in r.attached /\ r.statement[Signature[q]] = "parsing"
    BY <1>1, <1>11, <1>16 DEF RunPrepares, Only, Fields
  <2>2. ~is_running(r, q) /\ is_being_prepared(r, q)
    BY <2>1 DEF is_running, is_being_prepared
  <2>3. AccountPrepares(r, a, q)
    BY <1>5, <2>2 DEF AccountRuns
  <2>4. ~a.ready /\ a.nonpipelinable = 0 /\ a.pipelined = 0
    BY <1>4, <2>3 DEF AccountPrepares, Only, Fields
  <2>5. \A p \in Queries : ~is_running(a, p)
    BY <1>1, <1>8, <2>1 DEF is_running
  <2>6. PrepareOut(a, q)
    BY <1>8, <2>1 DEF PrepareOut
  <2>7. \A x \in Statements : a.statement[x] = "parsing" <=> x = Signature[q]
    BY <1>1, <1>8, <1>16, <2>1 DEF RunPrepares
  <2>8. Preparing(a, q)
    BY <1>8, <2>1, <2>4, <2>5, <2>6, <2>7 DEF Preparing, Counts, NoneRuns
  <2>9. Starts(a, q) /\ r.buffer # s.buffer
    BY <1>1, <1>8, <1>9, <1>11, <2>1, <2>4, <2>8 DEF Starts, is_completed
  <2>10. QED
    BY <1>5, <1>7, <1>8, <2>1, <2>9 DEF r, a
<1>17. QED
  BY <1>2, <1>13, <1>14, <1>15, <1>16

-----------------------------------------------------------------------------
(* advance() on an idle connection *)

\* Discarding the head leaves an idle connection idle.
LEMMA ReadyTail ==
  ASSUME NEW s \in Connections, NEW t \in Connections, Ready(s), s.queue # <<>>,
         Only(s, t, {"queue"}), t.queue = Tail(s.queue)
  PROVE  Ready(t)
<1>1. /\ t.ready = s.ready /\ t.buffer = s.buffer /\ t.sent = s.sent /\ t.inbound = s.inbound
      /\ t.pipelined = s.pipelined /\ t.nonpipelinable = s.nonpipelinable
      /\ t.query = s.query /\ t.attached = s.attached /\ t.statement = s.statement
      /\ t.waiting = s.waiting /\ t.backpressure = s.backpressure
  BY DEF Only, Fields
<1>2. Idle(t) /\ Attached(t)
  BY <1>1 DEF Ready, Idle, Attached, Counts, NoneRuns, NoneParses, is_running
<1>3. NoneNew(t)
  BY <1>1, HeadType DEF Ready, NoneNew
<1>4. QED
  BY <1>2, <1>3 DEF Ready

\* The loop after n of k turns.
IdleLoop(x, n, k) ==
  \/ x.s.derailed
  \/ /\ Ready(x.s) /\ (x.offset > 0 => x.s.skipped)
     /\ x.go => Len(x.s.queue) - x.offset <= k - n
     /\ ~x.go => x.s.queue = <<>> \/ x.s.skipped
  \/ BusyHead(x.s) /\ ~x.go

\* A query that fails in advance() leaves an idle connection idle.
LEMMA IdleFails ==
  ASSUME NEW s \in Connections, NEW t \in Connections, NEW q \in Queries, NEW offset \in Nat,
         Ready(s), s.queue # <<>>, TurnFails(s, t, q, offset)
  PROVE  /\ Ready(t) /\ t.skipped = (s.skipped \/ offset = 0)
         /\ Len(t.queue) = IF offset = 0 THEN Len(s.queue) - 1 ELSE Len(s.queue)
<1> DEFINE r == run(s, q)
<1>1. /\ RunFails(s, r, q) /\ Only(r, t, {"muted", "skipped", "queue"})
      /\ t.skipped = (s.skipped \/ offset = 0)
      /\ t.queue = IF offset = 0 THEN Tail(s.queue) ELSE s.queue
  BY DEF TurnFails
<1>2. r \in Connections /\ Attached(r)
  BY RunFacts, GrowsAttached DEF Ready
<1> HIDE DEF r
<1>3. /\ t.ready = s.ready /\ t.buffer = s.buffer /\ t.sent = s.sent /\ t.inbound = s.inbound
      /\ t.pipelined = s.pipelined /\ t.nonpipelinable = s.nonpipelinable
      /\ t.waiting = s.waiting /\ t.backpressure = s.backpressure
      /\ t.query = r.query /\ t.attached = r.attached /\ t.statement = r.statement
  BY <1>1 DEF RunFails, Only, Fields
<1>4. \A p \in Queries : t.query[p] = IF p = q THEN "fail" ELSE s.query[p]
  BY <1>1, <1>3, FieldTypes DEF RunFails
<1>5. NoneRuns(t)
  BY <1>4 DEF Ready, Idle, NoneRuns, is_running
<1>6. NoneParses(t)
  BY <1>1, <1>3 DEF Ready, Idle, NoneParses, RunFails, Grows
<1>7. Attached(t)
  BY <1>2, <1>3 DEF Attached
<1>8. Idle(t)
  BY <1>3, <1>5, <1>6 DEF Ready, Idle, Counts
<1>9. \A i \in DOMAIN s.queue : s.queue[i] \in Queries /\ s.query[s.queue[i]] # "new"
  BY FieldTypes DEF Ready, NoneNew
<1>10. \A i \in DOMAIN s.queue : t.query[s.queue[i]] # "new"
  BY <1>4, <1>9
<1>11. NoneNew(t)
  <2>1. CASE offset = 0
    BY <1>1, <1>10, <2>1, HeadType DEF NoneNew
  <2>2. CASE offset # 0
    BY <1>1, <1>10, <2>2 DEF NoneNew
  <2>3. QED
    BY <2>1, <2>2
<1>12. Ready(t)
  BY <1>7, <1>8, <1>11 DEF Ready
<1>13. Len(t.queue) = IF offset = 0 THEN Len(s.queue) - 1 ELSE Len(s.queue)
  BY <1>1, HeadType
<1>14. QED
  BY <1>1, <1>12, <1>13

\* A turn on an idle connection writes nothing, or one command of the head, or derails.
LEMMA IdleTurn ==
  ASSUME NEW x \in Turns, NEW n \in Nat, NEW k \in Nat, IdleLoop(x, n, k),
         x.s.status = "connected"
  PROVE  IdleLoop(advance_turn(x), n + 1, k)
<1> DEFINE s == x.s
           y == advance_turn(x)
           t == y.s
           o == x.offset
           q == s.queue[o + 1]
           r == run(s, q)
           a == account(r, q)
<1>1. s \in Connections /\ o \in Nat /\ x.go \in BOOLEAN /\ Len(s.queue) \in Nat /\ s.queue \in Seq(Queries)
  BY FieldTypes DEF Turns
<1>2. /\ y \in Turns
      /\ \/ TurnEnds(x, y)
         \/ x.go /\ o < Len(s.queue) /\ q \in Queries /\ TurnMoves(x, y, q)
  BY TurnCases
<1>3. t \in Connections
  BY <1>2 DEF Turns
<1>4. CASE s.derailed
  BY <1>4, TurnFrame DEF IdleLoop
<1> HIDE DEF y
<1>5. CASE BusyHead(s) /\ ~x.go
  BY <1>2, <1>5 DEF IdleLoop, TurnEnds, y
<1>6. CASE /\ Ready(s) /\ (o > 0 => s.skipped)
           /\ x.go => Len(s.queue) - o <= k - n
           /\ ~x.go => s.queue = <<>> \/ s.skipped
  <2>1. is_able_to_write(s)
    BY <1>6 DEF is_able_to_write, Ready, Idle
  <2>2. CASE TurnEnds(x, y)
    <3>1. t = s /\ ~y.go /\ y.offset = o /\ (~x.go \/ Len(s.queue) <= o)
      BY <2>1, <2>2 DEF TurnEnds
    <3>2. s.queue = <<>> \/ s.skipped
      <4>1. CASE o > 0
        BY <1>6, <4>1
      <4>2. CASE ~x.go
        BY <1>6, <4>2
      <4>3. CASE o = 0 /\ Len(s.queue) <= o
        BY <1>1, <4>3
      <4>4. QED
        BY <1>1, <3>1, <4>1, <4>2, <4>3
    <3>3. QED
      BY <1>6, <3>1, <3>2 DEF IdleLoop, y
  <2>3. CASE x.go /\ o < Len(s.queue) /\ q \in Queries /\ TurnMoves(x, y, q)
    <3>1. s.queue # <<>> /\ s.query[q] # "new"
      <4>1. o + 1 \in DOMAIN s.queue
        BY <1>1, <2>3
      <4>2. QED
        BY <1>1, <1>6, <4>1 DEF Ready, NoneNew
    <3>2. ~is_running(s, q)
      BY <1>6, <2>3 DEF Ready, Idle, NoneRuns
    <3>3. ~is_being_prepared(s, q)
      BY <1>6, <2>3, SignatureType DEF Ready, Idle, NoneParses, is_being_prepared
    <3>4. Len(s.queue) - o <= k - n
      BY <1>6, <2>3
    <3>5. CASE o > 0 /\ t = s /\ y.go /\ y.offset = o + 1
      <4>1. y.offset > 0 /\ Len(t.queue) - y.offset <= k - (n + 1)
        BY <1>1, <3>4, <3>5
      <4>2. QED
        BY <1>6, <3>5, <4>1 DEF IdleLoop, y
    <3>6. CASE o = 0 /\ t = discard(s) /\ y.go /\ y.offset = 0
      <4>1. Only(s, t, {"queue"}) /\ t.queue = Tail(s.queue)
        BY <1>1, <3>1, <3>6, DiscardFacts
      <4>2. Ready(t)
        BY <1>1, <1>3, <1>6, <3>1, <4>1, ReadyTail
      <4>3. Len(t.queue) = Len(s.queue) - 1
        BY <1>1, <3>1, <4>1, HeadType
      <4> HIDE DEF t, s, o
      <4>4. Len(t.queue) - y.offset <= k - (n + 1)
        BY <1>1, <3>4, <3>6, <4>3
      <4>5. QED
        BY <3>6, <4>2, <4>4 DEF IdleLoop, y, t, o
    <3>7. CASE TurnFails(s, t, q, o) /\ y.go /\ y.offset = o + 1
      <4>1. /\ Ready(t) /\ t.skipped = (s.skipped \/ o = 0)
            /\ Len(t.queue) = IF o = 0 THEN Len(s.queue) - 1 ELSE Len(s.queue)
        <5>1. s \in Connections /\ t \in Connections /\ q \in Queries /\ o \in Nat
          BY <1>1, <1>3, <2>3
        <5>2. Ready(s) /\ s.queue # <<>> /\ TurnFails(s, t, q, o)
          BY <1>6, <3>1, <3>7
        <5> HIDE DEF s, t, q, o
        <5>3. QED
          BY <5>1, <5>2, IdleFails
      <4>2. t.skipped
        <5>1. o = 0 \/ o > 0
          BY <1>1
        <5>2. s.skipped \/ o = 0
          BY <1>6, <5>1
        <5>3. QED
          BY <4>1, <5>2, Zenon
      <4>3. Len(t.queue) - y.offset <= k - (n + 1)
        BY <1>1, <3>4, <3>7, <4>1
      <4>4. QED
        BY <3>7, <4>1, <4>2, <4>3 DEF IdleLoop, y
    <3>8. CASE ~is_completed(s, q) /\ TurnWrites(s, t, q, o) /\ ~y.go /\ y.offset = o
      <4>1. s.query[q] = "pending"
        <5>1. s.query[q] \in QueryStates
          BY <1>1, <2>3, FieldTypes
        <5>2. QED
          BY <3>1, <3>2, <3>8, <5>1 DEF is_running, is_completed, QueryStates
      <4>2. /\ ~is_completed(r, q) /\ Only(a, t, {"derailed"})
            /\ t.derailed = (s.derailed \/ (s.skipped /\ o > 0 /\ r.buffer # s.buffer))
        BY <3>8 DEF TurnWrites
      <4>3. /\ a \in Connections /\ Only(s, a, StartFields) /\ Starts(a, q) /\ r.buffer # s.buffer
            /\ \A p \in Queries : p # q => a.query[p] = s.query[p]
        BY <1>1, <1>6, <2>3, <4>1, <4>2, IdleWrites
      <4> HIDE DEF a, r, t
      <4>4. CASE o > 0
        <5>1. t.derailed
          BY <1>6, <4>2, <4>3, <4>4
        <5>2. QED
          BY <5>1 DEF IdleLoop, t, y
      <4>5. CASE o = 0
        <5>1. q = Head(s.queue)
          BY <1>1, <3>1, <4>5, HeadType
        <5>2. t.queue = s.queue /\ t.query = a.query
          BY <4>2, <4>3 DEF Only, Fields, StartFields
        <5>3. NoneNew(t)
          <6>1. ASSUME NEW i \in DOMAIN s.queue PROVE a.query[s.queue[i]] # "new"
            <7>1. s.queue[i] \in Queries /\ s.query[s.queue[i]] # "new"
              BY <1>1, <1>6 DEF Ready, NoneNew
            <7>2. a.query[q] # "new"
              BY <4>3 DEF Starts
            <7>3. QED
              BY <4>3, <7>1, <7>2
          <6>2. QED
            BY <5>2, <6>1 DEF NoneNew
        <5>4. Only(a, t, {"derailed", "queue", "registered"})
          BY <4>2 DEF Only
        <5>5. BusyHead(t)
          BY <1>3, <2>3, <3>1, <4>3, <5>1, <5>2, <5>3, <5>4, StartsBusy DEF t
        <5>6. QED
          BY <3>8, <5>5 DEF IdleLoop, t, y
      <4>6. QED
        BY <1>1, <4>4, <4>5
    <3>9. QED
      BY <2>3, <3>2, <3>3, <3>5, <3>6, <3>7, <3>8 DEF TurnMoves
  <2>4. QED
    BY <1>2, <2>2, <2>3
<1>7. QED
  BY <1>4, <1>5, <1>6 DEF IdleLoop

\* Unless a query is sent ahead of one that was skipped, the pass ends with the
\* head's command written, or with nothing to do but for queries that were skipped.
LEMMA AdvanceIdle ==
  ASSUME NEW s \in Connections, Ready(s), s.status = "connected"
  PROVE  LET t == advance(s)
         IN  t.derailed \/ BusyHead(t) \/ (Ready(t) /\ Skips(t))
<1> DEFINE k == Len(s.queue)
           y == Iterate(advance_turn, At(s, 0), k)
           u == y.s
           l == Len(u.queue)
           J == {p \in Nat \X Turns : IdleLoop(p[2], p[1], k) /\ p[2].s.status = "connected"}
           D == {p \in Nat \X Connections :
                   /\ Only(u, p[2], {"queue"})
                   /\ BusyHead(u) => p[2] = u
                   /\ Ready(u) => Ready(p[2])
                   /\ u.queue = <<>> => p[2].queue = <<>>
                   /\ \/ Len(p[2].queue) <= l - p[1]
                      \/ p[2].queue = <<>>
                      \/ p[2].queue # <<>> /\ ~is_completed(p[2], Head(p[2].queue))}
           t == Iterate(drop_turn, u, l)
<1>1. k \in Nat /\ At(s, 0) \in Turns /\ At(s, 0).s = s /\ At(s, 0).offset = 0 /\ At(s, 0).go = TRUE
  BY FieldTypes DEF Turns, At
<1>2. <<0, At(s, 0)>> \in J
  BY <1>1 DEF IdleLoop
<1>3. ASSUME NEW n \in Nat, NEW z \in Turns, <<n, z>> \in J
      PROVE  <<n + 1, advance_turn(z)>> \in J
  <2>1. IdleLoop(z, n, k) /\ z.s.status = "connected"
    BY <1>3
  <2>2. advance_turn(z) \in Turns /\ IdleLoop(advance_turn(z), n + 1, k)
    BY <1>1, <2>1, IdleTurn, TurnCases
  <2>3. advance_turn(z).s.status = "connected"
    BY <2>1, TurnFrame DEF Only, Fields, AdvanceFields
  <2>4. QED
    BY <2>2, <2>3
<1> HIDE DEF J
<1>4. y \in Turns /\ <<k, y>> \in J
  BY <1>1, <1>2, <1>3, AdvanceInduction
<1> HIDE DEF y
<1>5. u \in Connections /\ IdleLoop(y, k, k) /\ y.offset \in Nat /\ y.go \in BOOLEAN
  BY <1>4 DEF J, Turns
<1>6. u.derailed \/ BusyHead(u) \/ (Ready(u) /\ (u.queue = <<>> \/ u.skipped))
  <2>1. CASE Ready(u) /\ (y.offset > 0 => u.skipped) /\ y.go /\ Len(u.queue) - y.offset <= k - k
    <3>1. u.queue \in Seq(Queries) /\ Len(u.queue) \in Nat
      BY <1>5, FieldTypes
    <3>2. Len(u.queue) <= y.offset
      BY <1>1, <1>5, <2>1, <3>1
    <3>3. u.queue = <<>> \/ y.offset > 0
      BY <1>5, <3>1, <3>2
    <3>4. QED
      BY <2>1, <3>3
  <2>2. QED
    BY <1>5, <2>1 DEF IdleLoop
<1> HIDE DEF u, k
<1>7. l \in Nat /\ u.queue \in Seq(Queries)
  BY <1>5, FieldTypes
<1>8. <<0, u>> \in D
  BY <1>5, <1>7 DEF Only
<1>9. ASSUME NEW n \in Nat, NEW z \in Connections, <<n, z>> \in D
      PROVE  <<n + 1, drop_turn(z)>> \in D
  <2> DEFINE d == drop_turn(z)
  <2>1. /\ Only(u, z, {"queue"}) /\ (BusyHead(u) => z = u) /\ (Ready(u) => Ready(z))
        /\ u.queue = <<>> => z.queue = <<>>
        /\ \/ Len(z.queue) <= l - n
           \/ z.queue = <<>>
           \/ z.queue # <<>> /\ ~is_completed(z, Head(z.queue))
    BY <1>9
  <2>2. /\ d \in Connections /\ Only(z, d, {"queue"})
        /\ \/ d = z /\ (z.queue = <<>> \/ ~is_completed(z, Head(z.queue)))
           \/ /\ z.queue # <<>> /\ is_completed(z, Head(z.queue))
              /\ d.queue = Tail(z.queue)
    BY DropType
  <2> HIDE DEF d, l, D
  <2>3. Only(u, d, {"queue"})
    BY <2>1, <2>2 DEF Only
  <2>4. CASE d = z /\ (z.queue = <<>> \/ ~is_completed(z, Head(z.queue)))
    <3>1. CASE z.queue = <<>>
      BY <2>1, <2>2, <2>3, <2>4, <3>1 DEF D, d
    <3>2. CASE z.queue # <<>> /\ ~is_completed(z, Head(z.queue))
      BY <2>1, <2>2, <2>3, <2>4, <3>2 DEF D, d
    <3>3. QED
      BY <2>4, <3>1, <3>2
  <2>5. CASE z.queue # <<>> /\ is_completed(z, Head(z.queue)) /\ d.queue = Tail(z.queue)
    <3>1. ~BusyHead(u)
      BY <2>1, <2>5 DEF BusyHead
    <3>2. Ready(u) => Ready(d)
      BY <2>1, <2>2, <2>5, ReadyTail
    <3>3. Len(d.queue) = Len(z.queue) - 1 /\ Len(z.queue) \in Nat
      BY <2>5, HeadType
    <3>4. Len(z.queue) <= l - n
      BY <2>1, <2>5
    <3>5. Len(d.queue) <= l - (n + 1)
      BY <1>7, <3>3, <3>4
    <3>6. u.queue # <<>>
      BY <2>1, <2>5
    <3>7. <<n + 1, d>> \in Nat \X Connections
      BY <2>2
    <3>8. QED
      BY <2>3, <3>1, <3>2, <3>5, <3>6, <3>7 DEF D, d
  <2>6. QED
    BY <2>2, <2>4, <2>5
<1> HIDE DEF D, l
<1>10. t \in Connections /\ <<l, t>> \in D
  BY <1>5, <1>7, <1>8, <1>9, DropInduction
<1>11. advance(s) = t
  BY DEF advance, k, y, u, l
<1> HIDE DEF t
<1>12. /\ Only(u, t, {"queue"}) /\ (BusyHead(u) => t = u) /\ (Ready(u) => Ready(t))
       /\ u.queue = <<>> => t.queue = <<>>
       /\ Len(t.queue) <= l - l \/ t.queue = <<>> \/ (t.queue # <<>> /\ ~is_completed(t, Head(t.queue)))
  BY <1>10 DEF D
<1>13. t.derailed = u.derailed /\ t.skipped = u.skipped
  BY <1>12 DEF Only, Fields
<1>14. t.queue = <<>> \/ ~is_completed(t, Head(t.queue))
  BY <1>7, <1>10, <1>12, FieldTypes
<1>15. QED
  BY <1>6, <1>11, <1>12, <1>13, <1>14 DEF Skips

-----------------------------------------------------------------------------
(* What the other operators do *)

\* What ready_and_finished() changes.
LEMMA FinishedFacts ==
  ASSUME NEW s \in Connections, NEW q \in Queries
  PROVE  LET t == ready_and_finished(s, q)
         IN  /\ t \in Connections /\ Only(s, t, {"ready", "waiting", "pipelined", "nonpipelinable"})
             /\ t.ready /\ ~t.waiting
             /\ ~is_running(s, q) => Counts(t, s.pipelined, s.nonpipelinable)
             /\ is_running(s, q) /\ q \in Simple =>
                  Counts(t, s.pipelined, (s.nonpipelinable - 1) % U32)
             /\ is_running(s, q) /\ q \notin Simple =>
                  Counts(t, (s.pipelined - 1) % U32, s.nonpipelinable)
<1> DEFINE n == (s.nonpipelinable - 1) % U32
           p == (s.pipelined - 1) % U32
           a == [s EXCEPT !.ready = TRUE, !.waiting = FALSE]
           b == [s EXCEPT !.ready = TRUE, !.waiting = FALSE, !.nonpipelinable = n]
           c == [s EXCEPT !.ready = TRUE, !.waiting = FALSE, !.pipelined = p]
           t == ready_and_finished(s, q)
<1>1. t = IF ~is_running(s, q) THEN a ELSE IF q \in Simple THEN b ELSE c
  BY DEF ready_and_finished, mark_current_request_as_finished, is_running, Connections
<1>2. n \in 0 .. U32 - 1 /\ p \in 0 .. U32 - 1
  <2>1. s.nonpipelinable - 1 \in Int /\ s.pipelined - 1 \in Int
    BY MySQLAssumption, FieldTypes
  <2>2. QED
    BY <2>1, Modulo
<1> HIDE DEF n, p
<1>3. /\ a \in Connections /\ Only(s, a, {"ready", "waiting", "pipelined", "nonpipelinable"})
      /\ a.ready = TRUE /\ a.waiting = FALSE /\ Counts(a, s.pipelined, s.nonpipelinable)
  BY DEF Connections, Only, Fields, Counts
<1>4. /\ b \in Connections /\ Only(s, b, {"ready", "waiting", "pipelined", "nonpipelinable"})
      /\ b.ready = TRUE /\ b.waiting = FALSE /\ Counts(b, s.pipelined, n)
  BY <1>2 DEF Connections, Only, Fields, Counts
<1>5. /\ c \in Connections /\ Only(s, c, {"ready", "waiting", "pipelined", "nonpipelinable"})
      /\ c.ready = TRUE /\ c.waiting = FALSE /\ Counts(c, p, s.nonpipelinable)
  BY <1>2 DEF Connections, Only, Fields, Counts
<1> HIDE DEF a, b, c, t
<1>6. CASE ~is_running(s, q)
  BY <1>1, <1>3, <1>6 DEF t
<1>7. CASE is_running(s, q) /\ q \in Simple
  BY <1>1, <1>4, <1>7 DEF t, n
<1>8. CASE is_running(s, q) /\ q \notin Simple
  BY <1>1, <1>5, <1>8 DEF t, p
<1>9. QED
  BY <1>6, <1>7, <1>8

\* What mark_current_request_as_finished() changes.
LEMMA MarkedFacts ==
  ASSUME NEW s \in Connections, NEW q \in Queries
  PROVE  LET t == mark_current_request_as_finished(s, q)
         IN  /\ t \in Connections /\ Only(s, t, {"waiting", "pipelined", "nonpipelinable"})
             /\ ~is_running(s, q) => Counts(t, s.pipelined, s.nonpipelinable)
             /\ is_running(s, q) /\ q \in Simple =>
                  Counts(t, s.pipelined, (s.nonpipelinable - 1) % U32)
             /\ is_running(s, q) /\ q \notin Simple =>
                  Counts(t, (s.pipelined - 1) % U32, s.nonpipelinable)
<1> DEFINE n == (s.nonpipelinable - 1) % U32
           p == (s.pipelined - 1) % U32
           a == [s EXCEPT !.waiting = FALSE]
           b == [s EXCEPT !.waiting = FALSE, !.nonpipelinable = n]
           c == [s EXCEPT !.waiting = FALSE, !.pipelined = p]
           t == mark_current_request_as_finished(s, q)
<1>1. t = IF ~is_running(s, q) THEN a ELSE IF q \in Simple THEN b ELSE c
  BY DEF mark_current_request_as_finished, Connections
<1>2. n \in 0 .. U32 - 1 /\ p \in 0 .. U32 - 1
  <2>1. s.nonpipelinable - 1 \in Int /\ s.pipelined - 1 \in Int
    BY MySQLAssumption, FieldTypes
  <2>2. QED
    BY <2>1, Modulo
<1> HIDE DEF n, p
<1>3. /\ a \in Connections /\ Only(s, a, {"waiting", "pipelined", "nonpipelinable"})
      /\ Counts(a, s.pipelined, s.nonpipelinable)
  BY DEF Connections, Only, Fields, Counts
<1>4. /\ b \in Connections /\ Only(s, b, {"waiting", "pipelined", "nonpipelinable"})
      /\ Counts(b, s.pipelined, n)
  BY <1>2 DEF Connections, Only, Fields, Counts
<1>5. /\ c \in Connections /\ Only(s, c, {"waiting", "pipelined", "nonpipelinable"})
      /\ Counts(c, p, s.nonpipelinable)
  BY <1>2 DEF Connections, Only, Fields, Counts
<1> HIDE DEF a, b, c, t
<1>6. CASE ~is_running(s, q)
  BY <1>1, <1>3, <1>6 DEF t
<1>7. CASE is_running(s, q) /\ q \in Simple
  BY <1>1, <1>4, <1>7 DEF t, n
<1>8. CASE is_running(s, q) /\ q \notin Simple
  BY <1>1, <1>5, <1>8 DEF t, p
<1>9. QED
  BY <1>6, <1>7, <1>8

\* Settling a promise changes nothing else.
LEMMA SettleFacts ==
  ASSUME NEW s \in Connections, NEW q \in Queries, NEW how \in {"resolved", "rejected"}
  PROVE  Settle(s, q, how) \in Connections /\ Only(s, Settle(s, q, how), {"promise"})
<1> DEFINE f == [s.promise EXCEPT ![q] = IF @ = "unsettled" THEN how ELSE @]
<1>1. f \in [Queries -> {"unsettled", "resolved", "rejected"}]
  BY FieldTypes
<1>2. Settle(s, q, how) = [s EXCEPT !.promise = f]
  BY DEF Settle, Connections
<1> HIDE DEF f
<1>3. [s EXCEPT !.promise = f] \in Connections /\ Only(s, [s EXCEPT !.promise = f], {"promise"})
  BY <1>1 DEF Connections, Only, Fields
<1>4. QED
  BY <1>2, <1>3

\* The query of a completed one stays as it is.
LEMMA RejectFacts ==
  ASSUME NEW s \in Connections, NEW q \in Queries
  PROVE  LET t == reject(s, q)
         IN  /\ t \in Connections /\ Only(s, t, {"query", "promise"})
             /\ t.query = IF is_completed(s, q) THEN s.query ELSE [s.query EXCEPT ![q] = "fail"]
<1> DEFINE f == set_fail(s, q)
           t == reject(s, q)
<1>1. CASE is_completed(s, q)
  BY <1>1 DEF reject, Only
<1>2. CASE ~is_completed(s, q)
  <2>1. f \in Connections /\ Only(s, f, {"query"}) /\ f.query = [s.query EXCEPT ![q] = "fail"]
    BY SetFailFacts
  <2>2. t = Settle(f, q, "rejected")
    BY <1>2 DEF reject
  <2> HIDE DEF f, t
  <2>3. t \in Connections /\ Only(f, t, {"promise"})
    BY <2>1, <2>2, SettleFacts
  <2>4. Only(s, t, {"query", "promise"}) /\ t.query = f.query
    BY <2>1, <2>3 DEF Only, Fields
  <2>5. QED
    BY <1>2, <2>1, <2>3, <2>4 DEF t
<1>3. QED
  BY <1>1, <1>2

\* Setting a query's state changes nothing else.
LEMMA QueryFacts ==
  ASSUME NEW s \in Connections, NEW q \in Queries, NEW v \in QueryStates
  PROVE  LET t == [s EXCEPT !.query[q] = v]
         IN  /\ t \in Connections /\ Only(s, t, {"query"})
             /\ t.query = [s.query EXCEPT ![q] = v]
<1> DEFINE f == [s.query EXCEPT ![q] = v]
<1>1. f \in [Queries -> QueryStates]
  BY FieldTypes
<1>2. [s EXCEPT !.query[q] = v] = [s EXCEPT !.query = f]
  BY DEF Connections
<1> HIDE DEF f
<1>3. [s EXCEPT !.query = f] \in Connections /\ [s EXCEPT !.query = f].query = f
      /\ Only(s, [s EXCEPT !.query = f], {"query"})
  BY <1>1 DEF Connections, Only, Fields, QueryStates
<1>4. QED
  BY <1>2, <1>3 DEF f

\* What resolve() changes.
LEMMA ResolveFacts ==
  ASSUME NEW s \in Connections, NEW q \in Queries, NEW final \in BOOLEAN
  PROVE  LET t == resolve(s, q, final)
         IN  /\ t \in Connections /\ Only(s, t, {"query", "promise"})
             /\ t.query = IF is_completed(s, q) THEN s.query
                          ELSE [s.query EXCEPT ![q] = IF final THEN "success" ELSE "partial"]
<1> DEFINE f == [s EXCEPT !.query[q] = "success"]
           g == [s EXCEPT !.query[q] = "partial"]
           t == resolve(s, q, final)
<1>1. CASE is_completed(s, q)
  BY <1>1 DEF resolve, Only
<1>2. CASE ~is_completed(s, q) /\ final
  <2>1. f \in Connections /\ Only(s, f, {"query"}) /\ f.query = [s.query EXCEPT ![q] = "success"]
    BY QueryFacts DEF QueryStates
  <2>2. t = Settle(f, q, "resolved")
    BY <1>2 DEF resolve
  <2> HIDE DEF f, t
  <2>3. t \in Connections /\ Only(f, t, {"promise"})
    BY <2>1, <2>2, SettleFacts
  <2>4. Only(s, t, {"query", "promise"}) /\ t.query = f.query
    BY <2>1, <2>3 DEF Only, Fields
  <2>5. QED
    BY <1>2, <2>1, <2>3, <2>4 DEF t
<1>3. CASE ~is_completed(s, q) /\ ~final
  <2>1. g \in Connections /\ Only(s, g, {"query"}) /\ g.query = [s.query EXCEPT ![q] = "partial"]
    BY QueryFacts DEF QueryStates
  <2>2. t = g
    BY <1>3 DEF resolve
  <2> HIDE DEF g, t
  <2>3. Only(s, t, {"query", "promise"})
    BY <2>1, <2>2 DEF Only
  <2>4. QED
    BY <1>3, <2>1, <2>2, <2>3 DEF t
<1>4. QED
  BY <1>1, <1>2, <1>3

\* What register_auto_flusher() changes.
LEMMA RegisterFacts ==
  ASSUME NEW s \in Connections
  PROVE  LET t == register_auto_flusher(s)
         IN  /\ t \in Connections /\ Only(s, t, {"registered"})
             /\ t.registered = (s.registered \/ can_flush(s))
<1> DEFINE b == s.registered \/ can_flush(s)
<1>1. b \in BOOLEAN
  OBVIOUS
<1>2. register_auto_flusher(s) = [s EXCEPT !.registered = b]
  BY DEF register_auto_flusher, Connections
<1> HIDE DEF b
<1>3. [s EXCEPT !.registered = b] \in Connections /\ [s EXCEPT !.registered = b].registered = b
      /\ Only(s, [s EXCEPT !.registered = b], {"registered"})
  BY <1>1 DEF Connections, Only, Fields
<1>4. QED
  BY <1>2, <1>3 DEF b

CleanFields == {"queue", "pipelined", "nonpipelinable", "waiting", "query", "promise"}

\* The queries that run are in the queue.
Queued(s) == \A q \in Queries : is_running(s, q) => \E i \in DOMAIN s.queue : s.queue[i] = q

\* clean() leaves no query running, if those that run are queued.
LEMMA CleanFacts ==
  ASSUME NEW s \in Connections
  PROVE  LET t == clean(s)
         IN  /\ t \in Connections /\ Only(s, t, CleanFields)
             /\ t.queue = <<>> /\ Counts(t, 0, 0) /\ (Queued(s) => NoneRuns(t))
<1> DEFINE open == {q \in Queries : ~is_completed(s, q) /\ \E i \in DOMAIN s.queue : s.queue[i] = q}
           f == [q \in Queries |-> IF q \in open THEN "fail" ELSE s.query[q]]
           p == [q \in Queries |-> IF q \in open THEN "rejected" ELSE s.promise[q]]
           t == [s EXCEPT !.queue = <<>>, !.pipelined = 0, !.nonpipelinable = 0, !.waiting = FALSE,
                          !.query = f, !.promise = p]
<1>1. clean(s) = t
  BY DEF clean, Connections
<1>2. /\ f \in [Queries -> QueryStates]
      /\ p \in [Queries -> {"unsettled", "resolved", "rejected"}]
  <2>1. \A q \in Queries : s.query[q] \in QueryStates /\ s.promise[q] \in {"unsettled", "resolved", "rejected"}
    BY FieldTypes
  <2> HIDE DEF open
  <2>2. QED
    BY <2>1 DEF QueryStates
<1>3. Queued(s) => \A q \in Queries : f[q] \notin {"running", "partial"}
  <2> SUFFICES ASSUME Queued(s), NEW q \in Queries PROVE f[q] \notin {"running", "partial"}
    OBVIOUS
  <2>1. CASE q \in open
    BY <2>1
  <2>2. CASE q \notin open
    <3>1. f[q] = s.query[q]
      BY <2>2
    <3>2. ~is_running(s, q)
      BY <2>2 DEF Queued, is_running, is_completed
    <3>3. QED
      BY <3>1, <3>2 DEF is_running
  <2>3. QED
    BY <2>1, <2>2
<1> HIDE DEF f, p, open
<1>4. <<>> \in Seq(Queries) /\ 0 \in 0 .. U32 - 1
  BY ModuloSmall
<1>5. /\ t \in Connections /\ Only(s, t, CleanFields)
      /\ t.queue = <<>> /\ Counts(t, 0, 0) /\ t.query = f
  BY <1>2, <1>4 DEF Connections, Only, Fields, CleanFields, Counts, QueryStates
<1> HIDE DEF t
<1>6. Queued(s) => NoneRuns(t)
  BY <1>3, <1>5 DEF NoneRuns, is_running
<1>7. QED
  BY <1>1, <1>5, <1>6

\* What clean_queue_and_close() leaves.
LEMMA CloseFacts ==
  ASSUME NEW s \in Connections
  PROVE  LET t == clean_queue_and_close(s)
         IN  /\ t \in Connections /\ Only(s, t, CleanFields \cup {"buffer", "socket"})
             /\ t.socket # "open" /\ (Queued(s) => Closed(t))
<1> DEFINE c == clean(s)
           k == IF c.socket = "open" THEN "closing" ELSE c.socket
           t == [c EXCEPT !.buffer = <<>>, !.socket = k]
<1>1. /\ c \in Connections /\ Only(s, c, CleanFields)
      /\ c.queue = <<>> /\ Counts(c, 0, 0) /\ (Queued(s) => NoneRuns(c))
  BY CleanFacts
<1>2. clean_queue_and_close(s) = t
  BY <1>1 DEF clean_queue_and_close, Connections
<1> HIDE DEF c
<1>3. k \in {"closing", "closed"} /\ <<>> \in Seq(Command)
  BY <1>1, FieldTypes
<1> HIDE DEF k
<1>4. t \in Connections /\ Only(c, t, {"buffer", "socket"}) /\ t.buffer = <<>> /\ t.socket = k
  BY <1>1, <1>3 DEF Connections, Only, Fields
<1> HIDE DEF t
<1>5. Only(s, t, CleanFields \cup {"buffer", "socket"})
  BY <1>1, <1>4 DEF Only
<1>6. t.queue = c.queue /\ t.pipelined = c.pipelined /\ t.nonpipelinable = c.nonpipelinable
      /\ t.query = c.query
  BY <1>4 DEF Only, Fields
<1>7. Queued(s) => Closed(t)
  BY <1>1, <1>4, <1>6 DEF Closed, Counts, NoneRuns, is_running
<1>8. QED
  BY <1>2, <1>3, <1>4, <1>5, <1>7

\* What fail() leaves.
LEMMA FailFacts ==
  ASSUME NEW s \in Connections
  PROVE  LET t == fail(s)
         IN  /\ t \in Connections /\ Only(s, t, CleanFields \cup {"buffer", "socket", "status"})
             /\ t.socket # "open" /\ t.status = "failed" /\ (Queued(s) => Closed(t))
<1> DEFINE f == [s EXCEPT !.status = "failed"]
           t == clean_queue_and_close(f)
<1>1. f \in Connections /\ Only(s, f, {"status"}) /\ f.status = "failed"
  BY DEF Connections, Only, Fields
<1>2. fail(s) = t
  BY DEF fail
<1> HIDE DEF f
<1>3. /\ t \in Connections /\ Only(f, t, CleanFields \cup {"buffer", "socket"})
      /\ t.socket # "open" /\ (Queued(f) => Closed(t))
  BY <1>1, CloseFacts
<1> HIDE DEF t
<1>4. f.query = s.query /\ f.queue = s.queue
  BY <1>1 DEF Only, Fields
<1>5. Queued(s) => Queued(f)
  BY <1>4 DEF Queued, is_running
<1>6. Only(s, t, CleanFields \cup {"buffer", "socket", "status"}) /\ t.status = f.status
  BY <1>1, <1>3 DEF Only, Fields, CleanFields
<1>7. QED
  BY <1>1, <1>2, <1>3, <1>5, <1>6

\* On a connection in order the queries that run are in the queue.
LEMMA SoundQueued ==
  ASSUME NEW s \in Connections, Sound(s), ~s.derailed
  PROVE  Queued(s)
<1>1. CASE Closed(s)
  BY <1>1 DEF Closed, NoneRuns, Queued
<1>2. CASE Idle(s)
  BY <1>2 DEF Idle, NoneRuns, Queued
<1>3. CASE Busy(s)
  <2>1. Head(s.queue) = s.queue[1] /\ 1 \in DOMAIN s.queue
    BY <1>3, HeadType DEF Busy
  <2>2. CASE Preparing(s, Head(s.queue))
    BY <2>2 DEF Preparing, NoneRuns, Queued
  <2>3. CASE Executing(s, Head(s.queue))
    <3>1. \A q \in Queries : is_running(s, q) => q = Head(s.queue)
      BY <2>3 DEF Executing
    <3>2. QED
      BY <2>1, <3>1 DEF Queued
  <2>4. QED
    BY <1>3, <2>2, <2>3 DEF Busy
<1>4. QED
  BY <1>1, <1>2, <1>3 DEF Sound, Open

\* Whatever fails, what is left is a closed connection.
LEMMA FailSound ==
  ASSUME NEW s \in Connections, s.derailed \/ Queued(s)
  PROVE  /\ fail(s) \in Connections /\ fail(s).derailed = s.derailed /\ Sound(fail(s))
         /\ ~usable(fail(s)) /\ (Attached(s) => Attached(fail(s)))
<1> DEFINE t == fail(s)
<1>1. /\ t \in Connections /\ Only(s, t, CleanFields \cup {"buffer", "socket", "status"})
      /\ t.socket # "open" /\ (Queued(s) => Closed(t))
  BY FailFacts
<1> HIDE DEF t
<1>2. t.derailed = s.derailed /\ (Attached(s) => Attached(t))
  BY <1>1 DEF Only, Fields, CleanFields, Attached
<1>3. ~usable(t)
  BY <1>1 DEF usable
<1>4. Sound(t)
  BY <1>1, <1>2, <1>3 DEF Sound
<1>5. QED
  BY <1>1, <1>2, <1>3, <1>4 DEF t

-----------------------------------------------------------------------------
(* Flushing *)

\* The socket takes the buffer or does not.
LEMMA SendFacts ==
  ASSUME NEW s \in Connections, NEW f \in flush_data(s)
  PROVE  /\ f \in Connections /\ Only(s, f, {"sent", "buffer", "backpressure"})
         /\ \/ f = s /\ (s.backpressure \/ s.buffer = <<>>)
            \/ /\ ~s.backpressure /\ s.buffer # <<>>
               /\ f.sent = s.sent \o s.buffer /\ f.buffer = <<>> /\ ~f.backpressure
            \/ /\ ~s.backpressure /\ s.buffer # <<>>
               /\ f.sent = s.sent /\ f.buffer = s.buffer /\ f.backpressure
<1> DEFINE b == s.sent \o s.buffer
           u == [s EXCEPT !.sent = b, !.buffer = <<>>]
           v == [s EXCEPT !.backpressure = TRUE]
<1>1. \/ f = s /\ (s.backpressure \/ s.buffer = <<>>)
      \/ ~s.backpressure /\ s.buffer # <<>> /\ (f = u \/ f = v)
  BY DEF flush_data, Connections
<1>2. b \in Seq(Command) /\ <<>> \in Seq(Command)
  BY FieldTypes
<1> HIDE DEF b
<1>3. /\ u \in Connections /\ Only(s, u, {"sent", "buffer", "backpressure"})
      /\ u.sent = b /\ u.buffer = <<>> /\ u.backpressure = s.backpressure
  BY <1>2 DEF Connections, Only, Fields
<1>4. /\ v \in Connections /\ Only(s, v, {"sent", "buffer", "backpressure"})
      /\ v.sent = s.sent /\ v.buffer = s.buffer /\ v.backpressure = TRUE
  BY DEF Connections, Only, Fields
<1> HIDE DEF u, v
<1>5. CASE f = s /\ (s.backpressure \/ s.buffer = <<>>)
  BY <1>5 DEF Only
<1>6. CASE ~s.backpressure /\ s.buffer # <<>> /\ f = u
  BY <1>3, <1>6 DEF b
<1>7. CASE ~s.backpressure /\ s.buffer # <<>> /\ f = v
  BY <1>4, <1>7
<1>8. QED
  BY <1>1, <1>5, <1>6, <1>7

FlushFields == AdvanceFields \cup {"sent", "backpressure"}

\* flush_queue(): flush_data(), advance() and flush_data() again, until the socket is
\* full.
LEMMA FlushCases ==
  ASSUME NEW s \in Connections, NEW t \in flush_queue(s)
  PROVE  \E f \in flush_data(s) : IF f.backpressure THEN t = f ELSE t \in flush_data(advance(f))
<1>1. PICK f \in flush_data(s) : t \in (IF f.backpressure THEN {f} ELSE flush_data(advance(f)))
  BY DEF flush_queue
<1>2. QED
  BY <1>1

\* What flush_queue() leaves alone.
LEMMA FlushFrame ==
  ASSUME NEW s \in Connections, NEW t \in flush_queue(s)
  PROVE  /\ t \in Connections /\ Only(s, t, FlushFields)
         /\ (s.derailed => t.derailed) /\ (Attached(s) => Attached(t))
<1>1. PICK f \in flush_data(s) : IF f.backpressure THEN t = f ELSE t \in flush_data(advance(f))
  BY FlushCases
<1>2. f \in Connections /\ Only(s, f, {"sent", "buffer", "backpressure"})
  BY SendFacts
<1>3. f.derailed = s.derailed /\ (Attached(s) => Attached(f))
  BY <1>2 DEF Only, Fields, Attached
<1>4. Only(s, f, FlushFields)
  BY <1>2 DEF Only, FlushFields, AdvanceFields
<1>5. CASE t = f
  BY <1>2, <1>3, <1>4, <1>5
<1>6. CASE t \in flush_data(advance(f))
  <2> DEFINE a == advance(f)
  <2>1. a \in Connections /\ Only(f, a, AdvanceFields) /\ (f.derailed => a.derailed)
        /\ (Attached(f) => Attached(a))
    BY <1>2, AdvanceFrame
  <2> HIDE DEF a
  <2>2. t \in Connections /\ Only(a, t, {"sent", "buffer", "backpressure"})
    BY <1>6, <2>1, SendFacts DEF a
  <2>3. t.derailed = a.derailed /\ (Attached(a) => Attached(t))
    BY <2>2 DEF Only, Fields, Attached
  <2>4. Only(s, t, FlushFields)
    BY <1>4, <2>1, <2>2 DEF Only, FlushFields, AdvanceFields
  <2>5. QED
    BY <1>3, <2>1, <2>2, <2>3, <2>4
<1>7. QED
  BY <1>1, <1>5, <1>6

\* The socket took the buffer, or there is pressure.
Flushed(t) ==
  /\ t.backpressure \/ t.buffer = <<>>
  /\ t.backpressure => t.buffer # <<>>

\* The command that is written is still the one whose answer is awaited.
LEMMA BusySends ==
  ASSUME NEW s \in Connections, BusyHead(s), ~s.backpressure, NEW f \in flush_data(s)
  PROVE  BusyHead(f) /\ Flushed(f)
<1> DEFINE h == Head(s.queue)
<1>1. /\ f \in Connections /\ Only(s, f, {"sent", "buffer", "backpressure"})
      /\ \/ f = s /\ (s.backpressure \/ s.buffer = <<>>)
         \/ /\ ~s.backpressure /\ s.buffer # <<>>
            /\ f.sent = s.sent \o s.buffer /\ f.buffer = <<>> /\ ~f.backpressure
         \/ /\ ~s.backpressure /\ s.buffer # <<>>
            /\ f.sent = s.sent /\ f.buffer = s.buffer /\ f.backpressure
  BY SendFacts
<1>2. Flushed(f)
  BY <1>1 DEF Flushed
<1>3. /\ f.ready = s.ready /\ f.inbound = s.inbound /\ f.queue = s.queue
      /\ f.pipelined = s.pipelined /\ f.nonpipelinable = s.nonpipelinable
      /\ f.query = s.query /\ f.attached = s.attached /\ f.statement = s.statement
  BY <1>1 DEF Only, Fields
<1>4. Preparing(s, h) => PrepareOut(f, h)
  <2> SUFFICES ASSUME Preparing(s, h) PROVE PrepareOut(f, h)
    OBVIOUS
  <2>1. PrepareOut(s, h)
    BY DEF Preparing
  <2>2. CASE f.sent = s.sent /\ f.buffer = s.buffer
    BY <1>3, <2>1, <2>2 DEF PrepareOut
  <2>3. CASE s.buffer # <<>> /\ f.sent = s.sent \o s.buffer /\ f.buffer = <<>>
    <3>1. s.buffer = <<[q |-> h, kind |-> "prepare"]>> /\ s.sent = <<>> /\ s.inbound = <<>>
      BY <2>1, <2>3 DEF PrepareOut
    <3>2. f.sent = <<[q |-> h, kind |-> "prepare"]>>
      BY <2>3, <3>1
    <3>3. QED
      BY <1>3, <2>3, <3>1, <3>2 DEF PrepareOut
  <2>4. QED
    BY <1>1, <2>2, <2>3
<1>5. Executing(s, h) => ExecuteOut(f, h)
  <2> SUFFICES ASSUME Executing(s, h) PROVE ExecuteOut(f, h)
    OBVIOUS
  <2>1. ExecuteOut(s, h)
    BY DEF Executing
  <2>2. CASE f.sent = s.sent /\ f.buffer = s.buffer
    BY <1>3, <2>1, <2>2 DEF ExecuteOut
  <2>3. CASE s.buffer # <<>> /\ f.sent = s.sent \o s.buffer /\ f.buffer = <<>>
    <3> DEFINE c == [q |-> h, kind |-> IF h \in Simple THEN "query" ELSE "execute"]
    <3>1. s.buffer = <<c>> /\ s.sent = <<>> /\ s.inbound = <<>>
      BY <2>1, <2>3 DEF ExecuteOut
    <3>2. f.sent = <<c>>
      BY <2>3, <3>1
    <3>3. Parts(f.inbound, h)
      BY <1>3, <3>1 DEF Parts
    <3>4. QED
      BY <2>3, <3>2, <3>3 DEF ExecuteOut
  <2>4. QED
    BY <1>1, <2>2, <2>3
<1>6. /\ Preparing(s, h) => Preparing(f, h)
      /\ Executing(s, h) => Executing(f, h)
  BY <1>3, <1>4, <1>5 DEF Preparing, Executing, Counts, NoneRuns, NoneParses, is_running
<1>7. BusyHead(f)
  BY <1>3, <1>6 DEF BusyHead, Busy, NoneNew, Attached, is_completed
<1>8. QED
  BY <1>2, <1>7

\* flush_queue() while an answer is awaited.
LEMMA FlushBusy ==
  ASSUME NEW s \in Connections, BusyHead(s), ~s.backpressure, NEW t \in flush_queue(s)
  PROVE  BusyHead(t) /\ Flushed(t)
<1>1. PICK f \in flush_data(s) : IF f.backpressure THEN t = f ELSE t \in flush_data(advance(f))
  BY FlushCases
<1>2. f \in Connections /\ BusyHead(f) /\ Flushed(f)
  BY BusySends, SendFacts
<1>3. CASE f.backpressure
  BY <1>1, <1>2, <1>3
<1>4. CASE ~f.backpressure
  <2> DEFINE a == advance(f)
  <2>1. a \in Connections /\ Only(f, a, AdvanceFields) /\ BusyHead(a)
    BY <1>2, AdvanceFrame, AdvanceBusy DEF Awaits
  <2>2. ~a.backpressure
    BY <1>4, <2>1 DEF Only, Fields, AdvanceFields
  <2>3. QED
    BY <1>1, <1>4, <2>1, <2>2, BusySends
<1>5. QED
  BY <1>3, <1>4

\* flush_queue() on an idle connection.
LEMMA FlushReady ==
  ASSUME NEW s \in Connections, Ready(s), s.status = "connected", NEW t \in flush_queue(s)
  PROVE  \/ t.derailed
         \/ BusyHead(t) /\ Flushed(t)
         \/ Ready(t) /\ Skips(t)
<1>1. PICK f \in flush_data(s) : IF f.backpressure THEN t = f ELSE t \in flush_data(advance(f))
  BY FlushCases
<1>2. s.buffer = <<>> /\ ~s.backpressure
  BY DEF Ready, Idle
<1>3. f = s
  BY <1>2, SendFacts
<1> DEFINE a == advance(s)
<1>4. a \in Connections /\ Only(s, a, AdvanceFields)
  BY AdvanceFrame
<1>5. a.derailed \/ BusyHead(a) \/ (Ready(a) /\ Skips(a))
  BY AdvanceIdle
<1>6. ~a.backpressure
  BY <1>2, <1>4 DEF Only, Fields, AdvanceFields
<1>7. t \in flush_data(a)
  BY <1>1, <1>2, <1>3
<1> HIDE DEF a
<1>8. CASE a.derailed
  <2>1. Only(a, t, {"sent", "buffer", "backpressure"})
    BY <1>4, <1>7, SendFacts
  <2>2. t.derailed = a.derailed
    BY <2>1 DEF Only, Fields
  <2>3. QED
    BY <1>8, <2>2
<1>9. CASE BusyHead(a)
  BY <1>4, <1>6, <1>7, <1>9, BusySends
<1>10. CASE Ready(a) /\ Skips(a)
  <2>1. a.buffer = <<>>
    BY <1>10 DEF Ready, Idle
  <2>2. t = a
    BY <1>4, <1>7, <2>1, SendFacts
  <2>3. QED
    BY <1>10, <2>2
<1>11. QED
  BY <1>5, <1>8, <1>9, <1>10

\* advance() does nothing with an empty queue.
LEMMA AdvanceEmpty ==
  ASSUME NEW s \in Connections, s.queue = <<>>
  PROVE  advance(s) = s
<1>1. At(s, 0) \in Turns /\ At(s, 0).s = s
  BY DEF Turns, At
<1>2. Iterate(advance_turn, At(s, 0), 0) = At(s, 0)
  BY <1>1, AdvanceTurns
<1>3. Iterate(drop_turn, s, 0) = s
  BY DropTurns
<1>4. Len(s.queue) = 0
  OBVIOUS
<1>5. QED
  BY <1>1, <1>2, <1>3, <1>4 DEF advance

\* There is nothing to flush on a connection that has been cleaned.
LEMMA FlushEmpty ==
  ASSUME NEW s \in Connections, s.queue = <<>>, s.buffer = <<>>, NEW t \in flush_queue(s)
  PROVE  t = s
<1>1. PICK f \in flush_data(s) : IF f.backpressure THEN t = f ELSE t \in flush_data(advance(f))
  BY FlushCases
<1>2. f = s
  BY SendFacts
<1>3. advance(s) = s
  BY AdvanceEmpty
<1>4. QED
  BY <1>1, <1>2, <1>3, SendFacts

-----------------------------------------------------------------------------
(* The actions *)

FlushDue(s) ==
  ~s.derailed /\ usable(s) /\ can_flush(s) => s.registered \/ s.on_data # "out"

Inv(s) == s \in Connections /\ Attached(s) /\ Sound(s) /\ FlushDue(s)

\* The invariant, of any connection.
LEMMA InvIsMySQLInv == MySQLInv <=> Inv(m)
BY DEF MySQLInv, Inv, MySQLTypeOK, FlushIsDue, FlushDue

\* While an answer is awaited, only data in the buffer makes a flush worth its while.
LEMMA BusyFlushes ==
  ASSUME NEW s \in Connections, Busy(s), can_flush(s)
  PROVE  s.buffer # <<>>
<1> SUFFICES ASSUME s.buffer = <<>> PROVE FALSE
  OBVIOUS
<1> DEFINE h == Head(s.queue)
<1>1. s.query[h] = "pending" /\ ~is_being_prepared(s, h) /\ h \in Queries
  BY HeadType DEF can_flush, Busy
<1>2. CASE Preparing(s, h)
  <2>1. h \notin Simple /\ h \in s.attached
    BY <1>2 DEF Preparing
  <2>2. Signature[h] \in Statements
    BY <1>1, <2>1, SignatureType
  <2>3. s.statement[Signature[h]] = "parsing"
    BY <1>2, <2>2 DEF Preparing
  <2>4. QED
    BY <1>1, <2>1, <2>3 DEF is_being_prepared
<1>3. CASE Executing(s, h)
  BY <1>1, <1>3 DEF Executing
<1>4. QED
  BY <1>2, <1>3 DEF Busy

\* A command that has not been sent is that of a head that is not completed.
LEMMA BufferedHead ==
  ASSUME NEW s \in Connections, Open(s), s.buffer # <<>>
  PROVE  BusyHead(s)
<1>1. Busy(s) /\ NoneNew(s) /\ Attached(s)
  BY DEF Open, Idle
<1>2. ~is_completed(s, Head(s.queue))
  BY <1>1 DEF Busy, Preparing, Executing, ExecuteOut, is_completed
<1>3. QED
  BY <1>1, <1>2 DEF BusyHead

\* What follows a flush that was not asked for by a registered flusher.
LEMMA FlushedOpen ==
  ASSUME NEW t \in Connections, ~t.registered,
         t.derailed \/ (BusyHead(t) /\ Flushed(t)) \/ (Ready(t) /\ Skips(t))
  PROVE  t.derailed \/ Open(t)
<1>1. CASE BusyHead(t) /\ Flushed(t)
  BY <1>1 DEF BusyHead, Flushed, Open, Flusher
<1>2. CASE Ready(t) /\ Skips(t)
  BY <1>2 DEF Ready, Idle, Open, Flusher
<1>3. QED
  BY <1>1, <1>2

\* A new connection.
LEMMA InitInv == MySQLInit => MySQLInv
<1> SUFFICES ASSUME MySQLInit PROVE Inv(m)
  BY InvIsMySQLInv
<1>1. 0 \in 0 .. U32 - 1
  BY ModuloSmall
<1>2. m \in Connections
  BY <1>1 DEF MySQLInit, Connections
<1>3. /\ m.queue = <<>> /\ m.buffer = <<>> /\ m.sent = <<>> /\ m.inbound = <<>>
      /\ m.pipelined = 0 /\ m.nonpipelinable = 0 /\ m.attached = {} /\ m.ready = TRUE
      /\ m.waiting = FALSE /\ m.backpressure = FALSE /\ m.registered = FALSE
      /\ \A q \in Queries : m.query[q] = "new"
      /\ \A t \in Statements : m.statement[t] = "none"
      /\ m.status = "connected" /\ m.socket = "open"
  BY DEF MySQLInit
<1>4. Idle(m) /\ Skips(m)
  BY <1>3 DEF Idle, Skips, Counts, NoneRuns, NoneParses, is_running
<1>5. NoneNew(m) /\ Attached(m) /\ Flusher(m)
  BY <1>3 DEF NoneNew, Attached, Flusher
<1>6. Sound(m)
  BY <1>3, <1>4, <1>5 DEF Sound, Open, usable
<1>7. ~can_flush(m)
  BY <1>3 DEF can_flush
<1>8. QED
  BY <1>2, <1>5, <1>6, <1>7 DEF Inv, FlushDue

\* close()
LEMMA CloseInv ==
  ASSUME Inv(m), DoClose
  PROVE  Inv(m')
<1> DEFINE t == clean_queue_and_close(m)
<1>1. m \in Connections /\ Attached(m) /\ Sound(m) /\ m' = t
  BY DEF Inv, DoClose
<1>2. /\ t \in Connections /\ Only(m, t, CleanFields \cup {"buffer", "socket"})
      /\ t.socket # "open" /\ (Queued(m) => Closed(t))
  BY <1>1, CloseFacts
<1> HIDE DEF t
<1>3. t.derailed = m.derailed /\ Attached(t)
  BY <1>1, <1>2 DEF Only, Fields, CleanFields, Attached
<1>4. ~usable(t)
  BY <1>2 DEF usable
<1>5. ~m.derailed => Closed(t)
  BY <1>1, <1>2, SoundQueued
<1>6. Inv(t)
  BY <1>2, <1>3, <1>4, <1>5 DEF Inv, Sound, FlushDue
<1>7. QED
  BY <1>1, <1>6

\* A timer fires.
LEMMA TimeoutInv ==
  ASSUME Inv(m), on_timeout
  PROVE  Inv(m')
<1>1. m \in Connections /\ Attached(m) /\ Sound(m) /\ m' = fail(m)
  BY DEF Inv, on_timeout
<1>2. m.derailed \/ Queued(m)
  BY <1>1, SoundQueued
<1>3. fail(m) \in Connections /\ Sound(fail(m)) /\ ~usable(fail(m)) /\ Attached(fail(m))
  BY <1>1, <1>2, FailSound
<1>4. QED
  BY <1>1, <1>3 DEF Inv, FlushDue

\* Closing the socket changes nothing else.
LEMMA SocketFacts ==
  ASSUME NEW s \in Connections
  PROVE  LET t == [s EXCEPT !.socket = "closed"]
         IN  t \in Connections /\ Only(s, t, {"socket"}) /\ t.socket = "closed"
BY DEF Connections, Only, Fields

\* The socket is reported closed.
LEMMA OnCloseInv ==
  ASSUME Inv(m), on_close
  PROVE  Inv(m')
<1> DEFINE f == fail(m)
           t == [f EXCEPT !.socket = "closed"]
<1>1. m \in Connections /\ Attached(m) /\ Sound(m) /\ m' = t
  BY DEF Inv, on_close
<1>2. m.derailed \/ Queued(m)
  BY <1>1, SoundQueued
<1>3. f \in Connections /\ Sound(f) /\ ~usable(f) /\ Attached(f)
  BY <1>1, <1>2, FailSound
<1> HIDE DEF f
<1>4. t \in Connections /\ Only(f, t, {"socket"}) /\ t.socket = "closed"
  BY <1>3, SocketFacts
<1> HIDE DEF t
<1>5. /\ t.derailed = f.derailed /\ t.queue = f.queue /\ t.buffer = f.buffer /\ t.query = f.query
      /\ t.pipelined = f.pipelined /\ t.nonpipelinable = f.nonpipelinable
  BY <1>4 DEF Only, Fields
<1>6. ~usable(t)
  BY <1>4 DEF usable
<1>7. Sound(t)
  BY <1>3, <1>5, <1>6 DEF Sound, Closed, Counts, NoneRuns, is_running
<1>8. Attached(t)
  BY <1>3, <1>4 DEF Only, Fields, Attached
<1>9. QED
  BY <1>1, <1>4, <1>6, <1>7, <1>8 DEF Inv, FlushDue

\* What the parts of the invariant do not look at.
OtherFields == {"registered", "on_data", "promise", "socket", "status", "parts", "badRow", "muted"}

\* What has no say in whether an answer is awaited.
LEMMA BusyFrame ==
  ASSUME NEW s \in Connections, NEW t \in Connections,
         Only(s, t, OtherFields \cup {"waiting", "backpressure", "skipped", "derailed"})
  PROVE  /\ Busy(s) => Busy(t)
         /\ BusyHead(s) => BusyHead(t)
         /\ NoneNew(s) => NoneNew(t)
         /\ Attached(s) => Attached(t)
         /\ Closed(s) => Closed(t)
         /\ \A h : Preparing(s, h) => Preparing(t, h)
         /\ \A h : Executing(s, h) => Executing(t, h)
<1>1. /\ t.ready = s.ready /\ t.buffer = s.buffer /\ t.sent = s.sent /\ t.inbound = s.inbound
      /\ t.pipelined = s.pipelined /\ t.nonpipelinable = s.nonpipelinable
      /\ t.query = s.query /\ t.attached = s.attached /\ t.statement = s.statement
      /\ t.queue = s.queue
  BY DEF Only, Fields, OtherFields
<1>2. \A h : Preparing(s, h) => Preparing(t, h)
  BY <1>1 DEF Preparing, PrepareOut, Counts, NoneRuns, is_running
<1>3. \A h : Executing(s, h) => Executing(t, h)
  BY <1>1 DEF Executing, ExecuteOut, Counts, NoneParses, is_running
<1>4. Busy(s) => Busy(t)
  BY <1>1, <1>2, <1>3 DEF Busy
<1>5. NoneNew(s) => NoneNew(t)
  BY <1>1 DEF NoneNew
<1>6. Attached(s) => Attached(t)
  BY <1>1 DEF Attached
<1>7. Closed(s) => Closed(t)
  BY <1>1 DEF Closed, Counts, NoneRuns, is_running
<1>8. is_completed(t, Head(t.queue)) <=> is_completed(s, Head(s.queue))
  BY <1>1 DEF is_completed
<1>9. BusyHead(s) => BusyHead(t)
  BY <1>4, <1>5, <1>6, <1>8 DEF BusyHead
<1>10. QED
  BY <1>2, <1>3, <1>4, <1>5, <1>6, <1>7, <1>9

\* What has no say in whether an open connection is in order.
LEMMA OpenFrame ==
  ASSUME NEW s \in Connections, NEW t \in Connections, Only(s, t, OtherFields)
  PROVE  /\ Idle(s) => Idle(t)
         /\ Skips(s) => Skips(t)
         /\ Open(s) /\ Flusher(t) => Open(t)
<1>1. /\ t.ready = s.ready /\ t.buffer = s.buffer /\ t.sent = s.sent /\ t.inbound = s.inbound
      /\ t.pipelined = s.pipelined /\ t.nonpipelinable = s.nonpipelinable
      /\ t.query = s.query /\ t.statement = s.statement /\ t.waiting = s.waiting
      /\ t.backpressure = s.backpressure /\ t.queue = s.queue /\ t.skipped = s.skipped
  BY DEF Only, Fields, OtherFields
<1>2. Idle(s) => Idle(t)
  BY <1>1 DEF Idle, Counts, NoneRuns, NoneParses, is_running
<1>3. Skips(s) => Skips(t)
  BY <1>1 DEF Skips, is_completed
<1>4. Only(s, t, OtherFields \cup {"waiting", "backpressure", "skipped", "derailed"})
  BY DEF Only
<1>5. (Busy(s) => Busy(t)) /\ (NoneNew(s) => NoneNew(t)) /\ (Attached(s) => Attached(t))
  BY <1>4, BusyFrame
<1>6. QED
  BY <1>2, <1>3, <1>5 DEF Open

\* Where on_data() is has no say in whether the connection is in order.
LEMMA OnDataSound ==
  ASSUME NEW s \in Connections, NEW t \in Connections, Sound(s), Only(s, t, {"on_data", "promise"})
  PROVE  Sound(t)
<1>1. /\ t.buffer = s.buffer /\ t.backpressure = s.backpressure /\ t.registered = s.registered
      /\ t.ready = s.ready /\ t.status = s.status /\ t.socket = s.socket /\ t.derailed = s.derailed
  BY DEF Only, Fields
<1>2. /\ Only(s, t, OtherFields)
      /\ Only(s, t, OtherFields \cup {"waiting", "backpressure", "skipped", "derailed"})
  BY DEF Only, OtherFields
<1>3. Open(s) => Open(t)
  BY <1>1, <1>2, OpenFrame DEF Open, Flusher
<1>4. Closed(s) => Closed(t)
  BY <1>2, BusyFrame
<1>5. QED
  BY <1>1, <1>3, <1>4 DEF Sound, usable

\* Moving on in on_data() changes nothing else.
LEMMA OnDataFacts ==
  ASSUME NEW s \in Connections, NEW v \in {"out", "packets", "microtasks"}
  PROVE  LET t == [s EXCEPT !.on_data = v]
         IN  t \in Connections /\ Only(s, t, {"on_data"}) /\ t.on_data = v
BY DEF Connections, Only, Fields

\* on_data() drains the microtasks.
LEMMA DrainInv ==
  ASSUME Inv(m), OnDataDrain
  PROVE  Inv(m')
<1> DEFINE t == [m EXCEPT !.on_data = "microtasks"]
<1>1. m \in Connections /\ Attached(m) /\ Sound(m) /\ m' = t
  BY DEF Inv, OnDataDrain
<1>2. t \in Connections /\ Only(m, t, {"on_data"}) /\ t.on_data = "microtasks"
  BY <1>1, OnDataFacts
<1> HIDE DEF t
<1>3. Sound(t)
  BY <1>1, <1>2, OnDataSound DEF Only
<1>4. Attached(t)
  BY <1>1, <1>2 DEF Only, Fields, Attached
<1>5. QED
  BY <1>1, <1>2, <1>3, <1>4 DEF Inv, FlushDue

\* Registering the flusher keeps what Sound() says of it.
LEMMA RegisterSound ==
  ASSUME NEW s \in Connections, Attached(s), Sound(s)
  PROVE  LET t == register_auto_flusher(s) IN Inv(t) /\ t.derailed = s.derailed
<1> DEFINE t == register_auto_flusher(s)
<1>1. /\ t \in Connections /\ Only(s, t, {"registered"})
      /\ t.registered = (s.registered \/ can_flush(s))
  BY RegisterFacts
<1> HIDE DEF t
<1>2. /\ t.buffer = s.buffer /\ t.backpressure = s.backpressure /\ t.ready = s.ready
      /\ t.status = s.status /\ t.socket = s.socket /\ t.derailed = s.derailed
      /\ t.queue = s.queue /\ t.query = s.query /\ t.attached = s.attached /\ t.statement = s.statement
  BY <1>1 DEF Only, Fields
<1>3. /\ Only(s, t, OtherFields)
      /\ Only(s, t, OtherFields \cup {"waiting", "backpressure", "skipped", "derailed"})
  BY <1>1 DEF Only, OtherFields
<1>7. Open(s) => Flusher(t)
  <2> SUFFICES ASSUME Open(s) PROVE Flusher(t)
    OBVIOUS
  <2>1. can_flush(s) => ~s.backpressure /\ (s.buffer # <<>> \/ s.ready)
    <3>1. CASE Busy(s)
      BY <3>1, BusyFlushes DEF can_flush
    <3>2. CASE Idle(s)
      BY <3>2 DEF Idle
    <3>3. QED
      BY <3>1, <3>2 DEF Open
  <2>2. s.registered => ~s.backpressure /\ (s.buffer # <<>> \/ s.ready)
    BY DEF Open, Flusher
  <2>3. s.backpressure => s.buffer # <<>>
    BY DEF Open, Flusher
  <2>4. QED
    BY <1>1, <1>2, <2>1, <2>2, <2>3 DEF Flusher
<1>8. Open(s) => Open(t)
  BY <1>1, <1>3, <1>7, OpenFrame
<1>9. Closed(s) => Closed(t)
  BY <1>1, <1>3, BusyFrame
<1>10. Sound(t)
  BY <1>2, <1>8, <1>9 DEF Sound, usable
<1>11. can_flush(t) => can_flush(s)
  BY <1>2 DEF can_flush, is_being_prepared
<1>12. can_flush(t) => t.registered
  BY <1>1, <1>11
<1>13. Attached(t)
  BY <1>2 DEF Attached
<1>14. QED
  BY <1>1, <1>2, <1>10, <1>12, <1>13 DEF Inv, FlushDue, t

\* on_data() ends, with the flusher registered if there is something to write.
LEMMA DataEndInv ==
  ASSUME Inv(m), OnDataEnd
  PROVE  Inv(m')
<1> DEFINE s == [m EXCEPT !.on_data = "out"]
<1>1. m \in Connections /\ Attached(m) /\ Sound(m) /\ m' = register_auto_flusher(s)
  BY DEF Inv, OnDataEnd
<1>2. s \in Connections /\ Only(m, s, {"on_data"})
  BY <1>1, OnDataFacts
<1> HIDE DEF s
<1>3. Sound(s)
  BY <1>1, <1>2, OnDataSound DEF Only
<1>4. Attached(s)
  BY <1>1, <1>2 DEF Only, Fields, Attached
<1>5. QED
  BY <1>1, <1>2, <1>3, <1>4, RegisterSound

\* Setting the backpressure flag changes nothing else.
LEMMA PressureFacts ==
  ASSUME NEW s \in Connections, NEW b \in BOOLEAN
  PROVE  LET t == [s EXCEPT !.backpressure = b]
         IN  t \in Connections /\ Only(s, t, {"backpressure"}) /\ t.backpressure = b
BY DEF Connections, Only, Fields

\* Setting the flag of the flusher changes nothing else.
LEMMA FlagFacts ==
  ASSUME NEW s \in Connections, NEW b \in BOOLEAN
  PROVE  LET t == [s EXCEPT !.registered = b]
         IN  t \in Connections /\ Only(s, t, {"registered"}) /\ t.registered = b
BY DEF Connections, Only, Fields

\* The deferred task stays registered when there is more to write.
LEMMA AutoFlushInv ==
  ASSUME Inv(m), on_auto_flush
  PROVE  Inv(m')
<1>1. m \in Connections /\ Attached(m) /\ Sound(m) /\ m.registered /\ m' \in auto_flush(m)
  BY DEF Inv, on_auto_flush
<1>2. CASE m.backpressure
  <2> DEFINE t == [m EXCEPT !.registered = FALSE]
  <2>1. m' = t
    BY <1>1, <1>2 DEF auto_flush
  <2>2. t \in Connections /\ Only(m, t, {"registered"})
    BY <1>1, FlagFacts
  <2> HIDE DEF t
  <2>3. /\ t.derailed = m.derailed /\ t.status = m.status /\ t.socket = m.socket
        /\ t.backpressure = m.backpressure /\ Attached(t)
    BY <1>1, <2>2 DEF Only, Fields, Attached
  <2>4. ~can_flush(t)
    BY <1>2, <2>3 DEF can_flush
  <2>5. ~m.derailed => ~usable(m)
    BY <1>1, <1>2 DEF Sound, Open, Flusher
  <2>6. Only(m, t, OtherFields \cup {"waiting", "backpressure", "skipped", "derailed"})
    BY <2>2 DEF Only, OtherFields
  <2>7. Closed(m) => Closed(t)
    BY <1>1, <2>2, <2>6, BusyFrame
  <2>8. Sound(t)
    BY <1>1, <2>3, <2>5, <2>7 DEF Sound, usable
  <2>9. QED
    BY <2>1, <2>2, <2>3, <2>4, <2>8 DEF Inv, FlushDue
<1>3. CASE ~m.backpressure
  <2>1. PICK f \in flush_queue(m) : m' = [f EXCEPT !.registered = can_flush(f)]
    BY <1>1, <1>3 DEF auto_flush
  <2> DEFINE t == [f EXCEPT !.registered = can_flush(f)]
  <2>2. f \in Connections /\ Only(m, f, FlushFields) /\ (m.derailed => f.derailed) /\ Attached(f)
    BY <1>1, FlushFrame
  <2>3. can_flush(f) \in BOOLEAN
    BY DEF can_flush
  <2>4. t \in Connections /\ Only(f, t, {"registered"}) /\ t.registered = can_flush(f)
    BY <2>2, <2>3, FlagFacts
  <2> HIDE DEF t
  <2>5. /\ t.derailed = f.derailed /\ t.queue = f.queue /\ t.query = f.query
        /\ t.attached = f.attached /\ t.statement = f.statement /\ t.status = f.status
        /\ t.buffer = f.buffer /\ t.backpressure = f.backpressure /\ t.ready = f.ready
        /\ t.socket = f.socket /\ Attached(t)
    BY <2>2, <2>4 DEF Only, Fields, Attached
  <2>6. f.status = m.status /\ f.socket = m.socket
    BY <2>2 DEF Only, Fields, FlushFields, AdvanceFields
  <2>7. can_flush(t) <=> can_flush(f)
    BY <2>5 DEF can_flush, is_being_prepared
  <2>8. FlushDue(t)
    BY <2>4, <2>7 DEF FlushDue
  <2>9. /\ Only(f, t, OtherFields)
        /\ Only(f, t, OtherFields \cup {"waiting", "backpressure", "skipped", "derailed"})
    BY <2>4 DEF Only, OtherFields
  <2>10. CASE m.derailed
    BY <2>1, <2>2, <2>4, <2>5, <2>8, <2>10 DEF Inv, Sound, t
  <2>11. CASE ~m.derailed /\ ~usable(m)
    <3>1. Closed(m)
      BY <1>1, <2>11 DEF Sound
    <3>2. f = m
      BY <1>1, <3>1, FlushEmpty DEF Closed
    <3>3. Closed(t)
      BY <2>2, <2>4, <2>9, <3>1, <3>2, BusyFrame
    <3>4. Sound(t)
      BY <2>5, <2>6, <2>11, <3>3 DEF Sound, usable
    <3>5. QED
      BY <2>1, <2>4, <2>5, <2>8, <3>4 DEF Inv, t
  <2>12. CASE ~m.derailed /\ usable(m)
    <3>1. Open(m) /\ m.status = "connected"
      BY <1>1, <2>12 DEF Sound, usable
    <3>2. m.buffer # <<>> \/ m.ready
      BY <1>1, <3>1 DEF Open, Flusher
    <3>3. \/ f.derailed
          \/ BusyHead(f) /\ Flushed(f)
          \/ Ready(f) /\ Skips(f)
      <4>1. CASE m.buffer # <<>>
        BY <1>1, <1>3, <3>1, <4>1, BufferedHead, FlushBusy
      <4>2. CASE m.ready
        <5>1. Ready(m)
          BY <3>1, <4>2 DEF Open, Busy, Ready
        <5>2. QED
          BY <1>1, <3>1, <5>1, FlushReady
      <4>3. QED
        BY <3>2, <4>1, <4>2
    <3>4. CASE f.derailed
      BY <2>1, <2>4, <2>5, <2>8, <3>4 DEF Inv, Sound, t
    <3>5. CASE BusyHead(f) /\ Flushed(f)
      <4>1. Busy(f) /\ BusyHead(t)
        BY <2>2, <2>4, <2>9, <3>5, BusyFrame DEF BusyHead
      <4>2. can_flush(f) => ~f.backpressure /\ f.buffer # <<>>
        BY <2>2, <4>1, BusyFlushes DEF can_flush
      <4>3. Flusher(t)
        BY <2>4, <2>5, <3>5, <4>2 DEF Flusher, Flushed
      <4>4. Open(t)
        BY <4>1, <4>3 DEF Open, BusyHead
      <4>5. Sound(t)
        BY <2>5, <2>6, <2>12, <4>4 DEF Sound, usable
      <4>6. QED
        BY <2>1, <2>4, <2>5, <2>8, <4>5 DEF Inv, t
    <3>6. CASE Ready(f) /\ Skips(f)
      <4>1. Idle(t) /\ Skips(t) /\ NoneNew(t) /\ Attached(t)
        BY <2>2, <2>4, <2>9, <3>6, BusyFrame, OpenFrame DEF Ready
      <4>2. Flusher(t)
        BY <4>1 DEF Flusher, Idle
      <4>3. Open(t)
        BY <4>1, <4>2 DEF Open
      <4>4. Sound(t)
        BY <2>5, <2>6, <2>12, <4>3 DEF Sound, usable
      <4>5. QED
        BY <2>1, <2>4, <2>5, <2>8, <4>4 DEF Inv, t
    <3>7. QED
      BY <3>3, <3>4, <3>5, <3>6
  <2>13. QED
    BY <2>10, <2>11, <2>12
<1>4. QED
  BY <1>2, <1>3

\* The socket can be written again: the head's command is what waited.
LEMMA WritableInv ==
  ASSUME Inv(m), on_writable
  PROVE  Inv(m')
<1> DEFINE s == [m EXCEPT !.backpressure = FALSE]
           t == m'
<1>1. m \in Connections /\ Attached(m) /\ Sound(m) /\ m.backpressure /\ t \in flush_queue(s)
  BY DEF Inv, on_writable
<1>2. s \in Connections /\ Only(m, s, {"backpressure"}) /\ s.backpressure = FALSE
  BY <1>1, PressureFacts
<1> HIDE DEF s
<1>0. Attached(s)
  BY <1>1, <1>2 DEF Only, Fields, Attached
<1>3. t \in Connections /\ Only(s, t, FlushFields) /\ (s.derailed => t.derailed) /\ Attached(t)
  BY <1>0, <1>1, <1>2, FlushFrame
<1> HIDE DEF t
<1>4. /\ s.derailed = m.derailed /\ s.status = m.status /\ s.socket = m.socket
      /\ s.queue = m.queue /\ s.buffer = m.buffer /\ s.registered = m.registered
  BY <1>2 DEF Only, Fields
<1>5. t.status = s.status /\ t.socket = s.socket /\ t.registered = s.registered
  BY <1>3 DEF Only, Fields, FlushFields, AdvanceFields
<1>6. Only(m, s, OtherFields \cup {"waiting", "backpressure", "skipped", "derailed"})
  BY <1>2 DEF Only, OtherFields
<1>7. CASE m.derailed
  BY <1>3, <1>4, <1>7 DEF Inv, Sound, FlushDue, t
<1>8. CASE ~m.derailed /\ ~usable(m)
  <2>1. Closed(m)
    BY <1>1, <1>8 DEF Sound
  <2>2. Closed(s)
    BY <1>1, <1>2, <1>6, <2>1, BusyFrame
  <2>3. t = s
    BY <1>1, <1>2, <2>2, FlushEmpty DEF Closed
  <2>4. ~usable(t)
    BY <1>4, <1>5, <1>8 DEF usable
  <2>5. QED
    BY <1>3, <2>2, <2>3, <2>4 DEF Inv, Sound, FlushDue, t
<1>9. CASE ~m.derailed /\ usable(m)
  <2>1. Open(m)
    BY <1>1, <1>9 DEF Sound
  <2>2. m.buffer # <<>> /\ ~m.registered
    BY <1>1, <2>1 DEF Open, Flusher
  <2>3. BusyHead(s)
    BY <1>1, <1>2, <1>6, <2>1, <2>2, BufferedHead, BusyFrame
  <2>4. BusyHead(t) /\ Flushed(t)
    BY <1>1, <1>2, <2>3, FlushBusy
  <2>5. t.derailed \/ Open(t)
    BY <1>3, <1>4, <1>5, <2>2, <2>4, FlushedOpen
  <2>6. usable(t)
    BY <1>4, <1>5, <1>9 DEF usable
  <2>7. ~can_flush(t)
    BY <1>3, <2>4, BusyFlushes DEF BusyHead, Flushed, can_flush
  <2>8. QED
    BY <1>3, <2>5, <2>6, <2>7 DEF Inv, Sound, FlushDue, t
<1>10. QED
  BY <1>7, <1>8, <1>9

-----------------------------------------------------------------------------
(* The server *)

ServerFields == {"inbound", "sent", "parts", "badRow"}

\* An answer of the server that is for the head.
LEMMA AnswerInv ==
  ASSUME Inv(m), m.sent # <<>>, NEW t \in Connections, Only(m, t, ServerFields),
         \A h \in Queries : Preparing(m, h) => PrepareOut(t, h),
         \A h \in Queries : Executing(m, h) => ExecuteOut(t, h)
  PROVE  Inv(t)
<1>1. m \in Connections /\ Attached(m) /\ Sound(m) /\ FlushDue(m)
  BY DEF Inv
<1>2. /\ t.ready = m.ready /\ t.queue = m.queue /\ t.pipelined = m.pipelined
      /\ t.nonpipelinable = m.nonpipelinable /\ t.query = m.query /\ t.attached = m.attached
      /\ t.statement = m.statement /\ t.buffer = m.buffer /\ t.backpressure = m.backpressure
      /\ t.registered = m.registered /\ t.on_data = m.on_data
      /\ t.status = m.status /\ t.socket = m.socket /\ t.derailed = m.derailed
  BY DEF Only, Fields, ServerFields
<1>3. FlushDue(t)
  BY <1>1, <1>2 DEF FlushDue, usable, can_flush, is_being_prepared
<1>4. Closed(m) => Closed(t)
  BY <1>2 DEF Closed, Counts, NoneRuns, is_running
<1>5. Open(m) => Open(t)
  <2> SUFFICES ASSUME Open(m) PROVE Open(t)
    OBVIOUS
  <2> DEFINE h == Head(m.queue)
  <2>1. Busy(m) /\ NoneNew(m) /\ Attached(m) /\ Flusher(m)
    BY DEF Open, Idle
  <2>2. m.queue # <<>> /\ h \in Queries /\ ~m.ready
    BY <1>1, <2>1, HeadType DEF Busy
  <2>3. Preparing(m, h) => Preparing(t, h)
    BY <1>2, <2>2 DEF Preparing, Counts, NoneRuns, is_running
  <2>4. Executing(m, h) => Executing(t, h)
    BY <1>2, <2>2 DEF Executing, Counts, NoneParses, is_running
  <2>5. Busy(t)
    BY <1>2, <2>1, <2>2, <2>3, <2>4 DEF Busy
  <2>6. NoneNew(t) /\ Attached(t) /\ Flusher(t)
    BY <1>2, <2>1 DEF NoneNew, Attached, Flusher
  <2>7. QED
    BY <2>5, <2>6 DEF Open
<1>6. Sound(t)
  BY <1>1, <1>2, <1>4, <1>5 DEF Sound, usable
<1>7. Attached(t)
  BY <1>1, <1>2 DEF Attached
<1>8. QED
  BY <1>3, <1>6, <1>7 DEF Inv

\* The packet that the server adds.
LEMMA SentHead ==
  ASSUME NEW s \in Connections, s.sent # <<>>, NEW kind \in {"prepared", "err", "bad_row", "more", "ok"}
  PROVE  /\ Append(s.inbound, [q |-> Head(s.sent).q, kind |-> kind]) \in Seq(Packet)
         /\ [q |-> Head(s.sent).q, kind |-> kind] \in Packet
         /\ Tail(s.sent) \in Seq(Command) /\ s.sent \in Seq(Command)
<1>1. Head(s.sent) \in Command /\ Tail(s.sent) \in Seq(Command) /\ s.sent \in Seq(Command)
  BY FieldTypes
<1>2. [q |-> Head(s.sent).q, kind |-> kind] \in Packet
  BY <1>1 DEF Command, Packet
<1>3. s.inbound \in Seq(Packet)
  BY FieldTypes
<1>4. QED
  BY <1>1, <1>2, <1>3

\* The server has one command, and it is of the head.
LEMMA OneSent ==
  ASSUME NEW s \in Connections, NEW h \in Queries, s.sent # <<>>
  PROVE  /\ Preparing(s, h) =>
              /\ Head(s.sent) = [q |-> h, kind |-> "prepare"] /\ Tail(s.sent) = <<>>
              /\ s.buffer = <<>> /\ s.inbound = <<>>
         /\ Executing(s, h) =>
              /\ s.sent = <<[q |-> h, kind |-> IF h \in Simple THEN "query" ELSE "execute"]>>
              /\ Head(s.sent).q = h /\ Head(s.sent).kind # "prepare" /\ Tail(s.sent) = <<>>
              /\ s.buffer = <<>> /\ Parts(s.inbound, h)
<1>1. ASSUME NEW c PROVE Head(<<c>>) = c /\ Tail(<<c>>) = <<>>
  OBVIOUS
<1>2. ASSUME Preparing(s, h)
      PROVE  /\ Head(s.sent) = [q |-> h, kind |-> "prepare"] /\ Tail(s.sent) = <<>>
             /\ s.buffer = <<>> /\ s.inbound = <<>>
  BY <1>1, <1>2 DEF Preparing, PrepareOut
<1>3. ASSUME Executing(s, h)
      PROVE  /\ s.sent = <<[q |-> h, kind |-> IF h \in Simple THEN "query" ELSE "execute"]>>
             /\ Head(s.sent).q = h /\ Head(s.sent).kind # "prepare" /\ Tail(s.sent) = <<>>
             /\ s.buffer = <<>> /\ Parts(s.inbound, h)
  <2> DEFINE c == [q |-> h, kind |-> IF h \in Simple THEN "query" ELSE "execute"]
  <2>1. s.sent = <<c>> /\ s.buffer = <<>> /\ Parts(s.inbound, h)
    BY <1>3 DEF Executing, ExecuteOut
  <2>2. Head(s.sent) = c /\ Tail(s.sent) = <<>>
    BY <1>1, <2>1
  <2>3. c.q = h /\ c.kind # "prepare"
    OBVIOUS
  <2>4. QED
    BY <2>1, <2>2, <2>3
<1>4. QED
  BY <1>2, <1>3

\* The server has prepared a statement, or refuses it.
LEMMA AnswerPrepareInv ==
  ASSUME Inv(m), AnswerPrepare
  PROVE  Inv(m')
<1>1. m \in Connections /\ m.sent # <<>> /\ Head(m.sent).kind = "prepare"
  BY DEF Inv, AnswerPrepare
<1>2. PICK kind \in {"prepared", "err"} : m' = [m EXCEPT !.inbound = Answer(kind), !.sent = Tail(@)]
  BY DEF AnswerPrepare
<1> DEFINE p == [q |-> Head(m.sent).q, kind |-> kind]
           i == Append(m.inbound, p)
           t == [m EXCEPT !.inbound = i, !.sent = Tail(m.sent),
                          !.parts = m.parts, !.badRow = m.badRow]
<1>3. i \in Seq(Packet) /\ Tail(m.sent) \in Seq(Command)
  BY <1>1, SentHead
<1>4. m' = t
  BY <1>1, <1>2 DEF Answer, Connections
<1>5. m.parts \in Nat /\ m.badRow \in BOOLEAN
  BY <1>1, FieldTypes
<1> HIDE DEF i
<1>6. t \in Connections /\ Only(m, t, ServerFields) /\ t.inbound = i /\ t.sent = Tail(m.sent)
  BY <1>1, <1>3, <1>5 DEF Connections, Only, Fields, ServerFields
<1> HIDE DEF t
<1>7. t.buffer = m.buffer
  BY <1>6 DEF Only, Fields, ServerFields
<1>8. ASSUME NEW h \in Queries, Preparing(m, h) PROVE PrepareOut(t, h)
  <2>1. /\ Head(m.sent) = [q |-> h, kind |-> "prepare"] /\ t.sent = <<>>
        /\ m.buffer = <<>> /\ m.inbound = <<>>
    BY <1>1, <1>6, <1>8, OneSent
  <2>2. p = [q |-> h, kind |-> kind]
    BY <2>1 DEF p
  <2>3. t.inbound = <<[q |-> h, kind |-> kind]>>
    BY <1>6, <2>1, <2>2 DEF i
  <2>4. QED
    BY <1>7, <2>1, <2>3 DEF PrepareOut
<1>9. ASSUME NEW h \in Queries, Executing(m, h) PROVE ExecuteOut(t, h)
  BY <1>1, <1>9, OneSent
<1>10. QED
  BY <1>1, <1>4, <1>6, <1>8, <1>9, AnswerInv

\* What Append() returns.
LEMMA AppendFacts ==
  ASSUME NEW S, NEW f \in Seq(S), NEW e \in S
  PROVE  /\ Len(f) \in Nat /\ DOMAIN f = 1 .. Len(f)
         /\ Append(f, e) \in Seq(S) /\ Append(f, e) # <<>>
         /\ Len(Append(f, e)) = Len(f) + 1 /\ DOMAIN Append(f, e) = 1 .. Len(f) + 1
         /\ \A i \in 1 .. Len(f) : Append(f, e)[i] = f[i]
         /\ Append(f, e)[Len(f) + 1] = e
OBVIOUS

\* The server is at a command that is not a prepare: what it answers is for the head.
LEMMA AnswerExecuteInv ==
  ASSUME Inv(m), m.sent # <<>>, Head(m.sent).kind # "prepare",
         NEW kind \in {"err", "bad_row", "more", "ok"}, NEW parts \in Nat, NEW bad \in BOOLEAN,
         NEW sent, sent = IF kind \in {"ok", "err"} THEN Tail(m.sent) ELSE m.sent,
         m' = [m EXCEPT !.inbound = Answer(kind), !.sent = sent, !.parts = parts, !.badRow = bad]
  PROVE  Inv(m')
<1> DEFINE p == [q |-> Head(m.sent).q, kind |-> kind]
           i == Append(m.inbound, p)
           t == [m EXCEPT !.inbound = i, !.sent = sent, !.parts = parts, !.badRow = bad]
<1>1. m \in Connections /\ m' = t
  BY DEF Inv, Answer
<1>2. i \in Seq(Packet) /\ sent \in Seq(Command) /\ m.inbound \in Seq(Packet)
  BY <1>1, SentHead, FieldTypes
<1>3. p \in Packet
  BY <1>1, SentHead
<1>4. /\ i # <<>> /\ Len(m.inbound) \in Nat /\ Len(i) = Len(m.inbound) + 1
      /\ DOMAIN m.inbound = 1 .. Len(m.inbound) /\ DOMAIN i = 1 .. Len(m.inbound) + 1
      /\ \A j \in 1 .. Len(m.inbound) : i[j] = m.inbound[j]
      /\ i[Len(m.inbound) + 1] = p
  BY <1>2, <1>3, AppendFacts
<1>5. p.q = Head(m.sent).q /\ p.kind = kind
  OBVIOUS
<1> HIDE DEF i, p
<1>6. t \in Connections /\ Only(m, t, ServerFields) /\ t.inbound = i /\ t.sent = sent
  BY <1>1, <1>2 DEF Connections, Only, Fields, ServerFields
<1> HIDE DEF t
<1>7. t.buffer = m.buffer
  BY <1>6 DEF Only, Fields, ServerFields
<1>8. ASSUME NEW h \in Queries, Preparing(m, h) PROVE PrepareOut(t, h)
  <2>1. Head(m.sent) = [q |-> h, kind |-> "prepare"]
    BY <1>1, <1>8, OneSent
  <2>2. QED
    BY <2>1
<1>9. ASSUME NEW h \in Queries, Executing(m, h) PROVE ExecuteOut(t, h)
  <2>1. /\ m.sent = <<[q |-> h, kind |-> IF h \in Simple THEN "query" ELSE "execute"]>>
        /\ Head(m.sent).q = h /\ Tail(m.sent) = <<>> /\ m.buffer = <<>> /\ Parts(m.inbound, h)
    BY <1>1, <1>9, OneSent
  <2>2. \A j \in 1 .. Len(m.inbound) : i[j].q = h /\ i[j].kind \in {"bad_row", "more"}
    BY <1>4, <2>1 DEF Parts
  <2>3. \A j \in DOMAIN i : j \in 1 .. Len(m.inbound) \/ j = Len(m.inbound) + 1
    BY <1>4
  <2>4. CASE kind \in {"ok", "err"}
    <3>1. \A j \in 1 .. Len(m.inbound) : j # Len(i)
      BY <1>4
    <3>2. Whole(i, h)
      BY <1>4, <1>5, <2>1, <2>2, <2>3, <2>4, <3>1 DEF Whole
    <3>3. QED
      BY <1>6, <1>7, <2>1, <2>4, <3>2 DEF ExecuteOut
  <2>5. CASE kind \in {"bad_row", "more"}
    <3>1. Parts(i, h)
      BY <1>4, <1>5, <2>1, <2>2, <2>3, <2>5 DEF Parts
    <3>2. QED
      BY <1>6, <1>7, <2>1, <2>5, <3>1 DEF ExecuteOut
  <2>6. QED
    BY <2>4, <2>5
<1>10. QED
  BY <1>1, <1>6, <1>8, <1>9, AnswerInv

\* The server sends a row that the client cannot decode.
LEMMA AnswerRowInv ==
  ASSUME Inv(m), AnswerRow
  PROVE  Inv(m')
<1>1. m \in Connections /\ m.sent # <<>> /\ Head(m.sent).kind # "prepare"
  BY DEF Inv, AnswerRow
<1>2. m.parts \in Nat
  BY <1>1, FieldTypes
<1>3. m' = [m EXCEPT !.inbound = Answer("bad_row"), !.sent = m.sent, !.parts = m.parts, !.badRow = TRUE]
  BY <1>1 DEF AnswerRow, Connections
<1>4. QED
  BY <1>1, <1>2, <1>3, AnswerExecuteInv

\* The server ends a result set that is not the last.
LEMMA AnswerMoreInv ==
  ASSUME Inv(m), AnswerMore
  PROVE  Inv(m')
<1>1. m \in Connections /\ m.sent # <<>> /\ Head(m.sent).kind # "prepare"
  BY DEF Inv, AnswerMore
<1>2. m.parts + 1 \in Nat
  BY <1>1, FieldTypes
<1>3. m' = [m EXCEPT !.inbound = Answer("more"), !.sent = m.sent, !.parts = m.parts + 1, !.badRow = FALSE]
  BY <1>1 DEF AnswerMore, Connections
<1>4. QED
  BY <1>1, <1>2, <1>3, AnswerExecuteInv

\* The server ends its answer.
LEMMA AnswerLastInv ==
  ASSUME Inv(m), AnswerLast
  PROVE  Inv(m')
<1>1. m \in Connections /\ m.sent # <<>> /\ Head(m.sent).kind # "prepare"
  BY DEF Inv, AnswerLast
<1>2. PICK kind \in {"ok", "err"} :
        m' = [m EXCEPT !.inbound = Answer(kind), !.sent = Tail(@), !.parts = 0, !.badRow = FALSE]
  BY DEF AnswerLast
<1>3. m' = [m EXCEPT !.inbound = Answer(kind), !.sent = Tail(m.sent), !.parts = 0, !.badRow = FALSE]
  BY <1>1, <1>2 DEF Connections
<1>4. QED
  BY <1>1, <1>3, AnswerExecuteInv

-----------------------------------------------------------------------------
(* do_run() *)

Added(r, w, q, d) ==
  /\ w \in Connections /\ Only(account(r, q), w, {"queue", "derailed"})
  /\ w.queue = Append(r.queue, q) /\ w.derailed = (r.derailed \/ d)

\* What add() changes.
LEMMA AddFacts ==
  ASSUME NEW r \in Connections, NEW q \in Queries, NEW d \in BOOLEAN
  PROVE  Added(r, [add(r, q) EXCEPT !.derailed = @ \/ d], q, d)
<1> DEFINE a == account(r, q)
           f == Append(a.queue, q)
           b == (a.derailed \/ d)
           w == [a EXCEPT !.queue = f, !.derailed = b]
<1>1. a \in Connections
  BY AccountFacts
<1>2. a.queue = r.queue /\ a.derailed = r.derailed
  BY AccountFacts DEF AccountPrepares, AccountRuns, Only, Fields
<1>3. [add(r, q) EXCEPT !.derailed = @ \/ d] = w
  BY <1>1 DEF add, Connections
<1> HIDE DEF a
<1>4. f \in Seq(Queries) /\ b \in BOOLEAN
  BY <1>1, FieldTypes
<1> HIDE DEF f, b
<1>5. w \in Connections /\ Only(a, w, {"queue", "derailed"}) /\ w.queue = f /\ w.derailed = b
  BY <1>1, <1>4 DEF Connections, Only, Fields
<1> HIDE DEF w
<1>6. f = Append(r.queue, q) /\ b = (r.derailed \/ d)
  BY <1>2 DEF f, b
<1>7. QED
  BY <1>3, <1>5, <1>6 DEF a, Added

Asked(s0, s, q) ==
  /\ s \in Connections /\ Only(s0, s, {"query"}) /\ s0.query[q] = "new"
  /\ s.query = [s0.query EXCEPT ![q] = "pending"]

\* The query is new, so it is not in the queue.
LEMMA PendingFacts ==
  ASSUME NEW s0 \in Connections, NEW q \in Queries, NEW s \in Connections, Asked(s0, s, q)
  PROVE  /\ Only(s0, s, {"query"}) /\ s.query[q] = "pending"
         /\ \A p \in Queries : p # q => s.query[p] = s0.query[p]
         /\ NoneNew(s0) => NoneNew(s) /\ \A i \in DOMAIN s0.queue : s0.queue[i] # q
         /\ Attached(s0) => Attached(s)
         /\ Idle(s0) => Idle(s)
<1>1. /\ Only(s0, s, {"query"}) /\ s.query = [s0.query EXCEPT ![q] = "pending"]
      /\ s0.query[q] = "new"
  BY DEF Asked
<1>2. \A p \in Queries : s.query[p] = IF p = q THEN "pending" ELSE s0.query[p]
  BY <1>1, FieldTypes
<1>3. /\ s.ready = s0.ready /\ s.buffer = s0.buffer /\ s.sent = s0.sent /\ s.inbound = s0.inbound
      /\ s.pipelined = s0.pipelined /\ s.nonpipelinable = s0.nonpipelinable
      /\ s.attached = s0.attached /\ s.statement = s0.statement /\ s.waiting = s0.waiting
      /\ s.backpressure = s0.backpressure /\ s.queue = s0.queue
  BY <1>1 DEF Only, Fields
<1>4. NoneNew(s0) => NoneNew(s)
  <2>1. \A p \in Queries : s.query[p] = s0.query[p] \/ s.query[p] \in {"pending", "fail"}
    BY <1>2
  <2>2. QED
    BY <1>3, <2>1, NoneNewBeside
<1>5. NoneNew(s0) => \A i \in DOMAIN s0.queue : s0.queue[i] # q
  BY <1>1 DEF NoneNew
<1>6. Attached(s0) => Attached(s)
  BY <1>3 DEF Attached
<1>7. Idle(s0) => Idle(s)
  BY <1>2, <1>3 DEF Idle, Counts, NoneRuns, NoneParses, is_running
<1>8. QED
  BY <1>1, <1>2, <1>4, <1>5, <1>6, <1>7

\* A query that is run while an answer is awaited joins the queue or fails.
LEMMA BusyDoRun ==
  ASSUME NEW s0 \in Connections, NEW q \in Queries, Open(s0), Busy(s0),
         NEW s \in Connections, Asked(s0, s, q),
         NEW r, r = run(s, q)
  PROVE  /\ r \in Connections /\ Only(s0, r, {"attached", "statement", "query"})
         /\ Beside(s0, r, Head(s0.queue)) /\ NoneNew(r) /\ Attached(r)
         /\ r.query[q] \in {"pending", "fail"} /\ r.buffer = s.buffer
<1> DEFINE h == Head(s0.queue)
<1>1. /\ Only(s0, s, {"query"}) /\ s.query[q] = "pending"
      /\ \A p \in Queries : p # q => s.query[p] = s0.query[p]
      /\ NoneNew(s) /\ Attached(s) /\ \A i \in DOMAIN s0.queue : s0.queue[i] # q
  BY PendingFacts DEF Open
<1>2. h \in Queries /\ h # q /\ ~s0.ready
  BY <1>1, HeadType DEF Busy
<1>3. s.ready = s0.ready /\ s.attached = s0.attached /\ s.statement = s0.statement
      /\ s.queue = s0.queue
  BY <1>1 DEF Only, Fields
<1>4. r \in Connections /\ (RunStays(s, r) \/ RunFails(s, r, q)) /\ Attached(r)
  BY <1>1, <1>2, <1>3, RunBusy, GrowsAttached
<1>5. /\ Grows(s, r) /\ Only(s, r, {"attached", "statement", "query"})
      /\ \A p \in Queries : p # q => r.query[p] = s.query[p]
      /\ r.query[q] \in {"pending", "fail"}
  <2>1. CASE RunStays(s, r)
    <3>1. r.query = s.query
      BY <2>1 DEF RunStays, Only, Fields
    <3>2. Only(s, r, {"attached", "statement", "query"})
      BY <2>1 DEF RunStays, Only
    <3>3. QED
      BY <1>1, <2>1, <3>1, <3>2 DEF RunStays
  <2>2. CASE RunFails(s, r, q)
    <3>1. r.query = [s.query EXCEPT ![q] = "fail"] /\ s.query \in [Queries -> QueryStates]
      BY <1>1, <2>2, FieldTypes DEF RunFails
    <3>2. QED
      BY <2>2, <3>1 DEF RunFails
  <2>3. QED
    BY <1>4, <2>1, <2>2
<1>6. r.queue = s.queue /\ r.buffer = s.buffer
  BY <1>5 DEF Only, Fields
<1>7. Only(s0, r, {"attached", "statement", "query"})
  BY <1>1, <1>5 DEF Only
<1>8. Beside(s0, r, h)
  <2>1. s0.query[q] = "new" /\ Grows(s0, r)
    BY <1>3, <1>5 DEF Asked, Grows
  <2>2. QED
    BY <1>1, <1>2, <1>5, <2>1 DEF Beside
<1>9. NoneNew(r)
  <2>1. \A p \in Queries : r.query[p] = s.query[p] \/ r.query[p] \in {"pending", "fail"}
    BY <1>5
  <2>2. QED
    BY <1>1, <1>4, <1>6, <2>1, NoneNewBeside
<1>10. QED
  BY <1>4, <1>5, <1>6, <1>7, <1>8, <1>9

\* No query in the queue is new.
LEMMA NoneNewAppend ==
  ASSUME NEW r \in Connections, NEW w \in Connections, NEW q \in Queries, NoneNew(r),
         w.queue = Append(r.queue, q), w.query = r.query, r.query[q] # "new"
  PROVE  NoneNew(w)
<1>1. r.queue \in Seq(Queries)
  BY FieldTypes
<1>2. /\ Len(r.queue) \in Nat /\ DOMAIN r.queue = 1 .. Len(r.queue)
      /\ DOMAIN w.queue = 1 .. Len(r.queue) + 1
      /\ \A i \in 1 .. Len(r.queue) : w.queue[i] = r.queue[i]
      /\ w.queue[Len(r.queue) + 1] = q
  BY <1>1, AppendFacts
<1>3. \A i \in DOMAIN w.queue : i \in 1 .. Len(r.queue) \/ i = Len(r.queue) + 1
  BY <1>2
<1>4. QED
  BY <1>2, <1>3 DEF NoneNew

\* A query that is run while an answer is awaited queues up behind it.
LEMMA BusyAdds ==
  ASSUME NEW s0 \in Connections, NEW q \in Queries, Open(s0), Busy(s0),
         NEW s \in Connections, Asked(s0, s, q),
         NEW r, r = run(s, q), ~is_completed(r, q), NEW d \in BOOLEAN, NEW w, Added(r, w, q, d)
  PROVE  Open(w)
<1> DEFINE h == Head(s0.queue)
           a == account(r, q)
<1>1. /\ r \in Connections /\ Only(s0, r, {"attached", "statement", "query"})
      /\ Beside(s0, r, h) /\ NoneNew(r) /\ Attached(r)
      /\ r.query[q] \in {"pending", "fail"}
  BY BusyDoRun
<1>2. r.query[q] = "pending" /\ ~is_running(r, q)
  BY <1>1 DEF is_completed, is_running
<1>3. a \in Connections /\ (a = r \/ AccountPrepares(r, a, q))
  BY <1>1, <1>2, AccountFacts DEF AccountRuns
<1>4. r.ready = s0.ready /\ ~s0.ready /\ s0.queue # <<>> /\ s0.ready \in BOOLEAN
      /\ r.queue = s0.queue
  BY <1>1, FieldTypes DEF Only, Fields, Busy
<1>5. w \in Connections /\ Only(a, w, {"queue", "derailed"}) /\ w.queue = Append(r.queue, q)
  BY DEF Added
<1> HIDE DEF a
<1>6. Only(r, a, {"waiting", "ready"}) /\ a.ready = r.ready
  <2>1. CASE a = r
    BY <2>1 DEF Only
  <2>2. CASE AccountPrepares(r, a, q)
    <3>1. ~a.ready /\ a.ready \in BOOLEAN
      BY <1>3, <2>2, FieldTypes DEF AccountPrepares
    <3>2. Only(r, a, {"waiting", "ready"})
      BY <2>2 DEF AccountPrepares, Only
    <3>3. QED
      BY <1>4, <3>1, <3>2
  <2>3. QED
    BY <1>3, <2>1, <2>2
<1>7. Only(r, a, {"waiting"})
  BY <1>6 DEF Only, Fields
<1>8. /\ w.query = r.query /\ w.attached = r.attached /\ w.statement = r.statement
      /\ w.buffer = s0.buffer /\ w.backpressure = s0.backpressure
      /\ w.registered = s0.registered /\ w.ready = s0.ready
  BY <1>1, <1>5, <1>7 DEF Only, Fields
<1>9. Only(s0, w, BesideFields \cup {"registered", "derailed"})
  BY <1>1, <1>5, <1>7 DEF Only, BesideFields
<1>10. Beside(s0, w, h)
  BY <1>1, <1>8 DEF Beside, Grows
<1>11. w.queue # <<>> /\ Head(w.queue) = h
  <2>1. s0.queue \in Seq(Queries)
    BY FieldTypes
  <2>2. w.queue # <<>> /\ w.queue[1] = s0.queue[1]
    BY <1>4, <1>5, <2>1, AppendFacts
  <2>3. QED
    BY <1>4, <1>5, <2>1, <2>2, HeadType
<1>12. Busy(w)
  BY <1>5, <1>9, <1>10, <1>11, BusyStays
<1>13. NoneNew(w)
  BY <1>1, <1>2, <1>5, <1>8, NoneNewAppend
<1>14. Attached(w) /\ Flusher(w)
  BY <1>1, <1>8 DEF Attached, Flusher, Open
<1>15. QED
  BY <1>5, <1>12, <1>13, <1>14 DEF Open

\* A query that is run on an idle connection is written, and is the head or derails.
LEMMA IdleAdds ==
  ASSUME NEW s0 \in Connections, NEW q \in Queries, Open(s0),
         Idle(s0), Skips(s0), s0.status = "connected",
         NEW s \in Connections, Asked(s0, s, q),
         NEW r, r = run(s, q), ~is_completed(r, q),
         NEW ahead, ahead = {i \in DOMAIN s.queue : ~is_completed(s, s.queue[i])},
         NEW d \in BOOLEAN, s.skipped /\ ahead # {} /\ r.buffer # s.buffer => d,
         NEW w, Added(r, w, q, d)
  PROVE  w.derailed \/ Open(w)
<1> DEFINE a == account(r, q)
<1>1. /\ Only(s0, s, {"query"}) /\ s.query[q] = "pending"
      /\ \A p \in Queries : p # q => s.query[p] = s0.query[p]
      /\ NoneNew(s) /\ Attached(s) /\ Idle(s) /\ \A i \in DOMAIN s0.queue : s0.queue[i] # q
  BY PendingFacts DEF Open
<1>2. /\ s.status = "connected" /\ s.queue = s0.queue /\ s.skipped = s0.skipped
      /\ s.registered = s0.registered /\ s.backpressure = s0.backpressure
  BY <1>1 DEF Only, Fields
<1>3. /\ a \in Connections /\ Only(s, a, StartFields) /\ Starts(a, q)
      /\ r.buffer # s.buffer
      /\ \A p \in Queries : p # q => a.query[p] = s.query[p]
  BY <1>1, <1>2, IdleWrites DEF Ready
<1>4. r \in Connections /\ Only(s, r, RunFields)
  BY <1>1, RunFacts, RunFrame
<1>5. r.queue = s0.queue
  BY <1>2, <1>4 DEF Only, Fields, RunFields
<1>7. /\ w \in Connections /\ Only(a, w, {"queue", "derailed"})
      /\ w.queue = Append(r.queue, q) /\ w.derailed = (r.derailed \/ d)
  BY DEF Added
<1> HIDE DEF a
<1>8. CASE s0.queue = <<>>
  <2>1. w.queue = <<q>> /\ w.queue # <<>> /\ Head(w.queue) = q
    BY <1>5, <1>7, <1>8
  <2>0. w.query = a.query /\ w.buffer = a.buffer /\ w.registered = a.registered
        /\ w.backpressure = a.backpressure
    BY <1>7 DEF Only, Fields
  <2>2. w.query = a.query /\ w.buffer = a.buffer /\ w.registered = s0.registered
        /\ w.backpressure = s0.backpressure
    BY <1>2, <1>3, <2>0 DEF Only, Fields, StartFields
  <2>3. a.query[q] # "new" /\ a.buffer # <<>>
    BY <1>3 DEF Starts
  <2>4. NoneNew(w)
    BY <2>1, <2>2, <2>3 DEF NoneNew
  <2>5. Only(a, w, {"derailed", "queue", "registered"})
    BY <1>7 DEF Only
  <2>6. BusyHead(w)
    BY <1>3, <1>7, <2>1, <2>4, <2>5, StartsBusy
  <2>7. Flusher(w)
    BY <2>2, <2>3 DEF Flusher, Idle
  <2>8. QED
    BY <1>7, <2>6, <2>7 DEF Open, BusyHead
<1>9. CASE s0.queue # <<>>
  <2> DEFINE h == Head(s0.queue)
  <2>1. s0.skipped /\ ~is_completed(s0, h)
    BY <1>9 DEF Skips
  <2>2. h \in Queries /\ h = s0.queue[1] /\ 1 \in DOMAIN s0.queue
    BY <1>9, HeadType
  <2>3. s.query[h] = s0.query[h]
    BY <1>1, <2>2
  <2>4. 1 \in ahead
    BY <1>2, <2>1, <2>2, <2>3 DEF is_completed
  <2>5. d
    BY <1>2, <1>3, <2>1, <2>4
  <2>6. QED
    BY <1>7, <2>5
<1>10. QED
  BY <1>8, <1>9

\* A query that fails at once leaves the connection as it was.
LEMMA IdleDoRunFails ==
  ASSUME NEW s0 \in Connections, NEW q \in Queries, Open(s0),
         Idle(s0), Skips(s0), s0.status = "connected",
         NEW s \in Connections, Asked(s0, s, q),
         NEW r, r = run(s, q), is_completed(r, q)
  PROVE  /\ r \in Connections /\ Only(s0, r, {"attached", "statement", "query"})
         /\ Idle(r) /\ Skips(r) /\ NoneNew(r) /\ Attached(r)
         /\ r.queue # <<>> => r.query[Head(r.queue)] = s0.query[Head(r.queue)]
<1>1. /\ Only(s0, s, {"query"}) /\ s.query[q] = "pending"
      /\ \A p \in Queries : p # q => s.query[p] = s0.query[p]
      /\ NoneNew(s) /\ Attached(s) /\ Idle(s) /\ \A i \in DOMAIN s0.queue : s0.queue[i] # q
  BY PendingFacts DEF Open
<1>2. s.query \in [Queries -> QueryStates]
  BY <1>1, FieldTypes
<1>3. /\ r \in Connections /\ Attached(r)
      /\ RunStays(s, r) \/ RunFails(s, r, q) \/ RunQueries(s, r, q) \/ RunExecutes(s, r, q)
                        \/ RunPrepares(s, r, q)
  BY <1>1, RunFacts, GrowsAttached
<1>4. RunFails(s, r, q)
  <2>1. CASE RunStays(s, r) \/ RunPrepares(s, r, q)
    <3>1. r.query = s.query
      BY <2>1 DEF RunStays, RunPrepares, Only, Fields
    <3>2. QED
      BY <1>1, <3>1 DEF is_completed
  <2>2. CASE RunQueries(s, r, q) \/ RunExecutes(s, r, q)
    <3>1. r.query[q] = "running"
      BY <1>2, <2>2 DEF RunQueries, RunExecutes
    <3>2. QED
      BY <3>1 DEF is_completed
  <2>3. QED
    BY <1>3, <2>1, <2>2
<1>5. /\ Only(s, r, {"attached", "statement", "query"}) /\ Grows(s, r)
      /\ \A p \in Queries : r.query[p] = IF p = q THEN "fail" ELSE s.query[p]
  BY <1>2, <1>4 DEF RunFails
<1>6. /\ r.ready = s.ready /\ r.buffer = s.buffer /\ r.sent = s.sent /\ r.inbound = s.inbound
      /\ r.pipelined = s.pipelined /\ r.nonpipelinable = s.nonpipelinable
      /\ r.waiting = s.waiting /\ r.backpressure = s.backpressure /\ r.queue = s0.queue
      /\ r.skipped = s0.skipped /\ s.queue = s0.queue
  BY <1>1, <1>5 DEF Only, Fields
<1>7. Only(s0, r, {"attached", "statement", "query"})
  BY <1>1, <1>5 DEF Only
<1>8. NoneRuns(r)
  BY <1>1, <1>5 DEF Idle, NoneRuns, is_running
<1>9. NoneParses(r)
  BY <1>1, <1>5 DEF Idle, NoneParses, Grows
<1>10. Idle(r)
  BY <1>1, <1>6, <1>8, <1>9 DEF Idle, Counts
<1>11. NoneNew(r)
  <2>1. \A p \in Queries : r.query[p] = s.query[p] \/ r.query[p] \in {"pending", "fail"}
    BY <1>5
  <2>2. QED
    BY <1>1, <1>3, <1>6, <2>1, NoneNewBeside
<1>12. ASSUME r.queue # <<>> PROVE r.query[Head(r.queue)] = s0.query[Head(r.queue)]
  <2>1. Head(r.queue) \in Queries /\ Head(r.queue) # q
    BY <1>1, <1>6, <1>12, HeadType
  <2>2. QED
    BY <1>1, <1>5, <2>1
<1>13. Skips(r)
  BY <1>6, <1>12 DEF Skips, is_completed
<1>14. QED
  BY <1>3, <1>7, <1>10, <1>11, <1>12, <1>13

\* JavaScript runs a query.
LEMMA DoRunInv ==
  ASSUME Inv(m), NEW q \in Queries, DoRun(q)
  PROVE  Inv(m')
<1> DEFINE s == [m EXCEPT !.query[q] = "pending"]
           r == run(s, q)
           ahead == {i \in DOMAIN s.queue : ~is_completed(s, s.queue[i])}
           d == s.skipped /\ ahead # {} /\ r.buffer # s.buffer
           w == [add(r, q) EXCEPT !.derailed = @ \/ d]
           u == Settle(r, q, "rejected")
<1>1. m \in Connections /\ Attached(m) /\ Sound(m) /\ FlushDue(m) /\ usable(m) /\ m.query[q] = "new"
  BY DEF Inv, DoRun
<1>2. m' = IF is_completed(r, q) THEN u ELSE register_auto_flusher(w)
  BY DEF DoRun, do_run
<1>3. s \in Connections /\ Asked(m, s, q)
  BY <1>1, QueryFacts DEF Asked, QueryStates
<1> HIDE DEF s
<1>4. s.derailed = m.derailed
  BY <1>3 DEF Asked, Only, Fields
<1>5. r \in Connections /\ Only(s, r, RunFields) /\ Attached(r)
  <2>1. Attached(s)
    BY <1>1, <1>3, PendingFacts
  <2>2. QED
    BY <1>3, <2>1, RunFacts, RunFrame, GrowsAttached
<1>6. d \in BOOLEAN
  OBVIOUS
<1>7. r.derailed = m.derailed
  BY <1>4, <1>5 DEF Only, Fields, RunFields
<1>8. Added(r, w, q, d)
  BY <1>5, <1>6, AddFacts
<1>9. u \in Connections /\ Only(r, u, {"promise"})
  BY <1>5, SettleFacts
<1>10. m.status = "connected"
  BY <1>1 DEF usable
<1> HIDE DEF w, u
<1>11. CASE ~is_completed(r, q)
  <2>1. w \in Connections
    BY <1>8 DEF Added
  <2>2. Sound(w)
    <3>1. CASE m.derailed
      <4>1. w.derailed
        BY <1>7, <1>8, <3>1 DEF Added
      <4>2. QED
        BY <4>1 DEF Sound
    <3>2. CASE ~m.derailed
      <4>1. Open(m)
        BY <1>1, <3>2 DEF Sound
      <4>2. w.derailed \/ Open(w)
        <5>1. CASE Busy(m)
          BY <1>1, <1>3, <1>6, <1>8, <1>11, <4>1, <5>1, BusyAdds
        <5>2. CASE Idle(m) /\ Skips(m)
          BY <1>1, <1>3, <1>6, <1>8, <1>10, <1>11, <4>1, <5>2, IdleAdds
        <5>3. QED
          BY <4>1, <5>1, <5>2 DEF Open
      <4>3. w.status = m.status /\ w.socket = m.socket
        <5>1. account(r, q).status = r.status /\ account(r, q).socket = r.socket
          BY <1>5, AccountFacts DEF AccountPrepares, AccountRuns, Only, Fields
        <5>2. w.status = r.status /\ w.socket = r.socket
          BY <1>8, <5>1 DEF Added, Only, Fields
        <5>3. r.status = m.status /\ r.socket = m.socket
          BY <1>3, <1>5 DEF Asked, Only, Fields, RunFields
        <5>4. QED
          BY <5>2, <5>3
      <4>4. usable(w)
        BY <1>1, <4>3 DEF usable
      <4>5. QED
        BY <4>2, <4>4 DEF Sound
    <3>3. QED
      BY <3>1, <3>2
  <2>3. Attached(w)
    <3>1. account(r, q).attached = r.attached /\ account(r, q).statement = r.statement
      BY <1>5, AccountFacts DEF AccountPrepares, AccountRuns, Only, Fields
    <3>2. w.attached = r.attached /\ w.statement = r.statement
      BY <1>8, <3>1 DEF Added, Only, Fields
    <3>3. QED
      BY <1>5, <3>2 DEF Attached
  <2>4. Inv(register_auto_flusher(w))
    BY <2>1, <2>2, <2>3, RegisterSound
  <2>5. QED
    BY <1>2, <1>11, <2>4
<1>12. CASE is_completed(r, q)
  <2>1. m' = u
    BY <1>2, <1>12
  <2>2. u.derailed = m.derailed /\ Attached(u)
    BY <1>5, <1>7, <1>9 DEF Only, Fields, Attached
  <2>3. CASE m.derailed
    BY <1>9, <2>1, <2>2, <2>3 DEF Inv, Sound, FlushDue
  <2>4. CASE ~m.derailed
    <3>1. Open(m)
      BY <1>1, <2>4 DEF Sound
    <3>2. /\ Only(m, r, {"attached", "statement", "query"}) /\ NoneNew(r) /\ Attached(r)
          /\ \/ Busy(r)
             \/ /\ Idle(m) /\ Idle(r) /\ Skips(r)
                /\ r.queue # <<>> => r.query[Head(r.queue)] = m.query[Head(r.queue)]
      <4>1. CASE Busy(m)
        <5>1. /\ Only(m, r, {"attached", "statement", "query"})
              /\ Beside(m, r, Head(m.queue)) /\ NoneNew(r) /\ Attached(r)
          BY <1>1, <1>3, <3>1, <4>1, BusyDoRun
        <5>2. r.queue = m.queue /\ m.queue # <<>>
          BY <4>1, <5>1 DEF Only, Fields, Busy
        <5>3. Only(m, r, BesideFields \cup {"registered", "derailed"})
          BY <5>1 DEF Only, BesideFields
        <5>4. Busy(r)
          BY <1>1, <1>5, <4>1, <5>1, <5>2, <5>3, BusyStays
        <5>5. QED
          BY <5>1, <5>4
      <4>2. CASE Idle(m) /\ Skips(m)
        BY <1>1, <1>3, <1>10, <1>12, <3>1, <4>2, IdleDoRunFails
      <4>3. QED
        BY <3>1, <4>1, <4>2 DEF Open
    <3>3. /\ r.registered = m.registered /\ r.backpressure = m.backpressure /\ r.buffer = m.buffer
          /\ r.ready = m.ready /\ r.status = m.status /\ r.socket = m.socket
          /\ r.on_data = m.on_data /\ r.queue = m.queue
      BY <3>2 DEF Only, Fields
    <3>4. Flusher(r) /\ Open(r)
      <4>1. Flusher(r)
        BY <3>1, <3>3 DEF Open, Flusher
      <4>2. QED
        BY <3>2, <4>1 DEF Open
    <3>5. /\ u.registered = r.registered /\ u.backpressure = r.backpressure /\ u.buffer = r.buffer
          /\ u.ready = r.ready /\ u.status = r.status /\ u.socket = r.socket /\ u.queue = r.queue
          /\ u.query = r.query /\ u.attached = r.attached /\ u.statement = r.statement
          /\ u.on_data = r.on_data
      BY <1>9 DEF Only, Fields
    <3>6. Sound(u)
      <4>1. Sound(r)
        BY <3>4, <3>3, <1>1 DEF Sound, usable
      <4>2. Only(r, u, {"on_data", "promise"})
        BY <1>9 DEF Only
      <4>3. QED
        BY <1>5, <1>9, <4>1, <4>2, OnDataSound
    <3>7. can_flush(u) => can_flush(r)
      BY <3>5 DEF can_flush, is_being_prepared
    <3>8. can_flush(r) => can_flush(m)
      <4> SUFFICES ASSUME can_flush(r) PROVE can_flush(m)
        OBVIOUS
      <4>1. CASE r.buffer # <<>>
        BY <3>3, <4>1 DEF can_flush
      <4>2. CASE r.buffer = <<>>
        <5>1. ~Busy(r)
          BY <1>5, <4>2, BusyFlushes
        <5>2. /\ r.queue # <<>> /\ r.query[Head(r.queue)] = "pending"
              /\ ~m.backpressure /\ m.status = "connected"
          BY <3>3, <4>2 DEF can_flush
        <5>3. Idle(m) /\ m.query[Head(m.queue)] = "pending" /\ m.queue # <<>>
          BY <3>2, <3>3, <5>1, <5>2
        <5>4. Head(m.queue) \in Queries
          BY <1>1, <5>3, HeadType
        <5>5. ~is_being_prepared(m, Head(m.queue))
          BY <5>3, <5>4, SignatureType DEF Idle, NoneParses, is_being_prepared
        <5>6. QED
          BY <5>2, <5>3, <5>5 DEF can_flush
      <4>3. QED
        BY <4>1, <4>2
    <3>9. usable(u) <=> usable(m)
      BY <3>3, <3>5 DEF usable
    <3>10. FlushDue(u)
      BY <1>1, <2>2, <3>3, <3>5, <3>7, <3>8, <3>9 DEF FlushDue
    <3>11. QED
      BY <1>9, <2>1, <2>2, <3>6, <3>10 DEF Inv
  <2>5. QED
    BY <2>3, <2>4
<1>13. QED
  BY <1>11, <1>12

-----------------------------------------------------------------------------
(* The packets *)

\* Setting a statement's state changes nothing else.
LEMMA StatementFacts ==
  ASSUME NEW s \in Connections, NEW x \in Statements, NEW v \in StatementStates
  PROVE  LET t == [s EXCEPT !.statement[x] = v]
         IN  /\ t \in Connections /\ Only(s, t, {"statement"})
             /\ t.statement = [s.statement EXCEPT ![x] = v]
<1> DEFINE f == [s.statement EXCEPT ![x] = v]
<1>1. f \in [Statements -> StatementStates]
  BY FieldTypes
<1>2. [s EXCEPT !.statement[x] = v] = [s EXCEPT !.statement = f]
  BY DEF Connections
<1> HIDE DEF f
<1>3. [s EXCEPT !.statement = f] \in Connections /\ [s EXCEPT !.statement = f].statement = f
      /\ Only(s, [s EXCEPT !.statement = f], {"statement"})
  BY <1>1 DEF Connections, Only, Fields, StatementStates
<1>4. QED
  BY <1>2, <1>3 DEF f

\* What the end of a prepare changes.
LEMMA PreparedFacts ==
  ASSUME NEW s \in Connections, NEW x \in Statements
  PROVE  LET t == [s EXCEPT !.statement[x] = "prepared", !.ready = TRUE, !.waiting = FALSE]
         IN  /\ t \in Connections /\ Only(s, t, {"statement", "ready", "waiting"})
             /\ t.statement = [s.statement EXCEPT ![x] = "prepared"]
             /\ t.ready = TRUE /\ t.waiting = FALSE
<1> DEFINE f == [s.statement EXCEPT ![x] = "prepared"]
           t == [s EXCEPT !.statement = f, !.ready = TRUE, !.waiting = FALSE]
<1>1. f \in [Statements -> StatementStates]
  BY FieldTypes DEF StatementStates
<1>2. [s EXCEPT !.statement[x] = "prepared", !.ready = TRUE, !.waiting = FALSE] = t
  BY DEF Connections
<1> HIDE DEF f
<1>3. t \in Connections /\ t.statement = f /\ t.ready = TRUE /\ t.waiting = FALSE
      /\ Only(s, t, {"statement", "ready", "waiting"})
  BY <1>1 DEF Connections, Only, Fields, StatementStates
<1> HIDE DEF t
<1>4. QED
  BY <1>2, <1>3 DEF f

\* Derailing changes nothing else.
LEMMA DerailFacts ==
  ASSUME NEW s \in Connections, NEW b \in BOOLEAN
  PROVE  LET t == [s EXCEPT !.derailed = @ \/ b]
         IN  t \in Connections /\ Only(s, t, {"derailed"}) /\ t.derailed = (s.derailed \/ b)
<1> DEFINE d == s.derailed \/ b
<1>1. d \in BOOLEAN
  OBVIOUS
<1>2. [s EXCEPT !.derailed = @ \/ b] = [s EXCEPT !.derailed = d]
  BY DEF Connections
<1> HIDE DEF d
<1>3. [s EXCEPT !.derailed = d] \in Connections /\ [s EXCEPT !.derailed = d].derailed = d
      /\ Only(s, [s EXCEPT !.derailed = d], {"derailed"})
  BY <1>1 DEF Connections, Only, Fields
<1>4. QED
  BY <1>2, <1>3 DEF d

\* What the states before a pass are, for the ends of an answer.
EndFields == {"ready", "waiting", "pipelined", "nonpipelinable", "query", "promise", "statement"}

\* The end of an answer that rejects the query.
LEMMA RejectedFacts ==
  ASSUME NEW s \in Connections, NEW q \in Queries
  PROVE  LET f == ready_and_finished(s, q)
             x == reject(f, q)
         IN  /\ x \in Connections /\ Only(s, x, EndFields) /\ x.statement = s.statement
             /\ x.ready /\ ~x.waiting /\ Counts(x, f.pipelined, f.nonpipelinable)
             /\ x.query = IF is_completed(s, q) THEN s.query ELSE [s.query EXCEPT ![q] = "fail"]
<1> DEFINE f == ready_and_finished(s, q)
           x == reject(f, q)
<1>1. /\ f \in Connections /\ Only(s, f, {"ready", "waiting", "pipelined", "nonpipelinable"})
      /\ f.ready /\ ~f.waiting
  BY FinishedFacts
<1> HIDE DEF f
<1>2. /\ x \in Connections /\ Only(f, x, {"query", "promise"})
      /\ x.query = IF is_completed(f, q) THEN f.query ELSE [f.query EXCEPT ![q] = "fail"]
  BY <1>1, RejectFacts
<1> HIDE DEF x
<1>3. f.query = s.query /\ f.statement = s.statement
  BY <1>1 DEF Only, Fields
<1>4. is_completed(f, q) <=> is_completed(s, q)
  BY <1>3 DEF is_completed
<1>5. Only(s, x, EndFields)
  BY <1>1, <1>2 DEF Only, EndFields
<1>6. /\ x.ready = f.ready /\ x.waiting = f.waiting /\ x.statement = f.statement
      /\ x.pipelined = f.pipelined /\ x.nonpipelinable = f.nonpipelinable
  BY <1>2 DEF Only, Fields
<1>7. x.query = IF is_completed(s, q) THEN s.query ELSE [s.query EXCEPT ![q] = "fail"]
  BY <1>2, <1>3, <1>4
<1>8. QED
  BY <1>1, <1>2, <1>3, <1>5, <1>6, <1>7 DEF Counts, f, x

\* The end of an answer that resolves the query.
LEMMA ResolvedFacts ==
  ASSUME NEW s \in Connections, NEW q \in Queries
  PROVE  LET f == ready_and_finished(s, q)
             x == resolve(f, q, TRUE)
         IN  /\ x \in Connections /\ Only(s, x, EndFields) /\ x.statement = s.statement
             /\ x.ready /\ ~x.waiting /\ Counts(x, f.pipelined, f.nonpipelinable)
             /\ x.query = IF is_completed(s, q) THEN s.query ELSE [s.query EXCEPT ![q] = "success"]
<1> DEFINE f == ready_and_finished(s, q)
           x == resolve(f, q, TRUE)
<1>1. /\ f \in Connections /\ Only(s, f, {"ready", "waiting", "pipelined", "nonpipelinable"})
      /\ f.ready /\ ~f.waiting
  BY FinishedFacts
<1> HIDE DEF f
<1>2. /\ x \in Connections /\ Only(f, x, {"query", "promise"})
      /\ x.query = IF is_completed(f, q) THEN f.query ELSE [f.query EXCEPT ![q] = "success"]
  BY <1>1, ResolveFacts
<1> HIDE DEF x
<1>3. f.query = s.query /\ f.statement = s.statement
  BY <1>1 DEF Only, Fields
<1>4. is_completed(f, q) <=> is_completed(s, q)
  BY <1>3 DEF is_completed
<1>5. Only(s, x, EndFields)
  BY <1>1, <1>2 DEF Only, EndFields
<1>6. /\ x.ready = f.ready /\ x.waiting = f.waiting /\ x.statement = f.statement
      /\ x.pipelined = f.pipelined /\ x.nonpipelinable = f.nonpipelinable
  BY <1>2 DEF Only, Fields
<1>7. x.query = IF is_completed(s, q) THEN s.query ELSE [s.query EXCEPT ![q] = "success"]
  BY <1>2, <1>3, <1>4
<1>8. QED
  BY <1>1, <1>2, <1>3, <1>5, <1>6, <1>7 DEF Counts, f, x

\* What holds in every state, derailed or not.
Keeps(s, t) == t \in Connections /\ Attached(t) /\ (s.derailed => t.derailed)

\* fail() keeps the frame of a packet.
LEMMA FailKeeps ==
  ASSUME NEW s \in Connections, Attached(s)
  PROVE  Keeps(s, fail(s))
<1> DEFINE t == fail(s)
<1>1. t \in Connections /\ Only(s, t, CleanFields \cup {"buffer", "socket", "status"})
  BY FailFacts
<1> HIDE DEF t
<1>2. t.derailed = s.derailed /\ t.attached = s.attached /\ t.statement = s.statement
  BY <1>1 DEF Only, Fields, CleanFields
<1>3. QED
  BY <1>1, <1>2 DEF Keeps, Attached, t

\* The state before a pass.
LEMMA FlushKeeps ==
  ASSUME NEW s \in Connections, Attached(s), NEW x \in Connections, Attached(x), s.derailed => x.derailed,
         NEW t \in flush_queue(x)
  PROVE  Keeps(s, t)
BY FlushFrame DEF Keeps

\* advance() keeps it.
LEMMA AdvanceKeeps ==
  ASSUME NEW s \in Connections, NEW x \in Connections, Attached(x), s.derailed => x.derailed
  PROVE  Keeps(s, advance(x))
BY AdvanceFrame DEF Keeps

\* A packet of an answer keeps it.
LEMMA ResultKeeps ==
  ASSUME NEW s \in Connections, Attached(s), NEW q \in Queries, NEW kind,
         NEW t \in handle_result_set(s, q, kind)
  PROVE  Keeps(s, t)
<1> DEFINE f == ready_and_finished(s, q)
           x == reject(f, q)
           y == resolve(f, q, TRUE)
           e == [s EXCEPT !.derailed = @ \/ is_completed(s, q)]
           z == resolve(e, q, FALSE)
           u == mark_current_request_as_finished(s, q)
           v == reject(u, q)
<1>1. \/ t \in flush_queue(x)
      \/ t = v
      \/ t \in flush_queue(y)
      \/ t \in flush_queue(z)
      \/ t = fail(s)
  <2>1. CASE kind = "err"
    BY <2>1 DEF handle_result_set
  <2>2. CASE kind = "bad_row" /\ q \in s.attached
    BY <2>2 DEF handle_result_set
  <2>3. CASE kind \in {"more", "ok"} /\ q \in s.attached
    <3>1. t \in handle_result_set_ok(s, q, kind = "ok")
      BY <2>3 DEF handle_result_set
    <3>2. CASE kind = "ok"
      BY <3>1, <3>2 DEF handle_result_set_ok
    <3>3. CASE kind = "more"
      BY <3>1, <3>3 DEF handle_result_set_ok
    <3>4. QED
      BY <2>3, <3>2, <3>3
  <2>4. CASE kind # "err" /\ ~(kind = "bad_row" /\ q \in s.attached) /\ ~(kind \in {"more", "ok"} /\ q \in s.attached)
    BY <2>4 DEF handle_result_set
  <2>5. QED
    BY <2>1, <2>2, <2>3, <2>4
<1>2. CASE t \in flush_queue(x)
  <2>1. x \in Connections /\ Only(s, x, EndFields) /\ x.statement = s.statement
    BY RejectedFacts
  <2> HIDE DEF x
  <2>2. x.derailed = s.derailed /\ x.attached = s.attached
    BY <2>1 DEF Only, Fields, EndFields
  <2>3. Attached(x)
    BY <2>1, <2>2 DEF Attached
  <2>4. QED
    BY <1>2, <2>1, <2>2, <2>3, FlushKeeps
<1>3. CASE t = v
  <2>1. u \in Connections /\ Only(s, u, {"waiting", "pipelined", "nonpipelinable"})
    BY MarkedFacts
  <2> HIDE DEF u
  <2>2. v \in Connections /\ Only(u, v, {"query", "promise"})
    BY <2>1, RejectFacts
  <2> HIDE DEF v
  <2>3. v.derailed = s.derailed /\ v.attached = s.attached /\ v.statement = s.statement
    BY <2>1, <2>2 DEF Only, Fields
  <2>4. QED
    BY <1>3, <2>2, <2>3 DEF Keeps, Attached
<1>4. CASE t \in flush_queue(y)
  <2>1. y \in Connections /\ Only(s, y, EndFields) /\ y.statement = s.statement
    BY ResolvedFacts
  <2> HIDE DEF y
  <2>2. y.derailed = s.derailed /\ y.attached = s.attached
    BY <2>1 DEF Only, Fields, EndFields
  <2>3. Attached(y)
    BY <2>1, <2>2 DEF Attached
  <2>4. QED
    BY <1>4, <2>1, <2>2, <2>3, FlushKeeps
<1>5. CASE t \in flush_queue(z)
  <2>0. is_completed(s, q) \in BOOLEAN
    BY DEF is_completed
  <2>1. /\ e \in Connections /\ e.derailed = (s.derailed \/ is_completed(s, q))
        /\ Only(s, e, {"derailed"})
    BY <2>0, DerailFacts
  <2> HIDE DEF e
  <2>2. z \in Connections /\ Only(e, z, {"query", "promise"})
    BY <2>1, ResolveFacts
  <2> HIDE DEF z
  <2>3. z.derailed = e.derailed /\ z.attached = s.attached /\ z.statement = s.statement
    BY <2>1, <2>2 DEF Only, Fields
  <2>4. Attached(z)
    BY <2>3 DEF Attached
  <2>5. s.derailed => z.derailed
    BY <2>1, <2>3
  <2>6. QED
    BY <1>5, <2>2, <2>4, <2>5, FlushKeeps
<1>6. CASE t = fail(s)
  BY <1>6, FailKeeps
<1>7. QED
  BY <1>1, <1>2, <1>3, <1>4, <1>5, <1>6

\* The answer to a prepare keeps it.
LEMMA PrepareKeeps ==
  ASSUME NEW s \in Connections, Attached(s), NEW q \in Queries, q \notin Simple, NEW kind,
         NEW t \in handle_prepared_statement(s, q, kind)
  PROVE  Keeps(s, t)
<1> DEFINE x == Signature[q]
           p == [s EXCEPT !.statement[x] = "prepared", !.ready = TRUE, !.waiting = FALSE]
           e == [s EXCEPT !.statement[x] = "failed"]
           r == reject(ready_and_finished(e, q), q)
<1>1. t = advance(p) \/ t = advance(r) \/ t = fail(s)
  BY DEF handle_prepared_statement
<1>2. x \in Statements /\ s.statement \in [Statements -> StatementStates]
      /\ s.attached \subseteq Queries
  BY SignatureType, FieldTypes
<1> HIDE DEF x
<1>3. CASE t = advance(p)
  <2>1. p \in Connections /\ Only(s, p, {"statement", "ready", "waiting"})
        /\ p.statement = [s.statement EXCEPT ![x] = "prepared"]
    BY <1>2, PreparedFacts
  <2> HIDE DEF p
  <2>2. p.derailed = s.derailed /\ p.attached = s.attached
    BY <2>1 DEF Only, Fields
  <2>3. Attached(p)
    BY <1>2, <2>1, <2>2, SignatureType DEF Attached
  <2>4. QED
    BY <1>3, <2>1, <2>2, <2>3, AdvanceKeeps
<1>4. CASE t = advance(r)
  <2>1. e \in Connections /\ Only(s, e, {"statement"})
        /\ e.statement = [s.statement EXCEPT ![x] = "failed"]
    BY <1>2, StatementFacts DEF StatementStates
  <2> HIDE DEF e
  <2>2. r \in Connections /\ Only(e, r, EndFields) /\ r.statement = e.statement
    BY <2>1, RejectedFacts
  <2> HIDE DEF r
  <2>3. r.derailed = s.derailed /\ r.attached = s.attached
    BY <2>1, <2>2 DEF Only, Fields, EndFields
  <2>4. Attached(r)
    BY <1>2, <2>1, <2>2, <2>3, SignatureType DEF Attached
  <2>5. QED
    BY <1>4, <2>2, <2>3, <2>4, AdvanceKeeps
<1>5. CASE t = fail(s)
  BY <1>5, FailKeeps
<1>6. QED
  BY <1>1, <1>3, <1>4, <1>5

\* A statement that a query holds has been made, so handle_command() knows its state.
LEMMA CommandKeeps ==
  ASSUME NEW s \in Connections, Attached(s), NEW kind, NEW t \in handle_command(s, kind)
  PROVE  Keeps(s, t)
<1>1. CASE s.queue = <<>>
  <2>1. t = fail(s)
    BY <1>1 DEF handle_command
  <2>2. QED
    BY <2>1, FailKeeps
<1>2. CASE s.queue # <<>>
  <2> DEFINE q == Head(s.queue)
             x == s.statement[Signature[q]]
  <2>1. q \in Queries
    BY <1>2, HeadType
  <2>2. CASE q \in Simple
    <3>1. t \in handle_result_set(s, q, kind)
      BY <1>2, <2>2 DEF handle_command
    <3>2. QED
      BY <2>1, <3>1, ResultKeeps
  <2>3. CASE q \notin Simple /\ q \notin s.attached
    <3>1. t = s
      BY <1>2, <2>3 DEF handle_command
    <3>2. QED
      BY <3>1 DEF Keeps
  <2>4. CASE q \notin Simple /\ q \in s.attached
    <3>1. x \in StatementStates /\ x # "none"
      BY <2>1, <2>4, SignatureType, FieldTypes DEF Attached
    <3>2. CASE x = "pending"
      <4>1. t = fail(s)
        BY <1>2, <2>4, <3>2 DEF handle_command
      <4>2. QED
        BY <4>1, FailKeeps
    <3>3. CASE x = "parsing"
      <4>1. t \in handle_prepared_statement(s, q, kind)
        BY <1>2, <2>4, <3>3 DEF handle_command
      <4>2. QED
        BY <2>1, <2>4, <4>1, PrepareKeeps
    <3>4. CASE x = "prepared"
      <4>1. t \in handle_result_set(s, q, kind)
        BY <1>2, <2>4, <3>4 DEF handle_command
      <4>2. QED
        BY <2>1, <4>1, ResultKeeps
    <3>5. CASE x = "failed"
      <4>1. t \in handle_result_set(s, q, "err")
        BY <1>2, <2>4, <3>5 DEF handle_command
      <4>2. QED
        BY <2>1, <4>1, ResultKeeps
    <3>6. QED
      BY <3>1, <3>2, <3>3, <3>4, <3>5 DEF StatementStates
  <2>5. QED
    BY <2>2, <2>3, <2>4
<1>3. QED
  BY <1>1, <1>2

\* The head and the tail of a sequence that is not empty.
LEMMA TailFacts ==
  ASSUME NEW S, NEW f \in Seq(S), f # <<>>
  PROVE  /\ Head(f) = f[1] /\ Head(f) \in S /\ Len(f) \in Nat \ {0} /\ DOMAIN f = 1 .. Len(f)
         /\ Tail(f) \in Seq(S) /\ Len(Tail(f)) = Len(f) - 1 /\ DOMAIN Tail(f) = 1 .. Len(f) - 1
         /\ \A i \in 1 .. Len(f) - 1 : Tail(f)[i] = f[i + 1]
         /\ Tail(f) = <<>> <=> Len(f) = 1
<1>1. /\ Head(f) = f[1] /\ Head(f) \in S /\ Len(f) \in Nat \ {0} /\ DOMAIN f = 1 .. Len(f)
      /\ Tail(f) \in Seq(S) /\ Len(Tail(f)) = Len(f) - 1
  OBVIOUS
<1>2. DOMAIN Tail(f) = 1 .. Len(f) - 1
  BY <1>1
<1>3. \A i \in 1 .. Len(f) - 1 : Tail(f)[i] = f[i + 1]
  BY <1>1
<1>4. ASSUME NEW g \in Seq(S) PROVE g = <<>> <=> Len(g) = 0
  OBVIOUS
<1>5. Tail(f) = <<>> <=> Len(Tail(f)) = 0
  BY <1>1, <1>4
<1>6. Len(f) - 1 = 0 <=> Len(f) = 1
  BY <1>1
<1>7. Tail(f) = <<>> <=> Len(f) = 1
  BY <1>1, <1>5, <1>6
<1>8. QED
  BY <1>1, <1>2, <1>3, <1>7

\* The last packet of an answer ends it, the others leave the rest of it to come.
LEMMA PacketFacts ==
  ASSUME NEW s \in Connections, NEW h \in Queries, Executing(s, h), s.inbound # <<>>
  PROVE  LET kind == Head(s.inbound).kind
             rest == Tail(s.inbound)
         IN  /\ s.buffer = <<>> /\ kind \in {"ok", "err", "bad_row", "more"}
             /\ kind \in {"ok", "err"} => s.sent = <<>> /\ rest = <<>>
             /\ kind \in {"bad_row", "more"} =>
                  \/ s.sent = <<[q |-> h, kind |-> IF h \in Simple THEN "query" ELSE "execute"]>>
                     /\ Parts(rest, h)
                  \/ s.sent = <<>> /\ Whole(rest, h)
<1> DEFINE f == s.inbound
           n == Len(f)
           rest == Tail(f)
           kind == Head(f).kind
<1>1. f \in Seq(Packet) /\ f # <<>>
  BY FieldTypes
<1>2. /\ Head(f) = f[1] /\ n \in Nat \ {0} /\ DOMAIN f = 1 .. n
      /\ Len(rest) = n - 1 /\ DOMAIN rest = 1 .. n - 1
      /\ \A i \in 1 .. n - 1 : rest[i] = f[i + 1]
      /\ rest = <<>> <=> n = 1
  BY <1>1, TailFacts
<1>3. 1 \in DOMAIN f /\ \A i \in 1 .. n - 1 : i + 1 \in DOMAIN f
  BY <1>2
<1>4. /\ s.buffer = <<>>
      /\ \/ s.sent = <<[q |-> h, kind |-> IF h \in Simple THEN "query" ELSE "execute"]>> /\ Parts(f, h)
         \/ s.sent = <<>> /\ Whole(f, h)
  BY <1>1 DEF Executing, ExecuteOut
<1> HIDE DEF f, n, rest
<1>5. CASE s.sent = <<[q |-> h, kind |-> IF h \in Simple THEN "query" ELSE "execute"]>> /\ Parts(f, h)
  <2>1. kind \in {"bad_row", "more"}
    BY <1>2, <1>3, <1>5 DEF Parts
  <2>2. Parts(rest, h)
    BY <1>2, <1>3, <1>5 DEF Parts
  <2>3. QED
    BY <1>4, <1>5, <2>1, <2>2 DEF f, rest
<1>6. CASE s.sent = <<>> /\ Whole(f, h)
  <2>1. f[1].kind \in (IF 1 = n THEN {"ok", "err"} ELSE {"bad_row", "more"})
    BY <1>3, <1>6 DEF Whole, n
  <2>2. CASE n = 1
    <3>1. kind \in {"ok", "err"} /\ rest = <<>>
      BY <1>2, <2>1, <2>2
    <3>2. QED
      BY <1>4, <1>6, <3>1 DEF f, rest
  <2>3. CASE n # 1
    <3>1. kind \in {"bad_row", "more"} /\ rest # <<>>
      BY <1>2, <2>1, <2>3
    <3>2. ASSUME NEW i \in DOMAIN rest
          PROVE  /\ rest[i].q = h
                 /\ rest[i].kind \in (IF i = Len(rest) THEN {"ok", "err"} ELSE {"bad_row", "more"})
      <4>1. i \in 1 .. n - 1 /\ i + 1 \in DOMAIN f /\ rest[i] = f[i + 1]
        BY <1>2, <1>3, <3>2
      <4>2. /\ f[i + 1].q = h
            /\ f[i + 1].kind \in (IF i + 1 = n THEN {"ok", "err"} ELSE {"bad_row", "more"})
        BY <1>6, <4>1 DEF Whole, n
      <4>3. i + 1 = n <=> i = Len(rest)
        BY <1>2, <4>1
      <4>4. QED
        BY <4>1, <4>2, <4>3
    <3>3. Whole(rest, h)
      BY <3>1, <3>2 DEF Whole
    <3>4. QED
      BY <1>4, <1>6, <3>1, <3>3 DEF f, rest
  <2>4. QED
    BY <2>2, <2>3
<1>7. QED
  BY <1>4, <1>5, <1>6

\* An answer has ended.
LEMMA EndsReady ==
  ASSUME NEW s \in Connections, NEW h \in Queries, NEW x \in Connections, Only(s, x, EndFields),
         x.ready, ~x.waiting, Counts(x, 0, 0), ~s.backpressure,
         s.buffer = <<>>, s.sent = <<>>, s.inbound = <<>>,
         NoneNew(s), Attached(x), NoneParses(x),
         \A q \in Queries : is_running(s, q) => q = h,
         \A q \in Queries : q # h => x.query[q] = s.query[q],
         x.query[h] \in {"pending", "success", "fail"}
  PROVE  Ready(x)
<1>1. /\ x.buffer = <<>> /\ x.sent = <<>> /\ x.inbound = <<>> /\ x.queue = s.queue
      /\ x.backpressure = s.backpressure
  BY DEF Only, Fields, EndFields
<1>2. NoneRuns(x)
  BY DEF NoneRuns, is_running
<1>3. NoneNew(x)
  <2> SUFFICES ASSUME NEW i \in DOMAIN s.queue PROVE x.query[s.queue[i]] # "new"
    BY <1>1 DEF NoneNew
  <2>1. s.queue[i] \in Queries /\ s.query[s.queue[i]] # "new"
    BY FieldTypes DEF NoneNew
  <2>2. QED
    BY <2>1
<1>4. QED
  BY <1>1, <1>2, <1>3 DEF Ready, Idle

\* An open connection whose flusher is not registered.
LEMMA QuietOpen ==
  ASSUME NEW t \in Connections, ~t.registered, t.backpressure => t.buffer # <<>>,
         t.derailed \/ BusyHead(t) \/ (Ready(t) /\ Skips(t))
  PROVE  t.derailed \/ Open(t)
<1>1. CASE BusyHead(t)
  BY <1>1 DEF BusyHead, Open, Flusher
<1>2. CASE Ready(t) /\ Skips(t)
  BY <1>2 DEF Ready, Open, Flusher
<1>3. QED
  BY <1>1, <1>2

\* What a packet finds: s is s0 without the packet.
Taken(s0, s) ==
  /\ s0 \in Connections /\ s \in Connections /\ Open(s0) /\ usable(s0) /\ s0.inbound # <<>>
  /\ Only(s0, s, {"inbound"}) /\ s.inbound = Tail(s0.inbound)

\* A packet finds the head awaiting its answer, and nothing else to do.
LEMMA TakenFacts ==
  ASSUME NEW s0, NEW s, Taken(s0, s)
  PROVE  LET h == Head(s.queue)
         IN  /\ s0 \in Connections /\ s \in Connections /\ s.queue # <<>> /\ h \in Queries
             /\ Preparing(s0, h) \/ Executing(s0, h)
             /\ ~s.ready /\ s.buffer = <<>> /\ ~s.registered /\ ~s.backpressure
             /\ NoneNew(s) /\ Attached(s) /\ s.status = "connected" /\ usable(s)
             /\ s.query = s0.query /\ s.attached = s0.attached /\ s.statement = s0.statement
             /\ s.pipelined = s0.pipelined /\ s.nonpipelinable = s0.nonpipelinable
             /\ s.sent = s0.sent
<1>1. /\ s0 \in Connections /\ s \in Connections /\ Open(s0) /\ usable(s0) /\ s0.inbound # <<>>
      /\ Only(s0, s, {"inbound"})
  BY DEF Taken
<1>2. /\ s.query = s0.query /\ s.attached = s0.attached /\ s.statement = s0.statement
      /\ s.pipelined = s0.pipelined /\ s.nonpipelinable = s0.nonpipelinable /\ s.sent = s0.sent
      /\ s.queue = s0.queue /\ s.ready = s0.ready /\ s.buffer = s0.buffer
      /\ s.registered = s0.registered /\ s.backpressure = s0.backpressure
      /\ s.status = s0.status /\ s.socket = s0.socket
  BY <1>1 DEF Only, Fields
<1>3. Busy(s0) /\ NoneNew(s0) /\ Attached(s0) /\ Flusher(s0)
  BY <1>1 DEF Open, Idle
<1>4. s0.queue # <<>> /\ Head(s0.queue) \in Queries /\ ~s0.ready
      /\ (Preparing(s0, Head(s0.queue)) \/ Executing(s0, Head(s0.queue)))
  BY <1>1, <1>3, HeadType DEF Busy
<1>5. s0.buffer = <<>>
  <2>1. CASE Preparing(s0, Head(s0.queue))
    BY <1>1, <2>1 DEF Preparing, PrepareOut
  <2>2. CASE Executing(s0, Head(s0.queue))
    BY <1>1, <2>2 DEF Executing, ExecuteOut
  <2>3. QED
    BY <1>4, <2>1, <2>2
<1>6. ~s0.registered /\ ~s0.backpressure
  BY <1>3, <1>4, <1>5 DEF Flusher
<1>7. NoneNew(s) /\ Attached(s) /\ s.status = "connected" /\ usable(s)
  BY <1>1, <1>2, <1>3 DEF NoneNew, Attached, usable
<1>8. QED
  BY <1>1, <1>2, <1>4, <1>5, <1>6, <1>7

\* The statement of the head has been prepared, or the server refused it.
LEMMA PrepareAnswered ==
  ASSUME NEW s0, NEW s, Taken(s0, s), Preparing(s0, Head(s.queue)),
         NEW t \in handle_prepared_statement(s, Head(s.queue), Head(s0.inbound).kind)
  PROVE  Sound(t)
<1> DEFINE h == Head(s.queue)
           sig == Signature[h]
           kind == Head(s0.inbound).kind
<1>1. /\ s0 \in Connections /\ s \in Connections /\ s.queue # <<>> /\ h \in Queries
      /\ ~s.ready /\ s.buffer = <<>> /\ ~s.registered /\ ~s.backpressure
      /\ NoneNew(s) /\ Attached(s) /\ s.status = "connected" /\ usable(s)
      /\ s.query = s0.query /\ s.attached = s0.attached /\ s.statement = s0.statement
      /\ s.pipelined = s0.pipelined /\ s.nonpipelinable = s0.nonpipelinable
      /\ s.sent = s0.sent
  BY TakenFacts
<1>2. /\ s0.inbound # <<>> /\ s.inbound = Tail(s0.inbound)
  BY DEF Taken
<1> HIDE DEF h
<1>3. /\ s0.sent = <<>> /\ \E k \in {"prepared", "err"} : s0.inbound = <<[q |-> h, kind |-> k]>>
      /\ h \notin Simple /\ s0.query[h] = "pending" /\ Counts(s0, 0, 0) /\ NoneRuns(s0)
      /\ \A x \in Statements : s0.statement[x] = "parsing" <=> x = Signature[h]
  BY <1>2 DEF Preparing, PrepareOut, h
<1>4. kind \in {"prepared", "err"} /\ s.inbound = <<>>
  <2>1. PICK k \in {"prepared", "err"} : s0.inbound = <<[q |-> h, kind |-> k]>>
    BY <1>3
  <2>2. ASSUME NEW c PROVE Head(<<c>>) = c /\ Tail(<<c>>) = <<>>
    OBVIOUS
  <2>3. Head(s0.inbound) = [q |-> h, kind |-> k] /\ Tail(s0.inbound) = <<>>
    BY <2>1, <2>2
  <2>4. QED
    BY <1>2, <2>3
<1>5. sig \in Statements
  BY <1>1, <1>3, SignatureType
<1>6. \A q \in Queries : ~is_running(s, q)
  BY <1>1, <1>3 DEF NoneRuns, is_running
<1>7. s.pipelined = 0 /\ s.nonpipelinable = 0 /\ s.query[h] = "pending"
  BY <1>1, <1>3 DEF Counts
<1>8. s.statement \in [Statements -> StatementStates] /\ s.query \in [Queries -> QueryStates]
      /\ s.attached \subseteq Queries
  BY <1>1, FieldTypes
<1>9. \A x \in Statements : x # sig => s.statement[x] # "parsing"
  BY <1>1, <1>3
<1>10. ASSUME NEW x \in Connections, Only(s, x, EndFields), Ready(x), t = advance(x)
       PROVE  Sound(t)
  <2>1. x.status = s.status /\ x.socket = s.socket /\ x.registered = s.registered
        /\ x.backpressure = s.backpressure
    BY <1>10 DEF Only, Fields, EndFields
  <2>2. t \in Connections /\ Only(x, t, AdvanceFields)
    BY <1>10, AdvanceFrame
  <2>3. t.status = x.status /\ t.socket = x.socket /\ t.registered = x.registered
        /\ t.backpressure = x.backpressure
    BY <2>2 DEF Only, Fields, AdvanceFields
  <2>4. t.derailed \/ BusyHead(t) \/ (Ready(t) /\ Skips(t))
    BY <1>1, <1>10, <2>1, AdvanceIdle
  <2>5. t.derailed \/ Open(t)
    BY <1>1, <2>1, <2>2, <2>3, <2>4, QuietOpen
  <2>6. usable(t)
    BY <1>1, <2>1, <2>3 DEF usable
  <2>7. QED
    BY <2>5, <2>6 DEF Sound
<1>11. CASE kind = "prepared"
  <2> DEFINE x == [s EXCEPT !.statement[sig] = "prepared", !.ready = TRUE, !.waiting = FALSE]
  <2>1. t = advance(x)
    BY <1>11 DEF handle_prepared_statement, h
  <2>2. /\ x \in Connections /\ Only(s, x, {"statement", "ready", "waiting"})
        /\ x.statement = [s.statement EXCEPT ![sig] = "prepared"]
        /\ x.ready = TRUE /\ x.waiting = FALSE
    BY <1>1, <1>5, PreparedFacts
  <2> HIDE DEF x, sig
  <2>3. x.query = s.query /\ x.attached = s.attached /\ Counts(x, 0, 0)
    BY <1>7, <2>2 DEF Only, Fields, Counts
  <2>4. Only(s, x, EndFields)
    BY <2>2 DEF Only, EndFields
  <2>5. NoneParses(x)
    BY <1>5, <1>8, <1>9, <2>2 DEF NoneParses
  <2>6. Attached(x)
    BY <1>1, <1>5, <1>8, <2>2, <2>3, SignatureType DEF Attached
  <2>7. Ready(x)
    BY <1>1, <1>3, <1>4, <1>6, <1>7, <2>2, <2>3, <2>4, <2>5, <2>6, EndsReady
  <2>8. QED
    BY <1>10, <2>1, <2>2, <2>4, <2>7
<1>12. CASE kind = "err"
  <2> DEFINE e == [s EXCEPT !.statement[sig] = "failed"]
             f == ready_and_finished(e, h)
             x == reject(f, h)
  <2>1. t = advance(x)
    BY <1>12 DEF handle_prepared_statement, h
  <2>2. /\ e \in Connections /\ Only(s, e, {"statement"})
        /\ e.statement = [s.statement EXCEPT ![sig] = "failed"]
    BY <1>1, <1>5, StatementFacts DEF StatementStates
  <2> HIDE DEF e, sig
  <2>3. e.query = s.query /\ e.attached = s.attached /\ e.pipelined = 0 /\ e.nonpipelinable = 0
    BY <1>7, <2>2 DEF Only, Fields
  <2>4. ~is_running(e, h) /\ ~is_completed(e, h)
    BY <1>7, <2>3 DEF is_running, is_completed
  <2>5. Counts(f, 0, 0)
    BY <1>1, <2>2, <2>3, <2>4, FinishedFacts
  <2>6. /\ x \in Connections /\ Only(e, x, EndFields) /\ x.statement = e.statement
        /\ x.ready /\ ~x.waiting /\ Counts(x, f.pipelined, f.nonpipelinable)
        /\ x.query = IF is_completed(e, h) THEN e.query ELSE [e.query EXCEPT ![h] = "fail"]
    <3> HIDE DEF f, x
    <3>1. e \in Connections /\ h \in Queries
      BY <1>1, <2>2
    <3>2. QED
      BY <3>1, RejectedFacts DEF f, x
  <2> HIDE DEF f, x
  <2>7. Counts(x, 0, 0)
    BY <2>5, <2>6 DEF Counts
  <2>8. Only(s, x, EndFields)
    BY <2>2, <2>6 DEF Only, EndFields
  <2>9. x.attached = s.attached
    BY <2>8 DEF Only, Fields, EndFields
  <2>10. NoneParses(x)
    BY <1>5, <1>8, <1>9, <2>2, <2>6 DEF NoneParses
  <2>11. Attached(x)
    BY <1>1, <1>5, <1>8, <2>2, <2>6, <2>9, SignatureType DEF Attached
  <2>12. x.query[h] = "fail" /\ \A q \in Queries : q # h => x.query[q] = s.query[q]
    <3>1. x.query = [s.query EXCEPT ![h] = "fail"]
      BY <2>3, <2>4, <2>6
    <3>2. QED
      BY <1>1, <1>8, <3>1
  <2>13. /\ s \in Connections /\ h \in Queries /\ ~s.backpressure /\ s.buffer = <<>> /\ s.sent = <<>>
         /\ s.inbound = <<>> /\ NoneNew(s) /\ \A q \in Queries : is_running(s, q) => q = h
    BY <1>1, <1>3, <1>4, <1>6
  <2>14. x.query[h] \in {"pending", "success", "fail"} /\ x \in Connections /\ x.ready /\ ~x.waiting
    BY <2>6, <2>12
  <2>15. Ready(x)
    BY <2>7, <2>8, <2>10, <2>11, <2>12, <2>13, <2>14, EndsReady
  <2>16. QED
    BY <1>10, <2>1, <2>8, <2>14, <2>15
<1>13. QED
  BY <1>4, <1>11, <1>12

\* The end of an answer, or an error in it, counts the query out.
LEMMA LastCounts ==
  ASSUME NEW s \in Connections, NEW h \in Queries,
         Counts(s, IF is_running(s, h) /\ h \notin Simple THEN 1 ELSE 0,
                   IF is_running(s, h) /\ h \in Simple THEN 1 ELSE 0)
  PROVE  /\ Counts(ready_and_finished(s, h), 0, 0)
         /\ Counts(mark_current_request_as_finished(s, h), 0, 0)
<1>1. (1 - 1) % U32 = 0
  BY ModuloSmall
<1> DEFINE f == ready_and_finished(s, h)
           c == mark_current_request_as_finished(s, h)
<1>2. /\ ~is_running(s, h) => Counts(f, s.pipelined, s.nonpipelinable)
      /\ is_running(s, h) /\ h \in Simple => Counts(f, s.pipelined, (s.nonpipelinable - 1) % U32)
      /\ is_running(s, h) /\ h \notin Simple => Counts(f, (s.pipelined - 1) % U32, s.nonpipelinable)
  BY FinishedFacts
<1>3. /\ ~is_running(s, h) => Counts(c, s.pipelined, s.nonpipelinable)
      /\ is_running(s, h) /\ h \in Simple => Counts(c, s.pipelined, (s.nonpipelinable - 1) % U32)
      /\ is_running(s, h) /\ h \notin Simple => Counts(c, (s.pipelined - 1) % U32, s.nonpipelinable)
  BY MarkedFacts
<1> HIDE DEF f, c
<1>4. CASE ~is_running(s, h)
  <2>1. s.pipelined = 0 /\ s.nonpipelinable = 0
    BY <1>4 DEF Counts
  <2>2. QED
    BY <1>2, <1>3, <1>4, <2>1 DEF f, c
<1>5. CASE is_running(s, h) /\ h \in Simple
  <2>1. s.pipelined = 0 /\ s.nonpipelinable = 1
    BY <1>5 DEF Counts
  <2>2. QED
    BY <1>1, <1>2, <1>3, <1>5, <2>1 DEF f, c
<1>6. CASE is_running(s, h) /\ h \notin Simple
  <2>1. s.pipelined = 1 /\ s.nonpipelinable = 0
    BY <1>6 DEF Counts
  <2>2. QED
    BY <1>1, <1>2, <1>3, <1>6, <2>1 DEF f, c
<1>7. QED
  BY <1>4, <1>5, <1>6

\* An answer goes on behind a packet that is not its last.
LEMMA AnswerGoesOn ==
  ASSUME NEW s0 \in Connections, NEW x \in Connections, NEW h \in Queries,
         Executing(s0, h), s0.inbound # <<>>, Head(s0.inbound).kind \in {"bad_row", "more"},
         x.buffer = <<>>, x.sent = s0.sent, x.inbound = Tail(s0.inbound),
         x.attached = s0.attached, x.statement = s0.statement,
         \A q \in Queries : q # h => x.query[q] = s0.query[q],
         x.query[h] \in {"running", "partial", "fail"},
         Counts(x, IF is_running(x, h) /\ h \notin Simple THEN 1 ELSE 0,
                   IF is_running(x, h) /\ h \in Simple THEN 1 ELSE 0)
  PROVE  Executing(x, h)
<1>1. \/ s0.sent = <<[q |-> h, kind |-> IF h \in Simple THEN "query" ELSE "execute"]>>
         /\ Parts(x.inbound, h)
      \/ s0.sent = <<>> /\ Whole(x.inbound, h)
  BY PacketFacts
<1>2. ExecuteOut(x, h)
  BY <1>1 DEF ExecuteOut
<1>3. /\ h \notin Simple => h \in x.attached /\ x.statement[Signature[h]] = "prepared"
      /\ NoneParses(x)
  BY DEF Executing, NoneParses
<1>4. \A q \in Queries : is_running(x, q) => q = h
  BY DEF Executing, is_running
<1>5. QED
  BY <1>2, <1>3, <1>4 DEF Executing

\* What a packet of the answer to a query finds.
LEMMA AnswerFacts ==
  ASSUME NEW s0, NEW s, Taken(s0, s), Executing(s0, Head(s.queue))
  PROVE  LET h == Head(s.queue)
         IN  /\ s.query[h] \in {"running", "partial", "fail"} /\ NoneParses(s) /\ Queued(s)
             /\ \A q \in Queries : is_running(s, q) => q = h
             /\ Counts(s, IF is_running(s, h) /\ h \notin Simple THEN 1 ELSE 0,
                          IF is_running(s, h) /\ h \in Simple THEN 1 ELSE 0)
<1> DEFINE h == Head(s.queue)
<1>1. /\ s \in Connections /\ s.queue # <<>> /\ h \in Queries
      /\ s.query = s0.query /\ s.statement = s0.statement
      /\ s.pipelined = s0.pipelined /\ s.nonpipelinable = s0.nonpipelinable
  BY TakenFacts
<1>2. h = s.queue[1] /\ 1 \in DOMAIN s.queue
  BY <1>1, HeadType
<1>3. Executing(s0, h)
  OBVIOUS
<1> HIDE DEF h
<1>4. \A q \in Queries : is_running(s, q) <=> is_running(s0, q)
  BY <1>1 DEF is_running
<1>5. /\ s.query[h] \in {"running", "partial", "fail"} /\ NoneParses(s)
      /\ \A q \in Queries : is_running(s, q) => q = h
  BY <1>1, <1>3, <1>4 DEF Executing, NoneParses
<1>6. Queued(s)
  BY <1>2, <1>5 DEF Queued
<1>7. Counts(s, IF is_running(s, h) /\ h \notin Simple THEN 1 ELSE 0,
                IF is_running(s, h) /\ h \in Simple THEN 1 ELSE 0)
  <2>1. Counts(s0, IF is_running(s0, h) /\ h \notin Simple THEN 1 ELSE 0,
                   IF is_running(s0, h) /\ h \in Simple THEN 1 ELSE 0)
    BY <1>3 DEF Executing
  <2>2. QED
    BY <1>1, <1>4, <2>1 DEF Counts
<1>8. QED
  BY <1>5, <1>6, <1>7 DEF h

\* A flush after an answer leaves the connection in order.
LEMMA FlushSound ==
  ASSUME NEW x \in Connections, usable(x), ~x.registered, ~x.backpressure,
         x.derailed \/ BusyHead(x) \/ Ready(x), NEW t \in flush_queue(x)
  PROVE  Sound(t)
<1>1. t \in Connections /\ Only(x, t, FlushFields) /\ (x.derailed => t.derailed)
  BY FlushFrame
<1>2. t.status = x.status /\ t.socket = x.socket /\ t.registered = x.registered
  BY <1>1 DEF Only, Fields, FlushFields, AdvanceFields
<1>3. t.derailed \/ (BusyHead(t) /\ Flushed(t)) \/ (Ready(t) /\ Skips(t))
  <2>1. CASE BusyHead(x)
    BY <2>1, FlushBusy
  <2>2. CASE Ready(x)
    BY <2>2, FlushReady DEF usable
  <2>3. QED
    BY <1>1, <2>1, <2>2
<1>4. t.derailed \/ Open(t)
  BY <1>1, <1>2, <1>3, FlushedOpen
<1>5. QED
  BY <1>2, <1>4 DEF Sound, usable

\* The last packet of an answer, whether it resolves the query or rejects it.
LEMMA LastAnswered ==
  ASSUME NEW s0, NEW s, Taken(s0, s), Executing(s0, Head(s.queue)),
         Head(s0.inbound).kind \in {"ok", "err"},
         NEW x \in Connections, Only(s, x, EndFields), x.statement = s.statement,
         x.ready, ~x.waiting, Counts(x, 0, 0),
         NEW v \in {"success", "fail"},
         x.query = IF is_completed(s, Head(s.queue)) THEN s.query
                   ELSE [s.query EXCEPT ![Head(s.queue)] = v],
         NEW t \in flush_queue(x)
  PROVE  Sound(t)
<1> DEFINE h == Head(s.queue)
<1>1. /\ s0 \in Connections /\ s \in Connections /\ h \in Queries
      /\ s.buffer = <<>> /\ ~s.registered /\ ~s.backpressure
      /\ NoneNew(s) /\ Attached(s) /\ usable(s) /\ s.sent = s0.sent
  BY TakenFacts
<1>2. s0.inbound # <<>> /\ s.inbound = Tail(s0.inbound)
  BY DEF Taken
<1>3. /\ s.query[h] \in {"running", "partial", "fail"} /\ NoneParses(s)
      /\ \A q \in Queries : is_running(s, q) => q = h
  BY AnswerFacts
<1>4. s.sent = <<>> /\ s.inbound = <<>>
  <2>1. s0.sent = <<>> /\ Tail(s0.inbound) = <<>>
    BY <1>1, <1>2, PacketFacts
  <2>2. QED
    BY <1>1, <1>2, <2>1
<1>5. x.query = IF is_completed(s, h) THEN s.query ELSE [s.query EXCEPT ![h] = v]
  OBVIOUS
<1> HIDE DEF h
<1>6. x.query[h] \in {"pending", "success", "fail"} /\ \A q \in Queries : q # h => x.query[q] = s.query[q]
  <2>1. s.query \in [Queries -> QueryStates]
    BY <1>1, FieldTypes
  <2>2. CASE is_completed(s, h)
    BY <1>5, <2>2 DEF is_completed
  <2>3. CASE ~is_completed(s, h)
    BY <1>1, <1>5, <2>1, <2>3
  <2>4. QED
    BY <2>2, <2>3
<1>7. /\ x.attached = s.attached /\ x.status = s.status /\ x.socket = s.socket
      /\ x.registered = s.registered /\ x.backpressure = s.backpressure
  BY DEF Only, Fields, EndFields
<1>8. NoneParses(x) /\ Attached(x)
  BY <1>1, <1>3, <1>7 DEF NoneParses, Attached
<1>9. Ready(x)
  BY <1>1, <1>3, <1>4, <1>6, <1>8, EndsReady
<1>10. QED
  BY <1>1, <1>7, <1>9, FlushSound DEF usable

\* A row that cannot be decoded fails the query; the rest of the answer is to come.
LEMMA RowAnswered ==
  ASSUME NEW s0, NEW s, Taken(s0, s), Executing(s0, Head(s.queue)),
         Head(s0.inbound).kind = "bad_row"
  PROVE  LET h == Head(s.queue) IN Sound(reject(mark_current_request_as_finished(s, h), h))
<1> DEFINE h == Head(s.queue)
           c == mark_current_request_as_finished(s, h)
           t == reject(c, h)
<1>1. /\ s0 \in Connections /\ s \in Connections /\ s.queue # <<>> /\ h \in Queries
      /\ ~s.ready /\ s.buffer = <<>> /\ ~s.registered /\ ~s.backpressure
      /\ NoneNew(s) /\ Attached(s) /\ usable(s)
      /\ s.query = s0.query /\ s.attached = s0.attached /\ s.statement = s0.statement
      /\ s.sent = s0.sent
  BY TakenFacts
<1>2. s0.inbound # <<>> /\ s.inbound = Tail(s0.inbound)
  BY DEF Taken
<1>3. /\ s.query[h] \in {"running", "partial", "fail"}
      /\ Counts(s, IF is_running(s, h) /\ h \notin Simple THEN 1 ELSE 0,
                   IF is_running(s, h) /\ h \in Simple THEN 1 ELSE 0)
  BY AnswerFacts
<1>4. Executing(s0, h)
  OBVIOUS
<1> HIDE DEF h
<1>5. c \in Connections /\ Only(s, c, {"waiting", "pipelined", "nonpipelinable"}) /\ Counts(c, 0, 0)
  BY <1>1, <1>3, MarkedFacts, LastCounts
<1> HIDE DEF c
<1>6. /\ t \in Connections /\ Only(c, t, {"query", "promise"})
      /\ t.query = IF is_completed(c, h) THEN c.query ELSE [c.query EXCEPT ![h] = "fail"]
  BY <1>1, <1>5, RejectFacts
<1> HIDE DEF t
<1>7. c.query = s.query
  BY <1>5 DEF Only, Fields
<1>8. t.query[h] = "fail" /\ \A q \in Queries : q # h => t.query[q] = s.query[q]
  <2>1. s.query \in [Queries -> QueryStates]
    BY <1>1, FieldTypes
  <2>2. CASE is_completed(c, h)
    BY <1>3, <1>6, <1>7, <2>2 DEF is_completed
  <2>3. CASE ~is_completed(c, h)
    BY <1>1, <1>6, <1>7, <2>1, <2>3
  <2>4. QED
    BY <2>2, <2>3
<1>9. Only(s, t, {"waiting", "pipelined", "nonpipelinable", "query", "promise"})
  BY <1>5, <1>6 DEF Only
<1>10. /\ t.buffer = <<>> /\ t.sent = s0.sent /\ t.inbound = Tail(s0.inbound) /\ t.queue = s.queue
       /\ t.attached = s0.attached /\ t.statement = s0.statement /\ t.ready = s.ready
       /\ t.registered = s.registered /\ t.backpressure = s.backpressure
       /\ t.status = s.status /\ t.socket = s.socket
  BY <1>1, <1>2, <1>9 DEF Only, Fields
<1>11. t.pipelined = 0 /\ t.nonpipelinable = 0
  BY <1>5, <1>6 DEF Counts, Only, Fields
<1>12. ~is_running(t, h)
  BY <1>8 DEF is_running
<1>13. Executing(t, h)
  <2>1. Counts(t, IF is_running(t, h) /\ h \notin Simple THEN 1 ELSE 0,
                  IF is_running(t, h) /\ h \in Simple THEN 1 ELSE 0)
    BY <1>11, <1>12 DEF Counts
  <2>2. t.query[h] \in {"running", "partial", "fail"} /\ \A q \in Queries : q # h => t.query[q] = s0.query[q]
    BY <1>1, <1>8
  <2>3. Head(s0.inbound).kind \in {"bad_row", "more"}
    OBVIOUS
  <2>4. s0 \in Connections /\ t \in Connections /\ h \in Queries /\ s0.inbound # <<>>
    BY <1>1, <1>2, <1>6
  <2>5. /\ t.buffer = <<>> /\ t.sent = s0.sent /\ t.inbound = Tail(s0.inbound)
        /\ t.attached = s0.attached /\ t.statement = s0.statement
    BY <1>10
  <2>6. QED
    BY <1>4, <2>1, <2>2, <2>3, <2>4, <2>5, AnswerGoesOn
<1>14. Busy(t)
  BY <1>1, <1>10, <1>13 DEF Busy, h
<1>15. NoneNew(t)
  <2> SUFFICES ASSUME NEW i \in DOMAIN s.queue PROVE t.query[s.queue[i]] # "new"
    BY <1>10 DEF NoneNew
  <2>1. s.queue[i] \in Queries /\ s.query[s.queue[i]] # "new"
    BY <1>1, FieldTypes DEF NoneNew
  <2>2. QED
    BY <1>8, <2>1
<1>16. Attached(t)
  BY <1>1, <1>10 DEF Attached
<1>17. Open(t)
  BY <1>1, <1>10, <1>14, <1>15, <1>16 DEF Open, Flusher
<1>18. Sound(t)
  BY <1>1, <1>10, <1>17 DEF Sound, usable
<1>19. QED
  BY <1>18 DEF t, c, h

\* A result set that is not the last: the query waits for the next one, unless it
\* has failed already.
LEMMA MoreAnswered ==
  ASSUME NEW s0, NEW s, Taken(s0, s), Executing(s0, Head(s.queue)),
         Head(s0.inbound).kind = "more",
         NEW t \in handle_result_set_ok(s, Head(s.queue), FALSE)
  PROVE  Sound(t)
<1> DEFINE h == Head(s.queue)
           e == [s EXCEPT !.derailed = @ \/ is_completed(s, h)]
           x == resolve(e, h, FALSE)
<1>1. /\ s0 \in Connections /\ s \in Connections /\ s.queue # <<>> /\ h \in Queries
      /\ ~s.ready /\ s.buffer = <<>> /\ ~s.registered /\ ~s.backpressure
      /\ NoneNew(s) /\ Attached(s) /\ usable(s)
      /\ s.query = s0.query /\ s.attached = s0.attached /\ s.statement = s0.statement
      /\ s.sent = s0.sent
  BY TakenFacts
<1>2. s0.inbound # <<>> /\ s.inbound = Tail(s0.inbound)
  BY DEF Taken
<1>3. /\ s.query[h] \in {"running", "partial", "fail"}
      /\ Counts(s, IF is_running(s, h) /\ h \notin Simple THEN 1 ELSE 0,
                   IF is_running(s, h) /\ h \in Simple THEN 1 ELSE 0)
  BY AnswerFacts
<1>4. Executing(s0, h)
  OBVIOUS
<1>5. t \in flush_queue(x)
  BY DEF handle_result_set_ok
<1> HIDE DEF h
<1>6. is_completed(s, h) \in BOOLEAN
  BY DEF is_completed
<1>7. e \in Connections /\ Only(s, e, {"derailed"}) /\ e.derailed = (s.derailed \/ is_completed(s, h))
  BY <1>1, <1>6, DerailFacts
<1> HIDE DEF e
<1>8. /\ x \in Connections /\ Only(e, x, {"query", "promise"})
      /\ x.query = IF is_completed(e, h) THEN e.query ELSE [e.query EXCEPT ![h] = "partial"]
  BY <1>1, <1>7, ResolveFacts
<1> HIDE DEF x
<1>9. e.query = s.query
  BY <1>7 DEF Only, Fields
<1>10. Only(s, x, {"derailed", "query", "promise"})
  BY <1>7, <1>8 DEF Only
<1>11. /\ x.buffer = <<>> /\ x.sent = s0.sent /\ x.inbound = Tail(s0.inbound) /\ x.queue = s.queue
       /\ x.attached = s0.attached /\ x.statement = s0.statement /\ x.ready = s.ready
       /\ x.registered = s.registered /\ x.backpressure = s.backpressure
       /\ x.status = s.status /\ x.socket = s.socket
       /\ x.pipelined = s.pipelined /\ x.nonpipelinable = s.nonpipelinable
  BY <1>1, <1>2, <1>10 DEF Only, Fields
<1>12. x.derailed = e.derailed
  BY <1>8 DEF Only, Fields
<1>13. CASE is_completed(s, h)
  BY <1>1, <1>5, <1>7, <1>8, <1>11, <1>12, <1>13, FlushSound DEF usable
<1>14. CASE ~is_completed(s, h)
  <2>1. x.query[h] = "partial" /\ \A q \in Queries : q # h => x.query[q] = s.query[q]
    <3>1. s.query \in [Queries -> QueryStates] /\ ~is_completed(e, h)
      BY <1>1, <1>9, <1>14, FieldTypes DEF is_completed
    <3>2. QED
      BY <1>1, <1>8, <1>9, <3>1
  <2>2. is_running(x, h) /\ is_running(s, h) /\ ~is_completed(x, h)
    BY <1>3, <1>14, <2>1 DEF is_running, is_completed
  <2>3. Counts(x, IF is_running(x, h) /\ h \notin Simple THEN 1 ELSE 0,
                  IF is_running(x, h) /\ h \in Simple THEN 1 ELSE 0)
    BY <1>3, <1>11, <2>2 DEF Counts
  <2>4. Executing(x, h)
    <3>1. x.query[h] \in {"running", "partial", "fail"} /\ \A q \in Queries : q # h => x.query[q] = s0.query[q]
      BY <1>1, <2>1
    <3>2. Head(s0.inbound).kind \in {"bad_row", "more"}
      OBVIOUS
    <3>3. s0 \in Connections /\ x \in Connections /\ h \in Queries /\ s0.inbound # <<>>
      BY <1>1, <1>2, <1>8
    <3>4. /\ x.buffer = <<>> /\ x.sent = s0.sent /\ x.inbound = Tail(s0.inbound)
          /\ x.attached = s0.attached /\ x.statement = s0.statement
      BY <1>11
    <3>5. QED
      BY <1>4, <2>3, <3>1, <3>2, <3>3, <3>4, AnswerGoesOn
  <2>5. Busy(x)
    BY <1>1, <1>11, <2>4 DEF Busy, h
  <2>6. NoneNew(x)
    <3> SUFFICES ASSUME NEW i \in DOMAIN s.queue PROVE x.query[s.queue[i]] # "new"
      BY <1>11 DEF NoneNew
    <3>1. s.queue[i] \in Queries /\ s.query[s.queue[i]] # "new"
      BY <1>1, FieldTypes DEF NoneNew
    <3>2. QED
      BY <2>1, <3>1
  <2>7. Attached(x)
    BY <1>1, <1>11 DEF Attached
  <2>8. BusyHead(x)
    BY <1>11, <2>2, <2>5, <2>6, <2>7 DEF BusyHead, h
  <2>9. QED
    BY <1>1, <1>5, <1>8, <1>11, <2>8, FlushSound DEF usable
<1>15. QED
  BY <1>13, <1>14

\* A packet of the answer to the head leaves the connection in order.
LEMMA ExecuteAnswered ==
  ASSUME NEW s0, NEW s, Taken(s0, s), Executing(s0, Head(s.queue)),
         NEW t \in handle_result_set(s, Head(s.queue), Head(s0.inbound).kind)
  PROVE  Sound(t)
<1> DEFINE h == Head(s.queue)
           kind == Head(s0.inbound).kind
           f == ready_and_finished(s, h)
<1>1. s0 \in Connections /\ s \in Connections /\ h \in Queries /\ s0.inbound # <<>>
  BY TakenFacts DEF Taken
<1>2. /\ Queued(s)
      /\ Counts(s, IF is_running(s, h) /\ h \notin Simple THEN 1 ELSE 0,
                   IF is_running(s, h) /\ h \in Simple THEN 1 ELSE 0)
  BY AnswerFacts
<1>3. kind \in {"ok", "err", "bad_row", "more"}
  BY <1>1, PacketFacts
<1>4. Counts(f, 0, 0)
  BY <1>1, <1>2, LastCounts
<1>5. CASE kind = "err"
  <2> DEFINE x == reject(f, h)
  <2>1. t \in flush_queue(x)
    BY <1>5 DEF handle_result_set
  <2>2. /\ x \in Connections /\ Only(s, x, EndFields) /\ x.statement = s.statement
        /\ x.ready /\ ~x.waiting /\ Counts(x, f.pipelined, f.nonpipelinable)
        /\ x.query = IF is_completed(s, h) THEN s.query ELSE [s.query EXCEPT ![h] = "fail"]
    BY <1>1, RejectedFacts
  <2> HIDE DEF x, f
  <2>3. Counts(x, 0, 0)
    BY <1>4, <2>2 DEF Counts
  <2>4. QED
    BY <1>5, <2>1, <2>2, <2>3, LastAnswered
<1>6. CASE h \notin s.attached /\ kind # "err"
  <2>1. t = fail(s)
    BY <1>6 DEF handle_result_set
  <2>2. QED
    BY <1>1, <1>2, <2>1, FailSound
<1>7. CASE kind = "ok" /\ h \in s.attached
  <2> DEFINE x == resolve(f, h, TRUE)
  <2>1. t \in flush_queue(x)
    BY <1>7 DEF handle_result_set, handle_result_set_ok
  <2>2. /\ x \in Connections /\ Only(s, x, EndFields) /\ x.statement = s.statement
        /\ x.ready /\ ~x.waiting /\ Counts(x, f.pipelined, f.nonpipelinable)
        /\ x.query = IF is_completed(s, h) THEN s.query ELSE [s.query EXCEPT ![h] = "success"]
    BY <1>1, ResolvedFacts
  <2> HIDE DEF x, f
  <2>3. Counts(x, 0, 0)
    BY <1>4, <2>2 DEF Counts
  <2>4. QED
    BY <1>7, <2>1, <2>2, <2>3, LastAnswered
<1>8. CASE kind = "bad_row" /\ h \in s.attached
  <2>1. t = reject(mark_current_request_as_finished(s, h), h)
    BY <1>8 DEF handle_result_set
  <2>2. QED
    BY <1>8, <2>1, RowAnswered
<1>9. CASE kind = "more" /\ h \in s.attached
  <2>1. t \in handle_result_set_ok(s, h, FALSE)
    BY <1>9 DEF handle_result_set
  <2>2. QED
    BY <1>9, <2>1, MoreAnswered
<1>10. QED
  BY <1>3, <1>5, <1>6, <1>7, <1>8, <1>9

\* Taking a packet changes nothing else.
LEMMA InboundFacts ==
  ASSUME NEW s \in Connections, s.inbound # <<>>
  PROVE  LET t == [s EXCEPT !.inbound = Tail(@)]
         IN  t \in Connections /\ Only(s, t, {"inbound"}) /\ t.inbound = Tail(s.inbound)
<1>1. Tail(s.inbound) \in Seq(Packet)
  BY FieldTypes
<1>2. QED
  BY <1>1 DEF Connections, Only, Fields

\* Every packet is taken for the head of the queue, and that is whose it is.
LEMMA PacketInv ==
  ASSUME Inv(m), OnPacket
  PROVE  Inv(m')
<1> DEFINE s == [m EXCEPT !.inbound = Tail(@)]
           kind == Head(m.inbound).kind
<1>1. m \in Connections /\ Attached(m) /\ Sound(m) /\ m.inbound # <<>>
  BY DEF Inv, OnPacket
<1>2. PICK t \in handle_command(s, kind) : m' = [t EXCEPT !.on_data = "packets"]
  BY DEF OnPacket
<1>3. s \in Connections /\ Only(m, s, {"inbound"}) /\ s.inbound = Tail(m.inbound)
  BY <1>1, InboundFacts
<1> HIDE DEF s
<1>4. /\ s.queue = m.queue /\ s.query = m.query /\ s.attached = m.attached
      /\ s.statement = m.statement /\ s.derailed = m.derailed
      /\ s.status = m.status /\ s.socket = m.socket
  BY <1>3 DEF Only, Fields
<1>5. Attached(s)
  BY <1>1, <1>4 DEF Attached
<1>6. Keeps(s, t)
  BY <1>2, <1>3, <1>5, CommandKeeps
<1>7. Sound(t)
  <2>1. CASE m.derailed
    BY <1>4, <1>6, <2>1 DEF Keeps, Sound
  <2>2. CASE ~m.derailed /\ ~usable(m)
    <3>1. Closed(m)
      BY <1>1, <2>2 DEF Sound
    <3>2. s.queue = <<>> /\ Queued(s)
      BY <1>4, <3>1 DEF Closed, Queued, NoneRuns, is_running
    <3>3. t = fail(s)
      BY <1>2, <3>2 DEF handle_command
    <3>4. QED
      BY <1>3, <3>2, <3>3, FailSound
  <2>3. CASE ~m.derailed /\ usable(m)
    <3> DEFINE h == Head(s.queue)
    <3>1. Taken(m, s)
      BY <1>1, <1>3, <2>3 DEF Taken, Sound
    <3>2. s.queue # <<>> /\ h \in Queries /\ (Preparing(m, h) \/ Executing(m, h))
      BY <3>1, TakenFacts
    <3>3. CASE Preparing(m, h)
      <4>1. h \notin Simple /\ h \in s.attached /\ s.statement[Signature[h]] = "parsing"
        BY <1>4, <3>2, <3>3, SignatureType DEF Preparing
      <4>2. t \in handle_prepared_statement(s, h, kind)
        BY <1>2, <3>2, <4>1 DEF handle_command
      <4>3. QED
        BY <3>1, <3>3, <4>2, PrepareAnswered
    <3>4. CASE Executing(m, h)
      <4>1. h \notin Simple => h \in s.attached /\ s.statement[Signature[h]] = "prepared"
        BY <1>4, <3>4 DEF Executing
      <4>2. t \in handle_result_set(s, h, kind)
        <5>1. CASE h \in Simple
          BY <1>2, <3>2, <5>1 DEF handle_command
        <5>2. CASE h \notin Simple
          BY <1>2, <3>2, <4>1, <5>2 DEF handle_command
        <5>3. QED
          BY <5>1, <5>2
      <4>3. QED
        BY <3>1, <3>4, <4>2, ExecuteAnswered
    <3>5. QED
      BY <3>2, <3>3, <3>4
  <2>4. QED
    BY <2>1, <2>2, <2>3
<1>8. m' \in Connections /\ Only(t, m', {"on_data"}) /\ m'.on_data = "packets"
  BY <1>2, <1>6, OnDataFacts DEF Keeps
<1>9. Only(t, m', {"on_data", "promise"})
  BY <1>8 DEF Only
<1>10. Sound(m')
  BY <1>6, <1>7, <1>8, <1>9, OnDataSound DEF Keeps
<1>11. Attached(m')
  <2>1. m'.attached = t.attached /\ m'.statement = t.statement
    BY <1>8 DEF Only, Fields
  <2>2. QED
    BY <1>6, <2>1 DEF Keeps, Attached
<1>12. FlushDue(m')
  BY <1>8 DEF FlushDue
<1>13. QED
  BY <1>8, <1>10, <1>11, <1>12 DEF Inv

-----------------------------------------------------------------------------
(* The theorems *)

\* Every action keeps the connection in order.
LEMMA StepInv ==
  ASSUME Inv(m), [MySQLNext]_m
  PROVE  Inv(m')
<1>1. CASE UNCHANGED m
  BY <1>1 DEF Inv
<1>2. ASSUME NEW q \in Queries, DoRun(q) PROVE Inv(m')
  BY <1>2, DoRunInv
<1>3. CASE DoClose
  BY <1>3, CloseInv
<1>4. CASE on_auto_flush
  BY <1>4, AutoFlushInv
<1>5. CASE on_writable
  BY <1>5, WritableInv
<1>6. CASE OnPacket
  BY <1>6, PacketInv
<1>7. CASE OnDataDrain
  BY <1>7, DrainInv
<1>8. CASE OnDataEnd
  BY <1>8, DataEndInv
<1>9. CASE on_close
  BY <1>9, OnCloseInv
<1>10. CASE on_timeout
  BY <1>10, TimeoutInv
<1>11. CASE AnswerPrepare
  BY <1>11, AnswerPrepareInv
<1>12. CASE AnswerRow
  BY <1>12, AnswerRowInv
<1>13. CASE AnswerMore
  BY <1>13, AnswerMoreInv
<1>14. CASE AnswerLast
  BY <1>14, AnswerLastInv
<1>15. QED
  BY <1>1, <1>2, <1>3, <1>4, <1>5, <1>6, <1>7, <1>8, <1>9, <1>10, <1>11, <1>12, <1>13, <1>14
     DEF MySQLNext

\* A connection in order stays in order, whatever JavaScript runs, however much
\* of a buffer the socket takes, whatever the server answers and whoever closes:
\* until it is derailed, either nothing is sent and nothing is to come, or the
\* head of the queue, and no other query, has one command in the buffer, at the
\* server or on its way back.
THEOREM MySQLInvariant == MySQLSpec => []MySQLInv
<1>1. MySQLInv /\ [MySQLNext]_m => MySQLInv'
  <2> SUFFICES ASSUME MySQLInv, [MySQLNext]_m PROVE MySQLInv'
    OBVIOUS
  <2>1. Inv(m')
    BY InvIsMySQLInv, StepInv
  <2>2. QED
    BY <2>1 DEF MySQLInv, Inv, MySQLTypeOK, FlushIsDue, FlushDue
<1>2. QED
  BY <1>1, InitInv, PTL DEF MySQLSpec

\* The fields of a connection keep their types: run(), advance() and on_data() reach no
\* state of a query or of a statement that the code has no case for.  (The counters are
\* in range because they wrap; that they are right is CountsRunning.)
THEOREM MySQLTypesHold == MySQLSpec => []MySQLTypeOK
<1>1. MySQLInv => MySQLTypeOK
  BY DEF MySQLInv
<1>2. QED
  BY <1>1, MySQLInvariant, PTL

\* While the connection could write something, the flusher is registered or
\* on_data() is about to register it (JSMySQLConnection, register_auto_flusher).
THEOREM NoFlushIsForgotten == MySQLSpec => []FlushIsDue
<1>1. MySQLInv => FlushIsDue
  BY DEF MySQLInv
<1>2. QED
  BY <1>1, MySQLInvariant, PTL

\* A connection in order has one command in flight, and it is of the head.
LEMMA InvHeads == MySQLInv => HeadIsAnswered
<1> SUFFICES ASSUME MySQLInv, ~m.derailed, usable(m)
             PROVE  /\ \A i \in DOMAIN m.sent : m.queue # <<>> /\ m.sent[i].q = Head(m.queue)
                    /\ \A i \in DOMAIN m.inbound : m.queue # <<>> /\ m.inbound[i].q = Head(m.queue)
                    /\ Len(m.buffer) + Len(m.sent) <= 1
                    /\ m.buffer # <<>> => m.inbound = <<>>
  BY DEF HeadIsAnswered, usable
<1> DEFINE h == Head(m.queue)
           Mine(f) == \A i \in DOMAIN f : f[i].q = h
           Good == /\ Mine(m.sent) /\ Mine(m.inbound) /\ Len(m.buffer) + Len(m.sent) <= 1
                   /\ m.buffer # <<>> => m.inbound = <<>>
<1>1. Open(m) /\ m \in Connections
  BY DEF MySQLInv, Sound, MySQLTypeOK
<1>2. Len(<<>>) = 0 /\ DOMAIN <<>> = {}
  OBVIOUS
<1>3. \A c : Len(<<c>>) = 1 /\ DOMAIN <<c>> = {1} /\ <<c>>[1] = c
  OBVIOUS
<1>4. CASE Idle(m)
  BY <1>2, <1>4 DEF Idle
<1>5. CASE Busy(m)
  <2>1. m.queue # <<>> /\ (Preparing(m, h) \/ Executing(m, h))
    BY <1>5 DEF Busy
  <2>2. Mine(<<>>)
    BY <1>2
  <2>3. ASSUME NEW c, c.q = h PROVE Mine(<<c>>) /\ Len(<<c>>) = 1
    BY <1>3, <2>3
  <2> HIDE DEF h, Mine
  <2>4. ASSUME NEW c, c.q = h,
               \/ m.buffer = <<c>> /\ m.sent = <<>> /\ m.inbound = <<>>
               \/ m.buffer = <<>> /\ m.sent = <<c>> /\ Mine(m.inbound)
               \/ m.buffer = <<>> /\ m.sent = <<>> /\ Mine(m.inbound)
        PROVE  Good
    <3>1. CASE m.buffer = <<c>> /\ m.sent = <<>> /\ m.inbound = <<>>
      <4>1. Len(m.buffer) = 1 /\ Len(m.sent) = 0
        BY <1>2, <1>3, <3>1
      <4>2. QED
        BY <2>2, <3>1, <4>1
    <3>2. CASE m.buffer = <<>> /\ m.sent = <<c>> /\ Mine(m.inbound)
      <4>1. Len(m.buffer) = 0 /\ Len(m.sent) = 1 /\ Mine(m.sent)
        BY <1>2, <2>3, <2>4, <3>2
      <4>2. QED
        BY <3>2, <4>1
    <3>3. CASE m.buffer = <<>> /\ m.sent = <<>> /\ Mine(m.inbound)
      <4>1. Len(m.buffer) = 0 /\ Len(m.sent) = 0
        BY <1>2, <3>3
      <4>2. QED
        BY <2>2, <3>3, <4>1
    <3>4. QED
      BY <2>4, <3>1, <3>2, <3>3
  <2>5. CASE Preparing(m, h)
    <3> DEFINE c == [q |-> h, kind |-> "prepare"]
    <3>1. c.q = h
      OBVIOUS
    <3>2. \/ m.buffer = <<c>> /\ m.sent = <<>> /\ m.inbound = <<>>
          \/ m.buffer = <<>> /\ m.sent = <<c>> /\ m.inbound = <<>>
          \/ /\ m.buffer = <<>> /\ m.sent = <<>>
             /\ \E kind \in {"prepared", "err"} : m.inbound = <<[q |-> h, kind |-> kind]>>
      BY <2>5 DEF Preparing, PrepareOut
    <3>3. ASSUME NEW kind, m.inbound = <<[q |-> h, kind |-> kind]>> PROVE Mine(m.inbound)
      <4>1. [q |-> h, kind |-> kind].q = h
        OBVIOUS
      <4>2. Mine(<<[q |-> h, kind |-> kind]>>)
        BY <2>3, <4>1
      <4>3. QED
        BY <3>3, <4>2
    <3> HIDE DEF c
    <3>4. \/ m.buffer = <<c>> /\ m.sent = <<>> /\ m.inbound = <<>>
          \/ m.buffer = <<>> /\ m.sent = <<c>> /\ Mine(m.inbound)
          \/ m.buffer = <<>> /\ m.sent = <<>> /\ Mine(m.inbound)
      BY <2>2, <3>2, <3>3
    <3> HIDE DEF Good
    <3>5. QED
      BY <2>1, <2>4, <3>1, <3>4 DEF Good, Mine, h
  <2>6. CASE Executing(m, h)
    <3> DEFINE c == [q |-> h, kind |-> IF h \in Simple THEN "query" ELSE "execute"]
    <3>1. c.q = h
      OBVIOUS
    <3>2. \/ m.buffer = <<c>> /\ m.sent = <<>> /\ m.inbound = <<>>
          \/ m.buffer = <<>> /\ m.sent = <<c>> /\ Parts(m.inbound, h)
          \/ m.buffer = <<>> /\ m.sent = <<>> /\ Whole(m.inbound, h)
      BY <2>6 DEF Executing, ExecuteOut
    <3>3. Parts(m.inbound, h) \/ Whole(m.inbound, h) => Mine(m.inbound)
      BY DEF Parts, Whole, Mine
    <3> HIDE DEF c
    <3>4. \/ m.buffer = <<c>> /\ m.sent = <<>> /\ m.inbound = <<>>
          \/ m.buffer = <<>> /\ m.sent = <<c>> /\ Mine(m.inbound)
          \/ m.buffer = <<>> /\ m.sent = <<>> /\ Mine(m.inbound)
      BY <3>2, <3>3
    <3> HIDE DEF Good
    <3>5. QED
      BY <2>1, <2>4, <3>1, <3>4 DEF Good, Mine, h
  <2>7. QED
    BY <2>1, <2>5, <2>6
<1>6. QED
  BY <1>1, <1>4, <1>5 DEF Open

\* Every packet that handle_command() takes for the head of the queue is for the
\* query at the head.
THEOREM HeadsAreAnswered == MySQLSpec => []HeadIsAnswered
BY InvHeads, MySQLInvariant, PTL

\* A connection in order counts the queries that run.
LEMMA InvCounts == MySQLInv => CountsRunning
<1> DEFINE Running(Q) == {q \in Q : is_running(m, q)}
<1> SUFFICES ASSUME MySQLInv, ~m.derailed
             PROVE  /\ m.nonpipelinable = Cardinality(Running(Simple))
                    /\ m.pipelined = Cardinality(Running(Queries \ Simple))
                    /\ m.nonpipelinable + m.pipelined <= 1
                    /\ m.ready /\ m.status = "connected" => m.nonpipelinable + m.pipelined = 0
  BY DEF CountsRunning
<1>1. m \in Connections /\ Sound(m)
  BY DEF MySQLInv, MySQLTypeOK
<1>2. Cardinality({}) = 0
  BY FS_EmptySet
<1>3. \A h \in Queries : Cardinality({h}) = 1
  BY FS_Singleton
<1>4. Simple \subseteq Queries
  BY MySQLAssumption
<1>5. CASE NoneRuns(m) /\ Counts(m, 0, 0)
  <2>1. Running(Simple) = {} /\ Running(Queries \ Simple) = {}
    BY <1>4, <1>5 DEF NoneRuns
  <2>2. QED
    BY <1>2, <1>5, <2>1 DEF Counts
<1>6. ASSUME ~m.ready, NEW h \in Queries, Executing(m, h)
      PROVE  /\ m.nonpipelinable = Cardinality(Running(Simple))
             /\ m.pipelined = Cardinality(Running(Queries \ Simple))
             /\ m.nonpipelinable + m.pipelined <= 1
  <2>1. /\ \A q \in Queries : is_running(m, q) => q = h
        /\ m.pipelined = IF is_running(m, h) /\ h \notin Simple THEN 1 ELSE 0
        /\ m.nonpipelinable = IF is_running(m, h) /\ h \in Simple THEN 1 ELSE 0
    BY <1>6 DEF Executing, Counts
  <2>2. Running(Simple) = IF is_running(m, h) /\ h \in Simple THEN {h} ELSE {}
    BY <1>4, <2>1
  <2>3. Running(Queries \ Simple) = IF is_running(m, h) /\ h \notin Simple THEN {h} ELSE {}
    BY <1>6, <2>1
  <2> HIDE DEF Running
  <2>4. QED
    BY <1>2, <1>3, <1>6, <2>1, <2>2, <2>3
<1>7. CASE usable(m)
  <2>1. Open(m)
    BY <1>1, <1>7 DEF Sound
  <2>2. CASE Idle(m)
    BY <1>5, <2>2 DEF Idle
  <2>3. CASE Busy(m)
    <3>1. m.queue # <<>> /\ ~m.ready /\ (Preparing(m, Head(m.queue)) \/ Executing(m, Head(m.queue)))
      BY <2>3 DEF Busy
    <3>2. Head(m.queue) \in Queries
      BY <1>1, <3>1, HeadType
    <3>3. CASE Preparing(m, Head(m.queue))
      BY <1>5, <3>3 DEF Preparing
    <3>4. CASE Executing(m, Head(m.queue))
      BY <1>6, <3>1, <3>2, <3>4
    <3>5. QED
      BY <3>1, <3>3, <3>4
  <2>4. QED
    BY <2>1, <2>2, <2>3 DEF Open
<1>8. CASE ~usable(m)
  BY <1>1, <1>5, <1>8 DEF Sound, Closed
<1>9. QED
  BY <1>7, <1>8

\* pipelined_requests and nonpipelinable_requests count the queries that run,
\* and are zero when the connection is ready for a command.
THEOREM CountsAreRight == MySQLSpec => []CountsRunning
BY InvCounts, MySQLInvariant, PTL

=============================================================================
