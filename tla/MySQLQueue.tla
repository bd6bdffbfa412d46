----------------------------- MODULE MySQLQueue -----------------------------
(***************************************************************************)
(* One MySQL connection of Bun.SQL (src/sql_jsc/mysql/): the queries that  *)
(* JavaScript runs on it, the queue that decides which of them to write,   *)
(* the statements they share, the socket, and a server that answers the    *)
(* commands in the order it receives them.  The connection lives on the    *)
(* JavaScript thread: each of its callbacks is one action.  What resolves  *)
(* or rejects a promise runs no query: the program's reactions are         *)
(* microtasks, which run between two of these actions.                     *)
(*                                                                         *)
(* The state is one record; a function of the source is an operator from   *)
(* states to states, or to the set of states it may end in.                *)
(***************************************************************************)
EXTENDS Integers, Sequences, FiniteSets

CONSTANTS
  Queries,     \* what JavaScript will run, once each
  Simple,      \* those of them that are sent as text
  BadBinding,  \* those of the others whose parameters cannot be bound
  Statements,
  Signature,   \* the statement that each of the others needs
  MaxResults,  \* bound: result sets in one answer
  U32          \* 2^32, or any number above the queries that can run

ASSUME MySQLAssumption ==
  /\ Simple \subseteq Queries /\ BadBinding \subseteq Queries \ Simple
  /\ Signature \in [Queries \ Simple -> Statements]
  /\ MaxResults \in Nat \ {0}
  /\ U32 \in Nat \ {0, 1}

VARIABLE m

Command == [q : Queries, kind : {"query", "execute", "prepare"}]
Packet == [q : Queries, kind : {"prepared", "err", "bad_row", "more", "ok"}]

Connections ==
  [status : {"connected", "failed"}, socket : {"open", "closing", "closed"},
   backpressure : BOOLEAN, registered : BOOLEAN,
   on_data : {"out", "packets", "microtasks"},  \* where on_data() is
   buffer : Seq(Command), queue : Seq(Queries),
   pipelined : 0 .. U32 - 1, nonpipelinable : 0 .. U32 - 1, waiting : BOOLEAN, ready : BOOLEAN,
   query : [Queries -> {"new", "pending", "running", "partial", "success", "fail"}],
   attached : SUBSET Queries,  \* the queries whose pointer to a statement is set
   statement : [Statements -> {"none", "pending", "parsing", "prepared", "failed"}],
   \* the server: commands, packets on their way back, and what it has answered
   \* of the command it is at
   sent : Seq(Command), inbound : Seq(Packet), parts : Nat, badRow : BOOLEAN,
   \* the promises; the queries that run() failed in advance(); whether one of
   \* them was the head, so that the next was skipped; and whether a query was
   \* sent ahead of a skipped one or dropped before its last result set
   promise : [Queries -> {"unsettled", "resolved", "rejected"}],
   muted : SUBSET Queries, skipped : BOOLEAN, derailed : BOOLEAN]

MySQLTypeOK == m \in Connections

-----------------------------------------------------------------------------
(* MySQLQuery *)

is_completed(s, q) == s.query[q] \in {"success", "fail"}

\* Mutant: a query between two result sets is not seen to run.
RunningUntilPartial(s, q) == s.query[q] = "running"

is_running(s, q) == s.query[q] \in {"running", "partial"}

is_being_prepared(s, q) ==
  /\ s.query[q] = "pending" /\ q \notin Simple
  /\ q \in s.attached /\ s.statement[Signature[q]] = "parsing"

is_able_to_write(s) == s.status = "connected" /\ ~s.backpressure

\* Mutant: the counters alone say that nothing is in flight.
ExecuteUnlessCounted(s) ==
  is_able_to_write(s) /\ s.nonpipelinable = 0 /\ s.pipelined = 0

can_execute_query(s) ==
  is_able_to_write(s) /\ s.ready /\ s.nonpipelinable = 0 /\ s.pipelined = 0

can_prepare_query(s) ==
  is_able_to_write(s) /\ s.ready /\ ~s.waiting /\ s.pipelined = 0

\* BUN_FEATURE_FLAG_DISABLE_SQL_AUTO_PIPELINING, which makes this false, is not set.
can_pipeline(s) ==
  is_able_to_write(s) /\ s.ready /\ ~s.waiting /\ s.nonpipelinable = 0

write(s, q, kind) == [s EXCEPT !.buffer = Append(@, [q |-> q, kind |-> kind])]
set_fail(s, q) == [s EXCEPT !.query[q] = "fail"]

run_simple_query(s, q) ==
  IF can_execute_query(s)
    THEN [write(s, q, "query") EXCEPT !.query[q] = "running", !.attached = @ \cup {q}]
    ELSE s

\* A statement that has failed is never attached.
attach(s, q) ==
  LET t == Signature[q] IN
    IF q \in s.attached \/ s.statement[t] = "failed" THEN s
    ELSE [s EXCEPT !.attached = @ \cup {q},
                   !.statement[t] = IF @ = "none" THEN "pending" ELSE @]

run_prepared_query(s0, q) ==
  LET s == attach(s0, q)
      t == Signature[q]
  IN CASE s.statement[t] = "failed" -> set_fail(s, q)
       [] s.statement[t] = "prepared" /\ can_pipeline(s) ->
            IF q \in BadBinding THEN set_fail(s, q)
            ELSE [write(s, q, "execute") EXCEPT !.query[q] = "running"]
       [] s.statement[t] = "pending" /\ can_prepare_query(s) ->
            [write(s, q, "prepare") EXCEPT !.statement[t] = "parsing"]
       [] OTHER -> s

\* A run() that fails leaves the query in "fail".
run(s, q) ==
  IF s.query[q] # "pending" \/ is_being_prepared(s, q) THEN s
  ELSE IF q \in Simple THEN run_simple_query(s, q)
  ELSE run_prepared_query(s, q)

-----------------------------------------------------------------------------
(* MySQLRequestQueue *)

\* What add() and advance() do once q has been written.
account(s, q) ==
  IF is_being_prepared(s, q) THEN [s EXCEPT !.ready = FALSE, !.waiting = TRUE]
  ELSE IF ~is_running(s, q) THEN s
  ELSE IF q \in Simple
    THEN [s EXCEPT !.ready = FALSE, !.nonpipelinable = (@ + 1) % U32]
    ELSE [s EXCEPT !.ready = FALSE, !.pipelined = (@ + 1) % U32]

add(s, q) == [account(s, q) EXCEPT !.queue = Append(@, q)]

\* Mutant: the query is counted down whenever an answer ends, run or not.
FinishedAnyway(s, q) ==
  IF q \in Simple THEN [s EXCEPT !.waiting = FALSE, !.nonpipelinable = @ - 1]
  ELSE [s EXCEPT !.waiting = FALSE, !.pipelined = @ - 1]

mark_current_request_as_finished(s, q) ==
  LET c == [s EXCEPT !.waiting = FALSE] IN
    IF ~is_running(s, q) THEN c
    ELSE IF q \in Simple THEN [c EXCEPT !.nonpipelinable = (@ - 1) % U32]
    ELSE [c EXCEPT !.pipelined = (@ - 1) % U32]

discard(s) == [s EXCEPT !.queue = Tail(@)]

\* What k turns of a loop make of x.
Iterate(Turn(_), x, k) ==
  LET after[n \in 0 .. k] == IF n = 0 THEN x ELSE Turn(after[n - 1]) IN after[k]

\* A turn of the loop of advance(), at an offset into the queue.  When run() fails,
\* its error guard has already failed the query, so on_error() finds it completed
\* and calls no callback; and the offset moves on although the queue has been
\* shifted under it.
At(s, offset) == [s |-> s, offset |-> offset, go |-> TRUE]

advance_turn(x) ==
  LET s == x.s
      offset == x.offset
      q == s.queue[offset + 1]
      r == run(s, q)
      total == (s.pipelined + s.nonpipelinable) % U32
      failed == [r EXCEPT !.muted = @ \cup {q}, !.skipped = @ \/ offset = 0]
      a == account(r, q)
      next == [a EXCEPT !.derailed = @ \/ (s.skipped /\ offset > 0 /\ r.buffer # s.buffer)]
      End(t) == [s |-> t, offset |-> offset, go |-> FALSE]
  IN IF ~x.go \/ Len(s.queue) <= offset \/ ~is_able_to_write(s) THEN End(s)
     ELSE CASE is_completed(s, q) ->
                 IF offset > 0 THEN At(s, offset + 1) ELSE At(discard(s), 0)
            [] is_being_prepared(s, q) -> End([s EXCEPT !.waiting = TRUE])
            [] is_running(s, q) -> At(s, offset + (IF offset < total THEN total ELSE 1))
            [] s.query[q] = "pending" /\ is_completed(r, q) ->
                 At(IF offset = 0 THEN discard(failed) ELSE failed, offset + 1)
            [] OTHER ->
                 IF is_running(r, q) /\ q \notin Simple /\ can_pipeline(a)
                   THEN At(next, offset + 1) ELSE End(next)

\* A turn of the pass that follows the loop: completed queries leave the head.
drop_turn(s) ==
  IF s.queue # <<>> /\ is_completed(s, Head(s.queue)) THEN discard(s) ELSE s

\* Each turn of the loop brings the offset closer to the end of the queue or ends
\* it, so the queue's length bounds the turns of both.
advance(s) ==
  LET t == Iterate(advance_turn, At(s, 0), Len(s.queue)).s
  IN Iterate(drop_turn, t, Len(t.queue))

Settle(s, q, how) == [s EXCEPT !.promise[q] = IF @ = "unsettled" THEN how ELSE @]

\* clean(): what is not completed is rejected.  The rejections may run JavaScript, for
\* which the queue is already empty and the connection is no longer usable; here they
\* are one step.
clean(s) ==
  LET open == {q \in Queries : ~is_completed(s, q) /\ \E i \in DOMAIN s.queue : s.queue[i] = q}
  IN [s EXCEPT !.queue = <<>>, !.pipelined = 0, !.nonpipelinable = 0, !.waiting = FALSE,
               !.query = [q \in Queries |-> IF q \in open THEN "fail" ELSE @[q]],
               !.promise = [q \in Queries |-> IF q \in open THEN "rejected" ELSE @[q]]]

-----------------------------------------------------------------------------
(* MySQLConnection, JSMySQLConnection *)

can_flush(s) ==
  /\ ~s.backpressure /\ s.status = "connected"
  /\ \/ s.buffer # <<>>
     \/ /\ s.queue # <<>>
        /\ s.query[Head(s.queue)] = "pending" /\ ~is_being_prepared(s, Head(s.queue))

\* Mutant: only data in the buffer makes a flush worth its while.
RegisterForData(s) ==
  [s EXCEPT !.registered = @ \/ (~s.backpressure /\ s.status = "connected" /\ s.buffer # <<>>)]

register_auto_flusher(s) == [s EXCEPT !.registered = @ \/ can_flush(s)]

\* The socket takes all of the buffer, or leaves some of it.
flush_data(s) ==
  IF s.backpressure \/ s.buffer = <<>> THEN {s}
  ELSE {[s EXCEPT !.sent = @ \o s.buffer, !.buffer = <<>>],
        [s EXCEPT !.backpressure = TRUE]}

flush_queue(s) ==
  UNION {IF f.backpressure THEN {f} ELSE flush_data(advance(f)) : f \in flush_data(s)}

auto_flush(s) ==
  IF s.backpressure THEN {[s EXCEPT !.registered = FALSE]}
  ELSE {[f EXCEPT !.registered = can_flush(f)] : f \in flush_queue(s)}

\* The socket is closed and the buffer dropped; on_close() follows.
clean_queue_and_close(s) ==
  [clean(s) EXCEPT !.buffer = <<>>, !.socket = IF @ = "open" THEN "closing" ELSE @]

fail(s) == clean_queue_and_close([s EXCEPT !.status = "failed"])

\* do_run(): an error is thrown at the caller.
do_run(s0, q) ==
  LET s == [s0 EXCEPT !.query[q] = "pending"]
      r == run(s, q)
      ahead == {i \in DOMAIN s.queue : ~is_completed(s, s.queue[i])}
  IN IF is_completed(r, q) THEN Settle(r, q, "rejected")
     ELSE register_auto_flusher(
            [add(r, q) EXCEPT !.derailed = @ \/ (s.skipped /\ ahead # {} /\ r.buffer # s.buffer)])

\* The pool of connections hands queries to one that is connected until its close has
\* been reported.
usable(s) == s.status = "connected" /\ s.socket = "open"

reject(s, q) == IF is_completed(s, q) THEN s ELSE Settle(set_fail(s, q), q, "rejected")

resolve(s, q, last) ==
  IF is_completed(s, q) THEN s
  ELSE IF last THEN Settle([s EXCEPT !.query[q] = "success"], q, "resolved")
  ELSE [s EXCEPT !.query[q] = "partial"]

-----------------------------------------------------------------------------
(* The packets *)

ready_and_finished(s, q) ==
  mark_current_request_as_finished([s EXCEPT !.ready = TRUE], q)

handle_result_set_ok(s, q, last) ==
  LET ended == IF last THEN ready_and_finished(s, q)
               ELSE [s EXCEPT !.derailed = @ \/ is_completed(s, q)]
  IN flush_queue(resolve(ended, q, last))

\* Rows that decode change nothing here.
handle_result_set(s, q, kind) ==
  CASE kind = "err" -> flush_queue(reject(ready_and_finished(s, q), q))
    [] kind = "bad_row" /\ q \in s.attached -> {reject(mark_current_request_as_finished(s, q), q)}
    [] kind \in {"more", "ok"} /\ q \in s.attached -> handle_result_set_ok(s, q, kind = "ok")
    [] OTHER -> {fail(s)}

\* Mutant: nobody is told that the connection is ready for the next command.
PrepareKeepsBusy(s, q, kind) ==
  LET t == Signature[q] IN
  CASE kind = "prepared" ->
         {advance([s EXCEPT !.statement[t] = "prepared", !.waiting = FALSE])}
    [] kind = "err" ->
         {advance(reject(
            mark_current_request_as_finished([s EXCEPT !.statement[t] = "failed"], q), q))}
    [] OTHER -> {fail(s)}

\* The definitions of a statement's parameters and columns count as one packet.
handle_prepared_statement(s, q, kind) ==
  LET t == Signature[q] IN
  CASE kind = "prepared" ->
         {advance([s EXCEPT !.statement[t] = "prepared", !.ready = TRUE, !.waiting = FALSE])}
    [] kind = "err" ->
         {advance(reject(ready_and_finished([s EXCEPT !.statement[t] = "failed"], q), q))}
    [] OTHER -> {fail(s)}

\* Whatever comes is for the head of the queue.
handle_command(s, kind) ==
  IF s.queue = <<>> THEN {fail(s)}
  ELSE LET q == Head(s.queue) IN
    IF q \in Simple THEN handle_result_set(s, q, kind)
    ELSE IF q \notin s.attached THEN {s}
    ELSE CASE s.statement[Signature[q]] = "pending" -> {fail(s)}
           [] s.statement[Signature[q]] = "parsing" -> handle_prepared_statement(s, q, kind)
           [] s.statement[Signature[q]] = "prepared" -> handle_result_set(s, q, kind)
           [] s.statement[Signature[q]] = "failed" -> handle_result_set(s, q, "err")

-----------------------------------------------------------------------------
(* Actions *)

MySQLInit ==
  m = [status |-> "connected", socket |-> "open", backpressure |-> FALSE,
       on_data |-> "out", registered |-> FALSE, buffer |-> <<>>, queue |-> <<>>,
       pipelined |-> 0, nonpipelinable |-> 0, waiting |-> FALSE, ready |-> TRUE,
       query |-> [q \in Queries |-> "new"], attached |-> {},
       statement |-> [t \in Statements |-> "none"],
       sent |-> <<>>, inbound |-> <<>>, parts |-> 0, badRow |-> FALSE,
       promise |-> [q \in Queries |-> "unsettled"], muted |-> {}, skipped |-> FALSE,
       derailed |-> FALSE]

\* JavaScript and deferred tasks run between two events, or while on_data() drains
\* the microtasks.
DoRun(q) ==
  /\ m.on_data # "packets" /\ usable(m) /\ m.query[q] = "new"
  /\ m' = do_run(m, q)

DoClose ==
  /\ m.on_data # "packets" /\ usable(m)
  /\ m' = clean_queue_and_close(m)

\* The deferred task.
on_auto_flush ==
  /\ m.on_data # "packets" /\ m.registered
  /\ m' \in auto_flush(m)

on_writable ==
  /\ m.on_data = "out" /\ m.socket = "open" /\ m.backpressure
  /\ m' \in flush_queue([m EXCEPT !.backpressure = FALSE])

\* on_data() handles the packets that it was given, ...
OnPacket ==
  /\ m.on_data = "packets" \/ (m.on_data = "out" /\ m.socket = "open")
  /\ m.inbound # <<>>
  /\ m' \in {[s EXCEPT !.on_data = "packets"] :
               s \in handle_command([m EXCEPT !.inbound = Tail(@)], Head(m.inbound).kind)}

\* ... drains the microtasks, and looks whether there is something to write.
OnDataDrain ==
  /\ m.on_data = "packets"
  /\ m' = [m EXCEPT !.on_data = "microtasks"]

OnDataEnd ==
  /\ m.on_data = "microtasks"
  /\ m' = register_auto_flusher([m EXCEPT !.on_data = "out"])

\* The peer closed the connection, or close() did.
on_close ==
  /\ m.on_data = "out" /\ m.socket # "closed"
  /\ m' = [fail(m) EXCEPT !.socket = "closed"]

\* The idle timer fires only on an idle connection, that of the lifetime on any.
on_timeout ==
  /\ m.on_data = "out" /\ m.status # "failed"
  /\ m' = fail(m)

-----------------------------------------------------------------------------
(* The server *)

Answer(kind) == Append(m.inbound, [q |-> Head(m.sent).q, kind |-> kind])

AnswerPrepare ==
  /\ m.socket = "open" /\ m.sent # <<>> /\ Head(m.sent).kind = "prepare"
  /\ \E kind \in {"prepared", "err"} :
       m' = [m EXCEPT !.inbound = Answer(kind), !.sent = Tail(@)]

\* A row of which the client cannot make a value.
AnswerRow ==
  /\ m.socket = "open" /\ m.sent # <<>> /\ Head(m.sent).kind # "prepare" /\ ~m.badRow
  /\ m' = [m EXCEPT !.inbound = Answer("bad_row"), !.badRow = TRUE]

AnswerMore ==
  /\ m.socket = "open" /\ m.sent # <<>> /\ Head(m.sent).kind # "prepare"
  /\ m.parts + 1 < MaxResults
  /\ m' = [m EXCEPT !.inbound = Answer("more"), !.parts = @ + 1, !.badRow = FALSE]

AnswerLast ==
  /\ m.socket = "open" /\ m.sent # <<>> /\ Head(m.sent).kind # "prepare"
  /\ \E kind \in {"ok", "err"} :
       m' = [m EXCEPT !.inbound = Answer(kind), !.sent = Tail(@), !.parts = 0, !.badRow = FALSE]

MySQLNext ==
  \/ \E q \in Queries : DoRun(q)
  \/ DoClose \/ on_auto_flush \/ on_writable \/ OnPacket \/ OnDataDrain \/ OnDataEnd
  \/ on_close \/ on_timeout
  \/ AnswerPrepare \/ AnswerRow \/ AnswerMore \/ AnswerLast

\* What is not up to JavaScript, to a timer or to the peer.
Work ==
  \/ on_auto_flush \/ on_writable \/ OnPacket \/ OnDataDrain \/ OnDataEnd
  \/ (m.socket = "closing" /\ on_close)
  \/ AnswerPrepare \/ AnswerLast

\* ENABLED <<Work>>_m: a flush may find that there is nothing it can do.
Due ==
  \/ m.on_data # "packets" /\ m.registered /\ auto_flush(m) # {m}
  \/ m.on_data # "out"
  \/ m.socket = "open" /\ (m.backpressure \/ m.inbound # <<>> \/ m.sent # <<>>)
  \/ m.socket = "closing"

\* WF_m(Work): the event loop runs its deferred tasks and delivers what the socket
\* has, a closed socket is reported, and the server answers, in any order.
MySQLFairness == []<>(~Due) \/ []<><<Work>>_m

MySQLSpec == MySQLInit /\ [][MySQLNext]_m /\ MySQLFairness

-----------------------------------------------------------------------------
(* Properties *)

\* Every packet is applied to the head of the queue (handle_command), so while the
\* server has a command, or its answer is on the way, the head must be the query
\* that sent it; and no second command is written before the answer is complete.
\* Two things derail it: advance() failing the head and then skipping the query
\* behind it, and a row that cannot be decoded in a result set that is not the
\* last.
HeadIsAnswered ==
  ~m.derailed /\ m.status = "connected" /\ m.socket = "open" =>
    /\ \A i \in DOMAIN m.sent : m.queue # <<>> /\ m.sent[i].q = Head(m.queue)
    /\ \A i \in DOMAIN m.inbound : m.queue # <<>> /\ m.inbound[i].q = Head(m.queue)
    /\ Len(m.buffer) + Len(m.sent) <= 1
    /\ m.buffer # <<>> => m.inbound = <<>>

\* pipelined_requests and nonpipelinable_requests count the queries that run, and
\* never wrap: a wrong count would keep can_execute_query() false for ever, or
\* send a second command into the answer of the first.
CountsRunning ==
  ~m.derailed =>
    LET Running(Q) == Cardinality({q \in Q : is_running(m, q)})
    IN /\ m.nonpipelinable = Running(Simple)
       /\ m.pipelined = Running(Queries \ Simple)
       /\ m.nonpipelinable + m.pipelined <= 1
       /\ m.ready /\ m.status = "connected" => m.nonpipelinable + m.pipelined = 0

\* No query waits for a flush that nobody will do: while the connection could
\* write and the head could be run or the buffer written, the flusher is
\* registered or on_data() is about to register it.
FlushIsDue ==
  ~m.derailed /\ usable(m) /\ can_flush(m) => m.registered \/ m.on_data # "out"

\* Every query that JavaScript runs is resolved or rejected, whatever fails and
\* whoever closes, unless run() failed it inside advance() (its error is dropped)
\* or the queue was derailed.
EveryQuerySettles ==
  \A q \in Queries :
    m.query[q] # "new" ~> m.promise[q] # "unsettled" \/ q \in m.muted \/ m.derailed

=============================================================================
