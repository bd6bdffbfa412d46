-------------------------- MODULE TestCoordinator --------------------------
(***************************************************************************)
(* bun test --parallel (src/runtime/cli/test/parallel/): one coordinator   *)
(* hands test files to worker processes, each in a slot of its own, over a *)
(* pair of pipes, steals ranges of files between slots, and replaces the   *)
(* workers that die.  The coordinator is one thread: each of its callbacks *)
(* is one action.  The workers, their pipes and their deaths interleave    *)
(* with it.                                                                *)
(*                                                                         *)
(* The state is one record, so that each function of the source is one     *)
(* operator from states to states and calls compose as they do there.      *)
(***************************************************************************)
EXTENDS Integers, Sequences, FiniteSets

CONSTANTS
  N,                 \* files.len()
  K,                 \* parallel_limit, the number of slots
  Bails,             \* the values of --bail to consider; 0 is "never"
  MaxFaults,         \* bound: workers that die early or corrupt their pipe
  MaxSpawnFailures,  \* bound: calls of Worker::start() that fail
  None

\* run_as_coordinator() runs the files itself when min(--parallel, n) <= 1.
ASSUME CoordAssumption ==
  /\ N \in Nat /\ K \in Nat /\ 1 < K /\ K <= N
  /\ Bails \subseteq Nat
  /\ MaxFaults \in Nat /\ MaxSpawnFailures \in Nat
  /\ None \notin Nat

Workers == 0 .. K - 1
Files == 0 .. N - 1

VARIABLE c  \* the coordinator, its slots, and the process and pipes of each

\* A process lives in "boot", "wait" and "run"; "exited" and "panicked" are the
\* statuses it may leave behind, "panicked" the ones is_panic_status() accepts.
Statuses == {"exited", "panicked"}
Living == {"boot", "wait", "run"}

Command == [kind : {"run", "shutdown"}, idx : Files \cup {None}]
Frame == [kind : {"ready", "file_done", "aggregates", "corrupt"},
          idx : Files \cup {None}, fail : {0, 1}]

State ==
  [phase : {"start", "driving", "finished", "exited"},
   bail : Nat, spawned : 0 .. K, live : 0 .. K, files_done : 0 .. N, fails : Nat,
   bailed : BOOLEAN, fragments : Nat,
   lo : [Workers -> Nat], hi : [Workers -> Nat],
   inflight : [Workers -> Files \cup {None}],
   alive : [Workers -> BOOLEAN],
   exit_status : [Workers -> Statuses \cup {None}],
   ipc_done : [Workers -> BOOLEAN],
   proc : [Workers -> Statuses \cup Living \cup {"none"}],
   inbox : [Workers -> Seq(Command)], outbox : [Workers -> Seq(Frame)],
   pending : [Workers -> Files \cup {None}], running : [Workers -> Files \cup {None}],
   stop : [Workers -> BOOLEAN], killed : [Workers -> BOOLEAN],
   \* how often each file was counted in files_done, the files charged to a
   \* crash, the results and aggregates that the kernel has taken from a worker,
   \* and the faults so far
   counted : [Files -> Nat], crashed : SUBSET Files,
   written : SUBSET Files, flushed : Nat,
   faults : Nat, failures : Nat]

CoordTypeOK == c \in State

-----------------------------------------------------------------------------
(* FileRange *)

len(s, w) == s.hi[w] - s.lo[w]
in_range(s, w, f) == s.lo[w] <= f /\ f < s.hi[w]
has_undispatched_files(s) == \E w \in Workers : s.lo[w] < s.hi[w]

\* Mutant: the thief takes the back half and the owner keeps it.
StealKeepsBackHalf(s, w, v) ==
  LET mid == s.lo[v] + len(s, v) \div 2 IN
    [s EXCEPT !.lo[w] = mid, !.hi[w] = s.hi[v]]

\* The thief's range is empty: it becomes the back half of the victim's.
steal_back_half(s, w, v) ==
  LET mid == s.lo[v] + len(s, v) \div 2 IN
    [s EXCEPT !.hi[v] = mid, !.lo[w] = mid, !.hi[w] = s.hi[v]]

\* The first of the longest ranges, spawned or not.
is_steal_victim(s, v) ==
  /\ len(s, v) > 0
  /\ \A u \in Workers : len(s, u) <= len(s, v) /\ (u < v => len(s, u) < len(s, v))

-----------------------------------------------------------------------------
(* Worker *)

\* Channel::send() drops what is sent after the channel is done.
send(s, w, command) ==
  IF s.ipc_done[w] THEN s ELSE [s EXCEPT !.inbox[w] = Append(@, command)]

dispatch(s, w, f) ==
  [send(s, w, [kind |-> "run", idx |-> f]) EXCEPT !.inflight[w] = f]

shutdown(s, w) == send(s, w, [kind |-> "shutdown", idx |-> None])

\* Mutant: a slot is reused with the pipes of its last process.
StartKeepsPipes(s, ws) ==
  LET Set(field, v) == [w \in Workers |-> IF w \in ws THEN v ELSE field[w]]
  IN [s EXCEPT !.alive = Set(@, TRUE), !.live = @ + Cardinality(ws),
               !.ipc_done = Set(@, FALSE), !.proc = Set(@, "boot"),
               !.pending = Set(@, None), !.running = Set(@, None),
               !.stop = Set(@, FALSE), !.killed = Set(@, FALSE)]

\* start() succeeds in each slot of ws: a new process with a new channel.
start(s, ws) ==
  LET Set(field, v) == [w \in Workers |-> IF w \in ws THEN v ELSE field[w]]
  IN [s EXCEPT !.alive = Set(@, TRUE), !.live = @ + Cardinality(ws),
               !.ipc_done = Set(@, FALSE), !.proc = Set(@, "boot"),
               !.inbox = Set(@, <<>>), !.outbox = Set(@, <<>>),
               !.pending = Set(@, None), !.running = Set(@, None),
               !.stop = Set(@, FALSE), !.killed = Set(@, FALSE)]

-----------------------------------------------------------------------------
(* Coordinator *)

is_done(s) == (s.files_done >= N \/ s.bailed) /\ s.live = 0

\* pop_front() of the worker's own range, which is not empty.
pop_and_dispatch(s, w) == dispatch([s EXCEPT !.lo[w] = @ + 1], w, s.lo[w])

assign_work(s, w) ==
  IF s.bailed THEN shutdown(s, w)
  ELSE IF s.lo[w] < s.hi[w] THEN pop_and_dispatch(s, w)
  ELSE IF \E v \in Workers : is_steal_victim(s, v)
    THEN LET v == CHOOSE v \in Workers : is_steal_victim(s, v)
         IN pop_and_dispatch(steal_back_half(s, w, v), w)
  ELSE shutdown(s, w)

bail_out(s) ==
  IF s.bailed THEN s
  ELSE [s EXCEPT !.bailed = TRUE,
                 !.inbox = [w \in Workers |->
                    IF w < s.spawned /\ s.alive[w] /\ s.inflight[w] = None
                      THEN shutdown(s, w).inbox[w] ELSE s.inbox[w]]]

bail_if_due(s) == IF s.bail > 0 /\ s.fails >= s.bail THEN bail_out(s) ELSE s

account_crash(s, f) ==
  bail_if_due([s EXCEPT !.fails = @ + 1, !.files_done = @ + 1, !.counted[f] = @ + 1,
                        !.crashed = @ \cup {f}])

\* Mutant: the files of the slots that were never spawned are forgotten.
AbortSpawnedOnly(s) ==
  LET queued == {q \in Workers \X Files : q[1] < s.spawned /\ in_range(s, q[1], q[2])}
  IN [s EXCEPT
       !.lo = s.hi,
       !.fails = @ + Cardinality(queued), !.files_done = @ + Cardinality(queued),
       !.counted = [f \in Files |-> s.counted[f] + Cardinality({q \in queued : q[2] = f})],
       !.crashed = @ \cup {q[2] : q \in queued}]

\* Every file of every range is popped and counted as failed.
abort_queued_files(s) ==
  LET queued == {q \in Workers \X Files : in_range(s, q[1], q[2])}
  IN [s EXCEPT
       !.lo = [w \in Workers |-> IF s.lo[w] < s.hi[w] THEN s.hi[w] ELSE s.lo[w]],
       !.fails = @ + Cardinality(queued), !.files_done = @ + Cardinality(queued),
       !.counted = [f \in Files |-> s.counted[f] + Cardinality({q \in queued : q[2] = f})],
       !.crashed = @ \cup {q[2] : q \in queued}]

abort_on_worker_panic(s) ==
  LET signalled == [s EXCEPT !.killed =
                      [w \in Workers |-> s.killed[w] \/ (w < s.spawned /\ s.alive[w])]]
  IN IF s.bailed THEN signalled
     ELSE abort_queued_files([signalled EXCEPT !.bailed = TRUE])

\* reap_worker() up to the respawn: what the dead worker was running is charged.
charge_inflight(s, w) ==
  LET f == s.inflight[w]
      reaped == [s EXCEPT !.live = @ - 1, !.exit_status[w] = None]
  IN IF f = None THEN reaped
     ELSE LET charged == [account_crash(reaped, f) EXCEPT !.inflight[w] = None]
          IN IF s.exit_status[w] = "panicked" THEN abort_on_worker_panic(charged)
             ELSE charged

\* Mutant: nobody fails the files that no worker is left to run.
ReleaseOnly(s, w) == [s EXCEPT !.ipc_done[w] = FALSE]

\* The slot is left empty.  abort_queued_files() lets drive() end when nobody
\* is left to run the files.
release(s, w) ==
  LET settled == IF ~s.bailed /\ s.live = 0 THEN abort_queued_files(s) ELSE s
  IN [settled EXCEPT !.ipc_done[w] = FALSE]

\* The states that reap_worker() may end in: the respawn may fail.
reap_worker(s, w) ==
  LET r == [charge_inflight(s, w) EXCEPT !.proc[w] = "none"]
  IN IF ~r.bailed /\ has_undispatched_files(r)
       THEN {start(r, {w})} \cup
            (IF r.failures < MaxSpawnFailures
               THEN {release([r EXCEPT !.failures = @ + 1], w)} ELSE {})
       ELSE {release(r, w)}

\* Mutant: reap on the exit notification alone.
ReapOnExit(s, w) ==
  IF s.exit_status[w] = None THEN {s} ELSE reap_worker(s, w)

\* Both the exit and the end of the channel are needed, in either order.
try_reap(s, w) ==
  IF s.exit_status[w] = None \/ ~s.ipc_done[w] THEN {s} ELSE reap_worker(s, w)

-----------------------------------------------------------------------------
(* Init, drive() *)

\* runner.rs cuts the files into K contiguous ranges.
CoordInit ==
  c \in [phase : {"start"}, bail : Bails, spawned : {0}, live : {0},
         files_done : {0}, fails : {0}, bailed : {FALSE}, fragments : {0},
         lo : {[w \in Workers |-> (w * N) \div K]},
         hi : {[w \in Workers |-> ((w + 1) * N) \div K]},
         inflight : {[w \in Workers |-> None]},
         alive : {[w \in Workers |-> FALSE]},
         exit_status : {[w \in Workers |-> None]},
         ipc_done : {[w \in Workers |-> FALSE]},
         proc : {[w \in Workers |-> "none"]},
         inbox : {[w \in Workers |-> <<>>]}, outbox : {[w \in Workers |-> <<>>]},
         pending : {[w \in Workers |-> None]}, running : {[w \in Workers |-> None]},
         stop : {[w \in Workers |-> FALSE]}, killed : {[w \in Workers |-> FALSE]},
         counted : {[f \in Files |-> 0]}, crashed : {{}}, written : {{}},
         flushed : {0}, faults : {0}, failures : {0}]

\* spawn_worker(), called until n slots are in use.
spawn_workers(s, n) == [start(s, s.spawned .. n - 1) EXCEPT !.spawned = n]

\* A failed spawn_worker() exits with 1 if nobody is there to go on.
spawn_failed(s) ==
  [s EXCEPT !.failures = @ + 1, !.phase = IF s.live = 0 THEN "exited" ELSE @]

\* drive() begins with one worker.
DriveStart ==
  /\ c.phase = "start"
  /\ \/ c' = [spawn_workers(c, 1) EXCEPT !.phase = "driving"]
     \/ c.failures < MaxSpawnFailures /\ c' = spawn_failed(c)

\* Mutant: one worker for each file that is left, slots or not.
ScaleUpToFiles ==
  LET want == N - c.files_done IN
  /\ c.phase = "driving" /\ ~is_done(c)
  /\ c.spawned < K /\ ~c.bailed /\ has_undispatched_files(c)
  /\ \A w \in Workers : w < c.spawned /\ c.alive[w] => c.inflight[w] # None
  /\ c.spawned < want /\ c' = spawn_workers(c, want)

\* Whether every living worker has been busy for scale_up_after_ms is the
\* clock's choice.  The loop spawns until `want' slots are in use or one fails.
maybe_scale_up ==
  LET want == IF K < N - c.files_done THEN K ELSE N - c.files_done IN
  /\ c.phase = "driving" /\ ~is_done(c)
  /\ c.spawned < K /\ ~c.bailed /\ has_undispatched_files(c)
  /\ \A w \in Workers : w < c.spawned /\ c.alive[w] => c.inflight[w] # None
  /\ \/ c.spawned < want /\ c' = spawn_workers(c, want)
     \/ /\ c.failures < MaxSpawnFailures
        /\ \E n \in c.spawned .. want - 1 : c' = spawn_failed(spawn_workers(c, n))

DriveEnd ==
  /\ c.phase = "driving" /\ is_done(c)
  /\ c' = [c EXCEPT !.phase = "finished"]

\* SIGINT or SIGTERM: the handler only sets SHOULD_ABORT, which drive() looks at
\* between two ticks.
abort_all ==
  /\ c.phase = "driving" /\ ~is_done(c)
  /\ c' = [c EXCEPT !.phase = "exited",
                    !.killed = [w \in Workers |-> @[w] \/ c.proc[w] # "none"]]

-----------------------------------------------------------------------------
(* on_frame(): a frame of worker w is decoded *)

Receives(w, kind) ==
  /\ c.phase = "driving" /\ c.proc[w] # "none" /\ ~c.ipc_done[w]
  /\ c.outbox[w] # <<>> /\ Head(c.outbox[w]).kind = kind

\* The state after the frame is taken from the pipe.
decoded(w) == [c EXCEPT !.outbox[w] = Tail(@)]

\* Unlike OnFileDone, this dispatches to a worker whose exit was already seen.
OnReady(w) ==
  /\ Receives(w, "ready")
  /\ c' = assign_work(decoded(w), w)

OnFileDone(w) ==
  /\ Receives(w, "file_done")
  /\ LET f == Head(c.outbox[w])
         d == decoded(w)
         counted == bail_if_due(
           [d EXCEPT !.inflight[w] = None, !.files_done = @ + 1,
                     !.fails = @ + f.fail, !.counted[f.idx] = @ + 1])
     IN c' = IF d.inflight[w] # f.idx THEN d
             ELSE IF counted.alive[w] THEN assign_work(counted, w)
             ELSE counted

\* RepeatBufs, JunitFile and CoverageFile frames, sent together when a worker
\* shuts down.
OnAggregates(w) ==
  /\ Receives(w, "aggregates")
  /\ c' = [decoded(w) EXCEPT !.fragments = @ + 1]

\* A frame that cannot be decoded ends the channel, and the worker is killed.
OnCorruptFrame(w) ==
  /\ Receives(w, "corrupt")
  /\ c' \in try_reap([decoded(w) EXCEPT !.ipc_done[w] = TRUE, !.killed[w] = TRUE], w)

\* The peer closed the channel and everything it wrote is decoded.
OnChannelClose(w) ==
  /\ c.phase = "driving"
  /\ c.proc[w] \in Statuses /\ c.outbox[w] = <<>> /\ ~c.ipc_done[w]
  /\ c' \in try_reap([c EXCEPT !.ipc_done[w] = TRUE], w)

on_process_exit(w) ==
  /\ c.phase = "driving"
  /\ c.proc[w] \in Statuses /\ c.alive[w]
  /\ c' \in try_reap([c EXCEPT !.alive[w] = FALSE, !.exit_status[w] = c.proc[w]], w)

-----------------------------------------------------------------------------
(* A worker process: run_as_worker(), WorkerLoop and WorkerCommands *)

Lives(w, states) == c.phase = "driving" /\ c.proc[w] \in states

emit(s, w, kind, idx, fail) ==
  [s EXCEPT !.outbox[w] = Append(@, [kind |-> kind, idx |-> idx, fail |-> fail])]

WorkerReady(w) ==
  /\ Lives(w, {"boot"})
  /\ c' = [emit(c, w, "ready", None, 0) EXCEPT !.proc[w] = "wait"]

\* on_channel_frame(): there is one slot for the next file.
WorkerReceive(w) ==
  /\ Lives(w, {"wait", "run"}) /\ c.inbox[w] # <<>>
  /\ LET command == Head(c.inbox[w])
         s == [c EXCEPT !.inbox[w] = Tail(@)]
     IN c' = IF command.kind = "run" THEN [s EXCEPT !.pending[w] = command.idx]
             ELSE [s EXCEPT !.stop[w] = TRUE]

WorkerStartFile(w) ==
  /\ Lives(w, {"wait"}) /\ c.pending[w] # None
  /\ c' = [c EXCEPT !.proc[w] = "run", !.running[w] = c.pending[w], !.pending[w] = None]

\* What the coordinator will not decode because a frame before it is corrupt.
Undecodable(w) == c.ipc_done[w] \/ \E i \in DOMAIN c.outbox[w] : c.outbox[w][i].kind = "corrupt"

\* How many tests of the file failed matters only under --bail.
WorkerFinishFile(w) ==
  /\ Lives(w, {"run"})
  /\ \E fail \in IF c.bail = 0 THEN {0} ELSE {0, 1} :
       c' = [emit(c, w, "file_done", c.running[w], fail) EXCEPT
              !.proc[w] = "wait", !.running[w] = None,
              !.written = IF Undecodable(w) THEN @ ELSE @ \cup {c.running[w]}]

\* The loop ends on a shutdown: flush the aggregates, drain the pipe, exit.
WorkerExit(w) ==
  /\ Lives(w, {"wait"}) /\ c.pending[w] = None /\ c.stop[w]
  /\ c' = [emit(c, w, "aggregates", None, 0) EXCEPT
            !.proc[w] = "exited", !.flushed = @ + 1]

-----------------------------------------------------------------------------
(* The faults: what test code, a signal or the kernel does to a worker *)

\* The process ends.  Frames that were still in its own buffer are lost.
dies(w, status) ==
  \E kept \in 0 .. Len(c.outbox[w]) :
    c' = [c EXCEPT
      !.proc[w] = status,
      !.outbox[w] = SubSeq(@, 1, kept),
      !.written = @ \ {c.outbox[w][i].idx : i \in kept + 1 .. Len(c.outbox[w])},
      !.faults = IF c.killed[w] THEN @ ELSE @ + 1]

\* process.exit(), a fatal signal, the out-of-memory killer.
WorkerDies(w) ==
  /\ Lives(w, Living) /\ ~c.killed[w] /\ c.faults < MaxFaults
  /\ \E status \in Statuses : dies(w, status)

\* The signal that the coordinator sent arrives.
WorkerKilled(w) ==
  /\ Lives(w, Living) /\ c.killed[w]
  /\ dies(w, "exited")

\* Test code writes to fd 3.
WorkerCorrupts(w) ==
  /\ Lives(w, {"run"}) /\ c.faults < MaxFaults
  /\ c' = [emit(c, w, "corrupt", None, 0) EXCEPT !.faults = @ + 1]

-----------------------------------------------------------------------------

Step(w) ==
  \/ OnReady(w) \/ OnFileDone(w) \/ OnAggregates(w) \/ OnCorruptFrame(w)
  \/ OnChannelClose(w) \/ on_process_exit(w)
  \/ WorkerReady(w) \/ WorkerReceive(w) \/ WorkerStartFile(w) \/ WorkerFinishFile(w)
  \/ WorkerExit(w) \/ WorkerKilled(w)

Fault(w) == WorkerDies(w) \/ WorkerCorrupts(w)

CoordNext ==
  \/ DriveStart \/ DriveEnd \/ maybe_scale_up \/ abort_all
  \/ \E w \in Workers : Step(w) \/ Fault(w)

\* Some callback that is due runs, or some process moves: the event loop blocks
\* only when no pipe and no exit is ready, the operating system runs the
\* processes and delivers the signals, and a test file ends (the test runner has
\* timeouts).  Nothing is assumed of who goes first, nor of the clock, of
\* interrupts or of faults.
CoordFairness == WF_c(DriveStart \/ DriveEnd \/ \E w \in Workers : Step(w))

CoordSpec == CoordInit /\ [][CoordNext]_c /\ CoordFairness

-----------------------------------------------------------------------------
(* Properties *)

Holders(f) == {w \in Workers : in_range(c, w, f)}
Runners(f) == {w \in Workers : c.inflight[w] = f}

\* Every file is in exactly one place, whatever was stolen, died, was respawned
\* or aborted: in one slot's range, dispatched to one worker, or counted once;
\* and files_done, which is_done() and the subtraction in maybe_scale_up() rely
\* on, is the number of files counted.
FilesPartition ==
  /\ \A f \in Files : Cardinality(Holders(f)) + Cardinality(Runners(f)) + c.counted[f] = 1
  /\ c.files_done = Cardinality({f \in Files : c.counted[f] = 1})

\* When drive() returns, every file was counted, as run or as failed, unless
\* --bail stopped the run: a run that lost its workers or aborted on a panic
\* does not end with files nobody mentions.
AllFilesReported ==
  c.phase = "finished" =>
    \/ \A f \in Files : c.counted[f] = 1
    \/ c.bail > 0 /\ c.fails >= c.bail

\* "Reaping waits for both this and ipc.done so trailing IPC frames are decoded
\* first" (Worker.rs): a file whose result left the worker before it died is
\* never charged to the crash, and no aggregate that a worker flushed is lost.
DeliveredResultsCount ==
  /\ c.crashed \cap c.written = {}
  /\ c.phase = "finished" => c.fragments = c.flushed

\* "Coordinator dispatches one .run and waits for .file_done before the next, so
\* a single slot is sufficient" (runner.rs): a living worker has, on its way to
\* it, in its slot, running or on the way back, the file that the coordinator
\* believes it has, and no other.
OneRunOutstanding ==
  \A w \in Workers : c.proc[w] \in Living /\ ~c.ipc_done[w] =>
    LET asked == {i \in DOMAIN c.inbox[w] : c.inbox[w][i].kind = "run"}
        answered == {i \in DOMAIN c.outbox[w] : c.outbox[w][i].kind = "file_done"}
        at == {c.inbox[w][i].idx : i \in asked} \cup {c.outbox[w][i].idx : i \in answered}
              \cup ({c.pending[w], c.running[w]} \ {None})
    IN /\ at = {c.inflight[w]} \ {None}
       /\ Cardinality(asked) + Cardinality(answered)
            + Cardinality({x \in {"pending", "running"} :
                             IF x = "pending" THEN c.pending[w] # None
                             ELSE c.running[w] # None}) <= 1

\* drive() returns or exits, whatever dies and whenever, as long as the faults
\* are finitely many: no slot waits for an event that will not come, and nobody
\* waits for files that no worker is left to run.
DriveTerminates == <>(c.phase \in {"finished", "exited"})

=============================================================================
