----------------------- MODULE TestCoordinatorProofs -----------------------
(* bun test --parallel, for any number of files, slots, faults and failures. *)
EXTENDS TestCoordinator, FiniteSetTheorems, FunctionTheorems, TLAPS

-----------------------------------------------------------------------------
(* The inductive invariant, of a state s because the functions of the source  *)
(* are operators on states.                                                   *)

\* The ranges lie within the files and do not overlap.
RangesOK(s) ==
  /\ \A w \in Workers : s.lo[w] <= s.hi[w] /\ s.hi[w] <= N
  /\ \A v, w \in Workers : \A f \in Files : in_range(s, v, f) /\ in_range(s, w, f) => v = w

Queued(s, f) == \E w \in Workers : in_range(s, w, f)
Dispatched(s, f) == \E w \in Workers : s.inflight[w] = f

\* A file is queued, dispatched or counted, and only one of them.
PlacesOK(s) ==
  /\ \A v, w \in Workers : s.inflight[v] = s.inflight[w] /\ s.inflight[v] # None => v = w
  /\ \A f \in Files :
       /\ s.counted[f] \in {0, 1}
       /\ s.counted[f] = 0 <=> Queued(s, f) \/ Dispatched(s, f)
       /\ ~(Queued(s, f) /\ Dispatched(s, f))

Counted(s) == {f \in Files : s.counted[f] = 1}

FilesOK(s) == RangesOK(s) /\ PlacesOK(s) /\ s.files_done = Cardinality(Counted(s))

\* A slot without a process has nothing dispatched to it, and neither has one
\* whose process has yet to say that it is ready.
LiveSlots(s) == {w \in Workers : s.proc[w] # "none"}
SlotsOK(s) ==
  /\ s.live = Cardinality(LiveSlots(s))
  /\ \A w \in Workers : s.spawned <= w => s.proc[w] = "none"
  /\ \A w \in Workers : s.proc[w] \in {"none", "boot"} => s.inflight[w] = None
  /\ \A w \in Workers : s.proc[w] = "boot" => s.outbox[w] = <<>>
  /\ \A w \in Workers : s.proc[w] = "run" => s.running[w] \in Files
  /\ s.phase = "start" => s.spawned = 0

FramesOK(s) ==
  \A w \in Workers : \A i \in DOMAIN s.outbox[w] :
    /\ s.outbox[w][i].kind = "ready" => i = 1 /\ s.inflight[w] = None
    /\ s.outbox[w][i].kind = "file_done" => s.outbox[w][i].idx \in Files

\* bail_out() and abort_on_worker_panic() are the two ways to stop early.
BailOK(s) ==
  s.bailed => \/ s.bail > 0 /\ s.fails >= s.bail
              \/ \A w \in Workers : s.lo[w] = s.hi[w]

Inv(s) ==
  /\ s \in State
  /\ FilesOK(s) /\ SlotsOK(s) /\ FramesOK(s) /\ BailOK(s)
  /\ s.phase = "finished" => is_done(s)

CoordInv == Inv(c)

-----------------------------------------------------------------------------
(* The state is a record: what an update leaves alone *)

Names == {"phase", "bail", "spawned", "live", "files_done", "fails", "bailed", "fragments",
          "lo", "hi", "inflight", "alive", "exit_status", "ipc_done", "proc", "inbox",
          "outbox", "pending", "running", "stop", "killed", "counted", "crashed", "written",
          "flushed", "faults", "failures"}

Only(s, t, fields) == \A x \in Names \ fields : t[x] = s[x]

LEMMA OnlyTwice ==
  ASSUME NEW s, NEW t, NEW u, NEW A, NEW B, Only(s, t, A), Only(t, u, B)
  PROVE  Only(s, u, A \cup B)
BY DEF Only

LEMMA Numbers ==
  /\ N \in Nat /\ K \in Nat /\ 1 < K /\ K <= N /\ None \notin Nat
  /\ \A w \in Workers : w \in Nat /\ w < K
  /\ \A f \in Files : f \in Nat /\ f < N /\ f # None
  /\ \A f \in Nat : f < N => f \in Files
  /\ IsFiniteSet(Workers) /\ Cardinality(Workers) = K
  /\ IsFiniteSet(Files) /\ Cardinality(Files) = N
<1>1. N \in Nat /\ K \in Nat /\ 1 < K /\ K <= N /\ None \notin Nat
  BY CoordAssumption
<1>2. /\ \A w \in Workers : w \in Nat /\ w < K
      /\ \A f \in Files : f \in Nat /\ f < N
      /\ \A f \in Nat : f < N => f \in Files
  BY <1>1 DEF Workers, Files
<1>3. \A f \in Files : f # None
  BY <1>1, <1>2
<1>4. /\ IsFiniteSet(Workers) /\ Cardinality(Workers) = K
      /\ IsFiniteSet(Files) /\ Cardinality(Files) = N
  <2>1. IsFiniteSet(Workers) /\ Cardinality(Workers) = K
    <3>1. Workers = 0 .. K - 1 /\ K - 1 \in Int /\ K - 1 >= 0 /\ (K - 1) - 0 + 1 = K
      BY <1>1 DEF Workers
    <3>2. QED
      BY <3>1, FS_Interval
  <2>2. IsFiniteSet(Files) /\ Cardinality(Files) = N
    <3>1. Files = 0 .. N - 1 /\ N - 1 \in Int /\ N - 1 >= 0 /\ (N - 1) - 0 + 1 = N
      BY <1>1 DEF Files
    <3>2. QED
      BY <3>1, FS_Interval
  <2>3. QED
    BY <2>1, <2>2
<1>5. QED
  BY <1>1, <1>2, <1>3, <1>4

LEMMA FieldTypes ==
  ASSUME NEW s \in State
  PROVE  /\ s.lo \in [Workers -> Nat] /\ s.hi \in [Workers -> Nat]
         /\ s.inflight \in [Workers -> Files \cup {None}]
         /\ s.counted \in [Files -> Nat] /\ s.files_done \in 0 .. N
         /\ s.live \in 0 .. K /\ s.spawned \in 0 .. K
         /\ s.fails \in Nat /\ s.bail \in Nat
         /\ s.proc \in [Workers -> Statuses \cup Living \cup {"none"}]
         /\ s.inbox \in [Workers -> Seq(Command)] /\ s.outbox \in [Workers -> Seq(Frame)]
         /\ s.pending \in [Workers -> Files \cup {None}]
         /\ s.running \in [Workers -> Files \cup {None}]
         /\ s.bailed \in BOOLEAN
BY DEF State

-----------------------------------------------------------------------------
(* How files move: popped and dispatched, stolen, counted, aborted *)

\* The same files are where they were.
SameFiles(s, t) ==
  /\ t.lo = s.lo /\ t.hi = s.hi /\ t.inflight = s.inflight
  /\ t.counted = s.counted /\ t.files_done = s.files_done

LEMMA SameFilesOK ==
  ASSUME NEW s, NEW t, FilesOK(s), SameFiles(s, t)
  PROVE  FilesOK(t)
BY DEF FilesOK, RangesOK, PlacesOK, Queued, Dispatched, Counted, in_range, SameFiles

\* pop_front() of a range, whose file is dispatched.
LEMMA PopFiles ==
  ASSUME NEW s \in State, NEW t, FilesOK(s), NEW w \in Workers,
         s.lo[w] < s.hi[w], s.inflight[w] = None,
         t.lo = [s.lo EXCEPT ![w] = s.lo[w] + 1], t.hi = s.hi,
         t.inflight = [s.inflight EXCEPT ![w] = s.lo[w]],
         t.counted = s.counted, t.files_done = s.files_done
  PROVE  FilesOK(t)
<1> DEFINE g == s.lo[w]
<1>1. /\ s.lo \in [Workers -> Nat] /\ s.hi \in [Workers -> Nat]
      /\ s.inflight \in [Workers -> Files \cup {None}]
  BY FieldTypes
<1>2. g \in Files /\ g \in Nat /\ g # None /\ in_range(s, w, g)
  BY <1>1, Numbers DEF FilesOK, RangesOK, in_range
<1>3. \A v \in Workers : \A f \in Files :
         in_range(t, v, f) <=> in_range(s, v, f) /\ f # g
  <2> SUFFICES ASSUME NEW v \in Workers, NEW f \in Files
               PROVE  in_range(t, v, f) <=> in_range(s, v, f) /\ f # g
    OBVIOUS
  <2>1. CASE v = w
    BY <1>1, <1>2, <2>1, Numbers DEF in_range
  <2>2. CASE v # w
    <3>1. in_range(s, v, f) => f # g
      BY <1>2, <2>2 DEF FilesOK, RangesOK
    <3>2. t.lo[v] = s.lo[v] /\ t.hi[v] = s.hi[v]
      BY <1>1, <2>2
    <3>3. QED
      BY <3>1, <3>2 DEF in_range
  <2>3. QED
    BY <2>1, <2>2
<1>4. RangesOK(t)
  <2>1. \A v \in Workers : t.lo[v] <= t.hi[v] /\ t.hi[v] <= N
    BY <1>1, Numbers DEF FilesOK, RangesOK
  <2>2. QED
    BY <1>3, <2>1 DEF FilesOK, RangesOK
<1>5. \A f \in Files : (Queued(t, f) <=> Queued(s, f) /\ f # g)
  BY <1>3 DEF Queued
<1>6. ~Dispatched(s, g) /\ Queued(s, g)
  BY <1>2 DEF FilesOK, PlacesOK, Queued
<1>7. \A v \in Workers : t.inflight[v] = IF v = w THEN g ELSE s.inflight[v]
  BY <1>1
<1> HIDE DEF g
<1>8. \A f \in Files : Dispatched(t, f) <=> Dispatched(s, f) \/ f = g
  BY <1>7, Numbers DEF Dispatched
<1>9. PlacesOK(t)
  <2>1. ASSUME NEW u \in Workers, NEW v \in Workers, t.inflight[u] = t.inflight[v],
               t.inflight[u] # None
        PROVE  u = v
    BY <1>6, <1>7, <2>1 DEF FilesOK, PlacesOK, Dispatched
  <2>2. ASSUME NEW f \in Files
        PROVE  /\ t.counted[f] \in {0, 1}
               /\ t.counted[f] = 0 <=> Queued(t, f) \/ Dispatched(t, f)
               /\ ~(Queued(t, f) /\ Dispatched(t, f))
    BY <1>2, <1>5, <1>6, <1>8 DEF FilesOK, PlacesOK
  <2>3. QED
    BY <2>1, <2>2 DEF PlacesOK
<1>10. QED
  BY <1>4, <1>9 DEF FilesOK, Counted

\* steal_back_half(): the same files are queued.
LEMMA StealFiles ==
  ASSUME NEW s \in State, NEW t, FilesOK(s), NEW w \in Workers, NEW v \in Workers,
         ~(s.lo[w] < s.hi[w]), NEW mid \in Nat, s.lo[v] <= mid, mid < s.hi[v],
         t.lo = [s.lo EXCEPT ![w] = mid],
         t.hi = [[s.hi EXCEPT ![v] = mid] EXCEPT ![w] = s.hi[v]],
         t.inflight = s.inflight, t.counted = s.counted, t.files_done = s.files_done
  PROVE  FilesOK(t) /\ t.lo[w] < t.hi[w]
<1>1. s.lo \in [Workers -> Nat] /\ s.hi \in [Workers -> Nat]
  BY FieldTypes
<1>2. v # w
  BY <1>1
<1>3. /\ t.lo[w] = mid /\ t.hi[w] = s.hi[v] /\ t.lo[v] = s.lo[v] /\ t.hi[v] = mid
      /\ \A u \in Workers \ {v, w} : t.lo[u] = s.lo[u] /\ t.hi[u] = s.hi[u]
  BY <1>1, <1>2
<1>4. RangesOK(s)
  BY DEF FilesOK
<1>5. \A f \in Files : /\ ~in_range(s, w, f)
                       /\ in_range(s, v, f) <=> in_range(t, v, f) \/ in_range(t, w, f)
                       /\ ~(in_range(t, v, f) /\ in_range(t, w, f))
  BY <1>1, <1>2, <1>3, Numbers DEF in_range
<1>6. \A u \in Workers \ {v, w} : \A f \in Files : in_range(t, u, f) <=> in_range(s, u, f)
  BY <1>3 DEF in_range
<1>7. \A u \in Workers : t.lo[u] <= t.hi[u] /\ t.hi[u] <= N
  <2>1. s.hi[v] \in Nat /\ s.hi[v] <= N /\ N \in Nat
    BY <1>1, <1>4, Numbers DEF RangesOK
  <2>2. QED
    BY <1>1, <1>2, <1>3, <1>4, <2>1 DEF RangesOK
<1>8. ASSUME NEW a \in Workers, NEW b \in Workers, NEW f \in Files,
             in_range(t, a, f), in_range(t, b, f)
      PROVE  a = b
  <2>1. CASE a \in {v, w} /\ b \in {v, w}
    BY <1>5, <1>8, <2>1
  <2>2. CASE a \in {v, w} /\ b \notin {v, w}
    <3>1. in_range(s, v, f) /\ in_range(s, b, f)
      BY <1>5, <1>6, <1>8, <2>2
    <3>2. QED
      BY <1>4, <2>2, <3>1 DEF RangesOK
  <2>3. CASE a \notin {v, w} /\ b \in {v, w}
    <3>1. in_range(s, a, f) /\ in_range(s, v, f)
      BY <1>5, <1>6, <1>8, <2>3
    <3>2. QED
      BY <1>4, <2>3, <3>1 DEF RangesOK
  <2>4. CASE a \notin {v, w} /\ b \notin {v, w}
    <3>1. in_range(s, a, f) /\ in_range(s, b, f)
      BY <1>6, <1>8, <2>4
    <3>2. QED
      BY <1>4, <3>1 DEF RangesOK
  <2>5. QED
    BY <2>1, <2>2, <2>3, <2>4
<1>9. RangesOK(t)
  BY <1>7, <1>8 DEF RangesOK
<1>10. \A f \in Files : Queued(t, f) <=> Queued(s, f)
  BY <1>5, <1>6 DEF Queued
<1>11. \A f \in Files : Dispatched(t, f) <=> Dispatched(s, f)
  BY DEF Dispatched
<1>12. PlacesOK(t)
  BY <1>10, <1>11 DEF FilesOK, PlacesOK
<1>13. QED
  BY <1>2, <1>3, <1>9, <1>12 DEF FilesOK, Counted

LEMMA CountedFinite ==
  ASSUME NEW s
  PROVE  IsFiniteSet(Counted(s)) /\ Cardinality(Counted(s)) \in Nat
                                 /\ Cardinality(Counted(s)) <= N
<1>1. Counted(s) \in SUBSET Files
  BY DEF Counted
<1>2. QED
  BY <1>1, Numbers, FS_Subset, FS_CardinalityType

\* A file that was dispatched is counted, as run or as crashed.
LEMMA CountFile ==
  ASSUME NEW s \in State, NEW t, FilesOK(s), NEW w \in Workers, NEW g \in Files,
         s.inflight[w] = g,
         t.lo = s.lo, t.hi = s.hi,
         t.inflight = [s.inflight EXCEPT ![w] = None],
         t.counted = [s.counted EXCEPT ![g] = s.counted[g] + 1],
         t.files_done = s.files_done + 1
  PROVE  FilesOK(t) /\ s.files_done < N
<1>1. /\ s.inflight \in [Workers -> Files \cup {None}] /\ s.counted \in [Files -> Nat]
      /\ g # None
  BY FieldTypes, Numbers
<1>2. s.counted[g] = 0 /\ Dispatched(s, g) /\ ~Queued(s, g)
  BY DEF FilesOK, PlacesOK, Dispatched
<1>3. \A f \in Files : t.counted[f] = IF f = g THEN 1 ELSE s.counted[f]
  BY <1>1, <1>2
<1>4. \A v \in Workers : t.inflight[v] = IF v = w THEN None ELSE s.inflight[v]
  BY <1>1
<1>5. \A f \in Files : Queued(t, f) <=> Queued(s, f)
  BY DEF Queued, in_range
<1>6. \A f \in Files : Dispatched(t, f) <=> Dispatched(s, f) /\ f # g
  <2>1. \A v \in Workers : s.inflight[v] = g => v = w
    BY <1>1 DEF FilesOK, PlacesOK
  <2>2. QED
    BY <1>4, <2>1, Numbers DEF Dispatched
<1>7. PlacesOK(t)
  <2>1. ASSUME NEW u \in Workers, NEW v \in Workers, t.inflight[u] = t.inflight[v],
               t.inflight[u] # None
        PROVE  u = v
    BY <1>4, <2>1 DEF FilesOK, PlacesOK
  <2>2. ASSUME NEW f \in Files
        PROVE  /\ t.counted[f] \in {0, 1}
               /\ t.counted[f] = 0 <=> Queued(t, f) \/ Dispatched(t, f)
               /\ ~(Queued(t, f) /\ Dispatched(t, f))
    BY <1>2, <1>3, <1>5, <1>6 DEF FilesOK, PlacesOK
  <2>3. QED
    BY <2>1, <2>2 DEF PlacesOK
<1>8. RangesOK(t)
  BY DEF FilesOK, RangesOK, in_range
<1>9. Counted(t) = Counted(s) \cup {g} /\ g \notin Counted(s)
  BY <1>2, <1>3 DEF Counted
<1>10. Cardinality(Counted(t)) = Cardinality(Counted(s)) + 1
  <2>1. IsFiniteSet(Counted(s))
    BY CountedFinite
  <2>2. Cardinality(Counted(s) \cup {g}) = Cardinality(Counted(s)) + 1
    BY <1>9, <2>1, FS_AddElement
  <2>3. QED
    BY <1>9, <2>2
<1>11. s.files_done = Cardinality(Counted(s)) /\ Cardinality(Counted(t)) <= N
  BY CountedFinite DEF FilesOK
<1>12. s.files_done < N
  BY <1>10, <1>11, CountedFinite, Numbers
<1>13. QED
  BY <1>7, <1>8, <1>10, <1>11, <1>12 DEF FilesOK

\* abort_queued_files(): every file that is queued is counted.
QueuedPairs(s) == {q \in Workers \X Files : in_range(s, q[1], q[2])}
EmptyRanges(s) == [w \in Workers |-> IF s.lo[w] < s.hi[w] THEN s.hi[w] ELSE s.lo[w]]
CountsAfter(s) ==
  [f \in Files |-> s.counted[f] + Cardinality({q \in QueuedPairs(s) : q[2] = f})]

LEMMA AbortFiles ==
  ASSUME NEW s \in State, NEW t, FilesOK(s),
         t.lo = EmptyRanges(s), t.hi = s.hi, t.inflight = s.inflight,
         t.counted = CountsAfter(s),
         t.files_done = s.files_done + Cardinality(QueuedPairs(s))
  PROVE  /\ FilesOK(t)
         /\ \A w \in Workers : t.lo[w] = t.hi[w]
         /\ Cardinality(QueuedPairs(s)) \in Nat /\ t.files_done \in 0 .. N
         /\ CountsAfter(s) \in [Files -> Nat]
<1> DEFINE queued == QueuedPairs(s)
           G == {f \in Files : Queued(s, f)}
           holder(f) == CHOOSE w \in Workers : in_range(s, w, f)
           F == [f \in G |-> <<holder(f), f>>]
<1>1. /\ s.lo \in [Workers -> Nat] /\ s.hi \in [Workers -> Nat]
      /\ s.counted \in [Files -> Nat] /\ RangesOK(s) /\ PlacesOK(s)
  BY FieldTypes DEF FilesOK
<1>2. \A f \in G : holder(f) \in Workers /\ in_range(s, holder(f), f)
  BY DEF Queued
<1>3. \A q \in queued : /\ q = <<q[1], q[2]>> /\ q[1] \in Workers /\ q[2] \in G
                        /\ q[1] = holder(q[2])
  <2> SUFFICES ASSUME NEW q \in queued
               PROVE  /\ q = <<q[1], q[2]>> /\ q[1] \in Workers /\ q[2] \in G
                      /\ q[1] = holder(q[2])
    OBVIOUS
  <2>1. q = <<q[1], q[2]>> /\ q[1] \in Workers /\ q[2] \in Files /\ in_range(s, q[1], q[2])
    BY DEF QueuedPairs
  <2>2. q[2] \in G
    BY <2>1 DEF Queued
  <2>3. QED
    BY <1>1, <1>2, <2>1, <2>2 DEF RangesOK
<1>4. \A f \in G : F[f] = <<holder(f), f>> /\ F[f] \in queued
  BY <1>2 DEF QueuedPairs
<1> HIDE DEF holder
<1>5. F \in [G -> queued]
  BY <1>4
<1>6. \A a, b \in G : F[a] = F[b] => a = b
  BY <1>4
<1>7. \A q \in queued : \E f \in G : F[f] = q
  BY <1>3, <1>4
<1>8. F \in Bijection(G, queued)
  BY <1>5, <1>6, <1>7, Fun_IsBij
<1>9. IsFiniteSet(G) /\ Cardinality(G) \in Nat
  BY Numbers, FS_Subset, FS_CardinalityType
<1>10. Cardinality(queued) = Cardinality(G)
  BY <1>8, <1>9, Fun_ExistsBij, FS_Bijection
<1>11. \A f \in Files : Cardinality({q \in queued : q[2] = f}) = IF f \in G THEN 1 ELSE 0
  <2>1. ASSUME NEW f \in Files, f \in G PROVE Cardinality({q \in queued : q[2] = f}) = 1
    <3>1. {q \in queued : q[2] = f} = {<<holder(f), f>>}
      BY <1>3, <1>4, <2>1
    <3>2. QED
      BY <3>1, FS_Singleton
  <2>2. ASSUME NEW f \in Files, f \notin G PROVE Cardinality({q \in queued : q[2] = f}) = 0
    <3>1. {q \in queued : q[2] = f} = {}
      BY <1>3, <2>2
    <3>2. QED
      BY <3>1, FS_EmptySet
  <2>3. QED
    BY <2>1, <2>2
<1>12. \A f \in Files : t.counted[f] = s.counted[f] + (IF f \in G THEN 1 ELSE 0)
  BY <1>11 DEF CountsAfter
<1>13. CountsAfter(s) \in [Files -> Nat]
  <2>1. ASSUME NEW f \in Files
        PROVE  s.counted[f] + Cardinality({q \in queued : q[2] = f}) \in Nat
    <3>1. s.counted[f] \in Nat
      BY <1>1
    <3>2. Cardinality({q \in queued : q[2] = f}) \in {0, 1}
      BY <1>11
    <3>3. QED
      BY <3>1, <3>2
  <2>2. QED
    BY <2>1 DEF CountsAfter
<1>14. \A w \in Workers : t.lo[w] = t.hi[w] /\ t.hi[w] = s.hi[w]
  BY <1>1 DEF RangesOK, EmptyRanges
<1>15. \A w \in Workers : \A f \in Files : ~in_range(t, w, f)
  BY <1>1, <1>14, Numbers DEF in_range
<1>16. RangesOK(t)
  BY <1>1, <1>14, <1>15 DEF RangesOK
<1>17. \A f \in Files : ~Queued(t, f) /\ (Dispatched(t, f) <=> Dispatched(s, f))
  BY <1>15 DEF Queued, Dispatched
<1>18. \A f \in Files : f \in G <=> Queued(s, f)
  OBVIOUS
<1> HIDE DEF G
<1>19. PlacesOK(t)
  <2>1. ASSUME NEW f \in Files
        PROVE  /\ t.counted[f] \in {0, 1}
               /\ t.counted[f] = 0 <=> Queued(t, f) \/ Dispatched(t, f)
               /\ ~(Queued(t, f) /\ Dispatched(t, f))
    BY <1>1, <1>12, <1>17, <1>18 DEF PlacesOK
  <2>2. QED
    BY <1>1, <2>1 DEF PlacesOK
<1>20. Counted(t) = Counted(s) \cup G /\ Counted(s) \cap G = {}
  <2>1. \A f \in Files : f \in G => s.counted[f] = 0
    BY <1>1, <1>18 DEF PlacesOK
  <2>2. G \subseteq Files
    BY DEF G
  <2>3. \A f \in Files : t.counted[f] = 1 <=> s.counted[f] = 1 \/ f \in G
    BY <1>1, <1>12, <2>1 DEF PlacesOK
  <2>4. QED
    BY <2>1, <2>2, <2>3 DEF Counted
<1>21. Cardinality(Counted(t)) = Cardinality(Counted(s)) + Cardinality(G)
  <2>1. IsFiniteSet(Counted(s)) /\ Cardinality(Counted(s)) \in Nat
    BY CountedFinite
  <2>2. Cardinality(Counted(s) \cup G)
          = Cardinality(Counted(s)) + Cardinality(G) - Cardinality(Counted(s) \cap G)
    BY <1>9, <2>1, FS_Union
  <2>3. Cardinality(Counted(s) \cap G) = 0
    BY <1>20, FS_EmptySet
  <2>4. QED
    BY <1>9, <1>20, <2>1, <2>2, <2>3
<1>22. t.files_done = Cardinality(Counted(t))
  BY <1>10, <1>21 DEF FilesOK
<1>23. t.files_done \in 0 .. N
  BY <1>22, CountedFinite, Numbers
<1>24. QED
  BY <1>9, <1>10, <1>13, <1>14, <1>16, <1>19, <1>22, <1>23 DEF FilesOK

\* runner.rs: range w is the w-th of K shares of the files.
LEMMA DivLess ==
  ASSUME NEW a \in Nat, NEW k \in Nat \ {0}, NEW f \in Nat
  PROVE  a \div k \in Nat /\ (a \div k <= f <=> a < (f + 1) * k)
<1> DEFINE q == a \div k
<1>1. q \in Nat /\ k * q <= a /\ a < k * q + k
  OBVIOUS
<1> HIDE DEF q
<1>2. q <= f => k * q <= k * f
  BY <1>1
<1>3. q > f => k * (f + 1) <= k * q
  BY <1>1
<1>4. k * (f + 1) = k * f + k /\ (f + 1) * k = k * f + k
  OBVIOUS
<1>5. k * f \in Nat /\ k * q \in Nat
  BY <1>1
<1>6. QED
  BY <1>1, <1>2, <1>3, <1>4, <1>5 DEF q

LEMMA Shares ==
  ASSUME NEW w \in Workers, NEW f \in Nat
  PROVE  /\ (w * N) \div K \in Nat /\ ((w + 1) * N) \div K \in Nat
         /\ (w * N) \div K <= f <=> w * N < (f + 1) * K
         /\ f < ((w + 1) * N) \div K <=> (f + 1) * K <= (w + 1) * N
<1>1. K \in Nat \ {0} /\ w * N \in Nat /\ (w + 1) * N \in Nat /\ (f + 1) * K \in Nat
  BY Numbers
<1>2. (w * N) \div K \in Nat /\ ((w * N) \div K <= f <=> w * N < (f + 1) * K)
  BY <1>1, DivLess
<1>3. /\ ((w + 1) * N) \div K \in Nat
      /\ ((w + 1) * N) \div K <= f <=> (w + 1) * N < (f + 1) * K
  BY <1>1, DivLess
<1>4. QED
  BY <1>1, <1>2, <1>3

LEMMA InitFiles == CoordInit => FilesOK(c)
<1> SUFFICES ASSUME CoordInit PROVE FilesOK(c)
  OBVIOUS
<1> DEFINE m(f) == (f + 1) * K
<1>1. \A w \in Workers : c.lo[w] = (w * N) \div K /\ c.hi[w] = ((w + 1) * N) \div K
  BY DEF CoordInit
<1>2. /\ \A w \in Workers : c.inflight[w] = None
      /\ \A f \in Files : c.counted[f] = 0
      /\ c.files_done = 0
  BY DEF CoordInit
<1>3. \A w \in Workers : \A f \in Files : in_range(c, w, f) <=> w * N < m(f) /\ m(f) <= (w + 1) * N
  BY <1>1, Shares, Numbers DEF in_range
<1>4. ASSUME NEW w \in Workers PROVE c.lo[w] <= c.hi[w] /\ c.hi[w] <= N
  <2>1. w \in Nat /\ N \in Nat /\ K \in Nat \ {0} /\ w + 1 <= K
    BY Numbers
  <2>2. c.lo[w] \in Nat /\ c.hi[w] \in Nat
    BY <1>1, <2>1, Shares
  <2>3. w * N <= (w + 1) * N /\ (w + 1) * N <= K * N /\ K * N < (N + 1) * K
    BY <2>1
  <2>4. (w + 1) * N < (c.hi[w] + 1) * K
    <3>1. (w + 1) * N \in Nat /\ ((w + 1) * N) \div K <= c.hi[w]
      BY <1>1, <2>1, <2>2
    <3>2. QED
      BY <2>1, <2>2, <3>1, DivLess
  <2>5. w * N \in Nat /\ (w + 1) * N \in Nat /\ K * N \in Nat
        /\ (c.hi[w] + 1) * K \in Nat /\ (N + 1) * K \in Nat
    BY <2>1, <2>2
  <2>6. w * N < (c.hi[w] + 1) * K
    BY <2>3, <2>4, <2>5
  <2>7. c.lo[w] <= c.hi[w]
    BY <1>1, <2>1, <2>2, <2>5, <2>6, DivLess
  <2>8. (w + 1) * N < (N + 1) * K
    BY <2>3, <2>5
  <2>9. c.hi[w] <= N
    BY <1>1, <2>1, <2>5, <2>8, DivLess
  <2>10. QED
    BY <2>7, <2>9
<1>5. ASSUME NEW v \in Workers, NEW w \in Workers, NEW f \in Files,
             in_range(c, v, f), in_range(c, w, f), v < w
      PROVE  FALSE
  <2>1. v \in Nat /\ w \in Nat /\ N \in Nat /\ m(f) \in Nat
    BY Numbers
  <2>2. (v + 1) * N <= w * N
    BY <1>5, <2>1
  <2>3. m(f) <= (v + 1) * N /\ w * N < m(f)
    BY <1>3, <1>5
  <2> HIDE DEF m
  <2>4. QED
    BY <2>1, <2>2, <2>3
<1>6. RangesOK(c)
  <2>1. ASSUME NEW v \in Workers, NEW w \in Workers, NEW f \in Files,
               in_range(c, v, f), in_range(c, w, f)
        PROVE  v = w
    <3>1. v \in Nat /\ w \in Nat
      BY Numbers
    <3>2. ~(v < w) /\ ~(w < v)
      BY <1>5, <2>1
    <3>3. QED
      BY <3>1, <3>2
  <2>2. QED
    BY <1>4, <2>1 DEF RangesOK
<1>7. ASSUME NEW f \in Files PROVE Queued(c, f)
  <2> DEFINE w == (m(f) - 1) \div N
  <2>1. f \in Nat /\ f + 1 <= N /\ N \in Nat \ {0} /\ K \in Nat \ {0}
    BY Numbers
  <2>2. m(f) \in Nat /\ m(f) - 1 \in Nat /\ m(f) <= N * K
    BY <2>1
  <2> HIDE DEF m
  <2>3. w \in Nat /\ N * w <= m(f) - 1 /\ m(f) - 1 < N * w + N
    BY <2>1, <2>2
  <2> HIDE DEF w
  <2>4. N * w = w * N /\ (w + 1) * N = N * w + N /\ N * w \in Nat
    BY <2>1, <2>3
  <2>5. w * N < m(f) /\ m(f) <= (w + 1) * N
    BY <2>1, <2>2, <2>3, <2>4
  <2>6. w < K
    <3>1. SUFFICES ASSUME K <= w PROVE FALSE
      BY <2>1, <2>3
    <3>2. N * K <= N * w
      BY <2>1, <2>3, <3>1
    <3>3. QED
      BY <2>1, <2>2, <2>4, <2>5, <3>2
  <2>7. w \in Workers
    BY <2>1, <2>3, <2>6 DEF Workers
  <2>8. QED
    BY <1>3, <2>5, <2>7 DEF Queued
<1>8. PlacesOK(c)
  <2>1. \A f \in Files : ~Dispatched(c, f)
    BY <1>2, Numbers DEF Dispatched
  <2>2. QED
    BY <1>2, <1>7, <2>1 DEF PlacesOK
<1>9. Counted(c) = {}
  BY <1>2 DEF Counted
<1>10. QED
  BY <1>2, <1>6, <1>8, <1>9, FS_EmptySet DEF FilesOK

-----------------------------------------------------------------------------
(* The functions of the source *)

LEMMA SetLo ==
  ASSUME NEW s \in State, NEW lo \in [Workers -> Nat]
  PROVE  LET t == [s EXCEPT !.lo = lo] IN t \in State /\ t.lo = lo /\ Only(s, t, {"lo"})
BY DEF State, Only, Names

LEMMA SetRanges ==
  ASSUME NEW s \in State, NEW lo \in [Workers -> Nat], NEW hi \in [Workers -> Nat]
  PROVE  LET t == [s EXCEPT !.lo = lo, !.hi = hi]
         IN  t \in State /\ t.lo = lo /\ t.hi = hi /\ Only(s, t, {"lo", "hi"})
BY DEF State, Only, Names

LEMMA SendFacts ==
  ASSUME NEW s \in State, NEW w \in Workers, NEW x \in Command
  PROVE  send(s, w, x) \in State /\ Only(s, send(s, w, x), {"inbox"})
<1> DEFINE inbox == [s.inbox EXCEPT ![w] = Append(s.inbox[w], x)]
<1>1. inbox \in [Workers -> Seq(Command)]
  BY FieldTypes
<1>2. [s EXCEPT !.inbox[w] = Append(@, x)] = [s EXCEPT !.inbox = inbox]
  BY DEF State
<1> HIDE DEF inbox
<1>3. [s EXCEPT !.inbox = inbox] \in State
  BY <1>1 DEF State
<1>4. Only(s, [s EXCEPT !.inbox = inbox], {"inbox"})
  BY DEF Only, Names, State
<1>5. Only(s, s, {"inbox"})
  BY DEF Only
<1>6. QED
  BY <1>2, <1>3, <1>4, <1>5 DEF send

LEMMA ShutdownFacts ==
  ASSUME NEW s \in State, NEW w \in Workers
  PROVE  shutdown(s, w) \in State /\ Only(s, shutdown(s, w), {"inbox"})
<1>1. [kind |-> "shutdown", idx |-> None] \in Command
  BY DEF Command
<1>2. QED
  BY <1>1, SendFacts DEF shutdown

LEMMA DispatchFacts ==
  ASSUME NEW s \in State, NEW w \in Workers, NEW f \in Files
  PROVE  LET t == dispatch(s, w, f)
         IN  t \in State /\ Only(s, t, {"inbox", "inflight"})
             /\ t.inflight = [s.inflight EXCEPT ![w] = f]
<1> DEFINE r == send(s, w, [kind |-> "run", idx |-> f])
           inflight == [s.inflight EXCEPT ![w] = f]
<1>1. [kind |-> "run", idx |-> f] \in Command
  BY DEF Command
<1>2. r \in State /\ Only(s, r, {"inbox"})
  BY <1>1, SendFacts
<1> HIDE DEF r
<1>3. r.inflight = s.inflight
  BY <1>2 DEF Only, Names
<1>4. [r EXCEPT !.inflight[w] = f] = [r EXCEPT !.inflight = inflight]
  BY <1>2, <1>3 DEF State
<1>5. inflight \in [Workers -> Files \cup {None}]
  BY FieldTypes
<1> HIDE DEF inflight
<1>6. /\ [r EXCEPT !.inflight = inflight] \in State
      /\ [r EXCEPT !.inflight = inflight].inflight = inflight
      /\ Only(r, [r EXCEPT !.inflight = inflight], {"inflight"})
  BY <1>2, <1>5 DEF State, Only, Names
<1>7. Only(s, [r EXCEPT !.inflight = inflight], {"inbox", "inflight"})
  BY <1>2, <1>6 DEF Only
<1>8. QED
  BY <1>4, <1>6, <1>7 DEF dispatch, r, inflight

\* pop_front() and dispatch.
LEMMA PopFacts ==
  ASSUME NEW s \in State, FilesOK(s), NEW w \in Workers,
         s.lo[w] < s.hi[w], s.inflight[w] = None
  PROVE  LET t == pop_and_dispatch(s, w)
         IN  /\ t \in State /\ FilesOK(t)
             /\ Only(s, t, {"inbox", "inflight", "lo"})
             /\ \A v \in Workers \ {w} : t.inflight[v] = s.inflight[v]
<1> DEFINE lo == [s.lo EXCEPT ![w] = s.lo[w] + 1]
           r == [s EXCEPT !.lo = lo]
           t == pop_and_dispatch(s, w)
<1>1. /\ s.lo \in [Workers -> Nat] /\ s.hi \in [Workers -> Nat]
      /\ s.inflight \in [Workers -> Files \cup {None}]
  BY FieldTypes
<1>2. s.lo[w] \in Files
  BY <1>1, Numbers DEF FilesOK, RangesOK
<1>3. lo \in [Workers -> Nat]
  BY <1>1
<1>4. [s EXCEPT !.lo[w] = @ + 1] = r
  BY <1>1 DEF State
<1> HIDE DEF lo
<1>5. r \in State /\ r.lo = lo /\ Only(s, r, {"lo"})
  BY <1>3, SetLo
<1>6. t = dispatch(r, w, s.lo[w])
  BY <1>4 DEF pop_and_dispatch
<1> HIDE DEF r, t
<1>7. /\ t \in State /\ Only(r, t, {"inbox", "inflight"})
      /\ t.inflight = [r.inflight EXCEPT ![w] = s.lo[w]]
  BY <1>2, <1>5, <1>6, DispatchFacts
<1>8. Only(s, t, {"inbox", "inflight", "lo"})
  BY <1>5, <1>7 DEF Only
<1>9. r.inflight = s.inflight /\ t.lo = r.lo
  BY <1>5, <1>7 DEF Only, Names
<1>10. t.lo = [s.lo EXCEPT ![w] = s.lo[w] + 1]
  BY <1>5, <1>9 DEF lo
<1>11. t.hi = s.hi /\ t.counted = s.counted /\ t.files_done = s.files_done
  BY <1>8 DEF Only, Names
<1>12. t.inflight = [s.inflight EXCEPT ![w] = s.lo[w]]
  BY <1>7, <1>9
<1>13. FilesOK(t)
  BY <1>10, <1>11, <1>12, PopFiles
<1>14. \A v \in Workers \ {w} : t.inflight[v] = s.inflight[v]
  BY <1>1, <1>12
<1>15. QED
  BY <1>7, <1>8, <1>13, <1>14 DEF t

\* The thief goes on with a range that is not empty.
LEMMA StealFacts ==
  ASSUME NEW s \in State, FilesOK(s), NEW w \in Workers, NEW v \in Workers,
         ~(s.lo[w] < s.hi[w]), len(s, v) > 0
  PROVE  LET t == steal_back_half(s, w, v)
         IN  /\ t \in State /\ FilesOK(t) /\ t.lo[w] < t.hi[w]
             /\ Only(s, t, {"lo", "hi"})
<1> DEFINE mid == s.lo[v] + len(s, v) \div 2
           lo == [s.lo EXCEPT ![w] = mid]
           hi == [[s.hi EXCEPT ![v] = mid] EXCEPT ![w] = s.hi[v]]
           t == [s EXCEPT !.lo = lo, !.hi = hi]
<1>1. s.lo \in [Workers -> Nat] /\ s.hi \in [Workers -> Nat]
  BY FieldTypes
<1>2. mid \in Nat /\ s.lo[v] <= mid /\ mid < s.hi[v]
  BY <1>1 DEF len
<1> HIDE DEF mid
<1>3. lo \in [Workers -> Nat] /\ hi \in [Workers -> Nat]
  BY <1>1, <1>2
<1>4. [s EXCEPT !.hi[v] = mid, !.lo[w] = mid, !.hi[w] = s.hi[v]] = t
  BY <1>1 DEF State
<1> HIDE DEF lo, hi
<1>5. t \in State /\ t.lo = lo /\ t.hi = hi /\ Only(s, t, {"lo", "hi"})
  BY <1>3, SetRanges
<1> HIDE DEF t
<1>6. t.inflight = s.inflight /\ t.counted = s.counted /\ t.files_done = s.files_done
  BY <1>5 DEF Only, Names
<1>7. FilesOK(t) /\ t.lo[w] < t.hi[w]
  <2>1. t.lo = [s.lo EXCEPT ![w] = mid]
    BY <1>5 DEF lo
  <2>2. t.hi = [[s.hi EXCEPT ![v] = mid] EXCEPT ![w] = s.hi[v]]
    BY <1>5 DEF hi
  <2>3. QED
    BY <1>2, <1>6, <2>1, <2>2, StealFiles
<1>8. steal_back_half(s, w, v) = t
  BY <1>4 DEF steal_back_half, mid
<1>9. QED
  BY <1>5, <1>7, <1>8

\* assign_work(), for a worker to which nothing is dispatched.
LEMMA AssignFacts ==
  ASSUME NEW s \in State, FilesOK(s), NEW w \in Workers, s.inflight[w] = None
  PROVE  LET t == assign_work(s, w)
         IN  /\ t \in State /\ FilesOK(t)
             /\ Only(s, t, {"inbox", "inflight", "lo", "hi"})
             /\ \A v \in Workers \ {w} : t.inflight[v] = s.inflight[v]
             /\ s.bailed => t.lo = s.lo /\ t.hi = s.hi
<1> DEFINE t == assign_work(s, w)
<1>1. CASE t = shutdown(s, w)
  <2>1. t \in State /\ Only(s, t, {"inbox"})
    BY <1>1, ShutdownFacts
  <2> HIDE DEF t
  <2>2. SameFiles(s, t)
    BY <2>1 DEF SameFiles, Only, Names
  <2>3. FilesOK(t)
    BY <2>2, SameFilesOK
  <2>4. Only(s, t, {"inbox", "inflight", "lo", "hi"})
    BY <2>1 DEF Only
  <2>5. QED
    BY <2>1, <2>2, <2>3, <2>4 DEF SameFiles, t
<1>2. CASE ~s.bailed /\ s.lo[w] < s.hi[w] /\ t = pop_and_dispatch(s, w)
  <2>1. /\ t \in State /\ FilesOK(t)
        /\ Only(s, t, {"inbox", "inflight", "lo"})
        /\ \A v \in Workers \ {w} : t.inflight[v] = s.inflight[v]
    BY <1>2, PopFacts
  <2> HIDE DEF t
  <2>2. Only(s, t, {"inbox", "inflight", "lo", "hi"})
    BY <2>1 DEF Only
  <2>3. QED
    BY <1>2, <2>1, <2>2 DEF t
<1>3. CASE /\ ~s.bailed /\ ~(s.lo[w] < s.hi[w])
           /\ \E v \in Workers : /\ is_steal_victim(s, v)
                                 /\ t = pop_and_dispatch(steal_back_half(s, w, v), w)
  <2>1. PICK v \in Workers : /\ is_steal_victim(s, v)
                             /\ t = pop_and_dispatch(steal_back_half(s, w, v), w)
    BY <1>3
  <2> DEFINE r == steal_back_half(s, w, v)
  <2>2. /\ r \in State /\ FilesOK(r) /\ r.lo[w] < r.hi[w]
        /\ Only(s, r, {"lo", "hi"})
    BY <1>3, <2>1, StealFacts DEF is_steal_victim
  <2>3. t = pop_and_dispatch(r, w)
    BY <2>1
  <2> HIDE DEF r, t
  <2>4. r.inflight = s.inflight
    BY <2>2 DEF Only, Names
  <2>5. /\ t \in State /\ FilesOK(t)
        /\ Only(r, t, {"inbox", "inflight", "lo"})
        /\ \A u \in Workers \ {w} : t.inflight[u] = r.inflight[u]
    BY <2>2, <2>3, <2>4, PopFacts
  <2>6. Only(s, t, {"inbox", "inflight", "lo", "hi"})
    BY <2>2, <2>5 DEF Only
  <2>7. QED
    BY <1>3, <2>4, <2>5, <2>6 DEF t
<1>4. QED
  BY <1>1, <1>2, <1>3 DEF assign_work

LEMMA BailFacts ==
  ASSUME NEW s \in State, BailOK(s)
  PROVE  LET t == bail_if_due(s)
         IN  t \in State /\ BailOK(t) /\ Only(s, t, {"bailed", "inbox"})
<1> DEFINE inbox == [w \in Workers |->
                       IF w < s.spawned /\ s.alive[w] /\ s.inflight[w] = None
                         THEN shutdown(s, w).inbox[w] ELSE s.inbox[w]]
           r == [s EXCEPT !.bailed = TRUE, !.inbox = inbox]
<1>1. \A w \in Workers : shutdown(s, w).inbox[w] \in Seq(Command) /\ s.inbox[w] \in Seq(Command)
  BY ShutdownFacts, FieldTypes
<1>2. inbox \in [Workers -> Seq(Command)]
  BY <1>1
<1>3. bail_out(s) = IF s.bailed THEN s ELSE r
  BY DEF bail_out
<1> HIDE DEF inbox
<1>4. r \in State /\ Only(s, r, {"bailed", "inbox"})
  BY <1>2 DEF State, Only, Names
<1> HIDE DEF r
<1>5. s.bail > 0 /\ s.fails >= s.bail => BailOK(r)
  BY <1>4 DEF BailOK, Only, Names
<1>6. Only(s, s, {"bailed", "inbox"})
  BY DEF Only
<1>7. QED
  BY <1>3, <1>4, <1>5, <1>6 DEF bail_if_due

LEMMA AccountFacts ==
  ASSUME NEW s \in State, BailOK(s), NEW f \in Files, s.files_done < N
  PROVE  LET t == account_crash(s, f)
         IN  /\ t \in State /\ BailOK(t)
             /\ Only(s, t, {"bailed", "inbox", "fails", "files_done", "counted", "crashed"})
             /\ t.files_done = s.files_done + 1
             /\ t.counted = [s.counted EXCEPT ![f] = s.counted[f] + 1]
<1> DEFINE fails == s.fails + 1
           done == s.files_done + 1
           counted == [s.counted EXCEPT ![f] = s.counted[f] + 1]
           crashed == s.crashed \cup {f}
           r == [s EXCEPT !.fails = fails, !.files_done = done, !.counted = counted,
                          !.crashed = crashed]
           t == account_crash(s, f)
<1>1. fails \in Nat /\ done \in 0 .. N /\ counted \in [Files -> Nat]
  BY FieldTypes, Numbers
<1>2. crashed \in SUBSET Files
  BY DEF State
<1>3. [s EXCEPT !.fails = @ + 1, !.files_done = @ + 1, !.counted[f] = @ + 1,
                !.crashed = @ \cup {f}] = r
  BY DEF State
<1>4. t = bail_if_due(r)
  BY <1>3 DEF account_crash
<1> HIDE DEF fails, done, counted, crashed, t
<1>5. /\ r \in State
      /\ r.fails = fails /\ r.files_done = done /\ r.counted = counted
      /\ Only(s, r, {"fails", "files_done", "counted", "crashed"})
  BY <1>1, <1>2 DEF State, Only, Names
<1> HIDE DEF r
<1>6. BailOK(r)
  <2>1. /\ r.bailed = s.bailed /\ r.bail = s.bail /\ r.lo = s.lo /\ r.hi = s.hi
        /\ r.fails = s.fails + 1
    BY <1>5 DEF Only, Names, fails
  <2>2. s.fails \in Nat /\ s.bail \in Nat
    BY FieldTypes
  <2>3. QED
    BY <2>1, <2>2 DEF BailOK
<1>7. t \in State /\ BailOK(t) /\ Only(r, t, {"bailed", "inbox"})
  BY <1>4, <1>5, <1>6, BailFacts
<1>8. Only(s, t, {"bailed", "inbox", "fails", "files_done", "counted", "crashed"})
  BY <1>5, <1>7 DEF Only
<1>9. t.files_done = done /\ t.counted = counted
  BY <1>5, <1>7 DEF Only, Names
<1>10. QED
  BY <1>7, <1>8, <1>9 DEF t, done, counted

LEMMA AbortFacts ==
  ASSUME NEW s \in State, FilesOK(s)
  PROVE  LET t == abort_queued_files(s)
         IN  /\ t \in State /\ FilesOK(t)
             /\ \A w \in Workers : t.lo[w] = t.hi[w]
             /\ Only(s, t, {"lo", "fails", "files_done", "counted", "crashed"})
<1> DEFINE n == Cardinality(QueuedPairs(s))
           crashed == s.crashed \cup {q[2] : q \in QueuedPairs(s)}
           t == [s EXCEPT !.lo = EmptyRanges(s), !.fails = s.fails + n,
                          !.files_done = s.files_done + n, !.counted = CountsAfter(s),
                          !.crashed = crashed]
<1>1. EmptyRanges(s) \in [Workers -> Nat]
  BY FieldTypes DEF EmptyRanges
<1>2. crashed \in SUBSET Files
  BY DEF State, QueuedPairs
<1>3. abort_queued_files(s) = t
  BY DEF abort_queued_files, State, QueuedPairs, EmptyRanges, CountsAfter
<1> HIDE DEF crashed, n
<1>4. /\ t.lo = EmptyRanges(s) /\ t.files_done = s.files_done + n /\ t.counted = CountsAfter(s)
      /\ Only(s, t, {"lo", "fails", "files_done", "counted", "crashed"})
  BY DEF State, Only, Names
<1>5. /\ FilesOK(t) /\ \A w \in Workers : t.lo[w] = t.hi[w]
      /\ n \in Nat /\ s.files_done + n \in 0 .. N /\ CountsAfter(s) \in [Files -> Nat]
  <2> HIDE DEF t
  <2>1. t.hi = s.hi /\ t.inflight = s.inflight
    BY <1>4 DEF Only, Names
  <2>2. QED
    BY <1>4, <2>1, AbortFiles DEF n
<1>6. s.fails + n \in Nat
  BY <1>5, FieldTypes
<1>7. t \in State
  BY <1>1, <1>2, <1>5, <1>6 DEF State
<1>8. QED
  BY <1>3, <1>4, <1>5, <1>7

\* What reap_worker() may touch before it starts or releases the slot.
ReapFields == {"live", "exit_status", "inflight", "proc", "bailed", "inbox", "fails",
               "files_done", "counted", "crashed", "killed", "lo"}

\* abort_on_worker_panic()
LEMMA PanicFacts ==
  ASSUME NEW s \in State, FilesOK(s), BailOK(s)
  PROVE  LET t == abort_on_worker_panic(s)
         IN  /\ t \in State /\ FilesOK(t) /\ BailOK(t)
             /\ Only(s, t, {"killed", "bailed", "lo", "fails", "files_done", "counted",
                            "crashed"})
<1> DEFINE killed == [w \in Workers |-> s.killed[w] \/ (w < s.spawned /\ s.alive[w])]
           r == [s EXCEPT !.killed = killed]
           q == [r EXCEPT !.bailed = TRUE]
           t == abort_queued_files(q)
<1>1. killed \in [Workers -> BOOLEAN]
  OBVIOUS
<1>2. abort_on_worker_panic(s) = IF s.bailed THEN r ELSE t
  BY DEF abort_on_worker_panic
<1> HIDE DEF killed
<1>3. r \in State /\ Only(s, r, {"killed"})
  BY <1>1 DEF State, Only, Names
<1> HIDE DEF r
<1>4. q \in State /\ Only(r, q, {"bailed"})
  BY <1>3 DEF State, Only, Names
<1> HIDE DEF q
<1>5. SameFiles(s, r) /\ SameFiles(s, q)
  BY <1>3, <1>4 DEF SameFiles, Only, Names
<1>6. FilesOK(r) /\ FilesOK(q)
  BY <1>5, SameFilesOK
<1>7. BailOK(r)
  BY <1>3 DEF BailOK, Only, Names
<1>8. /\ t \in State /\ FilesOK(t)
      /\ \A w \in Workers : t.lo[w] = t.hi[w]
      /\ Only(q, t, {"lo", "fails", "files_done", "counted", "crashed"})
  BY <1>4, <1>6, AbortFacts
<1> HIDE DEF t
<1>9. BailOK(t)
  BY <1>8 DEF BailOK
<1>10. /\ Only(s, r, {"killed", "bailed", "lo", "fails", "files_done", "counted", "crashed"})
       /\ Only(s, t, {"killed", "bailed", "lo", "fails", "files_done", "counted", "crashed"})
  BY <1>3, <1>4, <1>8 DEF Only
<1>11. QED
  BY <1>2, <1>3, <1>6, <1>7, <1>8, <1>9, <1>10

\* charge_inflight()
LEMMA ChargeFacts ==
  ASSUME NEW s \in State, FilesOK(s), BailOK(s), NEW w \in Workers, s.live > 0
  PROVE  LET t == charge_inflight(s, w)
         IN  /\ t \in State /\ FilesOK(t) /\ BailOK(t)
             /\ t.live = s.live - 1
             /\ t.inflight = [s.inflight EXCEPT ![w] = None]
             /\ Only(s, t, ReapFields \ {"proc"})
<1> DEFINE live == s.live - 1
           exits == [s.exit_status EXCEPT ![w] = None]
           f == s.inflight[w]
           r == [s EXCEPT !.live = live, !.exit_status = exits]
           a == account_crash(r, f)
           inflight == [s.inflight EXCEPT ![w] = None]
           d == [a EXCEPT !.inflight = inflight]
           t == charge_inflight(s, w)
<1>1. live \in 0 .. K /\ exits \in [Workers -> Statuses \cup {None}]
  BY FieldTypes, Numbers, SMTT(30) DEF State
<1>2. [s EXCEPT !.live = @ - 1, !.exit_status[w] = None] = r
  BY DEF State
<1> HIDE DEF live, exits
<1>3. r \in State /\ r.live = live /\ Only(s, r, {"live", "exit_status"})
  BY <1>1 DEF State, Only, Names
<1>4. t = IF f = None THEN r
          ELSE IF s.exit_status[w] = "panicked"
                 THEN abort_on_worker_panic([a EXCEPT !.inflight[w] = None])
                 ELSE [a EXCEPT !.inflight[w] = None]
  BY <1>2 DEF charge_inflight
<1> HIDE DEF r, t
<1>5. SameFiles(s, r) /\ BailOK(r)
  BY <1>3 DEF SameFiles, BailOK, Only, Names
<1>6. FilesOK(r)
  BY <1>5, SameFilesOK
<1>7. inflight \in [Workers -> Files \cup {None}] /\ f \in Files \cup {None}
  BY FieldTypes
<1>8. CASE f = None
  <2>1. t = r
    BY <1>4, <1>8
  <2>2. s.inflight = inflight
    BY <1>8, FieldTypes
  <2>3. r.inflight = inflight
    BY <1>5, <2>2 DEF SameFiles
  <2>4. Only(s, r, ReapFields \ {"proc"})
    BY <1>3 DEF Only, ReapFields
  <2>5. QED
    BY <1>3, <1>5, <1>6, <2>1, <2>3, <2>4 DEF live, t
<1>9. CASE f # None
  <2> HIDE DEF inflight, f
  <2>1. f \in Files
    BY <1>7, <1>9
  <2>2. r.files_done < N
    <3> DEFINE u == [inflight |-> [r.inflight EXCEPT ![w] = None], lo |-> r.lo, hi |-> r.hi,
                     counted |-> [r.counted EXCEPT ![f] = r.counted[f] + 1],
                     files_done |-> r.files_done + 1]
    <3>1. r.inflight[w] = f
      BY <1>5 DEF SameFiles, f
    <3>2. /\ u.inflight = [r.inflight EXCEPT ![w] = None] /\ u.lo = r.lo /\ u.hi = r.hi
          /\ u.counted = [r.counted EXCEPT ![f] = r.counted[f] + 1]
          /\ u.files_done = r.files_done + 1
      OBVIOUS
    <3> HIDE DEF u
    <3>3. QED
      BY <1>3, <1>6, <2>1, <3>1, <3>2, CountFile
  <2>3. /\ a \in State /\ BailOK(a)
        /\ Only(r, a, {"bailed", "inbox", "fails", "files_done", "counted", "crashed"})
        /\ a.files_done = r.files_done + 1
        /\ a.counted = [r.counted EXCEPT ![f] = r.counted[f] + 1]
    BY <1>3, <1>5, <2>1, <2>2, AccountFacts
  <2> HIDE DEF a
  <2>4. a.inflight = s.inflight /\ a.lo = r.lo /\ a.hi = r.hi
    BY <1>5, <2>3 DEF SameFiles, Only, Names
  <2>5. [a EXCEPT !.inflight[w] = None] = d
    BY <2>3, <2>4 DEF State, inflight
  <2>6. d \in State /\ d.inflight = inflight /\ Only(a, d, {"inflight"})
    BY <1>7, <2>3 DEF State, Only, Names
  <2> HIDE DEF d
  <2>7. FilesOK(d)
    <3>1. d.lo = r.lo /\ d.hi = r.hi /\ d.counted = a.counted /\ d.files_done = a.files_done
      BY <2>4, <2>6 DEF Only, Names
    <3>2. d.inflight = [r.inflight EXCEPT ![w] = None] /\ r.inflight[w] = f
      BY <1>5, <2>6 DEF SameFiles, inflight, f
    <3>3. QED
      BY <1>3, <1>6, <2>1, <2>3, <3>1, <3>2, CountFile
  <2>8. BailOK(d)
    BY <2>3, <2>6 DEF BailOK, Only, Names
  <2>9. Only(s, d, ReapFields \ {"proc"}) /\ d.live = live
    BY <1>3, <2>3, <2>6 DEF Only, ReapFields, Names
  <2>10. CASE s.exit_status[w] # "panicked"
    <3>1. t = d
      BY <1>4, <1>9, <2>5, <2>10
    <3>2. QED
      BY <2>6, <2>7, <2>8, <2>9, <3>1 DEF t, live, inflight
  <2>11. CASE s.exit_status[w] = "panicked"
    <3>1. t = abort_on_worker_panic(d)
      BY <1>4, <1>9, <2>5, <2>11
    <3>2. /\ t \in State /\ FilesOK(t) /\ BailOK(t)
          /\ Only(d, t, {"killed", "bailed", "lo", "fails", "files_done", "counted",
                         "crashed"})
      BY <2>6, <2>7, <2>8, <3>1, PanicFacts
    <3>3. t.live = d.live /\ t.inflight = d.inflight
      BY <3>2 DEF Only, Names
    <3>4. Only(s, t, ReapFields \ {"proc"})
      BY <2>9, <3>2 DEF Only, ReapFields
    <3>5. QED
      BY <2>6, <2>9, <3>2, <3>3, <3>4 DEF t, live, inflight
  <2>12. QED
    BY <2>10, <2>11
<1>10. QED
  BY <1>8, <1>9

-----------------------------------------------------------------------------
(* How slots change hands: started, reaped, released *)

\* What the part of the invariant about slots and frames reads.
SameSlots(s, t) ==
  /\ t.phase = s.phase /\ t.spawned = s.spawned /\ t.live = s.live
  /\ t.inflight = s.inflight /\ t.proc = s.proc /\ t.outbox = s.outbox
  /\ t.running = s.running

LEMMA SameSlotsOK ==
  ASSUME NEW s, NEW t, Inv(s), SameSlots(s, t), s.phase = "driving",
         t \in State, FilesOK(t), BailOK(t)
  PROVE  Inv(t)
BY DEF Inv, SlotsOK, LiveSlots, FramesOK, SameSlots

LEMMA LiveSlotsFinite ==
  ASSUME NEW s
  PROVE  IsFiniteSet(LiveSlots(s)) /\ Cardinality(LiveSlots(s)) \in Nat
<1>1. LiveSlots(s) \in SUBSET Workers
  BY DEF LiveSlots
<1>2. QED
  BY <1>1, Numbers, FS_Subset, FS_CardinalityType

StartFields == {"alive", "live", "ipc_done", "proc", "inbox", "outbox", "pending", "running",
                "stop", "killed"}

\* start()
LEMMA StartFacts ==
  ASSUME NEW s \in State, NEW ws \in SUBSET Workers, s.live + Cardinality(ws) <= K
  PROVE  LET t == start(s, ws)
         IN  /\ t \in State /\ Only(s, t, StartFields)
             /\ t.live = s.live + Cardinality(ws)
             /\ \A w \in ws : t.proc[w] = "boot" /\ t.outbox[w] = <<>>
             /\ \A w \in Workers \ ws : /\ t.proc[w] = s.proc[w] /\ t.outbox[w] = s.outbox[w]
                                        /\ t.running[w] = s.running[w]
<1> DEFINE Set(field, v) == [w \in Workers |-> IF w \in ws THEN v ELSE field[w]]
           alive == Set(s.alive, TRUE)
           live == s.live + Cardinality(ws)
           ipc_done == Set(s.ipc_done, FALSE)
           proc == Set(s.proc, "boot")
           inbox == Set(s.inbox, <<>>)
           outbox == Set(s.outbox, <<>>)
           pending == Set(s.pending, None)
           running == Set(s.running, None)
           stop == Set(s.stop, FALSE)
           killed == Set(s.killed, FALSE)
           t == [s EXCEPT !.alive = alive, !.live = live, !.ipc_done = ipc_done,
                          !.proc = proc, !.inbox = inbox, !.outbox = outbox,
                          !.pending = pending, !.running = running, !.stop = stop,
                          !.killed = killed]
<1>1. IsFiniteSet(ws) /\ Cardinality(ws) \in Nat
  BY Numbers, FS_Subset, FS_CardinalityType
<1>2. live \in 0 .. K
  BY <1>1, FieldTypes, Numbers
<1>3. /\ alive \in [Workers -> BOOLEAN] /\ ipc_done \in [Workers -> BOOLEAN]
      /\ stop \in [Workers -> BOOLEAN] /\ killed \in [Workers -> BOOLEAN]
  BY DEF State
<1>4. proc \in [Workers -> Statuses \cup Living \cup {"none"}]
  BY FieldTypes DEF Living
<1>5. inbox \in [Workers -> Seq(Command)] /\ outbox \in [Workers -> Seq(Frame)]
  BY FieldTypes
<1>6. pending \in [Workers -> Files \cup {None}] /\ running \in [Workers -> Files \cup {None}]
  BY FieldTypes
<1>7. start(s, ws) = t
  BY DEF start, State
<1>8. /\ \A w \in ws : proc[w] = "boot" /\ outbox[w] = <<>>
      /\ \A w \in Workers \ ws : /\ proc[w] = s.proc[w] /\ outbox[w] = s.outbox[w]
                                 /\ running[w] = s.running[w]
  OBVIOUS
<1> HIDE DEF alive, live, ipc_done, proc, inbox, outbox, pending, running, stop, killed
<1>9. t \in State
  BY <1>2, <1>3, <1>4, <1>5, <1>6 DEF State
<1>10. Only(s, t, StartFields)
  BY DEF State, Only, Names, StartFields
<1>11. t.live = live /\ t.proc = proc /\ t.outbox = outbox /\ t.running = running
  BY DEF State
<1>12. QED
  BY <1>7, <1>8, <1>9, <1>10, <1>11 DEF live

\* The slots that start() was called for, empty before, hold processes that boot.
LEMMA StartSlots ==
  ASSUME NEW s, NEW t, Inv(s), t \in State, NEW ws \in SUBSET Workers,
         \A w \in ws : s.proc[w] = "none" /\ w < t.spawned,
         s.spawned <= t.spawned, t.live = s.live + Cardinality(ws),
         \A w \in ws : t.proc[w] = "boot" /\ t.outbox[w] = <<>>,
         \A w \in Workers \ ws : /\ t.proc[w] = s.proc[w] /\ t.outbox[w] = s.outbox[w]
                                 /\ t.running[w] = s.running[w],
         t.inflight = s.inflight, t.phase \notin {"start", "finished"},
         FilesOK(t), BailOK(t)
  PROVE  Inv(t)
<1>1. s \in State /\ SlotsOK(s) /\ FramesOK(s)
  BY DEF Inv
<1>2. t.live = Cardinality(LiveSlots(t))
  <2>1. LiveSlots(t) = LiveSlots(s) \cup ws /\ LiveSlots(s) \cap ws = {}
    BY DEF LiveSlots
  <2>2. IsFiniteSet(ws) /\ Cardinality(ws) \in Nat
    BY Numbers, FS_Subset, FS_CardinalityType
  <2>3. IsFiniteSet(LiveSlots(s)) /\ Cardinality(LiveSlots(s)) \in Nat
    BY LiveSlotsFinite
  <2>4. Cardinality(LiveSlots(t)) = Cardinality(LiveSlots(s)) + Cardinality(ws) - Cardinality({})
    BY <2>1, <2>2, <2>3, FS_Union
  <2>5. QED
    BY <1>1, <2>2, <2>3, <2>4, FS_EmptySet DEF SlotsOK
<1>3. ASSUME NEW w \in Workers, t.spawned <= w PROVE t.proc[w] = "none"
  <2>1. w \notin ws /\ s.spawned <= w
    BY <1>1, <1>3, FieldTypes, Numbers
  <2>2. QED
    BY <1>1, <2>1 DEF SlotsOK
<1>4. \A w \in Workers : t.proc[w] \in {"none", "boot"} => t.inflight[w] = None
  BY <1>1 DEF SlotsOK
<1>5. \A w \in Workers : t.proc[w] = "boot" => t.outbox[w] = <<>>
  BY <1>1 DEF SlotsOK
<1>6. \A w \in Workers : t.proc[w] = "run" => t.running[w] \in Files
  BY <1>1 DEF SlotsOK
<1>7. SlotsOK(t)
  BY <1>2, <1>3, <1>4, <1>5, <1>6 DEF SlotsOK
<1>8. FramesOK(t)
  <2>1. \A w \in ws : DOMAIN t.outbox[w] = {}
    OBVIOUS
  <2>2. QED
    BY <1>1, <2>1 DEF FramesOK
<1>9. QED
  BY <1>7, <1>8 DEF Inv

\* The slot is left empty, and the files are aborted if nobody is left.
LEMMA ReleaseInv ==
  ASSUME NEW s, Inv(s), s.phase = "driving", NEW w \in Workers
  PROVE  Inv(release(s, w))
<1> DEFINE r == IF ~s.bailed /\ s.live = 0 THEN abort_queued_files(s) ELSE s
           done == [r.ipc_done EXCEPT ![w] = FALSE]
           t == [r EXCEPT !.ipc_done = done]
<1>1. s \in State /\ FilesOK(s) /\ BailOK(s)
  BY DEF Inv
<1>2. /\ r \in State /\ FilesOK(r) /\ BailOK(r)
      /\ Only(s, r, {"lo", "fails", "files_done", "counted", "crashed"})
  <2>1. CASE ~s.bailed /\ s.live = 0
    <3>1. r = abort_queued_files(s)
      BY <2>1
    <3> HIDE DEF r
    <3>2. /\ r \in State /\ FilesOK(r)
          /\ Only(s, r, {"lo", "fails", "files_done", "counted", "crashed"})
      BY <1>1, <3>1, AbortFacts
    <3>3. ~r.bailed
      BY <2>1, <3>2 DEF Only, Names
    <3>4. QED
      BY <3>2, <3>3 DEF BailOK
  <2>2. CASE ~(~s.bailed /\ s.live = 0)
    <3>1. r = s
      BY <2>2
    <3>2. QED
      BY <1>1, <3>1 DEF Only
  <2>3. QED
    BY <2>1, <2>2
<1>3. release(s, w) = [r EXCEPT !.ipc_done[w] = FALSE]
  BY DEF release
<1> HIDE DEF r
<1>4. [r EXCEPT !.ipc_done[w] = FALSE] = t /\ done \in [Workers -> BOOLEAN]
  BY <1>2 DEF State
<1> HIDE DEF done
<1>5. t \in State /\ Only(r, t, {"ipc_done"})
  BY <1>2, <1>4 DEF State, Only, Names
<1> HIDE DEF t
<1>6. SameFiles(r, t) /\ BailOK(t)
  BY <1>2, <1>5 DEF SameFiles, BailOK, Only, Names
<1>7. SameSlots(s, t)
  BY <1>2, <1>5 DEF SameSlots, Only, Names
<1>8. FilesOK(t)
  BY <1>2, <1>6, SameFilesOK
<1>9. QED
  BY <1>3, <1>4, <1>5, <1>6, <1>7, <1>8, SameSlotsOK

\* reap_worker() up to the respawn: the slot holds no process.
LEMMA ReapedInv ==
  ASSUME NEW s, Inv(s), s.phase = "driving", NEW w \in Workers, s.proc[w] # "none"
  PROVE  LET r == [charge_inflight(s, w) EXCEPT !.proc[w] = "none"]
         IN  /\ Inv(r) /\ r.phase = "driving" /\ r.live < K
             /\ r.proc[w] = "none" /\ w < r.spawned
<1> DEFINE a == charge_inflight(s, w)
           proc == [s.proc EXCEPT ![w] = "none"]
           r == [a EXCEPT !.proc = proc]
<1>1. s \in State /\ FilesOK(s) /\ BailOK(s) /\ SlotsOK(s) /\ FramesOK(s)
  BY DEF Inv
<1>2. w \in LiveSlots(s) /\ LiveSlots(s) \ {w} = LiveSlots(s) \ {w}
  BY DEF LiveSlots
<1>3. /\ IsFiniteSet(LiveSlots(s)) /\ Cardinality(LiveSlots(s)) \in Nat
      /\ IsFiniteSet(LiveSlots(s) \ {w}) /\ Cardinality(LiveSlots(s) \ {w}) \in Nat
      /\ Cardinality(LiveSlots(s) \ {w}) = Cardinality(LiveSlots(s)) - 1
  BY <1>2, LiveSlotsFinite, FS_RemoveElement, FS_CardinalityType
<1>4. s.live > 0 /\ s.live \in 0 .. K
  BY <1>1, <1>3, FieldTypes DEF SlotsOK
<1>5. /\ a \in State /\ FilesOK(a) /\ BailOK(a)
      /\ a.live = s.live - 1
      /\ a.inflight = [s.inflight EXCEPT ![w] = None]
      /\ Only(s, a, ReapFields \ {"proc"})
  BY <1>1, <1>4, ChargeFacts
<1> HIDE DEF a
<1>6. a.proc = s.proc
  BY <1>5 DEF Only, Names, ReapFields
<1>7. [a EXCEPT !.proc[w] = "none"] = r
  BY <1>5, <1>6 DEF State
<1>8. proc \in [Workers -> Statuses \cup Living \cup {"none"}]
  BY <1>1, FieldTypes
<1>9. \A v \in Workers : proc[v] = IF v = w THEN "none" ELSE s.proc[v]
  BY <1>1, FieldTypes
<1> HIDE DEF proc
<1>10. r \in State /\ r.proc = proc /\ Only(a, r, {"proc"})
  BY <1>5, <1>8 DEF State, Only, Names
<1> HIDE DEF r
<1>11. SameFiles(a, r) /\ BailOK(r)
  BY <1>5, <1>10 DEF SameFiles, BailOK, Only, Names
<1>12. FilesOK(r)
  BY <1>5, <1>11, SameFilesOK
<1>13. /\ r.phase = "driving" /\ r.spawned = s.spawned /\ r.live = s.live - 1
       /\ r.outbox = s.outbox /\ r.running = s.running
  BY <1>5, <1>10 DEF Only, Names, ReapFields
<1>14. \A v \in Workers : r.inflight[v] = IF v = w THEN None ELSE s.inflight[v]
  BY <1>1, <1>5, <1>11, FieldTypes DEF SameFiles
<1>15. w < s.spawned
  BY <1>1, FieldTypes, Numbers DEF SlotsOK
<1>16. SlotsOK(r)
  <2>1. LiveSlots(r) = LiveSlots(s) \ {w}
    BY <1>9, <1>10 DEF LiveSlots
  <2>2. r.live = Cardinality(LiveSlots(r))
    BY <1>1, <1>3, <1>13, <2>1 DEF SlotsOK
  <2>3. \A v \in Workers : r.spawned <= v => r.proc[v] = "none"
    BY <1>1, <1>9, <1>10, <1>13 DEF SlotsOK
  <2>4. \A v \in Workers : r.proc[v] \in {"none", "boot"} => r.inflight[v] = None
    BY <1>1, <1>9, <1>10, <1>14 DEF SlotsOK
  <2>5. \A v \in Workers : r.proc[v] = "boot" => r.outbox[v] = <<>>
    BY <1>1, <1>9, <1>10, <1>13 DEF SlotsOK
  <2>6. \A v \in Workers : r.proc[v] = "run" => r.running[v] \in Files
    BY <1>1, <1>9, <1>10, <1>13 DEF SlotsOK
  <2>7. QED
    BY <1>13, <2>2, <2>3, <2>4, <2>5, <2>6 DEF SlotsOK
<1>17. FramesOK(r)
  BY <1>1, <1>13, <1>14 DEF FramesOK
<1>18. Inv(r)
  BY <1>10, <1>11, <1>12, <1>13, <1>16, <1>17 DEF Inv
<1>19. r.live < K
  BY <1>4, <1>13, Numbers
<1>20. r.proc[w] = "none" /\ w < r.spawned
  BY <1>9, <1>10, <1>13, <1>15
<1>21. QED
  BY <1>7, <1>13, <1>18, <1>19, <1>20 DEF a

LEMMA ReapInv ==
  ASSUME NEW s, Inv(s), s.phase = "driving", NEW w \in Workers, s.proc[w] # "none",
         NEW t \in reap_worker(s, w)
  PROVE  Inv(t)
<1> DEFINE r == [charge_inflight(s, w) EXCEPT !.proc[w] = "none"]
           q == [r EXCEPT !.failures = r.failures + 1]
<1>1. /\ Inv(r) /\ r.phase = "driving" /\ r.live < K /\ r.proc[w] = "none" /\ w < r.spawned
  BY ReapedInv
<1>2. t \in {start(r, {w}), release(r, w), release(q, w)}
  BY DEF reap_worker
<1> HIDE DEF r
<1>3. r \in State /\ FilesOK(r) /\ BailOK(r)
  BY <1>1 DEF Inv
<1>4. CASE t = start(r, {w})
  <2>1. {w} \in SUBSET Workers /\ Cardinality({w}) = 1
    BY FS_Singleton
  <2>2. r.live + Cardinality({w}) <= K
    BY <1>1, <1>3, <2>1, FieldTypes, Numbers
  <2>3. /\ t \in State /\ Only(r, t, StartFields)
        /\ t.live = r.live + Cardinality({w})
        /\ \A v \in {w} : t.proc[v] = "boot" /\ t.outbox[v] = <<>>
        /\ \A v \in Workers \ {w} : /\ t.proc[v] = r.proc[v] /\ t.outbox[v] = r.outbox[v]
                                    /\ t.running[v] = r.running[v]
    BY <1>3, <1>4, <2>1, <2>2, StartFacts
  <2>4. SameFiles(r, t) /\ BailOK(t)
    BY <1>3, <2>3 DEF SameFiles, BailOK, Only, Names, StartFields
  <2>5. FilesOK(t)
    BY <1>3, <2>4, SameFilesOK
  <2>6. /\ t.spawned = r.spawned /\ t.phase = "driving" /\ t.inflight = r.inflight
        /\ r.spawned <= t.spawned
    BY <1>1, <1>3, <2>3, FieldTypes DEF Only, Names, StartFields
  <2>7. QED
    BY <1>1, <2>1, <2>3, <2>4, <2>5, <2>6, StartSlots
<1>5. CASE t = release(r, w)
  BY <1>1, <1>5, ReleaseInv
<1>6. CASE t = release(q, w)
  <2>1. r.failures + 1 \in Nat
    BY <1>3 DEF State
  <2>2. q \in State /\ Only(r, q, {"failures"})
    BY <1>3, <2>1 DEF State, Only, Names
  <2> HIDE DEF q
  <2>3. SameFiles(r, q) /\ SameSlots(r, q) /\ BailOK(q)
    BY <1>3, <2>2 DEF SameFiles, SameSlots, BailOK, Only, Names
  <2>4. FilesOK(q)
    BY <1>3, <2>3, SameFilesOK
  <2>5. Inv(q) /\ q.phase = "driving"
    BY <1>1, <2>2, <2>3, <2>4, SameSlotsOK DEF SameSlots
  <2>6. QED
    BY <1>6, <2>5, ReleaseInv
<1>7. QED
  BY <1>2, <1>4, <1>5, <1>6

LEMMA TryReapInv ==
  ASSUME NEW s, Inv(s), s.phase = "driving", NEW w \in Workers, s.proc[w] # "none",
         NEW t \in try_reap(s, w)
  PROVE  Inv(t)
<1>1. t = s \/ t \in reap_worker(s, w)
  BY DEF try_reap
<1>2. QED
  BY <1>1, ReapInv

-----------------------------------------------------------------------------
(* One lemma for each action *)

LEMMA InitInv == CoordInit => CoordInv
<1> SUFFICES ASSUME CoordInit PROVE Inv(c)
  BY DEF CoordInv
<1>1. FilesOK(c)
  BY InitFiles
<1> DEFINE lo == [w \in Workers |-> (w * N) \div K]
           hi == [w \in Workers |-> ((w + 1) * N) \div K]
           nothing == [w \in Workers |-> None]
           no == [w \in Workers |-> FALSE]
           none == [w \in Workers |-> "none"]
           empty == [w \in Workers |-> <<>>]
           zero == [f \in Files |-> 0]
<1>2. lo \in [Workers -> Nat] /\ hi \in [Workers -> Nat]
  BY Shares, Numbers
<1>3. /\ nothing \in [Workers -> Files \cup {None}]
      /\ nothing \in [Workers -> Statuses \cup {None}]
      /\ no \in [Workers -> BOOLEAN]
      /\ none \in [Workers -> Statuses \cup Living \cup {"none"}]
      /\ empty \in [Workers -> Seq(Command)] /\ empty \in [Workers -> Seq(Frame)]
      /\ zero \in [Files -> Nat]
  OBVIOUS
<1>4. c \in [phase : {"start"}, bail : Bails, spawned : {0}, live : {0},
             files_done : {0}, fails : {0}, bailed : {FALSE}, fragments : {0},
             lo : {lo}, hi : {hi}, inflight : {nothing}, alive : {no},
             exit_status : {nothing}, ipc_done : {no}, proc : {none},
             inbox : {empty}, outbox : {empty}, pending : {nothing}, running : {nothing},
             stop : {no}, killed : {no}, counted : {zero}, crashed : {{}}, written : {{}},
             flushed : {0}, faults : {0}, failures : {0}]
  BY DEF CoordInit
<1>5. \A w \in Workers : none[w] = "none" /\ nothing[w] = None /\ empty[w] = <<>>
  OBVIOUS
<1> HIDE DEF lo, hi, nothing, no, none, empty, zero
<1>6. /\ c \in State
      /\ c.phase = "start" /\ c.spawned = 0 /\ c.live = 0 /\ c.bailed = FALSE
      /\ \A w \in Workers : /\ c.proc[w] = "none" /\ c.inflight[w] = None
                            /\ c.outbox[w] = <<>>
  <2>1. Bails \subseteq Nat /\ 0 \in 0 .. K /\ 0 \in 0 .. N
    BY CoordAssumption
  <2>2. c \in State
    <3> DEFINE R(bail, m, n, z, e, bailed) ==
             [phase |-> "start", bail |-> bail, spawned |-> m, live |-> m,
              files_done |-> n, fails |-> z, bailed |-> bailed, fragments |-> z,
              lo |-> lo, hi |-> hi, inflight |-> nothing, alive |-> no,
              exit_status |-> nothing, ipc_done |-> no, proc |-> none,
              inbox |-> empty, outbox |-> empty, pending |-> nothing, running |-> nothing,
              stop |-> no, killed |-> no, counted |-> zero, crashed |-> e, written |-> e,
              flushed |-> z, faults |-> z, failures |-> z]
    <3>1. c = R(c.bail, 0, 0, 0, {}, FALSE)
      BY <1>4
    <3>2. c.bail \in Nat /\ {} \in SUBSET Files /\ FALSE \in BOOLEAN /\ 0 \in Nat
      BY <1>4, <2>1
    <3>3. ASSUME NEW bail \in Nat, NEW m \in 0 .. K, NEW n \in 0 .. N, NEW z \in Nat,
                 NEW e \in SUBSET Files, NEW bailed \in BOOLEAN
          PROVE  R(bail, m, n, z, e, bailed) \in State
      BY <1>2, <1>3 DEF State
    <3> HIDE DEF R
    <3>4. R(c.bail, 0, 0, 0, {}, FALSE) \in State
      BY <2>1, <3>2, <3>3
    <3>5. QED
      BY <3>1, <3>4
  <2>3. /\ c.phase = "start" /\ c.spawned = 0 /\ c.live = 0 /\ c.bailed = FALSE
        /\ c.proc = none /\ c.inflight = nothing /\ c.outbox = empty
    BY <1>4
  <2>4. QED
    BY <1>5, <2>2, <2>3
<1>7. LiveSlots(c) = {}
  BY <1>6 DEF LiveSlots
<1>8. SlotsOK(c)
  BY <1>6, <1>7, FS_EmptySet DEF SlotsOK
<1>9. FramesOK(c) /\ BailOK(c)
  BY <1>6 DEF FramesOK, BailOK
<1>10. QED
  BY <1>1, <1>6, <1>8, <1>9 DEF Inv

SpawnFields == StartFields \cup {"spawned"}

\* spawn_worker(), until n slots are in use.
LEMMA SpawnFacts ==
  ASSUME NEW s, Inv(s), NEW n \in 0 .. K, s.spawned <= n
  PROVE  LET t == spawn_workers(s, n)
             ws == s.spawned .. n - 1
         IN  /\ t \in State /\ Only(s, t, SpawnFields)
             /\ ws \in SUBSET Workers
             /\ \A w \in ws : s.proc[w] = "none" /\ w < n
             /\ t.spawned = n /\ t.live = s.live + Cardinality(ws)
             /\ \A w \in ws : t.proc[w] = "boot" /\ t.outbox[w] = <<>>
             /\ \A w \in Workers \ ws : /\ t.proc[w] = s.proc[w] /\ t.outbox[w] = s.outbox[w]
                                        /\ t.running[w] = s.running[w]
<1> DEFINE ws == s.spawned .. n - 1
           q == start(s, ws)
           r == [q EXCEPT !.spawned = n]
<1>1. s \in State /\ SlotsOK(s)
  BY DEF Inv
<1>2. n \in Nat /\ n <= K /\ s.spawned \in Nat /\ K \in Nat /\ s.live \in Nat
  BY <1>1, FieldTypes, Numbers
<1>3. ws \in SUBSET Workers
  BY <1>2 DEF Workers
<1>4. Cardinality(ws) = n - s.spawned
  <2>1. s.spawned \in Int /\ n - 1 \in Int
    BY <1>2
  <2>2. Cardinality(ws) = IF s.spawned > n - 1 THEN 0 ELSE (n - 1) - s.spawned + 1
    BY <2>1, FS_Interval
  <2>3. QED
    BY <1>2, <2>2
<1>5. s.live <= s.spawned
  <2>1. LiveSlots(s) \in SUBSET (0 .. s.spawned - 1)
    BY <1>1, <1>2, Numbers DEF LiveSlots, SlotsOK
  <2>2. IsFiniteSet(0 .. s.spawned - 1) /\ Cardinality(0 .. s.spawned - 1) = s.spawned
    <3>1. 0 \in Int /\ s.spawned - 1 \in Int
      BY <1>2
    <3>2. /\ IsFiniteSet(0 .. s.spawned - 1)
          /\ Cardinality(0 .. s.spawned - 1) =
               IF 0 > s.spawned - 1 THEN 0 ELSE (s.spawned - 1) - 0 + 1
      BY <3>1, FS_Interval
    <3>3. QED
      BY <1>2, <3>2
  <2>3. Cardinality(LiveSlots(s)) <= Cardinality(0 .. s.spawned - 1)
    BY <2>1, <2>2, FS_Subset
  <2>4. QED
    BY <1>1, <2>2, <2>3 DEF SlotsOK
<1>6. s.live + Cardinality(ws) <= K
  BY <1>2, <1>4, <1>5
<1>7. \A w \in ws : s.proc[w] = "none" /\ w < n
  BY <1>1, <1>2, <1>3 DEF SlotsOK
<1> HIDE DEF ws
<1>8. /\ q \in State /\ Only(s, q, StartFields)
      /\ q.live = s.live + Cardinality(ws)
      /\ \A w \in ws : q.proc[w] = "boot" /\ q.outbox[w] = <<>>
      /\ \A w \in Workers \ ws : /\ q.proc[w] = s.proc[w] /\ q.outbox[w] = s.outbox[w]
                                 /\ q.running[w] = s.running[w]
  BY <1>1, <1>3, <1>6, StartFacts
<1>9. spawn_workers(s, n) = r
  BY DEF spawn_workers, ws
<1> HIDE DEF q
<1>10. r \in State /\ r.spawned = n /\ Only(q, r, {"spawned"})
  BY <1>8 DEF State, Only, Names
<1> HIDE DEF r
<1>11. /\ r.live = q.live /\ r.proc = q.proc /\ r.outbox = q.outbox
       /\ r.running = q.running
  BY <1>10 DEF Only, Names
<1>12. Only(s, r, SpawnFields)
  BY <1>8, <1>10 DEF Only, SpawnFields
<1>13. QED
  BY <1>3, <1>7, <1>8, <1>9, <1>10, <1>11, <1>12 DEF ws

LEMMA SpawnInv ==
  ASSUME NEW s, Inv(s), NEW n \in 0 .. K, s.spawned <= n,
         NEW t \in State, Only(spawn_workers(s, n), t, {"phase", "failures"}),
         t.phase \notin {"start", "finished"}
  PROVE  Inv(t)
<1> DEFINE ws == s.spawned .. n - 1
           r == spawn_workers(s, n)
<1>1. s \in State /\ FilesOK(s) /\ BailOK(s)
  BY DEF Inv
<1>2. /\ Only(s, r, SpawnFields) /\ ws \in SUBSET Workers
      /\ \A w \in ws : s.proc[w] = "none" /\ w < n
      /\ r.spawned = n /\ r.live = s.live + Cardinality(ws)
      /\ \A w \in ws : r.proc[w] = "boot" /\ r.outbox[w] = <<>>
      /\ \A w \in Workers \ ws : /\ r.proc[w] = s.proc[w] /\ r.outbox[w] = s.outbox[w]
                                 /\ r.running[w] = s.running[w]
  BY SpawnFacts
<1>3. Only(r, t, {"phase", "failures"})
  OBVIOUS
<1> HIDE DEF ws, r
<1>4. /\ t.spawned = r.spawned /\ t.live = r.live /\ t.proc = r.proc /\ t.outbox = r.outbox
      /\ t.running = r.running
  BY <1>3 DEF Only, Names
<1>5. /\ t.inflight = s.inflight /\ t.bailed = s.bailed /\ t.bail = s.bail
      /\ t.fails = s.fails /\ t.lo = s.lo /\ t.hi = s.hi /\ t.counted = s.counted
      /\ t.files_done = s.files_done
  BY <1>2, <1>3 DEF Only, Names, SpawnFields, StartFields
<1>6. SameFiles(s, t) /\ BailOK(t)
  BY <1>1, <1>5 DEF SameFiles, BailOK
<1>7. FilesOK(t)
  BY <1>1, <1>6, SameFilesOK
<1>8. QED
  BY <1>2, <1>4, <1>5, <1>6, <1>7, StartSlots

\* A failed spawn_worker() counts the failure and may end drive().
LEMMA SpawnFailedFacts ==
  ASSUME NEW s \in State
  PROVE  LET t == spawn_failed(s)
         IN  /\ t \in State /\ Only(s, t, {"phase", "failures"})
             /\ t.phase = IF s.live = 0 THEN "exited" ELSE s.phase
<1> DEFINE n == s.failures + 1
           p == IF s.live = 0 THEN "exited" ELSE s.phase
           t == [s EXCEPT !.failures = n, !.phase = p]
<1>1. n \in Nat /\ p \in {"start", "driving", "finished", "exited"}
  BY DEF State
<1>2. spawn_failed(s) = t
  BY DEF spawn_failed, State
<1> HIDE DEF n, p
<1>3. t \in State /\ t.phase = p /\ Only(s, t, {"phase", "failures"})
  BY <1>1 DEF State, Only, Names
<1>4. QED
  BY <1>2, <1>3 DEF p

LEMMA DriveStartInv == CoordInv /\ DriveStart => CoordInv'
<1> SUFFICES ASSUME CoordInv, DriveStart PROVE Inv(c')
  BY DEF CoordInv
<1>1. c \in State /\ Inv(c) /\ SlotsOK(c) /\ c.phase = "start"
  BY DEF CoordInv, Inv, DriveStart
<1>2. c.spawned = 0 /\ c.live = 0
  <2>1. c.spawned = 0
    BY <1>1 DEF SlotsOK
  <2>2. LiveSlots(c) = {}
    BY <1>1, <2>1, Numbers DEF SlotsOK, LiveSlots
  <2>3. QED
    BY <1>1, <2>1, <2>2, FS_EmptySet DEF SlotsOK
<1>3. 1 \in 0 .. K /\ 0 \in 0 .. K /\ c.spawned <= 1 /\ c.spawned <= 0
  BY <1>2, Numbers
<1>4. CASE c' = [spawn_workers(c, 1) EXCEPT !.phase = "driving"]
  <2> DEFINE r == spawn_workers(c, 1)
  <2>1. r \in State
    BY <1>1, <1>3, SpawnFacts
  <2>2. c' = [r EXCEPT !.phase = "driving"]
    BY <1>4
  <2> HIDE DEF r
  <2>3. c' \in State /\ c'.phase = "driving" /\ Only(r, c', {"phase", "failures"})
    BY <2>1, <2>2 DEF State, Only, Names
  <2>4. QED
    BY <1>1, <1>3, <2>3, SpawnInv DEF r
<1>5. CASE c' = spawn_failed(c)
  <2>1. c' \in State /\ c'.phase = "exited" /\ Only(c, c', {"phase", "failures"})
    BY <1>1, <1>2, <1>5, SpawnFailedFacts
  <2>2. SameFiles(c, c') /\ BailOK(c')
    BY <1>1, <2>1 DEF SameFiles, BailOK, Inv, Only, Names
  <2>3. FilesOK(c')
    BY <1>1, <2>2, SameFilesOK DEF Inv
  <2>4. SlotsOK(c') /\ FramesOK(c')
    BY <1>1, <2>1, ZenonT(40) DEF Inv, SlotsOK, LiveSlots, FramesOK, Only, Names
  <2>5. QED
    BY <2>1, <2>2, <2>3, <2>4 DEF Inv
<1>6. QED
  BY <1>4, <1>5 DEF DriveStart

LEMMA ScaleUpInv == CoordInv /\ maybe_scale_up => CoordInv'
<1> SUFFICES ASSUME CoordInv, maybe_scale_up PROVE Inv(c')
  BY DEF CoordInv
<1> DEFINE want == IF K < N - c.files_done THEN K ELSE N - c.files_done
<1>1. c \in State /\ Inv(c) /\ c.phase = "driving"
  BY DEF CoordInv, Inv, maybe_scale_up
<1>2. want \in 0 .. K /\ c.spawned \in 0 .. K
  BY <1>1, FieldTypes, Numbers
<1>3. \/ c.spawned < want /\ c' = spawn_workers(c, want)
      \/ \E n \in c.spawned .. want - 1 : c' = spawn_failed(spawn_workers(c, n))
  BY DEF maybe_scale_up
<1> HIDE DEF want
<1>4. CASE c.spawned < want /\ c' = spawn_workers(c, want)
  <2>1. c.spawned <= want
    BY <1>2, <1>4
  <2>2. c' \in State /\ Only(c, c', SpawnFields)
    BY <1>1, <1>2, <1>4, <2>1, SpawnFacts
  <2>3. c'.phase = "driving" /\ Only(spawn_workers(c, want), c', {"phase", "failures"})
    BY <1>1, <1>4, <2>2 DEF Only, Names, SpawnFields, StartFields
  <2>4. QED
    BY <1>1, <1>2, <2>1, <2>2, <2>3, SpawnInv
<1>5. ASSUME NEW n \in c.spawned .. want - 1, c' = spawn_failed(spawn_workers(c, n))
      PROVE  Inv(c')
  <2> DEFINE r == spawn_workers(c, n)
  <2>1. n \in 0 .. K /\ c.spawned <= n
    BY <1>2, Numbers
  <2>2. r \in State /\ Only(c, r, SpawnFields)
    BY <1>1, <2>1, SpawnFacts
  <2>3. c' = spawn_failed(r)
    BY <1>5
  <2> HIDE DEF r
  <2>4. r.phase = "driving"
    BY <1>1, <2>2 DEF Only, Names, SpawnFields, StartFields
  <2>5. /\ c' \in State /\ Only(r, c', {"phase", "failures"})
        /\ c'.phase \in {"driving", "exited"}
    BY <2>2, <2>3, <2>4, SpawnFailedFacts
  <2>6. QED
    BY <1>1, <2>1, <2>5, SpawnInv DEF r
<1>6. QED
  BY <1>3, <1>4, <1>5

LEMMA DriveEndInv == CoordInv /\ DriveEnd => CoordInv'
<1> SUFFICES ASSUME CoordInv, DriveEnd PROVE Inv(c')
  BY DEF CoordInv
<1>1. c \in State /\ Inv(c) /\ is_done(c)
  BY DEF CoordInv, Inv, DriveEnd
<1>2. c' \in State /\ c'.phase = "finished" /\ Only(c, c', {"phase"})
  BY <1>1 DEF DriveEnd, State, Only, Names
<1>3. SameFiles(c, c') /\ BailOK(c') /\ is_done(c')
  BY <1>1, <1>2 DEF SameFiles, BailOK, Inv, Only, Names, is_done
<1>4. FilesOK(c')
  BY <1>1, <1>3, SameFilesOK DEF Inv
<1>5. SlotsOK(c') /\ FramesOK(c')
  <2>1. /\ c'.spawned = c.spawned /\ c'.live = c.live /\ c'.inflight = c.inflight
        /\ c'.proc = c.proc /\ c'.outbox = c.outbox /\ c'.running = c.running
    BY <1>2 DEF Only, Names
  <2>2. QED
    BY <1>1, <1>2, <2>1 DEF Inv, SlotsOK, LiveSlots, FramesOK
<1>6. QED
  BY <1>2, <1>3, <1>4, <1>5 DEF Inv

LEMMA AbortAllInv == CoordInv /\ abort_all => CoordInv'
<1> SUFFICES ASSUME CoordInv, abort_all PROVE Inv(c')
  BY DEF CoordInv
<1> DEFINE killed == [w \in Workers |-> c.killed[w] \/ c.proc[w] # "none"]
<1>1. c \in State /\ Inv(c)
  BY DEF CoordInv, Inv
<1>2. killed \in [Workers -> BOOLEAN]
  OBVIOUS
<1>3. c' = [c EXCEPT !.phase = "exited", !.killed = killed]
  BY <1>1 DEF abort_all, State
<1> HIDE DEF killed
<1>4. c' \in State /\ c'.phase = "exited" /\ Only(c, c', {"phase", "killed"})
  BY <1>1, <1>2, <1>3 DEF State, Only, Names
<1>5. SameFiles(c, c') /\ BailOK(c')
  BY <1>1, <1>4 DEF SameFiles, BailOK, Inv, Only, Names
<1>6. FilesOK(c')
  BY <1>1, <1>5, SameFilesOK DEF Inv
<1>7. SlotsOK(c') /\ FramesOK(c')
  <2>1. /\ c'.spawned = c.spawned /\ c'.live = c.live /\ c'.inflight = c.inflight
        /\ c'.proc = c.proc /\ c'.outbox = c.outbox /\ c'.running = c.running
    BY <1>4 DEF Only, Names
  <2>2. QED
    BY <1>1, <1>4, <2>1 DEF Inv, SlotsOK, LiveSlots, FramesOK
<1>8. QED
  BY <1>4, <1>5, <1>6, <1>7 DEF Inv

-----------------------------------------------------------------------------
(* What happens to one process and its pipes *)

WorkerFields == {"inbox", "outbox", "pending", "running", "stop", "proc", "written", "flushed",
                 "fragments", "faults", "ipc_done", "killed"}

\* The frames of worker w's pipe, q, fit what is dispatched to it.
FrameFits(s, w, q) ==
  \A i \in DOMAIN q : /\ q[i].kind = "ready" => i = 1 /\ s.inflight[w] = None
                      /\ q[i].kind = "file_done" => q[i].idx \in Files

\* A process that has booted moves on, and so do its pipes.
LEMMA WorkerInv ==
  ASSUME NEW s, NEW t, Inv(s), s.phase = "driving", NEW w \in Workers, s.proc[w] # "none",
         t \in State, Only(s, t, WorkerFields),
         \A v \in Workers \ {w} : /\ t.proc[v] = s.proc[v] /\ t.outbox[v] = s.outbox[v]
                                  /\ t.running[v] = s.running[v],
         t.proc[w] \notin {"none", "boot"}, t.proc[w] = "run" => t.running[w] \in Files,
         FrameFits(s, w, t.outbox[w])
  PROVE  Inv(t)
<1>1. s \in State /\ FilesOK(s) /\ BailOK(s) /\ SlotsOK(s) /\ FramesOK(s)
  BY DEF Inv
<1>2. /\ t.phase = "driving" /\ t.spawned = s.spawned /\ t.live = s.live
      /\ t.inflight = s.inflight
  BY DEF Only, Names, WorkerFields
<1>3. SameFiles(s, t) /\ BailOK(t)
  <2>1. /\ t.bailed = s.bailed /\ t.bail = s.bail /\ t.fails = s.fails /\ t.lo = s.lo
        /\ t.hi = s.hi /\ t.counted = s.counted /\ t.files_done = s.files_done
    BY DEF Only, Names, WorkerFields
  <2>2. QED
    BY <1>1, <1>2, <2>1 DEF SameFiles, BailOK
<1>4. FilesOK(t)
  BY <1>1, <1>3, SameFilesOK
<1>5. LiveSlots(t) = LiveSlots(s)
  BY DEF LiveSlots
<1>6. SlotsOK(t)
  <2>1. \A v \in Workers : t.spawned <= v => t.proc[v] = "none"
    BY <1>1, <1>2 DEF SlotsOK
  <2>2. \A v \in Workers : t.proc[v] \in {"none", "boot"} => t.inflight[v] = None
    BY <1>1, <1>2 DEF SlotsOK
  <2>3. \A v \in Workers : t.proc[v] = "boot" => t.outbox[v] = <<>>
    BY <1>1 DEF SlotsOK
  <2>4. \A v \in Workers : t.proc[v] = "run" => t.running[v] \in Files
    BY <1>1 DEF SlotsOK
  <2>5. QED
    BY <1>1, <1>2, <1>5, <2>1, <2>2, <2>3, <2>4 DEF SlotsOK
<1>7. FramesOK(t)
  BY <1>1, <1>2 DEF FramesOK, FrameFits
<1>8. QED
  BY <1>2, <1>3, <1>4, <1>6, <1>7 DEF Inv

\* emit() adds a frame at the end.
LEMMA EmitFits ==
  ASSUME NEW s, Inv(s), NEW w \in Workers, NEW x \in Frame,
         x.kind = "ready" => s.outbox[w] = <<>> /\ s.inflight[w] = None,
         x.kind = "file_done" => x.idx \in Files
  PROVE  /\ Append(s.outbox[w], x) \in Seq(Frame)
         /\ FrameFits(s, w, Append(s.outbox[w], x))
<1> DEFINE q == s.outbox[w]
<1>1. q \in Seq(Frame) /\ FramesOK(s)
  BY FieldTypes DEF Inv
<1>2. \A i \in DOMAIN q : /\ q[i].kind = "ready" => i = 1 /\ s.inflight[w] = None
                          /\ q[i].kind = "file_done" => q[i].idx \in Files
  BY <1>1 DEF FramesOK
<1>3. x.kind = "ready" => q = <<>> /\ s.inflight[w] = None
  OBVIOUS
<1> HIDE DEF q
<1>4. Append(q, x) \in Seq(Frame)
  BY <1>1
<1>5. \A i \in DOMAIN Append(q, x) :
        \/ i \in DOMAIN q /\ Append(q, x)[i] = q[i]
        \/ i = Len(q) + 1 /\ Append(q, x)[i] = x
  BY <1>1
<1>6. q = <<>> => Len(q) = 0
  OBVIOUS
<1>7. FrameFits(s, w, Append(q, x))
  BY <1>2, <1>3, <1>5, <1>6 DEF FrameFits
<1>8. QED
  BY <1>4, <1>7 DEF q

LEMMA WorkerReadyInv ==
  ASSUME CoordInv, NEW w \in Workers, WorkerReady(w)
  PROVE  CoordInv'
<1> SUFFICES Inv(c')
  BY DEF CoordInv
<1> DEFINE x == [kind |-> "ready", idx |-> None, fail |-> 0]
           q == Append(c.outbox[w], x)
           outbox == [c.outbox EXCEPT ![w] = q]
           proc == [c.proc EXCEPT ![w] = "wait"]
<1>1. c \in State /\ Inv(c) /\ SlotsOK(c) /\ c.phase = "driving" /\ c.proc[w] = "boot"
  BY DEF CoordInv, Inv, WorkerReady, Lives
<1>2. x \in Frame /\ c.outbox[w] = <<>> /\ c.inflight[w] = None
  BY <1>1 DEF SlotsOK, Frame
<1>3. q \in Seq(Frame) /\ FrameFits(c, w, q)
  BY <1>1, <1>2, EmitFits
<1>4. c' = [c EXCEPT !.outbox = outbox, !.proc = proc]
  BY <1>1 DEF WorkerReady, emit, State
<1> HIDE DEF q
<1>5. /\ outbox \in [Workers -> Seq(Frame)]
      /\ proc \in [Workers -> Statuses \cup Living \cup {"none"}]
      /\ outbox[w] = q /\ proc[w] = "wait"
      /\ \A v \in Workers \ {w} : outbox[v] = c.outbox[v] /\ proc[v] = c.proc[v]
  BY <1>1, <1>3, FieldTypes DEF Living
<1> HIDE DEF outbox, proc
<1>6. /\ c' \in State /\ c'.outbox = outbox /\ c'.proc = proc
      /\ Only(c, c', {"outbox", "proc"})
  BY <1>1, <1>4, <1>5 DEF State, Only, Names
<1>7. Only(c, c', WorkerFields) /\ c'.running = c.running
  BY <1>6 DEF Only, Names, WorkerFields
<1>8. QED
  BY <1>1, <1>3, <1>5, <1>6, <1>7, WorkerInv

LEMMA WorkerReceiveInv ==
  ASSUME CoordInv, NEW w \in Workers, WorkerReceive(w)
  PROVE  CoordInv'
<1> SUFFICES Inv(c')
  BY DEF CoordInv
<1> DEFINE command == Head(c.inbox[w])
           inbox == [c.inbox EXCEPT ![w] = Tail(c.inbox[w])]
           pending == [c.pending EXCEPT ![w] = command.idx]
           stop == [c.stop EXCEPT ![w] = TRUE]
<1>1. /\ c \in State /\ Inv(c) /\ SlotsOK(c) /\ FramesOK(c) /\ c.phase = "driving"
      /\ c.proc[w] \in {"wait", "run"} /\ c.inbox[w] # <<>>
  BY DEF CoordInv, Inv, WorkerReceive, Lives
<1>2. c.inbox[w] \in Seq(Command)
  BY <1>1, FieldTypes
<1>3. command \in Command /\ Tail(c.inbox[w]) \in Seq(Command)
  BY <1>1, <1>2
<1>4. \/ c' = [c EXCEPT !.inbox = inbox, !.pending = pending]
      \/ c' = [c EXCEPT !.inbox = inbox, !.stop = stop]
  BY <1>1 DEF WorkerReceive, State
<1>5. /\ inbox \in [Workers -> Seq(Command)]
      /\ pending \in [Workers -> Files \cup {None}]
      /\ stop \in [Workers -> BOOLEAN]
  <2>1. command.idx \in Files \cup {None}
    BY <1>3 DEF Command
  <2> HIDE DEF command
  <2>2. pending \in [Workers -> Files \cup {None}]
    BY <1>1, <2>1, FieldTypes
  <2>3. inbox \in [Workers -> Seq(Command)]
    BY <1>1, <1>3, FieldTypes
  <2>4. stop \in [Workers -> BOOLEAN]
    BY <1>1 DEF State
  <2>5. QED
    BY <2>2, <2>3, <2>4
<1> HIDE DEF inbox, pending, stop
<1>6. c' \in State /\ Only(c, c', {"inbox", "pending", "stop"})
  <2>1. CASE c' = [c EXCEPT !.inbox = inbox, !.pending = pending]
    BY <1>1, <1>5, <2>1 DEF State, Only, Names
  <2>2. CASE c' = [c EXCEPT !.inbox = inbox, !.stop = stop]
    BY <1>1, <1>5, <2>2 DEF State, Only, Names
  <2>3. QED
    BY <1>4, <2>1, <2>2
<1>7. /\ c'.proc = c.proc /\ c'.outbox = c.outbox /\ c'.running = c.running
      /\ Only(c, c', WorkerFields)
  BY <1>6 DEF Only, Names, WorkerFields
<1>8. FrameFits(c, w, c.outbox[w]) /\ (c.proc[w] = "run" => c.running[w] \in Files)
  BY <1>1 DEF FrameFits, FramesOK, SlotsOK
<1>9. QED
  BY <1>1, <1>6, <1>7, <1>8, WorkerInv

LEMMA WorkerStartFileInv ==
  ASSUME CoordInv, NEW w \in Workers, WorkerStartFile(w)
  PROVE  CoordInv'
<1> SUFFICES Inv(c')
  BY DEF CoordInv
<1> DEFINE proc == [c.proc EXCEPT ![w] = "run"]
           running == [c.running EXCEPT ![w] = c.pending[w]]
           pending == [c.pending EXCEPT ![w] = None]
<1>1. /\ c \in State /\ Inv(c) /\ SlotsOK(c) /\ FramesOK(c) /\ c.phase = "driving"
      /\ c.proc[w] = "wait" /\ c.pending[w] # None
  BY DEF CoordInv, Inv, WorkerStartFile, Lives
<1>2. c.pending[w] \in Files
  BY <1>1, FieldTypes
<1>3. c' = [c EXCEPT !.proc = proc, !.running = running, !.pending = pending]
  BY <1>1 DEF WorkerStartFile, State
<1>4. /\ proc \in [Workers -> Statuses \cup Living \cup {"none"}]
      /\ running \in [Workers -> Files \cup {None}]
      /\ pending \in [Workers -> Files \cup {None}]
      /\ proc[w] = "run" /\ running[w] \in Files
      /\ \A v \in Workers \ {w} : proc[v] = c.proc[v] /\ running[v] = c.running[v]
  BY <1>1, <1>2, FieldTypes DEF Living
<1> HIDE DEF proc, running, pending
<1>5. /\ c' \in State /\ c'.proc = proc /\ c'.running = running
      /\ Only(c, c', {"proc", "running", "pending"})
  BY <1>1, <1>3, <1>4 DEF State, Only, Names
<1>6. Only(c, c', WorkerFields) /\ c'.outbox = c.outbox
  BY <1>5 DEF Only, Names, WorkerFields
<1>7. FrameFits(c, w, c.outbox[w])
  BY <1>1 DEF FrameFits, FramesOK
<1>8. QED
  BY <1>1, <1>4, <1>5, <1>6, <1>7, WorkerInv

LEMMA WorkerFinishFileInv ==
  ASSUME CoordInv, NEW w \in Workers, WorkerFinishFile(w)
  PROVE  CoordInv'
<1> SUFFICES Inv(c')
  BY DEF CoordInv
<1>1. PICK fail \in {0, 1} :
        c' = [emit(c, w, "file_done", c.running[w], fail) EXCEPT
               !.proc[w] = "wait", !.running[w] = None,
               !.written = IF Undecodable(w) THEN @ ELSE @ \cup {c.running[w]}]
  BY DEF WorkerFinishFile
<1> DEFINE x == [kind |-> "file_done", idx |-> c.running[w], fail |-> fail]
           q == Append(c.outbox[w], x)
           outbox == [c.outbox EXCEPT ![w] = q]
           proc == [c.proc EXCEPT ![w] = "wait"]
           running == [c.running EXCEPT ![w] = None]
           written == IF Undecodable(w) THEN c.written ELSE c.written \cup {c.running[w]}
<1>2. c \in State /\ Inv(c) /\ SlotsOK(c) /\ c.phase = "driving" /\ c.proc[w] = "run"
  BY DEF CoordInv, Inv, WorkerFinishFile, Lives
<1>3. c.running[w] \in Files
  BY <1>2 DEF SlotsOK
<1>4. x \in Frame
  BY <1>3 DEF Frame
<1>5. q \in Seq(Frame) /\ FrameFits(c, w, q)
  BY <1>2, <1>3, <1>4, EmitFits
<1>6. c' = [c EXCEPT !.outbox = outbox, !.proc = proc, !.running = running,
                     !.written = written]
  BY <1>1, <1>2 DEF emit, State
<1>7. written \in SUBSET Files
  BY <1>2, <1>3 DEF State
<1> HIDE DEF q, written
<1>8. /\ outbox \in [Workers -> Seq(Frame)]
      /\ proc \in [Workers -> Statuses \cup Living \cup {"none"}]
      /\ running \in [Workers -> Files \cup {None}]
      /\ outbox[w] = q /\ proc[w] = "wait"
      /\ \A v \in Workers \ {w} : /\ outbox[v] = c.outbox[v] /\ proc[v] = c.proc[v]
                                  /\ running[v] = c.running[v]
  BY <1>2, <1>5, FieldTypes DEF Living
<1> HIDE DEF outbox, proc, running
<1>9. /\ c' \in State /\ c'.outbox = outbox /\ c'.proc = proc /\ c'.running = running
      /\ Only(c, c', {"outbox", "proc", "running", "written"})
  BY <1>2, <1>6, <1>7, <1>8 DEF State, Only, Names
<1>10. Only(c, c', WorkerFields)
  BY <1>9 DEF Only, WorkerFields
<1>11. QED
  BY <1>2, <1>5, <1>8, <1>9, <1>10, WorkerInv

LEMMA WorkerExitInv ==
  ASSUME CoordInv, NEW w \in Workers, WorkerExit(w)
  PROVE  CoordInv'
<1> SUFFICES Inv(c')
  BY DEF CoordInv
<1> DEFINE x == [kind |-> "aggregates", idx |-> None, fail |-> 0]
           q == Append(c.outbox[w], x)
           outbox == [c.outbox EXCEPT ![w] = q]
           proc == [c.proc EXCEPT ![w] = "exited"]
           flushed == c.flushed + 1
<1>1. c \in State /\ Inv(c) /\ c.phase = "driving" /\ c.proc[w] = "wait"
  BY DEF CoordInv, Inv, WorkerExit, Lives
<1>2. x \in Frame
  BY DEF Frame
<1>3. q \in Seq(Frame) /\ FrameFits(c, w, q)
  BY <1>1, <1>2, EmitFits
<1>4. c' = [c EXCEPT !.outbox = outbox, !.proc = proc, !.flushed = flushed]
  BY <1>1 DEF WorkerExit, emit, State
<1>5. flushed \in Nat
  BY <1>1 DEF State
<1> HIDE DEF q, flushed
<1>6. /\ outbox \in [Workers -> Seq(Frame)]
      /\ proc \in [Workers -> Statuses \cup Living \cup {"none"}]
      /\ outbox[w] = q /\ proc[w] = "exited"
      /\ \A v \in Workers \ {w} : outbox[v] = c.outbox[v] /\ proc[v] = c.proc[v]
  BY <1>1, <1>3, FieldTypes DEF Statuses
<1> HIDE DEF outbox, proc
<1>7. /\ c' \in State /\ c'.outbox = outbox /\ c'.proc = proc
      /\ Only(c, c', {"outbox", "proc", "flushed"})
  BY <1>1, <1>4, <1>5, <1>6 DEF State, Only, Names
<1>8. Only(c, c', WorkerFields) /\ c'.running = c.running
  BY <1>7 DEF Only, Names, WorkerFields
<1>9. QED
  BY <1>1, <1>3, <1>6, <1>7, <1>8, WorkerInv

LEMMA WorkerCorruptsInv ==
  ASSUME CoordInv, NEW w \in Workers, WorkerCorrupts(w)
  PROVE  CoordInv'
<1> SUFFICES Inv(c')
  BY DEF CoordInv
<1> DEFINE x == [kind |-> "corrupt", idx |-> None, fail |-> 0]
           q == Append(c.outbox[w], x)
           outbox == [c.outbox EXCEPT ![w] = q]
           faults == c.faults + 1
<1>1. c \in State /\ Inv(c) /\ SlotsOK(c) /\ c.phase = "driving" /\ c.proc[w] = "run"
  BY DEF CoordInv, Inv, WorkerCorrupts, Lives
<1>2. x \in Frame
  BY DEF Frame
<1>3. q \in Seq(Frame) /\ FrameFits(c, w, q)
  BY <1>1, <1>2, EmitFits
<1>4. c' = [c EXCEPT !.outbox = outbox, !.faults = faults]
  BY <1>1 DEF WorkerCorrupts, emit, State
<1>5. faults \in Nat
  BY <1>1 DEF State
<1> HIDE DEF q, faults
<1>6. /\ outbox \in [Workers -> Seq(Frame)] /\ outbox[w] = q
      /\ \A v \in Workers \ {w} : outbox[v] = c.outbox[v]
  BY <1>1, <1>3, FieldTypes
<1> HIDE DEF outbox
<1>7. c' \in State /\ c'.outbox = outbox /\ Only(c, c', {"outbox", "faults"})
  BY <1>1, <1>4, <1>5, <1>6, ZenonT(40) DEF State, Only, Names
<1>8. Only(c, c', WorkerFields) /\ c'.running = c.running /\ c'.proc = c.proc
  BY <1>7 DEF Only, Names, WorkerFields
<1>9. c.running[w] \in Files
  BY <1>1 DEF SlotsOK
<1>10. QED
  BY <1>1, <1>3, <1>6, <1>7, <1>8, <1>9, WorkerInv

\* A process ends and takes the frames in its own buffer with it.
LEMMA DiesInv ==
  ASSUME CoordInv, NEW w \in Workers, c.phase = "driving", c.proc[w] # "none",
         NEW status \in Statuses, dies(w, status)
  PROVE  CoordInv'
<1> SUFFICES Inv(c')
  BY DEF CoordInv
<1>1. PICK kept \in 0 .. Len(c.outbox[w]) :
        c' = [c EXCEPT
          !.proc[w] = status,
          !.outbox[w] = SubSeq(@, 1, kept),
          !.written = @ \ {c.outbox[w][i].idx : i \in kept + 1 .. Len(c.outbox[w])},
          !.faults = IF c.killed[w] THEN @ ELSE @ + 1]
  BY DEF dies
<1> DEFINE p == c.outbox[w]
           q == SubSeq(p, 1, kept)
           outbox == [c.outbox EXCEPT ![w] = q]
           proc == [c.proc EXCEPT ![w] = status]
           written == c.written \ {p[i].idx : i \in kept + 1 .. Len(p)}
           faults == IF c.killed[w] THEN c.faults ELSE c.faults + 1
<1>2. c \in State /\ Inv(c) /\ FramesOK(c)
  BY DEF CoordInv, Inv
<1>3. p \in Seq(Frame) /\ kept \in 0 .. Len(p)
  BY <1>2, FieldTypes
<1>4. FrameFits(c, w, p)
  BY <1>2 DEF FramesOK, FrameFits
<1>5. c' = [c EXCEPT !.outbox = outbox, !.proc = proc, !.written = written,
                     !.faults = faults]
  BY <1>1, <1>2 DEF State
<1>6. written \in SUBSET Files /\ faults \in Nat
  BY <1>2, SMTT(30) DEF State
<1> HIDE DEF p, written, faults
<1>7. /\ q \in Seq(Frame)
      /\ \A i \in DOMAIN q : i \in DOMAIN p /\ q[i] = p[i]
  BY <1>3
<1>8. FrameFits(c, w, q)
  BY <1>4, <1>7 DEF FrameFits
<1> HIDE DEF q
<1>9. /\ outbox \in [Workers -> Seq(Frame)]
      /\ proc \in [Workers -> Statuses \cup Living \cup {"none"}]
      /\ outbox[w] = q /\ proc[w] = status
      /\ \A v \in Workers \ {w} : outbox[v] = c.outbox[v] /\ proc[v] = c.proc[v]
  BY <1>2, <1>7, FieldTypes
<1> HIDE DEF outbox, proc
<1>10. /\ c' \in State /\ c'.outbox = outbox /\ c'.proc = proc
       /\ Only(c, c', {"outbox", "proc", "written", "faults"})
  BY <1>2, <1>5, <1>6, <1>9, ZenonT(40) DEF State, Only, Names
<1>11. Only(c, c', WorkerFields) /\ c'.running = c.running
  BY <1>10 DEF Only, Names, WorkerFields
<1>12. status \notin {"none", "boot", "run"}
  BY DEF Statuses
<1>13. QED
  BY <1>2, <1>8, <1>9, <1>10, <1>11, <1>12, WorkerInv

LEMMA WorkerEndsInv ==
  ASSUME CoordInv, NEW w \in Workers, WorkerDies(w) \/ WorkerKilled(w)
  PROVE  CoordInv'
<1>1. c.phase = "driving" /\ c.proc[w] # "none"
  BY DEF WorkerDies, WorkerKilled, Lives, Living
<1>2. \E status \in Statuses : dies(w, status)
  BY DEF WorkerDies, WorkerKilled, Statuses
<1>3. QED
  BY <1>1, <1>2, DiesInv

-----------------------------------------------------------------------------
(* What the coordinator does with a frame, the end of a channel or an exit *)

\* Only the first frame can be "ready": once a frame is taken none is left.
NoReady(s, w) == \A i \in DOMAIN s.outbox[w] : s.outbox[w][i].kind # "ready"

LEMMA DecodedInv ==
  ASSUME CoordInv, NEW w \in Workers, NEW kind, Receives(w, kind)
  PROVE  LET d == decoded(w)
         IN  /\ Inv(d) /\ NoReady(d, w) /\ Only(c, d, {"outbox"})
             /\ d.phase = "driving" /\ d.proc[w] \notin {"none", "boot"}
             /\ Head(c.outbox[w]) \in Frame
             /\ kind = "ready" => d.inflight[w] = None
             /\ kind = "file_done" => Head(c.outbox[w]).idx \in Files
<1> DEFINE p == c.outbox[w]
           q == Tail(p)
           outbox == [c.outbox EXCEPT ![w] = q]
           d == [c EXCEPT !.outbox = outbox]
<1>1. /\ c \in State /\ Inv(c) /\ SlotsOK(c) /\ FramesOK(c) /\ c.phase = "driving"
      /\ c.proc[w] # "none" /\ p # <<>> /\ Head(p).kind = kind
  BY DEF CoordInv, Inv, Receives
<1>2. c.proc[w] # "boot"
  BY <1>1 DEF SlotsOK
<1>3. p \in Seq(Frame) /\ FrameFits(c, w, p)
  BY <1>1, FieldTypes DEF FramesOK, FrameFits
<1>4. c.proc[w] = "run" => c.running[w] \in Files
  BY <1>1 DEF SlotsOK
<1>5. decoded(w) = d
  BY <1>1 DEF decoded, State
<1>6. outbox \in [Workers -> Seq(Frame)] /\ outbox[w] = q
      /\ \A v \in Workers \ {w} : outbox[v] = c.outbox[v]
  <2>1. q \in Seq(Frame)
    BY <1>1, <1>3
  <2> HIDE DEF q
  <2>2. QED
    BY <1>1, <2>1, FieldTypes
<1> HIDE DEF p, outbox
<1>7. /\ \A i \in DOMAIN q : i + 1 \in DOMAIN p /\ i + 1 # 1 /\ q[i] = p[i + 1]
      /\ 1 \in DOMAIN p /\ Head(p) = p[1] /\ p[1] \in Frame
  BY <1>1, <1>3
<1> HIDE DEF q
<1>8. \A i \in DOMAIN q : q[i].kind # "ready"
  BY <1>3, <1>7 DEF FrameFits
<1>9. FrameFits(c, w, q)
  BY <1>3, <1>7, <1>8 DEF FrameFits
<1>10. d \in State /\ d.outbox = outbox /\ Only(c, d, {"outbox"})
  BY <1>1, <1>6 DEF State, Only, Names
<1> HIDE DEF d
<1>11. /\ d.phase = c.phase /\ d.proc = c.proc /\ d.running = c.running
       /\ d.inflight = c.inflight /\ Only(c, d, WorkerFields)
  BY <1>10 DEF Only, Names, WorkerFields
<1>12. Inv(d)
  BY <1>1, <1>2, <1>4, <1>6, <1>9, <1>10, <1>11, WorkerInv
<1>13. NoReady(d, w)
  BY <1>6, <1>8, <1>10 DEF NoReady
<1>14. /\ kind = "ready" => d.inflight[w] = None
       /\ kind = "file_done" => Head(p).idx \in Files
  BY <1>1, <1>3, <1>7, <1>11 DEF FrameFits
<1>15. QED
  BY <1>1, <1>2, <1>5, <1>7, <1>10, <1>11, <1>12, <1>13, <1>14 DEF p

\* assign_work() for a worker that has booted and has said so.
LEMMA AssignInv ==
  ASSUME NEW s, Inv(s), s.phase = "driving", NEW w \in Workers, s.inflight[w] = None,
         s.proc[w] \notin {"none", "boot"}, NoReady(s, w)
  PROVE  Inv(assign_work(s, w))
<1> DEFINE t == assign_work(s, w)
<1>1. s \in State /\ FilesOK(s) /\ BailOK(s) /\ SlotsOK(s) /\ FramesOK(s)
  BY DEF Inv
<1>2. /\ t \in State /\ FilesOK(t)
      /\ Only(s, t, {"inbox", "inflight", "lo", "hi"})
      /\ \A v \in Workers \ {w} : t.inflight[v] = s.inflight[v]
      /\ s.bailed => t.lo = s.lo /\ t.hi = s.hi
  BY <1>1, AssignFacts
<1> HIDE DEF t
<1>3. /\ t.phase = s.phase /\ t.spawned = s.spawned /\ t.live = s.live /\ t.proc = s.proc
      /\ t.outbox = s.outbox /\ t.running = s.running
      /\ t.bailed = s.bailed /\ t.bail = s.bail /\ t.fails = s.fails
  BY <1>2 DEF Only, Names
<1>4. BailOK(t)
  BY <1>1, <1>2, <1>3 DEF BailOK
<1>5. SlotsOK(t)
  BY <1>1, <1>2, <1>3 DEF SlotsOK, LiveSlots
<1>6. FramesOK(t)
  BY <1>1, <1>2, <1>3 DEF FramesOK, NoReady
<1>7. QED
  BY <1>2, <1>3, <1>4, <1>5, <1>6 DEF Inv, t

LEMMA OnReadyInv ==
  ASSUME CoordInv, NEW w \in Workers, OnReady(w)
  PROVE  CoordInv'
<1>1. Receives(w, "ready") /\ c' = assign_work(decoded(w), w)
  BY DEF OnReady
<1>2. /\ Inv(decoded(w)) /\ NoReady(decoded(w), w) /\ decoded(w).phase = "driving"
      /\ decoded(w).proc[w] \notin {"none", "boot"} /\ decoded(w).inflight[w] = None
  BY <1>1, DecodedInv
<1>3. QED
  BY <1>1, <1>2, AssignInv DEF CoordInv

\* The result of the file that the worker was running is counted.
WithResult(s, w, f, fail) ==
  [s EXCEPT !.inflight[w] = None, !.files_done = @ + 1, !.fails = @ + fail,
            !.counted[f] = @ + 1]

LEMMA CountFacts ==
  ASSUME NEW s, Inv(s), NEW w \in Workers, NEW f \in Files,
         s.inflight[w] = f, NEW fail \in {0, 1}
  PROVE  LET r == WithResult(s, w, f, fail)
         IN  /\ r \in State /\ FilesOK(r) /\ BailOK(r)
             /\ Only(s, r, {"inflight", "files_done", "fails", "counted"})
             /\ r.inflight[w] = None
             /\ \A v \in Workers \ {w} : r.inflight[v] = s.inflight[v]
             /\ s.counted[f] = 0 /\ r.counted[f] = 1
             /\ \A g \in Files \ {f} : r.counted[g] = s.counted[g]
<1> DEFINE inflight == [s.inflight EXCEPT ![w] = None]
           done == s.files_done + 1
           fails == s.fails + fail
           counted == [s.counted EXCEPT ![f] = s.counted[f] + 1]
           r == [s EXCEPT !.inflight = inflight, !.files_done = done, !.fails = fails,
                          !.counted = counted]
<1>1. s \in State /\ FilesOK(s) /\ BailOK(s)
  BY DEF Inv
<1>2. WithResult(s, w, f, fail) = r
  BY <1>1 DEF State, WithResult
<1>3. /\ inflight \in [Workers -> Files \cup {None}] /\ inflight[w] = None
      /\ \A v \in Workers \ {w} : inflight[v] = s.inflight[v]
      /\ fails \in Nat /\ s.fails <= fails /\ counted \in [Files -> Nat]
      /\ counted[f] = s.counted[f] + 1
      /\ \A g \in Files \ {f} : counted[g] = s.counted[g]
  BY <1>1, FieldTypes
<1>4. inflight = [s.inflight EXCEPT ![w] = None] /\ done = s.files_done + 1
      /\ counted = [s.counted EXCEPT ![f] = s.counted[f] + 1]
  OBVIOUS
<1> HIDE DEF inflight, done, fails, counted
<1>5. /\ r.inflight = inflight /\ r.files_done = done /\ r.counted = counted
      /\ r.fails = fails
      /\ Only(s, r, {"inflight", "files_done", "fails", "counted"})
  BY <1>1 DEF State, Only, Names
<1>6. FilesOK(r) /\ s.files_done < N
  <2> HIDE DEF r
  <2>1. r.lo = s.lo /\ r.hi = s.hi
    BY <1>5 DEF Only, Names
  <2>2. QED
    BY <1>1, <1>4, <1>5, <2>1, CountFile
<1>7. done \in 0 .. N
  BY <1>1, <1>4, <1>6, FieldTypes, Numbers
<1>8. r \in State
  <2>1. /\ inflight \in [Workers -> Files \cup {None}] /\ fails \in Nat
        /\ counted \in [Files -> Nat]
    BY <1>3
  <2>2. QED
    BY <1>1, <1>7, <2>1 DEF State
<1> HIDE DEF r
<1>9. BailOK(r)
  <2>1. r.bailed = s.bailed /\ r.bail = s.bail /\ r.lo = s.lo /\ r.hi = s.hi
    BY <1>5 DEF Only, Names
  <2>2. s.fails \in Nat /\ s.bail \in Nat
    BY <1>1, FieldTypes
  <2>3. QED
    BY <1>1, <1>3, <1>5, <2>1, <2>2 DEF BailOK
<1>10. s.counted[f] = 0
  BY <1>1 DEF FilesOK, PlacesOK, Dispatched
<1>11. r.counted[f] = 1
  BY <1>3, <1>5, <1>10
<1>12. QED
  BY <1>2, <1>3, <1>5, <1>6, <1>8, <1>9, <1>10, <1>11

LEMMA CountInv ==
  ASSUME NEW s, Inv(s), s.phase = "driving", NEW w \in Workers, NEW f \in Files,
         s.inflight[w] = f, NEW fail \in {0, 1}
  PROVE  LET t == bail_if_due(WithResult(s, w, f, fail))
         IN  /\ Inv(t) /\ t.phase = "driving" /\ t.inflight[w] = None
             /\ t.proc = s.proc /\ t.outbox = s.outbox
<1> DEFINE r == WithResult(s, w, f, fail)
           t == bail_if_due(r)
<1>1. s \in State /\ SlotsOK(s) /\ FramesOK(s)
  BY DEF Inv
<1>2. /\ r \in State /\ FilesOK(r) /\ BailOK(r)
      /\ Only(s, r, {"inflight", "files_done", "fails", "counted"})
      /\ r.inflight[w] = None /\ \A v \in Workers \ {w} : r.inflight[v] = s.inflight[v]
  BY CountFacts
<1> HIDE DEF r
<1>3. t \in State /\ BailOK(t) /\ Only(r, t, {"bailed", "inbox"})
  BY <1>2, BailFacts
<1> HIDE DEF t
<1>4. SameFiles(r, t)
  BY <1>3 DEF SameFiles, Only, Names
<1>5. FilesOK(t)
  BY <1>2, <1>4, SameFilesOK
<1>6. /\ t.phase = s.phase /\ t.spawned = s.spawned /\ t.live = s.live /\ t.proc = s.proc
      /\ t.outbox = s.outbox /\ t.running = s.running
  BY <1>2, <1>3 DEF Only, Names
<1>7. t.inflight[w] = None /\ \A v \in Workers \ {w} : t.inflight[v] = s.inflight[v]
  BY <1>2, <1>4 DEF SameFiles
<1>8. SlotsOK(t)
  BY <1>1, <1>6, <1>7 DEF SlotsOK, LiveSlots
<1>9. FramesOK(t)
  BY <1>1, <1>6, <1>7 DEF FramesOK
<1>10. Inv(t)
  BY <1>3, <1>5, <1>6, <1>8, <1>9 DEF Inv
<1>11. QED
  BY <1>6, <1>7, <1>10 DEF t, r

LEMMA OnFileDoneInv ==
  ASSUME CoordInv, NEW w \in Workers, OnFileDone(w)
  PROVE  CoordInv'
<1> DEFINE f == Head(c.outbox[w])
           d == decoded(w)
           counted == bail_if_due(WithResult(d, w, f.idx, f.fail))
<1>1. /\ Receives(w, "file_done")
      /\ c' = IF d.inflight[w] # f.idx THEN d
              ELSE IF counted.alive[w] THEN assign_work(counted, w) ELSE counted
  BY DEF OnFileDone, WithResult
<1>2. /\ Inv(d) /\ NoReady(d, w) /\ d.phase = "driving"
      /\ d.proc[w] \notin {"none", "boot"} /\ f \in Frame /\ f.idx \in Files
  BY <1>1, DecodedInv
<1> HIDE DEF d, f
<1>3. CASE d.inflight[w] # f.idx
  BY <1>1, <1>2, <1>3 DEF CoordInv
<1>4. CASE d.inflight[w] = f.idx
  <2>1. f.fail \in {0, 1}
    BY <1>2 DEF Frame
  <2>2. /\ Inv(counted) /\ counted.phase = "driving" /\ counted.inflight[w] = None
        /\ counted.proc = d.proc /\ counted.outbox = d.outbox
    BY <1>2, <1>4, <2>1, CountInv
  <2> HIDE DEF counted
  <2>3. NoReady(counted, w) /\ counted.proc[w] \notin {"none", "boot"}
    BY <1>2, <2>2 DEF NoReady
  <2>4. Inv(assign_work(counted, w))
    BY <2>2, <2>3, AssignInv
  <2>5. QED
    BY <1>1, <1>4, <2>2, <2>4 DEF CoordInv
<1>5. QED
  BY <1>3, <1>4

LEMMA OnAggregatesInv ==
  ASSUME CoordInv, NEW w \in Workers, OnAggregates(w)
  PROVE  CoordInv'
<1> SUFFICES Inv(c')
  BY DEF CoordInv
<1> DEFINE d == decoded(w)
           fragments == d.fragments + 1
<1>1. Receives(w, "aggregates") /\ c' = [d EXCEPT !.fragments = @ + 1]
  BY DEF OnAggregates
<1>2. Inv(d) /\ d.phase = "driving"
  BY <1>1, DecodedInv
<1> HIDE DEF d
<1>3. d \in State /\ FilesOK(d) /\ BailOK(d)
  BY <1>2 DEF Inv
<1>4. fragments \in Nat /\ c' = [d EXCEPT !.fragments = fragments]
  BY <1>1, <1>3 DEF State
<1> HIDE DEF fragments
<1>5. c' \in State /\ Only(d, c', {"fragments"})
  BY <1>3, <1>4 DEF State, Only, Names
<1>6. SameFiles(d, c') /\ SameSlots(d, c') /\ BailOK(c')
  BY <1>3, <1>5 DEF SameFiles, SameSlots, BailOK, Only, Names
<1>7. FilesOK(c')
  BY <1>3, <1>6, SameFilesOK
<1>8. QED
  BY <1>2, <1>5, <1>6, <1>7, SameSlotsOK

\* A flag of the slot is set before try_reap().
LEMMA FlagInv ==
  ASSUME NEW s, NEW t, Inv(s), s.phase = "driving", t \in State,
         Only(s, t, {"ipc_done", "killed", "alive", "exit_status"})
  PROVE  Inv(t) /\ t.phase = "driving" /\ t.proc = s.proc
<1>1. s \in State /\ FilesOK(s) /\ BailOK(s)
  BY DEF Inv
<1>2. SameFiles(s, t) /\ SameSlots(s, t) /\ BailOK(t)
  BY <1>1 DEF SameFiles, SameSlots, BailOK, Only, Names
<1>3. FilesOK(t)
  BY <1>1, <1>2, SameFilesOK
<1>4. QED
  BY <1>2, <1>3, SameSlotsOK DEF SameSlots

LEMMA OnCorruptFrameInv ==
  ASSUME CoordInv, NEW w \in Workers, OnCorruptFrame(w)
  PROVE  CoordInv'
<1> DEFINE d == decoded(w)
           done == [d.ipc_done EXCEPT ![w] = TRUE]
           killed == [d.killed EXCEPT ![w] = TRUE]
           t == [d EXCEPT !.ipc_done = done, !.killed = killed]
<1>1. /\ Receives(w, "corrupt")
      /\ c' \in try_reap([d EXCEPT !.ipc_done[w] = TRUE, !.killed[w] = TRUE], w)
  BY DEF OnCorruptFrame
<1>2. Inv(d) /\ d.phase = "driving" /\ d.proc[w] # "none" /\ d \in State
  BY <1>1, DecodedInv DEF Inv
<1> HIDE DEF d
<1>3. /\ [d EXCEPT !.ipc_done[w] = TRUE, !.killed[w] = TRUE] = t
      /\ done \in [Workers -> BOOLEAN] /\ killed \in [Workers -> BOOLEAN]
  BY <1>2 DEF State
<1> HIDE DEF done, killed
<1>4. t \in State /\ Only(d, t, {"ipc_done", "killed"})
  BY <1>2, <1>3 DEF State, Only, Names
<1> HIDE DEF t
<1>5. Only(d, t, {"ipc_done", "killed", "alive", "exit_status"})
  BY <1>4 DEF Only
<1>6. Inv(t) /\ t.phase = "driving" /\ t.proc = d.proc
  BY <1>2, <1>4, <1>5, FlagInv
<1>7. QED
  BY <1>1, <1>2, <1>3, <1>6, TryReapInv DEF CoordInv

LEMMA OnChannelCloseInv ==
  ASSUME CoordInv, NEW w \in Workers, OnChannelClose(w)
  PROVE  CoordInv'
<1> DEFINE done == [c.ipc_done EXCEPT ![w] = TRUE]
           t == [c EXCEPT !.ipc_done = done]
<1>1. /\ c.phase = "driving" /\ c.proc[w] # "none"
      /\ c' \in try_reap([c EXCEPT !.ipc_done[w] = TRUE], w)
  BY DEF OnChannelClose, Statuses
<1>2. Inv(c) /\ c \in State
  BY DEF CoordInv, Inv
<1>3. [c EXCEPT !.ipc_done[w] = TRUE] = t /\ done \in [Workers -> BOOLEAN]
  BY <1>2 DEF State
<1> HIDE DEF done
<1>4. t \in State /\ Only(c, t, {"ipc_done"})
  BY <1>2, <1>3 DEF State, Only, Names
<1> HIDE DEF t
<1>5. Only(c, t, {"ipc_done", "killed", "alive", "exit_status"})
  BY <1>4 DEF Only
<1>6. Inv(t) /\ t.phase = "driving" /\ t.proc = c.proc
  BY <1>1, <1>2, <1>4, <1>5, FlagInv
<1>7. QED
  BY <1>1, <1>3, <1>6, TryReapInv DEF CoordInv

LEMMA OnProcessExitInv ==
  ASSUME CoordInv, NEW w \in Workers, on_process_exit(w)
  PROVE  CoordInv'
<1> DEFINE alive == [c.alive EXCEPT ![w] = FALSE]
           exits == [c.exit_status EXCEPT ![w] = c.proc[w]]
           t == [c EXCEPT !.alive = alive, !.exit_status = exits]
<1>1. /\ c.phase = "driving" /\ c.proc[w] \in Statuses /\ c.proc[w] # "none"
      /\ c' \in try_reap([c EXCEPT !.alive[w] = FALSE, !.exit_status[w] = c.proc[w]], w)
  BY DEF on_process_exit, Statuses
<1>2. Inv(c) /\ c \in State
  BY DEF CoordInv, Inv
<1>3. /\ [c EXCEPT !.alive[w] = FALSE, !.exit_status[w] = c.proc[w]] = t
      /\ alive \in [Workers -> BOOLEAN] /\ exits \in [Workers -> Statuses \cup {None}]
  BY <1>1, <1>2 DEF State
<1> HIDE DEF alive, exits
<1>4. t \in State /\ Only(c, t, {"alive", "exit_status"})
  BY <1>2, <1>3 DEF State, Only, Names
<1> HIDE DEF t
<1>5. Only(c, t, {"ipc_done", "killed", "alive", "exit_status"})
  BY <1>4 DEF Only
<1>6. Inv(t) /\ t.phase = "driving" /\ t.proc = c.proc
  BY <1>1, <1>2, <1>4, <1>5, FlagInv
<1>7. QED
  BY <1>1, <1>3, <1>6, TryReapInv DEF CoordInv

-----------------------------------------------------------------------------
(* The theorems *)

LEMMA NextInv == CoordInv /\ [CoordNext]_c => CoordInv'
<1> SUFFICES ASSUME CoordInv, [CoordNext]_c PROVE CoordInv'
  OBVIOUS
<1>1. CASE UNCHANGED c
  BY <1>1 DEF CoordInv
<1>2. CASE DriveStart \/ DriveEnd \/ maybe_scale_up \/ abort_all
  BY <1>2, DriveStartInv, DriveEndInv, ScaleUpInv, AbortAllInv
<1>3. ASSUME NEW w \in Workers, Step(w) \/ Fault(w) PROVE CoordInv'
  <2>1. CASE OnReady(w) \/ OnFileDone(w) \/ OnAggregates(w) \/ OnCorruptFrame(w)
             \/ OnChannelClose(w) \/ on_process_exit(w)
    BY <2>1, OnReadyInv, OnFileDoneInv, OnAggregatesInv, OnCorruptFrameInv,
       OnChannelCloseInv, OnProcessExitInv
  <2>2. CASE WorkerReady(w) \/ WorkerReceive(w) \/ WorkerStartFile(w)
             \/ WorkerFinishFile(w) \/ WorkerExit(w) \/ WorkerCorrupts(w)
    BY <2>2, WorkerReadyInv, WorkerReceiveInv, WorkerStartFileInv, WorkerFinishFileInv,
       WorkerExitInv, WorkerCorruptsInv
  <2>3. CASE WorkerDies(w) \/ WorkerKilled(w)
    BY <2>3, WorkerEndsInv
  <2>4. QED
    BY <1>3, <2>1, <2>2, <2>3 DEF Step, Fault
<1>4. QED
  BY <1>1, <1>2, <1>3 DEF CoordNext

\* Every reachable state of the coordinator, its workers and their pipes
\* satisfies the inductive invariant.
THEOREM CoordInvariant == CoordSpec => []CoordInv
BY InitInv, NextInv, PTL DEF CoordSpec

\* The state keeps its type: in particular live_workers never goes below zero,
\* and neither does the number of files that maybe_scale_up() computes.
THEOREM CoordTypeCorrect == CoordSpec => []CoordTypeOK
<1>1. CoordInv => CoordTypeOK
  BY DEF CoordInv, Inv, CoordTypeOK
<1>2. QED
  BY <1>1, CoordInvariant, PTL

\* For any number of files and slots: a file is in one slot's range, with one
\* worker or counted once, and files_done is the number of files counted,
\* whatever was stolen, died, was respawned or aborted.
THEOREM FileIsInOnePlace == CoordSpec => []FilesPartition
<1>1. CoordInv => FilesPartition
  <2> SUFFICES ASSUME CoordInv PROVE FilesPartition
    OBVIOUS
  <2>1. RangesOK(c) /\ PlacesOK(c) /\ c.files_done = Cardinality(Counted(c))
    BY DEF CoordInv, Inv, FilesOK
  <2>2. ASSUME NEW f \in Files
        PROVE  Cardinality(Holders(f)) + Cardinality(Runners(f)) + c.counted[f] = 1
    <3>1. /\ c.counted[f] \in {0, 1}
          /\ c.counted[f] = 0 <=> Queued(c, f) \/ Dispatched(c, f)
          /\ ~(Queued(c, f) /\ Dispatched(c, f))
      BY <2>1 DEF PlacesOK
    <3>2. Cardinality(Holders(f)) = IF Queued(c, f) THEN 1 ELSE 0
      <4>1. CASE Queued(c, f)
        <5>1. PICK w \in Workers : in_range(c, w, f)
          BY <4>1 DEF Queued
        <5>2. Holders(f) = {w}
          BY <2>1, <5>1 DEF RangesOK, Holders
        <5>3. QED
          BY <4>1, <5>2, FS_Singleton
      <4>2. CASE ~Queued(c, f)
        <5>1. Holders(f) = {}
          BY <4>2 DEF Queued, Holders
        <5>2. QED
          BY <4>2, <5>1, FS_EmptySet
      <4>3. QED
        BY <4>1, <4>2
    <3>3. Cardinality(Runners(f)) = IF Dispatched(c, f) THEN 1 ELSE 0
      <4>1. CASE Dispatched(c, f)
        <5>1. PICK w \in Workers : c.inflight[w] = f
          BY <4>1 DEF Dispatched
        <5>2. Runners(f) = {w}
          BY <2>1, <5>1, Numbers DEF PlacesOK, Runners
        <5>3. QED
          BY <4>1, <5>2, FS_Singleton
      <4>2. CASE ~Dispatched(c, f)
        <5>1. Runners(f) = {}
          BY <4>2 DEF Dispatched, Runners
        <5>2. QED
          BY <4>2, <5>1, FS_EmptySet
      <4>3. QED
        BY <4>1, <4>2
    <3>4. QED
      BY <3>1, <3>2, <3>3
  <2>3. QED
    BY <2>1, <2>2 DEF FilesPartition, Counted
<1>2. QED
  BY <1>1, CoordInvariant, PTL

\* When drive() returns no file goes unmentioned, unless --bail stopped the run.
THEOREM FinishedRunIsComplete == CoordSpec => []AllFilesReported
<1>1. CoordInv => AllFilesReported
  <2> SUFFICES ASSUME CoordInv, c.phase = "finished", ~(c.bail > 0 /\ c.fails >= c.bail)
               PROVE  \A f \in Files : c.counted[f] = 1
    BY DEF AllFilesReported
  <2>1. /\ c \in State /\ RangesOK(c) /\ PlacesOK(c) /\ SlotsOK(c) /\ BailOK(c)
        /\ c.files_done = Cardinality(Counted(c)) /\ is_done(c)
    BY DEF CoordInv, Inv, FilesOK
  <2>2. CASE c.files_done >= N
    <3>1. Counted(c) \in SUBSET Files
      BY DEF Counted
    <3>2. Cardinality(Counted(c)) <= N /\ (N = Cardinality(Counted(c)) => Files = Counted(c))
      BY <3>1, Numbers, FS_Subset
    <3>3. c.files_done \in Nat
      BY <2>1, FieldTypes
    <3>4. Files = Counted(c)
      BY <2>1, <2>2, <3>2, <3>3, Numbers
    <3>5. QED
      BY <3>4 DEF Counted
  <2>3. CASE c.bailed
    <3>1. \A w \in Workers : c.lo[w] = c.hi[w]
      BY <2>1, <2>3 DEF BailOK
    <3>2. LiveSlots(c) = {}
      BY <2>1, LiveSlotsFinite, FS_EmptySet DEF SlotsOK, is_done
    <3>3. \A w \in Workers : c.inflight[w] = None
      BY <2>1, <3>2 DEF SlotsOK, LiveSlots
    <3>4. ASSUME NEW f \in Files PROVE ~Queued(c, f) /\ ~Dispatched(c, f)
      <4>1. ~Dispatched(c, f)
        BY <3>3, Numbers DEF Dispatched
      <4>2. ~Queued(c, f)
        BY <2>1, <3>1, FieldTypes, Numbers DEF Queued, in_range
      <4>3. QED
        BY <4>1, <4>2
    <3>5. QED
      BY <2>1, <3>4 DEF PlacesOK
  <2>4. QED
    BY <2>1, <2>2, <2>3 DEF is_done
<1>2. QED
  BY <1>1, CoordInvariant, PTL

-----------------------------------------------------------------------------
(* The pipes of one slot.  Their part of the invariant reads the values of    *)
(* that slot only, so that what a step does to it is a fact about constants.  *)

Has(q, kind) == \E i \in DOMAIN q : q[i].kind = kind

Run(f) == [kind |-> "run", idx |-> f]
Shutdown == [kind |-> "shutdown", idx |-> None]

\* What a worker has written and the coordinator not decoded: the result is of
\* the file dispatched to it and nothing that the file could have corrupted
\* comes after it; a pipe is corrupted while a file is dispatched; the aggregates
\* come last, from a worker that has nothing left to do.
OutboxOK(out, infl, proc, bailed) ==
  \A i \in DOMAIN out :
    /\ out[i].kind = "file_done" =>
         /\ out[i].idx = infl /\ infl # None
         /\ \A j \in DOMAIN out : i < j => out[j].kind \notin {"file_done", "corrupt"}
    /\ out[i].kind = "corrupt" => infl # None
    /\ out[i].kind = "aggregates" =>
         /\ i = Len(out) /\ infl = None /\ proc = "exited"
         /\ Has(out, "ready") => bailed

\* Nothing is dispatched: at most shutdowns are on the way, and one is sent before
\* the worker is ready only by bail_out().
IdleOK(in, out, pend, runn, stp, proc, bailed) ==
  /\ pend = None /\ runn = None
  /\ \A i \in DOMAIN in : in[i].kind = "shutdown"
  /\ in # <<>> \/ stp => bailed \/ (proc # "boot" /\ ~Has(out, "ready"))

\* A file is dispatched: it is on the way, waiting, running or on the way back.
BusyOK(in, out, pend, runn, infl) ==
  \/ in = <<Run(infl)>> /\ pend = None /\ runn = None /\ ~Has(out, "file_done")
  \/ in = <<>> /\ pend = infl /\ runn = None /\ ~Has(out, "file_done")
  \/ in = <<>> /\ pend = None /\ runn = infl /\ ~Has(out, "file_done")
  \/ in = <<>> /\ pend = None /\ runn = None /\ Has(out, "file_done")

LinkOK(in, out, pend, runn, infl, stp, proc, bailed) ==
  \/ infl = None /\ IdleOK(in, out, pend, runn, stp, proc, bailed)
  \/ infl # None /\ ~stp /\ BusyOK(in, out, pend, runn, infl)

Pipe(in, out, pend, runn, infl, stp, proc, ipc, bailed) ==
  /\ proc # "none" /\ ~ipc => OutboxOK(out, infl, proc, bailed)
  /\ proc \in Living /\ ~ipc => LinkOK(in, out, pend, runn, infl, stp, proc, bailed)
  /\ proc \in Living /\ ipc => ~stp /\ ~Has(in, "shutdown")
  /\ proc = "none" \/ ipc => ~Has(out, "aggregates")

\* The slot is ready for assign_work().
Quiet(in, out, infl, stp, proc, ipc, bailed) ==
  /\ infl = None /\ ~ipc /\ proc \notin {"none", "boot"} /\ ~Has(out, "ready")
  /\ Has(out, "aggregates") \/ (proc \in Living /\ (in # <<>> \/ stp)) => bailed

LEMMA AppendFacts ==
  ASSUME NEW S, NEW q \in Seq(S), NEW x \in S
  PROVE  /\ Append(q, x) \in Seq(S) /\ Len(Append(q, x)) = Len(q) + 1
         /\ Len(q) + 1 \in DOMAIN Append(q, x) /\ Append(q, x)[Len(q) + 1] = x
         /\ \A i \in DOMAIN q : i \in DOMAIN Append(q, x) /\ Append(q, x)[i] = q[i]
         /\ \A i \in DOMAIN Append(q, x) : i \in DOMAIN q \/ i = Len(q) + 1
         /\ \A i \in DOMAIN q : i \in Nat /\ i < Len(q) + 1
         /\ Len(q) \in Nat
OBVIOUS

LEMMA HasAppend ==
  ASSUME NEW S, NEW q \in Seq(S), NEW x \in S, NEW k
  PROVE  Has(Append(q, x), k) <=> Has(q, k) \/ x.kind = k
BY AppendFacts DEF Has

LEMMA TailFacts ==
  ASSUME NEW S, NEW q \in Seq(S), q # <<>>
  PROVE  /\ Tail(q) \in Seq(S) /\ 1 \in DOMAIN q /\ Head(q) = q[1] /\ Len(q) \in Nat
         /\ Len(Tail(q)) = Len(q) - 1
         /\ \A i \in DOMAIN Tail(q) : i \in Nat /\ i + 1 \in DOMAIN q /\ 1 < i + 1
                                      /\ Tail(q)[i] = q[i + 1]
         /\ \A i \in DOMAIN q : i \in Nat /\ (i = 1 \/ i - 1 \in DOMAIN Tail(q))
OBVIOUS

LEMMA HasTail ==
  ASSUME NEW S, NEW q \in Seq(S), q # <<>>, NEW k, Has(Tail(q), k)
  PROVE  Has(q, k)
BY TailFacts DEF Has

LEMMA EmptyHas == \A k : ~Has(<<>>, k)
BY DEF Has

LEMMA LivingFacts ==
  /\ Living = {"boot", "wait", "run"} /\ Statuses = {"exited", "panicked"}
BY DEF Living, Statuses

-----------------------------------------------------------------------------
(* What the coordinator does to the pipes of one slot *)

\* bail_out() and abort_on_worker_panic(): one more shutdown to an idle worker.
LEMMA PipeBails ==
  ASSUME NEW in \in Seq(Command), NEW out \in Seq(Frame), NEW pend, NEW runn, NEW infl,
         NEW stp, NEW proc, NEW ipc \in BOOLEAN, NEW bailed \in BOOLEAN,
         Pipe(in, out, pend, runn, infl, stp, proc, ipc, bailed)
  PROVE  /\ Pipe(in, out, pend, runn, infl, stp, proc, ipc, TRUE)
         /\ infl = None /\ ~ipc =>
              Pipe(Append(in, Shutdown), out, pend, runn, infl, stp, proc, ipc, TRUE)
<1>1. OutboxOK(out, infl, proc, bailed) => OutboxOK(out, infl, proc, TRUE)
  BY DEF OutboxOK
<1>2. LinkOK(in, out, pend, runn, infl, stp, proc, bailed)
        => LinkOK(in, out, pend, runn, infl, stp, proc, TRUE)
  BY DEF LinkOK, IdleOK
<1>3. Pipe(in, out, pend, runn, infl, stp, proc, ipc, TRUE)
  BY <1>1, <1>2 DEF Pipe
<1>4. ASSUME infl = None, ~ipc
      PROVE  Pipe(Append(in, Shutdown), out, pend, runn, infl, stp, proc, ipc, TRUE)
  <2>1. Shutdown \in Command /\ Shutdown.kind = "shutdown"
    BY DEF Shutdown, Command
  <2>2. ASSUME LinkOK(in, out, pend, runn, infl, stp, proc, TRUE)
        PROVE  LinkOK(Append(in, Shutdown), out, pend, runn, infl, stp, proc, TRUE)
    <3>1. IdleOK(in, out, pend, runn, stp, proc, TRUE)
      BY <1>4, <2>2 DEF LinkOK
    <3>2. \A i \in DOMAIN Append(in, Shutdown) : Append(in, Shutdown)[i].kind = "shutdown"
      BY <2>1, <3>1, AppendFacts DEF IdleOK
    <3>3. QED
      BY <1>4, <3>1, <3>2 DEF LinkOK, IdleOK
  <2>3. QED
    BY <1>3, <1>4, <2>2 DEF Pipe
<1>5. QED
  BY <1>3, <1>4

\* assign_work(): a shutdown, or a file, to a worker that waits for one.
LEMMA PipeAssigns ==
  ASSUME NEW in \in Seq(Command), NEW out \in Seq(Frame), NEW pend, NEW runn, NEW infl,
         NEW stp \in BOOLEAN, NEW proc, NEW ipc \in BOOLEAN, NEW bailed \in BOOLEAN,
         Pipe(in, out, pend, runn, infl, stp, proc, ipc, bailed),
         Quiet(in, out, infl, stp, proc, ipc, bailed)
  PROVE  /\ Pipe(Append(in, Shutdown), out, pend, runn, None, stp, proc, ipc, bailed)
         /\ ~bailed => \A f \in Files :
              Pipe(Append(in, Run(f)), out, pend, runn, f, stp, proc, ipc, bailed)
<1>1. infl = None /\ ~ipc /\ proc \notin {"none", "boot"} /\ ~Has(out, "ready")
  BY DEF Quiet
<1>2. OutboxOK(out, infl, proc, bailed)
  BY <1>1 DEF Pipe
<1>3. proc \in Living => IdleOK(in, out, pend, runn, stp, proc, bailed)
  BY <1>1 DEF Pipe, LinkOK
<1>4. Pipe(Append(in, Shutdown), out, pend, runn, None, stp, proc, ipc, bailed)
  <2>1. Shutdown \in Command /\ Shutdown.kind = "shutdown"
    BY DEF Shutdown, Command
  <2>2. ASSUME proc \in Living
        PROVE  IdleOK(Append(in, Shutdown), out, pend, runn, stp, proc, bailed)
    <3>1. \A i \in DOMAIN Append(in, Shutdown) : Append(in, Shutdown)[i].kind = "shutdown"
      BY <1>3, <2>1, <2>2, AppendFacts DEF IdleOK
    <3>2. QED
      BY <1>1, <1>3, <2>2, <3>1 DEF IdleOK
  <2>3. QED
    BY <1>1, <1>2, <2>2 DEF Pipe, LinkOK
<1>5. ASSUME ~bailed, NEW f \in Files
      PROVE  Pipe(Append(in, Run(f)), out, pend, runn, f, stp, proc, ipc, bailed)
  <2>1. f # None
    BY Numbers
  <2>2. ~Has(out, "aggregates")
    BY <1>5 DEF Quiet
  <2>3. ~Has(out, "file_done")
    BY <1>1, <1>2 DEF OutboxOK, Has
  <2>4. OutboxOK(out, f, proc, bailed)
    BY <2>1, <2>2, <2>3 DEF OutboxOK, Has
  <2>5. ASSUME proc \in Living
        PROVE  ~stp /\ BusyOK(Append(in, Run(f)), out, pend, runn, f)
    <3>1. in = <<>> /\ ~stp
      BY <1>5, <2>5 DEF Quiet
    <3>2. Append(in, Run(f)) = <<Run(f)>>
      BY <3>1
    <3>3. QED
      BY <1>3, <2>3, <2>5, <3>1, <3>2 DEF IdleOK, BusyOK
  <2>6. QED
    BY <1>1, <2>1, <2>4, <2>5 DEF Pipe, LinkOK
<1>6. QED
  BY <1>4, <1>5

\* A "ready" frame is decoded.
LEMMA PipeReady ==
  ASSUME NEW in \in Seq(Command), NEW out \in Seq(Frame), NEW pend, NEW runn, NEW infl,
         NEW stp, NEW proc, NEW ipc, ~ipc, NEW bailed,
         Pipe(in, out, pend, runn, infl, stp, proc, ipc, bailed),
         proc \notin {"none", "boot"}, out # <<>>, Head(out).kind = "ready", infl = None,
         ~Has(Tail(out), "ready")
  PROVE  /\ Pipe(in, Tail(out), pend, runn, infl, stp, proc, ipc, bailed)
         /\ Quiet(in, Tail(out), infl, stp, proc, ipc, bailed)
<1>1. Has(out, "ready")
  BY TailFacts DEF Has
<1>2. OutboxOK(out, infl, proc, bailed)
  BY DEF Pipe
<1>3. OutboxOK(Tail(out), infl, proc, bailed)
  <2> DEFINE q == Tail(out)
  <2>1. \A i \in DOMAIN q : i + 1 \in DOMAIN out /\ q[i] = out[i + 1] /\ i \in Nat
    BY TailFacts
  <2>2. Len(q) = Len(out) - 1 /\ Len(out) \in Nat /\ ~Has(q, "ready")
    BY TailFacts
  <2> HIDE DEF q
  <2>3. QED
    BY <1>2, <2>1, <2>2 DEF OutboxOK, q
<1>4. ASSUME proc \in Living
      PROVE  /\ IdleOK(in, Tail(out), pend, runn, stp, proc, bailed)
             /\ in # <<>> \/ stp => bailed
  <2>1. IdleOK(in, out, pend, runn, stp, proc, bailed)
    BY <1>4 DEF Pipe, LinkOK
  <2>2. QED
    BY <1>1, <2>1 DEF IdleOK
<1>5. Has(Tail(out), "aggregates") => bailed
  <2>1. Has(Tail(out), "aggregates") => Has(out, "aggregates")
    BY HasTail
  <2>2. QED
    BY <1>1, <1>2, <2>1 DEF OutboxOK, Has
<1>6. QED
  BY <1>3, <1>4, <1>5 DEF Pipe, Quiet, LinkOK

\* The result of the file that was dispatched is decoded.
LEMMA PipeDone ==
  ASSUME NEW in \in Seq(Command), NEW out \in Seq(Frame), NEW pend, NEW runn, NEW infl,
         NEW stp, NEW proc, NEW ipc, ~ipc, NEW bailed,
         Pipe(in, out, pend, runn, infl, stp, proc, ipc, bailed),
         proc \notin {"none", "boot"}, out # <<>>, Head(out).kind = "file_done",
         ~Has(Tail(out), "ready")
  PROVE  /\ Head(out).idx = infl /\ infl # None
         /\ Pipe(in, Tail(out), pend, runn, None, stp, proc, ipc, bailed)
         /\ Quiet(in, Tail(out), None, stp, proc, ipc, bailed)
         /\ ~Has(Tail(out), "file_done")
<1> DEFINE q == Tail(out)
<1>1. OutboxOK(out, infl, proc, bailed)
  BY DEF Pipe
<1>2. 1 \in DOMAIN out /\ Head(out) = out[1]
  BY TailFacts
<1>3. Head(out).idx = infl /\ infl # None
  BY <1>1, <1>2 DEF OutboxOK
<1>4. \A i \in DOMAIN q : i + 1 \in DOMAIN out /\ q[i] = out[i + 1] /\ 1 < i + 1
  BY TailFacts
<1>5. \A i \in DOMAIN q : q[i].kind \notin {"file_done", "corrupt", "aggregates"}
  <2> HIDE DEF q
  <2>1. \A i \in DOMAIN q : q[i].kind \notin {"file_done", "corrupt"}
    BY <1>1, <1>2, <1>4 DEF OutboxOK
  <2>2. \A i \in DOMAIN q : q[i].kind # "aggregates"
    BY <1>1, <1>3, <1>4 DEF OutboxOK
  <2>3. QED
    BY <2>1, <2>2
<1>6. /\ ~Has(q, "ready") /\ ~Has(q, "file_done") /\ ~Has(q, "aggregates")
      /\ OutboxOK(q, None, proc, bailed)
  BY <1>5 DEF Has, OutboxOK
<1>7. ASSUME proc \in Living
      PROVE  in = <<>> /\ ~stp /\ pend = None /\ runn = None
  <2>1. Has(out, "file_done")
    BY <1>2 DEF Has
  <2>2. ~stp /\ BusyOK(in, out, pend, runn, infl)
    BY <1>3, <1>7 DEF Pipe, LinkOK
  <2>3. QED
    BY <2>1, <2>2 DEF BusyOK
<1>8. proc \in Living => IdleOK(in, q, pend, runn, stp, proc, bailed)
  BY <1>7 DEF IdleOK
<1> HIDE DEF q
<1>9. /\ Pipe(in, q, pend, runn, None, stp, proc, ipc, bailed)
      /\ Quiet(in, q, None, stp, proc, ipc, bailed)
  BY <1>6, <1>7, <1>8 DEF Pipe, LinkOK, Quiet
<1>10. QED
  BY <1>3, <1>6, <1>9 DEF q

\* The aggregates are decoded: they are the last frame.
LEMMA PipeAggregates ==
  ASSUME NEW in, NEW out \in Seq(Frame), NEW pend, NEW runn, NEW infl,
         NEW stp, NEW proc, NEW ipc, ~ipc, NEW bailed,
         Pipe(in, out, pend, runn, infl, stp, proc, ipc, bailed),
         proc # "none", out # <<>>, Head(out).kind = "aggregates"
  PROVE  /\ Tail(out) = <<>>
         /\ Pipe(in, Tail(out), pend, runn, infl, stp, proc, ipc, bailed)
<1>1. OutboxOK(out, infl, proc, bailed)
  BY DEF Pipe
<1>2. 1 \in DOMAIN out /\ Head(out) = out[1]
  BY TailFacts
<1>3. 1 = Len(out) /\ proc = "exited"
  BY <1>1, <1>2 DEF OutboxOK
<1>4. Tail(out) = <<>>
  <2> DEFINE q == Tail(out)
  <2>1. q \in Seq(Frame) /\ Len(q) = 0
    BY <1>3, TailFacts
  <2> HIDE DEF q
  <2>2. q = <<>>
    BY <2>1
  <2>3. QED
    BY <2>2 DEF q
<1>5. proc \notin Living
  BY <1>3, LivingFacts
<1>6. OutboxOK(<<>>, infl, proc, bailed)
  BY DEF OutboxOK
<1>7. QED
  BY <1>4, <1>5, <1>6, EmptyHas DEF Pipe

\* The channel ends, on a frame that cannot be decoded or after the last one.
LEMMA PipeCorrupt ==
  ASSUME NEW in \in Seq(Command), NEW out \in Seq(Frame), NEW pend, NEW runn, NEW infl,
         NEW stp, NEW proc, NEW ipc, ~ipc, NEW bailed,
         Pipe(in, out, pend, runn, infl, stp, proc, ipc, bailed),
         proc # "none", out # <<>>, Head(out).kind = "corrupt", NEW done, done
  PROVE  Pipe(in, Tail(out), pend, runn, infl, stp, proc, done, bailed)
<1>1. OutboxOK(out, infl, proc, bailed)
  BY DEF Pipe
<1>2. 1 \in DOMAIN out /\ Head(out) = out[1]
  BY TailFacts
<1>3. infl # None
  BY <1>1, <1>2 DEF OutboxOK
<1>4. ~Has(Tail(out), "aggregates")
  <2>1. ~Has(out, "aggregates")
    BY <1>1, <1>3 DEF OutboxOK, Has
  <2>2. QED
    BY <2>1, HasTail
<1>5. ASSUME proc \in Living PROVE ~stp /\ ~Has(in, "shutdown")
  <2>1. ~stp /\ BusyOK(in, out, pend, runn, infl)
    BY <1>3, <1>5 DEF Pipe, LinkOK
  <2>2. in = <<>> \/ in = <<Run(infl)>>
    BY <2>1 DEF BusyOK
  <2>3. ~Has(<<Run(infl)>>, "shutdown")
    BY DEF Has, Run
  <2>4. QED
    BY <2>1, <2>2, <2>3, EmptyHas
<1>6. QED
  BY <1>4, <1>5 DEF Pipe

LEMMA PipeCloses ==
  ASSUME NEW in, NEW pend, NEW runn, NEW infl, NEW stp, NEW proc \in Statuses,
         NEW done, done, NEW bailed
  PROVE  Pipe(in, <<>>, pend, runn, infl, stp, proc, done, bailed)
<1>1. proc \notin Living /\ proc # "none"
  BY LivingFacts
<1>2. QED
  BY <1>1, EmptyHas DEF Pipe

-----------------------------------------------------------------------------
(* What a worker does to its own pipes *)

\* start(): a new process with a new channel.
LEMMA PipeBoots ==
  ASSUME NEW bailed
  PROVE  Pipe(<<>>, <<>>, None, None, None, FALSE, "boot", FALSE, bailed)
<1>1. OutboxOK(<<>>, None, "boot", bailed)
  BY DEF OutboxOK
<1>2. IdleOK(<<>>, <<>>, None, None, FALSE, "boot", bailed)
  BY DEF IdleOK
<1>3. QED
  BY <1>1, <1>2 DEF Pipe, LinkOK

\* reap_worker(): the slot is left without a process.
LEMMA PipeReaped ==
  ASSUME NEW in, NEW out, NEW pend, NEW runn, NEW infl, NEW stp, NEW ipc, NEW bailed,
         ~Has(out, "aggregates")
  PROVE  Pipe(in, out, pend, runn, infl, stp, "none", ipc, bailed)
BY LivingFacts DEF Pipe

LEMMA WrittenReady ==
  ASSUME NEW in \in Seq(Command), NEW pend, NEW runn, NEW infl, NEW stp \in BOOLEAN,
         NEW ipc \in BOOLEAN, NEW bailed \in BOOLEAN, NEW x \in Frame, x.kind = "ready",
         Pipe(in, <<>>, pend, runn, infl, stp, "boot", ipc, bailed), infl = None
  PROVE  Pipe(in, Append(<<>>, x), pend, runn, infl, stp, "wait", ipc, bailed)
<1> DEFINE q == Append(<<>>, x)
<1>1. q = <<x>>
  OBVIOUS
<1>2. \A i \in DOMAIN q : q[i].kind = "ready"
  BY <1>1
<1> HIDE DEF q
<1>3. OutboxOK(q, infl, "wait", bailed) /\ ~Has(q, "aggregates")
  BY <1>2 DEF OutboxOK, Has
<1>4. ASSUME ~ipc PROVE IdleOK(in, q, pend, runn, stp, "wait", bailed)
  <2>1. IdleOK(in, <<>>, pend, runn, stp, "boot", bailed)
    BY <1>4, LivingFacts DEF Pipe, LinkOK
  <2>2. QED
    BY <2>1 DEF IdleOK
<1>5. ASSUME ipc PROVE ~stp /\ ~Has(in, "shutdown")
  BY <1>5, LivingFacts DEF Pipe
<1>6. Pipe(in, q, pend, runn, infl, stp, "wait", ipc, bailed)
  BY <1>3, <1>4, <1>5 DEF Pipe, LinkOK
<1>7. QED
  BY <1>6 DEF q

\* on_channel_frame()
LEMMA ReadRun ==
  ASSUME NEW in \in Seq(Command), NEW out, NEW pend, NEW runn, NEW infl,
         NEW stp, NEW proc \in {"wait", "run"}, NEW ipc, NEW bailed,
         Pipe(in, out, pend, runn, infl, stp, proc, ipc, bailed),
         in # <<>>, Head(in).kind = "run"
  PROVE  Pipe(Tail(in), out, Head(in).idx, runn, infl, stp, proc, ipc, bailed)
<1>1. 1 \in DOMAIN in /\ Head(in) = in[1] /\ proc \in Living
  BY TailFacts, LivingFacts
<1>2. ASSUME ~ipc
      PROVE  LinkOK(Tail(in), out, Head(in).idx, runn, infl, stp, proc, bailed)
  <2>1. LinkOK(in, out, pend, runn, infl, stp, proc, bailed)
    BY <1>1, <1>2 DEF Pipe
  <2>2. infl # None /\ ~stp /\ BusyOK(in, out, pend, runn, infl)
    BY <1>1, <2>1 DEF LinkOK, IdleOK
  <2>3. in = <<Run(infl)>> /\ pend = None /\ runn = None /\ ~Has(out, "file_done")
    BY <2>2 DEF BusyOK
  <2>4. Tail(in) = <<>> /\ Head(in).idx = infl
    BY <2>3 DEF Run
  <2>5. QED
    BY <2>2, <2>3, <2>4 DEF LinkOK, BusyOK
<1>3. ~Has(in, "shutdown") => ~Has(Tail(in), "shutdown")
  BY HasTail
<1>4. QED
  BY <1>2, <1>3 DEF Pipe

LEMMA ReadShutdown ==
  ASSUME NEW in \in Seq(Command), NEW out, NEW pend, NEW runn, NEW infl,
         NEW stp, NEW proc \in {"wait", "run"}, NEW ipc, NEW bailed,
         Pipe(in, out, pend, runn, infl, stp, proc, ipc, bailed),
         in # <<>>, Head(in).kind = "shutdown"
  PROVE  Pipe(Tail(in), out, pend, runn, infl, TRUE, proc, ipc, bailed)
<1>1. 1 \in DOMAIN in /\ Head(in) = in[1] /\ proc \in Living
  BY TailFacts, LivingFacts
<1>2. ~ipc
  BY <1>1 DEF Pipe, Has
<1>3. LinkOK(in, out, pend, runn, infl, stp, proc, bailed)
  BY <1>1, <1>2 DEF Pipe
<1>4. infl = None
  <2>1. in # <<Run(infl)>>
    BY DEF Run
  <2>2. QED
    BY <1>3, <2>1 DEF LinkOK, BusyOK
<1>5. IdleOK(in, out, pend, runn, stp, proc, bailed)
  BY <1>3, <1>4 DEF LinkOK
<1>6. IdleOK(Tail(in), out, pend, runn, TRUE, proc, bailed)
  <2>1. \A i \in DOMAIN Tail(in) : Tail(in)[i].kind = "shutdown"
    BY <1>5, TailFacts DEF IdleOK
  <2>2. QED
    BY <1>5, <2>1 DEF IdleOK
<1>7. QED
  BY <1>2, <1>4, <1>6 DEF Pipe, LinkOK

LEMMA FileStarts ==
  ASSUME NEW in, NEW out, NEW pend, NEW runn, NEW infl, NEW stp, NEW ipc \in BOOLEAN,
         NEW bailed, Pipe(in, out, pend, runn, infl, stp, "wait", ipc, bailed), pend # None
  PROVE  Pipe(in, out, None, pend, infl, stp, "run", ipc, bailed)
<1>1. "wait" \in Living /\ "run" \in Living
  BY LivingFacts
<1>2. ASSUME ~ipc
      PROVE  /\ OutboxOK(out, infl, "run", bailed)
             /\ LinkOK(in, out, None, pend, infl, stp, "run", bailed)
  <2>1. OutboxOK(out, infl, "wait", bailed)
    BY <1>2 DEF Pipe
  <2>2. LinkOK(in, out, pend, runn, infl, stp, "wait", bailed)
    BY <1>1, <1>2 DEF Pipe
  <2>3. infl # None /\ ~stp /\ in = <<>> /\ pend = infl /\ ~Has(out, "file_done")
    BY <2>2 DEF LinkOK, IdleOK, BusyOK
  <2>4. QED
    BY <2>1, <2>3 DEF OutboxOK, LinkOK, BusyOK
<1>3. QED
  BY <1>1, <1>2 DEF Pipe

\* The result is written behind whatever the file has corrupted.
LEMMA FileFinishes ==
  ASSUME NEW in, NEW out \in Seq(Frame), NEW pend, NEW runn \in Files, NEW infl, NEW stp,
         NEW ipc \in BOOLEAN, NEW bailed,
         Pipe(in, out, pend, runn, infl, stp, "run", ipc, bailed),
         NEW x \in Frame, x.kind = "file_done", x.idx = runn
  PROVE  /\ Pipe(in, Append(out, x), pend, None, infl, stp, "wait", ipc, bailed)
         /\ ~Has(Append(out, x), "aggregates")
<1> DEFINE q == Append(out, x)
<1>1. /\ "wait" \in Living /\ "run" \in Living /\ runn # None
  BY LivingFacts, Numbers
<1>2. /\ \A i \in DOMAIN q : \/ i \in DOMAIN out /\ q[i] = out[i]
                             \/ i = Len(out) + 1 /\ q[i] = x
      /\ \A i \in DOMAIN q : i <= Len(out) + 1 /\ i \in Nat
      /\ Len(out) + 1 \in DOMAIN q /\ q[Len(out) + 1] = x /\ Len(out) \in Nat
  OBVIOUS
<1>3. ~Has(out, "aggregates")
  BY DEF Pipe, OutboxOK, Has
<1>4. ~Has(q, "aggregates")
  BY <1>3, HasAppend
<1> HIDE DEF q
<1>5. ASSUME ~ipc
      PROVE  /\ OutboxOK(q, infl, "wait", bailed)
             /\ LinkOK(in, q, pend, None, infl, stp, "wait", bailed)
  <2>1. OutboxOK(out, infl, "run", bailed)
    BY <1>5 DEF Pipe
  <2>2. LinkOK(in, out, pend, runn, infl, stp, "run", bailed)
    BY <1>1, <1>5 DEF Pipe
  <2>3. /\ infl # None /\ ~stp /\ in = <<>> /\ pend = None /\ runn = infl
        /\ ~Has(out, "file_done")
    BY <1>1, <2>2 DEF LinkOK, IdleOK, BusyOK
  <2>4. \A i \in DOMAIN q : q[i].kind = "file_done" => i = Len(out) + 1 /\ q[i].idx = infl
    BY <1>2, <2>3 DEF Has
  <2>5. \A i \in DOMAIN q : q[i].kind # "aggregates"
    BY <1>4 DEF Has
  <2>6. OutboxOK(q, infl, "wait", bailed)
    <3> SUFFICES ASSUME NEW i \in DOMAIN q, q[i].kind = "file_done"
                 PROVE  \A j \in DOMAIN q : i < j => q[j].kind \notin {"file_done", "corrupt"}
      BY <2>3, <2>4, <2>5 DEF OutboxOK
    <3>1. i = Len(out) + 1
      BY <2>4
    <3>2. QED
      BY <1>2, <3>1
  <2>7. Has(q, "file_done")
    BY <1>2 DEF Has
  <2>8. QED
    BY <2>3, <2>6, <2>7 DEF LinkOK, BusyOK
<1>6. Pipe(in, q, pend, None, infl, stp, "wait", ipc, bailed)
  BY <1>1, <1>4, <1>5 DEF Pipe
<1>7. QED
  BY <1>4, <1>6 DEF q

\* The aggregates are flushed by a worker that was told to stop and has nothing
\* to do, on a channel that still is decoded.
LEMMA WorkerFlushes ==
  ASSUME NEW in, NEW out \in Seq(Frame), NEW pend, NEW runn, NEW infl,
         NEW stp, NEW ipc, NEW bailed, stp,
         Pipe(in, out, pend, runn, infl, stp, "wait", ipc, bailed),
         NEW x \in Frame, x.kind = "aggregates"
  PROVE  /\ Pipe(in, Append(out, x), pend, runn, infl, stp, "exited", ipc, bailed)
         /\ ~Has(out, "aggregates") /\ Has(Append(out, x), "aggregates") /\ ~ipc
<1> DEFINE q == Append(out, x)
<1>1. "wait" \in Living /\ "exited" \notin Living
  BY LivingFacts
<1>2. ~ipc
  BY <1>1 DEF Pipe
<1>3. OutboxOK(out, infl, "wait", bailed)
  BY <1>2 DEF Pipe
<1>4. infl = None /\ IdleOK(in, out, pend, runn, stp, "wait", bailed)
  BY <1>1, <1>2 DEF Pipe, LinkOK
<1>5. Has(out, "ready") => bailed
  BY <1>4 DEF IdleOK
<1>6. ~Has(out, "aggregates") /\ ~Has(out, "file_done") /\ ~Has(out, "corrupt")
  BY <1>3, <1>4 DEF OutboxOK, Has
<1>7. /\ Has(q, "ready") => bailed
      /\ Has(q, "aggregates") /\ ~Has(q, "file_done") /\ ~Has(q, "corrupt")
  BY <1>5, <1>6, HasAppend
<1>8. \A i \in DOMAIN q : q[i].kind = "aggregates" => i = Len(q)
  BY <1>6, AppendFacts DEF Has
<1> HIDE DEF q
<1>9. OutboxOK(q, infl, "exited", bailed)
  BY <1>4, <1>7, <1>8 DEF OutboxOK, Has
<1>10. QED
  BY <1>1, <1>2, <1>6, <1>7, <1>9 DEF Pipe, q

\* Test code writes to the channel while its file runs.
LEMMA FileCorrupts ==
  ASSUME NEW in, NEW out \in Seq(Frame), NEW pend, NEW runn \in Files, NEW infl, NEW stp,
         NEW ipc \in BOOLEAN, NEW bailed,
         Pipe(in, out, pend, runn, infl, stp, "run", ipc, bailed),
         NEW x \in Frame, x.kind = "corrupt"
  PROVE  /\ Pipe(in, Append(out, x), pend, runn, infl, stp, "run", ipc, bailed)
         /\ ~Has(out, "aggregates") /\ ~Has(Append(out, x), "aggregates")
<1> DEFINE q == Append(out, x)
<1>1. "run" \in Living /\ runn # None
  BY LivingFacts, Numbers
<1>2. ~Has(out, "aggregates")
  BY DEF Pipe, OutboxOK, Has
<1>3. ~Has(q, "aggregates")
  BY <1>2, HasAppend
<1>4. ASSUME ~ipc
      PROVE  /\ OutboxOK(q, infl, "run", bailed)
             /\ LinkOK(in, q, pend, runn, infl, stp, "run", bailed)
  <2>1. LinkOK(in, out, pend, runn, infl, stp, "run", bailed)
    BY <1>1, <1>4 DEF Pipe
  <2>2. /\ infl # None /\ ~stp /\ in = <<>> /\ pend = None /\ runn = infl
        /\ ~Has(out, "file_done")
    BY <1>1, <2>1 DEF LinkOK, IdleOK, BusyOK
  <2>3. ~Has(q, "file_done")
    BY <2>2, HasAppend
  <2> HIDE DEF q
  <2>4. OutboxOK(q, infl, "run", bailed)
    BY <1>3, <2>2, <2>3 DEF OutboxOK, Has
  <2>5. QED
    BY <2>2, <2>3, <2>4 DEF LinkOK, BusyOK
<1> HIDE DEF q
<1>5. Pipe(in, q, pend, runn, infl, stp, "run", ipc, bailed)
  <2>1. ipc => ~stp /\ ~Has(in, "shutdown")
    BY <1>1 DEF Pipe
  <2>2. QED
    BY <1>3, <1>4, <2>1 DEF Pipe
<1>6. QED
  BY <1>2, <1>3, <1>5 DEF q

\* A process ends: a prefix of what it wrote is left.
LEMMA ProcessEnds ==
  ASSUME NEW in, NEW out \in Seq(Frame), NEW pend, NEW runn, NEW infl, NEW stp,
         NEW proc \in Living, NEW ipc \in BOOLEAN, NEW bailed,
         Pipe(in, out, pend, runn, infl, stp, proc, ipc, bailed),
         NEW status \in Statuses, NEW q, \A i \in DOMAIN q : i \in DOMAIN out /\ q[i] = out[i]
  PROVE  /\ Pipe(in, q, pend, runn, infl, stp, status, ipc, bailed)
         /\ ~Has(out, "aggregates") /\ ~Has(q, "aggregates")
<1>1. proc \notin {"none", "exited"} /\ status \notin Living /\ status # "none"
  BY LivingFacts
<1>2. ~Has(out, "aggregates")
  BY <1>1 DEF Pipe, OutboxOK, Has
<1>3. ~Has(q, "aggregates")
  BY <1>2 DEF Has
<1>4. ~ipc => OutboxOK(q, infl, status, bailed)
  <2>1. ~ipc => OutboxOK(out, infl, proc, bailed)
    BY <1>1 DEF Pipe
  <2>2. QED
    BY <1>3, <2>1 DEF OutboxOK, Has
<1>5. QED
  BY <1>1, <1>2, <1>3, <1>4 DEF Pipe

-----------------------------------------------------------------------------
(* The second part of the invariant: the pipes of every slot, the results and *)
(* the aggregates that are on their way                                       *)

PipeOK(s, w) ==
  Pipe(s.inbox[w], s.outbox[w], s.pending[w], s.running[w], s.inflight[w], s.stop[w],
       s.proc[w], s.ipc_done[w], s.bailed)

QuietSlot(s, w) ==
  Quiet(s.inbox[w], s.outbox[w], s.inflight[w], s.stop[w], s.proc[w], s.ipc_done[w], s.bailed)

PipesOK(s) == \A w \in Workers : PipeOK(s, w)

\* The coordinator will decode the result of f.
Delivered(s, w, f) ==
  /\ s.proc[w] # "none" /\ ~s.ipc_done[w]
  /\ \E i \in DOMAIN s.outbox[w] :
       /\ s.outbox[w][i].kind = "file_done" /\ s.outbox[w][i].idx = f
       /\ \A j \in DOMAIN s.outbox[w] : j < i => s.outbox[w][j].kind # "corrupt"

\* A result that was written is counted, as what it is, or will be decoded.
ResultsOK(s) ==
  /\ \A f \in s.crashed : s.counted[f] = 1
  /\ \A f \in s.written : \/ s.counted[f] = 1 /\ f \notin s.crashed
                          \/ \E w \in Workers : Delivered(s, w, f)

Flushing(s) == {w \in Workers : Has(s.outbox[w], "aggregates")}
FlushOK(s) == s.flushed = s.fragments + Cardinality(Flushing(s))

Pipes(s) == PipesOK(s) /\ ResultsOK(s) /\ FlushOK(s)

PipesInv == Pipes(c)

LEMMA PipeTypes ==
  ASSUME NEW s \in State, NEW w \in Workers
  PROVE  /\ s.inbox[w] \in Seq(Command) /\ s.outbox[w] \in Seq(Frame)
         /\ s.pending[w] \in Files \cup {None} /\ s.running[w] \in Files \cup {None}
         /\ s.inflight[w] \in Files \cup {None}
         /\ s.stop[w] \in BOOLEAN /\ s.ipc_done[w] \in BOOLEAN /\ s.bailed \in BOOLEAN
         /\ s.proc[w] \in Statuses \cup Living \cup {"none"}
         /\ s.crashed \in SUBSET Files /\ s.written \in SUBSET Files
         /\ s.flushed \in Nat /\ s.fragments \in Nat
BY DEF State

\* What the state does to the pipes of slot u when it is about another slot.
SamePipe(s, t, u) ==
  /\ t.outbox[u] = s.outbox[u] /\ t.pending[u] = s.pending[u]
  /\ t.running[u] = s.running[u] /\ t.inflight[u] = s.inflight[u]
  /\ t.stop[u] = s.stop[u] /\ t.proc[u] = s.proc[u] /\ t.ipc_done[u] = s.ipc_done[u]

Spares(s, t, u) ==
  /\ SamePipe(s, t, u) /\ (s.bailed => t.bailed)
  /\ \/ t.inbox[u] = s.inbox[u]
     \/ /\ t.bailed /\ s.inflight[u] = None /\ ~s.ipc_done[u]
        /\ t.inbox[u] = Append(s.inbox[u], Shutdown)

LEMMA SparesPipe ==
  ASSUME NEW s \in State, NEW t \in State, NEW u \in Workers, Spares(s, t, u), PipeOK(s, u)
  PROVE  PipeOK(t, u)
<1> DEFINE P(in, b) == Pipe(in, s.outbox[u], s.pending[u], s.running[u], s.inflight[u],
                            s.stop[u], s.proc[u], s.ipc_done[u], b)
<1>1. P(s.inbox[u], s.bailed)
  BY DEF PipeOK
<1>2. /\ P(s.inbox[u], TRUE)
      /\ s.inflight[u] = None /\ ~s.ipc_done[u] => P(Append(s.inbox[u], Shutdown), TRUE)
  <2>1. /\ s.inbox[u] \in Seq(Command) /\ s.outbox[u] \in Seq(Frame)
        /\ s.ipc_done[u] \in BOOLEAN /\ s.bailed \in BOOLEAN
    BY PipeTypes
  <2>2. QED
    BY <1>1, <2>1, PipeBails
<1>3. PipeOK(t, u) <=> P(t.inbox[u], t.bailed)
  BY DEF PipeOK, Spares, SamePipe
<1>4. t.bailed \in BOOLEAN /\ s.bailed \in BOOLEAN
  BY PipeTypes
<1> HIDE DEF P
<1>5. CASE t.bailed = s.bailed /\ t.inbox[u] = s.inbox[u]
  BY <1>1, <1>3, <1>5
<1>6. CASE t.bailed /\ t.inbox[u] = s.inbox[u]
  <2>1. t.bailed = TRUE
    BY <1>4, <1>6
  <2>2. QED
    BY <1>2, <1>3, <1>6, <2>1
<1>7. CASE /\ t.bailed /\ s.inflight[u] = None /\ ~s.ipc_done[u]
           /\ t.inbox[u] = Append(s.inbox[u], Shutdown)
  <2>1. t.bailed = TRUE
    BY <1>4, <1>7
  <2>2. QED
    BY <1>2, <1>3, <1>7, <2>1
<1>8. (t.bailed = s.bailed \/ t.bailed) /\
      \/ t.inbox[u] = s.inbox[u]
      \/ /\ t.bailed /\ s.inflight[u] = None /\ ~s.ipc_done[u]
         /\ t.inbox[u] = Append(s.inbox[u], Shutdown)
  BY <1>4 DEF Spares
<1>9. QED
  BY <1>5, <1>6, <1>7, <1>8

LEMMA SparesQuiet ==
  ASSUME NEW s \in State, NEW t \in State, NEW u \in Workers, Spares(s, t, u), QuietSlot(s, u)
  PROVE  QuietSlot(t, u)
BY DEF QuietSlot, Quiet, Spares, SamePipe

LEMMA SparesThen ==
  ASSUME NEW s, NEW t, NEW r, NEW u, Spares(s, t, u), SamePipe(t, r, u),
         r.inbox[u] = t.inbox[u], t.bailed => r.bailed
  PROVE  Spares(s, r, u)
BY DEF Spares, SamePipe

LEMMA AfterSpares ==
  ASSUME NEW s, NEW t, NEW r, NEW u, SamePipe(s, t, u), t.inbox[u] = s.inbox[u],
         t.bailed = s.bailed, Spares(t, r, u)
  PROVE  Spares(s, r, u)
BY DEF Spares, SamePipe

-----------------------------------------------------------------------------
(* What the coordinator's functions send *)

LEMMA SendSends ==
  ASSUME NEW s \in State, NEW w \in Workers, NEW x \in Command
  PROVE  /\ send(s, w, x).inbox[w] = IF s.ipc_done[w] THEN s.inbox[w] ELSE Append(s.inbox[w], x)
         /\ \A v \in Workers \ {w} : send(s, w, x).inbox[v] = s.inbox[v]
<1> DEFINE inbox == [s.inbox EXCEPT ![w] = Append(s.inbox[w], x)]
<1>1. [s EXCEPT !.inbox[w] = Append(@, x)].inbox = inbox
  BY DEF State
<1>2. inbox[w] = Append(s.inbox[w], x) /\ \A v \in Workers \ {w} : inbox[v] = s.inbox[v]
  BY FieldTypes
<1> HIDE DEF inbox
<1>3. QED
  BY <1>1, <1>2 DEF send

LEMMA CommandTypes == Shutdown \in Command /\ \A f \in Files : Run(f) \in Command
BY DEF Shutdown, Run, Command

LEMMA ShutdownSends ==
  ASSUME NEW s \in State, NEW w \in Workers
  PROVE  /\ shutdown(s, w).inbox[w] =
              IF s.ipc_done[w] THEN s.inbox[w] ELSE Append(s.inbox[w], Shutdown)
         /\ \A v \in Workers \ {w} : shutdown(s, w).inbox[v] = s.inbox[v]
<1>1. shutdown(s, w) = send(s, w, Shutdown)
  BY DEF shutdown, Shutdown
<1>2. QED
  BY <1>1, CommandTypes, SendSends

\* pop_front() and dispatch, on a channel that is open.
LEMMA PopSends ==
  ASSUME NEW s \in State, FilesOK(s), NEW w \in Workers, s.lo[w] < s.hi[w], ~s.ipc_done[w]
  PROVE  LET t == pop_and_dispatch(s, w)
         IN  /\ \A v \in Workers \ {w} : t.inbox[v] = s.inbox[v]
             /\ \E f \in Files : t.inflight[w] = f /\ t.inbox[w] = Append(s.inbox[w], Run(f))
<1> DEFINE lo == [s.lo EXCEPT ![w] = s.lo[w] + 1]
           r == [s EXCEPT !.lo = lo]
           f == s.lo[w]
           q == send(r, w, Run(f))
           t == pop_and_dispatch(s, w)
<1>1. s.lo \in [Workers -> Nat] /\ s.hi \in [Workers -> Nat]
  BY FieldTypes
<1>2. f \in Files
  BY <1>1, Numbers DEF FilesOK, RangesOK
<1>3. [s EXCEPT !.lo[w] = @ + 1] = r /\ lo \in [Workers -> Nat]
  BY <1>1 DEF State
<1> HIDE DEF lo
<1>4. r \in State /\ Only(s, r, {"lo"})
  BY <1>3, SetLo
<1>5. t = [q EXCEPT !.inflight[w] = f]
  BY <1>3 DEF pop_and_dispatch, dispatch, Run
<1> HIDE DEF r
<1>6. r.inbox = s.inbox /\ r.ipc_done = s.ipc_done
  BY <1>4 DEF Only, Names
<1>7. /\ q \in State
      /\ q.inbox[w] = Append(s.inbox[w], Run(f))
      /\ \A v \in Workers \ {w} : q.inbox[v] = s.inbox[v]
  <2>1. Run(f) \in Command
    BY <1>2, CommandTypes
  <2>2. q \in State
    BY <1>4, <2>1, SendFacts
  <2>3. /\ q.inbox[w] = IF r.ipc_done[w] THEN r.inbox[w] ELSE Append(r.inbox[w], Run(f))
        /\ \A v \in Workers \ {w} : q.inbox[v] = r.inbox[v]
    BY <1>4, <2>1, SendSends
  <2> HIDE DEF q
  <2>4. QED
    BY <1>6, <2>2, <2>3
<1> HIDE DEF q, f, t
<1>8. t.inbox = q.inbox /\ t.inflight[w] = f
  <2>1. q.inflight \in [Workers -> Files \cup {None}]
    BY <1>7, FieldTypes
  <2>2. t.inbox = q.inbox /\ t.inflight = [q.inflight EXCEPT ![w] = f]
    BY <1>5, <1>7 DEF State
  <2>3. QED
    BY <2>1, <2>2
<1>9. QED
  BY <1>2, <1>7, <1>8 DEF t

\* assign_work(), on a channel that is open.
LEMMA AssignSends ==
  ASSUME NEW s \in State, FilesOK(s), NEW w \in Workers, s.inflight[w] = None,
         ~s.ipc_done[w]
  PROVE  LET t == assign_work(s, w)
         IN  /\ \A v \in Workers \ {w} : t.inbox[v] = s.inbox[v]
             /\ \/ t.inflight[w] = None /\ t.inbox[w] = Append(s.inbox[w], Shutdown)
                \/ ~s.bailed /\ \E f \in Files :
                     t.inflight[w] = f /\ t.inbox[w] = Append(s.inbox[w], Run(f))
<1> DEFINE t == assign_work(s, w)
<1>1. CASE t = shutdown(s, w)
  <2>1. Only(s, t, {"inbox"})
    BY <1>1, ShutdownFacts
  <2>2. t.inflight = s.inflight
    <3> HIDE DEF t
    <3>1. QED
      BY <2>1 DEF Only, Names
  <2>3. QED
    BY <1>1, <2>2, ShutdownSends
<1>2. CASE ~s.bailed /\ s.lo[w] < s.hi[w] /\ t = pop_and_dispatch(s, w)
  BY <1>2, PopSends
<1>3. CASE /\ ~s.bailed /\ ~(s.lo[w] < s.hi[w])
           /\ \E v \in Workers : /\ is_steal_victim(s, v)
                                 /\ t = pop_and_dispatch(steal_back_half(s, w, v), w)
  <2>1. PICK v \in Workers : /\ is_steal_victim(s, v)
                             /\ t = pop_and_dispatch(steal_back_half(s, w, v), w)
    BY <1>3
  <2> DEFINE r == steal_back_half(s, w, v)
  <2>2. /\ r \in State /\ FilesOK(r) /\ r.lo[w] < r.hi[w]
        /\ Only(s, r, {"lo", "hi"})
    BY <1>3, <2>1, StealFacts DEF is_steal_victim
  <2>3. t = pop_and_dispatch(r, w)
    BY <2>1
  <2> HIDE DEF r, t
  <2>4. r.inbox = s.inbox /\ r.ipc_done = s.ipc_done
    BY <2>2 DEF Only, Names
  <2>5. /\ \A u \in Workers \ {w} : t.inbox[u] = s.inbox[u]
        /\ \E f \in Files : t.inflight[w] = f /\ t.inbox[w] = Append(s.inbox[w], Run(f))
    BY <2>2, <2>3, <2>4, PopSends, SMTT(30)
  <2>6. QED
    BY <1>3, <2>5 DEF t
<1>4. QED
  BY <1>1, <1>2, <1>3 DEF assign_work

LEMMA BailSpares ==
  ASSUME NEW s \in State, BailOK(s), NEW u \in Workers
  PROVE  Spares(s, bail_if_due(s), u)
<1> DEFINE t == bail_if_due(s)
           inbox == [w \in Workers |->
                       IF w < s.spawned /\ s.alive[w] /\ s.inflight[w] = None
                         THEN shutdown(s, w).inbox[w] ELSE s.inbox[w]]
           r == [s EXCEPT !.bailed = TRUE, !.inbox = inbox]
<1>1. t = s \/ t = r
  BY DEF bail_if_due, bail_out
<1>2. Only(s, t, {"bailed", "inbox"})
  BY BailFacts
<1>3. \/ inbox[u] = s.inbox[u]
      \/ /\ s.inflight[u] = None /\ ~s.ipc_done[u]
         /\ inbox[u] = Append(s.inbox[u], Shutdown)
  BY ShutdownSends
<1> HIDE DEF inbox
<1>4. r.inbox = inbox /\ r.bailed = TRUE
  BY DEF State
<1> HIDE DEF r, t
<1>5. SamePipe(s, t, u)
  BY <1>2 DEF SamePipe, Only, Names
<1>6. QED
  BY <1>1, <1>3, <1>4, <1>5 DEF Spares, t

-----------------------------------------------------------------------------
(* Which files are charged to a crash *)

\* Files that were not counted are charged to a crash and counted.
Crashes(s, t) ==
  /\ \A g \in Files : s.counted[g] = 1 => t.counted[g] = 1
  /\ \A g \in t.crashed : g \in s.crashed \/ (s.counted[g] # 1 /\ t.counted[g] = 1)

LEMMA CrashesTwice ==
  ASSUME NEW s, NEW t, NEW u, Crashes(s, t), Crashes(t, u), u.crashed \in SUBSET Files
  PROVE  Crashes(s, u)
BY DEF Crashes

LEMMA AccountCrashes ==
  ASSUME NEW s \in State, BailOK(s), NEW f \in Files, s.files_done < N, s.counted[f] = 0
  PROVE  Crashes(s, account_crash(s, f)) /\ \A u \in Workers : Spares(s, account_crash(s, f), u)
<1> DEFINE fails == s.fails + 1
           done == s.files_done + 1
           counted == [s.counted EXCEPT ![f] = s.counted[f] + 1]
           crashed == s.crashed \cup {f}
           r == [s EXCEPT !.fails = fails, !.files_done = done, !.counted = counted,
                          !.crashed = crashed]
           t == account_crash(s, f)
<1>1. fails \in Nat /\ done \in 0 .. N /\ counted \in [Files -> Nat]
  BY FieldTypes, Numbers, SMTT(30)
<1>2. crashed \in SUBSET Files
  BY DEF State
<1>3. [s EXCEPT !.fails = @ + 1, !.files_done = @ + 1, !.counted[f] = @ + 1,
                !.crashed = @ \cup {f}] = r
  BY DEF State
<1>4. t = bail_if_due(r)
  BY <1>3 DEF account_crash
<1>5. /\ \A g \in Files : s.counted[g] = 1 => counted[g] = 1
      /\ \A g \in crashed : g \in s.crashed \/ (s.counted[g] # 1 /\ counted[g] = 1)
  BY FieldTypes
<1> HIDE DEF fails, done, counted, crashed, t
<1>6. /\ r \in State /\ r.counted = counted /\ r.crashed = crashed /\ r.fails = fails
      /\ Only(s, r, {"fails", "files_done", "counted", "crashed"})
  BY <1>1, <1>2, ZenonT(40) DEF State, Only, Names
<1> HIDE DEF r
<1>7. BailOK(r)
  <2>1. /\ r.bailed = s.bailed /\ r.bail = s.bail /\ r.lo = s.lo /\ r.hi = s.hi
        /\ r.fails = s.fails + 1
    BY <1>6 DEF Only, Names, fails
  <2>2. s.fails \in Nat /\ s.bail \in Nat
    BY FieldTypes
  <2>3. QED
    BY <2>1, <2>2 DEF BailOK
<1>8. Only(r, t, {"bailed", "inbox"}) /\ \A u \in Workers : Spares(r, t, u)
  BY <1>4, <1>6, <1>7, BailFacts, BailSpares
<1>9. t.counted = counted /\ t.crashed = crashed
  BY <1>6, <1>8 DEF Only, Names
<1>10. ASSUME NEW u \in Workers PROVE Spares(s, t, u)
  <2>1. SamePipe(s, r, u) /\ r.inbox[u] = s.inbox[u] /\ r.bailed = s.bailed
    BY <1>6 DEF SamePipe, Only, Names
  <2>2. QED
    BY <1>8, <2>1, AfterSpares
<1>11. QED
  BY <1>5, <1>9, <1>10 DEF Crashes, t

LEMMA AbortCrashes ==
  ASSUME NEW s \in State, FilesOK(s)
  PROVE  Crashes(s, abort_queued_files(s))
<1> DEFINE t == abort_queued_files(s)
<1>1. /\ t \in State /\ FilesOK(t) /\ \A w \in Workers : t.lo[w] = t.hi[w]
      /\ Only(s, t, {"lo", "fails", "files_done", "counted", "crashed"})
  BY AbortFacts
<1>2. t.crashed = s.crashed \cup {q[2] : q \in QueuedPairs(s)}
  BY DEF abort_queued_files, QueuedPairs, State
<1>3. \A g \in Files : g \in {q[2] : q \in QueuedPairs(s)} => Queued(s, g)
  BY DEF QueuedPairs, Queued
<1> HIDE DEF t
<1>4. t.inflight = s.inflight
  BY <1>1 DEF Only, Names
<1>5. \A g \in Files : ~Queued(t, g) /\ (Dispatched(t, g) <=> Dispatched(s, g))
  <2>1. t.lo \in [Workers -> Nat] /\ t.hi \in [Workers -> Nat]
    BY <1>1, FieldTypes
  <2>2. ASSUME NEW g \in Files, NEW w \in Workers PROVE ~in_range(t, w, g)
    BY <1>1, <2>1, Numbers DEF in_range
  <2>3. QED
    BY <1>4, <2>2 DEF Queued, Dispatched
<1>6. \A g \in Files : /\ s.counted[g] = 0 <=> Queued(s, g) \/ Dispatched(s, g)
                       /\ ~(Queued(s, g) /\ Dispatched(s, g))
                       /\ t.counted[g] \in {0, 1}
                       /\ t.counted[g] = 0 <=> Queued(t, g) \/ Dispatched(t, g)
  BY <1>1 DEF FilesOK, PlacesOK
<1>7. \A g \in Files : s.counted[g] = 1 => t.counted[g] = 1
  BY <1>5, <1>6
<1>8. \A g \in Files : Queued(s, g) => s.counted[g] # 1 /\ t.counted[g] = 1
  BY <1>5, <1>6
<1>9. t.crashed \in SUBSET Files
  BY <1>1 DEF State
<1>10. QED
  BY <1>2, <1>3, <1>7, <1>8, <1>9 DEF Crashes, t

-----------------------------------------------------------------------------
(* Results and aggregates when no pipe of theirs is touched *)

LEMMA SameDelivered ==
  ASSUME NEW s, NEW t, NEW u, SamePipe(s, t, u), NEW f, Delivered(s, u, f)
  PROVE  Delivered(t, u, f)
BY DEF SamePipe, Delivered

LEMMA CrashedResults ==
  ASSUME NEW s \in State, NEW t \in State, ResultsOK(s), Crashes(s, t), t.written = s.written,
         \A u \in Workers : \A f \in Files : Delivered(s, u, f) => Delivered(t, u, f)
  PROVE  ResultsOK(t)
<1>1. s.written \in SUBSET Files /\ t.crashed \in SUBSET Files /\ s.crashed \in SUBSET Files
  BY DEF State
<1>2. \A f \in t.crashed : t.counted[f] = 1
  BY <1>1 DEF ResultsOK, Crashes
<1>3. ASSUME NEW f \in t.written
      PROVE  \/ t.counted[f] = 1 /\ f \notin t.crashed
             \/ \E w \in Workers : Delivered(t, w, f)
  BY <1>1, <1>3 DEF ResultsOK, Crashes
<1>4. QED
  BY <1>2, <1>3 DEF ResultsOK

LEMMA SameFlush ==
  ASSUME NEW s, NEW t, FlushOK(s), t.flushed = s.flushed, t.fragments = s.fragments,
         \A u \in Workers : Has(t.outbox[u], "aggregates") <=> Has(s.outbox[u], "aggregates")
  PROVE  FlushOK(t)
<1>1. Flushing(t) = Flushing(s)
  BY DEF Flushing
<1>2. QED
  BY <1>1 DEF FlushOK

PipeFields == {"inbox", "outbox", "pending", "running", "inflight", "stop", "proc", "ipc_done",
               "bailed", "counted", "crashed", "written", "flushed", "fragments"}

LEMMA SamePipes ==
  ASSUME NEW s, NEW t, NEW A, A \cap PipeFields = {}, Only(s, t, A), Pipes(s)
  PROVE  Pipes(t)
<1>1. /\ t.inbox = s.inbox /\ t.outbox = s.outbox /\ t.pending = s.pending
      /\ t.running = s.running /\ t.inflight = s.inflight /\ t.stop = s.stop
      /\ t.proc = s.proc /\ t.ipc_done = s.ipc_done /\ t.bailed = s.bailed
      /\ t.counted = s.counted /\ t.crashed = s.crashed /\ t.written = s.written
      /\ t.flushed = s.flushed /\ t.fragments = s.fragments
  BY DEF Only, Names, PipeFields
<1>2. PipesOK(t)
  BY <1>1 DEF Pipes, PipesOK, PipeOK
<1>3. ResultsOK(t)
  BY <1>1 DEF Pipes, ResultsOK, Delivered
<1>4. FlushOK(t)
  BY <1>1 DEF Pipes, FlushOK, Flushing
<1>5. QED
  BY <1>2, <1>3, <1>4 DEF Pipes

-----------------------------------------------------------------------------
(* How a slot is reaped, released and started *)

LEMMA ChargePipes ==
  ASSUME NEW s \in State, FilesOK(s), BailOK(s), NEW w \in Workers, s.live > 0
  PROVE  LET t == charge_inflight(s, w)
         IN  Crashes(s, t) /\ \A u \in Workers \ {w} : Spares(s, t, u)
<1> DEFINE live == s.live - 1
           exits == [s.exit_status EXCEPT ![w] = None]
           f == s.inflight[w]
           r == [s EXCEPT !.live = live, !.exit_status = exits]
           a == account_crash(r, f)
           inflight == [s.inflight EXCEPT ![w] = None]
           d == [a EXCEPT !.inflight = inflight]
           t == charge_inflight(s, w)
<1>1. live \in 0 .. K /\ exits \in [Workers -> Statuses \cup {None}]
  BY FieldTypes, Numbers, SMTT(30) DEF State
<1>2. [s EXCEPT !.live = @ - 1, !.exit_status[w] = None] = r
  BY DEF State
<1> HIDE DEF live, exits
<1>3. r \in State /\ Only(s, r, {"live", "exit_status"})
  BY <1>1 DEF State, Only, Names
<1>4. t = IF f = None THEN r
          ELSE IF s.exit_status[w] = "panicked"
                 THEN abort_on_worker_panic([a EXCEPT !.inflight[w] = None])
                 ELSE [a EXCEPT !.inflight[w] = None]
  BY <1>2 DEF charge_inflight
<1> HIDE DEF r, t
<1>5. SameFiles(s, r) /\ BailOK(r)
  BY <1>3 DEF SameFiles, BailOK, Only, Names
<1>6. FilesOK(r)
  BY <1>5, SameFilesOK
<1>7. /\ inflight \in [Workers -> Files \cup {None}] /\ f \in Files \cup {None}
      /\ \A u \in Workers \ {w} : inflight[u] = s.inflight[u]
  BY FieldTypes
<1>8. \A u \in Workers : /\ SamePipe(s, r, u) /\ r.inbox[u] = s.inbox[u]
                         /\ r.bailed = s.bailed
  BY <1>3 DEF SamePipe, Only, Names
<1>9. Crashes(s, r) /\ r.counted = s.counted /\ r.crashed = s.crashed
  BY <1>3 DEF Crashes, Only, Names
<1>10. CASE f = None
  <2>1. t = r
    BY <1>4, <1>10
  <2>2. \A u \in Workers : Spares(s, r, u)
    BY <1>8 DEF Spares
  <2>3. QED
    BY <1>9, <2>1, <2>2 DEF t
<1>11. CASE f # None
  <2> HIDE DEF inflight
  <2>1. f \in Files
    BY <1>7, <1>11
  <2>2. s.counted[f] = 0
    BY <2>1 DEF FilesOK, PlacesOK, Dispatched
  <2>3. r.files_done < N
    <3> DEFINE u == [inflight |-> [r.inflight EXCEPT ![w] = None], lo |-> r.lo, hi |-> r.hi,
                     counted |-> [r.counted EXCEPT ![f] = r.counted[f] + 1],
                     files_done |-> r.files_done + 1]
    <3>1. r.inflight[w] = f
      BY <1>5 DEF SameFiles
    <3> HIDE DEF f
    <3>2. /\ u.inflight = [r.inflight EXCEPT ![w] = None] /\ u.lo = r.lo /\ u.hi = r.hi
          /\ u.counted = [r.counted EXCEPT ![f] = r.counted[f] + 1]
          /\ u.files_done = r.files_done + 1
      OBVIOUS
    <3> HIDE DEF u
    <3>3. QED
      BY <1>3, <1>6, <2>1, <3>1, <3>2, CountFile
  <2> HIDE DEF f
  <2>4. /\ a \in State /\ BailOK(a)
        /\ Only(r, a, {"bailed", "inbox", "fails", "files_done", "counted", "crashed"})
        /\ a.files_done = r.files_done + 1
        /\ a.counted = [r.counted EXCEPT ![f] = r.counted[f] + 1]
    BY <1>3, <1>5, <2>1, <2>3, AccountFacts
  <2>5. r.counted[f] = 0
    BY <1>9, <2>2
  <2>6. Crashes(r, a) /\ \A u \in Workers : Spares(r, a, u)
    BY <1>3, <1>5, <2>1, <2>3, <2>5, AccountCrashes
  <2> HIDE DEF a
  <2>7. a.inflight = s.inflight /\ a.lo = r.lo /\ a.hi = r.hi
    BY <1>5, <2>4 DEF SameFiles, Only, Names
  <2>8. [a EXCEPT !.inflight[w] = None] = d
    BY <2>4, <2>7 DEF State, inflight
  <2>9. d \in State /\ d.inflight = inflight /\ Only(a, d, {"inflight"})
    BY <1>7, <2>4 DEF State, Only, Names
  <2> HIDE DEF d
  <2>10. /\ d.outbox = a.outbox /\ d.pending = a.pending /\ d.running = a.running
         /\ d.stop = a.stop /\ d.proc = a.proc /\ d.ipc_done = a.ipc_done
         /\ d.inbox = a.inbox /\ d.bailed = a.bailed
         /\ d.counted = a.counted /\ d.crashed = a.crashed
         /\ d.lo = a.lo /\ d.hi = a.hi /\ d.files_done = a.files_done
    BY <2>9 DEF Only, Names
  <2>11. Crashes(s, d)
    <3>1. Crashes(a, d)
      BY <2>10 DEF Crashes
    <3>2. a.crashed \in SUBSET Files /\ d.crashed \in SUBSET Files
      BY <2>4, <2>9 DEF State
    <3>3. QED
      BY <1>9, <2>6, <3>1, <3>2, CrashesTwice
  <2>12. ASSUME NEW u \in Workers \ {w} PROVE Spares(s, d, u)
    <3>1. Spares(s, a, u)
      BY <1>8, <2>6, AfterSpares
    <3>2. d.inflight[u] = a.inflight[u]
      BY <1>7, <2>7, <2>9
    <3>3. SamePipe(a, d, u) /\ d.inbox[u] = a.inbox[u] /\ (a.bailed => d.bailed)
      BY <2>10, <3>2 DEF SamePipe
    <3>4. QED
      BY <3>1, <3>3, SparesThen
  <2>13. FilesOK(d)
    <3>1. d.inflight = [r.inflight EXCEPT ![w] = None] /\ r.inflight[w] = f
      BY <1>5, <2>9 DEF SameFiles, inflight, f
    <3>2. /\ d.lo = r.lo /\ d.hi = r.hi /\ d.files_done = r.files_done + 1
          /\ d.counted = [r.counted EXCEPT ![f] = r.counted[f] + 1]
      BY <2>4, <2>7, <2>10
    <3>3. QED
      BY <1>3, <1>6, <2>1, <3>1, <3>2, CountFile
  <2>14. CASE s.exit_status[w] # "panicked"
    <3>1. t = d
      BY <1>4, <1>11, <2>8, <2>14 DEF f, a
    <3>2. QED
      BY <2>11, <2>12, <3>1 DEF t
  <2>15. CASE s.exit_status[w] = "panicked"
    <3>1. t = abort_on_worker_panic(d)
      BY <1>4, <1>11, <2>8, <2>15 DEF f, a
    <3> DEFINE killed == [v \in Workers |-> d.killed[v] \/ (v < d.spawned /\ d.alive[v])]
               k == [d EXCEPT !.killed = killed]
               b == [k EXCEPT !.bailed = TRUE]
    <3>2. t = IF d.bailed THEN k ELSE abort_queued_files(b)
      BY <3>1 DEF abort_on_worker_panic
    <3>3. killed \in [Workers -> BOOLEAN]
      OBVIOUS
    <3> HIDE DEF killed
    <3>4. k \in State /\ Only(d, k, {"killed"})
      BY <2>9, <3>3 DEF State, Only, Names
    <3> HIDE DEF k
    <3>5. b \in State /\ Only(k, b, {"bailed"}) /\ b.bailed = TRUE
      BY <3>4 DEF State, Only, Names
    <3> HIDE DEF b
    <3>6. SameFiles(d, b)
      BY <3>4, <3>5 DEF SameFiles, Only, Names
    <3>7. FilesOK(b)
      BY <2>13, <3>6, SameFilesOK
    <3>8. /\ abort_queued_files(b) \in State
          /\ Only(b, abort_queued_files(b), {"lo", "fails", "files_done", "counted", "crashed"})
          /\ Crashes(b, abort_queued_files(b))
      BY <3>5, <3>7, AbortFacts, AbortCrashes
    <3>9. t \in State /\ Crashes(d, t)
      <4>1. Crashes(d, k) /\ k.crashed \in SUBSET Files
        BY <3>4 DEF Crashes, Only, Names, State
      <4>2. Crashes(d, b)
        BY <3>4, <3>5 DEF Crashes, Only, Names
      <4>3. Crashes(d, abort_queued_files(b))
        <5>1. abort_queued_files(b).crashed \in SUBSET Files
          BY <3>8 DEF State
        <5>2. QED
          BY <3>8, <4>2, <5>1, CrashesTwice
      <4>4. QED
        BY <3>2, <3>4, <3>8, <4>1, <4>3
    <3>10. Crashes(s, t)
      <4>1. t.crashed \in SUBSET Files
        BY <3>9 DEF State
      <4>2. QED
        BY <2>11, <3>9, <4>1, CrashesTwice
    <3>11. ASSUME NEW u \in Workers \ {w} PROVE Spares(s, t, u)
      <4>1. SamePipe(d, t, u) /\ t.inbox[u] = d.inbox[u] /\ (d.bailed => t.bailed)
        <5>1. CASE t = k
          BY <3>4, <5>1 DEF SamePipe, Only, Names
        <5>2. CASE t = abort_queued_files(b)
          <6>1. Only(b, t, {"lo", "fails", "files_done", "counted", "crashed"})
            BY <3>8, <5>2
          <6>2. QED
            BY <3>4, <3>5, <6>1 DEF SamePipe, Only, Names
        <5>3. QED
          BY <3>2, <5>1, <5>2
      <4>2. QED
        BY <2>12, <4>1, SparesThen
    <3>12. QED
      BY <3>10, <3>11 DEF t
  <2>16. QED
    BY <2>14, <2>15
<1>12. QED
  BY <1>10, <1>11

\* reap_worker() up to the respawn, of a slot whose channel has ended.
LEMMA ReapedPipes ==
  ASSUME NEW s, Inv(s), Pipes(s), s.phase = "driving", NEW w \in Workers,
         s.proc[w] # "none", s.ipc_done[w]
  PROVE  Pipes([charge_inflight(s, w) EXCEPT !.proc[w] = "none"])
<1> DEFINE a == charge_inflight(s, w)
           proc == [s.proc EXCEPT ![w] = "none"]
           r == [a EXCEPT !.proc = proc]
<1>1. /\ s \in State /\ FilesOK(s) /\ BailOK(s) /\ SlotsOK(s)
      /\ PipesOK(s) /\ ResultsOK(s) /\ FlushOK(s)
  BY DEF Inv, Pipes
<1>2. s.live > 0
  <2>1. w \in LiveSlots(s)
    BY DEF LiveSlots
  <2>2. Cardinality(LiveSlots(s)) \in Nat /\ Cardinality(LiveSlots(s)) # 0
    BY <2>1, LiveSlotsFinite, FS_EmptySet
  <2>3. QED
    BY <1>1, <2>2 DEF SlotsOK
<1>3. a \in State /\ Only(s, a, ReapFields \ {"proc"})
  BY <1>1, <1>2, ChargeFacts
<1>4. Crashes(s, a) /\ \A u \in Workers \ {w} : Spares(s, a, u)
  BY <1>1, <1>2, ChargePipes
<1> HIDE DEF a
<1>5. a.proc = s.proc
  BY <1>3 DEF Only, Names, ReapFields
<1>6. [a EXCEPT !.proc[w] = "none"] = r
  BY <1>3, <1>5 DEF State
<1>7. /\ proc \in [Workers -> Statuses \cup Living \cup {"none"}]
      /\ \A v \in Workers : proc[v] = IF v = w THEN "none" ELSE s.proc[v]
  BY <1>1, FieldTypes
<1> HIDE DEF proc
<1>8. r \in State /\ r.proc = proc /\ Only(a, r, {"proc"})
  BY <1>3, <1>7 DEF State, Only, Names
<1> HIDE DEF r
<1>9. /\ r.outbox = s.outbox /\ r.pending = s.pending /\ r.running = s.running
      /\ r.stop = s.stop /\ r.ipc_done = s.ipc_done /\ r.written = s.written
      /\ r.flushed = s.flushed /\ r.fragments = s.fragments
  BY <1>3, <1>8 DEF Only, Names, ReapFields
<1>10. ASSUME NEW u \in Workers \ {w} PROVE Spares(s, r, u)
  <2>1. SamePipe(a, r, u) /\ r.inbox[u] = a.inbox[u] /\ (a.bailed => r.bailed)
    <3>1. r.proc[u] = a.proc[u]
      BY <1>5, <1>7, <1>8
    <3>2. QED
      BY <1>8, <3>1 DEF SamePipe, Only, Names
  <2>2. QED
    BY <1>4, <2>1, SparesThen
<1>11. PipesOK(r)
  <2>1. ASSUME NEW u \in Workers \ {w} PROVE PipeOK(r, u)
    BY <1>1, <1>8, <1>10, SparesPipe DEF PipesOK
  <2>2. PipeOK(r, w)
    <3>1. ~Has(s.outbox[w], "aggregates")
      BY <1>1 DEF PipesOK, PipeOK, Pipe
    <3>2. r.proc[w] = "none" /\ r.outbox[w] = s.outbox[w]
      BY <1>7, <1>8, <1>9
    <3>3. QED
      BY <3>1, <3>2, PipeReaped DEF PipeOK
  <2>3. QED
    BY <2>1, <2>2 DEF PipesOK
<1>12. ResultsOK(r)
  <2>1. Crashes(s, r)
    BY <1>4, <1>8 DEF Crashes, Only, Names
  <2>2. ASSUME NEW u \in Workers, NEW f \in Files, Delivered(s, u, f)
        PROVE  Delivered(r, u, f)
    <3>1. u # w
      BY <2>2 DEF Delivered
    <3>2. QED
      BY <1>10, <2>2, <3>1, SameDelivered DEF Spares
  <2>3. QED
    BY <1>1, <1>8, <1>9, <2>1, <2>2, CrashedResults
<1>13. FlushOK(r)
  BY <1>1, <1>9, SameFlush
<1>14. QED
  BY <1>6, <1>11, <1>12, <1>13 DEF Pipes, a

\* The slot is left empty, and the files are aborted if nobody is left.
LEMMA ReleasePipes ==
  ASSUME NEW s, Inv(s), Pipes(s), NEW w \in Workers, s.proc[w] = "none"
  PROVE  Pipes(release(s, w))
<1> DEFINE r == IF ~s.bailed /\ s.live = 0 THEN abort_queued_files(s) ELSE s
           done == [r.ipc_done EXCEPT ![w] = FALSE]
           t == [r EXCEPT !.ipc_done = done]
<1>1. s \in State /\ FilesOK(s) /\ PipesOK(s) /\ ResultsOK(s) /\ FlushOK(s)
  BY DEF Inv, Pipes
<1>2. /\ r \in State /\ Crashes(s, r)
      /\ Only(s, r, {"lo", "fails", "files_done", "counted", "crashed"})
  <2>1. CASE ~s.bailed /\ s.live = 0
    BY <1>1, <2>1, AbortFacts, AbortCrashes
  <2>2. CASE ~(~s.bailed /\ s.live = 0)
    <3>1. r = s
      BY <2>2
    <3>2. QED
      BY <1>1, <3>1 DEF Only, Crashes
  <2>3. QED
    BY <2>1, <2>2
<1>3. release(s, w) = [r EXCEPT !.ipc_done[w] = FALSE]
  BY DEF release
<1> HIDE DEF r
<1>4. /\ [r EXCEPT !.ipc_done[w] = FALSE] = t /\ done \in [Workers -> BOOLEAN]
      /\ \A u \in Workers \ {w} : done[u] = r.ipc_done[u]
  BY <1>2 DEF State
<1> HIDE DEF done
<1>5. t \in State /\ t.ipc_done = done /\ Only(r, t, {"ipc_done"})
  BY <1>2, <1>4 DEF State, Only, Names
<1> HIDE DEF t
<1>6. /\ t.outbox = s.outbox /\ t.pending = s.pending /\ t.running = s.running
      /\ t.stop = s.stop /\ t.proc = s.proc /\ t.written = s.written /\ t.inbox = s.inbox
      /\ t.flushed = s.flushed /\ t.fragments = s.fragments /\ t.inflight = s.inflight
      /\ t.bailed = s.bailed /\ t.counted = r.counted /\ t.crashed = r.crashed
      /\ r.ipc_done = s.ipc_done
  BY <1>2, <1>5 DEF Only, Names
<1>7. \A u \in Workers \ {w} : SamePipe(s, t, u)
  BY <1>4, <1>5, <1>6 DEF SamePipe
<1>8. PipesOK(t)
  <2>1. ASSUME NEW u \in Workers \ {w} PROVE PipeOK(t, u)
    BY <1>1, <1>6, <1>7 DEF PipesOK, PipeOK, SamePipe
  <2>2. PipeOK(t, w)
    <3>1. ~Has(s.outbox[w], "aggregates")
      BY <1>1 DEF PipesOK, PipeOK, Pipe
    <3>2. t.proc[w] = "none" /\ t.outbox[w] = s.outbox[w]
      BY <1>6
    <3>3. QED
      BY <3>1, <3>2, PipeReaped DEF PipeOK
  <2>3. QED
    BY <2>1, <2>2 DEF PipesOK
<1>9. ResultsOK(t)
  <2>1. Crashes(s, t)
    BY <1>2, <1>6 DEF Crashes
  <2>2. ASSUME NEW u \in Workers, NEW f \in Files, Delivered(s, u, f)
        PROVE  Delivered(t, u, f)
    <3>1. u # w
      BY <2>2 DEF Delivered
    <3>2. QED
      BY <1>7, <2>2, <3>1, SameDelivered
  <2>3. QED
    BY <1>1, <1>5, <1>6, <2>1, <2>2, CrashedResults
<1>10. FlushOK(t)
  BY <1>1, <1>6, SameFlush
<1>11. QED
  BY <1>3, <1>4, <1>8, <1>9, <1>10 DEF Pipes

\* start(): new pipes for the slots of ws.
LEMMA StartPipes ==
  ASSUME NEW s \in State, Pipes(s), NEW ws \in SUBSET Workers,
         s.live + Cardinality(ws) <= K,
         \A w \in ws : s.proc[w] = "none" /\ s.inflight[w] = None
  PROVE  Pipes(start(s, ws))
<1> DEFINE Set(field, v) == [w \in Workers |-> IF w \in ws THEN v ELSE field[w]]
           t == start(s, ws)
<1>1. PipesOK(s) /\ ResultsOK(s) /\ FlushOK(s)
  BY DEF Pipes
<1>2. t \in State /\ Only(s, t, StartFields)
  BY StartFacts
<1>3. /\ t.ipc_done = Set(s.ipc_done, FALSE) /\ t.proc = Set(s.proc, "boot")
      /\ t.inbox = Set(s.inbox, <<>>) /\ t.outbox = Set(s.outbox, <<>>)
      /\ t.pending = Set(s.pending, None) /\ t.running = Set(s.running, None)
      /\ t.stop = Set(s.stop, FALSE)
  BY DEF start, State
<1> HIDE DEF t
<1>4. /\ t.inflight = s.inflight /\ t.bailed = s.bailed /\ t.counted = s.counted
      /\ t.crashed = s.crashed /\ t.written = s.written /\ t.flushed = s.flushed
      /\ t.fragments = s.fragments
  BY <1>2 DEF Only, Names, StartFields
<1>5. \A u \in ws : /\ t.ipc_done[u] = FALSE /\ t.proc[u] = "boot" /\ t.inbox[u] = <<>>
                    /\ t.outbox[u] = <<>> /\ t.pending[u] = None /\ t.running[u] = None
                    /\ t.stop[u] = FALSE /\ t.inflight[u] = None
  BY <1>3, <1>4
<1>6. \A u \in Workers \ ws : SamePipe(s, t, u) /\ t.inbox[u] = s.inbox[u]
  BY <1>3, <1>4 DEF SamePipe
<1>7. PipesOK(t)
  <2>1. ASSUME NEW u \in ws PROVE PipeOK(t, u)
    BY <1>5, PipeBoots DEF PipeOK
  <2>2. ASSUME NEW u \in Workers \ ws PROVE PipeOK(t, u)
    BY <1>1, <1>4, <1>6 DEF PipesOK, PipeOK, SamePipe
  <2>3. QED
    BY <2>1, <2>2 DEF PipesOK
<1>8. ResultsOK(t)
  <2>1. Crashes(s, t)
    BY <1>4 DEF Crashes
  <2>2. ASSUME NEW u \in Workers, NEW f \in Files, Delivered(s, u, f)
        PROVE  Delivered(t, u, f)
    <3>1. u \notin ws
      BY <2>2 DEF Delivered
    <3>2. QED
      BY <1>6, <2>2, <3>1, SameDelivered
  <2>3. QED
    BY <1>1, <1>2, <1>4, <2>1, <2>2, CrashedResults
<1>9. FlushOK(t)
  <2>1. ASSUME NEW u \in Workers
        PROVE  Has(t.outbox[u], "aggregates") <=> Has(s.outbox[u], "aggregates")
    <3>1. CASE u \in ws
      <4>1. ~Has(s.outbox[u], "aggregates")
        BY <1>1, <3>1 DEF PipesOK, PipeOK, Pipe
      <4>2. ~Has(t.outbox[u], "aggregates")
        BY <1>5, <3>1, EmptyHas
      <4>3. QED
        BY <4>1, <4>2
    <3>2. CASE u \notin ws
      BY <1>6, <3>2 DEF SamePipe
    <3>3. QED
      BY <3>1, <3>2
  <2>2. QED
    BY <1>1, <1>4, <2>1, SameFlush
<1>10. QED
  BY <1>7, <1>8, <1>9 DEF Pipes, t

LEMMA ReapPipes ==
  ASSUME NEW s, Inv(s), Pipes(s), s.phase = "driving", NEW w \in Workers,
         s.proc[w] # "none", s.ipc_done[w], NEW t \in reap_worker(s, w)
  PROVE  Pipes(t)
<1> DEFINE r == [charge_inflight(s, w) EXCEPT !.proc[w] = "none"]
           q == [r EXCEPT !.failures = r.failures + 1]
<1>1. /\ Inv(r) /\ r.phase = "driving" /\ r.live < K /\ r.proc[w] = "none" /\ Pipes(r)
  BY ReapedInv, ReapedPipes
<1>2. t \in {start(r, {w}), release(r, w), release(q, w)}
  BY DEF reap_worker
<1> HIDE DEF r
<1>3. r \in State /\ FilesOK(r) /\ BailOK(r) /\ SlotsOK(r)
  BY <1>1 DEF Inv
<1>4. CASE t = start(r, {w})
  <2>1. {w} \in SUBSET Workers /\ Cardinality({w}) = 1
    BY FS_Singleton
  <2>2. r.live + Cardinality({w}) <= K
    BY <1>1, <1>3, <2>1, FieldTypes, Numbers
  <2>3. r.inflight[w] = None
    BY <1>1, <1>3 DEF SlotsOK
  <2>4. QED
    BY <1>1, <1>3, <1>4, <2>1, <2>2, <2>3, StartPipes
<1>5. CASE t = release(r, w)
  BY <1>1, <1>5, ReleasePipes
<1>6. CASE t = release(q, w)
  <2>1. r.failures + 1 \in Nat
    BY <1>3 DEF State
  <2>2. q \in State /\ Only(r, q, {"failures"})
    BY <1>3, <2>1 DEF State, Only, Names
  <2> HIDE DEF q
  <2>3. SameFiles(r, q) /\ SameSlots(r, q) /\ BailOK(q)
    BY <1>3, <2>2 DEF SameFiles, SameSlots, BailOK, Only, Names
  <2>4. FilesOK(q)
    BY <1>3, <2>3, SameFilesOK
  <2>5. Inv(q) /\ q.proc[w] = "none"
    BY <1>1, <2>2, <2>3, <2>4, SameSlotsOK DEF SameSlots
  <2>6. Pipes(q)
    <3>1. {"failures"} \cap PipeFields = {}
      BY DEF PipeFields
    <3>2. QED
      BY <1>1, <2>2, <3>1, SamePipes
  <2>7. QED
    BY <1>6, <2>5, <2>6, ReleasePipes
<1>7. QED
  BY <1>2, <1>4, <1>5, <1>6

LEMMA TryReapPipes ==
  ASSUME NEW s, Inv(s), Pipes(s), s.phase = "driving", NEW w \in Workers, s.proc[w] # "none",
         NEW t \in try_reap(s, w)
  PROVE  Pipes(t)
<1>1. t = s \/ (s.ipc_done[w] /\ t \in reap_worker(s, w))
  BY DEF try_reap
<1>2. QED
  BY <1>1, ReapPipes

-----------------------------------------------------------------------------
(* One lemma for each action *)

LEMMA InitPipes == CoordInit => PipesInv
<1> SUFFICES ASSUME CoordInit PROVE Pipes(c)
  BY DEF PipesInv
<1>1. /\ c.proc = [w \in Workers |-> "none"] /\ c.outbox = [w \in Workers |-> <<>>]
      /\ c.crashed = {} /\ c.written = {} /\ c.flushed = 0 /\ c.fragments = 0
  BY DEF CoordInit
<1>2. \A w \in Workers : c.proc[w] = "none" /\ ~Has(c.outbox[w], "aggregates")
  BY <1>1, EmptyHas
<1>3. PipesOK(c)
  BY <1>2, PipeReaped DEF PipesOK, PipeOK
<1>4. ResultsOK(c)
  BY <1>1 DEF ResultsOK
<1>5. FlushOK(c)
  <2>1. Flushing(c) = {}
    BY <1>2 DEF Flushing
  <2>2. QED
    BY <1>1, <2>1, FS_EmptySet DEF FlushOK
<1>6. QED
  BY <1>3, <1>4, <1>5 DEF Pipes

\* spawn_worker(), until n slots are in use.
LEMMA SpawnPipes ==
  ASSUME NEW s, Inv(s), Pipes(s), NEW n \in 0 .. K, s.spawned <= n,
         NEW t, Only(spawn_workers(s, n), t, {"phase", "failures"})
  PROVE  Pipes(t)
<1> DEFINE ws == s.spawned .. n - 1
           q == start(s, ws)
           r == [q EXCEPT !.spawned = n]
<1>1. s \in State /\ SlotsOK(s)
  BY DEF Inv
<1>2. /\ ws \in SUBSET Workers /\ \A w \in ws : s.proc[w] = "none"
      /\ spawn_workers(s, n) \in State
      /\ spawn_workers(s, n).live = s.live + Cardinality(ws)
  BY SpawnFacts
<1>3. s.live + Cardinality(ws) <= K
  <2> HIDE DEF ws
  <2>1. spawn_workers(s, n).live \in 0 .. K
    BY <1>2, FieldTypes
  <2>2. QED
    BY <1>2, <2>1, Numbers
<1>4. \A w \in ws : s.inflight[w] = None
  BY <1>1, <1>2 DEF SlotsOK
<1>5. spawn_workers(s, n) = r
  BY DEF spawn_workers
<1> HIDE DEF ws
<1>6. Pipes(q) /\ q \in State
  BY <1>1, <1>2, <1>3, <1>4, StartPipes, StartFacts
<1> HIDE DEF q
<1>7. Only(q, r, {"spawned"})
  BY <1>6 DEF State, Only, Names
<1>8. Only(q, t, {"spawned", "phase", "failures"})
  BY <1>5, <1>7 DEF Only
<1>9. {"spawned", "phase", "failures"} \cap PipeFields = {}
  BY DEF PipeFields
<1>10. QED
  BY <1>6, <1>8, <1>9, SamePipes

LEMMA DriveStartPipes == CoordInv /\ PipesInv /\ DriveStart => PipesInv'
<1> SUFFICES ASSUME CoordInv, PipesInv, DriveStart PROVE Pipes(c')
  BY DEF PipesInv
<1>1. /\ c \in State /\ Inv(c) /\ Pipes(c) /\ c.phase = "start" /\ SlotsOK(c)
  BY DEF CoordInv, Inv, PipesInv, DriveStart
<1>2. \/ c' = [spawn_workers(c, 1) EXCEPT !.phase = "driving"]
      \/ c' = spawn_failed(c)
  BY DEF DriveStart
<1>3. c.spawned = 0 /\ 1 \in 0 .. K
  BY <1>1, Numbers DEF SlotsOK
<1>4. CASE c' = [spawn_workers(c, 1) EXCEPT !.phase = "driving"]
  <2> DEFINE r == spawn_workers(c, 1)
  <2>1. r \in State
    BY <1>1, <1>3, SpawnFacts
  <2>2. c' = [r EXCEPT !.phase = "driving"]
    BY <1>4
  <2> HIDE DEF r
  <2>3. Only(r, c', {"phase", "failures"})
    BY <2>1, <2>2 DEF State, Only, Names
  <2>4. QED
    BY <1>1, <1>3, <2>3, SpawnPipes DEF r
<1>5. CASE c' = spawn_failed(c)
  <2>1. Only(c, c', {"phase", "failures"})
    BY <1>1, <1>5, SpawnFailedFacts
  <2>2. {"phase", "failures"} \cap PipeFields = {}
    BY DEF PipeFields
  <2>3. QED
    BY <1>1, <2>1, <2>2, SamePipes
<1>6. QED
  BY <1>2, <1>4, <1>5

LEMMA ScaleUpPipes == CoordInv /\ PipesInv /\ maybe_scale_up => PipesInv'
<1> SUFFICES ASSUME CoordInv, PipesInv, maybe_scale_up PROVE Pipes(c')
  BY DEF PipesInv
<1> DEFINE want == IF K < N - c.files_done THEN K ELSE N - c.files_done
<1>1. c \in State /\ Inv(c) /\ Pipes(c)
  BY DEF CoordInv, Inv, PipesInv
<1>2. want \in 0 .. K /\ c.spawned \in 0 .. K
  BY <1>1, FieldTypes, Numbers
<1>3. \/ c.spawned < want /\ c' = spawn_workers(c, want)
      \/ \E n \in c.spawned .. want - 1 : c' = spawn_failed(spawn_workers(c, n))
  BY DEF maybe_scale_up
<1> HIDE DEF want
<1>4. CASE c.spawned < want /\ c' = spawn_workers(c, want)
  <2>1. c.spawned <= want
    BY <1>2, <1>4
  <2>2. Only(spawn_workers(c, want), c', {"phase", "failures"})
    BY <1>4 DEF Only
  <2>3. QED
    BY <1>1, <1>2, <2>1, <2>2, SpawnPipes
<1>5. ASSUME NEW n \in c.spawned .. want - 1, c' = spawn_failed(spawn_workers(c, n))
      PROVE  Pipes(c')
  <2>1. n \in 0 .. K /\ c.spawned <= n
    BY <1>2, Numbers
  <2>2. spawn_workers(c, n) \in State
    BY <1>1, <2>1, SpawnFacts
  <2>3. Only(spawn_workers(c, n), c', {"phase", "failures"})
    BY <1>5, <2>2, SpawnFailedFacts
  <2>4. QED
    BY <1>1, <2>1, <2>3, SpawnPipes
<1>6. QED
  BY <1>3, <1>4, <1>5

LEMMA DriveEndPipes == CoordInv /\ PipesInv /\ (DriveEnd \/ abort_all) => PipesInv'
<1> SUFFICES ASSUME CoordInv, PipesInv, DriveEnd \/ abort_all PROVE Pipes(c')
  BY DEF PipesInv
<1>1. c \in State /\ Pipes(c)
  BY DEF CoordInv, Inv, PipesInv
<1>2. Only(c, c', {"phase", "killed"})
  BY <1>1 DEF DriveEnd, abort_all, State, Only, Names
<1>3. {"phase", "killed"} \cap PipeFields = {}
  BY DEF PipeFields
<1>4. QED
  BY <1>1, <1>2, <1>3, SamePipes

\* A step of one slot that counts and charges no file.
Elsewhere(s, t, w) ==
  /\ \A u \in Workers \ {w} : SamePipe(s, t, u) /\ t.inbox[u] = s.inbox[u]
  /\ t.bailed = s.bailed /\ t.counted = s.counted /\ t.crashed = s.crashed

LEMMA WorkerPipes ==
  ASSUME NEW s \in State, NEW t \in State, Pipes(s), NEW w \in Workers, Elsewhere(s, t, w),
         PipeOK(t, w), FlushOK(t),
         \A f \in t.written : \/ f \in s.written /\ (Delivered(s, w, f) => Delivered(t, w, f))
                              \/ Delivered(t, w, f)
  PROVE  Pipes(t)
<1>1. PipesOK(s) /\ ResultsOK(s)
  BY DEF Pipes
<1>2. PipesOK(t)
  BY <1>1 DEF PipesOK, PipeOK, Elsewhere, SamePipe
<1>3. ResultsOK(t)
  <2>1. \A f \in t.crashed : t.counted[f] = 1
    BY <1>1 DEF ResultsOK, Elsewhere
  <2>2. ASSUME NEW f \in t.written, ~(t.counted[f] = 1 /\ f \notin t.crashed)
        PROVE  \E u \in Workers : Delivered(t, u, f)
    <3>1. CASE Delivered(t, w, f)
      BY <3>1
    <3>2. CASE f \in s.written /\ (Delivered(s, w, f) => Delivered(t, w, f))
      <4>1. PICK u \in Workers : Delivered(s, u, f)
        BY <1>1, <2>2, <3>2 DEF ResultsOK, Elsewhere
      <4>2. CASE u = w
        BY <3>2, <4>1, <4>2
      <4>3. CASE u # w
        BY <4>1, <4>3, SameDelivered DEF Elsewhere
      <4>4. QED
        BY <4>2, <4>3
    <3>3. QED
      BY <3>1, <3>2
  <2>3. QED
    BY <2>1, <2>2 DEF ResultsOK
<1>4. QED
  BY <1>2, <1>3 DEF Pipes

\* What the worker appends comes after the results that were there.
LEMMA AppendDelivered ==
  ASSUME NEW s \in State, NEW t, NEW w \in Workers, NEW f, NEW x \in Frame,
         Delivered(s, w, f), t.outbox[w] = Append(s.outbox[w], x),
         t.ipc_done[w] = s.ipc_done[w], t.proc[w] # "none"
  PROVE  Delivered(t, w, f)
<1> DEFINE p == s.outbox[w]
           q == Append(p, x)
<1>1. p \in Seq(Frame)
  BY PipeTypes
<1>2. PICK i \in DOMAIN p : /\ p[i].kind = "file_done" /\ p[i].idx = f
                            /\ \A j \in DOMAIN p : j < i => p[j].kind # "corrupt"
  BY DEF Delivered
<1> HIDE DEF p
<1>3. /\ i \in DOMAIN q /\ q[i] = p[i]
      /\ \A j \in DOMAIN q : j < i => j \in DOMAIN p /\ q[j] = p[j]
  BY <1>1
<1> HIDE DEF q
<1>4. /\ q[i].kind = "file_done" /\ q[i].idx = f
      /\ \A j \in DOMAIN q : j < i => q[j].kind # "corrupt"
  BY <1>2, <1>3
<1>5. t.outbox[w] = q
  BY DEF p, q
<1>6. QED
  BY <1>3, <1>4, <1>5 DEF Delivered

LEMMA WorkerReadyPipes ==
  ASSUME CoordInv, PipesInv, NEW w \in Workers, WorkerReady(w)
  PROVE  PipesInv'
<1> SUFFICES Pipes(c')
  BY DEF PipesInv
<1> DEFINE x == [kind |-> "ready", idx |-> None, fail |-> 0]
<1>1. /\ c \in State /\ Pipes(c) /\ SlotsOK(c) /\ c.proc[w] = "boot"
      /\ PipesOK(c) /\ FlushOK(c)
  BY DEF CoordInv, Inv, PipesInv, Pipes, WorkerReady, Lives
<1>2. c' \in State
  BY WorkerReadyInv DEF CoordInv, Inv
<1>3. x \in Frame /\ c.outbox[w] = <<>> /\ c.inflight[w] = None
  BY <1>1 DEF SlotsOK, Frame
<1>4. /\ c'.outbox = [c.outbox EXCEPT ![w] = Append(c.outbox[w], x)]
      /\ c'.proc = [c.proc EXCEPT ![w] = "wait"] /\ Only(c, c', {"outbox", "proc"})
  BY <1>1 DEF WorkerReady, emit, State, Only, Names
<1>5. /\ c'.outbox[w] = Append(c.outbox[w], x) /\ c'.proc[w] = "wait"
      /\ \A u \in Workers \ {w} : c'.outbox[u] = c.outbox[u] /\ c'.proc[u] = c.proc[u]
  BY <1>1, <1>4, FieldTypes
<1>6. /\ c'.inbox = c.inbox /\ c'.pending = c.pending /\ c'.running = c.running
      /\ c'.inflight = c.inflight /\ c'.stop = c.stop /\ c'.ipc_done = c.ipc_done
      /\ c'.bailed = c.bailed /\ c'.counted = c.counted /\ c'.crashed = c.crashed
      /\ c'.written = c.written /\ c'.flushed = c.flushed /\ c'.fragments = c.fragments
  BY <1>4 DEF Only, Names
<1> HIDE DEF x
<1>7. Elsewhere(c, c', w)
  BY <1>5, <1>6 DEF Elsewhere, SamePipe
<1>8. PipeOK(c', w)
  <2>1. /\ c.inbox[w] \in Seq(Command) /\ c.stop[w] \in BOOLEAN /\ c.ipc_done[w] \in BOOLEAN
        /\ c.bailed \in BOOLEAN /\ x.kind = "ready"
    BY <1>1, PipeTypes DEF x
  <2>2. Pipe(c.inbox[w], <<>>, c.pending[w], c.running[w], c.inflight[w], c.stop[w],
             "boot", c.ipc_done[w], c.bailed)
    BY <1>1, <1>3 DEF PipesOK, PipeOK
  <2>3. Pipe(c.inbox[w], Append(<<>>, x), c.pending[w], c.running[w], c.inflight[w], c.stop[w],
             "wait", c.ipc_done[w], c.bailed)
    BY <1>3, <2>1, <2>2, WrittenReady
  <2>4. QED
    BY <1>3, <1>5, <1>6, <2>3 DEF PipeOK
<1>9. FlushOK(c')
  <2>1. Has(c'.outbox[w], "aggregates") <=> Has(c.outbox[w], "aggregates")
    <3>1. c.outbox[w] \in Seq(Frame) /\ x.kind # "aggregates"
      BY <1>1, PipeTypes DEF x
    <3>2. Has(Append(c.outbox[w], x), "aggregates") <=>
            Has(c.outbox[w], "aggregates") \/ x.kind = "aggregates"
      BY <1>3, <3>1, HasAppend
    <3>3. QED
      BY <1>5, <3>1, <3>2
  <2>2. \A u \in Workers : Has(c'.outbox[u], "aggregates") <=> Has(c.outbox[u], "aggregates")
    BY <1>5, <2>1
  <2>3. QED
    BY <1>1, <1>6, <2>2, SameFlush
<1>10. ASSUME NEW f, Delivered(c, w, f) PROVE Delivered(c', w, f)
  BY <1>1, <1>3, <1>5, <1>6, <1>10, AppendDelivered
<1>11. QED
  BY <1>1, <1>2, <1>6, <1>7, <1>8, <1>9, <1>10, WorkerPipes

\* WorkerReceive and WorkerStartFile: what was written stays as it is.
LEMMA SilentPipes ==
  ASSUME CoordInv, PipesInv, NEW w \in Workers, c' \in State,
         Only(c, c', {"inbox", "pending", "running", "stop", "proc"}),
         \A u \in Workers \ {w} :
           /\ c'.inbox[u] = c.inbox[u] /\ c'.pending[u] = c.pending[u]
           /\ c'.running[u] = c.running[u] /\ c'.stop[u] = c.stop[u]
           /\ c'.proc[u] = c.proc[u],
         c'.proc[w] # "none", PipeOK(c', w)
  PROVE  PipesInv'
<1>1. c \in State /\ Pipes(c) /\ FlushOK(c)
  BY DEF CoordInv, Inv, PipesInv, Pipes
<1>2. /\ c'.outbox = c.outbox /\ c'.inflight = c.inflight /\ c'.ipc_done = c.ipc_done
      /\ c'.bailed = c.bailed /\ c'.counted = c.counted /\ c'.crashed = c.crashed
      /\ c'.written = c.written /\ c'.flushed = c.flushed /\ c'.fragments = c.fragments
  BY DEF Only, Names
<1>3. Elsewhere(c, c', w)
  BY <1>2 DEF Elsewhere, SamePipe
<1>4. FlushOK(c')
  BY <1>1, <1>2, SameFlush
<1>5. \A f : Delivered(c, w, f) => Delivered(c', w, f)
  BY <1>2 DEF Delivered
<1>6. QED
  BY <1>1, <1>2, <1>3, <1>4, <1>5, WorkerPipes DEF PipesInv

LEMMA WorkerReceivePipes ==
  ASSUME CoordInv, PipesInv, NEW w \in Workers, WorkerReceive(w)
  PROVE  PipesInv'
<1> DEFINE command == Head(c.inbox[w])
           s == [c EXCEPT !.inbox[w] = Tail(@)]
<1>1. /\ c \in State /\ PipesOK(c) /\ c.proc[w] \in {"wait", "run"} /\ c.inbox[w] # <<>>
  BY DEF CoordInv, Inv, PipesInv, Pipes, WorkerReceive, Lives
<1>2. c' \in State
  BY WorkerReceiveInv DEF CoordInv, Inv
<1>3. c' = IF command.kind = "run" THEN [s EXCEPT !.pending[w] = command.idx]
           ELSE [s EXCEPT !.stop[w] = TRUE]
  BY DEF WorkerReceive
<1>4. /\ c.inbox[w] \in Seq(Command) /\ c.stop[w] \in BOOLEAN /\ c.ipc_done[w] \in BOOLEAN
      /\ c.bailed \in BOOLEAN
  BY <1>1, PipeTypes
<1>5. command \in Command
  BY <1>1, <1>4
<1>6. command.kind \in {"run", "shutdown"}
  BY <1>5 DEF Command
<1>7. Pipe(c.inbox[w], c.outbox[w], c.pending[w], c.running[w], c.inflight[w], c.stop[w],
           c.proc[w], c.ipc_done[w], c.bailed)
  BY <1>1 DEF PipesOK, PipeOK
<1>8. CASE command.kind = "run"
  <2>1. /\ c'.inbox = [c.inbox EXCEPT ![w] = Tail(c.inbox[w])]
        /\ c'.pending = [c.pending EXCEPT ![w] = command.idx]
        /\ Only(c, c', {"inbox", "pending"})
    <3> HIDE DEF command
    <3>1. QED
      BY <1>1, <1>3, <1>8 DEF State, Only, Names
  <2> HIDE DEF command
  <2>2. /\ c'.inbox[w] = Tail(c.inbox[w]) /\ c'.pending[w] = command.idx
        /\ \A u \in Workers \ {w} : c'.inbox[u] = c.inbox[u] /\ c'.pending[u] = c.pending[u]
    BY <1>1, <2>1, FieldTypes
  <2>3. /\ c'.outbox = c.outbox /\ c'.running = c.running /\ c'.stop = c.stop
        /\ c'.proc = c.proc /\ c'.inflight = c.inflight /\ c'.ipc_done = c.ipc_done
        /\ c'.bailed = c.bailed
    BY <2>1 DEF Only, Names
  <2>4. Pipe(Tail(c.inbox[w]), c.outbox[w], command.idx, c.running[w], c.inflight[w],
             c.stop[w], c.proc[w], c.ipc_done[w], c.bailed)
    <3>1. c.inbox[w] \in Seq(Command)
      BY <1>4
    <3>2. c.inbox[w] # <<>> /\ c.proc[w] \in {"wait", "run"}
      BY <1>1
    <3>3. Head(c.inbox[w]).kind = "run"
      BY <1>8 DEF command
    <3>4. Pipe(Tail(c.inbox[w]), c.outbox[w], Head(c.inbox[w]).idx, c.running[w],
               c.inflight[w], c.stop[w], c.proc[w], c.ipc_done[w], c.bailed)
      BY <1>7, <3>1, <3>2, <3>3, ReadRun
    <3>5. QED
      BY <3>4 DEF command
  <2>5. PipeOK(c', w)
    BY <2>2, <2>3, <2>4 DEF PipeOK
  <2>6. Only(c, c', {"inbox", "pending", "running", "stop", "proc"})
    BY <2>1 DEF Only
  <2>7. QED
    BY <1>1, <1>2, <2>2, <2>3, <2>5, <2>6, SilentPipes
<1>9. CASE command.kind = "shutdown"
  <2>1. /\ c'.inbox = [c.inbox EXCEPT ![w] = Tail(c.inbox[w])]
        /\ c'.stop = [c.stop EXCEPT ![w] = TRUE]
        /\ Only(c, c', {"inbox", "stop"})
    <3> HIDE DEF command
    <3>1. QED
      BY <1>1, <1>3, <1>9 DEF State, Only, Names
  <2>2. /\ c'.inbox[w] = Tail(c.inbox[w]) /\ c'.stop[w] = TRUE
        /\ \A u \in Workers \ {w} : c'.inbox[u] = c.inbox[u] /\ c'.stop[u] = c.stop[u]
    <3>1. c.stop \in [Workers -> BOOLEAN] /\ c.inbox \in [Workers -> Seq(Command)]
      BY <1>1 DEF State
    <3>2. QED
      BY <2>1, <3>1
  <2>3. /\ c'.outbox = c.outbox /\ c'.running = c.running /\ c'.pending = c.pending
        /\ c'.proc = c.proc /\ c'.inflight = c.inflight /\ c'.ipc_done = c.ipc_done
        /\ c'.bailed = c.bailed
    BY <2>1 DEF Only, Names
  <2>4. Pipe(Tail(c.inbox[w]), c.outbox[w], c.pending[w], c.running[w], c.inflight[w],
             TRUE, c.proc[w], c.ipc_done[w], c.bailed)
    <3>1. c.inbox[w] # <<>> /\ c.proc[w] \in {"wait", "run"}
      BY <1>1
    <3>2. Head(c.inbox[w]).kind = "shutdown"
      BY <1>9
    <3> HIDE DEF command
    <3>3. QED
      BY <1>4, <1>7, <3>1, <3>2, ReadShutdown
  <2>5. PipeOK(c', w)
    BY <2>2, <2>3, <2>4 DEF PipeOK
  <2>6. Only(c, c', {"inbox", "pending", "running", "stop", "proc"})
    BY <2>1 DEF Only
  <2>7. QED
    BY <1>1, <1>2, <2>2, <2>3, <2>5, <2>6, SilentPipes
<1>10. QED
  BY <1>6, <1>8, <1>9

LEMMA WorkerStartFilePipes ==
  ASSUME CoordInv, PipesInv, NEW w \in Workers, WorkerStartFile(w)
  PROVE  PipesInv'
<1>1. c \in State /\ PipesOK(c) /\ c.proc[w] = "wait" /\ c.pending[w] # None
  BY DEF CoordInv, Inv, PipesInv, Pipes, WorkerStartFile, Lives
<1>2. c' \in State
  BY WorkerStartFileInv DEF CoordInv, Inv
<1>3. /\ c'.proc = [c.proc EXCEPT ![w] = "run"]
      /\ c'.running = [c.running EXCEPT ![w] = c.pending[w]]
      /\ c'.pending = [c.pending EXCEPT ![w] = None]
      /\ Only(c, c', {"proc", "running", "pending"})
  BY <1>1 DEF WorkerStartFile, State, Only, Names
<1>4. /\ c'.proc[w] = "run" /\ c'.running[w] = c.pending[w] /\ c'.pending[w] = None
      /\ \A u \in Workers \ {w} : /\ c'.proc[u] = c.proc[u] /\ c'.running[u] = c.running[u]
                                  /\ c'.pending[u] = c.pending[u]
  BY <1>1, <1>3, FieldTypes
<1>5. /\ c'.inbox = c.inbox /\ c'.outbox = c.outbox /\ c'.inflight = c.inflight
      /\ c'.stop = c.stop /\ c'.ipc_done = c.ipc_done /\ c'.bailed = c.bailed
  BY <1>3 DEF Only, Names
<1>6. Pipe(c.inbox[w], c.outbox[w], None, c.pending[w], c.inflight[w], c.stop[w], "run",
           c.ipc_done[w], c.bailed)
  <2>1. c.ipc_done[w] \in BOOLEAN
    BY <1>1, PipeTypes
  <2>2. Pipe(c.inbox[w], c.outbox[w], c.pending[w], c.running[w], c.inflight[w], c.stop[w],
             "wait", c.ipc_done[w], c.bailed)
    BY <1>1 DEF PipesOK, PipeOK
  <2>3. QED
    BY <1>1, <2>1, <2>2, FileStarts
<1>7. PipeOK(c', w)
  BY <1>4, <1>5, <1>6 DEF PipeOK
<1>8. Only(c, c', {"inbox", "pending", "running", "stop", "proc"})
  BY <1>3 DEF Only
<1>9. QED
  BY <1>2, <1>4, <1>5, <1>7, <1>8, SilentPipes

LEMMA WorkerFinishFilePipes ==
  ASSUME CoordInv, PipesInv, NEW w \in Workers, WorkerFinishFile(w)
  PROVE  PipesInv'
<1> SUFFICES Pipes(c')
  BY DEF PipesInv
<1>1. PICK fail \in {0, 1} :
        c' = [emit(c, w, "file_done", c.running[w], fail) EXCEPT
               !.proc[w] = "wait", !.running[w] = None,
               !.written = IF Undecodable(w) THEN @ ELSE @ \cup {c.running[w]}]
  BY DEF WorkerFinishFile
<1> DEFINE x == [kind |-> "file_done", idx |-> c.running[w], fail |-> fail]
           p == c.outbox[w]
           q == Append(p, x)
<1>2. /\ c \in State /\ Pipes(c) /\ SlotsOK(c) /\ c.proc[w] = "run"
      /\ PipesOK(c) /\ FlushOK(c)
  BY DEF CoordInv, Inv, PipesInv, Pipes, WorkerFinishFile, Lives
<1>3. c' \in State
  BY WorkerFinishFileInv DEF CoordInv, Inv
<1>4. c.running[w] \in Files
  BY <1>2 DEF SlotsOK
<1>5. x \in Frame /\ x.kind = "file_done" /\ x.idx = c.running[w] /\ p \in Seq(Frame)
  BY <1>2, <1>4, PipeTypes DEF Frame
<1>6. /\ c'.outbox = [c.outbox EXCEPT ![w] = q] /\ c'.proc = [c.proc EXCEPT ![w] = "wait"]
      /\ c'.running = [c.running EXCEPT ![w] = None]
      /\ c'.written = IF Undecodable(w) THEN c.written ELSE c.written \cup {c.running[w]}
      /\ Only(c, c', {"outbox", "proc", "running", "written"})
  BY <1>1, <1>2 DEF emit, State, Only, Names
<1> HIDE DEF x, q
<1>7. /\ c'.outbox[w] = q /\ c'.proc[w] = "wait" /\ c'.running[w] = None
      /\ \A u \in Workers \ {w} : /\ c'.outbox[u] = c.outbox[u] /\ c'.proc[u] = c.proc[u]
                                  /\ c'.running[u] = c.running[u]
  BY <1>2, <1>6, FieldTypes
<1>8. /\ c'.inbox = c.inbox /\ c'.pending = c.pending
      /\ c'.inflight = c.inflight /\ c'.stop = c.stop /\ c'.ipc_done = c.ipc_done
      /\ c'.bailed = c.bailed /\ c'.counted = c.counted /\ c'.crashed = c.crashed
      /\ c'.flushed = c.flushed /\ c'.fragments = c.fragments
  BY <1>6 DEF Only, Names
<1>9. Elsewhere(c, c', w)
  BY <1>7, <1>8 DEF Elsewhere, SamePipe
<1>10. /\ Pipe(c.inbox[w], q, c.pending[w], None, c.inflight[w], c.stop[w], "wait",
               c.ipc_done[w], c.bailed)
       /\ ~Has(p, "aggregates") /\ ~Has(q, "aggregates")
  <2>1. c.ipc_done[w] \in BOOLEAN
    BY <1>2, PipeTypes
  <2>2. Pipe(c.inbox[w], p, c.pending[w], c.running[w], c.inflight[w], c.stop[w], "run",
             c.ipc_done[w], c.bailed)
    BY <1>2 DEF PipesOK, PipeOK
  <2> HIDE DEF p
  <2>3. /\ Pipe(c.inbox[w], Append(p, x), c.pending[w], None, c.inflight[w], c.stop[w],
                "wait", c.ipc_done[w], c.bailed)
        /\ ~Has(Append(p, x), "aggregates")
    BY <1>4, <1>5, <2>1, <2>2, FileFinishes
  <2>4. Has(p, "aggregates") => Has(Append(p, x), "aggregates")
    BY <1>5, HasAppend
  <2>5. QED
    BY <2>3, <2>4 DEF q
<1>11. PipeOK(c', w)
  BY <1>7, <1>8, <1>10 DEF PipeOK
<1>12. FlushOK(c')
  <2>1. \A u \in Workers : Has(c'.outbox[u], "aggregates") <=> Has(c.outbox[u], "aggregates")
    BY <1>7, <1>10
  <2>2. QED
    BY <1>2, <1>8, <2>1, SameFlush
<1>13. ASSUME NEW f, Delivered(c, w, f) PROVE Delivered(c', w, f)
  <2>1. c'.outbox[w] = Append(c.outbox[w], x) /\ c'.proc[w] # "none"
        /\ c'.ipc_done[w] = c.ipc_done[w]
    BY <1>7, <1>8 DEF q
  <2>2. QED
    BY <1>2, <1>5, <1>13, <2>1, AppendDelivered
<1>14. ASSUME ~Undecodable(w) PROVE Delivered(c', w, c.running[w])
  <2>1. ~c.ipc_done[w] /\ \A j \in DOMAIN p : p[j].kind # "corrupt"
    BY <1>14 DEF Undecodable
  <2> HIDE DEF p
  <2>2. /\ Len(p) + 1 \in DOMAIN q /\ q[Len(p) + 1] = x /\ Len(p) \in Nat
        /\ \A j \in DOMAIN q : j < Len(p) + 1 => j \in DOMAIN p /\ q[j] = p[j]
    BY <1>5 DEF q
  <2>3. QED
    BY <1>5, <1>7, <1>8, <2>1, <2>2 DEF Delivered
<1>15. \A f \in c'.written : \/ f \in c.written /\ (Delivered(c, w, f) => Delivered(c', w, f))
                             \/ Delivered(c', w, f)
  BY <1>6, <1>13, <1>14
<1>16. QED
  BY <1>2, <1>3, <1>9, <1>11, <1>12, <1>15, WorkerPipes

LEMMA WorkerCorruptsPipes ==
  ASSUME CoordInv, PipesInv, NEW w \in Workers, WorkerCorrupts(w)
  PROVE  PipesInv'
<1> SUFFICES Pipes(c')
  BY DEF PipesInv
<1> DEFINE x == [kind |-> "corrupt", idx |-> None, fail |-> 0]
           p == c.outbox[w]
           q == Append(p, x)
<1>1. /\ c \in State /\ Pipes(c) /\ SlotsOK(c) /\ c.proc[w] = "run"
      /\ PipesOK(c) /\ FlushOK(c)
  BY DEF CoordInv, Inv, PipesInv, Pipes, WorkerCorrupts, Lives
<1>2. c' \in State
  BY WorkerCorruptsInv DEF CoordInv, Inv
<1>3. c.running[w] \in Files
  BY <1>1 DEF SlotsOK
<1>4. x \in Frame /\ x.kind = "corrupt" /\ p \in Seq(Frame)
  BY <1>1, PipeTypes DEF Frame
<1>5. c'.outbox = [c.outbox EXCEPT ![w] = q] /\ Only(c, c', {"outbox", "faults"})
  BY <1>1 DEF WorkerCorrupts, emit, State, Only, Names
<1> HIDE DEF x, q
<1>6. c'.outbox[w] = q /\ \A u \in Workers \ {w} : c'.outbox[u] = c.outbox[u]
  BY <1>1, <1>5, FieldTypes
<1>7. /\ c'.inbox = c.inbox /\ c'.pending = c.pending /\ c'.running = c.running
      /\ c'.proc = c.proc
      /\ c'.inflight = c.inflight /\ c'.stop = c.stop /\ c'.ipc_done = c.ipc_done
      /\ c'.bailed = c.bailed /\ c'.counted = c.counted /\ c'.crashed = c.crashed
      /\ c'.flushed = c.flushed /\ c'.fragments = c.fragments /\ c'.written = c.written
  BY <1>5 DEF Only, Names
<1>8. Elsewhere(c, c', w)
  BY <1>6, <1>7 DEF Elsewhere, SamePipe
<1>9. /\ Pipe(c.inbox[w], q, c.pending[w], c.running[w], c.inflight[w], c.stop[w], "run",
              c.ipc_done[w], c.bailed)
      /\ ~Has(p, "aggregates") /\ ~Has(q, "aggregates")
  <2>1. c.ipc_done[w] \in BOOLEAN
    BY <1>1, PipeTypes
  <2>2. Pipe(c.inbox[w], p, c.pending[w], c.running[w], c.inflight[w], c.stop[w], "run",
             c.ipc_done[w], c.bailed)
    BY <1>1 DEF PipesOK, PipeOK
  <2> HIDE DEF p
  <2>3. QED
    BY <1>3, <1>4, <2>1, <2>2, FileCorrupts DEF q
<1>10. PipeOK(c', w)
  BY <1>1, <1>6, <1>7, <1>9 DEF PipeOK
<1>11. FlushOK(c')
  <2>1. \A u \in Workers : Has(c'.outbox[u], "aggregates") <=> Has(c.outbox[u], "aggregates")
    BY <1>6, <1>9
  <2>2. QED
    BY <1>1, <1>7, <2>1, SameFlush
<1>12. ASSUME NEW f, Delivered(c, w, f) PROVE Delivered(c', w, f)
  <2>1. c'.outbox[w] = Append(c.outbox[w], x) /\ c'.proc[w] # "none"
        /\ c'.ipc_done[w] = c.ipc_done[w]
    BY <1>1, <1>6, <1>7 DEF q
  <2>2. QED
    BY <1>1, <1>4, <1>12, <2>1, AppendDelivered
<1>13. QED
  BY <1>1, <1>2, <1>7, <1>8, <1>10, <1>11, <1>12, WorkerPipes

LEMMA FlushingFinite ==
  ASSUME NEW s
  PROVE  IsFiniteSet(Flushing(s)) /\ Cardinality(Flushing(s)) \in Nat
<1>1. Flushing(s) \in SUBSET Workers
  BY DEF Flushing
<1>2. QED
  BY <1>1, Numbers, FS_Subset, FS_CardinalityType

LEMMA WorkerExitPipes ==
  ASSUME CoordInv, PipesInv, NEW w \in Workers, WorkerExit(w)
  PROVE  PipesInv'
<1> SUFFICES Pipes(c')
  BY DEF PipesInv
<1> DEFINE x == [kind |-> "aggregates", idx |-> None, fail |-> 0]
           p == c.outbox[w]
           q == Append(p, x)
<1>1. /\ c \in State /\ Pipes(c) /\ c.proc[w] = "wait" /\ c.stop[w] /\ PipesOK(c) /\ FlushOK(c)
  BY DEF CoordInv, Inv, PipesInv, Pipes, WorkerExit, Lives
<1>2. c' \in State
  BY WorkerExitInv DEF CoordInv, Inv
<1>3. x \in Frame /\ x.kind = "aggregates" /\ p \in Seq(Frame)
  BY <1>1, PipeTypes DEF Frame
<1>4. /\ c'.outbox = [c.outbox EXCEPT ![w] = q] /\ c'.proc = [c.proc EXCEPT ![w] = "exited"]
      /\ c'.flushed = c.flushed + 1
      /\ Only(c, c', {"outbox", "proc", "flushed"})
  BY <1>1 DEF WorkerExit, emit, State, Only, Names
<1> HIDE DEF x, q
<1>5. /\ c'.outbox[w] = q /\ c'.proc[w] = "exited"
      /\ \A u \in Workers \ {w} : c'.outbox[u] = c.outbox[u] /\ c'.proc[u] = c.proc[u]
  BY <1>1, <1>4, FieldTypes
<1>6. /\ c'.inbox = c.inbox /\ c'.pending = c.pending /\ c'.running = c.running
      /\ c'.inflight = c.inflight /\ c'.stop = c.stop /\ c'.ipc_done = c.ipc_done
      /\ c'.bailed = c.bailed /\ c'.counted = c.counted /\ c'.crashed = c.crashed
      /\ c'.fragments = c.fragments /\ c'.written = c.written
  BY <1>4 DEF Only, Names
<1>7. Elsewhere(c, c', w)
  BY <1>5, <1>6 DEF Elsewhere, SamePipe
<1>8. /\ Pipe(c.inbox[w], q, c.pending[w], c.running[w], c.inflight[w], c.stop[w], "exited",
              c.ipc_done[w], c.bailed)
      /\ ~Has(p, "aggregates") /\ Has(q, "aggregates")
  <2>1. Pipe(c.inbox[w], p, c.pending[w], c.running[w], c.inflight[w], c.stop[w], "wait",
             c.ipc_done[w], c.bailed)
    BY <1>1 DEF PipesOK, PipeOK
  <2>2. c.stop[w]
    BY <1>1
  <2> HIDE DEF p
  <2>3. /\ Pipe(c.inbox[w], Append(p, x), c.pending[w], c.running[w], c.inflight[w], c.stop[w],
                "exited", c.ipc_done[w], c.bailed)
        /\ ~Has(p, "aggregates") /\ Has(Append(p, x), "aggregates")
    BY <1>3, <2>1, <2>2, WorkerFlushes
  <2>4. QED
    BY <2>3 DEF q
<1>9. PipeOK(c', w)
  BY <1>5, <1>6, <1>8 DEF PipeOK
<1>10. FlushOK(c')
  <2>1. Flushing(c') = Flushing(c) \cup {w} /\ w \notin Flushing(c)
    BY <1>5, <1>8 DEF Flushing
  <2>2. IsFiniteSet(Flushing(c)) /\ Cardinality(Flushing(c)) \in Nat
    BY FlushingFinite
  <2>3. Cardinality(Flushing(c')) = Cardinality(Flushing(c)) + 1
    BY <2>1, <2>2, FS_AddElement
  <2>4. c.flushed \in Nat /\ c.fragments \in Nat
    BY <1>1, PipeTypes
  <2>5. QED
    BY <1>1, <1>4, <1>6, <2>2, <2>3, <2>4 DEF FlushOK
<1>11. ASSUME NEW f, Delivered(c, w, f) PROVE Delivered(c', w, f)
  <2>1. c'.outbox[w] = Append(c.outbox[w], x) /\ c'.proc[w] # "none"
        /\ c'.ipc_done[w] = c.ipc_done[w]
    BY <1>5, <1>6 DEF q
  <2>2. QED
    BY <1>1, <1>3, <1>11, <2>1, AppendDelivered
<1>12. QED
  BY <1>1, <1>2, <1>6, <1>7, <1>9, <1>10, <1>11, WorkerPipes

\* A process ends and takes the frames in its own buffer with it: their results
\* have not been written.
LEMMA DiesPipes ==
  ASSUME CoordInv, PipesInv, NEW w \in Workers, c.phase = "driving", c.proc[w] \in Living,
         NEW status \in Statuses, dies(w, status)
  PROVE  PipesInv'
<1> SUFFICES Pipes(c')
  BY DEF PipesInv
<1>1. PICK kept \in 0 .. Len(c.outbox[w]) :
        c' = [c EXCEPT
          !.proc[w] = status,
          !.outbox[w] = SubSeq(@, 1, kept),
          !.written = @ \ {c.outbox[w][i].idx : i \in kept + 1 .. Len(c.outbox[w])},
          !.faults = IF c.killed[w] THEN @ ELSE @ + 1]
  BY DEF dies
<1> DEFINE p == c.outbox[w]
           q == SubSeq(p, 1, kept)
           lost == {p[i].idx : i \in kept + 1 .. Len(p)}
<1>2. /\ c \in State /\ Pipes(c) /\ PipesOK(c) /\ FlushOK(c) /\ c.proc[w] # "none"
  BY DEF CoordInv, Inv, PipesInv, Pipes, Living
<1>3. c' \in State
  BY <1>2, DiesInv DEF CoordInv, Inv
<1>4. p \in Seq(Frame) /\ kept \in 0 .. Len(p)
  BY <1>2, PipeTypes
<1>5. /\ c'.outbox = [c.outbox EXCEPT ![w] = q] /\ c'.proc = [c.proc EXCEPT ![w] = status]
      /\ c'.written = c.written \ lost
      /\ Only(c, c', {"outbox", "proc", "written", "faults"})
  BY <1>1, <1>2 DEF State, Only, Names
<1> HIDE DEF p
<1>6. /\ \A i \in DOMAIN q : i \in DOMAIN p /\ q[i] = p[i]
      /\ \A i \in DOMAIN p : i \in DOMAIN q \/ i \in kept + 1 .. Len(p)
      /\ \A i, j \in DOMAIN p : i \in DOMAIN q /\ j < i => j \in DOMAIN q
  BY <1>4
<1> HIDE DEF q
<1>7. /\ c'.outbox[w] = q /\ c'.proc[w] = status
      /\ \A u \in Workers \ {w} : c'.outbox[u] = c.outbox[u] /\ c'.proc[u] = c.proc[u]
  BY <1>2, <1>5, FieldTypes
<1>8. /\ c'.inbox = c.inbox /\ c'.pending = c.pending /\ c'.running = c.running
      /\ c'.inflight = c.inflight /\ c'.stop = c.stop /\ c'.ipc_done = c.ipc_done
      /\ c'.bailed = c.bailed /\ c'.counted = c.counted /\ c'.crashed = c.crashed
      /\ c'.flushed = c.flushed /\ c'.fragments = c.fragments
  BY <1>5 DEF Only, Names
<1>9. Elsewhere(c, c', w)
  BY <1>7, <1>8 DEF Elsewhere, SamePipe
<1>10. /\ Pipe(c.inbox[w], q, c.pending[w], c.running[w], c.inflight[w], c.stop[w], status,
               c.ipc_done[w], c.bailed)
       /\ ~Has(p, "aggregates") /\ ~Has(q, "aggregates")
  <2>1. c.ipc_done[w] \in BOOLEAN
    BY <1>2, PipeTypes
  <2>2. Pipe(c.inbox[w], p, c.pending[w], c.running[w], c.inflight[w], c.stop[w], c.proc[w],
             c.ipc_done[w], c.bailed)
    BY <1>2 DEF PipesOK, PipeOK, p
  <2>3. QED
    BY <1>4, <1>6, <2>1, <2>2, ProcessEnds
<1>11. PipeOK(c', w)
  BY <1>7, <1>8, <1>10 DEF PipeOK
<1>12. FlushOK(c')
  <2>1. \A u \in Workers : Has(c'.outbox[u], "aggregates") <=> Has(c.outbox[u], "aggregates")
    BY <1>7, <1>10 DEF p
  <2>2. QED
    BY <1>2, <1>8, <2>1, SameFlush
<1>13. ASSUME NEW f \in c'.written, Delivered(c, w, f) PROVE Delivered(c', w, f)
  <2>1. PICK i \in DOMAIN p : /\ p[i].kind = "file_done" /\ p[i].idx = f
                              /\ \A j \in DOMAIN p : j < i => p[j].kind # "corrupt"
    BY <1>13 DEF Delivered, p
  <2>2. i \in DOMAIN q
    BY <1>5, <1>6, <1>13, <2>1
  <2>3. /\ q[i].kind = "file_done" /\ q[i].idx = f
        /\ \A j \in DOMAIN q : j < i => q[j].kind # "corrupt"
    BY <1>6, <2>1, <2>2
  <2>4. ~c'.ipc_done[w] /\ c'.proc[w] # "none"
    BY <1>7, <1>8, <1>13, LivingFacts DEF Delivered
  <2>5. QED
    BY <1>7, <2>2, <2>3, <2>4 DEF Delivered
<1>14. \A f \in c'.written : f \in c.written /\ (Delivered(c, w, f) => Delivered(c', w, f))
  BY <1>5, <1>13
<1>15. QED
  BY <1>2, <1>3, <1>9, <1>11, <1>12, <1>14, WorkerPipes

LEMMA WorkerEndsPipes ==
  ASSUME CoordInv, PipesInv, NEW w \in Workers, WorkerDies(w) \/ WorkerKilled(w)
  PROVE  PipesInv'
<1>1. c.phase = "driving" /\ c.proc[w] \in Living
  BY DEF WorkerDies, WorkerKilled, Lives
<1>2. \E status \in Statuses : dies(w, status)
  BY DEF WorkerDies, WorkerKilled, Statuses
<1>3. QED
  BY <1>1, <1>2, DiesPipes

-----------------------------------------------------------------------------
(* What the coordinator decodes *)

LEMMA DecodedPipe ==
  ASSUME CoordInv, NEW w \in Workers, NEW kind, Receives(w, kind)
  PROVE  LET d == decoded(w)
         IN  /\ d \in State /\ d.outbox[w] = Tail(c.outbox[w])
             /\ \A u \in Workers \ {w} : d.outbox[u] = c.outbox[u]
<1>1. c \in State /\ c.outbox[w] # <<>>
  BY DEF CoordInv, Inv, Receives
<1>2. decoded(w).outbox = [c.outbox EXCEPT ![w] = Tail(c.outbox[w])]
  BY <1>1 DEF decoded, State
<1>3. decoded(w) \in State
  BY DecodedInv DEF Inv
<1>4. QED
  BY <1>1, <1>2, <1>3, FieldTypes

\* Taking a frame from the pipe loses no result, unless it is one.
LEMMA TailDelivered ==
  ASSUME NEW s \in State, NEW t, NEW w \in Workers, NEW f, Delivered(s, w, f),
         s.outbox[w] # <<>>
  PROVE  /\ Head(s.outbox[w]).kind # "corrupt"
         /\ \/ Head(s.outbox[w]).kind = "file_done" /\ Head(s.outbox[w]).idx = f
            \/ /\ t.outbox[w] = Tail(s.outbox[w]) /\ t.ipc_done[w] = s.ipc_done[w]
               /\ t.proc[w] = s.proc[w]
               => Delivered(t, w, f)
<1> DEFINE p == s.outbox[w]
           q == Tail(p)
<1>1. p \in Seq(Frame)
  BY PipeTypes
<1>2. PICK i \in DOMAIN p : /\ p[i].kind = "file_done" /\ p[i].idx = f
                            /\ \A j \in DOMAIN p : j < i => p[j].kind # "corrupt"
  BY DEF Delivered
<1>3. p # <<>>
  OBVIOUS
<1> HIDE DEF p
<1>4. 1 \in DOMAIN p /\ Head(p) = p[1] /\ i \in Nat /\ (i = 1 \/ 1 < i)
  BY <1>1, <1>3
<1>5. Head(p).kind # "corrupt"
  BY <1>2, <1>4
<1>6. CASE i = 1
  BY <1>2, <1>4, <1>5, <1>6 DEF p
<1>7. CASE 1 < i
  <2>1. /\ i - 1 \in DOMAIN q /\ q[i - 1] = p[i]
        /\ \A j \in DOMAIN q : j \in Nat /\ j + 1 \in DOMAIN p /\ q[j] = p[j + 1]
    BY <1>1, <1>3, <1>7
  <2> HIDE DEF q
  <2>2. /\ q[i - 1].kind = "file_done" /\ q[i - 1].idx = f
        /\ \A j \in DOMAIN q : j < i - 1 => q[j].kind # "corrupt"
    BY <1>2, <1>4, <2>1
  <2>3. ASSUME t.outbox[w] = q, t.ipc_done[w] = s.ipc_done[w], t.proc[w] = s.proc[w]
        PROVE  Delivered(t, w, f)
    BY <2>1, <2>2, <2>3 DEF Delivered
  <2>4. QED
    BY <1>5, <2>3 DEF p, q
<1>8. QED
  BY <1>4, <1>6, <1>7

\* assign_work() for a worker that waits.
LEMMA AssignPipes ==
  ASSUME NEW s, Inv(s), Pipes(s), NEW w \in Workers, QuietSlot(s, w)
  PROVE  Pipes(assign_work(s, w))
<1> DEFINE t == assign_work(s, w)
<1>1. s \in State /\ FilesOK(s) /\ PipesOK(s) /\ ResultsOK(s) /\ FlushOK(s)
  BY DEF Inv, Pipes
<1>2. s.inflight[w] = None /\ ~s.ipc_done[w]
  BY DEF QuietSlot, Quiet
<1>3. /\ t \in State /\ Only(s, t, {"inbox", "inflight", "lo", "hi"})
      /\ \A v \in Workers \ {w} : t.inflight[v] = s.inflight[v]
  BY <1>1, <1>2, AssignFacts
<1>4. /\ \A v \in Workers \ {w} : t.inbox[v] = s.inbox[v]
      /\ \/ t.inflight[w] = None /\ t.inbox[w] = Append(s.inbox[w], Shutdown)
         \/ ~s.bailed /\ \E f \in Files :
              t.inflight[w] = f /\ t.inbox[w] = Append(s.inbox[w], Run(f))
  BY <1>1, <1>2, AssignSends
<1> HIDE DEF t
<1>5. /\ t.outbox = s.outbox /\ t.pending = s.pending /\ t.running = s.running
      /\ t.stop = s.stop /\ t.proc = s.proc /\ t.ipc_done = s.ipc_done
      /\ t.bailed = s.bailed /\ t.counted = s.counted /\ t.crashed = s.crashed
      /\ t.written = s.written /\ t.flushed = s.flushed /\ t.fragments = s.fragments
  BY <1>3 DEF Only, Names
<1>6. Elsewhere(s, t, w)
  BY <1>3, <1>4, <1>5 DEF Elsewhere, SamePipe
<1>7. PipeOK(t, w)
  <2> DEFINE P(in, infl) == Pipe(in, s.outbox[w], s.pending[w], s.running[w], infl,
                                 s.stop[w], s.proc[w], s.ipc_done[w], s.bailed)
  <2>1. P(s.inbox[w], s.inflight[w])
    BY <1>1 DEF PipesOK, PipeOK
  <2>2. /\ s.inbox[w] \in Seq(Command) /\ s.outbox[w] \in Seq(Frame) /\ s.stop[w] \in BOOLEAN
        /\ s.ipc_done[w] \in BOOLEAN /\ s.bailed \in BOOLEAN
    BY <1>1, PipeTypes
  <2>3. Quiet(s.inbox[w], s.outbox[w], s.inflight[w], s.stop[w], s.proc[w], s.ipc_done[w],
              s.bailed)
    BY DEF QuietSlot
  <2>4. /\ P(Append(s.inbox[w], Shutdown), None)
        /\ ~s.bailed => \A f \in Files : P(Append(s.inbox[w], Run(f)), f)
    BY <2>1, <2>2, <2>3, PipeAssigns
  <2>5. PipeOK(t, w) <=> P(t.inbox[w], t.inflight[w])
    BY <1>5 DEF PipeOK
  <2> HIDE DEF P
  <2>6. QED
    BY <1>4, <2>4, <2>5
<1>8. FlushOK(t)
  BY <1>1, <1>5, SameFlush
<1>9. \A f : Delivered(s, w, f) => Delivered(t, w, f)
  BY <1>5 DEF Delivered
<1>10. Pipes(t)
  BY <1>1, <1>3, <1>5, <1>6, <1>7, <1>8, <1>9, WorkerPipes
<1>11. QED
  BY <1>10 DEF t

LEMMA OnReadyPipes ==
  ASSUME CoordInv, PipesInv, NEW w \in Workers, OnReady(w)
  PROVE  PipesInv'
<1> DEFINE d == decoded(w)
           q == Tail(c.outbox[w])
<1>1. /\ Receives(w, "ready") /\ c' = assign_work(d, w) /\ ~c.ipc_done[w]
      /\ c.outbox[w] # <<>> /\ Head(c.outbox[w]).kind = "ready"
  BY DEF OnReady, Receives
<1>2. /\ Inv(d) /\ NoReady(d, w) /\ Only(c, d, {"outbox"}) /\ d.inflight[w] = None
      /\ d.proc[w] \notin {"none", "boot"}
  BY <1>1, DecodedInv
<1>3. /\ d \in State /\ d.outbox[w] = q
      /\ \A u \in Workers \ {w} : d.outbox[u] = c.outbox[u]
  BY <1>1, DecodedPipe
<1>4. c \in State /\ Pipes(c) /\ PipesOK(c) /\ FlushOK(c)
  BY DEF CoordInv, Inv, PipesInv, Pipes
<1> HIDE DEF d
<1>5. /\ d.inbox = c.inbox /\ d.pending = c.pending /\ d.running = c.running
      /\ d.inflight = c.inflight /\ d.stop = c.stop /\ d.ipc_done = c.ipc_done
      /\ d.proc = c.proc
      /\ d.bailed = c.bailed /\ d.counted = c.counted /\ d.crashed = c.crashed
      /\ d.written = c.written /\ d.flushed = c.flushed /\ d.fragments = c.fragments
  BY <1>2 DEF Only, Names
<1>6. PipeOK(d, w) /\ QuietSlot(d, w)
  <2>1. c.inbox[w] \in Seq(Command) /\ c.outbox[w] \in Seq(Frame)
    BY <1>4, PipeTypes
  <2>2. Pipe(c.inbox[w], c.outbox[w], c.pending[w], c.running[w], c.inflight[w], c.stop[w],
             c.proc[w], c.ipc_done[w], c.bailed)
    BY <1>4 DEF PipesOK, PipeOK
  <2>3. ~Has(q, "ready")
    BY <1>2, <1>3 DEF NoReady, Has
  <2>4. c.inflight[w] = None /\ c.proc[w] \notin {"none", "boot"}
    BY <1>2, <1>5
  <2>5. /\ Pipe(c.inbox[w], q, c.pending[w], c.running[w], c.inflight[w], c.stop[w],
                c.proc[w], c.ipc_done[w], c.bailed)
        /\ Quiet(c.inbox[w], q, c.inflight[w], c.stop[w], c.proc[w], c.ipc_done[w], c.bailed)
    BY <1>1, <2>1, <2>2, <2>3, <2>4, PipeReady
  <2> HIDE DEF q
  <2>6. QED
    BY <1>3, <1>5, <2>5 DEF PipeOK, QuietSlot
<1>7. Elsewhere(c, d, w)
  BY <1>3, <1>5 DEF Elsewhere, SamePipe
<1>8. \A u \in Workers : Has(d.outbox[u], "aggregates") <=> Has(c.outbox[u], "aggregates")
  <2>1. c.outbox[w] \in Seq(Frame)
    BY <1>4, PipeTypes
  <2>2. Has(c.outbox[w], "aggregates") => Has(q, "aggregates")
    <3>1. /\ 1 \in DOMAIN c.outbox[w] /\ c.outbox[w][1].kind = "ready"
          /\ \A i \in DOMAIN c.outbox[w] : i # 1 => i - 1 \in DOMAIN q
                                                  /\ q[i - 1] = c.outbox[w][i]
      BY <1>1, <2>1, SMTT(30)
    <3> HIDE DEF q
    <3>2. QED
      BY <3>1 DEF Has
  <2>3. Has(q, "aggregates") => Has(c.outbox[w], "aggregates")
    BY <1>1, <2>1, HasTail
  <2>4. QED
    BY <1>3, <2>2, <2>3
<1>9. FlushOK(d)
  BY <1>4, <1>5, <1>8, SameFlush
<1>10. ASSUME NEW f, Delivered(c, w, f) PROVE Delivered(d, w, f)
  BY <1>1, <1>3, <1>4, <1>5, <1>10, TailDelivered
<1>11. Pipes(d)
  BY <1>3, <1>4, <1>5, <1>6, <1>7, <1>9, <1>10, WorkerPipes
<1>12. Pipes(c')
  BY <1>1, <1>2, <1>6, <1>11, AssignPipes
<1>13. QED
  BY <1>12 DEF PipesInv

\* The result of the file that was dispatched to the worker is counted once it
\* is decoded, and the worker waits.
LEMMA ResultPipes ==
  ASSUME CoordInv, PipesInv, NEW w \in Workers, Receives(w, "file_done")
  PROVE  LET x == Head(c.outbox[w])
             r == WithResult(decoded(w), w, x.idx, x.fail)
         IN  /\ c.inflight[w] = x.idx /\ x.idx \in Files /\ x.fail \in {0, 1}
             /\ r \in State /\ BailOK(r) /\ Pipes(r) /\ QuietSlot(r, w)
<1> DEFINE x == Head(c.outbox[w])
           f == x.idx
           q == Tail(c.outbox[w])
           d == decoded(w)
           r == WithResult(d, w, f, x.fail)
<1>1. /\ ~c.ipc_done[w] /\ c.outbox[w] # <<>> /\ x.kind = "file_done"
      /\ c.proc[w] # "none"
  BY DEF Receives
<1>2. /\ Inv(d) /\ NoReady(d, w) /\ Only(c, d, {"outbox"}) /\ x \in Frame /\ f \in Files
      /\ d.proc[w] \notin {"none", "boot"}
  BY DecodedInv
<1>3. /\ d \in State /\ d.outbox[w] = q
      /\ \A u \in Workers \ {w} : d.outbox[u] = c.outbox[u]
  BY DecodedPipe
<1>4. c \in State /\ PipesOK(c) /\ ResultsOK(c) /\ FlushOK(c) /\ FilesOK(c)
  BY DEF CoordInv, Inv, PipesInv, Pipes
<1>5. x.fail \in {0, 1}
  BY <1>2 DEF Frame
<1> HIDE DEF d
<1>6. d.inflight = c.inflight /\ d.proc = c.proc /\ d.counted = c.counted
  BY <1>2 DEF Only, Names
<1>7. /\ c.inflight[w] = f
      /\ Pipe(c.inbox[w], q, c.pending[w], c.running[w], None, c.stop[w],
              c.proc[w], c.ipc_done[w], c.bailed)
      /\ Quiet(c.inbox[w], q, None, c.stop[w], c.proc[w], c.ipc_done[w], c.bailed)
      /\ ~Has(q, "aggregates") /\ ~Has(c.outbox[w], "aggregates")
  <2>1. c.inbox[w] \in Seq(Command) /\ c.outbox[w] \in Seq(Frame)
    BY <1>4, PipeTypes
  <2>2. Pipe(c.inbox[w], c.outbox[w], c.pending[w], c.running[w], c.inflight[w], c.stop[w],
             c.proc[w], c.ipc_done[w], c.bailed)
    BY <1>4 DEF PipesOK, PipeOK
  <2>3. ~Has(q, "ready")
    BY <1>2, <1>3 DEF NoReady, Has
  <2>4. c.proc[w] \notin {"none", "boot"}
    BY <1>2, <1>6
  <2>5. /\ c.inflight[w] = f /\ c.inflight[w] # None
        /\ Pipe(c.inbox[w], q, c.pending[w], c.running[w], None, c.stop[w],
                c.proc[w], c.ipc_done[w], c.bailed)
        /\ Quiet(c.inbox[w], q, None, c.stop[w], c.proc[w], c.ipc_done[w], c.bailed)
    BY <1>1, <2>1, <2>2, <2>3, <2>4, PipeDone
  <2>6. ~Has(c.outbox[w], "aggregates")
    <3>1. OutboxOK(c.outbox[w], c.inflight[w], c.proc[w], c.bailed)
      BY <1>1, <2>2 DEF Pipe
    <3>2. QED
      BY <2>5, <3>1 DEF OutboxOK, Has
  <2>7. ~Has(q, "aggregates")
    BY <1>1, <2>1, <2>6, HasTail
  <2>8. QED
    BY <2>5, <2>6, <2>7
<1>8. /\ r \in State /\ BailOK(r)
      /\ Only(d, r, {"inflight", "files_done", "fails", "counted"})
      /\ r.inflight[w] = None /\ \A v \in Workers \ {w} : r.inflight[v] = d.inflight[v]
      /\ d.counted[f] = 0 /\ r.counted[f] = 1
      /\ \A g \in Files \ {f} : r.counted[g] = d.counted[g]
  <2>1. d.inflight[w] = f
    BY <1>6, <1>7
  <2> HIDE DEF f, x
  <2>2. QED
    BY <1>2, <1>5, <2>1, CountFacts
<1> HIDE DEF r, q
<1>9. /\ r.inbox = c.inbox /\ r.pending = c.pending /\ r.running = c.running
      /\ r.stop = c.stop /\ r.ipc_done = c.ipc_done /\ r.proc = c.proc
      /\ r.bailed = c.bailed /\ r.crashed = c.crashed /\ r.outbox = d.outbox
      /\ r.written = c.written /\ r.flushed = c.flushed /\ r.fragments = c.fragments
  BY <1>2, <1>8 DEF Only, Names
<1>10. \A u \in Workers \ {w} : SamePipe(c, r, u) /\ r.inbox[u] = c.inbox[u]
  BY <1>3, <1>6, <1>8, <1>9 DEF SamePipe
<1>11. PipesOK(r)
  <2>1. \A u \in Workers \ {w} : PipeOK(r, u)
    BY <1>4, <1>9, <1>10 DEF PipesOK, PipeOK, SamePipe
  <2>2. PipeOK(r, w)
    BY <1>3, <1>7, <1>8, <1>9 DEF PipeOK
  <2>3. QED
    BY <2>1, <2>2 DEF PipesOK
<1>12. QuietSlot(r, w)
  BY <1>3, <1>7, <1>8, <1>9 DEF QuietSlot
<1>13. ResultsOK(r)
  <2>1. c.crashed \in SUBSET Files /\ c.written \in SUBSET Files
    BY <1>4, PipeTypes
  <2>2. f \notin c.crashed
    BY <1>4, <1>6, <1>8 DEF ResultsOK
  <2>3. \A g \in r.crashed : r.counted[g] = 1
    BY <1>4, <1>6, <1>8, <1>9, <2>1, <2>2 DEF ResultsOK
  <2>4. ASSUME NEW g \in r.written
        PROVE  \/ r.counted[g] = 1 /\ g \notin r.crashed
               \/ \E u \in Workers : Delivered(r, u, g)
    <3>1. CASE g = f
      BY <1>8, <1>9, <2>2, <3>1
    <3>2. CASE c.counted[g] = 1 /\ g \notin c.crashed
      BY <1>6, <1>8, <1>9, <2>1, <2>4, <3>1, <3>2
    <3>3. ASSUME NEW u \in Workers, Delivered(c, u, g), g # f
          PROVE  Delivered(r, u, g)
      <4>1. CASE u # w
        BY <1>10, <3>3, <4>1, SameDelivered
      <4>2. CASE u = w
        <5>1. /\ r.outbox[w] = Tail(c.outbox[w]) /\ r.ipc_done[w] = c.ipc_done[w]
              /\ r.proc[w] = c.proc[w]
          BY <1>3, <1>9 DEF q
        <5>2. Delivered(c, w, g) /\ Head(c.outbox[w]).idx # g
          BY <3>3, <4>2
        <5>3. Delivered(r, w, g)
          BY <1>1, <1>4, <5>1, <5>2, TailDelivered
        <5>4. QED
          BY <4>2, <5>3
      <4>3. QED
        BY <4>1, <4>2
    <3>4. QED
      BY <1>4, <1>9, <2>4, <3>1, <3>2, <3>3 DEF ResultsOK
  <2>5. QED
    BY <2>3, <2>4 DEF ResultsOK
<1>14. FlushOK(r)
  <2>1. \A u \in Workers : Has(r.outbox[u], "aggregates") <=> Has(c.outbox[u], "aggregates")
    BY <1>3, <1>7, <1>9
  <2>2. QED
    BY <1>4, <1>9, <2>1, SameFlush
<1>15. QED
  BY <1>2, <1>5, <1>7, <1>8, <1>11, <1>12, <1>13, <1>14 DEF Pipes, r, d

\* bail_out() sends shutdowns and changes nothing else of the pipes.
LEMMA BailPipes ==
  ASSUME NEW s \in State, BailOK(s), Pipes(s)
  PROVE  /\ Pipes(bail_if_due(s))
         /\ \A w \in Workers : QuietSlot(s, w) => QuietSlot(bail_if_due(s), w)
<1> DEFINE t == bail_if_due(s)
<1>1. t \in State /\ Only(s, t, {"bailed", "inbox"}) /\ \A u \in Workers : Spares(s, t, u)
  BY BailFacts, BailSpares
<1>2. PipesOK(s) /\ ResultsOK(s) /\ FlushOK(s)
  BY DEF Pipes
<1> HIDE DEF t
<1>3. PipesOK(t)
  BY <1>1, <1>2, SparesPipe DEF PipesOK
<1>4. /\ t.outbox = s.outbox /\ t.proc = s.proc /\ t.ipc_done = s.ipc_done
      /\ t.counted = s.counted /\ t.crashed = s.crashed /\ t.written = s.written
      /\ t.flushed = s.flushed /\ t.fragments = s.fragments
  BY <1>1 DEF Only, Names
<1>5. ResultsOK(t)
  BY <1>2, <1>4 DEF ResultsOK, Delivered
<1>6. FlushOK(t)
  BY <1>2, <1>4 DEF FlushOK, Flushing
<1>7. \A w \in Workers : QuietSlot(s, w) => QuietSlot(t, w)
  BY <1>1, SparesQuiet
<1>8. QED
  BY <1>3, <1>5, <1>6, <1>7 DEF Pipes, t

LEMMA OnFileDonePipes ==
  ASSUME CoordInv, PipesInv, NEW w \in Workers, OnFileDone(w)
  PROVE  PipesInv'
<1> DEFINE x == Head(c.outbox[w])
           d == decoded(w)
           r == WithResult(d, w, x.idx, x.fail)
           t == bail_if_due(r)
<1>1. /\ Receives(w, "file_done")
      /\ c' = IF d.inflight[w] # x.idx THEN d
              ELSE IF t.alive[w] THEN assign_work(t, w) ELSE t
  BY DEF OnFileDone, WithResult
<1>2. /\ c.inflight[w] = x.idx /\ x.idx \in Files /\ x.fail \in {0, 1}
      /\ r \in State /\ BailOK(r) /\ Pipes(r) /\ QuietSlot(r, w)
  BY <1>1, ResultPipes
<1>3. Inv(d) /\ d.phase = "driving" /\ Only(c, d, {"outbox"})
  BY <1>1, DecodedInv
<1> HIDE DEF d, x
<1>4. d.inflight[w] = x.idx
  <2>1. d.inflight = c.inflight
    BY <1>3 DEF Only, Names
  <2>2. QED
    BY <1>2, <2>1
<1>5. Inv(t)
  BY <1>2, <1>3, <1>4, CountInv
<1> HIDE DEF r
<1>6. Pipes(t) /\ QuietSlot(t, w)
  BY <1>2, BailPipes
<1> HIDE DEF t
<1>7. Pipes(assign_work(t, w))
  BY <1>5, <1>6, AssignPipes
<1>8. QED
  BY <1>1, <1>4, <1>6, <1>7 DEF PipesInv

LEMMA OnAggregatesPipes ==
  ASSUME CoordInv, PipesInv, NEW w \in Workers, OnAggregates(w)
  PROVE  PipesInv'
<1> SUFFICES Pipes(c')
  BY DEF PipesInv
<1> DEFINE d == decoded(w)
           q == Tail(c.outbox[w])
<1>1. /\ Receives(w, "aggregates") /\ c' = [d EXCEPT !.fragments = @ + 1] /\ ~c.ipc_done[w]
      /\ c.outbox[w] # <<>> /\ Head(c.outbox[w]).kind = "aggregates" /\ c.proc[w] # "none"
  BY DEF OnAggregates, Receives
<1>2. Only(c, d, {"outbox"})
  BY <1>1, DecodedInv
<1>3. /\ d \in State /\ d.outbox[w] = q
      /\ \A u \in Workers \ {w} : d.outbox[u] = c.outbox[u]
  BY <1>1, DecodedPipe
<1>4. c \in State /\ Pipes(c) /\ PipesOK(c) /\ FlushOK(c)
  BY DEF CoordInv, Inv, PipesInv, Pipes
<1>5. c' \in State
  BY OnAggregatesInv DEF CoordInv, Inv
<1> HIDE DEF d
<1>6. c'.fragments = d.fragments + 1 /\ Only(d, c', {"fragments"})
  BY <1>1, <1>3 DEF State, Only, Names
<1>7. /\ c'.inbox = c.inbox /\ c'.pending = c.pending /\ c'.running = c.running
      /\ c'.inflight = c.inflight /\ c'.stop = c.stop /\ c'.ipc_done = c.ipc_done
      /\ c'.proc = c.proc /\ c'.bailed = c.bailed /\ c'.counted = c.counted
      /\ c'.crashed = c.crashed /\ c'.written = c.written /\ c'.flushed = c.flushed
      /\ c'.outbox = d.outbox /\ d.fragments = c.fragments
  BY <1>2, <1>6 DEF Only, Names
<1>8. Elsewhere(c, c', w)
  BY <1>3, <1>7 DEF Elsewhere, SamePipe
<1>9. /\ q = <<>>
      /\ Pipe(c.inbox[w], q, c.pending[w], c.running[w], c.inflight[w], c.stop[w],
              c.proc[w], c.ipc_done[w], c.bailed)
  <2>1. c.outbox[w] \in Seq(Frame)
    BY <1>4, PipeTypes
  <2>2. Pipe(c.inbox[w], c.outbox[w], c.pending[w], c.running[w], c.inflight[w], c.stop[w],
             c.proc[w], c.ipc_done[w], c.bailed)
    BY <1>4 DEF PipesOK, PipeOK
  <2>3. QED
    BY <1>1, <2>1, <2>2, PipeAggregates
<1>10. Has(c.outbox[w], "aggregates")
  <2>1. c.outbox[w] \in Seq(Frame)
    BY <1>4, PipeTypes
  <2>2. 1 \in DOMAIN c.outbox[w] /\ Head(c.outbox[w]) = c.outbox[w][1]
    BY <1>1, <2>1, TailFacts
  <2>3. QED
    BY <1>1, <2>2 DEF Has
<1>11. ~Has(q, "aggregates")
  BY <1>9, EmptyHas
<1> HIDE DEF q
<1>12. PipeOK(c', w)
  BY <1>3, <1>7, <1>9 DEF PipeOK
<1>13. FlushOK(c')
  <2>1. Flushing(c') = Flushing(c) \ {w} /\ w \in Flushing(c)
    BY <1>3, <1>7, <1>10, <1>11 DEF Flushing
  <2>2. IsFiniteSet(Flushing(c)) /\ Cardinality(Flushing(c)) \in Nat
    BY FlushingFinite
  <2>3. Cardinality(Flushing(c')) = Cardinality(Flushing(c)) - 1
    BY <2>1, <2>2, FS_RemoveElement
  <2>4. c.flushed \in Nat /\ c.fragments \in Nat
    BY <1>4, PipeTypes
  <2>5. QED
    BY <1>4, <1>6, <1>7, <2>2, <2>3, <2>4 DEF FlushOK
<1>14. ASSUME NEW f, Delivered(c, w, f) PROVE Delivered(c', w, f)
  <2>1. /\ c'.outbox[w] = Tail(c.outbox[w]) /\ c'.ipc_done[w] = c.ipc_done[w]
        /\ c'.proc[w] = c.proc[w]
    BY <1>3, <1>7 DEF q
  <2>2. QED
    BY <1>1, <1>4, <1>14, <2>1, TailDelivered
<1>15. QED
  BY <1>4, <1>5, <1>7, <1>8, <1>12, <1>13, <1>14, WorkerPipes

\* The channel ends at a frame that cannot be decoded: no result came after it.
LEMMA OnCorruptFramePipes ==
  ASSUME CoordInv, PipesInv, NEW w \in Workers, OnCorruptFrame(w)
  PROVE  PipesInv'
<1> DEFINE d == decoded(w)
           q == Tail(c.outbox[w])
           done == [d.ipc_done EXCEPT ![w] = TRUE]
           killed == [d.killed EXCEPT ![w] = TRUE]
           t == [d EXCEPT !.ipc_done = done, !.killed = killed]
<1>1. /\ Receives(w, "corrupt")
      /\ c' \in try_reap([d EXCEPT !.ipc_done[w] = TRUE, !.killed[w] = TRUE], w)
      /\ c.outbox[w] # <<>> /\ Head(c.outbox[w]).kind = "corrupt" /\ c.proc[w] # "none"
      /\ ~c.ipc_done[w]
  BY DEF OnCorruptFrame, Receives
<1>2. Inv(d) /\ d.phase = "driving" /\ d.proc[w] # "none" /\ Only(c, d, {"outbox"})
  BY <1>1, DecodedInv
<1>3. /\ d \in State /\ d.outbox[w] = q
      /\ \A u \in Workers \ {w} : d.outbox[u] = c.outbox[u]
  BY <1>1, DecodedPipe
<1>4. c \in State /\ Pipes(c) /\ PipesOK(c) /\ FlushOK(c)
  BY DEF CoordInv, Inv, PipesInv, Pipes
<1> HIDE DEF d
<1>5. /\ [d EXCEPT !.ipc_done[w] = TRUE, !.killed[w] = TRUE] = t
      /\ done \in [Workers -> BOOLEAN] /\ killed \in [Workers -> BOOLEAN]
      /\ done[w] /\ \A u \in Workers \ {w} : done[u] = d.ipc_done[u]
  BY <1>3 DEF State
<1> HIDE DEF done, killed
<1>6. t \in State /\ t.ipc_done = done /\ Only(d, t, {"ipc_done", "killed"})
  BY <1>3, <1>5 DEF State, Only, Names
<1> HIDE DEF t, q
<1>7. Inv(t) /\ t.phase = "driving" /\ t.proc[w] # "none"
  <2>1. Only(d, t, {"ipc_done", "killed", "alive", "exit_status"})
    BY <1>6 DEF Only
  <2>2. QED
    BY <1>2, <1>6, <2>1, FlagInv
<1>8. /\ t.inbox = c.inbox /\ t.pending = c.pending /\ t.running = c.running
      /\ t.inflight = c.inflight /\ t.stop = c.stop /\ d.ipc_done = c.ipc_done
      /\ t.proc = c.proc /\ t.bailed = c.bailed /\ t.counted = c.counted
      /\ t.crashed = c.crashed /\ t.written = c.written /\ t.flushed = c.flushed
      /\ t.outbox = d.outbox /\ t.fragments = c.fragments
  BY <1>2, <1>6 DEF Only, Names
<1>9. t.ipc_done[w] /\ \A u \in Workers \ {w} : t.ipc_done[u] = c.ipc_done[u]
  BY <1>5, <1>6, <1>8
<1>10. Elsewhere(c, t, w)
  BY <1>3, <1>8, <1>9 DEF Elsewhere, SamePipe
<1>11. /\ Pipe(c.inbox[w], q, c.pending[w], c.running[w], c.inflight[w], c.stop[w],
               c.proc[w], t.ipc_done[w], c.bailed)
       /\ ~Has(q, "aggregates") /\ ~Has(c.outbox[w], "aggregates")
  <2>1. c.inbox[w] \in Seq(Command) /\ c.outbox[w] \in Seq(Frame)
    BY <1>4, PipeTypes
  <2>2. Pipe(c.inbox[w], c.outbox[w], c.pending[w], c.running[w], c.inflight[w], c.stop[w],
             c.proc[w], c.ipc_done[w], c.bailed)
    BY <1>4 DEF PipesOK, PipeOK
  <2>3. Pipe(c.inbox[w], Tail(c.outbox[w]), c.pending[w], c.running[w], c.inflight[w],
             c.stop[w], c.proc[w], t.ipc_done[w], c.bailed)
    BY <1>1, <1>9, <2>1, <2>2, PipeCorrupt
  <2>4. ~Has(c.outbox[w], "aggregates")
    <3>1. OutboxOK(c.outbox[w], c.inflight[w], c.proc[w], c.bailed)
      BY <1>1, <2>2 DEF Pipe
    <3>2. 1 \in DOMAIN c.outbox[w] /\ Head(c.outbox[w]) = c.outbox[w][1]
      BY <1>1, <2>1, TailFacts
    <3>3. c.inflight[w] # None
      BY <1>1, <3>1, <3>2 DEF OutboxOK
    <3>4. QED
      BY <3>1, <3>3 DEF OutboxOK, Has
  <2>5. ~Has(Tail(c.outbox[w]), "aggregates")
    BY <1>1, <2>1, <2>4, HasTail
  <2>6. QED
    BY <2>3, <2>4, <2>5 DEF q
<1>12. PipeOK(t, w)
  BY <1>3, <1>8, <1>11 DEF PipeOK
<1>13. FlushOK(t)
  <2>1. \A u \in Workers : Has(t.outbox[u], "aggregates") <=> Has(c.outbox[u], "aggregates")
    BY <1>3, <1>8, <1>11
  <2>2. QED
    BY <1>4, <1>8, <2>1, SameFlush
<1>14. ASSUME NEW f PROVE ~Delivered(c, w, f)
  BY <1>1, <1>4, TailDelivered
<1>15. Pipes(t)
  BY <1>4, <1>6, <1>8, <1>10, <1>12, <1>13, <1>14, WorkerPipes
<1>16. Pipes(c')
  BY <1>1, <1>5, <1>7, <1>15, TryReapPipes
<1>17. QED
  BY <1>16 DEF PipesInv

\* The channel ends after everything that was written is decoded.
LEMMA OnChannelClosePipes ==
  ASSUME CoordInv, PipesInv, NEW w \in Workers, OnChannelClose(w)
  PROVE  PipesInv'
<1> DEFINE done == [c.ipc_done EXCEPT ![w] = TRUE]
           t == [c EXCEPT !.ipc_done = done]
<1>1. /\ c.phase = "driving" /\ c.proc[w] \in Statuses /\ c.proc[w] # "none"
      /\ c.outbox[w] = <<>>
      /\ c' \in try_reap([c EXCEPT !.ipc_done[w] = TRUE], w)
  BY DEF OnChannelClose, Statuses
<1>2. Inv(c) /\ c \in State /\ Pipes(c) /\ FlushOK(c)
  BY DEF CoordInv, Inv, PipesInv, Pipes
<1>3. /\ [c EXCEPT !.ipc_done[w] = TRUE] = t /\ done \in [Workers -> BOOLEAN]
      /\ done[w] /\ \A u \in Workers \ {w} : done[u] = c.ipc_done[u]
  BY <1>2 DEF State
<1> HIDE DEF done
<1>4. t \in State /\ t.ipc_done = done /\ Only(c, t, {"ipc_done"})
  BY <1>2, <1>3 DEF State, Only, Names
<1> HIDE DEF t
<1>5. Only(c, t, {"ipc_done", "killed", "alive", "exit_status"})
  BY <1>4 DEF Only
<1>6. Inv(t) /\ t.phase = "driving" /\ t.proc[w] # "none"
  BY <1>1, <1>2, <1>4, <1>5, FlagInv
<1>7. /\ t.inbox = c.inbox /\ t.pending = c.pending /\ t.running = c.running
      /\ t.inflight = c.inflight /\ t.stop = c.stop /\ t.proc = c.proc
      /\ t.bailed = c.bailed /\ t.counted = c.counted
      /\ t.crashed = c.crashed /\ t.written = c.written /\ t.flushed = c.flushed
      /\ t.outbox = c.outbox /\ t.fragments = c.fragments
  BY <1>4 DEF Only, Names
<1>8. t.ipc_done[w] /\ \A u \in Workers \ {w} : t.ipc_done[u] = c.ipc_done[u]
  BY <1>3, <1>4
<1>9. Elsewhere(c, t, w)
  BY <1>7, <1>8 DEF Elsewhere, SamePipe
<1>10. PipeOK(t, w)
  <2>1. Pipe(c.inbox[w], <<>>, c.pending[w], c.running[w], c.inflight[w], c.stop[w],
             c.proc[w], t.ipc_done[w], c.bailed)
    BY <1>1, <1>8, PipeCloses
  <2>2. QED
    BY <1>1, <1>7, <2>1 DEF PipeOK
<1>11. FlushOK(t)
  BY <1>2, <1>7, SameFlush
<1>12. \A f : ~Delivered(c, w, f)
  BY <1>1 DEF Delivered
<1>13. Pipes(t)
  BY <1>2, <1>4, <1>7, <1>9, <1>10, <1>11, <1>12, WorkerPipes
<1>14. Pipes(c')
  BY <1>1, <1>3, <1>6, <1>13, TryReapPipes
<1>15. QED
  BY <1>14 DEF PipesInv

LEMMA OnProcessExitPipes ==
  ASSUME CoordInv, PipesInv, NEW w \in Workers, on_process_exit(w)
  PROVE  PipesInv'
<1> DEFINE alive == [c.alive EXCEPT ![w] = FALSE]
           exits == [c.exit_status EXCEPT ![w] = c.proc[w]]
           t == [c EXCEPT !.alive = alive, !.exit_status = exits]
<1>1. /\ c.phase = "driving" /\ c.proc[w] \in Statuses /\ c.proc[w] # "none"
      /\ c' \in try_reap([c EXCEPT !.alive[w] = FALSE, !.exit_status[w] = c.proc[w]], w)
  BY DEF on_process_exit, Statuses
<1>2. Inv(c) /\ c \in State /\ Pipes(c)
  BY DEF CoordInv, Inv, PipesInv
<1>3. /\ [c EXCEPT !.alive[w] = FALSE, !.exit_status[w] = c.proc[w]] = t
      /\ alive \in [Workers -> BOOLEAN] /\ exits \in [Workers -> Statuses \cup {None}]
  BY <1>1, <1>2 DEF State
<1> HIDE DEF alive, exits
<1>4. t \in State /\ Only(c, t, {"alive", "exit_status"})
  BY <1>2, <1>3 DEF State, Only, Names
<1> HIDE DEF t
<1>5. Only(c, t, {"ipc_done", "killed", "alive", "exit_status"})
  BY <1>4 DEF Only
<1>6. Inv(t) /\ t.phase = "driving" /\ t.proc[w] # "none"
  BY <1>1, <1>2, <1>4, <1>5, FlagInv
<1>7. {"alive", "exit_status"} \cap PipeFields = {}
  BY DEF PipeFields
<1>8. Pipes(t)
  BY <1>2, <1>4, <1>7, SamePipes
<1>9. Pipes(c')
  BY <1>1, <1>3, <1>6, <1>8, TryReapPipes
<1>10. QED
  BY <1>9 DEF PipesInv

LEMMA NextPipes == CoordInv /\ PipesInv /\ [CoordNext]_c => PipesInv'
<1> SUFFICES ASSUME CoordInv, PipesInv, [CoordNext]_c PROVE PipesInv'
  OBVIOUS
<1>1. CASE UNCHANGED c
  BY <1>1 DEF PipesInv
<1>2. CASE DriveStart \/ DriveEnd \/ maybe_scale_up \/ abort_all
  BY <1>2, DriveStartPipes, DriveEndPipes, ScaleUpPipes
<1>3. ASSUME NEW w \in Workers, Step(w) \/ Fault(w) PROVE PipesInv'
  <2>1. CASE OnReady(w) \/ OnFileDone(w) \/ OnAggregates(w) \/ OnCorruptFrame(w)
             \/ OnChannelClose(w) \/ on_process_exit(w)
    BY <2>1, OnReadyPipes, OnFileDonePipes, OnAggregatesPipes, OnCorruptFramePipes,
       OnChannelClosePipes, OnProcessExitPipes
  <2>2. CASE WorkerReady(w) \/ WorkerReceive(w) \/ WorkerStartFile(w)
             \/ WorkerFinishFile(w) \/ WorkerExit(w) \/ WorkerCorrupts(w)
    BY <2>2, WorkerReadyPipes, WorkerReceivePipes, WorkerStartFilePipes,
       WorkerFinishFilePipes, WorkerExitPipes, WorkerCorruptsPipes
  <2>3. CASE WorkerDies(w) \/ WorkerKilled(w)
    BY <2>3, WorkerEndsPipes
  <2>4. QED
    BY <1>3, <2>1, <2>2, <2>3 DEF Step, Fault
<1>4. QED
  BY <1>1, <1>2, <1>3 DEF CoordNext

\* Every reachable state satisfies the invariant of the pipes: a slot's commands,
\* its process's file and its frames agree with what the coordinator dispatched,
\* whoever died, corrupted its pipe, was reaped or was told to stop.
THEOREM PipesInvariant == CoordSpec => []PipesInv
BY InitInv, NextInv, InitPipes, NextPipes, PTL DEF CoordSpec

\* The places of one worker that can hold a file.
HasOneRun(in, out, pend, runn, infl) ==
  LET asked == {i \in DOMAIN in : in[i].kind = "run"}
      answered == {i \in DOMAIN out : out[i].kind = "file_done"}
      at == {in[i].idx : i \in asked} \cup {out[i].idx : i \in answered}
            \cup ({pend, runn} \ {None})
  IN /\ at = {infl} \ {None}
     /\ Cardinality(asked) + Cardinality(answered)
          + Cardinality({x \in {"pending", "running"} :
                           IF x = "pending" THEN pend # None ELSE runn # None}) <= 1

LEMMA OneRun ==
  ASSUME NEW in \in Seq(Command), NEW out \in Seq(Frame), NEW pend, NEW runn, NEW infl,
         NEW stp, NEW proc, NEW bailed,
         OutboxOK(out, infl, proc, bailed),
         LinkOK(in, out, pend, runn, infl, stp, proc, bailed)
  PROVE  HasOneRun(in, out, pend, runn, infl)
<1> DEFINE asked == {i \in DOMAIN in : in[i].kind = "run"}
           answered == {i \in DOMAIN out : out[i].kind = "file_done"}
           slots == {x \in {"pending", "running"} :
                       IF x = "pending" THEN pend # None ELSE runn # None}
           at == {in[i].idx : i \in asked} \cup {out[i].idx : i \in answered}
                 \cup ({pend, runn} \ {None})
           Sum == Cardinality(asked) + Cardinality(answered) + Cardinality(slots)
<1>1. ~Has(out, "file_done") => answered = {}
  BY DEF Has
<1>2. in = <<>> => asked = {}
  OBVIOUS
<1>3. Cardinality({}) = 0
  BY FS_EmptySet
<1>4. CASE infl = None /\ IdleOK(in, out, pend, runn, stp, proc, bailed)
  <2>1. asked = {} /\ pend = None /\ runn = None
    BY <1>4 DEF IdleOK
  <2>2. answered = {}
    BY <1>4 DEF OutboxOK
  <2>3. slots = {} /\ at = {}
    BY <2>1, <2>2
  <2> HIDE DEF asked, answered, slots
  <2>4. Sum <= 1
    BY <1>3, <2>1, <2>2, <2>3
  <2>5. QED
    BY <1>4, <2>3, <2>4 DEF asked, answered, slots, HasOneRun
<1>5. CASE /\ infl # None /\ in = <<Run(infl)>> /\ pend = None /\ runn = None
           /\ ~Has(out, "file_done")
  <2>1. asked = {1} /\ in[1].idx = infl
    BY <1>5 DEF Run
  <2>2. slots = {} /\ answered = {}
    BY <1>1, <1>5
  <2> HIDE DEF asked, answered, slots
  <2>3. at = {infl}
    BY <1>5, <2>1, <2>2
  <2>4. Sum <= 1
    <3>1. Cardinality({1}) = 1
      BY FS_Singleton
    <3>2. QED
      BY <3>1, <1>3, <2>1, <2>2
  <2>5. QED
    BY <1>5, <2>3, <2>4 DEF asked, answered, slots, HasOneRun
<1>6. CASE /\ infl # None /\ in = <<>> /\ pend = infl /\ runn = None
           /\ ~Has(out, "file_done")
  <2>1. asked = {} /\ answered = {}
    BY <1>1, <1>2, <1>6
  <2>2. slots = {"pending"}
    BY <1>6
  <2> HIDE DEF asked, answered, slots
  <2>3. at = {infl}
    BY <1>6, <2>1
  <2>4. Sum <= 1
    <3>1. Cardinality({"pending"}) = 1
      BY FS_Singleton
    <3>2. QED
      BY <3>1, <1>3, <2>1, <2>2
  <2>5. QED
    BY <1>6, <2>3, <2>4 DEF asked, answered, slots, HasOneRun
<1>7. CASE /\ infl # None /\ in = <<>> /\ pend = None /\ runn = infl
           /\ ~Has(out, "file_done")
  <2>1. asked = {} /\ answered = {}
    BY <1>1, <1>2, <1>7
  <2>2. slots = {"running"}
    BY <1>7
  <2> HIDE DEF asked, answered, slots
  <2>3. at = {infl}
    BY <1>7, <2>1
  <2>4. Sum <= 1
    <3>1. Cardinality({"running"}) = 1
      BY FS_Singleton
    <3>2. QED
      BY <3>1, <1>3, <2>1, <2>2
  <2>5. QED
    BY <1>7, <2>3, <2>4 DEF asked, answered, slots, HasOneRun
<1>8. CASE /\ infl # None /\ in = <<>> /\ pend = None /\ runn = None
           /\ Has(out, "file_done")
  <2>1. PICK i \in DOMAIN out : out[i].kind = "file_done"
    BY <1>8 DEF Has
  <2>2. \A j \in DOMAIN out : out[j].kind = "file_done" => j = i
    <3>1. \A j \in DOMAIN out : j \in Int
      OBVIOUS
    <3>2. QED
      BY <2>1, <3>1 DEF OutboxOK
  <2>3. answered = {i} /\ out[i].idx = infl
    BY <2>1, <2>2 DEF OutboxOK
  <2>4. asked = {} /\ slots = {}
    BY <1>2, <1>8
  <2> HIDE DEF asked, answered, slots
  <2>5. at = {infl}
    BY <1>8, <2>3, <2>4
  <2>6. Sum <= 1
    <3>1. Cardinality({i}) = 1
      BY FS_Singleton
    <3>2. QED
      BY <3>1, <1>3, <2>3, <2>4
  <2>7. QED
    BY <1>8, <2>5, <2>6 DEF asked, answered, slots, HasOneRun
<1>9. QED
  BY <1>4, <1>5, <1>6, <1>7, <1>8 DEF LinkOK, BusyOK

\* For any number of files and slots: a worker that lives and can be heard has, on
\* its way to it, in its slot, running or on the way back, the file that the
\* coordinator believes it has, and no other.
THEOREM WorkerHasOneRun == CoordSpec => []OneRunOutstanding
<1>1. CoordInv /\ PipesInv => OneRunOutstanding
  <2> SUFFICES ASSUME CoordInv, PipesInv PROVE OneRunOutstanding
    OBVIOUS
  <2>1. c \in State /\ PipesOK(c)
    BY DEF CoordInv, Inv, PipesInv, Pipes
  <2>2. ASSUME NEW w \in Workers, c.proc[w] \in Living, ~c.ipc_done[w]
        PROVE  /\ OutboxOK(c.outbox[w], c.inflight[w], c.proc[w], c.bailed)
               /\ LinkOK(c.inbox[w], c.outbox[w], c.pending[w], c.running[w], c.inflight[w],
                         c.stop[w], c.proc[w], c.bailed)
               /\ c.inbox[w] \in Seq(Command) /\ c.outbox[w] \in Seq(Frame)
    <3>1. Pipe(c.inbox[w], c.outbox[w], c.pending[w], c.running[w], c.inflight[w], c.stop[w],
               c.proc[w], c.ipc_done[w], c.bailed)
      BY <2>1 DEF PipesOK, PipeOK
    <3>2. c.proc[w] # "none"
      BY <2>2, LivingFacts
    <3>3. c.inbox[w] \in Seq(Command) /\ c.outbox[w] \in Seq(Frame)
      BY <2>1, PipeTypes
    <3>4. QED
      BY <2>2, <3>1, <3>2, <3>3 DEF Pipe
  <2>3. \A w \in Workers : c.proc[w] \in Living /\ ~c.ipc_done[w] =>
          HasOneRun(c.inbox[w], c.outbox[w], c.pending[w], c.running[w], c.inflight[w])
    BY <2>2, OneRun
  <2>4. QED
    BY <2>3, Zenon DEF OneRunOutstanding, HasOneRun
<1>2. QED
  BY <1>1, CoordInvariant, PipesInvariant, PTL

\* For any number of files, slots and faults: a file whose result left the worker
\* is never charged to a crash, and when drive() returns every aggregate that a
\* worker flushed was received.
THEOREM WrittenResultsCount == CoordSpec => []DeliveredResultsCount
<1>1. CoordInv /\ PipesInv => DeliveredResultsCount
  <2> SUFFICES ASSUME CoordInv, PipesInv PROVE DeliveredResultsCount
    OBVIOUS
  <2>1. /\ c \in State /\ PipesOK(c) /\ ResultsOK(c) /\ FlushOK(c) /\ PlacesOK(c)
        /\ SlotsOK(c) /\ (c.phase = "finished" => is_done(c))
    BY DEF CoordInv, Inv, FilesOK, PipesInv, Pipes
  <2>2. c.crashed \in SUBSET Files /\ c.flushed \in Nat /\ c.fragments \in Nat
    BY <2>1 DEF State
  <2>3. ASSUME NEW f \in c.crashed, f \in c.written PROVE FALSE
    <3>1. f \in Files /\ c.counted[f] = 1
      BY <2>1, <2>2 DEF ResultsOK
    <3>2. PICK w \in Workers : Delivered(c, w, f)
      BY <2>1, <2>3 DEF ResultsOK
    <3>3. OutboxOK(c.outbox[w], c.inflight[w], c.proc[w], c.bailed)
      <4>1. Pipe(c.inbox[w], c.outbox[w], c.pending[w], c.running[w], c.inflight[w],
                 c.stop[w], c.proc[w], c.ipc_done[w], c.bailed)
        BY <2>1 DEF PipesOK, PipeOK
      <4>2. c.proc[w] # "none" /\ ~c.ipc_done[w]
        BY <3>2 DEF Delivered
      <4>3. QED
        BY <4>1, <4>2 DEF Pipe
    <3>4. c.inflight[w] = f
      BY <3>2, <3>3 DEF Delivered, OutboxOK
    <3>5. c.counted[f] = 0
      BY <2>1, <3>1, <3>4 DEF PlacesOK, Dispatched
    <3>6. QED
      BY <3>1, <3>5
  <2>4. ASSUME c.phase = "finished" PROVE c.fragments = c.flushed
    <3>1. LiveSlots(c) = {}
      BY <2>1, <2>4, LiveSlotsFinite, FS_EmptySet DEF SlotsOK, is_done
    <3>2. ASSUME NEW w \in Workers PROVE ~Has(c.outbox[w], "aggregates")
      <4>1. c.proc[w] = "none"
        BY <3>1 DEF LiveSlots
      <4>2. Pipe(c.inbox[w], c.outbox[w], c.pending[w], c.running[w], c.inflight[w],
                 c.stop[w], c.proc[w], c.ipc_done[w], c.bailed)
        BY <2>1 DEF PipesOK, PipeOK
      <4>3. QED
        BY <4>1, <4>2 DEF Pipe
    <3>3. Cardinality(Flushing(c)) = 0
      <4>1. Flushing(c) = {}
        BY <3>2 DEF Flushing
      <4>2. QED
        BY <4>1, FS_EmptySet
    <3>4. QED
      BY <2>1, <2>2, <3>3 DEF FlushOK
  <2>5. QED
    BY <2>3, <2>4 DEF DeliveredResultsCount
<1>2. QED
  BY <1>1, CoordInvariant, PipesInvariant, PTL

=============================================================================
