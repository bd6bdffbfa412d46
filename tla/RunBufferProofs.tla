-------------------------- MODULE RunBufferProofs --------------------------
(* The rings of the workers, for any number of workers, any capacity, any   *)
(* width of the indices and any number of nodes.                            *)
EXTENDS RunBuffer, FiniteSetTheorems, TLAPS

-----------------------------------------------------------------------------
(* Remainders *)

LEMMA ModDef ==
  ASSUME NEW a \in Int, NEW c \in Nat \ {0}
  PROVE  /\ a \div c \in Int
         /\ a % c \in 0..c - 1
         /\ a = (a \div c) * c + (a % c)
<1>1. a \div c \in Int
  OBVIOUS
<1>2. a % c \in 0..c - 1
  OBVIOUS
<1>3. a = c * (a \div c) + (a % c)
  OBVIOUS
<1>4. QED
  BY <1>1, <1>2, <1>3

LEMMA ModUnique ==
  ASSUME NEW c \in Nat \ {0}, NEW q \in Int, NEW r \in 0..c - 1
  PROVE  (q * c + r) % c = r
OBVIOUS

\* Whole turns do not matter.
LEMMA ModTurn ==
  ASSUME NEW c \in Nat \ {0}, NEW a \in Int, NEW q \in Int
  PROVE  (a + q * c) % c = a % c
<1> DEFINE p == a \div c
           r == a % c
<1>1. p \in Int /\ r \in 0..c - 1 /\ a = p * c + r
  BY ModDef
<1> HIDE DEF p, r
<1>2. a + q * c = (p + q) * c + r
  BY <1>1
<1>3. p + q \in Int
  BY <1>1
<1>4. QED
  BY <1>1, <1>2, <1>3, ModUnique DEF r

LEMMA ModAdd ==
  ASSUME NEW c \in Nat \ {0}, NEW a \in Int, NEW k \in Int
  PROVE  ((a % c) + k) % c = (a + k) % c
<1> DEFINE p == a \div c
           r == a % c
<1>1. p \in Int /\ r \in 0..c - 1 /\ a = p * c + r
  BY ModDef
<1> HIDE DEF p, r
<1>2. a + k = (r + k) + p * c
  BY <1>1
<1>3. r + k \in Int
  BY <1>1
<1>4. (r + k) % c = (a + k) % c
  BY <1>1, <1>2, <1>3, ModTurn
<1>5. QED
  BY <1>4 DEF r

LEMMA ModMod ==
  ASSUME NEW c \in Nat \ {0}, NEW m \in Nat \ {0}, m % c = 0, NEW a \in Int
  PROVE  (a % m) % c = a % c
<1> DEFINE p == a \div m
           r == a % m
           d == m \div c
<1>1. p \in Int /\ r \in 0..m - 1 /\ a = p * m + r
  BY ModDef
<1>2. d \in Int /\ m = d * c
  <2>1. d \in Int /\ m = d * c + (m % c)
    BY ModDef
  <2>2. QED
    BY <2>1
<1> HIDE DEF p, r, d
<1>3. a = r + (p * d) * c
  BY <1>1, <1>2
<1>4. p * d \in Int /\ r \in Int
  BY <1>1, <1>2
<1>5. a % c = r % c
  BY <1>3, <1>4, ModTurn
<1>6. QED
  BY <1>5 DEF r

\* Within one turn, remainders tell numbers apart.
LEMMA ModInj ==
  ASSUME NEW c \in Nat \ {0}, NEW a \in Int, NEW i \in 0..c - 1, NEW j \in 0..c - 1,
         (a + i) % c = (a + j) % c
  PROVE  i = j
<1> DEFINE p == (a + i) \div c
           q == (a + j) \div c
<1>1. p \in Int /\ a + i = p * c + ((a + i) % c)
  <2>1. a + i \in Int
    OBVIOUS
  <2>2. QED
    BY <2>1, ModDef
<1>2. q \in Int /\ a + j = q * c + ((a + j) % c)
  <2>1. a + j \in Int
    OBVIOUS
  <2>2. QED
    BY <2>1, ModDef
<1> HIDE DEF p, q
<1>3. (a + i) % c \in Int
  BY ModDef
<1>4. i - j = (p - q) * c
  BY <1>1, <1>2, <1>3
<1>5. p - q = 0
  BY <1>1, <1>2, <1>4
<1>6. QED
  BY <1>4, <1>5

-----------------------------------------------------------------------------
(* Indices that wrap *)

Index == 0..Modulus - 1

LEMMA Constants ==
  /\ CAPACITY \in Nat \ {0, 1} /\ Modulus \in Nat \ {0} /\ CAPACITY < Modulus
  /\ MaxNodes \in Nat /\ MaxList \in Nat /\ Start \in Index
BY RingAssumption DEF Index

LEMMA IndexNat == \A i \in Index : i \in Nat /\ i \in Int /\ i < Modulus
BY Constants DEF Index

LEMMA PlusType ==
  ASSUME NEW a \in Int, NEW k \in Int
  PROVE  Plus(a, k) \in Index
<1>1. a + k \in Int
  OBVIOUS
<1>2. QED
  BY <1>1, ModDef, Constants DEF Plus, Index

LEMMA MinusType ==
  ASSUME NEW a \in Int, NEW b \in Int
  PROVE  Minus(a, b) \in Index
<1>1. a - b \in Int
  OBVIOUS
<1>2. QED
  BY <1>1, ModDef, Constants DEF Minus, Index

LEMMA PlusPlus ==
  ASSUME NEW a \in Int, NEW j \in Int, NEW k \in Int
  PROVE  Plus(Plus(a, j), k) = Plus(a, j + k)
<1>1. a + j \in Int /\ (a + j) + k = a + (j + k)
  OBVIOUS
<1>2. (((a + j) % Modulus) + k) % Modulus = ((a + j) + k) % Modulus
  <2> DEFINE x == a + j
  <2>1. x \in Int
    BY <1>1
  <2> HIDE DEF x
  <2>2. ((x % Modulus) + k) % Modulus = (x + k) % Modulus
    BY <2>1, ModAdd, Constants
  <2>3. QED
    BY <2>2 DEF x
<1>3. QED
  BY <1>1, <1>2 DEF Plus

\* The way from one index to another.
LEMMA PlusMinus ==
  ASSUME NEW a \in Index, NEW b \in Index
  PROVE  Plus(a, Minus(b, a)) = b
<1>1. b - a \in Int /\ a \in Int /\ (b - a) + a = b /\ b \in Int
  BY Constants DEF Index
<1>2. (((b - a) % Modulus) + a) % Modulus = b % Modulus
  <2> DEFINE x == b - a
  <2>1. x \in Int /\ x + a = b
    BY <1>1
  <2> HIDE DEF x
  <2>2. ((x % Modulus) + a) % Modulus = (x + a) % Modulus
    BY <1>1, <2>1, ModAdd, Constants
  <2>3. QED
    BY <2>1, <2>2 DEF x
<1>3. b % Modulus = b
  BY Constants DEF Index
<1>4. (b - a) % Modulus \in Int
  BY <1>1, ModDef, Constants
<1>5. a + ((b - a) % Modulus) = ((b - a) % Modulus) + a
  BY <1>1, <1>4
<1>6. QED
  BY <1>2, <1>3, <1>5 DEF Plus, Minus

LEMMA MinusPlus ==
  ASSUME NEW a \in Index, NEW k \in Index
  PROVE  Minus(Plus(a, k), a) = k
<1>1. a + k \in Int /\ -a \in Int /\ a \in Int /\ k \in Int /\ (a + k) + (-a) = k
  BY Constants DEF Index
<1>2. (((a + k) % Modulus) + (-a)) % Modulus = k % Modulus
  <2> DEFINE x == a + k
             y == -a
  <2>1. x \in Int /\ y \in Int /\ x + y = k
    BY <1>1
  <2> HIDE DEF x, y
  <2>2. ((x % Modulus) + y) % Modulus = (x + y) % Modulus
    BY <2>1, ModAdd, Constants
  <2>3. QED
    BY <2>1, <2>2 DEF x, y
<1>3. k % Modulus = k
  BY Constants DEF Index
<1>4. (a + k) % Modulus \in Int
  BY <1>1, ModDef, Constants
<1>5. ((a + k) % Modulus) + (-a) = ((a + k) % Modulus) - a
  BY <1>1, <1>4
<1>6. QED
  BY <1>2, <1>3, <1>5 DEF Plus, Minus

LEMMA MinusZero ==
  ASSUME NEW a \in Index, NEW b \in Index
  PROVE  Minus(b, a) = 0 <=> a = b
<1>1. Plus(a, 0) = a /\ 0 \in Index
  BY Constants DEF Plus, Index
<1>2. ASSUME Minus(b, a) = 0 PROVE a = b
  BY <1>1, <1>2, PlusMinus
<1>3. ASSUME a = b PROVE Minus(b, a) = 0
  BY <1>1, <1>3, MinusPlus
<1>4. QED
  BY <1>2, <1>3

\* The index in front moves.
LEMMA MinusGrows ==
  ASSUME NEW a \in Index, NEW b \in Index, NEW k \in Nat, Minus(b, a) + k < Modulus
  PROVE  Minus(Plus(b, k), a) = Minus(b, a) + k
<1>1. Minus(b, a) \in Index
  BY MinusType DEF Index
<1>2. Minus(b, a) + k \in Index /\ a \in Int /\ Minus(b, a) \in Int
  BY <1>1, Constants DEF Index
<1>3. Plus(b, k) = Plus(a, Minus(b, a) + k)
  BY <1>2, PlusMinus, PlusPlus
<1>4. QED
  BY <1>2, <1>3, MinusPlus

\* The index behind moves.
LEMMA MinusShrinks ==
  ASSUME NEW a \in Index, NEW b \in Index, NEW k \in Nat, k <= Minus(b, a)
  PROVE  Minus(b, Plus(a, k)) = Minus(b, a) - k
<1>1. Minus(b, a) \in Index /\ a \in Int /\ Plus(a, k) \in Index
  BY MinusType, PlusType DEF Index
<1>2. Minus(b, a) - k \in Index /\ Minus(b, a) \in Int
  BY <1>1, Constants DEF Index
<1>3. k + (Minus(b, a) - k) = Minus(b, a)
  BY <1>2
<1>4. Plus(Plus(a, k), Minus(b, a) - k) = b
  BY <1>1, <1>2, <1>3, PlusMinus, PlusPlus DEF Index
<1>5. QED
  BY <1>1, <1>2, <1>4, MinusPlus

LEMMA SlotType ==
  ASSUME NEW a \in Int
  PROVE  a % CAPACITY \in 0..CAPACITY - 1
BY ModDef, Constants

\* The cells of a ring are different slots.
LEMMA SlotInj ==
  ASSUME NEW a \in Index, NEW i \in 0..CAPACITY - 1, NEW j \in 0..CAPACITY - 1,
         Plus(a, i) % CAPACITY = Plus(a, j) % CAPACITY
  PROVE  i = j
<1>1. a \in Int /\ a + i \in Int /\ a + j \in Int
  BY Constants DEF Index
<1>2. Modulus % CAPACITY = 0 /\ CAPACITY \in Nat \ {0} /\ Modulus \in Nat \ {0}
  BY RingAssumption
<1>3. ((a + i) % Modulus) % CAPACITY = (a + i) % CAPACITY
  BY <1>1, <1>2, ModMod
<1>4. ((a + j) % Modulus) % CAPACITY = (a + j) % CAPACITY
  BY <1>1, <1>2, ModMod
<1>5. (a + i) % CAPACITY = (a + j) % CAPACITY
  BY <1>3, <1>4 DEF Plus
<1>6. QED
  BY <1>1, <1>5, ModInj, Constants

-----------------------------------------------------------------------------
(* A ring as its cells, counted from the head *)

Cells == 0..CAPACITY - 1
Indices == [Threads -> Index]
Arrays == [Threads -> [Cells -> Nodes \cup {None}]]

RingOf(hd, arr) == [t \in Threads |-> [i \in Cells |-> arr[t][Plus(hd[t], i) % CAPACITY]]]
SizeOf(hd, tl) == [t \in Threads |-> Minus(tl[t], hd[t])]

LEMMA RingTypes ==
  ASSUME NEW hd \in Indices, NEW tl \in Indices, NEW arr \in Arrays
  PROVE  /\ RingOf(hd, arr) \in Arrays
         /\ SizeOf(hd, tl) \in Indices
<1>1. ASSUME NEW t \in Threads, NEW i \in Cells PROVE Plus(hd[t], i) % CAPACITY \in Cells
  <2>1. hd[t] \in Int /\ i \in Int
    BY IndexNat DEF Indices, Cells
  <2>2. Plus(hd[t], i) \in Int
    BY <2>1, PlusType, IndexNat
  <2>3. QED
    BY <2>2, SlotType DEF Cells
<1>2. ASSUME NEW t \in Threads PROVE Minus(tl[t], hd[t]) \in Index
  <2>1. hd[t] \in Int /\ tl[t] \in Int
    BY IndexNat DEF Indices
  <2>2. QED
    BY <2>1, MinusType
<1>3. QED
  BY <1>1, <1>2 DEF RingOf, SizeOf, Arrays, Indices

\* A slot beyond the tail is a cell beyond the last.
LEMMA TailCell ==
  ASSUME NEW hd \in Indices, NEW tl \in Indices, NEW t \in Threads, NEW k \in Nat
  PROVE  Plus(tl[t], k) = Plus(hd[t], SizeOf(hd, tl)[t] + k)
<1>1. hd[t] \in Index /\ tl[t] \in Index /\ hd[t] \in Int /\ tl[t] \in Int
  BY IndexNat DEF Indices
<1>2. Minus(tl[t], hd[t]) \in Int /\ SizeOf(hd, tl)[t] = Minus(tl[t], hd[t])
  BY <1>1, MinusType, IndexNat DEF SizeOf
<1>3. Plus(Plus(hd[t], Minus(tl[t], hd[t])), k) = Plus(hd[t], Minus(tl[t], hd[t]) + k)
  <2>1. k \in Int
    OBVIOUS
  <2>2. QED
    BY <1>1, <1>2, <2>1, PlusPlus
<1>4. Plus(hd[t], Minus(tl[t], hd[t])) = tl[t]
  BY <1>1, PlusMinus
<1>5. QED
  BY <1>2, <1>3, <1>4

LEMMA CellIs ==
  ASSUME NEW hd \in Indices, NEW arr \in Arrays, NEW t \in Threads, NEW i \in Cells
  PROVE  RingOf(hd, arr)[t][i] = arr[t][Plus(hd[t], i) % CAPACITY]
BY DEF RingOf

Put(ring, t, i, x) == [ring EXCEPT ![t][i] = x]

LEMMA WriteCell ==
  ASSUME NEW hd \in Indices, NEW tl \in Indices, NEW arr \in Arrays, NEW arr2,
         NEW t \in Threads, NEW k \in Nat, NEW x,
         SizeOf(hd, tl)[t] + k < CAPACITY,
         arr2 = Put(arr, t, Plus(tl[t], k) % CAPACITY, x)
  PROVE  RingOf(hd, arr2) = Put(RingOf(hd, arr), t, SizeOf(hd, tl)[t] + k, x)
<1> DEFINE z == SizeOf(hd, tl)[t] + k
           at(u, i) == Plus(hd[u], i) % CAPACITY
<1>1. z \in Cells /\ at(t, z) = Plus(tl[t], k) % CAPACITY
  <2>1. SizeOf(hd, tl)[t] \in Nat
    BY RingTypes, IndexNat DEF Indices
  <2>2. QED
    BY <2>1, TailCell, Constants DEF Cells
<1>2. ASSUME NEW u \in Threads, NEW i \in Cells PROVE at(u, i) \in Cells
  <2>1. hd[u] \in Int /\ i \in Int
    BY IndexNat DEF Indices, Cells
  <2>2. Plus(hd[u], i) \in Int
    BY <2>1, PlusType, IndexNat
  <2>3. QED
    BY <2>2, SlotType DEF Cells
<1>3. \A i \in Cells : at(t, i) = at(t, z) => i = z
  BY <1>1, SlotInj DEF Cells, Indices
<1> HIDE DEF z, at
<1>4. arr2 = [arr EXCEPT ![t] = [arr[t] EXCEPT ![at(t, z)] = x]]
  BY <1>1 DEF Put
<1>5. \A u \in Threads, i \in Cells :
        arr2[u][at(u, i)] = IF u = t /\ i = z THEN x ELSE arr[u][at(u, i)]
  BY <1>1, <1>2, <1>3, <1>4 DEF Arrays
<1>6. RingOf(hd, arr2) = [u \in Threads |-> [i \in Cells |-> arr2[u][at(u, i)]]]
  BY DEF RingOf, at
<1>7. RingOf(hd, arr) = [u \in Threads |-> [i \in Cells |-> arr[u][at(u, i)]]]
  BY DEF RingOf, at
<1>8. RingOf(hd, arr2) = [RingOf(hd, arr) EXCEPT ![t] = [RingOf(hd, arr)[t] EXCEPT ![z] = x]]
  <2> DEFINE R == RingOf(hd, arr)
             Q == [R EXCEPT ![t] = [R[t] EXCEPT ![z] = x]]
  <2>1. R \in [Threads -> [Cells -> Nodes \cup {None}]]
    BY RingTypes DEF Arrays
  <2>2. \A u \in Threads, i \in Cells : R[u][i] = arr[u][at(u, i)]
    BY <1>7
  <2> HIDE DEF R
  <2>3. Q = [u \in Threads |-> [i \in Cells |-> Q[u][i]]]
    BY <2>1
  <2>4. \A u \in Threads, i \in Cells : Q[u][i] = IF u = t /\ i = z THEN x ELSE R[u][i]
    BY <2>1, <1>1
  <2>5. \A u \in Threads, i \in Cells : Q[u][i] = arr2[u][at(u, i)]
    BY <2>2, <2>4, <1>5
  <2> HIDE DEF Q
  <2>6. RingOf(hd, arr2) = Q
    BY <2>3, <2>5, <1>6
  <2>7. QED
    BY <2>6 DEF Q, R
<1>9. QED
  BY <1>8 DEF z, Put

With(f, t, x) == [f EXCEPT ![t] = x]

LEMMA MoveHead ==
  ASSUME NEW hd \in Indices, NEW tl \in Indices, NEW arr \in Arrays, NEW hd2,
         NEW v \in Threads, NEW k \in Nat, k <= SizeOf(hd, tl)[v],
         SizeOf(hd, tl)[v] <= CAPACITY,
         hd2 = With(hd, v, Plus(hd[v], k))
  PROVE  /\ hd2 \in Indices
         /\ SizeOf(hd2, tl) = With(SizeOf(hd, tl), v, SizeOf(hd, tl)[v] - k)
         /\ \A u \in Threads \ {v} : RingOf(hd2, arr)[u] = RingOf(hd, arr)[u]
         /\ \A i \in Cells : i + k \in Cells => RingOf(hd2, arr)[v][i] = RingOf(hd, arr)[v][i + k]
<1>1. hd[v] \in Index /\ hd[v] \in Int /\ tl[v] \in Index /\ k \in Int
  BY Constants DEF Indices, Index
<1>2. Plus(hd[v], k) \in Index
  BY <1>1, PlusType
<1>3. hd2 \in Indices
  BY <1>2 DEF Indices, With
<1>4. SizeOf(hd, tl)[v] = Minus(tl[v], hd[v])
  BY DEF SizeOf
<1>5. Minus(tl[v], Plus(hd[v], k)) = Minus(tl[v], hd[v]) - k
  BY <1>1, <1>4, MinusShrinks
<1>6. SizeOf(hd2, tl) = With(SizeOf(hd, tl), v, SizeOf(hd, tl)[v] - k)
  BY <1>4, <1>5 DEF SizeOf, Indices, With
<1>7. \A u \in Threads \ {v} : RingOf(hd2, arr)[u] = RingOf(hd, arr)[u]
  BY DEF RingOf, Indices, With
<1>8. ASSUME NEW i \in Cells, i + k \in Cells
      PROVE  RingOf(hd2, arr)[v][i] = RingOf(hd, arr)[v][i + k]
  <2>1. i \in Int /\ k + i = i + k
    BY Constants DEF Cells
  <2>2. Plus(Plus(hd[v], k), i) = Plus(hd[v], i + k)
    <3>1. Plus(Plus(hd[v], k), i) = Plus(hd[v], k + i)
      BY <1>1, <2>1, PlusPlus
    <3>2. QED
      BY <2>1, <3>1
  <2>3. hd2[v] = Plus(hd[v], k)
    BY DEF Indices, With
  <2>4. RingOf(hd2, arr)[v][i] = arr[v][Plus(hd2[v], i) % CAPACITY]
    BY <1>3, CellIs
  <2>5. RingOf(hd, arr)[v][i + k] = arr[v][Plus(hd[v], i + k) % CAPACITY]
    BY <1>8, CellIs
  <2>6. QED
    BY <2>2, <2>3, <2>4, <2>5
<1>9. QED
  BY <1>3, <1>6, <1>7, <1>8

LEMMA MoveTail ==
  ASSUME NEW hd \in Indices, NEW tl \in Indices, NEW tl2, NEW t \in Threads, NEW k \in Nat,
         SizeOf(hd, tl)[t] + k <= CAPACITY,
         tl2 = With(tl, t, Plus(tl[t], k))
  PROVE  /\ tl2 \in Indices
         /\ SizeOf(hd, tl2) = With(SizeOf(hd, tl), t, SizeOf(hd, tl)[t] + k)
<1>1. hd[t] \in Index /\ tl[t] \in Index /\ tl[t] \in Int /\ k \in Int
  BY Constants DEF Indices, Index
<1>2. SizeOf(hd, tl)[t] = Minus(tl[t], hd[t])
  BY DEF SizeOf
<1>3. Minus(tl[t], hd[t]) + k < Modulus
  <2>1. Minus(tl[t], hd[t]) \in Int
    BY <1>1, MinusType, IndexNat
  <2>2. QED
    BY <2>1, <1>2, Constants
<1>4. Minus(Plus(tl[t], k), hd[t]) = Minus(tl[t], hd[t]) + k
  BY <1>1, <1>3, MinusGrows
<1>5. Plus(tl[t], k) \in Index
  BY <1>1, PlusType
<1>6. QED
  BY <1>2, <1>4, <1>5 DEF SizeOf, Indices, With

-----------------------------------------------------------------------------
(* Nodes in one place.  ring and len are the filled cells of each worker's   *)
(* ring, lst the lists that are still to be written; nodes from next on have *)
(* not been brought, those in out have left.                                 *)

Filled(len, t) == 0..len[t] - 1

Known(ring, len, lst, next, out) ==
  /\ \A t \in Threads : \A i \in Filled(len, t) : ring[t][i] \in (1..next - 1) \ out
  /\ \A t \in Threads : \A i \in DOMAIN lst[t] : lst[t][i] \in (1..next - 1) \ out
  /\ out \subseteq 1..next - 1

Apart(ring, len, lst) ==
  /\ \A t, u \in Threads : \A i \in Filled(len, t), j \in Filled(len, u) :
       ring[t][i] = ring[u][j] => t = u /\ i = j
  /\ \A t, u \in Threads : \A i \in DOMAIN lst[t], j \in DOMAIN lst[u] :
       lst[t][i] = lst[u][j] => t = u /\ i = j
  /\ \A t, u \in Threads : \A i \in Filled(len, t), j \in DOMAIN lst[u] : ring[t][i] # lst[u][j]

OnePlace(ring, len, lst, next, out) ==
  Known(ring, len, lst, next, out) /\ Apart(ring, len, lst)

Lens == [Threads -> 0..CAPACITY]
Lists == [Threads -> Seq(Nodes)]

\* push() and consume() bring nodes that nobody has.
LEMMA BringApart ==
  ASSUME NEW ring, NEW len, NEW lst \in Lists, NEW next \in Nat \ {0}, NEW out,
         OnePlace(ring, len, lst, next, out),
         NEW t \in Threads, NEW k \in Nat, lst[t] = <<>>,
         NEW lst2, lst2 = [lst EXCEPT ![t] = [i \in 1..k |-> next + i - 1]]
  PROVE  OnePlace(ring, len, lst2, next + k, out)
<1>1. \A u \in Threads \ {t} : lst2[u] = lst[u]
  BY DEF Lists
<1>2. lst2[t] = [i \in 1..k |-> next + i - 1]
  BY DEF Lists
<1>3. \A i \in DOMAIN lst2[t] : i \in 1..k /\ lst2[t][i] = next + i - 1
  BY <1>2
<1>4. \A x \in 1..next - 1 : x \in 1..next + k - 1 /\ \A i \in DOMAIN lst2[t] : lst2[t][i] # x
  BY <1>3
<1>5. Known(ring, len, lst2, next + k, out)
  <2>1. \A i \in DOMAIN lst2[t] : lst2[t][i] \in (1..next + k - 1) \ out
    BY <1>3, <1>4 DEF OnePlace, Known
  <2>2. QED
    BY <1>1, <1>4, <2>1 DEF OnePlace, Known
<1>6. Apart(ring, len, lst2)
  <2>1. \A u \in Threads \ {t} : \A i \in DOMAIN lst2[u] : lst2[u][i] \in 1..next - 1
    BY <1>1 DEF OnePlace, Known
  <2>2. \A u, v \in Threads : \A i \in DOMAIN lst2[u], j \in DOMAIN lst2[v] :
          lst2[u][i] = lst2[v][j] => u = v /\ i = j
    <3> SUFFICES ASSUME NEW u \in Threads, NEW v \in Threads,
                        NEW i \in DOMAIN lst2[u], NEW j \in DOMAIN lst2[v],
                        lst2[u][i] = lst2[v][j]
                 PROVE  u = v /\ i = j
      OBVIOUS
    <3>1. CASE u = t /\ v = t
      BY <1>3, <3>1
    <3>2. CASE u = t /\ v # t
      BY <1>4, <2>1, <3>2
    <3>3. CASE u # t /\ v = t
      BY <1>4, <2>1, <3>3
    <3>4. CASE u # t /\ v # t
      BY <1>1, <3>4 DEF OnePlace, Apart
    <3>5. QED
      BY <3>1, <3>2, <3>3, <3>4
  <2>3. \A u, v \in Threads : \A i \in Filled(len, u), j \in DOMAIN lst2[v] :
          ring[u][i] # lst2[v][j]
    BY <1>1, <1>4 DEF OnePlace, Known, Apart
  <2>4. QED
    BY <2>2, <2>3 DEF OnePlace, Apart
<1>7. QED
  BY <1>5, <1>6 DEF OnePlace

\* The first node of a list is written behind the last cell.
LEMMA WriteApart ==
  ASSUME NEW ring \in Arrays, NEW len \in Lens, NEW lst \in Lists, NEW next, NEW out,
         OnePlace(ring, len, lst, next, out),
         NEW t \in Threads, lst[t] # <<>>, len[t] < CAPACITY,
         NEW ring2, ring2 = [ring EXCEPT ![t][len[t]] = Head(lst[t])],
         NEW len2, len2 = [len EXCEPT ![t] = @ + 1],
         NEW lst2, lst2 = [lst EXCEPT ![t] = Tail(@)]
  PROVE  OnePlace(ring2, len2, lst2, next, out)
<1>1. /\ lst[t] \in Seq(Nodes) /\ Len(lst[t]) \in Nat \ {0}
      /\ Head(lst[t]) = lst[t][1] /\ 1 \in DOMAIN lst[t]
      /\ DOMAIN lst2[t] = 1..Len(lst[t]) - 1
      /\ \A i \in DOMAIN lst2[t] : i \in Nat /\ i > 0 /\ i + 1 \in DOMAIN lst[t]
                                   /\ lst2[t][i] = lst[t][i + 1]
  BY DEF Lists
<1>2. \A u \in Threads \ {t} : lst2[u] = lst[u] /\ len2[u] = len[u] /\ ring2[u] = ring[u]
  BY DEF Lists, Lens, Arrays
<1>3. len[t] \in Nat /\ len2[t] = len[t] + 1
  BY Constants DEF Lens
<1>4. \A i \in Filled(len2, t) : i \in Filled(len, t) \/ i = len[t]
  BY <1>3 DEF Filled
<1>5. /\ len[t] \in Cells /\ ring2[t][len[t]] = lst[t][1]
      /\ \A i \in Filled(len, t) : i # len[t] /\ ring2[t][i] = ring[t][i]
  <2>1. len[t] \in Cells
    BY <1>3, Constants DEF Cells
  <2>2. ring[t] \in [Cells -> Nodes \cup {None}]
    BY DEF Arrays
  <2>3. ring2[t] = [ring[t] EXCEPT ![len[t]] = lst[t][1]]
    BY <1>1 DEF Arrays
  <2>4. \A i \in Filled(len, t) : i \in Cells /\ i # len[t]
    BY <1>3, Constants DEF Cells, Filled
  <2>5. QED
    BY <2>1, <2>2, <2>3, <2>4
<1>6. \A u \in Threads \ {t} : Filled(len2, u) = Filled(len, u)
  BY <1>2 DEF Filled
<1>7. Known(ring2, len2, lst2, next, out)
  <2>1. lst[t][1] \in (1..next - 1) \ out
    BY <1>1 DEF OnePlace, Known
  <2>2. ASSUME NEW u \in Threads, NEW i \in Filled(len2, u)
        PROVE  ring2[u][i] \in (1..next - 1) \ out
    <3>1. CASE u = t /\ i = len[t]
      BY <1>5, <2>1, <3>1
    <3>2. CASE i \in Filled(len, u) /\ ring2[u][i] = ring[u][i]
      BY <3>2 DEF OnePlace, Known
    <3>3. QED
      BY <1>2, <1>4, <1>5, <1>6, <3>1, <3>2
  <2>3. ASSUME NEW u \in Threads, NEW i \in DOMAIN lst2[u]
        PROVE  lst2[u][i] \in (1..next - 1) \ out
    BY <1>1, <1>2 DEF OnePlace, Known
  <2>4. QED
    BY <2>2, <2>3 DEF OnePlace, Known
<1>8. Apart(ring2, len2, lst2)
  <2>1. \A u \in Threads : \A i \in Filled(len2, u) :
          \/ i \in Filled(len, u) /\ ring2[u][i] = ring[u][i]
          \/ u = t /\ i = len[t] /\ ring2[u][i] = lst[t][1]
    BY <1>2, <1>4, <1>5, <1>6
  <2>2. \A u \in Threads : \A i \in DOMAIN lst2[u] :
          \/ u # t /\ i \in DOMAIN lst[u] /\ lst2[u][i] = lst[u][i]
          \/ u = t /\ i \in Nat /\ i > 0 /\ i + 1 \in DOMAIN lst[t] /\ lst2[u][i] = lst[t][i + 1]
    BY <1>1, <1>2
  <2>3. ASSUME NEW u \in Threads, NEW v \in Threads,
               NEW i \in Filled(len2, u), NEW j \in Filled(len2, v), ring2[u][i] = ring2[v][j]
        PROVE  u = v /\ i = j
    <3>1. CASE i \in Filled(len, u) /\ ring2[u][i] = ring[u][i]
      <4>1. CASE j \in Filled(len, v) /\ ring2[v][j] = ring[v][j]
        BY <2>3, <3>1, <4>1 DEF OnePlace, Apart
      <4>2. CASE ring2[v][j] = lst[t][1]
        BY <1>1, <2>3, <3>1, <4>2 DEF OnePlace, Apart
      <4>3. QED
        BY <2>1, <4>1, <4>2
    <3>2. CASE u = t /\ i = len[t] /\ ring2[u][i] = lst[t][1]
      <4>1. CASE j \in Filled(len, v) /\ ring2[v][j] = ring[v][j]
        BY <1>1, <2>3, <3>2, <4>1 DEF OnePlace, Apart
      <4>2. CASE v = t /\ j = len[t]
        BY <3>2, <4>2
      <4>3. QED
        BY <2>1, <4>1, <4>2
    <3>3. QED
      BY <2>1, <3>1, <3>2
  <2>4. ASSUME NEW u \in Threads, NEW v \in Threads,
               NEW i \in DOMAIN lst2[u], NEW j \in DOMAIN lst2[v], lst2[u][i] = lst2[v][j]
        PROVE  u = v /\ i = j
    <3>1. CASE u = t /\ v = t
      <4>1. i + 1 = j + 1
        BY <2>2, <2>4, <3>1 DEF OnePlace, Apart
      <4>2. QED
        BY <2>2, <3>1, <4>1
    <3>2. CASE u # t \/ v # t
      BY <2>2, <2>4, <3>2 DEF OnePlace, Apart
    <3>3. QED
      BY <3>1, <3>2
  <2>5. ASSUME NEW u \in Threads, NEW v \in Threads,
               NEW i \in Filled(len2, u), NEW j \in DOMAIN lst2[v], ring2[u][i] = lst2[v][j]
        PROVE  FALSE
    <3>1. CASE i \in Filled(len, u) /\ ring2[u][i] = ring[u][i]
      BY <2>2, <2>5, <3>1 DEF OnePlace, Apart
    <3>2. CASE ring2[u][i] = lst[t][1]
      <4>1. CASE v # t
        BY <1>1, <2>2, <2>5, <3>2, <4>1 DEF OnePlace, Apart
      <4>2. CASE v = t
        <5>1. 1 = j + 1
          BY <1>1, <2>2, <2>5, <3>2, <4>2 DEF OnePlace, Apart
        <5>2. QED
          BY <2>2, <4>2, <5>1
      <4>3. QED
        BY <4>1, <4>2
    <3>3. QED
      BY <2>1, <3>1, <3>2
  <2>6. \A u, v \in Threads : \A i \in Filled(len2, u), j \in Filled(len2, v) :
          ring2[u][i] = ring2[v][j] => u = v /\ i = j
    BY <2>3
  <2>7. \A u, v \in Threads : \A i \in DOMAIN lst2[u], j \in DOMAIN lst2[v] :
          lst2[u][i] = lst2[v][j] => u = v /\ i = j
    BY <2>4
  <2>8. \A u, v \in Threads : \A i \in Filled(len2, u), j \in DOMAIN lst2[v] :
          ring2[u][i] # lst2[v][j]
    BY <2>5
  <2>9. QED
    BY <2>6, <2>7, <2>8 DEF Apart
<1>9. QED
  BY <1>7, <1>8 DEF OnePlace

\* Every other step moves nodes, lets them go, or both.  The i-th cell of u now
\* holds what was in the cell off[u] further on in the ring of from[u].
Moved(ring, len, ring2, len2, from, off) ==
  \A u \in Threads : \A i \in Filled(len2, u) :
    i + off[u] \in Filled(len, from[u]) /\ ring2[u][i] = ring[from[u]][i + off[u]]

MovedApart(len2, from, off) ==
  \A u, v \in Threads : \A i \in Filled(len2, u), j \in Filled(len2, v) :
    from[u] = from[v] /\ i + off[u] = j + off[v] => u = v

LeftRing(x, ring, len, len2, from, off) ==
  \E v \in Threads : \E j \in Filled(len, v) :
    /\ x = ring[v][j]
    /\ \A u \in Threads : \A i \in Filled(len2, u) : from[u] = v => i + off[u] # j

LeftList(x, lst, lst2) ==
  \E v \in Threads : \E j \in DOMAIN lst[v] : x = lst[v][j] /\ lst2[v] = <<>>

Dropped(lst, lst2) == \A u \in Threads : lst2[u] = lst[u] \/ lst2[u] = <<>>

Leaves(out2, ring, len, lst, out, len2, lst2, from, off) ==
  \A x \in out2 : x \in out \/ LeftRing(x, ring, len, len2, from, off) \/ LeftList(x, lst, lst2)

LEMMA MoveApart ==
  ASSUME NEW ring, NEW len, NEW lst, NEW next, NEW out,
         OnePlace(ring, len, lst, next, out),
         NEW ring2, NEW len2 \in [Threads -> Int], NEW lst2, NEW out2,
         NEW from \in [Threads -> Threads], NEW off \in [Threads -> Nat],
         Moved(ring, len, ring2, len2, from, off),
         MovedApart(len2, from, off),
         Dropped(lst, lst2), Leaves(out2, ring, len, lst, out, len2, lst2, from, off)
  PROVE  OnePlace(ring2, len2, lst2, next, out2)
<1>1. \A u \in Threads : \A i \in Filled(len2, u) : i \in Int
  BY DEF Filled
<1>2. \A u \in Threads : \A i \in DOMAIN lst2[u] : i \in DOMAIN lst[u] /\ lst2[u][i] = lst[u][i]
  <2> SUFFICES ASSUME NEW u \in Threads, NEW i \in DOMAIN lst2[u]
               PROVE  i \in DOMAIN lst[u] /\ lst2[u][i] = lst[u][i]
    OBVIOUS
  <2>1. lst2[u] # <<>>
    OBVIOUS
  <2>2. lst2[u] = lst[u]
    BY <2>1 DEF Dropped
  <2>3. QED
    BY <2>2
<1>3. \A u, v \in Threads : \A i \in Filled(len2, u), j \in Filled(len2, v) :
        ring2[u][i] = ring2[v][j] => u = v /\ i = j
  <2> SUFFICES ASSUME NEW u \in Threads, NEW v \in Threads,
                      NEW i \in Filled(len2, u), NEW j \in Filled(len2, v),
                      ring2[u][i] = ring2[v][j]
               PROVE  u = v /\ i = j
    OBVIOUS
  <2>1. from[u] = from[v] /\ i + off[u] = j + off[v]
    BY DEF OnePlace, Apart, Moved
  <2>2. u = v
    BY <2>1 DEF MovedApart
  <2>3. i \in Int /\ j \in Int /\ off[u] \in Int
    BY <1>1
  <2>4. QED
    BY <2>1, <2>2, <2>3
<1>4. \A u, v \in Threads : \A i \in DOMAIN lst2[u], j \in DOMAIN lst2[v] :
        lst2[u][i] = lst2[v][j] => u = v /\ i = j
  <2> SUFFICES ASSUME NEW u \in Threads, NEW v \in Threads,
                      NEW i \in DOMAIN lst2[u], NEW j \in DOMAIN lst2[v],
                      lst2[u][i] = lst2[v][j]
               PROVE  u = v /\ i = j
    OBVIOUS
  <2>1. /\ i \in DOMAIN lst[u] /\ lst2[u][i] = lst[u][i]
        /\ j \in DOMAIN lst[v] /\ lst2[v][j] = lst[v][j]
    BY <1>2
  <2>2. lst[u][i] = lst[v][j]
    BY <2>1
  <2>3. \A t, w \in Threads : \A k \in DOMAIN lst[t], l \in DOMAIN lst[w] :
          lst[t][k] = lst[w][l] => t = w /\ k = l
    BY DEF OnePlace, Apart
  <2>4. QED
    BY <2>1, <2>2, <2>3
<1>5. \A u, v \in Threads : \A i \in Filled(len2, u), j \in DOMAIN lst2[v] :
        ring2[u][i] # lst2[v][j]
  <2> SUFFICES ASSUME NEW u \in Threads, NEW v \in Threads,
                      NEW i \in Filled(len2, u), NEW j \in DOMAIN lst2[v],
                      ring2[u][i] = lst2[v][j]
               PROVE  FALSE
    OBVIOUS
  <2>1. /\ from[u] \in Threads /\ i + off[u] \in Filled(len, from[u])
        /\ ring2[u][i] = ring[from[u]][i + off[u]]
    BY DEF Moved
  <2>2. j \in DOMAIN lst[v] /\ lst2[v][j] = lst[v][j]
    BY <1>2
  <2>3. ring[from[u]][i + off[u]] = lst[v][j]
    BY <2>1, <2>2
  <2>4. QED
    BY <2>1, <2>2, <2>3 DEF OnePlace, Apart
<1>6. \A u \in Threads : \A i \in Filled(len2, u) : ring2[u][i] \in (1..next - 1) \ out2
  <2> SUFFICES ASSUME NEW u \in Threads, NEW i \in Filled(len2, u)
               PROVE  ring2[u][i] \in (1..next - 1) \ out2
    OBVIOUS
  <2> DEFINE x == ring2[u][i]
  <2>1. from[u] \in Threads /\ i + off[u] \in Filled(len, from[u]) /\ x = ring[from[u]][i + off[u]]
    BY DEF Moved
  <2>2. x \in (1..next - 1) \ out
    BY <2>1 DEF OnePlace, Known
  <2>3. ASSUME NEW v \in Threads, NEW j \in Filled(len, v), x = ring[v][j] PROVE v = from[u] /\ j = i + off[u]
    <3>1. ring[v][j] = ring[from[u]][i + off[u]]
      BY <2>1, <2>3
    <3>2. QED
      BY <2>1, <3>1 DEF OnePlace, Apart
  <2>4. ASSUME NEW v \in Threads, NEW j \in DOMAIN lst[v] PROVE x # lst[v][j]
    BY <2>1 DEF OnePlace, Apart
  <2> HIDE DEF x
  <2>5. ASSUME x \in out2 PROVE FALSE
    <3>1. CASE x \in out
      BY <2>2, <3>1
    <3>2. ASSUME NEW v \in Threads, NEW j \in Filled(len, v), x = ring[v][j],
                 \A w \in Threads : \A k \in Filled(len2, w) : from[w] = v => k + off[w] # j
          PROVE  FALSE
      <4>1. v = from[u] /\ j = i + off[u]
        BY <2>3, <3>2
      <4>2. QED
        BY <3>2, <4>1
    <3>3. ASSUME NEW v \in Threads, NEW j \in DOMAIN lst[v], x = lst[v][j] PROVE FALSE
      BY <2>4, <3>3
    <3>4. x \in out \/ LeftRing(x, ring, len, len2, from, off) \/ LeftList(x, lst, lst2)
      BY <2>5 DEF Leaves
    <3>5. QED
      BY <3>1, <3>2, <3>3, <3>4 DEF LeftRing, LeftList
  <2>6. QED
    BY <2>2, <2>5 DEF x
<1>7. \A u \in Threads : \A i \in DOMAIN lst2[u] : lst2[u][i] \in (1..next - 1) \ out2
  <2> SUFFICES ASSUME NEW u \in Threads, NEW i \in DOMAIN lst2[u]
               PROVE  lst2[u][i] \in (1..next - 1) \ out2
    OBVIOUS
  <2> DEFINE x == lst2[u][i]
  <2>1. i \in DOMAIN lst[u] /\ x = lst[u][i] /\ lst2[u] # <<>>
    BY <1>2
  <2>2. x \in (1..next - 1) \ out
    BY <2>1 DEF OnePlace, Known
  <2>3. ASSUME NEW v \in Threads, NEW j \in Filled(len, v) PROVE x # ring[v][j]
    BY <2>1 DEF OnePlace, Apart
  <2>4. ASSUME NEW v \in Threads, NEW j \in DOMAIN lst[v], x = lst[v][j] PROVE v = u
    BY <2>1, <2>4 DEF OnePlace, Apart
  <2> HIDE DEF x
  <2>5. ASSUME x \in out2 PROVE FALSE
    <3>1. CASE x \in out
      BY <2>2, <3>1
    <3>2. ASSUME NEW v \in Threads, NEW j \in Filled(len, v), x = ring[v][j] PROVE FALSE
      BY <2>3, <3>2
    <3>3. ASSUME NEW v \in Threads, NEW j \in DOMAIN lst[v], x = lst[v][j], lst2[v] = <<>>
          PROVE  FALSE
      BY <2>1, <2>4, <3>3
    <3>4. x \in out \/ LeftRing(x, ring, len, len2, from, off) \/ LeftList(x, lst, lst2)
      BY <2>5 DEF Leaves
    <3>5. QED
      BY <3>1, <3>2, <3>3, <3>4 DEF LeftRing, LeftList
  <2>6. QED
    BY <2>2, <2>5 DEF x
<1>8. out2 \subseteq 1..next - 1
  <2> SUFFICES ASSUME NEW x \in out2 PROVE x \in 1..next - 1
    OBVIOUS
  <2>1. CASE x \in out
    BY <2>1 DEF OnePlace, Known
  <2>2. ASSUME NEW v \in Threads, NEW j \in Filled(len, v), x = ring[v][j]
        PROVE  x \in 1..next - 1
    BY <2>2 DEF OnePlace, Known
  <2>3. ASSUME NEW v \in Threads, NEW j \in DOMAIN lst[v], x = lst[v][j]
        PROVE  x \in 1..next - 1
    BY <2>3 DEF OnePlace, Known
  <2>4. QED
    BY <2>1, <2>2, <2>3 DEF Leaves, LeftRing, LeftList
<1>9. QED
  BY <1>3, <1>4, <1>5, <1>6, <1>7, <1>8 DEF OnePlace, Known, Apart

-----------------------------------------------------------------------------
(* The inductive invariant.  In a ring come first the nodes that are         *)
(* visible, then those that its owner has written and not yet published.     *)

rings == RingOf(head, array)
sizes == SizeOf(head, tail)

Writing == {"push", "consume", "publish"}
SpanOf(sz, p, m) == [t \in Threads |-> sz[t] + (IF p[t] \in Writing THEN m[t] ELSE 0)]
spans == SpanOf(sizes, pc, n)

\* The owner knows a head that may be out of date, and then there is more room
\* than it believes; who steals or consumes has an empty ring.
Empties == {"consume", "stealHead", "stealTail", "copy", "publish"}
OwnerOK(t) ==
  /\ spans[t] <= CAPACITY
  /\ pc[t] \in Empties => sizes[t] = 0
  /\ pc[t] = "push" => sizes[t] <= Minus(tail[t], h[t]) /\ Size(t) <= CAPACITY
  /\ pc[t] = "pop" => sizes[t] <= Minus(tail[t], h[t]) /\ Minus(tail[t], h[t]) \in 1..CAPACITY

\* What the locals are at each point of the code.
LocalsOK(t) ==
  /\ pc[t] \notin {"push", "pushHead", "consume"} => list[t] = <<>>
  /\ pc[t] \in {"idle", "pushHead", "pop", "stealHead", "stealTail"} => n[t] = 0
  /\ pc[t] = "consume" => n[t] + Len(list[t]) \in 1..CAPACITY + 1
  /\ pc[t] \in {"copy", "publish"} => n[t] > 0
  /\ pc[t] \notin {"copy", "publish"} => copied[t] = 0
  /\ pc[t] = "copy" => copied[t] <= n[t]
  /\ pc[t] \in {"stealHead", "stealTail", "copy", "publish"} => victim[t] \in Threads \ {t}

\* As long as the head of the victim is the one that the thief has loaded, what
\* the thief has copied is what it will take.
ThiefOK(t) ==
  pc[t] = "copy" /\ head[victim[t]] = h[t] =>
    /\ n[t] <= sizes[victim[t]] - sizes[victim[t]] \div 2
    /\ \A i \in 0..copied[t] - 1 : rings[t][i] = rings[victim[t]][i]

NodesOK == OnePlace(rings, spans, list, fresh, gone)

RingInv ==
  /\ RingTypeOK
  /\ \A t \in Threads : OwnerOK(t) /\ LocalsOK(t) /\ ThiefOK(t)
  /\ NodesOK

LEMMA StateTypes ==
  ASSUME RingTypeOK
  PROVE  /\ head \in Indices /\ tail \in Indices /\ h \in Indices /\ array \in Arrays
         /\ rings \in Arrays /\ sizes \in Indices
         /\ \A t \in Threads : /\ sizes[t] \in Nat /\ n[t] \in Nat /\ copied[t] \in Nat
                               /\ sizes[t] = Minus(tail[t], head[t])
                               /\ Minus(tail[t], h[t]) \in Nat
                               /\ head[t] \in Index /\ tail[t] \in Index /\ h[t] \in Index
         /\ \A t, u \in Threads : Minus(head[t], h[u]) \in Nat /\ Minus(tail[t], h[u]) \in Nat
         /\ list \in Lists /\ fresh \in Nat \ {0} /\ spans \in [Threads -> Nat]
<1>1. /\ head \in Indices /\ tail \in Indices /\ h \in Indices /\ array \in Arrays
      /\ list \in Lists /\ fresh \in Nat \ {0}
  BY Constants DEF RingTypeOK, Indices, Index, Arrays, Cells, Lists
<1>2. rings \in Arrays /\ sizes \in Indices
  BY <1>1, RingTypes DEF rings, sizes
<1>3. \A t \in Threads : sizes[t] \in Nat /\ head[t] \in Index /\ tail[t] \in Index /\ h[t] \in Index
                         /\ sizes[t] = Minus(tail[t], head[t])
  BY <1>1, <1>2, IndexNat DEF Indices, sizes, SizeOf
<1>4. \A t \in Threads : n[t] \in Nat /\ copied[t] \in Nat
  BY Constants DEF RingTypeOK
<1>5. ASSUME NEW i \in Index, NEW j \in Index PROVE Minus(i, j) \in Nat
  <2>1. i \in Int /\ j \in Int
    BY IndexNat
  <2>2. QED
    BY <2>1, MinusType, IndexNat
<1>6. spans \in [Threads -> Nat]
  BY <1>3, <1>4 DEF spans, SpanOf
<1>7. QED
  BY <1>1, <1>2, <1>3, <1>4, <1>5, <1>6

LEMMA NextTypes ==
  ASSUME RingTypeOK'
  PROVE  /\ head' \in Indices /\ tail' \in Indices /\ array' \in Arrays
         /\ \A t \in Threads : sizes'[t] \in Nat /\ sizes'[t] = Minus(tail'[t], head'[t])
<1>1. head' \in Indices /\ tail' \in Indices /\ array' \in Arrays
  BY Constants DEF RingTypeOK, Indices, Index, Arrays, Cells
<1>2. SizeOf(head', tail') \in Indices
  BY <1>1, RingTypes
<1>3. QED
  BY <1>1, <1>2, IndexNat DEF Indices, sizes, SizeOf

\* What a step of t leaves alone, and what it may do to a ring.
Frame(t) ==
  \A u \in Threads \ {t} :
    /\ pc'[u] = pc[u] /\ h'[u] = h[u] /\ n'[u] = n[u] /\ copied'[u] = copied[u]
    /\ victim'[u] = victim[u] /\ list'[u] = list[u]
    /\ tail'[u] = tail[u] /\ array'[u] = array[u]

Keeps(v) ==
  /\ head'[v] = head[v] /\ sizes'[v] >= sizes[v]
  /\ \A i \in 0..sizes[v] - 1 : rings'[v][i] = rings[v][i]

Moves(v) ==
  \E k \in 1..sizes[v] :
    NoLap(v, k) /\ head'[v] = Plus(head[v], k) /\ sizes'[v] = sizes[v] - k

\* The others do not notice, or find that a head has moved.
LEMMA OthersOK ==
  ASSUME RingInv, RingTypeOK', NEW t \in Threads, Frame(t),
         \A v \in Threads : Keeps(v) \/ Moves(v),
         NEW u \in Threads \ {t}
  PROVE  OwnerOK(u)' /\ LocalsOK(u)' /\ ThiefOK(u)'
<1> USE DEF RingInv
<1>1. /\ pc'[u] = pc[u] /\ h'[u] = h[u] /\ n'[u] = n[u] /\ copied'[u] = copied[u]
      /\ victim'[u] = victim[u] /\ list'[u] = list[u]
      /\ tail'[u] = tail[u] /\ array'[u] = array[u]
  BY DEF Frame
<1>2. /\ sizes[u] = Minus(tail[u], head[u]) /\ sizes'[u] = Minus(tail'[u], head'[u])
      /\ sizes[u] \in Nat /\ sizes'[u] \in Nat /\ n[u] \in Nat
      /\ Minus(tail[u], h[u]) \in Nat
  <2>1. sizes'[u] \in Nat /\ sizes'[u] = Minus(tail'[u], head'[u])
    BY NextTypes
  <2>2. QED
    BY <2>1, StateTypes
<1>3. sizes'[u] <= sizes[u] /\ (sizes[u] = 0 => head'[u] = head[u])
  <2>1. CASE Keeps(u)
    BY <1>1, <1>2, <2>1 DEF Keeps
  <2>2. CASE Moves(u)
    BY <1>2, <2>2 DEF Moves
  <2>3. QED
    BY <2>1, <2>2
<1>4. OwnerOK(u) /\ LocalsOK(u) /\ ThiefOK(u)
  OBVIOUS
<1>5. OwnerOK(u)'
  <2>1. spans[u] = sizes[u] + (IF pc[u] \in Writing THEN n[u] ELSE 0)
    BY DEF spans, SpanOf
  <2>2. spans'[u] = sizes'[u] + (IF pc'[u] \in Writing THEN n'[u] ELSE 0)
    BY DEF spans, SpanOf
  <2>3. spans'[u] <= CAPACITY
    BY <1>1, <1>2, <1>3, <1>4, <2>1, <2>2, Constants DEF OwnerOK
  <2>4. QED
    BY <1>1, <1>2, <1>3, <1>4, <2>3, Constants DEF OwnerOK, Size
<1>6. LocalsOK(u)'
  BY <1>1, <1>4 DEF LocalsOK
<1>7. ThiefOK(u)'
  <2> SUFFICES ASSUME pc[u] = "copy", head'[victim[u]] = h[u]
               PROVE  /\ n[u] <= sizes'[victim[u]] - sizes'[victim[u]] \div 2
                      /\ \A i \in 0..copied[u] - 1 : rings'[u][i] = rings'[victim[u]][i]
    BY <1>1 DEF ThiefOK
  <2> DEFINE v == victim[u]
  <2>1. v \in Threads \ {u} /\ sizes[v] \in Nat /\ h[u] \in Index /\ head[v] \in Index
        /\ Minus(head[v], h[u]) \in Nat /\ copied[u] \in Nat /\ copied[u] <= n[u]
    BY <1>4, StateTypes DEF LocalsOK
  <2>2. ~ Moves(v)
    <3> SUFFICES ASSUME NEW k \in 1..sizes[v], NoLap(v, k), head'[v] = Plus(head[v], k)
                 PROVE  FALSE
      BY DEF Moves
    <3>1. Minus(head[v], h[u]) + k < Modulus
      BY DEF NoLap
    <3>2. Minus(head'[v], h[u]) = Minus(head[v], h[u]) + k
      BY <2>1, <3>1, MinusGrows
    <3>3. Minus(head'[v], h[u]) = 0
      BY <2>1, MinusZero
    <3>4. QED
      BY <2>1, <3>2, <3>3
  <2>3. Keeps(v)
    BY <2>1, <2>2
  <2>4. head[v] = h[u]
    BY <2>3 DEF Keeps
  <2>5. /\ n[u] <= sizes[v] - sizes[v] \div 2
        /\ \A i \in 0..copied[u] - 1 : rings[u][i] = rings[v][i]
    BY <1>4, <2>4 DEF ThiefOK
  <2>6. rings'[u] = rings[u]
    <3>1. sizes[u] = 0
      BY <1>4 DEF OwnerOK, Empties
    <3>2. head'[u] = head[u]
      BY <3>1, <1>3
    <3>3. QED
      BY <1>1, <3>2 DEF rings, RingOf
  <2>7. sizes'[v] \in Nat
    BY <2>1, NextTypes
  <2>8. n[u] <= sizes'[v] - sizes'[v] \div 2
    BY <1>2, <2>1, <2>3, <2>5, <2>7 DEF Keeps
  <2>9. ASSUME NEW i \in 0..copied[u] - 1 PROVE rings'[u][i] = rings'[v][i]
    <3>1. i \in 0..sizes[v] - 1
      BY <1>2, <2>1, <2>5
    <3>2. QED
      BY <2>3, <2>5, <2>6, <3>1 DEF Keeps
  <2>10. QED
    BY <2>8, <2>9
<1>8. QED
  BY <1>5, <1>6, <1>7

LEMMA StepOK ==
  ASSUME RingInv, RingTypeOK', NEW t \in Threads, Frame(t),
         \A v \in Threads : Keeps(v) \/ Moves(v),
         OwnerOK(t)', LocalsOK(t)', ThiefOK(t)', NodesOK'
  PROVE  RingInv'
<1>1. \A u \in Threads \ {t} : OwnerOK(u)' /\ LocalsOK(u)' /\ ThiefOK(u)'
  BY OthersOK
<1>2. \A u \in Threads : OwnerOK(u)' /\ LocalsOK(u)' /\ ThiefOK(u)'
  BY <1>1
<1>3. QED
  BY <1>2 DEF RingInv


-----------------------------------------------------------------------------
(* Steps that leave the rings alone *)

LEMMA SpanIs ==
  ASSUME RingTypeOK, NEW u \in Threads
  PROVE  /\ spans[u] = sizes[u] + (IF pc[u] \in Writing THEN n[u] ELSE 0)
         /\ spans'[u] = sizes'[u] + (IF pc'[u] \in Writing THEN n'[u] ELSE 0)
BY DEF spans, SpanOf

LEMMA QuietRings ==
  ASSUME RingTypeOK, UNCHANGED <<head, tail, array>>
  PROVE  rings' = rings /\ sizes' = sizes /\ \A v \in Threads : Keeps(v)
<1>1. rings' = rings /\ sizes' = sizes
  BY DEF rings, sizes
<1>2. \A v \in Threads : sizes[v] \in Nat
  BY StateTypes
<1>3. QED
  BY <1>1, <1>2 DEF Keeps

LEMMA SpanFrame ==
  ASSUME RingTypeOK, RingTypeOK', NEW t \in Threads, Frame(t), sizes' = sizes,
         spans'[t] = spans[t]
  PROVE  spans' = spans
<1>1. \A u \in Threads : spans'[u] = spans[u]
  <2> SUFFICES ASSUME NEW u \in Threads \ {t} PROVE spans'[u] = spans[u]
    OBVIOUS
  <2>1. pc'[u] = pc[u] /\ n'[u] = n[u]
    BY DEF Frame
  <2>2. QED
    BY <2>1, SpanIs
<1>2. spans = [u \in Threads |-> spans[u]] /\ spans' = [u \in Threads |-> spans'[u]]
  BY DEF spans, SpanOf
<1>3. QED
  BY <1>1, <1>2

\* Nothing that the pool can see changes.
Quiet ==
  /\ sizes' = sizes /\ spans' = spans /\ list' = list /\ gone' = gone
  /\ \A u \in Threads : \A i \in Filled(spans, u) : rings'[u][i] = rings[u][i]

LEMMA QuietStep ==
  ASSUME RingInv, RingTypeOK', NEW t \in Threads, Frame(t),
         UNCHANGED <<head, tail, array, list, fresh, gone>>,
         spans'[t] = spans[t],
         OwnerOK(t)', LocalsOK(t)', ThiefOK(t)'
  PROVE  RingInv' /\ Quiet
<1>1. RingTypeOK
  BY DEF RingInv
<1>2. rings' = rings /\ sizes' = sizes /\ \A v \in Threads : Keeps(v)
  BY <1>1, QuietRings
<1>3. spans' = spans
  BY <1>1, <1>2, SpanFrame
<1>4. NodesOK'
  BY <1>2, <1>3 DEF RingInv, NodesOK
<1>5. Quiet
  BY <1>2, <1>3 DEF Quiet
<1>6. QED
  BY <1>2, <1>4, <1>5, StepOK

\* What is known of the worker that takes the step.
LEMMA Own ==
  ASSUME RingInv, NEW t \in Threads
  PROVE  /\ RingTypeOK /\ OwnerOK(t) /\ LocalsOK(t) /\ ThiefOK(t) /\ NodesOK
         /\ sizes[t] = Minus(tail[t], head[t]) /\ sizes[t] \in Nat
         /\ n[t] \in Nat /\ copied[t] \in Nat /\ Minus(tail[t], h[t]) \in Nat
         /\ head[t] \in Index /\ tail[t] \in Index /\ h[t] \in Index
         /\ (sizes[t] = 0 <=> head[t] = tail[t])
<1>1. RingTypeOK /\ OwnerOK(t) /\ LocalsOK(t) /\ ThiefOK(t) /\ NodesOK
  BY DEF RingInv
<1>2. /\ sizes[t] = Minus(tail[t], head[t]) /\ sizes[t] \in Nat
      /\ n[t] \in Nat /\ copied[t] \in Nat /\ Minus(tail[t], h[t]) \in Nat
      /\ head[t] \in Index /\ tail[t] \in Index /\ h[t] \in Index
  BY <1>1, StateTypes
<1>3. sizes[t] = 0 <=> head[t] = tail[t]
  BY <1>2, MinusZero
<1>4. QED
  BY <1>1, <1>2, <1>3

LEMMA PushHeadStep ==
  ASSUME RingInv, NEW t \in Threads, PushHead(t)
  PROVE  RingInv' /\ Quiet
<1>1. RingTypeOK'
  BY DEF RingInv, RingTypeOK, PushHead, Go
<1>2. Frame(t)
  BY DEF RingInv, RingTypeOK, PushHead, Go, Frame
<1>3. /\ pc[t] = "pushHead" /\ pc'[t] = "push" /\ h'[t] = head[t]
      /\ UNCHANGED <<head, tail, array, n, copied, victim, list, fresh, gone>>
  BY DEF RingInv, RingTypeOK, PushHead, Go
<1>4. n[t] = 0 /\ copied[t] = 0 /\ sizes' = sizes
  BY <1>3, Own, QuietRings DEF LocalsOK
<1>5. spans'[t] = spans[t] /\ spans[t] = sizes[t]
  BY <1>3, <1>4, Own, SpanIs DEF Writing
<1>6. OwnerOK(t)'
  BY <1>3, <1>4, <1>5, Own DEF OwnerOK, Size, Empties
<1>7. LocalsOK(t)' /\ ThiefOK(t)'
  BY <1>3, <1>4, Own DEF LocalsOK, ThiefOK
<1>8. QED
  BY <1>1, <1>2, <1>3, <1>5, <1>6, <1>7, QuietStep

\* The worker is back at its caller.
LEMMA DoneFacts ==
  ASSUME RingTypeOK, NEW t \in Threads, Done(t)
  PROVE  /\ pc'[t] = "idle" /\ n'[t] = 0 /\ copied'[t] = 0 /\ list'[t] = <<>>
         /\ \A u \in Threads \ {t} : /\ pc'[u] = pc[u] /\ h'[u] = h[u] /\ n'[u] = n[u]
                                     /\ copied'[u] = copied[u] /\ victim'[u] = victim[u]
                                     /\ list'[u] = list[u]
         /\ pc' \in [Threads -> {"idle", "push", "pushHead", "pop", "consume", "stealHead",
                                 "stealTail", "copy", "publish"}]
         /\ h' \in [Threads -> 0..Modulus - 1]
         /\ n' \in [Threads -> 0..CAPACITY]
         /\ copied' \in [Threads -> 0..CAPACITY]
         /\ victim' \in [Threads -> Threads \cup {None}]
         /\ list' \in [Threads -> Seq(Nodes)]
         /\ list[t] = <<>> => list' = list
<1>1. <<>> \in Seq(Nodes) /\ Start \in 0..Modulus - 1 /\ 0 \in 0..CAPACITY
  BY Constants DEF Index
<1>2. QED
  BY <1>1 DEF RingTypeOK, Done, Go

LEMMA IdleOK ==
  ASSUME RingTypeOK', NEW t \in Threads,
         pc'[t] = "idle", n'[t] = 0, copied'[t] = 0, list'[t] = <<>>, sizes'[t] <= CAPACITY
  PROVE  /\ OwnerOK(t)' /\ LocalsOK(t)' /\ ThiefOK(t)'
         /\ spans'[t] = sizes'[t]
<1>1. spans'[t] = sizes'[t]
  <2>1. sizes'[t] \in Nat
    BY NextTypes
  <2>2. spans'[t] = sizes'[t] + (IF pc'[t] \in Writing THEN n'[t] ELSE 0)
    BY DEF spans, SpanOf
  <2>3. QED
    BY <2>1, <2>2 DEF Writing
<1>2. OwnerOK(t)'
  BY <1>1 DEF OwnerOK, Empties
<1>3. LocalsOK(t)' /\ ThiefOK(t)'
  BY DEF LocalsOK, ThiefOK
<1>4. QED
  BY <1>1, <1>2, <1>3

LEMMA MigrateFailsStep ==
  ASSUME RingInv, NEW t \in Threads, MigrateFails(t)
  PROVE  RingInv' /\ Quiet
<1>1. RingTypeOK'
  BY DEF RingInv, RingTypeOK, MigrateFails
<1>2. Frame(t)
  BY DEF RingInv, RingTypeOK, MigrateFails, Frame
<1>3. /\ pc[t] = "push" /\ n[t] = 0 /\ h'[t] = head[t]
      /\ UNCHANGED <<head, tail, array, pc, n, copied, victim, list, fresh, gone>>
  BY DEF RingInv, RingTypeOK, MigrateFails, Full
<1>4. sizes' = sizes
  BY <1>3, Own, QuietRings
<1>5. spans'[t] = spans[t] /\ spans[t] = sizes[t]
  BY <1>3, <1>4, Own, SpanIs DEF Writing
<1>6. OwnerOK(t)'
  BY <1>3, <1>4, <1>5, Own DEF OwnerOK, Size, Empties
<1>7. LocalsOK(t)' /\ ThiefOK(t)'
  BY <1>3, Own DEF LocalsOK, ThiefOK
<1>8. QED
  BY <1>1, <1>2, <1>3, <1>5, <1>6, <1>7, QuietStep

LEMMA PopStep ==
  ASSUME RingInv, NEW t \in Threads, Pop(t)
  PROVE  RingInv' /\ Quiet
<1>1. RingTypeOK'
  BY DEF RingInv, RingTypeOK, Pop, Go
<1>2. Frame(t)
  BY DEF RingInv, RingTypeOK, Pop, Go, Frame
<1>3. /\ pc[t] = "idle" /\ pc'[t] = "pop" /\ h'[t] = head[t] /\ tail[t] # head[t]
      /\ UNCHANGED <<head, tail, array, n, copied, victim, list, fresh, gone>>
  BY DEF RingInv, RingTypeOK, Pop, Go
<1>4. sizes' = sizes
  BY <1>3, Own, QuietRings
<1>5. spans'[t] = spans[t] /\ spans[t] = sizes[t]
  BY <1>3, <1>4, Own, SpanIs DEF Writing
<1>6. OwnerOK(t)'
  BY <1>3, <1>4, <1>5, Own DEF OwnerOK, Empties
<1>7. LocalsOK(t)' /\ ThiefOK(t)'
  BY <1>3, Own DEF LocalsOK, ThiefOK
<1>8. QED
  BY <1>1, <1>2, <1>3, <1>5, <1>6, <1>7, QuietStep

LEMMA PopFailsStep ==
  ASSUME RingInv, NEW t \in Threads, PopFails(t)
  PROVE  RingInv' /\ Quiet
<1>1. /\ pc[t] = "pop" /\ UNCHANGED <<head, tail, array, fresh, gone>>
      /\ sizes' = sizes /\ sizes[t] <= CAPACITY /\ list[t] = <<>> /\ n[t] = 0
  BY Own, QuietRings, Constants DEF PopFails, OwnerOK, LocalsOK
<1>2. CASE tail[t] = head[t]
  <2>1. Done(t)
    BY <1>2 DEF PopFails
  <2>2. RingTypeOK'
    BY <1>1, <2>1, DoneFacts DEF RingInv, RingTypeOK
  <2>3. Frame(t)
    BY <1>1, <2>1, DoneFacts DEF RingInv, Frame
  <2>4. list' = list
    BY <1>1, <2>1, Own, DoneFacts
  <2>5. /\ OwnerOK(t)' /\ LocalsOK(t)' /\ ThiefOK(t)'
        /\ spans'[t] = sizes'[t]
    BY <1>1, <2>1, <2>2, Own, DoneFacts, IdleOK
  <2>6. spans'[t] = spans[t]
    BY <1>1, <2>5, Own, SpanIs DEF Writing
  <2>7. QED
    BY <1>1, <2>2, <2>3, <2>4, <2>5, <2>6, QuietStep
<1>3. CASE tail[t] # head[t]
  <2>1. UNCHANGED <<pc, n, copied, victim, list>> /\ h' = [h EXCEPT ![t] = head[t]]
    BY <1>3 DEF PopFails
  <2>2. RingTypeOK'
    BY <1>1, <2>1 DEF RingInv, RingTypeOK
  <2>3. Frame(t) /\ h'[t] = head[t]
    BY <1>1, <2>1 DEF RingInv, RingTypeOK, Frame
  <2>4. spans'[t] = spans[t]
    BY <1>1, <2>1, Own, SpanIs
  <2>5. OwnerOK(t)'
    BY <1>1, <1>3, <2>1, <2>3, <2>4, Own DEF OwnerOK, Empties
  <2>6. LocalsOK(t)' /\ ThiefOK(t)'
    BY <1>1, <2>1, Own DEF LocalsOK, ThiefOK
  <2>7. QED
    BY <1>1, <2>1, <2>2, <2>3, <2>4, <2>5, <2>6, QuietStep
<1>4. QED
  BY <1>2, <1>3

LEMMA StealStep ==
  ASSUME RingInv, NEW t \in Threads, NEW v \in Threads \ {t}, Steal(t, v)
  PROVE  RingInv' /\ Quiet
<1>1. RingTypeOK'
  BY DEF RingInv, RingTypeOK, Steal, Go
<1>2. Frame(t)
  BY DEF RingInv, RingTypeOK, Steal, Go, Frame
<1>3. /\ pc[t] = "idle" /\ pc'[t] = "stealTail" /\ victim'[t] = v /\ tail[t] = head[t]
      /\ UNCHANGED <<head, tail, array, n, copied, list, fresh, gone>>
  BY DEF RingInv, RingTypeOK, Steal, Go
<1>4. sizes' = sizes
  BY <1>3, Own, QuietRings
<1>5. spans'[t] = spans[t]
  BY <1>3, <1>4, Own, SpanIs DEF Writing
<1>6. OwnerOK(t)'
  BY <1>3, <1>4, <1>5, Own DEF OwnerOK, Empties
<1>7. LocalsOK(t)' /\ ThiefOK(t)'
  BY <1>3, Own DEF LocalsOK, ThiefOK
<1>8. QED
  BY <1>1, <1>2, <1>3, <1>5, <1>6, <1>7, QuietStep

LEMMA StealHeadStep ==
  ASSUME RingInv, NEW t \in Threads, StealHead(t)
  PROVE  RingInv' /\ Quiet
<1>1. pc[t] = "stealHead" /\ victim[t] \in Threads \ {t}
  BY Own DEF StealHead, LocalsOK
<1>2. RingTypeOK'
  BY <1>1 DEF RingInv, RingTypeOK, StealHead, Go
<1>3. Frame(t)
  BY DEF RingInv, RingTypeOK, StealHead, Go, Frame
<1>4. /\ pc'[t] = "stealTail"
      /\ UNCHANGED <<head, tail, array, n, copied, victim, list, fresh, gone>>
  BY DEF RingInv, RingTypeOK, StealHead, Go
<1>5. sizes' = sizes
  BY <1>4, Own, QuietRings
<1>6. spans'[t] = spans[t]
  BY <1>1, <1>4, <1>5, Own, SpanIs DEF Writing
<1>7. OwnerOK(t)'
  BY <1>1, <1>4, <1>5, <1>6, Own DEF OwnerOK, Empties
<1>8. LocalsOK(t)' /\ ThiefOK(t)'
  BY <1>1, <1>4, Own DEF LocalsOK, ThiefOK
<1>9. QED
  BY <1>2, <1>3, <1>4, <1>6, <1>7, <1>8, QuietStep

LEMMA StealFailsStep ==
  ASSUME RingInv, NEW t \in Threads, StealFails(t)
  PROVE  RingInv' /\ Quiet
<1>1. RingTypeOK'
  BY Constants DEF RingInv, RingTypeOK, StealFails, Go
<1>2. Frame(t)
  BY DEF RingInv, RingTypeOK, StealFails, Go, Frame
<1>3. /\ pc[t] = "copy" /\ pc'[t] = "stealHead" /\ n'[t] = 0 /\ copied'[t] = 0
      /\ UNCHANGED <<head, tail, array, h, victim, list, fresh, gone>>
  BY DEF RingInv, RingTypeOK, StealFails, Go
<1>4. sizes' = sizes
  BY <1>3, Own, QuietRings
<1>5. spans'[t] = spans[t]
  BY <1>3, <1>4, Own, SpanIs DEF Writing
<1>6. OwnerOK(t)'
  BY <1>3, <1>4, <1>5, Own DEF OwnerOK, Empties
<1>7. LocalsOK(t)' /\ ThiefOK(t)'
  BY <1>3, Own DEF LocalsOK, ThiefOK
<1>8. QED
  BY <1>1, <1>2, <1>3, <1>5, <1>6, <1>7, QuietStep

LEMMA HalfOf ==
  ASSUME NEW k \in 1..CAPACITY
  PROVE  k - (k \div 2) \in 1..CAPACITY /\ k - (k \div 2) <= k
<1>1. k \div 2 \in 0..k - 1
  BY Constants
<1>2. QED
  BY <1>1, Constants

LEMMA StealTailStep ==
  ASSUME RingInv, NEW t \in Threads, StealTail(t)
  PROVE  RingInv' /\ Quiet
<1> DEFINE v == victim[t]
           size == Minus(tail[v], h[t])
<1>1. /\ pc[t] = "stealTail" /\ v \in Threads \ {t} /\ n[t] = 0 /\ copied[t] = 0
      /\ list[t] = <<>> /\ sizes[t] = 0
      /\ UNCHANGED <<head, tail, array, fresh, gone>> /\ sizes' = sizes
  BY Own, QuietRings DEF StealTail, LocalsOK, OwnerOK, Empties
<1>2. CASE size > CAPACITY /\ Go(t, "stealHead") /\ UNCHANGED <<h, n, copied, victim, list>>
  <2>1. RingTypeOK'
    BY <1>1, <1>2 DEF RingInv, RingTypeOK, Go
  <2>2. Frame(t) /\ pc'[t] = "stealHead"
    BY <1>1, <1>2 DEF RingInv, RingTypeOK, Go, Frame
  <2>3. spans'[t] = spans[t]
    BY <1>1, <1>2, <2>2, Own, SpanIs DEF Writing
  <2>4. OwnerOK(t)'
    BY <1>1, <1>2, <2>2, <2>3, Own DEF OwnerOK, Empties
  <2>5. LocalsOK(t)' /\ ThiefOK(t)'
    BY <1>1, <1>2, <2>2, Own DEF LocalsOK, ThiefOK
  <2>6. QED
    BY <1>1, <1>2, <2>1, <2>2, <2>3, <2>4, <2>5, QuietStep
<1>3. CASE size = 0 /\ Done(t)
  <2>1. RingTypeOK'
    BY <1>1, <1>3, DoneFacts DEF RingInv, RingTypeOK
  <2>2. Frame(t)
    BY <1>1, <1>3, DoneFacts DEF RingInv, Frame
  <2>3. list' = list
    BY <1>1, <1>3, Own, DoneFacts
  <2>4. /\ OwnerOK(t)' /\ LocalsOK(t)' /\ ThiefOK(t)'
        /\ spans'[t] = sizes'[t]
    BY <1>1, <1>3, <2>1, Own, DoneFacts, IdleOK, Constants
  <2>5. spans'[t] = spans[t]
    <3>1. spans[t] = sizes[t] + (IF pc[t] \in Writing THEN n[t] ELSE 0)
      BY Own, SpanIs
    <3>2. pc[t] \notin Writing
      BY <1>1 DEF Writing
    <3>3. QED
      BY <1>1, <2>4, <3>1, <3>2
  <2>6. QED
    BY <1>1, <2>1, <2>2, <2>3, <2>4, <2>5, QuietStep
<1>4. CASE /\ size \in 1..CAPACITY
           /\ n' = [n EXCEPT ![t] = size - size \div 2]
           /\ Go(t, "copy")
           /\ UNCHANGED <<h, copied, victim, list>>
  <2>1. size - (size \div 2) \in 1..CAPACITY
    BY <1>4, HalfOf
  <2>2. RingTypeOK'
    <3> DEFINE half == size - size \div 2
    <3>1. half \in 0..CAPACITY /\ n' = [n EXCEPT ![t] = half]
      BY <1>4, <2>1, Constants
    <3> HIDE DEF half
    <3>2. n' \in [Threads -> 0..CAPACITY]
      BY <3>1 DEF RingInv, RingTypeOK
    <3>3. QED
      BY <1>1, <1>4, <3>2 DEF RingInv, RingTypeOK, Go
  <2>3. Frame(t) /\ pc'[t] = "copy" /\ n'[t] = size - (size \div 2)
    BY <1>1, <1>4 DEF RingInv, RingTypeOK, Go, Frame
  <2>4. spans'[t] = spans[t]
    BY <1>1, <2>3, Own, SpanIs DEF Writing
  <2>5. OwnerOK(t)'
    BY <1>1, <2>3, <2>4, Own DEF OwnerOK, Empties
  <2>6. LocalsOK(t)'
    BY <1>1, <1>4, <2>1, <2>3, Own DEF LocalsOK
  <2>7. ThiefOK(t)'
    <3>1. sizes[v] = Minus(tail[v], head[v])
      BY <1>1, Own
    <3>2. QED
      BY <1>1, <1>4, <2>3, <3>1 DEF ThiefOK
  <2>8. QED
    BY <1>1, <1>4, <2>2, <2>3, <2>4, <2>5, <2>6, <2>7, QuietStep
<1>5. QED
  BY <1>2, <1>3, <1>4 DEF StealTail

LEMMA BringFacts ==
  ASSUME RingTypeOK, NEW t \in Threads, NEW k \in Nat \ {0}, Bring(t, k)
  PROVE  /\ list' \in [Threads -> Seq(Nodes)] /\ fresh' \in 1..MaxNodes + 1
         /\ list'[t] = [i \in 1..k |-> fresh + i - 1] /\ Len(list'[t]) = k
         /\ \A u \in Threads \ {t} : list'[u] = list[u]
<1> DEFINE new == [i \in 1..k |-> fresh + i - 1]
<1>1. fresh \in Nat \ {0} /\ fresh + k <= MaxNodes + 1 /\ fresh' = fresh + k
  BY Constants DEF RingTypeOK, Bring
<1>2. \A i \in 1..k : fresh + i - 1 \in Nodes
  BY <1>1, Constants DEF Nodes
<1>3. new \in Seq(Nodes) /\ Len(new) = k
  BY <1>2
<1>4. list' = [list EXCEPT ![t] = new]
  BY DEF Bring
<1> HIDE DEF new
<1>5. list' \in [Threads -> Seq(Nodes)] /\ list'[t] = new
      /\ \A u \in Threads \ {t} : list'[u] = list[u]
  BY <1>3, <1>4 DEF RingTypeOK
<1>6. fresh' \in 1..MaxNodes + 1
  BY <1>1, Constants
<1>7. QED
  BY <1>3, <1>5, <1>6 DEF new

Brings(t, k) ==
  /\ Bring(t, k) /\ Frame(t) /\ list[t] = <<>> /\ spans[t] = sizes[t]
  /\ rings' = rings /\ sizes' = sizes /\ spans' = spans /\ gone' = gone

LEMMA BringStep ==
  ASSUME RingInv, RingTypeOK', NEW t \in Threads, Frame(t), NEW k \in Nat \ {0},
         Bring(t, k), list[t] = <<>>,
         UNCHANGED <<head, tail, array, gone>>,
         spans'[t] = spans[t], spans[t] = sizes[t],
         OwnerOK(t)', LocalsOK(t)', ThiefOK(t)'
  PROVE  RingInv' /\ Brings(t, k)
<1>1. RingTypeOK
  BY DEF RingInv
<1>2. rings' = rings /\ sizes' = sizes /\ \A v \in Threads : Keeps(v)
  BY <1>1, QuietRings
<1>3. spans' = spans
  BY <1>1, <1>2, SpanFrame
<1>4. NodesOK'
  <2>1. OnePlace(rings, spans, list, fresh, gone)
    BY DEF RingInv, NodesOK
  <2>2. list \in Lists /\ fresh \in Nat \ {0} /\ k \in Nat
    BY <1>1, StateTypes
  <2>3. list' = [list EXCEPT ![t] = [i \in 1..k |-> fresh + i - 1]] /\ fresh' = fresh + k
    BY DEF Bring
  <2>4. OnePlace(rings, spans, list', fresh + k, gone)
    BY <2>1, <2>2, <2>3, BringApart
  <2>5. QED
    BY <1>2, <1>3, <2>3, <2>4 DEF NodesOK
<1>5. Brings(t, k)
  BY <1>2, <1>3 DEF Brings
<1>6. QED
  BY <1>2, <1>4, <1>5, StepOK

LEMMA PushStep ==
  ASSUME RingInv, NEW t \in Threads, NEW k \in 1..MaxList, Push(t, k)
  PROVE  RingInv' /\ Brings(t, k)
<1>1. k \in Nat \ {0} /\ Bring(t, k) /\ RingTypeOK
  BY Constants DEF Push, RingInv
<1>2. RingTypeOK'
  BY <1>1, BringFacts DEF RingTypeOK, Push, Go
<1>3. /\ pc[t] = "idle" /\ pc'[t] = "push" /\ h'[t] = head[t]
      /\ UNCHANGED <<head, tail, array, n, copied, victim, gone>>
  BY DEF RingInv, RingTypeOK, Push, Go
<1>4. Frame(t)
  BY <1>1, BringFacts DEF RingTypeOK, Push, Go, Frame
<1>5. list[t] = <<>> /\ n[t] = 0 /\ copied[t] = 0 /\ sizes' = sizes
  BY <1>3, Own, QuietRings DEF LocalsOK
<1>6. spans'[t] = spans[t] /\ spans[t] = sizes[t]
  BY <1>3, <1>5, Own, SpanIs DEF Writing
<1>7. OwnerOK(t)'
  BY <1>3, <1>5, <1>6, Own DEF OwnerOK, Size, Empties
<1>8. LocalsOK(t)' /\ ThiefOK(t)'
  BY <1>3, <1>5, Own DEF LocalsOK, ThiefOK
<1>9. QED
  BY <1>1, <1>2, <1>3, <1>4, <1>5, <1>6, <1>7, <1>8, BringStep

LEMMA ConsumeStep ==
  ASSUME RingInv, NEW t \in Threads, NEW k \in 1..CAPACITY + 1, Consume(t, k)
  PROVE  RingInv' /\ Brings(t, k)
<1>1. k \in Nat \ {0} /\ Bring(t, k) /\ RingTypeOK
  BY Constants DEF Consume, RingInv
<1>2. RingTypeOK'
  BY <1>1, BringFacts DEF RingTypeOK, Consume, Go
<1>3. /\ pc[t] = "idle" /\ pc'[t] = "consume" /\ head[t] = tail[t]
      /\ UNCHANGED <<head, tail, array, h, n, copied, victim, gone>>
  BY DEF RingInv, RingTypeOK, Consume, Go
<1>4. Frame(t)
  BY <1>1, BringFacts DEF RingTypeOK, Consume, Go, Frame
<1>5. list[t] = <<>> /\ n[t] = 0 /\ copied[t] = 0 /\ sizes' = sizes
  BY <1>3, Own, QuietRings DEF LocalsOK
<1>6. spans'[t] = spans[t] /\ spans[t] = sizes[t]
  BY <1>3, <1>5, Own, SpanIs DEF Writing
<1>7. OwnerOK(t)'
  BY <1>3, <1>5, <1>6, Own DEF OwnerOK, Empties
<1>8. LocalsOK(t)' /\ ThiefOK(t)'
  <2>1. Len(list'[t]) = k
    BY <1>1, BringFacts
  <2>2. QED
    BY <1>3, <1>5, <2>1, Own, Constants DEF LocalsOK, ThiefOK
<1>9. QED
  BY <1>1, <1>2, <1>3, <1>4, <1>5, <1>6, <1>7, <1>8, BringStep

-----------------------------------------------------------------------------
(* Steps that write a cell *)

WriteNext(t) ==
  /\ list[t] # <<>>
  /\ array' = [array EXCEPT ![t][Plus(tail[t], n[t]) % CAPACITY] = Head(list[t])]
  /\ n' = [n EXCEPT ![t] = @ + 1]
  /\ list' = [list EXCEPT ![t] = Tail(@)]
  /\ UNCHANGED <<head, tail, pc, h, copied, victim, fresh, gone>>

LEMMA SpansType ==
  ASSUME RingInv
  PROVE  spans \in Lens /\ spans \in [Threads -> Nat]
<1>1. spans \in [Threads -> Nat]
  BY StateTypes DEF RingInv
<1>2. \A t \in Threads : spans[t] <= CAPACITY
  BY DEF RingInv, OwnerOK
<1>3. QED
  BY <1>1, <1>2, Constants DEF Lens

LEMMA WriteFacts ==
  ASSUME RingInv, NEW t \in Threads, WriteNext(t), pc[t] \in {"push", "consume"},
         spans[t] < CAPACITY
  PROVE  /\ rings' = [rings EXCEPT ![t][spans[t]] = Head(list[t])]
         /\ sizes' = sizes /\ spans' = [spans EXCEPT ![t] = @ + 1]
         /\ spans[t] = sizes[t] + n[t]
<1>1. /\ RingTypeOK /\ n[t] \in Nat /\ sizes[t] \in Nat
      /\ head \in Indices /\ tail \in Indices /\ array \in Arrays
      /\ n \in [Threads -> Nat] /\ spans \in [Threads -> Nat]
  BY Own, StateTypes, SpansType, Constants DEF RingTypeOK
<1>2. spans[t] = sizes[t] + n[t]
  BY <1>1, SpanIs DEF Writing
<1>3. SizeOf(head, tail)[t] + n[t] < CAPACITY
  BY <1>2 DEF sizes
<1>4. RingOf(head, array') = Put(RingOf(head, array), t, SizeOf(head, tail)[t] + n[t], Head(list[t]))
  <2>1. array' = Put(array, t, Plus(tail[t], n[t]) % CAPACITY, Head(list[t]))
    BY DEF WriteNext, Put
  <2>2. QED
    BY <1>1, <1>3, <2>1, WriteCell
<1>5. rings' = [rings EXCEPT ![t][spans[t]] = Head(list[t])]
  BY <1>2, <1>4 DEF WriteNext, rings, sizes, Put
<1>6. sizes' = sizes
  BY DEF WriteNext, sizes
<1>7. \A u \in Threads : spans'[u] = [spans EXCEPT ![t] = @ + 1][u]
  <2>1. spans'[t] = spans[t] + 1
    BY <1>1, <1>2, <1>6, SpanIs DEF WriteNext, Writing
  <2>2. \A u \in Threads \ {t} : spans'[u] = spans[u]
    BY <1>1, <1>6, SpanIs DEF WriteNext
  <2>3. QED
    BY <1>1, <2>1, <2>2
<1>8. spans' = [spans EXCEPT ![t] = @ + 1]
  <2>1. spans' = [u \in Threads |-> spans'[u]]
    BY DEF spans, SpanOf
  <2>2. QED
    BY <1>1, <1>7, <2>1
<1>9. QED
  BY <1>2, <1>5, <1>6, <1>8

LEMMA HeadIsNode ==
  ASSUME NEW s \in Seq(Nodes), s # <<>>
  PROVE  Head(s) \in Nodes /\ Tail(s) \in Seq(Nodes) /\ Len(Tail(s)) = Len(s) - 1 /\ Len(s) \in Nat
OBVIOUS

LEMMA WriteTypes ==
  ASSUME RingTypeOK, NEW t \in Threads, WriteNext(t), n[t] < CAPACITY
  PROVE  /\ RingTypeOK' /\ Frame(t)
         /\ n'[t] = n[t] + 1 /\ list'[t] = Tail(list[t])
<1>1. Head(list[t]) \in Nodes /\ Tail(list[t]) \in Seq(Nodes)
  BY HeadIsNode DEF RingTypeOK, WriteNext
<1>2. Plus(tail[t], n[t]) % CAPACITY \in 0..CAPACITY - 1
  <2>1. tail[t] \in Int /\ n[t] \in Int
    BY StateTypes, IndexNat
  <2>2. Plus(tail[t], n[t]) \in Int
    BY <2>1, PlusType, IndexNat
  <2>3. QED
    BY <2>2, SlotType
<1>3. array' \in [Threads -> [0..CAPACITY - 1 -> Nodes \cup {None}]]
      /\ \A u \in Threads \ {t} : array'[u] = array[u]
  BY <1>1, <1>2 DEF RingTypeOK, WriteNext
<1>4. n' \in [Threads -> 0..CAPACITY] /\ n'[t] = n[t] + 1
      /\ \A u \in Threads \ {t} : n'[u] = n[u]
  BY Constants DEF RingTypeOK, WriteNext
<1>5. list' \in [Threads -> Seq(Nodes)] /\ list'[t] = Tail(list[t])
      /\ \A u \in Threads \ {t} : list'[u] = list[u]
  BY <1>1 DEF RingTypeOK, WriteNext
<1>6. RingTypeOK'
  BY <1>3, <1>4, <1>5 DEF RingTypeOK, WriteNext
<1>7. Frame(t)
  BY <1>3, <1>4, <1>5 DEF Frame, WriteNext
<1>8. QED
  BY <1>4, <1>5, <1>6, <1>7

LEMMA WriteStep ==
  ASSUME RingInv, NEW t \in Threads, WriteNext(t), pc[t] \in {"push", "consume"},
         spans[t] < CAPACITY, OwnerOK(t)', LocalsOK(t)'
  PROVE  RingInv'
<1>1. /\ rings' = [rings EXCEPT ![t][spans[t]] = Head(list[t])]
      /\ sizes' = sizes /\ spans' = [spans EXCEPT ![t] = @ + 1]
      /\ spans[t] = sizes[t] + n[t]
  BY WriteFacts
<1>2. /\ RingTypeOK /\ rings \in Arrays /\ spans \in Lens /\ list \in Lists
      /\ n[t] \in Nat /\ sizes \in [Threads -> Nat]
  BY Own, StateTypes, SpansType, IndexNat DEF Indices
<1>3. n[t] < CAPACITY
  BY <1>1, <1>2, Constants
<1>4. RingTypeOK' /\ Frame(t)
  BY <1>2, <1>3, WriteTypes
<1>5. NodesOK'
  <2>1. OnePlace(rings, spans, list, fresh, gone)
    BY DEF RingInv, NodesOK
  <2>2. list[t] # <<>> /\ list' = [list EXCEPT ![t] = Tail(@)] /\ UNCHANGED <<fresh, gone>>
    BY DEF WriteNext
  <2>3. OnePlace(rings', spans', list', fresh, gone)
    BY <1>1, <1>2, <2>1, <2>2, WriteApart
  <2>4. QED
    BY <2>2, <2>3 DEF NodesOK
<1>6. ASSUME NEW v \in Threads PROVE Keeps(v)
  <2>1. \A i \in 0..sizes[v] - 1 : rings'[v][i] = rings[v][i]
    BY <1>1, <1>2 DEF Arrays, Lens
  <2>2. QED
    BY <1>1, <1>2, <2>1 DEF Keeps, WriteNext
<1>7. ThiefOK(t)'
  BY DEF ThiefOK, WriteNext
<1>8. QED
  BY <1>4, <1>5, <1>6, <1>7, StepOK

LEMMA PushSlotStep ==
  ASSUME RingInv, NEW t \in Threads, PushSlot(t)
  PROVE  RingInv'
<1>1. pc[t] = "push" /\ WriteNext(t) /\ Size(t) < CAPACITY
  BY DEF PushSlot, WriteNext
<1>2. spans[t] = sizes[t] + n[t] /\ sizes[t] <= Minus(tail[t], h[t])
  BY <1>1, Own, SpanIs DEF Writing, OwnerOK
<1>3. spans[t] < CAPACITY /\ n[t] < CAPACITY
  BY <1>1, <1>2, Own, Constants DEF Size
<1>4. sizes' = sizes /\ spans'[t] = spans[t] + 1
  BY <1>1, <1>3, WriteFacts, SpansType
<1>5. n'[t] = n[t] + 1 /\ UNCHANGED <<head, tail, pc, h, copied, victim>>
  BY <1>1, <1>3, Own, WriteTypes DEF WriteNext
<1>6. OwnerOK(t)'
  <2>1. spans'[t] <= CAPACITY
    BY <1>2, <1>3, <1>4, Own, Constants
  <2>2. QED
    BY <1>1, <1>2, <1>4, <1>5, <2>1, Own, Constants DEF OwnerOK, Size, Empties
<1>7. LocalsOK(t)'
  BY <1>1, <1>5, Own DEF LocalsOK
<1>8. QED
  BY <1>1, <1>3, <1>6, <1>7, WriteStep

LEMMA ConsumeSlotStep ==
  ASSUME RingInv, NEW t \in Threads, ConsumeSlot(t)
  PROVE  RingInv'
<1>1. pc[t] = "consume" /\ WriteNext(t) /\ n[t] < CAPACITY
  BY DEF ConsumeSlot, WriteNext
<1>2. spans[t] = sizes[t] + n[t] /\ sizes[t] = 0
  BY <1>1, Own, SpanIs DEF Writing, OwnerOK, Empties
<1>3. spans[t] < CAPACITY
  BY <1>1, <1>2, Own, Constants
<1>4. sizes' = sizes /\ spans'[t] = spans[t] + 1
  BY <1>1, <1>3, WriteFacts, SpansType
<1>5. n'[t] = n[t] + 1 /\ list'[t] = Tail(list[t]) /\ UNCHANGED <<head, tail, pc, h, copied, victim>>
  BY <1>1, Own, WriteTypes DEF WriteNext
<1>6. OwnerOK(t)'
  <2>1. spans'[t] <= CAPACITY
    BY <1>2, <1>3, <1>4, Own, Constants
  <2>2. QED
    BY <1>1, <1>2, <1>4, <1>5, <2>1 DEF OwnerOK, Empties
<1>7. LocalsOK(t)'
  <2>1. Len(list'[t]) = Len(list[t]) - 1 /\ Len(list[t]) \in Nat
    BY <1>1, <1>5, Own, HeadIsNode DEF RingTypeOK, WriteNext
  <2>2. n'[t] + Len(list'[t]) = n[t] + Len(list[t])
    BY <1>5, <2>1, Own
  <2>3. QED
    BY <1>1, <1>5, <2>2, Own DEF LocalsOK
<1>8. QED
  BY <1>1, <1>3, <1>6, <1>7, WriteStep

LEMMA SameApart ==
  ASSUME NEW ring, NEW len, NEW lst, NEW next, NEW out, NEW ring2,
         OnePlace(ring, len, lst, next, out),
         \A u \in Threads : \A i \in Filled(len, u) : ring2[u][i] = ring[u][i]
  PROVE  OnePlace(ring2, len, lst, next, out)
BY DEF OnePlace, Known, Apart

LEMMA SlotCell ==
  ASSUME RingTypeOK, NEW v \in Threads, NEW i \in Cells
  PROVE  Slot(v, Plus(head[v], i)) = rings[v][i]
<1>1. head \in Indices /\ array \in Arrays
  BY StateTypes
<1>2. QED
  BY <1>1, CellIs DEF rings, Slot

LEMMA SlotIsNode ==
  ASSUME RingTypeOK, NEW v \in Threads, NEW a \in Index, NEW k \in Nat
  PROVE  Slot(v, Plus(a, k)) \in Nodes \cup {None}
<1>1. a \in Int /\ k \in Int
  BY IndexNat
<1>2. Plus(a, k) \in Int
  BY <1>1, PlusType, IndexNat
<1> DEFINE s == Plus(a, k) % CAPACITY
<1>3. s \in 0..CAPACITY - 1
  BY <1>2, SlotType
<1>4. array[v][s] = Slot(v, Plus(a, k))
  BY DEF Slot
<1> HIDE DEF s
<1>5. array[v] \in [0..CAPACITY - 1 -> Nodes \cup {None}]
  BY DEF RingTypeOK
<1>6. array[v][s] \in Nodes \cup {None}
  BY <1>3, <1>5
<1>7. QED
  BY <1>4, <1>6

LEMMA StealCopyStep ==
  ASSUME RingInv, NEW t \in Threads, StealCopy(t)
  PROVE  RingInv' /\ Quiet
<1> DEFINE v == victim[t]
           c == copied[t]
           x == Slot(v, Plus(h[t], c))
<1>1. /\ pc[t] = "copy" /\ c \in Nat /\ n[t] \in Nat /\ c < n[t] /\ v \in Threads \ {t} /\ sizes[t] = 0
      /\ UNCHANGED <<head, tail, pc, h, n, victim, list, fresh, gone>>
      /\ copied' = [copied EXCEPT ![t] = @ + 1]
      /\ array' = [array EXCEPT ![t][Plus(tail[t], c) % CAPACITY] = x]
  BY Own DEF StealCopy, LocalsOK, OwnerOK, Empties
<1>2. /\ head \in Indices /\ tail \in Indices /\ array \in Arrays /\ rings \in Arrays
      /\ sizes \in [Threads -> Nat] /\ RingTypeOK /\ n[t] <= CAPACITY
  <2>1. RingTypeOK
    BY Own
  <2>2. n[t] <= CAPACITY
    BY <2>1, Constants DEF RingTypeOK
  <2>3. QED
    BY <2>1, <2>2, StateTypes, IndexNat DEF Indices
<1>3. c \in Cells /\ c < CAPACITY
  BY <1>1, <1>2, Constants DEF Cells
<1>4. x \in Nodes \cup {None}
  BY <1>1, Own, SlotIsNode
<1>5. head[v] = h[t] => x = rings[v][c]
  BY <1>1, <1>2, <1>3, SlotCell
<1> HIDE DEF x
<1>6. rings' = Put(rings, t, c, x)
  <2>1. array' = Put(array, t, Plus(tail[t], c) % CAPACITY, x)
    BY <1>1 DEF Put
  <2>2. SizeOf(head, tail)[t] + c = c /\ c \in Nat
    BY <1>1 DEF sizes
  <2> HIDE DEF c
  <2>3. RingOf(head, array') = Put(RingOf(head, array), t, SizeOf(head, tail)[t] + c, x)
    BY <1>2, <1>3, <2>1, <2>2, WriteCell
  <2>4. QED
    BY <1>1, <2>2, <2>3 DEF rings
<1>7. /\ \A u \in Threads \ {t} : rings'[u] = rings[u]
      /\ rings'[t][c] = x
      /\ \A i \in Cells : i # c => rings'[t][i] = rings[t][i]
  BY <1>2, <1>3, <1>6 DEF Put, Arrays
<1>8. RingTypeOK'
  <2>1. Plus(tail[t], c) % CAPACITY \in 0..CAPACITY - 1
    <3>1. tail[t] \in Int /\ c \in Int
      BY <1>1, Own, IndexNat
    <3>2. Plus(tail[t], c) \in Int
      BY <3>1, PlusType, IndexNat
    <3>3. QED
      BY <3>2, SlotType
  <2>2. array' \in [Threads -> [0..CAPACITY - 1 -> Nodes \cup {None}]]
    BY <1>1, <1>2, <1>4, <2>1 DEF RingTypeOK
  <2>3. copied' \in [Threads -> 0..CAPACITY]
    <3>1. copied[t] + 1 \in 0..CAPACITY
      BY <1>1, <1>3, Constants
    <3>2. QED
      BY <1>1, <1>2, <3>1 DEF RingTypeOK
  <2>4. QED
    BY <1>1, <1>2, <2>2, <2>3 DEF RingTypeOK
<1>9. Frame(t) /\ copied'[t] = c + 1
  BY <1>1, <1>2 DEF Frame, RingTypeOK
<1>10. sizes' = sizes
  BY <1>1 DEF sizes
<1>11. spans' = spans /\ spans[t] = 0
  <2>1. spans'[t] = spans[t] /\ spans[t] = 0
    BY <1>1, <1>2, <1>10, SpanIs DEF Writing
  <2>2. QED
    BY <1>2, <1>8, <1>9, <1>10, <2>1, SpanFrame
<1>12. NodesOK' /\ Quiet
  <2>1. \A u \in Threads : \A i \in Filled(spans, u) : rings'[u][i] = rings[u][i]
    BY <1>7, <1>11 DEF Filled
  <2>2. OnePlace(rings, spans, list, fresh, gone)
    BY DEF RingInv, NodesOK
  <2>3. OnePlace(rings', spans, list, fresh, gone)
    BY <2>1, <2>2, SameApart
  <2>4. QED
    BY <1>1, <1>10, <1>11, <2>1, <2>3 DEF NodesOK, Quiet
<1>13. ASSUME NEW u \in Threads PROVE Keeps(u)
  BY <1>1, <1>2, <1>7, <1>10 DEF Keeps
<1>14. OwnerOK(t)'
  BY <1>1, <1>10, <1>11, Constants DEF OwnerOK, Empties
<1>15. LocalsOK(t)'
  BY <1>1, <1>9, Own DEF LocalsOK
<1>16. ThiefOK(t)'
  <2> SUFFICES ASSUME head[v] = h[t]
               PROVE  /\ n[t] <= sizes[v] - sizes[v] \div 2
                      /\ \A i \in 0..c : rings'[t][i] = rings'[v][i]
    BY <1>1, <1>9, <1>10 DEF ThiefOK
  <2>1. /\ n[t] <= sizes[v] - sizes[v] \div 2
        /\ \A i \in 0..c - 1 : rings[t][i] = rings[v][i]
    BY <1>1, Own DEF ThiefOK
  <2>2. ASSUME NEW i \in 0..c PROVE rings'[t][i] = rings'[v][i]
    <3>1. CASE i = c
      BY <1>1, <1>5, <1>7, <3>1
    <3>2. CASE i # c
      <4>1. i \in 0..c - 1 /\ i \in Cells
        <5>1. c \in Nat /\ c < CAPACITY
          BY <1>1, <1>3
        <5> HIDE DEF c
        <5>2. QED
          BY <3>2, <5>1, Constants DEF Cells
      <4>2. QED
        BY <1>1, <1>7, <2>1, <3>2, <4>1
    <3>3. QED
      BY <3>1, <3>2
  <2>3. QED
    BY <2>1, <2>2
<1>17. QED
  BY <1>8, <1>9, <1>12, <1>13, <1>14, <1>15, <1>16, StepOK

-----------------------------------------------------------------------------
(* Steps that move a tail *)

LeftCell(x, ring, len, len2) ==
  \E v \in Threads : \E j \in Filled(len, v) \ Filled(len2, v) : x = ring[v][j]

\* Nodes stay where they are, or leave.
LEMMA StayApart ==
  ASSUME NEW ring, NEW len \in Lens, NEW lst, NEW next, NEW out,
         OnePlace(ring, len, lst, next, out),
         NEW len2 \in Lens, NEW lst2, NEW out2,
         \A u \in Threads : len2[u] <= len[u], Dropped(lst, lst2),
         \A x \in out2 : x \in out \/ LeftCell(x, ring, len, len2) \/ LeftList(x, lst, lst2)
  PROVE  OnePlace(ring, len2, lst2, next, out2)
<1> DEFINE from == [u \in Threads |-> u]
           off == [u \in Threads |-> 0]
<1>1. from \in [Threads -> Threads] /\ off \in [Threads -> Nat] /\ len2 \in [Threads -> Int]
  BY Constants DEF Lens
<1>2. \A u \in Threads : from[u] = u /\ off[u] = 0
  OBVIOUS
<1> HIDE DEF from, off
<1>3. \A u \in Threads : \A i \in Filled(len2, u) : i + off[u] = i /\ i \in Filled(len, u)
  BY <1>2, Constants DEF Filled, Lens
<1>4. Moved(ring, len, ring, len2, from, off)
  BY <1>2, <1>3 DEF Moved
<1>5. MovedApart(len2, from, off)
  BY <1>2 DEF MovedApart
<1>6. \A x : LeftCell(x, ring, len, len2) => LeftRing(x, ring, len, len2, from, off)
  <2> SUFFICES ASSUME NEW x, NEW v \in Threads, NEW j \in Filled(len, v) \ Filled(len2, v),
                      x = ring[v][j]
               PROVE  LeftRing(x, ring, len, len2, from, off)
    BY DEF LeftCell
  <2>1. \A u \in Threads : \A i \in Filled(len2, u) : from[u] = v => i + off[u] # j
    BY <1>2, <1>3
  <2>2. QED
    BY <2>1 DEF LeftRing
<1>7. Leaves(out2, ring, len, lst, out, len2, lst2, from, off)
  BY <1>6 DEF Leaves
<1>8. QED
  BY <1>1, <1>4, <1>5, <1>7, MoveApart

MovesTail(t, k) ==
  tail' = [tail EXCEPT ![t] = Plus(tail[t], k)] /\ UNCHANGED <<head, array>>

LEMMA TailFacts ==
  ASSUME RingInv, NEW t \in Threads, NEW k \in Nat, sizes[t] + k <= CAPACITY,
         MovesTail(t, k)
  PROVE  /\ tail' \in [Threads -> 0..Modulus - 1]
         /\ \A u \in Threads \ {t} : tail'[u] = tail[u]
         /\ rings' = rings /\ sizes' = [sizes EXCEPT ![t] = @ + k]
         /\ sizes'[t] = sizes[t] + k /\ \A u \in Threads \ {t} : sizes'[u] = sizes[u]
         /\ \A v \in Threads : Keeps(v)
<1>1. head \in Indices /\ tail \in Indices /\ sizes \in [Threads -> Nat]
  BY Own, StateTypes, IndexNat DEF Indices, RingInv
<1>2. tail' \in Indices /\ SizeOf(head, tail') = With(SizeOf(head, tail), t, SizeOf(head, tail)[t] + k)
  <2>1. SizeOf(head, tail)[t] + k <= CAPACITY
    BY DEF sizes
  <2>2. tail' = With(tail, t, Plus(tail[t], k))
    BY DEF MovesTail, With
  <2>3. SizeOf(head, tail') = With(SizeOf(head, tail), t, SizeOf(head, tail)[t] + k)
    <3>1. head \in Indices
      BY <1>1
    <3>2. tail \in Indices
      BY <1>1
    <3>3. QED
      BY <2>1, <2>2, <3>1, <3>2, MoveTail
  <2>4. Plus(tail[t], k) \in Index
    <3>1. tail[t] \in Int /\ k \in Int
      BY <1>1, IndexNat DEF Indices
    <3>2. QED
      BY <3>1, PlusType
  <2>5. QED
    BY <1>1, <2>3, <2>4 DEF Indices, MovesTail
<1>3. rings' = rings /\ sizes' = [sizes EXCEPT ![t] = @ + k]
  BY <1>2 DEF rings, sizes, With, MovesTail
<1>4. sizes'[t] = sizes[t] + k /\ \A u \in Threads \ {t} : sizes'[u] = sizes[u]
  BY <1>1, <1>3
<1>5. \A v \in Threads : Keeps(v)
  BY <1>1, <1>3, <1>4 DEF Keeps, MovesTail
<1>6. \A u \in Threads \ {t} : tail'[u] = tail[u]
  BY <1>1 DEF Indices, MovesTail
<1>7. QED
  BY <1>2, <1>3, <1>4, <1>5, <1>6 DEF Indices, Index

Publishes(t) ==
  /\ Frame(t) /\ rings' = rings /\ spans' = spans /\ sizes'[t] = spans[t]
  /\ \A u \in Threads \ {t} : sizes'[u] = sizes[u]
  /\ list' = list /\ gone' = gone /\ sizes[t] < spans[t]

LEMMA PushTailStep ==
  ASSUME RingInv, NEW t \in Threads, PushTail(t)
  PROVE  RingInv' /\ Publishes(t)
<1>1. /\ pc[t] = "push" /\ n[t] \in Nat /\ n[t] > 0 /\ copied[t] = 0 /\ UNCHANGED <<head, array, fresh, gone>>
      /\ tail' = [tail EXCEPT ![t] = Plus(tail[t], n[t])]
  BY Own DEF PushTail, LocalsOK
<1>2. spans[t] = sizes[t] + n[t] /\ spans[t] <= CAPACITY
  BY <1>1, Own, SpanIs DEF Writing, OwnerOK
<1>3. /\ tail' \in [Threads -> 0..Modulus - 1]
      /\ \A u \in Threads \ {t} : tail'[u] = tail[u]
      /\ rings' = rings /\ sizes'[t] = sizes[t] + n[t]
      /\ \A u \in Threads \ {t} : sizes'[u] = sizes[u]
      /\ \A v \in Threads : Keeps(v)
  <2>1. MovesTail(t, n[t])
    BY <1>1 DEF MovesTail
  <2>2. n[t] \in Nat /\ sizes[t] + n[t] <= CAPACITY
    BY <1>1, <1>2
  <2>3. QED
    BY <2>1, <2>2, TailFacts
<1>4. /\ RingTypeOK' /\ Frame(t) /\ list' = list /\ sizes'[t] = spans'[t]
      /\ OwnerOK(t)' /\ LocalsOK(t)' /\ ThiefOK(t)'
  <2>1. CASE list[t] = <<>>
    <3>1. Done(t)
      BY <2>1 DEF PushTail
    <3>2. RingTypeOK'
      BY <1>1, <1>3, <3>1, DoneFacts DEF RingInv, RingTypeOK
    <3>3. Frame(t)
      BY <1>1, <1>3, <3>1, DoneFacts DEF RingInv, Frame
    <3>4. list' = list
      BY <2>1, <3>1, Own, DoneFacts
    <3>5. OwnerOK(t)' /\ LocalsOK(t)' /\ ThiefOK(t)' /\ spans'[t] = sizes'[t]
      BY <1>2, <1>3, <3>1, <3>2, Own, DoneFacts, IdleOK
    <3>6. QED
      BY <3>2, <3>3, <3>4, <3>5
  <2>2. CASE list[t] # <<>>
    <3>1. Go(t, "pushHead") /\ n' = [n EXCEPT ![t] = 0] /\ UNCHANGED <<h, copied, victim, list>>
      BY <2>2 DEF PushTail
    <3>2. RingTypeOK'
      BY <1>1, <1>3, <3>1, Constants DEF RingInv, RingTypeOK, Go
    <3>3. Frame(t) /\ pc'[t] = "pushHead" /\ n'[t] = 0
      BY <1>1, <1>3, <3>1 DEF RingInv, RingTypeOK, Go, Frame
    <3>4. spans'[t] = sizes'[t]
      <4>1. sizes'[t] \in Nat /\ spans'[t] = sizes'[t] + (IF pc'[t] \in Writing THEN n'[t] ELSE 0)
        BY <3>2, Own, SpanIs, NextTypes
      <4>2. QED
        BY <3>3, <4>1 DEF Writing
    <3>5. OwnerOK(t)'
      BY <1>2, <1>3, <3>3, <3>4 DEF OwnerOK, Empties
    <3>6. LocalsOK(t)' /\ ThiefOK(t)'
      BY <1>1, <3>1, <3>3 DEF LocalsOK, ThiefOK
    <3>7. QED
      BY <3>1, <3>2, <3>3, <3>4, <3>5, <3>6
  <2>3. QED
    BY <2>1, <2>2
<1>5. spans' = spans
  <2>1. \A u \in Threads \ {t} : spans'[u] = spans[u]
    BY <1>3, <1>4, Own, SpanIs DEF Frame
  <2>2. spans = [u \in Threads |-> spans[u]] /\ spans' = [u \in Threads |-> spans'[u]]
    BY DEF spans, SpanOf
  <2>3. \A u \in Threads : spans'[u] = spans[u]
    BY <1>2, <1>3, <1>4, <2>1
  <2>4. QED
    BY <2>2, <2>3
<1>6. NodesOK'
  BY <1>1, <1>3, <1>4, <1>5 DEF RingInv, NodesOK
<1>7. Publishes(t)
  <2>1. sizes[t] < spans[t]
    BY <1>1, <1>2, Own
  <2>2. QED
    BY <1>1, <1>2, <1>3, <1>4, <1>5, <2>1 DEF Publishes
<1>8. QED
  BY <1>3, <1>4, <1>6, <1>7, StepOK

LEMMA KnownNode ==
  ASSUME RingInv, NEW t \in Threads, NEW i \in Filled(spans, t)
  PROVE  rings[t][i] \in Nodes
<1>1. rings[t][i] \in 1..fresh - 1
  BY DEF RingInv, NodesOK, OnePlace, Known
<1>2. fresh \in 1..MaxNodes + 1
  BY DEF RingInv, RingTypeOK
<1>3. QED
  BY <1>1, <1>2, Constants DEF Nodes

LEMMA OtherSpans ==
  ASSUME RingTypeOK, NEW t \in Threads, Frame(t), NEW u \in Threads \ {t}, sizes'[u] = sizes[u]
  PROVE  spans'[u] = spans[u]
BY SpanIs DEF Frame

LEMMA LensNext ==
  ASSUME NEW t \in Threads, \A u \in Threads \ {t} : spans'[u] = spans[u],
         spans \in Lens, spans'[t] \in 0..CAPACITY
  PROVE  spans' \in Lens
<1>1. \A u \in Threads : spans'[u] \in 0..CAPACITY
  BY DEF Lens
<1>2. spans' = [u \in Threads |-> spans'[u]]
  BY DEF spans, SpanOf
<1>3. QED
  BY <1>1, <1>2 DEF Lens

\* consume() and steal() return the last node that they wrote.
ReturnsLast(t) ==
  /\ MovesTail(t, n[t] - 1)
  /\ gone' = gone \cup {Slot(t, Plus(tail[t], n[t] - 1))}
  /\ Done(t)
  /\ UNCHANGED fresh

LEMMA LastFacts ==
  ASSUME RingInv, NEW t \in Threads, ReturnsLast(t), pc[t] \in {"consume", "publish"}, n[t] > 0
  PROVE  /\ sizes[t] = 0 /\ spans[t] = n[t] /\ n[t] \in 1..CAPACITY /\ n[t] - 1 \in Cells
         /\ Slot(t, Plus(tail[t], n[t] - 1)) = rings[t][n[t] - 1]
         /\ sizes'[t] = n[t] - 1 /\ \A u \in Threads \ {t} : sizes'[u] = sizes[u]
         /\ rings' = rings
<1>1. RingTypeOK /\ sizes[t] = 0 /\ n[t] \in Nat /\ tail[t] \in Index /\ head[t] \in Index /\ tail[t] = head[t]
  BY Own DEF OwnerOK, Empties
<1>2. spans[t] = n[t] /\ n[t] <= CAPACITY
  BY <1>1, Own, SpanIs DEF Writing, OwnerOK
<1>3. n[t] \in 1..CAPACITY /\ n[t] - 1 \in Cells /\ n[t] - 1 \in Nat
  BY <1>1, <1>2, Constants DEF Cells
<1>4. Slot(t, Plus(tail[t], n[t] - 1)) = rings[t][n[t] - 1]
  BY <1>1, <1>3, SlotCell
<1>5. sizes[t] + (n[t] - 1) <= CAPACITY /\ sizes[t] + (n[t] - 1) = n[t] - 1
  BY <1>1, <1>3, Constants
<1>6. MovesTail(t, n[t] - 1)
  BY DEF ReturnsLast
<1>7. /\ sizes'[t] = sizes[t] + (n[t] - 1) /\ \A u \in Threads \ {t} : sizes'[u] = sizes[u]
      /\ rings' = rings
  BY <1>3, <1>5, <1>6, TailFacts
<1>8. QED
  BY <1>1, <1>2, <1>3, <1>4, <1>5, <1>7

LEMMA ReturnsLastStep ==
  ASSUME RingInv, NEW t \in Threads, ReturnsLast(t), pc[t] \in {"consume", "publish"}, n[t] > 0,
         list[t] = <<>>
  PROVE  RingInv' /\ Frame(t)
<1> DEFINE x == Slot(t, Plus(tail[t], n[t] - 1))
<1>1. /\ sizes[t] = 0 /\ spans[t] = n[t] /\ n[t] \in 1..CAPACITY /\ n[t] - 1 \in Cells
      /\ x = rings[t][n[t] - 1]
      /\ sizes'[t] = n[t] - 1 /\ \A u \in Threads \ {t} : sizes'[u] = sizes[u]
      /\ rings' = rings
  BY LastFacts
<1>2. MovesTail(t, n[t] - 1) /\ gone' = gone \cup {x} /\ Done(t) /\ UNCHANGED <<head, array, fresh>>
  BY DEF ReturnsLast, MovesTail
<1> HIDE DEF x
<1>3. /\ tail' \in [Threads -> 0..Modulus - 1]
      /\ \A u \in Threads \ {t} : tail'[u] = tail[u]
      /\ \A v \in Threads : Keeps(v)
  <2>1. n[t] - 1 \in Nat /\ sizes[t] + (n[t] - 1) <= CAPACITY
    BY <1>1, Constants
  <2>2. QED
    BY <1>2, <2>1, TailFacts
<1>4. n[t] - 1 \in Filled(spans, t)
  BY <1>1, Constants DEF Filled
<1>5. x \in Nodes
  BY <1>1, <1>4, KnownNode
<1>6. RingTypeOK'
  BY <1>2, <1>3, <1>5, DoneFacts DEF RingInv, RingTypeOK
<1>7. Frame(t)
  BY <1>2, <1>3, DoneFacts DEF RingInv, Frame
<1>8. list' = list
  BY <1>2, Own, DoneFacts
<1>9. sizes'[t] <= CAPACITY
  BY <1>1, Constants
<1>10. OwnerOK(t)' /\ LocalsOK(t)' /\ ThiefOK(t)' /\ spans'[t] = n[t] - 1
  BY <1>1, <1>2, <1>6, <1>9, Own, DoneFacts, IdleOK
<1>11. NodesOK'
  <2>1. \A u \in Threads \ {t} : spans'[u] = spans[u]
    BY <1>1, <1>7, Own, OtherSpans
  <2>2. spans \in Lens /\ spans' \in Lens
    <3>1. spans'[t] \in 0..CAPACITY
      BY <1>1, <1>10, Constants
    <3>2. QED
      BY <2>1, <3>1, SpansType, LensNext
  <2>3. \A u \in Threads : spans'[u] <= spans[u]
    BY <1>1, <1>10, <2>1, <2>2, Constants DEF Lens
  <2>4. LeftCell(x, rings, spans, spans')
    <3>1. n[t] - 1 \notin Filled(spans', t)
      BY <1>1, <1>10, Constants DEF Filled
    <3>2. QED
      BY <1>1, <1>4, <3>1 DEF LeftCell
  <2>5. Dropped(list, list')
    BY <1>8 DEF Dropped
  <2>6. \A y \in gone' : y \in gone \/ LeftCell(y, rings, spans, spans') \/ LeftList(y, list, list')
    BY <1>2, <2>4
  <2>7. OnePlace(rings, spans, list, fresh, gone)
    BY DEF RingInv, NodesOK
  <2>8. OnePlace(rings, spans', list', fresh, gone')
    BY <2>2, <2>3, <2>5, <2>6, <2>7, StayApart
  <2>9. QED
    BY <1>1, <1>2, <2>8 DEF NodesOK
<1>12. QED
  BY <1>3, <1>6, <1>7, <1>10, <1>11, StepOK

LEMMA StealPublishStep ==
  ASSUME RingInv, NEW t \in Threads, StealPublish(t)
  PROVE  RingInv'
<1>1. pc[t] = "publish" /\ n[t] > 0 /\ list[t] = <<>>
  BY Own DEF StealPublish, LocalsOK
<1>2. ReturnsLast(t)
  BY DEF StealPublish, ReturnsLast, MovesTail
<1>3. QED
  BY <1>1, <1>2, ReturnsLastStep

\* The ring is full and one node of the list is left: it is returned.
ReturnsExtra(t) ==
  /\ MovesTail(t, n[t])
  /\ gone' = gone \cup {Head(list[t])}
  /\ Done(t)
  /\ UNCHANGED fresh

LEMMA ExtraFacts ==
  ASSUME RingInv, NEW t \in Threads, ReturnsExtra(t), pc[t] = "consume",
         n[t] = CAPACITY, list[t] # <<>>
  PROVE  /\ Len(list[t]) = 1 /\ Head(list[t]) = list[t][1] /\ 1 \in DOMAIN list[t]
         /\ Head(list[t]) \in Nodes
         /\ sizes[t] = 0 /\ spans[t] = n[t] /\ n[t] \in Nat
         /\ sizes'[t] = n[t] /\ \A u \in Threads \ {t} : sizes'[u] = sizes[u]
         /\ rings' = rings
<1>1. RingTypeOK /\ sizes[t] = 0 /\ n[t] \in Nat /\ n[t] + Len(list[t]) \in 1..CAPACITY + 1
  BY Own DEF OwnerOK, LocalsOK, Empties
<1>2. spans[t] = n[t]
  BY <1>1, SpanIs DEF Writing
<1>3. list[t] \in Seq(Nodes)
  BY <1>1 DEF RingTypeOK
<1>4. Len(list[t]) \in Nat \ {0} /\ DOMAIN list[t] = 1..Len(list[t]) /\ Head(list[t]) = list[t][1]
      /\ Head(list[t]) \in Nodes
  BY <1>3
<1>5. Len(list[t]) = 1 /\ 1 \in DOMAIN list[t]
  <2> DEFINE k == Len(list[t])
  <2>1. CAPACITY + k \in 1..CAPACITY + 1 /\ k \in Nat \ {0}
    BY <1>1, <1>4
  <2> HIDE DEF k
  <2>2. k = 1
    BY <2>1, Constants
  <2>3. QED
    BY <1>4, <2>2 DEF k
<1>6. sizes[t] + n[t] <= CAPACITY /\ sizes[t] + n[t] = n[t] /\ MovesTail(t, n[t])
  BY <1>1, Constants DEF ReturnsExtra
<1>7. /\ sizes'[t] = sizes[t] + n[t] /\ \A u \in Threads \ {t} : sizes'[u] = sizes[u]
      /\ rings' = rings
  BY <1>1, <1>6, TailFacts
<1>8. QED
  BY <1>1, <1>2, <1>4, <1>5, <1>6, <1>7

LEMMA ReturnsExtraStep ==
  ASSUME RingInv, NEW t \in Threads, ReturnsExtra(t), pc[t] = "consume",
         n[t] = CAPACITY, list[t] # <<>>
  PROVE  RingInv' /\ Frame(t)
<1> DEFINE x == Head(list[t])
<1>1. /\ Len(list[t]) = 1 /\ x = list[t][1] /\ 1 \in DOMAIN list[t] /\ x \in Nodes
      /\ sizes[t] = 0 /\ spans[t] = n[t] /\ n[t] \in Nat
      /\ sizes'[t] = n[t] /\ \A u \in Threads \ {t} : sizes'[u] = sizes[u]
      /\ rings' = rings
  BY ExtraFacts
<1>2. MovesTail(t, n[t]) /\ gone' = gone \cup {x} /\ Done(t) /\ UNCHANGED <<head, array, fresh>>
  BY DEF ReturnsExtra, MovesTail
<1> HIDE DEF x
<1>3. /\ tail' \in [Threads -> 0..Modulus - 1]
      /\ \A u \in Threads \ {t} : tail'[u] = tail[u]
      /\ \A v \in Threads : Keeps(v)
  <2>1. sizes[t] + n[t] <= CAPACITY
    BY <1>1, Constants
  <2>2. QED
    BY <1>1, <1>2, <2>1, TailFacts
<1>4. RingTypeOK'
  BY <1>1, <1>2, <1>3, DoneFacts DEF RingInv, RingTypeOK
<1>5. Frame(t) /\ list'[t] = <<>>
  BY <1>2, <1>3, DoneFacts DEF RingInv, Frame
<1>6. sizes'[t] <= CAPACITY
  BY <1>1, Constants
<1>7. OwnerOK(t)' /\ LocalsOK(t)' /\ ThiefOK(t)' /\ spans'[t] = n[t]
  BY <1>1, <1>2, <1>4, <1>6, Own, DoneFacts, IdleOK
<1>8. NodesOK'
  <2>1. \A u \in Threads : spans'[u] = spans[u]
    BY <1>1, <1>5, <1>7, Own, OtherSpans
  <2>2. spans \in Lens /\ spans' = spans
    <3>1. spans = [u \in Threads |-> spans[u]] /\ spans' = [u \in Threads |-> spans'[u]]
      BY DEF spans, SpanOf
    <3>2. QED
      BY <2>1, <3>1, SpansType
  <2>3. \A u \in Threads : spans[u] <= spans[u]
    BY <2>2, Constants DEF Lens
  <2>4. LeftList(x, list, list')
    BY <1>1, <1>5 DEF LeftList
  <2>5. Dropped(list, list')
    BY <1>5 DEF Dropped, Frame
  <2>6. \A y \in gone' : y \in gone \/ LeftCell(y, rings, spans, spans) \/ LeftList(y, list, list')
    BY <1>2, <2>4
  <2>7. OnePlace(rings, spans, list, fresh, gone)
    BY DEF RingInv, NodesOK
  <2>8. OnePlace(rings, spans, list', fresh, gone')
    BY <2>2, <2>3, <2>5, <2>6, <2>7, StayApart
  <2>9. QED
    BY <1>1, <1>2, <2>2, <2>8 DEF NodesOK
<1>9. QED
  BY <1>3, <1>4, <1>5, <1>7, <1>8, StepOK

LEMMA ConsumeTailCases ==
  ASSUME RingInv, NEW t \in Threads, ConsumeTail(t)
  PROVE  /\ pc[t] = "consume"
         /\ \/ ReturnsExtra(t) /\ n[t] = CAPACITY /\ list[t] # <<>>
            \/ ReturnsLast(t) /\ n[t] > 0 /\ list[t] = <<>>
<1>1. pc[t] = "consume" /\ (list[t] = <<>> \/ n[t] = CAPACITY)
  BY DEF ConsumeTail
<1>2. CASE list[t] # <<>>
  BY <1>1, <1>2 DEF ConsumeTail, ReturnsExtra, MovesTail
<1>3. CASE list[t] = <<>>
  <2>1. n[t] > 0
    <3>1. n[t] + Len(list[t]) \in 1..CAPACITY + 1 /\ n[t] \in Nat
      BY <1>1, Own DEF LocalsOK
    <3>2. Len(list[t]) = 0
      BY <1>3
    <3>3. QED
      BY <3>1, <3>2, Constants
  <2>2. QED
    BY <1>1, <1>3, <2>1 DEF ConsumeTail, ReturnsLast, MovesTail
<1>4. QED
  BY <1>2, <1>3

LEMMA ConsumeTailStep ==
  ASSUME RingInv, NEW t \in Threads, ConsumeTail(t)
  PROVE  RingInv'
BY ConsumeTailCases, ReturnsExtraStep, ReturnsLastStep

-----------------------------------------------------------------------------
(* Steps that move a head *)

MovesHead(v, k) ==
  /\ head' = [head EXCEPT ![v] = Plus(head[v], k)] /\ NoLap(v, k)
  /\ UNCHANGED <<tail, array>>

LEMMA SizeBound ==
  ASSUME RingInv, NEW v \in Threads
  PROVE  sizes[v] \in Nat /\ sizes[v] <= spans[v] /\ spans[v] <= CAPACITY /\ sizes[v] <= CAPACITY
         /\ spans[v] \in Nat
<1>1. sizes[v] \in Nat /\ n[v] \in Nat /\ spans[v] <= CAPACITY /\ RingTypeOK
  BY Own DEF OwnerOK
<1>2. spans[v] = sizes[v] + (IF pc[v] \in Writing THEN n[v] ELSE 0)
  BY <1>1, SpanIs
<1>3. QED
  BY <1>1, <1>2, Constants

LEMMA HeadFacts ==
  ASSUME RingInv, NEW v \in Threads, NEW k \in 1..sizes[v], MovesHead(v, k)
  PROVE  /\ head' \in [Threads -> 0..Modulus - 1]
         /\ sizes'[v] = sizes[v] - k
         /\ \A u \in Threads \ {v} : sizes'[u] = sizes[u] /\ rings'[u] = rings[u]
         /\ \A i \in Cells : i + k \in Cells => rings'[v][i] = rings[v][i + k]
         /\ \A u \in Threads : Keeps(u) \/ Moves(u)
<1>1. head \in Indices /\ tail \in Indices /\ array \in Arrays /\ sizes \in [Threads -> Nat]
  BY Own, StateTypes, IndexNat DEF Indices, RingInv
<1>2. sizes[v] <= CAPACITY /\ k \in Nat /\ k <= sizes[v]
  BY <1>1, SizeBound
<1>3. /\ head' \in Indices
      /\ SizeOf(head', tail) = With(SizeOf(head, tail), v, SizeOf(head, tail)[v] - k)
      /\ \A u \in Threads \ {v} : RingOf(head', array)[u] = RingOf(head, array)[u]
      /\ \A i \in Cells : i + k \in Cells => RingOf(head', array)[v][i] = RingOf(head, array)[v][i + k]
  <2>1. SizeOf(head, tail)[v] <= CAPACITY /\ k <= SizeOf(head, tail)[v]
    BY <1>2 DEF sizes
  <2>2. head' = With(head, v, Plus(head[v], k))
    BY DEF With, MovesHead
  <2>3. head \in Indices
    BY <1>1
  <2>4. tail \in Indices
    BY <1>1
  <2>5. array \in Arrays
    BY <1>1
  <2>6. k \in Nat
    BY <1>2
  <2>7. QED
    BY <2>1, <2>2, <2>3, <2>4, <2>5, <2>6, MoveHead
<1>4. /\ sizes'[v] = sizes[v] - k
      /\ \A u \in Threads \ {v} : sizes'[u] = sizes[u]
  BY <1>1, <1>3 DEF sizes, With, MovesHead
<1>5. /\ \A u \in Threads \ {v} : rings'[u] = rings[u]
      /\ \A i \in Cells : i + k \in Cells => rings'[v][i] = rings[v][i + k]
  BY <1>3 DEF rings, MovesHead
<1>6. Moves(v)
  BY <1>1, <1>4 DEF Moves, MovesHead, Indices
<1>7. \A u \in Threads \ {v} : Keeps(u)
  BY <1>1, <1>4, <1>5 DEF Keeps, MovesHead, Indices
<1>8. QED
  BY <1>3, <1>4, <1>5, <1>6, <1>7 DEF Indices, Index

LEMMA WindowCells ==
  ASSUME RingTypeOK, NEW v \in Threads, NEW k \in 0..CAPACITY
  PROVE  Window(v, head[v], k) = {rings[v][j] : j \in 0..k - 1}
<1>1. \A j \in 0..k - 1 : j \in Cells
  BY Constants DEF Cells
<1>2. \A j \in 0..k - 1 : Slot(v, Plus(head[v], j)) = rings[v][j]
  BY <1>1, SlotCell
<1>3. QED
  BY <1>2 DEF Window

ListNodes(t) == {list[t][i] : i \in DOMAIN list[t]}

\* The owner takes the first k nodes out, and they leave together with its list.
TakesFirst(t, k) ==
  /\ MovesHead(t, k)
  /\ gone' = gone \cup Window(t, head[t], k) \cup ListNodes(t)
  /\ Done(t)
  /\ UNCHANGED fresh

LEMMA TakesFirstStep ==
  ASSUME RingInv, NEW t \in Threads, NEW k \in 1..sizes[t], TakesFirst(t, k), spans[t] = sizes[t]
  PROVE  RingInv' /\ Frame(t)
<1>1. /\ head' \in [Threads -> 0..Modulus - 1]
      /\ sizes'[t] = sizes[t] - k
      /\ \A u \in Threads \ {t} : sizes'[u] = sizes[u] /\ rings'[u] = rings[u]
      /\ \A i \in Cells : i + k \in Cells => rings'[t][i] = rings[t][i + k]
      /\ \A u \in Threads : Keeps(u) \/ Moves(u)
  BY HeadFacts DEF TakesFirst
<1>2. UNCHANGED <<tail, array, fresh>> /\ Done(t) /\ gone' = gone \cup Window(t, head[t], k) \cup ListNodes(t)
  BY DEF TakesFirst, MovesHead
<1>3. /\ RingTypeOK /\ sizes[t] \in Nat /\ sizes[t] <= CAPACITY /\ k \in Nat \ {0} /\ k <= sizes[t]
      /\ k \in 0..CAPACITY
  BY Own, SizeBound, Constants
<1>4. Window(t, head[t], k) = {rings[t][j] : j \in 0..k - 1}
  BY <1>3, WindowCells
<1>5. \A j \in 0..k - 1 : j \in Filled(spans, t)
  BY <1>3 DEF Filled
<1>6. Window(t, head[t], k) \subseteq Nodes /\ ListNodes(t) \subseteq Nodes
  <2>1. Window(t, head[t], k) \subseteq Nodes
    BY <1>4, <1>5, KnownNode
  <2>2. list[t] \in Seq(Nodes)
    BY <1>3 DEF RingTypeOK
  <2>3. \A i \in DOMAIN list[t] : list[t][i] \in Nodes
    BY <2>2
  <2>4. QED
    BY <2>1, <2>3 DEF ListNodes
<1>7. RingTypeOK'
  BY <1>1, <1>2, <1>3, <1>6, DoneFacts DEF RingTypeOK
<1>8. Frame(t) /\ list'[t] = <<>>
  BY <1>2, <1>3, DoneFacts DEF Frame
<1>9. sizes'[t] <= CAPACITY
  BY <1>1, <1>3, Constants
<1>10. OwnerOK(t)' /\ LocalsOK(t)' /\ ThiefOK(t)' /\ spans'[t] = sizes[t] - k
  BY <1>1, <1>2, <1>3, <1>7, <1>9, DoneFacts, IdleOK
<1>11. \A u \in Threads \ {t} : spans'[u] = spans[u]
  BY <1>1, <1>3, <1>8, OtherSpans
<1>12. NodesOK'
  <2> DEFINE from == [u \in Threads |-> u]
             off == [u \in Threads |-> IF u = t THEN k ELSE 0]
  <2>1. from \in [Threads -> Threads] /\ off \in [Threads -> Nat]
    BY <1>3
  <2>2. \A u \in Threads : from[u] = u /\ off[u] = IF u = t THEN k ELSE 0
    OBVIOUS
  <2> HIDE DEF from, off
  <2>3. spans' \in [Threads -> Int] /\ spans \in Lens
    <3>1. spans'[t] \in 0..CAPACITY /\ spans \in Lens
      BY <1>3, <1>10, SpansType, Constants
    <3>2. spans' \in Lens
      BY <1>11, <3>1, LensNext
    <3>3. QED
      BY <3>1, <3>2, Constants DEF Lens
  <2>4. Moved(rings, spans, rings', spans', from, off)
    <3>1. ASSUME NEW i \in Filled(spans', t)
          PROVE  i + k \in Filled(spans, t) /\ rings'[t][i] = rings[t][i + k]
      <4>1. i \in 0..sizes[t] - k - 1
        BY <1>10 DEF Filled
      <4>2. i \in Cells /\ i + k \in Cells /\ i + k \in 0..sizes[t] - 1
        BY <1>3, <4>1, Constants DEF Cells
      <4>3. QED
        BY <1>1, <4>2 DEF Filled
    <3>2. ASSUME NEW u \in Threads \ {t}, NEW i \in Filled(spans', u)
          PROVE  i + 0 \in Filled(spans, u) /\ rings'[u][i] = rings[u][i + 0]
      <4>1. i \in 0..spans[u] - 1
        BY <1>11, <3>2 DEF Filled
      <4>2. i + 0 = i
        BY <4>1
      <4>3. QED
        BY <1>1, <4>1, <4>2 DEF Filled
    <3>3. QED
      BY <2>2, <3>1, <3>2 DEF Moved
  <2>5. MovedApart(spans', from, off)
    BY <2>2 DEF MovedApart
  <2>6. Dropped(list, list')
    BY <1>8 DEF Dropped, Frame
  <2>7. ASSUME NEW x \in Window(t, head[t], k)
        PROVE  LeftRing(x, rings, spans, spans', from, off)
    <3>1. PICK j \in 0..k - 1 : x = rings[t][j]
      BY <1>4, <2>7
    <3>2. ASSUME NEW u \in Threads, NEW i \in Filled(spans', u), from[u] = t
          PROVE  i + off[u] # j
      <4>1. u = t /\ off[u] = k
        BY <2>2, <3>2
      <4>2. i \in Nat
        BY <2>3 DEF Filled
      <4>3. QED
        BY <1>3, <4>1, <4>2
    <3>3. QED
      BY <1>5, <3>1, <3>2 DEF LeftRing
  <2>8. ASSUME NEW x \in ListNodes(t) PROVE LeftList(x, list, list')
    BY <1>8, <2>8 DEF ListNodes, LeftList
  <2>9. Leaves(gone', rings, spans, list, gone, spans', list', from, off)
    BY <1>2, <2>7, <2>8 DEF Leaves
  <2>10. OnePlace(rings, spans, list, fresh, gone)
    BY DEF RingInv, NodesOK
  <2>11. OnePlace(rings', spans', list', fresh, gone')
    BY <2>1, <2>3, <2>4, <2>5, <2>6, <2>9, <2>10, MoveApart
  <2>12. QED
    BY <1>2, <2>11 DEF NodesOK
<1>13. QED
  BY <1>1, <1>7, <1>8, <1>10, <1>12, StepOK

LEMMA MigrateIs ==
  ASSUME RingInv, NEW t \in Threads, Migrate(t)
  PROVE  /\ pc[t] = "push" /\ n[t] = 0 /\ spans[t] = sizes[t] /\ sizes[t] = CAPACITY
         /\ CAPACITY \div 2 \in 1..sizes[t] /\ TakesFirst(t, CAPACITY \div 2)
<1>1. pc[t] = "push" /\ n[t] = 0 /\ Size(t) = CAPACITY /\ head[t] = h[t]
  BY DEF Migrate, Full
<1>2. sizes[t] = CAPACITY
  BY <1>1, Own DEF Size
<1>3. spans[t] = sizes[t]
  BY <1>1, <1>2, Own, SpanIs, Constants DEF Writing
<1>4. CAPACITY \div 2 \in 1..sizes[t]
  BY <1>2, Constants
<1>5. TakesFirst(t, CAPACITY \div 2)
  BY <1>1 DEF Migrate, TakesFirst, MovesHead, ListNodes
<1>6. QED
  BY <1>1, <1>2, <1>3, <1>4, <1>5

LEMMA MigrateStep ==
  ASSUME RingInv, NEW t \in Threads, Migrate(t)
  PROVE  RingInv'
BY MigrateIs, TakesFirstStep

LEMMA PopCasIs ==
  ASSUME RingInv, NEW t \in Threads, PopCas(t)
  PROVE  /\ pc[t] = "pop" /\ list[t] = <<>> /\ spans[t] = sizes[t]
         /\ 1 \in 1..sizes[t] /\ TakesFirst(t, 1)
<1>1. pc[t] = "pop" /\ head[t] = h[t] /\ list[t] = <<>> /\ RingTypeOK
  BY Own DEF PopCas, LocalsOK
<1>2. spans[t] = sizes[t]
  BY <1>1, Own, SpanIs DEF Writing
<1>3. 1 \in 1..sizes[t]
  BY <1>1, Own, Constants DEF OwnerOK
<1>4. TakesFirst(t, 1)
  <2>1. ListNodes(t) = {}
    BY <1>1 DEF ListNodes
  <2>2. Plus(head[t], 0) = head[t]
    <3>1. head[t] \in 0..Modulus - 1
      BY <1>1 DEF RingTypeOK
    <3>2. QED
      BY <3>1, Constants DEF Plus
  <2>3. 0..1 - 1 = {0}
    OBVIOUS
  <2>4. Window(t, head[t], 1) = {Slot(t, Plus(head[t], j)) : j \in {0}}
    BY <2>3, Zenon DEF Window
  <2>5. Window(t, head[t], 1) = {Slot(t, head[t])}
    BY <2>2, <2>4
  <2>6. QED
    BY <1>1, <2>1, <2>5 DEF PopCas, TakesFirst, MovesHead
<1>5. QED
  BY <1>1, <1>2, <1>3, <1>4

LEMMA PopCasStep ==
  ASSUME RingInv, NEW t \in Threads, PopCas(t)
  PROVE  RingInv'
BY PopCasIs, TakesFirstStep

LEMMA StealCasFacts ==
  ASSUME RingInv, NEW t \in Threads, StealCas(t)
  PROVE  /\ pc[t] = "copy" /\ pc'[t] = "publish" /\ victim[t] \in Threads \ {t}
         /\ n[t] \in 1..sizes[victim[t]] /\ MovesHead(victim[t], n[t])
         /\ n[t] <= sizes[victim[t]] - (sizes[victim[t]] \div 2)
         /\ sizes[t] = 0 /\ spans[t] = 0 /\ sizes'[t] = 0 /\ list[t] = <<>> /\ n[t] <= CAPACITY
         /\ \A i \in 0..n[t] - 1 : rings[t][i] = rings[victim[t]][i]
<1> DEFINE v == victim[t]
<1>1. /\ pc[t] = "copy" /\ copied[t] = n[t] /\ v \in Threads \ {t} /\ n[t] > 0 /\ n[t] \in Nat
      /\ head[v] = h[t] /\ sizes[t] = 0 /\ list[t] = <<>> /\ RingTypeOK
  BY Own DEF StealCas, LocalsOK, OwnerOK, Empties
<1>2. /\ n[t] <= sizes[v] - (sizes[v] \div 2)
      /\ \A i \in 0..n[t] - 1 : rings[t][i] = rings[v][i]
  BY <1>1, Own DEF ThiefOK
<1>3. n[t] \in 1..sizes[v] /\ sizes[v] \in Nat /\ sizes[v] <= CAPACITY
  BY <1>1, <1>2, SizeBound
<1>4. MovesHead(v, n[t])
  BY <1>1 DEF StealCas, MovesHead
<1>5. pc'[t] = "publish"
  BY <1>1 DEF StealCas, Go, RingTypeOK
<1>6. spans[t] = 0
  BY <1>1, SpanIs DEF Writing
<1>7. sizes'[t] = sizes[t]
  BY <1>1, <1>3, <1>4, HeadFacts
<1>8. n[t] <= CAPACITY
  BY <1>1, <1>3, Constants
<1>9. QED
  BY <1>1, <1>2, <1>3, <1>4, <1>5, <1>6, <1>7, <1>8

LEMMA StealCasStep ==
  ASSUME RingInv, NEW t \in Threads, StealCas(t)
  PROVE  RingInv' /\ Frame(t)
<1> DEFINE v == victim[t]
           k == n[t]
<1>1. /\ pc[t] = "copy" /\ pc'[t] = "publish" /\ v \in Threads \ {t}
      /\ k \in 1..sizes[v] /\ MovesHead(v, k)
      /\ sizes[t] = 0 /\ spans[t] = 0 /\ sizes'[t] = 0 /\ list[t] = <<>> /\ k <= CAPACITY
      /\ \A i \in 0..k - 1 : rings[t][i] = rings[v][i]
  BY StealCasFacts
<1>2. /\ head' \in [Threads -> 0..Modulus - 1]
      /\ sizes'[v] = sizes[v] - k
      /\ \A u \in Threads \ {v} : sizes'[u] = sizes[u] /\ rings'[u] = rings[u]
      /\ \A i \in Cells : i + k \in Cells => rings'[v][i] = rings[v][i + k]
      /\ \A u \in Threads : Keeps(u) \/ Moves(u)
  BY <1>1, HeadFacts
<1>3. UNCHANGED <<tail, array, h, n, copied, victim, list, fresh, gone>> /\ RingTypeOK
  BY Own DEF StealCas
<1>4. RingTypeOK'
  BY <1>2, <1>3 DEF RingTypeOK, StealCas, Go
<1>5. Frame(t)
  BY <1>3 DEF Frame, RingTypeOK, StealCas, Go
<1>6. sizes[v] \in Nat /\ spans[v] \in Nat /\ sizes[v] <= spans[v] /\ spans[v] <= CAPACITY /\ k \in Nat \ {0}
      /\ k <= sizes[v]
  BY <1>1, SizeBound
<1>7. spans'[t] = k
  BY <1>1, <1>3, <1>6, SpanIs DEF Writing
<1>8. spans'[v] = spans[v] - k
  <2>1. spans'[v] = sizes'[v] + (IF pc'[v] \in Writing THEN n'[v] ELSE 0)
    BY <1>1, <1>3, SpanIs
  <2>2. spans[v] = sizes[v] + (IF pc[v] \in Writing THEN n[v] ELSE 0)
    BY <1>1, <1>3, SpanIs
  <2>3. pc'[v] = pc[v] /\ n'[v] = n[v] /\ n[v] \in Nat
    BY <1>1, <1>5, Own DEF Frame
  <2>4. QED
    BY <1>2, <1>6, <2>1, <2>2, <2>3
<1>9. \A u \in Threads \ {t, v} : spans'[u] = spans[u]
  BY <1>2, <1>3, <1>5, OtherSpans
<1>10. OwnerOK(t)' /\ LocalsOK(t)' /\ ThiefOK(t)'
  <2>1. OwnerOK(t)'
    BY <1>1, <1>7 DEF OwnerOK, Empties
  <2>2. LocalsOK(t)'
    BY <1>1, <1>3, <1>6 DEF LocalsOK
  <2>3. ThiefOK(t)'
    BY <1>1 DEF ThiefOK
  <2>4. QED
    BY <2>1, <2>2, <2>3
<1>11. NodesOK'
  <2> HIDE DEF k, v
  <2> DEFINE from == [u \in Threads |-> IF u = t THEN v ELSE u]
             off == [u \in Threads |-> IF u = v THEN k ELSE 0]
  <2>1. from \in [Threads -> Threads] /\ off \in [Threads -> Nat]
    BY <1>1, <1>6
  <2>2. \A u \in Threads : from[u] = (IF u = t THEN v ELSE u) /\ off[u] = IF u = v THEN k ELSE 0
    OBVIOUS
  <2> HIDE DEF from, off
  <2>3. spans' \in [Threads -> Int]
    <3>1. \A u \in Threads : spans'[u] \in Int
      BY <1>6, <1>7, <1>8, <1>9, SpansType
    <3>2. spans' = [u \in Threads |-> spans'[u]]
      BY DEF spans, SpanOf
    <3>3. QED
      BY <3>1, <3>2
  <2>4. Moved(rings, spans, rings', spans', from, off)
    <3>1. ASSUME NEW i \in Filled(spans', t)
          PROVE  i + 0 \in Filled(spans, v) /\ rings'[t][i] = rings[v][i + 0]
      <4>1. i \in 0..k - 1
        BY <1>7 DEF Filled
      <4>2. i + 0 = i /\ i \in 0..spans[v] - 1
        BY <1>6, <4>1
      <4>3. rings'[t] = rings[t]
        BY <1>1, <1>2
      <4>4. QED
        BY <1>1, <4>1, <4>2, <4>3 DEF Filled
    <3>2. ASSUME NEW i \in Filled(spans', v)
          PROVE  i + k \in Filled(spans, v) /\ rings'[v][i] = rings[v][i + k]
      <4>1. i \in 0..spans[v] - k - 1
        BY <1>8 DEF Filled
      <4>2. i \in Cells /\ i + k \in Cells /\ i + k \in 0..spans[v] - 1
        BY <1>6, <4>1, Constants DEF Cells
      <4>3. QED
        BY <1>2, <4>2 DEF Filled
    <3>3. ASSUME NEW u \in Threads \ {t, v}, NEW i \in Filled(spans', u)
          PROVE  i + 0 \in Filled(spans, u) /\ rings'[u][i] = rings[u][i + 0]
      <4>1. i \in 0..spans[u] - 1
        BY <1>9, <3>3 DEF Filled
      <4>2. i + 0 = i
        BY <4>1
      <4>3. QED
        BY <1>2, <4>1, <4>2 DEF Filled
    <3>4. QED
      BY <1>1, <2>2, <3>1, <3>2, <3>3 DEF Moved
  <2>5. MovedApart(spans', from, off)
    <3> SUFFICES ASSUME NEW u \in Threads, NEW w \in Threads,
                        NEW i \in Filled(spans', u), NEW j \in Filled(spans', w),
                        from[u] = from[w], i + off[u] = j + off[w], u # w
                 PROVE  FALSE
      BY DEF MovedApart
    <3>1. i \in Nat /\ j \in Nat
      BY <2>3 DEF Filled
    <3>2. CASE u = t /\ w = v
      <4>1. i < k
        BY <1>7, <3>2, <1>6 DEF Filled
      <4>2. i + 0 = j + k
        BY <1>1, <2>2, <3>2
      <4>3. QED
        BY <1>6, <3>1, <4>1, <4>2
    <3>3. CASE u = v /\ w = t
      <4>1. j < k
        BY <1>7, <3>3, <1>6 DEF Filled
      <4>2. i + k = j + 0
        BY <1>1, <2>2, <3>3
      <4>3. QED
        BY <1>6, <3>1, <4>1, <4>2
    <3>4. QED
      BY <1>1, <2>2, <3>2, <3>3
  <2>6. Dropped(list, list') /\ Leaves(gone', rings, spans, list, gone, spans', list', from, off)
    BY <1>3 DEF Dropped, Leaves
  <2>7. OnePlace(rings, spans, list, fresh, gone)
    BY DEF RingInv, NodesOK
  <2>8. OnePlace(rings', spans', list', fresh, gone')
    BY <2>1, <2>3, <2>4, <2>5, <2>6, <2>7, MoveApart
  <2>9. QED
    BY <1>3, <2>8 DEF NodesOK
<1>12. QED
  BY <1>2, <1>4, <1>5, <1>10, <1>11, StepOK

-----------------------------------------------------------------------------
(* The invariants *)

LEMMA RingInitOK ==
  ASSUME RingInit
  PROVE  RingInv
<1>1. RingTypeOK
  <2>1. <<>> \in Seq(Nodes) /\ Start \in 0..Modulus - 1 /\ 0 \in 0..CAPACITY /\ 1 \in 1..MaxNodes + 1
    BY Constants DEF Index
  <2>2. QED
    BY <2>1 DEF RingInit, RingTypeOK
<1>2. ASSUME NEW t \in Threads
      PROVE  /\ pc[t] = "idle" /\ n[t] = 0 /\ copied[t] = 0 /\ list[t] = <<>>
             /\ head[t] = Start /\ tail[t] = Start
  BY DEF RingInit
<1>3. ASSUME NEW t \in Threads PROVE sizes[t] = 0 /\ spans[t] = 0
  <2>1. sizes[t] = Minus(Start, Start)
    BY <1>1, <1>2, StateTypes
  <2>2. sizes[t] = 0
    BY <2>1, MinusZero, Constants
  <2>3. QED
    BY <1>1, <1>2, <2>2, SpanIs DEF Writing
<1>4. ASSUME NEW t \in Threads PROVE OwnerOK(t) /\ LocalsOK(t) /\ ThiefOK(t)
  BY <1>2, <1>3, Constants DEF OwnerOK, LocalsOK, ThiefOK, Empties
<1>5. NodesOK
  <2>1. \A t \in Threads : Filled(spans, t) = {} /\ DOMAIN list[t] = {}
    BY <1>2, <1>3 DEF Filled
  <2>2. gone = {}
    BY DEF RingInit
  <2>3. QED
    BY <2>1, <2>2 DEF NodesOK, OnePlace, Known, Apart
<1>6. QED
  BY <1>1, <1>4, <1>5 DEF RingInv

LEMMA RingStepOK ==
  ASSUME RingInv, [RingNext]_rvars
  PROVE  RingInv'
<1>1. CASE UNCHANGED rvars
  BY <1>1 DEF RingInv, RingTypeOK, OwnerOK, LocalsOK, ThiefOK, NodesOK, rvars, Size, rings, sizes, spans
<1>2. CASE RingNext
  <2> SUFFICES ASSUME NEW t \in Threads, RingStep(t) PROVE RingInv'
    BY <1>2 DEF RingNext
  <2>1. ASSUME NEW k \in 1..MaxList, Push(t, k) PROVE RingInv'
    BY <2>1, PushStep
  <2>2. CASE PushSlot(t)
    BY <2>2, PushSlotStep
  <2>3. CASE PushTail(t)
    BY <2>3, PushTailStep
  <2>4. CASE PushHead(t)
    BY <2>4, PushHeadStep
  <2>5. CASE Migrate(t)
    BY <2>5, MigrateStep
  <2>6. CASE MigrateFails(t)
    BY <2>6, MigrateFailsStep
  <2>7. CASE Pop(t)
    BY <2>7, PopStep
  <2>8. CASE PopCas(t)
    BY <2>8, PopCasStep
  <2>9. CASE PopFails(t)
    BY <2>9, PopFailsStep
  <2>10. ASSUME NEW k \in 1..CAPACITY + 1, Consume(t, k) PROVE RingInv'
    BY <2>10, ConsumeStep
  <2>11. CASE ConsumeSlot(t)
    BY <2>11, ConsumeSlotStep
  <2>12. CASE ConsumeTail(t)
    BY <2>12, ConsumeTailStep
  <2>13. ASSUME NEW v \in Threads \ {t}, Steal(t, v) PROVE RingInv'
    BY <2>13, StealStep
  <2>14. CASE StealTail(t)
    BY <2>14, StealTailStep
  <2>15. CASE StealHead(t)
    BY <2>15, StealHeadStep
  <2>16. CASE StealCopy(t)
    BY <2>16, StealCopyStep
  <2>17. CASE StealCas(t)
    BY <2>17, StealCasStep
  <2>18. CASE StealFails(t)
    BY <2>18, StealFailsStep
  <2>19. CASE StealPublish(t)
    BY <2>19, StealPublishStep
  <2>20. QED
    BY <2>1, <2>2, <2>3, <2>4, <2>5, <2>6, <2>7, <2>8, <2>9, <2>10, <2>11, <2>12, <2>13,
       <2>14, <2>15, <2>16, <2>17, <2>18, <2>19 DEF RingStep
<1>3. QED
  BY <1>1, <1>2

(* The inductive invariant of the rings: what each worker knows of its own  *)
(* ring and of its victim's, and that every node is in one place.           *)
THEOREM RingInvariant == RingSpec => []RingInv
<1>1. RingInit => RingInv
  BY RingInitOK
<1>2. RingInv /\ [RingNext]_rvars => RingInv'
  BY RingStepOK
<1>3. QED
  BY <1>1, <1>2, PTL DEF RingSpec

(* The fields and locals of push(), pop(), consume() and steal() keep their *)
(* types: in particular nothing but a node is ever returned or overflowed,  *)
(* although steal() may copy a slot that is being overwritten.              *)
THEOREM RingTypesHold == RingSpec => []RingTypeOK
<1>1. RingInv => RingTypeOK
  BY DEF RingInv
<1>2. QED
  BY <1>1, RingInvariant, PTL

(* No ring ever holds more than CAPACITY nodes and only a worker with an    *)
(* empty ring steals or consumes, for every capacity, every width of the    *)
(* indices and every number of workers: the debug_asserts of Buffer.        *)
THEOREM RingSizesHold == RingSpec => []RingSizes
<1>1. RingInv => RingSizes
  <2> SUFFICES ASSUME RingInv, NEW t \in Threads
               PROVE  /\ Minus(tail[t], head[t]) <= CAPACITY
                      /\ pc[t] \in {"consume", "stealHead", "stealTail", "copy", "publish"} =>
                           head[t] = tail[t]
    BY DEF RingSizes
  <2>1. sizes[t] = Minus(tail[t], head[t]) /\ sizes[t] <= CAPACITY
    BY Own, SizeBound
  <2>2. pc[t] \in Empties => head[t] = tail[t]
    BY Own DEF OwnerOK
  <2>3. QED
    BY <2>1, <2>2 DEF Empties
<1>2. QED
  BY <1>1, RingInvariant, PTL

-----------------------------------------------------------------------------
(* The rings implement the buffers *)

Bufs == [t \in Threads |-> Visible(t)]
Hand == [t \in Threads |-> Held(t)]

BufOf(ring, sz, t) == {ring[t][i] : i \in 0..sz[t] - 1}
HandOf(ring, sz, sp, lst, t) ==
  {lst[t][i] : i \in DOMAIN lst[t]} \cup {ring[t][i] : i \in sz[t]..sp[t] - 1}

MapOK ==
  \A t \in Threads : /\ Bufs[t] = BufOf(rings, sizes, t)
                     /\ Hand[t] = HandOf(rings, sizes, spans, list, t)

LEMMA TailWindow ==
  ASSUME RingInv, NEW t \in Threads, NEW k \in Nat, sizes[t] + k <= CAPACITY
  PROVE  Window(t, tail[t], k) = {rings[t][i] : i \in sizes[t]..sizes[t] + k - 1}
<1>1. RingTypeOK /\ sizes[t] \in Nat /\ head \in Indices /\ tail \in Indices
  BY Own, StateTypes
<1>2. ASSUME NEW j \in 0..k - 1
      PROVE  Slot(t, Plus(tail[t], j)) = rings[t][sizes[t] + j]
  <2>1. sizes[t] + j \in Cells /\ j \in Nat
    BY <1>1, Constants DEF Cells
  <2>2. Plus(tail[t], j) = Plus(head[t], SizeOf(head, tail)[t] + j)
    BY <1>1, <2>1, TailCell
  <2>3. Plus(tail[t], j) = Plus(head[t], sizes[t] + j)
    BY <2>2 DEF sizes
  <2>4. QED
    BY <1>1, <2>1, <2>3, SlotCell
<1>3. \A j \in 0..k - 1 : sizes[t] + j \in sizes[t]..sizes[t] + k - 1
  BY <1>1
<1>4. \A i \in sizes[t]..sizes[t] + k - 1 : i - sizes[t] \in 0..k - 1 /\ sizes[t] + (i - sizes[t]) = i
  BY <1>1
<1>5. ASSUME NEW x \in Window(t, tail[t], k)
      PROVE  x \in {rings[t][i] : i \in sizes[t]..sizes[t] + k - 1}
  <2>1. PICK j \in 0..k - 1 : x = Slot(t, Plus(tail[t], j))
    BY <1>5 DEF Window
  <2>2. QED
    BY <1>2, <1>3, <2>1
<1>6. ASSUME NEW i \in sizes[t]..sizes[t] + k - 1
      PROVE  rings[t][i] \in Window(t, tail[t], k)
  <2>1. rings[t][i] = Slot(t, Plus(tail[t], i - sizes[t]))
    BY <1>2, <1>4
  <2>2. QED
    BY <1>4, <2>1 DEF Window
<1>7. QED
  BY <1>5, <1>6

LEMMA Mapped == RingInv => MapOK
<1> SUFFICES ASSUME RingInv, NEW t \in Threads
             PROVE  /\ Bufs[t] = BufOf(rings, sizes, t)
                    /\ Hand[t] = HandOf(rings, sizes, spans, list, t)
  BY DEF MapOK
<1>1. /\ RingTypeOK /\ sizes[t] \in Nat /\ n[t] \in Nat /\ sizes[t] = Minus(tail[t], head[t])
      /\ sizes[t] \in 0..CAPACITY /\ spans[t] <= CAPACITY
  BY Own, SizeBound, Constants
<1>2. Bufs[t] = BufOf(rings, sizes, t)
  BY <1>1, WindowCells DEF Bufs, Visible, BufOf
<1>3. Hand[t] = HandOf(rings, sizes, spans, list, t)
  <2>1. spans[t] = sizes[t] + (IF pc[t] \in Writing THEN n[t] ELSE 0)
    BY <1>1, SpanIs
  <2>2. CASE pc[t] \in Writing
    <3>1. spans[t] = sizes[t] + n[t] /\ sizes[t] + n[t] <= CAPACITY
      BY <1>1, <2>1, <2>2
    <3>2. Window(t, tail[t], n[t]) = {rings[t][i] : i \in sizes[t]..spans[t] - 1}
      <4>1. Window(t, tail[t], n[t]) = {rings[t][i] : i \in sizes[t]..sizes[t] + n[t] - 1}
        BY <1>1, <3>1, TailWindow
      <4>2. sizes[t]..sizes[t] + n[t] - 1 = sizes[t]..spans[t] - 1
        BY <1>1, <3>1
      <4>3. QED
        BY <4>1, <4>2
    <3>3. QED
      BY <2>2, <3>2 DEF Hand, Held, HandOf, Writing
  <2>3. CASE pc[t] \notin Writing
    <3>1. spans[t] = sizes[t]
      BY <1>1, <2>1, <2>3
    <3>2. {rings[t][i] : i \in sizes[t]..spans[t] - 1} = {}
      BY <1>1, <3>1
    <3>3. QED
      BY <2>3, <3>2 DEF Hand, Held, HandOf, Writing
  <2>4. QED
    BY <2>2, <2>3
<1>4. QED
  BY <1>2, <1>3

LEMMA MappedNext == RingInv' => MapOK'
BY Mapped, PTL

LEMMA MapFunctions ==
  /\ Bufs = [t \in Threads |-> Bufs[t]] /\ Bufs' = [t \in Threads |-> Bufs'[t]]
  /\ Hand = [t \in Threads |-> Hand[t]] /\ Hand' = [t \in Threads |-> Hand'[t]]
BY DEF Bufs, Hand

\* A worker whose ring and list stay as they are.
LEMMA SameMap ==
  ASSUME RingInv, RingInv', NEW u \in Threads,
         sizes'[u] = sizes[u], spans'[u] = spans[u], list'[u] = list[u],
         \A i \in Filled(spans, u) : rings'[u][i] = rings[u][i]
  PROVE  Bufs'[u] = Bufs[u] /\ Hand'[u] = Hand[u]
<1>1. /\ Bufs[u] = BufOf(rings, sizes, u) /\ Hand[u] = HandOf(rings, sizes, spans, list, u)
      /\ Bufs'[u] = BufOf(rings', sizes', u) /\ Hand'[u] = HandOf(rings', sizes', spans', list', u)
  BY Mapped, MappedNext DEF MapOK
<1>2. \A i \in 0..sizes[u] - 1 : i \in Filled(spans, u)
  BY SizeBound DEF Filled
<1>3. \A i \in sizes[u]..spans[u] - 1 : i \in Filled(spans, u)
  BY SizeBound DEF Filled
<1>4. BufOf(rings', sizes', u) = BufOf(rings, sizes, u)
  BY <1>2 DEF BufOf
<1>5. HandOf(rings', sizes', spans', list', u) = HandOf(rings, sizes, spans, list, u)
  BY <1>3 DEF HandOf
<1>6. QED
  BY <1>1, <1>4, <1>5

LEMMA QuietMap ==
  ASSUME RingInv, RingInv', Quiet
  PROVE  UNCHANGED <<Bufs, Hand, gone>>
<1>1. \A u \in Threads : Bufs'[u] = Bufs[u] /\ Hand'[u] = Hand[u]
  BY SameMap DEF Quiet
<1>2. QED
  BY <1>1, MapFunctions DEF Quiet

LEMMA HeadOrTail ==
  ASSUME NEW s \in Seq(Nodes), s # <<>>
  PROVE  {s[i] : i \in DOMAIN s} = {Head(s)} \cup {Tail(s)[i] : i \in DOMAIN Tail(s)}
<1> DEFINE m == Len(s)
           r == Tail(s)
<1>1. m \in Nat \ {0} /\ DOMAIN s = 1..m /\ Head(s) = s[1]
  OBVIOUS
<1>2. DOMAIN r = 1..m - 1 /\ \A i \in 1..m - 1 : r[i] = s[i + 1]
  OBVIOUS
<1> HIDE DEF m, r
<1>3. ASSUME NEW i \in 1..m PROVE s[i] = s[1] \/ \E j \in 1..m - 1 : s[i] = r[j]
  <2>1. CASE i = 1
    BY <2>1
  <2>2. CASE i # 1
    <3>1. i - 1 \in 1..m - 1 /\ (i - 1) + 1 = i
      BY <1>1, <2>2
    <3>2. s[i] = r[i - 1]
      BY <1>2, <3>1
    <3>3. QED
      BY <3>1, <3>2
  <2>3. QED
    BY <2>1, <2>2
<1>4. 1 \in 1..m /\ \A j \in 1..m - 1 : j + 1 \in 1..m
  BY <1>1
<1>5. {s[i] : i \in 1..m} = {s[1]} \cup {r[j] : j \in 1..m - 1}
  BY <1>2, <1>3, <1>4
<1>6. QED
  BY <1>1, <1>2, <1>5 DEF r

\* A node that goes from the list into a cell stays in the same hand.
LEMMA WriteMap ==
  ASSUME RingInv, RingInv', NEW t \in Threads, WriteNext(t), pc[t] \in {"push", "consume"},
         spans[t] < CAPACITY
  PROVE  UNCHANGED <<Bufs, Hand, gone>>
<1>1. /\ rings' = [rings EXCEPT ![t][spans[t]] = Head(list[t])]
      /\ sizes' = sizes /\ spans' = [spans EXCEPT ![t] = @ + 1]
  BY WriteFacts
<1>2. /\ rings \in Arrays /\ spans \in Lens /\ list \in Lists /\ sizes[t] \in Nat /\ sizes[t] <= spans[t]
      /\ spans[t] \in Nat /\ spans[t] \in Cells
  <2>1. rings \in Arrays /\ list \in Lists /\ spans \in Lens
    BY Own, StateTypes, SpansType
  <2>2. sizes[t] \in Nat /\ sizes[t] <= spans[t] /\ spans[t] \in Nat
    BY SizeBound
  <2>3. QED
    BY <2>1, <2>2, Constants DEF Cells
<1>3. /\ list[t] # <<>> /\ list[t] \in Seq(Nodes) /\ list'[t] = Tail(list[t])
      /\ \A u \in Threads \ {t} : list'[u] = list[u]
  BY <1>2 DEF WriteNext, Lists
<1>4. /\ spans'[t] = spans[t] + 1 /\ rings'[t][spans[t]] = Head(list[t])
      /\ \A i \in Filled(spans, t) : rings'[t][i] = rings[t][i]
      /\ \A u \in Threads \ {t} : spans'[u] = spans[u] /\ rings'[u] = rings[u]
  BY <1>1, <1>2 DEF Arrays, Lens, Filled
<1>5. \A u \in Threads \ {t} : Bufs'[u] = Bufs[u] /\ Hand'[u] = Hand[u]
  BY <1>1, <1>3, <1>4, SameMap
<1>6. /\ Bufs[t] = BufOf(rings, sizes, t) /\ Hand[t] = HandOf(rings, sizes, spans, list, t)
      /\ Bufs'[t] = BufOf(rings', sizes', t) /\ Hand'[t] = HandOf(rings', sizes', spans', list', t)
  BY Mapped, MappedNext DEF MapOK
<1>7. BufOf(rings', sizes', t) = BufOf(rings, sizes, t)
  <2>1. \A i \in 0..sizes[t] - 1 : i \in Filled(spans, t)
    BY <1>2 DEF Filled
  <2>2. QED
    BY <1>1, <1>4, <2>1 DEF BufOf
<1>8. HandOf(rings', sizes', spans', list', t) = HandOf(rings, sizes, spans, list, t)
  <2>1. {rings'[t][i] : i \in sizes[t]..(spans[t] + 1) - 1} =
          {rings[t][i] : i \in sizes[t]..spans[t] - 1} \cup {Head(list[t])}
    <3>1. \A i \in sizes[t]..spans[t] - 1 : i \in Filled(spans, t) /\ i \in sizes[t]..(spans[t] + 1) - 1
      BY <1>2 DEF Filled
    <3>2. \A i \in sizes[t]..(spans[t] + 1) - 1 : i = spans[t] \/ i \in sizes[t]..spans[t] - 1
      BY <1>2
    <3>3. spans[t] \in sizes[t]..(spans[t] + 1) - 1
      BY <1>2
    <3>4. QED
      BY <1>4, <3>1, <3>2, <3>3
  <2>2. {list[t][i] : i \in DOMAIN list[t]} =
          {Head(list[t])} \cup {list'[t][i] : i \in DOMAIN list'[t]}
    <3> DEFINE s == list[t]
    <3>1. s \in Seq(Nodes) /\ s # <<>> /\ list'[t] = Tail(s)
      BY <1>3
    <3> HIDE DEF s
    <3>2. {s[i] : i \in DOMAIN s} = {Head(s)} \cup {Tail(s)[i] : i \in DOMAIN Tail(s)}
      BY <3>1, HeadOrTail
    <3>3. QED
      BY <3>1, <3>2 DEF s
  <2>3. sizes'[t] = sizes[t] /\ spans'[t] = spans[t] + 1
    BY <1>1, <1>4
  <2>4. QED
    BY <2>1, <2>2, <2>3 DEF HandOf
<1>9. \A u \in Threads : Bufs'[u] = Bufs[u] /\ Hand'[u] = Hand[u]
  BY <1>5, <1>6, <1>7, <1>8
<1>10. QED
  BY <1>9, MapFunctions DEF WriteNext

\* The actions of WorkBuffers, in terms of the two maps.
LEMMA AbstractPop ==
  ASSUME NEW t \in Threads, NEW x \in Bufs[t],
         Bufs' = [Bufs EXCEPT ![t] = @ \ {x}], gone' = gone \cup {x}, Hand' = Hand
  PROVE  abstract!Pop(t)
BY DEF abstract!Pop, Bufs, Hand

LEMMA AbstractReturn ==
  ASSUME NEW t \in Threads, NEW x \in Hand[t],
         Bufs' = [Bufs EXCEPT ![t] = @ \cup (Hand[t] \ {x})],
         Hand' = [Hand EXCEPT ![t] = {}], gone' = gone \cup {x}
  PROVE  abstract!Return(t)
BY DEF abstract!Return, Bufs, Hand

LEMMA SameCardinality == \A S : abstract!Cardinality(S) = Cardinality(S)
BY DEF abstract!Cardinality, Cardinality

LEMMA AbstractPublish ==
  ASSUME NEW t \in Threads, NEW S \in SUBSET Hand[t], S # {},
         Cardinality(Bufs[t] \cup S) <= CAPACITY,
         Bufs' = [Bufs EXCEPT ![t] = @ \cup S], Hand' = [Hand EXCEPT ![t] = @ \ S],
         UNCHANGED gone
  PROVE  abstract!Publish(t)
<1>1. \E T \in SUBSET Hand[t] :
        /\ T # {} /\ Cardinality(Bufs[t] \cup T) <= CAPACITY
        /\ Bufs' = [Bufs EXCEPT ![t] = @ \cup T]
        /\ Hand' = [Hand EXCEPT ![t] = @ \ T]
        /\ UNCHANGED gone
  OBVIOUS
<1>2. QED
  BY <1>1, SameCardinality, Zenon DEF abstract!Publish, Bufs, Hand

LEMMA AbstractOverflow ==
  ASSUME NEW t \in Threads, NEW S \in SUBSET Bufs[t],
         Cardinality(Bufs[t]) = CAPACITY, Cardinality(S) = CAPACITY \div 2,
         Bufs' = [Bufs EXCEPT ![t] = @ \ S], Hand' = [Hand EXCEPT ![t] = {}],
         gone' = gone \cup S \cup Hand[t]
  PROVE  abstract!Overflow(t)
<1>1. /\ Cardinality(Bufs[t]) = CAPACITY
      /\ \E T \in SUBSET Bufs[t] :
           /\ Cardinality(T) = CAPACITY \div 2
           /\ Bufs' = [Bufs EXCEPT ![t] = @ \ T]
           /\ gone' = gone \cup T \cup Hand[t]
      /\ Hand' = [Hand EXCEPT ![t] = {}]
  OBVIOUS
<1>2. QED
  BY <1>1, SameCardinality, Zenon DEF abstract!Overflow, Bufs, Hand

LEMMA AbstractSteal ==
  ASSUME NEW t \in Threads, NEW v \in Threads, NEW S \in SUBSET Bufs[v],
         Bufs[t] = {}, Hand[t] = {}, S # {},
         Cardinality(S) <= Cardinality(Bufs[v]) - Cardinality(Bufs[v]) \div 2,
         Bufs' = [Bufs EXCEPT ![v] = @ \ S], Hand' = [Hand EXCEPT ![t] = S],
         UNCHANGED gone
  PROVE  abstract!Steal(t, v)
<1>1. /\ Bufs[t] = {} /\ Hand[t] = {}
      /\ \E T \in SUBSET Bufs[v] :
           /\ T # {} /\ Cardinality(T) <= Cardinality(Bufs[v]) - Cardinality(Bufs[v]) \div 2
           /\ Bufs' = [Bufs EXCEPT ![v] = @ \ T]
           /\ Hand' = [Hand EXCEPT ![t] = T]
      /\ UNCHANGED gone
  OBVIOUS
<1>2. QED
  BY <1>1, SameCardinality, Zenon DEF abstract!Steal, Bufs, Hand

LEMMA AbstractBring ==
  ASSUME NEW t \in Threads, Hand[t] = {}, NEW S \in SUBSET Nodes,
         \A x \in S : x \notin gone /\ \A u \in Threads : x \notin Bufs[u] /\ x \notin Hand[u],
         Hand' = [Hand EXCEPT ![t] = S], UNCHANGED <<Bufs, gone>>
  PROVE  abstract!Bring(t)
<1>1. S \in SUBSET (Nodes \ (gone \cup UNION {Bufs[u] \cup Hand[u] : u \in Threads}))
  OBVIOUS
<1>2. /\ Hand[t] = {}
      /\ \E T \in SUBSET (Nodes \ (gone \cup UNION {Bufs[u] \cup Hand[u] : u \in Threads})) :
           Hand' = [Hand EXCEPT ![t] = T]
      /\ UNCHANGED <<Bufs, gone>>
  BY <1>1
<1>3. QED
  BY <1>2, Zenon DEF abstract!Bring, abstract!InUse, Bufs, Hand

LEMMA MapChange ==
  ASSUME NEW t \in Threads
  PROVE  /\ \A X : Bufs'[t] = X /\ (\A u \in Threads \ {t} : Bufs'[u] = Bufs[u])
                   => Bufs' = [Bufs EXCEPT ![t] = X]
         /\ \A X : Hand'[t] = X /\ (\A u \in Threads \ {t} : Hand'[u] = Hand[u])
                   => Hand' = [Hand EXCEPT ![t] = X]
BY MapFunctions

LEMMA OtherMap ==
  ASSUME RingInv, RingInv', NEW t \in Threads, Frame(t), NEW u \in Threads \ {t},
         sizes'[u] = sizes[u], rings'[u] = rings[u]
  PROVE  Bufs'[u] = Bufs[u] /\ Hand'[u] = Hand[u]
<1>1. spans'[u] = spans[u] /\ list'[u] = list[u]
  BY Own, OtherSpans DEF Frame
<1>2. QED
  BY <1>1, SameMap

LEMMA IdleHand ==
  ASSUME RingInv, NEW t \in Threads, Done(t)
  PROVE  Hand'[t] = {}
<1>1. pc'[t] = "idle" /\ list'[t] = <<>>
  BY Own, DoneFacts
<1>2. QED
  BY <1>1 DEF Hand, Held

LEMMA CellsDiffer ==
  ASSUME RingInv, NEW t \in Threads, NEW u \in Threads,
         NEW i \in Filled(spans, t), NEW j \in Filled(spans, u), rings[t][i] = rings[u][j]
  PROVE  t = u /\ i = j
BY DEF RingInv, NodesOK, OnePlace, Apart

LEMMA CellsNotListed ==
  ASSUME RingInv, NEW t \in Threads, NEW u \in Threads, NEW i \in Filled(spans, t)
  PROVE  rings[t][i] \notin ListNodes(u)
BY DEF RingInv, NodesOK, OnePlace, Apart, ListNodes

\* k different cells hold k nodes.
LEMMA CountCells ==
  ASSUME NEW f, NEW k \in Nat, \A i, j \in 0..k - 1 : f[i] = f[j] => i = j
  PROVE  /\ IsFiniteSet({f[i] : i \in 0..k - 1})
         /\ Cardinality({f[i] : i \in 0..k - 1}) = k
<1> DEFINE S == 0..k - 1
           T == {f[i] : i \in S}
           g == [i \in S |-> f[i]]
<1>1. IsFiniteSet(S) /\ Cardinality(S) = k
  <2>1. 0 \in Int /\ k - 1 \in Int
    OBVIOUS
  <2>2. IsFiniteSet(0..k - 1) /\ Cardinality(0..k - 1) = IF 0 > k - 1 THEN 0 ELSE (k - 1) - 0 + 1
    BY <2>1, FS_Interval
  <2>3. QED
    BY <2>2
<1>2. g \in Bijection(S, T)
  BY DEF Bijection, Injection, Surjection, IsInjective
<1>3. ExistsBijection(S, T)
  BY <1>2 DEF ExistsBijection
<1>4. QED
  BY <1>1, <1>3, FS_Bijection

LEMMA CountBuf ==
  ASSUME RingInv, NEW t \in Threads, NEW k \in Nat, k <= spans[t]
  PROVE  Cardinality({rings[t][i] : i \in 0..k - 1}) = k
<1>1. \A i \in 0..k - 1 : i \in Filled(spans, t)
  BY SizeBound DEF Filled
<1>2. \A i, j \in 0..k - 1 : rings[t][i] = rings[t][j] => i = j
  BY <1>1, CellsDiffer
<1>3. QED
  BY <1>2, CountCells

LEMMA BringMap ==
  ASSUME RingInv, RingInv', NEW t \in Threads, NEW k \in Nat \ {0}, Brings(t, k)
  PROVE  abstract!Bring(t)
<1> DEFINE S == {list'[t][i] : i \in DOMAIN list'[t]}
<1>1. /\ Bring(t, k) /\ Frame(t) /\ list[t] = <<>> /\ spans[t] = sizes[t]
      /\ rings' = rings /\ sizes' = sizes /\ spans' = spans /\ gone' = gone
  BY DEF Brings
<1>2. /\ Bufs[t] = BufOf(rings, sizes, t) /\ Hand[t] = HandOf(rings, sizes, spans, list, t)
      /\ Bufs'[t] = BufOf(rings', sizes', t) /\ Hand'[t] = HandOf(rings', sizes', spans', list', t)
  BY Mapped, MappedNext DEF MapOK
<1>3. {rings[t][i] : i \in sizes[t]..spans[t] - 1} = {}
  BY <1>1, SizeBound
<1>4. Hand[t] = {} /\ Hand'[t] = S /\ Bufs'[t] = Bufs[t]
  <2>1. {list[t][i] : i \in DOMAIN list[t]} = {}
    BY <1>1
  <2>2. HandOf(rings', sizes', spans', list', t) = S \cup {rings[t][i] : i \in sizes[t]..spans[t] - 1}
    BY <1>1 DEF HandOf
  <2>3. HandOf(rings, sizes, spans, list, t) = {}
    BY <1>3, <2>1 DEF HandOf
  <2>4. Bufs'[t] = Bufs[t]
    BY <1>1, <1>2
  <2>5. QED
    BY <1>2, <1>3, <2>2, <2>3, <2>4
<1>5. /\ list'[t] = [i \in 1..k |-> fresh + i - 1]
      /\ list' \in [Threads -> Seq(Nodes)] /\ fresh \in Nat \ {0}
  BY <1>1, Own, BringFacts, StateTypes
<1>6. S \subseteq Nodes
  <2>1. list'[t] \in Seq(Nodes)
    BY <1>5
  <2>2. \A i \in DOMAIN list'[t] : list'[t][i] \in Nodes
    BY <2>1
  <2>3. QED
    BY <2>2
<1>7. \A x \in S : x \notin 1..fresh - 1
  BY <1>5
<1>8. ASSUME NEW u \in Threads PROVE Bufs[u] \subseteq 1..fresh - 1 /\ Hand[u] \subseteq 1..fresh - 1
  <2>1. Bufs[u] = BufOf(rings, sizes, u) /\ Hand[u] = HandOf(rings, sizes, spans, list, u)
    BY Mapped DEF MapOK
  <2>2. /\ \A i \in Filled(spans, u) : rings[u][i] \in 1..fresh - 1
        /\ \A i \in DOMAIN list[u] : list[u][i] \in 1..fresh - 1
    BY DEF RingInv, NodesOK, OnePlace, Known
  <2>3. /\ \A i \in 0..sizes[u] - 1 : i \in Filled(spans, u)
        /\ \A i \in sizes[u]..spans[u] - 1 : i \in Filled(spans, u)
    BY SizeBound DEF Filled
  <2>4. QED
    BY <2>1, <2>2, <2>3 DEF BufOf, HandOf
<1>9. gone \subseteq 1..fresh - 1
  BY DEF RingInv, NodesOK, OnePlace, Known
<1> HIDE DEF S
<1>10. \A u \in Threads \ {t} : Bufs'[u] = Bufs[u] /\ Hand'[u] = Hand[u]
  BY <1>1, OtherMap
<1>11. Hand' = [Hand EXCEPT ![t] = S] /\ Bufs' = Bufs
  BY <1>4, <1>10, MapFunctions
<1>12. \A x \in S : x \notin gone /\ \A u \in Threads : x \notin Bufs[u] /\ x \notin Hand[u]
  BY <1>7, <1>8, <1>9
<1>13. S \in SUBSET Nodes /\ UNCHANGED <<Bufs, gone>>
  BY <1>1, <1>6, <1>11
<1>14. QED
  BY <1>4, <1>11, <1>12, <1>13, AbstractBring

LEMMA PublishMap ==
  ASSUME RingInv, RingInv', NEW t \in Threads, Publishes(t)
  PROVE  abstract!Publish(t)
<1> DEFINE S == {rings[t][i] : i \in sizes[t]..spans[t] - 1}
           L == {list[t][i] : i \in DOMAIN list[t]}
<1>1. /\ Frame(t) /\ rings' = rings /\ spans' = spans /\ sizes'[t] = spans[t]
      /\ \A u \in Threads \ {t} : sizes'[u] = sizes[u]
      /\ list' = list /\ gone' = gone /\ sizes[t] < spans[t]
  BY DEF Publishes
<1>2. sizes[t] \in Nat /\ spans[t] \in Nat /\ spans[t] <= CAPACITY
  BY SizeBound
<1>3. /\ Bufs[t] = BufOf(rings, sizes, t) /\ Hand[t] = HandOf(rings, sizes, spans, list, t)
      /\ Bufs'[t] = BufOf(rings', sizes', t) /\ Hand'[t] = HandOf(rings', sizes', spans', list', t)
  BY Mapped, MappedNext DEF MapOK
<1>4. Bufs'[t] = {rings[t][i] : i \in 0..spans[t] - 1} /\ Bufs'[t] = Bufs[t] \cup S
  <2>1. /\ \A i \in 0..spans[t] - 1 : i \in 0..sizes[t] - 1 \/ i \in sizes[t]..spans[t] - 1
        /\ \A i \in 0..sizes[t] - 1 : i \in 0..spans[t] - 1
        /\ \A i \in sizes[t]..spans[t] - 1 : i \in 0..spans[t] - 1
    BY <1>1, <1>2
  <2>2. Bufs'[t] = {rings[t][i] : i \in 0..spans[t] - 1} /\ Bufs[t] = {rings[t][i] : i \in 0..sizes[t] - 1}
    BY <1>1, <1>3 DEF BufOf
  <2>3. QED
    BY <2>1, <2>2
<1>5. Cardinality(Bufs[t] \cup S) <= CAPACITY
  <2>1. Cardinality({rings[t][i] : i \in 0..spans[t] - 1}) = spans[t]
    BY <1>2, CountBuf
  <2>2. QED
    BY <1>2, <1>4, <2>1
<1>6. S # {}
  <2>1. sizes[t] \in sizes[t]..spans[t] - 1
    BY <1>1, <1>2
  <2>2. QED
    BY <2>1
<1>7. Hand[t] = L \cup S /\ Hand'[t] = L
  <2>1. {rings[t][i] : i \in spans[t]..spans[t] - 1} = {}
    BY <1>2
  <2>2. QED
    BY <1>1, <1>3, <2>1 DEF HandOf
<1>8. \A x \in S : x \notin L
  <2>1. \A i \in sizes[t]..spans[t] - 1 : i \in Filled(spans, t)
    BY <1>2 DEF Filled
  <2>2. QED
    BY <2>1, CellsNotListed DEF ListNodes
<1> HIDE DEF S, L
<1>9. Hand'[t] = Hand[t] \ S /\ S \in SUBSET Hand[t]
  BY <1>7, <1>8
<1>10. \A u \in Threads \ {t} : Bufs'[u] = Bufs[u] /\ Hand'[u] = Hand[u]
  BY <1>1, OtherMap
<1>11. Bufs' = [Bufs EXCEPT ![t] = @ \cup S] /\ Hand' = [Hand EXCEPT ![t] = @ \ S]
  BY <1>4, <1>9, <1>10, MapFunctions
<1>12. QED
  BY <1>1, <1>5, <1>6, <1>9, <1>11, AbstractPublish

\* What is left of a buffer when its first k nodes are taken.
LEMMA RestOf ==
  ASSUME RingInv, RingInv', NEW v \in Threads, NEW k \in 1..sizes[v], MovesHead(v, k)
  PROVE  LET S == {rings[v][i] : i \in 0..k - 1}
         IN  /\ Bufs'[v] = Bufs[v] \ S /\ S \in SUBSET Bufs[v] /\ S # {}
             /\ Cardinality(S) = k /\ Cardinality(Bufs[v]) = sizes[v]
             /\ Window(v, head[v], k) = S
<1> DEFINE S == {rings[v][i] : i \in 0..k - 1}
<1>1. /\ sizes'[v] = sizes[v] - k
      /\ \A i \in Cells : i + k \in Cells => rings'[v][i] = rings[v][i + k]
  BY HeadFacts
<1>2. /\ sizes[v] \in Nat /\ spans[v] \in Nat /\ sizes[v] <= spans[v] /\ sizes[v] <= CAPACITY
      /\ k \in Nat \ {0} /\ k <= sizes[v]
  BY SizeBound
<1>3. Bufs[v] = {rings[v][i] : i \in 0..sizes[v] - 1}
  BY Mapped DEF MapOK, BufOf
<1>4. Bufs'[v] = {rings'[v][i] : i \in 0..(sizes[v] - k) - 1}
  BY <1>1, MappedNext DEF MapOK, BufOf
<1>5. Cardinality(S) = k /\ Cardinality(Bufs[v]) = sizes[v]
  <2>1. Cardinality({rings[v][i] : i \in 0..sizes[v] - 1}) = sizes[v]
    BY <1>2, CountBuf
  <2>2. k \in Nat /\ k <= spans[v]
    BY <1>2
  <2>3. Cardinality(S) = k
    BY <2>2, CountBuf
  <2>4. QED
    BY <1>3, <2>1, <2>3
<1>6. Window(v, head[v], k) = S
  <2>1. k \in 0..CAPACITY
    BY <1>2, Constants
  <2>2. QED
    BY <2>1, Own, WindowCells
<1>7. \A i \in 0..sizes[v] - 1, j \in 0..sizes[v] - 1 : rings[v][i] = rings[v][j] => i = j
  <2>1. \A i \in 0..sizes[v] - 1 : i \in Filled(spans, v)
    BY <1>2 DEF Filled
  <2>2. QED
    BY <2>1, CellsDiffer
<1>8. \A i \in 0..k - 1 : i \in 0..sizes[v] - 1
  BY <1>2
<1>9. S \in SUBSET Bufs[v] /\ S # {}
  <2>1. 0 \in 0..k - 1
    BY <1>2
  <2>2. QED
    BY <1>3, <1>8, <2>1
<1>10. \A i \in 0..(sizes[v] - k) - 1 :
         /\ i + k \in 0..sizes[v] - 1 /\ i + k \notin 0..k - 1
         /\ rings'[v][i] = rings[v][i + k]
  <2> SUFFICES ASSUME NEW i \in 0..(sizes[v] - k) - 1
               PROVE  /\ i + k \in 0..sizes[v] - 1 /\ i + k \notin 0..k - 1
                      /\ rings'[v][i] = rings[v][i + k]
    OBVIOUS
  <2>1. i + k \in 0..sizes[v] - 1 /\ i + k \notin 0..k - 1
    BY <1>2
  <2>2. i \in Cells /\ i + k \in Cells
    BY <1>2, Constants DEF Cells
  <2>3. QED
    BY <1>1, <2>1, <2>2
<1>11. Bufs'[v] = Bufs[v] \ S
  <2>1. ASSUME NEW x \in Bufs'[v] PROVE x \in Bufs[v] \ S
    <3>1. PICK i \in 0..(sizes[v] - k) - 1 : x = rings'[v][i]
      BY <1>4, <2>1
    <3>2. x = rings[v][i + k] /\ i + k \in 0..sizes[v] - 1 /\ i + k \notin 0..k - 1
      BY <1>10, <3>1
    <3>3. x \in Bufs[v]
      BY <1>3, <3>2
    <3>4. ASSUME x \in S PROVE FALSE
      <4>1. PICK j \in 0..k - 1 : x = rings[v][j]
        BY <3>4
      <4>2. j = i + k
        BY <1>7, <1>8, <3>2, <4>1
      <4>3. QED
        BY <3>2, <4>2
    <3>5. QED
      BY <3>3, <3>4
  <2>2. ASSUME NEW x \in Bufs[v] \ S PROVE x \in Bufs'[v]
    <3>1. PICK j \in 0..sizes[v] - 1 : x = rings[v][j]
      BY <1>3, <2>2
    <3>2. j \notin 0..k - 1
      BY <2>2, <3>1
    <3>3. j - k \in 0..(sizes[v] - k) - 1 /\ (j - k) + k = j
      BY <1>2, <3>2
    <3>4. x = rings'[v][j - k]
      BY <1>10, <3>1, <3>3
    <3>5. QED
      BY <1>4, <3>3, <3>4
  <2>3. QED
    BY <2>1, <2>2
<1>12. QED
  BY <1>5, <1>6, <1>9, <1>11

LEMMA TakesFirstMap ==
  ASSUME RingInv, RingInv', NEW t \in Threads, NEW k \in 1..sizes[t], TakesFirst(t, k), Frame(t),
         spans[t] = sizes[t]
  PROVE  LET S == {rings[t][i] : i \in 0..k - 1}
         IN  /\ Bufs' = [Bufs EXCEPT ![t] = @ \ S] /\ Hand' = [Hand EXCEPT ![t] = {}]
             /\ S \in SUBSET Bufs[t] /\ Hand[t] = ListNodes(t)
             /\ Cardinality(S) = k /\ Cardinality(Bufs[t]) = sizes[t]
             /\ gone' = gone \cup S \cup Hand[t]
<1> DEFINE S == {rings[t][i] : i \in 0..k - 1}
<1>1. MovesHead(t, k) /\ Done(t) /\ gone' = gone \cup Window(t, head[t], k) \cup ListNodes(t)
  BY DEF TakesFirst
<1>2. /\ Bufs'[t] = Bufs[t] \ S /\ S \in SUBSET Bufs[t]
      /\ Cardinality(S) = k /\ Cardinality(Bufs[t]) = sizes[t]
      /\ Window(t, head[t], k) = S
  BY <1>1, RestOf
<1>3. Hand'[t] = {}
  BY <1>1, IdleHand
<1>4. Hand[t] = ListNodes(t)
  <2>1. {rings[t][i] : i \in sizes[t]..spans[t] - 1} = {}
    BY SizeBound
  <2>2. Hand[t] = HandOf(rings, sizes, spans, list, t)
    BY Mapped DEF MapOK
  <2>3. QED
    BY <2>1, <2>2 DEF HandOf, ListNodes
<1>5. \A u \in Threads \ {t} : Bufs'[u] = Bufs[u] /\ Hand'[u] = Hand[u]
  BY <1>1, HeadFacts, OtherMap
<1> HIDE DEF S
<1>6. Bufs' = [Bufs EXCEPT ![t] = @ \ S] /\ Hand' = [Hand EXCEPT ![t] = {}]
  BY <1>2, <1>3, <1>5, MapFunctions
<1>7. gone' = gone \cup S \cup Hand[t]
  BY <1>1, <1>2, <1>4
<1>8. QED
  BY <1>2, <1>4, <1>6, <1>7 DEF S

LEMMA MigrateMap ==
  ASSUME RingInv, RingInv', NEW t \in Threads, Migrate(t)
  PROVE  abstract!Overflow(t)
<1> DEFINE k == CAPACITY \div 2
           S == {rings[t][i] : i \in 0..k - 1}
<1>1. spans[t] = sizes[t] /\ sizes[t] = CAPACITY /\ k \in 1..sizes[t] /\ TakesFirst(t, k)
  BY MigrateIs
<1>2. Frame(t)
  BY <1>1, TakesFirstStep
<1>3. /\ Bufs' = [Bufs EXCEPT ![t] = @ \ S] /\ Hand' = [Hand EXCEPT ![t] = {}]
      /\ S \in SUBSET Bufs[t]
      /\ Cardinality(S) = k /\ Cardinality(Bufs[t]) = sizes[t]
      /\ gone' = gone \cup S \cup Hand[t]
  BY <1>1, <1>2, TakesFirstMap
<1> HIDE DEF S
<1>4. QED
  BY <1>1, <1>3, AbstractOverflow

LEMMA PopMap ==
  ASSUME RingInv, RingInv', NEW t \in Threads, PopCas(t)
  PROVE  abstract!Pop(t)
<1> DEFINE S == {rings[t][i] : i \in 0..1 - 1}
           x == rings[t][0]
<1>1. list[t] = <<>> /\ spans[t] = sizes[t] /\ 1 \in 1..sizes[t] /\ TakesFirst(t, 1)
  BY PopCasIs
<1>2. Frame(t)
  BY <1>1, TakesFirstStep
<1>3. /\ Bufs' = [Bufs EXCEPT ![t] = @ \ S] /\ Hand' = [Hand EXCEPT ![t] = {}]
      /\ S \in SUBSET Bufs[t] /\ Hand[t] = ListNodes(t)
      /\ gone' = gone \cup S \cup Hand[t]
  BY <1>1, <1>2, TakesFirstMap
<1>4. S = {x}
  <2>1. \A i \in 0..1 - 1 : i = 0
    OBVIOUS
  <2>2. 0 \in 0..1 - 1
    OBVIOUS
  <2>3. QED
    BY <2>1, <2>2
<1>5. Hand[t] = {}
  BY <1>1, <1>3 DEF ListNodes
<1> HIDE DEF S, x
<1>6. Hand' = Hand
  BY <1>3, <1>5, MapFunctions
<1>7. gone' = gone \cup {x} /\ x \in Bufs[t] /\ Bufs' = [Bufs EXCEPT ![t] = @ \ {x}]
  BY <1>3, <1>4, <1>5
<1>8. QED
  BY <1>6, <1>7, AbstractPop

LEMMA OtherHand ==
  ASSUME NEW t \in Threads, Frame(t)
  PROVE  \A u \in Threads \ {t} : Hand'[u] = Hand[u]
<1> SUFFICES ASSUME NEW u \in Threads \ {t} PROVE Hand'[u] = Hand[u]
  OBVIOUS
<1>1. /\ pc'[u] = pc[u] /\ n'[u] = n[u] /\ list'[u] = list[u]
      /\ tail'[u] = tail[u] /\ array'[u] = array[u]
  BY DEF Frame
<1>2. QED
  BY <1>1 DEF Hand, Held, Window, Slot

LEMMA StealMap ==
  ASSUME RingInv, RingInv', NEW t \in Threads, StealCas(t)
  PROVE  victim[t] \in Threads \ {t} /\ abstract!Steal(t, victim[t])
<1> DEFINE v == victim[t]
           k == n[t]
           S == {rings[v][i] : i \in 0..k - 1}
<1>1. /\ v \in Threads \ {t} /\ k \in 1..sizes[v] /\ MovesHead(v, k)
      /\ k <= sizes[v] - (sizes[v] \div 2)
      /\ sizes[t] = 0 /\ spans[t] = 0 /\ sizes'[t] = 0 /\ list[t] = <<>> /\ k <= CAPACITY
      /\ \A i \in 0..k - 1 : rings[t][i] = rings[v][i]
      /\ pc'[t] = "publish"
  BY StealCasFacts, Zenon
<1>2. Frame(t) /\ UNCHANGED <<n, list, gone>>
  BY StealCasStep DEF StealCas
<1>3. /\ Bufs'[v] = Bufs[v] \ S /\ S \in SUBSET Bufs[v] /\ S # {}
      /\ Cardinality(S) = k /\ Cardinality(Bufs[v]) = sizes[v]
  <2>1. v \in Threads /\ k \in 1..sizes[v] /\ MovesHead(v, k)
    BY <1>1
  <2> HIDE DEF v, k
  <2>2. QED
    BY <2>1, RestOf DEF S
<1>4. \A u \in Threads \ {v} : sizes'[u] = sizes[u] /\ rings'[u] = rings[u]
  BY <1>1, HeadFacts
<1>5. \A u \in Threads \ {t, v} : Bufs'[u] = Bufs[u] /\ Hand'[u] = Hand[u]
  BY <1>2, <1>4, OtherMap
<1>6. Bufs[t] = {} /\ Hand[t] = {} /\ Bufs'[t] = {}
  <2>1. Bufs[t] = BufOf(rings, sizes, t) /\ Hand[t] = HandOf(rings, sizes, spans, list, t)
        /\ Bufs'[t] = BufOf(rings', sizes', t)
    BY Mapped, MappedNext DEF MapOK
  <2>2. {list[t][i] : i \in DOMAIN list[t]} = {}
    BY <1>1
  <2>3. {rings[t][i] : i \in sizes[t]..spans[t] - 1} = {}
    BY <1>1
  <2>4. QED
    BY <1>1, <2>1, <2>2, <2>3 DEF BufOf, HandOf
<1>7. Hand'[t] = S
  <2>1. Hand'[t] = HandOf(rings', sizes', spans', list', t)
    BY MappedNext DEF MapOK
  <2>2. spans'[t] = k
    <3>1. spans'[t] = sizes'[t] + (IF pc'[t] \in Writing THEN n'[t] ELSE 0) /\ n[t] \in Nat
      BY Own, SpanIs
    <3>2. QED
      BY <1>1, <1>2, <3>1 DEF Writing
  <2>3. {list'[t][i] : i \in DOMAIN list'[t]} = {}
    BY <1>1, <1>2
  <2>4. {rings'[t][i] : i \in sizes'[t]..spans'[t] - 1} = {rings[t][i] : i \in 0..k - 1}
    BY <1>1, <1>4, <2>2
  <2>5. {rings[t][i] : i \in 0..k - 1} = S
    BY <1>1
  <2>6. QED
    BY <2>1, <2>3, <2>4, <2>5 DEF HandOf
<1>8. Hand'[v] = Hand[v]
  BY <1>1, <1>2, OtherHand
<1> HIDE DEF S, v, k
<1>9. Bufs' = [Bufs EXCEPT ![v] = @ \ S] /\ Hand' = [Hand EXCEPT ![t] = S]
  <2>1. \A u \in Threads : Bufs'[u] = IF u = v THEN Bufs[v] \ S ELSE Bufs[u]
    BY <1>3, <1>5, <1>6
  <2>2. \A u \in Threads : Hand'[u] = IF u = t THEN S ELSE Hand[u]
    BY <1>5, <1>7, <1>8
  <2>3. QED
    BY <1>1, <2>1, <2>2, MapFunctions
<1>10. Cardinality(S) <= Cardinality(Bufs[v]) - Cardinality(Bufs[v]) \div 2
  BY <1>1, <1>3
<1>11. abstract!Steal(t, v)
  BY <1>1, <1>2, <1>3, <1>6, <1>9, <1>10, AbstractSteal
<1>12. QED
  BY <1>1, <1>11 DEF v

LEMMA ReturnsLastMap ==
  ASSUME RingInv, RingInv', NEW t \in Threads, ReturnsLast(t), pc[t] \in {"consume", "publish"},
         n[t] > 0, list[t] = <<>>
  PROVE  abstract!Return(t)
<1> DEFINE k == n[t]
           x == rings[t][k - 1]
<1>1. /\ sizes[t] = 0 /\ spans[t] = k /\ k \in 1..CAPACITY
      /\ Slot(t, Plus(tail[t], k - 1)) = x
      /\ sizes'[t] = k - 1 /\ \A u \in Threads \ {t} : sizes'[u] = sizes[u]
      /\ rings' = rings
  BY LastFacts
<1>2. Done(t) /\ gone' = gone \cup {x} /\ Frame(t)
  BY <1>1, ReturnsLastStep DEF ReturnsLast
<1>3. \A u \in Threads \ {t} : Bufs'[u] = Bufs[u] /\ Hand'[u] = Hand[u]
  BY <1>1, <1>2, OtherMap
<1>4. Hand'[t] = {}
  BY <1>2, IdleHand
<1>5. Bufs[t] = {} /\ Hand[t] = {rings[t][i] : i \in 0..k - 1}
      /\ Bufs'[t] = {rings[t][i] : i \in 0..(k - 1) - 1}
  <2>1. Bufs[t] = BufOf(rings, sizes, t) /\ Hand[t] = HandOf(rings, sizes, spans, list, t)
        /\ Bufs'[t] = BufOf(rings', sizes', t)
    BY Mapped, MappedNext DEF MapOK
  <2>2. {list[t][i] : i \in DOMAIN list[t]} = {}
    OBVIOUS
  <2>3. BufOf(rings, sizes, t) = {} /\ BufOf(rings', sizes', t) = {rings[t][i] : i \in 0..(k - 1) - 1}
    BY <1>1 DEF BufOf
  <2>4. HandOf(rings, sizes, spans, list, t) = {rings[t][i] : i \in 0..k - 1}
    BY <1>1, <2>2 DEF HandOf
  <2>5. QED
    BY <2>1, <2>3, <2>4
<1>6. k \in Nat \ {0}
  BY <1>1, Constants
<1>7. \A i \in 0..k - 1 : rings[t][i] = x => i = k - 1
  <2>1. \A i \in 0..k - 1 : i \in Filled(spans, t)
    BY <1>1 DEF Filled
  <2>2. k - 1 \in 0..k - 1
    BY <1>6
  <2>3. QED
    BY <2>1, <2>2, CellsDiffer
<1>8. x \in Hand[t]
  <2>1. k - 1 \in 0..k - 1
    BY <1>6
  <2>2. QED
    BY <1>5, <2>1
<1> HIDE DEF x, k
<1>9. Bufs'[t] = Bufs[t] \cup (Hand[t] \ {x})
  <2>1. \A i \in 0..k - 1 : i = k - 1 \/ i \in 0..(k - 1) - 1
    BY <1>6
  <2>2. \A i \in 0..(k - 1) - 1 : i \in 0..k - 1 /\ i # k - 1
    BY <1>6
  <2>3. rings[t][k - 1] = x
    BY DEF x
  <2>4. QED
    BY <1>5, <1>7, <2>1, <2>2, <2>3
<1>10. Bufs' = [Bufs EXCEPT ![t] = @ \cup (Hand[t] \ {x})] /\ Hand' = [Hand EXCEPT ![t] = {}]
  BY <1>3, <1>4, <1>9, MapFunctions
<1>11. QED
  BY <1>2, <1>8, <1>10, AbstractReturn

LEMMA ReturnsExtraMap ==
  ASSUME RingInv, RingInv', NEW t \in Threads, ReturnsExtra(t), pc[t] = "consume",
         n[t] = CAPACITY, list[t] # <<>>
  PROVE  abstract!Return(t)
<1> DEFINE x == Head(list[t])
           S == {rings[t][i] : i \in 0..n[t] - 1}
<1>1. /\ Len(list[t]) = 1 /\ x = list[t][1] /\ 1 \in DOMAIN list[t]
      /\ sizes[t] = 0 /\ spans[t] = n[t] /\ n[t] \in Nat
      /\ sizes'[t] = n[t] /\ \A u \in Threads \ {t} : sizes'[u] = sizes[u]
      /\ rings' = rings
  BY ExtraFacts
<1>2. Done(t) /\ gone' = gone \cup {x} /\ Frame(t)
  BY ReturnsExtraStep DEF ReturnsExtra
<1>3. \A u \in Threads \ {t} : Bufs'[u] = Bufs[u] /\ Hand'[u] = Hand[u]
  BY <1>1, <1>2, OtherMap
<1>4. Hand'[t] = {}
  BY <1>2, IdleHand
<1>5. {list[t][i] : i \in DOMAIN list[t]} = {x}
  <2>1. list[t] \in Seq(Nodes)
    BY Own DEF RingTypeOK
  <2>2. DOMAIN list[t] = 1..1
    BY <1>1, <2>1
  <2>3. QED
    BY <1>1, <2>2
<1>6. Bufs[t] = {} /\ Hand[t] = {x} \cup S /\ Bufs'[t] = S
  <2>1. Bufs[t] = BufOf(rings, sizes, t) /\ Hand[t] = HandOf(rings, sizes, spans, list, t)
        /\ Bufs'[t] = BufOf(rings', sizes', t)
    BY Mapped, MappedNext DEF MapOK
  <2>2. BufOf(rings, sizes, t) = {} /\ BufOf(rings', sizes', t) = S
    BY <1>1 DEF BufOf
  <2>3. HandOf(rings, sizes, spans, list, t) = {x} \cup S
    BY <1>1, <1>5 DEF HandOf
  <2>4. QED
    BY <2>1, <2>2, <2>3
<1>7. x \notin S
  <2>1. \A i \in 0..n[t] - 1 : i \in Filled(spans, t)
    BY <1>1 DEF Filled
  <2>2. x \in ListNodes(t)
    BY <1>5 DEF ListNodes
  <2>3. QED
    BY <2>1, <2>2, CellsNotListed
<1> HIDE DEF x, S
<1>8. Bufs'[t] = Bufs[t] \cup (Hand[t] \ {x}) /\ x \in Hand[t]
  BY <1>6, <1>7
<1>9. Bufs' = [Bufs EXCEPT ![t] = @ \cup (Hand[t] \ {x})] /\ Hand' = [Hand EXCEPT ![t] = {}]
  BY <1>3, <1>4, <1>8, MapFunctions
<1>10. QED
  BY <1>2, <1>8, <1>9, AbstractReturn

LEMMA RingInitMaps ==
  ASSUME RingInit
  PROVE  abstract!BuffersInit
<1>1. RingInv
  BY RingInitOK
<1>2. ASSUME NEW t \in Threads PROVE Visible(t) = {} /\ Held(t) = {}
  <2>1. pc[t] = "idle" /\ list[t] = <<>> /\ head[t] = Start /\ tail[t] = Start
    BY DEF RingInit
  <2>2. Minus(tail[t], head[t]) = 0
    BY <1>1, <2>1, Own
  <2>3. QED
    BY <2>1, <2>2 DEF Visible, Window, Held
<1>3. gone = {}
  BY DEF RingInit
<1>4. QED
  BY <1>2, <1>3 DEF abstract!BuffersInit

LEMMA RingStepMaps ==
  ASSUME RingInv, RingInv', [RingNext]_rvars
  PROVE  abstract!BuffersNext \/ UNCHANGED <<Bufs, Hand, gone>>
<1>1. CASE UNCHANGED rvars
  BY <1>1 DEF rvars, Bufs, Hand, Visible, Held, Window, Slot
<1>2. CASE RingNext
  <2> SUFFICES ASSUME NEW t \in Threads, RingStep(t)
               PROVE  abstract!BuffersNext \/ UNCHANGED <<Bufs, Hand, gone>>
    BY <1>2 DEF RingNext
  <2>1. ASSUME NEW k \in 1..MaxList, Push(t, k) PROVE abstract!Bring(t)
    <3>1. k \in Nat \ {0}
      BY Constants
    <3>2. QED
      BY <2>1, <3>1, PushStep, BringMap
  <2>2. ASSUME PushSlot(t) PROVE UNCHANGED <<Bufs, Hand, gone>>
    <3>1. pc[t] = "push" /\ WriteNext(t) /\ Size(t) < CAPACITY
      BY <2>2 DEF PushSlot, WriteNext
    <3>2. spans[t] = sizes[t] + n[t] /\ sizes[t] <= Minus(tail[t], h[t])
      BY <3>1, Own, SpanIs DEF Writing, OwnerOK
    <3>3. spans[t] < CAPACITY
      BY <3>1, <3>2, Own, Constants DEF Size
    <3>4. QED
      BY <3>1, <3>3, WriteMap
  <2>3. ASSUME PushTail(t) PROVE abstract!Publish(t)
    BY <2>3, PushTailStep, PublishMap
  <2>4. ASSUME PushHead(t) PROVE UNCHANGED <<Bufs, Hand, gone>>
    BY <2>4, PushHeadStep, QuietMap
  <2>5. ASSUME Migrate(t) PROVE abstract!Overflow(t)
    BY <2>5, MigrateMap
  <2>6. ASSUME MigrateFails(t) PROVE UNCHANGED <<Bufs, Hand, gone>>
    BY <2>6, MigrateFailsStep, QuietMap
  <2>7. ASSUME Pop(t) PROVE UNCHANGED <<Bufs, Hand, gone>>
    BY <2>7, PopStep, QuietMap
  <2>8. ASSUME PopCas(t) PROVE abstract!Pop(t)
    BY <2>8, PopMap
  <2>9. ASSUME PopFails(t) PROVE UNCHANGED <<Bufs, Hand, gone>>
    BY <2>9, PopFailsStep, QuietMap
  <2>10. ASSUME NEW k \in 1..CAPACITY + 1, Consume(t, k) PROVE abstract!Bring(t)
    <3>1. k \in Nat \ {0}
      BY Constants
    <3>2. QED
      BY <2>10, <3>1, ConsumeStep, BringMap
  <2>11. ASSUME ConsumeSlot(t) PROVE UNCHANGED <<Bufs, Hand, gone>>
    <3>1. pc[t] = "consume" /\ WriteNext(t) /\ n[t] < CAPACITY
      BY <2>11 DEF ConsumeSlot, WriteNext
    <3>2. spans[t] = sizes[t] + n[t] /\ sizes[t] = 0
      BY <3>1, Own, SpanIs DEF Writing, OwnerOK, Empties
    <3>3. spans[t] < CAPACITY
      BY <3>1, <3>2, Own, Constants
    <3>4. QED
      BY <3>1, <3>3, WriteMap
  <2>12. ASSUME ConsumeTail(t) PROVE abstract!Return(t)
    BY <2>12, ConsumeTailCases, ReturnsExtraMap, ReturnsLastMap
  <2>13. ASSUME NEW v \in Threads \ {t}, Steal(t, v) PROVE UNCHANGED <<Bufs, Hand, gone>>
    BY <2>13, StealStep, QuietMap
  <2>14. ASSUME StealTail(t) PROVE UNCHANGED <<Bufs, Hand, gone>>
    BY <2>14, StealTailStep, QuietMap
  <2>15. ASSUME StealHead(t) PROVE UNCHANGED <<Bufs, Hand, gone>>
    BY <2>15, StealHeadStep, QuietMap
  <2>16. ASSUME StealCopy(t) PROVE UNCHANGED <<Bufs, Hand, gone>>
    BY <2>16, StealCopyStep, QuietMap
  <2>17. ASSUME StealCas(t) PROVE \E v \in Threads \ {t} : abstract!Steal(t, v)
    BY <2>17, StealMap
  <2>18. ASSUME StealFails(t) PROVE UNCHANGED <<Bufs, Hand, gone>>
    BY <2>18, StealFailsStep, QuietMap
  <2>19. ASSUME StealPublish(t) PROVE abstract!Return(t)
    <3>1. pc[t] = "publish" /\ n[t] > 0 /\ list[t] = <<>>
      BY <2>19, Own DEF StealPublish, LocalsOK
    <3>2. ReturnsLast(t)
      BY <2>19 DEF StealPublish, ReturnsLast, MovesTail
    <3>3. QED
      BY <3>1, <3>2, ReturnsLastMap
  <2>20. \/ UNCHANGED <<Bufs, Hand, gone>>
         \/ abstract!Bring(t) \/ abstract!Publish(t) \/ abstract!Overflow(t) \/ abstract!Pop(t)
         \/ abstract!Return(t) \/ \E v \in Threads \ {t} : abstract!Steal(t, v)
    BY <2>1, <2>2, <2>3, <2>4, <2>5, <2>6, <2>7, <2>8, <2>9, <2>10, <2>11, <2>12, <2>13,
       <2>14, <2>15, <2>16, <2>17, <2>18, <2>19 DEF RingStep
  <2>21. QED
    BY <2>20 DEF abstract!BuffersNext
<1>3. QED
  BY <1>1, <1>2

(* push(), pop(), consume() and steal() on the rings implement the buffers   *)
(* of WorkBuffers, for any number of workers, any capacity and any width of  *)
(* the indices, as long as no head makes a whole turn under a thief that has *)
(* loaded it (NoLap): no interleaving of slot writes, copies and CASes loses *)
(* a node, hands it to two workers or commits a torn copy.                   *)
THEOREM RingsImplementBuffers == RingSpec => ImplementsBuffers
<1>1. RingInit => abstract!BuffersInit
  BY RingInitMaps
<1>2. RingInv /\ RingInv' /\ [RingNext]_rvars
        => [abstract!BuffersNext]_<<[t \in Threads |-> Visible(t)], [t \in Threads |-> Held(t)], gone>>
  BY RingStepMaps DEF Bufs, Hand
<1>3. QED
  BY <1>1, <1>2, RingInvariant, PTL DEF RingSpec, ImplementsBuffers, abstract!BuffersSpec

=============================================================================
