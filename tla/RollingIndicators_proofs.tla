---------------------- MODULE RollingIndicators_proofs ----------------------
(***************************************************************************)
(* The incremental evaluators compute what the strategies do: after any    *)
(* number of candles every structure of an evaluator, other than that of   *)
(* an exponential average, is a function of the candles seen (MeanOf,      *)
(* RsiOf, StochasticIs, ... after h), and its value is what the indicator  *)
(* computes from the newest of them from scratch.                          *)
(*                                                                         *)
(* The newest k entries of a list are written Recent(list, k), whether     *)
(* they are what a deque of length k holds or what a window shows.  Per    *)
(* structure there are then two facts: ...Follows, that an update takes    *)
(* the structure after h to the one after h and a candle more, and         *)
(* ...Reads, that the reading of the window is its value.  Sums stay right *)
(* because what leaves is what entered (RollingSum); a monotone deque      *)
(* holds every price that no later one beats (Deque), so its front is the  *)
(* extreme of the window; the variance by moments is the one by distances  *)
(* where the mean is whole (BandsAreExact).  Followed, which says that     *)
(* some list of candles explains window and structures alike, puts them    *)
(* together, and the decisions follow from equal readings.                 *)
(***************************************************************************)
EXTENDS BacktestReplay_proofs

----------------------------------------------------------------------------
(* The newest of a sequence, and sums of them.                             *)

Least(x, y) == IF x <= y THEN x ELSE y

\* The newest k values of a sequence, or all when there are fewer.
Recent(s, k) == [i \in 1 .. Least(k, Len(s)) |-> s[Len(s) - Least(k, Len(s)) + i]]

\* What a tail is.
LEMMA TailIs ==
  ASSUME NEW T, NEW s \in Seq(T), NEW n \in Nat, Len(s) = n, n > 0
  PROVE  Tail(s) \in Seq(T) /\ Len(Tail(s)) = n - 1 /\ \A i \in 1 .. n - 1 : Tail(s)[i] = s[i + 1]
  OBVIOUS

\* What is indexed from 1 on is a sequence.
LEMMA IndexedIsSeq ==
  ASSUME NEW T, NEW n \in Nat, NEW f, f = [i \in 1 .. n |-> f[i]], \A i \in 1 .. n : f[i] \in T
  PROVE  f \in Seq(T) /\ Len(f) = n /\ DOMAIN f = 1 .. n
  <1>1. f \in [1 .. n -> T]
    OBVIOUS
  <1>2. f \in Seq(T)
    BY <1>1
  <1>3. Len(f) = n
    BY <1>1, <1>2
  <1> QED
    BY <1>2, <1>3

\* Sequences of one length with the same entries are one.
LEMMA SameEntries ==
  ASSUME NEW T, NEW s \in Seq(T), NEW U, NEW t \in Seq(U), Len(s) = Len(t),
         \A i \in 1 .. Len(s) : s[i] = t[i]
  PROVE  s = t
  <1>1. s = [i \in 1 .. Len(s) |-> s[i]] /\ t = [i \in 1 .. Len(t) |-> t[i]]
    OBVIOUS
  <1> QED
    BY <1>1

IsRecent(r, s, k) ==
  /\ Len(r) = Least(k, Len(s)) /\ Len(r) \in Nat /\ Len(r) <= k /\ Len(r) <= Len(s)
  /\ \A i \in 1 .. Len(r) : r[i] = s[Len(s) - Len(r) + i]

\* Its length and entries.
LEMMA RecentIs ==
  ASSUME NEW T, NEW s \in Seq(T), NEW k \in Nat
  PROVE  Recent(s, k) \in Seq(T) /\ IsRecent(Recent(s, k), s, k)
  <1> DEFINE n == Least(k, Len(s))
             f == Recent(s, k)
  <1>1. n \in Nat /\ n <= Len(s) /\ n <= k /\ Len(s) \in Nat
    BY DEF Least
  <1>2. f = [i \in 1 .. n |-> s[Len(s) - n + i]]
    BY DEF Recent
  <1> HIDE DEF n, f
  <1>3. \A i \in 1 .. n : Len(s) - n + i \in 1 .. Len(s)
    BY <1>1
  <1>4. \A i \in 1 .. n : f[i] \in T /\ f[i] = s[Len(s) - n + i]
    BY <1>2, <1>3
  <1>5. f = [i \in 1 .. n |-> f[i]]
    BY <1>2
  <1>6. f \in Seq(T) /\ Len(f) = n
    BY <1>1, <1>4, <1>5, IndexedIsSeq
  <1> QED
    BY <1>1, <1>4, <1>6 DEF n, f, IsRecent

\* A deque with maxlen holds the newest values.
LEMMA PushRecent ==
  ASSUME NEW T, NEW s \in Seq(T), NEW v \in T, NEW k \in Nat \ {0}
  PROVE  S!Push(Recent(s, k), v, k) = Recent(Append(s, v), k)
  <1> DEFINE r == Recent(s, k)
             a == Append(s, v)
             q == Recent(a, k)
  <1>1. r \in Seq(T) /\ IsRecent(r, s, k)
    BY RecentIs
  <1>2. /\ a \in Seq(T) /\ Len(a) = Len(s) + 1 /\ a[Len(s) + 1] = v
        /\ \A i \in 1 .. Len(s) : a[i] = s[i]
    OBVIOUS
  <1> HIDE DEF a
  <1>3. q \in Seq(T) /\ IsRecent(q, a, k)
    BY <1>2, RecentIs
  <1> HIDE DEF r, q
  <1>4. CASE Len(r) < k
    <2>1. Len(r) = Len(s) /\ Len(q) = Len(s) + 1
      BY <1>1, <1>2, <1>3, <1>4 DEF IsRecent, Least
    <2>2. Append(r, v) \in Seq(T) /\ Len(Append(r, v)) = Len(r) + 1
      BY <1>1
    <2>3. ASSUME NEW i \in 1 .. Len(q) PROVE Append(r, v)[i] = q[i]
      <3>1. q[i] = a[i]
        BY <1>2, <1>3, <2>1 DEF IsRecent
      <3>2. CASE i <= Len(s)
        BY <1>1, <1>2, <2>1, <2>3, <3>1, <3>2 DEF IsRecent
      <3>3. CASE i = Len(s) + 1
        BY <1>1, <1>2, <2>1, <3>1, <3>3
      <3> QED
        BY <2>1, <3>2, <3>3
    <2>4. Append(r, v) = q
      BY <1>3, <2>1, <2>2, <2>3, SameEntries
    <2> QED
      BY <1>4, <2>4 DEF S!Push, r, q, a
  <1>5. CASE ~ (Len(r) < k)
    <2>1. Len(r) = k /\ Len(q) = k /\ Len(s) >= k /\ k > 0
      BY <1>1, <1>2, <1>3, <1>5 DEF IsRecent, Least
    <2>2. /\ Tail(r) \in Seq(T) /\ Len(Tail(r)) = k - 1
          /\ \A i \in 1 .. k - 1 : Tail(r)[i] = r[i + 1]
      BY <1>1, <2>1, TailIs
    <2> DEFINE u == Append(Tail(r), v)
    <2>3. /\ u \in Seq(T) /\ Len(u) = k /\ u[k] = v
          /\ \A i \in 1 .. k - 1 : u[i] = r[i + 1]
      BY <2>1, <2>2
    <2> HIDE DEF u
    <2>4. ASSUME NEW i \in 1 .. Len(q) PROVE u[i] = q[i]
      <3>1. q[i] = a[Len(s) + 1 - k + i]
        <4>1. Len(a) - Len(q) + i = Len(s) + 1 - k + i
          BY <1>2, <2>1
        <4>2. q[i] = a[Len(a) - Len(q) + i]
          BY <1>3 DEF IsRecent
        <4> QED
          BY <4>1, <4>2
      <3>2. CASE i < k
        <4>1. i + 1 \in 1 .. Len(r) /\ i \in 1 .. k - 1
          BY <2>1, <3>2
        <4>2. u[i] = r[i + 1] /\ r[i + 1] = s[Len(s) - k + (i + 1)]
          BY <1>1, <2>1, <2>3, <4>1 DEF IsRecent
        <4>3. Len(s) + 1 - k + i \in 1 .. Len(s) /\ Len(s) + 1 - k + i = Len(s) - k + (i + 1)
          BY <2>1, <3>2
        <4> QED
          BY <1>2, <3>1, <4>2, <4>3
      <3>3. CASE i = k
        <4>1. Len(s) + 1 - k + i = Len(s) + 1
          BY <2>1, <3>3
        <4> QED
          BY <1>2, <2>3, <3>1, <3>3, <4>1
      <3> QED
        BY <2>1, <3>2, <3>3
    <2>5. u = q
      BY <1>3, <2>1, <2>3, <2>4, SameEntries
    <2> QED
      BY <1>5, <2>5 DEF S!Push, u, r, q, a
  <1> QED
    BY <1>4, <1>5

\* The newest of the newest.
LEMMA RecentOfRecent ==
  ASSUME NEW T, NEW s \in Seq(T), NEW n \in Nat, NEW k \in Nat, k <= n
  PROVE  Recent(Recent(s, n), k) = Recent(s, k)
  <1> DEFINE r == Recent(s, n)
             x == Recent(r, k)
             y == Recent(s, k)
  <1>1. r \in Seq(T) /\ IsRecent(r, s, n)
    BY RecentIs
  <1> HIDE DEF r
  <1>2. x \in Seq(T) /\ IsRecent(x, r, k)
    BY <1>1, RecentIs
  <1>3. y \in Seq(T) /\ IsRecent(y, s, k)
    BY RecentIs
  <1> HIDE DEF x, y
  <1>4. Len(x) = Len(y) /\ Len(x) <= Len(r) /\ Len(r) <= Len(s) /\ Len(x) \in Nat /\ Len(r) \in Nat
    BY <1>1, <1>2, <1>3 DEF IsRecent, Least
  <1>5. ASSUME NEW i \in 1 .. Len(x) PROVE x[i] = y[i]
    <2>1. Len(r) - Len(x) + i \in 1 .. Len(r)
      BY <1>4
    <2>2. Len(s) - Len(r) + (Len(r) - Len(x) + i) = Len(s) - Len(y) + i
      BY <1>4
    <2> QED
      BY <1>1, <1>2, <1>3, <1>4, <2>1, <2>2 DEF IsRecent
  <1> QED
    BY <1>2, <1>3, <1>4, <1>5, SameEntries DEF r, x, y

\* The library's slice of the newest.
LEMMA NewestIsRecent ==
  ASSUME NEW T, NEW s \in Seq(T), NEW k \in Nat, k <= Len(s)
  PROVE  S!Newest(s, k) = Recent(s, k)
  <1> DEFINE x == SubSeq(s, Len(s) - k + 1, Len(s))
             y == Recent(s, k)
  <1>1. /\ y \in Seq(T) /\ Len(y) = k
        /\ \A i \in 1 .. Len(y) : y[i] = s[Len(s) - k + i]
    BY RecentIs DEF IsRecent, Least
  <1>2. x \in Seq(T) /\ Len(x) = k
    <2>1. Len(s) - k + 1 \in 1 .. Len(s) + 1
      OBVIOUS
    <2> QED
      BY <2>1
  <1>3. \A i \in 1 .. k : x[i] = s[(Len(s) - k + 1) + i - 1]
    BY <1>2
  <1>4. \A i \in 1 .. k : (Len(s) - k + 1) + i - 1 = Len(s) - k + i
    OBVIOUS
  <1> HIDE DEF x, y
  <1>5. x = y
    BY <1>1, <1>2, <1>3, <1>4, SameEntries
  <1> QED
    BY <1>5 DEF S!Newest, x, y

\* The sum of a sequence, entry by entry.
LEMMA SumOfIs ==
  ASSUME NEW f
  PROVE  S!SumOf(f) = SumFunctionOnSet(f, DOMAIN f)
  BY DEF S!SumOf, S!SumFunction, S!SumFunctionOnSet, S!FoldFunctionOnSet, S!MapThenFoldSet,
         SumFunctionOnSet, FoldFunctionOnSet, MapThenFoldSet

\* A sum, value by value.
LEMMA SumAppended ==
  ASSUME NEW s \in Seq(Int), NEW v \in Int
  PROVE  /\ S!SumOf(Append(s, v)) = S!SumOf(s) + v
         /\ S!SumOf(s) \in Int
         /\ S!SumOf(<<>>) = 0
  <1> DEFINE a == Append(s, v)
             n == Len(s)
  <1>1. /\ n \in Nat /\ DOMAIN s = 1 .. n /\ DOMAIN a = 1 .. n + 1 /\ a[n + 1] = v
        /\ \A i \in 1 .. n : a[i] = s[i] /\ s[i] \in Int
    OBVIOUS
  <1> HIDE DEF a, n
  <1>2. 1 .. n + 1 = (1 .. n) \cup {n + 1} /\ n + 1 \notin 1 .. n
    BY <1>1
  <1>3. IsFiniteSet(1 .. n)
    BY <1>1, FS_Interval
  <1>4. \A i \in (1 .. n) \cup {n + 1} : a[i] \in Int
    BY <1>1
  <1>5. SumFunctionOnSet(a, (1 .. n) \cup {n + 1}) = SumFunctionOnSet(a, 1 .. n) + a[n + 1]
    <2> DEFINE D == 1 .. n
               z == n + 1
    <2>1. IsFiniteSet(D) /\ z \notin D /\ \A i \in D \cup {z} : a[i] \in Int
      BY <1>2, <1>3, <1>4
    <2> HIDE DEF D, z
    <2>2. SumFunctionOnSet(a, D \cup {z}) = SumFunctionOnSet(a, D) + a[z]
      BY <2>1, SumAdd
    <2> QED
      BY <2>2 DEF D, z
  <1>6. SumFunctionOnSet(a, 1 .. n) = SumFunctionOnSet(s, 1 .. n) /\ SumFunctionOnSet(s, 1 .. n) \in Int
    BY <1>1, <1>3, SumFacts
  <1>7. S!SumOf(<<>>) = 0
    <2>1. DOMAIN << >> = {} /\ IsFiniteSet({})
      BY FS_EmptySet
    <2>2. SumFunctionOnSet(<<>>, {}) = 0
      BY <2>1, SumFacts
    <2> QED
      BY <2>1, <2>2, SumOfIs
  <1> QED
    BY <1>1, <1>2, <1>5, <1>6, <1>7, SumOfIs DEF a

\* What leaves at the front.
LEMMA SumOfTail ==
  ASSUME NEW s \in Seq(Int), Len(s) > 0
  PROVE  S!SumOf(Tail(s)) = S!SumOf(s) - Head(s)
  <1> DEFINE Done == {n \in Nat : \A t \in Seq(Int) : Len(t) = n + 1 =>
                                    S!SumOf(t) = Head(t) + S!SumOf(Tail(t))}
  <1>1. ASSUME NEW t \in Seq(Int), NEW n \in Nat, Len(t) = n + 1
        PROVE  \E u \in Seq(Int), v \in Int : t = Append(u, v) /\ Len(u) = n
    <2> DEFINE u == SubSeq(t, 1, n)
               b == Append(u, t[n + 1])
    <2>1. u \in Seq(Int) /\ Len(u) = n /\ t[n + 1] \in Int /\ \A i \in 1 .. n : u[i] = t[i]
      BY <1>1
    <2> HIDE DEF u
    <2>2. b \in Seq(Int) /\ Len(b) = n + 1 /\ b[n + 1] = t[n + 1]
      BY <2>1
    <2>5. \A i \in 1 .. n : b[i] = t[i]
      BY <2>1
    <2>3. \A i \in 1 .. Len(t) : t[i] = b[i]
      <3> HIDE DEF b
      <3> QED
        BY <1>1, <2>2, <2>5
    <2>4. t = b
      <3> HIDE DEF b
      <3> QED
        BY <1>1, <2>2, <2>3, SameEntries
    <2> QED
      BY <2>1, <2>4
  <1>2. 0 \in Done
    <2>1. ASSUME NEW t \in Seq(Int), Len(t) = 0 + 1
          PROVE  S!SumOf(t) = Head(t) + S!SumOf(Tail(t))
      <3> DEFINE e == <<>>
      <3>1. e \in Seq(Int) /\ Len(e) = 0 /\ S!SumOf(e) = 0
        BY SumAppended
      <3>2. Tail(t) \in Seq(Int) /\ Len(Tail(t)) = 0
        <4>1. Len(t) = 1
          BY <2>1
        <4> DEFINE n == 1
        <4>2. n \in Nat /\ n > 0 /\ Len(t) = n
          BY <4>1
        <4> HIDE DEF n
        <4>3. Tail(t) \in Seq(Int) /\ Len(Tail(t)) = n - 1
          BY <4>2, TailIs
        <4> QED
          BY <4>3 DEF n
      <3>3. PICK u \in Seq(Int), v \in Int : t = Append(u, v) /\ Len(u) = 0
        BY <1>1, <2>1
      <3> HIDE DEF e
      <3>4. Tail(t) = e /\ u = e
        BY <3>1, <3>2, <3>3, SameEntries
      <3>5. Head(t) = v
        BY <3>3
      <3>6. S!SumOf(t) = S!SumOf(u) + v
        BY <3>3, SumAppended
      <3> QED
        BY <3>1, <3>3, <3>4, <3>5, <3>6
    <2> QED
      BY <2>1
  <1>3. ASSUME NEW n \in Nat, n \in Done PROVE n + 1 \in Done
    <2>1. ASSUME NEW t \in Seq(Int), Len(t) = (n + 1) + 1
          PROVE  S!SumOf(t) = Head(t) + S!SumOf(Tail(t))
      <3>1. PICK u \in Seq(Int), v \in Int : t = Append(u, v) /\ Len(u) = n + 1
        <4> DEFINE m == n + 1
        <4>1. m \in Nat /\ Len(t) = m + 1
          BY <2>1
        <4> HIDE DEF m
        <4>2. \E u \in Seq(Int), v \in Int : t = Append(u, v) /\ Len(u) = m
          BY <1>1, <4>1
        <4> QED
          BY <4>2 DEF m
      <3>2. S!SumOf(u) = Head(u) + S!SumOf(Tail(u))
        BY <1>3, <3>1
      <3>3. Head(t) = Head(u) /\ Tail(t) = Append(Tail(u), v) /\ Tail(u) \in Seq(Int) /\ Head(u) \in Int
        BY <3>1
      <3>4. S!SumOf(t) = S!SumOf(u) + v /\ S!SumOf(u) \in Int
        BY <3>1, SumAppended
      <3>5. S!SumOf(Tail(t)) = S!SumOf(Tail(u)) + v /\ S!SumOf(Tail(u)) \in Int
        BY <3>1, <3>3, SumAppended
      <3> QED
        BY <3>1, <3>2, <3>3, <3>4, <3>5
    <2> QED
      BY <2>1
  <1>4. \A n \in Nat : n \in Done
    <2> HIDE DEF Done
    <2> QED
      BY <1>2, <1>3, SetInduction
  <1>5. Len(s) - 1 \in Nat /\ Len(s) = (Len(s) - 1) + 1
    OBVIOUS
  <1>6. S!SumOf(s) = Head(s) + S!SumOf(Tail(s))
    BY <1>4, <1>5
  <1>7. Tail(s) \in Seq(Int) /\ Head(s) \in Int
    OBVIOUS
  <1>8. S!SumOf(Tail(s)) \in Int
    BY <1>7, SumAppended
  <1> QED
    BY <1>6, <1>7, <1>8

\* A rolling sum: what enters is added, what leaves is taken off.
Leaving(deque, k) == IF Len(deque) = k THEN Head(deque) ELSE 0

\* A sum over the newest k values when one enters and one leaves.
LEMMA RollingSum ==
  ASSUME NEW s \in Seq(Int), NEW v \in Int, NEW k \in Nat \ {0}
  PROVE  /\ S!SumOf(Recent(Append(s, v), k)) = S!SumOf(Recent(s, k)) + v - Leaving(Recent(s, k), k)
         /\ S!SumOf(Recent(s, k)) \in Int
         /\ Leaving(Recent(s, k), k) \in Int
  <1> DEFINE r == Recent(s, k)
  <1>1. r \in Seq(Int) /\ Len(r) <= k
    BY RecentIs DEF IsRecent
  <1>2. S!Push(r, v, k) = Recent(Append(s, v), k)
    BY PushRecent
  <1> HIDE DEF r
  <1>3. S!SumOf(r) \in Int
    BY <1>1, SumAppended
  <1>4. Leaving(r, k) \in Int
    BY <1>1 DEF Leaving
  <1>5. CASE Len(r) < k
    <2>1. S!Push(r, v, k) = Append(r, v) /\ Leaving(r, k) = 0
      BY <1>1, <1>5 DEF S!Push, Leaving
    <2>2. S!SumOf(Append(r, v)) = S!SumOf(r) + v
      BY <1>1, SumAppended
    <2> QED
      BY <1>2, <1>3, <1>4, <2>1, <2>2 DEF r
  <1>6. CASE ~ (Len(r) < k)
    <2>1. S!Push(r, v, k) = Append(Tail(r), v) /\ Leaving(r, k) = Head(r) /\ Len(r) > 0
      BY <1>1, <1>6 DEF S!Push, Leaving
    <2>2. Tail(r) \in Seq(Int) /\ Head(r) \in Int
      BY <1>1, <2>1
    <2>3. S!SumOf(Append(Tail(r), v)) = S!SumOf(Tail(r)) + v /\ S!SumOf(Tail(r)) \in Int
      BY <2>2, SumAppended
    <2>4. S!SumOf(Tail(r)) = S!SumOf(r) - Head(r)
      BY <1>1, <2>1, SumOfTail
    <2> QED
      BY <1>2, <1>3, <1>4, <2>1, <2>2, <2>3, <2>4 DEF r
  <1> QED
    BY <1>5, <1>6

----------------------------------------------------------------------------
(* What the structures of the incremental evaluators hold, as functions of *)
(* the whole history: each update leads from the one of a history to that  *)
(* of the history with one more value.                                     *)

\* A list that is indexed from 1 on, and the one with one more entry.
Listed(f, n, U) == f = [i \in 1 .. n |-> f[i]] /\ \A i \in 1 .. n : f[i] \in U

Extends(f, g, n) == \A i \in 1 .. n : f[i] = g[i]

\* Such a list is a sequence.
LEMMA ListedIs ==
  ASSUME NEW U, NEW n \in Nat, NEW f, Listed(f, n, U)
  PROVE  f \in Seq(U) /\ Len(f) = n
  BY IndexedIsSeq DEF Listed

\* A list that goes on where another ends is that one with an entry more.
LEMMA OneMoreEntry ==
  ASSUME NEW U, NEW n \in Nat, NEW f, NEW g,
         Listed(f, n, U), Listed(g, n + 1, U), Extends(f, g, n)
  PROVE  g = Append(f, g[n + 1])
  <1> DEFINE a == Append(f, g[n + 1])
             m == n + 1
  <1>1. f \in Seq(U) /\ Len(f) = n
    BY ListedIs
  <1>2. g \in Seq(U) /\ Len(g) = m /\ g[m] \in U
    <2>1. m \in Nat /\ Listed(g, m, U) /\ m \in 1 .. m
      OBVIOUS
    <2>2. g[m] \in U
      BY <2>1 DEF Listed
    <2> HIDE DEF m
    <2> QED
      BY <2>1, <2>2, ListedIs
  <1>3. a \in Seq(U) /\ Len(a) = m /\ a[m] = g[m] /\ \A i \in 1 .. n : a[i] = f[i]
    BY <1>1, <1>2
  <1> HIDE DEF a
  <1>4. \A i \in 1 .. m : g[i] = a[i]
    <2>1. \A i \in 1 .. m : i \in 1 .. n \/ i = m
      OBVIOUS
    <2>2. \A i \in 1 .. n : g[i] = a[i]
      BY <1>3 DEF Extends
    <2> HIDE DEF m
    <2> QED
      BY <1>3, <2>1, <2>2
  <1>5. g = a
    <2> HIDE DEF m
    <2> QED
      BY <1>2, <1>3, <1>4, SameEntries
  <1> QED
    BY <1>5 DEF a

\* The mean of the newest values.
MeanOf(f, k) ==
  [values |-> Recent(f, k), total |-> S!SumOf(Recent(f, k)),
   value |-> IF Len(f) >= k THEN S!SumOf(Recent(f, k)) \div k ELSE None]

\* The newest of no values.
LEMMA RecentOfNone ==
  ASSUME NEW k \in Nat
  PROVE  Recent(<<>>, k) = <<>> /\ S!SumOf(Recent(<<>>, k)) = 0
  <1> DEFINE e == <<>>
             r == Recent(e, k)
  <1>1. e \in Seq(Int) /\ Len(e) = 0 /\ S!SumOf(e) = 0
    <2>1. <<>> \in Seq(Int) /\ 0 \in Int
      OBVIOUS
    <2>2. S!SumOf(<<>>) = 0
      BY <2>1, SumAppended
    <2> QED
      BY <2>2
  <1>2. r \in Seq(Int) /\ IsRecent(r, e, k)
    BY <1>1, RecentIs
  <1> HIDE DEF e, r
  <1>3. Len(r) = 0
    BY <1>1, <1>2 DEF IsRecent
  <1>4. r = e
    BY <1>1, <1>2, <1>3, SameEntries
  <1> QED
    BY <1>1, <1>4 DEF e, r

\* The mean follows a value.
LEMMA MeanFollows ==
  ASSUME NEW f \in Seq(Int), NEW v \in Int, NEW k \in Nat \ {0}
  PROVE  S!MeanUpdate(MeanOf(f, k), v, k) = MeanOf(Append(f, v), k)
  <1> DEFINE r == Recent(f, k)
             a == Append(f, v)
             q == Recent(a, k)
             m == MeanOf(f, k)
  <1>1. S!Push(r, v, k) = q
    BY PushRecent
  <1>2. S!SumOf(q) = S!SumOf(r) + v - Leaving(r, k)
    BY RollingSum
  <1>3. a \in Seq(Int) /\ Len(a) = Len(f) + 1
    OBVIOUS
  <1>4. Len(q) = k <=> Len(a) >= k
    <2> HIDE DEF a
    <2>1. IsRecent(q, a, k)
      BY <1>3, RecentIs
    <2> QED
      BY <1>3, <2>1 DEF IsRecent, Least
  <1>5. m.values = r /\ m.total = S!SumOf(r)
    BY DEF MeanOf
  <1>6. S!MeanUpdate(m, v, k) =
          [values |-> S!Push(r, v, k), total |-> S!SumOf(r) + v - Leaving(r, k),
           value |-> IF Len(S!Push(r, v, k)) = k THEN (S!SumOf(r) + v - Leaving(r, k)) \div k ELSE None]
    <2> HIDE DEF m, r
    <2> QED
      BY <1>5 DEF S!MeanUpdate, Leaving
  <1> HIDE DEF r, q, m, a
  <1>7. S!MeanUpdate(m, v, k) =
          [values |-> q, total |-> S!SumOf(q),
           value |-> IF Len(a) >= k THEN S!SumOf(q) \div k ELSE None]
    BY <1>1, <1>2, <1>4, <1>6
  <1> QED
    BY <1>7 DEF MeanOf, m, q, a

\* The newest value and the one k before it.
MomentumOf(f, k) ==
  [values |-> Recent(f, k + 1),
   value |-> IF Len(f) >= k + 1 THEN f[Len(f)] - f[Len(f) - k] ELSE None]

\* The momentum follows a value.
LEMMA MomentumFollows ==
  ASSUME NEW f \in Seq(Int), NEW v \in Int, NEW k \in Nat \ {0}
  PROVE  S!MomentumUpdate(MomentumOf(f, k), v, k) = MomentumOf(Append(f, v), k)
  <1> DEFINE r == Recent(f, k + 1)
             a == Append(f, v)
             q == Recent(a, k + 1)
             m == MomentumOf(f, k)
  <1>1. S!Push(r, v, k + 1) = q
    <2> DEFINE n == k + 1
    <2>1. n \in Nat \ {0}
      OBVIOUS
    <2> HIDE DEF n
    <2>2. S!Push(Recent(f, n), v, n) = Recent(a, n)
      BY <2>1, PushRecent
    <2> QED
      BY <2>2 DEF n
  <1>2. a \in Seq(Int) /\ Len(a) = Len(f) + 1 /\ a[Len(a)] = v
    OBVIOUS
  <1>3. q \in Seq(Int) /\ IsRecent(q, a, k + 1)
    <2> DEFINE n == k + 1
    <2>1. n \in Nat
      OBVIOUS
    <2> HIDE DEF a, n
    <2>2. Recent(a, n) \in Seq(Int) /\ IsRecent(Recent(a, n), a, n)
      BY <1>2, <2>1, RecentIs
    <2> QED
      BY <2>2 DEF n
  <1>4. m.values = r
    BY DEF MomentumOf
  <1>5. S!MomentumUpdate(m, v, k) =
          [values |-> q, value |-> IF Len(q) = k + 1 THEN v - Head(q) ELSE None]
    <2> HIDE DEF m, r, q
    <2> QED
      BY <1>1, <1>4 DEF S!MomentumUpdate
  <1> HIDE DEF r, q, m, a
  <1>6. Len(q) = k + 1 <=> Len(a) >= k + 1
    BY <1>2, <1>3 DEF IsRecent, Least
  <1>7. ASSUME Len(q) = k + 1 PROVE Head(q) = a[Len(a) - k]
    <2>1. Head(q) = q[1]
      BY <1>3, <1>7
    <2>2. 1 \in 1 .. Len(q) /\ Len(a) - Len(q) + 1 = Len(a) - k
      BY <1>2, <1>7
    <2>3. q[1] = a[Len(a) - Len(q) + 1]
      BY <1>3, <2>2 DEF IsRecent
    <2> QED
      BY <2>1, <2>2, <2>3
  <1> QED
    BY <1>2, <1>5, <1>6, <1>7 DEF MomentumOf, m, q, a

\* A candle's prices and volume are numbers.
Priced(T) ==
  \A c \in T : c.open \in Int /\ c.high \in Int /\ c.low \in Int /\ c.close \in Int
               /\ c.tick_volume \in Int

\* What a list of closes says of each candle and the one before it.
Rises(f) == [i \in 1 .. Len(f) - 1 |-> S!Larger(f[i + 1] - f[i], 0)]

Falls(f) == [i \in 1 .. Len(f) - 1 |-> S!Larger(f[i] - f[i + 1], 0)]

Squares(f) == [i \in 1 .. Len(f) |-> f[i] * f[i]]

Volumes(h) == [i \in 1 .. Len(h) |-> h[i].tick_volume]

Ranges(h) == [i \in 1 .. Len(h) - 1 |-> S!TrueRange(h[i].close, h[i + 1])]

Latest(f) == IF Len(f) = 0 THEN None ELSE f[Len(f)]

\* A list of no entries.
LEMMA NoEntry ==
  ASSUME NEW f, NEW n \in Int, n <= 0, f = [i \in 1 .. n |-> f[i]]
  PROVE  f = <<>>
  <1>1. 1 .. n = 1 .. 0
    OBVIOUS
  <1>2. f = [i \in 1 .. 0 |-> f[i]]
    BY <1>1
  <1>3. f \in Seq(Int) /\ Len(f) = 0
    <2>1. \A i \in 1 .. 0 : f[i] \in Int
      OBVIOUS
    <2> QED
      BY <1>2, <2>1, IndexedIsSeq
  <1>4. <<>> \in Seq(Int) /\ Len(<<>>) = 0
    OBVIOUS
  <1> QED
    BY <1>3, <1>4, SameEntries

\* The larger of two numbers.
LEMMA LargerIs ==
  ASSUME NEW a \in Int, NEW b \in Int
  PROVE  S!Larger(a, b) \in Int /\ S!Larger(a, b) >= a /\ S!Larger(a, b) >= b
         /\ S!Larger(a, b) \in {a, b}
  BY DEF S!Larger

\* Changes, rises and falls of closes, when one more arrives.
Follows(f, g, last) == g = Append(f, last)

\* The changes, rises and falls when one more value arrives.
LEMMA ChangesFollow ==
  ASSUME NEW s \in Seq(Int), NEW v \in Int
  PROVE  /\ Len(s) = 0 =>
              S!Changes(Append(s, v)) = <<>> /\ Rises(Append(s, v)) = <<>> /\ Falls(Append(s, v)) = <<>>
         /\ Len(s) # 0 =>
              /\ Follows(S!Changes(s), S!Changes(Append(s, v)), v - s[Len(s)])
              /\ Follows(Rises(s), Rises(Append(s, v)), S!Larger(v - s[Len(s)], 0))
              /\ Follows(Falls(s), Falls(Append(s, v)), S!Larger(s[Len(s)] - v, 0))
  <1> DEFINE a == Append(s, v)
  <1>1. /\ a \in Seq(Int) /\ Len(a) = Len(s) + 1 /\ a[Len(s) + 1] = v
        /\ \A i \in 1 .. Len(s) : a[i] = s[i]
    OBVIOUS
  <1> HIDE DEF a
  <1>2. ASSUME Len(s) = 0 PROVE S!Changes(a) = <<>> /\ Rises(a) = <<>> /\ Falls(a) = <<>>
    <2> DEFINE m == Len(a) - 1
    <2>1. m \in Int /\ m <= 0
      BY <1>1, <1>2
    <2>2. /\ S!Changes(a) = [i \in 1 .. m |-> S!Changes(a)[i]]
          /\ Rises(a) = [i \in 1 .. m |-> Rises(a)[i]]
          /\ Falls(a) = [i \in 1 .. m |-> Falls(a)[i]]
      BY DEF S!Changes, Rises, Falls
    <2> HIDE DEF m
    <2> QED
      BY <2>1, <2>2, NoEntry
  <1>3. ASSUME Len(s) # 0
        PROVE  /\ Follows(S!Changes(s), S!Changes(a), v - s[Len(s)])
               /\ Follows(Rises(s), Rises(a), S!Larger(v - s[Len(s)], 0))
               /\ Follows(Falls(s), Falls(a), S!Larger(s[Len(s)] - v, 0))
    <2> DEFINE n == Len(s) - 1
    <2>1. n \in Nat /\ Len(s) = n + 1 /\ Len(a) - 1 = n + 1 /\ Len(a) = n + 2
      BY <1>1, <1>3
    <2>2. a[n + 2] = v /\ a[n + 1] = s[n + 1] /\ s[n + 1] \in Int
      <3>1. n + 2 = Len(s) + 1 /\ n + 1 \in 1 .. Len(s)
        BY <2>1
      <3> QED
        BY <1>1, <3>1
    <2>3. \A i \in 1 .. n : a[i] = s[i] /\ a[i + 1] = s[i + 1] /\ s[i] \in Int /\ s[i + 1] \in Int
      <3>1. \A i \in 1 .. n : i \in 1 .. Len(s) /\ i + 1 \in 1 .. Len(s)
        BY <2>1
      <3> QED
        BY <1>1, <3>1
    <2> HIDE DEF n
    <2>4. Follows(S!Changes(s), S!Changes(a), v - s[n + 1])
      <3> DEFINE f == S!Changes(s)
                 g == S!Changes(a)
      <3>1. f = [i \in 1 .. n |-> s[i + 1] - s[i]] /\ g = [i \in 1 .. n + 1 |-> a[i + 1] - a[i]]
        BY <2>1 DEF S!Changes
      <3> HIDE DEF f, g
      <3>2. f = [i \in 1 .. n |-> f[i]] /\ g = [i \in 1 .. n + 1 |-> g[i]]
        BY <3>1
      <3>3. \A i \in 1 .. n : f[i] = g[i] /\ f[i] \in Int
        <4>1. \A i \in 1 .. n : i \in 1 .. n + 1
          BY <2>1
        <4> QED
          BY <2>3, <3>1, <4>1
      <3>4. g[n + 1] = v - s[n + 1] /\ g[n + 1] \in Int
        <4>1. n + 1 \in 1 .. n + 1 /\ (n + 1) + 1 = n + 2
          BY <2>1
        <4> QED
          BY <2>2, <3>1, <4>1
      <3>5. g = Append(f, g[n + 1])
        <4>1. Extends(f, g, n) /\ Listed(f, n, Int)
          BY <3>2, <3>3 DEF Extends, Listed
        <4>2. \A i \in 1 .. n + 1 : i \in 1 .. n \/ i = n + 1
          BY <2>1
        <4>3. Listed(g, n + 1, Int)
          BY <3>2, <3>3, <3>4, <4>2 DEF Listed
        <4> QED
          BY <2>1, <4>1, <4>3, OneMoreEntry
      <3> QED
        BY <3>4, <3>5 DEF Follows, f, g
    <2>5. Follows(Rises(s), Rises(a), S!Larger(v - s[n + 1], 0))
      <3> DEFINE f == Rises(s)
                 g == Rises(a)
      <3>1. f = [i \in 1 .. n |-> S!Larger(s[i + 1] - s[i], 0)]
            /\ g = [i \in 1 .. n + 1 |-> S!Larger(a[i + 1] - a[i], 0)]
        BY <2>1 DEF Rises
      <3> HIDE DEF f, g
      <3>2. f = [i \in 1 .. n |-> f[i]] /\ g = [i \in 1 .. n + 1 |-> g[i]]
        BY <3>1
      <3>3. \A i \in 1 .. n : f[i] = g[i] /\ f[i] \in Int
        <4>1. \A i \in 1 .. n : i \in 1 .. n + 1
          BY <2>1
        <4>2. \A i \in 1 .. n : S!Larger(s[i + 1] - s[i], 0) \in Int
          <5>1. \A i \in 1 .. n : s[i + 1] - s[i] \in Int
            BY <2>3
          <5>2. 0 \in Int
            OBVIOUS
          <5> QED
            BY <5>1, <5>2, LargerIs
        <4> QED
          BY <2>3, <3>1, <4>1, <4>2
      <3>4. g[n + 1] = S!Larger(v - s[n + 1], 0) /\ g[n + 1] \in Int
        <4>1. n + 1 \in 1 .. n + 1 /\ (n + 1) + 1 = n + 2
          BY <2>1
        <4>2. S!Larger(v - s[n + 1], 0) \in Int
          <5>1. v - s[n + 1] \in Int /\ 0 \in Int
            BY <2>2
          <5> QED
            BY <5>1, LargerIs
        <4> QED
          BY <2>2, <3>1, <4>1, <4>2
      <3>5. g = Append(f, g[n + 1])
        <4>1. Extends(f, g, n) /\ Listed(f, n, Int)
          BY <3>2, <3>3 DEF Extends, Listed
        <4>2. \A i \in 1 .. n + 1 : i \in 1 .. n \/ i = n + 1
          BY <2>1
        <4>3. Listed(g, n + 1, Int)
          BY <3>2, <3>3, <3>4, <4>2 DEF Listed
        <4> QED
          BY <2>1, <4>1, <4>3, OneMoreEntry
      <3> QED
        BY <3>4, <3>5 DEF Follows, f, g
    <2>6. Follows(Falls(s), Falls(a), S!Larger(s[n + 1] - v, 0))
      <3> DEFINE f == Falls(s)
                 g == Falls(a)
      <3>1. f = [i \in 1 .. n |-> S!Larger(s[i] - s[i + 1], 0)]
            /\ g = [i \in 1 .. n + 1 |-> S!Larger(a[i] - a[i + 1], 0)]
        BY <2>1 DEF Falls
      <3> HIDE DEF f, g
      <3>2. f = [i \in 1 .. n |-> f[i]] /\ g = [i \in 1 .. n + 1 |-> g[i]]
        BY <3>1
      <3>3. \A i \in 1 .. n : f[i] = g[i] /\ f[i] \in Int
        <4>1. \A i \in 1 .. n : i \in 1 .. n + 1
          BY <2>1
        <4>2. \A i \in 1 .. n : S!Larger(s[i] - s[i + 1], 0) \in Int
          <5>1. \A i \in 1 .. n : s[i] - s[i + 1] \in Int
            BY <2>3
          <5>2. 0 \in Int
            OBVIOUS
          <5> QED
            BY <5>1, <5>2, LargerIs
        <4> QED
          BY <2>3, <3>1, <4>1, <4>2
      <3>4. g[n + 1] = S!Larger(s[n + 1] - v, 0) /\ g[n + 1] \in Int
        <4>1. n + 1 \in 1 .. n + 1 /\ (n + 1) + 1 = n + 2
          BY <2>1
        <4>2. S!Larger(s[n + 1] - v, 0) \in Int
          <5>1. s[n + 1] - v \in Int /\ 0 \in Int
            BY <2>2
          <5> QED
            BY <5>1, LargerIs
        <4> QED
          BY <2>2, <3>1, <4>1, <4>2
      <3>5. g = Append(f, g[n + 1])
        <4>1. Extends(f, g, n) /\ Listed(f, n, Int)
          BY <3>2, <3>3 DEF Extends, Listed
        <4>2. \A i \in 1 .. n + 1 : i \in 1 .. n \/ i = n + 1
          BY <2>1
        <4>3. Listed(g, n + 1, Int)
          BY <3>2, <3>3, <3>4, <4>2 DEF Listed
        <4> QED
          BY <2>1, <4>1, <4>3, OneMoreEntry
      <3> QED
        BY <3>4, <3>5 DEF Follows, f, g
    <2> QED
      BY <2>1, <2>4, <2>5, <2>6
  <1> QED
    BY <1>2, <1>3 DEF a

\* They are lists of numbers, and the falls and rises are those of the changes.
LEMMA ChangesAre ==
  ASSUME NEW s \in Seq(Int), Len(s) # 0
  PROVE  /\ S!Changes(s) \in Seq(Int) /\ Rises(s) \in Seq(Int) /\ Falls(s) \in Seq(Int)
         /\ Len(S!Changes(s)) = Len(s) - 1 /\ Len(Rises(s)) = Len(s) - 1 /\ Len(Falls(s)) = Len(s) - 1
         /\ \A i \in 1 .. Len(s) - 1 :
              /\ S!Changes(s)[i] = s[i + 1] - s[i]
              /\ Rises(s)[i] = S!Larger(S!Changes(s)[i], 0)
              /\ Falls(s)[i] = S!Larger(-S!Changes(s)[i], 0)
  <1> DEFINE n == Len(s) - 1
             f == S!Changes(s)
             g == Rises(s)
             h == Falls(s)
  <1>1. n \in Nat /\ Len(s) = n + 1
    OBVIOUS
  <1>2. \A i \in 1 .. n : s[i] \in Int /\ s[i + 1] \in Int
    <2>1. \A i \in 1 .. n : i \in 1 .. Len(s) /\ i + 1 \in 1 .. Len(s)
      BY <1>1
    <2> QED
      BY <2>1
  <1>3. /\ f = [i \in 1 .. n |-> s[i + 1] - s[i]]
        /\ g = [i \in 1 .. n |-> S!Larger(s[i + 1] - s[i], 0)]
        /\ h = [i \in 1 .. n |-> S!Larger(s[i] - s[i + 1], 0)]
    BY DEF S!Changes, Rises, Falls
  <1> HIDE DEF n, f, g, h
  <1>4. ASSUME NEW i \in 1 .. n
        PROVE  /\ f[i] = s[i + 1] - s[i] /\ f[i] \in Int
               /\ g[i] = S!Larger(f[i], 0) /\ g[i] \in Int
               /\ h[i] = S!Larger(-f[i], 0) /\ h[i] \in Int
    <2>1. f[i] = s[i + 1] - s[i] /\ g[i] = S!Larger(s[i + 1] - s[i], 0) /\ h[i] = S!Larger(s[i] - s[i + 1], 0)
      BY <1>3
    <2>2. s[i] \in Int /\ s[i + 1] \in Int
      BY <1>2
    <2>3. f[i] \in Int /\ s[i] - s[i + 1] = -f[i] /\ -f[i] \in Int /\ 0 \in Int
      BY <2>1, <2>2
    <2> QED
      BY <2>1, <2>3, LargerIs
  <1>5. f \in Seq(Int) /\ Len(f) = n
    <2>1. f = [i \in 1 .. n |-> f[i]]
      BY <1>3
    <2> QED
      BY <1>1, <1>4, <2>1, IndexedIsSeq
  <1>6. g \in Seq(Int) /\ Len(g) = n
    <2>1. g = [i \in 1 .. n |-> g[i]]
      BY <1>3
    <2> QED
      BY <1>1, <1>4, <2>1, IndexedIsSeq
  <1>7. h \in Seq(Int) /\ Len(h) = n
    <2>1. h = [i \in 1 .. n |-> h[i]]
      BY <1>3
    <2> QED
      BY <1>1, <1>4, <2>1, IndexedIsSeq
  <1> QED
    BY <1>1, <1>4, <1>5, <1>6, <1>7 DEF n, f, g, h

\* Closes, volumes and true ranges of the candles so far.
LEMMA ClosesFollow ==
  ASSUME NEW T, Priced(T), NEW h \in Seq(T), NEW c \in T
  PROVE  /\ S!Closes(h) \in Seq(Int) /\ Len(S!Closes(h)) = Len(h)
         /\ \A i \in 1 .. Len(h) : S!Closes(h)[i] = h[i].close
         /\ S!Closes(Append(h, c)) = Append(S!Closes(h), c.close)
         /\ Volumes(h) \in Seq(Int) /\ Len(Volumes(h)) = Len(h)
         /\ \A i \in 1 .. Len(h) : Volumes(h)[i] = h[i].tick_volume
         /\ Volumes(Append(h, c)) = Append(Volumes(h), c.tick_volume)
  <1> DEFINE a == Append(h, c)
             n == Len(h)
             f == S!Closes(h)
             g == S!Closes(a)
             v == Volumes(h)
             w == Volumes(a)
  <1>1. /\ n \in Nat /\ DOMAIN h = 1 .. n /\ DOMAIN a = 1 .. n + 1 /\ Len(a) = n + 1
        /\ a[n + 1] = c /\ \A i \in 1 .. n : a[i] = h[i] /\ h[i] \in T
    OBVIOUS
  <1>2. /\ f = [i \in 1 .. n |-> h[i].close] /\ g = [i \in 1 .. n + 1 |-> a[i].close]
        /\ v = [i \in 1 .. n |-> h[i].tick_volume] /\ w = [i \in 1 .. n + 1 |-> a[i].tick_volume]
    <2> HIDE DEF a, n
    <2> QED
      BY <1>1 DEF S!Closes, Volumes, n
  <1> HIDE DEF a, n, f, g, v, w
  <1>3. \A i \in 1 .. n + 1 : a[i] \in T /\ (i \in 1 .. n \/ i = n + 1)
    BY <1>1
  <1>4. Listed(f, n, Int) /\ Listed(v, n, Int)
    BY <1>1, <1>2 DEF Listed, Priced
  <1>5. Listed(g, n + 1, Int) /\ Listed(w, n + 1, Int)
    BY <1>2, <1>3 DEF Listed, Priced
  <1>6. n + 1 \in 1 .. n + 1 /\ \A i \in 1 .. n : i \in 1 .. n + 1
    BY <1>1
  <1>7. Extends(f, g, n) /\ Extends(v, w, n) /\ g[n + 1] = c.close /\ w[n + 1] = c.tick_volume
    BY <1>1, <1>2, <1>6 DEF Extends
  <1>8. g = Append(f, c.close) /\ w = Append(v, c.tick_volume)
    BY <1>1, <1>4, <1>5, <1>7, OneMoreEntry
  <1>9. f \in Seq(Int) /\ Len(f) = n /\ v \in Seq(Int) /\ Len(v) = n
    BY <1>1, <1>4, ListedIs
  <1> QED
    BY <1>2, <1>8, <1>9 DEF a, n, f, g, v, w

\* A true range is a number.
LEMMA RangeIs ==
  ASSUME NEW close \in Int, NEW T, Priced(T), NEW c \in T
  PROVE  S!TrueRange(close, c) \in Int
  <1> DEFINE x == c.high - c.low
             y == S!Absolute(c.high - close)
             z == S!Absolute(c.low - close)
  <1>1. x \in Int /\ y \in Int /\ z \in Int
    BY DEF Priced, S!Absolute
  <1> HIDE DEF x, y, z
  <1>2. \E m \in {x, y, z} : \A o \in {x, y, z} : m >= o
    BY <1>1
  <1>3. S!Max({x, y, z}) \in {x, y, z}
    BY <1>2 DEF S!Max
  <1>4. S!Max({x, y, z}) \in Int
    BY <1>1, <1>3
  <1> QED
    BY <1>4 DEF S!TrueRange, x, y, z

\* The true ranges when one more candle arrives.
LEMMA RangesFollow ==
  ASSUME NEW T, Priced(T), NEW h \in Seq(T), NEW c \in T
  PROVE  /\ Len(h) = 0 => Ranges(Append(h, c)) = <<>>
         /\ Len(h) # 0 =>
              /\ Ranges(h) \in Seq(Int) /\ Len(Ranges(h)) = Len(h) - 1
              /\ Follows(Ranges(h), Ranges(Append(h, c)), S!TrueRange(h[Len(h)].close, c))
              /\ S!TrueRange(h[Len(h)].close, c) \in Int
  <1> DEFINE a == Append(h, c)
  <1>1. /\ a \in Seq(T) /\ Len(a) = Len(h) + 1 /\ a[Len(h) + 1] = c
        /\ \A i \in 1 .. Len(h) : a[i] = h[i] /\ h[i] \in T
    OBVIOUS
  <1> HIDE DEF a
  <1>2. ASSUME Len(h) = 0 PROVE Ranges(a) = <<>>
    <2> DEFINE m == Len(a) - 1
    <2>1. m \in Int /\ m <= 0
      BY <1>1, <1>2
    <2>2. Ranges(a) = [i \in 1 .. m |-> Ranges(a)[i]]
      BY DEF Ranges
    <2> HIDE DEF m
    <2> QED
      BY <2>1, <2>2, NoEntry
  <1>3. ASSUME Len(h) # 0
        PROVE  /\ Ranges(h) \in Seq(Int) /\ Len(Ranges(h)) = Len(h) - 1
               /\ Follows(Ranges(h), Ranges(a), S!TrueRange(h[Len(h)].close, c))
               /\ S!TrueRange(h[Len(h)].close, c) \in Int
    <2> DEFINE n == Len(h) - 1
               f == Ranges(h)
               g == Ranges(a)
               last == S!TrueRange(h[n + 1].close, c)
    <2>1. n \in Nat /\ Len(h) = n + 1 /\ Len(a) - 1 = n + 1 /\ Len(a) = n + 2
      BY <1>1, <1>3
    <2>2. a[n + 2] = c /\ a[n + 1] = h[n + 1] /\ h[n + 1] \in T
      <3>1. n + 2 = Len(h) + 1 /\ n + 1 \in 1 .. Len(h)
        BY <2>1
      <3> QED
        BY <1>1, <3>1
    <2>3. \A i \in 1 .. n : a[i] = h[i] /\ a[i + 1] = h[i + 1] /\ h[i] \in T /\ h[i + 1] \in T
      <3>1. \A i \in 1 .. n : i \in 1 .. Len(h) /\ i + 1 \in 1 .. Len(h)
        BY <2>1
      <3> QED
        BY <1>1, <3>1
    <2>4. /\ f = [i \in 1 .. n |-> S!TrueRange(h[i].close, h[i + 1])]
          /\ g = [i \in 1 .. n + 1 |-> S!TrueRange(a[i].close, a[i + 1])]
      BY <2>1 DEF Ranges
    <2> HIDE DEF n, f, g, last
    <2>5. \A i \in 1 .. n : S!TrueRange(h[i].close, h[i + 1]) \in Int
      <3>1. \A i \in 1 .. n : h[i].close \in Int
        BY <2>3 DEF Priced
      <3> QED
        BY <2>3, <3>1, RangeIs
    <2>6. last \in Int
      <3>1. h[n + 1].close \in Int
        BY <2>2 DEF Priced
      <3> QED
        BY <3>1, RangeIs DEF last
    <2>7. /\ n + 1 \in 1 .. n + 1 /\ (n + 1) + 1 = n + 2
          /\ \A i \in 1 .. n : i \in 1 .. n + 1
          /\ \A i \in 1 .. n + 1 : i \in 1 .. n \/ i = n + 1
      BY <2>1
    <2>8. g[n + 1] = last
      BY <2>2, <2>4, <2>7 DEF last
    <2>9. Extends(f, g, n) /\ \A i \in 1 .. n : f[i] \in Int
      BY <2>3, <2>4, <2>5, <2>7 DEF Extends
    <2>10. f = [i \in 1 .. n |-> f[i]] /\ g = [i \in 1 .. n + 1 |-> g[i]]
      BY <2>4
    <2>11. Listed(f, n, Int) /\ Listed(g, n + 1, Int)
      BY <2>6, <2>7, <2>8, <2>9, <2>10 DEF Listed, Extends
    <2>12. g = Append(f, last) /\ f \in Seq(Int) /\ Len(f) = n
      BY <2>1, <2>8, <2>9, <2>11, OneMoreEntry, ListedIs
    <2> QED
      BY <2>1, <2>6, <2>12 DEF Follows, f, g, n, last
  <1> QED
    BY <1>2, <1>3 DEF a

\* Squares of the values so far.
LEMMA SquaresFollow ==
  ASSUME NEW s \in Seq(Int), NEW v \in Int
  PROVE  /\ Squares(s) \in Seq(Int) /\ Len(Squares(s)) = Len(s)
         /\ \A i \in 1 .. Len(s) : Squares(s)[i] = s[i] * s[i]
         /\ Squares(Append(s, v)) = Append(Squares(s), v * v)
  <1> DEFINE a == Append(s, v)
             n == Len(s)
             f == Squares(s)
             g == Squares(a)
  <1>1. /\ n \in Nat /\ Len(a) = n + 1 /\ a[n + 1] = v
        /\ \A i \in 1 .. n : a[i] = s[i] /\ s[i] \in Int
    OBVIOUS
  <1>2. f = [i \in 1 .. n |-> s[i] * s[i]] /\ g = [i \in 1 .. n + 1 |-> a[i] * a[i]]
    <2> HIDE DEF a, n
    <2> QED
      BY <1>1 DEF Squares, n
  <1> HIDE DEF a, n, f, g
  <1>3. \A x \in Int : x * x \in Int
    OBVIOUS
  <1>4. /\ n + 1 \in 1 .. n + 1 /\ \A i \in 1 .. n : i \in 1 .. n + 1
        /\ \A i \in 1 .. n + 1 : i \in 1 .. n \/ i = n + 1
    BY <1>1
  <1>5. g[n + 1] = v * v /\ Extends(f, g, n) /\ \A i \in 1 .. n : f[i] \in Int
    BY <1>1, <1>2, <1>3, <1>4 DEF Extends
  <1>6. f = [i \in 1 .. n |-> f[i]] /\ g = [i \in 1 .. n + 1 |-> g[i]]
    BY <1>2
  <1>7. Listed(f, n, Int) /\ Listed(g, n + 1, Int)
    BY <1>3, <1>4, <1>5, <1>6 DEF Listed, Extends
  <1>8. g = Append(f, v * v) /\ f \in Seq(Int) /\ Len(f) = n
    BY <1>1, <1>5, <1>7, OneMoreEntry, ListedIs
  <1> QED
    BY <1>2, <1>8 DEF a, n, f, g

\* A full deque of the newest changes, and whether there are enough values.
LEMMA RecentLength ==
  ASSUME NEW T, NEW s \in Seq(T), NEW k \in Nat
  PROVE  /\ Recent(s, k) \in Seq(T) /\ Len(Recent(s, k)) \in Nat
         /\ Len(Recent(s, k)) <= k /\ Len(Recent(s, k)) <= Len(s)
         /\ Len(s) >= k => Len(Recent(s, k)) = k
         /\ Len(s) <= k => Len(Recent(s, k)) = Len(s)
         /\ \A i \in 1 .. Len(Recent(s, k)) : Recent(s, k)[i] = s[Len(s) - Len(Recent(s, k)) + i]
  BY RecentIs DEF IsRecent, Least

IsFull(q, s, n, k) == Len(q) = k /\ \A i \in 1 .. k : q[i] = s[n - k + i]

\* The newest k of at least k values.
LEMMA FullRecent ==
  ASSUME NEW T, NEW s \in Seq(T), NEW n \in Nat, Len(s) = n, NEW k \in Nat, k <= n
  PROVE  Recent(s, k) \in Seq(T) /\ IsFull(Recent(s, k), s, n, k)
  <1> DEFINE q == Recent(s, k)
  <1>1. q \in Seq(T) /\ Len(q) = k
    BY RecentLength
  <1>2. \A i \in 1 .. Len(q) : q[i] = s[Len(s) - Len(q) + i]
    BY RecentLength
  <1> HIDE DEF q
  <1>3. \A i \in 1 .. k : q[i] = s[n - k + i]
    BY <1>1, <1>2
  <1> QED
    BY <1>1, <1>3 DEF q, IsFull

\* What leaves the deques of rises and falls is what leaves that of the changes.
LEMMA LeavingChange ==
  ASSUME NEW s \in Seq(Int), Len(s) # 0, NEW k \in Nat \ {0}
  PROVE  /\ Leaving(Recent(S!Changes(s), k), k) \in Int
         /\ Leaving(Recent(Rises(s), k), k) = S!Larger(Leaving(Recent(S!Changes(s), k), k), 0)
         /\ Leaving(Recent(Falls(s), k), k) = S!Larger(-Leaving(Recent(S!Changes(s), k), k), 0)
  <1> DEFINE d == S!Changes(s)
             g == Rises(s)
             l == Falls(s)
             n == Len(s) - 1
             rd == Recent(d, k)
             rg == Recent(g, k)
             rl == Recent(l, k)
  <1>1. /\ d \in Seq(Int) /\ g \in Seq(Int) /\ l \in Seq(Int)
        /\ Len(d) = n /\ Len(g) = n /\ Len(l) = n /\ n \in Nat
        /\ \A i \in 1 .. n : g[i] = S!Larger(d[i], 0) /\ l[i] = S!Larger(-d[i], 0)
    <2>1. n \in Nat
      OBVIOUS
    <2>2. /\ d \in Seq(Int) /\ g \in Seq(Int) /\ l \in Seq(Int)
          /\ Len(d) = n /\ Len(g) = n /\ Len(l) = n
      BY ChangesAre
    <2>3. \A i \in 1 .. n : g[i] = S!Larger(d[i], 0) /\ l[i] = S!Larger(-d[i], 0)
      BY ChangesAre, Zenon
    <2> QED
      BY <2>1, <2>2, <2>3
  <1> HIDE DEF d, g, l, n
  <1>2. CASE n >= k
    <2>1. /\ rd \in Seq(Int) /\ rg \in Seq(Int) /\ rl \in Seq(Int)
          /\ Len(rd) = k /\ Len(rg) = k /\ Len(rl) = k
          /\ \A i \in 1 .. k : rd[i] = d[n - k + i] /\ rg[i] = g[n - k + i] /\ rl[i] = l[n - k + i]
      <3>0. k \in Nat /\ k <= n
        BY <1>1, <1>2
      <3>1. rd \in Seq(Int) /\ IsFull(rd, d, n, k)
        BY <1>1, <1>2, <3>0, FullRecent
      <3>2. rg \in Seq(Int) /\ IsFull(rg, g, n, k)
        BY <1>1, <1>2, <3>0, FullRecent
      <3>3. rl \in Seq(Int) /\ IsFull(rl, l, n, k)
        BY <1>1, <1>2, <3>0, FullRecent
      <3> QED
        BY <3>1, <3>2, <3>3 DEF IsFull
    <2> HIDE DEF rd, rg, rl
    <2>2. 1 \in 1 .. k /\ n - k + 1 \in 1 .. n
      BY <1>1, <1>2
    <2>3. Head(rd) = d[n - k + 1] /\ Head(rg) = g[n - k + 1] /\ Head(rl) = l[n - k + 1]
          /\ d[n - k + 1] \in Int
      BY <1>1, <2>1, <2>2
    <2> QED
      BY <1>1, <2>1, <2>2, <2>3 DEF Leaving, rd, rg, rl, d, g, l
  <1>3. CASE ~ (n >= k)
    <2>1. Len(rd) # k /\ Len(rg) # k /\ Len(rl) # k
      <3>1. Len(rd) <= Len(d) /\ Len(rd) \in Nat
        BY <1>1, RecentLength
      <3>2. Len(rg) <= Len(g) /\ Len(rg) \in Nat
        BY <1>1, RecentLength
      <3>3. Len(rl) <= Len(l) /\ Len(rl) \in Nat
        BY <1>1, RecentLength
      <3> HIDE DEF rd, rg, rl
      <3> QED
        BY <1>1, <1>3, <3>1, <3>2, <3>3
    <2>2. S!Larger(0, 0) = 0
      BY DEF S!Larger
    <2>3. Leaving(rd, k) = 0 /\ Leaving(rg, k) = 0 /\ Leaving(rl, k) = 0
      BY <2>1 DEF Leaving
    <2>4. -Leaving(rd, k) = 0
      <3>1. \A x \in Int : -x + x = 0
        OBVIOUS
      <3>2. Leaving(rd, k) \in Int /\ -Leaving(rd, k) \in Int
        BY <2>3
      <3> DEFINE y == -Leaving(rd, k)
      <3>3. y + Leaving(rd, k) = 0 /\ y \in Int
        BY <3>1, <3>2
      <3> HIDE DEF y
      <3>4. y = 0
        BY <2>3, <3>3
      <3> QED
        BY <3>4 DEF y
    <2> HIDE DEF rd, rg, rl
    <2> QED
      BY <2>2, <2>3, <2>4 DEF rd, rg, rl, d, g, l
  <1> QED
    BY <1>2, <1>3

\* The average gain and loss of the newest changes.
AverageOf(f, k) ==
  IF Len(f) < k + 1 THEN None
  ELSE [gain |-> S!SumOf(Recent(Rises(f), k)) \div k, loss |-> S!SumOf(Recent(Falls(f), k)) \div k]

RsiOf(f, k) ==
  [previous |-> Latest(f), changes |-> Recent(S!Changes(f), k),
   gain |-> S!SumOf(Recent(Rises(f), k)), loss |-> S!SumOf(Recent(Falls(f), k)),
   value |-> AverageOf(f, k)]

GainLossOf(f, k) ==
  [previous |-> Latest(f), gains |-> Recent(Rises(f), k), losses |-> Recent(Falls(f), k),
   gain |-> S!SumOf(Recent(Rises(f), k)), loss |-> S!SumOf(Recent(Falls(f), k)),
   value |-> AverageOf(f, k)]

\* Before the second value there are no changes.
LEMMA NoChanges ==
  ASSUME NEW f \in Seq(Int), Len(f) <= 1
  PROVE  S!Changes(f) = <<>> /\ Rises(f) = <<>> /\ Falls(f) = <<>>
  <1> DEFINE m == Len(f) - 1
  <1>1. m \in Int /\ m <= 0
    OBVIOUS
  <1>2. /\ S!Changes(f) = [i \in 1 .. m |-> S!Changes(f)[i]]
        /\ Rises(f) = [i \in 1 .. m |-> Rises(f)[i]]
        /\ Falls(f) = [i \in 1 .. m |-> Falls(f)[i]]
    BY DEF S!Changes, Rises, Falls
  <1> HIDE DEF m
  <1> QED
    BY <1>1, <1>2, NoEntry

\* The newest value, once there is one.
LEMMA LatestIs ==
  ASSUME NEW s \in Seq(Int), NEW v \in Int
  PROVE  /\ Latest(s) = None <=> Len(s) = 0
         /\ Len(s) # 0 => Latest(s) = s[Len(s)] /\ s[Len(s)] \in Int
         /\ Latest(Append(s, v)) = v
         /\ Len(Append(s, v)) = Len(s) + 1 /\ Append(s, v) \in Seq(Int)
  <1>1. Len(s) # 0 => s[Len(s)] \in Int
    OBVIOUS
  <1>2. Len(Append(s, v)) = Len(s) + 1 /\ Append(s, v)[Len(s) + 1] = v /\ Append(s, v) \in Seq(Int)
        /\ Len(s) \in Nat
    OBVIOUS
  <1> QED
    BY <1>1, <1>2, NoReadingAssumption DEF Latest

\* Both forms of the RSI before and after the first value, which has no change yet.
LEMMA FirstValue ==
  ASSUME NEW s \in Seq(Int), NEW v \in Int, NEW k \in Nat \ {0}, Len(s) = 0
  PROVE  /\ RsiOf(s, k) = [previous |-> None, changes |-> <<>>, gain |-> 0, loss |-> 0, value |-> None]
         /\ RsiOf(Append(s, v), k) = [previous |-> v, changes |-> <<>>, gain |-> 0, loss |-> 0, value |-> None]
         /\ GainLossOf(s, k) =
              [previous |-> None, gains |-> <<>>, losses |-> <<>>, gain |-> 0, loss |-> 0, value |-> None]
         /\ GainLossOf(Append(s, v), k) =
              [previous |-> v, gains |-> <<>>, losses |-> <<>>, gain |-> 0, loss |-> 0, value |-> None]
  <1> DEFINE a == Append(s, v)
  <1>1. Latest(s) = None /\ Latest(a) = v /\ Len(a) = 1 /\ a \in Seq(Int)
    <2>1. Latest(s) = None
      BY DEF Latest
    <2>2. Latest(a) = v /\ Len(a) = Len(s) + 1 /\ a \in Seq(Int)
      BY LatestIs
    <2> HIDE DEF a
    <2> QED
      BY <2>1, <2>2
  <1> HIDE DEF a
  <1>2. /\ S!Changes(s) = <<>> /\ Rises(s) = <<>> /\ Falls(s) = <<>>
        /\ S!Changes(a) = <<>> /\ Rises(a) = <<>> /\ Falls(a) = <<>>
    <2>1. Len(s) <= 1 /\ Len(a) <= 1
      BY <1>1
    <2> QED
      BY <1>1, <2>1, NoChanges
  <1>3. Recent(<<>>, k) = <<>> /\ S!SumOf(Recent(<<>>, k)) = 0
    BY RecentOfNone
  <1>4. AverageOf(s, k) = None /\ AverageOf(a, k) = None
    BY <1>1 DEF AverageOf
  <1> QED
    BY <1>1, <1>2, <1>3, <1>4 DEF RsiOf, GainLossOf, a

\* What the next value does to the sums of rises and falls.
NextGain(s, v, k) ==
  S!SumOf(Recent(Rises(s), k)) + S!Larger(v - s[Len(s)], 0) - Leaving(Recent(Rises(s), k), k)

NextLoss(s, v, k) ==
  S!SumOf(Recent(Falls(s), k)) + S!Larger(s[Len(s)] - v, 0) - Leaving(Recent(Falls(s), k), k)

\* What both forms of the RSI hold when a value follows another.
LEMMA NextValue ==
  ASSUME NEW s \in Seq(Int), NEW v \in Int, NEW k \in Nat \ {0}, Len(s) # 0
  PROVE  /\ S!Push(Recent(S!Changes(s), k), v - s[Len(s)], k) = Recent(S!Changes(Append(s, v)), k)
         /\ S!Push(Recent(Rises(s), k), S!Larger(v - s[Len(s)], 0), k) = Recent(Rises(Append(s, v)), k)
         /\ S!Push(Recent(Falls(s), k), S!Larger(s[Len(s)] - v, 0), k) = Recent(Falls(Append(s, v)), k)
         /\ S!SumOf(Recent(Rises(Append(s, v)), k)) = NextGain(s, v, k)
         /\ S!SumOf(Recent(Falls(Append(s, v)), k)) = NextLoss(s, v, k)
         /\ Len(Recent(S!Changes(Append(s, v)), k)) < k <=> Len(Append(s, v)) < k + 1
         /\ Len(Recent(Rises(Append(s, v)), k)) < k <=> Len(Append(s, v)) < k + 1
         /\ NextGain(s, v, k) \in Int /\ NextLoss(s, v, k) \in Int
  <1> DEFINE a == Append(s, v)
             x == v - s[Len(s)]
             up == S!Larger(v - s[Len(s)], 0)
             down == S!Larger(s[Len(s)] - v, 0)
             d == S!Changes(s)
             g == Rises(s)
             l == Falls(s)
  <1>1. /\ d \in Seq(Int) /\ g \in Seq(Int) /\ l \in Seq(Int)
    BY ChangesAre
  <1>2. x \in Int /\ up \in Int /\ down \in Int
    <2>1. s[Len(s)] \in Int
      BY LatestIs
    <2>2. v - s[Len(s)] \in Int /\ s[Len(s)] - v \in Int /\ 0 \in Int
      BY <2>1
    <2> QED
      BY <2>2, LargerIs
  <1>3. S!Changes(a) = Append(d, x) /\ Rises(a) = Append(g, up) /\ Falls(a) = Append(l, down)
    BY ChangesFollow DEF Follows
  <1>4. a \in Seq(Int) /\ Len(a) # 0
    BY LatestIs
  <1> HIDE DEF a
  <1>5. /\ S!Changes(a) \in Seq(Int) /\ Rises(a) \in Seq(Int)
        /\ Len(S!Changes(a)) = Len(a) - 1 /\ Len(Rises(a)) = Len(a) - 1
    BY <1>4, ChangesAre
  <1>6. /\ Len(Recent(S!Changes(a), k)) < k <=> Len(a) < k + 1
        /\ Len(Recent(Rises(a), k)) < k <=> Len(a) < k + 1
    BY <1>4, <1>5, RecentLength
  <1> HIDE DEF x, up, down, d, g, l
  <1>7. /\ S!Push(Recent(d, k), x, k) = Recent(S!Changes(a), k)
        /\ S!Push(Recent(g, k), up, k) = Recent(Rises(a), k)
        /\ S!Push(Recent(l, k), down, k) = Recent(Falls(a), k)
    <2>1. S!Push(Recent(d, k), x, k) = Recent(Append(d, x), k)
      BY <1>1, <1>2, PushRecent
    <2>2. S!Push(Recent(g, k), up, k) = Recent(Append(g, up), k)
      BY <1>1, <1>2, PushRecent
    <2>3. S!Push(Recent(l, k), down, k) = Recent(Append(l, down), k)
      BY <1>1, <1>2, PushRecent
    <2> QED
      BY <1>3, <2>1, <2>2, <2>3
  <1>8. /\ S!SumOf(Recent(Rises(a), k)) = S!SumOf(Recent(g, k)) + up - Leaving(Recent(g, k), k)
        /\ S!SumOf(Recent(g, k)) \in Int /\ Leaving(Recent(g, k), k) \in Int
    <2>1. /\ S!SumOf(Recent(Append(g, up), k)) = S!SumOf(Recent(g, k)) + up - Leaving(Recent(g, k), k)
          /\ S!SumOf(Recent(g, k)) \in Int /\ Leaving(Recent(g, k), k) \in Int
      BY <1>1, <1>2, RollingSum
    <2> QED
      BY <1>3, <2>1
  <1>9. /\ S!SumOf(Recent(Falls(a), k)) = S!SumOf(Recent(l, k)) + down - Leaving(Recent(l, k), k)
        /\ S!SumOf(Recent(l, k)) \in Int /\ Leaving(Recent(l, k), k) \in Int
    <2>1. /\ S!SumOf(Recent(Append(l, down), k)) = S!SumOf(Recent(l, k)) + down - Leaving(Recent(l, k), k)
          /\ S!SumOf(Recent(l, k)) \in Int /\ Leaving(Recent(l, k), k) \in Int
      BY <1>1, <1>2, RollingSum
    <2> QED
      BY <1>3, <2>1
  <1>10. NextGain(s, v, k) = S!SumOf(Recent(Rises(a), k)) /\ NextLoss(s, v, k) = S!SumOf(Recent(Falls(a), k))
    BY <1>8, <1>9 DEF up, down, g, l, NextGain, NextLoss
  <1>11. S!SumOf(Recent(Rises(a), k)) \in Int /\ S!SumOf(Recent(Falls(a), k)) \in Int
    BY <1>2, <1>8, <1>9
  <1> QED
    BY <1>6, <1>7, <1>10, <1>11 DEF a, x, up, down, d, g, l

\* The RSI of one deque of changes follows a value.
LEMMA RsiFollows ==
  ASSUME NEW s \in Seq(Int), NEW v \in Int, NEW k \in Nat \ {0}
  PROVE  S!RsiUpdate(RsiOf(s, k), v, k) = RsiOf(Append(s, v), k)
  <1> DEFINE m == RsiOf(s, k)
             a == Append(s, v)
  <1>1. m.previous = Latest(s) /\ (Latest(s) = None <=> Len(s) = 0) /\ Latest(a) = v
    BY LatestIs DEF RsiOf
  <1>2. CASE Len(s) = 0
    <2>1. m = [previous |-> None, changes |-> <<>>, gain |-> 0, loss |-> 0, value |-> None]
      BY <1>2, FirstValue
    <2>2. RsiOf(a, k) = [previous |-> v, changes |-> <<>>, gain |-> 0, loss |-> 0, value |-> None]
      BY <1>2, FirstValue
    <2> HIDE DEF m, a
    <2>3. S!RsiUpdate(m, v, k) = [m EXCEPT !.previous = v]
      BY <2>1 DEF S!RsiUpdate
    <2>4. [m EXCEPT !.previous = v] = [previous |-> v, changes |-> <<>>, gain |-> 0, loss |-> 0, value |-> None]
      BY <2>1
    <2> QED
      BY <2>2, <2>3, <2>4 DEF m, a
  <1>3. CASE Len(s) # 0
    <2> DEFINE x == v - s[Len(s)]
               rd == Recent(S!Changes(s), k)
               out == Leaving(rd, k)
               gain == NextGain(s, v, k)
               loss == NextLoss(s, v, k)
               q == Recent(S!Changes(a), k)
    <2>1. m.previous = s[Len(s)] /\ m.previous # None /\ s[Len(s)] \in Int
      BY <1>1, <1>3, LatestIs
    <2>2. m.changes = rd /\ m.gain = S!SumOf(Recent(Rises(s), k)) /\ m.loss = S!SumOf(Recent(Falls(s), k))
      BY DEF RsiOf
    <2>3. /\ S!Push(rd, x, k) = q
          /\ S!SumOf(Recent(Rises(a), k)) = gain /\ S!SumOf(Recent(Falls(a), k)) = loss
          /\ Len(q) < k <=> Len(a) < k + 1
      BY <1>3, NextValue
    <2>4. /\ out \in Int
          /\ Leaving(Recent(Rises(s), k), k) = S!Larger(out, 0)
          /\ Leaving(Recent(Falls(s), k), k) = S!Larger(-out, 0)
      BY <1>3, LeavingChange
    <2>5. /\ S!SumOf(Recent(Rises(s), k)) \in Int /\ S!SumOf(Recent(Falls(s), k)) \in Int
      <3>1. Rises(s) \in Seq(Int) /\ Falls(s) \in Seq(Int)
        BY <1>3, ChangesAre
      <3> QED
        BY <3>1, RollingSum
    <2>6. -x = s[Len(s)] - v /\ x \in Int /\ -x \in Int /\ -out \in Int
      BY <2>1, <2>4
    <2>7. /\ S!Larger(out, 0) \in Int /\ S!Larger(-out, 0) \in Int
          /\ S!Larger(x, 0) \in Int /\ S!Larger(-x, 0) \in Int
      <3>1. 0 \in Int
        OBVIOUS
      <3> HIDE DEF x, out
      <3> QED
        BY <2>4, <2>6, <3>1, LargerIs
    <2>8. /\ gain = m.gain - S!Larger(out, 0) + S!Larger(x, 0)
          /\ loss = m.loss - S!Larger(-out, 0) + S!Larger(-x, 0)
      <3>1. gain = m.gain + S!Larger(x, 0) - S!Larger(out, 0)
        BY <2>2, <2>4 DEF NextGain
      <3>2. loss = m.loss + S!Larger(-x, 0) - S!Larger(-out, 0)
        BY <2>2, <2>4, <2>6 DEF NextLoss
      <3>3. m.gain \in Int /\ m.loss \in Int
        BY <2>2, <2>5
      <3> HIDE DEF gain, loss, m, x, out
      <3> QED
        BY <2>7, <3>1, <3>2, <3>3
    <2>9. RsiOf(a, k) =
            [previous |-> v, changes |-> q, gain |-> gain, loss |-> loss,
             value |-> IF Len(q) < k THEN None ELSE [gain |-> gain \div k, loss |-> loss \div k]]
      <3> HIDE DEF a, gain, loss
      <3> QED
        BY <1>1, <2>3 DEF RsiOf, AverageOf
    <2> HIDE DEF m, a, gain, loss, q
    <2>10. S!RsiUpdate(m, v, k) =
            [previous |-> v, changes |-> S!Push(m.changes, v - m.previous, k),
             gain |-> m.gain - S!Larger(out, 0) + S!Larger(v - m.previous, 0),
             loss |-> m.loss - S!Larger(-out, 0) + S!Larger(-(v - m.previous), 0),
             value |-> IF Len(S!Push(m.changes, v - m.previous, k)) < k THEN None
                       ELSE [gain |-> (m.gain - S!Larger(out, 0) + S!Larger(v - m.previous, 0)) \div k,
                             loss |-> (m.loss - S!Larger(-out, 0) + S!Larger(-(v - m.previous), 0)) \div k]]
      <3> HIDE DEF rd
      <3> QED
        BY <2>1, <2>2 DEF S!RsiUpdate, Leaving
    <2>11. v - m.previous = x /\ S!Push(m.changes, x, k) = q
      BY <2>1, <2>2, <2>3
    <2> HIDE DEF x, out
    <2> QED
      BY <2>8, <2>9, <2>10, <2>11 DEF m, a
  <1> QED
    BY <1>2, <1>3

\* The RSI of a deque of gains and one of losses follows a value.
LEMMA GainLossFollows ==
  ASSUME NEW s \in Seq(Int), NEW v \in Int, NEW k \in Nat \ {0}
  PROVE  S!GainLossUpdate(GainLossOf(s, k), v, k) = GainLossOf(Append(s, v), k)
  <1> DEFINE m == GainLossOf(s, k)
             a == Append(s, v)
  <1>1. m.previous = Latest(s) /\ (Latest(s) = None <=> Len(s) = 0) /\ Latest(a) = v
    BY LatestIs DEF GainLossOf
  <1>2. CASE Len(s) = 0
    <2>1. m = [previous |-> None, gains |-> <<>>, losses |-> <<>>, gain |-> 0, loss |-> 0, value |-> None]
      BY <1>2, FirstValue
    <2>2. GainLossOf(a, k) = [previous |-> v, gains |-> <<>>, losses |-> <<>>, gain |-> 0, loss |-> 0, value |-> None]
      BY <1>2, FirstValue
    <2> HIDE DEF m, a
    <2>3. S!GainLossUpdate(m, v, k) = [m EXCEPT !.previous = v]
      BY <2>1 DEF S!GainLossUpdate
    <2>4. [m EXCEPT !.previous = v] =
            [previous |-> v, gains |-> <<>>, losses |-> <<>>, gain |-> 0, loss |-> 0, value |-> None]
      BY <2>1
    <2> QED
      BY <2>2, <2>3, <2>4 DEF m, a
  <1>3. CASE Len(s) # 0
    <2> DEFINE last == s[Len(s)]
               up == S!Larger(v - last, 0)
               down == S!Larger(last - v, 0)
               rg == Recent(Rises(s), k)
               rl == Recent(Falls(s), k)
               gain == NextGain(s, v, k)
               loss == NextLoss(s, v, k)
               q == Recent(Rises(a), k)
               w == Recent(Falls(a), k)
    <2>1. m.previous = last /\ m.previous # None /\ last \in Int
      BY <1>1, <1>3, LatestIs
    <2>2. m.gains = rg /\ m.losses = rl /\ m.gain = S!SumOf(rg) /\ m.loss = S!SumOf(rl)
      BY DEF GainLossOf
    <2>3. /\ S!Push(rg, up, k) = q /\ S!Push(rl, down, k) = w
          /\ S!SumOf(q) = gain /\ S!SumOf(w) = loss
          /\ Len(q) < k <=> Len(a) < k + 1
      BY <1>3, NextValue
    <2>4. gain = S!SumOf(rg) + up - Leaving(rg, k) /\ loss = S!SumOf(rl) + down - Leaving(rl, k)
      BY DEF NextGain, NextLoss
    <2>5. Len(rg) = k <=> Len(rl) = k
      <3>1. Rises(s) \in Seq(Int) /\ Falls(s) \in Seq(Int) /\ Len(Rises(s)) = Len(Falls(s))
        BY <1>3, ChangesAre
      <3> QED
        BY <3>1, RecentLength
    <2>9. GainLossOf(a, k) =
            [previous |-> v, gains |-> q, losses |-> w, gain |-> gain, loss |-> loss,
             value |-> IF Len(q) < k THEN None ELSE [gain |-> gain \div k, loss |-> loss \div k]]
      <3> HIDE DEF a, gain, loss
      <3> QED
        BY <1>1, <2>3 DEF GainLossOf, AverageOf
    <2> HIDE DEF m, a, gain, loss, q, w, rg, rl, last
    <2>10. S!GainLossUpdate(m, v, k) =
            [previous |-> v, gains |-> S!Push(rg, up, k), losses |-> S!Push(rl, down, k),
             gain |-> m.gain + up - Leaving(rg, k), loss |-> m.loss + down - Leaving(rl, k),
             value |-> IF Len(S!Push(rg, up, k)) < k THEN None
                       ELSE [gain |-> (m.gain + up - Leaving(rg, k)) \div k,
                             loss |-> (m.loss + down - Leaving(rl, k)) \div k]]
      BY <2>1, <2>2, <2>5 DEF S!GainLossUpdate, Leaving
    <2> HIDE DEF up, down
    <2> QED
      BY <2>2, <2>3, <2>4, <2>9, <2>10 DEF m, a
  <1> QED
    BY <1>2, <1>3

\* The average of the newest true ranges.
AtrOf(h, k) ==
  [previous_close |-> Latest(S!Closes(h)), ranges |-> Recent(Ranges(h), k),
   total |-> S!SumOf(Recent(Ranges(h), k)),
   value |-> IF Len(h) >= k + 1 THEN S!SumOf(Recent(Ranges(h), k)) \div k ELSE None]

\* The ATR follows a candle.
LEMMA AtrFollows ==
  ASSUME NEW T, Priced(T), NEW h \in Seq(T), NEW c \in T, NEW k \in Nat \ {0}
  PROVE  S!AtrUpdate(AtrOf(h, k), c, k) = AtrOf(Append(h, c), k)
  <1> DEFINE m == AtrOf(h, k)
             a == Append(h, c)
             f == S!Closes(h)
             g == S!Closes(a)
  <1>1. f \in Seq(Int) /\ Len(f) = Len(h) /\ g = Append(f, c.close) /\ c.close \in Int
    BY ClosesFollow DEF Priced
  <1>2. a \in Seq(T) /\ Len(a) = Len(h) + 1 /\ Len(h) \in Nat
    OBVIOUS
  <1>3. m.previous_close = Latest(f) /\ m.ranges = Recent(Ranges(h), k)
        /\ m.total = S!SumOf(Recent(Ranges(h), k))
    BY DEF AtrOf
  <1>4. (Latest(f) = None <=> Len(f) = 0) /\ Latest(g) = c.close
    <2> HIDE DEF f, g
    <2> QED
      BY <1>1, LatestIs
  <1>5. CASE Len(h) = 0
    <2>1. Ranges(a) = <<>>
      BY <1>5, RangesFollow
    <2>2. Ranges(h) = <<>>
      <3> DEFINE n == Len(h) - 1
      <3>1. n \in Int /\ n <= 0
        BY <1>5
      <3>2. Ranges(h) = [i \in 1 .. n |-> Ranges(h)[i]]
        BY DEF Ranges
      <3> HIDE DEF n
      <3> QED
        BY <3>1, <3>2, NoEntry
    <2>3. Recent(<<>>, k) = <<>> /\ S!SumOf(Recent(<<>>, k)) = 0
      BY RecentOfNone
    <2>4. m = [previous_close |-> None, ranges |-> <<>>, total |-> 0, value |-> None]
      BY <1>1, <1>4, <1>5, <2>2, <2>3 DEF AtrOf
    <2>5. AtrOf(a, k) = [previous_close |-> c.close, ranges |-> <<>>, total |-> 0, value |-> None]
      <3>1. ~ (Len(a) >= k + 1)
        BY <1>2, <1>5
      <3> HIDE DEF a
      <3> QED
        BY <1>4, <2>1, <2>3, <3>1 DEF AtrOf
    <2> HIDE DEF m, a, f, g
    <2>6. S!AtrUpdate(m, c, k) = [m EXCEPT !.previous_close = c.close]
      BY <2>4 DEF S!AtrUpdate
    <2>7. [m EXCEPT !.previous_close = c.close] =
            [previous_close |-> c.close, ranges |-> <<>>, total |-> 0, value |-> None]
      BY <2>4
    <2> QED
      BY <2>5, <2>6, <2>7 DEF m, a
  <1>6. CASE Len(h) # 0
    <2> DEFINE x == S!TrueRange(h[Len(h)].close, c)
               s == Ranges(h)
               r == Recent(s, k)
               q == Recent(Ranges(a), k)
    <2>1. s \in Seq(Int) /\ Len(s) = Len(h) - 1 /\ Ranges(a) = Append(s, x) /\ x \in Int
      BY <1>6, RangesFollow DEF Follows
    <2>2. Latest(f) = h[Len(h)].close
      <3>1. Latest(f) = f[Len(f)]
        BY <1>1, <1>6 DEF Latest
      <3>2. Len(h) \in 1 .. Len(h)
        BY <1>2, <1>6
      <3>3. f[Len(h)] = h[Len(h)].close
        BY <3>2, ClosesFollow
      <3> QED
        BY <1>1, <3>1, <3>3
    <2> HIDE DEF x, s
    <2>3. S!Push(r, x, k) = q /\ S!SumOf(q) = S!SumOf(r) + x - Leaving(r, k)
      <3>1. S!Push(r, x, k) = Recent(Append(s, x), k)
        BY <2>1, PushRecent
      <3>2. S!SumOf(Recent(Append(s, x), k)) = S!SumOf(r) + x - Leaving(r, k)
        BY <2>1, RollingSum
      <3> QED
        BY <2>1, <3>1, <3>2
    <2>4. Len(q) = k <=> Len(a) >= k + 1
      <3> DEFINE w == Append(s, x)
      <3>1. w \in Seq(Int) /\ Len(w) = Len(a) - 1
        BY <1>2, <2>1
      <3> HIDE DEF w, a
      <3>2. Len(Recent(w, k)) = k <=> Len(a) >= k + 1
        BY <1>2, <3>1, RecentLength
      <3> QED
        BY <2>1, <3>2 DEF w, a
    <2>5. m.previous_close # None /\ m.previous_close = h[Len(h)].close
      BY <1>1, <1>3, <1>4, <1>6, <2>2
    <2> HIDE DEF r
    <2>6. AtrOf(a, k) =
            [previous_close |-> c.close, ranges |-> q, total |-> S!SumOf(q),
             value |-> IF Len(q) = k THEN S!SumOf(q) \div k ELSE None]
      <3> HIDE DEF a
      <3> QED
        BY <1>4, <2>4 DEF AtrOf
    <2> HIDE DEF m, a, f, g, q
    <2>7. m.ranges = r /\ m.total = S!SumOf(r)
      BY <1>3 DEF r, s
    <2>8. S!AtrUpdate(m, c, k) =
            [previous_close |-> c.close, ranges |-> S!Push(r, x, k),
             total |-> S!SumOf(r) + x - Leaving(r, k),
             value |-> IF Len(S!Push(r, x, k)) = k THEN (S!SumOf(r) + x - Leaving(r, k)) \div k ELSE None]
      BY <2>5, <2>7 DEF S!AtrUpdate, Leaving, x
    <2> QED
      BY <2>3, <2>6, <2>8 DEF m, a
  <1> QED
    BY <1>5, <1>6

\* The newest volume against the mean of those before it.
Spiked(f, k, multiplier) ==
  LET average == S!SumOf(Recent(S!Front(f), k)) \div k
  IN average > 0 /\ 10 * f[Len(f)] >= average * multiplier

SpikeOf(f, k, multiplier) ==
  [previous |-> Recent(f, k), total |-> S!SumOf(Recent(f, k)),
   value |-> Len(f) > k /\ Spiked(f, k, multiplier)]

\* All but the value just appended.
LEMMA FrontAppended ==
  ASSUME NEW T, NEW s \in Seq(T), NEW v \in T
  PROVE  /\ S!Front(Append(s, v)) = s
         /\ Append(s, v) \in Seq(T) /\ Len(Append(s, v)) = Len(s) + 1 /\ Append(s, v)[Len(s) + 1] = v
         /\ Len(s) \in Nat
  <1> DEFINE a == Append(s, v)
             n == Len(s)
             b == SubSeq(a, 1, n)
  <1>1. a \in Seq(T) /\ Len(a) = n + 1 /\ a[n + 1] = v /\ n \in Nat /\ \A i \in 1 .. n : a[i] = s[i]
    OBVIOUS
  <1> HIDE DEF a, n
  <1>2. b \in Seq(T) /\ Len(b) = n /\ \A i \in 1 .. n : b[i] = a[i]
    BY <1>1
  <1> HIDE DEF b
  <1>3. b = s
    BY <1>1, <1>2, SameEntries DEF n
  <1>4. Len(a) - 1 = n
    BY <1>1
  <1>5. S!Front(a) = b
    BY <1>4 DEF S!Front, b
  <1> QED
    BY <1>1, <1>3, <1>5 DEF a, n

\* The volume spike follows a volume.
LEMMA SpikeFollows ==
  ASSUME NEW f \in Seq(Int), NEW v \in Int, NEW k \in Nat \ {0}, NEW multiplier
  PROVE  S!SpikeUpdate(SpikeOf(f, k, multiplier), v, k, multiplier) = SpikeOf(Append(f, v), k, multiplier)
  <1> DEFINE r == Recent(f, k)
             a == Append(f, v)
             q == Recent(a, k)
             m == SpikeOf(f, k, multiplier)
             average == S!SumOf(r) \div k
  <1>1. S!Push(r, v, k) = q
    BY PushRecent
  <1>2. S!SumOf(q) = S!SumOf(r) + v - Leaving(r, k)
    BY RollingSum
  <1>3. a \in Seq(Int) /\ Len(a) = Len(f) + 1 /\ S!Front(a) = f /\ a[Len(a)] = v /\ Len(f) \in Nat
    <2>1. a \in Seq(Int) /\ Len(a) = Len(f) + 1 /\ S!Front(a) = f /\ a[Len(f) + 1] = v /\ Len(f) \in Nat
      BY FrontAppended
    <2> HIDE DEF a
    <2> QED
      BY <2>1
  <1>4. Len(r) = k <=> Len(a) > k
    <2> HIDE DEF a
    <2>1. Len(r) = k <=> Len(f) >= k
      BY RecentLength
    <2> QED
      BY <1>3, <2>1
  <1>5. m.previous = r /\ m.total = S!SumOf(r)
    BY DEF SpikeOf
  <1>6. SpikeOf(a, k, multiplier) =
          [previous |-> q, total |-> S!SumOf(q),
           value |-> Len(r) = k /\ average > 0 /\ 10 * v >= average * multiplier]
    <2> HIDE DEF a
    <2>1. Spiked(a, k, multiplier) <=> (average > 0 /\ 10 * v >= average * multiplier)
      BY <1>3 DEF Spiked
    <2>2. (Len(a) > k /\ Spiked(a, k, multiplier)) =
            (Len(r) = k /\ average > 0 /\ 10 * v >= average * multiplier)
      <3> HIDE DEF r, average
      <3> QED
        BY <1>4, <2>1 DEF Spiked
    <2> HIDE DEF average, r
    <2> QED
      BY <2>2 DEF SpikeOf
  <1> HIDE DEF m, q, a
  <1>7. S!SpikeUpdate(m, v, k, multiplier) =
          [previous |-> S!Push(r, v, k), total |-> S!SumOf(r) + v - Leaving(r, k),
           value |-> Len(r) = k /\ average > 0 /\ 10 * v >= average * multiplier]
    <2> HIDE DEF r
    <2> QED
      BY <1>5 DEF S!SpikeUpdate, Leaving
  <1> HIDE DEF r, average
  <1> QED
    BY <1>1, <1>2, <1>6, <1>7 DEF m, a

\* The bands of the newest values, from their sum and that of their squares.
MiddleOf(f, k) == S!SumOf(Recent(f, k)) \div k

VarianceOf(f, k) ==
  S!Larger(0, S!SumOf(Recent(Squares(f), k)) \div k - MiddleOf(f, k) * MiddleOf(f, k))

BandsValue(f, k) ==
  IF Len(f) < k THEN None ELSE [middle |-> MiddleOf(f, k), variance |-> VarianceOf(f, k)]

BandsOf(f, k) ==
  [values |-> Recent(f, k), total |-> S!SumOf(Recent(f, k)),
   total_squared |-> S!SumOf(Recent(Squares(f), k)), value |-> BandsValue(f, k)]

\* The bands follow a value.
LEMMA BandsFollow ==
  ASSUME NEW f \in Seq(Int), NEW v \in Int, NEW k \in Nat \ {0}
  PROVE  S!BollingerUpdate(BandsOf(f, k), v, k) = BandsOf(Append(f, v), k)
  <1> DEFINE r == Recent(f, k)
             s == Squares(f)
             a == Append(f, v)
             q == Recent(a, k)
             m == BandsOf(f, k)
             out == Leaving(r, k)
             total == S!SumOf(r) - out + v
             squared == S!SumOf(Recent(s, k)) - out * out + v * v
             middle == total \div k
  <1>1. S!Push(r, v, k) = q
    BY PushRecent
  <1>2. S!SumOf(q) = total
    <2>1. /\ S!SumOf(q) = S!SumOf(r) + v - Leaving(r, k)
          /\ S!SumOf(r) \in Int /\ Leaving(r, k) \in Int
      BY RollingSum
    <2> HIDE DEF r, q
    <2> QED
      BY <2>1
  <1>3. s \in Seq(Int) /\ Len(s) = Len(f) /\ Squares(a) = Append(s, v * v)
        /\ \A i \in 1 .. Len(f) : s[i] = f[i] * f[i]
    BY SquaresFollow
  <1>4. Leaving(Recent(s, k), k) = out * out
    <2> HIDE DEF s
    <2>1. CASE Len(f) >= k
      <3> DEFINE n == Len(f)
      <3>1. n \in Nat /\ k <= n /\ k \in Nat /\ Len(s) = n /\ Len(f) = n
        BY <1>3, <2>1
      <3> HIDE DEF n
      <3>2. r \in Seq(Int) /\ IsFull(r, f, n, k)
        BY <3>1, FullRecent
      <3>3. Recent(s, k) \in Seq(Int) /\ IsFull(Recent(s, k), s, n, k)
        BY <1>3, <3>1, FullRecent
      <3> HIDE DEF r
      <3>4. 1 \in 1 .. k /\ n - k + 1 \in 1 .. n
        BY <3>1
      <3>5. Head(r) = f[n - k + 1] /\ Head(Recent(s, k)) = s[n - k + 1]
        BY <3>2, <3>3, <3>4 DEF IsFull
      <3>6. s[n - k + 1] = f[n - k + 1] * f[n - k + 1]
        BY <1>3, <3>1, <3>4
      <3> QED
        BY <3>2, <3>3, <3>5, <3>6 DEF IsFull, Leaving
    <2>2. CASE ~ (Len(f) >= k)
      <3>1. Len(r) # k /\ Len(Recent(s, k)) # k
        BY <1>3, <2>2, RecentLength
      <3> HIDE DEF r
      <3> QED
        BY <3>1 DEF Leaving
    <2> QED
      BY <2>1, <2>2
  <1>5. S!SumOf(Recent(Squares(a), k)) = squared
    <2> DEFINE w == v * v
    <2>1. w \in Int
      OBVIOUS
    <2> HIDE DEF w
    <2>2. /\ S!SumOf(Recent(Append(s, w), k)) = S!SumOf(Recent(s, k)) + w - Leaving(Recent(s, k), k)
          /\ S!SumOf(Recent(s, k)) \in Int /\ Leaving(Recent(s, k), k) \in Int
      <3> HIDE DEF s
      <3> QED
        BY <1>3, <2>1, RollingSum
    <2>3. S!SumOf(Recent(Append(s, w), k)) = S!SumOf(Recent(s, k)) - Leaving(Recent(s, k), k) + w
      <3> HIDE DEF s
      <3> QED
        BY <2>1, <2>2
    <2> HIDE DEF out
    <2> QED
      BY <1>3, <1>4, <2>3 DEF w
  <1>6. Len(q) < k <=> Len(a) < k
    <2>1. a \in Seq(Int)
      OBVIOUS
    <2> HIDE DEF a
    <2> QED
      BY <2>1, RecentLength
  <1>7. m.values = r /\ m.total = S!SumOf(r) /\ m.total_squared = S!SumOf(Recent(s, k))
    BY DEF BandsOf
  <1>8. BandsOf(a, k) =
          [values |-> q, total |-> total, total_squared |-> squared,
           value |-> IF Len(q) < k THEN None
                     ELSE [middle |-> middle,
                           variance |-> S!Larger(0, squared \div k - middle * middle)]]
    <2> HIDE DEF a, total, squared
    <2> QED
      BY <1>2, <1>5, <1>6 DEF BandsOf, BandsValue, VarianceOf, MiddleOf
  <1> HIDE DEF m, a, q
  <1>9. S!BollingerUpdate(m, v, k) =
          [values |-> S!Push(r, v, k), total |-> total, total_squared |-> squared,
           value |-> IF Len(S!Push(r, v, k)) < k THEN None
                     ELSE [middle |-> middle,
                           variance |-> S!Larger(0, squared \div k - middle * middle)]]
    <2> HIDE DEF r, s
    <2> QED
      BY <1>7 DEF S!BollingerUpdate, Leaving
  <1> HIDE DEF total, squared, middle, r
  <1> QED
    BY <1>1, <1>8, <1>9 DEF m, a

\* A variance is a number, and there is one once there are k values.
LEMMA VarianceIs ==
  ASSUME NEW f \in Seq(Int), NEW k \in Nat \ {0}
  PROVE  /\ VarianceOf(f, k) \in Int /\ MiddleOf(f, k) \in Int
         /\ BandsValue(f, k) = None <=> Len(f) < k
         /\ Len(f) >= k => BandsValue(f, k).variance = VarianceOf(f, k)
  <1>1. S!SumOf(Recent(f, k)) \in Int
    BY RollingSum
  <1>2. S!SumOf(Recent(Squares(f), k)) \in Int
    <2>1. 0 \in Int
      OBVIOUS
    <2>2. Squares(f) \in Seq(Int)
      BY <2>1, SquaresFollow
    <2> QED
      BY <2>1, <2>2, RollingSum
  <1>3. \A x \in Int : x \div k \in Int
    OBVIOUS
  <1>4. MiddleOf(f, k) \in Int
    BY <1>1, <1>3 DEF MiddleOf
  <1>5. \A x, y \in Int : x - y * y \in Int
    OBVIOUS
  <1>6. VarianceOf(f, k) \in Int
    <2> DEFINE x == S!SumOf(Recent(Squares(f), k)) \div k - MiddleOf(f, k) * MiddleOf(f, k)
    <2>1. x \in Int /\ 0 \in Int
      BY <1>2, <1>3, <1>4, <1>5
    <2> HIDE DEF x
    <2>2. S!Larger(0, x) \in Int
      BY <2>1, LargerIs
    <2> QED
      BY <2>2 DEF VarianceOf, x
  <1>7. Len(f) \in Nat
    OBVIOUS
  <1>8. [middle |-> MiddleOf(f, k), variance |-> VarianceOf(f, k)] \in [middle : Int, variance : Int]
    BY <1>4, <1>6
  <1>9. [middle |-> MiddleOf(f, k), variance |-> VarianceOf(f, k)] # None
    BY <1>8, NoReadingAssumption
  <1> QED
    BY <1>4, <1>6, <1>7, <1>9 DEF BandsValue

\* The variances at every value that has bands, and the newest of them before the last value.
Variances(f, k) ==
  [i \in 1 .. S!Larger(0, Len(f) - k + 1) |-> VarianceOf(SubSeq(f, 1, k + i - 1), k)]

WidthsOf(f, k, l) ==
  [deque |-> Recent(Variances(f, k), l),
   value |-> IF Len(f) = 0 THEN <<>> ELSE Recent(Variances(S!Front(f), k), l)]

\* There is a variance for every k values in a row.
LEMMA VariancesAre ==
  ASSUME NEW f \in Seq(Int), NEW k \in Nat \ {0}
  PROVE  /\ Len(f) < k => Variances(f, k) = <<>>
         /\ Len(f) >= k => Listed(Variances(f, k), Len(f) - k + 1, Int)
         /\ Variances(f, k) \in Seq(Int)
  <1> DEFINE n == S!Larger(0, Len(f) - k + 1)
             g == Variances(f, k)
  <1>1. n \in Nat /\ (Len(f) < k => n = 0) /\ (Len(f) >= k => n = Len(f) - k + 1)
    <2>1. Len(f) \in Nat
      OBVIOUS
    <2> QED
      BY <2>1 DEF S!Larger
  <1>2. g = [i \in 1 .. n |-> VarianceOf(SubSeq(f, 1, k + i - 1), k)]
    BY DEF Variances
  <1> HIDE DEF n, g
  <1>3. ASSUME NEW i \in 1 .. n PROVE g[i] \in Int
    <2>1. n # 0 /\ i \in Nat /\ i >= 1 /\ i <= Len(f) - k + 1 /\ Len(f) \in Nat
      BY <1>1, <1>3
    <2>2. k + i - 1 \in 0 .. Len(f)
      BY <2>1
    <2>3. SubSeq(f, 1, k + i - 1) \in Seq(Int)
      BY <2>2
    <2> QED
      BY <1>2, <2>3, VarianceIs
  <1>4. Listed(g, n, Int)
    BY <1>2, <1>3 DEF Listed
  <1>5. g \in Seq(Int)
    BY <1>1, <1>4, ListedIs
  <1>6. ASSUME Len(f) < k PROVE g = <<>>
    <2>1. n \in Int /\ n <= 0 /\ g = [i \in 1 .. n |-> g[i]]
      BY <1>1, <1>4, <1>6 DEF Listed
    <2> QED
      BY <2>1, NoEntry
  <1> QED
    BY <1>1, <1>4, <1>5, <1>6 DEF g

\* The variances when one more value arrives.
LEMMA VariancesFollow ==
  ASSUME NEW f \in Seq(Int), NEW v \in Int, NEW k \in Nat \ {0}
  PROVE  Variances(Append(f, v), k) =
           IF Len(f) + 1 < k THEN Variances(f, k)
           ELSE Append(Variances(f, k), VarianceOf(Append(f, v), k))
  <1> DEFINE a == Append(f, v)
             x == Variances(f, k)
             y == Variances(a, k)
             last == VarianceOf(a, k)
  <1>1. a \in Seq(Int) /\ Len(a) = Len(f) + 1 /\ Len(f) \in Nat /\ \A i \in 1 .. Len(f) : a[i] = f[i]
    OBVIOUS
  <1>2. \A j \in 0 .. Len(f) : SubSeq(a, 1, j) = SubSeq(f, 1, j)
    <2> SUFFICES ASSUME NEW j \in 0 .. Len(f) PROVE SubSeq(a, 1, j) = SubSeq(f, 1, j)
      OBVIOUS
    <2> DEFINE b == SubSeq(a, 1, j)
               d == SubSeq(f, 1, j)
    <2> HIDE DEF a
    <2>1. j \in Nat /\ j <= Len(f) /\ j <= Len(a)
      BY <1>1
    <2>2. b \in Seq(Int) /\ Len(b) = j /\ \A i \in 1 .. j : b[i] = a[i]
      BY <1>1, <2>1
    <2>3. d \in Seq(Int) /\ Len(d) = j /\ \A i \in 1 .. j : d[i] = f[i]
      BY <1>1, <2>1
    <2> HIDE DEF b, d
    <2>4. \A i \in 1 .. j : b[i] = d[i]
      <3>1. \A i \in 1 .. j : i \in 1 .. Len(f)
        BY <1>1, <2>1
      <3> QED
        BY <1>1, <2>2, <2>3, <3>1
    <2>5. b = d
      BY <2>2, <2>3, <2>4, SameEntries
    <2> QED
      BY <2>5 DEF b, d
  <1>3. SubSeq(a, 1, Len(a)) = a
    <2> HIDE DEF a
    <2> DEFINE b == SubSeq(a, 1, Len(a))
    <2>1. b \in Seq(Int) /\ Len(b) = Len(a) /\ \A i \in 1 .. Len(b) : b[i] = a[i]
      BY <1>1
    <2> HIDE DEF b
    <2>2. b = a
      BY <1>1, <2>1, SameEntries
    <2> QED
      BY <2>2 DEF b
  <1> HIDE DEF a
  <1>4. ASSUME Len(f) + 1 < k PROVE y = x
    <2>1. Len(f) < k /\ Len(a) < k
      BY <1>1, <1>4
    <2> QED
      BY <1>1, <2>1, VariancesAre
  <1>5. ASSUME ~ (Len(f) + 1 < k) PROVE y = Append(x, last)
    <2> DEFINE n == Len(f) - k + 1
    <2>1. n \in Nat /\ Len(a) - k + 1 = n + 1 /\ Len(a) >= k
          /\ S!Larger(0, Len(f) - k + 1) = n /\ S!Larger(0, Len(a) - k + 1) = n + 1
          /\ Len(f) = n + k - 1 /\ Len(a) = n + k
      BY <1>1, <1>5 DEF S!Larger
    <2>2. /\ x = [i \in 1 .. n |-> VarianceOf(SubSeq(f, 1, k + i - 1), k)]
          /\ y = [i \in 1 .. n + 1 |-> VarianceOf(SubSeq(a, 1, k + i - 1), k)]
      <3> HIDE DEF n
      <3> QED
        BY <2>1 DEF Variances
    <2>3. Listed(y, n + 1, Int)
      BY <1>1, <2>1, VariancesAre
    <2> HIDE DEF n, x, y
    <2>4. n + 1 \in 1 .. n + 1 /\ k + (n + 1) - 1 = Len(a)
          /\ \A i \in 1 .. n : i \in 1 .. n + 1 /\ k + i - 1 \in 0 .. Len(f)
      BY <1>1, <2>1
    <2>5. y[n + 1] = last
      BY <1>3, <2>2, <2>4
    <2>6. \A i \in 1 .. n : x[i] = y[i]
      BY <1>2, <2>2, <2>4
    <2>7. Listed(x, n, Int)
      <3>1. x = [i \in 1 .. n |-> x[i]]
        BY <2>2
      <3> QED
        BY <2>3, <2>4, <2>6, <3>1 DEF Listed
    <2>8. Extends(x, y, n)
      BY <2>6 DEF Extends
    <2> QED
      BY <2>1, <2>3, <2>5, <2>7, <2>8, OneMoreEntry
  <1> QED
    BY <1>4, <1>5 DEF x, y, last, a

\* The widths follow a value, the reading one behind the deque.
LEMMA WidthsFollow ==
  ASSUME NEW f \in Seq(Int), NEW v \in Int, NEW k \in Nat \ {0}, NEW params, params.squeeze_lookback \in Nat \ {0}
  PROVE  S!WidthsUpdate(WidthsOf(f, k, params.squeeze_lookback), BandsValue(Append(f, v), k), params)
           = WidthsOf(Append(f, v), k, params.squeeze_lookback)
  <1> DEFINE l == params.squeeze_lookback
             a == Append(f, v)
             x == Variances(f, k)
             w == WidthsOf(f, k, l)
             bands == BandsValue(a, k)
             last == VarianceOf(a, k)
  <1>1. a \in Seq(Int) /\ Len(a) = Len(f) + 1 /\ S!Front(a) = f /\ Len(f) \in Nat
    BY FrontAppended
  <1>2. Variances(a, k) = IF Len(a) < k THEN x ELSE Append(x, last)
    BY <1>1, VariancesFollow
  <1> HIDE DEF a
  <1>3. last \in Int /\ (bands = None <=> Len(a) < k) /\ (Len(a) >= k => bands.variance = last)
    BY <1>1, VarianceIs
  <1>4. x \in Seq(Int)
    BY VariancesAre
  <1>5. w.deque = Recent(x, l)
    BY DEF WidthsOf
  <1> HIDE DEF x, last, bands, w, l
  <1>6. l \in Nat \ {0}
    BY DEF l
  <1>7. S!Push(Recent(x, l), last, l) = Recent(Append(x, last), l)
    BY <1>3, <1>4, <1>6, PushRecent
  <1>8. S!WidthsUpdate(w, bands, params) =
          [deque |-> IF bands = None THEN w.deque ELSE S!Push(w.deque, bands.variance, l),
           value |-> w.deque]
    BY DEF S!WidthsUpdate, l
  <1>9. Recent(Variances(a, k), l) = IF bands = None THEN w.deque ELSE S!Push(w.deque, bands.variance, l)
    BY <1>1, <1>2, <1>3, <1>5, <1>7
  <1>10. WidthsOf(a, k, l) = [deque |-> Recent(Variances(a, k), l), value |-> Recent(x, l)]
    <2>1. Len(a) # 0
      BY <1>1
    <2> QED
      BY <1>1, <2>1 DEF WidthsOf, x
  <1> QED
    BY <1>5, <1>8, <1>9, <1>10 DEF w, a, bands, l

----------------------------------------------------------------------------
(* Monotone deques.                                                        *)

\* A price is at least as extreme as another: as high, or as low.
Beats(x, y, up) == IF up THEN x >= y ELSE x <= y

Extreme(D, up) == IF up THEN Max(D) ELSE Min(D)

\* Either order is reflexive, total and transitive.
LEMMA BeatsIs ==
  ASSUME NEW up \in BOOLEAN
  PROVE  /\ \A x \in Int : Beats(x, x, up)
         /\ \A x, y \in Int : Beats(x, y, up) \/ Beats(y, x, up)
         /\ \A x, y, z \in Int : Beats(x, y, up) /\ Beats(y, z, up) => Beats(x, z, up)
  BY DEF Beats

\* What nothing in a set beats is its extreme.
LEMMA ExtremeIs ==
  ASSUME NEW up \in BOOLEAN, NEW D \in SUBSET Int, NEW x \in D, \A y \in D : Beats(x, y, up)
  PROVE  Extreme(D, up) = x
  <1>1. CASE up = TRUE
    <2>1. \A y \in D : x >= y
      BY <1>1 DEF Beats
    <2>2. Max(D) = x
      BY <2>1, MaxIs
    <2> QED
      BY <1>1, <2>2 DEF Extreme
  <1>2. CASE up = FALSE
    <2>1. \A y \in D : x <= y
      BY <1>2 DEF Beats
    <2>2. Min(D) = x
      BY <2>1, MinIs
    <2> QED
      BY <1>2, <2>2 DEF Extreme
  <1> QED
    BY <1>1, <1>2

\* A deque for the extreme of the values x from index "from" on: its entries are values with
\* their indices, from the most extreme on, and each value meets one as new and as extreme.
Deque(d, x, from, up) ==
  /\ d \in Seq(Nat \X Int)
  /\ \A i \in 1 .. Len(d) : d[i][1] < Len(x) /\ d[i][2] = x[d[i][1] + 1]
  /\ \A i, j \in 1 .. Len(d) : i <= j => Beats(d[i][2], d[j][2], up)
  /\ \A j \in Nat : from <= j /\ j < Len(x) =>
       \E i \in 1 .. Len(d) : d[i][1] >= j /\ Beats(d[i][2], x[j + 1], up)
  /\ Len(d) > 0 => d[1][1] >= from

\* An entry of a deque is a position and a price.
LEMMA Entries ==
  ASSUME NEW d \in Seq(Nat \X Int)
  PROVE  \A i \in 1 .. Len(d) : d[i] \in Nat \X Int /\ d[i][1] \in Nat /\ d[i][2] \in Int
  <1> SUFFICES ASSUME NEW i \in 1 .. Len(d)
               PROVE  d[i] \in Nat \X Int /\ d[i][1] \in Nat /\ d[i][2] \in Int
    OBVIOUS
  <1>1. d[i] \in Nat \X Int
    OBVIOUS
  <1>2. \A e \in Nat \X Int : e[1] \in Nat /\ e[2] \in Int
    OBVIOUS
  <1> QED
    BY <1>1, <1>2

\* No deque is needed before the first value.
LEMMA EmptyDeque ==
  ASSUME NEW x, Len(x) = 0, NEW from, NEW up
  PROVE  Deque(<<>>, x, from, up)
  <1>1. <<>> \in Seq(Nat \X Int) /\ Len(<<>>) = 0
    OBVIOUS
  <1>2. \A j \in Nat : ~ (j < 0)
    OBVIOUS
  <1> QED
    BY <1>1, <1>2 DEF Deque

\* What a slice of a deque is.
LEMMA Slice ==
  ASSUME NEW T, NEW d \in Seq(T), NEW a \in Nat \ {0}, NEW b \in Nat, a <= b + 1, b <= Len(d)
  PROVE  /\ SubSeq(d, a, b) \in Seq(T) /\ Len(SubSeq(d, a, b)) = b - a + 1
         /\ \A i \in 1 .. b - a + 1 : SubSeq(d, a, b)[i] = d[a + i - 1]
  <1> DEFINE s == SubSeq(d, a, b)
  <1>1. a \in 1 .. Len(d) + 1 /\ b \in a - 1 .. Len(d)
    OBVIOUS
  <1>2. s \in Seq(T) /\ Len(s) = b - a + 1
    BY <1>1
  <1>3. \A i \in 1 .. Len(s) : s[i] = d[a + i - 1]
    BY <1>1
  <1> HIDE DEF s
  <1> QED
    BY <1>2, <1>3 DEF s

\* Popping what is too old from the front.
LEMMA PopFrontDeque ==
  ASSUME NEW x \in Seq(Int), NEW from \in Int, NEW up \in BOOLEAN, NEW d, Deque(d, x, from, up),
         NEW cutoff \in Int, from <= cutoff
  PROVE  Deque(S!PopFront(d, cutoff), x, cutoff, up)
  <1> DEFINE young == {i \in 1 .. Len(d) : d[i][1] >= cutoff}
             k == Min(young)
             s == SubSeq(d, k, Len(d))
  <1>1. d \in Seq(Nat \X Int) /\ Len(d) \in Nat
    BY DEF Deque
  <1>2. S!PopFront(d, cutoff) =
          IF young # {} THEN (IF k = 0 THEN <<>> ELSE s) ELSE <<>>
    BY DEF S!PopFront, S!SelectInSeq, S!Min, Min
  <1> HIDE DEF s, k
  <1>3. CASE young = {}
    <2>1. S!PopFront(d, cutoff) = <<>>
      BY <1>2, <1>3
    <2>2. ASSUME NEW j \in Nat, cutoff <= j, j < Len(x) PROVE FALSE
      <3>1. from <= j
        BY <2>2
      <3>2. PICK i \in 1 .. Len(d) : d[i][1] >= j
        BY <2>2, <3>1 DEF Deque
      <3>3. d[i][1] \in Nat
        BY <1>1, Entries
      <3>4. d[i][1] >= cutoff
        BY <2>2, <3>2, <3>3
      <3> QED
        BY <1>3, <3>4
    <2>3. <<>> \in Seq(Nat \X Int) /\ Len(<<>>) = 0
      OBVIOUS
    <2> HIDE DEF young
    <2>4. Deque(<<>>, x, cutoff, up)
      BY <2>2, <2>3 DEF Deque
    <2> QED
      BY <2>1, <2>4
  <1>4. CASE young # {}
    <2>1. k \in young /\ \A i \in young : k <= i
      <3>1. young \in SUBSET Nat
        OBVIOUS
      <3>2. PICK m \in young : \A i \in young : m <= i
        BY <1>4, <3>1, LeastOne
      <3>3. young \in SUBSET Int
        BY <3>1
      <3> HIDE DEF young
      <3>4. k = m
        BY <3>2, <3>3, MinIs DEF k
      <3> QED
        BY <3>2, <3>4
    <2>2. k \in 1 .. Len(d) /\ d[k][1] >= cutoff /\ k # 0
      BY <2>1
    <2>3. /\ s \in Seq(Nat \X Int) /\ Len(s) = Len(d) - k + 1
          /\ \A i \in 1 .. Len(d) - k + 1 : s[i] = d[k + i - 1]
      <3>1. k \in Nat \ {0} /\ k <= Len(d) + 1 /\ Len(d) <= Len(d)
        BY <1>1, <2>2
      <3> QED
        BY <1>1, <3>1, Slice DEF s
    <2>4. S!PopFront(d, cutoff) = s
      BY <1>2, <1>4, <2>2
    <2> DEFINE n == Len(d) - k + 1
    <2>a. k \in Nat /\ k >= 1 /\ k <= Len(d)
      BY <1>1, <2>2
    <2>b. n \in Nat /\ n >= 1 /\ Len(s) = n /\ n = Len(d) - k + 1
      BY <1>1, <2>3, <2>a
    <2>c. \A i \in 1 .. n : s[i] = d[k + i - 1]
      BY <2>3
    <2> HIDE DEF young, n
    <2>d. \A i \in 1 .. n : k + i - 1 \in 1 .. Len(d)
      BY <1>1, <2>a, <2>b
    <2>5. \A i \in 1 .. Len(s) : k + i - 1 \in 1 .. Len(d) /\ s[i] = d[k + i - 1]
      BY <2>b, <2>c, <2>d
    <2>6. \A i \in 1 .. Len(s) : s[i][1] < Len(x) /\ s[i][2] = x[s[i][1] + 1]
      BY <2>5 DEF Deque
    <2>7. \A i, j \in 1 .. Len(s) : i <= j => Beats(s[i][2], s[j][2], up)
      <3>1. \A i, j \in 1 .. Len(s) : i <= j => k + i - 1 <= k + j - 1
        BY <2>2
      <3> QED
        BY <2>5, <3>1 DEF Deque
    <2>8. ASSUME NEW j \in Nat, cutoff <= j, j < Len(x)
          PROVE  \E i \in 1 .. Len(s) : s[i][1] >= j /\ Beats(s[i][2], x[j + 1], up)
      <3>1. from <= j
        BY <2>8
      <3>2. PICK i \in 1 .. Len(d) : d[i][1] >= j /\ Beats(d[i][2], x[j + 1], up)
        BY <2>8, <3>1 DEF Deque
      <3>3. d[i][1] \in Nat
        BY <1>1, Entries
      <3>4. i \in young
        BY <2>8, <3>2, <3>3 DEF young
      <3>5. k <= i
        BY <2>1, <3>4
      <3>6. i - k + 1 \in 1 .. Len(s) /\ k + (i - k + 1) - 1 = i
        <4>1. i \in Nat /\ i <= Len(d)
          BY <1>1
        <4> QED
          BY <1>1, <2>a, <2>b, <3>5, <4>1
      <3>7. s[i - k + 1] = d[i]
        BY <2>5, <3>6
      <3> QED
        BY <3>2, <3>6, <3>7
    <2>9. s[1][1] >= cutoff
      <3>1. 1 \in 1 .. Len(s) /\ k + 1 - 1 = k
        BY <2>a, <2>b
      <3>2. s[1] = d[k]
        BY <2>5, <3>1
      <3> QED
        BY <2>2, <3>2
    <2>10. Deque(s, x, cutoff, up)
      BY <2>3, <2>6, <2>7, <2>8, <2>9 DEF Deque
    <2> QED
      BY <2>4, <2>10
  <1> QED
    BY <1>3, <1>4

\* A new value pops what it beats from the back.
LastKept(d, v, up) ==
  LET kept == {i \in 1 .. Len(d) : ~ Beats(v, d[i][2], up)}
  IN IF kept # {} THEN Max(kept) ELSE 0

PushExtreme(d, index, v, up) == Append(SubSeq(d, 1, LastKept(d, v, up)), <<index, v>>)

\* Both deques push the same way, each with its order.
LEMMA PushesAre ==
  ASSUME NEW d, NEW index, NEW v
  PROVE  /\ S!PushHigh(d, index, v) = PushExtreme(d, index, v, TRUE)
         /\ S!PushLow(d, index, v) = PushExtreme(d, index, v, FALSE)
  <1>1. S!PushHigh(d, index, v) = PushExtreme(d, index, v, TRUE)
    BY DEF S!PushHigh, S!PopBack, S!SelectLastInSeq, S!Max, Max, PushExtreme, LastKept, Beats
  <1>2. S!PushLow(d, index, v) = PushExtreme(d, index, v, FALSE)
    BY DEF S!PushLow, S!PopBack, S!SelectLastInSeq, S!Max, Max, PushExtreme, LastKept, Beats
  <1> QED
    BY <1>1, <1>2

\* A price that enters takes the place of those it beats.
LEMMA PushDeque ==
  ASSUME NEW x \in Seq(Int), NEW from \in Int, from <= Len(x), NEW up \in BOOLEAN,
         NEW d, Deque(d, x, from, up), NEW v \in Int
  PROVE  Deque(PushExtreme(d, Len(x), v, up), Append(x, v), from, up)
  <1> DEFINE kept == {i \in 1 .. Len(d) : ~ Beats(v, d[i][2], up)}
             m == LastKept(d, v, up)
             s == SubSeq(d, 1, m)
             n == Len(x)
             e == <<n, v>>
             q == Append(s, e)
             y == Append(x, v)
  <1>1. d \in Seq(Nat \X Int) /\ Len(d) \in Nat
    BY DEF Deque
  <1>2. /\ m \in 0 .. Len(d)
        /\ m # 0 => ~ Beats(v, d[m][2], up)
        /\ \A i \in 1 .. Len(d) : i > m => Beats(v, d[i][2], up)
    <2>1. CASE kept = {}
      <3>1. m = 0
        BY <2>1 DEF LastKept
      <3>2. \A i \in 1 .. Len(d) : Beats(v, d[i][2], up)
        BY <2>1
      <3> HIDE DEF m
      <3> QED
        BY <1>1, <3>1, <3>2
    <2>2. CASE kept # {}
      <3>1. kept \in SUBSET (1 .. Len(d))
        OBVIOUS
      <3>2. Max(kept) \in kept
        BY <1>1, <2>2, <3>1, LastOne
      <3>3. \A i \in kept : Max(kept) >= i
        <4>1. kept \in SUBSET Int
          BY <3>1
        <4>2. PICK z \in kept : \A i \in kept : z >= i
          <5> DEFINE T == {Len(d) - i : i \in kept}
          <5>1. T \in SUBSET Nat /\ T # {}
            <6>1. \A i \in kept : Len(d) - i \in Nat
              BY <1>1, <3>1
            <6> HIDE DEF kept
            <6>2. \A t \in T : t \in Nat
              BY <6>1
            <6> QED
              BY <2>2, <6>2
          <5>2. PICK t \in T : \A u \in T : t <= u
            BY <5>1, LeastOne
          <5>3. PICK z \in kept : t = Len(d) - z
            BY <5>2
          <5>4. ASSUME NEW i \in kept PROVE z >= i
            <6>1. Len(d) - z <= Len(d) - i
              BY <5>2, <5>3
            <6>2. z \in Int /\ i \in Int
              BY <4>1
            <6> QED
              BY <1>1, <6>1, <6>2
          <5> QED
            BY <5>4
        <4> HIDE DEF kept
        <4>3. Max(kept) = z
          BY <4>1, <4>2, MaxIs
        <4> QED
          BY <4>2, <4>3
      <3>4. m = Max(kept)
        BY <2>2 DEF LastKept
      <3> HIDE DEF m
      <3>5. m \in 1 .. Len(d) /\ ~ Beats(v, d[m][2], up) /\ \A i \in kept : m >= i
        BY <3>2, <3>3, <3>4
      <3>6. \A i \in 1 .. Len(d) : i > m => Beats(v, d[i][2], up)
        BY <3>5
      <3> QED
        BY <1>1, <3>5, <3>6
    <2> HIDE DEF m, kept
    <2> QED
      BY <2>1, <2>2
  <1> HIDE DEF m, kept
  <1>3. s \in Seq(Nat \X Int) /\ Len(s) = m /\ \A i \in 1 .. m : s[i] = d[i]
    <2>1. m \in Nat /\ m <= Len(d) /\ 1 <= m + 1 /\ 1 \in Nat \ {0}
      BY <1>1, <1>2
    <2>2. s \in Seq(Nat \X Int) /\ Len(s) = m - 1 + 1 /\ \A i \in 1 .. m - 1 + 1 : s[i] = d[1 + i - 1]
      BY <1>1, <2>1, Slice
    <2>3. \A i \in 1 .. m : 1 + i - 1 = i /\ m - 1 + 1 = m
      BY <2>1
    <2> HIDE DEF s
    <2> QED
      BY <2>1, <2>2, <2>3
  <1>4. n \in Nat /\ e \in Nat \X Int /\ e[1] = n /\ e[2] = v
    OBVIOUS
  <1> HIDE DEF s, e
  <1>5. /\ q \in Seq(Nat \X Int) /\ Len(q) = m + 1 /\ q[m + 1] = e
        /\ \A i \in 1 .. m : q[i] = d[i]
    BY <1>3, <1>4
  <1>6. /\ Len(y) = n + 1 /\ y[n + 1] = v /\ \A i \in 1 .. n : y[i] = x[i] /\ x[i] \in Int
    OBVIOUS
  <1> HIDE DEF q, y
  <1>7. \A i \in 1 .. m + 1 : i \in 1 .. m \/ i = m + 1
    BY <1>2
  <1>8. \A i \in 1 .. m : i \in 1 .. Len(d) /\ d[i][1] \in Nat /\ d[i][2] \in Int /\ d[i][1] < n
    <2>1. \A i \in 1 .. m : i \in 1 .. Len(d)
      BY <1>1, <1>2
    <2> QED
      BY <1>1, <2>1, Entries DEF Deque
  <1>9. ASSUME NEW i \in 1 .. Len(q) PROVE q[i][1] < Len(y) /\ q[i][2] = y[q[i][1] + 1]
    <2>1. CASE i \in 1 .. m
      <3>0. i \in 1 .. Len(d) /\ q[i] = d[i] /\ d[i][1] \in Nat /\ d[i][1] < n
        BY <1>5, <1>8, <2>1
      <3>1. q[i] = d[i] /\ d[i][1] \in Nat /\ d[i][1] < n /\ d[i][2] = x[d[i][1] + 1]
        BY <3>0 DEF Deque
      <3>2. d[i][1] + 1 \in 1 .. n /\ d[i][1] < n + 1
        BY <1>4, <3>1
      <3>3. y[d[i][1] + 1] = x[d[i][1] + 1]
        BY <1>6, <3>2
      <3> QED
        BY <1>6, <3>1, <3>2, <3>3
    <2>2. CASE i = m + 1
      BY <1>4, <1>5, <1>6, <2>2
    <2> QED
      BY <1>5, <1>7, <2>1, <2>2
  <1>10. ASSUME NEW i \in 1 .. m PROVE Beats(d[i][2], v, up)
    <2>1. m \in 1 .. m /\ m # 0 /\ i <= m
      BY <1>2, <1>10
    <2>2. Beats(d[i][2], d[m][2], up)
      BY <1>8, <2>1 DEF Deque
    <2>3. Beats(d[m][2], v, up)
      BY <1>2, <1>8, <2>1, BeatsIs
    <2> QED
      BY <1>8, <2>1, <2>2, <2>3, BeatsIs
  <1>11. ASSUME NEW i \in 1 .. Len(q), NEW j \in 1 .. Len(q), i <= j
         PROVE  Beats(q[i][2], q[j][2], up)
    <2>1. CASE j \in 1 .. m
      <3>1. i \in 1 .. m
        BY <1>2, <1>5, <1>11, <2>1
      <3> QED
        BY <1>5, <1>8, <1>11, <2>1, <3>1 DEF Deque
    <2>2. CASE j = m + 1 /\ i \in 1 .. m
      BY <1>4, <1>5, <1>10, <2>2
    <2>3. CASE j = m + 1 /\ i = m + 1
      BY <1>4, <1>5, <2>3, BeatsIs
    <2> QED
      BY <1>5, <1>7, <2>1, <2>2, <2>3
  <1>12. ASSUME NEW j \in Nat, from <= j, j < Len(y)
         PROVE  \E i \in 1 .. Len(q) : q[i][1] >= j /\ Beats(q[i][2], y[j + 1], up)
    <2>0. m + 1 \in 1 .. Len(q) /\ j <= n
      BY <1>2, <1>4, <1>5, <1>6, <1>12
    <2>1. CASE j = n
      <3>1. q[m + 1][1] = n /\ q[m + 1][2] = v /\ y[j + 1] = v
        BY <1>4, <1>5, <1>6, <2>1
      <3>2. n >= j /\ Beats(v, v, up)
        BY <1>4, <2>1, BeatsIs
      <3> QED
        BY <2>0, <3>1, <3>2
    <2>2. CASE j < n
      <3>1. PICK i \in 1 .. Len(d) : d[i][1] >= j /\ Beats(d[i][2], x[j + 1], up)
        BY <1>12, <2>2 DEF Deque
      <3>2. j + 1 \in 1 .. n
        BY <1>4, <2>2
      <3>3. y[j + 1] = x[j + 1] /\ x[j + 1] \in Int
        BY <1>6, <3>2
      <3>4. CASE i \in 1 .. m
        <4>1. i \in 1 .. Len(q) /\ q[i] = d[i]
          BY <1>2, <1>5, <3>4
        <4> QED
          BY <3>1, <3>3, <4>1
      <3>5. CASE ~ (i \in 1 .. m)
        <4>1. i > m
          BY <1>2, <3>5
        <4>2. Beats(v, d[i][2], up) /\ d[i][2] \in Int
          BY <1>1, <1>2, <4>1, Entries
        <4>3. Beats(v, x[j + 1], up)
          BY <3>1, <3>3, <4>2, BeatsIs
        <4>4. q[m + 1][1] >= j /\ q[m + 1][2] = v
          BY <1>4, <1>5, <2>0
        <4> QED
          BY <2>0, <3>3, <4>3, <4>4
      <3> QED
        BY <3>4, <3>5
    <2> QED
      BY <1>4, <2>0, <2>1, <2>2
  <1>13. q[1][1] >= from
    <2>1. CASE m = 0
      BY <1>4, <1>5, <2>1
    <2>2. CASE m # 0
      <3>1. 1 \in 1 .. m /\ Len(d) > 0
        BY <1>1, <1>2, <2>2
      <3> QED
        BY <1>5, <3>1 DEF Deque
    <2> QED
      BY <2>1, <2>2
  <1>14. Deque(q, y, from, up)
    BY <1>5, <1>9, <1>11, <1>12, <1>13 DEF Deque
  <1>15. PushExtreme(d, n, v, up) = q
    BY DEF PushExtreme, q, s, e, m
  <1> QED
    BY <1>14, <1>15 DEF y, n

\* The front is the extreme.
LEMMA FrontIsExtreme ==
  ASSUME NEW x \in Seq(Int), NEW from \in Nat, from < Len(x), NEW up \in BOOLEAN,
         NEW d, Deque(d, x, from, up)
  PROVE  Head(d)[2] = Extreme({x[i] : i \in from + 1 .. Len(x)}, up)
  <1> DEFINE D == {x[i] : i \in from + 1 .. Len(x)}
  <1>1. d \in Seq(Nat \X Int) /\ Len(d) \in Nat
    BY DEF Deque
  <1>2. PICK i \in 1 .. Len(d) : d[i][1] >= from
    <2>1. from <= from
      OBVIOUS
    <2>2. \E i \in 1 .. Len(d) : d[i][1] >= from /\ Beats(d[i][2], x[from + 1], up)
      BY <2>1 DEF Deque
    <2> QED
      BY <2>2
  <1>3. 1 \in 1 .. Len(d) /\ Head(d) = d[1]
    BY <1>1, <1>2
  <1>4. d[1][1] \in Nat /\ d[1][2] \in Int /\ d[1][1] >= from /\ d[1][1] < Len(x) /\ d[1][2] = x[d[1][1] + 1]
    <2>1. d[1][1] \in Nat /\ d[1][2] \in Int
      BY <1>1, <1>3, Entries
    <2>2. d[1][1] < Len(x) /\ d[1][2] = x[d[1][1] + 1]
      BY <1>3 DEF Deque
    <2>3. Len(d) > 0
      BY <1>1, <1>2
    <2>4. d[1][1] >= from
      BY <2>3 DEF Deque
    <2> QED
      BY <2>1, <2>2, <2>4
  <1>5. d[1][1] + 1 \in from + 1 .. Len(x)
    BY <1>4
  <1>6. d[1][2] \in D
    BY <1>4, <1>5
  <1>7. D \in SUBSET Int
    <2>1. \A j \in from + 1 .. Len(x) : x[j] \in Int
      OBVIOUS
    <2> QED
      BY <2>1
  <1>8. ASSUME NEW j \in from + 1 .. Len(x) PROVE Beats(d[1][2], x[j], up)
    <2> DEFINE l == j - 1
    <2>1. l \in Nat /\ from <= l /\ l < Len(x) /\ l + 1 = j /\ x[j] \in Int
      OBVIOUS
    <2> HIDE DEF l
    <2>2. PICK o \in 1 .. Len(d) : d[o][1] >= l /\ Beats(d[o][2], x[l + 1], up)
      BY <2>1 DEF Deque
    <2>3. Beats(d[1][2], d[o][2], up)
      <3>1. \A a, b \in 1 .. Len(d) : a <= b => Beats(d[a][2], d[b][2], up)
        BY DEF Deque
      <3>2. 1 \in 1 .. Len(d) /\ o \in 1 .. Len(d) /\ 1 <= o
        BY <1>1, <1>3
      <3> QED
        BY <3>1, <3>2
    <2>4. d[o][2] \in Int
      BY <1>1, Entries
    <2> QED
      BY <1>4, <2>1, <2>2, <2>3, <2>4, BeatsIs
  <1>9. \A y \in D : Beats(d[1][2], y, up)
    BY <1>8
  <1> HIDE DEF D
  <1>10. Extreme(D, up) = d[1][2]
    BY <1>6, <1>7, <1>9, ExtremeIs
  <1> QED
    BY <1>3, <1>10 DEF D

\* The newest m of the values s, from a to b, are s from c to d.
SameSlice(T, s, m, a, b, c, d) ==
  SubSeq(s, c, d) \in Seq(T) /\ SubSeq(Recent(s, m), a, b) = SubSeq(s, c, d)

\* What a slice of the newest values is: a slice of all of them.
LEMMA SliceOfRecent ==
  ASSUME NEW T, NEW s \in Seq(T), NEW m \in Nat, NEW o \in Nat, Len(s) = o + m, NEW a \in Nat \ {0},
         NEW b \in Nat, a <= b + 1, b <= m, NEW c, c = o + a, NEW d, d = o + b
  PROVE  SameSlice(T, s, m, a, b, c, d)
  <1> DEFINE r == Recent(s, m)
             x == SubSeq(r, a, b)
             y == SubSeq(s, o + a, o + b)
             n == b - a + 1
  <1>1. Len(s) \in Nat /\ o \in Nat /\ n \in Nat /\ o + a \in Nat \ {0} /\ o + b \in Nat
        /\ (o + b) - (o + a) + 1 = n /\ o + a <= o + b + 1 /\ o + b <= Len(s)
    OBVIOUS
  <1>2. r \in Seq(T) /\ Len(r) = m /\ \A i \in 1 .. m : r[i] = s[o + i]
    <2>1. o + m \in Nat /\ m <= o + m /\ (o + m) - m = o
      OBVIOUS
    <2>2. r \in Seq(T) /\ IsFull(r, s, o + m, m)
      BY <2>1, FullRecent
    <2> HIDE DEF r
    <2> QED
      BY <2>1, <2>2 DEF IsFull
  <1> HIDE DEF r
  <1>3. x \in Seq(T) /\ Len(x) = n /\ \A i \in 1 .. n : x[i] = r[a + i - 1]
    BY <1>2, Slice
  <1> HIDE DEF x, n
  <1>4. y \in Seq(T) /\ Len(y) = n /\ \A i \in 1 .. n : y[i] = s[(o + a) + i - 1]
    <2> DEFINE a2 == o + a
               b2 == o + b
    <2>1. a2 \in Nat \ {0} /\ b2 \in Nat /\ a2 <= b2 + 1 /\ b2 <= Len(s) /\ b2 - a2 + 1 = n
      BY <1>1
    <2>2. y = SubSeq(s, a2, b2) /\ a2 = o + a
      OBVIOUS
    <2> HIDE DEF a2, b2, y
    <2>3. y \in Seq(T) /\ Len(y) = b2 - a2 + 1 /\ \A i \in 1 .. b2 - a2 + 1 : y[i] = s[a2 + i - 1]
      BY <2>1, <2>2, Slice
    <2> QED
      BY <2>1, <2>2, <2>3
  <1> HIDE DEF y
  <1>5. \A i \in 1 .. n : a + i - 1 \in 1 .. m /\ o + (a + i - 1) = (o + a) + i - 1
    BY <1>1 DEF n
  <1>6. \A i \in 1 .. Len(x) : x[i] = y[i]
    BY <1>2, <1>3, <1>4, <1>5
  <1>7. x = y
    BY <1>3, <1>4, <1>6, SameEntries
  <1> QED
    BY <1>4, <1>7 DEF SameSlice, x, y, r

\* What a slice of a longer sequence is that ends before its last entry.
LEMMA SliceBefore ==
  ASSUME NEW T, NEW s \in Seq(T), NEW v \in T, NEW a \in Nat \ {0}, NEW b \in Nat, a <= b + 1, b <= Len(s)
  PROVE  SubSeq(Append(s, v), a, b) = SubSeq(s, a, b)
  <1> DEFINE t == Append(s, v)
             x == SubSeq(t, a, b)
             y == SubSeq(s, a, b)
             n == b - a + 1
  <1>1. Len(s) \in Nat /\ t \in Seq(T) /\ Len(t) = Len(s) + 1 /\ \A i \in 1 .. Len(s) : t[i] = s[i]
    OBVIOUS
  <1>2. n \in Nat /\ b <= Len(t)
    BY <1>1
  <1> HIDE DEF t
  <1>3. x \in Seq(T) /\ Len(x) = n /\ \A i \in 1 .. n : x[i] = t[a + i - 1]
    BY <1>1, <1>2, Slice
  <1>4. y \in Seq(T) /\ Len(y) = n /\ \A i \in 1 .. n : y[i] = s[a + i - 1]
    BY Slice
  <1> HIDE DEF x, y
  <1>5. \A i \in 1 .. n : a + i - 1 \in 1 .. Len(s)
    BY <1>1
  <1>6. \A i \in 1 .. Len(x) : x[i] = y[i]
    BY <1>1, <1>2, <1>3, <1>4, <1>5
  <1> HIDE DEF n
  <1>7. x = y
    BY <1>3, <1>4, <1>6, SameEntries
  <1> QED
    BY <1>7 DEF x, y, t

\* The newest values as a slice.
LEMMA RecentIsSlice ==
  ASSUME NEW T, NEW s \in Seq(T), NEW k \in Nat, k <= Len(s)
  PROVE  Recent(s, k) = SubSeq(s, Len(s) - k + 1, Len(s))
  BY NewestIsRecent DEF S!Newest

----------------------------------------------------------------------------
(* A series read off every k values in a row, V saying what they read.     *)

Reads(V, T, k, U) == \A q \in Seq(T) : Len(q) = k => V[q] \in U

Sliding(f, k, V) == [i \in 1 .. S!Larger(0, Len(f) - k + 1) |-> V[SubSeq(f, i, k + i - 1)]]

IsSliding(s, f, k, V, U) ==
  /\ Len(f) < k => s = <<>>
  /\ Len(f) >= k => Listed(s, Len(f) - k + 1, U) /\ Len(s) = Len(f) - k + 1
  /\ s \in Seq(U)
  /\ \A i \in 1 .. Len(f) - k + 1 : s[i] = V[SubSeq(f, i, k + i - 1)]

\* The entries of such a series.
LEMMA SlidingIs ==
  ASSUME NEW T, NEW U, NEW f \in Seq(T), NEW k \in Nat \ {0}, NEW V, Reads(V, T, k, U)
  PROVE  IsSliding(Sliding(f, k, V), f, k, V, U)
  <1> DEFINE n == S!Larger(0, Len(f) - k + 1)
             g == Sliding(f, k, V)
  <1>1. n \in Nat /\ (Len(f) < k => n = 0) /\ (Len(f) >= k => n = Len(f) - k + 1)
    <2>1. Len(f) \in Nat
      OBVIOUS
    <2> QED
      BY <2>1 DEF S!Larger
  <1>2. g = [i \in 1 .. n |-> V[SubSeq(f, i, k + i - 1)]]
    BY DEF Sliding
  <1> HIDE DEF n, g
  <1>3. ASSUME NEW i \in 1 .. n PROVE g[i] \in U
    <2> DEFINE b == k + i - 1
               q == SubSeq(f, i, b)
    <2>1. n # 0 /\ i \in Nat \ {0} /\ i <= Len(f) - k + 1 /\ Len(f) \in Nat
      BY <1>1, <1>3
    <2>2. b \in Nat /\ i <= b + 1 /\ b <= Len(f) /\ b - i + 1 = k
      BY <2>1
    <2>3. g[i] = V[q]
      BY <1>2, <1>3
    <2> HIDE DEF b
    <2>4. q \in Seq(T) /\ Len(q) = k
      BY <2>1, <2>2, Slice
    <2> HIDE DEF q
    <2> QED
      BY <2>3, <2>4 DEF Reads
  <1>4. Listed(g, n, U)
    BY <1>2, <1>3 DEF Listed
  <1>5. g \in Seq(U) /\ Len(g) = n
    BY <1>1, <1>4, ListedIs
  <1>6. ASSUME Len(f) < k PROVE g = <<>>
    <2>1. n \in Int /\ n <= 0 /\ g = [i \in 1 .. n |-> g[i]]
      BY <1>1, <1>4, <1>6 DEF Listed
    <2> QED
      BY <2>1, NoEntry
  <1>7. \A i \in 1 .. Len(f) - k + 1 : i \in 1 .. n
    <2>1. Len(f) \in Nat
      OBVIOUS
    <2> QED
      BY <1>1, <2>1
  <1> QED
    BY <1>1, <1>2, <1>4, <1>5, <1>6, <1>7 DEF g, IsSliding

\* The series when one more value arrives.
SlidesOn(f, v, k, V) ==
  Sliding(Append(f, v), k, V) =
    IF Len(f) + 1 < k THEN Sliding(f, k, V) ELSE Append(Sliding(f, k, V), V[Recent(Append(f, v), k)])

\* It goes on with what the newest k values read.
LEMMA SlidingFollows ==
  ASSUME NEW T, NEW U, NEW f \in Seq(T), NEW v \in T, NEW k \in Nat \ {0}, NEW V,
         Reads(V, T, k, U)
  PROVE  SlidesOn(f, v, k, V)
  <1> DEFINE a == Append(f, v)
             x == Sliding(f, k, V)
             y == Sliding(a, k, V)
             last == V[Recent(a, k)]
  <1>1. a \in Seq(T) /\ Len(a) = Len(f) + 1 /\ Len(f) \in Nat
    OBVIOUS
  <1>2. \A i \in Nat \ {0}, b \in Nat : i <= b + 1 /\ b <= Len(f) => SubSeq(a, i, b) = SubSeq(f, i, b)
    BY SliceBefore
  <1> HIDE DEF a
  <1>a. IsSliding(x, f, k, V, U)
    BY SlidingIs
  <1>b. IsSliding(y, a, k, V, U)
    BY <1>1, SlidingIs
  <1> HIDE DEF x, y
  <1>3. ASSUME Len(f) + 1 < k PROVE y = x
    <2>1. Len(f) < k /\ Len(a) < k
      BY <1>1, <1>3
    <2> QED
      BY <2>1, <1>a, <1>b DEF IsSliding
  <1>4. ASSUME ~ (Len(f) + 1 < k) PROVE y = Append(x, last)
    <2> DEFINE n == Len(f) - k + 1
    <2>1. n \in Nat /\ Len(a) - k + 1 = n + 1 /\ Len(a) >= k /\ Len(f) = n + k - 1 /\ Len(a) = n + k
      BY <1>1, <1>4
    <2>2. Listed(x, n, U) /\ \A i \in 1 .. n : x[i] = V[SubSeq(f, i, k + i - 1)]
      <3>1. CASE Len(f) >= k
        BY <3>1, <1>a DEF IsSliding
      <3>2. CASE Len(f) < k
        <4>1. n = 0
          BY <2>1, <3>2
        <4>2. x = <<>>
          BY <3>2, <1>a DEF IsSliding
        <4> HIDE DEF n, x
        <4>3. \A i \in 1 .. n : FALSE
          BY <4>1
        <4>4. x = [i \in 1 .. n |-> x[i]]
          BY <4>1, <4>2
        <4> QED
          BY <4>3, <4>4 DEF Listed
      <3> QED
        BY <1>1, <3>1, <3>2
    <2>3. Listed(y, n + 1, U)
      BY <2>1, <1>b DEF IsSliding
    <2>4. \A i \in 1 .. Len(a) - k + 1 : y[i] = V[SubSeq(a, i, k + i - 1)]
      BY <1>b DEF IsSliding
    <2> HIDE DEF n, x, y
    <2>5. n + 1 \in 1 .. Len(a) - k + 1 /\ k + (n + 1) - 1 = Len(a) /\ Len(a) - k + 1 = n + 1
          /\ \A i \in 1 .. n : i \in 1 .. Len(a) - k + 1 /\ i \in Nat \ {0} /\ k + i - 1 \in Nat
                               /\ i <= (k + i - 1) + 1 /\ k + i - 1 <= Len(f)
      BY <1>1, <2>1
    <2>6. Recent(a, k) = SubSeq(a, Len(a) - k + 1, Len(a))
      BY <1>1, <2>1, RecentIsSlice
    <2>7. y[n + 1] = last
      BY <2>4, <2>5, <2>6
    <2>8. \A i \in 1 .. n : x[i] = y[i]
      BY <1>2, <2>2, <2>4, <2>5
    <2>9. Extends(x, y, n)
      BY <2>8 DEF Extends
    <2> HIDE DEF last
    <2> QED
      BY <2>1, <2>2, <2>3, <2>7, <2>9, OneMoreEntry
  <1> QED
    BY <1>3, <1>4 DEF x, y, last, a, SlidesOn

\* The series over the newest values is the newest part of the series.
LEMMA SlidingOfRecent ==
  ASSUME NEW T, NEW U, NEW f \in Seq(T), NEW k \in Nat \ {0}, NEW V,
         Reads(V, T, k, U),
         NEW m \in Nat, k <= m, m <= Len(f)
  PROVE  Sliding(Recent(f, m), k, V) = Recent(Sliding(f, k, V), m - k + 1)
  <1> DEFINE r == Recent(f, m)
             x == Sliding(r, k, V)
             y == Sliding(f, k, V)
             n == m - k + 1
             l == Len(f) - k + 1
             z == Recent(y, n)
  <1>1. r \in Seq(T) /\ Len(r) = m /\ Len(f) \in Nat
    BY FullRecent DEF IsFull
  <1>2. n \in Nat /\ l \in Nat /\ n <= l /\ l - n = Len(f) - m
    BY <1>1
  <1>3. x \in Seq(U) /\ Len(x) = n /\ \A i \in 1 .. n : x[i] = V[SubSeq(r, i, k + i - 1)]
    <2> HIDE DEF r
    <2>1. IsSliding(x, r, k, V, U)
      BY <1>1, SlidingIs
    <2> HIDE DEF x
    <2> QED
      BY <1>1, <2>1 DEF IsSliding
  <1>4. y \in Seq(U) /\ Len(y) = l /\ \A i \in 1 .. l : y[i] = V[SubSeq(f, i, k + i - 1)]
    <2>1. IsSliding(y, f, k, V, U)
      BY SlidingIs
    <2> HIDE DEF y
    <2> QED
      BY <1>1, <2>1 DEF IsSliding
  <1>5. z \in Seq(U) /\ Len(z) = n /\ \A i \in 1 .. n : z[i] = y[l - n + i]
    <2> HIDE DEF y, n, l
    <2>1. z \in Seq(U) /\ IsFull(z, y, l, n)
      BY <1>2, <1>4, FullRecent
    <2> HIDE DEF z
    <2> QED
      BY <2>1 DEF IsFull
  <1> HIDE DEF x, y, z
  <1>6. ASSUME NEW i \in 1 .. n PROVE x[i] = z[i]
    <2> DEFINE o == Len(f) - m
               b == k + i - 1
    <2>1. i \in Nat \ {0} /\ b \in Nat /\ i <= b + 1 /\ b <= m /\ o + i \in 1 .. l
          /\ o \in Nat /\ Len(f) = o + m
          /\ o + b = k + (o + i) - 1 /\ l - n + i = o + i
      BY <1>1, <1>2
    <2>2. SubSeq(r, i, b) = SubSeq(f, o + i, o + b)
      <3> DEFINE c == o + i
                 d == o + b
      <3>0. c = o + i /\ d = o + b
        OBVIOUS
      <3> HIDE DEF b, o, n, l, c, d
      <3>1. SameSlice(T, f, m, i, b, c, d)
        BY <2>1, <3>0, SliceOfRecent
      <3> QED
        BY <3>1 DEF SameSlice, c, d
    <2> HIDE DEF n, l, r
    <2>3. x[i] = V[SubSeq(r, i, b)]
      BY <1>3
    <2>4. z[i] = y[o + i]
      BY <1>5, <2>1
    <2>5. y[o + i] = V[SubSeq(f, o + i, o + b)]
      BY <1>4, <2>1
    <2> QED
      BY <2>2, <2>3, <2>4, <2>5
  <1> HIDE DEF n, l, r
  <1>7. x = z
    BY <1>3, <1>5, <1>6, SameEntries
  <1> QED
    BY <1>7 DEF x, z, y, n, r

----------------------------------------------------------------------------
(* Means of means, and what the highs and lows of candles read.            *)

MeanIn(k) == [q \in Seq(Int) |-> S!SumOf(q) \div k]

\* The mean of the newest values.
LEMMA SmaIsMean ==
  ASSUME NEW f \in Seq(Int), NEW k \in Nat \ {0}, k <= Len(f)
  PROVE  S!Sma(f, k) = S!SumOf(Recent(f, k)) \div k
  <1>1. Len(f) \in Nat /\ ~ (Len(f) < k)
    OBVIOUS
  <1>2. S!Newest(f, k) = Recent(f, k)
    BY NewestIsRecent
  <1> QED
    BY <1>1, <1>2 DEF S!Sma

\* A sum of numbers is a number, and so is their mean.
LEMMA MeanIsRead ==
  ASSUME NEW k \in Nat \ {0}
  PROVE  Reads(MeanIn(k), Int, k, Int) /\ \A q \in Seq(Int) : MeanIn(k)[q] = S!SumOf(q) \div k
  <1>1. \A q \in Seq(Int) : MeanIn(k)[q] = S!SumOf(q) \div k
    BY DEF MeanIn
  <1>2. \A q \in Seq(Int) : S!SumOf(q) \in Int
    BY SumAppended
  <1>3. \A q \in Seq(Int) : MeanIn(k)[q] \in Int
    BY <1>1, <1>2
  <1> QED
    BY <1>1, <1>3 DEF Reads

\* The moving averages of a list, as the series of the means of its slices.
LEMMA SmasSlide ==
  ASSUME NEW f \in Seq(Int), NEW k \in Nat \ {0}
  PROVE  S!Smas(f, k) = Sliding(f, k, MeanIn(k))
  <1> DEFINE n == S!Larger(0, Len(f) - k + 1)
  <1>1. n \in Nat /\ \A i \in 1 .. n : i \in Nat \ {0} /\ k + i - 1 \in Nat /\ k + i - 1 <= Len(f)
    <2>1. Len(f) \in Nat
      OBVIOUS
    <2> QED
      BY <2>1 DEF S!Larger
  <1>2. ASSUME NEW i \in 1 .. n
        PROVE  S!Sma(SubSeq(f, 1, k + i - 1), k) = MeanIn(k)[SubSeq(f, i, k + i - 1)]
    <2> DEFINE b == k + i - 1
               s == SubSeq(f, 1, b)
               q == SubSeq(f, i, b)
    <2>1. b \in Nat /\ b <= Len(f) /\ i \in Nat \ {0} /\ i <= b + 1 /\ 1 <= b + 1 /\ b - 1 + 1 = b
          /\ k <= b /\ b - k + 1 = i /\ b - i + 1 = k
      BY <1>1
    <2> HIDE DEF b
    <2>2. s \in Seq(Int) /\ Len(s) = b /\ \A j \in 1 .. b : s[j] = f[j]
      <3> DEFINE one == 1
      <3>1. one \in Nat \ {0} /\ one <= b + 1 /\ s = SubSeq(f, one, b) /\ one = 1
        BY <2>1
      <3> HIDE DEF one
      <3>2. s \in Seq(Int) /\ Len(s) = b - one + 1 /\ \A j \in 1 .. b - one + 1 : s[j] = f[one + j - 1]
        BY <2>1, <3>1, Slice
      <3> HIDE DEF s
      <3>3. \A j \in 1 .. b : one + j - 1 = j
        BY <2>1, <3>1
      <3> QED
        BY <2>1, <3>1, <3>2, <3>3
    <2>3. q \in Seq(Int) /\ Len(q) = k /\ \A j \in 1 .. k : q[j] = f[i + j - 1]
      BY <2>1, Slice
    <2> DEFINE r == Recent(s, k)
    <2>4. r \in Seq(Int) /\ IsFull(r, s, b, k)
      <3> HIDE DEF s
      <3> QED
        BY <2>1, <2>2, FullRecent
    <2> HIDE DEF s, q, r
    <2>5. Len(r) = k /\ \A j \in 1 .. k : r[j] = s[b - k + j]
      BY <2>4 DEF IsFull
    <2>6. \A j \in 1 .. k : b - k + j \in 1 .. b /\ b - k + j = i + j - 1
      BY <2>1
    <2>7. ASSUME NEW j \in 1 .. k PROVE r[j] = q[j]
      <3> DEFINE a == b - k + j
      <3>1. a \in 1 .. b /\ a = i + j - 1 /\ r[j] = s[a]
        BY <2>5, <2>6
      <3> HIDE DEF a
      <3>2. s[a] = f[a]
        BY <2>2, <3>1
      <3> QED
        BY <2>3, <3>1, <3>2
    <2>8. r = q
      <3>1. r \in Seq(Int) /\ q \in Seq(Int) /\ Len(r) = Len(q) /\ Len(r) = k
        BY <2>3, <2>4, <2>5
      <3> QED
        BY <2>7, <3>1, SameEntries
    <2>9. S!Sma(s, k) = S!SumOf(q) \div k
      BY <2>1, <2>2, <2>8, SmaIsMean DEF r
    <2> QED
      BY <2>3, <2>9, MeanIsRead DEF s, q, b
  <1>3. S!Smas(f, k) = [i \in 1 .. n |-> S!Sma(SubSeq(f, 1, k + i - 1), k)]
    BY DEF S!Smas
  <1>4. Sliding(f, k, MeanIn(k)) = [i \in 1 .. n |-> MeanIn(k)[SubSeq(f, i, k + i - 1)]]
    BY DEF Sliding
  <1> HIDE DEF n
  <1> QED
    BY <1>2, <1>3, <1>4

Highs(h) == [i \in 1 .. Len(h) |-> h[i].high]

Lows(h) == [i \in 1 .. Len(h) |-> h[i].low]

\* Highs and lows of the candles so far.
LEMMA HighsFollow ==
  ASSUME NEW T, Priced(T), NEW h \in Seq(T), NEW c \in T
  PROVE  /\ Highs(h) \in Seq(Int) /\ Len(Highs(h)) = Len(h)
         /\ \A i \in 1 .. Len(h) : Highs(h)[i] = h[i].high
         /\ Highs(Append(h, c)) = Append(Highs(h), c.high)
         /\ Lows(h) \in Seq(Int) /\ Len(Lows(h)) = Len(h)
         /\ \A i \in 1 .. Len(h) : Lows(h)[i] = h[i].low
         /\ Lows(Append(h, c)) = Append(Lows(h), c.low)
  <1> DEFINE a == Append(h, c)
             n == Len(h)
             f == Highs(h)
             g == Highs(a)
             v == Lows(h)
             w == Lows(a)
  <1>1. /\ n \in Nat /\ DOMAIN h = 1 .. n /\ DOMAIN a = 1 .. n + 1 /\ Len(a) = n + 1
        /\ a[n + 1] = c /\ \A i \in 1 .. n : a[i] = h[i] /\ h[i] \in T
    OBVIOUS
  <1>2. /\ f = [i \in 1 .. n |-> h[i].high] /\ g = [i \in 1 .. n + 1 |-> a[i].high]
        /\ v = [i \in 1 .. n |-> h[i].low] /\ w = [i \in 1 .. n + 1 |-> a[i].low]
    <2> HIDE DEF a, n
    <2> QED
      BY <1>1 DEF Highs, Lows, n
  <1> HIDE DEF a, n, f, g, v, w
  <1>3. \A i \in 1 .. n + 1 : a[i] \in T /\ (i \in 1 .. n \/ i = n + 1)
    BY <1>1
  <1>4. Listed(f, n, Int) /\ Listed(v, n, Int)
    BY <1>1, <1>2 DEF Listed, Priced
  <1>5. Listed(g, n + 1, Int) /\ Listed(w, n + 1, Int)
    BY <1>2, <1>3 DEF Listed, Priced
  <1>6. n + 1 \in 1 .. n + 1 /\ \A i \in 1 .. n : i \in 1 .. n + 1
    BY <1>1
  <1>7. Extends(f, g, n) /\ Extends(v, w, n) /\ g[n + 1] = c.high /\ w[n + 1] = c.low
    BY <1>1, <1>2, <1>6 DEF Extends
  <1>8. g = Append(f, c.high) /\ w = Append(v, c.low)
    BY <1>1, <1>4, <1>5, <1>7, OneMoreEntry
  <1>9. f \in Seq(Int) /\ Len(f) = n /\ v \in Seq(Int) /\ Len(v) = n
    BY <1>1, <1>4, ListedIs
  <1> QED
    BY <1>2, <1>8, <1>9 DEF a, n, f, g, v, w

HighsIn(q) == {q[i].high : i \in 1 .. Len(q)}

LowsIn(q) == {q[i].low : i \in 1 .. Len(q)}

\* The front of a deque over the newest k candles is their highest high, or lowest low.
LEMMA FrontOfCandles ==
  ASSUME NEW T, Priced(T), NEW h \in Seq(T), NEW k \in Nat \ {0}, k <= Len(h), NEW d
  PROVE  /\ Deque(d, Highs(h), Len(h) - k, TRUE) => Head(d)[2] = Max(HighsIn(Recent(h, k)))
         /\ Deque(d, Lows(h), Len(h) - k, FALSE) => Head(d)[2] = Min(LowsIn(Recent(h, k)))
  <1> DEFINE q == Recent(h, k)
             from == Len(h) - k
             x == Highs(h)
             y == Lows(h)
  <1>1. q \in Seq(T) /\ Len(q) = k /\ \A i \in 1 .. k : q[i] = h[from + i]
    <2> DEFINE n == Len(h)
    <2>1. n \in Nat /\ Len(h) = n /\ k <= n
      OBVIOUS
    <2> HIDE DEF n
    <2>2. q \in Seq(T) /\ IsFull(q, h, n, k)
      BY <2>1, FullRecent
    <2> HIDE DEF q
    <2> QED
      BY <2>1, <2>2 DEF IsFull
  <1>2. Len(h) \in Nat /\ from \in Nat /\ from < Len(h)
        /\ \A i \in 1 .. k : from + i \in from + 1 .. Len(h)
        /\ \A j \in from + 1 .. Len(h) : j - from \in 1 .. k /\ from + (j - from) = j /\ j \in 1 .. Len(h)
    OBVIOUS
  <1>3. PICK c : c \in T
    <2>1. h[1] \in T
      OBVIOUS
    <2> QED
      BY <2>1
  <1>4. /\ x \in Seq(Int) /\ Len(x) = Len(h) /\ \A i \in 1 .. Len(h) : x[i] = h[i].high
        /\ y \in Seq(Int) /\ Len(y) = Len(h) /\ \A i \in 1 .. Len(h) : y[i] = h[i].low
    BY <1>3, HighsFollow
  <1> HIDE DEF q, x, y, from
  <1>5. {x[j] : j \in from + 1 .. Len(x)} = HighsIn(q)
    <2>1. ASSUME NEW j \in from + 1 .. Len(h)
          PROVE  \E i \in 1 .. k : x[j] = q[i].high
      <3>1. j - from \in 1 .. k /\ from + (j - from) = j /\ j \in 1 .. Len(h)
        BY <1>2
      <3>2. q[j - from] = h[j]
        BY <1>1, <3>1
      <3> QED
        BY <1>4, <3>1, <3>2
    <2>2. \A i \in 1 .. k : from + i \in from + 1 .. Len(h) /\ q[i].high = x[from + i]
      BY <1>1, <1>2, <1>4
    <2>3. HighsIn(q) = {q[i].high : i \in 1 .. k}
      BY <1>1 DEF HighsIn
    <2>4. {x[j] : j \in from + 1 .. Len(x)} = {x[j] : j \in from + 1 .. Len(h)}
      BY <1>4
    <2>5. {x[j] : j \in from + 1 .. Len(h)} \subseteq HighsIn(q)
      BY <2>1, <2>3
    <2>6. HighsIn(q) \subseteq {x[j] : j \in from + 1 .. Len(h)}
      BY <2>2, <2>3
    <2> QED
      BY <2>4, <2>5, <2>6
  <1>6. {y[j] : j \in from + 1 .. Len(y)} = LowsIn(q)
    <2>1. ASSUME NEW j \in from + 1 .. Len(h)
          PROVE  \E i \in 1 .. k : y[j] = q[i].low
      <3>1. j - from \in 1 .. k /\ from + (j - from) = j /\ j \in 1 .. Len(h)
        BY <1>2
      <3>2. q[j - from] = h[j]
        BY <1>1, <3>1
      <3> QED
        BY <1>4, <3>1, <3>2
    <2>2. \A i \in 1 .. k : from + i \in from + 1 .. Len(h) /\ q[i].low = y[from + i]
      BY <1>1, <1>2, <1>4
    <2>3. LowsIn(q) = {q[i].low : i \in 1 .. k}
      BY <1>1 DEF LowsIn
    <2>4. {y[j] : j \in from + 1 .. Len(y)} = {y[j] : j \in from + 1 .. Len(h)}
      BY <1>4
    <2>5. {y[j] : j \in from + 1 .. Len(h)} \subseteq LowsIn(q)
      BY <2>1, <2>3
    <2>6. LowsIn(q) \subseteq {y[j] : j \in from + 1 .. Len(h)}
      BY <2>2, <2>3
    <2> QED
      BY <2>4, <2>5, <2>6
  <1>7. ASSUME Deque(d, x, from, TRUE) PROVE Head(d)[2] = Max(HighsIn(q))
    <2> DEFINE up == TRUE
    <2>1. up \in BOOLEAN /\ Deque(d, x, from, up)
      BY <1>7
    <2> HIDE DEF up
    <2>2. Head(d)[2] = Extreme({x[j] : j \in from + 1 .. Len(x)}, up)
      BY <1>2, <1>4, <2>1, FrontIsExtreme
    <2> QED
      BY <1>5, <2>2 DEF Extreme, up
  <1>8. ASSUME Deque(d, y, from, FALSE) PROVE Head(d)[2] = Min(LowsIn(q))
    <2> DEFINE up == FALSE
    <2>1. up \in BOOLEAN /\ Deque(d, y, from, up)
      BY <1>8
    <2> HIDE DEF up
    <2>2. Head(d)[2] = Extreme({y[j] : j \in from + 1 .. Len(y)}, up)
      BY <1>2, <1>4, <2>1, FrontIsExtreme
    <2> QED
      BY <1>6, <2>2 DEF Extreme, up
  <1> QED
    BY <1>7, <1>8 DEF q, x, y, from

\* What the structure of the prior range holds after candles h.
RangeIn(q) == [high |-> Max(HighsIn(q)), low |-> Min(LowsIn(q))]

PriorRangeIs(r, h, k) ==
  /\ r.index = Len(h)
  /\ Deque(r.highs, Highs(h), Len(h) - 1 - k, TRUE)
  /\ Deque(r.lows, Lows(h), Len(h) - 1 - k, FALSE)
  /\ Len(h) > k => r.value = RangeIn(Recent(S!Front(h), k))

\* Popping what is too old and pushing the newest price keeps a deque one.
LEMMA DequeFollows ==
  ASSUME NEW x \in Seq(Int), NEW n \in Nat, Len(x) = n, NEW from \in Int, NEW cutoff \in Int,
         from <= cutoff, cutoff <= n, NEW v \in Int, NEW d
  PROVE  /\ Deque(d, x, from, TRUE) =>
              /\ Deque(S!PopFront(d, cutoff), x, cutoff, TRUE)
              /\ Deque(S!PushHigh(S!PopFront(d, cutoff), n, v), Append(x, v), cutoff, TRUE)
         /\ Deque(d, x, from, FALSE) =>
              /\ Deque(S!PopFront(d, cutoff), x, cutoff, FALSE)
              /\ Deque(S!PushLow(S!PopFront(d, cutoff), n, v), Append(x, v), cutoff, FALSE)
  <1> DEFINE e == S!PopFront(d, cutoff)
  <1>1. \A up \in BOOLEAN : Deque(d, x, from, up) =>
          Deque(e, x, cutoff, up) /\ Deque(PushExtreme(e, n, v, up), Append(x, v), cutoff, up)
    <2> SUFFICES ASSUME NEW up \in BOOLEAN, Deque(d, x, from, up)
                 PROVE  Deque(e, x, cutoff, up)
                        /\ Deque(PushExtreme(e, n, v, up), Append(x, v), cutoff, up)
      OBVIOUS
    <2>1. Deque(e, x, cutoff, up)
      BY PopFrontDeque
    <2> HIDE DEF e
    <2>2. Deque(PushExtreme(e, Len(x), v, up), Append(x, v), cutoff, up)
      BY <2>1, PushDeque
    <2> QED
      BY <2>1, <2>2
  <1> HIDE DEF e
  <1>2. S!PushHigh(e, n, v) = PushExtreme(e, n, v, TRUE) /\ S!PushLow(e, n, v) = PushExtreme(e, n, v, FALSE)
    BY PushesAre
  <1>3. TRUE \in BOOLEAN /\ FALSE \in BOOLEAN
    OBVIOUS
  <1> QED
    BY <1>1, <1>2, <1>3 DEF e

\* The prior range follows a candle.
LEMMA PriorRangeFollows ==
  ASSUME NEW T, Priced(T), NEW h \in Seq(T), NEW c \in T, NEW k \in Nat \ {0}, NEW r, PriorRangeIs(r, h, k)
  PROVE  PriorRangeIs(S!PriorRangeUpdate(r, c, k), Append(h, c), k)
  <1> DEFINE n == Len(h)
             a == Append(h, c)
             highs == S!PopFront(r.highs, n - k)
             lows == S!PopFront(r.lows, n - k)
             u == S!PriorRangeUpdate(r, c, k)
  <1>1. n \in Nat /\ Len(a) = n + 1 /\ a \in Seq(T) /\ n - 1 - k \in Int /\ n - k \in Int
        /\ n - 1 - k <= n - k /\ n - k <= n /\ (n + 1) - 1 - k = n - k /\ Len(h) = n
    OBVIOUS
  <1>2. S!Front(a) = h
    BY FrontAppended
  <1>3. /\ Highs(h) \in Seq(Int) /\ Len(Highs(h)) = n /\ Highs(a) = Append(Highs(h), c.high)
        /\ Lows(h) \in Seq(Int) /\ Len(Lows(h)) = n /\ Lows(a) = Append(Lows(h), c.low)
    BY HighsFollow
  <1>4. c.high \in Int /\ c.low \in Int
    BY DEF Priced
  <1>5. r.index = n
    BY DEF PriorRangeIs
  <1>6. /\ u.index = n + 1
        /\ u.highs = S!PushHigh(highs, n, c.high)
        /\ u.lows = S!PushLow(lows, n, c.low)
        /\ u.value = IF n < k THEN None ELSE [high |-> Head(highs)[2], low |-> Head(lows)[2]]
    BY <1>5 DEF S!PriorRangeUpdate
  <1> HIDE DEF u, a, n
  <1>7. Deque(r.highs, Highs(h), n - 1 - k, TRUE) /\ Deque(r.lows, Lows(h), n - 1 - k, FALSE)
    BY DEF PriorRangeIs, n
  <1>8. Deque(highs, Highs(h), n - k, TRUE) /\ Deque(S!PushHigh(highs, n, c.high), Highs(a), n - k, TRUE)
    BY <1>1, <1>3, <1>4, <1>7, DequeFollows
  <1>9. Deque(lows, Lows(h), n - k, FALSE) /\ Deque(S!PushLow(lows, n, c.low), Lows(a), n - k, FALSE)
    BY <1>1, <1>3, <1>4, <1>7, DequeFollows
  <1> HIDE DEF highs, lows
  <1>10. ASSUME n + 1 > k PROVE u.value = RangeIn(Recent(h, k))
    <2>1. k <= n /\ ~ (n < k)
      BY <1>1, <1>10
    <2>2. Head(highs)[2] = Max(HighsIn(Recent(h, k)))
      BY <1>1, <1>8, <2>1, FrontOfCandles
    <2>3. Head(lows)[2] = Min(LowsIn(Recent(h, k)))
      BY <1>1, <1>9, <2>1, FrontOfCandles
    <2> QED
      BY <1>6, <2>1, <2>2, <2>3 DEF RangeIn
  <1>11. PriorRangeIs(u, a, k)
    BY <1>1, <1>2, <1>6, <1>8, <1>9, <1>10 DEF PriorRangeIs
  <1> QED
    BY <1>11 DEF u, a

\* Before the first candle.
LEMMA PriorRangeStarts ==
  ASSUME NEW k \in Nat \ {0}
  PROVE  PriorRangeIs(S!RangeStart, <<>>, k)
  <1> DEFINE e == <<>>
  <1>1. Highs(e) = <<>> /\ Lows(e) = <<>>
    <2> DEFINE m == Len(e)
    <2>1. m = 0
      OBVIOUS
    <2>2. Highs(e) = [i \in 1 .. m |-> Highs(e)[i]] /\ Lows(e) = [i \in 1 .. m |-> Lows(e)[i]]
      BY DEF Highs, Lows
    <2> HIDE DEF m
    <2> QED
      BY <2>1, <2>2, NoEntry
  <1>2. Deque(<<>>, Highs(e), Len(e) - 1 - k, TRUE) /\ Deque(<<>>, Lows(e), Len(e) - 1 - k, FALSE)
    BY <1>1, EmptyDeque
  <1>3. Len(e) = 0 /\ ~ (Len(e) > k)
    OBVIOUS
  <1> HIDE DEF e
  <1>4. S!RangeStart.index = 0 /\ S!RangeStart.highs = <<>> /\ S!RangeStart.lows = <<>>
    BY DEF S!RangeStart
  <1>5. PriorRangeIs(S!RangeStart, e, k)
    BY <1>2, <1>3, <1>4 DEF PriorRangeIs
  <1> QED
    BY <1>5 DEF e

\* Numbers in a row have a most extreme one.
LEMMA HasExtreme ==
  ASSUME NEW up \in BOOLEAN, NEW n \in Nat, NEW f, \A i \in 1 .. n + 1 : f[i] \in Int
  PROVE  \E j \in 1 .. n + 1 : \A i \in 1 .. n + 1 : Beats(f[j], f[i], up)
  <1> DEFINE D == {m \in Nat : m <= n => \E j \in 1 .. m + 1 : \A i \in 1 .. m + 1 : Beats(f[j], f[i], up)}
  <1>1. 0 \in D
    <2>1. 1 \in 1 .. 0 + 1 /\ \A i \in 1 .. 0 + 1 : i = 1
      OBVIOUS
    <2>2. f[1] \in Int
      OBVIOUS
    <2>3. Beats(f[1], f[1], up)
      BY <2>2, BeatsIs
    <2>4. \A i \in 1 .. 0 + 1 : Beats(f[1], f[i], up)
      BY <2>1, <2>3
    <2> QED
      BY <2>1, <2>4
  <1>2. ASSUME NEW m \in Nat, m \in D PROVE m + 1 \in D
    <2> SUFFICES ASSUME m + 1 <= n
                 PROVE  \E j \in 1 .. (m + 1) + 1 : \A i \in 1 .. (m + 1) + 1 : Beats(f[j], f[i], up)
      OBVIOUS
    <2>1. PICK j \in 1 .. m + 1 : \A i \in 1 .. m + 1 : Beats(f[j], f[i], up)
      BY <1>2
    <2> DEFINE o == (m + 1) + 1
    <2>2. o \in 1 .. o /\ j \in 1 .. o /\ j \in 1 .. n + 1 /\ o \in 1 .. n + 1
          /\ \A i \in 1 .. o : (i \in 1 .. m + 1 \/ i = o) /\ i \in 1 .. n + 1
      OBVIOUS
    <2>3. f[j] \in Int /\ f[o] \in Int /\ \A i \in 1 .. o : f[i] \in Int
      BY <2>2
    <2> HIDE DEF o
    <2>4. CASE Beats(f[j], f[o], up)
      <3>1. \A i \in 1 .. o : Beats(f[j], f[i], up)
        BY <2>1, <2>2, <2>4
      <3> QED
        BY <2>2, <3>1 DEF o
    <2>5. CASE Beats(f[o], f[j], up)
      <3>1. Beats(f[o], f[o], up)
        BY <2>3, BeatsIs
      <3>2. \A i \in 1 .. o : Beats(f[o], f[i], up)
        BY <2>1, <2>2, <2>3, <2>5, <3>1, BeatsIs
      <3> QED
        BY <2>2, <3>2 DEF o
    <2> QED
      BY <2>3, <2>4, <2>5, BeatsIs
  <1> HIDE DEF D
  <1>3. n \in D
    BY <1>1, <1>2, SetInduction
  <1> QED
    BY <1>3 DEF D

----------------------------------------------------------------------------
(* The stochastic.                                                         *)

\* No candle's low is above its high.
Ranged(T) == \A c \in T : c.low <= c.high

Raw(q) == S!RawStochastic(q[Len(q)].close, Min(LowsIn(q)), Max(HighsIn(q)))

RawIn(T) == [q \in Seq(T) |-> Raw(q)]

\* The raw stochastic of candles is a number: their highest high is not below their lowest low.
LEMMA RawIsRead ==
  ASSUME NEW T, Priced(T), Ranged(T), NEW k \in Nat \ {0}
  PROVE  Reads(RawIn(T), T, k, Int) /\ \A q \in Seq(T) : RawIn(T)[q] = Raw(q)
  <1>1. \A q \in Seq(T) : RawIn(T)[q] = Raw(q)
    BY DEF RawIn
  <1>2. ASSUME NEW q \in Seq(T), Len(q) = k PROVE Raw(q) \in Int
    <2> DEFINE x == Highs(q)
               y == Lows(q)
               m == k - 1
               A == HighsIn(q)
               B == LowsIn(q)
    <2>1. m \in Nat /\ m + 1 = k /\ 1 \in 1 .. k /\ k \in 1 .. k
      OBVIOUS
    <2>2. q[1] \in T /\ q[k] \in T
      BY <1>2, <2>1
    <2>3. \A i \in 1 .. k : q[i].high \in Int /\ q[i].low \in Int
      <3>1. \A i \in 1 .. k : q[i] \in T
        BY <1>2
      <3> QED
        BY <3>1 DEF Priced
    <2>4. x = [i \in 1 .. k |-> q[i].high] /\ y = [i \in 1 .. k |-> q[i].low]
      BY <1>2 DEF Highs, Lows
    <2> HIDE DEF x, y, m
    <2>5. \A i \in 1 .. m + 1 : x[i] \in Int /\ y[i] \in Int
      BY <2>1, <2>3, <2>4
    <2>6. PICK j \in 1 .. k : \A i \in 1 .. k : q[i].high <= q[j].high
      <3> DEFINE up == TRUE
      <3>1. up \in BOOLEAN
        OBVIOUS
      <3> HIDE DEF up
      <3>2. \E j \in 1 .. m + 1 : \A i \in 1 .. m + 1 : Beats(x[j], x[i], up)
        BY <2>1, <2>5, <3>1, HasExtreme
      <3>3. \A i, j \in 1 .. k : Beats(x[j], x[i], up) => q[i].high <= q[j].high
        BY <2>3, <2>4 DEF Beats, up
      <3>4. \E z \in 1 .. k : \A i \in 1 .. k : Beats(x[z], x[i], up)
        BY <2>1, <3>2
      <3> QED
        BY <3>3, <3>4
    <2>7. PICK l \in 1 .. k : \A i \in 1 .. k : q[l].low <= q[i].low
      <3> DEFINE up == FALSE
      <3>1. up \in BOOLEAN
        OBVIOUS
      <3> HIDE DEF up
      <3>2. \E l \in 1 .. m + 1 : \A i \in 1 .. m + 1 : Beats(y[l], y[i], up)
        BY <2>1, <2>5, <3>1, HasExtreme
      <3>3. \A i, l \in 1 .. k : Beats(y[l], y[i], up) => q[l].low <= q[i].low
        BY <2>3, <2>4 DEF Beats, up
      <3>4. \E z \in 1 .. k : \A i \in 1 .. k : Beats(y[z], y[i], up)
        BY <2>1, <3>2
      <3> QED
        BY <3>3, <3>4
    <2>8. /\ A \in SUBSET Int /\ q[j].high \in A /\ \A z \in A : z <= q[j].high
          /\ B \in SUBSET Int /\ q[l].low \in B /\ \A z \in B : q[l].low <= z
      <3>1. A = {q[i].high : i \in 1 .. k} /\ B = {q[i].low : i \in 1 .. k}
        BY <1>2 DEF HighsIn, LowsIn
      <3> HIDE DEF A, B
      <3> QED
        BY <2>3, <2>6, <2>7, <3>1
    <2> HIDE DEF A, B
    <2>9. Max(A) = q[j].high
      BY <2>8, MaxIs
    <2>10. Min(B) = q[l].low
      BY <2>8, MinIs
    <2> DEFINE highest == q[j].high
               lowest == q[l].low
               close == q[k].close
    <2>11. highest \in Int /\ lowest \in Int /\ close \in Int /\ highest >= lowest
      <3>1. q[1].low <= q[1].high /\ q[1].high \in Int /\ q[1].low \in Int /\ close \in Int
        BY <2>2 DEF Priced, Ranged
      <3>2. q[l].low <= q[1].low /\ q[1].high <= q[j].high
        BY <2>1, <2>6, <2>7
      <3> QED
        BY <2>3, <3>1, <3>2
    <2> HIDE DEF highest, lowest, close
    <2>12. S!RawStochastic(close, lowest, highest) \in Int
      <3>1. CASE highest = lowest
        BY <3>1 DEF S!RawStochastic, S!Hundred
      <3>2. CASE highest # lowest
        <4> DEFINE d == highest - lowest
                   z == (close - lowest) * 1200
        <4>1. d \in Nat \ {0} /\ z \in Int
          BY <2>11, <3>2
        <4>2. S!RawStochastic(close, lowest, highest) = z \div d
          BY <3>2 DEF S!RawStochastic, S!Hundred
        <4> HIDE DEF d, z
        <4>3. z \div d \in Int
          BY <4>1
        <4> QED
          BY <4>2, <4>3
      <3> QED
        BY <3>1, <3>2
    <2>13. Raw(q) = S!RawStochastic(close, lowest, highest)
      BY <1>2, <2>9, <2>10 DEF Raw, close, lowest, highest, A, B
    <2> QED
      BY <2>12, <2>13
  <1> QED
    BY <1>1, <1>2 DEF Reads

\* The means of the raw values, and the means of these: %K and %D.
Raws(T, h, k) == Sliding(h, k, RawIn(T))

Ks(T, h, k, smooth) == Sliding(Raws(T, h, k), smooth, MeanIn(smooth))

KD(T, h, k, smooth_k, smooth_d) ==
  [k |-> MeanOf(Raws(T, h, k), smooth_k).value, d |-> MeanOf(Ks(T, h, k, smooth_k), smooth_d).value]

\* What the structure of the stochastic holds after candles h.
StochasticIs(s, T, h, k, smooth_k, smooth_d) ==
  /\ s.index = Len(h)
  /\ Deque(s.highs, Highs(h), Len(h) - k, TRUE)
  /\ Deque(s.lows, Lows(h), Len(h) - k, FALSE)
  /\ s.k_mean = MeanOf(Raws(T, h, k), smooth_k)
  /\ s.d_mean = MeanOf(Ks(T, h, k, smooth_k), smooth_d)
  /\ s.value = KD(T, h, k, smooth_k, smooth_d)

\* Before the first candle.
LEMMA StochasticStarts ==
  ASSUME NEW T, Priced(T), Ranged(T), NEW k \in Nat \ {0}, NEW smooth_k \in Nat \ {0}, NEW smooth_d \in Nat \ {0}
  PROVE  StochasticIs(S!StochasticStart, T, <<>>, k, smooth_k, smooth_d)
  <1> DEFINE e == <<>>
  <1>1. Highs(e) = <<>> /\ Lows(e) = <<>>
    <2> DEFINE m == Len(e)
    <2>1. m = 0
      OBVIOUS
    <2>2. Highs(e) = [i \in 1 .. m |-> Highs(e)[i]] /\ Lows(e) = [i \in 1 .. m |-> Lows(e)[i]]
      BY DEF Highs, Lows
    <2> HIDE DEF m
    <2> QED
      BY <2>1, <2>2, NoEntry
  <1>2. Deque(<<>>, Highs(e), Len(e) - k, TRUE) /\ Deque(<<>>, Lows(e), Len(e) - k, FALSE)
    BY <1>1, EmptyDeque
  <1>3. Len(e) = 0 /\ Len(e) < k /\ Len(e) < smooth_k /\ e \in Seq(T)
    OBVIOUS
  <1>4. Raws(T, e, k) = e
    <2>1. IsSliding(Raws(T, e, k), e, k, RawIn(T), Int)
      BY <1>3, RawIsRead, SlidingIs DEF Raws
    <2> QED
      BY <1>3, <2>1 DEF IsSliding
  <1>5. Ks(T, e, k, smooth_k) = e
    <2>1. e \in Seq(Int) /\ Ks(T, e, k, smooth_k) = Sliding(e, smooth_k, MeanIn(smooth_k))
      BY <1>4 DEF Ks
    <2>2. Reads(MeanIn(smooth_k), Int, smooth_k, Int)
      BY MeanIsRead
    <2>3. IsSliding(Ks(T, e, k, smooth_k), e, smooth_k, MeanIn(smooth_k), Int)
      <3> HIDE DEF e
      <3> QED
        BY <2>1, <2>2, SlidingIs
    <2> QED
      BY <1>3, <2>3 DEF IsSliding
  <1>6. \A l \in Nat \ {0} : MeanOf(e, l) = S!MeanStart
    <2> SUFFICES ASSUME NEW l \in Nat \ {0} PROVE MeanOf(e, l) = S!MeanStart
      OBVIOUS
    <2>1. Recent(e, l) = <<>> /\ S!SumOf(Recent(e, l)) = 0
      BY RecentOfNone
    <2>2. ~ (Len(e) >= l)
      OBVIOUS
    <2> QED
      BY <2>1, <2>2 DEF MeanOf, S!MeanStart
  <1> HIDE DEF e
  <1>7. S!MeanStart.value = None
    BY DEF S!MeanStart
  <1>8. KD(T, e, k, smooth_k, smooth_d) = [k |-> None, d |-> None]
    BY <1>4, <1>5, <1>6, <1>7 DEF KD
  <1>9. /\ S!StochasticStart.index = 0 /\ S!StochasticStart.highs = <<>> /\ S!StochasticStart.lows = <<>>
        /\ S!StochasticStart.k_mean = S!MeanStart /\ S!StochasticStart.d_mean = S!MeanStart
        /\ S!StochasticStart.value = [k |-> None, d |-> None]
    BY DEF S!StochasticStart
  <1>10. StochasticIs(S!StochasticStart, T, e, k, smooth_k, smooth_d)
    BY <1>2, <1>3, <1>4, <1>5, <1>6, <1>8, <1>9 DEF StochasticIs
  <1> QED
    BY <1>10 DEF e

\* A series of means follows, and its newest mean is what the running mean returns.
LEMMA MeansFollow ==
  ASSUME NEW f \in Seq(Int), NEW v \in Int, NEW k \in Nat \ {0}
  PROVE  LET g == Append(f, v) IN
         /\ MeanOf(g, k).value = None <=> Len(g) < k
         /\ MeanOf(g, k).value # None => MeanOf(g, k).value \in Int
         /\ Sliding(g, k, MeanIn(k)) =
              IF MeanOf(g, k).value = None THEN Sliding(f, k, MeanIn(k))
              ELSE Append(Sliding(f, k, MeanIn(k)), MeanOf(g, k).value)
  <1> DEFINE g == Append(f, v)
             q == Recent(g, k)
             value == MeanOf(g, k).value
  <1>1. g \in Seq(Int) /\ Len(g) = Len(f) + 1 /\ Len(f) \in Nat
    OBVIOUS
  <1>2. Sliding(g, k, MeanIn(k)) =
          IF Len(f) + 1 < k THEN Sliding(f, k, MeanIn(k))
          ELSE Append(Sliding(f, k, MeanIn(k)), MeanIn(k)[q])
    <2> DEFINE V == MeanIn(k)
    <2>1. Reads(V, Int, k, Int)
      BY MeanIsRead
    <2> HIDE DEF V, q, g
    <2>2. SlidesOn(f, v, k, V)
      BY <2>1, SlidingFollows
    <2> QED
      BY <2>2 DEF SlidesOn, V, q, g
  <1> HIDE DEF g
  <1>3. q \in Seq(Int)
    BY <1>1, RecentLength
  <1>4. value = IF Len(g) >= k THEN S!SumOf(q) \div k ELSE None
    BY DEF MeanOf
  <1> HIDE DEF q, value
  <1>5. S!SumOf(q) \in Int
    BY <1>3, SumAppended
  <1>6. S!SumOf(q) \div k \in Int
    BY <1>5
  <1>7. MeanIn(k)[q] = S!SumOf(q) \div k
    BY <1>3, MeanIsRead
  <1>8. (Len(g) >= k <=> ~ (Len(g) < k)) /\ Len(g) = Len(f) + 1
    BY <1>1
  <1>9. value = None <=> Len(g) < k
    BY <1>4, <1>6, <1>8, NoReadingAssumption
  <1>10. value # None => value \in Int /\ value = MeanIn(k)[q]
    BY <1>4, <1>6, <1>7
  <1> QED
    BY <1>2, <1>8, <1>9, <1>10 DEF g, value

\* The stochastic follows a candle.
LEMMA StochasticFollows ==
  ASSUME NEW T, Priced(T), Ranged(T), NEW h \in Seq(T), NEW c \in T,
         NEW k \in Nat \ {0}, NEW smooth_k \in Nat \ {0}, NEW smooth_d \in Nat \ {0},
         NEW s, StochasticIs(s, T, h, k, smooth_k, smooth_d)
  PROVE  StochasticIs(S!StochasticUpdate(s, c, k, smooth_k, smooth_d), T, Append(h, c), k, smooth_k, smooth_d)
  <1> DEFINE n == Len(h)
             a == Append(h, c)
             cutoff == n - k + 1
             highs == S!PushHigh(S!PopFront(s.highs, cutoff), n, c.high)
             lows == S!PushLow(S!PopFront(s.lows, cutoff), n, c.low)
             raw == S!RawStochastic(c.close, Head(lows)[2], Head(highs)[2])
             full == n + 1 >= k
             km == IF full THEN S!MeanUpdate(s.k_mean, raw, smooth_k) ELSE s.k_mean
             dm == IF full /\ km.value # None THEN S!MeanUpdate(s.d_mean, km.value, smooth_d) ELSE s.d_mean
             u == S!StochasticUpdate(s, c, k, smooth_k, smooth_d)
             x == Raws(T, h, k)
             y == Raws(T, a, k)
             z == Ks(T, h, k, smooth_k)
             w == Ks(T, a, k, smooth_k)
  <1>1. n \in Nat /\ Len(a) = n + 1 /\ a \in Seq(T) /\ a[n + 1] = c /\ n - k \in Int /\ cutoff \in Int
        /\ n - k <= cutoff /\ cutoff <= n /\ (n + 1) - k = cutoff /\ Len(h) = n
    OBVIOUS
  <1>2. /\ Highs(h) \in Seq(Int) /\ Len(Highs(h)) = n /\ Highs(a) = Append(Highs(h), c.high)
        /\ Lows(h) \in Seq(Int) /\ Len(Lows(h)) = n /\ Lows(a) = Append(Lows(h), c.low)
    BY HighsFollow
  <1>3. c.high \in Int /\ c.low \in Int /\ c.close \in Int
    BY DEF Priced
  <1>4. s.index = n /\ s.k_mean = MeanOf(x, smooth_k) /\ s.d_mean = MeanOf(z, smooth_d)
        /\ s.value = KD(T, h, k, smooth_k, smooth_d)
    BY DEF StochasticIs
  <1>5. /\ u.index = n + 1 /\ u.highs = highs /\ u.lows = lows
        /\ u.k_mean = km /\ u.d_mean = dm /\ u.value = [k |-> km.value, d |-> dm.value]
    BY <1>4 DEF S!StochasticUpdate
  <1>6. y = IF n + 1 < k THEN x ELSE Append(x, RawIn(T)[Recent(a, k)])
    <2> DEFINE V == RawIn(T)
    <2>1. Reads(V, T, k, Int)
      BY RawIsRead
    <2> HIDE DEF V
    <2>2. SlidesOn(h, c, k, V)
      BY <2>1, SlidingFollows
    <2> QED
      BY <2>2 DEF SlidesOn, V, Raws
  <1>7. x \in Seq(Int)
    <2>1. IsSliding(x, h, k, RawIn(T), Int)
      BY RawIsRead, SlidingIs DEF Raws
    <2> HIDE DEF x
    <2> QED
      BY <2>1 DEF IsSliding
  <1>8. z = Sliding(x, smooth_k, MeanIn(smooth_k)) /\ w = Sliding(y, smooth_k, MeanIn(smooth_k))
    BY DEF Ks
  <1>9. z \in Seq(Int)
    <2> HIDE DEF x, z
    <2>1. IsSliding(Sliding(x, smooth_k, MeanIn(smooth_k)), x, smooth_k, MeanIn(smooth_k), Int)
      BY <1>7, MeanIsRead, SlidingIs
    <2> QED
      BY <1>8, <2>1 DEF IsSliding
  <1> HIDE DEF u, a, n
  <1>10. Deque(s.highs, Highs(h), n - k, TRUE) /\ Deque(s.lows, Lows(h), n - k, FALSE)
    BY DEF StochasticIs, n
  <1> HIDE DEF cutoff
  <1>11. Deque(highs, Highs(a), cutoff, TRUE)
    <2> DEFINE d == s.highs
               x0 == Highs(h)
               from == n - k
               v == c.high
    <2>1. x0 \in Seq(Int) /\ Len(x0) = n /\ Highs(a) = Append(x0, v) /\ v \in Int /\ Deque(d, x0, from, TRUE)
      BY <1>2, <1>3, <1>10
    <2>2. from \in Int /\ cutoff \in Int /\ from <= cutoff /\ cutoff <= n /\ n \in Nat
      BY <1>1
    <2> HIDE DEF d, x0, from, v
    <2>3. Deque(S!PushHigh(S!PopFront(d, cutoff), n, v), Append(x0, v), cutoff, TRUE)
      BY <2>1, <2>2, DequeFollows
    <2> QED
      BY <2>1, <2>3 DEF d, v
  <1>12. Deque(lows, Lows(a), cutoff, FALSE)
    <2> DEFINE d == s.lows
               x0 == Lows(h)
               from == n - k
               v == c.low
    <2>1. x0 \in Seq(Int) /\ Len(x0) = n /\ Lows(a) = Append(x0, v) /\ v \in Int /\ Deque(d, x0, from, FALSE)
      BY <1>2, <1>3, <1>10
    <2>2. from \in Int /\ cutoff \in Int /\ from <= cutoff /\ cutoff <= n /\ n \in Nat
      BY <1>1
    <2> HIDE DEF d, x0, from, v
    <2>3. Deque(S!PushLow(S!PopFront(d, cutoff), n, v), Append(x0, v), cutoff, FALSE)
      BY <2>1, <2>2, DequeFollows
    <2> QED
      BY <2>1, <2>3 DEF d, v
  <1> HIDE DEF highs, lows, x, y, z, w
  <1>13. ASSUME ~ full PROVE km = MeanOf(y, smooth_k) /\ dm = MeanOf(w, smooth_d)
    <2>1. n + 1 < k
      BY <1>1, <1>13
    <2>2. y = x /\ w = z
      BY <1>6, <1>8, <2>1
    <2>3. km = s.k_mean /\ dm = s.d_mean
      BY <1>13
    <2> HIDE DEF km, dm
    <2>4. km = MeanOf(y, smooth_k) /\ dm = MeanOf(w, smooth_d)
      BY <1>4, <2>2, <2>3
    <2> QED
      BY <2>4
  <1>14. ASSUME full PROVE km = MeanOf(y, smooth_k) /\ dm = MeanOf(w, smooth_d)
    <2> DEFINE q == Recent(a, k)
    <2>1. k <= Len(a) /\ ~ (n + 1 < k) /\ k \in 1 .. k
      BY <1>1, <1>14
    <2>2. q \in Seq(T) /\ Len(q) = k /\ q[k] = c
      <3>1. q \in Seq(T) /\ IsFull(q, a, n + 1, k)
        <4> DEFINE m == n + 1
        <4>1. m \in Nat /\ Len(a) = m /\ k <= m
          BY <1>1, <2>1
        <4> HIDE DEF m
        <4>2. q \in Seq(T) /\ IsFull(q, a, m, k)
          BY <1>1, <4>1, FullRecent
        <4> QED
          BY <4>2 DEF m
      <3> HIDE DEF q
      <3>2. Len(q) = k /\ q[k] = a[(n + 1) - k + k]
        BY <2>1, <3>1 DEF IsFull
      <3>3. (n + 1) - k + k = n + 1
        BY <1>1
      <3> QED
        BY <1>1, <3>1, <3>2, <3>3
    <2>3. Head(highs)[2] = Max(HighsIn(q)) /\ Head(lows)[2] = Min(LowsIn(q))
      <3>1. Len(a) - k = cutoff
        BY <1>1
      <3>2. Deque(highs, Highs(a), Len(a) - k, TRUE) /\ Deque(lows, Lows(a), Len(a) - k, FALSE)
        BY <1>11, <1>12, <3>1
      <3> QED
        BY <1>1, <2>1, <3>2, FrontOfCandles
    <2> HIDE DEF q
    <2>4. raw = Raw(q)
      BY <2>2, <2>3 DEF Raw
    <2>5. RawIn(T)[q] = Raw(q) /\ Raw(q) \in Int
      BY <2>2, RawIsRead DEF Reads
    <2> HIDE DEF raw
    <2>6. y = Append(x, raw) /\ raw \in Int
      BY <1>6, <2>1, <2>4, <2>5 DEF q
    <2>7. km = MeanOf(y, smooth_k)
      BY <1>4, <1>7, <1>14, <2>6, MeanFollows
    <2>8. /\ MeanOf(y, smooth_k).value # None => MeanOf(y, smooth_k).value \in Int
          /\ w = IF MeanOf(y, smooth_k).value = None THEN z ELSE Append(z, MeanOf(y, smooth_k).value)
      BY <1>7, <1>8, <2>6, MeansFollow
    <2> HIDE DEF km
    <2>9. dm = MeanOf(w, smooth_d)
      <3>1. CASE km.value = None
        <4>1. dm = s.d_mean /\ w = z
          BY <2>7, <2>8, <3>1
        <4> QED
          BY <1>4, <4>1
      <3>2. CASE km.value # None
        <4>1. dm = S!MeanUpdate(s.d_mean, km.value, smooth_d) /\ w = Append(z, km.value) /\ km.value \in Int
          BY <1>14, <2>7, <2>8, <3>2
        <4> HIDE DEF dm
        <4>2. S!MeanUpdate(MeanOf(z, smooth_d), km.value, smooth_d) = MeanOf(Append(z, km.value), smooth_d)
          BY <1>9, <4>1, MeanFollows
        <4> QED
          BY <1>4, <4>1, <4>2
      <3> QED
        BY <3>1, <3>2
    <2> QED
      BY <2>7, <2>9
  <1>15. km = MeanOf(y, smooth_k) /\ dm = MeanOf(w, smooth_d)
    BY <1>13, <1>14
  <1> HIDE DEF km, dm
  <1>16. KD(T, a, k, smooth_k, smooth_d) = [k |-> km.value, d |-> dm.value]
    BY <1>15 DEF KD, y, w
  <1>17. StochasticIs(u, T, a, k, smooth_k, smooth_d)
    <2>1. Len(a) - k = cutoff
      BY <1>1
    <2>2. u.index = Len(a)
      BY <1>1, <1>5
    <2> QED
      BY <1>5, <1>11, <1>12, <1>15, <1>16, <2>1, <2>2 DEF StochasticIs, y, w
  <1> QED
    BY <1>17 DEF u, a

----------------------------------------------------------------------------
(* Bands: what the running sums of values and squares say of a window.     *)

\* A sequence that is not empty is one with a value appended.
LEMMA Decomposed ==
  ASSUME NEW t \in Seq(Int), NEW n \in Nat, Len(t) = n + 1
  PROVE  \E u \in Seq(Int), v \in Int : t = Append(u, v) /\ Len(u) = n
  <1> DEFINE u == SubSeq(t, 1, n)
             b == Append(u, t[n + 1])
  <1>1. u \in Seq(Int) /\ Len(u) = n /\ t[n + 1] \in Int /\ \A i \in 1 .. n : u[i] = t[i]
    OBVIOUS
  <1> HIDE DEF u
  <1>2. b \in Seq(Int) /\ Len(b) = n + 1 /\ b[n + 1] = t[n + 1]
    BY <1>1
  <1>3. \A i \in 1 .. n : b[i] = t[i]
    BY <1>1
  <1> HIDE DEF b
  <1>4. \A i \in 1 .. Len(t) : t[i] = b[i]
    BY <1>2, <1>3
  <1>5. t = b
    BY <1>2, <1>4, SameEntries
  <1> QED
    BY <1>1, <1>5 DEF b

\* The squared distances from a value, and what the sums of a list say of them.
SquaredDistances(f, m) == [i \in 1 .. Len(f) |-> (f[i] - m) * (f[i] - m)]

SumsOf(f, m) ==
  /\ SquaredDistances(f, m) \in Seq(Int)
  /\ S!SumOf(SquaredDistances(f, m)) = S!SumOf(Squares(f)) - 2 * (m * S!SumOf(f)) + Len(f) * (m * m)
  /\ S!SumOf(SquaredDistances(f, m)) >= 0

\* The squared distances from m when one more value arrives.
LEMMA DistancesFollow ==
  ASSUME NEW f \in Seq(Int), NEW v \in Int, NEW m \in Int
  PROVE  /\ SquaredDistances(f, m) \in Seq(Int)
         /\ SquaredDistances(Append(f, v), m) = Append(SquaredDistances(f, m), (v - m) * (v - m))
  <1> DEFINE a == Append(f, v)
             n == Len(f)
             x == SquaredDistances(f, m)
             y == SquaredDistances(a, m)
             last == (v - m) * (v - m)
  <1>1. n \in Nat /\ Len(a) = n + 1 /\ a[n + 1] = v /\ \A i \in 1 .. n : a[i] = f[i] /\ f[i] \in Int
    OBVIOUS
  <1>2. x = [i \in 1 .. n |-> (f[i] - m) * (f[i] - m)] /\ y = [i \in 1 .. n + 1 |-> (a[i] - m) * (a[i] - m)]
    <2> HIDE DEF a, n
    <2> QED
      BY <1>1 DEF SquaredDistances, n
  <1> HIDE DEF a, n, x, y
  <1>3. \A i \in 1 .. n + 1 : a[i] \in Int /\ (i \in 1 .. n \/ i = n + 1)
    BY <1>1
  <1>4. Listed(x, n, Int)
    BY <1>1, <1>2 DEF Listed
  <1>5. Listed(y, n + 1, Int)
    <2>1. \A i \in 1 .. n + 1 : (a[i] - m) * (a[i] - m) \in Int
      BY <1>3
    <2> QED
      BY <1>2, <2>1 DEF Listed
  <1>6. n + 1 \in 1 .. n + 1 /\ \A i \in 1 .. n : i \in 1 .. n + 1
    BY <1>1
  <1>7. Extends(x, y, n)
    BY <1>1, <1>2, <1>6 DEF Extends
  <1>8. y[n + 1] = last
    BY <1>1, <1>2, <1>6
  <1>9. y = Append(x, last) /\ x \in Seq(Int)
    BY <1>1, <1>4, <1>5, <1>7, <1>8, OneMoreEntry, ListedIs
  <1> QED
    BY <1>9 DEF x, y, a

\* The sum of the squared distances from a value, from the sums of the list.
LEMMA SumOfDistances ==
  ASSUME NEW f \in Seq(Int), NEW m \in Int
  PROVE  SumsOf(f, m)
  <1> DEFINE D == {n \in Nat : \A t \in Seq(Int) : Len(t) = n => SumsOf(t, m)}
  <1>1. 0 \in D
    <2>1. ASSUME NEW t \in Seq(Int), Len(t) = 0 PROVE SumsOf(t, m)
      <3>1. t = <<>>
        BY <2>1
      <3>2. SquaredDistances(t, m) = <<>> /\ Squares(t) = <<>>
        <4> DEFINE z == Len(t)
        <4>1. z = 0
          BY <2>1
        <4>2. SquaredDistances(t, m) = [i \in 1 .. z |-> SquaredDistances(t, m)[i]] /\ Squares(t) = [i \in 1 .. z |-> Squares(t)[i]]
          BY DEF SquaredDistances, Squares
        <4> HIDE DEF z
        <4> QED
          BY <4>1, <4>2, NoEntry
      <3>3. S!SumOf(<<>>) = 0
        BY SumAppended
      <3>4. 0 = 0 - 2 * (m * 0) + 0 * (m * m) /\ <<>> \in Seq(Int)
        OBVIOUS
      <3>5. S!SumOf(SquaredDistances(t, m)) = 0 /\ S!SumOf(Squares(t)) = 0 /\ S!SumOf(t) = 0
        BY <3>1, <3>2, <3>3
      <3> QED
        BY <2>1, <3>2, <3>4, <3>5 DEF SumsOf
    <2> QED
      BY <2>1
  <1>2. ASSUME NEW n \in Nat, n \in D PROVE n + 1 \in D
    <2>1. ASSUME NEW t \in Seq(Int), Len(t) = n + 1 PROVE SumsOf(t, m)
      <3>1. PICK u \in Seq(Int), v \in Int : t = Append(u, v) /\ Len(u) = n
        BY <2>1, Decomposed
      <3>2. SumsOf(u, m)
        BY <1>2, <3>1
      <3>3. SquaredDistances(u, m) \in Seq(Int) /\ SquaredDistances(t, m) = Append(SquaredDistances(u, m), (v - m) * (v - m))
        BY <3>1, DistancesFollow
      <3>4. Squares(u) \in Seq(Int) /\ Squares(t) = Append(Squares(u), v * v)
        BY <3>1, SquaresFollow
      <3> DEFINE sd == S!SumOf(SquaredDistances(u, m))
                 ss == S!SumOf(Squares(u))
                 su == S!SumOf(u)
      <3>5. S!SumOf(SquaredDistances(t, m)) = sd + (v - m) * (v - m) /\ sd \in Int
        <4>1. (v - m) * (v - m) \in Int
          OBVIOUS
        <4> QED
          BY <3>3, <4>1, SumAppended
      <3>6. S!SumOf(Squares(t)) = ss + v * v /\ ss \in Int
        <4>1. v * v \in Int
          OBVIOUS
        <4> QED
          BY <3>4, <4>1, SumAppended
      <3>7. S!SumOf(t) = su + v /\ su \in Int
        BY <3>1, SumAppended
      <3>8. sd = ss - 2 * (m * su) + n * (m * m) /\ sd >= 0
        BY <3>1, <3>2 DEF SumsOf
      <3> HIDE DEF sd, ss, su
      <3>9. (v - m) * (v - m) >= 0
        <4> DEFINE w == v - m
        <4>1. w \in Int
          OBVIOUS
        <4> HIDE DEF w
        <4>2. \A x, y \in Nat : x * y \in Nat
          OBVIOUS
        <4>3. ASSUME w >= 0 PROVE w * w \in Nat
          <5>1. w \in Nat
            BY <4>1, <4>3
          <5> QED
            BY <4>2, <5>1
        <4>4. ASSUME w < 0 PROVE w * w \in Nat
          <5>1. 0 - w \in Nat /\ (0 - w) * (0 - w) = w * w
            BY <4>1, <4>4
          <5>2. (0 - w) * (0 - w) \in Nat
            BY <4>2, <5>1
          <5> QED
            BY <5>1, <5>2
        <4>5. w * w \in Nat
          BY <4>1, <4>3, <4>4
        <4>6. w * w >= 0
          BY <4>5
        <4> QED
          BY <4>6 DEF w
      <3>10. sd + (v - m) * (v - m) = (ss + v * v) - 2 * (m * (su + v)) + (n + 1) * (m * m)
        BY <3>5, <3>6, <3>7, <3>8
      <3>11. (v - m) * (v - m) \in Int /\ sd + (v - m) * (v - m) >= 0
        BY <3>5, <3>8, <3>9
      <3>12. SquaredDistances(t, m) \in Seq(Int)
        BY <3>3, <3>11
      <3> QED
        BY <2>1, <3>5, <3>6, <3>7, <3>10, <3>11, <3>12 DEF SumsOf
    <2> QED
      BY <2>1
  <1> HIDE DEF D
  <1>3. \A n \in Nat : n \in D
    BY <1>1, <1>2, SetInduction
  <1>4. Len(f) \in Nat
    OBVIOUS
  <1> QED
    BY <1>3, <1>4 DEF D

\* Multiples of a number add up to a multiple of it.
Multiple(x, k) == \E y \in Int : x = k * y

\* A sum of multiples is one.
LEMMA MultiplesAddUp ==
  ASSUME NEW k \in Nat \ {0}, NEW f \in Seq(Int), \A i \in 1 .. Len(f) : Multiple(f[i], k)
  PROVE  Multiple(S!SumOf(f), k)
  <1> DEFINE D == {n \in Nat : \A t \in Seq(Int) : Len(t) = n /\ (\A i \in 1 .. n : Multiple(t[i], k))
                                                    => Multiple(S!SumOf(t), k)}
  <1>1. 0 \in D
    <2>1. ASSUME NEW t \in Seq(Int), Len(t) = 0 PROVE Multiple(S!SumOf(t), k)
      <3>1. t = <<>>
        BY <2>1
      <3>2. S!SumOf(<<>>) = 0
        BY SumAppended
      <3>3. 0 \in Int /\ 0 = k * 0
        OBVIOUS
      <3> QED
        BY <3>1, <3>2, <3>3 DEF Multiple
    <2> QED
      BY <2>1
  <1>2. ASSUME NEW n \in Nat, n \in D PROVE n + 1 \in D
    <2>1. ASSUME NEW t \in Seq(Int), Len(t) = n + 1, \A i \in 1 .. n + 1 : Multiple(t[i], k)
          PROVE  Multiple(S!SumOf(t), k)
      <3>1. PICK u \in Seq(Int), v \in Int : t = Append(u, v) /\ Len(u) = n
        BY <2>1, Decomposed
      <3>2. t[n + 1] = v /\ n + 1 \in 1 .. n + 1 /\ \A i \in 1 .. n : t[i] = u[i] /\ i \in 1 .. n + 1
        BY <3>1
      <3>3. Multiple(S!SumOf(u), k)
        <4>1. \A i \in 1 .. n : Multiple(u[i], k)
          BY <2>1, <3>2
        <4> QED
          BY <1>2, <3>1, <4>1
      <3>4. Multiple(v, k)
        BY <2>1, <3>2
      <3>5. PICK y \in Int : S!SumOf(u) = k * y
        BY <3>3 DEF Multiple
      <3>6. PICK z \in Int : v = k * z
        BY <3>4 DEF Multiple
      <3>7. S!SumOf(t) = k * y + k * z
        BY <3>1, <3>5, <3>6, SumAppended
      <3>8. y + z \in Int /\ k * y + k * z = k * (y + z)
        OBVIOUS
      <3> QED
        BY <3>7, <3>8 DEF Multiple
    <2> QED
      BY <2>1
  <1> HIDE DEF D
  <1>3. \A n \in Nat : n \in D
    BY <1>1, <1>2, SetInduction
  <1>4. Len(f) \in Nat
    OBVIOUS
  <1> QED
    BY <1>3, <1>4 DEF D

\* Division by a number takes off what is a multiple of it.
LEMMA DivisionTakesOff ==
  ASSUME NEW k \in Nat \ {0}, NEW x \in Int, NEW z \in Int
  PROVE  /\ (x - k * z) \div k = (x \div k) - z
         /\ (k * z) \div k = z
         /\ x >= 0 => x \div k >= 0
         /\ x \div k \in Int
  <1> DEFINE q == x \div k
             r == x % k
  <1>1. q \in Int /\ r \in 0 .. k - 1 /\ x = k * q + r
    OBVIOUS
  <1>2. \A y, u \in Int, s \in 0 .. k - 1 : y = k * u + s => y \div k = u
    OBVIOUS
  <1> HIDE DEF q, r
  <1>3. x - k * z = k * (q - z) + r /\ q - z \in Int /\ x - k * z \in Int
    BY <1>1
  <1>4. (x - k * z) \div k = q - z
    BY <1>1, <1>2, <1>3
  <1>5. (k * z) \div k = z
    BY <1>2
  <1>6. ASSUME x >= 0 PROVE q >= 0
    <2>1. ASSUME q < 0 PROVE FALSE
      <3>1. q <= -1 /\ k * q <= k * (-1)
        BY <1>1, <2>1
      <3> QED
        BY <1>1, <1>6, <3>1
    <2> QED
      BY <1>1, <2>1
  <1> QED
    BY <1>1, <1>4, <1>5, <1>6 DEF q

\* The entries but the last.
LEMMA FrontIs ==
  ASSUME NEW T, NEW s \in Seq(T), NEW n \in Nat, Len(s) = n + 1
  PROVE  /\ S!Front(s) \in Seq(T) /\ Len(S!Front(s)) = n
         /\ \A i \in 1 .. n : S!Front(s)[i] = s[i]
  <1> DEFINE f == SubSeq(s, 1, n)
  <1>1. f \in Seq(T) /\ Len(f) = n /\ \A i \in 1 .. n : f[i] = s[i]
    OBVIOUS
  <1>2. S!Front(s) = f
    <2>1. Len(s) - 1 = n
      OBVIOUS
    <2> QED
      BY <2>1 DEF S!Front
  <1> HIDE DEF f
  <1> QED
    BY <1>1, <1>2

\* The newest values of a longer sequence but the last.
LEMMA FrontOfRecent ==
  ASSUME NEW T, NEW s \in Seq(T), NEW n \in Nat, n + 1 <= Len(s)
  PROVE  S!Front(Recent(s, n + 1)) = Recent(S!Front(s), n)
  <1> DEFINE m == n + 1
             r == Recent(s, m)
             l == Len(s) - 1
             x == S!Front(r)
             g == S!Front(s)
             y == Recent(g, n)
  <1>1. l \in Nat /\ Len(s) = l + 1 /\ n <= l /\ m \in Nat /\ m <= Len(s) /\ m = n + 1
        /\ \A i \in 1 .. n : i \in 1 .. m /\ (l + 1) - m + i = l - n + i /\ l - n + i \in 1 .. l
    OBVIOUS
  <1> HIDE DEF m, l
  <1>2. r \in Seq(T) /\ Len(r) = n + 1 /\ \A i \in 1 .. m : r[i] = s[(l + 1) - m + i]
    <2>1. r \in Seq(T) /\ IsFull(r, s, Len(s), m)
      <3> DEFINE o == Len(s)
      <3>1. o \in Nat /\ Len(s) = o /\ m <= o
        BY <1>1
      <3> HIDE DEF o
      <3>2. r \in Seq(T) /\ IsFull(r, s, o, m)
        BY <1>1, <3>1, FullRecent
      <3> QED
        BY <3>2 DEF o
    <2> HIDE DEF r
    <2> QED
      BY <1>1, <2>1 DEF IsFull
  <1> HIDE DEF r
  <1>3. x \in Seq(T) /\ Len(x) = n /\ \A i \in 1 .. n : x[i] = r[i]
    BY <1>2, FrontIs
  <1>4. g \in Seq(T) /\ Len(g) = l /\ \A i \in 1 .. l : g[i] = s[i]
    BY <1>1, FrontIs
  <1> HIDE DEF g, x
  <1>5. y \in Seq(T) /\ Len(y) = n /\ \A i \in 1 .. n : y[i] = g[l - n + i]
    <2>1. y \in Seq(T) /\ IsFull(y, g, l, n)
      BY <1>1, <1>4, FullRecent
    <2> HIDE DEF y
    <2> QED
      BY <2>1 DEF IsFull
  <1> HIDE DEF y
  <1>6. \A i \in 1 .. Len(x) : x[i] = y[i]
    BY <1>1, <1>2, <1>3, <1>4, <1>5
  <1>7. x = y
    BY <1>3, <1>5, <1>6, SameEntries
  <1> QED
    BY <1>7 DEF x, y, r, g, m

\* What lists of the newest entries are: the newest entries of the lists.
IsPart(x, y, n) == x = Recent(y, n)

\* A list with the newest n entries of another is that part of it.
LEMMA PartIs ==
  ASSUME NEW T, NEW y \in Seq(T), NEW l \in Nat, Len(y) = l, NEW n \in Nat, n <= l,
         NEW x, x = [i \in 1 .. n |-> x[i]], \A i \in 1 .. n : x[i] = y[l - n + i]
  PROVE  IsPart(x, y, n)
  <1> DEFINE z == Recent(y, n)
  <1>1. z \in Seq(T) /\ IsFull(z, y, l, n)
    BY FullRecent
  <1> HIDE DEF z
  <1>2. Len(z) = n /\ \A i \in 1 .. n : z[i] = y[l - n + i]
    BY <1>1 DEF IsFull
  <1>3. \A i \in 1 .. n : x[i] = z[i] /\ x[i] \in T
    <2>1. \A i \in 1 .. n : z[i] \in T
      BY <1>1, <1>2
    <2> QED
      BY <1>2, <2>1
  <1>4. x \in Seq(T) /\ Len(x) = n
    BY <1>3, IndexedIsSeq
  <1>5. \A i \in 1 .. Len(x) : x[i] = z[i]
    BY <1>3, <1>4
  <1>6. x = z
    BY <1>1, <1>2, <1>4, <1>5, SameEntries
  <1> QED
    BY <1>6 DEF z, IsPart

\* Closes, volumes and ranges of the newest candles.
LEMMA ListsOfRecent ==
  ASSUME NEW T, Priced(T), NEW h \in Seq(T), NEW n \in Nat \ {0}, n <= Len(h)
  PROVE  /\ IsPart(S!Closes(Recent(h, n)), S!Closes(h), n)
         /\ IsPart(Volumes(Recent(h, n)), Volumes(h), n)
         /\ IsPart(Ranges(Recent(h, n)), Ranges(h), n - 1)
         /\ Ranges(h) \in Seq(Int) /\ Len(Ranges(h)) = Len(h) - 1
         /\ S!Closes(h) \in Seq(Int) /\ Len(S!Closes(h)) = Len(h)
         /\ Volumes(h) \in Seq(Int) /\ Len(Volumes(h)) = Len(h)
  <1> DEFINE l == Len(h)
             w == Recent(h, n)
             x == S!Closes(w)
             v == Volumes(w)
             r == Ranges(w)
  <1>1. l \in Nat /\ Len(h) = l /\ n <= l /\ h[1] \in T /\ Len(h) # 0
    OBVIOUS
  <1> HIDE DEF l
  <1>2. w \in Seq(T) /\ Len(w) = n /\ \A i \in 1 .. n : w[i] = h[l - n + i]
    <2>1. w \in Seq(T) /\ IsFull(w, h, l, n)
      BY <1>1, FullRecent
    <2> HIDE DEF w
    <2> QED
      BY <2>1 DEF IsFull
  <1> HIDE DEF w
  <1>3. PICK c : c \in T
    BY <1>1
  <1>4. /\ S!Closes(h) \in Seq(Int) /\ Len(S!Closes(h)) = l /\ \A i \in 1 .. l : S!Closes(h)[i] = h[i].close
        /\ Volumes(h) \in Seq(Int) /\ Len(Volumes(h)) = l /\ \A i \in 1 .. l : Volumes(h)[i] = h[i].tick_volume
    BY <1>1, <1>3, ClosesFollow
  <1>5. Ranges(h) \in Seq(Int) /\ Len(Ranges(h)) = l - 1
    BY <1>1, <1>3, RangesFollow
  <1>6. Ranges(h) = [i \in 1 .. l - 1 |-> S!TrueRange(h[i].close, h[i + 1])]
    BY <1>1 DEF Ranges
  <1>7. DOMAIN w = 1 .. n
    BY <1>2
  <1>8. /\ x = [i \in 1 .. n |-> w[i].close] /\ v = [i \in 1 .. n |-> w[i].tick_volume]
        /\ r = [i \in 1 .. n - 1 |-> S!TrueRange(w[i].close, w[i + 1])]
    BY <1>2, <1>7 DEF S!Closes, Volumes, Ranges
  <1> HIDE DEF x, v, r
  <1>9. \A i \in 1 .. n : l - n + i \in 1 .. l
    BY <1>1
  <1>10. \A i \in 1 .. n : x[i] = S!Closes(h)[l - n + i]
    BY <1>2, <1>4, <1>8, <1>9
  <1>11. \A i \in 1 .. n : v[i] = Volumes(h)[l - n + i]
    BY <1>2, <1>4, <1>8, <1>9
  <1>12. x = [i \in 1 .. n |-> x[i]] /\ v = [i \in 1 .. n |-> v[i]]
    BY <1>8
  <1>13. IsPart(x, S!Closes(h), n)
    BY <1>1, <1>4, <1>10, <1>12, PartIs
  <1>14. IsPart(v, Volumes(h), n)
    BY <1>1, <1>4, <1>11, <1>12, PartIs
  <1>15. IsPart(r, Ranges(h), n - 1)
    <2> DEFINE m == n - 1
               k == l - 1
               y == Ranges(h)
    <2>1. m \in Nat /\ k \in Nat /\ m <= k
          /\ \A i \in 1 .. m : /\ i \in 1 .. n /\ i + 1 \in 1 .. n /\ l - n + i = k - m + i
                               /\ l - n + (i + 1) = (k - m + i) + 1 /\ k - m + i \in 1 .. k
      BY <1>1
    <2> HIDE DEF y
    <2>2. y = [i \in 1 .. k |-> S!TrueRange(h[i].close, h[i + 1])] /\ y \in Seq(Int) /\ Len(y) = k
      BY <1>5, <1>6 DEF y
    <2>3. r = [i \in 1 .. m |-> S!TrueRange(w[i].close, w[i + 1])]
      BY <1>8
    <2> HIDE DEF m, k
    <2>4. \A i \in 1 .. m : r[i] = y[k - m + i]
      <3>1. ASSUME NEW i \in 1 .. m PROVE w[i] = h[k - m + i] /\ w[i + 1] = h[(k - m + i) + 1]
        <4> DEFINE j == i + 1
        <4>1. i \in 1 .. n /\ j \in 1 .. n /\ l - n + i = k - m + i /\ l - n + j = (k - m + i) + 1
          BY <2>1
        <4> HIDE DEF j
        <4>2. w[i] = h[l - n + i] /\ w[j] = h[l - n + j]
          BY <1>2, <4>1
        <4> QED
          BY <4>1, <4>2 DEF j
      <3> QED
        BY <2>1, <2>2, <2>3, <3>1
    <2>5. r = [i \in 1 .. m |-> r[i]]
      BY <2>3
    <2>6. IsPart(r, y, m)
      BY <2>1, <2>2, <2>4, <2>5, PartIs
    <2> QED
      BY <2>6 DEF m, y
  <1> QED
    BY <1>1, <1>4, <1>5, <1>13, <1>14, <1>15 DEF x, v, r, w

\* Changes, rises and falls of the newest closes.
LEMMA ChangesOfRecent ==
  ASSUME NEW f \in Seq(Int), NEW n \in Nat \ {0}, n <= Len(f)
  PROVE  /\ IsPart(S!Changes(Recent(f, n)), S!Changes(f), n - 1)
         /\ S!Changes(Recent(f, n)) \in Seq(Int) /\ Len(S!Changes(Recent(f, n))) = n - 1
  <1> DEFINE l == Len(f)
             w == Recent(f, n)
             x == S!Changes(w)
             y == S!Changes(f)
             m == n - 1
             k == l - 1
  <1>1. l \in Nat /\ Len(f) = l /\ n <= l /\ Len(f) # 0
    OBVIOUS
  <1> HIDE DEF l
  <1>2. w \in Seq(Int) /\ Len(w) = n /\ \A i \in 1 .. n : w[i] = f[l - n + i]
    <2>1. w \in Seq(Int) /\ IsFull(w, f, l, n)
      BY <1>1, FullRecent
    <2> HIDE DEF w
    <2> QED
      BY <2>1 DEF IsFull
  <1> HIDE DEF w
  <1>3. y \in Seq(Int) /\ Len(y) = k /\ \A i \in 1 .. k : y[i] = f[i + 1] - f[i]
    BY <1>1, ChangesAre
  <1>4. x \in Seq(Int) /\ Len(x) = m /\ \A i \in 1 .. m : x[i] = w[i + 1] - w[i]
    BY <1>2, ChangesAre
  <1>5. m \in Nat /\ k \in Nat /\ m <= k
        /\ \A i \in 1 .. m : /\ i \in 1 .. n /\ i + 1 \in 1 .. n /\ l - n + i = k - m + i
                             /\ l - n + (i + 1) = (k - m + i) + 1 /\ k - m + i \in 1 .. k
    BY <1>1
  <1> HIDE DEF x, y, m, k
  <1>6. ASSUME NEW i \in 1 .. m PROVE x[i] = y[k - m + i]
    <2> DEFINE j == i + 1
               o == k - m + i
    <2>1. i \in 1 .. n /\ j \in 1 .. n /\ l - n + i = o /\ l - n + j = o + 1 /\ o \in 1 .. k
      BY <1>5
    <2> HIDE DEF j, o
    <2>2. w[i] = f[o] /\ w[j] = f[o + 1]
      BY <1>2, <2>1
    <2>3. x[i] = w[j] - w[i]
      BY <1>4 DEF j
    <2>4. y[o] = f[o + 1] - f[o]
      BY <1>3, <2>1
    <2> QED
      BY <2>2, <2>3, <2>4 DEF o
  <1>7. x = [i \in 1 .. m |-> x[i]]
    BY <1>4
  <1>8. IsPart(x, y, m)
    BY <1>3, <1>5, <1>6, <1>7, PartIs
  <1> QED
    BY <1>4, <1>8 DEF x, y, m, w

----------------------------------------------------------------------------
(* What the reference reads from the newest n candles is what a structure  *)
(* over all candles h holds.                                               *)

\* The mean of the newest values, out of more of the newest.
LEMMA SmaOfPart ==
  ASSUME NEW y \in Seq(Int), NEW n \in Nat, n <= Len(y), NEW x, IsPart(x, y, n), NEW k \in Nat \ {0}, k <= n
  PROVE  S!Sma(x, k) = S!SumOf(Recent(y, k)) \div k
  <1>1. x = Recent(y, n)
    BY DEF IsPart
  <1>2. x \in Seq(Int) /\ Len(x) = n
    <2>1. Recent(y, n) \in Seq(Int) /\ Len(Recent(y, n)) = n
      BY RecentLength
    <2> QED
      BY <1>1, <2>1
  <1>3. S!Sma(x, k) = S!SumOf(Recent(x, k)) \div k
    BY <1>2, SmaIsMean
  <1>4. Recent(x, k) = Recent(y, k)
    BY <1>1, RecentOfRecent
  <1> QED
    BY <1>3, <1>4

\* The mean of the window is what the structure holds.
LEMMA MeanReads ==
  ASSUME NEW T, Priced(T), NEW h \in Seq(T), NEW n \in Nat \ {0}, n <= Len(h), NEW k \in Nat \ {0}, k <= n
  PROVE  S!Sma(S!Closes(Recent(h, n)), k) = MeanOf(S!Closes(h), k).value
  <1> DEFINE y == S!Closes(h)
             x == S!Closes(Recent(h, n))
  <1>1. IsPart(x, y, n) /\ y \in Seq(Int) /\ Len(y) = Len(h) /\ Len(h) \in Nat
    BY ListsOfRecent
  <1> HIDE DEF x, y
  <1>2. S!Sma(x, k) = S!SumOf(Recent(y, k)) \div k
    BY <1>1, SmaOfPart
  <1>3. Len(y) >= k
    BY <1>1
  <1> QED
    BY <1>2, <1>3 DEF MeanOf, x, y

\* The momentum of the window is what the structure holds.
LEMMA MomentumReads ==
  ASSUME NEW T, Priced(T), NEW h \in Seq(T), NEW n \in Nat \ {0}, n <= Len(h), NEW k \in Nat \ {0}, k + 1 <= n
  PROVE  S!Momentum(S!Closes(Recent(h, n)), k) = MomentumOf(S!Closes(h), k).value
  <1> DEFINE y == S!Closes(h)
             x == S!Closes(Recent(h, n))
             l == Len(h)
  <1>1. IsPart(x, y, n) /\ y \in Seq(Int) /\ Len(y) = l /\ l \in Nat /\ n <= l
    BY ListsOfRecent
  <1> HIDE DEF x, y, l
  <1>2. x = Recent(y, n)
    BY <1>1 DEF IsPart
  <1>3. IsFull(x, y, l, n)
    BY <1>1, <1>2, FullRecent
  <1>4. Len(x) = n /\ \A i \in 1 .. n : x[i] = y[l - n + i]
    BY <1>3 DEF IsFull
  <1>5. n \in 1 .. n /\ n - k \in 1 .. n /\ l - n + n = l /\ l - n + (n - k) = l - k
        /\ ~ (n < k + 1) /\ l >= k + 1
    BY <1>1
  <1>6. x[n] = y[l] /\ x[n - k] = y[l - k]
    BY <1>4, <1>5
  <1>7. S!Momentum(x, k) = x[n] - x[n - k]
    BY <1>4, <1>5 DEF S!Momentum
  <1>8. MomentumOf(y, k).value = y[l] - y[l - k]
    BY <1>1, <1>5 DEF MomentumOf
  <1> QED
    BY <1>6, <1>7, <1>8 DEF x, y

\* The ATR of the window is what the structure holds.
LEMMA AtrReads ==
  ASSUME NEW T, Priced(T), NEW h \in Seq(T), NEW n \in Nat \ {0}, n <= Len(h), NEW k \in Nat \ {0}, k + 1 <= n
  PROVE  S!Atr(Recent(h, n), k) = AtrOf(h, k).value
  <1> DEFINE w == Recent(h, n)
             y == Ranges(h)
             x == Ranges(w)
             m == n - 1
  <1>1. IsPart(x, y, m) /\ y \in Seq(Int) /\ Len(y) = Len(h) - 1 /\ Len(h) \in Nat
    BY ListsOfRecent
  <1>2. m \in Nat /\ m <= Len(h) - 1 /\ k <= m /\ Len(h) >= k + 1 /\ ~ (n < k + 1)
    BY <1>1
  <1>3. Len(w) = n
    BY RecentLength
  <1>4. S!Atr(w, k) = S!Sma(x, k)
    BY <1>2, <1>3 DEF S!Atr, Ranges
  <1> HIDE DEF x, y, m, w
  <1>5. S!Sma(x, k) = S!SumOf(Recent(y, k)) \div k
    BY <1>1, <1>2, SmaOfPart
  <1>6. AtrOf(h, k).value = S!SumOf(Recent(y, k)) \div k
    BY <1>2 DEF AtrOf, y
  <1> QED
    BY <1>4, <1>5, <1>6 DEF w

\* The averages behind the RSI of the window are what either structure holds.
LEMMA RsiReads ==
  ASSUME NEW T, Priced(T), NEW h \in Seq(T), NEW n \in Nat \ {0}, n <= Len(h), NEW k \in Nat \ {0}, k + 1 <= n
  PROVE  S!Rsi(S!Closes(Recent(h, n)), k) = AverageOf(S!Closes(h), k)
  <1> DEFINE f == S!Closes(h)
             x == S!Closes(Recent(h, n))
             d == S!Changes(f)
             e == S!Changes(x)
             m == n - 1
             l == Len(h) - 1
             rises == Rises(f)
             falls == Falls(f)
             up == [i \in 1 .. k |-> S!Larger(S!Newest(e, k)[i], 0)]
             down == [i \in 1 .. k |-> S!Larger(-S!Newest(e, k)[i], 0)]
  <1>1. IsPart(x, f, n) /\ f \in Seq(Int) /\ Len(f) = Len(h) /\ Len(h) \in Nat
    BY ListsOfRecent
  <1>2. m \in Nat /\ l \in Nat /\ m <= l /\ k <= m /\ Len(f) >= k + 1 /\ Len(f) # 0 /\ l = Len(f) - 1
    BY <1>1
  <1> HIDE DEF f, x, m, l
  <1>3. x = Recent(f, n) /\ Len(x) = n
    <2>1. Len(Recent(f, n)) = n
      BY <1>1, RecentLength
    <2> QED
      BY <1>1, <2>1 DEF IsPart
  <1>4. IsPart(e, d, m) /\ e \in Seq(Int) /\ Len(e) = m
    BY <1>1, <1>3, ChangesOfRecent DEF m
  <1>5. /\ d \in Seq(Int) /\ rises \in Seq(Int) /\ falls \in Seq(Int)
        /\ Len(d) = l /\ Len(rises) = l /\ Len(falls) = l
        /\ \A i \in 1 .. l : rises[i] = S!Larger(d[i], 0) /\ falls[i] = S!Larger(-d[i], 0)
    BY <1>1, <1>2, ChangesAre
  <1> HIDE DEF d, e, rises, falls
  <1>6. S!Newest(e, k) = Recent(d, k)
    <2>1. S!Newest(e, k) = Recent(e, k)
      BY <1>2, <1>4, NewestIsRecent
    <2>2. Recent(e, k) = Recent(d, k)
      BY <1>2, <1>4, <1>5, RecentOfRecent DEF IsPart
    <2> QED
      BY <2>1, <2>2
  <1> DEFINE q == Recent(d, k)
             qr == Recent(rises, k)
             qf == Recent(falls, k)
  <1>7. k <= l /\ k \in Nat /\ \A i \in 1 .. k : l - k + i \in 1 .. l
    BY <1>2
  <1>8. IsFull(q, d, l, k)
    BY <1>5, <1>7, FullRecent
  <1>9. IsFull(qr, rises, l, k)
    BY <1>5, <1>7, FullRecent
  <1>10. IsFull(qf, falls, l, k)
    BY <1>5, <1>7, FullRecent
  <1>11. qr \in Seq(Int) /\ qf \in Seq(Int)
    BY <1>5, RecentLength
  <1>12. up = [i \in 1 .. k |-> S!Larger(q[i], 0)] /\ down = [i \in 1 .. k |-> S!Larger(-q[i], 0)]
    BY <1>6
  <1> HIDE DEF q, qr, qf, up, down
  <1>13. up = qr
    <2>1. \A i \in 1 .. k : qr[i] = S!Larger(q[i], 0)
      BY <1>5, <1>7, <1>8, <1>9 DEF IsFull
    <2>2. qr = [i \in 1 .. k |-> qr[i]]
      BY <1>9, <1>11 DEF IsFull
    <2> QED
      BY <1>12, <2>1, <2>2
  <1>14. down = qf
    <2>1. \A i \in 1 .. k : qf[i] = S!Larger(-q[i], 0)
      BY <1>5, <1>7, <1>8, <1>10 DEF IsFull
    <2>2. qf = [i \in 1 .. k |-> qf[i]]
      BY <1>10, <1>11 DEF IsFull
    <2> QED
      BY <1>12, <2>1, <2>2
  <1>15. S!Rsi(x, k) = [gain |-> S!SumOf(up) \div k, loss |-> S!SumOf(down) \div k]
    BY <1>3 DEF S!Rsi, up, down, e
  <1>16. AverageOf(f, k) = [gain |-> S!SumOf(qr) \div k, loss |-> S!SumOf(qf) \div k]
    BY <1>1, <1>2 DEF AverageOf, qr, qf, rises, falls
  <1> QED
    BY <1>13, <1>14, <1>15, <1>16 DEF x, f

\* The newest candles but the last: their extremes, and the last but one.
LEMMA PriorRangeReads ==
  ASSUME NEW T, NEW h \in Seq(T), NEW n \in Nat \ {0}, n <= Len(h), NEW k \in Nat \ {0}, k + 1 <= n
  PROVE  /\ S!PriorRange(Recent(h, n), k) = RangeIn(Recent(S!Front(h), k))
         /\ Recent(h, n)[n - 1] = h[Len(h) - 1]
  <1> DEFINE l == Len(h) - 1
             w == Recent(h, n)
             g == S!Front(h)
             q == Recent(g, k)
             prior == {w[i] : i \in n - k .. n - 1}
  <1>1. l \in Nat /\ Len(h) = l + 1 /\ n <= l + 1 /\ k <= l
    OBVIOUS
  <1> HIDE DEF l
  <1>2. Len(w) = n /\ \A i \in 1 .. n : w[i] = h[(l + 1) - n + i]
    <2> DEFINE m == l + 1
    <2>1. m \in Nat /\ Len(h) = m /\ n <= m
      BY <1>1
    <2> HIDE DEF m
    <2>2. IsFull(w, h, m, n)
      BY <2>1, FullRecent
    <2> HIDE DEF w
    <2> QED
      BY <2>2 DEF IsFull, m
  <1>3. g \in Seq(T) /\ Len(g) = l /\ \A i \in 1 .. l : g[i] = h[i]
    BY <1>1, FrontIs
  <1> HIDE DEF g, w
  <1>4. Len(q) = k /\ \A i \in 1 .. k : q[i] = g[l - k + i]
    <2>1. IsFull(q, g, l, k)
      BY <1>1, <1>3, FullRecent
    <2> HIDE DEF q
    <2> QED
      BY <2>1 DEF IsFull
  <1> HIDE DEF q
  <1>5. ASSUME NEW i \in 1 .. k PROVE q[i] = w[n - k - 1 + i] /\ n - k - 1 + i \in n - k .. n - 1
    <2> DEFINE j == n - k - 1 + i
               o == l - k + i
    <2>1. j \in 1 .. n /\ j \in n - k .. n - 1 /\ (l + 1) - n + j = o /\ o \in 1 .. l
      BY <1>1
    <2> HIDE DEF j, o
    <2>2. w[j] = h[o]
      BY <1>2, <2>1
    <2>3. q[i] = g[o]
      BY <1>4 DEF o
    <2>4. g[o] = h[o]
      BY <1>3, <2>1
    <2>5. q[i] = w[j]
      BY <2>2, <2>3, <2>4
    <2> QED
      BY <2>1, <2>5 DEF j
  <1>6. ASSUME NEW j \in n - k .. n - 1 PROVE \E i \in 1 .. k : w[j] = q[i]
    <2> DEFINE i == j - (n - k - 1)
    <2>1. i \in 1 .. k /\ n - k - 1 + i = j
      OBVIOUS
    <2> HIDE DEF i
    <2> QED
      BY <1>5, <2>1
  <1>7. {c.high : c \in prior} = HighsIn(q)
    <2>1. HighsIn(q) = {q[i].high : i \in 1 .. k}
      BY <1>4 DEF HighsIn
    <2>2. {c.high : c \in prior} = {w[j].high : j \in n - k .. n - 1}
      OBVIOUS
    <2> HIDE DEF prior
    <2>3. {w[j].high : j \in n - k .. n - 1} \subseteq HighsIn(q)
      <3>1. ASSUME NEW j \in n - k .. n - 1 PROVE w[j].high \in HighsIn(q)
        BY <1>6, <2>1
      <3> QED
        BY <3>1
    <2>4. HighsIn(q) \subseteq {w[j].high : j \in n - k .. n - 1}
      <3>1. ASSUME NEW i \in 1 .. k PROVE \E j \in n - k .. n - 1 : q[i].high = w[j].high
        BY <1>5
      <3> QED
        BY <2>1, <3>1
    <2> QED
      BY <2>2, <2>3, <2>4
  <1>8. {c.low : c \in prior} = LowsIn(q)
    <2>1. LowsIn(q) = {q[i].low : i \in 1 .. k}
      BY <1>4 DEF LowsIn
    <2>2. {c.low : c \in prior} = {w[j].low : j \in n - k .. n - 1}
      OBVIOUS
    <2> HIDE DEF prior
    <2>3. {w[j].low : j \in n - k .. n - 1} \subseteq LowsIn(q)
      <3>1. ASSUME NEW j \in n - k .. n - 1 PROVE w[j].low \in LowsIn(q)
        BY <1>6, <2>1
      <3> QED
        BY <3>1
    <2>4. LowsIn(q) \subseteq {w[j].low : j \in n - k .. n - 1}
      <3>1. ASSUME NEW i \in 1 .. k PROVE \E j \in n - k .. n - 1 : q[i].low = w[j].low
        BY <1>5
      <3> QED
        BY <2>1, <3>1
    <2> QED
      BY <2>2, <2>3, <2>4
  <1>9. ~ (n < k + 1)
    OBVIOUS
  <1>10. S!PriorRange(w, k) = [high |-> Max({c.high : c \in prior}), low |-> Min({c.low : c \in prior})]
    BY <1>2, <1>9 DEF S!PriorRange, S!Max, S!Min, Max, Min
  <1> HIDE DEF prior
  <1>11. S!PriorRange(w, k) = RangeIn(q)
    BY <1>7, <1>8, <1>10 DEF RangeIn
  <1>12. w[n - 1] = h[Len(h) - 1]
    <2>1. n - 1 \in 1 .. n /\ (l + 1) - n + (n - 1) = Len(h) - 1
      BY <1>1
    <2> QED
      BY <1>2, <2>1
  <1> QED
    BY <1>11, <1>12 DEF w, q, g

\* The volume spike of the window is what the structure holds.
LEMMA SpikeReads ==
  ASSUME NEW T, Priced(T), NEW h \in Seq(T), NEW n \in Nat \ {0}, n <= Len(h), NEW params,
         params.volume_spike_period \in Nat \ {0}, params.volume_spike_period + 1 <= n
  PROVE  S!SpikeIn(Recent(h, n), params)
           = SpikeOf(Volumes(h), params.volume_spike_period, params.volume_spike_multiplier).value
  <1> DEFINE w == Recent(h, n)
             k == params.volume_spike_period
             multiplier == params.volume_spike_multiplier
             y == Volumes(h)
             x == Volumes(w)
             m == n - 1
             l == Len(h) - 1
             baseline == S!SumOf(Recent(S!Front(y), k)) \div k
  <1>1. IsPart(x, y, n) /\ y \in Seq(Int) /\ Len(y) = Len(h) /\ Len(h) \in Nat
    BY ListsOfRecent
  <1>2. m \in Nat /\ l \in Nat /\ m + 1 = n /\ Len(h) = l + 1 /\ m <= l /\ k \in Nat \ {0} /\ k <= m
        /\ Len(y) > k /\ n <= Len(y) /\ m + 1 <= Len(y)
    BY <1>1
  <1>3. x = [i \in DOMAIN w |-> w[i].tick_volume]
    <2>1. w \in Seq(T)
      BY RecentLength
    <2>2. DOMAIN w = 1 .. Len(w)
      BY <2>1
    <2> QED
      BY <2>2 DEF Volumes
  <1>4. S!SpikeIn(w, params) =
          /\ S!Sma(S!Front(x), k) > 0
          /\ 10 * S!Last(x) >= S!Sma(S!Front(x), k) * multiplier
    BY <1>3 DEF S!SpikeIn
  <1> HIDE DEF w, x, y, k, multiplier, m, l
  <1>5. x = Recent(y, n)
    BY <1>1 DEF IsPart
  <1>6. S!Front(x) = Recent(S!Front(y), m)
    BY <1>1, <1>2, <1>5, FrontOfRecent
  <1>7. S!Front(y) \in Seq(Int) /\ Len(S!Front(y)) = l
    BY <1>1, <1>2, FrontIs
  <1>8. S!Sma(S!Front(x), k) = baseline
    <2> DEFINE a == S!Front(x)
               b == S!Front(y)
    <2> HIDE DEF a, b
    <2>1. b \in Seq(Int) /\ m <= Len(b) /\ IsPart(a, b, m)
      BY <1>2, <1>6, <1>7 DEF a, b, IsPart
    <2>2. S!Sma(a, k) = S!SumOf(Recent(b, k)) \div k
      BY <1>2, <2>1, SmaOfPart
    <2> QED
      BY <2>2 DEF a, b
  <1>9. S!Last(x) = y[Len(y)]
    <2> DEFINE o == Len(y)
    <2>1. o \in Nat /\ Len(y) = o /\ n <= o
      BY <1>1, <1>2
    <2> HIDE DEF o
    <2>2. IsFull(x, y, o, n)
      BY <1>1, <1>5, <2>1, FullRecent
    <2>3. Len(x) = n /\ x[n] = y[o - n + n] /\ o - n + n = o
      BY <2>1, <2>2 DEF IsFull
    <2> QED
      BY <2>3 DEF S!Last, o
  <1> HIDE DEF baseline
  <1>10. Spiked(y, k, multiplier) = (baseline > 0 /\ 10 * y[Len(y)] >= baseline * multiplier)
    BY DEF Spiked, baseline
  <1>11. SpikeOf(y, k, multiplier).value = (Len(y) > k /\ Spiked(y, k, multiplier))
    BY DEF SpikeOf
  <1>12. SpikeOf(y, k, multiplier).value = (baseline > 0 /\ 10 * y[Len(y)] >= baseline * multiplier)
    BY <1>2, <1>10, <1>11
  <1>13. S!SpikeIn(w, params) = (baseline > 0 /\ 10 * y[Len(y)] >= baseline * multiplier)
    BY <1>4, <1>8, <1>9
  <1>14. S!SpikeIn(w, params) = SpikeOf(y, k, multiplier).value
    BY <1>12, <1>13
  <1> QED
    BY <1>14 DEF w, y, k, multiplier

\* The squares of the newest values.
LEMMA SquaresOfRecent ==
  ASSUME NEW f \in Seq(Int), NEW k \in Nat, k <= Len(f)
  PROVE  Squares(Recent(f, k)) = Recent(Squares(f), k)
  <1> DEFINE l == Len(f)
             r == Recent(f, k)
             x == Squares(r)
             y == Squares(f)
  <1>1. l \in Nat /\ Len(f) = l /\ k <= l /\ \A i \in 1 .. k : l - k + i \in 1 .. l
    OBVIOUS
  <1> HIDE DEF l
  <1>2. r \in Seq(Int) /\ Len(r) = k /\ \A i \in 1 .. k : r[i] = f[l - k + i]
    <2>1. r \in Seq(Int) /\ IsFull(r, f, l, k)
      BY <1>1, FullRecent
    <2> HIDE DEF r
    <2> QED
      BY <2>1 DEF IsFull
  <1>3. y \in Seq(Int) /\ Len(y) = l /\ \A i \in 1 .. l : y[i] = f[i] * f[i]
    <2>1. 0 \in Int
      OBVIOUS
    <2> QED
      BY <1>1, <2>1, SquaresFollow
  <1> HIDE DEF r
  <1>4. x = [i \in 1 .. k |-> r[i] * r[i]]
    BY <1>2 DEF Squares
  <1> HIDE DEF x, y
  <1>5. \A i \in 1 .. k : x[i] = y[l - k + i]
    BY <1>1, <1>2, <1>3, <1>4
  <1>6. x = [i \in 1 .. k |-> x[i]]
    BY <1>4
  <1>7. IsPart(x, y, k)
    BY <1>1, <1>3, <1>5, <1>6, PartIs
  <1> QED
    BY <1>7 DEF IsPart, x, y, r

Multiples(f, k) == \A i \in 1 .. Len(f) : Multiple(f[i], k)

\* Where the period divides the values, the bands from the running sums are those from the
\* distances to the mean.
LEMMA BandsAreExact ==
  ASSUME NEW f \in Seq(Int), NEW k \in Nat \ {0}, k <= Len(f), Multiples(f, k)
  PROVE  S!BollingerBands(f, k) = BandsValue(f, k)
  <1> DEFINE r == Recent(f, k)
             m == S!SumOf(r) \div k
             ss == S!SumOf(Squares(r))
             l == Len(f)
             bands == S!BollingerBands(f, k)
  <1>1. l \in Nat /\ Len(f) = l /\ k <= l /\ ~ (l < k) /\ \A i \in 1 .. k : l - k + i \in 1 .. l
    OBVIOUS
  <1> HIDE DEF l
  <1>2. r \in Seq(Int) /\ Len(r) = k /\ \A i \in 1 .. k : r[i] = f[l - k + i]
    <2>1. r \in Seq(Int) /\ IsFull(r, f, l, k)
      BY <1>1, FullRecent
    <2> HIDE DEF r
    <2> QED
      BY <2>1 DEF IsFull
  <1>3. S!Newest(f, k) = r
    BY NewestIsRecent
  <1>4. S!Sma(f, k) = m
    BY SmaIsMean
  <1>5. Squares(r) = Recent(Squares(f), k)
    BY SquaresOfRecent
  <1>6. MiddleOf(f, k) = m
    BY DEF MiddleOf
  <1> HIDE DEF r
  <1>7. S!SumOf(r) = k * m /\ m \in Int
    <2>1. \A i \in 1 .. Len(r) : Multiple(r[i], k)
      BY <1>1, <1>2 DEF Multiples
    <2>2. Multiple(S!SumOf(r), k)
      BY <1>2, <2>1, MultiplesAddUp
    <2>3. PICK y \in Int : S!SumOf(r) = k * y
      BY <2>2 DEF Multiple
    <2>4. (k * y) \div k = y
      BY DivisionTakesOff
    <2> QED
      BY <2>3, <2>4
  <1>8. ss \in Int
    <2>1. Squares(r) \in Seq(Int)
      <3>1. 0 \in Int
        OBVIOUS
      <3> QED
        BY <1>2, <3>1, SquaresFollow
    <2> QED
      BY <2>1, SumAppended
  <1>9. bands = [middle |-> m, variance |-> S!SumOf(SquaredDistances(r, m)) \div k]
    <2>1. m # None
      BY <1>7, NoReadingAssumption
    <2>2. SquaredDistances(r, m) = [i \in 1 .. k |-> (r[i] - m) * (r[i] - m)]
      BY <1>2 DEF SquaredDistances
    <2> HIDE DEF m
    <2> QED
      BY <1>3, <1>4, <2>1, <2>2 DEF S!BollingerBands
  <1> HIDE DEF m, bands
  <1>10. S!SumOf(SquaredDistances(r, m)) = ss - k * (m * m) /\ S!SumOf(SquaredDistances(r, m)) >= 0
    <2>1. SumsOf(r, m)
      BY <1>2, <1>7, SumOfDistances
    <2>2. S!SumOf(SquaredDistances(r, m)) = ss - 2 * (m * (k * m)) + k * (m * m)
          /\ S!SumOf(SquaredDistances(r, m)) >= 0
      BY <1>2, <1>7, <2>1 DEF SumsOf
    <2> HIDE DEF ss
    <2>3. ss - 2 * (m * (k * m)) + k * (m * m) = ss - k * (m * m)
      BY <1>7, <1>8
    <2> QED
      BY <2>2, <2>3
  <1> HIDE DEF ss
  <1> DEFINE z == m * m
             v == (ss - k * z) \div k
  <1>11. z \in Int
    BY <1>7
  <1>12. ss - k * z \in Int /\ ss - k * z >= 0
    BY <1>7, <1>8, <1>10
  <1> HIDE DEF z
  <1>13. v = (ss \div k) - z
    BY <1>8, <1>11, DivisionTakesOff
  <1>14. v \in Int /\ v >= 0
    BY <1>12, DivisionTakesOff
  <1>15. S!Larger(0, (ss \div k) - z) = v
    <2> HIDE DEF v
    <2>1. S!Larger(0, v) = v
      BY <1>14 DEF S!Larger
    <2> QED
      BY <1>13, <2>1
  <1>16. VarianceOf(f, k) = v
    BY <1>5, <1>6, <1>15 DEF VarianceOf, ss, z
  <1>17. bands.variance = v /\ bands = [middle |-> m, variance |-> v]
    BY <1>9, <1>10 DEF z
  <1>18. BandsValue(f, k) = [middle |-> m, variance |-> v]
    BY <1>1, <1>6, <1>16 DEF BandsValue
  <1> QED
    BY <1>17, <1>18 DEF bands

\* The bands of the newest values, out of more of the newest.
LEMMA BandsOfPart ==
  ASSUME NEW y \in Seq(Int), NEW n \in Nat, n <= Len(y), NEW x, IsPart(x, y, n),
         NEW k \in Nat \ {0}, k <= n, Multiples(y, k)
  PROVE  /\ S!BollingerBands(x, k) = BandsValue(y, k)
         /\ VarianceOf(x, k) = VarianceOf(y, k)
  <1> DEFINE l == Len(y)
  <1>1. l \in Nat /\ Len(y) = l /\ n <= l /\ k <= l /\ \A i \in 1 .. n : l - n + i \in 1 .. l
    OBVIOUS
  <1> HIDE DEF l
  <1>2. x = Recent(y, n)
    BY DEF IsPart
  <1>3. x \in Seq(Int) /\ Len(x) = n /\ \A i \in 1 .. n : x[i] = y[l - n + i]
    <2>1. x \in Seq(Int) /\ IsFull(x, y, l, n)
      BY <1>1, <1>2, FullRecent
    <2> QED
      BY <2>1 DEF IsFull
  <1>4. Multiples(x, k)
    BY <1>1, <1>3 DEF Multiples
  <1>5. S!BollingerBands(x, k) = BandsValue(x, k)
    BY <1>3, <1>4, BandsAreExact
  <1>6. Recent(x, k) = Recent(y, k)
    BY <1>2, RecentOfRecent
  <1>7. Recent(Squares(x), k) = Recent(Squares(y), k)
    <2>1. Squares(Recent(x, k)) = Recent(Squares(x), k)
      BY <1>3, SquaresOfRecent
    <2>2. Squares(Recent(y, k)) = Recent(Squares(y), k)
      BY <1>1, SquaresOfRecent
    <2> QED
      BY <1>6, <2>1, <2>2
  <1>8. MiddleOf(x, k) = MiddleOf(y, k)
    BY <1>6 DEF MiddleOf
  <1>9. VarianceOf(x, k) = VarianceOf(y, k)
    BY <1>7, <1>8 DEF VarianceOf
  <1>10. ~ (Len(x) < k) /\ ~ (Len(y) < k)
    BY <1>1, <1>3
  <1>11. BandsValue(x, k) = BandsValue(y, k)
    BY <1>8, <1>9, <1>10 DEF BandsValue
  <1> QED
    BY <1>5, <1>9, <1>11

\* The closes are multiples of the period of the bands.
Divided(T, k) == \A c \in T : Multiple(c.close, k)

\* The closes of candles whose closes are multiples.
LEMMA ClosesDivided ==
  ASSUME NEW T, Priced(T), NEW k, Divided(T, k), NEW h \in Seq(T), NEW n \in Nat, Len(h) = n
  PROVE  Multiples(S!Closes(h), k) /\ Len(S!Closes(h)) = n /\ S!Closes(h) \in Seq(Int)
         /\ \A i \in 1 .. n : S!Closes(h)[i] = h[i].close
  <1>1. \A i \in 1 .. n : h[i] \in T
    OBVIOUS
  <1>2. S!Closes(h) = [i \in 1 .. n |-> h[i].close]
    <2>1. DOMAIN h = 1 .. n
      OBVIOUS
    <2> QED
      BY <2>1 DEF S!Closes
  <1>3. Listed(S!Closes(h), n, Int)
    BY <1>1, <1>2 DEF Listed, Priced
  <1>4. S!Closes(h) \in Seq(Int) /\ Len(S!Closes(h)) = n
    BY <1>3, ListedIs
  <1> QED
    BY <1>1, <1>2, <1>4 DEF Multiples, Divided

\* A slice from the first entry on.
LEMMA Leading ==
  ASSUME NEW T, NEW s \in Seq(T), NEW j \in Nat, j <= Len(s)
  PROVE  SubSeq(s, 1, j) \in Seq(T) /\ Len(SubSeq(s, 1, j)) = j /\ \A i \in 1 .. j : SubSeq(s, 1, j)[i] = s[i]
  <1> DEFINE one == 1
  <1>1. one \in Nat \ {0} /\ one <= j + 1 /\ j - one + 1 = j /\ \A i \in 1 .. j : one + i - 1 = i
    OBVIOUS
  <1> HIDE DEF one
  <1>2. SubSeq(s, one, j) \in Seq(T) /\ Len(SubSeq(s, one, j)) = j - one + 1
        /\ \A i \in 1 .. j - one + 1 : SubSeq(s, one, j)[i] = s[one + i - 1]
    BY <1>1, Slice
  <1>3. SubSeq(s, one, j) \in Seq(T) /\ Len(SubSeq(s, one, j)) = j
        /\ \A i \in 1 .. j : SubSeq(s, one, j)[i] = s[i]
    BY <1>1, <1>2
  <1> QED
    BY <1>3 DEF one

\* The bands of the window, and those one candle earlier, are what the structure holds.
LEMMA BandsReads ==
  ASSUME NEW T, Priced(T), NEW h \in Seq(T), NEW n \in Nat \ {0}, n <= Len(h),
         NEW k \in Nat \ {0}, Divided(T, k)
  PROVE  /\ k <= n => S!BollingerBands(S!Closes(Recent(h, n)), k) = BandsValue(S!Closes(h), k)
         /\ k + 1 <= n =>
              S!BollingerBands(S!Front(S!Closes(Recent(h, n))), k) = BandsValue(S!Front(S!Closes(h)), k)
  <1> DEFINE y == S!Closes(h)
             x == S!Closes(Recent(h, n))
             m == n - 1
             l == Len(h) - 1
             f == S!Front(y)
  <1>1. IsPart(x, y, n) /\ Len(h) \in Nat
    BY ListsOfRecent
  <1>2. Multiples(y, k) /\ y \in Seq(Int) /\ Len(y) = Len(h)
    BY <1>1, ClosesDivided
  <1>3. m \in Nat /\ l \in Nat /\ m + 1 = n /\ Len(h) = l + 1 /\ m <= l /\ m + 1 <= Len(h)
    BY <1>1
  <1> HIDE DEF x, y, m, l
  <1>4. ASSUME k <= n PROVE S!BollingerBands(x, k) = BandsValue(y, k)
    BY <1>1, <1>2, <1>4, BandsOfPart
  <1>5. ASSUME k + 1 <= n PROVE S!BollingerBands(S!Front(x), k) = BandsValue(f, k)
    <2>1. S!Front(x) = Recent(f, m)
      BY <1>1, <1>2, <1>3, FrontOfRecent DEF IsPart
    <2>2. f \in Seq(Int) /\ Len(f) = l /\ \A i \in 1 .. l : f[i] = y[i]
      BY <1>2, <1>3, FrontIs
    <2> HIDE DEF f
    <2>3. Multiples(f, k)
      BY <1>2, <1>3, <2>2 DEF Multiples
    <2>4. IsPart(S!Front(x), f, m) /\ k <= m /\ m <= Len(f)
      BY <1>3, <1>5, <2>1, <2>2 DEF IsPart
    <2> QED
      BY <1>3, <2>2, <2>3, <2>4, BandsOfPart
  <1> QED
    BY <1>4, <1>5 DEF x, y, f

\* The widths of the window are what the structure holds.
LEMMA WidthsReads ==
  ASSUME NEW T, Priced(T), NEW h \in Seq(T), NEW n \in Nat \ {0}, n <= Len(h), NEW params,
         params.bollinger_period \in Nat \ {0}, Divided(T, params.bollinger_period),
         params.squeeze_lookback \in Nat \ {0},
         params.bollinger_period + params.squeeze_lookback <= n
  PROVE  S!WidthsIn(Recent(h, n), params)
           = Recent(Variances(S!Front(S!Closes(h)), params.bollinger_period), params.squeeze_lookback)
  <1> DEFINE k == params.bollinger_period
             l == params.squeeze_lookback
             o == Len(h)
             w == Recent(h, n)
             y == S!Closes(h)
             f == S!Front(y)
             v == Variances(f, k)
             r == Recent(v, l)
             widths == S!WidthsIn(w, params)
             e == o - 1
             d == o - k
  <1>1. o \in Nat /\ Len(h) = o /\ n <= o /\ k \in Nat \ {0} /\ l \in Nat \ {0} /\ k + l <= n /\ Divided(T, k)
        /\ e \in Nat /\ o = e + 1 /\ d \in Nat /\ l <= d
    OBVIOUS
  <1>2. Len(w) = n
    BY RecentLength
  <1>3. widths = [i \in 1 .. l |-> S!BollingerBands(S!Closes(SubSeq(w, 1, n - l + i - 1)), k).variance]
    BY <1>2 DEF S!WidthsIn
  <1> HIDE DEF k, l, o, widths
  <1>4. y \in Seq(Int) /\ Len(y) = o /\ \A i \in 1 .. o : y[i] = h[i].close
    BY <1>1, ClosesDivided
  <1> HIDE DEF y
  <1>5. f \in Seq(Int) /\ Len(f) = e /\ \A i \in 1 .. e : f[i] = y[i]
    <2>1. y \in Seq(Int) /\ e \in Nat /\ Len(y) = e + 1
      BY <1>1, <1>4
    <2> HIDE DEF e, d
    <2> QED
      BY <2>1, FrontIs
  <1> HIDE DEF f
  <1>6. v \in Seq(Int) /\ Len(v) = d /\ \A j \in 1 .. d : v[j] = VarianceOf(SubSeq(f, 1, k + j - 1), k)
    <2>1. Len(f) >= k /\ Len(f) - k + 1 = d /\ S!Larger(0, Len(f) - k + 1) = d
      <3>1. Len(f) >= k /\ Len(f) - k + 1 = d /\ d \in Nat
        BY <1>1, <1>5
      <3> HIDE DEF d
      <3> QED
        BY <3>1 DEF S!Larger
    <2>2. v \in Seq(Int) /\ Listed(v, Len(f) - k + 1, Int)
      BY <1>1, <1>5, <2>1, VariancesAre
    <2>3. v = [j \in 1 .. d |-> VarianceOf(SubSeq(f, 1, k + j - 1), k)]
      <3> HIDE DEF d
      <3> QED
        BY <2>1 DEF Variances
    <2> HIDE DEF v, d
    <2>4. Len(v) = d
      BY <1>1, <2>1, <2>2, ListedIs
    <2> QED
      BY <2>2, <2>3, <2>4
  <1> HIDE DEF v
  <1>7. r \in Seq(Int) /\ Len(r) = l /\ \A i \in 1 .. l : r[i] = v[d - l + i]
    <2> HIDE DEF d
    <2>1. r \in Seq(Int) /\ IsFull(r, v, d, l)
      BY <1>1, <1>6, FullRecent
    <2> HIDE DEF r
    <2> QED
      BY <2>1 DEF IsFull
  <1> HIDE DEF r
  <1>8. ASSUME NEW i \in 1 .. l PROVE widths[i] = r[i]
    <2> DEFINE j == n - l + i - 1
               z == o - l + i - 1
               g == SubSeq(h, 1, z)
               q == SubSeq(w, 1, j)
               x == S!Closes(g)
               a == d - l + i
    <2>1. j \in Nat /\ z \in Nat /\ j <= n /\ z <= e /\ z <= o /\ j <= z /\ k <= j /\ j # 0 /\ z - j = o - n
          /\ a \in 1 .. d /\ k + a - 1 = z /\ \A c \in 1 .. z : c \in 1 .. o /\ c \in 1 .. e
      BY <1>1
    <2> HIDE DEF d, e, j, z
    <2>2. widths[i] = S!BollingerBands(S!Closes(q), k).variance
      BY <1>3 DEF j
    <2>3. r[i] = VarianceOf(SubSeq(f, 1, z), k)
      <3> HIDE DEF a
      <3>1. r[i] = v[a]
        BY <1>7 DEF a
      <3> QED
        BY <1>6, <2>1, <3>1
    <2>4. g \in Seq(T) /\ Len(g) = z /\ \A c \in 1 .. z : g[c] = h[c]
      BY <1>1, <2>1, Leading
    <2> HIDE DEF g
    <2>5. q = Recent(g, j)
      <3>1. w \in Seq(T) /\ IsFull(w, h, o, n)
        BY <1>1, FullRecent
      <3> HIDE DEF w
      <3>2. q \in Seq(T) /\ Len(q) = j /\ \A c \in 1 .. j : q[c] = w[c]
        BY <1>2, <2>1, <3>1, Leading
      <3> DEFINE p2 == Recent(g, j)
      <3>3. p2 \in Seq(T) /\ IsFull(p2, g, z, j)
        BY <2>1, <2>4, FullRecent
      <3> HIDE DEF q, p2
      <3>4. ASSUME NEW c \in 1 .. j PROVE q[c] = p2[c]
        <4> DEFINE b == z - j + c
        <4>1. c \in 1 .. n /\ o - n + c = b /\ b \in 1 .. z
          BY <1>1, <2>1
        <4>2. p2[c] = g[b]
          BY <3>3 DEF IsFull
        <4> HIDE DEF b
        <4>3. w[c] = h[b]
          BY <3>1, <4>1 DEF IsFull
        <4> QED
          BY <2>4, <3>2, <4>1, <4>2, <4>3
      <3>5. Len(p2) = j
        BY <3>3 DEF IsFull
      <3>6. q = p2
        BY <3>2, <3>3, <3>4, <3>5, SameEntries
      <3> QED
        BY <3>6 DEF p2
    <2> HIDE DEF q
    <2>6. Multiples(x, k) /\ Len(x) = z /\ x \in Seq(Int) /\ \A c \in 1 .. z : x[c] = g[c].close
      BY <1>1, <2>1, <2>4, ClosesDivided
    <2>7. IsPart(S!Closes(q), x, j)
      BY <2>1, <2>4, <2>5, ListsOfRecent
    <2> HIDE DEF x
    <2>8. S!BollingerBands(S!Closes(q), k) = BandsValue(x, k)
      BY <1>1, <2>1, <2>6, <2>7, BandsOfPart
    <2>9. BandsValue(x, k).variance = VarianceOf(x, k)
      <3>1. Len(x) >= k /\ x \in Seq(Int) /\ k \in Nat \ {0}
        BY <1>1, <2>1, <2>6
      <3>2. Len(x) >= k => BandsValue(x, k).variance = VarianceOf(x, k)
        BY <3>1, VarianceIs
      <3> QED
        BY <3>1, <3>2
    <2>10. SubSeq(f, 1, z) = x
      <3> DEFINE s == SubSeq(f, 1, z)
      <3>1. s \in Seq(Int) /\ Len(s) = z /\ \A c \in 1 .. z : s[c] = f[c]
        BY <1>5, <2>1, Leading
      <3> HIDE DEF s
      <3>2. ASSUME NEW c \in 1 .. z PROVE s[c] = x[c]
        <4>1. c \in 1 .. o /\ c \in 1 .. e
          BY <2>1
        <4>2. s[c] = h[c].close
          BY <1>4, <1>5, <3>1, <4>1
        <4> QED
          BY <2>4, <2>6, <4>2
      <3>3. Len(s) = Len(x) /\ x \in Seq(Int) /\ \A c \in 1 .. Len(s) : s[c] = x[c]
        BY <2>6, <3>1, <3>2
      <3>4. s = x
        BY <3>1, <3>3, SameEntries
      <3> QED
        BY <3>4 DEF s
    <2> QED
      BY <2>2, <2>3, <2>8, <2>9, <2>10
  <1>9. widths = [i \in 1 .. l |-> widths[i]]
    BY <1>3
  <1>10. r = [i \in 1 .. l |-> r[i]]
    BY <1>7
  <1>11. widths = r
    BY <1>8, <1>9, <1>10
  <1> QED
    BY <1>11 DEF widths, r, v, f, y, w, k, l

\* What the reference reads of the stochastic, from the candles of a window.
LEMMA StochasticOfWindow ==
  ASSUME NEW T, Priced(T), Ranged(T), NEW w \in Seq(T), NEW k \in Nat \ {0}, NEW smooth_k \in Nat \ {0},
         NEW smooth_d \in Nat \ {0}
  PROVE  S!StochasticKD(w, k, smooth_k, smooth_d)
           = [k |-> Ks(T, w, k, smooth_k), d |-> Sliding(Ks(T, w, k, smooth_k), smooth_d, MeanIn(smooth_d))]
  <1> DEFINE n == S!Larger(0, Len(w) - k + 1)
             span(i) == {w[j] : j \in (k + i - 1) - k + 1 .. k + i - 1}
             raw == [i \in 1 .. n |-> S!RawStochastic(w[k + i - 1].close, Min({c.low : c \in span(i)}),
                                                      Max({c.high : c \in span(i)}))]
  <1>1. n \in Nat /\ \A i \in 1 .. n : i \in Nat \ {0} /\ k + i - 1 \in Nat /\ k + i - 1 <= Len(w)
    <2>1. Len(w) \in Nat
      OBVIOUS
    <2> QED
      BY <2>1 DEF S!Larger
  <1>2. ASSUME NEW i \in 1 .. n
        PROVE  raw[i] = RawIn(T)[SubSeq(w, i, k + i - 1)]
    <2> DEFINE b == k + i - 1
               q == SubSeq(w, i, b)
               sp == {w[j] : j \in b - k + 1 .. b}
    <2>1. b \in Nat /\ b <= Len(w) /\ i \in Nat \ {0} /\ i <= b + 1 /\ b - i + 1 = k /\ b - k + 1 = i
          /\ k \in 1 .. k /\ i + k - 1 = b
      BY <1>1
    <2>2. raw[i] = S!RawStochastic(w[b].close, Min({c.low : c \in sp}), Max({c.high : c \in sp}))
      OBVIOUS
    <2> HIDE DEF b, raw
    <2>3. q \in Seq(T) /\ Len(q) = k /\ \A j \in 1 .. k : q[j] = w[i + j - 1]
      <3>1. q \in Seq(T) /\ Len(q) = b - i + 1 /\ \A j \in 1 .. b - i + 1 : q[j] = w[i + j - 1]
        BY <2>1, Slice
      <3> HIDE DEF q
      <3> QED
        BY <2>1, <3>1
    <2> HIDE DEF q
    <2>4. sp = {w[j] : j \in i .. b}
      BY <2>1
    <2>5. \A j \in 1 .. k : i + j - 1 \in i .. b
      BY <2>1
    <2>6. ASSUME NEW j \in i .. b PROVE \E l \in 1 .. k : w[j] = q[l]
      <3>1. j - i + 1 \in 1 .. k /\ i + (j - i + 1) - 1 = j
        BY <2>1
      <3> QED
        BY <2>3, <3>1
    <2>7. sp = {q[l] : l \in 1 .. k}
      <3>1. sp \subseteq {q[l] : l \in 1 .. k}
        BY <2>4, <2>6
      <3>2. {q[l] : l \in 1 .. k} \subseteq sp
        BY <2>3, <2>4, <2>5
      <3> QED
        BY <3>1, <3>2
    <2> HIDE DEF sp
    <2>8. {c.low : c \in sp} = LowsIn(q) /\ {c.high : c \in sp} = HighsIn(q)
      <3>1. {c.low : c \in sp} = {q[l].low : l \in 1 .. k} /\ {c.high : c \in sp} = {q[l].high : l \in 1 .. k}
        BY <2>7
      <3> QED
        BY <2>3, <3>1 DEF LowsIn, HighsIn
    <2>9. q[k] = w[b]
      BY <2>1, <2>3
    <2>10. raw[i] = Raw(q)
      BY <2>2, <2>3, <2>8, <2>9 DEF Raw
    <2>11. raw[i] = RawIn(T)[q]
      BY <2>3, <2>10, RawIsRead
    <2> QED
      BY <2>11 DEF q, b
  <1>3. Raws(T, w, k) = [i \in 1 .. n |-> RawIn(T)[SubSeq(w, i, k + i - 1)]]
    BY DEF Raws, Sliding
  <1>4. raw = [i \in 1 .. n |-> raw[i]]
    OBVIOUS
  <1>5. S!StochasticKD(w, k, smooth_k, smooth_d)
          = [k |-> S!Smas(raw, smooth_k), d |-> S!Smas(S!Smas(raw, smooth_k), smooth_d)]
    BY DEF S!StochasticKD, S!Max, S!Min, Max, Min
  <1> HIDE DEF n, raw
  <1>6. raw = Raws(T, w, k)
    BY <1>2, <1>3, <1>4
  <1>7. raw \in Seq(Int)
    <2>1. IsSliding(Raws(T, w, k), w, k, RawIn(T), Int)
      BY RawIsRead, SlidingIs DEF Raws
    <2> QED
      BY <1>6, <2>1 DEF IsSliding
  <1>8. S!Smas(raw, smooth_k) = Ks(T, w, k, smooth_k)
    BY <1>6, <1>7, SmasSlide DEF Ks
  <1> DEFINE ks == Ks(T, w, k, smooth_k)
  <1>9. ks \in Seq(Int)
    <2>1. IsSliding(Sliding(raw, smooth_k, MeanIn(smooth_k)), raw, smooth_k, MeanIn(smooth_k), Int)
      BY <1>7, MeanIsRead, SlidingIs
    <2>2. ks = Sliding(raw, smooth_k, MeanIn(smooth_k))
      BY <1>6 DEF Ks
    <2> HIDE DEF ks
    <2> QED
      BY <2>1, <2>2 DEF IsSliding
  <1> HIDE DEF ks
  <1>10. S!Smas(ks, smooth_d) = Sliding(ks, smooth_d, MeanIn(smooth_d))
    BY <1>9, SmasSlide
  <1> QED
    BY <1>5, <1>8, <1>10 DEF ks

\* The newest entry of a series of means.
IsMean(s, f, k) == Len(s) = Len(f) - k + 1 /\ Len(s) \in Nat \ {0} /\ s[Len(s)] = MeanOf(f, k).value /\ s \in Seq(Int)

\* The newest of the means is the mean of the newest values.
LEMMA LastMean ==
  ASSUME NEW f \in Seq(Int), NEW k \in Nat \ {0}, k <= Len(f)
  PROVE  IsMean(Sliding(f, k, MeanIn(k)), f, k)
  <1> DEFINE s == Sliding(f, k, MeanIn(k))
             n == Len(f) - k + 1
             q == Recent(f, k)
  <1>1. n \in Nat \ {0} /\ Len(f) \in Nat /\ n \in 1 .. n /\ k + n - 1 = Len(f) /\ Len(f) >= k
    OBVIOUS
  <1>2. IsSliding(s, f, k, MeanIn(k), Int)
    BY MeanIsRead, SlidingIs
  <1> HIDE DEF s
  <1>3. q = SubSeq(f, n, Len(f))
    BY RecentIsSlice
  <1>4. q \in Seq(Int)
    BY RecentLength
  <1> HIDE DEF q
  <1>5. s \in Seq(Int) /\ Len(s) = n /\ s[n] = MeanIn(k)[SubSeq(f, n, k + n - 1)]
    BY <1>1, <1>2 DEF IsSliding
  <1>6. s[n] = S!SumOf(q) \div k
    BY <1>1, <1>3, <1>4, <1>5, MeanIsRead
  <1>7. MeanOf(f, k).value = S!SumOf(q) \div k
    BY <1>1 DEF MeanOf, q
  <1> HIDE DEF n
  <1>8. IsMean(s, f, k)
    BY <1>1, <1>5, <1>6, <1>7 DEF IsMean, n
  <1> QED
    BY <1>8 DEF s

Ds(T, h, k, smooth_k, smooth_d) == Sliding(Ks(T, h, k, smooth_k), smooth_d, MeanIn(smooth_d))

\* The newest %K and %D of candles h.
LEMMA NewestKD ==
  ASSUME NEW T, Priced(T), Ranged(T), NEW h \in Seq(T), NEW k \in Nat \ {0}, NEW smooth_k \in Nat \ {0},
         NEW smooth_d \in Nat \ {0}, k + smooth_k + smooth_d - 2 <= Len(h)
  PROVE  /\ IsSliding(Raws(T, h, k), h, k, RawIn(T), Int) /\ Raws(T, h, k) \in Seq(Int)
         /\ Len(Raws(T, h, k)) = Len(h) - k + 1
         /\ IsMean(Ks(T, h, k, smooth_k), Raws(T, h, k), smooth_k)
         /\ IsMean(Ds(T, h, k, smooth_k, smooth_d), Ks(T, h, k, smooth_k), smooth_d)
         /\ KD(T, h, k, smooth_k, smooth_d) =
              [k |-> Ks(T, h, k, smooth_k)[Len(Ks(T, h, k, smooth_k))],
               d |-> Ds(T, h, k, smooth_k, smooth_d)[Len(Ds(T, h, k, smooth_k, smooth_d))]]
  <1> DEFINE x == Raws(T, h, k)
             z == Ks(T, h, k, smooth_k)
             y == Ds(T, h, k, smooth_k, smooth_d)
             l == Len(h) - k + 1
             m == l - smooth_k + 1
  <1>1. Len(h) \in Nat /\ Len(h) >= k /\ l \in Nat /\ smooth_k <= l /\ m \in Nat /\ smooth_d <= m
    OBVIOUS
  <1>2. IsSliding(x, h, k, RawIn(T), Int)
    BY RawIsRead, SlidingIs DEF Raws
  <1>3. z = Sliding(x, smooth_k, MeanIn(smooth_k)) /\ y = Sliding(z, smooth_d, MeanIn(smooth_d))
    BY DEF Ks, Ds
  <1> HIDE DEF x, y, z
  <1>4. x \in Seq(Int) /\ Len(x) = l
    BY <1>1, <1>2 DEF IsSliding
  <1> HIDE DEF l
  <1>5. IsMean(z, x, smooth_k)
    BY <1>1, <1>3, <1>4, LastMean
  <1>6. z \in Seq(Int) /\ Len(z) = m
    BY <1>4, <1>5 DEF IsMean
  <1> HIDE DEF m
  <1>7. IsMean(y, z, smooth_d)
    BY <1>1, <1>3, <1>6, LastMean
  <1>8. z[Len(z)] = MeanOf(x, smooth_k).value /\ y[Len(y)] = MeanOf(z, smooth_d).value
    BY <1>5, <1>7 DEF IsMean
  <1>9. KD(T, h, k, smooth_k, smooth_d) = [k |-> z[Len(z)], d |-> y[Len(y)]]
    BY <1>8 DEF KD, x, z
  <1>10. IsSliding(Raws(T, h, k), h, k, RawIn(T), Int) /\ Raws(T, h, k) \in Seq(Int)
         /\ Len(Raws(T, h, k)) = Len(h) - k + 1
    BY <1>2, <1>4 DEF x, l
  <1>11. IsMean(Ks(T, h, k, smooth_k), Raws(T, h, k), smooth_k)
    BY <1>5 DEF x, z
  <1>12. IsMean(Ds(T, h, k, smooth_k, smooth_d), Ks(T, h, k, smooth_k), smooth_d)
    BY <1>7 DEF y, z
  <1>13. KD(T, h, k, smooth_k, smooth_d) =
           [k |-> Ks(T, h, k, smooth_k)[Len(Ks(T, h, k, smooth_k))],
            d |-> Ds(T, h, k, smooth_k, smooth_d)[Len(Ds(T, h, k, smooth_k, smooth_d))]]
    BY <1>9 DEF y, z
  <1> QED
    BY <1>10, <1>11, <1>12, <1>13

\* A sequence that is not empty, as all but its last entry and that.
LEMMA LastSplit ==
  ASSUME NEW T, NEW h \in Seq(T), Len(h) # 0
  PROVE  /\ S!Front(h) \in Seq(T) /\ h[Len(h)] \in T /\ Len(S!Front(h)) = Len(h) - 1
         /\ h = Append(S!Front(h), h[Len(h)])
  <1> DEFINE n == Len(h) - 1
             g == S!Front(h)
             c == h[Len(h)]
             a == Append(g, c)
  <1>1. n \in Nat /\ Len(h) = n + 1 /\ n + 1 \in 1 .. n + 1 /\ c = h[n + 1] /\ c \in T
        /\ \A i \in 1 .. n + 1 : i \in 1 .. n \/ i = n + 1
    OBVIOUS
  <1> HIDE DEF n, c
  <1>2. g \in Seq(T) /\ Len(g) = n /\ \A i \in 1 .. n : g[i] = h[i]
    BY <1>1, FrontIs
  <1> HIDE DEF g
  <1>3. a \in Seq(T) /\ Len(a) = n + 1 /\ a[n + 1] = c
    BY <1>1, <1>2
  <1>4. \A i \in 1 .. n : a[i] = g[i]
    BY <1>1, <1>2
  <1> HIDE DEF a
  <1>5. \A i \in 1 .. n + 1 : h[i] = a[i]
    BY <1>1, <1>2, <1>3, <1>4
  <1>6. h = a
    <2>1. Len(h) = n + 1 /\ Len(h) = Len(a) /\ a \in Seq(T)
      BY <1>1, <1>3
    <2> QED
      BY <1>5, <2>1, SameEntries
  <1>7. S!Front(h) \in Seq(T) /\ Len(S!Front(h)) = n
    BY <1>2 DEF g
  <1>8. h[Len(h)] \in T /\ n = Len(h) - 1
    BY <1>1 DEF c, n
  <1>9. h = Append(S!Front(h), h[Len(h)])
    BY <1>6 DEF a, g, c
  <1> QED
    BY <1>7, <1>8, <1>9

\* The raw %K values when one more candle arrives.
LEMMA RawsFollow ==
  ASSUME NEW T, Priced(T), Ranged(T), NEW h \in Seq(T), NEW c \in T, NEW k \in Nat \ {0}
  PROVE  Raws(T, Append(h, c), k) =
           IF Len(h) + 1 < k THEN Raws(T, h, k)
           ELSE Append(Raws(T, h, k), RawIn(T)[Recent(Append(h, c), k)])
  <1> DEFINE V == RawIn(T)
  <1>1. Reads(V, T, k, Int)
    BY RawIsRead
  <1> HIDE DEF V
  <1>2. SlidesOn(h, c, k, V)
    BY <1>1, SlidingFollows
  <1> QED
    BY <1>2 DEF V, Raws, SlidesOn

\* The %K and %D one candle earlier.
LEMMA EarlierKD ==
  ASSUME NEW T, Priced(T), Ranged(T), NEW h \in Seq(T), NEW k \in Nat \ {0}, NEW smooth_k \in Nat \ {0},
         NEW smooth_d \in Nat \ {0}, k + smooth_k + smooth_d - 1 <= Len(h)
  PROVE  KD(T, S!Front(h), k, smooth_k, smooth_d) =
           [k |-> Ks(T, h, k, smooth_k)[Len(Ks(T, h, k, smooth_k)) - 1],
            d |-> Ds(T, h, k, smooth_k, smooth_d)[Len(Ds(T, h, k, smooth_k, smooth_d)) - 1]]
  <1> DEFINE g == S!Front(h)
             c == h[Len(h)]
             x == Raws(T, h, k)
             z == Ks(T, h, k, smooth_k)
             y == Ds(T, h, k, smooth_k, smooth_d)
             x0 == Raws(T, g, k)
             z0 == Ks(T, g, k, smooth_k)
             y0 == Ds(T, g, k, smooth_k, smooth_d)
             raw == RawIn(T)[Recent(h, k)]
  <1>1. Len(h) \in Nat /\ Len(h) # 0 /\ k <= Len(h)
    OBVIOUS
  <1>2. g \in Seq(T) /\ c \in T /\ Len(g) = Len(h) - 1 /\ h = Append(g, c)
    BY <1>1, LastSplit
  <1>3. ~ (Len(g) + 1 < k) /\ k + smooth_k + smooth_d - 2 <= Len(g)
    BY <1>1, <1>2
  <1>4. z = Sliding(x, smooth_k, MeanIn(smooth_k)) /\ y = Sliding(z, smooth_d, MeanIn(smooth_d))
        /\ z0 = Sliding(x0, smooth_k, MeanIn(smooth_k)) /\ y0 = Sliding(z0, smooth_d, MeanIn(smooth_d))
    BY DEF Ks, Ds
  <1> HIDE DEF g, c
  <1>5. x = Append(x0, raw)
    <2>1. g \in Seq(T) /\ c \in T
      BY <1>2
    <2>2. Raws(T, Append(g, c), k) =
            IF Len(g) + 1 < k THEN Raws(T, g, k)
            ELSE Append(Raws(T, g, k), RawIn(T)[Recent(Append(g, c), k)])
      BY <2>1, RawsFollow
    <2> QED
      BY <1>2, <1>3, <2>2
  <1>6. raw \in Int
    <2>1. Recent(h, k) \in Seq(T) /\ Len(Recent(h, k)) = k
      BY <1>1, RecentLength
    <2> QED
      BY <2>1, RawIsRead DEF Reads
  <1>7. /\ x0 \in Seq(Int) /\ Len(x0) = Len(g) - k + 1
        /\ IsMean(z0, x0, smooth_k) /\ IsMean(y0, z0, smooth_d)
        /\ KD(T, g, k, smooth_k, smooth_d) = [k |-> z0[Len(z0)], d |-> y0[Len(y0)]]
    BY <1>2, <1>3, NewestKD
  <1> HIDE DEF x, y, z, x0, y0, z0, raw
  <1>8. z0 \in Seq(Int) /\ Len(z0) = Len(x0) - smooth_k + 1 /\ Len(z0) \in Nat \ {0}
        /\ y0 \in Seq(Int) /\ Len(y0) = Len(z0) - smooth_d + 1 /\ Len(y0) \in Nat \ {0}
    BY <1>7 DEF IsMean
  <1> DEFINE kv == MeanOf(x, smooth_k).value
  <1>9. z = Append(z0, kv) /\ kv \in Int
    <2>1. /\ kv = None <=> Len(x) < smooth_k
          /\ kv # None => kv \in Int
          /\ z = IF kv = None THEN z0 ELSE Append(z0, kv)
      BY <1>4, <1>5, <1>6, <1>7, MeansFollow
    <2>2. ~ (Len(x) < smooth_k)
      BY <1>5, <1>6, <1>7, <1>8
    <2> HIDE DEF kv
    <2> QED
      BY <2>1, <2>2
  <1> HIDE DEF kv
  <1> DEFINE dv == MeanOf(z, smooth_d).value
  <1>10. y = Append(y0, dv) /\ dv \in Int
    <2>0. z0 \in Seq(Int) /\ kv \in Int
      BY <1>8, <1>9
    <2>1. /\ dv = None <=> Len(z) < smooth_d
          /\ dv # None => dv \in Int
          /\ y = IF dv = None THEN y0 ELSE Append(y0, dv)
      BY <1>4, <1>9, <2>0, MeansFollow
    <2>2. ~ (Len(z) < smooth_d)
      BY <1>8, <1>9
    <2> HIDE DEF dv
    <2> QED
      BY <2>1, <2>2
  <1> HIDE DEF dv
  <1>11. \A s \in Seq(Int), v \in Int : Len(s) # 0 => Append(s, v)[Len(Append(s, v)) - 1] = s[Len(s)]
    OBVIOUS
  <1>12. z[Len(z) - 1] = z0[Len(z0)]
    BY <1>8, <1>9, <1>11
  <1>13. y[Len(y) - 1] = y0[Len(y0)]
    BY <1>8, <1>10, <1>11
  <1>14. KD(T, g, k, smooth_k, smooth_d) = [k |-> z[Len(z) - 1], d |-> y[Len(y) - 1]]
    BY <1>7, <1>12, <1>13
  <1> QED
    BY <1>14 DEF g, z, y

\* The stochastic from the newest candles is what the structure over all candles holds.
LEMMA StochasticReads ==
  ASSUME NEW T, Priced(T), Ranged(T), NEW h \in Seq(T), NEW n \in Nat \ {0}, n <= Len(h),
         NEW k \in Nat \ {0}, NEW smooth_k \in Nat \ {0}, NEW smooth_d \in Nat \ {0},
         k + smooth_k + smooth_d - 1 <= n
  PROVE  LET kd == S!StochasticKD(Recent(h, n), k, smooth_k, smooth_d) IN
         /\ [k |-> S!FromEnd(kd.k, 0), d |-> S!FromEnd(kd.d, 0)] = KD(T, h, k, smooth_k, smooth_d)
         /\ [k |-> S!FromEnd(kd.k, 1), d |-> S!FromEnd(kd.d, 1)] = KD(T, S!Front(h), k, smooth_k, smooth_d)
  <1> DEFINE w == Recent(h, n)
             x == Raws(T, h, k)
             z == Ks(T, h, k, smooth_k)
             y == Ds(T, h, k, smooth_k, smooth_d)
             x0 == Raws(T, w, k)
             z0 == Ks(T, w, k, smooth_k)
             y0 == Ds(T, w, k, smooth_k, smooth_d)
             l == n - k + 1
             m == l - smooth_k + 1
             o == m - smooth_d + 1
             kd == S!StochasticKD(w, k, smooth_k, smooth_d)
  <1>1. Len(h) \in Nat /\ k <= n /\ l \in Nat /\ m \in Nat /\ o \in Nat /\ smooth_k <= l /\ smooth_d <= m /\ o >= 2
        /\ k + smooth_k + smooth_d - 2 <= Len(h) /\ k + smooth_k + smooth_d - 1 <= Len(h) /\ m >= 2
    OBVIOUS
  <1>2. w \in Seq(T)
    BY RecentLength
  <1>3. kd = [k |-> z0, d |-> y0]
    BY <1>2, StochasticOfWindow DEF Ds
  <1>4. z = Sliding(x, smooth_k, MeanIn(smooth_k)) /\ y = Sliding(z, smooth_d, MeanIn(smooth_d))
        /\ z0 = Sliding(x0, smooth_k, MeanIn(smooth_k)) /\ y0 = Sliding(z0, smooth_d, MeanIn(smooth_d))
    BY DEF Ks, Ds
  <1>5. /\ x \in Seq(Int) /\ Len(x) = Len(h) - k + 1
        /\ IsMean(z, x, smooth_k) /\ IsMean(y, z, smooth_d)
        /\ KD(T, h, k, smooth_k, smooth_d) = [k |-> z[Len(z)], d |-> y[Len(y)]]
    BY <1>1, NewestKD
  <1>6. KD(T, S!Front(h), k, smooth_k, smooth_d) = [k |-> z[Len(z) - 1], d |-> y[Len(y) - 1]]
    BY <1>1, EarlierKD
  <1>7. x0 = Recent(x, l)
    <2> DEFINE V == RawIn(T)
    <2>1. Reads(V, T, k, Int)
      BY RawIsRead
    <2> HIDE DEF V
    <2>2. Sliding(Recent(h, n), k, V) = Recent(Sliding(h, k, V), n - k + 1)
      BY <1>1, <2>1, SlidingOfRecent
    <2> QED
      BY <2>2 DEF V, Raws
  <1> HIDE DEF x, y, z, x0, y0, z0, w, kd
  <1>8. z \in Seq(Int) /\ Len(z) = Len(x) - smooth_k + 1
        /\ y \in Seq(Int) /\ Len(y) = Len(z) - smooth_d + 1
    BY <1>5 DEF IsMean
  <1>9. l <= Len(x) /\ m <= Len(z) /\ o <= Len(y)
    BY <1>1, <1>5, <1>8
  <1> HIDE DEF l
  <1>10. z0 = Recent(z, m)
    <2> DEFINE V == MeanIn(smooth_k)
    <2>1. Reads(V, Int, smooth_k, Int)
      BY MeanIsRead
    <2> HIDE DEF V
    <2>2. Sliding(Recent(x, l), smooth_k, V) = Recent(Sliding(x, smooth_k, V), l - smooth_k + 1)
      BY <1>1, <1>5, <1>9, <2>1, SlidingOfRecent
    <2> QED
      BY <1>4, <1>7, <2>2 DEF V
  <1> HIDE DEF m
  <1>11. y0 = Recent(y, o)
    <2> DEFINE V == MeanIn(smooth_d)
    <2>1. Reads(V, Int, smooth_d, Int)
      BY MeanIsRead
    <2> HIDE DEF V
    <2>2. Sliding(Recent(z, m), smooth_d, V) = Recent(Sliding(z, smooth_d, V), m - smooth_d + 1)
      BY <1>1, <1>8, <1>9, <2>1, SlidingOfRecent
    <2> QED
      BY <1>4, <1>10, <2>2 DEF V
  <1> HIDE DEF o
  <1>12. ASSUME NEW s \in Seq(Int), NEW j \in Nat, j >= 2, j <= Len(s)
         PROVE  S!FromEnd(Recent(s, j), 0) = s[Len(s)] /\ S!FromEnd(Recent(s, j), 1) = s[Len(s) - 1]
    <2> DEFINE q == Recent(s, j)
               e == Len(s)
    <2>1. e \in Nat /\ Len(s) = e /\ j <= e
      BY <1>12
    <2> HIDE DEF e
    <2>2. IsFull(q, s, e, j)
      BY <1>12, <2>1, FullRecent
    <2> HIDE DEF q
    <2>3. j \in 1 .. j /\ j - 1 \in 1 .. j /\ e - j + j = e /\ e - j + (j - 1) = e - 1 /\ j > 0 /\ j > 1
          /\ j - 0 = j
      BY <1>12, <2>1
    <2>4. Len(q) = j /\ q[j] = s[e] /\ q[j - 1] = s[e - 1]
      BY <2>2, <2>3 DEF IsFull
    <2> QED
      BY <2>1, <2>3, <2>4 DEF S!FromEnd, q
  <1>13. S!FromEnd(z0, 0) = z[Len(z)] /\ S!FromEnd(z0, 1) = z[Len(z) - 1]
    BY <1>1, <1>8, <1>9, <1>10, <1>12
  <1>14. S!FromEnd(y0, 0) = y[Len(y)] /\ S!FromEnd(y0, 1) = y[Len(y) - 1]
    BY <1>1, <1>8, <1>9, <1>11, <1>12
  <1>15. kd.k = z0 /\ kd.d = y0
    BY <1>3
  <1>16. [k |-> S!FromEnd(kd.k, 0), d |-> S!FromEnd(kd.d, 0)] = KD(T, h, k, smooth_k, smooth_d)
    BY <1>5, <1>13, <1>14, <1>15
  <1>17. [k |-> S!FromEnd(kd.k, 1), d |-> S!FromEnd(kd.d, 1)] = KD(T, S!Front(h), k, smooth_k, smooth_d)
    BY <1>6, <1>13, <1>14, <1>15
  <1> QED
    BY <1>16, <1>17 DEF kd, w

----------------------------------------------------------------------------
(* The structures of the incremental evaluator, part by part.              *)

Rolling ==
  {"mean", "momentum", "rsi", "gain_loss", "atr", "bands", "bands_before", "widths", "spike",
   "prior_range", "stochastic", "stochastic_before", "candle_before"}

\* What structure s of a part holds after candles h.
Holds(part, s, T, h, q) ==
  /\ part = "mean" => s = MeanOf(S!Closes(h), q.sma_period)
  /\ part = "momentum" => s = MomentumOf(S!Closes(h), q.momentum_period)
  /\ part = "rsi" => s = RsiOf(S!Closes(h), q.rsi_period)
  /\ part = "gain_loss" => s = GainLossOf(S!Closes(h), q.rsi_period)
  /\ part = "atr" => s = AtrOf(h, q.atr_period)
  /\ part = "bands" => s = BandsOf(S!Closes(h), q.bollinger_period)
  /\ part = "bands_before" =>
       (Len(h) # 0 => s.value = BandsValue(S!Front(S!Closes(h)), q.bollinger_period))
  /\ part = "widths" => s = WidthsOf(S!Closes(h), q.bollinger_period, q.squeeze_lookback)
  /\ part = "spike" => s = SpikeOf(Volumes(h), q.volume_spike_period, q.volume_spike_multiplier)
  /\ part = "prior_range" => PriorRangeIs(s, h, q.range_lookback)
  /\ part = "stochastic" => StochasticIs(s, T, h, q.stochastic_period, q.smooth_k, q.smooth_d)
  /\ part = "stochastic_before" =>
       (Len(h) # 0 => s.value = KD(T, S!Front(h), q.stochastic_period, q.smooth_k, q.smooth_d))
  /\ part = "candle_before" =>
       /\ Len(h) # 0 => s.latest = h[Len(h)]
       /\ Len(h) > 1 => s.value = h[Len(h) - 1]

Period(k) == k \in Nat \ {0}

\* The periods of a part are positive and n candles are enough for it; the
\* closes can be divided by the period of the bands.
Suits(part, q, n, T) ==
  /\ part = "mean" => Period(q.sma_period) /\ q.sma_period <= n
  /\ part = "momentum" => Period(q.momentum_period) /\ q.momentum_period + 1 <= n
  /\ part \in {"rsi", "gain_loss"} => Period(q.rsi_period) /\ q.rsi_period + 1 <= n
  /\ part = "atr" => Period(q.atr_period) /\ q.atr_period + 1 <= n
  /\ part \in {"bands", "bands_before", "widths"} =>
       Period(q.bollinger_period) /\ q.bollinger_period <= n /\ Divided(T, q.bollinger_period)
  /\ part = "bands_before" => q.bollinger_period + 1 <= n
  /\ part = "widths" => Period(q.squeeze_lookback) /\ q.bollinger_period + q.squeeze_lookback <= n
  /\ part = "spike" => Period(q.volume_spike_period) /\ q.volume_spike_period + 1 <= n
  /\ part = "prior_range" => Period(q.range_lookback) /\ q.range_lookback + 1 <= n
  /\ part \in {"stochastic", "stochastic_before"} =>
       /\ Period(q.stochastic_period) /\ Period(q.smooth_k) /\ Period(q.smooth_d)
       /\ q.stochastic_period + q.smooth_k + q.smooth_d - 1 <= n
  /\ part = "candle_before" => 2 <= n

\* Nothing to sum up before the first candle.
LEMMA NothingYet ==
  ASSUME NEW k \in Nat
  PROVE  /\ S!Closes(<<>>) = <<>> /\ Volumes(<<>>) = <<>> /\ Ranges(<<>>) = <<>> /\ Squares(<<>>) = <<>>
         /\ S!Changes(<<>>) = <<>> /\ Rises(<<>>) = <<>> /\ Falls(<<>>) = <<>>
         /\ Recent(<<>>, k) = <<>> /\ S!SumOf(<<>>) = 0 /\ Latest(<<>>) = None /\ Len(<<>>) = 0
         /\ <<>> \in Seq(Int)
  <1>1. <<>> \in Seq(Int) /\ Len(<<>>) = 0 /\ DOMAIN <<>> = {}
    OBVIOUS
  <1>2. S!Closes(<<>>) = <<>>
    BY <1>1 DEF S!Closes
  <1> DEFINE o == Len(<<>>)
  <1>3. o = 0 /\ o - 1 <= 0 /\ o <= 0 /\ o \in Int /\ o - 1 \in Int
    BY <1>1
  <1>4. Volumes(<<>>) = <<>>
    BY <1>3, NoEntry DEF Volumes
  <1>5. Squares(<<>>) = <<>>
    BY <1>3, NoEntry DEF Squares
  <1>6. Ranges(<<>>) = <<>>
    BY <1>3, NoEntry DEF Ranges
  <1>7. S!Changes(<<>>) = <<>> /\ Rises(<<>>) = <<>> /\ Falls(<<>>) = <<>>
    <2> DEFINE e == <<>>
    <2>1. e \in Seq(Int) /\ Len(e) <= 1
      OBVIOUS
    <2> HIDE DEF e
    <2>2. S!Changes(e) = <<>> /\ Rises(e) = <<>> /\ Falls(e) = <<>>
      BY <2>1, NoChanges
    <2> QED
      BY <2>2 DEF e
  <1>8. Recent(<<>>, k) = <<>> /\ S!SumOf(<<>>) = 0
    BY <1>1, RecentOfNone, SumAppended
  <1>9. Latest(<<>>) = None
    BY <1>1 DEF Latest
  <1> QED
    BY <1>1, <1>2, <1>4, <1>5, <1>6, <1>7, <1>8, <1>9

\* A new structure holds no candles.
LEMMA PartStarts ==
  ASSUME NEW T, Priced(T), Ranged(T), NEW q, NEW n, NEW part \in Rolling, Suits(part, q, n, T)
  PROVE  Holds(part, S!Fresh(part), T, <<>>, q)
  <1> DEFINE s == S!Fresh(part)
  <1>0. Len(<<>>) = 0
    OBVIOUS
  <1>1. CASE part = "mean"
    <2> DEFINE k == q.sma_period
    <2>1. k \in Nat /\ ~ (0 >= k)
      BY <1>1 DEF Suits, Period
    <2>2. s = S!MeanStart
      BY <1>1 DEF S!Fresh
    <2> HIDE DEF k, s
    <2>3. s = MeanOf(S!Closes(<<>>), k)
      BY <2>1, <2>2, NothingYet DEF MeanOf, S!MeanStart
    <2> QED
      BY <1>1, <2>3 DEF Holds, s, k
  <1>2. CASE part = "momentum"
    <2> DEFINE k == q.momentum_period
    <2>1. k \in Nat /\ k + 1 \in Nat /\ ~ (0 >= k + 1)
      BY <1>2 DEF Suits, Period
    <2>2. s = S!MomentumStart
      BY <1>2 DEF S!Fresh
    <2> HIDE DEF k, s
    <2>3. s = MomentumOf(S!Closes(<<>>), k)
      BY <2>1, <2>2, NothingYet DEF MomentumOf, S!MomentumStart
    <2> QED
      BY <1>2, <2>3 DEF Holds, s, k
  <1>3. CASE part = "rsi"
    <2> DEFINE k == q.rsi_period
    <2>1. k \in Nat /\ 0 < k + 1
      BY <1>3 DEF Suits, Period
    <2>2. s = S!RsiStart
      BY <1>3 DEF S!Fresh
    <2> HIDE DEF k, s
    <2>3. s = RsiOf(S!Closes(<<>>), k)
      BY <2>1, <2>2, NothingYet DEF RsiOf, AverageOf, S!RsiStart
    <2> QED
      BY <1>3, <2>3 DEF Holds, s, k
  <1>4. CASE part = "gain_loss"
    <2> DEFINE k == q.rsi_period
    <2>1. k \in Nat /\ 0 < k + 1
      BY <1>4 DEF Suits, Period
    <2>2. s = S!GainLossStart
      BY <1>4 DEF S!Fresh
    <2> HIDE DEF k, s
    <2>3. s = GainLossOf(S!Closes(<<>>), k)
      BY <2>1, <2>2, NothingYet DEF GainLossOf, AverageOf, S!GainLossStart
    <2> QED
      BY <1>4, <2>3 DEF Holds, s, k
  <1>5. CASE part = "atr"
    <2> DEFINE k == q.atr_period
    <2>1. k \in Nat /\ ~ (0 >= k + 1)
      BY <1>5 DEF Suits, Period
    <2>2. s = S!AtrStart
      BY <1>5 DEF S!Fresh
    <2> HIDE DEF k, s
    <2>3. s = AtrOf(<<>>, k)
      BY <2>1, <2>2, NothingYet DEF AtrOf, S!AtrStart
    <2> QED
      BY <1>5, <2>3 DEF Holds, s, k
  <1>6. CASE part = "bands"
    <2> DEFINE k == q.bollinger_period
    <2>1. k \in Nat /\ 0 < k
      BY <1>6 DEF Suits, Period
    <2>2. s = S!BollingerStart
      BY <1>6 DEF S!Fresh
    <2> HIDE DEF k, s
    <2>3. s = BandsOf(S!Closes(<<>>), k)
      BY <2>1, <2>2, NothingYet DEF BandsOf, BandsValue, S!BollingerStart
    <2> QED
      BY <1>6, <2>3 DEF Holds, s, k
  <1>7. CASE part = "widths"
    <2> DEFINE k == q.bollinger_period
               l == q.squeeze_lookback
    <2>1. k \in Nat \ {0} /\ l \in Nat /\ Len(<<>>) < k /\ <<>> \in Seq(Int)
      BY <1>7 DEF Suits, Period
    <2>2. s = [deque |-> <<>>, value |-> <<>>]
      BY <1>7 DEF S!Fresh
    <2> HIDE DEF k, l, s
    <2>3. Variances(<<>>, k) = <<>>
      BY <2>1, VariancesAre
    <2>4. s = WidthsOf(S!Closes(<<>>), k, l)
      BY <2>1, <2>2, <2>3, NothingYet DEF WidthsOf
    <2> QED
      BY <1>7, <2>4 DEF Holds, s, k, l
  <1>8. CASE part = "spike"
    <2> DEFINE k == q.volume_spike_period
    <2>1. k \in Nat /\ ~ (0 > k)
      BY <1>8 DEF Suits, Period
    <2>2. s = S!SpikeStart
      BY <1>8 DEF S!Fresh
    <2> HIDE DEF k, s
    <2>3. s = SpikeOf(Volumes(<<>>), k, q.volume_spike_multiplier)
      BY <2>1, <2>2, NothingYet DEF SpikeOf, S!SpikeStart
    <2> QED
      BY <1>8, <2>3 DEF Holds, s, k
  <1>9. CASE part = "prior_range"
    <2>1. q.range_lookback \in Nat \ {0}
      BY <1>9 DEF Suits, Period
    <2>2. s = S!RangeStart
      BY <1>9 DEF S!Fresh
    <2>3. PriorRangeIs(s, <<>>, q.range_lookback)
      BY <2>1, <2>2, PriorRangeStarts
    <2> QED
      BY <1>9, <2>3 DEF Holds
  <1>10. CASE part = "stochastic"
    <2>1. q.stochastic_period \in Nat \ {0} /\ q.smooth_k \in Nat \ {0} /\ q.smooth_d \in Nat \ {0}
      BY <1>10 DEF Suits, Period
    <2>2. s = S!StochasticStart
      BY <1>10 DEF S!Fresh
    <2>3. StochasticIs(s, T, <<>>, q.stochastic_period, q.smooth_k, q.smooth_d)
      BY <2>1, <2>2, StochasticStarts
    <2> QED
      BY <1>10, <2>3 DEF Holds
  <1>11. CASE part \in {"bands_before", "stochastic_before", "candle_before"}
    BY <1>0, <1>11 DEF Holds
  <1> QED
    BY <1>1, <1>2, <1>3, <1>4, <1>5, <1>6, <1>7, <1>8, <1>9, <1>10, <1>11, Zenon DEF Rolling

\* What structure u of a part is, after candle c, of those the bank held.
Following(u, part, B, c, q) ==
  /\ part = "mean" => u = S!MeanUpdate(B[part], c.close, q.sma_period)
  /\ part = "momentum" => u = S!MomentumUpdate(B[part], c.close, q.momentum_period)
  /\ part = "rsi" => u = S!RsiUpdate(B[part], c.close, q.rsi_period)
  /\ part = "gain_loss" => u = S!GainLossUpdate(B[part], c.close, q.rsi_period)
  /\ part = "atr" => u = S!AtrUpdate(B[part], c, q.atr_period)
  /\ part = "bands" => u = S!BollingerUpdate(B[part], c.close, q.bollinger_period)
  /\ part = "bands_before" => u = [value |-> B["bands"].value]
  /\ part = "widths" =>
       u = S!WidthsUpdate(B[part], S!BollingerUpdate(B["bands"], c.close, q.bollinger_period).value, q)
  /\ part = "spike" =>
       u = S!SpikeUpdate(B[part], c.tick_volume, q.volume_spike_period, q.volume_spike_multiplier)
  /\ part = "prior_range" => u = S!PriorRangeUpdate(B[part], c, q.range_lookback)
  /\ part = "stochastic" =>
       u = S!StochasticUpdate(B[part], c, q.stochastic_period, q.smooth_k, q.smooth_d)
  /\ part = "stochastic_before" => u = [value |-> B["stochastic"].value]
  /\ part = "candle_before" => u = [latest |-> c, value |-> B[part].latest]
  /\ part = "candles" =>
       u = [value |-> S!Push(B[part].value, c, S!Larger(q.volume_profile_lookback, q.fvg_lookback + 3))]

\* A candle updates every structure of the bank.
LEMMA EveryPartUpdated ==
  ASSUME NEW B, NEW c, NEW q, NEW wanted, NEW part \in wanted.parts
  PROVE  Following(S!Updated(B, c, q, wanted)[part], part, B, c, q)
  BY Zenon DEF S!Updated, Following

\* A part that takes over another part's value goes with it.
Complete(parts) ==
  /\ parts \cap {"bands_before", "widths"} # {} => "bands" \in parts
  /\ "stochastic_before" \in parts => "stochastic" \in parts

\* A structure follows a candle.
LEMMA PartFollows ==
  ASSUME NEW T, Priced(T), Ranged(T), NEW h \in Seq(T), NEW c \in T, NEW q, NEW wanted, NEW n,
         Complete(wanted.parts), NEW B,
         \A part \in wanted.parts \cap Rolling : Suits(part, q, n, T) /\ Holds(part, B[part], T, h, q),
         NEW part \in wanted.parts \cap Rolling
  PROVE  Holds(part, S!Updated(B, c, q, wanted)[part], T, Append(h, c), q)
  <1> DEFINE g == Append(h, c)
             f == S!Closes(h)
             u == S!Updated(B, c, q, wanted)[part]
  <1>1. /\ f \in Seq(Int) /\ S!Closes(g) = Append(f, c.close) /\ c.close \in Int
        /\ Volumes(h) \in Seq(Int) /\ Volumes(g) = Append(Volumes(h), c.tick_volume) /\ c.tick_volume \in Int
    BY ClosesFollow DEF Priced
  <1>2. g \in Seq(T) /\ Len(g) = Len(h) + 1 /\ Len(h) \in Nat /\ g[Len(h) + 1] = c /\ S!Front(g) = h
        /\ S!Front(S!Closes(g)) = f
    BY <1>1, FrontAppended
  <1>3. Suits(part, q, n, T) /\ Holds(part, B[part], T, h, q)
    OBVIOUS
  <1>4. Following(u, part, B, c, q)
    <2>1. part \in wanted.parts
      OBVIOUS
    <2> QED
      BY <2>1, EveryPartUpdated
  <1> HIDE DEF f, g
  <1>m. CASE part = "mean"
    <2>1. u = S!MeanUpdate(MeanOf(f, q.sma_period), c.close, q.sma_period)
      BY <1>3, <1>m, <1>4 DEF Following, Holds, f
    <2>2. q.sma_period \in Nat \ {0}
      BY <1>3, <1>m DEF Suits, Period
    <2>3. u = MeanOf(S!Closes(g), q.sma_period)
      BY <1>1, <2>1, <2>2, MeanFollows
    <2> QED
      BY <1>m, <2>3 DEF Holds, g
  <1>n. CASE part = "momentum"
    <2>1. u = S!MomentumUpdate(MomentumOf(f, q.momentum_period), c.close, q.momentum_period)
      BY <1>3, <1>n, <1>4 DEF Following, Holds, f
    <2>2. q.momentum_period \in Nat \ {0}
      BY <1>3, <1>n DEF Suits, Period
    <2>3. u = MomentumOf(S!Closes(g), q.momentum_period)
      BY <1>1, <2>1, <2>2, MomentumFollows
    <2> QED
      BY <1>n, <2>3 DEF Holds, g
  <1>r. CASE part = "rsi"
    <2>1. u = S!RsiUpdate(RsiOf(f, q.rsi_period), c.close, q.rsi_period)
      BY <1>3, <1>r, <1>4 DEF Following, Holds, f
    <2>2. q.rsi_period \in Nat \ {0}
      BY <1>3, <1>r DEF Suits, Period
    <2>3. u = RsiOf(S!Closes(g), q.rsi_period)
      BY <1>1, <2>1, <2>2, RsiFollows
    <2> QED
      BY <1>r, <2>3 DEF Holds, g
  <1>l. CASE part = "gain_loss"
    <2>1. u = S!GainLossUpdate(GainLossOf(f, q.rsi_period), c.close, q.rsi_period)
      BY <1>3, <1>l, <1>4 DEF Following, Holds, f
    <2>2. q.rsi_period \in Nat \ {0}
      BY <1>3, <1>l DEF Suits, Period
    <2>3. u = GainLossOf(S!Closes(g), q.rsi_period)
      BY <1>1, <2>1, <2>2, GainLossFollows
    <2> QED
      BY <1>l, <2>3 DEF Holds, g
  <1>a. CASE part = "atr"
    <2>1. u = S!AtrUpdate(AtrOf(h, q.atr_period), c, q.atr_period)
      BY <1>3, <1>a, <1>4 DEF Following, Holds
    <2>2. q.atr_period \in Nat \ {0}
      BY <1>3, <1>a DEF Suits, Period
    <2>3. u = AtrOf(g, q.atr_period)
      BY <2>1, <2>2, AtrFollows DEF g
    <2> QED
      BY <1>a, <2>3 DEF Holds, g
  <1>b. ASSUME part \in {"bands", "bands_before", "widths"}
        PROVE  /\ q.bollinger_period \in Nat \ {0}
               /\ B["bands"] = BandsOf(f, q.bollinger_period)
               /\ S!BollingerUpdate(B["bands"], c.close, q.bollinger_period)
                    = BandsOf(S!Closes(g), q.bollinger_period)
    <2>1. q.bollinger_period \in Nat \ {0}
      BY <1>3, <1>b DEF Suits, Period
    <2>2. "bands" \in wanted.parts \cap Rolling
      BY <1>b DEF Complete, Rolling
    <2>3. Holds("bands", B["bands"], T, h, q)
      BY <2>2
    <2>4. B["bands"] = BandsOf(f, q.bollinger_period)
      BY <2>3 DEF Holds, f
    <2> QED
      BY <1>1, <2>1, <2>4, BandsFollow
  <1>c. CASE part = "bands"
    <2>1. u = S!BollingerUpdate(B["bands"], c.close, q.bollinger_period)
      BY <1>c, <1>4 DEF Following
    <2> QED
      BY <1>b, <1>c, <2>1 DEF Holds, g
  <1>d. CASE part = "bands_before"
    <2>1. u = [value |-> B["bands"].value]
      BY <1>d, <1>4 DEF Following
    <2>2. BandsOf(f, q.bollinger_period).value = BandsValue(f, q.bollinger_period)
      BY DEF BandsOf
    <2>3. u.value = BandsValue(S!Front(S!Closes(g)), q.bollinger_period)
      BY <1>2, <1>b, <1>d, <2>1, <2>2
    <2> QED
      BY <1>d, <2>3 DEF Holds, g
  <1>e. CASE part = "widths"
    <2>1. u = S!WidthsUpdate(B[part], S!BollingerUpdate(B["bands"], c.close, q.bollinger_period).value, q)
      BY <1>e, <1>4 DEF Following
    <2>2. BandsOf(S!Closes(g), q.bollinger_period).value = BandsValue(Append(f, c.close), q.bollinger_period)
      BY <1>1 DEF BandsOf
    <2>3. B[part] = WidthsOf(f, q.bollinger_period, q.squeeze_lookback)
      BY <1>3, <1>e DEF Holds, f
    <2>4. q.squeeze_lookback \in Nat \ {0} /\ q.bollinger_period \in Nat \ {0}
      BY <1>3, <1>e DEF Suits, Period
    <2>5. u = S!WidthsUpdate(WidthsOf(f, q.bollinger_period, q.squeeze_lookback),
                             BandsValue(Append(f, c.close), q.bollinger_period), q)
      BY <1>b, <1>e, <2>1, <2>2, <2>3
    <2>6. u = WidthsOf(S!Closes(g), q.bollinger_period, q.squeeze_lookback)
      BY <1>1, <2>4, <2>5, WidthsFollow
    <2> QED
      BY <1>e, <2>6 DEF Holds, g
  <1>s. CASE part = "spike"
    <2> DEFINE k == q.volume_spike_period
               multiplier == q.volume_spike_multiplier
    <2>1. u = S!SpikeUpdate(SpikeOf(Volumes(h), k, multiplier), c.tick_volume, k, multiplier)
      BY <1>3, <1>s, <1>4 DEF Following, Holds
    <2>2. k \in Nat \ {0}
      BY <1>3, <1>s DEF Suits, Period
    <2>3. u = SpikeOf(Volumes(g), k, multiplier)
      BY <1>1, <2>1, <2>2, SpikeFollows
    <2> QED
      BY <1>s, <2>3 DEF Holds, g
  <1>p. CASE part = "prior_range"
    <2>1. u = S!PriorRangeUpdate(B[part], c, q.range_lookback)
      BY <1>p, <1>4 DEF Following
    <2>2. q.range_lookback \in Nat \ {0} /\ PriorRangeIs(B[part], h, q.range_lookback)
      BY <1>3, <1>p DEF Suits, Period, Holds
    <2>3. PriorRangeIs(u, g, q.range_lookback)
      BY <2>1, <2>2, PriorRangeFollows DEF g
    <2> QED
      BY <1>p, <2>3 DEF Holds, g
  <1>t. ASSUME part \in {"stochastic", "stochastic_before"}
        PROVE  /\ q.stochastic_period \in Nat \ {0} /\ q.smooth_k \in Nat \ {0} /\ q.smooth_d \in Nat \ {0}
               /\ StochasticIs(B["stochastic"], T, h, q.stochastic_period, q.smooth_k, q.smooth_d)
    <2>1. "stochastic" \in wanted.parts \cap Rolling
      BY <1>t DEF Complete, Rolling
    <2>2. Holds("stochastic", B["stochastic"], T, h, q)
      BY <2>1
    <2> QED
      BY <1>3, <1>t, <2>2 DEF Suits, Period, Holds
  <1>u. CASE part = "stochastic"
    <2>1. u = S!StochasticUpdate(B["stochastic"], c, q.stochastic_period, q.smooth_k, q.smooth_d)
      BY <1>u, <1>4 DEF Following
    <2>2. StochasticIs(u, T, g, q.stochastic_period, q.smooth_k, q.smooth_d)
      BY <1>t, <1>u, <2>1, StochasticFollows DEF g
    <2> QED
      BY <1>u, <2>2 DEF Holds, g
  <1>v. CASE part = "stochastic_before"
    <2>1. u = [value |-> B["stochastic"].value]
      BY <1>v, <1>4 DEF Following
    <2>2. u.value = KD(T, S!Front(g), q.stochastic_period, q.smooth_k, q.smooth_d)
      BY <1>2, <1>t, <1>v, <2>1 DEF StochasticIs
    <2> QED
      BY <1>v, <2>2 DEF Holds, g
  <1>w. CASE part = "candle_before"
    <2>1. u = [latest |-> c, value |-> B[part].latest]
      BY <1>w, <1>4 DEF Following
    <2>2. Len(h) # 0 => B[part].latest = h[Len(h)]
      BY <1>3, <1>w DEF Holds
    <2>3. u.latest = g[Len(g)]
      BY <1>2, <2>1
    <2>4. ASSUME Len(h) # 0 PROVE g[Len(g) - 1] = h[Len(h)]
      <3>1. Len(h) \in 1 .. Len(h) /\ Len(g) - 1 = Len(h)
        BY <1>2, <2>4
      <3> QED
        BY <3>1 DEF g
    <2>5. Len(g) > 1 => u.value = g[Len(g) - 1]
      BY <1>2, <2>1, <2>2, <2>4
    <2> QED
      BY <1>w, <2>3, <2>5 DEF Holds, g
  <1> QED
    BY <1>m, <1>n, <1>r, <1>l, <1>a, <1>c, <1>d, <1>e, <1>s, <1>p, <1>u, <1>v, <1>w DEF Rolling

\* What a part reads off a window.
LEMMA ReadingIs ==
  ASSUME NEW w, NEW q, NEW part
  PROVE  /\ part = "mean" => S!Reading(part, w, q) = S!Sma(S!Closes(w), q.sma_period)
         /\ part = "momentum" => S!Reading(part, w, q) = S!Momentum(S!Closes(w), q.momentum_period)
         /\ part \in {"rsi", "gain_loss"} => S!Reading(part, w, q) = S!Rsi(S!Closes(w), q.rsi_period)
         /\ part = "atr" => S!Reading(part, w, q) = S!Atr(w, q.atr_period)
         /\ part = "bands" => S!Reading(part, w, q) = S!BollingerBands(S!Closes(w), q.bollinger_period)
         /\ part = "bands_before" =>
              S!Reading(part, w, q) = S!BollingerBands(S!Front(S!Closes(w)), q.bollinger_period)
         /\ part = "widths" => S!Reading(part, w, q) = S!WidthsIn(w, q)
         /\ part = "spike" => S!Reading(part, w, q) = S!SpikeIn(w, q)
         /\ part = "prior_range" => S!Reading(part, w, q) = S!PriorRange(w, q.range_lookback)
         /\ part = "stochastic" =>
              LET kd == S!StochasticKD(w, q.stochastic_period, q.smooth_k, q.smooth_d)
              IN S!Reading(part, w, q) = [k |-> S!FromEnd(kd.k, 0), d |-> S!FromEnd(kd.d, 0)]
         /\ part = "stochastic_before" =>
              LET kd == S!StochasticKD(w, q.stochastic_period, q.smooth_k, q.smooth_d)
              IN S!Reading(part, w, q) = [k |-> S!FromEnd(kd.k, 1), d |-> S!FromEnd(kd.d, 1)]
         /\ part = "candle_before" => S!Reading(part, w, q) = w[Len(w) - 1]
         /\ part = "candles" => S!Reading(part, w, q) = w
  <1>1. part = "mean" => S!Reading(part, w, q) = S!Sma(S!Closes(w), q.sma_period)
    BY DEF S!Reading
  <1>2. part = "momentum" => S!Reading(part, w, q) = S!Momentum(S!Closes(w), q.momentum_period)
    BY DEF S!Reading
  <1>3. part \in {"rsi", "gain_loss"} => S!Reading(part, w, q) = S!Rsi(S!Closes(w), q.rsi_period)
    BY DEF S!Reading
  <1>4. part = "atr" => S!Reading(part, w, q) = S!Atr(w, q.atr_period)
    BY DEF S!Reading
  <1>5. part = "bands" => S!Reading(part, w, q) = S!BollingerBands(S!Closes(w), q.bollinger_period)
    BY DEF S!Reading
  <1>6. part = "bands_before" =>
          S!Reading(part, w, q) = S!BollingerBands(S!Front(S!Closes(w)), q.bollinger_period)
    BY DEF S!Reading
  <1>7. part = "widths" => S!Reading(part, w, q) = S!WidthsIn(w, q)
    BY DEF S!Reading
  <1>8. part = "spike" => S!Reading(part, w, q) = S!SpikeIn(w, q)
    BY DEF S!Reading
  <1>9. part = "prior_range" => S!Reading(part, w, q) = S!PriorRange(w, q.range_lookback)
    BY DEF S!Reading
  <1>10. part = "stochastic" =>
           LET kd == S!StochasticKD(w, q.stochastic_period, q.smooth_k, q.smooth_d)
           IN S!Reading(part, w, q) = [k |-> S!FromEnd(kd.k, 0), d |-> S!FromEnd(kd.d, 0)]
    BY DEF S!Reading
  <1>11. part = "stochastic_before" =>
           LET kd == S!StochasticKD(w, q.stochastic_period, q.smooth_k, q.smooth_d)
           IN S!Reading(part, w, q) = [k |-> S!FromEnd(kd.k, 1), d |-> S!FromEnd(kd.d, 1)]
    BY DEF S!Reading
  <1>12. part = "candle_before" => S!Reading(part, w, q) = w[Len(w) - 1]
    BY DEF S!Reading
  <1>13. part = "candles" => S!Reading(part, w, q) = w
    BY DEF S!Reading
  <1> QED
    BY <1>1, <1>2, <1>3, <1>4, <1>5, <1>6, <1>7, <1>8, <1>9, <1>10, <1>11, <1>12, <1>13

\* Once there are enough candles, a structure says what its indicator computes
\* from the newest of them.
LEMMA PartReads ==
  ASSUME NEW T, Priced(T), Ranged(T), NEW h \in Seq(T), NEW n \in Nat \ {0}, n <= Len(h), NEW q,
         NEW part \in Rolling, Suits(part, q, n, T), NEW s, Holds(part, s, T, h, q)
  PROVE  s.value = S!Reading(part, Recent(h, n), q)
  <1> DEFINE w == Recent(h, n)
             f == S!Closes(h)
             r == S!Reading(part, w, q)
  <1>1. w \in Seq(T) /\ Len(w) = n /\ Len(h) \in Nat /\ n \in Nat /\ n > 0 /\ Len(h) # 0
    BY RecentLength
  <1>2. f \in Seq(Int) /\ Len(f) = Len(h)
    BY ClosesFollow, <1>1, ListsOfRecent
  <1>m. CASE part = "mean"
    <2>1. q.sma_period \in Nat \ {0} /\ q.sma_period <= n /\ s = MeanOf(f, q.sma_period)
      BY <1>m DEF Suits, Period, Holds
    <2>2. r = S!Sma(S!Closes(w), q.sma_period)
      BY <1>m, ReadingIs
    <2> QED
      BY <2>1, <2>2, MeanReads
  <1>n. CASE part = "momentum"
    <2>1. q.momentum_period \in Nat \ {0} /\ q.momentum_period + 1 <= n /\ s = MomentumOf(f, q.momentum_period)
      BY <1>n DEF Suits, Period, Holds
    <2>2. r = S!Momentum(S!Closes(w), q.momentum_period)
      BY <1>n, ReadingIs
    <2> QED
      BY <2>1, <2>2, MomentumReads
  <1>r. CASE part \in {"rsi", "gain_loss"}
    <2>1. q.rsi_period \in Nat \ {0} /\ q.rsi_period + 1 <= n
      BY <1>r DEF Suits, Period
    <2>2. s = RsiOf(f, q.rsi_period) \/ s = GainLossOf(f, q.rsi_period)
      BY <1>r DEF Holds
    <2>3. s.value = AverageOf(f, q.rsi_period)
      BY <2>2 DEF RsiOf, GainLossOf
    <2>4. r = S!Rsi(S!Closes(w), q.rsi_period)
      BY <1>r, ReadingIs
    <2> QED
      BY <2>1, <2>3, <2>4, RsiReads
  <1>a. CASE part = "atr"
    <2>1. q.atr_period \in Nat \ {0} /\ q.atr_period + 1 <= n /\ s = AtrOf(h, q.atr_period)
      BY <1>a DEF Suits, Period, Holds
    <2>2. r = S!Atr(w, q.atr_period)
      BY <1>a, ReadingIs
    <2> QED
      BY <2>1, <2>2, AtrReads
  <1>b. CASE part = "bands"
    <2> DEFINE k == q.bollinger_period
    <2>1. k \in Nat \ {0} /\ k <= n /\ Divided(T, k) /\ s = BandsOf(f, k)
      BY <1>b DEF Suits, Period, Holds
    <2>2. r = S!BollingerBands(S!Closes(w), k)
      BY <1>b, ReadingIs
    <2> HIDE DEF k
    <2>3. S!BollingerBands(S!Closes(w), k) = BandsValue(f, k)
      BY <2>1, BandsReads
    <2> QED
      BY <2>1, <2>2, <2>3 DEF BandsOf
  <1>c. CASE part = "bands_before"
    <2> DEFINE k == q.bollinger_period
    <2>1. k \in Nat \ {0} /\ k + 1 <= n /\ Divided(T, k) /\ s.value = BandsValue(S!Front(f), k)
      BY <1>1, <1>c DEF Suits, Period, Holds
    <2>2. r = S!BollingerBands(S!Front(S!Closes(w)), k)
      BY <1>c, ReadingIs
    <2> HIDE DEF k
    <2>3. S!BollingerBands(S!Front(S!Closes(w)), k) = BandsValue(S!Front(f), k)
      BY <2>1, BandsReads
    <2> QED
      BY <2>1, <2>2, <2>3
  <1>e. CASE part = "widths"
    <2>1. /\ q.bollinger_period \in Nat \ {0} /\ Divided(T, q.bollinger_period) /\ q.squeeze_lookback \in Nat \ {0}
          /\ q.bollinger_period + q.squeeze_lookback <= n
          /\ s = WidthsOf(f, q.bollinger_period, q.squeeze_lookback)
      BY <1>e DEF Suits, Period, Holds
    <2>2. r = S!WidthsIn(w, q)
      BY <1>e, ReadingIs
    <2>3. s.value = Recent(Variances(S!Front(f), q.bollinger_period), q.squeeze_lookback)
      BY <1>1, <1>2, <2>1 DEF WidthsOf
    <2> QED
      BY <2>1, <2>2, <2>3, WidthsReads
  <1>s. CASE part = "spike"
    <2>1. /\ q.volume_spike_period \in Nat \ {0} /\ q.volume_spike_period + 1 <= n
          /\ s = SpikeOf(Volumes(h), q.volume_spike_period, q.volume_spike_multiplier)
      BY <1>s DEF Suits, Period, Holds
    <2>2. r = S!SpikeIn(w, q)
      BY <1>s, ReadingIs
    <2> QED
      BY <2>1, <2>2, SpikeReads
  <1>p. CASE part = "prior_range"
    <2>1. q.range_lookback \in Nat \ {0} /\ q.range_lookback + 1 <= n /\ PriorRangeIs(s, h, q.range_lookback)
      BY <1>p DEF Suits, Period, Holds
    <2>2. r = S!PriorRange(w, q.range_lookback)
      BY <1>p, ReadingIs
    <2>3. Len(h) > q.range_lookback
      BY <1>1, <2>1
    <2>4. s.value = RangeIn(Recent(S!Front(h), q.range_lookback))
      BY <2>1, <2>3 DEF PriorRangeIs
    <2> QED
      BY <2>1, <2>2, <2>4, PriorRangeReads
  <1>t. CASE part \in {"stochastic", "stochastic_before"}
    <2> DEFINE k == q.stochastic_period
               l == q.smooth_k
               m == q.smooth_d
               kd == S!StochasticKD(w, k, l, m)
    <2>1. k \in Nat \ {0} /\ l \in Nat \ {0} /\ m \in Nat \ {0} /\ k + l + m - 1 <= n
      BY <1>t DEF Suits, Period
    <2>2. part = "stochastic" => s.value = KD(T, h, k, l, m)
      BY DEF Holds, StochasticIs
    <2>3. part = "stochastic_before" => s.value = KD(T, S!Front(h), k, l, m)
      BY <1>1 DEF Holds
    <2>4. /\ part = "stochastic" => r = [k |-> S!FromEnd(kd.k, 0), d |-> S!FromEnd(kd.d, 0)]
          /\ part = "stochastic_before" => r = [k |-> S!FromEnd(kd.k, 1), d |-> S!FromEnd(kd.d, 1)]
      BY ReadingIs
    <2> HIDE DEF k, l, m
    <2>5. /\ [k |-> S!FromEnd(kd.k, 0), d |-> S!FromEnd(kd.d, 0)] = KD(T, h, k, l, m)
          /\ [k |-> S!FromEnd(kd.k, 1), d |-> S!FromEnd(kd.d, 1)] = KD(T, S!Front(h), k, l, m)
      BY <2>1, StochasticReads
    <2> QED
      BY <1>t, <2>2, <2>3, <2>4, <2>5
  <1>w. CASE part = "candle_before"
    <2>1. 2 <= n /\ Len(h) > 1
      BY <1>1, <1>w DEF Suits
    <2>2. s.value = h[Len(h) - 1]
      BY <1>w, <2>1 DEF Holds
    <2>3. r = w[n - 1]
      BY <1>1, <1>w, ReadingIs
    <2>4. 1 \in Nat \ {0} /\ 1 + 1 <= n
      BY <2>1
    <2> DEFINE one == 1
    <2>5. one \in Nat \ {0} /\ one + 1 <= n
      BY <2>4
    <2> HIDE DEF one
    <2>6. w[n - 1] = h[Len(h) - 1]
      BY <2>5, PriorRangeReads
    <2> QED
      BY <2>2, <2>3, <2>6
  <1> QED
    BY <1>m, <1>n, <1>r, <1>a, <1>b, <1>c, <1>e, <1>s, <1>p, <1>t, <1>w DEF Rolling

----------------------------------------------------------------------------
(* The candles every strategy asks for are enough for its parts.           *)

IsLargest(m, D) == m \in D /\ \A x \in D : x <= m

\* The largest of some numbers.
LEMMA LargestOf ==
  ASSUME NEW D \in SUBSET Int, NEW m, IsLargest(m, D)
  PROVE  Max(D) = m
  <1>1. m \in D /\ \A x \in D : x <= m
    BY DEF IsLargest
  <1>2. \A x \in D : Beats(m, x, TRUE)
    BY <1>1 DEF Beats
  <1>3. Extreme(D, TRUE) = m
    BY <1>1, <1>2, ExtremeIs
  <1> QED
    BY <1>3 DEF Extreme

Tops(m, D) == m \in Nat \ {0} /\ \A x \in D : x <= m

\* The largest of two to four positive numbers.
LEMMA LargestOfTwo ==
  ASSUME NEW a \in Nat \ {0}, NEW b \in Nat \ {0}
  PROVE  Tops(Max({a, b}), {a, b})
  <1>1. \E m \in {a, b} : IsLargest(m, {a, b})
    BY DEF IsLargest
  <1> QED
    BY <1>1, LargestOf DEF IsLargest, Tops

\* The largest of three.
LEMMA LargestOfThree ==
  ASSUME NEW a \in Nat \ {0}, NEW b \in Nat \ {0}, NEW c \in Nat \ {0}
  PROVE  Tops(Max({a, b, c}), {a, b, c})
  <1>1. \E m \in {a, b, c} : IsLargest(m, {a, b, c})
    BY DEF IsLargest
  <1> QED
    BY <1>1, LargestOf DEF IsLargest, Tops

\* The largest of four.
LEMMA LargestOfFour ==
  ASSUME NEW a \in Nat \ {0}, NEW b \in Nat \ {0}, NEW c \in Nat \ {0}, NEW d \in Nat \ {0}
  PROVE  Tops(Max({a, b, c, d}), {a, b, c, d})
  <1>1. \E m \in {a, b, c, d} : IsLargest(m, {a, b, c, d})
    BY DEF IsLargest
  <1> QED
    BY <1>1, LargestOf DEF IsLargest, Tops

\* What a strategy needs: enough candles for each of its parts, and the parts
\* that others take their values from.
Sufficient(wanted, q, T) ==
  /\ wanted.candles \in Nat \ {0}
  /\ Complete(wanted.parts)
  /\ \A part \in wanted.parts \cap Rolling : Suits(part, q, wanted.candles, T)

\* A remainder of zero.
LEMMA NoRemainder ==
  ASSUME NEW x \in Int, NEW k \in Nat \ {0}, x % k = 0
  PROVE  Multiple(x, k)
  <1>1. x = k * (x \div k) + (x % k) /\ x \div k \in Int
    OBVIOUS
  <1>2. x = k * (x \div k)
    BY <1>1
  <1> QED
    BY <1>1, <1>2 DEF Multiple

\* Every strategy asks for enough candles.
LEMMA NeedsSuffice ==
  ASSUME NEW name \in S!Registered, NEW q, S!Periods(name, q) \subseteq Nat \ {0}, NEW T,
         "bands" \in S!Needs(name, q).parts => Divided(T, q.bollinger_period)
  PROVE  Sufficient(S!Needs(name, q), q, T)
  <1>1. CASE name = "basic_momentum"
    <2>1. S!Needs(name, q) = S!BasicMomentum(q)
      BY <1>1 DEF S!Needs
    <2>2. q.momentum_period \in Nat \ {0}
      BY <1>1 DEF S!Periods
    <2> DEFINE n == S!BasicMomentum(q).candles
    <2>3. n \in Nat \ {0} /\ q.momentum_period + 1 <= n
      BY <2>2 DEF S!BasicMomentum
    <2>4. S!BasicMomentum(q).parts \cap Rolling = {"momentum"} /\ Complete(S!BasicMomentum(q).parts)
      BY DEF S!BasicMomentum, S!Emas, Rolling, Complete
    <2> HIDE DEF n
    <2>6. \A part \in {"momentum"} : Suits(part, q, n, T)
      BY <2>2, <2>3 DEF Suits, Period
    <2> QED
      BY <2>1, <2>3, <2>4, <2>6 DEF Sufficient, n
  <1>2. CASE name = "ema_rsi"
    <2>1. S!Needs(name, q) = S!EmaRsi(q)
      BY <1>2 DEF S!Needs
    <2>2. q.slow_ema_period \in Nat \ {0} /\ q.rsi_period \in Nat \ {0}
      BY <1>2 DEF S!Periods
    <2> DEFINE n == S!EmaRsi(q).candles
    <2>a. q.slow_ema_period + (IF q.require_crossover THEN 1 ELSE 0) \in Nat \ {0} /\ q.rsi_period + 1 \in Nat \ {0}
      BY <2>2
    <2>b. Tops(Max({q.slow_ema_period + (IF q.require_crossover THEN 1 ELSE 0), q.rsi_period + 1}), {q.slow_ema_period + (IF q.require_crossover THEN 1 ELSE 0), q.rsi_period + 1})
      BY <2>a, LargestOfTwo
    <2>c. n = Max({q.slow_ema_period + (IF q.require_crossover THEN 1 ELSE 0), q.rsi_period + 1})
      BY DEF S!EmaRsi, S!Max, Max
    <2>3. n \in Nat \ {0} /\ q.slow_ema_period + (IF q.require_crossover THEN 1 ELSE 0) <= n /\ q.rsi_period + 1 <= n
      BY <2>b, <2>c DEF Tops
    <2>4. S!EmaRsi(q).parts \cap Rolling = {"rsi"} /\ Complete(S!EmaRsi(q).parts)
      BY DEF S!EmaRsi, S!Emas, Rolling, Complete
    <2> HIDE DEF n
    <2>6. \A part \in {"rsi"} : Suits(part, q, n, T)
      BY <2>2, <2>3 DEF Suits, Period
    <2> QED
      BY <2>1, <2>3, <2>4, <2>6 DEF Sufficient, n
  <1>3. CASE name = "ema_atr_trend"
    <2>1. S!Needs(name, q) = S!EmaAtrTrend(q)
      BY <1>3 DEF S!Needs
    <2>2. q.slow_ema_period \in Nat \ {0} /\ q.atr_period \in Nat \ {0}
      BY <1>3 DEF S!Periods
    <2> DEFINE n == S!EmaAtrTrend(q).candles
    <2>a. q.slow_ema_period + (IF q.require_crossover THEN 1 ELSE 0) \in Nat \ {0} /\ q.atr_period + 1 \in Nat \ {0}
      BY <2>2
    <2>b. Tops(Max({q.slow_ema_period + (IF q.require_crossover THEN 1 ELSE 0), q.atr_period + 1}), {q.slow_ema_period + (IF q.require_crossover THEN 1 ELSE 0), q.atr_period + 1})
      BY <2>a, LargestOfTwo
    <2>c. n = Max({q.slow_ema_period + (IF q.require_crossover THEN 1 ELSE 0), q.atr_period + 1})
      BY DEF S!EmaAtrTrend, S!Max, Max
    <2>3. n \in Nat \ {0} /\ q.slow_ema_period + (IF q.require_crossover THEN 1 ELSE 0) <= n /\ q.atr_period + 1 <= n
      BY <2>b, <2>c DEF Tops
    <2>4. S!EmaAtrTrend(q).parts \cap Rolling = {"atr"} /\ Complete(S!EmaAtrTrend(q).parts)
      BY DEF S!EmaAtrTrend, S!Emas, Rolling, Complete
    <2> HIDE DEF n
    <2>6. \A part \in {"atr"} : Suits(part, q, n, T)
      BY <2>2, <2>3 DEF Suits, Period
    <2> QED
      BY <2>1, <2>3, <2>4, <2>6 DEF Sufficient, n
  <1>4. CASE name = "ema_momentum_breakout"
    <2>1. S!Needs(name, q) = S!EmaMomentum(q)
      BY <1>4 DEF S!Needs
    <2>2. q.slow_ema_period \in Nat \ {0} /\ q.momentum_period \in Nat \ {0} /\ q.atr_period \in Nat \ {0}
      BY <1>4 DEF S!Periods
    <2> DEFINE n == S!EmaMomentum(q).candles
    <2>a. q.slow_ema_period \in Nat \ {0} /\ q.momentum_period + 1 \in Nat \ {0} /\ q.atr_period + 1 \in Nat \ {0}
      BY <2>2
    <2>b. Tops(Max({q.slow_ema_period, q.momentum_period + 1, q.atr_period + 1}), {q.slow_ema_period, q.momentum_period + 1, q.atr_period + 1})
      BY <2>a, LargestOfThree
    <2>c. n = Max({q.slow_ema_period, q.momentum_period + 1, q.atr_period + 1})
      BY DEF S!EmaMomentum, S!Max, Max
    <2>3. n \in Nat \ {0} /\ q.slow_ema_period <= n /\ q.momentum_period + 1 <= n /\ q.atr_period + 1 <= n
      BY <2>b, <2>c DEF Tops
    <2>4. S!EmaMomentum(q).parts \cap Rolling = {"momentum", "atr"} /\ Complete(S!EmaMomentum(q).parts)
      BY DEF S!EmaMomentum, S!Emas, Rolling, Complete
    <2> HIDE DEF n
    <2>6. \A part \in {"momentum", "atr"} : Suits(part, q, n, T)
      BY <2>2, <2>3 DEF Suits, Period
    <2> QED
      BY <2>1, <2>3, <2>4, <2>6 DEF Sufficient, n
  <1>5. CASE name = "range_break_scalper"
    <2>1. S!Needs(name, q) = S!RangeBreak(q)
      BY <1>5 DEF S!Needs
    <2>2. q.slow_ema_period \in Nat \ {0} /\ q.rsi_period \in Nat \ {0} /\ q.range_lookback \in Nat \ {0}
      BY <1>5 DEF S!Periods
    <2> DEFINE n == S!RangeBreak(q).candles
    <2>a. q.slow_ema_period \in Nat \ {0} /\ q.rsi_period + 1 \in Nat \ {0} /\ q.range_lookback + 1 \in Nat \ {0}
      BY <2>2
    <2>b. Tops(Max({q.slow_ema_period, q.rsi_period + 1, q.range_lookback + 1}), {q.slow_ema_period, q.rsi_period + 1, q.range_lookback + 1})
      BY <2>a, LargestOfThree
    <2>c. n = Max({q.slow_ema_period, q.rsi_period + 1, q.range_lookback + 1})
      BY DEF S!RangeBreak, S!Max, Max
    <2>3. n \in Nat \ {0} /\ q.slow_ema_period <= n /\ q.rsi_period + 1 <= n /\ q.range_lookback + 1 <= n
      BY <2>b, <2>c DEF Tops
    <2>4. S!RangeBreak(q).parts \cap Rolling = {"rsi", "prior_range"} /\ Complete(S!RangeBreak(q).parts)
      BY DEF S!RangeBreak, S!Emas, Rolling, Complete
    <2> HIDE DEF n
    <2>6. \A part \in {"rsi", "prior_range"} : Suits(part, q, n, T)
      BY <2>2, <2>3 DEF Suits, Period
    <2> QED
      BY <2>1, <2>3, <2>4, <2>6 DEF Sufficient, n
  <1>6. CASE name = "bb_momentum_breakout"
    <2>1. S!Needs(name, q) = S!BollingerMomentum(q)
      BY <1>6 DEF S!Needs
    <2>2. q.bollinger_period \in Nat \ {0} /\ q.momentum_period \in Nat \ {0} /\ q.atr_period \in Nat \ {0}
      BY <1>6 DEF S!Periods
    <2> DEFINE n == S!BollingerMomentum(q).candles
    <2>a. q.bollinger_period \in Nat \ {0} /\ q.momentum_period + 1 \in Nat \ {0} /\ q.atr_period + 1 \in Nat \ {0}
      BY <2>2
    <2>b. Tops(Max({q.bollinger_period, q.momentum_period + 1, q.atr_period + 1}), {q.bollinger_period, q.momentum_period + 1, q.atr_period + 1})
      BY <2>a, LargestOfThree
    <2>c. n = Max({q.bollinger_period, q.momentum_period + 1, q.atr_period + 1})
      BY DEF S!BollingerMomentum, S!Max, Max
    <2>3. n \in Nat \ {0} /\ q.bollinger_period <= n /\ q.momentum_period + 1 <= n /\ q.atr_period + 1 <= n
      BY <2>b, <2>c DEF Tops
    <2>4. S!BollingerMomentum(q).parts \cap Rolling = {"bands", "momentum", "atr"} /\ Complete(S!BollingerMomentum(q).parts)
      BY DEF S!BollingerMomentum, S!Emas, Rolling, Complete
    <2>5. Divided(T, q.bollinger_period)
      BY <2>1, <2>4
    <2> HIDE DEF n
    <2>6. \A part \in {"bands", "momentum", "atr"} : Suits(part, q, n, T)
      BY <2>2, <2>3, <2>5 DEF Suits, Period
    <2> QED
      BY <2>1, <2>3, <2>4, <2>6 DEF Sufficient, n
  <1>7. CASE name = "bb_rsi_mean_reversion"
    <2>1. S!Needs(name, q) = S!BollingerRsi(q)
      BY <1>7 DEF S!Needs
    <2>2. q.bollinger_period \in Nat \ {0} /\ q.rsi_period \in Nat \ {0} /\ q.atr_period \in Nat \ {0}
      BY <1>7 DEF S!Periods
    <2> DEFINE n == S!BollingerRsi(q).candles
    <2>a. q.bollinger_period \in Nat \ {0} /\ q.rsi_period + 1 \in Nat \ {0} /\ q.atr_period + 1 \in Nat \ {0}
      BY <2>2
    <2>b. Tops(Max({q.bollinger_period, q.rsi_period + 1, q.atr_period + 1}), {q.bollinger_period, q.rsi_period + 1, q.atr_period + 1})
      BY <2>a, LargestOfThree
    <2>c. n = Max({q.bollinger_period, q.rsi_period + 1, q.atr_period + 1})
      BY DEF S!BollingerRsi, S!Max, Max
    <2>3. n \in Nat \ {0} /\ q.bollinger_period <= n /\ q.rsi_period + 1 <= n /\ q.atr_period + 1 <= n
      BY <2>b, <2>c DEF Tops
    <2>4. S!BollingerRsi(q).parts \cap Rolling = {"bands", "rsi"} /\ Complete(S!BollingerRsi(q).parts)
      BY DEF S!BollingerRsi, S!Emas, Rolling, Complete
    <2>5. Divided(T, q.bollinger_period)
      BY <2>1, <2>4
    <2> HIDE DEF n
    <2>6. \A part \in {"bands", "rsi"} : Suits(part, q, n, T)
      BY <2>2, <2>3, <2>5 DEF Suits, Period
    <2> QED
      BY <2>1, <2>3, <2>4, <2>6 DEF Sufficient, n
  <1>8. CASE name = "bb_ema_rsi_mean_reversion"
    <2>1. S!Needs(name, q) = S!BollingerEmaRsi(q)
      BY <1>8 DEF S!Needs
    <2>2. q.bollinger_period \in Nat \ {0} /\ q.rsi_period \in Nat \ {0} /\ q.atr_period \in Nat \ {0} /\ q.slow_ema_period \in Nat \ {0}
      BY <1>8 DEF S!Periods
    <2> DEFINE n == S!BollingerEmaRsi(q).candles
    <2>a. q.bollinger_period \in Nat \ {0} /\ q.rsi_period + 1 \in Nat \ {0} /\ q.atr_period + 1 \in Nat \ {0} /\ q.slow_ema_period \in Nat \ {0}
      BY <2>2
    <2>b. Tops(Max({q.bollinger_period, q.rsi_period + 1, q.atr_period + 1, q.slow_ema_period}), {q.bollinger_period, q.rsi_period + 1, q.atr_period + 1, q.slow_ema_period})
      BY <2>a, LargestOfFour
    <2>c. n = Max({q.bollinger_period, q.rsi_period + 1, q.atr_period + 1, q.slow_ema_period})
      BY DEF S!BollingerEmaRsi, S!Max, Max
    <2>3. n \in Nat \ {0} /\ q.bollinger_period <= n /\ q.rsi_period + 1 <= n /\ q.atr_period + 1 <= n /\ q.slow_ema_period <= n
      BY <2>b, <2>c DEF Tops
    <2>4. S!BollingerEmaRsi(q).parts \cap Rolling = {"bands", "rsi"} /\ Complete(S!BollingerEmaRsi(q).parts)
      BY DEF S!BollingerEmaRsi, S!Emas, Rolling, Complete
    <2>5. Divided(T, q.bollinger_period)
      BY <2>1, <2>4
    <2> HIDE DEF n
    <2>6. \A part \in {"bands", "rsi"} : Suits(part, q, n, T)
      BY <2>2, <2>3, <2>5 DEF Suits, Period
    <2> QED
      BY <2>1, <2>3, <2>4, <2>6 DEF Sufficient, n
  <1>9. CASE name = "failed_range_break_reversal"
    <2>1. S!Needs(name, q) = S!FailedRangeBreak(q)
      BY <1>9 DEF S!Needs
    <2>2. q.range_lookback \in Nat \ {0} /\ q.rsi_period \in Nat \ {0} /\ q.atr_period \in Nat \ {0} /\ q.slow_ema_period \in Nat \ {0}
      BY <1>9 DEF S!Periods
    <2> DEFINE n == S!FailedRangeBreak(q).candles
    <2>a. q.range_lookback + 1 \in Nat \ {0} /\ q.rsi_period + 1 \in Nat \ {0} /\ q.atr_period + 1 \in Nat \ {0} /\ q.slow_ema_period \in Nat \ {0}
      BY <2>2
    <2>b. Tops(Max({q.range_lookback + 1, q.rsi_period + 1, q.atr_period + 1, q.slow_ema_period}), {q.range_lookback + 1, q.rsi_period + 1, q.atr_period + 1, q.slow_ema_period})
      BY <2>a, LargestOfFour
    <2>c. n = Max({q.range_lookback + 1, q.rsi_period + 1, q.atr_period + 1, q.slow_ema_period})
      BY DEF S!FailedRangeBreak, S!Max, Max
    <2>3. n \in Nat \ {0} /\ q.range_lookback + 1 <= n /\ q.rsi_period + 1 <= n /\ q.atr_period + 1 <= n /\ q.slow_ema_period <= n
      BY <2>b, <2>c DEF Tops
    <2>4. S!FailedRangeBreak(q).parts \cap Rolling = {"prior_range", "rsi", "atr"} /\ Complete(S!FailedRangeBreak(q).parts)
      BY DEF S!FailedRangeBreak, S!Emas, Rolling, Complete
    <2> HIDE DEF n
    <2>6. \A part \in {"prior_range", "rsi", "atr"} : Suits(part, q, n, T)
      BY <2>2, <2>3 DEF Suits, Period
    <2> QED
      BY <2>1, <2>3, <2>4, <2>6 DEF Sufficient, n
  <1>10. CASE name = "bb_squeeze_breakout"
    <2>1. S!Needs(name, q) = S!Squeeze(q)
      BY <1>10 DEF S!Needs
    <2>2. q.bollinger_period \in Nat \ {0} /\ q.squeeze_lookback \in Nat \ {0} /\ q.momentum_period \in Nat \ {0} /\ q.atr_period \in Nat \ {0}
      BY <1>10 DEF S!Periods
    <2> DEFINE n == S!Squeeze(q).candles
    <2>a. q.bollinger_period + q.squeeze_lookback \in Nat \ {0} /\ q.momentum_period + 1 \in Nat \ {0} /\ q.atr_period + 1 \in Nat \ {0}
      BY <2>2
    <2>b. Tops(Max({q.bollinger_period + q.squeeze_lookback, q.momentum_period + 1, q.atr_period + 1}), {q.bollinger_period + q.squeeze_lookback, q.momentum_period + 1, q.atr_period + 1})
      BY <2>a, LargestOfThree
    <2>c. n = Max({q.bollinger_period + q.squeeze_lookback, q.momentum_period + 1, q.atr_period + 1})
      BY DEF S!Squeeze, S!Max, Max
    <2>3. n \in Nat \ {0} /\ q.bollinger_period + q.squeeze_lookback <= n /\ q.momentum_period + 1 <= n /\ q.atr_period + 1 <= n
      BY <2>b, <2>c DEF Tops
    <2>4. S!Squeeze(q).parts \cap Rolling = {"bands", "widths", "momentum", "atr"} /\ Complete(S!Squeeze(q).parts)
      BY DEF S!Squeeze, S!Emas, Rolling, Complete
    <2>5. Divided(T, q.bollinger_period)
      BY <2>1, <2>4
    <2> HIDE DEF n
    <2>6a. Suits("bands", q, n, T)
      BY <2>2, <2>3, <2>5 DEF Suits, Period
    <2>6b. Suits("widths", q, n, T)
      BY <2>2, <2>3, <2>5 DEF Suits, Period
    <2>6c. Suits("momentum", q, n, T)
      BY <2>2, <2>3 DEF Suits, Period
    <2>6d. Suits("atr", q, n, T)
      BY <2>2, <2>3 DEF Suits, Period
    <2>6. \A part \in {"bands", "widths", "momentum", "atr"} : Suits(part, q, n, T)
      BY <2>6a, <2>6b, <2>6c, <2>6d
    <2> QED
      BY <2>1, <2>3, <2>4, <2>6 DEF Sufficient, n
  <1>11. CASE name = "ema_atr_pullback_continuation"
    <2>1. S!Needs(name, q) = S!Pullback(q)
      BY <1>11 DEF S!Needs
    <2>2. q.slow_ema_period \in Nat \ {0} /\ q.atr_period \in Nat \ {0} /\ q.rsi_period \in Nat \ {0} /\ q.pullback_lookback \in Nat \ {0}
      BY <1>11 DEF S!Periods
    <2> DEFINE n == S!Pullback(q).candles
    <2>a. q.slow_ema_period \in Nat \ {0} /\ q.atr_period + 1 \in Nat \ {0} /\ q.rsi_period + 1 \in Nat \ {0} /\ q.pullback_lookback + 1 \in Nat \ {0}
      BY <2>2
    <2>b. Tops(Max({q.slow_ema_period, q.atr_period + 1, q.rsi_period + 1, q.pullback_lookback + 1}), {q.slow_ema_period, q.atr_period + 1, q.rsi_period + 1, q.pullback_lookback + 1})
      BY <2>a, LargestOfFour
    <2>c. n = Max({q.slow_ema_period, q.atr_period + 1, q.rsi_period + 1, q.pullback_lookback + 1})
      BY DEF S!Pullback, S!Max, Max
    <2>3. n \in Nat \ {0} /\ q.slow_ema_period <= n /\ q.atr_period + 1 <= n /\ q.rsi_period + 1 <= n /\ q.pullback_lookback + 1 <= n
      BY <2>b, <2>c DEF Tops
    <2>4. S!Pullback(q).parts \cap Rolling = {"atr", "rsi", "candle_before"} /\ Complete(S!Pullback(q).parts)
      BY DEF S!Pullback, S!Emas, Rolling, Complete
    <2> HIDE DEF n
    <2>6. \A part \in {"atr", "rsi", "candle_before"} : Suits(part, q, n, T)
      BY <2>2, <2>3 DEF Suits, Period
    <2> QED
      BY <2>1, <2>3, <2>4, <2>6 DEF Sufficient, n
  <1>12. CASE name = "pine_bb_rsi_stoch"
    <2>1. S!Needs(name, q) = S!Pine(q)
      BY <1>12 DEF S!Needs
    <2>2. q.bollinger_period \in Nat \ {0} /\ q.rsi_period \in Nat \ {0} /\ q.stochastic_period \in Nat \ {0} /\ q.smooth_k \in Nat \ {0} /\ q.smooth_d \in Nat \ {0}
      BY <1>12 DEF S!Periods
    <2> DEFINE n == S!Pine(q).candles
    <2>a. q.bollinger_period + 1 \in Nat \ {0} /\ q.rsi_period + 1 \in Nat \ {0} /\ q.stochastic_period + q.smooth_k + q.smooth_d - 1 \in Nat \ {0}
      BY <2>2
    <2>b. Tops(Max({q.bollinger_period + 1, q.rsi_period + 1, q.stochastic_period + q.smooth_k + q.smooth_d - 1}), {q.bollinger_period + 1, q.rsi_period + 1, q.stochastic_period + q.smooth_k + q.smooth_d - 1})
      BY <2>a, LargestOfThree
    <2>c. n = Max({q.bollinger_period + 1, q.rsi_period + 1, q.stochastic_period + q.smooth_k + q.smooth_d - 1})
      BY DEF S!Pine, S!Max, Max
    <2>3. n \in Nat \ {0} /\ q.bollinger_period + 1 <= n /\ q.rsi_period + 1 <= n /\ q.stochastic_period + q.smooth_k + q.smooth_d - 1 <= n
      BY <2>b, <2>c DEF Tops
    <2>4. S!Pine(q).parts \cap Rolling = {"bands", "bands_before", "gain_loss", "stochastic", "stochastic_before", "candle_before"} /\ Complete(S!Pine(q).parts)
      BY DEF S!Pine, S!Emas, Rolling, Complete
    <2>5. Divided(T, q.bollinger_period)
      BY <2>1, <2>4
    <2> HIDE DEF n
    <2>6a. Suits("bands", q, n, T)
      BY <2>2, <2>3, <2>5 DEF Suits, Period
    <2>6b. Suits("bands_before", q, n, T)
      BY <2>2, <2>3, <2>5 DEF Suits, Period
    <2>6c. Suits("gain_loss", q, n, T)
      BY <2>2, <2>3 DEF Suits, Period
    <2>6d. Suits("stochastic", q, n, T)
      BY <2>2, <2>3 DEF Suits, Period
    <2>6e. Suits("stochastic_before", q, n, T)
      BY <2>2, <2>3 DEF Suits, Period
    <2>6f. Suits("candle_before", q, n, T)
      BY <2>2, <2>3 DEF Suits, Period
    <2>6. \A part \in {"bands", "bands_before", "gain_loss", "stochastic", "stochastic_before", "candle_before"} : Suits(part, q, n, T)
      BY <2>6a, <2>6b, <2>6c, <2>6d, <2>6e, <2>6f
    <2> QED
      BY <2>1, <2>3, <2>4, <2>6 DEF Sufficient, n
  <1>13. CASE name = "fvg_ma_volume_profile"
    <2>1. S!Needs(name, q) = S!Fvg(q)
      BY <1>13 DEF S!Needs
    <2>2. q.sma_period \in Nat \ {0} /\ q.volume_profile_lookback \in Nat \ {0} /\ q.volume_spike_period \in Nat \ {0} /\ q.fvg_lookback \in Nat \ {0}
      BY <1>13 DEF S!Periods
    <2> DEFINE n == S!Fvg(q).candles
    <2>a. q.sma_period \in Nat \ {0} /\ q.volume_profile_lookback \in Nat \ {0} /\ q.volume_spike_period + 1 \in Nat \ {0} /\ q.fvg_lookback + 2 \in Nat \ {0}
      BY <2>2
    <2>b. Tops(Max({q.sma_period, q.volume_profile_lookback, q.volume_spike_period + 1, q.fvg_lookback + 2}), {q.sma_period, q.volume_profile_lookback, q.volume_spike_period + 1, q.fvg_lookback + 2})
      BY <2>a, LargestOfFour
    <2>c. n = Max({q.sma_period, q.volume_profile_lookback, q.volume_spike_period + 1, q.fvg_lookback + 2})
      BY DEF S!Fvg, S!Max, Max
    <2>3. n \in Nat \ {0} /\ q.sma_period <= n /\ q.volume_profile_lookback <= n /\ q.volume_spike_period + 1 <= n /\ q.fvg_lookback + 2 <= n
      BY <2>b, <2>c DEF Tops
    <2>4. S!Fvg(q).parts \cap Rolling = {"mean", "spike"} /\ Complete(S!Fvg(q).parts)
      BY DEF S!Fvg, S!Emas, Rolling, Complete
    <2> HIDE DEF n
    <2>6. \A part \in {"mean", "spike"} : Suits(part, q, n, T)
      BY <2>2, <2>3 DEF Suits, Period
    <2> QED
      BY <2>1, <2>3, <2>4, <2>6 DEF Sufficient, n
  <1> QED
    BY <1>1, <1>2, <1>3, <1>4, <1>5, <1>6, <1>7, <1>8, <1>9, <1>10, <1>11, <1>12, <1>13 DEF S!Registered

\* Only one strategy scans candles itself.
LEMMA OnlyOneScans ==
  ASSUME NEW name \in S!Registered, NEW q, S!Periods(name, q) \subseteq Nat \ {0},
         "candles" \in S!Needs(name, q).parts
  PROVE  /\ name = "fvg_ma_volume_profile"
         /\ Period(q.fvg_lookback) /\ Period(q.volume_profile_lookback)
         /\ S!Needs(name, q).candles >= q.volume_profile_lookback
  <1>1. name = "fvg_ma_volume_profile"
    <2>1. CASE name \in {"basic_momentum", "ema_rsi", "ema_atr_trend", "ema_momentum_breakout"}
      BY <2>1 DEF S!Needs, S!BasicMomentum, S!EmaRsi, S!EmaAtrTrend, S!EmaMomentum, S!Emas
    <2>2. CASE name \in {"range_break_scalper", "bb_momentum_breakout", "bb_rsi_mean_reversion",
                         "bb_ema_rsi_mean_reversion"}
      BY <2>2 DEF S!Needs, S!RangeBreak, S!BollingerMomentum, S!BollingerRsi, S!BollingerEmaRsi
    <2>3. CASE name \in {"failed_range_break_reversal", "bb_squeeze_breakout",
                         "ema_atr_pullback_continuation", "pine_bb_rsi_stoch"}
      BY <2>3 DEF S!Needs, S!FailedRangeBreak, S!Squeeze, S!Pullback, S!Pine
    <2> QED
      BY <2>1, <2>2, <2>3 DEF S!Registered
  <1>2. /\ q.fvg_lookback \in Nat \ {0} /\ q.volume_profile_lookback \in Nat \ {0}
        /\ q.sma_period \in Nat \ {0} /\ q.volume_spike_period \in Nat \ {0}
    BY <1>1 DEF S!Periods
  <1>3. /\ q.sma_period \in Nat \ {0} /\ q.volume_profile_lookback \in Nat \ {0}
        /\ q.volume_spike_period + 1 \in Nat \ {0} /\ q.fvg_lookback + 2 \in Nat \ {0}
    BY <1>2
  <1>4. Tops(Max({q.sma_period, q.volume_profile_lookback, q.volume_spike_period + 1, q.fvg_lookback + 2}),
             {q.sma_period, q.volume_profile_lookback, q.volume_spike_period + 1, q.fvg_lookback + 2})
    BY <1>3, LargestOfFour
  <1>5. S!Needs(name, q).candles
          = Max({q.sma_period, q.volume_profile_lookback, q.volume_spike_period + 1, q.fvg_lookback + 2})
    BY <1>1 DEF S!Needs, S!Fvg, S!Max, Max
  <1>6. S!Needs(name, q).candles \in Nat /\ q.volume_profile_lookback <= S!Needs(name, q).candles
    BY <1>4, <1>5 DEF Tops
  <1> QED
    BY <1>1, <1>2, <1>6 DEF Period

\* The candles of a strategy and what it needs.
LEMMA StrategyGiven ==
  ASSUME NEW name \in Strategies
  PROVE  /\ Priced(Input[name]) /\ Ranged(Input[name])
         /\ Sufficient(S!Needs(name, Parameters[name]), Parameters[name], Input[name])
         /\ name \in S!Registered /\ S!Periods(name, Parameters[name]) \subseteq Nat \ {0}
  <1> DEFINE T == Input[name]
             q == Parameters[name]
  <1>1. name \in S!Registered /\ S!Periods(name, q) \subseteq Nat \ {0}
    BY StrategiesAssumption, PeriodsAssumption
  <1>2. \A c \in T : c \in Candles /\ c.tick_volume \in Nat /\ c.low <= c.high
    BY InputAssumption
  <1>3. \A c \in T : c.open \in Int /\ c.high \in Int /\ c.low \in Int /\ c.close \in Int
    BY <1>2, PricesAssumption
  <1>4. Priced(T)
    BY <1>2, <1>3 DEF Priced
  <1>5. Ranged(T)
    BY <1>2 DEF Ranged
  <1>6. ASSUME "bands" \in S!Needs(name, q).parts PROVE Divided(T, q.bollinger_period)
    <2> DEFINE k == q.bollinger_period
    <2>1. \A c \in T : c.close % k = 0
      BY <1>6, UnitAssumption
    <2>2. Sufficient(S!Needs(name, q), q, {})
      BY <1>1, NeedsSuffice DEF Divided
    <2>3. Suits("bands", q, S!Needs(name, q).candles, {})
      BY <1>6, <2>2 DEF Sufficient, Rolling
    <2>4. k \in Nat \ {0}
      BY <2>3 DEF Suits, Period
    <2> HIDE DEF k
    <2>5. \A c \in T : Multiple(c.close, k)
      BY <1>3, <2>1, <2>4, NoRemainder
    <2> QED
      BY <2>5 DEF Divided, k
  <1> HIDE DEF T, q
  <1>7. Sufficient(S!Needs(name, q), q, T)
    BY <1>1, <1>6, NeedsSuffice
  <1> QED
    BY <1>1, <1>4, <1>5, <1>7 DEF T, q

\* What evaluator and reference hold after candles h: n candles seen, of which
\* the window w has the newest, and the structures of the bank b.
Seen(name, h, w, b, n) ==
  LET q == Parameters[name]
      need == S!Needs(name, q)
  IN /\ n = Len(h)
     /\ w = Recent(h, need.candles)
     /\ \A part \in need.parts \cap Rolling : Holds(part, b[part], Input[name], h, q)
     /\ "candles" \in need.parts =>
          b["candles"].value = Recent(h, S!Larger(q.volume_profile_lookback, q.fvg_lookback + 3))

\* Nothing seen yet.
LEMMA SeenNone ==
  ASSUME NEW name \in Strategies
  PROVE  Seen(name, <<>>, <<>>, S!FreshBank(S!Needs(name, Parameters[name])), 0)
  <1> DEFINE q == Parameters[name]
             need == S!Needs(name, q)
             T == Input[name]
             b == S!FreshBank(need)
             L == S!Larger(q.volume_profile_lookback, q.fvg_lookback + 3)
  <1>1. Priced(T) /\ Ranged(T) /\ Sufficient(need, q, T)
    BY StrategyGiven
  <1>2. need.candles \in Nat /\ \A part \in need.parts \cap Rolling : Suits(part, q, need.candles, T)
    BY <1>1 DEF Sufficient
  <1>3. \A part \in need.parts : b[part] = S!Fresh(part)
    BY DEF S!FreshBank
  <1>4. Recent(<<>>, need.candles) = <<>>
    BY <1>2, RecentOfNone
  <1> HIDE DEF q, T, b
  <1>5. ASSUME NEW part \in need.parts \cap Rolling PROVE Holds(part, b[part], T, <<>>, q)
    BY <1>1, <1>2, <1>3, PartStarts
  <1>6. ASSUME "candles" \in need.parts PROVE b["candles"].value = Recent(<<>>, L)
    <2>1. b["candles"].value = <<>>
      BY <1>3, <1>6 DEF S!Fresh
    <2>2. q.volume_profile_lookback \in Nat /\ q.fvg_lookback + 3 \in Nat
      BY <1>6, StrategyGiven, OnlyOneScans DEF Period, q
    <2>3. L \in Nat
      BY <2>2 DEF S!Larger
    <2> HIDE DEF L
    <2> QED
      BY <2>1, <2>3, RecentOfNone
  <1>7. Len(<<>>) = 0
    OBVIOUS
  <1> QED
    BY <1>4, <1>5, <1>6, <1>7 DEF Seen, q, T, b

\* One more candle seen.
LEMMA SeenOneMore ==
  ASSUME NEW name \in Strategies, NEW h \in Seq(Input[name]), NEW c \in Input[name],
         NEW w, NEW b, NEW n, Seen(name, h, w, b, n)
  PROVE  LET q == Parameters[name]
             need == S!Needs(name, q)
         IN Seen(name, Append(h, c), S!Push(w, c, need.candles), S!Updated(b, c, q, need), n + 1)
  <1> DEFINE q == Parameters[name]
             need == S!Needs(name, q)
             T == Input[name]
             u == S!Updated(b, c, q, need)
             L == S!Larger(q.volume_profile_lookback, q.fvg_lookback + 3)
             g == Append(h, c)
  <1>1. Priced(T) /\ Ranged(T) /\ Sufficient(need, q, T)
    BY StrategyGiven
  <1>2. /\ need.candles \in Nat \ {0} /\ Complete(need.parts)
        /\ \A part \in need.parts \cap Rolling : Suits(part, q, need.candles, T)
    BY <1>1 DEF Sufficient
  <1>3. /\ n = Len(h) /\ w = Recent(h, need.candles)
        /\ \A part \in need.parts \cap Rolling : Holds(part, b[part], T, h, q)
        /\ "candles" \in need.parts => b["candles"].value = Recent(h, L)
    BY DEF Seen
  <1>4. h \in Seq(T) /\ c \in T /\ Len(g) = n + 1
    BY <1>3
  <1> HIDE DEF T, g
  <1>5. S!Push(w, c, need.candles) = Recent(g, need.candles)
    BY <1>2, <1>3, <1>4, PushRecent DEF g
  <1>6. ASSUME "candles" \in need.parts PROVE u["candles"].value = Recent(g, L)
    <2>1. Following(u["candles"], "candles", b, c, q)
      BY <1>6, EveryPartUpdated
    <2>2. u["candles"].value = S!Push(Recent(h, L), c, L)
      BY <1>3, <1>6, <2>1 DEF Following
    <2>3. q.volume_profile_lookback \in Nat \ {0} /\ q.fvg_lookback + 3 \in Nat \ {0}
      BY <1>6, StrategyGiven, OnlyOneScans DEF Period
    <2>4. L \in Nat \ {0}
      BY <2>3 DEF S!Larger
    <2> HIDE DEF L, u
    <2> QED
      BY <1>4, <2>2, <2>4, PushRecent DEF g
  <1> HIDE DEF q, need, L
  <1>7. ASSUME NEW part \in need.parts \cap Rolling PROVE Holds(part, u[part], T, g, q)
    <2> DEFINE m == need.candles
    <2>1. \A x \in need.parts \cap Rolling : Suits(x, q, m, T) /\ Holds(x, b[x], T, h, q)
      BY <1>2, <1>3
    <2> HIDE DEF m
    <2> QED
      BY <1>1, <1>2, <1>4, <2>1, PartFollows DEF g
  <1> QED
    BY <1>4, <1>5, <1>6, <1>7 DEF Seen, T, g, q, need, L

----------------------------------------------------------------------------
(* The gaps a strategy finds do not depend on how many more candles it     *)
(* keeps than its lookback spans.                                          *)

IsGap(w, i) == w[i - 1].high < w[i + 1].low \/ w[i - 1].low > w[i + 1].high

GapsIn(w, a, b) == {i \in a .. b : IsGap(w, i)}

ZoneAt(w, i) ==
  IF w[i - 1].high < w[i + 1].low
  THEN [direction |-> "BUY", lower |-> w[i - 1].high, upper |-> w[i + 1].low]
  ELSE [direction |-> "SELL", lower |-> w[i + 1].high, upper |-> w[i - 1].low]

\* The newest of some positions.
LEMMA NewestPosition ==
  ASSUME NEW b \in Nat, NEW D, D \subseteq 0 .. b, D # {}
  PROVE  Max(D) \in D /\ \A j \in D : j <= Max(D)
  <1> DEFINE E == {b - i : i \in D}
  <1>0. \A i \in D : i \in Nat /\ b - i \in Nat
    OBVIOUS
  <1>a. E \subseteq Nat
    BY <1>0
  <1>b. E # {}
    OBVIOUS
  <1>1. E \in SUBSET Nat /\ E # {}
    BY <1>a, <1>b
  <1>2. PICK x \in E : \A y \in E : x <= y
    BY <1>1, LeastOne
  <1>3. PICK m \in D : x = b - m
    BY <1>2
  <1>4. ASSUME NEW j \in D PROVE j <= m
    <2>1. b - j \in E
      OBVIOUS
    <2>2. b - m <= b - j
      BY <1>2, <1>3, <2>1
    <2> QED
      BY <1>0, <2>2
  <1>5. D \in SUBSET Int /\ IsLargest(m, D)
    BY <1>3, <1>4 DEF IsLargest
  <1>6. Max(D) = m
    BY <1>5, LargestOf
  <1> HIDE DEF E
  <1> QED
    BY <1>3, <1>4, <1>6

\* The newest gap, position by position.
LEMMA ZoneIs ==
  ASSUME NEW w, NEW lookback \in Nat, NEW m \in Nat, Len(w) = m, lookback + 3 <= m
  PROVE  S!LatestFvg(w, lookback) =
           LET gaps == GapsIn(w, m - 1 - lookback, m - 2)
           IN IF gaps = {} THEN None ELSE ZoneAt(w, Max(gaps))
  <1>1. S!Larger(2, m - 1 - lookback) = m - 1 - lookback
    BY DEF S!Larger
  <1> QED
    BY <1>1, Zenon DEF S!LatestFvg, GapsIn, IsGap, ZoneAt, S!Max, Max

\* The newest gap is that of the newest lookback + 3 candles.
LEMMA SameZone ==
  ASSUME NEW T, NEW w \in Seq(T), NEW lookback \in Nat, NEW m \in Nat, Len(w) = m, lookback + 3 <= m
  PROVE  S!LatestFvg(w, lookback) = S!LatestFvg(Recent(w, lookback + 3), lookback)
  <1> DEFINE l == lookback + 3
             v == Recent(w, l)
             d == m - l
             W == GapsIn(w, m - 1 - lookback, m - 2)
             V == GapsIn(v, l - 1 - lookback, l - 2)
  <1>1. l \in Nat /\ l <= m /\ d \in Nat /\ l - 1 - lookback = 2 /\ m - 1 - lookback = d + 2
        /\ l - 2 + d = m - 2 /\ l - 2 = lookback + 1 /\ l - 2 \in Nat /\ m - 2 \in Nat /\ lookback + 3 <= l
    OBVIOUS
  <1>2. IsFull(v, w, m, l)
    BY <1>1, FullRecent
  <1> HIDE DEF v
  <1>3. Len(v) = l /\ \A i \in 1 .. l : v[i] = w[d + i]
    BY <1>1, <1>2 DEF IsFull
  <1>4. ASSUME NEW i \in 2 .. l - 2
        PROVE  (IsGap(w, d + i) <=> IsGap(v, i)) /\ ZoneAt(w, d + i) = ZoneAt(v, i)
    <2>1. i - 1 \in 1 .. l /\ i + 1 \in 1 .. l /\ d + (i - 1) = (d + i) - 1 /\ d + (i + 1) = (d + i) + 1
      BY <1>1
    <2>2. v[i - 1] = w[(d + i) - 1] /\ v[i + 1] = w[(d + i) + 1]
      BY <1>3, <2>1
    <2> QED
      BY <2>2 DEF IsGap, ZoneAt
  <1>5. S!LatestFvg(w, lookback) = IF W = {} THEN None ELSE ZoneAt(w, Max(W))
    BY ZoneIs
  <1>6. S!LatestFvg(v, lookback) = IF V = {} THEN None ELSE ZoneAt(v, Max(V))
    BY <1>1, <1>3, ZoneIs
  <1> HIDE DEF l, d
  <1>7. \A i \in V : d + i \in W
    BY <1>1, <1>4 DEF GapsIn
  <1>8. \A j \in W : j - d \in V
    <2> SUFFICES ASSUME NEW j \in W PROVE j - d \in V
      OBVIOUS
    <2>1. j \in d + 2 .. m - 2 /\ IsGap(w, j)
      BY <1>1 DEF GapsIn
    <2>2. j - d \in 2 .. l - 2 /\ d + (j - d) = j
      BY <1>1, <2>1
    <2>3. IsGap(v, j - d)
      BY <1>4, <2>1, <2>2
    <2> QED
      BY <1>1, <2>2, <2>3 DEF GapsIn
  <1>9. W \subseteq 0 .. m - 2 /\ V \subseteq 2 .. l - 2 /\ V \subseteq 0 .. l - 2
    BY <1>1 DEF GapsIn
  <1> HIDE DEF V, W
  <1>10. W = {} <=> V = {}
    BY <1>7, <1>8
  <1>11. ASSUME V # {} PROVE ZoneAt(w, Max(W)) = ZoneAt(v, Max(V))
    <2>1. Max(V) \in V /\ \A j \in V : j <= Max(V)
      BY <1>1, <1>9, <1>11, NewestPosition
    <2>2. PICK i : i = Max(V)
      OBVIOUS
    <2>a. i \in V /\ \A j \in V : j <= i
      BY <2>1, <2>2
    <2>b. i \in 2 .. l - 2
      BY <1>9, <2>a
    <2>3. i \in V /\ i \in 2 .. l - 2 /\ i \in Int /\ \A j \in V : j <= i
      BY <2>a, <2>b
    <2>4. d + i \in W
      BY <1>7, <2>3
    <2>5. ASSUME NEW j \in W PROVE j <= d + i
      <3>1. j - d \in V /\ j \in Int
        BY <1>8, <1>9
      <3>2. j - d <= i
        BY <2>3, <3>1
      <3> QED
        BY <1>1, <2>3, <3>1, <3>2
    <2>6. W \in SUBSET Int /\ IsLargest(d + i, W)
      BY <1>9, <2>4, <2>5 DEF IsLargest
    <2>7. Max(W) = d + i
      BY <2>6, LargestOf
    <2> QED
      BY <1>4, <2>2, <2>3, <2>7
  <1> QED
    BY <1>5, <1>6, <1>10, <1>11 DEF v, l

----------------------------------------------------------------------------
(* The two evaluations, candle by candle.                                  *)

Averages == {"fast", "medium", "slow", "fast_before", "slow_before", "touches"}

\* No strategy that runs reads an exponential average.
WithoutEma == \A s \in Strategies : S!Needs(s, Parameters[s]).parts \cap Averages = {}

\* The parts there are.
LEMMA KindsOfParts ==
  ASSUME NEW name \in S!Registered, NEW q
  PROVE  S!Needs(name, q).parts \subseteq Rolling \cup Averages \cup {"candles"}
  <1>1. CASE name \in {"basic_momentum", "ema_rsi", "ema_atr_trend", "ema_momentum_breakout"}
    BY <1>1 DEF S!Needs, S!BasicMomentum, S!EmaRsi, S!EmaAtrTrend, S!EmaMomentum, S!Emas, Rolling, Averages
  <1>2. CASE name \in {"range_break_scalper", "bb_momentum_breakout", "bb_rsi_mean_reversion",
                       "bb_ema_rsi_mean_reversion"}
    BY <1>2 DEF S!Needs, S!RangeBreak, S!BollingerMomentum, S!BollingerRsi, S!BollingerEmaRsi, Rolling,
                Averages
  <1>3. CASE name \in {"failed_range_break_reversal", "bb_squeeze_breakout",
                       "ema_atr_pullback_continuation", "pine_bb_rsi_stoch", "fvg_ma_volume_profile"}
    BY <1>3 DEF S!Needs, S!FailedRangeBreak, S!Squeeze, S!Pullback, S!Pine, S!Fvg, Rolling, Averages
  <1> QED
    BY <1>1, <1>2, <1>3 DEF S!Registered

\* The evaluator and the reference have seen the same candles.
Followed ==
  /\ strategy \in Strategies
  /\ \E h \in Seq(Input[strategy]) : Seen(strategy, h, window, bank, count)

\* So it stays.
LEMMA FollowedAlways == Spec => []Followed
  <1>1. Init => Followed
    <2> SUFFICES ASSUME Init PROVE Followed
      OBVIOUS
    <2>1. strategy \in Strategies /\ window = <<>> /\ count = 0
          /\ bank = S!FreshBank(S!Needs(strategy, Parameters[strategy]))
      BY DEF Init, needs, p
    <2>2. Seen(strategy, <<>>, window, bank, count)
      BY <2>1, SeenNone
    <2>3. <<>> \in Seq(Input[strategy])
      OBVIOUS
    <2> QED
      BY <2>1, <2>2, <2>3 DEF Followed
  <1>2. Followed /\ [Next]_vars => Followed'
    <2> SUFFICES ASSUME Followed, [Next]_vars PROVE Followed'
      OBVIOUS
    <2>1. PICK name : name = strategy
      OBVIOUS
    <2>2. PICK h \in Seq(Input[name]) : Seen(name, h, window, bank, count)
      BY <2>1 DEF Followed
    <2>3. ASSUME NEW c \in Input[strategy], NEW t \in 0 .. MaxTime, Replay(c, t)
          PROVE  Followed'
      <3>1. /\ strategy' = name /\ name \in Strategies /\ c \in Input[name]
            /\ window' = S!Push(window, c, S!Needs(name, Parameters[name]).candles)
            /\ bank' = S!Updated(bank, c, Parameters[name], S!Needs(name, Parameters[name]))
            /\ count' = count + 1
        BY <2>1, <2>3 DEF Replay, needs, p, Followed
      <3>2. Seen(name, Append(h, c), window', bank', count')
        BY <2>2, <3>1, SeenOneMore
      <3>3. Append(h, c) \in Seq(Input[name])
        BY <3>1
      <3> QED
        BY <3>1, <3>2, <3>3 DEF Followed
    <2>4. ASSUME UNCHANGED <<strategy, window, bank, count>> PROVE Followed'
      BY <2>4 DEF Followed
    <2> QED
      BY <2>3, <2>4 DEF Next, vars, evaluator
  <1> QED
    BY <1>1, <1>2, PTL DEF Spec

\* Once a strategy has the candles it needs, every structure but those of its
\* exponential averages reads what its indicator computes from the window.
RollingAgrees ==
  count >= needs.candles =>
    \A part \in needs.parts \cap Rolling : bank[part].value = S!Reading(part, window, p)

\* From what both have seen.
LEMMA SeenAgrees ==
  ASSUME NEW name \in Strategies, NEW h \in Seq(Input[name]), NEW w, NEW b, NEW n, Seen(name, h, w, b, n),
         n >= S!Needs(name, Parameters[name]).candles,
         NEW part \in S!Needs(name, Parameters[name]).parts \cap Rolling
  PROVE  b[part].value = S!Reading(part, w, Parameters[name])
  <1> DEFINE q == Parameters[name]
             need == S!Needs(name, q)
             T == Input[name]
             m == need.candles
  <1>1. Priced(T) /\ Ranged(T) /\ Sufficient(need, q, T)
    BY StrategyGiven
  <1>2. m \in Nat \ {0} /\ Suits(part, q, m, T)
    BY <1>1 DEF Sufficient
  <1>3. m <= Len(h) /\ w = Recent(h, m) /\ Holds(part, b[part], T, h, q)
    BY <1>2 DEF Seen
  <1>4. part \in Rolling /\ h \in Seq(T)
    OBVIOUS
  <1> HIDE DEF m, T, q
  <1>5. b[part].value = S!Reading(part, Recent(h, m), q)
    BY <1>1, <1>2, <1>3, <1>4, PartReads
  <1> QED
    BY <1>3, <1>5 DEF q

\* Every rolling structure but the exponential averages, in every backtest.
THEOREM ReplayRollingAgrees == Spec => []RollingAgrees
  <1>1. Followed => RollingAgrees
    <2> SUFFICES ASSUME Followed, count >= needs.candles, NEW part \in needs.parts \cap Rolling
                 PROVE  bank[part].value = S!Reading(part, window, p)
      BY DEF RollingAgrees
    <2>1. PICK h \in Seq(Input[strategy]) : Seen(strategy, h, window, bank, count)
      BY DEF Followed
    <2> QED
      BY <2>1, SeenAgrees DEF Followed, needs, p
  <1> QED
    BY <1>1, FollowedAlways, PTL

\* All of a strategy's structures, where it reads no exponential average.
THEOREM ReplayIndicatorsAgree == WithoutEma => (Spec => []IndicatorsAgree)
  <1> SUFFICES ASSUME WithoutEma PROVE Spec => []IndicatorsAgree
    OBVIOUS
  <1>1. StrategyKnown /\ RollingAgrees => IndicatorsAgree
    <2> SUFFICES ASSUME StrategyKnown, RollingAgrees PROVE IndicatorsAgree
      OBVIOUS
    <2>1. needs.parts \subseteq Rolling \cup Averages \cup {"candles"}
      BY StrategyGiven, KindsOfParts DEF needs, p, StrategyKnown
    <2>2. needs.parts \cap Averages = {}
      BY DEF WithoutEma, StrategyKnown, needs, p
    <2>3. needs.parts \ {"touches", "candles"} \subseteq needs.parts \cap Rolling
      BY <2>1, <2>2
    <2> QED
      BY <2>3 DEF RollingAgrees, IndicatorsAgree
  <1>2. Followed => StrategyKnown
    BY DEF Followed, StrategyKnown
  <1> QED
    BY <1>1, <1>2, FollowedAlways, ReplayRollingAgrees, PTL

\* A scan over the candles the evaluator keeps finds what one over the window
\* of the reference does.
LEMMA SameScan ==
  ASSUME NEW T, NEW h \in Seq(T), NEW q, Period(q.fvg_lookback), Period(q.volume_profile_lookback),
         NEW n \in Nat, n <= Len(h), q.volume_profile_lookback <= n, q.fvg_lookback + 3 <= n,
         NEW r1, NEW r2, r1.mean = r2.mean, r1.spike = r2.spike, r1.candles = Recent(h, n),
         r2.candles = Recent(h, S!Larger(q.volume_profile_lookback, q.fvg_lookback + 3)),
         NEW c
  PROVE  S!FvgRule(q, r1, c) = S!FvgRule(q, r2, c)
  <1> DEFINE a == q.fvg_lookback
             b == q.volume_profile_lookback
             l == S!Larger(b, a + 3)
             x == Recent(h, n)
             y == Recent(h, l)
  <1>1. a \in Nat /\ b \in Nat /\ a + 3 \in Nat /\ b <= n /\ a + 3 <= n
    BY DEF Period
  <1> HIDE DEF a, b
  <1>2. l \in Nat /\ a + 3 <= l /\ b <= l /\ l <= n /\ l <= Len(h)
    BY <1>1 DEF S!Larger
  <1> HIDE DEF l
  <1>3. x \in Seq(T) /\ Len(x) = n /\ y \in Seq(T) /\ Len(y) = l
    BY <1>2, RecentLength
  <1>4. Recent(x, a + 3) = Recent(h, a + 3) /\ Recent(y, a + 3) = Recent(h, a + 3)
    BY <1>1, <1>2, RecentOfRecent
  <1>5. Recent(x, b) = Recent(h, b) /\ Recent(y, b) = Recent(h, b)
    BY <1>1, <1>2, RecentOfRecent
  <1> HIDE DEF x, y
  <1>6. S!LatestFvg(x, a) = S!LatestFvg(Recent(x, a + 3), a)
    BY <1>1, <1>3, SameZone
  <1>7. S!LatestFvg(y, a) = S!LatestFvg(Recent(y, a + 3), a)
    BY <1>1, <1>2, <1>3, SameZone
  <1>8. S!LatestFvg(x, a) = S!LatestFvg(y, a)
    BY <1>4, <1>6, <1>7
  <1>9. S!Newest(x, b) = Recent(x, b) /\ S!Newest(y, b) = Recent(y, b)
    BY <1>1, <1>2, <1>3, NewestIsRecent
  <1>10. S!Newest(x, b) = S!Newest(y, b)
    BY <1>5, <1>9
  <1>11. S!LatestFvg(r1.candles, q.fvg_lookback) = S!LatestFvg(r2.candles, q.fvg_lookback)
    BY <1>8 DEF x, y, l, a, b
  <1>12. S!Newest(r1.candles, q.volume_profile_lookback) = S!Newest(r2.candles, q.volume_profile_lookback)
    BY <1>10 DEF x, y, l, a, b
  <1> QED
    BY <1>11, <1>12 DEF S!FvgRule

----------------------------------------------------------------------------
(* The two texts of a strategy, on the same readings.                      *)

\* Four strategies word their conditions differently and decide alike.
LEMMA SimpleTexts ==
  ASSUME NEW name \in {"basic_momentum", "bb_momentum_breakout", "bb_rsi_mean_reversion",
                       "bb_squeeze_breakout"},
         NEW q, NEW r, NEW c
  PROVE  S!FastRule(name, q, r, c) = S!Rule(name, q, r, c)
  <1>1. CASE name = "basic_momentum"
    BY <1>1 DEF S!FastRule, S!Rule, S!FastBasicMomentumRule, S!BasicMomentumRule, S!Decide, S!NotMet
  <1>2. CASE name = "bb_momentum_breakout"
    BY <1>2 DEF S!FastRule, S!Rule, S!FastBollingerMomentumRule, S!BollingerMomentumRule, S!Decide, S!NotMet
  <1>3. CASE name = "bb_rsi_mean_reversion"
    BY <1>3 DEF S!FastRule, S!Rule, S!FastBollingerRsiRule, S!BollingerRsiRule, S!NotMet
  <1>4. CASE name = "bb_squeeze_breakout"
    BY <1>4 DEF S!FastRule, S!Rule, S!FastSqueezeRule, S!SqueezeRule, S!Decide, S!Directed, S!Volatile,
                S!NoTrade, S!Trade, S!NotMet
  <1> QED
    BY <1>1, <1>2, <1>3, <1>4

\* So does the scan for gaps, whichever candles it scans.
LEMMA ScanTexts ==
  ASSUME NEW q, NEW r, NEW c
  PROVE  S!FastFvgRule(q, r, c) = S!FvgRule(q, r, c)
  <1> DEFINE zone == S!LatestFvg(r.candles, q.fvg_lookback)
             near == S!NearProfile(S!Newest(r.candles, q.volume_profile_lookback),
                                   q.volume_profile_bins, c.close, q.poc_tolerance)
  <1>1. zone = None \/ zone.direction = "BUY" \/ zone.direction = "SELL"
    BY DEF S!LatestFvg
  <1> HIDE DEF zone, near
  <1>2. CASE zone = None \/ r.mean = None
    BY <1>2 DEF S!FastFvgRule, S!FvgRule, S!NotMet, zone
  <1>3. CASE ~ (zone = None) /\ ~ (r.mean = None) /\ zone.direction = "BUY"
    BY <1>3 DEF S!FastFvgRule, S!FvgRule, S!NotMet, S!Directed, S!Decide, S!NoTrade, S!Trade, zone, near
  <1>4. CASE ~ (zone = None) /\ ~ (r.mean = None) /\ zone.direction = "SELL"
    BY <1>4 DEF S!FastFvgRule, S!FvgRule, S!NotMet, S!Directed, S!Decide, S!NoTrade, S!Trade, zone, near
  <1> QED
    BY <1>1, <1>2, <1>3, <1>4

\* The parts pine_bb_rsi_stoch asks for before it decides.
Asked == {"bands", "bands_before", "gain_loss", "stochastic", "stochastic_before"}

\* What a structure says, once there are enough candles, is not None.
LEMMA AskedIsThere ==
  ASSUME NEW T, Priced(T), Ranged(T), NEW h \in Seq(T), NEW n \in Nat \ {0}, n <= Len(h), NEW q,
         NEW part \in Asked, Suits(part, q, n, T), NEW s, Holds(part, s, T, h, q)
  PROVE  /\ part \in {"bands", "bands_before", "gain_loss"} => s.value # None
         /\ part \in {"stochastic", "stochastic_before"} => s.value.k # None /\ s.value.d # None
  <1> DEFINE f == S!Closes(h)
             g == S!Front(h)
  <1>1. Len(h) \in Nat /\ Len(h) # 0 /\ g \in Seq(T) /\ Len(g) = Len(h) - 1
    BY LastSplit
  <1>2. f \in Seq(Int) /\ Len(f) = Len(h)
    BY ClosesFollow, ListsOfRecent
  <1>3. CASE part = "bands"
    <2>1. s = BandsOf(f, q.bollinger_period) /\ q.bollinger_period \in Nat \ {0} /\ ~ (Len(f) < q.bollinger_period)
      BY <1>2, <1>3 DEF Holds, Suits, Period
    <2>2. s.value = BandsValue(f, q.bollinger_period)
      BY <2>1 DEF BandsOf
    <2> HIDE DEF f
    <2> QED
      BY <1>2, <1>3, <2>1, <2>2, VarianceIs
  <1>4. CASE part = "bands_before"
    <2> DEFINE e == S!Front(f)
               m == Len(h) - 1
    <2>1. m \in Nat /\ Len(f) = m + 1
      BY <1>1, <1>2
    <2>2. e \in Seq(Int) /\ Len(e) = m
      BY <1>2, <2>1, FrontIs
    <2>3. s.value = BandsValue(e, q.bollinger_period) /\ q.bollinger_period \in Nat \ {0}
          /\ ~ (m < q.bollinger_period)
      BY <1>1, <1>4 DEF Holds, Suits, Period
    <2> HIDE DEF e, m
    <2> QED
      BY <1>4, <2>2, <2>3, VarianceIs
  <1>5. CASE part = "gain_loss"
    <2> DEFINE k == q.rsi_period
               gain == S!SumOf(Recent(Rises(f), k)) \div k
               loss == S!SumOf(Recent(Falls(f), k)) \div k
    <2>1. s = GainLossOf(f, k) /\ k \in Nat \ {0} /\ ~ (Len(f) < k + 1)
      BY <1>2, <1>5 DEF Holds, Suits, Period
    <2>2. Rises(f) \in Seq(Int) /\ Falls(f) \in Seq(Int)
      BY <1>2, ChangesAre
    <2>3. gain \in Int /\ loss \in Int
      <3>1. 0 \in Int /\ k \in Nat \ {0} /\ \A x \in Int : x \div k \in Int
        BY <2>1
      <3> HIDE DEF k
      <3>2. S!SumOf(Recent(Rises(f), k)) \in Int /\ S!SumOf(Recent(Falls(f), k)) \in Int
        BY <2>2, <3>1, RollingSum
      <3> QED
        BY <3>1, <3>2
    <2>4. s.value = [gain |-> gain, loss |-> loss]
      BY <2>1 DEF GainLossOf, AverageOf
    <2> HIDE DEF gain, loss
    <2> QED
      BY <1>5, <2>3, <2>4, NoReadingAssumption
  <1>6. CASE part \in {"stochastic", "stochastic_before"}
    <2> DEFINE k == q.stochastic_period
               sk == q.smooth_k
               sd == q.smooth_d
    <2>1. k \in Nat \ {0} /\ sk \in Nat \ {0} /\ sd \in Nat \ {0} /\ k + sk + sd - 1 <= Len(h)
      BY <1>1, <1>6 DEF Suits, Period
    <2>2. part = "stochastic" => s.value = KD(T, h, k, sk, sd)
      BY DEF Holds, StochasticIs
    <2>3. part = "stochastic_before" => s.value = KD(T, g, k, sk, sd)
      BY <1>1 DEF Holds
    <2> HIDE DEF k, sk, sd, g
    <2>4. ASSUME NEW x \in Seq(T), k + sk + sd - 2 <= Len(x)
          PROVE  KD(T, x, k, sk, sd).k # None /\ KD(T, x, k, sk, sd).d # None
      <3> DEFINE y == Ks(T, x, k, sk)
                 z == Ds(T, x, k, sk, sd)
      <3>1. /\ IsMean(y, Raws(T, x, k), sk) /\ IsMean(z, y, sd)
            /\ KD(T, x, k, sk, sd) = [k |-> y[Len(y)], d |-> z[Len(z)]]
        BY <2>1, <2>4, NewestKD
      <3> HIDE DEF y, z
      <3>2. y[Len(y)] \in Int /\ z[Len(z)] \in Int
        BY <3>1 DEF IsMean
      <3> QED
        BY <3>1, <3>2, NoReadingAssumption
    <2>5. k + sk + sd - 2 <= Len(h) /\ k + sk + sd - 2 <= Len(g)
      BY <1>1, <2>1
    <2> QED
      BY <1>1, <1>6, <2>2, <2>3, <2>4, <2>5
  <1> QED
    BY <1>3, <1>4, <1>5, <1>6 DEF Asked

\* Where they are there, pine_bb_rsi_stoch decides as evaluate() does.
LEMMA PineTexts ==
  ASSUME NEW q, NEW r, NEW c,
         r.bands # None, r.bands_before # None, r.gain_loss # None,
         r.stochastic.k # None, r.stochastic.d # None,
         r.stochastic_before.k # None, r.stochastic_before.d # None
  PROVE  S!FastPineRule(q, r, c) = S!PineRule(q, r, c)
  BY DEF S!FastPineRule, S!PineRule

----------------------------------------------------------------------------
(* The two decisions.                                                      *)

\* The readings of both, part by part.
Kept(b, parts) == [part \in parts |-> b[part].value]

Read(w, q, parts) == [part \in parts |-> S!Reading(part, w, q)]

\* The scan for gaps stays within the candles the strategy needs.
ScansWithin(name) ==
  name = "fvg_ma_volume_profile" =>
    Parameters[name].fvg_lookback + 3 <= S!Needs(name, Parameters[name]).candles

DecidesAlike(name, w, b, n, c) ==
  LET q == Parameters[name]
      need == S!Needs(name, q)
  IN S!Guarded(c, n, need, S!FastRule(name, q, Kept(b, need.parts), c))
       = S!Guarded(c, Len(w), need, S!Rule(name, q, Read(w, q, need.parts), c))

\* The strategies that read no exponential average.
LEMMA RegisteredWithoutEma ==
  ASSUME NEW name \in S!Registered, NEW q, S!Needs(name, q).parts \cap Averages = {}
  PROVE  name \in {"basic_momentum", "bb_momentum_breakout", "bb_rsi_mean_reversion",
                   "bb_squeeze_breakout", "pine_bb_rsi_stoch", "fvg_ma_volume_profile"}
  <1> SUFFICES ASSUME name \in {"ema_rsi", "ema_atr_trend", "ema_momentum_breakout", "range_break_scalper",
                                "bb_ema_rsi_mean_reversion", "failed_range_break_reversal",
                                "ema_atr_pullback_continuation"}
               PROVE  "fast" \in S!Needs(name, q).parts
    BY DEF S!Registered, Averages
  <1> QED
    BY DEF S!Needs, S!EmaRsi, S!EmaAtrTrend, S!EmaMomentum, S!Emas, S!RangeBreak, S!BollingerEmaRsi,
           S!FailedRangeBreak, S!Pullback

\* The decisions agree on what both have seen.
LEMMA SeenDecides ==
  ASSUME NEW name \in Strategies, WithoutEma, ScansWithin(name),
         NEW h \in Seq(Input[name]), NEW w, NEW b, NEW n, Seen(name, h, w, b, n), NEW c
  PROVE  DecidesAlike(name, w, b, n, c)
  <1> DEFINE q == Parameters[name]
             need == S!Needs(name, q)
             T == Input[name]
             m == need.candles
             kept == Kept(b, need.parts)
             read == Read(w, q, need.parts)
  <1>1. /\ Priced(T) /\ Ranged(T) /\ Sufficient(need, q, T)
        /\ name \in S!Registered /\ S!Periods(name, q) \subseteq Nat \ {0}
    BY StrategyGiven
  <1>2. m \in Nat \ {0}
    BY <1>1 DEF Sufficient
  <1>3. n = Len(h) /\ w = Recent(h, m) /\ n \in Nat
    BY DEF Seen
  <1>4. (n >= m => Len(w) = m) /\ (n < m => Len(w) = n)
    BY <1>2, <1>3, RecentLength
  <1>5. CASE n < m
    BY <1>2, <1>3, <1>4, <1>5 DEF S!Guarded, DecidesAlike
  <1>6. CASE n >= m
    <2>1. need.parts \subseteq Rolling \cup Averages \cup {"candles"} /\ need.parts \cap Averages = {}
      BY <1>1, KindsOfParts DEF WithoutEma
    <2>2. \A part \in need.parts \ {"candles"} : part \in need.parts \cap Rolling
      BY <2>1
    <2>3. ASSUME NEW part \in need.parts \cap Rolling PROVE b[part].value = S!Reading(part, w, q)
      BY <1>6, SeenAgrees
    <2>4. \A part \in need.parts \ {"candles"} : kept[part] = read[part]
      BY <2>2, <2>3 DEF Kept, Read
    <2>5. S!FastRule(name, q, kept, c) = S!Rule(name, q, read, c)
      <3>1. CASE name \in {"basic_momentum", "bb_momentum_breakout", "bb_rsi_mean_reversion",
                           "bb_squeeze_breakout"}
        <4>1. kept = read
          BY <2>4, <3>1, OnlyOneScans, <1>1 DEF Kept, Read
        <4> HIDE DEF kept, read
        <4> QED
          BY <3>1, <4>1, SimpleTexts
      <3>2. CASE name = "pine_bb_rsi_stoch"
        <4>1. Asked \subseteq need.parts /\ Asked \subseteq Rolling /\ "candles" \notin need.parts
          BY <3>2 DEF S!Needs, S!Pine, Asked, Rolling
        <4>2. kept = read
          BY <2>4, <4>1 DEF Kept, Read
        <4>3. ASSUME NEW part \in Asked
              PROVE  /\ part \in {"bands", "bands_before", "gain_loss"} => b[part].value # None
                     /\ part \in {"stochastic", "stochastic_before"} =>
                          b[part].value.k # None /\ b[part].value.d # None
          <5>1. part \in need.parts \cap Rolling
            BY <4>1
          <5>2. Suits(part, q, m, T) /\ Holds(part, b[part], T, h, q)
            BY <1>1, <5>1 DEF Sufficient, Seen
          <5>3. m <= Len(h) /\ h \in Seq(T)
            BY <1>2, <1>3, <1>6
          <5> HIDE DEF m, T, q
          <5> QED
            BY <1>1, <1>2, <5>2, <5>3, AskedIsThere
        <4>4. \A part \in Asked : kept[part] = b[part].value
          BY <4>1 DEF Kept
        <4> HIDE DEF kept, read
        <4>5. /\ kept.bands # None /\ kept.bands_before # None /\ kept.gain_loss # None
              /\ kept.stochastic.k # None /\ kept.stochastic.d # None
              /\ kept.stochastic_before.k # None /\ kept.stochastic_before.d # None
          <5>1. kept["bands"] # None /\ kept["bands_before"] # None /\ kept["gain_loss"] # None
            BY <4>3, <4>4 DEF Asked
          <5>2. /\ kept["stochastic"].k # None /\ kept["stochastic"].d # None
                /\ kept["stochastic_before"].k # None /\ kept["stochastic_before"].d # None
            BY <4>3, <4>4 DEF Asked
          <5> QED
            BY <5>1, <5>2
        <4>6. S!FastPineRule(q, kept, c) = S!PineRule(q, kept, c)
          BY <4>5, PineTexts
        <4> QED
          BY <3>2, <4>2, <4>6 DEF S!FastRule, S!Rule
      <3>3. CASE name = "fvg_ma_volume_profile"
        <4>1. /\ need.parts = {"mean", "spike", "candles"}
              /\ Period(q.fvg_lookback) /\ Period(q.volume_profile_lookback)
              /\ m >= q.volume_profile_lookback
          <5>1. need.parts = {"mean", "spike", "candles"}
            BY <3>3 DEF S!Needs, S!Fvg
          <5> QED
            BY <1>1, <5>1, OnlyOneScans
        <4>3. kept.mean = read.mean /\ kept.spike = read.spike
          <5>1. "mean" \in need.parts \ {"candles"} /\ "spike" \in need.parts \ {"candles"}
            BY <4>1
          <5> HIDE DEF kept, read
          <5>2. kept["mean"] = read["mean"] /\ kept["spike"] = read["spike"]
            BY <2>4, <5>1
          <5> QED
            BY <5>2
        <4>4. read.candles = Recent(h, m)
          <5>1. read["candles"] = S!Reading("candles", w, q)
            BY <4>1 DEF Read
          <5>2. S!Reading("candles", w, q) = w
            BY ReadingIs
          <5> HIDE DEF read
          <5> QED
            BY <1>3, <5>1, <5>2
        <4>5. kept.candles = Recent(h, S!Larger(q.volume_profile_lookback, q.fvg_lookback + 3))
          <5>1. kept["candles"] = b["candles"].value
            BY <4>1 DEF Kept
          <5>2. b["candles"].value = Recent(h, S!Larger(q.volume_profile_lookback, q.fvg_lookback + 3))
            BY <4>1 DEF Seen
          <5> HIDE DEF kept
          <5> QED
            BY <5>1, <5>2
        <4>6. q.fvg_lookback + 3 <= m
          BY <3>3 DEF ScansWithin
        <4>7. m \in Nat /\ m <= Len(h) /\ q.volume_profile_lookback <= m /\ h \in Seq(T)
          BY <1>2, <1>3, <1>6, <4>1 DEF Period
        <4> HIDE DEF kept, read, q, m, T
        <4>8. S!FvgRule(q, read, c) = S!FvgRule(q, kept, c)
          BY <4>1, <4>3, <4>4, <4>5, <4>6, <4>7, SameScan
        <4>9. S!FastFvgRule(q, kept, c) = S!FvgRule(q, kept, c)
          BY ScanTexts
        <4> QED
          BY <3>3, <4>8, <4>9 DEF S!FastRule, S!Rule
      <3> QED
        BY <1>1, <2>1, <3>1, <3>2, <3>3, RegisteredWithoutEma
    <2>6. ~ (n < m) /\ ~ (Len(w) < m)
      BY <1>2, <1>3, <1>4, <1>6
    <2> HIDE DEF kept, read
    <2> QED
      BY <2>5, <2>6 DEF S!Guarded, kept, read, DecidesAlike
  <1> QED
    BY <1>2, <1>3, <1>5, <1>6 DEF DecidesAlike

\* Every decision of a backtest whose strategy reads no exponential average:
\* the fast evaluator and evaluate() answer alike, their texts and their
\* indicators together, unless the scan for gaps reaches past the window.
THEOREM ReplayFastAgrees == WithoutEma => (Spec => []FastAgreesWithinWindow)
  <1> SUFFICES ASSUME WithoutEma PROVE Spec => []FastAgreesWithinWindow
    OBVIOUS
  <1>1. Followed => FastAgreesWithinWindow
    <2> SUFFICES ASSUME Followed,
                        strategy = "fvg_ma_volume_profile" => p.fvg_lookback + 3 <= needs.candles
                 PROVE  S!FastDecision(strategy, p, bank, count, Last(window))
                          = S!ReferenceDecision(strategy, p, window)
      BY DEF FastAgreesWithinWindow
    <2> DEFINE c == S!Last(window)
    <2>1. PICK h \in Seq(Input[strategy]) : Seen(strategy, h, window, bank, count)
      BY DEF Followed
    <2>2. S!Guarded(c, count, needs, S!FastRule(strategy, p, Kept(bank, needs.parts), c))
            = S!Guarded(c, Len(window), needs, S!Rule(strategy, p, Read(window, p, needs.parts), c))
      <3>1. strategy \in Strategies
        BY DEF Followed
      <3>2. ScansWithin(strategy)
        BY DEF ScansWithin, needs, p
      <3>3. DecidesAlike(strategy, window, bank, count, c)
        BY <2>1, <3>1, <3>2, SeenDecides
      <3> QED
        BY <3>3 DEF DecidesAlike, needs, p
    <2>3. S!FastDecision(strategy, p, bank, count, c)
            = S!Guarded(c, count, needs, S!FastRule(strategy, p, Kept(bank, needs.parts), c))
      BY DEF S!FastDecision, Kept, needs
    <2>4. S!ReferenceDecision(strategy, p, window)
            = S!Guarded(c, Len(window), needs, S!Rule(strategy, p, Read(window, p, needs.parts), c))
      BY DEF S!ReferenceDecision, Read, needs
    <2>5. Last(window) = c
      BY DEF Last, S!Last
    <2> QED
      BY <2>2, <2>3, <2>4, <2>5
  <1> QED
    BY <1>1, FollowedAlways, PTL
=============================================================================
