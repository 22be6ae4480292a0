------------------------------ MODULE ChartProofs ------------------------------
(***************************************************************************)
(* The worker's window, for every manifest, every way the partitions       *)
(* deliver it and every crash: it is the newest readings in measured       *)
(* order.  The window is sorted by insertion and trimmed at its old end;   *)
(* what it has let go of is older than all it holds, and it lets go of     *)
(* something only when it is full.                                         *)
(***************************************************************************)
EXTENDS StreamProofs, FunctionTheorems, FiniteSetTheorems

Points == [at : Nat, dev : Int]

Chronological(s) == \A i, j \in 1..Len(s) : i < j => s[i].at < s[j].at

\* The window buf of a process that has charted the points S.
WindowOK(buf, S) ==
    /\ buf \in Seq(Points)
    /\ Chronological(buf)
    /\ Len(buf) <= WINDOW
    /\ Elements(buf) \subseteq S
    /\ \A z \in S \ Elements(buf) : \A y \in Elements(buf) : z.at < y.at
    /\ S # Elements(buf) => Len(buf) = WINDOW

\* Another point than those of S, also by its time.
Fresh(x, S) == x \in Points /\ \A y \in S : y.at # x.at

-----------------------------------------------------------------------------
(* insort.                                                                 *)

LEMMA PointsAre ==
    ASSUME NEW buf \in Seq(Points)
    PROVE  /\ Len(buf) \in Nat /\ DOMAIN buf = 1..Len(buf)
           /\ \A i \in 1..Len(buf) :
                 /\ buf[i] \in Points /\ buf[i] \in Elements(buf)
                 /\ buf[i].at \in Nat /\ buf[i].dev \in Int
<1>1. Len(buf) \in Nat /\ DOMAIN buf = 1..Len(buf)
  OBVIOUS
<1>2. \A i \in 1..Len(buf) : buf[i] \in Points
  OBVIOUS
<1>3. \A y \in Points : y.at \in Nat /\ y.dev \in Int
  BY DEF Points
<1>. QED
  BY <1>1, <1>2, <1>3 DEF Elements

\* The points up to x come first.
LEMMA UpToIsAPrefix ==
    ASSUME NEW buf \in Seq(Points), Chronological(buf), NEW x \in Points
    PROVE  \E k \in 0..Len(buf) : {j \in DOMAIN buf : LessEq(buf[j], x)} = 1..k
<1> DEFINE n == Len(buf)
           Before(j) == LessEq(buf[j], x)
           T == {m \in Nat : m <= n => \E k \in 0..m : {j \in 1..m : Before(j)} = 1..k}
<1>1. n \in Nat /\ DOMAIN buf = 1..n
  OBVIOUS
<1>2. \A i, j \in 1..n : i < j /\ Before(j) => Before(i)
  <2>1. ASSUME NEW i \in 1..n, NEW j \in 1..n, i < j, Before(j)
        PROVE  Before(i)
    <3>1. buf[i].at \in Nat /\ buf[j].at \in Nat /\ x.at \in Nat
      BY PointsAre DEF Points
    <3>2. buf[i].at < buf[j].at /\ buf[j].at <= x.at
      BY <2>1, <3>1 DEF Chronological, LessEq
    <3>. QED
      BY <3>1, <3>2 DEF LessEq
  <2>. QED
    BY <2>1
<1> HIDE DEF n, Before
<1>3. 0 \in T
  <2>1. {j \in 1..0 : Before(j)} = 1..0
    OBVIOUS
  <2>. QED
    BY <2>1
<1>4. ASSUME NEW m \in T
      PROVE  m + 1 \in T
  <2>1. m \in Nat
    BY <1>4
  <2>2. SUFFICES ASSUME m + 1 <= n
                 PROVE  \E k \in 0..(m + 1) : {j \in 1..(m + 1) : Before(j)} = 1..k
    BY <2>1
  <2>3. PICK k \in 0..m : {j \in 1..m : Before(j)} = 1..k
    BY <1>1, <1>4, <2>1, <2>2
  <2>4. CASE ~Before(m + 1)
    <3>1. {j \in 1..(m + 1) : Before(j)} = 1..k
      BY <2>1, <2>3, <2>4
    <3>. QED
      BY <2>1, <2>3, <3>1
  <2>5. CASE Before(m + 1)
    <3>1. \A j \in 1..m : Before(j)
      BY <1>1, <1>2, <2>1, <2>2, <2>5
    <3>2. {j \in 1..(m + 1) : Before(j)} = 1..(m + 1)
      BY <2>1, <2>5, <3>1
    <3>. QED
      BY <2>1, <3>2
  <2>. QED
    BY <2>4, <2>5
<1>5. T = Nat
  <2>1. T \subseteq Nat
    OBVIOUS
  <2> HIDE DEF T
  <2>. QED
    BY <1>3, <1>4, <2>1, SetInduction
<1>6. \E k \in 0..n : {j \in 1..n : Before(j)} = 1..k
  <2>1. n \in T
    <3> HIDE DEF T
    <3>. QED
      BY <1>1, <1>5
  <2>2. n <= n
    BY <1>1
  <2>. QED
    BY <2>1, <2>2
<1>. QED
  BY <1>1, <1>6 DEF n, Before

\* x stands between the points before it and those after it.
LEMMA InsortIs ==
    ASSUME NEW buf \in Seq(Points), Chronological(buf), NEW x, Fresh(x, Elements(buf))
    PROVE  /\ insort(buf, x) \in Seq(Points)
           /\ Chronological(insort(buf, x))
           /\ Len(insort(buf, x)) = Len(buf) + 1
           /\ Elements(insort(buf, x)) = Elements(buf) \cup {x}
<1> DEFINE n == Len(buf)
           Q == {j \in DOMAIN buf : LessEq(buf[j], x)}
<1>1. n \in Nat /\ x \in Points /\ x.at \in Nat /\ DOMAIN buf = 1..n
  BY DEF Fresh, Points
<1>2. PICK k \in 0..n : Q = 1..k
  BY <1>1, UpToIsAPrefix
<1>3. Cardinality(Q) = k
  <2>1. Cardinality(1..k) = IF 1 > k THEN 0 ELSE k - 1 + 1
    BY <1>1, <1>2, FS_Interval
  <2> HIDE DEF Q
  <2>. QED
    BY <1>1, <1>2, <2>1
<1>4. \A j \in 1..n : IF j <= k THEN buf[j].at < x.at ELSE x.at < buf[j].at
  <2>1. ASSUME NEW j \in 1..n
        PROVE  IF j <= k THEN buf[j].at < x.at ELSE x.at < buf[j].at
    <3>1. buf[j].at \in Nat /\ buf[j].at # x.at
      BY PointsAre DEF Fresh
    <3>2. j \in Q <=> j <= k
      <4> HIDE DEF Q
      <4>. QED
        BY <1>1, <1>2
    <3>3. LessEq(buf[j], x) <=> j <= k
      BY <1>1, <3>2
    <3>. QED
      BY <1>1, <3>1, <3>3 DEF LessEq
  <2>. QED
    BY <2>1
<1> DEFINE front == SubSeq(buf, 1, k)
           back == SubSeq(buf, k + 1, n)
           left == front \o <<x>>
           w == left \o back
<1>5. insort(buf, x) = w
  BY <1>3 DEF insort
<1>6. front \in Seq(Points) /\ Len(front) = k /\ \A j \in 1..k : front[j] = buf[j]
  <2>1. \A j \in 1..k : buf[j] \in Points
    BY <1>1
  <2>2. /\ front \in Seq(Points) /\ Len(front) = IF 1 <= k THEN k - 1 + 1 ELSE 0
        /\ \A j \in 1..(k - 1 + 1) : front[j] = buf[1 + j - 1]
    BY <2>1, SubSeqProperties
  <2> HIDE DEF front
  <2>3. k - 1 + 1 = k /\ \A j \in Int : 1 + j - 1 = j
    BY <1>1
  <2>4. \A j \in 1..k : front[j] = buf[j]
    BY <2>2, <2>3
  <2>5. Len(front) = k
    BY <1>1, <2>2
  <2>. QED
    BY <2>2, <2>4, <2>5
<1>7. back \in Seq(Points) /\ Len(back) = n - k /\ \A j \in 1..(n - k) : back[j] = buf[k + j]
  <2>1. k + 1 \in Int /\ n \in Int /\ \A j \in (k + 1)..n : buf[j] \in Points
    BY <1>1
  <2>2. /\ back \in Seq(Points) /\ Len(back) = IF k + 1 <= n THEN n - (k + 1) + 1 ELSE 0
        /\ \A j \in 1..(n - (k + 1) + 1) : back[j] = buf[(k + 1) + j - 1]
    <3> HIDE DEF n
    <3>. QED
      BY <2>1, SubSeqProperties
  <2> HIDE DEF back, n
  <2>3. n - (k + 1) + 1 = n - k /\ \A j \in Int : (k + 1) + j - 1 = k + j
    BY <1>1
  <2>4. ASSUME NEW j \in 1..(n - k)
        PROVE  back[j] = buf[k + j]
    <3>1. j \in 1..(n - (k + 1) + 1) /\ (k + 1) + j - 1 = k + j
      BY <2>3
    <3>. QED
      BY <2>2, <3>1
  <2>5. Len(back) = n - k
    BY <1>1, <2>2
  <2>. QED
    BY <2>2, <2>4, <2>5
<1>8. /\ left \in Seq(Points) /\ Len(left) = k + 1
      /\ \A j \in 1..(k + 1) : left[j] = IF j <= k THEN buf[j] ELSE x
  <2>1. <<x>> \in Seq(Points) /\ Len(<<x>>) = 1 /\ <<x>>[1] = x
    BY <1>1
  <2> DEFINE one == <<x>>
  <2> HIDE DEF front, one
  <2>2. /\ front \o one \in Seq(Points) /\ Len(front \o one) = Len(front) + Len(one)
        /\ \A j \in 1..(Len(front) + Len(one)) :
              (front \o one)[j] = IF j <= Len(front) THEN front[j] ELSE one[j - Len(front)]
    BY <1>6, <2>1, ConcatProperties DEF one
  <2>3. \A j \in 1..(k + 1) : (front \o one)[j] = IF j <= k THEN buf[j] ELSE x
    <3>1. ASSUME NEW j \in 1..(k + 1)
          PROVE  (front \o one)[j] = IF j <= k THEN buf[j] ELSE x
      <4>1. CASE j <= k
        BY <1>1, <1>6, <2>1, <2>2, <4>1 DEF one
      <4>2. CASE ~(j <= k)
        <5>1. j - k = 1
          BY <1>1, <4>2
        <5>. QED
          BY <1>1, <1>6, <2>1, <2>2, <4>2, <5>1 DEF one
      <4>. QED
        BY <4>1, <4>2
    <3>. QED
      BY <3>1
  <2>. QED
    BY <1>6, <2>1, <2>2, <2>3 DEF one
<1>9. /\ w \in Seq(Points) /\ Len(w) = n + 1
      /\ \A j \in 1..(n + 1) :
            w[j] = IF j <= k THEN buf[j] ELSE IF j = k + 1 THEN x ELSE buf[j - 1]
  <2> HIDE DEF left, back, n
  <2>1. /\ left \o back \in Seq(Points) /\ Len(left \o back) = Len(left) + Len(back)
        /\ \A j \in 1..(Len(left) + Len(back)) :
              (left \o back)[j] = IF j <= Len(left) THEN left[j] ELSE back[j - Len(left)]
    BY <1>7, <1>8, ConcatProperties
  <2>2. Len(left) + Len(back) = n + 1
    BY <1>1, <1>7, <1>8
  <2>3. ASSUME NEW j \in 1..(n + 1)
        PROVE  w[j] = IF j <= k THEN buf[j] ELSE IF j = k + 1 THEN x ELSE buf[j - 1]
    <3>1. CASE j <= k + 1
      <4>1. j \in 1..(k + 1) /\ w[j] = left[j]
        BY <1>1, <1>8, <2>1, <2>2, <3>1
      <4>. QED
        BY <1>1, <1>8, <3>1, <4>1
    <3>2. CASE ~(j <= k + 1)
      <4>1. j - (k + 1) \in 1..(n - k) /\ k + (j - (k + 1)) = j - 1
        BY <1>1, <3>2
      <4>2. w[j] = back[j - (k + 1)]
        BY <1>8, <2>1, <2>2, <3>2
      <4>3. back[j - (k + 1)] = buf[j - 1]
        BY <1>7, <4>1
      <4>. QED
        BY <1>1, <3>2, <4>2, <4>3
    <3>. QED
      BY <3>1, <3>2
  <2>. QED
    BY <2>1, <2>2, <2>3
<1> HIDE DEF w
<1>10. Chronological(w)
  <2>1. ASSUME NEW i \in 1..(n + 1), NEW j \in 1..(n + 1), i < j
        PROVE  w[i].at < w[j].at
    <3>1. \A a, b \in 1..n : a < b => buf[a].at < buf[b].at
      BY DEF Chronological
    <3>2. \A a \in 1..n : buf[a].at \in Nat
      BY PointsAre
    <3> HIDE DEF n
    <3>3. CASE i <= k
      <4>1. w[i] = buf[i] /\ i \in 1..n
        BY <1>1, <1>9, <3>3
      <4>2. CASE j <= k
        BY <1>1, <1>9, <2>1, <3>1, <4>1, <4>2
      <4>3. CASE j = k + 1
        BY <1>1, <1>4, <1>9, <3>3, <4>1, <4>3
      <4>4. CASE j > k + 1
        <5>1. w[j] = buf[j - 1] /\ j - 1 \in 1..n /\ i < j - 1
          BY <1>1, <1>9, <3>3, <4>4
        <5>. QED
          BY <3>1, <4>1, <5>1
      <4>. QED
        BY <1>1, <4>2, <4>3, <4>4
    <3>4. CASE i = k + 1
      <4>1. w[i] = x /\ w[j] = buf[j - 1] /\ j - 1 \in 1..n /\ ~(j - 1 <= k)
        BY <1>1, <1>9, <2>1, <3>4
      <4>. QED
        BY <1>4, <4>1
    <3>5. CASE i > k + 1
      <4>1. /\ w[i] = buf[i - 1] /\ i - 1 \in 1..n /\ w[j] = buf[j - 1] /\ j - 1 \in 1..n
            /\ i - 1 < j - 1
        BY <1>1, <1>9, <2>1, <3>5
      <4>. QED
        BY <3>1, <4>1
    <3>. QED
      BY <1>1, <3>3, <3>4, <3>5
  <2>. QED
    BY <1>9, <2>1 DEF Chronological
<1>11. Elements(w) = Elements(buf) \cup {x}
  <2>1. Elements(w) = {w[j] : j \in 1..(n + 1)} /\ Elements(buf) = {buf[j] : j \in 1..n}
    BY <1>9 DEF Elements
  <2> HIDE DEF n
  <2>2. ASSUME NEW j \in 1..(n + 1)
        PROVE  w[j] \in Elements(buf) \cup {x}
    <3>1. j <= k => j \in 1..n
      BY <1>1
    <3>2. j > k + 1 => j - 1 \in 1..n
      BY <1>1
    <3>. QED
      BY <1>1, <1>9, <2>1, <3>1, <3>2
  <2>3. ASSUME NEW j \in 1..n
        PROVE  buf[j] \in Elements(w)
    <3>1. CASE j <= k
      <4>1. j \in 1..(n + 1) /\ w[j] = buf[j]
        BY <1>1, <1>9, <3>1
      <4>. QED
        BY <2>1, <4>1
    <3>2. CASE ~(j <= k)
      <4>1. j + 1 \in 1..(n + 1) /\ ~(j + 1 <= k) /\ j + 1 # k + 1 /\ (j + 1) - 1 = j
        BY <1>1, <3>2
      <4>2. w[j + 1] = buf[j]
        BY <1>9, <4>1
      <4>. QED
        BY <2>1, <4>1, <4>2
    <3>. QED
      BY <3>1, <3>2
  <2>4. x \in Elements(w)
    <3>1. k + 1 \in 1..(n + 1) /\ w[k + 1] = x
      BY <1>1, <1>9
    <3>. QED
      BY <2>1, <3>1
  <2>5. Elements(w) \subseteq Elements(buf) \cup {x}
    BY <2>1, <2>2
  <2>6. Elements(buf) \subseteq Elements(w)
    BY <2>1, <2>3
  <2>. QED
    BY <2>4, <2>5, <2>6
<1>. QED
  BY <1>5, <1>9, <1>10, <1>11

-----------------------------------------------------------------------------
(* observe, and the window as a set of readings.                           *)

\* The head of the window goes: it is older than all the rest.
LEMMA TailIs ==
    ASSUME NEW w \in Seq(Points), Chronological(w), Len(w) > 0
    PROVE  /\ Tail(w) \in Seq(Points) /\ Len(Tail(w)) = Len(w) - 1
           /\ Chronological(Tail(w))
           /\ Elements(w) = Elements(Tail(w)) \cup {w[1]}
           /\ \A y \in Elements(Tail(w)) : w[1].at < y.at
<1> DEFINE t == Tail(w)
           n == Len(w)
<1>1. n \in Nat /\ n > 0 /\ w # <<>>
  BY PointsAre
<1>2. t \in Seq(Points) /\ Len(t) = n - 1 /\ \A i \in 1..(n - 1) : t[i] = w[i + 1]
  <2>1. t \in Seq(Points) /\ Len(t) = Len(w) - 1 /\ \A i \in 1..Len(t) : t[i] = w[i + 1]
    BY <1>1, HeadTailProperties
  <2> HIDE DEF t
  <2>. QED
    BY <2>1
<1>3. \A i, j \in 1..n : i < j => w[i].at < w[j].at
  BY DEF Chronological
<1>4. Elements(t) = {t[i] : i \in 1..(n - 1)} /\ Elements(w) = {w[i] : i \in 1..n}
  BY <1>2 DEF Elements
<1> HIDE DEF t, n
<1>5. Chronological(t)
  <2>1. ASSUME NEW i \in 1..(n - 1), NEW j \in 1..(n - 1), i < j
        PROVE  t[i].at < t[j].at
    <3>1. i + 1 \in 1..n /\ j + 1 \in 1..n /\ i + 1 < j + 1
      BY <1>1, <2>1
    <3>. QED
      BY <1>2, <1>3, <3>1
  <2>. QED
    BY <1>2, <2>1 DEF Chronological
<1>6. ASSUME NEW i \in 1..(n - 1)
      PROVE  t[i] \in Elements(w) /\ w[1].at < t[i].at
  <2>1. i + 1 \in 1..n /\ 1 \in 1..n /\ 1 < i + 1
    BY <1>1
  <2>. QED
    BY <1>2, <1>3, <1>4, <2>1
<1>7. ASSUME NEW i \in 1..n
      PROVE  w[i] \in Elements(t) \cup {w[1]}
  <2>1. CASE i = 1
    BY <2>1
  <2>2. CASE i # 1
    <3>1. i - 1 \in 1..(n - 1) /\ (i - 1) + 1 = i
      BY <1>1, <2>2
    <3>2. t[i - 1] = w[i]
      BY <1>2, <3>1
    <3>. QED
      BY <1>4, <3>1, <3>2
  <2>. QED
    BY <2>1, <2>2
<1>8. w[1] \in Elements(w)
  BY <1>1, <1>4
<1>9. Elements(w) = Elements(t) \cup {w[1]}
  BY <1>4, <1>6, <1>7, <1>8
<1>10. \A y \in Elements(t) : w[1].at < y.at
  BY <1>4, <1>6
<1>. QED
  BY <1>2, <1>5, <1>9, <1>10 DEF t, n

LEMMA ObserveKeeps ==
    ASSUME NEW buf, NEW S, S \subseteq Points, WindowOK(buf, S), NEW x, Fresh(x, S)
    PROVE  WindowOK(observe(buf, x).buf, S \cup {x})
<1> DEFINE w == insort(buf, x)
<1>1. observe(buf, x).buf = Trimmed(w)
  BY DEF observe
<1>2. buf \in Seq(Points) /\ Chronological(buf) /\ Fresh(x, Elements(buf)) /\ Len(buf) \in Nat
  BY DEF WindowOK, Fresh
<1>3. /\ w \in Seq(Points) /\ Chronological(w) /\ Len(w) = Len(buf) + 1
      /\ Elements(w) = Elements(buf) \cup {x}
  BY <1>2, InsortIs
<1> HIDE DEF w
<1>4. CASE Len(w) > WINDOW
  <2> DEFINE t == Tail(w)
  <2>1. Len(buf) = WINDOW
    BY <1>2, <1>3, <1>4, WindowAssumption DEF WindowOK
  <2>2. /\ t \in Seq(Points) /\ Len(t) = Len(w) - 1 /\ Chronological(t)
        /\ Elements(w) = Elements(t) \cup {w[1]}
        /\ \A y \in Elements(t) : w[1].at < y.at
    <3>1. Len(w) > 0
      BY <1>2, <1>3
    <3>. QED
      BY <1>3, <3>1, TailIs
  <2> HIDE DEF t
  <2>3. Len(t) = WINDOW
    BY <1>2, <1>3, <2>1, <2>2
  <2>4. Elements(t) \subseteq S \cup {x}
    BY <1>3, <2>2 DEF WindowOK
  <2>5. ASSUME NEW z \in (S \cup {x}) \ Elements(t), NEW y \in Elements(t)
        PROVE  z.at < y.at
    <3>1. CASE z = w[1]
      BY <2>2, <3>1
    <3>2. CASE z # w[1]
      <4>1. z \in S \ Elements(buf)
        BY <1>3, <2>2, <2>5, <3>2
      <4>2. \A v \in Elements(buf) : z.at < v.at
        BY <4>1 DEF WindowOK
      <4>3. CASE y \in Elements(buf)
        BY <4>2, <4>3
      <4>4. CASE y \notin Elements(buf)
        <5>1. y = x /\ y.at \in Nat
          BY <1>3, <2>2, <4>4 DEF Fresh, Points
        <5>2. w[1].at < y.at
          BY <2>2
        <5>3. w[1] # x
          BY <5>1, <5>2
        <5>4. w[1] \in Elements(buf)
          BY <1>3, <2>2, <5>3
        <5>5. w[1].at \in Nat /\ z.at \in Nat
          BY <4>1, <5>4 DEF WindowOK, Points
        <5>6. z.at < w[1].at
          BY <4>2, <5>4
        <5>. QED
          BY <5>1, <5>2, <5>5, <5>6
      <4>. QED
        BY <4>3, <4>4
    <3>. QED
      BY <3>1, <3>2
  <2>6. Trimmed(w) = t
    BY <1>4 DEF Trimmed, t
  <2>7. WindowOK(t, S \cup {x})
    BY <2>2, <2>3, <2>4, <2>5, WindowAssumption DEF WindowOK
  <2>. QED
    BY <1>1, <2>6, <2>7
<1>5. CASE ~(Len(w) > WINDOW)
  <2>1. Trimmed(w) = w
    BY <1>5 DEF Trimmed
  <2>2. Len(w) <= WINDOW /\ Len(buf) # WINDOW
    BY <1>2, <1>3, <1>5, WindowAssumption
  <2>3. S = Elements(buf)
    BY <2>2 DEF WindowOK
  <2>4. Elements(w) = S \cup {x}
    BY <1>3, <2>3
  <2>5. WindowOK(w, S \cup {x})
    BY <1>3, <2>2, <2>4 DEF WindowOK
  <2>. QED
    BY <1>1, <2>1, <2>5
<1>. QED
  BY <1>4, <1>5

\* As many points as places.
LEMMA ElementsCount ==
    ASSUME NEW buf \in Seq(Points), Chronological(buf)
    PROVE  IsFiniteSet(Elements(buf)) /\ Cardinality(Elements(buf)) = Len(buf)
<1> DEFINE n == Len(buf)
<1>1. n \in Nat /\ buf \in [1..n -> Elements(buf)]
  <2>1. n \in Nat /\ DOMAIN buf = 1..n /\ \A i \in 1..n : buf[i] \in Elements(buf)
    BY PointsAre
  <2>2. buf = [i \in 1..n |-> buf[i]]
    BY <2>1
  <2>. QED
    BY <2>1, <2>2
<1>2. ASSUME NEW i \in 1..n, NEW j \in 1..n, buf[i] = buf[j]
      PROVE  i = j
  <2>1. buf[i].at \in Nat /\ buf[j].at \in Nat
    BY PointsAre
  <2>2. ~(i < j) /\ ~(j < i)
    BY <1>2, <2>1 DEF Chronological
  <2>. QED
    BY <1>1, <2>2
<1>3. \A y \in Elements(buf) : \E i \in 1..n : buf[i] = y
  BY DEF Elements
<1> HIDE DEF n
<1>4. buf \in Bijection(1..n, Elements(buf))
  BY <1>1, <1>2, <1>3, Fun_IsBij
<1>5. ExistsBijection(1..n, Elements(buf))
  BY <1>4 DEF ExistsBijection
<1>6. Cardinality(Elements(buf)) = n
  BY <1>1, <1>5, FS_CountingElements
<1>7. IsFiniteSet(Elements(buf))
  BY <1>1, <1>5, FS_NatBijection
<1>. QED
  BY <1>6, <1>7 DEF n

\* The window holds exactly the newest points.
LEMMA WindowIsTheNewest ==
    ASSUME NEW buf, NEW S, S \subseteq Points, IsFiniteSet(S), WindowOK(buf, S),
           \A y, z \in S : y.at = z.at => y = z
    PROVE  Elements(buf) = Newest(S, WINDOW)
<1> DEFINE W == Elements(buf)
           Newer(z) == {y \in S : ~LessEq(y, z)}
<1>1. buf \in Seq(Points) /\ Chronological(buf) /\ Len(buf) <= WINDOW /\ Len(buf) \in Nat
  BY DEF WindowOK
<1>2. IsFiniteSet(W) /\ Cardinality(W) = Len(buf)
  BY <1>1, ElementsCount
<1>3. W \subseteq S /\ (\A z \in S \ W : \A y \in W : z.at < y.at) /\ (S # W => Len(buf) = WINDOW)
  BY DEF WindowOK
<1>4. \A y, z \in S : y \in Newer(z) <=> z.at < y.at
  <2>1. ASSUME NEW y \in S, NEW z \in S
        PROVE  LessEq(y, z) <=> y.at <= z.at
    <3>1. y.at \in Nat /\ z.at \in Nat /\ y.dev \in Int /\ z.dev \in Int
      BY DEF Points
    <3>2. y.at = z.at => y.dev = z.dev
      OBVIOUS
    <3>. QED
      BY <3>1, <3>2 DEF LessEq
  <2>2. \A y \in S : y.at \in Nat
    BY DEF Points
  <2>. QED
    BY <2>1, <2>2
<1> HIDE DEF W
<1>5. ASSUME NEW z \in W
      PROVE  Cardinality(Newer(z)) < WINDOW
  <2>1. Newer(z) \subseteq W \ {z}
    <3>1. ASSUME NEW y \in Newer(z)
          PROVE  y \in W /\ y # z
      <4>1. y \in S /\ z \in S /\ z.at < y.at
        BY <1>3, <1>4, <3>1
      <4>2. y.at \in Nat /\ z.at \in Nat
        BY <4>1 DEF Points
      <4>3. y \in W
        BY <1>3, <4>1, <4>2
      <4>. QED
        BY <4>1, <4>2, <4>3
    <3>. QED
      BY <3>1
  <2>2. IsFiniteSet(W \ {z}) /\ Cardinality(W \ {z}) = Cardinality(W) - 1
    BY <1>2, FS_RemoveElement
  <2>3. IsFiniteSet(Newer(z)) /\ Cardinality(Newer(z)) <= Cardinality(W \ {z})
    <3> HIDE DEF Newer
    <3>. QED
      BY <2>1, <2>2, FS_Subset
  <2>4. Cardinality(Newer(z)) \in Nat
    <3> HIDE DEF Newer
    <3>. QED
      BY <2>3, FS_CardinalityType
  <2> HIDE DEF Newer
  <2>. QED
    BY <1>1, <1>2, <2>2, <2>3, <2>4, WindowAssumption
<1>6. ASSUME NEW z \in S \ W
      PROVE  ~(Cardinality(Newer(z)) < WINDOW)
  <2>1. W \subseteq Newer(z)
    BY <1>3, <1>4, <1>6
  <2>2. IsFiniteSet(Newer(z))
    <3>1. Newer(z) \subseteq S
      OBVIOUS
    <3> HIDE DEF Newer
    <3>. QED
      BY <3>1, FS_Subset
  <2>3. Cardinality(W) <= Cardinality(Newer(z)) /\ Cardinality(Newer(z)) \in Nat
    <3> HIDE DEF Newer
    <3>. QED
      BY <2>1, <2>2, FS_Subset, FS_CardinalityType
  <2>4. Cardinality(W) = WINDOW
    BY <1>2, <1>3, <1>6
  <2> HIDE DEF Newer
  <2>. QED
    BY <2>3, <2>4, WindowAssumption
<1>7. W = {z \in S : Cardinality(Newer(z)) < WINDOW}
  <2> HIDE DEF Newer
  <2>. QED
    BY <1>3, <1>5, <1>6
<1>. QED
  BY <1>7 DEF Newest, W

\* An empty process has charted nothing.
LEMMA EmptyWindow == WindowOK(<<>>, {})
<1>1. Elements(<<>>) = {}
  BY DEF Elements
<1>. QED
  BY <1>1, WindowAssumption DEF WindowOK, Chronological

\* The rules observe reports.
LEMMA RuleReported ==
    ASSUME NEW buf, NEW x
    PROVE  observe(buf, x).rule \in 0..4
<1> DEFINE now == Trimmed(insort(buf, x))
           rules == IF Len(now) >= WARMUP /\ Occurs(now, x)
                    THEN western_electric(now, index(now, x)) ELSE {}
<1>1. observe(buf, x).rule = IF rules = {} THEN 0 ELSE Min(rules)
  BY DEF observe
<1>2. rules \subseteq 1..4
  <2>1. western_electric(now, index(now, x)) \subseteq 1..4
    BY DEF western_electric
  <2>. QED
    BY <2>1
<1> HIDE DEF rules
<1>3. ASSUME rules # {}
      PROVE  Min(rules) \in rules
  <2>1. \E r \in rules : \A q \in rules : r <= q
    <3>1. \A q \in rules : q = 1 \/ q = 2 \/ q = 3 \/ q = 4
      BY <1>2
    <3>2. CASE 1 \in rules
      BY <3>1, <3>2
    <3>3. CASE 1 \notin rules /\ 2 \in rules
      BY <3>1, <3>3
    <3>4. CASE 1 \notin rules /\ 2 \notin rules /\ 3 \in rules
      BY <3>1, <3>4
    <3>5. CASE 1 \notin rules /\ 2 \notin rules /\ 3 \notin rules
      BY <1>3, <3>1, <3>5
    <3>. QED
      BY <3>2, <3>3, <3>4, <3>5
  <2>. QED
    BY <2>1 DEF Min
<1>4. CASE rules = {}
  BY <1>1, <1>4
<1>5. CASE rules # {}
  <2>1. Min(rules) \in 1..4
    BY <1>2, <1>3, <1>5
  <2>. QED
    BY <1>1, <1>5, <2>1
<1>. QED
  BY <1>4, <1>5

-----------------------------------------------------------------------------
(* The worker beside the simulator.                                        *)

\* y is the reading of a charted message the worker has taken.
TakenReading(y) ==
    \E p \in Partition : \E k \in 1..position[p] :
        LET e == events[log[p][k]] IN Charted(e) /\ y = Point(e)

WorkerTypes ==
    /\ position \in [Partition -> Nat]
    /\ outbox \in Seq([at : Nat, rule : 1..4])
    /\ crashes \in 0..MaxCrashes

WorkerInv ==
    /\ WorkerTypes
    /\ \A p \in Partition : position[p] <= Len(log[p])
    /\ WindowOK(chart, seen)
    /\ IsFiniteSet(seen)
    /\ \A y \in seen : TakenReading(y)

\* What the simulator does to the topic: it only adds.
LEMMA SimExtends ==
    ASSUME SimInv, SimNext, NEW p \in Partition
    PROVE  Extends(log[p], log'[p])
<1>1. /\ SimTypeOK /\ TopicOK /\ log[p] \in Seq(Nat) /\ Len(log[p]) \in Nat
      /\ log \in [Partition -> Seq(Nat)]
  BY TypesGive DEF SimInv, SimTypeOK
<1>2. CASE log' = log
  BY <1>1, <1>2 DEF Extends
<1>3. CASE FlushTimeout
  <2>1. PICK n \in 0..Len(queue) : log' = Taken(n)
    BY <1>3 DEF FlushTimeout
  <2>. QED
    BY <1>1, <2>1, TakenHolds DEF TakenOK
<1>4. CASE \E q \in Partition : Acknowledge(q) \/ Expire(q)
  <2>1. PICK q \in Partition, i \in 1..Len(queue) :
            log' = log \/ log' = [log EXCEPT ![q] = Append(@, queue[i])]
    BY <1>4 DEF Acknowledge, Expire, Answer
  <2>2. CASE log'[p] = log[p]
    BY <1>1, <2>2 DEF Extends
  <2>3. CASE log'[p] # log[p]
    <3>1. log'[p] = Append(log[p], queue[i])
      BY <1>1, <2>1, <2>3
    <3>2. queue[i] \in Nat
      BY <1>1 DEF SimTypeOK
    <3>. QED
      BY <1>1, <3>1, <3>2, AppendProperties DEF Extends
  <2>. QED
    BY <2>2, <2>3
<1>. QED
  BY <1>2, <1>3, <1>4 DEF SimNext, Main, Setup, Nap, Take, Enqueue, QueueFull, Leave, Flushed,
                          ProduceFails, Signal, Tick

\* Every message on the topic is an event of the file.
LEMMA OnTopic ==
    ASSUME SimInv, NEW p \in Partition, NEW k \in 1..Len(log[p])
    PROVE  /\ log[p][k] \in 1..Len(events) /\ KeyPartition(log[p][k]) = p
           /\ \A j \in 1..Len(log[p]) : j < k => log[p][j] < log[p][k]
<1>1. LogOK(p) /\ log[p] \in Seq(Nat)
  BY DEF SimInv, TopicOK, SimTypeOK
<1>2. log[p][k] \in Elements(log[p]) /\ scheduled <= Len(events)
  BY DEF Elements, SimInv, Flow
<1>3. log[p][k] \in 1..scheduled /\ KeyPartition(log[p][k]) = p
  BY <1>1, <1>2 DEF LogOK
<1>4. Len(events) \in Nat /\ scheduled \in Nat
  BY EventsEnd, TypesGive DEF SimInv
<1>5. log[p][k] \in 1..Len(events)
  BY <1>2, <1>3, <1>4
<1>. QED
  BY <1>1, <1>3, <1>5, InOrderIs DEF LogOK

LEMMA ReadingsAre ==
    ASSUME SimInv, NEW i \in 1..Len(events), Charted(events[i])
    PROVE  /\ Point(events[i]) \in Points /\ Point(events[i]).at = events[i].at
           /\ \A j \in 1..Len(events) :
                 j # i /\ Charted(events[j]) => events[j].at # events[i].at
<1>1. manifest \in Manifests /\ events = read_manifest(manifest)
  BY DEF SimInv, SimTypeOK, events
<1>2. /\ events[i].at \in Nat /\ events[i].dev \in Int
      /\ \A j \in 1..Len(events) :
            j # i /\ Charted(events[j]) => events[j].at # events[i].at
  BY <1>1, ReadingsAssumption
<1>. QED
  BY <1>2 DEF Point, Points

\* The points charted are points, and differ in their times.
LEMMA SeenAre ==
    ASSUME SimInv, WorkerInv
    PROVE  /\ seen \subseteq Points
           /\ \A y, z \in seen : y.at = z.at => y = z
<1>1. \A y \in seen : \E i \in 1..Len(events) : Charted(events[i]) /\ y = Point(events[i])
  <2>1. ASSUME NEW y \in seen
        PROVE  \E i \in 1..Len(events) : Charted(events[i]) /\ y = Point(events[i])
    <3>0. PICK p \in Partition : \E k \in 1..position[p] :
              Charted(events[log[p][k]]) /\ y = Point(events[log[p][k]])
      BY <2>1 DEF WorkerInv, TakenReading
    <3>1. PICK k \in 1..position[p] : Charted(events[log[p][k]]) /\ y = Point(events[log[p][k]])
      BY <3>0
    <3>2. k \in 1..Len(log[p])
      <4>1. position[p] \in Nat /\ position[p] <= Len(log[p]) /\ Len(log[p]) \in Nat
        BY TypesGive DEF WorkerInv, WorkerTypes, SimInv
      <4>. QED
        BY <4>1
    <3>. QED
      BY <3>1, <3>2, OnTopic
  <2>. QED
    BY <2>1
<1>2. seen \subseteq Points
  BY <1>1, ReadingsAre
<1>3. ASSUME NEW y \in seen, NEW z \in seen, y.at = z.at
      PROVE  y = z
  <2>1. PICK i \in 1..Len(events) : Charted(events[i]) /\ y = Point(events[i])
    BY <1>1
  <2>2. PICK j \in 1..Len(events) : Charted(events[j]) /\ z = Point(events[j])
    BY <1>1
  <2>3. y.at = events[i].at /\ z.at = events[j].at
    BY <2>1, <2>2, ReadingsAre
  <2>4. i = j
    BY <1>3, <2>1, <2>2, <2>3, ReadingsAre
  <2>. QED
    BY <2>1, <2>2, <2>4
<1>. QED
  BY <1>2, <1>3

\* The next message of a partition is none of those taken before.
LEMMA NextIsFresh ==
    ASSUME SimInv, WorkerInv, NEW p \in Partition, HasNext(p), Charted(NextReading(p))
    PROVE  Fresh(Point(NextReading(p)), seen)
<1> DEFINE k == position[p] + 1
           i == log[p][k]
<1>1. /\ position[p] \in Nat /\ Len(log[p]) \in Nat /\ k \in 1..Len(log[p])
      /\ NextReading(p) = events[i]
  <2>1. position[p] \in Nat /\ Len(log[p]) \in Nat
    BY TypesGive DEF WorkerInv, WorkerTypes, SimInv
  <2>. QED
    BY <2>1 DEF HasNext, NextReading
<1>2. /\ i \in 1..Len(events) /\ KeyPartition(i) = p
      /\ \A j \in 1..Len(log[p]) : j < k => log[p][j] < i
  BY <1>1, OnTopic
<1>3. Charted(events[i])
  BY <1>1
<1> HIDE DEF i
<1>4. Point(events[i]) \in Points /\ Point(events[i]).at = events[i].at
  BY <1>2, <1>3, ReadingsAre
<1>5. ASSUME NEW y \in seen
      PROVE  y.at # events[i].at
  <2>0. PICK q \in Partition : \E m \in 1..position[q] :
            Charted(events[log[q][m]]) /\ y = Point(events[log[q][m]])
    BY <1>5 DEF WorkerInv, TakenReading
  <2>1. PICK m \in 1..position[q] : Charted(events[log[q][m]]) /\ y = Point(events[log[q][m]])
    BY <2>0
  <2>2. m \in 1..Len(log[q])
    <3>1. position[q] \in Nat /\ position[q] <= Len(log[q]) /\ Len(log[q]) \in Nat
      BY TypesGive DEF WorkerInv, WorkerTypes, SimInv
    <3>. QED
      BY <3>1
  <2>3. log[q][m] \in 1..Len(events) /\ KeyPartition(log[q][m]) = q
    BY <2>2, OnTopic
  <2>4. log[q][m] # i
    <3>1. CASE q = p
      <4>1. m < k /\ m \in 1..Len(log[p])
        BY <1>1, <2>2, <3>1
      <4>2. log[p][m] < i
        BY <1>2, <4>1
      <4>. QED
        BY <1>2, <2>3, <3>1, <4>2
    <3>2. CASE q # p
      BY <1>2, <2>3, <3>2
    <3>. QED
      BY <3>1, <3>2
  <2>5. y.at = events[log[q][m]].at
    BY <2>1, <2>3, ReadingsAre
  <2>. QED
    BY <1>2, <1>3, <2>1, <2>3, <2>4, <2>5, ReadingsAre
<1>. QED
  BY <1>1, <1>4, <1>5 DEF Fresh

LEMMA WorkerBeside ==
    ASSUME SimInv, WorkerInv, SimNext \/ UNCHANGED simVars, UNCHANGED workerVars
    PROVE  WorkerInv'
<1>1. UNCHANGED <<position, chart, seen, outbox, crashes>> /\ events' = events
  BY SimOfOneManifest, SameManifest DEF workerVars, simVars
<1>2. ASSUME NEW p \in Partition
      PROVE  /\ position[p] \in Nat /\ position[p] <= Len(log[p]) /\ Len(log[p]) \in Nat
             /\ Extends(log[p], log'[p])
  <2>1. position[p] \in Nat /\ position[p] <= Len(log[p]) /\ Len(log[p]) \in Nat
    BY TypesGive DEF WorkerInv, WorkerTypes, SimInv
  <2>2. UNCHANGED simVars => Extends(log[p], log'[p])
    BY <2>1 DEF simVars, Extends
  <2>. QED
    BY <2>1, <2>2, SimExtends
<1>3. SimInv'
  BY SimInvStep DEF Next, vars
<1>4. \A p \in Partition : position[p] <= Len(log'[p])
  <2>1. ASSUME NEW p \in Partition
        PROVE  position[p] <= Len(log'[p])
    <3>1. Len(log'[p]) \in Nat
      BY <1>3 DEF SimInv, SimTypeOK
    <3>. QED
      BY <1>2, <3>1 DEF Extends
  <2>. QED
    BY <2>1
<1>5. ASSUME NEW y \in seen
      PROVE  TakenReading(y)'
  <2>0. PICK p \in Partition : \E k \in 1..position[p] :
            Charted(events[log[p][k]]) /\ y = Point(events[log[p][k]])
    BY <1>5 DEF WorkerInv, TakenReading
  <2>1. PICK k \in 1..position[p] : Charted(events[log[p][k]]) /\ y = Point(events[log[p][k]])
    BY <2>0
  <2>2. log'[p][k] = log[p][k]
    BY <1>2 DEF Extends
  <2>. QED
    BY <1>1, <2>1, <2>2 DEF TakenReading
<1>. QED
  BY <1>1, <1>4, <1>5 DEF WorkerInv, WorkerTypes

LEMMA ObserveStep ==
    ASSUME SimInv, WorkerInv, NEW p \in Partition, Observe(p)
    PROVE  WorkerInv'
<1> DEFINE e == NextReading(p)
<1>0. PICK x : x = Point(e)
  OBVIOUS
<1>1. /\ HasNext(p) /\ position' = [position EXCEPT ![p] = @ + 1]
      /\ UNCHANGED <<crashes, log, events>>
  BY SameManifest DEF Observe, Read, simVars
<1>2. /\ position[p] \in Nat /\ position[p] < Len(log[p]) /\ Len(log[p]) \in Nat
      /\ position \in [Partition -> Nat]
  BY <1>1, TypesGive DEF HasNext, WorkerInv, WorkerTypes, SimInv
<1>3. \A q \in Partition : position'[q] = IF q = p THEN position[p] + 1 ELSE position[q]
  BY <1>1, <1>2
<1>4. /\ position' \in [Partition -> Nat]
      /\ \A q \in Partition : position'[q] <= Len(log[q])
  <2>1. position' \in [Partition -> Nat]
    BY <1>1, <1>2
  <2>2. ASSUME NEW q \in Partition
        PROVE  position'[q] <= Len(log[q])
    <3>1. CASE q = p
      BY <1>2, <1>3, <3>1
    <3>2. CASE q # p
      BY <1>3, <3>2 DEF WorkerInv
    <3>. QED
      BY <3>1, <3>2
  <2>. QED
    BY <2>1, <2>2
<1>5. ASSUME NEW y \in seen
      PROVE  TakenReading(y)'
  <2>0. PICK q \in Partition : \E k \in 1..position[q] :
            Charted(events[log[q][k]]) /\ y = Point(events[log[q][k]])
    BY <1>5 DEF WorkerInv, TakenReading
  <2>1. PICK k \in 1..position[q] : Charted(events[log[q][k]]) /\ y = Point(events[log[q][k]])
    BY <2>0
  <2>2. k \in 1..position'[q]
    <3>1. position[q] \in Nat /\ position'[q] \in Nat /\ position[q] <= position'[q]
      BY <1>2, <1>3, <1>4
    <3>. QED
      BY <3>1
  <2>. QED
    BY <1>1, <2>1, <2>2 DEF TakenReading
<1>6. CASE Charted(e)
  <2>1. /\ chart' = observe(chart, x).buf
        /\ seen' = seen \cup {x}
        /\ outbox' = IF observe(chart, x).rule = 0 THEN outbox
                     ELSE Append(outbox, Alert(x, observe(chart, x).rule))
    BY <1>0, <1>6 DEF Observe
  <2>2. Fresh(x, seen) /\ seen \subseteq Points
    BY <1>0, <1>1, <1>6, NextIsFresh, SeenAre
  <2>3. TakenReading(x)'
    <3>1. position[p] + 1 \in 1..position'[p]
      BY <1>2, <1>3
    <3>2. e = events[log[p][position[p] + 1]]
      BY DEF NextReading
    <3>. QED
      BY <1>0, <1>1, <1>6, <3>1, <3>2 DEF TakenReading
  <2>4. WindowOK(chart', seen')
    BY <2>1, <2>2, ObserveKeeps DEF WorkerInv
  <2>5. IsFiniteSet(seen')
    BY <2>1, FS_AddElement DEF WorkerInv
  <2>6. outbox' \in Seq([at : Nat, rule : 1..4])
    <3>1. outbox \in Seq([at : Nat, rule : 1..4])
      BY DEF WorkerInv, WorkerTypes
    <3>2. CASE observe(chart, x).rule = 0
      BY <2>1, <3>1, <3>2
    <3>3. CASE observe(chart, x).rule # 0
      <4>1. observe(chart, x).rule \in 1..4 /\ x.at \in Nat
        BY <2>2, <3>3, RuleReported DEF Fresh, Points
      <4>2. Alert(x, observe(chart, x).rule) \in [at : Nat, rule : 1..4]
        BY <4>1 DEF Alert
      <4>. QED
        BY <2>1, <3>1, <3>3, <4>2, AppendProperties
    <3>. QED
      BY <3>2, <3>3
  <2>7. \A y \in seen' : TakenReading(y)'
    BY <1>5, <2>1, <2>3
  <2>. QED
    BY <1>1, <1>4, <2>4, <2>5, <2>6, <2>7 DEF WorkerInv, WorkerTypes
<1>7. CASE ~Charted(e)
  <2>1. UNCHANGED <<chart, seen, outbox>>
    BY <1>7 DEF Observe
  <2>. QED
    BY <1>1, <1>4, <1>5, <2>1 DEF WorkerInv, WorkerTypes
<1>. QED
  BY <1>6, <1>7

LEMMA LeaveStep ==
    ASSUME WorkerInv, AlertLeaves
    PROVE  WorkerInv'
<1>1. /\ outbox # <<>> /\ outbox' = Tail(outbox)
      /\ UNCHANGED <<manifest, log, position, chart, seen, crashes>>
  BY DEF AlertLeaves, simVars
<1>2. outbox' \in Seq([at : Nat, rule : 1..4])
  BY <1>1, HeadTailProperties DEF WorkerInv, WorkerTypes
<1>3. \A y \in seen : TakenReading(y)'
  BY <1>1, SameManifest DEF WorkerInv, TakenReading
<1>. QED
  BY <1>1, <1>2, <1>3 DEF WorkerInv, WorkerTypes

LEMMA CrashStep ==
    ASSUME SimInv, WorkerInv, Crash
    PROVE  WorkerInv'
<1>1. /\ crashes < MaxCrashes /\ crashes' = crashes + 1
      /\ chart' = <<>> /\ seen' = {} /\ outbox' = <<>> /\ log' = log
  BY DEF Crash, simVars
<1>2. PICK n \in [Partition -> 0..MaxRewind] : position' = [p \in Partition |-> Rewound(p, n[p])]
  BY DEF Crash
<1>3. ASSUME NEW p \in Partition
      PROVE  position'[p] \in Nat /\ position'[p] <= Len(log[p])
  <2>1. position[p] \in Nat /\ position[p] <= Len(log[p]) /\ Len(log[p]) \in Nat
    BY TypesGive DEF WorkerInv, WorkerTypes, SimInv
  <2>2. n[p] \in Nat /\ position'[p] = IF position[p] < n[p] THEN 0 ELSE position[p] - n[p]
    BY <1>2, StreamAssumption DEF Rewound
  <2>. QED
    BY <2>1, <2>2
<1>4. position' \in [Partition -> Nat]
  BY <1>2, <1>3
<1>5. crashes' \in 0..MaxCrashes
  BY <1>1, StreamAssumption DEF WorkerInv, WorkerTypes
<1>6. outbox' \in Seq([at : Nat, rule : 1..4])
  BY <1>1
<1>7. WindowOK(chart', seen') /\ IsFiniteSet(seen')
  BY <1>1, EmptyWindow, FS_EmptySet
<1>. QED
  BY <1>1, <1>3, <1>4, <1>5, <1>6, <1>7 DEF WorkerInv, WorkerTypes

-----------------------------------------------------------------------------

\* The worker's invariant, with the simulator's: positions stay within the logs,
\* the window is what is left of the readings taken since the last restart, and
\* each of them was taken once.
THEOREM WorkerInvariance == Spec => [](SimInv /\ WorkerInv)
<1>1. Init => WorkerInv
  <2> SUFFICES ASSUME Init PROVE WorkerInv
    OBVIOUS
  <2>1. /\ position = [p \in Partition |-> 0] /\ chart = <<>> /\ seen = {}
        /\ outbox = <<>> /\ crashes = 0 /\ \A p \in Partition : log[p] = <<>>
    BY DEF Init, SimInit
  <2>2. WindowOK(chart, seen) /\ IsFiniteSet(seen)
    BY <2>1, EmptyWindow, FS_EmptySet
  <2>3. outbox \in Seq([at : Nat, rule : 1..4])
    BY <2>1
  <2>. QED
    BY <2>1, <2>2, <2>3, StreamAssumption DEF WorkerInv, WorkerTypes
<1>2. SimInv /\ WorkerInv /\ [Next]_vars => WorkerInv'
  <2> SUFFICES ASSUME SimInv, WorkerInv, [Next]_vars PROVE WorkerInv'
    OBVIOUS
  <2>1. CASE SimNext /\ UNCHANGED workerVars
    BY <2>1, WorkerBeside
  <2>2. CASE \E p \in Partition : Observe(p)
    BY <2>2, ObserveStep
  <2>3. CASE AlertLeaves
    BY <2>3, LeaveStep
  <2>4. CASE Crash
    BY <2>4, CrashStep
  <2>5. CASE UNCHANGED vars
    BY <2>5, WorkerBeside DEF vars
  <2>. QED
    BY <2>1, <2>2, <2>3, <2>4, <2>5 DEF Next
<1>. QED
  BY <1>1, <1>2, SimInvariance, PTL DEF Spec

\* Types of the simulator and the worker together: what the charts hold are
\* points, what the outbox holds are alerts of one of the four rules.
THEOREM StreamTypeOK == Spec => []TypeOK
<1>1. SimInv /\ WorkerInv => TypeOK
  <2> SUFFICES ASSUME SimInv, WorkerInv PROVE TypeOK
    OBVIOUS
  <2>1. \A i \in DOMAIN chart : chart[i] \in [at : Nat, dev : Int]
    BY PointsAre DEF WorkerInv, WindowOK, Points
  <2>2. \A i \in DOMAIN outbox : outbox[i].rule \in 1..4
    <3> DEFINE A == [at : Nat, rule : 1..4]
    <3>1. outbox \in Seq(A)
      BY DEF WorkerInv, WorkerTypes
    <3>2. \A a \in A : a.rule \in 1..4
      OBVIOUS
    <3> HIDE DEF A
    <3>3. \A i \in DOMAIN outbox : outbox[i] \in A
      BY <3>1
    <3>. QED
      BY <3>2, <3>3
  <2>. QED
    BY <2>1, <2>2 DEF SimInv, WorkerInv, WorkerTypes, TypeOK
<1>. QED
  BY <1>1, WorkerInvariance, PTL

\* The window of a characteristic (worker.py, Charts.observe: insort, and the
\* oldest point dropped) is the WINDOW newest readings of this process in measured
\* order, whatever order the partitions brought them in.
THEOREM WindowIsNewestHolds == Spec => []WindowIsNewest
<1>1. SimInv /\ WorkerInv => WindowIsNewest
  <2> SUFFICES ASSUME SimInv, WorkerInv PROVE WindowIsNewest
    OBVIOUS
  <2>1. chart \in Seq(Points) /\ Chronological(chart) /\ WindowOK(chart, seen) /\ IsFiniteSet(seen)
    BY DEF WorkerInv, WindowOK
  <2>2. Elements(chart) = Newest(seen, WINDOW)
    BY <2>1, SeenAre, WindowIsTheNewest
  <2>3. DOMAIN chart = 1..Len(chart)
    BY <2>1, PointsAre
  <2>4. {chart[i] : i \in DOMAIN chart} = Newest(seen, WINDOW)
    BY <2>2, <2>3 DEF Elements
  <2>5. \A i, j \in DOMAIN chart : i < j => chart[i].at < chart[j].at
    BY <2>1, <2>3 DEF Chronological
  <2>. QED
    BY <2>4, <2>5 DEF WindowIsNewest
<1>. QED
  BY <1>1, WorkerInvariance, PTL

-----------------------------------------------------------------------------
(* Sums.  What a sum comes to does not depend on the order in which it is  *)
(* taken, so a sum over the places of a window is one over its points.     *)

\* Sums over the subsets of D, each with any of its elements taken off.
SumsOf(h, f, D) ==
    /\ h \in [SUBSET D -> Int]
    /\ h[{}] = 0
    /\ \A s \in SUBSET D : \A x \in s : h[s] = f[x] + h[s \ {x}]

Chosen(s) == CHOOSE x \in s : TRUE
Summed(g, f, s) == IF s = {} THEN 0 ELSE f[Chosen(s)] + g[s \ {Chosen(s)}]

LEMMA SubsetCounts ==
    ASSUME NEW D, IsFiniteSet(D), NEW s \in SUBSET D
    PROVE  /\ IsFiniteSet(s) /\ Cardinality(s) \in Nat /\ (Cardinality(s) = 0 <=> s = {})
           /\ Cardinality(s) <= Cardinality(D)
           /\ \A x \in s : s \ {x} \in SUBSET D /\ Cardinality(s \ {x}) = Cardinality(s) - 1
<1>1. IsFiniteSet(s) /\ Cardinality(s) <= Cardinality(D)
  BY FS_Subset
<1>2. Cardinality(s) \in Nat /\ (Cardinality(s) = 0 <=> s = {})
  BY <1>1, FS_CardinalityType, FS_EmptySet
<1>3. \A x \in s : Cardinality(s \ {x}) = Cardinality(s) - 1
  BY <1>1, FS_RemoveElement
<1>. QED
  BY <1>1, <1>2, <1>3

\* The recursion that takes the chosen element off has a solution.
LEMMA SummedExists ==
    ASSUME NEW D, IsFiniteSet(D), NEW f
    PROVE  \E g : g = [s \in SUBSET D |-> Summed(g, f, s)]
<1> DEFINE Good(g, n) == \A s \in SUBSET D : Cardinality(s) <= n => g[s] = Summed(g, f, s)
           T == {n \in Nat : \E g : Good(g, n)}
<1>1. 0 \in T
  <2> DEFINE g == [s \in SUBSET D |-> 0]
  <2>1. ASSUME NEW s \in SUBSET D, Cardinality(s) <= 0
        PROVE  g[s] = Summed(g, f, s)
    <3>1. s = {}
      BY <2>1, SubsetCounts
    <3>. QED
      BY <3>1 DEF Summed
  <2>2. Good(g, 0)
    BY <2>1
  <2>. QED
    BY <2>2
<1>2. ASSUME NEW n \in T
      PROVE  n + 1 \in T
  <2>1. PICK g : Good(g, n)
    OBVIOUS
  <2>2. n \in Nat
    OBVIOUS
  <2> DEFINE e == [s \in SUBSET D |-> Summed(g, f, s)]
  <2>3. ASSUME NEW s \in SUBSET D, Cardinality(s) <= n + 1
        PROVE  e[s] = Summed(e, f, s)
    <3>1. CASE s = {}
      BY <3>1 DEF Summed
    <3>2. CASE s # {}
      <4> DEFINE x == Chosen(s)
      <4>1. x \in s
        BY <3>2 DEF Chosen
      <4>2. s \ {x} \in SUBSET D /\ Cardinality(s \ {x}) <= n
        <5>1. Cardinality(s) \in Nat /\ Cardinality(s \ {x}) = Cardinality(s) - 1
          BY <4>1, SubsetCounts
        <5>. QED
          BY <2>2, <2>3, <5>1
      <4>3. g[s \ {x}] = Summed(g, f, s \ {x})
        BY <2>1, <4>2
      <4>4. e[s \ {x}] = g[s \ {x}]
        BY <4>2, <4>3
      <4>5. e[s] = f[x] + g[s \ {x}]
        BY <3>2 DEF Summed
      <4>. QED
        BY <3>2, <4>4, <4>5 DEF Summed
    <3>. QED
      BY <3>1, <3>2
  <2>4. Good(e, n + 1)
    BY <2>3
  <2> HIDE DEF e, Good
  <2>. QED
    BY <2>2, <2>4
<1>3. T = Nat
  <2>1. T \subseteq Nat
    OBVIOUS
  <2> HIDE DEF T
  <2>. QED
    BY <1>1, <1>2, <2>1, SetInduction
<1>4. Cardinality(D) \in T
  <2> HIDE DEF T
  <2>. QED
    BY <1>3, FS_CardinalityType
<1>5. PICK g : Good(g, Cardinality(D))
  BY <1>4
<1> DEFINE e == [s \in SUBSET D |-> g[s]]
<1>6. ASSUME NEW s \in SUBSET D
      PROVE  e[s] = Summed(e, f, s)
  <2>1. g[s] = Summed(g, f, s)
    BY <1>5, SubsetCounts
  <2>2. CASE s = {}
    BY <2>1, <2>2 DEF Summed
  <2>3. CASE s # {}
    <3>1. s \ {Chosen(s)} \in SUBSET D
      OBVIOUS
    <3>2. e[s \ {Chosen(s)}] = g[s \ {Chosen(s)}]
      BY <3>1
    <3>. QED
      BY <2>1, <2>3, <3>2 DEF Summed
  <2>. QED
    BY <2>2, <2>3
<1>7. e = [s \in SUBSET D |-> Summed(e, f, s)]
  BY <1>6
<1>. QED
  BY <1>7

\* SumFunction is such a sum.
LEMMA SumFunctionSums ==
    ASSUME NEW f, IsFiniteSet(DOMAIN f), \A x \in DOMAIN f : f[x] \in Int
    PROVE  \E h : SumsOf(h, f, DOMAIN f) /\ SumFunction(f) = h[DOMAIN f]
<1> DEFINE D == DOMAIN f
           h == CHOOSE g : g = [s \in SUBSET D |-> Summed(g, f, s)]
<1>1. SumFunction(f) = h[D]
  BY DEF SumFunction, SumFunctionOnSet, FoldFunctionOnSet, MapThenFoldSet, Summed, Chosen
<1>2. h = [s \in SUBSET D |-> Summed(h, f, s)]
  BY SummedExists
<1> HIDE DEF h
<1>3. \A s \in SUBSET D : h[s] = Summed(h, f, s)
  BY <1>2
<1>4. h[{}] = 0
  BY <1>3 DEF Summed
<1>5. ASSUME NEW s \in SUBSET D, s # {}
      PROVE  /\ Chosen(s) \in s /\ f[Chosen(s)] \in Int
             /\ h[s] = f[Chosen(s)] + h[s \ {Chosen(s)}]
  BY <1>3, <1>5 DEF Summed, Chosen
<1> DEFINE Good(s) == h[s] \in Int /\ \A x \in s : h[s] = f[x] + h[s \ {x}]
           T == {n \in Nat : \A s \in SUBSET D : Cardinality(s) <= n => Good(s)}
<1>6. 0 \in T
  <2>1. ASSUME NEW s \in SUBSET D, Cardinality(s) <= 0
        PROVE  Good(s)
    <3>1. s = {}
      BY <2>1, SubsetCounts
    <3>. QED
      BY <1>4, <3>1
  <2>. QED
    BY <2>1
<1>7. ASSUME NEW n \in T
      PROVE  n + 1 \in T
  <2>0. n \in Nat /\ \A s \in SUBSET D : Cardinality(s) <= n => Good(s)
    OBVIOUS
  <2>1. ASSUME NEW s \in SUBSET D, Cardinality(s) <= n + 1
        PROVE  Good(s)
    <3>1. CASE s = {}
      BY <1>4, <3>1
    <3>2. CASE s # {}
      <4>0. PICK c \in s : f[c] \in Int /\ h[s] = f[c] + h[s \ {c}]
        BY <1>5, <3>2
      <4>1. \A x \in s : s \ {x} \in SUBSET D /\ Cardinality(s \ {x}) <= n
        <5>1. Cardinality(s) \in Nat /\ \A x \in s : Cardinality(s \ {x}) = Cardinality(s) - 1
          BY SubsetCounts
        <5>. QED
          BY <2>0, <2>1, <5>1
      <4>2. \A x \in s : Good(s \ {x})
        BY <2>0, <4>1
      <4>3. h[s] \in Int
        BY <4>0, <4>2
      <4>4. ASSUME NEW x \in s
            PROVE  h[s] = f[x] + h[s \ {x}]
        <5>1. CASE x = c
          BY <4>0, <5>1
        <5>2. CASE x # c
          <6> DEFINE r == (s \ {c}) \ {x}
          <6>1. r = (s \ {x}) \ {c}
            OBVIOUS
          <6>2. h[s \ {c}] = f[x] + h[r]
            BY <4>2, <5>2
          <6>3. h[s \ {x}] = f[c] + h[r]
            <7>1. h[s \ {x}] = f[c] + h[(s \ {x}) \ {c}]
              BY <4>2, <5>2
            <7>. QED
              BY <6>1, <7>1
          <6>4. r \in SUBSET D /\ h[r] \in Int
            <7>1. Cardinality(s) \in Nat /\ Cardinality(s \ {c}) = Cardinality(s) - 1
                  /\ s \ {c} \in SUBSET D
              BY SubsetCounts
            <7>2. Cardinality(r) = Cardinality(s \ {c}) - 1
              <8>1. PICK w \in SUBSET D : w = s \ {c}
                BY <7>1
              <8>2. \A y \in w : Cardinality(w \ {y}) = Cardinality(w) - 1
                BY SubsetCounts
              <8>. QED
                BY <5>2, <8>1, <8>2
            <7>3. r \in SUBSET D /\ Cardinality(r) <= n
              BY <2>0, <2>1, <7>1, <7>2
            <7>. QED
              BY <2>0, <7>3
          <6> HIDE DEF r
          <6>5. f[x] \in Int
            OBVIOUS
          <6>. QED
            BY <4>0, <6>2, <6>3, <6>4, <6>5
        <5>. QED
          BY <5>1, <5>2
      <4>. QED
        BY <4>3, <4>4
    <3>. QED
      BY <3>1, <3>2
  <2>. QED
    BY <2>0, <2>1
<1>8. T = Nat
  <2>1. T \subseteq Nat
    OBVIOUS
  <2> HIDE DEF T
  <2>. QED
    BY <1>6, <1>7, <2>1, SetInduction
<1>9. ASSUME NEW s \in SUBSET D
      PROVE  Good(s)
  <2>1. Cardinality(s) \in T
    <3> HIDE DEF T
    <3>. QED
      BY <1>8, SubsetCounts
  <2>2. Cardinality(s) <= Cardinality(s)
    BY SubsetCounts
  <2>. QED
    BY <2>1, <2>2
<1>10. SumsOf(h, f, D)
  BY <1>2, <1>4, <1>9 DEF SumsOf
<1>. QED
  BY <1>1, <1>10

\* Sums of the same numbers, paired off, are equal.
LEMMA SumsOfPairs ==
    ASSUME NEW f, NEW g, IsFiniteSet(DOMAIN f), IsFiniteSet(DOMAIN g),
           \A x \in DOMAIN f : f[x] \in Int, \A y \in DOMAIN g : g[y] \in Int,
           NEW b \in Bijection(DOMAIN f, DOMAIN g), \A x \in DOMAIN f : f[x] = g[b[x]]
    PROVE  SumFunction(f) = SumFunction(g)
<1> DEFINE D == DOMAIN f
           E == DOMAIN g
           Image(s) == {b[x] : x \in s}
<1>1. PICK h : SumsOf(h, f, D) /\ SumFunction(f) = h[D]
  BY SumFunctionSums
<1>2. PICK k : SumsOf(k, g, E) /\ SumFunction(g) = k[E]
  BY SumFunctionSums
<1>3. /\ \A x \in D : b[x] \in E
      /\ \A x, y \in D : b[x] = b[y] => x = y
      /\ \A y \in E : \E x \in D : b[x] = y
  BY DEF Bijection, Injection, IsInjective, Surjection
<1> DEFINE T == {n \in Nat : \A s \in SUBSET D : Cardinality(s) <= n => h[s] = k[Image(s)]}
<1> HIDE DEF D, E
<1>0. IsFiniteSet(D)
  BY DEF D
<1>4. 0 \in T
  <2>1. ASSUME NEW s \in SUBSET D, Cardinality(s) <= 0
        PROVE  h[s] = k[Image(s)]
    <3>1. s = {}
      BY <1>0, <2>1, SubsetCounts
    <3>2. Image(s) = {}
      BY <3>1
    <3>. QED
      BY <1>1, <1>2, <3>1, <3>2 DEF SumsOf
  <2>. QED
    BY <2>1
<1>5. ASSUME NEW n \in T
      PROVE  n + 1 \in T
  <2>0. n \in Nat /\ \A s \in SUBSET D : Cardinality(s) <= n => h[s] = k[Image(s)]
    OBVIOUS
  <2>1. ASSUME NEW s \in SUBSET D, Cardinality(s) <= n + 1
        PROVE  h[s] = k[Image(s)]
    <3>1. CASE s = {}
      <4>1. Cardinality(s) <= n
        BY <1>0, <2>0, <3>1, FS_EmptySet
      <4>. QED
        BY <2>0, <4>1
    <3>2. CASE s # {}
      <4>1. PICK x \in s : TRUE
        BY <3>2
      <4>2. s \ {x} \in SUBSET D /\ Cardinality(s \ {x}) <= n
        <5>1. Cardinality(s) \in Nat /\ Cardinality(s \ {x}) = Cardinality(s) - 1
          BY <1>0, SubsetCounts
        <5>. QED
          BY <2>0, <2>1, <5>1
      <4>3. h[s \ {x}] = k[Image(s \ {x})]
        BY <2>0, <4>2
      <4>4. Image(s) \in SUBSET E /\ b[x] \in Image(s)
        BY <1>3
      <4>5. Image(s \ {x}) = Image(s) \ {b[x]}
        BY <1>3
      <4> HIDE DEF Image
      <4>6. h[s] = f[x] + h[s \ {x}]
        BY <1>1 DEF SumsOf
      <4>7. k[Image(s)] = g[b[x]] + k[Image(s) \ {b[x]}]
        BY <1>2, <4>4 DEF SumsOf
      <4>8. f[x] = g[b[x]]
        BY DEF D
      <4>. QED
        BY <4>3, <4>5, <4>6, <4>7, <4>8
    <3>. QED
      BY <3>1, <3>2
  <2> HIDE DEF Image
  <2>. QED
    BY <2>0, <2>1
<1>6. T = Nat
  <2>1. T \subseteq Nat
    OBVIOUS
  <2> HIDE DEF T
  <2>. QED
    BY <1>4, <1>5, <2>1, SetInduction
<1>7. h[D] = k[Image(D)]
  <2>1. Cardinality(D) \in Nat /\ Cardinality(D) <= Cardinality(D)
    BY <1>0, FS_CardinalityType
  <2>2. Cardinality(D) \in T
    <3> HIDE DEF T
    <3>. QED
      BY <1>6, <2>1
  <2>. QED
    BY <2>1, <2>2
<1>8. Image(D) = E
  BY <1>3
<1>. QED
  BY <1>1, <1>2, <1>7, <1>8

-----------------------------------------------------------------------------
(* The rules, on the window's places and on its points.                    *)

\* Different places hold different points, so counting either is the same.
LEMMA ImageIs ==
    ASSUME NEW buf \in Seq(Points), Chronological(buf), NEW I \in SUBSET (1..Len(buf))
    PROVE  /\ [i \in I |-> buf[i]] \in Bijection(I, {buf[i] : i \in I})
           /\ IsFiniteSet(I) /\ IsFiniteSet({buf[i] : i \in I})
           /\ Cardinality({buf[i] : i \in I}) = Cardinality(I)
<1> DEFINE J == {buf[i] : i \in I}
           b == [i \in I |-> buf[i]]
<1>1. ASSUME NEW i \in I, NEW j \in I, b[i] = b[j]
      PROVE  i = j
  <2>1. buf[i].at \in Nat /\ buf[j].at \in Nat /\ i \in Nat /\ j \in Nat
    BY PointsAre
  <2>2. ~(i < j) /\ ~(j < i)
    BY <1>1, <2>1 DEF Chronological
  <2>. QED
    BY <2>1, <2>2
<1>2. b \in [I -> J] /\ \A y \in J : \E i \in I : b[i] = y
  OBVIOUS
<1> HIDE DEF b, J
<1>3. b \in Bijection(I, J)
  BY <1>1, <1>2, Fun_IsBij
<1>4. IsFiniteSet(I)
  <2>1. IsFiniteSet(1..Len(buf))
    BY PointsAre, FS_Interval
  <2>. QED
    BY <2>1, FS_Subset
<1>5. IsFiniteSet(J) /\ Cardinality(J) = Cardinality(I)
  BY <1>3, <1>4, FS_Bijection DEF ExistsBijection
<1>. QED
  BY <1>3, <1>4, <1>5 DEF b, J

\* Where a point of the window stands.
LEMMA IndexIs ==
    ASSUME NEW buf \in Seq(Points), Chronological(buf), NEW x \in Elements(buf)
    PROVE  index(buf, x) \in 1..Len(buf) /\ buf[index(buf, x)] = x
<1>1. PICK k \in 1..Len(buf) : buf[k] = x
  BY DEF Elements
<1>2. ASSUME NEW i \in 1..Len(buf), buf[i] = x
      PROVE  i = k
  <2>1. x.at \in Nat /\ i \in Nat /\ k \in Nat
    BY <1>1, PointsAre
  <2>2. ~(i < k) /\ ~(k < i)
    BY <1>1, <1>2, <2>1 DEF Chronological
  <2>. QED
    BY <2>1, <2>2
<1>3. {i \in DOMAIN buf : buf[i] = x} = {k}
  BY <1>1, <1>2, PointsAre
<1>4. k <= k
  BY <1>1, PointsAre
<1>5. index(buf, x) = k
  BY <1>3, <1>4 DEF index, Min
<1>. QED
  BY <1>1, <1>5

\* In a window, earlier is before.
LEMMA OrderIs ==
    ASSUME NEW buf \in Seq(Points), Chronological(buf)
    PROVE  \A i, j \in 1..Len(buf) : LessEq(buf[i], buf[j]) <=> i <= j
<1> SUFFICES ASSUME NEW i \in 1..Len(buf), NEW j \in 1..Len(buf)
             PROVE  LessEq(buf[i], buf[j]) <=> i <= j
  OBVIOUS
<1>1. /\ buf[i].at \in Nat /\ buf[j].at \in Nat /\ buf[i].dev \in Int /\ buf[j].dev \in Int
      /\ i \in Nat /\ j \in Nat
  BY PointsAre
<1>2. CASE i < j
  <2>1. buf[i].at < buf[j].at
    BY <1>2 DEF Chronological
  <2>. QED
    BY <1>1, <1>2, <2>1 DEF LessEq
<1>3. CASE j < i
  <2>1. buf[j].at < buf[i].at
    BY <1>3 DEF Chronological
  <2>. QED
    BY <1>1, <1>3, <2>1 DEF LessEq
<1>4. CASE i = j
  BY <1>1, <1>4 DEF LessEq
<1>. QED
  BY <1>1, <1>2, <1>3, <1>4

\* The average and the spread of the others.
LEMMA HistoryIsOthers ==
    ASSUME NEW buf \in Seq(Points), Chronological(buf), NEW k \in 1..Len(buf)
    PROVE  History(buf, k) = Others(Elements(buf), buf[k])
<1> DEFINE I == (1..Len(buf)) \ {k}
           J == {buf[i] : i \in I}
           b == [i \in I |-> buf[i]]
           f1 == [i \in I |-> buf[i].dev]
           g1 == [y \in J |-> y.dev]
           f2 == [i \in I |-> buf[i].dev * buf[i].dev]
           g2 == [y \in J |-> y.dev * y.dev]
<1>1. I \in SUBSET (1..Len(buf)) /\ DOMAIN buf \ {k} = I
  BY PointsAre
<1>2. b \in Bijection(I, J) /\ IsFiniteSet(I) /\ IsFiniteSet(J) /\ Cardinality(J) = Cardinality(I)
  <2> HIDE DEF I
  <2>. QED
    BY <1>1, ImageIs
<1>3. Elements(buf) \ {buf[k]} = J
  <2>1. ASSUME NEW i \in I
        PROVE  buf[i] # buf[k]
    <3>1. i \in 1..Len(buf) /\ ~(i <= k /\ k <= i)
      BY PointsAre
    <3>2. LessEq(buf[i], buf[k]) <=> i <= k
      BY <3>1, OrderIs
    <3>3. LessEq(buf[k], buf[i]) <=> k <= i
      BY <3>1, OrderIs
    <3>4. LessEq(buf[k], buf[k])
      <4>1. k <= k
        BY PointsAre
      <4>. QED
        BY <4>1, OrderIs
    <3>. QED
      BY <3>1, <3>2, <3>3, <3>4
  <2>2. Elements(buf) = J \cup {buf[k]}
    BY DEF Elements
  <2>. QED
    BY <2>1, <2>2
<1>4. /\ \A i \in I : b[i] = buf[i] /\ buf[i] \in J /\ buf[i].dev \in Int
      /\ \A y \in J : y.dev \in Int
  BY PointsAre
<1>5. \A v \in Int : v * v \in Int
  OBVIOUS
<1> HIDE DEF I, J, b
<1>6. SumFunction(f1) = SumFunction(g1)
  <2>1. DOMAIN f1 = I /\ DOMAIN g1 = J
    OBVIOUS
  <2>2. (\A i \in I : f1[i] \in Int /\ f1[i] = g1[b[i]]) /\ \A y \in J : g1[y] \in Int
    BY <1>4
  <2> HIDE DEF f1, g1
  <2>. QED
    BY <1>2, <2>1, <2>2, SumsOfPairs
<1>7. SumFunction(f2) = SumFunction(g2)
  <2>1. DOMAIN f2 = I /\ DOMAIN g2 = J
    OBVIOUS
  <2>2. \A i \in I : f2[i] \in Int
    BY <1>4, <1>5
  <2>3. \A i \in I : f2[i] = g2[b[i]]
    BY <1>4
  <2>4. \A y \in J : g2[y] \in Int
    BY <1>4, <1>5
  <2> HIDE DEF f2, g2
  <2>. QED
    BY <1>2, <2>1, <2>2, <2>3, <2>4, SumsOfPairs
<1>8. History(buf, k) = [n |-> Cardinality(I), s |-> SumFunction(f1), q |-> SumFunction(f2)]
  BY <1>1 DEF History
<1>9. Others(Elements(buf), buf[k]) =
        [n |-> Cardinality(J), s |-> SumFunction(g1), q |-> SumFunction(g2)]
  BY <1>3 DEF Others
<1>. QED
  BY <1>2, <1>6, <1>7, <1>8, <1>9

\* The points up to one, and the last m of them.
LEMMA LastIs ==
    ASSUME NEW buf \in Seq(Points), Chronological(buf), NEW k \in 1..Len(buf), NEW m \in Nat
    PROVE  /\ Cardinality(UpTo(Elements(buf), buf[k])) = k
           /\ k >= m => Newest(UpTo(Elements(buf), buf[k]), m) = {buf[i] : i \in (k - m + 1)..k}
<1> DEFINE n == Len(buf)
           U == {buf[i] : i \in 1..k}
           Newer(j) == {y \in U : ~LessEq(y, buf[j])}
<1>1. n \in Nat /\ k \in Nat /\ k <= n
  BY PointsAre
<1>2. UpTo(Elements(buf), buf[k]) = U
  <2>1. \A i \in 1..n : LessEq(buf[i], buf[k]) <=> i <= k
    BY OrderIs
  <2>2. Elements(buf) = {buf[i] : i \in 1..n}
    BY DEF Elements
  <2>3. UpTo(Elements(buf), buf[k]) = {y \in Elements(buf) : LessEq(y, buf[k])}
    BY DEF UpTo
  <2> HIDE DEF n
  <2>4. \A i \in 1..k : i \in 1..n /\ i <= k
    BY <1>1
  <2>5. \A i \in 1..n : i <= k => i \in 1..k
    BY <1>1
  <2>. QED
    BY <2>1, <2>2, <2>3, <2>4, <2>5
<1>3. Cardinality(U) = k
  <2>1. 1..k \in SUBSET (1..Len(buf))
    BY <1>1
  <2>2. Cardinality(1..k) = k
    BY <1>1, FS_Interval
  <2>. QED
    BY <2>1, <2>2, ImageIs
<1>4. ASSUME NEW j \in 1..k
      PROVE  Cardinality(Newer(j)) = k - j
  <2>1. Newer(j) = {buf[i] : i \in (j + 1)..k}
    <3>1. \A i \in 1..k : LessEq(buf[i], buf[j]) <=> i <= j
      <4>1. \A i \in 1..k : i \in 1..Len(buf)
        BY <1>1
      <4>. QED
        BY <4>1, OrderIs
    <3>2. \A i \in 1..k : ~(i <= j) => i \in (j + 1)..k
      BY <1>1
    <3>3. \A i \in (j + 1)..k : i \in 1..k /\ ~(i <= j)
      BY <1>1
    <3>. QED
      BY <3>1, <3>2, <3>3
  <2>2. (j + 1)..k \in SUBSET (1..Len(buf))
    BY <1>1
  <2>3. Cardinality((j + 1)..k) = k - j
    <3>1. Cardinality((j + 1)..k) = IF j + 1 > k THEN 0 ELSE k - (j + 1) + 1
      BY <1>1, FS_Interval
    <3>. QED
      BY <1>1, <3>1
  <2> HIDE DEF Newer
  <2>. QED
    BY <2>1, <2>2, <2>3, ImageIs
<1>5. ASSUME k >= m
      PROVE  Newest(U, m) = {buf[i] : i \in (k - m + 1)..k}
  <2>1. Newest(U, m) = {y \in U : Cardinality({z \in U : ~LessEq(z, y)}) < m}
    BY DEF Newest
  <2>2. ASSUME NEW y \in Newest(U, m)
        PROVE  y \in {buf[i] : i \in (k - m + 1)..k}
    <3>1. PICK j \in 1..k : y = buf[j]
      BY <2>1
    <3>2. Cardinality(Newer(j)) < m
      BY <2>1, <2>2, <3>1
    <3>3. j \in (k - m + 1)..k
      <4> HIDE DEF Newer
      <4>. QED
        BY <1>1, <1>4, <3>2
    <3>. QED
      BY <3>1, <3>3
  <2>3. ASSUME NEW j \in (k - m + 1)..k
        PROVE  buf[j] \in Newest(U, m)
    <3>1. j \in 1..k /\ k - j < m
      BY <1>1, <1>5
    <3>2. Cardinality(Newer(j)) < m
      <4> HIDE DEF Newer
      <4>. QED
        BY <1>4, <3>1
    <3>. QED
      BY <2>1, <3>1, <3>2
  <2>. QED
    BY <2>2, <2>3
<1>. QED
  BY <1>2, <1>3, <1>5

\* A rule looks back from a place as it looks back from the point there.
LEMMA RunIsEndsRun ==
    ASSUME NEW buf \in Seq(Points), Chronological(buf), NEW k \in 1..Len(buf),
           NEW m \in Nat, NEW c, NEW sigmas
    PROVE  EndsRun(Elements(buf), buf[k], m, c, sigmas) <=>
              k >= m /\ \E side \in Sides :
                  same_side_count(buf, k, m, sigmas, side, History(buf, k)) >= c
<1> DEFINE S == Elements(buf)
           x == buf[k]
           h == History(buf, k)
           last == {buf[i] : i \in (k - m + 1)..k}
<1>1. h = Others(S, x)
  BY HistoryIsOthers
<1>2. /\ Cardinality(UpTo(S, x)) = k
      /\ k >= m => Newest(UpTo(S, x), m) = last
  BY LastIs
<1> HIDE DEF h
<1>3. ASSUME k >= m, NEW side \in Sides
      PROVE  Cardinality({y \in last : Beyond(y.dev, sigmas, side, h)})
               = same_side_count(buf, k, m, sigmas, side, h)
  <2> DEFINE I == {i \in (k - m + 1)..k : Beyond(buf[i].dev, sigmas, side, h)}
  <2>1. I \in SUBSET (1..Len(buf))
    <3>1. Len(buf) \in Nat
      BY PointsAre
    <3>. QED
      BY <1>3, <3>1
  <2>2. {y \in last : Beyond(y.dev, sigmas, side, h)} = {buf[i] : i \in I}
    OBVIOUS
  <2>3. Cardinality({buf[i] : i \in I}) = Cardinality(I)
    <3> HIDE DEF I
    <3>. QED
      BY <2>1, ImageIs
  <2>. QED
    BY <2>2, <2>3 DEF same_side_count
<1>4. EndsRun(S, x, m, c, sigmas) <=>
        /\ k >= m
        /\ \E side \in Sides :
              Cardinality({y \in Newest(UpTo(S, x), m) : Beyond(y.dev, sigmas, side, h)}) >= c
  BY <1>1, <1>2 DEF EndsRun
<1>5. CASE k >= m
  <2>1. EndsRun(S, x, m, c, sigmas) <=>
          \E side \in Sides : Cardinality({y \in last : Beyond(y.dev, sigmas, side, h)}) >= c
    <3> HIDE DEF S, x, last
    <3>. QED
      BY <1>2, <1>4, <1>5
  <2> HIDE DEF last
  <2>. QED
    BY <1>3, <1>5, <2>1 DEF h
<1>6. CASE ~(k >= m)
  BY <1>4, <1>6
<1>. QED
  BY <1>5, <1>6

LEMMA RulesAre ==
    ASSUME NEW buf \in Seq(Points), Chronological(buf), NEW k \in 1..Len(buf)
    PROVE  western_electric(buf, k) =
              {r \in 1..4 : \/ r = 1 /\ EndsRun(Elements(buf), buf[k], 1, 1, 3)
                            \/ r = 2 /\ EndsRun(Elements(buf), buf[k], 3, 2, 2)
                            \/ r = 3 /\ EndsRun(Elements(buf), buf[k], 5, 4, 1)
                            \/ r = 4 /\ EndsRun(Elements(buf), buf[k], 8, 8, 0)}
<1> DEFINE Run(m, c, sigmas) ==
              k >= m /\ \E side \in Sides :
                  same_side_count(buf, k, m, sigmas, side, History(buf, k)) >= c
           Ends(m, c, sigmas) == EndsRun(Elements(buf), buf[k], m, c, sigmas)
<1>1. western_electric(buf, k) = {r \in 1..4 : \/ r = 1 /\ Run(1, 1, 3)
                                               \/ r = 2 /\ Run(3, 2, 2)
                                               \/ r = 3 /\ Run(5, 4, 1)
                                               \/ r = 4 /\ Run(8, 8, 0)}
  BY DEF western_electric
<1>2. /\ Ends(1, 1, 3) <=> Run(1, 1, 3)
      /\ Ends(3, 2, 2) <=> Run(3, 2, 2)
      /\ Ends(5, 4, 1) <=> Run(5, 4, 1)
      /\ Ends(8, 8, 0) <=> Run(8, 8, 0)
  BY RunIsEndsRun
<1> HIDE DEF Run, Ends
<1>3. western_electric(buf, k) = {r \in 1..4 : \/ r = 1 /\ Ends(1, 1, 3)
                                               \/ r = 2 /\ Ends(3, 2, 2)
                                               \/ r = 3 /\ Ends(5, 4, 1)
                                               \/ r = 4 /\ Ends(8, 8, 0)}
  BY <1>1, <1>2
<1>. QED
  BY <1>3 DEF Ends

\* What observe reports is what the readings call for.
LEMMA ObserveCalls ==
    ASSUME NEW buf, NEW S, S \subseteq Points, IsFiniteSet(S), WindowOK(buf, S),
           NEW x, Fresh(x, S), \A y, z \in S : y.at = z.at => y = z
    PROVE  observe(buf, x).rule = CalledFor(S \cup {x}, x)
<1> DEFINE now == observe(buf, x).buf
           T == S \cup {x}
           W == Elements(now)
<1>1. WindowOK(now, T)
  BY ObserveKeeps
<1>2. T \subseteq Points /\ IsFiniteSet(T) /\ \A y, z \in T : y.at = z.at => y = z
  BY FS_AddElement DEF Fresh
<1>3. now = Trimmed(insort(buf, x))
  BY DEF observe
<1> HIDE DEF now, T
<1>4. W = Newest(T, WINDOW)
  BY <1>1, <1>2, WindowIsTheNewest
<1>5. now \in Seq(Points) /\ Chronological(now) /\ DOMAIN now = 1..Len(now) /\ Len(now) \in Nat
  BY <1>1, PointsAre DEF WindowOK
<1>6. Cardinality(W) = Len(now)
  BY <1>5, ElementsCount
<1>7. Occurs(now, x) <=> x \in W
  BY <1>5 DEF Occurs, Elements
<1> DEFINE full == Len(now) >= WARMUP /\ Occurs(now, x)
           rules == IF full THEN western_electric(now, index(now, x)) ELSE {}
           ended == {r \in 1..4 : \/ r = 1 /\ EndsRun(W, x, 1, 1, 3)
                                  \/ r = 2 /\ EndsRun(W, x, 3, 2, 2)
                                  \/ r = 3 /\ EndsRun(W, x, 5, 4, 1)
                                  \/ r = 4 /\ EndsRun(W, x, 8, 8, 0)}
<1>8. observe(buf, x).rule = IF rules = {} THEN 0 ELSE Min(rules)
  BY <1>3 DEF observe
<1>9. CalledFor(T, x) = IF Cardinality(W) < WARMUP \/ x \notin W \/ ended = {}
                        THEN 0 ELSE Min(ended)
  BY <1>4 DEF CalledFor
<1>10. full => western_electric(now, index(now, x)) = ended
  <2> SUFFICES ASSUME full PROVE western_electric(now, index(now, x)) = ended
    OBVIOUS
  <2>1. x \in W
    BY <1>7
  <2>2. index(now, x) \in 1..Len(now) /\ now[index(now, x)] = x
    BY <1>5, <2>1, IndexIs
  <2>. QED
    BY <1>5, <2>2, RulesAre
<1>11. full <=> ~(Cardinality(W) < WARMUP) /\ x \in W
  BY <1>5, <1>6, <1>7, WindowAssumption
<1> HIDE DEF W, ended, full
<1>12. CalledFor(T, x) = IF rules = {} THEN 0 ELSE Min(rules)
  <2>1. CASE full
    BY <1>9, <1>10, <1>11, <2>1
  <2>2. CASE ~full
    BY <1>9, <1>11, <2>2
  <2>. QED
    BY <2>1, <2>2
<1> HIDE DEF rules
<1>. QED
  BY <1>8, <1>12 DEF T

-----------------------------------------------------------------------------

\* A reading is alerted on exactly when it ends a Western Electric run of the newest
\* readings seen since the worker's last start, in measured order, by the lowest such
\* rule (worker.py, Charts.observe; spc.py, western_electric): for every manifest,
\* window, warm-up and arrival order across the partitions.
THEOREM AlertsFollowRulesHolds == Spec => AlertsFollowRules
<1> DEFINE Calls(p) ==
        position'[p] = position[p] + 1 =>
            LET x == Point(NextReading(p))
                rule == IF Charted(NextReading(p)) THEN CalledFor(seen', x) ELSE 0
            IN  outbox' = IF rule = 0 THEN outbox ELSE Append(outbox, Alert(x, rule))
<1>1. SimInv /\ WorkerInv /\ [Next]_vars => \A p \in Partition : Calls(p)
  <2> SUFFICES ASSUME SimInv, WorkerInv, [Next]_vars, NEW p \in Partition,
                      position'[p] = position[p] + 1
               PROVE  Calls(p)
    OBVIOUS
  <2>1. position \in [Partition -> Nat] /\ position[p] \in Nat
    BY DEF WorkerInv, WorkerTypes
  <2>2. Observe(p)
    <3>1. ASSUME position' = position PROVE FALSE
      BY <2>1, <3>1
    <3>2. ASSUME NEW q \in Partition, Observe(q), q # p PROVE FALSE
      <4>1. position' = [position EXCEPT ![q] = position[q] + 1]
        BY <3>2 DEF Observe, Read
      <4>2. position'[p] = position[p]
        BY <2>1, <3>2, <4>1
      <4>. QED
        BY <2>1, <4>2
    <3>3. ASSUME Crash PROVE FALSE
      <4>1. PICK n \in [Partition -> 0..MaxRewind] :
              position' = [r \in Partition |-> Rewound(r, n[r])]
        BY <3>3 DEF Crash
      <4>2. n[p] \in Nat /\ position'[p] = Rewound(p, n[p])
        BY <4>1, StreamAssumption
      <4>. QED
        BY <2>1, <4>2 DEF Rewound
    <3>. QED
      BY <3>1, <3>2, <3>3 DEF Next, AlertLeaves, vars, workerVars
  <2> DEFINE e == NextReading(p)
  <2>3. PICK x : x = Point(e)
    OBVIOUS
  <2>4. CASE Charted(e)
    <3>1. HasNext(p)
      BY <2>2 DEF Observe, Read
    <3>2. Fresh(x, seen)
      BY <2>3, <2>4, <3>1, NextIsFresh
    <3>3. observe(chart, x).rule = CalledFor(seen \cup {x}, x)
      BY <3>2, SeenAre, ObserveCalls DEF WorkerInv
    <3>4. /\ seen' = seen \cup {x}
          /\ outbox' = IF observe(chart, x).rule = 0 THEN outbox
                       ELSE Append(outbox, Alert(x, observe(chart, x).rule))
      BY <2>2, <2>3, <2>4 DEF Observe
    <3>. QED
      BY <2>3, <2>4, <3>3, <3>4
  <2>5. CASE ~Charted(e)
    BY <2>2, <2>5 DEF Observe
  <2>. QED
    BY <2>4, <2>5
<1>. QED
  BY <1>1, WorkerInvariance, PTL DEF Spec, AlertsFollowRules

===============================================================================
