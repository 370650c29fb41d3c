---------------------------- MODULE RcompProofs ----------------------------
(***************************************************************************)
(* Proofs about the compositor: that its list is a list of windows, that   *)
(* the screen is up to date whenever it rests, that the list is then in    *)
(* the server's order, and how the opacity of an entry can go wrong.       *)
(***************************************************************************)
EXTENDS Rcomp, SequenceTheorems, TLAPS

-----------------------------------------------------------------------------
(* Queues                                                                  *)

\* The places of a longer and of a shorter queue.
LEMMA Longer ==
    ASSUME NEW S, NEW q \in Seq(S), NEW e \in S
    PROVE  /\ Append(q, e) \in Seq(S)
           /\ DOMAIN q = 1 .. Len(q) /\ Len(q) \in Nat
           /\ DOMAIN Append(q, e) = 1 .. Len(q) + 1
           /\ Append(q, e)[Len(q) + 1] = e
           /\ \A i \in 1 .. Len(q) : Append(q, e)[i] = q[i]
BY AppendProperties, LenProperties

LEMMA Shorter ==
    ASSUME NEW S, NEW q \in Seq(S), q # <<>>
    PROVE  /\ Tail(q) \in Seq(S) /\ Head(q) \in S /\ Head(q) = q[1]
           /\ DOMAIN q = 1 .. Len(q) /\ Len(q) \in Nat \ {0}
           /\ DOMAIN Tail(q) = 1 .. Len(q) - 1
           /\ \A i \in 1 .. Len(q) - 1 : Tail(q)[i] = q[i + 1]
BY HeadTailProperties, LenProperties, EmptySeq

\* One more event.
LEMMA SomeAppend ==
    ASSUME NEW S, NEW q \in Seq(S), NEW e \in S, NEW P
    PROVE  Some(Append(q, e), P) <=> Some(q, P) \/ e \in P
<1> DEFINE t == Append(q, e)
<1>1. DOMAIN t = DOMAIN q \cup {Len(q) + 1} /\ t[Len(q) + 1] = e /\ \A i \in DOMAIN q : t[i] = q[i]
  BY Longer
<1> QED
  BY <1>1, Zenon DEF Some

LEMMA LastingAppend ==
    ASSUME NEW S, NEW q \in Seq(S), NEW e \in S, NEW P, NEW Q
    PROVE  Lasting(Append(q, e), P, Q) <=> e \in P \/ (Lasting(q, P, Q) /\ e \notin Q)
<1> DEFINE t == Append(q, e)
<1> DEFINE n == Len(q) + 1
<1>1. /\ DOMAIN t = DOMAIN q \cup {n} /\ t[n] = e /\ n \notin DOMAIN q
      /\ \A i \in DOMAIN q : t[i] = q[i] /\ i < n /\ ~(n < i) /\ ~(n < n)
  BY Longer
<1>2. Lasting(t, P, Q) => e \in P \/ (Lasting(q, P, Q) /\ e \notin Q)
  <2> SUFFICES ASSUME NEW i \in DOMAIN t, t[i] \in P, \A j \in DOMAIN t : j > i => t[j] \notin Q,
                      e \notin P
               PROVE  Lasting(q, P, Q) /\ e \notin Q
    BY Zenon DEF Lasting
  <2>1. i \in DOMAIN q /\ n > i
    BY <1>1
  <2> QED
    BY <1>1, <2>1 DEF Lasting
<1>3. e \in P => Lasting(t, P, Q)
  <2> SUFFICES ASSUME e \in P PROVE Lasting(t, P, Q)
    OBVIOUS
  <2>1. \A j \in DOMAIN t : ~(j > n)
    BY <1>1
  <2> QED
    BY <1>1, <2>1 DEF Lasting
<1>4. Lasting(q, P, Q) /\ e \notin Q => Lasting(t, P, Q)
  BY <1>1 DEF Lasting
<1> QED
  BY <1>2, <1>3, <1>4, Zenon

LEMMA BehindAppend ==
    ASSUME NEW S, NEW q \in Seq(S), NEW e \in S, NEW P, NEW Q,
           Behind(q, P, Q), e \in P => Some(q, Q)
    PROVE  Behind(Append(q, e), P, Q)
BY Longer DEF Behind, Some

LEMMA SpacedAppend ==
    ASSUME NEW S, NEW q \in Seq(S), NEW e \in S, NEW P, NEW R, NEW Q,
           Spaced(q, P, R, Q), e \in R => ~Lasting(q, P, Q)
    PROVE  Spaced(Append(q, e), P, R, Q)
BY Longer DEF Spaced, Lasting

\* One less.
LEMMA SomeTail ==
    ASSUME NEW S, NEW q \in Seq(S), q # <<>>, NEW P
    PROVE  Some(q, P) <=> Head(q) \in P \/ Some(Tail(q), P)
<1>1. Some(q, P) => Head(q) \in P \/ Some(Tail(q), P)
  <2> SUFFICES ASSUME NEW i \in DOMAIN q, q[i] \in P, i # 1
               PROVE  Some(Tail(q), P)
    BY Shorter DEF Some
  <2>1. i - 1 \in DOMAIN Tail(q) /\ Tail(q)[i - 1] = q[i]
    BY Shorter
  <2> QED
    BY <2>1 DEF Some
<1>2. Some(Tail(q), P) => Some(q, P)
  BY Shorter DEF Some
<1> QED
  BY <1>1, <1>2, Shorter DEF Some

LEMMA LastingTail ==
    ASSUME NEW S, NEW q \in Seq(S), q # <<>>, NEW P, NEW Q
    PROVE  Lasting(q, P, Q) <=>
               Lasting(Tail(q), P, Q) \/ (Head(q) \in P /\ ~Some(Tail(q), Q))
<1>1. Lasting(q, P, Q) => Lasting(Tail(q), P, Q) \/ (Head(q) \in P /\ ~Some(Tail(q), Q))
  <2> SUFFICES ASSUME NEW i \in DOMAIN q, q[i] \in P, \A j \in DOMAIN q : j > i => q[j] \notin Q
               PROVE  Lasting(Tail(q), P, Q) \/ (Head(q) \in P /\ ~Some(Tail(q), Q))
    BY DEF Lasting
  <2>1. CASE i = 1
    BY <2>1, Shorter DEF Some
  <2>2. CASE i # 1
    <3>1. i - 1 \in DOMAIN Tail(q) /\ Tail(q)[i - 1] = q[i]
      BY <2>2, Shorter
    <3>2. \A j \in DOMAIN Tail(q) : j > i - 1 => Tail(q)[j] \notin Q
      BY Shorter
    <3> QED
      BY <3>1, <3>2 DEF Lasting
  <2> QED
    BY <2>1, <2>2
<1>2. Lasting(Tail(q), P, Q) => Lasting(q, P, Q)
  <2> SUFFICES ASSUME NEW i \in DOMAIN Tail(q), Tail(q)[i] \in P,
                      \A j \in DOMAIN Tail(q) : j > i => Tail(q)[j] \notin Q
               PROVE  Lasting(q, P, Q)
    BY DEF Lasting
  <2>1. i + 1 \in DOMAIN q /\ q[i + 1] \in P
    BY Shorter
  <2>2. ASSUME NEW j \in DOMAIN q, j > i + 1 PROVE q[j] \notin Q
    <3>1. j - 1 \in DOMAIN Tail(q) /\ j - 1 > i /\ Tail(q)[j - 1] = q[j]
      BY <2>2, Shorter
    <3> QED
      BY <3>1
  <2> QED
    BY <2>1, <2>2 DEF Lasting
<1>3. Head(q) \in P /\ ~Some(Tail(q), Q) => Lasting(q, P, Q)
  <2> SUFFICES ASSUME Head(q) \in P, ~Some(Tail(q), Q) PROVE Lasting(q, P, Q)
    OBVIOUS
  <2>1. ASSUME NEW j \in DOMAIN q, j > 1 PROVE q[j] \notin Q
    <3>1. j - 1 \in DOMAIN Tail(q) /\ Tail(q)[j - 1] = q[j]
      BY <2>1, Shorter
    <3> QED
      BY <3>1 DEF Some
  <2> QED
    BY <2>1, Shorter DEF Lasting
<1> QED
  BY <1>1, <1>2, <1>3

LEMMA BehindTail ==
    ASSUME NEW S, NEW q \in Seq(S), q # <<>>, NEW P, NEW R, NEW Q,
           \/ Behind(q, R, Q) /\ Head(q) \notin Q
           \/ Spaced(q, P, R, Q) /\ Head(q) \in P
    PROVE  Behind(Tail(q), R, Q)
<1> SUFFICES ASSUME NEW i \in DOMAIN Tail(q), Tail(q)[i] \in R
             PROVE  \E j \in DOMAIN Tail(q) : j < i /\ Tail(q)[j] \in Q
  BY DEF Behind
<1>1. i + 1 \in DOMAIN q /\ q[i + 1] \in R /\ 1 \in DOMAIN q /\ 1 < i + 1
  BY Shorter
<1>2. PICK k \in DOMAIN q : 1 < k /\ k < i + 1 /\ q[k] \in Q
  <2>1. CASE Behind(q, R, Q) /\ Head(q) \notin Q
    <3>1. PICK k \in DOMAIN q : k < i + 1 /\ q[k] \in Q
      BY <1>1, <2>1 DEF Behind
    <3> QED
      BY <2>1, <3>1, Shorter
  <2>2. CASE Spaced(q, P, R, Q) /\ Head(q) \in P
    BY <1>1, <2>2, Shorter DEF Spaced
  <2> QED
    BY <2>1, <2>2
<1>3. k - 1 \in DOMAIN Tail(q) /\ k - 1 < i /\ Tail(q)[k - 1] = q[k]
  BY <1>2, Shorter
<1> QED
  BY <1>2, <1>3

LEMMA SpacedTail ==
    ASSUME NEW S, NEW q \in Seq(S), q # <<>>, NEW P, NEW R, NEW Q, Spaced(q, P, R, Q)
    PROVE  Spaced(Tail(q), P, R, Q)
<1> SUFFICES ASSUME NEW i \in DOMAIN Tail(q), NEW k \in DOMAIN Tail(q),
                    i < k, Tail(q)[i] \in P, Tail(q)[k] \in R
             PROVE  \E j \in DOMAIN Tail(q) : i < j /\ j < k /\ Tail(q)[j] \in Q
  BY DEF Spaced
<1>1. /\ i + 1 \in DOMAIN q /\ k + 1 \in DOMAIN q /\ i + 1 < k + 1
      /\ q[i + 1] \in P /\ q[k + 1] \in R
  BY Shorter
<1>2. PICK j \in DOMAIN q : i + 1 < j /\ j < k + 1 /\ q[j] \in Q
  BY <1>1 DEF Spaced
<1>3. j - 1 \in DOMAIN Tail(q) /\ i < j - 1 /\ j - 1 < k /\ Tail(q)[j - 1] = q[j]
  BY <1>2, Shorter
<1> QED
  BY <1>2, <1>3

-----------------------------------------------------------------------------
(* Lists                                                                   *)

LEMMA PositionIs ==
    ASSUME NEW S, NEW s \in Seq(S), NEW w, Contains(s, w)
    PROVE  Position(s, w) \in 1 .. Len(s) /\ s[Position(s, w)] = w
BY LenProperties DEF Position, Contains

LEMMA StackIs ==
    ASSUME NEW S, NEW s \in Seq(S)
    PROVE  /\ Stack(s) \subseteq S \X S
           /\ \A x, y : <<x, y>> \in Stack(s) <=>
                  \E i, j \in 1 .. Len(s) : i <= j /\ s[i] = x /\ s[j] = y
           /\ \A x : <<x, x>> \in Stack(s) <=> Contains(s, x)
<1>1. DOMAIN s = 1 .. Len(s) /\ Len(s) \in Nat /\ \A i \in 1 .. Len(s) : s[i] \in S
  BY LenProperties, ElementOfSeq
<1>2. Stack(s) \subseteq S \X S
  BY <1>1 DEF Stack
<1>3. \A x, y : <<x, y>> \in Stack(s) <=> \E i, j \in 1 .. Len(s) : i <= j /\ s[i] = x /\ s[j] = y
  BY <1>1 DEF Stack
<1> QED
  BY <1>1, <1>2, <1>3 DEF Contains

\* A list without w, by its places, and what it has.
LEMMA WithoutPlaces ==
    ASSUME NEW S, NEW s \in Seq(S), NEW w, Contains(s, w)
    PROVE  /\ Without(s, w) \in Seq(S)
           /\ Len(Without(s, w)) = Len(s) - 1
           /\ \A i \in 1 .. Len(s) - 1 :
                  Without(s, w)[i] = IF i < Position(s, w) THEN s[i] ELSE s[i + 1]
<1> DEFINE p == Position(s, w)
<1> DEFINE a == SubSeq(s, 1, p - 1)
<1> DEFINE b == SubSeq(s, p + 1, Len(s))
<1>1. p \in 1 .. Len(s) /\ Len(s) \in Nat
  BY PositionIs, LenProperties
<1>2. a \in Seq(S) /\ Len(a) = p - 1 /\ \A i \in 1 .. p - 1 : a[i] = s[i]
  BY <1>1, SubSeqProperties
<1>3. b \in Seq(S) /\ Len(b) = Len(s) - p /\ \A i \in 1 .. Len(s) - p : b[i] = s[p + i]
  BY <1>1, SubSeqProperties
<1>4. Without(s, w) = a \o b
  BY DEF Without, RemoveAt
<1> HIDE DEF a, b, p
<1>5. /\ a \o b \in Seq(S) /\ Len(a \o b) = Len(a) + Len(b)
      /\ \A i \in 1 .. Len(a) + Len(b) : (a \o b)[i] = IF i <= Len(a) THEN a[i] ELSE b[i - Len(a)]
  BY <1>2, <1>3, ConcatProperties
<1>6. ASSUME NEW i \in 1 .. Len(s) - 1 PROVE (a \o b)[i] = IF i < p THEN s[i] ELSE s[i + 1]
  BY <1>1, <1>2, <1>3, <1>5
<1> QED
  BY <1>1, <1>2, <1>3, <1>4, <1>5, <1>6 DEF p

LEMMA WithoutIs ==
    ASSUME NEW S, NEW s \in Seq(S), IsInjective(s), NEW w
    PROVE  /\ Without(s, w) \in Seq(S) /\ IsInjective(Without(s, w))
           /\ \A x : Contains(Without(s, w), x) <=> Contains(s, x) /\ x # w
           /\ \A x, y : <<x, y>> \in Stack(Without(s, w)) <=>
                            <<x, y>> \in Stack(s) /\ x # w /\ y # w
<1> DEFINE r == Without(s, w)
<1> DEFINE p == Position(s, w)
<1>1. CASE ~Contains(s, w)
  <2>1. r = s
    BY <1>1 DEF Without
  <2>2. \A x, y : <<x, y>> \in Stack(s) => x # w /\ y # w
    BY <1>1, StackIs DEF Contains
  <2> QED
    BY <1>1, <2>1, <2>2
<1>2. CASE Contains(s, w)
  <2>1. /\ r \in Seq(S) /\ Len(r) = Len(s) - 1 /\ DOMAIN r = 1 .. Len(r)
        /\ \A i \in 1 .. Len(s) - 1 : r[i] = IF i < p THEN s[i] ELSE s[i + 1]
    BY <1>2, WithoutPlaces, LenProperties
  <2>2. p \in 1 .. Len(s) /\ s[p] = w /\ Len(s) \in Nat /\ DOMAIN s = 1 .. Len(s)
    BY <1>2, PositionIs, LenProperties
  <2>3. \A i, j \in 1 .. Len(s) : s[i] = s[j] => i = j
    BY <2>2 DEF IsInjective
  <2> HIDE DEF r, p
  <2>4. IsInjective(r)
    BY <2>1, <2>2, <2>3 DEF IsInjective
  <2>5. ASSUME NEW x, NEW y, <<x, y>> \in Stack(r) PROVE <<x, y>> \in Stack(s) /\ x # w /\ y # w
    <3>1. PICK i \in 1 .. Len(r), j \in 1 .. Len(r) : i <= j /\ r[i] = x /\ r[j] = y
      BY <2>1, <2>5, StackIs
    <3> DEFINE k == IF i < p THEN i ELSE i + 1
    <3> DEFINE l == IF j < p THEN j ELSE j + 1
    <3>2. k \in 1 .. Len(s) /\ l \in 1 .. Len(s) /\ k <= l /\ s[k] = x /\ s[l] = y /\ k # p /\ l # p
      BY <2>1, <2>2, <3>1
    <3> QED
      BY <2>2, <2>3, <3>2, StackIs
  <2>6. ASSUME NEW x, NEW y, <<x, y>> \in Stack(s), x # w, y # w PROVE <<x, y>> \in Stack(r)
    <3>1. PICK i \in 1 .. Len(s), j \in 1 .. Len(s) : i <= j /\ s[i] = x /\ s[j] = y
      BY <2>6, StackIs
    <3> DEFINE k == IF i < p THEN i ELSE i - 1
    <3> DEFINE l == IF j < p THEN j ELSE j - 1
    <3>2. i # p /\ j # p
      BY <2>2, <2>6, <3>1
    <3>3. k \in 1 .. Len(r) /\ l \in 1 .. Len(r) /\ k <= l /\ r[k] = x /\ r[l] = y
      BY <2>1, <2>2, <3>1, <3>2
    <3> QED
      BY <2>1, <3>3, StackIs
  <2>7. \A x : Contains(r, x) <=> Contains(s, x) /\ x # w
    BY <2>1, <2>5, <2>6, StackIs
  <2> QED
    BY <2>1, <2>4, <2>5, <2>6, <2>7 DEF r
<1> QED
  BY <1>1, <1>2

\* t is the list s with w put into place k.
PutAt(s, k, w, t) ==
    /\ k \in 1 .. Len(s) + 1 /\ Len(t) = Len(s) + 1
    /\ \A i \in 1 .. Len(s) + 1 :
           t[i] = IF i < k THEN s[i] ELSE IF i = k THEN w ELSE s[i - 1]

LEMMA InsertIs ==
    ASSUME NEW S, NEW s \in Seq(S), IsInjective(s), NEW w \in S, ~Contains(s, w),
           NEW t \in Seq(S), NEW k, PutAt(s, k, w, t)
    PROVE  /\ IsInjective(t)
           /\ \A x : Contains(t, x) <=> Contains(s, x) \/ x = w
           /\ \A x, y : <<x, y>> \in Stack(t) <=>
                  \/ <<x, y>> \in Stack(s)
                  \/ x = w /\ y = w
                  \/ y = w /\ \E i \in 1 .. Len(s) : i < k /\ s[i] = x
                  \/ x = w /\ \E i \in 1 .. Len(s) : k <= i /\ s[i] = y
<1>0. /\ k \in 1 .. Len(s) + 1 /\ Len(t) = Len(s) + 1
      /\ \A i \in 1 .. Len(s) + 1 :
             t[i] = IF i < k THEN s[i] ELSE IF i = k THEN w ELSE s[i - 1]
  BY DEF PutAt
<1> USE <1>0
<1>1. Len(s) \in Nat /\ DOMAIN s = 1 .. Len(s) /\ DOMAIN t = 1 .. Len(s) + 1
  BY LenProperties
<1>2. \A i, j \in 1 .. Len(s) : s[i] = s[j] => i = j
  BY <1>1 DEF IsInjective
<1>3. \A i \in 1 .. Len(s) : s[i] # w
  BY DEF Contains
<1>4. IsInjective(t)
  BY <1>1, <1>2, <1>3 DEF IsInjective
<1>5. ASSUME NEW x, NEW y, <<x, y>> \in Stack(t)
      PROVE  \/ <<x, y>> \in Stack(s)
             \/ x = w /\ y = w
             \/ y = w /\ \E i \in 1 .. Len(s) : i < k /\ s[i] = x
             \/ x = w /\ \E i \in 1 .. Len(s) : k <= i /\ s[i] = y
  <2>1. PICK i \in 1 .. Len(s) + 1, j \in 1 .. Len(s) + 1 : i <= j /\ t[i] = x /\ t[j] = y
    BY <1>1, <1>5, StackIs
  <2>2. CASE i = k
    BY <1>1, <2>1, <2>2
  <2>3. CASE j = k
    BY <1>1, <2>1, <2>3
  <2>4. CASE i # k /\ j # k
    <3> DEFINE a == IF i < k THEN i ELSE i - 1
    <3> DEFINE b == IF j < k THEN j ELSE j - 1
    <3>1. a \in 1 .. Len(s) /\ b \in 1 .. Len(s) /\ a <= b /\ s[a] = x /\ s[b] = y
      BY <1>1, <2>1, <2>4
    <3> QED
      BY <3>1, StackIs
  <2> QED
    BY <2>2, <2>3, <2>4
<1>6. ASSUME NEW x, NEW y, <<x, y>> \in Stack(s) PROVE <<x, y>> \in Stack(t)
  <2>1. PICK i \in 1 .. Len(s), j \in 1 .. Len(s) : i <= j /\ s[i] = x /\ s[j] = y
    BY <1>6, StackIs
  <2> DEFINE a == IF i < k THEN i ELSE i + 1
  <2> DEFINE b == IF j < k THEN j ELSE j + 1
  <2>2. a \in 1 .. Len(t) /\ b \in 1 .. Len(t) /\ a <= b /\ t[a] = x /\ t[b] = y
    BY <1>1, <2>1
  <2> QED
    BY <2>2, StackIs
<1>7. <<w, w>> \in Stack(t)
  BY <1>1, StackIs
<1>8. ASSUME NEW i \in 1 .. Len(s), i < k PROVE <<s[i], w>> \in Stack(t)
  <2>1. t[i] = s[i] /\ i \in 1 .. Len(t) /\ k \in 1 .. Len(t) /\ t[k] = w /\ i <= k
    BY <1>1, <1>8
  <2> QED
    BY <2>1, StackIs
<1>9. ASSUME NEW i \in 1 .. Len(s), k <= i PROVE <<w, s[i]>> \in Stack(t)
  <2>1. t[i + 1] = s[i] /\ i + 1 \in 1 .. Len(t) /\ k \in 1 .. Len(t) /\ t[k] = w /\ k <= i + 1
    BY <1>1, <1>9
  <2> QED
    BY <2>1, StackIs
<1>10. ASSUME NEW x PROVE Contains(t, x) <=> Contains(s, x) \/ x = w
  <2>1. (<<x, x>> \in Stack(t) <=> Contains(t, x)) /\ (<<x, x>> \in Stack(s) <=> Contains(s, x))
    BY StackIs, Zenon
  <2>2. Contains(t, x) => Contains(s, x) \/ x = w
    BY <1>5, <2>1
  <2> QED
    BY <1>6, <1>7, <2>1, <2>2
<1> QED
  BY <1>4, <1>5, <1>6, <1>7, <1>8, <1>9, <1>10

\* What the operations on lists make of the stack.
LEMMA TopIs ==
    ASSUME NEW S, NEW s \in Seq(S), IsInjective(s), NEW w \in S
    PROVE  /\ OnTop(s, w) \in Seq(S) /\ IsInjective(OnTop(s, w))
           /\ \A x : Contains(OnTop(s, w), x) <=> Contains(s, x) \/ x = w
           /\ \A x, y : <<x, y>> \in Stack(OnTop(s, w)) <=>
                  \/ <<x, y>> \in Stack(s) /\ x # w /\ y # w
                  \/ y = w /\ (x = w \/ Contains(s, x))
<1> DEFINE r == Without(s, w)
<1> DEFINE t == Append(r, w)
<1> DEFINE k == Len(r) + 1
<1>1. r \in Seq(S) /\ IsInjective(r) /\ ~Contains(r, w)
  BY WithoutIs
<1>2. t \in Seq(S) /\ Len(t) = Len(r) + 1 /\ k \in 1 .. Len(r) + 1 /\ Len(r) \in Nat
  BY <1>1, AppendProperties, LenProperties
<1>3. \A i \in 1 .. Len(r) + 1 :
          t[i] = IF i < k THEN r[i] ELSE IF i = k THEN w ELSE r[i - 1]
  BY <1>1, <1>2, AppendProperties
<1>4. \A x : Contains(r, x) <=> \E i \in 1 .. Len(r) : r[i] = x
  BY <1>1, LenProperties DEF Contains
<1>8. \A i \in 1 .. Len(r) : i < k /\ ~(k <= i)
  BY <1>2
<1> HIDE DEF t, r, k
<1>5. /\ IsInjective(t)
      /\ \A x : Contains(t, x) <=> Contains(r, x) \/ x = w
      /\ \A x, y : <<x, y>> \in Stack(t) <=>
             \/ <<x, y>> \in Stack(r)
             \/ x = w /\ y = w
             \/ y = w /\ \E i \in 1 .. Len(r) : i < k /\ r[i] = x
             \/ x = w /\ \E i \in 1 .. Len(r) : k <= i /\ r[i] = y
  <2>1. PutAt(r, k, w, t)
    BY <1>2, <1>3 DEF PutAt
  <2> QED
    BY <1>1, <1>2, <2>1, InsertIs
<1>6. OnTop(s, w) = t
  BY DEF OnTop, t, r
<1>7. /\ \A x : Contains(r, x) <=> Contains(s, x) /\ x # w
      /\ \A x, y : <<x, y>> \in Stack(r) <=> <<x, y>> \in Stack(s) /\ x # w /\ y # w
  BY WithoutIs DEF r
<1> QED
  BY <1>2, <1>8, <1>4, <1>5, <1>6, <1>7

LEMMA BottomIs ==
    ASSUME NEW S, NEW s \in Seq(S), IsInjective(s), NEW w \in S
    PROVE  /\ Above(s, w, NoWin) \in Seq(S) /\ IsInjective(Above(s, w, NoWin))
           /\ \A x : Contains(Above(s, w, NoWin), x) <=> Contains(s, x) \/ x = w
           /\ \A x, y : <<x, y>> \in Stack(Above(s, w, NoWin)) <=>
                  \/ <<x, y>> \in Stack(s) /\ x # w /\ y # w
                  \/ x = w /\ (y = w \/ Contains(s, y))
<1> DEFINE r == Without(s, w)
<1> DEFINE t == <<w>> \o r
<1>1. r \in Seq(S) /\ IsInjective(r) /\ ~Contains(r, w) /\ Len(r) \in Nat
  BY WithoutIs, LenProperties
<1>2. t \in Seq(S) /\ Len(t) = Len(r) + 1 /\ 1 \in 1 .. Len(r) + 1
  BY <1>1, ConcatProperties
<1>3. \A i \in 1 .. Len(r) + 1 :
          t[i] = IF i < 1 THEN r[i] ELSE IF i = 1 THEN w ELSE r[i - 1]
  <2>1. <<w>> \in Seq(S) /\ Len(<<w>>) = 1 /\ <<w>>[1] = w
    OBVIOUS
  <2>2. ASSUME NEW i \in 1 .. Len(r) + 1
        PROVE  t[i] = IF i <= 1 THEN <<w>>[i] ELSE r[i - 1]
    BY <1>1, <2>1, ConcatProperties
  <2> HIDE DEF t, r
  <2> QED
    BY <1>1, <2>1, <2>2
<1>4. \A x : Contains(r, x) <=> \E i \in 1 .. Len(r) : r[i] = x
  BY <1>1, LenProperties DEF Contains
<1>5. \A i \in 1 .. Len(r) : ~(i < 1) /\ 1 <= i
  BY <1>1
<1> HIDE DEF t, r
<1>6. /\ IsInjective(t)
      /\ \A x : Contains(t, x) <=> Contains(r, x) \/ x = w
      /\ \A x, y : <<x, y>> \in Stack(t) <=>
             \/ <<x, y>> \in Stack(r)
             \/ x = w /\ y = w
             \/ y = w /\ \E i \in 1 .. Len(r) : i < 1 /\ r[i] = x
             \/ x = w /\ \E i \in 1 .. Len(r) : 1 <= i /\ r[i] = y
  <2>1. PutAt(r, 1, w, t)
    BY <1>2, <1>3 DEF PutAt
  <2> QED
    BY <1>1, <1>2, <2>1, InsertIs
<1>7. Above(s, w, NoWin) = t
  BY DEF Above, t, r
<1>8. /\ \A x : Contains(r, x) <=> Contains(s, x) /\ x # w
      /\ \A x, y : <<x, y>> \in Stack(r) <=> <<x, y>> \in Stack(s) /\ x # w /\ y # w
  BY WithoutIs DEF r
<1> QED
  BY <1>2, <1>4, <1>5, <1>6, <1>7, <1>8

LEMMA InsertAtIs ==
    ASSUME NEW S, NEW s \in Seq(S), NEW w \in S, NEW k \in 1 .. Len(s) + 1
    PROVE  /\ InsertAt(s, k, w) \in Seq(S) /\ Len(InsertAt(s, k, w)) = Len(s) + 1
           /\ \A i \in 1 .. Len(s) + 1 :
                  InsertAt(s, k, w)[i] = IF i < k THEN s[i] ELSE IF i = k THEN w ELSE s[i - 1]
<1> DEFINE a == SubSeq(s, 1, k - 1)
<1> DEFINE b == SubSeq(s, k, Len(s))
<1>1. k \in Nat /\ Len(s) \in Nat
  BY LenProperties
<1>2. a \in Seq(S) /\ Len(a) = k - 1 /\ \A i \in 1 .. k - 1 : a[i] = s[i]
  BY <1>1, SubSeqProperties
<1>3. b \in Seq(S) /\ Len(b) = Len(s) - k + 1 /\ \A i \in 1 .. Len(s) - k + 1 : b[i] = s[k + i - 1]
  BY <1>1, SubSeqProperties
<1> DEFINE c == a \o <<w>>
<1>4. InsertAt(s, k, w) = c \o b
  BY DEF InsertAt
<1>5. <<w>> \in Seq(S) /\ Len(<<w>>) = 1 /\ <<w>>[1] = w
  OBVIOUS
<1> HIDE DEF a, b
<1>6. /\ c \in Seq(S) /\ Len(c) = k
      /\ \A i \in 1 .. k : c[i] = IF i <= Len(a) THEN a[i] ELSE <<w>>[i - Len(a)]
  BY <1>1, <1>2, <1>5, ConcatProperties
<1>7. \A i \in 1 .. k : c[i] = IF i < k THEN s[i] ELSE w
  BY <1>1, <1>2, <1>5, <1>6
<1> HIDE DEF c
<1>8. /\ c \o b \in Seq(S) /\ Len(c \o b) = Len(s) + 1
      /\ \A i \in 1 .. Len(s) + 1 : (c \o b)[i] = IF i <= k THEN c[i] ELSE b[i - k]
  BY <1>1, <1>3, <1>6, ConcatProperties
<1>9. ASSUME NEW i \in 1 .. Len(s) + 1
      PROVE  (c \o b)[i] = IF i < k THEN s[i] ELSE IF i = k THEN w ELSE s[i - 1]
  BY <1>1, <1>3, <1>7, <1>8
<1> QED
  BY <1>4, <1>8, <1>9

LEMMA AboveIs ==
    ASSUME NEW S, NEW s \in Seq(S), IsInjective(s), NEW w \in S,
           NEW a, a # NoWin, a # w, Contains(s, a)
    PROVE  /\ Above(s, w, a) \in Seq(S) /\ IsInjective(Above(s, w, a))
           /\ \A x : Contains(Above(s, w, a), x) <=> Contains(s, x) \/ x = w
           /\ \A x, y : <<x, y>> \in Stack(Above(s, w, a)) <=>
                  \/ <<x, y>> \in Stack(s) /\ x # w /\ y # w
                  \/ x = w /\ y = w
                  \/ y = w /\ x # w /\ <<x, a>> \in Stack(s)
                  \/ x = w /\ y # w /\ y # a /\ <<a, y>> \in Stack(s)
<1> DEFINE r == Without(s, w)
<1> DEFINE p == Position(r, a)
<1> DEFINE t == InsertAt(r, p + 1, w)
<1>1. r \in Seq(S) /\ IsInjective(r) /\ ~Contains(r, w) /\ Len(r) \in Nat /\ Contains(r, a)
  BY WithoutIs, LenProperties
<1>2. p \in 1 .. Len(r) /\ r[p] = a
  BY <1>1, PositionIs
<1>3. \A i, j \in 1 .. Len(r) : r[i] = r[j] => i = j
  BY <1>1, LenProperties DEF IsInjective
<1>4. Above(s, w, a) = t
  BY DEF Above, r
<1>5. /\ \A x : Contains(r, x) <=> Contains(s, x) /\ x # w
      /\ \A x, y : <<x, y>> \in Stack(r) <=> <<x, y>> \in Stack(s) /\ x # w /\ y # w
  BY WithoutIs DEF r
<1> HIDE DEF r, p
<1> DEFINE k == p + 1
<1>6. /\ t \in Seq(S) /\ Len(t) = Len(r) + 1 /\ k \in 1 .. Len(r) + 1
      /\ \A i \in 1 .. Len(r) + 1 :
             t[i] = IF i < k THEN r[i] ELSE IF i = k THEN w ELSE r[i - 1]
  BY <1>1, <1>2, InsertAtIs
<1>7. /\ \A x : (\E i \in 1 .. Len(r) : i < k /\ r[i] = x) <=> <<x, a>> \in Stack(r)
      /\ \A y : (\E i \in 1 .. Len(r) : k <= i /\ r[i] = y) <=> y # a /\ <<a, y>> \in Stack(r)
  <2>1. ASSUME NEW i \in 1 .. Len(r), i < k PROVE <<r[i], a>> \in Stack(r)
    <3>1. i <= p
      BY <1>2, <2>1
    <3> QED
      BY <1>1, <1>2, <3>1, StackIs
  <2>2. ASSUME NEW x, <<x, a>> \in Stack(r) PROVE \E i \in 1 .. Len(r) : i < k /\ r[i] = x
    <3>1. PICK i \in 1 .. Len(r), j \in 1 .. Len(r) : i <= j /\ r[i] = x /\ r[j] = a
      BY <1>1, <2>2, StackIs
    <3>2. j = p
      BY <1>2, <1>3, <3>1
    <3> QED
      BY <1>2, <3>1, <3>2
  <2>3. ASSUME NEW i \in 1 .. Len(r), k <= i PROVE r[i] # a /\ <<a, r[i]>> \in Stack(r)
    <3>1. p <= i /\ i # p
      BY <1>2, <2>3
    <3> QED
      BY <1>1, <1>2, <1>3, <3>1, StackIs
  <2>4. ASSUME NEW y, y # a, <<a, y>> \in Stack(r) PROVE \E i \in 1 .. Len(r) : k <= i /\ r[i] = y
    <3>1. PICK i \in 1 .. Len(r), j \in 1 .. Len(r) : i <= j /\ r[i] = a /\ r[j] = y
      BY <1>1, <2>4, StackIs
    <3>2. i = p
      BY <1>2, <1>3, <3>1
    <3> QED
      BY <1>2, <2>4, <3>1, <3>2
  <2> QED
    BY <2>1, <2>2, <2>3, <2>4
<1> HIDE DEF k
<1> HIDE DEF t
<1>8. /\ IsInjective(t)
      /\ \A x : Contains(t, x) <=> Contains(r, x) \/ x = w
      /\ \A x, y : <<x, y>> \in Stack(t) <=>
             \/ <<x, y>> \in Stack(r)
             \/ x = w /\ y = w
             \/ y = w /\ \E i \in 1 .. Len(r) : i < k /\ r[i] = x
             \/ x = w /\ \E i \in 1 .. Len(r) : k <= i /\ r[i] = y
  <2>1. PutAt(r, k, w, t)
    BY <1>6 DEF PutAt
  <2> QED
    BY <1>1, <1>6, <2>1, InsertIs
<1>9. \A x, y : <<x, y>> \in Stack(s) => Contains(s, x) /\ Contains(s, y)
  BY StackIs, LenProperties DEF Contains
<1> QED
  <2>1. \A x : Contains(t, x) <=> Contains(s, x) \/ x = w
    BY <1>5, <1>8
  <2>2. \A x, y : <<x, y>> \in Stack(t) <=>
             \/ <<x, y>> \in Stack(r)
             \/ x = w /\ y = w
             \/ y = w /\ <<x, a>> \in Stack(r)
             \/ x = w /\ y # a /\ <<a, y>> \in Stack(r)
    BY <1>7, <1>8
  <2> QED
    BY <1>4, <1>5, <1>6, <1>8, <2>1, <2>2

-----------------------------------------------------------------------------
(* Events                                                                  *)

\* What an event is about.
LEMMA EventIs ==
    ASSUME NEW e \in Events
    PROVE  /\ e.win \in Windows
           /\ e.type = "reparent" => e.root \in BOOLEAN
           /\ e.type = "circulate" => e.top \in BOOLEAN
           /\ e.type = "configure" => e.size \in Sizes /\ e.above \in (Windows \ {e.win}) \cup {NoWin}
           /\ \A t, w : e \in Kind(t, w) <=> e.type = t /\ e.win = w
           /\ \A w : e \in Adding(w) <=>
                  e.win = w /\ (e.type = "create" \/ (e.type = "reparent" /\ e.root))
           /\ \A w : e \in Removing(w) <=>
                  e.win = w /\ (e.type = "destroy" \/ (e.type = "reparent" /\ ~e.root))
           /\ \A w : e \in Hiding(w) <=> e \in Removing(w) \/ (e.type = "unmap" /\ e.win = w)
           /\ \A w, S : e \in Sizing(w, S) <=>
                  e.win = w /\ e.type = "configure" /\ e.size \in S
<1>1. /\ e.win \in Windows
      /\ e.type = "reparent" => e.root \in BOOLEAN
      /\ e.type = "circulate" => e.top \in BOOLEAN
      /\ e.type = "configure" => e.size \in Sizes /\ e.above \in (Windows \ {e.win}) \cup {NoWin}
  BY DEF Events
<1>2. \A t, w : e \in Kind(t, w) <=> e.type = t /\ e.win = w
  BY Zenon DEF Kind
<1>3. \A w : e \in Adding(w) <=>
                  e.win = w /\ (e.type = "create" \/ (e.type = "reparent" /\ e.root))
  <2> TAKE w
  <2>1. e \in Adding(w) <=> e \in Kind("create", w) \/ (e \in Kind("reparent", w) /\ e.root)
    BY Zenon DEF Adding
  <2>2. /\ e \in Kind("create", w) <=> e.type = "create" /\ e.win = w
        /\ e \in Kind("reparent", w) <=> e.type = "reparent" /\ e.win = w
    BY <1>2
  <2> QED
    BY <2>1, <2>2, Zenon
<1>4. \A w : e \in Removing(w) <=>
                  e.win = w /\ (e.type = "destroy" \/ (e.type = "reparent" /\ ~e.root))
  <2> TAKE w
  <2>1. e \in Removing(w) <=> e \in Kind("destroy", w) \/ (e \in Kind("reparent", w) /\ ~e.root)
    BY Zenon DEF Removing
  <2>2. /\ e \in Kind("destroy", w) <=> e.type = "destroy" /\ e.win = w
        /\ e \in Kind("reparent", w) <=> e.type = "reparent" /\ e.win = w
    BY <1>2
  <2> QED
    BY <2>1, <2>2, Zenon
<1>6. \A w : e \in Hiding(w) <=> e \in Removing(w) \/ (e.type = "unmap" /\ e.win = w)
  BY <1>2, Zenon DEF Hiding
<1>7. \A w, S : e \in Sizing(w, S) <=> e.win = w /\ e.type = "configure" /\ e.size \in S
  BY <1>2, Zenon DEF Sizing
<1> QED
  BY <1>1, <1>2, <1>3, <1>4, <1>6, <1>7

\* The events other programs cause.
LEMMA EventsAre ==
    ASSUME NEW w \in Windows
    PROVE  /\ \A t \in {"create", "destroy", "map", "unmap", "damage", "property"} :
                  Event(t, w) \in Events /\ Event(t, w).type = t /\ Event(t, w).win = w
           /\ \A r \in BOOLEAN :
                  /\ ReparentEvent(w, r) \in Events /\ ReparentEvent(w, r).type = "reparent"
                  /\ ReparentEvent(w, r).win = w /\ ReparentEvent(w, r).root = r
           /\ \A top \in BOOLEAN :
                  /\ PlaceEvent(w, top) \in Events /\ PlaceEvent(w, top).type = "circulate"
                  /\ PlaceEvent(w, top).win = w /\ PlaceEvent(w, top).top = top
BY DEF Events, Event, ReparentEvent, PlaceEvent

\* A queue that grew by an event, and one that lost its first.
Adds(q, e, r) ==
    /\ \A P : Some(r, P) <=> Some(q, P) \/ e \in P
    /\ \A P, Q : Lasting(r, P, Q) <=> e \in P \/ (Lasting(q, P, Q) /\ e \notin Q)
    /\ \A P, Q : Behind(q, P, Q) /\ (e \in P => Some(q, Q)) => Behind(r, P, Q)
    /\ \A P, R, Q : Spaced(q, P, R, Q) /\ (e \in R => ~Lasting(q, P, Q)) => Spaced(r, P, R, Q)

Takes(q, e, r) ==
    /\ \A P : Some(q, P) <=> e \in P \/ Some(r, P)
    /\ \A P, Q : Lasting(q, P, Q) <=> Lasting(r, P, Q) \/ (e \in P /\ ~Some(r, Q))
    /\ \A P, Q : Behind(q, P, Q) => e \notin P
    /\ \A P, Q : Behind(q, P, Q) /\ e \notin Q => Behind(r, P, Q)
    /\ \A P, R, Q : Spaced(q, P, R, Q) /\ e \in P => Behind(r, R, Q)
    /\ \A P, R, Q : Spaced(q, P, R, Q) => Spaced(r, P, R, Q)

LEMMA Sent ==
    ASSUME NEW q \in Seq(Events), NEW e \in Events, NEW r, r = q \o <<e>>
    PROVE  r \in Seq(Events) /\ r = Append(q, e) /\ Adds(q, e, r)
<1>1. r \in Seq(Events) /\ r = Append(q, e)
  BY AppendProperties, AppendIsConcat
<1>2. ASSUME NEW P PROVE Some(r, P) <=> Some(q, P) \/ e \in P
  <2>1. Some(Append(q, e), P) <=> Some(q, P) \/ e \in P
    BY SomeAppend
  <2> QED
    BY <1>1, <2>1, Zenon
<1>3. ASSUME NEW P, NEW Q
      PROVE  /\ Lasting(r, P, Q) <=> e \in P \/ (Lasting(q, P, Q) /\ e \notin Q)
             /\ Behind(q, P, Q) /\ (e \in P => Some(q, Q)) => Behind(r, P, Q)
  <2>1. Lasting(r, P, Q) <=> e \in P \/ (Lasting(q, P, Q) /\ e \notin Q)
    <3>1. Lasting(Append(q, e), P, Q) <=> e \in P \/ (Lasting(q, P, Q) /\ e \notin Q)
      BY LastingAppend
    <3> QED
      BY <1>1, <3>1, Zenon
  <2>2. ASSUME Behind(q, P, Q), e \in P => Some(q, Q) PROVE Behind(r, P, Q)
    BY <1>1, <2>2, BehindAppend, Zenon
  <2> QED
    BY <2>1, <2>2
<1>4. ASSUME NEW P, NEW R, NEW Q, Spaced(q, P, R, Q), e \in R => ~Lasting(q, P, Q)
      PROVE  Spaced(r, P, R, Q)
  BY <1>1, <1>4, SpacedAppend, Zenon
<1> QED
  BY <1>1, <1>2, <1>3, <1>4 DEF Adds

LEMMA Handled ==
    ASSUME NEW q \in Seq(Events), q # <<>>, NEW e, e = Head(q), NEW r, r = Tail(q)
    PROVE  r \in Seq(Events) /\ e \in Events /\ Takes(q, e, r)
<1>1. r \in Seq(Events) /\ e \in Events
  BY Shorter
<1>2. ASSUME NEW P PROVE Some(q, P) <=> e \in P \/ Some(r, P)
  BY SomeTail
<1>3. ASSUME NEW P, NEW Q
      PROVE  /\ Lasting(q, P, Q) <=> Lasting(r, P, Q) \/ (e \in P /\ ~Some(r, Q))
             /\ Behind(q, P, Q) /\ e \notin Q => Behind(r, P, Q)
  BY LastingTail, BehindTail
<1>5. ASSUME NEW P, NEW R, NEW Q
      PROVE  /\ Spaced(q, P, R, Q) /\ e \in P => Behind(r, R, Q)
             /\ Spaced(q, P, R, Q) => Spaced(r, P, R, Q)
  BY BehindTail, SpacedTail
<1>4. ASSUME NEW P, NEW Q, Behind(q, P, Q) PROVE e \notin P
  BY <1>4, Shorter DEF Behind
<1> QED
  BY <1>1, <1>2, <1>3, <1>4, <1>5 DEF Takes

LEMMA Queues ==
    ASSUME NEW q \in Seq(Events)
    PROVE  /\ \A P, Q : Lasting(q, P, Q) => Some(q, P)
           /\ \A P, Q : Some(q, P) /\ ~Some(q, Q) => Lasting(q, P, Q)
           /\ \A P, Q : Behind(q, P, Q) /\ Some(q, P) => Some(q, Q)
           /\ \A P, Q : Some(q, P) /\ P \subseteq Q => Some(q, Q)
           /\ \A P, Q : Some(q, P \cup Q) <=> Some(q, P) \/ Some(q, Q)
           /\ \A P, Q, R : Lasting(q, P \ R, R \cup Q) => Lasting(q, P, Q)
<1> USE DEF Some
<1>1. ASSUME NEW P, NEW Q PROVE Lasting(q, P, Q) => Some(q, P)
  BY DEF Lasting
<1>2. ASSUME NEW P, NEW Q, Some(q, P), ~Some(q, Q) PROVE Lasting(q, P, Q)
  BY <1>2 DEF Lasting
<1>3. ASSUME NEW P, NEW Q, Behind(q, P, Q), Some(q, P) PROVE Some(q, Q)
  BY <1>3 DEF Behind
<1>4. ASSUME NEW P, NEW Q, Some(q, P), P \subseteq Q PROVE Some(q, Q)
  BY <1>4
<1>5. ASSUME NEW P, NEW Q PROVE Some(q, P \cup Q) <=> Some(q, P) \/ Some(q, Q)
  OBVIOUS
<1>6. ASSUME NEW P, NEW Q, NEW R PROVE Lasting(q, P \ R, R \cup Q) => Lasting(q, P, Q)
  BY DEF Lasting
<1> HIDE DEF Some
<1> QED
  BY <1>1, <1>2, <1>3, <1>4, <1>5, <1>6

-----------------------------------------------------------------------------
(* Steps that are about another window                                     *)

\* A circulate or property event says nothing that the invariant needs.
About(w) == {e \in Events : e.win = w /\ e.type \notin {"circulate", "property"}}

\* Two queues that say the same about w, or the second what is left of the first.
Alike(q, r, w) ==
    \A P, Q, R \in SUBSET About(w) :
        /\ Some(q, P) <=> Some(r, P)
        /\ Lasting(q, P, Q) <=> Lasting(r, P, Q)
        /\ Behind(q, P, Q) => Behind(r, P, Q)
        /\ Spaced(q, P, R, Q) => Spaced(r, P, R, Q)

\* Nothing of w changes that the invariant says something about.
Untouched(w) ==
    /\ Contains(order', w) <=> Contains(order, w)
    /\ w \in mapped' <=> w \in mapped
    /\ size'[w] = size[w] /\ pixmap'[w] = pixmap[w] /\ ink'[w] = ink[w]
    /\ w \in tracked' <=> w \in tracked
    /\ w \in damaged' <=> w \in damaged
    /\ \A t : Asked(t, w)' <=> Asked(t, w)
    /\ Contains(wins', w) <=> Contains(wins, w)
    /\ busy'.win = w <=> busy.win = w
    /\ cache'[w] = cache[w]
    /\ dirty => dirty'
    /\ screen' = screen

LEMMA AlikeSent ==
    ASSUME NEW w \in Windows, NEW q \in Seq(Events), NEW e \in Events, e \notin About(w)
    PROVE  Alike(q, q \o <<e>>, w)
<1>1. \A P \in SUBSET About(w) : e \notin P
  OBVIOUS
<1>2. ASSUME NEW r, r = q \o <<e>> PROVE Alike(q, r, w)
  <2>1. Adds(q, e, r)
    BY <1>2, Sent
  <2> QED
    BY <1>1, <2>1 DEF Alike, Adds
<1> QED
  BY <1>2

LEMMA AlikeHandled ==
    ASSUME NEW w \in Windows, NEW q \in Seq(Events), q # <<>>, Head(q) \notin About(w)
    PROVE  Alike(q, Tail(q), w)
<1> DEFINE e == Head(q)
<1>1. \A P \in SUBSET About(w) : e \notin P
  OBVIOUS
<1>2. ASSUME NEW r, r = Tail(q), NEW f, f = Head(q) PROVE Alike(q, r, w)
  <2>1. Takes(q, f, r)
    BY <1>2, Handled
  <2> QED
    BY <1>1, <1>2, <2>1 DEF Alike, Takes
<1> QED
  BY <1>2

LEMMA AlikeSame ==
    ASSUME NEW w \in Windows, NEW q PROVE Alike(q, q, w)
BY DEF Alike

LEMMA AlikeTwice ==
    ASSUME NEW w \in Windows, NEW q, NEW r, NEW s, Alike(q, r, w), Alike(r, s, w)
    PROVE  Alike(q, s, w)
BY DEF Alike

LEMMA AllAbout ==
    ASSUME NEW w
    PROVE  /\ Adding(w) \in SUBSET About(w) /\ Removing(w) \in SUBSET About(w)
           /\ Hiding(w) \in SUBSET About(w) /\ Adding(w) \cup Hiding(w) \in SUBSET About(w)
           /\ \A t \in {"create", "map", "damage", "configure"} : Kind(t, w) \in SUBSET About(w)
           /\ \A S : Sizing(w, S) \in SUBSET About(w)
BY DEF About, Adding, Removing, Hiding, Kind, Sizing

LEMMA Elsewhere ==
    ASSUME NEW w \in Windows \ Hidden, Mirrored(w), Untouched(w), Alike(queue, queue', w)
    PROVE  Mirrored(w)'
<1> USE DEF Present, Listed, Viewable
<1>1. Tree(w)'
  BY AllAbout DEF Mirrored, Untouched, Alike, Tree
<1>2. Seen(w)'
  BY AllAbout DEF Mirrored, Untouched, Alike, Seen
<1>3. Unseen(w)'
  BY AllAbout DEF Mirrored, Untouched, Alike, Unseen
<1>4. Sized(w)'
  <2> DEFINE P == Right(w)
  <2> DEFINE Q == Kind("configure", w) \ Right(w)
  <2> DEFINE R == Right(w) \cup Removing(w)
  <2>1. P \in SUBSET About(w) /\ Q \in SUBSET About(w) /\ R \in SUBSET About(w)
    BY AllAbout DEF Right
  <2>2. Right(w)' = Right(w)
    BY DEF Untouched, Asked, Right
  <2>3. /\ Lasting(queue, Q, R) <=> Lasting(queue', Q, R)
        /\ Some(queue, P) <=> Some(queue', P)
        /\ Some(queue, Removing(w)) <=> Some(queue', Removing(w))
    BY <2>1, AllAbout DEF Alike
  <2> QED
    BY <2>2, <2>3 DEF Mirrored, Untouched, Sized
<1>5. Pictured(w)'
  <2> DEFINE P == Kind("map", w) \cup Hiding(w) \cup Sizing(w, Sizes \ {cache[w].size})
  <2>1. P \in SUBSET About(w)
    BY AllAbout
  <2>2. Some(queue, P) <=> Some(queue', P)
    BY <2>1 DEF Alike
  <2> QED
    BY <2>2 DEF Mirrored, Untouched, Pictured
<1>6. Damaged(w)'
  BY AllAbout DEF Mirrored, Untouched, Alike, Damaged
<1>7. Painted(w)'
  <2> DEFINE P == Kind("damage", w) \cup Removing(w)
  <2>1. P \in SUBSET About(w)
    BY AllAbout
  <2>2. Some(queue, P) <=> Some(queue', P)
    BY <2>1 DEF Alike
  <2> QED
    BY <2>2 DEF Mirrored, Untouched, Painted
<1> QED
  BY <1>1, <1>2, <1>3, <1>4, <1>5, <1>6, <1>7 DEF Mirrored

-----------------------------------------------------------------------------
(* What other programs do                                                  *)

own == <<wins, cache, dirty, busy, screen, misled>>

\* What is left to show of a step of another program.
LEMMA OwnKept ==
    ASSUME IInv, XTypeOK', UNCHANGED own, requests' = requests, \A w \in Windows : pixmap'[w] >= pixmap[w],
           \A w \in Windows \ Hidden : Mirrored(w)'
    PROVE  IInv'
<1> USE DEF own
<1>1. TypeOK'
  <2>1. \A w \in Windows : 0 .. pixmap[w] \subseteq 0 .. pixmap'[w]
    BY DEF IInv, XTypeOK
  <2> QED
    BY <2>1 DEF IInv, TypeOK
<1>2. BusyOK'
  BY DEF IInv, BusyOK, Listed
<1> QED
  BY <1>1, <1>2 DEF IInv, Answered

\* A window becomes a child of the root; nothing that is sent gives it a size.
Adopted(w) ==
    /\ Contains(order', w)
    /\ UNCHANGED <<wins, busy>>
    /\ \A P : Some(queue, P) => Some(queue', P)
    /\ \A Q : Lasting(queue', Kind("configure", w), Q) => Lasting(queue, Kind("configure", w), Q)

LEMMA SizedAnew ==
    ASSUME XTypeOK, XTypeOK', NEW w \in Windows, ~Contains(order, w), Mirrored(w), Adopted(w)
    PROVE  Sized(w)'
<1>1. ~Lasting(queue, Kind("configure", w), Removing(w))
  <2>1. Right(w) = {}
    BY DEF Right
  <2>2. Kind("configure", w) \ {} = Kind("configure", w) /\ {} \cup Removing(w) = Removing(w)
    OBVIOUS
  <2> QED
    BY <2>1, <2>2, Zenon DEF Mirrored, Sized
<1>2. ~Lasting(queue', Kind("configure", w) \ Right(w)', Right(w)' \cup Removing(w))
  <2>1. queue' \in Seq(Events)
    BY DEF XTypeOK
  <2> DEFINE r == Right(w)'
  <2> HIDE DEF r
  <2>2. ~Lasting(queue', Kind("configure", w), Removing(w))
    BY <1>1 DEF Adopted
  <2>3. ~Lasting(queue', Kind("configure", w) \ r, r \cup Removing(w))
    BY <2>1, <2>2, Queues
  <2> QED
    BY <2>3 DEF r
<1>3. Present(w)' => Some(queue', Removing(w))
  BY DEF Mirrored, Tree, Present, Listed, Adopted
<1> QED
  BY <1>2, <1>3 DEF Sized

LEMMA CreateKeeps ==
    ASSUME IInv, NEW w \in Windows, CreateWindow(w), UNCHANGED own
    PROVE  IInv'
<1> DEFINE e == Event("create", w)
<1>1. XTypeOK /\ ~Contains(order, w) /\ w \notin away /\ w \notin mapped
  BY DEF CreateWindow, IInv, XTypeOK, Exists
<1>2. e \in Events /\ e.type = "create" /\ e.win = w
  BY EventsAre
<1> HIDE DEF e
<1>3. queue' = queue \o <<e>>
  BY DEF CreateWindow, Send, e
<1>4. /\ order' \in Seq(Windows) /\ IsInjective(order')
      /\ \A x : Contains(order', x) <=> Contains(order, x) \/ x = w
  <2>1. Without(order, w) = order
    BY <1>1 DEF Without
  <2>2. order' = OnTop(order, w)
    BY <2>1 DEF CreateWindow, OnTop
  <2> QED
    BY <1>1, <2>2, TopIs DEF XTypeOK
<1>5. XTypeOK'
  BY <1>1, <1>2, <1>3, <1>4, Sent DEF CreateWindow, Change, XTypeOK, Exists, Sizes
<1>6. ASSUME NEW v \in Windows \ Hidden, v # w PROVE Mirrored(v)'
  <2>1. Alike(queue, queue', v)
    BY <1>1, <1>2, <1>3, <1>6, AlikeSent DEF XTypeOK, About
  <2>2. Untouched(v)
    BY <1>1, <1>4, <1>6 DEF Untouched, Asked, CreateWindow, XTypeOK, own
  <2> QED
    BY <2>1, <2>2, Elsewhere DEF IInv
<1>7. ASSUME w \notin Hidden PROVE Mirrored(w)'
  <2>1. Mirrored(w) /\ e \in Adding(w) /\ e \notin Removing(w) /\ e \notin Hiding(w)
        /\ e \notin Kind("map", w) /\ e \notin Kind("configure", w)
        /\ ~Viewable(w) /\ ~Viewable(w)' /\ Contains(order', w)
    BY <1>1, <1>2, <1>4, <1>7, EventIs DEF IInv, Viewable, CreateWindow
  <2>2. Adds(queue, e, queue')
    BY <1>1, <1>2, <1>3, Sent DEF XTypeOK
  <2> USE DEF Adds
  <2>3. Tree(w)'
    BY <1>1, <2>1, <2>2 DEF Mirrored, Tree, Present, Listed, own
  <2>4. Seen(w)'
    BY <2>1 DEF Seen
  <2>5. Unseen(w)'
    BY <2>1, <2>2 DEF Mirrored, Unseen, Present, Listed, own
  <2>6. Sized(w)'
    <3>1. Adopted(w)
      BY <1>1, <2>1, <2>2 DEF Adopted, own
    <3> QED
      BY <1>1, <1>5, <1>7, <2>1, <3>1, SizedAnew
  <2>7. Pictured(w)'
    BY <2>1, <2>2 DEF Mirrored, Pictured, Present, Listed, own, CreateWindow
  <2>8. Damaged(w)'
    BY <2>1, <2>2 DEF Mirrored, Damaged, Asked, Present, Listed, own, CreateWindow
  <2>9. Painted(w)'
    BY <2>1, <2>2 DEF Mirrored, Painted, Listed, own, CreateWindow
  <2> QED
    BY <2>3, <2>4, <2>5, <2>6, <2>7, <2>8, <2>9 DEF Mirrored
<1>8. \A x \in Windows : pixmap'[x] >= pixmap[x]
  BY DEF CreateWindow, IInv, XTypeOK
<1> QED
  BY <1>5, <1>6, <1>7, <1>8, OwnKept, Zenon DEF CreateWindow

\* What goes out when a window is destroyed, let go or framed.
LEMMA DestroySends ==
    ASSUME XTypeOK, NEW w \in Windows, DestroyWindow(w)
    PROVE  queue' = IF Contains(order, w)
                    THEN (IF Viewable(w) THEN queue \o <<Event("unmap", w)>> ELSE queue)
                         \o <<Event("destroy", w)>>
                    ELSE queue
<1> DEFINE u == Event("unmap", w)
<1> DEFINE e == Event("destroy", w)
<1>1. u \in Events /\ e \in Events
  BY EventsAre
<1>2. queue' = queue \o (When(Viewable(w), <<u>>) \o When(Contains(order, w), <<e>>))
  BY DEF DestroyWindow, Send
<1> HIDE DEF u, e
<1>3. queue \in Seq(Events) /\ <<u>> \in Seq(Events) /\ <<e>> \in Seq(Events)
  BY <1>1 DEF XTypeOK
<1>4. /\ queue \o (<<u>> \o <<e>>) = (queue \o <<u>>) \o <<e>>
      /\ <<>> \o <<e>> = <<e>> /\ queue \o (<<>> \o <<>>) = queue
  BY <1>3, ConcatAssociative, ConcatEmptySeq
<1>5. queue' = IF Contains(order, w)
               THEN (IF Viewable(w) THEN queue \o <<u>> ELSE queue) \o <<e>> ELSE queue
  BY <1>2, <1>4 DEF When, Viewable
<1> QED
  BY <1>5 DEF u, e

LEMMA ReparentSends ==
    ASSUME XTypeOK, NEW w \in Windows, NEW root \in BOOLEAN, ReparentWindow(w, root)
    PROVE  LET m == IF Viewable(w) THEN queue \o <<Event("unmap", w)>> ELSE queue
               r == m \o <<ReparentEvent(w, root)>>
           IN  queue' = IF root /\ w \in mapped THEN r \o <<Event("map", w)>> ELSE r
<1> DEFINE u == Event("unmap", w)
<1> DEFINE f == Event("map", w)
<1> DEFINE e == ReparentEvent(w, root)
<1>1. u \in Events /\ f \in Events /\ e \in Events
  BY EventsAre
<1>2. /\ root => queue' = queue \o ((When(Viewable(w), <<u>>) \o <<e>>) \o When(w \in mapped, <<f>>))
      /\ ~root => queue' = queue \o (When(Viewable(w), <<u>>) \o <<e>>)
  BY DEF ReparentWindow, Send
<1> HIDE DEF u, e, f
<1>3. /\ queue \in Seq(Events) /\ <<u>> \in Seq(Events) /\ <<f>> \in Seq(Events)
      /\ <<e>> \in Seq(Events)
  BY <1>1 DEF XTypeOK
<1> DEFINE m == IF Viewable(w) THEN queue \o <<u>> ELSE queue
<1>4. queue \o (When(Viewable(w), <<u>>) \o <<e>>) = m \o <<e>>
  BY <1>3, ConcatAssociative, ConcatEmptySeq DEF When
<1> DEFINE first == When(Viewable(w), <<u>>) \o <<e>>
<1> DEFINE last == When(w \in mapped, <<f>>)
<1>5. first \in Seq(Events) /\ last \in Seq(Events) /\ m \o <<e>> \in Seq(Events)
  BY <1>3, ConcatProperties, EmptySeq DEF When
<1>6. root => queue' = (m \o <<e>>) \o last
  <2> HIDE DEF first, last
  <2>1. queue \o (first \o last) = (queue \o first) \o last
    BY <1>3, <1>5, ConcatAssociative
  <2>2. queue \o first = m \o <<e>>
    BY <1>4 DEF first
  <2>3. root => queue' = queue \o (first \o last)
    BY <1>2 DEF first, last
  <2> QED
    BY <2>1, <2>2, <2>3, Zenon
<1>7. queue' = IF root /\ w \in mapped THEN (m \o <<e>>) \o <<f>> ELSE m \o <<e>>
  BY <1>2, <1>4, <1>5, <1>6, ConcatEmptySeq DEF When
<1> QED
  BY <1>7 DEF u, e, f

LEMMA DestroyKeeps ==
    ASSUME IInv, NEW w \in Windows, DestroyWindow(w), UNCHANGED own
    PROVE  IInv'
<1> DEFINE u == Event("unmap", w)
<1> DEFINE e == Event("destroy", w)
<1>1. XTypeOK /\ (w \in away => ~Contains(order, w))
  BY DEF IInv, XTypeOK
<1>2. /\ u \in Events /\ u.type = "unmap" /\ u.win = w
      /\ e \in Events /\ e.type = "destroy" /\ e.win = w
  BY EventsAre
<1>3. queue' = IF Contains(order, w)
               THEN (IF Viewable(w) THEN queue \o <<u>> ELSE queue) \o <<e>> ELSE queue
  BY <1>1, DestroySends
<1> HIDE DEF u, e
<1>4. /\ order' \in Seq(Windows) /\ IsInjective(order')
      /\ \A x : Contains(order', x) <=> Contains(order, x) /\ x # w
  BY <1>1, WithoutIs DEF XTypeOK, DestroyWindow
<1> DEFINE m == IF Viewable(w) THEN queue \o <<u>> ELSE queue
<1>5. queue' = IF Contains(order, w) THEN m \o <<e>> ELSE queue
  BY <1>3
<1>6. /\ m \in Seq(Events)
      /\ IF Viewable(w) THEN Adds(queue, u, m) ELSE m = queue
      /\ \A v \in Windows : v # w => Alike(queue, m, v)
  BY <1>1, <1>2, Sent, AlikeSent, AlikeSame DEF XTypeOK, About
<1> HIDE DEF m
<1>7. /\ queue' \in Seq(Events)
      /\ IF Contains(order, w) THEN Adds(m, e, queue') ELSE queue' = queue
      /\ \A v \in Windows : v # w => Alike(m, queue', v) \/ queue' = queue
  BY <1>1, <1>2, <1>5, <1>6, Sent, AlikeSent DEF XTypeOK, About
<1>8. XTypeOK'
  BY <1>1, <1>4, <1>7 DEF DestroyWindow, Change, XTypeOK, Exists
<1>9. ASSUME NEW v \in Windows \ Hidden, v # w PROVE Mirrored(v)'
  <2>1. Alike(queue, queue', v)
    BY <1>6, <1>7, <1>9, AlikeTwice, AlikeSame
  <2>2. Untouched(v)
    BY <1>1, <1>4, <1>9 DEF Untouched, Asked, DestroyWindow, XTypeOK, own
  <2> QED
    BY <2>1, <2>2, Elsewhere DEF IInv
<1>10. ASSUME w \notin Hidden PROVE Mirrored(w)'
  <2>1. /\ Mirrored(w) /\ ~Contains(order', w) /\ ~Viewable(w)'
        /\ e \in Removing(w) /\ e \in Hiding(w) /\ e \notin Adding(w) /\ e \notin Kind("map", w)
        /\ e \notin Kind("create", w) /\ u \notin Kind("create", w) /\ e \notin Kind("configure", w)
        /\ u \in Hiding(w) /\ u \notin Removing(w) /\ u \notin Adding(w) /\ u \notin Kind("map", w)
    BY <1>1, <1>2, <1>4, <1>10, EventIs DEF IInv, Viewable
  <2>2. /\ \A P : Some(queue, P) => Some(queue', P)
        /\ Contains(order, w) => Some(queue', Removing(w)) /\ Some(queue', Hiding(w))
        /\ Behind(queue, Kind("create", w), Removing(w)) => Behind(queue', Kind("create", w), Removing(w))
        /\ Spaced(queue, Adding(w), Kind("create", w), Removing(w)) => Spaced(queue', Adding(w), Kind("create", w), Removing(w))
        /\ Contains(order, w) => /\ ~Lasting(queue', Adding(w), Removing(w))
                                /\ ~Lasting(queue', Kind("map", w), Hiding(w))
                                /\ ~Lasting(queue', Kind("configure", w) \ {}, {} \cup Removing(w))
        /\ ~Contains(order, w) => queue' = queue
    BY <1>6, <1>7, <2>1 DEF Adds
  <2>3. Tree(w)'
    BY <2>1, <2>2 DEF Mirrored, Tree, Present, Listed, own
  <2>4. Seen(w)'
    BY <2>1 DEF Seen
  <2>5. Unseen(w)'
    BY <2>1, <2>2 DEF Mirrored, Unseen, Present, Listed, own, Viewable
  <2>6. Sized(w)'
    <3>1. Right(w)' = {} /\ (~Contains(order, w) => Right(w) = {})
      BY <2>1 DEF Right
    <3>2. ~Lasting(queue', Kind("configure", w) \ {}, {} \cup Removing(w))
      BY <2>1, <2>2, <3>1 DEF Mirrored, Sized
    <3> QED
      BY <2>1, <3>1, <3>2 DEF Sized
  <2>7. Pictured(w)'
    BY <2>1, <2>2 DEF Mirrored, Pictured, Present, Listed, own, DestroyWindow
  <2>8. Damaged(w)'
    BY <2>1, <2>2 DEF Mirrored, Tree, Damaged, Asked, Present, Listed, own, DestroyWindow
  <2>9. Painted(w)'
    BY <2>1, <2>2 DEF Mirrored, Painted, Listed, own, DestroyWindow
  <2> QED
    BY <2>3, <2>4, <2>5, <2>6, <2>7, <2>8, <2>9 DEF Mirrored
<1>11. \A x \in Windows : pixmap'[x] >= pixmap[x]
  BY DEF DestroyWindow, IInv, XTypeOK
<1> QED
  BY <1>8, <1>9, <1>10, <1>11, OwnKept, Zenon DEF DestroyWindow

LEMMA MapKeeps ==
    ASSUME IInv, NEW w \in Windows, MapWindow(w), UNCHANGED own
    PROVE  IInv'
<1> DEFINE e == Event("map", w)
<1>1. XTypeOK
  BY DEF IInv
<1>2. e \in Events /\ e.type = "map" /\ e.win = w
  BY EventsAre
<1>3. queue' = queue \o <<e>>
  BY DEF MapWindow, Send
<1> HIDE DEF e
<1>4. XTypeOK'
  BY <1>1, <1>2, <1>3, Sent DEF MapWindow, NewPixmap, Change, XTypeOK, Exists
<1>5. ASSUME NEW v \in Windows \ Hidden, v # w PROVE Mirrored(v)'
  <2>1. Alike(queue, queue', v)
    BY <1>1, <1>2, <1>3, <1>5, AlikeSent DEF XTypeOK, About
  <2>2. Untouched(v)
    BY <1>1, <1>5 DEF Untouched, Asked, MapWindow, NewPixmap, XTypeOK, own
  <2> QED
    BY <2>1, <2>2, Elsewhere DEF IInv
<1>6. ASSUME w \notin Hidden PROVE Mirrored(w)'
  <2>1. /\ Mirrored(w) /\ e \in Kind("map", w) /\ e \notin Adding(w)
        /\ e \notin Removing(w) /\ e \notin Kind("configure", w) /\ e \notin Kind("create", w)
        /\ Contains(order, w) /\ Viewable(w)' /\ order' = order
    BY <1>2, <1>6, EventIs DEF IInv, Viewable, MapWindow
  <2>2. Adds(queue, e, queue')
    BY <1>1, <1>2, <1>3, Sent DEF XTypeOK
  <2> USE DEF Adds
  <2>3. Tree(w)'
    BY <2>1, <2>2 DEF Mirrored, Tree, Present, Listed, own
  <2>4. Seen(w)'
    BY <2>1, <2>2 DEF Seen
  <2>5. Unseen(w)'
    BY <2>1 DEF Unseen
  <2>6. Sized(w)'
    BY <2>1, <2>2 DEF Mirrored, Sized, Right, Present, Listed, own, MapWindow
  <2>7. Pictured(w)'
    BY <2>1, <2>2 DEF Mirrored, Pictured, Present, Listed, own
  <2>8. Damaged(w)'
    BY <2>1, <2>2 DEF Mirrored, Damaged, Asked, Present, Listed, own, MapWindow
  <2>9. Painted(w)'
    BY <2>1, <2>2 DEF Mirrored, Painted, Listed, own, MapWindow
  <2> QED
    BY <2>3, <2>4, <2>5, <2>6, <2>7, <2>8, <2>9 DEF Mirrored
<1>7. \A x \in Windows : pixmap'[x] >= pixmap[x]
  BY DEF MapWindow, NewPixmap, IInv, XTypeOK
<1> QED
  BY <1>4, <1>5, <1>6, <1>7, OwnKept, Zenon DEF MapWindow

LEMMA UnmapKeeps ==
    ASSUME IInv, NEW w \in Windows, UnmapWindow(w), UNCHANGED own
    PROVE  IInv'
<1> DEFINE e == Event("unmap", w)
<1>1. XTypeOK
  BY DEF IInv
<1>2. e \in Events /\ e.type = "unmap" /\ e.win = w
  BY EventsAre
<1>3. queue' = queue \o <<e>>
  BY DEF UnmapWindow, Send
<1> HIDE DEF e
<1>4. XTypeOK'
  BY <1>1, <1>2, <1>3, Sent DEF UnmapWindow, Change, XTypeOK, Exists
<1>5. ASSUME NEW v \in Windows \ Hidden, v # w PROVE Mirrored(v)'
  <2>1. Alike(queue, queue', v)
    BY <1>1, <1>2, <1>3, <1>5, AlikeSent DEF XTypeOK, About
  <2>2. Untouched(v)
    BY <1>1, <1>5 DEF Untouched, Asked, UnmapWindow, XTypeOK, own
  <2> QED
    BY <2>1, <2>2, Elsewhere DEF IInv
<1>6. ASSUME w \notin Hidden PROVE Mirrored(w)'
  <2>1. /\ Mirrored(w) /\ e \in Hiding(w) /\ e \notin Kind("map", w) /\ e \notin Adding(w)
        /\ e \notin Removing(w) /\ e \notin Kind("configure", w) /\ e \notin Kind("create", w)
        /\ ~Viewable(w)' /\ order' = order
    BY <1>2, <1>6, EventIs DEF IInv, Viewable, UnmapWindow
  <2>2. Adds(queue, e, queue')
    BY <1>1, <1>2, <1>3, Sent DEF XTypeOK
  <2> USE DEF Adds
  <2>3. Tree(w)'
    BY <2>1, <2>2 DEF Mirrored, Tree, Present, Listed, own
  <2>4. Seen(w)'
    BY <2>1 DEF Seen
  <2>5. Unseen(w)'
    BY <2>1, <2>2 DEF Unseen
  <2>6. Sized(w)'
    BY <2>1, <2>2 DEF Mirrored, Sized, Right, Present, Listed, own, UnmapWindow
  <2>7. Pictured(w)'
    BY <2>1, <2>2 DEF Mirrored, Pictured, Present, Listed, own, UnmapWindow
  <2>8. Damaged(w)'
    BY <2>1, <2>2 DEF Mirrored, Damaged, Asked, Present, Listed, own, UnmapWindow
  <2>9. Painted(w)'
    BY <2>1, <2>2 DEF Mirrored, Painted, Listed, own, UnmapWindow
  <2> QED
    BY <2>3, <2>4, <2>5, <2>6, <2>7, <2>8, <2>9 DEF Mirrored
<1>7. \A x \in Windows : pixmap'[x] >= pixmap[x]
  BY DEF UnmapWindow, IInv, XTypeOK
<1> QED
  BY <1>4, <1>5, <1>6, <1>7, OwnKept, Zenon DEF UnmapWindow

\* What ConfigureNotify says of a window.
LEMMA BeneathIs ==
    ASSUME NEW S, NEW s \in Seq(S), IsInjective(s), NoWin \notin S, NEW w, Contains(s, w)
    PROVE  /\ Beneath(s, w) \in S \cup {NoWin} /\ Beneath(s, w) # w
           /\ Beneath(s, w) = NoWin =>
                 /\ \A x : <<x, w>> \in Stack(s) <=> x = w
                 /\ \A y : <<w, y>> \in Stack(s) <=> Contains(s, y)
           /\ Beneath(s, w) # NoWin =>
                 /\ Contains(s, Beneath(s, w))
                 /\ \A x : <<x, w>> \in Stack(s) <=> x = w \/ <<x, Beneath(s, w)>> \in Stack(s)
                 /\ \A y : <<w, y>> \in Stack(s) <=>
                              y # Beneath(s, w) /\ <<Beneath(s, w), y>> \in Stack(s)
<1> DEFINE p == Position(s, w)
<1> DEFINE b == Beneath(s, w)
<1>1. p \in 1 .. Len(s) /\ s[p] = w /\ Len(s) \in Nat
  BY PositionIs, LenProperties
<1>2. b = IF p = 1 THEN NoWin ELSE s[p - 1]
  BY DEF Beneath
<1>3. \A i, j \in 1 .. Len(s) : s[i] = s[j] => i = j
  BY LenProperties DEF IsInjective
<1>4. /\ \A i \in 1 .. Len(s) : s[i] \in S
      /\ \A x : Contains(s, x) <=> \E i \in 1 .. Len(s) : s[i] = x
  BY LenProperties, ElementOfSeq DEF Contains
<1>5. \A x, y : <<x, y>> \in Stack(s) <=> \E i, j \in 1 .. Len(s) : i <= j /\ s[i] = x /\ s[j] = y
  BY StackIs
<1> HIDE DEF b, p
<1>6. /\ \A x : <<x, w>> \in Stack(s) <=> \E i \in 1 .. Len(s) : i <= p /\ s[i] = x
      /\ \A y : <<w, y>> \in Stack(s) <=> \E j \in 1 .. Len(s) : p <= j /\ s[j] = y
  BY <1>1, <1>3, <1>5
<1>7. CASE p = 1
  <2>1. b = NoWin
    BY <1>2, <1>7
  <2>2. w \in S
    BY <1>1, <1>4
  <2>3. \A x : <<x, w>> \in Stack(s) <=> x = w
    BY <1>1, <1>6, <1>7
  <2>4. \A y : <<w, y>> \in Stack(s) <=> Contains(s, y)
    BY <1>1, <1>4, <1>6, <1>7
  <2> QED
    BY <2>1, <2>2, <2>3, <2>4 DEF b
<1>8. CASE p # 1
  <2>1. p - 1 \in 1 .. Len(s) /\ b = s[p - 1] /\ b \in S /\ b # NoWin /\ b # w
    BY <1>1, <1>2, <1>3, <1>4, <1>8
  <2>2. /\ \A x : <<x, b>> \in Stack(s) <=> \E i \in 1 .. Len(s) : i <= p - 1 /\ s[i] = x
        /\ \A y : <<b, y>> \in Stack(s) <=> \E j \in 1 .. Len(s) : p - 1 <= j /\ s[j] = y
    BY <1>3, <1>5, <2>1
  <2>3. \A x : <<x, w>> \in Stack(s) <=> x = w \/ <<x, b>> \in Stack(s)
    <3>1. \A i \in 1 .. Len(s) : i <= p <=> i = p \/ i <= p - 1
      BY <1>1
    <3> QED
      BY <1>1, <1>6, <2>2, <3>1
  <2>4. \A y : <<w, y>> \in Stack(s) <=> y # b /\ <<b, y>> \in Stack(s)
    <3>1. \A i \in 1 .. Len(s) : p <= i <=> i # p - 1 /\ p - 1 <= i
      BY <1>1
    <3> QED
      BY <1>3, <1>6, <2>1, <2>2, <3>1
  <2>5. Contains(s, b)
    BY <1>4, <2>1
  <2> QED
    BY <2>1, <2>3, <2>4, <2>5 DEF b
<1> QED
  BY <1>7, <1>8

LEMMA ConfigureIs ==
    ASSUME NEW w \in Windows, order' \in Seq(Windows), IsInjective(order'),
           Contains(order', w), size'[w] \in Sizes
    PROVE  /\ ConfigureEvent(w) \in Events /\ ConfigureEvent(w).type = "configure"
           /\ ConfigureEvent(w).win = w /\ ConfigureEvent(w).size = size'[w]
           /\ ConfigureEvent(w).above = Beneath(order', w)
           /\ Beneath(order', w) # w
<1>1. Beneath(order', w) \in Windows \cup {NoWin} /\ Beneath(order', w) # w
  BY XServerAssumption, BeneathIs
<1> HIDE DEF Beneath
<1> QED
  BY <1>1 DEF ConfigureEvent, Events

\* The numbers of the pixmaps after w may have got a new one.
LEMMA PixmapsAre ==
    ASSUME XTypeOK, NEW w \in Windows, NewPixmap(w) \/ pixmap' = pixmap
    PROVE  /\ pixmap' \in [Windows -> Nat] /\ \A v \in Windows : pixmap'[v] >= pixmap[v]
           /\ \A v \in Windows : v # w => pixmap'[v] = pixmap[v]
<1>1. pixmap \in [Windows -> Nat]
  BY DEF XTypeOK
<1>2. CASE pixmap' = pixmap
  BY <1>1, <1>2
<1>3. CASE NewPixmap(w)
  BY <1>1, <1>3 DEF NewPixmap
<1> QED
  BY <1>2, <1>3

LEMMA ResizeKeeps ==
    ASSUME IInv, NEW w \in Windows, ResizeWindow(w), UNCHANGED own
    PROVE  IInv'
<1> DEFINE e == ConfigureEvent(w)
<1>1. XTypeOK /\ order' = order /\ Contains(order, w)
  BY DEF IInv, ResizeWindow
<1>2. /\ size' \in [Windows -> Sizes] /\ size'[w] # size[w]
      /\ \A v \in Windows : v # w => size'[v] = size[v]
  BY <1>1 DEF ResizeWindow, XTypeOK
<1>3. /\ pixmap' \in [Windows -> Nat] /\ \A v \in Windows : pixmap'[v] >= pixmap[v]
      /\ \A v \in Windows : v # w => pixmap'[v] = pixmap[v]
      /\ ~Viewable(w) => pixmap'[w] = pixmap[w]
  BY <1>1, PixmapsAre DEF ResizeWindow
<1>4. e \in Events /\ e.type = "configure" /\ e.win = w /\ e.size = size'[w]
  BY <1>1, <1>2, ConfigureIs DEF XTypeOK
<1>5. queue' = queue \o <<e>>
  BY DEF ResizeWindow, Send
<1> HIDE DEF e
<1>6. XTypeOK'
  BY <1>1, <1>2, <1>3, <1>4, <1>5, Sent DEF ResizeWindow, Change, XTypeOK, Exists
<1>7. ASSUME NEW v \in Windows \ Hidden, v # w PROVE Mirrored(v)'
  <2>1. Alike(queue, queue', v)
    BY <1>1, <1>4, <1>5, <1>7, AlikeSent DEF XTypeOK, About
  <2>2. Untouched(v)
    BY <1>1, <1>2, <1>3, <1>7 DEF Untouched, Asked, ResizeWindow, own
  <2> QED
    BY <2>1, <2>2, Elsewhere DEF IInv
<1>8. ASSUME w \notin Hidden PROVE Mirrored(w)'
  <2>1. /\ Mirrored(w) /\ e \notin Hiding(w) /\ e \notin Kind("map", w)
        /\ e \notin Kind("create", w) /\ e \in Kind("configure", w)
        /\ e \notin Adding(w) /\ e \notin Removing(w) /\ \A S : e \in Sizing(w, S) <=> size'[w] \in S
        /\ mapped' = mapped /\ Viewable(w)' = Viewable(w)
    BY <1>1, <1>4, <1>8, EventIs DEF IInv, Viewable, ResizeWindow
  <2>2. queue \in Seq(Events) /\ Adds(queue, e, queue')
    BY <1>1, <1>4, <1>5, Sent DEF XTypeOK
  <2> USE DEF Adds
  <2>3. Tree(w)'
    BY <1>1, <2>1, <2>2 DEF Mirrored, Tree, Present, Listed, own
  <2>4. Seen(w)'
    BY <2>1, <2>2 DEF Mirrored, Seen, Present, Listed, own
  <2>5. Unseen(w)'
    BY <2>1, <2>2 DEF Mirrored, Unseen, Present, Listed, own
  <2>6. Sized(w)'
    <3>1. Contains(order', w) /\ Right(w)' = Sizing(w, {size'[w]})
      BY <1>1 DEF Right
    <3>2. e \in Right(w)'
      BY <2>1, <3>1
    <3>3. Some(queue', Right(w)')
      BY <2>2, <3>2, Zenon
    <3>4. ~Lasting(queue', Kind("configure", w) \ Right(w)', Right(w)' \cup Removing(w))
      <4> DEFINE P == Kind("configure", w) \ Right(w)'
      <4> DEFINE Q == Right(w)' \cup Removing(w)
      <4>1. e \notin P /\ e \in Q
        BY <3>2
      <4> HIDE DEF P, Q
      <4>2. ~Lasting(queue', P, Q)
        BY <2>2, <4>1
      <4> QED
        BY <4>2 DEF P, Q
    <3> QED
      BY <3>3, <3>4 DEF Sized
  <2>7. Pictured(w)'
    <3> DEFINE old == Kind("map", w) \cup Hiding(w) \cup Sizing(w, Sizes \ {cache[w].size})
    <3>1. SUFFICES ASSUME Present(w), cache[w].pic # NoPic, cache[w].pic # pixmap'[w]
                   PROVE  Some(queue', old)
      BY <2>1 DEF Mirrored, Pictured, Present, Listed, own
    <3>2. /\ Some(queue, Removing(w)) => Some(queue, old)
          /\ Some(queue, Sizing(w, Sizes \ {cache[w].size})) => Some(queue, old)
      BY DEF Some, Hiding
    <3>3. CASE size'[w] # cache[w].size
      <4>1. e \in old
        BY <1>2, <1>4, <2>1, <3>3
      <4> QED
        BY <2>2, <4>1
    <3>4. CASE cache[w].pic # pixmap[w]
      BY <2>1, <2>2, <3>1, <3>4 DEF Mirrored, Pictured
    <3>5. CASE size'[w] = cache[w].size /\ cache[w].pic = pixmap[w]
      <4>1. cache[w].size # size[w] /\ size[w] \in Sizes
        BY <1>1, <1>2, <3>5 DEF XTypeOK
      <4>2. Some(queue, Removing(w)) \/ Some(queue, Sizing(w, {size[w]}))
        BY <1>1, <2>1, <3>1, <4>1 DEF Mirrored, Sized, Right
      <4>3. Sizing(w, {size[w]}) \subseteq Sizing(w, Sizes \ {cache[w].size})
        BY <4>1 DEF Sizing
      <4>4. Some(queue, old)
        BY <3>2, <4>2, <4>3 DEF Some
      <4> HIDE DEF old
      <4> QED
        BY <2>2, <4>4
    <3> QED
      BY <3>3, <3>4, <3>5
  <2>8. Damaged(w)'
    BY <2>1, <2>2 DEF Mirrored, Damaged, Asked, Present, Listed, own, ResizeWindow
  <2>9. Painted(w)'
    BY <2>1, <2>2 DEF Mirrored, Painted, Listed, own, ResizeWindow
  <2> QED
    BY <2>3, <2>4, <2>5, <2>6, <2>7, <2>8, <2>9 DEF Mirrored
<1> QED
  BY <1>3, <1>6, <1>7, <1>8, OwnKept, Zenon DEF ResizeWindow

\* What moving a window in the order leaves as it is.
LEMMA MovedIs ==
    ASSUME XTypeOK, NEW w \in Windows, Contains(order, w),
           \/ order' = OnTop(order, w)
           \/ order' = Above(order, w, NoWin)
           \/ \E a \in Windows : a # w /\ Contains(order, a) /\ order' = Above(order, w, a)
    PROVE  /\ order' \in Seq(Windows) /\ IsInjective(order')
           /\ \A x : Contains(order', x) <=> Contains(order, x)
           /\ \A x, y : x # w /\ y # w => (<<x, y>> \in Stack(order') <=> <<x, y>> \in Stack(order))
<1>1. CASE order' = OnTop(order, w)
  BY <1>1, TopIs DEF XTypeOK
<1>2. CASE order' = Above(order, w, NoWin)
  BY <1>2, BottomIs DEF XTypeOK
<1>3. CASE \E a \in Windows : a # w /\ Contains(order, a) /\ order' = Above(order, w, a)
  <2>1. PICK a \in Windows : a # w /\ Contains(order, a) /\ order' = Above(order, w, a)
    BY <1>3
  <2>2. a # NoWin
    BY XServerAssumption
  <2>3. order \in Seq(Windows) /\ IsInjective(order)
    BY DEF XTypeOK
  <2>4. /\ order' \in Seq(Windows) /\ IsInjective(order')
        /\ \A x : Contains(order', x) <=> Contains(order, x) \/ x = w
    BY <2>1, <2>2, <2>3, AboveIs
  <2>5. \A x, y : x # w /\ y # w => (<<x, y>> \in Stack(order') <=> <<x, y>> \in Stack(order))
    <3>1. \A x, y : <<x, y>> \in Stack(Above(order, w, a)) <=>
                  \/ <<x, y>> \in Stack(order) /\ x # w /\ y # w
                  \/ x = w /\ y = w
                  \/ y = w /\ x # w /\ <<x, a>> \in Stack(order)
                  \/ x = w /\ y # w /\ y # a /\ <<a, y>> \in Stack(order)
      BY <2>1, <2>2, <2>3, AboveIs
    <3> QED
      BY <2>1, <3>1
  <2> QED
    BY <2>4, <2>5
<1> QED
  BY <1>1, <1>2, <1>3

LEMMA MoveKeeps ==
    ASSUME IInv, NEW w \in Windows, NEW a \in Windows \cup {NoWin}, MoveWindow(w, a), UNCHANGED own
    PROVE  IInv'
<1> DEFINE e == ConfigureEvent(w)
<1>1. XTypeOK /\ Contains(order, w) /\ size' = size
  BY DEF IInv, MoveWindow
<1>2. /\ order' \in Seq(Windows) /\ IsInjective(order')
      /\ \A x : Contains(order', x) <=> Contains(order, x)
  BY <1>1, MovedIs DEF MoveWindow
<1>3. e \in Events /\ e.type = "configure" /\ e.win = w /\ e.size = size[w]
  BY <1>1, <1>2, ConfigureIs DEF XTypeOK
<1>4. queue' = queue \o <<e>>
  BY DEF MoveWindow, Send
<1> HIDE DEF e
<1>5. XTypeOK'
  BY <1>1, <1>2, <1>3, <1>4, Sent DEF MoveWindow, Change, XTypeOK, Exists
<1>6. ASSUME NEW v \in Windows \ Hidden, v # w PROVE Mirrored(v)'
  <2>1. Alike(queue, queue', v)
    BY <1>1, <1>3, <1>4, <1>6, AlikeSent DEF XTypeOK, About
  <2>2. Untouched(v)
    BY <1>1, <1>2, <1>6 DEF Untouched, Asked, MoveWindow, own
  <2> QED
    BY <2>1, <2>2, Elsewhere DEF IInv
<1>7. ASSUME w \notin Hidden PROVE Mirrored(w)'
  <2>1. /\ Mirrored(w) /\ e \notin Hiding(w) /\ e \notin Kind("map", w)
        /\ e \notin Kind("create", w) /\ e \in Kind("configure", w)
        /\ e \notin Adding(w) /\ e \notin Removing(w) /\ \A S : e \in Sizing(w, S) <=> size[w] \in S
        /\ mapped' = mapped /\ (Viewable(w)' <=> Viewable(w))
    BY <1>1, <1>2, <1>3, <1>7, EventIs DEF IInv, Viewable, MoveWindow
  <2>2. Adds(queue, e, queue')
    BY <1>1, <1>3, <1>4, Sent DEF XTypeOK
  <2> USE DEF Adds
  <2>3. Tree(w)'
    BY <1>2, <2>1, <2>2 DEF Mirrored, Tree, Present, Listed, own
  <2>4. Seen(w)'
    BY <2>1, <2>2 DEF Mirrored, Seen, Present, Listed, own
  <2>5. Unseen(w)'
    BY <2>1, <2>2 DEF Mirrored, Unseen, Present, Listed, own
  <2>6. Sized(w)'
    <3>1. Contains(order', w) /\ Right(w)' = Sizing(w, {size[w]})
      BY <1>1, <1>2 DEF Right
    <3>2. e \in Right(w)'
      BY <2>1, <3>1
    <3>3. Some(queue', Right(w)')
      BY <2>2, <3>2, Zenon
    <3>4. ~Lasting(queue', Kind("configure", w) \ Right(w)', Right(w)' \cup Removing(w))
      <4> DEFINE P == Kind("configure", w) \ Right(w)'
      <4> DEFINE Q == Right(w)' \cup Removing(w)
      <4>1. e \notin P /\ e \in Q
        BY <3>2
      <4> HIDE DEF P, Q
      <4>2. ~Lasting(queue', P, Q)
        BY <2>2, <4>1
      <4> QED
        BY <4>2 DEF P, Q
    <3> QED
      BY <3>3, <3>4 DEF Sized
  <2>7. Pictured(w)'
    BY <2>1, <2>2 DEF Mirrored, Pictured, Present, Listed, own, MoveWindow
  <2>8. Damaged(w)'
    BY <2>1, <2>2 DEF Mirrored, Damaged, Asked, Present, Listed, own, MoveWindow
  <2>9. Painted(w)'
    BY <2>1, <2>2 DEF Mirrored, Painted, Listed, own, MoveWindow
  <2> QED
    BY <2>3, <2>4, <2>5, <2>6, <2>7, <2>8, <2>9 DEF Mirrored
<1>8. \A x \in Windows : pixmap'[x] >= pixmap[x]
  BY <1>1 DEF MoveWindow, XTypeOK
<1> QED
  BY <1>5, <1>6, <1>7, <1>8, OwnKept, Zenon DEF MoveWindow

LEMMA CirculateKeeps ==
    ASSUME IInv, NEW w \in Windows, NEW top \in BOOLEAN, CirculateWindow(w, top), UNCHANGED own
    PROVE  IInv'
<1> DEFINE e == PlaceEvent(w, top)
<1>1. XTypeOK /\ Contains(order, w)
  BY DEF IInv, CirculateWindow
<1>2. /\ order' \in Seq(Windows) /\ IsInjective(order')
      /\ \A x : Contains(order', x) <=> Contains(order, x)
  BY <1>1, MovedIs DEF CirculateWindow
<1>3. e \in Events /\ e.type = "circulate" /\ e.win = w
  BY EventsAre
<1>4. queue' = queue \o <<e>>
  BY DEF CirculateWindow, Send
<1> HIDE DEF e
<1>5. XTypeOK'
  BY <1>1, <1>2, <1>3, <1>4, Sent DEF CirculateWindow, Change, XTypeOK, Exists
<1>6. ASSUME NEW v \in Windows \ Hidden PROVE Mirrored(v)'
  <2>1. Alike(queue, queue', v)
    BY <1>1, <1>3, <1>4, AlikeSent DEF XTypeOK, About
  <2>2. Untouched(v)
    BY <1>1, <1>2 DEF Untouched, Asked, CirculateWindow, own
  <2> QED
    BY <2>1, <2>2, Elsewhere DEF IInv
<1>7. \A x \in Windows : pixmap'[x] >= pixmap[x]
  BY <1>1 DEF CirculateWindow, XTypeOK
<1> QED
  BY <1>5, <1>6, <1>7, OwnKept, Zenon DEF CirculateWindow

LEMMA OpacityKeeps ==
    ASSUME IInv, NEW w \in Windows, SetOpacity(w), UNCHANGED own
    PROVE  IInv'
<1> DEFINE e == Event("property", w)
<1>1. XTypeOK
  BY DEF IInv
<1>2. e \in Events /\ e.type = "property" /\ e.win = w
  BY EventsAre
<1>3. queue' = queue \o <<e>> \/ queue' = queue
  BY <1>1, ConcatEmptySeq DEF SetOpacity, Send, When, XTypeOK
<1> HIDE DEF e
<1>4. XTypeOK'
  <2>1. opaque' \in [Windows -> BOOLEAN]
    BY <1>1 DEF SetOpacity, XTypeOK
  <2>2. queue' \in Seq(Events)
    BY <1>1, <1>2, <1>3, Sent DEF XTypeOK
  <2> QED
    BY <1>1, <2>1, <2>2 DEF SetOpacity, Change, XTypeOK, Exists
<1>5. ASSUME NEW v \in Windows \ Hidden PROVE Mirrored(v)'
  <2>1. Alike(queue, queue', v)
    BY <1>1, <1>2, <1>3, AlikeSent, AlikeSame DEF XTypeOK, About
  <2>2. Untouched(v)
    BY DEF Untouched, Asked, SetOpacity, own
  <2> QED
    BY <2>1, <2>2, Elsewhere DEF IInv
<1>6. \A x \in Windows : pixmap'[x] >= pixmap[x]
  BY <1>1 DEF SetOpacity, XTypeOK
<1> QED
  BY <1>4, <1>5, <1>6, OwnKept, Zenon DEF SetOpacity

LEMMA DrawKeeps ==
    ASSUME IInv, NEW w \in Windows, Draw(w), UNCHANGED own
    PROVE  IInv'
<1> DEFINE e == Event("damage", w)
<1>1. XTypeOK
  BY DEF IInv
<1>2. e \in Events /\ e.type = "damage" /\ e.win = w
  BY EventsAre
<1>3. /\ w \in tracked \ damaged => queue' = queue \o <<e>> /\ damaged' = damaged \cup {w}
      /\ w \notin tracked \ damaged => queue' = queue /\ damaged' = damaged
  BY DEF Draw, Send
<1> HIDE DEF e
<1>4. XTypeOK'
  <2>1. ink' \in [Windows -> Nat]
    BY <1>1 DEF Draw, XTypeOK
  <2>2. queue' \in Seq(Events)
    BY <1>1, <1>2, <1>3, Sent DEF XTypeOK
  <2>3. damaged' \subseteq Windows
    BY <1>1, <1>3 DEF XTypeOK
  <2> QED
    BY <1>1, <2>1, <2>2, <2>3 DEF Draw, Change, XTypeOK, Exists
<1>5. ASSUME NEW v \in Windows \ Hidden, v # w PROVE Mirrored(v)'
  <2>1. Alike(queue, queue', v)
    BY <1>1, <1>2, <1>3, <1>5, AlikeSent, AlikeSame DEF XTypeOK, About
  <2>2. Untouched(v)
    BY <1>1, <1>3, <1>5 DEF Untouched, Asked, Draw, XTypeOK, own
  <2> QED
    BY <2>1, <2>2, Elsewhere DEF IInv
<1>6. ASSUME w \notin Hidden PROVE Mirrored(w)'
  <2>1. /\ Mirrored(w) /\ e \in Kind("damage", w) /\ e \notin Hiding(w)
        /\ e \notin Adding(w) /\ e \notin Removing(w) /\ e \notin Kind("map", w)
        /\ e \notin Kind("configure", w) /\ e \notin Kind("create", w)
        /\ Contains(order, w) /\ order' = order /\ mapped' = mapped
    BY <1>2, <1>6, EventIs DEF IInv, Viewable, Draw
  <2>2. Adds(queue, e, queue') \/ queue' = queue
    BY <1>1, <1>2, <1>3, Sent DEF XTypeOK
  <2>3. queue' \in Seq(Events)
    BY <1>4 DEF XTypeOK
  <2> USE DEF Adds
  <2>4. Tree(w)'
    BY <2>1, <2>2 DEF Mirrored, Tree, Present, Listed, own
  <2>5. Seen(w)'
    BY <2>1, <2>2 DEF Mirrored, Seen, Present, Listed, Viewable, own
  <2>6. Unseen(w)'
    BY <2>1, <2>2 DEF Mirrored, Unseen, Present, Listed, Viewable, own
  <2>7. Sized(w)'
    BY <2>1, <2>2 DEF Mirrored, Sized, Right, Present, Listed, own, Draw
  <2>8. Pictured(w)'
    BY <2>1, <2>2 DEF Mirrored, Pictured, Present, Listed, own, Draw
  <2>9. Damaged(w)'
    <3> DEFINE asked == Asked("subtract", w) \/ Asked("release", w)
    <3>1. w \in damaged' => Some(queue', Kind("damage", w)) \/ asked
      <4>1. CASE w \in tracked \ damaged
        <5>1. Adds(queue, e, queue')
          BY <1>1, <1>2, <1>3, <4>1, Sent DEF XTypeOK
        <5> QED
          BY <2>1, <5>1
      <4>2. CASE w \notin tracked \ damaged
        BY <1>3, <2>1, <4>2 DEF Mirrored, Damaged
      <4> QED
        BY <4>1, <4>2
    <3>2. Some(queue, Removing(w)) => Some(queue', Removing(w))
      BY <2>2
    <3> QED
      BY <2>1, <3>1, <3>2 DEF Mirrored, Damaged, Asked, Present, Listed, own, Draw
  <2>10. Painted(w)'
    <3> DEFINE late == Kind("damage", w) \cup Removing(w)
    <3>1. ASSUME ~dirty, Listed(w) PROVE Some(queue', late)
      <4>1. requests = <<>> /\ requests' = <<>>
        BY <3>1 DEF IInv, Answered, Draw
      <4>2. \A t : ~Asked(t, w) /\ ~Asked(t, w)'
        BY <4>1, EmptySeq, LenProperties DEF Asked
      <4>3. CASE w \in damaged'
        BY <2>3, <2>9, <4>2, <4>3, Queues DEF Damaged
      <4>4. CASE w \notin damaged'
        <5>1. w \notin tracked /\ queue' = queue
          BY <1>3, <4>4
        <5> QED
          BY <2>1, <2>3, <3>1, <4>2, <5>1, Queues DEF Mirrored, Damaged
      <4> QED
        BY <4>3, <4>4
    <3>2. Listed(w)' = Listed(w) /\ dirty' = dirty /\ cache' = cache /\ screen' = screen
      BY DEF Listed, own
    <3> QED
      BY <2>1, <3>1, <3>2 DEF Mirrored, Painted
  <2> QED
    BY <2>4, <2>5, <2>6, <2>7, <2>8, <2>9, <2>10 DEF Mirrored
<1>7. \A x \in Windows : pixmap'[x] >= pixmap[x]
  BY <1>1 DEF Draw, XTypeOK
<1> QED
  BY <1>4, <1>5, <1>6, <1>7, OwnKept, Zenon DEF Draw

\* A window becomes a child of the root, which it may have been already ...
LEMMA ReleaseKeeps ==
    ASSUME IInv, NEW w \in Windows, ReparentWindow(w, TRUE), UNCHANGED own
    PROVE  IInv'
<1> DEFINE u == Event("unmap", w)
<1> DEFINE e == ReparentEvent(w, TRUE)
<1> DEFINE f == Event("map", w)
<1>1. XTypeOK /\ Exists(w) /\ (Contains(order, w) <=> w \notin away)
  BY DEF IInv, XTypeOK, ReparentWindow, Exists
<1>2. /\ u \in Events /\ u.type = "unmap" /\ u.win = w
      /\ e \in Events /\ e.type = "reparent" /\ e.win = w /\ e.root
      /\ f \in Events /\ f.type = "map" /\ f.win = w
  BY EventsAre
<1> DEFINE m == IF Viewable(w) THEN queue \o <<u>> ELSE queue
<1> DEFINE r == m \o <<e>>
<1>3. queue' = IF w \in mapped THEN r \o <<f>> ELSE r
  BY <1>1, ReparentSends
<1> HIDE DEF u, e, f
<1>4. /\ m \in Seq(Events)
      /\ IF Viewable(w) THEN Adds(queue, u, m) ELSE m = queue
      /\ \A v \in Windows : v # w => Alike(queue, m, v)
  BY <1>1, <1>2, Sent, AlikeSent, AlikeSame DEF XTypeOK, About
<1> HIDE DEF m
<1>5. r \in Seq(Events) /\ Adds(m, e, r) /\ \A v \in Windows : v # w => Alike(m, r, v)
  BY <1>2, <1>4, Sent, AlikeSent DEF About
<1> HIDE DEF r
<1>6. /\ queue' \in Seq(Events)
      /\ IF w \in mapped THEN Adds(r, f, queue') ELSE queue' = r
      /\ \A v \in Windows : v # w => Alike(r, queue', v)
  BY <1>2, <1>3, <1>5, Sent, AlikeSent, AlikeSame DEF About
<1>7. /\ order' \in Seq(Windows) /\ IsInjective(order')
      /\ \A x : Contains(order', x) <=> Contains(order, x) \/ x = w
  BY <1>1, TopIs DEF XTypeOK, ReparentWindow
<1>8. /\ pixmap' \in [Windows -> Nat] /\ \A v \in Windows : pixmap'[v] >= pixmap[v]
      /\ \A v \in Windows : v # w => pixmap'[v] = pixmap[v]
      /\ w \notin mapped => pixmap'[w] = pixmap[w]
  BY <1>1, PixmapsAre DEF ReparentWindow
<1>9. XTypeOK'
  BY <1>1, <1>6, <1>7, <1>8 DEF ReparentWindow, Change, XTypeOK, Exists
<1>10. ASSUME NEW v \in Windows \ Hidden, v # w PROVE Mirrored(v)'
  <2>1. Alike(queue, queue', v)
    BY <1>4, <1>5, <1>6, <1>10, AlikeTwice
  <2>2. Untouched(v)
    BY <1>7, <1>8, <1>10 DEF Untouched, Asked, ReparentWindow, own
  <2> QED
    BY <2>1, <2>2, Elsewhere DEF IInv
<1>11. ASSUME w \notin Hidden PROVE Mirrored(w)'
  <2>1. /\ Mirrored(w)
        /\ e \in Adding(w) /\ e \notin Removing(w) /\ e \notin Hiding(w) /\ e \notin Kind("create", w)
        /\ e \notin Kind("map", w) /\ e \notin Kind("configure", w) /\ \A S : e \notin Sizing(w, S)
        /\ f \in Kind("map", w) /\ f \notin Adding(w) /\ f \notin Removing(w) /\ f \notin Hiding(w)
        /\ f \notin Kind("create", w) /\ f \notin Kind("configure", w) /\ \A S : f \notin Sizing(w, S)
        /\ u \notin Removing(w) /\ u \notin Kind("create", w) /\ u \notin Adding(w)
        /\ u \notin Kind("configure", w) /\ \A S : u \notin Sizing(w, S)
        /\ (Viewable(w)' <=> w \in mapped) /\ Contains(order', w) /\ (w \notin mapped => ~Viewable(w))
    BY <1>1, <1>2, <1>7, <1>11, EventIs DEF IInv, Viewable, ReparentWindow
  <2>2. /\ \A P : Some(queue, P) => Some(queue', P)
        /\ Lasting(queue', Adding(w), Removing(w))
        /\ w \in mapped => /\ Some(queue', Kind("map", w))
                           /\ Lasting(queue', Kind("map", w), Adding(w) \cup Hiding(w))
        /\ w \notin mapped /\ ~Lasting(queue, Kind("map", w), Hiding(w))
              => ~Lasting(queue', Kind("map", w), Hiding(w))
        /\ Behind(queue, Kind("create", w), Removing(w))
              => Behind(queue', Kind("create", w), Removing(w))
        /\ Spaced(queue, Adding(w), Kind("create", w), Removing(w))
              => Spaced(queue', Adding(w), Kind("create", w), Removing(w))
    BY <1>4, <1>5, <1>6, <2>1 DEF Adds
  <2>3. \A Q : Lasting(queue', Kind("configure", w), Q) => Lasting(queue, Kind("configure", w), Q)
    BY <1>4, <1>5, <1>6, <2>1 DEF Adds
  <2>4. Tree(w)'
    BY <2>1, <2>2 DEF Mirrored, Tree, Present, Listed, own
  <2>5. Seen(w)'
    BY <2>1, <2>2 DEF Seen
  <2>6. Unseen(w)'
    BY <2>1, <2>2 DEF Mirrored, Unseen, Present, Listed, own
  <2>7. Sized(w)'
    <3>1. CASE ~Contains(order, w)
      <4>1. Adopted(w)
        BY <2>1, <2>2, <2>3 DEF Adopted, own
      <4> QED
        BY <1>1, <1>9, <2>1, <3>1, <4>1, SizedAnew
    <3>2. CASE Contains(order, w)
      <4>1. Right(w)' = Right(w) /\ Right(w) = Sizing(w, {size[w]})
        BY <2>1, <3>2 DEF Right, ReparentWindow
      <4> DEFINE P == Kind("configure", w) \ Right(w)
      <4> DEFINE Q == Right(w) \cup Removing(w)
      <4>2. e \notin P /\ f \notin P /\ u \notin P
        BY <2>1
      <4> HIDE DEF P, Q
      <4>3. Lasting(queue', P, Q) => Lasting(queue, P, Q)
        BY <1>4, <1>5, <1>6, <4>2 DEF Adds
      <4>4. ~Lasting(queue', P, Q)
        BY <2>1, <4>3 DEF Mirrored, Sized, P, Q
      <4>5. Present(w)' /\ ~Some(queue', Removing(w)) =>
              cache'[w].size = size'[w] \/ Some(queue', Right(w))
        BY <2>1, <2>2, <3>2 DEF Mirrored, Sized, Present, Listed, own, ReparentWindow
      <4> QED
        BY <4>1, <4>4, <4>5 DEF Sized, P, Q
    <3> QED
      BY <3>1, <3>2
  <2>8. Pictured(w)'
    <3> DEFINE old == Kind("map", w) \cup Hiding(w) \cup Sizing(w, Sizes \ {cache[w].size})
    <3>1. w \in mapped => Some(queue', old)
      BY <1>6, <2>2, Queues
    <3> QED
      BY <1>8, <2>1, <2>2, <3>1 DEF Mirrored, Pictured, Present, Listed, own
  <2>9. Damaged(w)'
    BY <2>1, <2>2 DEF Mirrored, Damaged, Asked, Present, Listed, own, ReparentWindow
  <2>10. Painted(w)'
    BY <2>1, <2>2 DEF Mirrored, Painted, Listed, own, ReparentWindow
  <2> QED
    BY <2>4, <2>5, <2>6, <2>7, <2>8, <2>9, <2>10 DEF Mirrored
<1> QED
  BY <1>8, <1>9, <1>10, <1>11, OwnKept, Zenon DEF ReparentWindow

\* ... or of another window.
LEMMA FrameKeeps ==
    ASSUME IInv, NEW w \in Windows, ReparentWindow(w, FALSE), UNCHANGED own
    PROVE  IInv'
<1> DEFINE u == Event("unmap", w)
<1> DEFINE e == ReparentEvent(w, FALSE)
<1>1. XTypeOK /\ Contains(order, w)
  BY DEF IInv, ReparentWindow, Exists
<1>2. /\ u \in Events /\ u.type = "unmap" /\ u.win = w
      /\ e \in Events /\ e.type = "reparent" /\ e.win = w /\ ~e.root
  BY EventsAre
<1> DEFINE m == IF Viewable(w) THEN queue \o <<u>> ELSE queue
<1>3. queue' = m \o <<e>>
  BY <1>1, ReparentSends
<1> HIDE DEF u, e
<1>5. /\ m \in Seq(Events)
      /\ IF Viewable(w) THEN Adds(queue, u, m) ELSE m = queue
      /\ \A v \in Windows : v # w => Alike(queue, m, v)
  BY <1>1, <1>2, Sent, AlikeSent, AlikeSame DEF XTypeOK, About
<1> HIDE DEF m
<1>6. /\ queue' \in Seq(Events) /\ Adds(m, e, queue')
      /\ \A v \in Windows : v # w => Alike(m, queue', v)
  BY <1>1, <1>2, <1>3, <1>5, Sent, AlikeSent DEF About
<1>7. /\ order' \in Seq(Windows) /\ IsInjective(order')
      /\ \A x : Contains(order', x) <=> Contains(order, x) /\ x # w
  BY <1>1, WithoutIs DEF XTypeOK, ReparentWindow
<1>8. XTypeOK'
  BY <1>1, <1>6, <1>7 DEF ReparentWindow, Change, XTypeOK, Exists
<1>9. ASSUME NEW v \in Windows \ Hidden, v # w PROVE Mirrored(v)'
  <2>1. Alike(queue, queue', v)
    BY <1>5, <1>6, <1>9, AlikeTwice
  <2>2. Untouched(v)
    BY <1>7, <1>9 DEF Untouched, Asked, ReparentWindow, own
  <2> QED
    BY <2>1, <2>2, Elsewhere DEF IInv
<1>10. ASSUME w \notin Hidden PROVE Mirrored(w)'
  <2>1. /\ Mirrored(w) /\ ~Contains(order', w) /\ ~Viewable(w)'
        /\ e \in Removing(w) /\ e \in Hiding(w) /\ e \notin Adding(w) /\ e \notin Kind("map", w)
        /\ e \notin Kind("create", w) /\ u \notin Kind("create", w) /\ e \notin Kind("configure", w)
        /\ u \notin Adding(w)
    BY <1>1, <1>2, <1>7, <1>10, EventIs DEF IInv, Viewable
  <2>2. /\ \A P : Some(queue, P) => Some(queue', P)
        /\ Some(queue', Removing(w)) /\ Some(queue', Hiding(w))
        /\ Behind(queue, Kind("create", w), Removing(w)) => Behind(queue', Kind("create", w), Removing(w))
        /\ Spaced(queue, Adding(w), Kind("create", w), Removing(w))
              => Spaced(queue', Adding(w), Kind("create", w), Removing(w))
        /\ ~Lasting(queue', Adding(w), Removing(w))
        /\ ~Lasting(queue', Kind("map", w), Hiding(w))
        /\ ~Lasting(queue', Kind("configure", w) \ {}, {} \cup Removing(w))
    BY <1>5, <1>6, <2>1 DEF Adds
  <2>3. Tree(w)'
    BY <2>1, <2>2 DEF Mirrored, Tree, Present, Listed, own
  <2>4. Seen(w)'
    BY <2>1 DEF Seen
  <2>5. Unseen(w)'
    BY <2>1, <2>2 DEF Unseen
  <2>6. Sized(w)'
    BY <2>1, <2>2 DEF Sized, Right
  <2>7. Pictured(w)'
    BY <2>1, <2>2 DEF Mirrored, Pictured, Present, Listed, own, ReparentWindow
  <2>8. Damaged(w)'
    BY <2>1, <2>2 DEF Mirrored, Damaged, Asked, Present, Listed, own, ReparentWindow
  <2>9. Painted(w)'
    BY <2>1, <2>2 DEF Mirrored, Painted, Listed, own, ReparentWindow
  <2> QED
    BY <2>3, <2>4, <2>5, <2>6, <2>7, <2>8, <2>9 DEF Mirrored
<1>11. \A x \in Windows : pixmap'[x] >= pixmap[x]
  BY <1>1 DEF ReparentWindow, XTypeOK
<1> QED
  BY <1>8, <1>9, <1>10, <1>11, OwnKept, Zenon DEF ReparentWindow

LEMMA ProgramsKeep ==
    ASSUME IInv, Programs, UNCHANGED own
    PROVE  IInv'
<1>1. CASE \E w \in Windows : CreateWindow(w)
  BY <1>1, CreateKeeps
<1>2. CASE \E w \in Windows : DestroyWindow(w)
  BY <1>2, DestroyKeeps
<1>3. CASE \E w \in Windows \ Hidden : MapWindow(w)
  BY <1>3, MapKeeps
<1>4. CASE \E w \in Windows \ Hidden : UnmapWindow(w)
  BY <1>4, UnmapKeeps
<1>5. CASE \E w \in Windows \ Hidden : ResizeWindow(w)
  BY <1>5, ResizeKeeps
<1>6. CASE \E w \in Windows \ Hidden, root \in BOOLEAN : ReparentWindow(w, root)
  BY <1>6, ReleaseKeeps, FrameKeeps
<1>7. CASE \E w \in Windows \ Hidden, a \in Windows \cup {NoWin} : MoveWindow(w, a)
  BY <1>7, MoveKeeps
<1>8. CASE \E w \in Windows \ Hidden, top \in BOOLEAN : CirculateWindow(w, top)
  BY <1>8, CirculateKeeps
<1>9. CASE \E w \in Windows \ Hidden : SetOpacity(w)
  BY <1>9, OpacityKeeps
<1>10. CASE \E w \in Windows \ Hidden : Draw(w)
  BY <1>10, DrawKeeps
<1> QED
  BY <1>1, <1>2, <1>3, <1>4, <1>5, <1>6, <1>7, <1>8, <1>9, <1>10 DEF Programs

-----------------------------------------------------------------------------
(* Requests                                                                *)

LEMMA Asks ==
    ASSUME requests \in Seq(Requests), NEW w \in Windows,
           NEW s \in {"manage", "subtract", "release"}, Ask(s, w)
    PROVE  /\ requests' \in Seq(Requests) /\ requests' # <<>>
           /\ \A t, v : Asked(t, v)' <=> Asked(t, v) \/ (t = s /\ v = w)
<1> DEFINE f == Request(s, w)
<1>1. f \in Requests /\ \A t, v : f = Request(t, v) <=> t = s /\ v = w
  BY DEF Request, Requests
<1> HIDE DEF f
<1>2. requests' = Append(requests, f)
  BY DEF Ask, f
<1>3. /\ requests' \in Seq(Requests) /\ DOMAIN requests = 1 .. Len(requests) /\ Len(requests) \in Nat
      /\ DOMAIN requests' = 1 .. Len(requests) + 1 /\ requests'[Len(requests) + 1] = f
      /\ \A i \in 1 .. Len(requests) : requests'[i] = requests[i]
  BY <1>1, <1>2, Longer
<1>4. requests' # <<>>
  BY <1>3
<1>5. ASSUME NEW g PROVE (\E i \in DOMAIN requests' : requests'[i] = g)
                           <=> (\E i \in DOMAIN requests : requests[i] = g) \/ f = g
  BY <1>3
<1> QED
  BY <1>1, <1>3, <1>4, <1>5 DEF Asked

LEMMA Served ==
    ASSUME requests \in Seq(Requests), requests # <<>>, requests' = Tail(requests)
    PROVE  /\ requests' \in Seq(Requests) /\ Head(requests) \in Requests
           /\ \A t, v : Asked(t, v) <=>
                  Asked(t, v)' \/ (Head(requests).type = t /\ Head(requests).win = v)
<1> DEFINE f == Head(requests)
<1>1. /\ requests' \in Seq(Requests) /\ f \in Requests /\ f = requests[1]
      /\ DOMAIN requests = 1 .. Len(requests) /\ Len(requests) \in Nat \ {0}
      /\ DOMAIN requests' = 1 .. Len(requests) - 1
      /\ \A i \in 1 .. Len(requests) - 1 : requests'[i] = requests[i + 1]
  BY Shorter
<1> HIDE DEF f
<1>2. \A t, v : f = Request(t, v) <=> f.type = t /\ f.win = v
  BY <1>1 DEF Requests, Request
<1>3. ASSUME NEW g PROVE (\E i \in DOMAIN requests : requests[i] = g)
                           <=> (\E i \in DOMAIN requests' : requests'[i] = g) \/ f = g
  <2>1. ASSUME NEW i \in DOMAIN requests, requests[i] = g
        PROVE  f = g \/ \E j \in DOMAIN requests' : requests'[j] = g
    <3>1. i = 1 \/ (i - 1 \in DOMAIN requests' /\ requests'[i - 1] = g)
      BY <1>1, <2>1
    <3> QED
      BY <1>1, <2>1, <3>1
  <2>2. ASSUME NEW i \in DOMAIN requests', requests'[i] = g
        PROVE  \E j \in DOMAIN requests : requests[j] = g
    <3>1. i + 1 \in DOMAIN requests /\ requests[i + 1] = g
      BY <1>1, <2>2
    <3> QED
      BY <3>1
  <2>3. 1 \in DOMAIN requests /\ requests[1] = f
    BY <1>1
  <2> QED
    BY <2>1, <2>2, <2>3
<1> QED
  BY <1>1, <1>2, <1>3 DEF Asked, f

LEMMA NothingAsked ==
    ASSUME Answered, NEW t, NEW w
    PROVE  ~Asked(t, w)
BY DEF Answered, Asked

-----------------------------------------------------------------------------
(* Handling an event                                                       *)

Entries == [viewable : BOOLEAN, size : Sizes, opaque : BOOLEAN, pic : Int]

\* What is left to show of the handling of an event about w.
LEMMA HandlingKeeps ==
    ASSUME IInv, NEW w \in Windows, NEW t, On(t, w), UNCHANGED <<server, screen>>,
           wins' \in Seq(Windows \ Hidden), IsInjective(wins'),
           \A v : v # w => (Contains(wins', v) <=> Contains(wins, v)),
           \/ requests' = requests
           \/ dirty' = TRUE /\ \E s \in {"subtract", "release"} : Ask(s, w),
           NEW c \in Entries, c.pic \in {NoPic, BadPic} \cup 0 .. pixmap[w],
           cache' = cache \/ cache' = [cache EXCEPT ![w] = c],
           dirty' = dirty \/ dirty' = TRUE, misled' \in BOOLEAN,
           \/ busy' = busy
           \/ busy' = [win |-> w, step |-> "opacity"] /\ w \notin Hidden /\ ~Contains(wins', w),
           w \notin Hidden => Mirrored(w)'
    PROVE  IInv'
<1>1. XTypeOK /\ TypeOK /\ busy = Idle
  BY DEF IInv, On
<1>2. Head(queue).win = w /\ queue # <<>> /\ queue' = Tail(queue) /\ queue \in Seq(Events)
  BY <1>1 DEF On, XTypeOK
<1>0. /\ requests' \in Seq(Requests)
      /\ \A u, v : v # w => (Asked(u, v)' <=> Asked(u, v))
  <2>1. CASE requests' = requests
    BY <1>1, <2>1 DEF XTypeOK, Asked
  <2>2. CASE \E s \in {"subtract", "release"} : Ask(s, w)
    BY <1>1, <2>2, Asks DEF XTypeOK
  <2> QED
    BY <2>1, <2>2
<1>3. XTypeOK'
  BY <1>0, <1>1, <1>2, Handled DEF XTypeOK, server, Exists
<1>4. /\ cache' \in [Windows -> Entries]
      /\ \A v \in Windows : cache'[v].pic \in {NoPic, BadPic} \cup 0 .. pixmap'[v]
      /\ \A v \in Windows : v # w => cache'[v] = cache[v]
  BY <1>1 DEF TypeOK, Entries, server
<1>5. TypeOK'
  <2>1. busy'.win \in Windows \cup {NoWin} /\ busy'.step \in {"none", "opacity", "append", "paint"}
    BY <1>1 DEF Idle
  <2>2. dirty' \in BOOLEAN
    BY <1>1, Zenon DEF TypeOK
  <2> QED
    BY <1>4, <2>1, <2>2 DEF TypeOK, Entries
<1>6. BusyOK'
  BY <1>1 DEF BusyOK, Listed, Idle
<1>7. ASSUME NEW v \in Windows \ Hidden, v # w PROVE Mirrored(v)'
  <2>1. Alike(queue, queue', v)
    BY <1>2, <1>7, AlikeHandled DEF About
  <2>2. Untouched(v)
    <3>1. busy'.win = v <=> busy.win = v
      BY <1>1, <1>7, XServerAssumption DEF Idle
    <3>2. dirty => dirty'
      BY Zenon
    <3> QED
      BY <1>0, <1>4, <1>7, <3>1, <3>2 DEF Untouched, server
  <2> QED
    BY <2>1, <2>2, Elsewhere DEF IInv
<1>8. ~dirty' => Answered'
  <2>1. CASE dirty' = TRUE
    BY <2>1
  <2>2. CASE dirty' = dirty /\ requests' = requests
    BY <2>2 DEF IInv, Answered
  <2> QED
    BY <2>1, <2>2, Zenon
<1>9. \A d \in screen' : d.win \in Windows \ Hidden
  BY DEF IInv
<1> QED
  BY <1>3, <1>5, <1>6, <1>7, <1>8, <1>9 DEF IInv

\* The event that is being handled, and what the queue said before.
LEMMA Handling ==
    ASSUME IInv, NEW w \in Windows, NEW t, On(t, w)
    PROVE  /\ XTypeOK /\ TypeOK /\ queue \in Seq(Events) /\ queue # <<>>
           /\ Head(queue) \in Events /\ Head(queue).win = w /\ Head(queue).type = t
           /\ queue' \in Seq(Events) /\ Takes(queue, Head(queue), queue')
           /\ busy = Idle /\ busy.win # w /\ cache[w] \in Entries
           /\ cache[w].pic \in {NoPic, BadPic} \cup 0 .. pixmap[w]
           /\ w \notin Hidden => Mirrored(w)
           /\ dirty \in BOOLEAN /\ misled \in BOOLEAN
           /\ wins \in Seq(Windows \ Hidden) /\ IsInjective(wins)
           /\ Contains(wins, w) => w \notin Hidden
           /\ requests \in Seq(Requests)
<1>1. XTypeOK /\ TypeOK /\ queue \in Seq(Events) /\ queue # <<>>
      /\ Head(queue).win = w /\ Head(queue).type = t /\ queue' = Tail(queue) /\ busy = Idle
  BY DEF IInv, XTypeOK, On
<1>2. Head(queue) \in Events /\ queue' \in Seq(Events) /\ Takes(queue, Head(queue), queue')
  BY <1>1, Handled
<1>3. busy.win # w
  BY <1>1, XServerAssumption DEF Idle
<1>4. Contains(wins, w) => w \notin Hidden
  BY <1>1, LenProperties, ElementOfSeq DEF TypeOK, Contains
<1> QED
  BY <1>1, <1>2, <1>3, <1>4 DEF IInv, TypeOK, Entries, XTypeOK

LEMMA DamageKeeps ==
    ASSUME IInv, NEW w \in Windows, OnDamage(w)
    PROVE  IInv'
<1> DEFINE e == Head(queue)
<1>1. On("damage", w) /\ UNCHANGED <<server, wins, cache, busy, screen, misled>>
      /\ dirty' = TRUE /\ Ask("subtract", w)
  BY DEF OnDamage
<1>2. e \in Events /\ e.win = w /\ e.type = "damage" /\ Takes(queue, e, queue') /\ cache[w] \in Entries
  BY <1>1, Handling
<1> HIDE DEF e
<1>3. ASSUME w \notin Hidden PROVE Mirrored(w)'
  <2>1. /\ Mirrored(w) /\ e \notin Hiding(w)
        /\ e \notin Adding(w) /\ e \notin Removing(w) /\ e \notin Kind("map", w)
        /\ \A S : e \notin Sizing(w, S)
        /\ UNCHANGED <<order, mapped, size, pixmap, tracked, damaged>>
    BY <1>1, <1>2, <1>3, EventIs DEF IInv, server
  <2> USE <1>1 DEF Takes, Mirrored, Present, Listed, Viewable
  <2>2. Tree(w)'
    BY <1>2, <2>1 DEF Tree
  <2>3. Seen(w)'
    BY <1>2, <2>1 DEF Seen
  <2>4. Unseen(w)'
    BY <1>2, <2>1 DEF Unseen
  <2>5. Sized(w)'
    <3>1. e \notin Kind("configure", w) /\ e \notin Right(w) /\ Right(w)' = Right(w)
      BY <1>2, <2>1, EventIs DEF Right
    <3> QED
      BY <1>2, <2>1, <3>1 DEF Sized
  <2>6. Pictured(w)'
    BY <1>2, <2>1 DEF Pictured
  <2>7. Damaged(w)'
    <3>1. /\ Asked("subtract", w)' /\ (Asked("manage", w) => Asked("manage", w)')
          /\ Asked("release", w)' <=> Asked("release", w)
      BY <1>1, Asks, Handling
    <3> QED
      BY <1>2, <2>1, <3>1 DEF Damaged
  <2>8. Painted(w)'
    BY DEF Painted, OnDamage
  <2> QED
    BY <2>2, <2>3, <2>4, <2>5, <2>6, <2>7, <2>8
<1>4. cache[w].pic \in {NoPic, BadPic} \cup 0 .. pixmap[w] /\ misled \in BOOLEAN
      /\ wins \in Seq(Windows \ Hidden) /\ IsInjective(wins)
  BY <1>1, Handling
<1> QED
  BY <1>1, <1>2, <1>3, <1>4, HandlingKeeps DEF OnDamage

\* add_win, called for an event that adds w.
LEMMA AddKeeps ==
    ASSUME IInv, NEW w \in Windows, NEW t, On(t, w), Head(queue) \in Adding(w),
           AddWin(w), UNCHANGED <<server, screen>>, misled' \in BOOLEAN
    PROVE  IInv'
<1> DEFINE e == Head(queue)
<1>1. XTypeOK /\ TypeOK /\ e \in Events /\ e.win = w /\ Takes(queue, e, queue')
      /\ busy = Idle /\ busy.win # w /\ queue' \in Seq(Events)
      /\ cache[w] \in Entries
      /\ e \in Adding(w)
      /\ (w \notin Hidden => Mirrored(w))
  BY Handling
<1> HIDE DEF e
<1>2. /\ e \notin Removing(w) /\ e \notin Hiding(w) /\ e \notin Kind("map", w)
      /\ e \notin Kind("damage", w) /\ e \notin Kind("configure", w)
      /\ \A S : e \notin Sizing(w, S)
  BY <1>1, EventIs
<1> DEFINE c == [Blank EXCEPT !.size = size[w], !.viewable = Viewable(w)]
<1>3. c \in Entries /\ c.pic = NoPic /\ c.size = size[w] /\ c.viewable = Viewable(w)
  <2>1. Viewable(w) \in BOOLEAN
    BY DEF Viewable
  <2>2. size[w] \in Sizes /\ NoPic \in Int
    BY <1>1 DEF XTypeOK, NoPic
  <2> HIDE DEF Viewable, NoPic, Sizes
  <2> QED
    BY <2>1, <2>2 DEF Entries, Blank
<1> HIDE DEF c
<1>6. /\ UNCHANGED <<wins, dirty, requests, tracked, damaged, order, mapped, size, pixmap, ink, screen>>
      /\ Right(w)' = Right(w) /\ e \notin Right(w)
      /\ \A u : Asked(u, w)' <=> Asked(u, w)
  BY <1>2 DEF AddWin, server, Right, Asked
<1>7. wins' \in Seq(Windows \ Hidden) /\ IsInjective(wins')
      /\ cache[w].pic \in {NoPic, BadPic} \cup 0 .. pixmap[w]
  BY <1>1, <1>6 DEF TypeOK
<1> USE DEF Takes, Mirrored, Present, Listed, Viewable
<1>4. CASE ~Listed(w) /\ Exists(w) /\ w \notin Hidden
  <2>1. busy' = [win |-> w, step |-> "opacity"] /\ cache' = [cache EXCEPT ![w] = c]
    BY <1>4 DEF AddWin, c
  <2>2. cache'[w] = c /\ busy'.win = w /\ Mirrored(w)
    BY <1>1, <1>4, <2>1 DEF TypeOK
  <2>3. Tree(w)'
    BY <1>1, <1>2, <1>4, <1>6, <2>2 DEF Tree
  <2>4. Seen(w)'
    BY <1>1, <1>2, <1>3, <1>4, <1>6, <2>2 DEF Seen
  <2>5. Unseen(w)'
    BY <1>1, <1>2, <1>3, <1>4, <1>6, <2>2 DEF Unseen
  <2>6. Sized(w)'
    BY <1>1, <1>2, <1>3, <1>4, <1>6, <2>2 DEF Sized
  <2>7. Pictured(w)'
    BY <1>3, <2>2 DEF Pictured
  <2>8. Damaged(w)'
    <3>1. ~Asked("release", w)
      BY <1>4, NothingAsked DEF AddWin
    <3> QED
      BY <1>1, <1>2, <1>4, <1>6, <2>2, <3>1 DEF Damaged
  <2>9. Painted(w)'
    BY <1>4, <1>6, <2>2 DEF Painted
  <2>10. Mirrored(w)'
    BY <2>3, <2>4, <2>5, <2>6, <2>7, <2>8, <2>9
  <2> QED
    BY <1>3, <1>4, <1>6, <1>7, <2>1, <2>10, HandlingKeeps
<1>5. CASE ~(~Listed(w) /\ Exists(w) /\ w \notin Hidden)
  <2>1. UNCHANGED <<busy, cache>>
    BY <1>5 DEF AddWin
  <2>2. ASSUME w \notin Hidden PROVE Mirrored(w)'
    <3>1. Listed(w) \/ ~Contains(order, w)
      BY <1>5, <2>2 DEF Exists
    <3>2. Mirrored(w) /\ (Present(w) <=> Listed(w)) /\ (Present(w)' <=> Listed(w))
      BY <1>1, <1>6, <2>1, <2>2
    <3>3. Tree(w)'
      BY <1>1, <1>2, <1>6, <3>1, <3>2 DEF Tree
    <3>4. Seen(w)'
      BY <1>1, <1>2, <1>6, <2>1, <3>1, <3>2 DEF Seen
    <3>5. Unseen(w)'
      BY <1>1, <1>2, <1>6, <2>1, <3>1, <3>2 DEF Unseen
    <3>6. Pictured(w)'
      BY <1>1, <1>2, <1>6, <2>1, <3>2 DEF Pictured
    <3>7. Damaged(w)'
      BY <1>1, <1>2, <1>6, <3>2 DEF Damaged
    <3>8. Painted(w)'
      BY <1>1, <1>2, <1>6, <2>1, <3>2 DEF Painted
    <3>9. Sized(w)'
      BY <1>1, <1>2, <1>6, <2>1, <3>2 DEF Sized
    <3> QED
      BY <3>3, <3>4, <3>5, <3>6, <3>7, <3>8, <3>9
  <2> QED
    BY <1>1, <1>6, <1>7, <2>1, <2>2, HandlingKeeps
<1> QED
  BY <1>4, <1>5

\* The removal, called for an event that takes w away.
LEMMA RemoveKeeps ==
    ASSUME IInv, NEW w \in Windows, NEW t, On(t, w), Head(queue) \in Removing(w),
           RemoveWin(w), UNCHANGED <<server, screen>>, misled' \in BOOLEAN
    PROVE  IInv'
<1> DEFINE e == Head(queue)
<1>1. XTypeOK /\ TypeOK /\ e \in Events /\ e.win = w /\ Takes(queue, e, queue')
      /\ busy = Idle /\ busy.win # w /\ queue' \in Seq(Events) /\ queue \in Seq(Events)
      /\ e \in Removing(w)
      /\ (w \notin Hidden => Mirrored(w))
      /\ wins \in Seq(Windows \ Hidden) /\ IsInjective(wins)
  BY Handling
<1> HIDE DEF e
<1>2. /\ e \in Hiding(w) /\ e \notin Adding(w) /\ e \notin Kind("map", w)
      /\ e \notin Kind("damage", w) /\ e \notin Kind("configure", w)
      /\ \A S : e \notin Sizing(w, S)
  BY <1>1, EventIs
<1>3. /\ wins' \in Seq(Windows \ Hidden) /\ IsInjective(wins') /\ ~Contains(wins', w)
      /\ \A v : v # w => (Contains(wins', v) <=> Contains(wins, v))
  BY <1>1, WithoutIs DEF RemoveWin, Listed
<1>4. UNCHANGED <<order, mapped, size, pixmap, ink, tracked, damaged, screen, busy>>
  BY DEF server, RemoveWin
<1>7. IF Listed(w) THEN Ask("release", w) /\ dirty' = TRUE
      ELSE UNCHANGED <<wins, dirty, cache, requests>>
  BY DEF RemoveWin
<1> USE DEF Takes, Mirrored, Present, Listed, Viewable
<1>5. ASSUME w \notin Hidden PROVE Mirrored(w)'
  <2>1. Some(queue, Removing(w)) /\ Some(queue, Hiding(w))
    BY <1>1, <1>2
  <2>2. ~Present(w)'
    BY <1>1, <1>3, <1>4
  <2>3. Tree(w)'
    BY <1>1, <1>2, <1>4, <1>5, <2>1, <2>2 DEF Tree
  <2>4. Seen(w)'
    BY <1>1, <1>2, <1>4, <1>5, <2>1 DEF Seen
  <2>5. Unseen(w)'
    BY <1>1, <1>2, <1>4, <1>5, <2>2 DEF Unseen
  <2>6. Sized(w)'
    <3>1. Right(w)' = Right(w) /\ e \notin Right(w)
      BY <1>2, <1>4 DEF Right
    <3> QED
      BY <1>1, <1>2, <1>4, <1>5, <2>2, <3>1 DEF Sized
  <2>7. Pictured(w)'
    BY <2>2 DEF Pictured
  <2>8. Damaged(w)'
    <3>1. CASE Listed(w)
      <4>1. Asked("release", w)'
        BY <1>7, <3>1, Asks, Handling
      <4> QED
        BY <1>3, <2>2, <4>1 DEF Damaged
    <3>2. CASE ~Listed(w)
      <4>1. \A u : Asked(u, w)' <=> Asked(u, w)
        BY <1>7, <3>2 DEF Asked
      <4> QED
        BY <1>1, <1>2, <1>3, <1>4, <1>5, <2>2, <4>1 DEF Damaged
    <3> QED
      BY <3>1, <3>2
  <2>9. Painted(w)'
    BY <1>1, <1>2, <1>3, <1>4, <1>5 DEF Painted, RemoveWin
  <2> QED
    BY <2>3, <2>4, <2>5, <2>6, <2>7, <2>8, <2>9
<1>6. Blank \in Entries /\ Blank.pic = NoPic
  BY DEF Blank, Entries, Sizes, NoPic
<1>8. cache' = cache \/ cache' = [cache EXCEPT ![w] = Blank]
  BY DEF RemoveWin
<1> QED
  BY <1>3, <1>4, <1>5, <1>6, <1>7, <1>8, HandlingKeeps

\* What updating the entry of a listed window leaves as it is.
LEMMA UpdateKeeps ==
    ASSUME IInv, NEW w \in Windows, NEW t, On(t, w),
           NEW c \in Entries, c.pic \in {NoPic, BadPic} \cup 0 .. pixmap[w], Update(w, c),
           wins' \in Seq(Windows \ Hidden), IsInjective(wins'),
           \A v : Contains(wins', v) <=> Contains(wins, v), misled' \in BOOLEAN,
           t \in {"map", "unmap", "configure", "circulate", "property"},
           w \notin Hidden => Seen(w)' /\ Unseen(w)' /\ Sized(w)',
           t \in {"map", "unmap"} => c.pic = NoPic,
           c.pic # NoPic => c.pic = cache[w].pic /\ c.size = cache[w].size,
           c.viewable => cache[w].viewable \/ c.pic = NoPic,
           ~c.viewable => ~cache[w].viewable \/ c.pic = NoPic,
           t = "configure" /\ c.pic # NoPic => c.size = Head(queue).size
    PROVE  IInv'
<1> DEFINE e == Head(queue)
<1>1. XTypeOK /\ TypeOK /\ e \in Events /\ e.win = w /\ e.type = t /\ Takes(queue, e, queue')
      /\ busy = Idle /\ busy.win # w /\ queue' \in Seq(Events) /\ queue \in Seq(Events)
      /\ (w \notin Hidden => Mirrored(w))
  BY Handling
<1> HIDE DEF e
<1>2. /\ e \notin Adding(w) /\ e \notin Removing(w) /\ e \notin Kind("damage", w)
  BY <1>1, EventIs
<1>3. UNCHANGED <<server, requests, busy, screen, order, mapped, size, pixmap, ink, tracked, damaged>>
      /\ \A u : Asked(u, w)' <=> Asked(u, w)
  BY DEF server, Update, Asked
<1> USE DEF Takes, Mirrored, Present, Listed, Viewable
<1>4. IF Listed(w) THEN cache' = [cache EXCEPT ![w] = c] /\ cache'[w] = c /\ dirty'
      ELSE cache' = cache /\ dirty' = dirty
  BY <1>1 DEF Update, TypeOK
<1>5. ASSUME w \notin Hidden PROVE Mirrored(w)'
  <2>1. Tree(w)'
    BY <1>1, <1>2, <1>3, <1>5 DEF Tree
  <2>2. Pictured(w)'
    <3> DEFINE old == Kind("map", w) \cup Hiding(w) \cup Sizing(w, Sizes \ {cache[w].size})
    <3>1. SUFFICES ASSUME Listed(w) PROVE Pictured(w)'
      BY <1>1, <1>3 DEF Pictured
    <3>2. SUFFICES ASSUME c.pic # NoPic, c.pic # pixmap[w]
                   PROVE  Some(queue', old)
      BY <1>1, <1>3, <1>4, <1>5, <3>1 DEF Pictured
    <3>3. e \notin Kind("map", w) /\ e \notin Hiding(w) /\ e \notin Sizing(w, Sizes \ {cache[w].size})
      BY <1>1, <3>2, EventIs DEF e
    <3>4. Some(queue, old)
      BY <1>1, <1>5, <3>1, <3>2 DEF Pictured
    <3> QED
      BY <1>1, <3>3, <3>4
  <2>3. Damaged(w)'
    BY <1>1, <1>2, <1>3, <1>5 DEF Damaged
  <2>4. Painted(w)'
    BY <1>1, <1>2, <1>3, <1>4, <1>5 DEF Painted
  <2> QED
    BY <1>5, <2>1, <2>2, <2>3, <2>4
<1> QED
  BY <1>3, <1>4, <1>5, HandlingKeeps

LEMMA OnMapKeeps ==
    ASSUME IInv, NEW w \in Windows, OnMap(w)
    PROVE  IInv'
<1> DEFINE e == Head(queue)
<1> DEFINE c == [cache[w] EXCEPT !.viewable = TRUE, !.pic = NoPic,
                                 !.size = IF Exists(w) THEN size[w] ELSE @]
<1>1. On("map", w) /\ Update(w, c) /\ wins' = wins /\ misled' = misled
  BY DEF OnMap
<1>2. XTypeOK /\ TypeOK /\ e \in Events /\ e.win = w /\ e.type = "map" /\ Takes(queue, e, queue')
      /\ busy = Idle /\ busy.win # w /\ queue' \in Seq(Events) /\ queue \in Seq(Events)
      /\ (w \notin Hidden => Mirrored(w)) /\ cache[w] \in Entries
      /\ wins \in Seq(Windows \ Hidden) /\ IsInjective(wins) /\ misled \in BOOLEAN
  BY <1>1, Handling
<1>3. c \in Entries /\ c.pic = NoPic /\ c.viewable /\ (Exists(w) => c.size = size[w])
  <2>1. size[w] \in Sizes /\ NoPic \in Int
    BY <1>2 DEF XTypeOK, NoPic
  <2> QED
    BY <1>2, <2>1 DEF Entries
<1> HIDE DEF e, c
<1>4. /\ e \in Kind("map", w) /\ e \notin Adding(w) /\ e \notin Removing(w)
      /\ e \notin Hiding(w) /\ e \notin Kind("configure", w) /\ \A S : e \notin Sizing(w, S)
  BY <1>2, EventIs
<1>5. /\ UNCHANGED <<order, away, mapped, size, pixmap, busy>>
      /\ Right(w)' = Right(w) /\ e \notin Right(w)
      /\ IF Listed(w) THEN cache'[w] = c ELSE cache' = cache
  BY <1>1, <1>2, <1>4 DEF server, Update, TypeOK, Right
<1> USE DEF Takes, Mirrored, Present, Listed, Viewable, Exists
<1>6. ASSUME w \notin Hidden PROVE Seen(w)' /\ Unseen(w)' /\ Sized(w)'
  <2>1. Contains(order, w) /\ ~Listed(w) => Some(queue', Adding(w))
    <3>1. SUFFICES ASSUME Contains(order, w), ~Listed(w) PROVE Some(queue', Adding(w))
      OBVIOUS
    <3>2. Lasting(queue', Adding(w), Removing(w))
      BY <1>2, <1>4, <1>6, <3>1 DEF Tree
    <3> QED
      BY <1>2, <3>2, Queues
  <2>5. Some(queue', Adding(w) \cup Hiding(w)) <=> Some(queue', Adding(w)) \/ Some(queue', Hiding(w))
    BY <1>2, Queues
  <2>2. Seen(w)'
    BY <1>1, <1>2, <1>3, <1>4, <1>5, <1>6, <2>1, <2>5 DEF Seen
  <2>3. Unseen(w)'
    BY <1>1, <1>2, <1>3, <1>4, <1>5, <1>6 DEF Unseen
  <2>4. Sized(w)'
    BY <1>1, <1>2, <1>3, <1>4, <1>5, <1>6 DEF Sized
  <2> QED
    BY <2>2, <2>3, <2>4
<1> QED
  BY <1>1, <1>2, <1>3, <1>6, UpdateKeeps

LEMMA OnUnmapKeeps ==
    ASSUME IInv, NEW w \in Windows, OnUnmap(w)
    PROVE  IInv'
<1> DEFINE e == Head(queue)
<1> DEFINE c == [cache[w] EXCEPT !.viewable = FALSE, !.pic = NoPic]
<1>1. On("unmap", w) /\ Update(w, c) /\ wins' = wins /\ misled' = misled
  BY DEF OnUnmap
<1>2. XTypeOK /\ TypeOK /\ e \in Events /\ e.win = w /\ e.type = "unmap" /\ Takes(queue, e, queue')
      /\ busy = Idle /\ busy.win # w /\ queue' \in Seq(Events) /\ queue \in Seq(Events)
      /\ (w \notin Hidden => Mirrored(w)) /\ cache[w] \in Entries
      /\ wins \in Seq(Windows \ Hidden) /\ IsInjective(wins) /\ misled \in BOOLEAN
  BY <1>1, Handling
<1>3. c \in Entries /\ c.pic = NoPic /\ ~c.viewable /\ c.size = cache[w].size
  <2>1. NoPic \in Int
    BY DEF NoPic
  <2> QED
    BY <1>2, <2>1 DEF Entries
<1> HIDE DEF e, c
<1>4. /\ e \in Hiding(w) /\ e \notin Kind("map", w) /\ e \notin Adding(w)
      /\ e \notin Removing(w) /\ e \notin Kind("configure", w) /\ \A S : e \notin Sizing(w, S)
  BY <1>2, EventIs
<1>5. /\ UNCHANGED <<order, mapped, size, pixmap, busy>>
      /\ Right(w)' = Right(w) /\ e \notin Right(w)
      /\ IF Listed(w) THEN cache'[w] = c ELSE cache' = cache
  BY <1>1, <1>2, <1>4 DEF server, Update, TypeOK, Right
<1> USE DEF Takes, Mirrored, Present, Listed, Viewable
<1>6. ASSUME w \notin Hidden PROVE Seen(w)' /\ Unseen(w)' /\ Sized(w)'
  <2>1. Seen(w)'
    BY <1>2, <1>4, <1>5, <1>6 DEF Seen
  <2>2. Unseen(w)'
    BY <1>1, <1>2, <1>3, <1>4, <1>5, <1>6 DEF Unseen
  <2>3. Sized(w)'
    BY <1>1, <1>2, <1>3, <1>4, <1>5, <1>6 DEF Sized
  <2> QED
    BY <2>1, <2>2, <2>3
<1> QED
  BY <1>1, <1>2, <1>3, <1>6, UpdateKeeps

LEMMA RestackIs ==
    ASSUME IInv, NEW w \in Windows, Listed(w), NEW a, a # w,
           Restack(w, a) \/ (wins' = OnTop(wins, w) /\ misled' = misled)
    PROVE  /\ wins' \in Seq(Windows \ Hidden) /\ IsInjective(wins')
           /\ \A v : Contains(wins', v) <=> Contains(wins, v)
           /\ misled' \in BOOLEAN
<1>1. wins \in Seq(Windows \ Hidden) /\ IsInjective(wins) /\ misled \in BOOLEAN
  BY DEF IInv, TypeOK
<1>2. w \in Windows \ Hidden
  BY <1>1, LenProperties, ElementOfSeq DEF Listed, Contains
<1>3. \/ wins' = OnTop(wins, w) \/ wins' = Above(wins, w, NoWin)
      \/ a # NoWin /\ Contains(wins, a) /\ wins' = Above(wins, w, a)
  BY DEF Restack, Listed
<1>4. misled' \in BOOLEAN
  BY <1>1 DEF Restack
<1>5. CASE wins' = OnTop(wins, w)
  BY <1>1, <1>2, <1>4, <1>5, TopIs DEF Listed
<1>6. CASE wins' = Above(wins, w, NoWin)
  BY <1>1, <1>2, <1>4, <1>6, BottomIs DEF Listed
<1>7. CASE a # NoWin /\ Contains(wins, a) /\ wins' = Above(wins, w, a)
  BY <1>1, <1>2, <1>4, <1>7, AboveIs DEF Listed
<1> QED
  BY <1>3, <1>5, <1>6, <1>7

LEMMA OnConfigureKeeps ==
    ASSUME IInv, NEW w \in Windows, OnConfigure(w)
    PROVE  IInv'
<1> DEFINE e == Head(queue)
<1> DEFINE c == [cache[w] EXCEPT !.size = e.size,
                                 !.pic = IF cache[w].size = e.size THEN @ ELSE NoPic]
<1>1. On("configure", w) /\ Update(w, c)
      /\ IF Listed(w) THEN Restack(w, e.above) ELSE wins' = wins /\ misled' = misled
  BY DEF OnConfigure
<1>2. XTypeOK /\ TypeOK /\ e \in Events /\ e.win = w /\ e.type = "configure"
      /\ Takes(queue, e, queue') /\ busy = Idle /\ busy.win # w
      /\ queue' \in Seq(Events) /\ queue \in Seq(Events)
      /\ (w \notin Hidden => Mirrored(w)) /\ cache[w] \in Entries
      /\ cache[w].pic \in {NoPic, BadPic} \cup 0 .. pixmap[w]
      /\ wins \in Seq(Windows \ Hidden) /\ IsInjective(wins) /\ misled \in BOOLEAN
  BY <1>1, Handling
<1>3. e.size \in Sizes /\ e.above # w
  BY <1>2, EventIs, XServerAssumption
<1>4. /\ c \in Entries /\ c.size = e.size /\ c.viewable = cache[w].viewable
      /\ c.pic = IF cache[w].size = e.size THEN cache[w].pic ELSE NoPic
  <2>1. NoPic \in Int
    BY DEF NoPic
  <2> QED
    BY <1>2, <1>3, <2>1 DEF Entries
<1>5. /\ wins' \in Seq(Windows \ Hidden) /\ IsInjective(wins') /\ misled' \in BOOLEAN
      /\ \A v : Contains(wins', v) <=> Contains(wins, v)
  BY <1>1, <1>2, <1>3, RestackIs
<1> HIDE DEF e, c
<1>6. /\ e \notin Hiding(w) /\ e \notin Kind("map", w) /\ e \notin Adding(w)
      /\ e \notin Removing(w) /\ e \in Kind("configure", w)
      /\ \A S : e \in Sizing(w, S) <=> e.size \in S
  BY <1>2, EventIs
<1>7. /\ UNCHANGED <<order, mapped, size, pixmap, busy>>
      /\ IF Listed(w) THEN cache'[w] = c ELSE cache' = cache
  BY <1>1, <1>2 DEF server, Update, TypeOK
<1> USE DEF Takes, Mirrored, Present, Listed, Viewable
<1>8. ASSUME w \notin Hidden PROVE Seen(w)' /\ Unseen(w)' /\ Sized(w)'
  <2>1. Seen(w)'
    BY <1>2, <1>4, <1>5, <1>6, <1>7, <1>8 DEF Seen
  <2>2. Unseen(w)'
    BY <1>2, <1>4, <1>5, <1>6, <1>7, <1>8 DEF Unseen
  <2>3. Sized(w)'
    <3> DEFINE P == Right(w)
    <3>1. P' = P /\ (Contains(order, w) /\ e \in P => e.size = size[w])
      BY <1>6, <1>7 DEF Right
    <3>2. ~Lasting(queue, Kind("configure", w) \ P, P \cup Removing(w))
      BY <1>2, <1>8 DEF Sized
    <3> HIDE DEF P
    <3>3. e \in P \/ Some(queue', P \cup Removing(w))
      BY <1>2, <1>6, <3>2
    <3>4. Some(queue', P \cup Removing(w)) <=> Some(queue', P) \/ Some(queue', Removing(w))
      BY <1>2, Queues
    <3>5. ~Lasting(queue', Kind("configure", w) \ P, P \cup Removing(w))
      BY <1>2, <3>2
    <3>6. Contains(order, w) /\ Listed(w) /\ ~Some(queue', Removing(w)) =>
              cache'[w].size = size[w] \/ Some(queue', P)
      BY <1>4, <1>7, <3>1, <3>3, <3>4
    <3> QED
      BY <1>2, <1>5, <1>7, <3>1, <3>5, <3>6 DEF Sized, P
  <2> QED
    BY <2>1, <2>2, <2>3
<1> QED
  BY <1>1, <1>2, <1>4, <1>5, <1>8, UpdateKeeps DEF e

LEMMA OnCirculateKeeps ==
    ASSUME IInv, NEW w \in Windows, OnCirculate(w)
    PROVE  IInv'
<1> DEFINE e == Head(queue)
<1>1. On("circulate", w) /\ Update(w, cache[w])
      /\ IF ~Listed(w) THEN wins' = wins /\ misled' = misled
         ELSE (wins' = OnTop(wins, w) /\ misled' = misled) \/ Restack(w, NoWin)
  BY DEF OnCirculate
<1>2. XTypeOK /\ TypeOK /\ e \in Events /\ e.win = w /\ e.type = "circulate"
      /\ busy = Idle /\ busy.win # w /\ queue # <<>> /\ queue' = Tail(queue) /\ queue \in Seq(Events)
      /\ (w \notin Hidden => Mirrored(w)) /\ cache[w] \in Entries
      /\ cache[w].pic \in {NoPic, BadPic} \cup 0 .. pixmap[w]
      /\ wins \in Seq(Windows \ Hidden) /\ IsInjective(wins) /\ misled \in BOOLEAN
  BY <1>1, Handling DEF On
<1>3. NoWin # w
  BY XServerAssumption
<1>4. /\ wins' \in Seq(Windows \ Hidden) /\ IsInjective(wins') /\ misled' \in BOOLEAN
      /\ \A v : Contains(wins', v) <=> Contains(wins, v)
  BY <1>1, <1>2, <1>3, RestackIs
<1>5. cache' = cache
  BY <1>1, <1>2 DEF Update, TypeOK
<1>6. ASSUME w \notin Hidden PROVE Mirrored(w)'
  <2>1. Alike(queue, queue', w)
    BY <1>2, AlikeHandled DEF About
  <2>2. Untouched(w)
    BY <1>1, <1>4, <1>5 DEF Untouched, Asked, Update, server
  <2> QED
    BY <1>2, <1>6, <2>1, <2>2, Elsewhere
<1>7. UNCHANGED <<server, requests, busy, screen>>
      /\ (dirty' = dirty \/ dirty' = TRUE)
  BY <1>1 DEF Update
<1> QED
  BY <1>1, <1>2, <1>4, <1>5, <1>6, <1>7, HandlingKeeps

LEMMA OnPropertyKeeps ==
    ASSUME IInv, NEW w \in Windows, OnProperty(w)
    PROVE  IInv'
<1> DEFINE e == Head(queue)
<1> DEFINE c == [cache[w] EXCEPT !.opaque = ReadOpacity(w)]
<1>1. On("property", w) /\ Update(w, c) /\ wins' = wins /\ misled' = misled
  BY DEF OnProperty
<1>2. XTypeOK /\ TypeOK /\ e \in Events /\ e.win = w /\ e.type = "property" /\ Takes(queue, e, queue')
      /\ busy = Idle /\ busy.win # w /\ queue' \in Seq(Events) /\ queue \in Seq(Events)
      /\ (w \notin Hidden => Mirrored(w)) /\ cache[w] \in Entries
      /\ cache[w].pic \in {NoPic, BadPic} \cup 0 .. pixmap[w]
      /\ wins \in Seq(Windows \ Hidden) /\ IsInjective(wins) /\ misled \in BOOLEAN
  BY <1>1, Handling
<1>3. ReadOpacity(w) \in BOOLEAN
  BY <1>2 DEF ReadOpacity, XTypeOK
<1>4. c \in Entries /\ c.pic = cache[w].pic /\ c.viewable = cache[w].viewable /\ c.size = cache[w].size
  BY <1>2, <1>3 DEF Entries
<1> HIDE DEF e, c
<1>5. /\ e \notin Hiding(w) /\ e \notin Kind("map", w) /\ e \notin Adding(w)
      /\ e \notin Removing(w) /\ e \notin Kind("configure", w) /\ \A S : e \notin Sizing(w, S)
  BY <1>2, EventIs
<1>6. /\ UNCHANGED <<order, mapped, size, pixmap, busy>>
      /\ Right(w)' = Right(w) /\ e \notin Right(w)
      /\ IF Listed(w) THEN cache'[w] = c ELSE cache' = cache
  BY <1>1, <1>2, <1>5 DEF server, Update, TypeOK, Right
<1> USE DEF Takes, Mirrored, Present, Listed, Viewable
<1>7. ASSUME w \notin Hidden PROVE Seen(w)' /\ Unseen(w)' /\ Sized(w)'
  <2>1. Seen(w)'
    BY <1>1, <1>2, <1>4, <1>5, <1>6, <1>7 DEF Seen
  <2>2. Unseen(w)'
    BY <1>1, <1>2, <1>4, <1>5, <1>6, <1>7 DEF Unseen
  <2>3. Sized(w)'
    BY <1>1, <1>2, <1>4, <1>5, <1>6, <1>7 DEF Sized
  <2> QED
    BY <2>1, <2>2, <2>3
<1> QED
  BY <1>1, <1>2, <1>4, <1>7, UpdateKeeps

LEMMA HandleKeeps ==
    ASSUME IInv, NEW w \in Windows, HandleEvent(w)
    PROVE  IInv'
<1>0. misled \in BOOLEAN
  BY DEF IInv, TypeOK
<1>1. CASE OnDamage(w)
  BY <1>1, DamageKeeps
<1>2. CASE OnCreate(w)
  <2>1. On("create", w) /\ Head(queue) \in Adding(w)
    BY <1>2, Handling, EventIs DEF OnCreate
  <2> QED
    BY <1>2, <2>1, <1>0, AddKeeps DEF OnCreate
<1>3. CASE OnDestroy(w)
  <2>1. On("destroy", w) /\ Head(queue) \in Removing(w)
    BY <1>3, Handling, EventIs DEF OnDestroy
  <2> QED
    BY <1>3, <2>1, <1>0, RemoveKeeps DEF OnDestroy
<1>4. CASE OnReparent(w)
  <2>1. On("reparent", w) /\ Head(queue) \in Adding(w) \cup Removing(w)
        /\ (Head(queue) \in Adding(w) => Head(queue).root)
        /\ (Head(queue) \in Removing(w) => ~Head(queue).root)
    BY <1>4, Handling, EventIs DEF OnReparent
  <2>2. misled' \in BOOLEAN
    BY <1>0, <1>4 DEF OnReparent
  <2> QED
    BY <1>4, <2>1, <2>2, AddKeeps, RemoveKeeps DEF OnReparent
<1>5. CASE OnMap(w)
  BY <1>5, OnMapKeeps
<1>6. CASE OnUnmap(w)
  BY <1>6, OnUnmapKeeps
<1>7. CASE OnConfigure(w)
  BY <1>7, OnConfigureKeeps
<1>8. CASE OnCirculate(w)
  BY <1>8, OnCirculateKeeps
<1>9. CASE OnProperty(w)
  BY <1>9, OnPropertyKeeps
<1> QED
  BY <1>1, <1>2, <1>3, <1>4, <1>5, <1>6, <1>7, <1>8, <1>9 DEF HandleEvent

-----------------------------------------------------------------------------
(* The rest of add_win, and painting                                       *)

LEMMA GetOpacityKeeps ==
    ASSUME IInv, NEW w \in Windows, GetOpacity(w)
    PROVE  IInv'
<1>1. XTypeOK /\ TypeOK /\ queue' = queue /\ wins' = wins
      /\ busy = [win |-> w, step |-> "opacity"] /\ busy' = [win |-> w, step |-> "append"]
      /\ UNCHANGED <<server, requests, dirty, screen, misled>>
  BY DEF IInv, GetOpacity
<1>2. w \in Windows \ Hidden /\ ~Listed(w)
  BY <1>1 DEF IInv, BusyOK, Idle
<1>3. ReadOpacity(w) \in BOOLEAN
  BY <1>1 DEF ReadOpacity, XTypeOK
<1> DEFINE c == [cache[w] EXCEPT !.opaque = ReadOpacity(w)]
<1>4. cache[w] \in Entries
  BY <1>1 DEF TypeOK, Entries
<1>5. /\ c \in Entries /\ c.pic = cache[w].pic /\ c.viewable = cache[w].viewable
      /\ c.size = cache[w].size
  BY <1>3, <1>4 DEF Entries
<1>6. cache' = [cache EXCEPT ![w] = c]
  BY <1>1 DEF GetOpacity
<1> HIDE DEF c
<1>7. /\ cache' \in [Windows -> Entries] /\ cache'[w] = c
      /\ \A v \in Windows : v # w => cache'[v] = cache[v]
  BY <1>1, <1>5, <1>6 DEF TypeOK, Entries
<1>8. XTypeOK'
  BY <1>1 DEF XTypeOK, server, Exists
<1>9. TypeOK'
  BY <1>1, <1>5, <1>7 DEF TypeOK, Entries, server
<1>10. BusyOK'
  BY <1>1, <1>2 DEF BusyOK, Listed
<1>11. ASSUME NEW v \in Windows \ Hidden, v # w PROVE Mirrored(v)'
  <2>1. Alike(queue, queue', v)
    BY <1>1, AlikeSame
  <2>2. Untouched(v)
    BY <1>1, <1>7, <1>11 DEF Untouched, Asked, server
  <2> QED
    BY <2>1, <2>2, Elsewhere DEF IInv
<1>12. Mirrored(w)'
  <2> USE <1>1, <1>2, <1>5, <1>7 DEF Present, Listed, Viewable, server
  <2>1. Mirrored(w)
    BY DEF IInv
  <2>2. Tree(w)' /\ Damaged(w)'
    BY <2>1 DEF Mirrored, Tree, Damaged, Asked
  <2>3. Seen(w)' /\ Unseen(w)'
    BY <2>1 DEF Mirrored, Seen, Unseen
  <2>4. Sized(w)'
    BY <2>1 DEF Mirrored, Sized, Right
  <2>5. Pictured(w)'
    BY <2>1 DEF Mirrored, Pictured
  <2>6. Painted(w)'
    BY <2>1 DEF Mirrored, Painted
  <2> QED
    BY <2>2, <2>3, <2>4, <2>5, <2>6 DEF Mirrored
<1>13. \A d \in screen' : d.win \in Windows \ Hidden
  BY <1>1 DEF IInv
<1>14. ~dirty' => Answered'
  BY <1>1 DEF IInv, Answered
<1> QED
  BY <1>8, <1>9, <1>10, <1>11, <1>12, <1>13, <1>14 DEF IInv

LEMMA AppendKeeps ==
    ASSUME IInv, NEW w \in Windows, AppendWin(w)
    PROVE  IInv'
<1>1. XTypeOK /\ TypeOK /\ wins' = Append(wins, w)
      /\ busy = [win |-> w, step |-> "append"] /\ busy' = Idle
      /\ UNCHANGED <<server, queue, cache, screen, misled>> /\ dirty' = TRUE
      /\ Ask("manage", w)
  BY DEF IInv, AppendWin
<1>2. w \in Windows \ Hidden /\ ~Listed(w) /\ Mirrored(w)
  BY <1>1 DEF IInv, BusyOK, Idle
<1>3. /\ wins' \in Seq(Windows \ Hidden) /\ IsInjective(wins')
      /\ \A v : Contains(wins', v) <=> Contains(wins, v) \/ v = w
  <2>1. wins' = OnTop(wins, w)
    BY <1>1, <1>2 DEF OnTop, Without, Listed
  <2> QED
    BY <1>1, <1>2, <2>1, TopIs DEF TypeOK
<1>4. /\ requests' \in Seq(Requests)
      /\ \A t, v : Asked(t, v)' <=> Asked(t, v) \/ (t = "manage" /\ v = w)
  BY <1>1, Asks DEF XTypeOK
<1>6. XTypeOK'
  BY <1>1, <1>4 DEF XTypeOK, server, Exists
<1>7. TypeOK'
  BY <1>1, <1>3 DEF TypeOK, server, Idle
<1>8. BusyOK'
  BY <1>1 DEF BusyOK
<1>9. ASSUME NEW v \in Windows \ Hidden, v # w PROVE Mirrored(v)'
  <2>1. Alike(queue, queue', v)
    BY <1>1, AlikeSame
  <2>2. Untouched(v)
    BY <1>1, <1>3, <1>4, <1>9, XServerAssumption DEF Untouched, server, Idle
  <2> QED
    BY <2>1, <2>2, Elsewhere DEF IInv
<1>10. Mirrored(w)'
  <2>1. /\ Present(w) /\ Listed(w)' /\ UNCHANGED <<order, mapped, size, pixmap, cache, queue>>
        /\ UNCHANGED <<tracked, damaged>>
    BY <1>1, <1>3 DEF Present, Listed, server
  <2> USE <1>2, <2>1 DEF Mirrored, Present, Viewable
  <2>2. Tree(w)'
    BY DEF Tree
  <2>3. Seen(w)' /\ Unseen(w)'
    BY DEF Seen, Unseen
  <2>4. Sized(w)'
    BY DEF Sized, Right
  <2>5. Pictured(w)'
    BY <1>1 DEF Pictured
  <2>6. Damaged(w)'
    BY <1>4 DEF Damaged
  <2>7. Painted(w)'
    BY <1>1 DEF Painted
  <2> QED
    BY <2>2, <2>3, <2>4, <2>5, <2>6, <2>7
<1>11. \A d \in screen' : d.win \in Windows \ Hidden
  BY <1>1 DEF IInv
<1> QED
  BY <1>1, <1>6, <1>7, <1>8, <1>9, <1>10, <1>11 DEF IInv

LEMMA BeginKeeps ==
    ASSUME IInv, BeginPaint
    PROVE  IInv'
<1>1. UNCHANGED <<xvars, wins, cache, dirty, screen, misled>>
      /\ busy = Idle /\ busy' = [win |-> NoWin, step |-> "paint"]
  BY DEF BeginPaint
<1>2. XTypeOK' /\ TypeOK' /\ BusyOK'
  BY <1>1 DEF IInv, XTypeOK, TypeOK, BusyOK, xvars, Exists
<1>3. ASSUME NEW v \in Windows \ Hidden PROVE Mirrored(v)'
  <2>1. Alike(queue, queue', v)
    BY <1>1, AlikeSame DEF xvars
  <2>2. Untouched(v)
    BY <1>1 DEF Untouched, Asked, xvars, Idle
  <2> QED
    BY <2>1, <2>2, Elsewhere DEF IInv
<1> QED
  BY <1>1, <1>2, <1>3 DEF IInv, Answered, xvars

LEMMA PaintKeeps ==
    ASSUME IInv, Paint
    PROVE  IInv'
<1>1. XTypeOK /\ TypeOK /\ UNCHANGED <<xvars, wins, misled>>
      /\ busy' = Idle /\ dirty' = FALSE /\ busy.step = "paint" /\ Answered /\ requests' = requests
      /\ screen' = {Drawing(w, Picture(w), cache[w].size) :
                      w \in {x \in ToSet(wins) : cache[x].viewable /\ Picture(x) # BadPic}}
  BY DEF IInv, Paint, xvars
<1>2. busy = [win |-> NoWin, step |-> "paint"]
  BY <1>1 DEF IInv, BusyOK, Idle
<1>3. \A x : x \in ToSet(wins) <=> Listed(x) /\ x \in Windows \ Hidden
  BY <1>1, LenProperties, ElementOfSeq DEF ToSet, Listed, Contains, TypeOK
<1>4. \A w \in Windows : Picture(w) \in {NoPic, BadPic} \cup 0 .. pixmap[w]
  BY <1>1 DEF Picture, TypeOK, XTypeOK
<1>5. ASSUME NEW w \in Windows
      PROVE  /\ cache'[w] \in Entries
             /\ cache'[w].viewable = cache[w].viewable /\ cache'[w].size = cache[w].size
             /\ cache'[w].pic = IF Listed(w) THEN Picture(w) ELSE cache[w].pic
  <2>1. cache'[w] = IF Listed(w) THEN [cache[w] EXCEPT !.pic = Picture(w)] ELSE cache[w]
    BY DEF Paint
  <2>2. cache[w] \in Entries
    BY <1>1 DEF TypeOK, Entries
  <2>3. Picture(w) \in Int
    <3>1. 0 .. pixmap[w] \subseteq Int /\ NoPic \in Int /\ BadPic \in Int
      BY <1>1 DEF XTypeOK, NoPic, BadPic
    <3> QED
      BY <1>4, <3>1
  <2> HIDE DEF Picture, Listed
  <2> QED
    BY <2>1, <2>2, <2>3 DEF Entries
<1>6. XTypeOK'
  BY <1>1 DEF XTypeOK, xvars, Exists
<1>7. TypeOK'
  <2>1. cache' \in [Windows -> Entries]
    <3>1. cache' = [x \in Windows |-> cache'[x]]
      BY DEF Paint
    <3> QED
      BY <1>5, <3>1
  <2> QED
    BY <1>1, <1>4, <1>5, <2>1 DEF TypeOK, Entries, Idle, xvars
<1>8. BusyOK'
  BY <1>1 DEF BusyOK
<1>9. \A d \in screen' : d.win \in Windows \ Hidden
  BY <1>1, <1>3 DEF Drawing
<1>10. ASSUME NEW w \in Windows \ Hidden PROVE Mirrored(w)'
  <2>1. Mirrored(w) /\ busy.win # w /\ busy'.win # w
        /\ UNCHANGED <<order, mapped, size, pixmap, ink, tracked, damaged, queue, wins>>
    BY <1>1, <1>2, XServerAssumption DEF IInv, xvars, Idle
  <2>2. queue' \in Seq(Events) /\ queue' = queue
    BY <1>6, <2>1 DEF XTypeOK
  <2> USE <1>5, <2>1 DEF Mirrored, Present, Listed, Viewable
  <2>3. Tree(w)'
    BY DEF Tree
  <2>4. Seen(w)'
    BY DEF Seen
  <2>5. Unseen(w)'
    BY DEF Unseen
  <2>6. Sized(w)'
    BY DEF Sized, Right
  <2>7. Damaged(w)'
    BY <1>1 DEF Damaged, Asked
  <2>8. Pictured(w)'
    <3> DEFINE old == Kind("map", w) \cup Hiding(w) \cup Sizing(w, Sizes \ {cache[w].size})
    <3>1. SUFFICES ASSUME Listed(w) PROVE Pictured(w)'
      BY DEF Pictured
    <3>2. CASE cache[w].viewable /\ ~Viewable(w) /\ cache[w].pic = NoPic
      <4>1. Some(queue', old)
        BY <2>2, <3>1, <3>2, Queues DEF Unseen
      <4> QED
        BY <3>1, <3>2, <4>1 DEF Pictured
    <3>3. CASE ~(cache[w].viewable /\ ~Viewable(w) /\ cache[w].pic = NoPic)
      BY <3>1, <3>3 DEF Pictured, Picture
    <3> QED
      BY <3>2, <3>3
  <2>9. Painted(w)'
    <3>1. CASE Listed(w) /\ cache[w].viewable /\ Picture(w) # BadPic
      <4>1. {d \in screen' : d.win = w} = {Drawing(w, Picture(w), cache[w].size)}
        BY <1>1, <1>3, <3>1 DEF Drawing
      <4>2. Picture(w) # NoPic
        BY <1>1, <3>1 DEF Picture, NoPic, BadPic, XTypeOK
      <4>3. ink'[w] \in Nat
        BY <1>6 DEF XTypeOK
      <4> QED
        BY <3>1, <4>1, <4>2, <4>3 DEF Painted, Drawing
    <3>2. CASE ~(Listed(w) /\ cache[w].viewable /\ Picture(w) # BadPic)
      <4>1. {d \in screen' : d.win = w} = {}
        BY <1>1, <1>3, <3>2 DEF Drawing
      <4> QED
        BY <3>2, <4>1 DEF Painted
    <3> QED
      BY <3>1, <3>2
  <2> QED
    BY <2>3, <2>4, <2>5, <2>6, <2>7, <2>8, <2>9
<1> QED
  BY <1>1, <1>6, <1>7, <1>8, <1>9, <1>10 DEF IInv, Answered

-----------------------------------------------------------------------------
(* What the server does for rcomp                                          *)

Serves(w) == Serve(w) /\ UNCHANGED own

\* What a request of w does, and that it does nothing to other windows.
LEMMA Serving ==
    ASSUME IInv, NEW w \in Windows, Serves(w)
    PROVE  /\ dirty /\ XTypeOK'
           /\ queue' = queue \/ (Viewable(w) /\ queue' = queue \o <<Event("damage", w)>>)
           /\ \A v \in Windows \ Hidden : v # w => Mirrored(v)'
<1> DEFINE e == Event("damage", w)
<1>1. XTypeOK /\ requests # <<>> /\ requests' = Tail(requests) /\ Head(requests).win = w
      /\ UNCHANGED own /\ UNCHANGED <<order, away, mapped, size, opaque, pixmap, ink, changes>>
  BY DEF IInv, Serves, Serve
<1>2. dirty
  BY <1>1 DEF IInv, Answered
<1>3. /\ requests' \in Seq(Requests) /\ Head(requests).type \in {"manage", "subtract", "release"}
      /\ \A t, v : v # w => (Asked(t, v)' <=> Asked(t, v))
  BY <1>1, Served DEF XTypeOK, Requests
<1>4. e \in Events /\ e.win = w
  BY EventsAre
<1> HIDE DEF e
<1>5. /\ tracked' \in {tracked, tracked \cup {w}, tracked \ {w}}
      /\ damaged' \in {damaged, damaged \cup {w}, damaged \ {w}}
      /\ watched' \in {watched, watched \cup {w}}
      /\ queue' = queue \/ (Viewable(w) /\ queue' = queue \o <<e>>)
  <2>1. CASE Head(requests).type = "manage"
    BY <2>1 DEF Serves, Serve, Manage, Send, e
  <2>2. CASE Head(requests).type = "subtract"
    BY <2>2 DEF Serves, Serve, Subtract
  <2>3. CASE Head(requests).type = "release"
    BY <2>3 DEF Serves, Serve, Release
  <2> QED
    BY <1>3, <2>1, <2>2, <2>3
<1>6. XTypeOK'
  <2>1. queue' \in Seq(Events)
    BY <1>1, <1>4, <1>5, Sent DEF XTypeOK
  <2> QED
    BY <1>1, <1>3, <1>5, <2>1 DEF XTypeOK, Exists
<1>7. ASSUME NEW v \in Windows \ Hidden, v # w PROVE Mirrored(v)'
  <2>1. Alike(queue, queue', v)
    <3>1. e \notin About(v) /\ queue \in Seq(Events)
      BY <1>1, <1>4, <1>7 DEF XTypeOK, About
    <3>2. CASE queue' = queue
      BY <3>2, AlikeSame
    <3>3. CASE queue' = queue \o <<e>>
      BY <1>4, <3>1, <3>3, AlikeSent
    <3> QED
      BY <1>5, <3>2, <3>3
  <2>2. Untouched(v)
    BY <1>1, <1>3, <1>5, <1>7 DEF Untouched, own
  <2> QED
    BY <2>1, <2>2, Elsewhere DEF IInv
<1> QED
  BY <1>2, <1>5, <1>6, <1>7 DEF e

LEMMA ServeKeeps ==
    ASSUME IInv, NEW w \in Windows, Serves(w)
    PROVE  IInv'
<1> DEFINE e == Event("damage", w)
<1>1. XTypeOK /\ TypeOK /\ requests # <<>> /\ requests' = Tail(requests)
      /\ Head(requests).win = w
      /\ UNCHANGED own /\ UNCHANGED <<order, away, mapped, size, opaque, pixmap, ink, changes>>
  BY DEF IInv, Serves, Serve
<1>2. dirty /\ dirty' /\ XTypeOK' /\ \A v \in Windows \ Hidden : v # w => Mirrored(v)'
  BY <1>1, Serving DEF own
<1>3. /\ \A t : Asked(t, w) <=> Asked(t, w)' \/ Head(requests).type = t
      /\ Head(requests).type \in {"manage", "subtract", "release"}
  BY <1>1, Served DEF XTypeOK, Requests
<1>4. e \in Events /\ e.win = w /\ e.type = "damage"
  BY EventsAre
<1>5. queue' = queue \/ queue' = queue \o <<e>>
  BY Serving
<1> HIDE DEF e
<1>6. queue' = queue \/ Adds(queue, e, queue')
  BY <1>1, <1>4, <1>5, Sent DEF XTypeOK
<1>7. ASSUME w \notin Hidden PROVE Mirrored(w)'
  <2>1. /\ Mirrored(w) /\ (Listed(w)' <=> Listed(w)) /\ (Present(w)' <=> Present(w))
        /\ UNCHANGED <<order, mapped, size, pixmap, cache>> /\ Right(w)' = Right(w)
    BY <1>1, <1>7 DEF IInv, Listed, Present, own, Right
  <2>2. /\ e \in Kind("damage", w) /\ e \notin Hiding(w)
        /\ e \notin Adding(w) /\ e \notin Removing(w) /\ e \notin Kind("map", w)
        /\ e \notin Kind("create", w) /\ e \notin Kind("configure", w) /\ e \notin Right(w)
        /\ \A S : e \notin Sizing(w, S)
    BY <1>4, EventIs DEF Right
  <2> USE <1>6, <2>1, <2>2 DEF Adds, Mirrored, Viewable
  <2>3. Tree(w)'
    BY DEF Tree
  <2>4. Seen(w)'
    BY DEF Seen
  <2>5. Unseen(w)'
    BY DEF Unseen
  <2>6. Sized(w)'
    BY DEF Sized
  <2>7. Pictured(w)'
    BY <1>1 DEF Pictured, own
  <2>8. Damaged(w)'
    <3>1. Asked("release", w)' => ~Present(w)'
      BY <1>3 DEF Damaged
    <3>2. CASE Head(requests).type = "manage"
      <4>1. Manage(w)
        BY <3>2 DEF Serves, Serve
      <4>2. Listed(w) /\ ~Some(queue', Removing(w)) => Exists(w)
        BY DEF Tree, Present, Exists
      <4>3. w \in damaged' => Some(queue', Kind("damage", w)) \/ w \in damaged
        <5>1. Viewable(w) => queue' = queue \o <<e>>
          BY <4>1 DEF Manage, Send, e
        <5>2. Viewable(w) => Adds(queue, e, queue')
          BY <1>1, <1>4, <5>1, Sent DEF XTypeOK
        <5>3. ~Viewable(w) => damaged' = damaged
          BY <4>1 DEF Manage
        <5> QED
          BY <5>2, <5>3
      <4>4. w \in damaged => Some(queue', Kind("damage", w)) \/ Asked("subtract", w)' \/ Asked("release", w)'
        BY <1>3, <3>2 DEF Damaged
      <4>5. Exists(w) => w \in tracked'
        BY <4>1 DEF Manage
      <4> QED
        BY <3>1, <4>2, <4>3, <4>4, <4>5 DEF Damaged
    <3>3. CASE Head(requests).type = "subtract"
      <4>1. damaged' = damaged \ {w} /\ tracked' = tracked /\ queue' = queue
        BY <3>3 DEF Serves, Serve, Subtract
      <4> QED
        BY <1>3, <3>1, <3>3, <4>1 DEF Damaged
    <3>4. CASE Head(requests).type = "release"
      <4>1. damaged' = damaged \ {w} /\ ~Listed(w)
        BY <1>3, <3>4 DEF Serves, Serve, Release, Damaged, Present
      <4> QED
        BY <3>1, <4>1 DEF Damaged
    <3> QED
      BY <1>3, <3>2, <3>3, <3>4
  <2>9. Painted(w)'
    BY <1>2 DEF Painted
  <2> QED
    BY <2>3, <2>4, <2>5, <2>6, <2>7, <2>8, <2>9
<1>8. TypeOK' /\ BusyOK'
  BY <1>1 DEF IInv, TypeOK, BusyOK, own, Listed
<1> QED
  BY <1>1, <1>2, <1>7, <1>8 DEF IInv, own

-----------------------------------------------------------------------------
(* The beginning, every step, and what follows                             *)

LEMMA Begins ==
    ASSUME Init PROVE IInv
<1>1. order \in Seq(Windows) /\ IsInjective(order)
  BY XServerAssumption DEF Init, XInit
<1>2. /\ away = {} /\ mapped \in SUBSET (ToSet(order) \ Hidden)
      /\ size = [w \in Windows |-> "small"] /\ opaque = [w \in Windows |-> TRUE]
      /\ pixmap = [w \in Windows |-> 0] /\ ink = [w \in Windows |-> 0]
      /\ tracked = ToSet(order) \ Hidden /\ damaged = {} /\ watched = ToSet(order) \ Hidden
      /\ queue = <<>> /\ requests = <<>> /\ changes = MaxChanges
      /\ cache = [w \in Windows |-> [Blank EXCEPT !.viewable = Viewable(w)]]
      /\ dirty = TRUE /\ busy = Idle /\ screen = {} /\ misled = FALSE
  BY DEF Init, XInit
<1>3. \A x : x \in ToSet(order) <=> Contains(order, x)
  BY DEF ToSet, Contains
<1>4. ToSet(order) \subseteq Windows
  BY <1>1, LenProperties, ElementOfSeq DEF ToSet
<1>5. wins \in Seq(Windows \ Hidden) /\ IsInjective(wins)
  <2>1. PICK m \in Nat : wins \in [1 .. m -> ToSet(order) \ Hidden]
    BY DEF Init, SeqOf
  <2>2. wins \in [1 .. m -> Windows \ Hidden]
    BY <1>4, <2>1
  <2>3. wins \in Seq(Windows \ Hidden)
    BY <2>2, SeqDef
  <2> QED
    BY <2>3 DEF Init
<1>6. \A w \in Windows \ Hidden : Listed(w) <=> Contains(order, w)
  <2> TAKE w \in Windows \ Hidden
  <2>1. InOrder
    BY DEF Init
  <2>2. <<w, w>> \in Stack(wins) <=> <<w, w>> \in Stack(order)
    BY <2>1 DEF InOrder
  <2>3. <<w, w>> \in Stack(wins) <=> Contains(wins, w)
    BY <1>5, StackIs
  <2>4. <<w, w>> \in Stack(order) <=> Contains(order, w)
    BY <1>1, StackIs
  <2> QED
    BY <2>2, <2>3, <2>4 DEF Listed
<1>7. queue \in Seq(Events) /\ \A P, Q : ~Some(queue, P) /\ ~Lasting(queue, P, Q)
                                        /\ Behind(queue, P, Q)
                             /\ \A R : Spaced(queue, P, R, Q)
  BY <1>2 DEF Some, Lasting, Behind, Spaced
<1>8. \A w \in Windows : /\ cache[w] \in Entries /\ cache[w].viewable = Viewable(w)
                         /\ cache[w].size = "small" /\ cache[w].pic = NoPic
  <2> TAKE w \in Windows
  <2>1. Viewable(w) \in BOOLEAN /\ NoPic \in Int
    BY DEF Viewable, NoPic
  <2>2. cache[w] = [Blank EXCEPT !.viewable = Viewable(w)]
    BY <1>2
  <2> HIDE DEF Viewable, NoPic
  <2> QED
    BY <2>1, <2>2 DEF Entries, Blank, Sizes
<1>9. XTypeOK
  <2>1. \A w \in mapped : Contains(order, w) /\ w \in Windows
    BY <1>2, <1>3, <1>4
  <2>2. changes \in Nat
    BY <1>2, XServerAssumption
  <2> QED
    BY <1>1, <1>2, <1>4, <1>7, <2>1, <2>2, EmptySeq DEF XTypeOK, Exists, Sizes
<1>10. TypeOK
  <2>1. cache \in [Windows -> Entries]
    BY <1>2, <1>8
  <2> QED
    BY <1>2, <1>5, <1>8, <2>1 DEF TypeOK, Entries, Idle
<1>11. BusyOK
  BY <1>2 DEF BusyOK
<1>12. ASSUME NEW w \in Windows \ Hidden PROVE Mirrored(w)
  <2>1. busy.win # w
    BY <1>2, XServerAssumption DEF Idle
  <2> USE <1>2, <1>6, <1>7, <1>8, <2>1 DEF Present
  <2>2. Tree(w)
    BY DEF Tree
  <2>3. Seen(w) /\ Unseen(w)
    BY DEF Seen, Unseen, Viewable
  <2>4. Sized(w) /\ Pictured(w)
    BY DEF Sized, Pictured
  <2>5. Damaged(w)
    BY <1>3 DEF Damaged, Asked
  <2>6. Painted(w)
    BY DEF Painted
  <2> QED
    BY <2>2, <2>3, <2>4, <2>5, <2>6 DEF Mirrored
<1> QED
  BY <1>2, <1>9, <1>10, <1>11, <1>12 DEF IInv

LEMMA StepKeeps ==
    ASSUME IInv, [Next]_vars PROVE IInv'
<1>1. CASE Programs /\ UNCHANGED <<wins, cache, dirty, busy, screen, misled>>
  BY <1>1, ProgramsKeep DEF own
<1>2. CASE \E w \in Windows : HandleEvent(w)
  BY <1>2, HandleKeeps
<1>3. CASE \E w \in Windows : GetOpacity(w)
  BY <1>3, GetOpacityKeeps
<1>4. CASE \E w \in Windows : AppendWin(w)
  BY <1>4, AppendKeeps
<1>5. CASE BeginPaint
  BY <1>5, BeginKeeps
<1>6. CASE Paint
  BY <1>6, PaintKeeps
<1>8. CASE Server
  BY <1>8, ServeKeeps DEF Server, Serves, own
<1>7. CASE UNCHANGED vars
  <2>1. XTypeOK' /\ TypeOK' /\ BusyOK'
    BY <1>7 DEF IInv, XTypeOK, TypeOK, BusyOK, vars, xvars, Exists, Listed
  <2>2. ASSUME NEW v \in Windows \ Hidden PROVE Mirrored(v)'
    <3>1. Alike(queue, queue', v) /\ Untouched(v)
      BY <1>7, AlikeSame DEF vars, xvars, Untouched, Asked
    <3> QED
      BY <3>1, Elsewhere DEF IInv
  <2> QED
    BY <1>7, <2>1, <2>2 DEF IInv, vars, xvars, Answered
<1> QED
  BY <1>1, <1>2, <1>3, <1>4, <1>5, <1>6, <1>7, <1>8 DEF Next, Compositor

\* What holds in every reachable state, and why the list and the screen follow
\* the server although its events are handled late.
THEOREM Invariant == Spec => []IInv
<1>1. Init => IInv
  BY Begins
<1>2. IInv /\ [Next]_vars => IInv'
  BY StepKeeps
<1> QED
  BY <1>1, <1>2, PTL DEF Spec

\* The state of rcomp and of the list it keeps has its type in every
\* reachable state: no handler puts a window into the list twice, whatever the
\* order in which other programs' changes and the events about them interleave.
THEOREM TypeCorrect == Spec => []TypeOK
<1>1. IInv => TypeOK
  BY DEF IInv
<1> QED
  BY <1>1, Invariant, PTL

\* Whenever nothing is left to handle or to paint, the screen shows what the
\* server has: the viewable windows, each from its current pixmap, in its
\* current size and with everything that was drawn on it.
THEOREM ScreenIsCurrent == Spec => []UpToDate
<1>1. ASSUME IInv PROVE UpToDate
  <2>1. SUFFICES ASSUME Quiet
                 PROVE  screen = {Drawing(w, pixmap[w], size[w]) :
                                     w \in {x \in Windows \ Hidden : Viewable(x)}}
    BY DEF UpToDate
  <2>2. XTypeOK /\ TypeOK /\ queue = <<>> /\ busy = Idle /\ ~dirty
    BY <1>1, <2>1 DEF IInv, Quiet
  <2>3. \A P, Q : ~Some(queue, P) /\ ~Lasting(queue, P, Q)
    BY <2>2 DEF Some, Lasting
  <2>4. ASSUME NEW w \in Windows \ Hidden
        PROVE  {d \in screen : d.win = w} =
                  IF Viewable(w) THEN {Drawing(w, pixmap[w], size[w])} ELSE {}
    <3>1. Mirrored(w) /\ busy.win # w
      BY <1>1, <2>2, XServerAssumption DEF IInv, Idle
    <3>2. Listed(w) <=> Contains(order, w)
      BY <2>3, <3>1 DEF Mirrored, Tree, Present
    <3>3. Viewable(w) <=> Listed(w) /\ cache[w].viewable
      BY <2>3, <3>1, <3>2 DEF Mirrored, Seen, Unseen, Present, Viewable
    <3>4. Viewable(w) => cache[w].size = size[w]
      BY <2>3, <3>1, <3>2 DEF Mirrored, Sized, Present, Viewable
    <3>5. Listed(w) => cache[w].pic \in {NoPic, pixmap[w]}
      BY <2>3, <3>1 DEF Mirrored, Pictured, Present
    <3>6. pixmap[w] # NoPic /\ pixmap[w] # BadPic /\ NoPic # BadPic
      BY <2>2 DEF XTypeOK, NoPic, BadPic
    <3>7. CASE Viewable(w)
      <4>1. cache[w].pic # BadPic
        BY <3>3, <3>5, <3>6, <3>7
      <4>2. cache[w].pic # NoPic
        BY <2>2, <3>1, <3>3, <3>7, <4>1 DEF Mirrored, Painted
      <4>3. {d \in screen : d.win = w} =
               {[win |-> w, pic |-> cache[w].pic, size |-> cache[w].size, ink |-> ink[w]]}
        BY <2>2, <2>3, <3>1, <3>3, <3>7, <4>1 DEF Mirrored, Painted
      <4> QED
        BY <3>3, <3>4, <3>5, <3>7, <4>2, <4>3 DEF Drawing
    <3>8. CASE ~Viewable(w)
      BY <2>2, <3>1, <3>3, <3>8 DEF Mirrored, Painted
    <3> QED
      BY <3>7, <3>8
  <2>5. \A d \in screen : d.win \in Windows \ Hidden
    BY <1>1 DEF IInv
  <2>6. \A w : Drawing(w, pixmap[w], size[w]).win = w
    BY DEF Drawing
  <2> HIDE DEF Drawing
  <2>7. ASSUME NEW d \in screen
        PROVE  \E w \in {x \in Windows \ Hidden : Viewable(x)} : d = Drawing(w, pixmap[w], size[w])
    <3>1. d.win \in Windows \ Hidden /\ d \in {x \in screen : x.win = d.win}
      BY <2>5
    <3> QED
      BY <2>4, <3>1
  <2>8. ASSUME NEW w \in Windows \ Hidden, Viewable(w)
        PROVE  Drawing(w, pixmap[w], size[w]) \in screen
    BY <2>4, <2>8
  <2> QED
    BY <2>7, <2>8
<1> QED
  BY <1>1, Invariant, PTL

-----------------------------------------------------------------------------
(* The order: what events make of a stack                                  *)

Stacks == SUBSET (Windows \X Windows)

LEMMA SamePairs ==
    ASSUME NEW R \in Stacks, NEW T \in Stacks,
           \A x, y \in Windows : <<x, y>> \in R <=> <<x, y>> \in T
    PROVE  R = T
BY DEF Stacks

LEMMA PlacesAre ==
    ASSUME NEW R \in Stacks, NEW w \in Windows
    PROVE  /\ Out(R, w) \in Stacks /\ OverAll(R, w) \in Stacks /\ UnderAll(R, w) \in Stacks
           /\ \A x, y : <<x, y>> \in Out(R, w) <=> <<x, y>> \in R /\ x # w /\ y # w
           /\ \A x, y : <<x, y>> \in OverAll(R, w) <=>
                  \/ <<x, y>> \in R /\ x # w /\ y # w
                  \/ y = w /\ (x = w \/ <<x, x>> \in R)
           /\ \A x, y : <<x, y>> \in UnderAll(R, w) <=>
                  \/ <<x, y>> \in R /\ x # w /\ y # w
                  \/ x = w /\ (y = w \/ <<y, y>> \in R)
<1>1. \A x, y : <<x, y>> \in R => x \in Windows /\ y \in Windows
  BY DEF Stacks
<1>2. Out(R, w) \in Stacks /\ \A x, y : <<x, y>> \in Out(R, w) <=> <<x, y>> \in R /\ x # w /\ y # w
  BY DEF Out, Stacks
<1>3. OverAll(R, w) \in Stacks /\ UnderAll(R, w) \in Stacks
  <2>1. Out(R, w) \subseteq Windows \X Windows
    BY <1>2 DEF Stacks
  <2>2. OverAll(R, w) \subseteq Windows \X Windows
    <3> SUFFICES ASSUME NEW p \in OverAll(R, w) PROVE p \in Windows \X Windows
      OBVIOUS
    <3>1. CASE p \in Out(R, w)
      BY <2>1, <3>1
    <3>2. CASE p \notin Out(R, w)
      <4>1. \E x \in {w} \cup {y \in Windows : <<y, y>> \in R} : p = <<x, w>>
        BY <3>2 DEF OverAll
      <4> QED
        BY <4>1
    <3> QED
      BY <3>1, <3>2
  <2>3. UnderAll(R, w) \subseteq Windows \X Windows
    <3> SUFFICES ASSUME NEW p \in UnderAll(R, w) PROVE p \in Windows \X Windows
      OBVIOUS
    <3>1. CASE p \in Out(R, w)
      BY <2>1, <3>1
    <3>2. CASE p \notin Out(R, w)
      <4>1. \E x \in {w} \cup {y \in Windows : <<y, y>> \in R} : p = <<w, x>>
        BY <3>2 DEF UnderAll
      <4> QED
        BY <4>1
    <3> QED
      BY <3>1, <3>2
  <2> QED
    BY <2>2, <2>3 DEF Stacks
<1>4. ASSUME NEW x, NEW y
      PROVE  <<x, y>> \in OverAll(R, w) <=>
                 <<x, y>> \in Out(R, w) \/ (y = w /\ (x = w \/ <<x, x>> \in R))
  BY <1>1 DEF OverAll
<1>5. ASSUME NEW x, NEW y
      PROVE  <<x, y>> \in UnderAll(R, w) <=>
                 <<x, y>> \in Out(R, w) \/ (x = w /\ (y = w \/ <<y, y>> \in R))
  BY <1>1 DEF UnderAll
<1> QED
  BY <1>2, <1>3, <1>4, <1>5

LEMMA OverIs ==
    ASSUME NEW R \in Stacks, NEW w \in Windows, NEW a
    PROVE  /\ Over(R, w, a) \in Stacks
           /\ \A x, y : <<x, y>> \in Over(R, w, a) <=>
                  \/ <<x, y>> \in R /\ x # w /\ y # w
                  \/ y = w /\ (x = w \/ <<x, a>> \in R)
                  \/ x = w /\ y # w /\ y # a /\ <<a, y>> \in R
<1>1. \A x, y : <<x, y>> \in R => x \in Windows /\ y \in Windows
  BY DEF Stacks
<1>2. Out(R, w) \in Stacks /\ \A x, y : <<x, y>> \in Out(R, w) <=> <<x, y>> \in R /\ x # w /\ y # w
  BY PlacesAre
<1>3. Over(R, w, a) \in Stacks
  <2>1. SUFFICES ASSUME NEW p \in Over(R, w, a), p \notin Out(R, w) PROVE p \in Windows \X Windows
    BY <1>2 DEF Stacks
  <2>2. \/ \E x \in {w} \cup {y \in Windows : <<y, a>> \in R} : p = <<x, w>>
        \/ \E x \in {y \in Windows \ {a, w} : <<a, y>> \in R} : p = <<w, x>>
    BY <2>1 DEF Over
  <2>3. CASE \E x \in {w} \cup {y \in Windows : <<y, a>> \in R} : p = <<x, w>>
    BY <2>3
  <2>4. CASE \E x \in {y \in Windows \ {a, w} : <<a, y>> \in R} : p = <<w, x>>
    BY <2>4
  <2> QED
    BY <2>2, <2>3, <2>4
<1>4. ASSUME NEW x, NEW y
      PROVE  <<x, y>> \in Over(R, w, a) <=>
                 \/ <<x, y>> \in Out(R, w)
                 \/ y = w /\ (x = w \/ <<x, a>> \in R)
                 \/ x = w /\ y # w /\ y # a /\ <<a, y>> \in R
  BY <1>1 DEF Over
<1> QED
  BY <1>2, <1>3, <1>4

\* What becomes of a stack, event by event.
LEMMA LeadsNowhere ==
    ASSUME NEW q, q = <<>>, NEW R \in Stacks, NEW T PROVE Leads(q, R, T) <=> R = T
<1>1. Len(q) = 0
  OBVIOUS
<1>2. Leads(q, R, T) => R = T
  BY <1>1 DEF Leads
<1>3. ASSUME R = T PROVE Leads(q, R, T)
  <2> DEFINE past == [i \in 1 .. Len(q) + 1 |-> R]
  <2>1. past \in [1 .. Len(q) + 1 -> SUBSET (Windows \X Windows)]
    BY DEF Stacks
  <2>2. past[1] = R /\ past[Len(q) + 1] = T /\ 1 .. Len(q) = {}
    BY <1>1, <1>3
  <2> HIDE DEF past
  <2> QED
    BY <2>1, <2>2 DEF Leads
<1> QED
  BY <1>2, <1>3

LEMMA LeadsSent ==
    ASSUME NEW q \in Seq(Events), NEW R, NEW T, Leads(q, R, T),
           NEW e \in Events, NEW U \in Stacks, Replays(T, e, U)
    PROVE  Leads(q \o <<e>>, R, U)
<1>1. PICK past \in [1 .. Len(q) + 1 -> SUBSET (Windows \X Windows)] :
         /\ past[1] = R /\ past[Len(q) + 1] = T
         /\ \A i \in 1 .. Len(q) : Replays(past[i], q[i], past[i + 1])
  BY DEF Leads
<1> DEFINE r == q \o <<e>>
<1>2. r = Append(q, e)
  BY AppendIsConcat
<1>3. /\ r \in Seq(Events) /\ Len(q) \in Nat /\ Len(r) = Len(q) + 1 /\ r[Len(q) + 1] = e
      /\ \A i \in 1 .. Len(q) : r[i] = q[i]
  BY <1>2, AppendProperties, LenProperties
<1> HIDE DEF r
<1> DEFINE next == [i \in 1 .. Len(r) + 1 |-> IF i = Len(q) + 2 THEN U ELSE past[i]]
<1>4. next \in [1 .. Len(r) + 1 -> SUBSET (Windows \X Windows)]
  BY <1>1, <1>3 DEF Stacks
<1>5. next[1] = R /\ next[Len(r) + 1] = U
  BY <1>1, <1>3
<1>6. ASSUME NEW i \in 1 .. Len(r) PROVE Replays(next[i], r[i], next[i + 1])
  <2>1. CASE i = Len(q) + 1
    <3>1. next[i] = T /\ r[i] = e /\ next[i + 1] = U
      BY <1>1, <1>3, <2>1
    <3> QED
      BY <3>1
  <2>2. CASE i # Len(q) + 1
    <3>1. i \in 1 .. Len(q) /\ next[i] = past[i] /\ r[i] = q[i] /\ next[i + 1] = past[i + 1]
      BY <1>1, <1>3, <2>2
    <3> QED
      BY <1>1, <3>1
  <2> QED
    BY <2>1, <2>2
<1> HIDE DEF next
<1>7. Leads(r, R, U)
  BY <1>4, <1>5, <1>6 DEF Leads
<1> QED
  BY <1>7 DEF r

LEMMA LeadsOn ==
    ASSUME NEW q \in Seq(Events), q # <<>>, NEW R, NEW T, Leads(q, R, T)
    PROVE  \E S \in Stacks : Replays(R, Head(q), S) /\ Leads(Tail(q), S, T)
<1>1. PICK past \in [1 .. Len(q) + 1 -> SUBSET (Windows \X Windows)] :
         /\ past[1] = R /\ past[Len(q) + 1] = T
         /\ \A i \in 1 .. Len(q) : Replays(past[i], q[i], past[i + 1])
  BY DEF Leads
<1> DEFINE r == Tail(q)
<1>2. /\ r \in Seq(Events) /\ Len(q) \in Nat \ {0} /\ Len(r) = Len(q) - 1 /\ q[1] = Head(q)
      /\ \A i \in 1 .. Len(r) : r[i] = q[i + 1]
  BY Shorter, HeadTailProperties, LenProperties
<1> HIDE DEF r
<1>3. past[2] \in Stacks /\ Replays(R, Head(q), past[2])
  <2>1. 1 \in 1 .. Len(q) /\ 2 \in 1 .. Len(q) + 1 /\ 1 + 1 = 2
    BY <1>2
  <2> QED
    BY <1>1, <1>2, <2>1 DEF Stacks
<1> DEFINE next == [i \in 1 .. Len(r) + 1 |-> past[i + 1]]
<1>4. next \in [1 .. Len(r) + 1 -> SUBSET (Windows \X Windows)]
  BY <1>1, <1>2
<1>5. next[1] = past[2] /\ next[Len(r) + 1] = T
  BY <1>1, <1>2
<1>6. ASSUME NEW i \in 1 .. Len(r) PROVE Replays(next[i], r[i], next[i + 1])
  <2>1. i + 1 \in 1 .. Len(q) /\ next[i] = past[i + 1] /\ r[i] = q[i + 1] /\ next[i + 1] = past[i + 2]
    BY <1>1, <1>2
  <2>2. Replays(past[i + 1], q[i + 1], past[(i + 1) + 1])
    BY <1>1, <2>1
  <2>3. (i + 1) + 1 = i + 2
    BY <1>2
  <2> QED
    BY <2>1, <2>2, <2>3
<1> HIDE DEF next
<1>7. Leads(r, past[2], T)
  BY <1>4, <1>5, <1>6 DEF Leads
<1> QED
  BY <1>3, <1>7 DEF r

\* What the programs do to the order is what the events they cause say of it.
LEMMA StackTyped ==
    ASSUME NEW s \in Seq(Windows) PROVE Stack(s) \in Stacks
BY StackIs DEF Stacks

LEMMA TopReplays ==
    ASSUME NEW s \in Seq(Windows), IsInjective(s), NEW w \in Windows, NEW e \in Events, e.win = w,
           e \in Adding(w) \/ (e.type = "circulate" /\ e.top)
    PROVE  Replays(Stack(s), e, Stack(OnTop(s, w)))
<1>1. \A x : <<x, x>> \in Stack(s) <=> Contains(s, x)
  BY StackIs
<1>2. OnTop(s, w) \in Seq(Windows) /\ \A x, y : <<x, y>> \in Stack(OnTop(s, w)) <=>
           \/ <<x, y>> \in Stack(s) /\ x # w /\ y # w
           \/ y = w /\ (x = w \/ Contains(s, x))
  BY TopIs
<1>3. OverAll(Stack(s), w) \in Stacks /\ \A x, y : <<x, y>> \in OverAll(Stack(s), w) <=>
           \/ <<x, y>> \in Stack(s) /\ x # w /\ y # w
           \/ y = w /\ (x = w \/ <<x, x>> \in Stack(s))
  BY StackTyped, PlacesAre
<1>4. Stack(OnTop(s, w)) \in Stacks
  BY <1>2, StackTyped
<1>5. ASSUME NEW x \in Windows, NEW y \in Windows
      PROVE  <<x, y>> \in Stack(OnTop(s, w)) <=> <<x, y>> \in OverAll(Stack(s), w)
  BY <1>1, <1>2, <1>3
<1>6. Stack(OnTop(s, w)) = OverAll(Stack(s), w)
  BY <1>3, <1>4, <1>5, SamePairs
<1> QED
  BY <1>6 DEF Replays

LEMMA BottomReplays ==
    ASSUME NEW s \in Seq(Windows), IsInjective(s), NEW w \in Windows, NEW e \in Events, e.win = w,
           e.type = "circulate", ~e.top
    PROVE  Replays(Stack(s), e, Stack(Above(s, w, NoWin)))
<1> DEFINE t == Above(s, w, NoWin)
<1>1. \A x : <<x, x>> \in Stack(s) <=> Contains(s, x)
  BY StackIs
<1>2. t \in Seq(Windows) /\ \A x, y : <<x, y>> \in Stack(t) <=>
           \/ <<x, y>> \in Stack(s) /\ x # w /\ y # w
           \/ x = w /\ (y = w \/ Contains(s, y))
  BY BottomIs
<1>3. UnderAll(Stack(s), w) \in Stacks /\ \A x, y : <<x, y>> \in UnderAll(Stack(s), w) <=>
           \/ <<x, y>> \in Stack(s) /\ x # w /\ y # w
           \/ x = w /\ (y = w \/ <<y, y>> \in Stack(s))
  BY StackTyped, PlacesAre
<1> HIDE DEF t
<1>4. Stack(t) \in Stacks
  BY <1>2, StackTyped
<1>5. ASSUME NEW x \in Windows, NEW y \in Windows
      PROVE  <<x, y>> \in Stack(t) <=> <<x, y>> \in UnderAll(Stack(s), w)
  BY <1>1, <1>2, <1>3
<1>6. Stack(t) = UnderAll(Stack(s), w)
  BY <1>3, <1>4, <1>5, SamePairs
<1> QED
  BY <1>6 DEF Replays, t

LEMMA OutReplays ==
    ASSUME NEW s \in Seq(Windows), IsInjective(s), NEW w \in Windows, NEW e \in Events, e.win = w,
           e \in Removing(w)
    PROVE  Replays(Stack(s), e, Stack(Without(s, w)))
<1>1. Without(s, w) \in Seq(Windows) /\ \A x, y : <<x, y>> \in Stack(Without(s, w)) <=>
           <<x, y>> \in Stack(s) /\ x # w /\ y # w
  BY WithoutIs
<1>2. Out(Stack(s), w) \in Stacks /\ \A x, y : <<x, y>> \in Out(Stack(s), w) <=>
           <<x, y>> \in Stack(s) /\ x # w /\ y # w
  BY StackTyped, PlacesAre
<1>3. Stack(Without(s, w)) = Out(Stack(s), w)
  BY <1>1, <1>2, StackTyped, SamePairs
<1> QED
  BY <1>3 DEF Replays

\* Wherever w went in an order that is otherwise the same, naming the window
\* below it says so.
LEMMA ConfigureReplays ==
    ASSUME NEW s \in Seq(Windows), IsInjective(s), NEW w \in Windows,
           NEW t \in Seq(Windows), IsInjective(t), Contains(t, w),
           \A x : Contains(t, x) <=> Contains(s, x),
           \A x, y : x # w /\ y # w => (<<x, y>> \in Stack(t) <=> <<x, y>> \in Stack(s)),
           NEW e \in Events, e.win = w, e.type = "configure", e.above = Beneath(t, w)
    PROVE  Replays(Stack(s), e, Stack(t))
<1> DEFINE b == Beneath(t, w)
<1> DEFINE R == Stack(s)
<1> DEFINE T == Stack(t)
<1>1. b \in Windows \cup {NoWin} /\ b # w
  BY BeneathIs, XServerAssumption
<1>2. b = NoWin => /\ \A x : <<x, w>> \in T <=> x = w
                   /\ \A y : <<w, y>> \in T <=> Contains(t, y)
  BY BeneathIs, XServerAssumption
<1>3. b # NoWin => /\ Contains(t, b)
                   /\ \A x : <<x, w>> \in T <=> x = w \/ <<x, b>> \in T
                   /\ \A y : <<w, y>> \in T <=> y # b /\ <<b, y>> \in T
  BY BeneathIs, XServerAssumption
<1>4. R \in Stacks /\ T \in Stacks
  BY StackTyped
<1>5. \A x : (<<x, x>> \in R <=> Contains(s, x)) /\ (<<x, x>> \in T <=> Contains(t, x))
  BY StackIs
<1> HIDE DEF b, R, T
<1>6. \A x, y : x # w /\ y # w => (<<x, y>> \in T <=> <<x, y>> \in R)
  BY DEF R, T
<1>7. CASE b = NoWin
  <2>1. UnderAll(R, w) \in Stacks /\ \A x, y : <<x, y>> \in UnderAll(R, w) <=>
           \/ <<x, y>> \in R /\ x # w /\ y # w
           \/ x = w /\ (y = w \/ <<y, y>> \in R)
    BY <1>4, PlacesAre
  <2>2. ASSUME NEW x \in Windows, NEW y \in Windows
        PROVE  <<x, y>> \in T <=> <<x, y>> \in UnderAll(R, w)
    BY <1>2, <1>5, <1>6, <1>7, <2>1
  <2>3. T = UnderAll(R, w)
    BY <1>4, <2>1, <2>2, SamePairs
  <2> QED
    BY <1>7, <2>3 DEF Replays, b, R, T
<1>8. CASE b # NoWin
  <2>1. Over(R, w, b) \in Stacks /\ \A x, y : <<x, y>> \in Over(R, w, b) <=>
           \/ <<x, y>> \in R /\ x # w /\ y # w
           \/ y = w /\ (x = w \/ <<x, b>> \in R)
           \/ x = w /\ y # w /\ y # b /\ <<b, y>> \in R
    BY <1>4, OverIs
  <2>2. <<w, w>> \in T
    BY <1>5
  <2>3. <<w, b>> \notin T
    BY <1>3, <1>8
  <2>4. ASSUME NEW x \in Windows, NEW y \in Windows
        PROVE  <<x, y>> \in T <=> <<x, y>> \in Over(R, w, b)
    <3>1. CASE x # w /\ y # w
      BY <1>6, <2>1, <3>1
    <3>2. CASE y = w /\ x # w
      <4>1. <<x, w>> \in T <=> <<x, b>> \in R
        BY <1>1, <1>3, <1>6, <1>8, <3>2
      <4> QED
        BY <2>1, <3>2, <4>1
    <3>3. CASE x = w /\ y # w
      <4>1. <<w, y>> \in T <=> y # b /\ <<b, y>> \in R
        BY <1>1, <1>3, <1>6, <1>8, <3>3
      <4> QED
        BY <2>1, <3>3, <4>1
    <3>4. CASE x = w /\ y = w
      BY <2>1, <2>2, <3>4
    <3> QED
      BY <3>1, <3>2, <3>3, <3>4
  <2>5. T = Over(R, w, b)
    BY <1>4, <2>1, <2>4, SamePairs
  <2> QED
    BY <1>8, <2>5 DEF Replays, b, R, T
<1> QED
  BY <1>7, <1>8

\* What q, which leads to T, and r, which leads to U, begin with is the same.
Follows(q, T, r, U) == \A R \in Stacks : Leads(q, R, T) => Leads(r, R, U)

LEMMA FollowsSent ==
    ASSUME NEW q \in Seq(Events), NEW T, NEW e \in Events, NEW U \in Stacks, Replays(T, e, U)
    PROVE  Follows(q, T, q \o <<e>>, U)
BY LeadsSent DEF Follows

LEMMA FollowsTwice ==
    ASSUME NEW q, NEW T, NEW m, NEW M, NEW r, NEW U, Follows(q, T, m, M), Follows(m, M, r, U)
    PROVE  Follows(q, T, r, U)
BY DEF Follows

LEMMA Neutral ==
    ASSUME NEW R, NEW e, e.type \in {"map", "unmap", "damage", "property"}
    PROVE  Replays(R, e, R)
BY DEF Replays

\* It is enough to follow the queue and the order of the server while rcomp's
\* own state stays as it is.
LEMMA StillReplayed ==
    ASSUME Replayed, UNCHANGED <<wins, busy, misled>>,
           Follows(queue, Stack(order), queue', Stack(order'))
    PROVE  Replayed'
<1>1. PICK R \in Stacks : Fits(R) /\ Leads(queue, R, Stack(order))
  BY DEF Replayed, Stacks
<1>2. Fits(R)'
  BY <1>1 DEF Fits, Present, Listed
<1>3. Leads(queue', R, Stack(order'))
  BY <1>1 DEF Follows
<1>4. R \in SUBSET (Windows \X Windows)
  BY DEF Stacks
<1> QED
  BY <1>2, <1>3, <1>4 DEF Replayed

\* A step that leaves the order alone and sends nothing that says otherwise.
LEMMA SilentReplays ==
    ASSUME IInv, Replayed, UNCHANGED <<wins, busy, misled, order>>,
           \/ queue' = queue
           \/ \E e \in Events : /\ e.type \in {"map", "unmap", "damage", "property"}
                                /\ queue' = queue \o <<e>>
    PROVE  Replayed'
<1>1. queue \in Seq(Events) /\ Stack(order) \in Stacks
  BY StackTyped DEF IInv, XTypeOK
<1>2. Follows(queue, Stack(order), queue', Stack(order))
  <2>1. CASE queue' = queue
    BY <2>1 DEF Follows
  <2>2. CASE queue' # queue
    <3>1. PICK e \in Events : /\ e.type \in {"map", "unmap", "damage", "property"}
                              /\ queue' = queue \o <<e>>
      BY <2>2
    <3>2. Replays(Stack(order), e, Stack(order))
      BY <3>1, Neutral
    <3> QED
      BY <1>1, <3>1, <3>2, FollowsSent
  <2> QED
    BY <2>1, <2>2
<1>3. Stack(order') = Stack(order)
  OBVIOUS
<1> QED
  BY <1>2, <1>3, StillReplayed

\* A step that changes the order and says so.
LEMMA SaidReplays ==
    ASSUME IInv, Replayed, UNCHANGED <<wins, busy, misled>>, order' \in Seq(Windows),
           NEW e \in Events, queue' = queue \o <<e>>, Replays(Stack(order), e, Stack(order'))
    PROVE  Replayed'
<1>1. queue \in Seq(Events) /\ Stack(order') \in Stacks
  BY StackTyped DEF IInv, XTypeOK
<1>2. Follows(queue, Stack(order), queue', Stack(order'))
  BY <1>1, FollowsSent
<1> QED
  BY <1>2, StillReplayed

LEMMA CreateReplays ==
    ASSUME IInv, Replayed, NEW w \in Windows, CreateWindow(w), UNCHANGED own
    PROVE  Replayed'
<1> DEFINE e == Event("create", w)
<1>1. order \in Seq(Windows) /\ IsInjective(order)
  BY DEF IInv, XTypeOK
<1>2. order' = OnTop(order, w)
  BY DEF CreateWindow, Exists, OnTop, Without
<1>3. e \in Events /\ e.type = "create" /\ e.win = w
  BY EventsAre
<1>4. queue' = queue \o <<e>>
  BY DEF CreateWindow, Send
<1> HIDE DEF e
<1>5. e \in Adding(w)
  BY <1>3, EventIs
<1>6. Replays(Stack(order), e, Stack(order')) /\ order' \in Seq(Windows)
  BY <1>1, <1>2, <1>3, <1>5, TopReplays, TopIs
<1> QED
  BY <1>3, <1>4, <1>6, SaidReplays DEF own

\* A window that leaves the order is unmapped before, if need be.
LEMMA LeaveReplays ==
    ASSUME IInv, Replayed, UNCHANGED own, NEW w \in Windows, order' = Without(order, w),
           NEW u \in Events, u.type = "unmap", NEW m, m = queue \o <<u>> \/ m = queue,
           NEW e \in Events, e \in Removing(w), queue' = m \o <<e>>
    PROVE  Replayed'
<1>1. queue \in Seq(Events) /\ order \in Seq(Windows) /\ IsInjective(order)
  BY DEF IInv, XTypeOK
<1>2. Stack(order) \in Stacks /\ Stack(order') \in Stacks
  BY <1>1, StackTyped, WithoutIs
<1>3. m \in Seq(Events) /\ Follows(queue, Stack(order), m, Stack(order))
  <2>1. CASE m = queue
    BY <1>1, <2>1 DEF Follows
  <2>2. CASE m = queue \o <<u>>
    BY <1>1, <1>2, <2>2, Sent, Neutral, FollowsSent
  <2> QED
    BY <2>1, <2>2
<1>4. e.win = w
  BY EventIs
<1>5. Replays(Stack(order), e, Stack(order'))
  BY <1>1, <1>4, OutReplays
<1>6. Follows(m, Stack(order), queue', Stack(order'))
  BY <1>2, <1>3, <1>5, FollowsSent
<1>7. Follows(queue, Stack(order), queue', Stack(order'))
  BY <1>3, <1>6, FollowsTwice
<1> QED
  BY <1>7, StillReplayed DEF own

LEMMA DestroyReplays ==
    ASSUME IInv, Replayed, NEW w \in Windows, DestroyWindow(w), UNCHANGED own
    PROVE  Replayed'
<1> DEFINE u == Event("unmap", w)
<1> DEFINE e == Event("destroy", w)
<1> DEFINE m == IF Viewable(w) THEN queue \o <<u>> ELSE queue
<1>1. XTypeOK /\ order' = Without(order, w)
  BY DEF IInv, DestroyWindow
<1>2. /\ u \in Events /\ u.type = "unmap" /\ u.win = w
      /\ e \in Events /\ e.type = "destroy" /\ e.win = w
  BY EventsAre
<1>3. queue' = IF Contains(order, w) THEN m \o <<e>> ELSE queue
  BY <1>1, DestroySends
<1>4. m = queue \o <<u>> \/ m = queue
  OBVIOUS
<1> HIDE DEF u, e, m
<1>5. e \in Removing(w)
  BY <1>2, EventIs
<1>6. CASE Contains(order, w)
  BY <1>1, <1>2, <1>3, <1>4, <1>5, <1>6, LeaveReplays
<1>7. CASE ~Contains(order, w)
  BY <1>1, <1>3, <1>7, SilentReplays DEF own, Without
<1> QED
  BY <1>6, <1>7

LEMMA FrameReplays ==
    ASSUME IInv, Replayed, NEW w \in Windows, ReparentWindow(w, FALSE), UNCHANGED own
    PROVE  Replayed'
<1> DEFINE u == Event("unmap", w)
<1> DEFINE e == ReparentEvent(w, FALSE)
<1> DEFINE m == IF Viewable(w) THEN queue \o <<u>> ELSE queue
<1>1. XTypeOK /\ order' = Without(order, w)
  BY DEF IInv, ReparentWindow
<1>2. /\ u \in Events /\ u.type = "unmap" /\ u.win = w
      /\ e \in Events /\ e.type = "reparent" /\ e.win = w /\ ~e.root
  BY EventsAre
<1>3. queue' = m \o <<e>>
  BY <1>1, ReparentSends
<1>4. m = queue \o <<u>> \/ m = queue
  OBVIOUS
<1> HIDE DEF u, e, m
<1>5. e \in Removing(w)
  BY <1>2, EventIs
<1> QED
  BY <1>1, <1>2, <1>3, <1>4, <1>5, LeaveReplays

LEMMA ReleaseReplays ==
    ASSUME IInv, Replayed, NEW w \in Windows, ReparentWindow(w, TRUE), UNCHANGED own
    PROVE  Replayed'
<1> DEFINE u == Event("unmap", w)
<1> DEFINE e == ReparentEvent(w, TRUE)
<1> DEFINE f == Event("map", w)
<1> DEFINE m == IF Viewable(w) THEN queue \o <<u>> ELSE queue
<1> DEFINE r == m \o <<e>>
<1>1. XTypeOK /\ queue \in Seq(Events) /\ order \in Seq(Windows) /\ IsInjective(order)
      /\ order' = OnTop(order, w)
  BY DEF IInv, XTypeOK, ReparentWindow
<1>2. /\ u \in Events /\ u.type = "unmap"
      /\ e \in Events /\ e.type = "reparent" /\ e.win = w /\ e.root
      /\ f \in Events /\ f.type = "map"
  BY EventsAre
<1>3. queue' = IF w \in mapped THEN r \o <<f>> ELSE r
  BY <1>1, ReparentSends
<1>4. m = queue \/ m = queue \o <<u>>
  OBVIOUS
<1> HIDE DEF u, e, f, m
<1>5. e \in Adding(w)
  BY <1>2, EventIs
<1>6. Replays(Stack(order), e, Stack(order')) /\ order' \in Seq(Windows)
  BY <1>1, <1>2, <1>5, TopReplays, TopIs
<1>7. Stack(order') \in Stacks /\ Stack(order) \in Stacks
  BY <1>1, <1>6, StackTyped
<1>8. m \in Seq(Events) /\ Follows(queue, Stack(order), m, Stack(order))
  <2>1. CASE m = queue
    BY <1>1, <2>1 DEF Follows
  <2>2. CASE m = queue \o <<u>>
    BY <1>1, <1>2, <1>7, <2>2, Sent, Neutral, FollowsSent
  <2> QED
    BY <1>4, <2>1, <2>2
<1>9. r \in Seq(Events) /\ Follows(m, Stack(order), r, Stack(order'))
  BY <1>2, <1>6, <1>7, <1>8, Sent, FollowsSent
<1> HIDE DEF r
<1>10. Follows(r, Stack(order'), queue', Stack(order'))
  <2>1. CASE w \in mapped
    BY <1>2, <1>3, <1>7, <1>9, <2>1, Neutral, FollowsSent
  <2>2. CASE w \notin mapped
    BY <1>3, <2>2 DEF Follows
  <2> QED
    BY <2>1, <2>2
<1>11. Follows(queue, Stack(order), queue', Stack(order'))
  BY <1>8, <1>9, <1>10, FollowsTwice
<1> QED
  BY <1>11, StillReplayed DEF own

LEMMA ConfiguredReplays ==
    ASSUME IInv, Replayed, NEW w \in Windows, Contains(order, w), UNCHANGED own,
           size'[w] \in Sizes, queue' = queue \o <<ConfigureEvent(w)>>,
           order' \in Seq(Windows), IsInjective(order'),
           \A x : Contains(order', x) <=> Contains(order, x),
           \A x, y : x # w /\ y # w => (<<x, y>> \in Stack(order') <=> <<x, y>> \in Stack(order))
    PROVE  Replayed'
<1> DEFINE e == ConfigureEvent(w)
<1>1. order \in Seq(Windows) /\ IsInjective(order)
  BY DEF IInv, XTypeOK
<1>2. e \in Events /\ e.type = "configure" /\ e.win = w /\ e.above = Beneath(order', w)
  BY ConfigureIs
<1>3. queue' = queue \o <<e>>
  OBVIOUS
<1> HIDE DEF e
<1>4. Replays(Stack(order), e, Stack(order'))
  BY <1>1, <1>2, ConfigureReplays
<1> QED
  BY <1>2, <1>3, <1>4, SaidReplays DEF own

LEMMA ProgramsReplay ==
    ASSUME IInv, Replayed, Programs, UNCHANGED own
    PROVE  Replayed'
<1>1. order \in Seq(Windows) /\ IsInjective(order) /\ XTypeOK /\ queue \in Seq(Events)
  BY DEF IInv, XTypeOK
<1>2. CASE \E w \in Windows : CreateWindow(w)
  BY <1>2, CreateReplays
<1>3. CASE \E w \in Windows : DestroyWindow(w)
  BY <1>3, DestroyReplays
<1>4. ASSUME NEW w \in Windows, MapWindow(w) \/ UnmapWindow(w) \/ SetOpacity(w) \/ Draw(w)
      PROVE  Replayed'
  <2>1. order' = order
    BY <1>4 DEF MapWindow, UnmapWindow, SetOpacity, Draw
  <2>2. ASSUME NEW e, queue' = queue \o <<e>>,
               \E t \in {"map", "unmap", "damage", "property"} : e = Event(t, w)
        PROVE  Replayed'
    <3>1. e \in Events /\ e.type \in {"map", "unmap", "damage", "property"}
      BY <2>2, EventsAre
    <3> QED
      BY <2>1, <2>2, <3>1, SilentReplays DEF own
  <2>3. CASE queue' = queue
    BY <2>1, <2>3, SilentReplays DEF own
  <2>4. CASE MapWindow(w)
    BY <2>2, <2>4 DEF MapWindow, Send
  <2>5. CASE UnmapWindow(w)
    BY <2>2, <2>5 DEF UnmapWindow, Send
  <2>6. CASE SetOpacity(w)
    <3>1. w \notin watched => queue' = queue \o <<>>
      BY <2>6 DEF SetOpacity, Send, When
    <3>2. w \in watched => queue' = queue \o <<Event("property", w)>>
      BY <2>6 DEF SetOpacity, Send, When
    <3>3. queue \o <<>> = queue
      BY <1>1, ConcatEmptySeq
    <3> QED
      BY <2>2, <2>3, <3>1, <3>2, <3>3
  <2>7. CASE Draw(w)
    BY <2>2, <2>3, <2>7 DEF Draw, Send
  <2> QED
    BY <1>4, <2>4, <2>5, <2>6, <2>7
<1>5. CASE \E w \in Windows \ Hidden : ResizeWindow(w)
  <2>1. PICK w \in Windows : ResizeWindow(w)
    BY <1>5
  <2>2. size'[w] \in Sizes
    BY <1>1, <2>1 DEF ResizeWindow, XTypeOK
  <2>3. Contains(order, w) /\ queue' = queue \o <<ConfigureEvent(w)>> /\ order' = order
    BY <2>1 DEF ResizeWindow, Send
  <2> QED
    BY <1>1, <2>2, <2>3, ConfiguredReplays
<1>6. CASE \E w \in Windows \ Hidden, root \in BOOLEAN : ReparentWindow(w, root)
  BY <1>6, ReleaseReplays, FrameReplays
<1>7. CASE \E w \in Windows \ Hidden, a \in Windows \cup {NoWin} : MoveWindow(w, a)
  <2>1. PICK w \in Windows, a \in Windows \cup {NoWin} : MoveWindow(w, a)
    BY <1>7
  <2>2. size'[w] \in Sizes /\ Contains(order, w) /\ queue' = queue \o <<ConfigureEvent(w)>>
    BY <1>1, <2>1 DEF MoveWindow, XTypeOK, Send
  <2>3. /\ order' \in Seq(Windows) /\ IsInjective(order')
        /\ \A x : Contains(order', x) <=> Contains(order, x)
        /\ \A x, y : x # w /\ y # w => (<<x, y>> \in Stack(order') <=> <<x, y>> \in Stack(order))
    BY <1>1, <2>1, MovedIs DEF MoveWindow
  <2> QED
    BY <2>2, <2>3, ConfiguredReplays
<1>8. CASE \E w \in Windows \ Hidden, top \in BOOLEAN : CirculateWindow(w, top)
  <2>1. PICK w \in Windows, top \in BOOLEAN : CirculateWindow(w, top)
    BY <1>8
  <2> DEFINE e == PlaceEvent(w, top)
  <2>2. queue' = queue \o <<e>> /\ order' = IF top THEN OnTop(order, w) ELSE Above(order, w, NoWin)
    BY <2>1 DEF CirculateWindow, Send
  <2>3. e \in Events /\ e.type = "circulate" /\ e.win = w /\ e.top = top
    BY EventsAre
  <2>4. order' \in Seq(Windows)
    BY <1>1, <2>2, TopIs, BottomIs
  <2> HIDE DEF e
  <2>5. Replays(Stack(order), e, Stack(order'))
    BY <1>1, <2>2, <2>3, TopReplays, BottomReplays
  <2> QED
    BY <2>2, <2>3, <2>4, <2>5, SaidReplays DEF own
<1> QED
  BY <1>2, <1>3, <1>4, <1>5, <1>6, <1>7, <1>8 DEF Programs

-----------------------------------------------------------------------------
(* The order: what the handlers make of the list                           *)

LEMMA ReplaysIs ==
    ASSUME NEW R \in Stacks, NEW e \in Events, NEW S, Replays(R, e, S), NEW w, e.win = w
    PROVE  /\ e \in Adding(w) => S = OverAll(R, w)
           /\ e \in Removing(w) => S = Out(R, w)
           /\ e.type = "circulate" => S = IF e.top THEN OverAll(R, w) ELSE UnderAll(R, w)
           /\ e.type = "configure" => S = IF e.above = NoWin THEN UnderAll(R, w)
                                          ELSE Over(R, w, e.above)
           /\ e.type \in {"map", "unmap", "damage", "property"} => S = R
           /\ S \in Stacks
           /\ \A x, y : x # w /\ y # w => (<<x, y>> \in S <=> <<x, y>> \in R)
<1>1. w \in Windows
  BY EventIs
<1>2. /\ e \in Adding(w) => e.type = "create" \/ (e.type = "reparent" /\ e.root)
      /\ e \in Removing(w) => e.type = "destroy" \/ (e.type = "reparent" /\ ~e.root)
  BY EventIs
<1>3. /\ e \in Adding(w) => S = OverAll(R, w)
      /\ e \in Removing(w) => S = Out(R, w)
      /\ e.type = "circulate" => S = IF e.top THEN OverAll(R, w) ELSE UnderAll(R, w)
      /\ e.type = "configure" => S = IF e.above = NoWin THEN UnderAll(R, w)
                                     ELSE Over(R, w, e.above)
      /\ e.type \in {"map", "unmap", "damage", "property"} => S = R
  BY <1>2 DEF Replays
<1>4. \/ S = OverAll(R, w) \/ S = Out(R, w) \/ S = UnderAll(R, w) \/ S = R
      \/ S = Over(R, w, e.above)
  BY DEF Replays
<1>5. S \in Stacks /\ \A x, y : x # w /\ y # w => (<<x, y>> \in S <=> <<x, y>> \in R)
  <2>1. CASE S = OverAll(R, w)
    <3> DEFINE T == OverAll(R, w)
    <3>1. T \in Stacks /\ \A x, y : <<x, y>> \in T <=>
             \/ <<x, y>> \in R /\ x # w /\ y # w
             \/ y = w /\ (x = w \/ <<x, x>> \in R)
      BY <1>1, PlacesAre
    <3> HIDE DEF T
    <3>2. S = T
      BY <2>1 DEF T
    <3> QED
      BY <3>1, <3>2
  <2>2. CASE S = Out(R, w)
    BY <1>1, <2>2, PlacesAre
  <2>3. CASE S = UnderAll(R, w)
    <3> DEFINE T == UnderAll(R, w)
    <3>1. T \in Stacks /\ \A x, y : <<x, y>> \in T <=>
             \/ <<x, y>> \in R /\ x # w /\ y # w
             \/ x = w /\ (y = w \/ <<y, y>> \in R)
      BY <1>1, PlacesAre
    <3> HIDE DEF T
    <3>2. S = T
      BY <2>3 DEF T
    <3> QED
      BY <3>1, <3>2
  <2>4. CASE S = Over(R, w, e.above)
    <3> DEFINE T == Over(R, w, e.above)
    <3>1. T \in Stacks /\ \A x, y : <<x, y>> \in T <=>
             \/ <<x, y>> \in R /\ x # w /\ y # w
             \/ y = w /\ (x = w \/ <<x, e.above>> \in R)
             \/ x = w /\ y # w /\ y # e.above /\ <<e.above, y>> \in R
      BY <1>1, OverIs
    <3> HIDE DEF T
    <3>2. S = T
      BY <2>4 DEF T
    <3> QED
      BY <3>1, <3>2
  <2> QED
    BY <1>4, <2>1, <2>2, <2>3, <2>4
<1> QED
  BY <1>3, <1>5

\* While no window is being added, the list fits a stack that has its windows,
\* and in its order unless it was misled.
LEMMA FitsIdle ==
    ASSUME NEW R, busy.win \notin Windows
    PROVE  Fits(R) <=>
              /\ \A x \in Windows \ Hidden : Listed(x) => <<x, x>> \in R
              /\ \A x, y \in Windows \ Hidden :
                    Listed(x) /\ Listed(y) /\ ~misled => (<<x, y>> \in Stack(wins) <=> <<x, y>> \in R)
BY DEF Fits, Present

\* Handling an event about w: the list must fit what the event makes of any
\* stack it fitted before.
LEMMA HandledReplays ==
    ASSUME IInv, Replayed, NEW w \in Windows, NEW t, On(t, w), order' = order,
           \A R, S \in Stacks : Fits(R) /\ Replays(R, Head(queue), S) => Fits(S)'
    PROVE  Replayed'
<1>1. queue \in Seq(Events) /\ queue # <<>> /\ queue' = Tail(queue)
  BY Handling DEF On
<1>2. PICK R \in Stacks : Fits(R) /\ Leads(queue, R, Stack(order))
  BY DEF Replayed, Stacks
<1>3. PICK S \in Stacks : Replays(R, Head(queue), S) /\ Leads(Tail(queue), S, Stack(order))
  BY <1>1, <1>2, LeadsOn
<1>4. Fits(S)' /\ Leads(queue', S, Stack(order'))
  BY <1>1, <1>2, <1>3
<1>5. S \in SUBSET (Windows \X Windows)
  BY DEF Stacks
<1> QED
  BY <1>4, <1>5 DEF Replayed

\* An event about a window that is not in the list, or one that is not about
\* the order, leaves the list as it is.
LEMMA KeptReplays ==
    ASSUME IInv, Replayed, NEW w \in Windows, NEW t, On(t, w), order' = order,
           UNCHANGED <<wins, busy>>, ~misled' => ~misled,
           ~Listed(w) \/ t \in {"map", "unmap", "damage", "property"}
    PROVE  Replayed'
<1> DEFINE e == Head(queue)
<1>1. e \in Events /\ e.win = w /\ e.type = t /\ busy.win \notin Windows
  BY Handling, XServerAssumption DEF Idle
<1> HIDE DEF e
<1>2. ASSUME NEW R \in Stacks, NEW S \in Stacks, Fits(R), Replays(R, e, S) PROVE Fits(S)'
  <2>1. Fits(S)
    <3>1. CASE ~Listed(w)
      <4>1. \A x, y : x # w /\ y # w => (<<x, y>> \in S <=> <<x, y>> \in R)
        BY <1>1, <1>2, ReplaysIs
      <4> QED
        BY <1>1, <1>2, <3>1, <4>1, FitsIdle
    <3>2. CASE t \in {"map", "unmap", "damage", "property"}
      BY <1>1, <1>2, <3>2, ReplaysIs
    <3> QED
      BY <3>1, <3>2
  <2> QED
    BY <2>1 DEF Fits, Present, Listed
<1> QED
  BY <1>2, HandledReplays DEF e

\* add_win: a window of the list that it leaves where it is was on top, or the
\* list is misled.
LEMMA AddReplays ==
    ASSUME IInv, Replayed, NEW w \in Windows, NEW t, On(t, w), Head(queue) \in Adding(w),
           AddWin(w), UNCHANGED <<server, screen>>,
           ~misled' => ~misled /\ (Listed(w) => wins = OnTop(wins, w))
    PROVE  Replayed'
<1> DEFINE e == Head(queue)
<1>1. /\ e \in Events /\ e.win = w /\ Takes(queue, e, queue') /\ e \in Adding(w)
      /\ busy = Idle /\ busy.win \notin Windows /\ order' = order /\ wins' = wins
      /\ (Listed(w) => w \in Windows \ Hidden)
      /\ wins \in Seq(Windows \ Hidden) /\ IsInjective(wins)
  BY Handling, XServerAssumption DEF Idle, server, AddWin, Listed
<1> HIDE DEF e
<1>2. CASE Listed(w)
  <2>1. busy' = busy
    BY <1>2 DEF AddWin
  <2>3. \A x, y : <<x, y>> \in Stack(OnTop(wins, w)) <=>
              \/ <<x, y>> \in Stack(wins) /\ x # w /\ y # w
              \/ y = w /\ (x = w \/ Contains(wins, x))
    <3> DEFINE S == Windows \ Hidden
    <3>1. wins \in Seq(S) /\ IsInjective(wins) /\ w \in S
      BY <1>1, <1>2
    <3> HIDE DEF S
    <3> QED
      BY <3>1, TopIs
  <2>2. ASSUME NEW R \in Stacks, NEW S \in Stacks, Fits(R), Replays(R, e, S) PROVE Fits(S)'
    <3> DEFINE T == OverAll(R, w)
    <3> DEFINE s == OnTop(wins, w)
    <3>1. S = T
      BY <1>1, <2>2, ReplaysIs
    <3>2. \A x, y : <<x, y>> \in T <=> \/ <<x, y>> \in R /\ x # w /\ y # w
                                       \/ y = w /\ (x = w \/ <<x, x>> \in R)
      BY PlacesAre
    <3>3. \A x, y : <<x, y>> \in Stack(s) <=>
                \/ <<x, y>> \in Stack(wins) /\ x # w /\ y # w
                \/ y = w /\ (x = w \/ Contains(wins, x))
      BY <2>3
    <3>4. /\ \A x \in Windows \ Hidden : Contains(wins, x) => <<x, x>> \in R
          /\ \A x, y \in Windows \ Hidden :
                Contains(wins, x) /\ Contains(wins, y) /\ ~misled =>
                    (<<x, y>> \in Stack(wins) <=> <<x, y>> \in R)
      BY <1>1, <2>2, FitsIdle DEF Listed
    <3>5. ~misled' => ~misled /\ wins = s
      BY <1>2
    <3> HIDE DEF s, T
    <3>6. \A x \in Windows \ Hidden : Contains(wins, x) => <<x, x>> \in S
      BY <3>1, <3>2, <3>4
    <3>7. \A x, y \in Windows \ Hidden :
             Contains(wins, x) /\ Contains(wins, y) /\ ~misled' =>
                 (<<x, y>> \in Stack(wins) <=> <<x, y>> \in S)
      BY <3>1, <3>2, <3>3, <3>4, <3>5
    <3> QED
      BY <1>1, <2>1, <3>6, <3>7 DEF Fits, Present, Listed
  <2> QED
    BY <1>1, <2>2, HandledReplays DEF e
<1>3. CASE ~Listed(w) /\ Exists(w) /\ w \notin Hidden
  <2>1. busy'.win = w
    BY <1>3 DEF AddWin
  <2>2. ASSUME NEW R \in Stacks, NEW S \in Stacks, Fits(R), Replays(R, e, S) PROVE Fits(S)'
    <3>1. \A x \in Windows \ Hidden : Listed(x) => <<x, x>> \in R /\ x # w
      BY <1>1, <1>3, <2>2, FitsIdle
    <3> DEFINE T == OverAll(R, w)
    <3>2. S = T
      BY <1>1, <2>2, ReplaysIs
    <3>3. \A x, y : <<x, y>> \in T <=> \/ <<x, y>> \in R /\ x # w /\ y # w
                                       \/ y = w /\ (x = w \/ <<x, x>> \in R)
      BY PlacesAre
    <3> HIDE DEF T
    <3>4. \A x \in Windows \ Hidden : Present(x)' => <<x, x>> \in S
      BY <1>1, <2>1, <3>1, <3>2, <3>3 DEF Present, Listed
    <3>5. ASSUME NEW x \in Windows \ Hidden, NEW y \in Windows \ Hidden,
                 Listed(x)', Listed(y)', ~misled'
          PROVE  <<x, y>> \in Stack(wins') <=> <<x, y>> \in S
      <4>1. Listed(x) /\ Listed(y) /\ ~misled
        BY <1>1, <3>5 DEF Listed
      <4>2. <<x, y>> \in Stack(wins) <=> <<x, y>> \in R
        BY <1>1, <2>2, <4>1, FitsIdle
      <4> QED
        BY <1>1, <3>1, <3>2, <3>3, <4>1, <4>2
    <3>6. ASSUME NEW x \in Windows \ Hidden, NEW y \in Windows \ Hidden, Listed(x)', busy'.win = y
          PROVE  <<x, y>> \in S /\ <<y, x>> \notin S
      <4>1. Listed(x) /\ y = w
        BY <1>1, <2>1, <3>6 DEF Listed
      <4> QED
        BY <3>1, <3>2, <3>3, <4>1
    <3> QED
      BY <3>4, <3>5, <3>6 DEF Fits
  <2> QED
    BY <1>1, <2>2, HandledReplays DEF e
<1>4. CASE ~Listed(w) /\ ~(Exists(w) /\ w \notin Hidden)
  BY <1>1, <1>4, KeptReplays DEF AddWin
<1> QED
  BY <1>2, <1>3, <1>4

LEMMA RemoveReplays ==
    ASSUME IInv, Replayed, NEW w \in Windows, NEW t, On(t, w), Head(queue) \in Removing(w),
           RemoveWin(w), UNCHANGED <<server, screen>>, ~misled' => ~misled
    PROVE  Replayed'
<1> DEFINE e == Head(queue)
<1>1. /\ e \in Events /\ e.win = w /\ e \in Removing(w)
      /\ busy.win \notin Windows /\ busy' = busy /\ order' = order
      /\ wins \in Seq(Windows \ Hidden) /\ IsInjective(wins)
  BY Handling, XServerAssumption DEF Idle, server, RemoveWin
<1> HIDE DEF e
<1>2. CASE Listed(w)
  <2>1. wins' = Without(wins, w)
    BY <1>2 DEF RemoveWin
  <2>2. /\ \A x : Contains(wins', x) <=> Contains(wins, x) /\ x # w
        /\ \A x, y : <<x, y>> \in Stack(wins') <=> <<x, y>> \in Stack(wins) /\ x # w /\ y # w
    BY <1>1, <2>1, WithoutIs
  <2>3. ASSUME NEW R \in Stacks, NEW S \in Stacks, Fits(R), Replays(R, e, S) PROVE Fits(S)'
    <3>1. \A x, y : x # w /\ y # w => (<<x, y>> \in S <=> <<x, y>> \in R)
      BY <1>1, <2>3, ReplaysIs
    <3>2. /\ \A x \in Windows \ Hidden : Contains(wins, x) => <<x, x>> \in R
          /\ \A x, y \in Windows \ Hidden :
                Contains(wins, x) /\ Contains(wins, y) /\ ~misled =>
                    (<<x, y>> \in Stack(wins) <=> <<x, y>> \in R)
      BY <1>1, <2>3, FitsIdle DEF Listed
    <3> QED
      BY <1>1, <2>2, <3>1, <3>2 DEF Fits, Present, Listed
  <2> QED
    BY <1>1, <2>3, HandledReplays DEF e
<1>3. CASE ~Listed(w)
  BY <1>1, <1>3, KeptReplays DEF RemoveWin
<1> QED
  BY <1>2, <1>3

\* Restacking a listed window makes of the list what the event made of the
\* server's order, or marks the list as misled.
LEMMA RestackReplays ==
    ASSUME IInv, Replayed, NEW w \in Windows, NEW t, On(t, w), UNCHANGED <<order, busy>>,
           Listed(w),
           \/ t = "configure" /\ Restack(w, Head(queue).above)
           \/ t = "circulate" /\ IF Head(queue).top THEN wins' = OnTop(wins, w) /\ misled' = misled
                                 ELSE Restack(w, NoWin)
    PROVE  Replayed'
<1> DEFINE e == Head(queue)
<1> DEFINE Shown == Windows \ Hidden
<1>1. /\ e \in Events /\ e.win = w /\ e.type = t /\ busy.win \notin Windows
      /\ wins \in Seq(Shown) /\ IsInjective(wins) /\ w \in Shown
      /\ misled \in BOOLEAN
  BY Handling, XServerAssumption DEF Idle, Listed
<1>2. \A x : <<x, x>> \in Stack(wins) <=> Contains(wins, x)
  BY <1>1, StackIs
<1>3. t = "configure" => e.above # w
  BY <1>1, EventIs, XServerAssumption
<1>4. \/ /\ wins' = OnTop(wins, w) /\ misled' = misled
         /\ t = "circulate" /\ e.top
      \/ /\ wins' = Above(wins, w, NoWin) /\ misled' = misled
         /\ (t = "circulate" /\ ~e.top) \/ (t = "configure" /\ e.above = NoWin)
      \/ /\ wins' = Above(wins, w, e.above) /\ misled' = misled /\ Contains(wins, e.above)
         /\ t = "configure" /\ e.above # NoWin
      \/ wins' = OnTop(wins, w) /\ misled' = TRUE /\ t = "configure" /\ e.above # NoWin
  BY <1>1 DEF Restack, Listed
<1> HIDE DEF e
<1>5. ASSUME NEW R \in Stacks, NEW S \in Stacks, Fits(R), Replays(R, e, S) PROVE Fits(S)'
  <2>1. /\ \A x \in Shown : Contains(wins, x) => <<x, x>> \in R
        /\ \A x, y \in Shown : Contains(wins, x) /\ Contains(wins, y) /\ ~misled =>
                                  (<<x, y>> \in Stack(wins) <=> <<x, y>> \in R)
    BY <1>1, <1>5, FitsIdle DEF Listed
  <2>2. \A x, y : x # w /\ y # w => (<<x, y>> \in S <=> <<x, y>> \in R)
    BY <1>1, <1>5, ReplaysIs
  <2>3. SUFFICES /\ \A x \in Shown : Contains(wins', x) => <<x, x>> \in S
                 /\ \A x, y \in Shown : Contains(wins', x) /\ Contains(wins', y) /\ ~misled' =>
                                           (<<x, y>> \in Stack(wins') <=> <<x, y>> \in S)
    BY <1>1 DEF Fits, Present, Listed
  <2>4. CASE wins' = OnTop(wins, w) /\ misled' = misled /\ t = "circulate" /\ e.top
    <3> DEFINE s == OnTop(wins, w)
    <3> DEFINE T == OverAll(R, w)
    <3>1. S = T /\ wins' = s /\ misled' = misled
      BY <1>1, <1>5, <2>4, ReplaysIs
    <3>2. \A x, y : <<x, y>> \in T <=> \/ <<x, y>> \in R /\ x # w /\ y # w
                                       \/ y = w /\ (x = w \/ <<x, x>> \in R)
      BY PlacesAre
    <3>3. /\ \A x : Contains(s, x) <=> Contains(wins, x) \/ x = w
          /\ \A x, y : <<x, y>> \in Stack(s) <=>
                \/ <<x, y>> \in Stack(wins) /\ x # w /\ y # w
                \/ y = w /\ (x = w \/ Contains(wins, x))
      BY <1>1, TopIs
    <3> HIDE DEF s, T
    <3>4. ASSUME NEW x \in Shown, Contains(wins', x) PROVE <<x, x>> \in S
      BY <2>1, <3>1, <3>2, <3>3, <3>4
    <3>5. ASSUME NEW x \in Shown, NEW y \in Shown, Contains(wins', x), Contains(wins', y), ~misled'
          PROVE  <<x, y>> \in Stack(wins') <=> <<x, y>> \in S
      <4>1. ~misled /\ (x = w \/ Contains(wins, x)) /\ (y = w \/ Contains(wins, y))
        BY <3>1, <3>3, <3>5
      <4>2. /\ Contains(wins, x) => <<x, x>> \in R
            /\ Contains(wins, x) /\ Contains(wins, y) =>
                   (<<x, y>> \in Stack(wins) <=> <<x, y>> \in R)
        BY <2>1, <4>1
      <4> QED
        BY <3>1, <3>2, <3>3, <4>1, <4>2
    <3> QED
      BY <3>4, <3>5
  <2>5. CASE /\ wins' = Above(wins, w, NoWin) /\ misled' = misled
             /\ (t = "circulate" /\ ~e.top) \/ (t = "configure" /\ e.above = NoWin)
    <3> DEFINE s == Above(wins, w, NoWin)
    <3> DEFINE T == UnderAll(R, w)
    <3>1. S = T /\ wins' = s /\ misled' = misled
      BY <1>1, <1>5, <2>5, ReplaysIs
    <3>2. \A x, y : <<x, y>> \in T <=> \/ <<x, y>> \in R /\ x # w /\ y # w
                                       \/ x = w /\ (y = w \/ <<y, y>> \in R)
      BY PlacesAre
    <3>3. /\ \A x : Contains(s, x) <=> Contains(wins, x) \/ x = w
          /\ \A x, y : <<x, y>> \in Stack(s) <=>
                \/ <<x, y>> \in Stack(wins) /\ x # w /\ y # w
                \/ x = w /\ (y = w \/ Contains(wins, y))
      BY <1>1, BottomIs
    <3> HIDE DEF s, T
    <3> QED
      BY <2>1, <3>1, <3>2, <3>3
  <2>6. CASE /\ wins' = Above(wins, w, e.above) /\ misled' = misled /\ Contains(wins, e.above)
             /\ t = "configure" /\ e.above # NoWin
    <3> DEFINE a == e.above
    <3> DEFINE s == Above(wins, w, a)
    <3> DEFINE T == Over(R, w, a)
    <3>1. S = T /\ wins' = s /\ misled' = misled
      BY <1>1, <1>5, <2>6, ReplaysIs
    <3>2. a \in Shown /\ a # w /\ a # NoWin /\ Contains(wins, a) /\ Contains(wins, w)
      BY <1>1, <1>3, <2>6, LenProperties, ElementOfSeq DEF Contains, Listed
    <3> HIDE DEF a
    <3>3. \A x, y : <<x, y>> \in T <=> \/ <<x, y>> \in R /\ x # w /\ y # w
                                       \/ y = w /\ (x = w \/ <<x, a>> \in R)
                                       \/ x = w /\ y # w /\ y # a /\ <<a, y>> \in R
      BY OverIs
    <3>4. /\ \A x : Contains(s, x) <=> Contains(wins, x) \/ x = w
          /\ \A x, y : <<x, y>> \in Stack(s) <=>
                \/ <<x, y>> \in Stack(wins) /\ x # w /\ y # w
                \/ x = w /\ y = w
                \/ y = w /\ x # w /\ <<x, a>> \in Stack(wins)
                \/ x = w /\ y # w /\ y # a /\ <<a, y>> \in Stack(wins)
      <4>1. wins \in Seq(Shown) /\ IsInjective(wins) /\ w \in Shown
        BY <1>1
      <4> HIDE DEF Shown
      <4> QED
        BY <3>2, <4>1, AboveIs
    <3> HIDE DEF s, T
    <3>5. ASSUME NEW x \in Shown, Contains(wins', x) PROVE <<x, x>> \in S
      BY <2>1, <3>1, <3>3, <3>4, <3>5
    <3>6. ASSUME NEW x \in Shown, NEW y \in Shown, Contains(wins', x), Contains(wins', y), ~misled'
          PROVE  <<x, y>> \in Stack(wins') <=> <<x, y>> \in S
      <4>1. /\ <<x, y>> \in Stack(wins) <=> <<x, y>> \in R
            /\ <<x, a>> \in Stack(wins) <=> <<x, a>> \in R
            /\ <<a, y>> \in Stack(wins) <=> <<a, y>> \in R
        BY <2>1, <3>1, <3>2, <3>4, <3>6
      <4> QED
        BY <3>1, <3>3, <3>4, <4>1
    <3> QED
      BY <3>5, <3>6
  <2>7. CASE wins' = OnTop(wins, w) /\ misled' = TRUE /\ t = "configure" /\ e.above # NoWin
    <3> DEFINE a == e.above
    <3> DEFINE s == OnTop(wins, w)
    <3> DEFINE T == Over(R, w, a)
    <3>1. S = T /\ wins' = s /\ misled'
      BY <1>1, <1>5, <2>7, ReplaysIs
    <3> HIDE DEF a
    <3>2. \A x, y : <<x, y>> \in T <=> \/ <<x, y>> \in R /\ x # w /\ y # w
                                       \/ y = w /\ (x = w \/ <<x, a>> \in R)
                                       \/ x = w /\ y # w /\ y # a /\ <<a, y>> \in R
      BY OverIs
    <3>3. \A x : Contains(s, x) <=> Contains(wins, x) \/ x = w
      BY <1>1, TopIs
    <3> HIDE DEF s, T
    <3> QED
      BY <2>1, <3>1, <3>2, <3>3
  <2> QED
    BY <1>4, <2>4, <2>5, <2>6, <2>7
<1> QED
  BY <1>5, HandledReplays DEF e

LEMMA HandlingReplays ==
    ASSUME IInv, Replayed, NEW w \in Windows, HandleEvent(w)
    PROVE  Replayed'
<1> DEFINE e == Head(queue)
<1>1. CASE OnDamage(w)
  BY <1>1, KeptReplays DEF OnDamage, server
<1>2. CASE OnCreate(w)
  <2>1. e \in Events /\ e.win = w /\ e.type = "create"
    BY <1>2, Handling DEF OnCreate
  <2>2. e \in Adding(w) /\ e \in Kind("create", w)
    BY <2>1, EventIs
  <2>3. ~Listed(w)
    BY <1>2, <2>2, Handling DEF OnCreate, Mirrored, Tree, Present, Listed, Takes
  <2> QED
    BY <1>2, <2>2, <2>3, AddReplays DEF OnCreate
<1>3. CASE OnDestroy(w)
  <2>1. e \in Events /\ e.win = w /\ e.type = "destroy"
    BY <1>3, Handling DEF OnDestroy
  <2>2. e \in Removing(w)
    BY <2>1, EventIs
  <2> QED
    BY <1>3, <2>2, RemoveReplays DEF OnDestroy
<1>4. CASE OnReparent(w)
  <2>1. e \in Events /\ e.win = w /\ e.type = "reparent"
    BY <1>4, Handling DEF OnReparent
  <2>2. IF e.root THEN e \in Adding(w) ELSE e \in Removing(w)
    BY <2>1, EventIs
  <2> QED
    BY <1>4, <2>2, AddReplays, RemoveReplays DEF OnReparent
<1>5. CASE OnMap(w)
  BY <1>5, KeptReplays DEF OnMap, Update, server
<1>6. CASE OnUnmap(w)
  BY <1>6, KeptReplays DEF OnUnmap, Update, server
<1>7. CASE OnConfigure(w)
  <2>1. On("configure", w) /\ UNCHANGED <<order, busy>>
    BY <1>7 DEF OnConfigure, Update, server
  <2>2. CASE Listed(w)
    BY <1>7, <2>1, <2>2, RestackReplays DEF OnConfigure
  <2>3. CASE ~Listed(w)
    BY <1>7, <2>1, <2>3, KeptReplays DEF OnConfigure
  <2> QED
    BY <2>2, <2>3
<1>8. CASE OnCirculate(w)
  <2>1. On("circulate", w) /\ UNCHANGED <<order, busy>>
    BY <1>8 DEF OnCirculate, Update, server
  <2>2. CASE Listed(w)
    BY <1>8, <2>1, <2>2, RestackReplays DEF OnCirculate
  <2>3. CASE ~Listed(w)
    BY <1>8, <2>1, <2>3, KeptReplays DEF OnCirculate
  <2> QED
    BY <2>2, <2>3
<1>9. CASE OnProperty(w)
  BY <1>9, KeptReplays DEF OnProperty, Update, server
<1> QED
  BY <1>1, <1>2, <1>3, <1>4, <1>5, <1>6, <1>7, <1>8, <1>9 DEF HandleEvent

\* Steps between events that leave the list and the window being added alone.
LEMMA BetweenReplays ==
    ASSUME Replayed, UNCHANGED <<wins, misled, order, queue>>, busy'.win = busy.win
    PROVE  Replayed'
<1>1. PICK R \in SUBSET (Windows \X Windows) : Fits(R) /\ Leads(queue, R, Stack(order))
  BY DEF Replayed
<1>2. Fits(R)'
  BY <1>1 DEF Fits, Present, Listed
<1>3. Leads(queue', R, Stack(order'))
  BY <1>1
<1> QED
  BY <1>2, <1>3 DEF Replayed

\* A window that is added to the end of the list is the topmost of those that
\* the events on their way begin with.
LEMMA AppendReplays ==
    ASSUME IInv, Replayed, NEW w \in Windows, AppendWin(w)
    PROVE  Replayed'
<1> DEFINE Shown == Windows \ Hidden
<1>1. /\ busy.win = w /\ busy'.win \notin Windows /\ order' = order /\ misled' = misled
      /\ wins' = Append(wins, w) /\ w \in Shown /\ ~Contains(wins, w)
      /\ wins \in Seq(Shown) /\ IsInjective(wins) /\ queue \in Seq(Events)
      /\ queue' = queue
  BY XServerAssumption DEF IInv, AppendWin, BusyOK, Idle, Listed, TypeOK, XTypeOK, server
<1> DEFINE s == OnTop(wins, w)
<1>4. wins' = s
  BY <1>1 DEF OnTop, Without
<1>5. /\ wins \in Seq(Shown) /\ IsInjective(wins) /\ w \in Shown
  BY <1>1
<1> HIDE DEF Shown
<1>6. /\ \A x : Contains(s, x) <=> Contains(wins, x) \/ x = w
      /\ \A x, y : <<x, y>> \in Stack(s) <=>
            \/ <<x, y>> \in Stack(wins) /\ x # w /\ y # w
            \/ y = w /\ (x = w \/ Contains(wins, x))
  BY <1>5, TopIs
<1> HIDE DEF s
<1>7. PICK R \in Stacks : Fits(R) /\ Leads(queue, R, Stack(order))
  BY DEF Replayed, Stacks
<1>8. /\ <<w, w>> \in R /\ \A x \in Shown : Contains(wins, x) => <<x, x>> \in R
      /\ \A x, y \in Shown : Contains(wins, x) /\ Contains(wins, y) /\ ~misled =>
                                (<<x, y>> \in Stack(wins) <=> <<x, y>> \in R)
      /\ \A x \in Shown : Contains(wins, x) => <<x, w>> \in R /\ <<w, x>> \notin R
  BY <1>1, <1>7 DEF Fits, Present, Listed, Shown
<1>9. \A x \in Shown : Contains(wins', x) => <<x, x>> \in R
  BY <1>4, <1>6, <1>8
<1>10. ASSUME NEW x \in Shown, NEW y \in Shown, Contains(wins', x), Contains(wins', y), ~misled'
      PROVE  <<x, y>> \in Stack(wins') <=> <<x, y>> \in R
  <2>1. (x = w \/ Contains(wins, x)) /\ (y = w \/ Contains(wins, y)) /\ ~misled
    BY <1>1, <1>4, <1>6, <1>10
  <2>2. CASE x # w /\ y # w
    BY <1>4, <1>6, <1>8, <2>1, <2>2
  <2>3. CASE y = w
    BY <1>4, <1>6, <1>8, <2>1, <2>3
  <2>4. CASE x = w /\ y # w
    BY <1>4, <1>6, <1>8, <2>1, <2>4
  <2> QED
    BY <2>2, <2>3, <2>4
<1>11. Fits(R)'
  BY <1>1, <1>9, <1>10 DEF Fits, Present, Listed, Shown
<1>12. Leads(queue', R, Stack(order'))
  BY <1>1, <1>7
<1> QED
  BY <1>7, <1>11, <1>12 DEF Replayed, Stacks

LEMMA BeginsReplayed ==
    ASSUME Init PROVE Replayed
<1> DEFINE R == Stack(order)
<1>1. /\ order \in Seq(Windows) /\ queue = <<>> /\ busy.win \notin Windows
      /\ wins \in Seq(Windows \ Hidden)
  BY Begins, XServerAssumption DEF Init, XInit, IInv, XTypeOK, TypeOK, Idle
<1>2. R \in Stacks /\ Stack(wins) \subseteq R
  BY <1>1, StackTyped DEF Init, InOrder
<1>3. \A x : Contains(wins, x) => <<x, x>> \in Stack(wins)
  BY <1>1, StackIs
<1>4. ASSUME NEW x \in Windows \ Hidden, NEW y \in Windows \ Hidden
      PROVE  <<x, y>> \in Stack(wins) <=> <<x, y>> \in R
  <2>1. Stack(wins) = {p \in Stack(order) : p[1] \notin Hidden /\ p[2] \notin Hidden}
    BY DEF Init, InOrder
  <2> QED
    BY <2>1
<1>5. Leads(queue, R, Stack(order))
  BY <1>1, <1>2, LeadsNowhere
<1> HIDE DEF R
<1>6. Fits(R)
  BY <1>1, <1>2, <1>3, <1>4, FitsIdle DEF Listed
<1> QED
  BY <1>2, <1>5, <1>6 DEF Replayed, Stacks

LEMMA StepReplays ==
    ASSUME IInv, Replayed, [Next]_vars PROVE Replayed'
<1>1. CASE Programs /\ UNCHANGED <<wins, cache, dirty, busy, screen, misled>>
  BY <1>1, ProgramsReplay DEF own
<1>2. CASE \E w \in Windows : HandleEvent(w)
  BY <1>2, HandlingReplays
<1>3. CASE \E w \in Windows : GetOpacity(w)
  <2>1. UNCHANGED <<wins, misled, order, queue>> /\ busy'.win = busy.win
    BY <1>3 DEF GetOpacity, server
  <2> QED
    BY <2>1, BetweenReplays
<1>4. CASE \E w \in Windows : AppendWin(w)
  BY <1>4, AppendReplays
<1>5. CASE BeginPaint
  <2>1. UNCHANGED <<wins, misled, order, queue>> /\ busy'.win = busy.win
    BY <1>5 DEF BeginPaint, xvars, Idle
  <2> QED
    BY <2>1, BetweenReplays
<1>6. CASE Paint
  <2>1. busy.win = NoWin
    BY <1>6 DEF IInv, BusyOK, Paint, Idle
  <2>2. UNCHANGED <<wins, misled, order, queue>> /\ busy'.win = busy.win
    BY <1>6, <2>1 DEF Paint, xvars, Idle
  <2> QED
    BY <2>2, BetweenReplays
<1>7. CASE UNCHANGED vars
  <2>1. UNCHANGED <<wins, misled, order, queue>> /\ busy'.win = busy.win
    BY <1>7 DEF vars, xvars
  <2> QED
    BY <2>1, BetweenReplays
<1>8. CASE \E w \in Windows : Serves(w)
  <2>1. PICK w \in Windows : Serves(w)
    BY <1>8
  <2>2. UNCHANGED <<wins, busy, misled, order>>
    BY <2>1 DEF Serves, Serve, own
  <2>3. CASE queue' = queue
    BY <2>2, <2>3, SilentReplays
  <2>4. CASE queue' = queue \o <<Event("damage", w)>>
    <3> DEFINE e == Event("damage", w)
    <3>1. e \in Events /\ e.type = "damage" /\ queue' = queue \o <<e>>
      BY <2>4, EventsAre
    <3> HIDE DEF e
    <3> QED
      BY <2>2, <3>1, SilentReplays
  <2> QED
    BY <2>1, <2>3, <2>4, Serving
<1> QED
  BY <1>1, <1>2, <1>3, <1>4, <1>5, <1>6, <1>7, <1>8 DEF Next, Compositor, Server, Serves, own

\* In every reachable state the list fits a stack from which the events on
\* their way lead to the server's order: what the replay of restack, add_win
\* and remove_win rests on when the list is behind.
THEOREM AlwaysReplayed == Spec => []Replayed
<1>1. Init => Replayed
  BY BeginsReplayed
<1>2. IInv /\ Replayed /\ [Next]_vars => Replayed'
  BY StepReplays
<1> QED
  BY <1>1, <1>2, Invariant, PTL DEF Spec

\* Once everything is handled and painted, the list holds exactly the server's
\* windows in the server's order, unless a configure event named a sibling that
\* was not in the list, or a window of the list became a child of the root anew.
THEOREM OrderIsReplayed == Spec => []OrderReplayed
<1>1. ASSUME IInv, Replayed PROVE OrderReplayed
  <2>1. SUFFICES ASSUME Quiet, ~misled PROVE InOrder
    BY DEF OrderReplayed
  <2>2. /\ order \in Seq(Windows) /\ queue = <<>> /\ busy.win \notin Windows
        /\ wins \in Seq(Windows \ Hidden)
    BY <1>1, <2>1, XServerAssumption DEF Quiet, Idle, IInv, XTypeOK, TypeOK
  <2>3. PICK R \in Stacks : Fits(R) /\ Leads(queue, R, Stack(order))
    BY <1>1 DEF Replayed, Stacks
  <2>4. R = Stack(order)
    BY <2>2, <2>3, LeadsNowhere
  <2>5. \A x, y \in Windows \ Hidden :
           Contains(wins, x) /\ Contains(wins, y) =>
               (<<x, y>> \in Stack(wins) <=> <<x, y>> \in Stack(order))
    BY <2>1, <2>2, <2>3, <2>4, FitsIdle DEF Listed
  <2>6. ASSUME NEW w \in Windows \ Hidden, Contains(order, w) PROVE Contains(wins, w)
    <3>1. Tree(w)
      BY <1>1 DEF IInv, Mirrored
    <3>2. ~Lasting(queue, Adding(w), Removing(w))
      BY <2>2 DEF Lasting
    <3> QED
      BY <2>2, <2>6, <3>1, <3>2 DEF Tree, Present, Listed
  <2>7. ASSUME NEW s, s \in Seq(Windows) \/ s \in Seq(Windows \ Hidden), NEW p \in Stack(s)
        PROVE  p = <<p[1], p[2]>> /\ Contains(s, p[1]) /\ Contains(s, p[2])
    <3>1. Stack(s) = UNION {{<<s[i], s[j]>> : j \in i .. Len(s)} : i \in DOMAIN s}
      BY DEF Stack
    <3>2. PICK i \in DOMAIN s : p \in {<<s[i], s[j]>> : j \in i .. Len(s)}
      BY <2>7, <3>1
    <3>3. PICK j \in i .. Len(s) : p = <<s[i], s[j]>>
      BY <3>2
    <3>4. DOMAIN s = 1 .. Len(s) /\ Len(s) \in Nat
      BY <2>7, LenProperties
    <3>5. i \in 1 .. Len(s) /\ j \in 1 .. Len(s)
      BY <3>2, <3>3, <3>4
    <3> QED
      BY <3>3, <3>4, <3>5 DEF Contains
  <2>8. ASSUME NEW p \in Stack(wins)
        PROVE  p \in Stack(order) /\ p[1] \notin Hidden /\ p[2] \notin Hidden
    <3>1. p = <<p[1], p[2]>> /\ Contains(wins, p[1]) /\ Contains(wins, p[2])
      BY <2>2, <2>7
    <3>2. p[1] \in Windows \ Hidden /\ p[2] \in Windows \ Hidden
      BY <2>2, <3>1, LenProperties, ElementOfSeq DEF Contains
    <3> QED
      BY <2>5, <3>1, <3>2
  <2>9. ASSUME NEW p \in Stack(order), p[1] \notin Hidden, p[2] \notin Hidden
        PROVE  p \in Stack(wins)
    <3>1. p = <<p[1], p[2]>> /\ Contains(order, p[1]) /\ Contains(order, p[2])
      BY <2>2, <2>7
    <3>2. p[1] \in Windows \ Hidden /\ p[2] \in Windows \ Hidden
      BY <2>2, <2>9, <3>1, LenProperties, ElementOfSeq DEF Contains
    <3>3. Contains(wins, p[1]) /\ Contains(wins, p[2])
      BY <2>6, <3>1, <3>2
    <3> QED
      BY <2>5, <3>1, <3>2, <3>3
  <2> QED
    BY <2>8, <2>9 DEF InOrder
<1> QED
  BY <1>1, Invariant, AlwaysReplayed, PTL

-----------------------------------------------------------------------------
(* The opacity of a window                                                 *)

\* A queue that grew still has what it had.
LEMMA SomeStays ==
    ASSUME NEW q \in Seq(Events), NEW r \in Seq(Events), NEW P, Some(q, P)
    PROVE  Some(q \o r, P)
<1>1. PICK i \in DOMAIN q : q[i] \in P
  BY DEF Some
<1>2. i \in 1 .. Len(q) /\ Len(q) \in Nat /\ Len(r) \in Nat
  BY LenProperties
<1>3. DOMAIN (q \o r) = 1 .. Len(q) + Len(r) /\ (q \o r)[i] = q[i]
  BY <1>2, ConcatProperties, LenProperties
<1> QED
  BY <1>1, <1>2, <1>3 DEF Some

\* Other programs' changes are reported behind what is on its way.
LEMMA ProgramsSend ==
    ASSUME XTypeOK, Programs
    PROVE  \E r \in Seq(Events) : queue' = queue \o r
<1> DEFINE Grows == \E r \in Seq(Events) : queue' = queue \o r
<1>1. queue \in Seq(Events) /\ <<>> \in Seq(Events) /\ queue = queue \o <<>>
  BY ConcatEmptySeq DEF XTypeOK
<1>2. \A e \in Events : <<e>> \in Seq(Events)
  OBVIOUS
<1>3. ASSUME NEW e \in Events, NEW b PROVE When(b, <<e>>) \in Seq(Events)
  BY <1>1, <1>2 DEF When
<1>4. ASSUME NEW e \in Events, NEW f \in Events, NEW b, NEW d
      PROVE  When(b, <<e>>) \o When(d, <<f>>) \in Seq(Events)
  BY <1>3, ConcatProperties
<1>5. ASSUME NEW w \in Windows, CreateWindow(w) PROVE Grows
  <2>1. queue' = queue \o <<Event("create", w)>>
    BY <1>5 DEF CreateWindow, Send
  <2> QED
    BY <1>2, <2>1, EventsAre
<1>6. ASSUME NEW w \in Windows, DestroyWindow(w) PROVE Grows
  <2> DEFINE r == When(Viewable(w), <<Event("unmap", w)>>)
                  \o When(Contains(order, w), <<Event("destroy", w)>>)
  <2>1. queue' = queue \o r
    BY <1>6 DEF DestroyWindow, Send
  <2>2. r \in Seq(Events)
    BY <1>4, EventsAre
  <2> QED
    BY <2>1, <2>2
<1>7. ASSUME NEW w \in Windows, MapWindow(w) \/ UnmapWindow(w) PROVE Grows
  <2>1. \E t \in {"map", "unmap"} : queue' = queue \o <<Event(t, w)>>
    BY <1>7 DEF MapWindow, UnmapWindow, Send
  <2> QED
    BY <1>2, <2>1, EventsAre
<1>8. ASSUME NEW w \in Windows, ResizeWindow(w) PROVE Grows
  <2>1. queue' = queue \o <<ConfigureEvent(w)>> /\ order' = order /\ Contains(order, w)
    BY <1>8 DEF ResizeWindow, Send
  <2>2. order' \in Seq(Windows) /\ IsInjective(order') /\ size'[w] \in Sizes
    BY <1>8, <2>1 DEF ResizeWindow, XTypeOK
  <2>3. ConfigureEvent(w) \in Events
    BY <2>1, <2>2, ConfigureIs
  <2> QED
    BY <1>2, <2>1, <2>3
<1>9. ASSUME NEW w \in Windows, NEW a \in Windows \cup {NoWin}, MoveWindow(w, a) PROVE Grows
  <2>1. queue' = queue \o <<ConfigureEvent(w)>>
    BY <1>9 DEF MoveWindow, Send
  <2>2. order' \in Seq(Windows) /\ IsInjective(order') /\ Contains(order', w) /\ size'[w] \in Sizes
    BY <1>9, MovedIs DEF MoveWindow, XTypeOK
  <2>3. ConfigureEvent(w) \in Events
    BY <2>2, ConfigureIs
  <2> QED
    BY <1>2, <2>1, <2>3
<1>10. ASSUME NEW w \in Windows, NEW top \in BOOLEAN, CirculateWindow(w, top) PROVE Grows
  <2>1. queue' = queue \o <<PlaceEvent(w, top)>>
    BY <1>10 DEF CirculateWindow, Send
  <2> QED
    BY <1>2, <2>1, EventsAre
<1>11. ASSUME NEW w \in Windows, NEW root \in BOOLEAN, ReparentWindow(w, root) PROVE Grows
  <2> DEFINE r == When(Viewable(w), <<Event("unmap", w)>>)
  <2> DEFINE e == ReparentEvent(w, root)
  <2> DEFINE f == When(w \in mapped, <<Event("map", w)>>)
  <2>1. queue' = queue \o (r \o <<e>>) \/ queue' = queue \o ((r \o <<e>>) \o f)
    BY <1>11 DEF ReparentWindow, Send
  <2>2. r \in Seq(Events) /\ <<e>> \in Seq(Events) /\ f \in Seq(Events)
    BY <1>2, <1>3, EventsAre
  <2> HIDE DEF r, e, f
  <2>3. r \o <<e>> \in Seq(Events)
    BY <2>2, ConcatProperties
  <2>4. (r \o <<e>>) \o f \in Seq(Events)
    BY <2>2, <2>3, ConcatProperties
  <2> QED
    BY <2>1, <2>3, <2>4
<1>12. ASSUME NEW w \in Windows, SetOpacity(w) PROVE Grows
  <2>1. queue' = queue \o When(w \in watched, <<Event("property", w)>>)
    BY <1>12 DEF SetOpacity, Send
  <2> QED
    BY <1>3, <2>1, EventsAre
<1>13. ASSUME NEW w \in Windows, Draw(w) PROVE Grows
  <2>1. queue' = queue \o <<Event("damage", w)>> \/ queue' = queue
    BY <1>13 DEF Draw, Send
  <2>2. <<Event("damage", w)>> \in Seq(Events)
    BY <1>2, EventsAre
  <2> QED
    BY <1>1, <2>1, <2>2, Zenon
<1> QED
  BY <1>5, <1>6, <1>7, <1>8, <1>9, <1>10, <1>11, <1>12, <1>13 DEF Programs

\* What is on its way is not lost by what other programs do.
LEMMA ProgramsKeepEvents ==
    ASSUME XTypeOK, Programs, NEW P, Some(queue, P)
    PROVE  Some(queue', P)
<1>1. PICK r \in Seq(Events) : queue' = queue \o r
  BY ProgramsSend
<1>2. queue \in Seq(Events)
  BY DEF XTypeOK
<1> QED
  BY <1>1, <1>2, SomeStays

\* Only a destroyed window loses its selection, and that is reported.
LEMMA ProgramsSelect ==
    ASSUME IInv, Programs, UNCHANGED own, NEW v \in Windows \ Hidden, Selected(v)
    PROVE  Selected(v)'
<1>1. XTypeOK /\ Tree(v) /\ queue \in Seq(Events)
  BY DEF IInv, Mirrored, XTypeOK
<1>2. SUFFICES ASSUME Listed(v), ~Some(queue, Removing(v)), ~Some(queue', Removing(v))
               PROVE  v \in watched' \/ Asked("manage", v)'
  BY <1>1, ProgramsKeepEvents DEF Selected, Listed, own
<1>3. (v \in watched \/ Asked("manage", v)) /\ Contains(order, v)
  BY <1>1, <1>2 DEF Selected, Tree, Present
<1>6. requests' = requests
  BY DEF Programs, CreateWindow, DestroyWindow, MapWindow, UnmapWindow, ResizeWindow,
         ReparentWindow, MoveWindow, CirculateWindow, SetOpacity, Draw
<1>4. ASSUME DestroyWindow(v) PROVE FALSE
  <2> DEFINE e == Event("destroy", v)
  <2> DEFINE q == IF Viewable(v) THEN queue \o <<Event("unmap", v)>> ELSE queue
  <2>1. e \in Events /\ Event("unmap", v) \in Events /\ e.win = v /\ e.type = "destroy"
    BY EventsAre
  <2>2. queue' = q \o <<e>>
    BY <1>1, <1>3, <1>4, DestroySends
  <2>3. q \in Seq(Events)
    BY <1>1, <2>1, Sent
  <2>4. e \in Removing(v)
    BY <2>1, EventIs
  <2> HIDE DEF e, q
  <2>5. Adds(q, e, queue')
    BY <2>1, <2>2, <2>3, Sent
  <2> QED
    BY <1>2, <2>4, <2>5 DEF Adds
<1>5. \/ watched' = watched
      \/ \E w \in Windows : DestroyWindow(w) /\ watched' = watched \ {w}
  BY DEF Programs, CreateWindow, DestroyWindow, MapWindow, UnmapWindow, ResizeWindow,
         ReparentWindow, MoveWindow, CirculateWindow, SetOpacity, Draw
<1>7. Asked("manage", v) => Asked("manage", v)'
  BY <1>6 DEF Asked
<1> QED
  BY <1>3, <1>4, <1>5, <1>7

\* Handling an event takes back no request.
LEMMA HandlersAsk ==
    ASSUME IInv, NEW w \in Windows, HandleEvent(w), NEW t, NEW v, Asked(t, v)
    PROVE  Asked(t, v)'
<1>1. requests' = requests \/ \E s \in {"subtract", "release"} : Ask(s, w)
  BY DEF HandleEvent, OnDamage, OnCreate, OnDestroy, OnReparent, OnMap, OnUnmap, OnConfigure,
         OnCirculate, OnProperty, AddWin, RemoveWin, Update
<1>2. CASE requests' = requests
  BY <1>2 DEF Asked
<1>3. CASE \E s \in {"subtract", "release"} : Ask(s, w)
  BY <1>3, Asks DEF IInv, XTypeOK
<1> QED
  BY <1>1, <1>2, <1>3

\* A window that is in the list when an event has been handled was in it
\* before, and the event does not drop it.
LEMMA HandledKeeps ==
    ASSUME IInv, NEW w \in Windows, HandleEvent(w), NEW v \in Windows \ Hidden, Listed(v)'
    PROVE  /\ busy = Idle /\ busy'.step # "append" /\ Listed(v)
           /\ UNCHANGED <<order, away, opaque, watched>>
           /\ queue' \in Seq(Events) /\ Takes(queue, Head(queue), queue')
           /\ Head(queue) \in Events /\ Head(queue).win = w
           /\ Head(queue) \notin Removing(v)
<1> DEFINE e == Head(queue)
<1>1. PICK t : On(t, w)
  BY DEF HandleEvent, OnDamage, OnCreate, OnDestroy, OnReparent, OnMap, OnUnmap, OnConfigure,
         OnCirculate, OnProperty
<1>2. /\ busy = Idle /\ busy.win # w /\ queue' \in Seq(Events) /\ Takes(queue, e, queue')
      /\ e \in Events /\ e.win = w /\ e.type = t
      /\ wins \in Seq(Windows \ Hidden) /\ IsInjective(wins)
      /\ Contains(wins, w) => w \in Windows \ Hidden
  BY <1>1, Handling
<1> HIDE DEF e
<1>3. e \in Removing(v) <=> w = v /\ (e.type = "destroy" \/ (e.type = "reparent" /\ ~e.root))
  BY <1>2, EventIs
<1> DEFINE Kept == /\ busy'.step # "append" /\ Listed(v) /\ e \notin Removing(v)
                   /\ UNCHANGED <<order, away, opaque, watched>>
<1>4. ASSUME RemoveWin(w), UNCHANGED server PROVE Kept
  <2>1. CASE Contains(wins, w)
    <3>1. wins' = Without(wins, w)
      BY <1>4, <2>1 DEF RemoveWin, Listed
    <3>2. \A x : Contains(Without(wins, w), x) <=> Contains(wins, x) /\ x # w
      BY <1>2, <2>1, WithoutIs
    <3>3. v # w /\ Listed(v)
      BY <3>1, <3>2 DEF Listed
    <3> QED
      BY <1>2, <1>3, <1>4, <3>3 DEF RemoveWin, server, Idle
  <2>2. CASE ~Contains(wins, w)
    BY <1>2, <1>3, <1>4, <2>2 DEF RemoveWin, server, Idle, Listed
  <2> QED
    BY <2>1, <2>2
<1>5. ASSUME AddWin(w), UNCHANGED server, e \notin Removing(v) PROVE Kept
  BY <1>2, <1>5 DEF AddWin, server, Idle, Listed
<1>6. ASSUME \A x : Contains(wins', x) <=> Contains(wins, x), e \notin Removing(v),
             UNCHANGED <<order, away, opaque, watched, busy>>
      PROVE  Kept
  BY <1>2, <1>6 DEF Idle, Listed
<1>7. ASSUME OnDamage(w) PROVE Kept
  BY <1>3, <1>6, <1>7 DEF OnDamage, On, server, e
<1>8. ASSUME OnCreate(w) PROVE Kept
  BY <1>3, <1>5, <1>8 DEF OnCreate, On, e
<1>9. ASSUME OnDestroy(w) PROVE Kept
  BY <1>4, <1>9 DEF OnDestroy
<1>10. ASSUME OnReparent(w) PROVE Kept
  BY <1>3, <1>4, <1>5, <1>10 DEF OnReparent, On, e
<1>11. ASSUME OnMap(w) \/ OnUnmap(w) \/ OnProperty(w) PROVE Kept
  BY <1>3, <1>6, <1>11 DEF OnMap, OnUnmap, OnProperty, On, Update, server, e
<1>12. ASSUME OnConfigure(w) PROVE Kept
  <2>1. CASE Listed(w)
    <3>1. e.type = "configure" /\ Restack(w, e.above)
      BY <1>12, <2>1 DEF OnConfigure, On, e
    <3>2. e.above # w
      BY <1>2, <3>1, EventIs, XServerAssumption
    <3> QED
      BY <1>3, <1>6, <1>12, <2>1, <3>1, <3>2, RestackIs DEF OnConfigure, Update, server
  <2>2. CASE ~Listed(w)
    BY <1>3, <1>6, <1>12, <2>2 DEF OnConfigure, On, Update, server, e
  <2> QED
    BY <2>1, <2>2
<1>13. ASSUME OnCirculate(w) PROVE Kept
  <2>1. w # NoWin /\ e.type = "circulate"
    BY <1>13, XServerAssumption DEF OnCirculate, On, e
  <2>2. CASE Listed(w)
    BY <1>3, <1>6, <1>13, <2>1, <2>2, RestackIs DEF OnCirculate, Update, server
  <2>3. CASE ~Listed(w)
    BY <1>3, <1>6, <1>13, <2>1, <2>3 DEF OnCirculate, Update, server
  <2> QED
    BY <2>2, <2>3
<1> QED
  BY <1>2, <1>7, <1>8, <1>9, <1>10, <1>11, <1>12, <1>13 DEF HandleEvent, e

\* add_win asks for a window's property changes and then lists it; if the window
\* is gone when the server gets to that, its removal is on its way.
LEMMA StepSelects ==
    ASSUME IInv, [Next]_vars, NEW v \in Windows \ Hidden, Selected(v)
    PROVE  Selected(v)'
<1>1. CASE Programs /\ UNCHANGED <<wins, cache, dirty, busy, screen, misled>>
  BY <1>1, ProgramsSelect DEF own
<1>2. ASSUME NEW w \in Windows, HandleEvent(w) PROVE Selected(v)'
  <2>1. SUFFICES ASSUME Listed(v)', ~Some(queue', Removing(v))
                 PROVE  v \in watched' \/ Asked("manage", v)'
    BY DEF Selected
  <2>2. /\ Listed(v) /\ watched' = watched /\ Takes(queue, Head(queue), queue')
        /\ Head(queue) \notin Removing(v)
    BY <1>2, <2>1, HandledKeeps
  <2>3. Asked("manage", v) => Asked("manage", v)'
    BY <1>2, HandlersAsk
  <2> QED
    BY <2>1, <2>2, <2>3 DEF Takes, Selected
<1>3. ASSUME UNCHANGED <<wins, queue, watched, requests>> PROVE Selected(v)'
  BY <1>3 DEF Selected, Listed, Asked
<1>4. CASE \E w \in Windows : GetOpacity(w)
  BY <1>3, <1>4 DEF GetOpacity, server
<1>5. ASSUME NEW w \in Windows, AppendWin(w) PROVE Selected(v)'
  <2>1. wins \in Seq(Windows \ Hidden) /\ w \in Windows \ Hidden
        /\ wins' = Append(wins, w) /\ UNCHANGED <<queue, watched>> /\ Ask("manage", w)
    BY <1>5 DEF IInv, TypeOK, AppendWin, BusyOK, Idle, server
  <2>2. \A t, x : Asked(t, x)' <=> Asked(t, x) \/ (t = "manage" /\ x = w)
    BY <2>1, Asks DEF IInv, XTypeOK
  <2>3. Listed(v)' => Listed(v) \/ v = w
    BY <2>1, Longer DEF Listed, Contains
  <2> QED
    BY <2>1, <2>2, <2>3 DEF Selected
<1>6. CASE BeginPaint \/ Paint \/ UNCHANGED vars
  BY <1>3, <1>6 DEF BeginPaint, Paint, vars, xvars
<1>7. ASSUME NEW w \in Windows, Serves(w) PROVE Selected(v)'
  <2>1. /\ requests \in Seq(Requests) /\ requests # <<>> /\ requests' = Tail(requests)
        /\ Head(requests).win = w /\ UNCHANGED own /\ queue \in Seq(Events) /\ Tree(v)
    BY <1>7 DEF IInv, XTypeOK, Serves, Serve, Mirrored
  <2>2. /\ \A t, x : Asked(t, x) <=> Asked(t, x)' \/ (Head(requests).type = t /\ w = x)
        /\ Head(requests).type \in {"manage", "subtract", "release"}
    BY <2>1, Served DEF Requests
  <2>3. SUFFICES ASSUME Listed(v), ~Some(queue', Removing(v))
                 PROVE  v \in watched' \/ Asked("manage", v)'
    BY <2>1 DEF Selected, Listed, own
  <2>4. ~Some(queue, Removing(v))
    <3>1. CASE queue' = queue
      BY <2>3, <3>1
    <3>2. CASE queue' = queue \o <<Event("damage", w)>>
      <4>1. <<Event("damage", w)>> \in Seq(Events)
        BY EventsAre
      <4> QED
        BY <2>1, <2>3, <3>2, <4>1, SomeStays, Zenon
    <3> QED
      BY <1>7, <3>1, <3>2, Serving
  <2>5. (v \in watched \/ Asked("manage", v)) /\ Exists(v)
    BY <2>1, <2>3, <2>4 DEF Selected, Tree, Present, Exists
  <2>6. watched \subseteq watched' /\ (Head(requests).type = "manage" /\ w = v => v \in watched')
    <3>1. CASE Head(requests).type = "manage"
      BY <1>7, <2>5, <3>1 DEF Serves, Serve, Manage
    <3>2. CASE Head(requests).type = "subtract"
      BY <1>7, <3>2 DEF Serves, Serve, Subtract
    <3>3. CASE Head(requests).type = "release"
      BY <1>7, <3>3 DEF Serves, Serve, Release
    <3> QED
      BY <2>2, <3>1, <3>2, <3>3
  <2> QED
    BY <2>2, <2>5, <2>6
<1> QED
  BY <1>1, <1>2, <1>4, <1>5, <1>6, <1>7 DEF Next, Compositor, Server, Serves, own

\* rcomp hears of each change of a property of a window in its list, as long
\* as the window is not about to be dropped, from when the server gets the request
\* that add_win makes for each.
THEOREM AlwaysSelected == Spec => [](\A w \in Windows \ Hidden : Selected(w))
<1>1. ASSUME Init PROVE \A w \in Windows \ Hidden : Selected(w)
  <2>1. IInv /\ watched = tracked
    BY <1>1, Begins DEF Init, XInit
  <2> QED
    BY <2>1 DEF IInv, Mirrored, Damaged, Selected
<1>2. ASSUME IInv, \A w \in Windows \ Hidden : Selected(w), [Next]_vars
      PROVE  (\A w \in Windows \ Hidden : Selected(w))'
  BY <1>2, StepSelects
<1> QED
  BY <1>1, <1>2, Invariant, PTL DEF Spec

-----------------------------------------------------------------------------
(* The opacity of a window: what the list has of it                        *)

\* The events at which the opacity of w is read again, or w is dropped.
LEMMA RereadsIs ==
    ASSUME NEW q \in Seq(Events), NEW w
    PROVE  Some(q, Kind("property", w) \cup Removing(w)) <=>
               \E i \in DOMAIN q :
                   /\ q[i].win = w
                   /\ \/ q[i].type \in {"property", "destroy"}
                      \/ q[i].type = "reparent" /\ ~q[i].root
<1>1. ASSUME NEW i \in DOMAIN q
      PROVE  q[i] \in Kind("property", w) \cup Removing(w) <=>
                 /\ q[i].win = w
                 /\ \/ q[i].type \in {"property", "destroy"}
                    \/ q[i].type = "reparent" /\ ~q[i].root
  <2>1. q[i] \in Events
    BY LenProperties, ElementOfSeq
  <2> QED
    BY <2>1, EventIs
<1> QED
  BY <1>1 DEF Some

\* What OpacityKnown says of a queue and of a window rcomp has read.
Rereading(q, w) == Some(q, Kind("property", w) \cup Removing(w))
Held(w) == Listed(w) \/ busy = [win |-> w, step |-> "append"]

\* A window that is gone is about to be dropped.
LEMMA GoneIs ==
    ASSUME IInv, NEW v \in Windows \ Hidden, Present(v), ~Exists(v)
    PROVE  Some(queue, Removing(v))
BY DEF IInv, Mirrored, Tree, Exists

\* Only a new window and SetOpacity change an opacity.
LEMMA OpacityChanges ==
    ASSUME XTypeOK, Programs, NEW v \in Windows, opaque'[v] # opaque[v]
    PROVE  CreateWindow(v) \/ SetOpacity(v)
<1>1. opaque \in [Windows -> BOOLEAN]
  BY DEF XTypeOK
<1>2. ASSUME NEW w \in Windows, CreateWindow(w) \/ SetOpacity(w) PROVE w = v
  BY <1>1, <1>2 DEF CreateWindow, SetOpacity
<1>3. (\E w \in Windows : CreateWindow(w) \/ SetOpacity(w)) \/ opaque' = opaque
  BY DEF Programs, DestroyWindow, MapWindow, UnmapWindow, ResizeWindow,
         ReparentWindow, MoveWindow, CirculateWindow, Draw
<1> QED
  BY <1>2, <1>3

LEMMA ProgramsKnow ==
    ASSUME IInv, Programs, UNCHANGED own, NEW v \in Windows \ Hidden, Selected(v),
           \/ cache[v].opaque = opaque[v] \/ Rereading(queue, v)
           \/ Listed(v) /\ opaque'[v] # opaque[v],
           opaque'[v] # opaque[v] => Listed(v) /\ ~Asked("manage", v)
    PROVE  cache'[v].opaque = opaque'[v] \/ Rereading(queue', v)
<1>1. XTypeOK /\ queue \in Seq(Events)
  BY DEF IInv, XTypeOK
<1>2. ASSUME NEW P, Some(queue, P) PROVE Some(queue', P)
  BY <1>1, <1>2, ProgramsKeepEvents
<1>3. CASE opaque'[v] = opaque[v]
  BY <1>2, <1>3 DEF Rereading, own
<1>4. CASE opaque'[v] # opaque[v] /\ Some(queue, Removing(v))
  BY <1>1, <1>2, <1>4, Queues DEF Rereading
<1>5. CASE opaque'[v] # opaque[v] /\ ~Some(queue, Removing(v))
  <2>1. Listed(v) /\ v \in watched /\ Exists(v)
    BY <1>5, GoneIs DEF Selected, Present
  <2>2. SetOpacity(v)
    BY <1>1, <1>5, <2>1, OpacityChanges DEF CreateWindow
  <2> DEFINE e == Event("property", v)
  <2>3. queue' = queue \o <<e>>
    BY <2>1, <2>2 DEF SetOpacity, Send, When
  <2>4. e \in Events /\ e.type = "property" /\ e.win = v
    BY EventsAre
  <2> HIDE DEF e
  <2>5. Adds(queue, e, queue') /\ e \in Kind("property", v) \cup Removing(v)
    BY <1>1, <2>3, <2>4, Sent, EventIs
  <2> QED
    BY <2>5 DEF Adds, Rereading
<1> QED
  BY <1>3, <1>4, <1>5

LEMMA HandlersKnow ==
    ASSUME IInv, NEW w \in Windows, HandleEvent(w), NEW v \in Windows \ Hidden, Listed(v)',
           cache[v].opaque = opaque[v] \/ Rereading(queue, v)
    PROVE  cache'[v].opaque = opaque'[v] \/ Rereading(queue', v)
<1> DEFINE e == Head(queue)
<1>1. /\ Listed(v) /\ UNCHANGED <<order, away, opaque>> /\ Takes(queue, e, queue')
      /\ e \in Events /\ e.win = w /\ e \notin Removing(v)
  BY HandledKeeps
<1>2. TypeOK /\ cache \in [Windows -> Entries] /\ queue' \in Seq(Events)
      /\ opaque[v] \in BOOLEAN
  BY HandledKeeps DEF IInv, TypeOK, Entries, XTypeOK
<1> HIDE DEF e
<1>3. CASE OnProperty(w) /\ w = v
  <2>1. cache'[v].opaque = ReadOpacity(v)
    BY <1>1, <1>2, <1>3 DEF OnProperty, Update, Entries
  <2>2. CASE Exists(v)
    BY <1>1, <1>2, <2>1, <2>2 DEF ReadOpacity
  <2>3. CASE ~Exists(v)
    <3>1. Some(queue, Removing(v))
      BY <1>1, <2>3, GoneIs DEF Present
    <3> QED
      BY <1>1, <1>2, <3>1, Queues DEF Takes, Rereading
  <2> QED
    BY <2>2, <2>3
<1>4. CASE ~(OnProperty(w) /\ w = v)
  <2>1. e \notin Kind("property", v)
    <3>1. SUFFICES ASSUME e.type = "property", w = v PROVE FALSE
      BY <1>1, EventIs
    <3>2. \E t \in {"damage", "create", "destroy", "reparent", "map", "unmap", "configure",
                    "circulate"} : On(t, w)
      BY <1>4, <3>1 DEF HandleEvent, OnDamage, OnCreate, OnDestroy, OnReparent, OnMap, OnUnmap,
                        OnConfigure, OnCirculate
    <3> QED
      BY <3>1, <3>2 DEF On, e
  <2>2. Rereading(queue, v) => Rereading(queue', v)
    BY <1>1, <2>1 DEF Takes, Rereading
  <2>3. cache'[v].opaque = cache[v].opaque
    <3>1. ASSUME v # w PROVE cache'[v] = cache[v]
      BY <1>1, <1>2, <3>1 DEF HandleEvent, OnDamage, OnCreate, OnDestroy, OnReparent, OnMap, OnUnmap,
             OnConfigure, OnCirculate, OnProperty, AddWin, RemoveWin, Update
    <3>2. ASSUME v = w, RemoveWin(w) PROVE FALSE
      <4>1. wins \in Seq(Windows \ Hidden) /\ IsInjective(wins) /\ wins' = Without(wins, v)
        BY <1>1, <1>2, <3>2 DEF TypeOK, RemoveWin
      <4>2. ~Contains(Without(wins, v), v)
        BY <1>1, <4>1, WithoutIs DEF Listed
      <4> QED
        BY <4>1, <4>2 DEF Listed
    <3>3. ASSUME v = w, AddWin(w) PROVE cache'[v] = cache[v]
      BY <1>1, <3>3 DEF AddWin
    <3>4. ASSUME v = w, NEW c, c.opaque = cache[v].opaque, Update(v, c)
          PROVE  cache'[v].opaque = cache[v].opaque
      BY <1>2, <3>4 DEF Update
    <3>5. ASSUME v = w, OnMap(w) \/ OnUnmap(w) PROVE cache'[v].opaque = cache[v].opaque
      BY <1>2, <3>4, <3>5 DEF OnMap, OnUnmap, Entries
    <3>6. ASSUME v = w, OnConfigure(w) PROVE cache'[v].opaque = cache[v].opaque
      BY <1>2, <3>4, <3>6 DEF OnConfigure, Entries
    <3>7. ASSUME v = w, OnCirculate(w) \/ OnDamage(w) PROVE cache'[v].opaque = cache[v].opaque
      BY <3>4, <3>7 DEF OnCirculate, OnDamage
    <3> QED
      BY <1>4, <3>1, <3>2, <3>3, <3>5, <3>6, <3>7 DEF HandleEvent, OnCreate, OnDestroy, OnReparent
  <2> QED
    BY <1>1, <2>2, <2>3
<1> QED
  BY <1>3, <1>4

LEMMA StepKnows ==
    ASSUME IInv, [Next]_vars, NEW v \in Windows \ Hidden, Selected(v),
           OpacityKnown(v) \/ (Listed(v) /\ opaque'[v] # opaque[v])
    PROVE  OpacityKnown(v)' \/ (Unselected(v) /\ opaque'[v] # opaque[v])
<1>1. XTypeOK /\ TypeOK /\ BusyOK /\ queue \in Seq(Events) /\ opaque[v] \in BOOLEAN
  BY DEF IInv, XTypeOK
<1>2. queue' \in Seq(Events)
  BY StepKeeps DEF IInv, XTypeOK
<1> DEFINE Goal == cache'[v].opaque = opaque'[v] \/ Rereading(queue', v)
<1>3. OpacityKnown(v) => (Held(v) => cache[v].opaque = opaque[v] \/ Rereading(queue, v))
  BY <1>1, RereadsIs DEF OpacityKnown, Rereads, Rereading, Held
<1>4. SUFFICES ASSUME Held(v)', ~(Unselected(v) /\ opaque'[v] # opaque[v]) PROVE Goal
  BY <1>2, RereadsIs DEF OpacityKnown, Rereads, Rereading, Held
<1>5. ASSUME Held(v) => cache[v].opaque = opaque[v] \/ Rereading(queue, v), Held(v),
             opaque' = opaque, cache'[v].opaque = cache[v].opaque, queue' = queue
      PROVE  Goal
  BY <1>5
<1>6. CASE Programs /\ UNCHANGED <<wins, cache, dirty, busy, screen, misled>>
  <2>1. UNCHANGED own /\ Held(v)
    BY <1>4, <1>6 DEF own, Held, Listed
  <2>2. opaque'[v] # opaque[v] => Listed(v) /\ ~Asked("manage", v)
    <3>1. Contains(requests, Request("manage", v)) <=> Asked("manage", v)
      BY <1>1, LenProperties DEF XTypeOK, Contains, Asked
    <3> QED
      BY <1>4, <2>1, <3>1 DEF Held, Unselected
  <2> QED
    BY <1>3, <1>6, <2>1, <2>2, ProgramsKnow
<1>7. ASSUME NEW w \in Windows, HandleEvent(w) PROVE Goal
  <2>1. Listed(v)'
    <3>1. \/ busy' = busy /\ busy = Idle
          \/ busy'.step = "opacity"
      BY <1>7 DEF HandleEvent, OnDamage, OnCreate, OnDestroy, OnReparent, OnMap, OnUnmap,
             OnConfigure, OnCirculate, OnProperty, AddWin, RemoveWin, Update, On
    <3>2. busy'.step # "append"
      BY <3>1 DEF Idle
    <3> QED
      BY <1>4, <3>2 DEF Held
  <2>2. Held(v) /\ opaque' = opaque
    BY <1>7, <2>1, HandledKeeps DEF Held
  <2> QED
    BY <1>3, <1>7, <2>1, <2>2, HandlersKnow
<1>8. ASSUME NEW w \in Windows, GetOpacity(w) PROVE Goal
  <2>1. /\ opaque' = opaque /\ queue' = queue /\ wins' = wins /\ busy.win = w
        /\ busy' = [win |-> w, step |-> "append"]
        /\ cache' = [cache EXCEPT ![w].opaque = ReadOpacity(w)]
    BY <1>8 DEF GetOpacity, server
  <2>2. cache \in [Windows -> Entries]
    BY <1>1 DEF TypeOK, Entries
  <2>3. CASE v = w
    <3>1. cache'[v].opaque = ReadOpacity(v)
      BY <2>1, <2>2, <2>3 DEF Entries
    <3>2. CASE Exists(v)
      BY <1>1, <2>1, <3>1, <3>2 DEF ReadOpacity
    <3>3. CASE ~Exists(v)
      <4>1. Some(queue, Removing(v))
        BY <2>1, <2>3, <3>3, GoneIs DEF Present
      <4> QED
        BY <1>1, <2>1, <4>1, Queues DEF Rereading
    <3> QED
      BY <3>2, <3>3
  <2>4. CASE v # w
    <3>1. Held(v) /\ cache'[v] = cache[v]
      BY <1>4, <2>1, <2>2, <2>4 DEF Held, Listed
    <3> QED
      BY <1>3, <1>5, <2>1, <3>1
  <2> QED
    BY <2>3, <2>4
<1>9. ASSUME NEW w \in Windows, AppendWin(w) PROVE Goal
  <2>1. /\ opaque' = opaque /\ cache' = cache /\ wins' = Append(wins, w)
        /\ busy = [win |-> w, step |-> "append"] /\ busy' = Idle /\ queue' = queue
    BY <1>9 DEF AppendWin, server
  <2>3. Held(v)
    <3>1. Listed(v)' => Listed(v) \/ v = w
      BY <1>1, <2>1, Longer DEF TypeOK, Listed, Contains
    <3> QED
      BY <1>4, <2>1, <3>1 DEF Held, Idle
  <2> QED
    BY <1>3, <2>1, <2>3
<1>13. ASSUME NEW w \in Windows, Serves(w) PROVE Goal
  <2>1. opaque' = opaque /\ cache' = cache /\ Held(v)
    BY <1>4, <1>13 DEF Serves, Serve, own, Held, Listed
  <2>2. Rereading(queue, v) => Rereading(queue', v)
    <3>1. CASE queue' = queue
      BY <3>1
    <3>2. CASE queue' = queue \o <<Event("damage", w)>>
      <4>1. <<Event("damage", w)>> \in Seq(Events)
        BY EventsAre
      <4> QED
        BY <1>1, <3>2, <4>1, SomeStays, Zenon DEF Rereading
    <3> QED
      BY <1>13, <3>1, <3>2, Serving
  <2> QED
    BY <1>3, <2>1, <2>2
<1>10. CASE BeginPaint
  BY <1>3, <1>4, <1>5, <1>10 DEF BeginPaint, Held, Listed, xvars, Idle
<1>11. CASE Paint
  <2>1. cache'[v].opaque = cache[v].opaque
    BY <1>1, <1>11 DEF Paint, TypeOK
  <2> QED
    BY <1>3, <1>4, <1>5, <1>11, <2>1 DEF Paint, Held, Listed, xvars, Idle
<1>12. CASE UNCHANGED vars
  BY <1>3, <1>4, <1>5, <1>12 DEF vars, xvars, Held, Listed
<1> QED
  BY <1>6, <1>7, <1>8, <1>9, <1>10, <1>11, <1>12, <1>13 DEF Next, Compositor, Server, Serves, own

\* The opacity of a list entry goes out of step with the window's only by a
\* change made after add_win has begun with that window and before the server
\* has got the selection of its property changes; any later change reaches the
\* entry, or an event that rereads it or drops the window is on its way.
THEOREM OpacityIsKept == Spec => OpacityKept
<1>1. ASSUME IInv, \A w \in Windows \ Hidden : Selected(w), [Next]_vars
      PROVE  \A w \in Windows \ Hidden :
                 OpacityKnown(w) \/ (Listed(w) /\ opaque'[w] # opaque[w]) =>
                     OpacityKnown(w)' \/ (Unselected(w) /\ opaque'[w] # opaque[w])
  BY <1>1, StepKnows
<1> QED
  BY <1>1, Invariant, AlwaysSelected, PTL DEF Spec, OpacityKept
=============================================================================
