------------------------- MODULE TicketPages_proofs -------------------------
(***************************************************************************)
(* Proofs about TicketPages for any readers, lists, seeds and page sizes.  *)
(* First what OFFSET and LIMIT cut out of an ordered list, and by how much *)
(* two versions of a list that share some rows in the same order can shift *)
(* against each other; then what a read and a commit do to a walk.         *)
(***************************************************************************)
EXTENDS TicketPages, FunctionTheorems, FiniteSetTheorems, TLAPS

-----------------------------------------------------------------------------
(* Finite sets M ordered by a relation R. *)

Orders(R, M) ==
  /\ \A s \in M : <<s, s>> \notin R
  /\ \A s, t, u \in M : <<s, t>> \in R /\ <<t, u>> \in R => <<s, u>> \in R
  /\ \A s, t \in M : s = t \/ <<s, t>> \in R \/ <<t, s>> \in R

Place(R, M, t) == Cardinality({s \in M : <<s, t>> \in R})

Lesser(a, b) == IF a <= b THEN a ELSE b

\* How many of n rows have a place from a up to b.
Span(a, b, n) == Lesser(b, n) - Lesser(a, n)

\* What OFFSET k passes over.
First(R, M, k) == {t \in M : Place(R, M, t) < k}

LEMMA PlaceIsNatural ==
  ASSUME NEW R, NEW M, IsFiniteSet(M), Orders(R, M), NEW t \in M
  PROVE  Place(R, M, t) \in Nat /\ Place(R, M, t) < Cardinality(M)
<1> DEFINE B == {s \in M : <<s, t>> \in R}
<1>1. B \subseteq M /\ t \notin B
  BY DEF Orders
<1> HIDE DEF B
<1>2. IsFiniteSet(B) /\ Cardinality(B) <= Cardinality(M)
      /\ (Cardinality(M) = Cardinality(B) => M = B)
  BY <1>1, FS_Subset
<1>3. Cardinality(B) \in Nat /\ Cardinality(M) \in Nat
  BY <1>2, FS_CardinalityType
<1>4. Place(R, M, t) = Cardinality(B)
  BY DEF Place, B
<1> QED
  BY <1>1, <1>2, <1>3, <1>4

LEMMA PlaceFollowsOrder ==
  ASSUME NEW R, NEW M, IsFiniteSet(M), Orders(R, M), NEW s \in M, NEW t \in M,
         <<s, t>> \in R
  PROVE  Place(R, M, s) < Place(R, M, t)
<1> DEFINE A == {x \in M : <<x, s>> \in R}
           B == {x \in M : <<x, t>> \in R}
<1>1. A \subseteq B /\ s \in B /\ s \notin A /\ B \subseteq M
  BY DEF Orders
<1>2. Place(R, M, s) = Cardinality(A) /\ Place(R, M, t) = Cardinality(B)
  BY DEF Place
<1> HIDE DEF A, B
<1>3. IsFiniteSet(B)
  BY <1>1, FS_Subset
<1>4. /\ IsFiniteSet(A) /\ Cardinality(A) <= Cardinality(B)
      /\ Cardinality(B) = Cardinality(A) => B = A
  BY <1>1, <1>3, FS_Subset
<1>5. Cardinality(A) \in Nat /\ Cardinality(B) \in Nat
  BY <1>3, <1>4, FS_CardinalityType
<1> QED
  BY <1>1, <1>2, <1>4, <1>5

\* The places are 0 .. Cardinality(M) - 1, each taken once, so OFFSET k passes over
\* k rows unless there are fewer.
LEMMA FirstCount ==
  ASSUME NEW R, NEW M, IsFiniteSet(M), Orders(R, M), NEW k \in Nat
  PROVE  /\ IsFiniteSet(First(R, M, k)) /\ Cardinality(M) \in Nat
         /\ Cardinality(First(R, M, k)) = Lesser(k, Cardinality(M))
<1> DEFINE n == Cardinality(M)
           m == IF k <= n THEN k ELSE n
           f == [t \in M |-> Place(R, M, t)]
           F == First(R, M, k)
           g == [t \in F |-> Place(R, M, t)]
<1>1. n \in Nat /\ m \in Nat
  BY FS_CardinalityType
<1>2. IsFiniteSet(0 .. (n - 1)) /\ Cardinality(0 .. (n - 1)) = n
  <2>1. 0 \in Int /\ n - 1 \in Int
    BY <1>1
  <2>2. /\ IsFiniteSet(0 .. (n - 1))
        /\ Cardinality(0 .. (n - 1)) = IF 0 > n - 1 THEN 0 ELSE (n - 1) - 0 + 1
    BY <2>1, FS_Interval, Zenon
  <2> QED
    BY <1>1, <2>2
<1>3. f \in [M -> 0 .. (n - 1)]
  BY <1>1, PlaceIsNatural
<1>4. \A s, t \in M : f[s] = f[t] => s = t
  <2>1. ASSUME NEW s \in M, NEW t \in M, s # t
        PROVE  f[s] # f[t]
    <3>1. Place(R, M, s) < Place(R, M, t) \/ Place(R, M, t) < Place(R, M, s)
      BY <2>1, PlaceFollowsOrder DEF Orders
    <3>2. Place(R, M, s) \in Nat /\ Place(R, M, t) \in Nat
      BY PlaceIsNatural
    <3> QED
      BY <3>1, <3>2
  <2> QED
    BY <2>1
<1> HIDE DEF f, n
<1>5. f \in Injection(M, 0 .. (n - 1))
  BY <1>3, <1>4, Fun_IsInj
<1>6. f \in Surjection(M, 0 .. (n - 1))
  BY <1>2, <1>5, FS_Injection DEF n
<1>7. \A i \in 0 .. (n - 1) : \E t \in M : f[t] = i
  BY <1>6, Fun_SurjectionProperties
<1>8. g \in [F -> 0 .. (m - 1)] /\ F \subseteq M /\ \A t \in F : g[t] = f[t]
  BY <1>1, <1>3 DEF First, f
<1>9. \A i \in 0 .. (m - 1) : \E t \in F : g[t] = i
  <2> SUFFICES ASSUME NEW i \in 0 .. (m - 1)
               PROVE  \E t \in F : g[t] = i
    OBVIOUS
  <2>1. i \in 0 .. (n - 1) /\ i < k
    BY <1>1
  <2>2. PICK t \in M : f[t] = i
    BY <1>7, <2>1
  <2>3. t \in F
    BY <2>1, <2>2 DEF First, f
  <2> QED
    BY <1>8, <2>2, <2>3
<1>10. \A s, t \in F : g[s] = g[t] => s = t
  BY <1>4, <1>8
<1> HIDE DEF g, F
<1>11. IsFiniteSet(F)
  BY <1>8, FS_Subset
<1>12. g \in Bijection(F, 0 .. (m - 1))
  BY <1>8, <1>9, <1>10, Fun_IsBij
<1>13. ExistsBijection(F, 0 .. (m - 1))
  BY <1>12, Fun_ExistsBij
<1>14. Cardinality(0 .. (m - 1)) = Cardinality(F)
  BY <1>11, <1>13, FS_Bijection
<1>15. Cardinality(0 .. (m - 1)) = m
  <2>1. 0 \in Int /\ m - 1 \in Int
    BY <1>1
  <2>2. Cardinality(0 .. (m - 1)) = IF 0 > m - 1 THEN 0 ELSE (m - 1) - 0 + 1
    BY <2>1, FS_Interval, Zenon
  <2> QED
    BY <1>1, <2>2
<1> QED
  BY <1>1, <1>11, <1>14, <1>15 DEF F, n, Lesser

-----------------------------------------------------------------------------
(* Two versions of a list.  Of the rows K that both have, in the same order,   *)
(* only so many fall behind OFFSET k as other rows came before it.             *)

LEMMA Difference ==
  ASSUME NEW S, NEW T, IsFiniteSet(S)
  PROVE  /\ IsFiniteSet(S \ T) /\ IsFiniteSet(S \cap T)
         /\ Cardinality(S \ T) \in Nat /\ Cardinality(S \cap T) \in Nat
         /\ Cardinality(S) \in Nat
         /\ Cardinality(S) = Cardinality(S \ T) + Cardinality(S \cap T)
<1>1. /\ IsFiniteSet(S \ T) /\ IsFiniteSet(S \cap T)
      /\ Cardinality(S \ T) = Cardinality(S) - Cardinality(S \cap T)
  BY FS_Difference, FS_Intersection
<1>2. /\ Cardinality(S \ T) \in Nat /\ Cardinality(S \cap T) \in Nat
      /\ Cardinality(S) \in Nat
  BY <1>1, FS_CardinalityType
<1> QED
  BY <1>1, <1>2

LEMMA Shift ==
  ASSUME NEW R, NEW M, IsFiniteSet(M), Orders(R, M),
         NEW Q, NEW N, IsFiniteSet(N), Orders(Q, N),
         NEW K, K \subseteq M, K \subseteq N,
         \A s, t \in K : <<s, t>> \in R <=> <<s, t>> \in Q, NEW k \in Nat
  PROVE  Cardinality((First(R, M, k) \cap K) \ First(Q, N, k))
           <= Cardinality(First(Q, N, k) \ K)
<1> DEFINE F == First(R, M, k)
           G == First(Q, N, k)
           A == F \cap K
           C == G \cap K
<1>1. /\ IsFiniteSet(F) /\ Cardinality(F) <= k
      /\ IsFiniteSet(G) /\ Cardinality(G) <= k
      /\ Cardinality(N) \in Nat
      /\ k <= Cardinality(N) => Cardinality(G) = k
  BY FirstCount DEF Lesser
<1>2. F \subseteq M /\ G \subseteq N
  BY DEF First
<1>3. /\ IsFiniteSet(A) /\ Cardinality(A) \in Nat
      /\ Cardinality(A) <= k
      /\ Cardinality(G) \in Nat
      /\ Cardinality(G \ K) \in Nat /\ IsFiniteSet(C) /\ Cardinality(C) \in Nat
      /\ Cardinality(G) = Cardinality(G \ K) + Cardinality(C)
  <2>1. /\ IsFiniteSet(A) /\ Cardinality(A) \in Nat /\ Cardinality(F \ K) \in Nat
        /\ Cardinality(F) \in Nat /\ Cardinality(F) = Cardinality(F \ K) + Cardinality(A)
    BY <1>1, Difference
  <2>2. /\ Cardinality(G) \in Nat
        /\ Cardinality(G \ K) \in Nat /\ IsFiniteSet(C) /\ Cardinality(C) \in Nat
        /\ Cardinality(G) = Cardinality(G \ K) + Cardinality(C)
    BY <1>1, Difference
  <2> HIDE DEF F, G, A, C
  <2> QED
    BY <1>1, <2>1, <2>2
<1>4. CASE A \ G = {}
  <2>1. Cardinality(A \ G) = 0
    BY <1>4, FS_EmptySet
  <2> QED
    BY <1>3, <2>1
<1>5. CASE A \ G # {}
  <2>1. PICK b \in A : b \notin G
    BY <1>5
  <2>2. b \in M /\ b \in N /\ b \in K
    BY <2>1
  <2>3. /\ Place(R, M, b) < k /\ ~(Place(Q, N, b) < k)
        /\ Place(Q, N, b) \in Nat /\ Place(Q, N, b) < Cardinality(N)
    BY <2>1, <2>2, PlaceIsNatural DEF First
  <2>4. Cardinality(G) = k
    BY <1>1, <2>3
  <2>5. C \subseteq A
    <3> SUFFICES ASSUME NEW c \in C
                 PROVE  c \in F
      OBVIOUS
    <3>1. c \in K /\ c \in M /\ c \in N /\ Place(Q, N, c) < k
      BY DEF First
    <3>2. Place(Q, N, c) \in Nat
      BY <3>1, PlaceIsNatural
    <3>3. ~(Place(Q, N, b) < Place(Q, N, c))
      BY <2>3, <3>1, <3>2
    <3>4. <<b, c>> \notin Q
      BY <2>2, <3>1, <3>3, PlaceFollowsOrder
    <3>5. c # b
      BY <2>3, <3>1
    <3>6. <<c, b>> \in R
      BY <2>2, <3>1, <3>4, <3>5 DEF Orders
    <3>7. /\ Place(R, M, c) < Place(R, M, b)
          /\ Place(R, M, c) \in Nat /\ Place(R, M, b) \in Nat
      BY <2>2, <3>1, <3>6, PlaceFollowsOrder, PlaceIsNatural
    <3>8. Place(R, M, c) < k
      BY <2>3, <3>7
    <3> QED
      BY <3>1, <3>8 DEF First
  <2>6. A \cap G = C
    BY <2>5
  <2> HIDE DEF F, G, A, C
  <2>7. /\ Cardinality(A \ G) \in Nat
        /\ Cardinality(A) = Cardinality(A \ G) + Cardinality(C)
    BY <1>3, <2>6, Difference
  <2> QED
    BY <1>3, <2>4, <2>7 DEF A, F, G
<1> QED
  BY <1>4, <1>5

-----------------------------------------------------------------------------
(* The orders of the lists. *)

LEMMA HasLast ==
  ASSUME NEW R, NEW M, IsFiniteSet(M), Orders(R, M), M # {}
  PROVE  \E t \in M : \A s \in M : <<t, s>> \notin R
<1> DEFINE n == Cardinality(M)
           F == First(R, M, n - 1)
<1>1. n \in Nat /\ n # 0
  BY FS_CardinalityType, FS_EmptySet
<1>2. n - 1 \in Nat
  BY <1>1
<1> HIDE DEF n
<1>3. Cardinality(F) = n - 1
  BY <1>1, <1>2, FirstCount DEF n, Lesser
<1>4. F \subseteq M /\ F # M
  <2>1. F \subseteq M
    BY DEF First
  <2>2. Cardinality(M) = n
    BY DEF n
  <2> HIDE DEF F
  <2> QED
    BY <1>1, <1>3, <2>1, <2>2
<1>5. PICK t \in M : t \notin F
  BY <1>4
<1>6. ASSUME NEW s \in M
      PROVE  <<t, s>> \notin R
  <2>1. /\ Place(R, M, s) \in Nat /\ Place(R, M, s) < n
        /\ Place(R, M, t) \in Nat /\ ~(Place(R, M, t) < n - 1)
    BY <1>5, PlaceIsNatural DEF First, n
  <2>2. ~(Place(R, M, t) < Place(R, M, s))
    BY <1>1, <2>1
  <2> QED
    BY <2>2, PlaceFollowsOrder
<1> QED
  BY <1>6

\* Every event has a last one among those of its ticket.
LEMMA LatestIsTime ==
  ASSUME NEW row \in Row, row.events # {}
  PROVE  Latest(row) \in Times
<1> DEFINE M == {c \in Times : \E e \in row.events : e[2] = c}
           R == {p \in M \X M : p[1] < p[2]}
<1>1. row.events \subseteq People \X Times
  BY DEF Row
<1>2. M \subseteq Times /\ M # {}
  BY <1>1
<1>3. IsFiniteSet(M)
  <2>1. 0 \in Int /\ MaxClock \in Int
    BY PagesAssumption
  <2>2. IsFiniteSet(Times)
    BY <2>1, FS_Interval, Zenon DEF Times
  <2> HIDE DEF M
  <2> QED
    BY <1>2, <2>2, FS_Subset
<1>4. \A s, t \in M : <<s, t>> \in R <=> s < t
  OBVIOUS
<1>5. Orders(R, M)
  <2>1. \A t \in M : t \in Int
    BY DEF Times
  <2> HIDE DEF M, R
  <2> QED
    BY <1>4, <2>1 DEF Orders
<1>6. PICK t \in M : \A s \in M : ~(t < s)
  <2> HIDE DEF M, R
  <2> QED
    BY <1>2, <1>3, <1>4, <1>5, HasLast
<1>7. /\ t \in Times /\ \E e \in row.events : e[2] = t
      /\ \A e \in row.events : e[2] <= t
  BY <1>1, <1>6, PagesAssumption DEF Times
<1> QED
  BY <1>7 DEF Latest

\* A table as TypeOK has it.
Typed(T) ==
  /\ DOMAIN T \subseteq Ids
  /\ \A t \in DOMAIN T : /\ T[t] \in Row
                         /\ T[t].status = "cancelled" => T[t].archived > 0

LEMMA KeyIsNumber ==
  ASSUME NEW T, Typed(T), NEW v, NEW q \in Query, NEW t \in Matching(T, v, q)
  PROVE  t \in DOMAIN T /\ Key(T, q, t) \in Int
<1>1. q.list \in {"tickets", "archive", "activity"} /\ q.order \in {"id", "status", "due_at"}
  BY DEF Query
<1>2. CASE q.list = "archive"
  BY <1>2 DEF Matching, Archive, Key, Typed, Row, Times
<1>3. CASE q.list = "activity"
  <2>1. t \in DOMAIN T /\ T[t].events # {}
    BY <1>3 DEF Matching
  <2>2. Latest(T[t]) \in Times
    BY <2>1, LatestIsTime DEF Typed
  <2>3. Key(T, q, t) = Latest(T[t])
    BY <1>3 DEF Key
  <2> QED
    BY <2>1, <2>2, <2>3 DEF Times
<1>4. CASE q.list = "tickets"
  <2>1. t \in DOMAIN T /\ T[t].archived = 0
    BY <1>4 DEF Matching, Visible
  <2>2. T[t] \in Row /\ T[t].status # "cancelled" /\ t \in Ids
    BY <2>1 DEF Typed
  <2>3. CASE q.order = "id"
    BY <1>4, <2>1, <2>2, <2>3 DEF Key, Ids
  <2>4. CASE q.order = "status"
    <3>1. Rank[T[t].status] \in Int
      BY <2>2 DEF Row, Statuses, Rank
    <3>2. Key(T, q, t) = Rank[T[t].status]
      BY <1>4, <2>4 DEF Key
    <3> QED
      BY <2>1, <3>1, <3>2
  <2>5. CASE q.order = "due_at"
    <3>1. T[t].due \in Int /\ MaxClock + 1 \in Int
      BY <2>2, PagesAssumption DEF Row, Times
    <3>2. Key(T, q, t) = IF q.direction = "asc" /\ T[t].due = 0 THEN MaxClock + 1
                         ELSE T[t].due
      BY <1>4, <2>5 DEF Key
    <3> QED
      BY <2>1, <3>1, <3>2
  <2> QED
    BY <1>1, <2>3, <2>4, <2>5
<1> QED
  BY <1>1, <1>2, <1>3, <1>4

Order(T, q, M) == {p \in M \X M : Before(T, q, p[1], p[2])}

LEMMA ListIsOrdered ==
  ASSUME NEW T, Typed(T), NEW v, NEW q \in Query
  PROVE  /\ IsFiniteSet(Matching(T, v, q)) /\ Matching(T, v, q) \subseteq Ids
         /\ Orders(Order(T, q, Matching(T, v, q)), Matching(T, v, q))
         /\ \A t \in Matching(T, v, q) :
              Position(T, v, q, t) = Place(Order(T, q, Matching(T, v, q)), Matching(T, v, q), t)
<1> DEFINE M == Matching(T, v, q)
           R == Order(T, q, M)
<1>1. \A t \in M : t \in DOMAIN T /\ Key(T, q, t) \in Int
  BY KeyIsNumber
<1>2. M \subseteq Ids
  BY <1>1 DEF Typed
<1>3. IsFiniteSet(M)
  <2>1. 1 \in Int /\ MaxTickets \in Int
    BY PagesAssumption
  <2>2. IsFiniteSet(Ids)
    BY <2>1, FS_Interval, Zenon DEF Ids
  <2> QED
    BY <1>2, <2>2, FS_Subset
<1>4. \A s, t \in M : <<s, t>> \in R <=> Before(T, q, s, t)
  BY DEF Order
<1>5. Orders(R, M)
  <2> HIDE DEF M, R
  <2>1. \A t \in M : t \in Int
    BY <1>2 DEF Ids
  <2> QED
    BY <1>1, <1>4, <2>1 DEF Orders, Before
<1>6. ASSUME NEW t \in M
      PROVE  Position(T, v, q, t) = Place(R, M, t)
  BY <1>4 DEF Position, Place
<1> QED
  BY <1>2, <1>3, <1>5, <1>6

-----------------------------------------------------------------------------
(* A page of a list. *)

LEMMA Slice ==
  ASSUME NEW R, NEW M, IsFiniteSet(M), Orders(R, M),
         NEW a \in Nat, NEW b \in Nat, a <= b
  PROVE  /\ First(R, M, a) \subseteq First(R, M, b) /\ First(R, M, b) \subseteq M
         /\ Cardinality(M) <= a => First(R, M, a) = M
         /\ IsFiniteSet(First(R, M, b) \ First(R, M, a))
         /\ Cardinality(First(R, M, b) \ First(R, M, a)) \in Nat
         /\ Cardinality(First(R, M, b) \ First(R, M, a)) = Span(a, b, Cardinality(M))
<1> DEFINE F == First(R, M, a)
           G == First(R, M, b)
<1>1. \A t \in M : Place(R, M, t) \in Nat /\ Place(R, M, t) < Cardinality(M)
  BY PlaceIsNatural
<1>2. F \subseteq G /\ G \subseteq M
  BY <1>1 DEF First
<1>3. Cardinality(M) \in Nat
  BY FS_CardinalityType
<1>4. Cardinality(M) <= a => F = M
  BY <1>1, <1>3 DEF First
<1>5. /\ IsFiniteSet(G) /\ Cardinality(G) = Lesser(b, Cardinality(M))
      /\ Cardinality(F) = Lesser(a, Cardinality(M))
  BY FirstCount
<1> HIDE DEF F, G
<1>6. G \cap F = F
  BY <1>2
<1>7. /\ IsFiniteSet(G \ F) /\ Cardinality(G \ F) \in Nat
      /\ Cardinality(F) \in Nat /\ Cardinality(G) = Cardinality(G \ F) + Cardinality(F)
  BY <1>5, <1>6, Difference
<1>8. Cardinality(G \ F) = Span(a, b, Cardinality(M))
  BY <1>3, <1>5, <1>7 DEF Span
<1> QED
  BY <1>2, <1>4, <1>7, <1>8 DEF F, G

\* Of the L rows from OFFSET k to b, one goes on by as many as there are; and asking
\* for one row more tells whether that passes everything.
LEMMA Cut ==
  ASSUME NEW R, NEW M, IsFiniteSet(M), Orders(R, M),
         NEW k \in Nat, NEW L \in Nat, L > 0,
         NEW b \in Nat, b = k + L, NEW e \in Nat, e = b + 1,
         NEW P, P = First(R, M, b) \ First(R, M, k),
         NEW E, E = First(R, M, e) \ First(R, M, k), NEW d, d = k + Cardinality(P)
  PROVE  /\ IsFiniteSet(P) /\ Cardinality(P) \in Nat
         /\ First(R, M, d) = First(R, M, b)
         /\ ~(Cardinality(E) > L) => First(R, M, b) = M
<1> DEFINE n == Cardinality(M)
           c == Cardinality(P)
<1>1. n \in Nat /\ k <= b /\ k <= e
  BY FS_CardinalityType
<1> HIDE DEF n
<1>2. ASSUME NEW x \in Nat, k <= x
      PROVE  /\ IsFiniteSet(First(R, M, x) \ First(R, M, k))
             /\ Cardinality(First(R, M, x) \ First(R, M, k)) \in Nat
             /\ Cardinality(First(R, M, x) \ First(R, M, k)) = Span(k, x, n)
  BY <1>2, Slice DEF n
<1>3. IsFiniteSet(P) /\ c \in Nat /\ c = Span(k, b, n)
  BY <1>1, <1>2
<1>4. Cardinality(E) = Span(k, e, n)
  BY <1>1, <1>2
<1> HIDE DEF c
<1>5. \A a \in Nat : n <= a => First(R, M, a) = M
  <2>1. \A t \in M : Place(R, M, t) \in Nat /\ Place(R, M, t) < n
    BY PlaceIsNatural DEF n
  <2> QED
    BY <1>1, <2>1 DEF First
<1>6. First(R, M, k + c) = First(R, M, b)
  <2>1. CASE n <= b
    <3>1. k + c \in Nat /\ n <= k + c
      BY <2>1, <1>1, <1>3 DEF Span, Lesser
    <3> QED
      BY <2>1, <3>1, <1>5
  <2>2. CASE ~(n <= b)
    <3>1. k + c = b
      BY <2>2, <1>1, <1>3 DEF Span, Lesser
    <3> QED
      BY <3>1
  <2> QED
    BY <2>1, <2>2
<1>7. ~(Cardinality(E) > L) => n <= b
  BY <1>1, <1>4 DEF Span, Lesser
<1> QED
  BY <1>1, <1>3, <1>5, <1>6, <1>7 DEF c

LEMMA LimitIsPositive ==
  ASSUME NEW q \in Query
  PROVE  Limit(q) \in Nat /\ Limit(q) > 0
BY PagesAssumption DEF Query, Limit

\* A page is what OFFSET plus the limit passes over and OFFSET does not; the client
\* that goes on by the rows it was given has passed the same, and where there is
\* no more it has passed everything.
LEMMA PageCut ==
  ASSUME Typed(tickets), NEW v, NEW q \in Query, NEW k \in Nat, NEW M, NEW R,
         M = Matching(tickets, v, q), R = Order(tickets, q, M)
  PROVE  /\ Page(v, q, k) = First(R, M, k + Limit(q)) \ First(R, M, k)
         /\ First(R, M, k) \subseteq First(R, M, k + Limit(q))
         /\ First(R, M, k + Limit(q)) \subseteq M
         /\ IsFiniteSet(Page(v, q, k)) /\ Cardinality(Page(v, q, k)) \in Nat
         /\ First(R, M, k + Cardinality(Page(v, q, k))) = First(R, M, k + Limit(q))
         /\ ~HasMore(v, q, k) => First(R, M, k + Limit(q)) = M
<1> DEFINE L == Limit(q)
           b == k + L
<1>1. L \in Nat /\ L > 0 /\ b \in Nat /\ b = k + L
  BY LimitIsPositive
<1>2. /\ IsFiniteSet(M) /\ Orders(R, M)
      /\ \A t \in M : Position(tickets, v, q, t) = Place(R, M, t)
  BY ListIsOrdered
<1>3. \A t \in M : Place(R, M, t) \in Nat
  BY <1>2, PlaceIsNatural
<1> HIDE DEF L
<1>4. Rows(v, q, k) = First(R, M, b + 1) \ First(R, M, k)
  <2>1. Rows(v, q, k) = {t \in M : Place(R, M, t) \in k .. k + L}
    BY <1>2 DEF Rows, L
  <2>2. \A t \in M : Place(R, M, t) \in k .. k + L
                      <=> Place(R, M, t) < b + 1 /\ ~(Place(R, M, t) < k)
    BY <1>1, <1>3
  <2> QED
    BY <2>1, <2>2 DEF First
<1>5. Page(v, q, k) = First(R, M, b) \ First(R, M, k)
  <2>1. Page(v, q, k) = {t \in M : Place(R, M, t) \in k .. k + L /\ Place(R, M, t) < k + L}
    BY <1>2 DEF Rows, Page, L
  <2>2. \A t \in M : Place(R, M, t) \in k .. k + L /\ Place(R, M, t) < k + L
                      <=> Place(R, M, t) < b /\ ~(Place(R, M, t) < k)
    BY <1>1, <1>3
  <2> QED
    BY <2>1, <2>2 DEF First
<1> HIDE DEF b
<1>6. First(R, M, k) \subseteq First(R, M, b) /\ First(R, M, b) \subseteq M
  BY <1>1, <1>3 DEF First
<1>7. /\ IsFiniteSet(Page(v, q, k)) /\ Cardinality(Page(v, q, k)) \in Nat
      /\ First(R, M, k + Cardinality(Page(v, q, k))) = First(R, M, b)
      /\ ~(Cardinality(Rows(v, q, k)) > L) => First(R, M, b) = M
  <2> DEFINE P == Page(v, q, k)
             E == Rows(v, q, k)
             e == b + 1
             d == k + Cardinality(P)
  <2>1. e \in Nat /\ e = b + 1 /\ d = k + Cardinality(P)
    BY <1>1
  <2> HIDE DEF e, d
  <2>2. P = First(R, M, b) \ First(R, M, k) /\ E = First(R, M, e) \ First(R, M, k)
    BY <1>4, <1>5, <2>1
  <2> HIDE DEF P, E
  <2>3. /\ IsFiniteSet(P) /\ Cardinality(P) \in Nat
        /\ First(R, M, d) = First(R, M, b)
        /\ ~(Cardinality(E) > L) => First(R, M, b) = M
    BY <1>1, <1>2, <2>1, <2>2, Cut
  <2> QED
    BY <2>3 DEF P, E, d
<1> QED
  BY <1>5, <1>6, <1>7 DEF L, b, HasMore

-----------------------------------------------------------------------------
(* What walks have lost and may still be given twice. *)

Listed(T, w) == Matching(T, w.viewer, w.query)

Passed(T, w) == First(Order(T, w.query, Listed(T, w)), Listed(T, w), w.skip)

\* What was seen and lies ahead again has come to its place, like what was given
\* twice before; and what has stayed, is passed and was not seen slipped by when a
\* row before it left.
Drifted(T, w) ==
  IF w.more
  THEN /\ w.stayed \subseteq Listed(T, w)
       /\ Cardinality((w.seen \cap Listed(T, w)) \ Passed(T, w)) + w.repeats <= w.came
       /\ Cardinality((w.stayed \ w.seen) \cap Passed(T, w)) <= w.left
  ELSE w.repeats <= w.came /\ Cardinality(w.stayed \ w.seen) <= w.left

LEMMA IdsAreFinite ==
  ASSUME NEW S, S \subseteq Ids
  PROVE  IsFiniteSet(S) /\ Cardinality(S) \in Nat
<1>1. 1 \in Int /\ MaxTickets \in Int
  BY PagesAssumption
<1>2. IsFiniteSet(Ids)
  BY <1>1, FS_Interval, Zenon DEF Ids
<1> QED
  BY <1>2, FS_Subset, FS_CardinalityType

LEMMA WalkFields ==
  ASSUME NEW w \in Walk
  PROVE  /\ w.viewer \in People /\ w.query \in Query /\ w.query \in Queries
         /\ w.skip \in Nat /\ w.more \in BOOLEAN /\ w.seen \subseteq Ids
         /\ w.repeats \in Nat /\ w.stayed \subseteq Ids /\ w.left \in Nat /\ w.came \in Nat
BY PagesAssumption DEF Walk

LEMMA DriftIsBounded ==
  ASSUME NEW T, NEW w \in Walk, Drifted(T, w)
  PROVE  /\ w.repeats <= w.came
         /\ ~w.more => Cardinality(w.stayed \ w.seen) <= w.left
<1>1. CASE w.more
  <2> DEFINE X == (w.seen \cap Listed(T, w)) \ Passed(T, w)
  <2>1. X \subseteq Ids
    BY WalkFields
  <2>2. Cardinality(X) + w.repeats <= w.came
    BY <1>1 DEF Drifted
  <2> HIDE DEF X
  <2>3. Cardinality(X) \in Nat
    BY <2>1, IdsAreFinite
  <2> QED
    BY <1>1, <2>2, <2>3, WalkFields
<1>2. CASE ~w.more
  BY <1>2 DEF Drifted
<1> QED
  BY <1>1, <1>2

\* A page gives again what was seen and lies ahead, and nothing else.
LEMMA ReadDrift ==
  ASSUME Typed(tickets), NEW w \in Walk, w.more, Drifted(tickets, w)
  PROVE  Read(w) \in Walk /\ Drifted(tickets, Read(w))
<1> DEFINE v == w.viewer
           q == w.query
           k == w.skip
           M == Matching(tickets, v, q)
           R == Order(tickets, q, M)
           page == Page(v, q, k)
           c == Cardinality(page)
           more == HasMore(v, q, k)
           rd == [w EXCEPT !.skip = k + c, !.more = more, !.seen = @ \cup page,
                           !.repeats = @ + Cardinality(page \cap w.seen)]
           F == First(R, M, k)
           G == First(R, M, k + c)
<1>1. Read(w) = rd
  BY DEF Read
<1>2. /\ v \in People /\ q \in Queries /\ q \in Query /\ k \in Nat
      /\ w.seen \subseteq Ids /\ w.repeats \in Nat
      /\ w.stayed \subseteq Ids /\ w.left \in Nat /\ w.came \in Nat
  BY WalkFields
<1>3. M \subseteq Ids
  BY <1>2, ListIsOrdered
<1>4. /\ page = G \ F /\ F \subseteq G /\ G \subseteq M /\ c \in Nat
      /\ ~more => G = M
  <2> HIDE DEF M, R
  <2>1. M = Matching(tickets, v, q) /\ R = Order(tickets, q, M)
    BY DEF M, R
  <2> HIDE DEF v, q, k
  <2> QED
    BY <1>2, <2>1, PageCut
<1>5. /\ w.stayed \subseteq M
      /\ Cardinality((w.seen \cap M) \ F) + w.repeats <= w.came
      /\ Cardinality((w.stayed \ w.seen) \cap F) <= w.left
  BY DEF Drifted, Listed, Passed
<1>6. Cardinality(page \cap w.seen) \in Nat /\ more \in BOOLEAN
  BY <1>2, IdsAreFinite DEF HasMore
<1> HIDE DEF more, page, c
<1>7. /\ rd.viewer = v /\ rd.query = q /\ rd.skip = k + c
      /\ rd.more = more /\ rd.seen = w.seen \cup page
      /\ rd.repeats = w.repeats + Cardinality(page \cap w.seen)
      /\ rd.stayed = w.stayed /\ rd.left = w.left /\ rd.came = w.came
  BY DEF Walk
<1>13. rd \in Walk
  <2>1. /\ k + c \in Nat /\ w.seen \cup page \subseteq Ids
        /\ w.repeats + Cardinality(page \cap w.seen) \in Nat
    BY <1>2, <1>3, <1>4, <1>6
  <2> HIDE DEF page, more, c
  <2> QED
    BY <1>2, <1>6, <2>1 DEF Walk
<1> HIDE DEF rd
<1>8. Listed(tickets, rd) = M /\ Passed(tickets, rd) = G
  BY <1>7 DEF Listed, Passed
<1> HIDE DEF M, R, F, G, v, q, k
<1>9. /\ Cardinality((w.seen \cap M) \ G) \in Nat
      /\ Cardinality((w.seen \cap M) \ F) =
           Cardinality((w.seen \cap M) \ G) + Cardinality(page \cap w.seen)
  <2> DEFINE S == (w.seen \cap M) \ F
  <2>1. S \ G = (w.seen \cap M) \ G /\ S \cap G = page \cap w.seen
    BY <1>4
  <2>2. IsFiniteSet(S)
    BY <1>3, IdsAreFinite
  <2> HIDE DEF S
  <2>3. Cardinality(S) = Cardinality(S \ G) + Cardinality(S \cap G)
        /\ Cardinality(S \ G) \in Nat
    BY <2>2, Difference
  <2> QED
    BY <2>1, <2>3 DEF S
<1>10. (rd.stayed \ rd.seen) \cap G = (w.stayed \ w.seen) \cap F
  BY <1>4, <1>7
<1>11. CASE more
  <2>1. (rd.seen \cap M) \ G = (w.seen \cap M) \ G
    BY <1>4, <1>7
  <2>2. Cardinality((w.seen \cap M) \ G) + rd.repeats <= rd.came
    BY <1>2, <1>5, <1>6, <1>7, <1>9
  <2>3. Cardinality((rd.stayed \ rd.seen) \cap G) <= rd.left /\ rd.stayed \subseteq M
    BY <1>5, <1>7, <1>10
  <2> QED
    BY <1>1, <1>7, <1>8, <1>11, <1>13, <2>1, <2>2, <2>3 DEF Drifted
<1>12. CASE ~more
  <2>1. rd.stayed \ rd.seen = (w.stayed \ w.seen) \cap F
    BY <1>4, <1>5, <1>7, <1>10, <1>12
  <2>2. rd.repeats <= rd.came
    BY <1>2, <1>5, <1>6, <1>7, <1>9
  <2> QED
    BY <1>1, <1>5, <1>7, <1>12, <1>13, <2>1, <2>2 DEF Drifted
<1> QED
  BY <1>6, <1>11, <1>12

LEMMA UnionBound ==
  ASSUME NEW A, IsFiniteSet(A), NEW B, IsFiniteSet(B), NEW Y, Y \subseteq A \cup B
  PROVE  Cardinality(Y) <= Cardinality(A) + Cardinality(B)
<1> DEFINE U == A \cup B
<1>1. IsFiniteSet(U) /\ Cardinality(U) = Cardinality(A) + Cardinality(B) - Cardinality(A \cap B)
  BY FS_Union
<1>2. IsFiniteSet(A \cap B)
  BY FS_Intersection
<1> HIDE DEF U
<1>3. Y \in SUBSET U
  BY DEF U
<1>4. IsFiniteSet(Y) /\ Cardinality(Y) <= Cardinality(U)
  BY <1>1, <1>3, FS_Subset
<1>5. /\ Cardinality(A \cap B) \in Nat /\ Cardinality(A) \in Nat /\ Cardinality(B) \in Nat
      /\ Cardinality(Y) \in Nat /\ Cardinality(U) \in Nat
  BY <1>1, <1>2, <1>4, FS_CardinalityType
<1> QED
  BY <1>1, <1>4, <1>5

\* Rows with the same key keep their order among each other.
LEMMA KeptOrder ==
  ASSUME NEW T, NEW U, NEW q, NEW M, NEW N, NEW K, K \subseteq M, K \subseteq N,
         \A t \in K : Key(T, q, t) = Key(U, q, t)
  PROVE  \A s, t \in K : <<s, t>> \in Order(T, q, M) <=> <<s, t>> \in Order(U, q, N)
<1> SUFFICES ASSUME NEW s \in K, NEW t \in K
             PROVE  <<s, t>> \in Order(T, q, M) <=> <<s, t>> \in Order(U, q, N)
  OBVIOUS
<1>1. Before(T, q, s, t) <=> Before(U, q, s, t)
  BY DEF Before
<1>2. <<s, t>> \in Order(T, q, M) <=> Before(T, q, s, t)
  BY DEF Order
<1>3. <<s, t>> \in Order(U, q, N) <=> Before(U, q, s, t)
  BY DEF Order
<1> QED
  BY <1>1, <1>2, <1>3

\* The counting of a commit: F and G are what OFFSET k passes in a list before and
\* after, K what both have in the same order.
LEMMA CommitCounts ==
  ASSUME NEW R, NEW M, M \subseteq Ids, Orders(R, M),
         NEW Q, NEW N, N \subseteq Ids, Orders(Q, N),
         NEW K, K \subseteq M, K \subseteq N,
         \A s, t \in K : <<s, t>> \in R <=> <<s, t>> \in Q, NEW k \in Nat,
         NEW F, F = First(R, M, k), NEW G, G = First(Q, N, k),
         NEW seen, NEW stayed
  PROVE  /\ Cardinality((seen \cap N) \ G)
              <= Cardinality((seen \cap M) \ F) + Cardinality(N \ K)
         /\ Cardinality(((stayed \cap K) \ seen) \cap G)
              <= Cardinality((stayed \ seen) \cap F) + Cardinality(M \ K)
<1>1. IsFiniteSet(M) /\ IsFiniteSet(N)
  BY IdsAreFinite
<1>2. F \subseteq M /\ G \subseteq N
  BY DEF First
<1>3. Cardinality((F \cap K) \ G) <= Cardinality(G \ K)
  BY <1>1, Shift
<1>4. Cardinality((G \cap K) \ F) <= Cardinality(F \ K)
  BY <1>1, Shift
<1>5. Cardinality((seen \cap N) \ G)
        <= Cardinality((seen \cap M) \ F) + Cardinality(N \ K)
  <2> DEFINE X == (seen \cap M) \ F
             B == (F \cap K) \ G
             D == (N \ K) \ G
             Y == (seen \cap N) \ G
  <2>1. Y \subseteq X \cup (B \cup D)
    BY <1>2
  <2>2. X \subseteq Ids /\ B \subseteq Ids /\ D \subseteq Ids /\ N \ K \subseteq Ids /\ B \cup D \subseteq Ids
    OBVIOUS
  <2>3. (N \ K) \cap G = G \ K
    BY <1>2
  <2>4. Cardinality(N \ K) = Cardinality(D) + Cardinality(G \ K)
    <3> DEFINE S == N \ K
    <3>1. IsFiniteSet(S)
      BY <2>2, IdsAreFinite
    <3> HIDE DEF S
    <3>2. Cardinality(S) = Cardinality(S \ G) + Cardinality(S \cap G)
      BY <3>1, Difference
    <3> QED
      BY <2>3, <3>2 DEF S
  <2>5. G \ K \subseteq Ids
    BY <1>2
  <2> HIDE DEF X, B, D, Y
  <2>6. /\ IsFiniteSet(X) /\ IsFiniteSet(B) /\ IsFiniteSet(D) /\ IsFiniteSet(B \cup D)
        /\ Cardinality(X) \in Nat /\ Cardinality(B) \in Nat /\ Cardinality(D) \in Nat
        /\ Cardinality(B \cup D) \in Nat /\ Cardinality(G \ K) \in Nat
    BY <2>2, <2>5, IdsAreFinite
  <2>7. /\ Cardinality(Y) <= Cardinality(X) + Cardinality(B \cup D)
        /\ Cardinality(B \cup D) <= Cardinality(B) + Cardinality(D)
    BY <2>1, <2>6, UnionBound
  <2>8. Cardinality(B) <= Cardinality(G \ K)
    BY <1>3 DEF B
  <2>9. Y \subseteq Ids
    BY DEF Y
  <2>10. Cardinality(Y) \in Nat
    BY <2>9, IdsAreFinite
  <2>11. Cardinality(Y) <= Cardinality(X) + Cardinality(N \ K)
    BY <2>4, <2>6, <2>7, <2>8, <2>10
  <2> QED
    BY <2>11 DEF X, Y
<1>6. Cardinality(((stayed \cap K) \ seen) \cap G)
        <= Cardinality((stayed \ seen) \cap F) + Cardinality(M \ K)
  <2> DEFINE X == (stayed \ seen) \cap F
             B == (G \cap K) \ F
             Y == ((stayed \cap K) \ seen) \cap G
  <2>1. Y \subseteq X \cup B
    OBVIOUS
  <2>2. /\ X \subseteq Ids /\ B \subseteq Ids /\ Y \subseteq Ids /\ F \ K \subseteq Ids
        /\ M \ K \subseteq Ids /\ F \ K \subseteq M \ K
    BY <1>2
  <2> HIDE DEF X, B, Y
  <2>3. /\ IsFiniteSet(X) /\ IsFiniteSet(B) /\ IsFiniteSet(M \ K)
        /\ Cardinality(X) \in Nat /\ Cardinality(B) \in Nat /\ Cardinality(Y) \in Nat
        /\ Cardinality(F \ K) \in Nat /\ Cardinality(M \ K) \in Nat
    BY <2>2, IdsAreFinite
  <2>4. Cardinality(Y) <= Cardinality(X) + Cardinality(B)
    BY <2>1, <2>3, UnionBound
  <2>5. Cardinality(B) <= Cardinality(F \ K)
    BY <1>4 DEF B
  <2>6. Cardinality(F \ K) <= Cardinality(M \ K)
    BY <2>2, <2>3, FS_Subset
  <2>7. Cardinality(Y) <= Cardinality(X) + Cardinality(M \ K)
    BY <2>3, <2>4, <2>5, <2>6
  <2> QED
    BY <2>7 DEF X, Y
<1> QED
  BY <1>5, <1>6

\* What a walk notices of a commit makes up for what the commit shifts.
LEMMA FollowDrift ==
  ASSUME Typed(tickets), NEW T, Typed(T), NEW w \in Walk, Drifted(tickets, w)
  PROVE  Followed(w, T) \in Walk /\ Drifted(T, Followed(w, T))
<1>1. CASE ~w.more
  BY <1>1 DEF Followed, Drifted
<1>2. CASE w.more
  <2> DEFINE v == w.viewer
             q == w.query
             k == w.skip
             M == Matching(tickets, v, q)
             N == Matching(T, v, q)
             K == {t \in M \cap N : Key(tickets, q, t) = Key(T, q, t)}
             R == Order(tickets, q, M)
             Q == Order(T, q, N)
             F == First(R, M, k)
             G == First(Q, N, k)
             fw == [w EXCEPT !.stayed = @ \cap K,
                             !.left = @ + Cardinality(M \ K),
                             !.came = @ + Cardinality(N \ K)]
  <2>1. Followed(w, T) = fw
    BY <1>2 DEF Followed
  <2>2. /\ v \in People /\ q \in Queries /\ q \in Query /\ k \in Nat
        /\ w.seen \subseteq Ids /\ w.repeats \in Nat
        /\ w.stayed \subseteq Ids /\ w.left \in Nat /\ w.came \in Nat
    BY WalkFields
  <2>3. M \subseteq Ids /\ N \subseteq Ids /\ Orders(R, M) /\ Orders(Q, N)
    BY <2>2, ListIsOrdered
  <2>4. K \subseteq M /\ K \subseteq N /\ \A t \in K : Key(tickets, q, t) = Key(T, q, t)
    OBVIOUS
  <2>5. /\ w.stayed \subseteq M
        /\ Cardinality((w.seen \cap M) \ F) + w.repeats <= w.came
        /\ Cardinality((w.stayed \ w.seen) \cap F) <= w.left
    BY <1>2 DEF Drifted, Listed, Passed
  <2> HIDE DEF M, N, K
  <2>6. \A s, t \in K : <<s, t>> \in R <=> <<s, t>> \in Q
    BY <2>4, KeptOrder
  <2>7. /\ fw.viewer = v /\ fw.query = q /\ fw.skip = k
        /\ fw.more = w.more /\ fw.seen = w.seen /\ fw.repeats = w.repeats
        /\ fw.stayed = w.stayed \cap K /\ fw.left = w.left + Cardinality(M \ K)
        /\ fw.came = w.came + Cardinality(N \ K)
    BY DEF Walk
  <2>8. Cardinality(M \ K) \in Nat /\ Cardinality(N \ K) \in Nat
    BY <2>3, IdsAreFinite
  <2>9. fw \in Walk
    <3>1. /\ w.stayed \cap K \subseteq Ids /\ w.left + Cardinality(M \ K) \in Nat
          /\ w.came + Cardinality(N \ K) \in Nat
      BY <2>2, <2>8
    <3> QED
      BY <3>1 DEF Walk
  <2> HIDE DEF fw
  <2>10. Listed(T, fw) = N /\ Passed(T, fw) = G
    BY <2>7 DEF Listed, Passed, N
  <2> HIDE DEF R, Q, F, G, v, q, k
  <2>11. F = First(R, M, k) /\ G = First(Q, N, k)
    BY DEF F, G
  <2>12. /\ Cardinality((w.seen \cap N) \ G)
               <= Cardinality((w.seen \cap M) \ F) + Cardinality(N \ K)
         /\ Cardinality(((w.stayed \cap K) \ w.seen) \cap G)
               <= Cardinality((w.stayed \ w.seen) \cap F) + Cardinality(M \ K)
    BY <2>2, <2>3, <2>4, <2>6, <2>11, CommitCounts
  <2>13. /\ Cardinality((w.seen \cap N) \ G) \in Nat
         /\ Cardinality((w.seen \cap M) \ F) \in Nat
         /\ Cardinality(((w.stayed \cap K) \ w.seen) \cap G) \in Nat
         /\ Cardinality((w.stayed \ w.seen) \cap F) \in Nat
    BY <2>2, IdsAreFinite
  <2>14. Cardinality((w.seen \cap N) \ G) + w.repeats <= w.came + Cardinality(N \ K)
    BY <2>2, <2>5, <2>8, <2>12, <2>13
  <2>15. Cardinality(((w.stayed \cap K) \ w.seen) \cap G) <= w.left + Cardinality(M \ K)
    BY <2>2, <2>5, <2>8, <2>12, <2>13
  <2>16. w.stayed \cap K \subseteq N
    BY <2>4
  <2>17. Drifted(T, fw)
    BY <1>2, <2>7, <2>10, <2>14, <2>15, <2>16 DEF Drifted
  <2> QED
    BY <2>1, <2>9, <2>17
<1> QED
  BY <1>1, <1>2, WalkFields

-----------------------------------------------------------------------------
(* The table under the operations. *)

RowOK(row) ==
  /\ row \in Row
  /\ row.status = "cancelled" => row.archived > 0
  /\ row.owner \notin removed /\ row.technician \notin removed

TableInv ==
  /\ created \in 0 .. MaxTickets
  /\ DOMAIN tickets \subseteq 1 .. created
  /\ \A t \in DOMAIN tickets : RowOK(tickets[t])
  /\ clock \in Times
  /\ removed \subseteq People

WalksInv ==
  /\ DOMAIN walks \subseteq Readers
  /\ \A r \in DOMAIN walks : walks[r] \in Walk /\ Drifted(tickets, walks[r])

LEMMA TableIsTyped ==
  ASSUME TableInv
  PROVE  Typed(tickets)
<1>1. \A t \in 1 .. created : t \in Ids
  BY PagesAssumption DEF TableInv, Ids
<1> QED
  BY <1>1 DEF TableInv, Typed, RowOK

LEMMA NowIsTime ==
  ASSUME TableInv, clock < MaxClock
  PROVE  Now \in Times /\ Now > 0
BY PagesAssumption DEF TableInv, Now, Times

\* The columns that operations write.
Put(row, technician, status, due, archived, events) ==
  [row EXCEPT !.technician = technician, !.status = status, !.due = due,
              !.archived = archived, !.events = events]

LEMMA PutIsRow ==
  ASSUME NEW row \in Row, NEW technician \in Technicians \cup Admins \cup {Nobody},
         NEW status \in Statuses \cup {"cancelled"}, NEW due \in Times, NEW archived \in Times,
         NEW events \in SUBSET (People \X Times),
         technician \notin removed, row.owner \notin removed,
         status = "cancelled" => archived > 0
  PROVE  RowOK(Put(row, technician, status, due, archived, events))
<1> DEFINE new == Put(row, technician, status, due, archived, events)
<1>1. new \in Row
  BY DEF Row, Put
<1>2. /\ new.status = status /\ new.archived = archived /\ new.owner = row.owner
      /\ new.technician = technician
  BY DEF Row, Put
<1> QED
  BY <1>1, <1>2 DEF RowOK

LEMMA WriteTable ==
  ASSUME TableInv, NEW t \in DOMAIN tickets, NEW row, RowOK(row), Write(t, row)
  PROVE  TableInv'
<1>1. /\ clock < MaxClock /\ clock' = Now /\ created' = created /\ removed' = removed
      /\ tickets' = [tickets EXCEPT ![t] = row]
  BY DEF Write, Commit
<1>2. clock' \in Times
  BY <1>1, NowIsTime
<1>3. DOMAIN tickets' = DOMAIN tickets
      /\ \A s \in DOMAIN tickets : tickets'[s] = IF s = t THEN row ELSE tickets[s]
  BY <1>1
<1>4. (\A s \in DOMAIN tickets : RowOK(tickets[s]))'
  BY <1>1, <1>3 DEF TableInv, RowOK
<1> QED
  BY <1>1, <1>2, <1>3, <1>4 DEF TableInv

LEMMA OperateTable ==
  ASSUME TableInv, NEW t \in DOMAIN tickets, NEW u \in People \ removed, Operate(t, u)
  PROVE  TableInv'
<1> DEFINE row == tickets[t]
<1>1. /\ row \in Row /\ row.owner \notin removed /\ row.technician \notin removed
      /\ row.technician \in Technicians \cup Admins \cup {Nobody}
      /\ row.status \in Statuses \cup {"cancelled"} /\ row.due \in Times
      /\ row.archived \in Times /\ row.events \in SUBSET (People \X Times)
      /\ row.status = "cancelled" => row.archived > 0
  BY DEF TableInv, RowOK, Row
<1>2. clock < MaxClock
  BY DEF Operate, Assign, Resolve, Close, Reopen, Comment, Delete, Cancel, Restore, Write, Commit
<1>3. Now \in Times /\ Now > 0 /\ row.events \cup {<<u, Now>>} \in SUBSET (People \X Times)
  BY <1>1, <1>2, NowIsTime
<1>4. 0 \in Times /\ u \notin removed
  BY PagesAssumption DEF Times
<1>13. {"open", "reopened", "in_progress", "resolved", "closed", "cancelled"}
         \subseteq Statuses \cup {"cancelled"}
  BY DEF Statuses
<1> DEFINE logged == row.events \cup {<<u, Now>>}
<1>5. CASE Assign(t, u)
  <2>1. Write(t, Put(row, u, "in_progress", row.due, row.archived, logged))
    BY <1>1, <1>5 DEF Assign, Logged, Row, Put
  <2>2. RowOK(Put(row, u, "in_progress", row.due, row.archived, logged))
    BY <1>1, <1>3, <1>4, <1>5, <1>13, PutIsRow DEF Assign
  <2> QED
    BY <2>1, <2>2, WriteTable
<1>6. CASE Resolve(t, u)
  <2>1. Write(t, Put(row, row.technician, "resolved", row.due, row.archived, logged))
    BY <1>1, <1>6 DEF Resolve, Logged, Row, Put
  <2>2. RowOK(Put(row, row.technician, "resolved", row.due, row.archived, logged))
    BY <1>1, <1>3, <1>4, <1>13, PutIsRow
  <2> QED
    BY <2>1, <2>2, WriteTable
<1>7. CASE Close(t, u)
  <2>1. Write(t, Put(row, row.technician, "closed", row.due, row.archived, logged))
    BY <1>1, <1>7 DEF Close, Logged, Row, Put
  <2>2. RowOK(Put(row, row.technician, "closed", row.due, row.archived, logged))
    BY <1>1, <1>3, <1>4, <1>13, PutIsRow
  <2> QED
    BY <2>1, <2>2, WriteTable
<1>8. CASE Reopen(t, u)
  <2>1. Write(t, Put(row, row.technician, "reopened", Now, row.archived, logged))
    BY <1>1, <1>8 DEF Reopen, Logged, Row, Put
  <2>2. RowOK(Put(row, row.technician, "reopened", Now, row.archived, logged))
    BY <1>1, <1>3, <1>4, <1>13, PutIsRow
  <2> QED
    BY <2>1, <2>2, WriteTable
<1>9. CASE Comment(t, u)
  <2>1. Write(t, Put(row, row.technician, row.status, row.due, row.archived, logged))
    BY <1>1, <1>9 DEF Comment, Logged, Row, Put
  <2>2. RowOK(Put(row, row.technician, row.status, row.due, row.archived, logged))
    BY <1>1, <1>3, <1>4, <1>13, PutIsRow
  <2> QED
    BY <2>1, <2>2, WriteTable
<1>10. CASE Delete(t, u)
  <2>1. Write(t, Put(row, row.technician, row.status, row.due, Now, row.events))
    BY <1>1, <1>10 DEF Delete, Row, Put
  <2>2. RowOK(Put(row, row.technician, row.status, row.due, Now, row.events))
    BY <1>1, <1>3, <1>4, <1>13, PutIsRow
  <2> QED
    BY <2>1, <2>2, WriteTable
<1>11. CASE Cancel(t, u)
  <2>1. Write(t, Put(row, row.technician, "cancelled", row.due, Now, logged))
    BY <1>1, <1>11 DEF Cancel, Logged, Row, Put
  <2>2. RowOK(Put(row, row.technician, "cancelled", row.due, Now, logged))
    BY <1>1, <1>3, <1>4, <1>13, PutIsRow
  <2> QED
    BY <2>1, <2>2, WriteTable
<1>12. CASE Restore(t, u)
  <2>1. CASE row.status = "cancelled"
    <3>1. Write(t, Put(row, row.technician, "open", Now, 0, logged))
      BY <1>1, <1>12, <2>1 DEF Restore, Restored, Logged, Row, Put
    <3>2. RowOK(Put(row, row.technician, "open", Now, 0, logged))
      BY <1>1, <1>3, <1>4, <1>13, PutIsRow
    <3> QED
      BY <3>1, <3>2, WriteTable
  <2>2. CASE row.status # "cancelled"
    <3>1. Write(t, Put(row, row.technician, row.status, row.due, 0, logged))
      BY <1>1, <1>12, <2>2 DEF Restore, Restored, Logged, Row, Put
    <3>2. RowOK(Put(row, row.technician, row.status, row.due, 0, logged))
      BY <1>1, <1>3, <1>4, <2>2, PutIsRow
    <3> QED
      BY <3>1, <3>2, WriteTable
  <2> QED
    BY <2>1, <2>2
<1> QED
  BY <1>5, <1>6, <1>7, <1>8, <1>9, <1>10, <1>11, <1>12 DEF Operate

LEMMA CreateTable ==
  ASSUME TableInv, NEW u \in Users, Create(u)
  PROVE  TableInv'
<1> DEFINE id == created + 1
           row == [owner |-> u, technician |-> Nobody, status |-> "open", due |-> Now,
                   archived |-> 0, events |-> {<<u, Now>>}]
<1>1. /\ u \notin removed /\ created < MaxTickets /\ created' = id /\ removed' = removed
      /\ clock < MaxClock /\ clock' = Now
      /\ tickets' = [t \in DOMAIN tickets \cup {id} |-> IF t = id THEN row ELSE tickets[t]]
  BY DEF Create, Commit
<1>2. Now \in Times /\ 0 \in Times
  BY <1>1, NowIsTime, PagesAssumption DEF Times
<1>3. removed \subseteq People /\ Nobody \notin People
  BY PagesAssumption DEF TableInv
<1>4. row \in Row
  BY <1>2 DEF Row, Statuses, People
<1>5. RowOK(row)
  BY <1>1, <1>3, <1>4 DEF RowOK
<1> HIDE DEF row
<1>6. (\A t \in DOMAIN tickets : RowOK(tickets[t]))'
  BY <1>1, <1>5 DEF TableInv, RowOK
<1>7. created' \in 0 .. MaxTickets /\ DOMAIN tickets' \subseteq 1 .. created'
  BY <1>1, PagesAssumption DEF TableInv
<1> QED
  BY <1>1, <1>2, <1>6, <1>7 DEF TableInv

LEMMA RemovalTable ==
  ASSUME TableInv, NEW u \in People, NEW admin \in People, RemoveAccount(u, admin)
  PROVE  TableInv'
<1>1. /\ removed' = removed \cup {u} /\ created' = created /\ clock' = Now
      /\ clock < MaxClock /\ tickets' = Without(u)
  BY DEF RemoveAccount, Commit
<1>2. clock' \in Times
  BY <1>1, NowIsTime
<1>3. DOMAIN tickets' \subseteq DOMAIN tickets
  BY <1>1 DEF Without
<1>4. ASSUME NEW t \in DOMAIN tickets'
      PROVE  RowOK(tickets[t])'
  <2> DEFINE row == tickets[t]
             technician == IF row.technician = u THEN Nobody ELSE row.technician
             events == {e \in row.events : e[1] # u}
             new == Put(row, technician, row.status, row.due, row.archived, events)
  <2>1. t \in DOMAIN tickets /\ row.owner # u /\ tickets'[t] = new
    BY <1>1 DEF Without, Put, TableInv, RowOK, Row
  <2>2. /\ row \in Row /\ row.owner \notin removed /\ row.technician \notin removed
        /\ row.technician \in Technicians \cup Admins \cup {Nobody}
        /\ row.status \in Statuses \cup {"cancelled"} /\ row.due \in Times
        /\ row.archived \in Times /\ row.events \in SUBSET (People \X Times)
        /\ row.status = "cancelled" => row.archived > 0
    BY <2>1 DEF TableInv, RowOK, Row
  <2>3. /\ technician \in Technicians \cup Admins \cup {Nobody}
        /\ technician \notin removed /\ technician # u
        /\ events \in SUBSET (People \X Times)
    BY <2>2, PagesAssumption DEF TableInv
  <2> HIDE DEF technician, events, row
  <2>4. RowOK(new)
    BY <2>2, <2>3, PutIsRow
  <2>5. new.technician = technician /\ new.owner = row.owner
    BY <2>2 DEF Put, Row
  <2> QED
    BY <1>1, <2>1, <2>3, <2>4, <2>5 DEF RowOK, row
<1> QED
  BY <1>1, <1>2, <1>3, <1>4 DEF TableInv

-----------------------------------------------------------------------------
(* The walks under reads and commits. *)

LEMMA CommitWalks ==
  ASSUME TableInv, WalksInv, TableInv', NEW readers, readers \subseteq DOMAIN walks,
         walks' = [r \in readers |-> Followed(walks[r], tickets')]
  PROVE  WalksInv'
<1>1. Typed(tickets) /\ Typed(tickets')
  <2>1. Typed(tickets)
    BY TableIsTyped
  <2>2. Typed(tickets')
    <3>1. \A t \in 1 .. created' : t \in Ids
      BY PagesAssumption DEF TableInv, Ids
    <3> QED
      BY <3>1 DEF TableInv, Typed, RowOK
  <2> QED
    BY <2>1, <2>2
<1>2. ASSUME NEW r \in readers
      PROVE  walks'[r] \in Walk /\ Drifted(tickets', walks'[r])
  <2>1. walks[r] \in Walk /\ Drifted(tickets, walks[r]) /\ walks'[r] = Followed(walks[r], tickets')
    BY DEF WalksInv
  <2> QED
    BY <1>1, <2>1, FollowDrift
<1>3. DOMAIN walks' = readers
  OBVIOUS
<1>4. ASSUME NEW r \in DOMAIN walks'
      PROVE  (walks[r] \in Walk /\ Drifted(tickets, walks[r]))'
  BY <1>2, <1>3, <1>4
<1> QED
  BY <1>3, <1>4 DEF WalksInv

LEMMA ReadWalks ==
  ASSUME TableInv, WalksInv, NEW r \in Readers, NEW w \in Walk, w.more, Drifted(tickets, w),
         walks' = Walked(r, Read(w)), UNCHANGED <<tickets, created, clock, removed>>
  PROVE  TableInv' /\ WalksInv'
<1>1. TableInv'
  BY DEF TableInv, RowOK
<1>2. Read(w) \in Walk /\ Drifted(tickets, Read(w))
  BY TableIsTyped, ReadDrift
<1>3. /\ DOMAIN walks' = DOMAIN walks \cup {r} /\ walks'[r] = Read(w)
      /\ \A s \in DOMAIN walks \ {r} : walks'[s] = walks[s]
  BY DEF Walked
<1>4. ASSUME NEW s \in DOMAIN walks'
      PROVE  walks'[s] \in Walk /\ Drifted(tickets, walks'[s])
  BY <1>2, <1>3 DEF WalksInv
<1>5. tickets' = tickets
  OBVIOUS
<1>6. WalksInv'
  BY <1>3, <1>4, <1>5 DEF WalksInv
<1> QED
  BY <1>1, <1>6

LEMMA BeginWalks ==
  ASSUME TableInv, WalksInv, NEW r \in Readers, NEW v \in People, NEW q \in Queries,
         Begin(r, v, q)
  PROVE  TableInv' /\ WalksInv'
<1> DEFINE w == [viewer |-> v, query |-> q, skip |-> 0, more |-> TRUE,
                 seen |-> {}, repeats |-> 0, left |-> 0, came |-> 0,
                 stayed |-> Matching(tickets, v, q)]
<1>1. /\ walks' = Walked(r, Read(w))
      /\ UNCHANGED <<tickets, created, clock, removed>>
  BY DEF Begin
<1>2. q \in Query /\ Typed(tickets)
  BY PagesAssumption, TableIsTyped
<1>3. Matching(tickets, v, q) \subseteq Ids
  BY <1>2, ListIsOrdered
<1>4. w \in Walk
  BY <1>3 DEF Walk
<1>5. /\ w.more /\ w.stayed = Matching(tickets, v, q) /\ w.seen = {} /\ w.skip = 0
      /\ w.repeats = 0 /\ w.left = 0 /\ w.came = 0 /\ w.viewer = v /\ w.query = q
  OBVIOUS
<1> HIDE DEF w
<1>6. Passed(tickets, w) = {}
  <2> DEFINE M == Matching(tickets, v, q)
             R == Order(tickets, q, M)
  <2>1. IsFiniteSet(M) /\ Orders(R, M)
    BY <1>2, ListIsOrdered
  <2>2. \A t \in M : Place(R, M, t) \in Nat
    <3> HIDE DEF M, R
    <3> QED
      BY <2>1, PlaceIsNatural
  <2>3. Passed(tickets, w) = First(R, M, 0)
    BY <1>5 DEF Passed, Listed
  <2> HIDE DEF M, R
  <2> QED
    BY <2>2, <2>3 DEF First
<1>7. Drifted(tickets, w)
  <2>1. /\ (w.seen \cap Listed(tickets, w)) \ Passed(tickets, w) = {}
        /\ (w.stayed \ w.seen) \cap Passed(tickets, w) = {}
    BY <1>5, <1>6
  <2>2. w.stayed \subseteq Listed(tickets, w)
    BY <1>5 DEF Listed
  <2> QED
    BY <1>5, <2>1, <2>2, FS_EmptySet DEF Drifted
<1> QED
  BY <1>1, <1>4, <1>5, <1>7, ReadWalks

\* The invariant of the proofs: the table keeps its shape, each walk has drifted by
\* what it has noticed.
PagesInv == TableInv /\ WalksInv

LEMMA PagesInit == Init => PagesInv
<1> SUFFICES ASSUME Init
             PROVE  PagesInv
  OBVIOUS
<1>1. PICK n \in 0 .. MaxTickets : Seed \in [1 .. n -> Row]
  BY PagesAssumption
<1>2. DOMAIN Seed = 1 .. n /\ n \in Nat
  BY <1>1
<1>3. Cardinality(1 .. n) = n
  <2>1. 1 \in Int /\ n \in Int
    BY <1>2
  <2>2. Cardinality(1 .. n) = IF 1 > n THEN 0 ELSE n - 1 + 1
    BY <2>1, FS_Interval, Zenon
  <2> QED
    BY <1>2, <2>2
<1>4. created = n /\ tickets = Seed /\ clock = Started /\ removed = {}
  BY <1>2, <1>3 DEF Init
<1>5. \A t \in DOMAIN tickets : RowOK(tickets[t])
  BY <1>1, <1>4, PagesAssumption DEF RowOK
<1>6. TableInv
  BY <1>1, <1>2, <1>4, <1>5, PagesAssumption DEF TableInv
<1>7. DOMAIN walks = {}
  BY DEF Init
<1> QED
  BY <1>6, <1>7 DEF PagesInv, WalksInv

LEMMA PagesStep ==
  ASSUME PagesInv, [Next]_vars
  PROVE  PagesInv'
<1>0. TableInv /\ WalksInv
  BY DEF PagesInv
<1>1. ASSUME NEW r \in Readers, NEW v \in People, NEW q \in Queries, Begin(r, v, q)
      PROVE  PagesInv'
  BY <1>0, <1>1, BeginWalks DEF PagesInv
<1>2. ASSUME NEW r \in Readers, GoOn(r)
      PROVE  PagesInv'
  <2>1. walks[r] \in Walk /\ walks[r].more /\ Drifted(tickets, walks[r])
    BY <1>0, <1>2 DEF GoOn, WalksInv
  <2>2. walks' = Walked(r, Read(walks[r])) /\ UNCHANGED <<tickets, created, clock, removed>>
    BY <1>2 DEF GoOn
  <2> QED
    BY <1>0, <2>1, <2>2, ReadWalks DEF PagesInv
<1>3. ASSUME NEW r \in Readers, Stop(r)
      PROVE  PagesInv'
  <2>1. TableInv'
    BY <1>0, <1>3 DEF Stop, TableInv, RowOK
  <2>2. WalksInv'
    BY <1>0, <1>3 DEF Stop, WalksInv, Restrict
  <2> QED
    BY <2>1, <2>2 DEF PagesInv
<1>4. ASSUME NEW u \in Users, Create(u)
      PROVE  PagesInv'
  <2>1. TableInv'
    BY <1>0, <1>4, CreateTable
  <2>2. walks' = [r \in DOMAIN walks |-> Followed(walks[r], tickets')]
    BY <1>4 DEF Create, Commit
  <2> QED
    BY <1>0, <2>1, <2>2, CommitWalks DEF PagesInv
<1>5. ASSUME NEW t \in DOMAIN tickets, NEW u \in People \ removed, Operate(t, u)
      PROVE  PagesInv'
  <2>1. TableInv'
    BY <1>0, <1>5, OperateTable
  <2>2. walks' = [r \in DOMAIN walks |-> Followed(walks[r], tickets')]
    BY <1>5 DEF Operate, Assign, Resolve, Close, Reopen, Comment, Delete, Cancel, Restore,
                Write, Commit
  <2> QED
    BY <1>0, <2>1, <2>2, CommitWalks DEF PagesInv
<1>6. ASSUME NEW u \in People, NEW admin \in People, RemoveAccount(u, admin)
      PROVE  PagesInv'
  <2>1. TableInv'
    BY <1>0, <1>6, RemovalTable
  <2>2. walks' = [r \in {x \in DOMAIN walks : walks[x].viewer # u} |->
                    Followed(walks[r], tickets')]
    BY <1>6 DEF RemoveAccount, Commit
  <2> QED
    BY <1>0, <2>1, <2>2, CommitWalks DEF PagesInv
<1>7. CASE UNCHANGED vars
  BY <1>0, <1>7 DEF vars, PagesInv, TableInv, WalksInv, RowOK
<1> QED
  BY <1>1, <1>2, <1>3, <1>4, <1>5, <1>6, <1>7 DEF Next

THEOREM PagesInvariance == Spec => []PagesInv
<1>1. PagesInv /\ [Next]_vars => PagesInv'
  BY PagesStep
<1> QED
  BY <1>1, PagesInit, PTL DEF Spec

\* Tickets, clock, accounts and walks keep their shape under every operation, and
\* only an archived ticket is cancelled.
THEOREM PageTypes == Spec => []TypeOK
<1>1. PagesInv => TypeOK
  BY DEF PagesInv, TableInv, WalksInv, RowOK, TypeOK
<1> QED
  BY <1>1, PagesInvariance, PTL

\* However many operations commit between the pages and whatever the list, its
\* order and the size of its pages, a row that stayed in its place is missed, and
\* a row is given twice, only by as many as left or came to their places.
THEOREM PagesDriftByCommits == Spec => []WalkDrift
<1>1. PagesInv => WalkDrift
  BY DriftIsBounded DEF PagesInv, WalksInv, WalkDrift
<1> QED
  BY <1>1, PagesInvariance, PTL

\* The visibility of lists, of single tickets and of the dashboard's counts is
\* written several times over in the code, and they agree for every reader.
THEOREM ListsStayAgreed == Spec => []ListsAgree
<1>1. ASSUME TableInv, NEW v \in People
      PROVE  /\ Visible(tickets, v) = {t \in DOMAIN tickets : CanView(v, tickets[t])}
             /\ Archive(tickets, v) = {t \in DOMAIN tickets : CanViewArchived(v, tickets[t])}
             /\ v \in Technicians =>
                  /\ Visible(tickets, v) = Personal(tickets, v) \cup Queue(tickets)
                  /\ Personal(tickets, v) \cap Queue(tickets) = {}
                  /\ MyActive(tickets, v) \subseteq Personal(tickets, v)
             /\ v \notin Technicians => Visible(tickets, v) = Personal(tickets, v)
  <2>1. /\ Visible(tickets, v) = {t \in DOMAIN tickets : CanView(v, tickets[t])}
        /\ Archive(tickets, v) = {t \in DOMAIN tickets : CanViewArchived(v, tickets[t])}
    BY <1>1 DEF TableInv, RowOK, Row, Visible, CanView, Archive, CanViewArchived
  <2>2. CASE v \in Technicians
    <3>1. v \notin Users /\ v \notin Admins /\ v # Nobody
      BY <2>2, PagesAssumption DEF People
    <3> QED
      BY <2>1, <2>2, <3>1 DEF Visible, Personal, Queue, Queued, MyActive
  <2>3. CASE v \notin Technicians
    <3>1. CASE v \in Users
      <4>1. v \notin Admins
        BY <3>1, PagesAssumption DEF People
      <4> QED
        BY <2>1, <2>3, <3>1, <4>1 DEF Visible, Personal
    <3>2. CASE v \in Admins
      <4>1. v \notin Users
        BY <3>2, PagesAssumption DEF People
      <4> QED
        BY <2>1, <2>3, <3>2, <4>1 DEF Visible, Personal
    <3> QED
      BY <2>3, <3>1, <3>2 DEF People
  <2> QED
    BY <2>1, <2>2, <2>3
<1>2. PagesInv => ListsAgree
  BY <1>1 DEF PagesInv, ListsAgree
<1> QED
  BY <1>2, PagesInvariance, PTL

=============================================================================
