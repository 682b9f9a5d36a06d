---------------------------- MODULE LedgersProofs ----------------------------
(***************************************************************************)
(* What overlapping upserts leave in the ledgers, for any number of        *)
(* sessions and topics, and whatever is passed to the upserts.             *)
(***************************************************************************)
EXTENDS Ledgers, SequenceTheorems, WellFoundedInduction, TLAPS

----------------------------------------------------------------------------
(***************************************************************************)
(* Numbers and positions.                                                  *)
(***************************************************************************)
LEMMA LeastNumber ==
  ASSUME NEW T \in SUBSET Nat, T # {}
  PROVE  \E x \in T : \A y \in T : x <= y
<1> DEFINE Smaller == {ss \in Nat \X Nat : ss[1] < ss[2]}
<1>1. Smaller = OpToRel(<, Nat)
  BY DEF OpToRel
<1> HIDE DEF Smaller
<1>2. IsWellFoundedOn(Smaller, Nat)
  BY <1>1, NatLessThanWellFounded, Zenon
<1>3. PICK x \in T : \A y \in T : <<y, x>> \notin Smaller
  BY <1>2, WFMin
<1>4. ASSUME NEW y \in T
      PROVE  x <= y
  <2>1. x \in Nat /\ y \in Nat
    OBVIOUS
  <2>2. y < x => <<y, x>> \in Smaller
    BY <2>1 DEF Smaller
  <2>3. QED
    BY <1>3, <2>1, <2>2
<1>5. QED
  BY <1>4

LEMMA LeastPosition ==
  ASSUME NEW n \in Nat, NEW J \in SUBSET (1..n), J # {}
  PROVE  Min(J) \in J /\ \A j \in J : Min(J) <= j
<1>1. \E i \in J : \A j \in J : i <= j
  BY LeastNumber
<1>2. QED
  BY <1>1 DEF Min

LEMMA GreatestPosition ==
  ASSUME NEW n \in Nat, NEW J \in SUBSET (1..n), J # {}
  PROVE  Max(J) \in J /\ \A j \in J : j <= Max(J)
<1> DEFINE T == {n - i : i \in J}
<1>1. T \in SUBSET Nat /\ T # {}
  <2>1. \A i \in J : n - i \in Nat
    OBVIOUS
  <2>2. QED
    BY <2>1
<1>2. PICK x \in T : \A y \in T : x <= y
  BY <1>1, LeastNumber
<1>3. PICK i \in J : x = n - i
  OBVIOUS
<1>4. \A j \in J : n - j \in T
  OBVIOUS
<1>5. \A j \in J : i >= j
  <2> HIDE DEF T
  <2>1. SUFFICES ASSUME NEW j \in J PROVE i >= j
    OBVIOUS
  <2>2. n - i <= n - j
    BY <1>2, <1>3, <1>4
  <2>3. i \in 1..n /\ j \in 1..n
    OBVIOUS
  <2>4. QED
    BY <2>2, <2>3
<1>6. \E k \in J : \A j \in J : k >= j
  BY <1>5
<1>7. Max(J) \in J /\ \A j \in J : Max(J) >= j
  BY <1>6 DEF Max
<1>8. QED
  BY <1>7

(***************************************************************************)
(* The total of a sequence of numbers exists, and grows by what is added.  *)
(***************************************************************************)
Adds(t, n, q) == t[0] = 0 /\ \A j \in 1..n : t[j] = t[j - 1] + q[j]
IsRunning(t, n, q) == t \in [0..n -> Nat] /\ Adds(t, n, q)

LEMMA RunningExists ==
  ASSUME NEW q \in Seq(Nat)
  PROVE  \E t \in [0..Len(q) -> Nat] : IsRunning(t, Len(q), q)
<1> DEFINE T == {n \in 0..Len(q) : ~ \E t \in [0..n -> Nat] : IsRunning(t, n, q)}
<1>1. SUFFICES ASSUME T # {} PROVE FALSE
  <2>1. Len(q) \in 0..Len(q)
    OBVIOUS
  <2>2. QED
    BY <2>1
<1>2. PICK n \in T : \A m \in T : n <= m
  <2>1. T \in SUBSET Nat
    OBVIOUS
  <2>2. QED
    BY <1>1, <2>1, LeastNumber
<1>3. n # 0
  <2>1. IsRunning([j \in 0..0 |-> 0], 0, q)
    BY DEF IsRunning, Adds
  <2>2. [j \in 0..0 |-> 0] \in [0..0 -> Nat]
    OBVIOUS
  <2>3. QED
    BY <2>1, <2>2
<1>4. n \in 1..Len(q) /\ n - 1 \in 0..Len(q) /\ n - 1 \notin T
  <2>1. n \in 0..Len(q)
    BY <1>2
  <2> HIDE DEF T
  <2>2. n \in 1..Len(q) /\ n - 1 \in 0..Len(q) /\ ~(n <= n - 1)
    BY <1>3, <2>1
  <2>3. QED
    BY <1>2, <2>2
<1>5. PICK t \in [0..(n - 1) -> Nat] : IsRunning(t, n - 1, q)
  BY <1>4
<1> DEFINE u == [j \in 0..n |-> IF j = n THEN t[n - 1] + q[n] ELSE t[j]]
<1>6. q[n] \in Nat /\ t[n - 1] \in Nat
  BY <1>4, <1>5
<1>7. u \in [0..n -> Nat]
  <2>1. ASSUME NEW j \in 0..n, j # n
        PROVE  t[j] \in Nat
    BY <1>4, <1>5, <2>1
  <2>2. QED
    BY <1>6, <2>1
<1>8. u[0] = 0
  BY <1>4, <1>5 DEF IsRunning, Adds
<1>9. ASSUME NEW j \in 1..n
      PROVE  u[j] = u[j - 1] + q[j]
  <2>1. j - 1 \in 0..n /\ j - 1 # n /\ j \in 0..n
    BY <1>4
  <2>2. u[j - 1] = t[j - 1]
    BY <2>1
  <2>3. CASE j = n
    BY <2>1, <2>2, <2>3
  <2>4. CASE j # n
    <3>1. j \in 1..(n - 1)
      BY <1>4, <2>4
    <3>2. QED
      BY <1>5, <2>1, <2>2, <2>4, <3>1 DEF IsRunning, Adds
  <2>5. QED
    BY <2>3, <2>4
<1>10. IsRunning(u, n, q)
  BY <1>7, <1>8, <1>9 DEF IsRunning, Adds
<1>11. QED
  BY <1>7, <1>10

LEMMA RunningUnique ==
  ASSUME NEW n \in Nat, NEW q, NEW t, NEW u, Adds(t, n, q), Adds(u, n, q)
  PROVE  \A j \in 0..n : t[j] = u[j]
<1> DEFINE T == {j \in 0..n : t[j] # u[j]}
<1>1. SUFFICES ASSUME T # {} PROVE FALSE
  OBVIOUS
<1> USE DEF Adds
<1>2. PICK j \in T : \A i \in T : j <= i
  <2>1. T \in SUBSET Nat
    OBVIOUS
  <2>2. QED
    BY <1>1, <2>1, LeastNumber
<1>3. j \in 1..n /\ j - 1 \in 0..n /\ j - 1 \notin T
  BY <1>2
<1>4. t[j - 1] = u[j - 1]
  BY <1>3
<1>5. QED
  BY <1>2, <1>3, <1>4

LEMMA RunningType ==
  ASSUME NEW q \in Seq(Nat)
  PROVE  IsRunning(Running(q), Len(q), q)
<1> DEFINE n == Len(q)
           step(t) == [j \in 0..n |-> IF j = 0 THEN 0 ELSE t[j - 1] + q[j]]
<1>1. PICK t \in [0..n -> Nat] : IsRunning(t, n, q)
  BY RunningExists
<1>2. n \in Nat
  OBVIOUS
<1>3. t = step(t)
  <2>1. \A j \in 0..n : t[j] = step(t)[j]
    BY <1>1, <1>2 DEF IsRunning, Adds
  <2>2. QED
    BY <1>1, <2>1
<1>4. Running(q) = CHOOSE u : u = step(u)
  BY DEF Running
<1>5. PICK u : u = Running(q)
  OBVIOUS
<1>6. u = step(u)
  BY <1>3, <1>4, <1>5
<1>7. /\ DOMAIN u = 0..n /\ u[0] = 0
      /\ \A j \in 1..n : u[j] = u[j - 1] + q[j]
  BY <1>2, <1>6
<1>8. \A j \in 0..n : u[j] = t[j]
  <2>1. Adds(t, n, q)
    BY <1>1 DEF IsRunning
  <2>2. Adds(u, n, q)
    BY <1>7 DEF Adds
  <2>3. QED
    BY <1>2, <2>1, <2>2, RunningUnique
<1>9. u = t
  <2>1. u = [j \in 0..n |-> u[j]]
    BY <1>6, <1>7
  <2>2. QED
    BY <1>1, <1>8, <2>1
<1>10. QED
  BY <1>1, <1>5, <1>9

LEMMA TotalGrows ==
  ASSUME NEW q \in Seq(Nat), NEW x \in Nat
  PROVE  Total(Append(q, x)) = Total(q) + x
<1> DEFINE n == Len(q)
           r == Append(q, x)
<1>1. n \in Nat /\ r \in Seq(Nat) /\ Len(r) = n + 1 /\ r[n + 1] = x
      /\ \A j \in 1..n : r[j] = q[j]
  OBVIOUS
<1> HIDE DEF r
<1>2. IsRunning(Running(q), n, q) /\ IsRunning(Running(r), n + 1, r)
  BY <1>1, RunningType
<1>3. PICK t, u : t = Running(q) /\ u = Running(r)
  OBVIOUS
<1>4. Adds(t, n, q) /\ Adds(u, n, q)
  BY <1>1, <1>2, <1>3 DEF IsRunning, Adds
<1>5. t[n] = u[n]
  <2>1. \A j \in 0..n : t[j] = u[j]
    BY <1>1, <1>4, RunningUnique
  <2>2. QED
    BY <1>1, <2>1
<1>6. u[n + 1] = u[n] + x
  <2>1. n + 1 \in 1..(n + 1) /\ (n + 1) - 1 = n
    BY <1>1
  <2>2. u[n + 1] = u[(n + 1) - 1] + r[n + 1]
    BY <1>2, <1>3, <2>1 DEF IsRunning, Adds
  <2>3. QED
    BY <1>1, <2>1, <2>2
<1>7. QED
  BY <1>1, <1>3, <1>5, <1>6 DEF Total, r

LEMMA TotalOfOne ==
  ASSUME NEW x \in Nat
  PROVE  Total(<<x>>) = x
<1>1. <<x>> \in Seq(Nat) /\ Len(<<x>>) = 1 /\ <<x>>[1] = x
  OBVIOUS
<1>2. IsRunning(Running(<<x>>), 1, <<x>>)
  BY <1>1, RunningType
<1>3. QED
  BY <1>1, <1>2 DEF IsRunning, Adds, Total

----------------------------------------------------------------------------
(***************************************************************************)
(* What one more call does to what a column was told.                      *)
(***************************************************************************)
LEMMA OneMore ==
  ASSUME NEW S, NEW q \in Seq(S), NEW x \in S
  PROVE  /\ Len(q) \in Nat /\ DOMAIN q = 1..Len(q)
         /\ Append(q, x) \in Seq(S) /\ Len(Append(q, x)) = Len(q) + 1
         /\ DOMAIN Append(q, x) = 1..(Len(q) + 1)
         /\ Append(q, x)[Len(q) + 1] = x
         /\ \A j \in 1..Len(q) : Append(q, x)[j] = q[j]
  OBVIOUS

LEMMA FirstGrows ==
  ASSUME NEW S, NEW q \in Seq(S), NEW x \in S, NEW nothing
  PROVE  First(Append(q, x), nothing) =
            IF First(q, nothing) = nothing THEN x ELSE First(q, nothing)
<1> DEFINE r == Append(q, x)
           n == Len(q)
           J == {j \in DOMAIN q : q[j] # nothing}
           I == {j \in DOMAIN r : r[j] # nothing}
<1>1. /\ n \in Nat /\ DOMAIN q = 1..n /\ DOMAIN r = 1..(n + 1) /\ r[n + 1] = x
      /\ \A j \in 1..n : r[j] = q[j]
  BY OneMore
<1> HIDE DEF r, n
<1>2. I = J \cup (IF x # nothing THEN {n + 1} ELSE {})
  BY <1>1
<1>3. J \in SUBSET (1..n) /\ I \in SUBSET (1..(n + 1)) /\ n + 1 \in Nat
  BY <1>1
<1>4. /\ First(q, nothing) = IF J = {} THEN nothing ELSE q[Min(J)]
      /\ First(r, nothing) = IF I = {} THEN nothing ELSE r[Min(I)]
  BY DEF First
<1>5. CASE J = {}
  <2>1. First(q, nothing) = nothing
    BY <1>4, <1>5
  <2>2. CASE x = nothing
    BY <1>2, <1>4, <1>5, <2>1, <2>2 DEF r
  <2>3. CASE x # nothing
    <3>1. I # {} /\ I = {n + 1}
      BY <1>2, <1>5, <2>3
    <3>2. Min(I) = n + 1
      BY <1>3, <3>1, LeastPosition
    <3>3. QED
      BY <1>1, <1>4, <2>1, <3>1, <3>2 DEF r
  <2>4. QED
    BY <2>2, <2>3
<1>6. CASE J # {}
  <2>1. Min(J) \in J /\ \A j \in J : Min(J) <= j
    BY <1>1, <1>3, <1>6, LeastPosition
  <2>2. First(q, nothing) = q[Min(J)] /\ q[Min(J)] # nothing
    BY <1>4, <1>6, <2>1
  <2>3. I # {} /\ Min(I) \in I /\ \A j \in I : Min(I) <= j
    <3>1. I # {}
      BY <1>2, <1>6
    <3> HIDE DEF I
    <3>2. QED
      BY <1>3, <3>1, LeastPosition
  <2>4. Min(I) = Min(J)
    <3>1. Min(J) \in I /\ Min(J) \in 1..n
      BY <1>2, <1>3, <2>1
    <3>2. Min(I) <= Min(J) /\ Min(I) \in 1..(n + 1)
      BY <1>3, <2>3, <3>1
    <3>3. Min(I) \in J
      BY <1>1, <1>2, <2>3, <3>1, <3>2
    <3>4. Min(J) <= Min(I)
      <4> HIDE DEF I, J
      <4>1. QED
        BY <2>1, <3>3
    <3> HIDE DEF I, J
    <3>5. QED
      BY <1>1, <3>1, <3>2, <3>4
  <2>5. QED
    BY <1>1, <1>3, <1>4, <2>1, <2>2, <2>3, <2>4 DEF r
<1>7. QED
  BY <1>5, <1>6

\* Likewise where each position counts or not.
LEMMA GreatestOfMore ==
  ASSUME NEW n \in Nat, NEW J \in SUBSET (1..n)
  PROVE  Max(J \cup {n + 1}) = n + 1
<1> DEFINE I == J \cup {n + 1}
<1>1. I \in SUBSET (1..(n + 1)) /\ I # {} /\ n + 1 \in Nat /\ n + 1 \in I
  OBVIOUS
<1> HIDE DEF I
<1>2. Max(I) \in I /\ n + 1 <= Max(I)
  BY <1>1, GreatestPosition
<1>3. Max(I) \in 1..(n + 1)
  BY <1>1, <1>2
<1>4. QED
  BY <1>2, <1>3 DEF I

LEMMA LastGrows ==
  ASSUME NEW S, NEW q \in Seq(S), NEW x \in S, NEW nothing
  PROVE  Last(Append(q, x), nothing) = IF x # nothing THEN x ELSE Last(q, nothing)
<1> DEFINE r == Append(q, x)
           n == Len(q)
           J == {j \in DOMAIN q : q[j] # nothing}
           I == {j \in DOMAIN r : r[j] # nothing}
<1>1. /\ n \in Nat /\ DOMAIN q = 1..n /\ DOMAIN r = 1..(n + 1) /\ r[n + 1] = x
      /\ \A j \in 1..n : r[j] = q[j]
  BY OneMore
<1> HIDE DEF r, n
<1>2. J \in SUBSET (1..n) /\ I = IF x # nothing THEN J \cup {n + 1} ELSE J
  BY <1>1
<1>3. /\ Last(q, nothing) = IF J = {} THEN nothing ELSE q[Max(J)]
      /\ Last(r, nothing) = IF I = {} THEN nothing ELSE r[Max(I)]
  BY DEF Last
<1>4. CASE x # nothing
  <2>1. I = J \cup {n + 1} /\ I # {}
    BY <1>2, <1>4
  <2>2. Max(I) = n + 1
    BY <1>1, <1>2, <2>1, GreatestOfMore
  <2>3. QED
    BY <1>1, <1>3, <1>4, <2>1, <2>2 DEF r
<1>5. CASE x = nothing
  <2>1. I = J
    BY <1>2, <1>5
  <2>2. J # {} => Max(J) \in 1..n
    <3> HIDE DEF J
    <3>1. QED
      BY <1>1, <1>2, GreatestPosition
  <2>3. QED
    BY <1>1, <1>3, <1>5, <2>1, <2>2 DEF r
<1>6. QED
  BY <1>4, <1>5

(* There is a greatest of any numbers told. *)
LEMMA GreatestOfSome ==
  ASSUME NEW q \in Seq(Nat), q # << >>
  PROVE  \E i \in DOMAIN q : \A j \in DOMAIN q : q[j] <= q[i]
<1> DEFINE Tops(n) == \E i \in 1..n : \A j \in 1..n : q[j] <= q[i]
           T == {n \in 1..Len(q) : ~Tops(n)}
<1>1. Len(q) \in Nat /\ DOMAIN q = 1..Len(q) /\ Len(q) \in 1..Len(q)
  <2>1. Len(q) \in Nat /\ DOMAIN q = 1..Len(q)
    OBVIOUS
  <2>2. Len(q) # 0
    BY EmptySeq
  <2>3. QED
    BY <2>1, <2>2
<1>2. T = {}
  <2>1. SUFFICES ASSUME T # {} PROVE FALSE
    OBVIOUS
  <2> HIDE DEF Tops
  <2>2. PICK n \in T : \A m \in T : n <= m
    <3>1. T \in SUBSET Nat
      OBVIOUS
    <3>2. QED
      BY <2>1, <3>1, LeastNumber
  <2>3. n \in 1..Len(q) /\ ~Tops(n)
    BY <2>2
  <2>4. n # 1
    BY <1>1, <2>3 DEF Tops
  <2>5. n - 1 \in 1..Len(q) /\ ~(n <= n - 1)
    BY <1>1, <2>3, <2>4
  <2>6. Tops(n - 1)
    BY <2>2, <2>5
  <2>7. PICK i \in 1..(n - 1) : \A j \in 1..(n - 1) : q[j] <= q[i]
    BY <2>6 DEF Tops
  <2>8. q[i] \in Nat /\ q[n] \in Nat /\ i \in 1..n /\ n \in 1..n
    BY <1>1, <2>3, <2>5, <2>7
  <2>9. \A j \in 1..n : q[j] \in Nat /\ (j = n \/ j \in 1..(n - 1))
    BY <1>1, <2>3
  <2>10. CASE q[n] <= q[i]
    <3>1. \A j \in 1..n : q[j] <= q[i]
      BY <2>7, <2>9, <2>10
    <3>2. QED
      BY <2>3, <2>8, <3>1 DEF Tops
  <2>11. CASE q[i] <= q[n]
    <3>1. \A j \in 1..n : q[j] <= q[n]
      BY <2>7, <2>8, <2>9, <2>11
    <3>2. QED
      BY <2>3, <2>8, <3>1 DEF Tops
  <2>12. QED
    BY <2>8, <2>10, <2>11
<1>3. QED
  BY <1>1, <1>2

(* So there is one of those that were given, if any was: what is not given counts less *)
(* than 0.                                                                             *)
LEMMA GreatestGiven ==
  ASSUME NEW nothing, nothing \notin Nat, NEW q \in Seq(Nat \cup {nothing}),
         NEW k \in DOMAIN q, q[k] # nothing
  PROVE  /\ Greatest(q, nothing) \in Nat
         /\ \E j \in DOMAIN q : Greatest(q, nothing) = q[j]
         /\ \A j \in DOMAIN q : q[j] # nothing => q[j] <= Greatest(q, nothing)
<1> DEFINE h == [j \in 1..Len(q) |-> IF q[j] = nothing THEN 0 ELSE q[j] + 1]
           G == {q[j] : j \in DOMAIN q} \ {nothing}
<1>1. Len(q) \in Nat /\ DOMAIN q = 1..Len(q) /\ \A j \in 1..Len(q) : q[j] \in Nat \cup {nothing}
  OBVIOUS
<1>2. h \in Seq(Nat) /\ DOMAIN h = 1..Len(q) /\ h # << >>
  <2>1. \A j \in 1..Len(q) : (IF q[j] = nothing THEN 0 ELSE q[j] + 1) \in Nat
    BY <1>1
  <2>2. h \in [1..Len(q) -> Nat]
    BY <2>1
  <2>3. h \in Seq(Nat) /\ DOMAIN h = 1..Len(q)
    BY <1>1, <2>2
  <2>4. k \in DOMAIN h /\ DOMAIN << >> = {}
    BY <1>1
  <2>5. QED
    BY <2>3, <2>4
<1>3. PICK i \in 1..Len(q) : \A j \in 1..Len(q) : h[j] <= h[i]
  BY <1>2, GreatestOfSome
<1>4. \A j \in 1..Len(q) : h[j] = IF q[j] = nothing THEN 0 ELSE q[j] + 1
  OBVIOUS
<1> HIDE DEF h
<1>5. q[k] \in Nat /\ h[k] = q[k] + 1 /\ h[k] <= h[i]
  BY <1>1, <1>3, <1>4
<1>6. q[i] # nothing /\ q[i] \in Nat
  BY <1>1, <1>3, <1>4, <1>5
<1>7. ASSUME NEW j \in 1..Len(q), q[j] # nothing PROVE q[j] <= q[i]
  BY <1>1, <1>3, <1>4, <1>6, <1>7
<1>8. G \in SUBSET Nat /\ q[i] \in G /\ \A m \in G : m <= q[i]
  BY <1>1, <1>6, <1>7
<1>9. \E m \in G : \A u \in G : m >= u
  BY <1>6, <1>8
<1>10. Max(G) \in G /\ \A u \in G : Max(G) >= u
  BY <1>9 DEF Max
<1>11. Greatest(q, nothing) = Max(G)
  BY <1>8 DEF Greatest
<1>12. QED
  BY <1>1, <1>8, <1>10, <1>11

LEMMA NoneGiven ==
  ASSUME NEW nothing, NEW q, \A j \in DOMAIN q : q[j] = nothing
  PROVE  Greatest(q, nothing) = nothing
  BY DEF Greatest

LEMMA GreatestGrows ==
  ASSUME NEW nothing, nothing \notin Nat, NEW q \in Seq(Nat \cup {nothing}),
         NEW x \in Nat \cup {nothing}
  PROVE  /\ Greatest(q, nothing) \in Nat \cup {nothing}
         /\ Greatest(Append(q, x), nothing)
              = IF x = nothing THEN Greatest(q, nothing)
                ELSE IF Greatest(q, nothing) = nothing THEN x
                ELSE Larger(Greatest(q, nothing), x)
<1> DEFINE r == Append(q, x)
           n == Len(q)
           a == Greatest(q, nothing)
           b == Greatest(r, nothing)
<1>1. /\ n \in Nat /\ DOMAIN q = 1..n /\ r \in Seq(Nat \cup {nothing}) /\ DOMAIN r = 1..(n + 1)
      /\ r[n + 1] = x /\ \A j \in 1..n : r[j] = q[j]
  BY OneMore
<1> HIDE DEF r, n
<1>2. n + 1 \in DOMAIN r /\ 1..n \subseteq DOMAIN r
      /\ \A j \in DOMAIN r : j = n + 1 \/ j \in DOMAIN q
  BY <1>1
<1>3. \/ a = nothing /\ \A j \in DOMAIN q : q[j] = nothing
      \/ /\ a \in Nat /\ \E j \in DOMAIN q : a = q[j]
         /\ \A j \in DOMAIN q : q[j] # nothing => q[j] <= a
  BY GreatestGiven, NoneGiven
<1>4. CASE x = nothing
  <2>1. {r[j] : j \in DOMAIN r} \ {nothing} = {q[j] : j \in DOMAIN q} \ {nothing}
    BY <1>1, <1>2, <1>4
  <2>2. b = a
    BY <2>1 DEF Greatest
  <2>3. QED
    BY <1>3, <1>4, <2>2 DEF r
<1>5. CASE x # nothing
  <2>1. x \in Nat
    BY <1>5
  <2>2. /\ b \in Nat /\ \E j \in DOMAIN r : b = r[j]
        /\ \A j \in DOMAIN r : r[j] # nothing => r[j] <= b
    BY <1>1, <1>2, <1>5, GreatestGiven
  <2> HIDE DEF a, b
  <2>3. x <= b /\ (b = x \/ \E j \in DOMAIN q : b = q[j])
    BY <1>1, <1>2, <1>5, <2>2
  <2>4. CASE a = nothing
    <3>1. \A j \in DOMAIN q : q[j] = nothing
      BY <1>3, <2>4
    <3>2. b = x
      BY <2>2, <2>3, <3>1
    <3>3. QED
      BY <1>5, <2>4, <3>2 DEF a, b, r
  <2>5. CASE a # nothing
    <3>1. /\ a \in Nat /\ \E j \in DOMAIN q : a = q[j]
          /\ \A j \in DOMAIN q : q[j] # nothing => q[j] <= a
      BY <1>3, <2>5
    <3>2. a <= b
      BY <1>1, <1>2, <2>2, <3>1
    <3>3. b = x \/ b <= a
      BY <2>2, <2>3, <3>1
    <3>4. b = Larger(a, x)
      BY <2>1, <2>2, <2>3, <3>1, <3>2, <3>3 DEF Larger
    <3>5. QED
      BY <1>5, <2>5, <3>1, <3>4 DEF a, b, r
  <2>6. QED
    BY <2>4, <2>5
<1>6. QED
  BY <1>4, <1>5

LEMMA TraitGrows ==
  ASSUME NEW s \in Seq(Lessons), NEW v \in Lessons, NEW c
  PROVE  TraitOf(c, Append(s, v)) = IF c \in DOMAIN v THEN v[c] ELSE TraitOf(c, s)
<1> DEFINE r == Append(s, v)
           n == Len(s)
           J == {j \in DOMAIN s : c \in DOMAIN s[j]}
           I == {j \in DOMAIN r : c \in DOMAIN r[j]}
<1>1. /\ n \in Nat /\ DOMAIN s = 1..n /\ DOMAIN r = 1..(n + 1) /\ r[n + 1] = v
      /\ \A j \in 1..n : r[j] = s[j]
  BY OneMore
<1> HIDE DEF r, n
<1>2. J \in SUBSET (1..n) /\ I = IF c \in DOMAIN v THEN J \cup {n + 1} ELSE J
  BY <1>1
<1>3. /\ TraitOf(c, s) = IF J = {} THEN Null ELSE s[Max(J)][c]
      /\ TraitOf(c, r) = IF I = {} THEN Null ELSE r[Max(I)][c]
  BY DEF TraitOf
<1>4. CASE c \in DOMAIN v
  <2>1. I = J \cup {n + 1} /\ I # {}
    BY <1>2, <1>4
  <2>2. Max(I) = n + 1
    BY <1>1, <1>2, <2>1, GreatestOfMore
  <2>3. QED
    BY <1>1, <1>3, <1>4, <2>1, <2>2 DEF r
<1>5. CASE c \notin DOMAIN v
  <2>1. I = J
    BY <1>2, <1>5
  <2>2. J # {} => Max(J) \in 1..n
    <3> HIDE DEF J
    <3>1. QED
      BY <1>1, <1>2, GreatestPosition
  <2>3. QED
    BY <1>1, <1>3, <1>5, <2>1, <2>2 DEF r
<1>6. QED
  BY <1>4, <1>5

LEMMA OnlyOne ==
  ASSUME NEW x
  PROVE  /\ <<x>> = Append(<< >>, x)
         /\ \A nothing : First(<<x>>, nothing) = x /\ Last(<<x>>, nothing) = x
         /\ Null \notin Nat /\ x \in Nat \cup {Null} => Greatest(<<x>>, Null) = x
         /\ x \in Lessons => \A c : TraitOf(c, <<x>>) = Get(x, c)
<1>1. <<x>> = Append(<< >>, x) /\ << >> \in Seq({x}) /\ x \in {x}
  OBVIOUS
<1>2. ASSUME NEW nothing
      PROVE  First(<<x>>, nothing) = x /\ Last(<<x>>, nothing) = x
  <2>1. PICK q \in Seq({x}) : q = << >>
    BY <1>1
  <2>2. First(q, nothing) = nothing /\ Last(q, nothing) = nothing
    BY <2>1 DEF First, Last
  <2>3. First(Append(q, x), nothing) = x
    BY <1>1, <2>2, FirstGrows
  <2>4. Last(Append(q, x), nothing) = x
    BY <1>1, <2>2, LastGrows
  <2>5. QED
    BY <1>1, <2>1, <2>3, <2>4
<1>3. ASSUME Null \notin Nat, x \in Nat \cup {Null}
      PROVE  Greatest(<<x>>, Null) = x
  <2>1. << >> \in Seq(Nat \cup {Null}) /\ Greatest(<< >>, Null) = Null
    BY NoneGiven
  <2>2. Greatest(Append(<< >>, x), Null) = x
    BY <1>3, <2>1, GreatestGrows
  <2>3. QED
    BY <1>1, <2>2
<1>4. ASSUME x \in Lessons, NEW c
      PROVE  TraitOf(c, <<x>>) = Get(x, c)
  <2>1. << >> \in Seq(Lessons) /\ TraitOf(c, << >>) = Null
    BY DEF TraitOf
  <2>2. TraitOf(c, Append(<< >>, x)) = IF c \in DOMAIN x THEN x[c] ELSE Null
    BY <1>4, <2>1, TraitGrows
  <2>3. QED
    BY <1>1, <2>2 DEF Get
<1>5. QED
  BY <1>1, <1>2, <1>3, <1>4

(* A column of the calls grows with them. *)
LEMMA ColumnType ==
  ASSUME NEW S, NEW V, NEW s \in Seq(S), NEW c, \A r \in S : r[c] \in V
  PROVE  Column(s, c) \in Seq(V) /\ (s # << >> => Column(s, c) # << >>)
<1>1. Column(s, c) \in Seq(V) /\ Len(Column(s, c)) = Len(s)
  BY DEF Column
<1>2. QED
  BY <1>1, EmptySeq

LEMMA ColumnGrows ==
  ASSUME NEW S, NEW s \in Seq(S), NEW v \in S, NEW c
  PROVE  Column(Append(s, v), c) = Append(Column(s, c), v[c])
BY DEF Column

LEMMA MentionsGrow ==
  ASSUME NEW s \in Seq(Visits), NEW v \in Visits
  PROVE  /\ Mentions(s) \in Seq(Nat) /\ mentions(v) \in Nat
         /\ Mentions(Append(s, v)) = Append(Mentions(s), mentions(v))
         /\ Mentions(<<v>>) = <<mentions(v)>>
<1>1. \A r \in Visits : mentions(r) \in Nat
  BY DEF mentions, Visits
<1>2. Mentions(s) \in Seq(Nat)
  BY <1>1 DEF Mentions
<1>3. Mentions(Append(s, v)) = Append(Mentions(s), mentions(v))
  BY DEF Mentions
<1>4. Mentions(<<v>>) = <<mentions(v)>>
  BY DEF Mentions
<1>5. QED
  BY <1>1, <1>2, <1>3, <1>4

----------------------------------------------------------------------------
(* Rows. *)

LEMMA Ledgers3 ==
  /\ Ledger = Key \cup {"traits", "summary"}
  /\ "traits" \notin Key /\ "summary" \notin Key
  /\ \A l \in Ledger : l \in Key \/ l = "traits" \/ l = "summary"
  BY RowAssumption DEF Ledger

LEMMA AbsentIsNoRow ==
  /\ \A l \in Ledger : Absent \notin Row(l) /\ \A r \in Row(l) : r.id \in Nat
  /\ Absent.id = -1
<1>1. DOMAIN Absent = {"id"} /\ Absent.id = -1
  BY DEF Absent
<1>2. \A l \in Ledger : \A r \in Row(l) : r.id \in Nat
  BY DEF Row, InterestRow, TraitsRow, SummaryRow
<1>3. QED
  BY <1>1, <1>2

(***************************************************************************)
(* The rows that an upsert makes are rows.                                 *)
(***************************************************************************)
LEMMA NewIsRow ==
  ASSUME NEW l \in Ledger, NEW id \in Nat, NEW v \in Input(l)
  PROVE  /\ New(l, id, v) \in Row(l)
         /\ l # "traits" => New(l, id, v).id = id
<1>1. CASE l \in Key
  <2>1. v \in Visits
    BY <1>1, InputAssumption DEF Input
  <2>2. mentions(v) \in Nat
    BY <2>1 DEF mentions, Visits
  <2>3. NewInterest(id, v) \in InterestRow /\ NewInterest(id, v).id = id
    BY <2>1, <2>2 DEF NewInterest, InterestRow, Visits, Origin
  <2>4. QED
    BY <1>1, <2>3 DEF New, Row
<1>2. CASE l = "traits"
  <2>1. v \in Lessons
    BY <1>2, Ledgers3, InputAssumption DEF Input
  <2>2. \A c \in Trait : Get(v, c) \in Value \cup {Null}
    BY <2>1 DEF Get, Lessons
  <2>3. NewTraits(v) \in TraitsRow
    BY <2>2 DEF NewTraits, TraitsRow, Trait
  <2>4. QED
    BY <1>2, <2>3, Ledgers3 DEF New, Row
<1>3. CASE l = "summary"
  <2>1. v \in Summaries
    BY <1>3, Ledgers3, InputAssumption DEF Input
  <2>2. NewSummary(id, v) \in SummaryRow /\ NewSummary(id, v).id = id
    BY <2>1 DEF NewSummary, SummaryRow, Summaries
  <2>3. QED
    BY <1>3, <2>2, Ledgers3 DEF New, Row
<1>4. QED
  BY <1>1, <1>2, <1>3, Ledgers3

LEMMA TraitsDomain ==
  \A r \in TraitsRow : DOMAIN r = Trait \cup {"id", "evidence_count"}
  BY DEF TraitsRow, Trait

LEMMA TaughtRow ==
  ASSUME NEW row \in TraitsRow, NEW v \in Lessons
  PROVE  /\ Taught(row, v) \in TraitsRow
         /\ Taught(row, v).id = row.id
         /\ \A c \in Trait : Taught(row, v)[c] = IF c \in DOMAIN v THEN v[c] ELSE row[c]
<1> DEFINE f(c) == IF c \in DOMAIN v THEN v[c] ELSE row[c]
<1>1. DOMAIN row = {"id", "evidence_count", "curiosity_mode_by_kind", "preferred_style",
                    "preferred_style_confidence", "voice_style_scores"}
  BY DEF TraitsRow
<1>2. Taught(row, v) =
        [id |-> row.id, curiosity_mode_by_kind |-> f("curiosity_mode_by_kind"),
         preferred_style |-> f("preferred_style"),
         preferred_style_confidence |-> f("preferred_style_confidence"),
         voice_style_scores |-> f("voice_style_scores"),
         evidence_count |-> row.evidence_count + 1]
  BY <1>1 DEF Taught, Trait
<1>3. \A c \in Trait : row[c] \in Value \cup {Null} /\ f(c) \in Value \cup {Null}
  BY DEF Lessons, TraitsRow, Trait
<1>4. row.id \in {0} /\ row.evidence_count + 1 \in Nat
  BY DEF TraitsRow
<1>5. Taught(row, v) \in TraitsRow
  BY <1>2, <1>3, <1>4 DEF TraitsRow, Trait
<1>6. QED
  BY <1>2, <1>5 DEF Trait

LEMMA VisitedRow ==
  ASSUME NEW row \in InterestRow, NEW v \in Visits
  PROVE  /\ Visited(row, v) \in InterestRow
         /\ Visited(row, v).id = row.id /\ Visited(row, v).origin = row.origin
         /\ Visited(row, v).times_visited = row.times_visited + 1
         /\ Visited(row, v).total_mentions = row.total_mentions + mentions(v)
         /\ Visited(row, v).last_depth = Larger(row.last_depth, v.depth)
         /\ Visited(row, v).curiosity_signal = Curiosity(row.curiosity_signal, v.curiosity)
         /\ Visited(row, v).sentiment = IF v.sentiment # Null THEN v.sentiment ELSE row.sentiment
         /\ Visited(row, v).framework_link =
               IF row.framework_link = Null THEN v.link ELSE row.framework_link
         /\ Visited(row, v).kind = IF row.kind = Other THEN v.kind ELSE row.kind
<1> DEFINE kind == IF row.kind = Other THEN v.kind ELSE row.kind
           link == IF row.framework_link = Null THEN v.link ELSE row.framework_link
           sentiment == IF v.sentiment # Null THEN v.sentiment ELSE row.sentiment
           visits == row.times_visited + 1
           total == row.total_mentions + mentions(v)
           depth == Larger(row.last_depth, v.depth)
           curiosity == Curiosity(row.curiosity_signal, v.curiosity)
<1>1. Visited(row, v) =
        [id |-> row.id, kind |-> kind, framework_link |-> link, sentiment |-> sentiment,
         origin |-> row.origin, times_visited |-> visits, total_mentions |-> total,
         last_depth |-> depth, curiosity_signal |-> curiosity]
  <2>1. row = [id |-> row.id, kind |-> row.kind, framework_link |-> row.framework_link,
               sentiment |-> row.sentiment, origin |-> row.origin,
               times_visited |-> row.times_visited, total_mentions |-> row.total_mentions,
               last_depth |-> row.last_depth, curiosity_signal |-> row.curiosity_signal]
    BY DEF InterestRow
  <2> HIDE DEF kind, link, sentiment, visits, total, depth, curiosity
  <2>2. Visited(row, v) =
          [row EXCEPT !.times_visited = visits, !.total_mentions = total, !.last_depth = depth,
                      !.curiosity_signal = curiosity, !.sentiment = sentiment,
                      !.framework_link = link, !.kind = kind]
    BY DEF Visited, kind, link, sentiment, visits, total, depth, curiosity
  <2>3. QED
    BY <2>1, <2>2
<1>2. kind \in Kind /\ link \in Link \cup {Null} /\ sentiment \in Sentiment \cup {Null}
  BY DEF InterestRow, Visits
<1>3. visits \in Nat /\ total \in Nat
  BY DEF InterestRow, Visits, mentions
<1>4. depth \in Nat /\ curiosity \in Nat \cup {Null}
  BY DEF InterestRow, Visits, Larger, Curiosity
<1>5. row.id \in Nat /\ row.origin \in Origin
  BY DEF InterestRow
<1> HIDE DEF kind, link, sentiment, visits, total, depth, curiosity
<1>6. Visited(row, v) \in InterestRow
  BY <1>1, <1>2, <1>3, <1>4, <1>5 DEF InterestRow
<1>7. /\ Visited(row, v).id = row.id /\ Visited(row, v).origin = row.origin
      /\ Visited(row, v).times_visited = visits /\ Visited(row, v).total_mentions = total
      /\ Visited(row, v).last_depth = depth /\ Visited(row, v).curiosity_signal = curiosity
      /\ Visited(row, v).sentiment = sentiment /\ Visited(row, v).framework_link = link
      /\ Visited(row, v).kind = kind
  BY <1>1
<1>8. QED
  BY <1>6, <1>7 DEF kind, link, sentiment, visits, total, depth, curiosity

LEMMA ChangedIsRow ==
  ASSUME NEW l \in Ledger, NEW row \in Row(l), NEW v \in Input(l)
  PROVE  Changed(l, row, v) \in Row(l) /\ Changed(l, row, v).id = row.id
<1>1. CASE l \in Key
  <2>1. v \in Visits /\ row \in InterestRow
    BY <1>1, InputAssumption DEF Input, Row
  <2>2. QED
    BY <1>1, <2>1, VisitedRow DEF Changed, Row
<1>2. CASE l = "traits"
  BY <1>2, TaughtRow, Ledgers3, InputAssumption DEF Input, Row, Changed
<1>3. CASE l = "summary"
  <2>1. v \in Summaries /\ row \in SummaryRow
    BY <1>3, Ledgers3, InputAssumption DEF Input, Row
  <2>2. Retold(row, v) \in SummaryRow /\ Retold(row, v).id = row.id
    BY <2>1 DEF Retold, SummaryRow, Summaries
  <2>3. QED
    BY <1>3, <2>2, Ledgers3 DEF Changed, Row
<1>4. QED
  BY <1>1, <1>2, <1>3, Ledgers3

(***************************************************************************)
(* Flushing writes each column that was changed, and leaves the others.    *)
(***************************************************************************)
LEMMA FlushedColumns ==
  ASSUME NEW row, NEW read, NEW set
  PROVE  /\ DOMAIN Flushed(row, read, set) = DOMAIN row
         /\ \A c \in DOMAIN row :
               Flushed(row, read, set)[c] = IF set[c] = read[c] THEN row[c] ELSE set[c]
  BY DEF Flushed

LEMMA FlushedInterest ==
  ASSUME NEW row \in InterestRow, NEW read \in InterestRow, NEW set \in InterestRow
  PROVE  /\ Flushed(row, read, set) \in InterestRow
         /\ \A c \in {"id", "kind", "framework_link", "sentiment", "origin", "times_visited",
                      "total_mentions", "last_depth", "curiosity_signal"} :
               Flushed(row, read, set)[c] = IF set[c] = read[c] THEN row[c] ELSE set[c]
<1> DEFINE f(c) == IF set[c] = read[c] THEN row[c] ELSE set[c]
<1>1. DOMAIN row = {"id", "kind", "framework_link", "sentiment", "origin", "times_visited",
                    "total_mentions", "last_depth", "curiosity_signal"}
  BY DEF InterestRow
<1>2. Flushed(row, read, set) =
        [id |-> f("id"), kind |-> f("kind"), framework_link |-> f("framework_link"),
         sentiment |-> f("sentiment"), origin |-> f("origin"),
         times_visited |-> f("times_visited"), total_mentions |-> f("total_mentions"),
         last_depth |-> f("last_depth"), curiosity_signal |-> f("curiosity_signal")]
  BY <1>1 DEF Flushed
<1>3. /\ f("id") \in Nat /\ f("kind") \in Kind /\ f("framework_link") \in Link \cup {Null}
      /\ f("sentiment") \in Sentiment \cup {Null} /\ f("origin") \in Origin
      /\ f("times_visited") \in Nat /\ f("total_mentions") \in Nat
      /\ f("last_depth") \in Nat /\ f("curiosity_signal") \in Nat \cup {Null}
  BY DEF InterestRow
<1>4. Flushed(row, read, set) \in InterestRow
  BY <1>2, <1>3 DEF InterestRow
<1>5. QED
  BY <1>1, <1>4, FlushedColumns

LEMMA FlushedTraits ==
  ASSUME NEW row \in TraitsRow, NEW read \in TraitsRow, NEW set \in TraitsRow
  PROVE  /\ Flushed(row, read, set) \in TraitsRow
         /\ \A c \in Trait :
               Flushed(row, read, set)[c] = IF set[c] = read[c] THEN row[c] ELSE set[c]
<1> DEFINE f(c) == IF set[c] = read[c] THEN row[c] ELSE set[c]
<1>1. DOMAIN row = {"id", "evidence_count", "curiosity_mode_by_kind", "preferred_style",
                    "preferred_style_confidence", "voice_style_scores"}
  BY DEF TraitsRow
<1>2. Flushed(row, read, set) =
        [id |-> f("id"), curiosity_mode_by_kind |-> f("curiosity_mode_by_kind"),
         preferred_style |-> f("preferred_style"),
         preferred_style_confidence |-> f("preferred_style_confidence"),
         voice_style_scores |-> f("voice_style_scores"),
         evidence_count |-> f("evidence_count")]
  BY <1>1 DEF Flushed
<1>3. /\ f("id") \in {0} /\ f("evidence_count") \in Nat
      /\ f("curiosity_mode_by_kind") \in Value \cup {Null}
      /\ f("preferred_style") \in Value \cup {Null}
      /\ f("preferred_style_confidence") \in Value \cup {Null}
      /\ f("voice_style_scores") \in Value \cup {Null}
  BY DEF TraitsRow
<1>4. Flushed(row, read, set) \in TraitsRow
  BY <1>2, <1>3 DEF TraitsRow
<1>5. QED
  BY <1>1, <1>4, FlushedColumns DEF Trait

LEMMA FlushedSummary ==
  ASSUME NEW row \in SummaryRow, NEW read \in SummaryRow, NEW set \in SummaryRow
  PROVE  /\ Flushed(row, read, set) \in SummaryRow
         /\ \A c \in {"id", "summary", "session_count"} :
               Flushed(row, read, set)[c] = IF set[c] = read[c] THEN row[c] ELSE set[c]
<1> DEFINE f(c) == IF set[c] = read[c] THEN row[c] ELSE set[c]
<1>1. DOMAIN row = {"id", "summary", "session_count"}
  BY DEF SummaryRow
<1>2. Flushed(row, read, set) =
        [id |-> f("id"), summary |-> f("summary"), session_count |-> f("session_count")]
  BY <1>1 DEF Flushed
<1>3. f("id") \in Nat /\ f("summary") \in Value /\ f("session_count") \in Nat
  BY DEF SummaryRow
<1>4. Flushed(row, read, set) \in SummaryRow
  BY <1>2, <1>3 DEF SummaryRow
<1>5. QED
  BY <1>1, <1>4, FlushedColumns

LEMMA FlushedIsRow ==
  ASSUME NEW l \in Ledger, NEW row \in Row(l), NEW read \in Row(l), NEW set \in Row(l),
         set.id = read.id
  PROVE  Flushed(row, read, set) \in Row(l) /\ Flushed(row, read, set).id = row.id
<1>1. "id" \in DOMAIN row
  BY DEF Row, InterestRow, TraitsRow, SummaryRow
<1>2. Flushed(row, read, set).id = row.id
  BY <1>1, FlushedColumns
<1>3. Flushed(row, read, set) \in Row(l)
  BY FlushedInterest, FlushedTraits, FlushedSummary, Ledgers3 DEF Row
<1>4. QED
  BY <1>2, <1>3

----------------------------------------------------------------------------
(* What a row claims, and the calls it claims it of. *)

LEMMA InputsAreCalls ==
  ASSUME NEW l \in Ledger, NEW v \in Input(l)
  PROVE  /\ l \in Key => v \in Visits
         /\ l = "traits" => v \in Lessons
         /\ l = "summary" => v \in Summaries
  BY Ledgers3, InputAssumption DEF Input

LEMMA Appended ==
  ASSUME NEW S, NEW s \in Seq(S), NEW v \in S
  PROVE  /\ Append(s, v) \in Seq(S)
         /\ Len(Append(s, v)) = Len(s) + 1
         /\ Len(s) + 1 \in DOMAIN Append(s, v) /\ Append(s, v)[Len(s) + 1] = v
         /\ \A j \in DOMAIN s : j \in DOMAIN Append(s, v) /\ Append(s, v)[j] = s[j]
  BY AppendProperties, LenProperties

LEMMA NewIsBacked ==
  ASSUME NEW l \in Ledger, NEW id \in Nat, NEW v \in Input(l)
  PROVE  Backed(l, New(l, id, v), <<v>>)
<1>1. Len(<<v>>) = 1 /\ 1 \in DOMAIN <<v>> /\ <<v>>[1] = v
  OBVIOUS
<1>2. CASE l \in Key
  <2>1. v \in Visits
    BY <1>2, InputsAreCalls
  <2>2. mentions(v) \in Nat /\ 1 <= mentions(v)
    BY <2>1 DEF mentions, Visits
  <2>3. InterestBacked(NewInterest(id, v), <<v>>)
    BY <1>1, <2>2 DEF InterestBacked, NewInterest
  <2>4. QED
    BY <1>2, <2>3 DEF Backed, New
<1>3. CASE l = "traits"
  <2>1. \A c \in Trait : NewTraits(v)[c] = Get(v, c)
    BY DEF NewTraits, Trait
  <2>2. TraitsBacked(NewTraits(v), <<v>>)
    BY <1>1, <2>1 DEF TraitsBacked
  <2>3. QED
    BY <1>3, <2>2, Ledgers3 DEF Backed, New
<1>4. CASE l = "summary"
  <2>1. SummaryBacked(NewSummary(id, v), <<v>>)
    BY <1>1 DEF SummaryBacked, NewSummary
  <2>2. QED
    BY <1>4, <2>1, Ledgers3 DEF Backed, New
<1>5. QED
  BY <1>2, <1>3, <1>4, Ledgers3

(***************************************************************************)
(* One more call takes nothing from what backs a row.                      *)
(***************************************************************************)
LEMMA BackedByMore ==
  ASSUME NEW l \in Ledger, NEW row \in Row(l), NEW s \in Seq(Input(l)),
         NEW v \in Input(l), Backed(l, row, s)
  PROVE  Backed(l, row, Append(s, v))
<1>1. /\ \A j \in DOMAIN s : j \in DOMAIN Append(s, v) /\ Append(s, v)[j] = s[j]
      /\ Len(Append(s, v)) = Len(s) + 1 /\ Len(s) \in Nat
  BY Appended, LenProperties
<1>2. CASE l \in Key
  <2>1. InterestBacked(row, s)
    BY <1>2 DEF Backed
  <2>2. /\ row.times_visited \in 1..Len(Append(s, v))
        /\ row.times_visited <= row.total_mentions
    BY <1>1, <2>1 DEF InterestBacked
  <2>3. InterestBacked(row, Append(s, v))
    BY <1>1, <2>1, <2>2 DEF InterestBacked
  <2>4. QED
    BY <1>2, <2>3 DEF Backed
<1>3. CASE l = "traits"
  BY <1>1, <1>3, Ledgers3 DEF Backed, TraitsBacked
<1>4. CASE l = "summary"
  BY <1>1, <1>4, Ledgers3 DEF Backed, SummaryBacked
<1>5. QED
  BY <1>2, <1>3, <1>4, Ledgers3

(***************************************************************************)
(* A session that writes over what it has not seen leaves a row that is    *)
(* backed, if what it read was: each column is the one that stood there,   *)
(* or one it made of what it read.                                         *)
(***************************************************************************)
LEMMA InterestFlushed ==
  ASSUME NEW row \in InterestRow, NEW read \in InterestRow, NEW v \in Visits,
         NEW s \in Seq(Visits), InterestBacked(row, s), InterestBacked(read, s)
  PROVE  InterestBacked(Flushed(row, read, Visited(read, v)), Append(s, v))
<1> DEFINE set == Visited(read, v)
           new == Flushed(row, read, set)
           t == Append(s, v)
<1>1. set \in InterestRow
  BY VisitedRow
<1>2. \A c \in {"kind", "framework_link", "sentiment", "times_visited",
                "total_mentions", "last_depth", "curiosity_signal"} :
         new[c] = IF set[c] = read[c] THEN row[c] ELSE set[c]
  BY <1>1, FlushedInterest
<1>3. /\ \A j \in DOMAIN s : j \in DOMAIN t /\ t[j] = s[j]
      /\ Len(s) + 1 \in DOMAIN t /\ t[Len(s) + 1] = v
      /\ Len(t) = Len(s) + 1 /\ Len(s) \in Nat
  BY Appended, LenProperties
<1>4. read.times_visited \in Nat /\ read.total_mentions \in Nat
      /\ mentions(v) \in Nat /\ mentions(v) >= 1
  BY DEF InterestRow, mentions, Visits
<1>5. new.times_visited = read.times_visited + 1
  <2>1. set.times_visited = read.times_visited + 1
    BY VisitedRow
  <2>2. QED
    BY <1>2, <1>4, <2>1
<1>6. new.total_mentions = read.total_mentions + mentions(v)
  <2>1. set.total_mentions = read.total_mentions + mentions(v)
    BY VisitedRow
  <2>2. QED
    BY <1>2, <1>4, <2>1
<1>7. new.last_depth \in {row.last_depth, read.last_depth, v.depth}
  <2>1. set.last_depth \in {read.last_depth, v.depth}
    BY VisitedRow DEF Larger
  <2>2. QED
    BY <1>2, <2>1
<1>8. new.curiosity_signal \in {row.curiosity_signal, read.curiosity_signal, v.curiosity}
  <2>1. set.curiosity_signal = Curiosity(read.curiosity_signal, v.curiosity)
        /\ read.curiosity_signal \in Nat \cup {Null} /\ v.curiosity \in Nat \cup {Null}
    BY VisitedRow DEF InterestRow, Visits
  <2>2. set.curiosity_signal \in {read.curiosity_signal, v.curiosity}
    BY <2>1, NullAssumption DEF Larger, Curiosity
  <2>3. QED
    BY <1>2, <2>2
<1>9. new.kind \in {row.kind, read.kind, v.kind}
  BY <1>2, VisitedRow
<1>10. new.framework_link \in {row.framework_link, read.framework_link, v.link}
  BY <1>2, VisitedRow
<1>11. new.sentiment \in {row.sentiment, read.sentiment, v.sentiment}
  BY <1>2, VisitedRow
<1> HIDE DEF new, set, t
<1>12. new.times_visited \in 1..Len(t) /\ new.times_visited <= new.total_mentions
  <2>1. read.times_visited \in 1..Len(s) /\ read.times_visited <= read.total_mentions
    BY DEF InterestBacked
  <2>2. QED
    BY <1>3, <1>4, <1>5, <1>6, <2>1
<1>13. /\ \E j \in DOMAIN t : new.last_depth = t[j].depth
       /\ \E j \in DOMAIN t : new.curiosity_signal = t[j].curiosity
  BY <1>3, <1>7, <1>8 DEF InterestBacked
<1>14. /\ \E j \in DOMAIN t : new.kind = t[j].kind
       /\ \E j \in DOMAIN t : new.framework_link = t[j].link
       /\ \E j \in DOMAIN t : new.sentiment = t[j].sentiment
  BY <1>3, <1>9, <1>10, <1>11 DEF InterestBacked
<1>15. InterestBacked(new, t)
  BY <1>12, <1>13, <1>14 DEF InterestBacked
<1>16. QED
  BY <1>15 DEF new, set, t

LEMMA TraitsFlushed ==
  ASSUME NEW row \in TraitsRow, NEW read \in TraitsRow, NEW v \in Lessons,
         NEW s \in Seq(Lessons), TraitsBacked(row, s)
  PROVE  TraitsBacked(Flushed(row, read, Taught(read, v)), Append(s, v))
<1> DEFINE set == Taught(read, v)
           new == Flushed(row, read, set)
           t == Append(s, v)
<1>1. \A c \in Trait : new[c] = IF set[c] = read[c] THEN row[c] ELSE set[c]
  BY TaughtRow, FlushedTraits
<1>2. \A c \in Trait : set[c] = IF c \in DOMAIN v THEN v[c] ELSE read[c]
  BY TaughtRow
<1>3. /\ \A j \in DOMAIN s : j \in DOMAIN t /\ t[j] = s[j]
      /\ Len(s) + 1 \in DOMAIN t /\ t[Len(s) + 1] = v
  BY Appended
<1> HIDE DEF new, set, t
<1>4. \A c \in Trait : new[c] = row[c] \/ new[c] = Get(v, c)
  BY <1>1, <1>2 DEF Get
<1>5. TraitsBacked(new, t)
  BY <1>3, <1>4 DEF TraitsBacked
<1>6. QED
  BY <1>5 DEF new, set, t

LEMMA SummaryFlushed ==
  ASSUME NEW row \in SummaryRow, NEW read \in SummaryRow, NEW v \in Summaries,
         NEW s \in Seq(Summaries), SummaryBacked(row, s)
  PROVE  SummaryBacked(Flushed(row, read, Retold(read, v)), Append(s, v))
<1> DEFINE set == Retold(read, v)
           new == Flushed(row, read, set)
           t == Append(s, v)
<1>1. set \in SummaryRow /\ set.summary = v.summary /\ set.session_count = v.session_count
  BY DEF Retold, SummaryRow, Summaries
<1>2. \A c \in {"summary", "session_count"} :
         new[c] = IF set[c] = read[c] THEN row[c] ELSE set[c]
  BY <1>1, FlushedSummary
<1>3. /\ \A j \in DOMAIN s : j \in DOMAIN t /\ t[j] = s[j]
      /\ Len(s) + 1 \in DOMAIN t /\ t[Len(s) + 1] = v
  BY Appended
<1>4. new.summary \in {row.summary, v.summary}
      /\ new.session_count \in {row.session_count, v.session_count}
  BY <1>1, <1>2
<1> HIDE DEF new, set, t
<1>5. SummaryBacked(new, t)
  BY <1>3, <1>4 DEF SummaryBacked
<1>6. QED
  BY <1>5 DEF new, set, t
----------------------------------------------------------------------------
(* What a row sums up. *)
LEMMA NewSumsUp ==
  ASSUME NEW l \in Ledger, NEW id \in Nat, NEW v \in Input(l)
  PROVE  SumsUp(l, New(l, id, v), <<v>>)
<1>1. Len(<<v>>) = 1 /\ <<v>>[1] = v
  OBVIOUS
<1>2. CASE l \in Key
  <2>1. v \in Visits
    BY <1>2, InputsAreCalls
  <2>2. v.depth \in Nat /\ v.curiosity \in Nat \cup {Null} /\ mentions(v) \in Nat
    BY <2>1 DEF Visits, mentions
  <2>3. /\ Column(<<v>>, "depth") = <<v.depth>> /\ Column(<<v>>, "curiosity") = <<v.curiosity>>
        /\ Column(<<v>>, "sentiment") = <<v.sentiment>> /\ Column(<<v>>, "link") = <<v.link>>
        /\ Column(<<v>>, "kind") = <<v.kind>> /\ Mentions(<<v>>) = <<mentions(v)>>
    BY DEF Column, Mentions
  <2>4. Total(<<mentions(v)>>) = mentions(v)
    BY <2>2, TotalOfOne
  <2>5. /\ Greatest(<<v.depth>>, Null) = v.depth /\ Greatest(<<v.curiosity>>, Null) = v.curiosity
        /\ Last(<<v.sentiment>>, Null) = v.sentiment /\ First(<<v.link>>, Null) = v.link
        /\ First(<<v.kind>>, Other) = v.kind
    BY <2>2, OnlyOne, NullAssumption
  <2>6. NewInterest(id, v) = InterestOf(id, <<v>>)
    BY <1>1, <2>3, <2>4, <2>5 DEF NewInterest, InterestOf
  <2>7. NewInterest(id, v).id = id
    BY DEF NewInterest
  <2>8. QED
    BY <1>2, <2>6, <2>7 DEF SumsUp, New
<1>3. CASE l = "traits"
  <2>1. v \in Lessons
    BY <1>3, InputsAreCalls
  <2>2. \A c \in Trait : NewTraits(v)[c] = TraitOf(c, <<v>>)
    <3>1. \A c \in Trait : NewTraits(v)[c] = Get(v, c)
      BY DEF NewTraits, Trait
    <3>2. QED
      BY <2>1, <3>1, OnlyOne
  <2>3. NewTraits(v).evidence_count = Len(<<v>>)
    BY <1>1 DEF NewTraits
  <2>4. QED
    BY <1>3, <2>2, <2>3, Ledgers3 DEF SumsUp, New
<1>4. CASE l = "summary"
  <2>1. NewSummary(id, v).id = id
    BY DEF NewSummary
  <2>2. QED
    BY <1>1, <1>4, <2>1, Ledgers3 DEF SumsUp, New
<1>5. QED
  BY <1>2, <1>3, <1>4, Ledgers3

LEMMA VisitedSumsUp ==
  ASSUME NEW row \in InterestRow, NEW s \in Seq(Visits), s # << >>, NEW v \in Visits,
         row = InterestOf(row.id, s)
  PROVE  Visited(row, v) = InterestOf(row.id, Append(s, v))
<1> DEFINE r == Append(s, v)
           new == Visited(row, v)
           sum == InterestOf(row.id, r)
<1>1. /\ row.origin = s[1].origin /\ row.times_visited = Len(s)
      /\ row.total_mentions = Total(Mentions(s))
      /\ row.last_depth = Greatest(Column(s, "depth"), Null)
      /\ row.curiosity_signal = Greatest(Column(s, "curiosity"), Null)
      /\ row.sentiment = Last(Column(s, "sentiment"), Null)
      /\ row.framework_link = First(Column(s, "link"), Null)
      /\ row.kind = First(Column(s, "kind"), Other)
  <2>1. PICK id : id = row.id
    OBVIOUS
  <2>2. row = InterestOf(id, s)
    BY <2>1
  <2>3. QED
    BY <2>2 DEF InterestOf
<1>2. /\ new \in InterestRow /\ new.id = row.id /\ new.origin = row.origin
      /\ new.times_visited = row.times_visited + 1
      /\ new.total_mentions = row.total_mentions + mentions(v)
      /\ new.last_depth = Larger(row.last_depth, v.depth)
      /\ new.curiosity_signal = Curiosity(row.curiosity_signal, v.curiosity)
      /\ new.sentiment = IF v.sentiment # Null THEN v.sentiment ELSE row.sentiment
      /\ new.framework_link = IF row.framework_link = Null THEN v.link ELSE row.framework_link
      /\ new.kind = IF row.kind = Other THEN v.kind ELSE row.kind
  BY VisitedRow
<1> HIDE DEF new
<1>3. Len(r) = Len(s) + 1 /\ r[1] = s[1]
  BY OneMore, EmptySeq
<1>4. Total(Mentions(r)) = Total(Mentions(s)) + mentions(v)
  BY MentionsGrow, TotalGrows
<1>5. \A u \in Visits : /\ u.depth \in Nat /\ u.curiosity \in Nat \cup {Null} /\ u.kind \in Kind
                         /\ u.sentiment \in Sentiment \cup {Null}
                         /\ u.link \in Link \cup {Null}
  BY DEF Visits
<1>6. /\ Greatest(Column(r, "depth"), Null) = Larger(row.last_depth, v.depth)
      /\ Greatest(Column(r, "curiosity"), Null) = Curiosity(row.curiosity_signal, v.curiosity)
  <2>1. ASSUME NEW c \in {"depth", "curiosity"}
        PROVE  Greatest(Column(r, c), Null)
                 = IF v[c] = Null THEN Greatest(Column(s, c), Null)
                   ELSE IF Greatest(Column(s, c), Null) = Null THEN v[c]
                   ELSE Larger(Greatest(Column(s, c), Null), v[c])
    <3>1. \A u \in Visits : u[c] \in Nat \cup {Null}
      BY <1>5
    <3>2. Column(s, c) \in Seq(Nat \cup {Null}) /\ v[c] \in Nat \cup {Null}
      BY <3>1, ColumnType
    <3>3. Column(r, c) = Append(Column(s, c), v[c])
      BY ColumnGrows
    <3>4. PICK q \in Seq(Nat \cup {Null}), x \in Nat \cup {Null} :
             q = Column(s, c) /\ x = v[c]
      BY <3>2
    <3>5. Null \notin Nat
      BY NullAssumption
    <3>6. Greatest(Append(q, x), Null)
            = IF x = Null THEN Greatest(q, Null)
              ELSE IF Greatest(q, Null) = Null THEN x ELSE Larger(Greatest(q, Null), x)
      BY <3>5, GreatestGrows
    <3>7. QED
      BY <3>3, <3>4, <3>6
  <2>2. row.last_depth \in Nat /\ v.depth \in Nat
        /\ row.curiosity_signal \in Nat \cup {Null} /\ v.curiosity \in Nat \cup {Null}
    BY <1>5 DEF InterestRow
  <2>3. v.depth # Null /\ row.last_depth # Null
    BY <2>2, NullAssumption
  <2>4. Greatest(Column(r, "depth"), Null) = Larger(row.last_depth, v.depth)
    BY <1>1, <2>1, <2>3
  <2>5. Greatest(Column(r, "curiosity"), Null)
          = IF v.curiosity = Null THEN row.curiosity_signal
            ELSE IF row.curiosity_signal = Null THEN v.curiosity
            ELSE Larger(row.curiosity_signal, v.curiosity)
    BY <1>1, <2>1
  <2>6. v.curiosity # Null => Larger(0, v.curiosity) = v.curiosity
    BY <2>2 DEF Larger
  <2>7. QED
    BY <2>4, <2>5, <2>6 DEF Curiosity
<1>7. Last(Column(r, "sentiment"), Null)
        = IF v.sentiment # Null THEN v.sentiment ELSE Last(Column(s, "sentiment"), Null)
  <2>1. /\ Column(s, "sentiment") \in Seq(Sentiment \cup {Null})
        /\ v.sentiment \in Sentiment \cup {Null}
        /\ Column(r, "sentiment") = Append(Column(s, "sentiment"), v.sentiment)
    BY <1>5, ColumnType, ColumnGrows
  <2>2. PICK q \in Seq(Sentiment \cup {Null}), x \in Sentiment \cup {Null} :
          q = Column(s, "sentiment") /\ x = v.sentiment
    BY <2>1
  <2>3. Last(Append(q, x), Null) = IF x # Null THEN x ELSE Last(q, Null)
    BY LastGrows
  <2>4. QED
    BY <2>1, <2>2, <2>3
<1>8. First(Column(r, "link"), Null)
        = IF First(Column(s, "link"), Null) = Null THEN v.link
          ELSE First(Column(s, "link"), Null)
  <2>1. /\ Column(s, "link") \in Seq(Link \cup {Null}) /\ v.link \in Link \cup {Null}
        /\ Column(r, "link") = Append(Column(s, "link"), v.link)
    BY <1>5, ColumnType, ColumnGrows
  <2>2. PICK q \in Seq(Link \cup {Null}), x \in Link \cup {Null} :
          q = Column(s, "link") /\ x = v.link
    BY <2>1
  <2>3. First(Append(q, x), Null) = IF First(q, Null) = Null THEN x ELSE First(q, Null)
    BY FirstGrows
  <2>4. QED
    BY <2>1, <2>2, <2>3
<1>9. First(Column(r, "kind"), Other)
        = IF First(Column(s, "kind"), Other) = Other THEN v.kind
          ELSE First(Column(s, "kind"), Other)
  <2>1. /\ Column(s, "kind") \in Seq(Kind) /\ v.kind \in Kind
        /\ Column(r, "kind") = Append(Column(s, "kind"), v.kind)
    BY <1>5, ColumnType, ColumnGrows
  <2>2. PICK q \in Seq(Kind), x \in Kind :
          q = Column(s, "kind") /\ x = v.kind
    BY <2>1
  <2>3. First(Append(q, x), Other) = IF First(q, Other) = Other THEN x ELSE First(q, Other)
    BY FirstGrows
  <2>4. QED
    BY <2>1, <2>2, <2>3
<1> HIDE DEF r
<1>10. /\ sum.id = row.id /\ sum.origin = r[1].origin /\ sum.times_visited = Len(r)
       /\ sum.total_mentions = Total(Mentions(r))
       /\ sum.last_depth = Greatest(Column(r, "depth"), Null)
       /\ sum.curiosity_signal = Greatest(Column(r, "curiosity"), Null)
       /\ sum.sentiment = Last(Column(r, "sentiment"), Null)
       /\ sum.framework_link = First(Column(r, "link"), Null)
       /\ sum.kind = First(Column(r, "kind"), Other)
       /\ sum = [id |-> sum.id, kind |-> sum.kind, framework_link |-> sum.framework_link,
                 sentiment |-> sum.sentiment, origin |-> sum.origin,
                 times_visited |-> sum.times_visited, total_mentions |-> sum.total_mentions,
                 last_depth |-> sum.last_depth, curiosity_signal |-> sum.curiosity_signal]
  BY DEF InterestOf
<1>11. new = [id |-> new.id, kind |-> new.kind, framework_link |-> new.framework_link,
              sentiment |-> new.sentiment, origin |-> new.origin,
              times_visited |-> new.times_visited, total_mentions |-> new.total_mentions,
              last_depth |-> new.last_depth, curiosity_signal |-> new.curiosity_signal]
  BY <1>2 DEF InterestRow
<1> HIDE DEF sum
<1>12. /\ new.id = sum.id /\ new.origin = sum.origin
       /\ new.times_visited = sum.times_visited /\ new.total_mentions = sum.total_mentions
       /\ new.last_depth = sum.last_depth /\ new.curiosity_signal = sum.curiosity_signal
       /\ new.sentiment = sum.sentiment /\ new.framework_link = sum.framework_link
       /\ new.kind = sum.kind
  BY <1>1, <1>2, <1>3, <1>4, <1>6, <1>7, <1>8, <1>9, <1>10
<1>13. new = sum
  BY <1>10, <1>11, <1>12
<1>14. QED
  BY <1>13 DEF new, sum, r

LEMMA ChangedSumsUp ==
  ASSUME NEW l \in Ledger, NEW row \in Row(l), NEW s \in Seq(Input(l)), NEW v \in Input(l),
         SumsUp(l, row, s), Backed(l, row, s)
  PROVE  SumsUp(l, Changed(l, row, v), Append(s, v))
<1>1. CASE l \in Key
  <2>1. /\ row \in InterestRow /\ v \in Visits /\ s \in Seq(Visits)
        /\ row = InterestOf(row.id, s) /\ InterestBacked(row, s)
    BY <1>1, InputAssumption DEF Row, Input, SumsUp, Backed
  <2>2. s # << >>
    BY <2>1, EmptySeq DEF InterestBacked
  <2>3. Visited(row, v) = InterestOf(row.id, Append(s, v)) /\ Visited(row, v).id = row.id
    BY <2>1, <2>2, VisitedSumsUp, VisitedRow
  <2>4. QED
    BY <1>1, <2>3 DEF SumsUp, Changed
<1>2. CASE l = "traits"
  <2>1. row \in TraitsRow /\ v \in Lessons /\ s \in Seq(Lessons)
    BY <1>2, Ledgers3, InputAssumption DEF Row, Input
  <2>2. row.evidence_count = Len(s) /\ \A c \in Trait : row[c] = TraitOf(c, s)
    BY <1>2, Ledgers3 DEF SumsUp
  <2>3. \A c \in Trait : Taught(row, v)[c] = TraitOf(c, Append(s, v))
    BY <2>1, <2>2, TaughtRow, TraitGrows
  <2>4. Taught(row, v).evidence_count = Len(Append(s, v))
    <3>1. "evidence_count" \in DOMAIN row
      BY <2>1 DEF TraitsRow
    <3>2. Taught(row, v).evidence_count = row.evidence_count + 1
      BY <3>1 DEF Taught
    <3>3. QED
      BY <2>1, <2>2, <3>2, OneMore
  <2>5. QED
    BY <1>2, <2>3, <2>4, Ledgers3 DEF SumsUp, Changed
<1>3. CASE l = "summary"
  <2>1. row \in SummaryRow /\ v \in Summaries /\ Append(s, v)[Len(Append(s, v))] = v
    BY <1>3, Ledgers3, InputAssumption, OneMore DEF Row, Input
  <2>2. Retold(row, v) = NewSummary(row.id, v) /\ NewSummary(row.id, v).id = row.id
    <3>1. /\ Retold(row, v) \in SummaryRow /\ Retold(row, v).id = row.id
          /\ Retold(row, v).summary = v.summary
          /\ Retold(row, v).session_count = v.session_count
      BY <2>1 DEF Retold, SummaryRow, Summaries
    <3>2. Retold(row, v) = [id |-> row.id, summary |-> v.summary,
                            session_count |-> v.session_count]
      BY <3>1 DEF SummaryRow
    <3>3. QED
      BY <3>2 DEF NewSummary
  <2>3. QED
    BY <1>3, <2>1, <2>2, Ledgers3 DEF SumsUp, Changed
<1>4. QED
  BY <1>1, <1>2, <1>3, Ledgers3

----------------------------------------------------------------------------
(* The invariant. *)

\* What a session has made of what it read.
SessionsMake ==
  \A w \in Worker : Open(w) =>
      tx[w].set = IF tx[w].read = Absent THEN New(tx[w].ledger, tx[w].set.id, tx[w].input)
                  ELSE Changed(tx[w].ledger, tx[w].read, tx[w].input)

\* A row that was read and still stands was backed by calls that are still in the log.
\* Of the traits that is not so: their id survives a deletion.
ReadsAreBacked ==
  \A w \in Worker :
      Open(w) /\ tx[w].ledger # "traits" /\ tx[w].read # Absent
      /\ rows[tx[w].ledger].id = tx[w].read.id
      => Backed(tx[w].ledger, tx[w].read, log[tx[w].ledger])

\* The id of a row that is being made is no other's.
Making(w) == Open(w) /\ tx[w].ledger # "traits" /\ tx[w].read = Absent
IdsAreNew ==
  /\ \A l \in Ledger : l # "traits" => rows[l].id < calls
  /\ \A w \in Worker : Open(w) /\ tx[w].ledger # "traits" => tx[w].set.id < calls
  /\ \A w \in Worker : Making(w) => \A l \in Ledger : l # "traits" => rows[l].id # tx[w].set.id
  /\ \A w, u \in Worker :
        Making(w) /\ Open(u) /\ tx[u].ledger # "traits" /\ u # w => tx[u].set.id # tx[w].set.id

IInv == TypeOK /\ SessionsMake /\ ReadsAreBacked /\ IdsAreNew /\ RowsAreBacked

LEMMA SessionParts ==
  ASSUME TypeOK, NEW w \in Worker, Open(w)
  PROVE  /\ tx[w].ledger \in Ledger
         /\ tx[w].read \in Row(tx[w].ledger) \cup {Absent}
         /\ tx[w].input \in Input(tx[w].ledger)
         /\ tx[w].set \in Row(tx[w].ledger)
<1>1. PICK l \in Ledger : tx[w] \in Session(l)
  BY DEF TypeOK
<1>2. QED
  BY <1>1 DEF Session

(***************************************************************************)
(* Every step is an upsert, a commit, a rollback or a deletion.            *)
(***************************************************************************)
LEMMA Steps ==
  ASSUME Next
  PROVE  \/ \E w \in Worker, l \in Ledger : \E v \in Input(l) : Upsert(w, l, v)
         \/ \E w \in Worker : CommitInsert(w) \/ CommitUpdate(w) \/ RollBack(w)
         \/ \E L \in SUBSET Ledger : Delete(L)
<1>1. CASE \E w \in Worker : \/ \E l \in Ledger : \E v \in Input(l) : Upsert(w, l, v)
                            \/ Commit(w) \/ RollBack(w)
  BY <1>1 DEF Commit
<1>2. CASE \E k \in Key : DeleteInterest(k)
  <2>1. PICK k \in Key : Delete({k})
    BY <1>2 DEF DeleteInterest
  <2>2. {k} \in SUBSET Ledger
    BY DEF Ledger
  <2>3. QED
    BY <2>1, <2>2
<1>3. CASE DeleteAllInterests \/ DeleteTraits \/ DeleteSummary
  <2>1. Delete(Key) \/ Delete({"traits"}) \/ Delete({"summary"})
    BY <1>3 DEF DeleteAllInterests, DeleteTraits, DeleteSummary
  <2>2. Key \in SUBSET Ledger /\ {"traits"} \in SUBSET Ledger /\ {"summary"} \in SUBSET Ledger
    BY DEF Ledger
  <2>3. QED
    BY <2>1, <2>2
<1>4. QED
  BY <1>1, <1>2, <1>3 DEF Next

(***************************************************************************)
(* The session an upsert opens, and what a commit leaves.                  *)
(***************************************************************************)
LEMMA Opened ==
  ASSUME TypeOK, NEW w \in Worker, NEW l \in Ledger, NEW v \in Input(l), Upsert(w, l, v)
  PROVE  /\ calls \in Nat /\ calls' = calls + 1 /\ calls' \in 0..MaxCalls
         /\ tx'[w].ledger = l /\ tx'[w].read = rows[l] /\ tx'[w].input = v
         /\ tx'[w] \in Session(l)
         /\ tx'[w].set = IF rows[l] = Absent THEN New(l, calls, v) ELSE Changed(l, rows[l], v)
         /\ tx'[w].set \in Row(l)
         /\ l # "traits" => tx'[w].set.id = IF rows[l] = Absent THEN calls ELSE rows[l].id
         /\ DOMAIN tx' = Worker /\ \A u \in Worker : u # w => tx'[u] = tx[u]
         /\ UNCHANGED <<rows, log, torn>>
<1>1. calls \in Nat /\ calls' = calls + 1 /\ calls' \in 0..MaxCalls
  BY CallsAssumption DEF TypeOK, Upsert
<1> DEFINE made == IF rows[l] = Absent THEN New(l, calls, v) ELSE Changed(l, rows[l], v)
<1>2. /\ tx'[w] = [ledger |-> l, read |-> rows[l], input |-> v, set |-> made]
      /\ DOMAIN tx' = Worker /\ \A u \in Worker : u # w => tx'[u] = tx[u]
      /\ UNCHANGED <<rows, log, torn>>
  BY DEF Upsert, TypeOK, Exists
<1>3. rows[l] \in Row(l) \cup {Absent}
  BY DEF TypeOK
<1>4. /\ made \in Row(l)
      /\ l # "traits" => made.id = IF rows[l] = Absent THEN calls ELSE rows[l].id
  BY <1>1, <1>3, NewIsRow, ChangedIsRow
<1> HIDE DEF made
<1>5. /\ tx'[w].ledger = l /\ tx'[w].read = rows[l] /\ tx'[w].input = v
      /\ tx'[w].set = made /\ tx'[w] \in Session(l)
  BY <1>2, <1>3, <1>4 DEF Session
<1>6. QED
  BY <1>1, <1>2, <1>4, <1>5 DEF made

LEMMA Inserted ==
  ASSUME TypeOK, NEW w \in Worker, CommitInsert(w)
  PROVE  LET l == tx[w].ledger IN
         /\ rows[l] = Absent /\ tx[w].read = Absent
         /\ DOMAIN rows' = Ledger /\ rows'[l] = tx[w].set
         /\ DOMAIN log' = Ledger /\ log'[l] = <<tx[w].input>>
         /\ \A m \in Ledger : m # l => rows'[m] = rows[m] /\ log'[m] = log[m]
         /\ torn' \in [Ledger -> BOOLEAN]
         /\ DOMAIN tx' = Worker /\ tx'[w] = Idle
         /\ \A u \in Worker : u # w => tx'[u] = tx[u]
         /\ calls' = calls
<1>1. tx[w].ledger \in Ledger
  BY SessionParts DEF CommitInsert
<1>2. QED
  BY <1>1 DEF CommitInsert, TypeOK, Exists

LEMMA Updated ==
  ASSUME TypeOK, SessionsMake, NEW w \in Worker, CommitUpdate(w)
  PROVE  LET l == tx[w].ledger IN
         /\ rows[l] \in Row(l) /\ tx[w].read \in Row(l) /\ rows[l].id = tx[w].read.id
         /\ tx[w].set = Changed(l, tx[w].read, tx[w].input)
         /\ DOMAIN rows' = Ledger /\ rows'[l] = Flushed(rows[l], tx[w].read, tx[w].set)
         /\ rows'[l] \in Row(l) /\ rows'[l].id = rows[l].id
         /\ DOMAIN log' = Ledger /\ log'[l] = Append(log[l], tx[w].input)
         /\ \A m \in Ledger : m # l => rows'[m] = rows[m] /\ log'[m] = log[m]
         /\ torn' \in [Ledger -> BOOLEAN]
         /\ DOMAIN tx' = Worker /\ tx'[w] = Idle
         /\ \A u \in Worker : u # w => tx'[u] = tx[u]
         /\ calls' = calls
<1> DEFINE l == tx[w].ledger
<1>1. Open(w) /\ tx[w].read # Absent /\ rows[l].id = tx[w].read.id
  BY DEF CommitUpdate
<1>2. l \in Ledger /\ tx[w].read \in Row(l) /\ tx[w].set \in Row(l) /\ tx[w].input \in Input(l)
  BY <1>1, SessionParts
<1>3. rows[l] \in Row(l)
  <2>1. tx[w].read.id \in Nat /\ Absent.id = -1
    BY <1>2, AbsentIsNoRow
  <2>2. rows[l] # Absent
    BY <1>1, <2>1
  <2>3. QED
    BY <1>2, <2>2 DEF TypeOK
<1>4. tx[w].set = Changed(l, tx[w].read, tx[w].input)
  BY <1>1 DEF SessionsMake
<1>5. tx[w].set.id = tx[w].read.id
  BY <1>2, <1>4, ChangedIsRow
<1>6. /\ DOMAIN rows' = Ledger /\ rows'[l] = Flushed(rows[l], tx[w].read, tx[w].set)
      /\ DOMAIN log' = Ledger /\ log'[l] = Append(log[l], tx[w].input)
      /\ \A m \in Ledger : m # l => rows'[m] = rows[m] /\ log'[m] = log[m]
  BY <1>2 DEF CommitUpdate, Written, TypeOK
<1>7. rows'[l] \in Row(l) /\ rows'[l].id = rows[l].id
  BY <1>2, <1>3, <1>5, <1>6, FlushedIsRow
<1>8. /\ torn' \in [Ledger -> BOOLEAN]
      /\ DOMAIN tx' = Worker /\ tx'[w] = Idle
      /\ \A u \in Worker : u # w => tx'[u] = tx[u]
      /\ calls' = calls
  BY <1>2 DEF CommitUpdate, TypeOK
<1>9. QED
  BY <1>1, <1>2, <1>3, <1>4, <1>6, <1>7, <1>8

LEMMA RolledBack ==
  ASSUME TypeOK, NEW w \in Worker, RollBack(w)
  PROVE  /\ DOMAIN tx' = Worker /\ tx'[w] = Idle
         /\ \A u \in Worker : u # w => tx'[u] = tx[u]
         /\ UNCHANGED <<rows, calls, log, torn>>
  BY DEF RollBack, TypeOK

LEMMA Deleted ==
  ASSUME TypeOK, NEW L \in SUBSET Ledger, Delete(L)
  PROVE  /\ DOMAIN rows' = Ledger /\ DOMAIN log' = Ledger
         /\ \A l \in L : rows'[l] = Absent /\ log'[l] = << >>
         /\ \A l \in Ledger \ L : rows'[l] = rows[l] /\ log'[l] = log[l]
         /\ torn' \in [Ledger -> BOOLEAN]
         /\ UNCHANGED <<tx, calls>>
  BY DEF Delete, TypeOK
----------------------------------------------------------------------------
(* The invariant is inductive: one lemma for each of its parts. *)

LEMMA Initially == Init => IInv
<1> SUFFICES ASSUME Init PROVE IInv
  OBVIOUS
<1>1. TypeOK
  BY CallsAssumption DEF Init, TypeOK, Open
<1>2. SessionsMake /\ ReadsAreBacked /\ RowsAreBacked
  BY DEF Init, SessionsMake, ReadsAreBacked, RowsAreBacked, Open, Exists
<1>3. IdsAreNew
  BY AbsentIsNoRow DEF Init, IdsAreNew, Making, Open
<1>4. QED
  BY <1>1, <1>2, <1>3 DEF IInv

\* All but the sessions: the last conjunct but one of TypeOK is about them.
Typed == /\ DOMAIN rows = Ledger /\ \A l \in Ledger : rows[l] \in Row(l) \cup {Absent}
         /\ DOMAIN tx = Worker /\ calls \in 0..MaxCalls
         /\ DOMAIN log = Ledger /\ \A l \in Ledger : log[l] \in Seq(Input(l))
         /\ torn \in [Ledger -> BOOLEAN]
SessionsTyped == \A w \in Worker : Open(w) => \E l \in Ledger : tx[w] \in Session(l)

LEMMA TypeParts == TypeOK <=> Typed /\ SessionsTyped
  BY DEF TypeOK, Typed, SessionsTyped

LEMMA TypeStep ==
  ASSUME TypeOK, SessionsMake, Next
  PROVE  TypeOK'
<1>1. ASSUME NEW w \in Worker, NEW l \in Ledger, NEW v \in Input(l), Upsert(w, l, v)
      PROVE  TypeOK'
  <2>1. tx'[w] \in Session(l)
    BY <1>1, Opened
  <2>2. SessionsTyped'
    BY <1>1, <2>1, Opened, TypeParts DEF SessionsTyped, Open
  <2>3. Typed'
    BY <1>1, Opened, TypeParts DEF Typed
  <2>4. QED
    BY <2>2, <2>3, TypeParts DEF TypeOK, Typed, SessionsTyped
<1>2. ASSUME NEW w \in Worker, CommitInsert(w) PROVE TypeOK'
  <2> DEFINE l == tx[w].ledger
  <2>1. l \in Ledger /\ tx[w].set \in Row(l) /\ tx[w].input \in Input(l)
    BY <1>2, SessionParts DEF CommitInsert
  <2>2. <<tx[w].input>> \in Seq(Input(l))
    BY <2>1
  <2>3. Typed'
    BY <1>2, <2>1, <2>2, Inserted, TypeParts DEF Typed
  <2>4. SessionsTyped'
    BY <1>2, Inserted, TypeParts DEF SessionsTyped, Open
  <2>5. QED
    BY <2>3, <2>4 DEF TypeOK, Typed, SessionsTyped
<1>3. ASSUME NEW w \in Worker, CommitUpdate(w) PROVE TypeOK'
  <2> DEFINE l == tx[w].ledger
  <2>1. l \in Ledger /\ tx[w].input \in Input(l)
    BY <1>3, SessionParts DEF CommitUpdate
  <2>2. Append(log[l], tx[w].input) \in Seq(Input(l))
    BY <2>1, Appended DEF TypeOK
  <2>3. Typed'
    BY <1>3, <2>1, <2>2, Updated, TypeParts DEF Typed
  <2>4. SessionsTyped'
    BY <1>3, Updated, TypeParts DEF SessionsTyped, Open
  <2>5. QED
    BY <2>3, <2>4 DEF TypeOK, Typed, SessionsTyped
<1>4. ASSUME NEW w \in Worker, RollBack(w) PROVE TypeOK'
  <2>1. Typed' /\ SessionsTyped'
    BY <1>4, RolledBack, TypeParts DEF Typed, SessionsTyped, Open
  <2>2. QED
    BY <2>1 DEF TypeOK, Typed, SessionsTyped
<1>5. ASSUME NEW L \in SUBSET Ledger, Delete(L) PROVE TypeOK'
  <2>1. \A l \in Ledger : << >> \in Seq(Input(l))
    OBVIOUS
  <2>2. Typed' /\ SessionsTyped'
    BY <1>5, <2>1, Deleted, TypeParts DEF Typed, SessionsTyped, Open
  <2>3. QED
    BY <2>2 DEF TypeOK, Typed, SessionsTyped
<1>6. QED
  BY <1>1, <1>2, <1>3, <1>4, <1>5, Steps

LEMMA MakeStep ==
  ASSUME IInv, Next
  PROVE  SessionsMake'
<1> USE DEF IInv
<1>1. ASSUME NEW w \in Worker, NEW l \in Ledger, NEW v \in Input(l), Upsert(w, l, v)
      PROVE  SessionsMake'
  <2>1. rows[l] = Absent => New(l, tx'[w].set.id, v) = New(l, calls, v)
    <3>1. CASE l = "traits"
      BY <3>1, Ledgers3 DEF New
    <3>2. CASE l # "traits" /\ rows[l] = Absent
      BY <1>1, <3>2, Opened
    <3>3. QED
      BY <3>1, <3>2
  <2>2. \A u \in Worker : u # w /\ Open(u)' => Open(u)
    BY <1>1, Opened DEF Open
  <2>3. tx'[w].ledger = l /\ tx'[w].read = rows[l] /\ tx'[w].input = v
    BY <1>1, Opened
  <2>4. tx'[w].set = IF tx'[w].read = Absent
                     THEN New(tx'[w].ledger, tx'[w].set.id, tx'[w].input)
                     ELSE Changed(tx'[w].ledger, tx'[w].read, tx'[w].input)
    BY <1>1, <2>1, <2>3, Opened
  <2>5. QED
    BY <1>1, <2>2, <2>4, Opened DEF SessionsMake
<1>2. ASSUME NEW w \in Worker, CommitInsert(w) \/ CommitUpdate(w) \/ RollBack(w)
      PROVE  SessionsMake'
  <2>1. tx'[w] = Idle /\ \A u \in Worker : u # w => tx'[u] = tx[u]
    BY <1>2, Inserted, Updated, RolledBack
  <2>2. QED
    BY <2>1 DEF SessionsMake, Open
<1>3. ASSUME NEW L \in SUBSET Ledger, Delete(L) PROVE SessionsMake'
  BY <1>3, Deleted DEF SessionsMake, Open
<1>4. QED
  BY <1>1, <1>2, <1>3, Steps
LEMMA IdsStep ==
  ASSUME IInv, Next
  PROVE  IdsAreNew'
<1> USE DEF IInv
<1>1. ASSUME NEW w \in Worker, NEW l \in Ledger, NEW v \in Input(l), Upsert(w, l, v)
      PROVE  IdsAreNew'
  <2>1. /\ calls \in Nat /\ calls' = calls + 1 /\ rows' = rows
        /\ \A u \in Worker : u # w => tx'[u] = tx[u]
        /\ tx'[w].ledger = l /\ tx'[w].read = rows[l]
        /\ l # "traits" => tx'[w].set.id = IF rows[l] = Absent THEN calls ELSE rows[l].id
    BY <1>1, Opened
  <2>2. /\ \A m \in Ledger : m # "traits" => rows[m].id < calls /\ rows[m].id \in Int
        /\ \A u \in Worker : Open(u) /\ tx[u].ledger # "traits" =>
               tx[u].set.id < calls /\ tx[u].set.id \in Nat
    <3>1. \A m \in Ledger : rows[m].id \in Int
      BY AbsentIsNoRow DEF TypeOK
    <3>2. \A u \in Worker : Open(u) => tx[u].set.id \in Nat
      BY AbsentIsNoRow, SessionParts
    <3>3. QED
      BY <3>1, <3>2 DEF IdsAreNew
  <2>3. \A m \in Ledger : m # "traits" => rows'[m].id < calls'
    BY <2>1, <2>2
  <2>4. \A u \in Worker : Open(u)' /\ tx'[u].ledger # "traits" => tx'[u].set.id < calls'
    BY <2>1, <2>2 DEF Open
  <2>5. \A u \in Worker : Making(u)' =>
           \A m \in Ledger : m # "traits" => rows'[m].id # tx'[u].set.id
    <3>1. CASE Making(w)'
      <4>1. tx'[w].set.id = calls
        BY <2>1, <3>1 DEF Making
      <4>2. \A m \in Ledger : m # "traits" => rows'[m].id # tx'[w].set.id
        BY <2>1, <2>2, <4>1
      <4>3. QED
        BY <2>1, <4>2 DEF Making, Open, IdsAreNew
    <3>2. CASE ~Making(w)'
      BY <2>1, <3>2 DEF Making, Open, IdsAreNew
    <3>3. QED
      BY <3>1, <3>2
  <2>6. ASSUME NEW u \in Worker, NEW x \in Worker, Making(u)', Open(x)',
               tx'[x].ledger # "traits", x # u
        PROVE  tx'[x].set.id # tx'[u].set.id
    <3>1. CASE u = w
      <4>1. tx'[w].set.id = calls /\ tx'[x] = tx[x]
        BY <2>1, <2>6, <3>1 DEF Making
      <4>2. tx[x].set.id < calls /\ tx[x].set.id \in Nat
        BY <2>2, <2>6, <4>1 DEF Open
      <4>3. QED
        BY <2>1, <3>1, <4>1, <4>2
    <3>2. CASE x = w
      <4>1. tx'[u] = tx[u] /\ Making(u)
        BY <2>1, <2>6, <3>2 DEF Making, Open
      <4>2. tx[u].set.id < calls /\ tx[u].set.id \in Nat
        BY <2>2, <4>1 DEF Making
      <4>3. l # "traits" /\ rows[l].id # tx[u].set.id
        BY <2>1, <2>6, <3>2, <4>1 DEF IdsAreNew
      <4>4. QED
        BY <2>1, <3>2, <4>1, <4>2, <4>3
    <3>3. CASE u # w /\ x # w
      BY <2>1, <2>6, <3>3 DEF Making, Open, IdsAreNew
    <3>4. QED
      BY <3>1, <3>2, <3>3
  <2>7. QED
    BY <2>3, <2>4, <2>5, <2>6 DEF IdsAreNew
<1>2. ASSUME NEW w \in Worker, CommitInsert(w) PROVE IdsAreNew'
  <2> DEFINE l == tx[w].ledger
  <2>1. /\ rows'[l] = tx[w].set /\ \A m \in Ledger : m # l => rows'[m] = rows[m]
        /\ tx'[w] = Idle /\ \A u \in Worker : u # w => tx'[u] = tx[u]
        /\ calls' = calls
    BY <1>2, Inserted
  <2>2. l # "traits" => Making(w)
    BY <1>2 DEF CommitInsert, Making
  <2>3. \A m \in Ledger : m # "traits" => rows'[m].id < calls'
    BY <2>1, <2>2 DEF IdsAreNew, Making
  <2>4. \A u \in Worker : Making(u)' => u # w /\ Making(u) /\ tx'[u] = tx[u]
    BY <2>1 DEF Making, Open
  <2>5. \A u \in Worker : Making(u)' =>
           \A m \in Ledger : m # "traits" => rows'[m].id # tx'[u].set.id
    BY <2>1, <2>2, <2>4 DEF IdsAreNew, Making
  <2>6. QED
    BY <2>1, <2>3, <2>4, <2>5 DEF IdsAreNew, Making, Open
<1>3. ASSUME NEW w \in Worker, CommitUpdate(w) \/ RollBack(w) PROVE IdsAreNew'
  <2>1. /\ \A m \in Ledger : rows'[m].id = rows[m].id
        /\ tx'[w] = Idle /\ \A u \in Worker : u # w => tx'[u] = tx[u]
        /\ calls' = calls
    BY <1>3, Updated, RolledBack
  <2>2. QED
    BY <2>1 DEF IdsAreNew, Making, Open
<1>4. ASSUME NEW L \in SUBSET Ledger, Delete(L) PROVE IdsAreNew'
  <2>1. /\ \A m \in Ledger : rows'[m] = Absent \/ rows'[m] = rows[m]
        /\ tx' = tx /\ calls' = calls
    BY <1>4, Deleted
  <2>2. -1 < calls
    BY CallsAssumption DEF TypeOK
  <2>3. \A u \in Worker : Making(u) => tx[u].set.id \in Nat
    BY AbsentIsNoRow, SessionParts DEF Making
  <2>4. \A m \in Ledger : m # "traits" => rows'[m].id < calls'
    BY <2>1, <2>2, AbsentIsNoRow DEF IdsAreNew
  <2>5. \A u \in Worker : Making(u) =>
           \A m \in Ledger : m # "traits" => rows'[m].id # tx[u].set.id
    BY <2>1, <2>3, AbsentIsNoRow DEF IdsAreNew
  <2>6. QED
    BY <2>1, <2>4, <2>5 DEF IdsAreNew, Making, Open
<1>5. QED
  BY <1>1, <1>2, <1>3, <1>4, Steps

LEMMA BackedStep ==
  ASSUME IInv, Next
  PROVE  RowsAreBacked'
<1> USE DEF IInv
<1>1. ASSUME NEW w \in Worker, NEW l \in Ledger, NEW v \in Input(l), Upsert(w, l, v)
      PROVE  RowsAreBacked'
  BY <1>1, Opened DEF RowsAreBacked, Exists
<1>2. ASSUME NEW w \in Worker, CommitInsert(w) PROVE RowsAreBacked'
  <2> DEFINE l == tx[w].ledger
  <2>1. /\ l \in Ledger /\ tx[w].input \in Input(l) /\ tx[w].set.id \in Nat
        /\ tx[w].set = New(l, tx[w].set.id, tx[w].input)
    BY <1>2, SessionParts, AbsentIsNoRow DEF CommitInsert, SessionsMake
  <2>2. Backed(l, rows'[l], log'[l])
    BY <1>2, <2>1, Inserted, NewIsBacked
  <2>3. QED
    BY <1>2, <2>2, Inserted DEF RowsAreBacked, Exists
<1>3. ASSUME NEW w \in Worker, CommitUpdate(w) PROVE RowsAreBacked'
  <2> DEFINE l == tx[w].ledger
             read == tx[w].read
             v == tx[w].input
  <2>1. Open(w) /\ read # Absent
    BY <1>3 DEF CommitUpdate
  <2>2. l \in Ledger /\ v \in Input(l) /\ read \in Row(l) /\ rows[l] \in Row(l)
        /\ rows[l].id = read.id /\ log[l] \in Seq(Input(l))
    BY <1>3, <2>1, SessionParts, Updated DEF TypeOK
  <2>3. /\ rows'[l] = Flushed(rows[l], read, Changed(l, read, v))
        /\ log'[l] = Append(log[l], v)
        /\ \A m \in Ledger : m # l => rows'[m] = rows[m] /\ log'[m] = log[m]
    BY <1>3, Updated
  <2>4. Backed(l, rows[l], log[l])
    BY <2>2, AbsentIsNoRow DEF RowsAreBacked, Exists
  <2>5. Backed(l, rows'[l], log'[l])
    <3>1. CASE l \in Key
      <4>1. Backed(l, read, log[l])
        BY <2>1, <2>2, <3>1, Ledgers3 DEF ReadsAreBacked
      <4>2. /\ rows[l] \in InterestRow /\ read \in InterestRow /\ v \in Visits
            /\ log[l] \in Seq(Visits)
        BY <2>2, <3>1, InputAssumption DEF Row, Input
      <4>3. InterestBacked(rows[l], log[l]) /\ InterestBacked(read, log[l])
        BY <2>4, <3>1, <4>1 DEF Backed
      <4>4. InterestBacked(Flushed(rows[l], read, Visited(read, v)), Append(log[l], v))
        BY <4>2, <4>3, InterestFlushed
      <4>5. QED
        BY <2>3, <3>1, <4>4 DEF Backed, Changed
    <3>2. CASE l = "traits"
      <4>1. /\ rows[l] \in TraitsRow /\ read \in TraitsRow /\ v \in Lessons
            /\ log[l] \in Seq(Lessons)
        BY <2>2, <3>2, Ledgers3, InputAssumption DEF Row, Input
      <4>2. TraitsBacked(rows[l], log[l])
        BY <2>4, <3>2, Ledgers3 DEF Backed
      <4>3. TraitsBacked(Flushed(rows[l], read, Taught(read, v)), Append(log[l], v))
        BY <4>1, <4>2, TraitsFlushed
      <4>4. QED
        BY <2>3, <3>2, <4>3, Ledgers3 DEF Backed, Changed
    <3>3. CASE l = "summary"
      <4>1. /\ rows[l] \in SummaryRow /\ read \in SummaryRow /\ v \in Summaries
            /\ log[l] \in Seq(Summaries)
        BY <2>2, <3>3, Ledgers3, InputAssumption DEF Row, Input
      <4>2. SummaryBacked(rows[l], log[l])
        BY <2>4, <3>3, Ledgers3 DEF Backed
      <4>3. SummaryBacked(Flushed(rows[l], read, Retold(read, v)), Append(log[l], v))
        BY <4>1, <4>2, SummaryFlushed
      <4>4. QED
        BY <2>3, <3>3, <4>3, Ledgers3 DEF Backed, Changed
    <3>4. QED
      BY <2>2, <3>1, <3>2, <3>3, Ledgers3
  <2>6. QED
    BY <2>3, <2>5 DEF RowsAreBacked, Exists
<1>4. ASSUME NEW w \in Worker, RollBack(w) PROVE RowsAreBacked'
  BY <1>4, RolledBack DEF RowsAreBacked, Exists
<1>5. ASSUME NEW L \in SUBSET Ledger, Delete(L) PROVE RowsAreBacked'
  BY <1>5, Deleted DEF RowsAreBacked, Exists
<1>6. QED
  BY <1>1, <1>2, <1>3, <1>4, <1>5, Steps
LEMMA ReadsStep ==
  ASSUME IInv, Next
  PROVE  ReadsAreBacked'
<1> USE DEF IInv
<1> SUFFICES ASSUME NEW u \in Worker, Open(u)', tx'[u].ledger # "traits",
                    tx'[u].read # Absent, rows'[tx'[u].ledger].id = tx'[u].read.id
             PROVE  Backed(tx'[u].ledger, tx'[u].read, log'[tx'[u].ledger])
  BY DEF ReadsAreBacked
<1> DEFINE m == tx'[u].ledger
           read == tx'[u].read
\* A session that was open before.
<1>1. ASSUME tx'[u] = tx[u]
      PROVE  /\ Open(u) /\ m \in Ledger /\ read \in Row(m) /\ read.id \in Nat
             /\ tx[u].set.id = read.id
             /\ rows[m].id = read.id => Backed(m, read, log[m])
  <2>1. Open(u) /\ tx[u].ledger = m /\ tx[u].read = read
    BY <1>1 DEF Open
  <2>2. /\ m \in Ledger /\ read \in Row(m) /\ tx[u].input \in Input(m)
        /\ tx[u].set = Changed(m, read, tx[u].input)
    BY <2>1, SessionParts DEF SessionsMake
  <2>3. read.id \in Nat /\ tx[u].set.id = read.id
    BY <2>2, AbsentIsNoRow, ChangedIsRow
  <2>4. rows[m].id = read.id => Backed(m, read, log[m])
    BY <2>1 DEF ReadsAreBacked
  <2>5. QED
    BY <2>1, <2>2, <2>3, <2>4
<1>2. ASSUME NEW w \in Worker, NEW l \in Ledger, NEW v \in Input(l), Upsert(w, l, v)
      PROVE  Backed(m, read, log'[m])
  <2>1. CASE u = w
    <3>1. m = l /\ read = rows[l] /\ log' = log
      BY <1>2, <2>1, Opened
    <3>2. QED
      BY <3>1 DEF RowsAreBacked, Exists
  <2>2. CASE u # w
    BY <1>1, <1>2, <2>2, Opened
  <2>3. QED
    BY <2>1, <2>2
<1>3. ASSUME NEW w \in Worker, CommitInsert(w) PROVE Backed(m, read, log'[m])
  <2> DEFINE l == tx[w].ledger
  <2>1. /\ rows'[l] = tx[w].set
        /\ \A k \in Ledger : k # l => rows'[k] = rows[k] /\ log'[k] = log[k]
        /\ tx'[w] = Idle /\ \A x \in Worker : x # w => tx'[x] = tx[x]
    BY <1>3, Inserted
  <2>2. u # w /\ tx'[u] = tx[u]
    BY <2>1 DEF Open
  <2>3. CASE m = l
    <3>1. Making(w)
      BY <1>3, <2>2, <2>3 DEF CommitInsert, Making
    <3>2. tx[u].set.id # tx[w].set.id
      BY <1>1, <2>2, <3>1 DEF IdsAreNew
    <3>3. QED
      BY <1>1, <2>1, <2>2, <2>3, <3>2
  <2>4. CASE m # l
    BY <1>1, <2>1, <2>2, <2>4
  <2>5. QED
    BY <2>3, <2>4
<1>4. ASSUME NEW w \in Worker, CommitUpdate(w) PROVE Backed(m, read, log'[m])
  <2> DEFINE l == tx[w].ledger
  <2>1. /\ rows'[l].id = rows[l].id
        /\ log'[l] = Append(log[l], tx[w].input)
        /\ \A k \in Ledger : k # l => rows'[k] = rows[k] /\ log'[k] = log[k]
        /\ tx'[w] = Idle /\ \A x \in Worker : x # w => tx'[x] = tx[x]
    BY <1>4, Updated
  <2>2. u # w /\ tx'[u] = tx[u]
    BY <2>1 DEF Open
  <2>3. CASE m = l
    <3>1. tx[w].input \in Input(m) /\ log[m] \in Seq(Input(m))
      BY <1>1, <1>4, <2>2, <2>3, SessionParts DEF CommitUpdate, TypeOK
    <3>2. m \in Ledger /\ read \in Row(m) /\ Backed(m, read, log[m])
      BY <1>1, <2>1, <2>2, <2>3
    <3>3. Backed(m, read, Append(log[m], tx[w].input))
      BY <3>1, <3>2, BackedByMore
    <3>4. QED
      BY <2>1, <2>3, <3>3
  <2>4. CASE m # l
    BY <1>1, <2>1, <2>2, <2>4
  <2>5. QED
    BY <2>3, <2>4
<1>5. ASSUME NEW w \in Worker, RollBack(w) PROVE Backed(m, read, log'[m])
  <2>1. tx'[u] = tx[u] /\ rows' = rows /\ log' = log
    BY <1>5, RolledBack DEF Open
  <2>2. QED
    BY <1>1, <2>1
<1>6. ASSUME NEW L \in SUBSET Ledger, Delete(L) PROVE Backed(m, read, log'[m])
  <2>1. /\ tx'[u] = tx[u]
        /\ \A k \in L : rows'[k] = Absent
        /\ \A k \in Ledger \ L : rows'[k] = rows[k] /\ log'[k] = log[k]
    BY <1>6, Deleted
  <2>2. m \notin L
    BY <1>1, <2>1, AbsentIsNoRow
  <2>3. QED
    BY <1>1, <2>1, <2>2
<1>7. QED
  BY <1>2, <1>3, <1>4, <1>5, <1>6, Steps

LEMMA Unchanging ==
  ASSUME IInv, UNCHANGED vars
  PROVE  IInv'
<1>1. UNCHANGED <<rows, tx, calls, log, torn>>
  BY DEF vars
<1>2. TypeOK' /\ SessionsMake' /\ RowsAreBacked'
  BY <1>1 DEF IInv, TypeOK, SessionsMake, RowsAreBacked, Open, Exists
<1>3. ReadsAreBacked' /\ IdsAreNew'
  BY <1>1 DEF IInv, ReadsAreBacked, IdsAreNew, Making, Open
<1>4. QED
  BY <1>2, <1>3 DEF IInv

LEMMA Inductive == IInv /\ [Next]_vars => IInv'
<1>1. ASSUME IInv, Next PROVE IInv'
  <2>1. TypeOK'
    BY <1>1, TypeStep DEF IInv
  <2>2. QED
    BY <1>1, <2>1, MakeStep, IdsStep, BackedStep, ReadsStep DEF IInv
<1>2. QED
  BY <1>1, Unchanging

LEMMA Invariance == Spec => []IInv
  BY Initially, Inductive, PTL DEF Spec

----------------------------------------------------------------------------
(* What a step may do to a row that stands before and after it. *)

KnownStays(row, new) ==
  /\ row.kind # Other => new.kind # Other
  /\ row.framework_link # Null => new.framework_link # Null
  /\ row.sentiment # Null => new.sentiment # Null
  /\ row.curiosity_signal # Null => new.curiosity_signal # Null
  /\ new.origin = row.origin

LEMMA FlushForgetsNothing ==
  ASSUME NEW row \in InterestRow, NEW read \in InterestRow, NEW v \in Visits
  PROVE  KnownStays(row, Flushed(row, read, Visited(read, v)))
<1> DEFINE set == Visited(read, v)
           new == Flushed(row, read, set)
<1>1. \A c \in {"kind", "framework_link", "sentiment", "origin", "curiosity_signal"} :
         new[c] = IF set[c] = read[c] THEN row[c] ELSE set[c]
  BY VisitedRow, FlushedInterest
<1>2. /\ set.kind = IF read.kind = Other THEN v.kind ELSE read.kind
      /\ set.framework_link = IF read.framework_link = Null THEN v.link ELSE read.framework_link
      /\ set.sentiment = IF v.sentiment # Null THEN v.sentiment ELSE read.sentiment
      /\ set.origin = read.origin
      /\ set.curiosity_signal = Curiosity(read.curiosity_signal, v.curiosity)
  BY VisitedRow
<1> HIDE DEF set, new
<1>3. row.kind # Other => new.kind # Other
  BY <1>1, <1>2
<1>4. row.framework_link # Null => new.framework_link # Null
  BY <1>1, <1>2
<1>5. row.sentiment # Null => new.sentiment # Null
  BY <1>1, <1>2
<1>6. row.curiosity_signal # Null => new.curiosity_signal # Null
  <2>1. read.curiosity_signal \in Nat \cup {Null} /\ v.curiosity \in Nat \cup {Null}
    BY DEF InterestRow, Visits
  <2>2. set.curiosity_signal # read.curiosity_signal => set.curiosity_signal # Null
    BY <1>2, <2>1, NullAssumption DEF Larger, Curiosity
  <2>3. QED
    BY <1>1, <2>2
<1>7. new.origin = row.origin
  BY <1>1, <1>2
<1>8. KnownStays(row, new)
  BY <1>3, <1>4, <1>5, <1>6, <1>7 DEF KnownStays
<1>9. QED
  BY <1>8 DEF set, new

LEMMA KeptInterests ==
  ASSUME IInv, Next, NEW k \in Key, Exists(k), rows'[k].id = rows[k].id
  PROVE  KnownStays(rows[k], rows'[k])
<1> USE DEF IInv
<1>1. k \in Ledger /\ rows[k] \in InterestRow /\ rows[k].id \in Nat
  BY AbsentIsNoRow, Ledgers3 DEF TypeOK, Row, Exists
<1>2. CASE rows'[k] = rows[k]
  BY <1>1, <1>2 DEF KnownStays, InterestRow
<1>3. ASSUME NEW w \in Worker, CommitUpdate(w), tx[w].ledger = k
      PROVE  KnownStays(rows[k], rows'[k])
  <2>1. /\ tx[w].read \in InterestRow /\ tx[w].input \in Visits
        /\ tx[w].set = Visited(tx[w].read, tx[w].input)
        /\ rows'[k] = Flushed(rows[k], tx[w].read, tx[w].set)
    <3>1. Open(w)
      BY <1>3 DEF CommitUpdate
    <3>2. /\ tx[w].read \in Row(k) /\ tx[w].input \in Input(k)
          /\ tx[w].set = Changed(k, tx[w].read, tx[w].input)
          /\ rows'[k] = Flushed(rows[k], tx[w].read, tx[w].set)
      BY <1>3, <3>1, Updated, SessionParts
    <3>3. QED
      BY <3>2, InputAssumption DEF Row, Input, Changed
  <2>2. QED
    BY <1>1, <2>1, FlushForgetsNothing
<1>4. rows'[k] = rows[k] \/ rows'[k] = Absent
      \/ \E w \in Worker : CommitUpdate(w) /\ tx[w].ledger = k
  <2>1. ASSUME NEW w \in Worker, NEW l \in Ledger, NEW v \in Input(l), Upsert(w, l, v)
        PROVE  rows'[k] = rows[k]
    BY <2>1 DEF Upsert
  <2>2. ASSUME NEW w \in Worker, CommitInsert(w) PROVE rows'[k] = rows[k]
    BY <1>1, <2>2, Inserted DEF Exists
  <2>3. ASSUME NEW w \in Worker, CommitUpdate(w), tx[w].ledger # k PROVE rows'[k] = rows[k]
    BY <1>1, <2>3, Updated
  <2>4. ASSUME NEW w \in Worker, RollBack(w) PROVE rows'[k] = rows[k]
    BY <2>4 DEF RollBack
  <2>5. ASSUME NEW L \in SUBSET Ledger, Delete(L) PROVE rows'[k] = rows[k] \/ rows'[k] = Absent
    BY <1>1, <2>5, Deleted
  <2>6. QED
    BY <2>1, <2>2, <2>3, <2>4, <2>5, Steps
<1>5. rows'[k] # Absent
  BY <1>1, AbsentIsNoRow
<1>6. QED
  BY <1>2, <1>3, <1>4, <1>5

LEMMA KeptTraits ==
  ASSUME IInv, Next, Exists("traits"), Exists("traits")',
         NEW c \in Trait, rows'["traits"][c] # rows["traits"][c]
  PROVE  \E w \in Worker : /\ Open(w) /\ tx[w].ledger = "traits"
                           /\ c \in DOMAIN tx[w].input
                           /\ rows'["traits"][c] = tx[w].input[c]
<1> USE DEF IInv
<1>1. "traits" \in Ledger
  BY DEF Ledger
<1>2. ASSUME NEW w \in Worker, NEW l \in Ledger, NEW v \in Input(l), Upsert(w, l, v)
      PROVE  FALSE
  BY <1>2 DEF Upsert
<1>3. ASSUME NEW w \in Worker, CommitInsert(w) PROVE FALSE
  BY <1>1, <1>3, Inserted DEF Exists
<1>4. ASSUME NEW w \in Worker, RollBack(w) PROVE FALSE
  BY <1>4 DEF RollBack
<1>5. ASSUME NEW L \in SUBSET Ledger, Delete(L) PROVE FALSE
  BY <1>1, <1>5, Deleted DEF Exists
<1>6. PICK w \in Worker : CommitUpdate(w)
  BY <1>2, <1>3, <1>4, <1>5, Steps
<1>7. tx[w].ledger = "traits"
  BY <1>1, <1>6, Updated
<1> DEFINE read == tx[w].read
           v == tx[w].input
<1>8. /\ Open(w) /\ v \in Lessons /\ read \in TraitsRow /\ rows["traits"] \in TraitsRow
      /\ rows'["traits"] = Flushed(rows["traits"], read, Taught(read, v))
  <2>1. Open(w)
    BY <1>6 DEF CommitUpdate
  <2>2. /\ rows["traits"] \in Row("traits") /\ read \in Row("traits") /\ v \in Input("traits")
        /\ tx[w].set = Changed("traits", read, v)
        /\ rows'["traits"] = Flushed(rows["traits"], read, tx[w].set)
    BY <1>6, <1>7, <2>1, Updated, SessionParts
  <2>3. QED
    BY <2>1, <2>2, Ledgers3, InputAssumption DEF Row, Input, Changed
<1>9. /\ Taught(read, v) \in TraitsRow
      /\ Taught(read, v)[c] = IF c \in DOMAIN v THEN v[c] ELSE read[c]
  BY <1>8, TaughtRow
<1>10. rows'["traits"][c] = IF Taught(read, v)[c] = read[c] THEN rows["traits"][c]
                            ELSE Taught(read, v)[c]
  BY <1>8, <1>9, FlushedTraits
<1>11. c \in DOMAIN v /\ rows'["traits"][c] = v[c]
  BY <1>9, <1>10
<1>12. QED
  BY <1>7, <1>8, <1>11

----------------------------------------------------------------------------
(* A row that no session has torn sums up its log. *)

(***************************************************************************)
(* A session that saw the row as it stands writes what it made of it.      *)
(***************************************************************************)
LEMMA FlushedWhole ==
  ASSUME NEW l \in Ledger, NEW row \in Row(l), NEW set \in Row(l)
  PROVE  Flushed(row, row, set) = set
<1>1. DOMAIN row = DOMAIN set
  BY DEF Row, InterestRow, TraitsRow, SummaryRow
<1>2. set = [c \in DOMAIN set |-> set[c]]
  BY DEF Row, InterestRow, TraitsRow, SummaryRow
<1>3. Flushed(row, row, set) = [c \in DOMAIN set |-> set[c]]
  BY <1>1 DEF Flushed
<1>4. QED
  BY <1>2, <1>3

LEMMA SumStep ==
  ASSUME IInv, SumsUpLog, [Next]_vars
  PROVE  SumsUpLog'
<1> USE DEF IInv
<1>1. ASSUME UNCHANGED <<rows, log, torn>>
      PROVE  SumsUpLog'
  BY <1>1 DEF SumsUpLog, Exists
<1>2. ASSUME NEW w \in Worker, CommitInsert(w)
      PROVE  SumsUpLog'
  <2> DEFINE l == tx[w].ledger
             v == tx[w].input
  <2>1. /\ l \in Ledger /\ v \in Input(l) /\ tx[w].set \in Row(l) /\ tx[w].read = Absent
        /\ Open(w)
    BY <1>2, SessionParts DEF CommitInsert
  <2>2. /\ rows'[l] = tx[w].set /\ log'[l] = <<v>>
        /\ \A m \in Ledger : m # l => rows'[m] = rows[m] /\ log'[m] = log[m]
    BY <1>2, Inserted
  <2>3. \A m \in Ledger : m # l => torn'[m] = torn[m]
    BY <1>2 DEF CommitInsert, TypeOK
  <2>4. tx[w].set = New(l, tx[w].set.id, v) /\ tx[w].set.id \in Nat
    BY <2>1, AbsentIsNoRow DEF SessionsMake
  <2> HIDE DEF l, v
  <2>5. SumsUp(l, rows'[l], log'[l])
    <3>1. PICK id \in Nat : id = tx[w].set.id
      BY <2>4
    <3>2. SumsUp(l, New(l, id, v), <<v>>)
      BY <2>1, NewSumsUp
    <3>3. QED
      BY <2>2, <2>4, <3>1, <3>2
  <2>6. QED
    BY <2>2, <2>3, <2>5 DEF SumsUpLog, Exists
<1>3. ASSUME NEW w \in Worker, CommitUpdate(w)
      PROVE  SumsUpLog'
  <2> DEFINE l == tx[w].ledger
             v == tx[w].input
  <2>1. l \in Ledger /\ v \in Input(l) /\ tx[w].set \in Row(l)
    BY <1>3, SessionParts DEF CommitUpdate
  <2>2. /\ rows[l] \in Row(l)
        /\ tx[w].set = Changed(l, tx[w].read, v)
        /\ rows'[l] = Flushed(rows[l], tx[w].read, tx[w].set)
        /\ log'[l] = Append(log[l], v)
        /\ \A m \in Ledger : m # l => rows'[m] = rows[m] /\ log'[m] = log[m]
    BY <1>3, Updated
  <2>3. /\ torn'[l] = (torn[l] \/ rows[l] # tx[w].read)
        /\ \A m \in Ledger : m # l => torn'[m] = torn[m]
    BY <1>3, <2>1 DEF CommitUpdate, TypeOK
  <2>4. log[l] \in Seq(Input(l))
    BY <2>1 DEF TypeOK
  <2> HIDE DEF l, v
  <2>5. ASSUME ~torn'[l]
        PROVE  SumsUp(l, rows'[l], log'[l])
    <3>1. ~torn[l] /\ rows[l] = tx[w].read
      BY <2>3, <2>5
    <3>2. Exists(l)
      BY <2>1, <2>2, AbsentIsNoRow DEF Exists
    <3>3. SumsUp(l, rows[l], log[l]) /\ Backed(l, rows[l], log[l])
      BY <2>1, <3>1, <3>2 DEF SumsUpLog, RowsAreBacked
    <3>4. SumsUp(l, Changed(l, rows[l], v), Append(log[l], v))
      BY <2>1, <2>2, <2>4, <3>3, ChangedSumsUp
    <3>5. rows'[l] = Changed(l, rows[l], v)
      BY <2>1, <2>2, <3>1, FlushedWhole
    <3>6. QED
      BY <2>2, <3>4, <3>5
  <2>6. QED
    BY <2>2, <2>3, <2>5 DEF SumsUpLog, Exists
<1>4. ASSUME NEW L \in SUBSET Ledger, Delete(L)
      PROVE  SumsUpLog'
  <2>1. /\ \A l \in L : rows'[l] = Absent
        /\ \A l \in Ledger \ L : rows'[l] = rows[l] /\ log'[l] = log[l]
    BY <1>4, Deleted
  <2>2. \A l \in Ledger \ L : torn'[l] = torn[l]
    BY <1>4 DEF Delete, TypeOK
  <2>3. QED
    BY <2>1, <2>2 DEF SumsUpLog, Exists
<1>5. ASSUME NEW w \in Worker, RollBack(w)
      PROVE  SumsUpLog'
  BY <1>1, <1>5 DEF RollBack
<1>6. ASSUME NEW w \in Worker, NEW l \in Ledger, NEW v \in Input(l), Upsert(w, l, v)
      PROVE  SumsUpLog'
  BY <1>1, <1>6 DEF Upsert
<1>7. CASE UNCHANGED vars
  BY <1>1, <1>7 DEF vars
<1>8. QED
  BY <1>2, <1>3, <1>4, <1>5, <1>6, <1>7, Steps

----------------------------------------------------------------------------
(***************************************************************************)
(* The types of the rows, the sessions and the logs.                       *)
(***************************************************************************)
THEOREM TypeCorrect == Spec => []TypeOK
<1>1. IInv => TypeOK
  BY DEF IInv
<1>2. QED
  BY <1>1, Invariance, PTL

(***************************************************************************)
(* Whatever overlaps and whatever is deleted in between, no row claims     *)
(* more than was reported of it.                                           *)
(***************************************************************************)
THEOREM NothingInvented == Spec => []RowsAreBacked
<1>1. IInv => RowsAreBacked
  BY DEF IInv
<1>2. QED
  BY <1>1, Invariance, PTL

(***************************************************************************)
(* A ledger sums up every call it was made by, in whatever order and       *)
(* number, until a session writes that had not seen the last of them.      *)
(***************************************************************************)
THEOREM LedgersSumUp == Spec => []SumsUpLog
<1>1. Init => SumsUpLog
  BY DEF Init, SumsUpLog, Exists
<1>2. QED
  BY <1>1, SumStep, Invariance, PTL DEF Spec

(***************************************************************************)
(* No session that read a topic before something was known of it takes     *)
(* that back, and none changes a trait it was not given.                   *)
(***************************************************************************)
THEOREM KnowledgeIsKept == Spec => NothingForgotten
<1> DEFINE Kept ==
      /\ \A k \in Key :
            LET row == rows[k] IN
            Exists(k) /\ rows'[k].id = row.id =>
                /\ row.kind # Other => rows'[k].kind # Other
                /\ row.framework_link # Null => rows'[k].framework_link # Null
                /\ row.sentiment # Null => rows'[k].sentiment # Null
                /\ row.curiosity_signal # Null => rows'[k].curiosity_signal # Null
                /\ rows'[k].origin = row.origin
      /\ Exists("traits") /\ Exists("traits")' =>
            \A c \in Trait : rows'["traits"][c] # rows["traits"][c] =>
                \E w \in Worker : /\ Open(w) /\ tx[w].ledger = "traits"
                                  /\ c \in DOMAIN tx[w].input
                                  /\ rows'["traits"][c] = tx[w].input[c]
<1>1. ASSUME IInv, Next PROVE Kept
  BY <1>1, KeptInterests, KeptTraits DEF KnownStays
<1>2. IInv /\ [Next]_vars => [Kept]_vars
  BY <1>1
<1>3. QED
  BY <1>2, Invariance, PTL DEF Spec, NothingForgotten
=============================================================================
