----------------------------- MODULE SumTheorems ----------------------------
(***************************************************************************)
(* What Total adds up to, for every sequence of numbers: it grows by what  *)
(* is appended and shrinks by what is taken from the front.  Total is a    *)
(* fold over the places of the sequence; the proofs go through the         *)
(* function by which the fold is defined, with induction on the length as  *)
(* a fact about sets of numbers (SetInduction).                            *)
(***************************************************************************)
EXTENDS Sums, WellFoundedInduction, TLAPS

\* A set of numbers that is not empty has a least one.
LEMMA LeastNatural ==
  ASSUME NEW T \in SUBSET Nat, T # {}
  PROVE  \E m \in T : \A n \in T : m <= n
<1> DEFINE R == OpToRel(<, Nat)
<1>1. IsWellFoundedOn(R, Nat)
  BY NatLessThanWellFounded, Zenon
<1>2. \A k, n \in Nat : <<k, n>> \in R <=> k < n
  BY DEF OpToRel
<1> HIDE DEF R
<1>3. PICK m \in T : \A n \in T : ~(<<n, m>> \in R)
  BY <1>1, WFMin, Zenon
<1>4. \A n \in T : ~(n < m)
  BY <1>2, <1>3, Zenon
<1>5. QED
  BY <1>4

\* Induction: a set with 0 and with n + 1 for every n of it has all numbers.
LEMMA SetInduction ==
  ASSUME NEW S \in SUBSET Nat, 0 \in S, \A n \in S : n + 1 \in S
  PROVE  S = Nat
<1>1. SUFFICES ASSUME Nat \ S # {} PROVE FALSE
  BY Zenon
<1>2. PICK m \in Nat \ S : \A n \in Nat \ S : m <= n
  BY <1>1, LeastNatural, Zenon
<1>3. m - 1 \in S
  BY <1>2
<1>4. QED
  BY <1>2, <1>3

\* f is the function that Total goes through: the sum at a set of places.
IsFold(f, q, n) ==
  f = [s \in SUBSET (1..n) |-> IF s = {} THEN 0 ELSE f[s \ {Max(s)}] + q[Max(s)]]

\* The greatest element of a set is what Max picks.
LEMMA MaxIs ==
  ASSUME NEW s \in SUBSET Int, NEW m \in s, \A k \in s : k <= m
  PROVE  Max(s) = m
<1>1. \E x \in s : \A y \in s : x >= y
  OBVIOUS
<1>2. Max(s) \in s /\ \A y \in s : Max(s) >= y
  BY <1>1, Zenon DEF Max
<1>3. Max(s) \in Int /\ m \in Int /\ Max(s) >= m /\ Max(s) <= m
  BY <1>2, Zenon
<1>4. QED
  BY <1>3

\* The function Total goes through exists for n + 1 if it does for n.
LEMMA FoldGrows ==
  ASSUME NEW q, NEW n \in Nat, \A k \in 1..(n + 1) : q[k] \in Nat,
         NEW f \in [SUBSET (1..n) -> Nat], IsFold(f, q, n)
  PROVE  \E g \in [SUBSET (1..(n + 1)) -> Nat] : IsFold(g, q, n + 1)
<1> DEFINE D == SUBSET (1..(n + 1))
           g == [s \in D |-> IF (n + 1) \in s THEN f[s \ {n + 1}] + q[n + 1] ELSE f[s]]
<1>1. ASSUME NEW s \in D
      PROVE  /\ g[s] \in Nat
             /\ g[s] = IF s = {} THEN 0 ELSE g[s \ {Max(s)}] + q[Max(s)]
  <2>1. CASE (n + 1) \in s
    <3>1. Max(s) = n + 1
      BY <2>1, MaxIs
    <3>2. s \ {n + 1} \in SUBSET (1..n) /\ s \ {n + 1} \in D
      OBVIOUS
    <3>3. g[s \ {n + 1}] = f[s \ {n + 1}] /\ f[s \ {n + 1}] \in Nat
      BY <3>2
    <3>4. g[s] = f[s \ {n + 1}] + q[n + 1]
      BY <2>1
    <3>5. QED
      BY <2>1, <3>1, <3>3, <3>4
  <2>2. CASE (n + 1) \notin s
    <3>1. s \in SUBSET (1..n)
      BY <2>2
    <3>2. g[s] = f[s] /\ f[s] \in Nat
      BY <2>2, <3>1
    <3>3. f[s] = IF s = {} THEN 0 ELSE f[s \ {Max(s)}] + q[Max(s)]
      BY <3>1, Zenon DEF IsFold
    <3>4. g[s \ {Max(s)}] = f[s \ {Max(s)}]
      <4>1. s \ {Max(s)} \in D /\ (n + 1) \notin s \ {Max(s)}
        BY <2>2, Zenon
      <4> QED BY <4>1
    <3>5. QED
      BY <3>2, <3>3, <3>4
  <2>3. QED
    BY <2>1, <2>2
<1>2. g \in [D -> Nat] /\ DOMAIN g = D
  BY <1>1
<1> HIDE DEF g
<1>3. IsFold(g, q, n + 1)
  BY <1>1, <1>2, Zenon DEF IsFold
<1>4. QED
  BY <1>2, <1>3

\* The numbers up to n + 1 are those up to n and the greatest, n + 1.
LEMMA Initial ==
  ASSUME NEW n \in Nat
  PROVE  /\ Max(1..(n + 1)) = n + 1
         /\ (1..(n + 1)) \ {n + 1} = 1..n
         /\ 1..(n + 1) # {}
<1>1. n + 1 \in 1..(n + 1) /\ 1..(n + 1) \in SUBSET Int /\ \A k \in 1..(n + 1) : k <= n + 1
  OBVIOUS
<1>2. Max(1..(n + 1)) = n + 1
  BY <1>1, MaxIs, Zenon
<1>3. QED
  BY <1>1, <1>2

\* The function Total goes through exists, by induction on the length.
LEMMA FoldExists ==
  ASSUME NEW q \in Seq(Nat)
  PROVE  \E f \in [SUBSET (1..Len(q)) -> Nat] : IsFold(f, q, Len(q))
<1> DEFINE P(n) == n <= Len(q) => \E f \in [SUBSET (1..n) -> Nat] : IsFold(f, q, n)
<1>1. P(0)
  <2> DEFINE f == [s \in {{}} |-> 0]
  <2>1. SUBSET (1..0) = {{}}
    OBVIOUS
  <2>2. f \in [SUBSET (1..0) -> Nat] /\ IsFold(f, q, 0)
    BY <2>1 DEF IsFold
  <2> HIDE DEF f
  <2>3. QED
    BY <2>2, Zenon
<1>2. ASSUME NEW n \in Nat, P(n)
      PROVE  P(n + 1)
  <2>1. SUFFICES ASSUME n + 1 <= Len(q)
                 PROVE  \E f \in [SUBSET (1..(n + 1)) -> Nat] : IsFold(f, q, n + 1)
    BY Zenon
  <2>2. n <= Len(q) /\ Len(q) \in Nat
    BY <2>1
  <2>3. PICK f \in [SUBSET (1..n) -> Nat] : IsFold(f, q, n)
    BY <1>2, <2>2, Zenon
  <2>4. \A k \in 1..(n + 1) : q[k] \in Nat
    BY <2>1, <2>2
  <2>5. QED
    BY <2>3, <2>4, FoldGrows, Zenon
<1> HIDE DEF P
<1> DEFINE S == {n \in Nat : P(n)}
<1>3. 0 \in S /\ \A n \in S : n + 1 \in S
  BY <1>1, <1>2
<1> HIDE DEF S
<1>4. S = Nat
  <2>1. S \in SUBSET Nat
    BY DEF S
  <2>2. QED
    BY <1>3, <2>1, SetInduction, Zenon
<1>5. P(Len(q))
  <2>1. Len(q) \in S
    BY <1>4
  <2>2. QED
    BY <2>1 DEF S
<1>6. Len(q) \in Nat /\ Len(q) <= Len(q)
  OBVIOUS
<1>7. QED
  BY <1>5, <1>6, Zenon DEF P

\* Total is the value of such a function at all places of the sequence.
LEMMA TotalIsFold ==
  ASSUME NEW q \in Seq(Nat)
  PROVE  \E f : IsFold(f, q, Len(q)) /\ Total(q) = f[1..Len(q)]
<1> DEFINE P(f) == IsFold(f, q, Len(q))
<1>1. \E f : P(f)
  BY FoldExists, Zenon
<1>2. Total(q) = (CHOOSE f : P(f))[1..Len(q)]
  <2>1. DOMAIN q = 1..Len(q)
    OBVIOUS
  <2>2. QED
    BY <2>1 DEF Total, MapThenFoldSet, IsFold
<1> HIDE DEF P
<1>3. P(CHOOSE f : P(f))
  BY <1>1
<1>4. QED
  BY <1>2, <1>3, Zenon DEF P

\* total is the running total of q.
Running(total, q) ==
  total[0] = 0 /\ \A k \in 1..Len(q) : total[k] = total[k - 1] + q[k]

\* A function that adds one element at each step arrives at Total, by induction
\* on the steps.
THEOREM TotalIs ==
  ASSUME NEW q \in Seq(Nat), NEW total, Running(total, q)
  PROVE  Total(q) = total[Len(q)]
<1>1. PICK f : IsFold(f, q, Len(q)) /\ Total(q) = f[1..Len(q)]
  BY TotalIsFold
<1> DEFINE P(n) == n <= Len(q) => f[1..n] = total[n]
<1>2. P(0)
  <2>1. 1..0 = {} /\ {} \in SUBSET (1..Len(q))
    OBVIOUS
  <2>2. f[{}] = 0
    BY <1>1, <2>1 DEF IsFold
  <2>3. QED
    BY <2>1, <2>2 DEF Running
<1>3. ASSUME NEW n \in Nat, P(n)
      PROVE  P(n + 1)
  <2>1. SUFFICES ASSUME n + 1 <= Len(q)
                 PROVE  f[1..(n + 1)] = total[n + 1]
    OBVIOUS
  <2>2. n + 1 \in 1..Len(q) /\ (n + 1) - 1 = n /\ n <= Len(q)
    BY <2>1
  <2>3. 1..(n + 1) \in SUBSET (1..Len(q))
    BY <2>1
  <2>4. f[1..(n + 1)] = f[1..n] + q[n + 1]
    <3>1. Max(1..(n + 1)) = n + 1 /\ (1..(n + 1)) \ {n + 1} = 1..n /\ 1..(n + 1) # {}
      BY Initial, Zenon
    <3>2. QED
      BY <1>1, <2>3, <3>1, ZenonT(120) DEF IsFold
  <2>5. total[n + 1] = total[n] + q[n + 1]
    BY <2>2 DEF Running
  <2>6. QED
    BY <1>3, <2>2, <2>4, <2>5
<1> HIDE DEF P
<1> DEFINE S == {n \in Nat : P(n)}
<1>4. S \in SUBSET Nat /\ 0 \in S /\ \A n \in S : n + 1 \in S
  BY <1>2, <1>3
<1> HIDE DEF S
<1>5. S = Nat
  BY <1>4, SetInduction, Zenon
<1>6. P(Len(q)) /\ Len(q) \in Nat
  BY <1>5 DEF S
<1>7. QED
  BY <1>1, <1>6 DEF P

\* There is such a function.
THEOREM RunningTotal ==
  ASSUME NEW q \in Seq(Nat)
  PROVE  \E total \in [0..Len(q) -> Nat] : Running(total, q) /\ Total(q) = total[Len(q)]
<1>1. PICK f \in [SUBSET (1..Len(q)) -> Nat] : IsFold(f, q, Len(q))
  BY FoldExists, Zenon
<1> DEFINE total == [k \in 0..Len(q) |-> f[1..k]]
<1>2. total \in [0..Len(q) -> Nat]
  <2>1. \A k \in 0..Len(q) : 1..k \in SUBSET (1..Len(q))
    OBVIOUS
  <2>2. QED
    BY <2>1, SMTT(30)
<1>3. total[0] = 0
  <2>1. 1..0 = {} /\ {} \in SUBSET (1..Len(q)) /\ 0 \in 0..Len(q)
    OBVIOUS
  <2>2. f[{}] = 0
    BY <1>1, <2>1 DEF IsFold
  <2>3. QED
    BY <2>1, <2>2
<1>4. ASSUME NEW k \in 1..Len(q)
      PROVE  total[k] = total[k - 1] + q[k]
  <2>1. k - 1 \in Nat /\ (k - 1) + 1 = k /\ k \in 0..Len(q) /\ k - 1 \in 0..Len(q)
    OBVIOUS
  <2>2. 1..k \in SUBSET (1..Len(q))
    OBVIOUS
  <2>3. Max(1..k) = k /\ (1..k) \ {k} = 1..(k - 1) /\ 1..k # {}
    BY <2>1, Initial, Zenon
  <2>4. f[1..k] = f[1..(k - 1)] + q[k]
    BY <1>1, <2>2, <2>3, Zenon DEF IsFold
  <2>5. QED
    BY <2>1, <2>4
<1> HIDE DEF total
<1>5. Running(total, q)
  BY <1>3, <1>4 DEF Running
<1>6. QED
  BY <1>2, <1>5, TotalIs

\* A sum of numbers is a number.
THEOREM TotalNat ==
  ASSUME NEW q \in Seq(Nat)
  PROVE  Total(q) \in Nat
<1>1. PICK total \in [0..Len(q) -> Nat] : Running(total, q) /\ Total(q) = total[Len(q)]
  BY RunningTotal
<1>2. Len(q) \in 0..Len(q)
  OBVIOUS
<1>3. QED
  BY <1>1, <1>2

\* The empty sequence adds up to zero: a queue without writes.
THEOREM TotalEmpty == Total(<<>>) = 0
<1> DEFINE total == [k \in 0..0 |-> 0]
<1>1. <<>> \in Seq(Nat) /\ Len(<<>>) = 0
  OBVIOUS
<1>2. Running(total, <<>>)
  BY <1>1 DEF Running
<1>3. Total(<<>>) = total[Len(<<>>)]
  <2> HIDE DEF total
  <2> QED BY <1>1, <1>2, TotalIs, Zenon
<1>4. QED
  BY <1>1, <1>3

\* An element appended adds itself: a write that is queued.
THEOREM TotalAppend ==
  ASSUME NEW q \in Seq(Nat), NEW x \in Nat
  PROVE  Total(Append(q, x)) = Total(q) + x
<1>1. PICK old \in [0..Len(q) -> Nat] : Running(old, q) /\ Total(q) = old[Len(q)]
  BY RunningTotal
<1> DEFINE n == Len(q)
           new == [k \in 0..(n + 1) |-> IF k <= n THEN old[k] ELSE old[n] + x]
           r == Append(q, x)
<1>2. n \in Nat /\ r \in Seq(Nat) /\ Len(r) = n + 1 /\ r[n + 1] = x /\ \A k \in 1..n : r[k] = q[k]
  OBVIOUS
<1> HIDE DEF n, r
<1>3. new[0] = 0
  BY <1>1, <1>2 DEF Running
<1>4. ASSUME NEW k \in 1..(n + 1)
      PROVE  new[k] = new[k - 1] + r[k]
  <2>1. CASE k = n + 1
    BY <1>2, <2>1
  <2>2. CASE k \in 1..n
    <3>1. old[k] = old[k - 1] + q[k]
      BY <1>1, <2>2 DEF Running, n
    <3>2. new[k] = old[k] /\ new[k - 1] = old[k - 1]
      BY <1>2, <2>2, SMTT(30)
    <3>3. QED
      BY <1>2, <2>2, <3>1, <3>2, SMTT(30)
  <2>3. QED
    BY <1>2, <2>1, <2>2
<1>5. new[n + 1] = Total(q) + x
  BY <1>1, <1>2 DEF n
<1> HIDE DEF new
<1>6. Running(new, r)
  BY <1>2, <1>3, <1>4 DEF Running
<1>7. QED
  BY <1>2, <1>5, <1>6, TotalIs, SMTT(30) DEF r

\* An element taken from the front takes itself away: a write that is done.
THEOREM TotalTail ==
  ASSUME NEW q \in Seq(Nat), q # <<>>
  PROVE  Total(q) = Head(q) + Total(Tail(q))
<1>1. PICK old \in [0..Len(q) -> Nat] : Running(old, q) /\ Total(q) = old[Len(q)]
  BY RunningTotal
<1> DEFINE n == Len(q)
           r == Tail(q)
           new == [k \in 0..(n - 1) |-> old[k + 1] - old[1]]
<1>2. n \in Nat \ {0} /\ r \in Seq(Nat) /\ Len(r) = n - 1 /\ \A k \in 1..(n - 1) : r[k] = q[k + 1]
  OBVIOUS
<1>3. Head(q) = q[1] /\ q[1] \in Nat
  OBVIOUS
<1> HIDE DEF n, r
<1>4. old[1] = q[1] /\ old[0] = 0
  BY <1>1, <1>2, <1>3 DEF Running, n
<1>5. new[0] = 0
  BY <1>1, <1>2, <1>3, <1>4
<1>6. ASSUME NEW k \in 1..(n - 1)
      PROVE  new[k] = new[k - 1] + r[k]
  <2>1. k + 1 \in 1..n /\ (k + 1) - 1 = k /\ (k - 1) + 1 = k /\ k \in 0..n /\ k + 1 \in 0..n
    BY <1>2
  <2>2. old[k + 1] = old[k] + q[k + 1]
    BY <1>1, <2>1, SMTT(30) DEF Running, n
  <2>3. new[k] = old[k + 1] - old[1] /\ new[k - 1] = old[k] - old[1]
    BY <1>2, <2>1
  <2> HIDE DEF new
  <2>4. old[k] \in Nat /\ old[k + 1] \in Nat
    BY <2>1, SMTT(30) DEF n
  <2>5. r[k] = q[k + 1] /\ r[k] \in Nat
    BY <1>2, SMTT(60)
  <2>6. old[1] \in Nat /\ old[k + 1] = old[k] + r[k]
    BY <1>3, <1>4, <2>2, <2>5
  <2>7. QED
    BY <2>3, <2>4, <2>5, <2>6, SMTT(60)
<1>7. new[n - 1] = Total(q) - q[1] /\ Total(q) \in Nat
  BY <1>1, <1>2, <1>4, SMTT(60) DEF n
<1> HIDE DEF new
<1>8. Running(new, r)
  BY <1>2, <1>5, <1>6 DEF Running
<1>9. Total(r) = new[n - 1]
  BY <1>2, <1>8, TotalIs, Zenon
<1>10. QED
  BY <1>3, <1>7, <1>9 DEF r
=============================================================================
