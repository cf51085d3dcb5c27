------------------------------ MODULE FoldFacts ------------------------------
(***************************************************************************)
(* Facts about what is computed by repeating a step: a fold over a         *)
(* sequence from its first element on, which is what a loop over a list    *)
(* with an accumulator computes, and a function defined by recursion on    *)
(* the natural numbers.  The step is a parameter: each computation takes   *)
(* these facts by INSTANCE, with its own step, so that induction over its  *)
(* data is induction over sets of numbers (CountingUp).  w is what the     *)
(* step depends on but does not change.                                    *)
(***************************************************************************)
EXTENDS Naturals, Sequences, WellFoundedInduction, TLAPS

CONSTANTS
  Step(_, _, _),  \* of w, the value so far and an element or a number
  Start(_)        \* of w

Highest(t) == CHOOSE m \in t : \A k \in t : m >= k

(* FoldLeft(LAMBDA value, x : Step(w, value, x), Start(w), s), written out. *)
Folded(w, s) ==
  LET iter[t \in SUBSET DOMAIN s] ==
        IF t = {} THEN Start(w)
        ELSE LET x == Highest(t) IN Step(w, iter[t \ {x}], s[x])
  IN  iter[DOMAIN s]

(* The values from number to number. *)
Counted(w, D) ==
  LET value[n \in D] == IF n = 0 THEN Start(w) ELSE Step(w, value[n - 1], n) IN value

-----------------------------------------------------------------------------
(* Induction, for sets of numbers. *)

(* A set of numbers that is not empty has a least one. *)
LEMMA LeastNumber ==
  ASSUME NEW S, S \subseteq Nat, S # {}
  PROVE  \E m \in S : \A k \in S : m <= k
<1> DEFINE R == {ss \in Nat \X Nat : ss[1] < ss[2]}
<1>1. PICK m \in S : \A k \in S : ~ (<<k, m>> \in R)
  <2>1. IsWellFoundedOn(R, Nat)
    BY NatLessThanWellFounded DEF OpToRel
  <2>2. IsWellFoundedOn(R, S)
    BY <2>1, IsWellFoundedOnSubset
  <2> HIDE DEF R
  <2> QED
    BY <2>2, WFMin
<1>2. ASSUME NEW k \in S PROVE m <= k
  <2>1. ~(k < m)
    BY <1>1
  <2> QED
    BY <2>1
<1> QED
  BY <1>2

(* What holds of 0, and of a number's successor when it holds of the number,
   holds of all numbers up to n. *)
LEMMA CountingUp ==
  ASSUME NEW n \in Nat, NEW S, 0 \in S, \A k \in Nat : k < n /\ k \in S => k + 1 \in S
  PROVE  \A k \in 0 .. n : k \in S
<1> DEFINE T == {k \in 0 .. n : k \notin S}
<1> SUFFICES ASSUME T # {} PROVE FALSE
  OBVIOUS
<1>1. PICK m \in T : \A k \in T : m <= k
  <2>1. T \subseteq Nat
    OBVIOUS
  <2> HIDE DEF T
  <2> QED
    BY <2>1, LeastNumber
<1>2. m - 1 \in Nat /\ m - 1 < n /\ m - 1 \notin T /\ m = (m - 1) + 1
  BY <1>1
<1> QED
  BY <1>1, <1>2

-----------------------------------------------------------------------------
(* Recursion on numbers. *)

(* Up to any number there are values. *)
LEMMA ValuesUpTo ==
  ASSUME NEW w, NEW n \in Nat
  PROVE  \E v : v = [k \in 0 .. n |-> IF k = 0 THEN Start(w) ELSE Step(w, v[k - 1], k)]
<1> DEFINE Ok(m) == \E v : v = [k \in 0 .. m |-> IF k = 0 THEN Start(w) ELSE Step(w, v[k - 1], k)]
           S == {m \in Nat : Ok(m)}
<1>1. 0 \in S
  <2> DEFINE v == [k \in 0 .. 0 |-> Start(w)]
  <2>1. v = [k \in 0 .. 0 |-> IF k = 0 THEN Start(w) ELSE Step(w, v[k - 1], k)]
    OBVIOUS
  <2> QED
    BY <2>1
<1>2. ASSUME NEW m \in Nat, m \in S PROVE m + 1 \in S
  <2>1. PICK v : v = [k \in 0 .. m |-> IF k = 0 THEN Start(w) ELSE Step(w, v[k - 1], k)]
    BY <1>2
  <2> DEFINE u == [k \in 0 .. (m + 1) |-> IF k = m + 1 THEN Step(w, v[m], k) ELSE v[k]]
  <2>2. ASSUME NEW k \in 0 .. (m + 1) PROVE u[k] = IF k = 0 THEN Start(w) ELSE Step(w, u[k - 1], k)
    <3>1. CASE k = m + 1
      BY <3>1
    <3>2. CASE k # m + 1
      <4>1. k \in 0 .. m /\ u[k] = v[k]
        BY <3>2
      <4>2. k # 0 => k - 1 \in 0 .. m /\ u[k - 1] = v[k - 1]
        BY <4>1
      <4>3. v[k] = IF k = 0 THEN Start(w) ELSE Step(w, v[k - 1], k)
        BY <2>1, <4>1
      <4> HIDE DEF u
      <4> QED
        BY <4>1, <4>2, <4>3
    <3> QED
      BY <3>1, <3>2
  <2>3. u = [k \in 0 .. (m + 1) |-> IF k = 0 THEN Start(w) ELSE Step(w, u[k - 1], k)]
    BY <2>2
  <2> HIDE DEF u
  <2>4. Ok(m + 1)
    BY <2>3
  <2> QED
    BY <2>4
<1>3. n \in S
  <2> HIDE DEF S
  <2> QED
    BY <1>1, <1>2, CountingUp
<1> QED
  BY <1>3

(* Two of them agree where both are given. *)
LEMMA ValuesAgree ==
  ASSUME NEW w, NEW m \in Nat, NEW n \in Nat, m <= n, NEW u, NEW v,
         u = [k \in 0 .. m |-> IF k = 0 THEN Start(w) ELSE Step(w, u[k - 1], k)],
         v = [k \in 0 .. n |-> IF k = 0 THEN Start(w) ELSE Step(w, v[k - 1], k)]
  PROVE  \A k \in 0 .. m : u[k] = v[k]
<1> DEFINE S == {k \in 0 .. m : u[k] = v[k]}
<1>1. 0 \in S
  OBVIOUS
<1>2. ASSUME NEW k \in Nat, k < m, k \in S PROVE k + 1 \in S
  <2>1. u[k + 1] = Step(w, u[k], k + 1) /\ v[k + 1] = Step(w, v[k], k + 1)
    BY <1>2
  <2> QED
    BY <1>2, <2>1
<1>3. \A k \in 0 .. m : k \in S
  <2> HIDE DEF S
  <2> QED
    BY <1>1, <1>2, CountingUp
<1> QED
  BY <1>3

(* The recursion has the values its equation gives, up to a number (the rounds
   in which what is reached along extends is collected). *)
THEOREM CountedUpTo ==
  ASSUME NEW w, NEW n \in Nat
  PROVE  /\ Counted(w, 0 .. n)[0] = Start(w)
         /\ \A k \in 0 .. (n - 1) : Counted(w, 0 .. n)[k + 1] = Step(w, Counted(w, 0 .. n)[k], k + 1)
<1> DEFINE c == Counted(w, 0 .. n)
<1>1. c = [k \in 0 .. n |-> IF k = 0 THEN Start(w) ELSE Step(w, c[k - 1], k)]
  BY ValuesUpTo DEF Counted
<1> HIDE DEF c
<1>2. c[0] = Start(w)
  BY <1>1
<1>3. ASSUME NEW k \in 0 .. (n - 1) PROVE c[k + 1] = Step(w, c[k], k + 1)
  BY <1>1
<1> QED
  BY <1>2, <1>3 DEF c

(* The same for all numbers (the steps of loadChain). *)
THEOREM CountedAlways ==
  ASSUME NEW w
  PROVE  /\ Counted(w, Nat)[0] = Start(w)
         /\ \A k \in Nat : Counted(w, Nat)[k + 1] = Step(w, Counted(w, Nat)[k], k + 1)
<1> DEFINE Upto(n, v) == v = [k \in 0 .. n |-> IF k = 0 THEN Start(w) ELSE Step(w, v[k - 1], k)]
           c == Counted(w, Nat)
           u == [n \in Nat |-> (CHOOSE v : Upto(n, v))[n]]
<1>1. ASSUME NEW n \in Nat PROVE Upto(n, CHOOSE v : Upto(n, v))
  BY ValuesUpTo
<1>2. ASSUME NEW n \in Nat PROVE u[n] = IF n = 0 THEN Start(w) ELSE Step(w, u[n - 1], n)
  <2> DEFINE v == CHOOSE x : Upto(n, x)
             p == CHOOSE x : Upto(n - 1, x)
  <2>1. Upto(n, v)
    BY <1>1
  <2>2. CASE n = 0
    BY <2>1, <2>2
  <2>3. CASE n # 0
    <3>1. n - 1 \in Nat /\ Upto(n - 1, p)
      BY <1>1, <2>3
    <3>2. p[n - 1] = v[n - 1]
      <4> HIDE DEF v, p
      <4> QED
        BY <2>1, <3>1, ValuesAgree
    <3>3. v[n] = Step(w, v[n - 1], n)
      <4> HIDE DEF v
      <4> QED
        BY <2>1, <2>3
    <3> QED
      BY <2>3, <3>1, <3>2, <3>3
  <2> QED
    BY <2>2, <2>3
<1>3. u = [n \in Nat |-> IF n = 0 THEN Start(w) ELSE Step(w, u[n - 1], n)]
  <2> HIDE DEF Upto
  <2>1. u = [n \in Nat |-> u[n]]
    OBVIOUS
  <2> HIDE DEF u
  <2> QED
    BY <1>2, <2>1
<1>4. c = [n \in Nat |-> IF n = 0 THEN Start(w) ELSE Step(w, c[n - 1], n)]
  <2> HIDE DEF u
  <2> QED
    BY <1>3 DEF Counted
<1> HIDE DEF c
<1>5. c[0] = Start(w)
  BY <1>4
<1>6. ASSUME NEW k \in Nat PROVE c[k + 1] = Step(w, c[k], k + 1)
  BY <1>4
<1> QED
  BY <1>5, <1>6 DEF c

-----------------------------------------------------------------------------
(* Folds.  A table has the value for each set of positions. *)
Table(w, s, n, v) ==
  v = [t \in SUBSET (1 .. n) |->
         IF t = {} THEN Start(w) ELSE Step(w, v[t \ {Highest(t)}], s[Highest(t)])]

(* The highest of some numbers up to n is n where n is one of them. *)
LEMMA HighestIsLast ==
  ASSUME NEW n \in Nat, NEW t \in SUBSET (1 .. n), n \in t
  PROVE  Highest(t) = n
<1>1. \A k \in t : n >= k
  OBVIOUS
<1>2. Highest(t) \in t /\ \A k \in t : Highest(t) >= k
  BY <1>1, Zenon DEF Highest
<1>3. Highest(t) \in 1 .. n /\ Highest(t) >= n
  BY <1>2
<1> QED
  BY <1>3

(* There is a table for any number of positions. *)
LEMMA TableExists ==
  ASSUME NEW w, NEW s, NEW n \in Nat
  PROVE  \E v : Table(w, s, n, v)
<1> DEFINE S == {m \in Nat : \E v : Table(w, s, m, v)}
<1>1. 0 \in S
  <2> DEFINE v == [t \in SUBSET (1 .. 0) |-> Start(w)]
  <2>1. \A t \in SUBSET (1 .. 0) : t = {}
    OBVIOUS
  <2>2. Table(w, s, 0, v)
    BY <2>1 DEF Table
  <2> QED
    BY <2>2
<1>2. ASSUME NEW m \in Nat, m \in S PROVE m + 1 \in S
  <2>1. PICK v : Table(w, s, m, v)
    BY <1>2
  <2> DEFINE u == [t \in SUBSET (1 .. (m + 1)) |->
                     IF m + 1 \in t THEN Step(w, v[t \ {m + 1}], s[m + 1]) ELSE v[t]]
  <2>2. ASSUME NEW t \in SUBSET (1 .. (m + 1))
        PROVE  u[t] = IF t = {} THEN Start(w) ELSE Step(w, u[t \ {Highest(t)}], s[Highest(t)])
    <3>1. CASE m + 1 \in t
      <4>1. Highest(t) = m + 1 /\ t # {}
        BY <3>1, HighestIsLast
      <4>2. t \ {m + 1} \in SUBSET (1 .. (m + 1)) /\ m + 1 \notin t \ {m + 1}
        OBVIOUS
      <4>3. u[t \ {m + 1}] = v[t \ {m + 1}]
        BY <4>2
      <4>4. u[t] = Step(w, v[t \ {m + 1}], s[m + 1])
        BY <3>1
      <4> HIDE DEF u
      <4> QED
        BY <4>1, <4>3, <4>4
    <3>2. CASE m + 1 \notin t
      <4>1. t \in SUBSET (1 .. m)
        BY <3>2
      <4>2. u[t] = v[t]
        BY <3>2
      <4>3. t # {} => t \ {Highest(t)} \in SUBSET (1 .. (m + 1)) /\ m + 1 \notin t \ {Highest(t)}
        BY <3>2
      <4>4. t # {} => u[t \ {Highest(t)}] = v[t \ {Highest(t)}]
        BY <4>3
      <4>5. v[t] = IF t = {} THEN Start(w) ELSE Step(w, v[t \ {Highest(t)}], s[Highest(t)])
        BY <2>1, <4>1 DEF Table
      <4> HIDE DEF u
      <4> QED
        BY <4>2, <4>4, <4>5
    <3> QED
      BY <3>1, <3>2
  <2>3. u = [t \in SUBSET (1 .. (m + 1)) |-> u[t]]
    OBVIOUS
  <2>4. Table(w, s, m + 1, u)
    <3> HIDE DEF u
    <3> QED
      BY <2>2, <2>3 DEF Table
  <2> QED
    BY <2>4
<1>3. n \in S
  <2> HIDE DEF S
  <2> QED
    BY <1>1, <1>2, CountingUp
<1> QED
  BY <1>3

(* Tables of sequences that begin alike agree on the positions of the
   beginning. *)
LEMMA TablesAgree ==
  ASSUME NEW w, NEW s, NEW r, NEW m \in Nat, NEW n \in Nat, m <= n, \A i \in 1 .. m : r[i] = s[i],
         NEW u, Table(w, r, m, u), NEW v, Table(w, s, n, v)
  PROVE  \A t \in SUBSET (1 .. m) : u[t] = v[t]
<1> DEFINE S == {k \in 0 .. m : \A t \in SUBSET (1 .. k) : u[t] = v[t]}
<1>1. 0 \in S
  <2>1. {} \in SUBSET (1 .. m) /\ {} \in SUBSET (1 .. n)
    OBVIOUS
  <2>2. u[{}] = Start(w)
    BY <2>1 DEF Table
  <2>3. v[{}] = Start(w)
    BY <2>1 DEF Table
  <2>4. \A t \in SUBSET (1 .. 0) : t = {}
    OBVIOUS
  <2>5. \A t \in SUBSET (1 .. 0) : u[t] = v[t]
    BY <2>2, <2>3, <2>4
  <2> QED
    BY <2>5
<1>2. ASSUME NEW k \in Nat, k < m, k \in S PROVE k + 1 \in S
  <2>1. ASSUME NEW t \in SUBSET (1 .. (k + 1)), k + 1 \in t PROVE u[t] = v[t]
    <3>1. Highest(t) = k + 1 /\ t # {}
      BY <2>1, HighestIsLast
    <3>2. t \in SUBSET (1 .. m) /\ t \in SUBSET (1 .. n)
      BY <1>2
    <3>3. u[t] = Step(w, u[t \ {k + 1}], r[k + 1])
      BY <3>1, <3>2 DEF Table
    <3>4. v[t] = Step(w, v[t \ {k + 1}], s[k + 1])
      BY <3>1, <3>2 DEF Table
    <3>5. t \ {k + 1} \in SUBSET (1 .. k)
      OBVIOUS
    <3>6. u[t \ {k + 1}] = v[t \ {k + 1}]
      BY <1>2, <3>5
    <3>7. r[k + 1] = s[k + 1]
      BY <1>2
    <3> QED
      BY <3>3, <3>4, <3>6, <3>7
  <2>2. ASSUME NEW t \in SUBSET (1 .. (k + 1)), k + 1 \notin t PROVE u[t] = v[t]
    <3>1. t \in SUBSET (1 .. k)
      BY <2>2
    <3> QED
      BY <1>2, <3>1
  <2> QED
    BY <1>2, <2>1, <2>2
<1>3. \A k \in 0 .. m : k \in S
  <2> HIDE DEF S
  <2> QED
    BY <1>1, <1>2, CountingUp
<1> QED
  BY <1>3

(* The fold of a sequence is in its table. *)
LEMMA FoldedInTable ==
  ASSUME NEW w, NEW n \in Nat, NEW s, DOMAIN s = 1 .. n
  PROVE  \E v : Table(w, s, n, v) /\ Folded(w, s) = v[1 .. n]
<1> DEFINE it == CHOOSE v : Table(w, s, n, v)
<1>1. Table(w, s, n, it)
  BY TableExists
<1>2. Folded(w, s) = it[1 .. n]
  BY DEF Folded, Table
<1> QED
  BY <1>1, <1>2

(* Over nothing a fold is its start: a loop over an empty list changes nothing. *)
THEOREM FoldedNothing ==
  ASSUME NEW w, NEW s, DOMAIN s = {}
  PROVE  Folded(w, s) = Start(w)
<1>1. DOMAIN s = 1 .. 0
  OBVIOUS
<1>2. PICK v : Table(w, s, 0, v) /\ Folded(w, s) = v[1 .. 0]
  BY <1>1, FoldedInTable
<1>3. v[{}] = Start(w)
  BY <1>2 DEF Table
<1> QED
  BY <1>2, <1>3

(* One element more is one step more: a loop over a list takes its elements in
   turn. *)
THEOREM FoldedOneMore ==
  ASSUME NEW w, NEW n \in Nat, NEW s, DOMAIN s = 1 .. n, NEW r, DOMAIN r = 1 .. (n + 1),
         \A i \in 1 .. n : r[i] = s[i]
  PROVE  Folded(w, r) = Step(w, Folded(w, s), r[n + 1])
<1>1. PICK v : Table(w, s, n, v) /\ Folded(w, s) = v[1 .. n]
  BY FoldedInTable
<1>2. PICK u : Table(w, r, n + 1, u) /\ Folded(w, r) = u[1 .. (n + 1)]
  BY FoldedInTable
<1>3. u[1 .. n] = v[1 .. n]
  <2>1. n + 1 \in Nat /\ n <= n + 1 /\ 1 .. n \in SUBSET (1 .. n)
    OBVIOUS
  <2>2. \A i \in 1 .. n : s[i] = r[i]
    OBVIOUS
  <2>3. \A t \in SUBSET (1 .. n) : v[t] = u[t]
    BY <1>1, <1>2, <2>1, <2>2, TablesAgree, Z3
  <2> QED
    BY <2>1, <2>3
<1>4. Highest(1 .. (n + 1)) = n + 1
  <2>1. n + 1 \in Nat /\ 1 .. (n + 1) \in SUBSET (1 .. (n + 1)) /\ n + 1 \in 1 .. (n + 1)
    OBVIOUS
  <2> QED
    BY <2>1, HighestIsLast
<1>5. (1 .. (n + 1)) \ {n + 1} = 1 .. n /\ 1 .. (n + 1) # {}
  <2>1. \A k : k \in (1 .. (n + 1)) \ {n + 1} <=> k \in 1 .. n
    OBVIOUS
  <2>2. n + 1 \in 1 .. (n + 1)
    OBVIOUS
  <2> QED
    BY <2>1, <2>2, Zenon
<1>6. u[1 .. (n + 1)] = Step(w, u[1 .. n], r[n + 1])
  <2>1. 1 .. (n + 1) \in SUBSET (1 .. (n + 1))
    OBVIOUS
  <2> QED
    BY <1>2, <1>4, <1>5, <2>1 DEF Table
<1> QED
  BY <1>1, <1>2, <1>3, <1>6

(* The fold over the beginnings of a sequence, step by step: what a loop (of
   mergeDocuments, buildContextPack, walkRepository) has computed so far. *)
THEOREM FoldedBeginnings ==
  ASSUME NEW w, NEW S, NEW s \in Seq(S)
  PROVE  /\ Folded(w, SubSeq(s, 1, 0)) = Start(w)
         /\ \A k \in 0 .. (Len(s) - 1) :
              Folded(w, SubSeq(s, 1, k + 1)) = Step(w, Folded(w, SubSeq(s, 1, k)), s[k + 1])
         /\ SubSeq(s, 1, Len(s)) = s
<1>1. ASSUME NEW k \in 0 .. Len(s)
      PROVE  DOMAIN SubSeq(s, 1, k) = 1 .. k /\ \A i \in 1 .. k : SubSeq(s, 1, k)[i] = s[i]
  OBVIOUS
<1>2. Folded(w, SubSeq(s, 1, 0)) = Start(w)
  <2>1. DOMAIN SubSeq(s, 1, 0) = {}
    BY <1>1
  <2> QED
    BY <2>1, FoldedNothing
<1>3. ASSUME NEW k \in 0 .. (Len(s) - 1)
      PROVE  Folded(w, SubSeq(s, 1, k + 1)) = Step(w, Folded(w, SubSeq(s, 1, k)), s[k + 1])
  <2> DEFINE a == SubSeq(s, 1, k)
             b == SubSeq(s, 1, k + 1)
  <2>1. DOMAIN a = 1 .. k /\ \A i \in 1 .. k : a[i] = s[i]
    BY <1>1
  <2>2. DOMAIN b = 1 .. (k + 1) /\ \A i \in 1 .. (k + 1) : b[i] = s[i]
    BY <1>1
  <2> HIDE DEF a, b
  <2>3. Folded(w, b) = Step(w, Folded(w, a), b[k + 1])
    BY <2>1, <2>2, FoldedOneMore
  <2> QED
    BY <2>2, <2>3 DEF a, b
<1>4. SubSeq(s, 1, Len(s)) = s
  OBVIOUS
<1> QED
  BY <1>2, <1>3, <1>4

=============================================================================
