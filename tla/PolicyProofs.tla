---------------------------- MODULE PolicyProofs ----------------------------
(***************************************************************************)
(* Theorems about PolicyLayers, RulePacks and TaskDoctor, and about the    *)
(* walk along `extends` that they are built on (ExtendsWalk), for any      *)
(* number of files, documents, layers, packs and tasks.                    *)
(*                                                                         *)
(* The walk.  What is reached from the entries is the least set that has   *)
(* them and is closed under extends.  The walk is a fold of WalkStep over  *)
(* as many steps as WalkLength gives it, so what holds at the start and    *)
(* survives a step holds of its result; it holds all along that            *)
(*   - no file is loaded twice (WalkDistinct),                             *)
(*   - the stack is a path along extends, and each file that was left is   *)
(*     loaded or blamed (WalkTrail),                                       *)
(*   - a loaded file stands behind all it extends (WalkOrder),             *)
(*   - each problem is of a reached file and true of it (WalkBlames).      *)
(* Every step but the last uses up a pair of a file and a number of its    *)
(* extends still to do, which is why WalkLength steps are enough.          *)
(*                                                                         *)
(* The layers.  Merging the documents of a chain is a fold as well:        *)
(* locked rules, confining scopes and the strictest tier survive each      *)
(* layer.  FoldFacts has the induction that all these folds use.           *)
(*                                                                         *)
(* The tasks.  The walk that finds no circle lists each task behind all it *)
(* needs, which is an order to complete them in; the tasks from which a    *)
(* circle is reached need each other, so none of them is ever completed.   *)
(***************************************************************************)
EXTENDS PolicyLayers, RulePacks, TaskDoctor, FiniteSetTheorems, FunctionTheorems, SequenceTheorems, TLAPS

-----------------------------------------------------------------------------
(* What is reached along the extends: the closure of the start. *)

ReachStart(w) == w[2]
ReachStep(w, reached, n) ==
  reached \cup UNION {ToSet(w[1].extends[f]) : f \in reached \cap DOMAIN w[1].extends}

Reach == INSTANCE FoldFacts WITH Step <- ReachStep, Start <- ReachStart

(* A set is closed when it has all that its files extend. *)
Closed(g, S) == \A f \in S \cap DOMAIN g.extends : ToSet(g.extends[f]) \subseteq S

LEMMA ReachedByCounting ==
  ASSUME NEW g, NEW start, IsFiniteSet(DOMAIN g.extends)
  PROVE  LET N == Cardinality(DOMAIN g.extends)
             c == Reach!Counted(<<g, start>>, 0 .. N)
         IN  /\ N \in Nat
             /\ ReachedFrom(g, start) = c[N]
             /\ c[0] = start
             /\ \A k \in 0 .. (N - 1) : c[k + 1] = ReachStep(<<g, start>>, c[k], k + 1)
<1> DEFINE N == Cardinality(DOMAIN g.extends)
           w == <<g, start>>
           c == Reach!Counted(w, 0 .. N)
<1>1. N \in Nat
  BY FS_CardinalityType
<1>2. ReachedFrom(g, start) = c[N]
  BY DEF ReachedFrom, Reach!Counted, ReachStart, ReachStep
<1>3. /\ c[0] = ReachStart(w)
      /\ \A k \in 0 .. (N - 1) : c[k + 1] = ReachStep(w, c[k], k + 1)
  <2> HIDE DEF N, w
  <2> QED
    BY <1>1, Reach!CountedUpTo
<1>4. ReachStart(w) = start
  BY DEF ReachStart
<1> HIDE DEF c, N
<1> QED
  BY <1>1, <1>2, <1>3, <1>4 DEF c, N

LEMMA ReachStepIs ==
  ASSUME NEW g, NEW start, NEW S, NEW n
  PROVE  ReachStep(<<g, start>>, S, n) = S \cup UNION {ToSet(g.extends[f]) : f \in S \cap DOMAIN g.extends}
BY DEF ReachStep

(* What is listed is reached (the entries of loadChain, of loadPackChain). *)
THEOREM ReachedHasStart ==
  ASSUME NEW g, NEW start, IsFiniteSet(DOMAIN g.extends)
  PROVE  start \subseteq ReachedFrom(g, start)
<1> DEFINE N == Cardinality(DOMAIN g.extends)
           c == Reach!Counted(<<g, start>>, 0 .. N)
           S == {k \in 0 .. N : start \subseteq c[k]}
<1>1. /\ N \in Nat /\ ReachedFrom(g, start) = c[N] /\ c[0] = start
      /\ \A k \in 0 .. (N - 1) : c[k + 1] = ReachStep(<<g, start>>, c[k], k + 1)
  BY ReachedByCounting
<1> HIDE DEF N, c
<1>2. 0 \in S
  BY <1>1
<1>3. ASSUME NEW k \in Nat, k < N, k \in S PROVE k + 1 \in S
  <2>1. c[k + 1] = ReachStep(<<g, start>>, c[k], k + 1)
    BY <1>1, <1>3
  <2>2. c[k] \subseteq ReachStep(<<g, start>>, c[k], k + 1)
    BY ReachStepIs
  <2> QED
    BY <1>1, <1>3, <2>1, <2>2
<1>4. \A k \in 0 .. N : k \in S
  <2> HIDE DEF S
  <2> QED
    BY <1>1, <1>2, <1>3, Reach!CountingUp
<1> QED
  BY <1>1, <1>4

(* Nothing is reached but what some chain of extends leads to: any set that has
   the start and all its files extend has what is reached. *)
THEOREM ReachedIsLeast ==
  ASSUME NEW g, NEW start, IsFiniteSet(DOMAIN g.extends), NEW T, start \subseteq T, Closed(g, T)
  PROVE  ReachedFrom(g, start) \subseteq T
<1> DEFINE N == Cardinality(DOMAIN g.extends)
           c == Reach!Counted(<<g, start>>, 0 .. N)
           S == {k \in 0 .. N : c[k] \subseteq T}
<1>1. /\ N \in Nat /\ ReachedFrom(g, start) = c[N] /\ c[0] = start
      /\ \A k \in 0 .. (N - 1) : c[k + 1] = ReachStep(<<g, start>>, c[k], k + 1)
  BY ReachedByCounting
<1> HIDE DEF N, c
<1>2. 0 \in S
  BY <1>1
<1>3. ASSUME NEW k \in Nat, k < N, k \in S PROVE k + 1 \in S
  <2>1. c[k + 1] = ReachStep(<<g, start>>, c[k], k + 1)
    BY <1>1, <1>3
  <2>2. ReachStep(<<g, start>>, c[k], k + 1) \subseteq T
    BY <1>3, ReachStepIs DEF Closed
  <2> QED
    BY <1>1, <1>3, <2>1, <2>2
<1>4. \A k \in 0 .. N : k \in S
  <2> HIDE DEF S
  <2> QED
    BY <1>1, <1>2, <1>3, Reach!CountingUp
<1> QED
  BY <1>1, <1>4

(* Whatever a reached file extends is reached: as many rounds as there are files
   are enough. *)
THEOREM ReachedIsClosed ==
  ASSUME NEW g, NEW start, IsFiniteSet(DOMAIN g.extends)
  PROVE  Closed(g, ReachedFrom(g, start))
<1> DEFINE D == DOMAIN g.extends
           N == Cardinality(D)
           c == Reach!Counted(<<g, start>>, 0 .. N)
           S == {k \in 0 .. N : Closed(g, c[k]) \/ Cardinality(c[k] \cap D) >= k + 1}
<1>1. /\ N \in Nat /\ ReachedFrom(g, start) = c[N] /\ c[0] = start
      /\ \A k \in 0 .. (N - 1) : c[k + 1] = ReachStep(<<g, start>>, c[k], k + 1)
  BY ReachedByCounting
<1> HIDE DEF N, c
<1>2. \A X : /\ IsFiniteSet(X \cap D) /\ Cardinality(X \cap D) \in Nat
             /\ Cardinality(X \cap D) <= N
  <2> TAKE X
  <2>1. X \cap D \in SUBSET D
    OBVIOUS
  <2> HIDE DEF D
  <2> QED
    BY <2>1, FS_Subset, FS_CardinalityType DEF D, N
<1>3. 0 \in S
  <2>1. CASE c[0] \cap D = {}
    BY <1>1, <2>1 DEF Closed
  <2>2. CASE c[0] \cap D # {}
    <3>1. Cardinality(c[0] \cap D) # 0
      BY <1>2, <2>2, FS_EmptySet
    <3>2. Cardinality(c[0] \cap D) >= 0 + 1
      BY <1>2, <3>1
    <3> QED
      BY <1>1, <3>2
  <2> QED
    BY <2>1, <2>2
<1>4. ASSUME NEW k \in Nat, k < N, k \in S PROVE k + 1 \in S
  <2> DEFINE X == c[k]
             Y == c[k + 1]
  <2>1. Y = X \cup UNION {ToSet(g.extends[f]) : f \in X \cap D}
    BY <1>1, <1>4, ReachStepIs
  <2>2. k + 1 \in 0 .. N
    BY <1>1, <1>4
  <2> HIDE DEF X, Y
  <2>3. CASE Closed(g, X)
    <3>1. UNION {ToSet(g.extends[f]) : f \in X \cap D} \subseteq X
      BY <2>3 DEF Closed
    <3>2. Y = X
      BY <2>1, <3>1
    <3> QED
      BY <2>2, <2>3, <3>2 DEF X, Y
  <2>4. CASE ~Closed(g, X) /\ X \cap D = Y \cap D
    <3>1. \A f \in Y \cap D : ToSet(g.extends[f]) \subseteq Y
      BY <2>1, <2>4
    <3> QED
      BY <2>2, <3>1 DEF Closed, Y
  <2>5. CASE ~Closed(g, X) /\ X \cap D # Y \cap D
    <3>1. X \cap D \in SUBSET (Y \cap D)
      BY <2>1
    <3>2. Cardinality(X \cap D) <= Cardinality(Y \cap D) /\ Cardinality(X \cap D) # Cardinality(Y \cap D)
      BY <1>2, <2>5, <3>1, FS_Subset
    <3>3. Cardinality(X \cap D) >= k + 1
      BY <1>4, <2>5 DEF X
    <3>4. Cardinality(X \cap D) \in Nat /\ Cardinality(Y \cap D) \in Nat
      BY <1>2
    <3>5. Cardinality(Y \cap D) >= k + 1 + 1
      BY <3>2, <3>3, <3>4
    <3> QED
      BY <2>2, <3>5 DEF Y
  <2> QED
    BY <2>3, <2>4, <2>5
<1>5. \A k \in 0 .. N : k \in S
  <2> HIDE DEF S
  <2> QED
    BY <1>1, <1>3, <1>4, Reach!CountingUp
<1>6. Closed(g, c[N]) \/ Cardinality(c[N] \cap D) >= N + 1
  BY <1>1, <1>5
<1>7. ~(Cardinality(c[N] \cap D) >= N + 1)
  BY <1>1, <1>2
<1> QED
  BY <1>1, <1>6, <1>7

-----------------------------------------------------------------------------
(* The walk, step by step. *)

Problems(F) == {"cycle", "unreadable"} \X F
Frames(F) == [todo : Seq(F)] \cup [file : F, todo : Seq(F)]

(* Files, their extends and the entries, as the walk is given them. *)
WalkGraph(g, entries, F) ==
  /\ IsFiniteSet(DOMAIN g.extends) /\ DOMAIN g.extends \subseteq F
  /\ \A f \in DOMAIN g.extends : g.extends[f] \in Seq(F)
  /\ entries \in Seq(F)

(* What the frame in place i follows. *)
Refs(g, entries, walk, i) == IF i = 1 THEN entries ELSE g.extends[walk.stack[i].file]

WalkTypes(g, F, walk) ==
  /\ walk \in [stack : Seq(Frames(F)), loaded : Seq(DOMAIN g.extends), problems : SUBSET Problems(F)]
  /\ \A i \in 1 .. Len(walk.stack) : walk.stack[i].todo \in Seq(F)
  /\ \A i \in 2 .. Len(walk.stack) : walk.stack[i].file \in DOMAIN g.extends

(* The top frame has followed one reference more. *)
Follows(walk, r) ==
  LET n == Len(walk.stack)
  IN  /\ walk.stack[n].todo # <<>> /\ r.stack[n].todo = Tail(walk.stack[n].todo)
      /\ Len(r.stack) >= n
      /\ \A i \in 1 .. (n - 1) : r.stack[i] = walk.stack[i]
      /\ n > 1 => r.stack[n].file = walk.stack[n].file
      /\ r.loaded = walk.loaded

Skips(walk, r) ==
  /\ Follows(walk, r) /\ Len(r.stack) = Len(walk.stack) /\ r.problems = walk.problems
  /\ Head(Top(walk).todo) \in ToSet(walk.loaded)

Complains(g, walk, r) ==
  LET file == Head(Top(walk).todo) IN
  /\ Follows(walk, r) /\ Len(r.stack) = Len(walk.stack)
  /\ \/ /\ file \in OnStack(walk) /\ r.problems = walk.problems \cup {<<"cycle", file>>}
     \/ /\ file \notin DOMAIN g.extends /\ r.problems = walk.problems \cup {<<"unreadable", file>>}

Pushes(g, walk, r) ==
  LET n == Len(walk.stack)
      file == Head(Top(walk).todo)
  IN  /\ Follows(walk, r) /\ Len(r.stack) = n + 1 /\ r.problems = walk.problems
      /\ file \in DOMAIN g.extends /\ file \notin Seen(walk)
      /\ r.stack[n + 1] = Frame(file, g.extends[file])

Leaves(walk, r) ==
  LET n == Len(walk.stack) IN
  /\ walk.stack[n].todo = <<>> /\ r.problems = walk.problems
  /\ Len(r.stack) = n - 1 /\ \A i \in 1 .. (n - 1) : r.stack[i] = walk.stack[i]
  /\ r.loaded = IF n = 1 THEN walk.loaded ELSE Append(walk.loaded, walk.stack[n].file)

LEMMA FrontOf ==
  ASSUME NEW S, NEW s \in Seq(S), s # <<>>
  PROVE  /\ Front(s) \in Seq(S) /\ Len(Front(s)) = Len(s) - 1
         /\ \A i \in 1 .. (Len(s) - 1) : Front(s)[i] = s[i]
<1>1. Len(s) \in Nat /\ Len(s) >= 1
  OBVIOUS
<1> DEFINE m == Len(s) - 1
           r == SubSeq(s, 1, m)
<1>2. m \in Nat /\ m <= Len(s)
  BY <1>1
<1>3. r \in Seq(S) /\ Len(r) = m
  <2>1. \A i \in 1 .. m : s[i] \in S
    BY <1>2
  <2>2. m \in Nat
    BY <1>2
  <2> HIDE DEF m
  <2> QED
    BY <2>1, <2>2, SubSeqProperties
<1>4. \A i \in 1 .. m : r[i] = s[i]
  BY <1>2
<1>5. Front(s) = r
  BY DEF Front
<1> HIDE DEF r
<1> QED
  BY <1>3, <1>4, <1>5

LEMMA WalkSteps ==
  ASSUME NEW g, NEW F, NEW entries, WalkGraph(g, entries, F), NEW walk, WalkTypes(g, F, walk), ~WalkEnds(g, walk),
         ToSet(walk.loaded) \cap OnStack(walk) = {},
         NEW r, r = WalkStep(g, walk)
  PROVE  /\ Len(walk.stack) >= 1
         /\ WalkTypes(g, F, r)
         /\ Leaves(walk, r) \/ Skips(walk, r) \/ Complains(g, walk, r) \/ Pushes(g, walk, r)
<1> DEFINE n == Len(walk.stack)
           D == DOMAIN g.extends
           todo == walk.stack[n].todo
           Rec == [stack : Seq(Frames(F)), loaded : Seq(D), problems : SUBSET Problems(F)]
<1>1. n \in Nat /\ n >= 1 /\ Top(walk) = walk.stack[n] /\ todo \in Seq(F)
  <2>1. walk.stack \in Seq(Frames(F)) /\ walk.stack # <<>>
    BY DEF WalkTypes, WalkEnds
  <2>2. n \in Nat /\ n >= 1
    BY <2>1
  <2> QED
    BY <2>2 DEF WalkTypes, Top
<1>2. CASE todo = <<>>
  <2> DEFINE s == Front(walk.stack)
             l == IF n = 1 THEN walk.loaded ELSE Append(walk.loaded, walk.stack[n].file)
  <2>1. s \in Seq(Frames(F)) /\ Len(s) = n - 1 /\ \A i \in 1 .. (n - 1) : s[i] = walk.stack[i]
    <3>1. walk.stack \in Seq(Frames(F)) /\ walk.stack # <<>>
      BY DEF WalkTypes, WalkEnds
    <3> HIDE DEF Rec
    <3> QED
      BY <3>1, FrontOf
  <2>2. n > 1 => walk.stack[n].file \in D
    BY <1>1 DEF WalkTypes
  <2>3. l \in Seq(D)
    <3>1. walk.loaded \in Seq(D)
      BY DEF WalkTypes
    <3>2. CASE n = 1
      BY <3>1, <3>2
    <3>3. CASE n # 1
      <4>1. l = Append(walk.loaded, walk.stack[n].file)
        BY <3>3
      <4>2. walk.stack[n].file \in D
        <5> HIDE DEF n, l
        <5>1. n > 1
          BY <1>1, <3>3
        <5> QED
          BY <2>2, <5>1
      <4> HIDE DEF l, D
      <4> QED
        BY <3>1, <4>1, <4>2
    <3> QED
      BY <3>2, <3>3
  <2>4. r = [walk EXCEPT !.stack = s, !.loaded = l]
    BY <1>1, <1>2 DEF WalkStep, Leave
  <2> HIDE DEF s, l
  <2>5. r \in Rec /\ r.stack = s /\ r.loaded = l /\ r.problems = walk.problems
    BY <2>1, <2>3, <2>4 DEF WalkTypes
  <2>6. WalkTypes(g, F, r)
    <3>1. \A i \in 1 .. (n - 1) : i \in 1 .. n /\ s[i] = walk.stack[i] /\ (i \in 2 .. (n - 1) => i \in 2 .. n)
      BY <1>1, <2>1
    <3>2. \A i \in 1 .. Len(s) : s[i].todo \in Seq(F)
      BY <2>1, <3>1 DEF WalkTypes
    <3>3. \A i \in 2 .. Len(s) : s[i].file \in D
      <4>1. \A i \in 2 .. (n - 1) : i \in 1 .. (n - 1)
        BY <1>1
      <4> QED
        BY <2>1, <3>1, <4>1 DEF WalkTypes
    <3> QED
      BY <2>5, <3>2, <3>3 DEF WalkTypes
  <2>7. Leaves(walk, r)
    BY <1>1, <1>2, <2>1, <2>5 DEF Leaves, l
  <2> QED
    BY <1>1, <2>6, <2>7
<1>3. CASE todo # <<>>
  <2> DEFINE file == Head(todo)
             u == [walk EXCEPT !.stack[n].todo = Tail(@)]
  <2>1. file \in F /\ Tail(todo) \in Seq(F)
    BY <1>1, <1>3
  <2>2. /\ u \in Rec /\ u.loaded = walk.loaded /\ u.problems = walk.problems
        /\ Len(u.stack) = n /\ \A i \in 1 .. (n - 1) : u.stack[i] = walk.stack[i]
        /\ u.stack[n].todo = Tail(todo) /\ (n > 1 => u.stack[n].file = walk.stack[n].file)
    <3> DEFINE t == [walk.stack[n] EXCEPT !.todo = Tail(@)]
               s == [walk.stack EXCEPT ![n] = t]
    <3>1. walk.stack \in Seq(Frames(F)) /\ walk.stack[n] \in Frames(F)
      BY <1>1 DEF WalkTypes
    <3>2. t \in Frames(F) /\ t.todo = Tail(todo) /\ (n > 1 => t.file = walk.stack[n].file)
      <4> DEFINE f == walk.stack[n]
      <4>1. f \in [todo : Seq(F)] \/ f \in [file : F, todo : Seq(F)]
        BY <3>1 DEF Frames
      <4> HIDE DEF f
      <4>2. [f EXCEPT !.todo = Tail(f.todo)].todo = Tail(f.todo)
        BY <4>1
      <4>3. [f EXCEPT !.todo = Tail(f.todo)].file = f.file
        <5>1. CASE f \in [file : F, todo : Seq(F)]
          BY <5>1
        <5>2. CASE f \in [todo : Seq(F)]
          BY <5>2
        <5> QED
          BY <4>1, <5>1, <5>2
      <4>4. Tail(f.todo) \in Seq(F) => [f EXCEPT !.todo = Tail(f.todo)] \in Frames(F)
        BY <4>1 DEF Frames
      <4> QED
        BY <2>1, <4>2, <4>3, <4>4 DEF f
    <3>3. u = [walk EXCEPT !.stack = s]
      BY DEF WalkTypes
    <3> HIDE DEF t
    <3>4. s \in Seq(Frames(F)) /\ Len(s) = n /\ s[n] = t /\ \A i \in 1 .. (n - 1) : s[i] = walk.stack[i]
      BY <1>1, <3>1, <3>2
    <3> HIDE DEF s, u
    <3>5. u \in Rec /\ u.stack = s /\ u.loaded = walk.loaded /\ u.problems = walk.problems
      BY <3>3, <3>4 DEF WalkTypes
    <3> QED
      BY <3>2, <3>4, <3>5
  <2>3. r = Enter(g, u, file)
    BY <1>1, <1>3 DEF WalkStep
  <2> HIDE DEF u
  <2>4. OnStack(u) = OnStack(walk) /\ ToSet(u.loaded) = ToSet(walk.loaded) /\ Seen(u) = Seen(walk)
    <3>1. \A i \in 2 .. n : u.stack[i].file = walk.stack[i].file
      <4>1. \A i \in 2 .. n : i \in 1 .. (n - 1) \/ (i = n /\ n > 1)
        BY <1>1
      <4> QED
        BY <2>2, <4>1
    <3>2. OnStack(u) = OnStack(walk)
      BY <2>2, <3>1 DEF OnStack
    <3> QED
      BY <2>2, <3>2 DEF Seen
  <2>5. \A i \in 1 .. n : u.stack[i].todo \in Seq(F)
    <3>1. \A i \in 1 .. n : i \in 1 .. (n - 1) \/ i = n
      BY <1>1
    <3> QED
      BY <2>1, <2>2, <3>1 DEF WalkTypes
  <2>6. \A i \in 2 .. n : u.stack[i].file \in D
    BY <1>1, <2>2 DEF WalkTypes
  <2>7. CASE file \in ToSet(walk.loaded)
    <3>1. r = u
      BY <2>3, <2>4, <2>7 DEF Enter, Seen
    <3>2. WalkTypes(g, F, r)
      BY <2>2, <2>5, <2>6, <3>1 DEF WalkTypes
    <3>3. Skips(walk, r)
      BY <1>1, <1>3, <2>2, <2>7, <3>1 DEF Skips, Follows
    <3> QED
      BY <1>1, <3>2, <3>3
  <2>8. CASE file \in OnStack(walk) /\ file \notin ToSet(walk.loaded)
    <3>1. r = [u EXCEPT !.problems = @ \cup {<<"cycle", file>>}]
      BY <2>3, <2>4, <2>8 DEF Enter, Seen
    <3>2. <<"cycle", file>> \in Problems(F)
      BY <2>1 DEF Problems
    <3>3. r \in Rec /\ r.stack = u.stack /\ r.loaded = u.loaded /\ r.problems = u.problems \cup {<<"cycle", file>>}
      BY <2>2, <3>1, <3>2
    <3>4. WalkTypes(g, F, r)
      BY <2>2, <2>5, <2>6, <3>3 DEF WalkTypes
    <3>5. Complains(g, walk, r)
      BY <1>1, <1>3, <2>2, <2>8, <3>3 DEF Complains, Follows
    <3> QED
      BY <1>1, <3>4, <3>5
  <2>9. CASE file \notin Seen(walk) /\ file \notin D
    <3>1. r = [u EXCEPT !.problems = @ \cup {<<"unreadable", file>>}]
      BY <2>3, <2>4, <2>9 DEF Enter, Seen
    <3>2. <<"unreadable", file>> \in Problems(F)
      BY <2>1 DEF Problems
    <3>3. r \in Rec /\ r.stack = u.stack /\ r.loaded = u.loaded /\ r.problems = u.problems \cup {<<"unreadable", file>>}
      BY <2>2, <3>1, <3>2
    <3>4. WalkTypes(g, F, r)
      BY <2>2, <2>5, <2>6, <3>3 DEF WalkTypes
    <3>5. Complains(g, walk, r)
      BY <1>1, <1>3, <2>2, <2>9, <3>3 DEF Complains, Follows
    <3> QED
      BY <1>1, <3>4, <3>5
  <2>10. CASE file \notin Seen(walk) /\ file \in D
    <3> DEFINE new == Frame(file, g.extends[file])
               s == Append(u.stack, new)
    <3>1. r = [u EXCEPT !.stack = s]
      BY <2>3, <2>4, <2>10 DEF Enter, Seen
    <3>2. new \in Frames(F) /\ new.todo \in Seq(F) /\ new.file = file
      BY <2>1, <2>10 DEF Frames, Frame, WalkGraph
    <3> HIDE DEF new
    <3>3. /\ s \in Seq(Frames(F)) /\ Len(s) = n + 1 /\ s[n + 1] = new
          /\ \A i \in 1 .. n : s[i] = u.stack[i]
      <4> DEFINE v == u.stack
      <4>1. v \in Seq(Frames(F)) /\ Len(v) = n
        BY <2>2
      <4> HIDE DEF v
      <4>2. Append(v, new) \in Seq(Frames(F)) /\ Len(Append(v, new)) = n + 1
        BY <3>2, <4>1
      <4>3. Append(v, new)[n + 1] = new /\ \A i \in 1 .. n : Append(v, new)[i] = v[i]
        BY <1>1, <4>1
      <4> QED
        BY <4>2, <4>3 DEF v
    <3> HIDE DEF s
    <3>4. r \in Rec /\ r.stack = s /\ r.loaded = u.loaded /\ r.problems = u.problems
      BY <2>2, <3>1, <3>3
    <3>5. \A i \in 1 .. (n + 1) : i \in 1 .. n \/ i = n + 1
      BY <1>1
    <3>6. \A i \in 1 .. (n + 1) : s[i].todo \in Seq(F)
      BY <2>5, <3>2, <3>3, <3>5
    <3>7. \A i \in 2 .. (n + 1) : s[i].file \in D
      BY <1>1, <2>6, <2>10, <3>2, <3>3
    <3>8. WalkTypes(g, F, r)
      BY <3>3, <3>4, <3>6, <3>7 DEF WalkTypes
    <3>9. Pushes(g, walk, r)
      <4>1. Follows(walk, r)
        BY <1>1, <1>3, <2>2, <3>3, <3>4 DEF Follows
      <4> QED
        BY <1>1, <2>2, <2>10, <3>3, <3>4, <4>1 DEF Pushes, new
    <3> QED
      BY <1>1, <3>8, <3>9
  <2> QED
    BY <2>7, <2>8, <2>9, <2>10 DEF Seen
<1> QED
  BY <1>2, <1>3

-----------------------------------------------------------------------------
(* What holds all along the walk. *)

LEMMA HeadAndTail ==
  ASSUME NEW S, NEW s \in Seq(S), s # <<>>
  PROVE  ToSet(s) = {Head(s)} \cup ToSet(Tail(s)) /\ Len(Tail(s)) = Len(s) - 1 /\ Tail(s) \in Seq(S)
<1>1. Len(s) \in Nat /\ Len(s) >= 1 /\ Tail(s) \in Seq(S) /\ Len(Tail(s)) = Len(s) - 1 /\ Head(s) = s[1]
  OBVIOUS
<1>2. \A i \in 1 .. (Len(s) - 1) : Tail(s)[i] = s[i + 1]
  OBVIOUS
<1>3. ASSUME NEW i \in DOMAIN s PROVE s[i] = Head(s) \/ s[i] \in ToSet(Tail(s))
  <2>1. CASE i = 1
    BY <1>1, <2>1
  <2>2. CASE i # 1
    <3>1. i - 1 \in 1 .. (Len(s) - 1) /\ i = (i - 1) + 1
      BY <1>1, <2>2
    <3>2. s[i] = Tail(s)[i - 1] /\ i - 1 \in DOMAIN Tail(s)
      BY <1>1, <1>2, <3>1
    <3> QED
      BY <3>2 DEF ToSet
  <2> QED
    BY <2>1, <2>2
<1>4. ASSUME NEW i \in DOMAIN Tail(s) PROVE Tail(s)[i] \in ToSet(s)
  <2>1. i \in 1 .. (Len(s) - 1) /\ i + 1 \in DOMAIN s
    BY <1>1
  <2> QED
    BY <1>2, <2>1 DEF ToSet
<1>5. Head(s) \in ToSet(s)
  BY <1>1 DEF ToSet
<1>6. ToSet(s) = {Head(s)} \cup ToSet(Tail(s))
  BY <1>3, <1>4, <1>5 DEF ToSet
<1> QED
  BY <1>1, <1>6

LEMMA AppendedSet ==
  ASSUME NEW S, NEW s \in Seq(S), NEW x \in S
  PROVE  ToSet(Append(s, x)) = ToSet(s) \cup {x}
<1>1. /\ Len(s) \in Nat /\ DOMAIN Append(s, x) = 1 .. (Len(s) + 1) /\ DOMAIN s = 1 .. Len(s)
      /\ Append(s, x)[Len(s) + 1] = x /\ \A i \in 1 .. Len(s) : Append(s, x)[i] = s[i]
  OBVIOUS
<1>2. \A i : i \in 1 .. (Len(s) + 1) <=> i \in 1 .. Len(s) \/ i = Len(s) + 1
  BY <1>1
<1> DEFINE a == Append(s, x)
<1> HIDE DEF a
<1>3. ToSet(a) = {a[i] : i \in 1 .. (Len(s) + 1)} /\ ToSet(s) = {s[i] : i \in 1 .. Len(s)}
  BY <1>1 DEF ToSet, a
<1>4. \A y : y \in ToSet(a) <=> y \in ToSet(s) \cup {x}
  BY <1>1, <1>2, <1>3 DEF a
<1> QED
  BY <1>4 DEF a

WalkDistinct(walk) ==
  /\ \A i, j \in 2 .. Len(walk.stack) : walk.stack[i].file = walk.stack[j].file => i = j
  /\ \A i, j \in 1 .. Len(walk.loaded) : walk.loaded[i] = walk.loaded[j] => i = j
  /\ ToSet(walk.loaded) \cap OnStack(walk) = {}

WalkTrail(g, entries, walk) ==
  LET n == Len(walk.stack) IN
  /\ \A i \in 1 .. n : /\ ToSet(walk.stack[i].todo) \subseteq ToSet(Refs(g, entries, walk, i))
                       /\ Len(walk.stack[i].todo) <= Len(Refs(g, entries, walk, i))
  /\ \A k, i \in 2 .. n : k < i =>
       walk.stack[i].file \in ReachedFrom(g, ToSet(g.extends[walk.stack[k].file]))
  /\ Seen(walk) \subseteq ReachedFrom(g, ToSet(entries))

WalkOrder(g, entries, walk) ==
  LET n == Len(walk.stack) IN
  walk.problems = {} =>
    /\ \A i \in 1 .. n : \A x \in ToSet(Refs(g, entries, walk, i)) :
         \/ x \in ToSet(walk.stack[i].todo) \/ x \in ToSet(walk.loaded)
         \/ i < n /\ x = walk.stack[i + 1].file
    /\ n = 0 => ToSet(entries) \subseteq ToSet(walk.loaded)
    /\ \A i \in 1 .. Len(walk.loaded) : \A x \in ToSet(g.extends[walk.loaded[i]]) :
         \E j \in 1 .. (i - 1) : walk.loaded[j] = x

WalkBlames(g, entries, walk) ==
  \A p \in walk.problems : /\ p[2] \in ReachedFrom(g, ToSet(entries))
                           /\ p[2] \notin DOMAIN g.extends \/ OnCycle(g, p[2])

(* What is not changed when the top frame follows a reference, and what is. *)
Followed(g, entries, walk, r) ==
  LET n == Len(walk.stack) IN
  /\ n \in Nat
  /\ \A i \in 2 .. n : r.stack[i].file = walk.stack[i].file
  /\ \A i \in 1 .. n : Refs(g, entries, r, i) = Refs(g, entries, walk, i)
  /\ \A i \in 1 .. (n - 1) : r.stack[i].todo = walk.stack[i].todo
  /\ ToSet(walk.stack[n].todo) = {Head(Top(walk).todo)} \cup ToSet(r.stack[n].todo)
  /\ Len(r.stack[n].todo) = Len(walk.stack[n].todo) - 1
  /\ Len(walk.stack[n].todo) \in Nat

LEMMA FollowsSo ==
  ASSUME NEW g, NEW F, NEW entries, WalkGraph(g, entries, F), NEW walk, WalkTypes(g, F, walk), Len(walk.stack) >= 1,
         NEW r, WalkTypes(g, F, r), Follows(walk, r)
  PROVE  Followed(g, entries, walk, r)
<1> DEFINE n == Len(walk.stack)
<1>1. n \in Nat
  BY DEF WalkTypes
<1>2. \A i \in 1 .. n : i \in 1 .. (n - 1) \/ i = n
  BY <1>1
<1>3. \A i \in 2 .. n : i \in 1 .. (n - 1) \/ (i = n /\ n > 1)
  BY <1>1
<1>4. \A i \in 2 .. n : r.stack[i].file = walk.stack[i].file
  BY <1>3 DEF Follows
<1>5. ASSUME NEW i \in 1 .. n PROVE Refs(g, entries, r, i) = Refs(g, entries, walk, i)
  <2>1. i = 1 \/ i \in 2 .. n
    BY <1>1
  <2> QED
    BY <1>4, <2>1 DEF Refs
<1>6. walk.stack[n].todo \in Seq(F) /\ walk.stack[n].todo # <<>>
  BY <1>1 DEF WalkTypes, Follows
<1>7. Len(walk.stack[n].todo) \in Nat
  BY <1>6
<1>8. /\ ToSet(walk.stack[n].todo) = {Head(Top(walk).todo)} \cup ToSet(r.stack[n].todo)
      /\ Len(r.stack[n].todo) = Len(walk.stack[n].todo) - 1
  BY <1>6, HeadAndTail DEF Follows, Top
<1>9. \A i \in 1 .. (n - 1) : r.stack[i].todo = walk.stack[i].todo
  BY DEF Follows
<1> HIDE DEF n
<1> QED
  BY <1>1, <1>4, <1>5, <1>7, <1>8, <1>9 DEF n, Followed

(* The files on the stack, numbered. *)
LEMMA StackOf ==
  ASSUME NEW walk
  PROVE  OnStack(walk) = {walk.stack[i].file : i \in 2 .. Len(walk.stack)}
BY DEF OnStack

LEMMA StackAfter ==
  ASSUME NEW g, NEW F, NEW entries, WalkGraph(g, entries, F), NEW walk, WalkTypes(g, F, walk), Len(walk.stack) >= 1,
         NEW r, WalkTypes(g, F, r)
  PROVE  /\ Skips(walk, r) \/ Complains(g, walk, r) =>
              OnStack(r) = OnStack(walk) /\ ToSet(r.loaded) = ToSet(walk.loaded)
         /\ Pushes(g, walk, r) =>
              /\ OnStack(r) = OnStack(walk) \cup {Head(Top(walk).todo)}
              /\ ToSet(r.loaded) = ToSet(walk.loaded)
         /\ Leaves(walk, r) /\ Len(walk.stack) = 1 =>
              OnStack(r) = {} /\ OnStack(walk) = {} /\ r.loaded = walk.loaded
         /\ Leaves(walk, r) /\ Len(walk.stack) > 1 =>
              /\ OnStack(walk) = OnStack(r) \cup {Top(walk).file}
              /\ ToSet(r.loaded) = ToSet(walk.loaded) \cup {Top(walk).file}
<1> DEFINE n == Len(walk.stack)
<1>1. n \in Nat
  BY DEF WalkTypes
<1>2. ASSUME Skips(walk, r) \/ Complains(g, walk, r)
      PROVE  OnStack(r) = OnStack(walk) /\ ToSet(r.loaded) = ToSet(walk.loaded)
  <2>1. Follows(walk, r) /\ Len(r.stack) = n
    BY <1>2 DEF Skips, Complains
  <2>2. \A i \in 2 .. n : r.stack[i].file = walk.stack[i].file
    <3>1. Followed(g, entries, walk, r)
      BY <2>1, FollowsSo
    <3> QED
      BY <3>1 DEF Followed
  <2>3. r.loaded = walk.loaded
    BY <2>1 DEF Follows
  <2>4. OnStack(r) = OnStack(walk)
    BY <2>1, <2>2 DEF OnStack
  <2> QED
    BY <2>3, <2>4
<1>3. ASSUME Pushes(g, walk, r)
      PROVE  /\ OnStack(r) = OnStack(walk) \cup {Head(Top(walk).todo)}
             /\ ToSet(r.loaded) = ToSet(walk.loaded)
  <2>1. Follows(walk, r) /\ Len(r.stack) = n + 1 /\ r.stack[n + 1].file = Head(Top(walk).todo)
    BY <1>3 DEF Pushes, Frame
  <2>2. \A i \in 2 .. n : r.stack[i].file = walk.stack[i].file
    <3>1. Followed(g, entries, walk, r)
      BY <2>1, FollowsSo
    <3> QED
      BY <3>1 DEF Followed
  <2>3. r.loaded = walk.loaded
    BY <2>1 DEF Follows
  <2>4. \A i : i \in 2 .. (n + 1) <=> i \in 2 .. n \/ i = n + 1
    BY <1>1
  <2>5. OnStack(r) = {r.stack[i].file : i \in 2 .. (n + 1)} /\ OnStack(walk) = {walk.stack[i].file : i \in 2 .. n}
    BY <2>1 DEF OnStack
  <2>6. \A x : x \in OnStack(r) <=> x \in OnStack(walk) \cup {Head(Top(walk).todo)}
    BY <2>1, <2>2, <2>4, <2>5
  <2> QED
    BY <2>3, <2>6
<1>4. ASSUME Leaves(walk, r), n = 1
      PROVE  OnStack(r) = {} /\ OnStack(walk) = {} /\ r.loaded = walk.loaded
  <2>1. Len(r.stack) = 0
    BY <1>4 DEF Leaves
  <2>2. 2 .. 0 = {} /\ 2 .. 1 = {}
    OBVIOUS
  <2> QED
    BY <1>4, <2>1, <2>2 DEF Leaves, OnStack
<1>5. ASSUME Leaves(walk, r), n > 1
      PROVE  /\ OnStack(walk) = OnStack(r) \cup {Top(walk).file}
             /\ ToSet(r.loaded) = ToSet(walk.loaded) \cup {Top(walk).file}
  <2>1. Len(r.stack) = n - 1 /\ \A i \in 2 .. (n - 1) : r.stack[i].file = walk.stack[i].file
    <3>1. \A i \in 2 .. (n - 1) : i \in 1 .. (n - 1)
      BY <1>1
    <3> QED
      BY <1>5, <3>1 DEF Leaves
  <2>2. \A i : i \in 2 .. n <=> i \in 2 .. (n - 1) \/ i = n
    BY <1>1, <1>5
  <2>3. OnStack(r) = {r.stack[i].file : i \in 2 .. (n - 1)} /\ OnStack(walk) = {walk.stack[i].file : i \in 2 .. n}
    BY <2>1 DEF OnStack
  <2>4. \A x : x \in OnStack(walk) <=> x \in OnStack(r) \cup {Top(walk).file}
    BY <2>1, <2>2, <2>3 DEF Top
  <2>5. walk.loaded \in Seq(DOMAIN g.extends) /\ walk.stack[n].file \in DOMAIN g.extends
    BY <1>1, <1>5 DEF WalkTypes
  <2>6. r.loaded = Append(walk.loaded, walk.stack[n].file)
    BY <1>5 DEF Leaves
  <2>7. ToSet(r.loaded) = ToSet(walk.loaded) \cup {walk.stack[n].file}
    BY <2>5, <2>6, AppendedSet
  <2> QED
    BY <2>4, <2>7 DEF Top
<1> QED
  BY <1>2, <1>3, <1>4, <1>5

(* No file is entered or left twice. *)
LEMMA DistinctKept ==
  ASSUME NEW g, NEW F, NEW entries, WalkGraph(g, entries, F), NEW walk, WalkTypes(g, F, walk),
         WalkDistinct(walk), ~WalkEnds(g, walk), NEW r, r = WalkStep(g, walk)
  PROVE  WalkDistinct(r)
<1> DEFINE n == Len(walk.stack)
           m == Len(walk.loaded)
           file == Head(Top(walk).todo)
<1>1. n \in Nat /\ n >= 1 /\ m \in Nat /\ (n = 1 \/ n > 1)
  <2>1. n \in Nat /\ n >= 1 /\ m \in Nat
    BY WalkSteps DEF WalkTypes, WalkDistinct
  <2> HIDE DEF n
  <2> QED
    BY <2>1
<1>2. /\ WalkTypes(g, F, r)
      /\ Leaves(walk, r) \/ Skips(walk, r) \/ Complains(g, walk, r) \/ Pushes(g, walk, r)
  BY WalkSteps DEF WalkDistinct
<1>3. CASE Skips(walk, r) \/ Complains(g, walk, r)
  <2>1. Follows(walk, r) /\ Len(r.stack) = n /\ r.loaded = walk.loaded
    BY <1>3 DEF Skips, Complains, Follows
  <2>2. \A i \in 2 .. n : r.stack[i].file = walk.stack[i].file
    <3>1. Followed(g, entries, walk, r)
      BY <1>1, <1>2, <2>1, FollowsSo
    <3> QED
      BY <3>1 DEF Followed
  <2>3. OnStack(r) = OnStack(walk) /\ ToSet(r.loaded) = ToSet(walk.loaded)
    BY <1>1, <1>2, <1>3, StackAfter
  <2> QED
    BY <2>1, <2>2, <2>3 DEF WalkDistinct
<1>4. CASE Pushes(g, walk, r)
  <2>1. /\ Follows(walk, r) /\ Len(r.stack) = n + 1 /\ r.loaded = walk.loaded
        /\ r.stack[n + 1].file = file /\ file \notin OnStack(walk) /\ file \notin ToSet(walk.loaded)
    BY <1>4 DEF Pushes, Follows, Frame, Seen
  <2>2. \A i \in 2 .. n : r.stack[i].file = walk.stack[i].file
    <3>1. Followed(g, entries, walk, r)
      BY <1>1, <1>2, <2>1, FollowsSo
    <3> QED
      BY <3>1 DEF Followed
  <2>3. OnStack(r) = OnStack(walk) \cup {file} /\ ToSet(r.loaded) = ToSet(walk.loaded)
    BY <1>1, <1>2, <1>4, StackAfter
  <2>4. ToSet(r.loaded) \cap OnStack(r) = {}
    BY <2>1, <2>3 DEF WalkDistinct
  <2>5. \A i \in 2 .. (n + 1) : i \in 2 .. n \/ i = n + 1
    BY <1>1
  <2>6. \A i \in 2 .. n : r.stack[i].file # file
    BY <2>1, <2>2 DEF OnStack
  <2>7. \A i, j \in 2 .. (n + 1) : r.stack[i].file = r.stack[j].file => i = j
    BY <2>1, <2>2, <2>5, <2>6 DEF WalkDistinct
  <2> QED
    BY <2>1, <2>4, <2>7 DEF WalkDistinct
<1>5. CASE Leaves(walk, r) /\ n = 1
  <2>1. OnStack(r) = {} /\ r.loaded = walk.loaded /\ Len(r.stack) = 0
    <3>1. OnStack(r) = {} /\ r.loaded = walk.loaded
      BY <1>1, <1>2, <1>5, StackAfter
    <3> QED
      BY <1>5, <3>1 DEF Leaves
  <2> QED
    BY <2>1 DEF WalkDistinct
<1>6. CASE Leaves(walk, r) /\ n > 1
  <2> DEFINE top == walk.stack[n].file
  <2>1. /\ OnStack(walk) = OnStack(r) \cup {top}
        /\ ToSet(r.loaded) = ToSet(walk.loaded) \cup {top}
    BY <1>1, <1>2, <1>6, StackAfter DEF Top
  <2>2. /\ Len(r.stack) = n - 1 /\ \A i \in 2 .. (n - 1) : r.stack[i].file = walk.stack[i].file
        /\ r.loaded = Append(walk.loaded, top)
    BY <1>1, <1>6 DEF Leaves
  <2>3. \A i \in 2 .. (n - 1) : i \in 2 .. n /\ i # n /\ n \in 2 .. n
    BY <1>1
  <2>4. top \notin OnStack(r)
    BY <2>2, <2>3 DEF WalkDistinct, OnStack
  <2>5. ToSet(r.loaded) \cap OnStack(r) = {}
    BY <2>1, <2>4 DEF WalkDistinct
  <2>6. \A i, j \in 2 .. Len(r.stack) : r.stack[i].file = r.stack[j].file => i = j
    BY <2>2, <2>3 DEF WalkDistinct
  <2>7. top \notin ToSet(walk.loaded)
    BY <2>1 DEF WalkDistinct
  <2>8. walk.loaded \in Seq(DOMAIN g.extends) /\ top \in DOMAIN g.extends
    BY <1>1, <1>6 DEF WalkTypes
  <2>9. Len(r.loaded) = m + 1 /\ r.loaded[m + 1] = top /\ \A i \in 1 .. m : r.loaded[i] = walk.loaded[i]
    BY <2>2, <2>8
  <2>10. \A i \in 1 .. m : r.loaded[i] # top
    BY <2>7, <2>8, <2>9 DEF ToSet
  <2>11. \A i \in 1 .. (m + 1) : i \in 1 .. m \/ i = m + 1
    BY <1>1
  <2>12. \A i, j \in 1 .. Len(r.loaded) : r.loaded[i] = r.loaded[j] => i = j
    BY <2>9, <2>10, <2>11 DEF WalkDistinct
  <2> QED
    BY <2>5, <2>6, <2>12 DEF WalkDistinct
<1> QED
  BY <1>1, <1>2, <1>3, <1>4, <1>5, <1>6

(* What is still to follow belongs to its frame, a file on the stack is reached
   from those below it, and what was seen from the entries. *)
LEMMA TrailKept ==
  ASSUME NEW g, NEW F, NEW entries, WalkGraph(g, entries, F), NEW walk, WalkTypes(g, F, walk),
         WalkDistinct(walk), ~WalkEnds(g, walk), NEW r, r = WalkStep(g, walk),
         WalkTrail(g, entries, walk)
  PROVE  WalkTrail(g, entries, r)
<1> DEFINE n == Len(walk.stack)
           m == Len(walk.loaded)
           file == Head(Top(walk).todo)
<1>1. n \in Nat /\ n >= 1 /\ m \in Nat /\ (n = 1 \/ n > 1)
  <2>1. n \in Nat /\ n >= 1 /\ m \in Nat
    BY WalkSteps DEF WalkTypes, WalkDistinct
  <2> HIDE DEF n
  <2> QED
    BY <2>1
<1>2. /\ WalkTypes(g, F, r)
      /\ Leaves(walk, r) \/ Skips(walk, r) \/ Complains(g, walk, r) \/ Pushes(g, walk, r)
  BY WalkSteps DEF WalkDistinct
<1> DEFINE Reached == ReachedFrom(g, ToSet(entries))
           Past(f) == ReachedFrom(g, ToSet(g.extends[f]))
<1>3. IsFiniteSet(DOMAIN g.extends)
  BY DEF WalkGraph
<1>4. ToSet(entries) \subseteq Reached /\ Closed(g, Reached)
  BY <1>3, ReachedHasStart, ReachedIsClosed
<1>5. \A f : ToSet(g.extends[f]) \subseteq Past(f) /\ Closed(g, Past(f))
  BY <1>3, ReachedHasStart, ReachedIsClosed
<1> HIDE DEF Reached, Past
<1>6. \A i \in 2 .. n : walk.stack[i].file \in Reached /\ walk.stack[i].file \in DOMAIN g.extends
  BY DEF WalkTrail, Seen, OnStack, WalkTypes, Reached
<1>7. ASSUME NEW i \in 1 .. n PROVE ToSet(Refs(g, entries, walk, i)) \subseteq Reached
  <2>1. i = 1 \/ i \in 2 .. n
    BY <1>1
  <2> QED
    BY <1>4, <1>6, <2>1 DEF Refs, Closed
<1>8. n \in 1 .. n
  BY <1>1
<1>9. ASSUME Follows(walk, r), Len(r.stack) = n
      PROVE  /\ \A i \in 1 .. n : /\ ToSet(r.stack[i].todo) \subseteq ToSet(Refs(g, entries, r, i))
                                  /\ Len(r.stack[i].todo) <= Len(Refs(g, entries, r, i))
             /\ \A k, i \in 2 .. n : k < i => r.stack[i].file \in Past(r.stack[k].file)
  <2>1. /\ \A i \in 2 .. n : r.stack[i].file = walk.stack[i].file
        /\ \A i \in 1 .. n : Refs(g, entries, r, i) = Refs(g, entries, walk, i)
        /\ \A i \in 1 .. (n - 1) : r.stack[i].todo = walk.stack[i].todo
        /\ ToSet(walk.stack[n].todo) = {file} \cup ToSet(r.stack[n].todo)
        /\ Len(r.stack[n].todo) = Len(walk.stack[n].todo) - 1
        /\ Len(walk.stack[n].todo) \in Nat
    <3>1. Followed(g, entries, walk, r)
      BY <1>1, <1>2, <1>9, FollowsSo
    <3> QED
      BY <3>1 DEF Followed
  <2>2. \A k, i \in 2 .. n : k < i => r.stack[i].file \in Past(r.stack[k].file)
    BY <2>1 DEF WalkTrail, Past
  <2>3. Refs(g, entries, walk, n) \in Seq(F)
    <3>1. n > 1 => n \in 2 .. n
      BY <1>1
    <3> QED
      BY <1>1, <1>6, <3>1 DEF Refs, WalkGraph
  <2>4. /\ ToSet(r.stack[n].todo) \subseteq ToSet(Refs(g, entries, walk, n))
        /\ Len(r.stack[n].todo) <= Len(Refs(g, entries, walk, n))
    <3>1. Len(Refs(g, entries, walk, n)) \in Nat
      BY <2>3
    <3>2. Len(walk.stack[n].todo) <= Len(Refs(g, entries, walk, n))
      BY <1>8 DEF WalkTrail
    <3> QED
      BY <1>8, <2>1, <3>1, <3>2 DEF WalkTrail
  <2>5. \A i \in 1 .. n : i \in 1 .. (n - 1) \/ i = n
    BY <1>1
  <2>6. ASSUME NEW i \in 1 .. n
        PROVE  /\ ToSet(r.stack[i].todo) \subseteq ToSet(Refs(g, entries, r, i))
               /\ Len(r.stack[i].todo) <= Len(Refs(g, entries, r, i))
    BY <2>1, <2>4, <2>5 DEF WalkTrail
  <2> QED
    BY <2>2, <2>6
<1>10. CASE Skips(walk, r) \/ Complains(g, walk, r)
  <2>1. Follows(walk, r) /\ Len(r.stack) = n
    BY <1>10 DEF Skips, Complains
  <2>2. Seen(r) = Seen(walk)
    BY <1>1, <1>2, <1>10, StackAfter DEF Seen
  <2> QED
    BY <1>9, <2>1, <2>2 DEF WalkTrail, Past
<1>11. CASE Pushes(g, walk, r)
  <2>1. /\ Follows(walk, r) /\ Len(r.stack) = n + 1 /\ file \in DOMAIN g.extends
        /\ r.stack[n + 1].file = file /\ r.stack[n + 1].todo = g.extends[file]
    BY <1>11 DEF Pushes, Frame
  <2>2. /\ \A i \in 2 .. n : r.stack[i].file = walk.stack[i].file
        /\ \A i \in 1 .. n : Refs(g, entries, r, i) = Refs(g, entries, walk, i)
        /\ \A i \in 1 .. (n - 1) : r.stack[i].todo = walk.stack[i].todo
        /\ ToSet(walk.stack[n].todo) = {file} \cup ToSet(r.stack[n].todo)
        /\ Len(r.stack[n].todo) = Len(walk.stack[n].todo) - 1
        /\ Len(walk.stack[n].todo) \in Nat
    <3>1. Followed(g, entries, walk, r)
      BY <1>1, <1>2, <2>1, FollowsSo
    <3> QED
      BY <3>1 DEF Followed
  <2>3. file \in ToSet(Refs(g, entries, walk, n))
    BY <1>8, <2>2 DEF WalkTrail
  <2>4. file \in Reached
    BY <1>7, <1>8, <2>3
  <2>5. Seen(r) \subseteq Reached
    <3>1. Seen(r) = Seen(walk) \cup {file}
      BY <1>1, <1>2, <1>11, StackAfter DEF Seen
    <3> QED
      BY <2>4, <3>1 DEF WalkTrail, Reached
  <2>6. ASSUME NEW k \in 2 .. n PROVE file \in Past(walk.stack[k].file)
    <3>1. n > 1 /\ n \in 2 .. n /\ (k = n \/ k < n)
      BY <1>1
    <3>2. file \in ToSet(g.extends[walk.stack[n].file])
      BY <2>3, <3>1 DEF Refs
    <3>3. CASE k = n
      BY <1>5, <3>2, <3>3
    <3>4. CASE k < n
      <4>1. walk.stack[n].file \in Past(walk.stack[k].file)
        BY <3>1, <3>4 DEF WalkTrail, Past
      <4> QED
        BY <1>5, <1>6, <3>1, <3>2, <4>1 DEF Closed
    <3> QED
      BY <3>1, <3>3, <3>4
  <2>7. \A i \in 2 .. (n + 1) : i \in 2 .. n \/ i = n + 1
    BY <1>1
  <2>8. ASSUME NEW k \in 2 .. (n + 1), NEW i \in 2 .. (n + 1), k < i
        PROVE  r.stack[i].file \in Past(r.stack[k].file)
    <3>1. k \in 2 .. n
      BY <1>1, <2>8
    <3>2. CASE i \in 2 .. n
      <4>1. walk.stack[i].file \in Past(walk.stack[k].file)
        BY <2>8, <3>1, <3>2 DEF WalkTrail, Past
      <4> QED
        BY <2>2, <3>1, <3>2, <4>1
    <3>3. CASE i = n + 1
      BY <2>1, <2>2, <2>6, <3>1, <3>3
    <3> QED
      BY <2>7, <3>2, <3>3
  <2>9. Refs(g, entries, walk, n) \in Seq(F)
    <3>1. n > 1 => n \in 2 .. n
      BY <1>1
    <3> QED
      BY <1>1, <1>6, <3>1 DEF Refs, WalkGraph
  <2>10. ASSUME NEW i \in 1 .. (n + 1)
         PROVE  /\ ToSet(r.stack[i].todo) \subseteq ToSet(Refs(g, entries, r, i))
                /\ Len(r.stack[i].todo) <= Len(Refs(g, entries, r, i))
    <3>1. i \in 1 .. (n - 1) \/ i = n \/ i = n + 1
      BY <1>1
    <3>2. CASE i \in 1 .. (n - 1)
      <4>1. i \in 1 .. n
        BY <1>1, <3>2
      <4> QED
        BY <2>2, <3>2, <4>1 DEF WalkTrail
    <3>3. CASE i = n
      <4> DEFINE a == Len(walk.stack[n].todo)
                 b == Len(Refs(g, entries, walk, n))
                 c == Len(r.stack[n].todo)
      <4>1. a \in Nat /\ b \in Nat /\ c = a - 1
        BY <2>2, <2>9
      <4>2. a <= b /\ ToSet(walk.stack[n].todo) \subseteq ToSet(Refs(g, entries, walk, n))
        BY <1>8 DEF WalkTrail
      <4>3. Refs(g, entries, r, n) = Refs(g, entries, walk, n)
        BY <1>8, <2>2
      <4>4. ToSet(r.stack[n].todo) \subseteq ToSet(Refs(g, entries, r, n))
        BY <2>2, <4>2, <4>3
      <4>5. c <= b
        <5> HIDE DEF a, b, c
        <5> QED
          BY <4>1, <4>2
      <4> QED
        BY <3>3, <4>3, <4>4, <4>5
    <3>4. CASE i = n + 1
      <4>1. Refs(g, entries, r, i) = g.extends[file] /\ g.extends[file] \in Seq(F)
        BY <1>1, <2>1, <3>4 DEF Refs, WalkGraph
      <4> QED
        BY <2>1, <3>4, <4>1
    <3> QED
      BY <3>1, <3>2, <3>3, <3>4
  <2> QED
    BY <2>1, <2>5, <2>8, <2>10 DEF WalkTrail, Past, Reached
<1>12. CASE Leaves(walk, r)
  <2>1. Len(r.stack) = n - 1 /\ \A i \in 1 .. (n - 1) : r.stack[i] = walk.stack[i] /\ i \in 1 .. n
    BY <1>1, <1>12 DEF Leaves
  <2>2. \A i \in 2 .. (n - 1) : i \in 1 .. (n - 1) /\ i \in 2 .. n
    BY <1>1
  <2>3. Seen(r) \subseteq Seen(walk)
    <3>1. CASE n = 1
      BY <1>1, <1>2, <1>12, <3>1, StackAfter DEF Seen
    <3>2. CASE n > 1
      BY <1>1, <1>2, <1>12, <3>2, StackAfter DEF Seen
    <3> QED
      BY <1>1, <3>1, <3>2
  <2>4. \A i \in 1 .. (n - 1) : Refs(g, entries, r, i) = Refs(g, entries, walk, i)
    BY <2>1 DEF Refs
  <2>5. ASSUME NEW i \in 1 .. (n - 1)
        PROVE  /\ ToSet(r.stack[i].todo) \subseteq ToSet(Refs(g, entries, r, i))
               /\ Len(r.stack[i].todo) <= Len(Refs(g, entries, r, i))
    BY <2>1, <2>4 DEF WalkTrail
  <2>6. ASSUME NEW k \in 2 .. (n - 1), NEW i \in 2 .. (n - 1), k < i
        PROVE  r.stack[i].file \in ReachedFrom(g, ToSet(g.extends[r.stack[k].file]))
    BY <2>1, <2>2, <2>6 DEF WalkTrail
  <2> QED
    BY <2>1, <2>3, <2>5, <2>6 DEF WalkTrail
<1> QED
  BY <1>2, <1>10, <1>11, <1>12

(* A reference is still to follow, followed right now or loaded, and what is
   loaded comes behind all it extends. *)
LEMMA OrderKept ==
  ASSUME NEW g, NEW F, NEW entries, WalkGraph(g, entries, F), NEW walk, WalkTypes(g, F, walk),
         WalkDistinct(walk), ~WalkEnds(g, walk), NEW r, r = WalkStep(g, walk),
         WalkOrder(g, entries, walk)
  PROVE  WalkOrder(g, entries, r)
<1> DEFINE n == Len(walk.stack)
           m == Len(walk.loaded)
           file == Head(Top(walk).todo)
<1>1. n \in Nat /\ n >= 1 /\ m \in Nat /\ (n = 1 \/ n > 1)
  <2>1. n \in Nat /\ n >= 1 /\ m \in Nat
    BY WalkSteps DEF WalkTypes, WalkDistinct
  <2> HIDE DEF n
  <2> QED
    BY <2>1
<1>2. /\ WalkTypes(g, F, r)
      /\ Leaves(walk, r) \/ Skips(walk, r) \/ Complains(g, walk, r) \/ Pushes(g, walk, r)
  BY WalkSteps DEF WalkDistinct
<1> SUFFICES ASSUME r.problems = {} PROVE WalkOrder(g, entries, r)
  BY DEF WalkOrder
<1> DEFINE Ref(w, i) == ToSet(Refs(g, entries, w, i))
<1>3. walk.problems = {} /\ ~Complains(g, walk, r)
  BY <1>2 DEF Leaves, Skips, Complains, Pushes
<1>4. /\ \A i \in 1 .. n : \A x \in Ref(walk, i) :
           \/ x \in ToSet(walk.stack[i].todo) \/ x \in ToSet(walk.loaded)
           \/ i < n /\ x = walk.stack[i + 1].file
      /\ \A i \in 1 .. m : \A x \in ToSet(g.extends[walk.loaded[i]]) :
           \E j \in 1 .. (i - 1) : walk.loaded[j] = x
  BY <1>3 DEF WalkOrder
<1>5. CASE Skips(walk, r) \/ Pushes(g, walk, r)
  <2>1. Followed(g, entries, walk, r) /\ r.loaded = walk.loaded
    BY <1>1, <1>2, <1>5, FollowsSo DEF Skips, Pushes, Follows
  <2>2. file \in ToSet(walk.loaded) \/ (Len(r.stack) = n + 1 /\ file = r.stack[n + 1].file)
    BY <1>5 DEF Skips, Pushes, Frame
  <2>3. Len(r.stack) = n \/ (Pushes(g, walk, r) /\ Len(r.stack) = n + 1 /\ r.stack[n + 1] = Frame(file, g.extends[file]))
    BY <1>5 DEF Skips, Pushes
  <2>4. ASSUME NEW i \in 1 .. n, NEW x \in Ref(r, i)
        PROVE  \/ x \in ToSet(r.stack[i].todo) \/ x \in ToSet(r.loaded)
               \/ i < Len(r.stack) /\ x = r.stack[i + 1].file
    <3>1. x \in Ref(walk, i)
      BY <2>1 DEF Followed
    <3>2. CASE i = n
      <4>1. x \in ToSet(walk.stack[n].todo) \/ x \in ToSet(walk.loaded)
        BY <1>1, <1>4, <3>1, <3>2
      <4>2. x = file \/ x \in ToSet(r.stack[n].todo) \/ x \in ToSet(r.loaded)
        BY <2>1, <4>1 DEF Followed
      <4>3. n < n + 1
        BY <1>1
      <4> QED
        BY <2>1, <2>2, <3>2, <4>2, <4>3
    <3>3. CASE i # n
      <4>1. i \in 1 .. (n - 1) /\ i + 1 \in 2 .. n /\ i < n
        BY <1>1, <3>3
      <4>2. r.stack[i].todo = walk.stack[i].todo /\ r.stack[i + 1].file = walk.stack[i + 1].file
        BY <2>1, <4>1 DEF Followed
      <4>3. i < Len(r.stack)
        BY <1>1, <2>3, <4>1
      <4> QED
        BY <1>4, <2>1, <3>1, <4>1, <4>2, <4>3
    <3> QED
      BY <3>2, <3>3
  <2>5. ASSUME NEW i \in 1 .. Len(r.stack), i \notin 1 .. n, NEW x \in Ref(r, i)
        PROVE  x \in ToSet(r.stack[i].todo)
    <3>1. i = n + 1 /\ r.stack[i] = Frame(file, g.extends[file])
      BY <1>1, <2>3, <2>5
    <3>2. i # 1
      BY <1>1, <3>1
    <3> QED
      BY <2>5, <3>1, <3>2 DEF Refs, Frame
  <2>6. Len(r.stack) # 0
    BY <1>1, <2>3
  <2> QED
    BY <1>4, <2>1, <2>4, <2>5, <2>6 DEF WalkOrder
<1>6. CASE Leaves(walk, r)
  <2> DEFINE top == walk.stack[n].file
  <2>1. /\ Len(r.stack) = n - 1 /\ walk.stack[n].todo = <<>>
        /\ \A i \in 1 .. (n - 1) : r.stack[i] = walk.stack[i] /\ i \in 1 .. n
    BY <1>1, <1>6 DEF Leaves
  <2>2. \A x : x \notin ToSet(<<>>)
    BY DEF ToSet
  <2>3. Ref(walk, n) \subseteq ToSet(walk.loaded)
    BY <1>1, <1>4, <2>1, <2>2
  <2>4. CASE n = 1
    <3>1. r.loaded = walk.loaded /\ Len(r.stack) = 0
      BY <1>6, <2>1, <2>4 DEF Leaves
    <3>2. ToSet(entries) \subseteq ToSet(r.loaded)
      BY <2>3, <2>4, <3>1 DEF Refs
    <3>3. \A i \in 1 .. Len(r.stack) : FALSE
      BY <3>1
    <3> DEFINE Behind(l) == \A i \in 1 .. Len(l) : \A x \in ToSet(g.extends[l[i]]) :
                              \E j \in 1 .. (i - 1) : l[j] = x
    <3>4. Behind(r.loaded)
      <4>1. Behind(walk.loaded)
        BY <1>4
      <4> HIDE DEF Behind
      <4> QED
        BY <3>1, <4>1
    <3> QED
      BY <3>2, <3>3, <3>4 DEF WalkOrder
  <2>5. CASE n > 1
    <3>1. ToSet(r.loaded) = ToSet(walk.loaded) \cup {top}
      BY <1>1, <1>2, <1>6, <2>5, StackAfter DEF Top
    <3>2. walk.loaded \in Seq(DOMAIN g.extends) /\ top \in DOMAIN g.extends
      BY <1>1, <2>5 DEF WalkTypes
    <3>3. r.loaded = Append(walk.loaded, top)
      BY <1>6, <2>5 DEF Leaves
    <3>4. Len(r.loaded) = m + 1 /\ r.loaded[m + 1] = top /\ \A i \in 1 .. m : r.loaded[i] = walk.loaded[i]
      BY <3>2, <3>3
    <3>5. ASSUME NEW i \in 1 .. (m + 1), NEW x \in ToSet(g.extends[r.loaded[i]])
          PROVE  \E j \in 1 .. (i - 1) : r.loaded[j] = x
      <4>1. CASE i \in 1 .. m
        <5>1. PICK j \in 1 .. (i - 1) : walk.loaded[j] = x
          BY <1>4, <3>4, <3>5, <4>1
        <5>2. j \in 1 .. m
          BY <1>1, <4>1
        <5> QED
          BY <3>4, <5>1, <5>2
      <4>2. CASE i = m + 1
        <5>1. x \in Ref(walk, n)
          BY <2>5, <3>4, <3>5, <4>2 DEF Refs
        <5>2. PICK j \in DOMAIN walk.loaded : walk.loaded[j] = x
          BY <2>3, <5>1 DEF ToSet
        <5>3. j \in 1 .. m /\ i - 1 = m
          BY <1>1, <3>2, <4>2
        <5> QED
          BY <3>4, <5>2, <5>3
      <4> QED
        BY <1>1, <4>1, <4>2
    <3>6. ASSUME NEW i \in 1 .. (n - 1), NEW x \in Ref(r, i)
          PROVE  \/ x \in ToSet(r.stack[i].todo) \/ x \in ToSet(r.loaded)
                 \/ i < n - 1 /\ x = r.stack[i + 1].file
      <4>1. Refs(g, entries, r, i) = Refs(g, entries, walk, i) /\ i < n
        BY <1>1, <2>1 DEF Refs
      <4>2. \/ x \in ToSet(walk.stack[i].todo) \/ x \in ToSet(walk.loaded)
            \/ x = walk.stack[i + 1].file
        BY <1>4, <2>1, <3>6, <4>1
      <4>3. CASE i = n - 1 /\ x = walk.stack[i + 1].file
        <5>1. i + 1 = n
          BY <1>1, <4>3
        <5> QED
          BY <3>1, <4>3, <5>1
      <4>4. CASE i # n - 1
        <5>1. i < n - 1 /\ i + 1 \in 1 .. (n - 1)
          BY <1>1, <4>4
        <5> QED
          BY <2>1, <3>1, <4>2, <5>1
      <4> QED
        BY <2>1, <3>1, <4>2, <4>3, <4>4
    <3>7. Len(r.stack) # 0
      BY <1>1, <2>1, <2>5
    <3> QED
      BY <2>1, <3>4, <3>5, <3>6, <3>7 DEF WalkOrder
  <2> QED
    BY <1>1, <2>4, <2>5
<1> QED
  BY <1>2, <1>3, <1>5, <1>6

(* A problem is that of a reached file: nobody can read it, or it extends
   itself. *)
LEMMA BlamesKept ==
  ASSUME NEW g, NEW F, NEW entries, WalkGraph(g, entries, F), NEW walk, WalkTypes(g, F, walk),
         WalkDistinct(walk), ~WalkEnds(g, walk), NEW r, r = WalkStep(g, walk),
         WalkTrail(g, entries, walk), WalkBlames(g, entries, walk)
  PROVE  WalkBlames(g, entries, r)
<1> DEFINE n == Len(walk.stack)
           m == Len(walk.loaded)
           file == Head(Top(walk).todo)
<1>1. n \in Nat /\ n >= 1 /\ m \in Nat /\ (n = 1 \/ n > 1)
  <2>1. n \in Nat /\ n >= 1 /\ m \in Nat
    BY WalkSteps DEF WalkTypes, WalkDistinct
  <2> HIDE DEF n
  <2> QED
    BY <2>1
<1>2. /\ WalkTypes(g, F, r)
      /\ Leaves(walk, r) \/ Skips(walk, r) \/ Complains(g, walk, r) \/ Pushes(g, walk, r)
  BY WalkSteps DEF WalkDistinct
<1> DEFINE Reached == ReachedFrom(g, ToSet(entries))
           Past(f) == ReachedFrom(g, ToSet(g.extends[f]))
<1>3. CASE ~Complains(g, walk, r)
  BY <1>2, <1>3 DEF Leaves, Skips, Pushes, WalkBlames
<1>4. CASE Complains(g, walk, r)
  <2>1. IsFiniteSet(DOMAIN g.extends)
    BY DEF WalkGraph
  <2>2. ToSet(entries) \subseteq Reached /\ Closed(g, Reached)
    BY <2>1, ReachedHasStart, ReachedIsClosed
  <2>3. \A f : ToSet(g.extends[f]) \subseteq Past(f) /\ Closed(g, Past(f))
    BY <2>1, ReachedHasStart, ReachedIsClosed
  <2>4. Followed(g, entries, walk, r)
    BY <1>1, <1>2, <1>4, FollowsSo DEF Complains
  <2>5. file \in ToSet(Refs(g, entries, walk, n))
    <3>1. n \in 1 .. n
      BY <1>1
    <3>2. ToSet(walk.stack[n].todo) \subseteq ToSet(Refs(g, entries, walk, n))
      BY <3>1 DEF WalkTrail
    <3>3. file \in ToSet(walk.stack[n].todo)
      BY <2>4 DEF Followed
    <3> QED
      BY <3>2, <3>3
  <2>6. \A i \in 2 .. n : walk.stack[i].file \in Reached /\ walk.stack[i].file \in DOMAIN g.extends
    BY DEF WalkTrail, Seen, OnStack, WalkTypes
  <2> HIDE DEF Reached, Past
  <2>7. n > 1 => n \in 2 .. n
    BY <1>1
  <2>8. file \in Reached
    BY <1>1, <2>2, <2>5, <2>6, <2>7 DEF Refs, Closed
  <2>9. CASE file \in OnStack(walk)
    <3>1. PICK k \in 2 .. n : walk.stack[k].file = file
      BY <2>9 DEF OnStack
    <3>2. n > 1 /\ n \in 2 .. n /\ (k = n \/ k < n)
      BY <1>1
    <3>3. file \in ToSet(g.extends[walk.stack[n].file])
      BY <2>5, <3>2 DEF Refs
    <3>4. file \in Past(file)
      <4>1. CASE k = n
        BY <2>3, <3>1, <3>3, <4>1
      <4>2. CASE k < n
        <5>1. walk.stack[n].file \in Past(file)
          BY <3>1, <3>2, <4>2 DEF WalkTrail, Past
        <5> QED
          BY <2>3, <2>6, <3>2, <3>3, <5>1 DEF Closed
      <4> QED
        BY <3>2, <4>1, <4>2
    <3>5. OnCycle(g, file)
      BY <2>6, <3>1, <3>4 DEF OnCycle, Past
    <3> QED
      BY <1>4, <2>8, <3>5 DEF WalkBlames, Complains, Reached
  <2>10. CASE file \notin OnStack(walk)
    <3>1. file \notin DOMAIN g.extends /\ r.problems = walk.problems \cup {<<"unreadable", file>>}
      BY <1>4, <2>10 DEF Complains
    <3> QED
      BY <2>8, <3>1 DEF WalkBlames, Reached
  <2> QED
    BY <2>9, <2>10
<1> QED
  BY <1>3, <1>4

-----------------------------------------------------------------------------
(* The walk ends: every step uses up a reference, a file or the entries. *)

Pairs(g) == UNION {{f} \X (0 .. Len(g.extends[f])) : f \in DOMAIN g.extends}

(* A reference of a file, and a last pair for leaving it, that is not used up. *)
LeftOver(g, walk) ==
  {p \in Pairs(g) :
     /\ p[1] \notin ToSet(walk.loaded)
     /\ \A i \in 2 .. Len(walk.stack) : walk.stack[i].file = p[1] => p[2] <= Len(walk.stack[i].todo)}

EntriesLeft(walk) == IF walk.stack = <<>> THEN 0 ELSE Len(walk.stack[1].todo) + 1

StepsLeft(g, walk) == Cardinality(LeftOver(g, walk)) + EntriesLeft(walk)

LEMMA PairsFinite ==
  ASSUME NEW g, NEW F, NEW entries, WalkGraph(g, entries, F)
  PROVE  IsFiniteSet(Pairs(g))
<1> DEFINE D == DOMAIN g.extends
           h == [f \in D |-> {f} \X (0 .. Len(g.extends[f]))]
           T == {{f} \X (0 .. Len(g.extends[f])) : f \in D}
<1>1. h \in Surjection(D, T)
  BY DEF Surjection
<1>2. IsFiniteSet(T)
  <2> HIDE DEF D, h, T
  <2> QED
    BY <1>1, FS_Surjection DEF WalkGraph, D
<1>3. ASSUME NEW f \in D PROVE IsFiniteSet({f} \X (0 .. Len(g.extends[f])))
  <2>1. Len(g.extends[f]) \in Int
    BY DEF WalkGraph
  <2>2. IsFiniteSet({f})
    BY FS_Singleton
  <2>3. IsFiniteSet(0 .. Len(g.extends[f]))
    <3> DEFINE l == Len(g.extends[f])
    <3> HIDE DEF l
    <3> QED
      BY <2>1, FS_Interval DEF l
  <2> QED
    BY <2>2, <2>3, FS_Product
<1>4. \A X \in T : IsFiniteSet(X)
  BY <1>3
<1> HIDE DEF T
<1>5. IsFiniteSet(UNION T)
  BY <1>2, <1>4, FS_UNION
<1> QED
  BY <1>5 DEF Pairs, T

LEMMA PairIs ==
  ASSUME NEW g, NEW f \in DOMAIN g.extends, NEW k, k \in 0 .. Len(g.extends[f])
  PROVE  <<f, k>> \in Pairs(g)
BY DEF Pairs

LEMMA PairsAre ==
  ASSUME NEW g, NEW p \in Pairs(g)
  PROVE  p = <<p[1], p[2]>> /\ p[1] \in DOMAIN g.extends /\ p[2] \in 0 .. Len(g.extends[p[1]])
<1>1. PICK f \in DOMAIN g.extends : p \in {f} \X (0 .. Len(g.extends[f]))
  BY DEF Pairs
<1> QED
  BY <1>1

LEMMA UsesUp ==
  ASSUME NEW g, NEW F, NEW entries, WalkGraph(g, entries, F), NEW walk, WalkTypes(g, F, walk),
         WalkDistinct(walk), ~WalkEnds(g, walk), NEW r, r = WalkStep(g, walk),
         WalkTrail(g, entries, walk)
  PROVE  /\ LeftOver(g, r) \subseteq LeftOver(g, walk)
         /\ Len(walk.stack) > 1 => LeftOver(g, r) # LeftOver(g, walk) /\ EntriesLeft(r) = EntriesLeft(walk)
         /\ Len(walk.stack) = 1 => EntriesLeft(r) + 1 = EntriesLeft(walk)
         /\ EntriesLeft(r) \in Nat /\ EntriesLeft(walk) \in Nat
<1> DEFINE n == Len(walk.stack)
           m == Len(walk.loaded)
           file == Head(Top(walk).todo)
<1>1. n \in Nat /\ n >= 1 /\ m \in Nat /\ (n = 1 \/ n > 1)
  <2>1. n \in Nat /\ n >= 1 /\ m \in Nat
    BY WalkSteps DEF WalkTypes, WalkDistinct
  <2> HIDE DEF n
  <2> QED
    BY <2>1
<1>2. /\ WalkTypes(g, F, r)
      /\ Leaves(walk, r) \/ Skips(walk, r) \/ Complains(g, walk, r) \/ Pushes(g, walk, r)
  BY WalkSteps DEF WalkDistinct
<1> DEFINE top == walk.stack[n].file
           left == Len(walk.stack[n].todo)
<1>3. /\ left \in Nat /\ n > 1 => top \in DOMAIN g.extends
      /\ n > 1 => Len(walk.stack[1].todo) \in Nat /\ Len(g.extends[top]) \in Nat
                   /\ left <= Len(g.extends[top])
  <2>1. n \in 1 .. n /\ 1 \in 1 .. n
    BY <1>1
  <2>2. walk.stack[n].todo \in Seq(F) /\ walk.stack[1].todo \in Seq(F)
    BY <2>1 DEF WalkTypes
  <2>3. n > 1 => n \in 2 .. n
    BY <1>1
  <2>4. n > 1 => top \in DOMAIN g.extends
    BY <2>3 DEF WalkTypes
  <2>5. n > 1 => left <= Len(g.extends[top])
    BY <1>1, <2>1 DEF WalkTrail, Refs
  <2> QED
    BY <2>2, <2>4, <2>5 DEF WalkGraph
<1>4. walk.stack # <<>> /\ EntriesLeft(walk) = Len(walk.stack[1].todo) + 1
  BY <1>1 DEF EntriesLeft
<1>5. n > 1 => n \in 2 .. n
  BY <1>1
<1>6. n > 1 => <<top, left>> \in LeftOver(g, walk)
  <2> SUFFICES ASSUME n > 1 PROVE <<top, left>> \in LeftOver(g, walk)
    OBVIOUS
  <2>1. left \in 0 .. Len(g.extends[top])
    BY <1>3
  <2>2. <<top, left>> \in Pairs(g)
    BY <1>3, <2>1, PairIs
  <2>3. top \notin ToSet(walk.loaded)
    BY <1>5 DEF WalkDistinct, OnStack
  <2>4. \A i \in 2 .. n : walk.stack[i].file = top => i = n
    BY <1>5 DEF WalkDistinct
  <2>5. left <= left
    BY <1>3
  <2> HIDE DEF top
  <2>6. \A i \in 2 .. n : walk.stack[i].file = top => left <= Len(walk.stack[i].todo)
    BY <2>4, <2>5
  <2> QED
    BY <2>2, <2>3, <2>6 DEF LeftOver
<1>7. CASE Follows(walk, r) /\ ToSet(r.loaded) = ToSet(walk.loaded)
  <2>1. Followed(g, entries, walk, r) /\ Len(r.stack) >= n /\ Len(r.stack) \in Nat
    <3>1. Followed(g, entries, walk, r)
      BY <1>1, <1>2, <1>7, FollowsSo
    <3>2. Len(r.stack) \in Nat
      BY <1>2 DEF WalkTypes
    <3>3. Len(r.stack) >= n
      BY <1>7 DEF Follows
    <3> QED
      BY <3>1, <3>2, <3>3
  <2>2. ASSUME NEW p \in LeftOver(g, r) PROVE p \in LeftOver(g, walk)
    <3>1. p \in Pairs(g) /\ p[1] \notin ToSet(walk.loaded)
      BY <1>7, <2>2 DEF LeftOver
    <3>2. p[2] \in Nat
      BY <3>1, PairsAre
    <3>3. ASSUME NEW i \in 2 .. n, walk.stack[i].file = p[1] PROVE p[2] <= Len(walk.stack[i].todo)
      <4>1. i \in 2 .. Len(r.stack) /\ r.stack[i].file = p[1]
        BY <1>1, <2>1, <3>3 DEF Followed
      <4>2. p[2] <= Len(r.stack[i].todo)
        BY <2>2, <4>1 DEF LeftOver
      <4>3. CASE i = n
        <5>1. Len(r.stack[n].todo) = left - 1
          BY <2>1 DEF Followed
        <5> QED
          BY <1>3, <3>2, <4>2, <4>3, <5>1
      <4>4. CASE i # n
        <5>1. i \in 1 .. (n - 1)
          BY <1>1, <4>4
        <5> QED
          BY <2>1, <4>2, <5>1 DEF Followed
      <4> QED
        BY <4>3, <4>4
    <3> QED
      BY <3>1, <3>3 DEF LeftOver
  <2>3. ASSUME n > 1 PROVE <<top, left>> \notin LeftOver(g, r)
    <3>1. n \in 2 .. Len(r.stack) /\ r.stack[n].file = top
      BY <1>1, <1>5, <2>1, <2>3 DEF Followed
    <3>2. Len(r.stack[n].todo) = left - 1
      BY <2>1 DEF Followed
    <3>3. ~(left <= left - 1)
      BY <1>3
    <3> HIDE DEF top, left
    <3> QED
      BY <3>1, <3>2, <3>3 DEF LeftOver
  <2>4. r.stack # <<>> /\ EntriesLeft(r) = Len(r.stack[1].todo) + 1
    BY <1>1, <2>1 DEF EntriesLeft
  <2>5. ASSUME n > 1 PROVE EntriesLeft(r) = EntriesLeft(walk)
    <3>1. 1 \in 1 .. (n - 1)
      BY <1>1, <2>5
    <3> QED
      BY <1>4, <2>1, <2>4, <3>1 DEF Followed
  <2>6. ASSUME n = 1 PROVE EntriesLeft(r) + 1 = EntriesLeft(walk) /\ EntriesLeft(r) \in Nat
    <3>1. Len(r.stack[1].todo) = Len(walk.stack[1].todo) - 1 /\ Len(walk.stack[1].todo) \in Nat
      BY <2>1, <2>6 DEF Followed
    <3>2. Len(r.stack[1].todo) \in Nat
      BY <1>2, <2>1, <2>6 DEF WalkTypes
    <3> QED
      BY <1>4, <2>4, <3>1, <3>2
  <2> QED
    BY <1>1, <1>3, <1>4, <1>6, <2>2, <2>3, <2>5, <2>6
<1>8. CASE Leaves(walk, r) /\ n = 1
  <2>1. r.stack = <<>> /\ r.loaded = walk.loaded
    BY <1>2, <1>8 DEF Leaves, WalkTypes
  <2>2. EntriesLeft(r) = 0 /\ EntriesLeft(walk) = 1
    BY <1>4, <1>8, <2>1 DEF EntriesLeft, Leaves
  <2>3. \A i : i \notin 2 .. n
    BY <1>8
  <2>4. LeftOver(g, r) \subseteq LeftOver(g, walk)
    BY <2>1, <2>3 DEF LeftOver
  <2> QED
    BY <1>8, <2>2, <2>4
<1>9. CASE Leaves(walk, r) /\ n > 1
  <2>1. ToSet(r.loaded) = ToSet(walk.loaded) \cup {top}
    BY <1>1, <1>2, <1>9, StackAfter DEF Top
  <2>2. Len(r.stack) = n - 1 /\ \A i \in 1 .. (n - 1) : r.stack[i] = walk.stack[i]
    BY <1>9 DEF Leaves
  <2>3. <<top, left>> \notin LeftOver(g, r)
    BY <2>1 DEF LeftOver
  <2>4. ASSUME NEW p \in LeftOver(g, r) PROVE p \in LeftOver(g, walk)
    <3>1. p \in Pairs(g) /\ p[1] \notin ToSet(walk.loaded) /\ p[1] # top
      BY <2>1, <2>4 DEF LeftOver
    <3>2. ASSUME NEW i \in 2 .. n, walk.stack[i].file = p[1] PROVE p[2] <= Len(walk.stack[i].todo)
      <4>1. i # n
        BY <3>1, <3>2
      <4>2. i \in 2 .. (n - 1) /\ i \in 1 .. (n - 1)
        BY <1>1, <4>1
      <4> QED
        BY <2>2, <2>4, <3>2, <4>2 DEF LeftOver
    <3> QED
      BY <3>1, <3>2 DEF LeftOver
  <2>5. EntriesLeft(r) = EntriesLeft(walk)
    <3>1. 1 \in 1 .. (n - 1) /\ n - 1 # 0
      <4>1. n > 1
        BY <1>9
      <4> HIDE DEF n
      <4> QED
        BY <1>1, <4>1
    <3>2. r.stack # <<>>
      BY <2>2, <3>1
    <3> QED
      BY <1>4, <2>2, <3>1, <3>2 DEF EntriesLeft
  <2>6. EntriesLeft(walk) \in Nat
    BY <1>3, <1>4, <1>9
  <2> QED
    BY <1>6, <1>9, <2>3, <2>4, <2>5, <2>6
<1>10. Skips(walk, r) \/ Complains(g, walk, r) \/ Pushes(g, walk, r)
         => Follows(walk, r) /\ ToSet(r.loaded) = ToSet(walk.loaded)
  BY <1>1, <1>2 DEF Skips, Complains, Pushes, Follows
<1> QED
  BY <1>1, <1>2, <1>7, <1>8, <1>9, <1>10

LEMMA StepsDrop ==
  ASSUME NEW g, NEW F, NEW entries, WalkGraph(g, entries, F), NEW walk, WalkTypes(g, F, walk),
         WalkDistinct(walk), ~WalkEnds(g, walk), NEW r, r = WalkStep(g, walk),
         WalkTrail(g, entries, walk)
  PROVE  StepsLeft(g, r) \in Nat /\ StepsLeft(g, walk) \in Nat /\ StepsLeft(g, r) + 1 <= StepsLeft(g, walk)
<1> DEFINE X == LeftOver(g, walk)
           Y == LeftOver(g, r)
<1>1. IsFiniteSet(Pairs(g))
  BY PairsFinite
<1>2. /\ Y \subseteq X
      /\ Len(walk.stack) > 1 => Y # X /\ EntriesLeft(r) = EntriesLeft(walk)
      /\ Len(walk.stack) = 1 => EntriesLeft(r) + 1 = EntriesLeft(walk)
      /\ EntriesLeft(r) \in Nat /\ EntriesLeft(walk) \in Nat
  BY UsesUp
<1>3. X \in SUBSET Pairs(g) /\ Y \in SUBSET X
  BY <1>2 DEF LeftOver
<1> HIDE DEF X, Y
<1>4. IsFiniteSet(X) /\ IsFiniteSet(Y)
  BY <1>1, <1>3, FS_Subset
<1>5. Cardinality(X) \in Nat /\ Cardinality(Y) \in Nat
  BY <1>4, FS_CardinalityType
<1>6. Cardinality(Y) <= Cardinality(X) /\ (Y # X => Cardinality(Y) # Cardinality(X))
  BY <1>3, <1>4, FS_Subset
<1>7. Len(walk.stack) = 1 \/ Len(walk.stack) > 1
  <2> DEFINE n == Len(walk.stack)
  <2>1. n \in Nat /\ n >= 1
    BY WalkSteps DEF WalkTypes, WalkDistinct
  <2> HIDE DEF n
  <2>2. n = 1 \/ n > 1
    BY <2>1
  <2> QED
    BY <2>2 DEF n
<1> QED
  BY <1>2, <1>5, <1>6, <1>7 DEF StepsLeft, X, Y

-----------------------------------------------------------------------------
(* The whole walk. *)

WalkStart(w) == [stack |-> <<[todo |-> w[2]]>>, loaded |-> <<>>, problems |-> {}]
WalkNext(w, walk, n) == WalkStep(w[1], walk)

Steps == INSTANCE FoldFacts WITH Step <- WalkNext, Start <- WalkStart

WalkInv(g, F, entries, walk) ==
  /\ WalkTypes(g, F, walk)
  /\ WalkDistinct(walk)
  /\ WalkTrail(g, entries, walk)
  /\ WalkOrder(g, entries, walk)
  /\ WalkBlames(g, entries, walk)

LEMMA WalkBegins ==
  ASSUME NEW g, NEW F, NEW entries, WalkGraph(g, entries, F)
  PROVE  LET walk == WalkStart(<<g, entries>>) IN
         /\ WalkInv(g, F, entries, walk)
         /\ StepsLeft(g, walk) = WalkLength(g, entries) /\ WalkLength(g, entries) \in Nat
<1> DEFINE walk == WalkStart(<<g, entries>>)
           bottom == [todo |-> entries]
<1>1. /\ walk = [stack |-> walk.stack, loaded |-> walk.loaded, problems |-> walk.problems]
      /\ walk.stack = <<bottom>> /\ walk.loaded = <<>> /\ walk.problems = {}
  BY DEF WalkStart
<1> HIDE DEF walk
<1>2. bottom \in Frames(F) /\ bottom.todo = entries /\ entries \in Seq(F)
  BY DEF Frames, WalkGraph
<1> HIDE DEF bottom
<1>3. walk.stack \in Seq(Frames(F)) /\ Len(walk.stack) = 1 /\ walk.stack[1] = bottom /\ Len(walk.loaded) = 0
  BY <1>1, <1>2
<1>4. 2 .. 1 = {} /\ 1 .. 0 = {} /\ 1 .. 1 = {1}
  OBVIOUS
<1>5. WalkTypes(g, F, walk)
  <2>1. <<>> \in Seq(DOMAIN g.extends) /\ {} \in SUBSET Problems(F)
    OBVIOUS
  <2>2. walk \in [stack : Seq(Frames(F)), loaded : Seq(DOMAIN g.extends), problems : SUBSET Problems(F)]
    BY <1>1, <1>3, <2>1
  <2> QED
    BY <1>2, <1>3, <1>4, <2>2 DEF WalkTypes
<1>6. OnStack(walk) = {} /\ ToSet(walk.loaded) = {} /\ Seen(walk) = {}
  BY <1>1, <1>3, <1>4 DEF OnStack, ToSet, Seen
<1>7. WalkDistinct(walk)
  BY <1>3, <1>4, <1>6 DEF WalkDistinct
<1>8. WalkTrail(g, entries, walk)
  <2>1. Len(entries) <= Len(entries)
    BY <1>2
  <2> QED
    BY <1>2, <1>3, <1>4, <1>6, <2>1 DEF WalkTrail, Refs
<1>9. WalkOrder(g, entries, walk)
  BY <1>2, <1>3, <1>4, <1>6 DEF WalkOrder, Refs
<1>10. WalkBlames(g, entries, walk)
  BY <1>1 DEF WalkBlames
<1>11. LeftOver(g, walk) = Pairs(g)
  BY <1>3, <1>4, <1>6 DEF LeftOver
<1>12. EntriesLeft(walk) = Len(entries) + 1
  <2>1. walk.stack # <<>>
    BY <1>3
  <2> QED
    BY <1>2, <1>3, <2>1 DEF EntriesLeft
<1>13. Cardinality(Pairs(g)) \in Nat /\ Len(entries) \in Nat
  BY <1>2, PairsFinite, FS_CardinalityType
<1>14. WalkLength(g, entries) = Len(entries) + 1 + Cardinality(Pairs(g))
  BY DEF WalkLength, Pairs
<1>15. StepsLeft(g, walk) = WalkLength(g, entries) /\ WalkLength(g, entries) \in Nat
  BY <1>11, <1>12, <1>13, <1>14 DEF StepsLeft
<1> QED
  BY <1>5, <1>7, <1>8, <1>9, <1>10, <1>15 DEF WalkInv, walk

LEMMA WalkByCounting ==
  ASSUME NEW g, NEW entries
  PROVE  LET c == Steps!Counted(<<g, entries>>, Nat) IN
         /\ Walk(g, entries) = c[WalkLength(g, entries)]
         /\ c[0] = WalkStart(<<g, entries>>)
         /\ \A k \in Nat : c[k + 1] = WalkStep(g, c[k])
<1> DEFINE w == <<g, entries>>
           c == Steps!Counted(w, Nat)
<1>1. Walk(g, entries) = c[WalkLength(g, entries)]
  BY DEF Walk, Steps!Counted, WalkStart, WalkNext
<1>2. /\ c[0] = WalkStart(w)
      /\ \A k \in Nat : c[k + 1] = WalkNext(w, c[k], k + 1)
  <2> HIDE DEF w
  <2> QED
    BY Steps!CountedAlways
<1>3. \A k \in Nat : c[k + 1] = WalkStep(g, c[k])
  <2>1. \A x, k : WalkNext(w, x, k) = WalkStep(g, x)
    BY DEF WalkNext
  <2> HIDE DEF c
  <2> QED
    BY <1>2, <2>1
<1> HIDE DEF c
<1> QED
  BY <1>1, <1>2, <1>3 DEF c

(* The walk has ended after as many steps as it is given, and what holds all
   along holds of what it yields. *)
THEOREM WalkIsOver ==
  ASSUME NEW g, NEW F, NEW entries, WalkGraph(g, entries, F)
  PROVE  WalkInv(g, F, entries, Walk(g, entries)) /\ WalkEnds(g, Walk(g, entries))
<1> DEFINE c == Steps!Counted(<<g, entries>>, Nat)
           N == WalkLength(g, entries)
           S == {k \in 0 .. N : /\ WalkInv(g, F, entries, c[k])
                                /\ \/ WalkEnds(g, c[k])
                                   \/ StepsLeft(g, c[k]) \in Nat /\ StepsLeft(g, c[k]) + k <= N}
<1>1. /\ Walk(g, entries) = c[N] /\ c[0] = WalkStart(<<g, entries>>)
      /\ \A k \in Nat : c[k + 1] = WalkStep(g, c[k])
  BY WalkByCounting
<1>2. WalkInv(g, F, entries, c[0]) /\ StepsLeft(g, c[0]) = N /\ N \in Nat
  <2> HIDE DEF c
  <2> QED
    BY <1>1, WalkBegins
<1> HIDE DEF c, N
<1>3. 0 \in S
  BY <1>2
<1>4. ASSUME NEW k \in Nat, k < N, k \in S PROVE k + 1 \in S
  <2> DEFINE walk == c[k]
             r == c[k + 1]
  <2>1. r = WalkStep(g, walk) /\ WalkInv(g, F, entries, walk) /\ k + 1 \in 0 .. N
    BY <1>1, <1>2, <1>4
  <2>2. CASE WalkEnds(g, walk)
    <3>1. r = walk
      BY <2>1, <2>2 DEF WalkStep
    <3> QED
      BY <2>1, <2>2, <3>1
  <2>3. CASE ~WalkEnds(g, walk)
    <3>1. StepsLeft(g, walk) \in Nat /\ StepsLeft(g, walk) + k <= N
      BY <1>4, <2>3
    <3> HIDE DEF walk, r
    <3>2. WalkTypes(g, F, walk) /\ WalkDistinct(walk) /\ WalkTrail(g, entries, walk)
          /\ WalkOrder(g, entries, walk) /\ WalkBlames(g, entries, walk)
      BY <2>1 DEF WalkInv
    <3>3. WalkTypes(g, F, r)
      BY <2>1, <2>3, <3>2, WalkSteps DEF WalkDistinct
    <3>4. WalkDistinct(r)
      BY <2>1, <2>3, <3>2, DistinctKept
    <3>5. WalkTrail(g, entries, r)
      BY <2>1, <2>3, <3>2, TrailKept
    <3>6. WalkOrder(g, entries, r)
      BY <2>1, <2>3, <3>2, OrderKept
    <3>7. WalkBlames(g, entries, r)
      BY <2>1, <2>3, <3>2, BlamesKept
    <3>8. StepsLeft(g, r) \in Nat /\ StepsLeft(g, r) + 1 <= StepsLeft(g, walk)
      BY <2>1, <2>3, <3>2, StepsDrop
    <3>9. StepsLeft(g, r) + (k + 1) <= N
      BY <1>2, <3>1, <3>8
    <3> QED
      BY <2>1, <3>3, <3>4, <3>5, <3>6, <3>7, <3>8, <3>9 DEF WalkInv, r
  <2> QED
    BY <2>2, <2>3
<1>5. \A k \in 0 .. N : k \in S
  <2> HIDE DEF S
  <2> QED
    BY <1>2, <1>3, <1>4, Steps!CountingUp
<1>6. N \in S
  <2>1. N \in 0 .. N
    BY <1>2
  <2> HIDE DEF S
  <2> QED
    BY <1>5, <2>1
<1> DEFINE walk == c[N]
<1>7. WalkInv(g, F, entries, walk)
  BY <1>6
<1>8. WalkEnds(g, walk)
  <2> SUFFICES ASSUME ~WalkEnds(g, walk) PROVE FALSE
    OBVIOUS
  <2>1. StepsLeft(g, walk) \in Nat /\ StepsLeft(g, walk) + N <= N
    BY <1>6
  <2>2. WalkTypes(g, F, walk) /\ WalkDistinct(walk) /\ WalkTrail(g, entries, walk)
    BY <1>7 DEF WalkInv
  <2> HIDE DEF walk
  <2>3. StepsLeft(g, WalkStep(g, walk)) \in Nat /\ StepsLeft(g, WalkStep(g, walk)) + 1 <= StepsLeft(g, walk)
    BY <2>2, StepsDrop
  <2> QED
    BY <1>2, <2>1, <2>3
<1> QED
  BY <1>1, <1>7, <1>8

(* A walk without a problem loads every reached file once, each behind all it
   extends; it has one exactly when a reached file is unreadable or extends
   itself. *)
THEOREM WalkIsRight ==
  ASSUME NEW g, NEW F, NEW entries, WalkGraph(g, entries, F), g.strict
  PROVE  LET walk == Walk(g, entries)
             reached == ReachedFrom(g, ToSet(entries))
         IN  /\ walk.loaded \in Seq(DOMAIN g.extends)
             /\ (walk.problems = {}) <=> \A f \in reached : f \in DOMAIN g.extends /\ ~OnCycle(g, f)
             /\ walk.problems = {} =>
                  /\ ToSet(walk.loaded) = reached /\ Len(walk.loaded) = Cardinality(reached)
                  /\ \A i, j \in DOMAIN walk.loaded :
                       walk.loaded[j] \in ToSet(g.extends[walk.loaded[i]]) => j < i
<1> DEFINE walk == Walk(g, entries)
           reached == ReachedFrom(g, ToSet(entries))
           m == Len(walk.loaded)
<1>1. /\ WalkTypes(g, F, walk) /\ WalkDistinct(walk) /\ WalkTrail(g, entries, walk)
      /\ WalkOrder(g, entries, walk) /\ WalkBlames(g, entries, walk) /\ WalkEnds(g, walk)
  BY WalkIsOver DEF WalkInv
<1> HIDE DEF walk, reached
<1>2. walk.loaded \in Seq(DOMAIN g.extends) /\ m \in Nat /\ DOMAIN walk.loaded = 1 .. m
  BY <1>1 DEF WalkTypes
<1>3. IsFiniteSet(DOMAIN g.extends)
  BY DEF WalkGraph
<1>4. ASSUME walk.problems # {}
      PROVE  \E f \in reached : f \notin DOMAIN g.extends \/ OnCycle(g, f)
  BY <1>1, <1>4 DEF WalkBlames, reached
<1>5. ASSUME walk.problems = {}
      PROVE  /\ \A f \in reached : f \in DOMAIN g.extends /\ ~OnCycle(g, f)
             /\ ToSet(walk.loaded) = reached /\ m = Cardinality(reached)
             /\ \A i, j \in DOMAIN walk.loaded :
                  walk.loaded[j] \in ToSet(g.extends[walk.loaded[i]]) => j < i
  <2>1. Len(walk.stack) = 0
    BY <1>1, <1>5 DEF WalkEnds
  <2>2. ToSet(entries) \subseteq ToSet(walk.loaded)
    BY <1>1, <1>5, <2>1 DEF WalkOrder
  <2>3. \A i \in 1 .. m : \A x \in ToSet(g.extends[walk.loaded[i]]) :
          \E j \in 1 .. (i - 1) : walk.loaded[j] = x
    BY <1>1, <1>5 DEF WalkOrder
  <2>4. \A i, j \in 1 .. m : walk.loaded[i] = walk.loaded[j] => i = j
    BY <1>1 DEF WalkDistinct
  <2>5. Closed(g, ToSet(walk.loaded))
    <3>1. ASSUME NEW i \in 1 .. m, NEW x \in ToSet(g.extends[walk.loaded[i]])
          PROVE  x \in ToSet(walk.loaded)
      <4>1. PICK j \in 1 .. (i - 1) : walk.loaded[j] = x
        BY <2>3, <3>1
      <4>2. j \in DOMAIN walk.loaded
        BY <1>2
      <4> QED
        BY <4>1, <4>2 DEF ToSet
    <3> QED
      BY <1>2, <3>1 DEF Closed, ToSet
  <2>6. reached \subseteq ToSet(walk.loaded)
    BY <1>3, <2>2, <2>5, ReachedIsLeast DEF reached
  <2>7. ToSet(walk.loaded) \subseteq reached
    BY <1>1 DEF WalkTrail, Seen, reached
  <2>8. ToSet(walk.loaded) = reached
    BY <2>6, <2>7
  <2>9. m = Cardinality(reached)
    <3> DEFINE l == walk.loaded
    <3>1. l \in [1 .. m -> reached]
      BY <1>2, <2>8 DEF ToSet
    <3>2. \A x \in reached : \E i \in 1 .. m : l[i] = x
      BY <1>2, <2>8 DEF ToSet
    <3>3. l \in Bijection(1 .. m, reached)
      <4> HIDE DEF l
      <4>1. l \in Injection(1 .. m, reached)
        <5>1. \A a, b \in 1 .. m : l[a] = l[b] => a = b
          BY <2>4 DEF l
        <5> HIDE DEF m
        <5> QED
          BY <3>1, <5>1, Fun_IsInj
      <4>2. l \in Surjection(1 .. m, reached)
        BY <3>1, <3>2 DEF Surjection
      <4> QED
        BY <4>1, <4>2 DEF Bijection
    <3>4. ExistsBijection(1 .. m, reached)
      BY <3>3 DEF ExistsBijection
    <3> HIDE DEF m
    <3> QED
      BY <1>2, <3>4, FS_CountingElements
  <2>10. ASSUME NEW i \in 1 .. m, NEW j \in 1 .. m, walk.loaded[j] \in ToSet(g.extends[walk.loaded[i]])
         PROVE  j < i
    <3>1. PICK k \in 1 .. (i - 1) : walk.loaded[k] = walk.loaded[j]
      BY <2>3, <2>10
    <3>2. k \in 1 .. m
      BY <1>2
    <3>3. k = j
      BY <2>4, <3>1, <3>2
    <3> QED
      BY <3>3
  <2>11. ASSUME NEW f \in reached PROVE f \in DOMAIN g.extends /\ ~OnCycle(g, f)
    <3>1. PICK i \in 1 .. m : walk.loaded[i] = f
      BY <1>2, <2>8 DEF ToSet
    <3>2. f \in DOMAIN g.extends
      BY <1>2, <3>1
    <3> DEFINE T == {walk.loaded[j] : j \in 1 .. (i - 1)}
    <3>3. ToSet(g.extends[f]) \subseteq T
      BY <2>3, <3>1
    <3>4. Closed(g, T)
      <4>1. ASSUME NEW j \in 1 .. (i - 1), NEW x \in ToSet(g.extends[walk.loaded[j]]) PROVE x \in T
        <5>1. j \in 1 .. m
          BY <1>2
        <5>2. PICK k \in 1 .. (j - 1) : walk.loaded[k] = x
          BY <2>3, <4>1, <5>1
        <5>3. k \in 1 .. (i - 1)
          OBVIOUS
        <5> QED
          BY <5>2, <5>3
      <4> QED
        BY <4>1 DEF Closed
    <3>5. f \notin T
      <4> SUFFICES ASSUME NEW j \in 1 .. (i - 1), walk.loaded[j] = f PROVE FALSE
        OBVIOUS
      <4>1. j \in 1 .. m /\ j # i
        BY <1>2
      <4> QED
        BY <2>4, <3>1, <4>1
    <3> HIDE DEF T
    <3>6. ReachedFrom(g, ToSet(g.extends[f])) \subseteq T
      BY <1>3, <3>3, <3>4, ReachedIsLeast
    <3> QED
      BY <3>2, <3>5, <3>6 DEF OnCycle
  <2> QED
    BY <1>2, <2>8, <2>9, <2>10, <2>11
<1> HIDE DEF m
<1> QED
  BY <1>2, <1>4, <1>5 DEF walk, reached, m

-----------------------------------------------------------------------------
(* What people may have written. *)

PolicyState ==
  /\ policyFiles \in [PolicyFiles -> Documents \cup {Absent, Invalid}]
  /\ configuration \in Configurations

(* In every state of the policy files each is absent, unreadable or one of the
   documents, and the configuration is one of those there may be
   (resolvePolicy reads both anew). *)
THEOREM PolicyStates == PolicySpec => []PolicyState
<1>1. PolicyInit => PolicyState
  BY DEF PolicyInit, PolicyState
<1>2. PolicyState /\ [PolicyNext]_policyVars => PolicyState'
  <2> SUFFICES ASSUME PolicyState, [PolicyNext]_policyVars PROVE PolicyState'
    OBVIOUS
  <2>1. ASSUME NEW f \in PolicyFiles, NEW d \in Documents \cup {Absent, Invalid}, WritePolicy(f, d)
        PROVE  PolicyState'
    BY <2>1 DEF PolicyState, WritePolicy
  <2>2. ASSUME NEW c \in Configurations, WriteConfiguration(c) PROVE PolicyState'
    BY <2>2 DEF PolicyState, WriteConfiguration
  <2>3. CASE UNCHANGED policyVars
    BY <2>3 DEF PolicyState, policyVars
  <2> QED
    BY <2>1, <2>2, <2>3 DEF PolicyNext
<1> QED
  BY <1>1, <1>2, PTL DEF PolicySpec

(* What the walk is given. *)
LEMMA PolicyGraphIs ==
  ASSUME PolicyState
  PROVE  /\ WalkGraph(PolicyGraph, EntryFiles, PolicyFiles) /\ PolicyGraph.strict
         /\ DOMAIN PolicyGraph.extends = {f \in PolicyFiles : policyFiles[f] \in Documents}
         /\ \A f \in DOMAIN PolicyGraph.extends : PolicyGraph.extends[f] = policyFiles[f].extends
<1> DEFINE D == {f \in PolicyFiles : policyFiles[f] \in Documents}
<1>1. /\ DOMAIN PolicyGraph.extends = D /\ PolicyGraph.strict
      /\ \A f \in D : PolicyGraph.extends[f] = policyFiles[f].extends
  BY DEF PolicyGraph
<1>2. IsFiniteSet(D)
  <2>1. D \in SUBSET PolicyFiles /\ IsFiniteSet(PolicyFiles)
    BY PolicyAssumption
  <2> HIDE DEF D
  <2> QED
    BY <2>1, FS_Subset
<1>3. \A f \in D : policyFiles[f].extends \in Seq(PolicyFiles)
  BY PolicyAssumption DEF IsDocument
<1>4. EntryFiles \in Seq(PolicyFiles)
  <2>1. configuration.extends \in Seq(PolicyFiles) /\ DefaultFile \in PolicyFiles
    BY PolicyAssumption DEF PolicyState
  <2>2. <<>> \in Seq(PolicyFiles) /\ <<DefaultFile>> \in Seq(PolicyFiles)
    BY <2>1
  <2> QED
    BY <2>1, <2>2 DEF EntryFiles
<1> QED
  BY <1>1, <1>2, <1>3, <1>4 DEF WalkGraph

(* Only files inside the repository are reached. *)
LEMMA ReachedInside ==
  ASSUME PolicyState
  PROVE  ReachedFrom(PolicyGraph, ToSet(EntryFiles)) \subseteq PolicyFiles
<1>1. WalkGraph(PolicyGraph, EntryFiles, PolicyFiles)
  BY PolicyGraphIs
<1>2. ToSet(EntryFiles) \subseteq PolicyFiles
  BY <1>1 DEF WalkGraph, ToSet
<1>3. Closed(PolicyGraph, PolicyFiles)
  BY <1>1 DEF WalkGraph, Closed, ToSet
<1>4. IsFiniteSet(DOMAIN PolicyGraph.extends)
  BY <1>1 DEF WalkGraph
<1> QED
  BY <1>2, <1>3, <1>4, ReachedIsLeast

LEMMA BasesComeFirst == ASSUME PolicyState PROVE BasesFirst
<1> DEFINE g == PolicyGraph
           entries == EntryFiles
           walk == Walk(g, entries)
           reached == ReachedFrom(g, ToSet(entries))
<1>1. /\ WalkGraph(g, entries, PolicyFiles) /\ g.strict
      /\ DOMAIN g.extends = {f \in PolicyFiles : policyFiles[f] \in Documents}
      /\ \A f \in DOMAIN g.extends : g.extends[f] = policyFiles[f].extends
  BY PolicyGraphIs
<1>2. reached \subseteq PolicyFiles
  BY ReachedInside
<1> HIDE DEF g, entries
<1>3. /\ walk.loaded \in Seq(DOMAIN g.extends)
      /\ (walk.problems = {}) <=> \A f \in reached : f \in DOMAIN g.extends /\ ~OnCycle(g, f)
      /\ walk.problems = {} =>
           /\ ToSet(walk.loaded) = reached /\ Len(walk.loaded) = Cardinality(reached)
           /\ \A i, j \in DOMAIN walk.loaded :
                walk.loaded[j] \in ToSet(g.extends[walk.loaded[i]]) => j < i
  BY <1>1, WalkIsRight
<1> HIDE DEF walk, reached
<1>4. \A i \in DOMAIN walk.loaded : walk.loaded[i] \in DOMAIN g.extends
  BY <1>3
<1>5. \A f \in reached : f \in DOMAIN g.extends <=> policyFiles[f] \in Documents
  BY <1>1, <1>2
<1>6. \A i, j \in DOMAIN walk.loaded :
        walk.loaded[j] \in ToSet(policyFiles[walk.loaded[i]].extends)
          => walk.loaded[j] \in ToSet(g.extends[walk.loaded[i]])
  BY <1>1, <1>4
<1>7. Loaded = walk
  BY DEF Loaded, walk, g, entries
<1> QED
  BY <1>3, <1>5, <1>6, <1>7 DEF BasesFirst, reached, g, entries

(* BasesFirst: the walk accepts exactly the extends graphs without a cycle or
   an unreadable file, and then loads each reached document behind all it
   extends, for any number of files and documents, however they extend each
   other (loadChain). *)
THEOREM PolicyBasesFirst == PolicySpec => []BasesFirst
BY PolicyStates, BasesComeFirst, PTL

-----------------------------------------------------------------------------
(* The layers that apply. *)

ApplyStart(files) == <<>>
ApplyStep(files, applied, f) == ApplyDocument(files, applied, f)

Apply == INSTANCE FoldFacts WITH Step <- ApplyStep, Start <- ApplyStart

LEMMA AppliedIs == Applied = Apply!Folded(policyFiles, Loaded.loaded)
BY DEF Applied, FoldLeft, MapThenFoldSet, Max, Apply!Folded, Apply!Highest, ApplyStep, ApplyStart

(* The layers of the first k documents loaded. *)
AppliedOf(k) == Apply!Folded(policyFiles, SubSeq(Loaded.loaded, 1, k))

LEMMA AppliedAreDocuments == ASSUME PolicyState PROVE Applied \in Seq(Documents)
<1> DEFINE l == Loaded.loaded
           D == DOMAIN PolicyGraph.extends
           S == {k \in 0 .. Len(l) : AppliedOf(k) \in Seq(Documents)}
<1>1. l \in Seq(D) /\ \A f \in D : policyFiles[f] \in Documents
  <2>1. /\ WalkGraph(PolicyGraph, EntryFiles, PolicyFiles) /\ PolicyGraph.strict
        /\ D = {f \in PolicyFiles : policyFiles[f] \in Documents}
    BY PolicyGraphIs
  <2>2. Walk(PolicyGraph, EntryFiles).loaded \in Seq(DOMAIN PolicyGraph.extends)
    BY <2>1, WalkIsRight
  <2> QED
    BY <2>1, <2>2 DEF Loaded
<1>2. /\ AppliedOf(0) = <<>>
      /\ \A k \in 0 .. (Len(l) - 1) : AppliedOf(k + 1) = ApplyDocument(policyFiles, AppliedOf(k), l[k + 1])
      /\ SubSeq(l, 1, Len(l)) = l
  <2> HIDE DEF l, D
  <2>1. /\ Apply!Folded(policyFiles, SubSeq(l, 1, 0)) = ApplyStart(policyFiles)
        /\ \A k \in 0 .. (Len(l) - 1) :
             Apply!Folded(policyFiles, SubSeq(l, 1, k + 1))
               = ApplyStep(policyFiles, Apply!Folded(policyFiles, SubSeq(l, 1, k)), l[k + 1])
        /\ SubSeq(l, 1, Len(l)) = l
    BY <1>1, Apply!FoldedBeginnings
  <2> QED
    BY <2>1 DEF ApplyStep, ApplyStart, AppliedOf, l
<1> HIDE DEF l, D
<1>3. Len(l) \in Nat
  BY <1>1
<1>4. 0 \in S
  <2>1. AppliedOf(0) \in Seq(Documents)
    <3>1. <<>> \in Seq(Documents)
      OBVIOUS
    <3>2. AppliedOf(0) = <<>>
      BY <1>2
    <3> QED
      BY <3>1, <3>2
  <2>2. 0 \in 0 .. Len(l)
    BY <1>3
  <2> QED
    BY <2>1, <2>2
<1>5. ASSUME NEW k \in Nat, k < Len(l), k \in S PROVE k + 1 \in S
  <2>1. l[k + 1] \in D /\ k \in 0 .. (Len(l) - 1) /\ k + 1 \in 0 .. Len(l)
    BY <1>1, <1>3, <1>5
  <2>2. policyFiles[l[k + 1]] \in Documents /\ AppliedOf(k) \in Seq(Documents)
    BY <1>1, <1>5, <2>1
  <2>3. AppliedOf(k + 1) \in Seq(Documents)
    <3> DEFINE d == policyFiles[l[k + 1]]
               x == AppliedOf(k)
    <3>1. AppliedOf(k + 1) = IF d.named THEN x ELSE Append(x, d)
      BY <1>2, <2>1 DEF ApplyDocument
    <3>2. d \in Documents /\ x \in Seq(Documents)
      BY <2>2
    <3> HIDE DEF d, x
    <3>3. Append(x, d) \in Seq(Documents)
      BY <3>2
    <3> QED
      BY <3>1, <3>2, <3>3
  <2> QED
    BY <2>1, <2>3
<1>6. \A k \in 0 .. Len(l) : k \in S
  <2> HIDE DEF S
  <2> QED
    BY <1>3, <1>4, <1>5, Apply!CountingUp
<1>7. AppliedOf(Len(l)) \in Seq(Documents)
  BY <1>3, <1>6
<1> QED
  BY <1>2, <1>7, AppliedIs DEF AppliedOf, l

-----------------------------------------------------------------------------
(* The layers, merged one by one. *)

MergeStart(w) == EmptyPolicy
MergeStep(w, base, layer) == MergeDocuments(base, layer)

Merge == INSTANCE FoldFacts WITH Step <- MergeStep, Start <- MergeStart

LEMMA MergedIs == ASSUME NEW layers PROVE Merged(layers) = Merge!Folded(0, layers)
BY DEF Merged, FoldLeft, MapThenFoldSet, Max, Merge!Folded, Merge!Highest, MergeStep, MergeStart

(* The policy after the first k layers. *)
After(k) == Merged(SubSeq(Applied, 1, k))

LEMMA AfterLayers ==
  ASSUME PolicyState
  PROVE  /\ After(0) = EmptyPolicy
         /\ \A k \in 0 .. (Len(Applied) - 1) : After(k + 1) = MergeDocuments(After(k), Applied[k + 1])
         /\ After(Len(Applied)) = Merged(Applied)
<1>1. Applied \in Seq(Documents)
  BY AppliedAreDocuments
<1>2. /\ Merge!Folded(0, SubSeq(Applied, 1, 0)) = MergeStart(0)
      /\ \A k \in 0 .. (Len(Applied) - 1) :
           Merge!Folded(0, SubSeq(Applied, 1, k + 1))
             = MergeStep(0, Merge!Folded(0, SubSeq(Applied, 1, k)), Applied[k + 1])
      /\ SubSeq(Applied, 1, Len(Applied)) = Applied
  BY <1>1, Merge!FoldedBeginnings
<1> QED
  BY <1>2, MergedIs DEF After, MergeStep, MergeStart

(* A rule table, and what may become of one when a layer is added. *)
RuleTable(t) == DOMAIN t \subseteq RuleIds /\ \A r \in DOMAIN t : t[r] \in RuleEntries

KeepsLocked(then, now) ==
  \A r \in DOMAIN then : then[r].locked =>
    /\ r \in DOMAIN now /\ now[r].locked
    /\ then[r].severity # Unset => now[r].severity # Unset /\ Rank(now[r].severity) >= Rank(then[r].severity)
    /\ then[r].enabled # "no" => now[r].enabled # "no"

LEMMA Ranks ==
  /\ \A s \in Severities : Rank(s) \in Nat /\ s # Unset
  /\ \A e \in RuleEntries : /\ e.severity \in Severities \cup {Unset} /\ e.enabled \in {Unset, "yes", "no"}
                            /\ e.locked \in BOOLEAN
BY DEF Severities, Rank, Unset, RuleEntries

LEMMA MergedRules ==
  ASSUME NEW base, RuleTable(base), NEW layer, RuleTable(layer), ~Conflicts(base, layer)
  PROVE  RuleTable(MergeRules(base, layer)) /\ KeepsLocked(base, MergeRules(base, layer))
<1> DEFINE m == MergeRules(base, layer)
<1>1. DOMAIN m = DOMAIN base \cup DOMAIN layer
  BY DEF MergeRules
<1>2. \A r \in DOMAIN m : m[r] = IF r \notin DOMAIN layer THEN base[r]
                                ELSE IF r \notin DOMAIN base THEN layer[r]
                                ELSE OverlayRule(base[r], layer[r])
  BY DEF MergeRules
<1> HIDE DEF m
<1>3. ASSUME NEW x \in RuleEntries, NEW y \in RuleEntries PROVE OverlayRule(x, y) \in RuleEntries
  <2>1. x.locked \in BOOLEAN /\ y.locked \in BOOLEAN
    BY Ranks
  <2>2. (x.locked \/ y.locked) \in BOOLEAN
    BY <2>1
  <2> QED
    BY <2>2, Ranks DEF OverlayRule, RuleEntries
<1>4. RuleTable(m)
  BY <1>1, <1>2, <1>3 DEF RuleTable
<1>5. ASSUME NEW r \in DOMAIN base, base[r].locked
      PROVE  /\ r \in DOMAIN m /\ m[r].locked
             /\ base[r].severity # Unset => m[r].severity # Unset /\ Rank(m[r].severity) >= Rank(base[r].severity)
             /\ base[r].enabled # "no" => m[r].enabled # "no"
  <2>1. base[r] \in RuleEntries /\ (base[r].severity # Unset => Rank(base[r].severity) \in Nat)
    BY Ranks DEF RuleTable
  <2>2. CASE r \notin DOMAIN layer
    BY <1>1, <1>2, <1>5, <2>1, <2>2
  <2>3. CASE r \in DOMAIN layer
    <3> DEFINE x == base[r]
               y == layer[r]
    <3>1. m[r] = OverlayRule(x, y) /\ y \in RuleEntries /\ ~Weakens(x, y)
      BY <1>1, <1>2, <1>5, <2>3 DEF RuleTable, Conflicts
    <3>2. y.severity # Unset => Rank(y.severity) \in Nat
      BY <3>1, Ranks
    <3>3. y.enabled # "no" /\ (y.severity # Unset /\ x.severity # Unset => Rank(y.severity) >= Rank(x.severity))
      BY <2>1, <3>1, <3>2 DEF Weakens
    <3>4. /\ m[r].locked = (x.locked \/ y.locked)
          /\ m[r].severity = IF y.severity = Unset THEN x.severity ELSE y.severity
          /\ m[r].enabled = IF y.enabled = Unset THEN x.enabled ELSE y.enabled
      BY <3>1 DEF OverlayRule
    <3>5. x.locked
      BY <1>5
    <3>6. m[r].locked
      BY <3>4, <3>5
    <3>7. r \in DOMAIN m
      BY <1>1
    <3>8. x.severity # Unset => Rank(x.severity) \in Nat
      BY <2>1
    <3> HIDE DEF x, y
    <3>9. x.severity # Unset => m[r].severity # Unset /\ Rank(m[r].severity) >= Rank(x.severity)
      BY <3>3, <3>4, <3>8
    <3>10. x.enabled # "no" => m[r].enabled # "no"
      BY <3>3, <3>4
    <3> QED
      BY <3>6, <3>7, <3>9, <3>10 DEF x
  <2> QED
    BY <2>2, <2>3
<1> QED
  BY <1>4, <1>5 DEF m, KeepsLocked

LEMMA KeepsLockedTransitive ==
  ASSUME NEW x, RuleTable(x), NEW y, RuleTable(y), NEW z, RuleTable(z), KeepsLocked(x, y), KeepsLocked(y, z)
  PROVE  KeepsLocked(x, z)
<1> SUFFICES ASSUME NEW r \in DOMAIN x, x[r].locked
             PROVE  /\ r \in DOMAIN z /\ z[r].locked
                    /\ x[r].severity # Unset =>
                         z[r].severity # Unset /\ Rank(z[r].severity) >= Rank(x[r].severity)
                    /\ x[r].enabled # "no" => z[r].enabled # "no"
  BY DEF KeepsLocked
<1>1. r \in DOMAIN y /\ y[r].locked
  BY DEF KeepsLocked
<1>2. r \in DOMAIN z /\ z[r].locked
  BY <1>1 DEF KeepsLocked
<1>3. /\ x[r].severity # Unset => Rank(x[r].severity) \in Nat
      /\ y[r].severity # Unset => Rank(y[r].severity) \in Nat
      /\ z[r].severity # Unset => Rank(z[r].severity) \in Nat
  BY <1>1, <1>2, Ranks DEF RuleTable
<1>4. x[r].severity # Unset => y[r].severity # Unset /\ Rank(y[r].severity) >= Rank(x[r].severity)
  BY DEF KeepsLocked
<1>5. y[r].severity # Unset => z[r].severity # Unset /\ Rank(z[r].severity) >= Rank(y[r].severity)
  BY <1>1 DEF KeepsLocked
<1>6. x[r].enabled # "no" => z[r].enabled # "no"
  BY <1>1 DEF KeepsLocked
<1> QED
  BY <1>2, <1>3, <1>4, <1>5, <1>6

(* After any number of layers there is a rule table, and no error only when
   there was none before. *)
PolicyOk(p) ==
  /\ p = [rules |-> p.rules, threshold |-> p.threshold, suppressions |-> p.suppressions,
          forbidden |-> p.forbidden, error |-> p.error]
  /\ RuleTable(p.rules) /\ p.error \in {"none", "POL-LOCKED-CONFLICT"}

LEMMA OneLayerMore ==
  ASSUME NEW p, PolicyOk(p), NEW d \in Documents
  PROVE  /\ PolicyOk(MergeDocuments(p, d))
         /\ MergeDocuments(p, d).error = "none" =>
              p.error = "none" /\ KeepsLocked(p.rules, MergeDocuments(p, d).rules)
<1>1. RuleTable(d.rules)
  BY PolicyAssumption DEF IsDocument, RuleTable
<1> DEFINE q == MergeDocuments(p, d)
<1>2. CASE p.error # "none"
  BY <1>2 DEF MergeDocuments, PolicyOk
<1>3. CASE p.error = "none" /\ Conflicts(p.rules, d.rules)
  <2>1. q = [p EXCEPT !.error = "POL-LOCKED-CONFLICT"]
    BY <1>3 DEF MergeDocuments
  <2> HIDE DEF q
  <2>2. q = [rules |-> p.rules, threshold |-> p.threshold, suppressions |-> p.suppressions,
             forbidden |-> p.forbidden, error |-> "POL-LOCKED-CONFLICT"]
    BY <2>1 DEF PolicyOk
  <2>3. q.rules = p.rules /\ q.error = "POL-LOCKED-CONFLICT"
    BY <2>2
  <2>4. q = [rules |-> q.rules, threshold |-> q.threshold, suppressions |-> q.suppressions,
             forbidden |-> q.forbidden, error |-> q.error]
    BY <2>2
  <2>5. PolicyOk(q)
    BY <2>3, <2>4 DEF PolicyOk
  <2> QED
    BY <2>3, <2>5 DEF q
<1>4. CASE p.error = "none" /\ ~Conflicts(p.rules, d.rules)
  <2>1. /\ q.rules = MergeRules(p.rules, d.rules) /\ q.error = "none"
        /\ q = [rules |-> q.rules, threshold |-> q.threshold, suppressions |-> q.suppressions,
                forbidden |-> q.forbidden, error |-> q.error]
    BY <1>4 DEF MergeDocuments
  <2>2. RuleTable(q.rules) /\ KeepsLocked(p.rules, q.rules)
    BY <1>1, <1>4, <2>1, MergedRules DEF PolicyOk
  <2> QED
    BY <1>4, <2>1, <2>2 DEF PolicyOk
<1> QED
  BY <1>2, <1>3, <1>4

LEMMA KeepsLockedReflexive ==
  ASSUME NEW x, RuleTable(x)
  PROVE  KeepsLocked(x, x)
<1> SUFFICES ASSUME NEW r \in DOMAIN x, x[r].severity # Unset
             PROVE  Rank(x[r].severity) >= Rank(x[r].severity)
  BY DEF KeepsLocked
<1>1. Rank(x[r].severity) \in Nat
  BY Ranks DEF RuleTable
<1> QED
  BY <1>1

LEMMA LayersKeepLocked ==
  ASSUME PolicyState
  PROVE  \A j \in 0 .. Len(Applied) : \A k \in 0 .. j :
           /\ PolicyOk(After(k)) /\ PolicyOk(After(j))
           /\ After(j).error = "none" => KeepsLocked(After(k).rules, After(j).rules)
<1> DEFINE n == Len(Applied)
           Good(j) == \A k \in 0 .. j :
                        /\ PolicyOk(After(k)) /\ PolicyOk(After(j))
                        /\ After(j).error = "none" => KeepsLocked(After(k).rules, After(j).rules)
           S == {j \in 0 .. n : Good(j)}
<1>1. Applied \in Seq(Documents) /\ n \in Nat /\ \A k \in 0 .. (n - 1) : Applied[k + 1] \in Documents
  <2>1. Applied \in Seq(Documents)
    BY AppliedAreDocuments
  <2> QED
    BY <2>1
<1>2. PolicyOk(After(0))
  <2>1. After(0) = EmptyPolicy
    BY AfterLayers
  <2>2. RuleTable(EmptyPolicy.rules)
    BY DEF RuleTable, EmptyPolicy
  <2>3. EmptyPolicy.error = "none"
    BY DEF EmptyPolicy
  <2>4. EmptyPolicy = [rules |-> EmptyPolicy.rules, threshold |-> EmptyPolicy.threshold,
                       suppressions |-> EmptyPolicy.suppressions, forbidden |-> EmptyPolicy.forbidden,
                       error |-> EmptyPolicy.error]
    BY DEF EmptyPolicy
  <2> QED
    BY <2>1, <2>2, <2>3, <2>4 DEF PolicyOk
<1>3. 0 \in S
  <2>1. \A k \in 0 .. 0 : k = 0
    OBVIOUS
  <2>2. KeepsLocked(After(0).rules, After(0).rules)
    BY <1>2, KeepsLockedReflexive DEF PolicyOk
  <2>3. Good(0)
    BY <1>2, <2>1, <2>2
  <2>4. 0 \in 0 .. n
    BY <1>1
  <2> QED
    BY <2>3, <2>4
<1>4. ASSUME NEW j \in Nat, j < n, j \in S PROVE j + 1 \in S
  <2>1. j \in 0 .. (n - 1) /\ j + 1 \in 0 .. n /\ j \in 0 .. j
    BY <1>1, <1>4
  <2>2. Applied[j + 1] \in Documents /\ PolicyOk(After(j))
    BY <1>1, <1>4, <2>1
  <2>3. After(j + 1) = MergeDocuments(After(j), Applied[j + 1])
    BY <2>1, AfterLayers
  <2>4. /\ PolicyOk(After(j + 1))
        /\ After(j + 1).error = "none" =>
             After(j).error = "none" /\ KeepsLocked(After(j).rules, After(j + 1).rules)
    BY <2>2, <2>3, OneLayerMore
  <2>5. ASSUME NEW k \in 0 .. (j + 1)
        PROVE  /\ PolicyOk(After(k))
               /\ After(j + 1).error = "none" => KeepsLocked(After(k).rules, After(j + 1).rules)
    <3>1. CASE k = j + 1
      BY <2>4, <3>1, KeepsLockedReflexive DEF PolicyOk
    <3>2. CASE k \in 0 .. j
      <4>1. PolicyOk(After(k)) /\ (After(j).error = "none" => KeepsLocked(After(k).rules, After(j).rules))
        BY <1>4, <3>2
      <4> QED
        BY <2>2, <2>4, <4>1, KeepsLockedTransitive DEF PolicyOk
    <3> QED
      BY <3>1, <3>2
  <2>6. Good(j + 1)
    BY <2>4, <2>5
  <2> QED
    BY <2>1, <2>6
<1>5. \A j \in 0 .. n : j \in S
  <2> HIDE DEF S, n
  <2> QED
    BY <1>1, <1>3, <1>4, Merge!CountingUp
<1> QED
  BY <1>5

(* What the resolution is when there is no error. *)
LEMMA ResolvedIs ==
  ASSUME Resolved.error = "none"
  PROVE  Resolved = Merged(Applied)
<1>1. [EmptyPolicy EXCEPT !.error = "POL-CHAIN"].error = "POL-CHAIN"
  BY DEF EmptyPolicy
<1> QED
  BY <1>1 DEF Resolved

LEMMA LockedRulesAreKept == ASSUME PolicyState PROVE LockedRulesHold
<1> SUFFICES ASSUME Resolved.error = "none", NEW k \in DOMAIN Applied,
                    NEW r \in DOMAIN After(k).rules, After(k).rules[r].locked
             PROVE  LET then == After(k).rules
                        final == Resolved.rules
                    IN  /\ r \in DOMAIN final /\ final[r].locked
                        /\ then[r].severity # Unset => Rank(final[r].severity) >= Rank(then[r].severity)
                        /\ then[r].enabled # "no" => final[r].enabled # "no"
  BY DEF LockedRulesHold, After
<1>1. Applied \in Seq(Documents)
  BY AppliedAreDocuments
<1> DEFINE n == Len(Applied)
<1>2. k \in 0 .. n /\ n \in 0 .. n
  BY <1>1
<1>3. Resolved = After(n)
  BY AfterLayers, ResolvedIs
<1> HIDE DEF n
<1>4. KeepsLocked(After(k).rules, After(n).rules)
  BY <1>2, <1>3, LayersKeepLocked DEF n
<1> QED
  BY <1>3, <1>4 DEF KeepsLocked

(* LockedRulesHold, for any number of layers and rules (mergeRules). *)
THEOREM PolicyLockedRulesHold == PolicySpec => []LockedRulesHold
BY PolicyStates, LockedRulesAreKept, PTL

-----------------------------------------------------------------------------
(* Suppressions and their scopes. *)

(* What the first k layers suppress everywhere, one without scopes does. *)
Everywhere(k) ==
  \A s \in After(k).suppressions :
    \E i \in DOMAIN Applied : Applied[i].scopes = {} /\ s \in Applied[i].suppressions

LEMMA ScopesAreKept == ASSUME PolicyState PROVE ScopesConfine
<1> DEFINE n == Len(Applied)
           S == {j \in 0 .. n : Everywhere(j)}
<1>1. Applied \in Seq(Documents)
  BY AppliedAreDocuments
<1>2. n \in Nat /\ DOMAIN Applied = 1 .. n
  BY <1>1
<1>3. 0 \in S
  <2>1. After(0).suppressions = {}
    BY AfterLayers DEF EmptyPolicy
  <2>2. 0 \in 0 .. n
    BY <1>2
  <2> QED
    BY <2>1, <2>2 DEF Everywhere
<1>4. ASSUME NEW j \in Nat, j < n, j \in S PROVE j + 1 \in S
  <2>1. j \in 0 .. (n - 1) /\ j + 1 \in 0 .. n /\ j + 1 \in DOMAIN Applied /\ j \in 0 .. n /\ 0 \in 0 .. j
    BY <1>2, <1>4
  <2> DEFINE p == After(j)
             d == Applied[j + 1]
             q == After(j + 1)
  <2>2. q = MergeDocuments(p, d)
    BY <2>1, AfterLayers
  <2>3. PolicyOk(p)
    BY <2>1, LayersKeepLocked
  <2> HIDE DEF p, q
  <2>4. \A s \in q.suppressions : s \in p.suppressions \/ (d.scopes = {} /\ s \in d.suppressions)
    <3>1. CASE p.error # "none"
      BY <2>2, <3>1 DEF MergeDocuments
    <3>2. CASE p.error = "none" /\ Conflicts(p.rules, d.rules)
      <4>1. q = [p EXCEPT !.error = "POL-LOCKED-CONFLICT"]
        BY <2>2, <3>2 DEF MergeDocuments
      <4>2. q.suppressions = p.suppressions
        BY <2>3, <4>1 DEF PolicyOk
      <4> QED
        BY <4>2
    <3>3. CASE p.error = "none" /\ ~Conflicts(p.rules, d.rules)
      <4>1. q.suppressions = IF d.scopes # {} THEN p.suppressions
                             ELSE d.suppressions \cup
                                    {s \in p.suppressions :
                                       \A t \in d.suppressions : t.rule # s.rule \/ t.paths # s.paths}
        BY <2>2, <3>3 DEF MergeDocuments
      <4> QED
        BY <4>1
    <3> QED
      BY <3>1, <3>2, <3>3
  <2>5. Everywhere(j + 1)
    BY <1>4, <2>1, <2>4 DEF Everywhere, p, q
  <2> QED
    BY <2>1, <2>5
<1>5. \A j \in 0 .. n : j \in S
  <2> HIDE DEF S, n
  <2> QED
    BY <1>2, <1>3, <1>4, Merge!CountingUp
<1>6. Everywhere(n)
  BY <1>2, <1>5
<1>7. ASSUME Resolved.error = "none", NEW r, NEW p, PolicySuppressed(Resolved, Applied, r, p)
      PROVE  \E i \in DOMAIN Applied :
               /\ Applied[i].scopes = {} \/ p \in Applied[i].scopes
               /\ \E s \in Applied[i].suppressions : Suppresses(s, r, p)
  <2>1. Resolved = After(n)
    BY <1>7, AfterLayers, ResolvedIs
  <2>2. ASSUME NEW s \in Resolved.suppressions, Suppresses(s, r, p)
        PROVE  \E i \in DOMAIN Applied : Applied[i].scopes = {} /\ s \in Applied[i].suppressions
    BY <1>6, <2>1, <2>2 DEF Everywhere
  <2> QED
    BY <1>7, <2>2 DEF PolicySuppressed
<1> QED
  BY <1>7 DEF ScopesConfine

(* ScopesConfine, for any number of layers, rules and paths (mergeDocuments,
   applyPolicyToFindings). *)
THEOREM PolicyScopesConfine == PolicySpec => []ScopesConfine
BY PolicyStates, ScopesAreKept, PTL

-----------------------------------------------------------------------------
(* Reviews. *)

LEMMA ReviewsTighten == ASSUME PolicyState PROVE ReviewOnlyTightens
<1>1. Applied \in Seq(Documents)
  BY AppliedAreDocuments
<1> SUFFICES ASSUME NEW k \in 0 .. Len(Applied), NEW findings \in SUBSET ReviewFindings,
                    PassesReview(findings, Review(Applied))
             PROVE  PassesReview(findings, Review(SubSeq(Applied, 1, k)))
  BY DEF ReviewOnlyTightens
<1> DEFINE a == Applied
           b == SubSeq(Applied, 1, k)
<1>2. \A i \in DOMAIN b : i \in DOMAIN a /\ b[i] = a[i]
  BY <1>1
<1> HIDE DEF a, b
<1>3. Review(b).required \subseteq Review(a).required /\ Review(b).blocking \subseteq Review(a).blocking
  BY <1>2 DEF Review
<1>4. PassesReview(findings, Review(a))
  BY DEF a
<1>5. PassesReview(findings, Review(b))
  BY <1>3, <1>4 DEF PassesReview
<1> QED
  BY <1>5 DEF b

(* ReviewOnlyTightens, for any number of layers and findings (resolveReview,
   checkVerdictAgainstReview). *)
THEOREM PolicyReviewTightens == PolicySpec => []ReviewOnlyTightens
BY PolicyStates, ReviewsTighten, PTL

-----------------------------------------------------------------------------
(* Boundaries. *)

TierStart(w) == Unset
TierStep(w, decision, layer) == NextDecision(decision, layer)

Tiers == INSTANCE FoldFacts WITH Step <- TierStep, Start <- TierStart

LEMMA TierDecisionIs ==
  ASSUME NEW layers
  PROVE  TierDecision(layers) = Tiers!Folded(0, TierLayers(layers))
BY DEF TierDecision, FoldLeft, MapThenFoldSet, Max, Tiers!Folded, Tiers!Highest, TierStep, TierStart

LEMMA DenyIsFinal ==
  ASSUME NEW layers \in Seq(Documents), "deny" \in ToSet(TierLayers(layers))
  PROVE  TierDecision(layers) = "deny"
<1> DEFINE l == TierLayers(layers)
           n == Len(l)
           T == {l[i] : i \in 1 .. n}
<1>1. l \in Seq(T) /\ n \in Nat /\ DOMAIN l = 1 .. n
  <2> DEFINE t == [i \in DOMAIN layers |-> layers[i].tier2]
             U == {layers[i].tier2 : i \in DOMAIN layers} \cup {configuration.tier2}
  <2>1. t \in Seq(U)
    BY DEF U
  <2>2. Append(t, configuration.tier2) \in Seq(U)
    <3> HIDE DEF t
    <3> QED
      BY <2>1
  <2>3. l \in Seq(U)
    BY <2>2 DEF TierLayers
  <2> HIDE DEF l, U
  <2> QED
    BY <2>3
<1> HIDE DEF l
<1>2. PICK m \in 1 .. n : l[m] = "deny"
  BY <1>1 DEF ToSet, l
<1> DEFINE D(k) == Tiers!Folded(0, SubSeq(l, 1, k))
           S == {k \in 0 .. n : k >= m => Tiers!Folded(0, SubSeq(l, 1, k)) = "deny"}
<1>3. /\ \A k \in 0 .. (n - 1) :
             Tiers!Folded(0, SubSeq(l, 1, k + 1))
               = NextDecision(Tiers!Folded(0, SubSeq(l, 1, k)), l[k + 1])
      /\ SubSeq(l, 1, n) = l
  <2>1. /\ \A k \in 0 .. (Len(l) - 1) :
             Tiers!Folded(0, SubSeq(l, 1, k + 1))
               = TierStep(0, Tiers!Folded(0, SubSeq(l, 1, k)), l[k + 1])
        /\ SubSeq(l, 1, Len(l)) = l
    <3> HIDE DEF T, n
    <3> QED
      BY <1>1, Tiers!FoldedBeginnings
  <2> QED
    BY <2>1 DEF TierStep
<1>4. 0 \in S
  BY <1>1
<1>5. ASSUME NEW k \in Nat, k < n, k \in S PROVE k + 1 \in S
  <2>1. k \in 0 .. (n - 1) /\ k + 1 \in 0 .. n
    BY <1>1, <1>5
  <2>2. Tiers!Folded(0, SubSeq(l, 1, k + 1)) = NextDecision(Tiers!Folded(0, SubSeq(l, 1, k)), l[k + 1])
    BY <1>3, <2>1
  <2>3. CASE k >= m
    BY <1>5, <2>1, <2>2, <2>3 DEF NextDecision
  <2>4. CASE k + 1 = m
    BY <1>2, <2>1, <2>2, <2>4 DEF NextDecision, Unset
  <2>5. CASE k + 1 < m
    BY <2>1, <2>5
  <2> QED
    BY <1>2, <2>3, <2>4, <2>5
<1>6. \A k \in 0 .. n : k \in S
  <2> HIDE DEF S, n
  <2> QED
    BY <1>1, <1>4, <1>5, Tiers!CountingUp
<1>7. Tiers!Folded(0, SubSeq(l, 1, n)) = "deny"
  BY <1>1, <1>6
<1> QED
  BY <1>3, <1>7, TierDecisionIs DEF l

(* DenyWins, for any number of layers (resolveAutonomy, enforceAckitBoundary). *)
THEOREM PolicyDenyWins == PolicySpec => []DenyWins
<1>1. PolicyState => DenyWins
  <2> SUFFICES ASSUME PolicyState, Resolved.error = "none", "deny" \in ToSet(TierLayers(Applied))
               PROVE  BoundaryRefused(TRUE) /\ BoundaryRefused(FALSE)
    BY DEF DenyWins
  <2>1. TierDecision(Applied) = "deny"
    BY AppliedAreDocuments, DenyIsFinal
  <2> QED
    BY <2>1 DEF BoundaryRefused
<1> QED
  BY <1>1, PolicyStates, PTL

-----------------------------------------------------------------------------
(* Rule packs. *)

(* The rules of a pack that report, and those of one file that do. *)
RuleOf(id, c) == EffectivePacks(packEntries)[id].rules[c]
IsReported(repo, id, c) ==
  \E finding \in PackFindings(packEntries, repo) : finding[1] = id /\ finding[2] = c

LEMMA WhatIsReported ==
  ASSUME NEW repo, NEW id \in DOMAIN EffectivePacks(packEntries),
         NEW c \in DOMAIN EffectivePacks(packEntries)[id].rules, RuleOf(id, c).enabled # "no"
  PROVE  IsReported(repo, id, c) <=> Reports(RuleOf(id, c), repo) # {}
<1> DEFINE packs == EffectivePacks(packEntries)
<1> HIDE DEF packs
<1>1. PackFindings(packEntries, repo) =
        UNION {UNION {{<<i, d, p>> : p \in Reports(packs[i].rules[d], repo)} :
                        d \in {e \in DOMAIN packs[i].rules : packs[i].rules[e].enabled # "no"}} :
                 i \in DOMAIN packs}
  BY DEF PackFindings, packs
<1>2. ASSUME NEW p \in Reports(packs[id].rules[c], repo)
      PROVE  <<id, c, p>> \in PackFindings(packEntries, repo)
  BY <1>1 DEF packs, RuleOf
<1>3. ASSUME NEW finding \in PackFindings(packEntries, repo), finding[1] = id, finding[2] = c
      PROVE  Reports(packs[id].rules[c], repo) # {}
  BY <1>1, <1>3
<1> QED
  BY <1>2, <1>3 DEF IsReported, RuleOf, packs

LEMMA OppositeReports ==
  ASSUME NEW repo, NEW present, NEW absent, present.type = "presence", absent.type = "absence",
         present.glob = absent.glob, present.scope = absent.scope
  PROVE  IF present.glob = NoGlob THEN Reports(present, repo) = {} /\ Reports(absent, repo) = {}
         ELSE Reports(present, repo) # {} <=> Reports(absent, repo) = {}
<1>1. Matched(present, repo) = Matched(absent, repo)
  BY DEF Matched
<1>2. Reports(present, repo) = {p \in {"."} : present.glob # NoGlob /\ Matched(present, repo) = {}}
  BY DEF Reports
<1>3. Reports(absent, repo) = {p \in Matched(absent, repo) : absent.glob # NoGlob}
  BY DEF Reports
<1> QED
  BY <1>1, <1>2, <1>3

(* PresenceOrAbsence, for all packs, with and without globs, all repositories
   and all ways the packs may extend each other (evaluateRulePacks). *)
THEOREM PacksPresenceOrAbsence == PacksSpec => []PresenceOrAbsence
<1>1. PresenceOrAbsence
  <2> DEFINE packs == EffectivePacks(packEntries)
  <2>1. ASSUME NEW repo \in Repositories, NEW id \in DOMAIN packs,
               NEW a \in DOMAIN packs[id].rules, NEW b \in DOMAIN packs[id].rules,
               RuleOf(id, a).type = "presence", RuleOf(id, b).type = "absence",
               RuleOf(id, a).glob = RuleOf(id, b).glob, RuleOf(id, a).scope = RuleOf(id, b).scope,
               RuleOf(id, a).enabled # "no", RuleOf(id, b).enabled # "no"
        PROVE  IF RuleOf(id, a).glob = NoGlob
               THEN ~IsReported(repo, id, a) /\ ~IsReported(repo, id, b)
               ELSE IsReported(repo, id, a) <=> ~IsReported(repo, id, b)
    <3>1. IsReported(repo, id, a) <=> Reports(RuleOf(id, a), repo) # {}
      BY <2>1, WhatIsReported
    <3>2. IsReported(repo, id, b) <=> Reports(RuleOf(id, b), repo) # {}
      BY <2>1, WhatIsReported
    <3> QED
      BY <2>1, <3>1, <3>2, OppositeReports
  <2> QED
    BY <2>1 DEF PresenceOrAbsence, RuleOf, IsReported
<1> QED
  BY <1>1, PTL

-----------------------------------------------------------------------------
(* The dependencies of tasks. *)

(* What people may have written. *)
DoctorState ==
  /\ documents = [f \in TaskFiles |-> documents[f]]
  /\ \A f \in TaskFiles : documents[f].kind = "task" =>
       documents[f].id \in Nat /\ documents[f].needs \in Seq(Nat)

LEMMA DoctorStates == DoctorSpec => []DoctorState
<1>1. DoctorInit => DoctorState
  BY DEF DoctorInit, DoctorState, NoDocument
<1>2. DoctorState /\ [DoctorNext]_documents => DoctorState'
  <2> SUFFICES ASSUME DoctorState, [DoctorNext]_documents PROVE DoctorState'
    OBVIOUS
  <2>1. ASSUME NEW f \in TaskFiles, WriteDocument(f) PROVE DoctorState'
    <3>1. PICK d \in TaskDocuments[f] : (d = Torn \/ IsTaskDocument(d)) /\ documents' = [documents EXCEPT ![f] = d]
      BY <2>1 DEF WriteDocument
    <3>2. d.kind = "task" => d.id \in Nat /\ d.needs \in Seq(Nat)
      BY <3>1, DoctorAssumption DEF Torn
    <3>3. documents' = [g \in TaskFiles |-> IF g = f THEN d ELSE documents[g]]
      BY <3>1 DEF DoctorState
    <3>4. \A g \in TaskFiles : documents'[g] = IF g = f THEN d ELSE documents[g]
      BY <3>3
    <3>5. documents' = [g \in TaskFiles |-> documents'[g]]
      BY <3>3
    <3> QED
      BY <3>2, <3>4, <3>5 DEF DoctorState
  <2>2. CASE UNCHANGED documents
    BY <2>2 DEF DoctorState
  <2> QED
    BY <2>1, <2>2 DEF DoctorNext
<1> QED
  BY <1>1, <1>2, PTL DEF DoctorSpec

(* SetToSeq lists each element of a finite set. *)
LEMMA ListedOnce ==
  ASSUME NEW S, IsFiniteSet(S)
  PROVE  SetToSeq(S) \in Seq(S) /\ ToSet(SetToSeq(S)) = S
<1> DEFINE n == Cardinality(S)
           l == SetToSeq(S)
<1>1. n \in Nat
  BY FS_CardinalityType
<1>2. \E f \in [1 .. n -> S] : IsInjective(f)
  <2>1. ExistsBijection(1 .. n, S)
    BY FS_CardinalityType
  <2> HIDE DEF n
  <2>2. PICK f \in Bijection(1 .. n, S) : TRUE
    BY <2>1 DEF ExistsBijection
  <2>3. f \in [1 .. n -> S] /\ \A a, b \in 1 .. n : f[a] = f[b] => a = b
    BY DEF Bijection, Injection, IsInjective
  <2> QED
    BY <2>3 DEF IsInjective
<1>3. l \in [1 .. n -> S] /\ IsInjective(l)
  BY <1>2 DEF SetToSeq
<1>4. l \in Injection(1 .. n, S)
  BY <1>3 DEF Injection
<1>5. Cardinality(1 .. n) = Cardinality(S)
  <2> HIDE DEF n
  <2>1. Cardinality(1 .. n) = n
    BY <1>1, FS_Interval
  <2> QED
    BY <2>1 DEF n
<1> HIDE DEF n, l
<1>6. l \in Surjection(1 .. n, S)
  BY <1>4, <1>5, FS_Injection
<1>7. l \in Seq(S) /\ DOMAIN l = 1 .. n
  BY <1>1, <1>3
<1>8. \A x \in S : \E i \in 1 .. n : l[i] = x
  BY <1>6 DEF Surjection
<1> QED
  BY <1>3, <1>7, <1>8 DEF ToSet, l

TaskIds == {IdIn(f) : f \in ListedFiles}

LEMMA ListedFinite ==
  /\ IsFiniteSet(ListedFiles) /\ IsFiniteSet(TaskIds)
  /\ Cardinality(ListedFiles) \in Nat /\ Cardinality(TaskIds) \in Nat
<1>1. IsFiniteSet(ListedFiles)
  <2>1. ListedFiles \in SUBSET TaskFiles
    BY DEF ListedFiles
  <2> QED
    BY <2>1, DoctorAssumption, FS_Subset
<1>2. IsFiniteSet(TaskIds)
  <2> DEFINE f == [x \in ListedFiles |-> IdIn(x)]
  <2>1. f \in Surjection(ListedFiles, TaskIds)
    BY DEF TaskIds, Surjection
  <2> QED
    BY <1>1, <2>1, FS_Surjection
<1> QED
  BY <1>1, <1>2, FS_CardinalityType

(* Where the doctor finds no task twice, each id is in one document. *)
NoDuplicates == ~(Cardinality(DOMAIN ById) < Cardinality(ListedFiles))

LEMMA NoDuplicateFound == ASSUME "duplicateId" \notin Doctor PROVE NoDuplicates
<1>1. NoDuplicates \/ "duplicateId" \in Doctor
  BY Zenon DEF Doctor, NoDuplicates
<1> QED
  BY <1>1, Zenon

LEMMA CircleIsFound == (FindsCycle => "cycle" \in Doctor) /\ (~FindsCycle => "cycle" \notin Doctor)
<1> DEFINE Circle == {p \in {"cycle"} : FindsCycle}
           NotParsed == {p \in {"unparsable"} : UnparsableDocuments}
           Twice == {p \in {"duplicateId"} : Cardinality(DOMAIN ById) < Cardinality(ListedFiles)}
           Each == UNION {DocumentProblems(documents[f]) : f \in ListedFiles}
           Several == {p \in {"severalActive"} :
                         Cardinality({f \in ListedFiles : documents[f].status = "active"}) > 1}
<1>1. Doctor = NotParsed \cup Twice \cup Each \cup Several \cup Circle
  BY DEF Doctor
<1>2. "cycle" \notin NotParsed /\ "cycle" \notin Twice /\ "cycle" \notin Several
  BY Zenon
<1>3. "cycle" \notin Each
  <2>1. ASSUME NEW d PROVE "cycle" \notin DocumentProblems(d)
    BY Zenon DEF DocumentProblems
  <2> QED
    BY <2>1, Zenon
<1>4. "cycle" \in Circle <=> FindsCycle
  BY Zenon
<1> HIDE DEF Circle, NotParsed, Twice, Each, Several
<1> QED
  BY <1>1, <1>2, <1>3, <1>4, Zenon

LEMMA OneDocumentEach ==
  ASSUME NoDuplicates
  PROVE  /\ Cardinality(TaskIds) = Cardinality(ListedFiles)
         /\ \A f, g \in ListedFiles : IdIn(f) = IdIn(g) => f = g
<1> DEFINE m == [x \in ListedFiles |-> IdIn(x)]
<1>1. DOMAIN ById = TaskIds
  BY DEF ById, TaskIds
<1>2. ~(Cardinality(TaskIds) < Cardinality(ListedFiles))
  BY <1>1 DEF NoDuplicates
<1>3. m \in Surjection(ListedFiles, TaskIds)
  BY DEF TaskIds, Surjection
<1>4. Cardinality(TaskIds) <= Cardinality(ListedFiles)
  BY <1>3, ListedFinite, FS_Surjection
<1>5. Cardinality(TaskIds) = Cardinality(ListedFiles)
  <2> DEFINE a == Cardinality(TaskIds)
             b == Cardinality(ListedFiles)
  <2>1. a \in Nat /\ b \in Nat /\ ~(a < b) /\ a <= b
    BY <1>2, <1>4, ListedFinite
  <2> HIDE DEF a, b
  <2>2. a = b
    BY <2>1
  <2> QED
    BY <2>2 DEF a, b
<1>6. m \in Injection(ListedFiles, TaskIds)
  BY <1>3, <1>5, ListedFinite, FS_Surjection
<1>7. \A f, g \in ListedFiles : m[f] = m[g] => f = g
  BY <1>6 DEF Injection, IsInjective
<1> QED
  BY <1>5, <1>7

(* What a search follows that finds nothing but circles: the dependencies as
   the documents have them. *)
LEMMA SearchGraphIs ==
  ASSUME DoctorState, Doctor \subseteq {"cycle"}
  PROVE  /\ DOMAIN ById = TaskIds
         /\ \A f \in ListedFiles : /\ ToSet(documents[f].needs) \subseteq TaskIds
                                   /\ SearchGraph.extends[IdIn(f)] = documents[f].needs
         /\ DOMAIN SearchGraph.extends = TaskIds /\ SearchGraph.strict
         /\ WalkGraph(SearchGraph, SetToSeq(TaskIds), TaskIds)
<1>1. DOMAIN ById = TaskIds
  BY DEF ById, TaskIds
<1>2. ASSUME NEW f \in ListedFiles PROVE ToSet(documents[f].needs) \subseteq TaskIds
  <2> SUFFICES ASSUME NEW id \in ToSet(documents[f].needs), id \notin DOMAIN ById PROVE FALSE
    BY <1>1
  <2>1. "unknownDependency" \in DocumentProblems(documents[f])
    BY DEF DocumentProblems
  <2>2. "unknownDependency" \in Doctor
    BY <2>1 DEF Doctor
  <2> QED
    BY <2>2
<1>3. ASSUME NEW f \in ListedFiles PROVE Needs(IdIn(f)) = documents[f].needs
  <2> DEFINE id == IdIn(f)
  <2>1. \A x \in ListedFiles : IdIn(x) = id => x = f
    <3>1. NoDuplicates
      BY NoDuplicateFound
    <3> QED
      BY <3>1, OneDocumentEach
  <2>2. id \in DOMAIN ById /\ id \in TaskIds
    BY <1>1 DEF TaskIds
  <2>3. ~Earlier(f, f)
    BY DEF Earlier, DoctorState, ListedFiles, IdIn, DoctorAssumption
  <2>4. \A g \in ListedFiles : IdIn(g) = id => ~Earlier(f, g)
    BY <2>1, <2>3
  <2>5. ById[id] \in ListedFiles /\ IdIn(ById[id]) = id
    <3>1. ById[id] = CHOOSE x \in ListedFiles :
                       IdIn(x) = id /\ \A g \in ListedFiles : IdIn(g) = id => ~Earlier(x, g)
      BY <1>1, <2>2 DEF ById
    <3> QED
      BY <2>4, <3>1
  <2> QED
    BY <2>1, <2>2, <2>5 DEF Needs
<1>4. DOMAIN SearchGraph.extends = TaskIds /\ SearchGraph.strict
      /\ \A id \in TaskIds : SearchGraph.extends[id] = Needs(id)
  <2>1. UNION {ToSet(Needs(x)) : x \in DOMAIN ById} \subseteq TaskIds
    BY <1>1, <1>2, <1>3 DEF TaskIds
  <2> QED
    BY <1>1, <2>1 DEF SearchGraph
<1>5. \A f \in ListedFiles : SearchGraph.extends[IdIn(f)] = documents[f].needs
  BY <1>3, <1>4 DEF TaskIds
<1>6. ASSUME NEW f \in ListedFiles PROVE documents[f].needs \in Seq(TaskIds)
  <2> DEFINE n == documents[f].needs
  <2>1. n \in Seq(Nat)
    BY DEF DoctorState, ListedFiles
  <2>2. \A i \in DOMAIN n : n[i] \in TaskIds
    BY <1>2 DEF ToSet
  <2> HIDE DEF n
  <2>3. n \in Seq(TaskIds)
    BY <2>1, <2>2
  <2> QED
    BY <2>3 DEF n
<1>7. \A id \in TaskIds : SearchGraph.extends[id] \in Seq(TaskIds)
  BY <1>5, <1>6 DEF TaskIds
<1>8. SetToSeq(TaskIds) \in Seq(TaskIds)
  BY ListedFinite, ListedOnce
<1> QED
  BY <1>1, <1>2, <1>4, <1>5, <1>7, <1>8, ListedFinite DEF WalkGraph

-----------------------------------------------------------------------------
(* What can be completed, one task after the other. *)

CompletedStart(files) == {IdIn(f) : f \in {g \in files : documents[g].status = "completed"}}
CompletedStep(files, done, n) ==
  done \cup {IdIn(f) : f \in {g \in files : /\ ~documents[g].archived
                                           /\ ToSet(documents[g].needs) \subseteq done}}

Completing == INSTANCE FoldFacts WITH Step <- CompletedStep, Start <- CompletedStart

LEMMA CompletableIs ==
  LET N == Cardinality(ListedFiles)
      done == Completing!Counted(ListedFiles, 0 .. N)
  IN  /\ Completable = done[N] /\ done[0] = CompletedStart(ListedFiles)
      /\ \A k \in 0 .. (N - 1) : done[k + 1] = CompletedStep(ListedFiles, done[k], k + 1)
<1> DEFINE N == Cardinality(ListedFiles)
           done == Completing!Counted(ListedFiles, 0 .. N)
<1>1. Completable = done[N]
  BY DEF Completable, Completing!Counted, CompletedStep, CompletedStart
<1>2. N \in Nat
  BY ListedFinite
<1>3. done[0] = CompletedStart(ListedFiles)
      /\ \A k \in 0 .. (N - 1) : done[k + 1] = CompletedStep(ListedFiles, done[k], k + 1)
  <2> HIDE DEF N
  <2> QED
    BY <1>2, Completing!CountedUpTo
<1> QED
  BY <1>1, <1>3

(* The search starts from every task, and what the tasks need is listed. *)
LEMMA SearchReaches ==
  ASSUME DoctorState, Doctor \subseteq {"cycle"}
  PROVE  ReachedFrom(SearchGraph, ToSet(SetToSeq(TaskIds))) = TaskIds /\ Closed(SearchGraph, TaskIds)
<1> DEFINE g == SearchGraph
           entries == SetToSeq(TaskIds)
           reached == ReachedFrom(g, ToSet(entries))
<1>1. /\ \A f \in ListedFiles : /\ ToSet(documents[f].needs) \subseteq TaskIds
                                /\ g.extends[IdIn(f)] = documents[f].needs
      /\ DOMAIN g.extends = TaskIds
  BY SearchGraphIs
<1>2. ToSet(entries) = TaskIds /\ IsFiniteSet(TaskIds)
  BY ListedFinite, ListedOnce
<1> HIDE DEF g, entries
<1>3. TaskIds \subseteq reached
  BY <1>1, <1>2, ReachedHasStart
<1>4. Closed(g, TaskIds)
  BY <1>1 DEF Closed, TaskIds
<1>5. reached \subseteq TaskIds
  BY <1>1, <1>2, <1>4, ReachedIsLeast
<1> QED
  BY <1>3, <1>4, <1>5 DEF g, entries

(* Without a circle each task comes after all it needs in the order in which
   the search closes them, so the tasks can be completed in that order. *)
LEMMA NoCircleCompletes ==
  ASSUME DoctorState, Doctor = {}, ArchiveCompleted
  PROVE  TaskIds \subseteq Completable
<1> DEFINE g == SearchGraph
           entries == SetToSeq(TaskIds)
           walk == Walk(g, entries)
           reached == ReachedFrom(g, ToSet(entries))
           N == Cardinality(ListedFiles)
           done == Completing!Counted(ListedFiles, 0 .. N)
           l == walk.loaded
<1>1. /\ DOMAIN ById = TaskIds
      /\ \A f \in ListedFiles : /\ ToSet(documents[f].needs) \subseteq TaskIds
                                /\ g.extends[IdIn(f)] = documents[f].needs
      /\ DOMAIN g.extends = TaskIds /\ g.strict
      /\ WalkGraph(g, entries, TaskIds)
  BY SearchGraphIs
<1>2. walk.problems = {}
  BY <1>1, CircleIsFound DEF FindsCycle
<1>3. ToSet(entries) = TaskIds /\ IsFiniteSet(TaskIds)
  BY ListedFinite, ListedOnce
<1>4. Completable = done[N] /\ N \in Nat /\ done[0] = CompletedStart(ListedFiles)
      /\ \A k \in 0 .. (N - 1) : done[k + 1] = CompletedStep(ListedFiles, done[k], k + 1)
  BY CompletableIs, ListedFinite
<1>5. Cardinality(TaskIds) = N
  BY NoDuplicateFound, OneDocumentEach
<1> HIDE DEF g, entries, N, done
<1>6. reached = TaskIds
  BY SearchReaches DEF g, entries
<1>7. /\ l \in Seq(TaskIds) /\ ToSet(l) = TaskIds /\ Len(l) = N
      /\ \A i, j \in DOMAIN l : l[j] \in ToSet(g.extends[l[i]]) => j < i
  BY <1>1, <1>2, <1>5, <1>6, WalkIsRight
<1> HIDE DEF l
<1>8. DOMAIN l = 1 .. N /\ \A x \in TaskIds : \E i \in 1 .. N : l[i] = x
  BY <1>7 DEF ToSet
<1> DEFINE S == {k \in 0 .. N : done[0] \subseteq done[k] /\ \A i \in 1 .. k : l[i] \in done[k]}
<1>9. 0 \in S
  BY <1>4
<1>10. ASSUME NEW k \in Nat, k < N, k \in S PROVE k + 1 \in S
  <2>1. done[k + 1] = CompletedStep(ListedFiles, done[k], k + 1) /\ k + 1 \in 1 .. N
    BY <1>4, <1>10
  <2>2. done[k] \subseteq done[k + 1]
    BY <2>1 DEF CompletedStep
  <2>3. PICK f \in ListedFiles : l[k + 1] = IdIn(f)
    <3>1. l[k + 1] \in TaskIds
      BY <1>7, <1>8, <2>1
    <3> QED
      BY <3>1 DEF TaskIds
  <2>4. ASSUME NEW x \in ToSet(documents[f].needs) PROVE x \in done[k]
    <3>1. PICK j \in 1 .. N : l[j] = x
      BY <1>1, <1>8
    <3>2. l[j] \in ToSet(g.extends[l[k + 1]])
      BY <1>1, <2>3, <3>1
    <3>3. j < k + 1
      BY <1>7, <1>8, <2>1, <3>2
    <3>4. j \in 1 .. k
      BY <1>10, <3>3
    <3> QED
      BY <1>10, <3>1, <3>4
  <2>5. l[k + 1] \in done[k + 1]
    <3>1. CASE ~documents[f].archived
      BY <2>1, <2>3, <2>4, <3>1 DEF CompletedStep
    <3>2. CASE documents[f].archived
      <4>1. IdIn(f) \in done[0]
        BY <1>4, <3>2 DEF CompletedStart, ArchiveCompleted
      <4> QED
        BY <1>10, <2>2, <2>3, <4>1
    <3> QED
      BY <3>1, <3>2
  <2>6. ASSUME NEW i \in 1 .. (k + 1) PROVE l[i] \in done[k + 1]
    <3>1. CASE i = k + 1
      BY <2>5, <3>1
    <3>2. CASE i # k + 1
      <4>1. i \in 1 .. k
        BY <3>2
      <4> QED
        BY <1>10, <2>2, <4>1
    <3> QED
      BY <3>1, <3>2
  <2>7. k + 1 \in 0 .. N
    BY <1>4, <1>10
  <2>8. done[0] \subseteq done[k + 1]
    BY <1>10, <2>2
  <2> QED
    BY <2>6, <2>7, <2>8
<1>11. N \in S
  <2>1. \A k \in 0 .. N : k \in S
    <3> HIDE DEF S
    <3> QED
      BY <1>4, <1>9, <1>10, Completing!CountingUp
  <2>2. N \in 0 .. N
    BY <1>4
  <2> HIDE DEF S
  <2> QED
    BY <2>1, <2>2
<1> QED
  BY <1>4, <1>8, <1>11

(* Where a file is reached, it is one of the files the walk starts from or is
   reached from what one of them extends. *)
LEMMA ReachedThrough ==
  ASSUME NEW g, IsFiniteSet(DOMAIN g.extends), NEW start, NEW f \in ReachedFrom(g, start)
  PROVE  \E y \in start : y = f \/ (y \in DOMAIN g.extends /\ f \in ReachedFrom(g, ToSet(g.extends[y])))
<1> DEFINE From(y) == IF y \in DOMAIN g.extends THEN ReachedFrom(g, ToSet(g.extends[y])) ELSE {}
           T == start \cup UNION {From(y) : y \in start}
<1>1. Closed(g, T)
  <2> SUFFICES ASSUME NEW z \in T, z \in DOMAIN g.extends, NEW x \in ToSet(g.extends[z]) PROVE x \in T
    BY DEF Closed
  <2>1. CASE z \in start
    <3>1. ToSet(g.extends[z]) \subseteq ReachedFrom(g, ToSet(g.extends[z]))
      BY ReachedHasStart
    <3>2. x \in From(z)
      BY <3>1
    <3> QED
      BY <2>1, <3>2
  <2>2. CASE z \notin start
    <3>1. PICK y \in start : z \in From(y)
      BY <2>2
    <3>2. y \in DOMAIN g.extends /\ z \in ReachedFrom(g, ToSet(g.extends[y]))
      BY <3>1
    <3>3. Closed(g, ReachedFrom(g, ToSet(g.extends[y])))
      BY ReachedIsClosed
    <3>4. x \in From(y)
      BY <3>2, <3>3 DEF Closed
    <3> QED
      BY <3>4
  <2> QED
    BY <2>1, <2>2
<1>2. start \subseteq T
  OBVIOUS
<1> HIDE DEF T
<1>3. ReachedFrom(g, start) \subseteq T
  BY <1>1, <1>2, ReachedIsLeast
<1>4. f \in T
  BY <1>3
<1> QED
  BY <1>4 DEF T

(* A task on a circle needs one from which the circle goes on, and none of
   these is ever the first to be completed. *)
LEMMA CircleBlocks ==
  ASSUME DoctorState, Doctor = {"cycle"}, \A f \in ListedFiles : documents[f].status # "completed"
  PROVE  ~(TaskIds \subseteq Completable)
<1> DEFINE g == SearchGraph
           entries == SetToSeq(TaskIds)
           walk == Walk(g, entries)
           reached == ReachedFrom(g, ToSet(entries))
           N == Cardinality(ListedFiles)
           done == Completing!Counted(ListedFiles, 0 .. N)
<1>1. /\ DOMAIN ById = TaskIds
      /\ \A f \in ListedFiles : /\ ToSet(documents[f].needs) \subseteq TaskIds
                                /\ g.extends[IdIn(f)] = documents[f].needs
      /\ DOMAIN g.extends = TaskIds /\ g.strict
      /\ WalkGraph(g, entries, TaskIds)
  BY SearchGraphIs
<1>2. walk.problems # {}
  BY <1>1, CircleIsFound DEF FindsCycle
<1>3. IsFiniteSet(TaskIds)
  BY ListedFinite
<1>4. /\ Completable = done[N] /\ N \in Nat /\ done[0] = CompletedStart(ListedFiles)
      /\ \A k \in 0 .. (N - 1) : done[k + 1] = CompletedStep(ListedFiles, done[k], k + 1)
  BY CompletableIs, ListedFinite
<1>5. reached = TaskIds
  BY SearchReaches
<1> HIDE DEF g, entries, N, done
<1>6. PICK c \in TaskIds : OnCycle(g, c)
  BY <1>1, <1>2, <1>5, WalkIsRight
<1> DEFINE B == {x \in TaskIds : c \in ReachedFrom(g, ToSet(g.extends[x]))}
<1>7. c \in B
  BY <1>6 DEF OnCycle
<1>8. ASSUME NEW f \in ListedFiles, IdIn(f) \in B PROVE \E y \in ToSet(documents[f].needs) : y \in B
  <2> DEFINE start == ToSet(documents[f].needs)
  <2>1. g.extends[IdIn(f)] = documents[f].needs /\ start \subseteq TaskIds
    BY <1>1
  <2>2. c \in ReachedFrom(g, start)
    BY <1>8, <2>1
  <2>3. PICK y \in start : y = c \/ (y \in DOMAIN g.extends /\ c \in ReachedFrom(g, ToSet(g.extends[y])))
    <3> HIDE DEF start
    <3> QED
      BY <1>1, <1>3, <2>2, ReachedThrough
  <2> QED
    BY <1>1, <1>7, <2>1, <2>3
<1> HIDE DEF B
<1> DEFINE S == {k \in 0 .. N : done[k] \cap B = {}}
<1>9. 0 \in S
  <2>1. done[0] = {}
    BY <1>4 DEF CompletedStart
  <2> QED
    BY <1>4, <2>1
<1>10. ASSUME NEW k \in Nat, k < N, k \in S PROVE k + 1 \in S
  <2>1. done[k + 1] = CompletedStep(ListedFiles, done[k], k + 1) /\ k + 1 \in 0 .. N
    BY <1>4, <1>10
  <2>2. done[k] \cap B = {}
    BY <1>10
  <2>3. done[k + 1] \cap B = {}
    BY <1>8, <2>1, <2>2 DEF CompletedStep
  <2> QED
    BY <2>1, <2>3
<1>11. N \in S
  <2>1. \A k \in 0 .. N : k \in S
    <3> HIDE DEF S
    <3> QED
      BY <1>4, <1>9, <1>10, Completing!CountingUp
  <2>2. N \in 0 .. N
    BY <1>4
  <2> HIDE DEF S
  <2> QED
    BY <2>1, <2>2
<1>12. c \notin Completable
  BY <1>4, <1>7, <1>11
<1> QED
  BY <1>6, <1>12

LEMMA CleanBillTells == ASSUME DoctorState PROVE CleanBillCompletes
<1>1. ASSUME Doctor = {}, ArchiveCompleted PROVE {IdIn(f) : f \in ListedFiles} \subseteq Completable
  BY <1>1, NoCircleCompletes DEF TaskIds
<1>2. ASSUME Doctor = {"cycle"}
      PROVE  \/ ~({IdIn(f) : f \in ListedFiles} \subseteq Completable)
             \/ \E f \in ListedFiles : documents[f].status = "completed"
  BY <1>2, CircleBlocks DEF TaskIds
<1> QED
  BY <1>1, <1>2 DEF CleanBillCompletes

(* Where `task doctor` finds nothing and the archive holds completed tasks only,
   every task can be completed, one after the other and without force, and a
   circle it reports among tasks none of which is completed keeps one from it,
   however many documents there are and whatever they hold (doctor and visit of
   core/tasks/store.ts). *)
THEOREM CleanBillRight == DoctorSpec => []CleanBillCompletes
BY DoctorStates, CleanBillTells, PTL

=============================================================================
