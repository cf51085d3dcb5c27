-------------------------- MODULE RepositoryProofs --------------------------
(***************************************************************************)
(* Proofs about what ACKit finds in a repository, reads from its           *)
(* instruction files and writes to them: the walk (RepositoryWalk), the    *)
(* graph of the instructions (InstructionGraph), the context pack          *)
(* (ContextPack) and the files ACKit manages (ManagedFiles).               *)
(*                                                                         *)
(* A list that is sorted is known by its order: ListedBy of a finite set   *)
(* and a total order lists each element once, in that order, so that what  *)
(* comes before what is read off the order and not off the sorting.        *)
(*                                                                         *)
(* A fold (the greedy filling of a pack, the names of a directory, the     *)
(* parts of a path) is an instance of FoldFacts.  What it computes is      *)
(* proved by induction on how much of its sequence has been seen.          *)
(*                                                                         *)
(* The walk: every directory that was entered waits in the queue or is     *)
(* finished, which means that each of its entries is listed, entered,      *)
(* ignored or named in a diagnostic, unless the walk was stopped.  When    *)
(* the queue is empty, induction along the path of a file gives the        *)
(* directory in which the file was seen.                                   *)
(*                                                                         *)
(* The lock of the builtin skills: during a command the lock file is       *)
(* behind the skills already written; the copy of it the command holds is  *)
(* what they agree with, so the invariant says of which of the two each    *)
(* skill is the latest entry, and what a copy that is not dirty has to do  *)
(* with the file.                                                          *)
(*                                                                         *)
(* The managed blocks: a reader goes through a file from mark to mark.     *)
(* Where the marks come in pairs, a block changes nothing in what is read  *)
(* outside it, so a file with blocks cut out and one put in is read as     *)
(* before; and no start mark is left around the block that was put in, so  *)
(* this block is all that is found next time.                              *)
(* The invariant of the commands says of each file that it is read as it   *)
(* was left, and of each plan not yet carried out that it is still right.  *)
(***************************************************************************)
EXTENDS InstructionGraph, ContextPack, RepositoryWalk, ManagedFiles,
        FiniteSetTheorems, FunctionTheorems, SequenceTheorems, TLAPS

-----------------------------------------------------------------------------
(* Lists. *)

(* R orders S: of two elements exactly one comes before the other. *)
OrderOn(S, R) ==
  /\ \A x \in S : <<x, x>> \notin R
  /\ \A x, y, z \in S : <<x, y>> \in R /\ <<y, z>> \in R => <<x, z>> \in R
  /\ \A x, y \in S : x # y => <<x, y>> \in R \/ <<y, x>> \in R

BelowIn(S, R, x) == {y \in S : <<y, x>> \in R}

(* A list of the elements of S, each once, in the order R. *)
ListOf(list, S, R) ==
  /\ list \in [1 .. Cardinality(S) -> S]
  /\ \A x \in S : \E i \in 1 .. Cardinality(S) : list[i] = x
  /\ \A i, j \in 1 .. Cardinality(S) : i < j <=> <<list[i], list[j]>> \in R

LEMMA BelowGrows ==
  ASSUME NEW S, NEW R, IsFiniteSet(S), OrderOn(S, R), NEW x \in S, NEW y \in S, <<x, y>> \in R
  PROVE  Cardinality(BelowIn(S, R, x)) < Cardinality(BelowIn(S, R, y))
<1> DEFINE X == BelowIn(S, R, x)
           Y == BelowIn(S, R, y)
<1>1. X \subseteq S /\ Y \subseteq S /\ x \notin X /\ X \cup {x} \subseteq Y
  BY DEF OrderOn, BelowIn
<1> HIDE DEF X, Y
<1>2. IsFiniteSet(X) /\ IsFiniteSet(Y) /\ Cardinality(X) \in Nat /\ Cardinality(Y) \in Nat
  BY <1>1, FS_Subset, FS_CardinalityType
<1>3. Cardinality(X \cup {x}) = Cardinality(X) + 1
  BY <1>1, <1>2, FS_AddElement
<1>4. Cardinality(X \cup {x}) <= Cardinality(Y)
  BY <1>1, <1>2, FS_Subset
<1>5. Cardinality(X) < Cardinality(Y)
  BY <1>2, <1>3, <1>4
<1> QED
  BY <1>5 DEF X, Y

LEMMA BelowBound ==
  ASSUME NEW S, NEW R, IsFiniteSet(S), OrderOn(S, R), NEW x \in S
  PROVE  Cardinality(BelowIn(S, R, x)) \in 0 .. (Cardinality(S) - 1)
<1> DEFINE X == BelowIn(S, R, x)
<1>1. X \subseteq S \ {x}
  BY DEF OrderOn, BelowIn
<1> HIDE DEF X
<1>2. /\ IsFiniteSet(S \ {x}) /\ Cardinality(S \ {x}) = Cardinality(S) - 1
      /\ Cardinality(S) \in Nat
  BY FS_RemoveElement, FS_CardinalityType
<1>3. IsFiniteSet(X) /\ Cardinality(X) <= Cardinality(S \ {x}) /\ Cardinality(X) \in Nat
  BY <1>1, <1>2, FS_Subset, FS_CardinalityType
<1>4. Cardinality(X) \in 0 .. (Cardinality(S) - 1)
  BY <1>2, <1>3
<1> QED
  BY <1>4 DEF X

(* Every rank is taken. *)
LEMMA RankTaken ==
  ASSUME NEW S, NEW R, IsFiniteSet(S), OrderOn(S, R), NEW k \in 0 .. (Cardinality(S) - 1)
  PROVE  \E x \in S : Cardinality(BelowIn(S, R, x)) = k
<1> SUFFICES ASSUME \A x \in S : Cardinality(BelowIn(S, R, x)) # k PROVE FALSE
  OBVIOUS
<1> DEFINE f == [x \in S |-> Cardinality(BelowIn(S, R, x))]
           N == Cardinality(S)
           T == (0 .. (N - 1)) \ {k}
<1>1. N \in Nat /\ k \in 0 .. (N - 1)
  BY FS_CardinalityType
<1>2. f \in [S -> T]
  BY BelowBound
<1>3. IsFiniteSet(T) /\ Cardinality(T) < N
  <2> HIDE DEF N
  <2>1. IsFiniteSet(0 .. (N - 1)) /\ Cardinality(0 .. (N - 1)) = N
    BY <1>1, FS_Interval
  <2>2. IsFiniteSet(T) /\ Cardinality(T) = N - 1
    BY <1>1, <2>1, FS_RemoveElement
  <2> QED
    BY <1>1, <2>2
<1> HIDE DEF T
<1>4. PICK x \in S, y \in S : x # y /\ f[x] = f[y]
  <2> HIDE DEF f
  <2> QED
    BY <1>2, <1>3, FS_PigeonHole DEF N
<1>5. <<x, y>> \in R \/ <<y, x>> \in R
  BY <1>4 DEF OrderOn
<1>6. Cardinality(BelowIn(S, R, x)) \in Nat /\ Cardinality(BelowIn(S, R, y)) \in Nat
  BY BelowBound
<1>7. /\ <<x, y>> \in R => Cardinality(BelowIn(S, R, x)) < Cardinality(BelowIn(S, R, y))
      /\ <<y, x>> \in R => Cardinality(BelowIn(S, R, y)) < Cardinality(BelowIn(S, R, x))
  BY BelowGrows
<1> QED
  BY <1>4, <1>5, <1>6, <1>7

(* ListedBy lists the elements of a finite set, each once, in the order. *)
LEMMA ListedIsList ==
  ASSUME NEW S, NEW R, IsFiniteSet(S), OrderOn(S, R)
  PROVE  ListOf(ListedBy(S, R), S, R)
<1> DEFINE l == ListedBy(S, R)
           N == Cardinality(S)
           rank(x) == Cardinality(BelowIn(S, R, x))
<1>1. N \in Nat
  BY FS_CardinalityType
<1>2. /\ DOMAIN l = 1 .. N /\ l = [i \in 1 .. N |-> l[i]]
      /\ \A i \in 1 .. N : l[i] = CHOOSE x \in S : rank(x) = i - 1
  <2> DEFINE r == [x \in S |-> Cardinality({y \in S : <<y, x>> \in R})]
  <2>1. l = [i \in 1 .. N |-> CHOOSE x \in S : r[x] = i - 1]
    BY DEF ListedBy
  <2>2. \A x \in S : r[x] = rank(x)
    BY DEF BelowIn
  <2> HIDE DEF r, l, N, rank
  <2>3. \A i \in 1 .. N : (CHOOSE x \in S : r[x] = i - 1) = (CHOOSE x \in S : rank(x) = i - 1)
    BY <2>2
  <2> QED
    BY <2>1, <2>3
<1>3. \A i \in 1 .. N : l[i] \in S /\ rank(l[i]) = i - 1
  <2> SUFFICES ASSUME NEW i \in 1 .. N PROVE l[i] \in S /\ rank(l[i]) = i - 1
    OBVIOUS
  <2>1. i - 1 \in 0 .. (N - 1)
    BY <1>1
  <2>2. \E x \in S : rank(x) = i - 1
    BY <2>1, RankTaken
  <2> HIDE DEF l, N, rank
  <2> QED
    BY <1>2, <2>2
<1>4. \A x \in S : rank(x) \in 0 .. (N - 1)
  BY BelowBound
<1>5. \A x, y \in S : <<x, y>> \in R => rank(x) < rank(y)
  BY BelowGrows
<1>6. \A x, y \in S : rank(x) = rank(y) => x = y
  <2> HIDE DEF rank, N
  <2> SUFFICES ASSUME NEW x \in S, NEW y \in S, rank(x) = rank(y), x # y PROVE FALSE
    OBVIOUS
  <2>1. rank(x) \in Int /\ rank(y) \in Int
    <3>1. rank(x) \in 0 .. (N - 1) /\ rank(y) \in 0 .. (N - 1)
      BY <1>4
    <3> QED
      BY <1>1, <3>1
  <2>2. <<x, y>> \in R \/ <<y, x>> \in R
    BY DEF OrderOn
  <2>3. rank(x) < rank(y) \/ rank(y) < rank(x)
    BY <1>5, <2>2
  <2> QED
    BY <2>1, <2>3
<1>7. \A x \in S : \E i \in 1 .. N : l[i] = x
  <2> SUFFICES ASSUME NEW x \in S PROVE l[rank(x) + 1] = x /\ rank(x) + 1 \in 1 .. N
    OBVIOUS
  <2> HIDE DEF rank, l, N
  <2>1. rank(x) + 1 \in 1 .. N /\ (rank(x) + 1) - 1 = rank(x)
    BY <1>1, <1>4
  <2> QED
    BY <1>3, <1>6, <2>1
<1>8. \A i, j \in 1 .. N : i < j <=> <<l[i], l[j]>> \in R
  <2> SUFFICES ASSUME NEW i \in 1 .. N, NEW j \in 1 .. N PROVE i < j <=> <<l[i], l[j]>> \in R
    OBVIOUS
  <2> HIDE DEF rank, l, N
  <2>1. l[i] \in S /\ l[j] \in S /\ rank(l[i]) = i - 1 /\ rank(l[j]) = j - 1
    BY <1>3
  <2>2. ASSUME i < j PROVE <<l[i], l[j]>> \in R
    <3>1. l[i] # l[j]
      BY <1>1, <2>1, <2>2
    <3>2. ~(<<l[j], l[i]>> \in R)
      BY <1>1, <1>5, <2>1, <2>2
    <3> QED
      BY <2>1, <3>1, <3>2 DEF OrderOn
  <2>3. ASSUME <<l[i], l[j]>> \in R PROVE i < j
    BY <1>1, <1>5, <2>1, <2>3
  <2> QED
    BY <2>2, <2>3
<1>9. l \in [1 .. N -> S]
  <2> HIDE DEF l, N
  <2> QED
    BY <1>2, <1>3
<1> QED
  BY <1>7, <1>8, <1>9 DEF ListOf

(* l has what the list has at the indices I, in the order of the list. *)
SublistOf(l, list, I) ==
  /\ DOMAIN l = 1 .. Cardinality(I)
  /\ \A i \in I : \E k \in 1 .. Cardinality(I) : l[k] = list[i]
  /\ \A k \in 1 .. Cardinality(I) : \E i \in I : l[k] = list[i]
  /\ \A k, m \in 1 .. Cardinality(I) : k < m => \E i, j \in I : i < j /\ l[k] = list[i] /\ l[m] = list[j]

(* Sublist keeps what the list has at the indices, in the order of the list. *)
LEMMA SublistIs ==
  ASSUME NEW list, NEW I, IsFiniteSet(I), I \subseteq Int
  PROVE  SublistOf(Sublist(list, I), list, I)
<1> DEFINE R == {x \in I \X I : x[1] < x[2]}
           kept == ListedBy(I, R)
           N == Cardinality(I)
           l == Sublist(list, I)
<1>1. OrderOn(I, R)
  <2>1. \A x, y \in I : <<x, y>> \in R <=> x < y
    OBVIOUS
  <2> HIDE DEF R
  <2> QED
    BY <2>1 DEF OrderOn
<1>2. ListOf(kept, I, R)
  BY <1>1, ListedIsList
<1>3. /\ kept \in [1 .. N -> I]
      /\ \A x \in I : \E i \in 1 .. N : kept[i] = x
      /\ \A i, j \in 1 .. N : i < j => kept[i] < kept[j]
  BY <1>2 DEF ListOf
<1>4. l = [k \in 1 .. N |-> list[kept[k]]]
  BY DEF Sublist
<1> HIDE DEF R, kept, N, l
<1>5. DOMAIN l = 1 .. N /\ \A k \in 1 .. N : kept[k] \in I /\ l[k] = list[kept[k]]
  BY <1>3, <1>4
<1>6. \A i \in I : \E k \in 1 .. N : l[k] = list[i]
  BY <1>3, <1>5
<1>7. \A k \in 1 .. N : \E i \in I : l[k] = list[i]
  BY <1>5
<1>8. \A k, m \in 1 .. N : k < m => \E i, j \in I : i < j /\ l[k] = list[i] /\ l[m] = list[j]
  BY <1>3, <1>5
<1> QED
  BY <1>5, <1>6, <1>7, <1>8 DEF N, l, SublistOf

LEMMA AppendedSet ==
  ASSUME NEW S, NEW s \in Seq(S), NEW x \in S
  PROVE  /\ Append(s, x) \in Seq(S) /\ ToSet(Append(s, x)) = ToSet(s) \cup {x}
<1> DEFINE a == Append(s, x)
<1>1. Len(s) \in Nat /\ DOMAIN s = 1 .. Len(s) /\ DOMAIN a = 1 .. (Len(s) + 1) /\ a \in Seq(S)
  OBVIOUS
<1>2. a[Len(s) + 1] = x /\ \A i \in 1 .. Len(s) : a[i] = s[i]
  OBVIOUS
<1> HIDE DEF a
<1>3. ToSet(a) = {a[i] : i \in 1 .. (Len(s) + 1)} /\ ToSet(s) = {s[i] : i \in 1 .. Len(s)}
  BY <1>1 DEF ToSet
<1>4. \A y : y \in ToSet(a) <=> y \in ToSet(s) \cup {x}
  BY <1>1, <1>2, <1>3
<1> QED
  BY <1>1, <1>4 DEF a

-----------------------------------------------------------------------------
(* The context pack. *)

PackTyped ==
  /\ held \in [PackPaths -> PackContents \cup {NoFile}]
  /\ request \in PackRequests

(* In every state a path holds nothing or one of the contents, and the request
   is one that may be made. *)
THEOREM PackStates == PackSpec => []PackTyped
<1>1. PackInit => PackTyped
  BY DEF PackInit, PackTyped
<1>2. PackTyped /\ [PackNext]_candidateVars => PackTyped'
  <2> SUFFICES ASSUME PackTyped, [PackNext]_candidateVars PROVE PackTyped'
    OBVIOUS
  <2>1. ASSUME NEW p \in PackPaths, WriteCandidate(p) PROVE PackTyped'
    BY <2>1 DEF PackTyped, WriteCandidate
  <2>2. CASE UNCHANGED candidateVars
    BY <2>2 DEF PackTyped, candidateVars
  <2> QED
    BY <2>1, <2>2 DEF PackNext
<1> QED
  BY <1>1, <1>2, PTL DEF PackSpec

(* Filling what is left of a budget; w has the tokens of the items, the budget
   and what is used of it. *)
FillStep(w, pack, item) ==
  IF pack.used + w[1][item] <= w[2]
  THEN [used |-> pack.used + w[1][item], included |-> Append(pack.included, item)]
  ELSE pack
FillStart(w) == [used |-> w[3], included |-> <<>>]

Filling == INSTANCE FoldFacts WITH Step <- FillStep, Start <- FillStart

LEMMA FillIsFolded ==
  ASSUME NEW used, NEW items, NEW tokens
  PROVE  Fill(used, items, tokens) = Filling!Folded(<<tokens, request.maxTokens, used>>, items)
BY DEF Fill, FoldLeft, MapThenFoldSet, Max, Filling!Folded, Filling!Highest, FillStep, FillStart

(* The pack after the first k items. *)
Filled(used, items, tokens, k) == Filling!Folded(<<tokens, request.maxTokens, used>>, SubSeq(items, 1, k))

(* The item in place j fits where its turn comes. *)
FitsAt(used, items, tokens, j) ==
  Filled(used, items, tokens, j - 1).used + tokens[items[j]] <= request.maxTokens

Fitting(used, items, tokens, k) == {items[j] : j \in {i \in 1 .. k : FitsAt(used, items, tokens, i)}}

LEMMA FilledStep ==
  ASSUME NEW S, NEW items \in Seq(S), NEW used, NEW tokens
  PROVE  /\ Filled(used, items, tokens, 0) = [used |-> used, included |-> <<>>]
         /\ \A k \in 0 .. (Len(items) - 1) :
              Filled(used, items, tokens, k + 1) =
                IF Filled(used, items, tokens, k).used + tokens[items[k + 1]] <= request.maxTokens
                THEN [used |-> Filled(used, items, tokens, k).used + tokens[items[k + 1]],
                      included |-> Append(Filled(used, items, tokens, k).included, items[k + 1])]
                ELSE Filled(used, items, tokens, k)
         /\ Fill(used, items, tokens) = Filled(used, items, tokens, Len(items))
<1> DEFINE w == <<tokens, request.maxTokens, used>>
           c(k) == Filling!Folded(w, SubSeq(items, 1, k))
<1>1. /\ c(0) = FillStart(w)
      /\ \A k \in 0 .. (Len(items) - 1) : c(k + 1) = FillStep(w, c(k), items[k + 1])
      /\ SubSeq(items, 1, Len(items)) = items
  <2> HIDE DEF w
  <2> QED
    BY Filling!FoldedBeginnings
<1>2. Fill(used, items, tokens) = c(Len(items))
  BY <1>1, FillIsFolded
<1>3. FillStart(w) = [used |-> used, included |-> <<>>]
  BY DEF FillStart
<1>4. ASSUME NEW pack, NEW item
      PROVE  FillStep(w, pack, item) =
               IF pack.used + tokens[item] <= request.maxTokens
               THEN [used |-> pack.used + tokens[item], included |-> Append(pack.included, item)]
               ELSE pack
  BY DEF FillStep
<1>5. \A k : Filled(used, items, tokens, k) = c(k)
  BY DEF Filled
<1> HIDE DEF c, w
<1> QED
  BY <1>1, <1>2, <1>3, <1>4, <1>5

(* What fits is what the pack includes, and the budget holds. *)
LEMMA FilledTypes ==
  ASSUME NEW S, NEW items \in Seq(S), NEW used \in Nat, NEW tokens, \A x \in S : tokens[x] \in Nat,
         request.maxTokens \in Nat, used <= request.maxTokens
  PROVE  \A k \in 0 .. Len(items) :
           /\ Filled(used, items, tokens, k).used \in Nat
           /\ Filled(used, items, tokens, k).used <= request.maxTokens
           /\ Filled(used, items, tokens, k).included \in Seq(S)
           /\ ToSet(Filled(used, items, tokens, k).included) = Fitting(used, items, tokens, k)
<1> DEFINE D == 0 .. Len(items)
           c == [k \in D |-> Filled(used, items, tokens, k)]
           fit == [k \in D |-> Fitting(used, items, tokens, k)]
           Ok(k) == /\ c[k].used \in Nat /\ c[k].used <= request.maxTokens
                    /\ c[k].included \in Seq(S) /\ ToSet(c[k].included) = fit[k]
           T == {k \in 0 .. Len(items) : Ok(k)}
<1>1. Len(items) \in Nat
  OBVIOUS
<1>2. c[0] = [used |-> used, included |-> <<>>]
  BY <1>1, FilledStep
<1>3. \A k \in 0 .. (Len(items) - 1) :
        /\ c[k].used + tokens[items[k + 1]] <= request.maxTokens =>
             c[k + 1] = [used |-> c[k].used + tokens[items[k + 1]],
                         included |-> Append(c[k].included, items[k + 1])]
        /\ ~(c[k].used + tokens[items[k + 1]] <= request.maxTokens) => c[k + 1] = c[k]
  <2> SUFFICES ASSUME NEW k \in 0 .. (Len(items) - 1)
               PROVE  /\ c[k].used + tokens[items[k + 1]] <= request.maxTokens =>
                           c[k + 1] = [used |-> c[k].used + tokens[items[k + 1]],
                                       included |-> Append(c[k].included, items[k + 1])]
                      /\ ~(c[k].used + tokens[items[k + 1]] <= request.maxTokens) => c[k + 1] = c[k]
    OBVIOUS
  <2>1. c[k] = Filled(used, items, tokens, k) /\ c[k + 1] = Filled(used, items, tokens, k + 1)
    BY <1>1
  <2> HIDE DEF c
  <2> QED
    BY <2>1, FilledStep
<1>4. fit[0] = {}
  BY <1>1 DEF Fitting
<1>5. \A k \in 0 .. (Len(items) - 1) :
        /\ c[k].used + tokens[items[k + 1]] <= request.maxTokens => fit[k + 1] = fit[k] \cup {items[k + 1]}
        /\ ~(c[k].used + tokens[items[k + 1]] <= request.maxTokens) => fit[k + 1] = fit[k]
  <2> SUFFICES ASSUME NEW k \in 0 .. (Len(items) - 1)
               PROVE  /\ c[k].used + tokens[items[k + 1]] <= request.maxTokens =>
                           fit[k + 1] = fit[k] \cup {items[k + 1]}
                      /\ ~(c[k].used + tokens[items[k + 1]] <= request.maxTokens) => fit[k + 1] = fit[k]
    OBVIOUS
  <2> DEFINE F(i) == FitsAt(used, items, tokens, i)
  <2>1. F(k + 1) <=> c[k].used + tokens[items[k + 1]] <= request.maxTokens
    <3>1. (k + 1) - 1 = k
      BY <1>1
    <3>2. k \in D
      BY <1>1
    <3> QED
      BY <3>1, <3>2 DEF FitsAt
  <2>2. /\ fit[k] = {items[j] : j \in {i \in 1 .. k : F(i)}}
        /\ fit[k + 1] = {items[j] : j \in {i \in 1 .. (k + 1) : F(i)}}
    BY <1>1 DEF Fitting
  <2> HIDE DEF F, fit
  <2>3. F(k + 1) => {i \in 1 .. (k + 1) : F(i)} = {i \in 1 .. k : F(i)} \cup {k + 1}
    BY <1>1
  <2>4. ~F(k + 1) => {i \in 1 .. (k + 1) : F(i)} = {i \in 1 .. k : F(i)}
    BY <1>1
  <2> QED
    BY <2>1, <2>2, <2>3, <2>4
<1> HIDE DEF c, fit
<1>6. 0 \in T
  <2>1. ToSet(<<>>) = {} /\ <<>> \in Seq(S)
    BY DEF ToSet
  <2>2. c[0].used = used /\ c[0].included = <<>>
    BY <1>2
  <2>3. c[0].used \in Nat /\ c[0].used <= request.maxTokens
    BY <2>2
  <2>4. c[0].included \in Seq(S) /\ ToSet(c[0].included) = fit[0]
    BY <1>4, <2>1, <2>2
  <2> QED
    BY <1>1, <2>3, <2>4
<1>7. ASSUME NEW k \in Nat, k < Len(items), k \in T PROVE k + 1 \in T
  <2>1. k \in 0 .. (Len(items) - 1) /\ k + 1 \in 0 .. Len(items) /\ items[k + 1] \in S
    BY <1>1, <1>7
  <2>2. Ok(k)
    BY <1>7
  <2>3. CASE c[k].used + tokens[items[k + 1]] <= request.maxTokens
    <3> DEFINE u == c[k].used + tokens[items[k + 1]]
               l == Append(c[k].included, items[k + 1])
    <3>1. c[k + 1] = [used |-> u, included |-> l]
      BY <1>3, <2>1, <2>3
    <3> HIDE DEF u, l
    <3>2. c[k + 1].used = u /\ c[k + 1].included = l
      BY <3>1
    <3>3. c[k + 1].used = c[k].used + tokens[items[k + 1]]
      BY <3>2 DEF u
    <3>4. c[k + 1].included = Append(c[k].included, items[k + 1])
      BY <3>2 DEF l
    <3>5. /\ c[k + 1].included \in Seq(S)
          /\ ToSet(c[k + 1].included) = ToSet(c[k].included) \cup {items[k + 1]}
      BY <2>1, <2>2, <3>4, AppendedSet
    <3>6. fit[k + 1] = fit[k] \cup {items[k + 1]}
      BY <1>5, <2>1, <2>3
    <3>7. tokens[items[k + 1]] \in Nat
      BY <2>1
    <3>8. c[k + 1].used \in Nat /\ c[k + 1].used <= request.maxTokens
      BY <2>2, <2>3, <3>3, <3>7
    <3>9. Ok(k + 1)
      BY <2>2, <3>5, <3>6, <3>8
    <3> QED
      BY <2>1, <3>9
  <2>4. CASE ~(c[k].used + tokens[items[k + 1]] <= request.maxTokens)
    <3>1. c[k + 1] = c[k] /\ fit[k + 1] = fit[k]
      BY <1>3, <1>5, <2>1, <2>4
    <3> QED
      BY <2>1, <2>2, <3>1
  <2> QED
    BY <2>3, <2>4
<1> HIDE DEF T
<1>8. \A k \in 0 .. Len(items) : k \in T
  BY <1>1, <1>6, <1>7, Filling!CountingUp
<1> QED
  BY <1>8 DEF T, c, fit

(* A file's tokens, one by one. *)
Blocks(X) == UNION {{p} \X (1 .. held[p].tokens) : p \in X}

LEMMA TokensOfOneMore ==
  ASSUME NEW X, IsFiniteSet(Blocks(X)), NEW p, p \notin X, held[p].tokens \in Nat
  PROVE  /\ IsFiniteSet(Blocks(X \cup {p}))
         /\ Tokens(X) \in Nat
         /\ Tokens(X \cup {p}) = Tokens(X) + held[p].tokens
<1> DEFINE n == held[p].tokens
           B == Blocks(X)
           P == {p} \X (1 .. n)
<1>1. Blocks(X \cup {p}) = B \cup P
  BY DEF Blocks
<1>2. B \cap P = {}
  BY DEF Blocks
<1>3. n \in Nat
  OBVIOUS
<1>4. Tokens(X) = Cardinality(B) /\ Tokens(X \cup {p}) = Cardinality(Blocks(X \cup {p}))
  BY DEF Tokens, Blocks
<1>5. IsFiniteSet(P) /\ Cardinality(P) = n
  <2> HIDE DEF n
  <2>1. IsFiniteSet({p}) /\ Cardinality({p}) = 1
    BY FS_Singleton
  <2>2. IsFiniteSet(1 .. n) /\ Cardinality(1 .. n) = n
    BY <1>3, FS_Interval
  <2> DEFINE Q == 1 .. n
  <2> HIDE DEF Q
  <2>3. IsFiniteSet({p} \X Q) /\ Cardinality({p} \X Q) = Cardinality({p}) * Cardinality(Q)
    BY <2>1, <2>2, FS_Product DEF Q
  <2>4. IsFiniteSet(P) /\ Cardinality(P) = 1 * n
    BY <2>1, <2>2, <2>3 DEF Q
  <2> QED
    BY <1>3, <2>4
<1> HIDE DEF B, P
<1>6. IsFiniteSet(B)
  BY DEF B
<1>7. /\ IsFiniteSet(B \cup P)
      /\ Cardinality(B \cup P) = Cardinality(B) + Cardinality(P) - Cardinality({})
  BY <1>2, <1>5, <1>6, FS_Union
<1>8. Cardinality({}) = 0 /\ Cardinality(B) \in Nat
  BY <1>6, FS_EmptySet, FS_CardinalityType
<1> HIDE DEF n
<1>9. Cardinality(B \cup P) = Cardinality(B) + n
  BY <1>3, <1>5, <1>7, <1>8
<1> QED
  BY <1>1, <1>4, <1>7, <1>8, <1>9 DEF n

LEMMA TokensGrow ==
  ASSUME NEW X, NEW Y, X \subseteq Y, IsFiniteSet(Blocks(Y))
  PROVE  IsFiniteSet(Blocks(X)) /\ Tokens(X) <= Tokens(Y) /\ Tokens(X) \in Nat /\ Tokens(Y) \in Nat
<1>1. Blocks(X) \subseteq Blocks(Y)
  BY DEF Blocks
<1>2. Tokens(X) = Cardinality(Blocks(X)) /\ Tokens(Y) = Cardinality(Blocks(Y))
  BY DEF Tokens, Blocks
<1>3. IsFiniteSet(Blocks(X)) /\ Cardinality(Blocks(X)) <= Cardinality(Blocks(Y))
  BY <1>1, FS_Subset
<1> QED
  BY <1>2, <1>3, FS_CardinalityType

LEMMA FilledMore ==
  ASSUME NEW S, NEW items \in Seq(S), NEW used, NEW tokens, NEW i \in 0 .. (Len(items) - 1)
  PROVE  Filled(used, items, tokens, i + 1) =
           IF Filled(used, items, tokens, i).used + tokens[items[i + 1]] <= request.maxTokens
           THEN [used |-> Filled(used, items, tokens, i).used + tokens[items[i + 1]],
                 included |-> Append(Filled(used, items, tokens, i).included, items[i + 1])]
           ELSE Filled(used, items, tokens, i)
BY FilledStep

(* What is used is what the files that fit have together. *)
LEMMA FilledTokens ==
  ASSUME NEW S, NEW items \in Seq(S), \A i, j \in 1 .. Len(items) : items[i] = items[j] => i = j,
         NEW used \in Nat, NEW tokens, \A x \in S : tokens[x] = held[x].tokens /\ tokens[x] \in Nat,
         request.maxTokens \in Nat, used <= request.maxTokens
  PROVE  \A k \in 0 .. Len(items) :
           /\ IsFiniteSet(Blocks(Fitting(used, items, tokens, k)))
           /\ Filled(used, items, tokens, k).used = used + Tokens(Fitting(used, items, tokens, k))
<1>1. \A i \in 0 .. (Len(items) - 1) :
        Filled(used, items, tokens, i + 1) =
          IF Filled(used, items, tokens, i).used + tokens[items[i + 1]] <= request.maxTokens
          THEN [used |-> Filled(used, items, tokens, i).used + tokens[items[i + 1]],
                included |-> Append(Filled(used, items, tokens, i).included, items[i + 1])]
          ELSE Filled(used, items, tokens, i)
  BY FilledMore
<1> DEFINE N == Len(items)
           F(i) == FitsAt(used, items, tokens, i)
           fit == [k \in 0 .. N |-> Fitting(used, items, tokens, k)]
           c == [k \in 0 .. N |-> Filled(used, items, tokens, k)]
           T == {k \in 0 .. N : IsFiniteSet(Blocks(fit[k])) /\ c[k].used = used + Tokens(fit[k])}
<1>2. N \in Nat
  OBVIOUS
<1>3. \A k \in 0 .. N : fit[k] = Fitting(used, items, tokens, k) /\ c[k] = Filled(used, items, tokens, k)
  OBVIOUS
<1>4. 0 \in T
  <2>1. fit[0] = {}
    BY <1>2 DEF Fitting
  <2>2. c[0] = [used |-> used, included |-> <<>>]
    BY <1>2, FilledStep
  <2>3. Blocks({}) = {} /\ Tokens({}) = Cardinality(Blocks({}))
    BY DEF Blocks, Tokens
  <2>4. IsFiniteSet({}) /\ Cardinality({}) = 0
    BY FS_EmptySet
  <2>5. Tokens({}) = 0
    BY <2>3, <2>4
  <2> HIDE DEF fit, c, N
  <2>6. c[0].used = used
    BY <2>2
  <2>7. c[0].used = used + Tokens(fit[0])
    BY <2>1, <2>5, <2>6
  <2>8. IsFiniteSet(Blocks(fit[0]))
    BY <2>1, <2>3, <2>4
  <2>9. 0 \in 0 .. N
    BY <1>2
  <2> QED
    BY <2>7, <2>8, <2>9
<1>5. ASSUME NEW k \in Nat, k < N, k \in T PROVE k + 1 \in T
  <2>1. k \in 0 .. (N - 1) /\ k \in 0 .. N /\ k + 1 \in 0 .. N /\ items[k + 1] \in S
    BY <1>2, <1>5
  <2> DEFINE p == items[k + 1]
             more == c[k].used + tokens[p]
  <2>2. /\ more <= request.maxTokens => c[k + 1] = [used |-> more, included |-> Append(c[k].included, p)]
        /\ ~(more <= request.maxTokens) => c[k + 1] = c[k]
    <3>1. c[k] = Filled(used, items, tokens, k) /\ c[k + 1] = Filled(used, items, tokens, k + 1)
      BY <1>3, <2>1
    <3> QED
      BY <1>1, <2>1, <3>1
  <2>3. F(k + 1) <=> more <= request.maxTokens
    <3>1. (k + 1) - 1 = k
      OBVIOUS
    <3> QED
      BY <1>3, <2>1, <3>1 DEF FitsAt
  <2>4. /\ fit[k] = {items[j] : j \in {i \in 1 .. k : F(i)}}
        /\ fit[k + 1] = {items[j] : j \in {i \in 1 .. (k + 1) : F(i)}}
    BY <1>3, <2>1 DEF Fitting
  <2> HIDE DEF F, c, fit
  <2>5. F(k + 1) => {i \in 1 .. (k + 1) : F(i)} = {i \in 1 .. k : F(i)} \cup {k + 1}
    OBVIOUS
  <2>6. ~F(k + 1) => {i \in 1 .. (k + 1) : F(i)} = {i \in 1 .. k : F(i)}
    OBVIOUS
  <2>7. IsFiniteSet(Blocks(fit[k])) /\ c[k].used = used + Tokens(fit[k])
    BY <1>5
  <2>8. p \notin fit[k]
    <3>1. \A i \in 1 .. k : items[i] # p
      BY <1>2, <2>1
    <3> QED
      BY <2>4, <3>1
  <2>9. tokens[p] = held[p].tokens /\ tokens[p] \in Nat
    BY <2>1
  <2> HIDE DEF p, N
  <2>10. CASE F(k + 1)
    <3>1. fit[k + 1] = fit[k] \cup {p}
      BY <2>4, <2>5, <2>10 DEF p
    <3>2. /\ IsFiniteSet(Blocks(fit[k + 1])) /\ Tokens(fit[k]) \in Nat
          /\ Tokens(fit[k + 1]) = Tokens(fit[k]) + tokens[p]
      <4> DEFINE X == fit[k]
      <4> HIDE DEF X
      <4>1. IsFiniteSet(Blocks(X)) /\ p \notin X /\ held[p].tokens \in Nat /\ fit[k + 1] = X \cup {p}
        BY <2>7, <2>8, <2>9, <3>1 DEF X
      <4>2. /\ IsFiniteSet(Blocks(X \cup {p})) /\ Tokens(X) \in Nat
            /\ Tokens(X \cup {p}) = Tokens(X) + held[p].tokens
        BY <4>1, TokensOfOneMore
      <4> QED
        BY <2>9, <4>1, <4>2 DEF X
    <3>3. c[k + 1].used = c[k].used + tokens[p]
      <4> HIDE DEF more
      <4>1. c[k + 1].used = more
        BY <2>2, <2>3, <2>10
      <4> QED
        BY <4>1 DEF more
    <3>4. c[k + 1].used = used + Tokens(fit[k + 1])
      BY <2>7, <2>9, <3>2, <3>3
    <3> QED
      BY <2>1, <3>2, <3>4
  <2>11. CASE ~F(k + 1)
    <3>1. fit[k + 1] = fit[k] /\ c[k + 1] = c[k]
      BY <2>2, <2>3, <2>4, <2>6, <2>11
    <3> QED
      BY <2>1, <2>7, <3>1
  <2> QED
    BY <2>10, <2>11
<1> HIDE DEF T
<1>6. \A k \in 0 .. N : k \in T
  BY <1>2, <1>4, <1>5, Filling!CountingUp
<1> QED
  BY <1>6 DEF T, fit, c, N

LEMMA SmallestIs ==
  ASSUME NEW a \in Int, NEW b \in Int
  PROVE  Min({a, b}) \in Int
<1>1. \E x \in {a, b} : \A y \in {a, b} : x <= y
  OBVIOUS
<1>2. Min({a, b}) \in {a, b}
  BY <1>1, Zenon DEF Min
<1> QED
  BY <1>2

LEMMA LargestIs ==
  ASSUME NEW a \in Int, NEW b \in Int
  PROVE  Max({a, b}) \in Int
<1>1. \E x \in {a, b} : \A y \in {a, b} : x >= y
  OBVIOUS
<1>2. Max({a, b}) \in {a, b}
  BY <1>1, Zenon DEF Max
<1> QED
  BY <1>2

LEMMA PackPathsAre ==
  ASSUME PackAssumption
  PROVE  PackPaths \subseteq Nat /\ IsFiniteSet(PackPaths)
<1>1. Len(WalkOrder) \in Nat /\ DOMAIN WalkOrder = 1 .. Len(WalkOrder)
  BY DEF PackAssumption
<1>2. PackPaths = {WalkOrder[i] : i \in 1 .. Len(WalkOrder)}
  BY <1>1 DEF PackAssumption, ToSet
<1>3. \A i \in 1 .. Len(WalkOrder) : WalkOrder[i] \in Nat
  BY <1>1 DEF PackAssumption
<1>4. WalkOrder \in Surjection(1 .. Len(WalkOrder), PackPaths)
  <2>1. WalkOrder \in [1 .. Len(WalkOrder) -> PackPaths]
    BY <1>1, <1>2 DEF PackAssumption
  <2> QED
    BY <1>2, <2>1 DEF Surjection
<1>5. IsFiniteSet(1 .. Len(WalkOrder))
  BY <1>1, FS_Interval
<1>6. IsFiniteSet(PackPaths)
  BY <1>4, <1>5, FS_Surjection
<1> QED
  BY <1>2, <1>3, <1>6

LEMMA HeldIs ==
  ASSUME PackAssumption, PackTyped, NEW p \in PackPaths
  PROVE  held[p].bytes \in Nat /\ held[p].tokens \in Nat
BY DEF PackAssumption, PackTyped, NoFile

LEMMA ScoreIsInt ==
  ASSUME PackAssumption, PackTyped, NEW p \in PackPaths
  PROVE  Score(p) \in Int
<1>1. Bonus(p) \in Int
  BY DEF Bonus
<1>2. StaticScore[p] \in Int
  BY DEF PackAssumption
<1>3. StaticScore[p] + Bonus(p) \in Int
  BY <1>1, <1>2
<1>4. ASSUME NEW s \in Int PROVE Prioritised(s, p) \in Int
  <2>1. CASE p \notin DOMAIN request.priority
    BY <1>4, <2>1 DEF Prioritised
  <2>2. CASE p \in DOMAIN request.priority
    <3> DEFINE x == 10 + request.priority[p]
               y == Min({20, x})
               tenths == Max({5, y})
    <3>1. x \in Int
      BY <2>2 DEF PackAssumption, PackTyped
    <3> HIDE DEF x
    <3>2. y \in Int
      BY <3>1, SmallestIs
    <3> HIDE DEF y
    <3>3. tenths \in Int
      BY <3>2, LargestIs
    <3>4. Prioritised(s, p) = (2 * s * tenths + 10) \div 20
      BY <2>2 DEF Prioritised, x, y
    <3> HIDE DEF tenths
    <3>5. 2 * s * tenths \in Int
      BY <1>4, <3>3
    <3> DEFINE z == 2 * s * tenths
    <3> HIDE DEF z
    <3>6. (z + 10) \div 20 \in Int
      BY <3>5 DEF z
    <3> QED
      BY <3>4, <3>6 DEF z
  <2> QED
    BY <2>1, <2>2
<1>5. Penalty(p) \in Int
  <2> DEFINE x == (held[p].bytes \div 4096) * 5
  <2>1. x \in Int
    BY HeldIs
  <2>2. Penalty(p) = Min({x, 40})
    BY DEF Penalty
  <2> HIDE DEF x
  <2> QED
    BY <2>1, <2>2, SmallestIs
<1> DEFINE s == StaticScore[p] + Bonus(p)
<1> HIDE DEF s
<1>6. Prioritised(s, p) \in Int
  BY <1>3, <1>4 DEF s
<1>7. Score(p) = Prioritised(s, p) - Penalty(p)
  BY DEF Score, s
<1> QED
  BY <1>5, <1>6, <1>7

Candidates == {p \in PackPaths : Candidate(p)}

BeforePairs == {x \in Candidates \X Candidates : Before(x[1], x[2])}

(* Ranked has the candidates in their order. *)
LEMMA RankedIsList ==
  ASSUME PackAssumption, PackTyped
  PROVE  ListOf(Ranked, Candidates, BeforePairs)
<1>1. Candidates \subseteq PackPaths
  BY DEF Candidates
<1>2. \A p, q \in Candidates : <<p, q>> \in BeforePairs <=> Before(p, q)
  BY DEF BeforePairs
<1>3. \A p \in Candidates : Score(p) \in Int /\ p \in Nat
  BY <1>1, ScoreIsInt, PackPathsAre
<1>4. OrderOn(Candidates, BeforePairs)
  BY <1>2, <1>3 DEF OrderOn, Before
<1>5. IsFiniteSet(Candidates)
  BY <1>1, PackPathsAre, FS_Subset
<1>6. Ranked = ListedBy(Candidates, BeforePairs)
  BY DEF Ranked, Candidates, BeforePairs
<1> QED
  BY <1>4, <1>5, <1>6, ListedIsList

LEMMA SectionsFit ==
  ASSUME PackAssumption, PackTyped
  PROVE  Sections.used \in Nat /\ Sections.used <= request.maxTokens /\ request.maxTokens \in Nat
<1> DEFINE items == request.sections
           tokens == [section \in ToSet(items) |-> section]
<1>1. request.maxTokens \in Nat /\ items \in Seq(Nat) /\ 0 <= request.maxTokens
  BY DEF PackAssumption, PackTyped
<1>2. items \in Seq(ToSet(items)) /\ \A x \in ToSet(items) : tokens[x] \in Nat
  <2> DEFINE S == ToSet(items)
             n == Len(items)
  <2>1. n \in Nat /\ DOMAIN items = 1 .. n /\ \A i \in 1 .. n : items[i] \in S /\ items[i] \in Nat
    BY <1>1 DEF ToSet
  <2>2. \A x \in S : tokens[x] \in Nat
    BY <1>1 DEF ToSet
  <2>3. items \in [1 .. n -> S]
    <3>1. items \in [1 .. n -> Nat]
      BY <1>1, LenProperties
    <3> HIDE DEF S, n, items
    <3> QED
      BY <2>1, <3>1
  <2> HIDE DEF S, n, items
  <2>4. items \in Seq(S)
    BY <2>1, <2>3, SeqDef
  <2> QED
    BY <2>2, <2>4 DEF S
<1>3. Len(items) \in 0 .. Len(items)
  BY <1>1
<1>4. Sections = Fill(0, items, tokens)
  BY DEF Sections
<1> HIDE DEF items, tokens
<1>5. /\ Filled(0, items, tokens, Len(items)).used \in Nat
      /\ Filled(0, items, tokens, Len(items)).used <= request.maxTokens
  BY <1>1, <1>2, <1>3, FilledTypes
<1>6. Fill(0, items, tokens) = Filled(0, items, tokens, Len(items))
  BY <1>1, FilledStep
<1> QED
  BY <1>1, <1>4, <1>5, <1>6

(* What becomes of a file says which gates it passed. *)
LEMMA ActionIs ==
  ASSUME ToSet(Selection.included) \subseteq Candidates, NEW p \in PackPaths
  PROVE  /\ Action(p) = "included" <=> p \in ToSet(Selection.included)
         /\ Action(p) = "budget" => p \in Candidates /\ p \notin ToSet(Selection.included)
<1> DEFINE included == p \in ToSet(Selection.included)
<1>1. included => Candidate(p)
  BY DEF Candidates
<1>2. p \in Candidates <=> Candidate(p)
  BY DEF Candidates
<1>3. Candidate(p) => Clean(p) /\ Original(p) = p
  BY DEF Candidate
<1>4. Clean(p) => held[p].kind = "text" /\ ~held[p].secret
  BY DEF Clean
<1>5. included => Action(p) = "included"
  BY <1>1, <1>3, <1>4 DEF Action
<1>6. ~included => Action(p) # "included"
  BY DEF Action
<1>7. Action(p) = "budget" => Candidate(p)
  BY DEF Action
<1> QED
  BY <1>2, <1>5, <1>6, <1>7

(* BestThatFit, for any files, contents, scores and requests
   (buildContextPack). *)
THEOREM PacksBest == PackSpec => []BestThatFit
<1>1. PackTyped => BestThatFit
  <2> SUFFICES ASSUME PackTyped PROVE BestThatFit
    OBVIOUS
  <2> DEFINE used == Sections.used
             tokens == [path \in PackPaths |-> held[path].tokens]
             n == Cardinality(Candidates)
             fit == [k \in 0 .. n |-> Fitting(used, Ranked, tokens, k)]
             c == [k \in 0 .. n |-> Filled(used, Ranked, tokens, k)]
             packed == {p \in PackPaths : Action(p) = "included"}
  <2>1. used \in Nat /\ used <= request.maxTokens /\ request.maxTokens \in Nat
    BY SectionsFit, PackAssumption
  <2>2. /\ Ranked \in [1 .. n -> Candidates] /\ n \in Nat
        /\ \A x \in Candidates : \E i \in 1 .. n : Ranked[i] = x
        /\ \A i, j \in 1 .. n : i < j => Before(Ranked[i], Ranked[j])
        /\ \A i, j \in 1 .. n : Ranked[i] = Ranked[j] => i = j
    <3>1. ListOf(Ranked, Candidates, BeforePairs)
      BY RankedIsList, PackAssumption
    <3>2. Candidates \subseteq PackPaths
      BY DEF Candidates
    <3>3. n \in Nat
      BY <3>2, PackPathsAre, PackAssumption, FS_Subset, FS_CardinalityType
    <3>4. \A p \in Candidates : Score(p) \in Int /\ p \in Nat
      BY <3>2, ScoreIsInt, PackPathsAre, PackAssumption
    <3>5. /\ Ranked \in [1 .. n -> Candidates]
          /\ \A x \in Candidates : \E i \in 1 .. n : Ranked[i] = x
          /\ \A i, j \in 1 .. n : i < j => <<Ranked[i], Ranked[j]>> \in BeforePairs
      BY <3>1 DEF ListOf
    <3> HIDE DEF n
    <3>6. \A i, j \in 1 .. n : i < j => Before(Ranked[i], Ranked[j])
      BY <3>5 DEF BeforePairs
    <3>7. \A i \in 1 .. n : ~Before(Ranked[i], Ranked[i])
      BY <3>4, <3>5 DEF Before
    <3>8. \A i, j \in 1 .. n : Ranked[i] = Ranked[j] => i = j
      <4> SUFFICES ASSUME NEW i \in 1 .. n, NEW j \in 1 .. n, Ranked[i] = Ranked[j], i < j PROVE FALSE
        BY <3>3
      <4> QED
        BY <3>6, <3>7
    <3> QED
      BY <3>3, <3>5, <3>6, <3>8
  <2>3. Candidates \subseteq PackPaths
    BY DEF Candidates
  <2>4. /\ Ranked \in Seq(PackPaths) /\ Len(Ranked) = n
    <3> HIDE DEF n
    <3>1. Ranked \in [1 .. n -> PackPaths]
      BY <2>2, <2>3
    <3> QED
      BY <2>2, <3>1, SeqDef
  <2>5. \A p \in PackPaths : tokens[p] = held[p].tokens /\ tokens[p] \in Nat
    BY HeldIs, PackAssumption
  <2>6. Selection = Filled(used, Ranked, tokens, n)
    <3>1. Selection = Fill(used, Ranked, tokens)
      BY DEF Selection
    <3> HIDE DEF n, tokens, used
    <3> QED
      BY <2>4, <3>1, FilledStep
  <2> HIDE DEF n, tokens, used
  <2>7. \A k \in 0 .. n : IsFiniteSet(Blocks(fit[k])) /\ c[k].used = used + Tokens(fit[k])
    BY <2>1, <2>2, <2>4, <2>5, FilledTokens
  <2>8. \A k \in 0 .. n : ToSet(c[k].included) = fit[k] /\ c[k].used <= request.maxTokens
    BY <2>1, <2>4, <2>5, FilledTypes
  <2>9. /\ \A k \in 0 .. n : fit[k] = {Ranked[j] : j \in {i \in 1 .. k : FitsAt(used, Ranked, tokens, i)}}
        /\ \A j \in 1 .. n : FitsAt(used, Ranked, tokens, j) <=>
                               c[j - 1].used + tokens[Ranked[j]] <= request.maxTokens
    <3>1. \A j \in 1 .. n : j - 1 \in 0 .. n
      BY <2>2
    <3> QED
      BY <3>1 DEF Fitting, FitsAt
  <2>10. Selection = c[n] /\ n \in 0 .. n
    BY <2>2, <2>6
  <2> HIDE DEF fit, c
  <2>11. fit[n] \subseteq Candidates
    BY <2>2, <2>9
  <2>12. \A p \in PackPaths :
           /\ Action(p) = "included" <=> p \in fit[n]
           /\ Action(p) = "budget" => p \in Candidates /\ p \notin fit[n]
    BY <2>8, <2>11, <2>10, ActionIs
  <2>13. packed = fit[n]
    BY <2>3, <2>11, <2>12
  <2>14. used + Tokens(packed) <= request.maxTokens
    <3>1. c[n].used = used + Tokens(fit[n]) /\ c[n].used <= request.maxTokens
      BY <2>7, <2>8, <2>10
    <3> QED
      BY <2>13, <3>1
  <2>15. ASSUME NEW p \in PackPaths, Action(p) = "budget"
         PROVE  used + Tokens({q \in packed : Before(q, p)} \cup {p}) > request.maxTokens
    <3> DEFINE better == {q \in packed : Before(q, p)}
    <3>1. PICK j \in 1 .. n : Ranked[j] = p
      BY <2>2, <2>12, <2>15
    <3>2. j - 1 \in 0 .. n /\ j \in 0 .. n
      BY <2>2
    <3>3. fit[j - 1] \subseteq better
      <4> SUFFICES ASSUME NEW q \in fit[j - 1] PROVE q \in better
        OBVIOUS
      <4>1. PICK i \in 1 .. (j - 1) : q = Ranked[i] /\ FitsAt(used, Ranked, tokens, i)
        BY <2>9, <3>2
      <4>2. i \in 1 .. n /\ i < j
        BY <2>2
      <4>3. Before(q, p)
        BY <2>2, <3>1, <4>1, <4>2
      <4>4. q \in fit[n]
        BY <2>9, <2>10, <4>1, <4>2
      <4> QED
        BY <2>13, <4>3, <4>4
    <3>4. ~FitsAt(used, Ranked, tokens, j)
      <4>1. FitsAt(used, Ranked, tokens, j) => Ranked[j] \in fit[n]
        BY <2>9, <2>10
      <4> QED
        BY <2>12, <2>15, <3>1, <4>1
    <3>5. p \notin fit[j - 1] /\ p \notin better
      BY <2>12, <2>13, <2>15, <3>3
    <3>6. used + Tokens(fit[j - 1]) + held[p].tokens > request.maxTokens
      <4>1. ~(c[j - 1].used + tokens[p] <= request.maxTokens)
        BY <2>9, <3>1, <3>4
      <4>2. c[j - 1].used = used + Tokens(fit[j - 1]) /\ IsFiniteSet(Blocks(fit[j - 1]))
        BY <2>7, <3>2
      <4>3. Tokens(fit[j - 1]) \in Nat
        BY <4>2, TokensGrow
      <4> QED
        BY <2>1, <2>5, <4>1, <4>2, <4>3
    <3>7. IsFiniteSet(Blocks(better))
      <4>1. better \subseteq fit[n] /\ IsFiniteSet(Blocks(fit[n]))
        BY <2>7, <2>13, <2>10
      <4> HIDE DEF better
      <4> QED
        BY <4>1, TokensGrow
    <3> HIDE DEF better
    <3>8. /\ Tokens(better) \in Nat /\ Tokens(fit[j - 1]) \in Nat /\ Tokens(fit[j - 1]) <= Tokens(better)
      BY <3>3, <3>7, TokensGrow
    <3>9. Tokens(better \cup {p}) = Tokens(better) + held[p].tokens
      BY <2>5, <3>5, <3>7, TokensOfOneMore
    <3>10. used + Tokens(better \cup {p}) > request.maxTokens
      BY <2>1, <2>5, <3>6, <3>8, <3>9
    <3> QED
      BY <3>10 DEF better
  <2>16. \A p, q \in packed : held[p] = held[q] => p = q
    <3>1. \A p \in packed : FirstWith(held[p]) = p
      BY <2>11, <2>13 DEF Candidates, Candidate, Original
    <3> HIDE DEF packed
    <3> QED
      BY <3>1, Zenon
  <2> QED
    BY <2>14, <2>15, <2>16 DEF BestThatFit, used
<1> QED
  BY <1>1, PackStates, PTL

-----------------------------------------------------------------------------
(* The graph of the instructions. *)

(* Comparing lists of numbers of one length element by element is an order. *)
LEMMA LexIrreflexive ==
  ASSUME NEW n \in Nat, NEW s \in [1 .. n -> Int]
  PROVE  ~LexBefore(s, s)
BY DEF LexBefore

LEMMA LexTransitive ==
  ASSUME NEW n \in Nat, NEW s \in [1 .. n -> Int], NEW t \in [1 .. n -> Int], NEW u \in [1 .. n -> Int],
         LexBefore(s, t), LexBefore(t, u)
  PROVE  LexBefore(s, u)
<1>1. PICK i \in 1 .. n : s[i] < t[i] /\ \A k \in 1 .. (i - 1) : s[k] = t[k]
  BY DEF LexBefore
<1>2. PICK j \in 1 .. n : t[j] < u[j] /\ \A k \in 1 .. (j - 1) : t[k] = u[k]
  BY DEF LexBefore
<1>3. CASE i < j
  <2>1. s[i] < u[i]
    BY <1>1, <1>2, <1>3
  <2>2. \A k \in 1 .. (i - 1) : s[k] = u[k]
    BY <1>1, <1>2, <1>3
  <2> QED
    BY <2>1, <2>2 DEF LexBefore
<1>4. CASE ~(i < j)
  <2>1. s[j] < u[j]
    <3>1. CASE i = j
      <4>1. s[j] \in Int /\ t[j] \in Int /\ u[j] \in Int
        OBVIOUS
      <4> QED
        BY <1>1, <1>2, <3>1, <4>1
    <3>2. CASE j < i
      BY <1>1, <1>2, <3>2
    <3> QED
      BY <1>4, <3>1, <3>2
  <2>2. \A k \in 1 .. (j - 1) : s[k] = u[k]
    BY <1>1, <1>2, <1>4
  <2> QED
    BY <2>1, <2>2 DEF LexBefore
<1> QED
  BY <1>3, <1>4

LEMMA LexTotal ==
  ASSUME NEW n \in Nat, NEW s \in [1 .. n -> Int], NEW t \in [1 .. n -> Int], s # t
  PROVE  LexBefore(s, t) \/ LexBefore(t, s)
<1> DEFINE D == {i \in 1 .. n : s[i] # t[i]}
<1>1. D # {} /\ D \subseteq Nat
  OBVIOUS
<1>2. PICK m \in D : \A k \in D : m <= k
  <2> HIDE DEF D
  <2> QED
    BY <1>1, Filling!LeastNumber
<1>3. m \in 1 .. n /\ s[m] # t[m] /\ s[m] \in Int /\ t[m] \in Int
  OBVIOUS
<1>4. \A k \in 1 .. (m - 1) : s[k] = t[k]
  BY <1>2
<1>5. s[m] < t[m] \/ t[m] < s[m]
  BY <1>3
<1> QED
  BY <1>3, <1>4, <1>5 DEF LexBefore

-----------------------------------------------------------------------------
(* Types: what a place holds, and what a link leads to. *)
Files == {Vacant} \cup {Text(t) : t \in Texts} \cup {Link(p) : p \in Places \ {Global}}

GraphTyped == files \in [Places -> Files]

LEMMA KindsDiffer ==
  /\ Vacant.kind = "absent"
  /\ \A t : Text(t).kind = "text" /\ Text(t).text = t
  /\ \A p : Link(p).kind = "link" /\ Link(p).to = p
BY DEF Vacant, Text, Link

(* In every state a place holds nothing, a text or a link to another place of
   the repository. *)
THEOREM GraphStates == GraphSpec => []GraphTyped
<1>1. GraphInit => GraphTyped
  BY DEF GraphInit, GraphTyped, Files
<1>2. GraphTyped /\ [GraphNext]_graphVars => GraphTyped'
  <2> SUFFICES ASSUME GraphTyped, [GraphNext]_graphVars PROVE GraphTyped'
    OBVIOUS
  <2>1. ASSUME NEW p \in Places, WriteText(p) PROVE GraphTyped'
    BY <2>1 DEF WriteText, GraphTyped, Files
  <2>2. ASSUME NEW p \in Places, MakeLink(p) PROVE GraphTyped'
    BY <2>2 DEF MakeLink, GraphTyped, Files
  <2>3. ASSUME NEW p \in Places, RemoveFile(p) PROVE GraphTyped'
    BY <2>3 DEF RemoveFile, GraphTyped, Files
  <2>4. CASE UNCHANGED graphVars
    BY <2>4 DEF graphVars, GraphTyped
  <2> QED
    BY <2>1, <2>2, <2>3, <2>4 DEF GraphNext
<1> QED
  BY <1>1, <1>2, PTL DEF GraphSpec

LEMMA CanonicalIsPlace ==
  ASSUME GraphTyped, NEW p \in Places
  PROVE  CanonicalOf(p) \in Places
<1>1. CASE files[p].kind = "link"
  <2>1. PICK q \in Places : files[p] = Link(q)
    BY <1>1, KindsDiffer DEF GraphTyped, Files
  <2> QED
    BY <2>1, KindsDiffer DEF CanonicalOf
<1>2. CASE files[p].kind # "link"
  BY <1>2 DEF CanonicalOf
<1> QED
  BY <1>1, <1>2

(* What a function of finitely many arguments takes as values is finite. *)
LEMMA FiniteRange ==
  ASSUME NEW D, IsFiniteSet(D), NEW f, DOMAIN f = D
  PROVE  IsFiniteSet({f[x] : x \in D})
<1> DEFINE T == {f[x] : x \in D}
           g == [x \in D |-> f[x]]
<1>1. g \in Surjection(D, T)
  BY DEF Surjection
<1> HIDE DEF g, T
<1>2. IsFiniteSet(T)
  BY <1>1, FS_Surjection
<1> QED
  BY <1>2 DEF T

(* Nodes are finitely many, each of a place with a provider. *)
LEMMA NodesAre ==
  ASSUME GraphAssumption, GraphTyped
  PROVE  /\ IsFiniteSet(Nodes)
         /\ \A n \in Nodes : /\ n = [place |-> n.place, copy |-> n.copy]
                             /\ n.place \in Places /\ n.copy \in Nat
                             /\ n.place # Global => n.place \in RepoFiles /\ Provider(n.place) # "none"
<1> DEFINE Copies(p) == {q \in Listed : CanonicalOf(q) = p}
           Of(p) == {[place |-> p, copy |-> k] : k \in 1 .. Cardinality(Copies(p))}
           S == {q \in RepoFiles : Holds(q) /\ Provider(q) # "none"}
           G == {[place |-> p, copy |-> 1] : p \in {Global} \cap {q \in Places : Holds(q)}}
           C == Cardinality(Places) + 1
           f == [x \in Places \X (0 .. C) |-> [place |-> x[1], copy |-> x[2]]]
           All == {f[x] : x \in Places \X (0 .. C)}
<1>1. \A n \in Nodes : n \in G \/ \E p \in S : n \in Of(p)
  BY DEF Nodes
<1>2. IsFiniteSet(Places) /\ Cardinality(Places) \in Nat /\ C \in Nat /\ Listed \subseteq Places
  BY FS_CardinalityType DEF GraphAssumption, Listed
<1>3. S \subseteq Places
  BY <1>2, CanonicalIsPlace DEF RepoFiles
<1>4. \A p \in S : Cardinality(Copies(p)) \in 0 .. Cardinality(Places)
  <2> SUFFICES ASSUME NEW p \in S PROVE Cardinality(Copies(p)) \in 0 .. Cardinality(Places)
    OBVIOUS
  <2>1. Copies(p) \subseteq Places
    BY <1>2
  <2> HIDE DEF Copies
  <2>2. IsFiniteSet(Copies(p)) /\ Cardinality(Copies(p)) <= Cardinality(Places)
    BY <1>2, <2>1, FS_Subset
  <2>3. Cardinality(Copies(p)) \in Nat
    BY <2>2, FS_CardinalityType
  <2> QED
    BY <1>2, <2>2, <2>3
<1>5. \A n \in Nodes : /\ n \in All /\ n = [place |-> n.place, copy |-> n.copy]
                       /\ n.place \in Places /\ n.copy \in Nat
                       /\ n.place # Global => n.place \in RepoFiles /\ Provider(n.place) # "none"
  <2> SUFFICES ASSUME NEW n \in Nodes
               PROVE /\ n \in All /\ n = [place |-> n.place, copy |-> n.copy]
                     /\ n.place \in Places /\ n.copy \in Nat
                     /\ n.place # Global => n.place \in RepoFiles /\ Provider(n.place) # "none"
    OBVIOUS
  <2>1. ASSUME NEW p \in Places, NEW k \in 0 .. C, n = [place |-> p, copy |-> k]
        PROVE  /\ n \in All /\ n = [place |-> n.place, copy |-> n.copy]
               /\ n.place = p /\ n.copy \in Nat
    <3>1. <<p, k>> \in Places \X (0 .. C) /\ f[<<p, k>>] = n
      BY <2>1
    <3> HIDE DEF f
    <3>2. n \in All
      BY <3>1
    <3> HIDE DEF All
    <3> QED
      BY <2>1, <3>2, <1>2
  <2> HIDE DEF All, f
  <2>2. CASE n \in G
    <3>1. n = [place |-> Global, copy |-> 1] /\ Global \in Places /\ 1 \in 0 .. C
      BY <1>2, <2>2
    <3> HIDE DEF G, C
    <3> QED
      BY <2>1, <3>1
  <2>3. CASE \E p \in S : n \in Of(p)
    <3>1. PICK p \in S : n \in Of(p)
      BY <2>3
    <3>2. PICK k \in 1 .. Cardinality(Copies(p)) : n = [place |-> p, copy |-> k]
      BY <3>1
    <3>3. Cardinality(Copies(p)) \in 0 .. Cardinality(Places)
      BY <1>4
    <3>4. p \in RepoFiles /\ Provider(p) # "none" /\ p \in Places
      BY <1>3
    <3> HIDE DEF Copies, Of, S
    <3>5. k \in 0 .. C
      BY <1>2, <3>3
    <3> HIDE DEF C
    <3>6. /\ n \in All /\ n = [place |-> n.place, copy |-> n.copy]
          /\ n.place = p /\ n.copy \in Nat
      BY <2>1, <3>2, <3>4, <3>5
    <3> QED
      BY <3>4, <3>6
  <2> QED
    BY <1>1, <2>2, <2>3
<1>6. IsFiniteSet(All)
  <2>1. IsFiniteSet(Places \X (0 .. C))
    <3> HIDE DEF C
    <3>1. IsFiniteSet(0 .. C)
      BY <1>2, FS_Interval
    <3> DEFINE I == 0 .. C
    <3> HIDE DEF I
    <3>2. IsFiniteSet(Places \X I)
      BY <1>2, <3>1, FS_Product DEF I
    <3> QED
      BY <3>2 DEF I
  <2>2. DOMAIN f = Places \X (0 .. C)
    OBVIOUS
  <2> DEFINE D == Places \X (0 .. C)
  <2>3. IsFiniteSet(D) /\ DOMAIN f = D
    BY <2>1, <2>2
  <2>4. All = {f[x] : x \in D}
    OBVIOUS
  <2> HIDE DEF f, C, D, All
  <2>5. IsFiniteSet({f[x] : x \in D})
    BY <2>3, FiniteRange
  <2> QED
    BY <2>4, <2>5
<1>7. IsFiniteSet(Nodes)
  <2> HIDE DEF All
  <2> QED
    BY <1>5, <1>6, FS_Subset
<1> QED
  BY <1>5, <1>7

-----------------------------------------------------------------------------
(* The order of nodes. *)
ShiftsPlaces(shift) == \A p \in Places : p \in DOMAIN shift => shift[p] \in Int

NodeOrder(nodes, shift) == {x \in nodes \X nodes : LexBefore(OrderKey(x[1], shift), OrderKey(x[2], shift))}

LEMMA ProvidersRanked ==
  ASSUME GraphAssumption, GraphTyped, NEW n \in Nodes
  PROVE  ProviderRank(n.place) \in Int
<1> DEFINE names == <<"codex", "claude", "gemini", "copilot", "shared">>
           name == Provider(n.place)
<1>1. name \in {"codex", "claude", "gemini", "copilot", "shared"}
  <2>1. CASE n.place = Global
    BY <2>1 DEF Provider, IsSkill, Global, Place
  <2>2. CASE n.place # Global
    <3>1. name # "none"
      BY <2>2, NodesAre
    <3> QED
      BY <3>1 DEF Provider
  <2> QED
    BY <2>1, <2>2
<1> HIDE DEF name
<1>2. \E i \in DOMAIN names : names[i] = name
  <2>1. DOMAIN names = 1 .. 5
    OBVIOUS
  <2>2. names[1] = "codex" /\ names[2] = "claude" /\ names[3] = "gemini" /\ names[4] = "copilot" /\ names[5] = "shared"
    OBVIOUS
  <2> HIDE DEF names
  <2> QED
    BY <1>1, <2>1, <2>2
<1>3. Position(name, names) \in DOMAIN names
  <2> HIDE DEF names
  <2> QED
    BY <1>2 DEF Position
<1>4. DOMAIN names \subseteq Int
  OBVIOUS
<1> QED
  BY <1>3, <1>4 DEF ProviderRank, name

LEMMA DepthsAre ==
  ASSUME GraphAssumption, NEW p \in Places
  PROVE  Depth(p) \in Nat /\ (p # Global => Depth(p) = Len(p.dir)) /\ p.dir \in Seq(STRING)
BY DEF GraphAssumption, Depth

LEMMA PrecedencesAre ==
  ASSUME GraphAssumption, NEW p \in Places
  PROVE  Precedence(p) \in Nat
<1>1. Depth(p) \in Nat
  BY DepthsAre
<1> QED
  BY <1>1 DEF Precedence

LEMMA KeysTyped ==
  ASSUME GraphAssumption, GraphTyped, NEW n \in Nodes, NEW shift, ShiftsPlaces(shift)
  PROVE  OrderKey(n, shift) \in [1 .. 5 -> Int]
<1> DEFINE second == Precedence(n.place) + (IF n.place \in DOMAIN shift THEN shift[n.place] ELSE 0)
<1>1. n.place \in Places /\ n.copy \in Nat
  BY NodesAre
<1>2. Depth(n.place) \in Int /\ PathOrder[n.place] \in Int
  BY <1>1, DepthsAre DEF GraphAssumption
<1>3. second \in Int
  <2>1. Precedence(n.place) \in Int
    BY <1>1, PrecedencesAre
  <2>2. (IF n.place \in DOMAIN shift THEN shift[n.place] ELSE 0) \in Int
    BY <1>1 DEF ShiftsPlaces
  <2> QED
    BY <2>1, <2>2
<1>4. ProviderRank(n.place) \in Int
  BY ProvidersRanked
<1>5. OrderKey(n, shift) = <<Depth(n.place), second, ProviderRank(n.place), PathOrder[n.place], n.copy>>
  BY DEF OrderKey
<1> HIDE DEF second
<1> QED
  BY <1>1, <1>2, <1>3, <1>4, <1>5

LEMMA KeysDiffer ==
  ASSUME GraphAssumption, GraphTyped, NEW n \in Nodes, NEW m \in Nodes, NEW shift,
         OrderKey(n, shift) = OrderKey(m, shift)
  PROVE  n = m
<1>1. OrderKey(n, shift)[4] = PathOrder[n.place] /\ OrderKey(n, shift)[5] = n.copy
  BY DEF OrderKey
<1>2. OrderKey(m, shift)[4] = PathOrder[m.place] /\ OrderKey(m, shift)[5] = m.copy
  BY DEF OrderKey
<1>3. n.place \in Places /\ m.place \in Places
  BY NodesAre
<1>4. n.place = m.place /\ n.copy = m.copy
  BY <1>1, <1>2, <1>3 DEF GraphAssumption
<1>5. n = [place |-> n.place, copy |-> n.copy] /\ m = [place |-> m.place, copy |-> m.copy]
  BY NodesAre
<1> QED
  BY <1>4, <1>5

LEMMA NodesOrdered ==
  ASSUME GraphAssumption, GraphTyped, NEW nodes \in SUBSET Nodes, NEW shift, ShiftsPlaces(shift)
  PROVE  OrderOn(nodes, NodeOrder(nodes, shift))
<1> DEFINE key(n) == OrderKey(n, shift)
           R == NodeOrder(nodes, shift)
<1>1. \A n \in nodes : key(n) \in [1 .. 5 -> Int]
  BY KeysTyped
<1>2. \A n, m \in nodes : <<n, m>> \in R <=> LexBefore(key(n), key(m))
  BY DEF NodeOrder
<1>3. \A n, m \in nodes : key(n) = key(m) => n = m
  BY KeysDiffer
<1> HIDE DEF key, R
<1>4. \A n \in nodes : ~LexBefore(key(n), key(n))
  BY <1>1, LexIrreflexive
<1>5. \A n, m, o \in nodes : LexBefore(key(n), key(m)) /\ LexBefore(key(m), key(o)) => LexBefore(key(n), key(o))
  BY <1>1, LexTransitive
<1>6. \A n, m \in nodes : n # m => LexBefore(key(n), key(m)) \/ LexBefore(key(m), key(n))
  BY <1>1, <1>3, LexTotal
<1>7. OrderOn(nodes, R)
  BY <1>2, <1>4, <1>5, <1>6 DEF OrderOn
<1> QED
  BY <1>7 DEF R

(* Any nodes are listed in their order, each once. *)
LEMMA OrderedIsList ==
  ASSUME GraphAssumption, GraphTyped, NEW nodes \in SUBSET Nodes, NEW shift, ShiftsPlaces(shift)
  PROVE  /\ Cardinality(nodes) \in Nat
         /\ Ordered(nodes, shift) \in [1 .. Cardinality(nodes) -> nodes]
         /\ \A n \in nodes : \E i \in 1 .. Cardinality(nodes) : Ordered(nodes, shift)[i] = n
         /\ \A i, j \in 1 .. Cardinality(nodes) : i < j =>
              LexBefore(OrderKey(Ordered(nodes, shift)[i], shift), OrderKey(Ordered(nodes, shift)[j], shift))
<1> DEFINE R == NodeOrder(nodes, shift)
           l == Ordered(nodes, shift)
<1>1. IsFiniteSet(nodes) /\ Cardinality(nodes) \in Nat
  BY NodesAre, FS_Subset, FS_CardinalityType
<1>2. l = ListedBy(nodes, R)
  BY DEF Ordered, NodeOrder
<1>3. OrderOn(nodes, R)
  BY NodesOrdered
<1>4. ListOf(l, nodes, R)
  <2> HIDE DEF R, l
  <2> QED
    BY <1>1, <1>2, <1>3, ListedIsList
<1>5. \A n, m \in nodes : <<n, m>> \in R => LexBefore(OrderKey(n, shift), OrderKey(m, shift))
  BY DEF NodeOrder
<1> HIDE DEF R, l
<1>6. /\ l \in [1 .. Cardinality(nodes) -> nodes]
      /\ \A n \in nodes : \E i \in 1 .. Cardinality(nodes) : l[i] = n
      /\ \A i, j \in 1 .. Cardinality(nodes) : i < j => <<l[i], l[j]>> \in R
  BY <1>4 DEF ListOf
<1>7. \A i, j \in 1 .. Cardinality(nodes) : i < j => LexBefore(OrderKey(l[i], shift), OrderKey(l[j], shift))
  BY <1>5, <1>6
<1> QED
  BY <1>1, <1>6, <1>7 DEF l

-----------------------------------------------------------------------------
(* What an order of keys says of depth and precedence. *)
LEMMA KeyBefore ==
  ASSUME GraphAssumption, GraphTyped, NEW n \in Nodes, NEW m \in Nodes, NEW shift, ShiftsPlaces(shift),
         LexBefore(OrderKey(n, shift), OrderKey(m, shift))
  PROVE  /\ Depth(n.place) <= Depth(m.place)
         /\ Depth(n.place) = Depth(m.place) => OrderKey(n, shift)[2] <= OrderKey(m, shift)[2]
<1> DEFINE s == OrderKey(n, shift)
           t == OrderKey(m, shift)
<1>1. s \in [1 .. 5 -> Int] /\ t \in [1 .. 5 -> Int]
  BY KeysTyped
<1>2. s[1] = Depth(n.place) /\ t[1] = Depth(m.place)
  BY DEF OrderKey
<1> HIDE DEF s, t
<1>3. PICK i \in 1 .. 5 : s[i] < t[i] /\ \A k \in 1 .. (i - 1) : s[k] = t[k]
  BY <1>1 DEF LexBefore, s, t
<1>4. s[1] <= t[1] /\ (s[1] = t[1] => s[2] <= t[2])
  <2>1. CASE i = 1
    BY <1>1, <1>3, <2>1
  <2>2. CASE i = 2
    <3>1. s[1] = t[1]
      BY <1>3, <2>2
    <3> QED
      BY <1>1, <1>3, <2>2, <3>1
  <2>3. CASE i \in 3 .. 5
    <3>1. s[1] = t[1] /\ s[2] = t[2]
      BY <1>3, <2>3
    <3> QED
      BY <1>1, <3>1
  <2> QED
    BY <2>1, <2>2, <2>3
<1> QED
  BY <1>2, <1>4 DEF s, t

LEMMA StrictPrefixShorter ==
  ASSUME NEW s \in Seq(STRING), NEW t \in Seq(STRING), IsStrictPrefix(s, t)
  PROVE  Len(s) < Len(t)
<1>1. s # t /\ Len(s) <= Len(t) /\ SubSeq(s, 1, Len(s)) = SubSeq(t, 1, Len(s))
  BY DEF IsStrictPrefix, IsPrefix
<1>2. Len(s) \in Nat /\ Len(t) \in Nat
  OBVIOUS
<1>3. ASSUME Len(s) = Len(t) PROVE FALSE
  <2>1. SubSeq(s, 1, Len(s)) = s /\ SubSeq(t, 1, Len(t)) = t
    BY SubSeqFull
  <2> QED
    BY <1>1, <1>3, <2>1
<1> QED
  BY <1>1, <1>2, <1>3

LEMMA PrefixOfItself ==
  ASSUME NEW s \in Seq(STRING)
  PROVE  IsPrefix(s, s)
<1>1. Len(s) \in Nat
  OBVIOUS
<1> QED
  BY <1>1 DEF IsPrefix

(* The global instructions are no file of the repository and have one node. *)
LEMMA GlobalOutside ==
  ASSUME GraphTyped
  PROVE  Global \notin RepoFiles
<1> SUFFICES ASSUME NEW p \in Listed, CanonicalOf(p) = Global PROVE FALSE
  BY DEF RepoFiles
<1>1. p \in Places /\ p # Global
  BY DEF Listed
<1>2. CASE files[p].kind = "link"
  <2>1. PICK q \in Places \ {Global} : files[p] = Link(q)
    BY <1>1, <1>2, KindsDiffer DEF GraphTyped, Files
  <2> QED
    BY <1>1, <2>1, KindsDiffer DEF CanonicalOf
<1>3. CASE files[p].kind # "link"
  BY <1>1, <1>3 DEF CanonicalOf
<1> QED
  BY <1>2, <1>3

LEMMA GlobalOnce ==
  ASSUME GraphTyped, NEW n \in Nodes, NEW m \in Nodes, n.place = Global, m.place = Global
  PROVE  n = m
<1> SUFFICES ASSUME NEW x \in Nodes, x.place = Global PROVE x = [place |-> Global, copy |-> 1]
  OBVIOUS
<1> DEFINE Of(p) == {[place |-> p, copy |-> k] : k \in 1 .. Cardinality({q \in Listed : CanonicalOf(q) = p})}
           G == {[place |-> p, copy |-> 1] : p \in {Global} \cap {q \in Places : Holds(q)}}
<1>1. x \in G \/ \E p \in RepoFiles : x \in Of(p)
  BY DEF Nodes
<1>2. ASSUME NEW p \in RepoFiles, x \in Of(p) PROVE FALSE
  <2>1. PICK k \in 1 .. Cardinality({q \in Listed : CanonicalOf(q) = p}) : x = [place |-> p, copy |-> k]
    BY <1>2
  <2>2. x.place = p
    BY <2>1
  <2> QED
    BY <2>2, GlobalOutside
<1>3. x \in G
  BY <1>1, <1>2
<1> QED
  BY <1>3

LEMMA GraphsList ==
  ASSUME GraphAssumption, GraphTyped
  PROVE  /\ Graph \in [1 .. Cardinality(Kept) -> Kept] /\ Cardinality(Kept) \in Nat
         /\ Kept \subseteq Nodes /\ ToSet(Graph) \subseteq Kept
         /\ \A i, j \in 1 .. Cardinality(Kept) : i < j =>
              LexBefore(OrderKey(Graph[i], NoShift), OrderKey(Graph[j], NoShift))
<1>1. Kept \subseteq Nodes
  BY DEF Kept
<1>2. ShiftsPlaces(NoShift)
  BY DEF NoShift, ShiftsPlaces
<1>3. /\ Graph \in [1 .. Cardinality(Kept) -> Kept] /\ Cardinality(Kept) \in Nat
      /\ \A i, j \in 1 .. Cardinality(Kept) : i < j =>
              LexBefore(OrderKey(Graph[i], NoShift), OrderKey(Graph[j], NoShift))
  <2> DEFINE l == Ordered(Kept, NoShift)
  <2>1. Graph = l
    BY DEF Graph
  <2>2. /\ l \in [1 .. Cardinality(Kept) -> Kept] /\ Cardinality(Kept) \in Nat
        /\ \A i, j \in 1 .. Cardinality(Kept) : i < j =>
              LexBefore(OrderKey(l[i], NoShift), OrderKey(l[j], NoShift))
    BY <1>1, <1>2, OrderedIsList
  <2> HIDE DEF l
  <2> QED
    BY <2>1, <2>2
<1>4. ToSet(Graph) \subseteq Kept
  BY <1>3 DEF ToSet
<1> QED
  BY <1>1, <1>3, <1>4

(* A node that is reported unreachable is in no chain, whatever its scopes,
   its place and the links of the repository. *)
THEOREM DeadNodesStayOut == GraphSpec => []UnreachableNeverApplies
<1>1. GraphTyped => UnreachableNeverApplies
  <2> SUFFICES ASSUME GraphTyped
               PROVE  \A n \in ToSet(Graph) : n.place # Global /\ Unreachable(n.place) =>
                        \A provider \in {"codex", "claude", "gemini", "copilot"}, path \in RepoFiles :
                          ~Applies(n.place, provider, path)
    BY Zenon DEF UnreachableNeverApplies
  <2> SUFFICES ASSUME NEW n \in ToSet(Graph), n.place # Global, Unreachable(n.place),
                      NEW provider \in {"codex", "claude", "gemini", "copilot"}, NEW path \in RepoFiles,
                      Applies(n.place, provider, path)
               PROVE  FALSE
    OBVIOUS
  <2> DEFINE p == n.place
  <2>1. p \in RepoFiles /\ p \in Places
    BY GraphsList, NodesAre, GraphAssumption
  <2>2. CASE Says(p).applyTo.given
    BY <2>2 DEF Unreachable, Applies
  <2>3. CASE ~Says(p).applyTo.given /\ Says(p).include.given
    BY <2>3 DEF Unreachable, Applies, InScopes
  <2>4. CASE ~Says(p).applyTo.given /\ ~Says(p).include.given
    <3>1. ~\E f \in RepoFiles : IsPrefix(p.dir, f.dir)
      BY <2>4 DEF Unreachable
    <3>2. p.dir \in Seq(STRING)
      BY <2>1, GraphAssumption DEF GraphAssumption
    <3> QED
      BY <2>1, <3>1, <3>2, PrefixOfItself
  <2> QED
    BY <2>2, <2>3, <2>4
<1> QED
  BY <1>1, GraphStates, PTL

(* Of an AGENTS.md and the AGENTS.override.md next to it, which has no
   applyTo, or has one, the second has the higher precedence. *)
LEMMA OverrideWeighsMore ==
  ASSUME GraphAssumption, NEW p \in Places, NEW q \in Places, p.name = "AGENTS.override.md",
         q = [p EXCEPT !.name = "AGENTS.md"], q # Global, ~Says(q).applyTo.given
  PROVE  /\ p # Global /\ Depth(q) = Depth(p) /\ Precedence(q) < Precedence(p)
<1>1. p = [dir |-> p.dir, name |-> p.name] /\ q = [dir |-> q.dir, name |-> q.name]
  BY DEF GraphAssumption
<1>2. q.name = "AGENTS.md" /\ q.dir = p.dir
  BY <1>1
<1>3. p # Global
  BY DEF Global, Place
<1>4. Depth(q) = Depth(p) /\ Depth(p) \in Nat
  BY <1>2, <1>3, DepthsAre
<1>5. Provider(p) = "codex" /\ Provider(q) = "codex"
  <2>1. ~IsSkill(p) /\ ~IsSkill(q)
    BY <1>2 DEF IsSkill
  <2>2. Place(<<".github">>, "copilot-instructions.md").name = "copilot-instructions.md"
    BY DEF Place
  <2>3. p # Place(<<".github">>, "copilot-instructions.md") /\ q # Place(<<".github">>, "copilot-instructions.md")
    BY <1>2, <2>2
  <2> QED
    BY <1>2, <2>1, <2>3 DEF Provider
<1>6. Precedence(q) = Depth(p) * 10 + 1
  BY <1>2, <1>4, <1>5 DEF Precedence
<1>7. Precedence(p) = 1000 + Depth(p) * 10 \/ Precedence(p) = Depth(p) * 10 + 51
  BY <1>3, <1>4, <1>5 DEF Precedence
<1> QED
  BY <1>3, <1>4, <1>6, <1>7

(* In every chain enclosing directories come first, an override after what it
   overrides and the global instructions before all others, whatever is in the
   files and whatever a profile shifts. *)
THEOREM ChainsEndClosest == GraphSpec => []ClosestLast
<1>1. GraphTyped => ClosestLast
  <2> SUFFICES ASSUME GraphTyped
               PROVE  \A provider \in {"codex", "claude", "gemini", "copilot"}, path \in Queried, profile \in ReadProfiles :
                      LET stack == EffectiveStack(Graph, provider, path, profile) IN
                      \A i, j \in DOMAIN stack : i < j =>
                        /\ stack[i].place # Global => ~IsStrictPrefix(stack[j].place.dir, stack[i].place.dir)
                        /\ profile.shift = NoShift => stack[j].place # Global
                        /\ stack[i].place.name = "AGENTS.override.md" /\ profile.shift = NoShift =>
                             stack[j].place # [stack[i].place EXCEPT !.name = "AGENTS.md"]
                             \/ Says(stack[j].place).applyTo.given
    BY Zenon DEF ClosestLast
  <2> SUFFICES ASSUME NEW provider \in {"codex", "claude", "gemini", "copilot"}, NEW path \in Queried,
                      NEW profile \in ReadProfiles
               PROVE  LET stack == EffectiveStack(Graph, provider, path, profile) IN
                      \A i, j \in DOMAIN stack : i < j =>
                        /\ stack[i].place # Global => ~IsStrictPrefix(stack[j].place.dir, stack[i].place.dir)
                        /\ profile.shift = NoShift => stack[j].place # Global
                        /\ stack[i].place.name = "AGENTS.override.md" /\ profile.shift = NoShift =>
                             stack[j].place # [stack[i].place EXCEPT !.name = "AGENTS.md"]
                             \/ Says(stack[j].place).applyTo.given
    OBVIOUS
  <2> DEFINE shift == profile.shift
             chosen == {n \in ToSet(Graph) :
                          /\ ~IsSkill(n.place)
                          /\ profile.surfaces.given => n.place \in profile.surfaces.files
                          /\ Applies(n.place, provider, path)}
             stack == EffectiveStack(Graph, provider, path, profile)
  <2>1. chosen \in SUBSET Nodes /\ stack = Ordered(chosen, shift) /\ ShiftsPlaces(shift)
    BY GraphsList, GraphAssumption DEF EffectiveStack, GraphAssumption, ShiftsPlaces
  <2> HIDE DEF chosen, stack
  <2>2. /\ stack \in [1 .. Cardinality(chosen) -> chosen]
        /\ \A i, j \in 1 .. Cardinality(chosen) : i < j =>
              LexBefore(OrderKey(stack[i], shift), OrderKey(stack[j], shift))
    BY <2>1, OrderedIsList, GraphAssumption
  <2>3. ASSUME NEW i \in DOMAIN stack, NEW j \in DOMAIN stack, i < j
        PROVE  /\ stack[i].place # Global => ~IsStrictPrefix(stack[j].place.dir, stack[i].place.dir)
               /\ shift = NoShift => stack[j].place # Global
               /\ stack[i].place.name = "AGENTS.override.md" /\ shift = NoShift =>
                     stack[j].place # [stack[i].place EXCEPT !.name = "AGENTS.md"]
                     \/ Says(stack[j].place).applyTo.given
    <3> DEFINE n == stack[i]
               m == stack[j]
               p == n.place
               q == m.place
    <3>1. n \in Nodes /\ m \in Nodes /\ LexBefore(OrderKey(n, shift), OrderKey(m, shift))
      BY <2>1, <2>2, <2>3
    <3> HIDE DEF n, m
    <3>2. p \in Places /\ q \in Places
      BY <3>1, NodesAre, GraphAssumption
    <3>3. /\ Depth(p) <= Depth(q)
          /\ Depth(p) = Depth(q) => OrderKey(n, shift)[2] <= OrderKey(m, shift)[2]
      BY <2>1, <3>1, KeyBefore, GraphAssumption
    <3>4. Depth(p) \in Nat /\ Depth(q) \in Nat /\ p.dir \in Seq(STRING) /\ q.dir \in Seq(STRING)
      BY <3>2, DepthsAre, GraphAssumption
    <3>5. Precedence(p) \in Nat /\ Precedence(q) \in Nat
      BY <3>2, PrecedencesAre, GraphAssumption
    <3>6. ASSUME shift = NoShift
          PROVE  OrderKey(n, shift)[2] = Precedence(p) /\ OrderKey(m, shift)[2] = Precedence(q)
      BY <3>5, <3>6 DEF OrderKey, NoShift
    <3>7. ASSUME p # Global, IsStrictPrefix(q.dir, p.dir) PROVE FALSE
      <4>1. Len(q.dir) < Len(p.dir) /\ Depth(p) = Len(p.dir)
        BY <3>2, <3>4, <3>7, StrictPrefixShorter, DepthsAre, GraphAssumption
      <4>2. CASE q # Global
        <5>1. Depth(q) = Len(q.dir)
          BY <3>2, <4>2, DepthsAre, GraphAssumption
        <5> QED
          BY <3>3, <3>4, <4>1, <5>1
      <4>3. CASE q = Global
        <5>1. Depth(q) = 0
          BY <4>3 DEF Depth
        <5>2. Len(q.dir) \in Nat
          BY <3>4
        <5> QED
          BY <3>3, <3>4, <4>1, <5>1, <5>2
      <4> QED
        BY <4>2, <4>3
    <3>8. ASSUME shift = NoShift, q = Global PROVE FALSE
      <4>1. Depth(q) = 0 /\ Precedence(q) = 0
        BY <3>8 DEF Depth, Precedence
      <4>2. Precedence(p) = 0
        BY <3>3, <3>4, <3>5, <3>6, <3>8, <4>1
      <4>3. p = Global
        BY <3>4, <4>2 DEF Precedence
      <4>4. n = m
        BY <3>1, <3>8, <4>3, GlobalOnce, GraphAssumption
      <4> QED
        BY <2>1, <3>1, <4>4, KeysTyped, LexIrreflexive, GraphAssumption
    <3>9. ASSUME p.name = "AGENTS.override.md", shift = NoShift,
                 q = [p EXCEPT !.name = "AGENTS.md"], ~Says(q).applyTo.given
          PROVE  FALSE
      <4>1. q # Global
        BY <3>8, <3>9
      <4>2. Depth(q) = Depth(p) /\ Precedence(q) < Precedence(p)
        BY <3>2, <3>9, <4>1, OverrideWeighsMore, GraphAssumption
      <4> QED
        BY <3>3, <3>5, <3>6, <3>9, <4>2
    <3> QED
      BY <3>7, <3>8, <3>9 DEF n, m
  <2> QED
    BY <2>3 DEF stack
<1> QED
  BY <1>1, GraphStates, PTL

-----------------------------------------------------------------------------
(* Duplicates. *)
LEMMA MaximumIsTaken ==
  ASSUME NEW M \in Nat, NEW S, S \subseteq 1 .. M, S # {}
  PROVE  (CHOOSE i \in S : \A j \in S : j <= i) \in S
<1> DEFINE T == {k \in 0 .. M : M - k \in S}
<1>1. T \subseteq Nat /\ T # {}
  <2>1. PICK j : j \in S
    OBVIOUS
  <2>2. M - j \in 0 .. M /\ M - (M - j) = j
    BY <2>1
  <2>3. M - j \in T
    BY <2>1, <2>2
  <2> QED
    BY <2>3
<1>2. PICK k \in T : \A m \in T : k <= m
  <2> HIDE DEF T
  <2> QED
    BY <1>1, Filling!LeastNumber
<1>3. M - k \in S /\ k \in 0 .. M
  BY <1>2
<1>4. ASSUME NEW j \in S PROVE j <= M - k
  <2>1. j \in 1 .. M
    OBVIOUS
  <2>2. M - j \in T
    <3>1. M - j \in 0 .. M /\ M - (M - j) = j
      BY <2>1
    <3> QED
      BY <3>1
  <2>3. k <= M - j
    BY <1>2, <2>2
  <2> QED
    BY <1>3, <2>1, <2>3
<1>5. \E i \in S : \A j \in S : j <= i
  BY <1>3, <1>4
<1> QED
  BY <1>5

(* Without links every file listed is one node. *)
LEMMA OneNodeEach ==
  ASSUME GraphAssumption, GraphTyped, \A p \in Places : files[p].kind # "link", NEW n \in Nodes
  PROVE  n = [place |-> n.place, copy |-> 1]
<1> DEFINE Of(p) == {[place |-> p, copy |-> k] : k \in 1 .. Cardinality({q \in Listed : CanonicalOf(q) = p})}
           G == {[place |-> p, copy |-> 1] : p \in {Global} \cap {q \in Places : Holds(q)}}
<1>1. n \in G \/ \E p \in RepoFiles : n \in Of(p)
  BY DEF Nodes
<1>2. ASSUME NEW p \in RepoFiles, n \in Of(p) PROVE n = [place |-> n.place, copy |-> 1]
  <2>1. PICK k \in 1 .. Cardinality({q \in Listed : CanonicalOf(q) = p}) : n = [place |-> p, copy |-> k]
    BY <1>2
  <2>2. \A q \in Listed : CanonicalOf(q) = q
    BY DEF Listed, CanonicalOf
  <2>3. {q \in Listed : CanonicalOf(q) = p} = {p}
    BY <2>2 DEF RepoFiles
  <2>4. Cardinality({q \in Listed : CanonicalOf(q) = p}) = 1
    BY <2>3, FS_Singleton
  <2>5. k = 1
    BY <2>4
  <2> QED
    BY <2>1, <2>5
<1>3. CASE n \in G
  BY <1>3
<1> QED
  BY <1>1, <1>2, <1>3

LEMMA PairsFrom ==
  ASSUME NEW c, NEW y, y \in ExactPairs(c) \cup NearPairs(c)
  PROVE  \E z \in IndexPairs(c) : y = Stronger(c, z[1], z[2])
BY DEF ExactPairs, NearPairs

LEMMA StrongerOfPair ==
  ASSUME NEW c, NEW z, z \in IndexPairs(c), DOMAIN c \subseteq Int
  PROVE  /\ Stronger(c, z[1], z[2])[1] \in DOMAIN c
         /\ Stronger(c, z[1], z[2])[2] \in DOMAIN c
         /\ Stronger(c, z[1], z[2])[1] < Stronger(c, z[1], z[2])[2]
<1>1. z[1] \in DOMAIN c /\ z[2] \in DOMAIN c /\ z[1] < z[2]
  BY DEF IndexPairs
<1>2. Stronger(c, z[1], z[2]) = <<z[1], z[2]>>
  BY <1>1 DEF Stronger
<1>3. Stronger(c, z[1], z[2])[1] = z[1]
  BY <1>2
<1>4. Stronger(c, z[1], z[2])[2] = z[2]
  BY <1>2
<1> QED
  BY <1>1, <1>3, <1>4, Zenon

LEMMA DuplicatePairs ==
  ASSUME NEW c, NEW y, y \in ExactPairs(c) \cup NearPairs(c), DOMAIN c \subseteq Int
  PROVE  y[1] \in DOMAIN c /\ y[2] \in DOMAIN c /\ y[1] < y[2]
<1>1. PICK z \in IndexPairs(c) : y = Stronger(c, z[1], z[2])
  BY PairsFrom
<1> QED
  BY <1>1, StrongerOfPair, Zenon

PlacedInOrder(c, M, p, place) == \E i, j \in 1 .. M : i < j /\ c[i].place = p /\ c[j].place = place

(* What a node duplicates is told by a pair in which the node is the later one. *)
LEMMA DuplicateOfPair ==
  ASSUME NEW graph, NEW place, NEW M \in Nat, DOMAIN Compared(graph) = 1 .. M,
         NEW p \in DuplicateOf(graph, place)
  PROVE  PlacedInOrder(Compared(graph), M, p, place)
<1> DEFINE c == Compared(graph)
           Of(pairs) == {x[1] : x \in {y \in pairs : c[y[2]].place = place}}
           near == Of(NearPairs(c))
           exact == Of(ExactPairs(c))
           found == IF near # {} THEN {CHOOSE i \in near : \A j \in near : j <= i} ELSE exact
<1>1. p \in {c[i].place : i \in found}
  BY DEF DuplicateOf
<1>2. \A i \in near \cup exact : i \in 1 .. M /\ \E j \in 1 .. M : i < j /\ c[j].place = place
  <2> SUFFICES ASSUME NEW i \in near \cup exact
               PROVE  i \in 1 .. M /\ \E j \in 1 .. M : i < j /\ c[j].place = place
    OBVIOUS
  <2>1. \E y : y \in ExactPairs(c) \cup NearPairs(c) /\ i = y[1] /\ c[y[2]].place = place
    OBVIOUS
  <2> SUFFICES ASSUME NEW y, y \in ExactPairs(c) \cup NearPairs(c), i = y[1], c[y[2]].place = place
               PROVE  i \in 1 .. M /\ \E j \in 1 .. M : i < j /\ c[j].place = place
    BY <2>1
  <2>2. DOMAIN c = 1 .. M /\ DOMAIN c \subseteq Int
    OBVIOUS
  <2> HIDE DEF c
  <2>3. y[1] \in DOMAIN c /\ y[2] \in DOMAIN c /\ y[1] < y[2]
    BY <2>2, DuplicatePairs
  <2> QED
    BY <2>2, <2>3
<1> HIDE DEF c, near, exact
<1>3. found \subseteq near \cup exact
  <2>1. CASE near # {}
    <3>1. near \subseteq 1 .. M
      BY <1>2
    <3>2. (CHOOSE i \in near : \A j \in near : j <= i) \in near
      BY <2>1, <3>1, MaximumIsTaken
    <3> QED
      BY <2>1, <3>2
  <2>2. CASE near = {}
    BY <2>2
  <2> QED
    BY <2>1, <2>2
<1> HIDE DEF found
<1>4. PICK i \in found : p = c[i].place
  BY <1>1
<1>5. i \in 1 .. M /\ \E j \in 1 .. M : i < j /\ c[j].place = place
  BY <1>2, <1>3
<1> QED
  BY <1>4, <1>5 DEF c, PlacedInOrder

EarlierFirst(l, g, M, K) ==
  /\ DOMAIN l = 1 .. M
  /\ \A k, m \in 1 .. M : k < m => \E i, j \in 1 .. K : i < j /\ l[k] = g[i] /\ l[m] = g[j]

(* The nodes compared are nodes of the graph in its order. *)
LEMMA ComparedIs ==
  ASSUME NEW g, NEW K \in Nat, DOMAIN g = 1 .. K
  PROVE  \E M \in Nat : EarlierFirst(Compared(g), g, M, K)
<1> DEFINE I == {i \in DOMAIN g : ~IsSkill(g[i].place) /\ g[i].place # Global}
<1>1. I \subseteq 1 .. K
  OBVIOUS
<1>2. Compared(g) = Sublist(g, I)
  BY DEF Compared
<1> HIDE DEF I
<1>3. IsFiniteSet(I) /\ I \subseteq Int
  <2>1. IsFiniteSet(1 .. K)
    BY FS_Interval
  <2>2. IsFiniteSet(I)
    BY <1>1, <2>1, FS_Subset
  <2> QED
    BY <1>1, <2>2
<1>4. Cardinality(I) \in Nat
  BY <1>3, FS_CardinalityType
<1> DEFINE l == Sublist(g, I)
           M == Cardinality(I)
<1>5. SublistOf(l, g, I)
  BY <1>3, SublistIs
<1> HIDE DEF l
<1>6. /\ DOMAIN l = 1 .. M
      /\ \A k, m \in 1 .. M : k < m => \E i, j \in I : i < j /\ l[k] = g[i] /\ l[m] = g[j]
  BY <1>5 DEF SublistOf
<1> HIDE DEF M
<1>7. \A k, m \in 1 .. M : k < m => \E i, j \in 1 .. K : i < j /\ l[k] = g[i] /\ l[m] = g[j]
  BY <1>1, <1>6
<1>8. M \in Nat
  BY <1>4 DEF M
<1>9. EarlierFirst(l, g, M, K)
  BY <1>6, <1>7 DEF EarlierFirst
<1> QED
  BY <1>2, <1>8, <1>9 DEF l

(* In a repository without links what a node is said to duplicate comes before
   it, whatever the texts are and however many copies there are. *)
THEOREM DuplicatesEndAtOriginals == GraphSpec => []DuplicatesPointEarlier
<1>1. GraphTyped => DuplicatesPointEarlier
  <2> SUFFICES ASSUME GraphTyped, \A p \in Places : files[p].kind # "link"
               PROVE  \A n \in ToSet(Graph) : PointsEarlier(Graph, n)
    BY Zenon DEF DuplicatesPointEarlier
  <2> SUFFICES ASSUME NEW n \in ToSet(Graph), NEW p \in DuplicateOf(Graph, n.place)
               PROVE  LexBefore(OrderKey([place |-> p, copy |-> 1], NoShift),
                                OrderKey([n EXCEPT !.copy = 1], NoShift))
    BY DEF PointsEarlier
  <2> DEFINE g == Graph
             K == Cardinality(Kept)
             c == Compared(g)
  <2>1. /\ g \in [1 .. K -> Kept] /\ K \in Nat /\ Kept \subseteq Nodes /\ n \in Kept
        /\ \A i, j \in 1 .. K : i < j => LexBefore(OrderKey(g[i], NoShift), OrderKey(g[j], NoShift))
    BY GraphsList, GraphAssumption
  <2> HIDE DEF g, K
  <2>2. PICK M \in Nat : EarlierFirst(c, g, M, K)
    BY <2>1, ComparedIs
  <2>3. DOMAIN c = 1 .. M
    BY <2>2 DEF EarlierFirst
  <2>4. \A k, m \in 1 .. M : k < m => \E i, j \in 1 .. K : i < j /\ c[k] = g[i] /\ c[m] = g[j]
    BY <2>2, Zenon DEF EarlierFirst
  <2> HIDE DEF c
  <2>5. PICK k \in 1 .. M, m \in 1 .. M : k < m /\ c[k].place = p /\ c[m].place = n.place
    <3>1. DOMAIN Compared(Graph) = 1 .. M
      BY <2>3 DEF c, g
    <3>2. PlacedInOrder(Compared(Graph), M, p, n.place)
      BY <3>1, DuplicateOfPair
    <3>3. PlacedInOrder(c, M, p, n.place)
      BY <3>2 DEF c, g
    <3> QED
      BY <3>3 DEF PlacedInOrder
  <2>6. PICK i \in 1 .. K, j \in 1 .. K : i < j /\ c[k] = g[i] /\ c[m] = g[j]
    BY <2>4, <2>5
  <2>7. g[i] \in Nodes /\ g[j] \in Nodes /\ LexBefore(OrderKey(g[i], NoShift), OrderKey(g[j], NoShift))
    BY <2>1, <2>6
  <2>8. g[i] = [place |-> p, copy |-> 1] /\ g[j] = [place |-> n.place, copy |-> 1]
    BY <2>5, <2>6, <2>7, OneNodeEach, GraphAssumption
  <2>9. n = [place |-> n.place, copy |-> 1]
    BY <2>1, OneNodeEach, GraphAssumption
  <2>10. [n EXCEPT !.copy = 1] = [place |-> n.place, copy |-> 1]
    BY <2>9
  <2> QED
    BY <2>7, <2>8, <2>10
<1> QED
  BY <1>1, GraphStates, PTL

-----------------------------------------------------------------------------
(* The walk over the repository: real paths. *)

RealStep(t, real, name) ==
  IF Kind(t, Append(real, name)) = "link" THEN t.nodes[Append(real, name)].to ELSE Append(real, name)
RealStart(t) == <<>>

Resolving == INSTANCE FoldFacts WITH Step <- RealStep, Start <- RealStart

LEMMA RealIsFolded ==
  ASSUME NEW t, NEW path
  PROVE  Real(t, path) = Resolving!Folded(t, path)
BY DEF Real, FoldLeft, MapThenFoldSet, Max, Resolving!Folded, Resolving!Highest, RealStep, RealStart

(* What is in a directory is real where the directory is, or leads away. *)
LEMMA RealOfEntry ==
  ASSUME NEW t, NEW path \in Seq(Nat), NEW name \in Nat
  PROVE  Real(t, Append(path, name)) = RealStep(t, Real(t, path), name)
<1> DEFINE n == Len(path)
           r == Append(path, name)
<1>1. n \in Nat /\ DOMAIN path = 1 .. n /\ DOMAIN r = 1 .. (n + 1)
  OBVIOUS
<1>2. r[n + 1] = name /\ \A i \in 1 .. n : r[i] = path[i]
  OBVIOUS
<1> HIDE DEF n, r
<1>3. Resolving!Folded(t, r) = RealStep(t, Resolving!Folded(t, path), r[n + 1])
  BY <1>1, <1>2, Resolving!FoldedOneMore
<1> QED
  BY <1>2, <1>3, RealIsFolded DEF r

LEMMA RealOfNothing ==
  ASSUME NEW t
  PROVE  Real(t, <<>>) = <<>>
<1>1. DOMAIN <<>> = {}
  OBVIOUS
<1>2. Resolving!Folded(t, <<>>) = RealStart(t)
  BY <1>1, Resolving!FoldedNothing
<1> QED
  BY <1>2, RealIsFolded DEF RealStart

LEMMA FrontOfPrefix ==
  ASSUME NEW f \in Seq(Nat), NEW k \in 0 .. (Len(f) - 1)
  PROVE  /\ SubSeq(f, 1, k) \in Seq(Nat) /\ SubSeq(f, 1, k + 1) \in Seq(Nat) /\ f[k + 1] \in Nat
         /\ SubSeq(f, 1, k + 1) = Append(SubSeq(f, 1, k), f[k + 1])
         /\ SubSeq(f, 1, k + 1) # <<>>
         /\ Front(SubSeq(f, 1, k + 1)) = SubSeq(f, 1, k)
         /\ SubSeq(f, 1, k + 1)[Len(SubSeq(f, 1, k + 1))] = f[k + 1]
<1> DEFINE s == SubSeq(f, 1, k + 1)
           a == SubSeq(f, 1, k)
<1>1. Len(f) \in Nat /\ k \in Nat /\ k + 1 \in 1 .. Len(f)
  OBVIOUS
<1>2. s \in Seq(Nat) /\ Len(s) = k + 1 /\ \A i \in 1 .. (k + 1) : s[i] = f[i]
  BY <1>1
<1>3. a \in Seq(Nat) /\ Len(a) = k /\ \A i \in 1 .. k : a[i] = f[i]
  BY <1>1
<1>4. f[k + 1] \in Nat
  BY <1>1
<1> HIDE DEF a, s
<1>5. s = Append(a, f[k + 1])
  <2> DEFINE b == Append(a, f[k + 1])
  <2>1. b \in Seq(Nat) /\ Len(b) = k + 1 /\ b[k + 1] = f[k + 1] /\ \A i \in 1 .. k : b[i] = a[i]
    BY <1>1, <1>3, <1>4
  <2> HIDE DEF b
  <2>2. \A i \in 1 .. Len(s) : s[i] = b[i]
    <3>1. \A i \in 1 .. (k + 1) : i = k + 1 \/ i \in 1 .. k
      BY <1>1
    <3> QED
      BY <1>2, <1>3, <2>1, <3>1
  <2>3. s = b
    BY <1>2, <2>1, <2>2, SeqEqual
  <2> QED
    BY <2>3 DEF b
<1>6. s # <<>>
  BY <1>1, <1>2
<1>7. Front(s) = a
  <2> DEFINE b == SubSeq(s, 1, k)
  <2>1. Len(s) - 1 = k /\ k \in 0 .. Len(s)
    BY <1>1, <1>2
  <2>2. Front(s) = b
    BY <2>1 DEF Front
  <2>3. b \in Seq(Nat) /\ Len(b) = k /\ \A i \in 1 .. k : b[i] = s[i]
    BY <1>2, <2>1
  <2> HIDE DEF b
  <2>4. \A i \in 1 .. Len(a) : a[i] = b[i]
    <3>1. \A i \in 1 .. k : i \in 1 .. (k + 1)
      BY <1>1
    <3> QED
      BY <1>2, <1>3, <2>3, <3>1
  <2>5. a = b
    BY <1>3, <2>3, <2>4, SeqEqual
  <2> QED
    BY <2>2, <2>5
<1>8. s[Len(s)] = f[k + 1]
  BY <1>1, <1>2
<1> QED
  BY <1>2, <1>3, <1>4, <1>5, <1>6, <1>7, <1>8, Zenon DEF a, s

(* Everything on the way to a node is a directory. *)
LEMMA WayToNode ==
  ASSUME WalkAssumption, NEW t \in Trees, NEW f \in DOMAIN t.nodes
  PROVE  /\ f \in Seq(Nat)
         /\ \A k \in 0 .. Len(f) : SubSeq(f, 1, k) \in DOMAIN t.nodes
         /\ \A k \in 0 .. (Len(f) - 1) : Kind(t, SubSeq(f, 1, k)) = "dir"
<1> DEFINE N == Len(f)
           D == DOMAIN t.nodes
           S == {j \in 0 .. N : SubSeq(f, 1, N - j) \in D /\ (j # 0 => Kind(t, SubSeq(f, 1, N - j)) = "dir")}
<1>1. f \in Seq(Nat) /\ N \in Nat /\ SubSeq(f, 1, N) = f
  BY DEF WalkAssumption
<1> HIDE DEF N
<1>2. 0 \in S
  <2>1. N - 0 = N /\ 0 \in 0 .. N
    BY <1>1
  <2> QED
    BY <1>1, <2>1
<1>3. ASSUME NEW j \in Nat, j < N, j \in S PROVE j + 1 \in S
  <2> DEFINE k == N - (j + 1)
  <2>1. k \in 0 .. (N - 1) /\ N - j = k + 1 /\ j + 1 \in 0 .. N /\ j + 1 # 0
    <3> HIDE DEF S
    <3> QED
      BY <1>1, <1>3
  <2>2. SubSeq(f, 1, k + 1) \in D
    BY <1>3, <2>1
  <2> HIDE DEF k
  <2>3. SubSeq(f, 1, k + 1) # <<>> /\ Front(SubSeq(f, 1, k + 1)) = SubSeq(f, 1, k)
    BY <1>1, <2>1, FrontOfPrefix DEF N
  <2>4. SubSeq(f, 1, k) \in D /\ t.nodes[SubSeq(f, 1, k)].kind = "dir"
    BY <2>2, <2>3 DEF WalkAssumption
  <2>5. Kind(t, SubSeq(f, 1, k)) = "dir"
    BY <2>4 DEF Kind
  <2> QED
    BY <2>1, <2>4, <2>5 DEF k
<1> HIDE DEF S
<1>4. \A j \in 0 .. N : j \in S
  BY <1>1, <1>2, <1>3, Resolving!CountingUp
<1>5. ASSUME NEW k \in 0 .. N
      PROVE  SubSeq(f, 1, k) \in D /\ (k # N => Kind(t, SubSeq(f, 1, k)) = "dir")
  <2>1. N - k \in 0 .. N /\ N - (N - k) = k /\ (k # N => N - k # 0)
    BY <1>1
  <2> QED
    BY <1>4, <2>1 DEF S
<1>6. \A k \in 0 .. (N - 1) : k \in 0 .. N /\ k # N
  BY <1>1
<1> QED
  BY <1>1, <1>5, <1>6 DEF N

(* A node that is no link is at its real path. *)
LEMMA RealOfNode ==
  ASSUME WalkAssumption, NEW t \in Trees, NEW f \in DOMAIN t.nodes, Kind(t, f) # "link"
  PROVE  Real(t, f) = f
<1> DEFINE N == Len(f)
           S == {k \in 0 .. N : Real(t, SubSeq(f, 1, k)) = SubSeq(f, 1, k)}
<1>1. f \in Seq(Nat) /\ N \in Nat /\ SubSeq(f, 1, N) = f /\ SubSeq(f, 1, 0) = <<>>
  BY WayToNode
<1> HIDE DEF N
<1>2. 0 \in S
  <2>1. 0 \in 0 .. N
    BY <1>1
  <2> QED
    BY <1>1, <2>1, RealOfNothing
<1>3. ASSUME NEW k \in Nat, k < N, k \in S PROVE k + 1 \in S
  <2>1. k \in 0 .. (N - 1) /\ k + 1 \in 0 .. N
    <3> HIDE DEF S
    <3> QED
      BY <1>1, <1>3
  <2>2. /\ SubSeq(f, 1, k) \in Seq(Nat) /\ f[k + 1] \in Nat
        /\ SubSeq(f, 1, k + 1) = Append(SubSeq(f, 1, k), f[k + 1])
    BY <1>1, <2>1, FrontOfPrefix DEF N
  <2>3. Kind(t, SubSeq(f, 1, k + 1)) # "link"
    <3>1. CASE k + 1 = N
      BY <1>1, <3>1
    <3>2. CASE k + 1 # N
      <4>1. k + 1 \in 0 .. (N - 1)
        BY <1>1, <2>1, <3>2
      <4> QED
        BY <4>1, WayToNode DEF N
    <3> QED
      BY <3>1, <3>2
  <2>4. Real(t, SubSeq(f, 1, k)) = SubSeq(f, 1, k)
    BY <1>3
  <2>5. Real(t, SubSeq(f, 1, k + 1)) = RealStep(t, SubSeq(f, 1, k), f[k + 1])
    <3> DEFINE a == SubSeq(f, 1, k)
               name == f[k + 1]
    <3>1. a \in Seq(Nat) /\ name \in Nat
      BY <2>2
    <3>2. Real(t, SubSeq(f, 1, k + 1)) = Real(t, Append(a, name)) /\ Real(t, a) = a
      BY <2>2, <2>4
    <3> HIDE DEF a, name
    <3>3. Real(t, Append(a, name)) = RealStep(t, Real(t, a), name)
      BY <3>1, RealOfEntry
    <3> QED
      BY <3>2, <3>3 DEF a, name
  <2> QED
    BY <2>1, <2>2, <2>3, <2>5 DEF RealStep
<1> HIDE DEF S
<1>4. \A k \in 0 .. N : k \in S
  BY <1>1, <1>2, <1>3, Resolving!CountingUp
<1>5. N \in 0 .. N
  BY <1>1
<1> QED
  BY <1>1, <1>4, <1>5 DEF S

(* The names in a directory. *)
NodesIn(t, dir) == {q \in DOMAIN t.nodes : q # <<>> /\ Front(q) = Real(t, dir)}
NamesIn(t, dir) == {p[Len(p)] : p \in NodesIn(t, dir)}

(* All names of a directory are read. *)
LEMMA EntriesAre ==
  ASSUME WalkAssumption, NEW t \in Trees, NEW dir
  PROVE  /\ NamesIn(t, dir) \subseteq Nat /\ Entries(t, dir) \in Seq(Nat)
         /\ \A name \in NamesIn(t, dir) : \E i \in 1 .. Len(Entries(t, dir)) : Entries(t, dir)[i] = name
<1> DEFINE Q == NodesIn(t, dir)
           names == NamesIn(t, dir)
           R == {x \in names \X names : x[1] < x[2]}
           n == Cardinality(names)
           l == Entries(t, dir)
           g == [p \in Q |-> p[Len(p)]]
<1>1. names \subseteq Nat
  <2> SUFFICES ASSUME NEW p \in Q PROVE p[Len(p)] \in Nat
    BY DEF NamesIn
  <2>1. p \in Seq(Nat) /\ p # <<>>
    BY DEF NodesIn, WalkAssumption
  <2> QED
    BY <2>1
<1>2. IsFiniteSet(names)
  <2>1. Q \subseteq DOMAIN t.nodes /\ IsFiniteSet(DOMAIN t.nodes)
    BY DEF NodesIn, WalkAssumption
  <2>2. IsFiniteSet(Q)
    BY <2>1, FS_Subset
  <2>3. g \in Surjection(Q, names)
    BY DEF Surjection, NamesIn
  <2> HIDE DEF Q, g, names
  <2> QED
    BY <2>2, <2>3, FS_Surjection
<1>3. l = ListedBy(names, R)
  BY DEF Entries, NamesIn, NodesIn
<1>4. OrderOn(names, R)
  <2>1. \A x, y \in names : <<x, y>> \in R <=> x < y
    OBVIOUS
  <2> HIDE DEF R, names
  <2> QED
    BY <1>1, <2>1 DEF OrderOn
<1> HIDE DEF R, names, l
<1>5. ListOf(l, names, R) /\ n \in Nat
  BY <1>2, <1>3, <1>4, ListedIsList, FS_CardinalityType
<1>6. l \in [1 .. n -> names] /\ \A x \in names : \E i \in 1 .. n : l[i] = x
  BY <1>5 DEF ListOf
<1> HIDE DEF n
<1>7. l \in [1 .. n -> Nat] /\ n \in Nat
  BY <1>1, <1>5, <1>6
<1>8. l \in Seq(Nat) /\ Len(l) = n
  BY <1>7, SeqDef
<1> QED
  BY <1>1, <1>6, <1>8 DEF names, l

-----------------------------------------------------------------------------
(* The walk over the repository: what is found. *)

Codes == {"bytes", "files", "total", "cycle", "blocked", "unreadable", "depth", "aborted", "deadline"}

Directories == [at : Seq(Nat), path : Seq(Nat)]

WalkerTypes(w) ==
  w \in [queue : Seq(Directories), visited : SUBSET Seq(Nat), entered : SUBSET Directories,
         yielded : Seq(Seq(Nat)), problems : SUBSET (Codes \X Seq(Nat)),
         status : {"walking", "done", "stopped"}]

(* A directory of the queue is read where its path leads. *)
Resolved(t, d) == Real(t, d.at) = Real(t, d.path) /\ Kind(t, Real(t, d.at)) = "dir"

WalkerInv(t, w) ==
  /\ WalkerTypes(w)
  /\ ToSet(w.queue) \subseteq w.entered
  /\ \A d \in w.entered : Resolved(t, d)
  /\ \A at \in w.visited : \E d \in w.entered : d.at = at

Excuses == {"bytes", "blocked", "depth", "unreadable"}

(* What became of an entry of a directory. *)
AccountedFor(t, w, path) ==
  \/ Ignored(t, path)
  \/ \E code \in Excuses : <<code, path>> \in w.problems
  \/ Kind(t, Real(t, path)) \in {"file", "special"} /\ path \in ToSet(w.yielded)
  \/ Kind(t, Real(t, path)) = "dir" /\ \E d \in w.entered : Real(t, d.at) = Real(t, path)

Finished(t, w, d) ==
  \/ \E code \in {"depth", "unreadable"} : <<code, d.path>> \in w.problems
  \/ \A name \in NamesIn(t, d.at) : AccountedFor(t, w, Append(d.path, name))

(* Nothing is taken back while the walk goes on. *)
GoesOn(v, w) ==
  /\ v.entered \subseteq w.entered /\ v.problems \subseteq w.problems
  /\ ToSet(v.yielded) \subseteq ToSet(w.yielded) /\ ToSet(v.queue) \subseteq ToSet(w.queue)
  /\ w.entered \subseteq v.entered \cup ToSet(w.queue)
  /\ w.status \in {v.status, "stopped"}

LEMMA GoesOnTogether ==
  ASSUME NEW u, NEW v, NEW w, GoesOn(u, v), GoesOn(v, w)
  PROVE  GoesOn(u, w)
BY DEF GoesOn

LEMMA AccountStays ==
  ASSUME NEW t, NEW v, NEW w, GoesOn(v, w), NEW path, AccountedFor(t, v, path)
  PROVE  AccountedFor(t, w, path)
BY DEF GoesOn, AccountedFor

LEMMA FinishedStays ==
  ASSUME NEW t, NEW v, NEW w, GoesOn(v, w), NEW d, Finished(t, v, d)
  PROVE  Finished(t, w, d)
BY AccountStays DEF GoesOn, Finished

(* r is w with one problem more. *)
Complained(w, r, code, path) ==
  /\ WalkerTypes(r) /\ r.problems = w.problems \cup {<<code, path>>}
  /\ r.queue = w.queue /\ r.visited = w.visited /\ r.entered = w.entered
  /\ r.yielded = w.yielded /\ r.status = w.status

LEMMA ProblemIs ==
  ASSUME NEW w, WalkerTypes(w), NEW code \in Codes, NEW path \in Seq(Nat)
  PROVE  Complained(w, Problem(w, code, path), code, path)
<1> DEFINE r == Problem(w, code, path)
           ps == w.problems \cup {<<code, path>>}
<1>1. r = [w EXCEPT !.problems = ps]
  BY DEF Problem
<1>2. ps \in SUBSET (Codes \X Seq(Nat))
  BY DEF WalkerTypes
<1> HIDE DEF r, ps
<1>3. WalkerTypes(r)
  BY <1>1, <1>2 DEF WalkerTypes
<1>4. /\ r.problems = ps /\ r.queue = w.queue /\ r.visited = w.visited /\ r.entered = w.entered
      /\ r.yielded = w.yielded /\ r.status = w.status
  BY <1>1 DEF WalkerTypes
<1> QED
  BY <1>3, <1>4 DEF r, ps, Complained

LEMMA StopIs ==
  ASSUME NEW w, WalkerTypes(w), NEW code \in Codes
  PROVE  LET r == Stop(w, code) IN
         /\ WalkerTypes(r) /\ w.problems \subseteq r.problems
         /\ r.queue = w.queue /\ r.visited = w.visited /\ r.entered = w.entered
         /\ r.yielded = w.yielded /\ r.status = "stopped"
<1> DEFINE p == Problem(w, code, <<>>)
<1>1. /\ WalkerTypes(p) /\ p.problems = w.problems \cup {<<code, <<>>>>}
      /\ p.queue = w.queue /\ p.visited = w.visited /\ p.entered = w.entered
      /\ p.yielded = w.yielded /\ p.status = w.status
  <2>1. <<>> \in Seq(Nat)
    OBVIOUS
  <2> QED
    BY <2>1, ProblemIs DEF Complained
<1>2. Stop(w, code) = [p EXCEPT !.status = "stopped"]
  BY DEF Stop
<1> DEFINE r == Stop(w, code)
           stopped == "stopped"
<1>3. stopped \in {"walking", "done", "stopped"}
  OBVIOUS
<1> HIDE DEF p, r, stopped
<1>4. r = [p EXCEPT !.status = stopped]
  BY <1>2 DEF r, stopped
<1>5. WalkerTypes(p)
  BY <1>1
<1>6. WalkerTypes(r)
  BY <1>4, <1>5, <1>3 DEF WalkerTypes
<1>7. /\ r.problems = p.problems /\ r.queue = p.queue /\ r.visited = p.visited
      /\ r.entered = p.entered /\ r.yielded = p.yielded /\ r.status = stopped
  BY <1>4, <1>5 DEF WalkerTypes
<1> QED
  BY <1>1, <1>6, <1>7 DEF r, stopped

LEMMA EnqueueIs ==
  ASSUME NEW w, WalkerTypes(w), NEW at \in Seq(Nat), NEW path \in Seq(Nat)
  PROVE  LET r == Enqueue(w, at, path) IN
         /\ WalkerTypes(r) /\ r.problems = w.problems
         /\ r.queue = Append(w.queue, Directory(at, path))
         /\ r.visited = w.visited \cup {at}
         /\ r.entered = w.entered \cup {Directory(at, path)}
         /\ r.yielded = w.yielded /\ r.status = w.status
<1>1. Directory(at, path) \in Directories
  BY DEF Directory, Directories
<1> DEFINE r == Enqueue(w, at, path)
           q == Append(w.queue, Directory(at, path))
           v == w.visited \cup {at}
           e == w.entered \cup {Directory(at, path)}
<1>2. r = [w EXCEPT !.queue = q, !.visited = v, !.entered = e]
  BY DEF Enqueue
<1>3. q \in Seq(Directories) /\ v \in SUBSET Seq(Nat) /\ e \in SUBSET Directories
  BY <1>1 DEF WalkerTypes
<1> HIDE DEF r, q, v, e
<1>4. WalkerTypes(r)
  BY <1>2, <1>3 DEF WalkerTypes
<1>5. /\ r.problems = w.problems /\ r.queue = q /\ r.visited = v /\ r.entered = e
      /\ r.yielded = w.yielded /\ r.status = w.status
  BY <1>2 DEF WalkerTypes
<1> QED
  BY <1>4, <1>5 DEF r, q, v, e

(* The entry at path has been dealt with between w and r. *)
Handled(w, r, path) ==
  /\ WalkerInv(tree, r) /\ GoesOn(w, r)
  /\ r.status # "stopped" => AccountedFor(tree, r, path)

(* A file that is found is listed or excused. *)
LEMMA FileFound ==
  ASSUME NEW w, WalkerInv(tree, w), NEW path \in Seq(Nat), Kind(tree, Real(tree, path)) \in {"file", "special"}
  PROVE  Handled(w, FoundFile(w, path), path)
<1> DEFINE r == FoundFile(w, path)
           q == Problem(w, "bytes", path)
           found == Append(w.yielded, path)
           more == [w EXCEPT !.yielded = found]
<1>1. r = q \/ r = more \/ \E code \in Codes : r = Stop(more, code)
  <2>1. tree.nodes[Real(tree, path)].size > limits.fileBytes => r = q
    BY DEF FoundFile
  <2>2. ~(tree.nodes[Real(tree, path)].size > limits.fileBytes) =>
           r = CASE Len(more.yielded) >= limits.files -> Stop(more, "files")
                 [] Len(more.yielded) < limits.files /\ Bytes(more.yielded) >= limits.totalBytes ->
                      Stop(more, "total")
                 [] OTHER -> more
    BY DEF FoundFile
  <2>3. "files" \in Codes /\ "total" \in Codes
    BY DEF Codes
  <2> HIDE DEF r, q, more
  <2> QED
    BY <2>1, <2>2, <2>3, Zenon
<1>2. CASE r = q
  <2>1. Complained(w, q, "bytes", path)
    BY ProblemIs DEF WalkerInv, Codes
  <2> HIDE DEF q
  <2>2. WalkerInv(tree, q)
    BY <2>1 DEF WalkerInv, Complained
  <2>3. GoesOn(w, q)
    BY <2>1 DEF GoesOn, Complained
  <2>4. AccountedFor(tree, q, path)
    BY <2>1 DEF AccountedFor, Excuses, Complained
  <2> QED
    BY <1>2, <2>2, <2>3, <2>4 DEF Handled
<1>3. /\ WalkerTypes(more) /\ more.problems = w.problems
      /\ more.queue = w.queue /\ more.visited = w.visited /\ more.entered = w.entered
      /\ ToSet(more.yielded) = ToSet(w.yielded) \cup {path} /\ more.status = w.status
  <2>1. w.yielded \in Seq(Seq(Nat)) /\ WalkerTypes(w)
    BY DEF WalkerInv, WalkerTypes
  <2>2. found \in Seq(Seq(Nat)) /\ ToSet(found) = ToSet(w.yielded) \cup {path}
    BY <2>1, AppendedSet
  <2> HIDE DEF found
  <2>3. WalkerTypes(more)
    BY <2>1, <2>2 DEF WalkerTypes
  <2>4. /\ more.problems = w.problems /\ more.queue = w.queue /\ more.visited = w.visited
        /\ more.entered = w.entered /\ more.yielded = found /\ more.status = w.status
    BY <2>1 DEF WalkerTypes
  <2> QED
    BY <2>2, <2>3, <2>4
<1> HIDE DEF more, q
<1>4. CASE r = more
  <2>1. WalkerInv(tree, more)
    BY <1>3 DEF WalkerInv
  <2>2. GoesOn(w, more)
    BY <1>3 DEF GoesOn
  <2>3. AccountedFor(tree, more, path)
    BY <1>3 DEF AccountedFor
  <2> QED
    BY <1>4, <2>1, <2>2, <2>3 DEF Handled
<1>5. ASSUME NEW code \in Codes, r = Stop(more, code)
      PROVE  WalkerInv(tree, r) /\ GoesOn(w, r) /\ r.status = "stopped"
  <2>1. /\ WalkerTypes(r) /\ more.problems \subseteq r.problems
        /\ r.queue = more.queue /\ r.visited = more.visited /\ r.entered = more.entered
        /\ r.yielded = more.yielded /\ r.status = "stopped"
    BY <1>3, <1>5, StopIs
  <2> HIDE DEF r
  <2>2. WalkerInv(tree, r)
    BY <1>3, <2>1 DEF WalkerInv
  <2>3. GoesOn(w, r)
    BY <1>3, <2>1 DEF GoesOn
  <2> QED
    BY <2>1, <2>2, <2>3
<1> HIDE DEF r
<1> QED
  BY <1>1, <1>2, <1>4, <1>5 DEF r, Handled

(* A directory that is found was found before, is put into the queue or is
   excused. *)
LEMMA DirectoryFound ==
  ASSUME NEW w, WalkerInv(tree, w), NEW path \in Seq(Nat), NEW at \in Seq(Nat),
         Kind(tree, Real(tree, path)) = "dir", Real(tree, at) = Real(tree, path)
  PROVE  Handled(w, FoundDirectory(w, at, path), path)
<1> DEFINE r == FoundDirectory(w, at, path)
           q == Problem(w, "cycle", path)
           e == Enqueue(w, at, path)
           d == Directory(at, path)
<1>1. \/ Ignored(tree, path) /\ r = w
      \/ at \in w.visited /\ r = q
      \/ r = e
  BY DEF FoundDirectory
<1>2. CASE Ignored(tree, path) /\ r = w
  BY <1>2 DEF GoesOn, AccountedFor, Handled
<1>3. CASE at \in w.visited /\ r = q
  <2>1. Complained(w, q, "cycle", path)
    BY ProblemIs DEF WalkerInv, Codes
  <2> HIDE DEF q
  <2>2. WalkerInv(tree, q)
    BY <2>1 DEF WalkerInv, Complained
  <2>3. GoesOn(w, q)
    BY <2>1 DEF GoesOn, Complained
  <2>4. PICK x \in w.entered : x.at = at
    BY <1>3 DEF WalkerInv
  <2>5. AccountedFor(tree, q, path)
    BY <2>1, <2>4 DEF AccountedFor, Complained
  <2> QED
    BY <1>3, <2>2, <2>3, <2>5 DEF Handled
<1>4. CASE r = e
  <2>1. /\ WalkerTypes(e) /\ e.problems = w.problems /\ e.queue = Append(w.queue, d)
        /\ e.visited = w.visited \cup {at} /\ e.entered = w.entered \cup {d}
        /\ e.yielded = w.yielded /\ e.status = w.status
    BY EnqueueIs DEF WalkerInv
  <2>2. d.at = at /\ d.path = path /\ d \in Directories
    BY DEF Directory, Directories
  <2>3. ToSet(Append(w.queue, d)) = ToSet(w.queue) \cup {d}
    <3>1. w.queue \in Seq(Directories)
      BY DEF WalkerInv, WalkerTypes
    <3> HIDE DEF d
    <3> QED
      BY <2>2, <3>1, AppendedSet
  <2> HIDE DEF e, d
  <2>4. Resolved(tree, d)
    BY <2>2 DEF Resolved
  <2>5. WalkerInv(tree, e)
    BY <2>1, <2>2, <2>3, <2>4 DEF WalkerInv
  <2>6. GoesOn(w, e)
    BY <2>1, <2>3 DEF GoesOn
  <2>7. AccountedFor(tree, e, path)
    BY <2>1, <2>2 DEF AccountedFor
  <2> QED
    BY <1>4, <2>5, <2>6, <2>7 DEF Handled
<1> QED
  BY <1>1, <1>2, <1>3, <1>4 DEF Handled

(* Whatever an entry is, it is accounted for. *)
LEMMA EntryInspected ==
  ASSUME WalkAssumption, tree \in Trees, NEW w, WalkerInv(tree, w), NEW path \in Seq(Nat)
  PROVE  Handled(w, Inspect(w, path), path)
<1> DEFINE r == Inspect(w, path)
           real == Real(tree, path)
           kind == Kind(tree, real)
           link == Kind(tree, Append(Real(tree, Front(path)), Last(path))) = "link"
           at == IF link THEN real ELSE path
<1>1. \/ w.status = "stopped" /\ r = w
      \/ kind = "dir" /\ r = FoundDirectory(w, at, path)
      \/ kind \in {"file", "special"} /\ r = FoundFile(w, path)
      \/ \E code \in {"blocked", "unreadable"} : r = Problem(w, code, path)
  <2>1. r = CASE w.status = "stopped" -> w
              [] w.status # "stopped" /\ real = Outside -> Problem(w, "blocked", path)
              [] w.status # "stopped" /\ kind = "dir" -> FoundDirectory(w, at, path)
              [] w.status # "stopped" /\ (kind = "file" \/ (link /\ kind = "special")) ->
                   FoundFile(w, path)
              [] OTHER -> Problem(w, IF kind = "absent" THEN "unreadable" ELSE "blocked", path)
    BY Zenon DEF Inspect
  <2> HIDE DEF r, real, kind, link, at
  <2> DEFINE code == IF kind = "absent" THEN "unreadable" ELSE "blocked"
  <2>2. code \in {"blocked", "unreadable"}
    OBVIOUS
  <2> HIDE DEF code
  <2>3. \/ w.status = "stopped" /\ r = w
        \/ r = Problem(w, "blocked", path)
        \/ kind = "dir" /\ r = FoundDirectory(w, at, path)
        \/ (kind = "file" \/ kind = "special") /\ r = FoundFile(w, path)
        \/ r = Problem(w, code, path)
    <3>1. CASE w.status = "stopped"
      BY <2>1, <3>1
    <3>2. CASE w.status # "stopped" /\ real = Outside
      BY <2>1, <3>2
    <3>3. CASE w.status # "stopped" /\ real # Outside /\ kind = "dir"
      BY <2>1, <3>3
    <3>4. CASE w.status # "stopped" /\ real # Outside /\ kind # "dir" /\ (kind = "file" \/ (link /\ kind = "special"))
      BY <2>1, <3>4
    <3>5. CASE w.status # "stopped" /\ real # Outside /\ kind # "dir" /\ ~(kind = "file" \/ (link /\ kind = "special"))
      BY <2>1, <3>5 DEF code
    <3> QED
      BY <3>1, <3>2, <3>3, <3>4, <3>5
  <2> QED
    BY <2>2, <2>3, Zenon
<1>2. CASE w.status = "stopped" /\ r = w
  BY <1>2 DEF GoesOn, Handled
<1>3. CASE kind = "dir" /\ r = FoundDirectory(w, at, path)
  <2>1. real \in DOMAIN tree.nodes
    BY <1>3 DEF Kind
  <2>2. Real(tree, real) = real /\ real \in Seq(Nat)
    <3> HIDE DEF real
    <3>1. Kind(tree, real) # "link"
      BY <1>3
    <3> QED
      BY <2>1, <3>1, RealOfNode, WayToNode
  <2>3. Real(tree, at) = real /\ at \in Seq(Nat)
    BY <2>2
  <2>4. Kind(tree, Real(tree, path)) = "dir" /\ Real(tree, at) = Real(tree, path)
    BY <1>3, <2>3
  <2> HIDE DEF at, r
  <2> QED
    BY <1>3, <2>3, <2>4, DirectoryFound DEF r
<1>4. CASE kind \in {"file", "special"} /\ r = FoundFile(w, path)
  <2>1. Kind(tree, Real(tree, path)) \in {"file", "special"}
    BY <1>4
  <2> HIDE DEF r
  <2> QED
    BY <1>4, <2>1, FileFound DEF r
<1>5. ASSUME NEW code \in {"blocked", "unreadable"}, r = Problem(w, code, path) PROVE Handled(w, r, path)
  <2>1. Complained(w, r, code, path)
    BY <1>5, ProblemIs DEF WalkerInv, Codes
  <2> HIDE DEF r
  <2>2. WalkerInv(tree, r)
    BY <2>1 DEF WalkerInv, Complained
  <2>3. GoesOn(w, r)
    BY <2>1 DEF GoesOn, Complained
  <2>4. AccountedFor(tree, r, path)
    BY <2>1 DEF AccountedFor, Excuses, Complained
  <2> QED
    BY <2>2, <2>3, <2>4 DEF Handled
<1> HIDE DEF r, kind
<1> QED
  BY <1>1, <1>2, <1>3, <1>4, <1>5 DEF r

ReadStep(w, walker, name) == Inspect(walker, Append(w[1].path, name))
ReadStart(w) == w[2]

Reading == INSTANCE FoldFacts WITH Step <- ReadStep, Start <- ReadStart

LEMMA ReadIsFolded ==
  ASSUME NEW d, NEW names
  PROVE  ReadNames(d, names) = Reading!Folded(<<d, Walker>>, names)
BY DEF ReadNames, FoldLeft, MapThenFoldSet, Max, Reading!Folded, Reading!Highest, ReadStep, ReadStart

AllRead(d, names, r) ==
  /\ WalkerInv(tree, r) /\ GoesOn(Walker, r)
  /\ r.status # "stopped" =>
       \A i \in 1 .. Len(names) : AccountedFor(tree, r, Append(d.path, names[i]))

(* When the names of a directory have been read all of them are accounted for. *)
LEMMA NamesRead ==
  ASSUME WalkAssumption, tree \in Trees, WalkerInv(tree, Walker), NEW d \in Directories,
         NEW names \in Seq(Nat)
  PROVE  AllRead(d, names, ReadNames(d, names))
<1> DEFINE n == Len(names)
           w == <<d, Walker>>
           c == [k \in 0 .. n |-> Reading!Folded(w, SubSeq(names, 1, k))]
           path == [i \in 1 .. n |-> Append(d.path, names[i])]
           Ok(k) == /\ WalkerInv(tree, c[k]) /\ GoesOn(Walker, c[k])
                    /\ c[k].status # "stopped" => \A i \in 1 .. k : AccountedFor(tree, c[k], path[i])
           S == {k \in 0 .. n : Ok(k)}
<1>1. n \in Nat /\ \A i \in 1 .. n : path[i] \in Seq(Nat)
  BY DEF Directories
<1>2. /\ c[0] = Walker /\ ReadNames(d, names) = c[n]
      /\ \A k \in 0 .. (n - 1) : c[k + 1] = Inspect(c[k], path[k + 1])
  <2>1. /\ Reading!Folded(w, SubSeq(names, 1, 0)) = ReadStart(w)
        /\ \A k \in 0 .. (n - 1) :
             Reading!Folded(w, SubSeq(names, 1, k + 1)) =
               ReadStep(w, Reading!Folded(w, SubSeq(names, 1, k)), names[k + 1])
        /\ SubSeq(names, 1, n) = names
    <3> HIDE DEF w
    <3> QED
      BY Reading!FoldedBeginnings
  <2>2. ReadStart(w) = Walker
    BY DEF ReadStart
  <2>3. \A walker, name : ReadStep(w, walker, name) = Inspect(walker, Append(d.path, name))
    BY DEF ReadStep
  <2>4. ReadNames(d, names) = Reading!Folded(w, names)
    BY ReadIsFolded
  <2>5. \A k \in 0 .. (n - 1) : k \in 0 .. n /\ k + 1 \in 0 .. n /\ k + 1 \in 1 .. n
    BY <1>1
  <2>6. 0 \in 0 .. n /\ n \in 0 .. n
    BY <1>1
  <2> HIDE DEF w, n
  <2> QED
    BY <2>1, <2>2, <2>3, <2>4, <2>5, <2>6
<1> HIDE DEF c, path, n
<1>3. 0 \in S
  <2>1. GoesOn(Walker, Walker)
    BY DEF GoesOn
  <2>2. 0 \in 0 .. n /\ 1 .. 0 = {}
    BY <1>1
  <2> QED
    BY <1>2, <2>1, <2>2
<1>4. ASSUME NEW k \in Nat, k < n, k \in S PROVE k + 1 \in S
  <2>1. k \in 0 .. (n - 1) /\ k + 1 \in 0 .. n /\ k + 1 \in 1 .. n
    <3> HIDE DEF S
    <3> QED
      BY <1>1, <1>4
  <2> DEFINE u == c[k]
             r == c[k + 1]
  <2>2. Ok(k)
    BY <1>4
  <2>3. r = Inspect(u, path[k + 1])
    BY <1>2, <2>1
  <2>4. WalkerInv(tree, u) /\ GoesOn(Walker, u)
    BY <2>2
  <2> HIDE DEF u, r
  <2>5. /\ WalkerInv(tree, r) /\ GoesOn(u, r)
        /\ r.status # "stopped" => AccountedFor(tree, r, path[k + 1])
    BY <1>1, <2>1, <2>3, <2>4, EntryInspected DEF Handled
  <2>6. GoesOn(Walker, r)
    BY <2>4, <2>5, GoesOnTogether
  <2>7. ASSUME r.status # "stopped", NEW i \in 1 .. (k + 1) PROVE AccountedFor(tree, r, path[i])
    <3>1. CASE i = k + 1
      BY <2>5, <2>7, <3>1
    <3>2. CASE i # k + 1
      <4>1. i \in 1 .. k
        BY <3>2
      <4>2. u.status # "stopped"
        BY <2>5, <2>7 DEF GoesOn
      <4>3. AccountedFor(tree, u, path[i])
        BY <2>2, <4>1, <4>2 DEF u
      <4> QED
        BY <2>5, <4>3, AccountStays
    <3> QED
      BY <3>1, <3>2
  <2>8. Ok(k + 1)
    BY <2>5, <2>6, <2>7 DEF r
  <2> QED
    BY <2>1, <2>8
<1> HIDE DEF S
<1>5. \A k \in 0 .. n : k \in S
  BY <1>1, <1>3, <1>4, Reading!CountingUp
<1>6. n \in 0 .. n
  BY <1>1
<1>7. Ok(n)
  BY <1>5, <1>6 DEF S
<1>8. \A i \in 1 .. n : path[i] = Append(d.path, names[i])
  BY DEF path
<1> QED
  BY <1>2, <1>7, <1>8 DEF n, AllRead

-----------------------------------------------------------------------------
(* The walk over the repository: nothing is missed. *)

State == [queue |-> queue, visited |-> visited, entered |-> entered, yielded |-> yielded,
          problems |-> problems, status |-> status]

(* Every directory that was entered is still to be read or is finished. *)
WalkInv ==
  /\ tree \in Trees /\ WalkerInv(tree, State)
  /\ Directory(<<>>, <<>>) \in entered
  /\ status = "done" => queue = <<>>
  /\ status # "stopped" => \A d \in entered : d \in ToSet(queue) \/ Finished(tree, State, d)

LEMMA WalkBegins == ASSUME WalkAssumption, WalkInit PROVE WalkInv
<1> DEFINE d == Directory(<<>>, <<>>)
<1>1. d \in Directories /\ d.at = <<>> /\ d.path = <<>> /\ <<>> \in Seq(Nat)
  BY DEF Directory, Directories
<1>2. Resolved(tree, d)
  <2>1. <<>> \in DOMAIN tree.nodes /\ tree.nodes[<<>>].kind = "dir"
    BY DEF WalkAssumption, WalkInit
  <2>2. Kind(tree, <<>>) = "dir"
    BY <2>1 DEF Kind
  <2> HIDE DEF d
  <2> QED
    BY <1>1, <2>2, RealOfNothing DEF Resolved
<1>3. /\ tree \in Trees /\ queue = <<d>> /\ visited = {<<>>} /\ entered = {d}
      /\ yielded = <<>> /\ problems = {} /\ status = "walking"
  BY DEF WalkInit
<1> HIDE DEF d
<1>4. <<d>> \in Seq(Directories) /\ ToSet(<<d>>) = {d} /\ <<>> \in Seq(Seq(Nat))
  BY <1>1 DEF ToSet
<1>5. WalkerTypes(State)
  BY <1>1, <1>3, <1>4 DEF WalkerTypes, State
<1>6. WalkerInv(tree, State)
  BY <1>1, <1>2, <1>3, <1>4, <1>5 DEF WalkerInv, State
<1> QED
  BY <1>1, <1>3, <1>4, <1>6 DEF WalkInv, d

(* A walker that has the state of the walk. *)
LEMMA BecomesIs ==
  ASSUME NEW w, WalkerTypes(w), Becomes(w)
  PROVE  State' = w /\ tree' = tree
<1>1. w = [queue |-> w.queue, visited |-> w.visited, entered |-> w.entered, yielded |-> w.yielded,
           problems |-> w.problems, status |-> w.status]
  BY DEF WalkerTypes
<1> QED
  BY <1>1 DEF Becomes, State

(* The first directory of the queue is taken out. *)
LEMMA FirstTaken ==
  ASSUME WalkInv, queue # <<>>
  PROVE  /\ Head(queue) \in Directories /\ Head(queue) \in entered
         /\ ToSet(queue) = {Head(queue)} \cup ToSet(Tail(queue))
         /\ WalkerInv(tree, Walker)
<1> DEFINE h == Head(queue)
           q == Tail(queue)
<1>1. queue \in Seq(Directories) /\ ToSet(queue) \subseteq entered
  BY DEF WalkInv, WalkerInv, WalkerTypes, State
<1>2. /\ h \in Directories /\ q \in Seq(Directories) /\ Len(queue) \in Nat \ {0} /\ h = queue[1]
      /\ Len(q) = Len(queue) - 1 /\ \A i \in 1 .. (Len(queue) - 1) : q[i] = queue[i + 1]
      /\ DOMAIN queue = 1 .. Len(queue) /\ DOMAIN q = 1 .. (Len(queue) - 1)
  BY <1>1
<1> HIDE DEF h, q
<1>3. ToSet(queue) = {queue[i] : i \in 1 .. Len(queue)} /\ ToSet(q) = {q[i] : i \in 1 .. (Len(queue) - 1)}
  BY <1>2 DEF ToSet
<1>4. ASSUME NEW i \in 1 .. Len(queue) PROVE queue[i] \in {h} \cup ToSet(q)
  <2>1. CASE i = 1
    BY <1>2, <2>1
  <2>2. CASE i # 1
    <3>1. i - 1 \in 1 .. (Len(queue) - 1) /\ (i - 1) + 1 = i
      BY <1>2, <2>2
    <3> QED
      BY <1>2, <1>3, <3>1
  <2> QED
    BY <2>1, <2>2
<1>5. h \in ToSet(queue) /\ \A i \in 1 .. (Len(queue) - 1) : q[i] \in ToSet(queue)
  <2>1. 1 \in 1 .. Len(queue) /\ \A i \in 1 .. (Len(queue) - 1) : i + 1 \in 1 .. Len(queue)
    BY <1>2
  <2> QED
    BY <1>2, <1>3, <2>1
<1>6. ToSet(queue) = {h} \cup ToSet(q)
  BY <1>3, <1>4, <1>5
<1>7. WalkerTypes(Walker)
  BY <1>2 DEF WalkInv, WalkerInv, WalkerTypes, State, Walker, q
<1>8. WalkerInv(tree, Walker)
  BY <1>6, <1>7 DEF WalkInv, WalkerInv, State, Walker, q
<1> QED
  BY <1>1, <1>2, <1>5, <1>6, <1>8 DEF h, q

(* What is left when a directory has been read. *)
LEMMA WalkGoesOn ==
  ASSUME WalkInv, status = "walking", queue # <<>>, NEW r, WalkerInv(tree, r), GoesOn(Walker, r),
         r.status # "stopped" => Finished(tree, r, Head(queue)), State' = r, tree' = tree
  PROVE  WalkInv'
<1> DEFINE h == Head(queue)
<1>1. /\ queue' = r.queue /\ visited' = r.visited /\ entered' = r.entered /\ yielded' = r.yielded
      /\ problems' = r.problems /\ status' = r.status
  BY DEF State
<1>2. /\ Walker.queue = Tail(queue) /\ Walker.entered = entered /\ Walker.yielded = yielded
      /\ Walker.problems = problems /\ Walker.status = "walking"
  BY DEF Walker
<1>3. status' # "done"
  BY <1>1, <1>2 DEF GoesOn
<1>4. ASSUME r.status # "stopped", NEW d \in r.entered
      PROVE  d \in ToSet(r.queue) \/ Finished(tree, r, d)
  <2>1. CASE d \in ToSet(r.queue)
    BY <2>1
  <2>2. CASE d \notin ToSet(r.queue)
    <3>1. d \in entered /\ d \notin ToSet(Tail(queue))
      BY <1>2, <2>2 DEF GoesOn
    <3>2. d = h \/ Finished(tree, State, d)
      BY <3>1, FirstTaken DEF WalkInv
    <3>3. ASSUME Finished(tree, State, d) PROVE Finished(tree, r, d)
      <4>1. Finished(tree, Walker, d)
        BY <3>3 DEF Finished, AccountedFor, State, Walker
      <4> QED
        BY <4>1, FinishedStays
    <3> QED
      BY <1>4, <3>2, <3>3
  <2> QED
    BY <2>1, <2>2
<1>5. Directory(<<>>, <<>>) \in r.entered
  BY <1>2 DEF WalkInv, GoesOn
<1>6. tree' \in Trees /\ WalkerInv(tree', State')
  BY DEF WalkInv
<1>7. status' # "stopped" => \A d \in entered' : d \in ToSet(queue') \/ Finished(tree', State', d)
  BY <1>1, <1>4
<1> QED
  BY <1>1, <1>3, <1>5, <1>6, <1>7 DEF WalkInv

LEMMA DirectoryRead == ASSUME WalkAssumption, WalkInv, ReadDirectory PROVE WalkInv'
<1> DEFINE d == Head(queue)
           names == Entries(tree, d.at)
           r == CASE Len(d.path) >= limits.depth -> Problem(Walker, "depth", d.path)
                  [] Len(d.path) < limits.depth /\ ~tree.nodes[Real(tree, d.at)].readable ->
                       Problem(Walker, "unreadable", d.path)
                  [] OTHER -> ReadNames(d, names)
           Done == WalkerInv(tree, r) /\ GoesOn(Walker, r) /\ (r.status # "stopped" => Finished(tree, r, d))
<1>1. status = "walking" /\ queue # <<>> /\ Becomes(r)
  BY DEF ReadDirectory
<1>2. d \in Directories /\ WalkerInv(tree, Walker) /\ tree \in Trees
  BY <1>1, FirstTaken DEF WalkInv
<1>3. \/ \E code \in {"depth", "unreadable"} : r = Problem(Walker, code, d.path)
      \/ r = ReadNames(d, names)
  <2> DEFINE deep == Len(d.path) >= limits.depth
             closed == Len(d.path) < limits.depth /\ ~tree.nodes[Real(tree, d.at)].readable
  <2>1. r = CASE deep -> Problem(Walker, "depth", d.path)
              [] closed -> Problem(Walker, "unreadable", d.path)
              [] OTHER -> ReadNames(d, names)
    OBVIOUS
  <2> HIDE DEF d, names, r, deep, closed
  <2>2. CASE deep
    BY <2>1, <2>2
  <2>3. CASE ~deep /\ closed
    BY <2>1, <2>3
  <2>4. CASE ~deep /\ ~closed
    BY <2>1, <2>4
  <2> QED
    BY <2>2, <2>3, <2>4
<1> HIDE DEF r
<1>4. ASSUME NEW code \in {"depth", "unreadable"}, r = Problem(Walker, code, d.path) PROVE Done
  <2>1. Complained(Walker, r, code, d.path)
    BY <1>2, <1>4, ProblemIs DEF WalkerInv, Codes, Directories
  <2>2. WalkerInv(tree, r)
    BY <1>2, <2>1 DEF WalkerInv, Complained
  <2>3. GoesOn(Walker, r)
    BY <2>1 DEF GoesOn, Complained
  <2>4. Finished(tree, r, d)
    BY <2>1 DEF Finished, Complained
  <2> QED
    BY <2>2, <2>3, <2>4
<1>5. ASSUME r = ReadNames(d, names) PROVE Done
  <2>1. /\ NamesIn(tree, d.at) \subseteq Nat /\ names \in Seq(Nat)
        /\ \A name \in NamesIn(tree, d.at) : \E i \in 1 .. Len(names) : names[i] = name
    BY <1>2, EntriesAre
  <2> HIDE DEF d, names
  <2>2. AllRead(d, names, r)
    BY <1>2, <1>5, <2>1, NamesRead
  <2>3. r.status # "stopped" => Finished(tree, r, d)
    BY <2>1, <2>2 DEF AllRead, Finished
  <2> QED
    BY <2>2, <2>3 DEF AllRead
<1>6. Done
  BY <1>3, <1>4, <1>5
<1>7. State' = r /\ tree' = tree
  <2>1. WalkerTypes(r)
    BY <1>6 DEF WalkerInv
  <2> QED
    BY <1>1, <2>1, BecomesIs
<1> QED
  BY <1>1, <1>6, <1>7, WalkGoesOn

LEMMA GivenUp == ASSUME WalkAssumption, WalkInv, GiveUp PROVE WalkInv'
<1> DEFINE d == Head(queue)
           names == IF tree.nodes[Real(tree, d.at)].readable /\ Len(d.path) < limits.depth
                    THEN Entries(tree, d.at) ELSE <<>>
<1>1. status = "walking" /\ queue # <<>>
  BY DEF GiveUp
<1>2. PICK k \in 0 .. Len(names), code \in {"aborted", "deadline"} :
        Becomes(Stop(ReadNames(d, SubSeq(names, 1, k)), code))
  BY DEF GiveUp
<1>3. d \in Directories /\ WalkerInv(tree, Walker) /\ tree \in Trees
  BY <1>1, FirstTaken DEF WalkInv
<1>4. SubSeq(names, 1, k) \in Seq(Nat)
  <2>1. Entries(tree, d.at) \in Seq(Nat)
    BY <1>3, EntriesAre
  <2>2. names \in Seq(Nat)
    BY <2>1
  <2> HIDE DEF names
  <2> QED
    BY <2>2
<1> DEFINE w == ReadNames(d, SubSeq(names, 1, k))
           r == Stop(w, code)
<1> HIDE DEF d, names
<1>5. WalkerInv(tree, w) /\ GoesOn(Walker, w)
  BY <1>3, <1>4, NamesRead DEF AllRead
<1> HIDE DEF w
<1>6. /\ WalkerTypes(r) /\ w.problems \subseteq r.problems
      /\ r.queue = w.queue /\ r.visited = w.visited /\ r.entered = w.entered
      /\ r.yielded = w.yielded /\ r.status = "stopped"
  BY <1>5, StopIs DEF WalkerInv, Codes
<1>7. Becomes(r)
  BY <1>2 DEF w
<1> HIDE DEF r
<1>8. WalkerInv(tree, r) /\ GoesOn(Walker, r)
  BY <1>5, <1>6 DEF WalkerInv, GoesOn
<1>9. State' = r /\ tree' = tree
  BY <1>6, <1>7, BecomesIs
<1> QED
  BY <1>1, <1>6, <1>8, <1>9, WalkGoesOn

LEMMA WalkEnded == ASSUME WalkInv, WalkEnd PROVE WalkInv'
<1>1. /\ queue = <<>> /\ status = "walking" /\ status' = "done" /\ tree' = tree /\ queue' = queue
      /\ visited' = visited /\ entered' = entered /\ yielded' = yielded /\ problems' = problems
  BY DEF WalkEnd
<1>2. WalkerInv(tree', State')
  BY <1>1 DEF WalkInv, WalkerInv, WalkerTypes, State
<1>3. ASSUME NEW d, Finished(tree, State, d) PROVE Finished(tree', State', d)
  BY <1>1, <1>3 DEF Finished, AccountedFor, State
<1> QED
  BY <1>1, <1>2, <1>3 DEF WalkInv

(* What has been entered while the repository is walked (the queue of
   walkRepository) is in the queue or has all its entries accounted for. *)
THEOREM WalkStates == WalkSpec => []WalkInv
<1> USE WalkAssumption
<1>1. WalkInit => WalkInv
  BY WalkBegins
<1>2. WalkInv /\ [WalkNext]_walkVars => WalkInv'
  <2> SUFFICES ASSUME WalkInv, [WalkNext]_walkVars PROVE WalkInv'
    OBVIOUS
  <2>1. CASE UNCHANGED walkVars
    BY <2>1 DEF WalkInv, State, walkVars
  <2> QED
    BY <2>1, DirectoryRead, GivenUp, WalkEnded DEF WalkNext
<1> QED
  BY <1>1, <1>2, PTL DEF WalkSpec

(* What is listed and not ignored is a target. *)
LEMMA TargetsKeep ==
  ASSUME yielded \in Seq(Seq(Nat)), NEW path \in ToSet(yielded), ~Ignored(tree, path)
  PROVE  path \in ToSet(Targets)
<1> DEFINE I == {i \in DOMAIN yielded : ~Ignored(tree, yielded[i])}
           l == Sublist(yielded, I)
<1>1. PICK i \in DOMAIN yielded : yielded[i] = path
  BY DEF ToSet
<1>2. i \in I /\ I \subseteq 1 .. Len(yielded) /\ Len(yielded) \in Nat
  BY <1>1
<1>3. Targets = l
  BY DEF Targets
<1> HIDE DEF I
<1>4. IsFiniteSet(I) /\ I \subseteq Int
  <2>1. IsFiniteSet(1 .. Len(yielded))
    BY <1>2, FS_Interval
  <2> QED
    BY <1>2, <2>1, FS_Subset
<1>5. SublistOf(l, yielded, I)
  BY <1>4, SublistIs
<1> HIDE DEF l
<1>6. PICK k \in DOMAIN l : l[k] = yielded[i]
  BY <1>2, <1>5 DEF SublistOf
<1> QED
  BY <1>1, <1>3, <1>6 DEF ToSet

(* Along the way to a file each directory is entered, and then the file is
   found. *)
LEMMA FileReached ==
  ASSUME WalkAssumption, WalkInv, status = "done", NEW f \in DOMAIN tree.nodes, Kind(tree, f) = "file",
         \A d \in entered, k \in DOMAIN f :
           Real(tree, d.at) = SubSeq(f, 1, k - 1) =>
             /\ ~Excused(Append(d.path, f[k]))
             /\ \A code \in {"depth", "unreadable"} : <<code, d.path>> \notin problems
  PROVE  \E path \in ToSet(Targets) : Real(tree, path) = f
<1> DEFINE N == Len(f)
           at(k) == SubSeq(f, 1, k)
           S == {k \in 0 .. (N - 1) : \E d \in entered : Real(tree, d.at) = SubSeq(f, 1, k)}
<1>1. /\ tree \in Trees /\ WalkerTypes(State) /\ entered \subseteq Directories
      /\ yielded \in Seq(Seq(Nat)) /\ Directory(<<>>, <<>>) \in entered
      /\ \A d \in entered : Finished(tree, State, d) /\ Resolved(tree, d)
  <2>1. queue = <<>> /\ ToSet(<<>>) = {}
    BY DEF WalkInv, ToSet
  <2> QED
    BY <2>1 DEF WalkInv, WalkerInv, WalkerTypes, State
<1>2. /\ f \in Seq(Nat) /\ N \in Nat /\ f # <<>> /\ DOMAIN f = 1 .. N /\ SubSeq(f, 1, N) = f
      /\ SubSeq(f, 1, 0) = <<>> /\ N - 1 \in Nat
  <2>1. f \in Seq(Nat)
    BY <1>1, WayToNode
  <2>2. f # <<>>
    BY <1>1 DEF WalkAssumption, Kind
  <2> QED
    BY <2>1, <2>2
<1> HIDE DEF N
(* One step on the way. *)
<1>3. ASSUME NEW k \in 0 .. (N - 1), NEW d \in entered, Real(tree, d.at) = SubSeq(f, 1, k)
      PROVE  \E path \in Seq(Nat) :
               /\ Real(tree, path) = SubSeq(f, 1, k + 1) /\ ~Ignored(tree, path)
               /\ AccountedFor(tree, State, path)
               /\ \A code \in Excuses : <<code, path>> \notin problems
  <2> DEFINE a == SubSeq(f, 1, k)
             b == SubSeq(f, 1, k + 1)
             name == f[k + 1]
             path == Append(d.path, name)
  <2>1. /\ a \in Seq(Nat) /\ b \in Seq(Nat) /\ name \in Nat /\ b = Append(a, name) /\ b # <<>>
        /\ Front(b) = a /\ b[Len(b)] = name
    BY <1>2, FrontOfPrefix DEF N
  <2>2. k + 1 \in DOMAIN f /\ (k + 1) - 1 = k /\ k + 1 \in 0 .. N
    BY <1>2
  <2>3. b \in DOMAIN tree.nodes /\ Kind(tree, b) # "link"
    <3>1. b \in DOMAIN tree.nodes
      BY <1>1, <2>2, WayToNode DEF N
    <3>2. CASE k + 1 = N
      BY <1>2, <3>2
    <3>3. CASE k + 1 # N
      <4>1. k + 1 \in 0 .. (N - 1)
        BY <1>2, <2>2, <3>3
      <4> QED
        BY <1>1, <3>1, <4>1, WayToNode DEF N
    <3> QED
      BY <3>1, <3>2, <3>3
  <2>4. ~Excused(path) /\ \A code \in {"depth", "unreadable"} : <<code, d.path>> \notin problems
    BY <1>3, <2>2
  <2>5. d.path \in Seq(Nat) /\ path \in Seq(Nat)
    BY <1>1, <2>1 DEF Directories
  <2> HIDE DEF a, b, name
  <2>6. Real(tree, d.at) = a /\ Real(tree, d.path) = a
    BY <1>1, <1>3 DEF Resolved, a
  <2>7. name \in NamesIn(tree, d.at)
    BY <2>1, <2>3, <2>6 DEF NamesIn, NodesIn
  <2>8. AccountedFor(tree, State, path)
    BY <1>1, <2>4, <2>7 DEF Finished, State
  <2>9. Real(tree, path) = b
    BY <2>1, <2>3, <2>5, <2>6, RealOfEntry DEF RealStep
  <2> HIDE DEF path
  <2> QED
    BY <2>4, <2>5, <2>8, <2>9 DEF Excused, Excuses, b
<1>4. 0 \in S
  <2>1. Directory(<<>>, <<>>).at = <<>> /\ 0 \in 0 .. (N - 1)
    BY <1>2 DEF Directory
  <2> QED
    BY <1>1, <1>2, <2>1, RealOfNothing
<1>5. ASSUME NEW k \in Nat, k < N - 1, k \in S PROVE k + 1 \in S
  <2>1. k \in 0 .. (N - 1) /\ k + 1 \in 0 .. (N - 1)
    BY <1>2, <1>5
  <2>2. PICK path \in Seq(Nat) :
          /\ Real(tree, path) = SubSeq(f, 1, k + 1) /\ ~Ignored(tree, path)
          /\ AccountedFor(tree, State, path) /\ \A code \in Excuses : <<code, path>> \notin problems
    BY <1>3, <1>5, <2>1
  <2>3. Kind(tree, SubSeq(f, 1, k + 1)) = "dir"
    BY <1>1, <2>1, WayToNode DEF N
  <2>4. \E d \in entered : Real(tree, d.at) = SubSeq(f, 1, k + 1)
    BY <2>2, <2>3 DEF AccountedFor, State
  <2> QED
    BY <2>1, <2>4
<1> HIDE DEF S
<1>6. \A k \in 0 .. (N - 1) : k \in S
  BY <1>2, <1>4, <1>5, Resolving!CountingUp
<1>7. N - 1 \in 0 .. (N - 1) /\ (N - 1) + 1 = N
  BY <1>2
<1>8. PICK path \in Seq(Nat) :
        /\ Real(tree, path) = SubSeq(f, 1, (N - 1) + 1) /\ ~Ignored(tree, path)
        /\ AccountedFor(tree, State, path) /\ \A code \in Excuses : <<code, path>> \notin problems
  BY <1>3, <1>6, <1>7 DEF S
<1>9. Real(tree, path) = f
  BY <1>2, <1>7, <1>8
<1>10. path \in ToSet(yielded)
  BY <1>8, <1>9 DEF AccountedFor, State
<1> QED
  BY <1>1, <1>8, <1>9, <1>10, TargetsKeep

(* A walk that ends by itself (the loop of walkRepository, the filter of
   collectScanTargets) has missed no file silently, in whatever repository:
   from the root each directory on the way was entered and finished. *)
THEOREM WalkMissesNothing == WalkSpec => []NothingMissedSilently
<1>1. WalkInv => NothingMissedSilently
  <2> SUFFICES ASSUME WalkInv, status = "done", NEW f \in DOMAIN tree.nodes, Kind(tree, f) = "file",
                      \A d \in entered, k \in DOMAIN f :
                        Real(tree, d.at) = SubSeq(f, 1, k - 1) =>
                          /\ ~Excused(Append(d.path, f[k]))
                          /\ \A code \in {"depth", "unreadable"} : <<code, d.path>> \notin problems
               PROVE  \E path \in ToSet(Targets) : Real(tree, path) = f
    BY DEF NothingMissedSilently
  <2> QED
    BY WalkAssumption, FileReached
<1> QED
  BY <1>1, WalkStates, PTL

-----------------------------------------------------------------------------
(* The files ACKit manages. *)

Contents == {Version(v) : v \in 1 .. MaxVersion} \cup {Mine, Missing}

CommandStates == {"idle", "plan", "write", "lock", "skills", "remove", "copy"}

(* The states in which a command holds a copy of the lock. *)
Locking == {"skills", "remove", "copy"}

RunFields == {"pc", "force", "plans", "next", "lock", "dirty"}

RunShape(r) == r = [f \in RunFields |-> r[f]]

ManagedTypes ==
  /\ skill \in [SkillNames -> [main : Contents, rest : Contents]]
  /\ package \in [SkillNames -> 1 .. MaxVersion]
  /\ RunShape(run) /\ run.pc \in CommandStates /\ run.force \in BOOLEAN /\ run.dirty \in BOOLEAN
  /\ run.pc \in {"remove", "copy"} => run.next \in DOMAIN Skills
  /\ edited \subseteq SkillNames /\ cut \in BOOLEAN /\ settled \in {"yes", "no", "running"}

(* The skill is not there, or as the lock says it was written. *)
Known(s, known) ==
  skill[s].main = Missing \/ (s \in DOMAIN known /\ known[s] = skill[s].main)

(* The skill is being replaced. *)
Replaced(s) == run.pc = "copy" /\ s = Skills[run.next]

SkillsKnown ==
  ~cut => \A s \in SkillNames \ edited :
    /\ run.pc \notin Locking => Known(s, lock)
    /\ run.pc \in Locking => Known(s, run.lock) \/ Replaced(s)

(* A copy that is not dirty says what the lock says. *)
CleanCopy ==
  run.pc \in Locking /\ ~run.dirty =>
    DOMAIN run.lock = DOMAIN lock /\ \A s \in DOMAIN lock : run.lock[s] = lock[s]

ManagedInv == ManagedTypes /\ SkillsKnown /\ CleanCopy

-----------------------------------------------------------------------------
LEMMA SourceIsContents ==
  ASSUME ManagedTypes, NEW s \in SkillNames
  PROVE  SourceOf(s) \in Contents
BY DEF ManagedTypes, SourceOf, Contents

LEMMA IdleShape == RunShape(Idle) /\ Idle.pc = "idle" /\ Idle.force = FALSE /\ Idle.dirty = FALSE
BY DEF Idle, RunShape, RunFields

LEMMA SkillNamed == ASSUME NEW i \in DOMAIN Skills PROVE Skills[i] \in SkillNames
BY DEF SkillNames, ToSet

(* What Upsert and NextSkill make of a command. *)
LEMMA Upserted ==
  ASSUME NEW s, RunShape(run), run.dirty \in BOOLEAN
  PROVE  LET r == NextSkill(Upsert(run, s)) IN
         /\ RunShape(r) /\ r.pc = "skills" /\ r.force = run.force
         /\ r.lock = Locked(run.lock, s)
         /\ r.dirty = (run.dirty \/ s \notin DOMAIN run.lock \/ run.lock[s] # SourceOf(s))
<1> DEFINE u == Upsert(run, s)
<1>1. RunShape(u)
  BY DEF Upsert, RunShape, RunFields
<1>2. u.force = run.force /\ u.lock = Locked(run.lock, s)
  BY DEF Upsert, RunShape, RunFields
<1>3. u.dirty = (run.dirty \/ s \notin DOMAIN run.lock \/ run.lock[s] # SourceOf(s))
  BY DEF Upsert, RunShape, RunFields
<1> HIDE DEF u
<1>4. RunShape(NextSkill(u))
  BY <1>1 DEF NextSkill, RunShape, RunFields
<1>5. /\ NextSkill(u).pc = "skills" /\ NextSkill(u).force = u.force
      /\ NextSkill(u).lock = u.lock /\ NextSkill(u).dirty = u.dirty
  BY <1>1 DEF NextSkill, RunShape, RunFields
<1>6. /\ RunShape(NextSkill(u)) /\ NextSkill(u).pc = "skills" /\ NextSkill(u).force = run.force
      /\ NextSkill(u).lock = Locked(run.lock, s)
      /\ NextSkill(u).dirty = (run.dirty \/ s \notin DOMAIN run.lock \/ run.lock[s] # SourceOf(s))
  BY <1>2, <1>3, <1>4, <1>5
<1> QED
  BY <1>6 DEF u

LEMMA NextShape ==
  ASSUME RunShape(run)
  PROVE  LET r == NextSkill(run) IN
         RunShape(r) /\ r.pc = "skills" /\ r.force = run.force /\ r.lock = run.lock /\ r.dirty = run.dirty
BY DEF NextSkill, RunShape, RunFields

(* An entry made for what the skill has does not disturb what is known of the
   other skills, nor a copy that stays clean. *)
LEMMA UpsertKeeps ==
  ASSUME ManagedInv, run.pc \in Locking, NEW s \in SkillNames,
         run' = NextSkill(Upsert(run, s)),
         skill'[s].main = SourceOf(s) \/ s \in edited',
         \A t \in SkillNames \ {s} : skill'[t] = skill[t] /\ ~Replaced(t),
         edited' = edited, cut' = cut, lock' = lock, package' = package
  PROVE  SkillsKnown' /\ CleanCopy'
<1>1. /\ run'.pc = "skills" /\ run'.lock = Locked(run.lock, s)
      /\ run'.dirty = (run.dirty \/ s \notin DOMAIN run.lock \/ run.lock[s] # SourceOf(s))
  BY Upserted DEF ManagedInv, ManagedTypes
<1>2. /\ DOMAIN run'.lock = DOMAIN run.lock \cup {s} /\ run'.lock[s] = SourceOf(s)
      /\ \A t \in DOMAIN run.lock : t # s => run'.lock[t] = run.lock[t]
  BY <1>1 DEF Locked
<1>3. CleanCopy'
  <2> SUFFICES ASSUME ~run'.dirty
               PROVE  /\ DOMAIN run'.lock = DOMAIN lock
                      /\ \A t \in DOMAIN lock : run'.lock[t] = lock[t]
    BY DEF CleanCopy
  <2>1. ~run.dirty /\ s \in DOMAIN run.lock /\ run.lock[s] = SourceOf(s)
    BY <1>1
  <2>2. DOMAIN run.lock = DOMAIN lock /\ \A t \in DOMAIN lock : run.lock[t] = lock[t]
    BY <2>1 DEF ManagedInv, CleanCopy
  <2> QED
    BY <1>2, <2>1, <2>2
<1>4. SkillsKnown'
  <2> SUFFICES ASSUME ~cut, NEW t \in SkillNames, t \notin edited
               PROVE  Known(t, run.lock)' \/ Replaced(t)'
    BY <1>1 DEF SkillsKnown, Locking
  <2>1. CASE t = s
    BY <1>2, <2>1 DEF Known
  <2>2. CASE t # s
    <3>1. Known(t, run.lock)
      BY <2>2 DEF ManagedInv, SkillsKnown
    <3> QED
      BY <1>2, <2>2, <3>1 DEF Known
  <2> QED
    BY <2>1, <2>2
<1> QED
  BY <1>3, <1>4

-----------------------------------------------------------------------------
(* The types of the shared files and of a command hold in every state, whoever
   edits what in between. *)
LEMMA TypesFirst == ASSUME ManagedAssumption, ManagedInit PROVE ManagedInv
<1>1. PICK installed \in SUBSET SkillNames :
        /\ lock = [s \in installed |-> SourceOf(s)]
        /\ skill = [s \in SkillNames |->
                     IF s \in installed THEN [main |-> SourceOf(s), rest |-> SourceOf(s)] ELSE NoSkill]
  BY DEF ManagedInit
<1>2. \A s \in SkillNames : SourceOf(s) \in Contents
  BY DEF ManagedInit, SourceOf, Contents
<1>3. NoSkill \in [main : Contents, rest : Contents] /\ NoSkill.main = Missing
  BY DEF NoSkill, Contents
<1>4. ManagedTypes
  <2>1. skill \in [SkillNames -> [main : Contents, rest : Contents]]
    BY <1>1, <1>2, <1>3
  <2>2. RunShape(run) /\ run.pc = "idle" /\ run.force \in BOOLEAN /\ run.dirty \in BOOLEAN
    BY IdleShape DEF ManagedInit
  <2> QED
    BY <2>1, <2>2 DEF ManagedTypes, ManagedInit, CommandStates
<1>5. run.pc = "idle"
  BY IdleShape DEF ManagedInit
<1>6. \A s \in SkillNames : Known(s, lock)
  BY <1>1, <1>3 DEF Known
<1> QED
  BY <1>4, <1>5, <1>6 DEF ManagedInv, SkillsKnown, CleanCopy, Locking

LEMMA TypesStay ==
  ASSUME ManagedAssumption, ManagedTypes, ManagedNext
  PROVE  ManagedTypes'
<1> USE DEF ManagedTypes, CommandStates
<1>1. CASE Begin
  <2>1. PICK command \in {"sync", "install"}, force \in BOOLEAN :
          /\ run' = [Idle EXCEPT !.pc = IF command = "install" THEN "lock" ELSE "plan", !.force = force]
          /\ settled' = IF command = "sync" THEN "running" ELSE "no"
    BY <1>1 DEF Begin
  <2>2. /\ RunShape(run') /\ run'.pc \in {"lock", "plan"} /\ run'.force \in BOOLEAN
        /\ run'.dirty \in BOOLEAN
    BY <2>1 DEF Idle, RunShape, RunFields
  <2> QED
    BY <1>1, <2>1, <2>2 DEF Begin, RunShape, RunFields
<1>2. CASE PlanSurfaces
  BY <1>2 DEF PlanSurfaces, RunShape, RunFields
<1>3. CASE WriteSurface
  BY <1>3 DEF WriteSurface, RunShape, RunFields
<1>4. CASE SurfacesWritten
  BY <1>4 DEF SurfacesWritten, RunShape, RunFields
<1>5. CASE ReadLock
  BY <1>5 DEF ReadLock, RunShape, RunFields
<1>6. CASE Look
  <2> DEFINE s == Skills[run.next]
             decision == Decide(s, run.lock, run.force)
  <2>1. \/ run' = [run EXCEPT !.pc = "copy"]
        \/ run' = [run EXCEPT !.pc = "remove"]
        \/ run' = NextSkill(Upsert(run, s))
        \/ run' = NextSkill(run)
    BY <1>6 DEF Look
  <2>2. /\ RunShape(run') /\ run'.pc \in CommandStates /\ run'.force \in BOOLEAN
        /\ run'.dirty \in BOOLEAN /\ (run'.pc \in {"remove", "copy"} => run'.next = run.next)
    <3>1. CASE run' = [run EXCEPT !.pc = "copy"] \/ run' = [run EXCEPT !.pc = "remove"]
      BY <3>1 DEF RunShape, RunFields
    <3>2. CASE run' = NextSkill(Upsert(run, s))
      BY <3>2, Upserted
    <3>3. CASE run' = NextSkill(run)
      BY <3>3, NextShape
    <3> QED
      BY <2>1, <3>1, <3>2, <3>3
  <2> QED
    BY <1>6, <2>2 DEF Look, RunShape, RunFields
<1>7. CASE RemoveOld
  <2>1. NoSkill \in [main : Contents, rest : Contents]
    BY DEF NoSkill, Contents
  <2>2. run' = [run EXCEPT !.pc = "copy"] /\ run.next \in DOMAIN Skills
    BY <1>7 DEF RemoveOld
  <2>3. /\ RunShape(run') /\ run'.pc = "copy" /\ run'.force \in BOOLEAN /\ run'.dirty \in BOOLEAN
        /\ run'.next = run.next
    BY <2>2 DEF RunShape, RunFields
  <2> QED
    BY <1>7, <2>1, <2>2, <2>3 DEF RemoveOld, RunShape, RunFields
<1>8. CASE Copy
  <2> DEFINE s == Skills[run.next]
  <2>1. s \in SkillNames
    BY <1>8, SkillNamed DEF Copy
  <2>2. SourceOf(s) \in Contents
    BY <2>1, SourceIsContents
  <2>3. /\ RunShape(run') /\ run'.pc = "skills" /\ run'.force \in BOOLEAN /\ run'.dirty \in BOOLEAN
    BY <1>8, Upserted DEF Copy
  <2>4. skill' \in [SkillNames -> [main : Contents, rest : Contents]]
    BY <1>8, <2>1, <2>2 DEF Copy
  <2> QED
    BY <1>8, <2>3, <2>4 DEF Copy, RunShape, RunFields
<1>9. CASE WriteLock
  BY <1>9, IdleShape DEF WriteLock
<1>10. CASE Die
  <2>1. skill' \in [SkillNames -> [main : Contents, rest : Contents]]
    <3>1. CASE UNCHANGED skill
      BY <3>1
    <3>2. CASE run.pc = "copy"
      <4>1. Skills[run.next] \in SkillNames
        BY <3>2, SkillNamed
      <4>2. SourceOf(Skills[run.next]) \in Contents
        BY <4>1, SourceIsContents
      <4> QED
        BY <1>10, <4>1, <4>2 DEF Die
    <3> QED
      BY <1>10, <3>1, <3>2 DEF Die
  <2> QED
    BY <1>10, <2>1, IdleShape DEF Die
<1>11. CASE HookCommand
  BY <1>11 DEF HookCommand
<1>12. ASSUME NEW p \in Providers, Fix(p) PROVE ManagedTypes'
  BY <1>12 DEF Fix
<1>13. ASSUME NEW p \in DOMAIN docs, Edit(p) PROVE ManagedTypes'
  BY <1>13 DEF Edit
<1>14. ASSUME NEW s \in SkillNames, EditSkill(s) PROVE ManagedTypes'
  <2>1. PICK part \in {"main", "rest"}, what \in {Mine, Missing} : skill' = [skill EXCEPT ![s][part] = what]
    BY <1>14 DEF EditSkill
  <2>2. what \in Contents
    BY DEF Contents
  <2>3. skill' \in [SkillNames -> [main : Contents, rest : Contents]]
    BY <2>1, <2>2
  <2> QED
    BY <1>14, <2>3 DEF EditSkill
<1>15. ASSUME NEW s \in SkillNames, Upgrade(s) PROVE ManagedTypes'
  <2>1. package' \in [SkillNames -> 1 .. MaxVersion]
    BY <1>15 DEF Upgrade, ManagedAssumption
  <2> QED
    BY <1>15, <2>1 DEF Upgrade
<1> QED
  BY <1>1, <1>2, <1>3, <1>4, <1>5, <1>6, <1>7, <1>8, <1>9, <1>10, <1>11, <1>12, <1>13, <1>14, <1>15
     DEF ManagedNext, CommandStep

LEMMA KnownStays ==
  ASSUME ManagedAssumption, ManagedInv, ManagedNext
  PROVE  SkillsKnown' /\ CleanCopy'
<1> USE DEF ManagedInv, Locking
<1>1. ASSUME run'.pc \notin Locking, run.pc \notin Locking, UNCHANGED <<skill, lock, edited, cut>>
      PROVE  SkillsKnown' /\ CleanCopy'
  BY <1>1 DEF SkillsKnown, CleanCopy, Known
<1>2. ASSUME UNCHANGED <<skill, run, lock, edited, cut>>
      PROVE  SkillsKnown' /\ CleanCopy'
  BY <1>2 DEF SkillsKnown, CleanCopy, Known, Replaced
<1>3. CASE Begin
  <2>1. run'.pc \in {"lock", "plan"}
    BY <1>3 DEF Begin, Idle
  <2> QED
    BY <1>1, <1>3, <2>1 DEF Begin
<1>4. CASE PlanSurfaces \/ SurfacesWritten
  <2>1. run'.pc \in {"lock", "write"}
    BY <1>4 DEF PlanSurfaces, SurfacesWritten, ManagedTypes, RunShape, RunFields
  <2> QED
    BY <1>1, <1>4, <2>1 DEF PlanSurfaces, SurfacesWritten
<1>5. CASE WriteSurface
  <2>1. run'.pc = "write"
    BY <1>5 DEF WriteSurface, ManagedTypes, RunShape, RunFields
  <2> QED
    BY <1>1, <1>5, <2>1 DEF WriteSurface
<1>6. CASE ReadLock
  <2>1. run'.pc = "skills" /\ run'.lock = lock
    BY <1>6 DEF ReadLock, ManagedTypes, RunShape, RunFields
  <2> QED
    BY <1>6, <2>1 DEF ReadLock, SkillsKnown, CleanCopy, Known
<1>7. CASE Look
  <2> DEFINE s == Skills[run.next]
  <2>1. s \in SkillNames /\ run.pc = "skills"
    BY <1>7, SkillNamed DEF Look
  <2>2. CASE run' = NextSkill(Upsert(run, s)) /\ Decide(s, run.lock, run.force) = "up-to-date"
    <3>1. skill[s].main = SourceOf(s)
      BY <2>2 DEF Decide
    <3> QED
      BY <1>7, <2>1, <2>2, <3>1, UpsertKeeps DEF Look, Replaced
  <2>3. CASE run' = [run EXCEPT !.pc = "copy"] \/ run' = [run EXCEPT !.pc = "remove"] \/ run' = NextSkill(run)
    <3>1. run'.pc \in Locking /\ run'.lock = run.lock /\ run'.dirty = run.dirty
      BY <2>3, NextShape DEF ManagedTypes, RunShape, RunFields
    <3>2. \A t \in SkillNames \ edited : ~cut => Known(t, run.lock)
      BY <2>1 DEF SkillsKnown, Replaced
    <3> QED
      BY <1>7, <2>1, <3>1, <3>2 DEF Look, SkillsKnown, CleanCopy, Known
  <2> QED
    BY <1>7, <2>2, <2>3 DEF Look
<1>8. CASE RemoveOld
  <2> DEFINE s == Skills[run.next]
  <2>1. run'.pc = "copy" /\ run'.lock = run.lock /\ run'.dirty = run.dirty /\ run'.next = run.next
    BY <1>8 DEF RemoveOld, ManagedTypes, RunShape, RunFields
  <2>2. \A t \in SkillNames : t # s => skill'[t] = skill[t]
    BY <1>8 DEF RemoveOld, ManagedTypes
  <2>3. \A t \in SkillNames \ edited : ~cut => Known(t, run.lock)
    BY <1>8 DEF RemoveOld, SkillsKnown, Replaced
  <2> QED
    BY <1>8, <2>1, <2>2, <2>3 DEF RemoveOld, SkillsKnown, CleanCopy, Known, Replaced
<1>9. CASE Copy
  <2> DEFINE s == Skills[run.next]
  <2>1. s \in SkillNames
    BY <1>9, SkillNamed DEF Copy, ManagedTypes
  <2>2. skill'[s].main = SourceOf(s) /\ \A t \in SkillNames \ {s} : skill'[t] = skill[t]
    BY <1>9, <2>1 DEF Copy, ManagedTypes
  <2>3. run' = NextSkill(Upsert(run, s)) /\ UNCHANGED <<lock, package, edited, cut>> /\ run.pc = "copy"
    BY <1>9 DEF Copy
  <2>4. \A t \in SkillNames \ {s} : ~Replaced(t)
    BY DEF Replaced
  <2> QED
    BY <2>1, <2>2, <2>3, <2>4, UpsertKeeps
<1>10. CASE WriteLock
  <2>1. run' = Idle /\ run'.pc = "idle" /\ lock' = IF run.dirty THEN run.lock ELSE lock
    BY <1>10, IdleShape DEF WriteLock
  <2>2. run.pc = "skills"
    BY <1>10 DEF WriteLock
  <2>3. \A t \in SkillNames \ edited : ~cut => Known(t, run.lock)
    BY <2>2 DEF SkillsKnown, Replaced
  <2>4. \A t \in SkillNames \ edited : ~cut => Known(t, lock')
    <3>1. CASE run.dirty
      BY <2>1, <2>3, <3>1
    <3>2. CASE ~run.dirty
      <4>1. DOMAIN run.lock = DOMAIN lock /\ \A s \in DOMAIN lock : run.lock[s] = lock[s]
        BY <2>2, <3>2 DEF CleanCopy
      <4>2. lock' = lock
        BY <2>1, <3>2
      <4> QED
        BY <2>3, <4>1, <4>2 DEF Known
    <3> QED
      BY <3>1, <3>2
  <2> QED
    BY <1>10, <2>1, <2>4 DEF WriteLock, SkillsKnown, CleanCopy, Known
<1>11. CASE Die
  BY <1>11, IdleShape DEF Die, SkillsKnown, CleanCopy
<1>12. CASE HookCommand
  BY <1>2, <1>12 DEF HookCommand
<1>13. ASSUME NEW p \in Providers, Fix(p) PROVE SkillsKnown' /\ CleanCopy'
  BY <1>2, <1>13 DEF Fix
<1>14. ASSUME NEW p \in DOMAIN docs, Edit(p) PROVE SkillsKnown' /\ CleanCopy'
  BY <1>2, <1>14 DEF Edit
<1>15. ASSUME NEW s \in SkillNames, EditSkill(s) PROVE SkillsKnown' /\ CleanCopy'
  <2>1. \A t \in SkillNames \ {s} : skill'[t] = skill[t]
    BY <1>15 DEF EditSkill, ManagedTypes
  <2> QED
    BY <1>15, <2>1 DEF EditSkill, SkillsKnown, CleanCopy, Known, Replaced
<1>16. ASSUME NEW s \in SkillNames, Upgrade(s) PROVE SkillsKnown' /\ CleanCopy'
  BY <1>2, <1>16 DEF Upgrade
<1> QED
  BY <1>3, <1>4, <1>5, <1>6, <1>7, <1>8, <1>9, <1>10, <1>11, <1>12, <1>13, <1>14, <1>15, <1>16
     DEF ManagedNext, CommandStep

(* The types, what is known of each skill and the state of the copy are an
   inductive invariant of the commands and of what people do between their
   steps. *)
THEOREM ManagedHolds == ManagedSpec => []ManagedInv
<1>1. ManagedInit => ManagedInv
  BY TypesFirst, ManagedAssumption
<1>2. ManagedInv /\ [ManagedNext]_managedVars => ManagedInv'
  <2> SUFFICES ASSUME ManagedInv, [ManagedNext]_managedVars PROVE ManagedInv'
    OBVIOUS
  <2>1. CASE ManagedNext
    BY <2>1, TypesStay, KnownStays, ManagedAssumption DEF ManagedInv
  <2>2. CASE UNCHANGED managedVars
    BY <2>2 DEF managedVars, ManagedInv, ManagedTypes, SkillsKnown, CleanCopy, Known, Replaced
  <2> QED
    BY <2>1, <2>2
<1> QED
  BY <1>1, <1>2, PTL DEF ManagedSpec

(* As long as no command ended in the middle, a skill nobody touched is never
   announced as edited or as one of somebody else, across any upgrades: the
   lock agrees with every such skill whenever no command runs. *)
THEOREM LockKnowsItsSkills == ManagedSpec => []NoFalseConflict
<1>1. ManagedInv => NoFalseConflict
  <2> SUFFICES ASSUME ManagedInv, run.pc = "idle", ~cut, NEW s \in SkillNames, s \notin edited
               PROVE  PreviewSkill(s) \notin {"conflict-user-modified", "refused-third-party"}
    BY DEF NoFalseConflict
  <2>1. Known(s, lock)
    BY DEF ManagedInv, SkillsKnown, Locking
  <2>2. CASE skill[s].main = Missing
    BY <2>2 DEF PreviewSkill
  <2>3. CASE skill[s].main # Missing /\ skill[s].main = SourceOf(s)
    BY <2>3 DEF PreviewSkill
  <2>4. CASE skill[s].main # Missing /\ skill[s].main # SourceOf(s)
    <3>1. s \in DOMAIN lock /\ lock[s] = skill[s].main
      BY <2>1, <2>4 DEF Known
    <3> QED
      BY <2>4, <3>1 DEF PreviewSkill
  <2> QED
    BY <2>2, <2>3, <2>4
<1> QED
  BY <1>1, ManagedHolds, PTL

-----------------------------------------------------------------------------
(* What the decision of installSkills leaves behind, by what the lock is known
   to say: the skill is there, and is as the package has it, of somebody else,
   or edited.  A preview then has nothing to announce. *)
Settled(s, known) ==
  /\ skill[s].main # Missing
  /\ skill[s].main = SourceOf(s) \/ s \notin DOMAIN known \/ skill[s].main # known[s]

(* A sync settles one skill after the other, by its copy of the lock. *)
Settling ==
  settled = "running" /\ run.pc \in Locking =>
    \A i \in DOMAIN Skills : i < run.next => Settled(Skills[i], run.lock)

SettledInv ==
  /\ ManagedInv
  /\ run.next \in Nat \ {0}
  /\ Settling
  /\ settled = "yes" => run.pc = "idle" /\ \A s \in SkillNames : Settled(s, lock)

(* The skills' half of SyncSettles. *)
SkillsSettled == settled = "yes" => \A s \in SkillNames : PreviewSkill(s) \notin Pending

LEMMA SkillsInOrder ==
  ASSUME ManagedAssumption
  PROVE  /\ DOMAIN Skills = 1 .. Len(Skills) /\ Len(Skills) \in Nat
         /\ \A s \in SkillNames : \E i \in DOMAIN Skills : s = Skills[i]
         /\ \A i, j \in DOMAIN Skills : Skills[i] = Skills[j] => i = j
<1>1. Skills \in Seq(SkillNames)
  BY DEF ManagedAssumption, SkillNames
<1>2. DOMAIN Skills = 1 .. Len(Skills) /\ Len(Skills) \in Nat
  BY <1>1
<1> QED
  BY <1>2 DEF ManagedAssumption, SkillNames, ToSet, IsInjective

LEMMA NextCounts ==
  ASSUME RunShape(run), NEW s
  PROVE  /\ NextSkill(run).next = run.next + 1
         /\ NextSkill(Upsert(run, s)).next = run.next + 1
<1>1. RunShape(Upsert(run, s)) /\ Upsert(run, s).next = run.next
  BY DEF Upsert, RunShape, RunFields
<1> HIDE DEF Upsert
<1> QED
  BY <1>1 DEF NextSkill, RunShape, RunFields

(* A decision that leaves a skill alone finds it settled. *)
LEMMA LeftAlone ==
  ASSUME NEW s, NEW known, NEW force \in BOOLEAN,
         Decide(s, known, force) \notin {"installed", "updated"}
  PROVE  Settled(s, known)
<1>1. skill[s].main # Missing
  <2> SUFFICES ASSUME skill[s].main = Missing PROVE Decide(s, known, force) = "installed"
    OBVIOUS
  <2>1. skill[s].main \in {Missing, SourceOf(s)} /\ Missing # SourceOf(s)
    BY DEF Missing, SourceOf, Version
  <2> QED
    BY <2>1 DEF Decide
<1>2. CASE skill[s].main = SourceOf(s) \/ s \notin DOMAIN known
  BY <1>1, <1>2 DEF Settled
<1>3. CASE skill[s].main # SourceOf(s) /\ s \in DOMAIN known
  <2>1. Decide(s, known, force) =
          IF skill[s].main # known[s] /\ ~force THEN "conflict-user-modified" ELSE "updated"
    BY <1>1, <1>3 DEF Decide
  <2> QED
    BY <1>1, <2>1 DEF Settled
<1> QED
  BY <1>2, <1>3

(* An entry for one skill does not unsettle another one. *)
LEMMA EntryKeepsSettled ==
  ASSUME NEW s, NEW t, s # t, NEW known, Settled(t, known)
  PROVE  Settled(t, Locked(known, s))
BY DEF Settled, Locked

(* The skill a sync has just dealt with joins those that are settled. *)
LEMMA OneMoreSettled ==
  ASSUME ManagedAssumption, run.next \in Nat \ {0}, run.pc \in Locking, Settling,
         run'.next = run.next + 1, settled' = settled, run.next \in DOMAIN Skills,
         \A i \in DOMAIN Skills :
           i = run.next \/ Settled(Skills[i], run.lock) => Settled(Skills[i], run.lock)'
  PROVE  Settling'
<1> SUFFICES ASSUME settled = "running", NEW i \in DOMAIN Skills, i < run'.next
             PROVE  Settled(Skills[i], run.lock)'
  BY DEF Settling
<1>1. CASE i = run.next
  BY <1>1
<1>2. CASE i # run.next
  <2>1. i < run.next
    BY <1>2, SkillsInOrder
  <2> QED
    BY <1>2, <2>1 DEF Settling
<1> QED
  BY <1>1, <1>2

LEMMA SettlesFirst == ASSUME ManagedAssumption, ManagedInit PROVE SettledInv
<1>1. run.next = 1 /\ settled = "no"
  BY DEF ManagedInit, Idle
<1> QED
  BY <1>1, TypesFirst DEF SettledInv, Settling

(* A step of a command, and what people do in between. *)
LEMMA SettlesOn ==
  ASSUME ManagedAssumption, SettledInv, ManagedNext
  PROVE  /\ run'.next \in Nat \ {0}
         /\ Settling'
         /\ settled' = "yes" => run'.pc = "idle" /\ \A s \in SkillNames : Settled(s, lock)'
<1> DEFINE Goal == /\ run'.next \in Nat \ {0}
                   /\ Settling'
                   /\ settled' = "yes" => run'.pc = "idle" /\ \A s \in SkillNames : Settled(s, lock)'
<1>0. ManagedInv /\ ManagedTypes /\ RunShape(run) /\ run.next \in Nat \ {0}
  BY DEF SettledInv, ManagedInv, ManagedTypes
<1>1. ASSUME settled' = "no", run'.next \in Nat \ {0} PROVE Goal
  BY <1>1 DEF Settling
<1>2. ASSUME UNCHANGED <<skill, lock, package, settled, run>> PROVE Goal
  BY <1>2 DEF SettledInv, Settling, Settled, SourceOf
<1>3. ASSUME settled' \in {"running", "no"}, run'.pc \notin Locking, run'.next \in Nat \ {0} PROVE Goal
  BY <1>3 DEF Settling
<1>4. ASSUME UNCHANGED <<skill, lock, package, settled>>, run.pc # "idle", run'.pc \notin Locking, run'.next \in Nat \ {0}
      PROVE  Goal
  BY <1>4 DEF SettledInv, Settling, Settled, SourceOf
<1>5. CASE Begin
  <2>1. run'.pc \in {"lock", "plan"} /\ run'.next = 1 /\ settled' \in {"running", "no"}
    BY <1>5 DEF Begin, Idle
  <2> QED
    BY <1>3, <2>1 DEF Locking
<1>6. CASE PlanSurfaces \/ SurfacesWritten
  <2>1. run'.pc \in {"lock", "write"} /\ run'.next = run.next
    BY <1>0, <1>6 DEF PlanSurfaces, SurfacesWritten, RunShape, RunFields
  <2> QED
    BY <1>0, <1>4, <1>6, <2>1 DEF PlanSurfaces, SurfacesWritten, Locking
<1>7. CASE WriteSurface
  <2>1. run'.pc = "write" /\ run'.next = run.next + 1
    BY <1>0, <1>7 DEF WriteSurface, RunShape, RunFields
  <2> QED
    BY <1>0, <1>4, <1>7, <2>1 DEF WriteSurface, Locking
<1>8. CASE ReadLock
  <2>1. run'.next = 1
    BY <1>0, <1>8 DEF ReadLock, RunShape, RunFields
  <2>2. Settling'
    BY <2>1, SkillsInOrder DEF Settling
  <2>3. settled' # "yes"
    BY <1>8 DEF ReadLock, SettledInv
  <2> QED
    BY <2>1, <2>2, <2>3
<1>9. CASE Look
  <2> DEFINE s == Skills[run.next]
             decision == Decide(s, run.lock, run.force)
  <2>1. /\ run.next \in DOMAIN Skills /\ run.pc = "skills" /\ s \in SkillNames /\ run.force \in BOOLEAN
        /\ UNCHANGED <<skill, lock, package, settled>>
    BY <1>0, <1>9, SkillNamed DEF Look, ManagedTypes
  <2>2. settled' # "yes"
    BY <2>1 DEF SettledInv
  <2>3. CASE run' = [run EXCEPT !.pc = "copy"] \/ run' = [run EXCEPT !.pc = "remove"]
    <3>1. run'.next = run.next /\ run'.lock = run.lock
      BY <1>0, <2>3 DEF RunShape, RunFields
    <3>2. Settling'
      BY <2>1, <3>1 DEF SettledInv, Settling, Settled, SourceOf, Locking
    <3> QED
      BY <1>0, <2>2, <3>1, <3>2
  <2>4. CASE run' = NextSkill(Upsert(run, s)) /\ decision = "up-to-date"
    <3>1. run'.next = run.next + 1 /\ run'.lock = Locked(run.lock, s)
      BY <1>0, <2>4, NextCounts, Upserted DEF ManagedTypes
    <3>2. skill[s].main # Missing /\ skill[s].main = SourceOf(s)
      BY <2>4, LeftAlone DEF Settled, Decide
    <3>3. ASSUME NEW i \in DOMAIN Skills, i = run.next PROVE Settled(Skills[i], run.lock)'
      BY <2>1, <3>2, <3>3 DEF Settled, SourceOf
    <3>4. ASSUME NEW i \in DOMAIN Skills, i # run.next, Settled(Skills[i], run.lock)
          PROVE  Settled(Skills[i], run.lock)'
      <4>1. Skills[i] # s
        BY <2>1, <3>4, SkillsInOrder
      <4>2. Settled(Skills[i], Locked(run.lock, s))
        BY <3>4, <4>1, EntryKeepsSettled
      <4> QED
        BY <2>1, <3>1, <4>2 DEF Settled, SourceOf
    <3>5. Settling'
      BY <1>0, <2>1, <3>1, <3>3, <3>4, OneMoreSettled DEF SettledInv, Locking
    <3> QED
      BY <1>0, <2>2, <3>1, <3>5
  <2>5. CASE run' = NextSkill(run) /\ decision \notin {"installed", "updated"}
    <3>1. run'.next = run.next + 1 /\ run'.lock = run.lock
      BY <1>0, <2>5, NextCounts, NextShape
    <3>2. Settled(s, run.lock)
      BY <2>1, <2>5, LeftAlone
    <3>3. ASSUME NEW t, Settled(t, run.lock) PROVE Settled(t, run.lock)'
      BY <2>1, <3>1, <3>3 DEF Settled, SourceOf
    <3>4. ASSUME NEW i \in DOMAIN Skills, i = run.next PROVE Settled(Skills[i], run.lock)'
      BY <3>2, <3>3, <3>4
    <3>5. Settling'
      BY <1>0, <2>1, <3>1, <3>3, <3>4, OneMoreSettled DEF SettledInv, Locking
    <3> QED
      BY <1>0, <2>2, <3>1, <3>5
  <2> QED
    BY <1>9, <2>3, <2>4, <2>5 DEF Look
<1>10. CASE RemoveOld
  <2> DEFINE s == Skills[run.next]
  <2>1. /\ run.pc = "remove" /\ run'.lock = run.lock /\ run'.next = run.next
        /\ run.next \in DOMAIN Skills
        /\ UNCHANGED <<lock, package, settled>>
    BY <1>0, <1>10 DEF RemoveOld, ManagedTypes, RunShape, RunFields
  <2>2. \A t \in SkillNames : t # s => skill'[t] = skill[t]
    BY <1>0, <1>10 DEF RemoveOld, ManagedTypes
  <2>3. ASSUME settled = "running", NEW i \in DOMAIN Skills, i < run.next
        PROVE  Settled(Skills[i], run.lock)'
    <3>1. Skills[i] # s /\ Skills[i] \in SkillNames
      BY <2>1, <2>3, SkillsInOrder, SkillNamed
    <3>2. Settled(Skills[i], run.lock)
      BY <2>1, <2>3 DEF SettledInv, Settling, Locking
    <3> QED
      BY <2>1, <2>2, <3>1, <3>2 DEF Settled, SourceOf
  <2>4. settled # "yes"
    BY <2>1 DEF SettledInv
  <2> QED
    BY <1>0, <2>1, <2>3, <2>4 DEF Settling
<1>11. CASE Copy
  <2> DEFINE s == Skills[run.next]
  <2>1. /\ run.pc = "copy" /\ run.next \in DOMAIN Skills /\ s \in SkillNames
        /\ run' = NextSkill(Upsert(run, s)) /\ UNCHANGED <<lock, package, settled>>
    BY <1>0, <1>11, SkillNamed DEF Copy, ManagedTypes
  <2>2. run'.next = run.next + 1 /\ run'.lock = Locked(run.lock, s)
    BY <1>0, <2>1, NextCounts, Upserted DEF ManagedTypes
  <2>3. skill'[s].main = SourceOf(s) /\ \A t \in SkillNames \ {s} : skill'[t] = skill[t]
    BY <1>0, <1>11, <2>1 DEF Copy, ManagedTypes
  <2>4. ASSUME NEW i \in DOMAIN Skills, i = run.next PROVE Settled(Skills[i], run.lock)'
    <3>1. SourceOf(s) # Missing
      BY DEF SourceOf, Version, Missing
    <3> QED
      BY <2>1, <2>3, <2>4, <3>1 DEF Settled, SourceOf
  <2>5. ASSUME NEW i \in DOMAIN Skills, i # run.next, Settled(Skills[i], run.lock)
        PROVE  Settled(Skills[i], run.lock)'
    <3>1. Skills[i] # s /\ Skills[i] \in SkillNames
      BY <2>1, <2>5, SkillsInOrder, SkillNamed
    <3>2. Settled(Skills[i], Locked(run.lock, s))
      BY <2>5, <3>1, EntryKeepsSettled
    <3> QED
      BY <2>1, <2>2, <2>3, <3>1, <3>2 DEF Settled, SourceOf
  <2>6. Settling'
    BY <1>0, <2>1, <2>2, <2>4, <2>5, OneMoreSettled DEF SettledInv, Locking
  <2>7. settled' # "yes"
    BY <2>1 DEF SettledInv
  <2> QED
    BY <1>0, <2>2, <2>6, <2>7
<1>12. CASE WriteLock
  <2>1. /\ run.pc = "skills" /\ run.next \notin DOMAIN Skills /\ run' = Idle
        /\ UNCHANGED <<skill, package>>
        /\ lock' = IF run.dirty THEN run.lock ELSE lock
        /\ settled' = IF settled = "running" THEN "yes" ELSE "no"
    BY <1>12 DEF WriteLock
  <2>2. run'.pc = "idle" /\ run'.next = 1
    BY <2>1 DEF Idle
  <2>3. ASSUME settled = "running", NEW s \in SkillNames PROVE Settled(s, lock)'
    <3>1. PICK i \in DOMAIN Skills : s = Skills[i]
      BY SkillsInOrder
    <3>2. i < run.next
      BY <1>0, <2>1, SkillsInOrder
    <3>3. Settled(s, run.lock)
      BY <2>1, <2>3, <3>1, <3>2 DEF SettledInv, Settling, Locking
    <3>4. CASE run.dirty
      BY <2>1, <3>3, <3>4 DEF Settled, SourceOf
    <3>5. CASE ~run.dirty
      <4>1. lock' = lock /\ DOMAIN run.lock = DOMAIN lock /\ \A t \in DOMAIN lock : run.lock[t] = lock[t]
        BY <1>0, <2>1, <3>5 DEF ManagedInv, CleanCopy, Locking
      <4>2. skill' = skill /\ SourceOf(s)' = SourceOf(s)
        BY <2>1 DEF SourceOf
      <4> QED
        BY <3>3, <4>1, <4>2 DEF Settled
    <3> QED
      BY <3>4, <3>5
  <2>4. Settling'
    BY <2>2 DEF Settling, Locking
  <2> QED
    BY <2>1, <2>2, <2>3, <2>4
<1>13. CASE Die
  BY <1>1, <1>13 DEF Die, Idle
<1>14. CASE HookCommand
  BY <1>2, <1>14 DEF HookCommand
<1>15. ASSUME NEW p \in Providers, Fix(p) PROVE Goal
  BY <1>0, <1>1, <1>15 DEF Fix
<1>16. ASSUME NEW p \in DOMAIN docs, Edit(p) PROVE Goal
  BY <1>0, <1>1, <1>16 DEF Edit
<1>17. ASSUME NEW s \in SkillNames, EditSkill(s) PROVE Goal
  BY <1>0, <1>1, <1>17 DEF EditSkill
<1>18. ASSUME NEW s \in SkillNames, Upgrade(s) PROVE Goal
  BY <1>0, <1>1, <1>18 DEF Upgrade
<1> QED
  BY <1>5, <1>6, <1>7, <1>8, <1>9, <1>10, <1>11, <1>12, <1>13, <1>14, <1>15, <1>16, <1>17, <1>18
     DEF ManagedNext, CommandStep

(* After a sync that reached its end with nobody else at the skills, and until
   the next change, a check announces nothing for any skill, whether the sync
   was forced or not and whatever was left of earlier commands: the decision
   taken with the copy of the lock is the one the preview takes with the lock
   that was written. *)
LEMMA SyncSettlesSkills == ManagedSpec => []SkillsSettled
<1>1. ManagedInit => SettledInv
  BY SettlesFirst, ManagedAssumption
<1>2. SettledInv /\ [ManagedNext]_managedVars => SettledInv'
  <2> SUFFICES ASSUME SettledInv, [ManagedNext]_managedVars PROVE SettledInv'
    OBVIOUS
  <2>1. CASE ManagedNext
    BY <2>1, SettlesOn, TypesStay, KnownStays, ManagedAssumption DEF SettledInv, ManagedInv
  <2>2. CASE UNCHANGED managedVars
    BY <2>2 DEF managedVars, SettledInv, Settling, Settled, SourceOf,
                ManagedInv, ManagedTypes, SkillsKnown, CleanCopy, Known, Replaced
  <2> QED
    BY <2>1, <2>2
<1>3. SettledInv => SkillsSettled
  <2> SUFFICES ASSUME SettledInv, settled = "yes", NEW s \in SkillNames
               PROVE  PreviewSkill(s) \notin Pending
    BY DEF SkillsSettled
  <2>1. Settled(s, lock)
    BY DEF SettledInv
  <2>2. CASE skill[s].main = SourceOf(s)
    BY <2>1, <2>2 DEF Settled, PreviewSkill, Pending
  <2>3. CASE skill[s].main # SourceOf(s)
    <3>1. skill[s].main # Missing /\ (s \notin DOMAIN lock \/ skill[s].main # lock[s])
      BY <2>1, <2>3 DEF Settled
    <3>2. CASE s \notin DOMAIN lock
      BY <2>3, <3>1, <3>2 DEF PreviewSkill, Pending
    <3>3. CASE s \in DOMAIN lock
      BY <2>3, <3>1, <3>3 DEF PreviewSkill, Pending
    <3> QED
      BY <3>2, <3>3
  <2> QED
    BY <2>2, <2>3
<1> QED
  BY <1>1, <1>2, <1>3, PTL DEF ManagedSpec

-----------------------------------------------------------------------------
(* What a reader of a file sees. *)

MarkStart(r) == r
MarkStep(r, seen, x) == ReadOn(seen, x)

Marking == INSTANCE FoldFacts WITH Step <- MarkStep, Start <- MarkStart

(* What the reader r has seen who reads s as well. *)
Further(r, s) == Marking!Folded(r, s)

(* What was seen when k pieces of a file are read. *)
SeenAt(doc, k) == Further(Unread, SubSeq(doc, 1, k))

LEMMA ReadIsSeen == ASSUME NEW doc PROVE Read(doc) = Further(Unread, doc)
BY DEF Read, Further, FoldLeft, MapThenFoldSet, Max, Marking!Folded, Marking!Highest, MarkStep, MarkStart

LEMMA FurtherSteps ==
  ASSUME NEW r, NEW S, NEW s \in Seq(S)
  PROVE  /\ Further(r, SubSeq(s, 1, 0)) = r /\ Further(r, <<>>) = r
         /\ \A k \in 0 .. (Len(s) - 1) :
              Further(r, SubSeq(s, 1, k + 1)) = ReadOn(Further(r, SubSeq(s, 1, k)), s[k + 1])
         /\ SubSeq(s, 1, Len(s)) = s
<1>1. /\ Marking!Folded(r, SubSeq(s, 1, 0)) = MarkStart(r)
      /\ \A k \in 0 .. (Len(s) - 1) :
           Marking!Folded(r, SubSeq(s, 1, k + 1)) = MarkStep(r, Marking!Folded(r, SubSeq(s, 1, k)), s[k + 1])
      /\ SubSeq(s, 1, Len(s)) = s
  BY Marking!FoldedBeginnings
<1>2. Marking!Folded(r, <<>>) = MarkStart(r)
  <2>1. DOMAIN <<>> = {}
    OBVIOUS
  <2> QED
    BY <2>1, Marking!FoldedNothing
<1> QED
  BY <1>1, <1>2 DEF Further, MarkStart, MarkStep

LEMMA FurtherOne ==
  ASSUME NEW r, NEW S, NEW s \in Seq(S), NEW k \in 0 .. (Len(s) - 1)
  PROVE  Further(r, SubSeq(s, 1, k + 1)) = ReadOn(Further(r, SubSeq(s, 1, k)), s[k + 1])
<1>1. \A i \in 0 .. (Len(s) - 1) :
        Marking!Folded(r, SubSeq(s, 1, i + 1)) = MarkStep(r, Marking!Folded(r, SubSeq(s, 1, i)), s[i + 1])
  BY Marking!FoldedBeginnings
<1> QED
  BY <1>1 DEF Further, MarkStep

LEMMA FurtherBoth ==
  ASSUME NEW r, NEW S, NEW s \in Seq(S), NEW t \in Seq(S)
  PROVE  Further(r, s \o t) = Further(Further(r, s), t)
<1> DEFINE u == s \o t
           m == Len(s)
           n == Len(t)
           f == Further(r, s)
           A(k) == Further(r, SubSeq(u, 1, m + k))
           B(k) == Further(f, SubSeq(t, 1, k))
           K == {k \in 0 .. n : A(k) = B(k)}
<1>1. /\ u \in Seq(S) /\ m \in Nat /\ n \in Nat /\ Len(u) = m + n
      /\ \A k \in 1 .. n : u[m + k] = t[k]
  OBVIOUS
<1>2. SubSeq(u, 1, m) = s
  <2>1. Len(SubSeq(u, 1, m)) = m /\ \A i \in 1 .. m : SubSeq(u, 1, m)[i] = s[i]
    OBVIOUS
  <2>2. SubSeq(u, 1, m) \in Seq(S)
    OBVIOUS
  <2> QED
    BY <2>1, <2>2
<1>3. A(0) = f /\ SubSeq(u, 1, m + n) = u /\ \A k \in 0 .. (n - 1) : A(k + 1) = ReadOn(A(k), t[k + 1])
  <2>1. /\ \A k \in 0 .. (Len(u) - 1) :
             Further(r, SubSeq(u, 1, k + 1)) = ReadOn(Further(r, SubSeq(u, 1, k)), u[k + 1])
        /\ SubSeq(u, 1, Len(u)) = u
    <3> HIDE DEF u
    <3> QED
      BY <1>1, FurtherSteps
  <2> HIDE DEF u, m, n
  <2>2. ASSUME NEW k \in 0 .. (n - 1) PROVE A(k + 1) = ReadOn(A(k), t[k + 1])
    <3>1. m + k \in 0 .. (Len(u) - 1) /\ m + (k + 1) = (m + k) + 1 /\ k + 1 \in 1 .. n
      BY <1>1
    <3>2. u[(m + k) + 1] = t[k + 1]
      BY <1>1, <3>1
    <3> QED
      BY <2>1, <3>1, <3>2
  <2>3. m + 0 = m
    BY <1>1
  <2> QED
    BY <1>1, <1>2, <2>1, <2>2, <2>3 DEF f
<1>4. B(0) = f /\ SubSeq(t, 1, n) = t /\ \A k \in 0 .. (n - 1) : B(k + 1) = ReadOn(B(k), t[k + 1])
  <2> HIDE DEF f
  <2>1. B(0) = f /\ SubSeq(t, 1, n) = t
    BY FurtherSteps
  <2>2. ASSUME NEW k \in 0 .. (n - 1) PROVE B(k + 1) = ReadOn(B(k), t[k + 1])
    <3> HIDE DEF n
    <3>1. k \in 0 .. (Len(t) - 1)
      BY DEF n
    <3> QED
      BY <3>1, FurtherOne
  <2> QED
    BY <2>1, <2>2
<1> HIDE DEF A, B, u, m, n, f
<1>5. 0 \in K
  BY <1>1, <1>3, <1>4
<1>6. ASSUME NEW k \in Nat, k < n, k \in K PROVE k + 1 \in K
  BY <1>1, <1>3, <1>4, <1>6
<1>7. \A k \in 0 .. n : k \in K
  <2> HIDE DEF K
  <2> QED
    BY <1>1, <1>5, <1>6, Marking!CountingUp
<1>8. A(n) = B(n)
  BY <1>1, <1>7
<1>9. A(n) = Further(r, u) /\ B(n) = Further(f, t)
  BY <1>3, <1>4 DEF A, B
<1> QED
  BY <1>8, <1>9 DEF u, f

(* Reading on from the i-th piece to the j-th. *)
LEMMA SeenBetween ==
  ASSUME NEW S, NEW doc \in Seq(S), NEW i \in 0 .. Len(doc), NEW j \in i .. Len(doc)
  PROVE  SeenAt(doc, j) = Further(SeenAt(doc, i), SubSeq(doc, i + 1, j))
<1> DEFINE a == SubSeq(doc, 1, i)
           b == SubSeq(doc, i + 1, j)
           c == SubSeq(doc, 1, j)
<1>1. a \in Seq(S) /\ b \in Seq(S) /\ c \in Seq(S)
  OBVIOUS
<1>2. Len(a) = i /\ Len(b) = j - i /\ Len(c) = j
  OBVIOUS
<1>3. /\ \A k \in 1 .. i : a[k] = doc[k]
      /\ \A k \in 1 .. (j - i) : b[k] = doc[i + k]
      /\ \A k \in 1 .. j : c[k] = doc[k]
  OBVIOUS
<1>0. i \in Nat /\ j \in Nat /\ i <= j
  OBVIOUS
<1> HIDE DEF a, b, c
<1>4. c = a \o b
  <2>1. Len(a \o b) = j /\ a \o b \in Seq(S)
    BY <1>1, <1>2
  <2>2. ASSUME NEW k \in 1 .. j PROVE c[k] = (a \o b)[k]
    <3>0. k <= i \/ k > i
      BY <1>0
    <3>1. CASE k <= i
      BY <1>1, <1>2, <1>3, <3>1
    <3>2. CASE k > i
      <4>1. (a \o b)[k] = b[k - i] /\ k - i \in 1 .. (j - i)
        BY <1>1, <1>2, <3>2
      <4>2. b[k - i] = doc[i + (k - i)]
        BY <1>3, <4>1
      <4> QED
        BY <1>3, <4>1, <4>2
    <3> QED
      BY <3>0, <3>1, <3>2
  <2> QED
    BY <1>1, <1>2, <2>1, <2>2
<1>5. Further(Unread, a \o b) = Further(Further(Unread, a), b)
  BY <1>1, FurtherBoth
<1> QED
  BY <1>4, <1>5 DEF SeenAt, a, b, c

SeenShape(r) == r = [inside |-> r.inside, paired |-> r.paired, text |-> r.text] /\ r.paired \in BOOLEAN

LEMMA WrittenIs ==
  ASSUME NEW x \in Written
  PROVE  /\ x = [kind |-> x.kind, of |-> x.of] /\ x.kind \in {"start", "end", "text"} /\ x.of \in Owners
         /\ x.kind = "start" => x = Start(x.of)
         /\ x.kind = "end" => x = End(x.of)
BY DEF Written, Start, End, Words

LEMMA SameSeen ==
  ASSUME NEW r, SeenShape(r), NEW u, SeenShape(u),
         u.inside = r.inside, u.text = r.text, u.paired <=> r.paired
  PROVE  u = r
<1>1. u.paired \in BOOLEAN /\ r.paired \in BOOLEAN
  BY DEF SeenShape
<1>2. u.paired = r.paired
  BY <1>1
<1> QED
  BY <1>2 DEF SeenShape

LEMMA StartRead ==
  ASSUME NEW r, SeenShape(r), NEW x, x.kind = "start", NEW u, u = ReadOn(r, x)
  PROVE  /\ SeenShape(u) /\ u.inside = <<x.of>> /\ u.text = r.text
         /\ u.paired <=> r.paired /\ r.inside = <<>>
<1>1. u = [inside |-> <<x.of>>, paired |-> r.paired /\ r.inside = <<>>, text |-> r.text]
  BY DEF ReadOn, SeenShape
<1>2. CASE r.paired /\ r.inside = <<>>
  <2>1. u = [inside |-> <<x.of>>, paired |-> TRUE, text |-> r.text]
    BY <1>1, <1>2
  <2> QED
    BY <1>2, <2>1 DEF SeenShape
<1>3. CASE ~(r.paired /\ r.inside = <<>>)
  <2>1. u = [inside |-> <<x.of>>, paired |-> FALSE, text |-> r.text]
    BY <1>1, <1>3
  <2> QED
    BY <1>3, <2>1 DEF SeenShape
<1> QED
  BY <1>2, <1>3

LEMMA EndRead ==
  ASSUME NEW r, SeenShape(r), NEW x, x.kind = "end", NEW u, u = ReadOn(r, x)
  PROVE  /\ SeenShape(u) /\ u.inside = <<>> /\ u.text = r.text
         /\ u.paired <=> r.paired /\ r.inside = <<x.of>>
<1>1. u = [inside |-> <<>>, paired |-> r.paired /\ r.inside = <<x.of>>, text |-> r.text]
  BY DEF ReadOn, SeenShape
<1>2. CASE r.paired /\ r.inside = <<x.of>>
  <2>1. u = [inside |-> <<>>, paired |-> TRUE, text |-> r.text]
    BY <1>1, <1>2
  <2> QED
    BY <1>2, <2>1 DEF SeenShape
<1>3. CASE ~(r.paired /\ r.inside = <<x.of>>)
  <2>1. u = [inside |-> <<>>, paired |-> FALSE, text |-> r.text]
    BY <1>1, <1>3
  <2> QED
    BY <1>3, <2>1 DEF SeenShape
<1> QED
  BY <1>2, <1>3

LEMMA TextRead ==
  ASSUME NEW r, SeenShape(r), NEW x, x.kind \notin {"start", "end"}, NEW u, u = ReadOn(r, x)
  PROVE  /\ SeenShape(u) /\ u.inside = r.inside /\ u.paired = r.paired
         /\ r.inside # <<>> \/ x = Shebang => u = r
<1>1. u = IF r.inside = <<>> /\ x # Shebang THEN [r EXCEPT !.text = Append(@, x)] ELSE r
  BY DEF ReadOn
<1>2. CASE r.inside = <<>> /\ x # Shebang
  <2>1. u = [inside |-> r.inside, paired |-> r.paired, text |-> Append(r.text, x)]
    BY <1>1, <1>2 DEF SeenShape
  <2> QED
    BY <1>2, <2>1 DEF SeenShape
<1>3. CASE ~(r.inside = <<>> /\ x # Shebang)
  BY <1>1, <1>3
<1> QED
  BY <1>2, <1>3

LEMMA ReadOnIs ==
  ASSUME NEW r, SeenShape(r), NEW x
  PROVE  SeenShape(ReadOn(r, x)) /\ (~r.paired => ~ReadOn(r, x).paired)
<1>1. CASE x.kind = "start"
  BY <1>1, StartRead
<1>2. CASE x.kind = "end"
  BY <1>2, EndRead
<1>3. CASE x.kind \notin {"start", "end"}
  BY <1>3, TextRead
<1> QED
  BY <1>1, <1>2, <1>3

LEMMA SeenSteps ==
  ASSUME NEW doc \in Seq(Written)
  PROVE  /\ SeenAt(doc, 0) = Unread /\ Read(doc) = SeenAt(doc, Len(doc))
         /\ \A k \in 0 .. Len(doc) : SeenShape(SeenAt(doc, k))
         /\ \A k \in 0 .. (Len(doc) - 1) : SeenAt(doc, k + 1) = ReadOn(SeenAt(doc, k), doc[k + 1])
<1> DEFINE n == Len(doc)
           K == {k \in 0 .. n : SeenShape(SeenAt(doc, k))}
<1>0. n \in Nat
  OBVIOUS
<1>1. SeenAt(doc, 0) = Unread /\ SubSeq(doc, 1, n) = doc
  BY FurtherSteps DEF SeenAt
<1>2. Read(doc) = SeenAt(doc, n)
  BY <1>1, ReadIsSeen DEF SeenAt
<1>3. ASSUME NEW k \in 0 .. (n - 1) PROVE SeenAt(doc, k + 1) = ReadOn(SeenAt(doc, k), doc[k + 1])
  BY <1>3, FurtherOne DEF SeenAt
<1> HIDE DEF n
<1>4. 0 \in K
  <2>1. SeenShape(Unread)
    BY DEF SeenShape, Unread
  <2> QED
    BY <1>0, <1>1, <2>1
<1>5. ASSUME NEW k \in Nat, k < n, k \in K PROVE k + 1 \in K
  BY <1>0, <1>3, <1>5, ReadOnIs
<1>6. \A k \in 0 .. n : k \in K
  <2> HIDE DEF K
  <2> QED
    BY <1>0, <1>4, <1>5, Marking!CountingUp
<1> QED
  BY <1>1, <1>2, <1>3, <1>6 DEF n

(* A file whose marks come in pairs is read as such all along. *)
LEMMA PairedBefore ==
  ASSUME NEW doc \in Seq(Written), Tidy(doc), NEW k \in 0 .. Len(doc)
  PROVE  SeenAt(doc, k).paired
<1> DEFINE n == Len(doc)
           K == {i \in 0 .. (n - k) : ~SeenAt(doc, k + i).paired}
<1>1. /\ n \in Nat /\ k \in Nat /\ n - k \in Nat /\ SeenAt(doc, n).paired
      /\ \A i \in 0 .. n : SeenShape(SeenAt(doc, i))
      /\ \A i \in 0 .. (n - 1) : SeenAt(doc, i + 1) = ReadOn(SeenAt(doc, i), doc[i + 1])
  BY SeenSteps DEF Tidy
<1> HIDE DEF n
<1> SUFFICES ASSUME ~SeenAt(doc, k).paired PROVE FALSE
  OBVIOUS
<1>2. 0 \in K
  BY <1>1
<1>3. ASSUME NEW i \in Nat, i < n - k, i \in K PROVE i + 1 \in K
  <2>1. k + i \in 0 .. (n - 1) /\ k + i \in 0 .. n /\ k + (i + 1) = (k + i) + 1 /\ i + 1 \in 0 .. (n - k)
    BY <1>1, <1>3
  <2>2. SeenAt(doc, k + (i + 1)) = ReadOn(SeenAt(doc, k + i), doc[(k + i) + 1])
    BY <1>1, <2>1
  <2>3. ~SeenAt(doc, k + i).paired
    BY <1>3
  <2>4. ~SeenAt(doc, k + (i + 1)).paired
    BY <1>1, <2>1, <2>2, <2>3, ReadOnIs
  <2> QED
    BY <2>1, <2>4
<1>4. \A i \in 0 .. (n - k) : i \in K
  <2> HIDE DEF K
  <2> QED
    BY <1>1, <1>2, <1>3, Marking!CountingUp
<1>5. n - k \in K
  <2>1. n - k \in 0 .. (n - k)
    BY <1>1
  <2> HIDE DEF K
  <2> QED
    BY <1>4, <2>1
<1>6. k + (n - k) = n
  BY <1>1
<1> QED
  BY <1>1, <1>5, <1>6

(* Behind a start mark one is inside its block until the end mark comes. *)
LEMMA InsideStays ==
  ASSUME NEW doc \in Seq(Written), Tidy(doc), NEW p, NEW a \in 1 .. Len(doc), doc[a] = Start(p),
         NEW m \in a .. Len(doc), \A i \in (a + 1) .. m : doc[i] # End(p)
  PROVE  /\ SeenAt(doc, m) = SeenAt(doc, a) /\ SeenAt(doc, a).inside = <<p>>
         /\ SeenAt(doc, a - 1).inside = <<>> /\ SeenAt(doc, a - 1).paired /\ SeenAt(doc, a).paired
         /\ SeenAt(doc, a).text = SeenAt(doc, a - 1).text
<1> DEFINE n == Len(doc)
           K == {i \in 0 .. (m - a) : SeenAt(doc, a + i) = SeenAt(doc, a)}
<1>1. /\ n \in Nat /\ a \in Nat /\ m \in Nat /\ 1 <= a /\ a <= m /\ m <= n
      /\ \A i \in 0 .. n : SeenShape(SeenAt(doc, i)) /\ SeenAt(doc, i).paired
      /\ \A i \in 0 .. (n - 1) : SeenAt(doc, i + 1) = ReadOn(SeenAt(doc, i), doc[i + 1])
      /\ \A i \in 1 .. n : doc[i] \in Written
  BY SeenSteps, PairedBefore
<1> HIDE DEF n
<1>2. /\ SeenAt(doc, a).inside = <<p>> /\ SeenAt(doc, a - 1).inside = <<>> /\ SeenAt(doc, a - 1).paired
      /\ SeenAt(doc, a).paired /\ SeenAt(doc, a).text = SeenAt(doc, a - 1).text
  <2>1. a - 1 \in 0 .. n /\ a - 1 \in 0 .. (n - 1) /\ (a - 1) + 1 = a /\ a \in 0 .. n
    BY <1>1
  <2>2. SeenAt(doc, a) = ReadOn(SeenAt(doc, a - 1), Start(p)) /\ SeenShape(SeenAt(doc, a - 1))
        /\ SeenAt(doc, a).paired /\ SeenAt(doc, a - 1).paired
    BY <1>1, <2>1
  <2>3. Start(p).kind = "start" /\ Start(p).of = p
    BY DEF Start
  <2> QED
    BY <2>2, <2>3, StartRead
<1>3. 0 \in K
  BY <1>1
<1>4. ASSUME NEW i \in Nat, i < m - a, i \in K PROVE i + 1 \in K
  <2> DEFINE r == SeenAt(doc, a + i)
             x == doc[(a + i) + 1]
             u == SeenAt(doc, (a + i) + 1)
  <2>1. /\ a + i \in 0 .. (n - 1) /\ (a + i) + 1 \in 0 .. n /\ (a + i) + 1 \in 1 .. n /\ a + i \in 0 .. n
        /\ (a + i) + 1 \in (a + 1) .. m /\ a + (i + 1) = (a + i) + 1 /\ i + 1 \in 0 .. (m - a)
    BY <1>1, <1>4
  <2>2. u = ReadOn(r, x) /\ SeenShape(r) /\ u.paired /\ x \in Written /\ x # End(p)
    BY <1>1, <2>1
  <2>3. r = SeenAt(doc, a) /\ r.inside = <<p>>
    BY <1>2, <1>4
  <2> HIDE DEF r, x, u
  <2>4. x.kind # "start"
    <3>1. <<p>> # <<>>
      OBVIOUS
    <3> QED
      BY <2>2, <2>3, <3>1, StartRead
  <2>5. x.kind # "end"
    <3> SUFFICES ASSUME x.kind = "end" PROVE FALSE
      OBVIOUS
    <3>1. <<p>> = <<x.of>>
      BY <2>2, <2>3, EndRead
    <3>2. x.of = p
      BY <3>1
    <3> QED
      BY <2>2, <3>2, WrittenIs
  <2>6. u = r
    <3>1. r.inside # <<>>
      <4>1. <<p>> # <<>>
        OBVIOUS
      <4> QED
        BY <2>3, <4>1
    <3>2. x.kind \notin {"start", "end"}
      BY <2>4, <2>5
    <3>3. u = ReadOn(r, x) /\ SeenShape(r)
      BY <2>2
    <3> QED
      BY <3>1, <3>2, <3>3, TextRead
  <2> QED
    BY <2>1, <2>3, <2>6 DEF u
<1>5. \A i \in 0 .. (m - a) : i \in K
  <2>1. m - a \in Nat
    BY <1>1
  <2> HIDE DEF K
  <2> QED
    BY <2>1, <1>3, <1>4, Marking!CountingUp
<1>6. m - a \in K
  <2>1. m - a \in 0 .. (m - a)
    BY <1>1
  <2> HIDE DEF K
  <2> QED
    BY <1>5, <2>1
<1>7. a + (m - a) = m
  BY <1>1
<1> QED
  BY <1>2, <1>6, <1>7

(* A block that was read leaves nothing behind. *)
LEMMA BlockSeen ==
  ASSUME NEW doc \in Seq(Written), Tidy(doc), NEW p, NEW a \in 1 .. Len(doc), doc[a] = Start(p),
         NEW b \in (a + 1) .. Len(doc), doc[b] = End(p), \A i \in (a + 1) .. (b - 1) : doc[i] # End(p)
  PROVE  SeenAt(doc, b) = SeenAt(doc, a - 1) /\ SeenAt(doc, b).inside = <<>>
<1> DEFINE r == SeenAt(doc, a - 1)
           v == SeenAt(doc, b - 1)
           u == SeenAt(doc, b)
<1>1. /\ b - 1 \in a .. Len(doc) /\ b - 1 \in 0 .. (Len(doc) - 1) /\ (b - 1) + 1 = b /\ a - 1 \in 0 .. Len(doc)
      /\ b - 1 \in 0 .. Len(doc) /\ b \in 0 .. Len(doc)
  OBVIOUS
<1>2. /\ v.inside = <<p>> /\ v.paired /\ v.text = r.text /\ r.inside = <<>> /\ r.paired
  <2>1. v = SeenAt(doc, a)
    BY <1>1, InsideStays
  <2> QED
    BY <1>1, <2>1, InsideStays
<1>3. u = ReadOn(v, End(p)) /\ SeenShape(v) /\ SeenShape(r)
  BY <1>1, SeenSteps
<1> HIDE DEF u, v, r
<1>4. End(p).kind = "end" /\ End(p).of = p
  BY DEF End
<1>5. /\ SeenShape(u) /\ u.inside = <<>> /\ u.text = v.text /\ u.paired
  BY <1>2, <1>3, <1>4, EndRead
<1>6. u = r
  BY <1>2, <1>3, <1>5, SameSeen
<1> QED
  BY <1>5, <1>6 DEF u, r

(* A block that was begun is ended before the next one begins, or the file
   ends. *)
LEMMA StartCloses ==
  ASSUME NEW doc \in Seq(Written), Tidy(doc), NEW p, NEW a \in 1 .. Len(doc), doc[a] = Start(p),
         NEW c \in (a + 1) .. (Len(doc) + 1), c <= Len(doc) => doc[c].kind = "start"
  PROVE  \E b \in (a + 1) .. (c - 1) : doc[b] = End(p)
<1> SUFFICES ASSUME \A b \in (a + 1) .. (c - 1) : doc[b] # End(p) PROVE FALSE
  OBVIOUS
<1> DEFINE n == Len(doc)
<1>1. c - 1 \in a .. n /\ c - 1 \in 0 .. n /\ n \in Nat /\ c \in Nat
  OBVIOUS
<1>2. SeenAt(doc, c - 1).inside = <<p>>
  <2>1. SeenAt(doc, c - 1) = SeenAt(doc, a) /\ SeenAt(doc, a).inside = <<p>>
    BY <1>1, InsideStays
  <2> QED
    BY <2>1
<1>3. <<p>> # <<>>
  OBVIOUS
<1>4. CASE c <= n
  <2> DEFINE r == SeenAt(doc, c - 1)
             u == SeenAt(doc, c)
  <2>1. c - 1 \in 0 .. (n - 1) /\ (c - 1) + 1 = c /\ c \in 0 .. n
    BY <1>1, <1>4
  <2>2. u = ReadOn(r, doc[c]) /\ SeenShape(r) /\ doc[c].kind = "start"
    BY <1>1, <1>4, <2>1, SeenSteps
  <2>3. u.paired
    BY <2>1, PairedBefore
  <2> HIDE DEF u
  <2>4. r.inside = <<>>
    BY <2>2, <2>3, StartRead
  <2> QED
    BY <1>2, <1>3, <2>4
<1>5. CASE c > n
  <2>1. c - 1 = n
    BY <1>1, <1>5
  <2>2. SeenAt(doc, n).inside = <<>>
    BY SeenSteps DEF Tidy
  <2> QED
    BY <1>2, <1>3, <2>1, <2>2
<1> QED
  BY <1>1, <1>4, <1>5

(* Inside a block its start mark was read. *)
LEMMA InsideSince ==
  ASSUME NEW doc \in Seq(Written), NEW m \in 0 .. Len(doc), NEW p, SeenAt(doc, m).inside = <<p>>
  PROVE  \E a \in 1 .. m : doc[a] = Start(p)
<1> DEFINE n == Len(doc)
           K == {k \in 0 .. n : SeenAt(doc, k).inside = <<p>> => \E a \in 1 .. k : doc[a] = Start(p)}
<1>1. /\ n \in Nat /\ SeenAt(doc, 0).inside = <<>>
      /\ \A i \in 0 .. n : SeenShape(SeenAt(doc, i))
      /\ \A i \in 0 .. (n - 1) : SeenAt(doc, i + 1) = ReadOn(SeenAt(doc, i), doc[i + 1])
      /\ \A i \in 1 .. n : doc[i] \in Written
  BY SeenSteps DEF Unread
<1> HIDE DEF n
<1>2. 0 \in K
  <2>1. SeenAt(doc, 0).inside # <<p>>
    <3>1. <<p>> # <<>>
      OBVIOUS
    <3> QED
      BY <1>1, <3>1
  <2>2. 0 \in 0 .. n
    BY <1>1
  <2> QED
    BY <2>1, <2>2
<1>3. ASSUME NEW k \in Nat, k < n, k \in K PROVE k + 1 \in K
  <2> DEFINE r == SeenAt(doc, k)
             u == SeenAt(doc, k + 1)
             x == doc[k + 1]
  <2>1. k \in 0 .. (n - 1) /\ k + 1 \in 0 .. n /\ k + 1 \in 1 .. n /\ k \in 0 .. n
    BY <1>1, <1>3
  <2>2. u = ReadOn(r, x) /\ SeenShape(r) /\ x \in Written
    BY <1>1, <2>1
  <2>3. r.inside = <<p>> => \E a \in 1 .. k : doc[a] = Start(p)
    BY <1>3
  <2>4. ASSUME u.inside = <<p>> PROVE x = Start(p) \/ r.inside = <<p>>
    <3> HIDE DEF u, r, x
    <3>1. CASE x.kind = "start"
      <4>1. <<x.of>> = <<p>>
        BY <2>2, <2>4, <3>1, StartRead
      <4>2. x.of = p
        BY <4>1
      <4> QED
        BY <2>2, <3>1, <4>2, WrittenIs
    <3>2. CASE x.kind = "end"
      <4>1. u.inside = <<>>
        BY <2>2, <3>2, EndRead
      <4>2. <<p>> # <<>>
        OBVIOUS
      <4> QED
        BY <2>4, <4>1, <4>2
    <3>3. CASE x.kind = "text"
      BY <2>2, <2>4, <3>3, TextRead
    <3> QED
      BY <2>2, <3>1, <3>2, <3>3, WrittenIs
  <2>5. ASSUME u.inside = <<p>> PROVE \E a \in 1 .. (k + 1) : doc[a] = Start(p)
    <3>1. CASE x = Start(p)
      <4>1. k + 1 \in 1 .. (k + 1)
        BY <2>1
      <4> QED
        BY <3>1, <4>1
    <3>2. CASE r.inside = <<p>>
      <4>1. PICK a \in 1 .. k : doc[a] = Start(p)
        BY <2>3, <3>2
      <4>2. a \in 1 .. (k + 1)
        BY <2>1
      <4> QED
        BY <4>1, <4>2
    <3> QED
      BY <2>4, <2>5, <3>1, <3>2
  <2> QED
    BY <2>1, <2>5
<1>4. \A k \in 0 .. n : k \in K
  <2> HIDE DEF K
  <2> QED
    BY <1>1, <1>2, <1>3, Marking!CountingUp
<1>5. m \in K
  <2> HIDE DEF K
  <2> QED
    BY <1>4 DEF n
<1> QED
  BY <1>5

-----------------------------------------------------------------------------
(* The blocks of a provider. *)

(* The position at which a search for a mark ends, 0 for none. *)
FoundAt(doc, mark, from, at) ==
  \/ at = 0 /\ \A i \in from .. Len(doc) : doc[i] # mark
  \/ at \in from .. Len(doc) /\ doc[at] = mark /\ \A i \in from .. (at - 1) : doc[i] # mark

LEMMA FirstFound ==
  ASSUME NEW doc \in Seq(Written), NEW mark, NEW from \in Nat \ {0}
  PROVE  FoundAt(doc, mark, from, FirstFrom(doc, mark, from))
<1> DEFINE at == {i \in from .. Len(doc) : doc[i] = mark}
<1>1. CASE at = {}
  <2>1. FirstFrom(doc, mark, from) = 0
    BY <1>1 DEF FirstFrom
  <2> QED
    BY <1>1, <2>1 DEF FoundAt
<1>2. CASE at # {}
  <2>1. FirstFrom(doc, mark, from) = Min(at)
    BY <1>2 DEF FirstFrom
  <2>2. at \subseteq Nat
    OBVIOUS
  <2>3. \E m \in at : \A k \in at : m <= k
    <3> HIDE DEF at
    <3> QED
      BY <1>2, <2>2, Marking!LeastNumber
  <2>4. Min(at) \in at /\ \A k \in at : Min(at) <= k
    <3> HIDE DEF at
    <3> QED
      BY <2>3 DEF Min
  <2> DEFINE m == Min(at)
  <2>5. m \in from .. Len(doc) /\ doc[m] = mark
    BY <2>4
  <2>6. ASSUME NEW i \in from .. (m - 1) PROVE doc[i] # mark
    <3> SUFFICES ASSUME doc[i] = mark PROVE FALSE
      OBVIOUS
    <3>1. m \in from .. Len(doc)
      BY <2>5
    <3> HIDE DEF m
    <3>2. i \in at
      BY <3>1
    <3>3. m <= i
      BY <2>4, <3>2 DEF m
    <3> QED
      BY <3>1, <3>3
  <2> QED
    BY <2>1, <2>5, <2>6 DEF FoundAt
<1> QED
  BY <1>1, <1>2

(* Where the search for the k-th block begins. *)
FromAt(spans, k) == IF k = 1 THEN 1 ELSE spans[k - 1][2] + 1

IsBlock(doc, p, from, a, b) ==
  /\ a \in from .. Len(doc) /\ b \in (a + 1) .. Len(doc)
  /\ doc[a] = Start(p) /\ doc[b] = End(p)
  /\ \A i \in from .. (a - 1) : doc[i] # Start(p)
  /\ \A i \in (a + 1) .. (b - 1) : doc[i] # End(p)

BlocksOf(doc, p, spans) ==
  /\ spans \in Seq(Nat \X Nat)
  /\ \A k \in 1 .. Len(spans) : IsBlock(doc, p, FromAt(spans, k), spans[k][1], spans[k][2])

(* No block begins and ends behind a position. *)
SearchedOut(doc, p, from) ==
  \A a, b \in from .. Len(doc) : a < b => ~(doc[a] = Start(p) /\ doc[b] = End(p))

LEMMA SearchFromIs ==
  ASSUME NEW doc \in Seq(Written), NEW p, NEW spans, BlocksOf(doc, p, spans)
  PROVE  /\ SearchFrom(spans) = FromAt(spans, Len(spans) + 1)
         /\ \A k \in 1 .. (Len(spans) + 1) : FromAt(spans, k) \in 1 .. (Len(doc) + 1)
<1>1. Len(spans) \in Nat /\ (spans = <<>> <=> Len(spans) = 0)
  BY DEF BlocksOf
<1>2. SearchFrom(spans) = FromAt(spans, Len(spans) + 1)
  BY <1>1 DEF SearchFrom, FromAt
<1>3. ASSUME NEW k \in 1 .. (Len(spans) + 1) PROVE FromAt(spans, k) \in 1 .. (Len(doc) + 1)
  <2>1. CASE k = 1
    BY <2>1 DEF FromAt
  <2>2. CASE k # 1
    <3>1. k - 1 \in 1 .. Len(spans)
      BY <1>1, <2>2
    <3>2. spans[k - 1] \in Nat \X Nat
      BY <3>1 DEF BlocksOf
    <3>3. spans[k - 1][2] \in (spans[k - 1][1] + 1) .. Len(doc) /\ spans[k - 1][1] \in Nat
      BY <3>1, <3>2 DEF BlocksOf, IsBlock
    <3>4. spans[k - 1][2] + 1 \in 1 .. (Len(doc) + 1)
      BY <3>3
    <3> QED
      BY <2>2, <3>4 DEF FromAt
  <2> QED
    BY <2>1, <2>2
<1> QED
  BY <1>2, <1>3

LEMMA SearchedOnce ==
  ASSUME NEW doc \in Seq(Written), NEW p, NEW spans, BlocksOf(doc, p, spans),
         NEW r, r = SearchOnce(doc, p, spans)
  PROVE  /\ BlocksOf(doc, p, r)
         /\ \/ r = spans /\ SearchedOut(doc, p, SearchFrom(spans))
            \/ SearchFrom(r) >= SearchFrom(spans) + 2 /\ ~SearchedOut(doc, p, SearchFrom(spans))
<1> DEFINE from == SearchFrom(spans)
           first == FirstFrom(doc, Start(p), from)
           close == Closing(doc, End(p), first)
           last == IF first = 0 THEN 0 ELSE close
           n == Len(doc)
<1>1. from \in 1 .. (n + 1) /\ from \in Nat \ {0} /\ n \in Nat /\ from = FromAt(spans, Len(spans) + 1)
      /\ Len(spans) \in Nat
  <2>1. Len(spans) \in Nat /\ Len(spans) + 1 \in 1 .. (Len(spans) + 1) /\ n \in Nat
    BY DEF BlocksOf
  <2>2. from = FromAt(spans, Len(spans) + 1)
    BY SearchFromIs
  <2>3. FromAt(spans, Len(spans) + 1) \in 1 .. (n + 1)
    BY <2>1, SearchFromIs
  <2> HIDE DEF n, from
  <2> QED
    BY <2>1, <2>2, <2>3
<1>2. r = IF last = 0 THEN spans ELSE Append(spans, <<first, last>>)
  BY DEF SearchOnce
<1>3. FoundAt(doc, Start(p), from, first)
  BY <1>1, FirstFound
<1>4. first # 0 => FoundAt(doc, End(p), first, close)
  <2> SUFFICES ASSUME first # 0 PROVE FoundAt(doc, End(p), first, close)
    OBVIOUS
  <2>1. first \in Nat \ {0}
    <3> HIDE DEF first, from
    <3> QED
      BY <1>1, <1>3 DEF FoundAt
  <2> HIDE DEF first
  <2> QED
    BY <2>1, FirstFound DEF Closing
<1>5. last = IF first = 0 THEN 0 ELSE close
  OBVIOUS
<1>6. Start(p) # End(p)
  BY DEF Start, End
<1> HIDE DEF from, first, close, last
<1>7. CASE last = 0
  <2>1. r = spans
    BY <1>2, <1>7
  <2>2. ASSUME NEW a \in from .. n, NEW b \in from .. n, a < b, doc[a] = Start(p), doc[b] = End(p) PROVE FALSE
    <3>1. first \in from .. n /\ first <= a
      BY <1>1, <1>3, <2>2 DEF FoundAt
    <3>2. close = 0
      BY <1>1, <1>5, <1>7, <3>1
    <3>3. \A i \in first .. n : doc[i] # End(p)
      BY <1>1, <1>4, <3>1, <3>2 DEF FoundAt
    <3>4. b \in first .. n
      BY <1>1, <2>2, <3>1
    <3> QED
      BY <2>2, <3>3, <3>4
  <2> QED
    BY <2>1, <2>2 DEF SearchedOut, from
<1>8. CASE last # 0
  <2>1. /\ first # 0 /\ last = close /\ first \in from .. n /\ doc[first] = Start(p)
        /\ \A i \in from .. (first - 1) : doc[i] # Start(p)
    BY <1>1, <1>3, <1>5, <1>8 DEF FoundAt
  <2>2. /\ last \in first .. n /\ doc[last] = End(p) /\ \A i \in first .. (last - 1) : doc[i] # End(p)
    BY <1>4, <1>8, <2>1 DEF FoundAt
  <2>3. last # first
    BY <1>6, <2>1, <2>2
  <2>4. last \in (first + 1) .. n /\ first \in Nat /\ last \in Nat /\ last + 1 >= from + 2
    BY <1>1, <2>1, <2>2, <2>3
  <2>5. IsBlock(doc, p, from, first, last)
    <3>1. \A i \in (first + 1) .. (last - 1) : doc[i] # End(p)
      BY <2>2, <2>4
    <3> QED
      BY <2>1, <2>2, <2>4, <3>1 DEF IsBlock
  <2>6. r = Append(spans, <<first, last>>)
    BY <1>2, <1>8
  <2>7. /\ r \in Seq(Nat \X Nat) /\ Len(r) = Len(spans) + 1 /\ r[Len(spans) + 1] = <<first, last>>
        /\ \A k \in 1 .. Len(spans) : r[k] = spans[k]
    BY <2>4, <2>6 DEF BlocksOf
  <2>8. \A k \in 1 .. (Len(spans) + 1) : FromAt(r, k) = FromAt(spans, k)
    <3> SUFFICES ASSUME NEW k \in 1 .. (Len(spans) + 1), k # 1 PROVE r[k - 1] = spans[k - 1]
      BY DEF FromAt
    <3>1. k - 1 \in 1 .. Len(spans)
      BY <1>1
    <3> QED
      BY <2>7, <3>1
  <2>9. ASSUME NEW k \in 1 .. Len(r) PROVE IsBlock(doc, p, FromAt(r, k), r[k][1], r[k][2])
    <3>1. CASE k = Len(spans) + 1
      BY <1>1, <2>5, <2>7, <2>8, <3>1
    <3>2. CASE k # Len(spans) + 1
      <4>1. k \in 1 .. Len(spans) /\ k \in 1 .. (Len(spans) + 1)
        BY <1>1, <2>7, <3>2
      <4> QED
        BY <2>7, <2>8, <4>1 DEF BlocksOf
    <3> QED
      BY <3>1, <3>2
  <2>10. BlocksOf(doc, p, r)
    BY <2>7, <2>9 DEF BlocksOf
  <2>11. SearchFrom(r) = last + 1
    <3>1. r # <<>> /\ r[Len(r)][2] = last
      BY <1>1, <2>7
    <3> QED
      BY <3>1 DEF SearchFrom
  <2>12. ~SearchedOut(doc, p, from)
    <3>1. first \in from .. n /\ last \in from .. n /\ first < last
      BY <1>1, <2>1, <2>4
    <3> QED
      BY <2>1, <2>2, <3>1 DEF SearchedOut
  <2> QED
    BY <2>4, <2>10, <2>11, <2>12 DEF from
<1> QED
  BY <1>7, <1>8

SearchStart(w) == <<>>
SearchStep(w, spans, k) == SearchOnce(w[1], w[2], spans)

Searching == INSTANCE FoldFacts WITH Step <- SearchStep, Start <- SearchStart

(* The search finds the blocks, in order, and all of them: each round but the
   last goes on by two pieces at least. *)
LEMMA SpansAreBlocks ==
  ASSUME NEW doc \in Seq(Written), NEW p
  PROVE  BlocksOf(doc, p, Spans(doc, p)) /\ SearchedOut(doc, p, SearchFrom(Spans(doc, p)))
<1> DEFINE n == Len(doc)
           c == Searching!Counted(<<doc, p>>, 0 .. n)
           Ok(k) == /\ BlocksOf(doc, p, c[k])
                    /\ SearchedOut(doc, p, SearchFrom(c[k])) \/ SearchFrom(c[k]) >= k + k + 1
           K == {k \in 0 .. n : Ok(k)}
<1>0. n \in Nat
  OBVIOUS
<1>1. Spans(doc, p) = c[n]
  BY DEF Spans, Searching!Counted, SearchStep, SearchStart
<1>2. /\ c[0] = <<>>
      /\ \A k \in 0 .. (n - 1) : c[k + 1] = SearchOnce(doc, p, c[k])
  <2>1. /\ c[0] = SearchStart(<<doc, p>>)
        /\ \A k \in 0 .. (n - 1) : c[k + 1] = SearchStep(<<doc, p>>, c[k], k + 1)
    <3> HIDE DEF n
    <3> QED
      BY <1>0, Searching!CountedUpTo
  <2> HIDE DEF c
  <2> QED
    BY <2>1 DEF SearchStep, SearchStart
<1> HIDE DEF c
<1>3. Ok(0)
  <2>1. BlocksOf(doc, p, <<>>) /\ SearchFrom(<<>>) = 1
    BY DEF BlocksOf, SearchFrom
  <2> QED
    BY <1>2, <2>1
<1>4. ASSUME NEW k \in Nat, k < n, k \in K PROVE k + 1 \in K
  <2>1. k \in 0 .. (n - 1) /\ k + 1 \in 0 .. n
    BY <1>0, <1>4
  <2>2. BlocksOf(doc, p, c[k]) /\ c[k + 1] = SearchOnce(doc, p, c[k])
    BY <1>2, <1>4, <2>1
  <2>3. /\ BlocksOf(doc, p, c[k + 1])
        /\ \/ c[k + 1] = c[k] /\ SearchedOut(doc, p, SearchFrom(c[k]))
           \/ SearchFrom(c[k + 1]) >= SearchFrom(c[k]) + 2 /\ ~SearchedOut(doc, p, SearchFrom(c[k]))
    BY <2>2, SearchedOnce
  <2>4. SearchFrom(c[k]) \in Nat /\ SearchFrom(c[k + 1]) \in Nat
    <3>1. \A s : BlocksOf(doc, p, s) => SearchFrom(s) \in Nat
      <4> SUFFICES ASSUME NEW s, BlocksOf(doc, p, s) PROVE SearchFrom(s) \in Nat
        OBVIOUS
      <4>1. Len(s) + 1 \in 1 .. (Len(s) + 1)
        BY DEF BlocksOf
      <4>2. SearchFrom(s) \in 1 .. (n + 1)
        BY <4>1, SearchFromIs
      <4> QED
        BY <1>0, <4>2
    <3> QED
      BY <2>2, <2>3, <3>1
  <2>5. CASE c[k + 1] = c[k] /\ SearchedOut(doc, p, SearchFrom(c[k]))
    BY <2>1, <2>3, <2>5
  <2>6. CASE SearchFrom(c[k + 1]) >= SearchFrom(c[k]) + 2 /\ ~SearchedOut(doc, p, SearchFrom(c[k]))
    <3>1. SearchFrom(c[k]) >= k + k + 1
      BY <1>4, <2>6
    <3>2. SearchFrom(c[k + 1]) >= (k + 1) + (k + 1) + 1
      BY <1>4, <2>4, <2>6, <3>1
    <3> QED
      BY <2>1, <2>3, <3>2
  <2> QED
    BY <2>3, <2>5, <2>6
<1>5. n \in K
  <2>1. 0 \in K
    BY <1>0, <1>3
  <2>2. \A k \in 0 .. n : k \in K
    <3> HIDE DEF K, n
    <3> QED
      BY <1>0, <1>4, <2>1, Searching!CountingUp
  <2>3. n \in 0 .. n
    BY <1>0
  <2> HIDE DEF K, n
  <2> QED
    BY <2>2, <2>3
<1>6. BlocksOf(doc, p, c[n])
  BY <1>5
<1>7. SearchedOut(doc, p, SearchFrom(c[n]))
  <2>1. Len(c[n]) + 1 \in 1 .. (Len(c[n]) + 1)
    BY <1>6 DEF BlocksOf
  <2>2. SearchFrom(c[n]) \in 1 .. (n + 1)
    BY <1>6, <2>1, SearchFromIs
  <2> SUFFICES ASSUME SearchFrom(c[n]) >= n + n + 1 PROVE SearchedOut(doc, p, SearchFrom(c[n]))
    BY <1>5
  <2>3. n = 0
    BY <1>0, <2>2
  <2>4. SearchFrom(c[n]) .. Len(doc) = {}
    BY <2>2, <2>3
  <2> QED
    BY <2>4 DEF SearchedOut
<1> QED
  BY <1>1, <1>6, <1>7

CopyStart(doc) == [text |-> <<>>, from |-> 1]
CopyStep(doc, kept, span) == CopyUpTo(doc, kept, span)

Copying == INSTANCE FoldFacts WITH Step <- CopyStep, Start <- CopyStart

(* Copied as far as the beginning of a block, and what a reader of the copy has
   seen by then. *)
CopiedTo(doc, p, kept, from) ==
  /\ kept = [text |-> kept.text, from |-> from] /\ kept.text \in Seq(Written)
  /\ \A i \in DOMAIN kept.text : kept.text[i] # Start(p)
  /\ Tidy(doc) => /\ Further(Unread, kept.text) = SeenAt(doc, from - 1)
                  /\ SeenAt(doc, from - 1).inside = <<>>

LEMMA CopiedOn ==
  ASSUME NEW doc \in Seq(Written), NEW p, NEW kept, NEW from \in 1 .. (Len(doc) + 1),
         CopiedTo(doc, p, kept, from), NEW a, NEW b, IsBlock(doc, p, from, a, b),
         NEW span, span = <<a, b>>
  PROVE  CopiedTo(doc, p, CopyUpTo(doc, kept, span), b + 1)
<1> DEFINE gap == SubSeq(doc, from, a - 1)
           text == kept.text \o gap
<1>1. /\ from \in Nat /\ a \in from .. Len(doc) /\ b \in (a + 1) .. Len(doc) /\ a \in 1 .. Len(doc)
      /\ doc[a] = Start(p) /\ doc[b] = End(p)
      /\ \A i \in from .. (a - 1) : doc[i] # Start(p)
      /\ \A i \in (a + 1) .. (b - 1) : doc[i] # End(p)
  BY DEF IsBlock
<1>2. CopyUpTo(doc, kept, span) = [text |-> text, from |-> b + 1]
  <2>1. kept.from = from
    BY DEF CopiedTo
  <2>2. span[1] = a /\ span[2] = b
    OBVIOUS
  <2> QED
    BY <2>1, <2>2 DEF CopyUpTo
<1>3. /\ gap \in Seq(Written) /\ Len(gap) = a - from /\ kept.text \in Seq(Written)
      /\ \A i \in 1 .. (a - from) : gap[i] = doc[from + i - 1]
  <2>1. kept.text \in Seq(Written)
    BY DEF CopiedTo
  <2>2. gap \in Seq(Written)
    BY <1>1
  <2>3. Len(gap) = a - from /\ \A i \in 1 .. (a - from) : gap[i] = doc[from + i - 1]
    BY <1>1
  <2> QED
    BY <2>1, <2>2, <2>3
<1>4. \A i \in DOMAIN gap : gap[i] # Start(p)
  <2> SUFFICES ASSUME NEW i \in 1 .. (a - from) PROVE gap[i] # Start(p)
    BY <1>1, <1>3
  <2>1. from + i - 1 \in from .. (a - 1)
    BY <1>1
  <2> QED
    BY <1>1, <1>3, <2>1
<1> HIDE DEF gap
<1>5. text \in Seq(Written) /\ \A i \in DOMAIN text : text[i] # Start(p)
  <2>1. /\ text \in Seq(Written) /\ Len(text) = Len(kept.text) + Len(gap)
        /\ \A i \in 1 .. Len(text) :
             text[i] = IF i <= Len(kept.text) THEN kept.text[i] ELSE gap[i - Len(kept.text)]
    <3> DEFINE kt == kept.text
    <3>1. kt \in Seq(Written) /\ gap \in Seq(Written)
      BY <1>3
    <3> HIDE DEF kt
    <3>2. /\ kt \o gap \in Seq(Written) /\ Len(kt \o gap) = Len(kt) + Len(gap)
          /\ \A i \in 1 .. Len(kt \o gap) : (kt \o gap)[i] = IF i <= Len(kt) THEN kt[i] ELSE gap[i - Len(kt)]
      BY <3>1
    <3> QED
      BY <3>2 DEF kt
  <2> HIDE DEF text
  <2>2. ASSUME NEW i \in 1 .. Len(text) PROVE text[i] # Start(p)
    <3>1. Len(kept.text) \in Nat /\ Len(gap) \in Nat
      BY <1>3
    <3>2. CASE i <= Len(kept.text)
      <4>1. i \in DOMAIN kept.text
        BY <1>3, <3>1, <3>2
      <4> QED
        BY <2>1, <3>2, <4>1 DEF CopiedTo
    <3>3. CASE ~(i <= Len(kept.text))
      <4>1. i - Len(kept.text) \in DOMAIN gap
        BY <1>3, <2>1, <3>1, <3>3
      <4> QED
        BY <1>4, <2>1, <3>3, <4>1
    <3> QED
      BY <3>2, <3>3
  <2> QED
    BY <2>1, <2>2
<1>6. ASSUME Tidy(doc) PROVE Further(Unread, text) = SeenAt(doc, b) /\ SeenAt(doc, b).inside = <<>>
  <2>1. SeenAt(doc, b) = SeenAt(doc, a - 1) /\ SeenAt(doc, b).inside = <<>>
    BY <1>1, <1>6, BlockSeen
  <2>2. Further(Unread, text) = Further(Further(Unread, kept.text), gap)
    <3> DEFINE kt == kept.text
    <3>1. kt \in Seq(Written) /\ gap \in Seq(Written)
      BY <1>3
    <3> HIDE DEF kt
    <3>2. Further(Unread, kt \o gap) = Further(Further(Unread, kt), gap)
      BY <3>1, FurtherBoth
    <3> QED
      BY <3>2 DEF kt
  <2>3. Further(Unread, kept.text) = SeenAt(doc, from - 1)
    BY <1>6 DEF CopiedTo
  <2>4. SeenAt(doc, a - 1) = Further(SeenAt(doc, from - 1), SubSeq(doc, (from - 1) + 1, a - 1))
    <3>1. from - 1 \in 0 .. Len(doc) /\ a - 1 \in (from - 1) .. Len(doc)
      BY <1>1
    <3> QED
      BY <3>1, SeenBetween
  <2>5. (from - 1) + 1 = from
    BY <1>1
  <2> QED
    BY <2>1, <2>2, <2>3, <2>4, <2>5 DEF gap
<1> HIDE DEF text
<1>7. (b + 1) - 1 = b
  BY <1>1
<1> DEFINE more == CopyUpTo(doc, kept, span)
<1>8. more.text = text /\ more = [text |-> more.text, from |-> b + 1]
  BY <1>2
<1> HIDE DEF more
<1>9. CopiedTo(doc, p, more, b + 1)
  BY <1>5, <1>6, <1>7, <1>8 DEF CopiedTo
<1> QED
  BY <1>9 DEF more

LEMMA BetweenIsCopied ==
  ASSUME NEW doc \in Seq(Written), NEW p, NEW spans, BlocksOf(doc, p, spans)
  PROVE  CopiedTo(doc, p, Between(doc, spans), SearchFrom(spans))
<1> DEFINE n == Len(spans)
           c == [k \in 0 .. n |-> Copying!Folded(doc, SubSeq(spans, 1, k))]
           K == {k \in 0 .. n : CopiedTo(doc, p, c[k], FromAt(spans, k + 1))}
<1>0. n \in Nat /\ spans \in Seq(Nat \X Nat)
  BY DEF BlocksOf
<1>1. /\ c[0] = [text |-> <<>>, from |-> 1] /\ Between(doc, spans) = c[n]
      /\ \A k \in 0 .. (n - 1) : c[k + 1] = CopyUpTo(doc, c[k], spans[k + 1])
  <2>1. /\ Copying!Folded(doc, SubSeq(spans, 1, 0)) = CopyStart(doc)
        /\ \A k \in 0 .. (n - 1) :
             Copying!Folded(doc, SubSeq(spans, 1, k + 1)) =
               CopyStep(doc, Copying!Folded(doc, SubSeq(spans, 1, k)), spans[k + 1])
        /\ SubSeq(spans, 1, n) = spans
    BY <1>0, Copying!FoldedBeginnings
  <2>2. Between(doc, spans) = Copying!Folded(doc, spans)
    BY DEF Between, FoldLeft, MapThenFoldSet, Max, Copying!Folded, Copying!Highest, CopyStep, CopyStart
  <2> HIDE DEF n
  <2>3. 0 \in 0 .. n /\ n \in 0 .. n /\ \A k \in 0 .. (n - 1) : k \in 0 .. n /\ k + 1 \in 0 .. n
    BY <1>0
  <2> QED
    BY <2>1, <2>2, <2>3 DEF CopyStep, CopyStart
<1> HIDE DEF c
<1>2. 0 \in K
  <2>1. CopiedTo(doc, p, [text |-> <<>>, from |-> 1], 1)
    <3> DEFINE kept == [text |-> <<>>, from |-> 1]
    <3>1. kept.text = <<>> /\ kept.from = 1 /\ kept.text \in Seq(Written) /\ DOMAIN kept.text = {}
      OBVIOUS
    <3>2. Further(Unread, <<>>) = Unread /\ SeenAt(doc, 0) = Unread /\ Unread.inside = <<>> /\ 1 - 1 = 0
      <4>1. Further(Unread, <<>>) = Unread
        BY FurtherSteps
      <4>2. SeenAt(doc, 0) = Unread
        BY SeenSteps
      <4> QED
        BY <4>1, <4>2 DEF Unread
    <3>3. Further(Unread, kept.text) = SeenAt(doc, 1 - 1) /\ SeenAt(doc, 1 - 1).inside = <<>>
      BY <3>2
    <3> QED
      BY <3>1, <3>3 DEF CopiedTo
  <2>2. FromAt(spans, 0 + 1) = 1
    BY DEF FromAt
  <2> QED
    BY <1>0, <1>1, <2>1, <2>2
<1>3. ASSUME NEW k \in Nat, k < n, k \in K PROVE k + 1 \in K
  <2> DEFINE from == FromAt(spans, k + 1)
             a == spans[k + 1][1]
             b == spans[k + 1][2]
  <2>1. k \in 0 .. (n - 1) /\ k + 1 \in 1 .. n /\ k + 1 \in 1 .. (n + 1) /\ k + 1 \in 0 .. n /\ (k + 1) + 1 # 1
        /\ ((k + 1) + 1) - 1 = k + 1
    BY <1>0, <1>3
  <2>2. IsBlock(doc, p, from, a, b) /\ spans[k + 1] = <<a, b>>
    BY <1>0, <2>1 DEF BlocksOf
  <2>3. from \in 1 .. (Len(doc) + 1)
    BY <2>1, SearchFromIs
  <2>4. CopiedTo(doc, p, c[k], from)
    BY <1>3
  <2>5. FromAt(spans, (k + 1) + 1) = b + 1
    BY <2>1 DEF FromAt
  <2>6. c[k + 1] = CopyUpTo(doc, c[k], spans[k + 1])
    BY <1>1, <2>1
  <2> HIDE DEF from, a, b
  <2>7. CopiedTo(doc, p, c[k + 1], b + 1)
    BY <2>2, <2>3, <2>4, <2>6, CopiedOn
  <2> QED
    BY <2>1, <2>5, <2>7
<1>4. n \in K
  <2>1. \A k \in 0 .. n : k \in K
    <3> HIDE DEF K, n
    <3> QED
      BY <1>0, <1>2, <1>3, Copying!CountingUp
  <2>2. n \in 0 .. n
    BY <1>0
  <2> HIDE DEF K, n
  <2> QED
    BY <2>1, <2>2
<1> QED
  BY <1>1, <1>4, SearchFromIs

(* No block begins and ends in a piece of a file. *)
Pairless(s, p) == \A a, b \in DOMAIN s : a < b => ~(s[a] = Start(p) /\ s[b] = End(p))

(* What ensureManagedBlock makes of a file: the one block of the provider, and
   around it what a reader of the file has seen outside its blocks. *)
EnsuredSo(doc, p, out) ==
  \E text, rest \in Seq(Written) :
    /\ out = text \o Block(p) \o rest
    /\ Pairless(text, p) /\ Pairless(rest, p)
    /\ Tidy(doc) => Read(out) = Read(doc)

LEMMA OneLong ==
  ASSUME NEW S, NEW s \in Seq(S), Len(s) = 1
  PROVE  s = <<s[1]>>
<1>1. 1 \in 1 .. Len(s)
  OBVIOUS
<1>2. s[1] \in S
  BY <1>1
<1> DEFINE t == <<s[1]>>
<1>3. t \in Seq(S) /\ Len(t) = 1 /\ t[1] = s[1]
  BY <1>2
<1> HIDE DEF t
<1>4. \A i \in 1 .. Len(s) : s[i] = t[i]
  BY <1>3
<1>5. s = t
  BY <1>3, <1>4
<1> QED
  BY <1>5 DEF t

LEMMA Joined ==
  ASSUME NEW S, NEW s \in Seq(S), NEW t \in Seq(S)
  PROVE  /\ s \o t \in Seq(S) /\ Len(s \o t) = Len(s) + Len(t)
         /\ \A i \in 1 .. (Len(s) + Len(t)) : (s \o t)[i] = IF i <= Len(s) THEN s[i] ELSE t[i - Len(s)]
OBVIOUS

LEMMA BlockWritten ==
  ASSUME NEW p \in Owners
  PROVE  /\ Block(p) \in Seq(Written) /\ Len(Block(p)) = 3
         /\ Block(p)[1] = Start(p) /\ Block(p)[2] = Words(p) /\ Block(p)[3] = End(p)
<1>1. Start(p) \in Written /\ Words(p) \in Written /\ End(p) \in Written
  BY DEF Written
<1> DEFINE x == Start(p)
           y == Words(p)
           z == End(p)
           u == <<x>> \o <<y>>
           w == <<z>>
           v == u \o w
<1>2. Block(p) = v
  BY DEF Block, Inner
<1>3. x \in Written /\ y \in Written /\ z \in Written
  BY <1>1
<1> HIDE DEF x, y, z
<1>4. u \in Seq(Written) /\ Len(u) = 2 /\ u[1] = x /\ u[2] = y
      /\ w \in Seq(Written) /\ Len(w) = 1 /\ w[1] = z
  BY <1>3
<1> HIDE DEF u, w
<1>5. v \in Seq(Written) /\ Len(v) = 3 /\ v[1] = x /\ v[2] = y /\ v[3] = z
  <2>1. u \in Seq(Written) /\ w \in Seq(Written)
    BY <1>4
  <2>2. v \in Seq(Written) /\ Len(v) = Len(u) + Len(w)
    BY <2>1, Joined
  <2>3. \A i \in 1 .. (Len(u) + Len(w)) : v[i] = IF i <= Len(u) THEN u[i] ELSE w[i - Len(u)]
    BY <2>1, Joined
  <2> HIDE DEF v
  <2>4. v[1] = u[1] /\ v[2] = u[2] /\ v[3] = w[3 - 2]
    BY <1>4, <2>3
  <2> QED
    BY <1>4, <2>2, <2>4
<1> HIDE DEF v
<1> QED
  BY <1>2, <1>5 DEF x, y, z

LEMMA BlockRead ==
  ASSUME NEW p \in Owners, NEW r, SeenShape(r), r.inside = <<>>
  PROVE  Further(r, Block(p)) = r
<1> DEFINE b == Block(p)
           c == [k \in 0 .. 3 |-> Further(r, SubSeq(b, 1, k))]
<1>1. b \in Seq(Written) /\ Len(b) = 3 /\ b[1] = Start(p) /\ b[2] = Words(p) /\ b[3] = End(p)
  BY BlockWritten
<1> HIDE DEF b
<1>2. c[0] = r /\ c[3] = Further(r, b)
  <2>1. Further(r, SubSeq(b, 1, 0)) = r /\ SubSeq(b, 1, 3) = b
    BY <1>1, FurtherSteps
  <2>2. 0 \in 0 .. 3 /\ 3 \in 0 .. 3
    OBVIOUS
  <2> QED
    BY <2>1, <2>2
<1>3. c[1] = ReadOn(c[0], Start(p)) /\ c[2] = ReadOn(c[1], Words(p)) /\ c[3] = ReadOn(c[2], End(p))
  <2>1. \A k \in 0 .. (Len(b) - 1) : Further(r, SubSeq(b, 1, k + 1)) = ReadOn(Further(r, SubSeq(b, 1, k)), b[k + 1])
    BY <1>1, FurtherOne
  <2>2. \A k \in 0 .. 2 : c[k + 1] = ReadOn(c[k], b[k + 1])
    BY <1>1, <2>1
  <2> HIDE DEF c
  <2>3. c[0 + 1] = ReadOn(c[0], b[0 + 1]) /\ c[1 + 1] = ReadOn(c[1], b[1 + 1]) /\ c[2 + 1] = ReadOn(c[2], b[2 + 1])
    BY <2>2
  <2> QED
    BY <1>1, <2>3
<1> HIDE DEF c
<1>4. /\ SeenShape(c[1]) /\ c[1].inside = <<p>> /\ c[1].text = r.text /\ (c[1].paired <=> r.paired)
  <2>1. Start(p).kind = "start" /\ Start(p).of = p
    BY DEF Start
  <2>2. SeenShape(c[0]) /\ c[0] = r
    BY <1>2
  <2> QED
    BY <1>3, <2>1, <2>2, StartRead
<1>5. c[2] = c[1]
  <2>1. Words(p).kind \notin {"start", "end"}
    BY DEF Words
  <2>2. c[1].inside # <<>>
    <3>1. <<p>> # <<>>
      OBVIOUS
    <3> QED
      BY <1>4, <3>1
  <2> DEFINE x == Words(p)
  <2>3. SeenShape(c[1]) /\ x.kind \notin {"start", "end"} /\ c[2] = ReadOn(c[1], x)
    BY <1>3, <1>4, <2>1
  <2> HIDE DEF x
  <2> QED
    BY <2>2, <2>3, TextRead
<1>6. /\ SeenShape(c[3]) /\ c[3].inside = <<>> /\ c[3].text = r.text /\ (c[3].paired <=> r.paired)
  <2>1. End(p).kind = "end" /\ End(p).of = p
    BY DEF End
  <2>2. /\ SeenShape(c[2]) /\ c[2].inside = <<p>> /\ c[2].text = r.text /\ (c[2].paired <=> r.paired)
    BY <1>4, <1>5
  <2> QED
    BY <1>3, <2>1, <2>2, EndRead
<1>7. c[3] = r
  BY <1>6, SameSeen
<1> QED
  BY <1>2, <1>7 DEF b

LEMMA FurtherShape ==
  ASSUME NEW s \in Seq(Written)
  PROVE  SeenShape(Further(Unread, s)) /\ Read(s) = Further(Unread, s)
<1>1. Len(s) \in 0 .. Len(s)
  OBVIOUS
<1> QED
  BY <1>1, SeenSteps, ReadIsSeen

(* A block in the middle makes no difference to what is read outside. *)
LEMMA AroundBlock ==
  ASSUME NEW p \in Owners, NEW text \in Seq(Written), NEW rest \in Seq(Written),
         Further(Unread, text).inside = <<>>
  PROVE  /\ text \o Block(p) \o rest \in Seq(Written)
         /\ Read(text \o Block(p) \o rest) = Further(Further(Unread, text), rest)
<1> DEFINE b == Block(p)
           u == text \o b
           v == u \o rest
<1>1. b \in Seq(Written)
  BY BlockWritten
<1> HIDE DEF b
<1>2. u \in Seq(Written)
  BY <1>1
<1>3. Further(Unread, u) = Further(Further(Unread, text), b)
  BY <1>1, FurtherBoth
<1>4. Further(Further(Unread, text), b) = Further(Unread, text)
  BY FurtherShape, BlockRead DEF b
<1> HIDE DEF u
<1>5. v \in Seq(Written)
  BY <1>2
<1>6. Further(Unread, v) = Further(Further(Unread, u), rest)
  BY <1>2, FurtherBoth
<1>7. Read(v) = Further(Unread, v)
  BY ReadIsSeen
<1>8. v \in Seq(Written) /\ Read(v) = Further(Further(Unread, text), rest)
  BY <1>3, <1>4, <1>5, <1>6, <1>7
<1> QED
  BY <1>8 DEF u, v, b

LEMMA EnsureMakes ==
  ASSUME NEW doc \in Seq(Written), NEW p \in Owners
  PROVE  EnsuredSo(doc, p, Ensure(doc, p).output)
<1> DEFINE spans == Spans(doc, p)
           between == Between(doc, spans)
           from == SearchFrom(spans)
           n == Len(doc)
<1>1. BlocksOf(doc, p, spans) /\ SearchedOut(doc, p, from)
  BY SpansAreBlocks
<1>2. CopiedTo(doc, p, between, from)
  BY <1>1, BetweenIsCopied
<1>3. from \in 1 .. (n + 1) /\ n \in Nat
  <2>1. Len(spans) + 1 \in 1 .. (Len(spans) + 1)
    BY <1>1 DEF BlocksOf
  <2> HIDE DEF spans
  <2> QED
    BY <1>1, <2>1, SearchFromIs
<1>4. Pairless(<<>>, p) /\ <<>> \in Seq(Written)
  BY DEF Pairless
<1>5. Block(p) \in Seq(Written)
  BY BlockWritten
<1>6. CASE doc = <<>>
  <2>1. Ensure(doc, p).output = Block(p)
    BY <1>6 DEF Ensure
  <2>2. Block(p) = <<>> \o Block(p) \o <<>>
    BY <1>5
  <2>3. Read(<<>> \o Block(p) \o <<>>) = Read(<<>>)
    <3>1. Further(Unread, <<>>) = Unread /\ Unread.inside = <<>> /\ Read(<<>>) = Unread
      <4>1. Further(Unread, <<>>) = Unread
        BY <1>4, FurtherSteps
      <4> QED
        BY <4>1, ReadIsSeen DEF Unread
    <3>2. Read(<<>> \o Block(p) \o <<>>) = Further(Further(Unread, <<>>), <<>>)
      BY <1>4, <3>1, AroundBlock
    <3> QED
      BY <3>1, <3>2
  <2> QED
    BY <1>4, <1>6, <2>1, <2>2, <2>3 DEF EnsuredSo
<1>7. CASE doc # <<>> /\ spans = <<>>
  <2>1. Ensure(doc, p).output = doc \o Block(p)
    BY <1>7 DEF Ensure
  <2>2. doc \o Block(p) = doc \o Block(p) \o <<>>
    BY <1>5
  <2>3. Pairless(doc, p)
    <3>1. from = 1
      BY <1>7 DEF SearchFrom
    <3>2. DOMAIN doc = 1 .. n
      OBVIOUS
    <3> QED
      BY <1>1, <3>1, <3>2 DEF SearchedOut, Pairless
  <2>4. ASSUME Tidy(doc) PROVE Read(doc \o Block(p) \o <<>>) = Read(doc)
    <3>1. Further(Unread, doc).inside = <<>> /\ Read(doc) = Further(Unread, doc)
      BY <2>4, ReadIsSeen DEF Tidy
    <3>2. Read(doc \o Block(p) \o <<>>) = Further(Further(Unread, doc), <<>>)
      BY <1>4, <3>1, AroundBlock
    <3>3. Further(Further(Unread, doc), <<>>) = Further(Unread, doc)
      BY <1>4, FurtherSteps
    <3> QED
      BY <3>1, <3>2, <3>3
  <2> QED
    BY <1>4, <2>1, <2>2, <2>3, <2>4 DEF EnsuredSo
<1>8. CASE doc # <<>> /\ spans # <<>>
  <2> DEFINE text == between.text
             rest == SubSeq(doc, from, n)
  <2>1. between.from = from /\ text \in Seq(Written) /\ \A i \in DOMAIN text : text[i] # Start(p)
    BY <1>2 DEF CopiedTo
  <2>2. Ensure(doc, p).output = text \o Block(p) \o rest
    BY <1>8, <2>1 DEF Ensure
  <2>3. /\ rest \in Seq(Written) /\ DOMAIN rest = 1 .. (n + 1 - from)
        /\ \A i \in 1 .. (n + 1 - from) : rest[i] = doc[from + i - 1]
    <3> HIDE DEF from
    <3>1. rest \in Seq(Written)
      BY <1>3
    <3>2. DOMAIN rest = 1 .. (n + 1 - from) /\ \A i \in 1 .. (n + 1 - from) : rest[i] = doc[from + i - 1]
      BY <1>3
    <3> QED
      BY <3>1, <3>2
  <2>4. Pairless(text, p)
    BY <2>1 DEF Pairless
  <2>5. Pairless(rest, p)
    <3> SUFFICES ASSUME NEW a \in 1 .. (n + 1 - from), NEW b \in 1 .. (n + 1 - from), a < b,
                        rest[a] = Start(p), rest[b] = End(p)
                 PROVE  FALSE
      BY <2>3 DEF Pairless
    <3> HIDE DEF from
    <3>1. from + a - 1 \in from .. n /\ from + b - 1 \in from .. n /\ from + a - 1 < from + b - 1
      BY <1>3
    <3> QED
      BY <1>1, <2>3, <3>1 DEF SearchedOut
  <2>6. ASSUME Tidy(doc) PROVE Read(text \o Block(p) \o rest) = Read(doc)
    <3>1. Further(Unread, text) = SeenAt(doc, from - 1) /\ SeenAt(doc, from - 1).inside = <<>>
      BY <1>2, <2>6 DEF CopiedTo
    <3>2. SeenAt(doc, n) = Further(SeenAt(doc, from - 1), rest)
      <4>1. from - 1 \in 0 .. n /\ n \in (from - 1) .. n /\ (from - 1) + 1 = from
        BY <1>3
      <4>2. SeenAt(doc, n) = Further(SeenAt(doc, from - 1), SubSeq(doc, (from - 1) + 1, n))
        <5> HIDE DEF from
        <5> QED
          BY <4>1, SeenBetween
      <4> QED
        BY <4>1, <4>2
    <3>3. Read(doc) = SeenAt(doc, n)
      BY SeenSteps
    <3> HIDE DEF text, rest
    <3>4. Read(text \o Block(p) \o rest) = Further(Further(Unread, text), rest)
      BY <2>1, <2>3, <3>1, AroundBlock
    <3> QED
      BY <3>1, <3>2, <3>3, <3>4
  <2> HIDE DEF text, rest
  <2> QED
    BY <2>1, <2>2, <2>3, <2>4, <2>5, <2>6 DEF EnsuredSo
<1> QED
  BY <1>6, <1>7, <1>8

(* A block that begins behind m pieces, with n pieces in all. *)
BlockBehind(p, text, rest, out, m, n) ==
  /\ \A i \in 1 .. m : out[i] = text[i]
  /\ out[m + 1] = Start(p) /\ out[m + 2] = Words(p) /\ out[m + 3] = End(p)
  /\ \A i \in (m + 4) .. n : out[i] = rest[i - (m + 3)]

AroundSo(p, text, rest, out) ==
  /\ out \in Seq(Written) /\ Len(text) \in Nat /\ Len(rest) \in Nat
  /\ Len(out) = Len(text) + 3 + Len(rest)
  /\ BlockBehind(p, text, rest, out, Len(text), Len(out))

LEMMA AroundIs ==
  ASSUME NEW p \in Owners, NEW text \in Seq(Written), NEW rest \in Seq(Written),
         NEW out, out = text \o Block(p) \o rest
  PROVE  AroundSo(p, text, rest, out)
<1> DEFINE b == Block(p)
           u == text \o b
           m == Len(text)
<1>1. b \in Seq(Written) /\ Len(b) = 3 /\ b[1] = Start(p) /\ b[2] = Words(p) /\ b[3] = End(p)
  BY BlockWritten
<1>2. out = u \o rest /\ m \in Nat /\ Len(rest) \in Nat /\ m = Len(text)
  OBVIOUS
<1> HIDE DEF b, m
<1>3. /\ u \in Seq(Written) /\ Len(u) = m + 3
      /\ \A i \in 1 .. (m + 3) : u[i] = IF i <= m THEN text[i] ELSE b[i - m]
  <2>1. /\ text \o b \in Seq(Written) /\ Len(text \o b) = Len(text) + Len(b)
        /\ \A i \in 1 .. (Len(text) + Len(b)) :
             (text \o b)[i] = IF i <= Len(text) THEN text[i] ELSE b[i - Len(text)]
    BY <1>1, Joined
  <2> QED
    BY <1>1, <1>2, <2>1
<1> HIDE DEF u
<1>4. /\ out \in Seq(Written) /\ Len(out) = m + 3 + Len(rest)
      /\ \A i \in 1 .. (m + 3 + Len(rest)) : out[i] = IF i <= m + 3 THEN u[i] ELSE rest[i - (m + 3)]
  <2>1. /\ u \o rest \in Seq(Written) /\ Len(u \o rest) = Len(u) + Len(rest)
        /\ \A i \in 1 .. (Len(u) + Len(rest)) : (u \o rest)[i] = IF i <= Len(u) THEN u[i] ELSE rest[i - Len(u)]
    BY <1>3, Joined
  <2> QED
    BY <1>2, <1>3, <2>1
<1>5. \A i \in 1 .. m : out[i] = text[i]
  BY <1>2, <1>3, <1>4
<1>6. out[m + 1] = Start(p) /\ out[m + 2] = Words(p) /\ out[m + 3] = End(p)
  <2>1. /\ m + 1 \in 1 .. (m + 3) /\ m + 2 \in 1 .. (m + 3) /\ m + 3 \in 1 .. (m + 3)
        /\ m + 1 \in 1 .. (m + 3 + Len(rest)) /\ m + 2 \in 1 .. (m + 3 + Len(rest))
        /\ m + 3 \in 1 .. (m + 3 + Len(rest))
        /\ ~(m + 1 <= m) /\ ~(m + 2 <= m) /\ ~(m + 3 <= m) /\ m + 1 <= m + 3 /\ m + 2 <= m + 3 /\ m + 3 <= m + 3
        /\ (m + 1) - m = 1 /\ (m + 2) - m = 2 /\ (m + 3) - m = 3
    BY <1>2
  <2>2. out[m + 1] = u[m + 1] /\ out[m + 2] = u[m + 2] /\ out[m + 3] = u[m + 3]
    BY <1>4, <2>1
  <2>3. u[m + 1] = b[1] /\ u[m + 2] = b[2] /\ u[m + 3] = b[3]
    BY <1>3, <2>1
  <2> QED
    BY <1>1, <2>2, <2>3
<1>7. \A i \in (m + 4) .. Len(out) : out[i] = rest[i - (m + 3)]
  BY <1>2, <1>4
<1>8. BlockBehind(p, text, rest, out, m, Len(out))
  BY <1>5, <1>6, <1>7 DEF BlockBehind
<1> QED
  BY <1>2, <1>4, <1>8 DEF AroundSo

(* Where marks come in pairs a file that ensureManagedBlock made is left as it
   is when it comes to it again. *)
LEMMA EnsuredStays ==
  ASSUME NEW doc, NEW p \in Owners, NEW out, EnsuredSo(doc, p, out), Tidy(out)
  PROVE  Ensure(out, p).action = "unchanged"
<1>14. PICK text \in Seq(Written), rest \in Seq(Written) :
      out = text \o Block(p) \o rest /\ Pairless(text, p) /\ Pairless(rest, p)
  BY DEF EnsuredSo
<1> DEFINE m == Len(text)
           n == Len(out)
           spans == Spans(out, p)
           from == SearchFrom(spans)
<1>0. /\ out \in Seq(Written) /\ m \in Nat /\ n = m + 3 + Len(rest) /\ Len(rest) \in Nat
      /\ BlockBehind(p, text, rest, out, m, n)
  <2>1. AroundSo(p, text, rest, out)
    BY <1>14, AroundIs
  <2> QED
    BY <2>1 DEF AroundSo
<1>11. DOMAIN text = 1 .. m /\ DOMAIN rest = 1 .. Len(rest) /\ Len(out) = n
  OBVIOUS
<1> DEFINE l == Len(rest)
<1> HIDE DEF m, n, l
<1>12. m \in Nat /\ n \in Nat /\ l \in Nat /\ n = m + 3 + l
  BY <1>0 DEF l
<1>1. /\ out \in Seq(Written)
      /\ \A i \in 1 .. m : out[i] = text[i]
      /\ out[m + 1] = Start(p) /\ out[m + 2] = Words(p) /\ out[m + 3] = End(p)
      /\ \A i \in (m + 4) .. n : out[i] = rest[i - (m + 3)]
  BY <1>0 DEF BlockBehind
<1>2. /\ Start(p) # End(p) /\ Start(p) # Words(p) /\ Words(p) # End(p) /\ Start(p).kind = "start"
  BY DEF Start, End, Words
<1>3. ASSUME NEW a \in 1 .. m, out[a] = Start(p) PROVE FALSE
  <2>1. a \in 1 .. n /\ m + 1 \in (a + 1) .. (n + 1) /\ m + 1 <= n
    BY <1>12
  <2>2. PICK b \in (a + 1) .. ((m + 1) - 1) : out[b] = End(p)
    <3>1. out[m + 1].kind = "start" /\ a \in 1 .. Len(out) /\ m + 1 \in (a + 1) .. (Len(out) + 1)
      BY <1>1, <1>2, <1>11, <2>1
    <3> QED
      BY <1>1, <1>3, <3>1, StartCloses
  <2>3. b \in 1 .. m /\ a < b
    BY <1>12, <2>1
  <2> QED
    BY <1>1, <1>3, <1>11, <1>14, <2>2, <2>3 DEF Pairless
<1>4. ASSUME NEW a \in (m + 4) .. n, out[a] = Start(p) PROVE FALSE
  <2>1. a \in 1 .. n /\ n + 1 \in (a + 1) .. (n + 1) /\ ~(n + 1 <= n)
    BY <1>12
  <2>2. PICK b \in (a + 1) .. ((n + 1) - 1) : out[b] = End(p)
    <3>1. a \in 1 .. Len(out) /\ n + 1 \in (a + 1) .. (Len(out) + 1) /\ ~(n + 1 <= Len(out))
      BY <1>11, <2>1
    <3> QED
      BY <1>1, <1>4, <3>1, StartCloses
  <2>3. /\ b \in (m + 4) .. n /\ a - (m + 3) < b - (m + 3)
        /\ a - (m + 3) \in 1 .. l /\ b - (m + 3) \in 1 .. l
    BY <1>12, <2>1
  <2>4. rest[a - (m + 3)] = Start(p) /\ rest[b - (m + 3)] = End(p)
    BY <1>1, <1>4, <2>2, <2>3
  <2> QED
    BY <1>11, <1>14, <2>3, <2>4 DEF Pairless, l
<1>5. BlocksOf(out, p, spans) /\ SearchedOut(out, p, from)
  BY <1>1, SpansAreBlocks
<1> HIDE DEF spans
<1>6. Len(spans) \in Nat /\ Len(spans) # 0 /\ spans # <<>>
  <2>1. Len(spans) \in Nat /\ spans \in Seq(Nat \X Nat)
    BY <1>5 DEF BlocksOf
  <2>2. spans # <<>>
    <3> SUFFICES ASSUME spans = <<>> PROVE FALSE
      OBVIOUS
    <3>1. from = 1
      BY DEF SearchFrom
    <3>2. m + 1 \in 1 .. n /\ m + 3 \in 1 .. n /\ m + 1 < m + 3
      BY <1>12
    <3> QED
      BY <1>1, <1>5, <1>11, <3>1, <3>2 DEF SearchedOut
  <2> QED
    BY <2>1, <2>2
<1>7. ASSUME NEW k \in 1 .. Len(spans)
      PROVE  spans[k][1] = m + 1 /\ spans[k][2] = m + 3 /\ FromAt(spans, k) <= m + 1
  <2> DEFINE a == spans[k][1]
             b == spans[k][2]
             f == FromAt(spans, k)
  <2>1. IsBlock(out, p, f, a, b)
    BY <1>5 DEF BlocksOf
  <2>2. f \in Nat /\ f >= 1
    <3>1. k \in 1 .. (Len(spans) + 1)
      BY <1>6
    <3>2. FromAt(spans, k) \in 1 .. (Len(out) + 1)
      BY <1>1, <1>5, <3>1, SearchFromIs
    <3> QED
      BY <3>2
  <2> HIDE DEF a, b, f
  <2>3. /\ a \in f .. n /\ b \in (a + 1) .. n /\ out[a] = Start(p) /\ out[b] = End(p)
        /\ \A i \in (a + 1) .. (b - 1) : out[i] # End(p)
    BY <1>11, <2>1 DEF IsBlock
  <2>4. a = m + 1
    <3>1. a \in 1 .. m \/ a = m + 1 \/ a = m + 2 \/ a = m + 3 \/ a \in (m + 4) .. n
      BY <1>12, <2>2, <2>3
    <3> QED
      BY <1>1, <1>2, <1>3, <1>4, <2>3, <3>1
  <2>5. b = m + 3
    <3>1. b = m + 2 \/ b = m + 3 \/ b > m + 3
      BY <1>12, <2>3, <2>4
    <3>2. b # m + 2
      BY <1>1, <1>2, <2>3
    <3>3. ~(b > m + 3)
      <4> SUFFICES ASSUME b > m + 3 PROVE FALSE
        OBVIOUS
      <4>1. m + 3 \in (a + 1) .. (b - 1)
        BY <1>12, <2>3, <2>4
      <4> QED
        BY <1>1, <2>3, <4>1
    <3> QED
      BY <3>1, <3>2, <3>3
  <2> QED
    BY <1>12, <2>2, <2>3, <2>4, <2>5 DEF a, b, f
<1>8. Len(spans) = 1
  <2> SUFFICES ASSUME Len(spans) # 1 PROVE FALSE
    OBVIOUS
  <2>1. 1 \in 1 .. Len(spans) /\ 2 \in 1 .. Len(spans)
    <3> DEFINE k == Len(spans)
    <3>1. k \in Nat /\ k # 0 /\ k # 1
      BY <1>6
    <3> HIDE DEF k
    <3>2. 1 \in 1 .. k /\ 2 \in 1 .. k
      BY <3>1
    <3> QED
      BY <3>2 DEF k
  <2>2. FromAt(spans, 2) = spans[1][2] + 1
    <3>1. 2 - 1 = 1 /\ 2 # 1
      OBVIOUS
    <3> QED
      BY <3>1 DEF FromAt
  <2>3. spans[1][2] = m + 3 /\ FromAt(spans, 2) <= m + 1
    BY <1>7, <2>1
  <2> QED
    BY <1>12, <2>2, <2>3
<1>9. SubSeq(out, spans[Len(spans)][1] + 1, spans[Len(spans)][2] - 1) = Inner(p)
  <2>1. spans[Len(spans)][1] + 1 = m + 2 /\ spans[Len(spans)][2] - 1 = m + 2
    <3>1. spans[Len(spans)][1] = m + 1 /\ spans[Len(spans)][2] = m + 3
      BY <1>7, <1>8
    <3> QED
      BY <1>12, <3>1
  <2>2. SubSeq(out, m + 2, m + 2) = <<out[m + 2]>>
    <3> DEFINE k == m + 2
    <3>1. k \in 1 .. Len(out)
      BY <1>11, <1>12
    <3> HIDE DEF k
    <3>2. SubSeq(out, k, k) = <<out[k]>>
      <4>1. SubSeq(out, k, k) \in Seq(Written) /\ Len(SubSeq(out, k, k)) = 1 /\ SubSeq(out, k, k)[1] = out[k]
        BY <1>1, <3>1
      <4> QED
        BY <4>1, OneLong
    <3> QED
      BY <3>2 DEF k
  <2> QED
    BY <1>1, <2>1, <2>2 DEF Inner
<1>10. out # <<>>
  BY <1>11, <1>12
<1>13. ~(Len(spans) > 1)
  BY <1>8
<1> QED
  BY <1>6, <1>9, <1>10, <1>13 DEF Ensure, spans

-----------------------------------------------------------------------------
(* What the commands make of a file. *)

(* Of a file with its marks in pairs, all that is read outside the blocks is
   still read, and the marks are still in pairs. *)
Keeps(doc, out) == out \in Seq(Written) /\ (Tidy(doc) => Read(out) = Read(doc))

(* A check has nothing left to do for a file. *)
NothingLeft(doc, p) == PlanSurface(doc, p).row \in {"unchanged", "refused-non-managed"}

LEMMA EnsureKeeps ==
  ASSUME NEW doc \in Seq(Written), NEW p \in Owners
  PROVE  Keeps(doc, Ensure(doc, p).output)
<1> DEFINE out == Ensure(doc, p).output
<1>1. EnsuredSo(doc, p, out)
  BY EnsureMakes
<1> HIDE DEF out
<1>2. PICK text \in Seq(Written), rest \in Seq(Written) :
        out = text \o Block(p) \o rest /\ (Tidy(doc) => Read(out) = Read(doc))
  BY <1>1 DEF EnsuredSo
<1>3. AroundSo(p, text, rest, out)
  BY <1>2, AroundIs
<1>4. Keeps(doc, out)
  BY <1>2, <1>3 DEF Keeps, AroundSo
<1> QED
  BY <1>4 DEF out

LEMMA PlanKeeps ==
  ASSUME NEW doc \in Seq(Written), NEW p \in Owners
  PROVE  Keeps(doc, PlanSurface(doc, p).output)
<1>1. Keeps(doc, doc)
  BY DEF Keeps
<1>2. PlanSurface(doc, p).output \in {doc, Ensure(doc, p).output}
  BY DEF PlanSurface
<1> QED
  BY <1>1, <1>2, EnsureKeeps

LEMMA PlanSettles ==
  ASSUME NEW doc \in Seq(Written), NEW p \in Owners, NEW plan, plan = PlanSurface(doc, p)
  PROVE  /\ plan.action = "unchanged" => NothingLeft(doc, p)
         /\ plan.action # "unchanged" /\ Tidy(plan.output) => NothingLeft(plan.output, p)
<1> DEFINE refused == doc # <<>> /\ ~HasManagedBlock(doc, p)
           result == Ensure(doc, p)
<1>1. CASE refused
  <2>1. plan.action = "unchanged" /\ plan.row = "refused-non-managed"
    BY <1>1 DEF PlanSurface
  <2> QED
    BY <2>1 DEF NothingLeft
<1>2. CASE ~refused
  <2>1. /\ plan.output = result.output /\ plan.action = result.action
        /\ result.action = "unchanged" => plan.row = "unchanged"
    BY <1>2 DEF PlanSurface
  <2> DEFINE out == result.output
  <2>2. ASSUME Tidy(out) PROVE NothingLeft(out, p)
    <3>1. EnsuredSo(doc, p, out)
      BY EnsureMakes
    <3> HIDE DEF out
    <3>2. Ensure(out, p).action = "unchanged"
      BY <2>2, <3>1, EnsuredStays
    <3> DEFINE again == Ensure(out, p)
    <3>3. again.action = "unchanged"
      BY <3>2
    <3> HIDE DEF again
    <3>4. PlanSurface(out, p).row \in {"refused-non-managed", "unchanged"}
      BY <3>3 DEF PlanSurface, again
    <3> QED
      BY <3>4 DEF NothingLeft
  <2> QED
    BY <2>1, <2>2 DEF NothingLeft
<1> QED
  BY <1>1, <1>2

LEMMA FixKeeps ==
  ASSUME NEW doc \in Seq(Written), Managed(doc)
  PROVE  Keeps(doc, ApplyFix(doc))
<1> DEFINE at == {i \in DOMAIN doc : doc[i].kind = "start" /\ doc[i].of # "hook"}
           m == Min(at)
<1>1. at # {} /\ at \subseteq Nat
  <2>1. PICK p \in {doc[i].of : i \in DOMAIN doc} \ {"hook"} : Start(p) \in ToSet(doc)
    BY DEF Managed
  <2>2. PICK i \in DOMAIN doc : doc[i] = Start(p)
    BY <2>1 DEF ToSet
  <2>3. i \in at
    BY <2>1, <2>2 DEF Start
  <2> QED
    BY <2>3
<1>2. m \in at
  <2>1. \E x \in at : \A y \in at : x <= y
    <3> HIDE DEF at
    <3> QED
      BY <1>1, Marking!LeastNumber
  <2> HIDE DEF at
  <2> QED
    BY <2>1 DEF Min
<1>3. FixedProvider(doc) = doc[m].of
  BY DEF FixedProvider
<1>4. doc[m] \in Written
  BY <1>2
<1> HIDE DEF m
<1>5. FixedProvider(doc) \in Owners
  BY <1>3, <1>4, WrittenIs
<1>6. Keeps(doc, doc)
  BY DEF Keeps
<1>7. ApplyFix(doc) \in {doc, Ensure(doc, FixedProvider(doc)).output}
  BY DEF ApplyFix
<1> QED
  BY <1>5, <1>6, <1>7, EnsureKeeps

LEMMA HookOwned == "hook" \in Owners /\ Shebang \in Written /\ <<Shebang>> \in Seq(Written)
<1>1. "hook" \in Owners /\ "shebang" \in Owners
  BY DEF Owners
<1>2. Shebang \in Written
  BY <1>1 DEF Written, Shebang
<1> QED
  BY <1>1, <1>2

LEMMA NothingRead == Read(<<>>) = Unread /\ Further(Unread, <<>>) = Unread /\ Unread.inside = <<>> /\ SeenShape(Unread)
<1>1. <<>> \in Seq(Written)
  OBVIOUS
<1>2. Further(Unread, <<>>) = Unread
  BY <1>1, FurtherSteps
<1> QED
  BY <1>2, ReadIsSeen DEF Unread, SeenShape

LEMMA ShebangRead == Further(Unread, <<Shebang>>) = Unread
<1> DEFINE s == <<Shebang>>
<1>1. s \in Seq(Written) /\ Len(s) = 1 /\ s[1] = Shebang
  BY HookOwned
<1> HIDE DEF s
<1>2. Further(Unread, SubSeq(s, 1, 0)) = Unread /\ SubSeq(s, 1, Len(s)) = s
  BY <1>1, FurtherSteps
<1>3. \A k \in 0 .. (Len(s) - 1) :
        Further(Unread, SubSeq(s, 1, k + 1)) = ReadOn(Further(Unread, SubSeq(s, 1, k)), s[k + 1])
  BY <1>1, FurtherOne
<1>4. Further(Unread, s) = ReadOn(Unread, Shebang)
  <2>1. 0 \in 0 .. (Len(s) - 1) /\ 0 + 1 = 1
    BY <1>1
  <2>2. Further(Unread, SubSeq(s, 1, 1)) = ReadOn(Further(Unread, SubSeq(s, 1, 0)), s[1])
    BY <1>3, <2>1
  <2> QED
    BY <1>1, <1>2, <2>2
<1>5. ReadOn(Unread, Shebang) = Unread
  <2>1. Shebang.kind \notin {"start", "end"}
    BY DEF Shebang, Words
  <2> QED
    BY <2>1, NothingRead, TextRead
<1> QED
  BY <1>4, <1>5 DEF s

LEMMA InstallKeeps ==
  ASSUME NEW doc \in Seq(Written)
  PROVE  Keeps(doc, InstallHook(doc))
<1>1. <<>> \in Seq(Written) /\ Block("hook") \in Seq(Written)
  BY HookOwned, BlockWritten
<1>2. CASE doc = <<>>
  <2> DEFINE s == <<Shebang>>
  <2>1. s \in Seq(Written) /\ Further(Unread, s) = Unread
    BY HookOwned, ShebangRead
  <2>2. InstallHook(doc) = s \o Block("hook")
    BY <1>2 DEF InstallHook, HookLines
  <2> HIDE DEF s
  <2>3. s \o Block("hook") = s \o Block("hook") \o <<>>
    BY <1>1, <2>1
  <2>4. /\ s \o Block("hook") \o <<>> \in Seq(Written)
        /\ Read(s \o Block("hook") \o <<>>) = Further(Further(Unread, s), <<>>)
    <3>1. Further(Unread, s).inside = <<>>
      BY <2>1, NothingRead
    <3> QED
      BY <1>1, <2>1, <3>1, HookOwned, AroundBlock
  <2>5. InstallHook(doc) \in Seq(Written) /\ Read(InstallHook(doc)) = Read(doc)
    BY <1>2, <2>1, <2>2, <2>3, <2>4, NothingRead
  <2> QED
    BY <2>5 DEF Keeps
<1>3. CASE InstallHook(doc) = doc
  BY <1>3 DEF Keeps
<1>4. CASE InstallHook(doc) = doc \o Block("hook")
  <2>1. doc \o Block("hook") = doc \o Block("hook") \o <<>>
    BY <1>1
  <2>2. doc \o Block("hook") \in Seq(Written)
    BY <1>1
  <2>3. ASSUME Tidy(doc) PROVE Read(doc \o Block("hook") \o <<>>) = Read(doc)
    <3>1. Further(Unread, doc).inside = <<>> /\ Read(doc) = Further(Unread, doc)
      BY <2>3, ReadIsSeen DEF Tidy
    <3>2. Read(doc \o Block("hook") \o <<>>) = Further(Further(Unread, doc), <<>>)
      BY <1>1, <3>1, HookOwned, AroundBlock
    <3>3. Further(Further(Unread, doc), <<>>) = Further(Unread, doc)
      BY <1>1, FurtherSteps
    <3> QED
      BY <3>1, <3>2, <3>3
  <2> QED
    BY <1>4, <2>1, <2>2, <2>3 DEF Keeps
<1> QED
  BY <1>2, <1>3, <1>4 DEF InstallHook, HookLines

(* What is cut lies between two positions. *)
CutOut(doc, first, k) == SubSeq(doc, 1, first - 1) \o SubSeq(doc, k + 1, Len(doc))

LEMMA CutWritten ==
  ASSUME NEW doc \in Seq(Written), NEW first \in 1 .. Len(doc), NEW k \in 1 .. Len(doc)
  PROVE  /\ CutOut(doc, first, k) \in Seq(Written)
         /\ SubSeq(doc, 1, first - 1) \in Seq(Written) /\ SubSeq(doc, k + 1, Len(doc)) \in Seq(Written)
<1> DEFINE a == SubSeq(doc, 1, first - 1)
           b == SubSeq(doc, k + 1, Len(doc))
<1>1. a \in Seq(Written)
  OBVIOUS
<1>2. b \in Seq(Written)
  OBVIOUS
<1> HIDE DEF a, b
<1>3. a \o b \in Seq(Written)
  BY <1>1, <1>2
<1> QED
  BY <1>1, <1>2, <1>3 DEF CutOut, a, b

LEMMA CutKeeps ==
  ASSUME NEW doc \in Seq(Written), Tidy(doc), NEW p,
         NEW first, first # 0, FoundAt(doc, Start(p), 1, first),
         NEW last, FoundAt(doc, End(p), 1, last)
  PROVE  last \in 1 .. Len(doc) /\ Read(CutOut(doc, first, last)) = Read(doc)
<1> DEFINE n == Len(doc)
<1>1. first \in 1 .. n /\ doc[first] = Start(p) /\ \A i \in 1 .. (first - 1) : doc[i] # Start(p)
  BY DEF FoundAt
<1>2. n \in Nat /\ n = Len(doc)
  OBVIOUS
<1> HIDE DEF n
<1>3. last \in 1 .. n /\ doc[last] = End(p) /\ \A i \in 1 .. (last - 1) : doc[i] # End(p)
  <2>1. last # 0
    <3> SUFFICES ASSUME last = 0 PROVE FALSE
      OBVIOUS
    <3>1. n + 1 \in (first + 1) .. (Len(doc) + 1) /\ ~(n + 1 <= Len(doc))
      BY <1>1, <1>2
    <3>2. PICK b \in (first + 1) .. ((n + 1) - 1) : doc[b] = End(p)
      BY <1>1, <1>2, <3>1, StartCloses
    <3>3. b \in 1 .. Len(doc)
      BY <1>1, <1>2
    <3>4. ~(0 \in 1 .. Len(doc))
      BY <1>2
    <3> QED
      BY <3>2, <3>3, <3>4 DEF FoundAt
  <2> QED
    BY <1>2, <2>1 DEF FoundAt
<1>4. first < last
  <2> SUFFICES ASSUME last <= first PROVE FALSE
    BY <1>1, <1>2, <1>3
  <2> DEFINE r == SeenAt(doc, last - 1)
             u == SeenAt(doc, last)
  <2>1. last - 1 \in 0 .. Len(doc) /\ last - 1 \in 0 .. (Len(doc) - 1) /\ last \in 0 .. Len(doc)
        /\ (last - 1) + 1 = last
    BY <1>2, <1>3
  <2>2. u = ReadOn(r, End(p)) /\ SeenShape(r) /\ u.paired
    BY <1>3, <2>1, SeenSteps, PairedBefore
  <2> HIDE DEF u
  <2>3. End(p).kind = "end" /\ End(p).of = p
    BY DEF End
  <2>4. r.inside = <<p>>
    BY <2>2, <2>3, EndRead
  <2>5. PICK a \in 1 .. (last - 1) : doc[a] = Start(p)
    BY <2>1, <2>4, InsideSince
  <2>6. a \in 1 .. (first - 1)
    BY <1>1, <1>2, <1>3
  <2> QED
    BY <1>1, <2>5, <2>6
<1>5. SeenAt(doc, last) = SeenAt(doc, first - 1)
  <2>1. /\ first \in 1 .. Len(doc) /\ last \in (first + 1) .. Len(doc)
        /\ \A i \in (first + 1) .. (last - 1) : doc[i] # End(p)
    BY <1>1, <1>2, <1>3, <1>4
  <2> QED
    BY <1>1, <1>3, <2>1, BlockSeen
<1> DEFINE a == SubSeq(doc, 1, first - 1)
           b == SubSeq(doc, last + 1, n)
<1>6. a \in Seq(Written) /\ b \in Seq(Written)
  BY <1>1, <1>2, <1>3, CutWritten
<1>7. SeenAt(doc, n) = Further(SeenAt(doc, last), b)
  <2>1. last \in 0 .. Len(doc) /\ n \in last .. Len(doc)
    BY <1>2, <1>3
  <2> QED
    BY <2>1, SeenBetween
<1>8. Further(Unread, a) = SeenAt(doc, first - 1)
  BY DEF SeenAt
<1>9. Read(doc) = SeenAt(doc, n)
  BY <1>2, SeenSteps
<1> HIDE DEF a, b
<1>10. Read(a \o b) = Further(Further(Unread, a), b)
  BY <1>6, FurtherBoth, ReadIsSeen
<1> QED
  BY <1>2, <1>3, <1>5, <1>7, <1>8, <1>9, <1>10 DEF a, b, CutOut

LEMMA UninstallKeeps ==
  ASSUME NEW doc \in Seq(Written), NEW out \in UninstallHook(doc)
  PROVE  Keeps(doc, out)
<1> DEFINE first == FirstFrom(doc, Start("hook"), 1)
           last == FirstFrom(doc, End("hook"), 1)
           Left(rest) == IF rest = <<Shebang>> THEN <<>> ELSE rest
<1>1. /\ FoundAt(doc, Start("hook"), 1, first) /\ FoundAt(doc, End("hook"), 1, last)
  <2>1. 1 \in Nat \ {0}
    OBVIOUS
  <2> QED
    BY <2>1, FirstFound
<1>2. \/ out = doc
      \/ first # 0 /\ last # 0 /\ out = Left(CutOut(doc, first, last))
      \/ first # 0 /\ last = 0 /\ \E k \in 1 .. Len(doc) : out = Left(CutOut(doc, first, k))
  BY DEF UninstallHook, CutOut
<1>3. ASSUME NEW rest, Keeps(doc, rest) PROVE Keeps(doc, Left(rest))
  <2>1. CASE rest = <<Shebang>>
    <3>1. Read(rest) = Unread
      BY <2>1, ShebangRead, ReadIsSeen
    <3>2. Left(rest) = <<>> /\ <<>> \in Seq(Written)
      BY <2>1
    <3> QED
      BY <1>3, <3>1, <3>2, NothingRead DEF Keeps
  <2>2. CASE rest # <<Shebang>>
    BY <1>3, <2>2
  <2> QED
    BY <2>1, <2>2
<1> HIDE DEF first, last, Left
<1>4. CASE out = doc
  BY <1>4 DEF Keeps
<1>5. ASSUME first # 0, NEW k \in 1 .. Len(doc), Tidy(doc) => k = last, out = Left(CutOut(doc, first, k))
      PROVE  Keeps(doc, out)
  <2>1. first \in 1 .. Len(doc)
    BY <1>1, <1>5 DEF FoundAt
  <2>2. CutOut(doc, first, k) \in Seq(Written)
    BY <2>1, CutWritten
  <2>3. ASSUME Tidy(doc) PROVE Read(CutOut(doc, first, k)) = Read(doc)
    BY <1>1, <1>5, <2>3, CutKeeps
  <2>4. Keeps(doc, CutOut(doc, first, k))
    BY <2>2, <2>3 DEF Keeps
  <2> QED
    BY <1>3, <1>5, <2>4
<1>6. CASE first # 0 /\ last # 0 /\ out = Left(CutOut(doc, first, last))
  <2>1. last \in 1 .. Len(doc)
    BY <1>1, <1>6 DEF FoundAt
  <2> QED
    BY <1>5, <1>6, <2>1
<1>7. CASE first # 0 /\ last = 0 /\ \E k \in 1 .. Len(doc) : out = Left(CutOut(doc, first, k))
  <2>1. ~Tidy(doc)
    <3> SUFFICES ASSUME Tidy(doc) PROVE FALSE
      OBVIOUS
    <3>1. last \in 1 .. Len(doc)
      BY <1>1, <1>7, CutKeeps
    <3> QED
      BY <1>7, <3>1
  <2> QED
    BY <1>5, <1>7, <2>1
<1> QED
  BY <1>2, <1>4, <1>6, <1>7

-----------------------------------------------------------------------------
(* The files that have a managed block, and the hook. *)

FileNames == Providers \cup {"hook"}

(* A check has nothing left to do for a file whose marks are in pairs. *)
Done(p) == Tidy(docs[p]) => NothingLeft(docs[p], p)

(* What is planned for the files still to be written is what one would plan for
   them now. *)
PlansHold ==
  run.pc = "write" =>
    \A i \in DOMAIN Surfaces : i >= run.next => run.plans[i] = PlanSurface(docs[Surfaces[i]], Surfaces[i])

(* Behind a sync its files are done. *)
FilesDone ==
  /\ run.pc = "plan" => run.next = 1
  /\ settled = "running" /\ run.pc = "write" => \A i \in DOMAIN Surfaces : i < run.next => Done(Surfaces[i])
  /\ settled = "running" /\ run.pc \in {"lock"} \cup Locking => \A p \in Providers : Done(p)
  /\ settled = "yes" => \A p \in Providers : Done(p)

(* What people wrote is read as they left it. *)
LeftIsRead == \A p \in FileNames : Tidy(left[p]) => Read(docs[p]) = Read(left[p])

FilesInv ==
  /\ docs \in [FileNames -> Seq(Written)] /\ left \in [FileNames -> Seq(Written)]
  /\ LeftIsRead
  /\ PlansHold
  /\ FilesDone

LEMMA SurfacesInOrder ==
  ASSUME ManagedAssumption
  PROVE  /\ DOMAIN Surfaces = 1 .. Len(Surfaces) /\ Len(Surfaces) \in Nat
         /\ \A i \in DOMAIN Surfaces : Surfaces[i] \in Providers
         /\ \A p \in Providers : \E i \in DOMAIN Surfaces : p = Surfaces[i]
         /\ \A i, j \in DOMAIN Surfaces : Surfaces[i] = Surfaces[j] => i = j
         /\ "hook" \notin Providers
<1>1. Surfaces \in Seq(Providers)
  BY DEF ManagedAssumption, Providers
<1>2. DOMAIN Surfaces = 1 .. Len(Surfaces) /\ Len(Surfaces) \in Nat
  BY <1>1
<1>3. \A i, j \in DOMAIN Surfaces : Surfaces[i] = Surfaces[j] => i = j
  BY DEF ManagedAssumption, IsInjective
<1>4. /\ \A i \in DOMAIN Surfaces : Surfaces[i] \in Providers
      /\ \A p \in Providers : \E i \in DOMAIN Surfaces : p = Surfaces[i]
  BY DEF Providers, ToSet
<1> QED
  BY <1>2, <1>3, <1>4 DEF ManagedAssumption, Providers

LEMMA FilesOwned == FileNames \subseteq Owners
BY DEF FileNames, Owners

(* What a person makes of a file. *)
LEMMA ChangedWritten ==
  ASSUME ManagedAssumption, NEW doc \in Seq(Written), NEW out \in Changed(doc)
  PROVE  out \in Seq(Written)
<1>1. ASSUME NEW i \in DOMAIN doc PROVE RemoveAt(doc, i) \in Seq(Written)
  <2>1. i \in 1 .. Len(doc)
    OBVIOUS
  <2>2. RemoveAt(doc, i) = CutOut(doc, i, i)
    BY DEF RemoveAt, CutOut
  <2> QED
    BY <2>1, <2>2, CutWritten
<1>2. ASSUME NEW i \in 1 .. (Len(doc) + 1), NEW x \in Pieces PROVE InsertAt(doc, i, x) \in Seq(Written)
  <2> DEFINE a == SubSeq(doc, 1, i - 1)
             b == SubSeq(doc, i, Len(doc))
             c == <<x>>
  <2>1. a \in Seq(Written)
    OBVIOUS
  <2>2. b \in Seq(Written)
    OBVIOUS
  <2>3. c \in Seq(Written)
    <3>1. x \in Written
      BY DEF ManagedAssumption
    <3> QED
      BY <3>1
  <2>4. InsertAt(doc, i, x) = (a \o c) \o b
    BY DEF InsertAt
  <2> HIDE DEF a, b, c
  <2>5. a \o c \in Seq(Written)
    BY <2>1, <2>3
  <2>6. (a \o c) \o b \in Seq(Written)
    BY <2>2, <2>5
  <2> QED
    BY <2>4, <2>6
<1>3. (IF Len(doc) < MaxMarks THEN 1 .. Len(doc) + 1 ELSE {}) \subseteq 1 .. (Len(doc) + 1)
  OBVIOUS
<1>4. \/ \E i \in DOMAIN doc : out = RemoveAt(doc, i)
      \/ \E i \in (IF Len(doc) < MaxMarks THEN 1 .. Len(doc) + 1 ELSE {}), x \in Pieces : out = InsertAt(doc, i, x)
  BY DEF Changed
<1> QED
  BY <1>1, <1>2, <1>3, <1>4

(* A step that keeps each file or makes of it what is read the same. *)
LEMMA KeptIsLeft ==
  ASSUME FilesInv, left' = left, docs' \in [FileNames -> Seq(Written)],
         \A p \in FileNames : docs'[p] = docs[p] \/ Keeps(docs[p], docs'[p])
  PROVE  LeftIsRead'
<1> SUFFICES ASSUME NEW p \in FileNames, Tidy(left[p]) PROVE Read(docs'[p]) = Read(left[p])
  BY DEF LeftIsRead
<1>1. Read(docs[p]) = Read(left[p])
  BY DEF FilesInv, LeftIsRead
<1>2. Tidy(docs[p])
  BY <1>1 DEF Tidy
<1> QED
  BY <1>1, <1>2 DEF Keeps

LEMMA FilesFirst == ASSUME ManagedAssumption, ManagedInit PROVE FilesInv
<1>1. docs \in [FileNames -> Seq(Written)] /\ left = docs /\ run.pc = "idle" /\ settled = "no"
  BY DEF ManagedInit, Idle, FileNames
<1> QED
  BY <1>1 DEF FilesInv, LeftIsRead, PlansHold, FilesDone, Locking

(* A file is written. *)
LEMMA WrittenDone ==
  ASSUME ManagedAssumption, FilesInv, RunShape(run), run.next \in Nat \ {0},
         settled = "yes" => run.pc = "idle", WriteSurface
  PROVE  FilesInv'
<1> DEFINE k == run.next
           p == Surfaces[k]
           plan == run.plans[k]
<1>1. /\ run.pc = "write" /\ k \in DOMAIN Surfaces /\ UNCHANGED <<left, settled>>
      /\ docs' = IF plan.action # "unchanged" THEN [docs EXCEPT ![p] = plan.output] ELSE docs
      /\ run' = [run EXCEPT !.next = @ + 1]
  BY DEF WriteSurface, ToWrite
<1>2. /\ docs \in [FileNames -> Seq(Written)] /\ left \in [FileNames -> Seq(Written)]
      /\ p \in Providers /\ p \in FileNames /\ p \in Owners /\ docs[p] \in Seq(Written)
  BY <1>1, SurfacesInOrder, FilesOwned DEF FilesInv, FileNames
<1>3. run'.pc = "write" /\ run'.next = k + 1 /\ run'.plans = run.plans
  BY <1>1 DEF RunShape, RunFields
<1>4. k \in 1 .. Len(Surfaces) /\ Len(Surfaces) \in Nat /\ DOMAIN Surfaces = 1 .. Len(Surfaces)
  BY <1>1, SurfacesInOrder
<1>5. plan = PlanSurface(docs[p], p)
  <2>1. \A i \in DOMAIN Surfaces : i >= run.next => run.plans[i] = PlanSurface(docs[Surfaces[i]], Surfaces[i])
    BY <1>1 DEF FilesInv, PlansHold
  <2>2. k >= run.next
    BY <1>4
  <2> QED
    BY <1>1, <2>1, <2>2
<1>6. Keeps(docs[p], plan.output)
  BY <1>2, <1>5, PlanKeeps
<1>7. /\ plan.action = "unchanged" => NothingLeft(docs[p], p)
      /\ plan.action # "unchanged" /\ Tidy(plan.output) => NothingLeft(plan.output, p)
  BY <1>2, <1>5, PlanSettles
<1> HIDE DEF k, p, plan
<1>8. /\ docs' \in [FileNames -> Seq(Written)] /\ \A q \in FileNames \ {p} : docs'[q] = docs[q]
      /\ plan.action = "unchanged" => docs'[p] = docs[p]
      /\ plan.action # "unchanged" => docs'[p] = plan.output
  BY <1>1, <1>2, <1>6 DEF Keeps
<1>9. LeftIsRead'
  BY <1>1, <1>2, <1>6, <1>8, KeptIsLeft
<1>10. Tidy(docs'[p]) => NothingLeft(docs'[p], p)
  BY <1>7, <1>8
<1>11. ASSUME NEW i \in DOMAIN Surfaces, i # k PROVE docs'[Surfaces[i]] = docs[Surfaces[i]]
  <2>1. Surfaces[i] # p /\ Surfaces[i] \in FileNames
    BY <1>1, <1>11, SurfacesInOrder DEF p, FileNames
  <2> QED
    BY <1>8, <2>1
<1>12. PlansHold'
  <2> SUFFICES ASSUME NEW i \in DOMAIN Surfaces, i >= k + 1
               PROVE  run.plans[i] = PlanSurface(docs'[Surfaces[i]], Surfaces[i])
    BY <1>3 DEF PlansHold
  <2>1. i # k /\ i >= run.next
    BY <1>4 DEF k
  <2>2. run.plans[i] = PlanSurface(docs[Surfaces[i]], Surfaces[i])
    BY <1>1, <2>1 DEF FilesInv, PlansHold
  <2> QED
    BY <1>11, <2>1, <2>2
<1>13. FilesDone'
  <2> SUFFICES ASSUME settled = "running", NEW i \in DOMAIN Surfaces, i < k + 1 PROVE Done(Surfaces[i])'
    <3>1. settled # "yes"
      BY <1>1
    <3> QED
      BY <1>1, <1>3, <3>1 DEF FilesDone, Locking
  <2>1. CASE i = k
    BY <1>10, <2>1 DEF p, Done
  <2>2. CASE i # k
    <3>1. i < run.next
      BY <1>4, <2>2 DEF k
    <3>2. Done(Surfaces[i])
      BY <1>1, <3>1 DEF FilesInv, FilesDone
    <3> QED
      BY <1>11, <2>2, <3>2 DEF Done
  <2> QED
    BY <2>1, <2>2
<1> QED
  BY <1>1, <1>2, <1>8, <1>9, <1>12, <1>13 DEF FilesInv

(* A file is rewritten by something that is no step of a command in which all
   files are written. *)
LEMMA FileRewritten ==
  ASSUME ManagedAssumption, FilesInv, NEW p \in FileNames, NEW doc, docs' = [docs EXCEPT ![p] = doc],
         Keeps(docs[p], doc), left' = left,
         \/ p = "hook" /\ UNCHANGED <<run, settled>>
         \/ run.pc = "idle" /\ run' = run /\ settled' = "no"
  PROVE  FilesInv'
<1>1. docs \in [FileNames -> Seq(Written)] /\ doc \in Seq(Written)
  BY DEF FilesInv, Keeps
<1>2. docs' \in [FileNames -> Seq(Written)] /\ docs'[p] = doc /\ \A q \in FileNames \ {p} : docs'[q] = docs[q]
  BY <1>1
<1>3. LeftIsRead'
  BY <1>2, KeptIsLeft
<1>4. CASE p = "hook" /\ UNCHANGED <<run, settled>>
  <2>1. \A q \in Providers : docs'[q] = docs[q]
    BY <1>2, <1>4, SurfacesInOrder DEF FileNames
  <2>2. \A q \in Providers : Done(q) => Done(q)'
    BY <2>1 DEF Done
  <2>3. FilesDone'
    BY <1>4, <2>2, SurfacesInOrder DEF FilesInv, FilesDone
  <2>4. PlansHold'
    BY <1>4, <2>1, SurfacesInOrder DEF FilesInv, PlansHold
  <2> QED
    BY <1>2, <1>3, <2>3, <2>4 DEF FilesInv
<1>5. CASE run.pc = "idle" /\ run' = run /\ settled' = "no"
  BY <1>2, <1>3, <1>5 DEF FilesInv, FilesDone, PlansHold, Locking
<1> QED
  BY <1>4, <1>5

(* The other steps of a command leave the files alone. *)
LEMMA FilesUntouched ==
  ASSUME FilesInv, UNCHANGED <<docs, left>>, FilesDone', PlansHold'
  PROVE  FilesInv'
BY DEF FilesInv, LeftIsRead

LEMMA FilesStay ==
  ASSUME ManagedAssumption, SettledInv, FilesInv, ManagedNext
  PROVE  FilesInv'
<1>0. /\ RunShape(run) /\ run.next \in Nat \ {0} /\ (settled = "yes" => run.pc = "idle")
      /\ run.pc \in CommandStates /\ settled \in {"yes", "no", "running"}
  BY DEF SettledInv, ManagedInv, ManagedTypes
<1>1. ASSUME UNCHANGED <<docs, left>>, settled' = "no", run'.pc \notin {"plan", "write"} PROVE FilesInv'
  BY <1>1, FilesUntouched DEF FilesDone, PlansHold
<1>2. ASSUME UNCHANGED <<docs, left>>, settled' = settled, run.pc \in {"lock"} \cup Locking,
             run'.pc \in {"lock"} \cup Locking
      PROVE  FilesInv'
  <2>1. \A p \in Providers : Done(p) => Done(p)'
    BY <1>2 DEF Done
  <2>2. FilesDone'
    BY <1>0, <1>2, <2>1 DEF FilesInv, FilesDone, Locking
  <2>3. PlansHold'
    BY <1>2 DEF PlansHold, Locking
  <2> QED
    BY <1>2, <2>2, <2>3, FilesUntouched
<1>3. CASE Begin
  <2>1. /\ run'.pc \in {"lock", "plan"} /\ run'.next = 1 /\ UNCHANGED <<docs, left>>
        /\ settled' = "running" => run'.pc = "plan"
        /\ settled' # "yes"
    BY <1>3 DEF Begin, Idle
  <2>2. FilesDone'
    BY <2>1 DEF FilesDone, Locking
  <2>3. PlansHold'
    BY <2>1 DEF PlansHold
  <2> QED
    BY <2>1, <2>2, <2>3, FilesUntouched
<1>4. CASE PlanSurfaces
  <2>1. /\ run.pc = "plan" /\ run'.pc = "write" /\ run'.next = run.next /\ UNCHANGED <<docs, left, settled>>
        /\ run'.plans = [i \in DOMAIN Surfaces |-> PlanSurface(docs[Surfaces[i]], Surfaces[i])]
    BY <1>0, <1>4 DEF PlanSurfaces, RunShape, RunFields
  <2>2. run.next = 1
    BY <2>1 DEF FilesInv, FilesDone
  <2>3. \A i \in DOMAIN Surfaces : ~(i < 1)
    BY SurfacesInOrder
  <2>4. FilesDone'
    BY <1>0, <2>1, <2>2, <2>3 DEF FilesDone, Locking
  <2>5. PlansHold'
    BY <2>1 DEF PlansHold
  <2> QED
    BY <2>1, <2>4, <2>5, FilesUntouched
<1>5. CASE WriteSurface
  BY <1>0, <1>5, WrittenDone
<1>6. CASE SurfacesWritten
  <2>1. /\ run.pc = "write" /\ run'.pc = "lock" /\ UNCHANGED <<docs, left, settled>>
        /\ run.next \notin DOMAIN Surfaces
    BY <1>0, <1>6 DEF SurfacesWritten, RunShape, RunFields
  <2>2. \A i \in DOMAIN Surfaces : i < run.next
    BY <1>0, <2>1, SurfacesInOrder
  <2>3. ASSUME settled = "running", NEW p \in Providers PROVE Done(p)'
    <3>1. PICK i \in DOMAIN Surfaces : p = Surfaces[i]
      BY SurfacesInOrder
    <3>2. Done(p)
      BY <2>1, <2>2, <2>3, <3>1 DEF FilesInv, FilesDone
    <3> QED
      BY <2>1, <3>2 DEF Done
  <2>4. FilesDone'
    BY <1>0, <2>1, <2>3 DEF FilesDone
  <2>5. PlansHold'
    BY <2>1 DEF PlansHold
  <2> QED
    BY <2>1, <2>4, <2>5, FilesUntouched
<1>7. CASE ReadLock
  <2>1. run'.pc = "skills"
    BY <1>0, <1>7 DEF ReadLock, RunShape, RunFields
  <2> QED
    BY <1>2, <1>7, <2>1 DEF ReadLock, Locking
<1>8. CASE Look
  <2>1. run'.pc \in Locking
    <3>1. run'.pc \in {"copy", "remove"} \/ run'.pc = "skills"
      <4> DEFINE s == Skills[run.next]
      <4>1. \/ run' = [run EXCEPT !.pc = "copy"] \/ run' = [run EXCEPT !.pc = "remove"]
            \/ run' = NextSkill(Upsert(run, s)) \/ run' = NextSkill(run)
        BY <1>8 DEF Look
      <4>2. CASE run' = [run EXCEPT !.pc = "copy"] \/ run' = [run EXCEPT !.pc = "remove"]
        BY <1>0, <4>2 DEF RunShape, RunFields
      <4>3. CASE run' = NextSkill(Upsert(run, s))
        BY <1>0, <4>3, Upserted DEF SettledInv, ManagedInv, ManagedTypes
      <4>4. CASE run' = NextSkill(run)
        BY <1>0, <4>4, NextShape
      <4> QED
        BY <4>1, <4>2, <4>3, <4>4
    <3> QED
      BY <3>1 DEF Locking
  <2> QED
    BY <1>2, <1>8, <2>1 DEF Look, Locking
<1>9. CASE RemoveOld
  <2>1. run'.pc = "copy"
    BY <1>0, <1>9 DEF RemoveOld, RunShape, RunFields
  <2> QED
    BY <1>2, <1>9, <2>1 DEF RemoveOld, Locking
<1>10. CASE Copy
  <2>1. run'.pc = "skills"
    <3> DEFINE s == Skills[run.next]
    <3>1. run' = NextSkill(Upsert(run, s))
      BY <1>10 DEF Copy
    <3> QED
      BY <1>0, <3>1, Upserted DEF SettledInv, ManagedInv, ManagedTypes
  <2> QED
    BY <1>2, <1>10, <2>1 DEF Copy, Locking
<1>11. CASE WriteLock
  <2>1. /\ run.pc = "skills" /\ run'.pc = "idle" /\ UNCHANGED <<docs, left>>
        /\ settled' = IF settled = "running" THEN "yes" ELSE "no"
    BY <1>11 DEF WriteLock, Idle
  <2>2. ASSUME settled = "running", NEW p \in Providers PROVE Done(p)'
    <3>1. Done(p)
      BY <2>1, <2>2 DEF FilesInv, FilesDone, Locking
    <3> QED
      BY <2>1, <3>1 DEF Done
  <2>3. FilesDone'
    BY <2>1, <2>2 DEF FilesDone, Locking
  <2>4. PlansHold'
    BY <2>1 DEF PlansHold
  <2> QED
    BY <2>1, <2>3, <2>4, FilesUntouched
<1>12. CASE Die
  <2>1. run'.pc = "idle" /\ settled' = "no" /\ UNCHANGED <<docs, left>>
    BY <1>12 DEF Die, Idle
  <2> QED
    BY <1>1, <2>1
<1>13. CASE HookCommand
  <2>1. PICK doc \in {InstallHook(docs["hook"])} \cup UninstallHook(docs["hook"]) :
          docs' = [docs EXCEPT !["hook"] = doc]
    BY <1>13 DEF HookCommand
  <2>2. "hook" \in FileNames /\ docs["hook"] \in Seq(Written)
    BY DEF FilesInv, FileNames
  <2>3. Keeps(docs["hook"], doc)
    BY <2>1, <2>2, InstallKeeps, UninstallKeeps
  <2> QED
    BY <1>13, <2>1, <2>2, <2>3, FileRewritten DEF HookCommand
<1>14. ASSUME NEW p \in Providers, Fix(p) PROVE FilesInv'
  <2>1. /\ run.pc = "idle" /\ Managed(docs[p]) /\ docs' = [docs EXCEPT ![p] = ApplyFix(docs[p])]
        /\ settled' = "no" /\ UNCHANGED <<run, left>>
    BY <1>14 DEF Fix, Stale
  <2>2. p \in FileNames /\ docs[p] \in Seq(Written)
    BY DEF FilesInv, FileNames
  <2>3. Keeps(docs[p], ApplyFix(docs[p]))
    BY <2>1, <2>2, FixKeeps
  <2> QED
    BY <2>1, <2>2, <2>3, FileRewritten
<1>15. ASSUME NEW p \in DOMAIN docs, Edit(p) PROVE FilesInv'
  <2>1. PICK doc \in Changed(docs[p]) : docs' = [docs EXCEPT ![p] = doc] /\ left' = [left EXCEPT ![p] = doc]
    BY <1>15 DEF Edit
  <2>2. run.pc # "write" /\ settled' = "no" /\ run' = run
    BY <1>15 DEF Edit
  <2>3. p \in FileNames /\ docs \in [FileNames -> Seq(Written)] /\ left \in [FileNames -> Seq(Written)]
    BY DEF FilesInv
  <2>4. doc \in Seq(Written)
    BY <2>3, ChangedWritten
  <2>5. docs' \in [FileNames -> Seq(Written)] /\ left' \in [FileNames -> Seq(Written)]
    BY <2>1, <2>3, <2>4
  <2>6. LeftIsRead'
    <3> SUFFICES ASSUME NEW q \in FileNames, Tidy(left'[q]) PROVE Read(docs'[q]) = Read(left'[q])
      BY DEF LeftIsRead
    <3>1. CASE q = p
      BY <2>1, <2>3, <3>1
    <3>2. CASE q # p
      BY <2>1, <2>3, <3>2 DEF FilesInv, LeftIsRead
    <3> QED
      BY <3>1, <3>2
  <2>7. FilesDone' /\ PlansHold'
    BY <2>2 DEF FilesInv, FilesDone, PlansHold
  <2> QED
    BY <2>5, <2>6, <2>7 DEF FilesInv
<1>16. ASSUME UNCHANGED <<docs, left, run>>, settled' = "no" PROVE FilesInv'
  <2>1. FilesDone' /\ PlansHold'
    BY <1>16 DEF FilesInv, FilesDone, PlansHold
  <2> QED
    BY <1>16, <2>1, FilesUntouched
<1>17. ASSUME NEW s \in SkillNames, EditSkill(s) \/ Upgrade(s) PROVE FilesInv'
  BY <1>16, <1>17 DEF EditSkill, Upgrade
<1> QED
  BY <1>3, <1>4, <1>5, <1>6, <1>7, <1>8, <1>9, <1>10, <1>11, <1>12, <1>13, <1>14, <1>15, <1>17
     DEF ManagedNext, CommandStep

LEMMA FilesHold == ManagedSpec => [](SettledInv /\ FilesInv)
<1>1. ManagedInit => SettledInv /\ FilesInv
  BY SettlesFirst, FilesFirst, ManagedAssumption
<1>2. SettledInv /\ FilesInv /\ [ManagedNext]_managedVars => (SettledInv /\ FilesInv)'
  <2> SUFFICES ASSUME SettledInv, FilesInv, [ManagedNext]_managedVars PROVE SettledInv' /\ FilesInv'
    OBVIOUS
  <2>1. CASE ManagedNext
    BY <2>1, SettlesOn, TypesStay, KnownStays, FilesStay, ManagedAssumption DEF SettledInv, ManagedInv
  <2>2. CASE UNCHANGED managedVars
    <3>1. SettledInv'
      BY <2>2 DEF managedVars, SettledInv, Settling, Settled, SourceOf,
                  ManagedInv, ManagedTypes, SkillsKnown, CleanCopy, Known, Replaced
    <3>2. FilesDone' /\ PlansHold'
      BY <2>2 DEF managedVars, FilesInv, FilesDone, PlansHold, Done
    <3> QED
      BY <2>2, <3>1, <3>2, FilesUntouched DEF managedVars
  <2> QED
    BY <2>1, <2>2
<1> QED
  BY <1>1, <1>2, PTL DEF ManagedSpec

(* In a file that people left with its marks in pairs, the marks stay in pairs
   and the text outside the blocks stays as they left it, whatever commands
   follow: ensureManagedBlock cuts out whole blocks only, and a whole block
   makes no difference to what is read outside; and what is planned before the
   first file is written is still right when the last one is. *)
THEOREM TextOutsideKept == ManagedSpec => []TextOutsideBlocksKept
<1>1. SettledInv /\ FilesInv => TextOutsideBlocksKept
  <2> SUFFICES ASSUME FilesInv, NEW p \in DOMAIN docs, Tidy(left[p])
               PROVE  Tidy(docs[p]) /\ Authored(docs[p]) = Authored(left[p])
    BY DEF TextOutsideBlocksKept
  <2>1. Read(docs[p]) = Read(left[p])
    BY DEF FilesInv, LeftIsRead
  <2> QED
    BY <2>1 DEF Tidy, Authored
<1> QED
  BY <1>1, FilesHold, PTL

(* Behind a sync that reached its end a check has nothing left to do: a file
   that ensureManagedBlock made, and which holds its marks in pairs, is left as
   it is when it comes to it again, and the skills are settled. *)
THEOREM SyncSettlesAll == ManagedSpec => []SyncSettles
<1>1. (SettledInv /\ FilesInv) /\ SkillsSettled => SyncSettles
  <2> SUFFICES ASSUME FilesInv, SkillsSettled, settled = "yes", \A p \in Providers : Tidy(docs[p])
               PROVE  Preview \cap Pending = {}
    BY DEF SyncSettles
  <2>1. ASSUME NEW p \in Providers PROVE PreviewSurface(p) \notin Pending
    <3>1. NothingLeft(docs[p], p)
      BY <2>1 DEF FilesInv, FilesDone, Done
    <3> DEFINE row == PlanSurface(docs[p], p).row
    <3>2. row \in {"unchanged", "refused-non-managed"}
      BY <3>1 DEF NothingLeft
    <3>3. PreviewSurface(p) = CASE row = "created" -> "would-create"
                                [] row = "unchanged" -> "up-to-date"
                                [] row = "refused-non-managed" -> row
                                [] OTHER -> "would-update-managed"
      BY DEF PreviewSurface
    <3> HIDE DEF row
    <3> QED
      BY <3>2, <3>3 DEF Pending
  <2>2. \A s \in SkillNames : PreviewSkill(s) \notin Pending
    BY DEF SkillsSettled
  <2> QED
    BY <2>1, <2>2 DEF Preview
<1> QED
  BY <1>1, FilesHold, SyncSettlesSkills, PTL

=============================================================================
