-------------------------- MODULE LocalStoresProofs --------------------------
(***************************************************************************)
(* Theorems about LocalStores and TaskDirectory, for every set of          *)
(* processes and titles, rotation limit, starting journal, pair of         *)
(* directories to start from and bound.                                    *)
(***************************************************************************)
EXTENDS TaskDirectory, FiniteSetTheorems, SequenceTheorems, NaturalsInduction, WellFoundedInduction, TLAPS

-----------------------------------------------------------------------------
(* Checkpoint numbers. *)

(* The checkpoints are numbered from 1; a process about to write one holds the
   next number or one that was given since, and surely the next one as long as
   nobody wrote into its command. *)
CheckpointInv ==
  /\ DOMAIN pc = Procs /\ DOMAIN mem = Procs
  /\ \E n \in 0 .. MaxCheckpoints :
       /\ checkpoints = 1 .. n
       /\ \A p \in Procs : pc[p] = "rename" =>
            /\ mem[p].id \in 1 .. MaxCheckpoints /\ mem[p].id <= n + 1
            /\ p \notin disturbed => mem[p].id = n + 1

(* The highest of the numbers 1 .. n. *)
LEMMA GreatestUpTo ==
  ASSUME NEW n \in Nat
  PROVE  Greatest(1 .. n) = n
<1>1. n \in (1 .. n) \cup {0} /\ \A m \in 1 .. n : m <= n
  OBVIOUS
<1>2. \A k \in (1 .. n) \cup {0} : (\A m \in 1 .. n : m <= k) => k = n
  <2>1. CASE n = 0
    BY <2>1
  <2>2. CASE n # 0
    <3>1. n \in 1 .. n
      BY <2>2
    <3> QED
      BY <3>1
  <2> QED
    BY <2>1, <2>2
<1> QED
  BY <1>1, <1>2 DEF Greatest

(* A step that writes no checkpoint and begins none. *)
LEMMA OtherStep ==
  ASSUME CheckpointInv, NEW p \in Procs, NEW from, NEW to, NEW memory,
         Step(p, from, to, memory), to # "rename",
         UNCHANGED checkpoints,
         \A q \in Procs \ {p} : q \in disturbed /\ pc[q] = "rename" => q \in disturbed'
  PROVE  CheckpointInv'
<1>1. PICK n \in 0 .. MaxCheckpoints :
        /\ checkpoints = 1 .. n
        /\ \A q \in Procs : pc[q] = "rename" =>
             /\ mem[q].id \in 1 .. MaxCheckpoints /\ mem[q].id <= n + 1
             /\ q \notin disturbed => mem[q].id = n + 1
  BY DEF CheckpointInv
<1>2. DOMAIN pc' = Procs /\ DOMAIN mem' = Procs
  BY DEF CheckpointInv, Step
<1>3. \A q \in Procs : pc'[q] = "rename" => q # p /\ pc[q] = "rename" /\ mem'[q] = mem[q]
  BY DEF CheckpointInv, Step
<1>4. \A q \in Procs : pc'[q] = "rename" =>
        /\ mem'[q].id \in 1 .. MaxCheckpoints /\ mem'[q].id <= n + 1
        /\ q \notin disturbed' => mem'[q].id = n + 1
  BY <1>1, <1>3
<1> QED
  BY <1>1, <1>2, <1>4 DEF CheckpointInv

(* Every step keeps the numbering of the checkpoints. *)
LEMMA CheckpointStep ==
  ASSUME CheckpointInv, [Next]_vars
  PROVE  CheckpointInv'
<1> USE StoresAssumption
<1>1. ASSUME UNCHANGED vars PROVE CheckpointInv'
  BY <1>1 DEF CheckpointInv, vars, stores
<1>2. ASSUME NEW p \in Procs, NumberCheckpoint(p) PROVE CheckpointInv'
  <2>1. PICK n \in 0 .. MaxCheckpoints :
          /\ checkpoints = 1 .. n
          /\ \A q \in Procs : pc[q] = "rename" =>
               /\ mem[q].id \in 1 .. MaxCheckpoints /\ mem[q].id <= n + 1
               /\ q \notin disturbed => mem[q].id = n + 1
    BY DEF CheckpointInv
  <2>2. NextCheckpoint(checkpoints) = n + 1
    BY <2>1, GreatestUpTo DEF NextCheckpoint
  <2>3. /\ pc' = [pc EXCEPT ![p] = "rename"]
        /\ mem' = [mem EXCEPT ![p] = [id |-> n + 1]]
        /\ n + 1 <= MaxCheckpoints
    BY <1>2, <2>2 DEF NumberCheckpoint, Step
  <2>4. checkpoints' = checkpoints /\ \A q \in Procs \ {p} : q \in disturbed => q \in disturbed'
    BY <1>2 DEF NumberCheckpoint, Reads, stores
  <2>5. DOMAIN pc' = Procs /\ DOMAIN mem' = Procs
    BY <2>3 DEF CheckpointInv
  <2>6. \A q \in Procs : pc'[q] = "rename" =>
          /\ mem'[q].id \in 1 .. MaxCheckpoints /\ mem'[q].id <= n + 1
          /\ q \notin disturbed' => mem'[q].id = n + 1
    <3> TAKE q \in Procs
    <3>1. CASE q = p
      BY <2>3, <3>1 DEF CheckpointInv
    <3>2. CASE q # p
      <4>1. pc'[q] = pc[q] /\ mem'[q] = mem[q]
        BY <2>3, <3>2 DEF CheckpointInv
      <4> QED
        BY <2>1, <2>4, <3>2, <4>1
    <3> QED
      BY <3>1, <3>2
  <2> QED
    BY <2>1, <2>4, <2>5, <2>6 DEF CheckpointInv
<1>3. ASSUME NEW p \in Procs, RenameCheckpoint(p) PROVE CheckpointInv'
  <2>1. PICK n \in 0 .. MaxCheckpoints :
          /\ checkpoints = 1 .. n
          /\ \A q \in Procs : pc[q] = "rename" =>
               /\ mem[q].id \in 1 .. MaxCheckpoints /\ mem[q].id <= n + 1
               /\ q \notin disturbed => mem[q].id = n + 1
    BY DEF CheckpointInv
  <2>2. /\ pc[p] = "rename"
        /\ pc' = [pc EXCEPT ![p] = "seq"] /\ mem' = [mem EXCEPT ![p] = Nothing]
        /\ checkpoints' = checkpoints \cup {mem[p].id}
    BY <1>3 DEF RenameCheckpoint, Step
  <2>3. PICK m \in 0 .. MaxCheckpoints : checkpoints' = 1 .. m /\ n <= m
    <3>1. CASE mem[p].id <= n
      <4>1. checkpoints' = 1 .. n
        BY <2>1, <2>2, <3>1
      <4> QED
        BY <4>1
    <3>2. CASE mem[p].id = n + 1
      <4>1. checkpoints' = 1 .. (n + 1) /\ n + 1 \in 0 .. MaxCheckpoints
        BY <2>1, <2>2, <3>2
      <4> QED
        BY <4>1
    <3> QED
      BY <2>1, <2>2, <3>1, <3>2
  <2>4. \A q \in Procs : pc'[q] = "rename" =>
          q # p /\ pc[q] = "rename" /\ mem'[q] = mem[q] /\ q \in disturbed'
    BY <1>3, <2>2 DEF CheckpointInv, RenameCheckpoint, Disturb
  <2>5. DOMAIN pc' = Procs /\ DOMAIN mem' = Procs
    BY <2>2 DEF CheckpointInv
  <2>6. \A q \in Procs : pc'[q] = "rename" =>
          /\ mem'[q].id \in 1 .. MaxCheckpoints /\ mem'[q].id <= m + 1
          /\ q \notin disturbed' => mem'[q].id = m + 1
    BY <2>1, <2>3, <2>4
  <2> QED
    BY <2>3, <2>5, <2>6 DEF CheckpointInv
<1>4. ASSUME NEW p \in Procs, BeginAppend(p) PROVE CheckpointInv'
  <2>1. Step(p, "idle", "seq", Nothing) /\ UNCHANGED checkpoints
    BY <1>4 DEF BeginAppend, Reads, stores
  <2>2. \A q \in Procs \ {p} : q \in disturbed => q \in disturbed'
    BY <1>4 DEF BeginAppend, Reads
  <2> QED
    BY <2>1, <2>2, OtherStep
<1>5. ASSUME NEW p \in Procs, NumberEvent(p) PROVE CheckpointInv'
  <2>1. /\ Step(p, "seq", "append", [seq |-> NextSeq, before |-> journal])
        /\ UNCHANGED checkpoints
    BY <1>5 DEF NumberEvent, stores
  <2>2. \A q \in Procs \ {p} : q \in disturbed => q \in disturbed'
    BY <1>5 DEF NumberEvent
  <2> QED
    BY <2>1, <2>2, OtherStep
<1>6. ASSUME NEW p \in Procs, ReadActive(p) PROVE CheckpointInv'
  <2>1. /\ \E to \in {"rotate2", "truncate"} : \E m : Step(p, "append", to, m)
        /\ UNCHANGED checkpoints
    BY <1>6 DEF ReadActive, Reads, stores
  <2>2. \A q \in Procs \ {p} : q \in disturbed => q \in disturbed'
    BY <1>6 DEF ReadActive, Reads
  <2> QED
    BY <2>1, <2>2, OtherStep
<1>7. ASSUME NEW p \in Procs, NEW from, NEW to, NEW memory,
             Step(p, from, to, memory), to # "rename", Disturb(p),
             UNCHANGED checkpoints
      PROVE  CheckpointInv'
  <2>1. \A q \in Procs \ {p} : pc[q] = "rename" => q \in disturbed'
    BY <1>7 DEF Step, Disturb, CheckpointInv
  <2> QED
    BY <1>7, <2>1, OtherStep
<1>8. ASSUME NEW p \in Procs,
             \/ RotateTwo(p) \/ RotateOne(p) \/ RotateActive(p) \/ DropSpare(p)
             \/ TruncateActive(p) \/ FillActive(p) \/ Crash(p)
      PROVE  CheckpointInv'
  <2>1. /\ \E from : \E to \in {"rotate1", "rotate0", "drop", "truncate", "fill", "idle"} :
             \E m : Step(p, from, to, m)
        /\ Disturb(p) /\ UNCHANGED checkpoints
    BY <1>8 DEF RotateTwo, RotateOne, RotateActive, RotateStep, DropSpare,
                TruncateActive, FillActive, Crash
  <2> QED
    BY <1>7, <2>1
<1> QED
  BY <1>1, <1>2, <1>3, <1>4, <1>5, <1>6, <1>8 DEF Next

(* The numbering holds of no checkpoints at all. *)
LEMMA CheckpointInit == Init => CheckpointInv
BY StoresAssumption DEF Init, CheckpointInv

(* Checkpoint numbers have no gap under any overlap and any crash. *)
THEOREM CheckpointsNumbered == Spec => []NoCheckpointGap
<1>1. CheckpointInv => NoCheckpointGap
  <2> SUFFICES ASSUME CheckpointInv PROVE NoCheckpointGap
    OBVIOUS
  <2>1. PICK n \in 0 .. MaxCheckpoints : checkpoints = 1 .. n
    BY DEF CheckpointInv
  <2>2. Cardinality(1 .. n) = n
    BY FS_Interval, StoresAssumption
  <2> QED
    BY <2>1, <2>2 DEF NoCheckpointGap
<1> QED
  BY CheckpointInit, CheckpointStep, <1>1, PTL DEF Spec

(* A create that nobody wrote into replaces no checkpoint. *)
THEOREM AloneCreatesNew == Spec => AloneIsNew
<1>1. CheckpointInv /\ [Next]_vars =>
        [\A p \in Procs :
           RenameCheckpoint(p) /\ p \notin disturbed => mem[p].id \notin checkpoints]_vars
  <2> SUFFICES ASSUME CheckpointInv, NEW p \in Procs, RenameCheckpoint(p), p \notin disturbed
               PROVE  mem[p].id \notin checkpoints
    OBVIOUS
  <2>1. PICK n \in 0 .. MaxCheckpoints :
          checkpoints = 1 .. n /\ (pc[p] = "rename" => mem[p].id = n + 1)
    BY DEF CheckpointInv
  <2>2. pc[p] = "rename"
    BY DEF RenameCheckpoint
  <2> QED
    BY <2>1, <2>2
<1> QED
  BY CheckpointInit, CheckpointStep, <1>1, PTL DEF Spec, AloneIsNew

-----------------------------------------------------------------------------
(* Numbers of events: what the greatest of a sequence is. *)

(* A set of naturals that is not empty has a least element. *)
LEMMA Least ==
  ASSUME NEW T, T \subseteq Nat, T # {}
  PROVE  \E x \in T : \A y \in T : x <= y
<1> DEFINE R == {ss \in Nat \X Nat : ss[1] < ss[2]}
<1>1. PICK x \in T : \A y \in T : ~ (<<y, x>> \in R)
  <2>1. IsWellFoundedOn(R, Nat)
    BY NatLessThanWellFounded DEF OpToRel
  <2> HIDE DEF R
  <2> QED
    BY <2>1, WFMin
<1>2. \A y \in T : <<y, x>> \in Nat \X Nat
  OBVIOUS
<1>3. \A y \in T : ~ (y < x)
  BY <1>1, <1>2
<1> QED
  BY <1>3

(* The highest number of a sequence is one of it, or zero, and bounds it. *)
LEMMA GreatestOfSeq ==
  ASSUME NEW s \in Seq(Nat)
  PROVE  Greatest(InSeq(s)) \in Nat /\ \A i \in DOMAIN s : s[i] <= Greatest(InSeq(s))
<1>1. Len(s) \in Nat /\ DOMAIN s = 1 .. Len(s) /\ \A i \in DOMAIN s : s[i] \in Nat
  OBVIOUS
<1> DEFINE S == InSeq(s) \cup {0}
           Tops(n) == {m \in S : \A i \in 1 .. n : s[i] <= m}
           T == {n \in 0 .. Len(s) : Tops(n) = {}}
<1>2. S \subseteq Nat
  BY <1>1 DEF InSeq
<1>3. T = {}
  <2> SUFFICES ASSUME T # {} PROVE FALSE
    OBVIOUS
  <2>1. PICK n \in T : \A y \in T : n <= y
    <3>1. T \subseteq Nat
      OBVIOUS
    <3> HIDE DEF T
    <3> QED
      BY <3>1, Least
  <2>2. n # 0
    <3>1. 0 \in Tops(0)
      BY DEF InSeq
    <3> QED
      BY <3>1
  <2>3. n - 1 \in 0 .. Len(s) /\ n - 1 \notin T
    <3>1. n \in 1 .. Len(s)
      BY <1>1, <2>1, <2>2
    <3>2. n - 1 \in T => n <= n - 1
      BY <2>1
    <3> QED
      BY <1>1, <3>1, <3>2
  <2>4. PICK m \in S : \A i \in 1 .. (n - 1) : s[i] <= m
    BY <2>3
  <2>5. n \in DOMAIN s /\ s[n] \in S
    <3>1. n \in 0 .. Len(s)
      BY <2>1
    <3> HIDE DEF T
    <3>2. n \in 1 .. Len(s)
      BY <1>1, <2>2, <3>1
    <3> QED
      BY <1>1, <3>2 DEF InSeq
  <2>6. CASE s[n] <= m
    <3>1. \A i \in 1 .. n : s[i] <= m
      BY <2>4, <2>5, <2>6, <1>1
    <3> QED
      BY <3>1, <2>4, <2>1
  <2>7. CASE ~ (s[n] <= m)
    <3>1. \A i \in 1 .. n : s[i] <= s[n]
      <4> TAKE i \in 1 .. n
      <4>1. i \in DOMAIN s
        BY <1>1, <2>1
      <4>2. m \in Nat /\ s[n] \in Nat /\ s[i] \in Nat
        BY <1>1, <1>2, <2>4, <2>5, <4>1
      <4>3. CASE i = n
        BY <4>2, <4>3
      <4>4. CASE i # n
        <5>1. s[i] <= m
          BY <2>4, <4>4, <2>1
        <5> QED
          BY <5>1, <4>2, <2>7
      <4> QED
        BY <4>3, <4>4
    <3> QED
      BY <3>1, <2>5, <2>1
  <2> QED
    BY <2>6, <2>7
<1>4. \E m \in S : \A i \in 1 .. Len(s) : s[i] <= m
  BY <1>1, <1>3
<1>5. \E m \in S : \A k \in InSeq(s) : k <= m
  BY <1>1, <1>4 DEF InSeq
<1>6. Greatest(InSeq(s)) \in S /\ \A k \in InSeq(s) : k <= Greatest(InSeq(s))
  BY <1>5 DEF Greatest
<1> QED
  BY <1>2, <1>6 DEF InSeq

-----------------------------------------------------------------------------
(* Lines in the order of their numbers. *)

Under(s, t) ==
  \A i \in DOMAIN s, j \in DOMAIN t : s[i] # Torn /\ t[j] # Torn => s[i] < t[j]

(* Three files in the order of their numbers, one after the other. *)
Sorted(a, b, c) ==
  /\ Increasing(a) /\ Increasing(b) /\ Increasing(c)
  /\ Under(a, b) /\ Under(a, c) /\ Under(b, c)

(* The places of two sequences in a row are those of the first, then those of
   the second. *)
LEMMA ConcatPlaces ==
  ASSUME NEW s \in Seq(Nat), NEW t \in Seq(Nat)
  PROVE  /\ Len(s) \in Nat /\ Len(t) \in Nat
         /\ DOMAIN s = 1 .. Len(s) /\ DOMAIN t = 1 .. Len(t)
         /\ DOMAIN (s \o t) = 1 .. (Len(s) + Len(t))
         /\ \A i \in DOMAIN s : i \in DOMAIN (s \o t) /\ (s \o t)[i] = s[i]
         /\ \A j \in DOMAIN t :
              Len(s) + j \in DOMAIN (s \o t) /\ (s \o t)[Len(s) + j] = t[j]
         /\ \A i \in DOMAIN (s \o t) :
              i \in DOMAIN s \/ \E j \in DOMAIN t : i = Len(s) + j
<1>1. /\ Len(s) \in Nat /\ Len(t) \in Nat /\ DOMAIN s = 1 .. Len(s) /\ DOMAIN t = 1 .. Len(t)
      /\ DOMAIN (s \o t) = 1 .. (Len(s) + Len(t))
  OBVIOUS
<1>2. /\ \A i \in DOMAIN s : i \in DOMAIN (s \o t) /\ (s \o t)[i] = s[i]
      /\ \A j \in DOMAIN t : Len(s) + j \in DOMAIN (s \o t) /\ (s \o t)[Len(s) + j] = t[j]
  BY <1>1
<1>3. \A i \in DOMAIN (s \o t) : i \in DOMAIN s \/ (\E j \in DOMAIN t : i = Len(s) + j)
  <2> TAKE i \in DOMAIN (s \o t)
  <2>1. CASE i <= Len(s)
    BY <1>1, <2>1
  <2>2. CASE i > Len(s)
    <3>1. i - Len(s) \in DOMAIN t /\ i = Len(s) + (i - Len(s))
      BY <1>1, <2>2
    <3> QED
      BY <3>1
  <2> QED
    BY <1>1, <2>1, <2>2
<1> QED
  BY <1>1, <1>2, <1>3

(* Two sequences in a row are in order when each is and the first is under the
   second. *)
LEMMA IncreasingConcat ==
  ASSUME NEW s \in Seq(Nat), NEW t \in Seq(Nat)
  PROVE  Increasing(s \o t) <=> Increasing(s) /\ Increasing(t) /\ Under(s, t)
<1> DEFINE st == s \o t
<1>1. /\ Len(s) \in Nat /\ Len(t) \in Nat /\ DOMAIN s = 1 .. Len(s) /\ DOMAIN t = 1 .. Len(t)
      /\ DOMAIN st = 1 .. (Len(s) + Len(t))
  BY ConcatPlaces
<1>2. /\ \A i \in DOMAIN s : i \in DOMAIN st /\ st[i] = s[i]
      /\ \A j \in DOMAIN t : Len(s) + j \in DOMAIN st /\ st[Len(s) + j] = t[j]
  BY ConcatPlaces
<1>3. \A i \in DOMAIN st : i \in DOMAIN s \/ (\E j \in DOMAIN t : i = Len(s) + j)
  BY ConcatPlaces
<1> HIDE DEF st
<1>4. ASSUME Increasing(st) PROVE Increasing(s) /\ Increasing(t) /\ Under(s, t)
  <2>1. Increasing(s)
    BY <1>2, <1>4 DEF Increasing
  <2>2. Increasing(t)
    <3> SUFFICES ASSUME NEW i \in DOMAIN t, NEW j \in DOMAIN t, i < j,
                        t[i] # Torn, t[j] # Torn
                 PROVE  t[i] < t[j]
      BY DEF Increasing
    <3>1. Len(s) + i < Len(s) + j
      BY <1>1
    <3> QED
      BY <1>2, <1>4, <3>1 DEF Increasing
  <2>3. Under(s, t)
    <3> SUFFICES ASSUME NEW i \in DOMAIN s, NEW j \in DOMAIN t, s[i] # Torn, t[j] # Torn
                 PROVE  s[i] < t[j]
      BY DEF Under
    <3>1. i < Len(s) + j
      BY <1>1
    <3> QED
      BY <1>2, <1>4, <3>1 DEF Increasing
  <2> QED
    BY <2>1, <2>2, <2>3
<1>5. ASSUME Increasing(s), Increasing(t), Under(s, t) PROVE Increasing(st)
  <2> SUFFICES ASSUME NEW i \in DOMAIN st, NEW j \in DOMAIN st, i < j,
                      st[i] # Torn, st[j] # Torn
               PROVE  st[i] < st[j]
    BY DEF Increasing
  <2>1. CASE i \in DOMAIN s /\ j \in DOMAIN s
    BY <1>2, <1>5, <2>1 DEF Increasing
  <2>2. CASE \E l \in DOMAIN t : i = Len(s) + l
    <3>1. PICK l \in DOMAIN t : i = Len(s) + l
      BY <2>2
    <3>2. PICK m \in DOMAIN t : j = Len(s) + m
      <4>1. j \notin DOMAIN s
        BY <1>1, <3>1
      <4> QED
        BY <1>3, <4>1
    <3>3. l < m
      BY <1>1, <3>1, <3>2
    <3> QED
      BY <1>2, <1>5, <3>1, <3>2, <3>3 DEF Increasing
  <2>3. CASE i \in DOMAIN s /\ \E m \in DOMAIN t : j = Len(s) + m
    BY <1>2, <1>5, <2>3 DEF Under
  <2> QED
    BY <1>3, <2>1, <2>2, <2>3
<1> QED
  BY <1>4, <1>5 DEF st

(* What is above two sequences is above them in a row. *)
LEMMA UnderConcat ==
  ASSUME NEW s \in Seq(Nat), NEW t \in Seq(Nat), NEW u
  PROVE  Under(s \o t, u) <=> Under(s, u) /\ Under(t, u)
<1> DEFINE st == s \o t
<1>1. /\ Len(s) \in Nat /\ Len(t) \in Nat /\ DOMAIN s = 1 .. Len(s) /\ DOMAIN t = 1 .. Len(t)
      /\ DOMAIN st = 1 .. (Len(s) + Len(t))
  BY ConcatPlaces
<1>2. /\ \A i \in DOMAIN s : i \in DOMAIN st /\ st[i] = s[i]
      /\ \A j \in DOMAIN t : Len(s) + j \in DOMAIN st /\ st[Len(s) + j] = t[j]
  BY ConcatPlaces
<1>3. \A i \in DOMAIN st : i \in DOMAIN s \/ (\E j \in DOMAIN t : i = Len(s) + j)
  BY ConcatPlaces
<1> HIDE DEF st
<1>4. Under(st, u) => Under(s, u) /\ Under(t, u)
  BY <1>2 DEF Under
<1>5. Under(s, u) /\ Under(t, u) => Under(st, u)
  BY <1>2, <1>3 DEF Under
<1> QED
  BY <1>4, <1>5 DEF st

(* Three files are sorted exactly when their lines in a row are in order. *)
LEMMA SortedConcat ==
  ASSUME NEW a \in Seq(Nat), NEW b \in Seq(Nat), NEW c \in Seq(Nat)
  PROVE  Sorted(a, b, c) <=> Increasing(a \o b \o c)
<1>1. a \o b \in Seq(Nat)
  OBVIOUS
<1>2. Increasing(a \o b \o c) <=> Increasing(a \o b) /\ Increasing(c) /\ Under(a \o b, c)
  BY <1>1, IncreasingConcat
<1>3. Increasing(a \o b) <=> Increasing(a) /\ Increasing(b) /\ Under(a, b)
  BY IncreasingConcat
<1>4. Under(a \o b, c) <=> Under(a, c) /\ Under(b, c)
  BY UnderConcat
<1> QED
  BY <1>2, <1>3, <1>4 DEF Sorted

-----------------------------------------------------------------------------
(* What the operations on files do to the lines of each. *)

(* The lines of a file are a sequence, of a file that does not exist too. *)
LEMMA LinesTyped ==
  ASSUME NEW j, IsJournal(j), NEW f
  PROVE  InFile(j, f) \in Seq(Nat)
BY DEF IsJournal, InFile

(* A rename moves the lines of one file to another. *)
LEMMA RenameLines ==
  ASSUME NEW from, NEW to, from # to, Rename(from, to), NEW f
  PROVE  InFile(journal', f) =
           IF from \in DOMAIN journal
           THEN IF f = to THEN Lines(from) ELSE IF f = from THEN <<>> ELSE Lines(f)
           ELSE Lines(f)
<1>1. CASE from \in DOMAIN journal
  <2>1. journal' = [g \in (DOMAIN journal \ {from}) \cup {to} |->
                      IF g = to THEN journal[from] ELSE journal[g]]
    BY <1>1 DEF Rename
  <2> QED
    BY <1>1, <2>1 DEF InFile, Lines
<1>2. CASE from \notin DOMAIN journal
  BY <1>2 DEF Rename, InFile, Lines
<1> QED
  BY <1>1, <1>2

(* A rename leaves a journal, and every open file among the files. *)
LEMMA RenameTyped ==
  ASSUME IsJournal(journal), open \in [Procs -> Files \cup {"none"}],
         NEW from \in Files, NEW to \in Files, Rename(from, to)
  PROVE  IsJournal(journal') /\ open' \in [Procs -> Files \cup {"none"}]
<1>1. CASE from \in DOMAIN journal
  <2>1. journal' = [g \in (DOMAIN journal \ {from}) \cup {to} |->
                      IF g = to THEN journal[from] ELSE journal[g]]
    BY <1>1 DEF Rename
  <2>2. IsJournal(journal')
    BY <1>1, <2>1 DEF IsJournal
  <2>3. open' \in [Procs -> Files \cup {"none"}]
    BY <1>1 DEF Rename
  <2> QED
    BY <2>2, <2>3
<1>2. CASE from \notin DOMAIN journal
  BY <1>2 DEF Rename
<1> QED
  BY <1>1, <1>2

(* Writing a file changes the lines of that file alone. *)
LEMMA WithFileLines ==
  ASSUME NEW file, NEW lines, NEW f
  PROVE  InFile(WithFile(file, lines), f) = IF f = file THEN lines ELSE Lines(f)
BY DEF WithFile, InFile, Lines

(* A journal with one file written is a journal. *)
LEMMA WithFileTyped ==
  ASSUME IsJournal(journal), NEW file \in Files, NEW lines \in Seq(Nat)
  PROVE  IsJournal(WithFile(file, lines))
BY DEF WithFile, IsJournal

(* What a write leaves behind are lines again; in an empty file they are the
   first of the content, and perhaps a fragment when it broke off. *)
LEMMA WrittenLines ==
  ASSUME IsJournal(journal), NEW file \in Files,
         NEW content \in Seq(Nat), NEW n \in 0 .. Len(content), WriteOver(file, content, n)
  PROVE  \E lines \in Seq(Nat) :
           /\ journal' = WithFile(file, lines)
           /\ Lines(file) = <<>> =>
                \/ lines = SubSeq(content, 1, n)
                \/ n < Len(content) /\ lines = SubSeq(content, 1, n) \o <<Torn>>
<1> DEFINE now == Lines(file)
           Result(torn, k) == SubSeq(content, 1, n) \o torn \o SubSeq(now, k, Len(now))
<1>1. PICK torn \in IF n = Len(content) /\ now = <<>> THEN {<<>>} ELSE {<<>>, <<Torn>>},
           k \in {i \in 1 .. Len(now) + 1 : n = 0 \/ now = <<>> \/ i > 1} :
             journal' = WithFile(file, Result(torn, k))
  BY Zenon DEF WriteOver
<1>2. now \in Seq(Nat)
  BY LinesTyped DEF Lines
<1> HIDE DEF now
<1>3. Len(content) \in Nat /\ Len(now) \in Nat /\ \A i \in 1 .. n : content[i] \in Nat
  BY <1>2
<1>4. SubSeq(content, 1, n) \in Seq(Nat)
  BY <1>3, SubSeqProperties
<1>5. torn \in Seq(Nat) /\ (torn = <<>> \/ torn = <<Torn>>)
  <2>1. torn = <<>> \/ torn = <<Torn>>
    BY <1>1
  <2>2. <<>> \in Seq(Nat) /\ <<Torn>> \in Seq(Nat)
    BY DEF Torn
  <2> QED
    BY <2>1, <2>2
<1>6. SubSeq(now, k, Len(now)) \in Seq(Nat)
  <2>1. \A i \in k .. Len(now) : now[i] \in Nat
    BY <1>2, <1>3
  <2> QED
    BY <1>3, <2>1, SubSeqProperties
<1>7. now = <<>> => SubSeq(now, k, Len(now)) = <<>>
  BY SubSeqEmpty
<1>8. SubSeq(content, 1, n) \o torn \in Seq(Nat)
  BY <1>4, <1>5
<1>9. now = <<>> => Result(torn, k) = SubSeq(content, 1, n) \o torn
  BY <1>7, <1>8, ConcatEmptySeq
<1>10. SubSeq(content, 1, n) \o <<>> = SubSeq(content, 1, n)
  BY <1>4, ConcatEmptySeq
<1>11. n # Len(content) => n < Len(content)
  BY <1>3
<1>12. now = <<>> /\ n = Len(content) => torn = <<>>
  BY <1>1
<1>13. Result(torn, k) \in Seq(Nat)
  BY <1>6, <1>8
<1> HIDE DEF Result
<1> QED
  BY <1>1, <1>5, <1>9, <1>10, <1>11, <1>12, <1>13 DEF now

-----------------------------------------------------------------------------
(* Types. *)

(* What a process has in mind has the types its place calls for. *)
MemTyped ==
  /\ pc \in [Procs -> {"idle", "rename", "seq"} \cup Writing]
  /\ DOMAIN mem = Procs
  /\ \A p \in Procs :
       /\ pc[p] \in Writing => mem[p].seq \in Nat
       /\ pc[p] \in Writing \ {"append"} => mem[p].content \in Seq(Nat)

TypeInv ==
  /\ MemTyped
  /\ IsJournal(journal)
  /\ open \in [Procs -> Files \cup {"none"}]
  /\ appends \in 0 .. MaxAppends
  /\ raced \in BOOLEAN
  /\ disturbed \subseteq Procs

(* A step keeps the types of memories when what it remembers has them. *)
LEMMA StepTyped ==
  ASSUME MemTyped, NEW p \in Procs, NEW from,
         NEW to \in {"idle", "rename", "seq"} \cup Writing, NEW memory,
         Step(p, from, to, memory),
         to \in Writing => memory.seq \in Nat,
         to \in Writing \ {"append"} => memory.content \in Seq(Nat)
  PROVE  MemTyped'
<1>1. pc' = [pc EXCEPT ![p] = to] /\ mem' = [mem EXCEPT ![p] = memory]
  BY DEF Step
<1>2. pc' \in [Procs -> {"idle", "rename", "seq"} \cup Writing] /\ DOMAIN mem' = Procs
  BY <1>1 DEF MemTyped
<1>3. \A q \in Procs :
        /\ pc'[q] \in Writing => mem'[q].seq \in Nat
        /\ pc'[q] \in Writing \ {"append"} => mem'[q].content \in Seq(Nat)
  <2> TAKE q \in Procs
  <2>1. CASE q = p
    BY <1>1, <2>1 DEF MemTyped
  <2>2. CASE q # p
    BY <1>1, <2>2 DEF MemTyped
  <2> QED
    BY <2>1, <2>2
<1> QED
  BY <1>2, <1>3 DEF MemTyped

(* The number of the next event is a natural above all lines. *)
LEMMA NextIsAbove ==
  ASSUME IsJournal(journal)
  PROVE  /\ NextSeq \in Nat /\ History \in Seq(Nat)
         /\ \A i \in DOMAIN History : History[i] < NextSeq
<1>1. Lines("two") \in Seq(Nat) /\ Lines("one") \in Seq(Nat) /\ Lines("active") \in Seq(Nat)
  BY LinesTyped DEF Lines
<1>2. History = Lines("two") \o Lines("one") \o Lines("active")
  BY DEF History, Readable, Lines
<1>3. History \in Seq(Nat)
  BY <1>1, <1>2
<1>4. \A i \in DOMAIN History : History[i] \in Nat
  BY <1>3
<1> HIDE DEF History
<1>5. Greatest(InSeq(History)) \in Nat
      /\ \A i \in DOMAIN History : History[i] <= Greatest(InSeq(History))
  BY <1>3, GreatestOfSeq
<1> QED
  BY <1>3, <1>4, <1>5 DEF NextSeq

(* Every step keeps the types. *)
LEMMA TypeStep ==
  ASSUME TypeInv, [Next]_vars
  PROVE  TypeInv'
<1> USE StoresAssumption
<1>1. ASSUME UNCHANGED vars PROVE TypeInv'
  BY <1>1 DEF TypeInv, MemTyped, IsJournal, vars, stores
<1>2. ASSUME NEW p \in Procs, NumberCheckpoint(p) \/ BeginAppend(p) PROVE TypeInv'
  <2>1. /\ \E from : \E to \in {"rename", "seq"} : \E m : Step(p, from, to, m)
        /\ Reads(p)
    BY <1>2 DEF NumberCheckpoint, BeginAppend
  <2>2. MemTyped'
    BY <2>1, StepTyped DEF TypeInv, Writing
  <2> QED
    BY <2>1, <2>2 DEF TypeInv, Reads, stores
<1>3. ASSUME NEW p \in Procs, RenameCheckpoint(p) PROVE TypeInv'
  <2>1. MemTyped'
    BY <1>3, StepTyped DEF TypeInv, RenameCheckpoint, Writing
  <2> QED
    BY <1>3, <2>1 DEF TypeInv, RenameCheckpoint, Disturb
<1>4. ASSUME NEW p \in Procs, NumberEvent(p) PROVE TypeInv'
  <2>1. NextSeq \in Nat
    BY NextIsAbove DEF TypeInv
  <2>2. Step(p, "seq", "append", [seq |-> NextSeq, before |-> journal])
    BY <1>4 DEF NumberEvent
  <2>3. MemTyped'
    BY <2>1, <2>2, StepTyped DEF TypeInv, Writing
  <2>4. appends' \in 0 .. MaxAppends /\ raced' \in BOOLEAN /\ disturbed' \subseteq Procs
    BY <1>4 DEF TypeInv, NumberEvent
  <2> QED
    BY <1>4, <2>3, <2>4 DEF TypeInv, NumberEvent, stores
<1>5. ASSUME NEW p \in Procs, ReadActive(p) PROVE TypeInv'
  <2>1. mem[p].seq \in Nat
    BY <1>5 DEF TypeInv, MemTyped, ReadActive, Writing
  <2>2. Lines("active") \in Seq(Nat)
    BY LinesTyped DEF Lines, TypeInv
  <2>3. \E to \in {"rotate2", "truncate"} : \E m :
          Step(p, "append", to, m) /\ m.seq \in Nat /\ m.content \in Seq(Nat)
    <3>1. CASE Full(Lines("active"))
      <4> DEFINE m == [seq |-> mem[p].seq, before |-> mem[p].before,
                       content |-> <<mem[p].seq>>]
      <4>1. Step(p, "append", "rotate2", m)
        BY <1>5, <3>1 DEF ReadActive
      <4>2. m.seq \in Nat /\ m.content \in Seq(Nat)
        BY <2>1
      <4> HIDE DEF m
      <4> QED
        BY <4>1, <4>2
    <3>2. CASE ~Full(Lines("active"))
      <4> DEFINE m == [seq |-> mem[p].seq, before |-> mem[p].before,
                       content |-> Append(Lines("active"), mem[p].seq)]
      <4>1. Step(p, "append", "truncate", m)
        BY <1>5, <3>2 DEF ReadActive
      <4>2. m.seq \in Nat /\ m.content \in Seq(Nat)
        BY <2>1, <2>2
      <4> HIDE DEF m
      <4> QED
        BY <4>1, <4>2
    <3> QED
      BY <3>1, <3>2
  <2>4. MemTyped'
    BY <2>3, StepTyped DEF TypeInv, Writing
  <2> QED
    BY <1>5, <2>4 DEF TypeInv, ReadActive, Reads, stores
<1>6. ASSUME NEW p \in Procs, RotateTwo(p) \/ RotateOne(p) \/ RotateActive(p) PROVE TypeInv'
  <2>1. PICK at \in {"rotate2", "rotate1", "rotate0"}, next \in {"rotate1", "rotate0", "drop"},
             from \in Files, to \in Files : RotateStep(p, at, next, from, to)
    BY <1>6 DEF RotateTwo, RotateOne, RotateActive, Files
  <2>2. mem[p].seq \in Nat /\ mem[p].content \in Seq(Nat)
    BY <2>1 DEF TypeInv, MemTyped, RotateStep, Step, Writing
  <2>3. MemTyped'
    BY <2>1, <2>2, StepTyped DEF TypeInv, RotateStep, Writing
  <2>4. IsJournal(journal') /\ open' \in [Procs -> Files \cup {"none"}]
    BY <2>1, RenameTyped DEF TypeInv, RotateStep
  <2> QED
    BY <2>1, <2>3, <2>4 DEF TypeInv, RotateStep, Disturb, IsJournal
<1>7. ASSUME NEW p \in Procs, DropSpare(p) PROVE TypeInv'
  <2>1. mem[p].seq \in Nat /\ mem[p].content \in Seq(Nat) /\ Step(p, "drop", "truncate", mem[p])
    BY <1>7 DEF TypeInv, MemTyped, DropSpare, Step, Writing
  <2>2. MemTyped'
    BY <2>1, StepTyped DEF TypeInv, Writing
  <2>3. IsJournal(journal')
    BY <1>7 DEF TypeInv, DropSpare, IsJournal
  <2>4. open' \in [Procs -> Files \cup {"none"}]
    BY <1>7 DEF TypeInv, DropSpare
  <2> QED
    BY <1>7, <2>2, <2>3, <2>4 DEF TypeInv, DropSpare, Disturb, IsJournal
<1>8. ASSUME NEW p \in Procs, TruncateActive(p) PROVE TypeInv'
  <2>1. mem[p].seq \in Nat /\ mem[p].content \in Seq(Nat) /\ Step(p, "truncate", "fill", mem[p])
    BY <1>8 DEF TypeInv, MemTyped, TruncateActive, Step, Writing
  <2>2. MemTyped'
    BY <2>1, StepTyped DEF TypeInv, Writing
  <2>3. IsJournal(journal')
    <3>1. <<>> \in Seq(Nat) /\ "active" \in Files
      BY DEF Files
    <3> QED
      BY <1>8, <3>1, WithFileTyped DEF TypeInv, TruncateActive
  <2>4. open' \in [Procs -> Files \cup {"none"}]
    BY <1>8 DEF TypeInv, TruncateActive, Files
  <2> QED
    BY <1>8, <2>2, <2>3, <2>4 DEF TypeInv, TruncateActive, Disturb, IsJournal
<1>9. ASSUME NEW p \in Procs, FillActive(p) \/ Crash(p) PROVE TypeInv'
  <2>1. \E from : Step(p, from, "idle", Nothing)
    BY <1>9 DEF FillActive, Crash
  <2>2. MemTyped'
    BY <2>1, StepTyped DEF TypeInv, Writing
  <2>3. IsJournal(journal')
    <3>1. CASE journal' = journal
      BY <3>1 DEF TypeInv, IsJournal
    <3>2. CASE pc[p] = "fill" /\ open[p] # "none"
               /\ \E n \in 0 .. Len(mem[p].content) : WriteOver(open[p], mem[p].content, n)
      <4>1. PICK n \in 0 .. Len(mem[p].content) : WriteOver(open[p], mem[p].content, n)
        BY <3>2
      <4>2. mem[p].content \in Seq(Nat) /\ open[p] \in Files
        BY <3>2 DEF TypeInv, MemTyped, Writing
      <4>3. \E lines \in Seq(Nat) : journal' = WithFile(open[p], lines)
        BY <4>1, <4>2, WrittenLines DEF TypeInv
      <4> QED
        BY <4>2, <4>3, WithFileTyped DEF TypeInv
    <3>3. mem[p].content \in Seq(Nat) => Len(mem[p].content) \in 0 .. Len(mem[p].content)
      OBVIOUS
    <3>4. pc[p] = "fill" => mem[p].content \in Seq(Nat)
      BY DEF TypeInv, MemTyped, Writing
    <3> QED
      BY <1>9, <3>1, <3>2, <3>3, <3>4 DEF FillActive, Crash, Step
  <2>4. open' \in [Procs -> Files \cup {"none"}]
    BY <1>9 DEF TypeInv, FillActive, Crash
  <2>5. disturbed' \subseteq Procs /\ appends' = appends /\ raced' = raced
    BY <1>9 DEF FillActive, Crash, Disturb
  <2> QED
    BY <2>2, <2>3, <2>4, <2>5 DEF TypeInv, IsJournal
<1> QED
  BY <1>1, <1>2, <1>3, <1>4, <1>5, <1>6, <1>7, <1>8, <1>9 DEF Next

(* The types hold at the start. *)
LEMMA TypeInit == Init => TypeInv
<1> SUFFICES ASSUME Init PROVE TypeInv
  OBVIOUS
<1>1. IsJournal(journal)
  BY StoresAssumption DEF Init
<1>2. MemTyped
  BY DEF Init, MemTyped, Writing
<1>3. open \in [Procs -> Files \cup {"none"}] /\ raced \in BOOLEAN /\ disturbed \subseteq Procs
  BY DEF Init
<1>4. appends \in 0 .. MaxAppends
  BY StoresAssumption DEF Init
<1> QED
  BY <1>1, <1>2, <1>3, <1>4 DEF TypeInv

(* The stores keep their types under any overlap and any crash. *)
THEOREM StoresTyped == Spec => []TypeOK
<1>1. CheckpointInv /\ TypeInv => TypeOK
  <2> SUFFICES ASSUME CheckpointInv, TypeInv PROVE TypeOK
    OBVIOUS
  <2>1. checkpoints \subseteq 1 .. MaxCheckpoints
    BY StoresAssumption DEF CheckpointInv
  <2> QED
    BY <2>1 DEF TypeInv, MemTyped, TypeOK
<1> QED
  BY CheckpointInit, CheckpointStep, TypeInit, TypeStep, <1>1, PTL DEF Spec

-----------------------------------------------------------------------------
(* An append that nobody wrote into. *)

(* The lines of a file when p numbered its event. *)
Was(p, file) == InFile(mem[p].before, file)

Rotating(p) == Full(Was(p, "active")) /\ mem[p].content = <<mem[p].seq>>

(* The rotation is over: each file holds what the younger one held. *)
Moved(p) == Rotating(p) /\ Lines("two") = Was(p, "one") /\ Lines("one") = Was(p, "active")

(* No rotation was due: the content is the active file and one more line. *)
Added(p) ==
  /\ mem[p].content = Append(Was(p, "active"), mem[p].seq)
  /\ Lines("two") = Was(p, "two") /\ Lines("one") = Was(p, "one")

(* How far p has moved what it found. *)
Kept(p) ==
  /\ IsJournal(mem[p].before)
  /\ pc[p] = "append" =>
       \A f \in {"active", "one", "two"} : Lines(f) = Was(p, f)
  /\ pc[p] \in {"rotate2", "rotate1"} =>
       Rotating(p) /\ Lines("one") = Was(p, "one") /\ Lines("active") = Was(p, "active")
  /\ pc[p] = "rotate1" => Lines("two") = <<>>
  /\ pc[p] = "rotate0" =>
       /\ Rotating(p) /\ Lines("two") = Was(p, "one")
       /\ Lines("one") = <<>> /\ Lines("active") = Was(p, "active")
  /\ pc[p] = "drop" => Moved(p)
  /\ pc[p] \in {"truncate", "fill"} => Moved(p) \/ Added(p)
  /\ pc[p] = "fill" => open[p] = "active" /\ Lines("active") = <<>>

AloneInv == \A p \in Procs : pc[p] \in Writing /\ p \notin disturbed => Kept(p)

(* A rename leaves nothing under the old name, and under the new one what the
   old one named, if it named anything. *)
LEMMA RenameMoves ==
  ASSUME NEW from, NEW to, from # to, Rename(from, to)
  PROVE  /\ InFile(journal', from) = <<>>
         /\ InFile(journal', to) = Lines(from) \/ InFile(journal', to) = Lines(to)
         /\ Lines(to) = <<>> => InFile(journal', to) = Lines(from)
         /\ \A f : f # from /\ f # to => InFile(journal', f) = Lines(f)
         /\ InFile(journal', to) # Lines(from) => Lines(from) = <<>>
<1>1. \A f : InFile(journal', f) =
        IF from \in DOMAIN journal
        THEN IF f = to THEN Lines(from) ELSE IF f = from THEN <<>> ELSE Lines(f)
        ELSE Lines(f)
  BY RenameLines
<1>2. from \notin DOMAIN journal => Lines(from) = <<>>
  BY DEF Lines, InFile
<1> QED
  BY <1>1, <1>2

(* A step of another process leaves p's command alone or disturbs it. *)
LEMMA OthersKeep ==
  ASSUME TypeInv, NEW p \in Procs, NEW q \in Procs, p # q,
         \/ NumberCheckpoint(q) \/ RenameCheckpoint(q)
         \/ BeginAppend(q) \/ NumberEvent(q) \/ ReadActive(q)
         \/ RotateTwo(q) \/ RotateOne(q) \/ RotateActive(q) \/ DropSpare(q)
         \/ TruncateActive(q) \/ FillActive(q)
         \/ Crash(q),
         pc'[p] \in Writing, p \notin disturbed'
  PROVE  /\ pc'[p] = pc[p] /\ mem'[p] = mem[p] /\ p \notin disturbed
         /\ UNCHANGED <<journal, open>>
<1>1. pc'[p] = pc[p] /\ mem'[p] = mem[p]
  <2>1. \E from : \E to : \E m : Step(q, from, to, m)
    BY DEF NumberCheckpoint, RenameCheckpoint, BeginAppend, NumberEvent, ReadActive,
           RotateTwo, RotateOne, RotateActive, RotateStep, DropSpare, TruncateActive,
           FillActive, Crash
  <2> QED
    BY <2>1 DEF Step, TypeInv, MemTyped
<1>2. ~Disturb(q)
  BY DEF Disturb, Writing
<1>3. Reads(q) \/ NumberEvent(q)
  BY <1>2 DEF NumberCheckpoint, RenameCheckpoint, BeginAppend, ReadActive,
              RotateTwo, RotateOne, RotateActive, RotateStep, DropSpare, TruncateActive,
              FillActive, Crash
<1>4. p \notin disturbed /\ UNCHANGED <<journal, open>>
  BY <1>3 DEF Reads, NumberEvent, stores
<1> QED
  BY <1>1, <1>4

(* p's own step, when it is not disturbed in it. *)
LEMMA OwnStep ==
  ASSUME TypeInv, NEW p \in Procs, NEW from, NEW to \in Writing, NEW memory,
         Step(p, from, to, memory), p \notin disturbed',
         Reads(p) \/ Disturb(p)
  PROVE  pc[p] = from /\ pc'[p] = to /\ mem'[p] = memory /\ p \notin disturbed
<1>1. pc[p] = from /\ pc'[p] = to /\ mem'[p] = memory
  BY DEF Step, TypeInv, MemTyped
<1>2. p \notin disturbed
  BY <1>1 DEF Reads, Disturb, Writing
<1> QED
  BY <1>1, <1>2

(* Every step keeps what undisturbed processes know of the journal. *)
LEMMA AloneStep ==
  ASSUME TypeInv, AloneInv, [Next]_vars
  PROVE  AloneInv'
<1> SUFFICES ASSUME NEW p \in Procs, pc'[p] \in Writing, p \notin disturbed'
             PROVE  Kept(p)'
  BY DEF AloneInv
<1>1. CASE UNCHANGED vars
  BY <1>1 DEF AloneInv, vars, stores, Kept, Moved, Added, Rotating, Was, Lines
<1>2. ASSUME NEW q \in Procs, q # p,
             \/ NumberCheckpoint(q) \/ RenameCheckpoint(q)
             \/ BeginAppend(q) \/ NumberEvent(q) \/ ReadActive(q)
             \/ RotateTwo(q) \/ RotateOne(q) \/ RotateActive(q) \/ DropSpare(q)
             \/ TruncateActive(q) \/ FillActive(q)
             \/ Crash(q)
      PROVE  Kept(p)'
  <2>1. /\ pc'[p] = pc[p] /\ mem'[p] = mem[p] /\ p \notin disturbed
        /\ journal' = journal /\ open' = open
    BY <1>2, OthersKeep
  <2>2. Kept(p)
    BY <2>1 DEF AloneInv
  <2> QED
    BY <2>1, <2>2 DEF Kept, Moved, Added, Rotating, Was, Lines
<1>3. CASE NumberEvent(p)
  <2>1. /\ pc'[p] = "append" /\ mem'[p] = [seq |-> NextSeq, before |-> journal]
        /\ journal' = journal
    BY <1>3 DEF NumberEvent, Step, TypeInv, MemTyped, stores
  <2>2. mem'[p].before = journal
    BY <2>1
  <2>3. IsJournal(journal)
    BY DEF TypeInv
  <2> QED
    BY <2>1, <2>2, <2>3 DEF Kept, Was, Lines
<1>4. CASE ReadActive(p)
  <2>1. p \notin disturbed /\ pc[p] = "append" /\ journal' = journal
    BY <1>4 DEF ReadActive, Step, Reads, stores, TypeInv, MemTyped, Writing
  <2>2. Kept(p)
    BY <2>1 DEF AloneInv, Writing
  <2>3. CASE Full(Lines("active"))
    <3>1. /\ pc'[p] = "rotate2"
          /\ mem'[p] = [seq |-> mem[p].seq, before |-> mem[p].before,
                        content |-> <<mem[p].seq>>]
      BY <1>4, <2>3 DEF ReadActive, Step, TypeInv, MemTyped
    <3>2. mem'[p].before = mem[p].before /\ mem'[p].content = <<mem'[p].seq>>
      BY <3>1
    <3> QED
      BY <2>1, <2>2, <2>3, <3>1, <3>2 DEF Kept, Rotating, Was, Lines
  <2>4. CASE ~Full(Lines("active"))
    <3>1. /\ pc'[p] = "truncate"
          /\ mem'[p] = [seq |-> mem[p].seq, before |-> mem[p].before,
                        content |-> Append(Lines("active"), mem[p].seq)]
      BY <1>4, <2>4 DEF ReadActive, Step, TypeInv, MemTyped
    <3>2. /\ mem'[p].before = mem[p].before
          /\ mem'[p].content = Append(Lines("active"), mem'[p].seq)
      BY <3>1
    <3> QED
      BY <2>1, <2>2, <3>1, <3>2 DEF Kept, Added, Was, Lines
  <2> QED
    BY <2>3, <2>4
<1>5. CASE RotateTwo(p)
  <2>1. pc[p] = "rotate2" /\ pc'[p] = "rotate1" /\ mem'[p] = mem[p] /\ p \notin disturbed
    BY <1>5, OwnStep DEF RotateTwo, RotateStep, Writing
  <2>2. Kept(p)
    BY <2>1 DEF AloneInv, Writing
  <2>3. /\ InFile(journal', "two") = <<>>
        /\ InFile(journal', "one") = Lines("one")
        /\ InFile(journal', "active") = Lines("active")
    BY <1>5, RenameMoves DEF RotateTwo, RotateStep
  <2> QED
    BY <2>1, <2>2, <2>3 DEF Kept, Rotating, Was, Lines
<1>6. CASE RotateOne(p)
  <2>1. pc[p] = "rotate1" /\ pc'[p] = "rotate0" /\ mem'[p] = mem[p] /\ p \notin disturbed
    BY <1>6, OwnStep DEF RotateOne, RotateStep, Writing
  <2>2. Kept(p)
    BY <2>1 DEF AloneInv, Writing
  <2>3. Lines("two") = <<>>
    BY <2>1, <2>2 DEF Kept
  <2>4. /\ InFile(journal', "two") = Lines("one")
        /\ InFile(journal', "one") = <<>>
        /\ InFile(journal', "active") = Lines("active")
    BY <1>6, <2>3, RenameMoves DEF RotateOne, RotateStep
  <2> QED
    BY <2>1, <2>2, <2>4 DEF Kept, Rotating, Was, Lines
<1>7. CASE RotateActive(p)
  <2>1. pc[p] = "rotate0" /\ pc'[p] = "drop" /\ mem'[p] = mem[p] /\ p \notin disturbed
    BY <1>7, OwnStep DEF RotateActive, RotateStep, Writing
  <2>2. Kept(p)
    BY <2>1 DEF AloneInv, Writing
  <2>3. Lines("one") = <<>>
    BY <2>1, <2>2 DEF Kept
  <2>4. /\ InFile(journal', "two") = Lines("two")
        /\ InFile(journal', "one") = Lines("active")
    BY <1>7, <2>3, RenameMoves DEF RotateActive, RotateStep
  <2> QED
    BY <2>1, <2>2, <2>4 DEF Kept, Moved, Rotating, Was, Lines
<1>8. CASE DropSpare(p)
  <2>1. pc[p] = "drop" /\ pc'[p] = "truncate" /\ mem'[p] = mem[p] /\ p \notin disturbed
    BY <1>8, OwnStep DEF DropSpare, Writing
  <2>2. Kept(p)
    BY <2>1 DEF AloneInv, Writing
  <2>3. \A f : f # "spare" => InFile(journal', f) = Lines(f)
    BY <1>8 DEF DropSpare, InFile, Lines
  <2>4. InFile(journal', "two") = Lines("two") /\ InFile(journal', "one") = Lines("one")
    BY <2>3
  <2> QED
    BY <2>1, <2>2, <2>4 DEF Kept, Moved, Rotating, Was, Lines
<1>9. CASE TruncateActive(p)
  <2>1. pc[p] = "truncate" /\ pc'[p] = "fill" /\ mem'[p] = mem[p] /\ p \notin disturbed
    BY <1>9, OwnStep DEF TruncateActive, Writing
  <2>2. Kept(p)
    BY <2>1 DEF AloneInv, Writing
  <2>3. journal' = WithFile("active", <<>>) /\ open'[p] = "active"
    BY <1>9 DEF TruncateActive, TypeInv
  <2>4. /\ InFile(journal', "two") = Lines("two") /\ InFile(journal', "one") = Lines("one")
        /\ InFile(journal', "active") = <<>>
    BY <2>3, WithFileLines
  <2> QED
    BY <2>1, <2>2, <2>3, <2>4 DEF Kept, Moved, Added, Rotating, Was, Lines
<1>10. ASSUME \/ NumberCheckpoint(p) \/ RenameCheckpoint(p) \/ BeginAppend(p)
              \/ FillActive(p) \/ Crash(p)
       PROVE  FALSE
  <2>1. \E from : \E to \in {"idle", "rename", "seq"} : \E m : Step(p, from, to, m)
    BY <1>10 DEF NumberCheckpoint, RenameCheckpoint, BeginAppend, FillActive, Crash
  <2> QED
    BY <2>1 DEF Step, TypeInv, MemTyped, Writing
<1> QED
  BY <1>1, <1>2, <1>3, <1>4, <1>5, <1>6, <1>7, <1>8, <1>9, <1>10 DEF Next

(* At the start nobody writes. *)
LEMMA AloneInit == Init => AloneInv
BY DEF Init, AloneInv, Writing

(* An append that nobody wrote into adds its event and loses nothing but the
   oldest rotation. *)
THEOREM AloneAppendsWhole == Spec => AloneAppends
<1>1. TypeInv /\ AloneInv /\ [Next]_vars =>
        [\A p \in Procs :
           FillActive(p) /\ p \notin disturbed =>
             LET was(file) == InFile(mem[p].before, file)
             IN  \/ History' = Append(Readable(mem[p].before), mem[p].seq)
                 \/ /\ Full(was("active"))
                    /\ History' = Append(was("one") \o was("active"), mem[p].seq)]_vars
  <2> SUFFICES ASSUME TypeInv, AloneInv, NEW p \in Procs, FillActive(p), p \notin disturbed
               PROVE  \/ History' = Append(Readable(mem[p].before), mem[p].seq)
                      \/ /\ Full(Was(p, "active"))
                         /\ History' = Append(Was(p, "one") \o Was(p, "active"), mem[p].seq)
    BY DEF Was
  <2>1. pc[p] = "fill"
    BY DEF FillActive, Step
  <2>2. Kept(p) /\ mem[p].seq \in Nat /\ mem[p].content \in Seq(Nat)
    BY <2>1 DEF AloneInv, TypeInv, MemTyped, Writing
  <2>3. open[p] = "active" /\ Lines("active") = <<>> /\ (Moved(p) \/ Added(p))
    BY <2>1, <2>2 DEF Kept
  <2>4. PICK lines \in Seq(Nat) : journal' = WithFile("active", lines) /\ lines = mem[p].content
    <3>1. WriteOver("active", mem[p].content, Len(mem[p].content))
      BY <2>3 DEF FillActive
    <3>2. "active" \in Files /\ Len(mem[p].content) \in 0 .. Len(mem[p].content)
      BY <2>2 DEF Files
    <3>3. IsJournal(journal)
      BY DEF TypeInv
    <3>4. PICK lines \in Seq(Nat) :
            /\ journal' = WithFile("active", lines)
            /\ \/ lines = SubSeq(mem[p].content, 1, Len(mem[p].content))
               \/ Len(mem[p].content) < Len(mem[p].content)
      BY <2>2, <2>3, <3>1, <3>2, <3>3, WrittenLines
    <3>5. lines = mem[p].content
      <4>1. SubSeq(mem[p].content, 1, Len(mem[p].content)) = mem[p].content
        BY <2>2, SubSeqFull
      <4>2. ~ (Len(mem[p].content) < Len(mem[p].content))
        BY <2>2
      <4> QED
        BY <3>4, <4>1, <4>2
    <3> QED
      BY <3>4, <3>5
  <2>5. History' = Lines("two") \o Lines("one") \o mem[p].content
    <3>1. /\ InFile(journal', "two") = Lines("two") /\ InFile(journal', "one") = Lines("one")
          /\ InFile(journal', "active") = mem[p].content
      BY <2>4, WithFileLines
    <3> QED
      BY <3>1 DEF History, Readable
  <2>6. \A f : Was(p, f) \in Seq(Nat)
    BY <2>2, LinesTyped DEF Was, Kept
  <2> DEFINE a == Was(p, "active")
             b == Was(p, "one")
             c == Was(p, "two")
             e == mem[p].seq
  <2>7. a \in Seq(Nat) /\ b \in Seq(Nat) /\ c \in Seq(Nat) /\ e \in Nat
    BY <2>2, <2>6
  <2>8. Readable(mem[p].before) = c \o b \o a
    BY DEF Readable, Was
  <2>9. \A s \in Seq(Nat) : s \o <<e>> = Append(s, e) /\ s \o Append(a, e) = Append(s \o a, e)
    BY <2>7
  <2>10. CASE Moved(p)
    <3>1. History' = b \o a \o <<e>> /\ Full(a)
      BY <2>5, <2>10 DEF Moved, Rotating
    <3>2. b \o a \in Seq(Nat)
      BY <2>7
    <3> HIDE DEF a, b, c, e
    <3>3. History' = Append(b \o a, e)
      BY <2>9, <3>1, <3>2
    <3> QED
      BY <3>1, <3>3 DEF a, b, e
  <2>11. CASE Added(p)
    <3>1. History' = c \o b \o Append(a, e)
      BY <2>5, <2>11 DEF Added
    <3>2. c \o b \in Seq(Nat)
      BY <2>7
    <3> HIDE DEF a, b, c, e
    <3>3. History' = Append(c \o b \o a, e)
      BY <2>9, <3>1, <3>2
    <3> QED
      BY <2>8, <3>3 DEF e
  <2> QED
    BY <2>3, <2>10, <2>11
<1>2. TypeInv /\ AloneInv /\ [Next]_vars => (TypeInv /\ AloneInv)'
  BY TypeStep, AloneStep
<1>3. Init => TypeInv /\ AloneInv
  BY TypeInit, AloneInit
<1> QED
  BY <1>1, <1>2, <1>3, PTL DEF Spec, AloneAppends

-----------------------------------------------------------------------------
(* Appends that have not overlapped. *)

(* What the writer will add belongs behind all lines, and fits. *)
Ready(p) ==
  /\ \A f \in {"active", "one", "two"} : Under(Lines(f), <<mem[p].seq>>)
  /\ pc[p] \in {"rotate2", "rotate1", "rotate0", "drop"} => mem[p].content = <<mem[p].seq>>
  /\ pc[p] \in {"truncate", "fill"} =>
       /\ Len(mem[p].content) <= RotateLines
       /\ Sorted(Lines("two"), Lines("one"), mem[p].content)
  /\ pc[p] = "fill" => open[p] = "active" /\ Lines("active") = <<>>

(* One process writes at a time, and the files fit and are sorted. *)
OrderInv ==
  ~raced =>
    /\ \A p, q \in Procs : pc[p] \in Writing /\ pc[q] \in Writing => p = q
    /\ Bounded(journal)
    /\ Sorted(Lines("two"), Lines("one"), Lines("active"))
    /\ \A p \in Procs : pc[p] \in Writing => Ready(p)

(* No lines, and a fragment, are in order anywhere. *)
LEMMA NothingSorted ==
  ASSUME NEW s
  PROVE  /\ Increasing(<<>>) /\ Under(<<>>, s) /\ Under(s, <<>>)
         /\ Increasing(<<Torn>>) /\ Under(s, <<Torn>>)
BY DEF Increasing, Under

(* One line is in order. *)
LEMMA OneSorted ==
  ASSUME NEW n \in Nat
  PROVE  Increasing(<<n>>)
BY DEF Increasing

(* What is below two sequences is below them in a row. *)
LEMMA ConcatUnder ==
  ASSUME NEW s, NEW t \in Seq(Nat), NEW u \in Seq(Nat), Under(s, t), Under(s, u)
  PROVE  Under(s, t \o u)
<1> SUFFICES ASSUME NEW i \in DOMAIN s, NEW k \in DOMAIN (t \o u), s[i] # Torn,
                    (t \o u)[k] # Torn
             PROVE  s[i] < (t \o u)[k]
  BY DEF Under
<1>1. CASE k \in DOMAIN t
  <2>1. (t \o u)[k] = t[k]
    BY <1>1, ConcatPlaces
  <2> QED
    BY <1>1, <2>1 DEF Under
<1>2. CASE k \notin DOMAIN t
  <2>1. PICK j \in DOMAIN u : k = Len(t) + j
    BY <1>2, ConcatPlaces
  <2>2. (t \o u)[k] = u[j]
    BY <2>1, ConcatPlaces
  <2> QED
    BY <2>2 DEF Under
<1> QED
  BY <1>1, <1>2

(* The first lines of sorted ones are sorted. *)
LEMMA FirstSorted ==
  ASSUME NEW a, NEW b, NEW c \in Seq(Nat), NEW n \in 0 .. Len(c), Sorted(a, b, c)
  PROVE  Sorted(a, b, SubSeq(c, 1, n)) /\ SubSeq(c, 1, n) \in Seq(Nat)
         /\ Len(SubSeq(c, 1, n)) = n
<1> DEFINE d == SubSeq(c, 1, n)
<1>1. Len(c) \in Nat /\ DOMAIN c = 1 .. Len(c) /\ \A i \in 1 .. n : c[i] \in Nat
  OBVIOUS
<1>2. d \in Seq(Nat) /\ Len(d) = n /\ \A i \in 1 .. n : d[i] = c[i]
  <2>1. /\ d \in Seq(Nat) /\ Len(d) = IF 1 <= n THEN n - 1 + 1 ELSE 0
        /\ \A i \in 1 .. n - 1 + 1 : d[i] = c[1 + i - 1]
    BY <1>1, SubSeqProperties
  <2> HIDE DEF d
  <2> QED
    BY <1>1, <2>1
<1> HIDE DEF d
<1>3. DOMAIN d \subseteq DOMAIN c /\ \A i \in DOMAIN d : d[i] = c[i]
  BY <1>1, <1>2
<1>4. Increasing(d)
  BY <1>3 DEF Sorted, Increasing
<1>5. Under(a, d) /\ Under(b, d)
  BY <1>3 DEF Sorted, Under
<1> QED
  BY <1>2, <1>4, <1>5 DEF Sorted, d

(* A fragment behind sorted lines leaves them sorted. *)
LEMMA FragmentSorted ==
  ASSUME NEW a, NEW b, NEW c \in Seq(Nat), Sorted(a, b, c)
  PROVE  Sorted(a, b, c \o <<Torn>>)
<1>1. <<Torn>> \in Seq(Nat)
  BY DEF Torn
<1>2. Under(a, <<Torn>>) /\ Under(b, <<Torn>>) /\ Under(c, <<Torn>>) /\ Increasing(<<Torn>>)
  BY NothingSorted
<1>3. Increasing(c \o <<Torn>>)
  BY <1>1, <1>2, IncreasingConcat DEF Sorted
<1>4. Under(a, c \o <<Torn>>) /\ Under(b, c \o <<Torn>>)
  BY <1>1, <1>2, ConcatUnder DEF Sorted
<1> QED
  BY <1>3, <1>4 DEF Sorted

(* A line above sorted ones goes behind them. *)
LEMMA AppendSorted ==
  ASSUME NEW a, NEW b, NEW c \in Seq(Nat), NEW n \in Nat, Sorted(a, b, c),
         Under(a, <<n>>), Under(b, <<n>>), Under(c, <<n>>)
  PROVE  Sorted(a, b, Append(c, n))
<1>1. Append(c, n) = c \o <<n>> /\ <<n>> \in Seq(Nat)
  OBVIOUS
<1>2. Increasing(c \o <<n>>)
  BY <1>1, OneSorted, IncreasingConcat DEF Sorted
<1>3. Under(a, c \o <<n>>) /\ Under(b, c \o <<n>>)
  BY <1>1, ConcatUnder DEF Sorted
<1> QED
  BY <1>1, <1>2, <1>3 DEF Sorted

(* A file that is renamed keeps the bound. *)
LEMMA RenameBounded ==
  ASSUME NEW from, NEW to, Rename(from, to), Bounded(journal)
  PROVE  Bounded(journal')
BY DEF Rename, Bounded

(* A file written to a bounded length leaves all files bounded. *)
LEMMA WithFileBounded ==
  ASSUME NEW file, NEW lines, Len(lines) <= RotateLines, Bounded(journal)
  PROVE  Bounded(WithFile(file, lines))
BY DEF WithFile, Bounded

(* A step of the one writer: no other process writes after it, so that what
   remains to show is the journal and the writer. *)
LEMMA WriterStep ==
  ASSUME TypeInv, OrderInv, ~raced, NEW p \in Procs, pc[p] \in Writing,
         NEW from, NEW to, NEW memory, Step(p, from, to, memory), raced' = raced,
         Bounded(journal)',
         Sorted(Lines("two"), Lines("one"), Lines("active"))',
         to \in Writing => Ready(p)'
  PROVE  OrderInv'
<1>1. \A q \in Procs : q # p => pc'[q] = pc[q]
  BY DEF Step, TypeInv, MemTyped
<1>2. \A q \in Procs : pc[q] \in Writing => q = p
  BY DEF OrderInv
<1>3. \A q \in Procs : pc'[q] \in Writing => q = p
  BY <1>1, <1>2
<1>4. pc'[p] = to
  BY DEF Step, TypeInv, MemTyped
<1>5. \A q, r \in Procs : pc'[q] \in Writing /\ pc'[r] \in Writing => q = r
  BY <1>3
<1>6. \A q \in Procs : pc'[q] \in Writing => Ready(q)'
  BY <1>3, <1>4
<1> QED
  BY <1>5, <1>6 DEF OrderInv

(* A step of a process that does not write, before or after. *)
LEMMA BystanderStep ==
  ASSUME TypeInv, OrderInv, NEW p \in Procs, pc[p] \notin Writing,
         NEW from, NEW to, to \notin Writing, NEW memory, Step(p, from, to, memory),
         raced' = raced, journal' = journal,
         \A q \in Procs \ {p} : open'[q] = open[q]
  PROVE  OrderInv'
<1> SUFFICES ASSUME ~raced PROVE OrderInv'
  BY DEF OrderInv
<1>1. \A q \in Procs : pc'[q] \in Writing =>
        q # p /\ pc[q] \in Writing /\ pc'[q] = pc[q] /\ mem'[q] = mem[q] /\ open'[q] = open[q]
  BY DEF Step, TypeInv, MemTyped
<1>2. \A q, r \in Procs : pc'[q] \in Writing /\ pc'[r] \in Writing => q = r
  BY <1>1 DEF OrderInv
<1>3. Bounded(journal)' /\ Sorted(Lines("two"), Lines("one"), Lines("active"))'
  BY DEF OrderInv, Lines
<1>4. ASSUME NEW q \in Procs, pc'[q] \in Writing PROVE Ready(q)'
  <2>1. Ready(q)
    BY <1>1, <1>4 DEF OrderInv
  <2> QED
    BY <1>1, <1>4, <2>1 DEF Ready, Lines
<1> QED
  BY <1>2, <1>3, <1>4 DEF OrderInv

(* A process that numbers an event while nobody writes becomes the writer. *)
LEMMA NumberStep ==
  ASSUME TypeInv, OrderInv, NEW p \in Procs, NumberEvent(p)
  PROVE  OrderInv'
<1> SUFFICES ASSUME ~raced' PROVE OrderInv'
  BY DEF OrderInv
<1>1. ~raced /\ \A q \in Procs : q # p => pc[q] \notin Writing
  BY DEF NumberEvent, TypeInv
<1>2. /\ pc' = [pc EXCEPT ![p] = "append"]
      /\ mem' = [mem EXCEPT ![p] = [seq |-> NextSeq, before |-> journal]]
      /\ journal' = journal /\ open' = open
  BY DEF NumberEvent, Step, stores
<1>3. pc'[p] = "append" /\ mem'[p].seq = NextSeq
  BY <1>2 DEF TypeInv, MemTyped
<1>4. \A q \in Procs : pc'[q] \in Writing => q = p
  BY <1>1, <1>2 DEF TypeInv, MemTyped
<1>5. Bounded(journal)' /\ Sorted(Lines("two"), Lines("one"), Lines("active"))'
  BY <1>1, <1>2 DEF OrderInv, Lines
<1>6. Under(History, <<NextSeq>>)
  BY NextIsAbove DEF TypeInv, Under
<1>7. \A f \in {"active", "one", "two"} : Under(Lines(f), <<NextSeq>>)
  <2>1. Lines("two") \in Seq(Nat) /\ Lines("one") \in Seq(Nat) /\ Lines("active") \in Seq(Nat)
    BY LinesTyped DEF Lines, TypeInv
  <2>2. Lines("two") \o Lines("one") \in Seq(Nat)
    BY <2>1
  <2>3. History = Lines("two") \o Lines("one") \o Lines("active")
    BY DEF History, Readable, Lines
  <2>4. Under(Lines("two") \o Lines("one"), <<NextSeq>>) /\ Under(Lines("active"), <<NextSeq>>)
    BY <1>6, <2>1, <2>2, <2>3, UnderConcat
  <2>5. Under(Lines("two"), <<NextSeq>>) /\ Under(Lines("one"), <<NextSeq>>)
    BY <2>1, <2>4, UnderConcat
  <2> QED
    BY <2>4, <2>5
<1>8. Ready(p)'
  BY <1>2, <1>3, <1>7 DEF Ready, Lines
<1> QED
  BY <1>4, <1>5, <1>8 DEF OrderInv

(* Reading the active file and the renames of a rotation keep the order. *)
LEMMA RotationStep ==
  ASSUME TypeInv, OrderInv, ~raced, NEW p \in Procs,
         ReadActive(p) \/ RotateTwo(p) \/ RotateOne(p) \/ RotateActive(p) \/ DropSpare(p)
  PROVE  OrderInv'
<1> USE StoresAssumption
<1> DEFINE Same == \A f \in {"active", "one", "two"} : InFile(journal', f) = Lines(f)
<1>1. pc[p] \in Writing
  BY DEF ReadActive, RotateTwo, RotateOne, RotateActive, RotateStep, DropSpare, Step, Writing
<1>2. /\ Bounded(journal) /\ Sorted(Lines("two"), Lines("one"), Lines("active")) /\ Ready(p)
      /\ mem[p].seq \in Nat /\ Lines("active") \in Seq(Nat)
  BY <1>1, LinesTyped DEF OrderInv, TypeInv, MemTyped, Lines
<1>3. CASE ReadActive(p)
  <2>1. pc[p] = "append" /\ journal' = journal /\ open' = open /\ raced' = raced
    BY <1>3 DEF ReadActive, Reads, stores
  <2>2. CASE Full(Lines("active"))
    <3> DEFINE m == [seq |-> mem[p].seq, before |-> mem[p].before,
                     content |-> <<mem[p].seq>>]
    <3>1. Step(p, "append", "rotate2", m)
      BY <1>3, <2>2 DEF ReadActive
    <3>2. m.seq = mem[p].seq /\ m.content = <<mem[p].seq>>
      OBVIOUS
    <3> HIDE DEF m
    <3>3. pc'[p] = "rotate2" /\ mem'[p] = m
      BY <3>1 DEF Step, TypeInv, MemTyped
    <3>4. Ready(p)'
      BY <1>2, <2>1, <3>2, <3>3 DEF Ready, Lines
    <3> QED
      BY <1>1, <1>2, <2>1, <3>1, <3>4, WriterStep DEF Lines
  <2>3. CASE ~Full(Lines("active"))
    <3> DEFINE m == [seq |-> mem[p].seq, before |-> mem[p].before,
                     content |-> Append(Lines("active"), mem[p].seq)]
    <3>1. Step(p, "append", "truncate", m)
      BY <1>3, <2>3 DEF ReadActive
    <3>2. m.seq = mem[p].seq /\ m.content = Append(Lines("active"), mem[p].seq)
      OBVIOUS
    <3> HIDE DEF m
    <3>3. pc'[p] = "truncate" /\ mem'[p] = m
      BY <3>1 DEF Step, TypeInv, MemTyped
    <3>4. Sorted(Lines("two"), Lines("one"), m.content)
      BY <1>2, <3>2, AppendSorted DEF Ready
    <3>5. Len(m.content) <= RotateLines
      <4>1. Len(Lines("active")) \in Nat /\ Len(Lines("active")) < RotateLines
        BY <1>2, <2>3 DEF Full
      <4> QED
        BY <1>2, <3>2, <4>1
    <3>6. Ready(p)'
      BY <1>2, <2>1, <3>2, <3>3, <3>4, <3>5 DEF Ready, Lines
    <3> QED
      BY <1>1, <1>2, <2>1, <3>1, <3>6, WriterStep DEF Lines
  <2> QED
    BY <2>2, <2>3
<1>4. ASSUME NEW from, NEW to, from # to, NEW at \in {"rotate2", "rotate1", "rotate0"},
             NEW next \in {"rotate1", "rotate0", "drop"}, RotateStep(p, at, next, from, to),
             Sorted(Lines("two"), Lines("one"), Lines("active"))',
             \A f \in {"active", "one", "two"} : Under(InFile(journal', f), <<mem[p].seq>>)
      PROVE  OrderInv'
  <2>1. pc[p] = at /\ pc'[p] = next /\ mem'[p] = mem[p]
    BY <1>4 DEF RotateStep, Step, TypeInv, MemTyped
  <2>2. Ready(p)'
    BY <1>2, <1>4, <2>1 DEF Ready, Lines
  <2>3. Bounded(journal)'
    BY <1>2, <1>4, RenameBounded DEF RotateStep
  <2> QED
    BY <1>1, <1>4, <2>2, <2>3, WriterStep DEF RotateStep
<1>5. \A f \in {"active", "one", "two"} : Under(Lines(f), <<mem[p].seq>>)
  BY <1>2 DEF Ready
<1>6. CASE RotateTwo(p)
  <2>1. /\ InFile(journal', "two") = <<>> /\ InFile(journal', "one") = Lines("one")
        /\ InFile(journal', "active") = Lines("active")
    BY <1>6, RenameMoves DEF RotateTwo, RotateStep
  <2>2. Sorted(Lines("two"), Lines("one"), Lines("active"))'
    BY <1>2, <2>1, NothingSorted DEF Sorted, Lines
  <2>3. \A f \in {"active", "one", "two"} : Under(InFile(journal', f), <<mem[p].seq>>)
    BY <1>5, <2>1, NothingSorted
  <2> QED
    BY <1>4, <1>6, <2>2, <2>3 DEF RotateTwo
<1>7. CASE RotateOne(p)
  <2>1. /\ InFile(journal', "one") = <<>> /\ InFile(journal', "active") = Lines("active")
        /\ InFile(journal', "two") = Lines("one") \/ InFile(journal', "two") = Lines("two")
    BY <1>7, RenameMoves DEF RotateOne, RotateStep
  <2>2. Sorted(Lines("two"), Lines("one"), Lines("active"))'
    BY <1>2, <2>1, NothingSorted DEF Sorted, Lines
  <2>3. \A f \in {"active", "one", "two"} : Under(InFile(journal', f), <<mem[p].seq>>)
    BY <1>5, <2>1, NothingSorted
  <2> QED
    BY <1>4, <1>7, <2>2, <2>3 DEF RotateOne
<1>8. CASE RotateActive(p)
  <2>1. /\ InFile(journal', "active") = <<>> /\ InFile(journal', "two") = Lines("two")
        /\ InFile(journal', "one") = Lines("active") \/ InFile(journal', "one") = Lines("one")
    BY <1>8, RenameMoves DEF RotateActive, RotateStep
  <2>2. Sorted(Lines("two"), Lines("one"), Lines("active"))'
    BY <1>2, <2>1, NothingSorted DEF Sorted, Lines
  <2>3. \A f \in {"active", "one", "two"} : Under(InFile(journal', f), <<mem[p].seq>>)
    BY <1>5, <2>1, NothingSorted
  <2> QED
    BY <1>4, <1>8, <2>2, <2>3 DEF RotateActive
<1>9. CASE DropSpare(p)
  <2>1. Step(p, "drop", "truncate", mem[p]) /\ raced' = raced
    BY <1>9 DEF DropSpare
  <2>2. pc[p] = "drop" /\ pc'[p] = "truncate" /\ mem'[p] = mem[p]
    BY <2>1 DEF Step, TypeInv, MemTyped
  <2>3. Same
    BY <1>9 DEF DropSpare, InFile, Lines
  <2>4. Bounded(journal)'
    BY <1>2, <1>9 DEF DropSpare, Bounded
  <2>5. mem[p].content = <<mem[p].seq>> /\ Len(<<mem[p].seq>>) <= RotateLines
    BY <1>2, <2>2 DEF Ready
  <2>6. Sorted(Lines("two"), Lines("one"), <<mem[p].seq>>)
    BY <1>2, <1>5, OneSorted DEF Sorted
  <2>7. Ready(p)'
    BY <1>5, <2>2, <2>3, <2>5, <2>6 DEF Ready, Lines
  <2>8. Sorted(Lines("two"), Lines("one"), Lines("active"))'
    BY <1>2, <2>3 DEF Lines
  <2> QED
    BY <1>1, <2>1, <2>4, <2>7, <2>8, WriterStep
<1> QED
  BY <1>3, <1>6, <1>7, <1>8, <1>9

(* Rewriting the active file, to the end or not, keeps the order. *)
LEMMA RewriteStep ==
  ASSUME TypeInv, OrderInv, ~raced, NEW p \in Procs,
         TruncateActive(p) \/ FillActive(p) \/ (Crash(p) /\ pc[p] \in Writing)
  PROVE  OrderInv'
<1> USE StoresAssumption
<1>1. pc[p] \in Writing
  BY DEF TruncateActive, FillActive, Step, Writing
<1>2. /\ Bounded(journal) /\ Sorted(Lines("two"), Lines("one"), Lines("active")) /\ Ready(p)
      /\ mem[p].seq \in Nat
  BY <1>1 DEF OrderInv, TypeInv, MemTyped
<1>3. CASE TruncateActive(p)
  <2>1. Step(p, "truncate", "fill", mem[p]) /\ raced' = raced
    BY <1>3 DEF TruncateActive
  <2>2. pc[p] = "truncate" /\ pc'[p] = "fill" /\ mem'[p] = mem[p] /\ open'[p] = "active"
    BY <1>3, <2>1 DEF Step, TypeInv, MemTyped, TruncateActive
  <2>3. journal' = WithFile("active", <<>>)
    BY <1>3 DEF TruncateActive
  <2>4. /\ InFile(journal', "active") = <<>> /\ InFile(journal', "one") = Lines("one")
        /\ InFile(journal', "two") = Lines("two")
    BY <2>3, WithFileLines
  <2>5. Bounded(journal)'
    BY <1>2, <2>3, WithFileBounded
  <2>6. Sorted(Lines("two"), Lines("one"), Lines("active"))'
    BY <1>2, <2>4, NothingSorted DEF Sorted, Lines
  <2>7. Ready(p)'
    BY <1>2, <2>2, <2>4, NothingSorted DEF Ready, Lines
  <2> QED
    BY <1>1, <2>1, <2>5, <2>6, <2>7, WriterStep
<1>4. ASSUME NEW n \in 0 .. Len(mem[p].content), pc[p] = "fill",
             WriteOver(open[p], mem[p].content, n),
             Step(p, "fill", "idle", Nothing), raced' = raced
      PROVE  OrderInv'
  <2>1. /\ open[p] = "active" /\ Lines("active") = <<>> /\ mem[p].content \in Seq(Nat)
        /\ Len(mem[p].content) <= RotateLines
        /\ Sorted(Lines("two"), Lines("one"), mem[p].content)
    BY <1>1, <1>2, <1>4 DEF Ready, TypeInv, MemTyped
  <2> DEFINE some == SubSeq(mem[p].content, 1, n)
  <2>2. PICK lines \in Seq(Nat) :
          /\ journal' = WithFile("active", lines)
          /\ lines = some \/ (n < Len(mem[p].content) /\ lines = some \o <<Torn>>)
    <3>1. "active" \in Files /\ IsJournal(journal)
      BY DEF Files, TypeInv
    <3> QED
      BY <1>4, <2>1, <3>1, WrittenLines
  <2>3. Sorted(Lines("two"), Lines("one"), some) /\ some \in Seq(Nat) /\ Len(some) = n
    <3>1. mem[p].content \in Seq(Nat) /\ n \in 0 .. Len(mem[p].content)
          /\ Sorted(Lines("two"), Lines("one"), mem[p].content)
      BY <2>1
    <3> QED
      BY <3>1, FirstSorted, Zenon
  <2> HIDE DEF some
  <2>4. Sorted(Lines("two"), Lines("one"), lines)
    BY <2>2, <2>3, FragmentSorted
  <2>5. Len(lines) <= RotateLines
    <3>1. Len(mem[p].content) \in Nat
      BY <2>1
    <3>2. <<Torn>> \in Seq(Nat) /\ Len(<<Torn>>) = 1
      BY DEF Torn
    <3>3. Len(some \o <<Torn>>) = n + 1
      BY <2>3, <3>2
    <3> QED
      BY <2>1, <2>2, <2>3, <3>1, <3>3
  <2>6. /\ InFile(journal', "active") = lines /\ InFile(journal', "one") = Lines("one")
        /\ InFile(journal', "two") = Lines("two")
    BY <2>2, WithFileLines
  <2>7. Bounded(journal)'
    BY <1>2, <2>2, <2>5, WithFileBounded
  <2>8. Sorted(Lines("two"), Lines("one"), Lines("active"))'
    BY <2>4, <2>6 DEF Lines
  <2>9. "idle" \notin Writing
    BY DEF Writing
  <2> QED
    BY <1>1, <1>4, <2>7, <2>8, <2>9, WriterStep
<1>5. CASE FillActive(p)
  <2>1. pc[p] = "fill" /\ Step(p, "fill", "idle", Nothing) /\ raced' = raced
    BY <1>5 DEF FillActive, Step
  <2>2. open[p] = "active" /\ mem[p].content \in Seq(Nat)
    BY <1>1, <1>2, <2>1 DEF Ready, TypeInv, MemTyped, Writing
  <2>3. WriteOver(open[p], mem[p].content, Len(mem[p].content))
    BY <1>5, <2>2 DEF FillActive
  <2>4. Len(mem[p].content) \in 0 .. Len(mem[p].content)
    BY <2>2
  <2> QED
    BY <1>4, <2>1, <2>3, <2>4
<1>6. CASE Crash(p)
  <2>1. Step(p, pc[p], "idle", Nothing) /\ raced' = raced
    BY <1>6 DEF Crash
  <2>2. CASE journal' = journal
    <3>1. Bounded(journal)' /\ Sorted(Lines("two"), Lines("one"), Lines("active"))'
      BY <1>2, <2>2 DEF Lines
    <3>2. "idle" \notin Writing
      BY DEF Writing
    <3> QED
      BY <1>1, <2>1, <3>1, <3>2, WriterStep
  <2>3. CASE journal' # journal
    <3>1. pc[p] = "fill"
          /\ \E n \in 0 .. Len(mem[p].content) : WriteOver(open[p], mem[p].content, n)
      BY <1>6, <2>3 DEF Crash
    <3> QED
      BY <1>4, <2>1, <3>1
  <2> QED
    BY <2>2, <2>3
<1> QED
  BY <1>3, <1>5, <1>6

(* Every step keeps the order of the journal. *)
LEMMA OrderStep ==
  ASSUME TypeInv, OrderInv, [Next]_vars
  PROVE  OrderInv'
<1>1. CASE UNCHANGED vars
  BY <1>1 DEF OrderInv, vars, stores, Ready, Lines
<1>2. ASSUME NEW p \in Procs,
             \/ NumberCheckpoint(p) \/ RenameCheckpoint(p) \/ BeginAppend(p)
             \/ Crash(p) /\ pc[p] \notin Writing
      PROVE  OrderInv'
  <2>1. /\ pc[p] \notin Writing
        /\ \E from : \E to \in {"idle", "rename", "seq"} : \E m : Step(p, from, to, m)
    BY <1>2 DEF NumberCheckpoint, RenameCheckpoint, BeginAppend, Crash, Step, Writing
  <2>2. /\ raced' = raced /\ journal' = journal
        /\ \A q \in Procs \ {p} : open'[q] = open[q]
    BY <1>2 DEF NumberCheckpoint, RenameCheckpoint, BeginAppend, Reads, stores, Crash,
                Writing, TypeInv
  <2>3. {"idle", "rename", "seq"} \cap Writing = {}
    BY DEF Writing
  <2> QED
    BY <2>1, <2>2, <2>3, BystanderStep
<1>3. ASSUME NEW p \in Procs, raced,
             \/ ReadActive(p) \/ RotateTwo(p) \/ RotateOne(p) \/ RotateActive(p)
             \/ DropSpare(p) \/ TruncateActive(p) \/ FillActive(p) \/ Crash(p)
      PROVE  OrderInv'
  BY <1>3 DEF OrderInv, ReadActive, Reads, RotateTwo, RotateOne, RotateActive, RotateStep,
              DropSpare, TruncateActive, FillActive, Crash
<1> QED
  BY <1>1, <1>2, <1>3, NumberStep, RotationStep, RewriteStep DEF Next

(* The journal the commands find is in order. *)
LEMMA OrderInit == Init => OrderInv
<1> SUFFICES ASSUME Init PROVE OrderInv
  OBVIOUS
<1>1. IsJournal(journal) /\ Bounded(journal) /\ Increasing(Readable(journal))
  BY StoresAssumption DEF Init
<1>2. Lines("two") \in Seq(Nat) /\ Lines("one") \in Seq(Nat) /\ Lines("active") \in Seq(Nat)
  BY <1>1, LinesTyped DEF Lines
<1>3. Readable(journal) = Lines("two") \o Lines("one") \o Lines("active")
  BY DEF Readable, Lines
<1>4. Sorted(Lines("two"), Lines("one"), Lines("active"))
  BY <1>1, <1>2, <1>3, SortedConcat
<1>5. \A p \in Procs : pc[p] \notin Writing
  BY DEF Init, Writing
<1> QED
  BY <1>1, <1>4, <1>5 DEF OrderInv

(* Types and order hold throughout. *)
LEMMA OrderAlways == Spec => [](TypeInv /\ OrderInv)
<1>1. TypeInv /\ OrderInv /\ [Next]_vars => (TypeInv /\ OrderInv)'
  BY TypeStep, OrderStep
<1>2. Init => TypeInv /\ OrderInv
  BY TypeInit, OrderInit
<1> QED
  BY <1>1, <1>2, PTL DEF Spec

(* Sequence numbers grow along the journal as long as appends have not
   overlapped, wherever appends were killed. *)
THEOREM JournalInOrder == Spec => []InOrder
<1>1. TypeInv /\ OrderInv => InOrder
  <2> SUFFICES ASSUME TypeInv, OrderInv, ~raced PROVE Increasing(History)
    BY DEF InOrder
  <2>1. Lines("two") \in Seq(Nat) /\ Lines("one") \in Seq(Nat) /\ Lines("active") \in Seq(Nat)
    BY LinesTyped DEF Lines, TypeInv
  <2>2. Sorted(Lines("two"), Lines("one"), Lines("active"))
    BY DEF OrderInv
  <2>3. History = Lines("two") \o Lines("one") \o Lines("active")
    BY DEF History, Readable, Lines
  <2> QED
    BY <2>1, <2>2, <2>3, SortedConcat
<1> QED
  BY OrderAlways, <1>1, PTL

(* No file outgrows its limit as long as appends have not overlapped, wherever
   appends were killed. *)
THEOREM FilesStayBounded == Spec => []FilesBounded
<1>1. TypeInv /\ OrderInv => FilesBounded
  BY DEF OrderInv, FilesBounded
<1> QED
  BY OrderAlways, <1>1, PTL


-----------------------------------------------------------------------------
(* The directories of tasks. *)

-----------------------------------------------------------------------------
(* Numbering. *)

(* A bounded set of numbers has a least upper bound: one of them, or zero. *)
LEMMA GreatestOfBounded ==
  ASSUME NEW n \in Nat, NEW S, S \subseteq 0 .. n
  PROVE  Greatest(S) \in Nat /\ \A i \in S : i <= Greatest(S)
<1> DEFINE R == {ss \in Nat \X Nat : ss[1] < ss[2]}
           T == {m \in Nat : \A i \in S : i <= m}
<1>1. n \in T
  OBVIOUS
<1>2. PICK m \in T : \A k \in T : ~ (<<k, m>> \in R)
  <2>1. IsWellFoundedOn(R, Nat)
    BY NatLessThanWellFounded DEF OpToRel
  <2>2. T \subseteq Nat /\ T # {}
    BY <1>1
  <2> HIDE DEF R, T
  <2> QED
    BY <2>1, <2>2, WFMin
<1>3. \A k \in T : ~ (k < m)
  <2>1. \A k \in T : <<k, m>> \in Nat \X Nat
    OBVIOUS
  <2> QED
    BY <1>2, <2>1
<1>4. m \in S \cup {0}
  <2> SUFFICES ASSUME m \notin S, m # 0 PROVE FALSE
    OBVIOUS
  <2>1. m - 1 \in T
    <3> SUFFICES ASSUME NEW i \in S PROVE i <= m - 1
      OBVIOUS
    <3>1. i \in Nat /\ i <= m /\ i # m
      OBVIOUS
    <3> QED
      BY <3>1
  <2> QED
    BY <1>3, <2>1
<1>5. Greatest(S) \in S \cup {0} /\ \A i \in S : i <= Greatest(S)
  BY <1>4 DEF Greatest
<1>6. S \cup {0} \subseteq Nat
  OBVIOUS
<1> QED
  BY <1>5, <1>6

(* The number of a new task is above those of all readable documents. *)
LEMMA NumberIsNew ==
  ASSUME DOMAIN active \subseteq Documents, DOMAIN archive \subseteq Documents
  PROVE  NextTask \in Nat \ {0} /\ \A f \in Listed : IdOf(f) < NextTask
<1> DEFINE S == {IdOf(f) : f \in Listed}
<1>1. Listed \subseteq Documents
  BY DEF Listed, Parsed
<1>2. S \subseteq 0 .. LastTask
  BY <1>1 DEF Documents, IdOf
<1>3. Greatest(S) \in Nat /\ \A i \in S : i <= Greatest(S)
  <2> HIDE DEF S
  <2> QED
    BY <1>2, GreatestOfBounded, TasksAssumption
<1>4. \A f \in Listed : IdOf(f) \in S /\ IdOf(f) \in Nat
  BY <1>1 DEF Documents, IdOf
<1>5. NextTask = Greatest(S) + 1
  BY DEF NextTask
<1> HIDE DEF S
<1> QED
  BY <1>3, <1>4, <1>5

-----------------------------------------------------------------------------
(* Where the processes are, and which files they name. *)

Naming == TaskPoints \ {"next completed"}

Placed ==
  /\ pc \in [Procs -> TaskPoints \cup {"idle"}]
  /\ DOMAIN mem = Procs
  /\ DOMAIN active \subseteq Documents /\ DOMAIN archive \subseteq Documents
  /\ \A p \in Procs : pc[p] \in Naming => mem[p].file \in Documents

(* What a step of p may do to its place and its memory. *)
Moves(p) ==
  /\ pc' = [pc EXCEPT ![p] = pc'[p]] /\ mem' = [mem EXCEPT ![p] = mem'[p]]
  /\ pc'[p] \in TaskPoints \cup {"idle"}
  /\ pc'[p] \in Naming => mem'[p].file \in Documents

LEMMA StepMoves ==
  ASSUME Placed, NEW p \in Procs, NEW from, NEW to, NEW memory,
         Step(p, from, to, memory), to \in TaskPoints \cup {"idle"},
         to \in Naming => memory.file \in Documents
  PROVE  Moves(p)
BY DEF Placed, Step, Moves

(* What With writes stays among the documents. *)
LEMMA WithDocuments ==
  ASSUME NEW dir, NEW file \in Documents, NEW text, DOMAIN dir \subseteq Documents
  PROVE  DOMAIN With(dir, file, text) \subseteq Documents
BY DEF With

LEMMA WriteOutDocuments ==
  ASSUME Placed, NEW p \in Procs, pc[p] = "fill task", WriteOut(p)
  PROVE  DOMAIN active' \subseteq Documents /\ DOMAIN archive' \subseteq Documents
<1>1. mem[p].file \in Documents
  BY DEF Placed, Naming, TaskPoints
<1> QED
  BY <1>1, WithDocuments DEF Placed, WriteOut

(* What a step does to the process that takes it, and to the directories. *)
LEMMA StepShape ==
  ASSUME Placed, NEW p \in Procs, TaskStep(p)
  PROVE  /\ Moves(p)
         /\ DOMAIN active' \subseteq Documents /\ DOMAIN archive' \subseteq Documents
         /\ \/ Writes(p)
            \/ Reads(p) /\ UNCHANGED <<active, archive>>
<1>a. /\ TaskPoints = Naming \cup {"next completed"}
      /\ {"look for others", "read task", "truncate task", "fill task", "move"} = Naming
      /\ "next completed" \notin Naming /\ "idle" \notin Naming
  BY DEF Naming, TaskPoints
<1>b. \A f, text, rest : Job(f, text, rest).file = f
  BY DEF Job
<1>c. DOMAIN active \subseteq Documents /\ DOMAIN archive \subseteq Documents
  BY DEF Placed
<1>d. pc[p] \in Naming => mem[p].file \in Documents
  BY DEF Placed
<1>e. ASSUME NEW to, NEW memory, Begin(p, to, memory), to \in TaskPoints,
             to \in Naming => memory.file \in Documents
      PROVE  Moves(p) /\ Reads(p) /\ UNCHANGED <<active, archive>>
  BY <1>e, StepMoves DEF Begin
<1>1. CASE NumberTask(p)
  <2>1. PICK title \in Titles : Begin(p, "truncate task", Job(<<NextTask, title>>, "pending", {}))
    BY <1>1 DEF NumberTask
  <2>2. NextTask \in 1 .. LastTask
    <3>1. NextTask \in Nat \ {0}
      BY <1>c, NumberIsNew
    <3>2. NextTask <= LastTask /\ LastTask \in Nat
      BY <1>1, TasksAssumption DEF NumberTask
    <3> QED
      BY <3>1, <3>2
  <2>3. <<NextTask, title>> \in Documents
    BY <2>2 DEF Documents
  <2> QED
    BY <1>a, <1>b, <1>c, <1>e, <2>1, <2>3
<1>2. CASE BeginStart(p)
  <2>1. PICK f \in DOMAIN active : Begin(p, "look for others", Job(f, "active", {}))
    BY <1>2 DEF BeginStart, Parsed
  <2> QED
    BY <1>a, <1>b, <1>c, <1>e, <2>1
<1>3. CASE LookForOthers(p)
  <2>1. pc[p] = "look for others" /\ Reads(p) /\ UNCHANGED <<active, archive>>
    BY <1>3 DEF LookForOthers, Looks, dirs
  <2>2. Step(p, "look for others", "read task", mem[p]) \/ Step(p, "look for others", "idle", Nothing)
    BY <1>3 DEF LookForOthers
  <2> QED
    BY <1>a, <1>c, <1>d, <2>1, <2>2, StepMoves
<1>4. CASE BeginComplete(p)
  <2>1. PICK f \in DOMAIN active : Begin(p, "read task", Job(f, "completed", {}))
    BY <1>4 DEF BeginComplete, Parsed
  <2> QED
    BY <1>a, <1>b, <1>c, <1>e, <2>1
<1>5. CASE BeginArchive(p)
  <2>1. PICK f \in DOMAIN active : Begin(p, "move", Job(f, "completed", {}))
    BY <1>5 DEF BeginArchive, Parsed
  <2> QED
    BY <1>a, <1>b, <1>c, <1>e, <2>1
<1>6. CASE BeginArchiveAll(p)
  <2>1. PICK rest : Begin(p, "next completed", Job(Closed, "completed", rest))
    BY <1>6 DEF BeginArchiveAll
  <2> QED
    BY <1>a, <1>c, <1>e, <2>1
<1>7. CASE NextCompleted(p)
  <2>1. Reads(p) /\ UNCHANGED <<active, archive>>
    BY <1>7 DEF NextCompleted, Looks, dirs
  <2>2. PICK rest :
          \/ \E f \in DOMAIN active : Step(p, "next completed", "move", Job(f, "completed", rest))
          \/ Step(p, "next completed", Onward(rest), Job(Closed, "completed", rest))
          \/ Step(p, "next completed", "idle", Nothing)
    BY <1>7 DEF NextCompleted, Parsed
  <2>3. Onward(rest) \in {"idle", "next completed"}
    BY DEF Onward
  <2>4. ASSUME NEW f \in DOMAIN active, Step(p, "next completed", "move", Job(f, "completed", rest))
        PROVE  Moves(p)
    BY <1>a, <1>b, <1>c, <2>4, StepMoves
  <2>5. ASSUME Step(p, "next completed", Onward(rest), Job(Closed, "completed", rest))
        PROVE  Moves(p)
    BY <1>a, <2>3, <2>5, StepMoves
  <2>6. ASSUME Step(p, "next completed", "idle", Nothing) PROVE Moves(p)
    BY <1>a, <2>6, StepMoves
  <2> QED
    BY <1>c, <2>1, <2>2, <2>4, <2>5, <2>6
<1>8. CASE Move(p)
  <2>1. CASE mem[p].file \in DOMAIN active
    <3>1. Step(p, "move", Onward(mem[p].rest), mem[p]) /\ Writes(p)
      BY <1>8, <2>1 DEF Move
    <3>2. DOMAIN active' \subseteq Documents
      BY <1>8, <1>c, <2>1 DEF Move
    <3>3. DOMAIN archive' \subseteq Documents
      BY <1>8, <1>c, <2>1, WithDocuments DEF Move
    <3>4. Onward(mem[p].rest) \in {"idle", "next completed"}
      BY DEF Onward
    <3> QED
      BY <1>a, <3>1, <3>2, <3>3, <3>4, StepMoves
  <2>2. CASE mem[p].file \notin DOMAIN active
    <3>1. Step(p, "move", "idle", Nothing) /\ Reads(p) /\ UNCHANGED <<active, archive>>
      BY <1>8, <2>2 DEF Move, Looks, dirs
    <3> QED
      BY <1>a, <1>c, <3>1, StepMoves
  <2> QED
    BY <2>1, <2>2
<1>9. CASE ReadTask(p)
  <2>1. Reads(p) /\ UNCHANGED <<active, archive>>
    BY <1>9 DEF ReadTask, Looks, dirs
  <2>2. \/ pc[p] = "read task" /\ \E text :
             Step(p, "read task", "truncate task", Job(mem[p].file, text, {}))
        \/ Step(p, "read task", "idle", Nothing)
    BY <1>9 DEF ReadTask
  <2>3. ASSUME pc[p] = "read task", NEW text,
               Step(p, "read task", "truncate task", Job(mem[p].file, text, {}))
        PROVE  Moves(p)
    <3>1. Job(mem[p].file, text, {}).file \in Documents
      BY <1>a, <1>b, <1>d, <2>3
    <3> QED
      BY <1>a, <2>3, <3>1, StepMoves
  <2>4. ASSUME Step(p, "read task", "idle", Nothing) PROVE Moves(p)
    BY <1>a, <2>4, StepMoves
  <2> QED
    BY <1>c, <2>1, <2>2, <2>3, <2>4
<1>10. CASE TruncateTask(p)
  <2>1. Step(p, "truncate task", "fill task", mem[p]) /\ Writes(p) /\ UNCHANGED archive
    BY <1>10 DEF TruncateTask
  <2>2. mem[p].file \in Documents
    BY <1>a, <1>d, <2>1 DEF Step
  <2>3. DOMAIN active' \subseteq Documents
    BY <1>10, <1>c, <2>2, WithDocuments DEF TruncateTask
  <2> QED
    BY <1>a, <1>c, <2>1, <2>2, <2>3, StepMoves
<1>11. CASE FillTask(p)
  <2>1. /\ pc[p] = "fill task" /\ Step(p, "fill task", "idle", Nothing)
        /\ WriteOut(p) /\ Writes(p)
    BY <1>11 DEF FillTask
  <2> QED
    BY <1>a, <2>1, WriteOutDocuments, StepMoves
<1>12. CASE Kill(p)
  <2>1. Step(p, pc[p], "idle", Nothing)
    BY <1>12 DEF Kill
  <2>2. \/ pc[p] = "fill task" /\ WriteOut(p) /\ Writes(p)
        \/ UNCHANGED <<active, archive>> /\ Reads(p)
    BY <1>12 DEF Kill
  <2> QED
    BY <1>a, <1>c, <2>1, <2>2, WriteOutDocuments, StepMoves
<1> QED
  BY <1>1, <1>2, <1>3, <1>4, <1>5, <1>6, <1>7, <1>8, <1>9, <1>10, <1>11, <1>12 DEF TaskStep

(* Every step leaves the processes placed. *)
LEMMA PlacedNext ==
  ASSUME Placed, [TaskNext]_taskVars
  PROVE  Placed'
<1>1. CASE UNCHANGED taskVars
  BY <1>1 DEF taskVars, dirs, vars, Placed
<1>2. ASSUME NEW p \in Procs, TaskStep(p) PROVE Placed'
  <2>1. Moves(p) /\ DOMAIN active' \subseteq Documents /\ DOMAIN archive' \subseteq Documents
    BY <1>2, StepShape
  <2>2. pc' \in [Procs -> TaskPoints \cup {"idle"}] /\ DOMAIN mem' = Procs
    BY <2>1 DEF Moves, Placed
  <2>3. \A q \in Procs : pc'[q] \in Naming => mem'[q].file \in Documents
    <3> TAKE q \in Procs
    <3>1. CASE q = p
      BY <2>1, <3>1 DEF Moves
    <3>2. CASE q # p
      BY <2>1, <3>2 DEF Moves, Placed
    <3> QED
      BY <3>1, <3>2
  <2> QED
    BY <2>1, <2>2, <2>3 DEF Placed
<1> QED
  BY <1>1, <1>2 DEF TaskNext

LEMMA PlacedInit == TaskInit => Placed
BY TasksAssumption DEF TaskInit, Init, Placed, Naming, TaskPoints

(* A process nobody wrote into finds the directories as they were. *)
LEMMA TaskOthersKeep ==
  ASSUME Placed, NEW p \in Procs, TaskStep(p), NEW q \in Procs \ {p}
  PROVE  /\ pc'[q] = pc[q] /\ mem'[q] = mem[q]
         /\ pc[q] \in TaskPoints /\ q \notin disturbed' =>
              q \notin disturbed /\ UNCHANGED <<active, archive>>
<1>1. pc'[q] = pc[q] /\ mem'[q] = mem[q]
  BY StepShape DEF Moves, Placed
<1>2. ASSUME pc[q] \in TaskPoints, q \notin disturbed'
      PROVE  q \notin disturbed /\ UNCHANGED <<active, archive>>
  <2>1. pc'[q] \notin {"idle", "seq"}
    BY <1>1, <1>2 DEF TaskPoints
  <2>2. ~ Writes(p)
    BY <1>2, <2>1 DEF Writes, Disturb
  <2>3. Reads(p) /\ UNCHANGED <<active, archive>>
    BY <2>2, StepShape
  <2> QED
    BY <1>2, <2>3 DEF Reads
<1> QED
  BY <1>1, <1>2

(* What has been read when a process arrives before a write. *)
LEMMA Arrival ==
  ASSUME Placed, NEW p \in Procs, TaskStep(p)
  PROVE  /\ pc'[p] = "look for others" => mem'[p].text = "active"
         /\ pc'[p] = "read task" =>
              /\ UNCHANGED <<active, archive>>
              /\ \/ mem'[p].text = "completed"
                 \/ /\ pc[p] = "look for others" /\ mem'[p] = mem[p]
                    /\ OthersActive(mem[p].file) = {}
         /\ pc'[p] = "truncate task" =>
              /\ UNCHANGED <<active, archive>>
              /\ \/ /\ mem'[p].text = "pending"
                    /\ \A f \in Listed : IdOf(f) < IdOf(mem'[p].file)
                    /\ \A f \in Listed : IdOf(f) \in Nat
                 \/ /\ pc[p] = "read task" /\ mem'[p].file = mem[p].file
                    /\ mem'[p].text \in {"torn", mem[p].text}
         /\ pc'[p] = "fill task" => TruncateTask(p) /\ mem'[p] = mem[p]
         /\ pc'[p] # "idle" /\ p \notin disturbed' => p \notin disturbed
<1>a. \A from, to, memory : Step(p, from, to, memory) => pc'[p] = to /\ mem'[p] = memory
  BY DEF Step, Placed
<1>c. Reads(p) /\ pc'[p] # "idle" /\ p \notin disturbed' => pc'[p] = "seq" \/ p \notin disturbed
  BY DEF Reads
<1>d. Writes(p) /\ pc'[p] # "idle" /\ p \notin disturbed' => pc'[p] = "seq" \/ p \notin disturbed
  BY DEF Writes, Disturb
<1>e. pc'[p] # "seq"
  BY StepShape DEF Moves, TaskPoints
<1>f. pc'[p] # "idle" /\ p \notin disturbed' => p \notin disturbed
  BY <1>c, <1>d, <1>e, StepShape
<1>1. CASE NumberTask(p)
  <2>1. PICK title \in Titles : Begin(p, "truncate task", Job(<<NextTask, title>>, "pending", {}))
    BY <1>1 DEF NumberTask
  <2>2. /\ pc'[p] = "truncate task" /\ mem'[p] = Job(<<NextTask, title>>, "pending", {})
        /\ UNCHANGED <<active, archive>>
    BY <1>a, <2>1 DEF Begin
  <2>3. IdOf(mem'[p].file) = NextTask /\ mem'[p].text = "pending"
    <3> DEFINE job == Job(<<NextTask, title>>, "pending", {})
    <3>1. job.file = <<NextTask, title>> /\ job.text = "pending"
      BY DEF Job
    <3>2. mem'[p].file = <<NextTask, title>> /\ mem'[p].text = "pending"
      BY <2>2, <3>1
    <3> QED
      BY <3>2 DEF IdOf
  <2>4. \A f \in Listed : IdOf(f) < NextTask /\ IdOf(f) \in Nat
    <3>1. \A f \in Listed : IdOf(f) < NextTask
      BY NumberIsNew DEF Placed
    <3>2. Listed \subseteq Documents
      BY DEF Listed, Parsed, Placed
    <3> QED
      BY <3>1, <3>2 DEF Documents, IdOf
  <2> QED
    BY <1>f, <2>2, <2>3, <2>4
<1>2. CASE BeginStart(p)
  <2>1. PICK f : Begin(p, "look for others", Job(f, "active", {}))
    BY <1>2 DEF BeginStart
  <2>2. pc'[p] = "look for others" /\ mem'[p] = Job(f, "active", {}) /\ UNCHANGED <<active, archive>>
    BY <1>a, <2>1 DEF Begin
  <2>3. mem'[p].text = "active"
    <3>1. Job(f, "active", {}).text = "active"
      BY DEF Job
    <3> QED
      BY <2>2, <3>1
  <2> QED
    BY <1>f, <2>2, <2>3
<1>3. CASE LookForOthers(p)
  <2>1. UNCHANGED <<active, archive>> /\ pc[p] = "look for others"
    BY <1>3 DEF LookForOthers, Looks, dirs
  <2>2. CASE OthersActive(mem[p].file) = {}
    <3>1. Step(p, "look for others", "read task", mem[p])
      BY <1>3, <2>2 DEF LookForOthers
    <3> QED
      BY <1>a, <1>f, <2>1, <2>2, <3>1
  <2>3. CASE OthersActive(mem[p].file) # {}
    <3>1. Step(p, "look for others", "idle", Nothing)
      BY <1>3, <2>3 DEF LookForOthers
    <3>2. pc'[p] = "idle"
      BY <1>a, <3>1
    <3> QED
      BY <3>2
  <2> QED
    BY <2>2, <2>3
<1>4. CASE BeginComplete(p)
  <2>1. PICK f : Begin(p, "read task", Job(f, "completed", {}))
    BY <1>4 DEF BeginComplete
  <2>2. pc'[p] = "read task" /\ mem'[p] = Job(f, "completed", {}) /\ UNCHANGED <<active, archive>>
    BY <1>a, <2>1 DEF Begin
  <2>3. mem'[p].text = "completed"
    <3>1. Job(f, "completed", {}).text = "completed"
      BY DEF Job
    <3> QED
      BY <2>2, <3>1
  <2> QED
    BY <1>f, <2>2, <2>3
<1>5. CASE BeginArchive(p)
  <2>1. PICK f : Begin(p, "move", Job(f, "completed", {}))
    BY <1>5 DEF BeginArchive
  <2>2. pc'[p] = "move"
    BY <1>a, <2>1 DEF Begin
  <2> QED
    BY <1>f, <2>2
<1>6. CASE BeginArchiveAll(p)
  <2>1. PICK memory : Begin(p, "next completed", memory)
    BY <1>6 DEF BeginArchiveAll
  <2>2. pc'[p] = "next completed"
    BY <1>a, <2>1 DEF Begin
  <2> QED
    BY <1>f, <2>2
<1>7. CASE NextCompleted(p)
  <2>1. PICK rest, f :
          \/ Step(p, "next completed", "move", Job(f, "completed", rest))
          \/ Step(p, "next completed", Onward(rest), Job(Closed, "completed", rest))
          \/ Step(p, "next completed", "idle", Nothing)
    BY <1>7 DEF NextCompleted
  <2>2. pc'[p] \in {"move", "next completed", "idle"}
    BY <1>a, <2>1 DEF Onward
  <2> QED
    BY <1>f, <2>2
<1>8. CASE Move(p)
  <2>1. Step(p, "move", Onward(mem[p].rest), mem[p]) \/ Step(p, "move", "idle", Nothing)
    BY <1>8 DEF Move
  <2>2. pc'[p] \in {"next completed", "idle"}
    BY <1>a, <2>1 DEF Onward
  <2> QED
    BY <1>f, <2>2
<1>9. CASE ReadTask(p)
  <2>1. UNCHANGED <<active, archive>> /\ pc[p] = "read task"
    BY <1>9 DEF ReadTask, Looks, dirs
  <2>2. CASE mem[p].file \in DOMAIN active
    <3>1. PICK text \in {"torn", mem[p].text} :
            Step(p, "read task", "truncate task", Job(mem[p].file, text, {}))
      BY <1>9, <2>2 DEF ReadTask
    <3>2. pc'[p] = "truncate task" /\ mem'[p] = Job(mem[p].file, text, {})
      BY <1>a, <3>1
    <3>3. mem'[p].file = mem[p].file /\ mem'[p].text = text
      <4>1. Job(mem[p].file, text, {}).file = mem[p].file /\ Job(mem[p].file, text, {}).text = text
        BY DEF Job
      <4> QED
        BY <3>2, <4>1
    <3> QED
      BY <1>f, <2>1, <3>2, <3>3
  <2>3. CASE mem[p].file \notin DOMAIN active
    <3>1. Step(p, "read task", "idle", Nothing)
      BY <1>9, <2>3 DEF ReadTask
    <3>2. pc'[p] = "idle"
      BY <1>a, <3>1
    <3> QED
      BY <3>2
  <2> QED
    BY <2>2, <2>3
<1>10. CASE TruncateTask(p)
  <2>1. Step(p, "truncate task", "fill task", mem[p])
    BY <1>10 DEF TruncateTask
  <2> QED
    <3>1. pc'[p] = "fill task" /\ mem'[p] = mem[p]
      BY <1>a, <2>1
    <3> QED
      BY <1>10, <1>f, <3>1
<1>11. CASE FillTask(p)
  <2>1. Step(p, "fill task", "idle", Nothing)
    BY <1>11 DEF FillTask
  <2>2. pc'[p] = "idle"
    BY <1>a, <2>1
  <2> QED
    BY <2>2
<1>12. CASE Kill(p)
  <2>1. Step(p, pc[p], "idle", Nothing)
    BY <1>12 DEF Kill
  <2>2. pc'[p] = "idle"
    BY <1>a, <2>1
  <2> QED
    BY <2>2
<1> QED
  BY <1>1, <1>2, <1>3, <1>4, <1>5, <1>6, <1>7, <1>8, <1>9, <1>10, <1>11, <1>12 DEF TaskStep

-----------------------------------------------------------------------------
(* What a process nobody wrote into still knows when it writes. *)

UnseenId(p) == \A f \in Parsed(active) \cup Parsed(archive) : IdOf(f) # IdOf(mem[p].file)

(* A process about to create knows a number no document has; one about to
   start a task has seen no other active one. *)
TaskAloneInv ==
  /\ \A p \in Procs : pc[p] = "look for others" => mem[p].text = "active"
  /\ \A p \in Procs : pc[p] = "read task" => mem[p].text \in {"active", "completed"}
  /\ \A p \in Procs :
       pc[p] = "truncate task" /\ mem[p].text = "pending" /\ p \notin disturbed => UnseenId(p)
  /\ \A p \in Procs :
       /\ pc[p] \in {"read task", "truncate task", "fill task"}
       /\ mem[p].text = "active" /\ p \notin disturbed
       => OthersActive(mem[p].file) = {}

(* A step keeps what another process knows. *)
LEMMA AloneOther ==
  ASSUME Placed, TaskAloneInv, NEW p \in Procs, TaskStep(p), NEW q \in Procs \ {p}
  PROVE  /\ pc'[q] = "look for others" => mem'[q].text = "active"
         /\ pc'[q] = "read task" => mem'[q].text \in {"active", "completed"}
         /\ pc'[q] = "truncate task" /\ mem'[q].text = "pending" /\ q \notin disturbed'
              => UnseenId(q)'
         /\ /\ pc'[q] \in {"read task", "truncate task", "fill task"}
            /\ mem'[q].text = "active" /\ q \notin disturbed'
            => OthersActive(mem[q].file)'  = {}
<1>1. /\ pc'[q] = pc[q] /\ mem'[q] = mem[q]
      /\ pc[q] \in TaskPoints /\ q \notin disturbed' =>
           q \notin disturbed /\ UNCHANGED <<active, archive>>
  BY TaskOthersKeep
<1>2. ASSUME pc'[q] = "truncate task", mem'[q].text = "pending", q \notin disturbed'
      PROVE  UnseenId(q)'
  <2>1. pc[q] \in TaskPoints
    BY <1>1, <1>2 DEF TaskPoints
  <2>2. UnseenId(q) /\ UNCHANGED <<active, archive>>
    BY <1>1, <1>2, <2>1 DEF TaskAloneInv
  <2> QED
    BY <1>1, <2>2 DEF UnseenId, Parsed
<1>3. ASSUME pc'[q] \in {"read task", "truncate task", "fill task"},
             mem'[q].text = "active", q \notin disturbed'
      PROVE  OthersActive(mem[q].file)' = {}
  <2>1. pc[q] \in TaskPoints
    BY <1>1, <1>3 DEF TaskPoints
  <2>2. OthersActive(mem[q].file) = {} /\ UNCHANGED <<active, archive>>
    BY <1>1, <1>3, <2>1 DEF TaskAloneInv
  <2> QED
    BY <1>1, <2>2 DEF OthersActive, Parsed
<1> QED
  BY <1>1, <1>2, <1>3 DEF TaskAloneInv

(* A step of a process itself finds out what it needs, or keeps it. *)
LEMMA AloneOwn ==
  ASSUME Placed, TaskAloneInv, NEW p \in Procs, TaskStep(p)
  PROVE  /\ pc'[p] = "look for others" => mem'[p].text = "active"
         /\ pc'[p] = "read task" => mem'[p].text \in {"active", "completed"}
         /\ pc'[p] = "truncate task" /\ mem'[p].text = "pending" /\ p \notin disturbed'
              => UnseenId(p)'
         /\ /\ pc'[p] \in {"read task", "truncate task", "fill task"}
            /\ mem'[p].text = "active" /\ p \notin disturbed'
            => OthersActive(mem[p].file)' = {}
<1>1. ASSUME pc'[p] = "look for others" PROVE mem'[p].text = "active"
  BY <1>1, Arrival
<1>2. ASSUME pc'[p] = "read task"
      PROVE  /\ mem'[p].text \in {"active", "completed"}
             /\ mem'[p].text = "active" => OthersActive(mem[p].file)' = {}
  <2>1. UNCHANGED <<active, archive>>
    BY <1>2, Arrival
  <2>2. CASE mem'[p].text = "completed"
    BY <2>2
  <2>3. CASE pc[p] = "look for others" /\ mem'[p] = mem[p] /\ OthersActive(mem[p].file) = {}
    <3>1. mem'[p].text = "active"
      BY <2>3 DEF TaskAloneInv
    <3>2. OthersActive(mem[p].file)' = {}
      BY <2>1, <2>3 DEF OthersActive, Parsed
    <3> QED
      BY <3>1, <3>2
  <2> QED
    BY <1>2, <2>2, <2>3, Arrival
<1>3. ASSUME pc'[p] = "truncate task", p \notin disturbed'
      PROVE  /\ mem'[p].text = "pending" => UnseenId(p)'
             /\ mem'[p].text = "active" => OthersActive(mem[p].file)' = {}
  <2>1. UNCHANGED <<active, archive>> /\ p \notin disturbed
    BY <1>3, Arrival
  <2>2. CASE /\ mem'[p].text = "pending"
             /\ \A f \in Listed : IdOf(f) < IdOf(mem'[p].file)
             /\ \A f \in Listed : IdOf(f) \in Nat
    <3>1. \A f \in Parsed(active) \cup Parsed(archive) : IdOf(f) # IdOf(mem'[p].file)
      BY <2>2 DEF Listed
    <3>2. UnseenId(p)'
      BY <2>1, <3>1 DEF UnseenId, Parsed
    <3> QED
      BY <2>2, <3>2
  <2>3. CASE /\ pc[p] = "read task" /\ mem'[p].file = mem[p].file
             /\ mem'[p].text \in {"torn", mem[p].text}
    <3>1. mem'[p].text # "pending"
      BY <2>3 DEF TaskAloneInv
    <3>2. ASSUME mem'[p].text = "active" PROVE OthersActive(mem[p].file)' = {}
      <4>1. OthersActive(mem[p].file) = {}
        BY <2>1, <2>3, <3>2 DEF TaskAloneInv
      <4> QED
        BY <2>1, <2>3, <4>1 DEF OthersActive, Parsed
    <3> QED
      BY <3>1, <3>2
  <2> QED
    BY <1>3, <2>2, <2>3, Arrival
<1>4. ASSUME pc'[p] = "fill task", mem'[p].text = "active", p \notin disturbed'
      PROVE  OthersActive(mem[p].file)' = {}
  <2>1. TruncateTask(p) /\ mem'[p] = mem[p] /\ p \notin disturbed
    BY <1>4, Arrival
  <2>2. pc[p] = "truncate task" /\ active' = With(active, mem[p].file, "torn")
    BY <2>1 DEF TruncateTask, Step
  <2>3. OthersActive(mem[p].file) = {}
    BY <1>4, <2>1, <2>2 DEF TaskAloneInv
  <2>4. Parsed(active') \subseteq Parsed(active) /\ \A f \in Parsed(active') : active'[f] = active[f]
    BY <2>2 DEF Parsed, With
  <2> QED
    BY <2>1, <2>3, <2>4 DEF OthersActive
<1> QED
  BY <1>1, <1>2, <1>3, <1>4

LEMMA TaskAloneStep ==
  ASSUME Placed, TaskAloneInv, [TaskNext]_taskVars
  PROVE  TaskAloneInv'
<1>1. CASE UNCHANGED taskVars
  BY <1>1 DEF taskVars, dirs, vars, TaskAloneInv, UnseenId, OthersActive, Parsed
<1>2. ASSUME NEW p \in Procs, TaskStep(p) PROVE TaskAloneInv'
  BY <1>2, AloneOther, AloneOwn DEF TaskAloneInv
<1> QED
  BY <1>1, <1>2 DEF TaskNext

LEMMA TaskAloneInit == TaskInit => TaskAloneInv
BY DEF TaskInit, Init, TaskAloneInv

LEMMA AloneAlways == TaskSpec => [](Placed /\ TaskAloneInv)
BY PlacedInit, PlacedNext, TaskAloneInit, TaskAloneStep, PTL DEF TaskSpec

(* A create nobody wrote into takes an id no readable document has. *)
THEOREM AloneCreatesNewTask == TaskSpec => AloneIsNewTask
<1>1. TaskAloneInv =>
        \A p \in Procs :
          TruncateTask(p) /\ mem[p].text = "pending" /\ p \notin disturbed =>
            \A f \in Parsed(active) \cup Parsed(archive) : IdOf(f) # IdOf(mem[p].file)
  BY DEF TaskAloneInv, UnseenId, TruncateTask, Step
<1> QED
  BY AloneAlways, <1>1, PTL DEF TaskSpec, AloneIsNewTask

(* After a start nobody wrote into no other task is active. *)
THEOREM AloneStartsAlone == TaskSpec => AloneStartsOne
<1>1. TaskAloneInv =>
        \A p \in Procs :
          FillTask(p) /\ mem[p].text = "active" /\ p \notin disturbed =>
            \A f \in Parsed(active') : active'[f] = "active" => IdOf(f) = IdOf(mem[p].file)
  <2> SUFFICES ASSUME TaskAloneInv, NEW p \in Procs, FillTask(p), mem[p].text = "active",
                      p \notin disturbed, NEW f \in Parsed(active'), active'[f] = "active"
               PROVE  IdOf(f) = IdOf(mem[p].file)
    OBVIOUS
  <2>1. pc[p] = "fill task" /\ WriteOut(p)
    BY DEF FillTask
  <2>2. OthersActive(mem[p].file) = {}
    BY <2>1 DEF TaskAloneInv
  <2>3. active' = active \/ active' = With(active, mem[p].file, mem[p].text)
    BY <2>1 DEF WriteOut
  <2>4. CASE f = mem[p].file
    BY <2>4
  <2>5. CASE f # mem[p].file
    <3>1. f \in DOMAIN active /\ active[f] = "active"
      BY <2>3, <2>5 DEF Parsed, With
    <3> QED
      BY <2>2, <3>1 DEF OthersActive, Parsed
  <2> QED
    BY <2>4, <2>5
<1> QED
  BY AloneAlways, <1>1, PTL DEF TaskSpec, AloneStartsOne

-----------------------------------------------------------------------------
(* As long as no write fell into another command: a file is in one of the two
   directories, and only what a command found readable is moved. *)

Settled ==
  /\ DOMAIN active \cap DOMAIN archive = {}
  /\ \A f \in DOMAIN archive : archive[f] # "torn"
  /\ \A p \in Procs : pc[p] \in Naming => mem[p].file \notin DOMAIN archive
  /\ \A p \in Procs : pc[p] = "move" => mem[p].file \in Parsed(active)
  /\ \A p \in Procs : pc[p] = "fill task" =>
       mem[p].file \in DOMAIN active /\ writing[p] = <<"active", mem[p].file>>

ArchiveInv == DOMAIN writing = Procs /\ (~raced => Settled)

(* Whoever writes while nobody is disturbed is the only one at work. *)
LEMMA OnlyWriter ==
  ASSUME Placed, NEW p \in Procs, TaskStep(p), Writes(p), ~raced'
  PROVE  ~raced /\ \A q \in Procs \ {p} : pc'[q] = "idle"
<1>1. ~raced /\ disturbed' = {}
  BY DEF Writes
<1>2. \A q \in Procs \ {p} : pc'[q] \in {"idle", "seq"}
  BY <1>1 DEF Writes, Disturb
<1>3. \A q \in Procs \ {p} : pc'[q] \in TaskPoints \cup {"idle"}
  BY TaskOthersKeep DEF Placed
<1> QED
  BY <1>1, <1>2, <1>3 DEF TaskPoints

(* A step that only looks, to a place where it names a settled document. *)
LEMMA LookSettled ==
  ASSUME Placed, DOMAIN writing = Procs, Settled, NEW p \in Procs, TaskStep(p),
         UNCHANGED <<active, archive>>, pc'[p] # "fill task",
         \A q \in Procs \ {p} : writing'[q] = writing[q],
         pc'[p] \in Naming => mem'[p].file \notin DOMAIN archive,
         pc'[p] = "move" => mem'[p].file \in Parsed(active)
  PROVE  Settled'
<1>1. \A q \in Procs \ {p} : pc'[q] = pc[q] /\ mem'[q] = mem[q]
  BY TaskOthersKeep
<1>2. \A q \in Procs : pc'[q] \in Naming => mem'[q].file \notin DOMAIN archive'
  BY <1>1 DEF Settled
<1>3. \A q \in Procs : pc'[q] = "move" => mem'[q].file \in Parsed(active')
  BY <1>1 DEF Settled, Parsed
<1>4. \A q \in Procs : pc'[q] = "fill task" =>
        mem'[q].file \in DOMAIN active' /\ writing'[q] = <<"active", mem'[q].file>>
  BY <1>1 DEF Settled
<1> QED
  BY <1>2, <1>3, <1>4 DEF Settled, Parsed

(* The commands that look, one by one. *)
LEMMA LooksSettle ==
  ASSUME Placed, DOMAIN writing = Procs, Settled, NEW p \in Procs,
         \/ NumberTask(p) \/ BeginStart(p) \/ LookForOthers(p) \/ BeginComplete(p)
         \/ BeginArchive(p) \/ BeginArchiveAll(p) \/ NextCompleted(p) \/ ReadTask(p)
  PROVE  Settled'
<1>a. \A from, to, memory : Step(p, from, to, memory) => pc'[p] = to /\ mem'[p] = memory
  BY DEF Step, Placed
<1>b. TaskStep(p)
  BY DEF TaskStep
<1>c. \A f \in Parsed(active) : f \in DOMAIN active /\ f \notin DOMAIN archive
  BY DEF Settled, Parsed
<1>d. /\ {"look for others", "read task", "truncate task", "fill task", "move"} = Naming
      /\ "next completed" \notin Naming /\ "idle" \notin Naming
  BY DEF Naming, TaskPoints
<1>e. ASSUME NEW to, NEW memory, Begin(p, to, memory), to # "fill task",
             to \in Naming => memory.file \notin DOMAIN archive,
             to = "move" => memory.file \in Parsed(active)
      PROVE  Settled'
  <2>1. pc'[p] = to /\ mem'[p] = memory /\ UNCHANGED <<active, archive, writing>>
    BY <1>a, <1>e DEF Begin
  <2> QED
    BY <1>b, <1>e, <2>1, LookSettled
<1>f. ASSUME NEW f \in Parsed(active), NEW to, NEW text, NEW rest,
             Begin(p, to, Job(f, text, rest)), to # "fill task"
      PROVE  Settled'
  <2>1. Job(f, text, rest).file = f
    BY DEF Job
  <2> QED
    BY <1>c, <1>e, <1>f, <2>1
<1>1. CASE NumberTask(p)
  <2>1. PICK title \in Titles : Begin(p, "truncate task", Job(<<NextTask, title>>, "pending", {}))
    BY <1>1 DEF NumberTask
  <2>2. <<NextTask, title>> \notin DOMAIN archive
    <3> SUFFICES ASSUME <<NextTask, title>> \in DOMAIN archive PROVE FALSE
      OBVIOUS
    <3>1. <<NextTask, title>> \in Listed
      BY DEF Settled, Listed, Parsed
    <3>2. IdOf(<<NextTask, title>>) < NextTask /\ NextTask \in Nat
      BY <3>1, NumberIsNew DEF Placed
    <3>3. IdOf(<<NextTask, title>>) = NextTask
      BY DEF IdOf
    <3> QED
      BY <3>2, <3>3
  <2>3. Job(<<NextTask, title>>, "pending", {}).file = <<NextTask, title>>
    BY DEF Job
  <2> QED
    BY <1>e, <2>1, <2>2, <2>3
<1>2. CASE BeginStart(p)
  BY <1>2, <1>f DEF BeginStart
<1>3. CASE LookForOthers(p)
  <2>1. /\ pc[p] = "look for others" /\ UNCHANGED <<active, archive, writing>>
        /\ \/ Step(p, "look for others", "read task", mem[p])
           \/ Step(p, "look for others", "idle", Nothing)
    BY <1>3 DEF LookForOthers, Looks, dirs
  <2>2. mem[p].file \notin DOMAIN archive
    BY <1>d, <2>1 DEF Settled
  <2>3. ASSUME Step(p, "look for others", "read task", mem[p]) PROVE Settled'
    <3>1. pc'[p] = "read task" /\ mem'[p] = mem[p]
      BY <1>a, <2>3
    <3> QED
      BY <1>b, <2>1, <2>2, <3>1, LookSettled
  <2>4. ASSUME Step(p, "look for others", "idle", Nothing) PROVE Settled'
    <3>1. pc'[p] = "idle"
      BY <1>a, <2>4
    <3> QED
      BY <1>b, <1>d, <2>1, <3>1, LookSettled
  <2> QED
    BY <2>1, <2>3, <2>4
<1>4. CASE BeginComplete(p)
  BY <1>4, <1>f DEF BeginComplete
<1>5. CASE BeginArchive(p)
  BY <1>5, <1>f DEF BeginArchive
<1>6. CASE BeginArchiveAll(p)
  BY <1>6, <1>d, <1>e DEF BeginArchiveAll
<1>7. CASE NextCompleted(p)
  <2>1. UNCHANGED <<active, archive, writing>>
    BY <1>7 DEF NextCompleted, Looks, dirs
  <2>2. PICK rest :
          \/ \E f \in Parsed(active) : Step(p, "next completed", "move", Job(f, "completed", rest))
          \/ Step(p, "next completed", Onward(rest), Job(Closed, "completed", rest))
          \/ Step(p, "next completed", "idle", Nothing)
    BY <1>7 DEF NextCompleted
  <2>3. ASSUME NEW f \in Parsed(active),
               Step(p, "next completed", "move", Job(f, "completed", rest))
        PROVE  Settled'
    <3>1. pc'[p] = "move" /\ mem'[p] = Job(f, "completed", rest)
      BY <1>a, <2>3
    <3>2. Job(f, "completed", rest).file = f
      BY DEF Job
    <3> QED
      BY <1>b, <1>c, <2>1, <3>1, <3>2, LookSettled
  <2>4. ASSUME \/ Step(p, "next completed", Onward(rest), Job(Closed, "completed", rest))
               \/ Step(p, "next completed", "idle", Nothing)
        PROVE  Settled'
    <3>1. pc'[p] = "next completed" \/ pc'[p] = "idle"
      BY <1>a, <2>4 DEF Onward
    <3> QED
      BY <1>b, <1>d, <2>1, <3>1, LookSettled
  <2> QED
    BY <2>2, <2>3, <2>4
<1>8. CASE ReadTask(p)
  <2>1. pc[p] = "read task" /\ UNCHANGED <<active, archive, writing>>
    BY <1>8 DEF ReadTask, Looks, dirs
  <2>2. \/ \E text : Step(p, "read task", "truncate task", Job(mem[p].file, text, {}))
        \/ Step(p, "read task", "idle", Nothing)
    BY <1>8 DEF ReadTask
  <2>3. mem[p].file \notin DOMAIN archive
    BY <1>d, <2>1 DEF Settled
  <2>4. ASSUME NEW text, Step(p, "read task", "truncate task", Job(mem[p].file, text, {}))
        PROVE  Settled'
    <3>1. pc'[p] = "truncate task" /\ mem'[p] = Job(mem[p].file, text, {})
      BY <1>a, <2>4
    <3>2. Job(mem[p].file, text, {}).file = mem[p].file
      BY DEF Job
    <3> QED
      BY <1>b, <2>1, <2>3, <3>1, <3>2, LookSettled
  <2>5. ASSUME Step(p, "read task", "idle", Nothing) PROVE Settled'
    <3>1. pc'[p] = "idle"
      BY <1>a, <2>5
    <3> QED
      BY <1>b, <1>d, <2>1, <3>1, LookSettled
  <2> QED
    BY <2>2, <2>4, <2>5
<1> QED
  BY <1>1, <1>2, <1>3, <1>4, <1>5, <1>6, <1>7, <1>8

(* The commands that write, when nobody else is at work. *)
LEMMA WritesSettle ==
  ASSUME Placed, DOMAIN writing = Procs, Settled, NEW p \in Procs,
         TaskStep(p), \A q \in Procs \ {p} : pc'[q] = "idle",
         Move(p) \/ TruncateTask(p) \/ FillTask(p) \/ Kill(p)
  PROVE  Settled'
<1>a. \A from, to, memory : Step(p, from, to, memory) => pc'[p] = to /\ mem'[p] = memory
  BY DEF Step, Placed
<1>b. /\ {"look for others", "read task", "truncate task", "fill task", "move"} = Naming
      /\ "next completed" \notin Naming /\ "idle" \notin Naming
  BY DEF Naming, TaskPoints
(* Whoever is idle now names nothing. *)
<1>c. ASSUME DOMAIN active' \cap DOMAIN archive' = {},
             \A f \in DOMAIN archive' : archive'[f] # "torn",
             pc'[p] \notin Naming
      PROVE  Settled'
  <2>1. \A q \in Procs : pc'[q] \notin Naming
    BY <1>b, <1>c
  <2> QED
    BY <1>b, <1>c, <2>1 DEF Settled
<1>1. CASE Move(p)
  <2>1. pc[p] = "move" /\ mem[p].file \in Parsed(active) /\ mem[p].file \notin DOMAIN archive
    BY <1>1, <1>b DEF Move, Settled
  <2>2. mem[p].file \in DOMAIN active /\ active[mem[p].file] # "torn"
    BY <2>1 DEF Parsed
  <2>3. /\ Step(p, "move", Onward(mem[p].rest), mem[p])
        /\ DOMAIN active' = DOMAIN active \ {mem[p].file}
        /\ archive' = With(archive, mem[p].file, active[mem[p].file])
    BY <1>1, <2>2 DEF Move
  <2>4. pc'[p] \notin Naming
    BY <1>a, <1>b, <2>3 DEF Onward
  <2>5. DOMAIN active' \cap DOMAIN archive' = {} /\ \A f \in DOMAIN archive' : archive'[f] # "torn"
    BY <2>2, <2>3 DEF With, Settled
  <2> QED
    BY <1>c, <2>4, <2>5
<1>2. CASE TruncateTask(p)
  <2>1. /\ pc[p] = "truncate task" /\ Step(p, "truncate task", "fill task", mem[p])
        /\ active' = With(active, mem[p].file, "torn") /\ UNCHANGED archive
        /\ writing' = [writing EXCEPT ![p] = <<"active", mem[p].file>>]
    BY <1>2 DEF TruncateTask, Step
  <2>2. pc'[p] = "fill task" /\ mem'[p] = mem[p]
    BY <1>a, <2>1
  <2>3. mem[p].file \notin DOMAIN archive
    BY <1>b, <2>1 DEF Settled
  <2>4. DOMAIN active' = DOMAIN active \cup {mem[p].file} /\ writing'[p] = <<"active", mem[p].file>>
    BY <2>1 DEF With
  <2>5. DOMAIN active' \cap DOMAIN archive' = {} /\ \A f \in DOMAIN archive' : archive'[f] # "torn"
    BY <2>1, <2>3, <2>4 DEF Settled
  <2>6. \A q \in Procs : pc'[q] \in Naming => q = p
    BY <1>b
  <2>7. \A q \in Procs : pc'[q] # "move" /\ (pc'[q] = "fill task" => q = p)
    BY <2>2
  <2> QED
    BY <2>1, <2>2, <2>3, <2>4, <2>5, <2>6, <2>7 DEF Settled
<1>3. ASSUME pc[p] = "fill task", WriteOut(p), pc'[p] = "idle" PROVE Settled'
  <2>1. mem[p].file \in DOMAIN active /\ writing[p] = <<"active", mem[p].file>>
    BY <1>3 DEF Settled
  <2>2. DOMAIN active' = DOMAIN active /\ archive' = archive
    <3>1. CASE mem[p].text # "torn"
      <4>1. writing[p] # <<"archive", mem[p].file>>
        BY <2>1
      <4>2. active' = With(active, mem[p].file, mem[p].text) /\ archive' = archive
        BY <1>3, <2>1, <3>1, <4>1 DEF WriteOut
      <4> QED
        BY <2>1, <4>2 DEF With
    <3>2. CASE mem[p].text = "torn"
      BY <1>3, <3>2 DEF WriteOut
    <3> QED
      BY <3>1, <3>2
  <2> QED
    BY <1>b, <1>c, <1>3, <2>2 DEF Settled
<1>4. CASE FillTask(p)
  BY <1>3, <1>4, <1>a DEF FillTask
<1>5. CASE Kill(p)
  <2>1. pc'[p] = "idle"
    BY <1>5, <1>a DEF Kill
  <2>2. (pc[p] = "fill task" /\ WriteOut(p)) \/ UNCHANGED <<active, archive>>
    BY <1>5 DEF Kill
  <2>3. ASSUME UNCHANGED <<active, archive>> PROVE Settled'
    BY <1>b, <1>c, <2>1, <2>3 DEF Settled
  <2> QED
    BY <1>3, <2>1, <2>2, <2>3
<1> QED
  BY <1>1, <1>2, <1>4, <1>5

LEMMA WritingKept ==
  ASSUME DOMAIN writing = Procs, NEW p \in Procs, TaskStep(p)
  PROVE  DOMAIN writing' = Procs
BY DEF TaskStep, NumberTask, BeginStart, LookForOthers, BeginComplete, BeginArchive,
       BeginArchiveAll, NextCompleted, Move, ReadTask, TruncateTask, FillTask, Kill,
       Begin, Looks, dirs

(* Every step keeps the directories settled until a write falls into another
   command. *)
LEMMA ArchiveStep ==
  ASSUME Placed, ArchiveInv, [TaskNext]_taskVars
  PROVE  ArchiveInv'
<1>1. CASE UNCHANGED taskVars
  BY <1>1 DEF taskVars, dirs, vars, ArchiveInv, Settled, Parsed
<1>2. ASSUME NEW p \in Procs, TaskStep(p), ~raced' PROVE Settled'
  <2>1. ASSUME \/ NumberTask(p) \/ BeginStart(p) \/ LookForOthers(p) \/ BeginComplete(p)
               \/ BeginArchive(p) \/ BeginArchiveAll(p) \/ NextCompleted(p) \/ ReadTask(p)
        PROVE  Settled'
    <3>1. raced' = raced
      BY <2>1 DEF NumberTask, BeginStart, LookForOthers, BeginComplete, BeginArchive,
                  BeginArchiveAll, NextCompleted, ReadTask, Begin, Looks, Reads
    <3>2. Settled /\ DOMAIN writing = Procs
      BY <1>2, <3>1 DEF ArchiveInv
    <3> QED
      BY <2>1, <3>2, LooksSettle
  <2>2. ASSUME Writes(p), Move(p) \/ TruncateTask(p) \/ FillTask(p) \/ Kill(p) PROVE Settled'
    <3>1. ~raced /\ \A q \in Procs \ {p} : pc'[q] = "idle"
      BY <1>2, <2>2, OnlyWriter
    <3>2. Settled /\ DOMAIN writing = Procs
      BY <3>1 DEF ArchiveInv
    <3> QED
      BY <1>2, <2>2, <3>1, <3>2, WritesSettle
  <2>3. ASSUME Reads(p), UNCHANGED <<active, archive>>, NEW from, Step(p, from, "idle", Nothing),
               \A q \in Procs \ {p} : writing'[q] = writing[q]
        PROVE  Settled'
    <3>1. Settled /\ DOMAIN writing = Procs
      BY <1>2, <2>3 DEF Reads, ArchiveInv
    <3>2. pc'[p] = "idle"
      BY <2>3 DEF Step, Placed
    <3>3. pc'[p] \notin Naming /\ pc'[p] # "move" /\ pc'[p] # "fill task"
      BY <3>2 DEF Naming, TaskPoints
    <3> QED
      BY <1>2, <2>3, <3>1, <3>3, LookSettled
  <2>4. CASE Move(p)
    <3>1. CASE mem[p].file \in DOMAIN active
      <4>1. Writes(p)
        BY <2>4, <3>1 DEF Move
      <4> QED
        BY <2>2, <2>4, <4>1
    <3>2. CASE mem[p].file \notin DOMAIN active
      <4>1. /\ Step(p, "move", "idle", Nothing) /\ Reads(p)
            /\ UNCHANGED <<active, archive, writing>>
        BY <2>4, <3>2 DEF Move, Looks, dirs
      <4> QED
        BY <2>3, <4>1
    <3> QED
      BY <3>1, <3>2
  <2>5. CASE Kill(p)
    <3>1. Step(p, pc[p], "idle", Nothing) /\ writing' = [writing EXCEPT ![p] = Closed]
      BY <2>5 DEF Kill
    <3>2. \A q \in Procs \ {p} : writing'[q] = writing[q]
      BY <3>1, <1>2 DEF ArchiveInv
    <3>3. Writes(p) \/ (Reads(p) /\ UNCHANGED <<active, archive>>)
      BY <2>5 DEF Kill
    <3> QED
      BY <2>2, <2>3, <2>5, <3>1, <3>2, <3>3
  <2>6. ASSUME TruncateTask(p) \/ FillTask(p) PROVE Settled'
    <3>1. Writes(p)
      BY <2>6 DEF TruncateTask, FillTask
    <3> QED
      BY <2>2, <2>6, <3>1
  <2> QED
    BY <1>2, <2>1, <2>4, <2>5, <2>6 DEF TaskStep
<1> QED
  BY <1>1, <1>2, WritingKept DEF TaskNext, ArchiveInv

LEMMA ArchiveInit == TaskInit => ArchiveInv
<1> SUFFICES ASSUME TaskInit PROVE ArchiveInv
  OBVIOUS
<1>1. PICK ledger \in Ledgers : active = ledger.active /\ archive = ledger.archive
  BY DEF TaskInit
<1>2. /\ DOMAIN active \cap DOMAIN archive = {}
      /\ \A f \in DOMAIN archive : archive[f] = "completed"
  BY <1>1, TasksAssumption
<1>3. DOMAIN writing = Procs /\ \A p \in Procs : pc[p] = "idle"
  BY DEF TaskInit, Init
<1> QED
  BY <1>2, <1>3 DEF ArchiveInv, Settled, Naming, TaskPoints

(* Nothing is moved over an archived document until a write falls into another
   command, wherever commands are killed. *)
THEOREM ArchivedStays == TaskSpec => ArchiveKept
<1>1. ArchiveInv => \A p \in Procs : Move(p) /\ ~raced => mem[p].file \notin DOMAIN archive
  BY DEF ArchiveInv, Settled, Move, Naming, TaskPoints
<1>2. TaskSpec => [](Placed /\ ArchiveInv)
  BY PlacedInit, PlacedNext, ArchiveInit, ArchiveStep, PTL DEF TaskSpec
<1> QED
  BY <1>1, <1>2, PTL DEF TaskSpec, ArchiveKept


=============================================================================
