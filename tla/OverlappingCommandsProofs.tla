--------------------- MODULE OverlappingCommandsProofs ---------------------
(***************************************************************************)
(* Theorems about OverlappingCommands, for every set of processes, source  *)
(* states, profiles, judgments and starting states and every bound.        *)
(***************************************************************************)
EXTENDS OverlappingCommands, WorkflowStateProofs, FiniteSetTheorems

-----------------------------------------------------------------------------
(* Types. *)

(* The control state of the processes is well formed. *)
ControlOK ==
  /\ pc \in [Procs -> Points]
  /\ DOMAIN mem = Procs
  /\ \A p \in Procs : mem[p] \in Memories(pc[p])

(* The files are well formed. *)
FilesOK ==
  /\ source \in Sources
  /\ doc \in {"active", "completed", "empty"}
  /\ state \in WorkflowStates \cup {Torn}
  /\ DOMAIN verdicts \subseteq 1 .. MaxVerdicts
  /\ \A i \in DOMAIN verdicts : verdicts[i] \in Records \cup {Torn}

(* TypeOK is these two and the type of the history variable. *)
LEMMA TypeParts == TypeOK <=> ControlOK /\ FilesOK /\ disturbed \subseteq Procs
BY DEF TypeOK, ControlOK, FilesOK

(* One step of a command keeps the control state well formed. *)
LEMMA StepType ==
  ASSUME ControlOK, NEW p \in Procs, NEW from, NEW to \in Points,
         NEW memory \in Memories(to), Step(p, from, to, memory)
  PROVE  ControlOK'
<1>1. pc' = [pc EXCEPT ![p] = to] /\ mem' = [mem EXCEPT ![p] = memory]
  BY DEF Step
<1>2. pc' \in [Procs -> Points] /\ DOMAIN mem' = Procs
  BY <1>1 DEF ControlOK
<1>3. ASSUME NEW q \in Procs PROVE mem'[q] \in Memories(pc'[q])
  BY <1>1 DEF ControlOK
<1>4. \A q \in Procs : mem'[q] \in Memories(pc'[q])
  BY <1>3
<1> QED
  BY <1>2, <1>4 DEF ControlOK

(* What a process that waits at each point remembers. *)
LEMMA MemoriesAt ==
  /\ Memories("truncate") = WorkflowStates /\ Memories("fill") = WorkflowStates
  /\ Memories("advance") = [to : AllStages]
  /\ Memories("list") = Records
  /\ Memories("create") = [record : Records, slot : 1 .. MaxVerdicts]
  /\ Memories("store") = [record : Records, slot : 1 .. MaxVerdicts]
  /\ Memories("again") = [judged : Bindings]
  /\ Memories("compare") = [judged : Bindings, again : Bindings]
  /\ \A at \in {"close", "blank", "lose", "complete"} :
       Memories(at) = {Nothing} \cup [judged : Bindings, found : Bindings]
  /\ Memories("idle") = {Nothing} /\ Memories("judge") = {Nothing}
BY DEF Memories

(* What a process is about to write, or to compare. *)
LEMMA Remembered ==
  ASSUME ControlOK, NEW p \in Procs
  PROVE  /\ pc[p] \in {"create", "store"} =>
              mem[p].record \in Records /\ mem[p].slot \in 1 .. MaxVerdicts
         /\ pc[p] \in {"again", "compare"} => mem[p].judged \in Bindings
         /\ pc[p] = "compare" => mem[p].again \in Bindings
<1>1. mem[p] \in Memories(pc[p])
  BY DEF ControlOK
<1>2. CASE pc[p] \in {"create", "store"}
  <2>1. mem[p] \in [record : Records, slot : 1 .. MaxVerdicts]
    BY <1>1, <1>2, MemoriesAt
  <2> QED
    BY <1>2, <2>1
<1>3. CASE pc[p] = "again"
  <2>1. mem[p] \in [judged : Bindings]
    BY <1>1, <1>3, MemoriesAt
  <2> QED
    BY <1>3, <2>1
<1>4. CASE pc[p] = "compare"
  <2>1. mem[p] \in [judged : Bindings, again : Bindings]
    BY <1>1, <1>4, MemoriesAt
  <2> QED
    BY <1>4, <2>1
<1> QED
  BY <1>2, <1>3, <1>4

(* The binding of a state file that parses is well typed. *)
LEMMA BindingType ==
  ASSUME FilesOK, state # Torn
  PROVE  Binding \in Bindings
BY DEF FilesOK, Binding, Bindings, WorkflowStates, NoState

(* The verdict files are numbered from 1, and a process that is about to write
   one holds a number that keeps them so. *)
Numbered ==
  \E n \in 0 .. MaxVerdicts :
    /\ DOMAIN verdicts = 1 .. n
    /\ \A p \in Procs :
         /\ pc[p] = "create" => mem[p].slot <= n + 1
         /\ pc[p] = "store" => mem[p].slot <= n

OverlapInv ==
  /\ ControlOK
  /\ FilesOK
  /\ disturbed \subseteq Procs
  /\ Numbered

(* What NoGaps says of the files that Numbered describes, and what the store
   makes of them: the next slot, and the latest verdict. *)
LEMMA NumberedFiles ==
  ASSUME NEW n \in Nat, DOMAIN verdicts = 1 .. n
  PROVE  /\ NoGaps
         /\ NextSlot(verdicts) = n + 1
         /\ n > 0 => LatestOf(verdicts) = verdicts[n]
<1>1. Cardinality(1 .. n) = n
  BY FS_Interval
<1>2. ASSUME n > 0 PROVE LatestOf(verdicts) = verdicts[n]
  <2>1. n \in 1 .. n /\ \A j \in 1 .. n : n >= j
    BY <1>2
  <2>2. \A k \in 1 .. n : (\A j \in 1 .. n : k >= j) => k = n
    BY <2>1
  <2>3. (CHOOSE i \in 1 .. n : \A j \in 1 .. n : i >= j) = n
    BY <2>1, <2>2
  <2> QED
    BY <2>3 DEF LatestOf
<1> QED
  BY <1>1, <1>2 DEF NoGaps, NextSlot

(* A step to a point where no verdict is written. *)
LEMMA MoveStep ==
  ASSUME OverlapInv, NEW p \in Procs, NEW from,
         NEW to \in Points \ {"create", "store"}, NEW memory \in Memories(to),
         Step(p, from, to, memory), UNCHANGED verdicts
  PROVE  ControlOK' /\ Numbered'
<1>1. ControlOK'
  BY StepType DEF OverlapInv
<1>2. pc' = [pc EXCEPT ![p] = to] /\ mem' = [mem EXCEPT ![p] = memory]
  BY DEF Step
<1>3. Numbered'
  <2>1. PICK n \in 0 .. MaxVerdicts :
          /\ DOMAIN verdicts = 1 .. n
          /\ \A q \in Procs :
               /\ pc[q] = "create" => mem[q].slot <= n + 1
               /\ pc[q] = "store" => mem[q].slot <= n
    BY DEF OverlapInv, Numbered
  <2>2. \A q \in Procs : /\ pc'[q] = "create" => mem'[q].slot <= n + 1
                         /\ pc'[q] = "store" => mem'[q].slot <= n
    BY <1>2, <2>1 DEF OverlapInv, ControlOK
  <2> QED
    BY <2>1, <2>2 DEF Numbered
<1> QED
  BY <1>1, <1>3

(* A step that only reads, to a point where no verdict is written. *)
LEMMA ReadStep ==
  ASSUME OverlapInv, NEW p \in Procs, NEW from,
         NEW to \in Points \ {"create", "store"}, NEW memory \in Memories(to),
         Step(p, from, to, memory), Reads(p)
  PROVE  OverlapInv'
<1>1. UNCHANGED files /\ disturbed' \subseteq Procs
  BY DEF Reads, OverlapInv
<1>2. ControlOK' /\ Numbered'
  BY <1>1, MoveStep DEF files
<1>3. FilesOK'
  BY <1>1 DEF OverlapInv, FilesOK, files
<1> QED
  BY <1>1, <1>2, <1>3 DEF OverlapInv

-----------------------------------------------------------------------------
(* The commands, one after the other. *)

(* ackit workflow set | verify | advance keep the invariant. *)
LEMMA WorkflowCommands ==
  ASSUME OverlapInv, NEW p \in Procs
  PROVE  \/ LoadForSet(p) \/ LoadForAttempt(p) \/ CheckAdvance(p)
         \/ LoadForAdvance(p) \/ TruncateState(p) \/ FillState(p)
         => OverlapInv'
<1>1. /\ {"idle", "truncate", "fill", "advance"} \subseteq Points \ {"create", "store"}
      /\ state # Torn => state \in WorkflowStates
      /\ Nothing \in Memories("idle")
  BY MemoriesAt DEF Points, OverlapInv, FilesOK
<1>2. ASSUME LoadForSet(p) PROVE OverlapInv'
  <2>1. PICK profile \in UsedProfiles :
          Step(p, "idle", "truncate", SetProfileOf(state, profile))
    BY <1>2 DEF LoadForSet
  <2>2. SetProfileOf(state, profile) \in Memories("truncate")
    BY <1>1, <1>2, SetProfileType, MemoriesAt, OverlapAssumption DEF LoadForSet
  <2> QED
    BY <1>1, <1>2, <2>1, <2>2, ReadStep DEF LoadForSet
<1>3. ASSUME LoadForAttempt(p) PROVE OverlapInv'
  <2>1. PICK outcome \in Outcomes :
          Step(p, "idle", "truncate", AttemptOf(state, outcome))
    BY <1>3 DEF LoadForAttempt
  <2>2. AttemptOf(state, outcome) \in Memories("truncate")
    BY <1>1, <1>3, AttemptType, MemoriesAt DEF LoadForAttempt
  <2> QED
    BY <1>1, <1>3, <2>1, <2>2, ReadStep DEF LoadForAttempt
<1>4. ASSUME CheckAdvance(p) PROVE OverlapInv'
  <2>1. PICK to \in Targets : Step(p, "idle", "advance", [to |-> to])
    BY <1>4 DEF CheckAdvance
  <2>2. [to |-> to] \in Memories("advance")
    BY MemoriesAt, OverlapAssumption
  <2> QED
    BY <1>1, <1>4, <2>1, <2>2, ReadStep DEF CheckAdvance
<1>5. ASSUME LoadForAdvance(p) PROVE OverlapInv'
  <2>1. CASE state # Torn /\ Enabled(state) /\ Adjacent(state, mem[p].to)
    <3>1. Step(p, "advance", "truncate", AdvanceOf(state, mem[p].to))
      BY <1>5, <2>1 DEF LoadForAdvance
    <3>2. mem[p].to \in StagesOf(state.profile)
      BY <2>1 DEF Adjacent, CanAdvance
    <3>3. AdvanceOf(state, mem[p].to) \in Memories("truncate")
      BY <1>1, <2>1, <3>2, AdvanceType, MemoriesAt
    <3> QED
      BY <1>1, <1>5, <3>1, <3>3, ReadStep DEF LoadForAdvance
  <2>2. CASE ~(state # Torn /\ Enabled(state) /\ Adjacent(state, mem[p].to))
    <3>1. Step(p, "advance", "idle", Nothing)
      BY <1>5, <2>2 DEF LoadForAdvance
    <3> QED
      BY <1>1, <1>5, <3>1, ReadStep DEF LoadForAdvance
  <2> QED
    BY <2>1, <2>2
<1>6. ASSUME TruncateState(p) PROVE OverlapInv'
  <2>1. /\ Step(p, "truncate", "fill", mem[p])
        /\ UNCHANGED <<source, doc, verdicts>> /\ state' = Torn
        /\ disturbed' \subseteq Procs
    BY <1>6 DEF TruncateState, Disturb
  <2>2. mem[p] \in Memories("fill")
    BY <2>1, MemoriesAt DEF Step, OverlapInv, ControlOK
  <2>3. ControlOK' /\ Numbered'
    BY <1>1, <2>1, <2>2, MoveStep
  <2> QED
    BY <2>1, <2>3 DEF OverlapInv, FilesOK
<1>7. ASSUME FillState(p) PROVE OverlapInv'
  <2>1. /\ Step(p, "fill", "idle", Nothing)
        /\ UNCHANGED <<source, doc, verdicts>> /\ state' \in {mem[p], Torn}
        /\ disturbed' \subseteq Procs
    BY <1>7 DEF FillState, Disturb, Filled
  <2>2. mem[p] \in WorkflowStates
    BY <2>1, MemoriesAt DEF Step, OverlapInv, ControlOK
  <2>3. ControlOK' /\ Numbered'
    BY <1>1, <2>1, MoveStep
  <2> QED
    BY <2>1, <2>2, <2>3 DEF OverlapInv, FilesOK
<1> QED
  BY <1>2, <1>3, <1>4, <1>5, <1>6, <1>7

(* ackit verification record keeps the invariant. *)
LEMMA RecordCommand ==
  ASSUME OverlapInv, NEW p \in Procs
  PROVE  BindVerdict(p) \/ ListVerdicts(p) \/ CreateVerdict(p) \/ StoreVerdict(p)
         => OverlapInv'
<1>1. /\ {"idle", "list"} \subseteq Points \ {"create", "store"}
      /\ {"create", "store"} \subseteq Points
      /\ Nothing \in Memories("idle")
      /\ ControlOK /\ FilesOK
  BY MemoriesAt DEF Points, OverlapInv
<1>2. PICK n \in 0 .. MaxVerdicts :
        /\ DOMAIN verdicts = 1 .. n
        /\ \A q \in Procs :
             /\ pc[q] = "create" => mem[q].slot <= n + 1
             /\ pc[q] = "store" => mem[q].slot <= n
  BY DEF OverlapInv, Numbered
<1>3. ASSUME BindVerdict(p) PROVE OverlapInv'
  <2>1. PICK j \in Judgments :
          Step(p, "idle", "list", [judgment |-> j, bound |-> Binding])
    BY <1>3 DEF BindVerdict
  <2>2. [judgment |-> j, bound |-> Binding] \in Memories("list")
    BY <1>1, <1>3, BindingType, MemoriesAt DEF BindVerdict, Bindable, Records
  <2> QED
    BY <1>1, <1>3, <2>1, <2>2, ReadStep DEF BindVerdict
<1>4. ASSUME ListVerdicts(p) PROVE OverlapInv'
  <2>1. CASE Step(p, "list", "idle", Nothing)
    BY <1>1, <1>4, <2>1, ReadStep DEF ListVerdicts
  <2>2. CASE /\ NextSlot(verdicts) <= MaxVerdicts
             /\ Step(p, "list", "create", [record |-> mem[p], slot |-> NextSlot(verdicts)])
    <3> DEFINE memory == [record |-> mem[p], slot |-> NextSlot(verdicts)]
    <3>1. NextSlot(verdicts) = n + 1
      BY <1>2, NumberedFiles
    <3>2. mem[p] \in Records
      BY <1>1, <2>2, MemoriesAt DEF Step, ControlOK
    <3>3. memory \in Memories("create")
      <4>1. n + 1 \in 1 .. MaxVerdicts
        BY <2>2, <3>1, OverlapAssumption
      <4>2. memory \in [record : Records, slot : 1 .. MaxVerdicts]
        BY <3>1, <3>2, <4>1
      <4> QED
        BY <4>2, MemoriesAt
    <3>4. /\ ControlOK'
          /\ pc' = [pc EXCEPT ![p] = "create"] /\ mem' = [mem EXCEPT ![p] = memory]
      BY <1>1, <2>2, <3>3, StepType DEF Step
    <3>5. UNCHANGED files /\ disturbed' \subseteq Procs
      BY <1>4 DEF ListVerdicts, Reads, OverlapInv
    <3>6. FilesOK'
      BY <1>1, <3>5 DEF FilesOK, files
    <3>7. \A q \in Procs : /\ pc'[q] = "create" => mem'[q].slot <= n + 1
                           /\ pc'[q] = "store" => mem'[q].slot <= n
      BY <1>1, <1>2, <3>1, <3>4 DEF ControlOK
    <3>8. Numbered'
      BY <1>2, <3>5, <3>7 DEF Numbered, files
    <3> QED
      BY <3>4, <3>5, <3>6, <3>8 DEF OverlapInv
  <2> QED
    BY <1>4, <2>1, <2>2 DEF ListVerdicts
<1>5. ASSUME CreateVerdict(p) PROVE OverlapInv'
  <2>1. /\ Step(p, "create", "store", mem[p])
        /\ verdicts' = WithVerdict(mem[p].slot, Torn)
        /\ UNCHANGED <<source, doc, state>> /\ disturbed' \subseteq Procs
    BY <1>5 DEF CreateVerdict, Disturb
  <2>2. /\ mem[p] \in Memories("store")
        /\ mem[p].slot \in 1 .. MaxVerdicts /\ mem[p].slot <= n + 1
    <3>1. pc[p] = "create" /\ mem[p] \in Memories("create")
      BY <1>1, <2>1 DEF Step, ControlOK
    <3>2. mem[p] \in Memories("store")
      BY <3>1, MemoriesAt
    <3> QED
      BY <1>1, <1>2, <3>1, <3>2, Remembered
  <2>3. /\ ControlOK'
        /\ pc' = [pc EXCEPT ![p] = "store"] /\ mem' = [mem EXCEPT ![p] = mem[p]]
    BY <1>1, <2>1, <2>2, StepType DEF Step
  <2>4. /\ DOMAIN verdicts' = (1 .. n) \cup {mem[p].slot}
        /\ \A i \in DOMAIN verdicts' : verdicts'[i] \in Records \cup {Torn}
    BY <1>1, <1>2, <2>1 DEF WithVerdict, FilesOK
  <2>5. FilesOK'
    BY <1>1, <1>2, <2>1, <2>2, <2>4 DEF FilesOK
  <2>6. PICK m \in {n, n + 1} : /\ m \in 0 .. MaxVerdicts
                                /\ DOMAIN verdicts' = 1 .. m
                                /\ mem[p].slot <= m
    BY <2>2, <2>4, OverlapAssumption
  <2>7. \A q \in Procs : /\ pc'[q] = "create" => mem'[q].slot <= m + 1
                         /\ pc'[q] = "store" => mem'[q].slot <= m
    <3> SUFFICES ASSUME NEW q \in Procs
                 PROVE  /\ pc'[q] = "create" => mem'[q].slot <= m + 1
                        /\ pc'[q] = "store" => mem'[q].slot <= m
      OBVIOUS
    <3>1. mem'[q] = mem[q] /\ pc'[q] = IF q = p THEN "store" ELSE pc[q]
      BY <1>1, <2>3 DEF ControlOK
    <3>2. pc[q] \in {"create", "store"} => mem[q].slot \in 1 .. MaxVerdicts
      BY <1>1, Remembered
    <3> QED
      BY <1>2, <2>6, <3>1, <3>2
  <2>8. Numbered'
    BY <2>6, <2>7 DEF Numbered
  <2> QED
    BY <2>1, <2>3, <2>5, <2>8 DEF OverlapInv
<1>6. ASSUME StoreVerdict(p) PROVE OverlapInv'
  <2>1. PICK v \in Filled(mem[p].record, verdicts[mem[p].slot]) :
          verdicts' = WithVerdict(mem[p].slot, v)
    BY <1>6 DEF StoreVerdict
  <2>2. /\ Step(p, "store", "idle", Nothing)
        /\ UNCHANGED <<source, doc, state>> /\ disturbed' \subseteq Procs
    BY <1>6 DEF StoreVerdict, Disturb
  <2>3. /\ mem[p].record \in Records
        /\ mem[p].slot \in 1 .. n
    <3>1. pc[p] = "store"
      BY <2>2 DEF Step
    <3> QED
      BY <1>1, <1>2, <3>1, Remembered
  <2>4. v \in Records \cup {Torn}
    BY <2>1, <2>3 DEF Filled
  <2>5. /\ DOMAIN verdicts' = DOMAIN verdicts
        /\ \A i \in DOMAIN verdicts' : verdicts'[i] \in Records \cup {Torn}
    BY <1>1, <1>2, <2>1, <2>3, <2>4 DEF WithVerdict, FilesOK
  <2>6. FilesOK'
    BY <1>1, <2>2, <2>5 DEF FilesOK
  <2>7. /\ ControlOK'
        /\ pc' = [pc EXCEPT ![p] = "idle"] /\ mem' = [mem EXCEPT ![p] = Nothing]
    BY <1>1, <2>2, StepType DEF Step
  <2>8. \A q \in Procs : /\ pc'[q] = "create" => mem'[q].slot <= n + 1
                         /\ pc'[q] = "store" => mem'[q].slot <= n
    BY <1>1, <1>2, <2>7 DEF ControlOK
  <2>9. Numbered'
    BY <1>2, <2>5, <2>8 DEF Numbered
  <2> QED
    BY <2>2, <2>6, <2>7, <2>9 DEF OverlapInv
<1> QED
  BY <1>3, <1>4, <1>5, <1>6

(* ackit task complete keeps the invariant. *)
LEMMA CompleteCommand ==
  ASSUME OverlapInv, NEW p \in Procs
  PROVE  \/ LoadForComplete(p) \/ JudgeLatest(p) \/ ReadAgain(p) \/ Compare(p)
         \/ ReadDocument(p) \/ BlankDocument(p) \/ WriteDocument(p)
         => OverlapInv'
<1>1. /\ {"idle", "judge", "again", "compare", "close", "blank", "lose", "complete"}
           \subseteq Points \ {"create", "store"}
      /\ Nothing \in Memories("idle") /\ Nothing \in Memories("judge")
      /\ Nothing \in Memories("close")
      /\ ControlOK /\ FilesOK
  BY MemoriesAt DEF Points, Completing, OverlapInv
<1>2. ASSUME Readable(verdicts), verdicts # <<>>
      PROVE  LatestOf(verdicts).bound \in Bindings
  <2>1. PICK n \in 0 .. MaxVerdicts : DOMAIN verdicts = 1 .. n
    BY DEF OverlapInv, Numbered
  <2>2. n > 0
    BY <1>2, <2>1
  <2>3. LatestOf(verdicts) = verdicts[n] /\ n \in DOMAIN verdicts
    BY <2>1, <2>2, NumberedFiles
  <2> QED
    BY <1>1, <1>2, <2>3 DEF FilesOK, Readable, Records
<1>3. ASSUME LoadForComplete(p) PROVE OverlapInv'
  BY <1>1, <1>3, ReadStep DEF LoadForComplete
<1>4. ASSUME JudgeLatest(p) PROVE OverlapInv'
  <2>1. Approving(verdicts) => [judged |-> LatestOf(verdicts).bound] \in Memories("again")
    BY <1>2, MemoriesAt DEF Approving
  <2> QED
    BY <1>1, <1>4, <2>1, ReadStep DEF JudgeLatest
<1>5. ASSUME ReadAgain(p) PROVE OverlapInv'
  <2>1. mem[p].judged \in Bindings
    BY <1>1, <1>5, Remembered DEF ReadAgain
  <2>2. Readable(verdicts) /\ verdicts # <<>> =>
          [judged |-> mem[p].judged, again |-> LatestOf(verdicts).bound]
            \in Memories("compare")
    BY <1>2, <2>1, MemoriesAt
  <2> QED
    BY <1>1, <1>5, <2>2, ReadStep DEF ReadAgain
<1>6. ASSUME Compare(p) PROVE OverlapInv'
  <2>1. mem[p].judged \in Bindings
    BY <1>1, <1>6, Remembered DEF Compare
  <2>2. Bindable =>
          [judged |-> mem[p].judged, found |-> Binding] \in Memories("close")
    BY <1>1, <2>1, BindingType, MemoriesAt DEF Bindable
  <2> QED
    BY <1>1, <1>6, <2>2, ReadStep DEF Compare
<1>7. ASSUME ReadDocument(p) PROVE OverlapInv'
  <2>1. mem[p] \in Memories("lose") /\ mem[p] \in Memories("blank")
    BY <1>1, <1>7, MemoriesAt DEF ReadDocument, Step, ControlOK
  <2> QED
    BY <1>1, <1>7, <2>1, ReadStep DEF ReadDocument
<1>8. ASSUME BlankDocument(p) PROVE OverlapInv'
  <2>1. /\ UNCHANGED <<source, state, verdicts>> /\ doc' = "empty"
        /\ disturbed' \subseteq Procs
    BY <1>8 DEF BlankDocument, Disturb
  <2>2. pc[p] = "blank" => mem[p] \in Memories("complete")
    BY <1>1, MemoriesAt DEF ControlOK
  <2>3. ControlOK' /\ Numbered'
    BY <1>1, <1>8, <2>1, <2>2, MoveStep DEF BlankDocument
  <2> QED
    BY <1>1, <2>1, <2>3 DEF OverlapInv, FilesOK
<1>9. ASSUME WriteDocument(p) PROVE OverlapInv'
  <2>1. /\ UNCHANGED <<source, state, verdicts>> /\ doc' = "completed"
        /\ disturbed' \subseteq Procs /\ Step(p, "complete", "idle", Nothing)
    BY <1>9 DEF WriteDocument, Disturb
  <2>2. ControlOK' /\ Numbered'
    BY <1>1, <2>1, MoveStep
  <2> QED
    BY <1>1, <2>1, <2>2 DEF OverlapInv, FilesOK
<1> QED
  BY <1>3, <1>4, <1>5, <1>6, <1>7, <1>8, <1>9

(* Every step keeps the invariant. *)
LEMMA OverlapStep == OverlapInv /\ [Next]_vars => OverlapInv'
<1> SUFFICES ASSUME OverlapInv, [Next]_vars PROVE OverlapInv'
  OBVIOUS
<1>1. CASE UNCHANGED vars
  BY <1>1 DEF vars, files, OverlapInv, ControlOK, FilesOK, Numbered
<1>2. CASE EditSource
  BY <1>2 DEF EditSource, OverlapInv, ControlOK, FilesOK, Numbered
<1>3. ASSUME NEW p \in Procs, Crash(p) PROVE OverlapInv'
  <2>1. /\ Step(p, pc[p], "idle", Nothing)
        /\ UNCHANGED <<source, doc, state, verdicts>> /\ disturbed' \subseteq Procs
    BY <1>3 DEF Crash, files, OverlapInv
  <2>2. "idle" \in Points \ {"create", "store"} /\ Nothing \in Memories("idle")
    BY MemoriesAt DEF Points
  <2>3. ControlOK' /\ Numbered'
    BY <2>1, <2>2, MoveStep
  <2> QED
    BY <2>1, <2>3 DEF OverlapInv, FilesOK
<1> QED
  BY <1>1, <1>2, <1>3, WorkflowCommands, RecordCommand, CompleteCommand
     DEF Next, Command

(* The initial states satisfy the invariant. *)
LEMMA OverlapInit == Init => OverlapInv
<1> SUFFICES ASSUME Init PROVE OverlapInv
  OBVIOUS
<1>1. state \in WorkflowStates
  BY OverlapAssumption DEF Init, WalkStates
<1>2. ControlOK
  BY MemoriesAt DEF Init, ControlOK, Points
<1>3. DOMAIN verdicts = 1 .. 0 /\ 0 \in 0 .. MaxVerdicts
  BY OverlapAssumption DEF Init
<1>4. FilesOK /\ Numbered
  BY <1>1, <1>3 DEF Init, FilesOK, Numbered
<1> QED
  BY <1>2, <1>4 DEF Init, OverlapInv

(* Whatever overlaps and whoever is killed, the files stay well formed or torn,
   each process remembers what its next step writes, and the verdict files are
   numbered without a gap. *)
THEOREM OverlapTypeCorrect == Spec => [](TypeOK /\ NoGaps)
<1>1. OverlapInv => TypeOK /\ NoGaps
  BY TypeParts, NumberedFiles DEF OverlapInv, Numbered
<1> QED
  BY <1>1, OverlapInit, OverlapStep, PTL DEF Spec

-----------------------------------------------------------------------------
(* The state file tells a walk. *)

(* Each entry of a history follows from the one before. *)
Links(p, h) ==
  \A i \in 1 .. Len(h) - 1 :
    h[i + 1] = "implement" \/ CanAdvance(p, h[i], h[i + 1])

(* Appending a stage that follows the last one keeps the links. *)
LEMMA AppendLinks ==
  ASSUME NEW p, NEW h \in Seq(AllStages), h # <<>>, Len(h) <= Cap, Links(p, h),
         NEW s \in AllStages, s = "implement" \/ CanAdvance(p, h[Len(h)], s)
  PROVE  Links(p, AppendCapped(h, s))
<1>1. Links(p, Append(h, s))
  BY DEF Links
<1>2. Links(p, Append(Tail(h), s))
  <2> DEFINE g == Append(Tail(h), s)
             a == Append(h, s)
  <2>1. /\ Len(g) = Len(h) /\ Len(a) = Len(h) + 1 /\ Len(h) \in Nat
        /\ \A i \in 1 .. Len(h) : g[i] = a[i + 1]
    OBVIOUS
  <2>2. Links(p, a)
    BY <1>1
  <2> HIDE DEF g, a
  <2>3. ASSUME NEW i \in 1 .. Len(g) - 1
        PROVE  g[i + 1] = "implement" \/ CanAdvance(p, g[i], g[i + 1])
    <3>1. i + 1 \in 1 .. Len(a) - 1 /\ i \in 1 .. Len(h) /\ i + 1 \in 1 .. Len(h)
      BY <2>1
    <3>2. g[i] = a[i + 1] /\ g[i + 1] = a[(i + 1) + 1]
      BY <2>1, <3>1
    <3> QED
      BY <2>2, <3>1, <3>2 DEF Links
  <2>4. Links(p, g)
    BY <2>3 DEF Links
  <2> QED
    BY <2>4 DEF g
<1> QED
  BY <1>1, <1>2 DEF AppendCapped

(* A profile's first stage, alone, is a walk. *)
LEMMA SetProfileWalks ==
  ASSUME NEW w \in WalkStates, NEW p \in Profiles
  PROVE  SetProfileOf(w, p) \in WalkStates
<1>1. SetProfileOf(w, p) \in WorkflowStates
  BY SetProfileType DEF WalkStates
<1>2. CASE w.profile = p
  BY <1>2 DEF SetProfileOf
<1>3. CASE w.profile # p
  <2> DEFINE v == SetProfileOf(w, p)
  <2>1. v.history = <<Stages(p)[1]>> /\ v.stage = Stages(p)[1]
    BY <1>3 DEF SetProfileOf
  <2>2. Walks(v)
    BY <2>1 DEF Walks
  <2> QED
    BY <1>1, <2>2 DEF WalkStates
<1> QED
  BY <1>2, <1>3

(* An enabled state that walks keeps walking when a stage that follows, or
   "implement", is appended. *)
LEMMA MoveWalks ==
  ASSUME NEW w \in WalkStates, Enabled(w), NEW s \in AllStages,
         s = "implement" \/ CanAdvance(w.profile, w.stage, s),
         NEW v \in WorkflowStates, v.profile = w.profile, v.stage = s,
         v.history = AppendCapped(w.history, s)
  PROVE  v \in WalkStates
<1>1. /\ w.history \in Seq(AllStages) /\ Len(w.history) <= Cap
      /\ Walks(w)
  BY EnabledType DEF WalkStates
<1>2. w.history # <<>> /\ w.history[Len(w.history)] = w.stage /\ Links(w.profile, w.history)
  BY <1>1 DEF Walks, Links
<1>3. Links(v.profile, v.history)
  BY <1>1, <1>2, AppendLinks
<1>4. /\ v.history \in Seq(AllStages) /\ Len(v.history) \in 1 .. Cap
      /\ v.history[Len(v.history)] = s
  <2> DEFINE h == AppendCapped(w.history, s)
  <2>1. h \in Seq(AllStages) /\ Len(h) \in 1 .. Cap /\ h[Len(h)] = s
    BY <1>1, AppendCappedFacts
  <2> HIDE DEF h
  <2>2. v.history = h
    BY DEF h
  <2> QED
    BY <2>1, <2>2
<1>5. Walks(v)
  BY <1>3, <1>4 DEF Walks, Links
<1> QED
  BY <1>5 DEF WalkStates

(* recordVerificationAttempt keeps a walk a walk. *)
LEMMA AttemptWalks ==
  ASSUME NEW w \in WalkStates, Enabled(w), NEW outcome \in Outcomes
  PROVE  AttemptOf(w, outcome) \in WalkStates
<1>1. /\ w \in WorkflowStates /\ Walks(w)
      /\ w.profile \in Profiles
  BY EnabledType DEF WalkStates
<1> DEFINE v == AttemptOf(w, outcome)
<1>2. v \in WorkflowStates /\ v.profile = w.profile
  BY <1>1, AttemptType
<1>3. CASE outcome = "fail" /\ w.stage # "implement"
  <2>1. v.stage = "implement" /\ v.history = AppendCapped(w.history, "implement")
    BY <1>3 DEF AttemptOf
  <2>2. "implement" \in AllStages
    BY <1>1, ProfileShape, StagesType
  <2> QED
    BY <1>2, <2>1, <2>2, MoveWalks
<1>4. CASE ~(outcome = "fail" /\ w.stage # "implement")
  <2>1. v.stage = w.stage /\ v.history = w.history
    BY <1>4 DEF AttemptOf
  <2>2. Walks(v)
    BY <1>1, <1>2, <2>1 DEF Walks
  <2> QED
    BY <1>2, <2>2 DEF WalkStates
<1> QED
  BY <1>3, <1>4

(* advanceTo keeps a walk a walk. *)
LEMMA AdvanceWalks ==
  ASSUME NEW w \in WalkStates, Enabled(w), NEW to, Adjacent(w, to)
  PROVE  AdvanceOf(w, to) \in WalkStates
<1>1. to \in StagesOf(w.profile) /\ w \in WorkflowStates /\ w.profile \in Profiles
  BY EnabledType DEF Adjacent, CanAdvance, WalkStates
<1>2. to \in AllStages
  BY <1>1, StagesType
<1>3. /\ AdvanceOf(w, to) \in WorkflowStates
      /\ AdvanceOf(w, to).profile = w.profile /\ AdvanceOf(w, to).stage = to
  BY <1>1, AdvanceType
<1>4. AdvanceOf(w, to).history = AppendCapped(w.history, to)
  BY DEF AdvanceOf
<1> QED
  BY <1>2, <1>3, <1>4, MoveWalks DEF Adjacent

(* The state file and what will be written into it are walks. *)
WalkInv ==
  /\ OverlapInv
  /\ state # Torn => state \in WalkStates
  /\ \A p \in Procs : pc[p] \in {"truncate", "fill"} => mem[p] \in WalkStates

(* A step of a process to somewhere else than a write of the state file. *)
LEMMA WalkMove ==
  ASSUME WalkInv, OverlapInv', NEW p \in Procs, NEW from, NEW to, NEW memory,
         Step(p, from, to, memory),
         to \in {"truncate", "fill"} => memory \in WalkStates,
         state' # Torn => state' \in WalkStates
  PROVE  WalkInv'
<1>1. pc' = [pc EXCEPT ![p] = to] /\ mem' = [mem EXCEPT ![p] = memory]
  BY DEF Step
<1>2. \A q \in Procs : pc'[q] \in {"truncate", "fill"} => mem'[q] \in WalkStates
  BY <1>1 DEF WalkInv, OverlapInv, ControlOK
<1> QED
  BY <1>2 DEF WalkInv

(* Every step keeps what StateIsWalk rests on. *)
LEMMA WalkStep == WalkInv /\ [Next]_vars => WalkInv'
<1> SUFFICES ASSUME WalkInv, [Next]_vars PROVE WalkInv'
  OBVIOUS
<1>1. OverlapInv /\ OverlapInv'
  BY OverlapStep DEF WalkInv
<1>2. CASE UNCHANGED vars
  BY <1>1, <1>2 DEF vars, files, WalkInv
<1>3. CASE EditSource
  BY <1>1, <1>3 DEF EditSource, WalkInv
<1>4. ASSUME NEW p \in Procs, LoadForSet(p) PROVE WalkInv'
  <2>1. PICK profile \in UsedProfiles :
          Step(p, "idle", "truncate", SetProfileOf(state, profile))
    BY <1>4 DEF LoadForSet
  <2>2. SetProfileOf(state, profile) \in WalkStates /\ UNCHANGED state
    BY <1>4, SetProfileWalks, OverlapAssumption DEF LoadForSet, WalkInv, Reads, files
  <2> QED
    BY <1>1, <2>1, <2>2, WalkMove DEF WalkInv
<1>5. ASSUME NEW p \in Procs, LoadForAttempt(p) PROVE WalkInv'
  <2>1. PICK outcome \in Outcomes :
          Step(p, "idle", "truncate", AttemptOf(state, outcome))
    BY <1>5 DEF LoadForAttempt
  <2>2. AttemptOf(state, outcome) \in WalkStates /\ UNCHANGED state
    BY <1>5, AttemptWalks DEF LoadForAttempt, WalkInv, Reads, files
  <2> QED
    BY <1>1, <2>1, <2>2, WalkMove DEF WalkInv
<1>6. ASSUME NEW p \in Procs, LoadForAdvance(p) PROVE WalkInv'
  <2>1. UNCHANGED state
    BY <1>6 DEF LoadForAdvance, Reads, files
  <2>2. CASE state # Torn /\ Enabled(state) /\ Adjacent(state, mem[p].to)
    <3>1. Step(p, "advance", "truncate", AdvanceOf(state, mem[p].to))
      BY <1>6, <2>2 DEF LoadForAdvance
    <3>2. AdvanceOf(state, mem[p].to) \in WalkStates
      BY <2>2, AdvanceWalks DEF WalkInv
    <3> QED
      BY <1>1, <2>1, <3>1, <3>2, WalkMove DEF WalkInv
  <2>3. CASE ~(state # Torn /\ Enabled(state) /\ Adjacent(state, mem[p].to))
    <3>1. Step(p, "advance", "idle", Nothing)
      BY <1>6, <2>3 DEF LoadForAdvance
    <3> QED
      BY <1>1, <2>1, <3>1, WalkMove DEF WalkInv
  <2> QED
    BY <2>2, <2>3
<1>7. ASSUME NEW p \in Procs, TruncateState(p) PROVE WalkInv'
  BY <1>1, <1>7, WalkMove DEF TruncateState, Step, WalkInv
<1>8. ASSUME NEW p \in Procs, FillState(p) PROVE WalkInv'
  <2>1. /\ Step(p, "fill", "idle", Nothing) /\ state' \in {mem[p], Torn}
        /\ mem[p] \in WalkStates
    BY <1>8 DEF FillState, Filled, Step, WalkInv
  <2> QED
    BY <1>1, <2>1, WalkMove
<1>9. ASSUME NEW p \in Procs,
             \/ CheckAdvance(p) \/ BindVerdict(p) \/ ListVerdicts(p)
             \/ CreateVerdict(p) \/ StoreVerdict(p)
             \/ LoadForComplete(p) \/ JudgeLatest(p) \/ ReadAgain(p) \/ Compare(p)
             \/ ReadDocument(p) \/ BlankDocument(p) \/ WriteDocument(p) \/ Crash(p)
      PROVE  WalkInv'
  <2>1. UNCHANGED state
    BY <1>9 DEF CheckAdvance, BindVerdict, ListVerdicts, CreateVerdict, StoreVerdict,
                LoadForComplete, JudgeLatest, ReadAgain, Compare, ReadDocument,
                BlankDocument, WriteDocument, Crash, Reads, files
  <2>2. \A q \in Procs \ {p} : pc'[q] = pc[q] /\ mem'[q] = mem[q]
    BY <1>1, <1>9
       DEF CheckAdvance, BindVerdict, ListVerdicts, CreateVerdict, StoreVerdict,
           LoadForComplete, JudgeLatest, ReadAgain, Compare, ReadDocument,
           BlankDocument, WriteDocument, Crash, Step, OverlapInv, ControlOK
  <2>3. pc'[p] \notin {"truncate", "fill"}
    BY <1>1, <1>9
       DEF CheckAdvance, BindVerdict, ListVerdicts, CreateVerdict, StoreVerdict,
           LoadForComplete, JudgeLatest, ReadAgain, Compare, ReadDocument,
           BlankDocument, WriteDocument, Crash, Step, OverlapInv, ControlOK
  <2> QED
    BY <1>1, <2>1, <2>2, <2>3 DEF WalkInv
<1> QED
  BY <1>2, <1>3, <1>4, <1>5, <1>6, <1>7, <1>8, <1>9 DEF Next, Command

(* A workflow state that parses tells a walk of its profile: whatever overlaps,
   a state file is never a mixture, and no transition is lost half way. *)
THEOREM StateStaysWalk == Spec => []StateIsWalk
<1>1. Init => WalkInv
  BY OverlapInit, OverlapAssumption DEF Init, WalkInv
<1>2. WalkInv => StateIsWalk
  BY DEF WalkInv, WalkStates, StateIsWalk
<1> QED
  BY <1>1, <1>2, WalkStep, PTL DEF Spec

-----------------------------------------------------------------------------
(* A completion nothing else interferes with is sound. *)

(* What the gate has found so far of p's completion still holds. *)
StillHolds(p) ==
  /\ state # Torn /\ StageHolds(state)
  /\ pc[p] = "again" => Approving(verdicts)
  /\ pc[p] = "compare" =>
       Approving(verdicts) /\ mem[p].again = LatestOf(verdicts).bound
  /\ pc[p] \in {"close", "blank", "complete"} /\ NeedsVerdict(state) =>
       Approving(verdicts) /\ LatestOf(verdicts).bound = Binding

AloneInv ==
  /\ OverlapInv
  /\ \A p \in Procs : pc[p] \in Completing /\ p \notin disturbed => StillHolds(p)

(* What was found of one completion is not touched when the files, and that
   process, stay as they are. *)
LEMMA FoundStays ==
  ASSUME AloneInv, NEW q \in Procs, pc'[q] = pc[q], mem'[q] = mem[q],
         UNCHANGED <<source, state, verdicts>>,
         pc[q] \in Completing, q \notin disturbed
  PROVE  StillHolds(q)'
<1>1. StillHolds(q)
  BY DEF AloneInv
<1>2. Binding' = Binding
  BY DEF Binding
<1>3. NeedsVerdict(state') = NeedsVerdict(state) /\ StageHolds(state') = StageHolds(state)
      /\ Approving(verdicts') = Approving(verdicts)
      /\ LatestOf(verdicts') = LatestOf(verdicts)
  OBVIOUS
<1> QED
  BY <1>1, <1>2, <1>3 DEF StillHolds

(* Each step of a completion adds what it found. *)
LEMMA CompletionFinds ==
  ASSUME AloneInv, NEW p \in Procs,
         \/ LoadForComplete(p) \/ JudgeLatest(p) \/ ReadAgain(p) \/ Compare(p)
         \/ ReadDocument(p),
         pc'[p] \in Completing, p \notin disturbed'
  PROVE  StillHolds(p)'
<1>1. /\ UNCHANGED files /\ UNCHANGED <<source, state, verdicts>> /\ p \notin disturbed
      /\ ControlOK
  BY DEF LoadForComplete, JudgeLatest, ReadAgain, Compare, ReadDocument, Reads,
         Completing, files, AloneInv, OverlapInv
<1>2. Binding' = Binding
  BY <1>1 DEF Binding
<1>3. NeedsVerdict(state') = NeedsVerdict(state) /\ StageHolds(state') = StageHolds(state)
      /\ Approving(verdicts') = Approving(verdicts)
      /\ LatestOf(verdicts') = LatestOf(verdicts)
  BY <1>1
<1>4. CASE LoadForComplete(p)
  <2>1. /\ state # Torn /\ StageHolds(state)
        /\ pc'[p] = IF NeedsVerdict(state) THEN "judge" ELSE "close"
    BY <1>1, <1>4 DEF LoadForComplete, Step, ControlOK
  <2> QED
    BY <1>1, <1>3, <2>1 DEF StillHolds
<1>5. CASE JudgeLatest(p)
  <2>1. StillHolds(p)
    BY <1>1, <1>5 DEF JudgeLatest, AloneInv, Completing
  <2>2. Approving(verdicts) /\ pc'[p] = "again"
    BY <1>1, <1>5 DEF JudgeLatest, Step, ControlOK, Completing
  <2> QED
    BY <1>1, <1>3, <2>1, <2>2 DEF StillHolds
<1>6. CASE ReadAgain(p)
  <2>1. pc[p] = "again" /\ StillHolds(p)
    BY <1>1, <1>6 DEF ReadAgain, AloneInv, Completing
  <2>2. pc'[p] = "compare" /\ mem'[p].again = LatestOf(verdicts).bound
    BY <1>1, <1>6 DEF ReadAgain, Step, ControlOK, Completing
  <2> QED
    BY <1>1, <1>3, <2>1, <2>2 DEF StillHolds
<1>7. CASE Compare(p)
  <2>1. pc[p] = "compare" /\ StillHolds(p)
    BY <1>1, <1>7 DEF Compare, AloneInv, Completing
  <2>2. pc'[p] = "close" /\ mem[p].again = Binding
    BY <1>1, <1>7 DEF Compare, Step, ControlOK, Completing, SameBinding
  <2> QED
    BY <1>1, <1>2, <1>3, <2>1, <2>2 DEF StillHolds
<1>8. CASE ReadDocument(p)
  <2>1. pc[p] = "close" /\ StillHolds(p)
    BY <1>1, <1>8 DEF ReadDocument, Step, AloneInv, Completing
  <2>2. pc'[p] = "blank"
    BY <1>1, <1>8 DEF ReadDocument, Step, ControlOK, Completing
  <2> QED
    BY <1>1, <1>2, <1>3, <2>1, <2>2 DEF StillHolds
<1> QED
  BY <1>4, <1>5, <1>6, <1>7, <1>8

(* Every step keeps what AloneIsSound rests on. *)
LEMMA AloneStep == AloneInv /\ [Next]_vars => AloneInv'
<1> SUFFICES ASSUME AloneInv, [Next]_vars,
                    NEW q \in Procs, pc'[q] \in Completing, q \notin disturbed'
             PROVE  StillHolds(q)'
  BY OverlapStep DEF AloneInv
<1>1. ControlOK
  BY DEF AloneInv, OverlapInv
<1>2. CASE UNCHANGED vars
  BY <1>2, FoundStays DEF vars, files
<1>3. CASE EditSource
  BY <1>3 DEF EditSource
<1>4. ASSUME NEW p \in Procs,
             \/ TruncateState(p) \/ FillState(p) \/ CreateVerdict(p)
             \/ StoreVerdict(p) \/ WriteDocument(p)
      PROVE  FALSE
  <2>1. pc'[p] \notin Completing
    BY <1>1, <1>4 DEF TruncateState, FillState, CreateVerdict, StoreVerdict,
                      WriteDocument, Step, ControlOK, Completing
  <2>2. Disturb(p)
    BY <1>4 DEF TruncateState, FillState, CreateVerdict, StoreVerdict,
                WriteDocument
  <2> QED
    BY <2>1, <2>2 DEF Disturb
<1>5. ASSUME NEW p \in Procs, BlankDocument(p) PROVE StillHolds(q)'
  <2>1. q = p /\ q \notin disturbed
    BY <1>5 DEF BlankDocument, Disturb
  <2>2. pc[p] = "blank" /\ pc'[p] = "complete"
    BY <1>1, <1>5, <2>1 DEF BlankDocument, Step, ControlOK, Completing
  <2>3. StillHolds(p)
    BY <2>1, <2>2 DEF AloneInv, Completing
  <2>4. UNCHANGED <<source, state, verdicts>> /\ Binding' = Binding
    BY <1>5 DEF BlankDocument, Binding
  <2>5. NeedsVerdict(state') = NeedsVerdict(state)
        /\ StageHolds(state') = StageHolds(state)
        /\ Approving(verdicts') = Approving(verdicts)
        /\ LatestOf(verdicts') = LatestOf(verdicts)
    BY <2>4
  <2> QED
    BY <2>1, <2>2, <2>3, <2>4, <2>5 DEF StillHolds
<1>6. ASSUME NEW p \in Procs,
             \/ LoadForSet(p) \/ LoadForAttempt(p) \/ CheckAdvance(p)
             \/ LoadForAdvance(p) \/ BindVerdict(p) \/ ListVerdicts(p)
             \/ LoadForComplete(p) \/ JudgeLatest(p) \/ ReadAgain(p) \/ Compare(p)
             \/ ReadDocument(p) \/ Crash(p)
      PROVE  StillHolds(q)'
  <2>1. /\ UNCHANGED <<source, state, verdicts>>
        /\ q # p => q \notin disturbed
    BY <1>6 DEF LoadForSet, LoadForAttempt, CheckAdvance, LoadForAdvance,
                BindVerdict, ListVerdicts, LoadForComplete, JudgeLatest,
                ReadAgain, Compare, ReadDocument, Crash, Reads, files
  <2>2. CASE q # p
    <3>1. pc'[q] = pc[q] /\ mem'[q] = mem[q]
      BY <1>1, <1>6, <2>2
         DEF LoadForSet, LoadForAttempt, CheckAdvance, LoadForAdvance,
             BindVerdict, ListVerdicts, LoadForComplete, JudgeLatest,
             ReadAgain, Compare, ReadDocument, Crash, Step, ControlOK
    <3> QED
      BY <2>1, <2>2, <3>1, FoundStays
  <2>3. CASE q = p /\ ( \/ LoadForComplete(p) \/ JudgeLatest(p) \/ ReadAgain(p)
                        \/ Compare(p) \/ ReadDocument(p))
    BY <2>3, CompletionFinds
  <2>4. CASE q = p /\ ( \/ LoadForSet(p) \/ LoadForAttempt(p) \/ CheckAdvance(p)
                        \/ LoadForAdvance(p) \/ BindVerdict(p) \/ ListVerdicts(p)
                        \/ Crash(p))
    <3>1. pc'[p] \notin Completing
      BY <1>1, <2>4
         DEF LoadForSet, LoadForAttempt, CheckAdvance, LoadForAdvance,
             BindVerdict, ListVerdicts, Crash, Step, ControlOK, Completing
    <3> QED
      BY <2>4, <3>1
  <2> QED
    BY <1>6, <2>2, <2>3, <2>4
<1> QED
  BY <1>2, <1>3, <1>4, <1>5, <1>6 DEF Next, Command

(* What the gate found is what Sound asks for. *)
LEMMA FoundIsSound ==
  ASSUME OverlapInv, NEW p \in Procs, pc[p] = "complete", StillHolds(p)
  PROVE  Sound
<1>1. state # Torn /\ StageHolds(state)
  BY DEF StillHolds
<1>2. ASSUME NeedsVerdict(state)
      PROVE  \E i \in DOMAIN verdicts :
               /\ \A j \in DOMAIN verdicts : j <= i
               /\ verdicts[i].judgment.passes /\ verdicts[i].judgment.independent
               /\ verdicts[i].bound = Binding
  <2>1. Approving(verdicts) /\ LatestOf(verdicts).bound = Binding
    BY <1>2 DEF StillHolds
  <2>2. PICK n \in 0 .. MaxVerdicts : DOMAIN verdicts = 1 .. n
    BY DEF OverlapInv, Numbered
  <2>3. n > 0
    <3>1. verdicts # <<>>
      BY <2>1 DEF Approving
    <3> QED
      BY <2>2, <3>1
  <2>4. LatestOf(verdicts) = verdicts[n]
    BY <2>2, <2>3, NumberedFiles
  <2> QED
    BY <2>1, <2>2, <2>3, <2>4 DEF Approving
<1> QED
  BY <1>1, <1>2 DEF Sound, StageHolds

(* A completion during which no other command wrote and no file was edited is
   sound to the end, however many processes run and whoever is killed. *)
THEOREM AloneCompletesSoundly == Spec => AloneIsSound
<1>1. Init => AloneInv
  BY OverlapInit DEF Init, AloneInv, Completing
<1>2. AloneInv /\ [Next]_vars =>
        [\A p \in Procs : WriteDocument(p) /\ p \notin disturbed => Sound]_vars
  <2> SUFFICES ASSUME AloneInv, NEW p \in Procs, WriteDocument(p), p \notin disturbed
               PROVE  Sound
    OBVIOUS
  <2>1. pc[p] = "complete"
    BY DEF WriteDocument, Step
  <2>2. OverlapInv /\ StillHolds(p)
    BY <2>1 DEF AloneInv, Completing
  <2> QED
    BY <2>1, <2>2, FoundIsSound
<1> QED
  BY <1>1, <1>2, AloneStep, PTL DEF Spec, AloneIsSound

=============================================================================
