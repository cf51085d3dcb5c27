-------------------------- MODULE TrustChainProofs --------------------------
(***************************************************************************)
(* Theorems about TrustChain and StatusHandoff, for every set of tasks,    *)
(* trees, criteria, proofs, judgments and configurations and every bound.  *)
(***************************************************************************)
EXTENDS StatusHandoff, WorkflowStateProofs

-----------------------------------------------------------------------------
(* Types. *)

(* A binding is well typed whenever the state is (computeStateBinding). *)
LEMMA BindingType ==
  ASSUME TypeOK, NEW t \in Tasks
  PROVE  Binding(t) \in Bindings
<1>1. SourceDigest \in Trees \cup {"degraded"}
  BY DEF TypeOK, SourceDigest
<1>2. ConfigDigest \in {"default", "strict", "malformed", "unresolved"}
  BY TrustAssumption DEF ConfigDigest, TypeOK
<1>3. /\ wf[t].profile \in Profiles \cup {"none"}
      /\ wf[t].stage \in AllStages \cup {"none"}
  BY DEF TypeOK, WorkflowStates, NoState
<1>4. contract[t] \in Contracts /\ refs[t] \in RefStates /\ registry[t] \in Registries
  BY DEF TypeOK
<1> QED
  BY <1>1, <1>2, <1>3, <1>4 DEF Binding, Bindings

(* A registry is absent and empty, or lists the criteria of one contract. *)
LEMMA RegistryCases ==
  ASSUME NEW r \in Registries
  PROVE  \/ ~r.present /\ DOMAIN r.proofs = {}
         \/ /\ r.present
            /\ \E k \in Contracts : r.proofs \in [k -> SUBSET Proofs]
<1>1. CASE r = NoRegistry
  BY <1>1 DEF NoRegistry
<1>2. CASE r # NoRegistry
  <2>1. r \in UNION {[present : {TRUE}, proofs : [c -> SUBSET Proofs]] :
                       c \in Contracts}
    BY <1>2 DEF Registries
  <2>2. PICK k \in Contracts :
          r \in [present : {TRUE}, proofs : [k -> SUBSET Proofs]]
    BY <2>1
  <2> QED
    BY <2>2
<1> QED
  BY <1>1, <1>2

(* evidence sync writes a registry of the criteria the document lists. *)
LEMMA SyncedType ==
  ASSUME TypeOK, NEW t \in Tasks
  PROVE  [present |-> TRUE, proofs |-> SyncedProofs(t)] \in Registries
<1>1. \A c \in DOMAIN registry[t].proofs : registry[t].proofs[c] \subseteq Proofs
  BY RegistryCases DEF TypeOK
<1>2. SyncedProofs(t) \in [contract[t] -> SUBSET Proofs]
  BY <1>1 DEF SyncedProofs
<1>3. contract[t] \in Contracts
  BY DEF TypeOK
<1> QED
  BY <1>2, <1>3 DEF Registries

(* evidence verify keeps the criteria of the registry. *)
LEMMA WithProofType ==
  ASSUME NEW r \in Registries, r.present, NEW c \in DOMAIN r.proofs,
         NEW e \in Proofs
  PROVE  WithProof(r, c, e) \in Registries
<1>1. PICK k \in Contracts : r.proofs \in [k -> SUBSET Proofs]
  BY RegistryCases
<1>2. [r.proofs EXCEPT ![c] = @ \cup {e}] \in [k -> SUBSET Proofs]
  BY <1>1
<1> QED
  BY <1>2 DEF WithProof, Registries

(* The history record of a completion is well typed. *)
LEMMA CompletionType ==
  ASSUME TypeOK, NEW t \in Tasks
  PROVE  Completion(t) \in Completions
<1>1. Binding(t) \in Bindings
  BY BindingType
<1>2. Len(verdicts[t]) \in Nat /\ rework[t] \in SUBSET {"pass", "verify"}
  BY DEF TypeOK
<1>3. (~GateOpen(t)) \in BOOLEAN
  OBVIOUS
<1>4. Enabled(wf[t]) \in BOOLEAN
  BY DEF Enabled
<1>5. NeedsVerdict(t) \in BOOLEAN
  BY DEF NeedsVerdict
<1> QED
  BY <1>1, <1>2, <1>3, <1>4, <1>5 DEF Completion, Completions

(* The initial states are well typed. *)
LEMMA TypeInit == Init => TypeOK
<1> SUFFICES ASSUME Init PROVE TypeOK
  OBVIOUS
<1>1. NoState \in WorkflowStates /\ NoRegistry \in Registries
  BY DEF WorkflowStates, Registries
<1>2. \A c \in Contents : Legacy(c) \in VerdictRecords
  BY DEF Legacy, VerdictRecords
<1>3. verdicts \in [Tasks -> Seq(VerdictRecords)]
  <2>1. \A c \in Contents : <<Legacy(c)>> \in Seq(VerdictRecords)
    BY <1>2
  <2>2. <<>> \in Seq(VerdictRecords)
    OBVIOUS
  <2>3. {<<>>} \cup {<<Legacy(c)>> : c \in Contents}
          \subseteq Seq(VerdictRecords)
    BY <2>1, <2>2
  <2>4. verdicts \in [Tasks -> {<<>>} \cup {<<Legacy(c)>> : c \in Contents}]
    BY DEF Init
  <2> QED
    BY <2>3, <2>4
<1> QED
  BY <1>1, <1>3, TrustAssumption DEF Init, TypeOK

(* Every command and every edit keeps the types. *)
LEMMA TypeStep == TypeOK /\ [Next]_vars => TypeOK'
<1> SUFFICES ASSUME TypeOK, [Next]_vars PROVE TypeOK'
  OBVIOUS
<1> USE DEF taskVars, trustVars, history
<1>1. CASE UNCHANGED vars
  BY <1>1 DEF TypeOK, vars
<1>2. CASE Edit
  <2>1. CASE EditTree
    BY <2>1 DEF TypeOK, EditTree
  <2>2. CASE GitOutage
    BY <2>2 DEF TypeOK, GitOutage
  <2>3. CASE EditConfig
    BY <2>3 DEF TypeOK, EditConfig
  <2>4. ASSUME NEW t \in Tasks, Tick(t) PROVE TypeOK'
    BY <2>4 DEF TypeOK, Tick
  <2>5. ASSUME NEW t \in Tasks, EditContract(t) PROVE TypeOK'
    BY <2>5 DEF TypeOK, EditContract
  <2>6. ASSUME NEW t \in Tasks, EditRefs(t) PROVE TypeOK'
    <3>1. refs' \in [Tasks -> RefStates]
      BY <2>6 DEF TypeOK, EditRefs, RefStates
    <3> QED
      BY <2>6, <3>1 DEF TypeOK, EditRefs
  <2>7. ASSUME NEW t \in Tasks, Block(t) PROVE TypeOK'
    BY <2>7 DEF TypeOK, Block
  <2> QED
    BY <1>2, <2>1, <2>2, <2>3, <2>4, <2>5, <2>6, <2>7 DEF Edit
<1>3. ASSUME NEW t \in Tasks, Command(t) PROVE TypeOK'
  <2>1. CASE Start(t)
    BY <2>1 DEF TypeOK, Start
  <2>2. CASE FinishTask(t)
    <3>1. done' \in [Tasks -> SUBSET Completions]
      BY <2>2, CompletionType DEF TypeOK, FinishTask
    <3> QED
      BY <2>2, <3>1 DEF TypeOK, FinishTask
  <2>3. CASE Archive(t)
    BY <2>3 DEF TypeOK, Archive
  <2>4. CASE Set(t)
    <3>0. UsedProfiles \subseteq Profiles
      BY TrustAssumption
    <3>1. wf' \in [Tasks -> WorkflowStates]
      BY <2>4, <3>0, SetProfileType DEF TypeOK, Set
    <3> QED
      BY <2>4, <3>1 DEF TypeOK, Set
  <2>5. CASE Advance(t)
    <3>1. wf' \in [Tasks -> WorkflowStates]
      BY <2>5, AdvanceType DEF TypeOK, Advance
    <3>2. rework' \in [Tasks -> SUBSET {"pass", "verify"}]
      BY <2>5 DEF TypeOK, Advance
    <3> QED
      BY <2>5, <3>1, <3>2 DEF TypeOK, Advance
  <2>6. CASE Attempt(t)
    <3>1. wf' \in [Tasks -> WorkflowStates]
      BY <2>6, AttemptType DEF TypeOK, Attempt
    <3>2. rework' \in [Tasks -> SUBSET {"pass", "verify"}]
      BY <2>6 DEF TypeOK, Attempt
    <3> QED
      BY <2>6, <3>1, <3>2 DEF TypeOK, Attempt
  <2>7. CASE Sync(t)
    BY <2>7, SyncedType DEF TypeOK, Sync
  <2>8. CASE Verify(t)
    BY <2>8, WithProofType DEF TypeOK, Verify
  <2>9. CASE Export(t)
    BY <2>9, BindingType DEF TypeOK, Export, BundleOf
  <2>10. CASE Record(t)
    <3>1. PICK content \in Contents, reviewed \in Reviews(t) :
            verdicts' = [verdicts EXCEPT ![t] =
              Append(@, [content |-> content, bound |-> {Binding(t)},
                         reviewed |-> reviewed])]
      BY <2>10 DEF Record
    <3>2. reviewed \in SUBSET Bindings /\ {Binding(t)} \in SUBSET Bindings
      BY BindingType DEF Reviews, TypeOK
    <3>3. [content |-> content, bound |-> {Binding(t)}, reviewed |-> reviewed]
            \in VerdictRecords
      BY <3>2 DEF VerdictRecords
    <3>4. verdicts' \in [Tasks -> Seq(VerdictRecords)]
      BY <3>1, <3>3 DEF TypeOK
    <3> QED
      BY <2>10, <3>4 DEF TypeOK, Record
  <2> QED
    BY <1>3, <2>1, <2>2, <2>3, <2>4, <2>5, <2>6, <2>7, <2>8, <2>9, <2>10
       DEF Command, Complete, ForceComplete
<1> QED
  BY <1>1, <1>2, <1>3 DEF Next

(* Type correctness of the whole chain. *)
THEOREM TypeCorrect == Spec => []TypeOK
BY TypeInit, TypeStep, PTL DEF Spec

-----------------------------------------------------------------------------
(* Which actions touch what: every other one leaves it alone. *)

(* Only Record writes verdicts, Export writes bundles and FinishTask
   writes the completion records. *)
LEMMA VerdictFrame ==
  [Next]_vars =>
    \/ UNCHANGED <<verdicts, bundles, done>>
    \/ \E t \in Tasks : Export(t) \/ Record(t) \/ FinishTask(t)
BY DEF Next, Edit, EditTree, GitOutage, EditConfig, Tick, EditContract, EditRefs,
       Block, Command, Start, Complete, ForceComplete, Archive, Set, Advance, Attempt,
       Sync, Verify, vars, taskVars, trustVars, history

-----------------------------------------------------------------------------
(* Approval: the verdict behind a completion, and the bundle behind it. *)

ApprovalInv == TypeOK /\ ReviewedWasExported /\ ApprovedCompletion

(* The gate lets a task that needs a verdict through only when its latest
   verdict approves the present state. *)
LEMMA GateNeedsApproval ==
  ASSUME TypeOK, ReviewedWasExported, NEW t \in Tasks,
         GateOpen(t), NeedsVerdict(t)
  PROVE  /\ Len(verdicts[t]) \in DOMAIN verdicts[t]
         /\ ApprovedAt(t, Latest(t), Binding(t))
         /\ ReviewInForce => Latest(t).content \in ReviewSatisfied
<1>1. VerdictHolds(t)
  BY DEF GateOpen, WorkflowHolds, NeedsVerdict
<1>2. Len(verdicts[t]) \in DOMAIN verdicts[t]
  BY <1>1 DEF VerdictHolds, HasVerdict, TypeOK
<1>3. /\ ~Blocks(Latest(t))
      /\ Latest(t).content.context = "fresh"
      /\ Latest(t).bound = {Binding(t)}
      /\ Latest(t).reviewed = {Binding(t)}
      /\ ReviewInForce => Latest(t).content \in ReviewSatisfied
  BY <1>1 DEF VerdictHolds, Fresh, Independent, MeetsReview
<1>4. Binding(t) \in bundles[t]
  BY <1>2, <1>3 DEF ReviewedWasExported, Latest
<1> QED
  BY <1>2, <1>3, <1>4 DEF ApprovedAt

(* A new verdict is appended: the ones on file stay what they were. *)
LEMMA RecordAppends ==
  ASSUME TypeOK, NEW t \in Tasks, Record(t)
  PROVE  \E content \in Contents, reviewed \in Reviews(t) :
           /\ ~Replayed(t, content)
           /\ verdicts'[t] =
                Append(verdicts[t], [content |-> content, bound |-> {Binding(t)},
                                     reviewed |-> reviewed])
           /\ DOMAIN verdicts'[t] = 1..Len(verdicts[t]) + 1
           /\ \A i \in DOMAIN verdicts[t] :
                i \in DOMAIN verdicts'[t] /\ verdicts'[t][i] = verdicts[t][i]
           /\ verdicts'[t][Len(verdicts[t]) + 1].content = content
           /\ verdicts'[t][Len(verdicts[t]) + 1].bound = {Binding(t)}
           /\ verdicts'[t][Len(verdicts[t]) + 1].reviewed = reviewed
           /\ \A u \in Tasks \ {t} : verdicts'[u] = verdicts[u]
<1>1. PICK content \in Contents, reviewed \in Reviews(t) :
        /\ ~Replayed(t, content)
        /\ verdicts' = [verdicts EXCEPT ![t] =
             Append(@, [content |-> content, bound |-> {Binding(t)},
                        reviewed |-> reviewed])]
  BY DEF Record
<1> DEFINE v == [content |-> content, bound |-> {Binding(t)},
                 reviewed |-> reviewed]
<1>2. v \in VerdictRecords
  <2>1. reviewed \in SUBSET Bindings /\ {Binding(t)} \in SUBSET Bindings
    BY BindingType DEF Reviews, TypeOK
  <2> QED
    BY <2>1 DEF VerdictRecords
<1>3. verdicts[t] \in Seq(VerdictRecords)
  BY DEF TypeOK
<1>4. v.content = content /\ v.bound = {Binding(t)} /\ v.reviewed = reviewed
  OBVIOUS
<1>5. verdicts'[t] = Append(verdicts[t], v)
  BY <1>1 DEF TypeOK
<1>6. \A u \in Tasks \ {t} : verdicts'[u] = verdicts[u]
  BY <1>1 DEF TypeOK
<1> HIDE DEF v
<1>7. /\ DOMAIN verdicts'[t] = 1..Len(verdicts[t]) + 1
      /\ \A i \in DOMAIN verdicts[t] :
           i \in DOMAIN verdicts'[t] /\ verdicts'[t][i] = verdicts[t][i]
      /\ verdicts'[t][Len(verdicts[t]) + 1] = v
  BY <1>2, <1>3, <1>5
<1>8. WITNESS content \in Contents, reviewed \in Reviews(t)
<1> QED
  BY <1>1, <1>4, <1>5, <1>6, <1>7 DEF v

(* Every step keeps what ApprovedCompletion and ReviewedWasExported rest on. *)
LEMMA ApprovalStep == ApprovalInv /\ [Next]_vars => ApprovalInv'
<1> SUFFICES ASSUME ApprovalInv, [Next]_vars PROVE ApprovalInv'
  OBVIOUS
<1>0. TypeOK /\ ReviewedWasExported /\ ApprovedCompletion
  BY DEF ApprovalInv
<1>1. TypeOK'
  BY <1>0, TypeStep
<1>2. CASE UNCHANGED <<verdicts, bundles, done>>
  BY <1>0, <1>1, <1>2
     DEF ApprovalInv, ReviewedWasExported, ApprovedCompletion, ApprovedAt
<1>3. ASSUME NEW t \in Tasks, Export(t) PROVE ApprovalInv'
  <2>1. /\ UNCHANGED <<verdicts, done>>
        /\ \A u \in Tasks : bundles[u] \subseteq bundles'[u]
    BY <1>0, <1>3 DEF Export, BundleOf, TypeOK, history
  <2> QED
    BY <1>0, <1>1, <2>1
       DEF ApprovalInv, ReviewedWasExported, ApprovedCompletion, ApprovedAt
<1>4. ASSUME NEW t \in Tasks, Record(t) PROVE ApprovalInv'
  <2>1. UNCHANGED <<bundles, done>>
    BY <1>4 DEF Record, history
  <2>2. PICK content \in Contents, reviewed \in Reviews(t) :
           /\ DOMAIN verdicts'[t] = 1..Len(verdicts[t]) + 1
           /\ \A i \in DOMAIN verdicts[t] :
                i \in DOMAIN verdicts'[t] /\ verdicts'[t][i] = verdicts[t][i]
           /\ verdicts'[t][Len(verdicts[t]) + 1].bound = {Binding(t)}
           /\ verdicts'[t][Len(verdicts[t]) + 1].reviewed = reviewed
           /\ \A u \in Tasks \ {t} : verdicts'[u] = verdicts[u]
    BY <1>0, <1>4, RecordAppends
  <2>3. reviewed \subseteq {Binding(t)} \cap bundles[t]
    BY DEF Reviews
  <2>4. DOMAIN verdicts[t] = 1..Len(verdicts[t]) /\ Len(verdicts[t]) \in Nat
    BY <1>0 DEF TypeOK
  <2>5. ReviewedWasExported'
    BY <1>0, <2>1, <2>2, <2>3, <2>4 DEF ReviewedWasExported
  <2>6. ApprovedCompletion'
    BY <1>0, <2>1, <2>2 DEF ApprovedCompletion, ApprovedAt
  <2> QED
    BY <1>1, <2>5, <2>6 DEF ApprovalInv
<1>5. ASSUME NEW t \in Tasks, FinishTask(t) PROVE ApprovalInv'
  <2>1. /\ UNCHANGED <<verdicts, bundles>>
        /\ done' = [done EXCEPT ![t] = {Completion(t)}]
    BY <1>5 DEF FinishTask, trustVars
  <2>2. ReviewedWasExported'
    BY <1>0, <2>1 DEF ReviewedWasExported
  <2>3. ASSUME ~Completion(t).overrode, Completion(t).needsVerdict
        PROVE  /\ Completion(t).latest \in DOMAIN verdicts[t]
               /\ ApprovedAt(t, verdicts[t][Completion(t).latest],
                             Completion(t).at)
    <3>1. GateOpen(t) /\ NeedsVerdict(t)
      BY <2>3 DEF Completion
    <3> QED
      BY <1>0, <3>1, GateNeedsApproval DEF Completion, Latest
  <2>4. ApprovedCompletion'
    BY <1>0, <2>1, <2>3 DEF ApprovedCompletion, ApprovedAt, TypeOK
  <2> QED
    BY <1>1, <2>2, <2>4 DEF ApprovalInv
<1> QED
  BY <1>2, <1>3, <1>4, <1>5, VerdictFrame

(* No task is completed, and only legacy verdicts are on file, at the start. *)
LEMMA ApprovalInit == Init => ApprovalInv
<1> SUFFICES ASSUME Init PROVE ApprovalInv
  OBVIOUS
<1>1. ApprovedCompletion
  BY DEF Init, ApprovedCompletion
<1>2. ReviewedWasExported
  <2> SUFFICES ASSUME NEW t \in Tasks, NEW i \in DOMAIN verdicts[t]
               PROVE  verdicts[t][i].reviewed = {}
    BY DEF ReviewedWasExported
  <2>1. verdicts[t] = <<>> \/ \E c \in Contents : verdicts[t] = <<Legacy(c)>>
    BY DEF Init
  <2>2. PICK c \in Contents : verdicts[t] = <<Legacy(c)>>
    BY <2>1
  <2>3. i = 1 /\ verdicts[t][1] = Legacy(c)
    BY <2>2
  <2> QED
    BY <2>3 DEF Legacy
<1> QED
  BY <1>1, <1>2, TypeInit DEF ApprovalInv

(* A completion through the gate that needs a verdict has a passing one, from
   a fresh context, on a bundle of the very state it completed in. *)
THEOREM CompletionIsApproved == Spec => [](ReviewedWasExported /\ ApprovedCompletion)
<1>1. ApprovalInv => ReviewedWasExported /\ ApprovedCompletion
  BY DEF ApprovalInv
<1> QED
  BY <1>1, ApprovalInit, ApprovalStep, PTL DEF Spec

-----------------------------------------------------------------------------
(* Judged content is never on file twice. *)

(* Every step keeps the contents of the verdict files distinct. *)
LEMMA ReplayStep == TypeOK /\ NoReplay /\ [Next]_vars => NoReplay'
<1> SUFFICES ASSUME TypeOK, NoReplay, [Next]_vars PROVE NoReplay'
  OBVIOUS
<1>1. CASE UNCHANGED verdicts
  BY <1>1 DEF NoReplay
<1>2. ASSUME NEW t \in Tasks, Record(t) PROVE NoReplay'
  <2>1. PICK content \in Contents, reviewed \in Reviews(t) :
           /\ ~Replayed(t, content)
           /\ DOMAIN verdicts'[t] = 1..Len(verdicts[t]) + 1
           /\ \A i \in DOMAIN verdicts[t] :
                i \in DOMAIN verdicts'[t] /\ verdicts'[t][i] = verdicts[t][i]
           /\ verdicts'[t][Len(verdicts[t]) + 1].content = content
           /\ \A u \in Tasks \ {t} : verdicts'[u] = verdicts[u]
    BY <1>2, RecordAppends
  <2>2. DOMAIN verdicts[t] = 1..Len(verdicts[t]) /\ Len(verdicts[t]) \in Nat
    BY DEF TypeOK
  <2>3. \A i \in DOMAIN verdicts[t] : verdicts[t][i].content # content
    BY <2>1 DEF Replayed
  <2>4. ASSUME NEW i \in DOMAIN verdicts'[t], NEW j \in DOMAIN verdicts'[t],
               verdicts'[t][i].content = verdicts'[t][j].content
        PROVE  i = j
    <3>1. ASSUME i \in DOMAIN verdicts[t], j \in DOMAIN verdicts[t] PROVE i = j
      BY <2>1, <2>4, <3>1 DEF NoReplay
    <3>2. ASSUME NEW k \in 1..Len(verdicts[t]) + 1, k \notin DOMAIN verdicts[t]
          PROVE  k = Len(verdicts[t]) + 1
      BY <2>2, <3>2
    <3> QED
      BY <2>1, <2>2, <2>3, <2>4, <3>1, <3>2
  <2>5. ASSUME NEW u \in Tasks \ {t}, NEW i \in DOMAIN verdicts'[u],
               NEW j \in DOMAIN verdicts'[u],
               verdicts'[u][i].content = verdicts'[u][j].content
        PROVE  i = j
    BY <2>1, <2>5 DEF NoReplay
  <2> QED
    BY <2>4, <2>5 DEF NoReplay
<1>3. ASSUME NEW t \in Tasks, Export(t) \/ FinishTask(t) PROVE NoReplay'
  BY <1>1, <1>3 DEF Export, BundleOf, FinishTask, trustVars
<1> QED
  BY <1>1, <1>2, <1>3, VerdictFrame

(* What a verifier judged once is never registered for a second state. *)
THEOREM JudgedOnce == Spec => []NoReplay
<1>1. Init => NoReplay
  <2> SUFFICES ASSUME Init, NEW t \in Tasks,
                      NEW i \in DOMAIN verdicts[t], NEW j \in DOMAIN verdicts[t]
               PROVE  i = j
    BY DEF NoReplay
  <2>1. verdicts[t] = <<>> \/ \E c \in Contents : verdicts[t] = <<Legacy(c)>>
    BY DEF Init
  <2>2. PICK c \in Contents : verdicts[t] = <<Legacy(c)>>
    BY <2>1
  <2> QED
    BY <2>2
<1> QED
  BY <1>1, ReplayStep, TypeCorrect, PTL DEF Spec

-----------------------------------------------------------------------------
(* A failed attempt is reworked before the task completes. *)

FailureInv == TypeOK /\ ReworkOutstanding /\ FailureReworked

(* Only three commands write the workflow state, and completing a task
   writes its completion record. *)
LEMMA WorkflowFrame ==
  [Next]_vars =>
    \/ UNCHANGED <<wf, rework, done>>
    \/ \E t \in Tasks : Set(t) \/ Advance(t) \/ Attempt(t) \/ FinishTask(t)
BY DEF Next, Edit, EditTree, GitOutage, EditConfig, Tick, EditContract, EditRefs,
       Block, Command, Start, Complete, ForceComplete, Archive, Sync, Verify, Export,
       BundleOf, Record, vars, taskVars, trustVars, history

(* The part of ReworkOutstanding that concerns one task. *)
Outstanding(owed, w) ==
  /\ "pass" \in owed => LastOutcome(w) = "fail"
  /\ "verify" \in owed =>
       Enabled(w) /\ Position(w.profile, w.stage) < Position(w.profile, "verify")

(* Every step keeps what FailureReworked rests on. *)
LEMMA FailureStep == FailureInv /\ [Next]_vars => FailureInv'
<1> SUFFICES ASSUME FailureInv, [Next]_vars PROVE FailureInv'
  OBVIOUS
<1>0. TypeOK /\ ReworkOutstanding /\ FailureReworked /\ TypeOK'
  BY TypeStep DEF FailureInv
<1>1. \A t \in Tasks : wf[t] \in WorkflowStates /\ Outstanding(rework[t], wf[t])
  BY <1>0 DEF TypeOK, ReworkOutstanding, Outstanding
<1>2. CASE UNCHANGED <<wf, rework, done>>
  BY <1>0, <1>2 DEF FailureInv, ReworkOutstanding, FailureReworked
<1>3. ASSUME NEW t \in Tasks, UNCHANGED done,
             \A u \in Tasks \ {t} : wf'[u] = wf[u] /\ rework'[u] = rework[u],
             Outstanding(rework'[t], wf'[t])
      PROVE  FailureInv'
  <2>1. ReworkOutstanding'
    BY <1>0, <1>3 DEF ReworkOutstanding, Outstanding
  <2>2. FailureReworked'
    BY <1>0, <1>3 DEF FailureReworked
  <2> QED
    BY <1>0, <2>1, <2>2 DEF FailureInv
<1>4. ASSUME NEW t \in Tasks, Set(t) PROVE FailureInv'
  <2>1. PICK p \in UsedProfiles :
          wf[t].profile # p /\ wf' = [wf EXCEPT ![t] = SetProfileOf(wf[t], p)]
    BY <1>4 DEF Set
  <2>2. UNCHANGED <<rework, done>>
    BY <1>4 DEF Set, history
  <2>3. p \in Profiles
    BY TrustAssumption
  <2>4. wf'[t] = [profile |-> p, stage |-> Stages(p)[1],
                  history |-> <<Stages(p)[1]>>, attempts |-> wf[t].attempts]
    BY <1>0, <2>1 DEF TypeOK, SetProfileOf
  <2>5. LastOutcome(wf'[t]) = LastOutcome(wf[t])
    BY <2>4 DEF LastOutcome
  <2>6. Enabled(wf'[t])
    BY <2>3, <2>4 DEF Enabled, Profiles
  <2>7. Position(wf'[t].profile, wf'[t].stage) < Position(wf'[t].profile, "verify")
    BY <2>3, <2>4, ProfileShape
  <2>8. Outstanding(rework'[t], wf'[t])
    BY <1>1, <2>2, <2>5, <2>6, <2>7 DEF Outstanding
  <2> QED
    BY <1>0, <1>3, <2>1, <2>2, <2>8 DEF TypeOK
<1>5. ASSUME NEW t \in Tasks, Advance(t) PROVE FailureInv'
  <2>1. PICK to \in StagesOf(wf[t].profile) :
          /\ CanAdvance(wf[t].profile, wf[t].stage, to)
          /\ wf' = [wf EXCEPT ![t] = AdvanceOf(wf[t], to)]
          /\ rework' = [rework EXCEPT ![t] =
                          @ \ {k \in {"verify"} : to = "verify"}]
    BY <1>5 DEF Advance
  <2>2. Enabled(wf[t]) /\ wf[t].profile \in Profiles
        /\ wf[t].stage \in StagesOf(wf[t].profile)
    BY <1>1, <1>5, EnabledType DEF Advance
  <2>3. /\ wf'[t].profile = wf[t].profile
        /\ wf'[t].stage = to
        /\ wf'[t].attempts = wf[t].attempts
    BY <1>0, <1>1, <2>1, <2>2, AdvanceType DEF TypeOK
  <2>4. rework'[t] = rework[t] \ {k \in {"verify"} : to = "verify"}
    BY <1>0, <2>1 DEF TypeOK
  <2>5. LastOutcome(wf'[t]) = LastOutcome(wf[t])
    BY <2>3 DEF LastOutcome
  <2>6. ASSUME "verify" \in rework'[t]
        PROVE  /\ Enabled(wf'[t])
               /\ Position(wf'[t].profile, wf'[t].stage)
                    < Position(wf'[t].profile, "verify")
    <3>1. "verify" \in rework[t] /\ to # "verify"
      BY <2>4, <2>6
    <3>2. Position(wf[t].profile, wf[t].stage) < Position(wf[t].profile, "verify")
      BY <1>1, <3>1 DEF Outstanding
    <3>3. Position(wf[t].profile, to) < Position(wf[t].profile, "verify")
      BY <2>1, <2>2, <3>1, <3>2, AdvanceBeforeVerify
    <3> QED
      BY <2>2, <2>3, <3>3 DEF Enabled
  <2>7. Outstanding(rework'[t], wf'[t])
    BY <1>1, <2>4, <2>5, <2>6 DEF Outstanding
  <2>8. UNCHANGED done
    BY <1>5 DEF Advance
  <2> QED
    BY <1>0, <1>3, <2>1, <2>7, <2>8 DEF TypeOK
<1>6. ASSUME NEW t \in Tasks, Attempt(t) PROVE FailureInv'
  <2>1. PICK outcome \in Outcomes :
          /\ wf' = [wf EXCEPT ![t] = AttemptOf(wf[t], outcome)]
          /\ rework' = [rework EXCEPT ![t] = IF outcome = "fail"
                                             THEN {"pass", "verify"}
                                             ELSE @ \ {"pass"}]
    BY <1>6 DEF Attempt
  <2>2. Enabled(wf[t]) /\ wf[t].profile \in Profiles
        /\ wf[t].profile # "none"
    BY <1>1, <1>6, EnabledType DEF Attempt, Enabled
  <2>3. /\ LastOutcome(wf'[t]) = outcome
        /\ wf'[t].profile = wf[t].profile
        /\ wf'[t].stage = IF outcome = "fail" THEN "implement" ELSE wf[t].stage
    BY <1>0, <1>1, <2>1, <2>2, AttemptType DEF TypeOK
  <2>4. rework'[t] = IF outcome = "fail" THEN {"pass", "verify"}
                     ELSE rework[t] \ {"pass"}
    BY <1>0, <2>1 DEF TypeOK
  <2>5. CASE outcome = "fail"
    <3>1. Position(wf'[t].profile, wf'[t].stage)
            < Position(wf'[t].profile, "verify")
      BY <2>2, <2>3, <2>5, ProfileShape
    <3> QED
      BY <1>0, <1>3, <1>6, <2>1, <2>2, <2>3, <2>5, <3>1
         DEF Outstanding, Enabled, TypeOK, Attempt
  <2>6. CASE outcome # "fail"
    <3>1. Outstanding(rework'[t], wf'[t])
      BY <1>1, <2>2, <2>3, <2>4, <2>6 DEF Outstanding, Enabled
    <3> QED
      BY <1>0, <1>3, <1>6, <2>1, <3>1 DEF TypeOK, Attempt
  <2> QED
    BY <2>5, <2>6
<1>7. ASSUME NEW t \in Tasks, FinishTask(t) PROVE FailureInv'
  <2>1. /\ UNCHANGED <<wf, rework>>
        /\ done' = [done EXCEPT ![t] = {Completion(t)}]
    BY <1>7 DEF FinishTask, trustVars
  <2>2. ASSUME GateOpen(t), Enabled(wf[t]) PROVE rework[t] = {}
    <3>1. WorkflowHolds(t)
      BY <2>2 DEF GateOpen
    <3>2. /\ LastOutcome(wf[t]) # "fail"
          /\ Position(wf[t].profile, wf[t].stage)
               >= Position(wf[t].profile, CompletionStage(wf[t].profile))
      BY <3>1 DEF WorkflowHolds, ReachedCompletion
    <3>3. wf[t].profile \in Profiles /\ wf[t].stage \in StagesOf(wf[t].profile)
      BY <1>1, <2>2, EnabledType
    <3>4. ~(Position(wf[t].profile, wf[t].stage)
              < Position(wf[t].profile, "verify"))
      <4>1. /\ Position(wf[t].profile, wf[t].stage) \in Nat
            /\ Position(wf[t].profile, "verify") \in Nat
            /\ Position(wf[t].profile, CompletionStage(wf[t].profile)) \in Nat
        BY <3>3, PositionOfStage, ProfileShape, StagesType
      <4> QED
        BY <3>2, <3>3, <4>1, ProfileShape
    <3>5. "pass" \notin rework[t] /\ "verify" \notin rework[t]
      BY <1>1, <3>2, <3>4 DEF Outstanding
    <3> QED
      BY <1>0, <3>5 DEF TypeOK
  <2>3. ~Completion(t).overrode /\ Completion(t).enabled
          => Completion(t).owed = {}
    BY <2>2 DEF Completion
  <2>4. done'[t] = {Completion(t)} /\ \A u \in Tasks \ {t} : done'[u] = done[u]
    BY <1>0, <2>1 DEF TypeOK
  <2>5. FailureReworked'
    BY <1>0, <2>3, <2>4 DEF FailureReworked
  <2> QED
    BY <1>0, <2>1, <2>5 DEF FailureInv, ReworkOutstanding
<1> QED
  BY <1>2, <1>4, <1>5, <1>6, <1>7, WorkflowFrame

(* After a failed attempt nothing completes through the gate before a passing
   attempt and another pass through "verify". *)
THEOREM FailureIsReworked == Spec => [](ReworkOutstanding /\ FailureReworked)
<1>1. Init => FailureInv
  BY TypeInit DEF Init, FailureInv, ReworkOutstanding, FailureReworked
<1>2. FailureInv => ReworkOutstanding /\ FailureReworked
  BY DEF FailureInv
<1> QED
  BY <1>1, <1>2, FailureStep, PTL DEF Spec

-----------------------------------------------------------------------------
(* The task life cycle. *)

(* Only start, complete and archive write the status of a task. *)
LEMMA StatusFrame ==
  [Next]_vars =>
    \/ UNCHANGED <<status, done>>
    \/ \E t \in Tasks :
         Start(t) \/ Block(t) \/ Complete(t) \/ ForceComplete(t) \/ Archive(t)
BY DEF Next, Edit, EditTree, GitOutage, EditConfig, Tick, EditContract, EditRefs,
       Command, Set, Advance, Attempt, Sync, Verify, Export, BundleOf, Record,
       vars, taskVars, trustVars, history

LifeCycleInv == TypeOK /\ SingleActive /\ DependenciesFirst

(* Every step keeps the order of the life cycle. *)
LEMMA LifeCycleStep == LifeCycleInv /\ [Next]_vars => LifeCycleInv'
<1> SUFFICES ASSUME LifeCycleInv, [Next]_vars PROVE LifeCycleInv'
  OBVIOUS
<1>0. TypeOK /\ SingleActive /\ DependenciesFirst /\ TypeOK'
  BY TypeStep DEF LifeCycleInv
<1>1. CASE UNCHANGED <<status, done>>
  BY <1>0, <1>1 DEF LifeCycleInv, SingleActive, DependenciesFirst
<1>2. ASSUME NEW t \in Tasks, Start(t) \/ Block(t) PROVE LifeCycleInv'
  <2>1. SingleActive'
    <3>1. CASE Start(t)
      BY <1>0, <3>1 DEF Start, SingleActive, TypeOK
    <3>2. CASE Block(t)
      BY <1>0, <3>2 DEF Block, SingleActive, TypeOK
    <3> QED
      BY <1>2, <3>1, <3>2
  <2>2. \A u \in Tasks : status[u] \in {"completed", "archived"}
                        => status'[u] = status[u]
    BY <1>0, <1>2 DEF Start, Block, TypeOK
  <2>3. DependenciesFirst'
    BY <1>0, <1>2, <2>2, TrustAssumption
       DEF Start, Block, DependenciesFirst, TypeOK, history
  <2> QED
    BY <1>0, <2>1, <2>3 DEF LifeCycleInv
<1>3. ASSUME NEW t \in Tasks, Complete(t) \/ ForceComplete(t)
      PROVE  LifeCycleInv'
  <2>1. /\ status' = [status EXCEPT ![t] = "completed"]
        /\ done' = [done EXCEPT ![t] = {Completion(t)}]
    BY <1>3 DEF Complete, ForceComplete, FinishTask
  <2>2. SingleActive'
    BY <1>0, <2>1 DEF SingleActive, TypeOK
  <2>3. \A u \in Tasks : status[u] \in {"completed", "archived"}
                        => status'[u] \in {"completed", "archived"}
    BY <1>0, <2>1 DEF TypeOK
  <2>4. ~Completion(t).overrode =>
          \A u \in Dependencies[t] : status[u] \in {"completed", "archived"}
    BY DEF Completion, GateOpen, DependenciesHold
  <2>5. done'[t] = {Completion(t)} /\ \A u \in Tasks \ {t} : done'[u] = done[u]
    BY <1>0, <2>1 DEF TypeOK
  <2>6. DependenciesFirst'
    <3>1. \A u \in Tasks : Dependencies[u] \subseteq Tasks
      BY TrustAssumption
    <3> QED
      BY <1>0, <2>3, <2>4, <2>5, <3>1 DEF DependenciesFirst
  <2> QED
    BY <1>0, <2>2, <2>6 DEF LifeCycleInv
<1>4. ASSUME NEW t \in Tasks, Archive(t) PROVE LifeCycleInv'
  <2>1. status' = [status EXCEPT ![t] = "archived"] /\ UNCHANGED done
    BY <1>4 DEF Archive, history
  <2>2. SingleActive'
    BY <1>0, <2>1 DEF SingleActive, TypeOK
  <2>3. \A u \in Tasks : status[u] \in {"completed", "archived"}
                        => status'[u] \in {"completed", "archived"}
    BY <1>0, <2>1 DEF TypeOK
  <2>4. DependenciesFirst'
    BY <1>0, <2>1, <2>3, TrustAssumption DEF DependenciesFirst
  <2> QED
    BY <1>0, <2>2, <2>4 DEF LifeCycleInv
<1> QED
  BY <1>1, <1>2, <1>3, <1>4, StatusFrame

(* One task at a time, dependencies first: what holds of commands that do not
   overlap. *)
THEOREM LifeCycleOrder == Spec => [](SingleActive /\ DependenciesFirst)
<1>1. Init => LifeCycleInv
  BY TypeInit DEF Init, LifeCycleInv, SingleActive, DependenciesFirst
<1>2. LifeCycleInv => SingleActive /\ DependenciesFirst
  BY DEF LifeCycleInv
<1> QED
  BY <1>1, <1>2, LifeCycleStep, PTL DEF Spec

-----------------------------------------------------------------------------
(* Freshness: exactly the changes of substance make a verdict stale. *)

(* Bookkeeping leaves the binding of the task as it was. *)
LEMMA BookkeepingStep ==
  ASSUME TypeOK, NEW t \in Tasks, Bookkeeping(t)
  PROVE  Binding(t)' = Binding(t) /\ UNCHANGED <<verdicts, refs>>
<1>1. CASE \/ Start(t) \/ Block(t) \/ Complete(t) \/ ForceComplete(t)
           \/ Archive(t) \/ Tick(t)
  <2>1. UNCHANGED <<tree, gitUp, config, contract, refs, wf, registry, verdicts>>
    BY <1>1 DEF Start, Block, Complete, ForceComplete, FinishTask, Archive, Tick,
                trustVars
  <2> QED
    BY <2>1 DEF Binding, SourceDigest, ConfigDigest
<1>2. CASE Attempt(t) /\ wf[t].stage = wf'[t].stage
  <2>1. /\ UNCHANGED <<tree, gitUp, config, contract, refs, registry, verdicts>>
        /\ Enabled(wf[t])
        /\ \E outcome \in Outcomes :
             wf' = [wf EXCEPT ![t] = AttemptOf(wf[t], outcome)]
    BY <1>2 DEF Attempt, taskVars
  <2>2. wf'[t].profile = wf[t].profile
    BY <2>1, AttemptType DEF TypeOK
  <2> QED
    BY <1>2, <2>1, <2>2 DEF Binding, SourceDigest, ConfigDigest
<1> QED
  BY <1>1, <1>2 DEF Bookkeeping

(* Bookkeeping never stales a task's own verdict. *)
THEOREM BookkeepingIsNeutral == Spec => BookkeepingKeepsFresh
<1>1. TypeOK /\ [Next]_vars =>
        [\A t \in Tasks :
           Bookkeeping(t) /\ HasVerdict(t) /\ Fresh(t) => Fresh(t)']_vars
  <2> SUFFICES ASSUME TypeOK, NEW t \in Tasks, Bookkeeping(t), Fresh(t)
               PROVE  Fresh(t)'
    OBVIOUS
  <2> QED
    BY BookkeepingStep DEF Fresh, Bindable, Latest
<1> QED
  BY <1>1, TypeCorrect, PTL DEF Spec, BookkeepingKeepsFresh

(* The only command that writes a verdict changes nothing that is bound. *)
LEMMA RecordFrame ==
  [Next]_vars =>
    \/ UNCHANGED verdicts
    \/ UNCHANGED <<tree, gitUp, config, contract, refs, wf, registry>>
BY DEF Next, Edit, EditTree, GitOutage, EditConfig, Tick, EditContract, EditRefs,
       Block, Command, Start, Complete, ForceComplete, FinishTask, Archive, Set,
       Advance, Attempt, Sync, Verify, Export, BundleOf, Record, vars, taskVars,
       trustVars, history

(* Every change of substance makes the latest verdict stale. *)
THEOREM ChangeIsNoticed == Spec => ChangeMakesStale
<1>1. [Next]_vars =>
        [\A t \in Tasks :
           HasVerdict(t) /\ Fresh(t) /\ Substance(t)' # Substance(t)
             => ~Fresh(t)']_vars
  <2> SUFFICES ASSUME [Next]_vars, NEW t \in Tasks, Fresh(t), Fresh(t)'
               PROVE  Substance(t)' = Substance(t)
    OBVIOUS
  <2>1. CASE UNCHANGED <<tree, gitUp, config, contract, refs, wf, registry>>
    BY <2>1 DEF Substance, Effective
  <2>2. CASE UNCHANGED verdicts
    <3>1. Binding(t)' = Binding(t)
      BY <2>2 DEF Fresh, Latest
    <3>2. /\ SourceDigest' = SourceDigest
          /\ ConfigDigest' = ConfigDigest
          /\ contract'[t] = contract[t] /\ refs'[t] = refs[t]
          /\ wf'[t].profile = wf[t].profile /\ wf'[t].stage = wf[t].stage
          /\ registry'[t] = registry[t]
      BY <3>1 DEF Binding
    <3> QED
      BY <3>2 DEF Substance, Effective, SourceDigest, ConfigDigest
  <2> QED
    BY <2>1, <2>2, RecordFrame
<1> QED
  BY <1>1, PTL DEF Spec, ChangeMakesStale

-----------------------------------------------------------------------------
(* The chain implements CompletionLedger. *)

(* Bundles behind the standing judgment are not part of the ledger, so the
   refinement rests on types and on the shape of completion records alone. *)
OutcomeInv ==
  /\ TypeOK
  /\ \A t \in Tasks : status[t] \in {"pending", "blocked", "active"} => done[t] = {}

(* A task has a completion record only once it is completed. *)
LEMMA OutcomeStep == OutcomeInv /\ [Next]_vars => OutcomeInv'
<1> SUFFICES ASSUME OutcomeInv, [Next]_vars PROVE OutcomeInv'
  OBVIOUS
<1>0. TypeOK /\ TypeOK'
  BY TypeStep DEF OutcomeInv
<1>1. CASE UNCHANGED <<status, done>>
  BY <1>0, <1>1 DEF OutcomeInv
<1>2. ASSUME NEW t \in Tasks, Start(t) \/ Block(t) PROVE OutcomeInv'
  BY <1>0, <1>2 DEF OutcomeInv, Start, Block, TypeOK, history
<1>3. ASSUME NEW t \in Tasks, Complete(t) \/ ForceComplete(t) PROVE OutcomeInv'
  BY <1>0, <1>3 DEF OutcomeInv, Complete, ForceComplete, FinishTask, TypeOK
<1>4. ASSUME NEW t \in Tasks, Archive(t) PROVE OutcomeInv'
  BY <1>0, <1>4 DEF OutcomeInv, Archive, TypeOK, history
<1> QED
  BY <1>1, <1>2, <1>3, <1>4, StatusFrame

(* The initial states of the chain are initial states of the ledger. *)
LEMMA LedgerInit == Init => Ledger!Init
<1> SUFFICES ASSUME Init PROVE Ledger!Init
  OBVIOUS
<1>0. TypeOK
  BY TypeInit
<1>1. [t \in Tasks |-> Phase(t)] = [t \in Tasks |-> "open"]
  BY DEF Init, Phase
<1>2. [t \in Tasks |-> Binding(t)] \in [Tasks -> Bindings]
  BY <1>0, BindingType
<1>3. [t \in Tasks |-> NeedsVerdict(t)] \in [Tasks -> BOOLEAN]
  BY DEF NeedsVerdict
<1>4. [t \in Tasks |-> Standing(t)] = [t \in Tasks |-> {}]
  <2> SUFFICES ASSUME NEW t \in Tasks PROVE Standing(t) = {}
    OBVIOUS
  <2>1. verdicts[t] = <<>> \/ \E c \in Contents : verdicts[t] = <<Legacy(c)>>
    BY DEF Init
  <2>2. CASE verdicts[t] = <<>>
    BY <2>2 DEF Standing, HasVerdict
  <2>3. ASSUME NEW c \in Contents, verdicts[t] = <<Legacy(c)>>
        PROVE  Standing(t) = {}
    BY <2>3 DEF Standing, Latest, Legacy, Approves, Independent
  <2> QED
    BY <2>1, <2>2, <2>3
<1>5. [t \in Tasks |-> Outcome(t)] = [t \in Tasks |-> "none"]
  BY DEF Init, Outcome
<1>6. [t \in Tasks |-> Reviewed(t)] \in [Tasks -> BOOLEAN] /\ ReviewInForce \in BOOLEAN
  BY DEF Reviewed, ReviewInForce, ConfigLoads
<1> QED
  BY <1>1, <1>2, <1>3, <1>4, <1>5, <1>6 DEF Ledger!Init

(* The mapped state of every task is one a judgment can be about. *)
LEMMA BindingsAreTyped == TypeOK => \A t \in Tasks : Binding(t) \in Bindings
BY BindingType

(* A step that moves neither status, nor verdicts, nor completion records is
   a change of the world. *)
LEMMA LedgerChange ==
  ASSUME TypeOK', UNCHANGED <<status, verdicts, done>>
  PROVE  Ledger!Change
<1>1. [t \in Tasks |-> Binding(t)]' \in [Tasks -> Bindings]
  <2>1. (\A t \in Tasks : Binding(t) \in Bindings)'
    BY BindingsAreTyped, PTL
  <2> QED
    BY <2>1
<1>2. [t \in Tasks |-> NeedsVerdict(t)]' \in [Tasks -> BOOLEAN]
  BY DEF NeedsVerdict
<1>3. UNCHANGED <<[t \in Tasks |-> Phase(t)], [t \in Tasks |-> Standing(t)],
                  [t \in Tasks |-> Reviewed(t)], [t \in Tasks |-> Outcome(t)]>>
  BY DEF Phase, Standing, Reviewed, HasVerdict, Latest, Outcome
<1>4. ReviewInForce' \in BOOLEAN
  BY DEF ReviewInForce, ConfigLoads
<1> QED
  BY <1>1, <1>2, <1>3, <1>4 DEF Ledger!Change

(* Every step of the chain is a step of the ledger, or none. *)
LEMMA LedgerStep == OutcomeInv /\ [Next]_vars => [Ledger!Next]_(Ledger!vars)
<1> SUFFICES ASSUME OutcomeInv, [Next]_vars
             PROVE  [Ledger!Next]_(Ledger!vars)
  OBVIOUS
<1>0. TypeOK /\ TypeOK'
  BY TypeStep DEF OutcomeInv
<1>1. CASE UNCHANGED <<status, verdicts, done>>
  BY <1>0, <1>1, LedgerChange DEF Ledger!Next
<1>2. ASSUME NEW t \in Tasks, Start(t) \/ Block(t) PROVE [Ledger!Next]_(Ledger!vars)
  <2>1. /\ UNCHANGED <<tree, gitUp, config, contract, refs, wf, registry,
                        verdicts, done>>
        /\ \A u \in Tasks : Phase(u)' = Phase(u)
    BY <1>0, <1>2 DEF Start, Block, TypeOK, Phase, trustVars, history
  <2>2. UNCHANGED Ledger!vars
    BY <2>1 DEF Ledger!vars, Binding, SourceDigest, ConfigDigest, NeedsVerdict,
                Effective, Standing, Reviewed, ReviewInForce, ConfigLoads, HasVerdict,
                Latest, Outcome
  <2> QED
    BY <2>2
<1>3. ASSUME NEW t \in Tasks, Complete(t) \/ ForceComplete(t)
      PROVE  [Ledger!Next]_(Ledger!vars)
  <2>1. /\ status[t] = "active"
        /\ status' = [status EXCEPT ![t] = "completed"]
        /\ done' = [done EXCEPT ![t] = {Completion(t)}]
        /\ UNCHANGED <<tree, gitUp, config, contract, refs, wf, registry,
                        verdicts>>
    BY <1>3 DEF Complete, ForceComplete, FinishTask, trustVars
  <2>2. /\ [u \in Tasks |-> Phase(u)][t] = "open"
        /\ [u \in Tasks |-> Phase(u)]' =
             [[u \in Tasks |-> Phase(u)] EXCEPT ![t] = "completed"]
    BY <1>0, <2>1 DEF TypeOK, Phase
  <2>3. UNCHANGED <<[u \in Tasks |-> Binding(u)], [u \in Tasks |-> NeedsVerdict(u)],
                    [u \in Tasks |-> Standing(u)], [u \in Tasks |-> Reviewed(u)],
                    ReviewInForce>>
    BY <2>1 DEF Binding, SourceDigest, ConfigDigest, NeedsVerdict, Effective,
                Standing, Reviewed, ReviewInForce, ConfigLoads, HasVerdict, Latest
  <2> DEFINE how == IF ~GateOpen(t) THEN "overridden"
                    ELSE IF NeedsVerdict(t) THEN "approved" ELSE "ungated"
  <2>4. done'[t] = {Completion(t)} /\ \A u \in Tasks \ {t} : done'[u] = done[u]
    BY <1>0, <2>1 DEF TypeOK
  <2>5. Outcome(t)' = how
    <3>1. done'[t] = {Completion(t)}
      BY <2>4
    <3>2. /\ Completion(t).overrode <=> ~GateOpen(t)
          /\ Completion(t).needsVerdict <=> NeedsVerdict(t)
      BY DEF Completion
    <3> QED
      BY <3>1, <3>2 DEF Outcome
  <2>6. [u \in Tasks |-> Outcome(u)]' =
          [[u \in Tasks |-> Outcome(u)] EXCEPT ![t] = how]
    BY <2>4, <2>5 DEF Outcome
  <2>7. Ledger!Close(t, how)
    BY <2>2, <2>3, <2>6 DEF Ledger!Close
  <2>8. CASE ~GateOpen(t)
    BY <2>7, <2>8 DEF Ledger!Next, Ledger!Override
  <2>9. CASE GateOpen(t) /\ ~NeedsVerdict(t)
    BY <2>7, <2>9 DEF Ledger!Next, Ledger!Finish
  <2>10. CASE GateOpen(t) /\ NeedsVerdict(t)
    <3>1. VerdictHolds(t)
      BY <2>10 DEF GateOpen, WorkflowHolds, NeedsVerdict
    <3>2. Standing(t) = {Binding(t)}
      BY <3>1 DEF VerdictHolds, Standing, Approves, Fresh
    <3>3. ReviewInForce => Reviewed(t)
      BY <3>1 DEF VerdictHolds, MeetsReview, Reviewed
    <3> QED
      BY <2>7, <2>10, <3>2, <3>3 DEF Ledger!Next, Ledger!Approve
  <2> QED
    BY <2>8, <2>9, <2>10
<1>4. ASSUME NEW t \in Tasks, Archive(t) PROVE [Ledger!Next]_(Ledger!vars)
  <2>1. /\ status[t] = "completed"
        /\ status' = [status EXCEPT ![t] = "archived"]
        /\ UNCHANGED <<tree, gitUp, config, contract, refs, wf, registry,
                        verdicts, done>>
    BY <1>4 DEF Archive, trustVars, history
  <2>2. /\ [u \in Tasks |-> Phase(u)][t] = "completed"
        /\ [u \in Tasks |-> Phase(u)]' =
             [[u \in Tasks |-> Phase(u)] EXCEPT ![t] = "archived"]
    BY <1>0, <2>1 DEF TypeOK, Phase
  <2>3. UNCHANGED <<[u \in Tasks |-> Binding(u)], [u \in Tasks |-> NeedsVerdict(u)],
                    [u \in Tasks |-> Standing(u)], [u \in Tasks |-> Reviewed(u)],
                    ReviewInForce, [u \in Tasks |-> Outcome(u)]>>
    BY <2>1 DEF Binding, SourceDigest, ConfigDigest, NeedsVerdict, Effective,
                Standing, Reviewed, ReviewInForce, ConfigLoads, HasVerdict, Latest,
                Outcome
  <2> QED
    BY <2>2, <2>3 DEF Ledger!Next, Ledger!Archive
<1>5. ASSUME NEW t \in Tasks, Record(t) PROVE [Ledger!Next]_(Ledger!vars)
  <2>1. UNCHANGED <<tree, gitUp, config, status, contract, refs, wf, registry,
                    done>>
    BY <1>5 DEF Record, taskVars, history
  <2>2. PICK content \in Contents, reviewed \in Reviews(t) :
           /\ verdicts'[t] =
                Append(verdicts[t], [content |-> content, bound |-> {Binding(t)},
                                     reviewed |-> reviewed])
           /\ DOMAIN verdicts'[t] = 1..Len(verdicts[t]) + 1
           /\ verdicts'[t][Len(verdicts[t]) + 1].bound = {Binding(t)}
           /\ \A u \in Tasks \ {t} : verdicts'[u] = verdicts[u]
    BY <1>0, <1>5, RecordAppends
  <2>3. verdicts'[t] \in Seq(VerdictRecords) /\ Len(verdicts[t]) \in Nat
    BY <1>0 DEF TypeOK
  <2>4. Latest(t)'.bound = {Binding(t)}
    BY <2>2, <2>3 DEF Latest
  <2>5. Standing(t)' \in {{}, {Binding(t)}}
    BY <2>4 DEF Standing
  <2>6. [u \in Tasks |-> Standing(u)]' =
          [[u \in Tasks |-> Standing(u)] EXCEPT ![t] = Standing(t)']
    BY <2>2 DEF Standing, HasVerdict, Latest
  <2>7. UNCHANGED <<[u \in Tasks |-> Phase(u)], [u \in Tasks |-> Binding(u)],
                    [u \in Tasks |-> NeedsVerdict(u)], ReviewInForce,
                    [u \in Tasks |-> Outcome(u)]>>
    BY <2>1 DEF Phase, Binding, SourceDigest, ConfigDigest, NeedsVerdict,
                Effective, ReviewInForce, ConfigLoads, Outcome
  <2>8. Reviewed(t)' \in BOOLEAN
    BY DEF Reviewed
  <2>9. [u \in Tasks |-> Reviewed(u)]' =
          [[u \in Tasks |-> Reviewed(u)] EXCEPT ![t] = Reviewed(t)']
    BY <2>2 DEF Reviewed, HasVerdict, Latest
  <2>10. Ledger!Judge(t)
    BY <2>5, <2>6, <2>7, <2>8, <2>9 DEF Ledger!Judge
  <2> QED
    BY <2>10 DEF Ledger!Next
<1> QED
  BY <1>1, <1>2, <1>3, <1>4, <1>5, StatusFrame, VerdictFrame
     DEF Export, BundleOf, FinishTask, taskVars, trustVars, history

(* Every behaviour of the chain keeps the ledger: a task that needs a verdict
   is approved only on a standing judgment of the state it is in, which meets
   the review policy unless the gate has lost that policy at that moment. *)
THEOREM ChainKeepsLedger == Spec => KeepsLedger
<1>1. Init => OutcomeInv
  BY TypeInit DEF Init, OutcomeInv
<1> QED
  BY <1>1, OutcomeStep, LedgerInit, LedgerStep, PTL
     DEF Spec, KeepsLedger, Ledger!Spec


-----------------------------------------------------------------------------
(* Reports, checkpoints and handoffs only read the chain of trust; what an
   accepted handoff says of the state it is bound to is so now; and what the
   commit hook refuses the gate refuses.

   The argument for handoffs: the problems of an active task that a binding
   covers are a function of that binding (BoundOf), so they are the same
   wherever the binding is the same. *)

(* What people do at the report's advice is some command or edit. *)
LEMMA AnswersAreSteps ==
  ASSUME NEW t \in Tasks, NEW told, Answer(t, told)
  PROVE  Next
<1>1. CASE "start" \in told /\ Start(t)  BY <1>1 DEF Next, Command
<1>2. CASE "document" \in told /\ Tick(t)  BY <1>2 DEF Next, Edit
<1>3. CASE "advance" \in told /\ Advance(t)  BY <1>3 DEF Next, Command
<1>4. CASE "pass" \in told /\ Attempt(t)  BY <1>4 DEF Next, Command
<1>5. CASE "complete" \in told /\ Complete(t)  BY <1>5 DEF Next, Command
<1>6. CASE Prove(t, told)
  <2>1. Verify(t)  BY <1>6 DEF Prove
  <2>. QED  BY <2>1 DEF Next, Command
<1>7. CASE Review(t, told)
  <2>1. Export(t) \/ Record(t)  BY <1>7 DEF Review
  <2>. QED  BY <2>1 DEF Next, Command
<1>8. CASE Supply(t, told)
  <2>1. Sync(t) \/ EditConfig  BY <1>8 DEF Supply
  <2>. QED  BY <2>1 DEF Next, Command, Edit
<1>. QED  BY <1>1, <1>2, <1>3, <1>4, <1>5, <1>6, <1>7, <1>8 DEF Answer

(* A checkpoint, a handoff, a report or a resolution changes no document of
   the chain: every behavior with them is, without them, one of TrustChain. *)
THEOREM NotesKeepTrust == StatusSpec => Spec
<1>1. StatusInit => Init  BY DEF StatusInit
<1>2. [StatusNext]_statusVars => [Next]_vars
  <2>. SUFFICES ASSUME [StatusNext]_statusVars PROVE [Next]_vars
    OBVIOUS
  <2>1. CASE Next  BY <2>1
  <2>2. CASE \E t \in Tasks : Note(t)
    <3>1. PICK t \in Tasks : Note(t)  BY <2>2
    <3>2. UNCHANGED vars  BY <3>1 DEF Note, CreateCheckpoint, ExportHandoff
    <3>. QED  BY <3>2
  <2>3. CASE Settle  BY <2>3 DEF Settle
  <2>4. CASE Diligence
    <3>1. PICK t \in Tasks : Answer(t, Advice(t))  BY <2>4 DEF Diligence
    <3>. QED  BY <3>1, AnswersAreSteps
  <2>5. CASE UNCHANGED statusVars  BY <2>5 DEF statusVars
  <2>. QED  BY <2>1, <2>2, <2>3, <2>4, <2>5 DEF StatusNext
<1>. QED  BY <1>1, <1>2, PTL DEF StatusSpec, Spec

-----------------------------------------------------------------------------
(* The bound problems of an active task, read off its binding. *)

Strictness(c) ==
  IF c \in {"strict", "unresolved"} THEN [verifier |-> TRUE, evidence |-> TRUE] ELSE NoOverrides

ArtifactOf(b) ==
  \/ RequiresEvidence(b.profile, Strictness(b.config)) /\ ~b.evidence.present
  \/ /\ DriftAssembles
     /\ ~(RequiredArtifacts(b.profile, b.stage)
            \subseteq {"task"} \cup {k \in {"evidence"} : b.evidence.present})

UnprovenOf(b) ==
  /\ RequiresEvidence(b.profile, Strictness(b.config))
  /\ b.evidence.present /\ ~Proven(b.evidence)

UnverifiedOf(b) == DriftAssembles /\ b.evidence.present /\ ~Verified(b.evidence)

StageOf(b) == ~ReachedCompletion(b.profile, b.stage)

UnplannedOf(b) ==
  /\ DriftAssembles /\ b.profile = "high-risk"
  /\ b.source # "degraded" /\ b.source \in Unplanned

BoundOf(b) ==
  {c \in BoundProblems :
     /\ b.profile # "none"
     /\ \/ c = "artifact missing" /\ ArtifactOf(b)
        \/ c = "criterion unproven" /\ UnprovenOf(b)
        \/ c = "criterion unverified" /\ UnverifiedOf(b)
        \/ c = "stage" /\ StageOf(b)
        \/ c = "unplanned change" /\ UnplannedOf(b)}

(* The five codes, spelled out for an active task with a workflow state. *)
LEMMA BoundBlockers ==
  ASSUME NEW t \in Tasks, status[t] = "active", Enabled(wf[t]), NEW c \in BoundProblems
  PROVE  c \in Blockers(t) <=>
           \/ /\ c = "artifact missing"
              /\ \/ NeedsEvidence(t) /\ ~registry[t].present
                 \/ /\ DriftAssembles
                    /\ ~(RequiredArtifacts(wf[t].profile, wf[t].stage)
                           \subseteq {"task"} \cup {k \in {"evidence"} : registry[t].present})
           \/ /\ c = "criterion unproven"
              /\ NeedsEvidence(t) /\ registry[t].present /\ ~Proven(registry[t])
           \/ /\ c = "criterion unverified"
              /\ DriftAssembles /\ registry[t].present /\ ~Verified(registry[t])
           \/ c = "stage" /\ ~ReachedCompletion(wf[t].profile, wf[t].stage)
           \/ /\ c = "unplanned change"
              /\ DriftAssembles /\ wf[t].profile = "high-risk" /\ gitUp /\ tree \in Unplanned
<1>1. c \notin VerdictProblems(t)
  BY DEF VerdictProblems, BoundProblems
<1>2. c \in DriftProblems(t) <=>
        \/ /\ c = "artifact missing"
           /\ ~(RequiredArtifacts(wf[t].profile, wf[t].stage)
                  \subseteq {"task"} \cup {k \in {"evidence"} : registry[t].present})
        \/ c = "criterion unverified" /\ registry[t].present /\ ~Verified(registry[t])
        \/ c = "unplanned change" /\ wf[t].profile = "high-risk" /\ gitUp /\ tree \in Unplanned
  BY DEF DriftProblems, Unmet, BoundProblems
<1>3. c \in EvidenceProblems(t) <=>
        \/ c = "artifact missing" /\ ~registry[t].present
        \/ c = "criterion unproven" /\ registry[t].present /\ ~Proven(registry[t])
  BY DEF EvidenceProblems, BoundProblems
<1>4. c \in Blockers(t) <=>
        \/ NeedsEvidence(t) /\ c \in EvidenceProblems(t)
        \/ c = "stage" /\ ~ReachedCompletion(wf[t].profile, wf[t].stage)
        \/ DriftAssembles /\ c \in DriftProblems(t)
  BY <1>1 DEF Blockers, WorkflowProblems, BoundProblems
<1>. QED  BY <1>2, <1>3, <1>4 DEF BoundProblems

(* An active task's bound problems are a function of its binding. *)
LEMMA ProblemsOfBinding ==
  ASSUME TypeOK, NEW t \in Tasks, status[t] = "active"
  PROVE  Blockers(t) \cap BoundProblems = BoundOf(Binding(t))
<1>. DEFINE b == Binding(t)
<1>1. /\ b.profile = wf[t].profile /\ b.stage = wf[t].stage
      /\ b.config = ConfigDigest /\ b.evidence = registry[t] /\ b.source = SourceDigest
  BY DEF Binding
<1>2. CASE ~Enabled(wf[t])
  <2>1. Blockers(t) \cap BoundProblems = {}
    BY <1>2 DEF Blockers, BoundProblems
  <2>2. BoundOf(b) = {}
    BY <1>1, <1>2 DEF BoundOf, Enabled
  <2>. QED  BY <2>1, <2>2
<1>3. CASE Enabled(wf[t])
  <2>1. Strictness(b.config) = Effective
    BY <1>1 DEF Strictness, Effective, ConfigDigest
  <2>2. NeedsEvidence(t) <=> RequiresEvidence(b.profile, Strictness(b.config))
    BY <1>1, <1>3, <2>1 DEF NeedsEvidence
  <2>3. b.source # "degraded" /\ b.source \in Unplanned <=> gitUp /\ tree \in Unplanned
    BY <1>1, TrustAssumption DEF SourceDigest, TypeOK
  <2>4. ASSUME NEW c \in BoundProblems
        PROVE  c \in Blockers(t) <=> c \in BoundOf(b)
    <3>. HIDE DEF b
    <3>1. b.profile # "none"  BY <1>1, <1>3 DEF Enabled
    <3>2. ArtifactOf(b) <=>
            \/ NeedsEvidence(t) /\ ~registry[t].present
            \/ /\ DriftAssembles
               /\ ~(RequiredArtifacts(wf[t].profile, wf[t].stage)
                      \subseteq {"task"} \cup {k \in {"evidence"} : registry[t].present})
      BY <1>1, <2>2 DEF ArtifactOf
    <3>3. UnprovenOf(b) <=> NeedsEvidence(t) /\ registry[t].present /\ ~Proven(registry[t])
      BY <1>1, <2>2 DEF UnprovenOf
    <3>4. UnverifiedOf(b) <=> DriftAssembles /\ registry[t].present /\ ~Verified(registry[t])
      BY <1>1 DEF UnverifiedOf
    <3>5. StageOf(b) <=> ~ReachedCompletion(wf[t].profile, wf[t].stage)
      BY <1>1 DEF StageOf
    <3>6. UnplannedOf(b) <=>
            DriftAssembles /\ wf[t].profile = "high-risk" /\ gitUp /\ tree \in Unplanned
      BY <1>1, <2>3 DEF UnplannedOf
    <3>7. c \in BoundOf(b) <=>
            \/ c = "artifact missing" /\ ArtifactOf(b)
            \/ c = "criterion unproven" /\ UnprovenOf(b)
            \/ c = "criterion unverified" /\ UnverifiedOf(b)
            \/ c = "stage" /\ StageOf(b)
            \/ c = "unplanned change" /\ UnplannedOf(b)
      BY <3>1 DEF BoundOf
    <3>. QED
      BY <1>3, <3>2, <3>3, <3>4, <3>5, <3>6, <3>7, BoundBlockers
  <2>. QED  BY <2>4 DEF BoundOf
<1>. QED  BY <1>2, <1>3

-----------------------------------------------------------------------------
(* Handoffs. *)

(* A handoff exported for an active task lists the bound problems of the
   state it is bound to. *)
HandoffTrue ==
  \A t \in Tasks : \A h \in handoff[t] :
    h.status = "active" => h.blockers \cap BoundProblems = BoundOf(h.state)

HandoffDomain == DOMAIN handoff = Tasks

HandoffInv == TypeOK /\ HandoffDomain /\ HandoffTrue

LEMMA HandoffStep == HandoffInv /\ [StatusNext]_statusVars => HandoffDomain' /\ HandoffTrue'
<1>. SUFFICES ASSUME HandoffInv, [StatusNext]_statusVars
              PROVE  HandoffDomain' /\ HandoffTrue'
  OBVIOUS
<1>1. CASE UNCHANGED handoff
  BY <1>1 DEF HandoffInv, HandoffDomain, HandoffTrue, BoundOf, ArtifactOf, UnprovenOf,
              UnverifiedOf, StageOf, UnplannedOf
<1>2. CASE \E t \in Tasks : ExportHandoff(t)
  <2>1. PICK t \in Tasks : ExportHandoff(t)  BY <1>2
  <2>2. HandoffDomain'
    BY <2>1 DEF ExportHandoff, NewHandoff, HandoffInv, HandoffDomain
  <2>3. ASSUME NEW u \in Tasks, NEW h \in handoff'[u], h.status = "active"
        PROVE  h.blockers \cap BoundProblems = BoundOf(h.state)
    <3>1. CASE u # t
      <4>1. handoff'[u] = handoff[u]
        BY <2>1, <3>1 DEF ExportHandoff, NewHandoff, HandoffInv, HandoffDomain
      <4>. QED  BY <2>3, <4>1 DEF HandoffInv, HandoffTrue
    <3>2. CASE u = t
      <4>1. PICK c \in checkpoint[t] :
              h = [state |-> Binding(t), status |-> status[t], blockers |-> Blockers(t),
                   next |-> NextActions(t), checkpoint |-> c]
        BY <2>1, <2>3, <3>2 DEF ExportHandoff, NewHandoff, HandoffInv, HandoffDomain
      <4>2. h.status = status[t] /\ h.blockers = Blockers(t) /\ h.state = Binding(t)
        BY <4>1
      <4>. QED  BY <2>3, <4>2, ProblemsOfBinding DEF HandoffInv
    <3>. QED  BY <3>1, <3>2
  <2>. QED  BY <2>2, <2>3 DEF HandoffTrue
<1>3. UNCHANGED handoff \/ \E t \in Tasks : ExportHandoff(t)
  <2>1. CASE \E t \in Tasks : Note(t)
    BY <2>1 DEF Note, CreateCheckpoint
  <2>2. CASE ~(\E t \in Tasks : Note(t))
    BY <2>2 DEF StatusNext, statusVars, noteVars, Settle, Diligence
  <2>. QED  BY <2>1, <2>2
<1>. QED  BY <1>1, <1>2, <1>3

(* Whatever is run or edited after the export, a handoff that import accepts
   says of artifacts, proofs, stage and scope what the report says now. *)
THEOREM AcceptedHandoffIsCurrent == StatusSpec => []AcceptedIsCurrent
<1>1. StatusInit => HandoffDomain /\ HandoffTrue
  BY DEF StatusInit, HandoffDomain, HandoffTrue
<1>2. HandoffInv => AcceptedIsCurrent
  <2>. SUFFICES ASSUME HandoffInv, NEW t \in Tasks, NEW h \in handoff[t],
                       h.status = "active", status[t] = "active", Accepts(t, h)
                PROVE  h.blockers \cap BoundProblems = Blockers(t) \cap BoundProblems
    BY DEF AcceptedIsCurrent
  <2>1. h.state = Binding(t)  BY DEF Accepts
  <2>. QED  BY <2>1, ProblemsOfBinding DEF HandoffInv, HandoffTrue
<1>3. StatusSpec => []TypeOK
  BY NotesKeepTrust, TypeCorrect, PTL
<1>. QED  BY <1>1, <1>2, <1>3, HandoffStep, PTL DEF StatusSpec, HandoffInv

-----------------------------------------------------------------------------
(* The commit hook never refuses what the completion gate lets through, save
   for files the gate sees only as their directory. *)
THEOREM HookRefusalIsGateRefusal == StatusSpec => []HookImpliesGate
<1>1. HookImpliesGate
  <2>. SUFFICES ASSUME NEW t \in Tasks, Gated(t), DriftAssembles,
                       tree \notin UnplannedFiles \ Unplanned, GateOpen(t)
                PROVE  HookProblems(t) = {}
    BY DEF HookImpliesGate
  <2>1. WorkflowHolds(t) /\ ~DriftFinds(t)
    BY DEF Gated, GateOpen, WorkflowHolds, DriftBlocks
  <2>2. RequiredArtifacts(wf[t].profile, wf[t].stage) \subseteq DeclaredArtifacts(t)
    BY <2>1 DEF DriftFinds, DeclaredArtifacts
  <2>3. Unmet(t, DeclaredArtifacts(t)) = {}
    BY <2>1, <2>2 DEF Unmet, DriftFinds
  <2>4. ~(NeedsVerdict(t) /\ ~HasVerdict(t))
    BY <2>1 DEF WorkflowHolds, VerdictHolds
  <2>5. ~(wf[t].profile = "high-risk" /\ gitUp /\ tree \in UnplannedFiles)
    BY <2>1 DEF DriftFinds
  <2>. QED  BY <2>3, <2>4, <2>5 DEF HookProblems
<1>. QED  BY <1>1, PTL

=============================================================================
