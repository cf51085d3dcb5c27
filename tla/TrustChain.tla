----------------------------- MODULE TrustChain -----------------------------
(***************************************************************************)
(* The trust chain of a task: workflow stage, evidence registry, verifier  *)
(* verdicts bound to the state of the repository, and the completion gate  *)
(* that composes them (core/tasks, core/workflow, core/evidence,           *)
(* core/verification and the commands of cli/commands that drive them).    *)
(*                                                                         *)
(* One action is one ackit command run alone, or one edit a person or an   *)
(* agent makes to the files ackit reads.  Commands that overlap are the    *)
(* subject of OverlappingCommands.                                         *)
(*                                                                         *)
(* A digest is the value it digests: sha-256 is taken to be injective.     *)
(***************************************************************************)
EXTENDS WorkflowState, FiniteSets

CONSTANTS
  Tasks,            \* task ids
  Dependencies,     \* [Tasks -> SUBSET Tasks], the dependencies of each task
  UsedProfiles,     \* the profiles `workflow set` is run with
  Trees,            \* source states: HEAD and the changed files' content
  Unplanned,        \* the trees with a change outside the declared scope
  Criteria,         \* requirement texts of acceptance criteria
  Contracts,        \* the sets of criteria a task document may list
  RefKinds,         \* the kinds of document a task may refer to
  RefValues,        \* "undeclared", "missing" or a content, per kind
  Proofs,           \* evidence entries (type and ref)
  Manual,           \* the entries of type "manual"
  Contents,         \* what a verifier may author
  ReviewSatisfied,  \* the contents that satisfy the review policy
  ReviewIn,         \* where that policy stands: "ackit.yml" or "policy document"
  Configs,          \* the states of ackit.yml and of the policy documents
  ForceAllowed,     \* the tier2 decision lets `--force` through
  DriftAssembles,   \* the latest checkpoint parses, so drift is checked
  GitStates,        \* {TRUE}, or BOOLEAN where git may stop answering
  MaxVerdicts,      \* bound of the model: verdict files per task
  MaxBundles        \* bound of the model: exported bundles per task

ASSUME TrustAssumption ==
  /\ Dependencies \in [Tasks -> SUBSET Tasks]
  /\ UsedProfiles \subseteq Profiles
  /\ Trees # {} /\ "degraded" \notin Trees
  /\ Contracts \subseteq SUBSET Criteria /\ Contracts # {}
  /\ RefKinds \subseteq {"intent", "spec", "plan"}
  /\ Contents \subseteq [verdict : {"PASS", "REWORK_REQUIRED"},
                         blocking : BOOLEAN, context : {"fresh", "same"},
                         note : Nat]
  /\ ReviewIn \in {"ackit.yml", "policy document"}
  /\ Configs \subseteq {"default", "strict", "malformed", "unresolved"} /\ Configs # {}
  /\ ForceAllowed \in BOOLEAN
  /\ DriftAssembles \in BOOLEAN
  /\ TRUE \in GitStates /\ GitStates \subseteq BOOLEAN
  /\ MaxVerdicts \in Nat /\ MaxBundles \in Nat

VARIABLES
  tree,       \* the source state of the working tree
  gitUp,      \* git answers
  config,     \* ackit.yml and the policy documents it extends
  status,     \* frontmatter status of each task, or "archived"
  ticked,     \* no unticked acceptance item, and real completion notes
  contract,   \* the acceptance criteria the task document lists
  refs,       \* the referenced documents: "undeclared", "missing" or a version
  wf,         \* state.yaml of each task
  registry,   \* evidence.yaml of each task
  verdicts,   \* the verdict files of each task, in id order
  bundles,    \* the digests of the bundles exported for each task
  rework,     \* history: what a failed verification still calls for
  done        \* history: how the task was completed

taskVars == <<status, ticked, contract, refs>>
trustVars == <<wf, registry, verdicts, bundles>>
history == <<rework, done>>
vars == <<tree, gitUp, config, taskVars, trustVars, history>>

-----------------------------------------------------------------------------
(* State bindings (core/verification/binding.ts). *)

RefStates == [RefKinds -> RefValues]

NoRegistry == [present |-> FALSE, proofs |-> <<>>]

Registries ==
  {NoRegistry} \cup
  UNION {[present : {TRUE}, proofs : [c -> SUBSET Proofs]] : c \in Contracts}

(* Seeded fault of ConfigDigest: the configuration is left out. *)
ConfigDigestFixed == "default"

(* ackit.yml may hold the stricter workflow overrides or none ("default"),
   may not load ("malformed"), or be strict over policy documents of which
   one is missing or broken ("unresolved").  What does not load or resolve is
   digested as if it said nothing. *)
ConfigDigest ==
  CASE config = "malformed" /\ ReviewIn = "policy document" -> "default"
    [] config = "unresolved" /\ ReviewIn = "ackit.yml" -> "strict"
    [] OTHER -> config

(* Two source states share one digest while git is unavailable. *)
SourceDigest == IF gitUp THEN tree ELSE "degraded"

Bindings ==
  [source : Trees \cup {"degraded"}, contract : Contracts, refs : RefStates,
   profile : Profiles \cup {"none"}, stage : AllStages \cup {"none"},
   config : {"default", "strict", "malformed", "unresolved"},
   evidence : Registries]

(* Seeded fault of Binding: the task document is hashed with its status. *)
BindingWithStatus(t) ==
  [source |-> SourceDigest, contract |-> <<contract[t], status[t]>>,
   refs |-> refs[t], profile |-> wf[t].profile, stage |-> wf[t].stage,
   config |-> ConfigDigest, evidence |-> registry[t]]

Binding(t) ==
  [source |-> SourceDigest, contract |-> contract[t], refs |-> refs[t],
   profile |-> wf[t].profile, stage |-> wf[t].stage,
   config |-> ConfigDigest, evidence |-> registry[t]]

(* computeStateBinding fails closed on a declared document that is absent. *)
Bindable(t) == \A k \in RefKinds : refs[t][k] # "missing"

(* A verdict file: bound and reviewed hold at most one digest; both are
   empty in a legacy v1 record, reviewed also when no bundle was given. *)
VerdictRecords ==
  [content : Contents, bound : SUBSET Bindings, reviewed : SUBSET Bindings]

HasVerdict(t) == verdicts[t] # <<>>

Latest(t) == verdicts[t][Len(verdicts[t])]

Blocks(v) == v.content.verdict = "REWORK_REQUIRED" \/ v.content.blocking

Fresh(t) == Bindable(t) /\ Latest(t).bound = {Binding(t)}

(* Seeded fault of Independent: the verifier's own context is not asked. *)
IndependentInAnyContext(v) == v.bound # {} /\ v.reviewed = v.bound

Independent(v) ==
  v.bound # {} /\ v.content.context = "fresh" /\ v.reviewed = v.bound

-----------------------------------------------------------------------------
(* The completion gate (TaskStore.completionBlockers). *)

Effective ==
  IF config \in {"strict", "unresolved"} THEN [verifier |-> TRUE, evidence |-> TRUE]
                                        ELSE NoOverrides

NeedsVerdict(t) == Enabled(wf[t]) /\ RequiresVerdict(wf[t].profile, Effective)

NeedsEvidence(t) == Enabled(wf[t]) /\ RequiresEvidence(wf[t].profile, Effective)

Verified(r) == \A c \in DOMAIN r.proofs : r.proofs[c] # {}

(* validateEvidence: every registered criterion has a non-manual entry. *)
Proven(r) == \A c \in DOMAIN r.proofs : r.proofs[c] \ Manual # {}

EvidenceHolds(t) == registry[t].present /\ Proven(registry[t])

(* loadAckitConfig: an absent ackit.yml is the default; one that cannot be
   read, parsed or validated is an error, whatever is wrong with it. *)
ConfigLoads == config # "malformed"

(* The gate asks for the review policy only when ackit.yml loads and every
   policy document resolves; otherwise it finds no review problem. *)
ReviewInForce == ConfigLoads /\ config # "unresolved"

MeetsReview(v) == ReviewInForce => v.content \in ReviewSatisfied

(* Seeded fault of VerdictHolds: freshness is left to registration. *)
VerdictHeldOnce(t) ==
  /\ HasVerdict(t)
  /\ ~Blocks(Latest(t))
  /\ MeetsReview(Latest(t))
  /\ Independent(Latest(t))

VerdictHolds(t) ==
  /\ HasVerdict(t)
  /\ ~Blocks(Latest(t))
  /\ MeetsReview(Latest(t))
  /\ Fresh(t)
  /\ Independent(Latest(t))

(* Seeded fault of DependenciesHold: a dependency only has to exist. *)
DependenciesExist(t) == Dependencies[t] \subseteq Tasks

DependenciesHold(t) ==
  \A d \in Dependencies[t] : status[d] \in {"completed", "archived"}

(* Seeded fault of DriftFinds: a registry that exists is enough. *)
DriftFindsAbsence(t) ==
  \/ ~(RequiredArtifacts(wf[t].profile, wf[t].stage) \subseteq
         {"task"} \cup {k \in {"evidence"} : registry[t].present})
  \/ wf[t].profile # "quick" /\ ~HasVerdict(t)
  \/ ~DependenciesHold(t)
  \/ wf[t].profile = "high-risk" /\ gitUp /\ tree \in Unplanned

(* The blocking findings of detectWorkflowDrift, with the inputs the gate
   gives it: of the artifacts only the task and the registry count. *)
DriftFinds(t) ==
  \/ ~(RequiredArtifacts(wf[t].profile, wf[t].stage) \subseteq
         {"task"} \cup {k \in {"evidence"} : registry[t].present})
  \/ registry[t].present /\ ~Verified(registry[t])
  \/ wf[t].profile # "quick" /\ ~HasVerdict(t)
  \/ ~DependenciesHold(t)
  \/ wf[t].profile = "high-risk" /\ gitUp /\ tree \in Unplanned

(* The gate skips drift when it cannot assemble those inputs. *)
DriftBlocks(t) == DriftAssembles /\ DriftFinds(t)

WorkflowHolds(t) ==
  /\ NeedsEvidence(t) => EvidenceHolds(t)
  /\ NeedsVerdict(t) => VerdictHolds(t)
  /\ ReachedCompletion(wf[t].profile, wf[t].stage)
  /\ LastOutcome(wf[t]) # "fail"
  /\ ~DriftBlocks(t)

GateOpen(t) ==
  /\ ticked[t]
  /\ DependenciesHold(t)
  /\ Enabled(wf[t]) => WorkflowHolds(t)

-----------------------------------------------------------------------------
(* Edits: what people and agents do to the files between two commands. *)

EditTree ==
  /\ tree' \in Trees \ {tree}
  /\ UNCHANGED <<gitUp, config, taskVars, trustVars, history>>

GitOutage ==
  /\ gitUp' \in GitStates \ {gitUp}
  /\ UNCHANGED <<tree, config, taskVars, trustVars, history>>

EditConfig ==
  /\ config' \in Configs \ {config}
  /\ UNCHANGED <<tree, gitUp, taskVars, trustVars, history>>

(* Bookkeeping in the task document: checkboxes and completion notes. *)
Tick(t) ==
  /\ status[t] # "archived"
  /\ ticked' = [ticked EXCEPT ![t] = ~@]
  /\ UNCHANGED <<tree, gitUp, config, status, contract, refs, trustVars, history>>

EditContract(t) ==
  /\ status[t] # "archived"
  /\ \E c \in Contracts \ {contract[t]} : contract' = [contract EXCEPT ![t] = c]
  /\ UNCHANGED <<tree, gitUp, config, status, ticked, refs, trustVars, history>>

EditRefs(t) ==
  /\ status[t] # "archived"
  /\ \E k \in RefKinds, r \in RefValues :
       /\ r # refs[t][k]
       /\ refs' = [refs EXCEPT ![t] = [@ EXCEPT ![k] = r]]
  /\ UNCHANGED <<tree, gitUp, config, status, ticked, contract, trustVars, history>>

(* No command blocks a task: people write it into the document, as `start`
   tells them to. *)
Block(t) ==
  /\ status[t] \in {"pending", "active"}
  /\ status' = [status EXCEPT ![t] = "blocked"]
  /\ UNCHANGED <<tree, gitUp, config, ticked, contract, refs, trustVars, history>>

-----------------------------------------------------------------------------
(* ackit task start | complete | archive *)

(* Seeded fault of Start: the other tasks are not looked at. *)
StartBesideOthers(t) ==
  /\ status[t] \in {"pending", "blocked"}
  /\ status' = [status EXCEPT ![t] = "active"]
  /\ UNCHANGED <<tree, gitUp, config, ticked, contract, refs, trustVars, history>>

Start(t) ==
  /\ status[t] \in {"pending", "blocked"}
  /\ \A u \in Tasks \ {t} : status[u] # "active"
  /\ status' = [status EXCEPT ![t] = "active"]
  /\ UNCHANGED <<tree, gitUp, config, ticked, contract, refs, trustVars, history>>

(* How a completion came about: history for the properties. *)
Completion(t) ==
  [overrode |-> ~GateOpen(t), enabled |-> Enabled(wf[t]),
   needsVerdict |-> NeedsVerdict(t), at |-> Binding(t),
   latest |-> Len(verdicts[t]), owed |-> rework[t]]

FinishTask(t) ==
  /\ status' = [status EXCEPT ![t] = "completed"]
  /\ done' = [done EXCEPT ![t] = {Completion(t)}]
  /\ UNCHANGED <<tree, gitUp, config, ticked, contract, refs, trustVars, rework>>

Complete(t) ==
  /\ status[t] = "active"
  /\ GateOpen(t)
  /\ FinishTask(t)

ForceComplete(t) ==
  /\ ForceAllowed
  /\ status[t] = "active"
  /\ FinishTask(t)

Archive(t) ==
  /\ status[t] = "completed"
  /\ status' = [status EXCEPT ![t] = "archived"]
  /\ UNCHANGED <<tree, gitUp, config, ticked, contract, refs, trustVars, history>>

-----------------------------------------------------------------------------
(* ackit workflow set | advance | verify.  All of them refuse to run with a
   configuration that does not load; none looks at the task's status. *)

Set(t) ==
  /\ ConfigLoads
  /\ \E p \in UsedProfiles :
       /\ wf[t].profile # p
       /\ wf' = [wf EXCEPT ![t] = SetProfileOf(wf[t], p)]
  /\ UNCHANGED <<tree, gitUp, config, taskVars, registry, verdicts, bundles, history>>

PresentArtifacts(t) ==
  {"task"}
    \cup {k \in RefKinds : refs[t][k] \notin {"undeclared", "missing"}}
    \cup {k \in {"evidence"} : registry[t].present}
    \cup {k \in {"verdict"} : HasVerdict(t)}

Advance(t) ==
  /\ ConfigLoads
  /\ Enabled(wf[t])
  /\ \E to \in StagesOf(wf[t].profile) :
       /\ CanAdvance(wf[t].profile, wf[t].stage, to)
       /\ EffectiveArtifacts(wf[t].profile, to, Effective)
            \subseteq PresentArtifacts(t)
       /\ wf' = [wf EXCEPT ![t] = AdvanceOf(wf[t], to)]
       /\ rework' = [rework EXCEPT ![t] = @ \ {k \in {"verify"} : to = "verify"}]
  /\ UNCHANGED <<tree, gitUp, config, taskVars, registry, verdicts, bundles, done>>

Attempt(t) ==
  /\ ConfigLoads
  /\ Enabled(wf[t])
  /\ \E outcome \in Outcomes :
       /\ wf' = [wf EXCEPT ![t] = AttemptOf(wf[t], outcome)]
       /\ rework' = [rework EXCEPT ![t] = IF outcome = "fail"
                                          THEN {"pass", "verify"}
                                          ELSE @ \ {"pass"}]
  /\ UNCHANGED <<tree, gitUp, config, taskVars, registry, verdicts, bundles, done>>

-----------------------------------------------------------------------------
(* ackit evidence sync | verify *)

(* A criterion whose text is unchanged keeps what was recorded for it. *)
SyncedProofs(t) ==
  [c \in contract[t] |->
     IF c \in DOMAIN registry[t].proofs THEN registry[t].proofs[c] ELSE {}]

Sync(t) ==
  /\ registry' = [registry EXCEPT ![t] =
                    [present |-> TRUE, proofs |-> SyncedProofs(t)]]
  /\ UNCHANGED <<tree, gitUp, config, taskVars, wf, verdicts, bundles, history>>

WithProof(r, c, e) ==
  [present |-> TRUE, proofs |-> [r.proofs EXCEPT ![c] = @ \cup {e}]]

Verify(t) ==
  /\ registry[t].present
  /\ \E c \in DOMAIN registry[t].proofs, e \in Proofs :
       registry' = [registry EXCEPT ![t] = WithProof(@, c, e)]
  /\ UNCHANGED <<tree, gitUp, config, taskVars, wf, verdicts, bundles, history>>

-----------------------------------------------------------------------------
(* ackit verification bundle | record *)

(* buildVerificationBundle refuses a state that cannot be bound; what else a
   bundle shows, verdicts, checkpoint, diff and role, is for its reader. *)
BundleOf(t) == IF Bindable(t) THEN {Binding(t)} ELSE {}

Export(t) ==
  /\ BundleOf(t) # {}
  /\ Cardinality(bundles[t] \cup BundleOf(t)) <= MaxBundles
  /\ bundles' = [bundles EXCEPT ![t] = @ \cup BundleOf(t)]
  /\ UNCHANGED <<tree, gitUp, config, taskVars, wf, registry, verdicts, history>>

(* Seeded fault of Reviews: a bundle need not be of the present state. *)
ReviewsOfAnyState(t) == {{}} \cup {{b} : b \in bundles[t]}

(* The two ways to run record: without --bundle, or with one that matches
   the current state. *)
Reviews(t) == {{}} \cup {{b} : b \in {c \in bundles[t] : c = Binding(t)}}

(* Seeded fault of Replayed: the binding takes part in the digest. *)
ReplayedHere(t, content) ==
  \E i \in DOMAIN verdicts[t] :
    verdicts[t][i].content = content /\ verdicts[t][i].bound = {Binding(t)}

Replayed(t, content) ==
  \E i \in DOMAIN verdicts[t] : verdicts[t][i].content = content

Record(t) ==
  /\ Len(verdicts[t]) < MaxVerdicts
  /\ Bindable(t)
  /\ \E content \in Contents, reviewed \in Reviews(t) :
       /\ ~Replayed(t, content)
       /\ ~(content.blocking /\ content.verdict = "PASS")
       /\ content.context = "fresh" => reviewed # {}
       /\ verdicts' = [verdicts EXCEPT ![t] =
            Append(@, [content |-> content, bound |-> {Binding(t)},
                       reviewed |-> reviewed])]
  /\ UNCHANGED <<tree, gitUp, config, taskVars, wf, registry, bundles, history>>

-----------------------------------------------------------------------------
Legacy(content) == [content |-> content, bound |-> {}, reviewed |-> {}]

Init ==
  /\ tree \in Trees
  /\ gitUp = TRUE
  /\ config \in Configs \ {"malformed"}
  /\ status = [t \in Tasks |-> "pending"]
  /\ ticked = [t \in Tasks |-> FALSE]
  /\ contract \in [Tasks -> Contracts]
  /\ refs \in [Tasks -> RefStates]
  /\ wf = [t \in Tasks |-> NoState]
  /\ registry = [t \in Tasks |-> NoRegistry]
  /\ verdicts \in [Tasks -> {<<>>} \cup {<<Legacy(c)>> : c \in Contents}]
  /\ bundles = [t \in Tasks |-> {}]
  /\ rework = [t \in Tasks |-> {}]
  /\ done = [t \in Tasks |-> {}]

Command(t) ==
  \/ Start(t) \/ Complete(t) \/ ForceComplete(t) \/ Archive(t)
  \/ Set(t) \/ Advance(t) \/ Attempt(t)
  \/ Sync(t) \/ Verify(t)
  \/ Export(t) \/ Record(t)

Edit ==
  \/ EditTree \/ GitOutage \/ EditConfig
  \/ \E t \in Tasks : Tick(t) \/ EditContract(t) \/ EditRefs(t) \/ Block(t)

Next == Edit \/ \E t \in Tasks : Command(t)

Spec == Init /\ [][Next]_vars

-----------------------------------------------------------------------------
Completions ==
  [overrode : BOOLEAN, enabled : BOOLEAN, needsVerdict : BOOLEAN,
   at : Bindings, latest : Nat, owed : SUBSET {"pass", "verify"}]

(* Every variable keeps its type; in particular no document of the chain is
   ever lost or half written by a command that runs alone. *)
TypeOK ==
  /\ tree \in Trees
  /\ gitUp \in GitStates
  /\ config \in Configs
  /\ status \in [Tasks -> {"pending", "blocked", "active", "completed", "archived"}]
  /\ ticked \in [Tasks -> BOOLEAN]
  /\ contract \in [Tasks -> Contracts]
  /\ refs \in [Tasks -> RefStates]
  /\ wf \in [Tasks -> WorkflowStates]
  /\ registry \in [Tasks -> Registries]
  /\ verdicts \in [Tasks -> Seq(VerdictRecords)]
  /\ bundles \in [Tasks -> SUBSET Bindings]
  /\ rework \in [Tasks -> SUBSET {"pass", "verify"}]
  /\ done \in [Tasks -> SUBSET Completions]

(* A task completed through the gate, under a profile or a configuration that
   requires a verdict, has a verdict that was then the latest, passes with no
   blocking finding, comes from a fresh context, and was given on a bundle
   exported in the very state the task was completed in: no command or edit
   slipped between the review and the completion (completionBlockers). *)
ApprovedAt(t, v, state) ==
  /\ ~Blocks(v)
  /\ v.content.context = "fresh"
  /\ v.bound = {state}
  /\ v.reviewed = {state}
  /\ state \in bundles[t]

ApprovedCompletion ==
  \A t \in Tasks : \A d \in done[t] :
    ~d.overrode /\ d.needsVerdict =>
      /\ d.latest \in DOMAIN verdicts[t]
      /\ ApprovedAt(t, verdicts[t][d.latest], d.at)

(* A verdict names as reviewed only the state it is bound to, and only when a
   bundle of that state had been exported before: no verdict is independent
   by its own say-so (register and the record command). *)
ReviewedWasExported ==
  \A t \in Tasks : \A i \in DOMAIN verdicts[t] :
    verdicts[t][i].reviewed \subseteq verdicts[t][i].bound \cap bundles[t]

(* A judgment is registered once: what a verifier wrote about one state of the
   repository is never on file again for another (register, replay check). *)
NoReplay ==
  \A t \in Tasks : \A i, j \in DOMAIN verdicts[t] :
    verdicts[t][i].content = verdicts[t][j].content => i = j

(* What a failed attempt still calls for is really outstanding: as long as a
   pass is owed the latest attempt is a failure, and as long as "verify" is
   owed the stage is before it. *)
ReworkOutstanding ==
  \A t \in Tasks :
    /\ "pass" \in rework[t] => LastOutcome(wf[t]) = "fail"
    /\ "verify" \in rework[t] =>
         /\ Enabled(wf[t])
         /\ Position(wf[t].profile, wf[t].stage)
              < Position(wf[t].profile, "verify")

(* After a failed verification attempt no workflow task is completed through
   the gate before a passing attempt is recorded and the stage has gone
   through "verify" again, whatever profile is selected in between
   (recordVerificationAttempt, setProfile, advanceTo, completionBlockers). *)
FailureReworked ==
  \A t \in Tasks : \A d \in done[t] :
    ~d.overrode /\ d.enabled => d.owed = {}

(* A task completed through the gate never has an unfinished dependency, at
   the time or later (completionBlockers and the task's own life cycle). *)
DependenciesFirst ==
  \A t \in Tasks : \A d \in done[t] :
    ~d.overrode =>
      \A u \in Dependencies[t] : status[u] \in {"completed", "archived"}

(* Commands that run one at a time never leave two tasks active (start). *)
SingleActive ==
  \A t, u \in Tasks : status[t] = "active" /\ status[u] = "active" => t = u

(* Bookkeeping never makes a task's own verdict stale: not starting it,
   blocking it, completing it or archiving it, not ticking its items, not recording a
   passing attempt (digestTaskContract and digestWorkflow leave them out, or
   the gate would be circular). *)
Bookkeeping(t) ==
  \/ Start(t) \/ Complete(t) \/ ForceComplete(t) \/ Archive(t) \/ Tick(t)
  \/ Block(t)
  \/ Attempt(t) /\ wf[t].stage = wf'[t].stage

BookkeepingKeepsFresh ==
  [][\A t \in Tasks :
       Bookkeeping(t) /\ HasVerdict(t) /\ Fresh(t) => Fresh(t)']_vars

(* Any change of what the latest verdict judged makes it stale: the source
   while git answers, the criteria, a referenced document, the selected
   profile, the stage, a stricter or laxer configuration, the evidence
   (computeStateBinding).  Only a new verdict is fresh again. *)
Substance(t) ==
  <<IF gitUp THEN tree ELSE "degraded", contract[t], refs[t], wf[t].profile,
    wf[t].stage, Effective, registry[t]>>

ChangeMakesStale ==
  [][\A t \in Tasks :
       HasVerdict(t) /\ Fresh(t) /\ Substance(t)' # Substance(t)
         => ~Fresh(t)']_vars

-----------------------------------------------------------------------------
(* The refinement mapping to CompletionLedger. *)

Approves(v) == ~Blocks(v) /\ Independent(v)

Standing(t) ==
  IF HasVerdict(t) /\ Approves(Latest(t)) THEN Latest(t).bound ELSE {}

Reviewed(t) == HasVerdict(t) /\ Latest(t).content \in ReviewSatisfied

Phase(t) == IF status[t] \in {"completed", "archived"} THEN status[t] ELSE "open"

Outcome(t) ==
  IF done[t] = {} THEN "none"
  ELSE IF \E d \in done[t] : d.overrode THEN "overridden"
  ELSE IF \E d \in done[t] : d.needsVerdict THEN "approved"
  ELSE "ungated"

Ledger ==
  INSTANCE CompletionLedger WITH
    States <- Bindings,
    phase <- [t \in Tasks |-> Phase(t)],
    present <- [t \in Tasks |-> Binding(t)],
    gated <- [t \in Tasks |-> NeedsVerdict(t)],
    standing <- [t \in Tasks |-> Standing(t)],
    reviewed <- [t \in Tasks |-> Reviewed(t)],
    demanding <- ReviewInForce,
    outcome <- [t \in Tasks |-> Outcome(t)]

(* The whole chain keeps the ledger's promise: every command and every edit
   is, seen from the ledger, one of its steps or none. *)
KeepsLedger == Ledger!Spec

(* The promise in a comment of the gate (tasks/store.ts, workflow
   blocker 1): every criterion of the task is verified with qualifying
   evidence when a task that requires evidence completes through the gate. *)
EveryCriterionProven ==
  \A t \in Tasks : \A d \in done[t] :
    ~d.overrode /\ d.needsVerdict =>
      \A c \in d.at.contract :
        /\ c \in DOMAIN d.at.evidence.proofs
        /\ d.at.evidence.proofs[c] \ Manual # {}

(* The promise in a comment of the binding (verification/binding.ts, policy
   component): what the binding covers is what the gate enforces, so that a
   verdict that stays fresh is asked the same review all along. *)
FreshSameReview ==
  [][\A t \in Tasks :
       HasVerdict(t) /\ Fresh(t) /\ Fresh(t)' => ReviewInForce' = ReviewInForce]_vars

(* The promise of the workflow documentation: no transition within a profile
   skips a stage, whatever the artifacts of the skipped stages
   (docs/concepts/workflows.md, stage transitions). *)
NoStageSkipped ==
  [][\A t \in Tasks :
       Enabled(wf[t]) /\ wf'[t].profile = wf[t].profile =>
         Position(wf[t].profile, wf'[t].stage)
           <= Position(wf[t].profile, wf[t].stage) + 1]_vars

=============================================================================
