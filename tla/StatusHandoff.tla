--------------------------- MODULE StatusHandoff ---------------------------
(***************************************************************************)
(* What ACKit tells the people on a task, on top of TrustChain: the status *)
(* report with its blockers and next actions (core/status), checkpoints    *)
(* and the handoff file bound to the state it was exported in              *)
(* (core/checkpoint), and the drift check a commit hook runs (core/drift). *)
(*                                                                         *)
(* Of a task's checkpoints only the latest is read again, of its handoff   *)
(* files the one exported last.  Once diligent, people do nothing but      *)
(* answer what the report and the refusals of the commands tell them.      *)
(***************************************************************************)
EXTENDS TrustChain

CONSTANTS
  Paths,           \* repository paths a next action may name
  ChangedIn,       \* [Trees -> SUBSET Paths], the working set of each tree
  Reachable,       \* [Trees -> SUBSET Trees]: whose commits are reachable
  UnplannedFiles,  \* the trees with such a change once directories are listed
  ExportAllowed    \* the tier2 decision lets `checkpoint export` through

ASSUME HandoffAssumption ==
  /\ ChangedIn \in [Trees -> SUBSET Paths]
  /\ Reachable \in [Trees -> SUBSET Trees]
  /\ \A a \in Trees : a \in Reachable[a]
  /\ UnplannedFiles \subseteq Trees
  /\ ExportAllowed \in BOOLEAN

VARIABLES
  checkpoint,  \* the latest checkpoint of each task: a set of at most one
  handoff,     \* the handoff file of each task: a set of at most one
  diligent     \* people only answer what they are told

noteVars == <<checkpoint, handoff>>
statusVars == <<vars, noteVars, diligent>>

-----------------------------------------------------------------------------
(* The blockers of the gate, by the stable code each one starts with. *)

(* The verdict as the gate and the report see it. *)
VerdictProblems(t) ==
  IF ~HasVerdict(t) THEN {"verdict missing"}
  ELSE IF Blocks(Latest(t)) THEN {"verdict blocking"}
  ELSE {b \in {"verdict blocking"} : ~MeetsReview(Latest(t))}
         \cup (IF Latest(t).bound = {} THEN {"verdict unbound"}
               ELSE IF ~Bindable(t) THEN {"state unbindable"}
               ELSE {b \in {"verdict stale"} : ~Fresh(t)})
         \cup {b \in {"verdict dependent"} :
                 Latest(t).bound # {} /\ ~Independent(Latest(t))}

EvidenceProblems(t) ==
  IF ~registry[t].present THEN {"artifact missing"}
  ELSE {b \in {"criterion unproven"} : ~Proven(registry[t])}

Unmet(t, artifacts) ==
  {b \in {"artifact missing"} : ~(RequiredArtifacts(wf[t].profile, wf[t].stage) \subseteq artifacts)}
    \cup {b \in {"criterion unverified"} : registry[t].present /\ ~Verified(registry[t])}
    \cup {b \in {"dependency"} : ~DependenciesHold(t)}

DriftProblems(t) ==
  Unmet(t, {"task"} \cup {k \in {"evidence"} : registry[t].present})
    \cup {b \in {"verdict missing"} : wf[t].profile # "quick" /\ ~HasVerdict(t)}
    \cup {b \in {"unplanned change"} :
            wf[t].profile = "high-risk" /\ gitUp /\ tree \in Unplanned}

WorkflowProblems(t) ==
  (IF NeedsEvidence(t) THEN EvidenceProblems(t) ELSE {})
    \cup (IF NeedsVerdict(t) THEN VerdictProblems(t) ELSE {})
    \cup {b \in {"stage"} : ~ReachedCompletion(wf[t].profile, wf[t].stage)}
    \cup {b \in {"attempt failed"} : LastOutcome(wf[t]) = "fail"}
    \cup (IF DriftAssembles THEN DriftProblems(t) ELSE {})

Blockers(t) ==
  IF status[t] # "active" THEN {"not active"}
  ELSE {b \in {"unticked"} : ~ticked[t]}
         \cup {b \in {"dependency"} : ~DependenciesHold(t)}
         \cup (IF Enabled(wf[t]) THEN WorkflowProblems(t) ELSE {})

(* completionBlockers throws for an archived task, and so does the report. *)
Reportable(t) == status[t] # "archived"

(* Seeded fault of AnswerTo: only the codes of documents are known. *)
AnswerByDocument(b) ==
  CASE b = "not active" -> "start"
    [] b = "unticked" -> "document"
    [] b = "artifact missing" -> "sync"
    [] b = "criterion unproven" -> "prove"
    [] b \in {"verdict missing", "verdict blocking", "verdict stale", "verdict unbound",
              "verdict dependent"} -> "review"
    [] OTHER -> "inspect"

(* deriveNextActions: the blocker's prefix chooses the action. *)
AnswerTo(b) ==
  CASE b = "not active" -> "start"
    [] b = "unticked" -> "document"
    [] b = "dependency" -> "complete the dependency"
    [] b = "artifact missing" -> "sync"
    [] b = "criterion unproven" -> "prove"
    [] b \in {"verdict missing", "verdict blocking", "verdict stale", "verdict unbound",
              "verdict dependent"} -> "review"
    [] b = "stage" -> "advance"
    [] b = "attempt failed" -> "pass"
    [] b = "unplanned change" -> "check drift"
    [] OTHER -> "inspect"

NextActions(t) ==
  IF Blockers(t) = {} THEN {"complete"} ELSE {AnswerTo(b) : b \in Blockers(t)}

-----------------------------------------------------------------------------
(* Checkpoints: `ackit checkpoint create`, whatever the task's status. *)

(* Of a checkpoint only HEAD, the mark that git was down and the path of the
   next action are read again. *)
NewCheckpoint(path) == [at |-> tree, gitUp |-> gitUp, path |-> path]

CreateCheckpoint(t) ==
  /\ \E path \in Paths : checkpoint' = [checkpoint EXCEPT ![t] = {NewCheckpoint(path)}]
  /\ UNCHANGED <<vars, handoff>>

(* validateCheckpointStaleness: what git cannot tell is only an advisory. *)
StaleCheckpoint(c) ==
  /\ gitUp /\ c.gitUp
  /\ \/ c.at \notin Reachable[tree]
     \/ c.path \in ChangedIn[c.at] \ ChangedIn[tree]

(* A handoff embeds the checkpoint, the binding and the report. *)
NewHandoff(t, c) ==
  [state |-> Binding(t), status |-> status[t], blockers |-> Blockers(t),
   next |-> NextActions(t), checkpoint |-> c]

(* `ackit checkpoint export --format json`. *)
ExportHandoff(t) ==
  /\ ExportAllowed
  /\ checkpoint[t] # {}
  /\ Bindable(t)
  /\ Reportable(t)
  /\ handoff' = [handoff EXCEPT ![t] = {NewHandoff(t, c) : c \in checkpoint[t]}]
  /\ UNCHANGED <<vars, checkpoint>>

(* `ackit checkpoint import` only reads: it accepts or refuses. *)
Accepts(t, h) ==
  /\ Bindable(t)
  /\ h.state = Binding(t)
  /\ ~StaleCheckpoint(h.checkpoint)

-----------------------------------------------------------------------------
(* `ackit drift check-active --ci`, the entry of the commit hook: the first
   active task that has a workflow state is refused for what its own
   assembly of the inputs finds. *)

(* An artifact exists for this assembly when the document declares it. *)
DeclaredArtifacts(t) ==
  {"task"} \cup {k \in RefKinds : refs[t][k] # "undeclared"}
    \cup {k \in {"evidence"} : registry[t].present} \cup {k \in {"verdict"} : HasVerdict(t)}

HookProblems(t) ==
  Unmet(t, DeclaredArtifacts(t))
    \cup {b \in {"verdict missing"} : NeedsVerdict(t) /\ ~HasVerdict(t)}
    \cup {b \in {"unplanned change"} :
            wf[t].profile = "high-risk" /\ gitUp /\ tree \in UnplannedFiles}

Gated(t) == status[t] = "active" /\ Enabled(wf[t])

-----------------------------------------------------------------------------
(* What people do who only answer the report and the refusals. *)

(* What the report, where there is one, tells them to do. *)
Advice(t) == IF Reportable(t) THEN NextActions(t) ELSE {}

(* The missing proof of a criterion, of a type that qualifies. *)
Prove(t, told) ==
  /\ "prove" \in told \/ "criterion unverified" \in Blockers(t)
  /\ Verify(t)
  /\ Cardinality({c \in DOMAIN registry'[t].proofs : registry'[t].proofs[c] \ Manual # {}})
       > Cardinality({c \in DOMAIN registry[t].proofs : registry[t].proofs[c] \ Manual # {}})

(* A fresh bundle, then a new judgment on it that approves. *)
Review(t, told) ==
  /\ "review" \in told
  /\ \/ Binding(t) \notin bundles[t] /\ Export(t)
     \/ Record(t) /\ Approves(Latest(t)') /\ Latest(t)'.content \in ReviewSatisfied
          /\ Latest(t)'.content.note = Len(verdicts[t]) + 1

(* `workflow advance` names the artifact it misses, which is then supplied;
   a malformed configuration is repaired when a command refuses it. *)
MissingNext(t) ==
  UNION {EffectiveArtifacts(wf[t].profile, to, Effective) \ PresentArtifacts(t) :
           to \in {s \in StagesOf(wf[t].profile) : CanAdvance(wf[t].profile, wf[t].stage, s)}}

Supply(t, told) ==
  \/ "advance" \in told /\ "evidence" \in MissingNext(t) /\ Sync(t)
  \/ "sync" \in told /\ ~registry[t].present /\ Sync(t)
  \/ {"advance", "pass"} \cap told # {} /\ ~ConfigLoads /\ EditConfig

Answer(t, told) ==
  \/ "start" \in told /\ Start(t)
  \/ "document" \in told /\ Tick(t)
  \/ "advance" \in told /\ Advance(t)
  \/ "pass" \in told /\ Attempt(t) /\ LastOutcome(wf'[t]) = "pass"
  \/ "complete" \in told /\ Complete(t)
  \/ Prove(t, told) \/ Review(t, told) \/ Supply(t, told)

Note(t) == CreateCheckpoint(t) \/ ExportHandoff(t)

Settle == diligent' = TRUE /\ UNCHANGED <<vars, noteVars>>

Diligence == \E t \in Tasks : diligent /\ Answer(t, Advice(t)) /\ UNCHANGED <<noteVars, diligent>>

StatusInit ==
  /\ Init
  /\ checkpoint = [t \in Tasks |-> {}]
  /\ handoff = [t \in Tasks |-> {}]
  /\ diligent = FALSE

StatusNext ==
  \/ ~diligent /\ Next /\ UNCHANGED <<noteVars, diligent>>
  \/ (\E t \in Tasks : Note(t)) /\ UNCHANGED diligent
  \/ Settle
  \/ Diligence

StatusSpec == StatusInit /\ [][StatusNext]_statusVars

-----------------------------------------------------------------------------
(* A handoff that import accepts tells the truth about the work it binds:
   between an active task then and an active task now, what the report says
   of artifacts, proofs, stage and scope is what it said when the handoff was
   exported, whatever was edited or run in between (validateHandoff). *)
BoundProblems ==
  {"artifact missing", "criterion unproven", "criterion unverified", "stage", "unplanned change"}

AcceptedIsCurrent ==
  \A t \in Tasks : \A h \in handoff[t] :
    h.status = "active" /\ status[t] = "active" /\ Accepts(t, h) =>
      h.blockers \cap BoundProblems = Blockers(t) \cap BoundProblems

(* What the commit hook refuses the completion gate refuses too, although
   each assembles its own inputs; the one exception is a file that only the
   hook sees, in a directory the gate sees as one entry (assembleDriftInput,
   completionBlockers). *)
HookImpliesGate ==
  \A t \in Tasks :
    Gated(t) /\ DriftAssembles /\ tree \notin UnplannedFiles \ Unplanned
      /\ HookProblems(t) # {} => ~GateOpen(t)

(* Whatever mess a task is left in, people who from then on do only what the
   report and the refusals tell them complete it (deriveNextActions). *)
AdviceCompletes ==
  \A t \in Tasks :
    diligent /\ status[t] \in {"pending", "blocked", "active"} ~> status[t] = "completed"

=============================================================================
