------------------------ MODULE OverlappingCommands ------------------------
(***************************************************************************)
(* Commands on one task that overlap: several processes (an agent, a       *)
(* person, a hook) run ackit at once.  No command takes a lock; each reads *)
(* its files one by one and rewrites a file by truncating and filling it.  *)
(*                                                                         *)
(* The task's acceptance items are ticked, its evidence is complete and    *)
(* drift finds nothing: the rest of the gate is the subject here.          *)
(***************************************************************************)
EXTENDS WorkflowState, FiniteSets

CONSTANTS
  Procs,          \* processes that run commands
  Sources,        \* source states of the working tree
  UsedProfiles,   \* the profiles `workflow set` is run with
  Targets,        \* the stages `workflow advance --to` is run with
  Required,       \* what ackit.yml requires beyond the profile (Overrides)
  Starts,         \* the workflow states the overlapping commands may find
  Judgments,      \* what verifiers author: [passes, independent : BOOLEAN]
  Crashes,        \* processes may be killed
  MaxVerdicts     \* bound of the model: verdict files

(* The history of a workflow state ends in its stage, and each entry is the
   next stage after the one before, or "implement" after a failure. *)
Walks(w) ==
  /\ w.history # <<>> /\ w.history[Len(w.history)] = w.stage
  /\ \A i \in 1 .. Len(w.history) - 1 :
       \/ w.history[i + 1] = "implement"
       \/ CanAdvance(w.profile, w.history[i], w.history[i + 1])

WalkStates == {w \in WorkflowStates : Enabled(w) => Walks(w)}

ASSUME OverlapAssumption ==
  /\ UsedProfiles \subseteq Profiles
  /\ Targets \subseteq AllStages
  /\ Required \in Overrides
  /\ Starts \subseteq WalkStates
  /\ Judgments \subseteq [passes : BOOLEAN, independent : BOOLEAN]
  /\ Crashes \in BOOLEAN
  /\ MaxVerdicts \in Nat

(* A file that was truncated and not filled again, or that two fillings
   left mixed: it does not parse. *)
Torn == [torn |-> TRUE]

Nothing == [none |-> TRUE]

VARIABLES
  source,     \* the source state of the working tree
  doc,        \* the task document: "active", "completed" or "empty"
  state,      \* state.yaml, or Torn
  verdicts,   \* the verdict files: number -> record, or Torn
  pc,         \* where each process is in its command
  mem,        \* what each process has read, and will write
  disturbed   \* history: processes whose completion others wrote into

files == <<source, doc, state, verdicts>>
vars == <<files, pc, mem, disturbed>>

-----------------------------------------------------------------------------
(* computeStateBinding, reduced to what moves here. *)
Bindings == [source : Sources, profile : Profiles \cup {"none"},
             stage : AllStages \cup {"none"}]

Binding == [source |-> source, profile |-> state.profile, stage |-> state.stage]

Bindable == doc # "empty" /\ state # Torn

Records == [judgment : Judgments, bound : Bindings]

Readable(vs) == \A i \in DOMAIN vs : vs[i] # Torn

LatestOf(vs) == vs[CHOOSE i \in DOMAIN vs : \A j \in DOMAIN vs : i >= j]

(* Seeded fault of NextSlot: ids are counted from zero. *)
SlotFromZero(vs) == Cardinality(DOMAIN vs)

NextSlot(vs) == Cardinality(DOMAIN vs) + 1

(* What a file holds once `content` was written into it: it was truncated
   before, and another filling since then may mix with this one. *)
Filled(content, now) ==
  {content} \cup {c \in {Torn} : now \notin {Torn, content}}

-----------------------------------------------------------------------------
(* One step of a command: p moves on from `from`, remembering `memory`. *)
Step(p, from, to, memory) ==
  /\ pc[p] = from
  /\ pc' = [pc EXCEPT ![p] = to]
  /\ mem' = [mem EXCEPT ![p] = memory]

Completing == {"judge", "again", "compare", "close", "blank", "complete"}

Reads(p) ==
  /\ disturbed' = disturbed \ {q \in {p} : pc'[p] = "idle"}
  /\ UNCHANGED files

Disturb(p) ==
  disturbed' = {q \in Procs : /\ pc'[q] \in Completing
                              /\ q \in disturbed \/ q # p}

-----------------------------------------------------------------------------
(* ackit workflow set | verify | advance: load, then write. *)

LoadForSet(p) ==
  /\ doc # "empty" /\ state # Torn
  /\ \E profile \in UsedProfiles :
       Step(p, "idle", "truncate", SetProfileOf(state, profile))
  /\ Reads(p)

LoadForAttempt(p) ==
  /\ state # Torn /\ Enabled(state)
  /\ \E outcome \in Outcomes :
       Step(p, "idle", "truncate", AttemptOf(state, outcome))
  /\ Reads(p)

PresentArtifacts ==
  {"evidence"}
    \cup {k \in {"task", "intent", "spec", "plan"} : doc # "empty"}
    \cup {k \in {"verdict"} : Readable(verdicts) /\ verdicts # <<>>}

(* advance checks the artifacts of the stage asked for under the profile it
   found; the store then loads the state once more and checks adjacency. *)
CheckAdvance(p) ==
  /\ state # Torn /\ Enabled(state)
  /\ \E to \in Targets :
       /\ EffectiveArtifacts(state.profile, to, Required) \subseteq PresentArtifacts
       /\ Step(p, "idle", "advance", [to |-> to])
  /\ Reads(p)

(* Seeded fault of Adjacent: the store relies on the check before it. *)
AdjacentBefore(w, to) == to \in StagesOf(w.profile)

Adjacent(w, to) == CanAdvance(w.profile, w.stage, to)

LoadForAdvance(p) ==
  /\ pc[p] = "advance"
  /\ IF state # Torn /\ Enabled(state) /\ Adjacent(state, mem[p].to)
     THEN Step(p, "advance", "truncate", AdvanceOf(state, mem[p].to))
     ELSE Step(p, "advance", "idle", Nothing)
  /\ Reads(p)

TruncateState(p) ==
  /\ Step(p, "truncate", "fill", mem[p])
  /\ state' = Torn
  /\ Disturb(p)
  /\ UNCHANGED <<source, doc, verdicts>>

FillState(p) ==
  /\ state' \in Filled(mem[p], state)
  /\ Step(p, "fill", "idle", Nothing)
  /\ Disturb(p)
  /\ UNCHANGED <<source, doc, verdicts>>

-----------------------------------------------------------------------------
(* ackit verification record: bind, list the verdicts, write the next one. *)

BindVerdict(p) ==
  /\ Bindable
  /\ \E j \in Judgments :
       Step(p, "idle", "list", [judgment |-> j, bound |-> Binding])
  /\ Reads(p)

ListVerdicts(p) ==
  /\ pc[p] = "list"
  /\ IF /\ Readable(verdicts) /\ doc # "empty"
        /\ NextSlot(verdicts) <= MaxVerdicts
        /\ \A i \in DOMAIN verdicts : verdicts[i].judgment # mem[p].judgment
     THEN Step(p, "list", "create", [record |-> mem[p], slot |-> NextSlot(verdicts)])
     ELSE Step(p, "list", "idle", Nothing)
  /\ Reads(p)

WithVerdict(slot, v) ==
  [i \in DOMAIN verdicts \cup {slot} |-> IF i = slot THEN v ELSE verdicts[i]]

CreateVerdict(p) ==
  /\ Step(p, "create", "store", mem[p])
  /\ verdicts' = WithVerdict(mem[p].slot, Torn)
  /\ Disturb(p)
  /\ UNCHANGED <<source, doc, state>>

StoreVerdict(p) ==
  /\ pc[p] = "store"
  /\ \E v \in Filled(mem[p].record, verdicts[mem[p].slot]) :
       verdicts' = WithVerdict(mem[p].slot, v)
  /\ Step(p, "store", "idle", Nothing)
  /\ Disturb(p)
  /\ UNCHANGED <<source, doc, state>>

-----------------------------------------------------------------------------
(* ackit task complete: the gate reads the state, the latest verdict, the
   latest verdict again with the present binding, and then the document. *)

NeedsVerdict(w) == Enabled(w) /\ RequiresVerdict(w.profile, Required)

StageHolds(w) ==
  Enabled(w) =>
    ReachedCompletion(w.profile, w.stage) /\ LastOutcome(w) # "fail"

LoadForComplete(p) ==
  /\ doc = "active" /\ state # Torn /\ StageHolds(state)
  /\ Step(p, "idle", IF NeedsVerdict(state) THEN "judge" ELSE "close", Nothing)
  /\ Reads(p)

Approving(vs) ==
  /\ Readable(vs) /\ vs # <<>>
  /\ LatestOf(vs).judgment.passes /\ LatestOf(vs).judgment.independent

JudgeLatest(p) ==
  /\ pc[p] = "judge"
  /\ IF Approving(verdicts)
     THEN Step(p, "judge", "again", [judged |-> LatestOf(verdicts).bound])
     ELSE Step(p, "judge", "idle", Nothing)
  /\ Reads(p)

ReadAgain(p) ==
  /\ pc[p] = "again"
  /\ IF Readable(verdicts) /\ verdicts # <<>>
     THEN Step(p, "again", "compare",
               [judged |-> mem[p].judged, again |-> LatestOf(verdicts).bound])
     ELSE Step(p, "again", "idle", Nothing)
  /\ Reads(p)

(* Seeded fault of SameBinding: only the source state is compared. *)
SameSource(b) == b.source = Binding.source

SameBinding(b) == b = Binding

Compare(p) ==
  /\ pc[p] = "compare"
  /\ IF Bindable /\ SameBinding(mem[p].again)
     THEN Step(p, "compare", "close", [judged |-> mem[p].judged, found |-> Binding])
     ELSE Step(p, "compare", "idle", Nothing)
  /\ Reads(p)

ReadDocument(p) ==
  /\ Step(p, "close", IF doc = "empty" THEN "lose" ELSE "blank", mem[p])
  /\ Reads(p)

BlankDocument(p) ==
  /\ pc[p] \in {"blank", "lose"}
  /\ IF pc[p] = "blank" THEN Step(p, "blank", "complete", mem[p])
                       ELSE Step(p, "lose", "idle", Nothing)
  /\ doc' = "empty"
  /\ Disturb(p)
  /\ UNCHANGED <<source, state, verdicts>>

WriteDocument(p) ==
  /\ Step(p, "complete", "idle", Nothing)
  /\ doc' = "completed"
  /\ Disturb(p)
  /\ UNCHANGED <<source, state, verdicts>>

-----------------------------------------------------------------------------
EditSource ==
  /\ source' \in Sources \ {source}
  /\ disturbed' = {q \in Procs : pc[q] \in Completing}
  /\ UNCHANGED <<doc, state, verdicts, pc, mem>>

Crash(p) ==
  /\ Crashes /\ pc[p] # "idle"
  /\ Step(p, pc[p], "idle", Nothing)
  /\ UNCHANGED files
  /\ disturbed' = disturbed \ {p}

Init ==
  /\ source \in Sources
  /\ doc = "active"
  /\ state \in Starts
  /\ verdicts = <<>>
  /\ pc = [p \in Procs |-> "idle"]
  /\ mem = [p \in Procs |-> Nothing]
  /\ disturbed = {}

Command(p) ==
  \/ LoadForSet(p) \/ LoadForAttempt(p) \/ CheckAdvance(p) \/ LoadForAdvance(p)
  \/ TruncateState(p) \/ FillState(p)
  \/ BindVerdict(p) \/ ListVerdicts(p) \/ CreateVerdict(p) \/ StoreVerdict(p)
  \/ LoadForComplete(p) \/ JudgeLatest(p) \/ ReadAgain(p) \/ Compare(p)
  \/ ReadDocument(p) \/ BlankDocument(p) \/ WriteDocument(p)
  \/ Crash(p)

Next == EditSource \/ \E p \in Procs : Command(p)

Spec == Init /\ [][Next]_vars

-----------------------------------------------------------------------------
(* What a process remembers at each point of its command. *)
Memories(at) ==
  CASE at \in {"truncate", "fill"}          -> WorkflowStates
    [] at = "advance"                       -> [to : AllStages]
    [] at = "list"                          -> Records
    [] at \in {"create", "store"}           -> [record : Records, slot : 1 .. MaxVerdicts]
    [] at = "again"                         -> [judged : Bindings]
    [] at = "compare"                       -> [judged : Bindings, again : Bindings]
    [] at \in {"close", "blank", "lose", "complete"} ->
         {Nothing} \cup [judged : Bindings, found : Bindings]
    [] OTHER                                -> {Nothing}

Points == {"idle", "truncate", "fill", "advance", "list", "create", "store",
           "lose"} \cup Completing

(* Every file holds a well-formed document or is torn, whatever overlaps and
   whoever is killed, and a process remembers what its next step writes. *)
TypeOK ==
  /\ source \in Sources
  /\ doc \in {"active", "completed", "empty"}
  /\ state \in WorkflowStates \cup {Torn}
  /\ DOMAIN verdicts \subseteq 1 .. MaxVerdicts
  /\ \A i \in DOMAIN verdicts : verdicts[i] \in Records \cup {Torn}
  /\ pc \in [Procs -> Points]
  /\ DOMAIN mem = Procs /\ \A p \in Procs : mem[p] \in Memories(pc[p])
  /\ disturbed \subseteq Procs

(* A workflow state that parses tells a walk of its profile, under any overlap
   and any crash (advanceTo, recordVerificationAttempt, setProfile). *)
StateIsWalk == state # Torn /\ Enabled(state) => Walks(state)

(* The verdict files are numbered without a gap, whoever registers them: the
   latest verdict is the one with the highest id, and the count of the files
   says which id comes next (register, latest). *)
NoGaps == DOMAIN verdicts = 1 .. Cardinality(DOMAIN verdicts)

(* A completion during which no other command wrote and no file was edited is
   sound to the end: when the document is written, the stage, the latest
   attempt and the latest verdict still say what the gate asked of them, and
   that verdict is bound to the state the task is in (complete). *)
Sound ==
  /\ state # Torn
  /\ Enabled(state) =>
       /\ ReachedCompletion(state.profile, state.stage)
       /\ LastOutcome(state) # "fail"
  /\ NeedsVerdict(state) =>
       \E i \in DOMAIN verdicts :
         /\ \A j \in DOMAIN verdicts : j <= i
         /\ verdicts[i].judgment.passes /\ verdicts[i].judgment.independent
         /\ verdicts[i].bound = Binding

AloneIsSound ==
  [][\A p \in Procs : WriteDocument(p) /\ p \notin disturbed => Sound]_vars

(* The promise above complete: a task whose latest verification attempt failed
   is never completed through the gate (tasks/store.ts, complete). *)
FailedNeverCompletes ==
  [][\A p \in Procs :
       WriteDocument(p) /\ state # Torn => LastOutcome(state) # "fail"]_vars

(* The promise in the gate: a stale verdict does not satisfy completion.  The
   verdict that was judged to pass is bound to the state the freshness check
   found (tasks/store.ts, workflow blocker 2c). *)
StaleNeverSatisfies ==
  [][\A p \in Procs :
       WriteDocument(p) /\ mem[p] # Nothing => mem[p].judged = mem[p].found]_vars

(* The promise of the threat model: a registered verdict is never overwritten,
   only superseded (register). *)
VerdictsAppendOnly ==
  [][\A i \in DOMAIN verdicts :
       verdicts[i] # Torn => i \in DOMAIN verdicts' /\ verdicts'[i] = verdicts[i]]_vars

=============================================================================
