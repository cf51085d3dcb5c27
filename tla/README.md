# TLA+ verification of ackit (agent-context-kit)

ackit is a CLI, a library, a read-only MCP server and an editor extension that
keep an agent's work on a repository honest. Its central claim is a *trust
chain*: a task is worked on through the stages of a workflow profile, its
acceptance criteria are proven by evidence, a verifier's verdict is bound to the
exact state it reviewed, and only then does `ackit task complete` let the task
complete. Around it are the stores that remember the work, the report that tells
people what to do next, the scanner with its cache and watcher, the files ackit
writes into beside people, and the decisions derived from a repository (policy,
rule packs, instruction graph, walk, context pack). This directory models these
parts, checks them with TLC, and proves the main properties of the chain, the
stores and the handoff with TLAPS.

## 1. The system

All state is files in the repository; there is no server process and no lock.
Every command reads what it needs, decides, and rewrites one file. Two parts
have state in memory: the watcher and the editor extension.

| Component (src/src/core/... unless named) | State it keeps | Operations | Talks to |
| --- | --- | --- | --- |
| tasks | `docs/tasks/{active,archive}/*.md`: status, acceptance items, dependencies | create, start, complete (gate), archive, doctor | everything below, read by the gate |
| workflow | `state.yaml`: profile, stage, stage history, attempts | set, advance, verify | config (overrides), artifacts |
| evidence | `evidence.yaml`: criteria and their entries | sync, verify, validate | task document |
| verification | `verdicts/VR-nnnn.yaml`; exported bundles | bind, bundle, record, latest | git, config, task, evidence, workflow |
| drift | none | detect | git, checkpoints, evidence, verdicts |
| checkpoint, handoff | `checkpoints/CP-nnnn.yaml`, handoff files | create, validate, resume, export, import | git, tasks, verification |
| journal | `journal.jsonl` and two rotations | append, read, rotate | every mutating command |
| status | none | blockers, next actions | gate, verification, checkpoints |
| policy | `ackit-policy.yml` and what it extends, rule packs | resolve, apply, tiers, review | scanner, forced completion |
| scanner, cache, baseline | scan cache, baseline file | scan, compare, clean | filesystem, policy |
| watch and hooks | a snapshot in memory; git hooks | poll, rerun, stop; install, uninstall | scanner |
| instructions | none | graph, effective stack | filesystem |
| context | none (fix mode edits files) | pack, optimize | instructions, tasks |
| skills, onboarding | installed skills and their lock; managed blocks | install, sync, init | filesystem |
| filesystem | none | walk, ignore | git ignore files |
| editor extension (`extensions/vscode`) | snapshots per folder, an abort controller, the problems | refresh | scanner, graph, pack, status |
| intent, roles, lifecycle gates, config, git, profiles, workspace, readiness | none | load, validate, run | - |
| CLI, SDK, MCP, dashboard, Action | none | call the above | - |

What is hard in it:

- **Overlap.** An agent, a person and a hook run commands at once. Reads of
  several files are not atomic; most writes truncate and fill. Refreshes of the
  editor overlap and share one abort controller.
- **Staleness.** A verdict, a bundle, a registry, a checkpoint, a handoff, a
  cached scan or a lock file describes a state that may have moved.
- **Sequences.** Legal commands in an odd order: switching profiles around a
  failure, registering an old judgment, installing and fixing and syncing a file
  people edit in between.
- **Partial failure.** git or the configuration unreadable, a process killed
  between truncating a file and filling it, between two renames of a rotation or
  between two skills of an installation.
- **Limits.** Histories cut at 64 entries, journal rotation, walk limits, the
  token budget.
- **Progress.** Following the report must lead to completion; an interrupted
  watcher must end; the watcher and the editor must catch up with the files.

PROJECT.json lists every component with its status, and the hazards at the
lines where they bite, each with the properties that cover it.

## 2. The modules

```
CompletionLedger            what the chain promises (abstract)
      ^ refined by
TrustChain                  one action per command or edit, commands run alone
   |  EXTENDS WorkflowState    profile catalogue, state transformers
   ^ refined by
StatusHandoff               report, checkpoints, handoff, commit hook beside it
OverlappingCommands         commands of the chain step by step, several processes
LocalStores                 checkpoints and journal step by step
   ^ EXTENDS
TaskDirectory               task documents step by step

PolicyMerge  ExtendsWalk    operators: merge and application; the extends walk
   ^ PolicyLayers  RulePacks  ScanPipeline
                  ScanWatch   scans, cache, baseline, watcher
EditorRefresh               the refresh service of the extension
ManagedBlocks -> ManagedFiles
Listing                     lists made by sorting and filtering
   ^ InstructionGraph  RepositoryWalk  ContextPack          TaskDoctor

*Proofs  FoldFacts          theorems        MC*      instances for TLC
```

### The trust chain

**WorkflowState** has no variables. `SetProfileOf`, `AttemptOf` and `AdvanceOf`
are the state transformers of `WorkflowStore.setProfile`,
`recordVerificationAttempt` and `advanceTo`; `RequiresVerdict`,
`RequiresEvidence` and `EffectiveArtifacts` are the effective profile. Dates are
left out. The cut at 64 entries is the constant `Cap`.

**TrustChain** keeps the documents of the chain as variables: the working tree
(`tree`), whether git answers (`gitUp`), `ackit.yml` (`config`: default, strict,
malformed, or "unresolved" where it loads and its policy documents do not), and
per task its status, checkboxes (`ticked`), acceptance criteria (`contract`),
referenced documents (`refs`), `state.yaml` (`wf`), `evidence.yaml`
(`registry`), verdict files (`verdicts`) and the bundles ever exported
(`bundles`).

| Action | Command | Code |
| --- | --- | --- |
| Start, Complete, ForceComplete, Archive | `task start/complete [--force]/archive` | tasks/store.ts, cli task.ts |
| Set, Advance, Attempt | `workflow set/advance/verify` | workflow/store.ts, cli workflow.ts |
| Sync, Verify | `evidence sync/verify` | evidence/sync.ts, store.ts |
| Export, Record | `verification bundle/record` | verification/*.ts |
| Block, EditTree, EditConfig, GitOutage, Tick, EditContract, EditRefs | edits between commands | - |

`GateOpen` is `completionBlockers`: the legacy checks, then for a task with a
workflow state evidence, verdict (presence, blocking findings, review policy,
freshness, independence), stage, latest attempt and drift, each an operator of
its own. A review is demanded only while `ReviewInForce`: where the
configuration does not load (tasks/store.ts:414) or its policy does not resolve
(:432), the code asks for none; `ReviewIn` is where the policy is written.
`Start` takes a pending task or one that somebody set to blocked. A digest is
the value it digests (sha-256 taken as injective): a `Binding` is the record of
what `computeStateBinding` hashes. `rework` and `done` are history variables:
what a failure still calls for, and under which circumstances a task completed.
No guard reads them.

**CompletionLedger** knows no documents: a task that needs a judgment is
approved only by a standing judgment about its present state, and by one that
was reviewed where a review is being demanded; the only other ways are to need
none, or to override. Whether reviews are demanded comes and goes
(`demanding`). `TrustChain!Ledger` is the mapping: the standing judgment is the
binding of the latest verdict when it passes and is independent, reviewed when
the verdict meets the review policy, and reviews are demanded while
`ReviewInForce`.

**OverlappingCommands** takes one task and splits each command at its file
accesses: `setProfile` loads, truncates, fills; `record` binds, lists, creates,
stores; `complete` reads the state, the latest verdict, *the latest verdict
again* with the present binding, then the document, then truncates and fills
it. `Torn` is a file that was truncated and not filled, or filled twice at
once. A process may be killed at any point (`Crash`). Evidence and drift are
held constant; they are TrustChain's subject.

**StatusHandoff** puts beside the chain what reads it. `Blockers` names the
refusals of the gate by their codes; `AnswerTo` and `NextActions` are
`deriveNextActions`. `CreateCheckpoint`, `StaleCheckpoint`, `ExportHandoff` and
`Accepts` are checkpoint staleness and the export and import of a handoff.
`HookProblems` is the drift check of the commit hook, which assembles its own
inputs from an expanded listing of the changed files. `Diligence` is people who
do only what the report, and the refusals of the commands it names, tell them.

**TaskDoctor** is `task doctor` over task documents people edit: the depth-first
search for circles as the code runs it (`FindsCycle`, which is the depth-first walk
of ExtendsWalk over the dependencies, `SearchGraph`), and the problems of single
documents. A document in the archive may have any status, since `readDoc` looks
at no directory.

### The stores

**LocalStores** has the two stores that number what they keep. A checkpoint is
its number, a journal line its sequence number or a fragment (`Torn`): nothing
else decides a number or a place. `NumberCheckpoint` and `RenameCheckpoint` are
`CheckpointStore.create` before and at the rename of the complete temporary
file; the append to the journal that ends the command follows.
`NumberEvent`, `ReadActive`, the renames of `rotate` one by one,
`TruncateActive` and `FillActive` are `JournalStore.append`. A writer keeps
the file it has opened when another process renames it, and writes to no file
any more when it is replaced (`open`). Where writers overlap, or one is killed,
any number of lines may be left, and a fragment (`WriteOver`). `raced` and
`disturbed` are history variables, and so is what an append remembers as
`before`.

**TaskDirectory** adds the task documents: create numbers (`NumberTask`,
`nextId` over the documents that parse) and writes; start looks for other active
tasks and then reads, truncates and fills its own document (`writeStatus`);
archive only renames into the archive; `archive --completed`
goes through its list. A torn document does not parse and is not listed.

### Scanning, watching, the editor

**ScanPipeline** has the operators of one scan: which rules run where
(`Evaluated`), the cache key, policy, threshold, baseline and the gate of `ackit
scan`. A file's content is the drafts the rules would make of it, with an inline
marker or not, and the rules that throw on it.

**ScanWatch** runs them while people edit files and policy: `ListTargets`,
`EvaluateTarget` (a batch at a time, from the cache or anew; a miss leaves a
cache entry), `FinishWrite` and `FinishGate` for the baseline commands,
`FinishFirst` and `FinishRerun` for a watching session, `FirstSnapshot`, `Poll`,
`LoopEnds` and `WatchEnds` for the loop. A watching session prints its first
scan only; a rerun overwrites the result in memory (`result`) and says that it is
complete. The readiness threshold, which the gate asks before the findings, may
refuse or not (`FinishGate`); findings of rule packs are left out. `Interrupt` may
come at any point, a kill may leave a torn cache entry. `blind` remembers that a
change fell where the loop does not look, and `held` which contents each path has
held: the key of the cache has no path (cache.ts:24), so what a file is reported
for may have been found at another holder of its content.

**EditorRefresh** is the refresh service of the extension and the problems it
mirrors. A call of `refreshAll` goes through the folders it listed at its start;
for each it aborts whoever came before (`Reached`), and then ends six analyses
one after the other (`AnalysisEnds`), each with its result, an error or an
abort. A result is as old as its analysis' beginning and is put into a snapshot
object that overlapping calls may share; `Publish` is the `finally` that enters
the object into the map and tells the listeners, aborted refreshes included.
`lost` is history: a folder whose refresh was cut off by the refresh of another
folder, written over by an older one, or had an analysis throw. An aborted scan
ends before the event loop turns to anything else (`scanRepository` races it,
`NoneRaces`); disposing stops the debounce timer but neither the loop of a
`refreshAll` nor the first, delayed refresh.

### Files shared with people

**ManagedBlocks** has the operators on a file seen as a sequence of marks and
pieces of text: `Ensure` is `ensureManagedBlock`. Its loop over complete pairs of
marks is `Spans`, a round of it `SearchOnce` (the next start and the first end behind
it); what stands before and between the pairs is copied by `Between`; the block is
put in for the last pair, or appended. `PlanSurface` is init and sync, `ApplyFix` the
fix of optimize, `InstallHook` and `UninstallHook` the hook lines.
**ManagedFiles** runs the commands over such files and over skill directories
with their lock: preview, plan, write one by one, skills one by one, the lock
once at the end; `Die` ends a command anywhere, people edit, the package is
upgraded.

### Derived decisions

| Module | Code | Reference definition it is checked against |
| --- | --- | --- |
| ExtendsWalk, PolicyLayers | depth-first walk over `extends` (policy, strict; packs, lenient) | reachability by closure: acceptance, each once, bases first |
| PolicyMerge, PolicyLayers | merge with locks, suppressions, tier and review tables | any layer before and the final policy compared |
| RulePacks | composition of pack files, overrides by a rule's name or canonical id, the rules of every type | presence and absence: the complement of each other given a glob, both silent without one |
| InstructionGraph | nodes, order, duplicates, unreachability, effective stack | directory nesting; the chains of all providers |
| RepositoryWalk | breadth-first walk with links, limits, ignore files (ordered patterns, negated ones included) | every file of the tree |
| ContextPack | gates, ranking, budget, duplicates of the pack | every better file |

People edit the documents (`WritePolicy`, `WritePack`, `WriteText`, ...) or the
code takes its steps (`ReadDirectory`); each result is an operator of the state.

Operators named "Seeded fault of X" are mutations of X used to show that each
property can fail; nothing else refers to them.

## 3. Runs

Bounds are constants of the cfg or conjuncts of the MC module. Every cfg but
Managed and UserTextKept says CHECK_DEADLOCK FALSE, because the instances stop
where nothing is left to do within their bounds; the program itself always
accepts another command. In Managed only the size of files and the number of versions are
bounded, so a state without a successor would be a fault.

| Run | Checks | Instance, and why it is enough |
| --- | --- | --- |
| TrustJudgments | ApprovedCompletion, NoReplay, KeepsLedger | One task, `quick` under a strict configuration, three judgments (pass, pass in the same context, rework). Either two trees and two verdicts, so that a verdict can be superseded, be about another tree, be offered again; or one tree, one verdict and completions forced; or a review policy that is in force, lost (the configuration malformed, or its policy unresolved) and found again, with a judgment that meets it and one that does not. 1.2 million states. |
| TrustBindings | ChangeMakesStale, BookkeepingKeepsFresh | One verdict in three parts: configuration, git, a referenced document, evidence, profile and stage all move; or evidence, profile and stage move and completions are forced; or they move and the criteria are rewritten. 1.2 million states. |
| TrustProfiles | TypeOK, FailureReworked, DependenciesFirst | `Cap` = 2 so that the cut bites. Either one task under two profiles, with two criteria, manual evidence and failing attempts; or two tasks, the second depending on the first, with forced completion. 0.8 million states. |
| Overlap | StateIsWalk, NoGaps, AloneIsSound | Two identical processes (symmetry), kills anywhere, two trees, two verdicts, a task at `verify` so that completion, rewinding and registration all compete. |
| LocalStores | InOrder, AloneIsNew, AloneAppends, AloneIsNewTask, AloneStartsOne, ArchiveKept | Two identical processes, killed anywhere. Two checkpoints, four appends, a journal rotated at two lines, found empty or with all three files full, so that the first append rotates and drops; or five task ids, two titles, four commands, directories found empty or with an archived, a completed and a pending task, `archive --completed` included. 0.7 million states. |
| StatusHandoff | AdviceCompletes, AcceptedIsCurrent, HookImpliesGate | One task in three parts: a handoff exported and imported over a task that goes on; a task left in any mess (edits, failed attempts, outages, a malformed configuration or one whose policy does not resolve) and then completed by advice alone; a `high-risk` task one step from completion with unplanned files, one seen by the hook only. Six verdicts and seven bundles, enough that advice never runs out of them. 0.2 million states. |
| Repository | BasesFirst, LockedRulesHold, ScopesConfine, ReviewOnlyTightens, PresenceOrAbsence, ClosestLast, UnreachableNeverApplies, DuplicatesPointEarlier, NothingMissedSilently, BestThatFit, CleanBillCompletes | Six parts side by side, in a behavior one of them moves. Three policy files (cycles, diamonds, locks, scopes); three pack files, two with one id; six places for instruction files, three at once, four nodes kept; trees with links in a circle, links to and fro, an unreadable directory, limits that bite, patterns ignored and taken back; four candidates for a pack; three task documents, archived ones of any status. Rule packs have rules with and without a glob. 25,000 states. |
| ScanWatch | GateIsSound, ServedFromHolders, CatchesUp, InterruptEnds, ProblemsMirror, EditorCatchesUp | Two files, the second of which may get a copy of the first, batches of one, two edits, one loss (kill or cleaning); a behavior gates on baselines or watches. Or the editor: one folder with two events, or two folders with one event; an analysis fails at most once. 0.2 million states. |
| Managed | TextOutsideBlocksKept, SyncSettles, NoFalseConflict | An instruction file, a hook, two skills with two versions; files of up to five marks and seven pieces, so that a block, its double, a foreign block and stray marks fit. |
| OverlapStaleNeverSatisfies, UserTextKept, EveryFolderScanned | one documented promise each | The run finds the promise broken; see Findings. |

Two verdicts, two trees and two processes suffice for what the properties tell
apart: latest or not, same state or not, self or other. For the properties that
are theorems the bound does not matter.

### Fairness

The chain itself promises nothing eventually: nothing happens unless somebody
runs a command, so TrustChain, OverlappingCommands and LocalStores state no
fairness. Three specifications do.

- `ScanWatch!Fairness` = `WF_vars(ScanSteps) /\ WF_vars(WatchSteps)`: a process
  that runs gets on with its scan, and its poll timer fires. Both are the event
  loop of one process; nothing people do is fair. CatchesUp excludes sessions in
  which a change fell where the loop does not look (`blind`).
- `EditorRefresh!EditorFairness` = `WF_editorVars(EditorSteps)`: timers fire and
  analyses end. One event causes finitely many such steps, so fairness of their
  disjunction is enough. EditorCatchesUp excludes folders that were `lost`.
- `MCStatusHandoff` has weak fairness of `Diligence`: people who do only what
  they are told keep doing it. AdviceCompletes is about them; it fails when a
  blocker has no answer, or an answer that a command refuses.

### What the runs show

Commands run one at a time keep every promise of the chain about approval,
independence, replay, rework and order: any gated completion that needs a
verdict is approved by one about the very state it completes in, and the whole
chain implements the ledger. With overlap the files stay readable or are
refused, the history stays a walk, verdict numbers have no gaps; but soundness
of a completion, newness of an id, a single active task and a whole journal hold
only for commands nobody writes into (`Alone...`). The report leads out of every
mess; an accepted handoff is true of what its binding covers; the hook refuses
nothing the gate lets pass. A scan with a cache reports each file as itself or
as another path that has held its content, and a repository passes the gate only
where each file does so; for contents that were only ever at one path this is
what a scan without a cache finds. For copies it is not: a copy of a file whose
findings are in the baseline or suppressed can pass for it (GateIsExact below).
A watching session catches up in memory; it prints nothing after its first scan.
The editor catches up with every folder unless overlapping refreshes cut one off.

### Findings

1. **OverlapStaleNeverSatisfies.** The gate judges one verdict
   (tasks/store.ts:404) and checks the freshness of another (:453) when one is
   registered in between.
2. **UserTextKept.** A stray start marker and the end of a block appended later
   are taken for one block, and the user's text between them is replaced
   (managed-block.ts:39).
3. **EveryFolderScanned.** With two folders, a second refresh aborts the scan of
   the first folder; the aborted call goes on to the second folder and aborts
   the second call's scan of the first one, and nobody begins it again
   (ackitWorkspace.ts:112).

Further properties are stated in the modules without a run of their own. Each
can be tried by naming it in the cfg of the run that exercises its module.

| Property | Says | Outcome |
| --- | --- | --- |
| TrustChain!EveryCriterionProven | every criterion of the document is proven at completion | violated: the gate judges the registry as last synced |
| TrustChain!NoStageSkipped | no stage is skipped | violated: an attempt that fails at an early stage moves *forward* to `implement` |
| OverlappingCommands!FailedNeverCompletes | no completion after a failure | violated: a failure recorded between the gate's reading and its writing |
| OverlappingCommands!VerdictsAppendOnly | no verdict is replaced | violated: two registrations choose one number |
| TaskDirectory!OneDocumentPerId | ids are unique (docs/tasks/TASK-0281, line 87) | violated: two creates, or one that is killed |
| RulePacks!LaterExtendsWins | of two files of one pack the later in the order of extends wins (docs/v0.2.0/REQUIREMENTS.md:111) | violated: composed in the order of names (packs/load.ts:374) |
| InstructionGraph!LinkedDuplicatesPointEarlier | DuplicatesPointEarlier where files are links | violated |
| RepositoryWalk!EachDirectoryOnce | no directory is read twice (walk.ts:42) | violated: a link is resolved, what lies below a link that was entered is not |
| ContextPack!DuplicateOfHigherRanked | a dropped duplicate is the lower ranked (docs/concepts/context-budget.md:30) | violated: the first in walk order is kept, before anything is ranked (pack.ts:309) |
| ContextPack!ChangedContentPacked | what changed is packed under some path | violated: deduplicated against a file that is then outside the changed set (pack.ts:323) |
| ScanWatch!ResultsCatchUp | the watcher catches up without exception | violated: a change during a rerun |
| ScanWatch!BaselineHoldsAccepted | the baseline holds what was accepted (docs/guides/ci.md:24) | violated: suppressed findings are on neither side |
| ScanWatch!CacheIsTransparent | a scan with a cache finds what one without finds | violated for two files of one content: the key has no path (cache.ts:24) |
| ScanWatch!GateIsExact | what passes the gate has no finding, at its own path, that is not accepted | violated likewise: a copy of an accepted file passes |
| TrustChain!FreshSameReview | while a verdict stays fresh the same review is asked of it ("the binding always matches what the gate enforces", binding.ts:521) | violated: the policy comes into force or is lost without a change of the binding (tasks/store.ts:414, :432) |
| TaskDoctor!CleanBillAlone | a clean bill alone says that every task can be completed | violated: an archived task that was set back to pending blocks its dependents, and doctor is silent |
| TrustChain!SingleActive, ReviewedWasExported, ReworkOutstanding, LocalStores!NoCheckpointGap, FilesBounded, PolicyLayers!DenyWins | see their comments | hold; all but DenyWins are proved |

Read in the code and not modelled: doctor's check of file name against id
compares the file name with itself (tasks/store.ts:546) although
docs/tasks/TASK-0281 says doctor detects a mismatch. `status` throws for
an archived task although store.ts:180 says it stays total. The report's
requiresEvidence and requiresVerdict ignore configuration overrides
(projection.ts:166). `stop()` of the watch handle never resolves `done`; no
command calls it. An aborted pack leaves readiness empty in the editor, and the
problems are not cleared for a folder without a scan.

## 4. Proofs

Assumptions: `CapAssumption` (`Cap` positive), `TrustAssumption`,
`OverlapAssumption` and `HandoffAssumption` (types of the constants; the trees
are not the degraded digest), `PipelineAssumption` and `EditorAssumption`
(types; there is a folder), `StoresAssumption` (the limit is positive, and the
journal found is in order and within it), `TasksAssumption` (a document found is
in one of the two directories, and those of the archive are completed),
`PolicyAssumption`, `PacksAssumption`, `GraphAssumption`, `PackAssumption` and
`DoctorAssumption` (types; finitely many files, each of them told from the
absence of one), `ManagedAssumption` (the providers are told apart, and so are
the skills; what people write into a file are marks and texts), `WalkAssumption`
(the root is a directory, everything else is in one, and what a link leads to is
resolved). Everything else is arbitrary: any tasks, dependencies, profiles used,
trees, criteria, judgments, documents, packs, repositories, limits, bounds, and
any number of processes.

**WorkflowStateProofs** proves what the transformers preserve: positions are
stage numbers, `AppendCapped` keeps the cap and ends in its entry, each
transformer maps workflow states to workflow states, a failed attempt is the
latest outcome whatever was cut.

**TrustChainProofs**

| Theorem | Property | Argument |
| --- | --- | --- |
| TypeCorrect | TypeOK | inductive |
| CompletionIsApproved | ApprovedCompletion, ReviewedWasExported | strengthened: a completed task's latest verdict at completion stays at its index (verdict sequences only grow), reviewed states stay exported (bundles only grow) |
| JudgedOnce | NoReplay | inductive: Record refuses content on file |
| FailureIsReworked | FailureReworked, ReworkOutstanding | ReworkOutstanding is the strengthening: an owed pass is the latest outcome, an owed "verify" is a stage before it, so the gate is shut |
| LifeCycleOrder | SingleActive, DependenciesFirst | a completed task is never reopened |
| BookkeepingIsNeutral, ChangeIsNoticed | BookkeepingKeepsFresh, ChangeMakesStale | step by step from TypeOK |
| ChainKeepsLedger | KeepsLedger | Init maps to Init, every action to a ledger step or a stutter; an edit of the configuration is one that makes reviews be demanded, or no longer |

**OverlappingCommandsProofs**

| Theorem | Property | Argument |
| --- | --- | --- |
| OverlapTypeCorrect | TypeOK, NoGaps | OverlapInv: what each process remembers has the type its next step writes (ControlOK, FilesOK), and the slot a process holds is at most one past the files (Numbered) |
| StateStaysWalk | StateIsWalk | WalkInv: every state on disk *and in memory* is a walk |
| AloneCompletesSoundly | AloneIsSound | AloneInv: while nobody disturbs a completion, what it has read still holds at each of its points (StillHolds) |

**LocalStoresProofs**

| Theorem | Property | Argument |
| --- | --- | --- |
| CheckpointsNumbered, AloneCreatesNew | NoCheckpointGap, AloneIsNew | CheckpointInv: the numbers are 1 .. n, and whoever is about to rename holds at most n + 1, and exactly that while undisturbed |
| StoresTyped | TypeOK | with CheckpointInv; the next number is a number (GreatestOfSeq, by the least counterexample) |
| AloneAppendsWhole | AloneAppends | AloneInv: how far an undisturbed append has moved the files it found (Kept), rename by rename |
| JournalInOrder, FilesStayBounded | InOrder, FilesBounded | OrderInv: while appends have not overlapped one process writes, the files are sorted one after the other, and its content belongs behind them and fits (Ready) |

and of TaskDirectory, in the same module

| Theorem | Property | Argument |
| --- | --- | --- |
| AloneCreatesNewTask | AloneIsNewTask | Placed (where each process is and which file it names) and AloneInv: an undisturbed create holds a number above every readable document's |
| AloneStartsAlone | AloneStartsOne | the same AloneInv: an undisturbed start has seen no other active task, up to its last write |
| ArchivedStays | ArchiveKept | Settled: until a write falls into another command, a file is in one of the two directories, the archive holds no torn document, and whoever names a file names none of the archive |

and of StatusHandoff, in TrustChainProofs

| Theorem | Property | Argument |
| --- | --- | --- |
| NotesKeepTrust | StatusSpec => Spec of TrustChain | every note, report and check is a stutter of the chain; so its theorems hold beside them |
| AcceptedHandoffIsCurrent | AcceptedIsCurrent | the bound problems of an active task are a function of its binding (BoundOf), so they are the same wherever the binding is; HandoffInv carries that of the export |
| HookRefusalIsGateRefusal | HookImpliesGate | each problem of the hook is, for a gated task, one of the gate's |

**ScanWatchProofs**, which is about EditorRefresh too

| Theorem | Property | Argument |
| --- | --- | --- |
| CacheServesHolders | ServedFromHolders | PipelineInv: every readable entry of the cache is what the rules made of its content at some path that holds it or has held it (CacheInv), and what a scan has found with what it has still to find reports the files there are, each as a holder of its content, until someone edits or interrupts (ProgressInv) |
| GatePassesSoundly | GateIsSound | the same at the moment a scan ends |
| ProblemsAreThoseShown | ProblemsMirror | EditorInv: a call that has begun is under way, and the last one to end has drawn the problems anew |

Any content may be at any number of paths, one after the other or at once. The
catalog of rules, the policies, the folders, the batch size and the bounds
are arbitrary.

### Loops over data

The walk along `extends`, the merge of layers, the filling of a pack, the names
of a directory and the parts of a path are loops, which the modules write as
folds or as recursive functions. What such a loop computes is known by induction
on its length only. **FoldFacts** has that once, for a step and a start that are
parameters of the module: a recursive function on numbers has the values its
equation gives (`CountedUpTo`, `CountedAlways`), a fold over one element more is
one step more (`FoldedOneMore`, `FoldedBeginnings`), and a set that has 0 and the
successors of its numbers has all of them (`CountingUp`). Each loop takes the
facts by INSTANCE, with its own step, and states its invariant as a set of numbers.

**PolicyProofs**

| Theorem | Property | Argument |
| --- | --- | --- |
| ReachedHasStart, ReachedIsLeast, ReachedIsClosed | | the reference definition of the walk is what it should be: the least set that has the entries and is closed under extends |
| WalkIsOver, WalkIsRight | | WalkInv of the depth-first walk: nothing is loaded twice, the stack is a path along extends, each file that was left is loaded or blamed, a loaded file stands behind all it extends, and each problem is true of a reached file. Every step but the last uses up a file or one of its references (StepsLeft), so `WalkLength` steps are enough |
| PolicyBasesFirst | BasesFirst | WalkIsRight of the policy files |
| PolicyLockedRulesHold | LockedRulesHold | a locked rule survives each layer, hence all of them |
| PolicyScopesConfine | ScopesConfine | what is suppressed comes from one of the documents merged so far |
| PolicyReviewTightens, PolicyDenyWins | ReviewOnlyTightens, DenyWins | the strictest tier and what blocks a review survive each layer |
| PacksPresenceOrAbsence | PresenceOrAbsence | with a glob both rules read one set of matches, without one neither reports; the effective packs are typed after each step of their composition |
| CleanBillRight | CleanBillCompletes | the search of the task doctor is the same walk, so WalkIsRight says what it finds: without a circle, and with nothing but completed tasks in the archive, each task stands behind all it needs, which is an order to complete the tasks in; a circle that is found is one, every task from which it is reached needs another such task, and so no round of completions takes the first of them |

**RepositoryProofs**

| Theorem | Property | Argument |
| --- | --- | --- |
| WalkStates | | WalkInv of the walk over a repository: every directory that was entered waits in the queue or is finished, which means that each of its entries is listed, entered under some path, ignored or named in a diagnostic. Each entry of a directory is accounted for when it is inspected (EntryInspected), and no later step takes that back (GoesOn) |
| WalkMissesNothing | NothingMissedSilently | the queue is empty at the end, so every entered directory is finished; induction along the path of a file from the root |
| PacksBest | BestThatFit | the fill is greedy: what it has used never shrinks and fits at every step; the ranking lists each candidate once, better ones first |
| ChainsEndClosest | ClosestLast | the keys of two nodes differ, so the graph is a list in their order (ListedIsList), and the key of an enclosing directory is below that of a directory inside it |
| DeadNodesStayOut | UnreachableNeverApplies | what detectDeadPure calls dead has no file in its scopes, by the definition resolveEffectiveStack uses |
| DuplicatesEndAtOriginals | DuplicatesPointEarlier | without links every place has one node, and the stronger of a pair is the earlier one |
| LockKnowsItsSkills | NoFalseConflict | ManagedInv: during a command the lock file is behind the skills written, and the copy of it that the command holds is what they agree with |
| TextOutsideKept | TextOutsideBlocksKept | `Read` goes through a file from mark to mark (inside which block, marks in pairs so far, text outside). Where the marks come in pairs, a whole block leaves what is read as it was (BlockSeen), and each block the search finds is whole (StartCloses, SpansAreBlocks); so what `Ensure`, the fix and the hook commands make is read as before (EnsureKeeps, FixKeeps, InstallKeeps, UninstallKeeps). FilesInv: each file is read as people left it, and the plans not yet carried out are those one would make now |
| SyncSettlesAll | SyncSettles | no start mark is left around the block `Ensure` puts in when the marks come in pairs, so that block is all the next search finds, and it is as it should be (EnsuredStays); FilesInv carries it behind the last file written. For the skills, SettledInv: each skill a sync has passed is as the package has it, of somebody else, or edited, by the command's copy of the lock, a later entry of the copy does not change that, and the lock that is written says what the copy says |

What is sorted is known by its order alone: `ListedBy` of a finite set and a
total order lists each element once, in that order. For ClosestLast and
DuplicatesPointEarlier the proof first shows that the order is total, which is
where the last components of the keys, id and copy, are needed.

Each invariant of the runs that expect no violation is stated by a theorem. Only
model-checked are liveness (CatchesUp, InterruptEnds, EditorCatchesUp,
AdviceCompletes), which needs fairness; the promises that are violated, which are
false; and the mutants.

## 5. Plan

Done: the chain with its ledger, overlap, the stores and task documents, report
and handoff, scanning and watching, managed files, the derived decisions, the
editor. Left, in this order:

1. **Evidence writes** step by step, as in TaskDirectory: two `evidence verify`
   at once, a registry torn by a kill; two criteria with one text.
2. **Checkpoint platforms**: the unlink before the rename where rename does not
   replace; `resume` over a stale checkpoint.
3. **Texts**: imports inside instruction files, the conflict analysis, redaction.
4. **Readiness**: the arithmetic of scores and weights with not-applicable parts.

## 6. Not modelled, and why

Text and layout of documents, reports and bundles; regular expressions of rules
and secret detection; YAML and JSON parsing (a document parses or does not);
argument parsing, the read-only MCP and dashboard servers, tree views of the
editor, release scripts and benchmarks: they change no state of the system.
Lifecycle gates are only printed in the header of a bundle; intent documents
enter as referenced documents; role contracts, workspace detection and readiness
are pure functions of data with no decision behind them that the chain reads.
Dates are left out: no decision of the modelled code depends on one (an expired
suppression is a flag). Digests are taken to be injective. Errors of the file
system other than absence, truncation and unreadable directories (permissions
of single files, full disks) are not modelled, nor an edit of an instruction
file between the plan and the write of one sync, which the code overwrites.
