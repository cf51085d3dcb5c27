--------------------------- MODULE ScanWatchProofs ---------------------------
(***************************************************************************)
(* Theorems about ScanWatch, for every catalog of rules, all policies, all *)
(* contents, numbers of files, batch sizes, edits and losses: a scan       *)
(* during which nothing was edited reports every file as itself or as      *)
(* another one that has held its content, and so the gate is sound.  And a *)
(* theorem about EditorRefresh, for any number of folders, overlapping     *)
(* refreshes, events and failures: once nothing is under way, the problems *)
(* shown are those of the snapshot that is shown.                          *)
(***************************************************************************)
EXTENDS ScanWatch, EditorRefresh, NaturalsInduction, WellFoundedInduction, TLAPS

-----------------------------------------------------------------------------
(* What the steps do. *)

(* A set of numbers that is not empty has a least one. *)
LEMMA LeastTarget ==
  ASSUME scan.todo \subseteq Nat, scan.todo # {}
  PROVE  NextTarget \in scan.todo
<1> DEFINE R == {ss \in Nat \X Nat : ss[1] < ss[2]}
           T == scan.todo
<1>1. PICK m \in T : \A k \in T : ~ (<<k, m>> \in R)
  <2>1. IsWellFoundedOn(R, Nat)
    BY NatLessThanWellFounded DEF OpToRel
  <2> HIDE DEF R
  <2> QED
    BY <2>1, WFMin
<1>2. \A q \in T : m <= q
  <2> SUFFICES ASSUME NEW q \in T PROVE ~ (q < m)
    OBVIOUS
  <2>1. <<q, m>> \in Nat \X Nat
    OBVIOUS
  <2> QED
    BY <1>1, <2>1
<1> QED
  BY <1>2 DEF NextTarget

(* A person edits a file or the policy. *)
WorldEdit == (\E p \in Paths : WriteFile(p) \/ RemoveFile(p)) \/ WritePolicy

(* Any other step that does not list or evaluate: it keeps the scan, ends it or
   begins one, adds nothing readable to the cache and takes no interrupt back. *)
OtherStep ==
  /\ UNCHANGED repoVars
  /\ scan' \in {scan, Idle, Begun}
  /\ \A k \in DOMAIN cache' : cache'[k].torn \/ (k \in DOMAIN cache /\ cache'[k] = cache[k])
  /\ scan'.state = "batches" /\ watch.aborted => watch'.aborted

(* A watcher there is belongs to a watching session. *)
WatchInv ==
  /\ "aborted" \in DOMAIN watch
  /\ session # "watch" => watch = Off

LEMMA OtherSteps ==
  ASSUME WatchInv, [Next]_vars, ~WorldEdit, ~ListTargets, ~EvaluateTarget
  PROVE  OtherStep
<1>1. CASE UNCHANGED vars
  BY <1>1 DEF OtherStep, vars
<1>2. CASE CleanCache
  BY <1>2 DEF CleanCache, OtherStep, repoVars
<1>3. CASE Kill
  <2>1. UNCHANGED repoVars /\ scan' = Idle
    BY <1>3 DEF Kill
  <2>2. \A k \in DOMAIN cache' : cache'[k].torn \/ (k \in DOMAIN cache /\ cache'[k] = cache[k])
    <3>1. CASE UNCHANGED cache
      BY <3>1
    <3>2. CASE \E key : cache' = [k \in {key} \cup DOMAIN cache |-> IF k = key THEN TornEntry ELSE cache[k]]
      BY <3>2 DEF TornEntry
    <3> QED
      BY <1>3, <3>1, <3>2 DEF Kill
  <2> QED
    BY <2>1, <2>2 DEF OtherStep, Idle
<1>4. CASE Interrupt
  BY <1>4 DEF Interrupt, OtherStep, WatchInv
<1>5. ASSUME NEW name, Command(name) PROVE OtherStep
  BY <1>5 DEF Command, OtherStep
<1>6. CASE FinishWrite \/ FinishGate \/ FinishFirst \/ FinishRerun
  BY <1>6 DEF FinishWrite, FinishGate, FinishFirst, FinishRerun, OtherStep, Idle
<1>7. CASE FirstSnapshot
  <2>1. watch'.aborted = watch.aborted
    BY <1>7 DEF FirstSnapshot
  <2>2. UNCHANGED <<repoVars, cache, scan>>
    BY <1>7 DEF FirstSnapshot
  <2> QED
    BY <2>1, <2>2 DEF OtherStep
<1>8. CASE Poll
  <2>1. watch'.aborted = watch.aborted
    BY <1>8 DEF Poll, WatchInv
  <2>2. UNCHANGED <<repoVars, cache>> /\ scan' \in {scan, Begun}
    BY <1>8 DEF Poll
  <2> QED
    BY <2>1, <2>2 DEF OtherStep
<1>9. CASE LoopEnds
  <2>1. watch'.aborted = watch.aborted
    BY <1>9 DEF LoopEnds, WatchInv
  <2>2. UNCHANGED <<repoVars, cache, scan>>
    BY <1>9 DEF LoopEnds
  <2> QED
    BY <2>1, <2>2 DEF OtherStep
<1>10. CASE WatchEnds
  BY <1>10 DEF WatchEnds, OtherStep, Idle
<1> QED
  BY <1>1, <1>2, <1>3, <1>4, <1>5, <1>6, <1>7, <1>8, <1>9, <1>10 DEF Next, ScanSteps, WatchSteps, WorldEdit

(* Whoever watches is in a watching session, and only who watches is
   interrupted. *)
LEMMA WatchStep == ASSUME WatchInv, [Next]_vars PROVE WatchInv'
<1>1. CASE WorldEdit
  BY <1>1 DEF WorldEdit, WriteFile, RemoveFile, WritePolicy, Edited, WatchInv
<1>2. CASE ListTargets \/ EvaluateTarget \/ CleanCache \/ UNCHANGED vars
  BY <1>2 DEF ListTargets, EvaluateTarget, CleanCache, vars, WatchInv
<1>3. CASE Kill \/ WatchEnds
  BY <1>3 DEF Kill, WatchEnds, WatchInv, Off
<1>4. ASSUME NEW name, Command(name) PROVE WatchInv'
  BY <1>4 DEF Command, WatchInv
<1>5. CASE FinishWrite \/ FinishGate
  BY <1>5 DEF FinishWrite, FinishGate, WatchInv
<1>6. CASE FinishFirst \/ FinishRerun
  BY <1>6 DEF FinishFirst, FinishRerun, WatchInv
<1>7. CASE FirstSnapshot \/ Poll \/ LoopEnds \/ Interrupt
  <2>1. session' = session /\ session = "watch"
    BY <1>7 DEF FirstSnapshot, Poll, LoopEnds, Interrupt, WatchInv, Off
  <2>2. "aborted" \in DOMAIN watch'
    <3>1. CASE FirstSnapshot
      BY <3>1 DEF FirstSnapshot
    <3>2. CASE Poll
      BY <3>2 DEF Poll, WatchInv
    <3>3. CASE LoopEnds \/ Interrupt
      BY <3>3 DEF LoopEnds, Interrupt, WatchInv
    <3> QED
      BY <1>7, <3>1, <3>2, <3>3
  <2> QED
    BY <2>1, <2>2 DEF WatchInv
<1> QED
  BY <1>1, <1>2, <1>3, <1>4, <1>5, <1>6, <1>7 DEF Next, ScanSteps, WatchSteps, WorldEdit

-----------------------------------------------------------------------------
(* The files and the policy. *)

RepoInv ==
  /\ edits \in Nat /\ policy \in ScanPolicies
  /\ DOMAIN files = Paths /\ DOMAIN held = Paths
  /\ \A p \in Paths : files[p] = None \/ files[p] \in held[p]

(* What a path has held it has held ever after. *)
LEMMA RepoStep ==
  ASSUME RepoInv, WorldEdit
  PROVE  /\ RepoInv' /\ edits' = edits + 1
         /\ \A p \in Paths : held[p] \subseteq held'[p]
<1>1. edits' = edits + 1
  BY DEF WorldEdit, WriteFile, RemoveFile, WritePolicy, Edited
<1>2. ASSUME NEW p \in Paths, WriteFile(p)
      PROVE  RepoInv' /\ \A r \in Paths : held[r] \subseteq held'[r]
  <2>1. PICK c \in ContentsOf[p] :
          files' = [files EXCEPT ![p] = c] /\ held' = [held EXCEPT ![p] = @ \cup {c}]
    BY <1>2 DEF WriteFile
  <2>2. policy' = policy
    BY <1>2 DEF WriteFile
  <2> QED
    BY <1>1, <2>1, <2>2 DEF RepoInv
<1>3. ASSUME NEW p \in Paths, RemoveFile(p)
      PROVE  RepoInv' /\ \A r \in Paths : held[r] \subseteq held'[r]
  BY <1>1, <1>3 DEF RemoveFile, RepoInv
<1>4. CASE WritePolicy
  BY <1>1, <1>4 DEF WritePolicy, RepoInv
<1> QED
  BY <1>1, <1>2, <1>3, <1>4 DEF WorldEdit

-----------------------------------------------------------------------------
(* The cache. *)

(* An entry of the cache that can be read is what the rules made, under some
   policy, of the content in its key at a path that has held that content. *)
Made(k, h) ==
  \E c \in held[h] : \E q \in ScanPolicies :
    k = CacheKey(c, q) /\ cache[k].findings = Evaluated(h, c, Plan(q))

CacheInv ==
  \A k \in DOMAIN cache : cache[k].torn \/ \E h \in Paths : Made(k, h)

(* A scan that runs took its policy from those people write; as long as
   nothing was edited that is the policy there is. *)
Running ==
  /\ scan.state \in {"listing", "batches"}
  /\ scan = [state |-> scan.state, policy |-> scan.policy, todo |-> scan.todo, left |-> scan.left,
             found |-> scan.found, start |-> scan.start]
  /\ scan.policy \in ScanPolicies
  /\ scan.todo \subseteq Paths
  /\ scan.start \in Nat /\ scan.start <= edits
  /\ scan.start = edits => scan.policy = policy
  /\ scan.state = "listing" => scan.found = {}

ScanInv == scan = Idle \/ Running

(* Policies with one merged view plan the same rules. *)
LEMMA KeyTellsPlan ==
  ASSUME NEW c, NEW d, NEW p, NEW q, CacheKey(c, p) = CacheKey(d, q)
  PROVE  c = d /\ Plan(p) = Plan(q)
<1>1. c = d /\ Policy(p) = Policy(q)
  BY DEF CacheKey
<1> QED
  BY <1>1 DEF Plan

(* What is found in a file, in the cache or anew, is what the rules make of its
   content at a path that has held it. *)
LEMMA FindingsTrue ==
  ASSUME RepoInv, CacheInv, NEW p \in Paths, files[p] # None, scan.policy \in ScanPolicies
  PROVE  \E h \in Holders(files[p]) : Findings(p) = Evaluated(h, files[p], Plan(scan.policy))
<1> DEFINE key == CacheKey(files[p], scan.policy)
<1>1. CASE key \in DOMAIN cache /\ ~cache[key].torn
  <2>1. PICK h \in Paths : Made(key, h)
    BY <1>1 DEF CacheInv
  <2>2. PICK c \in held[h], q \in ScanPolicies :
          key = CacheKey(c, q) /\ cache[key].findings = Evaluated(h, c, Plan(q))
    BY <2>1 DEF Made
  <2>3. c = files[p] /\ Plan(q) = Plan(scan.policy)
    BY <2>2, KeyTellsPlan
  <2>4. h \in Holders(files[p]) /\ cache[key].findings = Evaluated(h, files[p], Plan(scan.policy))
    BY <2>2, <2>3 DEF Holders
  <2> QED
    BY <1>1, <2>4 DEF Findings
<1>2. CASE ~ (key \in DOMAIN cache /\ ~cache[key].torn)
  <2>1. p \in Holders(files[p])
    BY DEF RepoInv, Holders
  <2> QED
    BY <1>2, <2>1 DEF Findings
<1> QED
  BY <1>1, <1>2

(* What one evaluation does. *)
LEMMA Evaluation ==
  ASSUME RepoInv, CacheInv, Running, EvaluateTarget
  PROVE  /\ NextTarget \in scan.todo /\ NextTarget \in Paths
         /\ UNCHANGED <<repoVars, watch, session>>
         /\ Running'
         /\ scan'.state = "batches" /\ scan'.start = scan.start /\ scan'.policy = scan.policy
         /\ scan'.todo = scan.todo \ {NextTarget}
         /\ files[NextTarget] = None => scan'.found = scan.found
         /\ files[NextTarget] # None =>
              \E h \in Holders(files[NextTarget]) :
                scan'.found = scan.found \cup
                                Evaluated(h, files[NextTarget], Plan(scan.policy))
<1>1. scan.state = "batches" /\ scan.todo # {} /\ scan.todo \subseteq Paths
  BY DEF EvaluateTarget, ScanOver, Running
<1>2. NextTarget \in scan.todo /\ NextTarget \in Paths
  BY <1>1, LeastTarget, PipelineAssumption
<1>3. UNCHANGED <<repoVars, watch, session>>
  BY DEF EvaluateTarget
<1> DEFINE found == IF files[NextTarget] = None THEN {} ELSE Findings(NextTarget)
           left == IF scan.left = 0 THEN BatchSize - 1 ELSE scan.left - 1
<1>4. scan' = [scan EXCEPT !.todo = @ \ {NextTarget}, !.found = @ \cup found, !.left = left]
  BY DEF EvaluateTarget
<1> HIDE DEF found, left
<1>5. scan' = [state |-> scan.state, policy |-> scan.policy, todo |-> scan.todo \ {NextTarget},
               left |-> left, found |-> scan.found \cup found, start |-> scan.start]
  BY <1>4 DEF Running
<1>6. /\ files[NextTarget] = None => found = {}
      /\ files[NextTarget] # None =>
           \E h \in Holders(files[NextTarget]) :
             found = Evaluated(h, files[NextTarget], Plan(scan.policy))
  BY <1>2, FindingsTrue DEF found, Running
<1>7. Running'
  BY <1>1, <1>3, <1>5 DEF Running, repoVars
<1> QED
  BY <1>1, <1>2, <1>3, <1>5, <1>6, <1>7

(* A listing turns the scan into one of all files there are. *)
LEMMA Listing ==
  ASSUME Running, ListTargets
  PROVE  /\ UNCHANGED <<repoVars, watch, cache>>
         /\ Running'
         /\ scan'.state = "batches" /\ scan'.start = scan.start
         /\ scan.found = {} /\ scan'.found = {}
         /\ ~watch.aborted => scan'.todo = Present
<1>1. UNCHANGED <<repoVars, watch, cache>> /\ scan.state = "listing"
  BY DEF ListTargets
<1> DEFINE targets == IF watch.aborted THEN {} ELSE Present
<1>2. targets \subseteq Paths
  BY DEF Present
<1>3. scan' = [scan EXCEPT !.state = "batches", !.todo = targets]
  BY DEF ListTargets
<1>4. scan' = [state |-> "batches", policy |-> scan.policy, todo |-> targets, left |-> scan.left,
               found |-> scan.found, start |-> scan.start]
  <2> HIDE DEF targets
  <2> QED
    BY <1>3 DEF Running
<1>5. ~watch.aborted => targets = Present
  OBVIOUS
<1> HIDE DEF targets
<1>6. Running'
  BY <1>1, <1>2, <1>4 DEF Running, repoVars
<1> QED
  BY <1>1, <1>4, <1>5, <1>6 DEF Running

LEMMA ScanStep ==
  ASSUME RepoInv, RepoInv', CacheInv, WatchInv, ScanInv, [Next]_vars
  PROVE  ScanInv'
<1>1. CASE WorldEdit
  <2>1. scan' = scan /\ edits' = edits + 1
    BY <1>1 DEF WorldEdit, WriteFile, RemoveFile, WritePolicy, Edited
  <2> QED
    BY <2>1 DEF ScanInv, Running, RepoInv
<1>2. CASE ListTargets
  BY <1>2, Listing DEF ScanInv, ListTargets, Idle
<1>3. CASE EvaluateTarget
  BY <1>3, Evaluation DEF ScanInv, EvaluateTarget, Idle
<1>4. CASE OtherStep
  <2>1. CASE scan' = scan \/ scan' = Idle
    BY <1>4, <2>1 DEF OtherStep, ScanInv, Running, repoVars
  <2>2. CASE scan' = Begun
    BY <1>4, <2>2 DEF OtherStep, ScanInv, Running, Begun, RepoInv, repoVars
  <2> QED
    BY <1>4, <2>1, <2>2 DEF OtherStep
<1> QED
  BY <1>1, <1>2, <1>3, <1>4, OtherSteps

(* An edit takes no content from what the paths have held, and an entry that is
   kept is as right as it was. *)
LEMMA MadeStays ==
  ASSUME NEW k, NEW h, Made(k, h), held[h] \subseteq held'[h], cache'[k] = cache[k]
  PROVE  Made(k, h)'
BY DEF Made, CacheKey, Evaluated, Plan, Policy, Applies

(* A new entry is right for the path it was made for. *)
LEMMA CacheStep ==
  ASSUME RepoInv, CacheInv, WatchInv, ScanInv, [Next]_vars
  PROVE  CacheInv'
<1>1. CASE WorldEdit
  <2>1. cache' = cache
    BY <1>1 DEF WorldEdit, WriteFile, RemoveFile, WritePolicy, Edited
  <2>2. \A h \in Paths : held[h] \subseteq held'[h]
    BY <1>1, RepoStep
  <2> QED
    BY <2>1, <2>2, MadeStays DEF CacheInv
<1>2. CASE ListTargets
  <2>1. UNCHANGED <<cache, held>>
    BY <1>2 DEF ListTargets, repoVars
  <2> QED
    BY <2>1, MadeStays DEF CacheInv
<1>3. CASE EvaluateTarget
  <2>1. Running
    BY <1>3 DEF ScanInv, EvaluateTarget, Idle
  <2> DEFINE p == NextTarget
  <2>k. PICK key : key = CacheKey(files[p], scan.policy)
    OBVIOUS
  <2>2. p \in Paths /\ UNCHANGED held
    BY <1>3, <2>1, Evaluation DEF repoVars
  <2>3. CASE files[p] = None
    <3>1. cache' = cache
      BY <1>3, <2>3 DEF EvaluateTarget
    <3> QED
      BY <2>2, <3>1, MadeStays DEF CacheInv
  <2>4. CASE files[p] # None
    <3>1. PICK h \in Holders(files[p]) : Findings(p) = Evaluated(h, files[p], Plan(scan.policy))
      BY <2>1, <2>2, <2>4, FindingsTrue DEF Running
    <3> DEFINE entry == Entry(Findings(p))
    <3>2. cache' = [k \in {key} \cup DOMAIN cache |-> IF k = key THEN entry ELSE cache[k]]
      BY <1>3, <2>k, <2>4 DEF EvaluateTarget
    <3>3. h \in Paths /\ files[p] \in held[h] /\ scan.policy \in ScanPolicies
      BY <2>1, <3>1 DEF Holders, Running
    <3>4. entry.findings = Findings(p)
      BY DEF Entry
    <3>5. cache'[key].findings = Evaluated(h, files[p], Plan(scan.policy))
      <4> HIDE DEF entry
      <4> QED
        BY <3>1, <3>2, <3>4
    <3>6. Made(key, h)'
      <4>1. \E c \in held'[h] : \E q \in ScanPolicies :
              key = CacheKey(c, q) /\ cache'[key].findings = Evaluated(h, c, Plan(q))
        BY <2>k, <2>2, <3>3, <3>5
      <4> QED
        BY <4>1 DEF Made, CacheKey, Evaluated, Plan, Policy, Applies
    <3> HIDE DEF entry
    <3>7. SUFFICES ASSUME NEW k \in DOMAIN cache', ~cache'[k].torn
                   PROVE  \E g \in Paths : Made(k, g)'
      BY DEF CacheInv
    <3>8. CASE k = key
      BY <3>3, <3>6, <3>8
    <3>9. CASE k # key
      <4>1. k \in DOMAIN cache /\ cache'[k] = cache[k]
        BY <3>2, <3>7, <3>9
      <4>2. PICK g \in Paths : Made(k, g)
        BY <3>7, <4>1 DEF CacheInv
      <4> QED
        BY <2>2, <4>1, <4>2, MadeStays
    <3> QED
      BY <3>8, <3>9
  <2> QED
    BY <2>3, <2>4
<1>4. CASE OtherStep
  <2>1. UNCHANGED held
    BY <1>4 DEF OtherStep, repoVars
  <2> SUFFICES ASSUME NEW k \in DOMAIN cache', ~cache'[k].torn
               PROVE  \E h \in Paths : Made(k, h)'
    BY DEF CacheInv
  <2>2. k \in DOMAIN cache /\ cache'[k] = cache[k]
    BY <1>4 DEF OtherStep
  <2>3. PICK h \in Paths : Made(k, h)
    BY <2>2 DEF CacheInv
  <2> QED
    BY <2>1, <2>2, <2>3, MadeStays
<1> QED
  BY <1>1, <1>2, <1>3, <1>4, OtherSteps

-----------------------------------------------------------------------------
(* The progress of a scan. *)

(* What the rules, under the policy there is, make of the content of a file at
   a path. *)
MadeOf(p, h) == Evaluated(h, files[p], Plan(policy))

Reported(p, findings) == \E h \in Holders(files[p]) : MadeOf(p, h) \subseteq findings

Justified(f) == \E p \in Present : \E h \in Holders(files[p]) : f \in MadeOf(p, h)

(* As long as nothing was edited and nobody interrupts, every file that is not
   still to come is reported, and nothing but files is. *)
ProgressInv ==
  scan.state = "batches" /\ scan.start = edits /\ ~watch.aborted =>
    /\ \A p \in Present \ scan.todo : Reported(p, scan.found)
    /\ \A f \in scan.found : Justified(f)

(* Files, policy and history alone tell what a file is reported as. *)
LEMMA ReportStays ==
  ASSUME UNCHANGED repoVars
  PROVE  /\ Present' = Present
         /\ \A p, fs : Reported(p, fs) => Reported(p, fs)'
         /\ \A f : Justified(f) => Justified(f)'
BY DEF repoVars, Present, Reported, Justified, Holders, MadeOf, Evaluated, Plan, Policy, Applies

LEMMA ProgressStep ==
  ASSUME RepoInv, CacheInv, WatchInv, ScanInv, ScanInv', ProgressInv, [Next]_vars
  PROVE  ProgressInv'
<1> SUFFICES ASSUME scan'.state = "batches", scan'.start = edits', ~watch'.aborted
             PROVE  (/\ \A p \in Present \ scan.todo : Reported(p, scan.found)
                     /\ \A f \in scan.found : Justified(f))'
  BY DEF ProgressInv
<1>1. CASE WorldEdit
  <2>1. scan' = scan /\ edits' = edits + 1
    BY <1>1 DEF WorldEdit, WriteFile, RemoveFile, WritePolicy, Edited
  <2>2. scan.start \in Nat /\ scan.start <= edits /\ edits \in Nat
    BY <2>1 DEF ScanInv, Running, Idle, RepoInv
  <2> QED
    BY <2>1, <2>2
<1>2. CASE ListTargets
  <2>1. Running
    BY <1>2 DEF ScanInv, ListTargets, Idle
  <2>2. /\ UNCHANGED repoVars /\ ~watch.aborted
        /\ scan'.found = {} /\ scan'.todo = Present
    BY <1>2, <2>1, Listing
  <2>3. Present' = Present
    BY <2>2, ReportStays
  <2> QED
    BY <2>2, <2>3
<1>3. CASE EvaluateTarget
  <2>1. Running
    BY <1>3 DEF ScanInv, EvaluateTarget, Idle
  <2> DEFINE p == NextTarget
  <2>2. /\ p \in scan.todo /\ p \in Paths /\ UNCHANGED <<repoVars, watch>>
        /\ scan'.start = scan.start /\ scan'.todo = scan.todo \ {p}
        /\ files[p] = None => scan'.found = scan.found
        /\ files[p] # None =>
             \E h \in Holders(files[p]) :
               scan'.found = scan.found \cup Evaluated(h, files[p], Plan(scan.policy))
    BY <1>3, <2>1, Evaluation
  <2>3. /\ \A r \in Present \ scan.todo : Reported(r, scan.found)
        /\ \A f \in scan.found : Justified(f)
    BY <1>3, <2>2 DEF ProgressInv, EvaluateTarget, repoVars
  <2>4. scan.policy = policy
    BY <2>1, <2>2 DEF Running, repoVars
  <2>5. \A r \in Present \ scan'.todo : Reported(r, scan'.found)
    <3> SUFFICES ASSUME NEW r \in Present \ scan'.todo PROVE Reported(r, scan'.found)
      OBVIOUS
    <3>1. CASE r = p
      <4>1. files[p] # None
        BY <3>1 DEF Present
      <4> QED
        BY <2>2, <2>4, <3>1, <4>1 DEF Reported, MadeOf
    <3>2. CASE r # p
      <4>1. Reported(r, scan.found)
        BY <2>2, <2>3, <3>2
      <4> QED
        BY <2>2, <4>1 DEF Reported
    <3> QED
      BY <3>1, <3>2
  <2>6. \A f \in scan'.found : Justified(f)
    <3>1. CASE files[p] = None
      BY <2>2, <2>3, <3>1
    <3>2. CASE files[p] # None
      BY <2>2, <2>3, <2>4, <3>2 DEF Justified, MadeOf, Present
    <3> QED
      BY <3>1, <3>2
  <2> HIDE DEF p
  <2> QED
    BY <2>2, <2>5, <2>6, ReportStays
<1>4. CASE OtherStep
  <2>1. scan' = scan
    BY <1>4 DEF OtherStep, Idle, Begun
  <2>2. UNCHANGED repoVars /\ ~watch.aborted
    BY <1>4 DEF OtherStep
  <2>3. /\ \A p \in Present \ scan.todo : Reported(p, scan.found)
        /\ \A f \in scan.found : Justified(f)
    BY <2>1, <2>2 DEF ProgressInv, repoVars
  <2> QED
    BY <2>1, <2>2, <2>3, ReportStays
<1> QED
  BY <1>1, <1>2, <1>3, <1>4, OtherSteps

-----------------------------------------------------------------------------
PipelineInv == RepoInv /\ WatchInv /\ CacheInv /\ ScanInv /\ ProgressInv

LEMMA PipelineStep == ASSUME PipelineInv, [Next]_vars PROVE PipelineInv'
<1>1. RepoInv'
  <2>1. CASE WorldEdit
    BY <2>1, RepoStep DEF PipelineInv
  <2>2. CASE ~WorldEdit
    <3>1. UNCHANGED repoVars
      BY <2>2, OtherSteps DEF PipelineInv, OtherStep, ListTargets, EvaluateTarget
    <3> QED
      BY <3>1 DEF PipelineInv, RepoInv, repoVars
  <2> QED
    BY <2>1, <2>2
<1>2. WatchInv'
  BY WatchStep DEF PipelineInv
<1>3. CacheInv'
  BY CacheStep DEF PipelineInv
<1>4. ScanInv'
  BY <1>1, ScanStep DEF PipelineInv
<1>5. ProgressInv'
  BY <1>4, ProgressStep DEF PipelineInv
<1> QED
  BY <1>1, <1>2, <1>3, <1>4, <1>5 DEF PipelineInv

LEMMA PipelineHolds == Spec => []PipelineInv
<1>1. Init => PipelineInv
  <2> SUFFICES ASSUME Init PROVE PipelineInv
    OBVIOUS
  <2>1. RepoInv
    BY DEF Init, RepoInv
  <2>2. WatchInv
    BY DEF Init, WatchInv, Off
  <2>3. CacheInv
    BY DEF Init, CacheInv
  <2>4. ScanInv /\ ProgressInv
    BY DEF Init, ScanInv, ProgressInv, Idle
  <2> QED
    BY <2>1, <2>2, <2>3, <2>4 DEF PipelineInv
<1>2. PipelineInv /\ [Next]_vars => PipelineInv'
  BY PipelineStep
<1> QED
  BY <1>1, <1>2, PTL DEF Spec

(* The policy applied to more findings gives more, and each one from one. *)
LEMMA AppliedEach ==
  ASSUME NEW q, NEW small, NEW large
  PROVE  /\ small \subseteq large => AppliedTo(q, small) \subseteq AppliedTo(q, large)
         /\ \A f \in AppliedTo(q, small) : \E g \in small : f \in AppliedTo(q, {g})
<1> DEFINE Change(f) == [f EXCEPT
             !.suppressed = @ \/ PolicySuppressed(Policy(q), q.documents, f.rule, f.path),
             !.severity = SeverityOf(Policy(q), f.rule, @)]
<1>1. /\ AppliedTo(q, small) = {Change(f) : f \in small}
      /\ AppliedTo(q, large) = {Change(f) : f \in large}
  BY DEF AppliedTo
<1>2. \A g : AppliedTo(q, {g}) = {Change(f) : f \in {g}}
  BY DEF AppliedTo
<1> HIDE DEF Change
<1> QED
  BY <1>1, <1>2

(* A scan that is over, was not interrupted and during which nothing was edited
   reports every file and nothing but files. *)
LEMMA OverFaithful ==
  ASSUME PipelineInv, ScanOver, scan.start = edits, ~watch.aborted
  PROVE  scan.policy = policy /\ Faithful(Result)
<1>1. Running /\ scan.state = "batches" /\ scan.todo = {}
  BY DEF PipelineInv, ScanInv, ScanOver, Idle
<1>2. scan.policy = policy
  BY <1>1 DEF Running
<1>3. /\ \A p \in Present : Reported(p, scan.found)
      /\ \A f \in scan.found : Justified(f)
  BY <1>1 DEF PipelineInv, ProgressInv
<1>4. Result = AppliedTo(policy, scan.found)
  BY <1>2 DEF Result
<1>5. ASSUME NEW p \in Present
      PROVE  \E h \in Holders(files[p]) : FoundAs(p, h) \subseteq Result
  BY <1>3, <1>4, AppliedEach DEF Reported, FoundAs, MadeOf
<1>6. ASSUME NEW f \in Result
      PROVE  \E p \in Present : \E h \in Holders(files[p]) : f \in FoundAs(p, h)
  <2>1. PICK g \in scan.found : f \in AppliedTo(policy, {g})
    BY <1>4, AppliedEach
  <2>p. PICK p \in Present : \E h \in Holders(files[p]) : g \in MadeOf(p, h)
    BY <1>3 DEF Justified
  <2>2. PICK h \in Holders(files[p]) : g \in MadeOf(p, h)
    BY <2>p
  <2>3. {g} \subseteq MadeOf(p, h)
    BY <2>2
  <2>4. AppliedTo(policy, {g}) \subseteq AppliedTo(policy, MadeOf(p, h))
    BY <2>3, AppliedEach
  <2> QED
    BY <2>1, <2>2, <2>4 DEF FoundAs, MadeOf
<1> QED
  BY <1>2, <1>5, <1>6 DEF Faithful

(* A finished scan during which nothing was edited reports every file as itself
   or as another one that has held its content, and nothing else, whatever the
   cache has been through. *)
THEOREM CacheServesHolders == Spec => ServedFromHolders
<1>1. PipelineInv /\ [Next]_vars =>
        [ScanOver /\ scan' = Idle /\ scan.start = edits /\ ~watch.aborted => Faithful(Result)]_vars
  BY OverFaithful
<1> QED
  BY <1>1, PipelineHolds, PTL DEF Spec, ServedFromHolders

(* What passes the gate has no file, reported as itself or as another one that
   has held its content, with a finding that is not accepted. *)
THEOREM GatePassesSoundly == Spec => GateIsSound
<1> DEFINE Sound == FinishGate /\ scan.start = edits /\ code' = "ok" =>
              \A p \in Present : \E q \in Holders(files[p]) :
                \A f \in FoundAs(p, q) : Accepted(f)
<1>1. PipelineInv /\ [Next]_vars => [Sound]_vars
  <2> SUFFICES ASSUME PipelineInv, FinishGate, scan.start = edits, code' = "ok", NEW p \in Present
               PROVE  \E q \in Holders(files[p]) : \A f \in FoundAs(p, q) : Accepted(f)
    OBVIOUS
  <2>1. ScanOver /\ ~watch.aborted
    BY DEF FinishGate, PipelineInv, WatchInv, Off
  <2>2. scan.policy = policy /\ Faithful(Result)
    BY <2>1, OverFaithful
  <2>3. GatePasses(policy, Result, baseline.fingerprints)
    BY <2>2 DEF FinishGate
  <2>4. \A f \in Result : Accepted(f)
    BY <2>3 DEF GatePasses, Exceeds, NewFindings, Accepted
  <2> QED
    BY <2>2, <2>4 DEF Faithful
<1> QED
  BY <1>1, PipelineHolds, PTL DEF Spec, GateIsSound

-----------------------------------------------------------------------------
(* The editor extension. *)

(* The first of some folders is one of them. *)
LEMMA FirstIsOne ==
  ASSUME NEW rs \in SUBSET Roots, rs # {}
  PROVE  First(rs) \in rs
<1> DEFINE R == {ss \in Nat \X Nat : ss[1] < ss[2]}
<1>1. rs \subseteq Nat
  BY EditorAssumption
<1>2. PICK m \in rs : \A k \in rs : ~ (<<k, m>> \in R)
  <2>1. IsWellFoundedOn(R, Nat)
    BY NatLessThanWellFounded DEF OpToRel
  <2> HIDE DEF R
  <2> QED
    BY <1>1, <2>1, WFMin
<1>3. \A q \in rs : m <= q
  <2> SUFFICES ASSUME NEW q \in rs PROVE ~ (q < m)
    BY <1>1
  <2>1. <<q, m>> \in Nat \X Nat
    BY <1>1
  <2> QED
    BY <1>2, <2>1
<1> QED
  BY <1>3 DEF First

-----------------------------------------------------------------------------
CallsAt(stages, roots) ==
  [at : stages, root : roots, todo : SUBSET Roots, since : Nat, aborted : BOOLEAN, object : Nat]

Calls == CallsAt({0}, Roots \cup {0}) \cup CallsAt(1 .. 6, Roots)

(* What a call is made of. *)
LEMMA CallFields ==
  ASSUME NEW call \in Calls
  PROVE  /\ call = [at |-> call.at, root |-> call.root, todo |-> call.todo, since |-> call.since,
                    aborted |-> call.aborted, object |-> call.object]
         /\ call.at \in 0 .. 6 /\ call.root \in Roots \cup {0} /\ call.todo \in SUBSET Roots
         /\ call.since \in Nat /\ call.aborted \in BOOLEAN /\ call.object \in Nat
         /\ call.at # 0 => call.root \in Roots
<1>1. CASE call \in CallsAt({0}, Roots \cup {0})
  BY <1>1 DEF CallsAt
<1>2. CASE call \in CallsAt(1 .. 6, Roots)
  BY <1>2 DEF CallsAt
<1> QED
  BY <1>1, <1>2 DEF Calls

(* The types the steps of a refresh rest on. *)
CallsInv ==
  /\ version \in [Roots -> Nat] /\ snapshots \in [Roots -> Nat]
  /\ folders \in SUBSET Roots /\ folders # {} /\ active \in Roots
  /\ refreshes \in Seq(Calls)

(* An abort leaves a call one. *)
Aborted(call, i) == [call EXCEPT !.aborted = @ \/ i = current]

LEMMA AbortedTyped ==
  ASSUME NEW call \in Calls, NEW i
  PROVE  Aborted(call, i) \in Calls
<1> DEFINE cut == call.aborted \/ i = current
<1>1. Aborted(call, i) = [at |-> call.at, root |-> call.root, todo |-> call.todo,
                          since |-> call.since, aborted |-> cut, object |-> call.object]
  BY CallFields DEF Aborted
<1>2. cut \in BOOLEAN
  BY CallFields
<1> HIDE DEF cut
<1> QED
  BY <1>1, <1>2, CallFields DEF Calls, CallsAt

(* The beginning of the next analysis leaves a call one. *)
LEMMA MovedOnTyped ==
  ASSUME CallsInv, NEW call \in Calls, call.at # 0, call.at # 6
  PROVE  MovedOn(call) \in Calls /\ MovedOn(call).at # 0
<1> DEFINE seen == version[call.root]
           next == [at |-> call.at + 1, root |-> call.root, todo |-> call.todo, since |-> seen,
                    aborted |-> call.aborted, object |-> call.object]
<1>1. call.at \in 1 .. 5 /\ call.root \in Roots
  BY CallFields
<1>2. seen \in Nat
  BY <1>1 DEF CallsInv
<1> HIDE DEF seen
<1>3. ASSUME NEW moved, moved = [call EXCEPT !.at = @ + 1, !.since = seen] PROVE moved = next
  <2>1. call = [at |-> call.at, root |-> call.root, todo |-> call.todo, since |-> call.since,
                aborted |-> call.aborted, object |-> call.object]
    BY CallFields
  <2> QED
    BY <1>3, <2>1
<1>4. MovedOn(call) = next
  BY <1>3 DEF MovedOn, seen
<1>5. call.at + 1 \in 1 .. 6 /\ call.at + 1 # 0
  BY <1>1
<1>6. next \in Calls /\ next.at # 0
  BY <1>1, <1>2, <1>5, CallFields DEF Calls, CallsAt
<1> QED
  BY <1>4, <1>6

LEMMA ReachedTyped ==
  ASSUME CallsInv, NEW calls \in Seq(Calls), NEW c \in DOMAIN calls, NEW rs \in SUBSET Roots
  PROVE  /\ Reached(c, calls, rs) \in Seq(Calls)
         /\ DOMAIN Reached(c, calls, rs) = DOMAIN calls
         /\ Reached(c, calls, rs)[c].at = (IF rs = {} THEN 0 ELSE 1)
<1>1. DOMAIN calls = 1 .. Len(calls) /\ Len(calls) \in Nat /\ \A i \in DOMAIN calls : calls[i] \in Calls
  OBVIOUS
<1>2. CASE rs = {}
  <2>1. Reached(c, calls, rs) = [calls EXCEPT ![c].at = 0]
    BY <1>2 DEF Reached
  <2> DEFINE call == calls[c]
             over == [at |-> 0, root |-> call.root, todo |-> call.todo, since |-> call.since,
                      aborted |-> call.aborted, object |-> call.object]
  <2>2. over \in Calls
    BY CallFields DEF Calls, CallsAt
  <2>3. over.at = 0
    OBVIOUS
  <2>4. [call EXCEPT !.at = 0] = over
    BY CallFields
  <2>5. Reached(c, calls, rs) = [calls EXCEPT ![c] = over]
    BY <2>1, <2>4
  <2> HIDE DEF over
  <2> QED
    BY <1>2, <2>2, <2>3, <2>5
<1>3. CASE rs # {}
  <2> DEFINE r == First(rs)
             new == [at |-> 1, root |-> r, todo |-> rs \ {r}, since |-> version[r], aborted |-> FALSE,
                     object |-> IF snapshots[r] = 0 THEN c ELSE snapshots[r]]
  <2>1. r \in Roots
    BY <1>3, FirstIsOne
  <2>2. new \in Calls
    BY <1>1, <2>1 DEF CallsInv, Calls, CallsAt
  <2>3. \A i \in DOMAIN calls : Aborted(calls[i], i) \in Calls
    BY <1>1, AbortedTyped
  <2>4. Reached(c, calls, rs) = [i \in DOMAIN calls |-> IF i = c THEN new ELSE Aborted(calls[i], i)]
    BY <1>3 DEF Reached, Aborted
  <2>5. new.at = 1
    OBVIOUS
  <2> HIDE DEF new
  <2> QED
    BY <1>1, <1>3, <2>2, <2>3, <2>4, <2>5
<1> QED
  BY <1>2, <1>3

-----------------------------------------------------------------------------
(* A call of refreshAll is under way when it has begun, for there is a folder. *)
LEMMA RefreshStarts ==
  ASSUME CallsInv, RefreshAll
  PROVE  /\ UNCHANGED <<editorWorld, snapshots, problems, disposed>>
         /\ refreshes' \in Seq(Calls)
         /\ ~AllQuiet'
<1> DEFINE n == Len(refreshes) + 1
           calls == Append(refreshes, NoCall)
<1>1. UNCHANGED <<editorWorld, snapshots, problems, disposed>> /\ refreshes' = Reached(n, calls, folders)
  BY DEF RefreshAll, GoOn
<1>2. calls \in Seq(Calls) /\ n \in DOMAIN calls
  <2>1. NoCall \in Calls
    BY DEF NoCall, Calls, CallsAt
  <2> QED
    BY <2>1 DEF CallsInv
<1>3. folders \in SUBSET Roots /\ folders # {}
  BY DEF CallsInv
<1> HIDE DEF n, calls
<1>4. refreshes' \in Seq(Calls) /\ n \in DOMAIN refreshes' /\ refreshes'[n].at = 1
  BY <1>1, <1>2, <1>3, ReachedTyped
<1> QED
  BY <1>1, <1>4 DEF AllQuiet

(* An analysis that ends either goes on to the next one or publishes, and then
   the problems are drawn anew. *)
LEMMA AnalysisStep ==
  ASSUME CallsInv, NEW c \in DOMAIN refreshes, AnalysisEnds(c)
  PROVE  /\ UNCHANGED <<editorWorld, timer, startup, disposed>>
         /\ refreshes' \in Seq(Calls) /\ snapshots' \in [Roots -> Nat]
         /\ \/ ~AllQuiet'
            \/ problems' = IF disposed THEN problems ELSE Mirrored(heap', snapshots', ShownRoot)
<1> DEFINE call == refreshes[c]
<1>1. call \in Calls /\ call.at # 0
  BY DEF AnalysisEnds, CallsInv
<1>2. UNCHANGED <<editorWorld, timer, startup, disposed>>
  BY DEF AnalysisEnds
<1>3. \/ \E spoiled : Publish(c, heap', spoiled)
      \/ /\ call.at # Len(Analyses)
         /\ refreshes' = [refreshes EXCEPT ![c] = MovedOn(@)]
         /\ snapshots' = snapshots
  BY DEF AnalysisEnds
<1>4. ASSUME NEW spoiled, Publish(c, heap', spoiled)
      PROVE  /\ refreshes' \in Seq(Calls) /\ snapshots' \in [Roots -> Nat]
             /\ problems' = IF disposed THEN problems ELSE Mirrored(heap', snapshots', ShownRoot)
  <2>1. /\ snapshots' = [snapshots EXCEPT ![call.root] = call.object]
        /\ problems' = IF disposed THEN problems ELSE Mirrored(heap', snapshots', ShownRoot)
        /\ refreshes' = Reached(c, refreshes, call.todo)
    BY <1>4 DEF Publish, GoOn
  <2>2. refreshes' \in Seq(Calls)
    BY <1>1, <2>1, ReachedTyped, CallFields DEF CallsInv
  <2>3. snapshots' \in [Roots -> Nat]
    BY <1>1, <2>1, CallFields DEF CallsInv
  <2> QED
    BY <2>1, <2>2, <2>3
<1>5. ASSUME call.at # Len(Analyses), snapshots' = snapshots,
             refreshes' = [refreshes EXCEPT ![c] = MovedOn(@)]
      PROVE  refreshes' \in Seq(Calls) /\ snapshots' \in [Roots -> Nat] /\ ~AllQuiet'
  <2>1. call.at # 6
    BY <1>5 DEF Analyses
  <2>2. MovedOn(call) \in Calls /\ MovedOn(call).at # 0
    BY <1>1, <2>1, MovedOnTyped
  <2>3. /\ refreshes' \in Seq(Calls) /\ c \in DOMAIN refreshes'
        /\ refreshes'[c] = MovedOn(call)
    BY <1>5, <2>2 DEF CallsInv
  <2> QED
    BY <1>5, <2>2, <2>3 DEF AllQuiet, CallsInv
<1> QED
  BY <1>2, <1>3, <1>4, <1>5
-----------------------------------------------------------------------------
EditorInv == CallsInv /\ ProblemsMirror

LEMMA EditorInvHolds == EditorSpec => []EditorInv
<1>1. EditorInit => EditorInv
  <2> SUFFICES ASSUME EditorInit PROVE CallsInv /\ ProblemsMirror
    BY DEF EditorInv
  <2>1. version = [r \in Roots |-> 0] /\ snapshots = [r \in Roots |-> 0] /\ refreshes = <<>>
    BY DEF EditorInit, EditorRest
  <2>2. folders \in SUBSET Roots /\ folders # {} /\ active \in folders /\ startup
    BY DEF EditorInit, EditorRest
  <2>3. refreshes \in Seq(Calls)
    BY <2>1
  <2> QED
    BY <2>1, <2>2, <2>3 DEF CallsInv, ProblemsMirror, AllQuiet
<1>2. EditorInv /\ [EditorNext]_editorVars => EditorInv'
  <2> SUFFICES ASSUME EditorInv, [EditorNext]_editorVars PROVE CallsInv' /\ ProblemsMirror'
    BY DEF EditorInv
  <2>1. CallsInv /\ ProblemsMirror
    BY DEF EditorInv
  <2>2. CASE UNCHANGED editorVars
    BY <2>1, <2>2 DEF editorVars, editorWorld, ghosts, CallsInv, ProblemsMirror, AllQuiet, ShownRoot
  <2>3. ASSUME NEW r \in Roots, Edit(r) PROVE CallsInv' /\ ProblemsMirror'
    <3>1. /\ UNCHANGED <<folders, active, startup, refreshes, heap, snapshots, problems, disposed>>
          /\ version' = [version EXCEPT ![r] = @ + 1] /\ timer' \in {TRUE, timer}
      BY <2>3 DEF Edit
    <3>2. CallsInv'
      BY <2>1, <3>1 DEF CallsInv
    <3>3. AllQuiet' => AllQuiet
      BY <3>1 DEF AllQuiet
    <3> QED
      BY <2>1, <3>1, <3>2, <3>3 DEF ProblemsMirror, ShownRoot
  <2>4. ASSUME NEW r \in Roots, Focus(r) PROVE CallsInv' /\ ProblemsMirror'
    <3>1. /\ UNCHANGED <<version, folders, timer, startup, refreshes, heap, snapshots, disposed>>
          /\ active' = r /\ r \in folders /\ problems' = Mirrored(heap, snapshots, r)
      BY <2>4 DEF Focus
    <3>2. CallsInv'
      BY <2>1, <3>1 DEF CallsInv
    <3>3. ShownRoot' = r
      BY <3>1 DEF ShownRoot
    <3> QED
      BY <3>1, <3>2, <3>3 DEF ProblemsMirror, Mirrored
  <2>5. CASE ChangeFolders
    <3>1. /\ UNCHANGED <<version, active, refreshes, snapshots>> /\ timer'
          /\ \E fs \in (SUBSET Roots) \ {{}, folders} : folders' = fs
      BY <2>5 DEF ChangeFolders
    <3>2. folders' \in SUBSET Roots /\ folders' # {}
      BY <3>1
    <3> QED
      BY <2>1, <3>1, <3>2 DEF CallsInv, ProblemsMirror, AllQuiet
  <2>6. CASE Dispose
    <3>1. /\ UNCHANGED <<editorWorld, snapshots>> /\ disposed'
          /\ refreshes' = [i \in DOMAIN refreshes |-> [refreshes[i] EXCEPT !.aborted = @ \/ i = current]]
      BY <2>6 DEF Dispose
    <3>2. ASSUME NEW i \in DOMAIN refreshes PROVE Aborted(refreshes[i], i) \in Calls
      BY <2>1, AbortedTyped DEF CallsInv
    <3>3. refreshes' = [i \in DOMAIN refreshes |-> Aborted(refreshes[i], i)]
      BY <3>1 DEF Aborted
    <3>4. refreshes' \in Seq(Calls)
      <4>1. refreshes \in Seq(Calls) /\ DOMAIN refreshes = 1 .. Len(refreshes) /\ Len(refreshes) \in Nat
        BY <2>1 DEF CallsInv
      <4> QED
        BY <3>2, <3>3, <4>1
    <3> QED
      BY <2>1, <3>1, <3>4 DEF CallsInv, ProblemsMirror, editorWorld
  <2>7. CASE TimerFires \/ StartupRefresh \/ RefreshCommand
    <3>1. RefreshAll
      BY <2>7 DEF TimerFires, StartupRefresh, RefreshCommand
    <3> QED
      BY <2>1, <3>1, RefreshStarts DEF CallsInv, ProblemsMirror, editorWorld
  <2>8. ASSUME NEW c \in DOMAIN refreshes, AnalysisEnds(c) PROVE CallsInv' /\ ProblemsMirror'
    <3>1. /\ UNCHANGED <<editorWorld, timer, startup, disposed>>
          /\ refreshes' \in Seq(Calls) /\ snapshots' \in [Roots -> Nat]
      BY <2>1, <2>8, AnalysisStep
    <3>2. CallsInv'
      BY <2>1, <3>1 DEF CallsInv, editorWorld
    <3>3. ShownRoot' = ShownRoot
      BY <3>1 DEF ShownRoot, editorWorld
    <3>4. CASE ~AllQuiet'
      BY <3>4, <3>2 DEF ProblemsMirror
    <3>5. CASE problems' = IF disposed THEN problems ELSE Mirrored(heap', snapshots', ShownRoot)
      BY <3>1, <3>2, <3>3, <3>5 DEF ProblemsMirror, Mirrored
    <3> QED
      BY <2>1, <2>8, <3>4, <3>5, AnalysisStep
  <2> QED
    BY <2>2, <2>3, <2>4, <2>5, <2>6, <2>7, <2>8 DEF EditorNext, EditorSteps
<1> QED
  BY <1>1, <1>2, PTL DEF EditorSpec

(* When nothing is under way, the problems are those of the scan the folder of
   the active editor is shown with. *)
THEOREM ProblemsAreThoseShown == EditorSpec => []ProblemsMirror
<1>1. EditorInv => ProblemsMirror
  BY DEF EditorInv
<1> QED
  BY <1>1, EditorInvHolds, PTL

=============================================================================
