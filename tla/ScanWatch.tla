------------------------------ MODULE ScanWatch ------------------------------
(***************************************************************************)
(* Scans of a repository whose files and policy people edit meanwhile: one *)
(* `ackit scan` after another, writing a baseline, gating on it or         *)
(* watching (cli/commands/scan.ts, core/watch/watch.ts), over one cache on *)
(* disk, with interrupts and kills.  A scan reads its policy, lists its    *)
(* files and then evaluates them in batches (core/scanner/pipeline.ts).    *)
(* Findings of rule packs, which are added to the result and never cached, *)
(* are left out.                                                           *)
(***************************************************************************)
EXTENDS ScanPipeline

CONSTANTS
  ContentsOf,  \* the contents each path may get
  BatchSize,   \* files evaluated between two looks at the abort signal
  MaxEdits,    \* bound on edits
  MaxLosses    \* bound on killed processes and cleaned caches

ASSUME WatchAssumption ==
  /\ ContentsOf \in [Paths -> SUBSET Contents]
  /\ BatchSize \in Nat \ {0} /\ MaxEdits \in Nat /\ MaxLosses \in Nat

None == [file |-> "absent"]
NoBaseline == [held |-> FALSE, fingerprints |-> {}]

VARIABLES
  files,     \* what each path holds, or None
  stamps,    \* the edit that wrote each path that holds a file, and the policy
  policy,    \* what ackit.yml and the policy files say
  edits,     \* number of edits so far
  cache,     \* the cache files, by key
  baseline,  \* the baseline file, if one was written
  accepted,  \* fingerprints of unsuppressed findings when it was written
  held,      \* history: the contents each path has held
  session,   \* the command that runs
  scan,      \* its scan
  watch,     \* its watcher
  result,    \* the findings a watching session has in memory
  code,      \* the exit code of the last command
  losses     \* processes killed and caches cleaned so far

repoVars == <<files, stamps, policy, edits, held>>
baseVars == <<baseline, accepted>>
vars == <<repoVars, cache, baseVars, session, scan, watch, result, code, losses>>

Present == {p \in Paths : files[p] # None}

Idle == [state |-> "idle"]
Off == [state |-> "off", aborted |-> FALSE, blind |-> FALSE]

(* executeConfiguredScan reads the configuration and the policy first. *)
Begun == [state |-> "listing", policy |-> policy, todo |-> {}, left |-> 0, found |-> {},
          start |-> edits]

Entry(findings) == [torn |-> FALSE, findings |-> findings]
TornEntry == [torn |-> TRUE, findings |-> {}]

(* snapshot: the modification times of all files, those of the policy and of
   .ackit/cache as well, for the directories to ignore are not ignored. *)
Snapshot == [stamps |-> stamps, cache |-> cache]

(* Seeded fault of Changed: only the files of the new snapshot are compared. *)
ChangedPresent(before, after) ==
  \/ \E x \in DOMAIN after.stamps :
       x \in DOMAIN before.stamps => before.stamps[x] # after.stamps[x]
  \/ \E x \in DOMAIN after.cache : x \in DOMAIN before.cache => before.cache[x] # after.cache[x]

(* diff: files that are new, have another time, or are gone. *)
Changed(before, after) ==
  <<before.stamps, before.cache>> # <<after.stamps, after.cache>>

-----------------------------------------------------------------------------
(* The world: edits, `ackit cache clean`, kills. *)
Edited(stamp) ==
  /\ edits < MaxEdits
  /\ edits' = edits + 1
  /\ stamps' = stamp
  /\ UNCHANGED <<cache, baseVars, session, scan, watch, result, code, losses>>

Stamp(x) == [y \in {x} \cup DOMAIN stamps |-> IF y = x THEN edits + 1 ELSE stamps[y]]

WriteFile(p) ==
  /\ \E c \in ContentsOf[p] \ {files[p]} :
       files' = [files EXCEPT ![p] = c] /\ held' = [held EXCEPT ![p] = @ \cup {c}]
  /\ Edited(Stamp(p))
  /\ UNCHANGED policy

RemoveFile(p) ==
  /\ files[p] # None
  /\ files' = [files EXCEPT ![p] = None]
  /\ Edited([y \in DOMAIN stamps \ {p} |-> stamps[y]])
  /\ UNCHANGED <<policy, held>>

PolicyPath == 0

WritePolicy ==
  /\ \E q \in ScanPolicies \ {policy} : policy' = q
  /\ Edited(Stamp(PolicyPath))
  /\ UNCHANGED <<files, held>>

CleanCache ==
  /\ losses < MaxLosses /\ cache # <<>>
  /\ losses' = losses + 1
  /\ cache' = <<>>
  /\ UNCHANGED <<repoVars, baseVars, session, scan, watch, result, code>>

(* The targets come in the order of their names. *)
NextTarget == CHOOSE p \in scan.todo : \A q \in scan.todo : p <= q

(* A process killed while it fills a cache file leaves one that does not parse. *)
Kill ==
  /\ losses < MaxLosses /\ session # "none"
  /\ losses' = losses + 1
  /\ session' = "none" /\ scan' = Idle /\ watch' = Off /\ result' = {} /\ code' = "killed"
  /\ \/ UNCHANGED cache
     \/ /\ scan.state = "batches" /\ scan.todo # {} /\ files[NextTarget] # None
        /\ LET key == CacheKey(files[NextTarget], scan.policy)
           IN  /\ key \notin DOMAIN cache
               /\ cache' = [k \in {key} \cup DOMAIN cache |-> IF k = key THEN TornEntry ELSE cache[k]]
  /\ UNCHANGED <<repoVars, baseVars>>

-----------------------------------------------------------------------------
(* runScanCommand: write a baseline, gate on the baseline there is, or watch. *)
Command(name) ==
  /\ session = "none"
  /\ session' = name
  /\ scan' = Begun
  /\ code' = "running"
  /\ UNCHANGED <<repoVars, cache, baseVars, watch, result, losses>>

(* collectScanTargets, and the look at the signal behind it. *)
ListTargets ==
  /\ scan.state = "listing"
  /\ scan' = [scan EXCEPT !.state = "batches",
                          !.todo = IF watch.aborted THEN {} ELSE Present]
  /\ UNCHANGED <<repoVars, cache, baseVars, session, watch, result, code, losses>>

(* evaluateTarget: the content is read now, which may be after an edit, or be
   gone; what the cache holds for it is taken, else it is evaluated and kept. *)
Findings(p) ==
  LET key == CacheKey(files[p], scan.policy)
  IN  IF key \in DOMAIN cache /\ ~cache[key].torn
      THEN cache[key].findings
      ELSE Evaluated(p, files[p], Plan(scan.policy))

ScanOver == scan.state = "batches" /\ (scan.todo = {} \/ (scan.left = 0 /\ watch.aborted))

EvaluateTarget ==
  /\ scan.state = "batches" /\ ~ScanOver
  /\ LET p == NextTarget
         key == CacheKey(files[p], scan.policy)
         found == IF files[p] = None THEN {} ELSE Findings(p)
     IN  /\ scan' = [scan EXCEPT !.todo = @ \ {p}, !.found = @ \cup found,
                                 !.left = IF @ = 0 THEN BatchSize - 1 ELSE @ - 1]
         /\ cache' = IF files[p] = None THEN cache
                     ELSE [k \in {key} \cup DOMAIN cache |-> IF k = key THEN Entry(found) ELSE cache[k]]
  /\ UNCHANGED <<repoVars, baseVars, session, watch, result, code, losses>>

Result == AppliedTo(scan.policy, scan.found)

FinishWrite ==
  /\ ScanOver /\ session = "write"
  /\ baseline' = [held |-> TRUE, fingerprints |-> BaselineOf(Result)]
  /\ accepted' = {Fingerprint(f) : f \in {x \in Result : ~x.suppressed}}
  /\ session' = "none" /\ scan' = Idle /\ code' = "ok"
  /\ UNCHANGED <<repoVars, cache, watch, result, losses>>

(* The readiness report, whose threshold may fail the command before the gate
   is asked, is computed from other documents. *)
FinishGate ==
  /\ ScanOver /\ session = "ci"
  /\ code' \in IF ~baseline.held THEN {"usage"}
               ELSE {"threshold"} \cup
                    {c \in {"ok"} : GatePasses(scan.policy, Result, baseline.fingerprints)}
  /\ session' = "none" /\ scan' = Idle
  /\ UNCHANGED <<repoVars, cache, baseVars, watch, result, losses>>

(* The first scan of a watching session: its findings are printed and the
   watcher starts. *)
FinishFirst ==
  /\ ScanOver /\ session = "watch" /\ watch.state = "off"
  /\ result' = Result
  /\ watch' = [state |-> "starting", aborted |-> FALSE, blind |-> FALSE, start |-> scan.start]
  /\ scan' = Idle
  /\ UNCHANGED <<repoVars, cache, baseVars, session, code, losses>>

(* A later scan replaces the findings in memory, which nobody prints. *)
FinishRerun ==
  /\ ScanOver /\ session = "watch" /\ watch.state # "off"
  /\ result' = Result
  /\ scan' = Idle
  /\ UNCHANGED <<repoVars, cache, baseVars, session, watch, code, losses>>

-----------------------------------------------------------------------------
(* startWatch.  `blind` remembers that a change may have been missed: one made
   between the first scan and the first snapshot, or reported while a rescan
   was running and therefore dropped. *)
FirstSnapshot ==
  /\ watch.state = "starting"
  /\ watch' = [state |-> "polling", aborted |-> watch.aborted, previous |-> Snapshot,
               blind |-> edits > watch.start]
  /\ UNCHANGED <<repoVars, cache, baseVars, session, scan, result, code, losses>>

Poll ==
  /\ watch.state = "polling" /\ ~watch.aborted
  /\ Changed(watch.previous, Snapshot)
  /\ watch' = [watch EXCEPT !.previous = Snapshot,
                            !.blind = @ \/ (scan # Idle /\ edits > scan.start)]
  /\ scan' = IF scan = Idle THEN Begun ELSE scan
  /\ UNCHANGED <<repoVars, cache, baseVars, session, result, code, losses>>

Interrupt ==
  /\ watch.state \in {"starting", "polling"} /\ ~watch.aborted
  /\ watch' = [watch EXCEPT !.aborted = TRUE]
  /\ UNCHANGED <<repoVars, cache, baseVars, session, scan, result, code, losses>>

(* Seeded fault of LoopEnds: the signal is looked at only when something
   has changed. *)
LoopEndsOnChange ==
  /\ watch.state = "polling" /\ watch.aborted
  /\ watch' = IF Changed(watch.previous, Snapshot) THEN [watch EXCEPT !.state = "ended"] ELSE watch
  /\ UNCHANGED <<repoVars, cache, baseVars, session, scan, result, code, losses>>

(* The loop looks at the signal at every turn. *)
LoopEnds ==
  /\ watch.state = "polling" /\ watch.aborted
  /\ watch' = [watch EXCEPT !.state = "ended"]
  /\ UNCHANGED <<repoVars, cache, baseVars, session, scan, result, code, losses>>

(* The process ends with its last pending work. *)
WatchEnds ==
  /\ watch.state = "ended" /\ scan = Idle
  /\ session' = "none" /\ watch' = Off /\ result' = {} /\ code' = "ok"
  /\ UNCHANGED <<repoVars, cache, baseVars, scan, losses>>

-----------------------------------------------------------------------------
Init ==
  /\ files \in [Paths -> {None} \cup UNION {ContentsOf[p] : p \in Paths}]
  /\ \A p \in Paths : files[p] \in {None} \cup ContentsOf[p]
  /\ policy \in ScanPolicies
  /\ held = [p \in Paths |-> {files[p]} \ {None}]
  /\ stamps = [x \in {PolicyPath} \cup {p \in Paths : files[p] # None} |-> 0]
  /\ edits = 0 /\ losses = 0
  /\ cache = <<>> /\ baseline = NoBaseline /\ accepted = {}
  /\ session = "none" /\ scan = Idle /\ watch = Off /\ result = {} /\ code = "none"

ScanSteps == ListTargets \/ EvaluateTarget \/ FinishWrite \/ FinishGate \/ FinishFirst \/ FinishRerun
WatchSteps == FirstSnapshot \/ Poll \/ LoopEnds \/ WatchEnds

Next ==
  \/ \E p \in Paths : WriteFile(p) \/ RemoveFile(p)
  \/ WritePolicy \/ CleanCache \/ Kill \/ Interrupt
  \/ \E name \in {"write", "ci", "watch"} : Command(name)
  \/ ScanSteps \/ WatchSteps

(* A running process gets on with its scan and its polling. *)
Fairness == WF_vars(ScanSteps) /\ WF_vars(WatchSteps)

Spec == Init /\ [][Next]_vars /\ Fairness

-----------------------------------------------------------------------------
(* The key of the cache has no path: for a file it may serve what the rules
   made of the same content at another path that holds or held it. *)
Holders(content) == {q \in Paths : content \in held[q]}

FoundAs(p, q) == AppliedTo(policy, Evaluated(q, files[p], Plan(policy)))

(* Findings that report every file, as itself or as a holder of its content,
   and nothing else. *)
Faithful(findings) ==
  /\ \A p \in Present : \E q \in Holders(files[p]) : FoundAs(p, q) \subseteq findings
  /\ \A f \in findings : \E p \in Present : \E q \in Holders(files[p]) : f \in FoundAs(p, q)

(* A finished scan during which nothing was edited finds what the rules and the
   policy there is now make of every file, at its own path or at one that has
   held the same content, and nothing else: of a content that was only ever at
   one path exactly what a scan without a cache finds, however the cache was
   filled, cleaned or torn before (evaluateTarget, computeCacheKey). *)
ServedFromHolders ==
  [][ScanOver /\ scan' = Idle /\ scan.start = edits /\ ~watch.aborted => Faithful(Result)]_vars

Accepted(f) ==
  f.suppressed \/ /\ ~(Rank(f.severity) >= Rank(Threshold(policy)))
                  /\ Fingerprint(f) \in baseline.fingerprints

(* A repository passes the gate only when every file passes: whatever is found
   in it, at its own path or else at one that has held the same content, is
   suppressed, or below the threshold and in the baseline; however the cache
   was filled, cleaned or torn before, as long as nothing was edited during the
   scan (evaluateTarget, the gate of scan). *)
GateIsSound ==
  [][FinishGate /\ scan.start = edits /\ code' = "ok" =>
       \A p \in Present : \E q \in Holders(files[p]) :
         \A f \in FoundAs(p, q) : Accepted(f)]_vars

(* A watching session to which no change got lost scans again until the result
   it has in memory is one of the repository as it is: every change is noticed
   by the poll and followed by a scan that sees it (startWatch, rerun). *)
CatchesUp ==
  []<>(session = "watch" /\ watch.state = "polling" /\ ~watch.blind => Faithful(result))

(* A watching session that is interrupted ends, with the scan it was running
   (the abort signal of startWatch and runScan). *)
InterruptEnds == watch.aborted ~> session = "none"

(* Violated: a watching session scans again after every change. *)
ResultsCatchUp ==
  []<>(session = "watch" /\ watch.state = "polling" => Faithful(result))

(* What a scan without a cache would find now. *)
Exact ==
  AppliedTo(policy, UNION {Evaluated(p, files[p], Plan(policy)) : p \in Present})

(* Violated where two files hold one content: a finished scan during which
   nothing was edited finds what a scan without a cache finds. *)
CacheIsTransparent ==
  [][ScanOver /\ scan' = Idle /\ scan.start = edits /\ ~watch.aborted => Result = Exact]_vars

(* Violated likewise: what passes the gate has nothing, at its own path, that is
   not accepted. *)
GateIsExact ==
  [][FinishGate /\ scan.start = edits /\ code' = "ok" => \A f \in Exact : Accepted(f)]_vars

(* Violated: what passes the gate was unsuppressed when the baseline was
   written, for suppressed findings enter neither side of the comparison. *)
BaselineHoldsAccepted ==
  [][FinishGate /\ code' = "ok" =>
       \A f \in Result : f.suppressed \/ Fingerprint(f) \in accepted]_vars

=============================================================================
