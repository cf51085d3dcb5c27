---------------------------- MODULE EditorRefresh ----------------------------
(***************************************************************************)
(* The refresh service of the editor extension and the problems it shows,  *)
(* for one or more workspace folders (extensions/vscode, ackitWorkspace.ts *)
(* and extension.ts).  A refresh goes through the folders one by one and,  *)
(* for each, through six analyses whose results it puts, one after the     *)
(* other, into a snapshot object.  Refreshes overlap; all share one abort  *)
(* controller.  A result is represented by the version of the files it was *)
(* computed from; the text of an error is left out.                        *)
(***************************************************************************)
EXTENDS Integers, Sequences, FiniteSets

CONSTANTS
  Roots,       \* the folders, as numbers in the order the editor lists them
  MaxEvents,   \* bound on edits, changes of the folders and refresh commands
  MaxFailures  \* bound on analyses that throw

ASSUME EditorAssumption ==
  /\ Roots \subseteq Nat \ {0} /\ IsFiniteSet(Roots) /\ Roots # {}
  /\ MaxEvents \in Nat /\ MaxFailures \in Nat

VARIABLES
  version,    \* how often each folder's files were edited
  folders,    \* the workspace folders
  active,     \* the folder of the active editor
  timer,      \* the debounce timer is running
  startup,    \* the first refresh, of activate, is still to come
  refreshes,  \* the calls of refreshAll so far
  heap,       \* the snapshot objects each of them made
  snapshots,  \* the map of snapshots: who made each folder's object, or 0
  current,    \* whose abort controller is currentAbort, or 0
  problems,   \* what the diagnostic collection shows
  disposed,   \* the service was disposed
  events,     \* events so far
  failures,   \* analyses that threw so far
  newest,     \* history: who last began to refresh each folder
  lost        \* history: the folder's refresh was cut off or written over

editorWorld == <<version, folders, active>>
ghosts == <<newest, lost>>
editorVars == <<editorWorld, timer, startup, refreshes, heap, snapshots, current, problems,
                disposed, events, failures, ghosts>>

(* refreshRoot, in order; what throws when its signal is aborted, what catches
   whatever its own analysis throws, and behind what the signal is looked at. *)
Analyses == <<"scan", "graph", "readiness", "optimize", "diagnostics", "taskStatus">>
Cancellable == {"graph", "readiness", "optimize"}
Caught == {"readiness", "optimize", "diagnostics", "taskStatus"}
CheckedAfter == {"scan", "graph", "readiness", "diagnostics"}

Nothing == -1  \* null, or for the suggestions the empty list
EmptySnapshot == [a \in {Analyses[i] : i \in DOMAIN Analyses} |-> Nothing]

(* scanRepository races its scan against the abort: an aborted scan is over
   before the event loop turns to anything else. *)
Racing(c) == refreshes[c].at = 1 /\ refreshes[c].aborted
NoneRaces == \A c \in DOMAIN refreshes : ~Racing(c)

AllQuiet == ~timer /\ ~startup /\ \A c \in DOMAIN refreshes : refreshes[c].at = 0

First(roots) == CHOOSE r \in roots : \A q \in roots : r <= q

(* getRootForActiveEditor, getSnapshot. *)
ShownRoot == IF active \in folders THEN active ELSE First(folders)

(* refreshDiagnostics: the problems are those of the folder of the active
   editor, whichever folder was refreshed; nothing is cleared without a scan. *)
Mirrored(objects, published, root) ==
  IF published[root] = 0 \/ objects[published[root]][root].scan = Nothing THEN problems
  ELSE [root |-> root, scan |-> objects[published[root]][root].scan]

-----------------------------------------------------------------------------
(* refreshRoot up to its first await: the controller of whoever came before is
   aborted, whichever folder it is for, and the object of the folder is taken
   from the map or made.  No folder left: the call of refreshAll is over. *)
Reached(c, calls, roots) ==
  IF roots = {} THEN [calls EXCEPT ![c].at = 0]
  ELSE LET r == First(roots)
       IN  [i \in DOMAIN calls |->
              IF i = c
              THEN [at |-> 1, root |-> r, todo |-> roots \ {r}, since |-> version[r], aborted |-> FALSE,
                    object |-> IF snapshots[r] = 0 THEN c ELSE snapshots[r]]
              ELSE [calls[i] EXCEPT !.aborted = @ \/ i = current]]

(* Seeded fault of GoOn: who is busy is left alone and the folder is skipped. *)
GoOnUnlessBusy(c, calls, roots, spoiled) ==
  LET busy == current \notin {0, c} /\ calls[current].at # 0
      begun == IF busy \/ roots = {} THEN {} ELSE {First(roots)}
  IN  /\ refreshes' = IF busy THEN [calls EXCEPT ![c].at = 0] ELSE Reached(c, calls, roots)
      /\ current' = IF begun = {} THEN current ELSE c
      /\ newest' = [r \in Roots |-> IF r \in begun THEN c ELSE newest[r]]
      /\ lost' = [r \in Roots |-> r \notin begun /\ (lost[r] \/ r \in spoiled)]

(* The loop of refreshAll goes on with these folders.  A folder counts as lost
   when the refresh of another one aborts its own, until it is begun again. *)
GoOn(c, calls, roots, spoiled) ==
  LET begun == IF roots = {} THEN {} ELSE {First(roots)}
      cutOff == IF current \notin {0, c} /\ calls[current].at # 0 /\ roots # {}
                THEN {calls[current].root} ELSE {}
  IN  /\ refreshes' = Reached(c, calls, roots)
      /\ current' = IF roots = {} THEN current ELSE c
      /\ newest' = [r \in Roots |-> IF r \in begun THEN c ELSE newest[r]]
      /\ lost' = [r \in Roots |-> r \notin begun /\ (lost[r] \/ r \in spoiled \cup cutOff)]

NoCall == [at |-> 0, root |-> 0, todo |-> {}, since |-> 0, aborted |-> FALSE, object |-> 0]

(* refreshAll: the folders are listed once, when it starts. *)
RefreshAll ==
  /\ heap' = Append(heap, [r \in Roots |-> EmptySnapshot])
  /\ GoOn(Len(refreshes) + 1, Append(refreshes, NoCall), folders, {})
  /\ UNCHANGED <<editorWorld, snapshots, problems, disposed, failures>>

-----------------------------------------------------------------------------
(* What people do: each edit and change of folders restarts the timer. *)
Event == NoneRaces /\ events < MaxEvents /\ ~disposed /\ events' = events + 1

Edit(r) ==
  /\ Event
  /\ version' = [version EXCEPT ![r] = @ + 1]
  /\ timer' = IF r \in folders THEN TRUE ELSE timer
  /\ UNCHANGED <<folders, active, startup, refreshes, heap, snapshots, current, problems, disposed,
                 failures, ghosts>>

ChangeFolders ==
  /\ Event
  /\ \E fs \in (SUBSET Roots) \ {{}, folders} : folders' = fs
  /\ timer' = TRUE
  /\ UNCHANGED <<version, active, startup, refreshes, heap, snapshots, current, problems, disposed,
                 failures, ghosts>>

Focus(r) ==
  /\ NoneRaces /\ ~disposed
  /\ r \in folders \ {active}
  /\ active' = r
  /\ problems' = Mirrored(heap, snapshots, r)
  /\ UNCHANGED <<version, folders, timer, startup, refreshes, heap, snapshots, current, disposed,
                 events, failures, ghosts>>

(* Neither the loop of a call of refreshAll nor the first refresh is stopped. *)
Dispose ==
  /\ NoneRaces /\ ~disposed
  /\ disposed' = TRUE
  /\ timer' = FALSE
  /\ refreshes' = [i \in DOMAIN refreshes |-> [refreshes[i] EXCEPT !.aborted = @ \/ i = current]]
  /\ UNCHANGED <<editorWorld, startup, heap, snapshots, current, problems, events, failures, ghosts>>

TimerFires ==
  /\ NoneRaces /\ timer
  /\ timer' = FALSE
  /\ RefreshAll
  /\ UNCHANGED <<startup, events>>

StartupRefresh ==
  /\ NoneRaces /\ startup
  /\ startup' = FALSE
  /\ RefreshAll
  /\ UNCHANGED <<timer, events>>

RefreshCommand ==
  /\ Event
  /\ RefreshAll
  /\ UNCHANGED <<timer, startup>>

-----------------------------------------------------------------------------
(* The end of an analysis.  Its result is as old as its beginning; an analysis
   whose signal is aborted may throw or have its result already. *)
Outcomes(call) ==
  IF call.at = 1 /\ call.aborted THEN {"aborted"}
  ELSE {"done"} \cup {o \in {"aborted"} : call.aborted /\ Analyses[call.at] \in Cancellable}
                \cup {o \in {"threw"} : failures < MaxFailures}

(* Seeded fault of Publish: whoever listens is told first. *)
PublishLate(c, objects, spoiled) ==
  LET call == refreshes[c]
  IN  /\ problems' = IF disposed THEN problems ELSE Mirrored(objects, snapshots, ShownRoot)
      /\ snapshots' = [snapshots EXCEPT ![call.root] = call.object]
      /\ GoOn(c, refreshes, call.todo, spoiled)

(* The finally of refreshRoot, of aborted refreshes too: the object enters the
   map, whoever listens is told, and refreshAll goes on. *)
Publish(c, objects, spoiled) ==
  LET call == refreshes[c]
  IN  /\ snapshots' = [snapshots EXCEPT ![call.root] = call.object]
      /\ problems' = IF disposed THEN problems ELSE Mirrored(objects, snapshots', ShownRoot)
      /\ GoOn(c, refreshes, call.todo, spoiled)

(* The next analysis begins, on the files as they are. *)
MovedOn(call) == [call EXCEPT !.at = @ + 1, !.since = version[call.root]]

AnalysisEnds(c) ==
  LET call == refreshes[c]
      a == Analyses[call.at]
  IN  /\ call.at # 0
      /\ NoneRaces \/ Racing(c)
      /\ \E outcome \in Outcomes(call) :
           LET kept == outcome # "done" /\ a \notin Caught
               over == kept \/ call.at = Len(Analyses) \/ (call.aborted /\ a \in CheckedAfter)
               late == newest[call.root] # c /\ (~kept \/ snapshots[call.root] \notin {0, call.object})
               spoiled == IF late \/ outcome = "threw" THEN {call.root} ELSE {}
           IN  /\ failures' = failures + (IF outcome = "threw" THEN 1 ELSE 0)
               /\ heap' = IF kept THEN heap
                          ELSE [heap EXCEPT ![call.object][call.root][a] =
                                  IF outcome = "done" THEN call.since ELSE Nothing]
               /\ \/ over /\ Publish(c, heap', spoiled)
                  \/ /\ ~over
                     /\ refreshes' = [refreshes EXCEPT ![c] = MovedOn(@)]
                     /\ lost' = [r \in Roots |-> lost[r] \/ r \in spoiled]
                     /\ UNCHANGED <<snapshots, problems, current, newest>>
  /\ UNCHANGED <<editorWorld, timer, startup, disposed, events>>

-----------------------------------------------------------------------------
EditorRest ==
  /\ version = [r \in Roots |-> 0]
  /\ folders \in (SUBSET Roots) \ {{}} /\ active \in folders
  /\ timer = FALSE
  /\ refreshes = <<>> /\ heap = <<>> /\ snapshots = [r \in Roots |-> 0] /\ current = 0
  /\ problems = [root |-> 0, scan |-> Nothing]
  /\ events = 0 /\ failures = 0
  /\ newest = [r \in Roots |-> 0] /\ lost = [r \in Roots |-> FALSE]

(* activate: the first refresh waits for the startup to be over. *)
EditorInit == EditorRest /\ startup = TRUE /\ disposed = FALSE

EditorSteps == TimerFires \/ StartupRefresh \/ \E c \in DOMAIN refreshes : AnalysisEnds(c)

EditorNext ==
  \/ \E r \in Roots : Edit(r) \/ Focus(r)
  \/ ChangeFolders \/ Dispose \/ RefreshCommand
  \/ EditorSteps

(* The timers fire and the analyses end: the event loop of the extension host.
   One edit causes finitely many such steps, so none can put off another. *)
EditorFairness == WF_editorVars(EditorSteps)

EditorSpec == EditorInit /\ [][EditorNext]_editorVars /\ EditorFairness

-----------------------------------------------------------------------------
Current(r) ==
  snapshots[r] # 0 /\ \A a \in DOMAIN EmptySnapshot : heap[snapshots[r]][r][a] = version[r]

(* Once people stop editing, every folder comes to be shown as it is, unless
   its last refresh was cut off by that of another folder, written over by an
   older one or had an analysis throw (scheduleRefresh, refreshAll,
   refreshRoot). *)
EditorCatchesUp == <>[](disposed \/ \A r \in folders : lost[r] \/ Current(r))

(* When nothing is under way the problems are those of the scan the folder of
   the active editor is shown with, whichever refreshes were aborted, of
   whichever folder, and although nobody is told when a scan enters an object
   that is shown already (the finally of refreshRoot, refreshDiagnostics). *)
ProblemsMirror ==
  AllQuiet /\ ~disposed /\ snapshots[ShownRoot] # 0 /\ heap[snapshots[ShownRoot]][ShownRoot].scan # Nothing
    => problems = [root |-> ShownRoot, scan |-> heap[snapshots[ShownRoot]][ShownRoot].scan]

(* Violated: when nothing is under way every folder has been scanned, for the
   first refresh, and the one behind every change, goes through all of them. *)
EveryFolderScanned ==
  AllQuiet /\ ~disposed /\ failures = 0 =>
    \A r \in folders : snapshots[r] # 0 /\ heap[snapshots[r]][r].scan # Nothing
=============================================================================
