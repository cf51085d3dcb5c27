--------------------------- MODULE TaskDirectory ---------------------------
(***************************************************************************)
(* The task documents under docs/tasks/active and docs/tasks/archive       *)
(* (core/tasks/store.ts): the numbering of new tasks, start, complete and  *)
(* archive, one file operation at a time, by the processes of LocalStores  *)
(* that overlap and are killed.                                            *)
(*                                                                         *)
(* A document is its file name, which says its id and its title, and what  *)
(* it holds is its status, or "torn" when it does not parse.  Whether the  *)
(* completion gate lets a task pass is TrustChain's matter: here it may.   *)
(***************************************************************************)
EXTENDS LocalStores

CONSTANTS
  Titles,      \* titles of tasks, as file names have them
  Ledgers,     \* the directories the commands may find: place -> file -> status
  LastTask,    \* the highest id the schema takes: 9999
  MaxCommands  \* bound of the model: commands

Documents == (1 .. LastTask) \X Titles

ASSUME TasksAssumption ==
  /\ LastTask \in Nat /\ MaxCommands \in Nat
  /\ \A ledger \in Ledgers :
       /\ DOMAIN ledger.active \subseteq Documents /\ DOMAIN ledger.archive \subseteq Documents
       /\ DOMAIN ledger.active \cap DOMAIN ledger.archive = {}
       /\ \A f \in DOMAIN ledger.archive : ledger.archive[f] = "completed"

VARIABLES
  active,   \* docs/tasks/active: file -> what it holds
  archive,  \* docs/tasks/archive
  writing,  \* the document each process has open for writing, where it is now
  begun     \* how many commands have begun: bounds the model

dirs == <<active, archive, writing, begun>>
taskVars == <<vars, dirs>>

-----------------------------------------------------------------------------
(* listDir skips what does not parse. *)
Parsed(dir) == {f \in DOMAIN dir : dir[f] # "torn"}

IdOf(file) == file[1]

(* Seeded fault of Listed: the archive is left out. *)
ListedActive == Parsed(active)

Listed == Parsed(active) \cup Parsed(archive)

(* nextId: one more than the highest id among the listed documents. *)
NextTask == Greatest({IdOf(f) : f \in Listed}) + 1

With(dir, file, text) == [f \in DOMAIN dir \cup {file} |-> IF f = file THEN text ELSE dir[f]]

(* No document, open or looked at. *)
Closed == <<>>

Job(file, text, rest) == [file |-> file, text |-> text, rest |-> rest]

(* The first step of a command. *)
Begin(p, to, memory) ==
  /\ begun < MaxCommands
  /\ begun' = begun + 1
  /\ Step(p, "idle", to, memory)
  /\ Reads(p)
  /\ UNCHANGED <<active, archive, writing>>

Looks(p) == Reads(p) /\ UNCHANGED dirs

(* A write into the directories; raced remembers that one fell into the
   command of another process. *)
Writes(p) ==
  /\ Disturb(p)
  /\ raced' = (raced \/ disturbed' # {})
  /\ UNCHANGED <<stores, appends, begun>>

-----------------------------------------------------------------------------
(* create, start, complete, archive: what each reads before it writes. *)

(* An id of five digits is refused by the schema. *)
NumberTask(p) ==
  /\ NextTask <= LastTask
  /\ \E title \in Titles : Begin(p, "truncate task", Job(<<NextTask, title>>, "pending", {}))

BeginStart(p) ==
  \E f \in Parsed(active) :
    active[f] \in {"pending", "blocked"} /\ Begin(p, "look for others", Job(f, "active", {}))

(* Seeded fault of OthersActive: the documents of higher ids are not looked at. *)
OthersActiveBelow(file) ==
  {f \in Parsed(active) : IdOf(f) < IdOf(file) /\ active[f] = "active"}

OthersActive(file) == {f \in Parsed(active) : IdOf(f) # IdOf(file) /\ active[f] = "active"}

LookForOthers(p) ==
  /\ pc[p] = "look for others"
  /\ IF OthersActive(mem[p].file) = {}
     THEN Step(p, "look for others", "read task", mem[p])
     ELSE Step(p, "look for others", "idle", Nothing)
  /\ Looks(p)

BeginComplete(p) ==
  \E f \in Parsed(active) :
    active[f] = "active" /\ Begin(p, "read task", Job(f, "completed", {}))

BeginArchive(p) ==
  \E f \in Parsed(active) :
    active[f] = "completed" /\ Begin(p, "move", Job(f, "completed", {}))

-----------------------------------------------------------------------------
(* `task archive --completed`: the completed documents in the order of their
   ids, each looked up again before it is moved. *)

Onward(rest) == IF rest = {} THEN "idle" ELSE "next completed"

BeginArchiveAll(p) ==
  LET completed == {f \in Parsed(active) : active[f] = "completed"}
  IN  completed # {} /\ Begin(p, "next completed", Job(Closed, "completed", completed))

NextCompleted(p) ==
  /\ pc[p] = "next completed"
  /\ \E c \in mem[p].rest :
       LET found == {f \in Parsed(active) : IdOf(f) = IdOf(c)}
           rest == mem[p].rest \ {c}
       IN  /\ \A d \in mem[p].rest : IdOf(c) <= IdOf(d)
           /\ \/ \E f \in found :
                   IF active[f] = "completed"
                   THEN Step(p, "next completed", "move", Job(f, "completed", rest))
                   ELSE Step(p, "next completed", "idle", Nothing)
              \/ /\ found = {}
                 /\ IF \E f \in Parsed(archive) : IdOf(f) = IdOf(c)
                    THEN Step(p, "next completed", Onward(rest), Job(Closed, "completed", rest))
                    ELSE Step(p, "next completed", "idle", Nothing)
  /\ Looks(p)

(* rename: replaces a document of that name in the archive, and fails when the
   source is gone; who has a document open keeps it under its new name. *)
Move(p) ==
  LET file == mem[p].file
  IN  /\ pc[p] = "move"
      /\ IF file \in DOMAIN active
         THEN /\ Step(p, "move", Onward(mem[p].rest), mem[p])
              /\ active' = [f \in DOMAIN active \ {file} |-> active[f]]
              /\ archive' = With(archive, file, active[file])
              /\ writing' = [q \in Procs |->
                   CASE writing[q] = <<"active", file>> -> <<"archive", file>>
                     [] writing[q] = <<"archive", file>> -> Closed
                     [] OTHER -> writing[q]]
              /\ Writes(p)
         ELSE Step(p, "move", "idle", Nothing) /\ Looks(p)

-----------------------------------------------------------------------------
(* writeStatus reads the document again and writes back what it read, with
   the new status where it finds one; create writes a whole document. *)

ReadTask(p) ==
  LET file == mem[p].file
  IN  /\ pc[p] = "read task"
      /\ IF file \in DOMAIN active
         THEN Step(p, "read task", "truncate task",
                   Job(file, IF active[file] = "torn" THEN "torn" ELSE mem[p].text, {}))
         ELSE Step(p, "read task", "idle", Nothing)
      /\ Looks(p)

TruncateTask(p) ==
  /\ Step(p, "truncate task", "fill task", mem[p])
  /\ active' = With(active, mem[p].file, "torn")
  /\ writing' = [writing EXCEPT ![p] = <<"active", mem[p].file>>]
  /\ UNCHANGED archive
  /\ Writes(p)

WriteOut(p) ==
  LET file == mem[p].file text == mem[p].text
  IN  \/ /\ text # "torn" /\ writing[p] = <<"active", file>>
         /\ active' = With(active, file, text) /\ UNCHANGED archive
      \/ /\ text # "torn" /\ writing[p] = <<"archive", file>>
         /\ archive' = With(archive, file, text) /\ UNCHANGED active
      \/ /\ text = "torn" \/ writing[p] \notin {<<"active", file>>, <<"archive", file>>}
         /\ UNCHANGED <<active, archive>>

FillTask(p) ==
  /\ pc[p] = "fill task"
  /\ Step(p, "fill task", "idle", Nothing)
  /\ WriteOut(p)
  /\ writing' = [writing EXCEPT ![p] = Closed]
  /\ Writes(p)

TaskPoints ==
  {"look for others", "read task", "truncate task", "fill task", "next completed", "move"}

(* A process is killed: what it was writing is whole or does not parse. *)
Kill(p) ==
  /\ pc[p] \in TaskPoints
  /\ Step(p, pc[p], "idle", Nothing)
  /\ writing' = [writing EXCEPT ![p] = Closed]
  /\ \/ pc[p] = "fill task" /\ WriteOut(p) /\ Writes(p)
     \/ UNCHANGED <<active, archive, begun>> /\ Reads(p)

TaskInit ==
  /\ Init
  /\ \E ledger \in Ledgers : active = ledger.active /\ archive = ledger.archive
  /\ writing = [p \in Procs |-> Closed]
  /\ begun = 0

TaskStep(p) ==
  \/ NumberTask(p)
  \/ BeginStart(p) \/ LookForOthers(p)
  \/ BeginComplete(p)
  \/ BeginArchive(p) \/ BeginArchiveAll(p) \/ NextCompleted(p) \/ Move(p)
  \/ ReadTask(p) \/ TruncateTask(p) \/ FillTask(p)
  \/ Kill(p)

TaskNext == \E p \in Procs : TaskStep(p)

TaskSpec == TaskInit /\ [][TaskNext]_taskVars

-----------------------------------------------------------------------------
(* A task created by a command nobody wrote into gets an id no readable
   document has, archived or not (nextId, create). *)
AloneIsNewTask ==
  [][\A p \in Procs :
       TruncateTask(p) /\ mem[p].text = "pending" /\ p \notin disturbed =>
         \A f \in Parsed(active) \cup Parsed(archive) : IdOf(f) # IdOf(mem[p].file)]_taskVars

(* After a start nobody wrote into, no other task is active, whatever commands
   overlapped or were killed before (start, writeStatus). *)
AloneStartsOne ==
  [][\A p \in Procs :
       FillTask(p) /\ mem[p].text = "active" /\ p \notin disturbed =>
         \A f \in Parsed(active') : active'[f] = "active" => IdOf(f) = IdOf(mem[p].file)]_taskVars

(* Nothing is moved over an archived document as long as no write fell into
   another command, wherever commands were killed (archive, archiveCompleted,
   nextId). *)
ArchiveKept ==
  [][\A p \in Procs : Move(p) /\ ~raced => mem[p].file \notin DOMAIN archive]_taskVars

(* Violated, by a create that is killed or by two that overlap: no two
   documents have one id (docs/tasks, TASK-0281, on nextId). *)
OneDocumentPerId ==
  \A f, g \in DOMAIN active \cup DOMAIN archive : IdOf(f) = IdOf(g) => f = g

=============================================================================
