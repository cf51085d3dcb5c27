----------------------------- MODULE LocalStores -----------------------------
(***************************************************************************)
(* The two stores that number what they keep: the checkpoints of a task    *)
(* (core/checkpoint/store.ts) and the execution journal of the repository  *)
(* (core/journal/store.ts), under commands that overlap and are killed.    *)
(*                                                                         *)
(* A process runs `ackit checkpoint create`, which ends with a journal     *)
(* append, or any other command that appends to the journal.  A checkpoint *)
(* is its number: what it holds never decides a number.  A journal line is *)
(* its sequence number, for the same reason, or a fragment.  The numbering *)
(* of an event reads the three files in one step: it reads the active one  *)
(* first, and an append that gets between two of its reads has begun to    *)
(* write by then, so it counts as overlapping in either order.             *)
(***************************************************************************)
EXTENDS Naturals, Sequences, FiniteSets

CONSTANTS
  Procs,           \* processes that run commands
  RotateLines,     \* JOURNAL_ROTATE_LINES
  Starts,          \* the journals the commands may find: file name -> lines
  MaxCheckpoints,  \* bound of the model: checkpoints
  MaxAppends       \* bound of the model: journal appends

(* The journal's files: the active one, two rotations, and the name under
   which a rotation about to be dropped is kept. *)
Files == {"active", "one", "two", "spare"}

InFile(journals, file) == IF file \in DOMAIN journals THEN journals[file] ELSE <<>>

(* A line no reader takes for an event: what a killed or overlapping writer
   left of one. *)
Torn == 0

(* The lines of the journal, oldest first when appends have not raced. *)
Readable(journals) ==
  InFile(journals, "two") \o InFile(journals, "one") \o InFile(journals, "active")

(* The events among the lines are in the order of their numbers. *)
Increasing(s) ==
  \A i, j \in DOMAIN s : i < j /\ s[i] # Torn /\ s[j] # Torn => s[i] < s[j]

IsJournal(journals) ==
  DOMAIN journals \subseteq Files /\ journals \in [DOMAIN journals -> Seq(Nat)]

Bounded(journals) == \A f \in DOMAIN journals : Len(journals[f]) <= RotateLines

ASSUME StoresAssumption ==
  /\ RotateLines \in Nat \ {0}
  /\ MaxCheckpoints \in Nat /\ MaxAppends \in Nat
  /\ \A s \in Starts : IsJournal(s) /\ Bounded(s) /\ Increasing(Readable(s))

VARIABLES
  checkpoints,  \* the numbers of the checkpoint files
  journal,      \* the journal files that exist: name -> lines
  open,         \* the file each process has open for writing, where it is now
  pc,           \* where each process is in its command
  mem,          \* what each process will write
  appends,      \* how many appends have begun: bounds the model
  raced,        \* history: two appends have overlapped
  disturbed     \* history: processes into whose command others wrote

stores == <<checkpoints, journal, open>>
vars == <<stores, pc, mem, appends, raced, disturbed>>

-----------------------------------------------------------------------------
Lines(file) == InFile(journal, file)

History == Readable(journal)

InSeq(s) == {s[i] : i \in DOMAIN s}

Greatest(S) == CHOOSE m \in S \cup {0} : \A n \in S : n <= m

(* Seeded faults of NextCheckpoint: the highest number is taken as it is; the
   checkpoints are counted from zero. *)
HighestCheckpoint(found) == Greatest(found)

CheckpointFromZero(found) == Cardinality(found)

(* nextId: one more than the highest checkpoint found. *)
NextCheckpoint(found) == Greatest(found) + 1

(* Seeded fault of NextSeq: the readable events are counted. *)
SeqByCount == Len(History) + 1

(* nextSeq: one more than the highest sequence number read back; a fragment has
   none. *)
NextSeq == Greatest(InSeq(History)) + 1

Writing == {"append", "rotate2", "rotate1", "rotate0", "drop", "truncate", "fill"}

(* One step of a command. *)
Step(p, from, to, memory) ==
  /\ pc[p] = from
  /\ pc' = [pc EXCEPT ![p] = to]
  /\ mem' = [mem EXCEPT ![p] = memory]

Reads(p) ==
  /\ disturbed' = disturbed \ {q \in {p} : pc'[p] \in {"idle", "seq"}}
  /\ UNCHANGED <<stores, appends, raced>>

(* Whoever is in the middle of a command when p writes is disturbed. *)
Disturb(p) ==
  disturbed' = {q \in Procs : /\ pc'[q] \notin {"idle", "seq"}
                              /\ q \in disturbed \/ q # p}

Nothing == [none |-> TRUE]

-----------------------------------------------------------------------------
(* CheckpointStore.create: number, refused by the schema past the last, temporary file, rename. *)

NumberCheckpoint(p) ==
  /\ NextCheckpoint(checkpoints) <= MaxCheckpoints
  /\ Step(p, "idle", "rename", [id |-> NextCheckpoint(checkpoints)])
  /\ Reads(p)

(* rename replaces a checkpoint of that number, as POSIX has it. *)
RenameCheckpoint(p) ==
  /\ pc[p] = "rename"
  /\ checkpoints' = checkpoints \cup {mem[p].id}
  /\ Step(p, "rename", "seq", Nothing)
  /\ Disturb(p)
  /\ UNCHANGED <<journal, open, appends, raced>>

-----------------------------------------------------------------------------
(* JournalStore.append: number, read the active file, rotate it when it is
   full, rewrite it with one more line. *)

BeginAppend(p) == Step(p, "idle", "seq", Nothing) /\ Reads(p)

NumberEvent(p) ==
  /\ appends < MaxAppends
  /\ appends' = appends + 1
  /\ Step(p, "seq", "append", [seq |-> NextSeq, before |-> journal])
  /\ raced' = (raced \/ \E q \in Procs \ {p} : pc[q] \in Writing)
  /\ disturbed' = disturbed \ {p}
  /\ UNCHANGED stores

(* Seeded fault of Full: the line to be added is forgotten. *)
OverFull(lines) == Len(lines) > RotateLines

Full(lines) == Len(lines) >= RotateLines

ReadActive(p) ==
  /\ pc[p] = "append"
  /\ IF Full(Lines("active"))
     THEN Step(p, "append", "rotate2",
               [seq |-> mem[p].seq, before |-> mem[p].before,
                content |-> <<mem[p].seq>>])
     ELSE Step(p, "append", "truncate",
               [seq |-> mem[p].seq, before |-> mem[p].before,
                content |-> Append(Lines("active"), mem[p].seq)])
  /\ Reads(p)

(* rename, when there is a file of that name; a writer keeps the file it has
   open under its new name, and loses it when it is replaced. *)
Rename(from, to) ==
  IF from \in DOMAIN journal
  THEN /\ journal' = [f \in (DOMAIN journal \ {from}) \cup {to} |->
                        IF f = to THEN journal[from] ELSE journal[f]]
       /\ open' = [q \in Procs |-> IF open[q] = from THEN to
                                   ELSE IF open[q] = to THEN "none" ELSE open[q]]
  ELSE UNCHANGED <<journal, open>>

RotateStep(p, at, next, from, to) ==
  /\ Step(p, at, next, mem[p])
  /\ Rename(from, to)
  /\ Disturb(p)
  /\ UNCHANGED <<checkpoints, appends, raced>>

(* Seeded fault of RotateTwo: the active file moves first, over a rotation that
   was not moved yet. *)
RotateActiveFirst(p) == RotateStep(p, "rotate2", "rotate1", "active", "one")

RotateTwo(p) == RotateStep(p, "rotate2", "rotate1", "two", "spare")

RotateOne(p) == RotateStep(p, "rotate1", "rotate0", "one", "two")

RotateActive(p) == RotateStep(p, "rotate0", "drop", "active", "one")

DropSpare(p) ==
  /\ Step(p, "drop", "truncate", mem[p])
  /\ journal' = [f \in DOMAIN journal \ {"spare"} |-> journal[f]]
  /\ open' = [q \in Procs |-> IF open[q] = "spare" THEN "none" ELSE open[q]]
  /\ Disturb(p)
  /\ UNCHANGED <<checkpoints, appends, raced>>

WithFile(file, lines) ==
  [f \in DOMAIN journal \cup {file} |-> IF f = file THEN lines ELSE journal[f]]

TruncateActive(p) ==
  /\ Step(p, "truncate", "fill", mem[p])
  /\ journal' = WithFile("active", <<>>)
  /\ open' = [open EXCEPT ![p] = "active"]
  /\ Disturb(p)
  /\ UNCHANGED <<checkpoints, appends, raced>>

(* The first n lines of the content are written over what the file holds by
   now: lines of it that were not reached stay, and the one where the writing
   ended, or broke off, is a fragment. *)
WriteOver(file, content, n) ==
  LET now == Lines(file)
  IN  \E torn \in IF n = Len(content) /\ now = <<>> THEN {<<>>} ELSE {<<>>, <<Torn>>},
         k \in {i \in 1 .. Len(now) + 1 : n = 0 \/ now = <<>> \/ i > 1} :
        journal' = WithFile(file, SubSeq(content, 1, n) \o torn \o SubSeq(now, k, Len(now)))

FillActive(p) ==
  /\ Step(p, "fill", "idle", Nothing)
  /\ IF open[p] = "none"
     THEN UNCHANGED journal
     ELSE WriteOver(open[p], mem[p].content, Len(mem[p].content))
  /\ open' = [open EXCEPT ![p] = "none"]
  /\ Disturb(p)
  /\ UNCHANGED <<checkpoints, appends, raced>>

-----------------------------------------------------------------------------
(* A process is killed: a writer may have written part of its lines. *)
Crash(p) ==
  /\ pc[p] # "idle"
  /\ Step(p, pc[p], "idle", Nothing)
  /\ IF pc[p] = "fill" /\ open[p] # "none"
     THEN \E n \in 0 .. Len(mem[p].content) : WriteOver(open[p], mem[p].content, n)
     ELSE UNCHANGED journal
  /\ open' = [open EXCEPT ![p] = "none"]
  /\ Disturb(p)
  /\ UNCHANGED <<checkpoints, appends, raced>>

Init ==
  /\ checkpoints = {}
  /\ journal \in Starts
  /\ open = [p \in Procs |-> "none"]
  /\ pc = [p \in Procs |-> "idle"]
  /\ mem = [p \in Procs |-> Nothing]
  /\ appends = 0
  /\ raced = FALSE
  /\ disturbed = {}

Next ==
  \E p \in Procs :
    \/ NumberCheckpoint(p) \/ RenameCheckpoint(p)
    \/ BeginAppend(p) \/ NumberEvent(p) \/ ReadActive(p)
    \/ RotateTwo(p) \/ RotateOne(p) \/ RotateActive(p) \/ DropSpare(p)
    \/ TruncateActive(p) \/ FillActive(p)
    \/ Crash(p)

Spec == Init /\ [][Next]_vars

-----------------------------------------------------------------------------
TypeOK ==
  /\ checkpoints \subseteq 1 .. MaxCheckpoints
  /\ IsJournal(journal)
  /\ open \in [Procs -> Files \cup {"none"}]
  /\ pc \in [Procs -> {"idle", "rename", "seq"} \cup Writing]
  /\ appends \in 0 .. MaxAppends
  /\ raced \in BOOLEAN
  /\ disturbed \subseteq Procs

(* Checkpoint numbers have no gap, whatever overlaps and whoever is killed:
   the highest number counts the checkpoints, and latest() finds one as soon
   as one was created (nextId, write). *)
NoCheckpointGap == checkpoints = 1 .. Cardinality(checkpoints)

(* A checkpoint created by a command no other command wrote into gets a number
   of its own: it replaces no checkpoint (nextId, write). *)
AloneIsNew ==
  [][\A p \in Procs :
       RenameCheckpoint(p) /\ p \notin disturbed => mem[p].id \notin checkpoints]_vars

(* No journal file holds more lines than it is rotated at as long as no two
   appends have overlapped, wherever appends were killed (appendLine, rotate). *)
FilesBounded == ~raced => Bounded(journal)

(* Sequence numbers grow from each line to the next, across the rotations, as
   long as no two appends have overlapped, wherever appends were killed: what
   is left is in the order in which it happened (nextSeq, appendLine, rotate). *)
InOrder == ~raced => Increasing(History)

(* An append no other command wrote into adds its event behind all lines there
   were when it began, and loses none but those of the oldest rotation, and
   these only when the active file was full (appendLine, rotate). *)
AloneAppends ==
  [][\A p \in Procs :
       FillActive(p) /\ p \notin disturbed =>
         LET was(file) == InFile(mem[p].before, file)
         IN  \/ History' = Append(Readable(mem[p].before), mem[p].seq)
             \/ /\ Full(was("active"))
                /\ History' = Append(was("one") \o was("active"), mem[p].seq)]_vars

=============================================================================
