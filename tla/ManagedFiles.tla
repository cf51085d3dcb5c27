---------------------------- MODULE ManagedFiles ----------------------------
(***************************************************************************)
(* The commands that write files ACKit shares with people: init, sync,     *)
(* skills install, optimize --fix and the hook commands.  They plan the    *)
(* managed blocks of the instruction files (ManagedBlocks), write them one *)
(* by one, and install the builtin skills (core/skills/install.ts), whose  *)
(* owner is told by a lock file.  People edit the same files in between,   *)
(* and a command may end anywhere.  An edit between the plan and the write *)
(* of instruction files is left out: it is overwritten.                    *)
(*                                                                         *)
(* A skill directory holds SKILL.md and other files: of a builtin version, *)
(* edited, or missing.                                                     *)
(***************************************************************************)
EXTENDS ManagedBlocks

CONSTANTS
  Surfaces,    \* the providers with an instruction file, in order
  Skills,      \* the builtin skills, in order
  Pieces,      \* texts and marks people put into files
  MaxMarks,    \* bound of the model: pieces of a file people edit
  MaxPieces,   \* bound of the model: pieces of the hook, which uninstall may double
  MaxVersion   \* bound of the model: versions of a builtin skill

Providers == ToSet(Surfaces)
SkillNames == ToSet(Skills)

(* What may stand in a file: marks and texts. *)
Owners == {x.of : x \in Pieces} \cup Providers \cup {"hook", "shebang"}
Written == UNION {{Start(owner), End(owner), Words(owner)} : owner \in Owners}

ASSUME ManagedAssumption ==
  /\ Pieces \subseteq Written
  /\ Surfaces \in Seq(ToSet(Surfaces)) /\ Skills \in Seq(ToSet(Skills))
  /\ IsInjective(Surfaces) /\ IsInjective(Skills) /\ "hook" \notin ToSet(Surfaces)
  /\ MaxVersion \in Nat \ {0} /\ MaxMarks \in Nat /\ MaxPieces \in Nat

VARIABLES
  docs,      \* the instruction file of each provider, and the hook
  skill,     \* the directory of each skill: main (SKILL.md) and rest
  lock,      \* what each skill was last written from, by skills.lock.json
  package,   \* the version of each builtin skill
  run,       \* the running command
  left,      \* history: each file as people left it
  edited,    \* history: skills people touched
  cut,       \* history: a command ended in the middle
  settled    \* history: "yes" from the end of a sync until the next change

managedVars == <<docs, skill, lock, package, run, left, edited, cut, settled>>

Version(v) == <<"version", v>>
Mine == <<"mine">>
Missing == <<"missing">>
NoSkill == [main |-> Missing, rest |-> Missing]
Unlocked == [s \in {} |-> Missing]

Idle == [pc |-> "idle", force |-> FALSE, plans |-> <<>>, next |-> 1, lock |-> Unlocked, dirty |-> FALSE]

-----------------------------------------------------------------------------
SourceOf(s) == Version(package[s])

(* The decision of installSkills for one skill. *)
Decide(s, known, force) ==
  CASE skill[s].main = Missing -> "installed"
    [] skill[s].main = SourceOf(s) -> "up-to-date"
    [] skill[s].main \notin {Missing, SourceOf(s)} /\ s \notin DOMAIN known -> "refused-third-party"
    [] OTHER -> IF skill[s].main # known[s] /\ ~force THEN "conflict-user-modified" ELSE "updated"

(* planSkillsReadOnly and instructionRow, for dry runs and checks. *)
PreviewSkill(s) ==
  CASE skill[s].main = Missing -> "would-create"
    [] skill[s].main = SourceOf(s) -> "up-to-date"
    [] skill[s].main \notin {Missing, SourceOf(s)} /\ s \notin DOMAIN lock -> "refused-third-party"
    [] OTHER -> IF skill[s].main # lock[s] THEN "conflict-user-modified" ELSE "would-update-managed"

PreviewSurface(p) ==
  LET row == PlanSurface(docs[p], p).row IN
  CASE row = "created" -> "would-create"
    [] row = "unchanged" -> "up-to-date"
    [] row = "refused-non-managed" -> row
    [] OTHER -> "would-update-managed"

Preview == {PreviewSurface(p) : p \in Providers} \cup {PreviewSkill(s) : s \in SkillNames}
Pending == {"would-create", "would-update-managed"}

-----------------------------------------------------------------------------
(* init and sync write instruction files and skills, skills install only these. *)
Begin ==
  /\ run.pc = "idle"
  /\ \E command \in {"sync", "install"}, force \in BOOLEAN :
       /\ run' = [Idle EXCEPT !.pc = IF command = "install" THEN "lock" ELSE "plan", !.force = force]
       /\ settled' = IF command = "sync" THEN "running" ELSE "no"
  /\ UNCHANGED <<docs, skill, lock, package, left, edited, cut>>

(* All instruction files are read before one is written. *)
PlanSurfaces ==
  /\ run.pc = "plan"
  /\ run' = [run EXCEPT !.pc = "write",
                        !.plans = [i \in DOMAIN Surfaces |-> PlanSurface(docs[Surfaces[i]], Surfaces[i])]]
  /\ UNCHANGED <<docs, skill, lock, package, left, edited, cut, settled>>

(* Seeded fault of ToWrite: only new files are written. *)
NewFile(plan) == plan.action = "created"

ToWrite(plan) == plan.action # "unchanged"

WriteSurface ==
  /\ run.pc = "write" /\ run.next \in DOMAIN Surfaces
  /\ LET plan == run.plans[run.next] IN
     docs' = IF ToWrite(plan) THEN [docs EXCEPT ![Surfaces[run.next]] = plan.output] ELSE docs
  /\ run' = [run EXCEPT !.next = @ + 1]
  /\ UNCHANGED <<skill, lock, package, left, edited, cut, settled>>

SurfacesWritten ==
  /\ run.pc = "write" /\ run.next \notin DOMAIN Surfaces
  /\ run' = [run EXCEPT !.pc = "lock", !.plans = <<>>]
  /\ UNCHANGED <<docs, skill, lock, package, left, edited, cut, settled>>

ReadLock ==
  /\ run.pc = "lock"
  /\ run' = [run EXCEPT !.pc = "skills", !.next = 1, !.lock = lock]
  /\ UNCHANGED <<docs, skill, lock, package, left, edited, cut, settled>>

Locked(known, s) ==
  [t \in DOMAIN known \cup {s} |-> IF t = s THEN SourceOf(s) ELSE known[t]]

(* Seeded fault of Upsert: no entry is made once the lock is dirty (lockDirty
   || upsertLockEntry(...)). *)
UpsertUnlessDirty(r, s) ==
  IF r.dirty THEN r
  ELSE [r EXCEPT !.lock = Locked(r.lock, s),
                 !.dirty = s \notin DOMAIN r.lock \/ r.lock[s] # SourceOf(s)]

(* upsertLockEntry, after a skill was written or found to be current. *)
Upsert(r, s) ==
  [r EXCEPT !.lock = Locked(r.lock, s),
            !.dirty = @ \/ s \notin DOMAIN r.lock \/ r.lock[s] # SourceOf(s)]

NextSkill(r) == [r EXCEPT !.pc = "skills", !.next = @ + 1]

Look ==
  /\ run.pc = "skills" /\ run.next \in DOMAIN Skills
  /\ LET s == Skills[run.next]
         decision == Decide(s, run.lock, run.force)
     IN  run' = CASE decision = "installed" -> [run EXCEPT !.pc = "copy"]
                  [] decision = "updated" -> [run EXCEPT !.pc = "remove"]
                  [] decision = "up-to-date" -> NextSkill(Upsert(run, s))
                  [] OTHER -> NextSkill(run)
  /\ UNCHANGED <<docs, skill, lock, package, left, edited, cut, settled>>

RemoveOld ==
  /\ run.pc = "remove"
  /\ skill' = [skill EXCEPT ![Skills[run.next]] = NoSkill]
  /\ run' = [run EXCEPT !.pc = "copy"]
  /\ UNCHANGED <<docs, lock, package, left, edited, cut, settled>>

Copy ==
  /\ run.pc = "copy"
  /\ LET s == Skills[run.next] IN
     /\ skill' = [skill EXCEPT ![s] = [main |-> SourceOf(s), rest |-> SourceOf(s)]]
     /\ run' = NextSkill(Upsert(run, s))
  /\ UNCHANGED <<docs, lock, package, left, edited, cut, settled>>

(* The lock is written once, after all skills. *)
WriteLock ==
  /\ run.pc = "skills" /\ run.next \notin DOMAIN Skills
  /\ lock' = IF run.dirty THEN run.lock ELSE lock
  /\ settled' = IF settled = "running" THEN "yes" ELSE "no"
  /\ run' = Idle
  /\ UNCHANGED <<docs, skill, package, left, edited, cut>>

(* A command ends in the middle: an error, a signal, a crash.  A copy may have
   come as far as some of the files. *)
Die ==
  /\ run.pc # "idle"
  /\ run' = Idle /\ cut' = TRUE /\ settled' = "no"
  /\ \/ UNCHANGED skill
     \/ /\ run.pc = "copy"
        /\ \E part \in {"main", "rest"} :
             skill' = [skill EXCEPT ![Skills[run.next]][part] = SourceOf(Skills[run.next])]
  /\ UNCHANGED <<docs, lock, package, left, edited>>

(* optimize --fix refreshes the files whose block is stale. *)
Fix(p) ==
  /\ run.pc = "idle" /\ Stale(docs[p], p)
  /\ docs' = [docs EXCEPT ![p] = ApplyFix(@)]
  /\ settled' = "no"
  /\ UNCHANGED <<skill, lock, package, run, left, edited, cut>>

HookCommand ==
  /\ docs' \in {[docs EXCEPT !["hook"] = doc] :
                  doc \in {d \in {InstallHook(docs["hook"])} \cup UninstallHook(docs["hook"]) :
                             Len(d) <= MaxPieces}}
  /\ UNCHANGED <<skill, lock, package, run, left, edited, cut, settled>>

-----------------------------------------------------------------------------
(* What people do: one piece more or less in a file, a skill edited, a part of
   it removed, the package upgraded. *)
Changed(doc) ==
  {RemoveAt(doc, i) : i \in DOMAIN doc}
  \cup {InsertAt(doc, i, x) : i \in IF Len(doc) < MaxMarks THEN 1 .. Len(doc) + 1 ELSE {}, x \in Pieces}

Edit(p) ==
  /\ run.pc # "write" /\ Len(docs[p]) <= MaxMarks
  /\ \E doc \in Changed(docs[p]) :
       docs' = [docs EXCEPT ![p] = doc] /\ left' = [left EXCEPT ![p] = doc]
  /\ settled' = "no"
  /\ UNCHANGED <<skill, lock, package, run, edited, cut>>

EditSkill(s) ==
  /\ \E part \in {"main", "rest"}, what \in {Mine, Missing} : skill' = [skill EXCEPT ![s][part] = what]
  /\ edited' = edited \cup {s} /\ settled' = "no"
  /\ UNCHANGED <<docs, lock, package, run, left, cut>>

Upgrade(s) ==
  /\ run.pc = "idle" /\ package[s] < MaxVersion
  /\ package' = [package EXCEPT ![s] = @ + 1] /\ settled' = "no"
  /\ UNCHANGED <<docs, skill, lock, run, left, edited, cut>>

CommandStep ==
  \/ Begin \/ PlanSurfaces \/ WriteSurface \/ SurfacesWritten
  \/ ReadLock \/ Look \/ RemoveOld \/ Copy \/ WriteLock \/ Die

(* Some of the skills are installed as the package has them. *)
ManagedInit ==
  /\ docs \in [Providers \cup {"hook"} -> Seq(Written)] /\ left = docs
  /\ package \in [SkillNames -> 1 .. MaxVersion]
  /\ \E installed \in SUBSET SkillNames :
       /\ lock = [s \in installed |-> SourceOf(s)]
       /\ skill = [s \in SkillNames |->
                    IF s \in installed THEN [main |-> SourceOf(s), rest |-> SourceOf(s)] ELSE NoSkill]
  /\ run = Idle /\ edited = {} /\ cut = FALSE /\ settled = "no"

ManagedNext ==
  \/ CommandStep \/ HookCommand
  \/ \E p \in Providers : Fix(p)
  \/ \E p \in DOMAIN docs : Edit(p)
  \/ \E s \in SkillNames : EditSkill(s) \/ Upgrade(s)

ManagedSpec == ManagedInit /\ [][ManagedNext]_managedVars

-----------------------------------------------------------------------------
(* In a file people left with its marks in pairs, the marks stay in pairs and
   the text outside the blocks stays as they left it, whatever init, sync,
   fixes and hook commands follow (ensureManagedBlock, installHook,
   uninstallHook). *)
TextOutsideBlocksKept ==
  \A p \in DOMAIN docs : Tidy(left[p]) =>
    Tidy(docs[p]) /\ Authored(docs[p]) = Authored(left[p])

(* Violated: text that is in no complete block survives every command (the
   comment of ensureManagedBlock). *)
UserTextKept == \A p \in Providers : Free(left[p]) \subseteq ToSet(docs[p])

(* After a sync that reached its end, a check has nothing left to do, for files
   with their marks in pairs: what planSkillsReadOnly and the planning of
   instruction files announce is what the sync has done. *)
SyncSettles ==
  settled = "yes" /\ (\A p \in Providers : Tidy(docs[p])) => Preview \cap Pending = {}

(* As long as no command ended in the middle, a skill nobody touched is never
   taken for an edited one or for one of somebody else, across upgrades
   (installSkills and the one write of its lock). *)
NoFalseConflict ==
  run.pc = "idle" /\ ~cut =>
    \A s \in SkillNames \ edited :
      PreviewSkill(s) \notin {"conflict-user-modified", "refused-third-party"}

=============================================================================
