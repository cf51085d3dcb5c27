----------------------------- MODULE TaskDoctor -----------------------------
(***************************************************************************)
(* What `ackit task doctor` finds in the task documents                    *)
(* (TaskStore.doctor of core/tasks/store.ts); doctor, scan, readiness and   *)
(* the MCP server ask it too.  People edit the documents, those in the     *)
(* archive too.                                                            *)
(***************************************************************************)
EXTENDS ExtendsWalk

CONSTANTS
  TaskFiles,      \* the files of both directories: numbers, in file name order
  TaskDocuments   \* what each file may hold: [TaskFiles -> a set of contents]

NoDocument == [kind |-> "none"]
Torn == [kind |-> "torn"]

(* What the schema takes: id, place, status and the dependencies in order;
   finished says that the acceptance items are ticked and the completion
   notes real, refsExist that the documents it refers to are there. *)
IsTaskDocument(d) ==
  /\ d.kind = "task"
  /\ d.status \in {"pending", "active", "completed", "blocked"}

ASSUME DoctorAssumption ==
  /\ IsFiniteSet(TaskFiles) /\ TaskFiles \subseteq Nat
  /\ \A f \in TaskFiles : \A d \in TaskDocuments[f] :
       IsTaskDocument(d) => d.id \in Nat /\ d.needs \in Seq(Nat)

VARIABLE documents  \* what each file holds

-----------------------------------------------------------------------------
ListedFiles == {f \in TaskFiles : documents[f].kind = "task"}

IdIn(f) == documents[f].id

Earlier(f, g) == IdIn(f) < IdIn(g) \/ (IdIn(f) = IdIn(g) /\ f < g)

(* Documents by id; of several with one id the last one listed stays. *)
ById == [id \in {IdIn(f) : f \in ListedFiles} |->
           CHOOSE f \in ListedFiles : IdIn(f) = id /\ \A g \in ListedFiles : IdIn(g) = id => ~Earlier(f, g)]

Needs(id) == IF id \in DOMAIN ById THEN documents[ById[id]].needs ELSE <<>>

(* What the depth-first search follows: a task that is not listed needs nothing. *)
SearchGraph ==
  [extends |-> [id \in DOMAIN ById \cup UNION {ToSet(Needs(x)) : x \in DOMAIN ById} |-> Needs(id)],
   strict |-> TRUE]

(* The search goes on from each task in turn; a task met while it is still open
   (on the stack) closes a circle, which ends the search, and a task once
   closed (loaded) is passed over.  The order of the tasks is left open. *)
FindsCycle == Walk(SearchGraph, SetToSeq(DOMAIN ById)).problems # {}

UnparsableDocuments == \E f \in TaskFiles : documents[f].kind = "torn"

DocumentProblems(d) ==
  {p \in {"unknownDependency"} : \E id \in ToSet(d.needs) : id \notin DOMAIN ById}
    \cup {p \in {"completedInActive"} : d.status = "completed" /\ ~d.archived}
    \cup {p \in {"completedUnfinished"} : d.status = "completed" /\ ~d.finished}
    \cup {p \in {"missingReference"} : ~d.refsExist}

Doctor ==
  {p \in {"unparsable"} : UnparsableDocuments}
    \cup {p \in {"duplicateId"} : Cardinality(DOMAIN ById) < Cardinality(ListedFiles)}
    \cup (UNION {DocumentProblems(documents[f]) : f \in ListedFiles})
    \cup {p \in {"severalActive"} :
            Cardinality({f \in ListedFiles : documents[f].status = "active"}) > 1}
    \cup {p \in {"cycle"} : FindsCycle}

-----------------------------------------------------------------------------
DoctorInit == documents = [f \in TaskFiles |-> NoDocument]

WriteDocument(f) ==
  \E d \in TaskDocuments[f] :
    /\ d = Torn \/ IsTaskDocument(d)
    /\ documents' = [documents EXCEPT ![f] = d]

DoctorNext == \E f \in TaskFiles : WriteDocument(f)

DoctorSpec == DoctorInit /\ [][DoctorNext]_documents

-----------------------------------------------------------------------------
(* Reference: the ids the completion gate lets be completed one after the
   other, the active task blocked by hand where another has to come first; a
   task in the archive stays what it is. *)
Completable ==
  LET done[n \in 0 .. Cardinality(ListedFiles)] ==
        IF n = 0 THEN {IdIn(f) : f \in {g \in ListedFiles : documents[g].status = "completed"}}
        ELSE done[n - 1] \cup
               {IdIn(f) : f \in {g \in ListedFiles : /\ ~documents[g].archived
                                                   /\ ToSet(documents[g].needs) \subseteq done[n - 1]}}
  IN  done[Cardinality(ListedFiles)]

(* What `task archive` sees to; the doctor does not look at it. *)
ArchiveCompleted == \A f \in ListedFiles : documents[f].archived => documents[f].status = "completed"

(* Where the archive holds nothing but completed tasks and the doctor finds
   nothing, every task can still be completed, in some order, without force; and
   the cycle it reports keeps some task from ever being completed, unless there
   are tasks that are completed already (doctor, the depth-first search, and the
   dependencies of the gate). *)
CleanBillCompletes ==
  /\ Doctor = {} /\ ArchiveCompleted => {IdIn(f) : f \in ListedFiles} \subseteq Completable
  /\ Doctor = {"cycle"} =>
       \/ ~({IdIn(f) : f \in ListedFiles} \subseteq Completable)
       \/ \E f \in ListedFiles : documents[f].status = "completed"

(* Violated: a clean bill alone tells that.  A task in the archive that somebody
   set back to pending is never completed again, nor is what depends on it. *)
CleanBillAlone == Doctor = {} => {IdIn(f) : f \in ListedFiles} \subseteq Completable

=============================================================================
