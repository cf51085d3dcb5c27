---------------------------- MODULE MCLocalStores ----------------------------
(* Small instances of LocalStores and TaskDirectory for TLC: in a behavior the
   processes run either the commands of the one or those of the other. *)
EXTENDS TaskDirectory, TLC

VARIABLE part  \* "stores" or "tasks"

mcVars == <<taskVars, part>>

MCSymmetry == Permutations(Procs) \cup Permutations(Titles)

(* A new journal, and one whose next append rotates all its files. *)
MCNewOrFull ==
  {[f \in {} |-> <<>>],
   ("two" :> <<1, 2>>) @@ ("one" :> <<3, 4>>) @@ ("active" :> <<5, 6>>)}

NoTasks == [f \in {} |-> "torn"]

(* No task yet; one task, archived; and one archived, one completed, one pending. *)
MCLedgers ==
  {[active |-> NoTasks, archive |-> NoTasks]}
    \cup {[active |-> a, archive |-> <<1, t>> :> "completed"] :
             t \in Titles,
             a \in {NoTasks} \cup {(<<2, u>> :> "completed") @@ (<<3, u>> :> "pending") : u \in Titles}}

MCInit ==
  /\ TaskInit
  /\ part \in {"stores", "tasks"}
  /\ part = "tasks" => journal = [f \in {} |-> <<>>]
  /\ part = "stores" => active = NoTasks /\ archive = NoTasks

MCNext ==
  /\ UNCHANGED part
  /\ \/ part = "stores" /\ Next /\ UNCHANGED dirs
     \/ part = "tasks" /\ TaskNext

MCSpec == MCInit /\ [][MCNext]_mcVars

=============================================================================
