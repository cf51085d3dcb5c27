---------------------------- MODULE MCRepository ----------------------------
(***************************************************************************)
(* What ACKit derives from a repository's files, side by side: in a        *)
(* behavior the documents of one part are edited and the rest stays.       *)
(***************************************************************************)
EXTENDS MCDecisions, MCContext, TaskDoctor

VARIABLE part  \* what changes: "policy", "packs", "graph", "walk", "pack" or "tasks"

repositoryVars == <<policyVars, packVars, graphVars, walkVars, candidateVars>>
mcVars == <<part, repositoryVars, documents>>

(* Three tasks; the third file may be torn or double the id of the first. *)
Task(id, archived, state, needs, refsExist) ==
  [kind |-> "task", id |-> id, archived |-> archived, status |-> state, needs |-> needs,
   finished |-> TRUE, refsExist |-> refsExist]
MCTaskFiles == 1 .. 3
MCTaskDocuments ==
  [f \in MCTaskFiles |->
     {Task(f, FALSE, state, needs, TRUE) :
        state \in {"pending", "active"}, needs \in {<<>>, <<1>>, <<2>>, <<3>>, <<2, 3>>, <<3, 1>>}}
     \cup {Task(f, TRUE, "completed", needs, TRUE) : needs \in {<<>>, <<3>>}}
     \cup {Task(f, TRUE, "pending", <<>>, TRUE)}
     \cup {d \in {Torn, Task(1, FALSE, "pending", <<2>>, TRUE), Task(3, FALSE, "blocked", <<9>>, TRUE),
                  Task(3, FALSE, "completed", <<>>, FALSE)} : f = 3}]

Some(set) == CHOOSE x \in set : TRUE

MCInit ==
  /\ part \in {"policy", "packs", "graph", "walk", "pack", "tasks"}
  /\ PolicyInit /\ PacksInit /\ GraphInit /\ WalkInit /\ PackInit /\ DoctorInit
  /\ part # "policy" => configuration = Some(Configurations)
  /\ part # "packs" => packEntries = <<>>
  /\ part # "walk" => tree = Some(Trees) /\ limits = Some(LimitChoices)
  /\ part # "pack" => request = Some(PackRequests)

Policy == part = "policy" /\ PolicyNext /\ UNCHANGED <<packVars, graphVars, walkVars, candidateVars>>
Rules == part = "packs" /\ PacksNext /\ UNCHANGED <<policyVars, graphVars, walkVars, candidateVars>>
Instructions == part = "graph" /\ GraphNext /\ UNCHANGED <<policyVars, packVars, walkVars, candidateVars>>
Files == part = "walk" /\ WalkNext /\ UNCHANGED <<policyVars, packVars, graphVars, candidateVars>>
Candidates == part = "pack" /\ PackNext /\ UNCHANGED <<policyVars, packVars, graphVars, walkVars>>
Tasks == part = "tasks" /\ DoctorNext /\ UNCHANGED repositoryVars

MCNext ==
  /\ UNCHANGED part
  /\ \/ (Policy \/ Rules \/ Instructions \/ Files \/ Candidates) /\ UNCHANGED documents
     \/ Tasks

MCSpec == MCInit /\ [][MCNext]_mcVars
=============================================================================
