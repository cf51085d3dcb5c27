-------------------------- MODULE MCStatusHandoff --------------------------
(***************************************************************************)
(* One task.  In a behavior either a handoff is exported and imported      *)
(* while the work goes on ("handoff"), or the task is left in some mess    *)
(* and then completed by the advice of the report ("advice"), or a         *)
(* high-risk task one step from completion is worked on ("late").          *)
(***************************************************************************)
EXTENDS StatusHandoff

VARIABLE part

mcVars == <<statusVars, part>>

MCPass(note) == [verdict |-> "PASS", blocking |-> FALSE, context |-> "fresh", note |-> note]
MCSelfPass == [MCPass(0) EXCEPT !.context = "same"]
MCRework == [MCSelfPass EXCEPT !.verdict = "REWORK_REQUIRED"]
MCContents == {MCPass(n) : n \in 1 .. 6} \cup {MCSelfPass, MCRework}
MCSatisfied == {MCPass(n) : n \in 1 .. 6} \cup {MCSelfPass}

MCNone == {}
MCNoDependencies == [t \in Tasks |-> {}]
MCOneContract == {Criteria}
MCChangedIn == [a \in Trees |-> IF a = "c" THEN {} ELSE {"src"}]
MCReachable == [a \in Trees |-> IF a = "b" THEN {"b"} ELSE {"a", "c"}]

MCProven == [present |-> TRUE, proofs |-> [c \in Criteria |-> {"test"}]]
MCLate == [profile |-> "high-risk", stage |-> "release-evidence",
           history |-> <<"release-evidence">>, attempts |-> <<>>]

MCInit ==
  /\ part \in {"handoff", "advice", "late"}
  /\ tree = "a" /\ gitUp = TRUE
  /\ config \in IF part = "advice" THEN {"strict"} ELSE Configs \ {"malformed"}
  /\ status = [t \in Tasks |-> IF part = "late" THEN "active" ELSE "pending"]
  /\ ticked = [t \in Tasks |-> part = "late"]
  /\ contract = [t \in Tasks |-> Criteria]
  /\ refs \in [Tasks -> RefStates]
  /\ wf = [t \in Tasks |-> IF part = "late" THEN MCLate ELSE NoState]
  /\ registry = [t \in Tasks |-> IF part = "late" THEN MCProven ELSE NoRegistry]
  /\ bundles = [t \in Tasks |-> IF part = "late" THEN {Binding(t)} ELSE {}]
  /\ verdicts = [t \in Tasks |->
       IF part = "late"
       THEN <<[content |-> MCPass(1), bound |-> {Binding(t)}, reviewed |-> {Binding(t)}]>>
       ELSE <<>>]
  /\ rework = [t \in Tasks |-> {}]
  /\ done = [t \in Tasks |-> {}]
  /\ checkpoint = [t \in Tasks |-> {}]
  /\ handoff = [t \in Tasks |-> {}]
  /\ diligent = FALSE

Work(t) ==
  Start(t) \/ Complete(t) \/ Set(t) \/ Advance(t) \/ Attempt(t) \/ Sync(t) \/ Verify(t)

HandoffNext ==
  \/ /\ \/ EditConfig
        \/ GitOutage
        \/ EditTree /\ tree' # "c"
        \/ \E t \in Tasks :
             \/ Start(t)
             \/ Set(t)
             \/ Advance(t)
             \/ Sync(t)
             \/ Verify(t)
     /\ config' # "malformed"
     /\ UNCHANGED <<noteVars, diligent>>
  \/ \E t \in Tasks : Note(t) /\ UNCHANGED diligent

(* While a task gets into a mess, at most one judgment is recorded and the
   configuration may be broken; its repair may leave another one. *)
Mess(t) ==
  \/ EditConfig /\ config' = "malformed"
  \/ Block(t)
  \/ Work(t)
  \/ verdicts[t] = <<>> /\ Record(t)

AdviceNext ==
  \/ ~diligent /\ (\E t \in Tasks : Mess(t)) /\ UNCHANGED <<noteVars, diligent>>
  \/ ~diligent /\ Settle
  \/ Diligence

(* Any judgment may be recorded, and the profile stays. *)
LateNext ==
  /\ \/ EditTree
     \/ GitOutage
     \/ \E t \in Tasks : (Work(t) \/ Archive(t)) /\ wf'[t].profile # "quick"
  /\ UNCHANGED <<noteVars, diligent>>

MCNext ==
  /\ UNCHANGED part
  /\ \/ part = "handoff" /\ HandoffNext
     \/ part = "advice" /\ AdviceNext
     \/ part = "late" /\ LateNext

MCSpec == MCInit /\ [][MCNext]_mcVars /\ WF_mcVars(Diligence /\ UNCHANGED part)
=============================================================================
