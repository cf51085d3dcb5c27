---------------------------- MODULE MCTrustChain ----------------------------
(* Small instances of TrustChain for TLC. *)
EXTENDS TrustChain

(* Judgments a verifier may author. *)
Judgment(verdict, context, note) ==
  [verdict |-> verdict, blocking |-> FALSE, context |-> context, note |-> note]

Pass1 == Judgment("PASS", "fresh", 1)
Pass2 == Judgment("PASS", "fresh", 2)   \* says too little for the review policy
SelfPass == Judgment("PASS", "same", 1)
Rework == Judgment("REWORK_REQUIRED", "fresh", 1)

MCOnePass == {Pass1}
MCTwoPasses == {Pass1, Pass2}
MCFourJudgments == {Pass1, Pass2, SelfPass, Rework}
MCReviewed == {Pass1, SelfPass}

MCNone == {}
MCNoDependencies == [t \in Tasks |-> {}]
MCSecondNeedsFirst == [t \in Tasks |-> {u \in {"t1"} : t = "t2"}]
MCOneContract == {Criteria}
MCOneOrAll == {{"c"}, Criteria}
MCNoneOrAll == {{}, Criteria}

=============================================================================
