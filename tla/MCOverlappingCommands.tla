----------------------- MODULE MCOverlappingCommands -----------------------
(* Small instances of OverlappingCommands for TLC. *)
EXTENDS OverlappingCommands, TLC

Pass == [passes |-> TRUE, independent |-> TRUE]
Rework == [passes |-> FALSE, independent |-> TRUE]

MCPassOrRework == {Pass, Rework}

(* The state of a task of profile p that commands run one at a time brought to
   its i-th stage. *)
Walked(p, i) ==
  [profile |-> p, stage |-> Stages(p)[i],
   history |-> SubSeq(Stages(p), IF i > Cap THEN i - Cap + 1 ELSE 1, i),
   attempts |-> <<>>]

MCSymmetry == Permutations(Procs) \cup Permutations(Sources)

MCStrict == [verifier |-> TRUE, evidence |-> TRUE]

MCQuickAtVerify == {Walked("quick", 3)}

=============================================================================
