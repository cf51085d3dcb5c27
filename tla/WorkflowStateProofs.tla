------------------------ MODULE WorkflowStateProofs ------------------------
(***************************************************************************)
(* Facts about the workflow state and its transformers, for every value of *)
(* Cap.                                                                    *)
(***************************************************************************)
EXTENDS WorkflowState, TLAPS

(* A stage of a profile stands at its position (canAdvance, indexOf). *)
LEMMA PositionOfStage ==
  ASSUME NEW p \in Profiles, NEW s \in StagesOf(p)
  PROVE  Position(p, s) \in DOMAIN Stages(p) /\ Stages(p)[Position(p, s)] = s
BY DEF StagesOf, Position

(* The positions in the three catalogues that matter below. *)
LEMMA QuickPositions ==
  /\ Position("quick", "task") = 1
  /\ Position("quick", "implement") = 2
  /\ Position("quick", "verify") = 3
BY DEF Position, Stages, QuickStages

(* The same of the standard profile. *)
LEMMA StandardPositions ==
  /\ Position("standard", "intent") = 1
  /\ Position("standard", "implement") = 4
  /\ Position("standard", "verify") = 5
BY DEF Position, Stages, StandardStages

(* The same of the high-risk profile. *)
LEMMA HighRiskPositions ==
  /\ Position("high-risk", "intent") = 1
  /\ Position("high-risk", "implement") = 5
  /\ Position("high-risk", "verify") = 6
  /\ Position("high-risk", "release-evidence") = 8
BY DEF Position, Stages, HighRiskStages

(* A profile is a sequence of known stages. *)
LEMMA StagesType ==
  ASSUME NEW p \in Profiles
  PROVE  /\ Stages(p) \in Seq(AllStages)
         /\ StagesOf(p) \subseteq AllStages
<1>1. StagesOf(p) \subseteq AllStages
  BY DEF AllStages
<1>2. Stages(p) \in Seq(StagesOf(p))
  <2>1. Stages(p) \in Seq({Stages(p)[i] : i \in DOMAIN Stages(p)})
    <3>1. CASE p = "quick"
      BY <3>1 DEF Stages, QuickStages
    <3>2. CASE p = "standard"
      BY <3>2 DEF Stages, StandardStages
    <3>3. CASE p = "high-risk"
      BY <3>3 DEF Stages, HighRiskStages
    <3> QED
      BY <3>1, <3>2, <3>3 DEF Profiles
  <2> QED
    BY <2>1 DEF StagesOf
<1> QED
  BY <1>1, <1>2

(* Every profile can rewind to "implement" and has "verify" to come back to,
   before or at its completion stage and after its entry stage. *)
LEMMA ProfileShape ==
  ASSUME NEW p \in Profiles
  PROVE  /\ Stages(p)[1] \in StagesOf(p)
         /\ {"implement", "verify", CompletionStage(p)} \subseteq StagesOf(p)
         /\ Position(p, Stages(p)[1]) < Position(p, "verify")
         /\ Position(p, "implement") < Position(p, "verify")
         /\ Position(p, "verify") <= Position(p, CompletionStage(p))
<1>1. CASE p = "quick"
  BY <1>1, QuickPositions
     DEF Stages, StagesOf, CompletionStage, QuickStages
<1>2. CASE p = "standard"
  BY <1>2, StandardPositions
     DEF Stages, StagesOf, CompletionStage, StandardStages
<1>3. CASE p = "high-risk"
  BY <1>3, HighRiskPositions
     DEF Stages, StagesOf, CompletionStage, HighRiskStages
<1> QED
  BY <1>1, <1>2, <1>3 DEF Profiles

(* An adjacent advance to another stage than "verify" from before "verify"
   stays before it: "verify" cannot be stepped over (canAdvance). *)
LEMMA AdvanceBeforeVerify ==
  ASSUME NEW p \in Profiles, NEW from \in StagesOf(p), NEW to,
         CanAdvance(p, from, to), to # "verify",
         Position(p, from) < Position(p, "verify")
  PROVE  Position(p, to) < Position(p, "verify")
<1>1. to \in StagesOf(p) /\ Position(p, to) = Position(p, from) + 1
  BY DEF CanAdvance
<1>2. Position(p, from) \in DOMAIN Stages(p)
      /\ Position(p, to) \in DOMAIN Stages(p)
      /\ Position(p, "verify") \in DOMAIN Stages(p)
  BY <1>1, PositionOfStage, ProfileShape
<1>3. Position(p, to) # Position(p, "verify")
  BY <1>1, PositionOfStage, ProfileShape
<1>4. DOMAIN Stages(p) \subseteq Nat
  BY StagesType
<1> QED
  BY <1>1, <1>2, <1>3, <1>4

(* [...list, entry].slice(-Cap) stays within the cap and ends in entry. *)
LEMMA AppendCappedFacts ==
  ASSUME NEW S, NEW list \in Seq(S), NEW entry \in S, Len(list) <= Cap
  PROVE  /\ AppendCapped(list, entry) \in Seq(S)
         /\ Len(AppendCapped(list, entry)) \in 1..Cap
         /\ AppendCapped(list, entry)[Len(AppendCapped(list, entry))] = entry
<1>1. CASE Len(list) < Cap
  BY <1>1, CapAssumption DEF AppendCapped
<1>2. CASE ~(Len(list) < Cap)
  <2>1. list # <<>>
    BY <1>2, CapAssumption
  <2>2. Tail(list) \in Seq(S) /\ Len(Tail(list)) = Len(list) - 1
    BY <2>1
  <2> QED
    BY <1>2, <2>1, <2>2, CapAssumption DEF AppendCapped
<1> QED
  BY <1>1, <1>2

(* The transformers of the store keep the state file well formed. *)
LEMMA SetProfileType ==
  ASSUME NEW w \in WorkflowStates, NEW p \in Profiles
  PROVE  SetProfileOf(w, p) \in WorkflowStates
<1>1. w.attempts \in Seq(Outcomes) /\ Len(w.attempts) <= Cap
  <2>1. CASE w = NoState
    <3>1. w.attempts = <<>>
      BY <2>1 DEF NoState
    <3> QED
      BY <3>1, CapAssumption
  <2>2. CASE w # NoState
    BY <2>2 DEF WorkflowStates
  <2> QED
    BY <2>1, <2>2
<1>2. Stages(p)[1] \in StagesOf(p) /\ Stages(p)[1] \in AllStages
  BY ProfileShape, StagesType
<1>3. <<Stages(p)[1]>> \in Seq(AllStages) /\ Len(<<Stages(p)[1]>>) <= Cap
  BY <1>2, CapAssumption
<1> QED
  BY <1>1, <1>2, <1>3 DEF SetProfileOf, WorkflowStates

(* The state of a workflow-enabled task has a profile and one of its stages. *)
LEMMA EnabledType ==
  ASSUME NEW w \in WorkflowStates, Enabled(w)
  PROVE  /\ w \in [profile : Profiles, stage : AllStages,
                    history : Seq(AllStages), attempts : Seq(Outcomes)]
         /\ w.stage \in StagesOf(w.profile)
         /\ Len(w.history) <= Cap /\ Len(w.attempts) <= Cap
BY DEF WorkflowStates, Enabled, NoState

(* recordVerificationAttempt keeps the state file well formed, and its last
   attempt is the one recorded. *)
LEMMA AttemptType ==
  ASSUME NEW w \in WorkflowStates, Enabled(w), NEW outcome \in Outcomes
  PROVE  /\ AttemptOf(w, outcome) \in WorkflowStates
         /\ LastOutcome(AttemptOf(w, outcome)) = outcome
         /\ AttemptOf(w, outcome).profile = w.profile
         /\ AttemptOf(w, outcome).stage =
              IF outcome = "fail" THEN "implement" ELSE w.stage
<1>1. /\ w \in [profile : Profiles, stage : AllStages,
                history : Seq(AllStages), attempts : Seq(Outcomes)]
      /\ w.stage \in StagesOf(w.profile)
      /\ Len(w.history) <= Cap /\ Len(w.attempts) <= Cap
  BY EnabledType
<1>2. "implement" \in StagesOf(w.profile) /\ "implement" \in AllStages
  BY <1>1, ProfileShape, StagesType
<1> DEFINE a == AppendCapped(w.attempts, outcome)
           h == AppendCapped(w.history, "implement")
<1>3. a \in Seq(Outcomes) /\ Len(a) \in 1..Cap /\ a[Len(a)] = outcome
  BY <1>1, AppendCappedFacts
<1>4. h \in Seq(AllStages) /\ Len(h) \in 1..Cap
  BY <1>1, <1>2, AppendCappedFacts
<1> HIDE DEF a, h
<1>5. AttemptOf(w, outcome) =
        [profile |-> w.profile,
         stage |-> IF outcome = "fail" THEN "implement" ELSE w.stage,
         history |-> IF outcome = "fail" /\ w.stage # "implement"
                     THEN h ELSE w.history,
         attempts |-> a]
  BY <1>1 DEF AttemptOf, a, h
<1>6. AttemptOf(w, outcome) \in WorkflowStates
  BY <1>1, <1>2, <1>3, <1>4, <1>5, CapAssumption DEF WorkflowStates
<1>7. LastOutcome(AttemptOf(w, outcome)) = outcome
  BY <1>3, <1>5 DEF LastOutcome
<1> QED
  BY <1>5, <1>6, <1>7

(* advanceTo keeps the state file well formed and the attempts as they were. *)
LEMMA AdvanceType ==
  ASSUME NEW w \in WorkflowStates, Enabled(w), NEW to \in StagesOf(w.profile)
  PROVE  /\ AdvanceOf(w, to) \in WorkflowStates
         /\ AdvanceOf(w, to).profile = w.profile
         /\ AdvanceOf(w, to).stage = to
         /\ AdvanceOf(w, to).attempts = w.attempts
<1>1. /\ w \in [profile : Profiles, stage : AllStages,
                history : Seq(AllStages), attempts : Seq(Outcomes)]
      /\ Len(w.history) <= Cap /\ Len(w.attempts) <= Cap
  BY EnabledType
<1>2. to \in AllStages
  BY <1>1, StagesType
<1> DEFINE h == AppendCapped(w.history, to)
<1>3. h \in Seq(AllStages) /\ Len(h) \in 1..Cap
  BY <1>1, <1>2, AppendCappedFacts
<1> HIDE DEF h
<1>4. AdvanceOf(w, to) = [profile |-> w.profile, stage |-> to,
                          history |-> h, attempts |-> w.attempts]
  BY <1>1 DEF AdvanceOf, h
<1> QED
  BY <1>1, <1>2, <1>3, <1>4, CapAssumption DEF WorkflowStates

=============================================================================
