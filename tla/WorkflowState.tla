--------------------------- MODULE WorkflowState ---------------------------
(***************************************************************************)
(* The workflow of one task: the built-in profile catalogue of             *)
(* core/workflow/profiles.ts and the state transformers of                 *)
(* core/workflow/store.ts, as operators on the value of state.yaml.  The   *)
(* modules that keep such a state (TrustChain, OverlappingCommands) apply  *)
(* them.                                                                   *)
(*                                                                         *)
(* Dates are left out; a stage-history entry is its stage and a            *)
(* verification attempt is its outcome.                                    *)
(***************************************************************************)
EXTENDS Naturals, Sequences

CONSTANT Cap   \* entries kept of stageHistory and verificationAttempts (64)

ASSUME CapAssumption == Cap \in Nat \ {0}

Profiles == {"quick", "standard", "high-risk"}

Outcomes == {"pass", "fail"}

ArtifactKinds == {"intent", "spec", "plan", "task", "evidence", "verdict"}

(* The stages of a profile, in order; the first one is its entry stage. *)
QuickStages == <<"task", "implement", "verify">>

StandardStages ==
  <<"intent", "plan", "tasks", "implement", "verify", "review">>

HighRiskStages ==
  <<"intent", "spec", "plan", "tasks", "implement", "verify",
    "independent-review", "release-evidence">>

Stages(p) == IF p = "quick" THEN QuickStages
             ELSE IF p = "standard" THEN StandardStages
             ELSE HighRiskStages

StagesOf(p) == {Stages(p)[i] : i \in DOMAIN Stages(p)}

AllStages == UNION {StagesOf(p) : p \in Profiles}

Position(p, s) == CHOOSE i \in DOMAIN Stages(p) : Stages(p)[i] = s

CompletionStage(p) == IF p = "high-risk" THEN "release-evidence" ELSE "verify"

ReachedCompletion(p, s) == Position(p, s) >= Position(p, CompletionStage(p))

(* requiredArtifactsByStage of the catalogue. *)
RequiredArtifacts(p, s) ==
  CASE p = "quick" /\ s = "task"                    -> {"task"}
    [] p # "quick" /\ s = "intent"                  -> {"intent", "task"}
    [] p # "quick" /\ s = "plan"                    -> {"plan"}
    [] p # "quick" /\ s = "verify"                  -> {"evidence"}
    [] p = "high-risk" /\ s = "spec"                -> {"spec"}
    [] p = "high-risk" /\ s = "independent-review"  -> {"verdict"}
    [] OTHER                                        -> {}

(* Overrides read from ackit.yml are additive: they tighten, never loosen. *)
Overrides == [verifier : BOOLEAN, evidence : BOOLEAN]

NoOverrides == [verifier |-> FALSE, evidence |-> FALSE]

RequiresVerdict(p, o) == p # "quick" \/ o.verifier

RequiresEvidence(p, o) == p # "quick" \/ o.evidence

EffectiveArtifacts(p, s, o) ==
  RequiredArtifacts(p, s)
    \cup {k \in {"evidence"} : s = "verify" /\ RequiresEvidence(p, o)}
    \cup {k \in {"verdict"} : s = "verify" /\ p = "quick"
                                /\ RequiresVerdict(p, o)}

-----------------------------------------------------------------------------
(* The state file.  NoState: the file does not exist (a legacy task). *)

NoState == [profile |-> "none", stage |-> "none",
            history |-> <<>>, attempts |-> <<>>]

Enabled(w) == w.profile # "none"

WorkflowStates ==
  {NoState} \cup
  {w \in [profile : Profiles, stage : AllStages,
          history : Seq(AllStages), attempts : Seq(Outcomes)] :
     /\ w.stage \in StagesOf(w.profile)
     /\ Len(w.history) <= Cap /\ Len(w.attempts) <= Cap}

(* Seeded fault of AppendCapped: the list grows for ever. *)
AppendUncapped(list, entry) == Append(list, entry)

(* [...list, entry].slice(-Cap) for a list that already holds at most Cap. *)
AppendCapped(list, entry) ==
  IF Len(list) < Cap THEN Append(list, entry) ELSE Append(Tail(list), entry)

LastOutcome(w) ==
  IF w.attempts = <<>> THEN "none" ELSE w.attempts[Len(w.attempts)]

(* Seeded fault of SetProfileOf: another profile starts with no attempts. *)
SetProfileAnew(w, p) ==
  IF w.profile = p
  THEN w
  ELSE [profile |-> p, stage |-> Stages(p)[1],
        history |-> <<Stages(p)[1]>>, attempts |-> <<>>]

(* setProfile: choosing the profile again keeps the stage; choosing another
   one restarts at its entry stage and keeps the verification attempts. *)
SetProfileOf(w, p) ==
  IF w.profile = p
  THEN w
  ELSE [profile |-> p, stage |-> Stages(p)[1],
        history |-> <<Stages(p)[1]>>, attempts |-> w.attempts]

(* Seeded fault of AttemptOf: a failure leaves the stage where it is. *)
AttemptInPlace(w, outcome) ==
  [profile |-> w.profile, stage |-> w.stage, history |-> w.history,
   attempts |-> AppendCapped(w.attempts, outcome)]

(* recordVerificationAttempt: a failure sets the stage to "implement". *)
AttemptOf(w, outcome) ==
  [profile  |-> w.profile,
   stage    |-> IF outcome = "fail" THEN "implement" ELSE w.stage,
   history  |-> IF outcome = "fail" /\ w.stage # "implement"
                THEN AppendCapped(w.history, "implement") ELSE w.history,
   attempts |-> AppendCapped(w.attempts, outcome)]

(* advanceTo is forward-only and adjacent. *)
CanAdvance(p, from, to) ==
  /\ to \in StagesOf(p)
  /\ Position(p, to) = Position(p, from) + 1

AdvanceOf(w, to) ==
  [profile |-> w.profile, stage |-> to,
   history |-> AppendCapped(w.history, to), attempts |-> w.attempts]

=============================================================================
