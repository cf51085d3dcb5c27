-------------------------- MODULE MCTrustParts -----------------------------
(***************************************************************************)
(* Instances of TrustChain whose behaviors come in parts: each behavior    *)
(* does without some of the operations, so that the others may vary more.  *)
(* Together the parts of an instance take every action of TrustChain.      *)
(***************************************************************************)
EXTENDS MCTrustChain

VARIABLE part

partVars == <<vars, part>>

NoneForced == \A t \in Tasks : \A d \in done'[t] : ~d.overrode

-----------------------------------------------------------------------------
(* One task and its verdicts: the source changes under the verifier        *)
(* ("sources"), completions are forced ("forced"), or the review policy is *)
(* lost and found while the configuration changes ("review").              *)
JudgmentsInit ==
  /\ Init
  /\ part \in {"sources", "forced", "review"}
  /\ verdicts["t1"] \in {<<>>, <<Legacy(Pass1)>>}
  /\ part # "sources" => tree = "a"
  /\ config = "strict"

Offered(judgments) ==
  \A i \in DOMAIN verdicts'["t1"] : verdicts'["t1"][i].content \in judgments

JudgmentsNext ==
  /\ part' = part
  /\ Next
  /\ part # "forced" => NoneForced
  /\ part # "review" => config' = config /\ Offered(Contents \ {Pass2})
  /\ part = "review" => tree' = tree /\ Offered({Pass1, Pass2})
  /\ part # "forced" => status'["t1"] # "blocked"
  /\ part = "forced" =>
       tree' = tree /\ Len(verdicts'["t1"]) <= 1 /\ wf'["t1"].attempts = <<>>

JudgmentsSpec == JudgmentsInit /\ [][JudgmentsNext]_partVars

-----------------------------------------------------------------------------
(* One task and what its binding reads: git fails and documents go missing *)
(* ("outages"), completions are forced ("forced"), or the criteria are     *)
(* rewritten ("rewritten").                                                *)
BindingsInit ==
  /\ Init
  /\ part \in {"outages", "forced", "rewritten"}
  /\ part # "rewritten" => contract["t1"] = Criteria
  /\ part # "outages" => refs["t1"]["plan"] = "v1"

BindingsNext ==
  /\ part' = part
  /\ Next
  /\ part # "forced" => NoneForced
  /\ part # "rewritten" => contract' = contract
  /\ part # "outages" => UNCHANGED <<gitUp, refs, config>>

BindingsSpec == BindingsInit /\ [][BindingsNext]_partVars

-----------------------------------------------------------------------------
(* Two tasks, the second depending on the first: the first is worked on    *)
(* alone, under two profiles and with attempts that fail ("one"), or both  *)
(* go through their lives, forced completions included, under the quick    *)
(* profile and without attempts ("both").                                  *)
ProfilesInit ==
  /\ Init
  /\ part \in {"one", "both"}
  /\ contract["t2"] = {"c"}
  /\ part = "both" => contract["t1"] = {"c"}

OneNext ==
  /\ Next
  /\ UNCHANGED <<status["t2"], ticked["t2"], contract["t2"], refs["t2"], wf["t2"], registry["t2"]>>
  /\ NoneForced

BothNext ==
  /\ Next
  /\ UNCHANGED <<contract, refs>>
  /\ \A t \in Tasks :
       /\ wf'[t].profile # "standard" /\ wf'[t].attempts = <<>>
       /\ \A c \in DOMAIN registry'[t].proofs : registry'[t].proofs[c] = {}

ProfilesNext ==
  /\ part' = part
  /\ \/ part = "one" /\ OneNext
     \/ part = "both" /\ BothNext

ProfilesSpec == ProfilesInit /\ [][ProfilesNext]_partVars

=============================================================================
