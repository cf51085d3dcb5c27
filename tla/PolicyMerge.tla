---------------------------- MODULE PolicyMerge ----------------------------
(***************************************************************************)
(* Policy documents merged into one effective policy (mergeDocuments and   *)
(* mergeRules of core/policy/resolve.ts), and what that policy does to the *)
(* findings of a scan (core/policy/apply.ts).  A glob is the set of paths  *)
(* it matches; the day is fixed, so a suppression has expired or not.      *)
(***************************************************************************)
EXTENDS Naturals, Sequences, FiniteSets, SequencesExt

CONSTANT RuleIds  \* rules policies speak of

Unset == "unset"
Severities == {"low", "medium", "high", "critical"}

Rank(severity) ==
  CASE severity = "low" -> 0 [] severity = "medium" -> 1
    [] severity = "high" -> 2 [] severity = "critical" -> 3

Decisions == {"allow", "ask", "deny"}

RuleEntries ==
  [severity : Severities \cup {Unset}, enabled : {Unset, "yes", "no"}, locked : BOOLEAN]

-----------------------------------------------------------------------------
(* mergeRules, mergeDocuments: a later layer overrides an earlier one, but a
   locked rule is never weakened: the whole resolution fails. *)

EmptyPolicy ==
  [rules |-> [r \in {} |-> Unset], threshold |-> Unset, suppressions |-> {},
   forbidden |-> {}, error |-> "none"]

(* Seeded fault of OverlayRule: the lock is the last layer's, like the rest. *)
OverlayForgetsLock(existing, incoming) ==
  [severity |-> IF incoming.severity = Unset THEN existing.severity ELSE incoming.severity,
   enabled |-> IF incoming.enabled = Unset THEN existing.enabled ELSE incoming.enabled,
   locked |-> incoming.locked]

Weakens(existing, incoming) ==
  \/ /\ incoming.severity # Unset /\ existing.severity # Unset
     /\ Rank(incoming.severity) < Rank(existing.severity)
  \/ incoming.enabled = "no"

OverlayRule(existing, incoming) ==
  [severity |-> IF incoming.severity = Unset THEN existing.severity ELSE incoming.severity,
   enabled |-> IF incoming.enabled = Unset THEN existing.enabled ELSE incoming.enabled,
   locked |-> existing.locked \/ incoming.locked]

MergeRules(base, layer) ==
  [r \in DOMAIN base \cup DOMAIN layer |->
     IF r \notin DOMAIN layer THEN base[r]
     ELSE IF r \notin DOMAIN base THEN layer[r]
     ELSE OverlayRule(base[r], layer[r])]

Conflicts(base, layer) ==
  \E r \in DOMAIN base \cap DOMAIN layer : base[r].locked /\ Weakens(base[r], layer[r])

(* A layer with path scopes keeps its suppressions and forbidden patterns out
   of the merged view. *)
MergeDocuments(base, layer) ==
  IF base.error # "none" THEN base
  ELSE IF Conflicts(base.rules, layer.rules)
  THEN [base EXCEPT !.error = "POL-LOCKED-CONFLICT"]
  ELSE [rules |-> MergeRules(base.rules, layer.rules),
        threshold |-> IF layer.threshold = Unset THEN base.threshold ELSE layer.threshold,
        suppressions |->
          IF layer.scopes # {} THEN base.suppressions
          ELSE layer.suppressions \cup
               {s \in base.suppressions :
                  \A t \in layer.suppressions : t.rule # s.rule \/ t.paths # s.paths},
        forbidden |-> IF layer.scopes # {} THEN base.forbidden
                      ELSE base.forbidden \cup layer.forbidden,
        error |-> "none"]

Merged(documents) == FoldLeft(MergeDocuments, EmptyPolicy, documents)

(* applyPolicyToFindings: suppressions of the merged view, and those of scoped
   documents on the paths of their scopes. *)

Suppresses(s, rule, path) == ~s.expired /\ s.rule = rule /\ path \in s.paths

(* Seeded fault: the scopes of a document are ignored. *)
SuppressedAnywhere(policy, documents, rule, path) ==
  \/ \E s \in policy.suppressions : Suppresses(s, rule, path)
  \/ \E i \in DOMAIN documents :
       \E s \in documents[i].suppressions : Suppresses(s, rule, path)

PolicySuppressed(policy, documents, rule, path) ==
  \/ \E s \in policy.suppressions : Suppresses(s, rule, path)
  \/ \E i \in DOMAIN documents :
       /\ path \in documents[i].scopes
       /\ \E s \in documents[i].suppressions : Suppresses(s, rule, path)

SeverityOf(policy, rule, severity) ==
  IF rule \in DOMAIN policy.rules /\ policy.rules[rule].severity # Unset
  THEN policy.rules[rule].severity ELSE severity

DisabledRules(policy) ==
  {r \in DOMAIN policy.rules : policy.rules[r].enabled = "no"}

=============================================================================
