---------------------------- MODULE PolicyLayers ----------------------------
(***************************************************************************)
(* Offline policy: the documents ackit-policy.yml extends, loaded depth    *)
(* first (core/policy/resolve.ts) and merged (PolicyMerge), and the        *)
(* autonomy and review tables of the same documents (tiers.ts,             *)
(* cli/commands/policy-boundary.ts).  The state is the policy files of a   *)
(* repository, which people edit; what the code computes from them is      *)
(* defined by operators.                                                   *)
(***************************************************************************)
EXTENDS PolicyMerge, ExtendsWalk

CONSTANTS
  PolicyFiles,     \* names of policy files inside the repository
  DefaultFile,     \* ackit-policy.yml
  Documents,       \* the documents people write
  Configurations,  \* what ackit.yml may say: policy.extends and autonomy.tier2
  ReviewFindings   \* findings a verdict may hold

Absent == [unreadable |-> "no file"]
Invalid == [unreadable |-> "no policy document"]

(* What a document must be to pass its schema.  `named` says that it is for
   one org or repository. *)
IsDocument(d) ==
  /\ d.extends \in Seq(PolicyFiles)
  /\ d.named \in BOOLEAN
  /\ DOMAIN d.rules \subseteq RuleIds /\ \A r \in DOMAIN d.rules : d.rules[r] \in RuleEntries
  /\ d.threshold \in Severities \cup {Unset}
  /\ \A s \in d.suppressions : s.rule \in RuleIds /\ s.expired \in BOOLEAN
  /\ d.tier2 \in Decisions \cup {Unset}

ASSUME PolicyAssumption ==
  /\ DefaultFile \in PolicyFiles /\ IsFiniteSet(PolicyFiles)
  /\ {Absent, Invalid} \cap Documents = {} /\ \A d \in Documents : IsDocument(d)
  /\ \A c \in Configurations :
       c.extends \in Seq(PolicyFiles) /\ c.tier2 \in Decisions \cup {Unset}

VARIABLES
  policyFiles,   \* what each policy file holds: a document, Invalid or Absent
  configuration  \* what ackit.yml says

policyVars == <<policyFiles, configuration>>

-----------------------------------------------------------------------------
(* Without entries in the configuration the default file is, when there is one. *)
EntryFiles ==
  IF configuration.extends # <<>> THEN configuration.extends
  ELSE IF policyFiles[DefaultFile] = Absent THEN <<>> ELSE <<DefaultFile>>

PolicyGraph ==
  [extends |-> [f \in {x \in PolicyFiles : policyFiles[x] \in Documents} |-> policyFiles[f].extends],
   strict |-> TRUE]

Loaded == Walk(PolicyGraph, EntryFiles)

(* resolvePolicy skips the documents of another org or repository than its
   caller's.  No caller names one, so every named document is skipped. *)
ApplyDocument(files, applied, f) ==
  IF files[f].named THEN applied ELSE Append(applied, files[f])

Applied ==
  FoldLeft(LAMBDA applied, f : ApplyDocument(policyFiles, applied, f), <<>>, Loaded.loaded)

Resolved ==
  IF Loaded.problems # {} THEN [EmptyPolicy EXCEPT !.error = "POL-CHAIN"] ELSE Merged(Applied)

-----------------------------------------------------------------------------
(* resolveAutonomy over the documents and then the configuration: the last
   layer decides, but no layer reopens what one denied. *)

(* Seeded fault of NextDecision: the last layer always decides. *)
LastDecision(decision, layer) == IF layer = Unset THEN decision ELSE layer

NextDecision(decision, layer) ==
  IF layer = Unset \/ decision = "deny" THEN decision ELSE layer

TierLayers(documents) ==
  Append([i \in DOMAIN documents |-> documents[i].tier2], configuration.tier2)

TierDecision(documents) == FoldLeft(NextDecision, Unset, TierLayers(documents))

(* enforceAckitBoundary: every boundary of ACKit is a tier2 one.  A tier no
   layer sets refuses nothing, a confirmation nobody can give is a refusal,
   and a policy that cannot be resolved refuses nothing either. *)
BoundaryRefused(interactive) ==
  /\ Resolved.error = "none"
  /\ \/ TierDecision(Applied) = "deny"
     \/ TierDecision(Applied) = "ask" /\ ~interactive

(* resolveReview over the documents and then the configuration: required
   dimensions and blocking severities add up. *)
Review(documents) ==
  [required |-> configuration.required \cup UNION {documents[i].required : i \in DOMAIN documents},
   blocking |-> configuration.blocking \cup UNION {documents[i].blocking : i \in DOMAIN documents}]

FindingRank(severity) == CASE severity = "blocking" -> 3 [] severity = "warning" -> 1
                           [] severity = "info" -> 0

ReviewRank(severity) == CASE severity = "critical" -> 3 [] severity = "high" -> 2
                          [] severity = "medium" -> 1

(* Seeded fault of PassesReview: the highest blocking severity is the bar. *)
PassesHighest(findings, review) ==
  /\ \A d \in review.required : \E f \in findings : d \in f.covers
  /\ review.blocking # {} =>
       \A f \in findings : \E s \in review.blocking : FindingRank(f.severity) < ReviewRank(s)

(* checkVerdictAgainstReview: a verdict's findings cover dimensions by their
   codes, and none reaches the lowest blocking severity. *)
PassesReview(findings, review) ==
  /\ \A d \in review.required : \E f \in findings : d \in f.covers
  /\ \A f \in findings, s \in review.blocking : FindingRank(f.severity) < ReviewRank(s)

-----------------------------------------------------------------------------
PolicyInit ==
  /\ policyFiles = [f \in PolicyFiles |-> Absent]
  /\ configuration \in Configurations

(* Somebody writes or removes a policy file, or edits ackit.yml. *)
WritePolicy(f, d) ==
  /\ policyFiles[f] # d
  /\ policyFiles' = [policyFiles EXCEPT ![f] = d]
  /\ UNCHANGED configuration

WriteConfiguration(c) ==
  /\ configuration # c
  /\ configuration' = c
  /\ UNCHANGED policyFiles

PolicyNext ==
  \/ \E f \in PolicyFiles : \E d \in Documents \cup {Absent, Invalid} : WritePolicy(f, d)
  \/ \E c \in Configurations : WriteConfiguration(c)

PolicySpec == PolicyInit /\ [][PolicyNext]_policyVars

-----------------------------------------------------------------------------
(* The walk accepts exactly the extends graphs without a cycle or an
   unreadable file, and then yields every reached document once, each behind all it
   extends, so that a later layer overrides its bases (loadChain). *)
BasesFirst ==
  LET order == Loaded.loaded
      reached == ReachedFrom(PolicyGraph, ToSet(EntryFiles))
  IN  /\ (Loaded.problems = {}) <=>
           \A f \in reached : policyFiles[f] \in Documents /\ ~OnCycle(PolicyGraph, f)
      /\ Loaded.problems = {} =>
           /\ ToSet(order) = reached /\ Len(order) = Cardinality(reached)
           /\ \A i, j \in DOMAIN order : order[j] \in ToSet(policyFiles[order[i]].extends) => j < i

(* Once a layer has locked a rule, no layer after it lowers its severity or
   disables it, however many layers lie between (mergeRules). *)
LockedRulesHold ==
  Resolved.error = "none" =>
    \A k \in DOMAIN Applied :
      LET then == Merged(SubSeq(Applied, 1, k)).rules
          final == Resolved.rules
      IN  \A r \in DOMAIN then : then[r].locked =>
            /\ r \in DOMAIN final /\ final[r].locked
            /\ then[r].severity # Unset => Rank(final[r].severity) >= Rank(then[r].severity)
            /\ then[r].enabled # "no" => final[r].enabled # "no"

(* A suppression of a document with path scopes silences nothing outside them:
   what is suppressed at a path is so by a document that applies at that path
   (mergeDocuments, applyPolicyToFindings). *)
ScopesConfine ==
  Resolved.error = "none" =>
    \A r \in RuleIds : \A p \in UNION {UNION {s.paths : s \in d.suppressions} : d \in Documents} :
      PolicySuppressed(Resolved, Applied, r, p) =>
        \E i \in DOMAIN Applied :
          /\ Applied[i].scopes = {} \/ p \in Applied[i].scopes
          /\ \E s \in Applied[i].suppressions : Suppresses(s, r, p)

(* A layer that denies a boundary is never overruled, by a later layer or by
   ackit.yml, in a terminal or outside of one (resolveAutonomy,
   enforceAckitBoundary). *)
DenyWins ==
  Resolved.error = "none" /\ "deny" \in ToSet(TierLayers(Applied)) =>
    BoundaryRefused(TRUE) /\ BoundaryRefused(FALSE)

(* A further layer only tightens the review: a verdict that passes under all
   layers passes under those before any of them (resolveReview,
   checkVerdictAgainstReview). *)
ReviewOnlyTightens ==
  \A k \in 0 .. Len(Applied), findings \in SUBSET ReviewFindings :
    PassesReview(findings, Review(Applied)) =>
      PassesReview(findings, Review(SubSeq(Applied, 1, k)))

=============================================================================
