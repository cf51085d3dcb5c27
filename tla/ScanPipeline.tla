---------------------------- MODULE ScanPipeline ----------------------------
(***************************************************************************)
(* What one scan computes: the findings of a file (core/scanner/           *)
(* pipeline.ts), the plan of rules and the policy applied to the findings  *)
(* (orchestrate.ts), the key of the cache (core/cache/cache.ts), the       *)
(* comparison with a baseline (baseline.ts) and the gate of `ackit scan`   *)
(* (cli/commands/scan.ts).  A content is the drafts the rules would make   *)
(* of it and the rules that throw on it.                                   *)
(***************************************************************************)
EXTENDS PolicyMerge

CONSTANTS
  Paths,          \* paths of text files, as numbers in the order of their names
  Contents,       \* contents files may have
  AppliesTo,      \* the paths each rule of the catalog applies to
  ScanPolicies    \* policies people write: documents, and the configured threshold

DraftSet ==
  [rule : RuleIds, at : Nat, severity : Severities, ignored : BOOLEAN]

ASSUME PipelineAssumption ==
  /\ Paths \subseteq Nat /\ IsFiniteSet(Paths)
  /\ DOMAIN AppliesTo \subseteq RuleIds
  /\ \A c \in Contents : c.drafts \subseteq DraftSet /\ c.throws \subseteq RuleIds
  /\ \A p \in ScanPolicies : p.threshold \in Severities /\ IsFiniteSet(DOMAIN p.documents)

Advisory == "ACKIT099"

Policy(p) == Merged(p.documents)

(* executeConfiguredScan: the catalog without the rules the policy disables,
   and the forbidden patterns of the policy, which apply to every path. *)
Plan(p) == (DOMAIN AppliesTo \ DisabledRules(Policy(p))) \cup Policy(p).forbidden

Applies(rule, path) == rule \in DOMAIN AppliesTo => path \in AppliesTo[rule]

(* evaluateTarget: a rule that throws contributes nothing; a finding with an
   inline marker is suppressed, and the marker is itself reported. *)
Evaluated(path, content, plan) ==
  LET drafts == {d \in content.drafts : d.rule \in plan \ content.throws /\ Applies(d.rule, path)}
  IN  {[path |-> path, rule |-> d.rule, at |-> d.at, severity |-> d.severity,
        suppressed |-> d.ignored] : d \in drafts}
      \cup {[path |-> path, rule |-> Advisory, at |-> d.at, severity |-> "low",
             suppressed |-> FALSE] : d \in {x \in drafts : x.ignored}}

Fingerprint(finding) == <<finding.path, finding.rule, finding.at>>

(* Seeded fault of CacheKey: the policy is no part of the key. *)
KeyOfContent(content, p) == <<content, p.threshold, EmptyPolicy>>

(* computeCacheKey: the content, the configuration and the merged policy, but
   not the path. *)
CacheKey(content, p) == <<content, p.threshold, Policy(p)>>

(* applyPolicyToFindings, over what came from the rules or from the cache. *)
AppliedTo(p, findings) ==
  {[f EXCEPT !.suppressed = @ \/ PolicySuppressed(Policy(p), p.documents, f.rule, f.path),
             !.severity = SeverityOf(Policy(p), f.rule, @)] : f \in findings}

Threshold(p) == IF Policy(p).threshold = Unset THEN p.threshold ELSE Policy(p).threshold

Exceeds(p, findings) ==
  \E f \in findings : ~f.suppressed /\ Rank(f.severity) >= Rank(Threshold(p))

(* writeBaseline keeps every finding, compareBaseline looks for the ones that
   are not suppressed. *)
BaselineOf(findings) == {Fingerprint(f) : f \in findings}

NewFindings(findings, baseline) ==
  {f \in findings : ~f.suppressed /\ Fingerprint(f) \notin baseline}

(* Seeded fault of GatePasses: with a baseline only new findings count. *)
GateIgnoresThreshold(p, findings, baseline) == NewFindings(findings, baseline) = {}

(* The gate of --ci with --baseline. *)
GatePasses(p, findings, baseline) ==
  /\ ~Exceeds(p, findings)
  /\ NewFindings(findings, baseline) = {}

=============================================================================
