----------------------------- MODULE RulePacks -----------------------------
(***************************************************************************)
(* Declarative rule packs: loading with their extends, composition of the  *)
(* files that share a pack id (core/policy/packs/load.ts) and evaluation   *)
(* over a repository (evaluate.ts).  The state is the pack files, which    *)
(* people edit; the rest is computed.  A pack file is named by a number,   *)
(* in the order of the names; a glob is the set of paths it matches, and   *)
(* "asks" is what a rule asks for: a pattern (match), a configuration      *)
(* assertion (path, else glob), a dependency (package and version).        *)
(***************************************************************************)
EXTENDS PolicyMerge, ExtendsWalk

CONSTANTS
  PackFiles,     \* numbers of the pack files
  Packs,         \* packs people write
  PackEntries,   \* what policy.rulePacks may list
  BuiltinIds,    \* rule ids of the scanner's own catalog
  Repositories   \* what the packs are evaluated over

Unreadable == [unreadable |-> "no rule pack"]
NoGlob == {Unset}    \* a rule without a glob
BadPattern == "bad"  \* a pattern that is no regular expression

ASSUME PacksAssumption ==
  /\ PackFiles \subseteq Nat /\ IsFiniteSet(PackFiles)
  /\ PackEntries \subseteq Seq(PackFiles)
  /\ \A p \in Packs : p.extends \in Seq(PackFiles) /\ DOMAIN p.rules \subseteq RuleIds

VARIABLES
  packFiles,   \* what each pack file holds
  packEntries  \* policy.rulePacks of ackit.yml

packVars == <<packFiles, packEntries>>

-----------------------------------------------------------------------------
(* loadRulePacks, dfs: a file that is missing, too large, invalid or holds a
   dangerous pattern is left out with a diagnostic, and the walk goes on. *)
PackGraph ==
  [extends |-> [f \in {x \in PackFiles : packFiles[x] \in Packs} |-> packFiles[f].extends],
   strict |-> FALSE]

LoadedPacks(entries) == Walk(PackGraph, entries)

(* The files of one pack id compose in the order of their names. *)
FilesOf(loaded, id) ==
  SetToSortSeq({f \in ToSet(loaded) : packFiles[f].packId = id}, LAMBDA f, g : f < g)

-----------------------------------------------------------------------------
(* A composition: the effective rules by canonical id, and the diagnostics. *)
EmptyComposition == [rules |-> [c \in {} |-> Unset], diagnostics |-> {}]

Effective(pack, rule) ==
  [pack.rules[rule] EXCEPT !.severity = IF @ = Unset THEN pack.severity ELSE @]

(* Rules of the scanner's catalog cannot be redefined. *)
Canonical(pack) == {<<pack.namespace, r>> : r \in DOMAIN pack.rules \ BuiltinIds}

(* The last definition of a rule wins, unless it weakens a locked one. *)
DefineRules(composition, pack) ==
  LET own == Canonical(pack)
      redefined == own \cap DOMAIN composition.rules
      refused == {c \in redefined : composition.rules[c].locked
                                      /\ Weakens(composition.rules[c], Effective(pack, c[2]))}
  IN  [rules |-> [c \in own \cup DOMAIN composition.rules |->
                    IF c \in own \ refused THEN Effective(pack, c[2]) ELSE composition.rules[c]],
       diagnostics |-> composition.diagnostics
         \cup {<<"POL-PACK-COLLISION", c>> : c \in redefined}
         \cup {<<"POL-PACK-LOCKED", c>> : c \in refused}
         \cup {<<"POL-PACK-COLLISION", <<pack.namespace, r>>>> : r \in DOMAIN pack.rules \cap BuiltinIds}]

Patched(rule, patch) ==
  [rule EXCEPT !.severity = IF patch.severity = Unset THEN @ ELSE patch.severity,
               !.enabled = IF patch.enabled = Unset THEN @ ELSE patch.enabled,
               !.locked = IF patch.locked = Unset THEN @ ELSE patch.locked = "yes"]

(* An override names a rule of its own namespace or a canonical id.  It patches
   that rule of the composition, unless it weakens a locked one; it may also set
   or take away the lock. *)
Target(pack, override) ==
  <<IF override.namespace = Unset THEN pack.namespace ELSE override.namespace, override.rule>>

ApplyOverride(pack, composition, override) ==
  LET target == Target(pack, override)
      known == target \in DOMAIN composition.rules
      refused == known /\ composition.rules[target].locked
                       /\ Weakens(composition.rules[target], override)
  IN  [rules |-> [c \in DOMAIN composition.rules |->
                    IF c = target /\ ~refused THEN Patched(composition.rules[c], override)
                    ELSE composition.rules[c]],
       diagnostics |-> composition.diagnostics
         \cup {d \in {<<"POL-PACK-UNKNOWN-OVERRIDE", target>>} : ~known}
         \cup {d \in {<<"POL-PACK-LOCKED", target>>} : refused}]

ApplyOverrides(composition, pack) ==
  FoldLeft(LAMBDA c, override : ApplyOverride(pack, c, override), composition, pack.overrides)

Composed(packs) ==
  FoldLeft(ApplyOverrides, FoldLeft(DefineRules, EmptyComposition, packs), packs)

EffectivePacks(entries) ==
  LET loaded == LoadedPacks(entries).loaded
      content(files) == [i \in DOMAIN files |-> packFiles[files[i]]]
  IN  [id \in {packFiles[f].packId : f \in ToSet(loaded)} |->
         Composed(content(FilesOf(loaded, id)))]

-----------------------------------------------------------------------------
(* evaluateRulePacks: the paths a rule reports.  A repository has files (for
   each path the patterns that match a line of it), a manifest (package.json,
   with the dependency requirements it meets), the configuration assertions
   that hold, and the instruction graph with the patterns each node matches.
   Loading refuses an invalid pattern; the evaluation alone meets one. *)
Matched(rule, repo) ==
  {p \in DOMAIN repo.files : /\ rule.glob = NoGlob \/ p \in rule.glob
                             /\ rule.scope = {} \/ p \in rule.scope}

AssertionFails(rule, repo) == rule.asks # Unset /\ rule.asks \notin repo.assertions

DependencyMissing(rule, repo) ==
  \/ repo.manifest = "missing"
  \/ repo.manifest = "valid" /\ rule.asks # Unset /\ rule.asks \notin repo.dependencies

NoInstruction(rule, repo) ==
  \/ repo.graph = "failed"
  \/ rule.asks = Unset /\ repo.nodes = {}
  \/ rule.asks \notin {Unset, BadPattern} /\ \A node \in repo.nodes : rule.asks \notin node

(* Seeded fault of Reports: a presence rule ignores its scope. *)
PresenceUnscoped(rule, repo) ==
  CASE rule.glob = NoGlob -> {}
    [] rule.type = "absence" -> Matched(rule, repo)
    [] OTHER -> {p \in {"."} : DOMAIN repo.files \cap rule.glob = {}}

(* Presence and absence rules without a glob report nothing. *)
Reports(rule, repo) ==
  CASE rule.type = "presence" -> {p \in {"."} : rule.glob # NoGlob /\ Matched(rule, repo) = {}}
    [] rule.type = "absence" -> {p \in Matched(rule, repo) : rule.glob # NoGlob}
    [] rule.type = "pattern" -> {p \in Matched(rule, repo) : rule.asks \in repo.files[p]}
    [] rule.type = "config" -> {p \in {"ackit.yml"} : AssertionFails(rule, repo)}
    [] rule.type = "dependency" -> {p \in {"package.json"} : DependencyMissing(rule, repo)}
    [] rule.type = "instruction" -> {p \in {"AGENTS.md"} : NoInstruction(rule, repo)}

PackFindings(entries, repo) ==
  LET packs == EffectivePacks(entries)
      enabled(id) == {c \in DOMAIN packs[id].rules : packs[id].rules[c].enabled # "no"}
  IN  UNION {UNION {{<<id, c, p>> : p \in Reports(packs[id].rules[c], repo)} :
                      c \in enabled(id)} : id \in DOMAIN packs}

-----------------------------------------------------------------------------
PacksInit ==
  /\ packFiles = [f \in PackFiles |-> Unreadable]
  /\ packEntries \in PackEntries

(* Somebody writes or removes a pack file, or edits policy.rulePacks. *)
WritePack(f, p) ==
  /\ packFiles[f] # p
  /\ packFiles' = [packFiles EXCEPT ![f] = p]
  /\ UNCHANGED packEntries

ListPacks(entries) ==
  /\ packEntries # entries
  /\ packEntries' = entries
  /\ UNCHANGED packFiles

PacksNext ==
  \/ \E f \in PackFiles : \E p \in Packs \cup {Unreadable} : WritePack(f, p)
  \/ \E entries \in PackEntries : ListPacks(entries)

PacksSpec == PacksInit /\ [][PacksNext]_packVars

-----------------------------------------------------------------------------
(* Of a presence rule and an absence rule over the same glob and scope exactly
   one reports, whichever files lie in them and however many files compose the
   pack; without a glob neither ever does (evaluateRulePacks). *)
PresenceOrAbsence ==
  LET packs == EffectivePacks(packEntries) IN
  \A repo \in Repositories, id \in DOMAIN packs : \A a, b \in DOMAIN packs[id].rules :
    LET present == packs[id].rules[a]
        absent == packs[id].rules[b]
        reported(c) == \E finding \in PackFindings(packEntries, repo) :
                         finding[1] = id /\ finding[2] = c
    IN  /\ present.type = "presence" /\ absent.type = "absence"
        /\ present.glob = absent.glob /\ present.scope = absent.scope
        /\ "no" \notin {present.enabled, absent.enabled}
        => IF present.glob = NoGlob THEN ~reported(a) /\ ~reported(b)
           ELSE reported(a) <=> ~reported(b)

(* Violated: of two files of one pack, the later one in the order of the
   extends (behind all it extends) wins unless the rule is locked.  The files
   are composed in the order of their names instead. *)
LaterExtendsWins ==
  LET loaded == LoadedPacks(packEntries).loaded IN
  \A i, j \in DOMAIN loaded :
    LET base == packFiles[loaded[i]]
        later == packFiles[loaded[j]]
    IN  /\ i < j /\ Len(loaded) = 2 /\ base.packId = later.packId
        /\ base.overrides = <<>> /\ later.overrides = <<>>
        => \A c \in Canonical(base) \cap Canonical(later) :
             base.rules[c[2]].locked
               \/ EffectivePacks(packEntries)[base.packId].rules[c] = Effective(later, c[2])

=============================================================================
