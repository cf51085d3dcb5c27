-------------------------- MODULE InstructionGraph --------------------------
(***************************************************************************)
(* The graph of instruction files of a repository (core/instructions/      *)
(* graph.ts): which files are nodes and in which order, which of them      *)
(* duplicate or shadow each other, which can never apply, and              *)
(* the chain of nodes a provider reads for one file.                       *)
(*                                                                         *)
(* A place is a directory, as the names on the way to it, and a file name. *)
(* A glob is the set of places it matches.                                 *)
(***************************************************************************)
EXTENDS Integers, FiniteSets, SequencesExt, Listing

CONSTANTS
  Places,        \* the places where files may be
  PathOrder,     \* the order of the places as text
  Texts,         \* contents files may have
  Similar,       \* pairs of distinct normalised texts with many trigrams in common
  MaxNodes,      \* the limit on nodes
  MaxFiles,      \* bound of the model: files there are at once
  ReadProfiles   \* profiles a reader may have: surfaces and shifts of precedence

Place(dir, name) == [dir |-> dir, name |-> name]
Unrestricted == [given |-> FALSE, files |-> {}]
Only(set) == [given |-> TRUE, files |-> set]

ASSUME GraphAssumption ==
  /\ IsFiniteSet(Places) /\ Places \subseteq [dir : Seq(STRING), name : STRING]
  /\ PathOrder \in [Places -> Nat] /\ MaxNodes \in Nat /\ MaxFiles \in Nat
  /\ \A p, q \in Places : PathOrder[p] = PathOrder[q] => p = q
  /\ \A profile \in ReadProfiles, p \in Places :
       p \in DOMAIN profile.shift => profile.shift[p] \in Int

VARIABLE files  \* what each place holds: nothing, a text or a symbolic link

graphVars == <<files>>

Vacant == [kind |-> "absent"]
Text(t) == [kind |-> "text", text |-> t]
Link(p) == [kind |-> "link", to |-> p]

(* The instructions of codex outside the repository, read when the caller
   names their directory. *)
Global == Place(<<"codex-global">>, "AGENTS.md")

Holds(p) == files[p].kind = "text"

(* realpath: a link stands for what it leads to, a dangling one for itself. *)
CanonicalOf(p) == IF files[p].kind = "link" /\ Holds(files[p].to) THEN files[p].to ELSE p

Listed == {p \in Places \ {Global} : files[p] # Vacant}
RepoFiles == {CanonicalOf(p) : p \in Listed}

(* The frontmatter of a file; that of the global instructions is not read. *)
Says(p) ==
  IF p = Global
  THEN [files[p].text EXCEPT !.applyTo = Unrestricted, !.include = Unrestricted, !.exclude = Unrestricted, !.providers = Unrestricted]
  ELSE files[p].text

-----------------------------------------------------------------------------
(* Nodes (classifySurface, buildNode). *)
IsSkill(p) == IsPrefix(<<".agents", "skills">>, p.dir) /\ p.name = "SKILL.md"

Provider(p) ==
  CASE IsSkill(p) -> "shared"
    [] p.name \in {"AGENTS.md", "AGENTS.override.md"} -> "codex"
    [] p.name = "CLAUDE.md" -> "claude"
    [] p.name = "GEMINI.md" -> "gemini"
    [] p = Place(<<".github">>, "copilot-instructions.md") -> "copilot"
    [] IsPrefix(<<".github", "instructions">>, p.dir) /\ p.name = "x.instructions.md" -> "copilot"
    [] OTHER -> "none"

Position(name, names) == CHOOSE i \in DOMAIN names : names[i] = name
ProviderRank(p) == Position(Provider(p), <<"codex", "claude", "gemini", "copilot", "shared">>)
IdRank(p) == Position(Provider(p), <<"claude", "codex", "copilot", "gemini", "shared">>)

Depth(p) == IF p = Global THEN 0 ELSE Len(p.dir)

Precedence(p) ==
  CASE p = Global -> 0
    [] p # Global /\ Says(p).applyTo.given -> 1000 + Depth(p) * 10
    [] p # Global /\ ~Says(p).applyTo.given /\ Provider(p) \in {"claude", "gemini", "copilot"} -> 100 + Depth(p) * 10
    [] OTHER -> Depth(p) * 10 + 1 + (IF p.name = "AGENTS.override.md" THEN 50 ELSE 0)

(* One node per file listed: a place that links lead to has several. *)
Nodes ==
  (UNION {{[place |-> p, copy |-> k] : k \in 1 .. Cardinality({q \in Listed : CanonicalOf(q) = p})} :
            p \in {q \in RepoFiles : Holds(q) /\ Provider(q) # "none"}})
  \cup {[place |-> p, copy |-> 1] : p \in {Global} \cap {q \in Places : Holds(q)}}

LexBefore(s, t) ==
  \E i \in DOMAIN s : s[i] < t[i] /\ \A j \in 1 .. (i - 1) : s[j] = t[j]

IdKey(n) == <<IdRank(n.place), PathOrder[n.place], n.copy>>
Kept == {n \in Nodes : Cardinality({m \in Nodes : LexBefore(IdKey(m), IdKey(n))}) < MaxNodes}

NoShift == [p \in {} |-> 0]

(* Seeded fault of OrderKey: precedence before depth. *)
PrecedenceFirst(n, shift) ==
  <<Precedence(n.place) + (IF n.place \in DOMAIN shift THEN shift[n.place] ELSE 0),
    Depth(n.place), ProviderRank(n.place), PathOrder[n.place], n.copy>>

(* compareNodes, with the shifts of a profile. *)
OrderKey(n, shift) ==
  <<Depth(n.place),
    Precedence(n.place) + (IF n.place \in DOMAIN shift THEN shift[n.place] ELSE 0),
    ProviderRank(n.place), PathOrder[n.place], n.copy>>

Ordered(nodes, shift) ==
  ListedBy(nodes, {x \in nodes \X nodes : LexBefore(OrderKey(x[1], shift), OrderKey(x[2], shift))})

Graph == Ordered(Kept, NoShift)

-----------------------------------------------------------------------------
(* Analysis. *)
Compared(graph) ==
  Sublist(graph, {i \in DOMAIN graph : ~IsSkill(graph[i].place) /\ graph[i].place # Global})
Norm(n) == files[n.place].text.norm

(* Seeded fault of Stronger: the node whose id comes first as text. *)
StrongerById(compared, i, j) ==
  IF LexBefore(IdKey(compared[i]), IdKey(compared[j])) THEN <<i, j>> ELSE <<j, i>>

(* Of two nodes the earlier one is the stronger: <<stronger, weaker>>. *)
Stronger(compared, i, j) == IF i < j THEN <<i, j>> ELSE <<j, i>>

IndexPairs(compared) == {x \in (DOMAIN compared) \X (DOMAIN compared) : x[1] < x[2]}

ExactPairs(compared) ==
  {Stronger(compared, x[1], x[2]) : x \in
     {y \in IndexPairs(compared) :
        /\ Norm(compared[y[1]]) = Norm(compared[y[2]]) /\ Norm(compared[y[1]]) # ""
        /\ \A k \in 1 .. (y[1] - 1) : Norm(compared[k]) # Norm(compared[y[1]])}}

NearPairs(compared) ==
  {Stronger(compared, x[1], x[2]) : x \in
     {y \in IndexPairs(compared) : {Norm(compared[y[1]]), Norm(compared[y[2]])} \in Similar}}

(* detectDuplicatesPure: the last pair in which a node is the weaker counts,
   near ones after exact ones.  Ids are those of places. *)
DuplicateOf(graph, p) ==
  LET compared == Compared(graph)
      Of(pairs) == {x[1] : x \in {y \in pairs : compared[y[2]].place = p}}
      near == Of(NearPairs(compared))
      exact == Of(ExactPairs(compared))
  IN  {compared[i].place : i \in IF near # {} THEN {CHOOSE i \in near : \A j \in near : j <= i} ELSE exact}

(* detectDeadPure: excludeScopes are not looked at. *)
Unreachable(p) ==
  LET t == Says(p) IN
  CASE t.applyTo.given -> t.applyTo.files \cap RepoFiles = {}
    [] ~t.applyTo.given /\ t.include.given -> t.include.files \cap RepoFiles = {}
    [] OTHER -> ~\E f \in RepoFiles : IsPrefix(p.dir, f.dir)

-----------------------------------------------------------------------------
(* resolveEffectiveStack. *)
RepoLevel == Place(<<>>, "")

(* Seeded fault of InScopes: includeScopes are not looked at. *)
NotExcluded(p, path) == Says(p).exclude.given => path \notin Says(p).exclude.files

InScopes(p, path) ==
  /\ Says(p).include.given => path \in Says(p).include.files
  /\ Says(p).exclude.given => path \notin Says(p).exclude.files

Applies(p, provider, path) ==
  /\ Says(p).providers.given => provider \in Says(p).providers.files
  /\ Provider(p) = provider
  /\ IF Says(p).applyTo.given THEN path \in Says(p).applyTo.files
     ELSE provider = "codex" /\ p # Global => path = RepoLevel \/ IsPrefix(p.dir, path.dir)
  /\ InScopes(p, path)

EffectiveStack(graph, provider, path, profile) ==
  Ordered({n \in ToSet(graph) :
             /\ ~IsSkill(n.place)
             /\ profile.surfaces.given => n.place \in profile.surfaces.files
             /\ Applies(n.place, provider, path)},
          profile.shift)

-----------------------------------------------------------------------------
GraphInit == files = [p \in Places |-> Vacant]

HasRoom(p) == Cardinality({q \in Places \ {p} : files[q] # Vacant}) < MaxFiles

WriteText(p) == HasRoom(p) /\ \E t \in Texts : files' = [files EXCEPT ![p] = Text(t)]
MakeLink(p) ==
  /\ p # Global /\ HasRoom(p)
  /\ \E q \in Places \ {p, Global} : Holds(q) /\ files' = [files EXCEPT ![p] = Link(q)]
RemoveFile(p) ==
  /\ files[p] # Vacant
  /\ \A q \in Places : files[q] # Link(p)
  /\ files' = [files EXCEPT ![p] = Vacant]

GraphNext == \E p \in Places : WriteText(p) \/ MakeLink(p) \/ RemoveFile(p)

GraphSpec == GraphInit /\ [][GraphNext]_graphVars

-----------------------------------------------------------------------------
Queried == {RepoLevel} \cup RepoFiles

(* In every chain, whatever precedence a profile gives its nodes, the node of
   an enclosing directory comes before that of a directory inside it; without
   a profile AGENTS.override.md comes after the AGENTS.md next to it, and the
   global instructions come before all others (compareNodes, computePrecedence). *)
ClosestLast ==
  LET graph == Graph IN
  \A provider \in {"codex", "claude", "gemini", "copilot"}, path \in Queried, profile \in ReadProfiles :
    LET stack == EffectiveStack(graph, provider, path, profile) IN
    \A i, j \in DOMAIN stack : i < j =>
      /\ stack[i].place # Global => ~IsStrictPrefix(stack[j].place.dir, stack[i].place.dir)
      /\ profile.shift = NoShift => stack[j].place # Global
      /\ stack[i].place.name = "AGENTS.override.md" /\ profile.shift = NoShift =>
           stack[j].place # [stack[i].place EXCEPT !.name = "AGENTS.md"]
           \/ Says(stack[j].place).applyTo.given

(* A node of the repository that is reported unreachable is in no chain of any
   provider for any file there is (detectDeadPure against
   resolveEffectiveStack, two readings of the same scopes). *)
UnreachableNeverApplies ==
  LET graph == Graph IN
  \A n \in ToSet(graph) : n.place # Global /\ Unreachable(n.place) =>
    \A provider \in {"codex", "claude", "gemini", "copilot"}, path \in RepoFiles :
      ~Applies(n.place, provider, path)

(* Whatever a node is said to duplicate comes before it in the graph, so that
   following duplicates ends at an original (detectDuplicatesPure).  Links are
   left out: see LinkedDuplicatesPointEarlier. *)
PointsEarlier(graph, n) ==
  \A p \in DuplicateOf(graph, n.place) :
    LexBefore(OrderKey([place |-> p, copy |-> 1], NoShift), OrderKey([n EXCEPT !.copy = 1], NoShift))

DuplicatesPointEarlier ==
  LET graph == Graph IN
  (\A p \in Places : files[p].kind # "link") => \A n \in ToSet(graph) : PointsEarlier(graph, n)

(* Violated: the same where an instruction file is a link to another one. *)
LinkedDuplicatesPointEarlier ==
  LET graph == Graph IN \A n \in ToSet(graph) : PointsEarlier(graph, n)

=============================================================================
