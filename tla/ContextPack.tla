---------------------------- MODULE ContextPack ----------------------------
(***************************************************************************)
(* The budgeted context pack (core/context/pack.ts, behind ackit pack and  *)
(* the MCP tool): which files of the repository pass its gates, how they   *)
(* are ranked and which of them the budget holds.                          *)
(*                                                                         *)
(* Paths are numbers in their order as text; the walk lists them in an     *)
(* order of its own, parents first.  Files with one content have one hash. *)
(***************************************************************************)
EXTENDS Integers, Sequences, FiniteSets, SequencesExt, FiniteSetsExt, Listing

CONSTANTS
  PackPaths,     \* paths of the candidates
  WalkOrder,     \* the order in which the walk lists them
  StaticScore,   \* what a path is worth by its name: instruction scope, readme, type
  PackContents,  \* contents: kind, secret, bytes, tokens
  PackRequests   \* requests, with the sections and the task of the command

ASSUME PackAssumption ==
  /\ WalkOrder \in Seq(Nat) /\ IsInjective(WalkOrder) /\ ToSet(WalkOrder) = PackPaths
  /\ StaticScore \in [PackPaths -> Nat]
  /\ \A c \in PackContents : c.bytes \in Nat /\ c.tokens \in Nat
  /\ \A r \in PackRequests :
       /\ r.maxTokens \in Nat /\ r.sections \in Seq(Nat)
       /\ \A p \in PackPaths : p \in DOMAIN r.priority => r.priority[p] \in Int

VARIABLES
  held,     \* what each path holds
  request   \* the request

candidateVars == <<held, request>>

NoFile == [kind |-> "absent", secret |-> FALSE, bytes |-> 0, tokens |-> 0]

-----------------------------------------------------------------------------
(* Gates, in the order of the walk: binary, unreadable, secret, duplicate,
   outside the changed files. *)
Clean(path) == held[path].kind = "text" /\ ~held[path].secret

FirstWith(content) ==
  CHOOSE q \in PackPaths :
    /\ Clean(q) /\ held[q] = content
    /\ \A r \in PackPaths : Clean(r) /\ held[r] = content =>
         SelectInSeq(WalkOrder, LAMBDA x : x = q) <= SelectInSeq(WalkOrder, LAMBDA x : x = r)

Original(path) == FirstWith(held[path])

Candidate(path) ==
  /\ Clean(path) /\ Original(path) = path
  /\ request.restricted => path \in request.changed

-----------------------------------------------------------------------------
(* RANKING_WEIGHTS *)
Bonus(path) ==
  LET If(condition, weight) == IF condition THEN weight ELSE 0 IN
  If(path \in request.include, 100)
  + If(request.restricted, 60) + If(request.restricted /\ path \in request.changed, 60)
  + If(path \in request.scope, 80) + If(path \in request.references, 70)
  + If(path \in request.taskChanged, 60)
  + If(path \in request.activeTask, 50) + If(path \in request.imported, 30)

(* A profile multiplies by a tenth per weight, between a half and two; halves
   round up. *)
Prioritised(score, path) ==
  IF path \notin DOMAIN request.priority THEN score
  ELSE LET tenths == Max({5, Min({20, 10 + request.priority[path]})})
       IN  (2 * score * tenths + 10) \div 20

Penalty(path) == Min({(held[path].bytes \div 4096) * 5, 40})

Score(path) == Prioritised(StaticScore[path] + Bonus(path), path) - Penalty(path)

Before(p, q) == Score(p) > Score(q) \/ (Score(p) = Score(q) /\ p < q)

(* Seeded fault of Ranked: the order of the listing stays. *)
AsListed == Sublist(WalkOrder, {i \in DOMAIN WalkOrder : Candidate(WalkOrder[i])})

Ranked ==
  LET candidates == {p \in PackPaths : Candidate(p)}
  IN  ListedBy(candidates, {x \in candidates \X candidates : Before(x[1], x[2])})

-----------------------------------------------------------------------------
(* Sections first, then files, each where it fits. *)
Fill(used, items, tokens) ==
  FoldLeft(LAMBDA pack, item :
             IF pack.used + tokens[item] <= request.maxTokens
             THEN [used |-> pack.used + tokens[item], included |-> Append(pack.included, item)]
             ELSE pack,
           [used |-> used, included |-> <<>>], items)

Sections == Fill(0, request.sections, [section \in ToSet(request.sections) |-> section])

Selection == Fill(Sections.used, Ranked, [path \in PackPaths |-> held[path].tokens])

(* finalizeManifest: what becomes of each path. *)
Action(path) ==
  CASE path \in ToSet(Selection.included) -> "included"
    [] held[path].kind = "binary" -> "binary"
    [] held[path].kind = "unreadable" -> "unreadable"
    [] held[path].kind = "text" /\ held[path].secret -> "secret"
    [] Clean(path) /\ Original(path) # path -> "duplicate"
    [] Clean(path) /\ Original(path) = path /\ ~Candidate(path) -> "outside"
    [] Candidate(path) /\ path \notin ToSet(Selection.included) -> "budget"
    [] OTHER -> "absent"

-----------------------------------------------------------------------------
PackInit == held = [p \in PackPaths |-> NoFile] /\ request \in PackRequests

WriteCandidate(p) == \E c \in PackContents : held' = [held EXCEPT ![p] = c] /\ UNCHANGED request

PackNext == \E p \in PackPaths : WriteCandidate(p)

PackSpec == PackInit /\ [][PackNext]_candidateVars

-----------------------------------------------------------------------------
(* The tokens of the files together. *)
Tokens(files) == Cardinality(UNION {{p} \X (1 .. held[p].tokens) : p \in files})

(* A pack never exceeds its budget, a file left out for the budget does not
   fit next to the sections and the better files, and no two files of a pack
   have one content (the selection of buildContextPack). *)
BestThatFit ==
  LET packed == {p \in PackPaths : Action(p) = "included"}
      better(p) == {q \in packed : Before(q, p)}
  IN  /\ Sections.used + Tokens(packed) <= request.maxTokens
      /\ \A p \in PackPaths : Action(p) = "budget" =>
           Sections.used + Tokens(better(p) \cup {p}) > request.maxTokens
      /\ \A p, q \in packed : held[p] = held[q] => p = q

(* Violated: a file left out as a duplicate is the lower ranked one of the two
   (docs/concepts/context-budget.md). *)
DuplicateOfHigherRanked ==
  \A p \in PackPaths : Action(p) = "duplicate" => Before(Original(p), p)

(* Violated: in a pack of the changed files, what changed is packed under some
   path unless the budget or a gate excludes it. *)
ChangedContentPacked ==
  \A p \in PackPaths : Action(p) = "duplicate" /\ request.restricted /\ p \in request.changed =>
    Action(Original(p)) # "outside"

=============================================================================
