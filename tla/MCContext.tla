----------------------------- MODULE MCContext -----------------------------
(***************************************************************************)
(* The repositories on which the walk, the instruction graph and the       *)
(* context pack are compared with their reference definitions.             *)
(***************************************************************************)
EXTENDS InstructionGraph, RepositoryWalk, ContextPack

(* Instruction files: three directories, two links deep at most. *)
Root == Place(<<>>, "AGENTS.md")
Over == Place(<<>>, "AGENTS.override.md")
Claude == Place(<<>>, "CLAUDE.md")
Inner == Place(<<"a">>, "AGENTS.md")
Scoped == Place(<<".github", "instructions">>, "x.instructions.md")
Code == Place(<<"a">>, "code")

MCPlaces == {Root, Over, Claude, Inner, Scoped, Code, Global}
MCPathOrder ==
  [p \in MCPlaces |->
     CASE p = Scoped -> 1 [] p = Root -> 2 [] p = Over -> 3 [] p = Claude -> 4 [] p = Inner -> 5
       [] p = Code -> 6 [] p = Global -> 7]

Plain(norm) ==
  [norm |-> norm, applyTo |-> Unrestricted, include |-> Unrestricted, exclude |-> Unrestricted,
   providers |-> Unrestricted]
MCTexts ==
  {Plain("x"), Plain("y"),
   [Plain("xx") EXCEPT !.applyTo = Only({Code})],
   [Plain("xx") EXCEPT !.include = Only({Code}), !.exclude = Only({Root})]}
MCSimilar == {{"x", "xx"}}
MCReadProfiles ==
  {[surfaces |-> Unrestricted, shift |-> NoShift],
   [surfaces |-> Only({Root, Inner, Code}),
    shift |-> [p \in {Root, Inner} |-> IF p = Root THEN 500 ELSE 0]]}

-----------------------------------------------------------------------------
(* A tree with a directory 3 that has a directory 4, and at 1 and 3/2 a
   directory, a file, something unreadable or a link to and fro. *)
Dir == [kind |-> "dir", readable |-> TRUE]
Locked == [kind |-> "dir", readable |-> FALSE]
Pipe == [kind |-> "special", size |-> 0]
File(size) == [kind |-> "file", size |-> size]
LinkTo(path) == [kind |-> "link", to |-> path]
BaseNodes ==
  (<<>> :> Dir) @@ (<<3>> :> Dir) @@ (<<3, 4>> :> Dir) @@ (<<3, 4, 5>> :> File(2))
  @@ (<<3, 5>> :> File(1)) @@ (<<6>> :> Dir) @@ (<<6, 5>> :> File(1))

Tree(nodes, ignore) == [nodes |-> nodes @@ BaseNodes, ignore |-> ignore]
At(path) == [anchored |-> TRUE, path |-> path, negated |-> FALSE]
Named(name) == [anchored |-> FALSE, name |-> name, negated |-> FALSE]
Not(pattern) == [pattern EXCEPT !.negated = TRUE]

MCTrees ==
  {Tree((<<1>> :> one) @@ (<<3, 2>> :> two), ignore) :
     one \in {Dir, LinkTo(<<3>>), LinkTo(<<3, 4>>), LinkTo(Outside), LinkTo(<<2>>)},
     two \in {Locked, File(3), LinkTo(<<>>), LinkTo(<<3, 4>>), Pipe},
     ignore \in {[p \in {} |-> {}], <<>> :> <<At(<<1>>)>>,
               <<3>> :> <<At(<<1, 4>>), Named(5), Not(At(<<3, 5>>))>>}}

Limits(depth, found, fileBytes, totalBytes) ==
  [depth |-> depth, files |-> found, fileBytes |-> fileBytes, totalBytes |-> totalBytes]
MCBuiltinNames == {6}
MCUserExcludes == {<<3, 2>>}
MCLimitChoices ==
  {Limits(9, 9, 9, 9), Limits(2, 9, 9, 9), Limits(9, 2, 9, 9), Limits(9, 9, 1, 9), Limits(9, 9, 9, 3)}

-----------------------------------------------------------------------------
(* Four candidates; the second path is listed last by the walk. *)
MCPackPaths == 1 .. 4
MCWalkOrder == <<1, 3, 4, 2>>
MCStaticScore == <<8, 70, 30, 2>>
Content(kind, secret, bytes, tokens) ==
  [kind |-> kind, secret |-> secret, bytes |-> bytes, tokens |-> tokens]
MCPackContents ==
  {Content("text", FALSE, 10, 2), Content("text", FALSE, 12, 3), Content("text", FALSE, 20000, 5),
   Content("text", TRUE, 10, 2), Content("binary", FALSE, 10, 0),
   Content("unreadable", FALSE, 10, 0)}
Request(maxTokens, sections, restricted, changed, priority) ==
  [maxTokens |-> maxTokens, sections |-> sections, restricted |-> restricted, changed |-> changed,
   include |-> {4}, scope |-> {}, references |-> {3}, taskChanged |-> {},
   activeTask |-> {1}, imported |-> {1, 3}, priority |-> priority]
NoPriority == [p \in {} |-> 0]
MCPackRequests ==
  {Request(7, <<9, 1>>, FALSE, {}, NoPriority), Request(5, <<>>, TRUE, {1, 2, 3}, [p \in {3} |-> -7])}

=============================================================================
