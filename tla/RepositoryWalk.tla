--------------------------- MODULE RepositoryWalk ---------------------------
(***************************************************************************)
(* The breadth-first walk over a repository (walkRepository of             *)
(* core/filesystem/walk.ts) together with what it may not enter            *)
(* (core/filesystem/ignore.ts): every listing of files in ACKit comes from *)
(* it.                                                                     *)
(*                                                                         *)
(* A path is the sequence of names from the root; names are numbers in     *)
(* their order as text.  A link leads to a real path.  A tree t has        *)
(* t.nodes, what is at each real path, and t.ignore, the patterns of the   *)
(* .gitignore in each real directory that has one.                         *)
(***************************************************************************)
EXTENDS Naturals, Sequences, FiniteSets, SequencesExt, FiniteSetsExt, Listing

CONSTANTS
  Trees,         \* the repositories a walk may be about
  LimitChoices,  \* the limits a walk may have
  BuiltinNames,  \* names that are never entered
  UserExcludes   \* paths the configuration excludes

(* The root is a directory, everything else is in one, and what a link leads
   to is resolved already; outside is nowhere in the repository. *)
ASSUME WalkAssumption ==
  \A t \in Trees :
    /\ DOMAIN t.nodes \subseteq Seq(Nat) \ {<<0>>} /\ IsFiniteSet(DOMAIN t.nodes)
    /\ <<>> \in DOMAIN t.nodes /\ t.nodes[<<>>].kind = "dir"
    /\ \A p \in DOMAIN t.nodes \ {<<>>} : Front(p) \in DOMAIN t.nodes /\ t.nodes[Front(p)].kind = "dir"
    /\ \A p \in DOMAIN t.nodes : t.nodes[p].kind = "link" =>
         /\ t.nodes[p].to \in Seq(Nat)
         /\ t.nodes[p].to \in DOMAIN t.nodes => t.nodes[t.nodes[p].to].kind # "link"

VARIABLES
  tree,      \* the repository
  limits,    \* depth, files, fileBytes, totalBytes: no limit is a number out of reach
  queue,     \* directories to read
  visited,   \* where directories were found
  entered,   \* history: every directory that was put into the queue
  yielded,   \* paths of the files found, in order
  problems,  \* diagnostics: <<code, path>>
  status     \* "walking", "done" or "stopped", after an abort, a deadline or a limit

walkVars == <<tree, limits, queue, visited, entered, yielded, problems, status>>

-----------------------------------------------------------------------------
Kind(t, p) == IF p \in DOMAIN t.nodes THEN t.nodes[p].kind ELSE "absent"

(* realpath: a link is replaced by where it leads. *)
Real(t, path) ==
  FoldLeft(LAMBDA real, name :
             LET p == Append(real, name) IN IF Kind(t, p) = "link" THEN t.nodes[p].to ELSE p,
           <<>>, path)

Outside == <<0>>

Ancestors(path) == {SubSeq(path, 1, k) : k \in 0 .. (Len(path) - 1)}

(* A pattern is a name or a path from the root: the matcher of a directory is
   asked about the whole path. *)
Matches(pattern, path) ==
  IF pattern.anchored THEN IsPrefix(pattern.path, path) ELSE pattern.name \in ToSet(path)

(* The last pattern of a .gitignore that matches decides; a negated one takes
   nothing back below a directory that stays ignored. *)
IgnoredBy(patterns, path) ==
  \E k \in 1 .. Len(path) :
    LET hits == {i \in DOMAIN patterns : Matches(patterns[i], SubSeq(path, 1, k))}
    IN  hits # {} /\ ~patterns[Max(hits)].negated

(* decideFile: a .gitignore takes nothing back that another one ignores. *)
Ignored(t, path) ==
  \/ ToSet(path) \cap BuiltinNames # {}
  \/ \E dir \in Ancestors(path) :
       Real(t, dir) \in DOMAIN t.ignore /\ IgnoredBy(t.ignore[Real(t, dir)], path)
  \/ path \in UserExcludes

Entries(t, dir) ==
  LET names == {p[Len(p)] : p \in {q \in DOMAIN t.nodes : q # <<>> /\ Front(q) = Real(t, dir)}}
  IN  ListedBy(names, {x \in names \X names : x[1] < x[2]})

-----------------------------------------------------------------------------
Directory(at, path) == [at |-> at, path |-> path]

Problem(w, code, path) == [w EXCEPT !.problems = @ \cup {<<code, path>>}]
Stop(w, code) == [Problem(w, code, <<>>) EXCEPT !.status = "stopped"]

Bytes(found) == FoldLeft(LAMBDA n, path : n + tree.nodes[Real(tree, path)].size, 0, found)

FoundFile(w, path) ==
  IF tree.nodes[Real(tree, path)].size > limits.fileBytes THEN Problem(w, "bytes", path)
  ELSE LET more == [w EXCEPT !.yielded = Append(@, path)] IN
       CASE Len(more.yielded) >= limits.files -> Stop(more, "files")
         [] Len(more.yielded) < limits.files /\ Bytes(more.yielded) >= limits.totalBytes ->
              Stop(more, "total")
         [] OTHER -> more

Enqueue(w, at, path) ==
  [w EXCEPT !.queue = Append(@, Directory(at, path)), !.visited = @ \cup {at},
            !.entered = @ \cup {Directory(at, path)}]

(* Seeded fault of FoundDirectory: a directory counts as visited although it
   is not entered. *)
MarkedFirst(w, at, path) ==
  CASE at \in w.visited -> IF Ignored(tree, path) THEN w ELSE Problem(w, "cycle", path)
    [] at \notin w.visited /\ Ignored(tree, path) -> [w EXCEPT !.visited = @ \cup {at}]
    [] OTHER -> Enqueue(w, at, path)

(* A directory is recognised by where it is read: a link is resolved, what is
   below an entered link is not. *)
FoundDirectory(w, at, path) ==
  CASE Ignored(tree, path) -> w
    [] ~Ignored(tree, path) /\ at \in w.visited -> Problem(w, "cycle", path)
    [] OTHER -> Enqueue(w, at, path)

(* inspectEntry and what the walk does with the outcome. *)
Inspect(w, path) ==
  LET link == Kind(tree, Append(Real(tree, Front(path)), Last(path))) = "link"
      kind == Kind(tree, Real(tree, path))
  IN  CASE w.status = "stopped" -> w
        [] w.status # "stopped" /\ Real(tree, path) = Outside -> Problem(w, "blocked", path)
        [] w.status # "stopped" /\ kind = "dir" ->
             FoundDirectory(w, IF link THEN Real(tree, path) ELSE path, path)
        [] w.status # "stopped" /\ (kind = "file" \/ (link /\ kind = "special")) ->
             FoundFile(w, path)
        [] OTHER -> Problem(w, IF kind = "absent" THEN "unreadable" ELSE "blocked", path)

Walker == [queue |-> Tail(queue), visited |-> visited, entered |-> entered, yielded |-> yielded,
           problems |-> problems, status |-> status]

Becomes(w) ==
  /\ queue' = w.queue /\ visited' = w.visited /\ entered' = w.entered
  /\ yielded' = w.yielded /\ problems' = w.problems /\ status' = w.status
  /\ UNCHANGED <<tree, limits>>

(* The first names of the directory d are inspected. *)
ReadNames(d, names) ==
  FoldLeft(LAMBDA w, name : Inspect(w, Append(d.path, name)), Walker, names)

-----------------------------------------------------------------------------
WalkInit ==
  /\ tree \in Trees /\ limits \in LimitChoices
  /\ queue = <<Directory(<<>>, <<>>)>> /\ visited = {<<>>} /\ entered = {Directory(<<>>, <<>>)}
  /\ yielded = <<>> /\ problems = {} /\ status = "walking"

ReadDirectory ==
  LET d == Head(queue) IN
  /\ status = "walking" /\ queue # <<>>
  /\ Becomes(CASE Len(d.path) >= limits.depth -> Problem(Walker, "depth", d.path)
               [] Len(d.path) < limits.depth /\ ~tree.nodes[Real(tree, d.at)].readable ->
                    Problem(Walker, "unreadable", d.path)
               [] OTHER -> ReadNames(d, Entries(tree, d.at)))

(* An abort or the deadline is noticed before a directory or after any of its
   entries. *)
GiveUp ==
  /\ status = "walking" /\ queue # <<>>
  /\ LET d == Head(queue)
         names == IF tree.nodes[Real(tree, d.at)].readable /\ Len(d.path) < limits.depth
                  THEN Entries(tree, d.at) ELSE <<>>
     IN \E k \in 0 .. Len(names), code \in {"aborted", "deadline"} :
          LET w == ReadNames(d, SubSeq(names, 1, k)) IN
          /\ w.status = "walking"
          /\ Becomes(Stop(w, code))

WalkEnd ==
  /\ status = "walking" /\ queue = <<>>
  /\ status' = "done"
  /\ UNCHANGED <<tree, limits, queue, visited, entered, yielded, problems>>

WalkNext == ReadDirectory \/ GiveUp \/ WalkEnd

WalkSpec == WalkInit /\ [][WalkNext]_walkVars

(* collectScanTargets *)
Targets == Sublist(yielded, {i \in DOMAIN yielded : ~Ignored(tree, yielded[i])})

-----------------------------------------------------------------------------
Excused(path) ==
  \/ Ignored(tree, path)
  \/ \E code \in {"bytes", "blocked", "depth", "unreadable"} : <<code, path>> \in problems

(* A walk that ends by itself has found every file there is, under one path or
   another, links to and fro, except where a directory on its way was entered
   and the next step from there was ignored or is named in a diagnostic
   (the visited set and the diagnostics of walkRepository). *)
NothingMissedSilently ==
  status = "done" =>
    \A f \in {p \in DOMAIN tree.nodes : Kind(tree, p) = "file"} :
      \/ \E path \in ToSet(Targets) : Real(tree, path) = f
      \/ \E d \in entered, k \in DOMAIN f :
           /\ Real(tree, d.at) = SubSeq(f, 1, k - 1)
           /\ \/ Excused(Append(d.path, f[k]))
              \/ \E code \in {"depth", "unreadable"} : <<code, d.path>> \in problems

(* Violated: no directory is read twice (the comment of walkRepository on its
   set of canonical paths). *)
EachDirectoryOnce == \A d, e \in entered : Real(tree, d.at) = Real(tree, e.at) => d = e

=============================================================================
