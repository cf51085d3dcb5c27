---------------------------- MODULE ExtendsWalk ----------------------------
(***************************************************************************)
(* The depth-first walk that loads documents which extend others: policy   *)
(* documents (loadChain of core/policy/resolve.ts), where the first        *)
(* problem ends it, and rule packs (dfs of core/policy/packs/load.ts),     *)
(* where it goes on without the document that has the problem.  The search *)
(* for circles among the dependencies of tasks (visit of                   *)
(* core/tasks/store.ts) is the same walk.                                  *)
(*                                                                         *)
(* A graph g has g.extends, what each readable file extends, in order, and *)
(* g.strict, whether a problem ends the walk.  A frame of the stack is a   *)
(* file and what of its extends is still to follow; the entry files are    *)
(* the bottom frame.                                                       *)
(***************************************************************************)
EXTENDS Naturals, Sequences, FiniteSets, SequencesExt

Top(walk) == walk.stack[Len(walk.stack)]
OnStack(walk) == {walk.stack[i].file : i \in 2 .. Len(walk.stack)}
Seen(walk) == ToSet(walk.loaded) \cup OnStack(walk)

Frame(file, todo) == [file |-> file, todo |-> todo]

(* Seeded fault of Enter: a document is recorded before those it extends. *)
EnterFirst(g, walk, file) ==
  CASE file \in Seen(walk) -> walk
    [] file \notin Seen(walk) /\ file \notin DOMAIN g.extends ->
         [walk EXCEPT !.problems = @ \cup {<<"unreadable", file>>}]
    [] OTHER ->
         [walk EXCEPT !.loaded = Append(@, file),
                      !.stack = Append(@, Frame(file, g.extends[file]))]

(* Seeded fault of Enter: a document that is still open counts as loaded. *)
EnterOnce(g, walk, file) ==
  CASE file \in Seen(walk) -> walk
    [] file \notin Seen(walk) /\ file \notin DOMAIN g.extends ->
         [walk EXCEPT !.problems = @ \cup {<<"unreadable", file>>}]
    [] OTHER -> [walk EXCEPT !.stack = Append(@, Frame(file, g.extends[file]))]

Enter(g, walk, file) ==
  CASE file \in ToSet(walk.loaded) -> walk
    [] file \in OnStack(walk) -> [walk EXCEPT !.problems = @ \cup {<<"cycle", file>>}]
    [] file \notin Seen(walk) /\ file \notin DOMAIN g.extends ->
         [walk EXCEPT !.problems = @ \cup {<<"unreadable", file>>}]
    [] OTHER -> [walk EXCEPT !.stack = Append(@, Frame(file, g.extends[file]))]

Leave(walk) ==
  [walk EXCEPT !.stack = Front(@),
               !.loaded = IF Len(walk.stack) = 1 THEN @ ELSE Append(@, Top(walk).file)]

WalkEnds(g, walk) ==
  \/ walk.stack = <<>>
  \/ g.strict /\ walk.problems # {}

WalkStep(g, walk) ==
  IF WalkEnds(g, walk) THEN walk
  ELSE IF Top(walk).todo = <<>> THEN Leave(walk)
  ELSE Enter(g, [walk EXCEPT !.stack[Len(walk.stack)].todo = Tail(@)], Head(Top(walk).todo))

(* Each file is entered and left at most once, and each reference of a file is
   followed once. *)
WalkLength(g, entries) ==
  Len(entries) + 1 + Cardinality(UNION {{f} \X (0 .. Len(g.extends[f])) : f \in DOMAIN g.extends})

Walk(g, entries) ==
  LET after[n \in Nat] ==
        IF n = 0
        THEN [stack |-> <<[todo |-> entries]>>, loaded |-> <<>>, problems |-> {}]
        ELSE WalkStep(g, after[n - 1])
  IN  after[WalkLength(g, entries)]

-----------------------------------------------------------------------------
(* Reference: the files reached from some files along the extends of readable
   ones. *)
ReachedFrom(g, start) ==
  LET reached[n \in 0 .. Cardinality(DOMAIN g.extends)] ==
        IF n = 0 THEN start
        ELSE reached[n - 1] \cup
               UNION {ToSet(g.extends[f]) : f \in reached[n - 1] \cap DOMAIN g.extends}
  IN  reached[Cardinality(DOMAIN g.extends)]

OnCycle(g, f) == f \in DOMAIN g.extends /\ f \in ReachedFrom(g, ToSet(g.extends[f]))

=============================================================================
