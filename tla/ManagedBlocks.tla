---------------------------- MODULE ManagedBlocks ----------------------------
(***************************************************************************)
(* What ACKit writes into files people also write in: the managed block of *)
(* a provider in an instruction file (core/onboarding/managed-block.ts,    *)
(* init.ts, the fixes of core/context/optimize.ts) and the managed lines   *)
(* of the pre-commit hook (core/watch/hooks.ts).                           *)
(*                                                                         *)
(* A file is a sequence of marks and pieces of text; a file with nothing   *)
(* in it is as good as no file.                                            *)
(***************************************************************************)
EXTENDS Naturals, Sequences, FiniteSets, SequencesExt, FiniteSetsExt

Start(owner) == [kind |-> "start", of |-> owner]
End(owner) == [kind |-> "end", of |-> owner]
Words(what) == [kind |-> "text", of |-> what]

(* The text of the block of a provider (MANAGED_INNER, canonicalInner). *)
Inner(provider) == <<Words(provider)>>
Block(provider) == <<Start(provider)>> \o Inner(provider) \o <<End(provider)>>

FirstFrom(doc, mark, from) ==
  LET at == {i \in from .. Len(doc) : doc[i] = mark} IN IF at = {} THEN 0 ELSE Min(at)

(* Seeded fault of Closing: a block reaches to the last end mark. *)
LastFrom(doc, mark, from) ==
  LET at == {i \in from .. Len(doc) : doc[i] = mark} IN IF at = {} THEN 0 ELSE Max(at)

Closing(doc, mark, from) == FirstFrom(doc, mark, from)

(* The complete blocks of a provider, in order: <<first, last>>.  Each round of
   the search goes on behind the last block found. *)
SearchFrom(spans) == IF spans = <<>> THEN 1 ELSE spans[Len(spans)][2] + 1

SearchOnce(doc, provider, spans) ==
  LET first == FirstFrom(doc, Start(provider), SearchFrom(spans))
      last == IF first = 0 THEN 0 ELSE Closing(doc, End(provider), first)
  IN  IF last = 0 THEN spans ELSE Append(spans, <<first, last>>)

Spans(doc, provider) ==
  LET found[k \in 0 .. Len(doc)] ==
        IF k = 0 THEN <<>> ELSE SearchOnce(doc, provider, found[k - 1])
  IN  found[Len(doc)]

(* What stands in front of the blocks and between them is copied. *)
CopyUpTo(doc, kept, span) ==
  [text |-> kept.text \o SubSeq(doc, kept.from, span[1] - 1), from |-> span[2] + 1]

Between(doc, spans) ==
  FoldLeft(LAMBDA kept, span : CopyUpTo(doc, kept, span), [text |-> <<>>, from |-> 1], spans)

(* ensureManagedBlock: the last block becomes canonical, earlier ones go. *)
Ensure(doc, provider) ==
  LET spans == Spans(doc, provider)
      between == Between(doc, spans)
      last == spans[Len(spans)]
  IN  CASE doc = <<>> -> [output |-> Block(provider), action |-> "created"]
        [] doc # <<>> /\ spans = <<>> -> [output |-> doc \o Block(provider), action |-> "updated"]
        [] OTHER ->
             [output |-> between.text \o Block(provider) \o SubSeq(doc, between.from, Len(doc)),
              action |-> CASE Len(spans) > 1 -> "repaired"
                           [] Len(spans) = 1 /\ SubSeq(doc, last[1] + 1, last[2] - 1) # Inner(provider) ->
                                "updated"
                           [] OTHER -> "unchanged"]

HasManagedBlock(doc, provider) == {Start(provider), End(provider)} \subseteq ToSet(doc)

(* planInstructionSurfaces: a file of the user without a block is refused. *)
PlanSurface(doc, provider) ==
  IF doc # <<>> /\ ~HasManagedBlock(doc, provider)
  THEN [output |-> doc, action |-> "unchanged", row |-> "refused-non-managed"]
  ELSE LET result == Ensure(doc, provider) IN
       [output |-> result.output, action |-> result.action,
        row |-> CASE result.action = "created" -> "created"
                  [] result.action = "unchanged" -> "unchanged"
                  [] OTHER -> "updated-managed"]

(* analyzeOptimize and applyFixes: the suggestion looks for the block of the
   file's own provider, the fix for that of the first start mark. *)
Managed(doc) ==
  \E p, q \in {doc[i].of : i \in DOMAIN doc} \ {"hook"} : {Start(p), End(q)} \subseteq ToSet(doc)

Stale(doc, provider) == Managed(doc) /\ Ensure(doc, provider).action = "updated"

FixedProvider(doc) ==
  doc[Min({i \in DOMAIN doc : doc[i].kind = "start" /\ doc[i].of # "hook"})].of

ApplyFix(doc) ==
  LET result == Ensure(doc, FixedProvider(doc)) IN
  IF result.action = "unchanged" THEN doc ELSE result.output

-----------------------------------------------------------------------------
Shebang == Words("shebang")
HookLines == Block("hook")

InstallHook(doc) ==
  CASE doc = <<>> -> <<Shebang>> \o HookLines
    [] doc # <<>> /\ Start("hook") \in ToSet(doc) -> doc
    [] OTHER -> doc \o HookLines

(* uninstallHook.  Without an end mark, text is cut from the start mark on and
   what follows the first characters of the file is added again; which piece
   these characters end in is left open. *)
UninstallHook(doc) ==
  LET first == FirstFrom(doc, Start("hook"), 1)
      last == FirstFrom(doc, End("hook"), 1)
      Cut(k) == SubSeq(doc, 1, first - 1) \o SubSeq(doc, k + 1, Len(doc))
      Left(rest) == IF rest = <<Shebang>> THEN <<>> ELSE rest
  IN  CASE first = 0 -> {doc}
        [] first # 0 /\ last # 0 -> {Left(Cut(last))}
        [] OTHER -> {Left(Cut(k)) : k \in 1 .. Len(doc)}

-----------------------------------------------------------------------------
(* Reading a document: inside which block one is, whether start and end marks
   came in pairs so far, and what people wrote, the text outside all blocks. *)
Unread == [inside |-> <<>>, paired |-> TRUE, text |-> <<>>]

ReadOn(r, x) ==
  CASE x.kind = "start" -> [r EXCEPT !.inside = <<x.of>>, !.paired = @ /\ r.inside = <<>>]
    [] x.kind = "end" -> [r EXCEPT !.inside = <<>>, !.paired = @ /\ r.inside = <<x.of>>]
    [] OTHER -> IF r.inside = <<>> /\ x # Shebang THEN [r EXCEPT !.text = Append(@, x)] ELSE r

Read(doc) == FoldLeft(ReadOn, Unread, doc)

Tidy(doc) == Read(doc).paired /\ Read(doc).inside = <<>>
Authored(doc) == Read(doc).text

(* The text that is in no complete block of anyone. *)
Free(doc) ==
  LET owned(of) == UNION {span[1] .. span[2] : span \in ToSet(Spans(doc, of))}
  IN  {doc[i] : i \in {k \in DOMAIN doc : doc[k].kind = "text" /\
                         \A mark \in ToSet(doc) : mark.kind = "start" => k \notin owned(mark.of)}}

=============================================================================
