----------------------------- MODULE MCManaged -----------------------------
(***************************************************************************)
(* One instruction file, a hook and two skills with two versions.  People  *)
(* change either the instruction file, the hook or the first skill; the    *)
(* file and the skills that do not change have been installed before.      *)
(***************************************************************************)
EXTENDS ManagedFiles

VARIABLE part  \* what people change in this behavior: "doc", "hook" or "skills"

mcVars == <<managedVars, part>>

MCSurfaces == <<"claude">>
MCSkills == <<"first", "second">>
MCPieces ==
  {Words("note"), Start("claude"), End("claude"), Start("codex"), End("codex"), Start("hook"), End("hook")}

MCInit ==
  /\ part \in {"doc", "hook", "skills"}
  /\ docs = [p \in {"claude", "hook"} |-> IF p = "claude" /\ part # "doc" THEN Block("claude") ELSE <<>>]
  /\ package = [s \in SkillNames |-> 1]
  /\ ManagedInit
  /\ DOMAIN lock = IF part = "skills" THEN {} ELSE SkillNames

Foreign(doc, p) == \E i \in DOMAIN doc : doc[i].kind # "text" /\ (doc[i].of = "hook") # (p = "hook")

MCNext ==
  /\ UNCHANGED part
  /\ \/ part # "hook" /\ CommandStep /\ (part = "doc" => ~run'.force)
     \/ part = "doc" /\ (Fix("claude") \/ (run.pc = "idle" /\ Edit("claude")))
     \/ part = "hook" /\ (HookCommand \/ Edit("hook"))
     \/ part = "skills" /\ (EditSkill("first") \/ \E s \in SkillNames : Upgrade(s))
  /\ \A p \in DOMAIN docs' : ~Foreign(docs'[p], p)

MCSpec == MCInit /\ [][MCNext]_mcVars
=============================================================================
