---------------------------- MODULE MCScanWatch ----------------------------
(***************************************************************************)
(* Two files whose contents have a secret, a secret with an inline marker, *)
(* or a note, and two policies: one disables the rule of notes and         *)
(* suppresses the secrets of the first file, the other raises notes to     *)
(* high.  To keep the instance small a behaviour either gates on baselines *)
(* or watches, or it is one of the editor extension: with one folder that  *)
(* is edited twice ("folder") or with two folders ("folders").             *)
(***************************************************************************)
EXTENDS ScanWatch, MCEditor

VARIABLE mode  \* "gate", "watch", "folder" or "folders"

mcVars == <<vars, editorVars, mode>>

Draft(rule, at, severity, ignored) ==
  [rule |-> rule, at |-> at, severity |-> severity, ignored |-> ignored]
Content(drafts, throws) == [drafts |-> drafts, throws |-> throws]

Leak == Content({Draft("secret", 1, "low", FALSE)}, {"todo"})
Hidden == Content({Draft("secret", 1, "low", TRUE)}, {})
Note == Content({Draft("todo", 1, "low", FALSE)}, {})

MCRuleIds == {"secret", "todo"}
MCPaths == {1, 2}
MCContents == {Leak, Hidden, Note}
MCAppliesTo == [secret |-> {1, 2}, todo |-> {2}]

Document ==
  [rules |-> [r \in {} |-> 0], threshold |-> Unset, scopes |-> {}, suppressions |-> {}, forbidden |-> {}]
Todo(severity, enabled) ==
  [Document EXCEPT !.rules = [r \in {"todo"} |-> [severity |-> severity, enabled |-> enabled, locked |-> FALSE]]]
Quiet ==
  [Todo(Unset, "no") EXCEPT !.suppressions = {[rule |-> "secret", paths |-> {1}, expired |-> FALSE]}]
Strict == Todo("high", Unset)

QuietPolicy == [documents |-> <<Quiet>>, threshold |-> "high"]
StrictPolicy == [documents |-> <<Strict>>, threshold |-> "high"]
MCScanPolicies == {QuietPolicy, StrictPolicy}

(* The second file may get a copy of the first. *)
MCContentsOf == <<{Leak, Hidden}, {Note, Leak}>>

MCInit ==
  /\ Init
  /\ files = <<Leak, Note>> /\ policy = QuietPolicy
  /\ mode \in {"gate", "watch", "folder", "folders"}
  /\ IF mode \in {"gate", "watch"} THEN EditorOff ELSE EditorInit
  /\ folders = (IF mode = "folders" THEN Roots ELSE {1}) /\ active = 1

ScanNext ==
  /\ Next
  /\ session' \in {"none"} \cup (IF mode = "gate" THEN {"write", "ci"} ELSE {"watch"})
  /\ UNCHANGED editorVars

MCNext ==
  /\ mode' = mode
  /\ \/ mode \in {"gate", "watch"} /\ ScanNext
     \/ mode = "folder" /\ FolderNext /\ UNCHANGED vars
     \/ mode = "folders" /\ FoldersNext /\ UNCHANGED vars

MCSpec == MCInit /\ [][MCNext]_mcVars /\ Fairness /\ WF_editorVars(EditorSteps /\ UNCHANGED vars)
=============================================================================
