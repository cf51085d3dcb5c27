------------------------------ MODULE MCEditor ------------------------------
(* Two folders, for the editor extension alone. *)
EXTENDS EditorRefresh

MCRoots == {1, 2}

(* No editor: the state of an extension that was disposed before it began. *)
EditorOff ==
  /\ EditorRest
  /\ startup = FALSE /\ disposed = TRUE

(* An analysis throws only where there is one edit. *)
FolderNext ==
  /\ EditorNext
  /\ folders' = folders /\ version'[2] = 0 /\ ~disposed'
  /\ failures' = 0 \/ events' < 2

(* One event; the focus moves between two refreshes, and a service that is
   disposed was so before the event. *)
FoldersNext ==
  /\ EditorNext
  /\ failures' = 0 /\ events' < 2
  /\ disposed' => events' = 0
  /\ active' # active => \A c \in DOMAIN refreshes : refreshes[c].at = 0
=============================================================================
