------------------------------- MODULE MCEstate -------------------------------
(* Components that share no state: a behaviour of this model is one of one of  *)
(* them.  In "reload" the editors save the Service Config and the first file,  *)
(* an edit that is not a save falls in a reload or beside an open editor, and  *)
(* the daemon restarts between two reloads, after the last edit.                *)
EXTENDS IssueWorkspaces, ConfigReload

VARIABLE part

EstateInit == part \in {"workspaces", "reload"} /\ WorkspacesInit /\ ReloadInit

Environment ==
    /\ request'.doc <= 1
    /\ edits' # edits => turn # <<>> \/ request.at \in {"open", "write"}
    /\ restarts' # restarts => turn = <<>> /\ edits = MaxEdits /\ request.at = "idle"

EstateNext ==
    /\ UNCHANGED part
    /\ \/ part = "workspaces" /\ WorkspacesNext /\ UNCHANGED reloadVars
       \/ part = "reload" /\ ReloadNext /\ UNCHANGED workspaceVars
    /\ Environment

EstateSpec == EstateInit /\ [][EstateNext]_<<part, workspaceVars, reloadVars>>
===============================================================================
