-------------------------- MODULE MCPaneSupervision --------------------------
(* One pane, a few sessions. *)
EXTENDS PaneSupervision
=============================================================================
