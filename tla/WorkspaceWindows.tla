-------------------------- MODULE WorkspaceWindows --------------------------
(***************************************************************************)
(* What the modules about several workspace windows have in common.         *)
(***************************************************************************)
EXTENDS WorkspaceModel

CONSTANTS
  Window,              \* the top-level windows, each with a workspace (WorkspaceId)
  MaxRevision          \* bound on each revision counter
=============================================================================
