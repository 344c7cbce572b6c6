---------------------------- MODULE MCSessionLog ----------------------------
(***************************************************************************)
(* SessionLog with runs that call a tool and are aborted behind it: the    *)
(* shortest that a crash, a failing write or a cut can tear apart.         *)
(***************************************************************************)
EXTENDS SessionLog

MCRuns == {<<Assistant("ToolUse", 1, TRUE), ToolResult(1)>>}

Symmetric == Permutations(Processes) \cup Permutations(Sessions)
=============================================================================
