---------------------------- MODULE HookProcesses ----------------------------
(***************************************************************************)
(* The operating-system processes that share the approval ledger and the   *)
(* audit file of PSB-AI-004.  A coding agent starts one hook process for   *)
(* every tool call; nothing orders the processes of different sessions.    *)
(***************************************************************************)
CONSTANTS Procs, NoProc

ASSUME NoProcAssumption == NoProc \notin Procs
=============================================================================
