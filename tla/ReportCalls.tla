----------------------------- MODULE ReportCalls -----------------------------
(***************************************************************************)
(* The calls that answer with a report, for the modules that model the     *)
(* analytics endpoints: those of a workspace in WorkspaceAnalytics, those  *)
(* of a funnel in FunnelReports, which keep reports in one CacheService.   *)
(* A report is named by the call that made it.                             *)
(***************************************************************************)
EXTENDS CacheService

CONSTANT Calls

VARIABLES
    pc,
    query,
    reply,          \* the call whose report it is, NULL, or the answer on an export
    began, ended    \* history: when a call began and was answered
=============================================================================
