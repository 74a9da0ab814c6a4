--------------------------- MODULE FunnelStatements ---------------------------
(***************************************************************************)
(* The raw statements of FunnelAnalyticsRepository against the tables of   *)
(* schema.prisma.  Prisma sends their text as it is: a statement that      *)
(* names a column its table does not have, or unites columns of different  *)
(* types, is refused by the database whatever the tables hold.             *)
(*                                                                         *)
(* A statement is the set of columns of base tables it names; what it      *)
(* computes from them is left out.                                         *)
(***************************************************************************)

Of(table, columns) == {table} \X columns

-----------------------------------------------------------------------------
(* The tables.                                                             *)

FunnelTable ==
    Of("funnel", {"id", "tenant_id", "workspace_id", "name", "description", "created_by",
                  "created_at", "archived_at"})

VersionTable == Of("funnel_version", {"id", "funnel_id", "version", "state", "created_by", "created_at"})

StepTable == Of("funnel_step", {"id", "funnel_version_id", "order_index", "type", "label", "metadata"})

UserStateTable ==
    Of("funnel_user_state",
       {"id", "tenant_id", "workspace_id", "funnel_id", "funnel_version_id", "anonymous_id",
        "lead_id", "current_step_id", "current_step_index", "entered_at", "last_activity_at",
        "completed_at", "exited_at", "exit_step_index", "conversion_time_seconds", "status",
        "metadata"})

EventTable ==
    Of("event", {"id", "event_id", "schema_version", "event_name", "timestamp", "tenant_id",
                 "workspace_id", "anonymous_id", "lead_id", "session_id", "page", "utm", "device",
                 "geo", "props", "ingested_at"})

Schema == FunnelTable \cup VersionTable \cup StepTable \cup UserStateTable \cup EventTable

\* The types of event.lead_id and event.anonymous_id.
TypeOfLead == "bigint"
TypeOfVisitor == "varchar"

-----------------------------------------------------------------------------
(* The statements.                                                         *)

States(columns) == Of("funnel_user_state", {"tenant_id", "workspace_id", "funnel_id"} \cup columns)
Events(columns) == Of("event", {"tenant_id", "workspace_id", "anonymous_id", "timestamp"} \cup columns)

\* A funnel is taken to hold its steps itself, which the schema gives a table.
StepsOfFunnel == Of("funnel", {"id", "tenant_id", "steps"})

\* The number of steps of the latest version.
LatestSteps == Of("funnel", {"id"}) \cup Of("funnel_version", {"id", "funnel_id", "version"})
               \cup Of("funnel_step", {"funnel_version_id"})

getStepCompletions ==
    States({"anonymous_id", "current_step", "first_seen_at"}) \cup Of("funnel", {"id", "archived_at"})

getConversionsBySegment ==
    StepsOfFunnel \cup States({"anonymous_id", "current_step", "first_seen_at", "completed_at"})

getConversionTimeSeries ==
    StepsOfFunnel \cup States({"anonymous_id", "current_step", "first_seen_at", "completed_at"})

getAverageStepCompletionTime == States({"current_step", "first_seen_at", "last_step_at"})

getAverageTimeToConvert == StepsOfFunnel \cup States({"current_step", "first_seen_at", "completed_at"})

getConversionVelocity == StepsOfFunnel \cup States({"current_step", "completed_at"})

getAverageConversionRate ==
    StepsOfFunnel \cup States({"anonymous_id", "current_step", "first_seen_at", "completed_at"})

getPeerFunnelMetrics ==
    StepsOfFunnel \cup Of("funnel", {"archived_at", "status"})
    \cup States({"anonymous_id", "current_step", "first_seen_at", "completed_at"})

getStepDropoffRates ==
    StepsOfFunnel \cup States({"anonymous_id", "current_step", "first_seen_at", "last_step_at", "completed_at"})

getExitPathAnalysis ==
    StepsOfFunnel \cup States({"anonymous_id", "current_step", "first_seen_at", "last_step_at", "completed_at"})

getBottleneckSeverityScoring ==
    StepsOfFunnel \cup States({"anonymous_id", "current_step", "first_seen_at", "last_step_at", "completed_at"})

\* It asks for the scores and makes recommendations of them.
generateOptimizationRecommendations == getBottleneckSeverityScoring

getCohortsByPeriod ==
    States({"anonymous_id", "first_seen_at"}) \cup Events({"device", "utm", "geo"})

getCohortProgression ==
    StepsOfFunnel \cup States({"anonymous_id", "current_step", "first_seen_at", "completed_at"})

\* It asks for the progression and compares the cohorts.
compareCohortStatistics == getCohortProgression

getConversionTimingDistribution == LatestSteps \cup Events({"funnel_id", "funnel_step_order"})

getStepTimingAnalysis ==
    Of("funnel", {"id"}) \cup Of("funnel_version", {"id", "funnel_id", "state"})
    \cup Of("funnel_step", {"funnel_version_id", "label", "order_index"})
    \cup Events({"funnel_id", "funnel_step_order"})

getVelocityTrends == LatestSteps \cup Events({"funnel_id", "funnel_step_order"})

getSegmentTimingComparison ==
    LatestSteps \cup Events({"funnel_id", "funnel_step_order", "device", "page", "utm"})

\* It measures activity, entries, conversions and how the users are spread.
getLiveMetrics ==
    States({"anonymous_id", "status", "last_activity_at", "entered_at", "completed_at", "current_step_index"})

getUserProgression ==
    States({"anonymous_id", "lead_id", "current_step_index", "entered_at", "last_activity_at"})
    \cup Events({"event_name", "page", "utm", "device"})

detectAnomalies == States({"status", "entered_at", "last_activity_at", "current_step_index"})

getStepConversionMetrics ==
    StepsOfFunnel \cup Of("funnel", {"archived_at"})
    \cup States({"anonymous_id", "current_step", "first_seen_at", "completed_at"})

getUserJourneys == Events({"lead_id", "event_name", "page", "props"})

getTouchpointJourneys == Events({"lead_id", "event_name", "page", "utm", "device"})

-----------------------------------------------------------------------------
(* What the database refuses.                                              *)

\* The statements that take a lead, or else a visitor: COALESCE wants one type.
LeadOrVisitor == {"getUserJourneys", "getTouchpointJourneys"}

Named == [
    getStepCompletions |-> getStepCompletions,
    getConversionsBySegment |-> getConversionsBySegment,
    getConversionTimeSeries |-> getConversionTimeSeries,
    getAverageStepCompletionTime |-> getAverageStepCompletionTime,
    getAverageTimeToConvert |-> getAverageTimeToConvert,
    getConversionVelocity |-> getConversionVelocity,
    getAverageConversionRate |-> getAverageConversionRate,
    getPeerFunnelMetrics |-> getPeerFunnelMetrics,
    getStepDropoffRates |-> getStepDropoffRates,
    getExitPathAnalysis |-> getExitPathAnalysis,
    getBottleneckSeverityScoring |-> getBottleneckSeverityScoring,
    generateOptimizationRecommendations |-> generateOptimizationRecommendations,
    getCohortsByPeriod |-> getCohortsByPeriod,
    getCohortProgression |-> getCohortProgression,
    compareCohortStatistics |-> compareCohortStatistics,
    getConversionTimingDistribution |-> getConversionTimingDistribution,
    getStepTimingAnalysis |-> getStepTimingAnalysis,
    getVelocityTrends |-> getVelocityTrends,
    getSegmentTimingComparison |-> getSegmentTimingComparison,
    getLiveMetrics |-> getLiveMetrics,
    getUserProgression |-> getUserProgression,
    detectAnomalies |-> detectAnomalies,
    getStepConversionMetrics |-> getStepConversionMetrics,
    getUserJourneys |-> getUserJourneys,
    getTouchpointJourneys |-> getTouchpointJourneys]

NamesNoColumn(m) == ~(Named[m] \subseteq Schema)

MixesTypes(m) == m \in LeadOrVisitor /\ TypeOfLead # TypeOfVisitor

DatabaseRefuses(m) == NamesNoColumn(m) \/ MixesTypes(m)
=============================================================================
