------------------------------ MODULE ApiRoutes ------------------------------
(***************************************************************************)
(* The operations of the API: the generated wrapper of each, path by path, *)
(* their registration with the router, and how the router, chi, finds the  *)
(* one for a request.                                                      *)
(*                                                                         *)
(* Of a wrapper there is the method and the path it is registered for, the *)
(* scope that its security asks for, and the query parameters over which   *)
(* binding can refuse the request before its handler runs: the required    *)
(* ones and those that are a flag, a number or a date.  The others and the *)
(* path's own are strings, which always bind.                              *)
(***************************************************************************)
EXTENDS Naturals, Sequences, TLC

Var == "{}"      \* a parameter of a path; anything else is a literal

Open == {}
CollectionRead == {<<"collection", TRUE>>}
CollectionWrite == {<<"collection", FALSE>>}
OpRead == {<<"op", TRUE>>}
OpWrite == {<<"op", FALSE>>}
StigRead == {<<"stig", TRUE>>}
StigWrite == {<<"stig", FALSE>>}
UserRead == {<<"user", TRUE>>}
UserWrite == {<<"user", FALSE>>}

Wrapper(method, scope, checked) == [method |-> method, scope |-> scope, checked |-> checked]
Get(scope, checked) == Wrapper("GET", scope, checked)
Put(scope, checked) == Wrapper("PUT", scope, checked)
Post(scope, checked) == Wrapper("POST", scope, checked)
Patch(scope, checked) == Wrapper("PATCH", scope, checked)
Delete(scope, checked) == Wrapper("DELETE", scope, checked)

At(path, wrappers) ==
    [o \in DOMAIN wrappers |->
        [path |-> path, method |-> wrappers[o].method,
         scope |-> wrappers[o].scope, checked |-> wrappers[o].checked]]

AssetPath == <<"assets", Var>>
CollectionPath == <<"collections", Var>>
ReviewPath == CollectionPath \o <<"reviews", Var, Var>>
RevisionPath == <<"stigs", Var, "revisions", Var>>

Assets == At(<<"assets">>,
   [GetAssets |-> Get(CollectionRead, {"collectionId"}),
    PatchAssets |-> Patch(CollectionWrite, {"collectionId"}),
    CreateAsset |-> Post(CollectionWrite, {})])
Asset == At(AssetPath,
   [DeleteAsset |-> Delete(CollectionWrite, {}), GetAsset |-> Get(CollectionRead, {}),
    UpdateAsset |-> Patch(CollectionWrite, {}), ReplaceAsset |-> Put(CollectionWrite, {})])
AssetChecklists == At(AssetPath \o <<"checklists">>,
   [GetChecklistByAsset |-> Get(CollectionWrite, {})])
AssetChecklistsBenchmarkIdRevisionStr == At(AssetPath \o <<"checklists", Var, Var>>,
   [GetChecklistByAssetStig |-> Get(CollectionWrite, {})])
AssetMetadata == At(AssetPath \o <<"metadata">>,
   [GetAssetMetadata |-> Get(CollectionRead, {}),
    PatchAssetMetadata |-> Patch(CollectionWrite, {}),
    PutAssetMetadata |-> Put(CollectionWrite, {})])
AssetMetadataKeys == At(AssetPath \o <<"metadata", "keys">>,
   [GetAssetMetadataKeys |-> Get(CollectionRead, {})])
AssetMetadataKeysKey == At(AssetPath \o <<"metadata", "keys", Var>>,
   [DeleteAssetMetadataKey |-> Delete(CollectionWrite, {}),
    GetAssetMetadataValue |-> Get(CollectionRead, {}),
    PutAssetMetadataValue |-> Put(CollectionWrite, {})])
AssetStigs == At(AssetPath \o <<"stigs">>,
   [RemoveStigsFromAsset |-> Delete(CollectionWrite, {}),
    GetStigsByAsset |-> Get(CollectionRead, {})])
AssetStigsBenchmarkId == At(AssetPath \o <<"stigs", Var>>,
   [RemoveStigFromAsset |-> Delete(CollectionWrite, {}),
    AttachStigToAsset |-> Put(CollectionWrite, {})])

AssetRoutes ==
    Assets @@ Asset @@ AssetChecklists @@ AssetChecklistsBenchmarkIdRevisionStr
    @@ AssetMetadata @@ AssetMetadataKeys @@ AssetMetadataKeysKey @@ AssetStigs
    @@ AssetStigsBenchmarkId

Collections == At(<<"collections">>,
   [GetCollections |-> Get(CollectionRead, {"elevate"}),
    CreateCollection |-> Post(CollectionWrite, {"elevate"})])
Collection == At(CollectionPath,
   [DeleteCollection |-> Delete(CollectionWrite, {"elevate"}),
    GetCollection |-> Get(CollectionRead, {"elevate"}),
    UpdateCollection |-> Patch(CollectionWrite, {"elevate"}),
    ReplaceCollection |-> Put(CollectionWrite, {"elevate"})])
CollectionArchiveCkl == At(CollectionPath \o <<"archive", "ckl">>,
   [PostCklArchiveByCollection |-> Post(CollectionRead, {})])
CollectionArchiveCklb == At(CollectionPath \o <<"archive", "cklb">>,
   [PostCklbArchiveByCollection |-> Post(CollectionRead, {})])
CollectionArchiveXccdf == At(CollectionPath \o <<"archive", "xccdf">>,
   [PostXccdfArchiveByCollection |-> Post(CollectionRead, {})])
CollectionAssets == At(CollectionPath \o <<"assets">>,
   [CreateAssets |-> Post(CollectionWrite, {"dryRun"})])
CollectionChecklistsBenchmarkIdRevisionStr == At(CollectionPath \o <<"checklists", Var, Var>>,
   [GetChecklistByCollectionStig |-> Get(CollectionRead, {})])
CollectionClone == At(CollectionPath \o <<"clone">>,
   [CloneCollection |-> Post(CollectionWrite, {})])
CollectionExportToDstCollectionId == At(CollectionPath \o <<"export-to", Var>>,
   [ExportToCollection |-> Post(CollectionRead, {})])
CollectionGrants == At(CollectionPath \o <<"grants">>,
   [GetGrantsByCollection |-> Get(CollectionRead, {"elevate"}),
    PostGrantsByCollection |-> Post(CollectionWrite, {"elevate"})])
CollectionGrantsGrantId == At(CollectionPath \o <<"grants", Var>>,
   [DeleteGrantByCollectionGrant |-> Delete(CollectionWrite, {"elevate"}),
    GetGrantByCollectionGrant |-> Get(CollectionRead, {"elevate"}),
    PutGrantByCollectionGrant |-> Put(CollectionWrite, {"elevate"})])
CollectionGrantsGrantIdAcl == At(CollectionPath \o <<"grants", Var, "acl">>,
   [GetAclRulesByCollectionGrant |-> Get(CollectionRead, {}),
    PutAclRulesByCollectionGrant |-> Put(CollectionWrite, {})])
CollectionLabels == At(CollectionPath \o <<"labels">>,
   [GetCollectionLabels |-> Get(CollectionRead, {}),
    CreateCollectionLabel |-> Post(CollectionRead, {})])
CollectionLabelsBatch == At(CollectionPath \o <<"labels", "batch">>,
   [CreateCollectionLabels |-> Post(CollectionRead, {})])
CollectionLabelsLabelId == At(CollectionPath \o <<"labels", Var>>,
   [DeleteCollectionLabelById |-> Delete(CollectionWrite, {}),
    GetCollectionLabelById |-> Get(CollectionRead, {}),
    PatchCollectionLabelById |-> Patch(CollectionWrite, {})])
CollectionLabelsLabelIdAssets == At(CollectionPath \o <<"labels", Var, "assets">>,
   [GetAssetsByCollectionLabelId |-> Get(CollectionRead, {}),
    PutAssetsByCollectionLabelId |-> Put(CollectionWrite, {})])
CollectionMetadata == At(CollectionPath \o <<"metadata">>,
   [GetCollectionMetadata |-> Get(CollectionRead, {}),
    PatchCollectionMetadata |-> Patch(CollectionWrite, {}),
    PutCollectionMetadata |-> Put(CollectionWrite, {})])
CollectionMetadataKeys == At(CollectionPath \o <<"metadata", "keys">>,
   [GetCollectionMetadataKeys |-> Get(CollectionRead, {})])
CollectionMetadataKeysKey == At(CollectionPath \o <<"metadata", "keys", Var>>,
   [DeleteCollectionMetadataKey |-> Delete(CollectionWrite, {}),
    GetCollectionMetadataValue |-> Get(CollectionRead, {}),
    PutCollectionMetadataValue |-> Put(CollectionWrite, {})])

CollectionRoutes ==
    Collections @@ Collection @@ CollectionArchiveCkl @@ CollectionArchiveCklb
    @@ CollectionArchiveXccdf @@ CollectionAssets
    @@ CollectionChecklistsBenchmarkIdRevisionStr @@ CollectionClone
    @@ CollectionExportToDstCollectionId @@ CollectionGrants @@ CollectionGrantsGrantId
    @@ CollectionGrantsGrantIdAcl @@ CollectionLabels @@ CollectionLabelsBatch
    @@ CollectionLabelsLabelId @@ CollectionLabelsLabelIdAssets @@ CollectionMetadata
    @@ CollectionMetadataKeys @@ CollectionMetadataKeysKey

CollectionsMetaMetricsDetail == At(<<"collections", "meta", "metrics", "detail">>,
   [GetMetricsDetailByMeta |-> Get(CollectionRead, {})])
CollectionsMetaMetricsDetailCollection ==
  At(<<"collections", "meta", "metrics", "detail", "collection">>,
   [GetMetricsDetailByMetaAggCollection |-> Get(CollectionRead, {})])
CollectionsMetaMetricsDetailStig == At(<<"collections", "meta", "metrics", "detail", "stig">>,
   [GetMetricsDetailByMetaAggStig |-> Get(CollectionRead, {})])
CollectionsMetaMetricsSummary == At(<<"collections", "meta", "metrics", "summary">>,
   [GetMetricsSummaryByMeta |-> Get(CollectionRead, {})])
CollectionsMetaMetricsSummaryCollection ==
  At(<<"collections", "meta", "metrics", "summary", "collection">>,
   [GetMetricsSummaryByMetaAggCollection |-> Get(CollectionRead, {})])
CollectionsMetaMetricsSummaryStig == At(<<"collections", "meta", "metrics", "summary", "stig">>,
   [GetMetricsSummaryByMetaAggStig |-> Get(CollectionRead, {})])
CollectionFindings == At(CollectionPath \o <<"findings">>,
   [GetFindingsByCollection |-> Get(CollectionRead, {"aggregator", "acceptedOnly"})])
CollectionMetricsDetail == At(CollectionPath \o <<"metrics", "detail">>,
   [GetMetricsDetailByCollection |-> Get(CollectionRead, {})])
CollectionMetricsDetailAsset == At(CollectionPath \o <<"metrics", "detail", "asset">>,
   [GetMetricsDetailByCollectionAggAsset |-> Get(CollectionRead, {})])
CollectionMetricsDetailCollection == At(CollectionPath \o <<"metrics", "detail", "collection">>,
   [GetMetricsDetailByCollectionAgg |-> Get(CollectionRead, {})])
CollectionMetricsDetailLabel == At(CollectionPath \o <<"metrics", "detail", "label">>,
   [GetMetricsDetailByCollectionAggLabel |-> Get(CollectionRead, {})])
CollectionMetricsDetailStig == At(CollectionPath \o <<"metrics", "detail", "stig">>,
   [GetMetricsDetailByCollectionAggStig |-> Get(CollectionRead, {})])
CollectionMetricsSummary == At(CollectionPath \o <<"metrics", "summary">>,
   [GetMetricsSummaryByCollection |-> Get(CollectionRead, {})])
CollectionMetricsSummaryAsset == At(CollectionPath \o <<"metrics", "summary", "asset">>,
   [GetMetricsSummaryByCollectionAggAsset |-> Get(CollectionRead, {})])
CollectionMetricsSummaryCollection ==
  At(CollectionPath \o <<"metrics", "summary", "collection">>,
   [GetMetricsSummaryByCollectionAgg |-> Get(CollectionRead, {})])
CollectionMetricsSummaryLabel == At(CollectionPath \o <<"metrics", "summary", "label">>,
   [GetMetricsSummaryByCollectionAggLabel |-> Get(CollectionRead, {})])
CollectionMetricsSummaryStig == At(CollectionPath \o <<"metrics", "summary", "stig">>,
   [GetMetricsSummaryByCollectionAggStig |-> Get(CollectionRead, {})])
CollectionPoam == At(CollectionPath \o <<"poam">>,
   [GetPoamByCollection |-> Get(CollectionRead, {"aggregator", "acceptedOnly"})])
CollectionUnreviewedAssets == At(CollectionPath \o <<"unreviewed", "assets">>,
   [GetUnreviewedAssetsByCollection |-> Get(CollectionRead, {})])
CollectionUnreviewedRules == At(CollectionPath \o <<"unreviewed", "rules">>,
   [GetUnreviewedRulesByCollection |-> Get(CollectionRead, {})])

ReportRoutes ==
    CollectionsMetaMetricsDetail @@ CollectionsMetaMetricsDetailCollection
    @@ CollectionsMetaMetricsDetailStig @@ CollectionsMetaMetricsSummary
    @@ CollectionsMetaMetricsSummaryCollection @@ CollectionsMetaMetricsSummaryStig
    @@ CollectionFindings @@ CollectionMetricsDetail @@ CollectionMetricsDetailAsset
    @@ CollectionMetricsDetailCollection @@ CollectionMetricsDetailLabel
    @@ CollectionMetricsDetailStig @@ CollectionMetricsSummary
    @@ CollectionMetricsSummaryAsset @@ CollectionMetricsSummaryCollection
    @@ CollectionMetricsSummaryLabel @@ CollectionMetricsSummaryStig @@ CollectionPoam
    @@ CollectionUnreviewedAssets @@ CollectionUnreviewedRules

CollectionReviewHistory == At(CollectionPath \o <<"review-history">>,
   [DeleteReviewHistoryByCollection |-> Delete(CollectionWrite, {"retentionDate"}),
    GetReviewHistoryByCollection |-> Get(CollectionRead, {"startDate", "endDate"})])
CollectionReviewHistoryStats == At(CollectionPath \o <<"review-history", "stats">>,
   [GetReviewHistoryStatsByCollection |-> Get(CollectionRead, {"startDate", "endDate"})])
CollectionReviews == At(CollectionPath \o <<"reviews">>,
   [GetReviewsByCollection |-> Get(CollectionRead, {}),
    PostReviewBatch |-> Post(CollectionWrite, {})])
CollectionReviewsAssetId == At(CollectionPath \o <<"reviews", Var>>,
   [GetReviewsByAsset |-> Get(CollectionRead, {}),
    PostReviewsByAsset |-> Post(CollectionWrite, {})])
Review == At(ReviewPath,
   [DeleteReviewByAssetRule |-> Delete(CollectionWrite, {}),
    GetReviewByAssetRule |-> Get(CollectionRead, {}),
    PatchReviewByAssetRule |-> Patch(CollectionWrite, {}),
    PutReviewByAssetRule |-> Put(CollectionWrite, {})])
ReviewMetadata == At(ReviewPath \o <<"metadata">>,
   [GetReviewMetadata |-> Get(CollectionRead, {}),
    PatchReviewMetadata |-> Patch(CollectionWrite, {}),
    PutReviewMetadata |-> Put(CollectionWrite, {})])
ReviewMetadataKeys == At(ReviewPath \o <<"metadata", "keys">>,
   [GetReviewMetadataKeys |-> Get(CollectionRead, {})])
ReviewMetadataKeysKey == At(ReviewPath \o <<"metadata", "keys", Var>>,
   [DeleteReviewMetadataKey |-> Delete(CollectionWrite, {}),
    GetReviewMetadataValue |-> Get(CollectionRead, {}),
    PutReviewMetadataValue |-> Put(CollectionWrite, {})])

ReviewRoutes ==
    CollectionReviewHistory @@ CollectionReviewHistoryStats @@ CollectionReviews
    @@ CollectionReviewsAssetId @@ Review @@ ReviewMetadata @@ ReviewMetadataKeys
    @@ ReviewMetadataKeysKey

CollectionStigs == At(CollectionPath \o <<"stigs">>,
   [GetStigsByCollection |-> Get(CollectionRead, {})])
CollectionStigsBenchmarkId == At(CollectionPath \o <<"stigs", Var>>,
   [GetStigByCollection |-> Get(CollectionRead, {}),
    WriteStigPropsByCollectionStig |-> Post(CollectionWrite, {})])
CollectionStigsBenchmarkIdAssets == At(CollectionPath \o <<"stigs", Var, "assets">>,
   [GetAssetsByStig |-> Get(CollectionRead, {}),
    AttachAssetsToStig |-> Put(CollectionWrite, {})])
CollectionUsersUserIdEffectiveAcl == At(CollectionPath \o <<"users", Var, "effective-acl">>,
   [GetEffectiveAclByCollectionUser |-> Get(CollectionRead, {})])

CollectionStigRoutes ==
    CollectionStigs @@ CollectionStigsBenchmarkId
    @@ CollectionStigsBenchmarkIdAssets @@ CollectionUsersUserIdEffectiveAcl

Jobs == At(<<"jobs">>,
   [GetJobs |-> Get(OpRead, {"elevate"}), PostJob |-> Post(OpWrite, {"elevate"})])
JobRun == At(<<"jobs", "runs", Var>>,
   [DeleteRunById |-> Delete(OpWrite, {"elevate"}), GetRunById |-> Get(OpRead, {"elevate"})])
JobsRunsRunIdOutput == At(<<"jobs", "runs", Var, "output">>,
   [GetOutputByRun |-> Get(OpRead, {"elevate", "after-seq"})])
JobsTasks == At(<<"jobs", "tasks">>, [GetAllTasks |-> Get(OpRead, {"elevate"})])
Job == At(<<"jobs", Var>>,
   [DeleteJob |-> Delete(OpWrite, {"elevate"}), GetJob |-> Get(OpRead, {"elevate"}),
    PatchJob |-> Patch(OpWrite, {"elevate"})])
JobsJobIdRuns == At(<<"jobs", Var, "runs">>,
   [GetRunsByJob |-> Get(OpRead, {"elevate"}),
    RunImmediateJob |-> Post(OpWrite, {"elevate"})])

JobRoutes ==
    Jobs @@ JobRun @@ JobsRunsRunIdOutput @@ JobsTasks @@ Job @@ JobsJobIdRuns

OpAppdata == At(<<"op", "appdata">>,
   [GetAppData |-> Get(OpRead, {"elevate"}), ReplaceAppData |-> Post(OpWrite, {"elevate"})])
OpAppdataTables == At(<<"op", "appdata", "tables">>,
   [GetAppDataTables |-> Get(OpRead, {"elevate"})])
OpAppinfo == At(<<"op", "appinfo">>,
   [GetAppInfo |-> Get(OpRead, {"elevate", "includeRowCounts"})])
OpConfiguration == At(<<"op", "configuration">>, [GetConfiguration |-> Get(Open, {})])
OpDefinition == At(<<"op", "definition">>, [GetDefinition |-> Get(Open, {})])
OpDetails == At(<<"op", "details">>, [GetDetails |-> Get(OpRead, {"elevate"})])
OpState == At(<<"op", "state">>, [GetState |-> Get(Open, {})])
OpStateSse == At(<<"op", "state", "sse">>, [StreamStateSse |-> Get(Open, {})])

OpRoutes ==
    OpAppdata @@ OpAppdataTables @@ OpAppinfo @@ OpConfiguration @@ OpDefinition
    @@ OpDetails @@ OpState @@ OpStateSse

Stigs == At(<<"stigs">>,
   [GetSTIGs |-> Get(StigRead, {"elevate"}),
    ImportBenchmark |-> Post(StigWrite, {"clobber", "elevate"})])
StigsCcisCci == At(<<"stigs", "ccis", Var>>, [GetCci |-> Get(StigRead, {})])
StigsRulesRuleId == At(<<"stigs", "rules", Var>>, [GetRuleByRuleId |-> Get(StigRead, {})])
StigsScapMaps == At(<<"stigs", "scap-maps">>, [GetScapMap |-> Get(StigRead, {})])
Stig == At(<<"stigs", Var>>,
   [DeleteStigById |-> Delete(StigWrite, {"elevate", "force"}),
    GetStigById |-> Get(StigRead, {"elevate"})])
StigsBenchmarkIdRevisions == At(<<"stigs", Var, "revisions">>,
   [GetRevisionsByBenchmarkId |-> Get(StigRead, {"elevate"})])
Revision == At(RevisionPath,
   [DeleteRevisionByString |-> Delete(StigWrite, {"elevate", "force"}),
    GetRevisionByString |-> Get(StigRead, {"elevate"})])
RevisionCcis == At(RevisionPath \o <<"ccis">>, [GetCcisByRevision |-> Get(StigRead, {})])
RevisionGroups == At(RevisionPath \o <<"groups">>, [GetGroupsByRevision |-> Get(StigRead, {})])
RevisionGroupsGroupId == At(RevisionPath \o <<"groups", Var>>,
   [GetGroupByRevision |-> Get(StigRead, {})])
RevisionRules == At(RevisionPath \o <<"rules">>, [GetRulesByRevision |-> Get(StigRead, {})])
RevisionRulesRuleId == At(RevisionPath \o <<"rules", Var>>,
   [GetRuleByRevision |-> Get(StigRead, {})])

StigRoutes ==
    Stigs @@ StigsCcisCci @@ StigsRulesRuleId @@ StigsScapMaps @@ Stig
    @@ StigsBenchmarkIdRevisions @@ Revision @@ RevisionCcis @@ RevisionGroups
    @@ RevisionGroupsGroupId @@ RevisionRules @@ RevisionRulesRuleId

CurrentUser == At(<<"user">>, [GetUser |-> Get(UserRead, {})])
UserGroups == At(<<"user-groups">>,
   [GetUserGroups |-> Get(UserRead, {"elevate"}),
    CreateUserGroup |-> Post(UserWrite, {"elevate"})])
UserGroup == At(<<"user-groups", Var>>,
   [DeleteUserGroup |-> Delete(UserWrite, {"elevate"}),
    GetUserGroup |-> Get(UserRead, {"elevate"}),
    PatchUserGroup |-> Patch(UserWrite, {"elevate"}),
    PutUserGroup |-> Put(UserWrite, {"elevate"})])
UserWebPreferences == At(<<"user", "web-preferences">>,
   [GetUserWebPreferences |-> Get(UserRead, {}),
    PatchUserWebPreferences |-> Patch(UserRead, {})])
Users == At(<<"users">>,
   [GetUsers |-> Get(UserRead, {"elevate"}), CreateUser |-> Post(UserWrite, {"elevate"})])
UserById == At(<<"users", Var>>,
   [DeleteUser |-> Delete(UserWrite, {"elevate"}),
    GetUserByUserId |-> Get(UserRead, {"elevate"}),
    UpdateUser |-> Patch(UserWrite, {"elevate"}),
    ReplaceUser |-> Put(UserWrite, {"elevate"})])

UserRoutes ==
    CurrentUser @@ UserGroups @@ UserGroup @@ UserWebPreferences @@ Users
    @@ UserById

\* Two more that the server mounts itself, which the API's document lacks.
AuditLog == At(<<"op", "audit-log">>, [GetAuditLog |-> Get(Open, {})])
ReviewImport ==
    At(CollectionPath \o <<"reviews", "import">>, [ImportReviewsByCollection |-> Post(Open, {})])

Published == AssetRoutes @@ CollectionRoutes @@ ReportRoutes @@ ReviewRoutes
             @@ CollectionStigRoutes @@ JobRoutes @@ OpRoutes @@ StigRoutes @@ UserRoutes
Mounted == AuditLog @@ ReviewImport
Route == Published @@ Mounted
Operations == DOMAIN Route

-----------------------------------------------------------------------------
(* chi keeps the paths in a tree and looks for a request's from its root: *)
(* at every node the literal child first and, when nothing below it serves *)
(* the method, the parameter.                                              *)

Templates == {Route[o].path : o \in Operations}
Nodes == UNION {{SubSeq(t, 1, n) : n \in 0..Len(t)} : t \in Templates}
Served(method, template) ==
    {o \in Operations : Route[o].path = template /\ Route[o].method = method}

Fits(template, path) ==
    /\ Len(template) = Len(path)
    /\ \A i \in 1..Len(path) : template[i] \in {path[i], Var}

\* Mutant of FindRoute: the router follows a literal child and no other.
FindRouteStraight(method, path) ==
    LET below[n \in Nodes] ==
          IF Len(n) = Len(path) THEN Served(method, n)
          ELSE LET literal == Append(n, path[Len(n) + 1])
                   parameter == Append(n, Var)
               IN IF literal \in Nodes THEN below[literal]
                  ELSE IF parameter \in Nodes THEN below[parameter] ELSE {}
    IN below[<<>>]

\* The operation found for a request, in a set that is empty when none is.
FindRoute(method, path) ==
    LET below[n \in Nodes] ==
          IF Len(n) = Len(path) THEN Served(method, n)
          ELSE LET literal == Append(n, path[Len(n) + 1])
                   parameter == Append(n, Var)
                   first == IF literal \in Nodes THEN below[literal] ELSE {}
               IN IF first # {} THEN first
                  ELSE IF parameter \in Nodes THEN below[parameter] ELSE {}
    IN below[<<>>]

\* With no operation the path may still be one of another method.
NoRoute(path) == IF \E t \in Templates : Fits(t, path) THEN 405 ELSE 404
=============================================================================
