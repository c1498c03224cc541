---------------------------- MODULE ApiHandlers ----------------------------
(***************************************************************************)
(* The handlers of the API as programs: the order in which each checks the *)
(* token, the pool, the collection's role and the rows of its path, reads, *)
(* commits and answers.  What a commit does to the tables is the subject   *)
(* of the other modules; here it is a change, and what decides an answer   *)
(* is where in the program it happens.                                     *)
(*                                                                         *)
(* A step is what it does, with what, and in which collections it finds    *)
(* the row that the path names: most look in the collection of the path    *)
(* only, those made Anywhere in whatever collection the row lies.  Api     *)
(* runs the steps, one action for each kind:                               *)
(*   scope S    401 or 403 when the token does not grant S                 *)
(*   user       401 without a user                                         *)
(*   pool c     answers c when the server runs without a database          *)
(*   check C    refuses the request with a status of C, or goes on         *)
(*   look C     the same, for what it finds in the database                *)
(*   asset      the asset of the path, 404 without; from here on its       *)
(*              collection is the one the roles are asked of               *)
(*   known      the row of the collection, 404 without                     *)
(*   principal  records the user                                           *)
(*   role n     403 when the user's role in the collection is below n      *)
(*   tie        404 unless the asset of the path is in its collection      *)
(*   find c     the row that the path names, answers c without             *)
(*   holder     the grant of the path with its user, 404 without           *)
(*   query      a read that finds nothing missing                          *)
(*   store C    a commit, or a refusal with a status of C                  *)
(*   write C    the same, on what belongs to the asset of the path         *)
(*   change C   the same for the row that the path names, 404 without      *)
(*   move C     the same, and the body may name a collection to move it to *)
(*   drop C     the same, and the row is gone                              *)
(*   each C     a commit for every item; the first refusal, C, ends it     *)
(*   try        a commit for every item; refused ones are put on a list    *)
(*   done c     answers c                                                  *)
(***************************************************************************)
EXTENDS ApiRoutes

\* The collection that the path or the body names (or a table that has no
\* collections), and another one.
Here == "here"
There == "there"
Places == {Here, There}

Step(does, with) == <<[does |-> does, with |-> with, in |-> {Here}]>>
Anywhere(program) == [i \in DOMAIN program |-> [program[i] EXCEPT !.in = Places]]

Scope(scope) == Step("scope", scope)
SignedIn == Step("user", 401)
Pool(code) == Step("pool", code)
CheckFor(codes) == Step("check", codes)
Check == CheckFor({400})
Find(code) == Step("find", code)
Query == Step("query", 500)
Look(codes) == Step("look", codes)
Tie == Step("tie", 404)
Holder == Step("holder", 404)
Store(codes) == Step("store", codes)
Write(codes) == Anywhere(Step("write", codes))
Change(codes) == Step("change", codes)
Move(codes) == Anywhere(Step("move", codes))
Drop(codes) == Step("drop", codes)
Each(codes) == Step("each", codes)
Try == Step("try", {})
Done(code) == Step("done", code)

\* access.go: what a role in a collection allows.
Restricted == 1
Full == 2
Manage == 3
Owner == 4

authorizeCollection(scope, minRole) ==
    Scope(scope) \o Pool(503) \o Step("known", 404) \o Step("principal", 500)
    \o Step("role", minRole)

\* Most operations on a collection: its id, then the right to read or manage it.
Reading(minRole) == Check \o authorizeCollection(CollectionRead, minRole)
Managing == Check \o authorizeCollection(CollectionWrite, Manage)
\* Those on an asset look the asset up before anything else.
OfAsset(scope, minRole) ==
    Check \o Pool(503) \o Step("asset", 404) \o authorizeCollection(scope, minRole)
\* Those on a row of a table that a scope alone protects.
WithScope(scope) == Scope(scope) \o Pool(503) \o Check

UserHandlers ==
   [GetUsers |-> Scope(UserRead) \o Pool(200) \o Query \o Done(200),
    CreateUser |-> WithScope(UserWrite) \o Store({409}) \o Find(404) \o Done(201),
    GetUser |-> SignedIn \o Pool(503) \o Step("principal", 500) \o Query \o Query \o Done(200),
    GetUserByUserId |-> WithScope(UserRead) \o Find(404) \o Done(200)]
UserChanges ==
   [UpdateUser |-> WithScope(UserWrite) \o Change({409}) \o Find(404) \o Done(200),
    ReplaceUser |-> WithScope(UserWrite) \o Change({409}) \o Find(404) \o Done(200),
    DeleteUser |-> WithScope(UserWrite) \o Find(404) \o Drop({409}) \o Done(200)]

UserGroupHandlers ==
   [GetUserGroups |-> Scope(UserRead) \o Pool(200) \o Query \o Query \o Done(200),
    CreateUserGroup |-> WithScope(UserWrite) \o Store({409}) \o Find(404) \o Done(201),
    GetUserGroup |-> WithScope(UserRead) \o Find(404) \o Done(200)]
UserGroupChanges ==
   [PatchUserGroup |-> WithScope(UserWrite) \o Change({409}) \o Find(404) \o Done(200),
    PutUserGroup |-> WithScope(UserWrite) \o Change({409}) \o Find(404) \o Done(200),
    DeleteUserGroup |-> WithScope(UserWrite) \o Find(404) \o Drop({409}) \o Done(200)]

Owning == Check \o authorizeCollection(CollectionWrite, Owner)
GrantHandlers ==
   [GetGrantsByCollection |-> Reading(Full) \o Query \o Done(200),
    PostGrantsByCollection |-> Owning \o Check \o Each({400, 404}) \o Done(201),
    GetGrantByCollectionGrant |-> Reading(Full) \o Holder \o Done(200)]
GrantChanges ==
   [PutGrantByCollectionGrant |-> Owning \o Check \o Change({400}) \o Holder \o Done(200),
    DeleteGrantByCollectionGrant |-> Owning \o Drop({400}) \o Done(204)]

CollectionReads ==
   [GetCollections |-> Scope(CollectionRead) \o Pool(200) \o Query \o Done(200),
    GetCollection |-> Scope(CollectionRead) \o Check \o Pool(404) \o Step("known", 404)
                      \o Done(200)]
CollectionCreation ==
   [CreateCollection |-> WithScope(CollectionWrite) \o Step("principal", 500) \o Check
                         \o Store({400}) \o Done(201)]

AssetHandlers ==
   [GetAssets |-> Reading(Restricted) \o Query \o Done(200),
    CreateAsset |-> Managing \o Store({400}) \o Query \o Done(201),
    CreateAssets |-> Managing \o Check \o Each({400}) \o Query \o Done(201)]
AssetChanges ==
   [GetAsset |-> OfAsset(CollectionRead, Restricted) \o Query \o Done(200),
    UpdateAsset |-> OfAsset(CollectionWrite, Manage) \o Check \o Query \o Move({400})
                    \o Anywhere(Find(404)) \o Query \o Done(200),
    DeleteAsset |-> OfAsset(CollectionWrite, Manage) \o Anywhere(Drop({})) \o Done(204)]
AssetStigHandlers ==
   [GetStigsByAsset |-> OfAsset(CollectionRead, Restricted) \o Query \o Done(200)]

LabelHandlers ==
   [GetCollectionLabels |-> Reading(Restricted) \o Query \o Done(200),
    CreateCollectionLabel |-> Managing \o Check \o Store({400}) \o Done(201),
    CreateCollectionLabels |-> Managing \o Check \o Each({400}) \o Done(201),
    GetCollectionLabelById |-> Reading(Restricted) \o Find(404) \o Done(200)]
LabelChanges ==
   [PatchCollectionLabelById |-> Managing \o Check \o Change({400}) \o Find(404) \o Done(200),
    DeleteCollectionLabelById |-> Managing \o Drop({}) \o Done(204),
    GetAssetsByCollectionLabelId |-> Reading(Restricted) \o Query \o Done(200),
    \* Ends in the handler before it, whose look at the same id cannot fail again.
    PutAssetsByCollectionLabelId |->
        Managing \o Check \o Change({400})
        \o authorizeCollection(CollectionRead, Restricted) \o Query \o Done(200)]

CollectionStigHandlers ==
   [GetStigsByCollection |-> Reading(Restricted) \o Query \o Done(200),
    GetStigByCollection |-> Reading(Restricted) \o Find(204) \o Done(200)]

OfLibrary == Scope(StigRead) \o Pool(404) \o Find(404) \o Query \o Done(200)
StigHandlers ==
   [GetSTIGs |-> Scope(StigRead) \o Pool(200) \o Query \o Done(200),
    GetStigById |-> OfLibrary,
    ImportBenchmark |-> WithScope(StigWrite) \o Store({400}) \o Done(200)]
RuleHandlers ==
   [GetRuleByRuleId |-> OfLibrary, GetRulesByRevision |-> OfLibrary,
    GetRuleByRevision |-> OfLibrary, GetCci |-> OfLibrary]

ChecklistHandlers ==
   [GetChecklistByAsset |-> OfAsset(CollectionRead, Restricted) \o Query \o Check \o Done(200),
    GetChecklistByAssetStig |-> OfAsset(CollectionRead, Restricted) \o Look({404})
                                \o CheckFor({400, 501}) \o Done(200)]
Archive == Reading(Restricted) \o Check \o Query \o Done(200)
ArchiveHandlers ==
   [GetChecklistByCollectionStig |-> Reading(Restricted) \o Look({404}) \o Done(200),
    PostCklArchiveByCollection |-> Archive, PostCklbArchiveByCollection |-> Archive,
    PostXccdfArchiveByCollection |-> Archive]

Report == Reading(Restricted) \o Query \o Done(200)
MetricsHandlers ==
   [GetMetricsSummaryByCollection |-> Report, GetMetricsSummaryByCollectionAgg |-> Report,
    GetMetricsSummaryByCollectionAggAsset |-> Report]
MoreMetricsHandlers ==
   [GetMetricsSummaryByCollectionAggStig |-> Report,
    GetMetricsSummaryByCollectionAggLabel |-> Report]
PoamHandlers ==
   [GetPoamByCollection |-> Reading(Restricted) \o Query \o Query \o Done(200)]

ReviewReads ==
   [GetReviewsByCollection |-> Report, GetReviewsByAsset |-> Report,
    GetReviewByAssetRule |-> Reading(Restricted) \o Anywhere(Find(404)) \o Query \o Done(200)]

\* PATCH and DELETE take the review by its asset and its rule, whatever
\* collection the asset is in.
PatchReview == Managing \o Check \o Anywhere(Change({400}) \o Find(404)) \o Done(200)

\* Mutant of ReviewChanges: the body is read after the asset's row is written.
ReviewChangesUnread ==
   [PutReviewByAssetRule |-> Managing \o Write({400}) \o Check \o Tie \o Query \o Done(200),
    PatchReviewByAssetRule |-> PatchReview]

\* Mutant of ReviewChanges: PUT does not tie the asset to the path either.
ReviewChangesUntied ==
   [PutReviewByAssetRule |-> Managing \o Check \o Write({400}) \o Query \o Done(200),
    PatchReviewByAssetRule |-> PatchReview]

ReviewChanges ==
   [PutReviewByAssetRule |-> Managing \o Check \o Tie \o Write({400}) \o Query \o Done(200),
    PatchReviewByAssetRule |-> PatchReview]
ReviewPosts ==
   [PostReviewsByAsset |-> Managing \o Tie \o Check \o Anywhere(Try) \o Done(200)]
ReviewRemoval == [DeleteReviewByAssetRule |-> Managing \o Anywhere(Drop({})) \o Done(204)]
HistoryHandlers ==
   [GetReviewHistoryByCollection |-> Report, GetReviewHistoryStatsByCollection |-> Report,
    DeleteReviewHistoryByCollection |-> Managing \o Store({}) \o Done(200)]
BatchHandlers ==
   [PostReviewBatch |-> Managing \o Check \o Query \o Query \o Check \o Try \o Done(200)]
ImportHandlers ==
   [ImportReviewsByCollection |-> Managing \o Check \o Query \o Try \o Done(200)]

JobHandlers ==
   [GetJobs |-> Scope(OpRead) \o Pool(200) \o Query \o Done(200),
    PostJob |-> WithScope(OpWrite) \o Store({}) \o Query \o Done(201),
    GetJob |-> WithScope(OpRead) \o Find(404) \o Done(200),
    PatchJob |-> WithScope(OpWrite) \o Change({}) \o Find(404) \o Done(200)]
JobRunHandlers ==
   [DeleteJob |-> WithScope(OpWrite) \o Drop({}) \o Done(204),
    GetAllTasks |-> Scope(OpRead) \o Pool(200) \o Query \o Done(200),
    GetRunsByJob |-> WithScope(OpRead) \o Query \o Done(200),
    RunImmediateJob |-> WithScope(OpWrite) \o Find(404) \o Store({}) \o Done(202),
    GetRunById |-> WithScope(OpRead) \o Find(404) \o Done(200)]
JobOutputHandlers ==
   [DeleteRunById |-> WithScope(OpWrite) \o Drop({}) \o Done(204),
    GetOutputByRun |-> WithScope(OpRead) \o Find(404) \o Query \o Done(200)]

\* Neither the state nor its stream asks for anything; the configuration neither.
StateHandlers == [GetState |-> Done(200), StreamStateSse |-> Done(200)]
ConfigurationHandlers == [GetConfiguration |-> Done(200)]
AppHandlers ==
   [GetAppInfo |-> Scope(OpRead) \o Done(200),
    GetAppDataTables |-> Scope(OpRead) \o Pool(200) \o Query \o Done(200),
    GetAppData |-> Scope(OpRead) \o Pool(503) \o Done(200),
    ReplaceAppData |-> Scope(OpWrite) \o Done(503)]
AuditHandlers == [GetAuditLog |-> WithScope(OpRead) \o Query \o Done(200)]

Handlers ==
    UserHandlers @@ UserChanges @@ UserGroupHandlers @@ UserGroupChanges @@ GrantHandlers
    @@ GrantChanges @@ CollectionReads @@ CollectionCreation @@ AssetHandlers @@ AssetChanges
    @@ AssetStigHandlers @@ LabelHandlers @@ LabelChanges @@ CollectionStigHandlers
    @@ StigHandlers @@ RuleHandlers @@ ChecklistHandlers @@ ArchiveHandlers @@ MetricsHandlers
    @@ MoreMetricsHandlers @@ PoamHandlers @@ ReviewReads @@ ReviewChanges @@ ReviewPosts
    @@ ReviewRemoval @@ HistoryHandlers @@ BatchHandlers @@ ImportHandlers @@ JobHandlers
    @@ JobRunHandlers @@ JobOutputHandlers @@ StateHandlers @@ ConfigurationHandlers
    @@ AppHandlers @@ AuditHandlers

\* The other operations are those of api.Unimplemented.
Unimplemented == [o \in Operations \ DOMAIN Handlers |-> Done(501)]

Program == Handlers @@ Unimplemented
=============================================================================
