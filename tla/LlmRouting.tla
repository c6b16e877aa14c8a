------------------------------ MODULE LlmRouting ------------------------------
(***************************************************************************)
(* Which model an analysis may call (services/llm_providers.py,            *)
(* llm_credentials.py, _llm_route_snapshot of analysis_job.py and          *)
(* _snapshot_model of semantic_citation.py). Administrators change         *)
(* providers and the one route; a job keeps a snapshot of the route that   *)
(* was ready when it was queued; the worker builds a model from it later,  *)
(* if nothing it depends on has changed.                                   *)
(*                                                                         *)
(* A row is locked provider first, then route, and only a snapshot holds   *)
(* the route's lock for more than a step. approved stands for enabled and  *)
(* data_policy_approved; a key and its fingerprint are one value; a        *)
(* refusal is Abandon. The environment is shared by the API and the        *)
(* workers and may change whenever a process is restarted.                 *)
(***************************************************************************)
EXTENDS Integers, FiniteSets

CONSTANTS Providers, Keys, Admins, Jobs,
          MaxChanges,    \* bound on the changes of the rows
          Bedrock,       \* the provider that signs with a role, without a key
          Role, NoKey, Idle, NoRoute

VARIABLES
    providers,    \* LLMProviderConfig rows
    route,        \* the LLMRoute row of CITATION_SEMANTIC
    environment,  \* the key each provider's environment variable holds
    admins,       \* requests of administrators that overlap
    jobs          \* AnalysisJob.snapshot and what the worker did with it

llmVars == <<providers, route, environment, admins, jobs>>

MaybeKey == Keys \union {NoKey}
CredentialSources == {"NONE", "STORED", "ENVIRONMENT"}
Revision == Nat \ {0}

Provider == [approved : BOOLEAN, source : CredentialSources, stored : MaybeKey,
             fingerprint : MaybeKey, catalog : {"UNTESTED", "VERIFIED", "FAILED"},
             verified : Revision \union {0}, credential : Revision, revision : Revision]

Route == [provider : Providers, state : {"DRAFT", "ACTIVE", "DISABLED"}, quality : BOOLEAN,
          credential : Revision, revision : Revision]

Request == [op : {"PROVIDER"}, provider : Providers]
           \union [op : {"ROUTE"}, provider : Providers, seen : Revision]
           \union [op : {"TEST"}, provider : Providers, seen : Revision, credential : Revision,
                   key : MaybeKey \union {Role}]

\* snapshot["llm_route"]; granted is history, the key that was ready then.
Snapshot == [provider : Providers, credential : Revision, source : CredentialSources,
             granted : Keys \union {Role}]

\* row is what the worker read; key is what its model calls with.
Job == [phase : {"none", "locking", "queued", "read", "ended"},
        route : Snapshot \union {NoRoute}, row : Provider \union {NoRoute},
        key : MaybeKey \union {Role}]

ASSUME RoutingConstants ==
    /\ Bedrock \in Providers
    /\ Role # NoKey /\ {Role, NoKey} \intersect Keys = {}
    /\ Idle \notin Request
    /\ NoRoute \notin Snapshot \union Provider

LlmTypeOK ==
    /\ providers \in [Providers -> Provider] /\ route \in Route
    /\ environment \in [Providers \ {Bedrock} -> MaybeKey]
    /\ admins \in [Admins -> Request \union {Idle}]
    /\ jobs \in [Jobs -> Job]

\* A provider as the migration seeds it.
Seeded == [approved |-> FALSE, source |-> "NONE", stored |-> NoKey, fingerprint |-> NoKey,
           catalog |-> "UNTESTED", verified |-> 0, credential |-> 1, revision |-> 1]

\* An administrator has approved and tested the provider of one saved route;
\* revisions are counted from there.
LlmInit ==
    /\ \E p \in Providers \ {Bedrock}, source \in {"STORED", "ENVIRONMENT"}, k \in Keys :
          /\ providers = [q \in Providers |->
                 IF q # p THEN Seeded
                 ELSE [approved |-> TRUE, source |-> source, fingerprint |-> k, catalog |-> "VERIFIED",
                       stored |-> IF source = "STORED" THEN k ELSE NoKey,
                       verified |-> 1, credential |-> 1, revision |-> 1]]
          /\ route = [provider |-> p, state |-> "DRAFT", quality |-> TRUE,
                      credential |-> 1, revision |-> 1]
          /\ environment = [q \in Providers \ {Bedrock} |-> IF q = p /\ source = "ENVIRONMENT" THEN k ELSE NoKey]
    /\ admins = [a \in Admins |-> Idle]
    /\ jobs = [j \in Jobs |->
           [phase |-> "none", route |-> NoRoute, row |-> NoRoute, key |-> NoKey]]

-------------------------------------------------------------------------------
(* Locks and requests.                                                     *)

Is(a, op) == admins[a] # Idle /\ admins[a].op = op

Holds(a, p) == (Is(a, "PROVIDER") \/ Is(a, "ROUTE")) /\ admins[a].provider = p

\* FOR UPDATE of the provider's row (_lock_provider and the queries like it).
ProviderFree(p) == \A a \in Admins : ~ Holds(a, p)

\* A snapshot holds the route FOR SHARE.
RouteFree == \A j \in Jobs : jobs[j].phase # "locking"

BeginRequest(a, request) ==
    /\ admins[a] = Idle
    /\ admins' = [admins EXCEPT ![a] = request]
    /\ UNCHANGED <<providers, route, environment, jobs>>

End(a) == admins' = [admins EXCEPT ![a] = Idle]

Abandon(a) ==
    /\ admins[a] # Idle
    /\ End(a)
    /\ UNCHANGED <<providers, route, environment, jobs>>

ChangeEnvironment(p) ==
    /\ \E k \in MaybeKey : environment' = [environment EXCEPT ![p] = k]
    /\ UNCHANGED <<providers, route, admins, jobs>>

\* resolve_credential of a row.
KeyOf(row, p) ==
    IF p = Bedrock THEN Role
    ELSE CASE row.source = "STORED" -> row.stored
           [] row.source = "ENVIRONMENT" -> environment[p]
           [] row.source = "NONE" -> NoKey

\* route_response without a blocker.
Ready(r, row) ==
    /\ row.approved
    /\ r.provider # Bedrock => row.fingerprint # NoKey /\ KeyOf(row, r.provider) = row.fingerprint
    /\ row.catalog = "VERIFIED" /\ row.verified = row.credential
    /\ r.quality

-------------------------------------------------------------------------------
(* The provider's row.                                                     *)

\* If-Match is compared under the lock, so a stale one changes nothing.
ProviderLock(a) ==
    \E p \in Providers : ProviderFree(p) /\ BeginRequest(a, [op |-> "PROVIDER", provider |-> p])

\* A new credential: everything the old one had earned is gone.
WithCredential(row, source, key) ==
    [row EXCEPT !.source = source, !.stored = key, !.fingerprint = key,
                !.credential = @ + 1, !.catalog = "UNTESTED", !.verified = 0]

\* _deactivate_routes.
Deactivated(p) ==
    IF route.provider = p /\ route.state = "ACTIVE"
    THEN [route EXCEPT !.state = "DISABLED", !.revision = @ + 1]
    ELSE route

\* Mutant: only a change of credential deactivates the route.
DeactivatesForCredential(old, new) == new.credential # old.credential

\* Whether a change of the row deactivates its routes.
Deactivates(old, new) == new.credential # old.credential \/ ~ new.approved

\* The end of update_provider and delete_credential.
Store(a, p, row) ==
    /\ Deactivates(providers[p], row) => RouteFree
    /\ providers' = [providers EXCEPT ![p] = [row EXCEPT !.revision = @ + 1]]
    /\ route' = IF Deactivates(providers[p], row) THEN Deactivated(p) ELSE route
    /\ End(a)
    /\ UNCHANGED <<environment, jobs>>

UpdateProvider(a) ==
    /\ Is(a, "PROVIDER")
    /\ LET p == admins[a].provider
           row == providers[p]
       IN  \E approved \in BOOLEAN, source \in CredentialSources, key \in MaybeKey :
             /\ p = Bedrock => source = "NONE"
             /\ key # NoKey => source = "STORED"
             /\ source = "STORED" /\ key = NoKey => row.source = "STORED"
             /\ Store(a, p, [IF source # row.source \/ key # NoKey
                             THEN WithCredential(row, source, key) ELSE row
                             EXCEPT !.approved = approved])

DeleteCredential(a) ==
    /\ Is(a, "PROVIDER")
    /\ Store(a, admins[a].provider, WithCredential(providers[admins[a].provider], "NONE", NoKey))

\* test_catalog reads the row and its key, then asks the provider with no lock.
TestBegin(a) ==
    \E p \in Providers :
        BeginRequest(a, [op |-> "TEST", provider |-> p, seen |-> providers[p].revision,
                  credential |-> providers[p].credential, key |-> KeyOf(providers[p], p)])

\* The row is the one the test began with.
Current(request, row) == row.revision = request.seen /\ row.credential = request.credential

\* Another key of the environment than the last verified is a new credential.
Numbered(row, key) ==
    IF row.source = "ENVIRONMENT" /\ row.fingerprint \notin {NoKey, key}
    THEN row.credential + 1 ELSE row.credential

\* The provider's answer is applied to the row that was tested, or discarded.
TestApply(a) ==
    /\ Is(a, "TEST")
    /\ ProviderFree(admins[a].provider)
    /\ LET p == admins[a].provider
           key == admins[a].key
           row == providers[p]
           revision == Numbered(row, key)
           failed == [row EXCEPT !.catalog = "FAILED", !.verified = 0, !.revision = @ + 1]
           passed == [row EXCEPT !.catalog = "VERIFIED", !.credential = revision,
                                 !.verified = revision, !.revision = @ + 1,
                                 !.fingerprint = IF p = Bedrock THEN NoKey ELSE key]
       IN  /\ Current(admins[a], row)
           /\ \/ providers' = [providers EXCEPT ![p] = failed]
                 /\ UNCHANGED <<route>>
              \/ /\ key # NoKey
                 /\ revision # row.credential => RouteFree
                 /\ providers' = [providers EXCEPT ![p] = passed]
                 /\ route' = IF revision # row.credential THEN Deactivated(p) ELSE route
    /\ End(a)
    /\ UNCHANGED <<environment, jobs>>

-------------------------------------------------------------------------------
(* The route.                                                              *)

\* save_route locks the provider it names, set_route_active the route's, which
\* it reads unlocked. If-Match is compared later, under the lock of the route.
RouteLock(a) ==
    \E p \in Providers :
        /\ ProviderFree(p)
        /\ BeginRequest(a, [op |-> "ROUTE", provider |-> p, seen |-> route.revision])

RouteChange(a, changed) ==
    /\ RouteFree
    /\ admins[a].seen = route.revision
    /\ route' = [changed EXCEPT !.revision = @ + 1]
    /\ End(a)
    /\ UNCHANGED <<providers, environment, jobs>>

SaveRoute(a) ==
    /\ Is(a, "ROUTE")
    /\ \E quality \in BOOLEAN :
          LET p == admins[a].provider
          IN  RouteChange(a, [route EXCEPT !.provider = p, !.quality = quality, !.state = "DRAFT",
                                           !.credential = providers[p].credential])

\* set_route_active: 409 unless the locked provider is still the route's.
Activate(a) ==
    /\ Is(a, "ROUTE") /\ route.provider = admins[a].provider
    /\ Ready(route, providers[route.provider])
    /\ RouteChange(a, [route EXCEPT !.state = "ACTIVE",
                                    !.credential = providers[route.provider].credential])

Deactivate(a) ==
    /\ Is(a, "ROUTE") /\ route.provider = admins[a].provider
    /\ RouteChange(a, [route EXCEPT !.state = "DISABLED"])

-------------------------------------------------------------------------------
(* Jobs.                                                                   *)

\* create_or_get_job locks the active route FOR SHARE; without one the job has
\* no model, and stays "none".
SnapshotLock(j) ==
    /\ jobs[j].phase = "none" /\ route.state = "ACTIVE"
    /\ jobs' = [jobs EXCEPT ![j].phase = "locking"]
    /\ UNCHANGED <<providers, route, environment, admins>>

\* The provider is read by a later statement, without a lock.
SnapshotRead(j) ==
    /\ jobs[j].phase = "locking"
    /\ LET row == providers[route.provider]
       IN  jobs' = [jobs EXCEPT ![j] =
              IF Ready(route, row)
              THEN [@ EXCEPT !.phase = "queued",
                             !.route = [provider |-> route.provider, source |-> row.source,
                                        credential |-> row.credential,
                                        granted |-> KeyOf(row, route.provider)]]
              ELSE [@ EXCEPT !.phase = "none"]]
    /\ UNCHANGED <<providers, route, environment, admins>>

\* The worker reads the provider's row, by a plain select.
ReadProvider(j) ==
    /\ jobs[j].phase = "queued"
    /\ jobs' = [jobs EXCEPT ![j].phase = "read", ![j].row = providers[jobs[j].route.provider]]
    /\ UNCHANGED <<providers, route, environment, admins>>

\* Mutant: only the revision of the credential is compared, not its key.
UsableByRevision(snapshot, row, key) ==
    /\ row.approved
    /\ row.credential = snapshot.credential
    /\ row.verified = row.credential /\ row.catalog = "VERIFIED"
    /\ key # NoKey

\* The conditions under which _snapshot_model returns a model.
Usable(snapshot, row, key) ==
    /\ row.approved
    /\ row.credential = snapshot.credential
    /\ row.verified = row.credential /\ row.catalog = "VERIFIED"
    /\ snapshot.source = row.source
    /\ snapshot.provider # Bedrock => key # NoKey /\ key = row.fingerprint

\* The key is resolved from the row that was read and today's environment.
BuildModel(j) ==
    /\ jobs[j].phase = "read"
    /\ LET key == KeyOf(jobs[j].row, jobs[j].route.provider)
       IN  jobs' = [jobs EXCEPT
              ![j].phase = "ended", ![j].row = NoRoute,
              ![j].key = IF Usable(jobs[j].route, jobs[j].row, key) THEN key ELSE NoKey]
    /\ UNCHANGED <<providers, route, environment, admins>>

\* The job is run again, with the snapshot it was queued with.
RunAgain(j) ==
    /\ jobs[j].phase = "ended"
    /\ jobs' = [jobs EXCEPT ![j].phase = "queued", ![j].key = NoKey]
    /\ UNCHANGED <<providers, route, environment, admins>>

LlmNext ==
    \/ \E a \in Admins : \/ Abandon(a) \/ ProviderLock(a)
                         \/ UpdateProvider(a) \/ DeleteCredential(a)
                         \/ TestBegin(a) \/ TestApply(a)
                         \/ RouteLock(a)
                         \/ SaveRoute(a) \/ Activate(a) \/ Deactivate(a)
    \/ \E p \in Providers \ {Bedrock} : ChangeEnvironment(p)
    \/ \E j \in Jobs : \/ SnapshotLock(j) \/ SnapshotRead(j) \/ ReadProvider(j)
                       \/ BuildModel(j) \/ RunAgain(j)

LlmSpec == LlmInit /\ [][LlmNext]_llmVars

\* The bound: every change of a row adds one to its revision.
LlmWithinBound ==
    Cardinality({c \in Providers \X (1..(MaxChanges + 1)) : c[2] < providers[c[1]].revision})
        + route.revision - 1 <= MaxChanges

-------------------------------------------------------------------------------
(* Properties.                                                             *)

\* An active route's provider is enabled, its policy approved, and its
\* credential the one the route was activated for, however an activation
\* overlaps a change of the provider or of the route (llm_providers.py:756).
ActiveRouteIsBacked ==
    route.state = "ACTIVE" =>
        /\ providers[route.provider].approved
        /\ providers[route.provider].credential = route.credential

\* However often a job is run, its model calls with no other key than the one
\* that was verified and ready when the job was queued, whatever happened in
\* between to the row, to the environment, or to a test that was under way
\* (semantic_citation.py:1952, llm_providers.py:566).
JobsKeepTheirKey ==
    \A j \in Jobs : jobs[j].key # NoKey => jobs[j].key = jobs[j].route.granted

\* From a route's activation to the last call of a job, the key in use is one that
\* was verified for it (llm_providers.py:756, semantic_citation.py:1952).
KeysAreVerified == ActiveRouteIsBacked /\ JobsKeepTheirKey
===============================================================================
