---------------------------- MODULE RequestAuthority ----------------------------
(***************************************************************************)
(* Who may do what (auth/, the request handlers of api/app.py, the actor   *)
(* scope of persistence/repositories.py).  An internal token names an      *)
(* identity and a membership, never a permission.  A Product request reads *)
(* the membership once when it authenticates and again in the service's    *)
(* transaction; an Agent Server request once when it authenticates and     *)
(* again in its authorization handler.  Workers act with trusted service   *)
(* tokens for the owner of admitted work.  Memberships change at any time. *)
(***************************************************************************)
EXTENDS Integers, TLC

CONSTANTS
    Identities,     \* records: identity issuer and subject
    Spaces,         \* a tenant and one of its workspaces
    ApiRequests,    \* requests in flight
    MaxTokenAge     \* exp - iat, in ticks

ASSUME AuthorityAssumption == MaxTokenAge \in Nat

VARIABLES
    membership, \* each identity in each space: its Membership row
    token,      \* each identity: the scoped user token it holds
    request,    \* each request
    rows,       \* owned rows of the Product database (a Task stands for all)
    objects,    \* objects, Crons and store items of the Agent Server: whose they are
    answer      \* what the last step returned to whom

authorityVars == <<membership, token, request, rows, objects, answer>>

ObjectKinds == {"thread", "cron", "store"}
Permissions == {"analysis:read", "analysis:write"}
NoMembership == [active |-> FALSE, permissions |-> {}]
NoToken == [use |-> "none", space |-> CHOOSE s \in Spaces : TRUE, age |-> 0]
NoRequest == [pc |-> "idle", who |-> CHOOSE i \in Identities : TRUE,
              space |-> CHOOSE s \in Spaces : TRUE, needs |-> "analysis:read"]

AuthorityInit ==
    /\ membership = [i \in Identities |-> [s \in Spaces |-> NoMembership]]
    /\ token = [i \in Identities |-> NoToken]
    /\ request = [q \in ApiRequests |-> NoRequest]
    /\ rows = {} /\ objects = {} /\ answer = {}

-----------------------------------------------------------------------------
(* The operations of the Product API and the permission each requires *)

CanRead == "analysis:read"
CanWrite == "analysis:write"

DecisionOperations == [create_decision_request |-> CanWrite, get_usage_governance |-> CanRead,
                       reconcile_usage |-> CanWrite, create_analysis |-> CanWrite, create_deep_research |-> CanWrite]
MemoryOperations == [list_memory |-> CanRead, create_memory |-> CanWrite, update_memory |-> CanWrite,
                     delete_memory |-> CanWrite, list_outcomes |-> CanRead]
MonitorOperations == [list_monitors |-> CanRead, create_monitor |-> CanWrite, list_monitor_triggers |-> CanRead,
                      pause_monitor |-> CanWrite, resume_monitor |-> CanWrite, trigger_monitor |-> CanWrite,
                      disable_monitor |-> CanWrite]
RunOperations == [get_task |-> CanRead, cancel_run |-> CanWrite, list_runs |-> CanRead, get_home |-> CanRead,
                  set_watchlist_symbol |-> CanWrite, get_run |-> CanRead, submit_feedback |-> CanWrite]
PostmortemOperations == [create_postmortem |-> CanWrite, list_postmortems |-> CanRead, freeze_postmortem |-> CanWrite,
                         create_improvement_dataset |-> CanWrite, list_improvement_datasets |-> CanRead]
CandidateOperations == [create_improvement_candidate |-> CanWrite, list_improvement_candidates |-> CanRead,
                        run_improvement_experiment |-> CanWrite, request_improvement_review |-> CanWrite]
ReleaseOperations == [decide_improvement_review |-> CanWrite, run_improvement_shadow |-> CanWrite,
                      promote_improvement_candidate |-> CanWrite, rollback_improvement_candidate |-> CanWrite]
InboxOperations == [list_artifacts |-> CanRead, get_artifact |-> CanRead, list_inbox |-> CanRead,
                    respond_inbox_review |-> CanWrite]
NotificationOperations == [list_notifications |-> CanRead, request_notification_resend |-> CanWrite,
                           get_notification_settings |-> CanRead, update_notification_settings |-> CanWrite]
CommandOperations == [cancel_task |-> CanWrite, retry_task |-> CanWrite, fork_task |-> CanWrite,
                      respond_interrupts |-> CanWrite, respond_interrupt |-> CanWrite]

Operations == DecisionOperations @@ MemoryOperations @@ MonitorOperations @@ RunOperations
    @@ PostmortemOperations @@ CandidateOperations @@ ReleaseOperations @@ InboxOperations
    @@ NotificationOperations @@ CommandOperations

-----------------------------------------------------------------------------
(* Memberships and tokens *)

\* provision_actor (bootstrap_actor in development): it also reactivates
ProvisionActor(i, s, permissions) ==
    /\ membership' = [membership EXCEPT ![i][s] = [active |-> TRUE, permissions |-> permissions]]
    /\ UNCHANGED <<token, request, rows, objects>> /\ answer' = {}

\* an administrator, outside this code
Deactivate(i, s) ==
    /\ membership[i][s].active
    /\ membership' = [membership EXCEPT ![i][s].active = FALSE]
    /\ UNCHANGED <<token, request, rows, objects>> /\ answer' = {}

\* discover and select, then issue_scoped by the frontend's server
IssueScoped(i, s) ==
    /\ membership[i][s].active
    /\ token' = [token EXCEPT ![i] = [use |-> "user", space |-> s, age |-> 0]]
    /\ UNCHANGED <<membership, request, rows, objects>> /\ answer' = {}

TokenAges(i) ==
    /\ token[i].use = "user" /\ token[i].age <= MaxTokenAge
    /\ token' = [token EXCEPT ![i].age = @ + 1]
    /\ UNCHANGED <<membership, request, rows, objects>> /\ answer' = {}

\* InternalTokenVerifier.verify for a resource audience
TokenAccepted(i) == token[i].use = "user" /\ token[i].age <= MaxTokenAge

\* DatabaseMembershipAuthority.authorize: _membership_statement
Authorized(i, s) == membership[i][s].active

-----------------------------------------------------------------------------
(* The Product API *)

\* _actor_for_request, with the handler's operation; 401 and 403 leave it idle
ActorForRequest(q, i) ==
    /\ request[q].pc = "idle"
    /\ TokenAccepted(i) /\ Authorized(i, token[i].space)
    /\ \E o \in DOMAIN Operations :
          request' = [request EXCEPT ![q] =
              [pc |-> "product", who |-> i, space |-> token[i].space, needs |-> Operations[o]]]
    /\ UNCHANGED <<membership, token, rows, objects>> /\ answer' = {}

\* Mutant: the membership is taken as it was when the request authenticated.
ResolvedOnce(q) == TRUE

\* resolve_actor in the service's transaction, then _require_analysis_read or
\* _require_analysis_write
ResolveActor(q) ==
    LET m == membership[request[q].who][request[q].space]
    IN  m.active /\ request[q].needs \in m.permissions

OwnRow(q) == [who |-> request[q].who, space |-> request[q].space]

\* the statements of every operation are limited to the actor's own rows
ServeProduct(q) ==
    /\ request[q].pc = "product"
    /\ request' = [request EXCEPT ![q] = NoRequest]
    /\ rows' = IF ResolveActor(q) /\ request[q].needs = CanWrite THEN rows \cup {OwnRow(q)} ELSE rows
    /\ answer' = IF ResolveActor(q)
                 THEN {[by |-> request[q].who, got |-> r] : r \in {r \in rows : r = OwnRow(q)}}
                 ELSE {}
    /\ UNCHANGED <<membership, token, objects>>

-----------------------------------------------------------------------------
(* The Agent Server *)

\* the tags that authority hangs on a principal (_user), which become the
\* metadata of its threads and Crons (_cron_authority)
Authority(i, s) == [user |-> i.subject, space |-> s, issuer |-> i.issuer, context |-> <<i, s>>]

\* _store_principal and the namespace of scope_store: no context in it
StoreNamespace(i, s) == [space |-> s, principal |-> i]

Owned(kind, i, s) ==
    [kind |-> kind, owner |-> IF kind = "store" THEN StoreNamespace(i, s) ELSE Authority(i, s)]

\* Mutant: subject and workspace are taken to identify the owner.
VisibleToSubject(i, s, x) ==
    x.kind # "store" /\ x.owner.user = i.subject /\ x.owner.space = s

\* the filter that scope_thread_access and _cron_access_filter return, and the
\* namespace that scope_store puts in place of the supplied one
VisibleTo(i, s, x) == x = Owned(x.kind, i, s)

\* authenticate with a user token
AuthenticateAgent(q, i) ==
    /\ request[q].pc = "idle"
    /\ TokenAccepted(i) /\ Authorized(i, token[i].space)
    /\ \E needs \in Permissions, kind \in ObjectKinds :
          request' = [request EXCEPT ![q] =
              [pc |-> kind, who |-> i, space |-> token[i].space, needs |-> needs]]
    /\ UNCHANGED <<membership, token, rows, objects>> /\ answer' = {}

\* _authorized_permissions rereads the membership; then _require_permission,
\* which scope_store does not call
AgentAllows(q) ==
    LET m == membership[request[q].who][request[q].space]
    IN  m.active /\ (request[q].pc = "store" \/ request[q].needs \in m.permissions)

\* scope_thread_create, scope_cron_create and _scope_monitor_cron_payload, which
\* overwrite supplied authority metadata; a put in the store
CreateObject(q) ==
    /\ request[q].pc \in ObjectKinds /\ request[q].needs = CanWrite
    /\ request' = [request EXCEPT ![q] = NoRequest]
    /\ objects' = IF AgentAllows(q)
                  THEN objects \cup {Owned(request[q].pc, request[q].who, request[q].space)}
                  ELSE objects
    /\ UNCHANGED <<membership, token, rows>> /\ answer' = {}

\* scope_thread_access, scope_run_access through its thread, scope_cron_read and
\* scope_cron_search, a get or search in the store
ReadObjects(q) ==
    /\ request[q].pc \in ObjectKinds /\ request[q].needs = CanRead
    /\ request' = [request EXCEPT ![q] = NoRequest]
    /\ answer' = IF AgentAllows(q)
                 THEN {[by |-> request[q].who, got |-> x] :
                          x \in {x \in objects : /\ x.kind = request[q].pc
                                               /\ VisibleTo(request[q].who, request[q].space, x)}}
                 ELSE {}
    /\ UNCHANGED <<membership, token, rows, objects>>

\* a worker's token: the authority of the row's owner, trusted, whether the
\* membership is still active or not
WorkerActs ==
    /\ \E r \in rows, kind \in {"thread", "cron"} :
          objects' = objects \cup {Owned(kind, r.who, r.space)}
    /\ UNCHANGED <<membership, token, request, rows>> /\ answer' = {}

AuthorityNext ==
    \/ \E i \in Identities, s \in Spaces :
          \/ \E p \in {{CanRead}, {CanRead, CanWrite}} : ProvisionActor(i, s, p)
          \/ Deactivate(i, s) \/ IssueScoped(i, s)
    \/ \E i \in Identities : TokenAges(i)
    \/ \E q \in ApiRequests :
          \/ \E i \in Identities : ActorForRequest(q, i) \/ AuthenticateAgent(q, i)
          \/ ServeProduct(q) \/ CreateObject(q) \/ ReadObjects(q)
    \/ WorkerActs

AuthoritySpec == AuthorityInit /\ [][AuthorityNext]_authorityVars

-----------------------------------------------------------------------------
(* Properties. *)

Member(i, s, p) == membership[i][s].active /\ p \in membership[i][s].permissions

\* Nobody reads what another identity owns, also not one with the same subject
\* at another issuer; and whoever writes or reads a row or an object is at that
\* moment an active member with the permission (the store asks for none), however
\* old the token or the request is.  What workers create belongs to admitted work.
AccessIsCurrent ==
    [][/\ \A r \in rows' \ rows : Member(r.who, r.space, CanWrite)
       /\ \A a \in answer' : \E s \in Spaces :
             \/ a.got = [who |-> a.by, space |-> s] /\ membership[a.by][s].active
             \/ \E k \in ObjectKinds :
                   /\ a.got = Owned(k, a.by, s)
                   /\ IF k = "store" THEN membership[a.by][s].active ELSE Member(a.by, s, CanRead)
       /\ \A x \in objects' \ objects : \E i \in Identities, s \in Spaces :
             /\ x = Owned(x.kind, i, s)
             /\ \/ [who |-> i, space |-> s] \in rows
                \/ Member(i, s, CanWrite)
                \/ x.kind = "store" /\ membership[i][s].active
      ]_authorityVars
=============================================================================
