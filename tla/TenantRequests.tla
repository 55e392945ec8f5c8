--------------------------- MODULE TenantRequests ---------------------------
(***************************************************************************)
(* The request path of the service, thread by thread: RequestIDMiddleware, *)
(* TenantMiddleware, the example app's views with its service and          *)
(* selector, the admin site's edits of tenants and items, and code that    *)
(* calls the service layer directly.                                       *)
(*                                                                         *)
(* A WSGI thread serves one request after another in the SAME context, so  *)
(* the ContextVars of config/context.py keep the values of the previous    *)
(* request until something sets them again.  Every database statement is a *)
(* step of its own: between two of them other threads run.                 *)
(***************************************************************************)
EXTENDS Naturals

CONSTANTS Workers,     \* WSGI threads, each serves requests one at a time
          Jobs,        \* threads that call services.create_item directly
          Tenants,     \* tenant primary keys (UUIDs)
          Slugs,       \* tenant slugs, the values X-Tenant-ID can name
          Public,      \* DEFAULT_TENANT
          Items,       \* item primary keys (UUIDs)
          ReqIds,      \* request identifiers
          Users,       \* who a request authenticates as
          None         \* Python's None, a missing row, an empty default

ASSUME ThreadsAssumption == None \notin Workers \cup Jobs
ASSUME TenantsAssumption == None \notin Tenants
ASSUME SlugsAssumption == Public \in Slugs /\ None \notin Slugs
ASSUME ItemsAssumption == None \notin Items
ASSUME ReqIdsAssumption == None \notin ReqIds
ASSUME UsersAssumption ==
  \A u \in Users : /\ u.token \in {"none", "good", "bad"}
                   /\ u.superuser \in BOOLEAN
                   /\ u.groups \subseteq {"api_reader", "api_writer", "api_admin"}

VARIABLES slugOf,   \* table tenants_tenant: the slug of each row, None if no row
          active,   \* table tenants_tenant: the rows whose is_active is true
          owner,    \* table example_item: the tenant of each row, None if no row
          ctx,      \* the ContextVars of each thread
          req,      \* the request (or direct call) each thread is executing
          pc,       \* where each thread is in the middleware chain
          log       \* the log record the last step emitted, None if it emitted none

db == <<slugOf, active, owner>>
vars == <<slugOf, active, owner, ctx, req, pc, log>>

Threads == Workers \cup Jobs
Views == {"probe", "admin", "ping", "create", "detail", "service"}
Statuses == {0, 200, 201, 302, 400, 401, 403, 404, 429, 500, 503}

ASSUME NoneAssumption == None \notin Views \cup {"operator"}

\* The edits a submitted admin form can ask for.
EditForm(kind, t, s, a, i) == [kind |-> kind, tenant |-> t, slug |-> s, active |-> a, item |-> i]
SaveTenantForm(t, s, a) == EditForm("save_tenant", t, s, a, None)
DeleteTenantForm(t) == EditForm("delete_tenant", t, None, FALSE, None)
SaveItemForm(i, t) == EditForm("save_item", t, None, FALSE, i)
DeleteItemForm(i) == EditForm("delete_item", None, None, FALSE, i)
NoEdit == EditForm("none", None, None, FALSE, None)

\* ContextVar defaults: request_id "" (None here), tenant_id "public", tenant_pk None.
DefaultContext == [rid |-> None, tid |-> Public, tpk |-> None]

NoRequest == [view |-> None, rid |-> None, tid |-> None, tpk |-> None, use |-> None,
              item |-> None, edit |-> NoEdit, saved |-> None, status |-> 0]

-----------------------------------------------------------------------------
(* The database.                                                           *)

Row(t) == slugOf[t] # None

\* Tenant.objects.get(slug=s, is_active=True): the rows that match.
AnyNamed(s) == {t \in Tenants : slugOf[t] = s}          \* mutant: is_active dropped
ActiveNamed(s) == {t \in Tenants : slugOf[t] = s /\ t \in active}

\* Constraints PostgreSQL enforces: unique slug, item's foreign key, both ways.
UncheckedSlug(t, s) == s \in Slugs                       \* mutant: unique=True dropped
SlugFree(t, s) == \A u \in Tenants \ {t} : slugOf[u] # s
UncheckedReference(t) == t # None                        \* mutant: no foreign key
ForeignKeyHolds(t) == t \in Tenants /\ Row(t)
Unprotected(t) == t \in Tenants                          \* mutant: no PROTECT, no constraint
Deletable(t) == \A i \in Items : owner[i] # t

\* A UUID nobody has generated yet: no row has it and no thread holds it.
FreshItem(i) ==
  /\ owner[i] = None
  /\ \A w \in Threads : i \notin {req[w].item, req[w].edit.item}
FreshTenant(t) ==
  /\ ~Row(t)
  /\ \A w \in Threads : t \notin {ctx[w].tpk, req[w].tpk, req[w].use, req[w].edit.tenant}

\* TenantScopedManager: the items a query of thread w sees, joined on the slug.
Unscoped(w) == {i \in Items : owner[i] # None}           \* mutant: Item.objects
Scoped(w) == {i \in Items : owner[i] \in Tenants /\ slugOf[owner[i]] = ctx[w].tid}

-----------------------------------------------------------------------------
(* Steps of a thread.                                                      *)

\* _add_request_context: every record carries the context of the thread that emits
\* it. The request it is about is recorded beside it (own): no code reads that.
Record(w, event, own) ==
  [event |-> event, rid |-> ctx[w].rid, tid |-> ctx[w].tid,
   ownRid |-> own.rid, ownTid |-> own.tid]

Goto(w, place) == pc' = [pc EXCEPT ![w] = place]

\* The view (or a middleware) returns: its answer travels back up the chain.
Answer(w, status) ==
  /\ req' = [req EXCEPT ![w].status = status]
  /\ Goto(w, "respond")

\* RequestIDMiddleware: an ill-formed X-Request-ID is logged before the new
\* identifier is stored.
Receive(w) ==
  /\ pc[w] = "idle"
  /\ \E view \in Views \ {"service"}, r \in ReqIds, header \in {"client", "generated", "malformed"} :
       /\ header # "client" => r # ctx[w].rid
       /\ ctx' = [ctx EXCEPT ![w].rid = r]
       /\ req' = [req EXCEPT ![w] = [NoRequest EXCEPT !.view = view, !.rid = r]]
       /\ log' = IF header = "malformed"
                   THEN Record(w, "invalid_request_id_header", [rid |-> r, tid |-> None])
                   ELSE None
  /\ Goto(w, "tenant")
  /\ UNCHANGED db

SkipsTenantValidation(view) == view \in {"probe", "admin"}

\* Mutants: the primary key of an earlier request stays; the slug is cleared.
PublicContextKeepingKey(w) == [rid |-> ctx[w].rid, tid |-> Public, tpk |-> ctx[w].tpk]
ClearedContext(w) == [rid |-> ctx[w].rid, tid |-> None, tpk |-> None]
PublicContext(w) == [rid |-> ctx[w].rid, tid |-> Public, tpk |-> None]

SkipTenantValidation(w) ==
  /\ pc[w] = "tenant" /\ SkipsTenantValidation(req[w].view)
  /\ ctx' = [ctx EXCEPT ![w] = PublicContext(w)]
  /\ req' = [req EXCEPT ![w].tid = Public]
  /\ Goto(w, IF req[w].view = "admin" THEN "adminclean" ELSE "dispatch")
  /\ log' = None
  /\ UNCHANGED db

\* _normalize_tenant_id: the slugs a header can name, None if it is malformed; an
\* absent or blank header is Public.
Headers == Slugs \cup {None}

\* The header is malformed, or names no active tenant. The context is not set.
RejectTenant(w) ==
  /\ pc[w] = "tenant" /\ ~SkipsTenantValidation(req[w].view)
  /\ \E header \in Headers : header # None => ActiveNamed(header) = {}
  /\ Answer(w, 400)
  /\ log' = Record(w, "invalid_tenant_header", req[w])
  /\ UNCHANGED <<db, ctx>>

\* Mutant: only the primary key is stored, logs keep the previous tenant's slug.
ContextWithoutSlug(w, t) == [rid |-> ctx[w].rid, tid |-> ctx[w].tid, tpk |-> t]
TenantContext(w, t) == [rid |-> ctx[w].rid, tid |-> slugOf[t], tpk |-> t]

\* The header (its absence is Public) names an active tenant.
AcceptTenant(w) ==
  /\ pc[w] = "tenant" /\ ~SkipsTenantValidation(req[w].view)
  /\ \E header \in Slugs : \E t \in ActiveNamed(header) :
       /\ ctx' = [ctx EXCEPT ![w] = TenantContext(w, t)]
       /\ req' = [req EXCEPT ![w] = [@ EXCEPT !.tid = slugOf[t], !.tpk = t]]
  /\ Goto(w, "dispatch")
  /\ log' = None
  /\ UNCHANGED db

\* HasAnyRole and the allowed_roles of the two item views.
AllowedRoles(view) ==
  IF view = "create" THEN {"api_writer", "api_admin"} ELSE {"api_reader", "api_writer", "api_admin"}

HasAnyRole(u, view) ==
  u.token = "good" /\ (u.superuser \/ u.groups \cap AllowedRoles(view) # {})

\* What APIView.initial (authentication, permissions, throttles) and then the
\* validation of the body decide.
Verdict(view, u, throttled, valid) ==
  CASE u.token = "bad" -> 401
    [] u.token # "bad" /\ view \in {"create", "detail"} /\ ~HasAnyRole(u, view)
         -> IF u.token = "none" THEN 401 ELSE 403
    [] OTHER -> IF throttled THEN 429 ELSE IF view = "create" /\ ~valid THEN 400 ELSE 200

\* The views without database statements of their own answer at once: metrics may refuse
\* (403, 404), readiness fail (503), and "ping" stands for unknown paths too (404).
Dispatch(w) ==
  /\ pc[w] = "dispatch"
  /\ \E u \in Users, throttled \in BOOLEAN, valid \in BOOLEAN :
       LET verdict == Verdict(req[w].view, u, throttled, valid)
       IN  \/ /\ verdict = 200 /\ req[w].view \in {"create", "detail"}
              /\ Goto(w, IF req[w].view = "create" THEN "pick" ELSE "get")
              /\ UNCHANGED req
           \/ verdict # 200 /\ Answer(w, verdict)
           \/ /\ verdict = 200 /\ req[w].view \in {"probe", "ping"}
              /\ \E status \in {200, 403, 404, 503} : Answer(w, status)
  /\ log' = None
  /\ UNCHANGED <<db, ctx>>

\* Mutant: the service looks its tenant up again instead of using the resolved key.
LooksUpTenant(w) == TRUE
UsesContextKey(w) == ctx[w].tpk = None

\* create_item: the tenant of the new item is the context's primary key, and
\* only without one the row its slug names now.
TenantsForCreate(w) == IF UsesContextKey(w) THEN ActiveNamed(ctx[w].tid) ELSE {ctx[w].tpk}

PickTenant(w) ==
  /\ pc[w] = "pick"
  /\ \/ \E t \in TenantsForCreate(w), i \in Items :
          /\ FreshItem(i)
          /\ req' = [req EXCEPT ![w] = [@ EXCEPT !.use = t, !.item = i]]
          /\ Goto(w, "clean")
     \/ TenantsForCreate(w) = {} /\ Answer(w, 500)
  /\ log' = None
  /\ UNCHANGED <<db, ctx>>

\* full_clean: the foreign key is validated by a query of its own.
CleanItem(w) ==
  /\ pc[w] = "clean"
  /\ \/ ForeignKeyHolds(req[w].use) /\ Goto(w, "save") /\ UNCHANGED req
     \/ ~ForeignKeyHolds(req[w].use) /\ Answer(w, 500)
  /\ log' = None
  /\ UNCHANGED <<db, ctx>>

\* item.save(). The INSERT may commit although its answer is lost (500).
SaveItem(w) ==
  /\ pc[w] = "save"
  /\ \/ /\ ForeignKeyHolds(req[w].use)
        /\ owner' = [owner EXCEPT ![req[w].item] = req[w].use]
        /\ \/ /\ Answer(w, 201)
              /\ log' = IF req[w].view = "create" THEN Record(w, "item_created", req[w]) ELSE None
           \/ Answer(w, 500) /\ log' = None
     \/ ~ForeignKeyHolds(req[w].use) /\ Answer(w, 500) /\ log' = None /\ UNCHANGED owner
  /\ UNCHANGED <<slugOf, active, ctx>>

\* get_item through the scoped manager: one query, joined on the tenant's slug.
GetItem(w) ==
  /\ pc[w] = "get"
  /\ \E i \in Items :
       \/ /\ i \in Scoped(w)
          /\ req' = [req EXCEPT ![w] = [@ EXCEPT !.item = i, !.status = 200]]
          /\ Goto(w, "respond")
       \/ i \notin Scoped(w) /\ Answer(w, 404)
  /\ log' = None
  /\ UNCHANGED <<db, ctx>>

-----------------------------------------------------------------------------
(* The admin site: a form is validated against the database, then saved.   *)

\* What the validated forms and the delete confirmation accept.
Accepted ==
  {SaveTenantForm(t, s, a) : t \in {u \in Tenants : Row(u) \/ FreshTenant(u)}, s \in Slugs, a \in BOOLEAN}
    \cup {DeleteTenantForm(t) : t \in {u \in Tenants : Row(u) /\ Deletable(u)}}
    \cup {SaveItemForm(i, t) : i \in {j \in Items : owner[j] # None \/ FreshItem(j)}, t \in {u \in Tenants : Row(u)}}
    \cup {DeleteItemForm(i) : i \in {j \in Items : owner[j] # None}}

\* The form is submitted and valid.
AdminClean(w) ==
  /\ pc[w] = "adminclean"
  /\ \E e \in Accepted :
       /\ e.kind = "save_tenant" => SlugFree(e.tenant, e.slug)
       /\ req' = [req EXCEPT ![w].edit = e]
  /\ Goto(w, "adminsave")
  /\ log' = None
  /\ UNCHANGED <<db, ctx>>

\* The page is only shown (200), again with the form's errors, asks for a login (302) or
\* is refused (403).
AdminShows(w) ==
  /\ pc[w] = "adminclean"
  /\ \E status \in {200, 302, 403} : Answer(w, status)
  /\ log' = None
  /\ UNCHANGED <<db, ctx>>

\* What the database accepts when the edit is executed.
Admissible(e) ==
  \/ e.kind = "save_tenant" /\ SlugFree(e.tenant, e.slug)
  \/ e.kind = "delete_tenant" /\ Deletable(e.tenant)
  \/ e.kind = "save_item" /\ ForeignKeyHolds(e.tenant)
  \/ e.kind = "delete_item"

\* Model.save updates the row and, when it is gone, inserts it again.
Apply(e) ==
  \/ /\ e.kind = "save_tenant"
     /\ slugOf' = [slugOf EXCEPT ![e.tenant] = e.slug]
     /\ active' = IF e.active THEN active \cup {e.tenant} ELSE active \ {e.tenant}
     /\ UNCHANGED owner
  \/ /\ e.kind = "delete_tenant"
     /\ slugOf' = [slugOf EXCEPT ![e.tenant] = None]
     /\ active' = active \ {e.tenant}
     /\ UNCHANGED owner
  \/ /\ e.kind \in {"save_item", "delete_item"}
     /\ owner' = [owner EXCEPT ![e.item] = e.tenant]
     /\ UNCHANGED <<slugOf, active>>

AdminSave(w) ==
  /\ pc[w] = "adminsave"
  /\ \/ /\ Admissible(req[w].edit)
        /\ Apply(req[w].edit)
        /\ \E status \in {302, 500} : Answer(w, status)
     \/ ~Admissible(req[w].edit) /\ Answer(w, 500) /\ UNCHANGED db
  /\ log' = None
  /\ UNCHANGED ctx

-----------------------------------------------------------------------------
(* Direct calls, failures, the end of a request.                           *)

\* A caller of the service layer names its tenant with tenant_id_var.set(s)
\* and calls create_item; tenant_pk_var it does not touch.
CallService(j) ==
  /\ pc[j] = "idle"
  /\ \E s \in Slugs :
       /\ req' = [req EXCEPT ![j] = [NoRequest EXCEPT !.view = "service", !.tid = s, !.saved = ctx[j].tid]]
       /\ ctx' = [ctx EXCEPT ![j].tid = s]
  /\ Goto(j, "pick")
  /\ log' = None
  /\ UNCHANGED db

\* A statement raises DatabaseError: 503 from the tenant middleware, 500 elsewhere.
DatabaseFails(w) ==
  /\ \/ /\ pc[w] = "tenant" /\ ~SkipsTenantValidation(req[w].view)
        /\ Answer(w, 503)
        /\ log' = Record(w, "tenant_resolution_db_error", req[w])
     \/ /\ pc[w] \in {"dispatch", "pick", "clean", "save", "get", "adminclean", "adminsave"}
        /\ Answer(w, 500)
        /\ log' = None
  /\ UNCHANGED <<db, ctx>>

\* The answer leaves the chain: Django logs it when it is an error; the caller of the
\* service resets tenant_id_var with its token. The context variables stay as they are.
Respond(w) ==
  /\ pc[w] = "respond"
  /\ req' = [req EXCEPT ![w] = NoRequest]
  /\ Goto(w, "idle")
  /\ \/ /\ req[w].view = "service"
        /\ ctx' = [ctx EXCEPT ![w].tid = req[w].saved]
        /\ log' = None
     \/ /\ req[w].view # "service"
        /\ log' = IF req[w].status >= 400 THEN Record(w, "request_failed", req[w]) ELSE None
        /\ UNCHANGED ctx
  /\ UNCHANGED db

\* gunicorn replaces a worker (max requests, timeout): a new thread, a new context.
Restart(w) ==
  /\ ctx' = [ctx EXCEPT ![w] = DefaultContext]
  /\ req' = [req EXCEPT ![w] = NoRequest]
  /\ Goto(w, "idle")
  /\ log' = None
  /\ UNCHANGED db

-----------------------------------------------------------------------------
\* The migrations seed one active tenant, named Public.
Init ==
  /\ \E t \in Tenants : /\ slugOf = [u \in Tenants |-> IF u = t THEN Public ELSE None]
                        /\ active = {t}
  /\ owner = [i \in Items |-> None]
  /\ ctx = [w \in Threads |-> DefaultContext]
  /\ req = [w \in Threads |-> NoRequest]
  /\ pc = [w \in Threads |-> "idle"]
  /\ log = None

\* The steps that take what a thread is executing one statement further.
Step(w) ==
  \/ SkipTenantValidation(w) \/ RejectTenant(w) \/ AcceptTenant(w) \/ Dispatch(w)
  \/ PickTenant(w) \/ CleanItem(w) \/ SaveItem(w) \/ GetItem(w)
  \/ AdminClean(w) \/ AdminShows(w) \/ AdminSave(w)
  \/ DatabaseFails(w) \/ Respond(w)

Next ==
  \/ \E w \in Workers : Receive(w)
  \/ \E j \in Jobs : CallService(j)
  \/ \E w \in Threads : Step(w) \/ Restart(w)

Spec == Init /\ [][Next]_vars

\* Every statement returns, fails or is ended by gunicorn's timeout, which replaces the
\* worker: what a thread is executing goes on. No request has to arrive.
FairSpec == Spec /\ \A w \in Threads : WF_vars(Step(w))

-----------------------------------------------------------------------------
(* Properties.                                                             *)

EditRecords ==
  [kind: {"none"}, tenant: {None}, slug: {None}, active: BOOLEAN, item: {None}]
    \cup [kind: {"save_tenant"}, tenant: Tenants, slug: Slugs, active: BOOLEAN, item: {None}]
    \cup [kind: {"delete_tenant"}, tenant: Tenants, slug: {None}, active: BOOLEAN, item: {None}]
    \cup [kind: {"save_item"}, tenant: Tenants, slug: {None}, active: BOOLEAN, item: Items]
    \cup [kind: {"delete_item"}, tenant: {None}, slug: {None}, active: BOOLEAN, item: Items]
Requests == [view: Views \cup {None}, rid: ReqIds \cup {None}, tid: Slugs \cup {None},
             tpk: Tenants \cup {None}, use: Tenants \cup {None}, item: Items \cup {None},
             edit: EditRecords, saved: Slugs \cup {None}, status: Statuses]
Contexts == [rid: ReqIds \cup {None}, tid: Slugs, tpk: Tenants \cup {None}]
Records == [event: {"invalid_request_id_header", "invalid_tenant_header", "item_created",
                    "tenant_resolution_db_error", "request_failed"},
            rid: ReqIds \cup {None}, tid: Slugs,
            ownRid: ReqIds \cup {None}, ownTid: Slugs \cup {None}]
Places == {"idle", "tenant", "dispatch", "pick", "clean", "save", "get",
           "adminclean", "adminsave", "respond"}

\* Every variable holds a value of its kind.
TypeOK ==
  /\ slugOf \in [Tenants -> Slugs \cup {None}]
  /\ active \subseteq Tenants
  /\ owner \in [Items -> Tenants \cup {None}]
  /\ ctx \in [Threads -> Contexts]
  /\ req \in [Threads -> Requests]
  /\ pc \in [Threads -> Places]
  /\ log \in Records \cup {None}

\* From the moment a request has its tenant until its answer has left, the
\* thread's context variables are that request's own, whatever the requests
\* served before on this thread left there; a direct caller of the service finds
\* the tenant it named (config/context.py, both middlewares).
CoherentAt(w) ==
  /\ pc[w] # "idle" /\ req[w].view # "service" => ctx[w].rid = req[w].rid
  /\ req[w].tid # None => ctx[w].tid = req[w].tid
  /\ req[w].tid # None /\ req[w].view # "service" => ctx[w].tpk = req[w].tpk

ContextCoherent == \A w \in Threads : CoherentAt(w)

\* No item refers to a tenant that is gone, however admin deletions, admin edits
\* and creations interleave; only existing rows are active.
ReferentialIntegrity ==
  /\ \A i \in Items : owner[i] # None => Row(owner[i])
  /\ \A t \in active : Row(t)

\* A slug names one tenant at most: what slug-based resolution and the
\* slug-based reads of TenantScopedQuerySet both rest on.
SlugsUnique == \A t, u \in Tenants : Row(t) /\ slugOf[t] = slugOf[u] => t = u

\* Once a request has its tenant, every record logged for it carries its request
\* id and its tenant (config/logging.py:56-63).
LogsAttributed ==
  log # None /\ log.ownTid # None => log.tid = log.ownTid /\ log.rid = log.ownRid

\* What a thread holds at each place; what the invariants above need to be inductive.
WellFormedAt(w) ==
  /\ pc[w] = "tenant" => /\ req[w].view \in Views \ {"service"}
                         /\ req[w].tid = None /\ req[w].tpk = None
  /\ req[w].view = "service" => w \in Jobs /\ req[w].saved \in Slugs /\ req[w].tpk = None
  /\ pc[w] = "dispatch" => req[w].view \in {"probe", "ping", "create", "detail"}
  /\ pc[w] \in {"pick", "clean", "save"} => req[w].view \in {"create", "service"}
  /\ pc[w] = "get" => req[w].view = "detail"
  /\ pc[w] \in {"adminclean", "adminsave"} => req[w].view = "admin"
  /\ req[w].view \in {"probe", "admin"} => req[w].tpk = None
  /\ pc[w] \in {"dispatch", "pick", "clean", "save", "get"} =>
       /\ req[w].tid # None
       /\ req[w].view \notin {"probe", "service"} => req[w].tpk \in Tenants
  /\ pc[w] \in {"clean", "save"} =>
       /\ req[w].use \in Tenants /\ req[w].item \in Items
       /\ req[w].view = "create" => req[w].use = req[w].tpk
  /\ pc[w] = "adminsave" => req[w].edit.kind # "none"

WellFormed == \A w \in Threads : WellFormedAt(w)

\* The item a thread is about to insert is new, and no other thread will write it.
ReservedAt(v, w) ==
  pc[w] \in {"clean", "save"} =>
    /\ owner[req[w].item] = None
    /\ v # w /\ pc[v] \in {"clean", "save"} => req[v].item # req[w].item
    /\ pc[v] = "adminsave" => req[v].edit.item # req[w].item

ReservedItems == \A v, w \in Threads : ReservedAt(v, w)

InductiveInvariant ==
  /\ TypeOK /\ WellFormed /\ ContextCoherent /\ ReservedItems
  /\ ReferentialIntegrity /\ SlugsUnique /\ LogsAttributed

\* A request that creates an item gives it to the tenant its header resolved to,
\* even when that tenant is renamed, or its slug is given to another, on the way.
CreatesInResolvedTenant ==
  \A w \in Workers, i \in Items :
    req[w].view = "create" /\ pc[w] = "save" /\ pc'[w] = "respond" /\ owner'[i] # owner[i]
      => owner'[i] = req[w].tpk

WritesGoToResolvedTenant == [][CreatesInResolvedTenant]_vars

ServesItem(w) == pc[w] = "get" /\ pc'[w] = "respond" /\ req'[w].status = 200

\* GET returns an item of the request's tenant as long as the request's slug
\* still names that tenant when the query runs.
ServesWithinTenant ==
  \A w \in Workers :
    ServesItem(w) /\ slugOf[req[w].tpk] = req[w].tid => owner[req'[w].item] = req[w].tpk

ReadIsolation == [][ServesWithinTenant]_vars

\* A record logged for a request that has no tenant does not name another
\* request's: docs/observability.md:15 documents tenant_id as TenantMiddleware's.
LogsCarryNoOtherTenant == log # None => log.tid \in {log.ownTid, Public}

\* The capability of the abstract specification that a thread holds.
Handle(w) ==
  CASE pc[w] \in {"adminclean", "adminsave"} -> "operator"
    [] pc[w] \in {"dispatch", "get", "pick"} -> req[w].tpk
    [] pc[w] \in {"clean", "save"} -> req[w].use
    [] OTHER -> None

\* A tenant that stays deactivated is eventually out of use: the requests that
\* resolved it before, which nothing checks again, all come to an end and no new
\* one resolves it.
DeactivationTakesEffect ==
  \A t \in Tenants : <>[](t \notin active) => <>[](\A w \in Threads : Handle(w) # t)

Catalog == INSTANCE TenantCatalog WITH
  rows <- {t \in Tenants : Row(t)}, live <- active, owner <- owner,
  handle <- [w \in Threads |-> Handle(w)], Operator <- "operator"

\* The request path implements the abstract service.
ImplementsCatalog == Catalog!Spec
=============================================================================
