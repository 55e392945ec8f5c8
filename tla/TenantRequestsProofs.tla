------------------------ MODULE TenantRequestsProofs ------------------------
(***************************************************************************)
(* Theorems about TenantRequests, for every number of threads, tenants,    *)
(* slugs, items and request identifiers.                                   *)
(***************************************************************************)
EXTENDS TenantRequests, TLAPS

USE ThreadsAssumption, TenantsAssumption, SlugsAssumption, ItemsAssumption, ReqIdsAssumption

\* The record of a thread without a request is one of Requests.
LEMMA NoRequestType == NoRequest \in Requests
  BY DEF NoRequest, Requests, Views, Statuses, EditRecords, NoEdit, EditForm

\* A new thread starts with a context of the right kind.
LEMMA DefaultContextType == DefaultContext \in Contexts
  BY DEF DefaultContext, Contexts

\* What _add_request_context makes of a typed context is a log record.
LEMMA RecordType ==
  ASSUME NEW w \in Threads, ctx \in [Threads -> Contexts],
         NEW own, own.rid \in ReqIds \cup {None}, own.tid \in Slugs \cup {None},
         NEW event \in {"invalid_request_id_header", "invalid_tenant_header", "item_created",
                    "tenant_resolution_db_error", "request_failed"}
  PROVE  Record(w, event, own) \in Records
  BY DEF Record, Records, Contexts

\* A request stays well typed when TenantMiddleware stores its tenant.
LEMMA ResolvedType ==
  ASSUME NEW r \in Requests, NEW s \in Slugs, NEW t \in Tenants
  PROVE  [r EXCEPT !.tid = s, !.tpk = t] \in Requests
  BY DEF Requests

\* A request stays well typed when create_item has its tenant and a new key.
LEMMA PickedType ==
  ASSUME NEW r \in Requests, NEW t \in Tenants \cup {None}, NEW i \in Items
  PROVE  [r EXCEPT !.use = t, !.item = i] \in Requests
  BY DEF Requests

\* A request stays well typed when a view has found its item.
LEMMA ServedType ==
  ASSUME NEW r \in Requests, NEW i \in Items, NEW status \in Statuses
  PROVE  [r EXCEPT !.item = i, !.status = status] \in Requests
  BY DEF Requests

\* A request stays well typed when a skipped path gives it the public slug.
LEMMA NamedType ==
  ASSUME NEW r \in Requests, NEW s \in Slugs
  PROVE  [r EXCEPT !.tid = s] \in Requests
  BY DEF Requests

\* A request stays well typed when it carries a validated admin form.
LEMMA EditedType ==
  ASSUME NEW r \in Requests, NEW e \in EditRecords
  PROVE  [r EXCEPT !.edit = e] \in Requests
  BY DEF Requests

\* An answer keeps requests and places well typed.
LEMMA AnswerType ==
  ASSUME TypeOK, NEW w \in Threads, NEW status \in Statuses, Answer(w, status)
  PROVE  /\ req' \in [Threads -> Requests]
         /\ pc' \in [Threads -> Places]
  BY SMTT(30) DEF TypeOK, Answer, Goto, Requests, Places

\* A step along the middleware chain keeps the places well typed.
LEMMA GotoType ==
  ASSUME TypeOK, NEW w \in Threads, NEW place \in Places, Goto(w, place)
  PROVE  pc' \in [Threads -> Places]
  BY DEF TypeOK, Goto, Places

\* Every admin form that passes validation is an edit record.
LEMMA AcceptedType ==
  ASSUME NEW e \in Accepted
  PROVE  e \in EditRecords /\ e.kind # "none"
<1>1. CASE \E t \in Tenants, s \in Slugs, a \in BOOLEAN : e = SaveTenantForm(t, s, a)
  BY <1>1 DEF SaveTenantForm, EditForm, EditRecords
<1>2. CASE \E t \in Tenants : e = DeleteTenantForm(t)
  BY <1>2 DEF DeleteTenantForm, EditForm, EditRecords
<1>3. CASE \E i \in Items, t \in Tenants : e = SaveItemForm(i, t)
  BY <1>3 DEF SaveItemForm, EditForm, EditRecords
<1>4. CASE \E i \in Items : e = DeleteItemForm(i)
  BY <1>4 DEF DeleteItemForm, EditForm, EditRecords
<1> QED
  BY <1>1, <1>2, <1>3, <1>4 DEF Accepted

\* The shape of an edit follows from its kind.
LEMMA EditShape ==
  ASSUME NEW e \in EditRecords
  PROVE  /\ e.kind = "save_tenant" => e.tenant \in Tenants /\ e.slug \in Slugs
         /\ e.kind = "delete_tenant" => e.tenant \in Tenants
         /\ e.kind = "save_item" => e.tenant \in Tenants /\ e.item \in Items
         /\ e.kind = "delete_item" => e.tenant = None /\ e.item \in Items
         /\ e.item \in Items \cup {None}
  BY DEF EditRecords

\* An action of a thread changes no other thread's context, request or place.
LEMMA FrameAnswer ==
  ASSUME TypeOK, NEW w \in Threads, NEW status, Answer(w, status)
  PROVE  \A v \in Threads \ {w} : req'[v] = req[v] /\ pc'[v] = pc[v]
  BY DEF Answer, Goto, TypeOK

\* An action of a thread changes no other thread's context, request or place.
LEMMA Frame ==
  ASSUME TypeOK, NEW w \in Threads, Step(w) \/ Restart(w) \/ Receive(w) \/ CallService(w)
  PROVE  \A v \in Threads \ {w} : ctx'[v] = ctx[v] /\ req'[v] = req[v] /\ pc'[v] = pc[v]
<1> USE DEF TypeOK, Goto
<1>1. CASE Receive(w) \/ CallService(w) \/ Restart(w)
  BY <1>1 DEF Receive, CallService, Restart
<1>2. CASE SkipTenantValidation(w) \/ AcceptTenant(w)
  BY <1>2 DEF SkipTenantValidation, AcceptTenant
<1>3. CASE RejectTenant(w) \/ Dispatch(w) \/ DatabaseFails(w)
  BY <1>3, FrameAnswer DEF RejectTenant, Dispatch, DatabaseFails
<1>4. CASE PickTenant(w) \/ CleanItem(w) \/ SaveItem(w) \/ GetItem(w)
  BY <1>4, FrameAnswer, ZenonT(40) DEF PickTenant, CleanItem, SaveItem, GetItem
<1>5. CASE AdminClean(w) \/ AdminShows(w) \/ AdminSave(w)
  BY <1>5, FrameAnswer DEF AdminClean, AdminShows, AdminSave
<1>6. CASE Respond(w)
  BY <1>6 DEF Respond
<1> QED
  BY <1>1, <1>2, <1>3, <1>4, <1>5, <1>6 DEF Step

\* Dispatch answers at once or goes on to the statements of an item view.
LEMMA DispatchOutcome ==
  ASSUME NEW w, Dispatch(w)
  PROVE  \/ \E status \in {200, 400, 401, 403, 404, 429, 503} : Answer(w, status)
         \/ /\ pc[w] = "dispatch" /\ req[w].view \in {"create", "detail"} /\ UNCHANGED req
            /\ Goto(w, IF req[w].view = "create" THEN "pick" ELSE "get")
<1>1. ASSUME NEW u \in Users, NEW throttled \in BOOLEAN, NEW valid \in BOOLEAN
      PROVE  Verdict(req[w].view, u, throttled, valid) \in {200, 400, 401, 403, 429}
  BY DEF Verdict
<1>2. PICK u \in Users, throttled \in BOOLEAN, valid \in BOOLEAN :
        \/ /\ req[w].view \in {"create", "detail"} /\ UNCHANGED req
           /\ Goto(w, IF req[w].view = "create" THEN "pick" ELSE "get")
        \/ Answer(w, Verdict(req[w].view, u, throttled, valid))
        \/ \E status \in {200, 403, 404, 503} : Answer(w, status)
  BY DEF Dispatch
<1>3. pc[w] = "dispatch"
  BY DEF Dispatch
<1> QED
  BY <1>1, <1>2, <1>3

\* Every step of the system preserves the type invariant.
LEMMA TypeStep == TypeOK /\ WellFormed /\ [Next]_vars => TypeOK'
<1> SUFFICES ASSUME TypeOK, WellFormed, [Next]_vars PROVE TypeOK'
  OBVIOUS
<1> USE DEF TypeOK, db
<1>1. ASSUME NEW w \in Workers, Receive(w) PROVE TypeOK'
  <2>1. w \in Threads
    BY DEF Threads
  <2>2. PICK view \in Views, r \in ReqIds :
          /\ ctx' = [ctx EXCEPT ![w].rid = r]
          /\ req' = [req EXCEPT ![w] = [NoRequest EXCEPT !.view = view, !.rid = r]]
          /\ log' \in {Record(w, "invalid_request_id_header", [rid |-> r, tid |-> None]), None}
    BY <1>1 DEF Receive
  <2>3. ctx' \in [Threads -> Contexts]
    BY <2>1, <2>2 DEF Contexts
  <2>4. [NoRequest EXCEPT !.view = view, !.rid = r] \in Requests
    BY NoRequestType DEF Requests
  <2>5. log' \in Records \cup {None}
    BY <2>1, <2>2, RecordType
  <2> QED
    BY <1>1, <2>1, <2>2, <2>3, <2>4, <2>5, GotoType DEF Receive, Places
<1>2. ASSUME NEW j \in Jobs, CallService(j) PROVE TypeOK'
  <2>1. j \in Threads
    BY DEF Threads
  <2>2. PICK s \in Slugs :
          /\ req' = [req EXCEPT ![j] = [NoRequest EXCEPT !.view = "service", !.tid = s, !.saved = ctx[j].tid]]
          /\ ctx' = [ctx EXCEPT ![j].tid = s]
    BY <1>2 DEF CallService
  <2>3. ctx' \in [Threads -> Contexts] /\ ctx[j].tid \in Slugs
    BY <2>1, <2>2 DEF Contexts
  <2>4. [NoRequest EXCEPT !.view = "service", !.tid = s, !.saved = ctx[j].tid] \in Requests
    BY <2>3, NoRequestType DEF Requests, Views
  <2> QED
    BY <1>2, <2>1, <2>2, <2>3, <2>4, GotoType DEF CallService, Places
<1>3. ASSUME NEW w \in Threads, Restart(w) PROVE TypeOK'
  BY <1>3, NoRequestType, DefaultContextType, GotoType DEF Restart, Places
<1>4. ASSUME NEW w \in Threads, SkipTenantValidation(w) PROVE TypeOK'
  <2>1. PublicContext(w) \in Contexts
    BY DEF PublicContext, Contexts
  <2>2. [req[w] EXCEPT !.tid = Public] \in Requests
    BY NamedType
  <2> QED
    BY <1>4, <2>1, <2>2, GotoType DEF SkipTenantValidation, Places
<1>5. ASSUME NEW w \in Threads, RejectTenant(w) PROVE TypeOK'
  <2>1. Record(w, "invalid_tenant_header", req[w]) \in Records
    BY RecordType DEF Requests
  <2> QED
    BY <1>5, <2>1, AnswerType DEF RejectTenant, Statuses
<1>6. ASSUME NEW w \in Threads, AcceptTenant(w) PROVE TypeOK'
  <2>1. PICK s \in Slugs, t \in Tenants :
          /\ slugOf[t] = s
          /\ ctx' = [ctx EXCEPT ![w] = TenantContext(w, t)]
          /\ req' = [req EXCEPT ![w] = [@ EXCEPT !.tid = slugOf[t], !.tpk = t]]
    BY <1>6 DEF AcceptTenant, ActiveNamed
  <2>2. TenantContext(w, t) \in Contexts
    BY <2>1 DEF TenantContext, Contexts
  <2>3. [req[w] EXCEPT !.tid = slugOf[t], !.tpk = t] \in Requests
    BY <2>1, ResolvedType
  <2> QED
    BY <1>6, <2>1, <2>2, <2>3, GotoType DEF AcceptTenant, Places
<1>7. ASSUME NEW w \in Threads, Dispatch(w) PROVE TypeOK'
  <2>1. UNCHANGED <<db, ctx>> /\ log' = None
    BY <1>7 DEF Dispatch
  <2>2. CASE \E status \in {200, 400, 401, 403, 404, 429, 503} : Answer(w, status)
    BY <2>1, <2>2, AnswerType DEF Statuses
  <2>3. CASE UNCHANGED req /\ \E place \in {"pick", "get"} : Goto(w, place)
    BY <2>1, <2>3, GotoType DEF Places
  <2> QED
    BY <1>7, <2>2, <2>3, DispatchOutcome
<1>8. ASSUME NEW w \in Threads, PickTenant(w) PROVE TypeOK'
  <2>1. TenantsForCreate(w) \subseteq Tenants \cup {None}
    BY DEF TenantsForCreate, UsesContextKey, ActiveNamed, Contexts
  <2>2. \A t \in TenantsForCreate(w), i \in Items : [req[w] EXCEPT !.use = t, !.item = i] \in Requests
    BY <2>1, PickedType
  <2>3. UNCHANGED <<db, ctx>> /\ log' = None
    BY <1>8 DEF PickTenant
  <2>4. ASSUME NEW t \in TenantsForCreate(w), NEW i \in Items,
               req' = [req EXCEPT ![w] = [@ EXCEPT !.use = t, !.item = i]], Goto(w, "clean")
        PROVE  TypeOK'
    <3>1. req' = [req EXCEPT ![w] = [req[w] EXCEPT !.use = t, !.item = i]]
      BY <2>4
    <3>2. req' \in [Threads -> Requests]
      BY <2>2, <3>1
    <3> QED
      BY <2>3, <2>4, <3>2, GotoType DEF Places
  <2>5. CASE Answer(w, 500)
    BY <2>3, <2>5, AnswerType DEF Statuses
  <2> QED
    BY <1>8, <2>4, <2>5 DEF PickTenant
<1>9. ASSUME NEW w \in Threads, CleanItem(w) PROVE TypeOK'
  BY <1>9, AnswerType, GotoType DEF CleanItem, Statuses, Places
<1>10. ASSUME NEW w \in Threads, SaveItem(w) PROVE TypeOK'
  <2>1. Record(w, "item_created", req[w]) \in Records
    BY RecordType DEF Requests
  <2>2. req[w].use \in Tenants
    BY <1>10 DEF SaveItem, WellFormed, WellFormedAt
  <2> QED
    BY <1>10, <2>1, <2>2, AnswerType DEF SaveItem, Statuses
<1>11. ASSUME NEW w \in Threads, GetItem(w) PROVE TypeOK'
  <2>1. \A i \in Items : [req[w] EXCEPT !.item = i, !.status = 200] \in Requests
    <3> 200 \in Statuses
      BY DEF Statuses
    <3> QED
      BY ServedType
  <2>2. UNCHANGED <<db, ctx>> /\ log' = None
    BY <1>11 DEF GetItem
  <2>3. ASSUME NEW i \in Items,
               req' = [req EXCEPT ![w] = [@ EXCEPT !.item = i, !.status = 200]], Goto(w, "respond")
        PROVE  TypeOK'
    <3>1. req' = [req EXCEPT ![w] = [req[w] EXCEPT !.item = i, !.status = 200]]
      BY <2>3
    <3>2. req' \in [Threads -> Requests]
      BY <2>1, <3>1
    <3> QED
      BY <2>2, <2>3, <3>2, GotoType DEF Places
  <2>4. CASE Answer(w, 404)
    BY <2>2, <2>4, AnswerType DEF Statuses
  <2> QED
    BY <1>11, <2>3, <2>4 DEF GetItem
<1>12. ASSUME NEW w \in Threads, AdminClean(w) PROVE TypeOK'
  <2>1. \A e \in Accepted : [req[w] EXCEPT !.edit = e] \in Requests
    BY AcceptedType, EditedType
  <2> QED
    BY <1>12, <2>1, GotoType DEF AdminClean, Places
<1>13. ASSUME NEW w \in Threads, AdminShows(w) PROVE TypeOK'
  BY <1>13, AnswerType DEF AdminShows, Statuses
<1>14. ASSUME NEW w \in Threads, AdminSave(w) PROVE TypeOK'
  <2> DEFINE e == req[w].edit
  <2>1. e \in EditRecords
    BY DEF Requests
  <2>2. /\ slugOf' \in [Tenants -> Slugs \cup {None}]
        /\ active' \subseteq Tenants
        /\ owner' \in [Items -> Tenants \cup {None}]
    BY <1>14, <2>1, EditShape DEF AdminSave, Apply
  <2> QED
    BY <1>14, <2>2, AnswerType DEF AdminSave, Statuses
<1>15. ASSUME NEW w \in Threads, DatabaseFails(w) PROVE TypeOK'
  <2>1. Record(w, "tenant_resolution_db_error", req[w]) \in Records
    BY RecordType DEF Requests
  <2> QED
    BY <1>15, <2>1, AnswerType DEF DatabaseFails, Statuses
<1>16. ASSUME NEW w \in Threads, Respond(w) PROVE TypeOK'
  <2>1. Record(w, "request_failed", req[w]) \in Records
    BY RecordType DEF Requests
  <2>2. req[w].view = "service" => req[w].saved \in Slugs
    BY DEF WellFormed, WellFormedAt
  <2>3. ctx' \in [Threads -> Contexts]
    BY <1>16, <2>2 DEF Respond, Contexts
  <2> QED
    BY <1>16, <2>1, <2>3, NoRequestType, GotoType DEF Respond, Places
<1>17. CASE UNCHANGED vars
  BY <1>17 DEF TypeOK, vars
<1> QED
  BY <1>1, <1>2, <1>3, <1>4, <1>5, <1>6, <1>7, <1>8, <1>9, <1>10, <1>11, <1>12, <1>13, <1>14,
     <1>15, <1>16, <1>17 DEF Next, Step

-----------------------------------------------------------------------------
(* What a thread holds at each place.                                      *)

\* An answer changes only the status of the request.
LEMMA AnswerFields ==
  ASSUME TypeOK, NEW w \in Threads, NEW status, Answer(w, status)
  PROVE  /\ pc'[w] = "respond"
         /\ req'[w].view = req[w].view /\ req'[w].rid = req[w].rid /\ req'[w].tid = req[w].tid
         /\ req'[w].tpk = req[w].tpk /\ req'[w].saved = req[w].saved
         /\ req'[w].item = req[w].item /\ req'[w].edit = req[w].edit
  BY DEF TypeOK, Answer, Goto, Requests

\* A thread that has answered holds nothing WellFormed restricts.
LEMMA AnswerWellFormed ==
  ASSUME TypeOK, WellFormed, NEW w \in Threads, NEW status, Answer(w, status)
  PROVE  WellFormedAt(w)'
  BY AnswerFields DEF WellFormed, WellFormedAt

\* A step of one thread leaves the other threads well formed.
LEMMA OthersWellFormed ==
  ASSUME TypeOK, WellFormed, NEW w \in Threads, Step(w) \/ Restart(w) \/ Receive(w) \/ CallService(w),
         WellFormedAt(w)'
  PROVE  WellFormed'
<1> SUFFICES ASSUME NEW v \in Threads, v # w PROVE WellFormedAt(v)'
  BY DEF WellFormed
<1>1. req'[v] = req[v] /\ pc'[v] = pc[v]
  BY Frame
<1> QED
  BY <1>1 DEF WellFormed, WellFormedAt

\* Every step preserves what a thread holds at each place.
LEMMA WellFormedStep == TypeOK /\ WellFormed /\ ContextCoherent /\ [Next]_vars => WellFormed'
<1> SUFFICES ASSUME TypeOK, WellFormed, ContextCoherent, [Next]_vars PROVE WellFormed'
  OBVIOUS
<1> USE DEF Goto
<1>1. ASSUME NEW w \in Workers, Receive(w) PROVE WellFormed'
  <2>1. w \in Threads
    BY DEF Threads
  <2>2. PICK view \in Views \ {"service"}, r \in ReqIds :
          req' = [req EXCEPT ![w] = [NoRequest EXCEPT !.view = view, !.rid = r]]
    BY <1>1 DEF Receive
  <2>3. /\ req'[w].view = view /\ req'[w].tid = None /\ req'[w].tpk = None
        /\ pc'[w] = "tenant"
    BY <1>1, <2>1, <2>2 DEF TypeOK, Receive, NoRequest
  <2>4. WellFormedAt(w)'
    BY <2>3 DEF WellFormedAt
  <2> QED
    BY <1>1, <2>1, <2>4, OthersWellFormed
<1>2. ASSUME NEW j \in Jobs, CallService(j) PROVE WellFormed'
  <2>1. j \in Threads
    BY DEF Threads
  <2>2. PICK s \in Slugs :
          req' = [req EXCEPT ![j] = [NoRequest EXCEPT !.view = "service", !.tid = s, !.saved = ctx[j].tid]]
    BY <1>2 DEF CallService
  <2>3. /\ req'[j].view = "service" /\ req'[j].tid = s /\ req'[j].tpk = None
        /\ req'[j].saved = ctx[j].tid /\ pc'[j] = "pick"
    BY <1>2, <2>1, <2>2 DEF TypeOK, CallService, NoRequest
  <2>4. ctx[j].tid \in Slugs
    BY <2>1 DEF TypeOK, Contexts
  <2>5. WellFormedAt(j)'
    BY <2>3, <2>4 DEF WellFormedAt
  <2> QED
    BY <1>2, <2>1, <2>5, OthersWellFormed
<1>3. ASSUME NEW w \in Threads, Restart(w) \/ Respond(w) PROVE WellFormed'
  <2>1. req'[w] = NoRequest /\ pc'[w] = "idle"
    BY <1>3 DEF TypeOK, Restart, Respond
  <2>2. WellFormedAt(w)'
    BY <2>1, NoneAssumption DEF WellFormedAt, NoRequest, Views
  <2> QED
    BY <1>3, <2>2, OthersWellFormed DEF Step
<1>4. ASSUME NEW w \in Threads, SkipTenantValidation(w) PROVE WellFormed'
  <2>1. /\ req'[w] = [req[w] EXCEPT !.tid = Public]
        /\ pc'[w] = IF req[w].view = "admin" THEN "adminclean" ELSE "dispatch"
        /\ req[w].view \in {"probe", "admin"} /\ pc[w] = "tenant"
    BY <1>4 DEF TypeOK, SkipTenantValidation, SkipsTenantValidation
  <2>2. req'[w].view = req[w].view /\ req'[w].tpk = req[w].tpk /\ req'[w].tid = Public
    BY <2>1 DEF TypeOK, Requests
  <2>3. WellFormedAt(w)'
    BY <2>1, <2>2 DEF WellFormed, WellFormedAt
  <2> QED
    BY <1>4, <2>3, OthersWellFormed DEF Step
<1>5. ASSUME NEW w \in Threads, AcceptTenant(w) PROVE WellFormed'
  <2>1. PICK s \in Slugs, t \in Tenants :
          slugOf[t] = s /\ req' = [req EXCEPT ![w] = [req[w] EXCEPT !.tid = s, !.tpk = t]]
    BY <1>5 DEF AcceptTenant, ActiveNamed
  <2>2. /\ req'[w].view = req[w].view /\ req'[w].tpk = t /\ req'[w].tid = s
        /\ pc[w] = "tenant" /\ pc'[w] = "dispatch" /\ req[w].view \notin {"probe", "admin"}
    <3>1. req'[w] = [req[w] EXCEPT !.tid = s, !.tpk = t]
      BY <2>1 DEF TypeOK
    <3>2. req[w] \in Requests
      BY DEF TypeOK
    <3>3. req'[w].view = req[w].view /\ req'[w].tpk = t /\ req'[w].tid = s
      BY <3>1, <3>2 DEF Requests
    <3> QED
      BY <1>5, <3>3 DEF TypeOK, AcceptTenant, SkipsTenantValidation
  <2>3. WellFormedAt(w)'
    BY <2>1, <2>2 DEF WellFormed, WellFormedAt, Views
  <2> QED
    BY <1>5, <2>3, OthersWellFormed DEF Step
<1>6. ASSUME NEW w \in Threads, Dispatch(w) PROVE WellFormed'
  <2>1. CASE \E status \in {200, 400, 401, 403, 404, 429, 503} : Answer(w, status)
    BY <1>6, <2>1, AnswerWellFormed, OthersWellFormed DEF Step
  <2>2. CASE /\ pc[w] = "dispatch" /\ req[w].view \in {"create", "detail"} /\ UNCHANGED req
             /\ pc' = [pc EXCEPT ![w] = IF req[w].view = "create" THEN "pick" ELSE "get"]
    <3>1. WellFormedAt(w)'
      BY <2>2 DEF WellFormed, WellFormedAt, TypeOK
    <3> QED
      BY <1>6, <3>1, OthersWellFormed DEF Step
  <2> QED
    BY <1>6, <2>1, <2>2, DispatchOutcome DEF Goto
<1>7. ASSUME NEW w \in Threads, PickTenant(w) PROVE WellFormed'
  <2>1. CASE Answer(w, 500)
    BY <1>7, <2>1, AnswerWellFormed, OthersWellFormed DEF Step
  <2>2. ASSUME NEW t \in TenantsForCreate(w), NEW i \in Items, pc[w] = "pick",
               req' = [req EXCEPT ![w] = [@ EXCEPT !.use = t, !.item = i]], Goto(w, "clean")
        PROVE  WellFormedAt(w)'
    <3>1. /\ req'[w].view = req[w].view /\ req'[w].tpk = req[w].tpk /\ req'[w].tid = req[w].tid
          /\ req'[w].saved = req[w].saved /\ req'[w].use = t /\ req'[w].item = i
          /\ pc'[w] = "clean"
      BY <2>2 DEF TypeOK, Requests
    <3>2. req[w].view = "create" => t = req[w].tpk
      BY <2>2 DEF TenantsForCreate, UsesContextKey, ContextCoherent, CoherentAt, WellFormed, WellFormedAt
    <3>3. t \in Tenants
      BY <2>2 DEF TenantsForCreate, UsesContextKey, ActiveNamed, TypeOK, Contexts
    <3> QED
      BY <2>2, <3>1, <3>2, <3>3 DEF WellFormed, WellFormedAt
  <2> QED
    BY <1>7, <2>1, <2>2, OthersWellFormed DEF Step, PickTenant
<1>8. ASSUME NEW w \in Threads, CleanItem(w) PROVE WellFormed'
  <2>1. CASE Answer(w, 500)
    BY <1>8, <2>1, AnswerWellFormed, OthersWellFormed DEF Step
  <2>2. CASE pc[w] = "clean" /\ Goto(w, "save") /\ UNCHANGED req
    <3>1. WellFormedAt(w)'
      BY <2>2 DEF WellFormed, WellFormedAt, TypeOK
    <3> QED
      BY <1>8, <3>1, OthersWellFormed DEF Step
  <2> QED
    BY <1>8, <2>1, <2>2 DEF CleanItem
<1>9. ASSUME NEW w \in Threads, GetItem(w) PROVE WellFormed'
  <2>1. CASE Answer(w, 404)
    BY <1>9, <2>1, AnswerWellFormed, OthersWellFormed DEF Step
  <2>2. ASSUME NEW i \in Items, req' = [req EXCEPT ![w] = [@ EXCEPT !.item = i, !.status = 200]],
               Goto(w, "respond")
        PROVE  WellFormedAt(w)'
    <3>1. /\ req'[w].view = req[w].view /\ req'[w].tpk = req[w].tpk /\ req'[w].tid = req[w].tid
          /\ req'[w].saved = req[w].saved /\ pc'[w] = "respond"
      BY <2>2 DEF TypeOK, Requests
    <3> QED
      BY <3>1 DEF WellFormed, WellFormedAt
  <2> QED
    BY <1>9, <2>1, <2>2, OthersWellFormed, ZenonT(40) DEF Step, GetItem
<1>10. ASSUME NEW w \in Threads, AdminClean(w) PROVE WellFormed'
  <2>1. PICK e \in Accepted : req' = [req EXCEPT ![w].edit = e]
    BY <1>10 DEF AdminClean
  <2>2. /\ req'[w].view = req[w].view /\ req'[w].tpk = req[w].tpk /\ req'[w].edit = e
        /\ pc[w] = "adminclean" /\ pc'[w] = "adminsave"
    BY <1>10, <2>1 DEF TypeOK, Requests, AdminClean
  <2>3. e.kind # "none"
    BY AcceptedType
  <2>4. WellFormedAt(w)'
    BY <2>2, <2>3 DEF WellFormed, WellFormedAt
  <2> QED
    BY <1>10, <2>4, OthersWellFormed DEF Step
<1>11. ASSUME NEW w \in Threads,
              RejectTenant(w) \/ SaveItem(w) \/ AdminShows(w) \/ AdminSave(w) \/ DatabaseFails(w)
       PROVE  WellFormed'
  <2>1. \E status \in Statuses : Answer(w, status)
    BY <1>11 DEF RejectTenant, SaveItem, AdminShows, AdminSave, DatabaseFails, Statuses
  <2> QED
    BY <1>11, <2>1, AnswerWellFormed, OthersWellFormed DEF Step
<1>12. CASE UNCHANGED vars
  BY <1>12 DEF vars, WellFormed, WellFormedAt
<1> QED
  BY <1>1, <1>2, <1>3, <1>4, <1>5, <1>6, <1>7, <1>8, <1>9, <1>10, <1>11, <1>12 DEF Next, Step

-----------------------------------------------------------------------------
(* The context variables, and what is logged with them.                    *)

\* An answer leaves the context and the identity of the request alone.
LEMMA AnswerCoherent ==
  ASSUME TypeOK, ContextCoherent, NEW w \in Threads, NEW status, Answer(w, status),
         UNCHANGED ctx, pc[w] # "idle"
  PROVE  CoherentAt(w)'
  BY AnswerFields DEF ContextCoherent, CoherentAt

\* A step of one thread leaves the other threads' contexts coherent.
LEMMA OthersCoherent ==
  ASSUME TypeOK, ContextCoherent, NEW w \in Threads,
         Step(w) \/ Restart(w) \/ Receive(w) \/ CallService(w), CoherentAt(w)'
  PROVE  ContextCoherent'
<1> SUFFICES ASSUME NEW v \in Threads, v # w PROVE CoherentAt(v)'
  BY DEF ContextCoherent
<1>1. ctx'[v] = ctx[v] /\ req'[v] = req[v] /\ pc'[v] = pc[v]
  BY Frame
<1> QED
  BY <1>1 DEF ContextCoherent, CoherentAt

\* Steps that leave the thread's context, and its request's identity, alone.
LEMMA SameCoherent ==
  ASSUME TypeOK, ContextCoherent, NEW w \in Threads, UNCHANGED ctx, pc[w] # "idle",
         req'[w].view = req[w].view, req'[w].rid = req[w].rid,
         req'[w].tid = req[w].tid, req'[w].tpk = req[w].tpk
  PROVE  CoherentAt(w)'
  BY DEF ContextCoherent, CoherentAt

\* Every step preserves the coherence of contexts with requests.
LEMMA CoherentStep == TypeOK /\ WellFormed /\ ContextCoherent /\ [Next]_vars => ContextCoherent'
<1> SUFFICES ASSUME TypeOK, WellFormed, ContextCoherent, [Next]_vars PROVE ContextCoherent'
  OBVIOUS
<1> USE DEF Goto
<1>1. ASSUME NEW w \in Workers, Receive(w) PROVE ContextCoherent'
  <2>1. w \in Threads
    BY DEF Threads
  <2>2. PICK view \in Views \ {"service"}, r \in ReqIds :
          /\ req' = [req EXCEPT ![w] = [NoRequest EXCEPT !.view = view, !.rid = r]]
          /\ ctx' = [ctx EXCEPT ![w].rid = r]
    BY <1>1 DEF Receive
  <2>3. req'[w].rid = r /\ req'[w].tid = None
    BY <2>1, <2>2 DEF TypeOK, NoRequest
  <2>4. ctx'[w].rid = r
    BY <2>1, <2>2 DEF TypeOK, Contexts
  <2>5. CoherentAt(w)'
    BY <2>3, <2>4 DEF CoherentAt
  <2> QED
    BY <1>1, <2>1, <2>5, OthersCoherent
<1>2. ASSUME NEW j \in Jobs, CallService(j) PROVE ContextCoherent'
  <2>1. j \in Threads
    BY DEF Threads
  <2>2. PICK s \in Slugs :
          /\ req' = [req EXCEPT ![j] = [NoRequest EXCEPT !.view = "service", !.tid = s, !.saved = ctx[j].tid]]
          /\ ctx' = [ctx EXCEPT ![j].tid = s]
    BY <1>2 DEF CallService
  <2>3. req'[j].view = "service" /\ req'[j].tid = s
    BY <2>1, <2>2 DEF TypeOK, NoRequest
  <2>4. ctx'[j].tid = s
    BY <2>1, <2>2 DEF TypeOK, Contexts
  <2>5. CoherentAt(j)'
    BY <2>3, <2>4 DEF CoherentAt
  <2> QED
    BY <1>2, <2>1, <2>5, OthersCoherent
<1>3. ASSUME NEW w \in Threads, Restart(w) \/ Respond(w) PROVE ContextCoherent'
  <2>1. req'[w] = NoRequest /\ pc'[w] = "idle"
    BY <1>3 DEF TypeOK, Restart, Respond
  <2>2. CoherentAt(w)'
    BY <2>1 DEF CoherentAt, NoRequest
  <2> QED
    BY <1>3, <2>2, OthersCoherent DEF Step
<1>4. ASSUME NEW w \in Threads, SkipTenantValidation(w) PROVE ContextCoherent'
  <2>1. /\ req'[w] = [req[w] EXCEPT !.tid = Public]
        /\ ctx'[w] = [rid |-> ctx[w].rid, tid |-> Public, tpk |-> None]
        /\ pc[w] = "tenant"
    BY <1>4 DEF TypeOK, SkipTenantValidation, PublicContext
  <2>2. req'[w].rid = req[w].rid /\ req'[w].view = req[w].view /\ req'[w].tpk = req[w].tpk /\ req'[w].tid = Public
    BY <2>1 DEF TypeOK, Requests
  <2>3. CoherentAt(w)'
    BY <2>1, <2>2 DEF ContextCoherent, CoherentAt, WellFormed, WellFormedAt
  <2> QED
    BY <1>4, <2>3, OthersCoherent DEF Step
<1>5. ASSUME NEW w \in Threads, AcceptTenant(w) PROVE ContextCoherent'
  <2>1. PICK s \in Slugs, t \in Tenants :
          /\ req' = [req EXCEPT ![w] = [req[w] EXCEPT !.tid = s, !.tpk = t]]
          /\ ctx' = [ctx EXCEPT ![w] = [rid |-> ctx[w].rid, tid |-> s, tpk |-> t]]
    BY <1>5 DEF AcceptTenant, ActiveNamed, TenantContext
  <2>2. ctx'[w] = [rid |-> ctx[w].rid, tid |-> s, tpk |-> t] /\ pc[w] = "tenant"
    BY <1>5, <2>1 DEF TypeOK, AcceptTenant
  <2>3. req'[w].rid = req[w].rid /\ req'[w].view = req[w].view /\ req'[w].tpk = t /\ req'[w].tid = s
    <3>1. req'[w] = [req[w] EXCEPT !.tid = s, !.tpk = t] /\ req[w] \in Requests
      BY <2>1 DEF TypeOK
    <3> QED
      BY <3>1 DEF Requests
  <2>4. CoherentAt(w)'
    BY <2>2, <2>3 DEF ContextCoherent, CoherentAt
  <2> QED
    BY <1>5, <2>4, OthersCoherent DEF Step
<1>6. ASSUME NEW w \in Threads, Dispatch(w) \/ PickTenant(w) \/ CleanItem(w) \/ GetItem(w) \/ AdminClean(w)
      PROVE  ContextCoherent'
  <2>1. UNCHANGED ctx /\ pc[w] # "idle"
    BY <1>6, ZenonT(40) DEF Dispatch, PickTenant, CleanItem, GetItem, AdminClean
  <2>2. CASE \E status \in {200, 400, 401, 403, 404, 429, 500, 503} : Answer(w, status)
    BY <1>6, <2>1, <2>2, AnswerCoherent, OthersCoherent DEF Step
  <2>3. CASE UNCHANGED req
    BY <1>6, <2>1, <2>3, SameCoherent, OthersCoherent DEF Step
  <2>4. ASSUME NEW t, NEW i, \/ req' = [req EXCEPT ![w] = [req[w] EXCEPT !.use = t, !.item = i]]
                             \/ req' = [req EXCEPT ![w] = [req[w] EXCEPT !.item = i, !.status = 200]]
                             \/ req' = [req EXCEPT ![w] = [req[w] EXCEPT !.edit = i]]
        PROVE  CoherentAt(w)'
    <3>1. /\ req[w] \in Requests
          /\ \/ req'[w] = [req[w] EXCEPT !.use = t, !.item = i]
             \/ req'[w] = [req[w] EXCEPT !.item = i, !.status = 200]
             \/ req'[w] = [req[w] EXCEPT !.edit = i]
      BY <2>4 DEF TypeOK
    <3>2. /\ req'[w].view = req[w].view /\ req'[w].rid = req[w].rid
          /\ req'[w].tid = req[w].tid /\ req'[w].tpk = req[w].tpk
      BY <3>1, ZenonT(40) DEF Requests
    <3> QED
      BY <2>1, <3>2, SameCoherent
  <2>5. CASE Dispatch(w)
    BY <2>2, <2>3, <2>5, DispatchOutcome
  <2>6. CASE PickTenant(w)
    <3>1. \/ Answer(w, 500)
          \/ \E t, i : req' = [req EXCEPT ![w] = [req[w] EXCEPT !.use = t, !.item = i]]
      BY <2>6 DEF PickTenant
    <3>2. CASE Answer(w, 500)
      BY <2>2, <3>2
    <3>3. CASE ~Answer(w, 500)
      <4>1. CoherentAt(w)'
        BY <2>4, <3>1, <3>3
      <4> QED
        BY <1>6, <4>1, OthersCoherent DEF Step
    <3> QED
      BY <3>2, <3>3
  <2>7. CASE CleanItem(w)
    BY <2>2, <2>3, <2>7 DEF CleanItem
  <2>8. CASE GetItem(w)
    <3>1. \/ Answer(w, 404)
          \/ \E i : req' = [req EXCEPT ![w] = [req[w] EXCEPT !.item = i, !.status = 200]]
      BY <2>8 DEF GetItem
    <3>2. CASE Answer(w, 404)
      BY <2>2, <3>2
    <3>3. CASE ~Answer(w, 404)
      <4>1. CoherentAt(w)'
        BY <2>4, <3>1, <3>3
      <4> QED
        BY <1>6, <4>1, OthersCoherent DEF Step
    <3> QED
      BY <3>2, <3>3
  <2>9. CASE AdminClean(w)
    BY <1>6, <2>4, <2>9, OthersCoherent DEF AdminClean, Step
  <2> QED
    BY <1>6, <2>5, <2>6, <2>7, <2>8, <2>9
<1>7. ASSUME NEW w \in Threads,
              RejectTenant(w) \/ SaveItem(w) \/ AdminShows(w) \/ AdminSave(w) \/ DatabaseFails(w)
       PROVE  ContextCoherent'
  <2>1. UNCHANGED ctx /\ pc[w] # "idle" /\ \E status \in Statuses : Answer(w, status)
    BY <1>7 DEF RejectTenant, SaveItem, AdminShows, AdminSave, DatabaseFails, Statuses
  <2> QED
    BY <1>7, <2>1, AnswerCoherent, OthersCoherent DEF Step
<1>8. CASE UNCHANGED vars
  BY <1>8 DEF vars, ContextCoherent, CoherentAt
<1> QED
  BY <1>1, <1>2, <1>3, <1>4, <1>5, <1>6, <1>7, <1>8 DEF Next, Step

-----------------------------------------------------------------------------
(* The tables.                                                             *)

\* The steps that do not write to the database.
LEMMA Readers ==
  ASSUME [Next]_vars
  PROVE  \/ UNCHANGED db
         \/ \E w \in Threads : SaveItem(w) \/ AdminSave(w)
<1>1. ASSUME NEW w, Receive(w) \/ CallService(w) \/ Restart(w) \/ Respond(w) PROVE UNCHANGED db
  BY <1>1 DEF Receive, CallService, Restart, Respond
<1>2. ASSUME NEW w, SkipTenantValidation(w) \/ RejectTenant(w) \/ AcceptTenant(w) \/ Dispatch(w)
      PROVE  UNCHANGED db
  BY <1>2 DEF SkipTenantValidation, RejectTenant, AcceptTenant, Dispatch
<1>3. ASSUME NEW w, PickTenant(w) \/ CleanItem(w) \/ GetItem(w) PROVE UNCHANGED db
  BY <1>3 DEF PickTenant, CleanItem, GetItem
<1>4. ASSUME NEW w, AdminClean(w) \/ AdminShows(w) \/ DatabaseFails(w) PROVE UNCHANGED db
  BY <1>4 DEF AdminClean, AdminShows, DatabaseFails
<1>5. CASE UNCHANGED vars
  BY <1>5 DEF vars, db
<1> QED
  BY <1>1, <1>2, <1>3, <1>4, <1>5 DEF Next, Step

\* Every step preserves referential integrity and the uniqueness of slugs.
LEMMA TableStep ==
  ASSUME TypeOK, WellFormed, ReferentialIntegrity, SlugsUnique, [Next]_vars
  PROVE  ReferentialIntegrity' /\ SlugsUnique'
<1> USE DEF db, ReferentialIntegrity, SlugsUnique, Row
<1>1. CASE UNCHANGED db
  BY <1>1
<1>2. ASSUME NEW w \in Threads, SaveItem(w) PROVE ReferentialIntegrity' /\ SlugsUnique'
  <2>1. UNCHANGED <<slugOf, active>>
    BY <1>2 DEF SaveItem
  <2>2. \/ UNCHANGED owner
        \/ owner' = [owner EXCEPT ![req[w].item] = req[w].use] /\ slugOf[req[w].use] # None
    BY <1>2 DEF SaveItem, ForeignKeyHolds
  <2> QED
    BY <2>1, <2>2 DEF TypeOK
<1>3. ASSUME NEW w \in Threads, AdminSave(w) PROVE ReferentialIntegrity' /\ SlugsUnique'
  <2> DEFINE e == req[w].edit
  <2>1. e \in EditRecords
    BY DEF TypeOK, Requests
  <2>2. CASE UNCHANGED db
    BY <2>2
  <2>3. CASE e.kind = "save_tenant" /\ Admissible(e) /\ Apply(e)
    <3>1. e.tenant \in Tenants /\ e.slug \in Slugs /\ \A u \in Tenants \ {e.tenant} : slugOf[u] # e.slug
      BY <2>1, <2>3, EditShape DEF Admissible, SlugFree
    <3>2. /\ slugOf' = [slugOf EXCEPT ![e.tenant] = e.slug]
          /\ active' \subseteq active \cup {e.tenant}
          /\ UNCHANGED owner
      BY <2>3 DEF Apply
    <3> QED
      BY <3>1, <3>2 DEF TypeOK
  <2>4. CASE e.kind = "delete_tenant" /\ Admissible(e) /\ Apply(e)
    <3>1. e.tenant \in Tenants /\ \A i \in Items : owner[i] # e.tenant
      BY <2>1, <2>4, EditShape DEF Admissible, Deletable
    <3>2. /\ slugOf' = [slugOf EXCEPT ![e.tenant] = None]
          /\ active' = active \ {e.tenant}
          /\ UNCHANGED owner
      BY <2>4 DEF Apply
    <3> QED
      BY <3>1, <3>2 DEF TypeOK
  <2>5. CASE e.kind \in {"save_item", "delete_item"} /\ Admissible(e) /\ Apply(e)
    <3>1. e.tenant = None \/ slugOf[e.tenant] # None
      BY <2>1, <2>5, EditShape DEF Admissible, ForeignKeyHolds
    <3>2. owner' = [owner EXCEPT ![e.item] = e.tenant] /\ UNCHANGED <<slugOf, active>>
      BY <2>5 DEF Apply
    <3> QED
      BY <3>1, <3>2 DEF TypeOK
  <2> QED
    BY <1>3, <2>2, <2>3, <2>4, <2>5 DEF AdminSave, Admissible
<1> QED
  BY <1>1, <1>2, <1>3, Readers

\* A step after which its thread holds no item and no form, and which does not
\* write the item of another thread, keeps the items reserved.
LEMMA ReleaseReserved ==
  ASSUME TypeOK, ReservedItems, NEW w \in Threads,
         Step(w) \/ Restart(w) \/ Receive(w) \/ CallService(w),
         pc'[w] \notin {"clean", "save", "adminsave"},
         \A v \in Threads \ {w} : pc[v] \in {"clean", "save"} => owner'[req[v].item] = None
  PROVE  ReservedItems'
<1>1. \A v \in Threads \ {w} : req'[v] = req[v] /\ pc'[v] = pc[v]
  BY Frame
<1> QED
  BY <1>1 DEF ReservedItems, ReservedAt

\* Every step keeps the items about to be inserted new and unshared.
LEMMA ReservedStep ==
  TypeOK /\ WellFormed /\ ReservedItems /\ [Next]_vars => ReservedItems'
<1> SUFFICES ASSUME TypeOK, WellFormed, ReservedItems, [Next]_vars PROVE ReservedItems'
  OBVIOUS
<1> USE DEF Goto, db
<1>1. ASSUME NEW w \in Threads, pc'[w] \notin {"clean", "save", "adminsave"}, UNCHANGED db,
             Step(w) \/ Restart(w) \/ Receive(w) \/ CallService(w)
      PROVE  ReservedItems'
  BY <1>1, ReleaseReserved DEF ReservedItems, ReservedAt
<1>2. ASSUME NEW w \in Threads, Receive(w) \/ CallService(w) \/ Restart(w) \/ Respond(w) PROVE ReservedItems'
  <2>1. pc'[w] \in {"tenant", "pick", "idle"} /\ UNCHANGED db
    BY <1>2 DEF Receive, CallService, Restart, Respond, TypeOK
  <2> QED
    BY <1>1, <1>2, <2>1 DEF Step
<1>3. ASSUME NEW w \in Threads, SkipTenantValidation(w) \/ RejectTenant(w) \/ AcceptTenant(w)
      PROVE  ReservedItems'
  <2>1. pc'[w] \in {"adminclean", "dispatch", "respond"} /\ UNCHANGED db
    BY <1>3 DEF SkipTenantValidation, RejectTenant, AcceptTenant, Answer, TypeOK
  <2> QED
    BY <1>1, <1>3, <2>1 DEF Step
<1>4. ASSUME NEW w \in Threads, Dispatch(w) \/ GetItem(w) \/ AdminShows(w) \/ DatabaseFails(w)
      PROVE  ReservedItems'
  <2>1. pc'[w] \in {"pick", "get", "respond"} /\ UNCHANGED db
    <3>1. CASE \E status : Answer(w, status)
      BY <1>4, <3>1, AnswerFields DEF Dispatch, GetItem, AdminShows, DatabaseFails
    <3>2. CASE ~\E status : Answer(w, status)
      <4>1. UNCHANGED db
        BY <1>4 DEF Dispatch, GetItem, AdminShows, DatabaseFails
      <4>2. Dispatch(w) => \E place \in {"pick", "get"} : Goto(w, place)
        BY <3>2, DispatchOutcome
      <4>3. ~Dispatch(w) => Goto(w, "respond")
        BY <1>4, <3>2, ZenonT(40) DEF GetItem, AdminShows, DatabaseFails
      <4> QED
        BY <4>1, <4>2, <4>3 DEF TypeOK, Goto
    <3> QED
      BY <3>1, <3>2
  <2> QED
    BY <1>1, <1>4, <2>1 DEF Step
<1>5. ASSUME NEW w \in Threads, PickTenant(w) PROVE ReservedItems'
  <2>1. CASE Answer(w, 500)
    <3>1. pc'[w] = "respond" /\ UNCHANGED db
      BY <1>5, <2>1, ZenonT(40) DEF PickTenant, Answer, TypeOK
    <3> QED
      BY <1>1, <1>5, <3>1 DEF Step
  <2>2. CASE ~Answer(w, 500)
    <3>1. PICK t \in TenantsForCreate(w), i \in Items :
            FreshItem(i) /\ req' = [req EXCEPT ![w] = [req[w] EXCEPT !.use = t, !.item = i]]
      BY <1>5, <2>2 DEF PickTenant
    <3>2. req'[w].item = i /\ pc'[w] = "clean" /\ UNCHANGED db
      <4>1. req'[w] = [req[w] EXCEPT !.use = t, !.item = i] /\ req[w] \in Requests
        BY <3>1 DEF TypeOK
      <4>2. req'[w].item = i
        BY <4>1 DEF Requests
      <4> QED
        BY <1>5, <2>2, <4>2 DEF PickTenant, TypeOK
    <3>3. \A v \in Threads \ {w} : req'[v] = req[v] /\ pc'[v] = pc[v]
      BY <1>5, Frame DEF Step
    <3>4. owner[i] = None /\ \A v \in Threads : req[v].item # i /\ req[v].edit.item # i
      BY <3>1 DEF FreshItem
    <3> QED
      BY <3>2, <3>3, <3>4 DEF ReservedItems, ReservedAt
  <2> QED
    BY <2>1, <2>2
<1>6. ASSUME NEW w \in Threads, CleanItem(w) PROVE ReservedItems'
  <2>1. CASE Answer(w, 500)
    <3>1. pc'[w] = "respond" /\ UNCHANGED db
      BY <1>6, <2>1 DEF CleanItem, Answer, TypeOK
    <3> QED
      BY <1>1, <1>6, <3>1 DEF Step
  <2>2. CASE pc[w] = "clean" /\ Goto(w, "save") /\ UNCHANGED req
    <3>1. UNCHANGED db
      BY <1>6 DEF CleanItem
    <3> QED
      BY <2>2, <3>1 DEF ReservedItems, ReservedAt, TypeOK
  <2> QED
    BY <1>6, <2>1, <2>2 DEF CleanItem
<1>7. ASSUME NEW w \in Threads, SaveItem(w) PROVE ReservedItems'
  <2>1. /\ pc[w] = "save" /\ pc'[w] = "respond"
        /\ owner' = owner \/ owner' = [owner EXCEPT ![req[w].item] = req[w].use]
    BY <1>7 DEF SaveItem, Answer, TypeOK
  <2>2. \A v \in Threads \ {w} : pc[v] \in {"clean", "save"} => owner'[req[v].item] = None
    BY <2>1 DEF ReservedItems, ReservedAt, WellFormed, WellFormedAt, TypeOK
  <2> QED
    BY <1>7, <2>1, <2>2, ReleaseReserved DEF Step
<1>8. ASSUME NEW w \in Threads, AdminClean(w) PROVE ReservedItems'
  <2>1. PICK e \in Accepted : req' = [req EXCEPT ![w].edit = e]
    BY <1>8 DEF AdminClean
  <2>2. /\ req'[w].edit = e /\ pc[w] = "adminclean" /\ pc'[w] = "adminsave" /\ UNCHANGED db
        /\ \A v \in Threads \ {w} : req'[v] = req[v] /\ pc'[v] = pc[v]
    BY <1>8, <2>1 DEF AdminClean, TypeOK, Requests
  <2>3. e.item = None \/ owner[e.item] # None \/ FreshItem(e.item)
    BY DEF Accepted, SaveTenantForm, DeleteTenantForm, SaveItemForm, DeleteItemForm, EditForm
  <2>4. \A v \in Threads : pc[v] \in {"clean", "save"} => e.item # req[v].item
    BY <2>3 DEF FreshItem, ReservedItems, ReservedAt, WellFormed, WellFormedAt
  <2> QED
    BY <2>2, <2>4 DEF ReservedItems, ReservedAt
<1>9. ASSUME NEW w \in Threads, AdminSave(w) PROVE ReservedItems'
  <2>1. /\ pc[w] = "adminsave" /\ pc'[w] = "respond"
        /\ owner' = owner \/ owner' = [owner EXCEPT ![req[w].edit.item] = req[w].edit.tenant]
    BY <1>9 DEF AdminSave, Apply, Answer, TypeOK
  <2>2. \A v \in Threads \ {w} : pc[v] \in {"clean", "save"} => owner'[req[v].item] = None
    BY <2>1 DEF ReservedItems, ReservedAt, WellFormed, WellFormedAt, TypeOK
  <2> QED
    BY <1>9, <2>1, <2>2, ReleaseReserved DEF Step
<1>10. CASE UNCHANGED vars
  BY <1>10 DEF vars, ReservedItems, ReservedAt
<1> QED
  BY <1>2, <1>3, <1>4, <1>5, <1>6, <1>7, <1>8, <1>9, <1>10 DEF Next, Step, Threads

-----------------------------------------------------------------------------
(* The invariant, and what follows from it.                                *)

\* A record of a coherent thread that has its tenant carries the request's identifiers.
LEMMA RecordAttributed ==
  ASSUME NEW w \in Threads, CoherentAt(w), pc[w] # "idle", req[w].view # "service",
         NEW event, log' = Record(w, event, req[w])
  PROVE  LogsAttributed'
  BY DEF CoherentAt, Record, LogsAttributed

\* Every step emits an attributed record, or none.
LEMMA LogStep ==
  TypeOK /\ WellFormed /\ ContextCoherent /\ LogsAttributed /\ [Next]_vars => LogsAttributed'
<1> SUFFICES ASSUME TypeOK, WellFormed, ContextCoherent, LogsAttributed, [Next]_vars
             PROVE  LogsAttributed'
  OBVIOUS
<1>1. CASE log' = None
  BY <1>1 DEF LogsAttributed
<1>2. ASSUME NEW w \in Workers, Receive(w) PROVE LogsAttributed'
  <2>1. log' = None \/ \E r : log' = Record(w, "invalid_request_id_header", [rid |-> r, tid |-> None])
    BY <1>2 DEF Receive
  <2> QED
    BY <1>1, <2>1 DEF Record, LogsAttributed
<1>3. ASSUME NEW w \in Threads, RejectTenant(w) \/ SaveItem(w) \/ DatabaseFails(w) \/ Respond(w)
      PROVE  LogsAttributed'
  <2>1. \/ log' = None
        \/ /\ pc[w] # "idle" /\ req[w].view # "service"
           /\ \E event : log' = Record(w, event, req[w])
    BY <1>3, NoneAssumption DEF RejectTenant, SaveItem, DatabaseFails, Respond, WellFormed, WellFormedAt
  <2> QED
    BY <1>1, <2>1, RecordAttributed DEF ContextCoherent
<1>4. ASSUME NEW w, \/ CallService(w) \/ Restart(w) \/ SkipTenantValidation(w) \/ AcceptTenant(w)
                    \/ Dispatch(w) \/ PickTenant(w) \/ CleanItem(w) \/ GetItem(w)
                    \/ AdminClean(w) \/ AdminShows(w) \/ AdminSave(w)
      PROVE  log' = None
  BY <1>4 DEF CallService, Restart, SkipTenantValidation, AcceptTenant, Dispatch, PickTenant,
              CleanItem, GetItem, AdminClean, AdminShows, AdminSave
<1>5. CASE UNCHANGED vars
  BY <1>5 DEF vars, LogsAttributed
<1> QED
  BY <1>1, <1>2, <1>3, <1>4, <1>5 DEF Next, Step

\* The state the migrations leave satisfies the inductive invariant.
LEMMA InitInvariant == Init => InductiveInvariant
<1> SUFFICES ASSUME Init PROVE InductiveInvariant
  OBVIOUS
<1> USE DEF Init
<1>1. TypeOK
  BY NoRequestType, DefaultContextType DEF TypeOK, Places
<1>2. \A w \in Threads : pc[w] = "idle" /\ req[w].tid = None /\ req[w].view = None /\ req[w].tpk = None
  BY DEF NoRequest
<1>3. WellFormed /\ ContextCoherent /\ ReservedItems /\ LogsAttributed
  BY <1>2, NoneAssumption
     DEF WellFormed, WellFormedAt, ContextCoherent, CoherentAt, ReservedItems, ReservedAt, LogsAttributed, Views
<1>4. ReferentialIntegrity /\ SlugsUnique
  BY DEF ReferentialIntegrity, SlugsUnique, Row
<1> QED
  BY <1>1, <1>3, <1>4 DEF InductiveInvariant

\* The inductive invariant holds in every reachable state.
THEOREM Invariance == Spec => []InductiveInvariant
<1>1. InductiveInvariant /\ [Next]_vars => InductiveInvariant'
  BY TypeStep, WellFormedStep, CoherentStep, ReservedStep, TableStep, LogStep DEF InductiveInvariant
<1> QED
  BY InitInvariant, <1>1, PTL DEF Spec

\* Every reachable value of every variable has its kind.
THEOREM TypeCorrect == Spec => []TypeOK
<1>1. InductiveInvariant => TypeOK
  BY DEF InductiveInvariant
<1> QED
  BY Invariance, <1>1, PTL

\* A request never works with the context an earlier request of its thread left.
THEOREM ContextIsCoherent == Spec => []ContextCoherent
<1>1. InductiveInvariant => ContextCoherent
  BY DEF InductiveInvariant
<1> QED
  BY Invariance, <1>1, PTL

\* No interleaving of creations and admin edits leaves an item without its tenant,
\* or gives one slug to two tenants.
THEOREM TablesAreConsistent == Spec => [](ReferentialIntegrity /\ SlugsUnique)
<1>1. InductiveInvariant => ReferentialIntegrity /\ SlugsUnique
  BY DEF InductiveInvariant
<1> QED
  BY Invariance, <1>1, PTL

\* apps/tenants/models.py:16: whatever the admin does to slugs, one names one tenant at most.
THEOREM SlugsStayUnique == Spec => []SlugsUnique
<1>1. InductiveInvariant => SlugsUnique
  BY DEF InductiveInvariant
<1> QED
  BY Invariance, <1>1, PTL

\* Once a request has its tenant, its log records carry its own identifiers.
THEOREM LogsAreAttributed == Spec => []LogsAttributed
<1>1. InductiveInvariant => LogsAttributed
  BY DEF InductiveInvariant
<1> QED
  BY Invariance, <1>1, PTL

\* Only the statement a thread is at can take it to its answer.
LEMMA AnswersFrom ==
  ASSUME TypeOK, [Next]_vars, NEW w \in Threads, pc[w] \in {"save", "get"}, pc'[w] = "respond"
  PROVE  (pc[w] = "save" /\ SaveItem(w)) \/ (pc[w] = "get" /\ GetItem(w)) \/ DatabaseFails(w)
<1>1. PICK v \in Threads : Step(v) \/ Restart(v) \/ Receive(v) \/ CallService(v)
  BY DEF Next, vars, Threads
<1>2. v = w
  BY <1>1, Frame
<1>3. ~Receive(w) /\ ~CallService(w) /\ ~Restart(w) /\ ~Respond(w)
  BY DEF Receive, CallService, Restart, Respond, Goto, TypeOK
<1>4. /\ ~SkipTenantValidation(w) /\ ~RejectTenant(w) /\ ~AcceptTenant(w) /\ ~Dispatch(w)
      /\ ~PickTenant(w) /\ ~CleanItem(w) /\ ~AdminClean(w) /\ ~AdminShows(w) /\ ~AdminSave(w)
  BY DEF SkipTenantValidation, RejectTenant, AcceptTenant, Dispatch, PickTenant, CleanItem,
         AdminClean, AdminShows, AdminSave
<1>5. (SaveItem(w) => pc[w] = "save") /\ (GetItem(w) => pc[w] = "get")
  BY DEF SaveItem, GetItem
<1> QED
  BY <1>1, <1>2, <1>3, <1>4, <1>5 DEF Step

\* Items are created in the tenant the request resolved, whatever admin edits do
\* to the tenants and their slugs in between.
THEOREM WritesAreIsolated == Spec => WritesGoToResolvedTenant
<1>1. ASSUME InductiveInvariant, [Next]_vars, NEW w \in Workers, NEW i \in Items,
             req[w].view = "create", pc[w] = "save", pc'[w] = "respond", owner'[i] # owner[i]
      PROVE  owner'[i] = req[w].tpk
  <2>1. w \in Threads
    BY DEF Threads
  <2>2. SaveItem(w) \/ UNCHANGED owner
    BY <1>1, <2>1, AnswersFrom DEF InductiveInvariant, DatabaseFails, db
  <2>3. owner' = owner \/ owner' = [owner EXCEPT ![req[w].item] = req[w].use]
    BY <2>2 DEF SaveItem
  <2>4. req[w].use = req[w].tpk
    BY <1>1, <2>1 DEF InductiveInvariant, WellFormed, WellFormedAt
  <2> QED
    BY <1>1, <2>3, <2>4 DEF InductiveInvariant, TypeOK
<1>2. InductiveInvariant /\ [Next]_vars => [CreatesInResolvedTenant]_vars
  BY <1>1 DEF CreatesInResolvedTenant
<1> QED
  BY Invariance, <1>2, PTL DEF Spec, WritesGoToResolvedTenant

\* GET serves items of the request's own tenant while its slug still names it.
THEOREM ReadsAreIsolated == Spec => ReadIsolation
<1>1. ASSUME InductiveInvariant, [Next]_vars, NEW w \in Workers, ServesItem(w),
             slugOf[req[w].tpk] = req[w].tid
      PROVE  owner[req'[w].item] = req[w].tpk
  <2> USE DEF InductiveInvariant
  <2>1. /\ w \in Threads /\ pc[w] = "get" /\ pc'[w] = "respond" /\ req'[w].status = 200
        /\ req[w] \in Requests
    BY <1>1 DEF Threads, ServesItem, TypeOK
  <2>2. ASSUME NEW status, Answer(w, status) PROVE req'[w].status = status
    BY <1>1, <2>1, <2>2 DEF Answer, TypeOK, Requests
  <2>3. GetItem(w) /\ ~Answer(w, 404)
    <3>1. GetItem(w) \/ DatabaseFails(w)
      BY <1>1, <2>1, AnswersFrom
    <3> QED
      BY <2>1, <2>2, <3>1 DEF DatabaseFails
  <2>4. PICK i \in Scoped(w) : req' = [req EXCEPT ![w] = [req[w] EXCEPT !.item = i, !.status = 200]]
    BY <2>3 DEF GetItem
  <2>5. req'[w].item = i
    <3>1. req'[w] = [req[w] EXCEPT !.item = i, !.status = 200]
      BY <1>1, <2>1, <2>4 DEF TypeOK
    <3> QED
      BY <2>1, <3>1 DEF Requests
  <2>6. owner[i] \in Tenants /\ slugOf[owner[i]] = ctx[w].tid
    BY <2>4 DEF Scoped
  <2>7. req[w].tpk \in Tenants /\ req[w].tid # None /\ ctx[w].tid = req[w].tid
    BY <1>1, <2>1 DEF WellFormed, WellFormedAt, ContextCoherent, CoherentAt
  <2> QED
    BY <1>1, <2>5, <2>6, <2>7 DEF SlugsUnique, Row
<1>2. InductiveInvariant /\ [Next]_vars => [ServesWithinTenant]_vars
  BY <1>1 DEF ServesWithinTenant
<1> QED
  BY Invariance, <1>2, PTL DEF Spec, ReadIsolation

-----------------------------------------------------------------------------
(* The request path implements TenantCatalog when direct callers of the    *)
(* service run on threads of their own.                                    *)

\* The context of a thread that only calls the service never holds a primary key.
JobsHoldNoKey ==
  \A j \in Jobs : ctx[j].tpk = None /\ req[j].view \in {None, "service"}

\* A thread that only calls the service never has a resolved key in its context.
LEMMA JobsStep ==
  ASSUME Workers \cap Jobs = {}
  PROVE  TypeOK /\ WellFormed /\ JobsHoldNoKey /\ [Next]_vars => JobsHoldNoKey'
<1> SUFFICES ASSUME TypeOK, WellFormed, JobsHoldNoKey, [Next]_vars, NEW j \in Jobs
             PROVE  ctx'[j].tpk = None /\ req'[j].view \in {None, "service"}
  BY DEF JobsHoldNoKey
<1> USE DEF JobsHoldNoKey
<1>0. j \in Threads /\ j \notin Workers /\ req[j] \in Requests /\ ctx[j] \in Contexts
  BY DEF Threads, TypeOK
<1>1. ASSUME NEW w \in Workers, Receive(w) PROVE UNCHANGED <<ctx[j], req[j]>>
  BY <1>0, <1>1, Frame DEF Threads
<1>2. CASE UNCHANGED <<ctx[j], req[j]>>
  BY <1>2
<1>3. ASSUME NEW w \in Threads, w # j, Step(w) \/ Restart(w) \/ CallService(w)
      PROVE  UNCHANGED <<ctx[j], req[j]>>
  BY <1>0, <1>3, Frame
<1>4. CASE CallService(j)
  <2>1. PICK s \in Slugs :
          /\ req' = [req EXCEPT ![j] = [NoRequest EXCEPT !.view = "service", !.tid = s, !.saved = ctx[j].tid]]
          /\ ctx' = [ctx EXCEPT ![j].tid = s]
    BY <1>4 DEF CallService
  <2>2. ctx'[j].tpk = ctx[j].tpk
    BY <1>0, <2>1 DEF TypeOK, Contexts
  <2> QED
    BY <1>0, <2>1, <2>2 DEF TypeOK, NoRequest
<1>5. CASE Restart(j)
  BY <1>0, <1>5 DEF Restart, TypeOK, NoRequest, DefaultContext
<1>6. CASE Respond(j)
  <2>1. req'[j] = NoRequest
    BY <1>0, <1>6 DEF Respond, TypeOK
  <2>2. ctx'[j].tpk = ctx[j].tpk
    BY <1>0, <1>6 DEF Respond, TypeOK, Contexts
  <2> QED
    BY <2>1, <2>2 DEF NoRequest
<1>7. ~SkipTenantValidation(j) /\ ~AcceptTenant(j)
  BY <1>0, NoneAssumption DEF SkipTenantValidation, AcceptTenant, WellFormed, WellFormedAt, Views
<1>8. CASE \/ RejectTenant(j) \/ Dispatch(j) \/ PickTenant(j) \/ CleanItem(j) \/ SaveItem(j) \/ GetItem(j)
           \/ AdminClean(j) \/ AdminShows(j) \/ AdminSave(j) \/ DatabaseFails(j)
  <2>1. UNCHANGED ctx
    BY <1>8 DEF RejectTenant, Dispatch, PickTenant, CleanItem, SaveItem, GetItem, AdminClean,
                AdminShows, AdminSave, DatabaseFails
  <2>2. ASSUME NEW t, NEW i, \/ req' = [req EXCEPT ![j] = [req[j] EXCEPT !.use = t, !.item = i]]
                             \/ req' = [req EXCEPT ![j] = [req[j] EXCEPT !.item = i, !.status = 200]]
                             \/ req' = [req EXCEPT ![j] = [req[j] EXCEPT !.edit = i]]
        PROVE  req'[j].view = req[j].view
    <3>1. \/ req'[j] = [req[j] EXCEPT !.use = t, !.item = i]
          \/ req'[j] = [req[j] EXCEPT !.item = i, !.status = 200]
          \/ req'[j] = [req[j] EXCEPT !.edit = i]
      BY <1>0, <2>2 DEF TypeOK
    <3> QED
      BY <1>0, <3>1 DEF Requests
  <2>3. \/ \E status : Answer(j, status)
        \/ UNCHANGED req
        \/ \E t, i : \/ req' = [req EXCEPT ![j] = [req[j] EXCEPT !.use = t, !.item = i]]
                     \/ req' = [req EXCEPT ![j] = [req[j] EXCEPT !.item = i, !.status = 200]]
                     \/ req' = [req EXCEPT ![j] = [req[j] EXCEPT !.edit = i]]
    <3>1. CASE RejectTenant(j) \/ CleanItem(j) \/ SaveItem(j)
      BY <3>1, ZenonT(40) DEF RejectTenant, CleanItem, SaveItem
    <3>7. CASE Dispatch(j)
      BY <3>7, DispatchOutcome, ZenonT(40)
    <3>2. CASE AdminShows(j) \/ DatabaseFails(j) \/ AdminSave(j)
      <4>1. AdminShows(j) => \E status : Answer(j, status)
        BY DEF AdminShows
      <4>2. DatabaseFails(j) => \E status : Answer(j, status)
        BY DEF DatabaseFails
      <4>3. AdminSave(j) => \E status : Answer(j, status)
        BY DEF AdminSave
      <4> QED
        BY <3>2, <4>1, <4>2, <4>3
    <3>3. CASE PickTenant(j)
      BY <3>3, ZenonT(40) DEF PickTenant
    <3>4. CASE GetItem(j)
      BY <3>4, ZenonT(40) DEF GetItem
    <3>5. CASE AdminClean(j)
      BY <3>5 DEF AdminClean
    <3> QED
      BY <1>8, <3>1, <3>2, <3>3, <3>4, <3>5, <3>7
  <2>4. req'[j].view = req[j].view
    <3>1. CASE \E status : Answer(j, status)
      BY <1>0, <3>1, AnswerFields
    <3> QED
      BY <2>2, <2>3, <3>1, ZenonT(40)
  <2> QED
    BY <2>1, <2>4
<1>9. CASE UNCHANGED vars
  BY <1>9 DEF vars
<1>10. CASE Step(j) \/ Restart(j) \/ CallService(j)
  BY <1>4, <1>5, <1>6, <1>7, <1>8, <1>10 DEF Step
<1>11. CASE \E w \in Threads : w # j /\ (Step(w) \/ Restart(w) \/ CallService(w))
  BY <1>2, <1>3, <1>11
<1>12. CASE \E w \in Workers : Receive(w)
  BY <1>1, <1>2, <1>12
<1> QED
  BY <1>9, <1>10, <1>11, <1>12 DEF Next, Threads

\* Everything the refinement argument assumes of a state.
ServiceInvariant == InductiveInvariant /\ JobsHoldNoKey

\* What the refinement assumes of a state holds in every reachable state.
LEMMA ServiceInvariance ==
  ASSUME Workers \cap Jobs = {}
  PROVE  Spec => []ServiceInvariant
<1>1. Init => JobsHoldNoKey
  BY DEF Init, JobsHoldNoKey, Threads, DefaultContext, NoRequest
<1>2. InductiveInvariant /\ JobsHoldNoKey /\ [Next]_vars => JobsHoldNoKey'
  BY JobsStep DEF InductiveInvariant
<1>3. InductiveInvariant /\ JobsHoldNoKey <=> ServiceInvariant
  BY DEF ServiceInvariant
<1> QED
  BY Invariance, <1>1, <1>2, <1>3, PTL DEF Spec

\* The handle of a thread depends on its own request and place only.
LEMMA HandleFrame ==
  ASSUME TypeOK, NEW w \in Threads, Step(w) \/ Restart(w) \/ Receive(w) \/ CallService(w)
  PROVE  [v \in Threads |-> Handle(v)]' = [[v \in Threads |-> Handle(v)] EXCEPT ![w] = Handle(w)']
<1>1. \A v \in Threads \ {w} : Handle(v)' = Handle(v)
  BY Frame DEF Handle
<1> QED
  BY <1>1

\* A step that only gives the handle up, or keeps it, closes it or stutters.
LEMMA ClosesOrStutters ==
  ASSUME TypeOK, NEW w \in Threads, Step(w) \/ Restart(w) \/ Receive(w) \/ CallService(w),
         UNCHANGED db, Handle(w)' \in {None, Handle(w)}
  PROVE  [Catalog!Next]_(Catalog!vars)
<1>1. UNCHANGED <<{t \in Tenants : Row(t)}, active, owner>>
  BY DEF db, Row
<1>2. CASE Handle(w)' = Handle(w)
  <2>1. UNCHANGED [v \in Threads |-> Handle(v)]
    BY <1>2, HandleFrame
  <2> QED
    BY <1>1, <2>1 DEF Catalog!vars
<1>3. CASE Handle(w)' = None /\ Handle(w) # None
  <2>1. Catalog!Close(w)
    BY <1>1, <1>3, HandleFrame DEF Catalog!Close, Catalog!Spend
  <2> QED
    BY <2>1 DEF Catalog!Next
<1> QED
  BY <1>2, <1>3

\* A step that hands out an active tenant, or the admin site, opens it.
LEMMA Opens ==
  ASSUME TypeOK, NEW w \in Threads, Step(w),
         UNCHANGED db, Handle(w) = None, Handle(w)' \in active \cup {"operator"}
  PROVE  [Catalog!Next]_(Catalog!vars)
<1>1. UNCHANGED <<{t \in Tenants : Row(t)}, active, owner>>
  BY DEF db, Row
<1>2. Catalog!Open(w)
  BY <1>1, HandleFrame DEF Catalog!Open
<1> QED
  BY <1>2 DEF Catalog!Next

\* The initial states map to initial states of the abstract service.
LEMMA RefinesInit == Init => Catalog!Init
<1> SUFFICES ASSUME Init PROVE Catalog!Init
  OBVIOUS
<1>1. PICK t \in Tenants : slugOf = [u \in Tenants |-> IF u = t THEN Public ELSE None] /\ active = {t}
  BY DEF Init
<1>2. {u \in Tenants : Row(u)} = {t}
  BY <1>1 DEF Row
<1>3. \A w \in Threads : Handle(w) = None
  BY DEF Init, Handle
<1> QED
  BY <1>1, <1>2, <1>3 DEF Catalog!Init, Init

\* Every step maps to a step of the abstract service or to a stutter.
LEMMA RefinesStep ==
  ASSUME Workers \cap Jobs = {}
  PROVE  ServiceInvariant /\ [Next]_vars => [Catalog!Next]_(Catalog!vars)
<1> SUFFICES ASSUME ServiceInvariant, [Next]_vars PROVE [Catalog!Next]_(Catalog!vars)
  OBVIOUS
<1>0. TypeOK /\ WellFormed /\ ContextCoherent /\ ReservedItems /\ ReferentialIntegrity /\ SlugsUnique /\ JobsHoldNoKey
  BY DEF ServiceInvariant, InductiveInvariant
<1> HIDE DEF ServiceInvariant
<1> DEFINE Catalogued == [Catalog!Next]_(Catalog!vars)
<1>1. ASSUME NEW w \in Threads, UNCHANGED db, Step(w) \/ Restart(w) \/ Receive(w) \/ CallService(w),
             Handle(w)' \in {None, Handle(w)}
      PROVE  Catalogued
  BY <1>0, <1>1, ClosesOrStutters
<1>2. ASSUME NEW w \in Threads, UNCHANGED db, Step(w), NEW status, Answer(w, status) PROVE Catalogued
  <2>1. Handle(w)' = None
    BY <1>0, <1>2, AnswerFields DEF Handle
  <2> QED
    BY <1>1, <1>2, <2>1
<1> HIDE DEF Catalogued
<1>3. ASSUME NEW w \in Threads, Receive(w) \/ Restart(w) \/ Respond(w) PROVE Catalogued
  <2>1. pc'[w] \in {"tenant", "idle"} /\ UNCHANGED db
    BY <1>0, <1>3 DEF Receive, Restart, Respond, Goto, TypeOK
  <2>2. Handle(w)' = None
    BY <2>1 DEF Handle
  <2> QED
    BY <1>1, <1>3, <2>1, <2>2 DEF Step
<1>4. ASSUME NEW j \in Jobs, CallService(j) PROVE Catalogued
  <2>1. j \in Threads
    BY DEF Threads
  <2>2. pc'[j] = "pick" /\ req'[j].tpk = None /\ UNCHANGED db
    BY <1>0, <1>4, <2>1 DEF CallService, Goto, TypeOK, NoRequest
  <2>3. Handle(j)' = None
    BY <2>2 DEF Handle
  <2> QED
    BY <1>1, <1>4, <2>1, <2>2, <2>3
<1>5. ASSUME NEW w \in Threads, SkipTenantValidation(w) PROVE Catalogued
  <2>1. /\ pc[w] = "tenant" /\ UNCHANGED db /\ req' = [req EXCEPT ![w].tid = Public]
        /\ pc'[w] \in {"adminclean", "dispatch"}
    BY <1>0, <1>5 DEF SkipTenantValidation, Goto, TypeOK
  <2>2. req'[w].tpk = None
    BY <1>0, <2>1 DEF TypeOK, Requests, WellFormed, WellFormedAt
  <2>3. Handle(w) = None /\ Handle(w)' \in {None, "operator"}
    BY <2>1, <2>2 DEF Handle
  <2> QED
    BY <1>0, <1>1, <1>5, <2>1, <2>3, Opens DEF Step, Catalogued
<1>6. ASSUME NEW w \in Threads, AcceptTenant(w) PROVE Catalogued
  <2>1. PICK s \in Slugs, t \in active : req' = [req EXCEPT ![w] = [req[w] EXCEPT !.tid = s, !.tpk = t]]
    BY <1>6 DEF AcceptTenant, ActiveNamed
  <2>2. req'[w].tpk = t
    <3>1. req'[w] = [req[w] EXCEPT !.tid = s, !.tpk = t] /\ req[w] \in Requests
      BY <1>0, <2>1 DEF TypeOK
    <3> QED
      BY <3>1 DEF Requests
  <2>3. pc[w] = "tenant" /\ pc'[w] = "dispatch" /\ UNCHANGED db
    BY <1>0, <1>6 DEF AcceptTenant, Goto, TypeOK
  <2>4. Handle(w) = None /\ Handle(w)' = t
    BY <2>2, <2>3 DEF Handle
  <2> QED
    BY <1>0, <1>6, <2>1, <2>3, <2>4, Opens DEF Step, Catalogued
<1>7. ASSUME NEW w \in Threads, Dispatch(w) PROVE Catalogued
  <2>1. UNCHANGED db
    BY <1>7 DEF Dispatch
  <2>2. CASE \E status : Answer(w, status)
    BY <1>2, <1>7, <2>1, <2>2 DEF Step
  <2>3. CASE ~\E status : Answer(w, status)
    <3>1. UNCHANGED req /\ pc[w] = "dispatch" /\ pc'[w] \in {"pick", "get"}
      BY <1>0, <1>7, <2>3 DEF Dispatch, Goto, TypeOK
    <3>2. Handle(w)' = Handle(w)
      BY <3>1 DEF Handle
    <3> QED
      BY <1>1, <1>7, <2>1, <3>2 DEF Step
  <2> QED
    BY <2>2, <2>3
<1>8. ASSUME NEW w \in Threads, PickTenant(w) PROVE Catalogued
  <2>1. UNCHANGED db
    BY <1>8 DEF PickTenant
  <2>2. CASE Answer(w, 500)
    BY <1>2, <1>8, <2>1, <2>2 DEF Step
  <2>3. CASE ~Answer(w, 500)
    <3>1. PICK t \in TenantsForCreate(w), i \in Items :
            req' = [req EXCEPT ![w] = [req[w] EXCEPT !.use = t, !.item = i]]
      BY <1>8, <2>3 DEF PickTenant
    <3>2. req'[w].use = t
      <4>1. req'[w] = [req[w] EXCEPT !.use = t, !.item = i] /\ req[w] \in Requests
        BY <1>0, <3>1 DEF TypeOK
      <4> QED
        BY <4>1 DEF Requests
    <3>3. pc[w] = "pick" /\ pc'[w] = "clean"
      BY <1>0, <1>8, <2>3 DEF PickTenant, Goto, TypeOK
    <3>4. Handle(w) = req[w].tpk /\ Handle(w)' = t
      BY <3>2, <3>3 DEF Handle
    <3>5. CASE req[w].view = "create"
      <4>1. t = req[w].tpk
        BY <1>0, <3>1, <3>3, <3>5
           DEF TenantsForCreate, UsesContextKey, ContextCoherent, CoherentAt, WellFormed, WellFormedAt
      <4> QED
        BY <1>1, <1>8, <2>1, <3>4, <4>1 DEF Step
    <3>6. CASE req[w].view = "service"
      <4>1. req[w].tpk = None
        BY <1>0, <3>6 DEF WellFormed, WellFormedAt
      <4>2. ctx[w].tpk = None
        BY <1>0, <3>6 DEF WellFormed, WellFormedAt, JobsHoldNoKey
      <4>3. t \in active
        BY <3>1, <4>2 DEF TenantsForCreate, UsesContextKey, ActiveNamed
      <4> QED
        BY <1>0, <1>8, <2>1, <3>4, <4>1, <4>3, Opens DEF Step, Catalogued
    <3> QED
      BY <1>0, <3>3, <3>5, <3>6 DEF WellFormed, WellFormedAt
  <2> QED
    BY <2>2, <2>3
<1>9. ASSUME NEW w \in Threads, CleanItem(w) PROVE Catalogued
  <2>1. UNCHANGED db
    BY <1>9 DEF CleanItem
  <2>2. CASE Answer(w, 500)
    BY <1>2, <1>9, <2>1, <2>2 DEF Step
  <2>3. CASE ~Answer(w, 500)
    <3>1. UNCHANGED req /\ pc[w] = "clean" /\ pc'[w] = "save"
      BY <1>0, <1>9, <2>3 DEF CleanItem, Goto, TypeOK
    <3>2. Handle(w)' = Handle(w)
      BY <3>1 DEF Handle
    <3> QED
      BY <1>1, <1>9, <2>1, <3>2 DEF Step
  <2> QED
    BY <2>2, <2>3
<1>10. ASSUME NEW w \in Threads, SaveItem(w) PROVE Catalogued
  <2>1. CASE UNCHANGED db
    BY <1>2, <1>10, <2>1 DEF Step, SaveItem
  <2>2. CASE ~UNCHANGED db
    <3>1. /\ pc[w] = "save" /\ UNCHANGED <<slugOf, active>>
          /\ owner' = [owner EXCEPT ![req[w].item] = req[w].use]
          /\ ForeignKeyHolds(req[w].use)
          /\ \E status : Answer(w, status)
      BY <1>10, <2>2 DEF SaveItem, db
    <3>2. Handle(w) = req[w].use /\ Handle(w)' = None
      BY <1>0, <3>1, AnswerFields DEF Handle
    <3>3. req[w].item \in Items /\ owner[req[w].item] = None
      BY <1>0, <3>1 DEF WellFormed, WellFormedAt, ReservedItems, ReservedAt
    <3>4. Catalog!Write(w)
      BY <1>0, <1>10, <3>1, <3>2, <3>3, HandleFrame DEF Catalog!Write, Catalog!Spend, ForeignKeyHolds, Row, Step
    <3> QED
      BY <3>4 DEF Catalog!Next, Catalogued
  <2> QED
    BY <2>1, <2>2
<1>11. ASSUME NEW w \in Threads, GetItem(w) PROVE Catalogued
  <2>1. pc'[w] = "respond" /\ UNCHANGED db
    BY <1>0, <1>11, AnswerFields DEF GetItem, Goto, TypeOK
  <2>2. Handle(w)' = None
    BY <2>1 DEF Handle
  <2> QED
    BY <1>1, <1>11, <2>1, <2>2 DEF Step
<1>12. ASSUME NEW w \in Threads, AdminClean(w) PROVE Catalogued
  <2>1. pc[w] = "adminclean" /\ pc'[w] = "adminsave" /\ UNCHANGED db
    BY <1>0, <1>12 DEF AdminClean, Goto, TypeOK
  <2>2. Handle(w)' = Handle(w)
    BY <2>1 DEF Handle
  <2> QED
    BY <1>1, <1>12, <2>1, <2>2 DEF Step
<1>13. ASSUME NEW w \in Threads, RejectTenant(w) \/ AdminShows(w) \/ DatabaseFails(w) PROVE Catalogued
  <2>1. UNCHANGED db /\ \E status : Answer(w, status)
    BY <1>13 DEF RejectTenant, AdminShows, DatabaseFails
  <2> QED
    BY <1>2, <1>13, <2>1 DEF Step
<1>14. ASSUME NEW w \in Threads, AdminSave(w) PROVE Catalogued
  <2> DEFINE e == req[w].edit
             rows == {t \in Tenants : Row(t)}
  <2>1. /\ e \in EditRecords /\ pc[w] = "adminsave" /\ \E status : Answer(w, status)
        /\ UNCHANGED db \/ (Admissible(e) /\ Apply(e))
    BY <1>0, <1>14 DEF AdminSave, TypeOK, Requests
  <2>2. Handle(w) = "operator" /\ Handle(w)' = None
    BY <1>0, <2>1, AnswerFields DEF Handle
  <2>3. Catalog!Spend(w)
    BY <1>0, <1>14, <2>2, HandleFrame, NoneAssumption DEF Catalog!Spend, Step
  <2>4. CASE UNCHANGED db
    BY <1>2, <1>14, <2>1, <2>4 DEF Step
  <2>5. CASE e.kind = "save_tenant" /\ Apply(e)
    <3>1. e.tenant \in Tenants /\ e.slug \in Slugs
      BY <2>1, <2>5, EditShape
    <3>2. /\ slugOf' = [slugOf EXCEPT ![e.tenant] = e.slug] /\ UNCHANGED owner
          /\ active' \in {active \cup {e.tenant}, active \ {e.tenant}}
      BY <2>5 DEF Apply
    <3>3. rows' = rows \cup {e.tenant}
      BY <1>0, <3>1, <3>2 DEF TypeOK, Row
    <3>4. Catalog!SaveTenant(w)
      BY <2>2, <2>3, <3>1, <3>2, <3>3 DEF Catalog!SaveTenant
    <3> QED
      BY <3>4 DEF Catalog!Next, Catalogued
  <2>6. CASE e.kind = "delete_tenant" /\ Admissible(e) /\ Apply(e)
    <3>1. e.tenant \in Tenants /\ \A i \in Items : owner[i] # e.tenant
      BY <2>1, <2>6, EditShape DEF Admissible, Deletable
    <3>2. /\ slugOf' = [slugOf EXCEPT ![e.tenant] = None] /\ UNCHANGED owner
          /\ active' = active \ {e.tenant}
      BY <2>6 DEF Apply
    <3>3. rows' = rows \ {e.tenant}
      BY <1>0, <3>1, <3>2 DEF TypeOK, Row
    <3>4. CASE Row(e.tenant)
      <4>1. Catalog!DropTenant(w)
        BY <2>2, <2>3, <3>1, <3>2, <3>3, <3>4 DEF Catalog!DropTenant
      <4> QED
        BY <4>1 DEF Catalog!Next, Catalogued
    <3>5. CASE ~Row(e.tenant)
      <4>1. UNCHANGED <<rows, active, owner>>
        BY <1>0, <3>2, <3>3, <3>5 DEF ReferentialIntegrity
      <4>2. Catalog!Close(w)
        BY <2>3, <4>1 DEF Catalog!Close
      <4> QED
        BY <4>2 DEF Catalog!Next, Catalogued
    <3> QED
      BY <3>4, <3>5
  <2>7. CASE e.kind \in {"save_item", "delete_item"} /\ Admissible(e) /\ Apply(e)
    <3>1. e.item \in Items /\ e.tenant \in rows \cup {None}
      BY <2>1, <2>7, EditShape DEF Admissible, ForeignKeyHolds
    <3>2. owner' = [owner EXCEPT ![e.item] = e.tenant] /\ UNCHANGED <<slugOf, active>>
      BY <2>7 DEF Apply
    <3>3. UNCHANGED rows
      BY <3>2 DEF Row
    <3>4. Catalog!PutItem(w)
      BY <2>2, <2>3, <3>1, <3>2, <3>3 DEF Catalog!PutItem
    <3> QED
      BY <3>4 DEF Catalog!Next, Catalogued
  <2> QED
    BY <2>1, <2>4, <2>5, <2>6, <2>7 DEF Admissible
<1>15. CASE UNCHANGED vars
  <2>1. UNCHANGED <<{t \in Tenants : Row(t)}, active, owner, [w \in Threads |-> Handle(w)]>>
    BY <1>15 DEF vars, Row, Handle
  <2> QED
    BY <2>1 DEF Catalogued, Catalog!vars
<1>16. ASSUME NEW w \in Threads, Step(w) PROVE Catalogued
  BY <1>3, <1>5, <1>6, <1>7, <1>8, <1>9, <1>10, <1>11, <1>12, <1>13, <1>14, <1>16 DEF Step
<1>17. CASE \E w \in Workers : Receive(w)
  BY <1>3, <1>17 DEF Threads, Catalogued
<1>18. CASE \E j \in Jobs : CallService(j)
  BY <1>4, <1>18 DEF Catalogued
<1>19. CASE \E w \in Threads : Step(w) \/ Restart(w)
  BY <1>3, <1>16, <1>19 DEF Catalogued
<1> QED
  BY <1>15, <1>17, <1>18, <1>19 DEF Next, Catalogued

\* With direct callers of the service on threads of their own, the request path
\* implements the abstract service: one capability per request, one write each.
THEOREM RequestsImplementCatalog ==
  ASSUME Workers \cap Jobs = {}
  PROVE  Spec => ImplementsCatalog
<1>1. ServiceInvariant /\ [Next]_vars => [Catalog!Next]_(Catalog!vars)
  BY RefinesStep
<1> QED
  BY ServiceInvariance, RefinesInit, <1>1, PTL DEF Spec, ImplementsCatalog, Catalog!Spec
=============================================================================
