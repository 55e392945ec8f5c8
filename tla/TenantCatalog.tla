--------------------------- MODULE TenantCatalog ---------------------------
(***************************************************************************)
(* What the multitenant item service promises, without threads' context    *)
(* variables, program counters, HTTP statuses or logs: a caller is handed  *)
(* a capability for ONE live tenant, and may use it for at most one write, *)
(* which goes to that tenant; only an operator (the Django admin) moves    *)
(* items or edits tenants; an item always belongs to an existing tenant.   *)
(* TenantRequests is shown to implement this module.                       *)
(***************************************************************************)
CONSTANTS Threads,   \* the threads callers run on
          Tenants,   \* tenant primary keys
          Items,     \* item primary keys
          None,      \* "no value"
          Operator   \* the capability of the admin site

VARIABLES rows,      \* the tenants that exist
          live,      \* the existing tenants that are active
          owner,     \* owner[i]: the tenant of item i, None if there is no item i
          handle     \* handle[w]: the capability thread w holds, None if it holds none

vars == <<rows, live, owner, handle>>

Init ==
  /\ \E t \in Tenants : rows = {t} /\ live = {t}
  /\ owner = [i \in Items |-> None]
  /\ handle = [w \in Threads |-> None]

\* A thread that holds nothing obtains a live tenant, or the admin site.
Open(w) ==
  /\ handle[w] = None
  /\ \E h \in live \cup {Operator} : handle' = [handle EXCEPT ![w] = h]
  /\ UNCHANGED <<rows, live, owner>>

\* A thread spends or gives up its capability.
Spend(w) == handle[w] # None /\ handle' = [handle EXCEPT ![w] = None]

Close(w) == Spend(w) /\ UNCHANGED <<rows, live, owner>>

\* The one write a tenant capability allows: a new item of that tenant.
Write(w) ==
  /\ handle[w] \in rows
  /\ Spend(w)
  /\ \E i \in Items : owner[i] = None /\ owner' = [owner EXCEPT ![i] = handle[w]]
  /\ UNCHANGED <<rows, live>>

\* Operator edits. A tenant that owns items cannot be dropped.
SaveTenant(w) ==
  /\ handle[w] = Operator
  /\ Spend(w)
  /\ \E t \in Tenants : /\ rows' = rows \cup {t}
                        /\ live' \in {live \cup {t}, live \ {t}}
  /\ UNCHANGED owner

DropTenant(w) ==
  /\ handle[w] = Operator
  /\ Spend(w)
  /\ \E t \in rows : /\ \A i \in Items : owner[i] # t
                     /\ rows' = rows \ {t}
                     /\ live' = live \ {t}
  /\ UNCHANGED owner

PutItem(w) ==
  /\ handle[w] = Operator
  /\ Spend(w)
  /\ \E i \in Items, t \in rows \cup {None} : owner' = [owner EXCEPT ![i] = t]
  /\ UNCHANGED <<rows, live>>

Next == \E w \in Threads : \/ Open(w) \/ Close(w) \/ Write(w)
                           \/ SaveTenant(w) \/ DropTenant(w) \/ PutItem(w)

Spec == Init /\ [][Next]_vars
=============================================================================
