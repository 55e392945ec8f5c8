------------------------------ MODULE Schema --------------------------------
(***************************************************************************)
(* The database schema of the service over its life: `manage.py migrate`   *)
(* and `manage.py bootstrap_roles`, each of which may be killed at any     *)
(* point and repeated, beside operators who edit tenants and beside an old *)
(* and a new release that insert items. The old release is the one before  *)
(* example.0002: its items have no tenant.                                 *)
(*                                                                         *)
(* PostgreSQL runs a migration in one transaction and locks the tables it  *)
(* alters, also those its foreign keys refer to, so a migration is one     *)
(* step. Django records a migration in that transaction unless the schema  *)
(* editor deferred statements to its end; then the record comes after it.  *)
(***************************************************************************)
EXTENDS Naturals, FiniteSets, Sequences

CONSTANTS Tenants,   \* primary keys of tenants
          Items,     \* primary keys of items
          MaxKills,  \* bound: how often a command is killed
          Absent,    \* no such row
          Null,      \* an item without a tenant
          None

ASSUME ConstantsAssumption == {Absent, Null, None} \cap (Tenants \cup Items) = {} /\ MaxKills \in Nat

VARIABLES done,         \* migrations whose transaction has committed
          recorded,     \* rows of django_migrations
          rows,         \* rows of tenants_tenant
          public,       \* the one with the slug "public", None if there is none
          owner,        \* example_item: the tenant of each item
          migrate,      \* what the migrate command is doing
          permissions,  \* the permissions of Item exist
          roles,        \* auth_group: role name -> whether it was granted its permissions
          bootstrap,    \* what the bootstrap_roles command is doing
          completed,    \* history: bootstrap_roles has run to its end with permissions to grant
          rolledBack,   \* the schema rollback has been used
          kills         \* commands killed so far

vars == <<done, recorded, rows, public, owner, migrate, permissions, roles, bootstrap, completed, rolledBack, kills>>
schema == <<done, recorded, migrate, permissions, rolledBack>>
catalog == <<rows, public, owner>>
access == <<roles, bootstrap, completed>>

Migrations == {"auth.0012", "accounts.0001", "tenants.0001", "tenants.0002", "example.0001", "example.0002"}
Requires == [m \in Migrations |->
  CASE m = "accounts.0001" -> {"auth.0012"}
    [] m = "tenants.0002" -> {"tenants.0001"}
    [] m = "example.0002" -> {"tenants.0002", "example.0001"}
    [] OTHER -> {}]

PlanWithoutAuth ==                                \* mutant: accounts.0001 does not depend on auth
  <<"accounts.0001", "auth.0012", "tenants.0001", "tenants.0002", "example.0001", "example.0002">>
\* The order the dependencies leave, the apps taken by name.
Plan == <<"auth.0012", "accounts.0001", "tenants.0001", "tenants.0002", "example.0001", "example.0002">>

\* Index statements that the schema editor runs when the transaction ends.
Deferring == {"auth.0012", "accounts.0001", "tenants.0001", "example.0002"}

Idle == [at |-> "idle", migration |-> None]
Step(place, m) == [at |-> place, migration |-> m]

-----------------------------------------------------------------------------
(* manage.py migrate.                                                      *)

StartMigrate ==
  /\ migrate = Idle
  /\ migrate' = Step("forward", None)
  /\ UNCHANGED <<done, recorded, permissions, rolledBack, catalog, access, kills>>

\* The next migration of the plan.
Due(m) ==
  /\ migrate.at = "forward"
  /\ \E n \in DOMAIN Plan : /\ Plan[n] = m /\ m \notin recorded
                           /\ \A k \in 1 .. n - 1 : Plan[k] \in recorded

Commit(m) ==
  /\ done' = done \cup {m}
  /\ IF m \in Deferring
     THEN migrate' = Step("record", m) /\ UNCHANGED recorded
     ELSE recorded' = recorded \cup {m} /\ UNCHANGED migrate
  /\ UNCHANGED <<permissions, rolledBack, access, kills>>

\* The command ends with an error and the transaction is rolled back.
Abort ==
  /\ migrate' = Idle
  /\ UNCHANGED <<done, recorded, permissions, rolledBack, catalog, access, kills>>

\* What it would create is already there: an earlier run died before it could record it.
AlreadyExists(m) == Due(m) /\ m \in done /\ Abort

CreateTable(m) == Due(m) /\ m \notin done /\ Commit(m) /\ UNCHANGED catalog
CreateAuth == CreateTable("auth.0012")
CreateUsers == CreateTable("accounts.0001")
CreateTenants == CreateTable("tenants.0001")
CreateItems == CreateTable("example.0001")

\* seed_public_tenant: get_or_create keeps a tenant that has the slug.
SeedPublicTenant ==
  /\ Due("tenants.0002")
  /\ Commit("tenants.0002")
  /\ IF public # None THEN UNCHANGED <<rows, public>>
     ELSE \E t \in Tenants \ rows : rows' = rows \cup {t} /\ public' = t
  /\ UNCHANGED owner

FillsNothing(t) == owner                                  \* mutant: assign_public_tenant is forgotten
AssignTo(t) == [i \in Items |-> IF owner[i] = Null THEN t ELSE owner[i]]

\* Add the column, give every item to the tenant called public, make it NOT NULL.
AddItemTenant ==
  /\ Due("example.0002") /\ "example.0002" \notin done
  /\ \/ /\ public # None
        /\ \A i \in Items : AssignTo(public)[i] # Null
        /\ owner' = AssignTo(public)
        /\ Commit("example.0002")
        /\ UNCHANGED <<rows, public>>
     \/ /\ public = None \/ \E i \in Items : AssignTo(public)[i] = Null
        /\ Abort

Record ==
  /\ migrate.at = "record"
  /\ recorded' = recorded \cup {migrate.migration}
  /\ migrate' = Step("forward", None)
  /\ UNCHANGED <<done, permissions, rolledBack, catalog, access, kills>>

\* post_migrate creates content types and permissions, at the end of a command only.
PostMigrate ==
  /\ migrate.at = "forward" /\ recorded = Migrations
  /\ permissions' = TRUE
  /\ migrate' = Idle
  /\ UNCHANGED <<done, recorded, rolledBack, catalog, access, kills>>

\* migrate example 0001: the data part does nothing, the column is dropped; the record goes last.
RollBack ==
  /\ migrate = Idle /\ ~rolledBack
  /\ "example.0002" \in recorded \cap done
  /\ done' = done \ {"example.0002"}
  /\ owner' = [i \in Items |-> IF owner[i] = Absent THEN Absent ELSE Null]
  /\ migrate' = Step("unrecord", "example.0002")
  /\ rolledBack' = TRUE
  /\ UNCHANGED <<recorded, rows, public, permissions, access, kills>>

Unrecord ==
  /\ migrate.at = "unrecord"
  /\ recorded' = recorded \ {migrate.migration}
  /\ permissions' = TRUE
  /\ migrate' = Idle
  /\ UNCHANGED <<done, rolledBack, catalog, access, kills>>

-----------------------------------------------------------------------------
(* manage.py bootstrap_roles.                                              *)

RoleOrder == <<"api_reader", "api_writer", "api_admin">>
RoleNames == {RoleOrder[i] : i \in DOMAIN RoleOrder}

NoBootstrap == [at |-> "idle", role |-> 1, created |-> FALSE, able |-> FALSE]

\* able remembers for the properties that there is something to grant.
StartBootstrap ==
  /\ bootstrap = NoBootstrap
  /\ "auth.0012" \in done
  /\ bootstrap' = [NoBootstrap EXCEPT !.at = "create", !.able = permissions]
  /\ UNCHANGED <<schema, catalog, roles, completed, kills>>

\* Group.objects.get_or_create: a new group has no permissions.
CreateRole ==
  /\ bootstrap.at = "create"
  /\ LET role == RoleOrder[bootstrap.role] IN
     /\ roles' = [roles EXCEPT ![role] = IF @ = "missing" THEN "empty" ELSE @]
     /\ bootstrap' = [bootstrap EXCEPT !.at = "grant", !.created = (roles[role] = "missing")]
  /\ UNCHANGED <<schema, catalog, completed, kills>>

\* group.permissions.set: those of the role's permissions that exist, and nothing else.
GrantedToNew(role) == IF permissions /\ bootstrap.created THEN "granted" ELSE roles[role] \* mutant: new groups only
Granted(role) == IF permissions THEN "granted" ELSE "empty"

GrantRole ==
  /\ bootstrap.at = "grant"
  /\ LET role == RoleOrder[bootstrap.role]
     IN roles' = [roles EXCEPT ![role] = Granted(role)]
  /\ IF bootstrap.role < Len(RoleOrder)
     THEN bootstrap' = [bootstrap EXCEPT !.at = "create", !.role = @ + 1] /\ UNCHANGED completed
     ELSE bootstrap' = NoBootstrap /\ completed' = (completed \/ bootstrap.able)
  /\ UNCHANGED <<schema, catalog, kills>>

-----------------------------------------------------------------------------
(* Operators and releases.                                                 *)

\* A command is interrupted; what it had not committed is rolled back.
Kill ==
  /\ kills < MaxKills /\ kills' = kills + 1
  /\ \/ migrate # Idle /\ migrate' = Idle /\ UNCHANGED access
     \/ bootstrap # NoBootstrap /\ bootstrap' = NoBootstrap /\ UNCHANGED <<migrate, roles, completed>>
  /\ UNCHANGED <<done, recorded, permissions, rolledBack, catalog>>

\* An operator creates a tenant, hands the slug "public" on, or deletes a tenant no item
\* refers to.
EditTenants ==
  /\ "tenants.0001" \in done
  /\ \E t \in Tenants :
       \/ t \notin rows /\ rows' = rows \cup {t} /\ public' \in {public, IF public = None THEN t ELSE public}
       \/ t \in rows /\ rows' = rows /\ public' \in {None, t} /\ public \in {None, t}
       \/ /\ t \in rows /\ \A i \in Items : owner[i] # t
          /\ rows' = rows \ {t} /\ public' = IF public = t THEN None ELSE public
  /\ UNCHANGED <<schema, owner, access, kills>>

NeverRequired == TRUE                                 \* mutant: the column stays nullable
MayLackTenant == "example.0002" \notin done

\* The old release names no tenant; the new one sets the column.
InsertItem(i) ==
  /\ owner[i] = Absent /\ "example.0001" \in done
  /\ \E t \in rows \cup {Null} :
       /\ t = Null => MayLackTenant
       /\ t # Null => "example.0002" \in done
       /\ owner' = [owner EXCEPT ![i] = t]
  /\ UNCHANGED <<schema, rows, public, access, kills>>

-----------------------------------------------------------------------------
OldRelease == {"auth.0012", "accounts.0001", "example.0001"}

\* A new database, or the one the old release has been running with.
Init ==
  /\ done \in {{}, OldRelease} /\ recorded = done
  /\ rows = {} /\ public = None
  /\ owner = [i \in Items |-> Absent]
  /\ migrate = Idle /\ bootstrap = NoBootstrap
  /\ permissions = (done = OldRelease)
  /\ roles = [r \in RoleNames |-> "missing"]
  /\ completed = FALSE /\ rolledBack = FALSE
  /\ kills = 0

MigrateStep ==
  \/ CreateAuth \/ CreateUsers \/ CreateTenants \/ CreateItems
  \/ SeedPublicTenant \/ AddItemTenant \/ Record \/ PostMigrate \/ Unrecord
  \/ \E m \in Migrations : AlreadyExists(m)
BootstrapStep == CreateRole \/ GrantRole

Next ==
  \/ StartMigrate \/ MigrateStep \/ RollBack
  \/ StartBootstrap \/ BootstrapStep
  \/ Kill \/ EditTenants \/ \E i \in Items : InsertItem(i)

Spec == Init /\ [][Next]_vars

\* Commands that run go on, and the operator runs both again and again.
FairSpec ==
  /\ Spec
  /\ WF_vars(StartMigrate) /\ WF_vars(MigrateStep)
  /\ WF_vars(StartBootstrap) /\ WF_vars(BootstrapStep)

-----------------------------------------------------------------------------
(* Properties.                                                             *)

\* Every variable holds a value of its kind; what is recorded was applied in order.
TypeOK ==
  /\ done \subseteq Migrations /\ recorded \subseteq Migrations
  /\ \A m \in recorded : Requires[m] \subseteq recorded
  /\ rows \subseteq Tenants /\ public \in rows \cup {None}
  /\ owner \in [Items -> Tenants \cup {Null, Absent}]
  /\ migrate.at \in {"idle", "forward", "record", "unrecord"}
  /\ roles \in [RoleNames -> {"missing", "empty", "granted"}]
  /\ bootstrap \in [at: {"idle", "create", "grant"}, role: DOMAIN RoleOrder, created: BOOLEAN, able: BOOLEAN]
  /\ permissions \in BOOLEAN /\ completed \in BOOLEAN /\ rolledBack \in BOOLEAN
  /\ kills \in 0 .. MaxKills

\* example/migrations/0002:32: once the tenant column is required every item has a tenant
\* that exists, whatever the releases inserted and operators edited before, between or
\* after the migrations, a rollback and a second migration included.
ItemsHaveTenants ==
  "example.0002" \in done => \A i \in Items : owner[i] # Absent => owner[i] \in rows

\* bootstrap_roles.py:35: once the command has completed after the permissions were there,
\* every role has its permissions for good, also while a later run is interrupted.
CompletedRolesAreGranted == completed => \A r \in RoleNames : roles[r] = "granted"

\* Repeating migrate gets everything applied and recorded, unless the slug "public" is
\* missing again and again or a run was killed between a migration and its record.
MigratedUnlessStuck ==
  []<>(public = None) \/ <>[](recorded = Migrations \/ done # recorded)

\* Repeating bootstrap_roles repairs a partial run and one that came before the permissions.
RolesInTheEnd == permissions ~> \A r \in RoleNames : roles[r] = "granted"
=============================================================================
