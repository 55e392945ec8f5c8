--------------------------- MODULE SchemaProofs -----------------------------
(***************************************************************************)
(* Theorems about Schema, for every number of tenants, items and kills.    *)
(***************************************************************************)
EXTENDS Schema, TLAPS

-----------------------------------------------------------------------------
(* The inductive invariant.                                                *)

\* What the migrate command holds between two of its steps: a migration that is about to
\* be recorded has its dependencies recorded, and only example.0002 is ever taken back.
MigrateCoherent ==
  /\ migrate \in [at: {"idle", "forward", "record", "unrecord"}, migration: Migrations \cup {None}]
  /\ migrate.at = "record" =>
       migrate.migration \in Migrations /\ Requires[migrate.migration] \subseteq recorded
  /\ migrate.at = "unrecord" => migrate.migration = "example.0002"

\* The foreign key of the item table, before and after the column is required.
ForeignKey ==
  \A i \in Items : /\ owner[i] \in rows \cup {Null, Absent}
                   /\ "example.0002" \in done => owner[i] \in rows \cup {Absent}

\* A run that started with permissions to grant has granted every role before its place.
RolesCoherent ==
  /\ bootstrap.able \/ completed => permissions
  /\ bootstrap.able => \A k \in 1 .. bootstrap.role - 1 : roles[RoleOrder[k]] = "granted"

IInv == TypeOK /\ MigrateCoherent /\ ForeignKey /\ RolesCoherent /\ CompletedRolesAreGranted

-----------------------------------------------------------------------------
(* Lemmas about the plan and the roles.                                    *)

\* The next migration of the plan has its dependencies recorded.
LEMMA DueIsReady ==
  ASSUME NEW m, Due(m)
  PROVE  m \in Migrations /\ Requires[m] \subseteq recorded
<1> PICK n \in 1 .. 6 : Plan[n] = m /\ \A k \in 1 .. n - 1 : Plan[k] \in recorded
  BY DEF Due, Plan
<1>1. n = 1 \/ n = 2 \/ n = 3 \/ n = 4 \/ n = 5 \/ n = 6
  OBVIOUS
<1>2. m \in Migrations
  BY <1>1 DEF Plan, Migrations
<1>3. Requires[m] \subseteq recorded
  BY <1>1, <1>2 DEF Plan, Migrations, Requires
<1> QED
  BY <1>2, <1>3

\* Nothing depends on example.0002.
LEMMA NothingRequiresTenantColumn == \A m \in Migrations : "example.0002" \notin Requires[m]
  BY DEF Migrations, Requires

\* The three roles have three names.
LEMMA RoleNamesAre ==
  /\ RoleNames = {"api_reader", "api_writer", "api_admin"}
  /\ DOMAIN RoleOrder = 1 .. 3 /\ Len(RoleOrder) = 3
  /\ \A k \in 1 .. 3 : RoleOrder[k] \in RoleNames
  /\ \A k, l \in 1 .. 3 : RoleOrder[k] = RoleOrder[l] => k = l
  /\ \A r \in RoleNames : \E k \in 1 .. 3 : r = RoleOrder[k]
<1>1. DOMAIN RoleOrder = 1 .. 3 /\ Len(RoleOrder) = 3
  BY DEF RoleOrder
<1>2. \A k \in 1 .. 3 : k = 1 \/ k = 2 \/ k = 3
  OBVIOUS
<1>3. RoleOrder[1] = "api_reader" /\ RoleOrder[2] = "api_writer" /\ RoleOrder[3] = "api_admin"
  BY DEF RoleOrder
<1>4. RoleNames = {RoleOrder[1], RoleOrder[2], RoleOrder[3]}
  BY <1>1, <1>2 DEF RoleNames
<1> QED
  BY <1>1, <1>2, <1>3, <1>4

\* The command's record after a role that is not the last.
LEMMA GrantAdvances ==
  ASSUME TypeOK, bootstrap.role < Len(RoleOrder),
         bootstrap' = [bootstrap EXCEPT !.at = "create", !.role = @ + 1]
  PROVE  /\ bootstrap'.able = bootstrap.able /\ bootstrap'.role = bootstrap.role + 1
         /\ bootstrap' \in [at: {"idle", "create", "grant"}, role: DOMAIN RoleOrder, created: BOOLEAN, able: BOOLEAN]
<1>1. bootstrap \in [at: {"idle", "create", "grant"}, role: 1 .. 3, created: BOOLEAN, able: BOOLEAN]
  BY RoleNamesAre DEF TypeOK
<1>2. bootstrap.role + 1 \in 1 .. 3
  BY <1>1, RoleNamesAre
<1>3. bootstrap' = [at |-> "create", role |-> bootstrap.role + 1, created |-> bootstrap.created, able |-> bootstrap.able]
  BY <1>1
<1> QED
  BY <1>1, <1>2, <1>3, RoleNamesAre

-----------------------------------------------------------------------------
(* The steps.                                                              *)

USE ConstantsAssumption

\* Both databases a deployment starts from satisfy the invariant.
LEMMA InitInvariant == Init => IInv
<1> SUFFICES ASSUME Init PROVE IInv
  OBVIOUS
<1>1. done \subseteq Migrations /\ recorded = done
  BY DEF Init, OldRelease, Migrations
<1>2. \A m \in recorded : Requires[m] \subseteq recorded
  BY DEF Init, OldRelease, Requires, Migrations
<1>3. bootstrap = NoBootstrap /\ NoBootstrap \in [at: {"idle", "create", "grant"}, role: DOMAIN RoleOrder, created: BOOLEAN, able: BOOLEAN]
  BY RoleNamesAre DEF Init, NoBootstrap
<1>4. roles \in [RoleNames -> {"missing", "empty", "granted"}] /\ owner \in [Items -> Tenants \cup {Null, Absent}]
  BY DEF Init
<1>9. permissions \in BOOLEAN
  BY Zenon DEF Init
<1>8. TypeOK
  <2>1. rows \subseteq Tenants /\ public \in rows \cup {None} /\ migrate.at = "idle"
    BY DEF Init, Idle
  <2>2. completed \in BOOLEAN /\ rolledBack \in BOOLEAN
    BY Zenon DEF Init
  <2>3. kills \in 0 .. MaxKills
    BY DEF Init
  <2> QED
    BY <1>1, <1>2, <1>3, <1>4, <1>9, <2>1, <2>2, <2>3 DEF Init, TypeOK
<1>5. MigrateCoherent
  BY DEF Init, MigrateCoherent, Idle
<1>6. ForeignKey
  BY DEF Init, ForeignKey, OldRelease
<1>7. RolesCoherent /\ CompletedRolesAreGranted
  BY DEF Init, RolesCoherent, CompletedRolesAreGranted, NoBootstrap
<1> QED
  BY <1>8, <1>5, <1>6, <1>7 DEF IInv

\* A migration that commits is one whose dependencies are recorded.
LEMMA CommitType ==
  ASSUME IInv, NEW m, Due(m), Commit(m)
  PROVE  /\ done' \subseteq Migrations /\ recorded' \subseteq Migrations
         /\ \A n \in recorded' : Requires[n] \subseteq recorded'
         /\ MigrateCoherent'
<1>1. m \in Migrations /\ Requires[m] \subseteq recorded
  BY DueIsReady
<1>2. CASE m \in Deferring
  BY <1>1, <1>2 DEF IInv, TypeOK, MigrateCoherent, Commit, Step
<1>3. CASE m \notin Deferring
  BY <1>1, <1>3 DEF IInv, TypeOK, MigrateCoherent, Commit, Due
<1> QED
  BY <1>2, <1>3

\* A migration that commits touches neither the permissions nor the roles.
LEMMA CommitParts ==
  ASSUME NEW m, Commit(m), IInv
  PROVE  /\ UNCHANGED <<permissions, rolledBack, roles, bootstrap, completed, kills>>
         /\ MigrateCoherent' => migrate'.at \in {"idle", "forward", "record", "unrecord"}
  BY DEF Commit, access, MigrateCoherent

\* assign_public_tenant leaves an item with a tenant, or absent.
LEMMA AssignToType ==
  ASSUME TypeOK, NEW t \in Tenants, NEW i \in Items
  PROVE  AssignTo(t) \in [Items -> Tenants \cup {Null, Absent}]
  BY DEF TypeOK, AssignTo

\* A step keeps types and the migrate command coherent.
LEMMA SchemaStep ==
  ASSUME IInv, [Next]_vars
  PROVE  MigrateCoherent' /\ TypeOK'
<1> USE DEF IInv
<1>1. CASE StartMigrate
  <2>1. MigrateCoherent'
    BY <1>1 DEF StartMigrate, MigrateCoherent, Step
  <2>2. migrate'.at = "forward"
    BY <1>1 DEF StartMigrate, Step
  <2> QED
    BY <1>1, <2>1, <2>2 DEF StartMigrate, TypeOK, catalog, access
<1>2. CASE CreateAuth \/ CreateUsers \/ CreateTenants \/ CreateItems
  <2>1. PICK m \in Migrations : CreateTable(m)
    BY <1>2 DEF CreateAuth, CreateUsers, CreateTenants, CreateItems, Migrations
  <2> QED
    BY <2>1, CommitParts, CommitType DEF CreateTable, TypeOK, catalog
<1>3. CASE SeedPublicTenant
  <2>1. rows' \subseteq Tenants /\ public' \in rows' \cup {None} /\ owner' = owner
    BY <1>3 DEF SeedPublicTenant, TypeOK
  <2> QED
    BY <1>3, <2>1, CommitParts, CommitType DEF SeedPublicTenant, TypeOK
<1>4. CASE AddItemTenant
  <2>1. CASE Abort
    BY <2>1 DEF Abort, Idle, TypeOK, MigrateCoherent, catalog, access
  <2>2. CASE /\ public # None /\ owner' = AssignTo(public) /\ Due("example.0002")
             /\ Commit("example.0002") /\ UNCHANGED <<rows, public>>
    <3>1. public \in Tenants
      BY <2>2 DEF TypeOK
    <3>2. owner' \in [Items -> Tenants \cup {Null, Absent}]
      BY <2>2, <3>1 DEF TypeOK, AssignTo
    <3> QED
      BY <2>2, <3>2, CommitParts, CommitType DEF TypeOK
  <2> QED
    BY <1>4, <2>1, <2>2 DEF AddItemTenant
<1>5. CASE Record
  BY <1>5 DEF Record, TypeOK, MigrateCoherent, Step, catalog, access
<1>6. CASE PostMigrate
  BY <1>6 DEF PostMigrate, TypeOK, MigrateCoherent, Idle, catalog, access
<1>7. CASE Unrecord
  BY <1>7, NothingRequiresTenantColumn DEF Unrecord, TypeOK, MigrateCoherent, Idle, catalog, access
<1>8. CASE \E m \in Migrations : AlreadyExists(m)
  BY <1>8 DEF AlreadyExists, Abort, TypeOK, MigrateCoherent, Idle, catalog, access
<1>9. CASE RollBack
  BY <1>9 DEF RollBack, TypeOK, MigrateCoherent, Step, access
<1>10. CASE StartBootstrap
  BY <1>10, RoleNamesAre DEF StartBootstrap, NoBootstrap, TypeOK, MigrateCoherent, schema, catalog
<1>11. CASE CreateRole
  BY <1>11, RoleNamesAre DEF CreateRole, TypeOK, MigrateCoherent, schema, catalog
<1>12. CASE GrantRole
  <2>1. bootstrap.role \in 1 .. 3 /\ RoleOrder[bootstrap.role] \in RoleNames
    BY <1>12, RoleNamesAre DEF GrantRole, TypeOK
  <2>2. roles' \in [RoleNames -> {"missing", "empty", "granted"}]
    BY <1>12, <2>1 DEF GrantRole, Granted, TypeOK
  <2>3. /\ bootstrap' \in [at: {"idle", "create", "grant"}, role: DOMAIN RoleOrder, created: BOOLEAN, able: BOOLEAN]
        /\ completed' \in BOOLEAN
    <3>1. CASE bootstrap.role < Len(RoleOrder)
      BY <1>12, <3>1, GrantAdvances DEF GrantRole, TypeOK
    <3>2. CASE ~(bootstrap.role < Len(RoleOrder))
      <4>1. bootstrap' = NoBootstrap /\ completed' = (completed \/ bootstrap.able)
        BY <1>12, <3>2 DEF GrantRole
      <4>2. completed' \in BOOLEAN
        BY <4>1, Zenon
      <4> QED
        BY <4>1, <4>2, RoleNamesAre DEF NoBootstrap
    <3> QED
      BY <3>1, <3>2
  <2> QED
    BY <1>12, <2>2, <2>3 DEF GrantRole, TypeOK, MigrateCoherent, schema, catalog
<1>13. CASE Kill
  <2>1. kills' \in 0 .. MaxKills
    BY <1>13 DEF Kill, TypeOK
  <2>2. bootstrap' \in [at: {"idle", "create", "grant"}, role: DOMAIN RoleOrder, created: BOOLEAN, able: BOOLEAN]
    <3>1. bootstrap' = bootstrap \/ bootstrap' = NoBootstrap
      BY <1>13 DEF Kill, access
    <3>2. NoBootstrap \in [at: {"idle", "create", "grant"}, role: DOMAIN RoleOrder, created: BOOLEAN, able: BOOLEAN]
      BY RoleNamesAre DEF NoBootstrap
    <3> QED
      BY <3>1, <3>2 DEF TypeOK
  <2>3. migrate' = migrate \/ migrate' = Idle
    BY <1>13 DEF Kill
  <2>4. MigrateCoherent' /\ migrate'.at \in {"idle", "forward", "record", "unrecord"}
    BY <1>13, <2>3 DEF Kill, Idle, MigrateCoherent
  <2> QED
    BY <1>13, <2>1, <2>2, <2>4 DEF Kill, TypeOK, catalog, access
<1>14. CASE EditTenants
  BY <1>14 DEF EditTenants, TypeOK, MigrateCoherent, schema, access
<1>15. CASE \E i \in Items : InsertItem(i)
  BY <1>15 DEF InsertItem, TypeOK, MigrateCoherent, schema, access
<1>16. CASE UNCHANGED vars
  BY <1>16 DEF vars, TypeOK, MigrateCoherent
<1> QED
  BY <1>1, <1>2, <1>3, <1>4, <1>5, <1>6, <1>7, <1>8, <1>9, <1>10, <1>11, <1>12, <1>13, <1>14, <1>15, <1>16
  DEF Next, MigrateStep, BootstrapStep

\* A step keeps items pointing at tenants that exist.
LEMMA ForeignKeyStep ==
  ASSUME IInv, [Next]_vars
  PROVE  ForeignKey'
<1> USE DEF IInv
<1>1. CASE UNCHANGED <<catalog, done>>
  BY <1>1 DEF catalog, ForeignKey
<1>2. CASE CreateAuth \/ CreateUsers \/ CreateTenants \/ CreateItems
  <2>1. UNCHANGED catalog /\ ("example.0002" \in done' => "example.0002" \in done)
    BY <1>2 DEF CreateAuth, CreateUsers, CreateTenants, CreateItems, CreateTable, Commit
  <2> QED
    BY <2>1 DEF catalog, ForeignKey
<1>3. CASE SeedPublicTenant
  <2>1. rows \subseteq rows' /\ owner' = owner /\ ("example.0002" \in done' => "example.0002" \in done)
    BY <1>3 DEF SeedPublicTenant, Commit
  <2> QED
    BY <2>1 DEF ForeignKey
<1>4. CASE AddItemTenant
  <2>1. CASE Abort
    BY <2>1, <1>1 DEF Abort
  <2>2. CASE /\ public # None /\ \A i \in Items : AssignTo(public)[i] # Null
             /\ owner' = AssignTo(public) /\ UNCHANGED <<rows, public>>
    <3>1. public \in rows
      BY <2>2 DEF TypeOK
    <3>2. ASSUME NEW i \in Items PROVE owner'[i] \in rows' \cup {Absent}
      BY <2>2, <3>1, <3>2 DEF AssignTo, ForeignKey
    <3> QED
      BY <3>2 DEF ForeignKey
  <2> QED
    BY <1>4, <2>1, <2>2 DEF AddItemTenant
<1>5. CASE RollBack
  BY <1>5 DEF RollBack, ForeignKey
<1>6. CASE EditTenants
  <2>1. owner' = owner /\ done' = done
    BY <1>6 DEF EditTenants, schema
  <2>2. \A i \in Items : owner[i] \in rows => owner[i] \in rows'
    BY <1>6 DEF EditTenants
  <2> QED
    BY <2>1, <2>2 DEF ForeignKey
<1>7. CASE \E i \in Items : InsertItem(i)
  BY <1>7 DEF InsertItem, MayLackTenant, schema, ForeignKey, TypeOK
<1>8. CASE \/ StartMigrate \/ Record \/ PostMigrate \/ Unrecord \/ (\E m \in Migrations : AlreadyExists(m))
           \/ StartBootstrap \/ CreateRole \/ GrantRole \/ Kill \/ UNCHANGED vars
  <2>1. UNCHANGED <<catalog, done>>
    BY <1>8 DEF StartMigrate, Record, PostMigrate, Unrecord, AlreadyExists, Abort, StartBootstrap, CreateRole,
         GrantRole, Kill, catalog, schema, vars
  <2> QED
    BY <1>1, <2>1
<1> QED
  BY <1>2, <1>3, <1>4, <1>5, <1>6, <1>7, <1>8 DEF Next, MigrateStep, BootstrapStep

\* A step takes no permission away from a role that a completed run granted.
LEMMA RolesStep ==
  ASSUME IInv, [Next]_vars
  PROVE  RolesCoherent' /\ CompletedRolesAreGranted'
<1> USE DEF IInv
<1>1. CASE UNCHANGED access /\ (permissions => permissions')
  BY <1>1 DEF access, RolesCoherent, CompletedRolesAreGranted
<1>2. CASE StartBootstrap
  BY <1>2 DEF StartBootstrap, NoBootstrap, schema, RolesCoherent, CompletedRolesAreGranted
<1>3. CASE CreateRole
  <2>1. bootstrap'.able = bootstrap.able /\ bootstrap'.role = bootstrap.role /\ UNCHANGED <<permissions, completed>>
    BY <1>3 DEF CreateRole, TypeOK, schema
  <2>2. \A r \in RoleNames : roles[r] = "granted" => roles'[r] = "granted"
    BY <1>3 DEF CreateRole, TypeOK
  <2>3. \A k \in 1 .. bootstrap.role - 1 : RoleOrder[k] \in RoleNames
    BY RoleNamesAre DEF TypeOK
  <2> QED
    BY <2>1, <2>2, <2>3 DEF RolesCoherent, CompletedRolesAreGranted
<1>4. CASE GrantRole
  <2> DEFINE role == RoleOrder[bootstrap.role]
  <2>1. bootstrap.role \in 1 .. 3 /\ role \in RoleNames /\ permissions' = permissions
    BY <1>4, RoleNamesAre DEF GrantRole, TypeOK, schema
  <2>2. \A r \in RoleNames : roles'[r] = IF r = role THEN Granted(role) ELSE roles[r]
    BY <1>4, <2>1 DEF GrantRole, TypeOK
  <2>3. permissions => Granted(role) = "granted"
    BY DEF Granted
  <2>4. bootstrap.able => \A k \in 1 .. bootstrap.role : roles'[RoleOrder[k]] = "granted"
    <3> SUFFICES ASSUME bootstrap.able, NEW k \in 1 .. bootstrap.role PROVE roles'[RoleOrder[k]] = "granted"
      OBVIOUS
    <3>1. RoleOrder[k] \in RoleNames /\ permissions
      BY <2>1, RoleNamesAre DEF RolesCoherent
    <3>2. k = bootstrap.role \/ k \in 1 .. bootstrap.role - 1
      BY <2>1
    <3> QED
      BY <2>2, <2>3, <3>1, <3>2 DEF RolesCoherent
  <2>5. completed => \A r \in RoleNames : roles'[r] = "granted"
    BY <2>2, <2>3 DEF RolesCoherent, CompletedRolesAreGranted
  <2>6. CASE bootstrap.role < Len(RoleOrder)
    <3>1. bootstrap'.able = bootstrap.able /\ bootstrap'.role = bootstrap.role + 1 /\ completed' = completed
      BY <1>4, <2>6, GrantAdvances DEF GrantRole
    <3> QED
      BY <2>1, <2>4, <2>5, <3>1 DEF RolesCoherent, CompletedRolesAreGranted
  <2>7. CASE ~(bootstrap.role < Len(RoleOrder))
    <3>1. ~bootstrap'.able /\ completed' = (completed \/ bootstrap.able) /\ bootstrap.role = 3
      BY <1>4, <2>1, <2>7, RoleNamesAre DEF GrantRole, NoBootstrap
    <3>2. bootstrap.able => \A r \in RoleNames : roles'[r] = "granted"
      BY <2>4, <3>1, RoleNamesAre
    <3> QED
      BY <2>1, <2>5, <3>1, <3>2 DEF RolesCoherent, CompletedRolesAreGranted
  <2> QED
    BY <2>6, <2>7
<1>5. CASE Kill
  BY <1>5, <1>1 DEF Kill, NoBootstrap, access, RolesCoherent, CompletedRolesAreGranted
<1>6. CASE MigrateStep
  <2>1. UNCHANGED access /\ (permissions => permissions')
    BY <1>6 DEF MigrateStep, CreateAuth, CreateUsers, CreateTenants, CreateItems, CreateTable, SeedPublicTenant,
         AddItemTenant, Commit, Abort, Record, PostMigrate, Unrecord, AlreadyExists, access
  <2> QED
    BY <1>1, <2>1
<1>7. CASE StartMigrate \/ RollBack \/ EditTenants \/ (\E i \in Items : InsertItem(i)) \/ UNCHANGED vars
  <2>1. UNCHANGED access /\ (permissions => permissions')
    BY <1>7 DEF StartMigrate, RollBack, EditTenants, InsertItem, schema, access, vars
  <2> QED
    BY <1>1, <2>1
<1> QED
  BY <1>2, <1>3, <1>4, <1>5, <1>6, <1>7 DEF Next, BootstrapStep

-----------------------------------------------------------------------------
(* The theorems.                                                           *)

\* The inductive invariant holds in every state, for every number of tenants, items and kills.
THEOREM Invariance == Spec => []IInv
<1>1. IInv /\ [Next]_vars => IInv'
  BY SchemaStep, ForeignKeyStep, RolesStep DEF IInv
<1> QED
  BY InitInvariant, <1>1, PTL DEF Spec

\* Every variable of Schema keeps its type, and migrations are recorded after those they
\* depend on.
THEOREM TypeCorrect == Spec => []TypeOK
<1>1. IInv => TypeOK
  BY DEF IInv
<1> QED
  BY Invariance, <1>1, PTL

\* example/migrations/0002: no item is without a tenant once the column is required,
\* through kills, rollbacks, renamed and deleted tenants and releases side by side.
THEOREM ItemsAlwaysHaveTenants == Spec => []ItemsHaveTenants
<1>1. IInv => ItemsHaveTenants
  BY DEF IInv, ForeignKey, ItemsHaveTenants
<1> QED
  BY Invariance, <1>1, PTL

\* bootstrap_roles.py:35: roles granted by a completed run stay granted.
THEOREM CompletedRolesStayGranted == Spec => []CompletedRolesAreGranted
<1>1. IInv => CompletedRolesAreGranted
  BY DEF IInv
<1> QED
  BY Invariance, <1>1, PTL
=============================================================================
