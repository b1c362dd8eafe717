----------------------------- MODULE SchemaInstall -----------------------------
(***************************************************************************)
(* The installation of the schema: apply_migrations                        *)
(* (persistence/migration.py) and the role grants of install_schema        *)
(* (persistence/store.py), by several administrators at once, with         *)
(* packages of different age, on databases of different origin.            *)
(*                                                                         *)
(* A package is the sequence of its migrations' checksums, and a schema    *)
(* the sequence of the migrations whose SQL was run on it.  All missing    *)
(* migrations are applied and registered in one transaction under an       *)
(* advisory lock; a second transaction then locks pg_auth_members, checks  *)
(* the memberships and grants each service login its group.                *)
(***************************************************************************)
EXTENDS Integers, Sequences, FiniteSets

CONSTANTS Installers,   \* administrators calling install_schema
          Packages,     \* the packages they may have
          Foreign,      \* a migration that is no package's: somebody else's tables
          Logins,       \* the service logins
          Eligible,     \* the logins that exist with no unsafe attribute
          Groups,       \* the service groups
          SchemaOwner,  \* the one of them no login joins
          Handmade,     \* memberships, <<member, of>>, made outside install_schema
          None

Checksums == {Foreign} \cup UNION {{p[n] : n \in DOMAIN p} : p \in Packages}

ASSUME PackageAssumption ==
    \A p \in Packages :
        p \in Seq(Checksums) /\ p # <<>> /\ \A n \in DOMAIN p : p[n] # Foreign
ASSUME RoleAssumption ==
    /\ Eligible \subseteq Logins /\ SchemaOwner \in Groups /\ Logins \cap Groups = {}
    /\ Handmade \subseteq (Logins \cup Groups) \X (Logins \cup Groups)
ASSUME InstallNoneAssumption == None \notin Logins \cup Seq(Checksums)

(* Which login is to join which group: distinct logins, and none need be   *)
(* named for a group.                                                      *)
Requests ==
    {r \in [Groups -> Logins \cup {None}] :
        /\ r[SchemaOwner] = None
        /\ \A g, h \in Groups : r[g] = r[h] /\ r[g] # None => g = h}

VARIABLES
    schema,     \* the migrations that were run, in order
    registry,   \* gah_schema_migrations, or None
    granted,    \* memberships <<login, group>> granted so far
    pc,         \* pc[i]: where installer i is
    package,    \* package[i]: the package it was started from
    request,    \* request[i]: the logins it was given
    draft       \* draft[i]: what its open transaction adds to schema and registry

installVars == <<schema, registry, granted, pc, package, request, draft>>

NoDraft == [schema |-> <<>>, registry |-> <<>>]

-----------------------------------------------------------------------------
(* A database is empty, has the tables of the first migration without a    *)
(* registry (Phase 4), has other tables, or has tables and a registry      *)
(* whose rows are gone.                                                    *)
Init ==
    /\ \/ schema = <<>> /\ registry = None
       \/ \E p \in Packages : schema = <<p[1]>> /\ registry \in {None, <<>>}
       \/ schema = <<Foreign>> /\ registry = None
    /\ granted = {}
    /\ pc = [i \in Installers |-> "idle"]
    /\ package = [i \in Installers |-> <<>>]
    /\ request = [i \in Installers |-> None]
    /\ draft = [i \in Installers |-> NoDraft]

Goto(i, label) == pc' = [pc EXCEPT ![i] = label]

(* The transaction of i ends, without effect unless it commits. *)
Leave(i) ==
    /\ Goto(i, "idle")
    /\ package' = [package EXCEPT ![i] = <<>>]
    /\ request' = [request EXCEPT ![i] = None]
    /\ draft' = [draft EXCEPT ![i] = NoDraft]

Install(i, p, r) ==
    /\ pc[i] = "idle"
    /\ Goto(i, "starting")
    /\ package' = [package EXCEPT ![i] = p]
    /\ request' = [request EXCEPT ![i] = r]
    /\ UNCHANGED <<schema, registry, granted, draft>>

-----------------------------------------------------------------------------
(* apply_migrations *)

(* Mutant: the advisory lock is not taken. *)
MigrationUnlocked == TRUE

MigrationLockFree == \A i \in Installers : pc[i] \notin {"migrating", "registering"}

(* What the registry holds once _bootstrap has created or adopted it. *)
Bootstrapped(p) ==
    CASE registry # None -> registry
      [] registry = None /\ schema = <<>> -> <<>>
      [] OTHER -> <<p[1]>>

(* An empty schema, or exactly the first migration's tables. *)
SafeBootstrap(p) ==
    IF registry = None THEN schema \in {<<>>, <<p[1]>>}
                       ELSE registry = <<>> => schema = <<>>

(* Mutant: the applied checksums are not compared with the package's. *)
VerifyVersionsOnly(p) == Len(Bootstrapped(p)) <= Len(p)

(* _verify_applied: what is registered is the beginning of the package. *)
VerifyApplied(p) ==
    /\ Len(Bootstrapped(p)) <= Len(p)
    /\ Bootstrapped(p) = SubSeq(p, 1, Len(Bootstrapped(p)))

MigrateBegin(i) ==
    LET p == package[i] IN
    /\ pc[i] = "starting"
    /\ MigrationLockFree
    /\ SafeBootstrap(p)
    /\ VerifyApplied(p)
    /\ draft' = [draft EXCEPT ![i] =
           [schema |-> <<>>,
            registry |-> IF registry = None THEN Bootstrapped(p) ELSE <<>>]]
    /\ Goto(i, "migrating")
    /\ UNCHANGED <<schema, registry, granted, package, request>>

MigrateRefused(i) ==
    /\ pc[i] = "starting"
    /\ MigrationLockFree
    /\ ~SafeBootstrap(package[i]) \/ ~VerifyApplied(package[i])
    /\ Leave(i)
    /\ UNCHANGED <<schema, registry, granted>>

Committed == IF registry = None THEN <<>> ELSE registry

(* Versions that i's transaction sees registered. *)
Registered(i) == Len(Committed \o draft[i].registry)

RunMigration(i) ==
    /\ pc[i] = "migrating"
    /\ Registered(i) < Len(package[i])
    /\ draft' = [draft EXCEPT ![i].schema = Append(@, package[i][Registered(i) + 1])]
    /\ Goto(i, "registering")
    /\ UNCHANGED <<schema, registry, granted, package, request>>

InsertApplied(i) ==
    /\ pc[i] = "registering"
    /\ draft' = [draft EXCEPT ![i].registry = Append(@, package[i][Registered(i) + 1])]
    /\ Goto(i, "migrating")
    /\ UNCHANGED <<schema, registry, granted, package, request>>

MigrateCommit(i) ==
    /\ pc[i] = "migrating"
    /\ Registered(i) >= Len(package[i])
    /\ schema' = schema \o draft[i].schema
    /\ registry' = Committed \o draft[i].registry
    /\ draft' = [draft EXCEPT ![i] = NoDraft]
    /\ Goto(i, "migrated")
    /\ UNCHANGED <<granted, package, request>>

-----------------------------------------------------------------------------
(* The service roles *)

(* Mutant: the memberships are read without the lock on their table. *)
MembershipsUnlocked == TRUE

MembershipsFree == \A i \in Installers : pc[i] # "granting"

(* pg_has_role: m is g, or a member of it along some path. *)
Has(m, g) ==
    \A S \in SUBSET (Logins \cup Groups) :
        /\ m \in S
        /\ \A e \in granted \cup Handmade : e[1] \in S => e[2] \in S
        => g \in S

Supplied(r) == {r[g] : g \in Groups} \ {None}

SafeRequest(r) ==
    /\ Supplied(r) \subseteq Eligible
    /\ \A g, h \in Groups : g # h => ~Has(g, h)
    /\ \A g, h \in Groups : g # h /\ r[g] # None => ~Has(r[g], h)
    /\ \A a, b \in Supplied(r) : a # b => ~Has(a, b)

GrantCheck(i) ==
    /\ pc[i] = "migrated"
    /\ MembershipsFree
    /\ SafeRequest(request[i])
    /\ Goto(i, "granting")
    /\ UNCHANGED <<schema, registry, granted, package, request, draft>>

GrantRefused(i) ==
    /\ pc[i] = "migrated"
    /\ MembershipsFree
    /\ ~SafeRequest(request[i])
    /\ Leave(i)
    /\ UNCHANGED <<schema, registry, granted>>

Grant(i) ==
    /\ pc[i] = "granting"
    /\ granted' = granted \cup {<<request[i][g], g>> : g \in {h \in Groups : request[i][h] # None}}
    /\ Leave(i)
    /\ UNCHANGED <<schema, registry>>

(* A statement fails or the administrator's process dies. *)
Crash(i) ==
    /\ pc[i] # "idle"
    /\ Leave(i)
    /\ UNCHANGED <<schema, registry, granted>>

-----------------------------------------------------------------------------
Next == \E i \in Installers :
    \/ \E p \in Packages, r \in Requests : Install(i, p, r)
    \/ MigrateBegin(i) \/ MigrateRefused(i)
    \/ RunMigration(i) \/ InsertApplied(i) \/ MigrateCommit(i)
    \/ GrantCheck(i) \/ GrantRefused(i) \/ Grant(i)
    \/ Crash(i)

Spec == Init /\ [][Next]_installVars

-----------------------------------------------------------------------------
(* Properties *)

Prefixes == UNION {{SubSeq(p, 1, n) : n \in 0..Len(p)} : p \in Packages}

(* Every variable has its type, and a transaction that migrates has seen   *)
(* and added only what is the beginning of its own package.                *)
TypeOK ==
    /\ schema \in Seq(Checksums)
    /\ registry \in Seq(Checksums) \cup {None}
    /\ granted \subseteq Logins \X Groups
    /\ pc \in [Installers -> {"idle", "starting", "migrating", "registering", "migrated",
                              "granting"}]
    /\ package \in [Installers -> Packages \cup {<<>>}]
    /\ request \in [Installers -> Requests \cup {None}]
    /\ \A i \in Installers : pc[i] \in {"migrating", "registering"} =>
          Committed \o draft[i].registry = SubSeq(package[i], 1, Registered(i))

(* The registry says what was run: each version once, in order, of one     *)
(* package, whichever administrators, old or new packages and crashes met  *)
(* the database; a schema nobody vouches for is never registered.          *)
RegistryTrue ==
    registry \in {None, <<>>} \/ (registry = schema /\ schema \in Prefixes)

(* No login is granted two service groups, and none comes into a second    *)
(* one except as a member of another login that was granted it, although   *)
(* the memberships that install_schema checks outlive its transaction and  *)
(* two installers may check before either grants.                          *)
OneGroupByGrant ==
    \A e \in granted : \A g \in Groups \ {e[2]} :
        Has(e[1], g) => \E f \in granted : f[1] # e[1] /\ f[2] = g /\ Has(e[1], f[1])

(* A login that was granted a service group is in no other one along any   *)
(* path.  The code does not keep this: it compares with each other only    *)
(* the logins of one call, so a membership of one login in another passes  *)
(* when the two are named in different calls.                              *)
RolesSeparated ==
    \A e \in granted : \A g \in Groups : Has(e[1], g) => g = e[2]

===============================================================================
