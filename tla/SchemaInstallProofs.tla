-------------------------- MODULE SchemaInstallProofs --------------------------
(***************************************************************************)
(* Proofs about SchemaInstall for every set of installers, packages,       *)
(* logins, groups and memberships.                                         *)
(*                                                                         *)
(* The registry: under the advisory lock one transaction's view of the     *)
(* registry is the beginning of its package and its view of the schema is  *)
(* the same, or one migration ahead between RunMigration and               *)
(* InsertApplied, so that what commits is registered as it was run.        *)
(*                                                                         *)
(* The roles: the lock on pg_auth_members keeps what was checked true      *)
(* until it is granted, so that each login is granted one group and        *)
(* neither of the two leads to another group by the memberships made by    *)
(* hand.  A path to another group therefore ends with a grant of it.       *)
(***************************************************************************)
EXTENDS SchemaInstall, TLAPS, SequenceTheorems

PCs == {"idle", "starting", "migrating", "registering", "migrated", "granting"}
Migrating == {"migrating", "registering"}
Drafts == [schema : Seq(Checksums), registry : Seq(Checksums)]

Typed ==
    /\ schema \in Seq(Checksums)
    /\ registry \in Seq(Checksums) \cup {None}
    /\ granted \subseteq Logins \X Groups
    /\ pc \in [Installers -> PCs]
    /\ package \in [Installers -> Packages \cup {<<>>}]
    /\ request \in [Installers -> Requests \cup {None}]
    /\ draft \in [Installers -> Drafts]
    /\ \A i \in Installers : pc[i] # "idle" => package[i] \in Packages /\ request[i] \in Requests

Known(rg) == IF rg = None THEN <<>> ELSE rg

(* What a transaction sees registered is the beginning of its package, and *)
(* what it sees run is the same, or one migration more.                    *)
DraftGood(sc, rg, d, p, l) ==
    \E n \in 0..Len(p) :
        /\ Known(rg) \o d.registry = SubSeq(p, 1, n)
        /\ IF l = "migrating" THEN sc \o d.schema = SubSeq(p, 1, n)
                              ELSE n < Len(p) /\ sc \o d.schema = SubSeq(p, 1, n + 1)

DraftsInv ==
    \A i \in Installers : pc[i] \in Migrating =>
        DraftGood(schema, registry, draft[i], package[i], pc[i])

MigrationExclusive ==
    \A i, j \in Installers : pc[i] \in Migrating /\ pc[j] \in Migrating => i = j

IndInv ==
    /\ Typed
    /\ RegistryTrue
    /\ DraftsInv
    /\ MigrationExclusive

-----------------------------------------------------------------------------
(* Beginnings of packages *)

LEMMA PackageIs ==
    ASSUME NEW p \in Packages
    PROVE  /\ p \in Seq(Checksums) /\ Len(p) \in Nat /\ 1 <= Len(p)
           /\ \A n \in 1..Len(p) : p[n] \in Checksums
<1>1. p \in Seq(Checksums) /\ p # <<>>
  BY PackageAssumption
<1>2. Len(p) \in Nat /\ (Len(p) = 0 => p = <<>>)
  BY <1>1, LenProperties, EmptySeq
<1>3. \A n \in 1..Len(p) : p[n] \in Checksums
  BY <1>1, ElementOfSeq
<1> QED BY <1>1, <1>2, <1>3

LEMMA PrefixIs ==
    ASSUME NEW p \in Packages, NEW n \in 0..Len(p)
    PROVE  /\ SubSeq(p, 1, n) \in Seq(Checksums) /\ Len(SubSeq(p, 1, n)) = n
           /\ \A k \in 1..n : SubSeq(p, 1, n)[k] = p[k]
           /\ SubSeq(p, 1, n) \in Prefixes
<1>1. /\ p \in Seq(Checksums) /\ Len(p) \in Nat /\ n \in Nat
      /\ \A k \in 1..n : p[k] \in Checksums
  BY PackageIs
<1>2. /\ SubSeq(p, 1, n) \in Seq(Checksums)
      /\ Len(SubSeq(p, 1, n)) = IF 1 <= n THEN n - 1 + 1 ELSE 0
      /\ \A k \in 1..(n - 1 + 1) : SubSeq(p, 1, n)[k] = p[1 + k - 1]
  BY <1>1, SubSeqProperties
<1>3. Len(SubSeq(p, 1, n)) = n /\ \A k \in 1..n : SubSeq(p, 1, n)[k] = p[k]
  BY <1>1, <1>2
<1> QED BY <1>2, <1>3 DEF Prefixes

LEMMA PrefixNext ==
    ASSUME NEW p \in Packages, NEW n \in Nat, n < Len(p)
    PROVE  /\ Append(SubSeq(p, 1, n), p[n + 1]) = SubSeq(p, 1, n + 1)
           /\ p[n + 1] \in Checksums
<1>1. Len(p) \in Nat /\ n \in 0..Len(p) /\ n + 1 \in 0..Len(p) /\ n + 1 \in 1..Len(p)
      /\ p[n + 1] \in Checksums
  BY PackageIs
<1>2. PICK s : s = SubSeq(p, 1, n)
  OBVIOUS
<1>3. PICK t : t = SubSeq(p, 1, n + 1)
  OBVIOUS
<1>4. s \in Seq(Checksums) /\ Len(s) = n /\ \A k \in 1..n : s[k] = p[k]
  BY <1>1, <1>2, PrefixIs
<1>5. t \in Seq(Checksums) /\ Len(t) = n + 1 /\ \A k \in 1..(n + 1) : t[k] = p[k]
  BY <1>1, <1>3, PrefixIs
<1>6. /\ Append(s, p[n + 1]) \in Seq(Checksums) /\ Len(Append(s, p[n + 1])) = n + 1
      /\ \A k \in 1..n : Append(s, p[n + 1])[k] = s[k]
      /\ Append(s, p[n + 1])[n + 1] = p[n + 1]
  BY <1>1, <1>4, AppendProperties
<1>7. \A k \in 1..(n + 1) : k \in 1..n \/ k = n + 1
  OBVIOUS
<1>8. \A k \in 1..(n + 1) : Append(s, p[n + 1])[k] = t[k]
  BY <1>1, <1>4, <1>5, <1>6, <1>7
<1>9. Append(s, p[n + 1]) = t
  BY <1>5, <1>6, <1>8, SeqEqual
<1> QED BY <1>1, <1>2, <1>3, <1>9

LEMMA PrefixOne ==
    ASSUME NEW p \in Packages
    PROVE  SubSeq(p, 1, 1) = <<p[1]>> /\ SubSeq(p, 1, 0) = <<>> /\ p[1] \in Checksums
<1>1. SubSeq(p, 1, 0) = <<>>
  BY SubSeqEmpty
<1>2. 0 < Len(p) /\ 0 + 1 = 1 /\ p[1] \in Checksums
  BY PackageIs
<1>3. Append(SubSeq(p, 1, 0), p[1]) = SubSeq(p, 1, 1)
  BY <1>2, PrefixNext
<1>4. <<>> \in Seq(Checksums) /\ <<p[1]>> \in Seq(Checksums)
  BY <1>2
<1>5. Append(<<>>, p[1]) = <<>> \o <<p[1]>> /\ <<>> \o <<p[1]>> = <<p[1]>>
  BY <1>2, <1>4, AppendIsConcat, ConcatEmptySeq
<1> QED BY <1>1, <1>2, <1>3, <1>5

(* A migration added to a draft is added to what the transaction sees. *)
LEMMA AppendConcat ==
    ASSUME NEW s \in Seq(Checksums), NEW t \in Seq(Checksums), NEW x \in Checksums
    PROVE  s \o Append(t, x) = Append(s \o t, x)
<1>1. <<x>> \in Seq(Checksums)
  OBVIOUS
<1>2. s \o t \in Seq(Checksums)
  BY ConcatProperties
<1>3. Append(t, x) = t \o <<x>> /\ Append(s \o t, x) = (s \o t) \o <<x>>
  BY <1>2, AppendIsConcat
<1>4. (s \o t) \o <<x>> = s \o (t \o <<x>>)
  BY <1>1, ConcatAssociative
<1> QED BY <1>3, <1>4

LEMMA NoneIs ==
    /\ None \notin Seq(Checksums) /\ None # <<>> /\ None \notin Logins
    /\ \A s \in Seq(Checksums) : Known(s) = s
    /\ Known(None) = <<>>
<1>1. None \notin Seq(Checksums) /\ None \notin Logins /\ <<>> \in Seq(Checksums)
  BY InstallNoneAssumption
<1> QED BY <1>1 DEF Known

-----------------------------------------------------------------------------
(* The steps of one installer *)

(* Installer i goes to label l; the others stay. *)
Moves(i, l, p, r, d) ==
    /\ pc' = [pc EXCEPT ![i] = l]
    /\ package' = [package EXCEPT ![i] = p]
    /\ request' = [request EXCEPT ![i] = r]
    /\ draft' = [draft EXCEPT ![i] = d]

(* A busy installer has a package and a request. *)
Given(l, p, r) ==
    /\ l \in PCs
    /\ p \in Packages \cup {<<>>} /\ r \in Requests \cup {None}
    /\ l # "idle" => p \in Packages /\ r \in Requests

LEMMA MovesTyped ==
    ASSUME Typed, NEW i \in Installers, NEW l, NEW p, NEW r, NEW d \in Drafts,
           Moves(i, l, p, r, d), Given(l, p, r),
           schema' \in Seq(Checksums), registry' \in Seq(Checksums) \cup {None},
           granted' \subseteq Logins \X Groups
    PROVE  /\ Typed'
           /\ pc'[i] = l /\ package'[i] = p /\ request'[i] = r /\ draft'[i] = d
           /\ \A j \in Installers \ {i} : /\ pc'[j] = pc[j] /\ package'[j] = package[j]
                                          /\ request'[j] = request[j] /\ draft'[j] = draft[j]
<1>1. /\ pc \in [Installers -> PCs] /\ package \in [Installers -> Packages \cup {<<>>}]
      /\ request \in [Installers -> Requests \cup {None}] /\ draft \in [Installers -> Drafts]
  BY DEF Typed
<1>2. l \in PCs /\ p \in Packages \cup {<<>>} /\ r \in Requests \cup {None}
  BY DEF Given
<1>3. /\ pc' \in [Installers -> PCs] /\ package' \in [Installers -> Packages \cup {<<>>}]
      /\ request' \in [Installers -> Requests \cup {None}] /\ draft' \in [Installers -> Drafts]
      /\ pc'[i] = l /\ package'[i] = p /\ request'[i] = r /\ draft'[i] = d
      /\ \A j \in Installers \ {i} : /\ pc'[j] = pc[j] /\ package'[j] = package[j]
                                     /\ request'[j] = request[j] /\ draft'[j] = draft[j]
  BY <1>1, <1>2 DEF Moves
<1>4. \A j \in Installers : pc'[j] # "idle" => package'[j] \in Packages /\ request'[j] \in Requests
  BY <1>3 DEF Given, Typed
<1> QED BY <1>3, <1>4 DEF Typed

LEMMA StaysMoves ==
    ASSUME Typed, NEW i \in Installers
    PROVE  /\ package = [package EXCEPT ![i] = package[i]]
           /\ request = [request EXCEPT ![i] = request[i]]
           /\ draft = [draft EXCEPT ![i] = draft[i]]
           /\ draft[i] \in Drafts
           /\ \A l \in PCs : pc[i] # "idle" => Given(l, package[i], request[i])
BY DEF Typed, Given

LEMMA LeaveMoves ==
    ASSUME NEW i, Leave(i)
    PROVE  Moves(i, "idle", <<>>, None, NoDraft) /\ Given("idle", <<>>, None) /\ NoDraft \in Drafts
<1>1. <<>> \in Seq(Checksums)
  OBVIOUS
<1> QED BY <1>1 DEF Leave, Goto, Moves, Given, PCs, NoDraft, Drafts

(* The installer that moves migrates alone, or not at all, and the         *)
(* committed schema is the one another's transaction began with.           *)
LEMMA MovesGood ==
    ASSUME IndInv, NEW i \in Installers, NEW l, NEW p, NEW r, NEW d \in Drafts,
           Moves(i, l, p, r, d), Given(l, p, r),
           schema' = schema, registry' = registry, granted' \subseteq Logins \X Groups,
           l \in Migrating => /\ \A j \in Installers \ {i} : pc[j] \notin Migrating
                              /\ DraftGood(schema, registry, d, p, l)
    PROVE  IndInv'
<1>0. Typed /\ RegistryTrue /\ DraftsInv /\ MigrationExclusive
  BY DEF IndInv
<1>1. schema' \in Seq(Checksums) /\ registry' \in Seq(Checksums) \cup {None}
  BY <1>0 DEF Typed
<1>2. /\ Typed' /\ pc'[i] = l /\ package'[i] = p /\ draft'[i] = d
      /\ \A j \in Installers \ {i} : /\ pc'[j] = pc[j] /\ package'[j] = package[j]
                                     /\ draft'[j] = draft[j]
  BY <1>0, <1>1, MovesTyped
<1>3. RegistryTrue'
  BY <1>0 DEF RegistryTrue
<1>4. DraftsInv'
  <2>1. ASSUME NEW j \in Installers, pc'[j] \in Migrating
        PROVE  DraftGood(schema', registry', draft'[j], package'[j], pc'[j])
    <3>1. CASE j = i
      BY <1>2, <2>1, <3>1
    <3>2. CASE j # i
      <4>1. pc'[j] = pc[j] /\ package'[j] = package[j] /\ draft'[j] = draft[j]
        BY <1>2, <3>2
      <4>2. DraftGood(schema, registry, draft[j], package[j], pc[j])
        BY <1>0, <2>1, <4>1 DEF DraftsInv
      <4> QED BY <4>1, <4>2
    <3> QED BY <3>1, <3>2
  <2> QED BY <2>1 DEF DraftsInv
<1>5. MigrationExclusive'
  BY <1>0, <1>2 DEF MigrationExclusive
<1> QED BY <1>2, <1>3, <1>4, <1>5 DEF IndInv

LEMMA InitGood ==
    ASSUME Init
    PROVE  IndInv
<1>1. schema \in Seq(Checksums) /\ registry \in Seq(Checksums) \cup {None}
  <2>0. Foreign \in Checksums
    BY DEF Checksums
  <2>1. <<>> \in Seq(Checksums) /\ <<Foreign>> \in Seq(Checksums)
    BY <2>0
  <2>2. \A p \in Packages : <<p[1]>> \in Seq(Checksums)
    BY PrefixOne
  <2> QED BY <2>1, <2>2 DEF Init
<1>2. NoDraft \in Drafts
  BY DEF NoDraft, Drafts
<1>3. Typed
  BY <1>1, <1>2 DEF Init, Typed, PCs
<1>4. RegistryTrue
  BY DEF Init, RegistryTrue
<1>5. DraftsInv /\ MigrationExclusive
  BY DEF Init, DraftsInv, MigrationExclusive, Migrating
<1> QED BY <1>3, <1>4, <1>5 DEF IndInv

(* A step that leaves the schema alone and ends outside a migration. *)
LEMMA LeaveGood ==
    ASSUME IndInv, NEW i \in Installers, Leave(i),
           UNCHANGED <<schema, registry>>, granted' \subseteq Logins \X Groups
    PROVE  IndInv'
BY LeaveMoves, MovesGood DEF Migrating

LEMMA InstallGood ==
    ASSUME IndInv, NEW i \in Installers, NEW p \in Packages, NEW r \in Requests, Install(i, p, r)
    PROVE  IndInv'
<1>0. Typed /\ granted' = granted /\ schema' = schema /\ registry' = registry
  BY DEF IndInv, Install
<1>1. Moves(i, "starting", p, r, draft[i]) /\ draft[i] \in Drafts
  BY <1>0, StaysMoves DEF Install, Goto, Moves
<1>2. Given("starting", p, r) /\ "starting" \notin Migrating
  BY DEF Given, PCs, Migrating
<1>3. granted' \subseteq Logins \X Groups
  BY <1>0 DEF Typed
<1> QED BY <1>0, <1>1, <1>2, <1>3, MovesGood

LEMMA GrantCheckGood ==
    ASSUME IndInv, NEW i \in Installers, GrantCheck(i)
    PROVE  IndInv'
<1>0. /\ Typed /\ granted' = granted /\ schema' = schema /\ registry' = registry
      /\ pc[i] # "idle" /\ "granting" \in PCs /\ "granting" \notin Migrating
  BY DEF IndInv, GrantCheck, PCs, Migrating
<1>1. Moves(i, "granting", package[i], request[i], draft[i]) /\ draft[i] \in Drafts
  BY <1>0, StaysMoves DEF GrantCheck, Goto, Moves
<1>2. Given("granting", package[i], request[i])
  BY <1>0, StaysMoves
<1>3. granted' \subseteq Logins \X Groups
  BY <1>0 DEF Typed
<1> QED BY <1>0, <1>1, <1>2, <1>3, MovesGood

LEMMA GrantGood ==
    ASSUME IndInv, NEW i \in Installers, Grant(i)
    PROVE  IndInv'
<1>1. PICK r \in Requests : r = request[i]
  BY DEF IndInv, Typed, Grant
<1>2. \A g \in Groups : r[g] # None => r[g] \in Logins
  BY DEF Requests
<1>3. granted' = granted \cup {<<r[g], g>> : g \in {h \in Groups : r[h] # None}}
  BY <1>1 DEF Grant
<1>4. granted' \subseteq Logins \X Groups
  BY <1>2, <1>3 DEF IndInv, Typed
<1> QED BY <1>4, LeaveGood DEF Grant

(* What the bootstrap leaves is the beginning of the package, and what was run. *)
LEMMA MigrateBeginGood ==
    ASSUME IndInv, NEW i \in Installers, MigrateBegin(i)
    PROVE  IndInv'
<1>0. /\ Typed /\ RegistryTrue /\ granted' = granted /\ schema' = schema /\ registry' = registry
      /\ pc[i] # "idle" /\ "migrating" \in PCs
      /\ \A j \in Installers : pc[j] \notin Migrating
  BY DEF IndInv, MigrateBegin, PCs, MigrationLockFree, Migrating
<1>1. PICK p \in Packages : p = package[i]
  BY <1>0 DEF Typed
<1>2. PICK b : b = Bootstrapped(p)
  OBVIOUS
<1>3. SafeBootstrap(p) /\ Len(b) <= Len(p) /\ b = SubSeq(p, 1, Len(b))
  BY <1>1, <1>2 DEF MigrateBegin, VerifyApplied
<1>4. PICK d : d = [schema |-> <<>>, registry |-> IF registry = None THEN b ELSE <<>>]
  OBVIOUS
<1>5. Moves(i, "migrating", package[i], request[i], d)
  BY <1>0, <1>1, <1>2, <1>4, StaysMoves DEF MigrateBegin, Goto, Moves
<1>6. /\ schema \in Seq(Checksums) /\ registry \in Seq(Checksums) \cup {None}
      /\ <<>> \in Seq(Checksums)
  BY <1>0 DEF Typed
<1>7. b \in Seq(Checksums) /\ schema = b /\ Known(registry) \o d.registry = b
  <2>1. CASE registry = None
    <3>1. schema = <<>> \/ schema = <<p[1]>>
      BY <1>3, <2>1 DEF SafeBootstrap
    <3>2. b = schema
      BY <1>2, <2>1, <3>1 DEF Bootstrapped
    <3>3. Known(registry) = <<>> /\ d.registry = b
      BY <1>4, <2>1, NoneIs
    <3>4. <<>> \o b = b
      BY <1>6, <3>2, ConcatEmptySeq
    <3> QED BY <1>6, <3>2, <3>3, <3>4
  <2>2. CASE registry # None
    <3>1. b = registry /\ registry \in Seq(Checksums) /\ d.registry = <<>> /\ Known(registry) = registry
      BY <1>2, <1>4, <1>6, <2>2, NoneIs DEF Bootstrapped
    <3>2. schema = registry
      BY <1>0, <1>3, <2>2 DEF SafeBootstrap, RegistryTrue
    <3>3. registry \o <<>> = registry
      BY <3>1, ConcatEmptySeq
    <3> QED BY <3>1, <3>2, <3>3
  <2> QED BY <2>1, <2>2
<1>8. d \in Drafts /\ d.schema = <<>>
  BY <1>4, <1>6, <1>7 DEF Drafts
<1>9. Len(b) \in 0..Len(p)
  BY <1>3, <1>7, PackageIs, LenProperties
<1>10. schema \o d.schema = b
  BY <1>6, <1>7, <1>8, ConcatEmptySeq
<1>11. DraftGood(schema, registry, d, p, "migrating")
  BY <1>3, <1>7, <1>9, <1>10 DEF DraftGood
<1>12. Given("migrating", package[i], request[i])
  BY <1>0, StaysMoves
<1>13. granted' \subseteq Logins \X Groups
  BY <1>0 DEF Typed
<1> QED BY <1>0, <1>1, <1>5, <1>8, <1>11, <1>12, <1>13, MovesGood

(* What the transaction of a migrating installer sees. *)
LEMMA Seen ==
    ASSUME IndInv, NEW i \in Installers, pc[i] \in Migrating
    PROVE  /\ package[i] \in Packages /\ draft[i] \in Drafts /\ Committed = Known(registry)
           /\ Committed \in Seq(Checksums)
           /\ Committed \o draft[i].registry \in Seq(Checksums)
           /\ schema \o draft[i].schema \in Seq(Checksums)
           /\ Registered(i) \in 0..Len(package[i])
           /\ Committed \o draft[i].registry = SubSeq(package[i], 1, Registered(i))
           /\ pc[i] = "migrating" => schema \o draft[i].schema = SubSeq(package[i], 1, Registered(i))
           /\ pc[i] = "registering" =>
                 /\ Registered(i) < Len(package[i])
                 /\ schema \o draft[i].schema = SubSeq(package[i], 1, Registered(i) + 1)
<1>0. Typed /\ DraftsInv /\ pc[i] # "idle" /\ "registering" # "migrating"
  BY DEF IndInv, Migrating
<1>1. PICK p \in Packages : p = package[i]
  BY <1>0 DEF Typed
<1>2. /\ draft[i] \in Drafts /\ draft[i].registry \in Seq(Checksums)
      /\ draft[i].schema \in Seq(Checksums) /\ schema \in Seq(Checksums)
      /\ registry \in Seq(Checksums) \cup {None} /\ <<>> \in Seq(Checksums)
  BY <1>0 DEF Typed, Drafts
<1>3. Committed = Known(registry) /\ Committed \in Seq(Checksums)
  BY <1>2 DEF Committed, Known
<1>4. Committed \o draft[i].registry \in Seq(Checksums) /\ schema \o draft[i].schema \in Seq(Checksums)
  BY <1>2, <1>3, ConcatProperties
<1>5. DraftGood(schema, registry, draft[i], p, pc[i])
  BY <1>0, <1>1 DEF DraftsInv
<1>6. PICK n \in 0..Len(p) :
        /\ Known(registry) \o draft[i].registry = SubSeq(p, 1, n)
        /\ IF pc[i] = "migrating" THEN schema \o draft[i].schema = SubSeq(p, 1, n)
           ELSE n < Len(p) /\ schema \o draft[i].schema = SubSeq(p, 1, n + 1)
  BY <1>5 DEF DraftGood
<1>7. Len(SubSeq(p, 1, n)) = n
  BY PrefixIs
<1>8. Registered(i) = n
  BY <1>3, <1>6, <1>7 DEF Registered
<1> QED BY <1>0, <1>1, <1>2, <1>3, <1>4, <1>6, <1>8

LEMMA RunMigrationGood ==
    ASSUME IndInv, NEW i \in Installers, RunMigration(i)
    PROVE  IndInv'
<1>0. /\ Typed /\ granted' = granted /\ schema' = schema /\ registry' = registry
      /\ pc[i] = "migrating" /\ pc[i] # "idle" /\ "registering" \in PCs
      /\ pc[i] \in Migrating /\ "registering" # "migrating"
  BY DEF IndInv, RunMigration, PCs, Migrating
<1>1. PICK p \in Packages : p = package[i]
  BY <1>0, Seen
<1>2. PICK n : n = Registered(i)
  OBVIOUS
<1>3. /\ draft[i] \in Drafts /\ n \in 0..Len(p) /\ n < Len(p) /\ n \in Nat
      /\ Known(registry) \o draft[i].registry = SubSeq(p, 1, n)
      /\ schema \o draft[i].schema = SubSeq(p, 1, n)
  <2>1. /\ draft[i] \in Drafts /\ n \in 0..Len(p)
        /\ Known(registry) \o draft[i].registry = SubSeq(p, 1, n)
        /\ schema \o draft[i].schema = SubSeq(p, 1, n)
    BY <1>0, <1>1, <1>2, Seen
  <2>2. n < Len(p)
    BY <1>1, <1>2 DEF RunMigration
  <2>3. n \in Nat
    BY <2>1, PackageIs
  <2> QED BY <2>1, <2>2, <2>3
<1>4. /\ p[n + 1] \in Checksums /\ draft[i].schema \in Seq(Checksums) /\ schema \in Seq(Checksums)
      /\ Append(SubSeq(p, 1, n), p[n + 1]) = SubSeq(p, 1, n + 1)
  BY <1>0, <1>3, PrefixNext DEF Drafts, Typed
<1> DEFINE d == [draft[i] EXCEPT !.schema = Append(@, p[n + 1])]
<1>5. draft' = [draft EXCEPT ![i] = d]
  BY <1>1, <1>2 DEF RunMigration
<1>6. d \in Drafts /\ d.registry = draft[i].registry /\ d.schema = Append(draft[i].schema, p[n + 1])
  <2>1. Append(draft[i].schema, p[n + 1]) \in Seq(Checksums)
    BY <1>4, AppendProperties
  <2> QED BY <1>3, <2>1 DEF Drafts
<1> HIDE DEF d
<1>7. schema \o d.schema = SubSeq(p, 1, n + 1)
  BY <1>3, <1>4, <1>6, AppendConcat
<1>8. DraftGood(schema, registry, d, p, "registering")
  BY <1>0, <1>3, <1>6, <1>7 DEF DraftGood
<1>9. Moves(i, "registering", package[i], request[i], d)
  BY <1>0, <1>5, StaysMoves DEF RunMigration, Goto, Moves
<1>10. \A j \in Installers \ {i} : pc[j] \notin Migrating
  BY <1>0 DEF IndInv, MigrationExclusive
<1>11. Given("registering", package[i], request[i]) /\ granted' \subseteq Logins \X Groups
  BY <1>0, StaysMoves DEF Typed
<1> QED BY <1>0, <1>1, <1>6, <1>8, <1>9, <1>10, <1>11, MovesGood

LEMMA InsertAppliedGood ==
    ASSUME IndInv, NEW i \in Installers, InsertApplied(i)
    PROVE  IndInv'
<1>0. /\ Typed /\ granted' = granted /\ schema' = schema /\ registry' = registry
      /\ pc[i] = "registering" /\ pc[i] # "idle" /\ "migrating" \in PCs
      /\ pc[i] \in Migrating
  BY DEF IndInv, InsertApplied, PCs, Migrating
<1>1. PICK p \in Packages : p = package[i]
  BY <1>0, Seen
<1>2. PICK n : n = Registered(i)
  OBVIOUS
<1>3. /\ draft[i] \in Drafts /\ n \in 0..Len(p) /\ n < Len(p) /\ n \in Nat
      /\ Known(registry) \in Seq(Checksums)
      /\ Known(registry) \o draft[i].registry = SubSeq(p, 1, n)
      /\ schema \o draft[i].schema = SubSeq(p, 1, n + 1)
  <2>1. /\ draft[i] \in Drafts /\ n \in 0..Len(p) /\ n < Len(p)
        /\ Known(registry) \in Seq(Checksums)
        /\ Known(registry) \o draft[i].registry = SubSeq(p, 1, n)
        /\ schema \o draft[i].schema = SubSeq(p, 1, n + 1)
    BY <1>0, <1>1, <1>2, Seen
  <2>2. n \in Nat
    BY <2>1, PackageIs
  <2> QED BY <2>1, <2>2
<1>4. /\ p[n + 1] \in Checksums /\ draft[i].registry \in Seq(Checksums)
      /\ Append(SubSeq(p, 1, n), p[n + 1]) = SubSeq(p, 1, n + 1)
      /\ n + 1 \in 0..Len(p)
  BY <1>0, <1>3, PrefixNext, PackageIs DEF Drafts, Typed
<1> DEFINE d == [draft[i] EXCEPT !.registry = Append(@, p[n + 1])]
<1>5. draft' = [draft EXCEPT ![i] = d]
  BY <1>1, <1>2 DEF InsertApplied
<1>6. d \in Drafts /\ d.schema = draft[i].schema /\ d.registry = Append(draft[i].registry, p[n + 1])
  <2>1. Append(draft[i].registry, p[n + 1]) \in Seq(Checksums)
    BY <1>4, AppendProperties
  <2> QED BY <1>3, <2>1 DEF Drafts
<1> HIDE DEF d
<1>7. Known(registry) \o d.registry = SubSeq(p, 1, n + 1)
  BY <1>3, <1>4, <1>6, AppendConcat
<1>8. DraftGood(schema, registry, d, p, "migrating")
  BY <1>3, <1>4, <1>6, <1>7 DEF DraftGood
<1>9. Moves(i, "migrating", package[i], request[i], d)
  BY <1>0, <1>5, StaysMoves DEF InsertApplied, Goto, Moves
<1>10. \A j \in Installers \ {i} : pc[j] \notin Migrating
  BY <1>0 DEF IndInv, MigrationExclusive
<1>11. Given("migrating", package[i], request[i]) /\ granted' \subseteq Logins \X Groups
  BY <1>0, StaysMoves DEF Typed
<1> QED BY <1>0, <1>1, <1>6, <1>8, <1>9, <1>10, <1>11, MovesGood

LEMMA MigrateCommitGood ==
    ASSUME IndInv, NEW i \in Installers, MigrateCommit(i)
    PROVE  IndInv'
<1>0. /\ Typed /\ granted' = granted /\ pc[i] = "migrating" /\ pc[i] # "idle"
      /\ "migrated" \in PCs /\ pc[i] \in Migrating /\ "migrated" \notin Migrating
  BY DEF IndInv, MigrateCommit, PCs, Migrating
<1>1. PICK p \in Packages : p = package[i]
  BY <1>0, Seen
<1>2. PICK n : n = Registered(i)
  OBVIOUS
<1>3. /\ n \in 0..Len(p)
      /\ registry' = SubSeq(p, 1, n) /\ schema' = SubSeq(p, 1, n)
      /\ registry' \in Seq(Checksums) /\ schema' \in Seq(Checksums)
  BY <1>0, <1>1, <1>2, Seen DEF MigrateCommit
<1>4. RegistryTrue'
  BY <1>3, PrefixIs DEF RegistryTrue, Prefixes
<1>5. Moves(i, "migrated", package[i], request[i], NoDraft) /\ NoDraft \in Drafts
  <2>1. <<>> \in Seq(Checksums)
    OBVIOUS
  <2> QED BY <1>0, <2>1, StaysMoves DEF MigrateCommit, Goto, Moves, NoDraft, Drafts
<1>6. Given("migrated", package[i], request[i]) /\ granted' \subseteq Logins \X Groups
  BY <1>0, StaysMoves DEF Typed
<1>7. /\ Typed' /\ pc'[i] = "migrated"
      /\ \A j \in Installers \ {i} : pc'[j] = pc[j]
  BY <1>0, <1>3, <1>5, <1>6, MovesTyped
<1>8. \A j \in Installers : pc'[j] \notin Migrating
  BY <1>0, <1>7 DEF IndInv, MigrationExclusive
<1>9. DraftsInv' /\ MigrationExclusive'
  BY <1>8 DEF DraftsInv, MigrationExclusive
<1> QED BY <1>4, <1>7, <1>9 DEF IndInv

-----------------------------------------------------------------------------
(* The theorems on migrations *)

LEMMA StepGood ==
    ASSUME IndInv, [Next]_installVars
    PROVE  IndInv'
<1>0. granted \subseteq Logins \X Groups
  BY DEF IndInv, Typed
<1>1. CASE Next
  <2>1. ASSUME NEW i \in Installers, MigrateRefused(i) \/ GrantRefused(i) \/ Crash(i)
        PROVE  IndInv'
    BY <1>0, <2>1, LeaveGood DEF MigrateRefused, GrantRefused, Crash
  <2> QED BY <1>1, <2>1, InstallGood, MigrateBeginGood, RunMigrationGood, InsertAppliedGood,
             MigrateCommitGood, GrantCheckGood, GrantGood DEF Next
<1>2. CASE UNCHANGED installVars
  BY <1>2 DEF installVars, IndInv, Typed, RegistryTrue, DraftsInv, MigrationExclusive
<1> QED BY <1>1, <1>2

(* The invariant of the migrations holds in every state of apply_migrations *)
(* and install_schema, whoever installs, crashes or has another package.    *)
THEOREM InstallInductive == Spec => []IndInv
<1>1. Init => IndInv
  BY InitGood
<1>2. IndInv /\ [Next]_installVars => IndInv'
  BY StepGood
<1> QED BY <1>1, <1>2, PTL DEF Spec

(* A transaction of apply_migrations has seen and added only what is the   *)
(* beginning of its own package.                                           *)
THEOREM InstallTypeCorrect == Spec => []TypeOK
<1>1. IndInv => TypeOK
  <2>1. SUFFICES ASSUME IndInv PROVE TypeOK
    OBVIOUS
  <2>2. \A i \in Installers : pc[i] \in {"migrating", "registering"} =>
          Committed \o draft[i].registry = SubSeq(package[i], 1, Registered(i))
    BY <2>1, Seen DEF Migrating
  <2> QED BY <2>1, <2>2 DEF IndInv, Typed, TypeOK, PCs
<1> QED BY <1>1, InstallInductive, PTL

(* gah_schema_migrations registers what was run, in order, of one package, *)
(* for every number of administrators, packages and crashes.               *)
THEOREM RegistryStaysTrue == Spec => []RegistryTrue
BY InstallInductive, PTL DEF IndInv

-----------------------------------------------------------------------------
(* Memberships *)

Roles == Logins \cup Groups

(* Has over the memberships E. *)
Closed(S, E) == S \in SUBSET Roles /\ \A e \in E : e[1] \in S => e[2] \in S
HasIn(E, m, g) == \A S : m \in S /\ Closed(S, E) => g \in S

(* SafeRequest, as far as the groups go. *)
SafeIn(E, r) ==
    /\ \A g, h \in Groups : g # h => ~HasIn(E, g, h)
    /\ \A g, h \in Groups : g # h /\ r[g] # None => ~HasIn(E, r[g], h)

NewGrants(r) == {<<r[g], g>> : g \in {h \in Groups : r[h] # None}}

(* OneGroupByGrant of the grants G among the memberships E. *)
ByGrantIn(G, E) ==
    \A e \in G : \A g \in Groups \ {e[2]} :
        HasIn(E, e[1], g) => \E f \in G : f[1] # e[1] /\ f[2] = g /\ HasIn(E, e[1], f[1])

(* Each login is granted one group; neither the login nor that group is in *)
(* another one by the memberships H made by hand alone.                    *)
GrantsGood(G, H) ==
    /\ \A e, f \in G : e[1] = f[1] => e[2] = f[2]
    /\ \A e \in G : \A g \in Groups \ {e[2]} : ~HasIn(H, e[1], g) /\ ~HasIn(H, e[2], g)

LEMMA HasReads ==
    /\ \A m, g : Has(m, g) <=> HasIn(granted \cup Handmade, m, g)
    /\ OneGroupByGrant <=> ByGrantIn(granted, granted \cup Handmade)
<1>1. \A m, g : Has(m, g) <=> HasIn(granted \cup Handmade, m, g)
  BY DEF Has, HasIn, Closed, Roles
<1> QED BY <1>1 DEF OneGroupByGrant, ByGrantIn

(* Who is not in g with more memberships is not with fewer. *)
LEMMA HasFewer ==
    ASSUME NEW E, NEW H, H \subseteq E, NEW m, NEW g, ~HasIn(E, m, g)
    PROVE  ~HasIn(H, m, g)
<1>1. PICK S : m \in S /\ Closed(S, E) /\ g \notin S
  BY DEF HasIn
<1>2. Closed(S, H)
  BY <1>1 DEF Closed
<1> QED BY <1>1, <1>2 DEF HasIn

(* A member of what is in g is in g. *)
LEMMA HasNext ==
    ASSUME NEW E, NEW e \in E, NEW g, HasIn(E, e[2], g)
    PROVE  HasIn(E, e[1], g)
BY DEF HasIn, Closed

(* All that m is in, and what these are members of. *)
LEMMA HasFollows ==
    ASSUME NEW E, NEW m, NEW e \in E, HasIn(E, m, e[1])
    PROVE  HasIn(E, m, e[2])
BY DEF HasIn, Closed

(* A path to a group ends with a grant of it: without one, what e's login  *)
(* reaches and is not in g by hand is closed and does not contain g.       *)
LEMMA GoodByGrant ==
    ASSUME NEW G \in SUBSET (Logins \X Groups), NEW H \in SUBSET (Roles \X Roles), GrantsGood(G, H)
    PROVE  ByGrantIn(G, G \cup H)
<1> DEFINE E == G \cup H
<1>1. SUFFICES ASSUME NEW e \in G, NEW g \in Groups \ {e[2]}, HasIn(E, e[1], g),
                      \A f \in G : f[1] # e[1] /\ f[2] = g => ~HasIn(E, e[1], f[1])
               PROVE  FALSE
  BY DEF ByGrantIn
<1> DEFINE T == {x \in Roles : HasIn(E, e[1], x) /\ ~HasIn(H, x, g)}
<1>2. e[1] \in T
  <2>1. e[1] \in Roles /\ HasIn(E, e[1], e[1])
    BY DEF Roles, HasIn
  <2>2. ~HasIn(H, e[1], g)
    BY DEF GrantsGood
  <2> QED BY <2>1, <2>2
<1>3. g \notin T
  BY DEF HasIn
<1>4. Closed(T, E)
  <2>1. SUFFICES ASSUME NEW d \in E, d[1] \in T PROVE d[2] \in T
    BY DEF Closed
  <2>2. d[2] \in Roles /\ HasIn(E, e[1], d[2])
    BY <2>1, HasFollows DEF Roles
  <2>3. ~HasIn(H, d[2], g)
    <3>1. CASE d \in H
      BY <2>1, <3>1, HasNext
    <3>2. CASE d \in G
      <4>1. CASE d[2] # g
        BY <3>2, <4>1 DEF GrantsGood
      <4>2. CASE d[2] = g
        <5>1. d[1] = e[1]
          BY <1>1, <2>1, <3>2, <4>2
        <5> QED BY <1>1, <3>2, <4>2, <5>1 DEF GrantsGood
      <4> QED BY <4>1, <4>2
    <3> QED BY <3>1, <3>2
  <2> QED BY <2>2, <2>3
<1> HIDE DEF T
<1>5. ~HasIn(E, e[1], g)
  BY <1>2, <1>3, <1>4 DEF HasIn
<1> QED BY <1>1, <1>5

(* A membership is one. *)
LEMMA HasGranted ==
    ASSUME NEW E, NEW e \in E
    PROVE  HasIn(E, e[1], e[2])
BY DEF HasIn, Closed

(* What was checked of the request holds of what it grants. *)
LEMMA GrantKeepsGood ==
    ASSUME NEW G \in SUBSET (Logins \X Groups), NEW H, NEW r \in Requests,
           SafeIn(G \cup H, r), GrantsGood(G, H)
    PROVE  GrantsGood(G \cup NewGrants(r), H)
<1>1. ASSUME NEW e \in NewGrants(r)
      PROVE  /\ e[2] \in Groups /\ r[e[2]] = e[1] /\ e[1] # None
             /\ \A g \in Groups \ {e[2]} : ~HasIn(G \cup H, e[1], g) /\ ~HasIn(G \cup H, e[2], g)
  <2>1. PICK k \in Groups : e = <<r[k], k>> /\ r[k] # None
    BY DEF NewGrants
  <2> QED BY <2>1 DEF SafeIn
<1>2. ASSUME NEW e \in G \cup NewGrants(r), NEW g \in Groups \ {e[2]}
      PROVE  ~HasIn(H, e[1], g) /\ ~HasIn(H, e[2], g)
  <2>1. CASE e \in G
    BY <2>1 DEF GrantsGood
  <2>2. CASE e \in NewGrants(r)
    BY <1>1, <2>2, HasFewer
  <2> QED BY <2>1, <2>2
<1>3. ASSUME NEW e \in G, NEW f \in NewGrants(r), e[1] = f[1]
      PROVE  e[2] = f[2]
  <2>1. e[2] \in Groups /\ HasIn(G \cup H, f[1], e[2])
    BY <1>3, HasGranted
  <2> QED BY <1>1, <2>1
<1>4. ASSUME NEW e \in NewGrants(r), NEW f \in NewGrants(r), e[1] = f[1]
      PROVE  e[2] = f[2]
  BY <1>1, <1>4 DEF Requests
<1>5. \A e, f \in G \cup NewGrants(r) : e[1] = f[1] => e[2] = f[2]
  BY <1>3, <1>4 DEF GrantsGood
<1> QED BY <1>2, <1>5 DEF GrantsGood

-----------------------------------------------------------------------------
(* The theorem on roles *)

(* What was checked is true until it is granted. *)
RolesInv ==
    /\ Typed
    /\ GrantsGood(granted, Handmade)
    /\ \A i \in Installers : pc[i] = "granting" => SafeIn(granted \cup Handmade, request[i])
    /\ \A i, j \in Installers : pc[i] = "granting" /\ pc[j] = "granting" => i = j

LEMMA InitRoles ==
    ASSUME Init
    PROVE  RolesInv
<1>1. Typed
  BY InitGood DEF IndInv
<1> QED BY <1>1 DEF RolesInv, Init, GrantsGood

(* A step that grants nothing, and checks under the lock. *)
LEMMA UngrantedRoles ==
    ASSUME RolesInv, Typed', granted' = granted, NEW i \in Installers,
           \A j \in Installers \ {i} : pc'[j] = pc[j] /\ request'[j] = request[j],
           pc'[i] = "granting" => /\ \A j \in Installers : pc[j] # "granting"
                                  /\ SafeIn(granted \cup Handmade, request'[i])
    PROVE  RolesInv'
<1>1. GrantsGood(granted', Handmade)
  BY DEF RolesInv
<1>2. ASSUME NEW j \in Installers, pc'[j] = "granting"
      PROVE  SafeIn(granted' \cup Handmade, request'[j])
  <2>1. CASE j = i
    BY <1>2, <2>1
  <2>2. CASE j # i
    <3>1. pc[j] = "granting" /\ request'[j] = request[j]
      BY <1>2, <2>2
    <3> QED BY <3>1 DEF RolesInv
  <2> QED BY <2>1, <2>2
<1>3. \A j, k \in Installers : pc'[j] = "granting" /\ pc'[k] = "granting" => j = k
  BY DEF RolesInv
<1> QED BY <1>1, <1>2, <1>3 DEF RolesInv

LEMMA GrantRoles ==
    ASSUME RolesInv, Typed', NEW i \in Installers, Grant(i)
    PROVE  RolesInv'
<1>0. Typed /\ pc[i] = "granting"
  BY DEF RolesInv, Grant
<1>1. PICK r \in Requests : r = request[i]
  BY <1>0 DEF Typed
<1>2. granted' = granted \cup NewGrants(r)
  BY <1>1 DEF Grant, NewGrants
<1>3. SafeIn(granted \cup Handmade, r) /\ GrantsGood(granted, Handmade)
  BY <1>0, <1>1 DEF RolesInv
<1>4. granted \in SUBSET (Logins \X Groups)
  BY <1>0 DEF Typed
<1>5. GrantsGood(granted', Handmade)
  BY <1>2, <1>3, <1>4, GrantKeepsGood
<1>7. \A j \in Installers : pc'[j] # "granting"
  BY <1>0 DEF RolesInv, Typed, Grant, Leave, Goto
<1> QED BY <1>5, <1>7 DEF RolesInv

LEMMA GrantCheckRoles ==
    ASSUME RolesInv, Typed', NEW i \in Installers, GrantCheck(i)
    PROVE  RolesInv'
<1>1. /\ granted' = granted /\ request' = request
      /\ \A j \in Installers \ {i} : pc'[j] = pc[j]
      /\ \A j \in Installers : pc[j] # "granting"
  BY DEF GrantCheck, Goto, MembershipsFree, RolesInv, Typed
<1>2. SafeIn(granted \cup Handmade, request[i])
  BY HasReads DEF GrantCheck, SafeRequest, SafeIn
<1> QED BY <1>1, <1>2, UngrantedRoles

LEMMA OtherRoles ==
    ASSUME RolesInv, Typed', NEW i \in Installers,
           \/ \E p \in Packages, r \in Requests : Install(i, p, r)
           \/ MigrateBegin(i) \/ MigrateRefused(i)
           \/ RunMigration(i) \/ InsertApplied(i) \/ MigrateCommit(i)
           \/ GrantRefused(i) \/ Crash(i)
    PROVE  RolesInv'
<1>0. pc \in [Installers -> PCs] /\ request \in [Installers -> Requests \cup {None}]
  BY DEF RolesInv, Typed
<1>1. PICK l : l # "granting" /\ pc' = [pc EXCEPT ![i] = l] /\ granted' = granted
               /\ (request' = request \/ \E r : request' = [request EXCEPT ![i] = r])
  <2>1. CASE \E p \in Packages, r \in Requests : Install(i, p, r)
    <3>1. PICK p \in Packages, r \in Requests : Install(i, p, r)
      BY <2>1
    <3> QED BY <3>1 DEF Install, Goto
  <2>2. CASE MigrateBegin(i) \/ InsertApplied(i)
    BY <2>2 DEF MigrateBegin, InsertApplied, Goto
  <2>3. CASE RunMigration(i)
    BY <2>3 DEF RunMigration, Goto
  <2>4. CASE MigrateCommit(i)
    BY <2>4 DEF MigrateCommit, Goto
  <2>5. CASE MigrateRefused(i) \/ GrantRefused(i) \/ Crash(i)
    BY <2>5 DEF MigrateRefused, GrantRefused, Crash, Leave, Goto
  <2> QED BY <2>1, <2>2, <2>3, <2>4, <2>5
<1>2. /\ pc'[i] = l
      /\ \A j \in Installers \ {i} : pc'[j] = pc[j] /\ request'[j] = request[j]
  BY <1>0, <1>1
<1> QED BY <1>1, <1>2, UngrantedRoles

(* install_schema grants no login two service groups, and a login comes    *)
(* into a second one only as a member of another login that was granted    *)
(* it, for every number of installers, whatever requests they have and     *)
(* whatever memberships were made by hand.                                 *)
THEOREM OneGroupByEachGrant == Spec => []OneGroupByGrant
<1>1. Init => RolesInv
  BY InitRoles
<1>2. RolesInv /\ Typed' /\ [Next]_installVars => RolesInv'
  <2>1. SUFFICES ASSUME RolesInv, Typed', [Next]_installVars PROVE RolesInv'
    OBVIOUS
  <2>2. CASE Next
    BY <2>1, <2>2, GrantRoles, GrantCheckRoles, OtherRoles DEF Next
  <2>3. CASE UNCHANGED installVars
    BY <2>1, <2>3 DEF installVars, RolesInv, Typed
  <2> QED BY <2>1, <2>2, <2>3
<1>3. IndInv => Typed
  BY DEF IndInv
<1>4. RolesInv => OneGroupByGrant
  <2>1. SUFFICES ASSUME RolesInv PROVE OneGroupByGrant
    OBVIOUS
  <2>2. /\ granted \in SUBSET (Logins \X Groups) /\ GrantsGood(granted, Handmade)
        /\ Handmade \in SUBSET (Roles \X Roles)
    BY <2>1, RoleAssumption DEF RolesInv, Typed, Roles
  <2> QED BY <2>2, GoodByGrant, HasReads
<1> QED BY <1>1, <1>2, <1>3, <1>4, InstallInductive, PTL DEF Spec

===============================================================================
