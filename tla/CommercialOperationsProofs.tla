--------------------- MODULE CommercialOperationsProofs ---------------------
(***************************************************************************)
(* Theorems about CommercialOperations, for every value of its constants:  *)
(* no operation is lost from the master without a request that says so,    *)
(* and an import of the CRM that ran alone leaves the last export.         *)
(***************************************************************************)
EXTENDS CommercialOperations, FiniteSetTheorems, SequenceTheorems, TLAPS

-----------------------------------------------------------------------------
(* The versions of a deal.                                                 *)

\* A version younger than all others of its deal is the latest, and the latest of no other deal
\* changes.
LEMMA LatestOfAppended ==
  ASSUME NEW table, NEW after, NEW new, NEW deal, NEW row, NEW stamp \in Int,
         after = table \cup {new}, new.deal = deal, new.row = row, new.stamp = stamp,
         \A v \in table : v.stamp \in Int /\ v.stamp <= stamp,
         \A v \in table : v.deal = deal /\ v.stamp = stamp => v.row = row
  PROVE  /\ Latest(after, deal) = row
         /\ \A d : d # deal => Latest(after, d) = Latest(table, d)
<1>1. new.deal = deal /\ new.row = row /\ new.stamp = stamp
  OBVIOUS
<1>2. \A d : d # deal => Versions(after, d) = Versions(table, d)
  BY <1>1 DEF Versions
<1>3. new \in Versions(after, deal) /\ \A w \in Versions(after, deal) : w.stamp <= new.stamp
  BY <1>1 DEF Versions
<1>4. ASSUME NEW v \in Versions(after, deal), \A w \in Versions(after, deal) : w.stamp <= v.stamp
      PROVE  v.row = row
  <2>1. stamp <= v.stamp
    BY <1>1, <1>3, <1>4
  <2>2. CASE v = new
    BY <2>2, <1>1
  <2>3. CASE v \in table
    BY <2>1, <2>3 DEF Versions
  <2> QED BY <2>2, <2>3 DEF Versions
<1>5. Latest(after, deal) = row
  <2>1. Versions(after, deal) # {}
    BY <1>3
  <2> DEFINE vs == Versions(after, deal)
             last == CHOOSE v \in vs : \A w \in vs : w.stamp <= v.stamp
  <2>2. Latest(after, deal) = last.row
    BY <2>1 DEF Latest
  <2>3. last \in vs /\ \A w \in vs : w.stamp <= last.stamp
    <3> HIDE DEF vs
    <3>1. new \in vs /\ \A w \in vs : w.stamp <= new.stamp
      BY <1>3 DEF vs
    <3> QED BY <3>1
  <2>4. \A v \in vs : (\A w \in vs : w.stamp <= v.stamp) => v.row = row
    BY <1>4
  <2> HIDE DEF last, vs
  <2> QED BY <2>2, <2>3, <2>4
<1>6. ASSUME NEW d, d # deal
      PROVE  Latest(after, d) = Latest(table, d)
  <2>1. Versions(after, d) = Versions(table, d)
    BY <1>2, <1>6
  <2> DEFINE LatestOf(vs) ==
               IF vs = {} THEN None ELSE (CHOOSE v \in vs : \A w \in vs : w.stamp <= v.stamp).row
  <2>2. \A any : Latest(any, d) = LatestOf(Versions(any, d))
    BY DEF Latest
  <2> HIDE DEF LatestOf
  <2> QED BY <2>1, <2>2
<1> QED BY <1>5, <1>6

\* The table holds of each deal of the first k files, but those in D, what the last of these files
\* that names it says.
Held(table, files, k, D) ==
  \A d \in (UNION {DOMAIN files[i] : i \in 1..k}) \ D :
    \E i \in 1..k : /\ d \in DOMAIN files[i] /\ \A j \in (i + 1)..k : d \notin DOMAIN files[j]
                    /\ Latest(table, d) = files[i][d]

LEMMA HeldOneMore ==
  ASSUME NEW table, NEW files, NEW k \in Nat, Held(table, files, k, DOMAIN files[k + 1]),
         \A d \in DOMAIN files[k + 1] : Latest(table, d) = files[k + 1][d]
  PROVE  Held(table, files, k + 1, {})
<1> SUFFICES ASSUME NEW d \in UNION {DOMAIN files[i] : i \in 1..(k + 1)}
             PROVE  \E i \in 1..(k + 1) :
                      /\ d \in DOMAIN files[i]
                      /\ \A j \in (i + 1)..(k + 1) : d \notin DOMAIN files[j]
                      /\ Latest(table, d) = files[i][d]
  BY DEF Held
<1>1. CASE d \in DOMAIN files[k + 1]
  BY <1>1
<1>2. CASE d \notin DOMAIN files[k + 1]
  <2>1. d \in (UNION {DOMAIN files[i] : i \in 1..k}) \ DOMAIN files[k + 1]
    <3>1. PICK i \in 1..(k + 1) : d \in DOMAIN files[i]
      OBVIOUS
    <3>2. i # k + 1
      BY <1>2, <3>1
    <3>3. i \in 1..k
      BY <3>2
    <3> QED BY <1>2, <3>1, <3>3
  <2>2. PICK i \in 1..k :
          /\ d \in DOMAIN files[i] /\ \A j \in (i + 1)..k : d \notin DOMAIN files[j]
          /\ Latest(table, d) = files[i][d]
    BY <2>1 DEF Held
  <2>3. \A j \in (i + 1)..(k + 1) : d \notin DOMAIN files[j]
    BY <1>2, <2>2
  <2> QED BY <2>2, <2>3
<1> QED BY <1>1, <1>2

LEMMA HeldIsLast ==
  ASSUME NEW table, NEW X, NEW files \in Seq(X), Held(table, files, Len(files), {}),
         NEW d \in UNION {DOMAIN files[i] : i \in DOMAIN files}
  PROVE  Latest(table, d) = LastExport(files, d)
<1> DEFINE S == {i \in DOMAIN files : d \in DOMAIN files[i]}
<1>1. DOMAIN files = 1..Len(files) /\ Len(files) \in Nat
  OBVIOUS
<1>2. PICK i \in 1..Len(files) :
        /\ d \in DOMAIN files[i] /\ \A j \in (i + 1)..Len(files) : d \notin DOMAIN files[j]
        /\ Latest(table, d) = files[i][d]
  BY <1>1 DEF Held
<1>3. i \in S /\ \A j \in S : j <= i
  BY <1>1, <1>2
<1>4. Max(S) = i
  BY <1>1, <1>3 DEF Max
<1> QED BY <1>2, <1>4 DEF LastExport

-----------------------------------------------------------------------------
(* The inductive invariant.                                                *)

Aliasing == {"stores", "storeAliases", "sellers", "sellerAliases"}
Mastering == {"stamp", "upsert", "delete", "validate"}
Refreshing == Aliasing \cup {"canonical", "crmMatches", "crmAliases", "bridge"} \cup Mastering
PlacesOf(kind) == CASE kind = "forum"         -> {"upload"} \cup Refreshing
                    [] kind = "crm"           -> {"compare", "append"} \cup Refreshing
                    [] kind = "canonicalizer" -> Aliasing \cup {"canonical"}
                    [] kind = "bridge"        -> Refreshing
                    [] kind = "master"        -> Mastering

Shaped(x) == x = [at |-> x.at, job |-> x.job, files |-> x.files, todo |-> x.todo, id |-> x.id,
                  stamp |-> x.stamp, again |-> x.again, alone |-> x.alone]
RequestOK(x) ==
  /\ Shaped(x)
  /\ x.at \in {"idle", "done", "failed"} \/ (x.job \in Jobs /\ x.at \in PlacesOf(x.job.kind))
  /\ x.stamp \in Nat
  /\ x.at = "upload" => x.files \in Seq(FilesOf("forum")) \ {<<>>}
  /\ x.at \in {"compare", "append"} => x.files \in Seq(FilesOf("crm")) \ {<<>>}
  /\ x.at = "append" => x.todo \subseteq DOMAIN Head(x.files)
  /\ x.at = "storeAliases" => \A e \in x.todo : e.of \in OwnStores
  /\ x.at \in {"sellerAliases", "crmAliases"} => \A e \in x.todo : e.of \in People \cup {None}

BridgeRows == [deal : Deals \cup {None}, status : {"MATCHED", "AMBIGUOUS", "UNMATCHED"}]
AliasesOK == /\ aliases = [stores |-> aliases.stores, sellers |-> aliases.sellers]
             /\ \A a \in aliases.stores : a.of \in OwnStores
             /\ \A a \in aliases.sellers : a.of \in People \cup {None}
RequestsOK == /\ DOMAIN requests = Requests
              /\ \A r \in Requests : RequestOK(requests[r]) /\ requests[r].stamp <= clock
TablesOK ==
  /\ clock \in Nat
  /\ forum \in [Ops -> Quotes \cup {None}]
  /\ canonical \in [Ops -> CanonicalRows \cup {None}]
  /\ bridge \in [Ops -> BridgeRows \cup {None}]
  /\ \A v \in crm : v.deal \in Deals /\ v.stamp \in Int /\ v.stamp <= clock

\* A row of the master is of an operation that is canonical, under its number, or of none; what
\* is bridged is canonical.
KeyOK(k) == \/ \E o \in Ops : k = <<"FORUM", o>> /\ canonical[o] # None /\ master[k].row.op = o
            \/ \E d \in Deals : k = <<"CRM", d>> /\ master[k].row.op = None
MasterOK == \A k \in DOMAIN master :
              KeyOK(k) /\ master[k].stamp \in Nat /\ master[k].stamp <= clock
BridgedIsCanonical == \A o \in Ops : bridge[o] # None => canonical[o] # None

\* An operation that is bridged and not in the master waits for a request, or for one that failed.
ErasureIsPending ==
  \/ \A o \in Ops : bridge[o] # None => <<"FORUM", o>> \in DOMAIN master
  \/ \E r \in Requests : requests[r].at \in {"bridge", "failed"} \cup Mastering

\* The stamps of a master before its older rows are deleted.
Stamped(r) ==
  \A k \in DOMAIN master :
    /\ master[k].stamp <= requests[r].stamp
    /\ master[k].stamp = requests[r].stamp => k \in DOMAIN SourceNow /\ master[k].row = SourceNow[k]
Upserted(r) ==
  \A k \in DOMAIN SourceNow : k \in DOMAIN master /\ master[k].stamp = requests[r].stamp

\* What a request knows of the tables as long as no other has written beside it.
Exact == {"crmMatches", "bridge"} \cup Mastering
ExactSoFar(r) ==
  requests[r].alone =>
    /\ requests[r].at \in Exact /\ requests[r].job.kind # "master" => CanonicalIsExact
    /\ requests[r].at \in Mastering /\ requests[r].job.kind # "master" => BridgeIsExact
    /\ requests[r].at \in {"upsert", "delete"} => Stamped(r)
    /\ requests[r].at = "delete" => Upserted(r)
    /\ requests[r].at = "validate" => MasterIsExact

\* The files left are those of the job after the first k.
LeftAfter(files, all, k) ==
  Len(all) = k + Len(files) /\ \A i \in 1..Len(files) : files[i] = all[k + i]
HeldSoFar(r) ==
  LET files == requests[r].files
      all == requests[r].job.files
  IN requests[r].alone =>
       /\ requests[r].at = "compare" =>
            \E k \in Nat : LeftAfter(files, all, k) /\ Held(crm, all, k, {})
       /\ requests[r].at = "append" =>
            /\ \E k \in Nat : LeftAfter(files, all, k) /\ Held(crm, all, k, DOMAIN Head(files))
            /\ \A d \in DOMAIN Head(files) \ requests[r].todo : Latest(crm, d) = Head(files)[d]
            /\ \A v \in crm :
                 /\ v.stamp <= requests[r].stamp
                 /\ v.stamp = requests[r].stamp
                      => v.deal \in DOMAIN Head(files) /\ v.row = Head(files)[v.deal]
       /\ requests[r].at \in Refreshing /\ requests[r].job.kind = "crm"
            => Held(crm, all, Len(all), {})

TypeOK == TablesOK /\ AliasesOK /\ RequestsOK
MasterInv == TypeOK /\ MasterOK /\ BridgedIsCanonical /\ ErasureIsPending
AloneInv == \A r \in Requests : ExactSoFar(r) /\ HeldSoFar(r)

-----------------------------------------------------------------------------
(* What a step does to the requests.                                       *)

LEMMA Altered ==
  ASSUME NEW x, Shaped(x), NEW at, NEW job, NEW todo, NEW files, NEW id, NEW stamp, NEW again,
         NEW alone
  PROVE  /\ Shaped([x EXCEPT !.at = at])
         /\ Shaped([x EXCEPT !.job = job])
         /\ Shaped([x EXCEPT !.files = files])
         /\ Shaped([x EXCEPT !.todo = todo])
         /\ Shaped([x EXCEPT !.id = id])
         /\ Shaped([x EXCEPT !.stamp = stamp])
         /\ Shaped([x EXCEPT !.again = again])
         /\ Shaped([x EXCEPT !.alone = alone])
<1>1. Shaped([x EXCEPT !.at = at])
  BY DEF Shaped
<1>2. Shaped([x EXCEPT !.files = files])
  BY DEF Shaped
<1>3. Shaped([x EXCEPT !.todo = todo])
  BY DEF Shaped
<1>4. Shaped([x EXCEPT !.id = id])
  BY DEF Shaped
<1>5. Shaped([x EXCEPT !.stamp = stamp])
  BY DEF Shaped
<1>6. Shaped([x EXCEPT !.again = again])
  BY DEF Shaped
<1>7. Shaped([x EXCEPT !.alone = alone])
  BY DEF Shaped
<1>8. Shaped([x EXCEPT !.job = job])
  BY DEF Shaped
<1> QED BY <1>1, <1>2, <1>3, <1>4, <1>5, <1>6, <1>7, <1>8

\* Of a request that does not act: while its other writes go on, it is alone no more.
Beside(q) ==
  \/ requests'[q] = requests[q] /\ (UNCHANGED tables \/ ~Running(q))
  \/ Running(q) /\ requests'[q] = [requests[q] EXCEPT !.alone = FALSE]
Moved(r, rec) == /\ DOMAIN requests' = Requests /\ requests'[r] = rec
                 /\ \A q \in Requests \ {r} : Beside(q)

LEMMA Moves ==
  ASSUME RequestsOK, NEW r \in Requests, NEW rec
  PROVE  /\ Writing(r, rec) => Moved(r, rec)
         /\ Continues(r, rec) /\ UNCHANGED tables => Moved(r, rec)
<1>1. ASSUME Writing(r, rec)
      PROVE  Moved(r, rec)
  BY <1>1 DEF Writing, Moved, Beside
<1>2. ASSUME Continues(r, rec), UNCHANGED tables
      PROVE  Moved(r, rec)
  BY <1>2 DEF Continues, Moved, Beside, RequestsOK
<1> QED BY <1>1, <1>2

-----------------------------------------------------------------------------
(* The values the tables are filled with.                                  *)

LEMMA TheOnlyOneOf ==
  ASSUME NEW S, NEW values \in SUBSET S
  PROVE  TheOnly(values) \in S \cup {None}
<1>1. CASE Cardinality(values) = 1
  <2>1. values # {}
    BY <1>1, FS_EmptySet
  <2>2. (CHOOSE v \in values : TRUE) \in values
    BY <2>1
  <2> QED BY <1>1, <2>2 DEF TheOnly
<1>2. CASE Cardinality(values) # 1
  BY <1>2 DEF TheOnly
<1> QED BY <1>1, <1>2

LEMMA AliasIsKnown ==
  ASSUME NEW table, NEW S, NEW name, \A a \in table : a.of \in S
  PROVE  AliasOf(name, table) \in S \cup {None}
<1> DEFINE found == {a.of : a \in Named(name, table)}
<1>1. found \in SUBSET S
  BY DEF Named
<1> HIDE DEF found
<1>2. TheOnly(found) \in S \cup {None}
  BY <1>1, TheOnlyOneOf
<1> QED BY <1>2 DEF AliasOf, found

LEMMA CanonicalIsRow ==
  ASSUME TypeOK, NEW o \in Ops, forum[o] # None
  PROVE  Canonical(forum[o], aliases.stores, aliases.sellers) \in CanonicalRows
<1>1. forum[o] \in Quotes
  BY DEF TypeOK, TablesOK
<1>2. AliasOf(forum[o].store, aliases.stores) \in OwnStores \cup {None}
  BY AliasIsKnown DEF TypeOK, AliasesOK
<1>3. AliasOf(forum[o].seller, aliases.sellers) \in People \cup {None}
  <2>1. \A a \in aliases.sellers : a.of \in People \cup {None}
    BY DEF TypeOK, AliasesOK
  <2> QED BY <2>1, AliasIsKnown
<1> QED BY <1>1, <1>2, <1>3 DEF Canonical, CanonicalRows

LEMMA DealsAreKnown ==
  ASSUME TablesOK, NEW f
  PROVE  /\ DealsOf(f, crm) \in SUBSET Deals
         /\ BridgeRow(f, crm) \in BridgeRows
<1>1. DealsOf(f, crm) \in SUBSET Deals
  BY DEF TablesOK, DealsOf
<1>2. TheOnly(DealsOf(f, crm)) \in Deals \cup {None}
  BY <1>1, TheOnlyOneOf
<1> QED BY <1>1, <1>2 DEF BridgeRow, BridgeRows

LEMMA SignatureNamesPeople ==
  ASSUME NEW stores, NEW sellers, NEW e \in BySignature(forum, stores, sellers)
  PROVE  e.of \in People \cup {None}
<1>1. PICK n, m : e = [name |-> n, of |-> TheOnly(SameSignature(n, m, sellers))]
  BY DEF BySignature
<1>2. SameSignature(n, m, sellers) \in SUBSET People
  BY DEF SameSignature
<1>3. TheOnly(SameSignature(n, m, sellers)) \in People \cup {None}
  BY <1>2, TheOnlyOneOf
<1> QED BY <1>1, <1>3

LEMMA AgreementNamesPeople ==
  ASSUME NEW sellers, NEW e \in Agreed(forum, canonical, crm, sellers)
  PROVE  e.of \in People \cup {None}
<1>1. PICK S \in SUBSET People : e.of = TheOnly(S)
  <2> DEFINE Deal(o) == TheOnly(DealsOf(canonical[o], crm))
             Possible(o) == Containing(Latest(crm, Deal(o)).seller, canonical[o].store,
                                       canonical[o].day, sellers)
             proven == {o \in Ops : /\ canonical[o] # None /\ Deal(o) # None
                                    /\ Cardinality(Possible(o)) = 1}
             Proving(n) == {o \in proven : forum[o].seller = n}
             Persons(n) == UNION {Possible(o) : o \in Proving(n)}
  <2>1. \A o : Possible(o) \in SUBSET People
    BY DEF Containing
  <2>2. \A n : Persons(n) \in SUBSET People
    <3> HIDE DEF Possible, proven
    <3> QED BY <2>1
  <2>3. \E n : e = [name |-> n, of |-> TheOnly(Persons(n))]
    BY DEF Agreed
  <2> HIDE DEF Persons
  <2> QED BY <2>2, <2>3
<1> QED BY <1>1, TheOnlyOneOf

-----------------------------------------------------------------------------
(* The types of every step.                                                *)

LEMMA WhichKinds ==
  ASSUME NEW kind \in Kinds, NEW p
  PROVE  /\ p \in Aliasing \cup {"canonical"} => (p \in PlacesOf(kind) <=> kind # "master")
         /\ p \in {"crmMatches", "crmAliases", "bridge"}
              => (p \in PlacesOf(kind) <=> kind \notin {"master", "canonicalizer"})
         /\ p \in Mastering => (p \in PlacesOf(kind) <=> kind # "canonicalizer")
         /\ p = "upload" => (p \in PlacesOf(kind) <=> kind = "forum")
         /\ p \in {"compare", "append"} => (p \in PlacesOf(kind) <=> kind = "crm")
<1> USE DEF Aliasing, Mastering, Refreshing
<1>1. CASE kind = "forum"
  BY <1>1 DEF PlacesOf
<1>2. CASE kind = "crm"
  BY <1>2 DEF PlacesOf
<1>3. CASE kind = "canonicalizer"
  BY <1>3 DEF PlacesOf
<1>4. CASE kind = "bridge"
  BY <1>4 DEF PlacesOf
<1>5. CASE kind = "master"
  BY <1>5 DEF PlacesOf
<1> QED BY <1>1, <1>2, <1>3, <1>4, <1>5 DEF Kinds

Plain == {"stores", "sellers", "canonical", "crmMatches", "bridge"} \cup Mastering
Active(x) == x.at \notin {"idle", "done", "failed"}

\* Where a request may go from a place, its record is well formed there.
LEMMA GoesOn ==
  ASSUME NEW x, RequestOK(x), Active(x), NEW p \in Plain, p \in PlacesOf(x.job.kind)
  PROVE  RequestOK([x EXCEPT !.at = p])
<1>1. Shaped([x EXCEPT !.at = p])
  BY Altered DEF RequestOK
<1>2. "at" \in DOMAIN x
  BY DEF RequestOK, Shaped
<1>3. p \notin {"upload", "compare", "append", "storeAliases", "sellerAliases", "crmAliases"}
  BY DEF Plain, Mastering
<1> DEFINE y == [x EXCEPT !.at = p]
<1>4. y.at = p /\ y.job = x.job /\ y.stamp = x.stamp
  BY <1>2
<1> HIDE DEF y
<1>5. Shaped(y)
  BY <1>1 DEF y
<1>6. RequestOK(y)
  BY <1>3, <1>4, <1>5 DEF RequestOK, Active
<1> QED BY <1>6 DEF y

LEMMA EndsWell ==
  ASSUME NEW p \in {"done", "failed"}
  PROVE  RequestOK(Over(p)) /\ Over(p).stamp = 0 /\ Over(p).at = p
<1>1. Shaped(Idle)
  BY DEF Shaped, Idle
<1>2. Shaped(Over(p))
  BY <1>1, Altered DEF Over
<1>3. Over(p).at = p /\ Over(p).stamp = 0
  BY DEF Over, Idle
<1> QED BY <1>2, <1>3 DEF RequestOK

LEMMA DisturbedIsOK ==
  ASSUME NEW x, RequestOK(x)
  PROVE  LET y == [x EXCEPT !.alone = FALSE]
         IN RequestOK(y) /\ y.stamp = x.stamp /\ y.at = x.at /\ ~y.alone
<1> DEFINE y == [x EXCEPT !.alone = FALSE]
<1>1. Shaped(y)
  BY Altered DEF RequestOK
<1>2. "alone" \in DOMAIN x
  BY DEF RequestOK, Shaped
<1>3. /\ y.at = x.at /\ y.job = x.job /\ y.stamp = x.stamp /\ y.files = x.files /\ y.todo = x.todo
      /\ ~y.alone
  BY <1>2
<1> HIDE DEF y
<1>4. RequestOK(y)
  BY <1>1, <1>3 DEF RequestOK
<1> QED BY <1>3, <1>4 DEF y

LEMMA RequestsStayOK ==
  ASSUME TypeOK, NEW r \in Requests, NEW rec, Moved(r, rec), RequestOK(rec),
         clock' \in Nat, clock <= clock', rec.stamp <= clock'
  PROVE  RequestsOK'
<1>1. DOMAIN requests' = Requests
  BY DEF Moved
<1>2. ASSUME NEW q \in Requests
      PROVE  RequestOK(requests'[q]) /\ requests'[q].stamp <= clock'
  <2>1. CASE q = r
    BY <2>1 DEF Moved
  <2>2. CASE q # r
    <3>1. Beside(q)
      BY <2>2 DEF Moved
    <3>2. RequestOK(requests[q]) /\ requests[q].stamp <= clock /\ clock \in Nat
      BY DEF TypeOK, RequestsOK, TablesOK
    <3>3. requests[q].stamp \in Nat
      BY <3>2 DEF RequestOK
    <3>4. CASE requests'[q] = requests[q]
      BY <3>2, <3>3, <3>4
    <3>5. CASE requests'[q] = [requests[q] EXCEPT !.alone = FALSE]
      BY <3>2, <3>3, <3>5, DisturbedIsOK
    <3> QED BY <3>1, <3>4, <3>5 DEF Beside
  <2> QED BY <2>1, <2>2
<1> QED BY <1>1, <1>2 DEF RequestsOK

\* An import that is over with its files goes on to the bridge or succeeds.
LEMMA ImportGoesOn ==
  ASSUME TypeOK, NEW r \in Requests, requests[r].at \in {"upload", "compare", "append"}
  PROVE  RequestOK(AfterImport(r)) /\ AfterImport(r).stamp <= clock
<1>1. RequestOK(requests[r]) /\ requests[r].stamp <= clock /\ clock \in Nat
  BY DEF TypeOK, RequestsOK, TablesOK
<1>2. Active(requests[r]) /\ requests[r].job \in Jobs /\ requests[r].job.kind \in Kinds
  BY <1>1, JobsAssumption DEF RequestOK, Active
<1>3. requests[r].job.kind # "master"
  BY <1>1, <1>2, WhichKinds DEF RequestOK
<1>4. CASE requests[r].job.refresh
  <2>1. "stores" \in PlacesOf(requests[r].job.kind)
    BY <1>2, <1>3, WhichKinds DEF Aliasing
  <2>2. RequestOK(To(r, "stores"))
    BY <1>1, <1>2, <2>1, GoesOn DEF To, Plain
  <2>3. To(r, "stores").stamp = requests[r].stamp
    BY <1>1 DEF To, RequestOK, Shaped
  <2> QED BY <1>1, <1>4, <2>2, <2>3 DEF AfterImport
<1>5. CASE ~requests[r].job.refresh
  BY <1>1, <1>5, EndsWell DEF AfterImport
<1> QED BY <1>4, <1>5

LEMMA JobsBegin ==
  ASSUME NEW job \in Jobs
  PROVE  LET x == [Idle EXCEPT !.at = First(job), !.job = job, !.files = job.files]
         IN /\ RequestOK(x) /\ x.stamp = 0 /\ x.alone /\ x.job = job /\ x.files = job.files
            /\ x.at = First(job) /\ x.at \in {"upload", "compare", "stores", "stamp"}
            /\ x.at = "upload" <=> job.kind = "forum"
            /\ x.at = "compare" <=> job.kind = "crm"
            /\ x.at = "stamp" <=> job.kind = "master"
<1> DEFINE x == [Idle EXCEPT !.at = First(job), !.job = job, !.files = job.files]
<1>1. /\ x.at = First(job) /\ x.job = job /\ x.files = job.files
      /\ x.stamp = 0 /\ x.alone /\ x.todo = {}
  BY DEF Idle
<1>2. Shaped(x)
  <2>1. Shaped(Idle)
    BY DEF Shaped, Idle
  <2>2. Shaped([Idle EXCEPT !.at = First(job)])
    BY <2>1, Altered
  <2>3. Shaped([Idle EXCEPT !.at = First(job), !.job = job])
    BY <2>2, Altered
  <2> QED BY <2>3, Altered
<1>3. job.kind \in Kinds
  BY JobsAssumption
<1>4. /\ First(job) \in {"upload", "compare", "stores", "stamp"}
      /\ First(job) = "upload" <=> job.kind = "forum"
      /\ First(job) = "compare" <=> job.kind = "crm"
      /\ First(job) = "stores" <=> job.kind \in {"canonicalizer", "bridge"}
      /\ First(job) = "stamp" <=> job.kind = "master"
  BY <1>3 DEF First, Kinds
<1>5. First(job) \in PlacesOf(job.kind)
  BY <1>3, <1>4, WhichKinds DEF Aliasing, Mastering
<1>6. job.kind \in {"forum", "crm"} => job.files \in Seq(FilesOf(job.kind)) \ {<<>>}
  BY JobsAssumption
<1> HIDE DEF x
<1>7. RequestOK(x)
  BY <1>1, <1>2, <1>4, <1>5, <1>6 DEF RequestOK
<1> QED BY <1>1, <1>4, <1>7 DEF x

\* The files that are left are exports, and the first is taken off.
LEMMA ExportGoesOn ==
  ASSUME TypeOK, NEW r \in Requests, requests[r].at \in {"compare", "append"}
  PROVE  RequestOK(NextExport(r)) /\ NextExport(r).stamp <= clock
<1>1. RequestOK(requests[r]) /\ requests[r].stamp <= clock /\ clock \in Nat
  BY DEF TypeOK, RequestsOK, TablesOK
<1>2. requests[r].job \in Jobs /\ requests[r].job.kind = "crm"
  <2>1. requests[r].job \in Jobs /\ requests[r].at \in PlacesOf(requests[r].job.kind)
    BY <1>1 DEF RequestOK
  <2> QED BY <2>1, WhichKinds, JobsAssumption
<1>3. CASE Tail(requests[r].files) # <<>>
  <2> DEFINE files == requests[r].files
             a == [requests[r] EXCEPT !.at = "compare", !.files = Tail(files)]
             b == [a EXCEPT !.todo = {}]
  <2>1. Tail(files) \in Seq(FilesOf("crm")) \ {<<>>}
    BY <1>1, <1>3 DEF RequestOK
  <2>2. Shaped([requests[r] EXCEPT !.at = "compare"])
    BY <1>1, Altered DEF RequestOK
  <2>3. Shaped(a)
    BY <2>2, Altered
  <2>4. Shaped(b)
    <3> HIDE DEF a
    <3> QED BY <2>3, Altered
  <2>5. /\ b.at = "compare" /\ b.files = Tail(files) /\ b.job = requests[r].job
        /\ b.stamp = requests[r].stamp
    BY <1>1 DEF RequestOK, Shaped
  <2>6. NextExport(r) = b
    BY <1>3 DEF NextExport
  <2>7. "compare" \in PlacesOf("crm")
    BY WhichKinds DEF Kinds
  <2> HIDE DEF a, b, files
  <2> QED BY <1>1, <1>2, <2>1, <2>4, <2>5, <2>6, <2>7 DEF RequestOK
<1>4. CASE Tail(requests[r].files) = <<>> /\ NoForum
  BY <1>1, <1>4, EndsWell DEF NextExport
<1>5. CASE Tail(requests[r].files) = <<>> /\ ~NoForum
  <2> DEFINE x == AfterImport(r)
             y == [x EXCEPT !.files = <<>>]
             z == [y EXCEPT !.todo = {}]
  <2>1. NextExport(r) = z
    BY <1>5 DEF NextExport
  <2>2. RequestOK(x) /\ x.stamp <= clock
    BY ImportGoesOn
  <2>3. x.at \in {"stores", "done"}
    BY <1>1 DEF AfterImport, To, Over, RequestOK, Shaped, Idle
  <2> HIDE DEF x
  <2>4. Shaped(y)
    BY <2>2, Altered DEF RequestOK
  <2>5. y.at = x.at /\ y.job = x.job /\ y.stamp = x.stamp
    BY <2>2 DEF RequestOK, Shaped
  <2> HIDE DEF y
  <2>6. Shaped(z)
    BY <2>4, Altered
  <2>7. z.at = y.at /\ z.job = y.job /\ z.stamp = y.stamp
    BY <2>4 DEF Shaped
  <2> HIDE DEF z
  <2> QED BY <2>1, <2>2, <2>3, <2>5, <2>6, <2>7 DEF RequestOK
<1> QED BY <1>3, <1>4, <1>5

Planned(x, at, plan, id) == [[x EXCEPT !.at = at] EXCEPT !.todo = plan, !.id = id]
Compared(x, todo, stamp) == [[x EXCEPT !.at = "append"] EXCEPT !.todo = todo, !.stamp = stamp]

\* A plan of aliases names branches for the branches and people for the sellers.
LEMMA PlanIsOK ==
  ASSUME NEW x, RequestOK(x), Active(x), NEW at, NEW plan, NEW id, at \in PlacesOf(x.job.kind),
         \/ at = "storeAliases" /\ \A e \in plan : e.of \in OwnStores
         \/ at \in {"sellerAliases", "crmAliases"} /\ \A e \in plan : e.of \in People \cup {None}
  PROVE  LET y == Planned(x, at, plan, id) IN RequestOK(y) /\ y.stamp = x.stamp /\ y.at = at
<1> DEFINE a == [x EXCEPT !.at = at]
           b == [a EXCEPT !.todo = plan]
           y == [b EXCEPT !.id = id]
<1>1. Shaped(x)
  BY DEF RequestOK
<1>2. Shaped(a)
  BY <1>1, Altered
<1>3. a.at = at /\ a.job = x.job /\ a.stamp = x.stamp
  BY <1>1 DEF Shaped
<1> HIDE DEF a
<1>4. Shaped(b)
  BY <1>2, Altered
<1>5. b.at = a.at /\ b.job = a.job /\ b.stamp = a.stamp /\ b.todo = plan
  BY <1>2 DEF Shaped
<1> HIDE DEF b
<1>6. Shaped(y)
  BY <1>4, Altered
<1>7. y.at = b.at /\ y.job = b.job /\ y.stamp = b.stamp /\ y.todo = b.todo
  BY <1>4 DEF Shaped
<1> HIDE DEF y
<1>8. RequestOK(y)
  BY <1>3, <1>5, <1>6, <1>7 DEF RequestOK, Active
<1>9. y.stamp = x.stamp /\ y.at = at
  BY <1>3, <1>5, <1>7
<1> QED BY <1>8, <1>9 DEF y, b, a, Planned

\* What is left of the files of a workbook, or of what there is to append, is less of the same.
LEMMA LessIsOK ==
  ASSUME NEW x, RequestOK(x), NEW rest, NEW todo \in SUBSET x.todo, Active(x)
  PROVE  /\ x.at = "upload" /\ rest \in Seq(FilesOf("forum")) \ {<<>>}
              => LET y == [x EXCEPT !.files = rest]
                 IN RequestOK(y) /\ y.stamp = x.stamp /\ y.at = x.at /\ y.alone = x.alone
         /\ LET y == [x EXCEPT !.todo = todo]
            IN /\ RequestOK(y) /\ y.stamp = x.stamp /\ y.at = x.at /\ y.alone = x.alone
               /\ y.files = x.files /\ y.job = x.job /\ y.todo = todo
<1>1. Shaped(x)
  BY DEF RequestOK
<1>2. ASSUME x.at = "upload", rest \in Seq(FilesOf("forum")) \ {<<>>}
      PROVE  LET y == [x EXCEPT !.files = rest]
             IN RequestOK(y) /\ y.stamp = x.stamp /\ y.at = x.at /\ y.alone = x.alone
  <2> DEFINE y == [x EXCEPT !.files = rest]
  <2>1. Shaped(y)
    BY <1>1, Altered
  <2>2. /\ y.at = x.at /\ y.job = x.job /\ y.stamp = x.stamp /\ y.files = rest
        /\ y.alone = x.alone
    BY <1>1 DEF Shaped
  <2> HIDE DEF y
  <2>3. RequestOK(y)
    BY <1>2, <2>1, <2>2 DEF RequestOK, Active
  <2> QED BY <2>2, <2>3 DEF y
<1>3. LET y == [x EXCEPT !.todo = todo]
      IN /\ RequestOK(y) /\ y.stamp = x.stamp /\ y.at = x.at /\ y.alone = x.alone
         /\ y.files = x.files /\ y.job = x.job /\ y.todo = todo
  <2> DEFINE y == [x EXCEPT !.todo = todo]
  <2>1. Shaped(y)
    BY <1>1, Altered
  <2>2. /\ y.at = x.at /\ y.job = x.job /\ y.stamp = x.stamp /\ y.files = x.files
        /\ y.todo = todo /\ y.alone = x.alone
    BY <1>1 DEF Shaped
  <2> HIDE DEF y
  <2>3. RequestOK(y)
    BY <2>1, <2>2 DEF RequestOK, Active
  <2> QED BY <2>2, <2>3 DEF y
<1> QED BY <1>2, <1>3

\* A request that has compared an export holds what changed, and the time it takes as its own.
LEMMA AppendIsOK ==
  ASSUME NEW x, RequestOK(x), x.at = "compare", NEW todo \in SUBSET DOMAIN Head(x.files),
         NEW stamp \in Nat
  PROVE  LET y == Compared(x, todo, stamp)
         IN /\ RequestOK(y) /\ y.stamp = stamp /\ y.at = "append" /\ y.alone = x.alone
            /\ y.files = x.files /\ y.job = x.job /\ y.todo = todo
<1> DEFINE a == [x EXCEPT !.at = "append"]
           b == [a EXCEPT !.todo = todo]
           y == [b EXCEPT !.stamp = stamp]
<1>1. Shaped(x)
  BY DEF RequestOK
<1>2. Shaped(a)
  BY <1>1, Altered
<1>3. a.at = "append" /\ a.job = x.job /\ a.files = x.files /\ a.alone = x.alone
  BY <1>1 DEF Shaped
<1> HIDE DEF a
<1>4. Shaped(b)
  BY <1>2, Altered
<1>5. /\ b.at = a.at /\ b.job = a.job /\ b.files = a.files /\ b.todo = todo
      /\ b.alone = a.alone
  BY <1>2 DEF Shaped
<1> HIDE DEF b
<1>6. Shaped(y)
  BY <1>4, Altered
<1>7. /\ y.at = b.at /\ y.job = b.job /\ y.stamp = stamp /\ y.todo = b.todo /\ y.files = b.files
      /\ y.alone = b.alone
  BY <1>4 DEF Shaped
<1> HIDE DEF y
<1>8. x.job \in Jobs /\ x.job.kind = "crm" /\ "append" \in PlacesOf(x.job.kind)
  <2>1. x.job \in Jobs /\ x.at \in PlacesOf(x.job.kind)
    BY DEF RequestOK
  <2> QED BY <2>1, WhichKinds, JobsAssumption
<1>9. RequestOK(y)
  BY <1>3, <1>5, <1>6, <1>7, <1>8 DEF RequestOK, Active
<1> QED BY <1>3, <1>5, <1>7, <1>9 DEF y, b, a, Compared

LEMMA StampIsOK ==
  ASSUME NEW x, RequestOK(x), x.at = "stamp", NEW stamp \in Nat
  PROVE  LET y == [[x EXCEPT !.at = "upsert"] EXCEPT !.stamp = stamp]
         IN /\ RequestOK(y) /\ y.stamp = stamp /\ y.at = "upsert" /\ y.alone = x.alone
            /\ y.job = x.job
<1> DEFINE a == [x EXCEPT !.at = "upsert"]
           y == [a EXCEPT !.stamp = stamp]
<1>1. Shaped(x)
  BY DEF RequestOK
<1>2. Shaped(a)
  BY <1>1, Altered
<1>3. a.at = "upsert" /\ a.job = x.job /\ a.alone = x.alone
  BY <1>1 DEF Shaped
<1> HIDE DEF a
<1>4. Shaped(y)
  BY <1>2, Altered
<1>5. y.at = a.at /\ y.job = a.job /\ y.stamp = stamp /\ y.alone = a.alone
  BY <1>2 DEF Shaped
<1> HIDE DEF y
<1>6. x.job \in Jobs /\ "upsert" \in PlacesOf(x.job.kind)
  <2>1. x.job \in Jobs /\ x.at \in PlacesOf(x.job.kind)
    BY DEF RequestOK
  <2> QED BY <2>1, WhichKinds, JobsAssumption DEF Mastering
<1>7. RequestOK(y)
  BY <1>3, <1>4, <1>5, <1>6 DEF RequestOK
<1> QED BY <1>3, <1>5, <1>7 DEF y, a

\* After the last alias the motor reads the tables again or goes on.
LEMMA InsertIsOK ==
  ASSUME NEW x, RequestOK(x), x.at \in {"storeAliases", "sellerAliases", "crmAliases"},
         NEW todo \in SUBSET x.todo
  PROVE  LET y == [x EXCEPT !.todo = todo, !.id = IF todo = {} THEN 0 ELSE @ + 1,
                     !.at = IF todo = {} THEN AfterAliases(@) ELSE @,
                     !.again = x.at = "crmAliases" \/ @]
         IN /\ RequestOK(y) /\ y.stamp = x.stamp /\ y.job = x.job /\ y.alone = x.alone
            /\ y.at \in {"storeAliases", "sellerAliases", "crmAliases",
                         "stores", "sellers", "canonical"}
<1> DEFINE a == [x EXCEPT !.todo = todo]
           b == [a EXCEPT !.id = IF todo = {} THEN 0 ELSE x.id + 1]
           c == [b EXCEPT !.at = IF todo = {} THEN AfterAliases(x.at) ELSE x.at]
           y == [c EXCEPT !.again = x.at = "crmAliases" \/ x.again]
           z == [x EXCEPT !.todo = todo, !.id = IF todo = {} THEN 0 ELSE @ + 1,
                   !.at = IF todo = {} THEN AfterAliases(@) ELSE @,
                   !.again = x.at = "crmAliases" \/ @]
<1>1. Shaped(x)
  BY DEF RequestOK
<1>2. z = y
  BY <1>1 DEF Shaped
<1>3. Shaped(a) /\ a.todo = todo /\ a.at = x.at /\ a.job = x.job /\ a.stamp = x.stamp
      /\ a.alone = x.alone
  BY <1>1, LessIsOK, Altered DEF Shaped
<1> HIDE DEF a
<1>4. Shaped(b)
  BY <1>3, Altered
<1>5. b.todo = todo /\ b.at = x.at /\ b.job = x.job /\ b.stamp = x.stamp /\ b.alone = x.alone
  BY <1>3 DEF Shaped
<1> HIDE DEF b
<1>6. Shaped(c)
  BY <1>4, Altered
<1>7. /\ c.todo = todo /\ c.job = x.job /\ c.stamp = x.stamp /\ c.alone = x.alone
      /\ c.at = IF todo = {} THEN AfterAliases(x.at) ELSE x.at
  BY <1>4, <1>5 DEF Shaped
<1> HIDE DEF c
<1>8. Shaped(y)
  BY <1>6, Altered
<1>9. /\ y.todo = todo /\ y.job = x.job /\ y.stamp = x.stamp /\ y.alone = x.alone
      /\ y.at = IF todo = {} THEN AfterAliases(x.at) ELSE x.at
  BY <1>6, <1>7 DEF Shaped
<1> HIDE DEF y
<1>10. /\ x.job \in Jobs /\ x.at \in PlacesOf(x.job.kind)
       /\ AfterAliases(x.at) \in PlacesOf(x.job.kind)
       /\ AfterAliases(x.at) \in {"stores", "sellers", "canonical"}
  <2>1. x.job \in Jobs /\ x.job.kind \in Kinds /\ x.at \in PlacesOf(x.job.kind)
    BY JobsAssumption DEF RequestOK
  <2>2. x.job.kind # "master"
    BY <2>1, WhichKinds DEF Aliasing
  <2>3. AfterAliases(x.at) \in {"stores", "sellers", "canonical"}
    BY DEF AfterAliases
  <2> QED BY <2>1, <2>2, <2>3, WhichKinds DEF Aliasing
<1>11. RequestOK(y)
  <2>1. CASE todo = {}
    BY <2>1, <1>8, <1>9, <1>10 DEF RequestOK
  <2>2. CASE todo # {}
    BY <2>2, <1>8, <1>9, <1>10 DEF RequestOK
  <2> QED BY <2>1, <2>2
<1>12. y.at \in {"storeAliases", "sellerAliases", "crmAliases", "stores", "sellers", "canonical"}
  BY <1>9, <1>10
<1> HIDE DEF z
<1>13. /\ RequestOK(z) /\ z.stamp = x.stamp /\ z.job = x.job /\ z.alone = x.alone
       /\ z.at \in {"storeAliases", "sellerAliases", "crmAliases", "stores", "sellers", "canonical"}
  BY <1>2, <1>9, <1>11, <1>12
<1> QED BY <1>13 DEF z

\* What every step of a request does to all requests.
Acts(r) ==
  \/ Begin(r) \/ Fail(r)
  \/ UpsertBatch(r) \/ CompareExport(r) \/ AppendVersion(r)
  \/ SeedStoreAliases(r) \/ SeedSellerAliases(r) \/ SeedSellerAliasesFromCrm(r)
  \/ InsertAlias(r)
  \/ RefreshCanonical(r) \/ RefreshBridge(r)
  \/ TakeStamp(r) \/ UpsertMaster(r) \/ DeleteOlder(r) \/ ValidateMaster(r)
Goes(r) == /\ Moved(r, requests'[r]) /\ RequestOK(requests'[r])
           /\ clock' \in Nat /\ clock <= clock' /\ requests'[r].stamp <= clock'

LEMMA GoesOnAs ==
  ASSUME TypeOK, NEW r \in Requests, NEW rec, RequestOK(rec), clock' \in Nat, clock <= clock',
         rec.stamp <= clock'
  PROVE  /\ Writing(r, rec) => Goes(r) /\ requests'[r] = rec
         /\ Continues(r, rec) /\ UNCHANGED tables => Goes(r) /\ requests'[r] = rec
         /\ Answered(r, rec) => Goes(r) /\ requests'[r] \in {requests[r], rec}
<1>1. RequestsOK /\ RequestOK(requests[r]) /\ requests[r].stamp <= clock /\ clock \in Nat
      /\ requests[r].stamp \in Nat
  BY DEF TypeOK, RequestsOK, TablesOK, RequestOK
<1>2. ASSUME NEW x, RequestOK(x), x.stamp <= clock', Writing(r, x)
      PROVE  Goes(r) /\ requests'[r] = x
  <2>1. Moved(r, x)
    BY <1>1, <1>2, Moves
  <2>2. requests'[r] = x
    BY <2>1 DEF Moved
  <2> QED BY <1>2, <2>1, <2>2 DEF Goes
<1>3. ASSUME Continues(r, rec), UNCHANGED tables
      PROVE  Goes(r) /\ requests'[r] = rec
  <2>1. Moved(r, rec)
    BY <1>1, <1>3, Moves
  <2>2. requests'[r] = rec
    BY <2>1 DEF Moved
  <2> QED BY <2>1, <2>2 DEF Goes
<1>4. ASSUME Answered(r, rec)
      PROVE  Goes(r) /\ requests'[r] \in {requests[r], rec}
  <2>1. CASE Writing(r, rec)
    BY <1>2, <2>1
  <2>2. CASE Writing(r, requests[r])
    <3>1. requests[r].stamp <= clock'
      BY <1>1
    <3> QED BY <1>1, <1>2, <2>2, <3>1
  <2> QED BY <1>4, <2>1, <2>2 DEF Answered
<1> QED BY <1>2, <1>3, <1>4

LEMMA ToIsOK ==
  ASSUME NEW r \in Requests, RequestOK(requests[r]), Active(requests[r]), NEW p \in Plain,
         p \in PlacesOf(requests[r].job.kind)
  PROVE  /\ RequestOK(To(r, p)) /\ To(r, p).at = p
         /\ To(r, p).stamp = requests[r].stamp /\ To(r, p).job = requests[r].job
         /\ To(r, p).alone = requests[r].alone /\ To(r, p).again = requests[r].again
<1>1. RequestOK(To(r, p))
  BY GoesOn DEF To
<1>2. Shaped(requests[r])
  BY DEF RequestOK
<1> QED BY <1>1, <1>2 DEF To, Shaped

LEMMA StepGoes ==
  ASSUME TypeOK, NEW r \in Requests, Acts(r)
  PROVE  Goes(r)
<1>0. /\ RequestOK(requests[r]) /\ requests[r].stamp <= clock /\ clock \in Nat
      /\ requests[r].stamp \in Nat
  BY DEF TypeOK, RequestsOK, TablesOK, RequestOK
<1>1. Active(requests[r]) => requests[r].job \in Jobs /\ requests[r].job.kind \in Kinds
                             /\ requests[r].at \in PlacesOf(requests[r].job.kind)
  BY <1>0, JobsAssumption DEF RequestOK, Active
<1>2. CASE clock' = clock /\ \E p \in {"done", "failed"} :
             Continues(r, Over(p)) /\ UNCHANGED tables
  BY <1>0, <1>2, EndsWell, GoesOnAs
<1>3. CASE Begin(r)
  <2>1. PICK job \in Jobs :
          Continues(r, [Idle EXCEPT !.at = First(job), !.job = job, !.files = job.files])
    BY <1>3 DEF Begin
  <2> DEFINE x == [Idle EXCEPT !.at = First(job), !.job = job, !.files = job.files]
  <2>2. RequestOK(x) /\ x.stamp = 0 /\ Continues(r, x)
    BY <2>1, JobsBegin
  <2> HIDE DEF x
  <2> QED BY <1>0, <1>3, <2>2, GoesOnAs DEF Begin
<1>4. CASE Fail(r)
  BY <1>2, <1>4 DEF Fail
<1>5. CASE ValidateMaster(r)
  BY <1>2, <1>5 DEF ValidateMaster
<1>6. CASE UpsertBatch(r)
  <2> DEFINE rest == Tail(requests[r].files)
  <2>1. /\ requests[r].at = "upload" /\ clock' = clock
        /\ Writing(r, IF rest = <<>> THEN AfterImport(r) ELSE [requests[r] EXCEPT !.files = rest])
    BY <1>6 DEF UpsertBatch
  <2>2. rest \in Seq(FilesOf("forum"))
    BY <1>0, <2>1 DEF RequestOK
  <2> HIDE DEF rest
  <2>3. CASE rest = <<>>
    BY <1>0, <2>1, <2>3, ImportGoesOn, GoesOnAs
  <2>4. CASE rest # <<>>
    <3> DEFINE y == [requests[r] EXCEPT !.files = rest]
    <3>1. RequestOK(y) /\ y.stamp = requests[r].stamp
      BY <1>0, <2>1, <2>2, <2>4, LessIsOK DEF Active
    <3>2. Writing(r, y)
      BY <2>1, <2>4
    <3> HIDE DEF y
    <3> QED BY <1>0, <2>1, <3>1, <3>2, GoesOnAs
  <2> QED BY <2>3, <2>4
<1>7. CASE CompareExport(r)
  <2> DEFINE changed == Changed(Head(requests[r].files))
             y == Compared(requests[r], changed, clock')
  <2>1. /\ requests[r].at = "compare" /\ UNCHANGED tables
        /\ clock' = IF changed = {} THEN clock ELSE clock + 1
        /\ Continues(r, IF changed = {} THEN NextExport(r) ELSE y)
    BY <1>7 DEF CompareExport, To, Compared
  <2>2. clock' \in Nat /\ clock <= clock'
    BY <1>0, <2>1
  <2>3. changed \in SUBSET DOMAIN Head(requests[r].files)
    BY DEF Changed
  <2> HIDE DEF changed
  <2>4. CASE changed = {}
    BY <1>0, <2>1, <2>2, <2>4, ExportGoesOn, GoesOnAs
  <2>5. CASE changed # {}
    <3>1. RequestOK(y) /\ y.stamp = clock'
      BY <1>0, <2>1, <2>2, <2>3, AppendIsOK
    <3>2. Continues(r, y)
      BY <2>1, <2>5
    <3> HIDE DEF y
    <3> QED BY <2>1, <2>2, <3>1, <3>2, GoesOnAs
  <2> QED BY <2>4, <2>5
<1>8. CASE AppendVersion(r)
  <2>1. PICK d \in requests[r].todo :
          Answered(r, IF requests[r].todo = {d} THEN NextExport(r)
                      ELSE [requests[r] EXCEPT !.todo = @ \ {d}])
    BY <1>8 DEF AppendVersion
  <2>2. requests[r].at = "append" /\ clock' = clock
    BY <1>8 DEF AppendVersion
  <2>3. CASE requests[r].todo = {d}
    BY <1>0, <2>1, <2>2, <2>3, ExportGoesOn, GoesOnAs
  <2>4. CASE requests[r].todo # {d}
    <3> DEFINE todo == requests[r].todo \ {d}
               y == [requests[r] EXCEPT !.todo = todo]
    <3>1. RequestOK(y) /\ y.stamp = requests[r].stamp
      BY <1>0, <2>2, LessIsOK DEF Active
    <3>2. Answered(r, y)
      BY <2>1, <2>4
    <3> HIDE DEF y
    <3> QED BY <1>0, <2>2, <3>1, <3>2, GoesOnAs
  <2> QED BY <2>3, <2>4
<1>9. ASSUME requests[r].at \in {"stores", "sellers", "crmMatches"}, NEW at, NEW plan, NEW p,
             p \in Plain, p \in PlacesOf(requests[r].job.kind),
             at \in PlacesOf(requests[r].job.kind), clock' = clock, UNCHANGED tables,
             \/ at = "storeAliases" /\ \A e \in plan : e.of \in OwnStores
             \/ /\ at \in {"sellerAliases", "crmAliases"}
                /\ \A e \in plan : e.of \in People \cup {None},
             Plans(r, at, plan, p)
      PROVE  Goes(r)
  <2>1. Active(requests[r])
    BY <1>9 DEF Active
  <2>2. CASE plan = {}
    <3>1. RequestOK(To(r, p)) /\ To(r, p).stamp = requests[r].stamp
      BY <1>0, <1>9, <2>1, ToIsOK
    <3>2. Continues(r, To(r, p))
      BY <1>9, <2>2 DEF Plans
    <3> QED BY <1>0, <1>9, <3>1, <3>2, GoesOnAs
  <2>3. CASE plan # {}
    <3> DEFINE id == 1 + Max({0} \cup {a.id : a \in aliases[TableOf(at)]})
               y == Planned(requests[r], at, plan, id)
    <3>1. Continues(r, y)
      BY <1>9, <2>3 DEF Plans, To, Planned
    <3> HIDE DEF id
    <3>2. RequestOK(y) /\ y.stamp = requests[r].stamp
      BY <1>0, <1>9, <2>1, PlanIsOK
    <3> HIDE DEF y
    <3> QED BY <1>0, <1>9, <3>1, <3>2, GoesOnAs
  <2> QED BY <2>2, <2>3
<1>10. CASE SeedStoreAliases(r)
  <2> DEFINE unknown == {o \in Ops : /\ forum[o] # None /\ forum[o].store \in OwnStores
                                     /\ Named(forum[o].store, aliases.stores) = {}}
             plan == {[name |-> forum[o].store, of |-> forum[o].store] : o \in unknown}
  <2>1. /\ requests[r].at = "stores" /\ clock' = clock /\ UNCHANGED tables
        /\ Plans(r, "storeAliases", plan, "sellers")
    BY <1>10 DEF SeedStoreAliases
  <2>2. \A e \in plan : e.of \in OwnStores
    OBVIOUS
  <2>3. /\ "sellers" \in PlacesOf(requests[r].job.kind) /\ "sellers" \in Plain
        /\ "storeAliases" \in PlacesOf(requests[r].job.kind)
    BY <1>1, <2>1, WhichKinds DEF Active, Aliasing, Plain
  <2> HIDE DEF plan
  <2> QED BY <1>9, <2>1, <2>2, <2>3
<1>11. CASE SeedSellerAliases(r)
  <2> DEFINE plan == BySignature(forum, aliases.stores, aliases.sellers)
  <2>1. /\ requests[r].at = "sellers" /\ clock' = clock /\ UNCHANGED tables
        /\ Plans(r, "sellerAliases", plan, "canonical")
    BY <1>11 DEF SeedSellerAliases
  <2>2. \A e \in plan : e.of \in People \cup {None}
    BY SignatureNamesPeople
  <2>3. /\ "canonical" \in PlacesOf(requests[r].job.kind) /\ "canonical" \in Plain
        /\ "sellerAliases" \in PlacesOf(requests[r].job.kind)
    BY <1>1, <2>1, WhichKinds DEF Active, Aliasing, Plain
  <2> HIDE DEF plan
  <2> QED BY <1>9, <2>1, <2>2, <2>3
<1>12. CASE SeedSellerAliasesFromCrm(r)
  <2> DEFINE plan == Agreed(forum, canonical, crm, aliases.sellers)
  <2>1. /\ requests[r].at = "crmMatches" /\ clock' = clock /\ UNCHANGED tables
        /\ Plans(r, "crmAliases", plan, "bridge")
    BY <1>12 DEF SeedSellerAliasesFromCrm
  <2>2. \A e \in plan : e.of \in People \cup {None}
    BY AgreementNamesPeople
  <2>3. /\ "bridge" \in PlacesOf(requests[r].job.kind) /\ "bridge" \in Plain
        /\ "crmAliases" \in PlacesOf(requests[r].job.kind)
    BY <1>1, <2>1, WhichKinds DEF Active, Plain
  <2> HIDE DEF plan
  <2> QED BY <1>9, <2>1, <2>2, <2>3
<1>13. CASE InsertAlias(r)
  <2>1. /\ requests[r].at \in {"storeAliases", "sellerAliases", "crmAliases"} /\ clock' = clock
        /\ UNCHANGED <<forum, crm, canonical, bridge, master>>
    BY <1>13 DEF InsertAlias
  <2>2. PICK e \in requests[r].todo :
          LET todo == requests[r].todo \ {e}
              next == [requests[r] EXCEPT !.todo = todo, !.id = IF todo = {} THEN 0 ELSE @ + 1,
                         !.at = IF todo = {} THEN AfterAliases(@) ELSE @,
                         !.again = requests[r].at = "crmAliases" \/ @]
          IN \/ Continues(r, next) /\ UNCHANGED aliases
             \/ Continues(r, Over("failed")) /\ UNCHANGED aliases
             \/ Answered(r, next)
    BY <1>13 DEF InsertAlias
  <2> DEFINE todo == requests[r].todo \ {e}
             next == [requests[r] EXCEPT !.todo = todo, !.id = IF todo = {} THEN 0 ELSE @ + 1,
                        !.at = IF todo = {} THEN AfterAliases(@) ELSE @,
                        !.again = requests[r].at = "crmAliases" \/ @]
  <2>3. RequestOK(next) /\ next.stamp = requests[r].stamp
    BY <1>0, <2>1, InsertIsOK
  <2>4. \/ Continues(r, next) /\ UNCHANGED tables
        \/ Continues(r, Over("failed")) /\ UNCHANGED tables
        \/ Answered(r, next)
    BY <2>1, <2>2 DEF tables
  <2> HIDE DEF next
  <2>5. CASE Continues(r, Over("failed")) /\ UNCHANGED tables
    BY <1>2, <2>1, <2>5
  <2>6. CASE (Continues(r, next) /\ UNCHANGED tables) \/ Answered(r, next)
    BY <1>0, <2>1, <2>3, <2>6, GoesOnAs
  <2> QED BY <2>4, <2>5, <2>6
<1>14. ASSUME NEW p \in Plain, p \in PlacesOf(requests[r].job.kind), Active(requests[r]),
              clock' = clock, Answered(r, To(r, p))
       PROVE  Goes(r)
  <2>1. RequestOK(To(r, p)) /\ To(r, p).stamp = requests[r].stamp
    BY <1>0, <1>14, ToIsOK
  <2> QED BY <1>0, <1>14, <2>1, GoesOnAs
<1>15. CASE RefreshCanonical(r)
  <2>1. /\ requests[r].at = "canonical" /\ clock' = clock
        /\ Answered(r, IF requests[r].job.kind = "canonicalizer" THEN Over("done")
                       ELSE To(r, IF requests[r].again THEN "bridge" ELSE "crmMatches"))
    BY <1>15 DEF RefreshCanonical
  <2>2. CASE requests[r].job.kind = "canonicalizer"
    BY <1>0, <2>1, <2>2, EndsWell, GoesOnAs
  <2>3. CASE requests[r].job.kind # "canonicalizer"
    <3>1. \A p \in {"bridge", "crmMatches"} : p \in PlacesOf(requests[r].job.kind) /\ p \in Plain
      BY <1>1, <2>1, <2>3, WhichKinds DEF Active, Plain
    <3>2. PICK p \in {"bridge", "crmMatches"} : Answered(r, To(r, p))
      BY <2>1, <2>3
    <3> QED BY <1>14, <2>1, <3>1, <3>2 DEF Active
  <2> QED BY <2>2, <2>3
<1>16. CASE RefreshBridge(r)
  <2>1. requests[r].at = "bridge" /\ clock' = clock /\ Answered(r, To(r, "stamp"))
    BY <1>16 DEF RefreshBridge
  <2>2. "stamp" \in PlacesOf(requests[r].job.kind) /\ "stamp" \in Plain
    BY <1>1, <2>1, WhichKinds DEF Active, Mastering, Plain
  <2> QED BY <1>14, <2>1, <2>2 DEF Active
<1>17. CASE TakeStamp(r)
  <2> DEFINE y == [[requests[r] EXCEPT !.at = "upsert"] EXCEPT !.stamp = clock']
  <2>1. requests[r].at = "stamp" /\ clock' = clock + 1 /\ UNCHANGED tables /\ Continues(r, y)
    BY <1>17 DEF TakeStamp, To
  <2>2. clock' \in Nat /\ clock <= clock'
    BY <1>0, <2>1
  <2>3. RequestOK(y) /\ y.stamp = clock'
    BY <1>0, <2>1, <2>2, StampIsOK
  <2> HIDE DEF y
  <2> QED BY <2>1, <2>2, <2>3, GoesOnAs
<1>18. CASE UpsertMaster(r)
  <2>1. requests[r].at = "upsert" /\ clock' = clock /\ Answered(r, To(r, "delete"))
    BY <1>18 DEF UpsertMaster
  <2>2. "delete" \in PlacesOf(requests[r].job.kind) /\ "delete" \in Plain
    BY <1>1, <2>1, WhichKinds DEF Active, Mastering, Plain
  <2> QED BY <1>14, <2>1, <2>2 DEF Active
<1>19. CASE DeleteOlder(r)
  <2>1. requests[r].at = "delete" /\ clock' = clock /\ Answered(r, To(r, "validate"))
    BY <1>19 DEF DeleteOlder
  <2>2. "validate" \in PlacesOf(requests[r].job.kind) /\ "validate" \in Plain
    BY <1>1, <2>1, WhichKinds DEF Active, Mastering, Plain
  <2> QED BY <1>14, <2>1, <2>2 DEF Active
<1> QED BY <1>3, <1>4, <1>5, <1>6, <1>7, <1>8, <1>10, <1>11, <1>12, <1>13, <1>15, <1>16, <1>17,
           <1>18, <1>19 DEF Acts

LEMMA TypeInit == Init => TypeOK
<1> SUFFICES ASSUME Init PROVE TypeOK
  OBVIOUS
<1>1. TablesOK
  BY JobsAssumption DEF Init, TablesOK
<1>2. AliasesOK
  BY DEF Init, AliasesOK
<1>3. RequestsOK
  <2>1. Shaped(Idle) /\ Idle.at = "idle" /\ Idle.stamp = 0
    BY DEF Shaped, Idle
  <2>2. RequestOK(Idle)
    BY <2>1 DEF RequestOK
  <2> QED BY <2>1, <2>2 DEF Init, RequestsOK
<1> QED BY <1>1, <1>2, <1>3 DEF TypeOK

LEMMA TypeStep ==
  ASSUME TypeOK, NEW r \in Requests, Acts(r)
  PROVE  TypeOK'
<1>0. Goes(r)
  BY StepGoes
<1>1. RequestsOK'
  BY <1>0, RequestsStayOK DEF Goes
<1>2. RequestOK(requests[r]) /\ requests[r].stamp \in Nat /\ requests[r].stamp <= clock
  BY DEF TypeOK, RequestsOK, RequestOK
<1>3. clock \in Nat /\ clock' \in Nat /\ clock <= clock'
  BY <1>0 DEF Goes, TypeOK, TablesOK
<1>4. CASE UNCHANGED <<forum, crm, aliases, canonical, bridge>>
  <2>1. TablesOK' /\ AliasesOK'
    BY <1>3, <1>4 DEF TypeOK, TablesOK, AliasesOK
  <2> QED BY <1>1, <2>1 DEF TypeOK
<1>5. CASE UpsertBatch(r)
  <2> DEFINE batch == Head(requests[r].files)
  <2>1. /\ forum' = [o \in Ops |-> IF o \in DOMAIN batch THEN batch[o] ELSE forum[o]]
        /\ UNCHANGED <<crm, aliases, canonical, bridge, clock>>
        /\ requests[r].at = "upload"
    BY <1>5 DEF UpsertBatch
  <2>2. batch \in FilesOf("forum")
    BY <1>2, <2>1 DEF RequestOK
  <2>3. \A o \in DOMAIN batch : batch[o] \in Quotes
    BY <2>2 DEF Quotes
  <2> HIDE DEF batch
  <2>4. forum' \in [Ops -> Quotes \cup {None}]
    BY <2>1, <2>3 DEF TypeOK, TablesOK
  <2>5. TablesOK' /\ AliasesOK'
    BY <2>1, <2>4 DEF TypeOK, TablesOK, AliasesOK
  <2> QED BY <1>1, <2>5 DEF TypeOK
<1>6. CASE AppendVersion(r)
  <2>1. PICK d \in requests[r].todo :
          crm' = crm \cup {[deal |-> d, row |-> Head(requests[r].files)[d],
                            stamp |-> requests[r].stamp]}
    BY <1>6 DEF AppendVersion
  <2>2. requests[r].at = "append" /\ UNCHANGED <<forum, aliases, canonical, bridge, clock>>
    BY <1>6 DEF AppendVersion
  <2>3. d \in Deals
    <3>1. Head(requests[r].files) \in FilesOf("crm") /\ d \in DOMAIN Head(requests[r].files)
      BY <1>2, <2>2 DEF RequestOK
    <3> QED BY <3>1, JobsAssumption
  <2>4. TablesOK' /\ AliasesOK'
    BY <1>2, <2>1, <2>2, <2>3 DEF TypeOK, TablesOK, AliasesOK
  <2> QED BY <1>1, <2>4 DEF TypeOK
<1>7. CASE InsertAlias(r)
  <2>1. PICK e \in requests[r].todo :
          \/ UNCHANGED aliases
          \/ aliases' = [aliases EXCEPT ![TableOf(requests[r].at)] =
                           @ \cup {[id |-> requests[r].id, name |-> e.name, of |-> e.of]}]
    BY <1>7 DEF InsertAlias
  <2>2. /\ requests[r].at \in {"storeAliases", "sellerAliases", "crmAliases"}
        /\ UNCHANGED <<forum, crm, canonical, bridge, master, clock>>
    BY <1>7 DEF InsertAlias
  <2>3. TablesOK'
    BY <2>2 DEF TypeOK, TablesOK
  <2>4. AliasesOK'
    <3>1. CASE UNCHANGED aliases
      BY <3>1 DEF TypeOK, AliasesOK
    <3>2. CASE requests[r].at = "storeAliases" /\ ~UNCHANGED aliases
      <4>1. e.of \in OwnStores
        BY <1>2, <3>2 DEF RequestOK
      <4> DEFINE new == [id |-> requests[r].id, name |-> e.name, of |-> e.of]
      <4>2. aliases' = [aliases EXCEPT !["stores"] = @ \cup {new}] /\ new.of = e.of
        BY <2>1, <3>2 DEF TableOf
      <4> HIDE DEF new
      <4>3. PICK S, T : aliases = [stores |-> S, sellers |-> T]
        BY DEF TypeOK, AliasesOK
      <4>4. aliases' = [stores |-> S \cup {new}, sellers |-> T]
        BY <4>2, <4>3
      <4>5. aliases.stores = S /\ aliases.sellers = T
        BY <4>3
      <4>6. aliases'.stores = S \cup {new} /\ aliases'.sellers = T
        BY <4>4
      <4>7. /\ \A a \in S : a.of \in OwnStores
            /\ \A a \in T : a.of \in People \cup {None}
        BY <4>5 DEF TypeOK, AliasesOK
      <4>8. aliases' = [stores |-> aliases'.stores, sellers |-> aliases'.sellers]
        BY <4>4, <4>6
      <4>9. /\ \A a \in aliases'.stores : a.of \in OwnStores
            /\ \A a \in aliases'.sellers : a.of \in People \cup {None}
        BY <4>1, <4>2, <4>6, <4>7
      <4> QED BY <4>8, <4>9 DEF AliasesOK
    <3>3. CASE requests[r].at # "storeAliases" /\ ~UNCHANGED aliases
      <4>1. e.of \in People \cup {None}
        BY <1>2, <2>2, <3>3 DEF RequestOK
      <4> DEFINE new == [id |-> requests[r].id, name |-> e.name, of |-> e.of]
      <4>2. aliases' = [aliases EXCEPT !["sellers"] = @ \cup {new}] /\ new.of = e.of
        BY <2>1, <3>3 DEF TableOf
      <4> HIDE DEF new
      <4>3. PICK S, T : aliases = [stores |-> S, sellers |-> T]
        BY DEF TypeOK, AliasesOK
      <4>4. aliases' = [stores |-> S, sellers |-> T \cup {new}]
        BY <4>2, <4>3
      <4>5. aliases.stores = S /\ aliases.sellers = T
        BY <4>3
      <4>6. aliases'.stores = S /\ aliases'.sellers = T \cup {new}
        BY <4>4
      <4>7. /\ \A a \in S : a.of \in OwnStores
            /\ \A a \in T : a.of \in People \cup {None}
        BY <4>5 DEF TypeOK, AliasesOK
      <4>8. aliases' = [stores |-> aliases'.stores, sellers |-> aliases'.sellers]
        BY <4>4, <4>6
      <4>9. /\ \A a \in aliases'.stores : a.of \in OwnStores
            /\ \A a \in aliases'.sellers : a.of \in People \cup {None}
        BY <4>1, <4>2, <4>6, <4>7
      <4> QED BY <4>8, <4>9 DEF AliasesOK
    <3> QED BY <3>1, <3>2, <3>3
  <2> QED BY <1>1, <2>3, <2>4 DEF TypeOK
<1>8. CASE RefreshCanonical(r)
  <2>1. /\ canonical' = [o \in Ops |-> CanonicalNow(o)]
        /\ UNCHANGED <<forum, crm, aliases, bridge, master, clock>>
    BY <1>8 DEF RefreshCanonical
  <2>2. \A o \in Ops : CanonicalNow(o) \in CanonicalRows \cup {None}
    BY CanonicalIsRow DEF CanonicalNow, TypeOK, TablesOK
  <2>3. canonical' \in [Ops -> CanonicalRows \cup {None}]
    BY <2>1, <2>2
  <2>4. TablesOK' /\ AliasesOK'
    BY <2>1, <2>3 DEF TypeOK, TablesOK, AliasesOK
  <2> QED BY <1>1, <2>4 DEF TypeOK
<1>9. CASE RefreshBridge(r)
  <2>1. /\ bridge' = [o \in Ops |-> BridgeNow(o)]
        /\ UNCHANGED <<forum, crm, aliases, canonical, master, clock>>
    BY <1>9 DEF RefreshBridge
  <2>2. \A o \in Ops : BridgeNow(o) \in BridgeRows \cup {None}
    BY DealsAreKnown DEF BridgeNow, TypeOK, TablesOK
  <2>3. bridge' \in [Ops -> BridgeRows \cup {None}]
    BY <2>1, <2>2
  <2>4. TablesOK' /\ AliasesOK'
    BY <2>1, <2>3 DEF TypeOK, TablesOK, AliasesOK
  <2> QED BY <1>1, <2>4 DEF TypeOK
<1>10. Begin(r) \/ Fail(r) \/ CompareExport(r) \/ SeedStoreAliases(r) \/ SeedSellerAliases(r)
       \/ SeedSellerAliasesFromCrm(r) \/ TakeStamp(r) \/ ValidateMaster(r)
         => UNCHANGED <<forum, crm, aliases, canonical, bridge>>
  BY DEF Begin, Fail, CompareExport, SeedStoreAliases, SeedSellerAliases,
         SeedSellerAliasesFromCrm, TakeStamp, ValidateMaster, tables
<1>11. UpsertMaster(r) \/ DeleteOlder(r) => UNCHANGED <<forum, crm, aliases, canonical, bridge>>
  BY DEF UpsertMaster, DeleteOlder
<1> QED BY <1>4, <1>5, <1>6, <1>7, <1>8, <1>9, <1>10, <1>11 DEF Acts

-----------------------------------------------------------------------------
(* The master and the operations that are bridged.                         *)

ForumNow(o) == ForumRow(o, canonical, bridge, crm, aliases.sellers)
CrmNow(d) == CrmRow(d, crm, aliases.sellers)
LoneDeals == {v.deal : v \in crm} \ Matched(bridge)

\* The rows the sources give, key by key.
LEMMA SourceByKey ==
  ASSUME TypeOK
  PROVE  /\ \A k \in DOMAIN SourceNow :
              \/ \E o \in Ops : /\ k = <<"FORUM", o>> /\ canonical[o] # None
                                /\ SourceNow[k] = ForumNow(o)
              \/ \E d \in LoneDeals : k = <<"CRM", d>> /\ d \in Deals /\ SourceNow[k] = CrmNow(d)
         /\ \A o \in Ops : canonical[o] # None => <<"FORUM", o>> \in DOMAIN SourceNow
         /\ \A d \in LoneDeals : <<"CRM", d>> \in DOMAIN SourceNow
<1> DEFINE fromForum == {<<"FORUM", o>> : o \in {x \in Ops : canonical[x] # None}}
           fromCrm == {<<"CRM", d>> : d \in LoneDeals}
           Row(k) == IF k[1] = "FORUM" THEN ForumNow(k[2]) ELSE CrmNow(k[2])
<1>1. SourceNow = [k \in fromForum \cup fromCrm |-> Row(k)]
  BY DEF SourceNow, Source, ForumNow, CrmNow, LoneDeals
<1>2. \A d \in LoneDeals : d \in Deals
  BY DEF LoneDeals, TypeOK, TablesOK
<1>3. \A k \in fromForum : \E o \in Ops : /\ k = <<"FORUM", o>> /\ canonical[o] # None
                                          /\ Row(k) = ForumNow(o)
  OBVIOUS
<1>4. \A k \in fromCrm : \E d \in LoneDeals : k = <<"CRM", d>> /\ d \in Deals /\ Row(k) = CrmNow(d)
  BY <1>2
<1>5. \A o \in Ops : canonical[o] # None => <<"FORUM", o>> \in fromForum
  OBVIOUS
<1>6. \A d \in LoneDeals : <<"CRM", d>> \in fromCrm
  OBVIOUS
<1> HIDE DEF fromForum, fromCrm, Row
<1> QED BY <1>1, <1>3, <1>4, <1>5, <1>6

LEMMA RowsNameTheirKey ==
  /\ \A o \in Ops : ForumNow(o).op = o
  /\ \A d \in Deals : CrmNow(d).op = None
BY DEF ForumNow, CrmNow, ForumRow, CrmRow, Joined

LEMMA CanonicalStays ==
  ASSUME TypeOK, NEW r \in Requests, Acts(r), NEW o \in Ops, canonical[o] # None
  PROVE  canonical'[o] # None
<1>1. CASE UNCHANGED canonical
  BY <1>1
<1>2. CASE RefreshCanonical(r)
  <2>1. canonical'[o] = CanonicalNow(o)
    BY <1>2 DEF RefreshCanonical
  <2>2. CanonicalNow(o) # None
    BY CanonicalIsRow, JobsAssumption DEF CanonicalNow
  <2> QED BY <2>1, <2>2
<1> QED BY <1>1, <1>2 DEF Acts, Begin, Fail, UpsertBatch, CompareExport, AppendVersion,
           SeedStoreAliases, SeedSellerAliases, SeedSellerAliasesFromCrm, InsertAlias,
           RefreshBridge, TakeStamp, UpsertMaster, DeleteOlder, ValidateMaster, tables

LEMMA BridgedStep ==
  ASSUME TypeOK, BridgedIsCanonical, NEW r \in Requests, Acts(r)
  PROVE  BridgedIsCanonical'
<1>1. \A o \in Ops : canonical[o] # None => canonical'[o] # None
  BY CanonicalStays
<1>2. CASE UNCHANGED bridge
  BY <1>1, <1>2 DEF BridgedIsCanonical
<1>3. CASE RefreshBridge(r)
  BY <1>1, <1>3 DEF BridgedIsCanonical, RefreshBridge, BridgeNow
<1> QED BY <1>2, <1>3 DEF Acts, Begin, Fail, UpsertBatch, CompareExport, AppendVersion,
           SeedStoreAliases, SeedSellerAliases, SeedSellerAliasesFromCrm, InsertAlias,
           RefreshCanonical, TakeStamp, UpsertMaster, DeleteOlder, ValidateMaster, tables

LEMMA MasterStep ==
  ASSUME TypeOK, MasterOK, NEW r \in Requests, Acts(r)
  PROVE  MasterOK'
<1>1. \A o \in Ops : canonical[o] # None => canonical'[o] # None
  BY CanonicalStays
<1>2. clock \in Nat /\ clock' \in Nat /\ clock <= clock'
  BY StepGoes DEF Goes, TypeOK, TablesOK
<1>3. CASE UNCHANGED master
  BY <1>1, <1>2, <1>3 DEF MasterOK, KeyOK
<1>4. CASE DeleteOlder(r)
  BY <1>1, <1>2, <1>4 DEF MasterOK, KeyOK, DeleteOlder
<1>5. CASE UpsertMaster(r)
  <2> DEFINE new == [k \in DOMAIN SourceNow |-> [row |-> SourceNow[k], stamp |-> requests[r].stamp]]
  <2>1. /\ master' = [k \in DOMAIN new \cup DOMAIN master |->
                        IF k \in DOMAIN new THEN new[k] ELSE master[k]]
        /\ UNCHANGED <<canonical, clock>>
    BY <1>5 DEF UpsertMaster
  <2>2. requests[r].stamp \in Nat /\ requests[r].stamp <= clock
    BY DEF TypeOK, RequestsOK, RequestOK
  <2>3. ASSUME NEW k \in DOMAIN new
        PROVE  /\ \/ \E o \in Ops : k = <<"FORUM", o>> /\ canonical[o] # None /\ new[k].row.op = o
                  \/ \E d \in Deals : k = <<"CRM", d>> /\ new[k].row.op = None
               /\ new[k].stamp = requests[r].stamp
    BY SourceByKey, RowsNameTheirKey
  <2> HIDE DEF new
  <2>4. ASSUME NEW k \in DOMAIN master'
        PROVE  KeyOK(k)' /\ master'[k].stamp \in Nat /\ master'[k].stamp <= clock'
    <3>1. DOMAIN master' = DOMAIN new \cup DOMAIN master
      BY <2>1
    <3>2. CASE k \in DOMAIN new
      <4>1. master'[k] = new[k]
        BY <2>1, <3>1, <3>2
      <4> QED BY <2>1, <2>2, <2>3, <3>2, <4>1, <1>2 DEF KeyOK
    <3>3. CASE k \notin DOMAIN new
      <4>1. master'[k] = master[k] /\ k \in DOMAIN master
        BY <2>1, <3>1, <3>3
      <4> QED BY <2>1, <4>1, <1>2 DEF KeyOK, MasterOK
    <3> QED BY <3>2, <3>3
  <2> QED BY <2>4 DEF MasterOK
<1> QED BY <1>3, <1>4, <1>5 DEF Acts, Begin, Fail, UpsertBatch, CompareExport, AppendVersion,
           SeedStoreAliases, SeedSellerAliases, SeedSellerAliasesFromCrm, InsertAlias,
           RefreshCanonical, RefreshBridge, TakeStamp, ValidateMaster, tables

\* A master whose totals are those of its sources has every operation that is canonical.
LEMMA ReconciledIsWhole ==
  ASSUME MasterOK, Reconciles(Rows, canonical, crm)
  PROVE  \A o \in Ops : canonical[o] # None => <<"FORUM", o>> \in DOMAIN master
<1> DEFINE canonicals == {o \in Ops : canonical[o] # None}
<1>1. OpsIn(Rows) \in SUBSET canonicals
  <2> SUFFICES ASSUME NEW k \in DOMAIN master, master[k].row.op # None
               PROVE  master[k].row.op \in canonicals
    BY DEF OpsIn, Known, Rows
  <2> QED BY DEF MasterOK, KeyOK
<1>2. IsFiniteSet(canonicals)
  BY IdentityAssumption, FS_Subset
<1>3. OpsIn(Rows) = canonicals
  <2>1. Cardinality(OpsIn(Rows)) = Cardinality(canonicals)
    BY DEF Reconciles
  <2> HIDE DEF canonicals
  <2> QED BY <1>1, <1>2, <2>1, FS_Subset
<1>4. ASSUME NEW o \in Ops, canonical[o] # None
      PROVE  <<"FORUM", o>> \in DOMAIN master
  <2>1. o \in OpsIn(Rows)
    BY <1>3, <1>4
  <2>2. PICK k \in DOMAIN master : master[k].row.op = o
    BY <2>1 DEF OpsIn, Known, Rows
  <2>3. o # None
    BY IdentityAssumption
  <2> QED BY <2>2, <2>3 DEF MasterOK, KeyOK
<1> QED BY <1>4

Pending == {"bridge", "failed"} \cup Mastering
LEMMA PendingStep ==
  ASSUME MasterInv, NEW r \in Requests, Acts(r)
  PROVE  ErasureIsPending'
<1>0. /\ RequestsOK /\ Goes(r) /\ RequestOK(requests[r])
  BY StepGoes DEF MasterInv, TypeOK, RequestsOK
<1>1. CASE requests'[r].at \in Pending
  BY <1>1 DEF ErasureIsPending, Pending
<1>2. CASE requests[r].at \notin Pending /\ UNCHANGED <<bridge, master>>
  <2>1. CASE \A o \in Ops : bridge[o] # None => <<"FORUM", o>> \in DOMAIN master
    BY <1>2, <2>1 DEF ErasureIsPending
  <2>2. CASE \E q \in Requests : requests[q].at \in Pending
    <3>1. PICK q \in Requests : requests[q].at \in Pending
      BY <2>2
    <3>2. q # r /\ RequestOK(requests[q])
      BY <1>0, <1>2, <3>1 DEF RequestsOK
    <3>3. Beside(q)
      BY <1>0, <3>2 DEF Goes, Moved
    <3>4. requests'[q].at = requests[q].at
      BY <3>2, <3>3, DisturbedIsOK DEF Beside
    <3> QED BY <3>1, <3>4 DEF ErasureIsPending, Pending
  <2> QED BY <2>1, <2>2 DEF MasterInv, ErasureIsPending, Pending
<1>3. CASE ValidateMaster(r)
  <2>1. UNCHANGED <<bridge, master>>
    BY <1>3 DEF ValidateMaster, tables
  <2>2. CASE Reconciles(Rows, canonical, crm)
    BY <2>1, <2>2, ReconciledIsWhole DEF MasterInv, BridgedIsCanonical, ErasureIsPending
  <2>3. CASE ~Reconciles(Rows, canonical, crm)
    <3>1. requests'[r] = Over("failed")
      BY <1>0, <1>3, <2>3 DEF ValidateMaster, Continues, RequestsOK
    <3>2. requests'[r].at = "failed"
      BY <3>1, EndsWell
    <3> QED BY <1>1, <3>2 DEF Pending
  <2> QED BY <2>2, <2>3
<1>4. CASE Fail(r)
  <2>1. requests'[r] = Over("failed")
    BY <1>0, <1>4 DEF Fail, Continues, RequestsOK
  <2>2. requests'[r].at = "failed"
    BY <2>1, EndsWell
  <2> QED BY <1>1, <2>2 DEF Pending
<1>5. CASE TakeStamp(r)
  <2>1. requests'[r] = [To(r, "upsert") EXCEPT !.stamp = clock']
    BY <1>0, <1>5 DEF TakeStamp, Continues, RequestsOK
  <2>2. requests'[r].at = "upsert"
    BY <1>0, <2>1 DEF To, RequestOK, Shaped
  <2> QED BY <1>1, <2>2 DEF Pending, Mastering
<1>6. ASSUME requests[r].at \in Pending \ {"failed"}, NEW p \in Pending \cap Plain,
             p \in PlacesOf(requests[r].job.kind), Answered(r, To(r, p))
      PROVE  requests'[r].at \in Pending
  <2>1. requests'[r] \in {requests[r], To(r, p)}
    BY <1>0, <1>6 DEF Answered, Writing
  <2>2. To(r, p).at = p
    BY <1>0, <1>6, ToIsOK DEF Active, Pending, Mastering
  <2> QED BY <1>6, <2>1, <2>2
<1>7. CASE RefreshBridge(r) \/ UpsertMaster(r) \/ DeleteOlder(r)
  <2>1. requests[r].at \in {"bridge", "upsert", "delete"}
    BY <1>7 DEF RefreshBridge, UpsertMaster, DeleteOlder
  <2>2. requests[r].job.kind \in Kinds /\ requests[r].job.kind # "canonicalizer"
    <3>1. requests[r].job \in Jobs /\ requests[r].at \in PlacesOf(requests[r].job.kind)
      BY <1>0, <2>1 DEF RequestOK
    <3> QED BY <2>1, <3>1, WhichKinds, JobsAssumption DEF Mastering
  <2>3. \A p \in Mastering : p \in PlacesOf(requests[r].job.kind) /\ p \in Pending \cap Plain
    BY <2>2, WhichKinds DEF Pending, Plain
  <2>4. \E p \in Mastering : Answered(r, To(r, p))
    BY <1>7 DEF RefreshBridge, UpsertMaster, DeleteOlder, Mastering
  <2>5. requests'[r].at \in Pending
    BY <1>6, <2>1, <2>3, <2>4 DEF Pending, Mastering
  <2> QED BY <1>1, <2>5
<1>8. Begin(r) \/ UpsertBatch(r) \/ CompareExport(r) \/ AppendVersion(r) \/ SeedStoreAliases(r)
      \/ SeedSellerAliases(r) \/ SeedSellerAliasesFromCrm(r) \/ InsertAlias(r)
      \/ RefreshCanonical(r)
        => requests[r].at \notin Pending /\ UNCHANGED <<bridge, master>>
  BY DEF Begin, UpsertBatch, CompareExport, AppendVersion, SeedStoreAliases, SeedSellerAliases,
         SeedSellerAliasesFromCrm, InsertAlias, RefreshCanonical, tables, Pending, Mastering
<1> QED BY <1>2, <1>3, <1>4, <1>5, <1>7, <1>8 DEF Acts

\* A type invariant for every table and request, with what the erasure of an operation needs: the
\* rows of the master have their keys, what is bridged is canonical, and what is bridged and not in
\* the master waits for a request that runs or failed.
THEOREM AlwaysAccounted == Spec => []MasterInv
<1>1. Init => MasterInv
  <2> SUFFICES ASSUME Init PROVE MasterInv
    OBVIOUS
  <2> QED BY TypeInit DEF Init, MasterInv, MasterOK, BridgedIsCanonical, ErasureIsPending
<1>2. MasterInv /\ [Next]_vars => MasterInv'
  <2>1. ASSUME MasterInv, NEW r \in Requests, Acts(r)
        PROVE  MasterInv'
    <3>1. TypeOK'
      BY <2>1, TypeStep DEF MasterInv
    <3>2. MasterOK'
      BY <2>1, MasterStep DEF MasterInv
    <3>3. BridgedIsCanonical'
      BY <2>1, BridgedStep DEF MasterInv
    <3>4. ErasureIsPending'
      BY <2>1, PendingStep
    <3> QED BY <3>1, <3>2, <3>3, <3>4 DEF MasterInv
  <2>2. ASSUME MasterInv, UNCHANGED vars
        PROVE  MasterInv'
    BY <2>2 DEF vars, tables, MasterInv, TypeOK, TablesOK, AliasesOK, RequestsOK, MasterOK, KeyOK,
           BridgedIsCanonical, ErasureIsPending
  <2>3. Next => \E r \in Requests : Acts(r)
    BY DEF Next, Acts
  <2> QED BY <2>1, <2>2, <2>3
<1> QED BY <1>1, <1>2, PTL DEF Spec

\* NothingErasedSilently: as long as every request that began succeeds, however they cross, an
\* operation that was bridged is in the master.
THEOREM AlwaysNothingErased == Spec => []NothingErasedSilently
<1>1. MasterInv => NothingErasedSilently
  BY DEF MasterInv, ErasureIsPending, NothingErasedSilently, Mastering
<1> QED BY <1>1, AlwaysAccounted, PTL

-----------------------------------------------------------------------------
(* What a request knows of the tables while it is alone.                   *)

LEMMA UntouchedTables ==
  ASSUME UNCHANGED tables
  PROVE  /\ CanonicalIsExact' <=> CanonicalIsExact
         /\ BridgeIsExact' <=> BridgeIsExact
         /\ MasterIsExact' <=> MasterIsExact
         /\ SourceNow' = SourceNow
<1>1. /\ forum' = forum /\ crm' = crm /\ aliases' = aliases /\ canonical' = canonical
      /\ bridge' = bridge /\ master' = master
  BY DEF tables
<1>2. CanonicalIsExact' <=> CanonicalIsExact
  BY <1>1 DEF CanonicalIsExact, CanonicalNow
<1>3. BridgeIsExact' <=> BridgeIsExact
  BY <1>1 DEF BridgeIsExact, BridgeNow
<1>4. SourceNow' = SourceNow
  BY <1>1 DEF SourceNow
<1>5. MasterIsExact' <=> MasterIsExact
  BY <1>1, <1>4 DEF MasterIsExact
<1> QED BY <1>2, <1>3, <1>4, <1>5

LEMMA OthersStayExact ==
  ASSUME NEW q \in Requests, Beside(q), RequestOK(requests[q]), ExactSoFar(q)
  PROVE  ExactSoFar(q)'
<1>1. CASE requests'[q] = requests[q] /\ UNCHANGED tables
  <2>1. master' = master
    BY <1>1 DEF tables
  <2>2. (Stamped(q)' <=> Stamped(q)) /\ (Upserted(q)' <=> Upserted(q))
    BY <1>1, <2>1, UntouchedTables DEF Stamped, Upserted
  <2> QED BY <1>1, <2>2, UntouchedTables DEF ExactSoFar
<1>2. CASE requests'[q] = requests[q] /\ ~Running(q)
  BY <1>2 DEF ExactSoFar, Running, Ended, Exact, Mastering
<1>3. CASE requests'[q] = [requests[q] EXCEPT !.alone = FALSE]
  <2>1. ~requests'[q].alone
    BY <1>3, DisturbedIsOK
  <2> QED BY <2>1 DEF ExactSoFar
<1> QED BY <1>1, <1>2, <1>3 DEF Beside

\* Where each action leaves its request.
LEMMA WhereTo ==
  ASSUME TypeOK, NEW r \in Requests
  PROVE  /\ Fail(r) => requests'[r].at = "failed"
         /\ ValidateMaster(r) => requests'[r].at \in {"done", "failed"}
         /\ UpsertBatch(r) => requests'[r].at \in {"upload", "stores", "done"}
         /\ CompareExport(r) \/ AppendVersion(r)
              => requests'[r].at \in {"compare", "append", "stores", "done"}
         /\ SeedStoreAliases(r) => requests'[r].at \in {"storeAliases", "sellers"}
         /\ SeedSellerAliases(r) => requests'[r].at \in {"sellerAliases", "canonical"}
         /\ InsertAlias(r) => requests'[r].at \in {"storeAliases", "sellerAliases", "crmAliases",
                                                   "stores", "sellers", "canonical", "failed"}
<1>0. RequestsOK /\ RequestOK(requests[r]) /\ Shaped(requests[r])
  BY DEF TypeOK, RequestsOK, RequestOK
<1>1. ASSUME NEW rec, Continues(r, rec) \/ Writing(r, rec)
      PROVE  requests'[r] = rec
  BY <1>0, <1>1 DEF Continues, Writing, RequestsOK
<1>2. Over("done").at = "done" /\ Over("failed").at = "failed"
  BY EndsWell
<1>3. ASSUME Fail(r) PROVE requests'[r].at = "failed"
  BY <1>1, <1>2, <1>3 DEF Fail
<1>4. ASSUME ValidateMaster(r) PROVE requests'[r].at \in {"done", "failed"}
  BY <1>1, <1>2, <1>4 DEF ValidateMaster
<1>5. AfterImport(r).at \in {"stores", "done"}
  BY <1>0, <1>2 DEF AfterImport, To, Shaped
<1>6. ASSUME UpsertBatch(r) PROVE requests'[r].at \in {"upload", "stores", "done"}
  <2> DEFINE rest == Tail(requests[r].files)
  <2>1. \/ requests'[r] = AfterImport(r)
        \/ requests'[r] = [requests[r] EXCEPT !.files = rest]
    BY <1>1, <1>6 DEF UpsertBatch
  <2>2. [requests[r] EXCEPT !.files = rest].at = "upload"
    BY <1>0, <1>6 DEF UpsertBatch, Shaped
  <2> QED BY <1>5, <2>1, <2>2
<1>7. NextExport(r).at \in {"compare", "stores", "done"}
  <2>1. Shaped(AfterImport(r))
    <3>1. Shaped(Over("done"))
      BY EndsWell DEF RequestOK
    <3>2. Shaped(To(r, "stores"))
      BY <1>0, Altered DEF To
    <3> QED BY <3>1, <3>2 DEF AfterImport
  <2>2. [AfterImport(r) EXCEPT !.files = <<>>, !.todo = {}].at = AfterImport(r).at
    <3> HIDE DEF AfterImport
    <3> QED BY <2>1 DEF Shaped
  <2>3. [requests[r] EXCEPT !.at = "compare", !.files = Tail(requests[r].files), !.todo = {}].at
          = "compare"
    BY <1>0 DEF Shaped
  <2> QED BY <1>2, <1>5, <2>2, <2>3 DEF NextExport
<1>8. ASSUME CompareExport(r)
      PROVE  requests'[r].at \in {"compare", "append", "stores", "done"}
  <2> DEFINE changed == Changed(Head(requests[r].files))
             y == Compared(requests[r], changed, clock')
  <2>1. requests'[r] = NextExport(r) \/ requests'[r] = y
    BY <1>1, <1>8 DEF CompareExport, To, Compared
  <2>2. y.at = "append"
    BY <1>0 DEF Compared, Shaped
  <2> QED BY <1>7, <2>1, <2>2
<1>9. ASSUME AppendVersion(r)
      PROVE  requests'[r].at \in {"compare", "append", "stores", "done"}
  <2>1. PICK d \in requests[r].todo :
          Answered(r, IF requests[r].todo = {d} THEN NextExport(r)
                      ELSE [requests[r] EXCEPT !.todo = @ \ {d}])
    BY <1>9 DEF AppendVersion
  <2>2. requests'[r] \in {requests[r], NextExport(r), [requests[r] EXCEPT !.todo = @ \ {d}]}
    BY <1>1, <2>1 DEF Answered
  <2>3. requests[r].at = "append" /\ [requests[r] EXCEPT !.todo = @ \ {d}].at = requests[r].at
    BY <1>0, <1>9 DEF AppendVersion, Shaped
  <2> QED BY <1>7, <2>2, <2>3
<1>10. ASSUME NEW at, NEW plan, NEW p, Plans(r, at, plan, p)
       PROVE  requests'[r].at \in {at, p}
  <2> DEFINE id == 1 + Max({0} \cup {a.id : a \in aliases[TableOf(at)]})
  <2>1. requests'[r] = To(r, p) \/ requests'[r] = Planned(requests[r], at, plan, id)
    BY <1>1, <1>10 DEF Plans, To, Planned
  <2> HIDE DEF id
  <2>2. To(r, p).at = p /\ Planned(requests[r], at, plan, id).at = at
    BY <1>0 DEF To, Planned, Shaped
  <2> QED BY <2>1, <2>2
<1>11. ASSUME SeedStoreAliases(r) PROVE requests'[r].at \in {"storeAliases", "sellers"}
  BY <1>10, <1>11 DEF SeedStoreAliases
<1>12. ASSUME SeedSellerAliases(r) PROVE requests'[r].at \in {"sellerAliases", "canonical"}
  BY <1>10, <1>12 DEF SeedSellerAliases
<1>13. ASSUME InsertAlias(r)
       PROVE  requests'[r].at \in {"storeAliases", "sellerAliases", "crmAliases",
                                   "stores", "sellers", "canonical", "failed"}
  <2>1. requests[r].at \in {"storeAliases", "sellerAliases", "crmAliases"}
    BY <1>13 DEF InsertAlias
  <2>2. PICK e \in requests[r].todo :
          LET todo == requests[r].todo \ {e}
              next == [requests[r] EXCEPT !.todo = todo, !.id = IF todo = {} THEN 0 ELSE @ + 1,
                         !.at = IF todo = {} THEN AfterAliases(@) ELSE @,
                         !.again = requests[r].at = "crmAliases" \/ @]
          IN Continues(r, next) \/ Continues(r, Over("failed")) \/ Answered(r, next)
    BY <1>13 DEF InsertAlias
  <2> DEFINE todo == requests[r].todo \ {e}
             next == [requests[r] EXCEPT !.todo = todo, !.id = IF todo = {} THEN 0 ELSE @ + 1,
                        !.at = IF todo = {} THEN AfterAliases(@) ELSE @,
                        !.again = requests[r].at = "crmAliases" \/ @]
  <2>3. next.at \in {"storeAliases", "sellerAliases", "crmAliases",
                     "stores", "sellers", "canonical"}
    BY <1>0, <2>1, InsertIsOK
  <2>4. Continues(r, next) \/ Continues(r, Over("failed")) \/ Answered(r, next)
    BY <2>2
  <2> HIDE DEF next
  <2>5. requests'[r] \in {next, Over("failed"), requests[r]}
    BY <1>1, <2>4 DEF Answered
  <2> QED BY <1>2, <2>1, <2>3, <2>5
<1> QED BY <1>3, <1>4, <1>6, <1>8, <1>9, <1>11, <1>12, <1>13

\* An answer leaves the request where it was or takes it on, with what it holds.
LEMMA AnsweredGoesTo ==
  ASSUME TypeOK, NEW r \in Requests, Active(requests[r]), NEW p \in Plain,
         p \in PlacesOf(requests[r].job.kind), Answered(r, To(r, p))
  PROVE  /\ requests'[r].at \in {requests[r].at, p} /\ requests'[r].job = requests[r].job
         /\ requests'[r].alone = requests[r].alone /\ requests'[r].stamp = requests[r].stamp
<1>1. RequestsOK /\ RequestOK(requests[r])
  BY DEF TypeOK, RequestsOK
<1>2. requests'[r] \in {requests[r], To(r, p)}
  BY DEF Answered, Writing
<1> QED BY <1>1, <1>2, ToIsOK

LEMMA KindsThatGoOn ==
  ASSUME TypeOK, NEW r \in Requests, Active(requests[r])
  PROVE  /\ requests[r].job \in Jobs /\ requests[r].job.kind \in Kinds
         /\ requests[r].at \in PlacesOf(requests[r].job.kind)
         /\ requests[r].at \in Exact => \A p \in Mastering : p \in PlacesOf(requests[r].job.kind)
<1>1. RequestOK(requests[r])
  BY DEF TypeOK, RequestsOK
<1>2. /\ requests[r].job \in Jobs /\ requests[r].job.kind \in Kinds
      /\ requests[r].at \in PlacesOf(requests[r].job.kind)
  BY <1>1, JobsAssumption DEF RequestOK, Active
<1>3. requests[r].at \in Exact => requests[r].job.kind # "canonicalizer"
  BY <1>2, WhichKinds DEF Exact
<1> QED BY <1>2, <1>3, WhichKinds

\* The rows that are written are those of the sources, with the stamp of the request.
LEMMA UpsertIsExact ==
  ASSUME TypeOK, NEW r \in Requests, UpsertMaster(r), ExactSoFar(r)
  PROVE  ExactSoFar(r)'
<1>1. /\ requests[r].at = "upsert" /\ Answered(r, To(r, "delete"))
      /\ UNCHANGED <<forum, crm, aliases, canonical, bridge>>
      /\ master' = [k \in DOMAIN SourceNow \cup DOMAIN master |->
                      IF k \in DOMAIN SourceNow
                      THEN [row |-> SourceNow[k], stamp |-> requests[r].stamp] ELSE master[k]]
  BY DEF UpsertMaster
<1>2. /\ requests'[r].at \in {"upsert", "delete"} /\ requests'[r].job = requests[r].job
      /\ requests'[r].alone = requests[r].alone /\ requests'[r].stamp = requests[r].stamp
  <2>1. Active(requests[r]) /\ "upsert" \in Exact /\ "delete" \in Mastering /\ "delete" \in Plain
    BY <1>1 DEF Active, Exact, Mastering, Plain
  <2> QED BY <1>1, <2>1, AnsweredGoesTo, KindsThatGoOn
<1>3. SourceNow' = SourceNow
  BY <1>1 DEF SourceNow
<1>4. /\ CanonicalIsExact' <=> CanonicalIsExact
      /\ BridgeIsExact' <=> BridgeIsExact
  BY <1>1 DEF CanonicalIsExact, CanonicalNow, BridgeIsExact, BridgeNow
<1>5. ASSUME requests[r].alone
      PROVE  Stamped(r)' /\ Upserted(r)'
  <2>1. Stamped(r) /\ requests[r].stamp \in Nat
    BY <1>1, <1>5 DEF ExactSoFar, TypeOK, RequestsOK, RequestOK
  <2> DEFINE S == SourceNow
             t == requests[r].stamp
  <2>2. \A k \in DOMAIN S : /\ k \in DOMAIN master' /\ master'[k].stamp = t
                            /\ master'[k].row = S[k]
    BY <1>1
  <2>3. \A k \in DOMAIN master' \ DOMAIN S : k \in DOMAIN master /\ master'[k] = master[k]
    BY <1>1
  <2>4. requests'[r].stamp = t /\ SourceNow' = S
    BY <1>2, <1>3
  <2>5. \A k \in DOMAIN master : /\ master[k].stamp <= t
                                 /\ master[k].stamp = t => k \in DOMAIN S /\ master[k].row = S[k]
    BY <2>1 DEF Stamped
  <2> HIDE DEF S, t
  <2>6. t \in Nat
    BY <2>1 DEF t
  <2>7. Upserted(r)'
    BY <2>2, <2>4 DEF Upserted
  <2>8. ASSUME NEW k \in DOMAIN master'
        PROVE  /\ master'[k].stamp <= t
               /\ master'[k].stamp = t => k \in DOMAIN S /\ master'[k].row = S[k]
    <3>1. CASE k \in DOMAIN S
      BY <2>2, <2>6, <3>1
    <3>2. CASE k \notin DOMAIN S
      BY <2>3, <2>5, <3>2
    <3> QED BY <3>1, <3>2
  <2>9. Stamped(r)'
    BY <2>4, <2>8 DEF Stamped
  <2> QED BY <2>7, <2>9
<1> QED BY <1>1, <1>2, <1>4, <1>5 DEF ExactSoFar, Exact, Mastering

\* What is deleted is what the sources do not say.
LEMMA DeleteIsExact ==
  ASSUME TypeOK, MasterOK, NEW r \in Requests, DeleteOlder(r), ExactSoFar(r)
  PROVE  ExactSoFar(r)'
<1>1. /\ requests[r].at = "delete" /\ Answered(r, To(r, "validate"))
      /\ UNCHANGED <<forum, crm, aliases, canonical, bridge>>
      /\ master' = [k \in DOMAIN master \ Older(requests[r].stamp) |-> master[k]]
  BY DEF DeleteOlder
<1>2. /\ requests'[r].at \in {"delete", "validate"} /\ requests'[r].job = requests[r].job
      /\ requests'[r].alone = requests[r].alone /\ requests'[r].stamp = requests[r].stamp
  <2>1. /\ Active(requests[r]) /\ "delete" \in Exact
        /\ "validate" \in Mastering /\ "validate" \in Plain
    BY <1>1 DEF Active, Exact, Mastering, Plain
  <2> QED BY <1>1, <2>1, AnsweredGoesTo, KindsThatGoOn
<1>3. SourceNow' = SourceNow
  BY <1>1 DEF SourceNow
<1>4. /\ CanonicalIsExact' <=> CanonicalIsExact
      /\ BridgeIsExact' <=> BridgeIsExact
  BY <1>1 DEF CanonicalIsExact, CanonicalNow, BridgeIsExact, BridgeNow
<1>5. ASSUME requests[r].alone
      PROVE  Stamped(r)' /\ Upserted(r)' /\ MasterIsExact'
  <2>1. Stamped(r) /\ Upserted(r) /\ requests[r].stamp \in Nat
    BY <1>1, <1>5 DEF ExactSoFar, TypeOK, RequestsOK, RequestOK
  <2> DEFINE S == SourceNow
             t == requests[r].stamp
  <2>2. /\ DOMAIN master' = {k \in DOMAIN master : ~(master[k].stamp < t)}
        /\ \A k \in DOMAIN master' : master'[k] = master[k]
    BY <1>1 DEF Older
  <2>3. requests'[r].stamp = t /\ SourceNow' = S
    BY <1>2, <1>3
  <2>4. /\ \A k \in DOMAIN master : /\ master[k].stamp <= t
                                    /\ master[k].stamp = t => k \in DOMAIN S /\ master[k].row = S[k]
        /\ \A k \in DOMAIN S : k \in DOMAIN master /\ master[k].stamp = t
    BY <2>1 DEF Stamped, Upserted
  <2>5. \A k \in DOMAIN master : master[k].stamp \in Nat
    BY DEF MasterOK
  <2> HIDE DEF S, t
  <2>6. t \in Nat
    BY <2>1 DEF t
  <2>7. \A k \in DOMAIN master' : /\ k \in DOMAIN S /\ master'[k].row = S[k]
                                  /\ master'[k].stamp = t
    BY <2>2, <2>4, <2>5, <2>6
  <2>8. \A k \in DOMAIN S : k \in DOMAIN master'
    BY <2>2, <2>4, <2>6
  <2>9. Stamped(r)'
    BY <2>3, <2>6, <2>7 DEF Stamped
  <2>10. Upserted(r)'
    BY <2>3, <2>7, <2>8 DEF Upserted
  <2>11. MasterIsExact'
    BY <2>3, <2>7, <2>8 DEF MasterIsExact
  <2> QED BY <2>9, <2>10, <2>11
<1> QED BY <1>1, <1>2, <1>4, <1>5 DEF ExactSoFar, Exact, Mastering

LEMMA MoverStaysExact ==
  ASSUME TypeOK, MasterOK, NEW r \in Requests, Acts(r), ExactSoFar(r)
  PROVE  ExactSoFar(r)'
<1>0. RequestsOK /\ RequestOK(requests[r]) /\ Shaped(requests[r])
  BY DEF TypeOK, RequestsOK, RequestOK
<1>1. CASE requests'[r].at \notin Exact
  BY <1>1 DEF ExactSoFar, Exact, Mastering
<1>2. CASE Begin(r)
  <2>1. PICK job \in Jobs :
          requests'[r] = [Idle EXCEPT !.at = First(job), !.job = job, !.files = job.files]
    BY <1>0, <1>2 DEF Begin, Continues, RequestsOK
  <2>2. /\ requests'[r].at \in {"upload", "compare", "stores", "stamp"}
        /\ requests'[r].at = "stamp" <=> requests'[r].job.kind = "master"
    <3> DEFINE x == [Idle EXCEPT !.at = First(job), !.job = job, !.files = job.files]
    <3>1. /\ x.at \in {"upload", "compare", "stores", "stamp"} /\ x.job = job
          /\ x.at = "stamp" <=> job.kind = "master"
      BY JobsBegin
    <3>2. requests'[r] = x
      BY <2>1
    <3> HIDE DEF x
    <3> QED BY <3>1, <3>2
  <2> QED BY <2>2 DEF ExactSoFar, Exact, Mastering
<1>3. CASE SeedSellerAliasesFromCrm(r)
  <2> DEFINE plan == Agreed(forum, canonical, crm, aliases.sellers)
             id == 1 + Max({0} \cup {a.id : a \in aliases[TableOf("crmAliases")]})
  <2>1. requests[r].at = "crmMatches" /\ UNCHANGED tables
    BY <1>3 DEF SeedSellerAliasesFromCrm
  <2>2. \/ requests'[r] = To(r, "bridge")
        \/ requests'[r] = Planned(requests[r], "crmAliases", plan, id)
    BY <1>0, <1>3 DEF SeedSellerAliasesFromCrm, Plans, Continues, To, Planned, RequestsOK
  <2> HIDE DEF plan, id
  <2>3. /\ requests'[r].at \in {"bridge", "crmAliases"} /\ requests'[r].job = requests[r].job
        /\ requests'[r].alone = requests[r].alone
    BY <1>0, <2>2 DEF To, Planned, Shaped
  <2> QED BY <2>1, <2>3, UntouchedTables DEF ExactSoFar, Exact, Mastering
<1>4. CASE RefreshCanonical(r)
  <2>1. /\ canonical' = [o \in Ops |-> CanonicalNow(o)] /\ requests[r].at = "canonical"
        /\ UNCHANGED <<forum, aliases>>
    BY <1>4 DEF RefreshCanonical
  <2>2. CanonicalIsExact'
    BY <2>1 DEF CanonicalIsExact, CanonicalNow
  <2>3. requests'[r].at \in {"canonical", "done", "bridge", "crmMatches"}
    <3>1. requests'[r] \in {requests[r], Over("done"), To(r, "bridge"), To(r, "crmMatches")}
      BY <1>0, <1>4 DEF RefreshCanonical, Answered, Writing
    <3> QED BY <1>0, <2>1, <3>1, EndsWell DEF To, Shaped
  <2> QED BY <2>2, <2>3 DEF ExactSoFar, Exact, Mastering
<1>5. CASE RefreshBridge(r)
  <2>1. /\ bridge' = [o \in Ops |-> BridgeNow(o)] /\ requests[r].at = "bridge"
        /\ UNCHANGED <<forum, crm, aliases, canonical>> /\ Answered(r, To(r, "stamp"))
    BY <1>5 DEF RefreshBridge
  <2>2. BridgeIsExact'
    BY <2>1 DEF BridgeIsExact, BridgeNow
  <2>3. CanonicalIsExact' <=> CanonicalIsExact
    BY <2>1 DEF CanonicalIsExact, CanonicalNow
  <2>4. /\ requests'[r].at \in {"bridge", "stamp"} /\ requests'[r].job = requests[r].job
        /\ requests'[r].alone = requests[r].alone
    <3>1. Active(requests[r]) /\ "bridge" \in Exact /\ "stamp" \in Mastering /\ "stamp" \in Plain
      BY <2>1 DEF Active, Exact, Mastering, Plain
    <3> QED BY <2>1, <3>1, AnsweredGoesTo, KindsThatGoOn
  <2> QED BY <2>1, <2>2, <2>3, <2>4 DEF ExactSoFar, Exact, Mastering
<1>6. CASE TakeStamp(r)
  <2> DEFINE y == [[requests[r] EXCEPT !.at = "upsert"] EXCEPT !.stamp = clock']
  <2>1. requests[r].at = "stamp" /\ clock' = clock + 1 /\ UNCHANGED tables /\ requests'[r] = y
    BY <1>0, <1>6 DEF TakeStamp, To, Continues, RequestsOK
  <2>2. /\ y.at = "upsert" /\ y.job = requests[r].job /\ y.alone = requests[r].alone
        /\ y.stamp = clock'
    BY <1>0 DEF Shaped
  <2> HIDE DEF y
  <2>3. Stamped(r)'
    <3>1. \A k \in DOMAIN master : master[k].stamp <= clock /\ master[k].stamp \in Nat
      BY DEF MasterOK
    <3>2. clock \in Nat /\ master' = master
      BY <2>1 DEF TypeOK, TablesOK, tables
    <3> QED BY <2>1, <2>2, <3>1, <3>2 DEF Stamped
  <2> QED BY <2>1, <2>2, <2>3, UntouchedTables DEF ExactSoFar, Exact, Mastering
<1>7. Fail(r) \/ ValidateMaster(r) \/ UpsertBatch(r) \/ CompareExport(r) \/ AppendVersion(r)
      \/ SeedStoreAliases(r) \/ SeedSellerAliases(r) \/ InsertAlias(r)
        => requests'[r].at \notin Exact
  <2>1. ASSUME NEW at, at \in Exact
        PROVE  at \notin {"done", "failed", "upload", "compare", "append", "stores", "sellers",
                          "storeAliases", "sellerAliases", "crmAliases", "canonical"}
    BY <2>1 DEF Exact, Mastering
  <2> QED BY <2>1, WhereTo
<1> QED BY <1>1, <1>2, <1>3, <1>4, <1>5, <1>6, <1>7, UpsertIsExact, DeleteIsExact DEF Acts

-----------------------------------------------------------------------------
(* The universe that is counted over the master.                           *)

LEMMA PartsAddUp ==
  ASSUME NEW S, IsFiniteSet(S), NEW A, NEW B, S = A \cup B, A \cap B = {}
  PROVE  /\ IsFiniteSet(A) /\ IsFiniteSet(B)
         /\ Cardinality(A) \in Nat /\ Cardinality(B) \in Nat
         /\ Cardinality(A) + Cardinality(B) = Cardinality(S)
<1>1. IsFiniteSet(A) /\ IsFiniteSet(B)
  BY FS_Subset
<1>2. Cardinality(A) \in Nat /\ Cardinality(B) \in Nat
  BY <1>1, FS_CardinalityType
<1>3. Cardinality(A \cup B) = Cardinality(A) + Cardinality(B) - Cardinality(A \cap B)
  BY <1>1, FS_Union
<1>4. Cardinality(A \cap B) = 0
  BY FS_EmptySet
<1> QED BY <1>1, <1>2, <1>3, <1>4

\* Rows that are told apart by their operation, and by their deal when they have none.
Apart(rows) ==
  /\ \A row \in rows :
       /\ row.op \in Ops \cup {None} /\ row.deal \in Deals \cup {None}
       /\ row.op # None => row.match \in {"MATCHED", "AMBIGUOUS", "UNMATCHED"}
       /\ Cardinality(row.stores) > 1 => row.store = None
       /\ Cardinality(row.persons) > 1 => row.person = None
  /\ \A a, b \in rows : a.op # None /\ a.op = b.op => a = b
  /\ \A a, b \in rows : a.op # None /\ b.op = None /\ a.deal # None => a.deal # b.deal

LEMMA ApartIsValid ==
  ASSUME NEW rows, Apart(rows), NEW sel
  PROVE  UniverseIsValid(rows, sel)
<1> DEFINE chosen == Selected(rows, sel)
           With(s) == OpsIn({row \in chosen : row.match = s})
<1>1. chosen \in SUBSET rows /\ Eligible(rows, sel) \in SUBSET rows
  BY DEF Selected, Eligible
<1>2. Apart(chosen)
  BY <1>1 DEF Apart
<1> HIDE DEF chosen
<1>3. IsFiniteSet(OpsIn(chosen)) /\ IsFiniteSet(DealsIn(chosen))
  <2>1. OpsIn(chosen) \in SUBSET Ops /\ DealsIn(chosen) \in SUBSET Deals
    BY <1>2 DEF Apart, OpsIn, DealsIn, Known
  <2> QED BY <2>1, FS_Subset, IdentityAssumption
<1>4. Cardinality(OpsIn(WithCrm(chosen))) + Cardinality(OpsIn(WithoutCrm(chosen)))
        = Cardinality(OpsIn(chosen))
  <2>1. OpsIn(chosen) = OpsIn(WithCrm(chosen)) \cup OpsIn(WithoutCrm(chosen))
    BY DEF OpsIn, WithCrm, WithoutCrm, Known
  <2>2. OpsIn(WithCrm(chosen)) \cap OpsIn(WithoutCrm(chosen)) = {}
    BY <1>2 DEF OpsIn, WithCrm, WithoutCrm, Known, Apart
  <2> QED BY <1>3, <2>1, <2>2, PartsAddUp
<1>5. Cardinality(DealsIn(WithForum(chosen))) + Cardinality(DealsIn(WithoutForum(chosen)))
        = Cardinality(DealsIn(chosen))
  <2>1. DealsIn(chosen) = DealsIn(WithForum(chosen)) \cup DealsIn(WithoutForum(chosen))
    BY DEF DealsIn, WithForum, WithoutForum, Known
  <2>2. DealsIn(WithForum(chosen)) \cap DealsIn(WithoutForum(chosen)) = {}
    BY <1>2 DEF DealsIn, WithForum, WithoutForum, Known, Apart
  <2> QED BY <1>3, <2>1, <2>2, PartsAddUp
<1>6. Cardinality(With("MATCHED")) + Cardinality(With("AMBIGUOUS")) + Cardinality(With("UNMATCHED"))
        = Cardinality(OpsIn(chosen))
  <2>1. OpsIn(chosen) = (With("MATCHED") \cup With("AMBIGUOUS")) \cup With("UNMATCHED")
    BY <1>2 DEF OpsIn, Known, Apart
  <2>2. /\ With("MATCHED") \cap With("AMBIGUOUS") = {}
        /\ (With("MATCHED") \cup With("AMBIGUOUS")) \cap With("UNMATCHED") = {}
    BY <1>2 DEF OpsIn, Known, Apart
  <2> DEFINE some == With("MATCHED") \cup With("AMBIGUOUS")
  <2> HIDE DEF With
  <2>3. /\ IsFiniteSet(some)
        /\ Cardinality(some) + Cardinality(With("UNMATCHED")) = Cardinality(OpsIn(chosen))
    BY <1>3, <2>1, <2>2, PartsAddUp
  <2>4. Cardinality(With("MATCHED")) + Cardinality(With("AMBIGUOUS")) = Cardinality(some)
    BY <2>2, <2>3, PartsAddUp
  <2> QED BY <2>3, <2>4
<1>7. \A row \in Eligible(rows, sel) : /\ Cardinality(row.stores) > 1 => row.store = None
                                       /\ Cardinality(row.persons) > 1 => row.person = None
  BY <1>1 DEF Apart
<1> QED BY <1>4, <1>5, <1>6, <1>7 DEF UniverseIsValid, chosen

LEMMA ManyHaveNoConsensus ==
  ASSUME NEW values, Cardinality(Known(values)) > 1
  PROVE  Consensus(values) = None
BY DEF Consensus, TheOnly

LEMMA JoinedSays ==
  ASSUME NEW op, NEW f, NEW b, NEW sellers, NEW count
  PROVE  LET row == Joined(op, f, b, crm, sellers, count)
         IN /\ row.op = op /\ row.deal = b.deal /\ row.match = b.status
            /\ Cardinality(row.stores) > 1 => row.store = None
            /\ Cardinality(row.persons) > 1 => row.person = None
<1> DEFINE row == Joined(op, f, b, crm, sellers, count)
<1>1. row.op = op /\ row.deal = b.deal /\ row.match = b.status
  BY DEF Joined
<1>2. \E values : row.stores = Known(values) /\ row.store = Consensus(values)
  BY DEF Joined
<1>3. \E values : row.persons = Known(values) /\ row.person = Consensus(values)
  BY DEF Joined
<1> HIDE DEF row
<1>4. /\ Cardinality(row.stores) > 1 => row.store = None
      /\ Cardinality(row.persons) > 1 => row.person = None
  BY <1>2, <1>3, ManyHaveNoConsensus
<1> QED BY <1>1, <1>4 DEF row

\* A master that is what its sources say has valid reports.
LEMMA ExactIsReportable ==
  ASSUME TypeOK, MasterIsExact
  PROVE  MasterIsReportable
<1>1. ASSUME NEW o \in Ops
      PROVE  LET row == ForumNow(o)
             IN /\ row.op = o /\ row.deal \in Matched(bridge) \cup {None}
                /\ row.match \in {"MATCHED", "AMBIGUOUS", "UNMATCHED"}
                /\ Cardinality(row.stores) > 1 => row.store = None
                /\ Cardinality(row.persons) > 1 => row.person = None
  <2> DEFINE b == IF bridge[o] = None THEN NoRow ELSE bridge[o]
             c == IF b.deal = None THEN 0 ELSE Cardinality(Operations(bridge, b.deal))
             given == [deal |-> b.deal, status |-> b.status]
  <2>1. ForumNow(o) = Joined(o, canonical[o], given, crm, aliases.sellers, c)
    BY DEF ForumNow, ForumRow
  <2>2. /\ b.status \in {"MATCHED", "AMBIGUOUS", "UNMATCHED"}
        /\ b.deal \in Matched(bridge) \cup {None}
    <3>1. CASE bridge[o] = None
      BY <3>1 DEF NoRow
    <3>2. CASE bridge[o] # None
      <4>1. bridge[o] \in BridgeRows
        BY <3>2 DEF TypeOK, TablesOK
      <4> QED BY <3>2, <4>1 DEF BridgeRows, Matched, Operations
    <3> QED BY <3>1, <3>2
  <2>3. given.deal = b.deal /\ given.status = b.status
    OBVIOUS
  <2> HIDE DEF b, c, given
  <2> QED BY <2>1, <2>2, <2>3, JoinedSays
<1>2. ASSUME NEW d \in LoneDeals
      PROVE  LET row == CrmNow(d)
             IN /\ row.op = None /\ row.deal = d /\ d \in Deals /\ d \notin Matched(bridge)
                /\ Cardinality(row.stores) > 1 => row.store = None
                /\ Cardinality(row.persons) > 1 => row.person = None
  <2> DEFINE given == [deal |-> d, status |-> "NOT_APPLICABLE"]
  <2>1. CrmNow(d) = Joined(None, NoRow, given, crm, aliases.sellers, 0)
    BY DEF CrmNow, CrmRow
  <2>2. given.deal = d
    OBVIOUS
  <2>3. d \in Deals /\ d \notin Matched(bridge)
    BY DEF LoneDeals, TypeOK, TablesOK
  <2> HIDE DEF given
  <2> QED BY <2>1, <2>2, <2>3, JoinedSays
<1>3. ASSUME NEW row \in Rows
      PROVE  (\E o \in Ops : row = ForumNow(o)) \/ (\E d \in LoneDeals : row = CrmNow(d))
  <2>1. PICK k \in DOMAIN SourceNow : row = SourceNow[k]
    BY DEF Rows, MasterIsExact
  <2> QED BY <2>1, SourceByKey
<1>4. Apart(Rows)
  <2>1. Matched(bridge) \in SUBSET Deals /\ None \notin Ops
    BY IdentityAssumption DEF Matched
  <2>2. ASSUME NEW row \in Rows
        PROVE  /\ row.op \in Ops \cup {None} /\ row.deal \in Deals \cup {None}
               /\ row.op # None => /\ row = ForumNow(row.op)
                                   /\ row.deal \in Matched(bridge) \cup {None}
                                   /\ row.match \in {"MATCHED", "AMBIGUOUS", "UNMATCHED"}
               /\ row.op = None => row.deal \notin Matched(bridge)
               /\ Cardinality(row.stores) > 1 => row.store = None
               /\ Cardinality(row.persons) > 1 => row.person = None
    <3>1. CASE \E o \in Ops : row = ForumNow(o)
      BY <1>1, <2>1, <3>1
    <3>2. CASE \E d \in LoneDeals : row = CrmNow(d)
      BY <1>2, <2>1, <3>2
    <3> QED BY <1>3, <3>1, <3>2
  <2> QED BY <2>2 DEF Apart
<1> QED BY <1>4, ApartIsValid DEF MasterIsReportable

-----------------------------------------------------------------------------
(* The exports an import has read.                                         *)

LEMMA OthersStayHeld ==
  ASSUME NEW q \in Requests, Beside(q), RequestOK(requests[q]), HeldSoFar(q)
  PROVE  HeldSoFar(q)'
<1>1. CASE requests'[q] = requests[q] /\ UNCHANGED tables
  <2>1. crm' = crm
    BY <1>1 DEF tables
  <2> QED BY <1>1, <2>1 DEF HeldSoFar
<1>2. CASE requests'[q] = requests[q] /\ ~Running(q)
  BY <1>2 DEF HeldSoFar, Running, Ended, Refreshing, Aliasing, Mastering
<1>3. CASE requests'[q] = [requests[q] EXCEPT !.alone = FALSE]
  <2>1. ~requests'[q].alone
    BY <1>3, DisturbedIsOK
  <2> QED BY <2>1 DEF HeldSoFar
<1> QED BY <1>1, <1>2, <1>3 DEF Beside

LEMMA HeldKept ==
  ASSUME NEW table, NEW after, NEW files, NEW k, NEW D, NEW E,
         Held(table, files, k, D), D \subseteq E,
         \A d : d \notin E => Latest(after, d) = Latest(table, d)
  PROVE  Held(after, files, k, E)
BY DEF Held

\* How a request ends well.
\* When the next export is taken, the one before is in the table.
LEMMA NextIsHeld ==
  ASSUME TypeOK, NEW r \in Requests, requests[r].at \in {"compare", "append"}, NEW k \in Nat,
         LeftAfter(requests[r].files, requests[r].job.files, k), NEW table,
         Held(table, requests[r].job.files, k + 1, {}), NEW x, x = NextExport(r)
  PROVE  /\ x.alone /\ x.at = "compare" =>
              LeftAfter(x.files, x.job.files, k + 1) /\ Held(table, x.job.files, k + 1, {})
         /\ x.at \in Refreshing => Held(table, x.job.files, Len(x.job.files), {})
         /\ x.at # "append"
         /\ x.at = "done" =>
              /\ Held(table, requests[r].job.files, Len(requests[r].job.files), {})
              /\ NoForum \/ ~requests[r].job.refresh
<1> DEFINE files == requests[r].files
           all == requests[r].job.files
<1>0. RequestsOK /\ RequestOK(requests[r]) /\ Shaped(requests[r])
  BY DEF TypeOK, RequestsOK, RequestOK
<1>1. files \in Seq(FilesOf("crm")) /\ files # <<>>
  BY <1>0 DEF RequestOK
<1>2. /\ Tail(files) \in Seq(FilesOf("crm")) /\ Len(Tail(files)) = Len(files) - 1
      /\ \A i \in 1..Len(Tail(files)) : Tail(files)[i] = files[i + 1]
      /\ Len(files) \in Nat \ {0}
  BY <1>1
<1>3. CASE Tail(files) # <<>>
  <2> DEFINE y == [requests[r] EXCEPT !.at = "compare", !.files = Tail(files), !.todo = {}]
  <2>1. x = y
    BY <1>3 DEF NextExport
  <2>2. y.at = "compare" /\ y.files = Tail(files) /\ y.job = requests[r].job
    BY <1>0 DEF Shaped
  <2> HIDE DEF y
  <2>3. LeftAfter(Tail(files), all, k + 1)
    <3>1. Len(all) = k + Len(files) /\ \A i \in 1..Len(files) : files[i] = all[k + i]
      BY DEF LeftAfter
    <3> HIDE DEF files, all
    <3>2. Len(all) = (k + 1) + Len(Tail(files))
      BY <1>2, <3>1
    <3>3. ASSUME NEW i \in 1..Len(Tail(files))
          PROVE  Tail(files)[i] = all[(k + 1) + i]
      <4>1. i + 1 \in 1..Len(files) /\ Tail(files)[i] = files[i + 1]
        BY <1>2
      <4>2. files[i + 1] = all[k + (i + 1)] /\ k + (i + 1) = (k + 1) + i
        BY <3>1, <4>1
      <4> QED BY <4>1, <4>2
    <3> QED BY <3>2, <3>3 DEF LeftAfter
  <2>4. "compare" \notin Refreshing
    BY DEF Refreshing, Aliasing, Mastering
  <2> QED BY <2>1, <2>2, <2>3, <2>4
<1>4. CASE Tail(files) = <<>>
  <2>1. Len(all) = k + 1
    <3>1. Len(all) = k + Len(files)
      BY DEF LeftAfter
    <3>2. Len(files) = 1
      <4>1. Len(Tail(files)) = Len(files) - 1 /\ Len(files) \in Nat
        BY <1>2
      <4> DEFINE rest == Tail(files)
      <4>2. rest = <<>>
        BY <1>4
      <4> HIDE DEF files, rest
      <4>3. Len(rest) = 0
        BY <4>2
      <4> QED BY <4>1, <4>3 DEF rest
    <3> QED BY <3>1, <3>2
  <2>2. Held(table, all, Len(all), {})
    BY <2>1
  <2>3. x = IF NoForum THEN Over("done") ELSE [AfterImport(r) EXCEPT !.files = <<>>, !.todo = {}]
    BY <1>4 DEF NextExport
  <2>4. "done" \notin Refreshing
    BY DEF Refreshing, Aliasing, Mastering
  <2>5. CASE NoForum
    BY <2>2, <2>3, <2>4, <2>5, EndsWell
  <2>6. CASE ~NoForum
    <3> DEFINE y == AfterImport(r)
    <3>1. Shaped(y) /\ y.at \in {"stores", "done"} /\ (y.at = "done" => ~requests[r].job.refresh)
          /\ (y.at = "stores" => y.job = requests[r].job)
      <4>1. CASE requests[r].job.refresh
        BY <1>0, <4>1, Altered DEF AfterImport, To, Shaped
      <4>2. CASE ~requests[r].job.refresh
        BY <4>2, EndsWell DEF AfterImport, RequestOK
      <4> QED BY <4>1, <4>2
    <3>2. x = [y EXCEPT !.files = <<>>, !.todo = {}]
      BY <2>3, <2>6
    <3> HIDE DEF y
    <3>3. x.at = y.at /\ x.job = y.job
      BY <3>1, <3>2 DEF Shaped
    <3> QED BY <2>2, <2>4, <3>1, <3>3
  <2> QED BY <2>5, <2>6
<1> QED BY <1>3, <1>4

\* The step of a request keeps what it knows of the exports; and when it succeeds, it has them all.
HeldOn(r) ==
  /\ HeldSoFar(r)'
  /\ requests[r].alone /\ requests[r].job.kind = "crm" /\ requests'[r].at = "done"
       => Held(crm', requests[r].job.files, Len(requests[r].job.files), {})

LEMMA NextHoldsOn ==
  ASSUME TypeOK, NEW r \in Requests, requests[r].at \in {"compare", "append"}, NEW k \in Nat,
         LeftAfter(requests[r].files, requests[r].job.files, k),
         Held(crm', requests[r].job.files, k + 1, {}), requests'[r] = NextExport(r)
  PROVE  HeldOn(r)
<1> DEFINE x == NextExport(r)
<1>1. /\ x.alone /\ x.at = "compare" =>
              LeftAfter(x.files, x.job.files, k + 1) /\ Held(crm', x.job.files, k + 1, {})
      /\ x.at \in Refreshing => Held(crm', x.job.files, Len(x.job.files), {})
      /\ x.at # "append"
      /\ x.at = "done" => Held(crm', requests[r].job.files, Len(requests[r].job.files), {})
  BY NextIsHeld
<1>2. requests'[r] = x
  OBVIOUS
<1>3. k + 1 \in Nat
  OBVIOUS
<1> HIDE DEF x
<1> QED BY <1>1, <1>2, <1>3 DEF HeldOn, HeldSoFar

LEMMA NotAloneAgain ==
  ASSUME TypeOK, NEW r \in Requests, requests[r].at \in {"compare", "append"}, ~requests[r].alone,
         NextExport(r).alone
  PROVE  NextExport(r).at = "done"
<1> DEFINE files == requests[r].files
<1>0. Shaped(requests[r])
  BY DEF TypeOK, RequestsOK, RequestOK
<1>1. CASE Tail(files) # <<>>
  BY <1>0, <1>1 DEF NextExport, Shaped
<1>2. CASE Tail(files) = <<>> /\ NoForum
  BY <1>2, EndsWell DEF NextExport
<1>3. CASE Tail(files) = <<>> /\ ~NoForum
  <2> DEFINE a == AfterImport(r)
  <2>1. Shaped(a) /\ (a.alone => a.at = "done")
    <3>1. CASE requests[r].job.refresh
      BY <1>0, <3>1, Altered DEF AfterImport, To, Shaped
    <3>2. CASE ~requests[r].job.refresh
      BY <3>2, EndsWell DEF AfterImport, RequestOK
    <3> QED BY <3>1, <3>2
  <2>2. NextExport(r) = [a EXCEPT !.files = <<>>, !.todo = {}]
    BY <1>3 DEF NextExport
  <2> HIDE DEF a
  <2> QED BY <2>1, <2>2 DEF Shaped
<1> QED BY <1>1, <1>2, <1>3

LEMMA CompareHolds ==
  ASSUME TypeOK, NEW r \in Requests, CompareExport(r), HeldSoFar(r)
  PROVE  HeldOn(r)
<1> DEFINE files == requests[r].files
           all == requests[r].job.files
           changed == Changed(Head(files))
           y == Compared(requests[r], changed, clock')
<1>0. RequestsOK /\ RequestOK(requests[r]) /\ Shaped(requests[r])
  BY DEF TypeOK, RequestsOK, RequestOK
<1>1. /\ requests[r].at = "compare" /\ crm' = crm
      /\ clock' = IF changed = {} THEN clock ELSE clock + 1
      /\ requests'[r] = IF changed = {} THEN NextExport(r) ELSE y
  BY <1>0 DEF CompareExport, Compared, To, Continues, RequestsOK, tables
<1>2. /\ files \in Seq(FilesOf("crm")) \ {<<>>}
      /\ changed \in SUBSET DOMAIN Head(files)
      /\ \A d \in DOMAIN Head(files) \ changed : Latest(crm, d) = Head(files)[d]
  BY <1>0, <1>1 DEF RequestOK, Changed
<1>3. ASSUME NEW k \in Nat, LeftAfter(files, all, k)
      PROVE  Head(files) = all[k + 1]
  <2>1. 1 \in 1..Len(files) /\ Head(files) = files[1]
    BY <1>2
  <2> QED BY <1>3, <2>1 DEF LeftAfter
<1>4. CASE changed # {}
  <2>1. y.at = "append" /\ y.files = files /\ y.job = requests[r].job /\ y.todo = changed
        /\ y.alone = requests[r].alone /\ y.stamp = clock'
    BY <1>0 DEF Compared, Shaped
  <2>2. requests'[r] = y /\ clock' = clock + 1
    BY <1>1, <1>4
  <2> HIDE DEF y, changed
  <2>3. \A v \in crm' : v.stamp <= clock' /\ v.stamp # clock'
    BY <1>1, <2>2 DEF TypeOK, TablesOK
  <2>4. ASSUME requests[r].alone
        PROVE  \E k \in Nat : LeftAfter(files, all, k) /\ Held(crm', all, k, DOMAIN Head(files))
    <3>1. PICK k \in Nat : LeftAfter(files, all, k) /\ Held(crm, all, k, {})
      BY <1>1, <2>4 DEF HeldSoFar
    <3>2. Held(crm', all, k, DOMAIN Head(files))
      BY <1>1, <3>1, HeldKept
    <3> QED BY <3>1, <3>2
  <2>5. "append" \notin Refreshing
    BY DEF Refreshing, Aliasing, Mastering
  <2> HIDE DEF files, all
  <2>6. /\ requests'[r].files = files /\ requests'[r].job.files = all
        /\ requests'[r].todo = changed /\ requests'[r].at = "append"
        /\ requests'[r].alone = requests[r].alone /\ requests'[r].stamp = clock'
    BY <2>1, <2>2 DEF all
  <2> QED BY <1>1, <1>2, <2>3, <2>4, <2>5, <2>6 DEF HeldOn, HeldSoFar
<1>5. CASE changed = {} /\ requests[r].alone
  <2>1. PICK k \in Nat : LeftAfter(files, all, k) /\ Held(crm, all, k, {})
    BY <1>1, <1>5 DEF HeldSoFar
  <2>2. \A d \in DOMAIN all[k + 1] : Latest(crm', d) = all[k + 1][d]
    BY <1>1, <1>2, <1>3, <1>5, <2>1
  <2>3. Held(crm', all, k, DOMAIN all[k + 1])
    BY <1>1, <2>1, HeldKept
  <2>4. Held(crm', all, k + 1, {})
    <3> HIDE DEF all
    <3> QED BY <2>2, <2>3, HeldOneMore
  <2>5. requests'[r] = NextExport(r)
    BY <1>1, <1>5
  <2> QED BY <1>1, <2>1, <2>4, <2>5, NextHoldsOn
<1>6. CASE changed = {} /\ ~requests[r].alone
  <2>1. requests'[r] = NextExport(r)
    BY <1>1, <1>6
  <2>2. NextExport(r).alone => NextExport(r).at = "done"
    BY <1>1, <1>6, NotAloneAgain
  <2>3. "done" \notin Refreshing
    BY DEF Refreshing, Aliasing, Mastering
  <2> QED BY <1>6, <2>1, <2>2, <2>3 DEF HeldOn, HeldSoFar
<1> QED BY <1>4, <1>5, <1>6

LEMMA AppendHolds ==
  ASSUME TypeOK, NEW r \in Requests, AppendVersion(r), HeldSoFar(r)
  PROVE  HeldOn(r)
<1> DEFINE files == requests[r].files
           all == requests[r].job.files
           todo == requests[r].todo
           stamp == requests[r].stamp
<1>0. RequestsOK /\ RequestOK(requests[r]) /\ Shaped(requests[r])
  BY DEF TypeOK, RequestsOK, RequestOK
<1>1. requests[r].at = "append"
  BY DEF AppendVersion
<1>2. PICK d \in todo :
        /\ crm' = crm \cup {[deal |-> d, row |-> Head(files)[d], stamp |-> stamp]}
        /\ Answered(r, IF todo = {d} THEN NextExport(r) ELSE [requests[r] EXCEPT !.todo = @ \ {d}])
  BY DEF AppendVersion
<1> DEFINE less == [requests[r] EXCEPT !.todo = todo \ {d}]
<1>3. \/ requests'[r] = requests[r]
      \/ requests'[r] = less
      \/ todo = {d} /\ requests'[r] = NextExport(r)
  BY <1>0, <1>2 DEF Answered, Writing
<1>4. /\ files \in Seq(FilesOf("crm")) \ {<<>>} /\ todo \in SUBSET DOMAIN Head(files)
      /\ stamp \in Nat
  BY <1>0, <1>1 DEF RequestOK
<1>5. /\ less.at = "append" /\ less.files = files /\ less.job = requests[r].job
      /\ less.todo = todo \ {d} /\ less.alone = requests[r].alone /\ less.stamp = stamp
  BY <1>0, <1>1 DEF Shaped
<1>6. "append" \notin Refreshing /\ "done" \notin Refreshing
  BY DEF Refreshing, Aliasing, Mastering
<1>7. CASE ~requests[r].alone
  <2>1. NextExport(r).alone => NextExport(r).at = "done"
    BY <1>1, <1>7, NotAloneAgain
  <2> HIDE DEF less
  <2> QED BY <1>1, <1>3, <1>5, <1>6, <1>7, <2>1 DEF HeldOn, HeldSoFar
<1>8. CASE requests[r].alone
  <2>1. PICK k \in Nat : LeftAfter(files, all, k) /\ Held(crm, all, k, DOMAIN Head(files))
    BY <1>1, <1>8 DEF HeldSoFar
  <2>2. /\ \A e \in DOMAIN Head(files) \ todo : Latest(crm, e) = Head(files)[e]
        /\ \A v \in crm : /\ v.stamp <= stamp
                          /\ v.stamp = stamp => v.deal \in DOMAIN Head(files)
                                                /\ v.row = Head(files)[v.deal]
    BY <1>1, <1>8 DEF HeldSoFar
  <2>3. Head(files) = all[k + 1]
    <3>1. 1 \in 1..Len(files) /\ Head(files) = files[1]
      BY <1>4
    <3> QED BY <2>1, <3>1 DEF LeftAfter
  <2>4. \A v \in crm : v.stamp \in Int
    BY DEF TypeOK, TablesOK
  <2> DEFINE file == Head(files)
             row == file[d]
             new == [deal |-> d, row |-> row, stamp |-> stamp]
  <2> HIDE DEF files, all, todo, stamp, less
  <2>5. d \in DOMAIN file
    BY <1>4
  <2> HIDE DEF file
  <2>6. /\ Latest(crm', d) = row
        /\ \A e : e # d => Latest(crm', e) = Latest(crm, e)
    <3>1. \A v \in crm : v.deal = d /\ v.stamp = stamp => v.row = row
      BY <2>2 DEF file
    <3>2. crm' = crm \cup {new}
      BY <1>2 DEF file
    <3>3. stamp \in Int /\ \A v \in crm : v.stamp \in Int /\ v.stamp <= stamp
      BY <1>4, <2>2, <2>4
    <3>4. new.deal = d /\ new.row = row /\ new.stamp = stamp
      OBVIOUS
    <3> HIDE DEF row, new
    <3> QED BY <3>1, <3>2, <3>3, <3>4, LatestOfAppended
  <2>7. Held(crm', all, k, DOMAIN file)
    <3>1. \A e : e \notin DOMAIN file => Latest(crm', e) = Latest(crm, e)
      BY <2>5, <2>6
    <3>2. Held(crm, all, k, DOMAIN file)
      BY <2>1 DEF file
    <3> QED BY <3>1, <3>2, HeldKept
  <2>8. /\ \A e \in DOMAIN file \ (todo \ {d}) : Latest(crm', e) = file[e]
        /\ \A e \in DOMAIN file \ todo : Latest(crm', e) = file[e]
    BY <1>2, <2>2, <2>6 DEF file
  <2>9. \A v \in crm' : /\ v.stamp <= stamp
                        /\ v.stamp = stamp => v.deal \in DOMAIN file /\ v.row = file[v.deal]
    <3>1. new.deal = d /\ new.row = file[d] /\ new.stamp = stamp /\ crm' = crm \cup {new}
      BY <1>2 DEF file
    <3> HIDE DEF new
    <3>2. \A v \in crm : /\ v.stamp <= stamp
                         /\ v.stamp = stamp => v.deal \in DOMAIN file /\ v.row = file[v.deal]
      BY <2>2 DEF file
    <3> QED BY <1>4, <2>5, <3>1, <3>2
  <2>10. CASE requests'[r] = requests[r] \/ requests'[r] = less
    <3>1. /\ requests'[r].at = "append" /\ requests'[r].files = files
          /\ requests'[r].job.files = all /\ requests'[r].stamp = stamp
          /\ requests'[r].todo \in {todo, todo \ {d}}
      BY <1>1, <1>5, <2>10 DEF files, all, todo, stamp
    <3>2. LeftAfter(files, all, k) /\ Held(crm', all, k, DOMAIN Head(files))
      BY <2>1, <2>7 DEF file
    <3>3. \A e \in DOMAIN Head(files) \ requests'[r].todo : Latest(crm', e) = Head(files)[e]
      BY <2>8, <3>1 DEF file
    <3> QED BY <1>6, <2>9, <3>1, <3>2, <3>3 DEF HeldOn, HeldSoFar, file
  <2>11. CASE todo = {d} /\ requests'[r] = NextExport(r)
    <3>1. \A e \in DOMAIN all[k + 1] : Latest(crm', e) = all[k + 1][e]
      BY <2>3, <2>8, <2>11 DEF file
    <3>2. Held(crm', all, k, DOMAIN all[k + 1])
      BY <2>3, <2>7 DEF file
    <3>3. Held(crm', all, k + 1, {})
      BY <3>1, <3>2, HeldOneMore
    <3> QED BY <1>1, <2>1, <2>11, <3>3, NextHoldsOn DEF files, all
  <2> QED BY <1>3, <2>10, <2>11
<1> QED BY <1>7, <1>8

\* A request that refreshes the tables keeps its job, and the versions of the deals.
LEMMA RefreshKeepsJob ==
  ASSUME TypeOK, NEW r \in Requests, Acts(r), requests[r].at \in Refreshing
  PROVE  /\ crm' = crm
         /\ \/ requests'[r].at \in {"done", "failed"}
            \/ /\ requests'[r].at \notin {"compare", "append"}
               /\ requests'[r].job = requests[r].job /\ requests'[r].alone = requests[r].alone
<1>0. RequestsOK /\ RequestOK(requests[r]) /\ Shaped(requests[r])
  BY DEF TypeOK, RequestsOK, RequestOK
<1>1. ASSUME NEW rec, Continues(r, rec) \/ Writing(r, rec)
      PROVE  requests'[r] = rec
  BY <1>0, <1>1 DEF Continues, Writing, RequestsOK
<1>2. requests[r].at \notin {"idle", "upload", "compare", "append"}
  BY DEF Refreshing, Aliasing, Mastering
<1>3. ~Begin(r) /\ ~UpsertBatch(r) /\ ~CompareExport(r) /\ ~AppendVersion(r)
  BY <1>2 DEF Begin, UpsertBatch, CompareExport, AppendVersion
<1>4. crm' = crm
  BY <1>3 DEF Acts, Fail, SeedStoreAliases, SeedSellerAliases, SeedSellerAliasesFromCrm,
              InsertAlias, RefreshCanonical, RefreshBridge, TakeStamp, UpsertMaster, DeleteOlder,
              ValidateMaster, tables
<1> DEFINE Same(x) == /\ x.at \notin {"compare", "append"}
                      /\ x.job = requests[r].job /\ x.alone = requests[r].alone
           Fine(x) == x.at \in {"done", "failed"} \/ Same(x)
<1>5. Fine(requests[r]) /\ Fine(Over("done")) /\ Fine(Over("failed"))
  BY <1>2, EndsWell
<1>6. \A p \in {"stores", "sellers", "canonical", "crmMatches", "bridge"} \cup Mastering :
        Fine(To(r, p))
  BY <1>0 DEF To, Shaped, Mastering
<1>7. ASSUME NEW x, Answered(r, x), Fine(x)
      PROVE  Fine(requests'[r])
  <2>1. requests'[r] \in {requests[r], x}
    BY <1>1, <1>7 DEF Answered
  <2> HIDE DEF Fine
  <2> QED BY <1>5, <1>7, <2>1
<1>8. ASSUME NEW at \in {"storeAliases", "sellerAliases", "crmAliases"}, NEW plan,
             NEW p \in {"sellers", "canonical", "bridge"}, Plans(r, at, plan, p)
      PROVE  Fine(requests'[r])
  <2> DEFINE id == 1 + Max({0} \cup {a.id : a \in aliases[TableOf(at)]})
  <2>1. requests'[r] = To(r, p) \/ requests'[r] = Planned(requests[r], at, plan, id)
    BY <1>1, <1>8 DEF Plans, To, Planned
  <2> HIDE DEF id
  <2>2. Fine(Planned(requests[r], at, plan, id))
    BY <1>0 DEF Planned, Shaped
  <2> HIDE DEF Fine
  <2> QED BY <1>6, <2>1, <2>2
<1>9. ASSUME SeedStoreAliases(r) \/ SeedSellerAliases(r) \/ SeedSellerAliasesFromCrm(r)
      PROVE  Fine(requests'[r])
  <2> HIDE DEF Fine
  <2> QED BY <1>8, <1>9 DEF SeedStoreAliases, SeedSellerAliases, SeedSellerAliasesFromCrm
<1>10. ASSUME InsertAlias(r)
       PROVE  Fine(requests'[r])
  <2>1. requests[r].at \in {"storeAliases", "sellerAliases", "crmAliases"}
    BY <1>10 DEF InsertAlias
  <2>2. PICK e \in requests[r].todo :
          LET todo == requests[r].todo \ {e}
              next == [requests[r] EXCEPT !.todo = todo, !.id = IF todo = {} THEN 0 ELSE @ + 1,
                         !.at = IF todo = {} THEN AfterAliases(@) ELSE @,
                         !.again = requests[r].at = "crmAliases" \/ @]
          IN Continues(r, next) \/ Continues(r, Over("failed")) \/ Answered(r, next)
    BY <1>10 DEF InsertAlias
  <2> DEFINE todo == requests[r].todo \ {e}
             next == [requests[r] EXCEPT !.todo = todo, !.id = IF todo = {} THEN 0 ELSE @ + 1,
                        !.at = IF todo = {} THEN AfterAliases(@) ELSE @,
                        !.again = requests[r].at = "crmAliases" \/ @]
  <2>3. Fine(next)
    <3>1. /\ next.at \in {"storeAliases", "sellerAliases", "crmAliases",
                          "stores", "sellers", "canonical"}
          /\ next.job = requests[r].job /\ next.alone = requests[r].alone
      BY <1>0, <2>1, InsertIsOK
    <3> HIDE DEF next
    <3> QED BY <3>1
  <2>4. Continues(r, next) \/ Continues(r, Over("failed")) \/ Answered(r, next)
    BY <2>2
  <2> HIDE DEF next, Fine
  <2>5. CASE Answered(r, next)
    BY <1>7, <2>3, <2>5
  <2>6. CASE Continues(r, next) \/ Continues(r, Over("failed"))
    <3>1. requests'[r] \in {next, Over("failed")}
      BY <1>1, <2>6
    <3> QED BY <1>5, <2>3, <3>1
  <2> QED BY <2>4, <2>5, <2>6
<1>11. ASSUME RefreshCanonical(r) \/ RefreshBridge(r) \/ UpsertMaster(r) \/ DeleteOlder(r)
       PROVE  Fine(requests'[r])
  <2>1. \E x \in {Over("done"), To(r, "bridge"), To(r, "crmMatches"), To(r, "stamp"),
                  To(r, "delete"), To(r, "validate")} : Answered(r, x)
    BY <1>11 DEF RefreshCanonical, RefreshBridge, UpsertMaster, DeleteOlder
  <2> HIDE DEF Fine
  <2>2. \A x \in {Over("done"), To(r, "bridge"), To(r, "crmMatches"), To(r, "stamp"),
                  To(r, "delete"), To(r, "validate")} : Fine(x)
    BY <1>5, <1>6 DEF Mastering
  <2> QED BY <1>7, <2>1, <2>2
<1>12. ASSUME TakeStamp(r)
       PROVE  Fine(requests'[r])
  <2>1. requests'[r] = [To(r, "upsert") EXCEPT !.stamp = clock']
    BY <1>1, <1>12 DEF TakeStamp
  <2> QED BY <1>0, <2>1 DEF To, Shaped
<1>13. ASSUME Fail(r) \/ ValidateMaster(r)
       PROVE  Fine(requests'[r])
  BY <1>13, WhereTo
<1>14. Fine(requests'[r])
  <2> HIDE DEF Fine
  <2> QED BY <1>3, <1>9, <1>10, <1>11, <1>12, <1>13 DEF Acts
<1> QED BY <1>4, <1>14

LEMMA MoverHoldsOn ==
  ASSUME TypeOK, NEW r \in Requests, Acts(r), HeldSoFar(r)
  PROVE  HeldOn(r)
<1>0. RequestsOK /\ RequestOK(requests[r]) /\ Shaped(requests[r])
  BY DEF TypeOK, RequestsOK, RequestOK
<1>a. \A p \in {"idle", "done", "failed", "upload", "compare", "append"} : p \notin Refreshing
  BY DEF Refreshing, Aliasing, Mastering
<1>1. CASE requests[r].at \in Refreshing
  <2>1. /\ crm' = crm
        /\ \/ requests'[r].at \in {"done", "failed"}
           \/ /\ requests'[r].at \notin {"compare", "append"}
              /\ requests'[r].job = requests[r].job /\ requests'[r].alone = requests[r].alone
    BY <1>1, RefreshKeepsJob
  <2> QED BY <1>a, <1>1, <2>1 DEF HeldOn, HeldSoFar
<1>2. CASE Begin(r)
  <2>1. PICK job \in Jobs :
          requests'[r] = [Idle EXCEPT !.at = First(job), !.job = job, !.files = job.files]
    BY <1>0, <1>2 DEF Begin, Continues, RequestsOK
  <2> DEFINE x == [Idle EXCEPT !.at = First(job), !.job = job, !.files = job.files]
  <2>2. /\ x.job = job /\ x.files = job.files
        /\ x.at \in {"upload", "compare", "stores", "stamp"}
        /\ x.at = "upload" <=> job.kind = "forum"
        /\ x.at = "compare" <=> job.kind = "crm"
    BY JobsBegin
  <2>3. requests'[r] = x
    BY <2>1
  <2> HIDE DEF x
  <2>4. ASSUME job.kind = "crm"
        PROVE  LeftAfter(job.files, job.files, 0) /\ Held(crm', job.files, 0, {})
    <3>1. job.files \in Seq(FilesOf("crm"))
      BY <2>4, JobsAssumption
    <3> QED BY <3>1 DEF LeftAfter, Held
  <2> QED BY <1>a, <2>2, <2>3, <2>4 DEF HeldOn, HeldSoFar
<1>3. CASE Fail(r)
  <2>1. requests'[r].at = "failed"
    BY <1>3, WhereTo
  <2> QED BY <1>a, <2>1 DEF HeldOn, HeldSoFar
<1>4. CASE UpsertBatch(r)
  <2>1. requests[r].at = "upload"
    BY <1>4 DEF UpsertBatch
  <2>2. requests[r].job.kind = "forum"
    BY <1>0, <2>1, WhichKinds, JobsAssumption DEF RequestOK
  <2> DEFINE y == [requests[r] EXCEPT !.files = Tail(requests[r].files)]
  <2>3. requests'[r] \in {y, Over("done"), To(r, "stores")}
    BY <1>0, <1>4 DEF UpsertBatch, Writing, AfterImport
  <2>4. y.job = requests[r].job /\ y.at = "upload"
    BY <1>0, <2>1 DEF Shaped
  <2>5. To(r, "stores").job = requests[r].job /\ To(r, "stores").at = "stores"
    BY <1>0 DEF To, Shaped
  <2> HIDE DEF y
  <2> QED BY <1>a, <2>2, <2>3, <2>4, <2>5, EndsWell DEF HeldOn, HeldSoFar
<1>5. Acts(r) => requests[r].at \in Refreshing \/ Begin(r) \/ Fail(r) \/ UpsertBatch(r)
                 \/ CompareExport(r) \/ AppendVersion(r)
  BY DEF Acts, Refreshing, Aliasing, Mastering, SeedStoreAliases, SeedSellerAliases,
         SeedSellerAliasesFromCrm, InsertAlias, RefreshCanonical, RefreshBridge, TakeStamp,
         UpsertMaster, DeleteOlder, ValidateMaster
<1> QED BY <1>1, <1>2, <1>3, <1>4, <1>5, CompareHolds, AppendHolds

-----------------------------------------------------------------------------
(* The theorems about requests that run alone.                             *)

\* Along with the tables, what a request that runs alone knows of them at each of its steps: which
\* tables already are what their sources say, which rows the master has, and which exports.
THEOREM AlwaysAlone == Spec => [](MasterInv /\ AloneInv)
<1>1. Init => AloneInv
  <2> SUFFICES ASSUME Init, NEW r \in Requests PROVE ExactSoFar(r) /\ HeldSoFar(r)
    BY DEF AloneInv
  <2>1. requests[r].at = "idle"
    BY DEF Init, Idle
  <2> QED BY <2>1 DEF ExactSoFar, HeldSoFar, Exact, Refreshing, Aliasing, Mastering
<1>2. ASSUME MasterInv, AloneInv, NEW r \in Requests, Acts(r)
      PROVE  AloneInv'
  <2>1. TypeOK /\ MasterOK /\ Goes(r)
    BY <1>2, StepGoes DEF MasterInv
  <2>2. ASSUME NEW q \in Requests
        PROVE  ExactSoFar(q)' /\ HeldSoFar(q)'
    <3>1. ExactSoFar(q) /\ HeldSoFar(q) /\ RequestOK(requests[q])
      BY <1>2, <2>1 DEF AloneInv, TypeOK, RequestsOK
    <3>2. CASE q = r
      BY <1>2, <2>1, <3>1, <3>2, MoverStaysExact, MoverHoldsOn DEF HeldOn
    <3>3. CASE q # r
      <4>1. Beside(q)
        BY <2>1, <3>3 DEF Goes, Moved
      <4> QED BY <3>1, <4>1, OthersStayExact, OthersStayHeld
    <3> QED BY <3>2, <3>3
  <2> QED BY <2>2 DEF AloneInv
<1>3. ASSUME MasterInv, AloneInv, UNCHANGED vars
      PROVE  AloneInv'
  <2>1. UNCHANGED tables /\ requests' = requests /\ crm' = crm /\ master' = master
    BY <1>3 DEF vars, tables
  <2>2. ASSUME NEW q \in Requests
        PROVE  ExactSoFar(q)' /\ HeldSoFar(q)'
    <3>1. Beside(q) /\ ExactSoFar(q) /\ HeldSoFar(q) /\ RequestOK(requests[q])
      BY <1>3, <2>1 DEF Beside, AloneInv, MasterInv, TypeOK, RequestsOK
    <3> QED BY <3>1, OthersStayExact, OthersStayHeld
  <2> QED BY <2>2 DEF AloneInv
<1>4. Next => \E r \in Requests : Acts(r)
  BY DEF Next, Acts
<1>5. MasterInv /\ AloneInv /\ [Next]_vars => AloneInv'
  BY <1>2, <1>3, <1>4
<1> QED BY <1>1, <1>5, AlwaysAccounted, PTL DEF Spec

\* The only ways a request succeeds.
LEMMA SucceedsHow ==
  ASSUME TypeOK, NEW r \in Requests, NEW q \in Requests, Acts(q), Succeeds(r)
  PROVE  /\ q = r /\ requests[r].alone /\ ~Begin(r)
         /\ \/ ValidateMaster(r)
            \/ RefreshCanonical(r) /\ requests[r].job.kind = "canonicalizer"
            \/ /\ requests[r].job.kind \in {"forum", "crm"}
               /\ NoForum \/ ~requests[r].job.refresh
<1>0. RequestsOK /\ RequestOK(requests[r]) /\ Shaped(requests[r]) /\ Goes(q)
  BY StepGoes DEF TypeOK, RequestsOK, RequestOK
<1>a. requests'[r].at = "done" /\ ~Ended(r) /\ requests[r].alone
  BY DEF Succeeds
<1>1. q = r
  <2> SUFFICES ASSUME q # r PROVE FALSE
    OBVIOUS
  <2>1. Beside(r)
    BY <1>0 DEF Goes, Moved
  <2>2. requests'[r].at = requests[r].at
    BY <1>0, <2>1, DisturbedIsOK DEF Beside
  <2> QED BY <1>a, <2>2 DEF Ended
<1>2. ASSUME NEW rec, Continues(r, rec) \/ Writing(r, rec)
      PROVE  requests'[r] = rec
  BY <1>0, <1>2 DEF Continues, Writing, RequestsOK
<1>3. ASSUME requests[r].at \in {"upload", "compare", "append"}
      PROVE  requests[r].job.kind \in {"forum", "crm"}
  <2>1. /\ requests[r].job \in Jobs /\ requests[r].job.kind \in Kinds
        /\ requests[r].at \in PlacesOf(requests[r].job.kind)
    BY <1>0, <1>3, JobsAssumption DEF RequestOK
  <2> QED BY <1>3, <2>1, WhichKinds
<1>4. AfterImport(r).at = "done" => ~requests[r].job.refresh
  BY <1>0 DEF AfterImport, To, Shaped
<1>5. ASSUME UpsertBatch(r)
      PROVE  /\ requests[r].job.kind \in {"forum", "crm"}
             /\ NoForum \/ ~requests[r].job.refresh
  <2> DEFINE y == [requests[r] EXCEPT !.files = Tail(requests[r].files)]
  <2>1. requests'[r] \in {y, AfterImport(r)} /\ requests[r].at = "upload"
    BY <1>2, <1>5 DEF UpsertBatch
  <2>2. y.at = "upload"
    BY <1>0, <2>1 DEF Shaped
  <2> HIDE DEF y
  <2> QED BY <1>a, <1>3, <1>4, <2>1, <2>2
<1>6. NextExport(r).at = "done" => NoForum \/ ~requests[r].job.refresh
  <2> DEFINE y == [requests[r] EXCEPT !.at = "compare", !.files = Tail(requests[r].files),
                     !.todo = {}]
             a == AfterImport(r)
             z == [a EXCEPT !.files = <<>>, !.todo = {}]
  <2>1. Shaped(a)
    <3>1. Shaped(To(r, "stores")) /\ Shaped(Over("done"))
      BY <1>0, Altered, EndsWell DEF To, RequestOK
    <3> QED BY <3>1 DEF AfterImport
  <2>2. NextExport(r) \in {y, z} \/ NoForum
    BY DEF NextExport
  <2>3. y.at = "compare"
    BY <1>0 DEF Shaped
  <2> HIDE DEF a, y
  <2>4. z.at = a.at
    BY <2>1 DEF Shaped
  <2> HIDE DEF z
  <2> QED BY <1>4, <2>2, <2>3, <2>4 DEF a
<1>7. ASSUME CompareExport(r) \/ AppendVersion(r)
      PROVE  /\ requests[r].job.kind \in {"forum", "crm"}
             /\ NoForum \/ ~requests[r].job.refresh
  <2>1. requests[r].at \in {"compare", "append"}
    BY <1>7 DEF CompareExport, AppendVersion
  <2>2. requests'[r] = NextExport(r) \/ requests'[r].at = "append"
    <3>1. CASE CompareExport(r)
      <4> DEFINE changed == Changed(Head(requests[r].files))
      <4>1. requests'[r] = NextExport(r) \/ requests'[r] = Compared(requests[r], changed, clock')
        BY <1>2, <3>1 DEF CompareExport, To, Compared
      <4> HIDE DEF changed
      <4> QED BY <1>0, <4>1 DEF Compared, Shaped
    <3>2. CASE AppendVersion(r)
      <4>1. PICK d \in requests[r].todo :
              Answered(r, IF requests[r].todo = {d} THEN NextExport(r)
                          ELSE [requests[r] EXCEPT !.todo = @ \ {d}])
        BY <3>2 DEF AppendVersion
      <4>2. requests'[r] \in {requests[r], NextExport(r), [requests[r] EXCEPT !.todo = @ \ {d}]}
        BY <1>2, <4>1 DEF Answered
      <4>3. /\ requests[r].at = "append"
            /\ [requests[r] EXCEPT !.todo = @ \ {d}].at = requests[r].at
        BY <1>0, <3>2 DEF AppendVersion, Shaped
      <4> QED BY <4>2, <4>3
    <3> QED BY <1>7, <3>1, <3>2
  <2> QED BY <1>a, <1>3, <1>6, <2>1, <2>2
<1>8. ASSUME RefreshCanonical(r)
      PROVE  requests[r].job.kind = "canonicalizer"
  <2> SUFFICES ASSUME requests[r].job.kind # "canonicalizer" PROVE FALSE
    OBVIOUS
  <2>1. requests[r].at = "canonical"
    BY <1>8 DEF RefreshCanonical
  <2>2. requests'[r] \in {requests[r], To(r, "bridge"), To(r, "crmMatches")}
    BY <1>2, <1>8 DEF RefreshCanonical, Answered
  <2>3. To(r, "bridge").at = "bridge" /\ To(r, "crmMatches").at = "crmMatches"
    BY <1>0 DEF To, Shaped
  <2> QED BY <1>a, <2>1, <2>2, <2>3
<1>9. ~Begin(r)
  <2> SUFFICES ASSUME Begin(r) PROVE FALSE
    OBVIOUS
  <2>1. PICK job \in Jobs :
          requests'[r] = [Idle EXCEPT !.at = First(job), !.job = job, !.files = job.files]
    BY <1>2 DEF Begin
  <2>2. requests'[r].at \in {"upload", "compare", "stores", "stamp"}
    BY <2>1, JobsBegin
  <2> QED BY <1>a, <2>2
<1>10. ASSUME NEW at \in {"storeAliases", "sellerAliases", "crmAliases"}, NEW plan,
             NEW p \in {"sellers", "canonical", "bridge"}, Plans(r, at, plan, p)
       PROVE  FALSE
  <2> DEFINE id == 1 + Max({0} \cup {a.id : a \in aliases[TableOf(at)]})
  <2>1. requests'[r] = To(r, p) \/ requests'[r] = Planned(requests[r], at, plan, id)
    BY <1>2, <1>10 DEF Plans, To, Planned
  <2> HIDE DEF id
  <2>2. To(r, p).at = p /\ Planned(requests[r], at, plan, id).at = at
    BY <1>0 DEF To, Planned, Shaped
  <2> QED BY <1>a, <2>1, <2>2
<1>11. ~SeedStoreAliases(r) /\ ~SeedSellerAliases(r) /\ ~SeedSellerAliasesFromCrm(r)
  BY <1>10 DEF SeedStoreAliases, SeedSellerAliases, SeedSellerAliasesFromCrm
<1>12. ~Fail(r) /\ ~InsertAlias(r)
  BY <1>a, WhereTo
<1>13. ASSUME NEW p \in Mastering, Answered(r, To(r, p)), requests[r].at # "done"
       PROVE  FALSE
  <2>1. requests'[r] \in {requests[r], To(r, p)}
    BY <1>2, <1>13 DEF Answered
  <2>2. To(r, p).at = p /\ p # "done"
    BY <1>0 DEF To, Shaped, Mastering
  <2> QED BY <1>a, <1>13, <2>1, <2>2
<1>14. ~RefreshBridge(r) /\ ~UpsertMaster(r) /\ ~DeleteOlder(r)
  BY <1>13 DEF RefreshBridge, UpsertMaster, DeleteOlder, Mastering
<1>15. ~TakeStamp(r)
  <2> SUFFICES ASSUME TakeStamp(r) PROVE FALSE
    OBVIOUS
  <2>1. requests'[r] = [To(r, "upsert") EXCEPT !.stamp = clock']
    BY <1>2 DEF TakeStamp
  <2>2. requests'[r].at = "upsert"
    BY <1>0, <2>1 DEF To, Shaped
  <2> QED BY <1>a, <2>2
<1> QED BY <1>a, <1>1, <1>5, <1>7, <1>8, <1>9, <1>11, <1>12, <1>14, <1>15 DEF Acts

\* LatestIsLastExport: an import of the CRM that succeeds and ran alone leaves of every deal what
\* the last export says that names it, whatever versions the exports before brought back.
THEOREM AlwaysLastExport == Spec => LatestIsLastExport
<1>1. ASSUME MasterInv, AloneInv, [Next]_vars, NEW r \in Requests, Succeeds(r),
             requests[r].job.kind = "crm",
             NEW d \in UNION {DOMAIN requests[r].job.files[i] : i \in DOMAIN requests[r].job.files}
      PROVE  Latest(crm, d)' = LastExport(requests[r].job.files, d)
  <2>1. RequestOK(requests[r]) /\ TypeOK
    BY <1>1 DEF MasterInv, TypeOK, RequestsOK
  <2>2. ~UNCHANGED vars
    BY <1>1 DEF vars, Succeeds, Ended
  <2>3. PICK q \in Requests : Acts(q)
    BY <1>1, <2>2 DEF Next, Acts
  <2>4. q = r /\ requests[r].alone
    BY <1>1, <2>1, <2>3, SucceedsHow
  <2>5. HeldOn(r)
    BY <1>1, <2>1, <2>3, <2>4, MoverHoldsOn DEF AloneInv
  <2>6. Held(crm', requests[r].job.files, Len(requests[r].job.files), {})
    BY <1>1, <2>4, <2>5 DEF HeldOn, Succeeds
  <2>7. requests[r].job.files \in Seq(FilesOf("crm"))
    <3>1. requests[r].job \in Jobs
      <4>1. requests[r].at # "idle"
        <5> SUFFICES ASSUME requests[r].at = "idle" PROVE FALSE
          OBVIOUS
        <5>1. Begin(r)
          BY <2>3, <2>4 DEF Acts, Fail, Running, UpsertBatch, CompareExport, AppendVersion,
             SeedStoreAliases, SeedSellerAliases, SeedSellerAliasesFromCrm, InsertAlias,
             RefreshCanonical, RefreshBridge, TakeStamp, UpsertMaster, DeleteOlder, ValidateMaster
        <5> QED BY <1>1, <2>1, <2>3, <5>1, <2>4, SucceedsHow
      <4> QED BY <1>1, <2>1, <4>1 DEF RequestOK, Succeeds, Ended
    <3> QED BY <1>1, <3>1, JobsAssumption
  <2> HIDE DEF Held
  <2>8. Latest(crm', d) = LastExport(requests[r].job.files, d)
    BY <1>1, <2>6, <2>7, HeldIsLast
  <2> QED BY <2>8
<1>2. MasterInv /\ AloneInv /\ [Next]_vars =>
        [\A r \in Requests : Succeeds(r) /\ requests[r].job.kind = "crm" =>
           \A d \in UNION {DOMAIN requests[r].job.files[i] : i \in DOMAIN requests[r].job.files} :
             Latest(crm, d)' = LastExport(requests[r].job.files, d)]_vars
  BY <1>1
<1> QED BY <1>2, AlwaysAlone, PTL DEF Spec, LatestIsLastExport

\* SuccessIsExact: whatever earlier requests left half done, a refresh that ran alone and succeeds
\* leaves each table what its sources say, and reports that are valid.
THEOREM AlwaysExact == Spec => SuccessIsExact
<1> DEFINE Left(r) == LET job == requests[r].job
                      IN /\ job.kind = "canonicalizer" \/ Bridges(job) => CanonicalIsExact'
                         /\ Bridges(job) => BridgeIsExact'
                         /\ Masters(job) => MasterIsExact' /\ MasterIsReportable'
<1>1. ASSUME MasterInv, AloneInv, [Next]_vars, NEW r \in Requests, Succeeds(r)
      PROVE  Left(r)
  <2>1. RequestOK(requests[r]) /\ TypeOK /\ ExactSoFar(r)
    BY <1>1 DEF MasterInv, TypeOK, RequestsOK, AloneInv
  <2>2. ~UNCHANGED vars
    BY <1>1 DEF vars, Succeeds, Ended
  <2>3. PICK q \in Requests : Acts(q)
    BY <1>1, <2>2 DEF Next, Acts
  <2>4. /\ requests[r].alone
        /\ \/ ValidateMaster(r)
           \/ RefreshCanonical(r) /\ requests[r].job.kind = "canonicalizer"
           \/ /\ requests[r].job.kind \in {"forum", "crm"}
              /\ NoForum \/ ~requests[r].job.refresh
    BY <1>1, <2>1, <2>3, SucceedsHow
  <2>5. CASE ValidateMaster(r)
    <3>1. requests[r].at = "validate" /\ UNCHANGED tables
      BY <2>5 DEF ValidateMaster
    <3>2. MasterIsExact /\ (requests[r].job.kind # "master" => CanonicalIsExact /\ BridgeIsExact)
      BY <2>1, <2>4, <3>1 DEF ExactSoFar, Exact, Mastering
    <3>3. MasterIsReportable'
      <4>1. MasterIsReportable
        BY <2>1, <3>2, ExactIsReportable
      <4>2. master' = master
        BY <3>1 DEF tables
      <4> QED BY <4>1, <4>2 DEF MasterIsReportable, Rows
    <3>4. Bridges(requests[r].job) => requests[r].job.kind # "master"
      BY DEF Bridges
    <3> QED BY <3>1, <3>2, <3>3, <3>4, UntouchedTables
  <2>6. CASE RefreshCanonical(r) /\ requests[r].job.kind = "canonicalizer"
    <3>1. CanonicalIsExact'
      BY <2>6 DEF RefreshCanonical, CanonicalIsExact, CanonicalNow
    <3> QED BY <2>6, <3>1 DEF Bridges, Masters
  <2>7. CASE requests[r].job.kind \in {"forum", "crm"} /\ (NoForum \/ ~requests[r].job.refresh)
    BY <2>7 DEF Bridges, Masters
  <2> QED BY <2>4, <2>5, <2>6, <2>7
<1>2. MasterInv /\ AloneInv /\ [Next]_vars => [\A r \in Requests : Succeeds(r) => Left(r)]_vars
  <2> HIDE DEF Left
  <2> QED BY <1>1
<1> QED BY <1>2, AlwaysAlone, PTL DEF Spec, SuccessIsExact
=============================================================================
