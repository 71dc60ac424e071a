---------------------------- MODULE ComponentProofs ----------------------------
(* Proofs about the small components: the users table and its audit, the read *)
(* tools of operations, the in-memory store, and the container.               *)
EXTENDS ApplicationContainer, InMemoryConversationStore, OperationsEvidence, UserDirectory,
        FiniteSetTheorems, SequenceTheorems, WellFoundedInduction, TLAPS

-----------------------------------------------------------------------------
(* UserDirectory, for any number of calls, emails, imported rows and audit    *)
(* requests, and any clock.                                                   *)

USE DEF directoryVars

(* What User.register makes, by the time it is looked at.                     *)
RegisteredRow == [email : Emails, name : 2 .. 100, status : {"active"}, created : Nat,
                  updated : Nat, verified : {Never}, login : {Never}, deactivated : {Never}]
AsRegistered(row) ==
    row \in RegisteredRow /\ row.created <= clock /\ row.created <= row.updated

RowsHaveWriters ==
    /\ \A u \in users : u.row.email \in Emails
    /\ \A u, v \in users : u.by = v.by => u = v
    /\ \A u \in users : u.by \in Registrations =>
          registration[u.by].pc = "registered" /\ AsRegistered(u.row)

CallsInOrder ==
    /\ DOMAIN registration = Registrations
    /\ \A c \in Registrations :
          registration[c].pc \in {"made", "checked"} => AsRegistered(registration[c].row)

UsersInv ==
    /\ clock \in Nat /\ IsFiniteSet(users)
    /\ OneUserPerEmail /\ RowsHaveWriters /\ CallsInOrder

LEMMA UsersInit == DirectoryInit => UsersInv
  <1> SUFFICES ASSUME DirectoryInit PROVE UsersInv
    OBVIOUS
  <1>1. PICK imported \in SUBSET DOMAIN ImportedRows :
          /\ \A i, j \in imported : ImportedRows[i].email = ImportedRows[j].email => i = j
          /\ users = {[by |-> i, row |-> ImportedRows[i]] : i \in imported}
    BY DEF DirectoryInit
  <1>2. \A u \in users : u.by \in imported /\ u = [by |-> u.by, row |-> ImportedRows[u.by]]
    BY <1>1
  <1>3. IsFiniteSet(users)
    <2> DEFINE f == [i \in imported |-> [by |-> i, row |-> ImportedRows[i]]]
    <2>1. IsFiniteSet(imported)
      BY DirectoryAssumption, FS_Subset
    <2>2. f \in Surjection(imported, users)
      BY <1>1 DEF Surjection
    <2> QED BY <2>1, <2>2, FS_Surjection
  <1>4. OneUserPerEmail
    BY <1>1, <1>2 DEF OneUserPerEmail
  <1>5. RowsHaveWriters
    BY <1>2, DirectoryAssumption DEF RowsHaveWriters, UserRow
  <1>6. CallsInOrder /\ clock \in Nat
    BY DirectoryAssumption DEF DirectoryInit, CallsInOrder, NoUser
  <1> QED BY <1>3, <1>4, <1>5, <1>6 DEF UsersInv

(* A call that makes its User: two readings of the clock, the later one next. *)
LEMMA MakeUserHolds ==
    ASSUME UsersInv, NEW c \in Registrations, MakeUser(c)
    PROVE  UsersInv'
  <1> USE DEF UsersInv
  <1>1. UNCHANGED <<clock, users>> /\ registration[c].pc = "new"
    BY DEF MakeUser
  <1>2. PICK email \in Emails, name \in NameLengths, updated \in {clock, clock + 1} \cap Times :
          registration' = [registration EXCEPT ![c] =
              IF name \in 2 .. 100
              THEN [pc |-> "made", row |-> NewUser(email, name, updated)]
              ELSE [pc |-> "refused"]]
    BY DEF MakeUser
  <1>3. name \in 2 .. 100 => AsRegistered(NewUser(email, name, updated))
    BY DirectoryAssumption DEF AsRegistered, RegisteredRow, NewUser
  <1>4. /\ DOMAIN registration' = Registrations
        /\ \A d \in Registrations : d # c => registration'[d] = registration[d]
        /\ \/ /\ name \in 2 .. 100
              /\ registration'[c] = [pc |-> "made", row |-> NewUser(email, name, updated)]
           \/ registration'[c] = [pc |-> "refused"]
    BY <1>2 DEF CallsInOrder
  <1> HIDE DEF UsersInv
  <1>5. CallsInOrder'
    <2> SUFFICES ASSUME NEW d \in Registrations, registration'[d].pc \in {"made", "checked"}
                 PROVE  AsRegistered(registration[d].row)'
      BY <1>4 DEF CallsInOrder
    <2>1. CASE d # c
      BY <1>1, <1>4, <2>1 DEF UsersInv, CallsInOrder, AsRegistered
    <2>2. CASE d = c
      <3>1. name \in 2 .. 100 /\ registration'[c].row = NewUser(email, name, updated)
        BY <1>4, <2>2
      <3> QED BY <1>1, <1>3, <2>2, <3>1 DEF AsRegistered
    <2> QED BY <2>1, <2>2
  <1>6. RowsHaveWriters'
    <2>1. \A u \in users : u.by # c
      BY <1>1 DEF UsersInv, RowsHaveWriters
    <2> QED BY <1>1, <1>4, <2>1 DEF UsersInv, RowsHaveWriters, AsRegistered
  <1> QED BY <1>1, <1>5, <1>6 DEF UsersInv, OneUserPerEmail

LEMMA LookUpEmailHolds ==
    ASSUME UsersInv, NEW c \in Registrations, LookUpEmail(c)
    PROVE  UsersInv'
  <1>1. UNCHANGED <<clock, users>> /\ registration[c].pc = "made"
    BY DEF LookUpEmail
  <1>2. /\ DOMAIN registration' = Registrations
        /\ \A d \in Registrations : d # c => registration'[d] = registration[d]
        /\ \/ registration'[c] = [pc |-> "checked", row |-> registration[c].row]
           \/ registration'[c] = [pc |-> "refused"]
    BY DEF LookUpEmail, UsersInv, CallsInOrder
  <1>3. CallsInOrder'
    <2> SUFFICES ASSUME NEW d \in Registrations, registration'[d].pc \in {"made", "checked"}
                 PROVE  AsRegistered(registration[d].row)'
      BY <1>2 DEF CallsInOrder
    <2>1. registration'[d].row = registration[d].row
            /\ registration[d].pc \in {"made", "checked"}
      BY <1>1, <1>2
    <2> QED BY <1>1, <2>1 DEF UsersInv, CallsInOrder, AsRegistered
  <1>4. RowsHaveWriters'
    <2>1. \A u \in users : u.by # c
      BY <1>1 DEF UsersInv, RowsHaveWriters
    <2> QED BY <1>1, <1>2, <2>1 DEF UsersInv, RowsHaveWriters, AsRegistered
  <1> QED BY <1>1, <1>3, <1>4 DEF UsersInv, OneUserPerEmail

LEMMA InsertUserHolds ==
    ASSUME UsersInv, NEW c \in Registrations, InsertUser(c)
    PROVE  UsersInv' /\ users \subseteq users'
  <1>1. UNCHANGED clock /\ registration[c].pc = "checked"
    BY DEF InsertUser
  <1>2. /\ DOMAIN registration' = Registrations
        /\ \A d \in Registrations : d # c => registration'[d] = registration[d]
        /\ registration'[c].pc \in {"refused", "registered"}
    BY DEF InsertUser, UsersInv, CallsInOrder
  <1>3. \A u \in users : u.by # c
    BY <1>1 DEF UsersInv, RowsHaveWriters
  <1>4. CallsInOrder'
    BY <1>1, <1>2 DEF UsersInv, CallsInOrder, AsRegistered
  <1>5. CASE EmailTaken(registration[c].row.email)
    <2>1. users' = users
      BY <1>5 DEF InsertUser
    <2>2. RowsHaveWriters'
      BY <1>1, <1>2, <1>3, <2>1 DEF UsersInv, RowsHaveWriters, AsRegistered
    <2> QED BY <1>1, <1>4, <2>1, <2>2 DEF UsersInv, OneUserPerEmail
  <1>6. CASE ~EmailTaken(registration[c].row.email)
    <2> DEFINE new == [by |-> c, row |-> registration[c].row]
    <2>1. users' = users \cup {new} /\ registration'[c].pc = "registered"
      BY <1>6 DEF InsertUser, UsersInv, CallsInOrder
    <2>2. /\ new.by = c /\ AsRegistered(new.row) /\ new.row.email \in Emails
          /\ \A u \in users : u.row.email # new.row.email
      BY <1>1, <1>6 DEF EmailTaken, UsersInv, CallsInOrder, AsRegistered, RegisteredRow
    <2> HIDE DEF new
    <2>3. IsFiniteSet(users')
      BY <2>1, FS_AddElement DEF UsersInv
    <2>4. OneUserPerEmail'
      BY <2>1, <2>2 DEF UsersInv, OneUserPerEmail
    <2>5. RowsHaveWriters'
      BY <1>1, <1>2, <1>3, <2>1, <2>2 DEF UsersInv, RowsHaveWriters, AsRegistered
    <2> QED BY <1>1, <1>4, <2>1, <2>3, <2>4, <2>5 DEF UsersInv
  <1> QED BY <1>5, <1>6

LEMMA UsersMove == UsersInv /\ [DirectoryNext]_directoryVars => UsersInv' /\ users \subseteq users'
  <1> SUFFICES ASSUME UsersInv, [DirectoryNext]_directoryVars
               PROVE  UsersInv' /\ users \subseteq users'
    OBVIOUS
  <1>1. CASE Tick
    <2>1. clock' = clock + 1 /\ UNCHANGED <<users, registration>>
      BY <1>1 DEF Tick
    <2>2. \A row : AsRegistered(row) => AsRegistered(row)'
      BY <2>1 DEF AsRegistered, UsersInv, RegisteredRow
    <2> QED BY <2>1, <2>2 DEF UsersInv, OneUserPerEmail, RowsHaveWriters, CallsInOrder
  <1>2. CASE UNCHANGED <<clock, users, registration>>
    BY <1>2 DEF UsersInv, OneUserPerEmail, RowsHaveWriters, CallsInOrder, AsRegistered
  <1>3. ASSUME NEW c \in Registrations, MakeUser(c) \/ LookUpEmail(c)
        PROVE  UsersInv' /\ users \subseteq users'
    BY <1>3, MakeUserHolds, LookUpEmailHolds DEF MakeUser, LookUpEmail
  <1> QED BY <1>1, <1>2, <1>3, InsertUserHolds
          DEF DirectoryNext, StartAudit, RunCheck, FinishAudit

(* RegisterUser: the look-up decides nothing, the unique index does. Two calls *)
(* for one email never both insert, whatever comes between look-up and insert. *)
THEOREM EmailsStayUnique == DirectorySpec => []OneUserPerEmail
  <1>1. UsersInv => OneUserPerEmail
    BY DEF UsersInv
  <1> QED BY <1>1, UsersInit, UsersMove, PTL DEF DirectorySpec

(* The audit. Its checks only ever see rows that stay.                        *)
LEMMA IssuesAreFinite ==
    ASSUME NEW check, NEW table, NEW asOf, IsFiniteSet(table)
    PROVE  IsFiniteSet(Issues(check, table, asOf))
  <1> DEFINE about(u) == IF check = "duplicate_normalized_email" THEN LowerTrim[u.row.email]
                         ELSE u.by
             f == [u \in table |-> [check |-> check, about |-> about(u)]]
             image == {f[u] : u \in table}
  <1>1. f \in Surjection(table, image)
    BY DEF Surjection
  <1>2. IsFiniteSet(image)
    BY <1>1, FS_Surjection
  <1>3. Issues(check, table, asOf) \subseteq image
    BY DEF Issues
  <1> HIDE DEF image
  <1> QED BY <1>2, <1>3, FS_Subset

LEMMA IssuesGrow ==
    ASSUME NEW check, NEW asOf, NEW table, IsFiniteSet(table), NEW old \in SUBSET table
    PROVE  Issues(check, old, asOf) \subseteq Issues(check, table, asOf)
  <1>1. CASE check = "duplicate_normalized_email"
    <2> SUFFICES ASSUME NEW u \in old,
                        Cardinality({v \in old : LowerTrim[v.row.email] = LowerTrim[u.row.email]}) > 1
                 PROVE  Cardinality({v \in table :
                            LowerTrim[v.row.email] = LowerTrim[u.row.email]}) > 1
      BY <1>1 DEF Issues
    <2> DEFINE few == {v \in old : LowerTrim[v.row.email] = LowerTrim[u.row.email]}
               many == {v \in table : LowerTrim[v.row.email] = LowerTrim[u.row.email]}
    <2>1. few \subseteq many /\ many \subseteq table
      OBVIOUS
    <2>2. Cardinality(few) > 1
      OBVIOUS
    <2> HIDE DEF few, many
    <2>3. IsFiniteSet(many) /\ IsFiniteSet(few) /\ Cardinality(few) <= Cardinality(many)
      BY <2>1, FS_Subset
    <2>4. Cardinality(few) \in Nat /\ Cardinality(many) \in Nat
      BY <2>3, FS_CardinalityType
    <2>5. Cardinality(many) > 1
      BY <2>2, <2>3, <2>4
    <2> QED BY <2>5 DEF many
  <1>2. CASE check # "duplicate_normalized_email"
    BY <1>2 DEF Issues
  <1> QED BY <1>1, <1>2

(* A check returns all it finds, or as much as the limit lets it.             *)
LEMMA LimitedFinds ==
    ASSUME NEW issues, IsFiniteSet(issues), auditRun.limit \in Nat, NEW found \in Limited(issues)
    PROVE  /\ found \subseteq issues
           /\ found = issues \/ Cardinality(found) = auditRun.limit
  <1> DEFINE n == Cardinality(issues)  m == auditRun.limit
  <1>1. n \in Nat /\ m \in Nat
    BY FS_CardinalityType
  <1>2. found \subseteq issues /\ Cardinality(found) = Min({n, m})
    BY DEF Limited
  <1>3. Min({n, m}) = n \/ Min({n, m}) = m
    <2> HIDE DEF n, m
    <2>1. \E x \in {n, m} : \A y \in {n, m} : x <= y
      BY <1>1
    <2> QED BY <2>1 DEF Min
  <1>4. Cardinality(issues) = Cardinality(found) => issues = found
    BY <1>2, FS_Subset
  <1> QED BY <1>2, <1>3, <1>4

LEMMA NextCheckIsLeft ==
    ASSUME auditRun.left \subseteq Checks, auditRun.left # {}
    PROVE  NextCheck \in auditRun.left
  <1> DEFINE at == {i \in 1 .. 7 : CheckOrder[i] \in auditRun.left}
  <1>1. at \subseteq Nat /\ at # {}
    BY DEF Checks, CheckOrder
  <1>2. PICK x \in at : \A y \in at : ~ (<<y, x>> \in OpToRel(<, Nat))
    BY <1>1, NatLessThanWellFounded, WFMin
  <1>3. \A j \in 1 .. x - 1 : CheckOrder[j] \notin auditRun.left
    <2> SUFFICES ASSUME NEW j \in 1 .. x - 1, CheckOrder[j] \in auditRun.left PROVE FALSE
      OBVIOUS
    <2>0. x \in 1 .. 7
      BY <1>2
    <2>1. j \in at /\ j \in Nat /\ x \in Nat /\ j < x
      BY <2>0
    <2>2. ~ (<<j, x>> \in OpToRel(<, Nat))
      BY <1>2, <2>1
    <2> QED BY <2>1, <2>2 DEF OpToRel
  <1>4. DOMAIN CheckOrder = 1 .. 7
    BY DEF CheckOrder
  <1>5. CheckOrder[x] \in auditRun.left /\ x \in DOMAIN CheckOrder
    BY <1>2, <1>4
  <1> QED BY <1>3, <1>5 DEF NextCheck

(* What a check may say of a user who registered.                             *)
ExcusableFinding(f) ==
    f.about \in Registrations => Excusable(f)

LEMMA RegisteredUsersAreConsistent ==
    ASSUME UsersInv, usersAtStart \subseteq users, auditRun.now \in Nat, NEW check \in Checks,
           auditRun.given \/ \A u \in usersAtStart :
                              u.by \in Registrations => u.row.created <= auditRun.now,
           NEW f \in Issues(check, users, auditRun.now)
    PROVE  f.check = check /\ ExcusableFinding(f)
  <1>1. CASE check = "duplicate_normalized_email"
    <2> DEFINE shared == {g \in {LowerTrim[u.row.email] : u \in users} :
                            Cardinality({u \in users : LowerTrim[u.row.email] = g}) > 1}
    <2>0. PICK e \in shared : f = [check |-> check, about |-> e]
      BY <1>1 DEF Issues
    <2>1. PICK u \in users : e = LowerTrim[u.row.email]
      OBVIOUS
    <2>2. f.about \notin Registrations
      BY <2>0, <2>1, DirectoryAssumption DEF UsersInv, RowsHaveWriters
    <2> QED BY <2>0, <2>2 DEF ExcusableFinding
  <1>3. CASE check # "duplicate_normalized_email"
    <2>1. PICK v \in users : /\ f = [check |-> check, about |-> v.by]
                            /\ Inconsistent(check, v.row, auditRun.now)
      BY <1>3 DEF Issues
    <2> SUFFICES ASSUME v.by \in Registrations PROVE ExcusableFinding(f)
      BY <2>1 DEF ExcusableFinding
    <2>2. AsRegistered(v.row)
      BY DEF UsersInv, RowsHaveWriters
    <2>3. v.row \in RegisteredRow /\ v.row.created <= v.row.updated
      BY <2>2 DEF AsRegistered
    <2>4. /\ v.row.created \in Nat /\ v.row.updated \in Nat /\ v.row.status = "active"
          /\ v.row.verified = Never /\ v.row.login = Never /\ v.row.deactivated = Never
      BY <2>3 DEF RegisteredRow
    <2>5. \/ check = "invalid_display_name_length" /\ v.row.name = 2
          \/ check = "created_at_in_future" /\ v.row.created > auditRun.now
      <3>1. check # "status_deactivation_mismatch"
        BY <2>1, <2>4, Zenon DEF Inconsistent
      <3>2. /\ check = "updated_before_created" => v.row.updated < v.row.created
            /\ check = "created_at_in_future" => v.row.created > auditRun.now
            /\ check = "verified_before_created" => v.row.verified # Never
            /\ check = "last_login_before_created" => v.row.login # Never
            /\ check = "invalid_display_name_length" => v.row.name < 3 \/ v.row.name > 100
        BY <2>1 DEF Inconsistent
      <3>3. v.row.created <= v.row.updated /\ v.row.name \in 2 .. 100
        BY <2>2, <2>3 DEF AsRegistered, RegisteredRow
      <3> QED BY <1>3, <2>4, <3>1, <3>2, <3>3 DEF Checks
    <2>6. check = "created_at_in_future" => auditRun.given \/ v \notin usersAtStart
      BY <2>4, <2>5
    <2> QED BY <2>1, <2>5, <2>6 DEF ExcusableFinding, Excusable
  <1> QED BY <1>1, <1>3

Wanted == IF auditRun.asked = {} THEN Checks ELSE auditRun.asked
Unfinished == IF auditRun.pc = "running" THEN auditRun.left ELSE {}
FoundBy(check) == {f \in auditRun.found : f.check = check}

(* What an audit that has begun knows; the checks that are done have found    *)
(* what the table had when it began.                                          *)
AuditProgress ==
    /\ auditRun.pc \in {"running", "reported"}
    /\ auditRun.pc = "running" =>
          DOMAIN auditRun = {"pc", "now", "given", "limit", "left", "asked", "found"}
    /\ auditRun.now \in Nat /\ auditRun.limit \in Nat \ {0}
    /\ auditRun.asked \subseteq Checks /\ Unfinished \subseteq Wanted
    /\ usersAtStart \subseteq users
    /\ auditRun.given \/ \A u \in usersAtStart :
                         u.by \in Registrations => u.row.created <= auditRun.now
    /\ \A check \in Wanted \ Unfinished :
          \/ Issues(check, usersAtStart, auditRun.now) \subseteq FoundBy(check)
          \/ Cardinality(FoundBy(check)) = auditRun.limit
    /\ \A f \in auditRun.found : f.check \in Wanted \ Unfinished /\ ExcusableFinding(f)
    /\ auditRun.pc = "reported" /\ auditRun.result = "ok" => auditRun.found = {}

AuditInv == UsersInv /\ (auditRun.pc = "idle" \/ AuditProgress)

LEMMA StartAuditHolds ==
    ASSUME AuditInv, StartAudit
    PROVE  AuditProgress'
  <1>1. PICK request \in AuditRequests :
          auditRun' = [pc |-> "running",
                       now |-> IF request.now = Never THEN clock ELSE request.now,
                       given |-> request.now # Never, limit |-> Clamp(request.limit),
                       left |-> IF request.checks = {} THEN Checks ELSE request.checks,
                       asked |-> request.checks, found |-> {}]
    BY DEF StartAudit
  <1>2. request.checks \subseteq Checks /\ request.limit \in Int
        /\ request.now \in Nat \cup {Never}
    BY DirectoryAssumption
  <1>3. Clamp(request.limit) \in Nat \ {0}
    BY <1>2 DEF Clamp
  <1>4. usersAtStart' = users' /\ UNCHANGED <<clock, users, registration>>
    BY DEF StartAudit
  <1>5. \A u \in users : u.by \in Registrations => u.row.created <= clock
    BY DEF AuditInv, UsersInv, RowsHaveWriters, AsRegistered
  <1>6. /\ auditRun'.pc = "running" /\ auditRun'.found = {}
        /\ auditRun'.now = (IF request.now = Never THEN clock ELSE request.now)
        /\ auditRun'.given = (request.now # Never)
        /\ auditRun'.limit = Clamp(request.limit) /\ auditRun'.asked = request.checks
        /\ auditRun'.left = (IF request.checks = {} THEN Checks ELSE request.checks)
        /\ DOMAIN auditRun' = {"pc", "now", "given", "limit", "left", "asked", "found"}
    BY <1>1
  <1>7. Unfinished' = Wanted'
    BY <1>6 DEF Unfinished, Wanted
  <1> QED BY <1>2, <1>3, <1>4, <1>5, <1>6, <1>7 DEF AuditProgress, AuditInv, UsersInv

LEMMA RunCheckHolds ==
    ASSUME AuditInv, RunCheck
    PROVE  AuditProgress'
  <1>0. PICK check : check = NextCheck
    OBVIOUS
  <1>1. AuditProgress /\ UsersInv /\ auditRun.pc = "running"
    BY DEF AuditInv, RunCheck
  <1>2. check \in auditRun.left /\ check \in Checks /\ check \in Wanted
    BY <1>0, <1>1, NextCheckIsLeft DEF AuditProgress, RunCheck, Unfinished, Wanted
  <1>3. PICK found \in Limited(Issues(check, users, auditRun.now)) :
          auditRun' = [auditRun EXCEPT !.left = @ \ {check}, !.found = @ \cup found]
    BY <1>0 DEF RunCheck
  <1>4. UNCHANGED <<clock, users, registration, usersAtStart>>
    BY DEF RunCheck
  <1>5. /\ auditRun'.pc = "running" /\ auditRun'.now = auditRun.now
        /\ auditRun'.limit = auditRun.limit
        /\ auditRun'.given = auditRun.given /\ auditRun'.asked = auditRun.asked
        /\ auditRun'.left = auditRun.left \ {check}
        /\ auditRun'.found = auditRun.found \cup found
        /\ DOMAIN auditRun' = {"pc", "now", "given", "limit", "left", "asked", "found"}
    BY <1>1, <1>3 DEF AuditProgress
  <1>6. Wanted' = Wanted /\ Unfinished' = Unfinished \ {check} /\ Unfinished = auditRun.left
    BY <1>1, <1>5 DEF Wanted, Unfinished
  <1>7. /\ found \subseteq Issues(check, users, auditRun.now)
        /\ found = Issues(check, users, auditRun.now) \/ Cardinality(found) = auditRun.limit
    BY <1>1, <1>3, IssuesAreFinite, LimitedFinds DEF UsersInv, AuditProgress
  <1>8. \A f \in found : f.check = check /\ ExcusableFinding(f)
    BY <1>1, <1>2, <1>7, RegisteredUsersAreConsistent DEF AuditProgress
  <1>9. \A f \in auditRun.found : f.check # check
    BY <1>1, <1>2, <1>6 DEF AuditProgress
  <1>10. FoundBy(check)' = found
    BY <1>5, <1>8, <1>9 DEF FoundBy
  <1>11. \A other : other # check => FoundBy(other)' = FoundBy(other)
    BY <1>5, <1>8 DEF FoundBy
  <1>12. Issues(check, usersAtStart, auditRun.now) \subseteq Issues(check, users, auditRun.now)
    BY <1>1, IssuesGrow DEF AuditProgress, UsersInv
  <1>13. ASSUME NEW other \in Wanted' \ Unfinished'
         PROVE  \/ Issues(other, usersAtStart', auditRun'.now) \subseteq FoundBy(other)'
                \/ Cardinality(FoundBy(other)') = auditRun'.limit
    <2>1. CASE other = check
      BY <1>4, <1>5, <1>7, <1>10, <1>12, <2>1
    <2>2. CASE other # check
      BY <1>1, <1>4, <1>5, <1>6, <1>11, <2>2 DEF AuditProgress
    <2> QED BY <2>1, <2>2
  <1>14. \A f : ExcusableFinding(f)' <=> ExcusableFinding(f)
    BY <1>4, <1>5 DEF ExcusableFinding, Excusable
  <1>15. \A f \in auditRun'.found : f.check \in Wanted' \ Unfinished' /\ ExcusableFinding(f)'
    BY <1>1, <1>2, <1>5, <1>6, <1>8, <1>14 DEF AuditProgress
  <1>16. /\ auditRun'.now \in Nat /\ auditRun'.limit \in Nat \ {0} /\ auditRun'.asked \subseteq Checks
         /\ Unfinished' \subseteq Wanted' /\ usersAtStart' \subseteq users'
         /\ auditRun'.given \/ \A u \in usersAtStart' :
                               u.by \in Registrations => u.row.created <= auditRun'.now
    BY <1>1, <1>4, <1>5, <1>6 DEF AuditProgress
  <1>17. \A other \in (Wanted \ Unfinished)' :
            (\/ Issues(other, usersAtStart, auditRun.now) \subseteq FoundBy(other)
             \/ Cardinality(FoundBy(other)) = auditRun.limit)'
    BY <1>4, <1>13 DEF Issues
  <1> QED BY <1>5, <1>15, <1>16, <1>17 DEF AuditProgress

LEMMA FinishAuditHolds ==
    ASSUME AuditInv, FinishAudit
    PROVE  AuditProgress'
  <1>1. AuditProgress /\ UsersInv /\ auditRun.pc = "running" /\ auditRun.left = {}
    BY DEF AuditInv, FinishAudit
  <1>2. /\ auditRun'.pc = "reported" /\ auditRun'.now = auditRun.now
        /\ auditRun'.limit = auditRun.limit
        /\ auditRun'.given = auditRun.given /\ auditRun'.asked = auditRun.asked
        /\ auditRun'.found = auditRun.found
        /\ auditRun'.result = (IF auditRun.found = {} THEN "ok" ELSE "issues_found")
        /\ UNCHANGED <<users, usersAtStart>>
    BY DEF FinishAudit
  <1>3. Wanted' = Wanted /\ Unfinished' = Unfinished
    BY <1>1, <1>2 DEF Wanted, Unfinished
  <1>4. \A check : FoundBy(check)' = FoundBy(check)
    BY <1>2 DEF FoundBy
  <1>5. \A f : ExcusableFinding(f)' <=> ExcusableFinding(f)
    BY <1>2 DEF ExcusableFinding, Excusable
  <1> QED BY <1>1, <1>2, <1>3, <1>4, <1>5 DEF AuditProgress, Issues

LEMMA AuditHolds == AuditInv /\ [DirectoryNext]_directoryVars => AuditInv'
  <1> SUFFICES ASSUME AuditInv, [DirectoryNext]_directoryVars PROVE AuditInv'
    OBVIOUS
  <1>1. UsersInv' /\ users \subseteq users'
    BY UsersMove DEF AuditInv
  <1>2. CASE UNCHANGED <<auditRun, usersAtStart>>
    <2>1. \A f : ExcusableFinding(f) => ExcusableFinding(f)'
      BY <1>1, <1>2 DEF ExcusableFinding, Excusable
    <2> QED BY <1>1, <1>2, <2>1
            DEF AuditInv, AuditProgress, Wanted, Unfinished, FoundBy, Issues
  <1> QED BY <1>1, <1>2, StartAuditHolds, RunCheckHolds, FinishAuditHolds
          DEF AuditInv, DirectoryNext, MakeUser, LookUpEmail, InsertUser, Tick

(* RunUserConsistencyAudit: although every check reads the table in its own   *)
(* statement while users register, the report has what the table had at the   *)
(* beginning, check by check up to the limit; of users who registered it says *)
(* only that a name of two characters is too short, and that one registered   *)
(* after the audit's "now", whether that is the clock's or the caller's.      *)
THEOREM AuditIsComplete == DirectorySpec => []AuditMissesNothing
  <1>1. DirectoryInit => AuditInv
    BY UsersInit DEF DirectoryInit, AuditInv, IdleAudit
  <1>2. AuditInv => AuditMissesNothing
    <2> SUFFICES ASSUME AuditProgress, auditRun.pc = "reported" PROVE AuditMissesNothing
      BY DEF AuditInv, AuditMissesNothing
    <2>1. Unfinished = {}
      BY DEF Unfinished
    <2>2. ASSUME auditRun.result = "ok", NEW check \in Wanted
          PROVE  Issues(check, usersAtStart, auditRun.now) = {}
      <3>1. FoundBy(check) = {} /\ Cardinality({}) = 0
        BY <2>2, FS_EmptySet DEF AuditProgress, FoundBy
      <3> QED BY <2>1, <3>1 DEF AuditProgress
    <2> QED BY <2>1, <2>2 DEF AuditMissesNothing, AuditProgress, Wanted, FoundBy,
                              ExcusableFinding
  <1> QED BY <1>1, <1>2, AuditHolds, PTL DEF DirectorySpec

-----------------------------------------------------------------------------
(* The in-memory store, for any users, conversations, length of the short     *)
(* memory and number of exchanges.                                            *)

USE DEF inMemoryVars

ExchangesArePast ==
    \A c \in Conversations : \A t \in ToSet(turns[c]) : t.exchange < nextExchange

MemoryInv ==
    /\ InMemoryTypeOK
    /\ DOMAIN turns = Conversations /\ DOMAIN snapshots = Conversations
    /\ ExchangesArePast

(* Trimming forgets from the old end only.                                    *)
LEMMA TrimKeepsTheNewest ==
    ASSUME NEW S, NEW kept \in Seq(S), kept # <<>>
    PROVE  /\ Trim(kept) \in Seq(S) /\ Len(Trim(kept)) <= MaxTurns
           /\ ToSet(Trim(kept)) \subseteq ToSet(kept)
           /\ kept[Len(kept)] \in ToSet(Trim(kept))
  <1>1. MaxTurns \in Nat \ {0} /\ Len(kept) \in Nat \ {0}
    BY InMemoryAssumption, EmptySeq
  <1>2. CASE Len(kept) <= MaxTurns
    BY <1>1, <1>2 DEF Trim, ToSet
  <1>3. CASE Len(kept) > MaxTurns
    <2> DEFINE from == Len(kept) - MaxTurns + 1
               newest == SubSeq(kept, from, Len(kept))
    <2>1. Trim(kept) = newest
      BY <1>1, <1>3 DEF Trim
    <2>2. from \in 1 .. Len(kept) /\ Len(kept) \in 1 .. Len(kept)
      BY <1>1, <1>3
    <2>3. /\ newest \in Seq(S) /\ Len(newest) = MaxTurns
          /\ \A i \in 1 .. MaxTurns : newest[i] = kept[from + i - 1]
      BY <1>1, <1>3, <2>2
    <2> HIDE DEF newest
    <2>4. \A i \in 1 .. MaxTurns : from + i - 1 \in 1 .. Len(kept)
      BY <1>1, <1>3
    <2>5. newest[MaxTurns] = kept[Len(kept)] /\ MaxTurns \in 1 .. MaxTurns
      BY <1>1, <1>3, <2>3
    <2>6. ToSet(newest) \subseteq ToSet(kept)
      <3>1. DOMAIN newest = 1 .. MaxTurns /\ DOMAIN kept = 1 .. Len(kept)
        BY <2>3
      <3> QED BY <2>3, <2>4, <3>1 DEF ToSet
    <2>7. kept[Len(kept)] \in ToSet(newest)
      BY <1>1, <2>3, <2>5 DEF ToSet
    <2> QED BY <1>1, <2>1, <2>3, <2>6, <2>7
  <1> QED BY <1>1, <1>2, <1>3

LEMMA MemoryInit == InMemoryInit => MemoryInv
  BY InMemoryAssumption DEF InMemoryInit, MemoryInv, InMemoryTypeOK, ExchangesArePast, ToSet

(* What an append does to the turns of its conversation.                      *)
LEMMA AddedTurns ==
    ASSUME MemoryInv, NEW c \in Conversations, NEW added \in Seq(Turn), added # <<>>,
           \A t \in ToSet(added) : t.exchange = nextExchange, Adds(c, added)
    PROVE  /\ nextExchange \in ExchangeIds /\ nextExchange' = nextExchange + 1
           /\ turns' = [turns EXCEPT ![c] = turns'[c]]
           /\ turns'[c] \in Seq(Turn) /\ Len(turns'[c]) <= MaxTurns
           /\ ToSet(turns'[c]) \subseteq ToSet(turns[c]) \cup ToSet(added)
           /\ added[Len(added)] \in ToSet(turns'[c])
           /\ ExchangesArePast'
  <1> DEFINE all == turns[c] \o added
  <1>1. turns[c] \in Seq(Turn) /\ nextExchange \in Nat \ {0}
    BY DEF MemoryInv, InMemoryTypeOK
  <1>2. Len(added) \in Nat \ {0}
    BY EmptySeq
  <1>3. /\ all \in Seq(Turn) /\ Len(all) = Len(turns[c]) + Len(added)
        /\ \A i \in 1 .. Len(all) :
              all[i] = IF i <= Len(turns[c]) THEN turns[c][i] ELSE added[i - Len(turns[c])]
    BY <1>1, ConcatProperties
  <1>4. /\ nextExchange' = nextExchange + 1 /\ nextExchange \in ExchangeIds
        /\ turns' = [turns EXCEPT ![c] = Trim(all)]
    BY <1>1, InMemoryAssumption DEF Adds, ExchangeIds
  <1> HIDE DEF all
  <1>5. all # <<>> /\ all[Len(all)] = added[Len(added)]
    BY <1>1, <1>2, <1>3
  <1>6. ToSet(all) \subseteq ToSet(turns[c]) \cup ToSet(added)
    BY <1>1, <1>2, <1>3 DEF ToSet
  <1>7. turns'[c] = Trim(all) /\ turns' = [turns EXCEPT ![c] = turns'[c]]
    BY <1>4 DEF MemoryInv
  <1>8. /\ turns'[c] \in Seq(Turn) /\ Len(turns'[c]) <= MaxTurns
        /\ ToSet(turns'[c]) \subseteq ToSet(turns[c]) \cup ToSet(added)
        /\ added[Len(added)] \in ToSet(turns'[c])
    BY <1>3, <1>5, <1>6, <1>7, TrimKeepsTheNewest
  <1>9. ASSUME NEW d \in Conversations, NEW t \in ToSet(turns'[d])
        PROVE  t.exchange < nextExchange'
    <2>1. CASE d # c
      <3>1. turns'[d] = turns[d]
        BY <1>7, <2>1 DEF MemoryInv
      <3>2. t.exchange < nextExchange
        BY <3>1 DEF MemoryInv, ExchangesArePast
      <3>3. t \in Turn
        BY <3>1 DEF MemoryInv, InMemoryTypeOK, ToSet
      <3> QED BY <1>1, <1>4, <3>2, <3>3 DEF Turn, ExchangeIds
    <2>2. CASE d = c
      <3>1. t \in ToSet(turns[c]) \/ t \in ToSet(added)
        BY <1>8, <2>2
      <3>2. t \in Turn
        BY <1>1, <3>1 DEF ToSet
      <3>3. t.exchange < nextExchange \/ t.exchange = nextExchange
        BY <3>1 DEF MemoryInv, ExchangesArePast
      <3> QED BY <1>1, <1>4, <3>2, <3>3 DEF Turn, ExchangeIds
    <2> QED BY <2>1, <2>2
  <1>10. ExchangesArePast'
    BY <1>9 DEF ExchangesArePast, ToSet
  <1> QED BY <1>4, <1>7, <1>8, <1>10

LEMMA MemoryLedgerInit == InMemoryInit => Ledger!Init
  BY DEF InMemoryInit, Ledger!Init, LedgerLog, ToSet

(* Claiming, and adding one user's turns of the next exchange, step by step.  *)
LEMMA ClaimHolds ==
    ASSUME MemoryInv, NEW c \in Conversations, NEW u \in Users, ClaimOrValidate(c, u)
    PROVE  MemoryInv' /\ [Ledger!Next]_<<owners, LedgerLog>>
  <1>1. /\ owners[c] \in {NoOne, u} /\ owners' = [owners EXCEPT ![c] = u]
        /\ UNCHANGED <<turns, snapshots, nextExchange, appended>>
    BY DEF ClaimOrValidate, CanClaim
  <1>2. MemoryInv'
    BY <1>1 DEF MemoryInv, InMemoryTypeOK, ExchangesArePast
  <1>3. LedgerLog' = LedgerLog
    BY <1>1 DEF LedgerLog
  <1>4. CASE owners[c] = NoOne
    <2>1. Ledger!Claim(c, u)
      BY <1>1, <1>3, <1>4 DEF Ledger!Claim, LedgerLog
    <2> QED BY <1>2, <2>1 DEF Ledger!Next
  <1>5. CASE owners[c] = u
    <2>1. owners' = owners
      BY <1>1, <1>5 DEF MemoryInv, InMemoryTypeOK
    <2> QED BY <1>2, <1>3, <2>1
  <1> QED BY <1>1, <1>4, <1>5

LEMMA AppendHolds ==
    ASSUME MemoryInv, NEW c \in Conversations, NEW u \in Users, NEW added \in Seq(Turn),
           added # <<>>, Adds(c, added), CanClaim(c, u), owners' = [owners EXCEPT ![c] = u],
           \A t \in ToSet(added) : t.exchange = nextExchange /\ t.owner = u,
           DOMAIN snapshots' = Conversations,
           \A d \in Conversations : snapshots'[d] \in Seq(ExchangeIds)
    PROVE  MemoryInv' /\ Ledger!Next
  <1>1. /\ nextExchange \in ExchangeIds /\ nextExchange' = nextExchange + 1
        /\ turns' = [turns EXCEPT ![c] = turns'[c]]
        /\ turns'[c] \in Seq(Turn) /\ Len(turns'[c]) <= MaxTurns
        /\ ToSet(turns'[c]) \subseteq ToSet(turns[c]) \cup ToSet(added)
        /\ added[Len(added)] \in ToSet(turns'[c])
        /\ ExchangesArePast'
    BY AddedTurns
  <1>2. /\ DOMAIN turns' = Conversations
        /\ \A d \in Conversations : d # c => turns'[d] = turns[d]
    BY <1>1 DEF MemoryInv
  <1>3. \A d \in Conversations : turns'[d] \in Seq(Turn) /\ Len(turns'[d]) <= MaxTurns
    BY <1>1, <1>2 DEF MemoryInv, InMemoryTypeOK
  <1>4. owners' \in [Conversations -> Users \cup {NoOne}]
    BY DEF MemoryInv, InMemoryTypeOK
  <1>5. nextExchange' \in 1 .. MaxExchanges + 1
    BY <1>1, InMemoryAssumption DEF ExchangeIds
  <1>6. MemoryInv'
    BY <1>1, <1>2, <1>3, <1>4, <1>5 DEF MemoryInv, InMemoryTypeOK, ExchangeIds
  <1> DEFINE e == [owner |-> u, exchange |-> nextExchange]
             last == added[Len(added)]
             Exchange(t) == [owner |-> t.owner, exchange |-> t.exchange]
  <1>7. last.owner = u /\ last.exchange = nextExchange /\ last \in ToSet(turns'[c])
    <2>1. Len(added) \in DOMAIN added
      BY EmptySeq
    <2> QED BY <1>1, <2>1 DEF ToSet
  <1>8. e \in [owner : Users, exchange : ExchangeIds]
    BY <1>1
  <1>9. \A t \in ToSet(added) : Exchange(t) = e
    OBVIOUS
  <1>10. /\ LedgerLog'[c] = {Exchange(t) : t \in ToSet(turns'[c])}
         /\ LedgerLog[c] = {Exchange(t) : t \in ToSet(turns[c])}
         /\ \A d \in Conversations : d # c => LedgerLog'[d] = LedgerLog[d]
    BY <1>2 DEF LedgerLog
  <1>11. LedgerLog' = [LedgerLog EXCEPT ![c] = LedgerLog'[c]]
    BY <1>10 DEF LedgerLog
  <1>12. e \in LedgerLog'[c] /\ LedgerLog'[c] \subseteq LedgerLog[c] \cup {e}
    BY <1>1, <1>7, <1>9, <1>10
  <1>13. e \notin LedgerLog[c]
    <2> SUFFICES ASSUME NEW t \in ToSet(turns[c]), t.exchange = nextExchange PROVE FALSE
      BY <1>10
    <2>1. t.exchange < nextExchange /\ nextExchange \in Nat
      BY <1>1 DEF MemoryInv, ExchangesArePast, ExchangeIds
    <2> QED BY <2>1
  <1> HIDE DEF e
  <1>14. owners[c] \in {NoOne, u} /\ e.owner = u
    BY DEF CanClaim, e
  <1>15. Ledger!Append(c, u, e)
    BY <1>11, <1>12, <1>13, <1>14 DEF Ledger!Append
  <1>16. \E x \in [owner : Users, exchange : ExchangeIds] : Ledger!Append(c, u, x)
    BY <1>8, <1>15, Zenon
  <1> QED BY <1>6, <1>16, Zenon DEF Ledger!Next

LEMMA EvidenceHolds ==
    ASSUME MemoryInv, NEW c \in Conversations, NEW u \in Users,
           AppendEvidence(c, u) \/ EraseEvidence(c, u)
    PROVE  MemoryInv' /\ UNCHANGED <<owners, LedgerLog>>
  <1>1. UNCHANGED <<owners, turns>> /\ DOMAIN snapshots' = Conversations
    BY DEF AppendEvidence, EraseEvidence, MemoryInv
  <1>2. nextExchange' \in {nextExchange, nextExchange + 1}
          /\ nextExchange' \in 1 .. MaxExchanges + 1
    BY InMemoryAssumption DEF AppendEvidence, EraseEvidence, MemoryInv, InMemoryTypeOK
  <1>3. \A d \in Conversations : snapshots'[d] \in Seq(ExchangeIds)
    <2>1. \A d \in Conversations : snapshots[d] \in Seq(ExchangeIds)
      BY DEF MemoryInv, InMemoryTypeOK
    <2>2. CASE AppendEvidence(c, u)
      <3>1. nextExchange \in ExchangeIds
        BY <2>2, InMemoryAssumption DEF AppendEvidence, MemoryInv, InMemoryTypeOK, ExchangeIds
      <3>2. Append(snapshots[c], nextExchange) \in Seq(ExchangeIds)
        BY <2>1, <3>1, AppendProperties
      <3> QED BY <2>1, <2>2, <3>2 DEF AppendEvidence, MemoryInv
    <2>3. CASE EraseEvidence(c, u)
      BY <2>1, <2>3 DEF EraseEvidence, MemoryInv
    <2> QED BY <2>2, <2>3
  <1>4. ExchangesArePast'
    <2> SUFFICES ASSUME NEW d \in Conversations, NEW t \in ToSet(turns[d])
                 PROVE  t.exchange < nextExchange'
      BY <1>1 DEF ExchangesArePast
    <2>1. t.exchange < nextExchange /\ t \in Turn /\ nextExchange \in Nat
      BY DEF MemoryInv, ExchangesArePast, InMemoryTypeOK, ToSet
    <2> QED BY <1>2, <2>1 DEF Turn, ExchangeIds
  <1>5. MemoryInv'
    BY <1>1, <1>2, <1>3, <1>4 DEF MemoryInv, InMemoryTypeOK, ExchangeIds
  <1> QED BY <1>1, <1>5 DEF LedgerLog

LEMMA MemoryMoves ==
    MemoryInv /\ [InMemoryNext]_inMemoryVars => MemoryInv' /\ [Ledger!Next]_<<owners, LedgerLog>>
  <1> SUFFICES ASSUME MemoryInv, [InMemoryNext]_inMemoryVars
               PROVE  MemoryInv' /\ [Ledger!Next]_<<owners, LedgerLog>>
    OBVIOUS
  <1>1. CASE UNCHANGED inMemoryVars
    BY <1>1 DEF MemoryInv, InMemoryTypeOK, ExchangesArePast, LedgerLog
  <1>2. ASSUME NEW c \in Conversations, NEW u \in Users, AppendCompletedExchange(c, u)
        PROVE  MemoryInv' /\ Ledger!Next
    <2> DEFINE asked == TurnOf("user", u)  answered == TurnOf("assistant", u)
               added == <<asked, answered>>
    <2>1. nextExchange \in ExchangeIds
      BY <1>2, InMemoryAssumption
         DEF AppendCompletedExchange, Adds, MemoryInv, InMemoryTypeOK, ExchangeIds
    <2>2. asked \in Turn /\ answered \in Turn
      BY <2>1 DEF TurnOf, Turn
    <2>3. \A t \in {asked, answered} : t.exchange = nextExchange /\ t.owner = u
      BY DEF TurnOf
    <2> HIDE DEF asked, answered
    <2>4. added \in Seq(Turn) /\ added # <<>> /\ ToSet(added) = {asked, answered}
      BY <2>2 DEF ToSet
    <2>5. /\ Adds(c, added) /\ CanClaim(c, u) /\ owners' = [owners EXCEPT ![c] = u]
          /\ \E snapshot \in {<<>>, <<nextExchange>>} :
                snapshots' = [snapshots EXCEPT ![c] = @ \o snapshot]
      BY <1>2 DEF AppendCompletedExchange, asked, answered
    <2>6. /\ DOMAIN snapshots' = Conversations
          /\ \A d \in Conversations : snapshots'[d] \in Seq(ExchangeIds)
      <3>1. PICK snapshot \in {<<>>, <<nextExchange>>} :
                snapshots' = [snapshots EXCEPT ![c] = @ \o snapshot]
        BY <2>5
      <3>2. snapshots[c] \in Seq(ExchangeIds)
        BY DEF MemoryInv, InMemoryTypeOK
      <3>3. snapshot \in Seq(ExchangeIds)
        <4>1. <<>> \in Seq(ExchangeIds) /\ <<nextExchange>> \in Seq(ExchangeIds)
          BY <2>1
        <4> QED BY <4>1
      <3>4. snapshots[c] \o snapshot \in Seq(ExchangeIds)
        BY <3>2, <3>3, ConcatProperties
      <3> QED BY <3>1, <3>4 DEF MemoryInv, InMemoryTypeOK
    <2> HIDE DEF added
    <2> QED BY <2>3, <2>4, <2>5, <2>6, AppendHolds
  <1>3. ASSUME NEW c \in Conversations, NEW u \in Users, AppendTurn(c, u)
        PROVE  MemoryInv' /\ Ledger!Next
    <2>1. PICK role \in {"user", "assistant"} : Adds(c, <<TurnOf(role, u)>>)
      BY <1>3 DEF AppendTurn
    <2> DEFINE turn == TurnOf(role, u)  added == <<turn>>
    <2>2. nextExchange \in ExchangeIds
      BY <2>1, InMemoryAssumption DEF Adds, MemoryInv, InMemoryTypeOK, ExchangeIds
    <2>3. turn \in Turn /\ turn.exchange = nextExchange /\ turn.owner = u
      BY <2>2 DEF TurnOf, Turn
    <2> HIDE DEF turn
    <2>4. added \in Seq(Turn) /\ added # <<>> /\ ToSet(added) = {turn}
      BY <2>3 DEF ToSet
    <2>5. Adds(c, added)
      BY <2>1 DEF turn
    <2>6. /\ CanClaim(c, u) /\ owners' = [owners EXCEPT ![c] = u]
          /\ DOMAIN snapshots' = Conversations
          /\ \A d \in Conversations : snapshots'[d] \in Seq(ExchangeIds)
      BY <1>3 DEF AppendTurn, MemoryInv, InMemoryTypeOK
    <2> HIDE DEF added
    <2> QED BY <2>3, <2>4, <2>5, <2>6, AppendHolds
  <1> QED BY <1>1, <1>2, <1>3, ClaimHolds, EvidenceHolds DEF InMemoryNext

(* The fallback store keeps the promise of ConversationStorePort: trimming is  *)
(* the only forgetting, it never takes the exchange being added, and nobody   *)
(* adds to a conversation of somebody else.                                   *)
THEOREM MemoryImplementsLedger == InMemorySpec => InMemoryImplementsLedger
  <1>1. InMemoryInit => MemoryInv /\ Ledger!Init
    BY MemoryInit, MemoryLedgerInit
  <1>2. MemoryInv /\ [InMemoryNext]_inMemoryVars =>
            MemoryInv' /\ [Ledger!Next]_(Ledger!ledger)
    BY MemoryMoves DEF Ledger!ledger, LedgerLog
  <1> QED BY <1>1, <1>2, PTL DEF InMemorySpec, InMemoryImplementsLedger, Ledger!Spec

-----------------------------------------------------------------------------
(* The read tools of operations, for any rows, payloads and number of reads.  *)

USE DEF operationsVars

EvidenceItem == [code : Codes, fields : SUBSET {"priority", "due_at"},
                 priority : Priorities, due : Nat]
CollectionEvidence == [type : {"collection"}, items : Seq(EvidenceItem)]

TablesAreTyped == tables \in [Codes -> Row]
OperationsInv == TablesAreTyped /\ trail \in Seq(CollectionEvidence)

(* What a SELECT returns: rows of the filters, in its order, up to the limit. *)
LEMMA ResultsAreAsked ==
    ASSUME TablesAreTyped, NEW tool \in ReadTools, NEW payload \in Payloads,
           NEW s \in Results(tool, payload)
    PROVE  /\ s \in Seq(Codes)
           /\ tool # "get_asset_status" => Len(s) <= payload.limit
           /\ \A i \in DOMAIN s : Matches(tool, payload, tables[s[i]])
           /\ \A i, j \in DOMAIN s : i < j => MayPrecede(tool, s[i], s[j])
  <1> DEFINE matching == {c \in Codes : Matches(tool, payload, tables[c])}
             n == Cardinality(matching)
  <1>1. PICK all \in Orderings(tool, payload) :
            s = IF tool = "get_asset_status" \/ Len(all) <= payload.limit THEN all
                ELSE SubSeq(all, 1, payload.limit)
    BY DEF Results
  <1>2. n \in Nat
    BY OperationsAssumption, FS_Subset, FS_CardinalityType
  <1>3. all \in [1 .. n -> matching]
    BY DEF Orderings, SetToSeqs
  <1>4. \A i, j \in DOMAIN all : i < j => MayPrecede(tool, all[i], all[j])
    BY DEF Orderings
  <1>5. \A i \in 1 .. n : all[i] \in Codes /\ Matches(tool, payload, tables[all[i]])
    BY <1>3
  <1> HIDE DEF n, matching
  <1>6. all \in Seq(Codes) /\ Len(all) = n /\ DOMAIN all = 1 .. n
    <2>1. all \in [1 .. n -> Codes]
      BY <1>3, <1>5
    <2> QED BY <1>2, <2>1
  <1>7. PICK limit \in 1 .. 100 : limit = payload.limit
    BY OperationsAssumption
  <1>8. CASE s = all /\ (tool # "get_asset_status" => Len(all) <= payload.limit)
    BY <1>4, <1>5, <1>6, <1>8
  <1>9. CASE s = SubSeq(all, 1, limit) /\ ~(Len(all) <= limit)
    <2>1. limit < n /\ \A i \in 1 .. limit : i \in 1 .. n
      BY <1>2, <1>6, <1>9
    <2>2. \A i \in 1 .. limit : all[i] \in Codes
      BY <1>5, <2>1
    <2>3. /\ s \in Seq(Codes) /\ Len(s) = limit
          /\ \A i \in 1 .. limit : s[i] = all[i]
      <3>1. /\ SubSeq(all, 1, limit) \in Seq(Codes)
            /\ Len(SubSeq(all, 1, limit)) = IF 1 <= limit THEN limit - 1 + 1 ELSE 0
            /\ \A i \in 1 .. limit - 1 + 1 : SubSeq(all, 1, limit)[i] = all[1 + i - 1]
        BY <2>2, SubSeqProperties
      <3> QED BY <1>9, <3>1
    <2>4. DOMAIN s = 1 .. limit
      BY <2>3
    <2>5. \A i \in DOMAIN s : i \in DOMAIN all /\ s[i] = all[i]
      BY <1>6, <2>1, <2>3, <2>4
    <2> QED BY <1>4, <1>5, <1>6, <1>7, <2>3, <2>5
  <1> QED BY <1>1, <1>7, <1>8, <1>9

(* Instants in order are written as texts in order: "+" comes before ".".     *)
LEMMA TextsFollowInstants ==
    ASSUME NEW a \in Nat, NEW b \in Nat, a <= b
    PROVE  \/ DueText(a).second < DueText(b).second
           \/ DueText(a).second = DueText(b).second /\ DueText(a).follows <= DueText(b).follows
  BY DEF DueText

LEMMA AdapterAcceptsResults ==
    ASSUME TablesAreTyped, NEW tool \in ReadTools, NEW payload \in Payloads,
           NEW s \in Results(tool, payload)
    PROVE  AdapterAccepts(tool, payload, s) /\ Collection(s) \in CollectionEvidence
  <1>1. /\ s \in Seq(Codes)
        /\ tool # "get_asset_status" => Len(s) <= payload.limit
        /\ \A i \in DOMAIN s : Matches(tool, payload, tables[s[i]])
        /\ \A i, j \in DOMAIN s : i < j => MayPrecede(tool, s[i], s[j])
    BY ResultsAreAsked
  <1>2. \A i \in DOMAIN s : s[i] \in Codes /\ tables[s[i]] \in Row
    BY <1>1 DEF TablesAreTyped
  <1>3. \A i \in DOMAIN s : FiltersAgree(tool, payload, tables[s[i]])
    BY <1>1 DEF Matches, FiltersAgree
  <1>4. ASSUME tool = "get_production_schedule"
        PROVE  AdapterAccepts(tool, payload, s)
    <2>1. \A i \in DOMAIN s : tables[s[i]].due # 0
      BY <1>1, <1>4 DEF Matches
    <2>2. ASSUME NEW i \in 2 .. Len(s)
          PROVE  tables[s[i - 1]].due <= tables[s[i]].due
      <3>1. i - 1 \in DOMAIN s /\ i \in DOMAIN s /\ i - 1 < i
        BY <1>1
      <3>2. MayPrecede(tool, s[i - 1], s[i])
        BY <1>1, <3>1
      <3> QED BY <1>4, <3>2 DEF MayPrecede
    <2>3. \A i \in 2 .. Len(s) : i - 1 \in DOMAIN s /\ i \in DOMAIN s
      BY <1>1
    <2>4. \A i \in DOMAIN s : tables[s[i]].due \in Nat
      BY <1>2 DEF Row
    <2>5. SortedTexts(s)
      BY <2>2, <2>3, <2>4, TextsFollowInstants DEF SortedTexts
    <2> QED BY <1>1, <1>3, <2>1, <2>5 DEF AdapterAccepts
  <1>5. AdapterAccepts(tool, payload, s)
    BY <1>1, <1>3, <1>4 DEF AdapterAccepts
  <1>6. \A i \in DOMAIN s : Item(s[i]) \in EvidenceItem
    BY <1>2 DEF Item, EvidenceItem, FieldsShown, Row
  <1>7. [i \in DOMAIN s |-> Item(s[i])] \in Seq(EvidenceItem)
    <2>1. Len(s) \in Nat /\ DOMAIN s = 1 .. Len(s)
      BY <1>1
    <2> QED BY <1>6, <2>1, IsASeq
  <1> QED BY <1>5, <1>7 DEF Collection, CollectionEvidence

LEMMA OperationsStays == OperationsInv /\ [OperationsNext]_operationsVars => OperationsInv'
  <1> SUFFICES ASSUME OperationsInv, [OperationsNext]_operationsVars PROVE OperationsInv'
    OBVIOUS
  <1>1. ASSUME NEW tool \in ReadTools, NEW payload \in Payloads, AskTool(tool, payload)
        PROVE  OperationsInv'
    <2>1. PICK s \in Results(tool, payload) :
              Keeps(IF AdapterAccepts(tool, payload, s) THEN Collection(s) ELSE Failure)
      BY <1>1 DEF AskTool
    <2>2. Collection(s) \in CollectionEvidence /\ trail' = Append(trail, Collection(s))
      BY <2>1, AdapterAcceptsResults DEF OperationsInv, Keeps
    <2>3. trail' \in Seq(CollectionEvidence)
      BY <2>2, AppendProperties DEF OperationsInv
    <2> QED BY <1>1, <2>3 DEF OperationsInv, TablesAreTyped, AskTool
  <1>2. ASSUME NEW c \in Codes, StatusChanges(c)
        PROVE  OperationsInv'
    <2>1. PICK status \in NextStatuses(tables[c].status) :
              tables' = [tables EXCEPT ![c].status = status]
      BY <1>2 DEF StatusChanges
    <2>2. tables[c] \in Row /\ status \in Statuses
      BY DEF OperationsInv, TablesAreTyped, NextStatuses, Statuses
    <2>3. [tables[c] EXCEPT !.status = status] \in Row
      BY <2>2 DEF Row
    <2>4. tables' \in [Codes -> Row]
      BY <2>1, <2>3 DEF OperationsInv, TablesAreTyped
    <2> QED BY <1>2, <2>4 DEF OperationsInv, TablesAreTyped, StatusChanges
  <1>3. CASE UNCHANGED <<tables, trail>>
    BY <1>3 DEF OperationsInv, TablesAreTyped
  <1> QED BY <1>1, <1>2, <1>3 DEF OperationsNext, FollowUp

(* No read of a tool ends as "invalid_tool_result": the adapter's checks and  *)
(* the repository's SELECTs agree, whatever statuses change in between.       *)
THEOREM ReadsAdapt == OperationsSpec => []ToolResultsAdapt
  <1>1. OperationsInit => OperationsInv
    BY OperationsAssumption DEF OperationsInit, OperationsInv, TablesAreTyped
  <1>2. OperationsInv => ToolResultsAdapt
    <2> SUFFICES ASSUME OperationsInv, NEW i \in DOMAIN trail
                 PROVE  trail[i].type # "failure"
      BY DEF ToolResultsAdapt
    <2>1. trail[i] \in CollectionEvidence
      BY DEF OperationsInv
    <2> QED BY <2>1 DEF CollectionEvidence
  <1> QED BY <1>1, <1>2, OperationsStays, PTL DEF OperationsSpec

(* The window of snapshots a follow-up looks at: the newest EvidenceLimit.     *)
LEMMA RecentIsTheEnd ==
    ASSUME NEW E, trail \in Seq(E)
    PROVE  \E older \in Nat :
              /\ older <= Len(trail) /\ Len(trail) - older <= EvidenceLimit
              /\ RecentEvidence \in Seq(E) /\ Len(RecentEvidence) = Len(trail) - older
              /\ \A k \in 1 .. Len(trail) - older : RecentEvidence[k] = trail[older + k]
  <1> DEFINE n == Len(trail)  m == n - EvidenceLimit
  <1>1. n \in Nat /\ EvidenceLimit \in Nat \ {0}
    BY OperationsAssumption
  <1>2. CASE n <= EvidenceLimit
    <2>1. RecentEvidence = trail
      BY <1>2 DEF RecentEvidence
    <2> WITNESS 0 \in Nat
    <2> QED BY <1>1, <1>2, <2>1
  <1>3. CASE ~(n <= EvidenceLimit)
    <2>1. RecentEvidence = SubSeq(trail, m + 1, n)
      BY <1>3 DEF RecentEvidence
    <2>2. m \in Nat /\ m + 1 \in 1 .. n /\ m < n /\ n - m = EvidenceLimit
      BY <1>1, <1>3
    <2>3. \A k \in m + 1 .. n : trail[k] \in E
      BY <2>2
    <2>4. /\ RecentEvidence \in Seq(E)
          /\ Len(RecentEvidence) = IF m + 1 <= n THEN n - (m + 1) + 1 ELSE 0
          /\ \A k \in 1 .. n - (m + 1) + 1 : RecentEvidence[k] = trail[(m + 1) + k - 1]
      BY <1>1, <2>1, <2>2, <2>3, SubSeqProperties
    <2>5. n - (m + 1) + 1 = n - m /\ \A k \in 1 .. n - m : (m + 1) + k - 1 = m + k
      BY <1>1, <2>2
    <2>6. Len(RecentEvidence) = n - m /\ \A k \in 1 .. n - m : RecentEvidence[k] = trail[m + k]
      BY <1>1, <2>2, <2>4, <2>5
    <2> USE <2>2
    <2> WITNESS m \in Nat
    <2> QED BY <1>1, <2>2, <2>4, <2>6
  <1> QED BY <1>2, <1>3

(* What the ranker selects: the items with a rank that no other one outranks. *)
LEMMA BestAreNotOutranked ==
    ASSUME NEW items \in Seq(EvidenceItem), NEW operation
    PROVE  LET shown == {items[k] : k \in DOMAIN items}
               Outranks(a, b) == IF operation = "maximum"
                                 THEN Ranks[a.priority] > Ranks[b.priority]
                                 ELSE Ranks[a.priority] < Ranks[b.priority]
           IN {items[k] : k \in Best(items, DOMAIN items, operation)}
                 = {a \in shown : Ranked(a) /\
                       ~\E b \in shown : Ranked(b) /\ Outranks(b, a)}
  <1>1. \A k \in DOMAIN items : Ranked(items[k]) => Ranks[items[k].priority] \in Int
    BY DEF Ranked, Ranks
  <1> QED BY <1>1 DEF Best

LEMMA FollowUpQuotes ==
    ASSUME OperationsInv, NEW request \in ReferenceRequests, FollowUp(request)
    PROVE  FollowUpsQuoteTheLatestResult'
  <1>1. PICK older \in Nat :
            /\ older <= Len(trail) /\ Len(trail) - older <= EvidenceLimit
            /\ RecentEvidence \in Seq(CollectionEvidence)
            /\ Len(RecentEvidence) = Len(trail) - older
            /\ \A k \in 1 .. Len(trail) - older : RecentEvidence[k] = trail[older + k]
    BY RecentIsTheEnd DEF OperationsInv
  <1>2. PICK k \in DOMAIN RecentEvidence :
            /\ IsLatestCollection(k)
            /\ LET items == RecentEvidence[k].items
                   chosen == {items[j] : j \in Chosen(items, request)}
               IN
               /\ chosen # {}
               /\ reply' = [outcome |-> "resolved", request |-> request, items |-> chosen,
                            status |-> FieldStatus(chosen, request.field)]
    BY DEF FollowUp
  <1> DEFINE items == RecentEvidence[k].items
             quoted == {items[j] : j \in Chosen(items, request)}
             i == older + k
             shown == {items[j] : j \in DOMAIN items}
  <1>3. trail \in Seq(CollectionEvidence) /\ Len(trail) \in Nat /\ trail' = trail
    BY DEF OperationsInv, FollowUp
  <1>4. /\ k \in 1 .. Len(trail) - older
        /\ i \in DOMAIN trail /\ trail[i] = RecentEvidence[k]
        /\ Len(trail) - i < EvidenceLimit
    BY <1>1, <1>3, OperationsAssumption
  <1>5. \A j \in i + 1 .. Len(trail) : trail[j].items = <<>>
    <2> SUFFICES ASSUME NEW j \in i + 1 .. Len(trail) PROVE trail[j].items = <<>>
      OBVIOUS
    <2>1. j - older \in k + 1 .. Len(RecentEvidence) /\ older + (j - older) = j
      BY <1>1, <1>3, <1>4
    <2>2. RecentEvidence[j - older].items = <<>>
      BY <1>2, <2>1 DEF IsLatestCollection
    <2>3. RecentEvidence[j - older] = trail[older + (j - older)]
      BY <1>1, <1>4, <2>1
    <2> QED BY <2>1, <2>2, <2>3
  <1>6. items \in Seq(EvidenceItem) /\ ToSet(trail[i].items) = shown
    <2>1. RecentEvidence[k] \in CollectionEvidence
      BY <1>1, <1>2
    <2> QED BY <1>4, <2>1 DEF CollectionEvidence, ToSet
  <1>7. reply' = [outcome |-> "resolved", request |-> request, items |-> quoted,
                  status |-> FieldStatus(quoted, request.field)]
        /\ quoted # {}
    BY <1>2
  <1>8. Selected(items, request.ordinal)
            = IF request.ordinal = NoOrdinal THEN DOMAIN items
              ELSE {request.ordinal} \cap DOMAIN items
    BY DEF Selected
  <1>9. Chosen(items, request) \subseteq Selected(items, request.ordinal)
    BY DEF Chosen, Best
  <1>10. quoted \subseteq shown
    BY <1>8, <1>9
  <1>11. request.ordinal # NoOrdinal => quoted = {items[request.ordinal]}
    BY <1>7, <1>8, <1>9
  <1>12. request.ordinal = NoOrdinal /\ request.operation = "field" => quoted = shown
    BY <1>8 DEF Chosen
  <1>13. ASSUME request.ordinal = NoOrdinal, request.operation # "field"
         PROVE  quoted = {items[j] : j \in Best(items, DOMAIN items, request.operation)}
    <2>1. HasRanker(request.field)
      BY <1>7, <1>13 DEF Chosen
    <2> QED BY <1>8, <1>13, <2>1 DEF Chosen
  <1>14. FieldStatus(quoted, request.field) = "complete"
            => \A item \in quoted : request.field \in item.fields
    BY DEF FieldStatus
  <1>15. ASSUME request.ordinal = NoOrdinal, request.operation # "field"
         PROVE  quoted = {a \in shown : Ranked(a) /\
                   ~\E b \in shown : Ranked(b) /\
                       IF request.operation = "maximum"
                       THEN Ranks[b.priority] > Ranks[a.priority]
                       ELSE Ranks[b.priority] < Ranks[a.priority]}
    <2>1. {items[j] : j \in Best(items, DOMAIN items, request.operation)}
             = {a \in shown : Ranked(a) /\
                   ~\E b \in shown : Ranked(b) /\
                       IF request.operation = "maximum"
                       THEN Ranks[b.priority] > Ranks[a.priority]
                       ELSE Ranks[b.priority] < Ranks[a.priority]}
      BY <1>6, BestAreNotOutranked
    <2> QED BY <1>13, <1>15, <2>1
  <1>16. trail[i].items = items
    BY <1>4
  <1> HIDE DEF quoted, items, shown, i
  <1>17. /\ reply'.request = request /\ reply'.items = quoted
         /\ reply'.status = FieldStatus(quoted, request.field)
    BY <1>7
  <1> QED
    <2> SUFFICES /\ Len(trail') - i < EvidenceLimit
                 /\ \A j \in i + 1 .. Len(trail') : trail'[j].items = <<>>
                 /\ quoted # {} /\ quoted \subseteq shown
                 /\ request.ordinal # NoOrdinal => quoted = {items[request.ordinal]}
                 /\ request.ordinal = NoOrdinal /\ request.operation = "field" =>
                       quoted = shown
                 /\ request.ordinal = NoOrdinal /\ request.operation # "field" =>
                       quoted = {a \in shown : Ranked(a) /\
                           ~\E b \in shown : Ranked(b) /\
                               IF request.operation = "maximum"
                               THEN Ranks[b.priority] > Ranks[a.priority]
                               ELSE Ranks[b.priority] < Ranks[a.priority]}
                 /\ reply'.status = "complete" =>
                       \A item \in quoted : request.field \in item.fields
      BY <1>3, <1>4, <1>6, <1>16, <1>17, Zenon DEF FollowUpsQuoteTheLatestResult
    <2> QED BY <1>3, <1>4, <1>5, <1>7, <1>10, <1>11, <1>12, <1>14, <1>15, <1>17

(* A follow-up is answered from the newest result with anything in it, by all *)
(* the items the question is about and no other, whatever was read before and *)
(* however many snapshots the conversation keeps.                             *)
THEOREM FollowUpsQuoteTruly == OperationsSpec => []FollowUpsQuoteTheLatestResult
  <1> DEFINE Inv == OperationsInv /\ FollowUpsQuoteTheLatestResult
  <1>1. OperationsInit => Inv
    BY OperationsAssumption
       DEF OperationsInit, OperationsInv, TablesAreTyped, FollowUpsQuoteTheLatestResult, NoReply
  <1>2. Inv /\ [OperationsNext]_operationsVars => Inv'
    <2> SUFFICES ASSUME Inv, [OperationsNext]_operationsVars
                 PROVE  FollowUpsQuoteTheLatestResult'
      BY OperationsStays
    <2>1. CASE \E tool \in ReadTools, payload \in Payloads : AskTool(tool, payload)
      BY <2>1 DEF AskTool, NoReply, FollowUpsQuoteTheLatestResult
    <2>2. CASE \E c \in Codes : StatusChanges(c)
      BY <2>2 DEF StatusChanges, FollowUpsQuoteTheLatestResult
    <2>3. CASE \E request \in ReferenceRequests : FollowUp(request)
      BY <2>3, FollowUpQuotes
    <2>4. CASE UNCHANGED operationsVars
      BY <2>4 DEF FollowUpsQuoteTheLatestResult
    <2> QED BY <2>1, <2>2, <2>3, <2>4 DEF OperationsNext
  <1> QED BY <1>1, <1>2, PTL DEF OperationsSpec

-----------------------------------------------------------------------------
(* ApplicationContainer, for any settings a process may read, and any number  *)
(* of failures.                                                               *)

USE DEF containerVars

(* What each phase says of the other variables.                               *)
PhasesAgree ==
    /\ phase \in {"reading", "rejected", "loaded", "build_failed"} =>
          resources = {} /\ started = {}
    /\ phase \in {"built", "starting", "rolling_back", "start_failed", "serving", "closing"} =>
          engineOpen
    /\ phase \in {"start_failed", "closed"} => started = {}
    /\ phase = "closed" => ~engineOpen
    /\ phase = "loaded" => Valid(settings)

(* What is started comes before what is not, at every moment of a start, a    *)
(* roll back or a close; what is no task is running from its start to its stop. *)
StartedInOrder == \A r \in started, other \in resources \ started : Precedes(r, other)
PassiveRun == started \cap Passive \subseteq running

ContainerIInv ==
    ContainerTypeOK /\ PhasesAgree /\ StartedInOrder /\ PassiveRun /\ ValidSettingsBuild

(* BuildOrder lists what is used before its users.                            *)
LEMMA UsedFirst ==
    ASSUME NEW r, NEW used \in Uses(r)
    PROVE  used \in Passive /\ ~Precedes(r, used)
  <1>1. CASE r \in {"orchestrator", "short_term_retention"}
    <2>1. used = "checkpointer"
      BY <1>1 DEF Uses
    <2>2. \A j \in DOMAIN BuildOrder : BuildOrder[j] = "checkpointer" => j = 1
      BY DEF BuildOrder
    <2>3. \A i \in DOMAIN BuildOrder : ~(i < 1)
      BY DEF BuildOrder
    <2> QED BY <2>1, <2>2, <2>3 DEF Precedes, Passive
  <1>2. CASE r = "document_ingestion"
    <2>1. used = "blob_storage"
      BY <1>2 DEF Uses
    <2>2. \A j \in DOMAIN BuildOrder : BuildOrder[j] = "blob_storage" => j = 8
      BY DEF BuildOrder
    <2>3. \A i \in DOMAIN BuildOrder : i < 8 => BuildOrder[i] # "document_ingestion"
      BY DEF BuildOrder
    <2> QED BY <1>2, <2>1, <2>2, <2>3 DEF Precedes, Passive
  <1> QED BY <1>1, <1>2 DEF Uses

(* Stopping in the reverse order keeps the order.                             *)
LEMMA StopsInOrder ==
    ASSUME ContainerIInv, NEW r \in AllResources, Stops(r)
    PROVE  StartedInOrder' /\ PassiveRun' /\ started' \subseteq resources
               /\ running' \subseteq started'
  BY DEF ContainerIInv, ContainerTypeOK, StartedInOrder, PassiveRun, Stops, NextToStop

(* The checks of the builders are among those of the settings.                *)
LEMMA ValidBuilds == ASSUME NEW s, Valid(s) PROVE ~BuildRaises(s)
  BY DEF Valid, BuildRaises, RefusesDatabase, RefusesDocuments, RefusesLongTerm

LEMMA ContainerInitInv == ContainerInit => ContainerIInv
  <1> SUFFICES ASSUME ContainerInit PROVE ContainerIInv
    OBVIOUS
  <1>1. settings \in SUBSET Features
    BY ContainerAssumption DEF ContainerInit
  <1>2. 0 \in 0 .. MaxContainerFaults
    BY ContainerAssumption
  <1>3. ContainerTypeOK
    BY <1>1, <1>2 DEF ContainerInit, ContainerTypeOK
  <1>4. PhasesAgree /\ StartedInOrder /\ PassiveRun /\ ValidSettingsBuild
    BY DEF ContainerInit, PhasesAgree, StartedInOrder, PassiveRun, ValidSettingsBuild
  <1> QED BY <1>3, <1>4 DEF ContainerIInv

LEMMA ResourcesAreKnown == \A s : ResourcesOf(s) \subseteq AllResources
  BY DEF ResourcesOf, AssistantResources, MemoryResources, DocumentResources, AllResources,
         HasAssistant

LEMMA ContainerNextInv == ContainerIInv /\ [ContainerNext]_containerVars => ContainerIInv'
  <1> SUFFICES ASSUME ContainerIInv, [ContainerNext]_containerVars PROVE ContainerIInv'
    OBVIOUS
  <1> USE DEF ContainerIInv
  <1>1. CASE UNCHANGED containerVars
    BY <1>1 DEF ContainerTypeOK, PhasesAgree, StartedInOrder, PassiveRun, ValidSettingsBuild
  <1>2. CASE LoadSettings
    BY <1>2 DEF LoadSettings, ContainerTypeOK, PhasesAgree, StartedInOrder, PassiveRun,
                ValidSettingsBuild
  <1>3. CASE Build
    <2>1. ~BuildRaises(settings) /\ phase = "loaded" /\ started = {} /\ resources = {}
      BY <1>3, ValidBuilds DEF Build, PhasesAgree
    <2>2. phase' = "built" /\ resources' = ResourcesOf(settings) /\ settings' = {}
            /\ engineOpen' /\ UNCHANGED <<started, running, containerFaults>>
      BY <1>3, <2>1 DEF Build
    <2> QED BY <2>1, <2>2, ResourcesAreKnown
            DEF ContainerTypeOK, PhasesAgree, StartedInOrder, PassiveRun, ValidSettingsBuild
  <1>4. CASE StartFails
    BY <1>4, ContainerAssumption
    DEF StartFails, ContainerFault, ContainerTypeOK, PhasesAgree, StartedInOrder, PassiveRun,
        ValidSettingsBuild
  <1>5. CASE ShutDown
    BY <1>5 DEF ShutDown, ContainerTypeOK, PhasesAgree, StartedInOrder, PassiveRun,
                ValidSettingsBuild
  <1>6. CASE DisposeEngine
    BY <1>6 DEF DisposeEngine, ContainerTypeOK, PhasesAgree, StartedInOrder, PassiveRun,
                ValidSettingsBuild
  <1>7. ASSUME NEW r \in AllResources, StartNext(r)
        PROVE  ContainerIInv'
    <2>1. StartedInOrder' /\ PassiveRun'
      BY <1>7 DEF StartNext, NextToStart, StartedInOrder, PassiveRun
    <2>2. ContainerTypeOK' /\ PhasesAgree' /\ ValidSettingsBuild'
      BY <1>7 DEF StartNext, NextToStart, ContainerTypeOK, PhasesAgree, ValidSettingsBuild
    <2> QED BY <2>1, <2>2
  <1>8. ASSUME NEW r \in AllResources, RollBackNext(r) \/ CloseNext(r)
        PROVE  ContainerIInv'
    <2>1. Stops(r)
      BY <1>8 DEF RollBackNext, CloseNext
    <2>2. ContainerTypeOK' /\ PhasesAgree' /\ ValidSettingsBuild'
      BY <1>8, <2>1, StopsInOrder
      DEF RollBackNext, CloseNext, Stops, ContainerTypeOK, PhasesAgree, ValidSettingsBuild
    <2> QED BY <2>1, <2>2, StopsInOrder
  <1>9. ASSUME NEW r \in AllResources, TaskDies(r)
        PROVE  ContainerIInv'
    <2>1. PassiveRun'
      BY <1>9 DEF TaskDies, PassiveRun, Tasks
    <2>2. ContainerTypeOK' /\ PhasesAgree' /\ ValidSettingsBuild' /\ StartedInOrder'
      BY <1>9, ContainerAssumption
      DEF TaskDies, ContainerFault, ContainerTypeOK, PhasesAgree, ValidSettingsBuild,
          StartedInOrder
    <2> QED BY <2>1, <2>2
  <1> QED BY <1>1, <1>2, <1>3, <1>4, <1>5, <1>6, <1>7, <1>8, <1>9 DEF ContainerNext

LEMMA ContainerInvariance == ContainerSpec => []ContainerIInv
  BY ContainerInitInv, ContainerNextInv, PTL DEF ContainerSpec

LEMMA OrderKeepsUsersSafe == ContainerIInv => UsersStopFirst
  <1> SUFFICES ASSUME ContainerIInv PROVE UsersStopFirst
    OBVIOUS
  <1> USE DEF ContainerIInv
  <1>1. ASSUME NEW r \in running
        PROVE  engineOpen /\ Uses(r) \cap resources \subseteq running
    <2>1. r \in started
      BY DEF ContainerTypeOK
    <2>2. engineOpen
      BY <2>1 DEF ContainerTypeOK, PhasesAgree
    <2>3. ASSUME NEW used \in Uses(r) \cap resources
          PROVE  used \in running
      <3>1. used \in Passive /\ used \in started
        BY <2>1, UsedFirst DEF StartedInOrder
      <3> QED BY <3>1 DEF PassiveRun
    <2> QED BY <2>2, <2>3
  <1>2. /\ phase \in {"start_failed", "closed"} => started = {} /\ running = {}
        /\ phase = "closed" => ~engineOpen
    BY DEF ContainerTypeOK, PhasesAgree
  <1> QED BY <1>1, <1>2 DEF UsersStopFirst

(* Whatever Settings accepts, Container.build can build: the RuntimeErrors of *)
(* its builders are never raised.                                             *)
THEOREM SettingsSuffice == ContainerSpec => []ValidSettingsBuild
  BY ContainerInvariance, PTL DEF ContainerIInv

(* Whatever fails, and whichever resources the settings switch on, a resource *)
(* never works without the engine and the managed resources it calls, because *)
(* start, roll back and close keep to one order and its reverse.              *)
THEOREM ShutdownIsOrdered == ContainerSpec => []UsersStopFirst
  BY ContainerInvariance, OrderKeepsUsersSafe, PTL
=============================================================================
