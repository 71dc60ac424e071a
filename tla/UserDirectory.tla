---------------------------- MODULE UserDirectory ----------------------------
(* Users register, and an audit reads the users table check by check, each in  *)
(* a statement of its own, while they do. Rows may also come from elsewhere    *)
(* (imports, other services), and those can be wrong in all the ways the audit *)
(* looks for.                                                                  *)
EXTENDS Integers, FiniteSets, FiniteSetsExt

CONSTANTS
    Registrations,      \* calls of RegisterUser.execute
    Emails,             \* as validate_email normalizes them: the local part keeps its case
    LowerTrim,          \* lower(trim(email)), per email
    NameLengths,        \* lengths of the display names asked for, needless blanks removed
    ImportedRows,       \* rows of users written by others, by an id
    AuditRequests,      \* checks asked for (none means all), limit_per_check, now_utc
    EarliestTime,       \* bound: "now" of an audit and times of imported rows
    LatestTime          \* bound: the clock

Never == -1
Times == EarliestTime .. LatestTime
UserRow == [email : Emails, name : Nat, status : {"active", "suspended", "deactivated"},
            created : Times, updated : Times, verified : Times \cup {Never},
            login : Times \cup {Never}, deactivated : Times \cup {Never}]
Checks == {"duplicate_normalized_email", "invalid_display_name_length",
           "created_at_in_future", "updated_before_created",
           "status_deactivation_mismatch", "verified_before_created",
           "last_login_before_created"}

ASSUME DirectoryAssumption ==
    /\ DOMAIN LowerTrim = Emails
    /\ NameLengths \subseteq Nat
    /\ EarliestTime \in Nat /\ LatestTime \in Nat
    /\ \A i \in DOMAIN ImportedRows : ImportedRows[i] \in UserRow
    /\ IsFiniteSet(DOMAIN ImportedRows)
    /\ DOMAIN ImportedRows \cap Registrations = {}
    /\ \A e \in Emails : LowerTrim[e] \notin Registrations
    /\ AuditRequests \subseteq
          [checks : SUBSET Checks, limit : Int, now : Nat \cup {Never}]

VARIABLES
    clock,
    users,              \* the users table, by who wrote the row
    registration,       \* per call: progress and the User it made
    auditRun,           \* a run of the audit
    usersAtStart        \* history: the table when the audit began

directoryVars == <<clock, users, registration, auditRun, usersAtStart>>

NoUser == [pc |-> "new"]
IdleAudit == [pc |-> "idle"]

DirectoryInit ==
    /\ clock = EarliestTime
    /\ \E imported \in SUBSET DOMAIN ImportedRows :
          /\ \A i, j \in imported : ImportedRows[i].email = ImportedRows[j].email => i = j
          /\ users = {[by |-> i, row |-> ImportedRows[i]] : i \in imported}
    /\ registration = [c \in Registrations |-> NoUser]
    /\ auditRun = IdleAudit /\ usersAtStart = {}

Tick ==
    /\ clock < LatestTime /\ clock' = clock + 1
    /\ UNCHANGED <<users, registration, auditRun, usersAtStart>>

----------------------------------------------------------------------------
(* RegisterUser.execute.                                                      *)

(* User.register: two readings of the clock, which may differ.                *)
NewUser(email, name, updated) ==
    [email |-> email, name |-> name, status |-> "active", created |-> clock,
     updated |-> updated, verified |-> Never, login |-> Never, deactivated |-> Never]

MakeUser(c) ==
    /\ registration[c].pc = "new"
    /\ \E email \in Emails, name \in NameLengths, updated \in {clock, clock + 1} \cap Times :
          registration' = [registration EXCEPT ![c] =
              IF name \in 2 .. 100
              THEN [pc |-> "made", row |-> NewUser(email, name, updated)]
              ELSE [pc |-> "refused"]]
    /\ UNCHANGED <<clock, users, auditRun, usersAtStart>>

EmailTaken(email) == \E u \in users : u.row.email = email

LookUpEmail(c) ==
    /\ registration[c].pc = "made"
    /\ registration' = [registration EXCEPT ![c] =
          IF EmailTaken(@.row.email) THEN [pc |-> "refused"]
          ELSE [pc |-> "checked", row |-> @.row]]
    /\ UNCHANGED <<clock, users, auditRun, usersAtStart>>

(* Mutant: the column has no unique index.                                    *)
InsertsAnyway(c) ==
    /\ registration[c].pc = "checked"
    /\ users' = users \cup {[by |-> c, row |-> registration[c].row]}
    /\ registration' = [registration EXCEPT ![c] = [pc |-> "registered"]]
    /\ UNCHANGED <<clock, auditRun, usersAtStart>>

(* add and commit: the unique index on email decides between two calls, and   *)
(* its IntegrityError becomes EmailAlreadyRegisteredError too.                *)
InsertUser(c) ==
    /\ registration[c].pc = "checked"
    /\ IF EmailTaken(registration[c].row.email)
       THEN UNCHANGED users /\ registration' = [registration EXCEPT ![c] = [pc |-> "refused"]]
       ELSE /\ users' = users \cup {[by |-> c, row |-> registration[c].row]}
            /\ registration' = [registration EXCEPT ![c] = [pc |-> "registered"]]
    /\ UNCHANGED <<clock, auditRun, usersAtStart>>

----------------------------------------------------------------------------
(* RunUserConsistencyAudit.execute.                                           *)

Clamp(limit) == IF limit < 1 THEN 1 ELSE IF limit > 500 THEN 500 ELSE limit

(* command.now_utc, when the caller of the tool gives one, is the "now" of the *)
(* whole audit, however far from the clock; "given" is kept for the property. *)
StartAudit ==
    /\ auditRun.pc = "idle"
    /\ \E request \in AuditRequests :
          auditRun' = [pc |-> "running",
                       now |-> IF request.now = Never THEN clock ELSE request.now,
                       given |-> request.now # Never, limit |-> Clamp(request.limit),
                       left |-> IF request.checks = {} THEN Checks ELSE request.checks,
                       asked |-> request.checks, found |-> {}]
    /\ usersAtStart' = users
    /\ UNCHANGED <<clock, users, registration>>

(* The WHERE clause of one check over one row, at the audit's "now".          *)
Inconsistent(check, row, asOf) ==
    CASE check = "invalid_display_name_length" -> row.name < 3 \/ row.name > 100
      [] check = "created_at_in_future" -> row.created > asOf
      [] check = "updated_before_created" -> row.updated < row.created
      [] check = "status_deactivation_mismatch" ->
            (row.status = "active") = (row.deactivated # Never)
      [] check = "verified_before_created" ->
            row.verified # Never /\ row.verified < row.created
      [] check = "last_login_before_created" -> row.login # Never /\ row.login < row.created

(* GROUP BY lower(trim(email)) HAVING more than one; the others, row by row.  *)
Issues(check, table, asOf) ==
    IF check = "duplicate_normalized_email"
    THEN {[check |-> check, about |-> e] : e \in
             {f \in {LowerTrim[u.row.email] : u \in table} :
                 Cardinality({u \in table : LowerTrim[u.row.email] = f}) > 1}}
    ELSE {[check |-> check, about |-> u.by] : u \in
             {v \in table : Inconsistent(check, v.row, asOf)}}

(* Mutant: the limit counts the findings of all checks together.              *)
LimitsTheReport(issues) ==
    {found \in SUBSET issues :
        Cardinality(found) = Min({Cardinality(issues),
                                  Max({0, auditRun.limit - Cardinality(auditRun.found)})})}

(* ORDER BY ... LIMIT: which rows are cut off is not told apart here.         *)
Limited(issues) ==
    {found \in SUBSET issues :
        Cardinality(found) = Min({Cardinality(issues), auditRun.limit})}

CheckOrder ==
    <<"duplicate_normalized_email", "invalid_display_name_length", "created_at_in_future",
      "updated_before_created", "status_deactivation_mismatch", "verified_before_created",
      "last_login_before_created">>
NextCheck ==
    CHOOSE check \in auditRun.left :
        \E i \in DOMAIN CheckOrder : CheckOrder[i] = check /\
            \A j \in 1 .. i - 1 : CheckOrder[j] \notin auditRun.left

RunCheck ==
    /\ auditRun.pc = "running" /\ auditRun.left # {}
    /\ \E found \in Limited(Issues(NextCheck, users, auditRun.now)) :
          auditRun' = [auditRun EXCEPT !.left = @ \ {NextCheck}, !.found = @ \cup found]
    /\ UNCHANGED <<clock, users, registration, usersAtStart>>

(* The report; its presenter counts the findings by severity and the result   *)
(* adapter of the tool compares the totals.                                   *)
FinishAudit ==
    /\ auditRun.pc = "running" /\ auditRun.left = {}
    /\ auditRun' = [pc |-> "reported", now |-> auditRun.now, given |-> auditRun.given,
                    limit |-> auditRun.limit, asked |-> auditRun.asked,
                    found |-> auditRun.found,
                    result |-> IF auditRun.found = {} THEN "ok" ELSE "issues_found"]
    /\ UNCHANGED <<clock, users, registration, usersAtStart>>

DirectoryNext ==
    \/ \E c \in Registrations : MakeUser(c) \/ LookUpEmail(c) \/ InsertUser(c)
    \/ StartAudit \/ RunCheck \/ FinishAudit \/ Tick

DirectorySpec == DirectoryInit /\ [][DirectoryNext]_directoryVars

----------------------------------------------------------------------------
(* Two calls that register one email never both succeed, however their        *)
(* look-ups and inserts interleave.                                           *)
OneUserPerEmail == \A u, v \in users : u.row.email = v.row.email => u = v

(* What may be reported of a user who registered: a display name of two       *)
(* characters, which User.register lets pass; or a registration later than    *)
(* the audit's "now", and then, if that is the clock's, one that was not in   *)
(* the table yet when the audit began.                                        *)
Excusable(finding) ==
    \E u \in users :
        /\ u.by = finding.about
        /\ \/ finding.check = "invalid_display_name_length" /\ u.row.name = 2
           \/ /\ finding.check = "created_at_in_future" /\ u.row.created > auditRun.now
              /\ auditRun.given \/ u \notin usersAtStart

(* A report finds every inconsistency the table had when the audit began,     *)
(* check by check, or as many as the limit lets it; a report is "ok" only if  *)
(* it looked for all that was asked and found nothing; and of a user who      *)
(* registered it says nothing but what is excusable.                          *)
AuditMissesNothing ==
    auditRun.pc = "reported" =>
        LET asked == IF auditRun.asked = {} THEN Checks ELSE auditRun.asked
            Found(check) == {f \in auditRun.found : f.check = check}
        IN  /\ \A check \in asked :
                  \/ Issues(check, usersAtStart, auditRun.now) \subseteq Found(check)
                  \/ Cardinality(Found(check)) = auditRun.limit
            /\ \A f \in auditRun.found : f.check \in asked
            /\ auditRun.result = "ok" =>
                  \A check \in asked : Issues(check, usersAtStart, auditRun.now) = {}
            /\ \A f \in auditRun.found : f.about \in Registrations => Excusable(f)
=============================================================================
