------------------------------ MODULE Accounts ------------------------------
(***************************************************************************)
(* POST /api/auth/register and the plans its user rows refer to.  Several  *)
(* sign-ups run at once, each a database session with the account it has   *)
(* flushed but not committed; the plan rows are inserted by sync_plans(),  *)
(* which every backend that starts calls, and which a sign-up calls when   *)
(* its insert failed though the email is free.  A plan or an account only  *)
(* appears.  Postgres lets an insert wait for another one of the same key. *)
(***************************************************************************)
EXTENDS Integers, FiniteSets

CONSTANTS
    SignUps,        \* requests
    SignUpEmails,
    MaxFailures     \* bound: statements the database fails

ASSUME AccountsAssumption == MaxFailures \in Nat

VARIABLES
    plans,      \* the plan rows are there (all of them or none)
    accounts,   \* the emails of committed users rows
    signup,     \* of each request: where it is, and in which attempt
    boot,       \* a backend that starts: its sync_plans()
    failures,   \* statements that failed
    collided    \* history: two syncs inserted the same plans

accountsVars == <<plans, accounts, signup, boot, failures, collided>>

Outcomes == {"created", "email_taken", "internal_error", "unavailable"}

AccountsInit ==
    /\ plans \in BOOLEAN
    /\ accounts = {}
    /\ signup \in [SignUps -> [stage : {"select"}, email : SignUpEmails,
                               attempt : {0}, missing : {FALSE}]]
    /\ boot = "starting"
    /\ failures = 0 /\ collided = FALSE

Reached(r, stage) == signup[r].stage = stage
Goto(r, stage) == signup' = [signup EXCEPT ![r].stage = stage]

\* Another session has flushed an account of this email.
Flushed(email) ==
    \E r \in SignUps : signup[r].stage = "commit" /\ signup[r].email = email

-----------------------------------------------------------------------------
(* register() *)

\* The email is looked up, then the password is hashed.
SelectUser(r) ==
    /\ Reached(r, "select")
    /\ Goto(r, IF signup[r].email \in accounts THEN "email_taken" ELSE "flush")
    /\ UNCHANGED <<plans, accounts, boot, failures, collided>>

\* db.flush(): the insert breaks the unique key or the foreign key, or holds.
Flush(r) ==
    /\ Reached(r, "flush") /\ ~ Flushed(signup[r].email)
    /\ Goto(r, IF signup[r].email \in accounts \/ ~ plans THEN "recheck"
                                                         ELSE "commit")
    /\ UNCHANGED <<plans, accounts, boot, failures, collided>>

\* Mutant of Recheck: any integrity error is blamed on the email.
RecheckNothing(r) ==
    /\ Reached(r, "recheck")
    /\ Goto(r, "email_taken")
    /\ UNCHANGED <<plans, accounts, boot, failures, collided>>

\* After the rollback: whose fault was it?
Recheck(r) ==
    /\ Reached(r, "recheck")
    /\ Goto(r, CASE signup[r].email \in accounts -> "email_taken"
                 [] signup[r].email \notin accounts /\ signup[r].attempt = 1
                                                -> "internal_error"
                 [] OTHER                       -> "read_plans")
    /\ UNCHANGED <<plans, accounts, boot, failures, collided>>

\* sync_plans() reads the plans that exist and commits the ones that don't.
ReadPlans(r) ==
    /\ Reached(r, "read_plans")
    /\ signup' = [signup EXCEPT ![r].stage = "write_plans",
                                ![r].missing = ~ plans]
    /\ UNCHANGED <<plans, accounts, boot, failures, collided>>

\* The rows it inserts may be there by now; that error is not caught.
WritePlans(r) ==
    /\ Reached(r, "write_plans")
    /\ LET clash == signup[r].missing /\ plans
       IN  /\ signup' = [signup EXCEPT
                 ![r].stage = IF clash THEN "internal_error" ELSE "flush",
                 ![r].attempt = 1]
           /\ plans' = TRUE
           /\ collided' = (collided \/ clash)
    /\ UNCHANGED <<accounts, boot, failures>>

\* _issue_tokens(): the account and its first refresh token in one commit.
CommitAccount(r) ==
    /\ Reached(r, "commit")
    /\ accounts' = accounts \cup {signup[r].email}
    /\ Goto(r, "created")
    /\ UNCHANGED <<plans, boot, failures, collided>>

\* The connection breaks under a statement, or right after a commit.
Fail(r) ==
    /\ signup[r].stage \notin Outcomes /\ failures < MaxFailures
    /\ failures' = failures + 1
    /\ Goto(r, "unavailable")
    /\ \/ UNCHANGED <<plans, accounts>>
       \/ /\ Reached(r, "commit")
          /\ accounts' = accounts \cup {signup[r].email}
          /\ UNCHANGED plans
       \/ /\ Reached(r, "write_plans") /\ plans' = TRUE
          /\ UNCHANGED accounts
    /\ UNCHANGED <<boot, collided>>

-----------------------------------------------------------------------------
(* build_container(): the sync of a backend that starts.  Its errors are   *)
(* logged and nothing more.                                                *)

BootReads ==
    /\ boot = "starting"
    /\ boot' = IF plans THEN "started" ELSE "inserting"
    /\ UNCHANGED <<plans, accounts, signup, failures, collided>>

BootWrites ==
    /\ boot = "inserting"
    /\ boot' = "started"
    /\ plans' = TRUE
    /\ collided' = (collided \/ plans)
    /\ UNCHANGED <<accounts, signup, failures>>

BootFails ==
    /\ boot # "started"
    /\ boot' = "started"
    /\ UNCHANGED <<plans, accounts, signup, failures, collided>>

\* A client tries again after an error of the server.
TryAgain(r) ==
    /\ signup[r].stage \in {"internal_error", "unavailable"}
    /\ signup' = [signup EXCEPT ![r] = [@ EXCEPT !.stage = "select",
                                         !.attempt = 0, !.missing = FALSE]]
    /\ UNCHANGED <<plans, accounts, boot, failures, collided>>

AllAnswered ==
    /\ \A r \in SignUps : signup[r].stage \in Outcomes
    /\ UNCHANGED accountsVars

AccountsNext ==
    \/ \E r \in SignUps :
          \/ SelectUser(r) \/ Flush(r) \/ Recheck(r) \/ ReadPlans(r)
          \/ WritePlans(r) \/ CommitAccount(r) \/ Fail(r) \/ TryAgain(r)
    \/ BootReads \/ BootWrites \/ BootFails \/ AllAnswered

AccountsSpec == AccountsInit /\ [][AccountsNext]_accountsVars

-----------------------------------------------------------------------------
(* Properties *)

\* Where a sign-up can be, and what the tables can hold.
AccountsTypeOK ==
    /\ plans \in BOOLEAN /\ collided \in BOOLEAN
    /\ accounts \subseteq SignUpEmails
    /\ signup \in [SignUps ->
          [stage : Outcomes \cup {"select", "flush", "recheck", "read_plans",
                                 "write_plans", "commit"},
           email : SignUpEmails, attempt : {0, 1}, missing : BOOLEAN]]
    /\ boot \in {"starting", "inserting", "started"}
    /\ failures \in 0..MaxFailures

\* auth_router.py: a sign-up is never blamed on its email when the plan rows
\* are missing, and when they are it repairs them and goes on: it is told
\* that the email is taken only if the email has an account, an email is
\* given to one sign-up only, and one fails with a 500 only if two syncs of
\* the plans collided.
SignUpWorks ==
    /\ \A r \in SignUps :
          /\ Reached(r, "email_taken") => signup[r].email \in accounts
          /\ Reached(r, "internal_error") => collided
    /\ \A r, s \in SignUps :
          /\ r # s /\ signup[r].email = signup[s].email
          /\ signup[r].stage \in {"commit", "created"}
          => signup[s].stage \notin {"commit", "created"}
=============================================================================
