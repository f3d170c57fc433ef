------------------------------ MODULE Identity -------------------------------
(***************************************************************************)
(* Users, sign-in and sessions (AuthService, app/identity/service.py; the  *)
(* middleware and dependencies that bind a principal, app/api; the table   *)
(* of permissions, app/identity/permissions.py and access.py).             *)
(*                                                                         *)
(* Sign-in looks at the failures of the last minutes, checks the password  *)
(* and records what came of it; nothing is held between the look and the   *)
(* record.  A request is bound to a tenant when it starts.                 *)
(***************************************************************************)
EXTENDS Naturals, FiniteSets, FiniteSetsExt

CONSTANTS
    Emails,
    Orgs,           \* names of tenants
    Grants,         \* roles given to new users
    Clients,        \* requests and processes
    LockWindow,     \* _LOCK_WINDOW
    LockLimit,      \* _LOCK_LIMIT
    SessionLength,  \* _SESSION_HOURS
    MaxTime,        \* bound: the clock
    MaxSessions     \* bound: sessions issued

ASSUME IdentityAssumption ==
    /\ LockWindow \in Nat /\ LockLimit \in Nat \ {0} /\ SessionLength \in Nat \ {0}
    /\ MaxTime \in Nat /\ MaxSessions \in Nat /\ IsFiniteSet(Clients)

Operator == {"VIEW", "UPLOAD", "UNDERSTAND", "REQUEST_REVIEW", "OPERATE"}

\* ROLE_PERMISSIONS.
Permissions ==
    [VIEWER   |-> {"VIEW"},
     OPERATOR |-> Operator,
     REVIEWER |-> Operator \union {"REVIEW", "PROMOTE", "RECONCILE"},
     APPROVER |-> {"VIEW", "PLAN", "APPROVE"},
     ADMIN    |-> Operator \union {"REVIEW", "PROMOTE", "RECONCILE", "PLAN", "APPROVE",
                                   "EXECUTE", "POLICY", "MANAGE_USERS"}]
Roles == DOMAIN Permissions

\* A user with the membership that commits with it.
UserRow == [email : Emails, tenant : Orgs, role : Roles]

ASSUME GrantAssumption == Grants \subseteq Roles

SessionRow == [id : Nat, user : UserRow, until : Nat, revoked : BOOLEAN]

VARIABLES
    clock,
    users,
    failures,   \* committed login attempts
    sessions,
    client      \* requests in progress

identityVars == <<clock, users, failures, sessions, client>>

Away == [pc |-> "away"]

IdentityTypeOK ==
    /\ clock \in 0..MaxTime
    /\ users \subseteq UserRow
    /\ failures \subseteq [n : Nat, email : Emails, at : 0..MaxTime]
    /\ sessions \subseteq SessionRow
    /\ \A c \in Clients : client[c] = Away \/ client[c].pc \in {"check", "request", "provision", "bootstrap"}

IdentityInit ==
    /\ clock = 0
    /\ users = {} /\ failures = {} /\ sessions = {}
    /\ client = [c \in Clients |-> Away]

Goes(c, state) == client' = [client EXCEPT ![c] = state]

Pass ==
    /\ clock < MaxTime /\ clock' = clock + 1
    /\ UNCHANGED <<users, failures, sessions, client>>

-----------------------------------------------------------------------------
(* Sign-in.                                                                *)

Recent(email) == {f \in failures : f.email = email /\ f.at + LockWindow >= clock}

\* Mutant: one more attempt.
LockedLate(email) == Cardinality(Recent(email)) > LockLimit

\* _locked.
Locked(email) == Cardinality(Recent(email)) >= LockLimit

BeginLogin(c, email) ==
    /\ client[c] = Away
    /\ ~Locked(email)
    /\ Goes(c, [pc |-> "check", email |-> email])
    /\ UNCHANGED <<clock, users, failures, sessions>>

\* The password is right or wrong; an unknown email fails like a wrong password.
FailLogin(c) ==
    /\ client[c].pc = "check"
    /\ failures' = failures \union {[n |-> Cardinality(failures), email |-> client[c].email,
                                     at |-> clock]}
    /\ Goes(c, Away)
    /\ UNCHANGED <<clock, users, sessions>>

SignIn(c) ==
    /\ client[c].pc = "check"
    /\ Cardinality(sessions) < MaxSessions
    /\ \E u \in users :
        /\ u.email = client[c].email
        /\ sessions' = sessions \union {[id |-> Cardinality(sessions), user |-> u,
                                         until |-> clock + SessionLength, revoked |-> FALSE]}
    /\ Goes(c, Away)
    /\ UNCHANGED <<clock, users, failures>>

-----------------------------------------------------------------------------
(* Requests.                                                               *)

\* principal_for_token: the user and the membership stay, once they exist.
Live(s) == ~s.revoked /\ s.until > clock

\* The middleware binds the tenant of the session before the handler runs.
BeginRequest(c, s) ==
    /\ client[c] = Away
    /\ Live(s)
    /\ Goes(c, [pc |-> "request", session |-> s])
    /\ UNCHANGED <<clock, users, failures, sessions>>

EndRequest(c) ==
    /\ client[c].pc = "request"
    /\ Goes(c, Away)
    /\ UNCHANGED <<clock, users, failures, sessions>>

\* logout: the first revocation stands.
Logout(c) ==
    /\ client[c].pc = "request"
    /\ sessions' = {IF s.id = client[c].session.id THEN [s EXCEPT !.revoked = TRUE] ELSE s :
                      s \in sessions}
    /\ Goes(c, Away)
    /\ UNCHANGED <<clock, users, failures>>

\* require_access for POST /auth/users, and provision_user's SELECT.
BeginProvision(c, email, role) ==
    LET u == client[c].session.user
    IN  /\ client[c].pc = "request"
        /\ "MANAGE_USERS" \in Permissions[u.role]
        /\ email \notin {v.email : v \in users}
        /\ Goes(c, [pc |-> "provision",
                    user |-> [email |-> email, tenant |-> u.tenant, role |-> role]])
        /\ UNCHANGED <<clock, users, failures, sessions>>

\* The INSERTs of user and membership; the email is unique.
Provision(c) ==
    /\ client[c].pc = "provision"
    /\ users' = IF client[c].user.email \in {v.email : v \in users} THEN users
                ELSE users \union {client[c].user}
    /\ Goes(c, Away)
    /\ UNCHANGED <<clock, failures, sessions>>

\* bootstrap, run at a shell: it looks whether there is a user at all ...
BeginBootstrap(c, email, org) ==
    /\ client[c] = Away
    /\ users = {}
    /\ Goes(c, [pc |-> "bootstrap", email |-> email, org |-> org])
    /\ UNCHANGED <<clock, users, failures, sessions>>

\* Mutant: the first user gets the role a new user has by default.
FounderByDefault(c) == [email |-> client[c].email, tenant |-> client[c].org, role |-> "VIEWER"]

Founder(c) == [email |-> client[c].email, tenant |-> client[c].org, role |-> "ADMIN"]

\* ... and inserts a tenant, a user and a membership, unless the email or, being
\* new, the id of the tenant is taken.
Bootstrap(c) ==
    /\ client[c].pc = "bootstrap"
    /\ client[c].org \notin {v.tenant : v \in users}
    /\ users' = IF client[c].email \in {v.email : v \in users} THEN users
                ELSE users \union {Founder(c)}
    /\ Goes(c, Away)
    /\ UNCHANGED <<clock, failures, sessions>>

IdentityNext ==
    \/ Pass
    \/ \E c \in Clients, e \in Emails : \/ BeginLogin(c, e)
                                        \/ \E o \in Orgs : BeginBootstrap(c, e, o)
                                        \/ \E r \in Grants : BeginProvision(c, e, r)
    \/ \E c \in Clients, s \in sessions : BeginRequest(c, s)
    \/ \E c \in Clients : \/ FailLogin(c) \/ SignIn(c) \/ EndRequest(c) \/ Logout(c)
                          \/ Provision(c) \/ Bootstrap(c)

IdentitySpec == IdentityInit /\ [][IdentityNext]_identityVars

-----------------------------------------------------------------------------
(* Properties.                                                             *)

\* The lock looks before the password is checked and counts afterwards, so that
\* attempts under way slip past it, but no more than there are clients: in no
\* window are there more failures than the limit and one per other client.
OverrunIsBounded ==
    \A e \in Emails, t \in 0..clock :
        Cardinality({f \in failures : f.email = e /\ f.at <= t /\ t <= f.at + LockWindow})
            < LockLimit + Cardinality(Clients)

\* However bootstraps and provisioning race, a user has one email, one tenant and
\* one role, and a tenant with users has an administrator who can add others.
EveryTenantIsAdministered ==
    /\ IdentityTypeOK
    /\ \A u, v \in users : u.email = v.email => u = v
    /\ \A u \in users : \E a \in users :
          a.tenant = u.tenant /\ "MANAGE_USERS" \in Permissions[a.role]

=============================================================================
