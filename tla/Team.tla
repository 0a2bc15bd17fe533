-------------------------------- MODULE Team --------------------------------
(***************************************************************************)
(* Accounts, their users and their sessions: signups and what they undo    *)
(* when they fail, logins, invitations, the rotation of refresh tokens,    *)
(* the management of a team, and the repair of accounts at start.          *)
(*                                                                         *)
(* Rows are named by the request that inserts them: an account and its     *)
(* owner by the signup, an invited user by the invitation, a refresh token *)
(* by the login, refresh or acceptance (or the signup) it answers.  Other  *)
(* requests than signups may stop at any statement; their next step is     *)
(* then never taken.                                                       *)
(***************************************************************************)
EXTENDS Naturals, FiniteSets

CONSTANTS
  Accounts,  \* signups, and accounts older than the users table
  Invites,   \* requests POST /account/users/invite
  Logins,    \* requests that log in, accept an invitation or refresh
  Managers,  \* requests that change a role or remove a user
  Emails,
  MaxFaults  \* bound on restarts, lost clients and failed statements

ASSUME NamesAssumption ==
  /\ Accounts # {} /\ Emails # {}
  /\ Accounts \cap Invites = {} /\ Accounts \cap Logins = {}

ASSUME FaultsAssumption == MaxFaults \in Nat

VARIABLES
  proc,      \* the process: reading the accounts, filling in owners, serving
  todo,      \* accounts the start has still to give an owner
  acct,      \* table accounts: the rows
  acctMail,  \* their email
  user,      \* table users: whether the row exists, and has a password
  home,      \* account_id of an invited user
  mail,      \* email of an invited user
  role,      \* role of a user
  site,      \* the tracker's table sites
  pc,        \* where a signup is
  gone,      \* signups whose client went away: their context is cancelled
  lpc,       \* where a login is
  who,       \* the user it is for
  old,       \* the session whose token a refresh presented
  claimed,   \* the role in the access token of a session
  token,     \* table refresh_tokens
  access,    \* sessions whose access token has not expired
  mpc,       \* where a manager's request is
  on,        \* the user it is about
  act,       \* "remove", or the role to give
  answered,  \* history: signups answered with success
  faults,    \* faults so far
  lost       \* history: signups that could not undo an account

bootVars    == <<proc, todo>>
signupVars  == <<pc, gone, site, answered>>
loginVars   == <<lpc, who, old>>
sessionVars == <<token, claimed, access>>
rowVars     == <<acct, acctMail>>
inviteVars  == <<home, mail>>
managerVars == <<mpc, on, act>>
faultVars   == <<faults, lost>>

vars == <<bootVars, signupVars, loginVars, sessionVars, rowVars, inviteVars, managerVars,
          faultVars, user, role>>

Users    == Accounts \cup Invites
Sessions == Accounts \cup Logins
Roles    == {"viewer", "editor", "admin", "owner"}
InFlight == {"created", "undo", "site", "setup", "issue"}

TypeOK ==
  /\ proc \in {"boot", "filling", "up"} /\ todo \subseteq Accounts
  /\ acct \subseteq Accounts /\ acctMail \in [Accounts -> Emails]
  /\ user \in [Users -> {"none", "pending", "active", "gone"}]
  /\ home \in [Invites -> Accounts] /\ mail \in [Invites -> Emails]
  /\ role \in [Users -> Roles]
  /\ site \subseteq Accounts /\ gone \subseteq Accounts /\ answered \subseteq Accounts
  /\ pc \in [Accounts -> InFlight \cup {"idle", "done"}]
  /\ lpc \in [Logins -> {"idle", "password", "member", "rotate", "issue", "done"}]
  /\ who \in [Logins -> Users] /\ old \in [Logins -> Sessions]
  /\ claimed \in [Sessions -> Roles]
  /\ token \in [Sessions -> {"none", "live", "gone"}]
  /\ access \subseteq Sessions
  /\ mpc \in [Managers -> {"idle", "write", "done"}]
  /\ on \in [Managers -> Users] /\ act \in [Managers -> Roles \cup {"remove"}]
  /\ faults \in Nat /\ lost \subseteq Accounts

Exists(u)   == user[u] \in {"pending", "active"}
Home(u)     == IF u \in Accounts THEN u ELSE home[u]
Mail(u)     == IF u \in Accounts THEN acctMail[u] ELSE mail[u]
Holder(s)   == IF s \in Accounts THEN s ELSE who[s]
Members(a)  == {u \in Users : Exists(u) /\ Home(u) = a}
UserMails   == {Mail(u) : u \in {x \in Users : Exists(x)}}
AcctMails   == {acctMail[a] : a \in acct}

-----------------------------------------------------------------------------
(* Steps and choices shared below. An operator whose name extends that of one
   after it is that one with a slip, for PROJECT.json's mutants. *)

Fault == faults < MaxFaults /\ faults' = faults + 1

\* A statement of a signup reaches the database, or it does not.
Reaches(a) == a \notin gone /\ UNCHANGED faults
Misses(a)  == IF a \in gone THEN UNCHANGED faults ELSE Fault

Goto(a, point) == pc' = [pc EXCEPT ![a] = point]

\* Rows of users go, and their refresh tokens with them.
Drop(us) ==
  /\ user' = [u \in Users |-> IF u \in us /\ Exists(u) THEN "gone" ELSE user[u]]
  /\ token' = [s \in Sessions |-> IF token[s] = "live" /\ Holder(s) \in us
                                  THEN "gone" ELSE token[s]]

\* Roles that an invitation or a change of role may give.
InviteRolesAny == Roles
InviteRoles == Roles \ {"owner"}

\* Members whose role is fixed and who can't be removed.
ProtectedNobody(u) == FALSE
Protected(u) == role[u] = "owner"

\* HasAtLeast(role, "admin"), on the role in the access token.
Manages(s) == s \in access /\ claimed[s] \in {"admin", "owner"}

\* Statuses of a user who can log in.
MayLogInPending == {"active", "pending"}
MayLogIn == {"active"}

\* Accounts with no user, as BackfillOwnerUsers asks for them.
UnownedWhenEmpty == IF \E u \in Users : Exists(u) THEN {} ELSE acct
Unowned == {a \in acct : Members(a) = {}}

-----------------------------------------------------------------------------
(* createAccountWithOwner, and the handlers Signup and Register around it. *)

\* The account is inserted, unless its email or site id is taken by then, or
\* the statement fails.
CreateAccount(a, e) ==
  /\ proc = "up" /\ pc[a] = "idle"
  /\ \/ /\ e \notin AcctMails /\ Goto(a, "created")
        /\ acct' = acct \cup {a}
        /\ acctMail' = [acctMail EXCEPT ![a] = e]
     \/ UNCHANGED rowVars /\ Goto(a, "done")
  /\ UNCHANGED <<bootVars, gone, site, answered, loginVars, sessionVars, inviteVars,
                 managerVars, faultVars, user, role>>

\* UpdateAccountPlan and CreateUser; one that fails leads to the deletion.
CreateOwner(a) ==
  /\ pc[a] = "created"
  /\ \/ /\ Reaches(a) /\ acctMail[a] \notin UserMails
        /\ user' = [user EXCEPT ![a] = "active"]
        /\ role' = [role EXCEPT ![a] = "owner"]
        /\ Goto(a, "site")
     \/ /\ \/ Reaches(a) /\ acctMail[a] \in UserMails
           \/ Misses(a)
        /\ Goto(a, "undo") /\ UNCHANGED <<user, role>>
  /\ UNCHANGED <<bootVars, gone, site, answered, loginVars, sessionVars, rowVars, inviteVars,
                 managerVars, lost>>

UndoForgotten(a) ==
  /\ pc[a] = "undo"
  /\ Goto(a, "done")
  /\ UNCHANGED <<bootVars, gone, site, answered, loginVars, sessionVars, rowVars, inviteVars,
                 managerVars, faultVars, user, role>>

\* DeleteAccount and its cascades; an error is ignored.
Undo(a) ==
  /\ pc[a] = "undo"
  /\ Goto(a, "done")
  /\ \/ Reaches(a) /\ acct' = acct \ {a} /\ Drop(Members(a)) /\ UNCHANGED lost
     \/ Misses(a) /\ UNCHANGED <<acct, user, token>> /\ lost' = lost \cup {a}
  /\ UNCHANGED <<bootVars, gone, site, answered, loginVars, claimed, access, acctMail,
                 inviteVars, managerVars, role>>

RegisterSiteUnchecked(a) ==
  /\ pc[a] = "site"
  /\ \/ Reaches(a) /\ site' = site \cup {a}
     \/ Misses(a) /\ UNCHANGED site
  /\ \E next \in {"setup", "issue"} : Goto(a, next)
  /\ UNCHANGED <<bootVars, gone, answered, loginVars, sessionVars, rowVars, inviteVars,
                 managerVars, lost, user, role>>

\* The tracker's row. A failure is answered with 500 and nothing is undone.
RegisterSite(a) ==
  /\ pc[a] = "site"
  /\ \/ /\ Reaches(a) /\ site' = site \cup {a}
        /\ \E next \in {"setup", "issue"} : Goto(a, next)
     \/ Misses(a) /\ UNCHANGED site /\ Goto(a, "done")
  /\ UNCHANGED <<bootVars, gone, answered, loginVars, sessionVars, rowVars, inviteVars,
                 managerVars, lost, user, role>>

\* Register only: the setup and the plan of its services; a refused number or a
\* failure deletes the account again.
SaveSetup(a) ==
  /\ pc[a] = "setup"
  /\ \/ Reaches(a) /\ \E next \in {"issue", "undo"} : Goto(a, next)
     \/ Misses(a) /\ Goto(a, "undo")
  /\ UNCHANGED <<bootVars, gone, site, answered, loginVars, sessionVars, rowVars, inviteVars,
                 managerVars, lost, user, role>>

\* issueTokenPair, and the answer.
AnswerSignup(a) ==
  /\ pc[a] = "issue"
  /\ Goto(a, "done")
  /\ \/ /\ Reaches(a)
        /\ token' = [token EXCEPT ![a] = "live"]
        /\ claimed' = [claimed EXCEPT ![a] = "owner"]
        /\ access' = access \cup {a}
        /\ answered' = answered \cup {a}
     \/ Misses(a) /\ UNCHANGED <<sessionVars, answered>>
  /\ UNCHANGED <<bootVars, gone, site, loginVars, rowVars, inviteVars, managerVars, lost,
                 user, role>>

-----------------------------------------------------------------------------
(* Login, AcceptInvite, Refresh and Logout. *)

StepTo(q, point) == lpc' = [lpc EXCEPT ![q] = point]

NoRowChange == UNCHANGED <<bootVars, signupVars, rowVars, inviteVars, managerVars, faultVars>>

\* A user is read: what the answer will say of them is what the row said then.
ReadUser(q, u, point) ==
  /\ proc = "up"
  /\ who' = [who EXCEPT ![q] = u]
  /\ claimed' = [claimed EXCEPT ![q] = role[u]]
  /\ StepTo(q, point)
  /\ UNCHANGED <<old, token, access, user, role>> /\ NoRowChange

Login(q, u)        == lpc[q] = "idle" /\ user[u] \in MayLogIn /\ ReadUser(q, u, "issue")
AcceptInvite(q, u) == lpc[q] = "idle" /\ user[u] = "pending" /\ ReadUser(q, u, "password")

\* SetUserPassword: no row, no error.
SetPasswordMistyped(q) ==
  /\ lpc[q] = "password"
  /\ user' = [user EXCEPT ![who[q]] = IF Exists(who[q]) THEN "accepted" ELSE @]
  /\ StepTo(q, "issue")
  /\ UNCHANGED <<who, old, sessionVars, role>> /\ NoRowChange

SetPassword(q) ==
  /\ lpc[q] = "password"
  /\ user' = [user EXCEPT ![who[q]] = IF Exists(who[q]) THEN "active" ELSE @]
  /\ StepTo(q, "issue")
  /\ UNCHANGED <<who, old, sessionVars, role>> /\ NoRowChange

\* Refresh: the token's row, then its user's, then the old row goes.
Refresh(q, s) ==
  /\ proc = "up" /\ lpc[q] = "idle" /\ token[s] = "live"
  /\ old' = [old EXCEPT ![q] = s]
  /\ who' = [who EXCEPT ![q] = Holder(s)]
  /\ StepTo(q, "member")
  /\ UNCHANGED <<sessionVars, user, role>> /\ NoRowChange

ReadMember(q) == lpc[q] = "member" /\ Exists(who[q]) /\ ReadUser(q, who[q], "rotate")

Revoke(s) == token' = [token EXCEPT ![s] = IF @ = "live" THEN "gone" ELSE @]

Rotate(q) ==
  /\ lpc[q] = "rotate"
  /\ Revoke(old[q])
  /\ StepTo(q, "issue")
  /\ UNCHANGED <<who, old, claimed, access, user, role>> /\ NoRowChange

\* issueTokenPair: the foreign key refuses a user who is gone.
Issue(q) ==
  /\ lpc[q] = "issue" /\ Exists(who[q])
  /\ token' = [token EXCEPT ![q] = "live"]
  /\ access' = access \cup {q}
  /\ StepTo(q, "done")
  /\ UNCHANGED <<who, old, claimed, user, role>> /\ NoRowChange

\* Logout, or a refresh with a token that has expired.
Logout(s) ==
  /\ proc = "up" /\ token[s] = "live" /\ Revoke(s)
  /\ UNCHANGED <<loginVars, claimed, access, user, role>> /\ NoRowChange

AccessExpires(s) ==
  /\ s \in access /\ access' = access \ {s}
  /\ UNCHANGED <<loginVars, token, claimed, user, role>> /\ NoRowChange

-----------------------------------------------------------------------------
(* InviteUser, UpdateUserRole and RemoveUser. *)

\* One statement; its keys refuse a taken email and an inviter who is gone.
InviteUser(i, s, e, r) ==
  /\ proc = "up" /\ user[i] = "none" /\ Manages(s) /\ r \in InviteRoles
  /\ e \notin UserMails /\ Exists(Holder(s))
  /\ user' = [user EXCEPT ![i] = "pending"]
  /\ home' = [home EXCEPT ![i] = Home(Holder(s))]
  /\ mail' = [mail EXCEPT ![i] = e]
  /\ role' = [role EXCEPT ![i] = r]
  /\ UNCHANGED <<bootVars, signupVars, loginVars, sessionVars, rowVars, managerVars, faultVars>>

\* The target is read and checked.
Manage(m, s, u, what) ==
  /\ proc = "up" /\ mpc[m] = "idle" /\ Manages(s)
  /\ Exists(u) /\ Home(u) = Home(Holder(s)) /\ ~Protected(u)
  /\ what \in InviteRoles \/ (what = "remove" /\ u # Holder(s))
  /\ mpc' = [mpc EXCEPT ![m] = "write"]
  /\ on' = [on EXCEPT ![m] = u]
  /\ act' = [act EXCEPT ![m] = what]
  /\ UNCHANGED <<bootVars, signupVars, loginVars, sessionVars, rowVars, inviteVars, faultVars,
                 user, role>>

\* UpdateUserRole or DeleteUser, on whatever the row is by now.
WriteMember(m) ==
  /\ mpc[m] = "write"
  /\ mpc' = [mpc EXCEPT ![m] = "done"]
  /\ \/ act[m] = "remove" /\ Drop({on[m]}) /\ UNCHANGED role
     \/ /\ act[m] # "remove" /\ UNCHANGED <<user, token>>
        /\ role' = IF Exists(on[m]) THEN [role EXCEPT ![on[m]] = act[m]] ELSE role
  /\ UNCHANGED <<bootVars, signupVars, loginVars, claimed, access, rowVars, inviteVars, on, act,
                 faultVars>>

-----------------------------------------------------------------------------
(* The start of the process: Migrate has run; BackfillOwnerUsers. *)

ReadUnowned ==
  /\ proc = "boot"
  /\ proc' = "filling" /\ todo' = Unowned
  /\ UNCHANGED <<signupVars, loginVars, sessionVars, rowVars, inviteVars, managerVars, faultVars,
                 user, role>>

\* A taken email is skipped; any other error ends the process (Restart).
FillOwner(a) ==
  /\ proc = "filling" /\ a \in todo
  /\ todo' = todo \ {a}
  /\ \/ /\ acctMail[a] \notin UserMails
        /\ user' = [user EXCEPT ![a] = "active"]
        /\ role' = [role EXCEPT ![a] = "owner"]
     \/ acctMail[a] \in UserMails /\ UNCHANGED <<user, role>>
  /\ UNCHANGED <<proc, signupVars, loginVars, sessionVars, rowVars, inviteVars, managerVars,
                 faultVars>>

Serve ==
  /\ proc = "filling" /\ todo = {}
  /\ proc' = "up"
  /\ UNCHANGED <<todo, signupVars, loginVars, sessionVars, rowVars, inviteVars, managerVars,
                 faultVars, user, role>>

Restart ==
  /\ Fault
  /\ proc' = "boot" /\ todo' = {}
  /\ lost' = lost \cup {a \in Accounts : pc[a] \in {"created", "undo"}}
  /\ pc' = [a \in Accounts |-> IF pc[a] = "idle" THEN "idle" ELSE "done"]
  /\ lpc' = [q \in Logins |-> IF lpc[q] = "idle" THEN "idle" ELSE "done"]
  /\ mpc' = [m \in Managers |-> IF mpc[m] = "idle" THEN "idle" ELSE "done"]
  /\ UNCHANGED <<gone, site, answered, who, old, sessionVars, rowVars, inviteVars, on, act,
                 user, role>>

Disconnect(a) ==
  /\ pc[a] \in InFlight /\ a \notin gone
  /\ Fault
  /\ gone' = gone \cup {a}
  /\ UNCHANGED <<bootVars, pc, site, answered, loginVars, sessionVars, rowVars, inviteVars,
                 managerVars, lost, user, role>>

-----------------------------------------------------------------------------

AnyAccount == CHOOSE a \in Accounts : TRUE
AnyEmail   == CHOOSE e \in Emails : TRUE

\* The first start of this version: accounts older than the users table.
Init ==
  /\ proc = "boot" /\ todo = {}
  /\ acct \in SUBSET Accounts
  /\ acctMail \in [Accounts -> Emails]
  /\ \A a \in Accounts \ acct : acctMail[a] = AnyEmail
  /\ \A a, b \in acct : a # b => acctMail[a] # acctMail[b]
  /\ user = [u \in Users |-> "none"]
  /\ role = [u \in Users |-> IF u \in Accounts THEN "owner" ELSE "viewer"]
  /\ home = [i \in Invites |-> AnyAccount]
  /\ mail = [i \in Invites |-> AnyEmail]
  /\ site = {} /\ gone = {} /\ answered = {}
  /\ pc = [a \in Accounts |-> IF a \in acct THEN "done" ELSE "idle"]
  /\ lpc = [q \in Logins |-> "idle"]
  /\ who = [q \in Logins |-> AnyAccount]
  /\ old = [q \in Logins |-> AnyAccount]
  /\ token = [s \in Sessions |-> "none"]
  /\ claimed = [s \in Sessions |-> "viewer"]
  /\ access = {}
  /\ mpc = [m \in Managers |-> "idle"]
  /\ on = [m \in Managers |-> AnyAccount]
  /\ act = [m \in Managers |-> "remove"]
  /\ faults = 0 /\ lost = {}

SignupStep(a) ==
  \/ \E e \in Emails : CreateAccount(a, e)
  \/ CreateOwner(a) \/ Undo(a) \/ RegisterSite(a) \/ SaveSetup(a) \/ AnswerSignup(a)
  \/ Disconnect(a) \/ FillOwner(a)

LoginStep(q) ==
  \/ \E u \in Users : Login(q, u) \/ AcceptInvite(q, u)
  \/ \E s \in Sessions : Refresh(q, s)
  \/ SetPassword(q) \/ ReadMember(q) \/ Rotate(q) \/ Issue(q)

SessionStep(s) ==
  \/ Logout(s) \/ AccessExpires(s)
  \/ \E i \in Invites, e \in Emails, r \in Roles : InviteUser(i, s, e, r)
  \/ \E m \in Managers, u \in Users, what \in Roles \cup {"remove"} : Manage(m, s, u, what)

Next ==
  \/ \E a \in Accounts : SignupStep(a)
  \/ \E q \in Logins : LoginStep(q)
  \/ \E s \in Sessions : SessionStep(s)
  \/ \E m \in Managers : WriteMember(m)
  \/ ReadUnowned \/ Serve \/ Restart

Spec == Init /\ [][Next]_vars

-----------------------------------------------------------------------------
(* What must hold. *)

Ownerless == {a \in acct : Members(a) = {}}

\* Every account anybody belongs to has exactly one owner (roles.go), whatever
\* role changes, removals, invitations and repairs overlap.
OneOwner ==
  \A a \in acct : Members(a) # {} => Cardinality({u \in Members(a) : role[u] = "owner"}) = 1

\* While the service is up, an account without an owner is one whose signup is
\* under way, or could not delete it: Signup's comment says it is not left around.
OwnerlessExplained ==
  proc = "up" => \A a \in Ownerless : pc[a] \in {"created", "undo"} \/ a \in lost

\* Only members who have set a password hold a session: a pending invitation
\* can't log in yet, and removing somebody ends their sessions, also the one a
\* login or refresh was about to begin.
SessionsAreMembers == \A s \in Sessions : token[s] = "live" => user[Holder(s)] = "active"

\* An account whose signup was answered with success stays, with its owner and
\* its site, through everything others do and every restart.
AnsweredIsWhole ==
  \A a \in answered : a \in acct \cap site /\ user[a] = "active" /\ role[a] = "owner"

\* When a start begins to serve, every account has an owner unless somebody of
\* another team has its email.
BackfillRepairs ==
  [][proc = "filling" /\ proc' = "up" => \A a \in Ownerless : acctMail[a] \in UserMails]_vars

\* BackfillOwnerUsers' own claim: every account from before the start has its
\* owner afterwards; a taken email does not happen, accounts' emails being unique.
BackfillEnsures == [][proc = "filling" /\ proc' = "up" => Ownerless = {}]_vars

\* Seen from outside, requests, failures and restarts come to the teams of Roster.
R == INSTANCE Roster WITH members <- [a \in Accounts |-> Members(a)], announced <- answered

ImplementsRoster == R!Spec
=============================================================================
