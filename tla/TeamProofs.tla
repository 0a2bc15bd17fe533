----------------------------- MODULE TeamProofs -----------------------------
(***************************************************************************)
(* Proofs about Team, for every set of signups, invitations, logins,       *)
(* managers and emails and any number of faults: type correctness, one     *)
(* owner per team, sessions only for members, answered signups that stay,  *)
(* what the backfill of a start leaves, and that Team implements Roster.   *)
(***************************************************************************)
EXTENDS Team, FiniteSetTheorems, TLAPS

\* A user belongs to an account that exists and has its owner.
Keys ==
  \A u \in Users : Exists(u) => Home(u) \in acct /\ user[Home(u)] = "active"

\* The users named by accounts are the owners, and no other is.
Owners ==
  /\ \A a \in Accounts : role[a] = "owner" /\ user[a] # "pending"
  /\ \A i \in Invites : role[i] # "owner"

\* Whoever is managed is not an owner, and does not become one.
Managed ==
  \A m \in Managers :
    mpc[m] = "write" => on[m] \in Invites /\ act[m] \in InviteRoles \cup {"remove"}

\* What a signup has done by each of its points.
Signups ==
  \A a \in Accounts :
    /\ pc[a] = "idle" => a \notin acct /\ user[a] = "none"
    /\ pc[a] \in InFlight => a \in acct /\ a \notin answered /\ proc = "up"
    /\ pc[a] = "created" => user[a] = "none"
    /\ pc[a] \in {"site", "setup", "issue"} => user[a] = "active"
    /\ pc[a] \in {"setup", "issue"} => a \in site
    /\ a \in acct => user[a] # "gone"

\* An answered signup left an account, its owner and its site.
Whole ==
  \A a \in answered : a \in acct /\ a \in site /\ user[a] = "active" /\ pc[a] = "done"

\* While owners are filled in nobody else does anything to accounts.
Filling == proc = "filling" => \A a \in todo : a \in acct /\ user[a] = "none"

TeamInv == Keys /\ Owners /\ Managed /\ Signups /\ Whole /\ Filling

\* A login past its first read is for somebody who has, or had, a password.
LoginsKnow ==
  \A q \in Logins :
    /\ lpc[q] \in {"member", "rotate", "issue"} => user[who[q]] \in {"active", "gone"}
    /\ lpc[q] = "password" => user[who[q]] \in {"pending", "active", "gone"}
    /\ token[q] # "none" => lpc[q] = "done"

SessionInv == LoginsKnow /\ SessionsAreMembers

-----------------------------------------------------------------------------
(* Type correctness. *)

\* The initial states have the right types.
LEMMA TypeInit == Init => TypeOK
<1> SUFFICES ASSUME Init PROVE TypeOK
  OBVIOUS
<1>1. AnyAccount \in Accounts /\ AnyEmail \in Emails
  BY NamesAssumption DEF AnyAccount, AnyEmail
<1> QED
  BY <1>1 DEF Init, TypeOK, Users, Sessions, Roles, InFlight

\* Dropping users keeps the types of both tables.
LEMMA DropType ==
  ASSUME TypeOK, NEW us, Drop(us)
  PROVE  /\ user' \in [Users -> {"none", "pending", "active", "gone"}]
         /\ token' \in [Sessions -> {"none", "live", "gone"}]
BY DEF Drop, TypeOK

\* Every step keeps the types.
LEMMA TypeStep == TypeOK /\ [Next]_vars => TypeOK'
<1> SUFFICES ASSUME TypeOK, [Next]_vars PROVE TypeOK'
  OBVIOUS
<1> USE DEF vars, bootVars, signupVars, loginVars, sessionVars, rowVars, inviteVars, managerVars,
            faultVars, NoRowChange
<1>1. ASSUME NEW a \in Accounts, SignupStep(a) PROVE TypeOK'
  <2>1. ASSUME NEW e \in Emails, CreateAccount(a, e) PROVE TypeOK'
    BY <2>1 DEF CreateAccount, Goto, TypeOK, InFlight
  <2>2. CASE CreateOwner(a)
    BY <2>2, FaultsAssumption DEF CreateOwner, Goto, Reaches, Misses, Fault, TypeOK, InFlight, Users, Roles
  <2>3. CASE Undo(a)
    <3>1. /\ user' \in [Users -> {"none", "pending", "active", "gone"}]
          /\ token' \in [Sessions -> {"none", "live", "gone"}]
      BY <2>3, DropType DEF Undo, TypeOK
    <3> QED
      BY <2>3, <3>1, FaultsAssumption DEF Undo, Goto, Reaches, Misses, Fault, TypeOK, InFlight
  <2>4. CASE RegisterSite(a)
    BY <2>4, FaultsAssumption DEF RegisterSite, Goto, Reaches, Misses, Fault, TypeOK, InFlight
  <2>5. CASE SaveSetup(a)
    BY <2>5, FaultsAssumption DEF SaveSetup, Goto, Reaches, Misses, Fault, TypeOK, InFlight
  <2>6. CASE AnswerSignup(a)
    BY <2>6, FaultsAssumption
    DEF AnswerSignup, Goto, Reaches, Misses, Fault, TypeOK, InFlight, Sessions, Roles
  <2>7. CASE Disconnect(a)
    BY <2>7, FaultsAssumption DEF Disconnect, Fault, TypeOK
  <2>8. CASE FillOwner(a)
    BY <2>8 DEF FillOwner, TypeOK, Users, Roles
  <2> QED
    BY <1>1, <2>1, <2>2, <2>3, <2>4, <2>5, <2>6, <2>7, <2>8 DEF SignupStep
<1>2. ASSUME NEW q \in Logins, LoginStep(q) PROVE TypeOK'
  <2>1. ASSUME NEW u \in Users, Login(q, u) \/ AcceptInvite(q, u) PROVE TypeOK'
    BY <2>1 DEF Login, AcceptInvite, ReadUser, StepTo, TypeOK, Sessions
  <2>2. ASSUME NEW s \in Sessions, Refresh(q, s) PROVE TypeOK'
    BY <2>2 DEF Refresh, StepTo, Holder, TypeOK, Sessions, Users
  <2>3. CASE SetPassword(q)
    BY <2>3 DEF SetPassword, StepTo, Exists, TypeOK
  <2>4. CASE ReadMember(q)
    BY <2>4 DEF ReadMember, ReadUser, StepTo, TypeOK, Sessions
  <2>5. CASE Rotate(q)
    BY <2>5 DEF Rotate, Revoke, StepTo, TypeOK
  <2>6. CASE Issue(q)
    BY <2>6 DEF Issue, StepTo, TypeOK, Sessions
  <2> QED
    BY <1>2, <2>1, <2>2, <2>3, <2>4, <2>5, <2>6 DEF LoginStep
<1>3. ASSUME NEW s \in Sessions, SessionStep(s) PROVE TypeOK'
  <2>1. CASE Logout(s)
    BY <2>1 DEF Logout, Revoke, TypeOK
  <2>2. CASE AccessExpires(s)
    BY <2>2 DEF AccessExpires, TypeOK
  <2>3. ASSUME NEW i \in Invites, NEW e \in Emails, NEW r \in Roles, InviteUser(i, s, e, r)
        PROVE  TypeOK'
    <3>1. Home(Holder(s)) \in Accounts
      BY DEF Home, Holder, TypeOK, Sessions, Users
    <3> QED
      BY <2>3, <3>1 DEF InviteUser, InviteRoles, TypeOK, Users
  <2>4. ASSUME NEW m \in Managers, NEW u \in Users, NEW what \in Roles \cup {"remove"},
               Manage(m, s, u, what)
        PROVE  TypeOK'
    BY <2>4 DEF Manage, TypeOK
  <2> QED
    BY <1>3, <2>1, <2>2, <2>3, <2>4 DEF SessionStep
<1>4. ASSUME NEW m \in Managers, WriteMember(m) PROVE TypeOK'
  <2>1. CASE act[m] = "remove"
    <3>1. /\ user' \in [Users -> {"none", "pending", "active", "gone"}]
          /\ token' \in [Sessions -> {"none", "live", "gone"}]
      BY <1>4, <2>1, DropType DEF WriteMember
    <3> QED
      BY <1>4, <2>1, <3>1 DEF WriteMember, TypeOK
  <2>2. CASE act[m] # "remove"
    BY <1>4, <2>2 DEF WriteMember, TypeOK
  <2> QED
    BY <2>1, <2>2
<1>5. CASE ReadUnowned
  BY <1>5 DEF ReadUnowned, Unowned, TypeOK
<1>6. CASE Serve
  BY <1>6 DEF Serve, TypeOK
<1>7. CASE Restart
  BY <1>7, FaultsAssumption DEF Restart, Fault, TypeOK
<1>8. CASE UNCHANGED vars
  BY <1>8 DEF TypeOK
<1> QED
  BY <1>1, <1>2, <1>3, <1>4, <1>5, <1>6, <1>7, <1>8 DEF Next

\* Every reachable state is well typed (the tables and points of Team).
THEOREM TypeCorrect == Spec => []TypeOK
BY TypeInit, TypeStep, PTL DEF Spec

-----------------------------------------------------------------------------
(* The inductive invariant about accounts and teams. *)

\* The accounts that existed before have no user yet, and no signup has begun.
LEMMA TeamInit == Init => TeamInv
<1> SUFFICES ASSUME Init PROVE TeamInv
  OBVIOUS
<1>1. Keys
  BY DEF Init, Keys, Exists, Users
<1>2. Owners
  BY NamesAssumption DEF Init, Owners, Users
<1>3. Managed /\ Whole /\ Filling
  BY DEF Init, Managed, Whole, Filling
<1>4. Signups
  BY DEF Init, Signups, InFlight, Users
<1> QED
  BY <1>1, <1>2, <1>3, <1>4 DEF TeamInv

\* Giving an account its owner leaves nobody without one.
LEMMA OwnerKeepsKeys ==
  ASSUME TypeOK, Keys, NEW a \in Accounts, UNCHANGED <<acct, home>>,
         user' = user \/ (a \in acct /\ user' = [user EXCEPT ![a] = "active"])
  PROVE  Keys'
<1>1. SUFFICES ASSUME NEW u \in Users, Exists(u)'
               PROVE  Home(u) \in acct /\ user'[Home(u)] = "active"
  BY DEF Keys, Home
<1>2. CASE u = a /\ user' # user
  BY <1>1, <1>2 DEF Home, TypeOK, Users
<1>3. CASE u # a \/ user' = user
  <2>1. Exists(u)
    BY <1>1, <1>3 DEF Exists, TypeOK
  <2>2. Home(u) \in acct /\ user[Home(u)] = "active" /\ Home(u) \in Users
    BY <2>1 DEF Keys, TypeOK, Users
  <2> QED
    BY <2>2 DEF TypeOK
<1> QED
  BY <1>2, <1>3

\* A signup's steps keep the invariant.
LEMMA TeamSignup ==
  ASSUME TypeOK, TeamInv, NEW a \in Accounts, SignupStep(a)
  PROVE  TeamInv'
<1> USE DEF bootVars, signupVars, loginVars, sessionVars, rowVars, inviteVars, managerVars, faultVars
<1>1. ASSUME NEW e \in Emails, CreateAccount(a, e) PROVE TeamInv'
  <2>1. Keys' /\ Owners' /\ Managed'
    BY <1>1 DEF TeamInv, Keys, Owners, Managed, CreateAccount, Exists, Home, TypeOK
  <2>2. Signups'
    BY <1>1 DEF TeamInv, Signups, Whole, CreateAccount, Goto, TypeOK, InFlight
  <2>3. Whole' /\ Filling'
    BY <1>1 DEF TeamInv, Whole, Filling, CreateAccount, Goto, TypeOK
  <2> QED
    BY <2>1, <2>2, <2>3 DEF TeamInv
<1>2. CASE CreateOwner(a)
  <2>1. Keys'
    <3>1. user' = user \/ (a \in acct /\ user' = [user EXCEPT ![a] = "active"])
      BY <1>2 DEF TeamInv, Signups, CreateOwner, InFlight
    <3> QED
      BY <1>2, <3>1, OwnerKeepsKeys DEF TeamInv, CreateOwner
  <2>2. Owners' /\ Managed'
    BY <1>2, NamesAssumption DEF TeamInv, Owners, Managed, CreateOwner, TypeOK, Users
  <2>3. Signups'
    BY <1>2 DEF TeamInv, Signups, CreateOwner, Goto, TypeOK, InFlight, Users
  <2>4. Whole' /\ Filling'
    BY <1>2 DEF TeamInv, Whole, Filling, Signups, CreateOwner, Goto, TypeOK, Users, InFlight
  <2> QED
    BY <2>1, <2>2, <2>3, <2>4 DEF TeamInv
<1>3. CASE Undo(a)
  <2>1. CASE UNCHANGED <<acct, user, token>>
    BY <1>3, <2>1
    DEF TeamInv, Keys, Owners, Managed, Signups, Whole, Filling, Undo, Goto, Exists, Home, TypeOK, InFlight
  <2>2. CASE acct' = acct \ {a} /\ Drop(Members(a))
    <3>1. Keys'
      BY <1>3, <2>2 DEF TeamInv, Keys, Undo, Drop, Members, Exists, Home, TypeOK, Users
    <3>2. Owners' /\ Managed'
      BY <1>3, <2>2 DEF TeamInv, Owners, Managed, Undo, Drop, Exists, TypeOK, Users
    <3>3. \A b \in Accounts : b # a => user'[b] = user[b]
      BY <2>2 DEF Drop, Members, Home, TypeOK, Users
    <3>4. Signups' /\ Whole' /\ Filling'
      BY <1>3, <2>2, <3>3 DEF TeamInv, Signups, Whole, Filling, Undo, Goto, TypeOK, InFlight
    <3> QED
      BY <3>1, <3>2, <3>4 DEF TeamInv
  <2> QED
    BY <1>3, <2>1, <2>2 DEF Undo
<1>4. CASE RegisterSite(a) \/ SaveSetup(a) \/ AnswerSignup(a)
  <2>1. Keys' /\ Owners' /\ Managed'
    BY <1>4 DEF TeamInv, Keys, Owners, Managed, RegisterSite, SaveSetup, AnswerSignup, Exists, Home
  <2>2. Signups'
    BY <1>4 DEF TeamInv, Signups, RegisterSite, SaveSetup, AnswerSignup, Goto, TypeOK, InFlight
  <2>3. Whole' /\ Filling'
    BY <1>4 DEF TeamInv, Whole, Filling, Signups, RegisterSite, SaveSetup, AnswerSignup, Goto, TypeOK, InFlight
  <2> QED
    BY <2>1, <2>2, <2>3 DEF TeamInv
<1>5. CASE Disconnect(a)
  BY <1>5 DEF TeamInv, Keys, Owners, Managed, Signups, Whole, Filling, Disconnect, Exists, Home
<1>6. CASE FillOwner(a)
  <2>1. Keys'
    <3>1. user' = user \/ (a \in acct /\ user' = [user EXCEPT ![a] = "active"])
      BY <1>6 DEF TeamInv, Filling, FillOwner
    <3> QED
      BY <1>6, <3>1, OwnerKeepsKeys DEF TeamInv, FillOwner
  <2>3. Owners' /\ Managed'
    BY <1>6, NamesAssumption DEF TeamInv, Owners, Managed, FillOwner, TypeOK, Users
  <2>2. Signups' /\ Whole' /\ Filling'
    BY <1>6 DEF TeamInv, Signups, Whole, Filling, FillOwner, TypeOK, Users, InFlight
  <2> QED
    BY <2>1, <2>2, <2>3 DEF TeamInv
<1> QED
  BY <1>1, <1>2, <1>3, <1>4, <1>5, <1>6 DEF SignupStep

\* A login's steps change at most a pending user into an active one.
LEMMA TeamLogin ==
  ASSUME TypeOK, TeamInv, NEW q \in Logins, LoginStep(q)
  PROVE  TeamInv'
<1> USE DEF bootVars, signupVars, loginVars, sessionVars, rowVars, inviteVars, managerVars, faultVars,
            NoRowChange
<1>1. /\ UNCHANGED <<proc, todo, pc, site, answered, acct, home, mpc, on, act, role>>
      /\ \/ UNCHANGED user
         \/ \E u \in Users : user[u] \in {"pending", "active"} /\ user' = [user EXCEPT ![u] = "active"]
  <2>1. ASSUME NEW u \in Users, Login(q, u) \/ AcceptInvite(q, u)
        PROVE  UNCHANGED <<proc, todo, pc, site, answered, acct, home, mpc, on, act, role, user>>
    BY <2>1 DEF Login, AcceptInvite, ReadUser
  <2>2. ASSUME NEW s \in Sessions, Refresh(q, s)
        PROVE  UNCHANGED <<proc, todo, pc, site, answered, acct, home, mpc, on, act, role, user>>
    BY <2>2 DEF Refresh
  <2>3. ASSUME SetPassword(q)
        PROVE  /\ UNCHANGED <<proc, todo, pc, site, answered, acct, home, mpc, on, act, role>>
               /\ \/ UNCHANGED user
                  \/ \E u \in Users : user[u] \in {"pending", "active"} /\ user' = [user EXCEPT ![u] = "active"]
    BY <2>3 DEF SetPassword, Exists, TypeOK
  <2>4. ASSUME ReadMember(q) \/ Rotate(q) \/ Issue(q)
        PROVE  UNCHANGED <<proc, todo, pc, site, answered, acct, home, mpc, on, act, role, user>>
    BY <2>4 DEF ReadMember, ReadUser, Rotate, Issue
  <2> QED
    BY <2>1, <2>2, <2>3, <2>4 DEF LoginStep
<1>2. CASE UNCHANGED user
  BY <1>1, <1>2 DEF TeamInv, Keys, Owners, Managed, Signups, Whole, Filling, Exists, Home
<1>3. ASSUME NEW u \in Users, user[u] \in {"pending", "active"}, user' = [user EXCEPT ![u] = "active"]
      PROVE  TeamInv'
  <2>1. Keys' /\ Owners' /\ Managed'
    BY <1>1, <1>3 DEF TeamInv, Keys, Owners, Managed, Exists, Home, TypeOK, Users
  <2>2. Signups' /\ Whole' /\ Filling'
    BY <1>1, <1>3 DEF TeamInv, Owners, Signups, Whole, Filling, TypeOK, Users
  <2> QED
    BY <2>1, <2>2 DEF TeamInv
<1> QED
  BY <1>1, <1>2, <1>3

\* Managing a team, ending a session and starting the process keep it as well.
LEMMA TeamStep == TypeOK /\ TeamInv /\ [Next]_vars => TeamInv'
<1> SUFFICES ASSUME TypeOK, TeamInv, [Next]_vars PROVE TeamInv'
  OBVIOUS
<1> USE DEF vars, bootVars, signupVars, loginVars, sessionVars, rowVars, inviteVars, managerVars,
            faultVars, NoRowChange
<1>1. ASSUME NEW s \in Sessions, Logout(s) \/ AccessExpires(s) PROVE TeamInv'
  BY <1>1 DEF TeamInv, Keys, Owners, Managed, Signups, Whole, Filling, Logout, AccessExpires, Exists, Home
<1>2. ASSUME NEW s \in Sessions, NEW i \in Invites, NEW e \in Emails, NEW r \in Roles,
             InviteUser(i, s, e, r)
      PROVE  TeamInv'
  <2>1. Home(Holder(s)) \in acct /\ user[Home(Holder(s))] = "active"
    BY <1>2 DEF InviteUser, TeamInv, Keys, Holder, TypeOK, Sessions, Users
  <2>2. Keys'
    <3>1. SUFFICES ASSUME NEW u \in Users, Exists(u)'
                   PROVE  Home(u)' \in acct /\ user'[Home(u)'] = "active"
      BY <1>2 DEF InviteUser, Keys
    <3>2. \A b \in acct : user[b] = "active" => user'[b] = "active"
      BY <1>2 DEF InviteUser, TypeOK, Users
    <3>3. CASE u = i
      <4>1. Home(u)' = Home(Holder(s))
        BY <1>2, <3>3, NamesAssumption DEF InviteUser, Home, TypeOK
      <4> QED
        BY <2>1, <3>2, <4>1
    <3>4. CASE u # i
      <4>1. Home(u)' = Home(u) /\ Exists(u)
        BY <1>2, <3>1, <3>4 DEF InviteUser, Home, Exists, TypeOK, Users
      <4> QED
        BY <3>2, <4>1 DEF TeamInv, Keys
    <3> QED
      BY <3>3, <3>4
  <2>3. Owners' /\ Managed'
    BY <1>2, NamesAssumption DEF InviteUser, InviteRoles, TeamInv, Owners, Managed, TypeOK, Users
  <2>4. Signups' /\ Whole' /\ Filling'
    BY <1>2, NamesAssumption DEF InviteUser, TeamInv, Signups, Whole, Filling, TypeOK, Users
  <2> QED
    BY <2>2, <2>3, <2>4 DEF TeamInv
<1>3. ASSUME NEW s \in Sessions, NEW m \in Managers, NEW u \in Users, NEW what \in Roles \cup {"remove"},
             Manage(m, s, u, what)
      PROVE  TeamInv'
  <2>1. u \in Invites
    BY <1>3 DEF Manage, Protected, TeamInv, Owners, Users
  <2>2. Managed'
    BY <1>3, <2>1 DEF Manage, TeamInv, Managed, TypeOK
  <2> QED
    BY <1>3, <2>2 DEF Manage, TeamInv, Keys, Owners, Signups, Whole, Filling, Exists, Home
<1>4. ASSUME NEW m \in Managers, WriteMember(m) PROVE TeamInv'
  <2>1. on[m] \in Invites /\ act[m] \in InviteRoles \cup {"remove"}
    BY <1>4 DEF WriteMember, TeamInv, Managed
  <2>2. \A a \in Accounts : user'[a] = user[a] /\ role'[a] = role[a]
    BY <1>4, <2>1, NamesAssumption DEF WriteMember, Drop, TypeOK, Users
  <2>3. \A u \in Users : Exists(u)' => Exists(u)
    BY <1>4 DEF WriteMember, Drop, Exists, TypeOK
  <2>4. Keys'
    <3>1. \A u \in Users : Home(u) \in Accounts /\ Home(u)' = Home(u)
      BY <1>4 DEF WriteMember, Home, TypeOK, Users
    <3> QED
      BY <1>4, <2>2, <2>3, <3>1 DEF WriteMember, TeamInv, Keys
  <2>5. Owners'
    BY <1>4, <2>1, <2>2, NamesAssumption DEF WriteMember, InviteRoles, TeamInv, Owners, TypeOK, Users
  <2>6. Managed' /\ Signups' /\ Whole' /\ Filling'
    BY <1>4, <2>2 DEF WriteMember, TeamInv, Managed, Signups, Whole, Filling, TypeOK
  <2> QED
    BY <2>4, <2>5, <2>6 DEF TeamInv
<1>5. CASE ReadUnowned
  <2>1. \A a \in Unowned : a \in acct /\ user[a] = "none"
    BY DEF Unowned, Members, Exists, Home, TeamInv, Owners, Signups, TypeOK, Users
  <2> QED
    BY <1>5, <2>1 DEF ReadUnowned, TeamInv, Keys, Owners, Managed, Signups, Whole, Filling, Exists, Home
<1>6. CASE Serve
  BY <1>6 DEF Serve, TeamInv, Keys, Owners, Managed, Signups, Whole, Filling, Exists, Home
<1>7. CASE Restart
  <2>1. Keys' /\ Owners' /\ Managed' /\ Filling'
    BY <1>7 DEF Restart, TeamInv, Keys, Owners, Managed, Filling, Exists, Home
  <2>2. Signups' /\ Whole'
    BY <1>7 DEF Restart, TeamInv, Signups, Whole, InFlight, TypeOK
  <2> QED
    BY <2>1, <2>2 DEF TeamInv
<1>8. CASE UNCHANGED vars
  BY <1>8 DEF TeamInv, Keys, Owners, Managed, Signups, Whole, Filling, Exists, Home
<1>9. ASSUME NEW s \in Sessions, SessionStep(s) PROVE TeamInv'
  BY <1>1, <1>2, <1>3, <1>9 DEF SessionStep
<1> QED
  BY <1>4, <1>5, <1>6, <1>7, <1>8, <1>9, TeamSignup, TeamLogin DEF Next

\* Every reachable state satisfies the invariant.
LEMMA TeamInvariant == Spec => []TeamInv
BY TypeInit, TypeStep, TeamInit, TeamStep, PTL DEF Spec

\* In the invariant's states the owner of a team is the user the account names.
LEMMA OwnerIsNamed ==
  ASSUME TypeOK, TeamInv, NEW a \in acct, Members(a) # {}
  PROVE  {u \in Members(a) : role[u] = "owner"} = {a}
<1>1. a \in Accounts /\ a \in Users /\ Home(a) = a
  BY DEF TypeOK, Users, Home
<1>2. PICK u \in Users : Exists(u) /\ Home(u) = a
  BY DEF Members
<1>3. user[a] = "active"
  BY <1>2 DEF TeamInv, Keys
<1>4. a \in Members(a) /\ role[a] = "owner"
  BY <1>1, <1>3 DEF Members, Exists, TeamInv, Owners
<1>5. \A v \in Members(a) : role[v] = "owner" => v = a
  BY DEF Members, Home, Users, TeamInv, Owners
<1> QED
  BY <1>4, <1>5

\* Every account that has users has exactly one owner (roles.go).
THEOREM AlwaysOneOwner == Spec => []OneOwner
<1>1. TypeOK /\ TeamInv => OneOwner
  <2> SUFFICES ASSUME TypeOK, TeamInv, NEW a \in acct, Members(a) # {}
               PROVE  Cardinality({u \in Members(a) : role[u] = "owner"}) = 1
    BY DEF OneOwner
  <2> QED
    BY OwnerIsNamed, FS_Singleton
<1> QED
  BY <1>1, TypeCorrect, TeamInvariant, PTL

\* A signup answered with success is never undone (Signup, Register).
THEOREM AnsweredStays == Spec => []AnsweredIsWhole
<1>1. TypeOK /\ TeamInv => AnsweredIsWhole
  BY DEF TypeOK, TeamInv, Whole, Owners, AnsweredIsWhole
<1> QED
  BY <1>1, TypeCorrect, TeamInvariant, PTL

-----------------------------------------------------------------------------
(* Accounts without an owner. *)

DistinctMails == \A a, b \in acct : a # b => acctMail[a] # acctMail[b]

\* An account older than the users table that the first start has yet to reach.
Awaiting(a) ==
  /\ proc # "up" /\ pc[a] = "done"
  /\ \A i \in Invites : user[i] = "none"
  /\ proc = "filling" => a \in todo

Explained ==
  \A a \in acct : user[a] = "none" => pc[a] \in {"created", "undo"} \/ a \in lost \/ Awaiting(a)

OwnerlessInv == DistinctMails /\ Explained

\* At first every account awaits its owner.
LEMMA OwnerlessInit == Init => OwnerlessInv
BY NamesAssumption DEF Init, OwnerlessInv, DistinctMails, Explained, Awaiting, Users

\* A signup that fails goes on to delete its account, and the first start skips
\* nobody.
LEMMA OwnerlessSignup ==
  ASSUME TypeOK, TeamInv, OwnerlessInv, NEW a \in Accounts, SignupStep(a)
  PROVE  OwnerlessInv'
<1> USE DEF bootVars, signupVars, loginVars, sessionVars, rowVars, inviteVars, managerVars, faultVars
<1>1. ASSUME NEW e \in Emails, CreateAccount(a, e) PROVE OwnerlessInv'
  BY <1>1 DEF CreateAccount, AcctMails, Goto, TeamInv, Signups, OwnerlessInv, DistinctMails, Explained,
              Awaiting, TypeOK, Users
<1>2. CASE CreateOwner(a)
  BY <1>2 DEF CreateOwner, Goto, TeamInv, Signups, InFlight, OwnerlessInv, DistinctMails, Explained,
              Awaiting, TypeOK, Users
<1>3. CASE Undo(a)
  <2>1. \A b \in Accounts : b # a => user'[b] = user[b]
    BY <1>3 DEF Undo, Drop, Members, Home, TypeOK, Users
  <2>2. proc = "up"
    BY <1>3 DEF Undo, TeamInv, Signups, InFlight
  <2> QED
    BY <1>3, <2>1, <2>2 DEF Undo, Goto, OwnerlessInv, DistinctMails, Explained, Awaiting, TypeOK
<1>4. CASE RegisterSite(a) \/ SaveSetup(a) \/ AnswerSignup(a) \/ Disconnect(a)
  BY <1>4 DEF RegisterSite, SaveSetup, AnswerSignup, Disconnect, Goto, TeamInv, Signups, InFlight,
              OwnerlessInv, DistinctMails, Explained, Awaiting, TypeOK
<1>5. CASE FillOwner(a)
  <2>1. a \in acct /\ user[a] = "none" /\ pc[a] \notin InFlight
    BY <1>5 DEF FillOwner, TeamInv, Filling, Signups
  <2>2. acctMail[a] \in UserMails => ~Awaiting(a)
    <3>1. SUFFICES ASSUME Awaiting(a), NEW u \in Users, Exists(u), Mail(u) = acctMail[a]
                   PROVE  FALSE
      BY DEF UserMails
    <3>2. u \in acct /\ Mail(u) = acctMail[u]
      BY <3>1 DEF Awaiting, Exists, Mail, Home, Users, TeamInv, Keys
    <3> QED
      BY <2>1, <3>1, <3>2 DEF OwnerlessInv, DistinctMails, Exists
  <2>3. Explained'
    <3>1. ASSUME NEW b \in acct, user'[b] = "none"
          PROVE  pc[b] \in {"created", "undo"} \/ b \in lost \/ Awaiting(b)'
      <4>1. CASE b = a
        BY <1>5, <2>1, <2>2, <3>1, <4>1 DEF FillOwner, OwnerlessInv, Explained, InFlight, TypeOK, Users
      <4>2. CASE b # a
        <5>1. user[b] = "none" /\ \A i \in Invites : user'[i] = user[i]
          BY <1>5, <3>1, <4>2, NamesAssumption DEF FillOwner, TypeOK, Users
        <5> QED
          BY <1>5, <4>2, <5>1 DEF FillOwner, OwnerlessInv, Explained, Awaiting
      <4> QED
        BY <4>1, <4>2
    <3> QED
      BY <1>5, <3>1 DEF FillOwner, Explained
  <2> QED
    BY <1>5, <2>3 DEF FillOwner, OwnerlessInv, DistinctMails
<1> QED
  BY <1>1, <1>2, <1>3, <1>4, <1>5 DEF SignupStep

\* Nothing else makes or leaves an account without its owner.
LEMMA OwnerlessStep == TypeOK /\ TeamInv /\ OwnerlessInv /\ [Next]_vars => OwnerlessInv'
<1> SUFFICES ASSUME TypeOK, TeamInv, OwnerlessInv, [Next]_vars PROVE OwnerlessInv'
  OBVIOUS
<1> USE DEF vars, bootVars, signupVars, loginVars, sessionVars, rowVars, inviteVars, managerVars,
            faultVars, NoRowChange
<1>1. ASSUME UNCHANGED <<proc, todo, pc, acct, acctMail, lost>>,
             \A a \in acct : user'[a] = "none" => user[a] = "none",
             proc # "up" => \A i \in Invites : user[i] = "none" => user'[i] = "none"
      PROVE  OwnerlessInv'
  BY <1>1 DEF OwnerlessInv, DistinctMails, Explained, Awaiting
<1>2. ASSUME NEW q \in Logins, LoginStep(q) PROVE OwnerlessInv'
  <2>1. UNCHANGED <<proc, todo, pc, acct, acctMail, lost>>
    BY <1>2 DEF LoginStep, Login, AcceptInvite, Refresh, SetPassword, ReadMember, ReadUser, Rotate, Issue
  <2>2. \A u \in Users : user'[u] = "none" <=> user[u] = "none"
    BY <1>2 DEF LoginStep, Login, AcceptInvite, Refresh, SetPassword, ReadMember, ReadUser, Rotate, Issue,
                Exists, TypeOK
  <2> QED
    BY <1>1, <2>1, <2>2 DEF Users, TypeOK
<1>3. ASSUME NEW s \in Sessions, SessionStep(s) PROVE OwnerlessInv'
  <2>1. UNCHANGED <<proc, todo, pc, acct, acctMail, lost>>
    BY <1>3 DEF SessionStep, Logout, AccessExpires, InviteUser, Manage
  <2>2. \A a \in acct : user'[a] = "none" => user[a] = "none"
    BY <1>3 DEF SessionStep, Logout, AccessExpires, InviteUser, Manage, TypeOK, Users
  <2>3. proc # "up" => UNCHANGED user
    BY <1>3 DEF SessionStep, Logout, AccessExpires, InviteUser, Manage
  <2> QED
    BY <1>1, <2>1, <2>2, <2>3
<1>4. ASSUME NEW m \in Managers, WriteMember(m) PROVE OwnerlessInv'
  <2>1. \A u \in Users : user'[u] = "none" <=> user[u] = "none"
    BY <1>4 DEF WriteMember, Drop, Exists, TypeOK
  <2> QED
    BY <1>1, <1>4, <2>1 DEF WriteMember, Users, TypeOK
<1>5. CASE ReadUnowned
  <2>1. \A a \in acct : user[a] = "none" => a \in Unowned
    BY DEF Unowned, Members, TeamInv, Keys
  <2> QED
    BY <1>5, <2>1 DEF ReadUnowned, OwnerlessInv, DistinctMails, Explained, Awaiting
<1>6. CASE Serve
  BY <1>6 DEF Serve, OwnerlessInv, DistinctMails, Explained, Awaiting
<1>7. CASE Restart
  BY <1>7 DEF Restart, OwnerlessInv, DistinctMails, Explained, Awaiting, TypeOK
<1>8. CASE UNCHANGED vars
  BY <1>8 DEF OwnerlessInv, DistinctMails, Explained, Awaiting
<1> QED
  BY <1>2, <1>3, <1>4, <1>5, <1>6, <1>7, <1>8, OwnerlessSignup DEF Next

\* While the service is up, an account has no owner only during its signup or
\* when its signup could not be undone (createAccountWithOwner, BackfillOwnerUsers).
THEOREM OwnerlessIsExplained == Spec => []OwnerlessExplained
<1>1. TypeOK /\ TeamInv /\ OwnerlessInv => OwnerlessExplained
  <2> SUFFICES ASSUME TypeOK, TeamInv, OwnerlessInv, proc = "up", NEW a \in acct, Members(a) = {}
               PROVE  pc[a] \in {"created", "undo"} \/ a \in lost
    BY DEF OwnerlessExplained, Ownerless
  <2>1. a \in Accounts /\ a \in Users /\ Home(a) = a
    BY DEF TypeOK, Users, Home
  <2>2. user[a] = "none"
    BY <2>1 DEF Members, Exists, TeamInv, Owners, Signups, TypeOK
  <2> QED
    BY <2>2 DEF OwnerlessInv, Explained, Awaiting
<1> QED
  BY <1>1, OwnerlessInit, OwnerlessStep, TypeCorrect, TeamInvariant, PTL DEF Spec

-----------------------------------------------------------------------------
(* What a start leaves. *)

\* Until the service is up no manager's request is under way.
Quiet == proc # "up" => \A m \in Managers : mpc[m] # "write"

\* An account the start passed over has an email somebody else has.
SkipsTaken ==
  proc = "filling" => \A a \in acct : user[a] = "none" => a \in todo \/ acctMail[a] \in UserMails

RepairInv == Quiet /\ SkipsTaken

\* Only the start and a restart change what the process is doing.
LEMMA ProcChanges ==
  ASSUME [Next]_vars, proc' # proc
  PROVE  ReadUnowned \/ Serve \/ Restart
<1> USE DEF bootVars
<1>1. ASSUME NEW a \in Accounts, SignupStep(a) PROVE FALSE
  BY <1>1 DEF SignupStep, CreateAccount, CreateOwner, Undo, RegisterSite, SaveSetup, AnswerSignup, Disconnect,
              FillOwner
<1>2. ASSUME NEW q \in Logins, LoginStep(q) PROVE FALSE
  BY <1>2 DEF LoginStep, Login, AcceptInvite, Refresh, SetPassword, ReadMember, ReadUser, Rotate, Issue,
              NoRowChange
<1>3. ASSUME NEW s \in Sessions, SessionStep(s) PROVE FALSE
  BY <1>3 DEF SessionStep, Logout, AccessExpires, InviteUser, Manage, NoRowChange
<1>4. ASSUME NEW m \in Managers, WriteMember(m) PROVE FALSE
  BY <1>4 DEF WriteMember
<1> QED
  BY <1>1, <1>2, <1>3, <1>4 DEF Next, vars

\* While owners are filled in, emails stay taken.
LEMMA TakenStays ==
  ASSUME TypeOK, TeamInv, Quiet, [Next]_vars, proc = "filling", proc' = "filling"
  PROVE  /\ acct' = acct /\ acctMail' = acctMail /\ UserMails \subseteq UserMails'
         /\ \A a \in Accounts : user'[a] = "none" => user[a] = "none" /\ (a \in todo => a \in todo' \/ acctMail[a] \in UserMails)
<1> USE DEF vars, bootVars, signupVars, loginVars, sessionVars, rowVars, inviteVars, managerVars,
            faultVars, NoRowChange
<1>0. ASSUME UNCHANGED <<acctMail, mail>>, \A u \in Users : Exists(u) => user'[u] \in {"pending", "active"}
      PROVE  UserMails \subseteq UserMails'
  BY <1>0 DEF UserMails, Mail, Exists
<1>1. ASSUME NEW a \in Accounts, SignupStep(a)
      PROVE  FillOwner(a)
  <2>1. pc[a] \notin InFlight
    BY DEF TeamInv, Signups
  <2> QED
    BY <1>1, <2>1 DEF SignupStep, CreateAccount, CreateOwner, Undo, RegisterSite, SaveSetup, AnswerSignup,
                      Disconnect, InFlight
<1>2. ASSUME NEW a \in Accounts, FillOwner(a)
      PROVE  /\ acct' = acct /\ acctMail' = acctMail /\ UserMails \subseteq UserMails'
             /\ \A b \in Accounts : user'[b] = "none" =>
                  user[b] = "none" /\ (b \in todo => b \in todo' \/ acctMail[b] \in UserMails)
  <2>1. UNCHANGED <<acct, acctMail, mail>>
    BY <1>2 DEF FillOwner
  <2>2. \A u \in Users : Exists(u) => user'[u] \in {"pending", "active"}
    BY <1>2 DEF FillOwner, Exists, TypeOK
  <2>3. ASSUME NEW b \in Accounts, user'[b] = "none"
        PROVE  user[b] = "none" /\ (b \in todo => b \in todo' \/ acctMail[b] \in UserMails)
    BY <1>2, <2>3 DEF FillOwner, TypeOK, Users
  <2> QED
    BY <1>0, <2>1, <2>2, <2>3
<1>3. ASSUME NEW q \in Logins, LoginStep(q)
      PROVE  /\ UNCHANGED <<acct, acctMail, mail, todo>>
             /\ \A u \in Users : Exists(u) => user'[u] \in {"pending", "active"}
             /\ \A u \in Users : user'[u] = "none" => user[u] = "none"
  BY <1>3 DEF LoginStep, Login, AcceptInvite, Refresh, SetPassword, ReadMember, ReadUser, Rotate, Issue,
              Exists, TypeOK
<1>4. ASSUME NEW s \in Sessions, SessionStep(s)
      PROVE  UNCHANGED <<acct, acctMail, mail, todo, user>>
  BY <1>4 DEF SessionStep, Logout, AccessExpires, InviteUser, Manage
<1>5. ASSUME NEW m \in Managers, WriteMember(m)
      PROVE  FALSE
  BY <1>5 DEF WriteMember, Quiet
<1>6. CASE ReadUnowned \/ Serve \/ Restart
  BY <1>6 DEF ReadUnowned, Serve, Restart
<1>7. CASE UNCHANGED vars
  BY <1>0, <1>7 DEF Exists
<1>8. ASSUME UNCHANGED <<acct, acctMail, mail, todo, user>>
      PROVE  /\ acct' = acct /\ acctMail' = acctMail /\ UserMails \subseteq UserMails'
             /\ \A a \in Accounts : user'[a] = "none" => user[a] = "none" /\ (a \in todo => a \in todo')
  BY <1>0, <1>8 DEF Exists
<1>9. CASE \E q \in Logins : LoginStep(q)
  BY <1>0, <1>3, <1>9 DEF Users
<1> QED
  BY <1>1, <1>2, <1>4, <1>5, <1>6, <1>7, <1>8, <1>9 DEF Next

\* Requests begin when the service is up, and none outlives it.
LEMMA QuietStep == TypeOK /\ TeamInv /\ Quiet /\ [Next]_vars => Quiet'
<1> SUFFICES ASSUME TypeOK, TeamInv, Quiet, [Next]_vars PROVE Quiet'
  OBVIOUS
<1> USE DEF vars, bootVars, signupVars, loginVars, sessionVars, rowVars, inviteVars, managerVars,
            faultVars, NoRowChange
<1>1. ASSUME NEW a \in Accounts, SignupStep(a) PROVE UNCHANGED <<proc, mpc>>
  BY <1>1 DEF SignupStep, CreateAccount, CreateOwner, Undo, RegisterSite, SaveSetup, AnswerSignup, Disconnect,
              FillOwner
<1>2. ASSUME NEW q \in Logins, LoginStep(q) PROVE UNCHANGED <<proc, mpc>>
  BY <1>2 DEF LoginStep, Login, AcceptInvite, Refresh, SetPassword, ReadMember, ReadUser, Rotate, Issue
<1>3. ASSUME NEW s \in Sessions, SessionStep(s) PROVE UNCHANGED <<proc, mpc>> \/ proc' = "up"
  BY <1>3 DEF SessionStep, Logout, AccessExpires, InviteUser, Manage
<1>4. ASSUME NEW m \in Managers, WriteMember(m) PROVE Quiet'
  BY <1>4 DEF WriteMember, Quiet, TypeOK
<1>5. CASE ReadUnowned \/ Serve \/ Restart
  BY <1>5 DEF ReadUnowned, Serve, Restart, Quiet, TypeOK
<1> QED
  BY <1>1, <1>2, <1>3, <1>4, <1>5 DEF Next, Quiet

\* An account is passed over when its email is taken, which it then stays.
LEMMA SkipsStep == TypeOK /\ TeamInv /\ RepairInv /\ [Next]_vars => SkipsTaken'
<1> SUFFICES ASSUME TypeOK, TeamInv, RepairInv, [Next]_vars, proc' = "filling",
                    NEW a \in acct', user'[a] = "none"
             PROVE  a \in todo' \/ acctMail'[a] \in UserMails'
  BY DEF SkipsTaken
<1> USE DEF RepairInv
<1>1. CASE proc = "filling"
  BY <1>1, TakenStays DEF SkipsTaken, TypeOK
<1>2. CASE proc # "filling"
  <2>1. ReadUnowned
    BY <1>2, ProcChanges DEF Serve, Restart
  <2>2. /\ todo' = Unowned /\ acct' = acct /\ user' = user
    BY <2>1 DEF ReadUnowned, rowVars
  <2>3. Members(a) = {}
    BY <2>2 DEF Members, TeamInv, Keys, Exists, TypeOK
  <2> QED
    BY <2>2, <2>3 DEF Unowned
<1> QED
  BY <1>1, <1>2

\* A start leaves no account without an owner but those whose email somebody of
\* another team has (BackfillOwnerUsers).
THEOREM BackfillLeavesTaken == Spec => BackfillRepairs
<1>1. Init => RepairInv
  BY DEF Init, RepairInv, Quiet, SkipsTaken
<1>2. TypeOK /\ TeamInv /\ RepairInv /\ [Next]_vars => RepairInv'
  BY QuietStep, SkipsStep DEF RepairInv
<1>3. TypeOK /\ TeamInv /\ RepairInv /\ [Next]_vars
        => [proc = "filling" /\ proc' = "up" => \A a \in Ownerless : acctMail[a] \in UserMails]_vars
  <2> SUFFICES ASSUME TypeOK, TeamInv, RepairInv, [Next]_vars, proc = "filling", proc' = "up",
                      NEW a \in Ownerless
               PROVE  acctMail[a] \in UserMails
    OBVIOUS
  <2>1. todo = {}
    BY ProcChanges DEF ReadUnowned, Serve, Restart
  <2>2. a \in acct /\ a \in Accounts /\ a \in Users /\ Home(a) = a /\ Members(a) = {}
    BY DEF Ownerless, TypeOK, Users, Home
  <2>3. user[a] = "none"
    BY <2>2 DEF Members, Exists, TeamInv, Signups, Owners, TypeOK
  <2> QED
    BY <2>1, <2>2, <2>3 DEF RepairInv, SkipsTaken
<1> QED
  BY <1>1, <1>2, <1>3, TypeCorrect, TeamInvariant, PTL DEF Spec, BackfillRepairs

-----------------------------------------------------------------------------
(* Sessions. *)

\* Nobody who had a password loses it but by removal.
LEMMA UserMoves ==
  ASSUME TypeOK, TeamInv, [Next]_vars, NEW u \in Users
  PROVE  /\ user[u] = "active" => user'[u] \in {"active", "gone"}
         /\ user[u] = "pending" => user'[u] \in {"pending", "active", "gone"}
         /\ user[u] = "gone" => user'[u] = "gone"
<1> USE DEF vars, bootVars, signupVars, loginVars, sessionVars, rowVars, inviteVars, managerVars,
            faultVars, NoRowChange
<1> DEFINE Moves == /\ user[u] = "active" => user'[u] \in {"active", "gone"}
                    /\ user[u] = "pending" => user'[u] \in {"pending", "active", "gone"}
                    /\ user[u] = "gone" => user'[u] = "gone"
<1>1. ASSUME NEW a \in Accounts, SignupStep(a) PROVE Moves
  <2>1. CASE CreateOwner(a)
    BY <2>1 DEF CreateOwner, TeamInv, Signups, TypeOK
  <2>2. CASE Undo(a)
    BY <2>2 DEF Undo, Drop, Exists, TypeOK
  <2>3. CASE FillOwner(a)
    BY <2>3 DEF FillOwner, TeamInv, Filling, TypeOK
  <2>4. CASE RegisterSite(a) \/ SaveSetup(a) \/ AnswerSignup(a) \/ Disconnect(a)
    BY <2>4 DEF RegisterSite, SaveSetup, AnswerSignup, Disconnect
  <2>5. ASSUME NEW e \in Emails, CreateAccount(a, e) PROVE Moves
    BY <2>5 DEF CreateAccount
  <2> QED
    BY <1>1, <2>1, <2>2, <2>3, <2>4, <2>5 DEF SignupStep
<1>2. ASSUME NEW q \in Logins, LoginStep(q) PROVE Moves
  BY <1>2 DEF LoginStep, Login, AcceptInvite, Refresh, SetPassword, ReadMember, ReadUser, Rotate, Issue,
              Exists, TypeOK
<1>3. ASSUME NEW s \in Sessions, SessionStep(s) PROVE Moves
  BY <1>3 DEF SessionStep, Logout, AccessExpires, InviteUser, Manage, TypeOK
<1>4. ASSUME NEW m \in Managers, WriteMember(m) PROVE Moves
  BY <1>4 DEF WriteMember, Drop, Exists, TypeOK
<1>5. CASE ReadUnowned \/ Serve \/ Restart \/ UNCHANGED vars
  BY <1>5 DEF ReadUnowned, Serve, Restart
<1> QED
  BY <1>1, <1>2, <1>3, <1>4, <1>5 DEF Next

\* Nobody has logged in yet.
LEMMA SessionInit == Init => SessionInv
BY DEF Init, SessionInv, LoginsKnow, SessionsAreMembers, Sessions

\* What a login knows of its user stays true.
LEMMA LoginsStep == TypeOK /\ TeamInv /\ SessionInv /\ [Next]_vars => LoginsKnow'
<1> SUFFICES ASSUME TypeOK, TeamInv, SessionInv, [Next]_vars PROVE LoginsKnow'
  OBVIOUS
<1> USE DEF vars, bootVars, signupVars, loginVars, sessionVars, rowVars, inviteVars, managerVars,
            faultVars, NoRowChange
<1>1. CASE UNCHANGED <<lpc, who>> /\ \A q \in Logins : token[q] = "none" => token'[q] = "none"
  BY <1>1, UserMoves DEF SessionInv, LoginsKnow, TypeOK
<1>2. ASSUME NEW q \in Logins, LoginStep(q) PROVE LoginsKnow'
  <2>1. ASSUME NEW u \in Users, Login(q, u) \/ AcceptInvite(q, u) PROVE LoginsKnow'
    BY <2>1 DEF Login, AcceptInvite, MayLogIn, ReadUser, StepTo, SessionInv, LoginsKnow, TypeOK
  <2>2. ASSUME NEW s \in Sessions, Refresh(q, s) PROVE LoginsKnow'
    <3>1. user[Holder(s)] = "active"
      BY <2>2 DEF Refresh, SessionInv, SessionsAreMembers
    <3> QED
      BY <2>2, <3>1 DEF Refresh, StepTo, SessionInv, LoginsKnow, TypeOK
  <2>3. CASE SetPassword(q)
    BY <2>3 DEF SetPassword, StepTo, Exists, SessionInv, LoginsKnow, TypeOK
  <2>4. CASE ReadMember(q)
    BY <2>4 DEF ReadMember, ReadUser, StepTo, SessionInv, LoginsKnow, TypeOK
  <2>5. CASE Rotate(q)
    BY <2>5 DEF Rotate, Revoke, StepTo, SessionInv, LoginsKnow, TypeOK, Sessions
  <2>6. CASE Issue(q)
    BY <2>6 DEF Issue, StepTo, SessionInv, LoginsKnow, TypeOK, Sessions
  <2> QED
    BY <1>2, <2>1, <2>2, <2>3, <2>4, <2>5, <2>6 DEF LoginStep
<1>3. CASE Restart
  BY <1>3 DEF Restart, SessionInv, LoginsKnow, TypeOK
<1>4. ASSUME NEW a \in Accounts, SignupStep(a)
      PROVE  UNCHANGED <<lpc, who>> /\ \A q \in Logins : token[q] = "none" => token'[q] = "none"
  BY <1>4, NamesAssumption
  DEF SignupStep, CreateAccount, CreateOwner, Undo, RegisterSite, SaveSetup, AnswerSignup, Disconnect,
      FillOwner, Drop, TypeOK, Sessions
<1>5. ASSUME NEW s \in Sessions, SessionStep(s)
      PROVE  UNCHANGED <<lpc, who>> /\ \A q \in Logins : token[q] = "none" => token'[q] = "none"
  BY <1>5 DEF SessionStep, Logout, AccessExpires, InviteUser, Manage, Revoke, TypeOK, Sessions
<1>6. ASSUME NEW m \in Managers, WriteMember(m)
      PROVE  UNCHANGED <<lpc, who>> /\ \A q \in Logins : token[q] = "none" => token'[q] = "none"
  BY <1>6 DEF WriteMember, Drop, TypeOK, Sessions
<1>7. CASE ReadUnowned \/ Serve \/ UNCHANGED vars
  BY <1>1, <1>7 DEF ReadUnowned, Serve
<1> QED
  BY <1>1, <1>2, <1>3, <1>4, <1>5, <1>6, <1>7 DEF Next

\* A token is written for somebody with a password, and goes when they do.
LEMMA SessionsStep == TypeOK /\ TeamInv /\ SessionInv /\ [Next]_vars => SessionsAreMembers'
<1> SUFFICES ASSUME TypeOK, TeamInv, SessionInv, [Next]_vars, NEW s \in Sessions, token'[s] = "live"
             PROVE  user'[Holder(s)'] = "active"
  BY DEF SessionsAreMembers
<1> USE DEF vars, bootVars, signupVars, loginVars, sessionVars, rowVars, inviteVars, managerVars,
            faultVars, NoRowChange
<1>1. ASSUME token[s] = "live", Holder(s)' = Holder(s),
             \A u \in Users : user[u] = "active" => user'[u] = "active"
      PROVE  user'[Holder(s)'] = "active"
  <2>1. user[Holder(s)] = "active" /\ Holder(s) \in Users
    BY <1>1 DEF SessionInv, SessionsAreMembers, Holder, TypeOK, Sessions, Users
  <2> QED
    BY <1>1, <2>1
<1>2. ASSUME NEW us, Drop(us), UNCHANGED who
      PROVE  user'[Holder(s)'] = "active"
  <2>1. token[s] = "live" /\ Holder(s) \notin us /\ Holder(s)' = Holder(s)
    BY <1>2 DEF Drop, TypeOK, Holder
  <2>2. user[Holder(s)] = "active" /\ Holder(s) \in Users
    BY <2>1 DEF SessionInv, SessionsAreMembers, Holder, TypeOK, Sessions, Users
  <2> QED
    BY <1>2, <2>1, <2>2 DEF Drop
<1>3. ASSUME UNCHANGED user, token[s] = "live", Holder(s)' = Holder(s)
      PROVE  user'[Holder(s)'] = "active"
  BY <1>3 DEF SessionInv, SessionsAreMembers
<1>4. ASSUME NEW a \in Accounts, SignupStep(a)
      PROVE  user'[Holder(s)'] = "active"
  <2>1. UNCHANGED who /\ Holder(s)' = Holder(s)
    BY <1>4 DEF SignupStep, CreateAccount, CreateOwner, Undo, RegisterSite, SaveSetup, AnswerSignup,
                Disconnect, FillOwner, Holder
  <2>2. CASE Undo(a)
    <3>1. CASE Drop(Members(a))
      BY <1>2, <2>1, <3>1
    <3>2. CASE UNCHANGED <<user, token>>
      BY <1>3, <2>1, <3>2
    <3> QED
      BY <2>2, <3>1, <3>2 DEF Undo
  <2>3. CASE AnswerSignup(a) /\ s = a
    BY <2>1, <2>3 DEF AnswerSignup, Holder, TeamInv, Signups
  <2>4. CASE AnswerSignup(a) /\ s # a
    BY <1>3, <2>1, <2>4 DEF AnswerSignup, TypeOK
  <2>5. CASE CreateOwner(a)
    BY <1>1, <2>1, <2>5 DEF CreateOwner, TypeOK
  <2>6. CASE FillOwner(a)
    BY <1>1, <2>1, <2>6 DEF FillOwner, TypeOK
  <2>7. CASE UNCHANGED <<user, token>>
    BY <1>3, <2>1, <2>7
  <2> QED
    BY <1>4, <2>2, <2>3, <2>4, <2>5, <2>6, <2>7
    DEF SignupStep, CreateAccount, RegisterSite, SaveSetup, Disconnect
<1>5. ASSUME NEW q \in Logins, LoginStep(q)
      PROVE  user'[Holder(s)'] = "active"
  <2>1. CASE s = q /\ Issue(q)
    BY <2>1, NamesAssumption DEF Issue, Holder, Exists, SessionInv, LoginsKnow, TypeOK
  <2>2. CASE token[s] = "live"
    <3>1. Holder(s)' = Holder(s)
      <4>1. s = q => lpc[q] = "done"
        BY <2>2 DEF SessionInv, LoginsKnow
      <4> QED
        BY <1>5, <4>1 DEF LoginStep, Login, AcceptInvite, Refresh, SetPassword, ReadMember, ReadUser, Rotate,
                          Issue, Holder, TypeOK, Sessions
    <3>2. \A u \in Users : user[u] = "active" => user'[u] = "active"
      BY <1>5 DEF LoginStep, Login, AcceptInvite, Refresh, SetPassword, ReadMember, ReadUser, Rotate, Issue,
                  Exists, TypeOK
    <3> QED
      BY <1>1, <2>2, <3>1, <3>2
  <2>3. token[s] # "live" => s = q /\ Issue(q)
    BY <1>5 DEF LoginStep, Login, AcceptInvite, Refresh, SetPassword, ReadMember, ReadUser, Rotate, Revoke,
                Issue, TypeOK
  <2> QED
    BY <2>1, <2>2, <2>3
<1>6. ASSUME NEW t \in Sessions, SessionStep(t)
      PROVE  user'[Holder(s)'] = "active"
  <2>1. token[s] = "live" /\ Holder(s)' = Holder(s)
    BY <1>6 DEF SessionStep, Logout, AccessExpires, InviteUser, Manage, Revoke, Holder, TypeOK
  <2>2. \A u \in Users : user[u] = "active" => user'[u] = "active"
    BY <1>6 DEF SessionStep, Logout, AccessExpires, InviteUser, Manage, TypeOK
  <2> QED
    BY <1>1, <2>1, <2>2
<1>7. ASSUME NEW m \in Managers, WriteMember(m)
      PROVE  user'[Holder(s)'] = "active"
  <2>1. CASE Drop({on[m]})
    BY <1>2, <1>7, <2>1 DEF WriteMember
  <2>2. CASE UNCHANGED <<user, token>>
    BY <1>3, <1>7, <2>2 DEF WriteMember, Holder
  <2> QED
    BY <1>7, <2>1, <2>2 DEF WriteMember
<1>8. CASE ReadUnowned \/ Serve \/ Restart \/ UNCHANGED vars
  BY <1>3, <1>8 DEF ReadUnowned, Serve, Restart, Holder
<1> QED
  BY <1>4, <1>5, <1>6, <1>7, <1>8 DEF Next

\* Only members with a password hold a session (Login, AcceptInvite, Refresh,
\* and the cascade of DeleteUser).
THEOREM SessionsHeldByMembers == Spec => []SessionsAreMembers
<1>1. TypeOK /\ TypeOK' /\ TeamInv /\ TeamInv' /\ SessionInv /\ [Next]_vars => SessionInv'
  BY LoginsStep, SessionsStep DEF SessionInv
<1>2. SessionInv => SessionsAreMembers
  BY DEF SessionInv
<1> QED
  BY <1>1, <1>2, SessionInit, TypeCorrect, TeamInvariant, PTL DEF Spec

-----------------------------------------------------------------------------
(* Team implements Roster. *)

Teams == [a \in Accounts |-> Members(a)]

\* A user who comes to an account, or leaves it, is the only change to the teams.
LEMMA TeamsUnchanged ==
  ASSUME \A u \in Users : (Exists(u)' <=> Exists(u)) /\ Home(u)' = Home(u)
  PROVE  Teams' = Teams
BY DEF Teams, Members

\* An account gets its owner: Found.
LEMMA OwnerFound ==
  ASSUME TypeOK, TeamInv, NEW a \in acct, user[a] = "none",
         UNCHANGED <<home, answered>>, user' = [user EXCEPT ![a] = "active"]
  PROVE  R!Found(a)
<1>1. a \in Accounts /\ a \in Users
  BY DEF TypeOK, Users
<1>2. Members(a) = {}
  BY DEF Members, TeamInv, Keys
<1>3. \A b \in Accounts : Members(b)' = IF b = a THEN {a} ELSE Members(b)
  <2>1. ASSUME NEW u \in Users PROVE Exists(u)' <=> u = a \/ Exists(u)
    BY <1>1 DEF Exists, TypeOK
  <2>2. ASSUME NEW u \in Users PROVE Home(u)' = Home(u)
    BY DEF Home
  <2> QED
    BY <1>1, <1>2, <2>1, <2>2 DEF Members, Home
<1> QED
  BY <1>1, <1>2, <1>3 DEF R!Found

\* Each step is one of Roster's, or none.
LEMMA RosterStep ==
  TypeOK /\ TeamInv /\ [Next]_vars => [R!Next]_<<Teams, answered>>
<1> SUFFICES ASSUME TypeOK, TeamInv, [Next]_vars PROVE R!Next \/ UNCHANGED <<Teams, answered>>
  BY DEF Teams
<1> USE DEF vars, bootVars, signupVars, loginVars, sessionVars, rowVars, inviteVars, managerVars,
            faultVars, NoRowChange
<1>1. CASE UNCHANGED <<user, home, answered>>
  BY <1>1, TeamsUnchanged DEF Exists, Home
<1>2. ASSUME NEW a \in Accounts, SignupStep(a) PROVE R!Next \/ UNCHANGED <<Teams, answered>>
  <2>1. CASE CreateOwner(a)
    <3>1. CASE user' = [user EXCEPT ![a] = "active"]
      BY <2>1, <3>1, OwnerFound DEF CreateOwner, TeamInv, Signups, InFlight, R!Next
    <3> QED
      BY <1>1, <2>1, <3>1 DEF CreateOwner
  <2>2. CASE FillOwner(a)
    <3>1. CASE user' = [user EXCEPT ![a] = "active"]
      BY <2>2, <3>1, OwnerFound DEF FillOwner, TeamInv, Filling, R!Next
    <3> QED
      BY <1>1, <2>2, <3>1 DEF FillOwner
  <2>3. CASE Undo(a)
    <3>1. CASE Drop(Members(a))
      <4>1. \A b \in Accounts : Members(b)' = IF b = a THEN {} ELSE Members(b)
        BY <2>3, <3>1 DEF Undo, Drop, Members, Exists, Home, TypeOK
      <4>2. a \notin answered /\ UNCHANGED answered
        BY <2>3 DEF Undo, TeamInv, Signups, InFlight
      <4>3. R!Dissolve(a)
        BY <4>1, <4>2 DEF R!Dissolve
      <4> QED
        BY <4>3 DEF R!Next
    <3> QED
      BY <1>1, <2>3, <3>1 DEF Undo
  <2>4. CASE AnswerSignup(a)
    <3>1. CASE answered' = answered \cup {a}
      <4>1. a \in Members(a)
        BY <2>4 DEF AnswerSignup, TeamInv, Signups, Members, Exists, Home, Users
      <4>2. Teams' = Teams
        BY <2>4, TeamsUnchanged DEF AnswerSignup, Exists, Home
      <4>3. R!Announce(a)
        BY <3>1, <4>1, <4>2 DEF R!Announce, Teams
      <4> QED
        BY <4>3 DEF R!Next
    <3> QED
      BY <1>1, <2>4, <3>1 DEF AnswerSignup
  <2>5. CASE RegisterSite(a) \/ SaveSetup(a) \/ Disconnect(a)
    BY <1>1, <2>5 DEF RegisterSite, SaveSetup, Disconnect
  <2>6. ASSUME NEW e \in Emails, CreateAccount(a, e) PROVE R!Next \/ UNCHANGED <<Teams, answered>>
    BY <1>1, <2>6 DEF CreateAccount
  <2> QED
    BY <1>2, <2>1, <2>2, <2>3, <2>4, <2>5, <2>6 DEF SignupStep
<1>3. ASSUME NEW q \in Logins, LoginStep(q) PROVE UNCHANGED <<Teams, answered>>
  <2>1. UNCHANGED <<home, answered>> /\ \A u \in Users : Exists(u)' <=> Exists(u)
    BY <1>3 DEF LoginStep, Login, AcceptInvite, Refresh, SetPassword, ReadMember, ReadUser, Rotate, Issue,
                Exists, TypeOK
  <2> QED
    BY <2>1, TeamsUnchanged DEF Home
<1>4. ASSUME NEW s \in Sessions, SessionStep(s) PROVE R!Next \/ UNCHANGED <<Teams, answered>>
  <2>1. ASSUME NEW i \in Invites, NEW e \in Emails, NEW r \in Roles, InviteUser(i, s, e, r)
        PROVE  R!Next
    <3> DEFINE a == Home(Holder(s))
    <3>1. a \in Accounts /\ a \in Members(a)
      BY <2>1 DEF InviteUser, TeamInv, Keys, Members, Exists, Home, Holder, TypeOK, Sessions, Users
    <3>2. \A b \in Accounts : i \notin Members(b)
      BY <2>1 DEF InviteUser, Members, Exists
    <3>3. ASSUME NEW u \in Users
          PROVE  /\ Exists(u)' <=> u = i \/ Exists(u)
                 /\ Home(u)' = IF u = i THEN a ELSE Home(u)
      BY <2>1, NamesAssumption DEF InviteUser, Exists, Home, TypeOK, Users
    <3>4. \A b \in Accounts : Members(b)' = IF b = a THEN Members(a) \cup {i} ELSE Members(b)
      BY <3>2, <3>3, <2>1 DEF Members, InviteUser, Users, Exists
    <3>5. R!Join(a, i)
      BY <2>1, <3>1, <3>2, <3>4 DEF R!Join, InviteUser
    <3> QED
      BY <3>1, <3>5 DEF R!Next
  <2>2. CASE Logout(s) \/ AccessExpires(s)
    BY <1>1, <2>2 DEF Logout, AccessExpires
  <2>3. ASSUME NEW m \in Managers, NEW u \in Users, NEW what \in Roles \cup {"remove"},
               Manage(m, s, u, what)
        PROVE  UNCHANGED <<Teams, answered>>
    BY <1>1, <2>3, TeamsUnchanged DEF Manage, Exists, Home
  <2> QED
    BY <1>4, <2>1, <2>2, <2>3 DEF SessionStep
<1>5. ASSUME NEW m \in Managers, WriteMember(m) PROVE R!Next \/ UNCHANGED <<Teams, answered>>
  <2>1. CASE Drop({on[m]})
    <3> DEFINE i == on[m]  a == Home(i)
    <3>1. i \in Invites /\ i \in Users /\ a \in Accounts
      BY <1>5, NamesAssumption DEF WriteMember, TeamInv, Managed, Home, TypeOK, Users
    <3>2. ASSUME NEW u \in Users
          PROVE  (Exists(u)' <=> Exists(u) /\ u # i) /\ Home(u)' = Home(u)
      BY <1>5, <2>1 DEF WriteMember, Drop, Exists, Home, TypeOK
    <3>3. \A b \in Accounts : Members(b)' = IF b = a THEN Members(a) \ {i} ELSE Members(b)
      BY <3>2 DEF Members
    <3>4. R!Leave(a, i)
      BY <1>5, <3>1, <3>3 DEF R!Leave, WriteMember
    <3> QED
      BY <3>1, <3>4 DEF R!Next
  <2>2. CASE UNCHANGED user
    BY <1>1, <1>5, <2>2 DEF WriteMember
  <2> QED
    BY <1>5, <2>1, <2>2 DEF WriteMember
<1>6. CASE ReadUnowned \/ Serve \/ Restart \/ UNCHANGED vars
  BY <1>1, <1>6 DEF ReadUnowned, Serve, Restart
<1> QED
  BY <1>2, <1>3, <1>4, <1>5, <1>6 DEF Next

\* Nobody belongs to a team at first.
LEMMA RosterInit == Init => R!Init
BY DEF Init, R!Init, Members, Exists

\* Whatever requests, failures and restarts do, the teams behave as Roster says.
THEOREM TeamImplementsRoster == Spec => ImplementsRoster
<1>1. TypeOK /\ TeamInv /\ [Next]_vars => [R!Next]_<<Teams, answered>>
  BY RosterStep
<1> QED
  BY <1>1, RosterInit, TypeCorrect, TeamInvariant, PTL
  DEF Spec, ImplementsRoster, R!Spec, R!rvars, Teams
=============================================================================
