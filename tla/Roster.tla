------------------------------- MODULE Roster -------------------------------
(***************************************************************************)
(* What accounts and teams promise, without requests, sessions or restarts: *)
(* a team exists only around its owner, people join and leave it, and once *)
(* its signup has been answered with success it is never dissolved.        *)
(*                                                                         *)
(* The owner of an account is named by the account.                        *)
(***************************************************************************)
CONSTANTS Accounts, Invites

VARIABLES
  members,   \* the users of each account
  announced  \* accounts whose signup was answered with success

rvars == <<members, announced>>

\* Signup, or the repair at start, gives an account its owner.
Found(a) ==
  /\ members[a] = {}
  /\ members' = [members EXCEPT ![a] = {a}]
  /\ UNCHANGED announced

Announce(a) ==
  /\ a \in members[a]
  /\ announced' = announced \cup {a}
  /\ UNCHANGED members

Join(a, u) ==
  /\ a \in members[a]
  /\ \A b \in Accounts : u \notin members[b]
  /\ members' = [members EXCEPT ![a] = @ \cup {u}]
  /\ UNCHANGED announced

Leave(a, u) ==
  /\ members' = [members EXCEPT ![a] = @ \ {u}]
  /\ UNCHANGED announced

\* A signup that fails after its owner was created takes everybody with it.
Dissolve(a) ==
  /\ a \notin announced
  /\ members' = [members EXCEPT ![a] = {}]
  /\ UNCHANGED announced

Init ==
  /\ members = [a \in Accounts |-> {}]
  /\ announced = {}

Next ==
  \E a \in Accounts :
    \/ Found(a) \/ Announce(a) \/ Dissolve(a)
    \/ \E u \in Invites : Join(a, u) \/ Leave(a, u)

Spec == Init /\ [][Next]_rvars
=============================================================================
