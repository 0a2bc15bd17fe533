------------------------------ MODULE Matching ------------------------------
(***************************************************************************)
(* Which Creator gets a piece of work, while Creators come and go, deliver *)
(* on time or late, and keep what was assigned to them.                    *)
(*                                                                         *)
(* A score is kept as an exact fraction, of Exact and 400 * (delivered +  *)
(* 2), and compared to the nearest hundredth as the code does.             *)
(***************************************************************************)
EXTENDS Integers, FiniteSets

CONSTANTS
  Creators,
  Abilities,      \* sets of skills; a generalist has none
  Work,           \* skills that work needs
  Availabilities, \* ten times the score of a presence: 1, 5, 7 or 10
  MaxOpen,        \* bound on the tasks a Creator holds
  MaxDelivered    \* bound on the tasks delivered

ASSUME MatchingAssumption ==
  Availabilities \subseteq 1 .. 10 /\ MaxOpen \in Nat /\ MaxDelivered \in Nat

VARIABLES
  creator,  \* the row Candidates reads for each Creator, for one account
  chosen    \* who was picked for a task that is not inserted yet

matchingVars == <<creator, chosen>>

Row == [skills : Abilities, available : Availabilities, open : 0 .. MaxOpen,
        delivered : 0 .. MaxDelivered, onTime : 0 .. MaxDelivered, knows : BOOLEAN]

\* Ten times the score of a skill, and eight times that of a load.
Skill(c, skill) == IF creator[c].skills = {} THEN 4 ELSE IF skill \in creator[c].skills THEN 10 ELSE 0
Load(c) == IF creator[c].open >= 4 THEN 8 ELSE 2 * creator[c].open

\* 3 skill + 1.5 availability - 1.5 load + reliability + familiarity, times
\* 400 * (delivered + 2).
Exact(c, skill) ==
  LET r == creator[c]
  IN  (r.delivered + 2) * (120 * Skill(c, skill) + 60 * r.available - 75 * Load(c) + (IF r.knows THEN 400 ELSE 0))
      + 400 * (r.onTime + 1)

\* math.Round to the nearest hundredth, halves away from zero.
Score(c, skill) ==
  LET n == Exact(c, skill)
      d == 4 * (creator[c].delivered + 2)
  IN  IF n >= 0 THEN (2 * n + d) \div (2 * d) ELSE -((d - 2 * n) \div (2 * d))

BetterScore(c, d, skill) == Score(c, skill) > Score(d, skill)

\* Ties go to the Creator with fewer open tasks; who comes first among equals
\* is up to the order of the query, which has none.
Better(c, d, skill) ==
  \/ Score(c, skill) > Score(d, skill)
  \/ Score(c, skill) = Score(d, skill) /\ creator[c].open < creator[d].open

Pick(skill) == {c \in Creators : \A d \in Creators : ~Better(d, c, skill)}

MatchingInit ==
  /\ creator \in [Creators -> {r \in Row : r.available = 10 /\ r.open = 0 /\ r.delivered = 0 /\ r.onTime = 0 /\ ~r.knows}]
  /\ chosen = "none"

Assign(c, skill) ==
  /\ chosen = "none" /\ c \in Pick(skill)
  /\ chosen' = c
  /\ UNCHANGED creator

\* The caller's insert, after whatever happened since; or it fails.
File(c) ==
  /\ chosen = c /\ creator[c].open < MaxOpen
  /\ creator' = [creator EXCEPT ![c].open = @ + 1, ![c].knows = TRUE]
  /\ chosen' = "none"

Lose == chosen' = "none" /\ UNCHANGED creator

\* A Creator delivers a task, in time or late.
Deliver(c, intime) ==
  /\ creator[c].open > 0 /\ creator[c].delivered < MaxDelivered
  /\ creator' = [creator EXCEPT ![c].open = @ - 1, ![c].delivered = @ + 1, ![c].onTime = @ + intime]
  /\ UNCHANGED chosen

\* A heartbeat, a status set in the dashboard, or time without either.
Show(c, a) ==
  /\ creator' = [creator EXCEPT ![c].available = a]
  /\ UNCHANGED chosen

\* Another account's work.
Take(c) ==
  /\ creator[c].open < MaxOpen
  /\ creator' = [creator EXCEPT ![c].open = @ + 1]
  /\ UNCHANGED chosen

MatchingNext ==
  \/ Lose
  \/ \E c \in Creators :
       \/ \E skill \in Work : Assign(c, skill)
       \/ \E intime \in 0 .. 1 : Deliver(c, intime)
       \/ \E a \in Availabilities : Show(c, a)
       \/ File(c) \/ Take(c)

-----------------------------------------------------------------------------

\* d is as good as c for the work, but for its load and what it knows.
AsGood(d, c, skill) ==
  /\ Skill(d, skill) >= Skill(c, skill)
  /\ creator[d].available >= creator[c].available
  /\ (creator[d].onTime + 1) * (creator[c].delivered + 2) >= (creator[c].onTime + 1) * (creator[d].delivered + 2)

\* Of two Creators as good for the work the busier one is never picked; and
\* who knows the customer is not picked either over one with at most one task
\* who has three less.
PickSparesTheBusier ==
  [][\A c, d \in Creators, skill \in Work :
       Assign(c, skill) /\ AsGood(d, c, skill) =>
         /\ (creator[c].knows => creator[d].knows) => creator[c].open <= creator[d].open
         /\ creator[d].open <= 1 => creator[c].open <= creator[d].open + 2]_matchingVars
=============================================================================
