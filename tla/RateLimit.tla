------------------------------ MODULE RateLimit ------------------------------
(***************************************************************************)
(* The fixed-window limits of the public endpoints (LoginRateLimit and     *)
(* RateLimit): INCR a counter of Redis, EXPIRE it when it is the first,    *)
(* refuse above the maximum, let through when INCR fails.  The client      *)
(* library sends an INCR again when the connection breaks before its       *)
(* reply, whether Redis had applied it or not.                             *)
(***************************************************************************)
EXTENDS Redis

CONSTANTS
  Attempts,  \* requests being served
  Keys,      \* counters: a route, an IP and, at login, an email
  Max,       \* requests a window admits
  Window     \* ticks a counter lives

ASSUME LimitAssumption == Max \in Nat \ {0} /\ Window \in Nat \ {0}

VARIABLES
  counter,  \* Redis: [n, ttl] per key, n = 0 without it, ttl = 0 while it never expires
  attempt   \* the requests

limitVars == <<counter, attempt>>

\* All numbers above Max refuse alike: Max + 1 stands for them.
Counter == [n : 0 .. Max + 1, ttl : 0 .. Window]
NoKey   == [n |-> 0, ttl |-> 0]
Attempt == [pc : {"idle", "incr", "expire"}, key : Keys \cup {"none"}]
Idle    == [pc |-> "idle", key |-> "none"]

LimitTypeOK ==
  /\ counter \in [Keys -> Counter]
  /\ attempt \in [Attempts -> Attempt]
  /\ \A a \in Attempts : attempt[a].pc # "idle" => attempt[a].key \in Keys

LimitInit ==
  /\ counter = [k \in Keys |-> NoKey]
  /\ attempt = [a \in Attempts |-> Idle]

Bumped(k) == [counter[k] EXCEPT !.n = IF @ <= Max THEN @ + 1 ELSE @]

-----------------------------------------------------------------------------

Arrive(a, k) ==
  /\ attempt[a].pc = "idle"
  /\ attempt' = [attempt EXCEPT ![a] = [pc |-> "incr", key |-> k]]
  /\ UNCHANGED counter

FirstOrLast(count) == count = Max
AnyCount(count)    == count > 0
First(count)       == count = 1

Refuses(count) == count > Max

\* INCR: only the first one has an EXPIRE to send.  Above Max the answer is
\* 429, else the endpoint's; no state here depends on it.
Incr(a) ==
  /\ attempt[a].pc = "incr" /\ up
  /\ LET k == attempt[a].key
     IN /\ counter' = [counter EXCEPT ![k] = Bumped(k)]
        /\ attempt' = [attempt EXCEPT ![a] =
                         IF First(Bumped(k).n) THEN [@ EXCEPT !.pc = "expire"] ELSE Idle]

\* Redis applied it and the connection broke: the library sends it again.
LoseReply(a) ==
  /\ attempt[a].pc = "incr" /\ up
  /\ counter' = [counter EXCEPT ![attempt[a].key] = Bumped(attempt[a].key)]
  /\ UNCHANGED attempt

\* No Redis, or no time left for another try: fail open.
FailOpen(a) ==
  /\ attempt[a].pc = "incr"
  /\ attempt' = [attempt EXCEPT ![a] = Idle]
  /\ UNCHANGED counter

\* EXPIRE, which does nothing to a key that is not there.
Expire(a) ==
  /\ attempt[a].pc = "expire" /\ up
  /\ counter' = [counter EXCEPT ![attempt[a].key] = IF @.n = 0 THEN @ ELSE [@ EXCEPT !.ttl = Window]]
  /\ attempt' = [attempt EXCEPT ![a] = Idle]

\* Nobody looks at the error of an EXPIRE that failed or ran out of time.
LoseExpire(a) ==
  /\ attempt[a].pc = "expire"
  /\ attempt' = [attempt EXCEPT ![a] = Idle]
  /\ UNCHANGED counter

\* The process ends with its requests; Redis keeps its keys.
LimitRestart ==
  /\ attempt' = [a \in Attempts |-> Idle]
  /\ UNCHANGED counter

LimitTick ==
  /\ counter' = [k \in Keys |-> IF counter[k].ttl = 1 THEN NoKey ELSE [counter[k] EXCEPT !.ttl = Left(@)]]
  /\ UNCHANGED attempt

Decide(a) == Incr(a) \/ FailOpen(a) \/ Expire(a) \/ LoseExpire(a)
Serve(a)  == Decide(a) \/ LoseReply(a) \/ \E k \in Keys : Arrive(a, k)

-----------------------------------------------------------------------------

\* A counter that nobody will make expire.
Forever(k) ==
  /\ counter[k].n > 0 /\ counter[k].ttl = 0
  /\ \A a \in Attempts : ~(attempt[a].pc = "expire" /\ attempt[a].key = k)

\* A counter is left without an expiry, refusing for ever once it is full, only
\* by a lost reply of INCR, a lost EXPIRE or a restart between the two; however
\* requests overlap, the first one else always sets it.
ForeverNeedsALoss ==
  [][\A k \in Keys : Forever(k)' /\ ~Forever(k) =>
       LimitRestart \/ \E a \in Attempts : LoseReply(a) \/ LoseExpire(a)]_limitVars

\* Whoever is refused is admitted again when the window ends, however many
\* requests keep coming meanwhile, unless the counter lost its expiry.
Reopens == \A k \in Keys : Refuses(counter[k].n) ~> (counter[k].n = 0 \/ Forever(k))
=============================================================================
