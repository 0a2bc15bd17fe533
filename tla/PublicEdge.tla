----------------------------- MODULE PublicEdge ------------------------------
(***************************************************************************)
(* The public endpoints of one API process: its rate limits and its cached *)
(* progress, over one Redis and one clock.  Redis may be out of reach at   *)
(* any time and the process may restart at any time.                       *)
(***************************************************************************)
EXTENDS RateLimit, ProgressCache

vars == <<up, counter, attempt, fresh, stale, holder, visit>>

TypeOK == up \in BOOLEAN /\ LimitTypeOK /\ CacheTypeOK

Init == up = TRUE /\ LimitInit /\ CacheInit

Limits == \E a \in Attempts : Serve(a) /\ UNCHANGED up /\ UNCHANGED cacheVars

Progress == \E v \in Visits : Turn(v) /\ UNCHANGED up /\ UNCHANGED limitVars

Network == (Outage \/ Recovery) /\ UNCHANGED limitVars /\ UNCHANGED cacheVars

Restart == LimitRestart /\ CacheRestart /\ UNCHANGED up

Tick == LimitTick /\ CacheTick /\ UNCHANGED up

Next == Limits \/ Progress \/ Network \/ Restart \/ Tick

\* Time passes; a command is answered or times out; a goroutine is scheduled;
\* Go's mutex hands itself to its oldest waiter after a millisecond.
Fairness ==
  /\ WF_vars(Tick)
  /\ \A a \in Attempts : WF_vars(Decide(a) /\ UNCHANGED up /\ UNCHANGED cacheVars)
  /\ \A v \in Visits : /\ WF_vars(Work(v) /\ UNCHANGED up /\ UNCHANGED limitVars)
                       /\ SF_vars(Lock(v) /\ UNCHANGED up /\ UNCHANGED limitVars)

Spec == Init /\ [][Next]_vars /\ Fairness
=============================================================================
