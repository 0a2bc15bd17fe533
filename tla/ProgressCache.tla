---------------------------- MODULE ProgressCache ----------------------------
(***************************************************************************)
(* GET /progress: the merged progress of the repositories, kept in Redis   *)
(* for a while and, longer, as the copy shown when GitHub fails.  One      *)
(* request at a time asks GitHub, under a mutex that does not know of the  *)
(* twenty-five seconds each request has; every Redis command and every     *)
(* call to GitHub of a request out of time fails.  Of a copy, only its     *)
(* time to live is modelled.                                               *)
(***************************************************************************)
EXTENDS Redis

CONSTANTS
  Visits,    \* requests being served
  FreshFor,  \* ticks a copy is served without asking GitHub
  StaleFor   \* ticks it is kept for when GitHub fails

ASSUME CacheAssumption ==
  FreshFor \in Nat \ {0} /\ StaleFor \in Nat /\ FreshFor < StaleFor

\* "none" holds the mutex when nobody does.
ASSUME NobodyAssumption == "none" \notin Visits

VARIABLES
  fresh,   \* Redis: what cache:progress has left to live, 0 without it
  stale,   \* Redis: the same of cache:progress:stale
  holder,  \* who holds progressFetch
  visit    \* the requests

cacheVars == <<fresh, stale, holder, visit>>

\* late: its context ended.  blind: history, its last look at the cache failed.
Visit == [pc : {"none", "lock", "look", "fetch", "store", "keep", "fallback", "error"},
          late : BOOLEAN, blind : BOOLEAN]
Gone  == [pc |-> "none", late |-> FALSE, blind |-> FALSE]

CacheTypeOK ==
  /\ fresh \in 0 .. FreshFor /\ stale \in 0 .. StaleFor
  /\ holder \in Visits \cup {"none"}
  /\ visit \in [Visits -> Visit]

CacheInit ==
  /\ fresh = 0 /\ stale = 0 /\ holder = "none"
  /\ visit = [v \in Visits |-> Gone]

Reads(v) == up /\ ~visit[v].late

Goes(v, label) == visit' = [visit EXCEPT ![v].pc = label]
Leaves(v) == visit' = [visit EXCEPT ![v] = Gone] /\ holder' = "none"

-----------------------------------------------------------------------------

\* progressCached before the mutex.
Come(v) ==
  /\ visit[v].pc = "none"
  /\ IF up /\ fresh > 0 THEN UNCHANGED visit ELSE Goes(v, "lock")
  /\ UNCHANGED <<fresh, stale, holder>>

Lock(v) ==
  /\ visit[v].pc = "lock" /\ holder = "none"
  /\ holder' = v
  /\ Goes(v, "look")
  /\ UNCHANGED <<fresh, stale>>

LookNot(v) ==
  /\ visit[v].pc = "look"
  /\ Goes(v, "fetch")
  /\ UNCHANGED <<fresh, stale, holder>>

\* progressCached again, for what another request stored meanwhile.
Look(v) ==
  /\ visit[v].pc = "look"
  /\ IF Reads(v) /\ fresh > 0 THEN Leaves(v)
     ELSE /\ visit' = [visit EXCEPT ![v].pc = "fetch", ![v].blind = ~Reads(v)]
          /\ UNCHANGED holder
  /\ UNCHANGED <<fresh, stale>>

\* Fetch has an error only when no repository could be read.
Fetch(v) ==
  /\ visit[v].pc = "fetch"
  /\ \/ ~visit[v].late /\ Goes(v, "store")
     \/ Goes(v, "fallback")
  /\ UNCHANGED <<fresh, stale, holder>>

\* progressStore: two SETs, whose errors nobody looks at.
Store(v) ==
  /\ visit[v].pc = "store"
  /\ fresh' = IF Reads(v) THEN FreshFor ELSE fresh
  /\ Goes(v, "keep")
  /\ UNCHANGED <<stale, holder>>

Keep(v) ==
  /\ visit[v].pc = "keep"
  /\ stale' = IF Reads(v) THEN StaleFor ELSE stale
  /\ Leaves(v)
  /\ UNCHANGED fresh

FallbackHeld(v) ==
  /\ visit[v].pc = "fallback"
  /\ IF Reads(v) /\ stale > 0 THEN Leaves(v)
     ELSE visit' = [visit EXCEPT ![v] = [Gone EXCEPT !.pc = "error"]] /\ UNCHANGED holder
  /\ UNCHANGED <<fresh, stale>>

\* GitHub failed: the last good copy, or a 503.
Fallback(v) ==
  /\ visit[v].pc = "fallback"
  /\ IF Reads(v) /\ stale > 0 THEN Leaves(v)
     ELSE visit' = [visit EXCEPT ![v] = [Gone EXCEPT !.pc = "error"]] /\ holder' = "none"
  /\ UNCHANGED <<fresh, stale>>

\* The answer is sent; the next visit may come.
Answer(v) ==
  /\ visit[v].pc = "error"
  /\ Goes(v, "none")
  /\ UNCHANGED <<fresh, stale, holder>>

\* Its twenty-five seconds end, wherever it is.
RunLate(v) ==
  /\ visit[v].pc \notin {"none", "error"} /\ ~visit[v].late
  /\ visit' = [visit EXCEPT ![v].late = TRUE]
  /\ UNCHANGED <<fresh, stale, holder>>

CacheRestart ==
  /\ visit' = [v \in Visits |-> Gone] /\ holder' = "none"
  /\ UNCHANGED <<fresh, stale>>

CacheTick ==
  /\ fresh' = Left(fresh) /\ stale' = Left(stale)
  /\ UNCHANGED <<holder, visit>>

Work(v) == Look(v) \/ Fetch(v) \/ Store(v) \/ Keep(v) \/ Fallback(v) \/ Answer(v)
Turn(v) == Come(v) \/ Lock(v) \/ Work(v) \/ RunLate(v)

-----------------------------------------------------------------------------

\* GitHub is asked only while no copy is fresh, unless the request could not
\* look: of the visitors who found none at the same time, one asks and the
\* others show what it stored.
AsksOnlyWhenStale ==
  \A v \in Visits : visit[v].pc = "fetch" /\ ~visit[v].blind => fresh = 0

\* Whoever waits for the mutex gets it and is answered, whatever fails.
EveryVisitAnswered == \A v \in Visits : visit[v].pc = "lock" ~> visit[v].pc \in {"none", "error"}
=============================================================================
