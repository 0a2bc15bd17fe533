-------------------------- MODULE PublicEdgeProofs ---------------------------
(***************************************************************************)
(* Proofs about the public endpoints, for any number of requests, keys and *)
(* visits, any limit and any times to live.  That GitHub is asked only     *)
(* while no copy is fresh rests on the mutex: whoever is past it holds it, *)
(* so nobody else can store a copy meanwhile.                              *)
(***************************************************************************)
EXTENDS PublicEdge, TLAPS

Inside == {"look", "fetch", "store", "keep", "fallback"}

Holds == \A v \in Visits : visit[v].pc \in Inside => holder = v

IInv == TypeOK /\ Holds /\ AsksOnlyWhenStale

LEMMA InitIInv == Init => IInv
BY LimitAssumption, CacheAssumption
   DEF Init, LimitInit, CacheInit, IInv, TypeOK, LimitTypeOK, CacheTypeOK, Counter, NoKey, Attempt,
       Idle, Visit, Gone, Holds, Inside, AsksOnlyWhenStale

\* The limits keep their types.
LEMMA LimitSteps ==
  ASSUME LimitTypeOK, (\E a \in Attempts : Serve(a)) \/ LimitRestart \/ LimitTick
  PROVE  LimitTypeOK'
<1> USE LimitAssumption DEF LimitTypeOK, Counter, NoKey, Attempt, Idle
<1>b. ASSUME NEW k \in Keys PROVE Bumped(k) \in Counter
  BY DEF Bumped
<1>1. ASSUME NEW a \in Attempts, NEW k \in Keys, Arrive(a, k) PROVE LimitTypeOK'
  BY <1>1 DEF Arrive
<1>2. ASSUME NEW a \in Attempts, Incr(a) PROVE LimitTypeOK'
  <2>1. attempt[a].key \in Keys
    BY <1>2 DEF Incr
  <2>2. counter' \in [Keys -> Counter]
    BY <1>2, <1>b, <2>1 DEF Incr
  <2> QED
    BY <1>2, <2>1, <2>2 DEF Incr
<1>3. ASSUME NEW a \in Attempts, LoseReply(a) PROVE LimitTypeOK'
  <2>1. attempt[a].key \in Keys
    BY <1>3 DEF LoseReply
  <2> QED
    BY <1>3, <1>b, <2>1 DEF LoseReply
<1>4. ASSUME NEW a \in Attempts, FailOpen(a) \/ LoseExpire(a) PROVE LimitTypeOK'
  BY <1>4 DEF FailOpen, LoseExpire
<1>5. ASSUME NEW a \in Attempts, Expire(a) PROVE LimitTypeOK'
  <2>1. attempt[a].key \in Keys
    BY <1>5 DEF Expire
  <2>2. [counter[attempt[a].key] EXCEPT !.ttl = Window] \in Counter
    BY <2>1
  <2> QED
    BY <1>5, <2>1, <2>2 DEF Expire
<1>6. CASE LimitRestart
  BY <1>6 DEF LimitRestart
<1>7. CASE LimitTick
  <2>1. ASSUME NEW k \in Keys PROVE [counter[k] EXCEPT !.ttl = Left(@)] \in Counter
    BY DEF Left
  <2> QED
    BY <1>7, <2>1 DEF LimitTick
<1> QED
  BY <1>1, <1>2, <1>3, <1>4, <1>5, <1>6, <1>7 DEF Serve, Decide

CacheInv == CacheTypeOK /\ Holds /\ AsksOnlyWhenStale

\* The cache keeps its types, its mutex and what a question to GitHub needs.
LEMMA CacheSteps ==
  ASSUME CacheInv, up \in BOOLEAN, (\E v \in Visits : Turn(v)) \/ CacheRestart \/ CacheTick
  PROVE  CacheInv'
<1> USE CacheAssumption, NobodyAssumption
        DEF CacheInv, CacheTypeOK, Visit, Gone, Holds, Inside, AsksOnlyWhenStale, Goes, Leaves, Reads
<1>l. ASSUME NEW v \in Visits, NEW g \in Visit, g.pc \in {"none", "error"}, visit[v].pc \in Inside,
             visit' = [visit EXCEPT ![v] = g], holder' = "none",
             fresh' = fresh, stale' \in 0 .. StaleFor
      PROVE CacheInv'
  <2>1. \A w \in Visits : w # v => visit[w].pc \notin Inside /\ visit'[w] = visit[w]
    BY <1>l
  <2>2. visit'[v] = g /\ visit' \in [Visits -> Visit]
    BY <1>l
  <2>3. \A w \in Visits : visit'[w].pc \notin Inside
    BY <1>l, <2>1, <2>2
  <2> QED
    BY <1>l, <2>2, <2>3
<1>g. Gone \in Visit /\ [Gone EXCEPT !.pc = "error"] \in Visit
  OBVIOUS
<1>1. ASSUME NEW v \in Visits, Come(v) PROVE CacheInv'
  BY <1>1 DEF Come
<1>2. ASSUME NEW v \in Visits, Lock(v) PROVE CacheInv'
  BY <1>2 DEF Lock
<1>3. ASSUME NEW v \in Visits, Look(v) PROVE CacheInv'
  <2>1. CASE Reads(v) /\ fresh > 0
    BY <1>3, <1>l, <1>g, <2>1 DEF Look
  <2>2. CASE ~(Reads(v) /\ fresh > 0)
    <3>1. /\ visit' = [visit EXCEPT ![v].pc = "fetch", ![v].blind = ~Reads(v)]
          /\ UNCHANGED <<fresh, stale, holder>> /\ visit[v].pc = "look"
      BY <1>3, <2>2, Zenon DEF Look
    <3>2. ~(~Reads(v)) => fresh = 0
      BY <2>2
    <3>3. (~Reads(v)) \in BOOLEAN
      OBVIOUS
    <3>4. visit' \in [Visits -> Visit]
      BY <3>1, <3>3
    <3>5. AsksOnlyWhenStale'
      BY <3>1, <3>2, <3>3
    <3> QED
      BY <3>1, <3>4, <3>5
  <2> QED
    BY <2>1, <2>2
<1>4. ASSUME NEW v \in Visits, Fetch(v) PROVE CacheInv'
  BY <1>4 DEF Fetch
<1>5. ASSUME NEW v \in Visits, Store(v) PROVE CacheInv'
  BY <1>5 DEF Store
<1>6. ASSUME NEW v \in Visits, Keep(v) PROVE CacheInv'
  BY <1>6, <1>l, <1>g DEF Keep
<1>7. ASSUME NEW v \in Visits, Fallback(v) PROVE CacheInv'
  <2>1. /\ visit[v].pc \in Inside /\ UNCHANGED <<fresh, stale>> /\ holder' = "none"
        /\ \/ visit' = [visit EXCEPT ![v] = Gone]
           \/ visit' = [visit EXCEPT ![v] = [Gone EXCEPT !.pc = "error"]]
    BY <1>7 DEF Fallback
  <2>2. CASE visit' = [visit EXCEPT ![v] = Gone]
    BY <1>l, <1>g, <2>1, <2>2
  <2>3. CASE visit' = [visit EXCEPT ![v] = [Gone EXCEPT !.pc = "error"]]
    <3> DEFINE g == [Gone EXCEPT !.pc = "error"]
    <3>1. g \in Visit /\ g.pc = "error"
      OBVIOUS
    <3>2. visit' = [visit EXCEPT ![v] = g]
      BY <2>3
    <3> HIDE DEF g
    <3> QED
      BY <1>l, <2>1, <3>1, <3>2
  <2> QED
    BY <2>1, <2>2, <2>3
<1>8. ASSUME NEW v \in Visits, Answer(v) PROVE CacheInv'
  BY <1>8 DEF Answer
<1>11. ASSUME NEW v \in Visits, RunLate(v) PROVE CacheInv'
  <2>1. visit' \in [Visits -> Visit] /\ UNCHANGED <<fresh, stale, holder>>
    BY <1>11 DEF RunLate
  <2>2. \A w \in Visits : visit'[w].pc = visit[w].pc /\ visit'[w].blind = visit[w].blind
    BY <1>11 DEF RunLate
  <2> QED
    BY <2>1, <2>2
<1>9. CASE CacheRestart
  BY <1>9 DEF CacheRestart
<1>10. CASE CacheTick
  BY <1>10 DEF CacheTick, Left
<1> QED
  BY <1>1, <1>2, <1>3, <1>4, <1>5, <1>6, <1>7, <1>8, <1>9, <1>10, <1>11 DEF Turn, Work

LEMMA LimitStutter == ASSUME LimitTypeOK, UNCHANGED limitVars PROVE LimitTypeOK'
BY DEF limitVars, LimitTypeOK

LEMMA CacheStutter == ASSUME CacheInv, UNCHANGED cacheVars PROVE CacheInv'
BY DEF cacheVars, CacheInv, CacheTypeOK, Holds, AsksOnlyWhenStale

LEMMA NextIInv == IInv /\ [Next]_vars => IInv'
<1> SUFFICES ASSUME IInv, [Next]_vars PROVE IInv'
  OBVIOUS
<1>0. LimitTypeOK /\ CacheInv /\ up \in BOOLEAN
  BY DEF IInv, CacheInv, TypeOK
<1>q. ASSUME LimitTypeOK', CacheInv', up' \in BOOLEAN PROVE IInv'
  BY <1>q DEF IInv, CacheInv, TypeOK
<1>1. CASE Limits
  <2>1. PICK a \in Attempts : Serve(a) /\ UNCHANGED up /\ UNCHANGED cacheVars
    BY <1>1 DEF Limits
  <2> QED
    BY <1>0, <1>q, <2>1, LimitSteps, CacheStutter
<1>2. CASE Progress
  <2>1. PICK v \in Visits : Turn(v) /\ UNCHANGED up /\ UNCHANGED limitVars
    BY <1>2 DEF Progress
  <2> QED
    BY <1>0, <1>q, <2>1, CacheSteps, LimitStutter
<1>3. CASE Network
  BY <1>0, <1>q, <1>3, LimitStutter, CacheStutter DEF Network, Outage, Recovery
<1>4. CASE Restart
  BY <1>0, <1>q, <1>4, LimitSteps, CacheSteps DEF Restart
<1>5. CASE Tick
  BY <1>0, <1>q, <1>5, LimitSteps, CacheSteps DEF Tick
<1>6. CASE UNCHANGED vars
  <2>1. UNCHANGED limitVars /\ UNCHANGED cacheVars /\ UNCHANGED up
    BY <1>6 DEF vars, limitVars, cacheVars
  <2> QED
    BY <1>0, <1>q, <2>1, LimitStutter, CacheStutter
<1> QED
  BY <1>1, <1>2, <1>3, <1>4, <1>5, <1>6 DEF Next

\* Every reachable state is well typed, and whoever is past the mutex holds it.
THEOREM Invariance == Spec => []IInv
<1>1. Init => IInv
  BY InitIInv
<1>2. IInv /\ [Next]_vars => IInv'
  BY NextIInv
<1> QED
  BY <1>1, <1>2, PTL DEF Spec

\* Counters, requests, copies and visits keep their types.
THEOREM TypeCorrect == Spec => []TypeOK
<1>1. IInv => TypeOK
  BY DEF IInv
<1> QED
  BY <1>1, Invariance, PTL

\* However many visitors find the copy expired, GitHub is asked only while none
\* is fresh (Progress' second look under progressFetch).
THEOREM Asks_OnlyWhenStale == Spec => []AsksOnlyWhenStale
<1>1. IInv => AsksOnlyWhenStale
  BY DEF IInv
<1> QED
  BY <1>1, Invariance, PTL

Lost == LimitRestart \/ \E a \in Attempts : LoseReply(a) \/ LoseExpire(a)

\* A step without a loss leaves no counter without an expiry.
LEMMA StepForever ==
  ASSUME LimitTypeOK, NEW k \in Keys, ~Forever(k), ~Lost,
         (\E a \in Attempts : Serve(a)) \/ LimitTick
  PROVE  ~Forever(k)'
<1> USE LimitAssumption DEF LimitTypeOK, Counter, NoKey, Attempt, Idle, Forever
<1>1. ASSUME NEW a \in Attempts, NEW j \in Keys, Arrive(a, j) PROVE ~Forever(k)'
  <2>1. /\ attempt[a].pc = "idle" /\ counter' = counter
        /\ attempt' = [attempt EXCEPT ![a] = [pc |-> "incr", key |-> j]]
    BY <1>1 DEF Arrive
  <2>2. \A b \in Attempts : attempt[b].pc = "expire" => attempt'[b] = attempt[b]
    BY <2>1
  <2> QED
    BY <2>1, <2>2
<1>2. ASSUME NEW a \in Attempts, Incr(a) PROVE ~Forever(k)'
  <2>0. attempt[a].key \in Keys /\ attempt[a].pc = "incr"
    BY <1>2 DEF Incr
  <2>1. \A b \in Attempts : attempt[b].pc = "expire" => attempt'[b] = attempt[b]
    BY <1>2, <2>0 DEF Incr
  <2>2. CASE attempt[a].key # k
    <3>1. counter'[k] = counter[k]
      BY <1>2, <2>0, <2>2 DEF Incr
    <3> QED
      BY <2>1, <3>1
  <2>3. CASE attempt[a].key = k /\ counter[k].n = 0
    <3>1. Bumped(k).n = 1
      BY <2>3 DEF Bumped
    <3>2. attempt'[a] = [attempt[a] EXCEPT !.pc = "expire"]
      BY <1>2, <2>0, <2>3, <3>1 DEF Incr, First
    <3>3. attempt'[a].pc = "expire" /\ attempt'[a].key = k
      BY <3>2, <2>0, <2>3
    <3> QED
      BY <3>3
  <2>4. CASE attempt[a].key = k /\ counter[k].n > 0
    <3>1. counter'[k].ttl = counter[k].ttl
      BY <1>2, <2>0, <2>4 DEF Incr, Bumped
    <3> QED
      BY <2>1, <2>4, <3>1
  <2> QED
    BY <2>2, <2>3, <2>4
<1>3. ASSUME NEW a \in Attempts, FailOpen(a) PROVE ~Forever(k)'
  <2>1. counter' = counter /\ \A b \in Attempts : attempt[b].pc = "expire" => attempt'[b] = attempt[b]
    BY <1>3 DEF FailOpen
  <2> QED
    BY <2>1
<1>4. ASSUME NEW a \in Attempts, Expire(a) PROVE ~Forever(k)'
  <2>0. attempt[a].key \in Keys /\ attempt[a].pc = "expire"
    BY <1>4 DEF Expire
  <2>1. CASE attempt[a].key = k
    <3>1. counter'[k] = IF counter[k].n = 0 THEN counter[k] ELSE [counter[k] EXCEPT !.ttl = Window]
      BY <1>4, <2>0, <2>1 DEF Expire
    <3> QED
      BY <3>1
  <2>2. CASE attempt[a].key # k
    <3>1. counter'[k] = counter[k]
      BY <1>4, <2>0, <2>2 DEF Expire
    <3>2. \A b \in Attempts : attempt[b].key = k => attempt'[b] = attempt[b]
      BY <1>4, <2>0, <2>2 DEF Expire
    <3> QED
      BY <3>1, <3>2
  <2> QED
    BY <2>1, <2>2
<1>5. CASE LimitTick
  <2>1. attempt' = attempt /\ (counter[k].ttl = 0 => counter'[k].n = counter[k].n /\ counter'[k].ttl = 0)
    BY <1>5 DEF LimitTick, Left
  <2>2. counter[k].ttl > 0 => counter'[k].n = 0 \/ counter'[k].ttl > 0
    BY <1>5 DEF LimitTick, Left
  <2> QED
    BY <2>1, <2>2
<1> QED
  BY <1>1, <1>2, <1>3, <1>4, <1>5 DEF Serve, Decide, Lost

\* Only a lost reply, a lost EXPIRE or a restart between INCR and EXPIRE leaves
\* a counter that never expires, whatever the limit and however many requests.
THEOREM Forever_NeedsALoss == Spec => ForeverNeedsALoss
<1>1. IInv /\ [Next]_vars =>
        [\A k \in Keys : Forever(k)' /\ ~Forever(k) =>
           LimitRestart \/ \E a \in Attempts : LoseReply(a) \/ LoseExpire(a)]_limitVars
  <2> SUFFICES ASSUME IInv, [Next]_vars, NEW k \in Keys, Forever(k)', ~Forever(k), ~UNCHANGED limitVars
               PROVE  Lost
    BY DEF Lost
  <2>0. LimitTypeOK
    BY DEF IInv, TypeOK
  <2>1. CASE Limits
    <3>1. PICK a \in Attempts : Serve(a)
      BY <2>1 DEF Limits
    <3> QED
      BY <2>0, <3>1, StepForever
  <2>2. CASE Tick
    BY <2>0, <2>2, StepForever DEF Tick
  <2>3. CASE Restart
    BY <2>3 DEF Restart, Lost
  <2>4. CASE Progress \/ Network \/ UNCHANGED vars
    BY <2>4 DEF Progress, Network, vars, limitVars
  <2> QED
    BY <2>1, <2>2, <2>3, <2>4 DEF Next
<1> QED
  BY <1>1, Invariance, PTL DEF Spec, ForeverNeedsALoss
=============================================================================
