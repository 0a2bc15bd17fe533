---------------------- MODULE ProvisioningRetryProofs ----------------------
(***************************************************************************)
(* Proofs about what Provisioning's runs and retries leave, for every set  *)
(* of accounts and admins and every bound: a job is run at most MaxTries   *)
(* times without an admin, and once more for each fault; no job is left in *)
(* a status nobody retries; the stored credentials are the last ones set.  *)
(***************************************************************************)
EXTENDS ProvisioningProofs

\* Goroutines no admin asked for.
Automatic == Runners \ Admins

\* A goroutine of a signup has the job and can no longer record its outcome.
Late(j) == \E a \in Accounts : a \in expired /\ j \in Touched(a)

\* An automatic run of the job has not recorded its outcome yet.
Ran(j) == \E r \in Automatic : pc[r] \in Running /\ cur[r] = j

\* Every automatic run of a job is an attempt in its row, a fault, or still
\* going on; one that can no longer be recorded is a fault already.
Ledger(j) ==
  tries[j] + (IF Late(j) THEN 1 ELSE 0) <= job[j].attempts + faults + (IF Ran(j) THEN 1 ELSE 0)

\* A context that is over is that of a run, and the loop's never is.
ExpiredRuns == Loop \notin expired /\ \A a \in Accounts : a \in expired => pc[a] # "idle"

\* What an automatic goroutine has still to run has a try left.
HasRoom == \A r \in Automatic : \A j \in todo[r] : tries[j] < MaxTries + faults

BudgetInv ==
  /\ ExpiredRuns
  /\ \A j \in Jobs : Ledger(j)
  /\ \A j \in Jobs \ Created : tries[j] = 0
  /\ HasRoom
  /\ RetryBudget

\* An automatic run of j starts.
Begins(r, j) == BeginErp(r, j) \/ BeginWhatsApp(r, j) \/ BeginWebsite(r, j)

-----------------------------------------------------------------------------
(* What a step does to the tries, the faults and the deadlines. *)

\* Only the start of an automatic run counts as a try.
LEMMA TriesCounted ==
  ASSUME TypeOK, [Next]_vars, NEW j \in Jobs
  PROVE  \/ tries'[j] = tries[j]
         \/ \E r \in Automatic : Begins(r, j) /\ tries'[j] = tries[j] + 1
<1>1. ASSUME NEW r \in Runners, NEW k \in Jobs, Begins(r, k)
      PROVE  tries'[j] = tries[j] \/ (r \in Automatic /\ k = j /\ tries'[j] = tries[j] + 1)
  BY <1>1 DEF Begins, BeginErp, BeginWhatsApp, BeginWebsite, CountTry, Automatic, TypeOK
<1>2. ASSUME NEW r \in Runners,
             \/ \E k \in Jobs : WaitForVPS(r, k)
             \/ ScriptPrints(r) \/ ScriptFails(r) \/ SaveConnection(r) \/ RegisterNumber(r) \/ SaveSite(r)
             \/ FileTask(r) \/ EndRun(r) \/ LinkLost(r) \/ Expire(r)
             \/ FinishErp(r) \/ FinishWhatsApp(r) \/ FinishWebsite(r) \/ FinishFailed(r)
      PROVE  tries' = tries
  BY <1>2 DEF WaitForVPS, ScriptPrints, ScriptFails, SaveConnection, RegisterNumber, SaveSite, FileTask, EndRun,
              LinkLost, Expire, FinishErp, FinishWhatsApp, FinishWebsite, FinishFailed, Finish, history
<1>3. ASSUME \/ \E a \in Accounts : SignupPlan(a) \/ SignupRun(a) \/ SignupFails(a) \/ ConnectERP(a) \/ DeliverSite(a)
             \/ \E m \in Admins : AdminLists(m) \/ AdminRuns(m) \/ (\E a \in Accounts : AdminOpens(m, a))
             \/ \E k \in Jobs : SkipJob(k)
             \/ \E s \in stray : StrayEnds(s)
             \/ Tick \/ Restart \/ UNCHANGED vars
      PROVE  tries' = tries
  BY <1>3 DEF SignupPlan, SignupRun, SignupFails, ConnectERP, DeliverSite, AdminLists, AdminRuns, AdminOpens,
              SkipJob, StrayEnds, Tick, Restart, history, vars
<1> QED
  BY <1>1, <1>2, <1>3 DEF Next, RunStep, Begins

\* Faults are only ever added.
LEMMA FaultsGrow ==
  ASSUME TypeOK, [Next]_vars
  PROVE  faults' \in Nat /\ faults' >= faults
<1> USE DEF Fault, Reaches, Misses
<1>1. ASSUME NEW r \in Runners,
             \/ \E k \in Jobs : WaitForVPS(r, k) \/ Begins(r, k)
             \/ ScriptPrints(r) \/ ScriptFails(r) \/ SaveConnection(r) \/ RegisterNumber(r) \/ SaveSite(r)
             \/ FileTask(r) \/ EndRun(r) \/ LinkLost(r) \/ Expire(r)
             \/ FinishErp(r) \/ FinishWhatsApp(r) \/ FinishWebsite(r) \/ FinishFailed(r)
      PROVE  faults' = faults \/ faults' = faults + 1
  BY <1>1 DEF WaitForVPS, Begins, BeginErp, BeginWhatsApp, BeginWebsite, ScriptPrints, ScriptFails, SaveConnection,
              RegisterNumber, SaveSite, FileTask, EndRun, LinkLost, Expire, FinishErp, FinishWhatsApp,
              FinishWebsite, FinishFailed, Finish
<1>2. ASSUME \/ \E a \in Accounts : SignupPlan(a) \/ SignupRun(a) \/ SignupFails(a) \/ ConnectERP(a) \/ DeliverSite(a)
             \/ \E m \in Admins : AdminLists(m) \/ AdminRuns(m) \/ (\E a \in Accounts : AdminOpens(m, a))
             \/ \E k \in Jobs : SkipJob(k)
             \/ \E s \in stray : StrayEnds(s)
             \/ Tick \/ Restart \/ UNCHANGED vars
      PROVE  faults' = faults \/ faults' = faults + 1
  BY <1>2 DEF SignupPlan, SignupRun, SignupFails, ConnectERP, DeliverSite, AdminLists, AdminRuns, AdminOpens,
              SkipJob, StrayEnds, Tick, Restart, vars
<1>3. faults' = faults \/ faults' = faults + 1
  BY <1>1, <1>2 DEF Next, RunStep, Begins
<1> QED
  BY <1>3 DEF TypeOK

\* Attempts are only ever added to a row.
LEMMA AttemptsGrow ==
  ASSUME TypeOK, [Next]_vars, NEW j \in Created
  PROVE  job'[j].attempts \in Nat /\ job'[j].attempts >= job[j].attempts
<1>0. job[j].attempts \in Nat
  BY DEF Created, TypeOK, JobRow
<1>1. CASE UNCHANGED job
  BY <1>0, <1>1
<1>2. ASSUME NEW k \in Jobs, NEW status \in Statuses \ {"none"}, NEW n \in {0, 1}, SetJob(k, status, n)
      PROVE  job'[j].attempts \in Nat /\ job'[j].attempts >= job[j].attempts
  BY <1>0, <1>2 DEF SetJob, Created, TypeOK
<1>3. ASSUME NEW a \in Accounts, NEW kinds \in SUBSET Kinds, NEW f \in NewIds(kinds),
             job' = Planned(a, kinds, f)
      PROVE  job'[j].attempts \in Nat /\ job'[j].attempts >= job[j].attempts
  BY <1>0, <1>3, PlannedType DEF Planned, Created
<1> QED
  BY <1>1, <1>2, <1>3, JobChanges

\* Only the handler of its signup gives an account's goroutine jobs.
LEMMA AccountsHold ==
  ASSUME TypeOK, OverlapInv, [Next]_vars, NEW a \in Accounts
  PROVE  Touched(a)' \subseteq Touched(a) \/ SignupPlan(a)
<1>0. a \in Runners /\ a # Loop /\ a \notin Admins
  BY RunnersAssumption DEF Runners
<1>1. ASSUME NEW r \in Runners, RunStep(r) \/ LinkLost(r) \/ Expire(r)
      PROVE  Touched(a)' \subseteq Touched(a)
  <2>1. OwnStep(r)
    BY <1>1, RunStepOwn DEF OverlapInv
  <2> QED
    BY <1>0, <2>1 DEF OwnStep, Touched
<1>2. ASSUME NEW b \in Accounts, SignupPlan(b), b # a
      PROVE  Touched(a)' \subseteq Touched(a)
  <2>1. pc' = pc /\ cur' = cur /\ todo'[a] = todo[a]
    BY <1>0, <1>2 DEF SignupPlan, TypeOK
  <2> QED
    BY <2>1 DEF Touched
<1>3. ASSUME NEW b \in Accounts, SignupRun(b) \/ SignupFails(b)
      PROVE  Touched(a)' \subseteq Touched(a)
  <2>1. cur' = cur /\ todo'[a] \subseteq todo[a] /\ (pc'[a] = pc[a] \/ pc'[a] \in {"pick", "ended"})
    BY <1>0, <1>3 DEF SignupRun, SignupFails, Goto, TypeOK
  <2> QED
    BY <2>1 DEF Touched, Running
<1>4. ASSUME \/ \E b \in Accounts : ConnectERP(b) \/ DeliverSite(b)
             \/ \E s \in stray : StrayEnds(s)
             \/ UNCHANGED vars
      PROVE  Touched(a)' \subseteq Touched(a)
  <2>1. pc' = pc /\ cur' = cur /\ todo' = todo
    BY <1>4 DEF ConnectERP, DeliverSite, StrayEnds, vars
  <2> QED
    BY <2>1 DEF Touched
<1>5. ASSUME \/ \E m \in Admins : AdminLists(m) \/ AdminRuns(m) \/ (\E b \in Accounts : AdminOpens(m, b))
             \/ \E k \in Jobs : SkipJob(k)
             \/ Tick
      PROVE  Touched(a)' \subseteq Touched(a)
  <2>1. pc'[a] = pc[a] /\ cur'[a] = cur[a] /\ todo'[a] = todo[a]
    BY <1>0, <1>5 DEF AdminLists, AdminRuns, AdminOpens, SkipJob, Tick, Goto, TypeOK
  <2> QED
    BY <2>1 DEF Touched
<1>6. ASSUME Restart
      PROVE  Touched(a)' \subseteq Touched(a)
  <2>1. todo'[a] = {} /\ pc'[a] \in {"idle", "ended"}
    BY <1>0, <1>6 DEF Restart
  <2> QED
    BY <2>1 DEF Touched, Running
<1> QED
  BY <1>1, <1>2, <1>3, <1>4, <1>5, <1>6 DEF Next

\* A run goes on until its outcome is written or missed or the process ends.
LEMMA RunsGoOn ==
  ASSUME TypeOK, OverlapInv, [Next]_vars, NEW r \in Runners, pc[r] \in Running, ~Finishes(r), ~Restart
  PROVE  pc'[r] \in Running /\ cur'[r] = cur[r]
<1> USE DEF Goto, Running
<1>1. ASSUME NEW q \in Runners, RunStep(q) \/ LinkLost(q) \/ Expire(q), q # r
      PROVE  pc'[r] = pc[r] /\ cur'[r] = cur[r]
  <2>1. OwnStep(q)
    BY <1>1, RunStepOwn DEF OverlapInv
  <2> QED
    BY <1>1, <2>1 DEF OwnStep
<1>2. ASSUME NEW k \in Jobs, WaitForVPS(r, k) \/ Begins(r, k)
      PROVE  FALSE
  BY <1>2 DEF WaitForVPS, Begins, BeginErp, BeginWhatsApp, BeginWebsite, Take, NextJob
<1>3. ASSUME \/ ScriptPrints(r) \/ ScriptFails(r) \/ SaveConnection(r) \/ RegisterNumber(r) \/ SaveSite(r)
             \/ FileTask(r) \/ EndRun(r) \/ LinkLost(r) \/ Expire(r)
      PROVE  pc'[r] \in Running /\ cur'[r] = cur[r]
  BY <1>3 DEF ScriptPrints, ScriptFails, SaveConnection, RegisterNumber, SaveSite, FileTask, EndRun, LinkLost,
              Expire, TypeOK
<1>4. ASSUME NEW a \in Accounts, SignupPlan(a) \/ SignupRun(a) \/ SignupFails(a) \/ ConnectERP(a) \/ DeliverSite(a)
      PROVE  pc'[r] \in Running /\ cur'[r] = cur[r]
  <2>1. cur' = cur /\ (pc' = pc \/ (pc[a] = "idle" /\ \A q \in Runners \ {a} : pc'[q] = pc[q]))
    BY <1>4 DEF SignupPlan, SignupRun, SignupFails, ConnectERP, DeliverSite, TypeOK, OverlapInv, SignupOwns
  <2> QED
    BY <2>1
<1>5. ASSUME NEW m \in Admins, AdminLists(m) \/ AdminRuns(m) \/ (\E a \in Accounts : AdminOpens(m, a))
      PROVE  pc'[r] \in Running /\ cur'[r] = cur[r]
  BY <1>5 DEF AdminLists, AdminRuns, AdminOpens, TypeOK
<1>6. ASSUME \/ \E k \in Jobs : SkipJob(k)
             \/ \E s \in stray : StrayEnds(s)
             \/ Tick \/ UNCHANGED vars
      PROVE  pc'[r] \in Running /\ cur'[r] = cur[r]
  BY <1>6 DEF SkipJob, StrayEnds, Tick, TypeOK, vars
<1> QED
  BY <1>1, <1>2, <1>3, <1>4, <1>5, <1>6 DEF Next, RunStep, Begins, Finishes

\* A context is over when its deadline has passed, and not before.
LEMMA ExpiresOnly ==
  ASSUME [Next]_vars
  PROVE  expired' \subseteq expired \/ \E r \in Runners : Expire(r)
<1>1. ASSUME NEW r \in Runners,
             \/ \E k \in Jobs : WaitForVPS(r, k) \/ Begins(r, k)
             \/ ScriptPrints(r) \/ ScriptFails(r) \/ SaveConnection(r) \/ RegisterNumber(r) \/ SaveSite(r)
             \/ FileTask(r) \/ EndRun(r) \/ LinkLost(r) \/ Finishes(r)
      PROVE  expired' \subseteq expired
  BY <1>1 DEF WaitForVPS, Begins, BeginErp, BeginWhatsApp, BeginWebsite, ScriptPrints, ScriptFails, SaveConnection,
              RegisterNumber, SaveSite, FileTask, EndRun, LinkLost, Finishes, FinishErp, FinishWhatsApp,
              FinishWebsite, FinishFailed, Finish
<1>2. ASSUME \/ \E a \in Accounts : SignupPlan(a) \/ SignupRun(a) \/ SignupFails(a) \/ ConnectERP(a) \/ DeliverSite(a)
             \/ \E m \in Admins : AdminLists(m) \/ AdminRuns(m) \/ (\E a \in Accounts : AdminOpens(m, a))
             \/ \E k \in Jobs : SkipJob(k)
             \/ \E s \in stray : StrayEnds(s)
             \/ Tick \/ Restart \/ UNCHANGED vars
      PROVE  expired' \subseteq expired
  BY <1>2 DEF SignupPlan, SignupRun, SignupFails, ConnectERP, DeliverSite, AdminLists, AdminRuns, AdminOpens,
              SkipJob, StrayEnds, Tick, Restart, vars
<1> QED
  BY <1>1, <1>2 DEF Next, RunStep, Begins, Finishes

\* No goroutine of a signup goes back to where it has not started.
LEMMA AccountsStarted ==
  ASSUME TypeOK, OverlapInv, [Next]_vars, NEW a \in Accounts, pc[a] # "idle", ~Restart
  PROVE  pc'[a] # "idle"
<1> USE DEF Goto
<1>0. a \in Runners /\ a # Loop /\ a \notin Admins
  BY RunnersAssumption DEF Runners
<1>1. ASSUME NEW r \in Runners, RunStep(r) \/ LinkLost(r) \/ Expire(r), r # a
      PROVE  pc'[a] = pc[a]
  <2>1. OwnStep(r)
    BY <1>1, RunStepOwn DEF OverlapInv
  <2> QED
    BY <1>0, <1>1, <2>1 DEF OwnStep
<1>2. ASSUME NEW k \in Jobs, WaitForVPS(a, k) \/ Begins(a, k)
      PROVE  pc'[a] # "idle"
  BY <1>0, <1>2 DEF WaitForVPS, Begins, BeginErp, BeginWhatsApp, BeginWebsite, TypeOK
<1>3. ASSUME \/ ScriptPrints(a) \/ ScriptFails(a) \/ SaveConnection(a) \/ RegisterNumber(a) \/ SaveSite(a)
             \/ FileTask(a) \/ EndRun(a) \/ LinkLost(a) \/ Expire(a) \/ Finishes(a)
      PROVE  pc'[a] # "idle"
  BY <1>0, <1>3 DEF ScriptPrints, ScriptFails, SaveConnection, RegisterNumber, SaveSite, FileTask, EndRun, LinkLost,
                    Expire, Finishes, FinishErp, FinishWhatsApp, FinishWebsite, FinishFailed, Finish, TypeOK
<1>4. ASSUME NEW b \in Accounts, SignupPlan(b) \/ SignupRun(b) \/ SignupFails(b) \/ ConnectERP(b) \/ DeliverSite(b)
      PROVE  pc'[a] # "idle"
  BY <1>0, <1>4 DEF SignupPlan, SignupRun, SignupFails, ConnectERP, DeliverSite, TypeOK
<1>5. ASSUME \/ \E m \in Admins : AdminLists(m) \/ AdminRuns(m) \/ (\E b \in Accounts : AdminOpens(m, b))
             \/ \E k \in Jobs : SkipJob(k)
             \/ \E s \in stray : StrayEnds(s)
             \/ Tick \/ UNCHANGED vars
      PROVE  pc'[a] # "idle"
  BY <1>0, <1>5 DEF AdminLists, AdminRuns, AdminOpens, SkipJob, StrayEnds, Tick, TypeOK, vars
<1> QED
  BY <1>1, <1>2, <1>3, <1>4, <1>5 DEF Next, RunStep, Begins, Finishes

\* Contexts that are over stay those of runs.
LEMMA ExpiredRunsStep ==
  ASSUME TypeOK, OverlapInv, ExpiredRuns, [Next]_vars
  PROVE  ExpiredRuns'
<1>1. CASE Restart
  BY <1>1 DEF Restart, ExpiredRuns
<1>2. ASSUME ~Restart, expired' \subseteq expired
      PROVE  ExpiredRuns'
  BY <1>2, AccountsStarted DEF ExpiredRuns
<1>3. ASSUME ~Restart, NEW r \in Runners, Expire(r)
      PROVE  ExpiredRuns'
  BY <1>3, AccountsStarted DEF Expire, ExpiredRuns
<1> QED
  BY <1>1, <1>2, <1>3, ExpiresOnly

-----------------------------------------------------------------------------
(* The ledger. *)

\* A step that starts no run of j, ends none, and takes nobody's deadline.
LEMMA QuietLedger ==
  ASSUME TypeOK, NEW j \in Created, Ledger(j), job'[j].attempts \in Nat, faults' \in Nat,
         tries'[j] = tries[j], job'[j].attempts >= job[j].attempts, faults' >= faults,
         Late(j)' => Late(j), Ran(j) => Ran(j)'
  PROVE  Ledger(j)'
<1>1. tries[j] \in Nat /\ job[j].attempts \in Nat /\ faults \in Nat
  BY DEF Created, TypeOK, JobRow
<1> HIDE DEF Late, Ran
<1> QED
  BY <1>1 DEF Ledger

\* An automatic goroutine that has a job is the only one.
LEMMA OnlyHolder ==
  ASSUME OverlapInv, NEW r \in Automatic, NEW q \in Automatic, r # q
  PROVE  Touched(r) \cap Touched(q) = {}
<1>1. r \in Accounts \/ q \in Accounts
  BY DEF Automatic, Runners
<1> QED
  BY <1>1 DEF OverlapInv, SignupOwns, Automatic

\* An automatic run of j starts: one try more, one run more.
LEMMA BeginLedger ==
  ASSUME TypeOK, OverlapInv, [Next]_vars, ExpiredRuns, NEW j \in Created, Ledger(j),
         NEW r \in Automatic, Begins(r, j), tries'[j] = tries[j] + 1
  PROVE  Ledger(j)'
<1>1. /\ tries[j] \in Nat /\ job[j].attempts \in Nat /\ faults \in Nat
      /\ r \in Runners
  BY DEF Created, TypeOK, JobRow, Automatic
<1>2. /\ job'[j].attempts \in Nat /\ job'[j].attempts >= job[j].attempts /\ faults' \in Nat /\ faults' >= faults
  BY AttemptsGrow, FaultsGrow
<1>3. j \in todo[r] /\ pc[r] = "pick" /\ pc'[r] \in Running /\ cur'[r] = j /\ expired' = expired
  BY <1>1 DEF Begins, BeginErp, BeginWhatsApp, BeginWebsite, Take, NextJob, Goto, Running, TypeOK
<1>4. Ran(j)'
  BY <1>3 DEF Ran
<1>5. ~Ran(j)
  <2> SUFFICES ASSUME NEW q \in Automatic, pc[q] \in Running, cur[q] = j
               PROVE  FALSE
    BY DEF Ran
  <2>1. q # r /\ j \in Touched(q) /\ j \in Touched(r)
    BY <1>3 DEF Touched, Running, Created, Jobs
  <2> QED
    BY <2>1, OnlyHolder
<1>6. Late(j)' => Late(j)
  <2> SUFFICES ASSUME NEW a \in Accounts, a \in expired, j \in Touched(a)'
               PROVE  j \in Touched(a)
    BY <1>3 DEF Late
  <2>1. a \in Runners
    BY DEF Runners
  <2>2. RunStep(r)
    BY <1>1 DEF RunStep, Begins, Created
  <2>3. OwnStep(r)
    BY <1>1, <2>2, RunStepOwn DEF OverlapInv
  <2> QED
    BY <2>1, <2>3 DEF OwnStep, Touched
<1> HIDE DEF Late, Ran
<1> QED
  BY <1>1, <1>2, <1>4, <1>5, <1>6 DEF Ledger

\* An automatic run of j ends: an attempt in the row, a fault, or one before.
LEMMA FinishLedger ==
  ASSUME TypeOK, OverlapInv, [Next]_vars, ExpiredRuns, NEW j \in Created, Ledger(j), tries'[j] = tries[j],
         NEW r \in Automatic, Finishes(r), cur[r] = j
  PROVE  Ledger(j)'
<1>1. /\ tries[j] \in Nat /\ job[j].attempts \in Nat /\ faults \in Nat
      /\ r \in Runners /\ j \in Jobs
  BY DEF Created, TypeOK, JobRow, Automatic
<1>2. PICK status \in Statuses : pc[r] \in Running /\ Finish(r, status)
  BY DEF Finishes, FinishErp, FinishWhatsApp, FinishWebsite, FinishFailed, Running, Statuses
<1>3. Ran(j) /\ j \in Touched(r) /\ j \notin todo[r]
  BY <1>1, <1>2 DEF Ran, Touched, OverlapInv, HoldsRows
<1>4. ~Late(j)'
  <2> SUFFICES ASSUME NEW a \in Accounts, j \in Touched(a)'
               PROVE  FALSE
    BY DEF Late
  <2>1. a \in Automatic
    BY RunnersAssumption DEF Automatic, Runners
  <2>2. RunStep(r)
    BY DEF RunStep, Finishes
  <2>3. OwnStep(r)
    BY <1>1, <2>2, RunStepOwn DEF OverlapInv
  <2>4. CASE a = r
    <3>1. pc'[r] = "pick" /\ todo' = todo
      BY <1>1, <1>2 DEF Finish, Goto, TypeOK
    <3> QED
      BY <1>3, <2>4, <3>1 DEF Touched, Running
  <2>5. CASE a # r
    <3>1. j \in Touched(a)
      BY <2>1, <2>3, <2>5 DEF OwnStep, Touched, Automatic
    <3> QED
      BY <1>3, <2>1, <2>5, <3>1, OnlyHolder
  <2> QED
    BY <2>4, <2>5
<1>5. \/ job'[j].attempts = job[j].attempts + 1 /\ faults' = faults
      \/ job' = job /\ faults' = faults /\ r \in expired
      \/ job' = job /\ faults' = faults + 1
  BY <1>1, <1>2 DEF Finish, SetJob, Reaches, Misses, Fault, TypeOK
<1>6. r \in expired => Late(j)
  BY <1>3 DEF ExpiredRuns, Late, Automatic, Runners
<1> HIDE DEF Late, Ran
<1> QED
  BY <1>1, <1>3, <1>4, <1>5, <1>6 DEF Ledger

\* Every step keeps the ledger of a job.
LEMMA LedgerStep ==
  ASSUME TypeOK, OverlapInv, [Next]_vars, ExpiredRuns, NEW j \in Created, Ledger(j)
  PROVE  Ledger(j)'
<1>1. /\ tries[j] \in Nat /\ job[j].attempts \in Nat /\ faults \in Nat /\ j \in Jobs
  BY DEF Created, TypeOK, JobRow
<1>2. /\ job'[j].attempts \in Nat /\ job'[j].attempts >= job[j].attempts /\ faults' \in Nat /\ faults' >= faults
  BY AttemptsGrow, FaultsGrow
<1>3. CASE Restart
  <2>1. job' = job /\ tries' = tries /\ faults' = faults + 1 /\ expired' = {}
    BY <1>3 DEF Restart, Fault
  <2>2. ~Late(j)'
    BY <2>1 DEF Late
  <2> HIDE DEF Late, Ran
  <2> QED
    BY <1>1, <2>1, <2>2 DEF Ledger
<1>4. ASSUME NEW r \in Automatic, Begins(r, j), tries'[j] = tries[j] + 1
      PROVE  Ledger(j)'
  BY <1>4, BeginLedger
<1>5. ASSUME NEW r \in Automatic, Finishes(r), cur[r] = j, tries'[j] = tries[j]
      PROVE  Ledger(j)'
  BY <1>5, FinishLedger
<1>6. ASSUME ~Restart, tries'[j] = tries[j], \A r \in Automatic : ~(Finishes(r) /\ cur[r] = j)
      PROVE  Ledger(j)'
  <2>1. Ran(j) => Ran(j)'
    <3> SUFFICES ASSUME NEW q \in Automatic, pc[q] \in Running, cur[q] = j
                 PROVE  pc'[q] \in Running /\ cur'[q] = j
      BY DEF Ran
    <3>1. q \in Runners
      BY DEF Automatic
    <3> QED
      BY <1>6, <3>1, RunsGoOn
  <2>2. CASE expired' \subseteq expired
    <3>1. Late(j)' => Late(j)
      <4> SUFFICES ASSUME NEW a \in Accounts, a \in expired', j \in Touched(a)'
                   PROVE  a \in expired /\ j \in Touched(a)
        BY DEF Late
      <4>1. a \in expired /\ pc[a] # "idle"
        BY <2>2 DEF ExpiredRuns
      <4>2. ~SignupPlan(a)
        BY <4>1 DEF SignupPlan, OverlapInv, SignupOwns
      <4> QED
        BY <4>1, <4>2, AccountsHold
    <3> QED
      BY <1>2, <1>6, <2>1, <3>1, QuietLedger
  <2>3. ASSUME NEW r \in Runners, Expire(r)
        PROVE  Ledger(j)'
    <3>1. faults' = faults + 1 /\ job' = job
      BY <2>3 DEF Expire, Fault
    <3> HIDE DEF Late, Ran
    <3> QED
      BY <1>1, <1>6, <2>1, <3>1 DEF Ledger
  <2> QED
    BY <2>2, <2>3, ExpiresOnly
<1> QED
  BY <1>1, <1>3, <1>4, <1>5, <1>6, TriesCounted

\* A job that enters the table has not been tried and nobody is late with it.
LEMMA NewLedger ==
  ASSUME TypeOK, TypeOK', OverlapInv, [Next]_vars, ExpiredRuns, NEW j \in Jobs \ Created, tries[j] = 0
  PROVE  tries'[j] = 0 /\ Ledger(j)'
<1>1. tries'[j] = 0
  <2>1. ASSUME NEW r \in Automatic, Begins(r, j)
        PROVE  FALSE
    <3>1. j \in todo[r] /\ r \in Runners
      BY <2>1 DEF Begins, BeginErp, BeginWhatsApp, BeginWebsite, Take, NextJob, Automatic
    <3> QED
      BY <3>1 DEF OverlapInv, HoldsRows, Touched
  <2> QED
    BY <2>1, TriesCounted
<1>2. ~Late(j)'
  <2> SUFFICES ASSUME NEW a \in Accounts, a \in expired', j \in Touched(a)'
               PROVE  FALSE
    BY DEF Late
  <2>1. a \in Runners
    BY DEF Runners
  <2>2. j \notin Touched(a)
    BY <2>1 DEF OverlapInv, HoldsRows
  <2>3. SignupPlan(a)
    BY <2>2, AccountsHold
  <2> QED
    BY <2>3 DEF SignupPlan, OverlapInv, SignupOwns, ExpiredRuns
<1>3. job'[j].attempts \in Nat /\ faults' \in Nat
  BY DEF TypeOK, JobRow
<1> HIDE DEF Late, Ran
<1> QED
  BY <1>1, <1>2, <1>3 DEF Ledger

-----------------------------------------------------------------------------
(* What is left to run has a try left. *)

\* Only a signup's plan and a tick of the loop give an automatic goroutine jobs.
LEMMA ListsGrow ==
  ASSUME TypeOK, [Next]_vars, NEW r \in Automatic
  PROVE  todo'[r] \subseteq todo[r] \/ (r \in Accounts /\ SignupPlan(r)) \/ (r = Loop /\ Tick)
<1>0. r \in Runners /\ r \notin Admins
  BY DEF Automatic
<1>1. ASSUME NEW q \in Runners,
             \/ \E k \in Jobs : WaitForVPS(q, k) \/ Begins(q, k)
             \/ ScriptPrints(q) \/ ScriptFails(q) \/ SaveConnection(q) \/ RegisterNumber(q) \/ SaveSite(q)
             \/ FileTask(q) \/ EndRun(q) \/ LinkLost(q) \/ Expire(q) \/ Finishes(q)
      PROVE  todo'[r] \subseteq todo[r]
  BY <1>0, <1>1 DEF WaitForVPS, Begins, BeginErp, BeginWhatsApp, BeginWebsite, Take, ScriptPrints, ScriptFails,
              SaveConnection, RegisterNumber, SaveSite, FileTask, EndRun, LinkLost, Expire, Finishes, FinishErp,
              FinishWhatsApp, FinishWebsite, FinishFailed, Finish, TypeOK
<1>2. ASSUME NEW a \in Accounts, SignupPlan(a), a # r
      PROVE  todo'[r] \subseteq todo[r]
  BY <1>0, <1>2 DEF SignupPlan, TypeOK
<1>3. ASSUME NEW m \in Admins, AdminLists(m) \/ AdminRuns(m) \/ (\E a \in Accounts : AdminOpens(m, a))
      PROVE  todo'[r] \subseteq todo[r]
  BY <1>0, <1>3 DEF AdminLists, AdminRuns, AdminOpens, TypeOK
<1>4. ASSUME \/ \E a \in Accounts : SignupRun(a) \/ SignupFails(a) \/ ConnectERP(a) \/ DeliverSite(a)
             \/ \E k \in Jobs : SkipJob(k)
             \/ \E s \in stray : StrayEnds(s)
             \/ (Tick /\ r # Loop) \/ Restart \/ UNCHANGED vars
      PROVE  todo'[r] \subseteq todo[r]
  BY <1>0, <1>4 DEF SignupRun, SignupFails, ConnectERP, DeliverSite, SkipJob, StrayEnds, Tick, Restart, TypeOK, vars
<1> QED
  BY <1>1, <1>2, <1>3, <1>4 DEF Next, RunStep, Begins, Finishes

\* The loop lists no job that an automatic run is on.
LEMMA TickFree ==
  ASSUME TypeOK, OverlapInv, Tick, NEW j \in Waiting
  PROVE  ~Ran(j)
<1> SUFFICES ASSUME NEW r \in Automatic, pc[r] \in Running, cur[r] = j
             PROVE  FALSE
  BY DEF Ran
<1>1. r # Loop
  BY DEF Tick, Running
<1>2. r \in Accounts /\ j \in Touched(r)
  BY <1>1 DEF Automatic, Runners, Touched, OverlapInv, HoldsRows
<1> QED
  BY <1>2 DEF Waiting, OverlapInv, SignupOwns

\* Every step leaves what automatic goroutines still have to run a try.
LEMMA RoomStep ==
  ASSUME TypeOK, TypeOK', OverlapInv, BudgetInv, [Next]_vars
  PROVE  HasRoom'
<1> SUFFICES ASSUME NEW r \in Automatic, NEW j \in todo'[r]
             PROVE  tries'[j] < MaxTries + faults'
  BY DEF HasRoom, Automatic
<1>1. /\ r \in Runners /\ faults \in Nat /\ faults' \in Nat /\ faults' >= faults /\ MaxTries \in Nat \ {0}
      /\ j \in Jobs /\ tries[j] \in Nat
  BY FaultsGrow, BoundsAssumption DEF Automatic, TypeOK
<1>2. CASE todo'[r] \subseteq todo[r]
  <2>1. j \in todo[r] /\ tries[j] < MaxTries + faults
    BY <1>2 DEF BudgetInv, HasRoom
  <2>2. ASSUME NEW q \in Automatic, Begins(q, j)
        PROVE  FALSE
    <3>1. j \in todo[q] /\ q \in Runners /\ todo' = [todo EXCEPT ![q] = @ \ {j}]
      BY <2>2 DEF Begins, BeginErp, BeginWhatsApp, BeginWebsite, Take, NextJob, Automatic
    <3>2. CASE q = r
      BY <1>1, <3>1, <3>2 DEF TypeOK
    <3>3. CASE q # r
      BY <2>1, <3>1, <3>3, OnlyHolder DEF Touched
    <3> QED
      BY <3>2, <3>3
  <2>3. tries'[j] = tries[j]
    BY <1>1, <2>2, TriesCounted
  <2> QED
    BY <1>1, <2>1, <2>3
<1>3. CASE r \in Accounts /\ SignupPlan(r)
  <2>1. PICK kinds \in SUBSET Kinds :
          \E f \in NewIds(kinds) :
            todo' = [todo EXCEPT ![r] = {f[k] : k \in {x \in kinds : InitialStatus(x) \in Runnable}}]
    BY <1>3 DEF SignupPlan
  <2>2. PICK f \in NewIds(kinds) :
          todo' = [todo EXCEPT ![r] = {f[k] : k \in {x \in kinds : InitialStatus(x) \in Runnable}}]
    BY <2>1
  <2>3. j \in Jobs \ Created
    BY <1>1, <2>2 DEF NewIds, TypeOK
  <2>4. tries' = tries
    BY <1>3 DEF SignupPlan, history
  <2> QED
    BY <1>1, <2>3, <2>4 DEF BudgetInv
<1>4. CASE r = Loop /\ Tick
  <2>1. j \in Waiting /\ ~GaveUp(j) /\ tries' = tries
    BY <1>1, <1>4 DEF Tick, Batch, TypeOK, history
  <2>2. ~Ran(j) /\ Ledger(j)
    BY <1>4, <2>1, TickFree DEF BudgetInv, Waiting, Created
  <2>3. job[j].attempts \in Nat /\ job[j].attempts < MaxTries
    BY <1>1, <2>1 DEF GaveUp, TypeOK, JobRow
  <2> HIDE DEF Late, Ran
  <2> QED
    BY <1>1, <2>1, <2>2, <2>3 DEF Ledger
<1> QED
  BY <1>2, <1>3, <1>4, ListsGrow

\* Every step keeps the budget.
LEMMA BudgetStep ==
  ASSUME TypeOK, TypeOK', OverlapInv, BudgetInv, [Next]_vars
  PROVE  BudgetInv'
<1>1. ExpiredRuns'
  BY ExpiredRunsStep DEF BudgetInv
<1>2. \A j \in Jobs : Ledger(j)'
  BY LedgerStep, NewLedger DEF BudgetInv
<1>3. \A j \in Jobs \ Created' : tries'[j] = 0
  <2>1. Created \subseteq Created'
    BY RowsStay
  <2> QED
    BY <2>1, NewLedger DEF BudgetInv
<1>4. HasRoom'
  BY RoomStep
<1>5. RetryBudget'
  <2> SUFFICES ASSUME NEW j \in Jobs
               PROVE  tries'[j] <= MaxTries + faults'
    BY DEF RetryBudget
  <2>1. /\ faults \in Nat /\ faults' \in Nat /\ faults' >= faults /\ MaxTries \in Nat
        /\ tries[j] \in Nat /\ tries[j] <= MaxTries + faults
    BY FaultsGrow, BoundsAssumption DEF TypeOK, BudgetInv, RetryBudget
  <2>2. ASSUME NEW r \in Automatic, Begins(r, j), tries'[j] = tries[j] + 1
        PROVE  tries'[j] <= MaxTries + faults'
    <3>1. j \in todo[r]
      BY <2>2 DEF Begins, BeginErp, BeginWhatsApp, BeginWebsite, Take, NextJob
    <3>2. tries[j] < MaxTries + faults
      BY <3>1 DEF BudgetInv, HasRoom
    <3> QED
      BY <2>1, <2>2, <3>2
  <2> QED
    BY <2>1, <2>2, TriesCounted
<1> QED
  BY <1>1, <1>2, <1>3, <1>4, <1>5 DEF BudgetInv

\* The budget holds before the first step.
LEMMA BudgetInit == Init => BudgetInv
<1> SUFFICES ASSUME Init PROVE BudgetInv
  OBVIOUS
<1>1. ExpiredRuns /\ HasRoom /\ \A j \in Jobs : ~Late(j)
  BY DEF Init, ExpiredRuns, HasRoom, Automatic, Late
<1>2. \A j \in Jobs : tries[j] = 0 /\ job[j].attempts = 0 /\ faults = 0
  BY DEF Init, NoJob
<1>3. \A j \in Jobs : Ledger(j)
  <2> HIDE DEF Late, Ran
  <2> QED
    BY <1>1, <1>2 DEF Ledger
<1> QED
  BY <1>1, <1>2, <1>3, BoundsAssumption DEF BudgetInv, RetryBudget

\* No job is run more than MaxTries times without an admin asking for it, but
\* for one run more for each fault.
THEOREM RetriesBounded == Spec => []RetryBudget
<1>1. TypeOK /\ TypeOK' /\ OverlapInv /\ BudgetInv /\ [Next]_vars => BudgetInv'
  BY BudgetStep
<1>2. BudgetInv => RetryBudget
  BY DEF BudgetInv
<1> QED
  BY <1>1, <1>2, TypeInit, TypeStep, OverlapInit, OverlapStep, BudgetInit, PTL DEF Spec

-----------------------------------------------------------------------------
(* No job is left behind. *)

\* A run, the list of a signup or that of an admin's request has the job.
Held(j) ==
  \E r \in Runners : (r # Loop /\ j \in todo[r]) \/ (pc[r] \in Running /\ cur[r] = j)

\* An admin's request has one job to run, and none before or after it runs it.
AdminList ==
  \A m \in Admins : /\ \A i, j \in todo[m] : i = j
                    /\ pc[m] # "pick" => todo[m] = {}

\* The job is finished, waiting or failed, or its outcome was lost.
Settled(j) ==
  \/ job[j].status \notin {"pendiente", "en_proceso"}
  \/ job[j].status = "en_proceso" /\ job[j].kind = "website"
  \/ j \in lost

NoneLeft == AdminList /\ \A j \in Created : Settled(j) \/ Held(j)

\* The end of a run settles its job.
LEMMA FinishSettles ==
  ASSUME TypeOK, SiteRuns, NEW r \in Runners, Finishes(r)
  PROVE  Settled(cur[r])'
<1>0. cur[r] \in Jobs /\ job[cur[r]] \in JobRow
  BY RunningRow DEF Finishes, FinishErp, FinishWhatsApp, FinishWebsite, FinishFailed, Running
<1>1. CASE FinishErp(r) \/ FinishWhatsApp(r) \/ FinishFailed(r)
  BY <1>0, <1>1 DEF FinishErp, FinishWhatsApp, FinishFailed, Finish, SetJob, Settled, TypeOK
<1>2. CASE FinishWebsite(r)
  <2>1. Website(cur[r])
    BY <1>2 DEF FinishWebsite, SiteRuns
  <2> QED
    BY <1>0, <1>2, <2>1 DEF FinishWebsite, Finish, SetJob, Settled, Website, TypeOK
<1> QED
  BY <1>1, <1>2 DEF Finishes

\* A job on a goroutine's list stays there, is run, or is settled.
LEMMA ListGoesOn ==
  ASSUME TypeOK, OverlapInv, AdminList, [Next]_vars, NEW r \in Runners, r # Loop, NEW j \in todo[r]
  PROVE  \/ j \in todo'[r]
         \/ pc'[r] \in Running /\ cur'[r] = j
         \/ Settled(j)'
<1> USE DEF Goto
<1>0. j \in Jobs
  BY DEF TypeOK
<1>1. ASSUME NEW q \in Runners, RunStep(q) \/ LinkLost(q) \/ Expire(q), q # r
      PROVE  j \in todo'[r]
  <2>1. OwnStep(q)
    BY <1>1, RunStepOwn DEF OverlapInv
  <2> QED
    BY <1>1, <2>1 DEF OwnStep
<1>2. ASSUME NEW k \in Jobs, WaitForVPS(r, k)
      PROVE  j \in todo'[r] \/ Settled(j)'
  <2>1. todo' = [todo EXCEPT ![r] = @ \ {k}]
    BY <1>2 DEF WaitForVPS, Take
  <2>2. CASE j = k
    BY <1>0, <1>2, <2>2 DEF WaitForVPS, SetJob, Settled, TypeOK
  <2> QED
    BY <2>1, <2>2 DEF TypeOK
<1>3. ASSUME NEW k \in Jobs, Begins(r, k)
      PROVE  j \in todo'[r] \/ (pc'[r] \in Running /\ cur'[r] = j)
  <2>1. /\ todo' = [todo EXCEPT ![r] = @ \ {k}] /\ cur'[r] = k /\ pc'[r] \in Running
    BY <1>3 DEF Begins, BeginErp, BeginWhatsApp, BeginWebsite, Take, Running, TypeOK
  <2> QED
    BY <2>1 DEF TypeOK
<1>4. ASSUME \/ ScriptPrints(r) \/ ScriptFails(r) \/ SaveConnection(r) \/ RegisterNumber(r) \/ SaveSite(r)
             \/ FileTask(r) \/ EndRun(r) \/ LinkLost(r) \/ Expire(r) \/ Finishes(r)
      PROVE  todo' = todo
  BY <1>4 DEF ScriptPrints, ScriptFails, SaveConnection, RegisterNumber, SaveSite, FileTask, EndRun, LinkLost,
              Expire, Finishes, FinishErp, FinishWhatsApp, FinishWebsite, FinishFailed, Finish
<1>5. ASSUME NEW a \in Accounts, SignupPlan(a)
      PROVE  j \in todo'[r]
  BY <1>5 DEF SignupPlan, OverlapInv, SignupOwns, TypeOK
<1>6. ASSUME NEW a \in Accounts, SignupFails(a)
      PROVE  j \in todo'[r] \/ Settled(j)'
  BY <1>6 DEF SignupFails, Settled, TypeOK
<1>7. ASSUME NEW m \in Admins, AdminRuns(m)
      PROVE  j \in todo'[r]
  BY <1>7 DEF AdminRuns, AdminList, TypeOK
<1>8. ASSUME Restart
      PROVE  Settled(j)'
  <2>1. j \in Owed(r)
    BY DEF Owed, AdminList, Runners
  <2> QED
    BY <1>8, <2>1 DEF Restart, Settled
<1>9. ASSUME \/ \E a \in Accounts : SignupRun(a) \/ ConnectERP(a) \/ DeliverSite(a)
             \/ \E m \in Admins : AdminLists(m) \/ (\E a \in Accounts : AdminOpens(m, a))
             \/ \E k \in Jobs : SkipJob(k)
             \/ \E s \in stray : StrayEnds(s)
             \/ Tick \/ UNCHANGED vars
      PROVE  j \in todo'[r]
  BY <1>9 DEF SignupRun, ConnectERP, DeliverSite, AdminLists, AdminOpens, SkipJob, StrayEnds, Tick, TypeOK, vars
<1> QED
  BY <1>1, <1>2, <1>3, <1>4, <1>5, <1>6, <1>7, <1>8, <1>9 DEF Next, RunStep, Begins, Finishes

\* A job somebody has stays in somebody's hands or is settled.
LEMMA HeldGoesOn ==
  ASSUME TypeOK, OverlapInv, SiteRuns, AdminList, [Next]_vars, NEW j \in Created, Held(j)
  PROVE  Settled(j)' \/ Held(j)'
<1>1. ASSUME NEW r \in Runners, r # Loop, j \in todo[r]
      PROVE  Settled(j)' \/ Held(j)'
  BY <1>1, ListGoesOn DEF Held
<1>2. ASSUME NEW r \in Runners, pc[r] \in Running, cur[r] = j
      PROVE  Settled(j)' \/ Held(j)'
  <2>1. CASE Finishes(r)
    <3>1. Settled(cur[r])'
      BY <2>1, FinishSettles
    <3>2. cur' = cur
      BY <2>1 DEF Finishes, FinishErp, FinishWhatsApp, FinishWebsite, FinishFailed, Finish
    <3> QED
      BY <1>2, <3>1, <3>2 DEF Settled
  <2>2. CASE Restart
    <3>1. j \in Owed(r)
      BY <1>2 DEF Owed
    <3> QED
      BY <2>2, <3>1 DEF Restart, Settled
  <2>3. CASE ~Finishes(r) /\ ~Restart
    <3>1. pc'[r] \in Running /\ cur'[r] = j
      BY <1>2, <2>3, RunsGoOn
    <3> QED
      BY <3>1 DEF Held
  <2> QED
    BY <2>1, <2>2, <2>3
<1> QED
  BY <1>1, <1>2 DEF Held

\* Every step keeps an admin's list to the one job of the request.
LEMMA AdminListStep ==
  ASSUME TypeOK, OverlapInv, AdminList, [Next]_vars
  PROVE  AdminList'
<1> USE DEF Goto
<1> SUFFICES ASSUME NEW m \in Admins
             PROVE  /\ \A i, j \in todo'[m] : i = j
                    /\ pc'[m] # "pick" => todo'[m] = {}
  BY DEF AdminList
<1>0. m \in Runners /\ m # Loop /\ m \notin Accounts
  BY RunnersAssumption DEF Runners
<1>1. ASSUME NEW q \in Runners, RunStep(q) \/ LinkLost(q) \/ Expire(q), q # m
      PROVE  pc'[m] = pc[m] /\ todo'[m] = todo[m]
  <2>1. OwnStep(q)
    BY <1>1, RunStepOwn DEF OverlapInv
  <2> QED
    BY <1>0, <1>1, <2>1 DEF OwnStep
<1>2. ASSUME NEW k \in Jobs, WaitForVPS(m, k) \/ Begins(m, k)
      PROVE  todo'[m] = {}
  <2>1. k \in todo[m] /\ todo'[m] = todo[m] \ {k}
    BY <1>0, <1>2 DEF WaitForVPS, Begins, BeginErp, BeginWhatsApp, BeginWebsite, Take, NextJob, TypeOK
  <2> QED
    BY <2>1 DEF AdminList
<1>3. ASSUME \/ ScriptPrints(m) \/ ScriptFails(m) \/ SaveConnection(m) \/ RegisterNumber(m) \/ SaveSite(m)
             \/ FileTask(m) \/ EndRun(m) \/ LinkLost(m) \/ Finishes(m)
      PROVE  todo'[m] = {}
  BY <1>0, <1>3 DEF ScriptPrints, ScriptFails, SaveConnection, RegisterNumber, SaveSite, FileTask, EndRun, LinkLost,
              Finishes, FinishErp, FinishWhatsApp, FinishWebsite, FinishFailed, Finish, AdminList
<1>4. ASSUME Expire(m)
      PROVE  todo'[m] = todo[m] /\ (pc'[m] = pc[m] \/ pc[m] # "pick")
  BY <1>0, <1>4 DEF Expire, TypeOK
<1>5. ASSUME NEW a \in Accounts, SignupPlan(a) \/ SignupRun(a) \/ SignupFails(a) \/ ConnectERP(a) \/ DeliverSite(a)
      PROVE  pc'[m] = pc[m] /\ todo'[m] = todo[m]
  BY <1>0, <1>5 DEF SignupPlan, SignupRun, SignupFails, ConnectERP, DeliverSite, TypeOK
<1>6. ASSUME NEW n \in Admins, n # m, AdminLists(n) \/ AdminRuns(n) \/ (\E a \in Accounts : AdminOpens(n, a))
      PROVE  pc'[m] = pc[m] /\ todo'[m] = todo[m]
  BY <1>0, <1>6 DEF AdminLists, AdminRuns, AdminOpens, TypeOK
<1>7. ASSUME AdminLists(m) \/ (\E a \in Accounts : AdminOpens(m, a))
      PROVE  todo'[m] = {}
  BY <1>7 DEF AdminLists, AdminOpens, AdminList
<1>8. ASSUME AdminRuns(m)
      PROVE  pc'[m] = "pick" /\ \A i, j \in todo'[m] : i = j
  BY <1>0, <1>8 DEF AdminRuns, TypeOK
<1>9. ASSUME \/ \E k \in Jobs : SkipJob(k)
             \/ \E s \in stray : StrayEnds(s)
             \/ Tick \/ UNCHANGED vars
      PROVE  pc'[m] = pc[m] /\ todo'[m] = todo[m]
  BY <1>0, <1>9 DEF SkipJob, StrayEnds, Tick, TypeOK, vars
<1>10. ASSUME Restart
       PROVE  todo'[m] = {}
  BY <1>0, <1>10 DEF Restart
<1> QED
  BY <1>1, <1>2, <1>3, <1>4, <1>5, <1>6, <1>7, <1>8, <1>9, <1>10 DEF Next, RunStep, Begins, Finishes, AdminList

\* A job that is written is settled, or run by the goroutine that wrote it.
LEMMA WrittenSettles ==
  ASSUME TypeOK, OverlapInv, SiteRuns, [Next]_vars, NEW j \in Created, job'[j] # job[j]
  PROVE  Settled(j)' \/ Held(j)'
<1> USE DEF Goto
<1>0. j \in Jobs
  BY DEF Created
<1>1. PICK r \in Runners : RunStep(r)
  BY RowWritten
<1>2. ASSUME NEW k \in Jobs, WaitForVPS(r, k)
      PROVE  Settled(j)'
  BY <1>0, <1>2 DEF WaitForVPS, SetJob, Settled, TypeOK
<1>3. ASSUME NEW k \in Jobs, BeginErp(r, k)
      PROVE  Held(j)'
  <2>1. k = j
    BY <1>0, <1>3 DEF BeginErp, SetJob, TypeOK
  <2>2. pc'[r] \in Running /\ cur'[r] = k
    BY <1>3 DEF BeginErp, Take, Running, TypeOK
  <2> QED
    BY <2>1, <2>2 DEF Held
<1>4. ASSUME Finishes(r)
      PROVE  Settled(j)'
  <2>1. j = cur[r] /\ cur' = cur
    BY <1>0, <1>4 DEF Finishes, FinishErp, FinishWhatsApp, FinishWebsite, FinishFailed, Finish, SetJob, TypeOK
  <2>2. Settled(cur[r])'
    BY <1>4, FinishSettles
  <2> QED
    BY <2>1, <2>2 DEF Settled
<1>5. ASSUME \/ \E k \in Jobs : BeginWhatsApp(r, k) \/ BeginWebsite(r, k)
             \/ ScriptPrints(r) \/ ScriptFails(r) \/ SaveConnection(r) \/ RegisterNumber(r) \/ SaveSite(r)
             \/ FileTask(r) \/ EndRun(r)
      PROVE  FALSE
  BY <1>5 DEF BeginWhatsApp, BeginWebsite, ScriptPrints, ScriptFails, SaveConnection, RegisterNumber, SaveSite,
              FileTask, EndRun
<1> QED
  BY <1>1, <1>2, <1>3, <1>4, <1>5 DEF RunStep, Finishes

\* A row that is inserted is on the list of whom it was inserted for, or waits
\* for Meta.
LEMMA InsertedHeld ==
  ASSUME TypeOK, OverlapInv, [Next]_vars, NEW j \in Created' \ Created
  PROVE  Settled(j)' \/ Held(j)'
<1>0. j \in Jobs
  BY DEF Created
<1>1. ASSUME NEW a \in Accounts, SignupPlan(a)
      PROVE  Settled(j)' \/ Held(j)'
  <2>1. PICK kinds \in SUBSET Kinds :
          \E f \in NewIds(kinds) :
            /\ job' = Planned(a, kinds, f)
            /\ todo' = [todo EXCEPT ![a] = {f[k] : k \in {x \in kinds : InitialStatus(x) \in Runnable}}]
    BY <1>1 DEF SignupPlan
  <2>2. PICK f \in NewIds(kinds) :
          /\ job' = Planned(a, kinds, f)
          /\ todo' = [todo EXCEPT ![a] = {f[k] : k \in {x \in kinds : InitialStatus(x) \in Runnable}}]
    BY <2>1
  <2>3. \E k \in kinds : f[k] = j
    BY <1>0, <2>2 DEF Planned, Created
  <2> DEFINE w == CHOOSE x \in kinds : f[x] = j
  <2>4. w \in kinds /\ f[w] = j
    BY <2>3
  <2>5. job'[j] = [account |-> a, kind |-> w, status |-> InitialStatus(w), attempts |-> 0]
    BY <1>0, <2>2, <2>3 DEF Planned
  <2>6. a \in Runners /\ a # Loop
    BY RunnersAssumption DEF Runners
  <2> HIDE DEF w
  <2>7. CASE w = "meta"
    BY <2>5, <2>7 DEF Settled, InitialStatus
  <2>8. CASE w # "meta"
    <3>1. InitialStatus(w) \in Runnable
      BY <2>8 DEF InitialStatus, Runnable
    <3>2. j \in todo'[a]
      BY <2>2, <2>4, <2>6, <3>1 DEF TypeOK
    <3> QED
      BY <2>6, <3>2 DEF Held
  <2> QED
    BY <2>7, <2>8
<1>2. ASSUME NEW m \in Admins, AdminRuns(m)
      PROVE  Held(j)'
  <2>1. job' # job /\ m \in Runners /\ m # Loop
    BY RunnersAssumption DEF Created, Runners
  <2>2. PICK f \in NewIds({"erp"}) :
          job' = Planned(target[m], {"erp"}, f) /\ todo' = [todo EXCEPT ![m] = {f["erp"]}]
    BY <1>2, <2>1 DEF AdminRuns
  <2>3. j = f["erp"]
    BY <1>0, <2>2 DEF Planned, Created
  <2>4. j \in todo'[m]
    BY <2>1, <2>2, <2>3 DEF TypeOK
  <2> QED
    BY <2>1, <2>4 DEF Held
<1> QED
  BY <1>1, <1>2, NewRows

\* Every step leaves every job settled or in somebody's hands.
LEMMA NoneLeftStep ==
  ASSUME TypeOK, OverlapInv, SiteRuns, NoneLeft, [Next]_vars
  PROVE  NoneLeft'
<1>1. AdminList'
  BY AdminListStep DEF NoneLeft
<1>2. ASSUME NEW j \in Created'
      PROVE  Settled(j)' \/ Held(j)'
  <2>1. CASE j \notin Created
    BY <1>2, <2>1, InsertedHeld
  <2>2. CASE j \in Created /\ job'[j] # job[j]
    BY <2>2, WrittenSettles
  <2>3. CASE j \in Created /\ job'[j] = job[j]
    <3>1. Settled(j) => Settled(j)'
      BY <2>3, LostGrows DEF Settled
    <3>2. Held(j) => Settled(j)' \/ Held(j)'
      BY <2>3, HeldGoesOn DEF NoneLeft
    <3> QED
      BY <2>3, <3>1, <3>2 DEF NoneLeft
  <2> QED
    BY <2>1, <2>2, <2>3
<1> QED
  BY <1>1, <1>2 DEF NoneLeft

\* Every path out of Run and of Register leaves a job finished, waiting,
\* failed, in somebody's hands or lost.
THEOREM NobodyForgets == Spec => []NoOrphanJob
<1>1. Init => NoneLeft
  BY DEF Init, NoneLeft, AdminList, Created, NoJob, Runners
<1>2. SiteInv => SiteRuns
  BY DEF SiteInv
<1>3. TypeOK /\ OverlapInv /\ SiteRuns /\ NoneLeft /\ [Next]_vars => NoneLeft'
  BY NoneLeftStep
<1>4. NoneLeft => NoOrphanJob
  BY DEF NoneLeft, Settled, Held, NoOrphanJob
<1> QED
  BY <1>1, <1>2, <1>3, <1>4, TypeInit, TypeStep, OverlapInit, OverlapStep, SiteInductive, PTL DEF Spec

-----------------------------------------------------------------------------
(* The stored credentials are the last ones set. *)

\* The goroutine is between starting an account's script and storing what it
\* printed.
Sets(r, a) == pc[r] \in {"script", "printed"} /\ AccountOf(r) = a

\* As long as an account is not provisioned over another run, one run or one
\* stray script is setting its credentials, none once they are stored, and
\* what a run printed is what the VPS has.
OneSetter ==
  \A a \in Accounts : ~dup[a] =>
    /\ \A r, q \in Runners : Sets(r, a) /\ Sets(q, a) => r = q
    /\ \A r \in Runners, s \in stray : ~(Sets(r, a) /\ s[1] = a)
    /\ \A s, t \in stray : s[1] = a /\ t[1] = a => s = t
    /\ conn[a].by = "vps" => conn[a].cred = vps[a] /\ ~Busy(a)
    /\ \A r \in Runners : Sets(r, a) /\ pc[r] = "printed" => cred[r] = vps[a]

\* The actions that leave the scripts and the credentials alone.
LEMMA SetterUnchanged ==
  ASSUME TypeOK, OverlapInv, OneSetter, [Next]_vars, UNCHANGED <<conn, vps, stray, dup, cred>>,
         \A r \in Runners : pc'[r] \in {"script", "printed"} => pc'[r] = pc[r] /\ cur'[r] = cur[r]
  PROVE  OneSetter'
<1>1. ASSUME NEW r \in Runners, NEW a \in Accounts, Sets(r, a)'
      PROVE  Sets(r, a) /\ pc'[r] = pc[r]
  <2>1. pc'[r] \in {"script", "printed"} /\ job'[cur'[r]].account = a
    BY <1>1 DEF Sets, AccountOf
  <2>2. pc[r] = pc'[r] /\ cur'[r] = cur[r]
    BY <2>1
  <2>3. cur[r] \in Created
    BY <2>1, <2>2 DEF OverlapInv, HoldsRows, Touched, Running
  <2>4. job'[cur[r]].account = job[cur[r]].account
    BY <2>3, RowsStay
  <2> QED
    BY <2>1, <2>2, <2>4 DEF Sets, AccountOf
<1>2. ASSUME NEW a \in Accounts, Busy(a)'
      PROVE  Busy(a)
  BY <1>1, <1>2 DEF Busy, Sets
<1> SUFFICES ASSUME NEW a \in Accounts, ~dup'[a]
             PROVE  /\ \A r, q \in Runners : Sets(r, a)' /\ Sets(q, a)' => r = q
                    /\ \A r \in Runners, s \in stray' : ~(Sets(r, a)' /\ s[1] = a)
                    /\ \A s, t \in stray' : s[1] = a /\ t[1] = a => s = t
                    /\ conn'[a].by = "vps" => conn'[a].cred = vps'[a] /\ ~Busy(a)'
                    /\ \A r \in Runners : Sets(r, a)' /\ pc'[r] = "printed" => cred'[r] = vps'[a]
  BY DEF OneSetter
<1> HIDE DEF Sets, Busy
<1> QED
  BY <1>1, <1>2 DEF OneSetter

\* A goroutine that goes on setting an account's credentials set them before.
LEMMA SetsStay ==
  ASSUME TypeOK, OverlapInv, [Next]_vars, NEW q \in Runners, pc[q] \in Running, cur'[q] = cur[q]
  PROVE  AccountOf(q)' = AccountOf(q)
<1>1. cur[q] \in Created
  BY DEF OverlapInv, HoldsRows, Touched
<1>2. job'[cur[q]].account = job[cur[q]].account
  BY <1>1, RowsStay
<1> QED
  BY <1>2 DEF AccountOf

\* A step of one goroutine takes nobody else to or from an account's script.
LEMMA OthersSet ==
  ASSUME TypeOK, OverlapInv, [Next]_vars, NEW r \in Runners, OwnStep(r),
         NEW q \in Runners, q # r, NEW a \in Accounts
  PROVE  /\ Sets(q, a)' <=> Sets(q, a)
         /\ pc'[q] = pc[q]
<1>1. pc'[q] = pc[q] /\ cur'[q] = cur[q]
  BY DEF OwnStep
<1>2. pc[q] \in Running => AccountOf(q)' = AccountOf(q)
  BY <1>1, SetsStay
<1> QED
  BY <1>1, <1>2 DEF Sets, Running

\* A goroutine leaves an account's script, stored or not: nobody else starts.
LEMMA SetterLeaves ==
  ASSUME TypeOK, OverlapInv, OneSetter, [Next]_vars, NEW r \in Runners, OwnStep(r),
         pc[r] \in {"script", "printed"}, pc'[r] \notin {"script", "printed"},
         UNCHANGED <<dup, cred>>,
         \/ UNCHANGED <<conn, vps, stray>>
         \/ UNCHANGED <<conn, stray>> /\ vps' = [vps EXCEPT ![AccountOf(r)] = @ + 1]
         \/ UNCHANGED <<conn, vps>> /\ stray' = stray \cup {<<AccountOf(r), faults, r>>}
         \/ /\ UNCHANGED <<vps, stray>> /\ pc[r] = "printed"
            /\ conn' = [conn EXCEPT ![AccountOf(r)] = [by |-> "vps", cred |-> cred[r]]]
  PROVE  OneSetter'
<1> SUFFICES ASSUME NEW a \in Accounts, ~dup[a]
             PROVE  /\ \A p, q \in Runners : Sets(p, a)' /\ Sets(q, a)' => p = q
                    /\ \A q \in Runners, s \in stray' : ~(Sets(q, a)' /\ s[1] = a)
                    /\ \A s, t \in stray' : s[1] = a /\ t[1] = a => s = t
                    /\ conn'[a].by = "vps" => conn'[a].cred = vps'[a] /\ ~Busy(a)'
                    /\ \A q \in Runners : Sets(q, a)' /\ pc'[q] = "printed" => cred'[q] = vps'[a]
  BY DEF OneSetter
<1>1. \A q \in Runners : Sets(q, a)' => Sets(q, a) /\ q # r /\ pc'[q] = pc[q]
  <2>1. ~Sets(r, a)'
    BY DEF Sets
  <2> QED
    BY <2>1, OthersSet
<1>2. /\ \A p, q \in Runners : Sets(p, a) /\ Sets(q, a) => p = q
      /\ \A q \in Runners, s \in stray : ~(Sets(q, a) /\ s[1] = a)
      /\ \A s, t \in stray : s[1] = a /\ t[1] = a => s = t
      /\ conn[a].by = "vps" => conn[a].cred = vps[a] /\ ~Busy(a)
      /\ \A q \in Runners : Sets(q, a) /\ pc[q] = "printed" => cred[q] = vps[a]
  BY DEF OneSetter
<1>3. Busy(a) <=> (\E q \in Runners : Sets(q, a)) \/ (\E s \in stray : s[1] = a)
  BY DEF Busy, Sets
<1>4. Busy(a)' <=> (\E q \in Runners : Sets(q, a)') \/ (\E s \in stray' : s[1] = a)
  BY DEF Busy, Sets
<1>5. Sets(r, a) <=> AccountOf(r) = a
  BY DEF Sets
<1> HIDE DEF Sets, Busy, AccountOf
<1>6. CASE AccountOf(r) # a
  <2>1. conn'[a] = conn[a] /\ vps'[a] = vps[a]
    BY <1>6 DEF TypeOK
  <2>2. \A s \in stray' : s[1] = a => s \in stray
    BY <1>6
  <2> QED
    BY <1>1, <1>2, <1>3, <1>4, <2>1, <2>2
<1>7. CASE AccountOf(r) = a
  <2>1. \A q \in Runners : ~Sets(q, a)'
    BY <1>1, <1>2, <1>5, <1>7
  <2>2. \A s \in stray : s[1] # a
    BY <1>2, <1>5, <1>7
  <2>3. conn[a].by # "vps"
    BY <1>2, <1>3, <1>5, <1>7
  <2>4. \A s, t \in stray' : s[1] = a /\ t[1] = a => s = t
    BY <2>2
  <2>5. conn'[a].by = "vps" => conn'[a].cred = vps'[a] /\ \A s \in stray' : s[1] # a
    <3>1. CASE conn' = conn
      BY <2>3, <3>1
    <3>2. CASE conn' # conn
      <4>1. stray' = stray /\ vps' = vps /\ pc[r] = "printed"
            /\ conn' = [conn EXCEPT ![a] = [by |-> "vps", cred |-> cred[r]]]
        BY <1>7, <3>2
      <4>2. cred[r] = vps[a]
        BY <1>2, <1>5, <1>7, <4>1
      <4>3. conn'[a].cred = cred[r]
        BY <4>1 DEF TypeOK
      <4> QED
        BY <2>2, <4>1, <4>2, <4>3
    <3> QED
      BY <3>1, <3>2
  <2> QED
    BY <1>4, <2>1, <2>4, <2>5
<1> QED
  BY <1>6, <1>7

\* A script starts where nothing else is setting credentials, or over a run.
LEMMA SetterBegins ==
  ASSUME TypeOK, OverlapInv, OneSetter, [Next]_vars, NEW r \in Runners, NEW j \in Jobs, BeginErp(r, j)
  PROVE  OneSetter'
<1>0. OwnStep(r)
  BY RunStepOwn DEF OverlapInv, RunStep
<1>1. /\ pc[r] = "pick" /\ cur' = [cur EXCEPT ![r] = j]
      /\ conn' = conn /\ vps' = vps /\ stray' = stray /\ cred' = cred
      /\ pc' = [pc EXCEPT ![r] = IF r \in expired THEN "failed" ELSE "script"]
  BY DEF BeginErp, Take, NextJob, Goto, external
<1>2. CASE r \in expired
  <2>1. dup' = dup
    BY <1>2 DEF BeginErp
  <2>2. \A q \in Runners : pc'[q] \in {"script", "printed"} => pc'[q] = pc[q] /\ cur'[q] = cur[q]
    BY <1>1, <1>2 DEF TypeOK
  <2> QED
    BY <1>1, <2>1, <2>2, SetterUnchanged
<1>3. CASE r \notin expired
  <2> DEFINE b == job[j].account
  <2>1. dup' = [dup EXCEPT ![b] = @ \/ Busy(b) \/ conn[b].by = "vps"]
    BY <1>3 DEF BeginErp
  <2>2. j \in Created /\ b \in Accounts
    BY DEF BeginErp, Take, NextJob, OverlapInv, HoldsRows, Touched, TypeOK, JobRow
  <2>3. AccountOf(r)' = b /\ pc'[r] = "script"
    <3>1. job'[j].account = job[j].account
      BY <2>2, RowsStay
    <3> QED
      BY <1>1, <1>3, <3>1 DEF AccountOf, TypeOK
  <2>4. \A a \in Accounts : Sets(r, a)' <=> a = b
    BY <2>3 DEF Sets
  <2>5. \A a \in Accounts : \A q \in Runners \ {r} : (Sets(q, a)' <=> Sets(q, a)) /\ pc'[q] = pc[q]
    BY <1>0, OthersSet
  <2> SUFFICES ASSUME NEW a \in Accounts, ~dup'[a]
               PROVE  /\ \A p, q \in Runners : Sets(p, a)' /\ Sets(q, a)' => p = q
                      /\ \A q \in Runners, s \in stray' : ~(Sets(q, a)' /\ s[1] = a)
                      /\ \A s, t \in stray' : s[1] = a /\ t[1] = a => s = t
                      /\ conn'[a].by = "vps" => conn'[a].cred = vps'[a] /\ ~Busy(a)'
                      /\ \A q \in Runners : Sets(q, a)' /\ pc'[q] = "printed" => cred'[q] = vps'[a]
    BY DEF OneSetter
  <2>6. ~dup[a] /\ (a = b => ~Busy(a) /\ conn[a].by # "vps")
    <3> HIDE DEF b
    <3>1. CASE a = b
      <4> HIDE DEF Busy
      <4>1. dup'[a] = (dup[a] \/ Busy(a) \/ conn[a].by = "vps")
        BY <2>1, <2>2, <3>1, Zenon DEF TypeOK
      <4> QED
        BY <3>1, <4>1
    <3>2. CASE a # b
      BY <2>1, <3>2, Zenon DEF TypeOK
    <3> QED
      BY <3>1, <3>2
  <2>7. /\ \A p, q \in Runners : Sets(p, a) /\ Sets(q, a) => p = q
        /\ \A q \in Runners, s \in stray : ~(Sets(q, a) /\ s[1] = a)
        /\ \A s, t \in stray : s[1] = a /\ t[1] = a => s = t
        /\ conn[a].by = "vps" => conn[a].cred = vps[a] /\ ~Busy(a)
        /\ \A q \in Runners : Sets(q, a) /\ pc[q] = "printed" => cred[q] = vps[a]
    BY <2>6 DEF OneSetter
  <2>8. Busy(a) <=> (\E q \in Runners : Sets(q, a)) \/ (\E s \in stray : s[1] = a)
    BY DEF Busy, Sets
  <2>9. Busy(a)' <=> (\E q \in Runners : Sets(q, a)') \/ (\E s \in stray' : s[1] = a)
    BY DEF Busy, Sets
  <2> HIDE DEF Sets, Busy, AccountOf, b
  <2>10. CASE a = b
    BY <1>1, <2>3, <2>5, <2>6, <2>7, <2>8, <2>9, <2>10
  <2>11. CASE a # b
    BY <1>1, <2>4, <2>5, <2>7, <2>8, <2>9, <2>11
  <2> QED
    BY <2>10, <2>11
<1> QED
  BY <1>2, <1>3

\* What a script prints is what it set.
LEMMA SetterPrints ==
  ASSUME TypeOK, OverlapInv, OneSetter, [Next]_vars, NEW r \in Runners, ScriptPrints(r)
  PROVE  OneSetter'
<1>0. OwnStep(r)
  BY RunStepOwn DEF OverlapInv, RunStep
<1> DEFINE b == AccountOf(r)
<1>1. /\ pc[r] = "script" /\ pc'[r] = "printed"
      /\ conn' = conn /\ stray' = stray /\ dup' = dup /\ cur' = cur
      /\ vps' = [vps EXCEPT ![b] = @ + 1] /\ cred' = [cred EXCEPT ![r] = vps[b] + 1]
  BY DEF ScriptPrints, Goto, history, TypeOK
<1>2. AccountOf(r)' = b /\ b \in Accounts
  <2>1. cur[r] \in Jobs
    BY <1>1 DEF TypeOK, Running
  <2> QED
    BY <1>1, <2>1, SetsStay DEF Running, AccountOf, TypeOK, JobRow
<1>3. \A a \in Accounts : (Sets(r, a)' <=> a = b) /\ (Sets(r, a) <=> a = b)
  BY <1>1, <1>2 DEF Sets
<1>4. \A a \in Accounts : \A q \in Runners \ {r} : (Sets(q, a)' <=> Sets(q, a)) /\ pc'[q] = pc[q]
  BY <1>0, OthersSet
<1> SUFFICES ASSUME NEW a \in Accounts, ~dup[a]
             PROVE  /\ \A p, q \in Runners : Sets(p, a)' /\ Sets(q, a)' => p = q
                    /\ \A q \in Runners, s \in stray' : ~(Sets(q, a)' /\ s[1] = a)
                    /\ \A s, t \in stray' : s[1] = a /\ t[1] = a => s = t
                    /\ conn'[a].by = "vps" => conn'[a].cred = vps'[a] /\ ~Busy(a)'
                    /\ \A q \in Runners : Sets(q, a)' /\ pc'[q] = "printed" => cred'[q] = vps'[a]
  BY <1>1 DEF OneSetter
<1>5. /\ \A p, q \in Runners : Sets(p, a) /\ Sets(q, a) => p = q
      /\ \A q \in Runners, s \in stray : ~(Sets(q, a) /\ s[1] = a)
      /\ \A s, t \in stray : s[1] = a /\ t[1] = a => s = t
      /\ conn[a].by = "vps" => conn[a].cred = vps[a] /\ ~Busy(a)
      /\ \A q \in Runners : Sets(q, a) /\ pc[q] = "printed" => cred[q] = vps[a]
  BY DEF OneSetter
<1>6. Busy(a) <=> (\E q \in Runners : Sets(q, a)) \/ (\E s \in stray : s[1] = a)
  BY DEF Busy, Sets
<1>7. Busy(a)' <=> (\E q \in Runners : Sets(q, a)') \/ (\E s \in stray' : s[1] = a)
  BY DEF Busy, Sets
<1>8. /\ \A q \in Runners \ {r} : cred'[q] = cred[q]
      /\ cred'[r] = vps[b] + 1 /\ vps'[b] = vps[b] + 1
      /\ a # b => vps'[a] = vps[a]
  BY <1>1, <1>2 DEF TypeOK
<1> HIDE DEF Sets, Busy, AccountOf, b
<1>9. CASE a = b
  <2>1. conn[a].by # "vps"
    BY <1>3, <1>5, <1>6, <1>9
  <2>2. \A q \in Runners : Sets(q, a)' => q = r
    BY <1>3, <1>4, <1>5, <1>9
  <2> QED
    BY <1>1, <1>3, <1>5, <1>8, <1>9, <2>1, <2>2
<1>10. CASE a # b
  <2>1. \A q \in Runners : Sets(q, a)' => Sets(q, a) /\ q # r /\ pc'[q] = pc[q]
    BY <1>3, <1>4, <1>10
  <2> QED
    BY <1>1, <1>5, <1>6, <1>7, <1>8, <1>10, <2>1
<1> QED
  BY <1>9, <1>10

\* Scripts end, fail, lose their link or their time, or are stored.
LEMMA SetterEnds ==
  ASSUME TypeOK, OverlapInv, OneSetter, [Next]_vars, NEW r \in Runners,
         ScriptFails(r) \/ LinkLost(r) \/ SaveConnection(r) \/ (Expire(r) /\ pc[r] = "script")
  PROVE  OneSetter'
<1>0. OwnStep(r)
  BY RunStepOwn DEF OverlapInv, RunStep
<1>1. /\ pc[r] \in {"script", "printed"} /\ pc'[r] \notin {"script", "printed"}
      /\ UNCHANGED <<dup, cred>>
  BY DEF ScriptFails, LinkLost, SaveConnection, Expire, Goto, history, TypeOK
<1>2. \/ UNCHANGED <<conn, vps, stray>>
      \/ UNCHANGED <<conn, stray>> /\ vps' = [vps EXCEPT ![AccountOf(r)] = @ + 1]
      \/ UNCHANGED <<conn, vps>> /\ stray' = stray \cup {<<AccountOf(r), faults, r>>}
      \/ /\ UNCHANGED <<vps, stray>> /\ pc[r] = "printed"
         /\ conn' = [conn EXCEPT ![AccountOf(r)] = [by |-> "vps", cred |-> cred[r]]]
  BY DEF ScriptFails, LinkLost, SaveConnection, Expire
<1> QED
  BY <1>0, <1>1, <1>2, SetterLeaves

\* The owner, a script nobody listens to.
LEMMA SetterOutside ==
  ASSUME TypeOK, OverlapInv, OneSetter, [Next]_vars,
         (\E b \in Accounts : ConnectERP(b)) \/ (\E s \in stray : StrayEnds(s))
  PROVE  OneSetter'
<1>1. UNCHANGED <<pc, cur, job, cred, dup>>
  BY DEF ConnectERP, StrayEnds, history
<1>2. \A a \in Accounts : \A q \in Runners : Sets(q, a)' <=> Sets(q, a)
  BY <1>1 DEF Sets, AccountOf
<1> SUFFICES ASSUME NEW a \in Accounts, ~dup[a]
             PROVE  /\ \A p, q \in Runners : Sets(p, a)' /\ Sets(q, a)' => p = q
                    /\ \A q \in Runners, s \in stray' : ~(Sets(q, a)' /\ s[1] = a)
                    /\ \A s, t \in stray' : s[1] = a /\ t[1] = a => s = t
                    /\ conn'[a].by = "vps" => conn'[a].cred = vps'[a] /\ ~Busy(a)'
                    /\ \A q \in Runners : Sets(q, a)' /\ pc'[q] = "printed" => cred'[q] = vps'[a]
  BY <1>1 DEF OneSetter
<1>3. /\ \A p, q \in Runners : Sets(p, a) /\ Sets(q, a) => p = q
      /\ \A q \in Runners, s \in stray : ~(Sets(q, a) /\ s[1] = a)
      /\ \A s, t \in stray : s[1] = a /\ t[1] = a => s = t
      /\ conn[a].by = "vps" => conn[a].cred = vps[a] /\ ~Busy(a)
      /\ \A q \in Runners : Sets(q, a) /\ pc[q] = "printed" => cred[q] = vps[a]
  BY DEF OneSetter
<1>4. Busy(a) <=> (\E q \in Runners : Sets(q, a)) \/ (\E s \in stray : s[1] = a)
  BY DEF Busy, Sets
<1>5. Busy(a)' <=> (\E q \in Runners : Sets(q, a)') \/ (\E s \in stray' : s[1] = a)
  BY DEF Busy, Sets
<1> HIDE DEF Sets, Busy
<1>6. ASSUME NEW b \in Accounts, ConnectERP(b)
      PROVE  /\ stray' = stray /\ vps' = vps
             /\ conn'[a].by = "vps" => conn'[a] = conn[a]
  BY <1>6 DEF ConnectERP, TypeOK
<1>7. ASSUME NEW s \in stray, StrayEnds(s)
      PROVE  /\ stray' \subseteq stray /\ conn' = conn
             /\ s[1] # a => vps'[a] = vps[a]
  BY <1>7 DEF StrayEnds, TypeOK
<1>8. CASE \E b \in Accounts : ConnectERP(b)
  BY <1>1, <1>2, <1>3, <1>4, <1>5, <1>6, <1>8
<1>9. CASE \E s \in stray : StrayEnds(s)
  <2>1. PICK s \in stray : StrayEnds(s)
    BY <1>9
  <2>2. CASE s[1] = a
    <3>1. conn[a].by # "vps" /\ \A q \in Runners : ~Sets(q, a)
      BY <1>3, <1>4, <2>2
    <3> QED
      BY <1>2, <1>3, <1>7, <2>1, <3>1
  <2>3. CASE s[1] # a
    BY <1>1, <1>2, <1>3, <1>4, <1>5, <1>7, <2>1, <2>3
  <2> QED
    BY <2>2, <2>3
<1> QED
  BY <1>8, <1>9

\* A restart ends every run; the scripts that go on were the accounts' only ones.
LEMMA SetterRestarts ==
  ASSUME TypeOK, OverlapInv, OneSetter, Restart
  PROVE  OneSetter'
<1>1. UNCHANGED <<conn, vps, dup, cred>>
  BY DEF Restart
<1>2. \A q \in Runners, a \in Accounts : ~Sets(q, a)'
  BY DEF Restart, Sets
<1>3. PICK survivors \in SUBSET {r \in Runners : pc[r] = "script"} :
        stray' = stray \cup {<<AccountOf(r), faults, r>> : r \in survivors}
  BY DEF Restart
<1> SUFFICES ASSUME NEW a \in Accounts, ~dup[a]
             PROVE  /\ \A s, t \in stray' : s[1] = a /\ t[1] = a => s = t
                    /\ conn[a].by = "vps" => conn[a].cred = vps[a] /\ \A s \in stray' : s[1] # a
  <2>1. \A b \in Accounts : Busy(b)' <=> (\E q \in Runners : Sets(q, b)') \/ (\E s \in stray' : s[1] = b)
    BY DEF Busy, Sets
  <2> HIDE DEF Sets, Busy
  <2> QED
    BY <1>1, <1>2, <2>1 DEF OneSetter
<1>4. /\ \A p, q \in Runners : Sets(p, a) /\ Sets(q, a) => p = q
      /\ \A q \in Runners, s \in stray : ~(Sets(q, a) /\ s[1] = a)
      /\ \A s, t \in stray : s[1] = a /\ t[1] = a => s = t
      /\ conn[a].by = "vps" => conn[a].cred = vps[a] /\ ~Busy(a)
  BY DEF OneSetter
<1>5. Busy(a) <=> (\E q \in Runners : Sets(q, a)) \/ (\E s \in stray : s[1] = a)
  BY DEF Busy, Sets
<1>6. ASSUME NEW s \in stray', s[1] = a
      PROVE  s \in stray \/ \E r \in Runners : Sets(r, a) /\ s = <<AccountOf(r), faults, r>>
  BY <1>3, <1>6 DEF Sets
<1> HIDE DEF Sets, Busy, AccountOf
<1> QED
  BY <1>4, <1>5, <1>6

\* Every step keeps an account's credentials with one setter.
LEMMA OneSetterStep ==
  ASSUME TypeOK, OverlapInv, OneSetter, [Next]_vars
  PROVE  OneSetter'
<1> USE DEF Goto
<1>1. ASSUME NEW r \in Runners,
             \/ \E j \in Jobs : WaitForVPS(r, j) \/ BeginWhatsApp(r, j) \/ BeginWebsite(r, j)
             \/ RegisterNumber(r) \/ SaveSite(r) \/ FileTask(r) \/ EndRun(r)
             \/ Finishes(r)
      PROVE  OneSetter'
  <2>1. UNCHANGED <<conn, vps, stray, dup, cred>>
    BY <1>1 DEF WaitForVPS, BeginWhatsApp, BeginWebsite, RegisterNumber, SaveSite, FileTask, EndRun, Finishes,
                FinishErp, FinishWhatsApp, FinishWebsite, FinishFailed, Finish, external, history
  <2>2. OwnStep(r)
    BY <1>1, RunStepOwn DEF OverlapInv, RunStep, Finishes
  <2>3. pc'[r] \in {"script", "printed"} => pc'[r] = pc[r] /\ cur'[r] = cur[r]
    <3>1. ASSUME NEW j \in Jobs, WaitForVPS(r, j) \/ BeginWhatsApp(r, j) \/ BeginWebsite(r, j)
          PROVE  pc'[r] \notin {"script", "printed"}
      BY <3>1 DEF WaitForVPS, BeginWhatsApp, BeginWebsite, Take, NextJob, TypeOK
    <3>2. ASSUME RegisterNumber(r) \/ SaveSite(r) \/ FileTask(r) \/ EndRun(r)
          PROVE  pc'[r] \notin {"script", "printed"}
      BY <3>2 DEF RegisterNumber, SaveSite, FileTask, EndRun, TypeOK
    <3>3. ASSUME Finishes(r)
          PROVE  pc'[r] \notin {"script", "printed"}
      BY <3>3 DEF Finishes, FinishErp, FinishWhatsApp, FinishWebsite, FinishFailed, Finish, TypeOK
    <3> QED
      BY <1>1, <3>1, <3>2, <3>3
  <2>4. \A q \in Runners : pc'[q] \in {"script", "printed"} => pc'[q] = pc[q] /\ cur'[q] = cur[q]
    BY <2>2, <2>3 DEF OwnStep
  <2> QED
    BY <2>1, <2>4, SetterUnchanged
<1>2. ASSUME NEW r \in Runners, Expire(r), pc[r] # "script"
      PROVE  OneSetter'
  <2>1. UNCHANGED <<conn, vps, stray, dup, cred, cur>>
    BY <1>2 DEF Expire, history
  <2>2. \A q \in Runners : pc'[q] \in {"script", "printed"} => pc'[q] = pc[q]
    BY <1>2 DEF Expire, TypeOK
  <2> QED
    BY <2>1, <2>2, SetterUnchanged
<1>3. ASSUME \/ \E a \in Accounts : SignupPlan(a) \/ SignupRun(a) \/ SignupFails(a) \/ DeliverSite(a)
             \/ \E j \in Jobs : SkipJob(j)
             \/ Tick \/ UNCHANGED vars
      PROVE  OneSetter'
  <2>1. UNCHANGED <<conn, vps, stray, dup, cred, cur>>
    BY <1>3 DEF SignupPlan, SignupRun, SignupFails, DeliverSite, SkipJob, Tick, external, history, vars
  <2>2. \A q \in Runners : pc'[q] \in {"script", "printed"} => pc'[q] = pc[q]
    BY <1>3 DEF SignupPlan, SignupRun, SignupFails, DeliverSite, SkipJob, Tick, TypeOK, vars
  <2> QED
    BY <2>1, <2>2, SetterUnchanged
<1>4. ASSUME NEW m \in Admins, AdminLists(m) \/ AdminRuns(m) \/ (\E a \in Accounts : AdminOpens(m, a))
      PROVE  OneSetter'
  <2>1. UNCHANGED <<conn, vps, stray, dup, cred>>
    BY <1>4 DEF AdminLists, AdminRuns, AdminOpens, external, history
  <2>2. \A q \in Runners : pc'[q] \in {"script", "printed"} => pc'[q] = pc[q] /\ q # m
    BY <1>4 DEF AdminLists, AdminRuns, AdminOpens, TypeOK, Runners
  <2>3. \A q \in Runners : q # m => cur'[q] = cur[q]
    BY <1>4 DEF AdminLists, AdminRuns, AdminOpens, TypeOK
  <2> QED
    BY <2>1, <2>2, <2>3, SetterUnchanged
<1> QED
  BY <1>1, <1>2, <1>3, <1>4, SetterBegins, SetterPrints, SetterEnds, SetterOutside, SetterRestarts
  DEF Next, RunStep, Finishes

\* What Andrho stored is what the VPS last set, whatever deadline, broken link,
\* failed write or restart came between, as long as nobody had the account
\* provisioned over another run.
THEOREM CredentialsStayCurrent == Spec => []CredentialsCurrent
<1>1. Init => OneSetter
  BY DEF Init, OneSetter, Sets, Busy, NoConn
<1>2. TypeOK /\ OverlapInv /\ OneSetter /\ [Next]_vars => OneSetter'
  BY OneSetterStep
<1>3. OneSetter => CredentialsCurrent
  BY DEF OneSetter, CredentialsCurrent
<1> QED
  BY <1>1, <1>2, <1>3, TypeInit, TypeStep, OverlapInit, OverlapStep, PTL DEF Spec
=============================================================================
