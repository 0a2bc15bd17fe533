---------------------------- MODULE Provisioning ----------------------------
(***************************************************************************)
(* Provisioning of an account's services: the provisioning_jobs table, the *)
(* goroutines that run jobs (the RunAll of a signup, the RunAll of an      *)
(* admin request and the RetryLoop), the scripts on the VPS, and what a    *)
(* run leaves behind: the stored Odoo access, the account's site and the   *)
(* Creators' website tasks.                                                *)
(*                                                                         *)
(* Every database statement is one atomic step; between two of them any    *)
(* other goroutine, the VPS, a restart or a deadline may act.              *)
(***************************************************************************)
EXTENDS Naturals, FiniteSets

CONSTANTS
  Accounts,    \* accounts; each also names the goroutine of its signup
  Admins,      \* admin requests POST /admin/accounts/:site_id/erp, used once
  Loop,        \* the RetryLoop goroutine
  MaxJobs,     \* bound on the rows of provisioning_jobs
  MaxTries,    \* the loop gives up at this many attempts (5 in the code)
  RetryBatch,  \* rows one pass of the loop reads (LIMIT 50 in the code)
  MaxFaults    \* bound on restarts, deadlines, lost links and failed writes

ASSUME RunnersAssumption ==
  /\ Accounts # {}
  /\ Accounts \cap Admins = {}
  /\ Loop \notin Accounts \cup Admins

ASSUME BoundsAssumption ==
  /\ MaxJobs \in Nat /\ MaxTries \in Nat \ {0}
  /\ RetryBatch \in Nat /\ MaxFaults \in Nat

VARIABLES
  stage,     \* how far the signup of an account is
  job,       \* table provisioning_jobs, in order of creation
  conn,      \* table odoo_connections: who set it and which credentials
  site,      \* table account_sites: status of the account's site
  siteTasks, \* website tasks filed for a job in creator_tasks
  vpsOn,     \* VPS_HOST is configured in this process
  vps,       \* how often the VPS has set an account's password and secret
  stray,     \* scripts still running on the VPS that nobody listens to
  pc,        \* where a goroutine is
  todo,      \* the jobs a goroutine has still to run, as it read them
  cur,       \* the job it is running
  cred,      \* the credentials the script of its run printed
  target,    \* the account of an admin request
  expired,   \* goroutines whose 20-minute context is over
  faults,    \* restarts, deadlines, lost links and failed writes so far
  lost,      \* history: jobs whose run could not record its outcome
  dup,       \* history: accounts whose ERP was provisioned over another run
  tries      \* history: runs of a job started without an admin asking

vars == <<stage, job, conn, site, siteTasks, vpsOn, vps, stray, pc, todo, cur,
          cred, target, expired, faults, lost, dup, tries>>

history  == <<lost, dup, tries>>
external == <<vps, stray, conn, site, siteTasks>>

Jobs     == 1 .. MaxJobs
Runners  == Accounts \cup Admins \cup {Loop}
Kinds    == {"erp", "whatsapp", "website", "meta"}
Statuses == {"none", "pendiente", "en_proceso", "listo", "esperando_vps",
             "esperando_meta", "error"}
Points   == {"idle", "listing", "planning", "pick", "script", "printed",
             "saved", "register", "registered", "site", "filing", "filed",
             "failed", "ended"}

\* Points between taking a job and recording its outcome.
Running == {"script", "printed", "saved", "register", "registered", "site", "filing",
            "filed", "failed"}

JobRow   == [account : Accounts, kind : Kinds, status : Statuses, attempts : Nat]
ConnRow  == [by : {"none", "owner", "vps"}, cred : Nat]
AnyAccount == CHOOSE a \in Accounts : TRUE
NoJob    == [account |-> AnyAccount, kind |-> "erp", status |-> "none", attempts |-> 0]
NoConn   == [by |-> "none", cred |-> 0]

TypeOK ==
  /\ stage \in [Accounts -> {"created", "planned", "live"}]
  /\ job \in [Jobs -> JobRow]
  /\ conn \in [Accounts -> ConnRow]
  /\ site \in [Accounts -> {"none", "construyendo", "publicado"}]
  /\ siteTasks \in [Jobs -> Nat]
  /\ vpsOn \in BOOLEAN
  /\ vps \in [Accounts -> Nat]
  /\ stray \subseteq Accounts \X Nat \X Runners
  /\ pc \in [Runners -> Points]
  /\ todo \in [Runners -> SUBSET Jobs]
  /\ cur \in [Runners -> Jobs \cup {0}]
  /\ \A r \in Runners : pc[r] \in Running => cur[r] \in Jobs
  /\ cred \in [Runners -> Nat]
  /\ target \in [Admins -> Accounts]
  /\ expired \subseteq Runners
  /\ faults \in Nat
  /\ lost \subseteq Jobs
  /\ dup \in [Accounts -> BOOLEAN]
  /\ tries \in [Jobs -> Nat]

Created      == {j \in Jobs : job[j].status # "none"}
AccountOf(r) == job[cur[r]].account
ErpJobs(a)   == {j \in Created : job[j].account = a /\ job[j].kind = "erp"}

-----------------------------------------------------------------------------
(* What the code decides on. An operator with a longer name just before the
   one it resembles is that one with a slip; PROJECT.json's mutants put it in
   its place to see that a property notices. *)

\* Statuses a job starts in (Plan).
InitialStatusMistyped(k) == IF k = "meta" THEN "waiting_meta" ELSE "pendiente"
InitialStatus(k) == IF k = "meta" THEN "esperando_meta" ELSE "pendiente"

\* Statuses RunAll runs a job in.
RunnableLater == {"esperando_vps", "error"}
Runnable == {"pendiente", "esperando_vps", "error"}

\* Statuses the loop asks the database for.
RetryRunningToo == {"esperando_vps", "error", "en_proceso"}
RetryOnlyVPS == {"esperando_vps"}
RetryStatuses == {"esperando_vps", "error"}

\* A job the loop has given up on.
GaveUpOneLate(j) == job[j].attempts > MaxTries
GaveUp(j) == job[j].attempts >= MaxTries

Waiting == {j \in Created : job[j].status \in RetryStatuses}

\* The rows one pass of the loop reads: the oldest ones, given up or not.
Batch ==
  {j \in Waiting : Cardinality({k \in Waiting : k < j}) < RetryBatch}

\* The order in which Plan creates and RunAll runs the jobs of a signup.
Rank(k) ==
  CASE k = "erp" -> 1 [] k = "whatsapp" -> 2 [] k = "website" -> 3 [] k = "meta" -> 4

\* The ids the next rows get: the first free ones, in Plan's order.
NewIds(kinds) ==
  {f \in [kinds -> Jobs \ Created] :
     /\ \A k, l \in kinds : Rank(k) < Rank(l) => f[k] < f[l]
     /\ \A k \in kinds, j \in Jobs :
          j < f[k] => j \in Created \cup {f[l] : l \in kinds}}

\* The table after Plan has inserted a row per kind for account a.
Planned(a, kinds, f) ==
  [j \in Jobs |->
     IF \E k \in kinds : f[k] = j
     THEN LET k == CHOOSE x \in kinds : f[x] = j
          IN [account |-> a, kind |-> k, status |-> InitialStatus(k), attempts |-> 0]
     ELSE job[j]]

\* Some run or stray script is changing, or about to store, a's credentials.
Busy(a) ==
  \/ \E r \in Runners : pc[r] \in {"script", "printed"} /\ AccountOf(r) = a
  \/ \E s \in stray : s[1] = a

-----------------------------------------------------------------------------
(* Steps shared by the runs. *)

Goto(r, point) == pc' = [pc EXCEPT ![r] = point]

Fault == faults < MaxFaults /\ faults' = faults + 1

\* A statement on r's context reaches the database, or it does not.
Reaches(r) == r \notin expired /\ UNCHANGED faults
Misses(r)  == IF r \in expired THEN UNCHANGED faults ELSE Fault

SetJob(j, status, n) ==
  job' = [job EXCEPT ![j] = [account |-> job[j].account, kind |-> job[j].kind,
                             status |-> status, attempts |-> job[j].attempts + n]]

\* The last statement of a run: the outcome, one attempt more. Its error is
\* only logged.
Finish(r, status) ==
  /\ Goto(r, "pick")
  /\ \/ Reaches(r) /\ SetJob(cur[r], status, 1) /\ UNCHANGED lost
     \/ Misses(r) /\ UNCHANGED job /\ lost' = lost \cup {cur[r]}
  /\ UNCHANGED <<stage, external, vpsOn, todo, cur, cred, target, expired, dup, tries>>

\* The next job of r: RunAll keeps Plan's order, the loop that of creation.
NextJob(r, j) ==
  /\ pc[r] = "pick"
  /\ j \in todo[r]
  /\ \A k \in todo[r] : IF r = Loop THEN j <= k ELSE Rank(job[j].kind) <= Rank(job[k].kind)

Take(r, j) ==
  /\ NextJob(r, j)
  /\ todo' = [todo EXCEPT ![r] = @ \ {j}]
  /\ cur' = [cur EXCEPT ![r] = j]

CountTry(r, j) ==
  tries' = IF r \in Admins THEN tries ELSE [tries EXCEPT ![j] = @ + 1]

-----------------------------------------------------------------------------
(* Run: the jobs that need the VPS while it is not configured. *)

WaitForVPS(r, j) ==
  /\ Take(r, j)
  /\ job[j].kind \in {"erp", "whatsapp"} /\ ~vpsOn
  /\ \/ Reaches(r) /\ SetJob(j, "esperando_vps", 0) /\ UNCHANGED lost
     \/ Misses(r) /\ UNCHANGED job /\ lost' = lost \cup {j}
  /\ UNCHANGED <<stage, external, vpsOn, pc, cred, target, expired, dup, tries>>

(* Run, case "erp". *)

\* en_proceso is written (a failure is only logged), then the script starts,
\* unless the context is over.
BeginErp(r, j) ==
  /\ Take(r, j)
  /\ job[j].kind = "erp" /\ vpsOn
  /\ \/ Reaches(r) /\ SetJob(j, "en_proceso", 0)
     \/ Misses(r) /\ UNCHANGED job
  /\ Goto(r, IF r \in expired THEN "failed" ELSE "script")
  /\ LET a == job[j].account
     IN dup' = IF r \in expired THEN dup
               ELSE [dup EXCEPT ![a] = @ \/ Busy(a) \/ conn[a].by = "vps"]
  /\ CountTry(r, j)
  /\ UNCHANGED <<stage, external, vpsOn, cred, target, expired, lost>>

\* The script set a new password and secret and printed them.
ScriptPrints(r) ==
  /\ pc[r] = "script"
  /\ vps' = [vps EXCEPT ![AccountOf(r)] = @ + 1]
  /\ cred' = [cred EXCEPT ![r] = vps[AccountOf(r)] + 1]
  /\ Goto(r, "printed")
  /\ UNCHANGED <<stage, job, conn, site, siteTasks, vpsOn, stray, todo, cur, target,
                 expired, faults, history>>

\* The script failed or printed no usable result; it may have got as far as
\* setting the password.
ScriptFailsIgnored(r) ==
  /\ pc[r] = "script"
  /\ vps' = [vps EXCEPT ![AccountOf(r)] = @ + 1]
  /\ Goto(r, "printed")
  /\ UNCHANGED <<stage, job, conn, site, siteTasks, vpsOn, stray, todo, cur, cred, target,
                 expired, faults, history>>

ScriptFails(r) ==
  /\ pc[r] = "script"
  /\ \/ UNCHANGED vps
     \/ vps' = [vps EXCEPT ![AccountOf(r)] = @ + 1]
  /\ Goto(r, "failed")
  /\ UNCHANGED <<stage, job, conn, site, siteTasks, vpsOn, stray, todo, cur, cred, target,
                 expired, faults, history>>

\* The SSH connection breaks: the run fails, the script goes on by itself.
LinkLost(r) ==
  /\ pc[r] = "script"
  /\ Fault
  /\ stray' = stray \cup {<<AccountOf(r), faults, r>>}
  /\ Goto(r, "failed")
  /\ UNCHANGED <<stage, job, conn, site, siteTasks, vpsOn, vps, todo, cur, cred, target,
                 expired, history>>

StrayEnds(s) ==
  /\ stray' = stray \ {s}
  /\ \/ UNCHANGED vps
     \/ vps' = [vps EXCEPT ![s[1]] = @ + 1]
  /\ UNCHANGED <<stage, job, conn, site, siteTasks, vpsOn, pc, todo, cur, cred, target,
                 expired, faults, history>>

SaveConnectionUnchecked(r) ==
  /\ pc[r] = "printed"
  /\ \/ Reaches(r) /\ conn' = [conn EXCEPT ![AccountOf(r)] = [by |-> "vps", cred |-> cred[r]]]
     \/ Misses(r) /\ UNCHANGED conn
  /\ Goto(r, "saved")
  /\ UNCHANGED <<stage, job, site, siteTasks, vpsOn, vps, stray, todo, cur, cred, target,
                 expired, history>>

\* Seals the password and the SSO secret and stores them.
SaveConnection(r) ==
  /\ pc[r] = "printed"
  /\ \/ /\ Reaches(r) /\ Goto(r, "saved")
        /\ conn' = [conn EXCEPT ![AccountOf(r)] = [by |-> "vps", cred |-> cred[r]]]
     \/ Misses(r) /\ Goto(r, "failed") /\ UNCHANGED conn
  /\ UNCHANGED <<stage, job, site, siteTasks, vpsOn, vps, stray, todo, cur, cred, target,
                 expired, history>>

FinishErp(r) == pc[r] = "saved" /\ Finish(r, "listo")

(* Run, case "whatsapp". *)

BeginWhatsApp(r, j) ==
  /\ Take(r, j)
  /\ job[j].kind = "whatsapp" /\ vpsOn
  /\ Goto(r, IF r \in expired THEN "failed" ELSE "register")
  /\ CountTry(r, j)
  /\ UNCHANGED <<stage, job, external, vpsOn, cred, target, expired, faults, lost, dup>>

RegisterNumber(r) ==
  /\ pc[r] = "register"
  /\ \/ Goto(r, "registered")
     \/ Goto(r, "failed")
  /\ UNCHANGED <<stage, job, external, vpsOn, todo, cur, cred, target, expired, faults, history>>

FinishWhatsApp(r) == pc[r] = "registered" /\ Finish(r, "esperando_meta")

(* Run, case "website". *)

\* Without a sites service there is no host, and no row in account_sites.
BeginWebsite(r, j) ==
  /\ Take(r, j)
  /\ job[j].kind = "website"
  /\ \/ Goto(r, "site")
     \/ Goto(r, "filing")
  /\ CountTry(r, j)
  /\ UNCHANGED <<stage, job, external, vpsOn, cred, target, expired, faults, lost, dup>>

SaveSite(r) ==
  /\ pc[r] = "site"
  /\ \/ /\ Reaches(r) /\ Goto(r, "filing")
        /\ site' = [site EXCEPT ![AccountOf(r)] = "construyendo"]
     \/ Misses(r) /\ Goto(r, "failed") /\ UNCHANGED site
  /\ UNCHANGED <<stage, job, conn, siteTasks, vpsOn, vps, stray, todo, cur, cred, target,
                 expired, history>>

\* matching.Assign and CreateCreatorTask.
FileTask(r) ==
  /\ pc[r] = "filing"
  /\ \/ /\ Reaches(r) /\ Goto(r, "filed")
        /\ siteTasks' = [siteTasks EXCEPT ![cur[r]] = @ + 1]
     \/ Misses(r) /\ Goto(r, "failed") /\ UNCHANGED siteTasks
  /\ UNCHANGED <<stage, job, conn, site, vpsOn, vps, stray, todo, cur, cred, target,
                 expired, history>>

FinishWebsite(r) == pc[r] = "filed" /\ Finish(r, "en_proceso")

(* Run, every case: the error path, and the end of the list. *)

FinishFailedSilently(r) ==
  /\ pc[r] = "failed"
  /\ Goto(r, "pick")
  /\ UNCHANGED <<stage, job, external, vpsOn, todo, cur, cred, target, expired, faults, history>>

FinishFailed(r) == pc[r] = "failed" /\ Finish(r, "error")

EndRun(r) ==
  /\ pc[r] = "pick" /\ todo[r] = {}
  /\ Goto(r, IF r = Loop THEN "idle" ELSE "ended")
  /\ expired' = expired \ {r}
  /\ UNCHANGED <<stage, job, external, vpsOn, todo, cur, cred, target, faults, history>>

-----------------------------------------------------------------------------
(* Who starts runs. *)

\* Register: Plan inserts the jobs; their snapshot stays with the handler.
SignupPlan(a) ==
  /\ stage[a] = "created"
  /\ \E kinds \in SUBSET Kinds :
       /\ "erp" \in kinds
       /\ \E f \in NewIds(kinds) :
            /\ job' = Planned(a, kinds, f)
            /\ todo' = [todo EXCEPT ![a] = {f[k] : k \in {x \in kinds : InitialStatus(x) \in Runnable}}]
  /\ stage' = [stage EXCEPT ![a] = "planned"]
  /\ UNCHANGED <<external, vpsOn, pc, cur, cred, target, expired, faults, history>>

\* Register: tokens issued, RunAll starts.
SignupRun(a) ==
  /\ stage[a] = "planned"
  /\ stage' = [stage EXCEPT ![a] = "live"]
  /\ Goto(a, "pick")
  /\ UNCHANGED <<job, external, vpsOn, todo, cur, cred, target, expired, faults, history>>

\* Register: issueTokenPair fails, the handler answers 500 and starts nothing.
SignupFails(a) ==
  /\ stage[a] = "planned"
  /\ Fault
  /\ stage' = [stage EXCEPT ![a] = "live"]
  /\ Goto(a, "ended")
  /\ lost' = lost \cup todo[a]
  /\ todo' = [todo EXCEPT ![a] = {}]
  /\ UNCHANGED <<job, external, vpsOn, cur, cred, target, expired, dup, tries>>

\* RetryLoop: one tick reads a batch and keeps the jobs worth a try.
Tick ==
  /\ pc[Loop] = "idle" /\ vpsOn
  /\ \E j \in Batch : ~GaveUp(j)
  /\ todo' = [todo EXCEPT ![Loop] = {j \in Batch : ~GaveUp(j)}]
  /\ Goto(Loop, "pick")
  /\ UNCHANGED <<stage, job, external, vpsOn, cur, cred, target, expired, faults, history>>

\* RetryLoop: the account of a job could not be read; next job.
SkipJob(j) ==
  /\ NextJob(Loop, j)
  /\ Fault
  /\ todo' = [todo EXCEPT ![Loop] = @ \ {j}]
  /\ UNCHANGED <<stage, job, external, vpsOn, pc, cur, cred, target, expired, history>>

\* AdminProvisionERP, first read: 409 when the account has a connection.
AdminOpens(m, a) ==
  /\ pc[m] = "idle"
  /\ conn[a].by = "none"
  /\ target' = [target EXCEPT ![m] = a]
  /\ Goto(m, "listing")
  /\ UNCHANGED <<stage, job, external, vpsOn, todo, cur, cred, expired, faults, history>>

\* AdminProvisionERP, second read: 409 unless every ERP job waits or failed;
\* the last of them is run again, none means one to create.
AdminLists(m) ==
  /\ pc[m] = "listing"
  /\ LET mine == ErpJobs(target[m])
     IN \/ ~ (mine \subseteq Waiting) /\ Goto(m, "idle") /\ UNCHANGED cur
        \/ mine = {} /\ Goto(m, "planning") /\ cur' = [cur EXCEPT ![m] = 0]
        \/ /\ mine \subseteq Waiting /\ Goto(m, "planning")
           /\ \E j \in mine : (\A k \in mine : k <= j) /\ cur' = [cur EXCEPT ![m] = j]
  /\ UNCHANGED <<stage, job, external, vpsOn, todo, cred, target, expired, faults, history>>

\* AdminProvisionERP: creates the job if there was none, RunAll starts.
AdminRuns(m) ==
  /\ pc[m] = "planning"
  /\ \/ /\ cur[m] # 0
        /\ todo' = [todo EXCEPT ![m] = {cur[m]}]
        /\ UNCHANGED job
     \/ /\ cur[m] = 0
        /\ \E f \in NewIds({"erp"}) :
             /\ job' = Planned(target[m], {"erp"}, f)
             /\ todo' = [todo EXCEPT ![m] = {f["erp"]}]
  /\ Goto(m, "pick")
  /\ UNCHANGED <<stage, external, vpsOn, cur, cred, target, expired, faults, history>>

-----------------------------------------------------------------------------
(* The rest of the program, the deadline and a restart. *)

\* ConnectERP: the owner connects an Odoo of their own.
ConnectERP(a) ==
  /\ stage[a] = "live"
  /\ conn' = [conn EXCEPT ![a] = [by |-> "owner", cred |-> 0]]
  /\ UNCHANGED <<stage, job, site, siteTasks, vpsOn, vps, stray, pc, todo, cur, cred,
                 target, expired, faults, history>>

\* UpdateCreatorTask: a website task is delivered, the site goes live.
DeliverSite(a) ==
  /\ site[a] # "none"
  /\ \E j \in Created : job[j].account = a /\ siteTasks[j] > 0
  /\ site' = [site EXCEPT ![a] = "publicado"]
  /\ UNCHANGED <<stage, job, conn, siteTasks, vpsOn, vps, stray, pc, todo, cur, cred,
                 target, expired, faults, history>>

\* The 20 minutes of a RunAll are over. A script it waits for is sent
\* SIGTERM, which it may or may not obey.
Expire(r) ==
  /\ r # Loop /\ r \notin expired
  /\ pc[r] \notin {"idle", "listing", "planning", "ended"}
  /\ Fault
  /\ expired' = expired \cup {r}
  /\ IF pc[r] = "script"
     THEN \/ UNCHANGED stray
          \/ stray' = stray \cup {<<AccountOf(r), faults, r>>}
     ELSE UNCHANGED stray
  /\ IF pc[r] \in {"script", "register"} THEN Goto(r, "failed") ELSE UNCHANGED pc
  /\ UNCHANGED <<stage, job, conn, site, siteTasks, vpsOn, vps, todo, cur, cred, target, history>>

\* Jobs that goroutine r still owed an outcome when the process ended. The
\* loop's list is read again from the table, so it only owes the current one.
Owed(r) == (IF pc[r] \in Running THEN {cur[r]} ELSE {})
           \cup (IF r \in Accounts THEN todo[r] ELSE IF r \in Admins /\ pc[r] = "pick" THEN todo[r] ELSE {})

\* The process ends (deploy or crash) and starts again, maybe with another
\* VPS_HOST. Scripts it was waiting for may go on by themselves.
Restart ==
  /\ Fault
  /\ vpsOn' \in BOOLEAN
  /\ \E survivors \in SUBSET {r \in Runners : pc[r] = "script"} :
       stray' = stray \cup {<<AccountOf(r), faults, r>> : r \in survivors}
  /\ lost' = lost \cup UNION {Owed(r) : r \in Runners}
  /\ stage' = [a \in Accounts |-> "live"]
  /\ pc' = [r \in Runners |-> IF r = Loop \/ pc[r] \in {"idle", "listing", "planning"}
                              THEN "idle" ELSE "ended"]
  /\ todo' = [r \in Runners |-> {}]
  /\ expired' = {}
  /\ UNCHANGED <<job, conn, site, siteTasks, vps, cur, cred, target, dup, tries>>

-----------------------------------------------------------------------------

Init ==
  /\ stage \in [Accounts -> {"created", "live"}]  \* in Register, or from before it
  /\ job = [j \in Jobs |-> NoJob]
  /\ conn = [a \in Accounts |-> NoConn]
  /\ site = [a \in Accounts |-> "none"]
  /\ siteTasks = [j \in Jobs |-> 0]
  /\ vpsOn \in BOOLEAN
  /\ vps = [a \in Accounts |-> 0]
  /\ stray = {}
  /\ pc = [r \in Runners |-> "idle"]
  /\ todo = [r \in Runners |-> {}]
  /\ cur = [r \in Runners |-> 0]
  /\ cred = [r \in Runners |-> 0]
  /\ target = [m \in Admins |-> AnyAccount]
  /\ expired = {}
  /\ faults = 0
  /\ lost = {}
  /\ dup = [a \in Accounts |-> FALSE]
  /\ tries = [j \in Jobs |-> 0]

\* One step of the goroutine of a run.
RunStep(r) ==
  \/ \E j \in Jobs : WaitForVPS(r, j) \/ BeginErp(r, j) \/ BeginWhatsApp(r, j) \/ BeginWebsite(r, j)
  \/ ScriptPrints(r) \/ ScriptFails(r) \/ SaveConnection(r) \/ FinishErp(r)
  \/ RegisterNumber(r) \/ FinishWhatsApp(r)
  \/ SaveSite(r) \/ FileTask(r) \/ FinishWebsite(r)
  \/ FinishFailed(r) \/ EndRun(r)

Next ==
  \/ \E r \in Runners : RunStep(r) \/ LinkLost(r) \/ Expire(r)
  \/ \E a \in Accounts : SignupPlan(a) \/ SignupRun(a) \/ SignupFails(a)
                         \/ ConnectERP(a) \/ DeliverSite(a)
  \/ \E m \in Admins : AdminLists(m) \/ AdminRuns(m) \/ (\E a \in Accounts : AdminOpens(m, a))
  \/ \E j \in Jobs : SkipJob(j)
  \/ \E s \in stray : StrayEnds(s)
  \/ Tick
  \/ Restart

Spec == Init /\ [][Next]_vars

-----------------------------------------------------------------------------
(* What must hold. *)

\* A job reported "listo" left the account an Odoo access: the dashboard
\* never says the ERP is ready while every /erp/* call answers 404
\* (Run writes the connection before the outcome).
DoneHasAccess ==
  \A j \in Created : job[j].status = "listo" => conn[job[j].account].by # "none"

\* The signup's RunAll and the RetryLoop never work on the same job at once:
\* the loop takes no job that is pendiente or en_proceso, and its own pass is
\* sequential. Only an admin's request can run a job somebody is running.
AutomationNeverOverlaps ==
  \A r, q \in Runners \ Admins :
    r # q /\ pc[r] \in Running /\ pc[q] \in Running => cur[r] # cur[q]

\* The stored credentials are the last ones the VPS set, whatever deadline,
\* broken link, failed write or restart came between, unless the account
\* was provisioned over another run (or over its finished ERP).
CredentialsCurrent ==
  \A a \in Accounts : conn[a].by = "vps" => conn[a].cred = vps[a] \/ dup[a]

\* A job is run at most MaxTries times without an admin asking for it, and
\* once more for each fault that kept an attempt from being counted.
RetryBudget == \A j \in Jobs : tries[j] <= MaxTries + faults

\* A job in a status nobody retries (pendiente, or en_proceso for an ERP) has
\* a goroutine that will still record its outcome: every path out of Run and
\* of Register leaves a job finished, waiting or failed. The exceptions are
\* the jobs whose last write was lost to a restart, a deadline or the database.
NoOrphanJob ==
  \A j \in Created :
    \/ job[j].status \notin {"pendiente", "en_proceso"}
    \/ job[j].status = "en_proceso" /\ job[j].kind = "website"
    \/ j \in lost
    \/ \E r \in Runners : j \in todo[r] \/ (pc[r] \in Running /\ cur[r] = j)

\* The Creators get one task for a website, however often its job was retried
\* before, unless the run that filed it could not record that it had.
SiteTaskOnce == \A j \in Jobs : siteTasks[j] <= 1 \/ j \in lost

\* A delivered site stays public: no retry of the website job puts the
\* "en construccion" page back (unless that job's outcome was lost).
PublishedStays ==
  [][\A a \in Accounts :
       site[a] = "publicado" /\ site'[a] # "publicado"
         => \E j \in lost : job[j].account = a /\ job[j].kind = "website"]_vars

\* AdminProvisionERP's own claim: it refuses when the account already has its
\* ERP or one is being created, so no ERP is provisioned over another run.
NeverProvisionedTwice == \A a \in Accounts : ~dup[a]

(* Scheduling: goroutines run, scripts end or their link breaks, the ticker
   ticks, the signup handler goes on. Nothing is promised about admins, owners,
   Creators, deadlines or restarts. *)
FairSpec ==
  /\ Spec
  /\ \A r \in Runners : WF_vars(RunStep(r))
  /\ \A a \in Accounts : WF_vars(SignupRun(a))
  /\ WF_vars(Tick)

\* With the VPS configured, every job that waits for it or failed is eventually
\* retried until it is out of those statuses or out of tries.
EveryWaitingJobRetried ==
  \A j \in Jobs :
    (vpsOn /\ job[j].status \in {"esperando_vps", "error"} /\ job[j].attempts < MaxTries)
      ~> (job[j].status \notin {"esperando_vps", "error"} \/ job[j].attempts >= MaxTries)

\* Every job a signup planned gets out of pendiente.
EveryPlannedJobRuns ==
  \A j \in Jobs : (job[j].status = "pendiente") ~> (job[j].status # "pendiente")
=============================================================================
