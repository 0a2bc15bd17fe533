------------------------- MODULE ProvisioningProofs -------------------------
(***************************************************************************)
(* Proofs about Provisioning, for every set of accounts and admins and     *)
(* every bound: type correctness, that a finished ERP job has stored the   *)
(* account's access, that the signup's goroutines and the retry loop never *)
(* work on the same job, that the Creators get one task for a website, and *)
(* that no retry takes a public site down.                                 *)
(***************************************************************************)
EXTENDS Provisioning, TLAPS

\* The jobs a goroutine may still write to, or an admin request will run.
Touched(r) ==
  todo[r] \cup (IF pc[r] \in Running \cup {"planning"} THEN {cur[r]} \ {0} ELSE {})

\* What a goroutine holds are rows of the table; the one it runs is off its list.
HoldsRows ==
  \A r \in Runners :
    /\ Touched(r) \subseteq Created
    /\ pc[r] \in Running => cur[r] # 0 /\ cur[r] \notin todo[r]

\* Between storing the access and recording "listo", the access is there.
SavedHasAccess ==
  \A r \in Runners : pc[r] = "saved" => conn[AccountOf(r)].by # "none"

AccessInv == SavedHasAccess /\ DoneHasAccess

\* A job of a signup that its goroutine has not finished is in no status the
\* loop or an admin would take it from, and nobody else holds it.
SignupOwns ==
  \A a \in Accounts :
    /\ \A j \in Touched(a) : job[j].status \notin RetryStatuses
    /\ \A r \in Runners \ {a} : Touched(a) \cap Touched(r) = {}
    /\ stage[a] = "created" => todo[a] = {}
    /\ stage[a] # "live" => pc[a] = "idle"

OverlapInv == HoldsRows /\ SignupOwns

-----------------------------------------------------------------------------
(* Type correctness. *)

\* Inserting the rows of a plan leaves a table of job rows.
LEMMA PlannedType ==
  ASSUME TypeOK, NEW a \in Accounts, NEW kinds \in SUBSET Kinds, NEW f \in NewIds(kinds)
  PROVE  /\ Planned(a, kinds, f) \in [Jobs -> JobRow]
         /\ \A k \in kinds : f[k] \in Jobs \ Created
<1>1. f \in [kinds -> Jobs \ Created]
  BY DEF NewIds
<1>2. ASSUME NEW k \in Kinds
      PROVE  InitialStatus(k) \in Statuses
  BY DEF InitialStatus, Statuses
<1>3. ASSUME NEW j \in Jobs, NEW k \in kinds, f[k] = j
      PROVE  (CHOOSE x \in kinds : f[x] = j) \in Kinds
  BY <1>3
<1>4. QED
  BY <1>1, <1>2, <1>3 DEF Planned, TypeOK, JobRow

\* The initial state is well typed.
LEMMA TypeInit == Init => TypeOK
<1> SUFFICES ASSUME Init PROVE TypeOK
  OBVIOUS
<1>1. AnyAccount \in Accounts
  BY RunnersAssumption DEF AnyAccount
<1> QED
  BY <1>1 DEF Init, TypeOK, NoJob, NoConn, JobRow, ConnRow, Kinds, Statuses, Points, Runners, Running

\* A running job is a row of the table, of some account.
LEMMA RunningRow ==
  ASSUME TypeOK, NEW r \in Runners, pc[r] \in Running
  PROVE  cur[r] \in Jobs /\ job[cur[r]] \in JobRow /\ AccountOf(r) \in Accounts
BY DEF TypeOK, AccountOf, JobRow

\* Writing a job's row keeps the table's type.
LEMMA SetJobType ==
  ASSUME TypeOK, NEW j \in Jobs, NEW status \in Statuses, NEW n \in Nat, SetJob(j, status, n)
  PROVE  job' \in [Jobs -> JobRow]
<1>1. job[j] \in JobRow
  BY DEF TypeOK
<1>2. [account |-> job[j].account, kind |-> job[j].kind, status |-> status,
       attempts |-> job[j].attempts + n] \in JobRow
  BY <1>1 DEF JobRow
<1> QED
  BY <1>2 DEF SetJob, TypeOK

\* Recording an outcome keeps the types.
LEMMA FinishType ==
  ASSUME TypeOK, NEW r \in Runners, NEW status \in Statuses, pc[r] \in Running, Finish(r, status)
  PROVE  TypeOK'
<1>1. cur[r] \in Jobs
  BY DEF TypeOK
<1>2. job' \in [Jobs -> JobRow]
  BY <1>1, SetJobType DEF Finish, TypeOK
<1> QED
  BY <1>1, <1>2 DEF TypeOK, Finish, Goto, Points, Running, Fault, Reaches, Misses, external

\* Every step keeps the variables in their types.
LEMMA TypeStep == TypeOK /\ [Next]_vars => TypeOK'
<1> SUFFICES ASSUME TypeOK, [Next]_vars PROVE TypeOK'
  OBVIOUS
<1> USE DEF Goto, Fault, Reaches, Misses, history, external
<1>1. ASSUME NEW r \in Runners, NEW j \in Jobs, WaitForVPS(r, j)
      PROVE  TypeOK'
  <2>1. job' \in [Jobs -> JobRow]
    BY <1>1, SetJobType DEF WaitForVPS, TypeOK, Statuses
  <2> QED
    BY <1>1, <2>1 DEF WaitForVPS, TypeOK, Take, NextJob, CountTry, Points, Running
<1>2. ASSUME NEW r \in Runners, NEW j \in Jobs, BeginErp(r, j)
      PROVE  TypeOK'
  <2>1. job' \in [Jobs -> JobRow]
    BY <1>2, SetJobType DEF BeginErp, TypeOK, Statuses
  <2>2. pc' \in [Runners -> Points] /\ cur' \in [Runners -> Jobs \cup {0}]
        /\ \A q \in Runners : pc'[q] \in Running => cur'[q] \in Jobs
    BY <1>2 DEF BeginErp, TypeOK, Take, Points, Running
  <2>3. dup' \in [Accounts -> BOOLEAN]
    <3>1. CASE r \in expired
      BY <1>2, <3>1 DEF BeginErp, TypeOK
    <3>2. CASE r \notin expired
      <4>1. (dup[job[j].account] \/ Busy(job[j].account) \/ conn[job[j].account].by = "vps") \in BOOLEAN
        BY DEF TypeOK, Busy
      <4>2. dup' = [dup EXCEPT ![job[j].account]
                       = dup[job[j].account] \/ Busy(job[j].account) \/ conn[job[j].account].by = "vps"]
        BY <1>2, <3>2 DEF BeginErp
      <4> QED
        BY <4>1, <4>2 DEF TypeOK
    <3> QED
      BY <3>1, <3>2
  <2>4. tries' \in [Jobs -> Nat] /\ todo' \in [Runners -> SUBSET Jobs] /\ faults' \in Nat
    BY <1>2 DEF BeginErp, TypeOK, Take, CountTry
  <2> QED
    BY <1>2, <2>1, <2>2, <2>3, <2>4 DEF BeginErp, TypeOK
<1>3. ASSUME NEW r \in Runners, NEW j \in Jobs, BeginWhatsApp(r, j)
      PROVE  TypeOK'
  BY <1>3 DEF BeginWhatsApp, TypeOK, Take, NextJob, CountTry, Points, Running
<1>4. ASSUME NEW r \in Runners, NEW j \in Jobs, BeginWebsite(r, j)
      PROVE  TypeOK'
  BY <1>4 DEF BeginWebsite, TypeOK, Take, NextJob, CountTry, Points, Running
<1>5. ASSUME NEW r \in Runners, FinishErp(r)
      PROVE  TypeOK'
  BY <1>5, FinishType DEF FinishErp, Statuses, Running
<1>6. ASSUME NEW r \in Runners, FinishWhatsApp(r)
      PROVE  TypeOK'
  BY <1>6, FinishType DEF FinishWhatsApp, Statuses, Running
<1>7. ASSUME NEW r \in Runners, FinishWebsite(r)
      PROVE  TypeOK'
  BY <1>7, FinishType DEF FinishWebsite, Statuses, Running
<1>8. ASSUME NEW r \in Runners, FinishFailed(r)
      PROVE  TypeOK'
  BY <1>8, FinishType DEF FinishFailed, Statuses, Running
<1>9. ASSUME NEW r \in Runners, ScriptPrints(r)
      PROVE  TypeOK'
  BY <1>9, RunningRow DEF ScriptPrints, TypeOK, Points, Running, ConnRow
<1>10. ASSUME NEW r \in Runners, ScriptFails(r)
      PROVE  TypeOK'
  <2>1. vps' \in [Accounts -> Nat]
    BY <1>10, RunningRow DEF ScriptFails, TypeOK, Running
  <2>2. pc' \in [Runners -> Points] /\ \A q \in Runners : pc'[q] \in Running => cur[q] \in Jobs
    BY <1>10 DEF ScriptFails, TypeOK, Points, Running
  <2> QED
    BY <1>10, <2>1, <2>2 DEF ScriptFails, TypeOK
<1>11. ASSUME NEW r \in Runners, SaveConnection(r)
      PROVE  TypeOK'
  <2>1. conn' \in [Accounts -> ConnRow] /\ faults' \in Nat
    BY <1>11, RunningRow DEF SaveConnection, TypeOK, ConnRow, Running
  <2>2. pc' \in [Runners -> Points] /\ \A q \in Runners : pc'[q] \in Running => cur[q] \in Jobs
    BY <1>11 DEF SaveConnection, TypeOK, Points, Running
  <2> QED
    BY <1>11, <2>1, <2>2 DEF SaveConnection, TypeOK
<1>12. ASSUME NEW r \in Runners, RegisterNumber(r)
      PROVE  TypeOK'
  BY <1>12 DEF RegisterNumber, TypeOK, Points, Running, ConnRow
<1>13. ASSUME NEW r \in Runners, SaveSite(r)
      PROVE  TypeOK'
  <2>1. site' \in [Accounts -> {"none", "construyendo", "publicado"}] /\ faults' \in Nat
    BY <1>13, RunningRow DEF SaveSite, TypeOK, Running
  <2>2. pc' \in [Runners -> Points] /\ \A q \in Runners : pc'[q] \in Running => cur[q] \in Jobs
    BY <1>13 DEF SaveSite, TypeOK, Points, Running
  <2> QED
    BY <1>13, <2>1, <2>2 DEF SaveSite, TypeOK
<1>14. ASSUME NEW r \in Runners, FileTask(r)
      PROVE  TypeOK'
  BY <1>14 DEF FileTask, TypeOK, Points, Running, ConnRow
<1>15. ASSUME NEW r \in Runners, EndRun(r)
      PROVE  TypeOK'
  BY <1>15 DEF EndRun, TypeOK, Points, Running, ConnRow
<1>16. ASSUME NEW r \in Runners, LinkLost(r)
      PROVE  TypeOK'
  <2>1. pc[r] = "script" => AccountOf(r) \in Accounts
    BY DEF TypeOK, Running, AccountOf, JobRow
  <2>2. stray' \subseteq Accounts \X Nat \X Runners
    BY <1>16, <2>1 DEF LinkLost, TypeOK
  <2> QED
    BY <1>16, <2>2 DEF LinkLost, TypeOK, Points, Running
<1>17. ASSUME NEW r \in Runners, Expire(r)
      PROVE  TypeOK'
  <2>1. pc[r] = "script" => AccountOf(r) \in Accounts
    BY DEF TypeOK, Running, AccountOf, JobRow
  <2>2. stray' \subseteq Accounts \X Nat \X Runners
    BY <1>17, <2>1 DEF Expire, TypeOK
  <2> QED
    BY <1>17, <2>2 DEF Expire, TypeOK, Points, Running
<1>18. ASSUME NEW a \in Accounts, SignupPlan(a)
      PROVE  TypeOK'
  <2>0. PICK kinds \in SUBSET Kinds :
          \E f \in NewIds(kinds) :
            /\ job' = Planned(a, kinds, f)
            /\ todo' = [todo EXCEPT ![a] = {f[k] : k \in {x \in kinds : InitialStatus(x) \in Runnable}}]
    BY <1>18 DEF SignupPlan
  <2>1. PICK f \in NewIds(kinds) :
          /\ job' = Planned(a, kinds, f)
          /\ todo' = [todo EXCEPT ![a] = {f[k] : k \in {x \in kinds : InitialStatus(x) \in Runnable}}]
    BY <2>0
  <2>2. job' \in [Jobs -> JobRow] /\ \A k \in kinds : f[k] \in Jobs
    BY <2>1, PlannedType
  <2>3. todo' \in [Runners -> SUBSET Jobs]
    BY <2>1, <2>2 DEF TypeOK, Runners
  <2> QED
    BY <1>18, <2>2, <2>3 DEF SignupPlan, TypeOK
<1>19. ASSUME NEW a \in Accounts, SignupRun(a)
      PROVE  TypeOK'
  BY <1>19, RunnersAssumption DEF SignupRun, TypeOK, Runners, ConnRow, Points, Running
<1>20. ASSUME NEW a \in Accounts, SignupFails(a)
      PROVE  TypeOK'
  BY <1>20, RunnersAssumption DEF SignupFails, TypeOK, Runners, ConnRow, Points, Running
<1>21. ASSUME NEW a \in Accounts, ConnectERP(a)
      PROVE  TypeOK'
  BY <1>21, RunnersAssumption DEF ConnectERP, TypeOK, Runners, ConnRow, Points, Running
<1>22. ASSUME NEW a \in Accounts, DeliverSite(a)
      PROVE  TypeOK'
  BY <1>22, RunnersAssumption DEF DeliverSite, TypeOK, Runners, ConnRow, Points, Running
<1>23. ASSUME NEW m \in Admins, NEW a \in Accounts, AdminOpens(m, a)
      PROVE  TypeOK'
  BY <1>23 DEF AdminOpens, TypeOK, Runners, Points, Running
<1>24. ASSUME NEW m \in Admins, AdminLists(m)
      PROVE  TypeOK'
  <2>1. pc' \in [Runners -> Points] /\ \A q \in Runners : q # m => cur'[q] = cur[q] /\ pc'[q] = pc[q]
    BY <1>24 DEF AdminLists, TypeOK, Runners, Points
  <2>2. pc'[m] \notin Running
    BY <1>24 DEF AdminLists, TypeOK, Runners, Running
  <2>3. cur' \in [Runners -> Jobs \cup {0}]
    BY <1>24 DEF AdminLists, TypeOK, ErpJobs, Created
  <2> QED
    BY <1>24, <2>1, <2>2, <2>3 DEF AdminLists, TypeOK
<1>25. ASSUME NEW m \in Admins, AdminRuns(m)
      PROVE  TypeOK'
  <2>1. job' \in [Jobs -> JobRow] /\ todo' \in [Runners -> SUBSET Jobs]
    <3>1. CASE cur[m] # 0
      BY <1>25, <3>1 DEF AdminRuns, TypeOK, Runners
    <3>2. CASE cur[m] = 0
      <4>1. PICK f \in NewIds({"erp"}) :
              /\ job' = Planned(target[m], {"erp"}, f)
              /\ todo' = [todo EXCEPT ![m] = {f["erp"]}]
        BY <1>25, <3>2 DEF AdminRuns
      <4>2. target[m] \in Accounts /\ {"erp"} \in SUBSET Kinds
        BY DEF TypeOK, Kinds
      <4>3. job' \in [Jobs -> JobRow] /\ f["erp"] \in Jobs
        BY <4>1, <4>2, PlannedType
      <4> QED
        BY <4>1, <4>3 DEF TypeOK, Runners
    <3> QED
      BY <3>1, <3>2
  <2> QED
    BY <1>25, <2>1 DEF AdminRuns, TypeOK, Runners, Points, Running
<1>26. ASSUME NEW j \in Jobs, SkipJob(j)
      PROVE  TypeOK'
  BY <1>26 DEF SkipJob, NextJob, TypeOK, Runners
<1>27. ASSUME NEW s \in stray, StrayEnds(s)
      PROVE  TypeOK'
  BY <1>27 DEF StrayEnds, TypeOK
<1>28. ASSUME Tick
      PROVE  TypeOK'
  BY <1>28 DEF Tick, TypeOK, Batch, Waiting, Created, Runners, Points, Running
<1>29. ASSUME Restart
      PROVE  TypeOK'
  <2>1. \A r \in Runners : pc[r] = "script" => AccountOf(r) \in Accounts
    BY DEF TypeOK, Running, AccountOf, JobRow
  <2>2. stray' \subseteq Accounts \X Nat \X Runners
    BY <1>29, <2>1 DEF Restart, TypeOK
  <2>3. \A r \in Runners : Owed(r) \subseteq Jobs
    BY RunnersAssumption DEF Owed, TypeOK
  <2>4. lost' \subseteq Jobs
    BY <1>29, <2>3 DEF Restart, TypeOK
  <2> QED
    BY <1>29, <2>2, <2>4 DEF Restart, TypeOK, Points, Running
<1>30. CASE UNCHANGED vars
  BY <1>30 DEF vars, TypeOK
<1> QED
  BY <1>1, <1>2, <1>3, <1>4, <1>5, <1>6, <1>7, <1>8, <1>9, <1>10, <1>11, <1>12, <1>13, <1>14, <1>15, <1>16, <1>17, <1>18, <1>19, <1>20, <1>21, <1>22, <1>23, <1>24, <1>25, <1>26, <1>27, <1>28, <1>29, <1>30 DEF Next, RunStep

\* The tables and the goroutines' variables keep their types.
THEOREM TypeCorrect == Spec => []TypeOK
<1> QED
  BY TypeInit, TypeStep, PTL DEF Spec

-----------------------------------------------------------------------------
(* What a step does to the table. *)

\* A step leaves the table alone, writes one row or inserts the rows of a plan.
LEMMA JobChanges ==
  ASSUME TypeOK, [Next]_vars
  PROVE  \/ UNCHANGED job
         \/ \E j \in Jobs, status \in Statuses \ {"none"}, n \in {0, 1} : SetJob(j, status, n)
         \/ \E a \in Accounts, kinds \in SUBSET Kinds :
              \E f \in NewIds(kinds) : job' = Planned(a, kinds, f)
<1> DEFINE Writes == \E j \in Jobs, status \in Statuses \ {"none"}, n \in {0, 1} : SetJob(j, status, n)
<1> DEFINE Inserts == \E a \in Accounts, kinds \in SUBSET Kinds :
                        \E f \in NewIds(kinds) : job' = Planned(a, kinds, f)
<1>1. ASSUME NEW r \in Runners, NEW j \in Jobs, WaitForVPS(r, j) \/ BeginErp(r, j)
      PROVE  UNCHANGED job \/ Writes
  BY <1>1 DEF WaitForVPS, BeginErp, Statuses
<1>2. ASSUME NEW r \in Runners, FinishErp(r) \/ FinishWhatsApp(r) \/ FinishWebsite(r) \/ FinishFailed(r)
      PROVE  UNCHANGED job \/ Writes
  BY <1>2, RunningRow DEF FinishErp, FinishWhatsApp, FinishWebsite, FinishFailed, Finish, Statuses, Running
<1>3. ASSUME NEW a \in Accounts, SignupPlan(a)
      PROVE  Inserts
  BY <1>3 DEF SignupPlan
<1>4. ASSUME NEW m \in Admins, AdminRuns(m)
      PROVE  UNCHANGED job \/ Inserts
  <2>1. target[m] \in Accounts /\ {"erp"} \in SUBSET Kinds
    BY DEF TypeOK, Kinds
  <2> QED
    BY <1>4, <2>1 DEF AdminRuns
<1>5. ASSUME NEW r \in Runners,
             \/ \E j \in Jobs : BeginWhatsApp(r, j) \/ BeginWebsite(r, j)
             \/ ScriptPrints(r) \/ ScriptFails(r) \/ SaveConnection(r) \/ RegisterNumber(r)
             \/ SaveSite(r) \/ FileTask(r) \/ EndRun(r) \/ LinkLost(r) \/ Expire(r)
      PROVE  UNCHANGED job
  BY <1>5 DEF BeginWhatsApp, BeginWebsite, ScriptPrints, ScriptFails, SaveConnection, RegisterNumber,
              SaveSite, FileTask, EndRun, LinkLost, Expire
<1>6. ASSUME \/ \E a \in Accounts : SignupRun(a) \/ SignupFails(a) \/ ConnectERP(a) \/ DeliverSite(a)
             \/ \E m \in Admins : AdminLists(m) \/ \E a \in Accounts : AdminOpens(m, a)
             \/ \E j \in Jobs : SkipJob(j)
             \/ \E s \in stray : StrayEnds(s)
             \/ Tick \/ Restart
      PROVE  UNCHANGED job
  BY <1>6 DEF SignupRun, SignupFails, ConnectERP, DeliverSite, AdminLists, AdminOpens, SkipJob, StrayEnds,
              Tick, Restart
<1> HIDE DEF Writes, Inserts
<1>7. UNCHANGED job \/ Writes \/ Inserts
  BY <1>1, <1>2, <1>3, <1>4, <1>5, <1>6 DEF Next, RunStep, vars
<1> QED
  BY <1>7 DEF Writes, Inserts

\* A row stays in the table, for the same account and of the same kind.
LEMMA RowsStay ==
  ASSUME TypeOK, [Next]_vars, NEW j \in Created
  PROVE  j \in Created' /\ job'[j].account = job[j].account /\ job'[j].kind = job[j].kind
<1>1. CASE UNCHANGED job
  BY <1>1 DEF Created
<1>2. ASSUME NEW k \in Jobs, NEW status \in Statuses \ {"none"}, NEW n \in {0, 1}, SetJob(k, status, n)
      PROVE  j \in Created' /\ job'[j].account = job[j].account /\ job'[j].kind = job[j].kind
  BY <1>2 DEF SetJob, Created, TypeOK, JobRow
<1>3. ASSUME NEW a \in Accounts, NEW kinds \in SUBSET Kinds, NEW f \in NewIds(kinds),
             job' = Planned(a, kinds, f)
      PROVE  j \in Created' /\ job'[j].account = job[j].account /\ job'[j].kind = job[j].kind
  BY <1>3, PlannedType DEF Planned, Created
<1> QED
  BY <1>1, <1>2, <1>3, JobChanges

\* The rows a plan inserts are in the table, in no status that is taken for
\* done or up for a retry; the others are as they were.
LEMMA PlannedRows ==
  ASSUME TypeOK, NEW a \in Accounts, NEW kinds \in SUBSET Kinds, NEW f \in NewIds(kinds),
         job' = Planned(a, kinds, f)
  PROVE  /\ \A k \in kinds : /\ f[k] \in Created' \ Created
                             /\ job'[f[k]].status \notin RetryStatuses \cup {"listo"}
         /\ \A j \in Jobs : job'[j] # job[j] => \E k \in kinds : f[k] = j
<1>1. \A k \in kinds : f[k] \in Jobs \ Created
  BY PlannedType
<1>2. \A k \in kinds : job'[f[k]].status \in {"pendiente", "esperando_meta"}
  BY <1>1 DEF Planned, InitialStatus
<1> QED
  BY <1>1, <1>2 DEF Created, Planned, RetryStatuses

-----------------------------------------------------------------------------
(* Who holds which job. *)

\* A step of the goroutine r on the jobs it already holds: it takes no other
\* one, and the row it writes is off its hands or not up for a retry.
OwnStep(r) ==
  /\ \A q \in Runners \ {r} : pc'[q] = pc[q] /\ cur'[q] = cur[q] /\ todo'[q] = todo[q]
  /\ Touched(r)' \subseteq Touched(r)
  /\ \A j \in Jobs : job'[j] # job[j] =>
       j \in Touched(r) /\ (j \notin Touched(r)' \/ job'[j].status \notin RetryStatuses)
  /\ pc'[r] \in Running => cur'[r] # 0 /\ cur'[r] \notin todo'[r]
  /\ pc[r] # "idle" /\ stage' = stage

\* Every step of a run is one.
LEMMA RunStepOwn ==
  ASSUME TypeOK, HoldsRows, NEW r \in Runners, RunStep(r) \/ LinkLost(r) \/ Expire(r)
  PROVE  OwnStep(r)
<1> USE DEF Goto, Running, OwnStep, Touched
<1>0. ASSUME NEW j \in Jobs, Take(r, j)
      PROVE  /\ pc[r] = "pick" /\ j \in todo[r] /\ j # 0 /\ todo'[r] = todo[r] \ {j} /\ cur'[r] = j
             /\ \A q \in Runners \ {r} : cur'[q] = cur[q] /\ todo'[q] = todo[q]
  BY <1>0 DEF Take, NextJob, TypeOK, Jobs
<1>1. ASSUME NEW j \in Jobs, WaitForVPS(r, j)
      PROVE  OwnStep(r)
  BY <1>0, <1>1 DEF WaitForVPS, SetJob, TypeOK
<1>2. ASSUME NEW j \in Jobs, BeginErp(r, j)
      PROVE  OwnStep(r)
  <2>1. Take(r, j) /\ stage' = stage
    BY <1>2 DEF BeginErp
  <2>2. /\ pc'[r] \in {"failed", "script"}
        /\ \A q \in Runners \ {r} : pc'[q] = pc[q]
    BY <1>2 DEF BeginErp, TypeOK
  <2>3. \A k \in Jobs : job'[k] # job[k] => k = j /\ job'[k].status \notin RetryStatuses
    BY <1>2 DEF BeginErp, SetJob, TypeOK, RetryStatuses
  <2> QED
    BY <1>0, <2>1, <2>2, <2>3
<1>3. ASSUME NEW j \in Jobs, BeginWhatsApp(r, j) \/ BeginWebsite(r, j)
      PROVE  OwnStep(r)
  <2>1. Take(r, j) /\ stage' = stage /\ job' = job
    BY <1>3 DEF BeginWhatsApp, BeginWebsite
  <2>2. /\ pc'[r] \in {"failed", "register", "site", "filing"}
        /\ \A q \in Runners \ {r} : pc'[q] = pc[q]
    BY <1>3 DEF BeginWhatsApp, BeginWebsite, TypeOK
  <2> QED
    BY <1>0, <2>1, <2>2
<1>4. ASSUME NEW status \in Statuses, pc[r] \in Running, Finish(r, status)
      PROVE  OwnStep(r)
  BY <1>4, RunningRow DEF Finish, SetJob, TypeOK, HoldsRows
<1>5. ASSUME FinishErp(r) \/ FinishWhatsApp(r) \/ FinishWebsite(r) \/ FinishFailed(r)
      PROVE  OwnStep(r)
  BY <1>4, <1>5 DEF FinishErp, FinishWhatsApp, FinishWebsite, FinishFailed, Statuses
<1>6. ASSUME ScriptPrints(r) \/ ScriptFails(r) \/ SaveConnection(r) \/ RegisterNumber(r) \/ SaveSite(r)
             \/ FileTask(r) \/ LinkLost(r)
      PROVE  OwnStep(r)
  BY <1>6 DEF ScriptPrints, ScriptFails, SaveConnection, RegisterNumber, SaveSite, FileTask, LinkLost,
              HoldsRows, TypeOK
<1>7. ASSUME EndRun(r)
      PROVE  OwnStep(r)
  BY <1>7 DEF EndRun, TypeOK
<1>8. ASSUME Expire(r)
      PROVE  OwnStep(r)
  BY <1>8 DEF Expire, HoldsRows, TypeOK
<1> QED
  BY <1>1, <1>2, <1>3, <1>5, <1>6, <1>7, <1>8 DEF RunStep

\* Such a step keeps what the goroutines hold apart.
LEMMA OwnStepKeeps ==
  ASSUME TypeOK, OverlapInv, NEW r \in Runners, OwnStep(r), [Next]_vars
  PROVE  OverlapInv'
<1>1. \A q \in Runners : Touched(q)' \subseteq Touched(q)
  BY DEF OwnStep, Touched
<1>2. HoldsRows'
  <2> SUFFICES ASSUME NEW q \in Runners
               PROVE  /\ Touched(q)' \subseteq Created'
                      /\ pc'[q] \in Running => cur'[q] # 0 /\ cur'[q] \notin todo'[q]
    BY DEF HoldsRows
  <2>1. Touched(q)' \subseteq Created'
    BY <1>1, RowsStay DEF OverlapInv, HoldsRows
  <2>2. pc'[q] \in Running => cur'[q] # 0 /\ cur'[q] \notin todo'[q]
    BY DEF OwnStep, OverlapInv, HoldsRows
  <2> QED
    BY <2>1, <2>2
<1>3. SignupOwns'
  <2> SUFFICES ASSUME NEW a \in Accounts
               PROVE  /\ \A j \in Touched(a)' : job'[j].status \notin RetryStatuses
                      /\ \A q \in Runners \ {a} : Touched(a)' \cap Touched(q)' = {}
                      /\ stage'[a] = "created" => todo'[a] = {}
                      /\ stage'[a] # "live" => pc'[a] = "idle"
    BY DEF SignupOwns, RetryStatuses
  <2>1. a \in Runners
    BY DEF Runners
  <2>2. ASSUME NEW j \in Touched(a)'
        PROVE  job'[j].status \notin RetryStatuses
    <3>1. j \in Touched(a) /\ j \in Jobs /\ job[j].status \notin RetryStatuses
      BY <1>1, <2>1, <2>2 DEF OverlapInv, SignupOwns, HoldsRows, Created
    <3>2. CASE a = r
      BY <3>1, <3>2, <2>2 DEF OwnStep
    <3>3. CASE a # r
      <4>1. j \notin Touched(r)
        BY <3>1, <3>3 DEF OverlapInv, SignupOwns
      <4> QED
        BY <3>1, <4>1 DEF OwnStep
    <3> QED
      BY <3>2, <3>3
  <2>3. \A q \in Runners \ {a} : Touched(a)' \cap Touched(q)' = {}
    BY <1>1, <2>1 DEF OverlapInv, SignupOwns
  <2>4. /\ stage'[a] = "created" => todo'[a] = {}
        /\ stage'[a] # "live" => pc'[a] = "idle"
    BY <2>1 DEF OwnStep, OverlapInv, SignupOwns
  <2> QED
    BY <2>2, <2>3, <2>4
<1> QED
  BY <1>2, <1>3 DEF OverlapInv

\* A step that puts jobs S in the hands of r, when nobody held them.
LEMMA GrantKeeps ==
  ASSUME TypeOK, OverlapInv, [Next]_vars, NEW r \in Runners, NEW S \in SUBSET Jobs,
         \A q \in Runners \ {r} : pc'[q] = pc[q] /\ cur'[q] = cur[q] /\ todo'[q] = todo[q],
         Touched(r)' = S, S \subseteq Created', pc'[r] \notin Running,
         \A a \in Accounts \ {r} : S \cap Touched(a) = {},
         r \in Accounts => /\ \A q \in Runners \ {r} : S \cap Touched(q) = {}
                           /\ \A j \in S : job'[j].status \notin RetryStatuses
                           /\ stage'[r] # "created" /\ (stage'[r] # "live" => pc'[r] = "idle"),
         \A a \in Accounts \ {r} : stage'[a] = stage[a],
         \A a \in Accounts \ {r} : \A j \in Touched(a) : job'[j] = job[j]
  PROVE  OverlapInv'
<1>1. \A q \in Runners \ {r} : Touched(q)' = Touched(q)
  BY DEF Touched
<1>2. HoldsRows'
  BY <1>1, RowsStay DEF OverlapInv, HoldsRows
<1>3. \A a \in Accounts : a \in Runners
  BY DEF Runners
<1>4. SignupOwns'
  <2> SUFFICES ASSUME NEW a \in Accounts
               PROVE  /\ \A j \in Touched(a)' : job'[j].status \notin RetryStatuses
                      /\ \A q \in Runners \ {a} : Touched(a)' \cap Touched(q)' = {}
                      /\ stage'[a] = "created" => todo'[a] = {}
                      /\ stage'[a] # "live" => pc'[a] = "idle"
    BY DEF SignupOwns, RetryStatuses
  <2>1. CASE a = r
    <3>1. Touched(a)' = S
      BY <2>1 DEF Touched
    <3>2. \A j \in S : job'[j].status \notin RetryStatuses
      BY <2>1
    <3>3. \A q \in Runners \ {a} : S \cap Touched(q)' = {}
      BY <1>1, <2>1
    <3>4. r \in Accounts
      BY <2>1
    <3>5. stage'[r] # "created" /\ (stage'[r] # "live" => pc'[r] = "idle")
      BY <3>4
    <3>6. stage'[a] # "created" /\ (stage'[a] # "live" => pc'[a] = "idle")
      BY <2>1, <3>5
    <3> QED
      BY <3>1, <3>2, <3>3, <3>6
  <2>2. CASE a # r
    <3>1. Touched(a)' = Touched(a) /\ pc'[a] = pc[a] /\ todo'[a] = todo[a] /\ stage'[a] = stage[a]
      BY <1>1, <1>3, <2>2
    <3>2. \A j \in Touched(a)' : job'[j].status \notin RetryStatuses
      BY <2>2, <3>1 DEF OverlapInv, SignupOwns
    <3>3. ASSUME NEW q \in Runners \ {a}
          PROVE  Touched(a)' \cap Touched(q)' = {}
      BY <1>1, <2>2, <3>1 DEF OverlapInv, SignupOwns
    <3> QED
      BY <3>1, <3>2, <3>3 DEF OverlapInv, SignupOwns
  <2> QED
    BY <2>1, <2>2
<1> QED
  BY <1>2, <1>4 DEF OverlapInv

\* Before the first step nobody holds a job.
LEMMA OverlapInit == Init => OverlapInv
BY DEF Init, OverlapInv, HoldsRows, SignupOwns, Touched, Created, Running, Runners

\* Every step keeps the signups' jobs out of everybody else's hands.
LEMMA OverlapStep == TypeOK /\ OverlapInv /\ [Next]_vars => OverlapInv'
<1> SUFFICES ASSUME TypeOK, OverlapInv, [Next]_vars PROVE OverlapInv'
  OBVIOUS
<1>1. ASSUME NEW r \in Runners, RunStep(r) \/ LinkLost(r) \/ Expire(r)
      PROVE  OverlapInv'
  BY <1>1, RunStepOwn, OwnStepKeeps DEF OverlapInv
<1>2. ASSUME NEW a \in Accounts, SignupPlan(a)
      PROVE  OverlapInv'
  <2>0. PICK kinds \in SUBSET Kinds :
          \E f \in NewIds(kinds) :
            /\ job' = Planned(a, kinds, f)
            /\ todo' = [todo EXCEPT ![a] = {f[k] : k \in {x \in kinds : InitialStatus(x) \in Runnable}}]
    BY <1>2 DEF SignupPlan
  <2>1. PICK f \in NewIds(kinds) :
          /\ job' = Planned(a, kinds, f)
          /\ todo' = [todo EXCEPT ![a] = {f[k] : k \in {x \in kinds : InitialStatus(x) \in Runnable}}]
    BY <2>0
  <2> DEFINE S == {f[k] : k \in {x \in kinds : InitialStatus(x) \in Runnable}}
  <2>2. /\ \A k \in kinds : f[k] \in Created' \ Created /\ job'[f[k]].status \notin RetryStatuses
        /\ \A j \in Jobs : job'[j] # job[j] => \E k \in kinds : f[k] = j
    BY <2>1, PlannedRows
  <2>3. S \subseteq Created' \ Created /\ S \in SUBSET Jobs
    BY <2>2 DEF Created
  <2>4. a \in Runners /\ pc[a] = "idle" /\ pc' = pc /\ cur' = cur
    BY <1>2 DEF SignupPlan, Runners, OverlapInv, SignupOwns
  <2>5. Touched(a)' = S
    BY <2>1, <2>4 DEF Touched, Running, TypeOK
  <2>6. \A q \in Runners \ {a} : pc'[q] = pc[q] /\ cur'[q] = cur[q] /\ todo'[q] = todo[q]
    BY <2>1, <2>4 DEF TypeOK
  <2>7. \A q \in Runners : Touched(q) \subseteq Created
    BY DEF OverlapInv, HoldsRows
  <2>8. \A b \in Accounts : b \in Runners
    BY DEF Runners
  <2>9. stage'[a] = "planned" /\ \A b \in Accounts \ {a} : stage'[b] = stage[b]
    BY <1>2 DEF SignupPlan, TypeOK
  <2>10. \A b \in Accounts \ {a} : \A j \in Touched(b) : job'[j] = job[j]
    BY <2>2, <2>7, <2>8 DEF Created
  <2>11. \A j \in S : job'[j].status \notin RetryStatuses
    BY <2>2
  <2>12. pc'[a] \notin Running
    BY <2>4 DEF Running
  <2> HIDE DEF S
  <2>13. \A q \in Runners : S \cap Touched(q) = {}
    BY <2>3, <2>7
  <2> QED
    BY <2>3, <2>4, <2>5, <2>6, <2>8, <2>9, <2>10, <2>11, <2>12, <2>13, GrantKeeps
<1>3. ASSUME NEW a \in Accounts, SignupRun(a) \/ SignupFails(a)
      PROVE  OverlapInv'
  <2>1. /\ job' = job /\ stage'[a] = "live" /\ a \in Runners /\ pc[a] = "idle"
        /\ \A b \in Accounts \ {a} : stage'[b] = stage[b]
        /\ \A q \in Runners \ {a} : pc'[q] = pc[q] /\ cur'[q] = cur[q] /\ todo'[q] = todo[q]
        /\ pc'[a] \in {"pick", "ended"} /\ todo'[a] \subseteq todo[a]
    BY <1>3 DEF SignupRun, SignupFails, Goto, TypeOK, Runners, OverlapInv, SignupOwns
  <2>2. Touched(a)' = todo'[a] /\ Touched(a) = todo[a]
    BY <2>1 DEF Touched, Running
  <2>3. todo'[a] \in SUBSET Jobs /\ todo'[a] \subseteq Created'
    BY <2>1, <2>2 DEF TypeOK, OverlapInv, HoldsRows, Created
  <2>4. /\ \A q \in Runners \ {a} : todo'[a] \cap Touched(q) = {}
        /\ \A j \in todo'[a] : job'[j].status \notin RetryStatuses
    BY <2>1, <2>2 DEF OverlapInv, SignupOwns
  <2>5. \A b \in Accounts \ {a} : b \in Runners \ {a}
    BY DEF Runners
  <2>6. pc'[a] \notin Running
    BY <2>1 DEF Running
  <2> QED
    BY <2>1, <2>2, <2>3, <2>4, <2>5, <2>6, GrantKeeps
<1>4. ASSUME Tick
      PROVE  OverlapInv'
  <2> DEFINE S == {j \in Batch : ~GaveUp(j)}
  <2>1. /\ S \subseteq Waiting /\ S \in SUBSET Jobs /\ S \subseteq Created
    BY DEF Batch, Waiting, Created
  <2>2. /\ Loop \in Runners /\ pc' = [pc EXCEPT ![Loop] = "pick"] /\ todo' = [todo EXCEPT ![Loop] = S]
        /\ cur' = cur /\ job' = job /\ stage' = stage
    BY <1>4 DEF Tick, Goto, Runners
  <2>3. Touched(Loop)' = S /\ pc'[Loop] \notin Running
    BY <2>2 DEF Touched, Running, TypeOK
  <2>4. \A q \in Runners \ {Loop} : pc'[q] = pc[q] /\ cur'[q] = cur[q] /\ todo'[q] = todo[q]
    BY <2>2 DEF TypeOK
  <2>5. \A a \in Accounts : S \cap Touched(a) = {}
    BY <2>1 DEF Waiting, OverlapInv, SignupOwns
  <2>6. Loop \notin Accounts /\ S \subseteq Created'
    BY <2>1, <2>2, RunnersAssumption DEF Created
  <2> HIDE DEF S
  <2> QED
    BY <2>1, <2>2, <2>3, <2>4, <2>5, <2>6, GrantKeeps
<1>5. ASSUME NEW m \in Admins, NEW a \in Accounts, AdminOpens(m, a)
      PROVE  OverlapInv'
  <2>1. /\ m \in Runners /\ m \notin Accounts /\ job' = job /\ stage' = stage
        /\ pc' = [pc EXCEPT ![m] = "listing"] /\ cur' = cur /\ todo' = todo /\ pc[m] = "idle"
    BY <1>5, RunnersAssumption DEF AdminOpens, Goto, Runners
  <2>2. \A q \in Runners : Touched(q)' = Touched(q) /\ (pc'[q] \in Running <=> pc[q] \in Running)
    BY <2>1 DEF Touched, Running, TypeOK
  <2> QED
    BY <2>1, <2>2 DEF OverlapInv, HoldsRows, SignupOwns, Created, RetryStatuses, TypeOK, Runners
<1>6. ASSUME NEW m \in Admins, AdminLists(m)
      PROVE  OverlapInv'
  <2>1. m \in Runners /\ m \notin Accounts /\ job' = job /\ stage' = stage /\ todo' = todo
    BY <1>6, RunnersAssumption DEF AdminLists, Runners
  <2>2. /\ \A q \in Runners \ {m} : pc'[q] = pc[q] /\ cur'[q] = cur[q]
        /\ pc'[m] \in {"idle", "planning"}
        /\ pc'[m] = "planning" => cur'[m] = 0 \/ cur'[m] \in Waiting
    BY <1>6 DEF AdminLists, Goto, TypeOK, Runners
  <2> DEFINE S == Touched(m)'
  <2>3. S \subseteq todo[m] \cup Waiting
    BY <2>1, <2>2 DEF Touched, Running
  <2>4. todo[m] \subseteq Touched(m) /\ Touched(m) \subseteq Created
    BY <2>1 DEF Touched, OverlapInv, HoldsRows
  <2>5. \A a \in Accounts : S \cap Touched(a) = {}
    BY <2>1, <2>3, <2>4 DEF Waiting, OverlapInv, SignupOwns
  <2>6. S \subseteq Created' /\ S \in SUBSET Jobs
    BY <2>1, <2>3, <2>4 DEF Waiting, Created
  <2>7. pc'[m] \notin Running
    BY <2>2 DEF Running
  <2> HIDE DEF S
  <2> QED
    BY <2>1, <2>2, <2>5, <2>6, <2>7, GrantKeeps DEF S
<1>7. ASSUME NEW m \in Admins, AdminRuns(m)
      PROVE  OverlapInv'
  <2>1. /\ m \in Runners /\ m \notin Accounts /\ stage' = stage /\ cur' = cur /\ pc[m] = "planning"
        /\ pc' = [pc EXCEPT ![m] = "pick"]
    BY <1>7, RunnersAssumption DEF AdminRuns, Goto, Runners
  <2>2. pc'[m] = "pick" /\ \A q \in Runners \ {m} : pc'[q] = pc[q] /\ cur'[q] = cur[q]
    BY <2>1 DEF TypeOK
  <2>3. \A q \in Runners : Touched(q) \subseteq Created
    BY DEF OverlapInv, HoldsRows
  <2>4. \A b \in Accounts : b \in Runners \ {m}
    BY <2>1 DEF Runners
  <2>5. CASE cur[m] # 0
    <3>1. job' = job /\ todo' = [todo EXCEPT ![m] = {cur[m]}]
      BY <1>7, <2>5 DEF AdminRuns
    <3>2. Touched(m)' = {cur[m]} /\ {cur[m]} \subseteq Touched(m)
      BY <2>1, <2>2, <2>5, <3>1 DEF Touched, Running, TypeOK
    <3>3. {cur[m]} \subseteq Created' /\ {cur[m]} \in SUBSET Jobs
      BY <2>1, <2>3, <3>1, <3>2 DEF Created
    <3>4. \A a \in Accounts : {cur[m]} \cap Touched(a) = {}
      BY <2>1, <3>2 DEF OverlapInv, SignupOwns
    <3>5. \A q \in Runners \ {m} : todo'[q] = todo[q]
      BY <3>1 DEF TypeOK
    <3>6. pc'[m] \notin Running
      BY <2>2 DEF Running
    <3> QED
      BY <2>1, <2>2, <3>1, <3>2, <3>3, <3>4, <3>5, <3>6, GrantKeeps
  <2>6. CASE cur[m] = 0
    <3>1. PICK f \in NewIds({"erp"}) :
            /\ job' = Planned(target[m], {"erp"}, f)
            /\ todo' = [todo EXCEPT ![m] = {f["erp"]}]
      BY <1>7, <2>6 DEF AdminRuns
    <3>2. target[m] \in Accounts /\ {"erp"} \in SUBSET Kinds
      BY DEF TypeOK, Kinds
    <3>3. /\ f["erp"] \in Created' \ Created
          /\ \A j \in Jobs : job'[j] # job[j] => f["erp"] = j
      BY <3>1, <3>2, PlannedRows
    <3>4. Touched(m)' = {f["erp"]} /\ pc'[m] \notin Running
      BY <2>1, <2>2, <3>1 DEF Touched, Running, TypeOK
    <3>5. {f["erp"]} \subseteq Created' /\ {f["erp"]} \in SUBSET Jobs
      BY <3>3 DEF Created
    <3>6. \A a \in Accounts : {f["erp"]} \cap Touched(a) = {} /\ \A j \in Touched(a) : job'[j] = job[j]
      BY <2>3, <2>4, <3>3 DEF Created
    <3>7. \A q \in Runners \ {m} : todo'[q] = todo[q]
      BY <3>1 DEF TypeOK
    <3> QED
      BY <2>1, <2>2, <3>4, <3>5, <3>6, <3>7, GrantKeeps
  <2> QED
    BY <2>5, <2>6
<1>8. ASSUME NEW j \in Jobs, SkipJob(j)
      PROVE  OverlapInv'
  <2>1. Loop \in Runners /\ pc[Loop] = "pick" /\ pc' = pc /\ cur' = cur /\ job' = job /\ stage' = stage
        /\ todo' = [todo EXCEPT ![Loop] = @ \ {j}]
    BY <1>8 DEF SkipJob, NextJob, Runners
  <2>2. OwnStep(Loop)
    BY <2>1 DEF OwnStep, Touched, Running, TypeOK
  <2> QED
    BY <2>1, <2>2, OwnStepKeeps
<1>9. ASSUME \/ \E a \in Accounts : ConnectERP(a) \/ DeliverSite(a)
             \/ \E s \in stray : StrayEnds(s)
             \/ UNCHANGED vars
      PROVE  OverlapInv'
  <2>1. pc' = pc /\ cur' = cur /\ todo' = todo /\ job' = job /\ stage' = stage
    BY <1>9 DEF ConnectERP, DeliverSite, StrayEnds, vars
  <2> QED
    BY <2>1 DEF OverlapInv, HoldsRows, SignupOwns, Touched, Created, RetryStatuses
<1>10. ASSUME Restart
       PROVE  OverlapInv'
  <2>1. /\ job' = job
        /\ \A r \in Runners : todo'[r] = {} /\ pc'[r] \in {"idle", "ended"}
        /\ \A a \in Accounts : stage'[a] = "live" /\ a \in Runners
    BY <1>10 DEF Restart, Runners
  <2>2. \A r \in Runners : Touched(r)' = {} /\ pc'[r] \notin Running
    BY <2>1 DEF Touched, Running
  <2> QED
    BY <2>1, <2>2 DEF OverlapInv, HoldsRows, SignupOwns
<1> QED
  BY <1>1, <1>2, <1>3, <1>4, <1>5, <1>6, <1>7, <1>8, <1>9, <1>10 DEF Next

\* The signup's RunAll and the RetryLoop never run the same job at once.
THEOREM NoOverlap == Spec => []AutomationNeverOverlaps
<1>1. OverlapInv => AutomationNeverOverlaps
  <2> SUFFICES ASSUME OverlapInv,
                      NEW r \in Runners \ Admins, NEW q \in Runners \ Admins,
                      r # q, pc[r] \in Running, pc[q] \in Running, cur[r] = cur[q]
               PROVE  FALSE
    BY DEF AutomationNeverOverlaps
  <2>1. cur[r] \in Touched(r) /\ cur[r] \in Touched(q)
    BY DEF OverlapInv, HoldsRows, Touched
  <2>2. r \in Accounts \/ q \in Accounts
    BY DEF Runners
  <2> QED
    BY <2>1, <2>2 DEF OverlapInv, SignupOwns
<1> QED
  BY <1>1, TypeInit, TypeStep, OverlapInit, OverlapStep, PTL DEF Spec

-----------------------------------------------------------------------------
(* A job reported done left an access. *)

\* Nothing takes an account's stored access away.
LEMMA ConnStays ==
  ASSUME TypeOK, [Next]_vars, NEW a \in Accounts, conn[a].by # "none"
  PROVE  conn'[a].by # "none"
<1>1. ASSUME NEW r \in Runners, SaveConnection(r)
      PROVE  conn'[a].by # "none"
  BY <1>1 DEF SaveConnection, TypeOK
<1>2. ASSUME NEW b \in Accounts, ConnectERP(b)
      PROVE  conn'[a].by # "none"
  BY <1>2 DEF ConnectERP, TypeOK
<1>3. ASSUME NEW r \in Runners,
             \/ \E j \in Jobs : WaitForVPS(r, j) \/ BeginErp(r, j) \/ BeginWhatsApp(r, j) \/ BeginWebsite(r, j)
             \/ ScriptPrints(r) \/ ScriptFails(r) \/ FinishErp(r) \/ RegisterNumber(r) \/ FinishWhatsApp(r)
             \/ SaveSite(r) \/ FileTask(r) \/ FinishWebsite(r) \/ FinishFailed(r) \/ EndRun(r)
             \/ LinkLost(r) \/ Expire(r)
      PROVE  conn' = conn
  BY <1>3 DEF WaitForVPS, BeginErp, BeginWhatsApp, BeginWebsite, ScriptPrints, ScriptFails, FinishErp,
              RegisterNumber, FinishWhatsApp, SaveSite, FileTask, FinishWebsite, FinishFailed, EndRun,
              LinkLost, Expire, Finish, external
<1>4. ASSUME \/ \E b \in Accounts : SignupPlan(b) \/ SignupRun(b) \/ SignupFails(b) \/ DeliverSite(b)
             \/ \E m \in Admins : AdminLists(m) \/ AdminRuns(m) \/ (\E b \in Accounts : AdminOpens(m, b))
             \/ \E j \in Jobs : SkipJob(j)
             \/ \E s \in stray : StrayEnds(s)
             \/ Tick \/ Restart \/ UNCHANGED vars
      PROVE  conn' = conn
  BY <1>4 DEF SignupPlan, SignupRun, SignupFails, DeliverSite, AdminLists, AdminRuns, AdminOpens, SkipJob,
              StrayEnds, Tick, Restart, external, vars
<1> QED
  BY <1>1, <1>2, <1>3, <1>4 DEF Next, RunStep

\* A goroutine gets to "saved" only by storing an access.
LEMMA SavedBySaving ==
  ASSUME TypeOK, [Next]_vars, NEW r \in Runners, pc'[r] = "saved"
  PROVE  (pc[r] = "saved" /\ cur'[r] = cur[r]) \/ SaveConnection(r)
<1>1. ASSUME NEW q \in Runners, RunStep(q) \/ LinkLost(q) \/ Expire(q), q # r
      PROVE  pc'[r] = pc[r] /\ cur'[r] = cur[r]
  <2>1. ASSUME NEW j \in Jobs, WaitForVPS(q, j) \/ BeginErp(q, j) \/ BeginWhatsApp(q, j) \/ BeginWebsite(q, j)
        PROVE  pc'[r] = pc[r] /\ cur'[r] = cur[r]
    BY <1>1, <2>1 DEF WaitForVPS, BeginErp, BeginWhatsApp, BeginWebsite, Take, Goto, TypeOK
  <2>2. ASSUME \/ ScriptPrints(q) \/ ScriptFails(q) \/ SaveConnection(q) \/ RegisterNumber(q)
               \/ SaveSite(q) \/ FileTask(q) \/ EndRun(q) \/ LinkLost(q) \/ Expire(q)
        PROVE  pc'[r] = pc[r] /\ cur'[r] = cur[r]
    BY <1>1, <2>2 DEF ScriptPrints, ScriptFails, SaveConnection, RegisterNumber, SaveSite, FileTask, EndRun,
                      LinkLost, Expire, Goto, TypeOK
  <2>3. ASSUME FinishErp(q) \/ FinishWhatsApp(q) \/ FinishWebsite(q) \/ FinishFailed(q)
        PROVE  pc'[r] = pc[r] /\ cur'[r] = cur[r]
    BY <1>1, <2>3 DEF FinishErp, FinishWhatsApp, FinishWebsite, FinishFailed, Finish, Goto, TypeOK
  <2> QED
    BY <1>1, <2>1, <2>2, <2>3 DEF RunStep
<1>2. ASSUME RunStep(r) \/ LinkLost(r) \/ Expire(r), ~SaveConnection(r)
      PROVE  pc[r] = "saved" /\ cur'[r] = cur[r]
  <2>1. ASSUME NEW j \in Jobs, WaitForVPS(r, j) \/ BeginErp(r, j) \/ BeginWhatsApp(r, j) \/ BeginWebsite(r, j)
        PROVE  FALSE
    BY <2>1 DEF WaitForVPS, BeginErp, BeginWhatsApp, BeginWebsite, Take, NextJob, Goto, TypeOK
  <2>2. ASSUME \/ ScriptPrints(r) \/ ScriptFails(r) \/ RegisterNumber(r) \/ SaveSite(r) \/ FileTask(r)
               \/ EndRun(r) \/ LinkLost(r)
               \/ FinishErp(r) \/ FinishWhatsApp(r) \/ FinishWebsite(r) \/ FinishFailed(r)
        PROVE  FALSE
    BY <2>2 DEF ScriptPrints, ScriptFails, RegisterNumber, SaveSite, FileTask, EndRun, LinkLost,
                FinishErp, FinishWhatsApp, FinishWebsite, FinishFailed, Finish, Goto, TypeOK
  <2>3. ASSUME Expire(r)
        PROVE  pc[r] = "saved" /\ cur'[r] = cur[r]
    BY <2>3 DEF Expire, Goto, TypeOK
  <2> QED
    BY <1>2, <2>1, <2>2, <2>3 DEF RunStep
<1>3. ASSUME NEW a \in Accounts,
             SignupPlan(a) \/ SignupRun(a) \/ SignupFails(a) \/ ConnectERP(a) \/ DeliverSite(a)
      PROVE  pc[r] = "saved" /\ cur'[r] = cur[r]
  BY <1>3 DEF SignupPlan, SignupRun, SignupFails, ConnectERP, DeliverSite, Goto, TypeOK
<1>4. ASSUME NEW m \in Admins, AdminLists(m) \/ AdminRuns(m) \/ (\E a \in Accounts : AdminOpens(m, a))
      PROVE  pc[r] = "saved" /\ cur'[r] = cur[r]
  BY <1>4 DEF AdminLists, AdminRuns, AdminOpens, Goto, TypeOK
<1>5. ASSUME \/ \E j \in Jobs : SkipJob(j)
             \/ \E s \in stray : StrayEnds(s)
             \/ Tick \/ Restart \/ UNCHANGED vars
      PROVE  pc[r] = "saved" /\ cur'[r] = cur[r]
  BY <1>5 DEF SkipJob, StrayEnds, Tick, Restart, Goto, TypeOK, vars
<1> QED
  BY <1>1, <1>2, <1>3, <1>4, <1>5 DEF Next

\* Only the end of an ERP run reports a job "listo".
LEMMA DoneByFinish ==
  ASSUME TypeOK, [Next]_vars, NEW j \in Jobs, job'[j].status = "listo"
  PROVE  \/ job[j].status = "listo"
         \/ \E r \in Runners : pc[r] = "saved" /\ cur[r] = j /\ conn' = conn
<1>1. ASSUME NEW r \in Runners, NEW k \in Jobs, WaitForVPS(r, k) \/ BeginErp(r, k)
      PROVE  job[j].status = "listo"
  BY <1>1 DEF WaitForVPS, BeginErp, SetJob, TypeOK
<1>2. ASSUME NEW r \in Runners, FinishErp(r)
      PROVE  job[j].status = "listo" \/ (pc[r] = "saved" /\ cur[r] = j /\ conn' = conn)
  BY <1>2 DEF FinishErp, Finish, SetJob, TypeOK, external
<1>3. ASSUME NEW r \in Runners, FinishWhatsApp(r) \/ FinishWebsite(r) \/ FinishFailed(r)
      PROVE  job[j].status = "listo"
  BY <1>3 DEF FinishWhatsApp, FinishWebsite, FinishFailed, Finish, SetJob, TypeOK
<1>4. ASSUME NEW a \in Accounts, SignupPlan(a)
      PROVE  job[j].status = "listo"
  <2>1. PICK kinds \in SUBSET Kinds : \E f \in NewIds(kinds) : job' = Planned(a, kinds, f)
    BY <1>4 DEF SignupPlan
  <2>2. PICK f \in NewIds(kinds) : job' = Planned(a, kinds, f)
    BY <2>1
  <2> QED
    BY <2>2, PlannedRows
<1>5. ASSUME NEW m \in Admins, AdminRuns(m)
      PROVE  job[j].status = "listo"
  <2>1. target[m] \in Accounts /\ {"erp"} \in SUBSET Kinds
    BY DEF TypeOK, Kinds
  <2>2. CASE job' = job
    BY <2>2
  <2>3. CASE \E f \in NewIds({"erp"}) : job' = Planned(target[m], {"erp"}, f)
    <3>1. PICK f \in NewIds({"erp"}) : job' = Planned(target[m], {"erp"}, f)
      BY <2>3
    <3> QED
      BY <2>1, <3>1, PlannedRows
  <2> QED
    BY <1>5, <2>2, <2>3 DEF AdminRuns
<1>6. ASSUME NEW r \in Runners,
             \/ \E k \in Jobs : BeginWhatsApp(r, k) \/ BeginWebsite(r, k)
             \/ ScriptPrints(r) \/ ScriptFails(r) \/ SaveConnection(r) \/ RegisterNumber(r)
             \/ SaveSite(r) \/ FileTask(r) \/ EndRun(r) \/ LinkLost(r) \/ Expire(r)
      PROVE  job' = job
  BY <1>6 DEF BeginWhatsApp, BeginWebsite, ScriptPrints, ScriptFails, SaveConnection, RegisterNumber,
              SaveSite, FileTask, EndRun, LinkLost, Expire
<1>7. ASSUME \/ \E a \in Accounts : SignupRun(a) \/ SignupFails(a) \/ ConnectERP(a) \/ DeliverSite(a)
             \/ \E m \in Admins : AdminLists(m) \/ \E a \in Accounts : AdminOpens(m, a)
             \/ \E k \in Jobs : SkipJob(k)
             \/ \E s \in stray : StrayEnds(s)
             \/ Tick \/ Restart \/ UNCHANGED vars
      PROVE  job' = job
  BY <1>7 DEF SignupRun, SignupFails, ConnectERP, DeliverSite, AdminLists, AdminOpens, SkipJob, StrayEnds,
              Tick, Restart, vars
<1> QED
  BY <1>1, <1>2, <1>3, <1>4, <1>5, <1>6, <1>7 DEF Next, RunStep

\* Every step keeps the promise of "listo".
LEMMA AccessStep == TypeOK /\ HoldsRows /\ AccessInv /\ [Next]_vars => AccessInv'
<1> SUFFICES ASSUME TypeOK, HoldsRows, AccessInv, [Next]_vars PROVE AccessInv'
  OBVIOUS
<1>0. \A r \in Runners : pc[r] = "saved" => cur[r] \in Created
  BY DEF HoldsRows, Touched, Running
<1>1. SavedHasAccess'
  <2> SUFFICES ASSUME NEW r \in Runners, pc'[r] = "saved"
               PROVE  conn'[job'[cur'[r]].account].by # "none"
    BY DEF SavedHasAccess, AccountOf
  <2>1. CASE pc[r] = "saved" /\ cur'[r] = cur[r]
    <3>1. cur[r] \in Created /\ job'[cur[r]].account = job[cur[r]].account
      BY <1>0, <2>1, RowsStay
    <3>2. job[cur[r]].account \in Accounts /\ conn[job[cur[r]].account].by # "none"
      BY <2>1, <3>1 DEF AccessInv, SavedHasAccess, AccountOf, Created, TypeOK, JobRow
    <3> QED
      BY <2>1, <3>1, <3>2, ConnStays
  <2>2. CASE SaveConnection(r)
    <3>1. cur' = cur /\ job' = job
      BY <2>2 DEF SaveConnection
    <3>2. AccountOf(r) \in Accounts
      BY <2>2, RunningRow DEF SaveConnection, Running
    <3>3. conn'[AccountOf(r)].by = "vps"
      BY <2>2, <3>2 DEF SaveConnection, Goto, TypeOK
    <3> QED
      BY <3>1, <3>3 DEF AccountOf
  <2> QED
    BY <2>1, <2>2, SavedBySaving
<1>2. DoneHasAccess'
  <2> SUFFICES ASSUME NEW j \in Jobs, job'[j].status = "listo"
               PROVE  conn'[job'[j].account].by # "none"
    BY DEF DoneHasAccess, Created
  <2>1. CASE job[j].status = "listo"
    <3>1. j \in Created /\ job'[j].account = job[j].account
      BY <2>1, RowsStay DEF Created
    <3>2. job[j].account \in Accounts /\ conn[job[j].account].by # "none"
      BY <2>1, <3>1 DEF AccessInv, DoneHasAccess, TypeOK, JobRow
    <3> QED
      BY <3>1, <3>2, ConnStays
  <2>2. ASSUME NEW r \in Runners, pc[r] = "saved", cur[r] = j, conn' = conn
        PROVE  conn'[job'[j].account].by # "none"
    <3>1. j \in Created /\ job'[j].account = job[j].account
      BY <1>0, <2>2, RowsStay
    <3> QED
      BY <2>2, <3>1 DEF AccessInv, SavedHasAccess, AccountOf
  <2> QED
    BY <2>1, <2>2, DoneByFinish
<1> QED
  BY <1>1, <1>2 DEF AccessInv

\* A job reported "listo" left its account an Odoo access, in every reachable
\* state, whatever failed, expired or restarted on the way.
THEOREM DoneMeansAccess == Spec => []DoneHasAccess
<1>1. Init => AccessInv
  BY DEF Init, AccessInv, SavedHasAccess, DoneHasAccess, Created, NoJob
<1>2. OverlapInv => HoldsRows
  BY DEF OverlapInv
<1>3. AccessInv => DoneHasAccess
  BY DEF AccessInv
<1> QED
  BY <1>1, <1>2, <1>3, TypeInit, TypeStep, OverlapInit, OverlapStep, AccessStep, PTL DEF Spec

-----------------------------------------------------------------------------
(* The website jobs: the Creators get one task for a website, and no retry *)
(* takes a public site down.                                               *)

Website(j) == job[j].kind = "website"

\* Admin requests only have ERP jobs in hand.
AdminsErp == \A m \in Admins : \A j \in Touched(m) : job[j].kind = "erp"

\* The site's steps are those of a website job.
SiteRuns == \A r \in Runners : pc[r] \in {"site", "filing", "filed"} => Website(cur[r])

\* A website job that somebody still has to run is not waiting for Creators.
NotBuilding == \A r \in Runners : \A j \in Touched(r) : Website(j) => job[j].status # "en_proceso"

\* Tasks are filed for website jobs.
FiledForSites == \A j \in Jobs : siteTasks[j] > 0 => j \in Created /\ Website(j)

\* A job whose task is filed has been recorded as waiting for the Creators or
\* is about to be.
FiledOnce ==
  \A j \in Jobs \ lost :
    siteTasks[j] > 0 =>
      /\ siteTasks[j] = 1
      /\ job[j].status = "en_proceso" \/ \E r \in Runners : pc[r] = "filed" /\ cur[r] = j

\* An account has one website job, and none before its signup has planned.
OneSite ==
  /\ \A i, j \in Created : Website(i) /\ Website(j) /\ job[i].account = job[j].account => i = j
  /\ \A a \in Accounts : stage[a] = "created" => \A j \in Created : job[j].account = a => ~Website(j)

\* A site is public once a task of the account was filed.
PublicFiled ==
  \A a \in Accounts :
    site[a] = "publicado" => \E j \in Created : job[j].account = a /\ siteTasks[j] > 0

SiteInv == AdminsErp /\ SiteRuns /\ NotBuilding /\ FiledForSites /\ FiledOnce /\ OneSite /\ PublicFiled

\* The outcome of a run is written, or its write is missed.
Finishes(r) == FinishErp(r) \/ FinishWhatsApp(r) \/ FinishWebsite(r) \/ FinishFailed(r)

-----------------------------------------------------------------------------
(* Who may work on a website job. *)

\* A website job is in one goroutine's hands.
LEMMA OneBuilder ==
  ASSUME OverlapInv, AdminsErp, NEW r \in Runners, NEW q \in Runners, r # q,
         NEW j \in Touched(r), Website(j)
  PROVE  j \notin Touched(q)
<1>1. r \notin Admins
  BY DEF AdminsErp, Website
<1>2. q \in Admins => j \notin Touched(q)
  BY DEF AdminsErp, Website
<1>3. q \notin Admins => r \in Accounts \/ q \in Accounts
  BY <1>1 DEF Runners
<1> QED
  BY <1>2, <1>3 DEF OverlapInv, SignupOwns

\* Only the plan of a signup, a tick of the loop and the steps of an admin's
\* request give a goroutine jobs.
LEMMA HandsGrow ==
  ASSUME TypeOK, OverlapInv, [Next]_vars, NEW r \in Runners
  PROVE  \/ Touched(r)' \subseteq Touched(r)
         \/ r \in Accounts /\ SignupPlan(r)
         \/ r = Loop /\ Tick
         \/ r \in Admins /\ (AdminLists(r) \/ AdminRuns(r))
<1>1. ASSUME NEW q \in Runners, RunStep(q) \/ LinkLost(q) \/ Expire(q)
      PROVE  Touched(r)' \subseteq Touched(r)
  <2>1. OwnStep(q)
    BY <1>1, RunStepOwn DEF OverlapInv
  <2> QED
    BY <2>1 DEF OwnStep, Touched
<1>2. ASSUME NEW b \in Accounts, SignupPlan(b), b # r
      PROVE  Touched(r)' \subseteq Touched(r)
  <2>1. pc' = pc /\ cur' = cur /\ todo'[r] = todo[r]
    BY <1>2 DEF SignupPlan, TypeOK
  <2> QED
    BY <2>1 DEF Touched
<1>3. ASSUME NEW b \in Accounts, SignupRun(b) \/ SignupFails(b)
      PROVE  Touched(r)' \subseteq Touched(r)
  <2>1. cur' = cur /\ todo'[r] \subseteq todo[r] /\ (pc'[r] = pc[r] \/ pc'[r] \in {"pick", "ended"})
    BY <1>3 DEF SignupRun, SignupFails, Goto, TypeOK
  <2> QED
    BY <2>1 DEF Touched, Running
<1>4. ASSUME \/ \E b \in Accounts : ConnectERP(b) \/ DeliverSite(b)
             \/ \E s \in stray : StrayEnds(s)
             \/ UNCHANGED vars
      PROVE  Touched(r)' \subseteq Touched(r)
  <2>1. pc' = pc /\ cur' = cur /\ todo' = todo
    BY <1>4 DEF ConnectERP, DeliverSite, StrayEnds, vars
  <2> QED
    BY <2>1 DEF Touched
<1>5. ASSUME NEW k \in Jobs, SkipJob(k)
      PROVE  Touched(r)' \subseteq Touched(r)
  <2>1. pc' = pc /\ cur' = cur /\ todo'[r] \subseteq todo[r]
    BY <1>5 DEF SkipJob, TypeOK
  <2> QED
    BY <2>1 DEF Touched
<1>6. ASSUME NEW m \in Admins, \E b \in Accounts : AdminOpens(m, b)
      PROVE  Touched(r)' \subseteq Touched(r)
  <2>1. cur' = cur /\ todo' = todo /\ (pc'[r] = pc[r] \/ pc'[r] = "listing")
    BY <1>6 DEF AdminOpens, Goto, TypeOK
  <2> QED
    BY <2>1 DEF Touched, Running
<1>7. ASSUME NEW m \in Admins, AdminLists(m) \/ AdminRuns(m), m # r
      PROVE  Touched(r)' \subseteq Touched(r)
  <2>1. pc'[r] = pc[r] /\ cur'[r] = cur[r] /\ todo'[r] = todo[r]
    BY <1>7 DEF AdminLists, AdminRuns, Goto, TypeOK
  <2> QED
    BY <2>1 DEF Touched
<1>8. ASSUME Tick, r # Loop
      PROVE  Touched(r)' \subseteq Touched(r)
  <2>1. pc'[r] = pc[r] /\ cur'[r] = cur[r] /\ todo'[r] = todo[r]
    BY <1>8 DEF Tick, Goto, TypeOK
  <2> QED
    BY <2>1 DEF Touched
<1>9. ASSUME Restart
      PROVE  Touched(r)' \subseteq Touched(r)
  <2>1. todo'[r] = {} /\ pc'[r] \in {"idle", "ended"}
    BY <1>9 DEF Restart
  <2> QED
    BY <2>1 DEF Touched, Running
<1> QED
  BY <1>1, <1>2, <1>3, <1>4, <1>5, <1>6, <1>7, <1>8, <1>9 DEF Next

\* The only row a plan inserts for an admin is an ERP job.
LEMMA AdminPlans ==
  ASSUME TypeOK, NEW a \in Accounts, NEW f \in NewIds({"erp"}), job' = Planned(a, {"erp"}, f)
  PROVE  f["erp"] \in Jobs \ Created /\ job'[f["erp"]].kind = "erp"
<1>1. f["erp"] \in Jobs \ Created
  BY DEF NewIds
<1> QED
  BY <1>1 DEF Planned

\* Every step leaves admins with ERP jobs.
LEMMA AdminsErpStep ==
  ASSUME TypeOK, OverlapInv, AdminsErp, [Next]_vars
  PROVE  AdminsErp'
<1> SUFFICES ASSUME NEW m \in Admins, NEW j \in Touched(m)'
             PROVE  job'[j].kind = "erp"
  BY DEF AdminsErp
<1>0. m \in Runners /\ m # Loop /\ m \notin Accounts
  BY RunnersAssumption DEF Runners
<1>1. CASE j \in Touched(m)
  <2>1. j \in Created /\ job[j].kind = "erp"
    BY <1>0, <1>1 DEF AdminsErp, OverlapInv, HoldsRows
  <2> QED
    BY <2>1, RowsStay
<1>2. CASE AdminLists(m)
  <2>1. job' = job /\ todo' = todo /\ pc'[m] \in {"idle", "planning"}
    BY <1>0, <1>2 DEF AdminLists, Goto, TypeOK
  <2>2. CASE j \in todo[m]
    BY <1>1, <2>2 DEF Touched
  <2>3. CASE j \notin todo[m]
    <3>1. j = cur'[m] /\ j # 0 /\ pc'[m] = "planning"
      BY <2>1, <2>3 DEF Touched, Running
    <3>2. j \in ErpJobs(target[m])
      BY <1>0, <1>2, <3>1 DEF AdminLists, Goto, TypeOK
    <3> QED
      BY <2>1, <3>2 DEF ErpJobs
  <2> QED
    BY <2>2, <2>3
<1>3. CASE AdminRuns(m)
  <2>1. pc'[m] = "pick" /\ cur' = cur /\ pc[m] = "planning"
    BY <1>0, <1>3 DEF AdminRuns, Goto, TypeOK
  <2>2. CASE cur[m] # 0
    <3>1. todo'[m] = {cur[m]}
      BY <1>0, <1>3, <2>2 DEF AdminRuns, TypeOK
    <3>2. j \in Touched(m)
      BY <2>1, <2>2, <3>1 DEF Touched, Running
    <3> QED
      BY <1>1, <3>2
  <2>3. CASE cur[m] = 0
    <3>1. PICK f \in NewIds({"erp"}) :
            job' = Planned(target[m], {"erp"}, f) /\ todo' = [todo EXCEPT ![m] = {f["erp"]}]
      BY <1>3, <2>3 DEF AdminRuns
    <3>2. target[m] \in Accounts /\ j = f["erp"]
      BY <1>0, <2>1, <3>1 DEF TypeOK, Touched, Running
    <3> QED
      BY <3>1, <3>2, AdminPlans
  <2> QED
    BY <2>2, <2>3
<1> QED
  BY <1>0, <1>1, <1>2, <1>3, HandsGrow

-----------------------------------------------------------------------------
(* What a step does to website jobs. *)

\* The row of a job is written by a goroutine that has it.
LEMMA RowWritten ==
  ASSUME TypeOK, OverlapInv, [Next]_vars, NEW j \in Created, job'[j] # job[j]
  PROVE  \E q \in Runners : j \in Touched(q) /\ RunStep(q)
<1>0. j \in Jobs
  BY DEF Created
<1>1. ASSUME NEW q \in Runners, RunStep(q)
      PROVE  j \in Touched(q)
  <2>1. OwnStep(q)
    BY <1>1, RunStepOwn DEF OverlapInv
  <2> QED
    BY <1>0, <2>1 DEF OwnStep
<1>2. ASSUME NEW a \in Accounts, SignupPlan(a)
      PROVE  FALSE
  <2>1. PICK kinds \in SUBSET Kinds : \E f \in NewIds(kinds) : job' = Planned(a, kinds, f)
    BY <1>2 DEF SignupPlan
  <2>2. PICK f \in NewIds(kinds) : job' = Planned(a, kinds, f)
    BY <2>1
  <2> QED
    BY <1>0, <2>2, PlannedRows
<1>3. ASSUME NEW m \in Admins, AdminRuns(m)
      PROVE  FALSE
  <2>1. target[m] \in Accounts /\ {"erp"} \in SUBSET Kinds
    BY DEF TypeOK, Kinds
  <2>2. PICK f \in NewIds({"erp"}) : job' = Planned(target[m], {"erp"}, f)
    BY <1>3 DEF AdminRuns
  <2> QED
    BY <1>0, <2>1, <2>2, PlannedRows
<1>4. ASSUME \/ \E r \in Runners : LinkLost(r) \/ Expire(r)
             \/ \E a \in Accounts : SignupRun(a) \/ SignupFails(a) \/ ConnectERP(a) \/ DeliverSite(a)
             \/ \E m \in Admins : AdminLists(m) \/ \E a \in Accounts : AdminOpens(m, a)
             \/ \E k \in Jobs : SkipJob(k)
             \/ \E s \in stray : StrayEnds(s)
             \/ Tick \/ Restart \/ UNCHANGED vars
      PROVE  FALSE
  BY <1>4 DEF LinkLost, Expire, SignupRun, SignupFails, ConnectERP, DeliverSite, AdminLists, AdminOpens, SkipJob,
              StrayEnds, Tick, Restart, vars
<1> QED
  BY <1>1, <1>2, <1>3, <1>4 DEF Next

\* A goroutine that writes the row of a website job is done with it.
LEMMA WriterLeaves ==
  ASSUME TypeOK, OverlapInv, NEW r \in Runners, RunStep(r), NEW j \in Created, Website(j), job'[j] # job[j]
  PROVE  j \notin Touched(r)'
<1> USE DEF Goto, Running
<1>0. j \in Jobs
  BY DEF Created
<1>1. ASSUME NEW k \in Jobs, WaitForVPS(r, k)
      PROVE  j \notin Touched(r)'
  <2>1. j = k /\ pc' = pc /\ pc[r] = "pick" /\ todo'[r] = todo[r] \ {k}
    BY <1>0, <1>1 DEF WaitForVPS, Take, NextJob, SetJob, TypeOK
  <2> QED
    BY <2>1 DEF Touched
<1>2. ASSUME NEW k \in Jobs, BeginErp(r, k)
      PROVE  FALSE
  BY <1>0, <1>2 DEF BeginErp, SetJob, Website, TypeOK
<1>3. ASSUME NEW status \in Statuses, pc[r] \in Running, Finish(r, status)
      PROVE  j \notin Touched(r)'
  <2>1. j = cur[r] /\ pc'[r] = "pick" /\ todo' = todo
    BY <1>0, <1>3 DEF Finish, SetJob, TypeOK
  <2>2. j \notin todo[r]
    BY <1>3, <2>1 DEF OverlapInv, HoldsRows
  <2> QED
    BY <2>1, <2>2 DEF Touched
<1>4. ASSUME Finishes(r)
      PROVE  j \notin Touched(r)'
  BY <1>3, <1>4 DEF Finishes, FinishErp, FinishWhatsApp, FinishWebsite, FinishFailed, Statuses
<1>5. ASSUME \/ \E k \in Jobs : BeginWhatsApp(r, k) \/ BeginWebsite(r, k)
             \/ ScriptPrints(r) \/ ScriptFails(r) \/ SaveConnection(r) \/ RegisterNumber(r) \/ SaveSite(r)
             \/ FileTask(r) \/ EndRun(r)
      PROVE  FALSE
  BY <1>5 DEF BeginWhatsApp, BeginWebsite, ScriptPrints, ScriptFails, SaveConnection, RegisterNumber, SaveSite,
              FileTask, EndRun
<1> QED
  BY <1>1, <1>2, <1>4, <1>5 DEF RunStep, Finishes

\* A goroutine gets to the site's steps by taking a website job, and to
\* "filed" by filing the task.
LEMMA SiteEntered ==
  ASSUME TypeOK, OverlapInv, [Next]_vars, NEW r \in Runners, pc'[r] \in {"site", "filing", "filed"}
  PROVE  \/ pc[r] \in {"site", "filing", "filed"} /\ cur'[r] = cur[r]
         \/ \E j \in Jobs : BeginWebsite(r, j)
<1> USE DEF Goto
<1>1. ASSUME NEW q \in Runners, RunStep(q) \/ LinkLost(q) \/ Expire(q), q # r
      PROVE  pc'[r] = pc[r] /\ cur'[r] = cur[r]
  <2>1. OwnStep(q)
    BY <1>1, RunStepOwn DEF OverlapInv
  <2> QED
    BY <1>1, <2>1 DEF OwnStep
<1>2. ASSUME NEW k \in Jobs, WaitForVPS(r, k) \/ BeginErp(r, k) \/ BeginWhatsApp(r, k)
      PROVE  FALSE
  BY <1>2 DEF WaitForVPS, BeginErp, BeginWhatsApp, Take, NextJob, TypeOK
<1>3. ASSUME \/ ScriptPrints(r) \/ ScriptFails(r) \/ SaveConnection(r) \/ RegisterNumber(r)
             \/ EndRun(r) \/ LinkLost(r) \/ Finishes(r)
      PROVE  FALSE
  BY <1>3 DEF ScriptPrints, ScriptFails, SaveConnection, RegisterNumber, EndRun, LinkLost, Finishes, FinishErp,
              FinishWhatsApp, FinishWebsite, FinishFailed, Finish, TypeOK
<1>4. ASSUME SaveSite(r) \/ FileTask(r) \/ Expire(r)
      PROVE  pc[r] \in {"site", "filing", "filed"} /\ cur'[r] = cur[r]
  BY <1>4 DEF SaveSite, FileTask, Expire, TypeOK
<1>5. ASSUME NEW a \in Accounts, SignupPlan(a) \/ SignupRun(a) \/ SignupFails(a) \/ ConnectERP(a) \/ DeliverSite(a)
      PROVE  pc[r] \in {"site", "filing", "filed"} /\ cur'[r] = cur[r]
  BY <1>5 DEF SignupPlan, SignupRun, SignupFails, ConnectERP, DeliverSite, TypeOK
<1>6. ASSUME NEW m \in Admins, AdminLists(m) \/ AdminRuns(m) \/ (\E a \in Accounts : AdminOpens(m, a))
      PROVE  pc[r] \in {"site", "filing", "filed"} /\ cur'[r] = cur[r]
  BY <1>6 DEF AdminLists, AdminRuns, AdminOpens, TypeOK
<1>7. ASSUME \/ \E k \in Jobs : SkipJob(k)
             \/ \E s \in stray : StrayEnds(s)
             \/ Tick \/ Restart \/ UNCHANGED vars
      PROVE  pc[r] \in {"site", "filing", "filed"} /\ cur'[r] = cur[r]
  BY <1>7 DEF SkipJob, StrayEnds, Tick, Restart, TypeOK, vars
<1> QED
  BY <1>1, <1>2, <1>3, <1>4, <1>5, <1>6, <1>7 DEF Next, RunStep, Finishes

\* Every step keeps the site's steps to website jobs.
LEMMA SiteRunsStep ==
  ASSUME TypeOK, OverlapInv, SiteRuns, [Next]_vars
  PROVE  SiteRuns'
<1> SUFFICES ASSUME NEW r \in Runners, pc'[r] \in {"site", "filing", "filed"}
             PROVE  job'[cur'[r]].kind = "website"
  BY DEF SiteRuns, Website
<1>1. CASE pc[r] \in {"site", "filing", "filed"} /\ cur'[r] = cur[r]
  <2>1. cur[r] \in Created
    BY <1>1 DEF OverlapInv, HoldsRows, Touched, Running
  <2> QED
    BY <1>1, <2>1, RowsStay DEF SiteRuns, Website
<1>2. ASSUME NEW j \in Jobs, BeginWebsite(r, j)
      PROVE  job'[cur'[r]].kind = "website"
  BY <1>2 DEF BeginWebsite, Take, TypeOK
<1> QED
  BY <1>1, <1>2, SiteEntered

\* The rows of a plan wait for nobody yet.
LEMMA PlannedStatus ==
  ASSUME TypeOK, NEW a \in Accounts, NEW kinds \in SUBSET Kinds, NEW f \in NewIds(kinds),
         job' = Planned(a, kinds, f), NEW k \in kinds
  PROVE  f[k] \in Jobs \ Created /\ job'[f[k]].status # "en_proceso"
<1>1. f[k] \in Jobs \ Created
  BY PlannedType
<1> QED
  BY <1>1 DEF Planned, InitialStatus

\* Every step keeps a website job that is still to run out of "en_proceso".
LEMMA NotBuildingStep ==
  ASSUME TypeOK, OverlapInv, AdminsErp, AdminsErp', NotBuilding, [Next]_vars
  PROVE  NotBuilding'
<1> SUFFICES ASSUME NEW r \in Runners, NEW j \in Touched(r)', job'[j].kind = "website"
             PROVE  job'[j].status # "en_proceso"
  BY DEF NotBuilding, Website
<1>1. CASE j \in Touched(r)
  <2>1. j \in Created
    BY <1>1 DEF OverlapInv, HoldsRows
  <2>2. Website(j) /\ job[j].status # "en_proceso"
    BY <1>1, <2>1, RowsStay DEF NotBuilding, Website
  <2>3. CASE job'[j] = job[j]
    BY <2>2, <2>3
  <2>4. CASE job'[j] # job[j]
    <3>1. PICK q \in Runners : j \in Touched(q) /\ RunStep(q)
      BY <2>1, <2>4, RowWritten
    <3>2. q = r
      BY <1>1, <2>2, <3>1, OneBuilder
    <3> QED
      BY <2>1, <2>2, <2>4, <3>1, <3>2, WriterLeaves
  <2> QED
    BY <2>3, <2>4
<1>2. CASE r \in Accounts /\ SignupPlan(r)
  <2>1. PICK kinds \in SUBSET Kinds :
          \E f \in NewIds(kinds) :
            /\ job' = Planned(r, kinds, f)
            /\ todo' = [todo EXCEPT ![r] = {f[k] : k \in {x \in kinds : InitialStatus(x) \in Runnable}}]
    BY <1>2 DEF SignupPlan
  <2>2. PICK f \in NewIds(kinds) :
          /\ job' = Planned(r, kinds, f)
          /\ todo' = [todo EXCEPT ![r] = {f[k] : k \in {x \in kinds : InitialStatus(x) \in Runnable}}]
    BY <2>1
  <2>3. pc' = pc /\ pc[r] = "idle"
    BY <1>2 DEF SignupPlan, OverlapInv, SignupOwns
  <2>4. PICK k \in kinds : j = f[k]
    BY <2>2, <2>3 DEF Touched, Running, TypeOK
  <2> QED
    BY <1>2, <2>2, <2>4, PlannedStatus
<1>3. CASE r = Loop /\ Tick
  <2>1. /\ todo' = [todo EXCEPT ![Loop] = {k \in Batch : ~GaveUp(k)}]
        /\ pc' = [pc EXCEPT ![Loop] = "pick"] /\ job' = job
    BY <1>3 DEF Tick, Goto
  <2>2. j \in {k \in Batch : ~GaveUp(k)}
    BY <1>3, <2>1 DEF Touched, Running, TypeOK
  <2>3. job[j].status \in RetryStatuses
    BY <2>2 DEF Batch, Waiting
  <2> QED
    BY <2>1, <2>3 DEF RetryStatuses
<1>4. CASE r \in Admins
  BY <1>4 DEF AdminsErp
<1> QED
  BY <1>1, <1>2, <1>3, <1>4, HandsGrow

-----------------------------------------------------------------------------
(* The task of a website and its site. *)

\* Only the step that files a task of a job counts one.
LEMMA TasksFiled ==
  ASSUME TypeOK, [Next]_vars
  PROVE  \/ siteTasks' = siteTasks
         \/ \E r \in Runners : FileTask(r) /\ siteTasks' = [siteTasks EXCEPT ![cur[r]] = @ + 1]
<1>1. ASSUME NEW r \in Runners,
             \/ \E k \in Jobs : WaitForVPS(r, k) \/ BeginErp(r, k) \/ BeginWhatsApp(r, k) \/ BeginWebsite(r, k)
             \/ ScriptPrints(r) \/ ScriptFails(r) \/ SaveConnection(r) \/ RegisterNumber(r) \/ SaveSite(r)
             \/ EndRun(r) \/ LinkLost(r) \/ Expire(r) \/ Finishes(r)
      PROVE  siteTasks' = siteTasks
  BY <1>1 DEF WaitForVPS, BeginErp, BeginWhatsApp, BeginWebsite, ScriptPrints, ScriptFails, SaveConnection,
              RegisterNumber, SaveSite, EndRun, LinkLost, Expire, Finishes, FinishErp, FinishWhatsApp,
              FinishWebsite, FinishFailed, Finish, external
<1>2. ASSUME \/ \E a \in Accounts : SignupPlan(a) \/ SignupRun(a) \/ SignupFails(a) \/ ConnectERP(a) \/ DeliverSite(a)
             \/ \E m \in Admins : AdminLists(m) \/ AdminRuns(m) \/ (\E a \in Accounts : AdminOpens(m, a))
             \/ \E k \in Jobs : SkipJob(k)
             \/ \E s \in stray : StrayEnds(s)
             \/ Tick \/ Restart \/ UNCHANGED vars
      PROVE  siteTasks' = siteTasks
  BY <1>2 DEF SignupPlan, SignupRun, SignupFails, ConnectERP, DeliverSite, AdminLists, AdminRuns, AdminOpens,
              SkipJob, StrayEnds, Tick, Restart, external, vars
<1>3. ASSUME NEW r \in Runners, FileTask(r)
      PROVE  siteTasks' = siteTasks \/ siteTasks' = [siteTasks EXCEPT ![cur[r]] = @ + 1]
  BY <1>3 DEF FileTask
<1> QED
  BY <1>1, <1>2, <1>3 DEF Next, RunStep, Finishes

\* A run that has filed its task records that, or the job counts as lost.
LEMMA FiledGoesOn ==
  ASSUME TypeOK, OverlapInv, [Next]_vars, NEW r \in Runners, pc[r] = "filed", cur[r] \notin lost'
  PROVE  \/ pc'[r] = "filed" /\ cur'[r] = cur[r]
         \/ job'[cur[r]].status = "en_proceso"
<1> USE DEF Goto
<1>0. cur[r] \in Jobs
  BY DEF TypeOK, Running
<1>1. ASSUME NEW q \in Runners, RunStep(q) \/ LinkLost(q) \/ Expire(q), q # r
      PROVE  pc'[r] = pc[r] /\ cur'[r] = cur[r]
  <2>1. OwnStep(q)
    BY <1>1, RunStepOwn DEF OverlapInv
  <2> QED
    BY <1>1, <2>1 DEF OwnStep
<1>2. ASSUME FinishWebsite(r)
      PROVE  job'[cur[r]].status = "en_proceso"
  BY <1>0, <1>2 DEF FinishWebsite, Finish, SetJob, TypeOK
<1>3. ASSUME \/ \E k \in Jobs : WaitForVPS(r, k) \/ BeginErp(r, k) \/ BeginWhatsApp(r, k) \/ BeginWebsite(r, k)
             \/ ScriptPrints(r) \/ ScriptFails(r) \/ SaveConnection(r) \/ RegisterNumber(r) \/ SaveSite(r)
             \/ FileTask(r) \/ EndRun(r) \/ LinkLost(r) \/ FinishErp(r) \/ FinishWhatsApp(r) \/ FinishFailed(r)
      PROVE  FALSE
  BY <1>3 DEF WaitForVPS, BeginErp, BeginWhatsApp, BeginWebsite, Take, NextJob, ScriptPrints, ScriptFails,
              SaveConnection, RegisterNumber, SaveSite, FileTask, EndRun, LinkLost, FinishErp, FinishWhatsApp,
              FinishFailed
<1>4. ASSUME Expire(r)
      PROVE  pc'[r] = "filed" /\ cur'[r] = cur[r]
  BY <1>4 DEF Expire
<1>5. ASSUME NEW a \in Accounts, SignupPlan(a) \/ SignupRun(a) \/ SignupFails(a) \/ ConnectERP(a) \/ DeliverSite(a)
      PROVE  pc'[r] = "filed" /\ cur'[r] = cur[r]
  BY <1>5 DEF SignupPlan, SignupRun, SignupFails, ConnectERP, DeliverSite, TypeOK, OverlapInv, SignupOwns
<1>6. ASSUME NEW m \in Admins, AdminLists(m) \/ AdminRuns(m) \/ (\E a \in Accounts : AdminOpens(m, a))
      PROVE  pc'[r] = "filed" /\ cur'[r] = cur[r]
  BY <1>6 DEF AdminLists, AdminRuns, AdminOpens, TypeOK
<1>7. ASSUME \/ \E k \in Jobs : SkipJob(k)
             \/ \E s \in stray : StrayEnds(s)
             \/ Tick \/ UNCHANGED vars
      PROVE  pc'[r] = "filed" /\ cur'[r] = cur[r]
  BY <1>7 DEF SkipJob, StrayEnds, Tick, TypeOK, vars
<1>8. ASSUME Restart
      PROVE  FALSE
  <2>1. cur[r] \in Owed(r)
    BY DEF Owed, Running
  <2> QED
    BY <1>8, <2>1 DEF Restart
<1> QED
  BY <1>1, <1>2, <1>3, <1>4, <1>5, <1>6, <1>7, <1>8 DEF Next, RunStep

\* What was lost stays lost.
LEMMA LostGrows ==
  ASSUME [Next]_vars
  PROVE  lost \subseteq lost'
<1>1. ASSUME NEW r \in Runners,
             \/ \E k \in Jobs : WaitForVPS(r, k) \/ BeginErp(r, k) \/ BeginWhatsApp(r, k) \/ BeginWebsite(r, k)
             \/ ScriptPrints(r) \/ ScriptFails(r) \/ SaveConnection(r) \/ RegisterNumber(r) \/ SaveSite(r)
             \/ FileTask(r) \/ EndRun(r) \/ LinkLost(r) \/ Expire(r) \/ Finishes(r)
      PROVE  lost \subseteq lost'
  BY <1>1 DEF WaitForVPS, BeginErp, BeginWhatsApp, BeginWebsite, ScriptPrints, ScriptFails, SaveConnection,
              RegisterNumber, SaveSite, FileTask, EndRun, LinkLost, Expire, Finishes, FinishErp, FinishWhatsApp,
              FinishWebsite, FinishFailed, Finish, history
<1>2. ASSUME \/ \E a \in Accounts : SignupPlan(a) \/ SignupRun(a) \/ SignupFails(a) \/ ConnectERP(a) \/ DeliverSite(a)
             \/ \E m \in Admins : AdminLists(m) \/ AdminRuns(m) \/ (\E a \in Accounts : AdminOpens(m, a))
             \/ \E k \in Jobs : SkipJob(k)
             \/ \E s \in stray : StrayEnds(s)
             \/ Tick \/ Restart \/ UNCHANGED vars
      PROVE  lost \subseteq lost'
  BY <1>2 DEF SignupPlan, SignupRun, SignupFails, ConnectERP, DeliverSite, AdminLists, AdminRuns, AdminOpens,
              SkipJob, StrayEnds, Tick, Restart, history, vars
<1> QED
  BY <1>1, <1>2 DEF Next, RunStep, Finishes

\* Every step keeps tasks to website jobs.
LEMMA FiledForSitesStep ==
  ASSUME TypeOK, OverlapInv, SiteRuns, FiledForSites, [Next]_vars
  PROVE  FiledForSites'
<1> SUFFICES ASSUME NEW j \in Jobs, siteTasks'[j] > 0
             PROVE  j \in Created' /\ job'[j].kind = "website"
  BY DEF FiledForSites, Website
<1>1. CASE siteTasks'[j] = siteTasks[j]
  BY <1>1, RowsStay DEF FiledForSites, Website
<1>2. ASSUME NEW r \in Runners, FileTask(r), cur[r] = j
      PROVE  j \in Created' /\ job'[j].kind = "website"
  <2>1. j \in Created /\ Website(j)
    BY <1>2 DEF FileTask, OverlapInv, HoldsRows, Touched, Running, SiteRuns
  <2> QED
    BY <2>1, RowsStay DEF Website
<1> QED
  BY <1>1, <1>2, TasksFiled DEF TypeOK

\* Every step files at most one task for a website whose outcome was not lost.
LEMMA FiledOnceStep ==
  ASSUME TypeOK, OverlapInv, SiteInv, [Next]_vars
  PROVE  FiledOnce'
<1> USE DEF SiteInv
<1> SUFFICES ASSUME NEW j \in Jobs, j \notin lost', siteTasks'[j] > 0
             PROVE  /\ siteTasks'[j] = 1
                    /\ job'[j].status = "en_proceso" \/ \E r \in Runners : pc'[r] = "filed" /\ cur'[r] = j
  BY DEF FiledOnce
<1>0. j \notin lost
  BY LostGrows
<1>1. CASE siteTasks'[j] = siteTasks[j]
  <2>1. /\ siteTasks'[j] = 1 /\ j \in Created /\ Website(j)
        /\ job[j].status = "en_proceso" \/ \E r \in Runners : pc[r] = "filed" /\ cur[r] = j
    BY <1>0, <1>1 DEF FiledOnce, FiledForSites
  <2>2. CASE job[j].status = "en_proceso"
    <3>1. ASSUME job'[j] # job[j]
          PROVE  FALSE
      BY <2>1, <2>2, <3>1, RowWritten DEF NotBuilding
    <3> QED
      BY <2>1, <2>2, <3>1
  <2>3. ASSUME NEW r \in Runners, pc[r] = "filed", cur[r] = j
        PROVE  job'[j].status = "en_proceso" \/ \E q \in Runners : pc'[q] = "filed" /\ cur'[q] = j
    BY <2>3, FiledGoesOn
  <2> QED
    BY <2>1, <2>2, <2>3
<1>2. ASSUME NEW r \in Runners, FileTask(r), cur[r] = j, siteTasks' = [siteTasks EXCEPT ![cur[r]] = @ + 1],
             siteTasks'[j] # siteTasks[j]
      PROVE  /\ siteTasks'[j] = 1
             /\ job'[j].status = "en_proceso" \/ \E q \in Runners : pc'[q] = "filed" /\ cur'[q] = j
  <2>1. pc[r] = "filing" /\ j \in Touched(r) /\ Website(j)
    BY <1>2 DEF FileTask, OverlapInv, HoldsRows, Touched, Running, SiteRuns
  <2>2. job[j].status # "en_proceso"
    BY <2>1 DEF NotBuilding
  <2>3. ASSUME NEW q \in Runners, pc[q] = "filed", cur[q] = j
        PROVE  FALSE
    <3>1. q # r /\ j \in Touched(q)
      BY <2>1, <2>3 DEF OverlapInv, HoldsRows, Touched, Running
    <3> QED
      BY <2>1, <3>1, OneBuilder
  <2>4. siteTasks[j] = 0
    BY <1>0, <2>2, <2>3 DEF FiledOnce, TypeOK
  <2>5. siteTasks'[j] = 1
    BY <1>2, <2>4 DEF TypeOK
  <2>6. pc'[r] = "filed" /\ cur'[r] = j
    BY <1>2 DEF FileTask, Goto, TypeOK
  <2> QED
    BY <2>5, <2>6
<1> QED
  BY <1>1, <1>2, TasksFiled DEF TypeOK

\* Only a signup's plan and an admin's request insert rows.
LEMMA NewRows ==
  ASSUME TypeOK, OverlapInv, [Next]_vars, NEW j \in Created' \ Created
  PROVE  (\E a \in Accounts : SignupPlan(a)) \/ (\E m \in Admins : AdminRuns(m))
<1>1. ASSUME NEW r \in Runners, RunStep(r) \/ LinkLost(r) \/ Expire(r)
      PROVE  FALSE
  <2>1. OwnStep(r) /\ Touched(r) \subseteq Created
    BY <1>1, RunStepOwn DEF OverlapInv, HoldsRows
  <2> QED
    BY <2>1 DEF OwnStep, Created
<1>2. ASSUME \/ \E a \in Accounts : SignupRun(a) \/ SignupFails(a) \/ ConnectERP(a) \/ DeliverSite(a)
             \/ \E m \in Admins : AdminLists(m) \/ \E a \in Accounts : AdminOpens(m, a)
             \/ \E k \in Jobs : SkipJob(k)
             \/ \E s \in stray : StrayEnds(s)
             \/ Tick \/ Restart \/ UNCHANGED vars
      PROVE  FALSE
  <2>1. job' = job
    BY <1>2 DEF SignupRun, SignupFails, ConnectERP, DeliverSite, AdminLists, AdminOpens, SkipJob, StrayEnds,
                Tick, Restart, vars
  <2> QED
    BY <2>1 DEF Created
<1> QED
  BY <1>1, <1>2 DEF Next

\* A signup plans once, and nobody else plans a website.
LEMMA OneSiteStep ==
  ASSUME TypeOK, TypeOK', OverlapInv, OneSite, [Next]_vars
  PROVE  OneSite'
<1>1. ASSUME NEW a \in Accounts, stage'[a] = "created"
      PROVE  stage[a] = "created"
  <2>1. ASSUME NEW b \in Accounts, SignupPlan(b) \/ SignupRun(b) \/ SignupFails(b) \/ ConnectERP(b) \/ DeliverSite(b)
        PROVE  stage[a] = "created"
    BY <1>1, <2>1 DEF SignupPlan, SignupRun, SignupFails, ConnectERP, DeliverSite, TypeOK
  <2>2. ASSUME NEW r \in Runners, RunStep(r) \/ LinkLost(r) \/ Expire(r)
        PROVE  stage' = stage
    BY <2>2 DEF RunStep, WaitForVPS, BeginErp, BeginWhatsApp, BeginWebsite, ScriptPrints, ScriptFails,
                SaveConnection, RegisterNumber, SaveSite, FileTask, EndRun, LinkLost, Expire, FinishErp,
                FinishWhatsApp, FinishWebsite, FinishFailed, Finish
  <2>3. ASSUME \/ \E m \in Admins : AdminLists(m) \/ AdminRuns(m) \/ (\E b \in Accounts : AdminOpens(m, b))
               \/ \E k \in Jobs : SkipJob(k)
               \/ \E s \in stray : StrayEnds(s)
               \/ Tick \/ Restart \/ UNCHANGED vars
        PROVE  stage[a] = "created"
    BY <1>1, <2>3 DEF AdminLists, AdminRuns, AdminOpens, SkipJob, StrayEnds, Tick, Restart, vars
  <2> QED
    BY <1>1, <2>1, <2>2, <2>3 DEF Next
<1> DEFINE OldSite(j) == j \in Created /\ Website(j)
<1>2. ASSUME NEW j \in Created', job'[j].kind = "website"
      PROVE  \/ OldSite(j) /\ job'[j].account = job[j].account
             \/ j \notin Created /\ stage[job'[j].account] = "created" /\ stage'[job'[j].account] # "created"
                /\ \A i \in Created' \ Created : job'[i].kind = "website" => i = j
  <2>0. j \in Jobs
    BY DEF Created
  <2>1. CASE j \in Created
    BY <1>2, <2>1, RowsStay DEF Website
  <2>2. ASSUME NEW a \in Accounts, SignupPlan(a), j \notin Created
        PROVE  /\ stage[job'[j].account] = "created" /\ stage'[job'[j].account] # "created"
               /\ \A i \in Created' \ Created : job'[i].kind = "website" => i = j
    <3>1. PICK kinds \in SUBSET Kinds : \E f \in NewIds(kinds) : job' = Planned(a, kinds, f)
      BY <2>2 DEF SignupPlan
    <3>2. PICK f \in NewIds(kinds) : job' = Planned(a, kinds, f)
      BY <3>1
    <3>3. ASSUME NEW i \in Created' \ Created
          PROVE  \E k \in kinds : f[k] = i
      BY <3>2, <3>3 DEF Created, Planned
    <3>4. ASSUME NEW i \in Created' \ Created, job'[i].kind = "website"
          PROVE  f["website"] = i /\ job'[i].account = a
      <4>1. \E k \in kinds : f[k] = i
        BY <3>3
      <4>2. i \in Jobs
        BY DEF Created
      <4> DEFINE w == CHOOSE x \in kinds : f[x] = i
      <4>3. f[w] = i
        BY <4>1
      <4>4. job'[i] = [account |-> a, kind |-> w, status |-> InitialStatus(w), attempts |-> 0]
        BY <3>2, <4>1, <4>2 DEF Planned
      <4> HIDE DEF w
      <4>5. w = "website" /\ job'[i].account = a
        BY <3>4, <4>4
      <4> QED
        BY <4>3, <4>5
    <3>5. stage[a] = "created" /\ stage'[a] = "planned"
      BY <2>2 DEF SignupPlan, TypeOK
    <3> QED
      BY <1>2, <2>2, <3>4, <3>5
  <2>3. ASSUME NEW m \in Admins, AdminRuns(m), j \notin Created
        PROVE  FALSE
    <3>1. target[m] \in Accounts
      BY DEF TypeOK
    <3>2. CASE job' = job
      BY <2>3, <3>2 DEF Created
    <3>3. ASSUME NEW f \in NewIds({"erp"}), job' = Planned(target[m], {"erp"}, f)
          PROVE  FALSE
      <4>1. j = f["erp"]
        BY <2>0, <2>3, <3>3 DEF Planned, Created
      <4> QED
        BY <1>2, <3>1, <3>3, <4>1, AdminPlans
    <3> QED
      BY <2>3, <3>2, <3>3 DEF AdminRuns
  <2> QED
    BY <2>1, <2>2, <2>3, NewRows
<1>3. ASSUME NEW i \in Created', NEW j \in Created', job'[i].kind = "website", job'[j].kind = "website",
             job'[i].account = job'[j].account
      PROVE  i = j
  <2>1. job'[j].account \in Accounts
    BY DEF Created, TypeOK, JobRow
  <2>2. CASE OldSite(i) /\ OldSite(j)
    BY <1>2, <1>3, <2>2 DEF OneSite
  <2>3. CASE i \notin Created /\ j \notin Created
    BY <1>2, <1>3, <2>3
  <2>4. CASE OldSite(i) /\ j \notin Created
    BY <1>2, <1>3, <2>1, <2>4 DEF OneSite
  <2>5. CASE OldSite(j) /\ i \notin Created
    BY <1>2, <1>3, <2>1, <2>5 DEF OneSite
  <2> QED
    BY <1>2, <1>3, <2>2, <2>3, <2>4, <2>5
<1>4. ASSUME NEW a \in Accounts, stage'[a] = "created", NEW j \in Created', job'[j].account = a,
             job'[j].kind = "website"
      PROVE  FALSE
  BY <1>1, <1>2, <1>4 DEF OneSite
<1> QED
  BY <1>3, <1>4 DEF OneSite, Website

\* A site goes live only by the delivery of a filed task, and only a run of
\* the website job takes it down.
LEMMA SiteChanges ==
  ASSUME TypeOK, [Next]_vars, NEW a \in Accounts
  PROVE  \/ site'[a] = site[a]
         \/ DeliverSite(a)
         \/ site'[a] = "construyendo" /\ \E r \in Runners : SaveSite(r) /\ AccountOf(r) = a
<1>1. ASSUME NEW r \in Runners,
             \/ \E k \in Jobs : WaitForVPS(r, k) \/ BeginErp(r, k) \/ BeginWhatsApp(r, k) \/ BeginWebsite(r, k)
             \/ ScriptPrints(r) \/ ScriptFails(r) \/ SaveConnection(r) \/ RegisterNumber(r)
             \/ FileTask(r) \/ EndRun(r) \/ LinkLost(r) \/ Expire(r) \/ Finishes(r)
      PROVE  site' = site
  BY <1>1 DEF WaitForVPS, BeginErp, BeginWhatsApp, BeginWebsite, ScriptPrints, ScriptFails, SaveConnection,
              RegisterNumber, FileTask, EndRun, LinkLost, Expire, Finishes, FinishErp, FinishWhatsApp,
              FinishWebsite, FinishFailed, Finish, external
<1>2. ASSUME \/ \E b \in Accounts : SignupPlan(b) \/ SignupRun(b) \/ SignupFails(b) \/ ConnectERP(b)
             \/ \E m \in Admins : AdminLists(m) \/ AdminRuns(m) \/ (\E b \in Accounts : AdminOpens(m, b))
             \/ \E k \in Jobs : SkipJob(k)
             \/ \E s \in stray : StrayEnds(s)
             \/ Tick \/ Restart \/ UNCHANGED vars
      PROVE  site' = site
  BY <1>2 DEF SignupPlan, SignupRun, SignupFails, ConnectERP, AdminLists, AdminRuns, AdminOpens,
              SkipJob, StrayEnds, Tick, Restart, external, vars
<1>3. ASSUME NEW r \in Runners, SaveSite(r)
      PROVE  site'[a] = site[a] \/ (site'[a] = "construyendo" /\ AccountOf(r) = a)
  BY <1>3 DEF SaveSite, TypeOK
<1>4. ASSUME NEW b \in Accounts, DeliverSite(b), b # a
      PROVE  site'[a] = site[a]
  BY <1>4 DEF DeliverSite, TypeOK
<1> QED
  BY <1>1, <1>2, <1>3, <1>4 DEF Next, RunStep, Finishes

\* Every step keeps a task behind a public site.
LEMMA PublicFiledStep ==
  ASSUME TypeOK, PublicFiled, [Next]_vars
  PROVE  PublicFiled'
<1> SUFFICES ASSUME NEW a \in Accounts, site'[a] = "publicado"
             PROVE  \E j \in Created' : job'[j].account = a /\ siteTasks'[j] > 0
  BY DEF PublicFiled
<1>1. \E j \in Created : job[j].account = a /\ siteTasks[j] > 0
  BY SiteChanges DEF PublicFiled, DeliverSite
<1>2. PICK j \in Created : job[j].account = a /\ siteTasks[j] > 0
  BY <1>1
<1>3. j \in Created' /\ job'[j].account = a
  BY <1>2, RowsStay
<1>4. siteTasks'[j] > 0
  BY <1>2, TasksFiled DEF TypeOK, Created
<1> QED
  BY <1>3, <1>4

\* The invariant of the websites holds at first and every step keeps it.
LEMMA SiteInductive ==
  /\ Init => SiteInv
  /\ TypeOK /\ TypeOK' /\ OverlapInv /\ SiteInv /\ [Next]_vars => SiteInv'
<1>1. Init => SiteInv
  <2> SUFFICES ASSUME Init PROVE SiteInv
    OBVIOUS
  <2>1. Created = {} /\ \A r \in Runners : Touched(r) = {}
    BY DEF Init, Created, NoJob, Touched, Running
  <2> QED
    BY <2>1 DEF Init, SiteInv, AdminsErp, SiteRuns, NotBuilding, FiledForSites, FiledOnce, OneSite,
                PublicFiled, Runners
<1>2. ASSUME TypeOK, TypeOK', OverlapInv, SiteInv, [Next]_vars
      PROVE  SiteInv'
  BY <1>2, AdminsErpStep, SiteRunsStep, NotBuildingStep, FiledForSitesStep, FiledOnceStep, OneSiteStep,
     PublicFiledStep DEF SiteInv
<1> QED
  BY <1>1, <1>2

\* The Creators get one task for a website, however often its job is retried,
\* unless the run that filed it could not record that.
THEOREM OneTaskPerSite == Spec => []SiteTaskOnce
<1>1. TypeOK /\ SiteInv => SiteTaskOnce
  BY DEF TypeOK, SiteInv, FiledOnce, SiteTaskOnce
<1> QED
  BY <1>1, TypeInit, TypeStep, OverlapInit, OverlapStep, SiteInductive, PTL DEF Spec

\* No retry takes a delivered site back to "en construccion", unless the
\* outcome of that website job was lost.
THEOREM PublicSiteStays == Spec => PublishedStays
<1> DEFINE Stays ==
      \A a \in Accounts :
        site[a] = "publicado" /\ site'[a] # "publicado"
          => \E j \in lost : job[j].account = a /\ job[j].kind = "website"
<1>1. ASSUME TypeOK, OverlapInv, SiteInv, [Next]_vars
      PROVE  Stays
  <2> USE <1>1 DEF SiteInv
  <2> SUFFICES ASSUME NEW a \in Accounts, site[a] = "publicado", site'[a] # "publicado"
               PROVE  \E j \in lost : job[j].account = a /\ job[j].kind = "website"
    OBVIOUS
  <2>1. ~DeliverSite(a)
    BY DEF DeliverSite, TypeOK
  <2>2. PICK r \in Runners : SaveSite(r) /\ AccountOf(r) = a
    BY <2>1, SiteChanges
  <2>3. PICK j \in Created : job[j].account = a /\ siteTasks[j] > 0
    BY DEF PublicFiled
  <2>4. Website(j) /\ j \in Jobs
    BY <2>3 DEF FiledForSites, Created
  <2>5. pc[r] = "site" /\ cur[r] \in Touched(r) /\ cur[r] \in Created /\ Website(cur[r])
    BY <2>2 DEF SaveSite, OverlapInv, HoldsRows, Touched, Running, SiteRuns
  <2>6. cur[r] = j
    BY <2>2, <2>3, <2>4, <2>5 DEF OneSite, AccountOf
  <2>7. ASSUME j \notin lost
        PROVE  FALSE
    <3>1. job[j].status # "en_proceso"
      BY <2>5, <2>6 DEF NotBuilding
    <3>2. PICK q \in Runners : pc[q] = "filed" /\ cur[q] = j
      BY <2>3, <2>4, <2>7, <3>1 DEF FiledOnce
    <3>3. q # r /\ j \in Touched(q)
      BY <2>5, <3>2 DEF OverlapInv, HoldsRows, Touched, Running
    <3> QED
      BY <2>5, <2>6, <3>3, OneBuilder
  <2> QED
    BY <2>3, <2>4, <2>7 DEF Website
<1>2. TypeOK /\ OverlapInv /\ SiteInv /\ [Next]_vars => [Stays]_vars
  BY <1>1
<1> QED
  BY <1>2, TypeInit, TypeStep, OverlapInit, OverlapStep, SiteInductive, PTL DEF Spec, PublishedStays
=============================================================================
