------------------------ MODULE SuggestionWorkProofs ------------------------
(***************************************************************************)
(* Proofs about SuggestionWork, for every set of requests, staff and       *)
(* suggestions and every number of faults: type correctness; an accepted   *)
(* suggestion always has somebody or something working on it, a rejected   *)
(* one has nobody, and no suggestion becomes work twice.                   *)
(***************************************************************************)
EXTENDS SuggestionWork, FiniteSetTheorems, TLAPS

\* Somebody or something works on s, or is about to write that it does not.
Working(s) ==
  \/ \E c \in Requests : of[c] = s /\ task[c] \in {"abierta", "aceptada"}
  \/ \E c \in Requests : of[c] = s /\ pc[c] \in {"written", "rollback"}
  \/ \E c \in Requests : of[c] = s /\ inst[c] = "running"
  \/ \E w \in Staff : spc[w] = "delivered" /\ of[on[w]] = s

\* Requests on one suggestion that have not overlapped are never two at once.
Alone ==
  \A c, d \in Requests :
    pc[c] \in InFlight /\ pc[d] \in InFlight /\ of[c] = of[d] /\ c # d => of[c] \in overlap

\* A request that has not finished has made neither task nor installation, and
\* one that is accepting saw the suggestion pending.
Fresh ==
  \A c \in Requests :
    /\ pc[c] # "done" => task[c] = "none" /\ inst[c] = "none"
    /\ pc[c] = "read" /\ want[c] = "aceptada_en_proceso" => seen[c] = "sugerida"
    /\ pc[c] \in {"written", "rollback"} => seen[c] = "sugerida"

\* Staff work on tasks that exist, towards a status of their three actions.
OnTasks ==
  \A w \in Staff :
    /\ spc[w] # "idle" => task[on[w]] # "none"
    /\ spc[w] = "read" => new[w].status \in {"abierta", "aceptada", "entregada"}

\* While a rejection cancels the tasks, nobody accepts.
ClosingRejects ==
  \A c \in Requests :
    pc[c] = "closing" /\ of[c] \notin overlap => sug[of[c]] # "aceptada_en_proceso"

AcceptedWorks ==
  \A s \in Suggestions \ (lost \cup Raced) : sug[s] = "aceptada_en_proceso" => Working(s)

WorkInv == Alone /\ Fresh /\ OnTasks /\ ClosingRejects /\ AcceptedWorks

-----------------------------------------------------------------------------
(* Type correctness. *)

\* The initial states have the right types.
LEMMA TypeInit == Init => TypeOK
<1> SUFFICES ASSUME Init PROVE TypeOK
  OBVIOUS
<1>1. AnySuggestion \in Suggestions /\ AnyRequest \in Requests
  BY StaffAssumption DEF AnySuggestion, AnyRequest
<1> QED
  BY <1>1 DEF Init, TypeOK, Statuses, TaskStatuses, TaskRow, InFlight

\* Every step keeps the types.
LEMMA TypeStep == TypeOK /\ [Next]_vars => TypeOK'
<1> SUFFICES ASSUME TypeOK, [Next]_vars PROVE TypeOK'
  OBVIOUS
<1> USE DEF TypeOK, history, ownerVars, taskVars, staffVars, At, SetSuggestion, Fault, Reaches, Misses,
            InFlight, Statuses, TaskStatuses
<1>1. ASSUME NEW c \in Requests, NEW s \in Suggestions, NEW status \in Statuses, Open(c, s, status)
      PROVE  TypeOK'
  BY <1>1 DEF Open
<1>2. ASSUME NEW c \in Requests, WriteStatus(c)
      PROVE  TypeOK'
  BY <1>2 DEF WriteStatus
<1>3. ASSUME NEW c \in Requests, StartInstall(c) \/ Rollback(c) \/ InstallEnds(c) \/ Disconnect(c)
      PROVE  TypeOK'
  BY <1>3 DEF StartInstall, Rollback, InstallEnds, Disconnect
<1>4. ASSUME NEW c \in Requests, FileTask(c)
      PROVE  TypeOK'
  BY <1>4 DEF FileTask
<1>5. ASSUME NEW c \in Requests, CloseTasks(c)
      PROVE  TypeOK'
  BY <1>5 DEF CloseTasks
<1>6. ASSUME NEW w \in Staff, NEW c \in Requests, Aceptar(w, c) \/ Entregar(w, c) \/ Liberar(w, c)
      PROVE  TypeOK'
  <2>1. PICK status \in TaskStatuses, who \in Staff \cup {Nobody} : Begin(w, c, status, who)
    BY <1>6 DEF Aceptar, Entregar, Liberar
  <2>2. [status |-> status, holder |-> who] \in TaskRow
    BY DEF TaskRow
  <2> QED
    BY <2>1, <2>2 DEF Begin
<1>7. ASSUME NEW w \in Staff, WriteTask(w)
      PROVE  TypeOK'
  <2>1. on[w] \in Requests /\ new[w].status \in TaskStatuses /\ new[w].holder \in Staff \cup {Nobody}
    BY DEF TaskRow
  <2> QED
    BY <1>7, <2>1 DEF WriteTask
<1>8. ASSUME NEW w \in Staff, FinishDelivered(w)
      PROVE  TypeOK'
  BY <1>8 DEF FinishDelivered
<1>9. ASSUME Restart
      PROVE  TypeOK'
  BY <1>9 DEF Restart
<1>10. CASE UNCHANGED vars
  BY <1>10 DEF vars
<1> QED
  BY <1>1, <1>2, <1>3, <1>4, <1>5, <1>6, <1>7, <1>8, <1>9, <1>10 DEF Next, RequestStep, StaffStep

\* Every reachable state is type-correct.
THEOREM TypeCorrect == Spec => []TypeOK
<1> QED
  BY TypeInit, TypeStep, PTL DEF Spec

-----------------------------------------------------------------------------
(* An accepted suggestion has work: one lemma per part of the invariant. *)

\* Requests that do not overlap stay alone on their suggestion.
LEMMA AloneStep == TypeOK /\ Alone /\ [Next]_vars => Alone'
<1> SUFFICES ASSUME TypeOK, Alone, [Next]_vars PROVE Alone'
  OBVIOUS
<1>1. ASSUME NEW c \in Requests, NEW s \in Suggestions, NEW status \in Statuses, Open(c, s, status)
      PROVE  Alone'
  <2>1. /\ pc' = [pc EXCEPT ![c] = "read"] /\ of' = [of EXCEPT ![c] = s]
        /\ overlap' = IF Busy(s) = {} THEN overlap ELSE overlap \cup {s}
        /\ pc[c] = "idle"
    BY <1>1 DEF Open, At
  <2> SUFFICES ASSUME NEW x \in Requests, NEW y \in Requests, x # y,
                      pc'[x] \in InFlight, pc'[y] \in InFlight, of'[x] = of'[y]
               PROVE  of'[x] \in overlap'
    BY DEF Alone, InFlight
  <2>2. CASE x = c
    <3>1. of'[x] = s /\ y \in Busy(s)
      BY <2>1, <2>2 DEF Busy, TypeOK
    <3> QED
      BY <2>1, <3>1
  <2>3. CASE y = c
    <3>1. of'[x] = s /\ x \in Busy(s)
      BY <2>1, <2>3 DEF Busy, TypeOK
    <3> QED
      BY <2>1, <3>1
  <2>4. CASE x # c /\ y # c
    BY <2>1, <2>4 DEF Alone, TypeOK
  <2> QED
    BY <2>2, <2>3, <2>4
<1>2. ASSUME NEW c \in Requests, RequestStep(c)
      PROVE  Alone'
  <2>1. /\ of' = of /\ overlap' = overlap /\ pc[c] \in InFlight
        /\ \A d \in Requests \ {c} : pc'[d] = pc[d]
    BY <1>2 DEF RequestStep, WriteStatus, StartInstall, FileTask, Rollback, CloseTasks, At, InFlight,
                history, TypeOK
  <2> QED
    BY <2>1 DEF Alone
<1>3. ASSUME \/ \E c \in Requests : InstallEnds(c) \/ Disconnect(c)
             \/ \E w \in Staff, c \in Requests : Aceptar(w, c) \/ Entregar(w, c) \/ Liberar(w, c)
             \/ \E w \in Staff : StaffStep(w)
             \/ UNCHANGED vars
      PROVE  Alone'
  <2>1. pc' = pc /\ of' = of /\ overlap' = overlap
    BY <1>3 DEF InstallEnds, Disconnect, Aceptar, Entregar, Liberar, Begin, StaffStep, WriteTask,
                FinishDelivered, ownerVars, history, vars
  <2> QED
    BY <2>1 DEF Alone
<1>4. ASSUME Restart
      PROVE  Alone'
  <2>1. \A c \in Requests : pc'[c] \in {"idle", "done"}
    BY <1>4 DEF Restart
  <2> QED
    BY <2>1 DEF Alone, InFlight
<1> QED
  BY <1>1, <1>2, <1>3, <1>4 DEF Next

\* A request makes a task or an installation only in its last step.
LEMMA FreshStep == TypeOK /\ Fresh /\ OnTasks /\ [Next]_vars => Fresh'
<1> SUFFICES ASSUME TypeOK, Fresh, OnTasks, [Next]_vars PROVE Fresh'
  OBVIOUS
<1>1. ASSUME NEW c \in Requests, NEW s \in Suggestions, NEW status \in Statuses, Open(c, s, status)
      PROVE  Fresh'
  BY <1>1 DEF Open, Allowed, At, Fresh, TypeOK, taskVars
<1>2. ASSUME NEW c \in Requests, WriteStatus(c)
      PROVE  Fresh'
  BY <1>2 DEF WriteStatus, At, Fresh, TypeOK, taskVars
<1>3. ASSUME NEW c \in Requests, StartInstall(c) \/ FileTask(c) \/ Rollback(c)
      PROVE  Fresh'
  BY <1>3 DEF StartInstall, FileTask, Rollback, At, Fresh, TypeOK, taskVars
<1>4. ASSUME NEW c \in Requests, CloseTasks(c)
      PROVE  Fresh'
  BY <1>4 DEF CloseTasks, At, Fresh, TypeOK, Live
<1>5. ASSUME NEW c \in Requests, InstallEnds(c)
      PROVE  Fresh'
  BY <1>5 DEF InstallEnds, Fresh, TypeOK, ownerVars, taskVars
<1>6. ASSUME NEW w \in Staff, WriteTask(w)
      PROVE  Fresh'
  BY <1>6 DEF WriteTask, Fresh, OnTasks, TypeOK, ownerVars, taskVars
<1>7. ASSUME \/ \E c \in Requests : Disconnect(c)
             \/ \E w \in Staff, c \in Requests : Aceptar(w, c) \/ Entregar(w, c) \/ Liberar(w, c)
             \/ \E w \in Staff : FinishDelivered(w)
             \/ UNCHANGED vars
      PROVE  Fresh'
  <2>1. UNCHANGED <<pc, want, seen, task, inst>>
    BY <1>7 DEF Disconnect, Aceptar, Entregar, Liberar, Begin, FinishDelivered, ownerVars, taskVars, vars
  <2> QED
    BY <2>1 DEF Fresh
<1>8. ASSUME Restart
      PROVE  Fresh'
  BY <1>8 DEF Restart, Fresh, TypeOK, taskVars
<1> QED
  BY <1>1, <1>2, <1>3, <1>4, <1>5, <1>6, <1>7, <1>8 DEF Next, RequestStep, StaffStep

\* Staff only ever have tasks in hand that exist.
LEMMA OnTasksStep == TypeOK /\ Fresh /\ OnTasks /\ [Next]_vars => OnTasks'
<1> SUFFICES ASSUME TypeOK, Fresh, OnTasks, [Next]_vars PROVE OnTasks'
  OBVIOUS
<1>1. ASSUME NEW w \in Staff, NEW c \in Requests, Aceptar(w, c) \/ Entregar(w, c) \/ Liberar(w, c)
      PROVE  OnTasks'
  BY <1>1 DEF Aceptar, Entregar, Liberar, Begin, OnTasks, TypeOK, taskVars, TaskRow
<1>2. ASSUME NEW w \in Staff, WriteTask(w)
      PROVE  OnTasks'
  BY <1>2 DEF WriteTask, OnTasks, TypeOK, taskVars
<1>3. ASSUME NEW w \in Staff, FinishDelivered(w)
      PROVE  OnTasks'
  BY <1>3 DEF FinishDelivered, OnTasks, TypeOK, taskVars
<1>4. ASSUME NEW c \in Requests, FileTask(c) \/ CloseTasks(c)
      PROVE  OnTasks'
  BY <1>4 DEF FileTask, CloseTasks, OnTasks, TypeOK, taskVars, staffVars, Fresh, Live
<1>5. ASSUME Restart
      PROVE  OnTasks'
  BY <1>5 DEF Restart, OnTasks
<1>6. ASSUME \/ \E c \in Requests :
                  \/ \E s \in Suggestions, status \in Statuses : Open(c, s, status)
                  \/ WriteStatus(c) \/ StartInstall(c) \/ Rollback(c) \/ InstallEnds(c) \/ Disconnect(c)
             \/ UNCHANGED vars
      PROVE  OnTasks'
  <2>1. UNCHANGED <<spc, on, new, task>>
    BY <1>6 DEF Open, WriteStatus, StartInstall, Rollback, InstallEnds, Disconnect, staffVars, taskVars, vars
  <2> QED
    BY <2>1 DEF OnTasks
<1> QED
  BY <1>1, <1>2, <1>3, <1>4, <1>5, <1>6 DEF Next, RequestStep, StaffStep

\* A lone rejection is not undone while it cancels the tasks.
LEMMA ClosingStep == TypeOK /\ Alone /\ Fresh /\ ClosingRejects /\ [Next]_vars => ClosingRejects'
<1> SUFFICES ASSUME TypeOK, Alone, Fresh, ClosingRejects, [Next]_vars PROVE ClosingRejects'
  OBVIOUS
<1>1. ASSUME NEW c \in Requests, NEW s \in Suggestions, NEW status \in Statuses, Open(c, s, status)
      PROVE  ClosingRejects'
  BY <1>1 DEF Open, At, ClosingRejects, TypeOK
<1>2. ASSUME NEW c \in Requests, WriteStatus(c)
      PROVE  ClosingRejects'
  BY <1>2 DEF WriteStatus, At, SetSuggestion, ClosingRejects, Alone, InFlight, TypeOK
<1>3. ASSUME NEW c \in Requests, StartInstall(c) \/ FileTask(c) \/ CloseTasks(c)
      PROVE  ClosingRejects'
  BY <1>3 DEF StartInstall, FileTask, CloseTasks, At, ClosingRejects, TypeOK, history
<1>4. ASSUME NEW c \in Requests, Rollback(c)
      PROVE  ClosingRejects'
  BY <1>4 DEF Rollback, At, SetSuggestion, ClosingRejects, Fresh, TypeOK, history
<1>5. ASSUME NEW c \in Requests, InstallEnds(c)
      PROVE  ClosingRejects'
  BY <1>5 DEF InstallEnds, SetSuggestion, ClosingRejects, TypeOK, ownerVars, history
<1>6. ASSUME NEW w \in Staff, FinishDelivered(w)
      PROVE  ClosingRejects'
  BY <1>6 DEF FinishDelivered, SetSuggestion, ClosingRejects, TypeOK, ownerVars, history
<1>7. ASSUME \/ \E c \in Requests : Disconnect(c)
             \/ \E w \in Staff, c \in Requests : Aceptar(w, c) \/ Entregar(w, c) \/ Liberar(w, c)
             \/ \E w \in Staff : WriteTask(w)
             \/ UNCHANGED vars
      PROVE  ClosingRejects'
  <2>1. UNCHANGED <<sug, pc, of, overlap>>
    BY <1>7 DEF Disconnect, Aceptar, Entregar, Liberar, Begin, WriteTask, ownerVars, history, vars
  <2> QED
    BY <2>1 DEF ClosingRejects
<1>8. ASSUME Restart
      PROVE  ClosingRejects'
  BY <1>8 DEF Restart, ClosingRejects
<1> QED
  BY <1>1, <1>2, <1>3, <1>4, <1>5, <1>6, <1>7, <1>8 DEF Next, RequestStep, StaffStep

\* Every step leaves an accepted suggestion with work.
LEMMA AcceptedStep == TypeOK /\ WorkInv /\ [Next]_vars => AcceptedWorks'
<1> SUFFICES ASSUME TypeOK, WorkInv, [Next]_vars,
                    NEW s \in Suggestions, s \notin lost', s \notin Raced', sug'[s] = "aceptada_en_proceso"
             PROVE  Working(s)'
  BY DEF AcceptedWorks
<1>0. s \notin lost /\ s \notin Raced => (sug[s] = "aceptada_en_proceso" => Working(s))
  BY DEF WorkInv, AcceptedWorks
<1>1. ASSUME NEW c \in Requests, NEW r \in Suggestions, NEW status \in Statuses, Open(c, r, status)
      PROVE  Working(s)'
  <2>1. /\ sug' = sug /\ lost' = lost /\ reopened' = reopened /\ overlap \subseteq overlap'
        /\ UNCHANGED <<task, inst, spc, on>>
        /\ pc[c] = "idle" /\ \A d \in Requests \ {c} : pc'[d] = pc[d] /\ of'[d] = of[d]
    BY <1>1 DEF Open, At, taskVars, staffVars, TypeOK
  <2>2. Working(s)
    BY <1>0, <2>1 DEF Raced
  <2>3. task[c] = "none" /\ inst[c] = "none"
    BY <2>1 DEF WorkInv, Fresh
  <2>4. \A w \in Staff : spc[w] = "delivered" => on[w] # c /\ on[w] \in Requests
    BY <2>3 DEF WorkInv, OnTasks, TypeOK
  <2> QED
    BY <2>1, <2>2, <2>3, <2>4 DEF Working
<1>2. ASSUME NEW c \in Requests, WriteStatus(c)
      PROVE  Working(s)'
  <2>1. /\ UNCHANGED <<of, task, inst, spc, on, lost, overlap>> /\ reopened \subseteq reopened'
        /\ pc[c] = "read" /\ \A d \in Requests \ {c} : pc'[d] = pc[d]
    BY <1>2 DEF WriteStatus, At, taskVars, staffVars, TypeOK
  <2>2. CASE sug'[s] = sug[s]
    <3>1. Working(s)
      BY <1>0, <2>1, <2>2 DEF Raced
    <3> QED
      BY <2>1, <3>1 DEF Working
  <2>3. CASE sug'[s] # sug[s]
    <3>1. of[c] = s /\ want[c] = "aceptada_en_proceso"
      BY <1>2, <2>3 DEF WriteStatus, SetSuggestion, TypeOK
    <3>2. pc'[c] = "written"
      BY <1>2, <2>3, <3>1 DEF WriteStatus, At, TypeOK
    <3> QED
      BY <2>1, <3>1, <3>2 DEF Working
  <2> QED
    BY <2>2, <2>3
<1>3. ASSUME NEW c \in Requests, StartInstall(c)
      PROVE  Working(s)'
  <2>1. /\ UNCHANGED <<sug, of, task, spc, on, lost, overlap, reopened>>
        /\ inst'[c] = "running" /\ \A d \in Requests \ {c} : pc'[d] = pc[d] /\ inst'[d] = inst[d]
    BY <1>3 DEF StartInstall, At, taskVars, staffVars, history, TypeOK
  <2>2. Working(s)
    BY <1>0, <2>1 DEF Raced
  <2> QED
    BY <2>1, <2>2 DEF Working
<1>4. ASSUME NEW c \in Requests, FileTask(c)
      PROVE  Working(s)'
  <2>1. /\ UNCHANGED <<sug, of, inst, spc, on, lost, overlap, reopened>>
        /\ task'[c] \in {"abierta", "aceptada"} \/ pc'[c] = "rollback"
        /\ \A d \in Requests \ {c} : pc'[d] = pc[d] /\ task'[d] = task[d]
    BY <1>4 DEF FileTask, At, taskVars, staffVars, history, TypeOK
  <2>2. Working(s) /\ task[c] = "none"
    BY <1>0, <1>4, <2>1 DEF Raced, WorkInv, Fresh, FileTask
  <2> QED
    BY <2>1, <2>2 DEF Working
<1>5. ASSUME NEW c \in Requests, Rollback(c)
      PROVE  Working(s)'
  <2>1. /\ UNCHANGED <<of, task, inst, spc, on, overlap, reopened>> /\ lost \subseteq lost'
        /\ \A d \in Requests \ {c} : pc'[d] = pc[d]
    BY <1>5 DEF Rollback, At, taskVars, staffVars, history, TypeOK
  <2>2. of[c] # s /\ sug'[s] = sug[s]
    BY <1>5 DEF Rollback, SetSuggestion, WorkInv, Fresh, TypeOK
  <2>3. Working(s)
    BY <1>0, <2>1, <2>2 DEF Raced
  <2> QED
    BY <2>1, <2>2, <2>3 DEF Working
<1>6. ASSUME NEW c \in Requests, CloseTasks(c)
      PROVE  Working(s)'
  <2>1. /\ UNCHANGED <<sug, of, inst, spc, on, overlap, reopened>> /\ lost \subseteq lost'
        /\ pc[c] = "closing" /\ \A d \in Requests \ {c} : pc'[d] = pc[d]
        /\ \A d \in Requests : of[d] # of[c] => task'[d] = task[d]
    BY <1>6 DEF CloseTasks, At, taskVars, staffVars, history, TypeOK
  <2>2. of[c] # s
    BY <2>1 DEF WorkInv, ClosingRejects, Raced
  <2>3. Working(s)
    BY <1>0, <2>1 DEF Raced
  <2> QED
    BY <2>1, <2>2, <2>3 DEF Working
<1>7. ASSUME NEW c \in Requests, InstallEnds(c)
      PROVE  Working(s)'
  <2>1. /\ UNCHANGED <<pc, of, task, spc, on, overlap, reopened>> /\ lost \subseteq lost'
        /\ \A d \in Requests \ {c} : inst'[d] = inst[d]
    BY <1>7 DEF InstallEnds, ownerVars, taskVars, staffVars, history, TypeOK
  <2>2. of[c] # s /\ sug'[s] = sug[s]
    BY <1>7 DEF InstallEnds, SetSuggestion, TypeOK
  <2>3. Working(s)
    BY <1>0, <2>1, <2>2 DEF Raced
  <2> QED
    BY <2>1, <2>2, <2>3 DEF Working
<1>8. ASSUME NEW w \in Staff, NEW c \in Requests, Aceptar(w, c) \/ Entregar(w, c) \/ Liberar(w, c)
      PROVE  Working(s)'
  <2>1. /\ UNCHANGED <<sug, pc, of, task, inst, lost, overlap, reopened>>
        /\ spc[w] = "idle" /\ \A v \in Staff \ {w} : spc'[v] = spc[v] /\ on'[v] = on[v]
    BY <1>8 DEF Aceptar, Entregar, Liberar, Begin, ownerVars, taskVars, history, TypeOK
  <2>2. Working(s)
    BY <1>0, <2>1 DEF Raced
  <2> QED
    BY <2>1, <2>2 DEF Working
<1>9. ASSUME NEW w \in Staff, WriteTask(w)
      PROVE  Working(s)'
  <2>1. /\ UNCHANGED <<sug, pc, of, inst, on, lost, overlap, reopened>>
        /\ spc[w] = "read" /\ \A v \in Staff \ {w} : spc'[v] = spc[v]
        /\ \A d \in Requests \ {on[w]} : task'[d] = task[d]
        /\ on[w] \in Requests
    BY <1>9 DEF WriteTask, ownerVars, taskVars, TypeOK
  <2>2. \/ task' = task
        \/ task'[on[w]] \in {"abierta", "aceptada"}
        \/ spc'[w] = "delivered"
    BY <1>9 DEF WriteTask, WorkInv, OnTasks, TypeOK, taskVars
  <2>3. Working(s)
    BY <1>0, <2>1 DEF Raced
  <2> QED
    BY <2>1, <2>2, <2>3 DEF Working
<1>10. ASSUME NEW w \in Staff, FinishDelivered(w)
       PROVE  Working(s)'
  <2>1. /\ UNCHANGED <<pc, of, task, inst, on, overlap, reopened>> /\ lost \subseteq lost'
        /\ \A v \in Staff \ {w} : spc'[v] = spc[v]
    BY <1>10 DEF FinishDelivered, ownerVars, taskVars, history, TypeOK
  <2>2. of[on[w]] # s /\ sug'[s] = sug[s]
    BY <1>10 DEF FinishDelivered, SetSuggestion, TypeOK
  <2>3. Working(s)
    BY <1>0, <2>1, <2>2 DEF Raced
  <2> QED
    BY <2>1, <2>2, <2>3 DEF Working
<1>11. ASSUME Restart
       PROVE  Working(s)'
  <2>1. UNCHANGED <<sug, of, task, on, overlap, reopened>> /\ lost \subseteq lost'
    BY <1>11 DEF Restart, taskVars, history
  <2>2. Working(s)
    BY <1>0, <2>1 DEF Raced
  <2>3. /\ \A c \in Requests : of[c] = s => pc[c] \notin InFlight /\ inst[c] # "running"
        /\ \A w \in Staff : of[on[w]] = s => spc[w] # "delivered"
    BY <1>11 DEF Restart
  <2>4. \E c \in Requests : of[c] = s /\ task[c] \in {"abierta", "aceptada"}
    BY <2>2, <2>3 DEF Working, InFlight
  <2> QED
    BY <2>1, <2>4 DEF Working
<1>12. ASSUME (\E c \in Requests : Disconnect(c)) \/ UNCHANGED vars
       PROVE  Working(s)'
  <2>1. UNCHANGED <<sug, pc, of, task, inst, spc, on, lost, overlap, reopened>>
    BY <1>12 DEF Disconnect, ownerVars, taskVars, staffVars, history, vars
  <2>2. Working(s)
    BY <1>0, <2>1 DEF Raced
  <2> QED
    BY <2>1, <2>2 DEF Working
<1> QED
  BY <1>1, <1>2, <1>3, <1>4, <1>5, <1>6, <1>7, <1>8, <1>9, <1>10, <1>11, <1>12
     DEF Next, RequestStep, StaffStep

\* The work invariant holds at first and every step keeps it.
LEMMA WorkInductive ==
  /\ Init => WorkInv
  /\ TypeOK /\ WorkInv /\ [Next]_vars => WorkInv'
<1>1. Init => WorkInv
  BY DEF Init, WorkInv, Alone, Fresh, OnTasks, ClosingRejects, AcceptedWorks, InFlight
<1>2. TypeOK /\ WorkInv /\ [Next]_vars => WorkInv'
  BY AloneStep, FreshStep, OnTasksStep, ClosingStep, AcceptedStep DEF WorkInv
<1> QED
  BY <1>1, <1>2

\* An accepted suggestion always has somebody or something working on it,
\* unless a write about it was lost or its owner's requests raced.
THEOREM AcceptedIsWorkedOn == Spec => []AcceptedHasWork
<1>1. WorkInv => AcceptedHasWork
  BY DEF WorkInv, AcceptedWorks, AcceptedHasWork, Working, LiveTasks, TasksOf
<1> QED
  BY <1>1, TypeInit, TypeStep, WorkInductive, PTL DEF Spec

-----------------------------------------------------------------------------
(* A rejection stops the work, and a suggestion is worked on once. *)

\* While an accepting request files its task, nobody rejects.
WritingAccepts ==
  \A c \in Requests :
    pc[c] \in {"written", "rollback"} /\ of[c] \notin overlap => sug[of[c]] # "rechazada"

\* A rejected suggestion has a request cancelling its tasks, or none is live
\* but those that staff brought back.
StopsWork(s) ==
  \/ \E c \in Requests : of[c] = s /\ pc[c] = "closing"
  \/ \A c \in Requests : of[c] = s /\ task[c] \in Live => c \in revived

RejectedStops ==
  \A s \in Suggestions \ (lost \cup Raced) : sug[s] = "rechazada" => StopsWork(s)

\* The request has the suggestion: it is accepting it, or made its task or the
\* installation that runs.
Has(c) == pc[c] \in {"written", "rollback"} \/ task[c] # "none" \/ inst[c] = "running"

\* At most one request has a suggestion, and it is not pending then.
OneHas ==
  \A c \in Requests : Has(c) /\ of[c] \notin Raced =>
    /\ sug[of[c]] # "sugerida"
    /\ \A d \in Requests \ {c} : of[d] = of[c] => ~Has(d)

\* A lone request about to accept still finds its suggestion pending.
AcceptsPending ==
  \A c \in Requests :
    pc[c] = "read" /\ want[c] = "aceptada_en_proceso" /\ of[c] \notin Raced => sug[of[c]] = "sugerida"

\* What a request turned its suggestion into is a task or an installation.
EitherOr == \A c \in Requests : inst[c] = "none" \/ task[c] = "none"

OutcomeInv == WritingAccepts /\ RejectedStops /\ OneHas /\ AcceptsPending /\ EitherOr

\* A lone acceptance is not rejected while it files its task.
LEMMA WritingStep == TypeOK /\ WorkInv /\ WritingAccepts /\ [Next]_vars => WritingAccepts'
<1> SUFFICES ASSUME TypeOK, WorkInv, WritingAccepts, [Next]_vars PROVE WritingAccepts'
  OBVIOUS
<1> USE DEF WorkInv
<1>1. ASSUME NEW c \in Requests, NEW s \in Suggestions, NEW status \in Statuses, Open(c, s, status)
      PROVE  WritingAccepts'
  BY <1>1 DEF Open, At, WritingAccepts, TypeOK
<1>2. ASSUME NEW c \in Requests, WriteStatus(c)
      PROVE  WritingAccepts'
  BY <1>2 DEF WriteStatus, At, SetSuggestion, WritingAccepts, Alone, InFlight, TypeOK
<1>3. ASSUME NEW c \in Requests, StartInstall(c) \/ FileTask(c) \/ CloseTasks(c)
      PROVE  WritingAccepts'
  BY <1>3 DEF StartInstall, FileTask, CloseTasks, At, WritingAccepts, TypeOK, history
<1>4. ASSUME NEW c \in Requests, Rollback(c)
      PROVE  WritingAccepts'
  BY <1>4 DEF Rollback, At, SetSuggestion, WritingAccepts, Fresh, TypeOK, history
<1>5. ASSUME NEW c \in Requests, InstallEnds(c)
      PROVE  WritingAccepts'
  BY <1>5 DEF InstallEnds, SetSuggestion, WritingAccepts, TypeOK, ownerVars, history
<1>6. ASSUME NEW w \in Staff, FinishDelivered(w)
      PROVE  WritingAccepts'
  BY <1>6 DEF FinishDelivered, SetSuggestion, WritingAccepts, TypeOK, ownerVars, history
<1>7. ASSUME \/ \E c \in Requests : Disconnect(c)
             \/ \E w \in Staff, c \in Requests : Aceptar(w, c) \/ Entregar(w, c) \/ Liberar(w, c)
             \/ \E w \in Staff : WriteTask(w)
             \/ UNCHANGED vars
      PROVE  WritingAccepts'
  <2>1. UNCHANGED <<sug, pc, of, overlap>>
    BY <1>7 DEF Disconnect, Aceptar, Entregar, Liberar, Begin, WriteTask, ownerVars, history, vars
  <2> QED
    BY <2>1 DEF WritingAccepts
<1>8. ASSUME Restart
      PROVE  WritingAccepts'
  BY <1>8 DEF Restart, WritingAccepts
<1> QED
  BY <1>1, <1>2, <1>3, <1>4, <1>5, <1>6, <1>7, <1>8 DEF Next, RequestStep, StaffStep

\* Every step leaves a rejected suggestion without work, or being closed.
LEMMA RejectedStep == TypeOK /\ WorkInv /\ WritingAccepts /\ RejectedStops /\ [Next]_vars => RejectedStops'
<1> SUFFICES ASSUME TypeOK, WorkInv, WritingAccepts, RejectedStops, [Next]_vars,
                    NEW s \in Suggestions, s \notin lost', s \notin Raced', sug'[s] = "rechazada"
             PROVE  StopsWork(s)'
  BY DEF RejectedStops
<1>0. s \notin lost /\ s \notin Raced => (sug[s] = "rechazada" => StopsWork(s))
  BY DEF RejectedStops
<1>1. ASSUME NEW c \in Requests, NEW r \in Suggestions, NEW status \in Statuses, Open(c, r, status)
      PROVE  StopsWork(s)'
  <2>1. /\ UNCHANGED <<sug, lost, reopened, task, revived>> /\ overlap \subseteq overlap'
        /\ pc[c] = "idle" /\ \A d \in Requests \ {c} : pc'[d] = pc[d] /\ of'[d] = of[d]
    BY <1>1 DEF Open, At, taskVars, TypeOK
  <2>2. StopsWork(s) /\ task[c] = "none"
    BY <1>0, <2>1 DEF Raced, WorkInv, Fresh
  <2> QED
    BY <2>1, <2>2 DEF StopsWork, Live
<1>2. ASSUME NEW c \in Requests, WriteStatus(c)
      PROVE  StopsWork(s)'
  <2>1. /\ UNCHANGED <<of, task, revived, lost, overlap>> /\ reopened \subseteq reopened'
        /\ pc[c] = "read" /\ \A d \in Requests \ {c} : pc'[d] = pc[d]
    BY <1>2 DEF WriteStatus, At, taskVars, TypeOK
  <2>2. CASE sug'[s] = sug[s]
    <3>1. StopsWork(s)
      BY <1>0, <2>1, <2>2 DEF Raced
    <3> QED
      BY <2>1, <3>1 DEF StopsWork
  <2>3. CASE sug'[s] # sug[s]
    <3>1. of[c] = s /\ want[c] = "rechazada"
      BY <1>2, <2>3 DEF WriteStatus, SetSuggestion, TypeOK
    <3>2. pc'[c] = "closing"
      BY <1>2, <2>3, <3>1 DEF WriteStatus, At, TypeOK
    <3> QED
      BY <2>1, <3>1, <3>2 DEF StopsWork
  <2> QED
    BY <2>2, <2>3
<1>3. ASSUME NEW c \in Requests, FileTask(c)
      PROVE  StopsWork(s)'
  <2>1. /\ UNCHANGED <<sug, of, lost, overlap, reopened, revived>> /\ pc[c] = "written"
        /\ \A d \in Requests \ {c} : pc'[d] = pc[d] /\ task'[d] = task[d]
    BY <1>3 DEF FileTask, At, taskVars, history, TypeOK
  <2>2. of[c] # s
    BY <2>1 DEF WritingAccepts, Raced
  <2>3. StopsWork(s)
    BY <1>0, <2>1 DEF Raced
  <2> QED
    BY <2>1, <2>2, <2>3 DEF StopsWork
<1>4. ASSUME NEW c \in Requests, Rollback(c)
      PROVE  StopsWork(s)'
  <2>1. /\ UNCHANGED <<of, task, overlap, reopened, revived>> /\ lost \subseteq lost' /\ pc[c] = "rollback"
        /\ \A d \in Requests \ {c} : pc'[d] = pc[d]
    BY <1>4 DEF Rollback, At, taskVars, history, TypeOK
  <2>2. of[c] # s /\ sug'[s] = sug[s]
    BY <1>4 DEF Rollback, SetSuggestion, WorkInv, Fresh, TypeOK
  <2>3. StopsWork(s)
    BY <1>0, <2>1, <2>2 DEF Raced
  <2> QED
    BY <2>1, <2>2, <2>3 DEF StopsWork
<1>5. ASSUME NEW c \in Requests, CloseTasks(c)
      PROVE  StopsWork(s)'
  <2>1. /\ UNCHANGED <<sug, of, overlap, reopened, revived>> /\ lost \subseteq lost'
        /\ \A d \in Requests \ {c} : pc'[d] = pc[d]
    BY <1>5 DEF CloseTasks, At, history, TypeOK
  <2>2. CASE of[c] = s
    <3>1. \A d \in Requests : of[d] = s => task'[d] \notin Live
      BY <1>5, <2>2 DEF CloseTasks, Live
    <3> QED
      BY <2>1, <3>1 DEF StopsWork
  <2>3. CASE of[c] # s
    <3>1. StopsWork(s)
      BY <1>0, <2>1 DEF Raced
    <3>2. \A d \in Requests : of[d] = s => task'[d] = task[d]
      BY <1>5, <2>3 DEF CloseTasks, TypeOK
    <3> QED
      BY <2>1, <2>3, <3>1, <3>2 DEF StopsWork
  <2> QED
    BY <2>2, <2>3
<1>6. ASSUME \/ \E c \in Requests : InstallEnds(c)
             \/ \E w \in Staff : FinishDelivered(w)
      PROVE  StopsWork(s)'
  <2>1. UNCHANGED <<pc, of, task, overlap, reopened, revived>> /\ lost \subseteq lost'
    BY <1>6 DEF InstallEnds, FinishDelivered, ownerVars, taskVars, history
  <2>2. sug'[s] = sug[s]
    BY <1>6 DEF InstallEnds, FinishDelivered, SetSuggestion, TypeOK
  <2>3. StopsWork(s)
    BY <1>0, <2>1, <2>2 DEF Raced
  <2> QED
    BY <2>1, <2>3 DEF StopsWork
<1>7. ASSUME NEW w \in Staff, WriteTask(w)
      PROVE  StopsWork(s)'
  <2>1. /\ UNCHANGED <<sug, pc, of, lost, overlap, reopened>> /\ on[w] \in Requests
        /\ revived \subseteq revived' /\ \A d \in Requests \ {on[w]} : task'[d] = task[d]
    BY <1>7 DEF WriteTask, ownerVars, taskVars, TypeOK
  <2>2. StopsWork(s)
    BY <1>0, <2>1 DEF Raced
  <2>3. task' = task \/ task[on[w]] \in Live \/ on[w] \in revived'
    BY <1>7 DEF WriteTask, taskVars, LiveTasks, Live
  <2> QED
    BY <2>1, <2>2, <2>3 DEF StopsWork
<1>8. ASSUME Restart
      PROVE  StopsWork(s)'
  <2>1. UNCHANGED <<sug, of, task, overlap, reopened, revived>> /\ lost \subseteq lost'
    BY <1>8 DEF Restart, taskVars, history
  <2>2. \A c \in Requests : of[c] = s => pc[c] # "closing"
    BY <1>8 DEF Restart, InFlight
  <2>3. StopsWork(s)
    BY <1>0, <2>1 DEF Raced
  <2> QED
    BY <2>1, <2>2, <2>3 DEF StopsWork
<1>9. ASSUME NEW c \in Requests, StartInstall(c)
      PROVE  StopsWork(s)'
  <2>1. /\ UNCHANGED <<sug, of, task, lost, overlap, reopened, revived>> /\ pc[c] = "written"
        /\ \A d \in Requests \ {c} : pc'[d] = pc[d]
    BY <1>9 DEF StartInstall, At, taskVars, history, TypeOK
  <2>2. StopsWork(s)
    BY <1>0, <2>1 DEF Raced
  <2> QED
    BY <2>1, <2>2 DEF StopsWork
<1>10. ASSUME \/ \E c \in Requests : Disconnect(c)
              \/ \E w \in Staff, c \in Requests : Aceptar(w, c) \/ Entregar(w, c) \/ Liberar(w, c)
              \/ UNCHANGED vars
       PROVE  StopsWork(s)'
  <2>1. UNCHANGED <<sug, pc, of, task, lost, overlap, reopened, revived>>
    BY <1>10 DEF Disconnect, Aceptar, Entregar, Liberar, Begin, ownerVars, taskVars, history, vars
  <2>2. StopsWork(s)
    BY <1>0, <2>1 DEF Raced
  <2> QED
    BY <2>1, <2>2 DEF StopsWork
<1> QED
  BY <1>1, <1>2, <1>3, <1>4, <1>5, <1>6, <1>7, <1>8, <1>9, <1>10 DEF Next, RequestStep, StaffStep

\* A request makes a task or an installation, never both.
LEMMA EitherOrStep == TypeOK /\ WorkInv /\ EitherOr /\ [Next]_vars => EitherOr'
<1> SUFFICES ASSUME TypeOK, WorkInv, EitherOr, [Next]_vars PROVE EitherOr'
  OBVIOUS
<1>1. ASSUME NEW c \in Requests, StartInstall(c) \/ FileTask(c)
      PROVE  EitherOr'
  BY <1>1 DEF StartInstall, FileTask, EitherOr, WorkInv, Fresh, TypeOK, taskVars
<1>2. ASSUME NEW c \in Requests, CloseTasks(c)
      PROVE  EitherOr'
  BY <1>2 DEF CloseTasks, EitherOr, TypeOK, Live
<1>3. ASSUME NEW c \in Requests, InstallEnds(c)
      PROVE  EitherOr'
  BY <1>3 DEF InstallEnds, EitherOr, TypeOK, taskVars
<1>4. ASSUME NEW w \in Staff, WriteTask(w)
      PROVE  EitherOr'
  BY <1>4 DEF WriteTask, EitherOr, WorkInv, OnTasks, TypeOK, taskVars
<1>5. ASSUME Restart
      PROVE  EitherOr'
  BY <1>5 DEF Restart, EitherOr, TypeOK, taskVars
<1>6. ASSUME \/ \E c \in Requests :
                  \/ \E s \in Suggestions, status \in Statuses : Open(c, s, status)
                  \/ WriteStatus(c) \/ Rollback(c) \/ Disconnect(c)
             \/ \E w \in Staff, c \in Requests : Aceptar(w, c) \/ Entregar(w, c) \/ Liberar(w, c)
             \/ \E w \in Staff : FinishDelivered(w)
             \/ UNCHANGED vars
      PROVE  EitherOr'
  <2>1. UNCHANGED <<task, inst>>
    BY <1>6 DEF Open, WriteStatus, Rollback, Disconnect, Aceptar, Entregar, Liberar, Begin,
                FinishDelivered, taskVars, vars
  <2> QED
    BY <2>1 DEF EitherOr
<1> QED
  BY <1>1, <1>2, <1>3, <1>4, <1>5, <1>6 DEF Next, RequestStep, StaffStep

\* A request that has not finished and does not accept has nothing.
LEMMA HasNothing ==
  ASSUME WorkInv, NEW c \in Requests, pc[c] \in {"idle", "read", "closing"}
  PROVE  ~Has(c)
BY DEF WorkInv, Fresh, Has

\* No step gives a suggestion to a second request, or makes pending one that a
\* request has; and none changes what a lone accepting request saw.
LEMMA OneHasStep ==
  TypeOK /\ WorkInv /\ OneHas /\ AcceptsPending /\ EitherOr /\ [Next]_vars => (OneHas /\ AcceptsPending)'
<1> SUFFICES ASSUME TypeOK, WorkInv, OneHas, AcceptsPending, EitherOr, [Next]_vars
             PROVE  (OneHas /\ AcceptsPending)'
  OBVIOUS
<1>1. ASSUME NEW c \in Requests, NEW s \in Suggestions, NEW status \in Statuses, Open(c, s, status)
      PROVE  (OneHas /\ AcceptsPending)'
  <2>1. /\ sug' = sug /\ task' = task /\ inst' = inst /\ pc'[c] = "read" /\ of'[c] = s /\ want'[c] = status
        /\ \A d \in Requests \ {c} : pc'[d] = pc[d] /\ of'[d] = of[d] /\ want'[d] = want[d]
        /\ pc[c] = "idle" /\ Raced \subseteq Raced'
        /\ status = "aceptada_en_proceso" => sug[s] = "sugerida"
    BY <1>1 DEF Open, Allowed, At, Raced, taskVars, TypeOK
  <2>2. ~Has(c)
    BY <2>1, HasNothing
  <2>3. \A d \in Requests : Has(d)' => Has(d) /\ d # c
    BY <2>1, <2>2 DEF Has
  <2>4. OneHas'
    BY <2>1, <2>3 DEF OneHas
  <2>5. AcceptsPending'
    BY <2>1 DEF AcceptsPending
  <2> QED
    BY <2>4, <2>5
<1>2. ASSUME NEW c \in Requests, WriteStatus(c)
      PROVE  (OneHas /\ AcceptsPending)'
  <2>1. /\ UNCHANGED <<task, inst, of, want, overlap>> /\ pc[c] = "read" /\ pc'[c] # "read"
        /\ \A d \in Requests \ {c} : pc'[d] = pc[d]
        /\ Raced \subseteq Raced'
    BY <1>2 DEF WriteStatus, At, Raced, taskVars, TypeOK
  <2>2. ~Has(c)
    BY <2>1, HasNothing
  <2>3. \A d \in Requests \ {c} : Has(d)' <=> Has(d)
    BY <2>1 DEF Has
  <2>4. Has(c)' => want[c] = "aceptada_en_proceso" /\ sug'[of[c]] = "aceptada_en_proceso"
    BY <1>2, <2>1, <2>2 DEF WriteStatus, At, SetSuggestion, Has, TypeOK
  <2>5. /\ \A x \in Suggestions \ {of[c]} : sug'[x] = sug[x]
        /\ of[c] \notin Raced' /\ sug'[of[c]] # sug[of[c]] => sug'[of[c]] # "sugerida"
    BY <1>2 DEF WriteStatus, SetSuggestion, Raced, TypeOK
  <2>6. of \in [Requests -> Suggestions]
    BY DEF TypeOK
  <2>7. OneHas'
    <3> SUFFICES ASSUME NEW d \in Requests, Has(d)', of[d] \notin Raced'
                 PROVE  /\ sug'[of[d]] # "sugerida"
                        /\ \A e \in Requests \ {d} : of[e] = of[d] => ~Has(e)'
      BY <2>1 DEF OneHas
    <3>1. CASE d = c
      <4>1. sug[of[c]] = "sugerida" /\ sug'[of[c]] = "aceptada_en_proceso"
        BY <2>1, <2>4, <3>1 DEF AcceptsPending
      <4>2. \A e \in Requests \ {c} : of[e] = of[c] => ~Has(e)
        BY <2>1, <3>1, <4>1 DEF OneHas
      <4> QED
        BY <2>3, <3>1, <4>1, <4>2
    <3>2. CASE d # c
      <4>1. sug[of[d]] # "sugerida" /\ \A e \in Requests \ {d} : of[e] = of[d] => ~Has(e)
        BY <2>1, <2>3, <3>2 DEF OneHas
      <4>2. of[c] = of[d] => ~Has(c)'
        BY <2>1, <2>4, <4>1, <3>2 DEF AcceptsPending
      <4>3. sug'[of[d]] # "sugerida"
        BY <2>5, <2>6, <4>1
      <4> QED
        BY <2>3, <4>1, <4>2, <4>3
    <3> QED
      BY <3>1, <3>2
  <2>8. AcceptsPending'
    <3> SUFFICES ASSUME NEW d \in Requests, pc'[d] = "read", want[d] = "aceptada_en_proceso", of[d] \notin Raced'
                 PROVE  sug'[of[d]] = "sugerida"
      BY <2>1 DEF AcceptsPending
    <3>1. d # c /\ pc[d] = "read"
      BY <2>1
    <3>2. of[d] # of[c]
      BY <2>1, <3>1 DEF WorkInv, Alone, InFlight, Raced
    <3> QED
      BY <2>1, <2>5, <2>6, <3>1, <3>2 DEF AcceptsPending
  <2> QED
    BY <2>7, <2>8
<1>3. ASSUME NEW c \in Requests, StartInstall(c) \/ FileTask(c)
      PROVE  (OneHas /\ AcceptsPending)'
  <2>1. /\ UNCHANGED <<sug, of, want, overlap, reopened>> /\ pc[c] = "written" /\ pc'[c] # "read"
        /\ \A d \in Requests \ {c} : pc'[d] = pc[d] /\ task'[d] = task[d] /\ inst'[d] = inst[d]
    BY <1>3 DEF StartInstall, FileTask, At, taskVars, history, TypeOK
  <2>2. \A d \in Requests : Has(d)' => Has(d)
    BY <2>1 DEF Has
  <2>3. OneHas'
    BY <2>1, <2>2 DEF OneHas, Raced
  <2>4. AcceptsPending'
    BY <2>1 DEF AcceptsPending, Raced
  <2> QED
    BY <2>3, <2>4
<1>4. ASSUME NEW c \in Requests, CloseTasks(c)
      PROVE  (OneHas /\ AcceptsPending)'
  <2>1. /\ UNCHANGED <<sug, of, want, inst, overlap, reopened>> /\ pc'[c] = "done"
        /\ \A d \in Requests \ {c} : pc'[d] = pc[d]
        /\ \A d \in Requests : task[d] = "none" => task'[d] = "none"
    BY <1>4 DEF CloseTasks, At, Live, history, TypeOK
  <2>2. \A d \in Requests : Has(d)' => Has(d)
    BY <2>1 DEF Has
  <2>3. OneHas'
    BY <2>1, <2>2 DEF OneHas, Raced
  <2>4. AcceptsPending'
    BY <2>1 DEF AcceptsPending, Raced
  <2> QED
    BY <2>3, <2>4
<1>5. ASSUME NEW c \in Requests, Rollback(c)
      PROVE  (OneHas /\ AcceptsPending)'
  <2>1. /\ UNCHANGED <<of, want, task, inst, overlap, reopened>> /\ pc[c] = "rollback" /\ pc'[c] = "done"
        /\ \A d \in Requests \ {c} : pc'[d] = pc[d]
    BY <1>5 DEF Rollback, At, taskVars, history, TypeOK
  <2>2. sug' = sug \/ sug' = [sug EXCEPT ![of[c]] = "sugerida"]
    BY <1>5 DEF Rollback, SetSuggestion, WorkInv, Fresh
  <2>3. Has(c) /\ ~Has(c)' /\ \A d \in Requests \ {c} : Has(d)' <=> Has(d)
    BY <2>1 DEF Has, WorkInv, Fresh
  <2>4. OneHas'
    <3> SUFFICES ASSUME NEW d \in Requests, Has(d)', of[d] \notin Raced
                 PROVE  /\ sug'[of[d]] # "sugerida"
                        /\ \A e \in Requests \ {d} : of[e] = of[d] => ~Has(e)'
      BY <2>1 DEF OneHas, Raced
    <3>1. d # c /\ Has(d)
      BY <2>3
    <3>2. sug[of[d]] # "sugerida" /\ \A e \in Requests \ {d} : of[e] = of[d] => ~Has(e)
      BY <3>1 DEF OneHas
    <3>3. of[c] # of[d]
      BY <2>3, <3>1, <3>2
    <3> QED
      BY <2>2, <2>3, <3>2, <3>3 DEF TypeOK
  <2>5. AcceptsPending'
    BY <2>1, <2>2 DEF AcceptsPending, Raced, TypeOK
  <2> QED
    BY <2>4, <2>5
<1>6. ASSUME NEW c \in Requests, InstallEnds(c)
      PROVE  (OneHas /\ AcceptsPending)'
  <2>1. /\ UNCHANGED <<pc, of, want, task, overlap, reopened>> /\ inst[c] = "running" /\ inst'[c] = "ended"
        /\ \A d \in Requests \ {c} : inst'[d] = inst[d]
    BY <1>6 DEF InstallEnds, ownerVars, taskVars, history, TypeOK
  <2>2. \A x \in Suggestions \ {of[c]} : sug'[x] = sug[x]
    BY <1>6 DEF InstallEnds, SetSuggestion, TypeOK
  <2>3. Has(c) /\ ~Has(c)' /\ \A d \in Requests \ {c} : Has(d)' <=> Has(d)
    BY <2>1 DEF Has, EitherOr, WorkInv, Fresh
  <2>4. of \in [Requests -> Suggestions]
    BY DEF TypeOK
  <2>5. OneHas'
    <3> SUFFICES ASSUME NEW d \in Requests, Has(d)', of[d] \notin Raced
                 PROVE  /\ sug'[of[d]] # "sugerida"
                        /\ \A e \in Requests \ {d} : of[e] = of[d] => ~Has(e)'
      BY <2>1 DEF OneHas, Raced
    <3>1. d # c /\ Has(d)
      BY <2>3
    <3>2. sug[of[d]] # "sugerida" /\ \A e \in Requests \ {d} : of[e] = of[d] => ~Has(e)
      BY <3>1 DEF OneHas
    <3>3. of[c] # of[d]
      BY <2>3, <3>1, <3>2
    <3> QED
      BY <2>2, <2>3, <2>4, <3>2, <3>3
  <2>6. AcceptsPending'
    <3> SUFFICES ASSUME NEW d \in Requests, pc[d] = "read", want[d] = "aceptada_en_proceso", of[d] \notin Raced
                 PROVE  sug'[of[d]] = "sugerida"
      BY <2>1 DEF AcceptsPending, Raced
    <3>1. sug[of[d]] = "sugerida"
      BY DEF AcceptsPending
    <3>2. of[c] # of[d]
      BY <2>3, <3>1 DEF OneHas
    <3> QED
      BY <2>2, <2>4, <3>1, <3>2
  <2> QED
    BY <2>5, <2>6
<1>7. ASSUME NEW w \in Staff, FinishDelivered(w)
      PROVE  (OneHas /\ AcceptsPending)'
  <2>1. /\ UNCHANGED <<pc, of, want, task, inst, overlap, reopened>> /\ spc[w] = "delivered"
        /\ on[w] \in Requests
    BY <1>7 DEF FinishDelivered, ownerVars, taskVars, history, TypeOK
  <2>2. sug' = sug \/ sug' = [sug EXCEPT ![of[on[w]]] = "terminada"]
    BY <1>7 DEF FinishDelivered, SetSuggestion
  <2>3. Has(on[w]) /\ \A d \in Requests : Has(d)' <=> Has(d)
    BY <2>1 DEF Has, WorkInv, OnTasks
  <2>4. \A x \in Suggestions : sug'[x] = sug[x] \/ (x = of[on[w]] /\ sug'[x] = "terminada")
    BY <2>2 DEF TypeOK
  <2>5. of \in [Requests -> Suggestions]
    BY DEF TypeOK
  <2>6. OneHas'
    BY <2>1, <2>3, <2>4, <2>5 DEF OneHas, Raced
  <2>7. AcceptsPending'
    <3> SUFFICES ASSUME NEW d \in Requests, pc[d] = "read", want[d] = "aceptada_en_proceso", of[d] \notin Raced
                 PROVE  sug'[of[d]] = "sugerida"
      BY <2>1 DEF AcceptsPending, Raced
    <3>1. sug[of[d]] = "sugerida"
      BY DEF AcceptsPending
    <3>2. of[on[w]] # of[d]
      BY <2>1, <2>3, <3>1 DEF OneHas
    <3> QED
      BY <2>4, <2>5, <3>1, <3>2
  <2> QED
    BY <2>6, <2>7
<1>8. ASSUME NEW w \in Staff, WriteTask(w)
      PROVE  (OneHas /\ AcceptsPending)'
  <2>1. /\ UNCHANGED <<sug, pc, of, want, inst, overlap, reopened>> /\ task[on[w]] # "none"
        /\ \A d \in Requests \ {on[w]} : task'[d] = task[d]
    BY <1>8 DEF WriteTask, WorkInv, OnTasks, ownerVars, taskVars, TypeOK
  <2>2. \A d \in Requests : Has(d)' => Has(d)
    BY <2>1 DEF Has
  <2>3. OneHas'
    BY <2>1, <2>2 DEF OneHas, Raced
  <2>4. AcceptsPending'
    BY <2>1 DEF AcceptsPending, Raced
  <2> QED
    BY <2>3, <2>4
<1>9. ASSUME Restart
      PROVE  (OneHas /\ AcceptsPending)'
  <2>1. /\ UNCHANGED <<sug, of, want, task, overlap, reopened>>
        /\ \A d \in Requests : pc'[d] \in {"idle", "done"} /\ inst'[d] # "running"
    BY <1>9 DEF Restart, taskVars, history, TypeOK
  <2>2. \A d \in Requests : Has(d)' => Has(d)
    BY <2>1 DEF Has
  <2>3. OneHas'
    BY <2>1, <2>2 DEF OneHas, Raced
  <2>4. AcceptsPending'
    BY <2>1 DEF AcceptsPending
  <2> QED
    BY <2>3, <2>4
<1>10. ASSUME \/ \E c \in Requests : Disconnect(c)
              \/ \E w \in Staff, c \in Requests : Aceptar(w, c) \/ Entregar(w, c) \/ Liberar(w, c)
              \/ UNCHANGED vars
       PROVE  (OneHas /\ AcceptsPending)'
  <2>1. UNCHANGED <<sug, pc, of, want, task, inst, overlap, reopened>>
    BY <1>10 DEF Disconnect, Aceptar, Entregar, Liberar, Begin, ownerVars, taskVars, history, vars
  <2> QED
    BY <2>1 DEF OneHas, AcceptsPending, Has, Raced
<1> QED
  BY <1>1, <1>2, <1>3, <1>4, <1>5, <1>6, <1>7, <1>8, <1>9, <1>10 DEF Next, RequestStep, StaffStep

\* A set all of whose members are one has at most one.
LEMMA AtMostOne ==
  ASSUME NEW S, \A x, y \in S : x = y
  PROVE  Cardinality(S) <= 1
<1>1. CASE S = {}
  BY <1>1, FS_EmptySet
<1>2. CASE S # {}
  <2>1. PICK x : S = {x}
    BY <1>2
  <2> QED
    BY <2>1, FS_Singleton
<1> QED
  BY <1>1, <1>2

\* The outcome invariant holds at first and every step keeps it.
LEMMA OutcomeInductive ==
  /\ Init => OutcomeInv
  /\ TypeOK /\ WorkInv /\ OutcomeInv /\ [Next]_vars => OutcomeInv'
<1>1. Init => OutcomeInv
  BY DEF Init, OutcomeInv, WritingAccepts, RejectedStops, OneHas, AcceptsPending, EitherOr, Has
<1>2. TypeOK /\ WorkInv /\ OutcomeInv /\ [Next]_vars => OutcomeInv'
  BY WritingStep, RejectedStep, OneHasStep, EitherOrStep DEF OutcomeInv
<1> QED
  BY <1>1, <1>2

\* Once a rejection is through, no Creator works on the suggestion but those
\* whose own write brought its task back.
THEOREM RejectionStopsWork == Spec => []RejectedStopsWork
<1>1. OutcomeInv => RejectedStopsWork
  BY DEF OutcomeInv, RejectedStops, StopsWork, RejectedStopsWork, Busy, InFlight, LiveTasks, TasksOf, Live
<1> QED
  BY <1>1, TypeInit, TypeStep, WorkInductive, OutcomeInductive, PTL DEF Spec

\* A suggestion turns into at most one task, and one installation at a time,
\* unless its owner's requests overlapped or put it back.
THEOREM OneTaskOneInstall == Spec => []WorkedOnOnce
<1>1. OutcomeInv => WorkedOnOnce
  <2> SUFFICES ASSUME OneHas, NEW s \in Suggestions \ Raced
               PROVE  /\ Cardinality(TasksOf(s)) <= 1
                      /\ Cardinality({c \in Requests : of[c] = s /\ inst[c] = "running"}) <= 1
    BY DEF OutcomeInv, WorkedOnOnce
  <2>1. \A c, d \in TasksOf(s) : c = d
    BY DEF TasksOf, OneHas, Has
  <2>2. \A c, d \in {e \in Requests : of[e] = s /\ inst[e] = "running"} : c = d
    BY DEF OneHas, Has
  <2> QED
    BY <2>1, <2>2, AtMostOne
<1> QED
  BY <1>1, TypeInit, TypeStep, WorkInductive, OutcomeInductive, PTL DEF Spec
=============================================================================
