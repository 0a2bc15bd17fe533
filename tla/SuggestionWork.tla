--------------------------- MODULE SuggestionWork ---------------------------
(***************************************************************************)
(* What becomes of a suggestion: the owner's PATCH requests on it, the     *)
(* Creator task or the Odoo installation an accepted one turns into, the   *)
(* staff working on the tasks, and how the outcome gets back to it.        *)
(*                                                                         *)
(* A request is a goroutine; each of its database statements is one step,  *)
(* and a request only ever knows what its first read returned.  A request  *)
(* files at most one task and starts at most one installation, so both are *)
(* named by the request that made them.                                    *)
(***************************************************************************)
EXTENDS Naturals, FiniteSets

CONSTANTS
  Suggestions,  \* suggestions of the account, all pending at first
  Requests,     \* PATCH /suggestions/:id/status requests, each used once
  Staff,        \* Creators and admins of AndRho
  Admins,       \* those that are admins
  Nobody,       \* creator_id NULL
  MaxFaults     \* bound on restarts, lost clients, failed statements

ASSUME StaffAssumption ==
  /\ Admins \subseteq Staff
  /\ Nobody \notin Staff
  /\ Suggestions # {} /\ Requests # {}

ASSUME FaultsAssumption == MaxFaults \in Nat

VARIABLES
  sug,       \* table suggestions: status
  installs,  \* suggestions whose action is an erp_install AndRho can do itself
  pc,        \* where a request is
  of,        \* the suggestion it is about
  want,      \* the status it asks for
  seen,      \* the status its first read returned
  task,      \* table creator_tasks: status of the task a request filed
  holder,    \* its creator_id
  inst,      \* the installation a request started
  spc,       \* where a staff member's request is
  on,        \* the task it is about
  new,       \* the row it is about to write
  gone,      \* requests whose client went away: their context is cancelled
  faults,    \* faults so far
  lost,      \* history: suggestions a write about which was lost
  overlap,   \* history: suggestions two requests of which overlapped
  reopened,  \* history: suggestions put back to "sugerida" by a request
  revived    \* history: tasks written back to life by staff

vars == <<sug, installs, pc, of, want, seen, task, holder, inst, spc, on, new,
          gone, faults, lost, overlap, reopened, revived>>

ownerVars == <<pc, of, want, seen>>
taskVars  == <<task, holder>>
staffVars == <<spc, on, new>>
history   == <<overlap, reopened, revived>>

Statuses     == {"sugerida", "aceptada_en_proceso", "terminada", "rechazada"}
TaskStatuses == {"none", "abierta", "aceptada", "entregada", "cancelada"}
InFlight     == {"read", "written", "rollback", "closing"}
TaskRow      == [status : TaskStatuses, holder : Staff \cup {Nobody}]

TypeOK ==
  /\ sug \in [Suggestions -> Statuses]
  /\ installs \subseteq Suggestions
  /\ pc \in [Requests -> InFlight \cup {"idle", "done"}]
  /\ of \in [Requests -> Suggestions]
  /\ want \in [Requests -> Statuses]
  /\ seen \in [Requests -> Statuses]
  /\ task \in [Requests -> TaskStatuses]
  /\ holder \in [Requests -> Staff \cup {Nobody}]
  /\ inst \in [Requests -> {"none", "running", "ended"}]
  /\ spc \in [Staff -> {"idle", "read", "delivered"}]
  /\ on \in [Staff -> Requests]
  /\ new \in [Staff -> TaskRow]
  /\ gone \subseteq Requests
  /\ faults \in Nat
  /\ lost \subseteq Suggestions
  /\ overlap \subseteq Suggestions
  /\ reopened \subseteq Suggestions
  /\ revived \subseteq Requests

Busy(s)    == {c \in Requests : of[c] = s /\ pc[c] \in InFlight}
TasksOf(s) == {c \in Requests : of[c] = s /\ task[c] # "none"}
Raced      == overlap \cup reopened

-----------------------------------------------------------------------------
(* An operator whose name extends that of one after it is that one with a
   slip; PROJECT.json's mutants put it in its place. *)

Fault == faults < MaxFaults /\ faults' = faults + 1

\* A statement on a request's context reaches the database, or it does not.
Reaches(c) == c \notin gone /\ UNCHANGED faults
Misses(c)  == IF c \in gone THEN UNCHANGED faults ELSE Fault

At(c, point) == pc' = [pc EXCEPT ![c] = point]

SetSuggestion(s, status) == sug' = [sug EXCEPT ![s] = status]

\* Statuses of a task that somebody may still work on.
LiveOpenOnly == {"abierta"}
Live == {"abierta", "aceptada"}

LiveTasks(s) == {c \in TasksOf(s) : task[c] \in {"abierta", "aceptada"}}

-----------------------------------------------------------------------------
(* UpdateSuggestionStatus, acceptSuggestion and closeSuggestionTasks. *)

\* May a request that saw this status go on to write that one?
AllowedAlways(saw, status) == saw # status
Allowed(saw, status) ==
  /\ saw # status
  /\ status = "aceptada_en_proceso" => saw = "sugerida"

Open(c, s, status) ==
  /\ pc[c] = "idle"
  /\ Allowed(sug[s], status)
  /\ At(c, "read")
  /\ of' = [of EXCEPT ![c] = s]
  /\ want' = [want EXCEPT ![c] = status]
  /\ seen' = [seen EXCEPT ![c] = sug[s]]
  /\ overlap' = IF Busy(s) = {} THEN overlap ELSE overlap \cup {s}
  /\ UNCHANGED <<sug, installs, taskVars, inst, staffVars, gone, faults, lost, reopened, revived>>

\* The status is written whatever the row holds by now.
WriteStatus(c) ==
  /\ pc[c] = "read"
  /\ \/ /\ Reaches(c) /\ SetSuggestion(of[c], want[c])
        /\ At(c, CASE want[c] = "aceptada_en_proceso" -> "written"
                   [] want[c] = "rechazada" -> "closing"
                   [] OTHER -> "done")
        /\ reopened' = IF want[c] = "sugerida" THEN reopened \cup {of[c]} ELSE reopened
     \/ Misses(c) /\ At(c, "done") /\ UNCHANGED <<sug, reopened>>
  /\ UNCHANGED <<installs, of, want, seen, taskVars, inst, staffVars, gone, lost, overlap, revived>>

\* An erp_install with something installable starts its own goroutine.
StartInstall(c) ==
  /\ pc[c] = "written" /\ of[c] \in installs
  /\ inst' = [inst EXCEPT ![c] = "running"]
  /\ At(c, "done")
  /\ UNCHANGED <<sug, installs, of, want, seen, taskVars, staffVars, gone, faults, lost, history>>

\* Everything else becomes a task, open or for the Creator that matching found.
FileTask(c) ==
  /\ pc[c] = "written" /\ of[c] \notin installs
  /\ \/ /\ Reaches(c) /\ At(c, "done")
        /\ \E w \in Staff \cup {Nobody} :
             /\ holder' = [holder EXCEPT ![c] = w]
             /\ task' = [task EXCEPT ![c] = IF w = Nobody THEN "abierta" ELSE "aceptada"]
     \/ Misses(c) /\ At(c, "rollback") /\ UNCHANGED taskVars
  /\ UNCHANGED <<sug, installs, of, want, seen, inst, staffVars, gone, lost, history>>

\* No task: the status read at first is written back, on the same context.
RollbackForgotten(c) ==
  /\ pc[c] = "rollback"
  /\ At(c, "done")
  /\ UNCHANGED <<sug, installs, of, want, seen, taskVars, inst, staffVars, gone, faults, lost, history>>

Rollback(c) ==
  /\ pc[c] = "rollback"
  /\ At(c, "done")
  /\ \/ Reaches(c) /\ SetSuggestion(of[c], seen[c]) /\ UNCHANGED lost
     \/ Misses(c) /\ UNCHANGED sug /\ lost' = lost \cup {of[c]}
  /\ UNCHANGED <<installs, of, want, seen, taskVars, inst, staffVars, gone, history>>

\* A rejection cancels the tasks still being worked on; an error is ignored.
CloseTasks(c) ==
  /\ pc[c] = "closing"
  /\ At(c, "done")
  /\ \/ /\ Reaches(c) /\ UNCHANGED lost
        /\ task' = [d \in Requests |-> IF of[d] = of[c] /\ task[d] \in Live
                                       THEN "cancelada" ELSE task[d]]
     \/ Misses(c) /\ UNCHANGED task /\ lost' = lost \cup {of[c]}
  /\ UNCHANGED <<sug, installs, of, want, seen, holder, inst, staffVars, gone, history>>

-----------------------------------------------------------------------------
(* installForSuggestion: the outcome is one write on a 20-minute context. *)

InstallEndsSilently(c) ==
  /\ inst[c] = "running"
  /\ inst' = [inst EXCEPT ![c] = "ended"]
  /\ UNCHANGED <<sug, installs, ownerVars, taskVars, staffVars, gone, faults, lost, history>>

InstallEnds(c) ==
  /\ inst[c] = "running"
  /\ inst' = [inst EXCEPT ![c] = "ended"]
  /\ \/ /\ \E status \in {"terminada", "sugerida"} : SetSuggestion(of[c], status)
        /\ UNCHANGED <<faults, lost>>
     \/ Fault /\ UNCHANGED sug /\ lost' = lost \cup {of[c]}
  /\ UNCHANGED <<installs, ownerVars, taskVars, staffVars, gone, history>>

-----------------------------------------------------------------------------
(* UpdateCreatorTask: a staff member reads the task, is allowed or refused,
   writes the row, and closes the suggestion of a delivered task. *)

Begin(w, c, status, who) ==
  /\ spc[w] = "idle" /\ task[c] # "none"
  /\ spc' = [spc EXCEPT ![w] = "read"]
  /\ on' = [on EXCEPT ![w] = c]
  /\ new' = [new EXCEPT ![w] = [status |-> status, holder |-> who]]
  /\ UNCHANGED <<sug, installs, ownerVars, taskVars, inst, gone, faults, lost, history>>

May(w, c) == holder[c] = w \/ w \in Admins

Aceptar(w, c)  == task[c] = "abierta" /\ Begin(w, c, "aceptada", w)
Entregar(w, c) == May(w, c) /\ Begin(w, c, "entregada", holder[c])
LiberarMistyped(w, c) == May(w, c) /\ Begin(w, c, "libre", Nobody)
Liberar(w, c)  == May(w, c) /\ Begin(w, c, "abierta", Nobody)

\* The row is written whatever it holds by now.
WriteTask(w) ==
  /\ spc[w] = "read"
  /\ \/ /\ task' = [task EXCEPT ![on[w]] = new[w].status]
        /\ holder' = [holder EXCEPT ![on[w]] = new[w].holder]
        /\ revived' = IF on[w] \in LiveTasks(of[on[w]]) THEN revived ELSE revived \cup {on[w]}
        /\ spc' = [spc EXCEPT ![w] = IF new[w].status = "entregada" THEN "delivered" ELSE "idle"]
        /\ UNCHANGED faults
     \/ Fault /\ spc' = [spc EXCEPT ![w] = "idle"] /\ UNCHANGED <<taskVars, revived>>
  /\ UNCHANGED <<sug, installs, ownerVars, inst, on, new, gone, lost, overlap, reopened>>

\* FinishSuggestion; its error is ignored.
FinishDelivered(w) ==
  /\ spc[w] = "delivered"
  /\ spc' = [spc EXCEPT ![w] = "idle"]
  /\ \/ SetSuggestion(of[on[w]], "terminada") /\ UNCHANGED <<faults, lost>>
     \/ Fault /\ UNCHANGED sug /\ lost' = lost \cup {of[on[w]]}
  /\ UNCHANGED <<installs, ownerVars, taskVars, inst, on, new, gone, history>>

-----------------------------------------------------------------------------
(* Clients that go away and restarts of the process. *)

Disconnect(c) ==
  /\ pc[c] \in InFlight /\ c \notin gone
  /\ Fault
  /\ gone' = gone \cup {c}
  /\ UNCHANGED <<sug, installs, ownerVars, taskVars, inst, staffVars, lost, history>>

Restart ==
  /\ Fault
  /\ lost' = lost \cup {of[c] : c \in {d \in Requests : pc[d] \in InFlight \/ inst[d] = "running"}}
                  \cup {of[on[w]] : w \in {x \in Staff : spc[x] = "delivered"}}
  /\ pc' = [c \in Requests |-> IF pc[c] = "idle" THEN "idle" ELSE "done"]
  /\ inst' = [c \in Requests |-> IF inst[c] = "running" THEN "ended" ELSE inst[c]]
  /\ spc' = [w \in Staff |-> "idle"]
  /\ UNCHANGED <<sug, installs, of, want, seen, taskVars, on, new, gone, history>>

-----------------------------------------------------------------------------

AnySuggestion == CHOOSE s \in Suggestions : TRUE
AnyRequest    == CHOOSE c \in Requests : TRUE

Init ==
  /\ sug = [s \in Suggestions |-> "sugerida"]
  /\ installs \in SUBSET Suggestions
  /\ pc = [c \in Requests |-> "idle"]
  /\ of = [c \in Requests |-> AnySuggestion]
  /\ want = [c \in Requests |-> "sugerida"]
  /\ seen = [c \in Requests |-> "sugerida"]
  /\ task = [c \in Requests |-> "none"]
  /\ holder = [c \in Requests |-> Nobody]
  /\ inst = [c \in Requests |-> "none"]
  /\ spc = [w \in Staff |-> "idle"]
  /\ on = [w \in Staff |-> AnyRequest]
  /\ new = [w \in Staff |-> [status |-> "none", holder |-> Nobody]]
  /\ gone = {}
  /\ faults = 0
  /\ lost = {}
  /\ overlap = {}
  /\ reopened = {}
  /\ revived = {}

\* One step of the goroutine of an owner's request.
RequestStep(c) == WriteStatus(c) \/ StartInstall(c) \/ FileTask(c) \/ Rollback(c) \/ CloseTasks(c)

\* One step of a staff member's request once it has read the task.
StaffStep(w) == WriteTask(w) \/ FinishDelivered(w)

Next ==
  \/ \E c \in Requests :
       \/ \E s \in Suggestions, status \in Statuses : Open(c, s, status)
       \/ RequestStep(c) \/ InstallEnds(c) \/ Disconnect(c)
  \/ \E w \in Staff :
       \/ \E c \in Requests : Aceptar(w, c) \/ Entregar(w, c) \/ Liberar(w, c)
       \/ StaffStep(w)
  \/ Restart

Spec == Init /\ [][Next]_vars

-----------------------------------------------------------------------------
(* What must hold. *)

\* The panel never shows "aceptada en proceso" for a suggestion nobody works
\* on: there is a live task, a running installation or a request or delivery
\* about to write. Whatever staff do with the task keeps it so. The exceptions
\* are suggestions a write about which was lost, and those whose owner sent
\* overlapping requests or put an accepted one back.
AcceptedHasWork ==
  \A s \in Suggestions \ (lost \cup Raced) :
    sug[s] = "aceptada_en_proceso" =>
      \/ LiveTasks(s) # {}
      \/ \E c \in Requests : of[c] = s /\ (pc[c] \in {"written", "rollback"} \/ inst[c] = "running")
      \/ \E w \in Staff : spc[w] = "delivered" /\ of[on[w]] = s

\* Once a rejection is through, no Creator keeps working on the suggestion,
\* unless a staff member's write brought a closed task back.
RejectedStopsWork ==
  \A s \in Suggestions \ (lost \cup Raced) :
    sug[s] = "rechazada" /\ Busy(s) = {} => LiveTasks(s) \subseteq revived

\* A suggestion turns into at most one task, and at most one installation runs
\* for it, unless its owner's requests overlapped or put it back.
WorkedOnOnce ==
  \A s \in Suggestions \ Raced :
    /\ Cardinality(TasksOf(s)) <= 1
    /\ Cardinality({c \in Requests : of[c] = s /\ inst[c] = "running"}) <= 1

\* The comment on the check in UpdateSuggestionStatus: accepting works only
\* from "sugerida", so a double click can't create two Creator tasks.
DoubleClickOneTask == \A s \in Suggestions \ reopened : Cardinality(TasksOf(s)) <= 1

\* Handlers and installations that have begun go on; nothing is promised about
\* owners, staff, clients or restarts.
FairSpec ==
  /\ Spec
  /\ \A c \in Requests : WF_vars(RequestStep(c)) /\ WF_vars(InstallEnds(c))
  /\ \A w \in Staff : WF_vars(StaffStep(w))

\* An installation the owner accepted ends as done or back in the list, however
\* requests interleave, unless its outcome was lost.
InstallationCloses ==
  \A s \in Suggestions :
    (s \in installs /\ sug[s] = "aceptada_en_proceso")
      ~> (sug[s] # "aceptada_en_proceso" \/ s \in lost)
=============================================================================
