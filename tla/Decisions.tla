----------------------------- MODULE Decisions ------------------------------
(***************************************************************************)
(* What the API decides by itself, each in a setting of its own: the       *)
(* suggestion of the signup, the Creator who gets a task, what an import   *)
(* writes and what the panel proposes.  They share no state, so a          *)
(* behaviour is about one.                                                 *)
(***************************************************************************)
EXTENDS Signup, Matching, Import, Panel

VARIABLE topic

vars == <<topic, form, offer, creator, chosen, kind, file, erp, at, clean, full, view, shown>>

\* A setting that a behaviour is not about.
NobodyPicks == chosen = "none" /\ creator = [c \in Creators |->
  [skills |-> {}, available |-> 10, open |-> 0, delivered |-> 0, onTime |-> 0, knows |-> FALSE]]
NothingImported == kind = "products" /\ file = <<>> /\ erp = <<>> /\ at = 0 /\ clean = TRUE /\ full = 0
NothingShown == view = "none" /\ shown = NotShown

Init ==
  \/ topic = "signup" /\ SignupInit /\ NobodyPicks /\ NothingImported /\ NothingShown
  \/ topic = "matching" /\ SignupInit /\ MatchingInit /\ NothingImported /\ NothingShown
  \/ topic = "import" /\ SignupInit /\ NobodyPicks /\ ImportInit /\ NothingShown
  \/ topic = "panel" /\ SignupInit /\ NobodyPicks /\ NothingImported /\ PanelInit

Next ==
  /\ UNCHANGED topic
  /\ \/ topic = "signup" /\ SignupNext /\ UNCHANGED <<matchingVars, importVars, panelVars>>
     \/ topic = "matching" /\ MatchingNext /\ UNCHANGED <<signupVars, importVars, panelVars>>
     \/ topic = "import" /\ ImportNext /\ UNCHANGED <<signupVars, matchingVars, panelVars>>
     \/ topic = "panel" /\ PanelNext /\ UNCHANGED <<signupVars, matchingVars, importVars>>

Spec == Init /\ [][Next]_vars
=============================================================================
