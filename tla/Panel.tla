-------------------------------- MODULE Panel --------------------------------
(***************************************************************************)
(* The panel of a business looks at a section (insights.Run): what it      *)
(* shows is computed from one view of the tracker, the ERP and R, and      *)
(* worded by Claude when there is one.                                     *)
(***************************************************************************)
EXTENDS Insights

CONSTANTS
  Views,     \* what the tracker, the ERP and R may return
  Sections,  \* sections of the panel
  Business,  \* types of business
  Replies    \* what Claude may answer, Silent among it

\* R answers with lists.
ASSUME ViewsAssumption ==
  \A v \in Views : \A analysis \in {v.stats.organic, v.stats.all} :
    /\ Len(analysis.models) \in Nat
    /\ \A n \in 1 .. Len(analysis.models) : Len(analysis.models[n].effects) \in Nat

VARIABLES
  view,   \* what they return
  shown   \* the proposals and who worded them, "nobody" before the analysis

panelVars == <<view, shown>>

NotShown == [by |-> "nobody", proposals |-> <<>>]

PanelInit == view \in Views /\ shown = NotShown

Run(section, business, reply) ==
  /\ shown = NotShown
  /\ shown' = [by |-> IF reply = Silent THEN "rules" ELSE "claude",
               proposals |-> RunSection(section, business, view, reply)]
  /\ UNCHANGED view

PanelNext == \E s \in Sections, b \in Business, r \in Replies : Run(s, b, r)

-----------------------------------------------------------------------------

\* What a proposal is about: a page that people from Google leave and a page
\* that people leave are one page.
Subject(title) == IF title[1] \in {"google_a", "mejora"} THEN <<"page", title[2]>> ELSE title

\* The rules never advise twice on one subject, in whichever of R's analyses
\* they find it: storeProposals files by title, and would file both.  And an
\* app is proposed alone, so that no quota is met before it, and only when the
\* ERP, if it answers, lacks it, whatever Claude says.
PanelStands ==
  LET p == shown.proposals IN
  /\ shown.by = "rules" => \A i, j \in DOMAIN p : Subject(p[i].title) = Subject(p[j].title) => i = j
  /\ \A i \in DOMAIN p :
       IsSetup(p[i]) => /\ \A j \in DOMAIN p : IsSetup(p[j])
                        /\ view.erp = "up" => p[i].action.what \notin view.apps
=============================================================================
