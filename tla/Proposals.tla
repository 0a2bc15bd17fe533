----------------------------- MODULE Proposals ------------------------------
(***************************************************************************)
(* How computed proposals become suggestions of an account: the panel's    *)
(* POST /insights/:section, the owner's POST /suggestions and PUT          *)
(* /account/business-type, against the plan's monthly quota and the titles *)
(* already on the account.                                                 *)
(*                                                                         *)
(* A request is a goroutine and each of its statements one step; a         *)
(* goroutine that has answered is used again for the next request.  Of     *)
(* time, only its limits are modelled: a month that begins, a suggestion   *)
(* older than fourteen days.  The answer insights_runs keeps for ten       *)
(* minutes is no state here: the owner's refresh=1 is an analysis at any   *)
(* time.                                                                   *)
(***************************************************************************)
EXTENDS Integers, Sequences, FiniteSets

CONSTANTS
  Requests,    \* goroutines that serve the account
  Sections,    \* sections of the panel
  Titles,      \* titles of proposals
  Results,     \* what analyses may return: <<section, proposals>>
  TypeSetups,  \* the proposals of a change of business type
  Quota,       \* plan -> suggestions a month, -1 unlimited
  Base,        \* the plan whose quota an unknown plan gets
  Plans,       \* what accounts.plan may hold
  MaxStored    \* bound on suggestions

Proposal == [title : Titles, setup : BOOLEAN]

ASSUME ResultsAssumption ==
  /\ Results \subseteq Sections \X Seq(Proposal)
  /\ TypeSetups \subseteq {p \in Proposal : p.setup}

ASSUME QuotaAssumption ==
  /\ Base \in DOMAIN Quota
  /\ \A p \in DOMAIN Quota : Quota[p] \in Int

ASSUME BoundAssumption == MaxStored \in Nat

VARIABLES
  plan,    \* accounts.plan
  stored,  \* table suggestions, in the order of insertion
  req      \* the requests

vars == <<plan, stored, req>>

Suggestion == [title : Titles, setup : BOOLEAN, open : BOOLEAN, month : BOOLEAN, recent : BOOLEAN]

\* Where a request is, which endpoint it serves and the section it has yet to
\* analyse, the proposals of its analysis and the one it looks at, the limit
\* and the count it read, and whether it met the quota.  lap, slip and roll
\* are history: since its count another one filed an advice; since its look
\* its title was put on the account; since its count a month began.
Request ==
  [pc : {"idle", "count", "analyse", "check", "insert", "save"},
   serves : {"run", "create", "type"}, about : Sections \cup {"none"},
   result : Seq(Proposal), turn : Nat \ {0}, limit : Int, used : Nat, reached : BOOLEAN,
   lap : BOOLEAN, slip : BOOLEAN, roll : BOOLEAN]

Idle == [pc |-> "idle", serves |-> "run", about |-> "none", result |-> <<>>, turn |-> 1,
         limit |-> 0, used |-> 0, reached |-> FALSE, lap |-> FALSE, slip |-> FALSE, roll |-> FALSE]

TypeOK ==
  /\ plan \in Plans
  /\ stored \in Seq(Suggestion)
  /\ req \in [Requests -> Request]
  /\ \A r \in Requests : req[r].pc \in {"check", "insert"} => req[r].turn \in DOMAIN req[r].result

LimitOf(p) == IF p \in DOMAIN Quota THEN Quota[p] ELSE Quota[Base]

\* CountSuggestionsThisMonth: installing an ERP app is not counted.
CountedAll == {i \in DOMAIN stored : stored[i].month}
Counted    == {i \in DOMAIN stored : stored[i].month /\ ~stored[i].setup}

Current(r) == req[r].result[req[r].turn]

\* What a request takes for a suggestion it need not file: the panel and a
\* change of type also look at the last 14 days.
TakenOpen(r) == \E i \in DOMAIN stored : stored[i].title = Current(r).title /\ stored[i].open
TakenRecent(r) == \E i \in DOMAIN stored :
                    stored[i].title = Current(r).title /\ req[r].serves # "create" /\ stored[i].recent
Taken(r) == TakenOpen(r) \/ TakenRecent(r)

\* storeProposals lets a setup through; CreateSuggestion does not ask again.
Full(r) == /\ req[r].serves # "create" /\ ~Current(r).setup
           /\ req[r].limit >= 0 /\ req[r].used >= req[r].limit

-----------------------------------------------------------------------------
(* The requests. *)

End(r) == req' = [req EXCEPT ![r] = Idle]

\* GetAccountByID is the first statement that follows: the plan may change at
\* any time before it.
Start(r, k, s, q, label) ==
  /\ req[r].pc = "idle"
  /\ req' = [req EXCEPT ![r] = [Idle EXCEPT !.pc = label, !.serves = k, !.about = s, !.result = q,
                                            !.limit = LimitOf(plan)]]
  /\ UNCHANGED <<plan, stored>>

\* POST /insights/:section, whenever it analyses: with refresh=1 or no fresh
\* analysis of the section.
RunInsights(r, s) ==
  \E a \in Results :
    a[1] = s /\ Start(r, "run", "none", a[2], IF a[2] = <<>> THEN "save" ELSE "count")

\* POST /suggestions counts before it analyses.
CreateSuggestion(r, s) == Start(r, "create", s, <<>>, "count")

\* PUT /account/business-type, with an ERP connected.
SetBusinessType(r) == \E p \in TypeSetups : Start(r, "type", "none", <<p>>, "count")

\* CountSuggestionsThisMonth; an exhausted quota refuses the owner's request at once.
Count(r) ==
  /\ req[r].pc = "count"
  /\ LET n == Cardinality(Counted)
     IN IF req[r].serves = "create" /\ req[r].limit >= 0 /\ n >= req[r].limit
        THEN End(r)
        ELSE req' = [req EXCEPT ![r].used = n,
                                ![r].pc = IF req[r].serves = "create" THEN "analyse" ELSE "check"]
  /\ UNCHANGED <<plan, stored>>

Analyse(r) ==
  /\ req[r].pc = "analyse"
  /\ \E a \in Results :
       /\ a[1] = req[r].about
       /\ IF a[2] = <<>> THEN End(r)
          ELSE req' = [req EXCEPT ![r].result = a[2], ![r].about = "none", ![r].pc = "check"]
  /\ UNCHANGED <<plan, stored>>

\* After its last proposal only the panel has something left to do.
Close(r) ==
  IF req[r].serves = "run"
  THEN [req[r] EXCEPT !.pc = "save", !.turn = 1, !.used = 0, !.lap = FALSE, !.slip = FALSE] ELSE Idle

AdvancePast(r, n) ==
  IF req[r].turn <= Len(req[r].result)
  THEN [req[r] EXCEPT !.pc = "check", !.turn = @ + 1, !.used = n, !.slip = FALSE] ELSE Close(r)

AdvanceShort(r, n) ==
  IF req[r].turn + 1 < Len(req[r].result)
  THEN [req[r] EXCEPT !.pc = "check", !.turn = @ + 1, !.used = n, !.slip = FALSE] ELSE Close(r)

\* On to the next proposal, with n advices counted.
Advance(r, n) ==
  IF req[r].turn < Len(req[r].result)
  THEN [req[r] EXCEPT !.pc = "check", !.turn = @ + 1, !.used = n, !.slip = FALSE] ELSE Close(r)

\* Is the title on the account?  If not, does the quota leave room?
Check(r) ==
  /\ req[r].pc = "check"
  /\ \/ Taken(r) /\ req' = [req EXCEPT ![r] = Advance(r, req[r].used)]
     \/ ~Taken(r) /\ Full(r)
        /\ req' = [req EXCEPT ![r] = [Close(r) EXCEPT !.reached = (req[r].serves = "run")]]
     \/ ~Taken(r) /\ ~Full(r) /\ req' = [req EXCEPT ![r].pc = "insert"]
  /\ UNCHANGED <<plan, stored>>

Filed(p) == [title |-> p.title, setup |-> p.setup, open |-> TRUE, month |-> TRUE, recent |-> TRUE]

\* What another request x has not seen when p is put on the account: its title
\* if x is about to file it, and, where x already counted, its advice.
Missed(x, p, counted) ==
  [req[x] EXCEPT !.lap  = @ \/ req[x].pc \in counted,
                 !.slip = @ \/ (req[x].pc = "insert" /\ Current(x).title = p.title)]

Uncounted(p) == IF p.setup THEN {} ELSE {"analyse", "check", "insert"}

\* Where r is after filing its proposal, with n advices counted:
\* CreateSuggestion's own request files one and answers.
Done(r, n) == IF req[r].serves = "create" THEN Idle ELSE Advance(r, n)

InsertUncounted(r) ==
  /\ req[r].pc = "insert" /\ Len(stored) < MaxStored
  /\ stored' = Append(stored, Filed(Current(r)))
  /\ req' = [x \in Requests |-> IF x = r THEN Done(r, req[r].used)
                                ELSE Missed(x, Current(r), Uncounted(Current(r)))]
  /\ UNCHANGED plan

Insert(r) ==
  /\ req[r].pc = "insert" /\ Len(stored) < MaxStored
  /\ stored' = Append(stored, Filed(Current(r)))
  /\ req' = [x \in Requests |->
               IF x = r THEN Done(r, IF Current(r).setup THEN req[r].used ELSE req[r].used + 1)
               ELSE Missed(x, Current(r), Uncounted(Current(r)))]
  /\ UNCHANGED plan

\* The analysis is kept in insights_runs and answered; an error of this write
\* is ignored.
Save(r) ==
  /\ req[r].pc = "save"
  /\ End(r)
  /\ UNCHANGED <<plan, stored>>

\* A statement fails, or the client is gone: the request ends where it is.
Fail(r) ==
  /\ req[r].pc # "idle"
  /\ End(r)
  /\ UNCHANGED <<plan, stored>>

-----------------------------------------------------------------------------
(* The owner and the calendar. *)

\* PATCH /account/plan.
UpdatePlan(p) ==
  /\ p # plan
  /\ plan' = p
  /\ UNCHANGED <<stored, req>>

\* PATCH /suggestions/:id/status: any status but the acceptance can be written
\* over any other, so a closed suggestion can be pending again.
UpdateSuggestionStatus(i) ==
  /\ stored' = [stored EXCEPT ![i].open = ~@]
  /\ req' = [x \in Requests |-> Missed(x, stored[i], {})]
  /\ UNCHANGED plan

NewMonth ==
  /\ \E i \in DOMAIN stored : stored[i].month
  /\ stored' = [i \in DOMAIN stored |-> [stored[i] EXCEPT !.month = FALSE]]
  /\ req' = [x \in Requests |-> [req[x] EXCEPT !.roll =
               @ \/ (req[x].serves = "run" /\ req[x].pc \in {"check", "insert", "save"})]]
  /\ UNCHANGED plan

\* Fourteen days after it was filed, the older ones first.
Age(i) ==
  /\ stored[i].recent /\ \A j \in 1..(i - 1) : ~stored[j].recent
  /\ stored' = [stored EXCEPT ![i].recent = FALSE]
  /\ UNCHANGED <<plan, req>>

-----------------------------------------------------------------------------

Init ==
  /\ plan \in Plans
  /\ stored = <<>>
  /\ req = [r \in Requests |-> Idle]

Step(r) ==
  \/ \E s \in Sections : RunInsights(r, s) \/ CreateSuggestion(r, s)
  \/ SetBusinessType(r)
  \/ Count(r) \/ Analyse(r) \/ Check(r) \/ Insert(r) \/ Save(r) \/ Fail(r)

Environment ==
  \/ \E p \in Plans : UpdatePlan(p)
  \/ \E i \in DOMAIN stored : UpdateSuggestionStatus(i) \/ Age(i)
  \/ NewMonth

Next == (\E r \in Requests : Step(r)) \/ Environment

Spec == Init /\ [][Next]_vars

-----------------------------------------------------------------------------
(* Properties. *)

\* Request r files its proposal in this step.
Files(r) == req[r].pc = "insert" /\ req'[r].pc # "insert" /\ Len(stored') > Len(stored)

\* The advice the month holds: AndRho's own setup work is none.
Advices == {i \in DOMAIN stored : stored[i].month /\ ~stored[i].setup}

\* The count is taken once and every insertion trusts it: an advice goes
\* beyond the limit read only if another request filed one since that count.
QuotaNeedsARace ==
  [][\A r \in Requests :
       Files(r) /\ ~Current(r).setup /\ req[r].limit >= 0 /\ Cardinality(Advices) >= req[r].limit
       => req[r].lap]_vars

\* Once per title while open: a title that is pending is filed again only by a
\* request that looked before it became pending.
OneOpenPerTitle ==
  [][\A r \in Requests :
       Files(r) /\ (\E i \in DOMAIN stored : stored[i].title = Current(r).title /\ stored[i].open)
       => req[r].slip]_vars

\* The panel does not propose again what was filed in the last 14 days, even
\* when it was rejected: unless it looked before the other was filed.
NotAgainSoon ==
  [][\A r \in Requests :
       /\ Files(r) /\ req[r].serves # "create"
       /\ \E i \in DOMAIN stored : stored[i].title = Current(r).title /\ stored[i].recent
       => req[r].slip]_vars

\* An analysis kept for the panel without quota_reached left nothing unfiled,
\* whatever failed, was run again or was filed by others before.
AllFiled ==
  \A r \in Requests :
    req[r].pc = "save" /\ ~req[r].reached
    => \A k \in DOMAIN req[r].result :
         \E i \in DOMAIN stored : stored[i].title = req[r].result[k].title

\* quota_reached is said only when the month really holds the plan's number of
\* advices: AndRho's own setup work uses up nobody's quota.
ReachedIsTrue ==
  \A r \in Requests :
    req[r].reached => req[r].roll \/ Cardinality(Advices) >= req[r].limit

\* An app the analysis asks for is not lost behind an advice the quota refuses:
\* storeProposals stops at that advice.
SetupNeverWaits ==
  \A r \in Requests :
    req[r].reached => \A k \in DOMAIN req[r].result : ~req[r].result[k].setup

=============================================================================
