# Verification of the AndRho API

AndRho API is a Go HTTP service (Gin, one goroutine per request) over Postgres
(`pgxpool`), Redis, the web tracker's database, a VPS reached over SSH, Odoo over
JSON-RPC, and a few external APIs. The code uses **no database transactions**
(`src/internal/handlers/signup.go:33-39` says why): a handler is a sequence of
statements, each atomic, and anything may happen between two of them. Some
handlers also leave a goroutine behind that outlives the request, and one loop
runs for as long as the process does. What can go wrong is therefore mostly in
the *order* of statements of several goroutines, in the statements that fail, and
in what a restart or a deadline interrupts. That is what these modules are about.

## Contents

| File | What it is |
| --- | --- |
| `Provisioning.tla` | provisioning jobs: signup, retry loop, admin requests, the VPS, what they leave behind |
| `ProvisioningProofs.tla` | theorems about it: types, who holds which job, the access a finished one left, its websites |
| `ProvisioningRetryProofs.tla` | theorems about its retries, the jobs nobody forgets and the stored credentials, on top of these |
| `SuggestionWork.tla` | suggestions, the Creator tasks and installations they become |
| `SuggestionWorkProofs.tla` | theorems about it |
| `Roster.tla` | what accounts and teams promise, seen from outside |
| `Team.tla` | accounts, users and sessions in detail; implements `Roster` |
| `TeamProofs.tla` | theorems about it, the refinement included |
| `Proposals.tla` | how computed proposals become suggestions, under the plan's quota |
| `WebStats.tla`, `Insights.tla` | what an analysis proposes (operators); the inputs of `Proposals` |
| `MCProposals.tla`, `ProposalsProofs.tla` | an instance fed by `Insights`; theorems about any |
| `Redis.tla`, `RateLimit.tla`, `ProgressCache.tla` | Redis and its clock; the limits and the cached progress over it |
| `PublicEdge.tla`, `PublicEdgeProofs.tla` | their composition; theorems about it |
| `ErpAccess.tla`, `ErpAccessProofs.tla` | the client kept of the account's Odoo, and overlapping imports; theorems |
| `Panel.tla` | a look at a section: what is shown of an analysis (operators of `Insights`) |
| `Recommend.tla`, `Analyzer.tla`, `Signup.tla` | from the signup's form to its three packages |
| `Matching.tla`, `Import.tla` | which Creator gets a task; what an import writes |
| `Decisions.tla`, `MCDecisions.tla` | `Signup`, `Matching`, `Import` and `Panel` as one specification, and its instance |
| `DecisionsProofs.tla` | theorems about it |
| `Lists.tla` | appending under a condition, keeping some of a list, each once: operators on lists that the decisions share |
| `*.cfg` | the TLC runs, `<module>_<run>.cfg` or `<module>.cfg` |
| `PROJECT.json` | components, runs, mutants, the definition-to-line map, findings, hazards, theorems |

`tlc -config Provisioning_safety.cfg Provisioning` runs a check, `tlapm
ProvisioningProofs.tla` the proofs.

## Inventory

| Component | State | Operations | Hard because |
| --- | --- | --- | --- |
| **ERP provisioning jobs** (`provision`, `db/provisioning.go`, `handlers/admin_erp.go`, `handlers/register.go`, `vps`) | `provisioning_jobs`, `odoo_connections`, `account_sites`, website tasks; scripts on the VPS; goroutines | `Plan`, `RunAll`, `Run`, `RetryLoop`, `AdminProvisionERP`, `ConnectERP` | three kinds of goroutine run rows of one table without locks; a 20-minute context; SSH links that break while the script goes on; restarts |
| **Suggestions and Creator tasks** (`handlers/suggestions.go`, `accept.go`, `staff.go`) | `suggestions.status`, `creator_tasks`, running installations | PATCH on a suggestion, accept, reject, install, the staff's aceptar / entregar / liberar | read-check-write in separate statements; compensation of a failed insert; clients that go away |
| **Suggestion quota and stored proposals** (`handlers/insights.go`, `account.go`, `suggestions.go`) | `suggestions`, `insights_runs`, the month's count | `CreateSuggestion`, `RunInsights`, `storeProposals`, `SetBusinessType` | count-then-insert, title-then-insert |
| **Accounts, sessions and team** (`signup.go`, `login.go`, `refresh.go`, `logout.go`, `users.go`, `auth`) | `accounts`, `users`, `refresh_tokens`, the tracker's sites | signup and its compensation, invitations, roles, removal, token rotation, `BackfillOwnerUsers` | multi-statement signup, cascades, a boot-time repair |
| **Insights** (`insights`) | none | `Run`: sections, Inicio, Claude's wording | which proposals survive selection, and in which order |
| **Matching** (`matching`) | none | `Score`, `Pick`, `Candidates`, `Assign` | ranking with ties and loads read earlier |
| **Rate limits** (`middleware/ratelimit.go`) | counters in Redis | `LoginRateLimit`, `RateLimit` | INCR and EXPIRE are two commands; fails open |
| **Progress cache** (`handlers/progress.go`, `progress`) | an answer and its time | `Progress`, `Fetch` | stale answers, concurrent fills |
| **ERP client cache** (`handlers/erp.go`, `odoo`) | one client per account in memory | `odooFor`, `erp`, `ConnectERP` | the map and the row change separately |
| **Articles** | `articles` | create, edit, publish | slugs read before the insert |
| **ETL import** (`etl`) | rows sent to Odoo | `Transform`, `Load` | idempotence, amounts |
| **Analyzer, recommendations, business plans** (`analyzer`, `recommend`, `business`) | none | pure selection functions | limits, duplicates, order |
| Sites, R, AI, waitlist, presence, configuration, router | none of their own, or single rows | single statements and external calls | not modelled, see below |

How they interact. `Register` plans jobs and starts `RunAll` in a goroutine;
`RetryLoop` and `AdminProvisionERP` run rows of the same table; a website job
files a Creator task through `matching.Assign`; delivering that task publishes
the account's site (`staff.go`). Accepting a suggestion files a Creator task the
same way, or starts an installation on the account's Odoo; delivering or ending
moves the suggestion on; what accepts or installs was filed by `storeProposals`
from an analysis of `insights`. The ERP handlers, the imports and the
installations read the connection that provisioning (or the owner) stored,
through a client kept per account. The rate limits and the cached progress share
one Redis.

What makes each correct:

- *Provisioning*: a job reported done left its access; no two automatic runs work
  on one job; the stored credentials are the ones the VPS last set; retries are
  bounded; no job is forgotten without a lost write to blame; Creators get one
  task per website; a delivered site stays public; waiting jobs are retried.
- *Suggestions*: an accepted suggestion is being worked on, a rejected one is not,
  one suggestion becomes one piece of work, an installation comes to an end.
- *Quota*: an advice goes beyond the plan's number only by a race, a title is pending
  once, nothing of an analysis is lost, and setup work waits for no quota.
- *Accounts and team*: each account has exactly one owner once a signup or the
  next boot is over, a removed or invited member has no session, an
  answered signup is never undone.
- *Rate limits*: who is refused is admitted again; a counter is left without an
  expiry only by a lost command. *Progress*: GitHub is asked only when no copy is
  fresh, and every visitor is answered. *ERP*: the client kept is the row's unless
  a race or provisioning says otherwise.
- *Decisions*: the signup's packages are ones it accepts and hold what was asked
  for; asking for more never shrinks the plan; the busier of two equal Creators is
  not picked; importing a file again ends with all of it there and adds nothing; the
  panel does not advise twice on one subject nor propose an app the ERP has.

`PROJECT.json` lists every hazard at its line with the properties that cover it,
or why none does.

## Provisioning

One account is a client; each admin request is used once. Every runner (signup
goroutine, named by its account; admin request; the retry loop) has a program
point `pc`, the list `todo` it read, the job `cur` it is on and, after the
script, the credentials `cred` it printed.

| Model | Code |
| --- | --- |
| `job` | the rows of `provisioning_jobs`, in creation order; `Kinds`, `Statuses` as in `provision.go` |
| `conn`, `site`, `siteTasks` | `odoo_connections`, `account_sites.status`, website rows of `creator_tasks` |
| `vps` | how often the VPS changed an account's password and secret; credentials are numbered by it |
| `stray` | scripts that survived their link, their deadline or the process |
| `SignupPlan`, `SignupRun`, `SignupFails` | `Register`: `Plan`, then the token and `RunAll`, or a 500 that starts nothing |
| `WaitForVPS` ... `FinishFailed`, `EndRun` | `Run` and `RunAll`, one action per statement or remote call |
| `Tick`, `SkipJob` | a pass of `RetryLoop` reads at most `RetryBatch` waiting rows, drops those out of tries |
| `AdminOpens`, `AdminLists`, `AdminRuns` | the two 409 checks of `AdminProvisionERP` and the start of `RunAll` |
| `ConnectERP`, `DeliverSite` | the owner's own Odoo; a Creator's delivery of the website |
| `Expire`, `LinkLost`, `Restart`, `StrayEnds` | the 20 minutes, SSH, a deploy or crash, a script nobody listens to |

`faults` bounds restarts, deadlines, lost links and failed statements together.
`lost`, `dup` and `tries` are history: jobs whose outcome could not be written,
accounts provisioned over another run, and runs nobody asked for.

Progress percentages, the event log, the plan's modules and the text of errors
are left out. `Plan`'s inserts are one step: when one of them fails, `Register`
deletes the account and its rows go with it.

| Run | Instance | Shows |
| --- | --- | --- |
| `provisioning_safety` | 1 account, 1 admin, 2 jobs, 2 tries, batch 3, 1 fault; 615 904 states | eight safety properties |
| `provisioning_liveness` | same, no fault, batch 2, fair | every planned job runs, every waiting job is retried |
| `provisioning_twice` | 2 admin requests | *violated*: two requests pass the 409 checks and provision twice |
| `provisioning_starved` | 2 accounts, batch 1, fair | *violated*: given-up jobs fill the batch and starve the others |

Why the bounds are enough: a job has no state that grows but `attempts`, whose
limit is reached at 2; jobs of different accounts share only the loop's batch,
which the last run exercises; two jobs and three runners are enough for every
pair of runners to meet on one job, an ERP and a website, before and after each
other; one fault makes each failure happen at each point. More faults are
covered by the proofs for the properties proved.

Two properties tell apart what the code promises and what it does not. A run
that cannot write its outcome (`lost`) leaves an `en_proceso` or `pendiente` row
that nobody retries; the code accepts this. An admin may start a second
provisioning (`dup`); the code says it does not.

`FairSpec` is weak fairness of each goroutine's steps (`RunStep`), of the signup
handler after `Plan` and of the loop's tick: the Go scheduler runs every
goroutine, `time.Ticker` ticks, statements return. `RunStep` includes the end of
the script, so *scripts end* is an assumption: the loop's context has no
deadline, and a script that hangs does stop the loop (see the hazards). Nothing is
assumed of admins, owners, Creators, deadlines or restarts.

## SuggestionWork

An owner's PATCH request is a goroutine that reads the suggestion's status
(`Open`), compares it with the one it wants (`Allowed`), writes, and then starts
an installation, files a task, or cancels the tasks. A request files at most one
task and starts at most one installation, so `task`, `holder` and `inst` are
indexed by the request. A staff member's request reads a task (`Aceptar`,
`Entregar`, `Liberar`), writes the row it computed (`WriteTask`) and, for a
delivery, finishes the suggestion (`FinishDelivered`).

| Model | Code |
| --- | --- |
| `sug`, `task`, `holder` | `suggestions.status`, `creator_tasks.status`, `creator_id` |
| `Open`, `WriteStatus` | `UpdateSuggestionStatus`: first read and checks; the unconditional UPDATE |
| `StartInstall`, `FileTask`, `Rollback` | `acceptSuggestion`, and the write-back when it fails |
| `CloseTasks` | `closeSuggestionTasks` |
| `InstallEnds` | the outcome of `installForSuggestion` |
| `Aceptar`, `Entregar`, `Liberar`, `WriteTask`, `FinishDelivered` | `UpdateCreatorTask` |
| `Disconnect`, `Restart` | the request's context is cancelled; the process ends |

Matching is any choice of holder, `Nobody` included. `overlap`, `reopened`,
`revived` and `lost` are history: suggestions with overlapping requests, put back
to "sugerida" by their owner, tasks a staff write brought back, and suggestions a
write about which was lost. The properties hold outside them, and the second run
shows that one of them is not the code's intention.

| Run | Instance | Shows |
| --- | --- | --- |
| `suggestion_work` | 1 suggestion, 2 requests, a Creator, an admin, 1 fault, fair; 277 642 states | `AcceptedHasWork`, `RejectedStopsWork`, `WorkedOnOnce`, `InstallationCloses` |
| `suggestion_doubleclick` | 2 requests, no fault | *violated*: a double click files two tasks |

Suggestions do not interact, so one is enough; two requests and two staff members
interleave in every pair (three requests were checked as well and pass).
`CHECK_DEADLOCK FALSE`: requests are used once, and when all are, the system
rests. Fairness: a handler that began goes on, an installation ends (it has a
20-minute context); nothing about owners, staff, clients or restarts.

## Team and Roster

`Roster` is the abstract specification: an account has members and may have been
announced (its signup answered with success); its owner is the first to join, people
join and leave, and only an account that was not announced is dissolved. `Team` is
the code: every request is a goroutine with a program point, and every statement an
action. Rows are named by the request that inserts them: an account and its owner
by the signup, an invited user by the invitation, a refresh token by the request it
answers.

| Model | Code |
| --- | --- |
| `acct`, `acctMail` | `accounts`, unique by email |
| `user`, `home`, `mail`, `role` | `users`: the row and whether it has a password, its account, its email (unique over all teams), its role |
| `token`, `claimed`, `access` | `refresh_tokens`; the role written in the access token; access tokens not expired |
| `site` | the tracker's `sites` |
| `CreateAccount`, `CreateOwner`, `Undo`, `RegisterSite` | `createAccountWithOwner` |
| `SaveSetup`, `AnswerSignup` | what `Register` adds; the tokens and the answer of either |
| `Login`, `AcceptInvite`, `SetPassword`, `Issue` | the two ways in, ending in `issueTokenPair` |
| `Refresh`, `ReadMember`, `Rotate`, `Logout`, `AccessExpires` | rotation and the end of sessions |
| `InviteUser`, `Manage`, `WriteMember` | `InviteUser`; the checks and the write of `UpdateUserRole` and `RemoveUser` |
| `ReadUnowned`, `FillOwner`, `Serve`, `Restart` | `main`: `BackfillOwnerUsers`, then requests |
| `Disconnect` | a client goes away, and the signup's context is cancelled |

A manager's right is the role in the access token, not the one in the table, so a
demoted or removed manager goes on until the token expires: the model has this, and
the properties hold in spite of it. Requests other than signups may stop anywhere,
which stands for their failures as well; a signup's failures are actions because
they undo things. `Init` is the first start of this version over any accounts that
are older than the users table. `answered` and `lost` are history: the signups
answered with success, and those that could not delete what they had made.

Assumptions: one process; a statement that reports an error had no effect (a lost
acknowledgement of a committed insert would be a different fault); a user id belongs
to one row.

| Run | Instance | Shows |
| --- | --- | --- |
| `team_safety` | 2 accounts, 1 invitation, 1 login, 1 manager, 2 emails, 1 fault; 356 960 states | one owner per team, ownerless accounts are explained, sessions are members', an answered signup is whole, starts repair, `Team` implements `Roster` |
| `team_backfill` | 2 accounts, 1 invitation, 1 fault | *violated*: `BackfillOwnerUsers` skips an account |

Two accounts can be an old one and a new one, or two teams of which one invites the
other's email; one invited user is enough to be promoted, removed and logged in
while a manager acts; one fault puts a failure or a restart at each point (one
account with two logins was checked as well and passes). The theorems lift the
bounds of `team_safety`. `CHECK_DEADLOCK FALSE`: requests are used
once. There is no liveness here: every request ends with its own statements, and
nothing runs in the background.

## Proposals and Insights

The panel's `POST /insights/:section`, the owner's `POST /suggestions` and `PUT
/account/business-type` end in the same inserts. A request is a goroutine; each
statement is a step; a goroutine that answered serves the next request.

| Model | Code |
| --- | --- |
| `plan`, `stored` | `accounts.plan`; `suggestions`: title, setup or advice, pending, of this month, of the last 14 days |
| `RunInsights`, `CreateSuggestion`, `SetBusinessType` | the first statements of the three handlers |
| `Count`, `Analyse` | `CountSuggestionsThisMonth`; `insights.Run`, which `CreateSuggestion` calls after its count |
| `Check`, `Insert` | one turn of `storeProposals`: title taken, quota met, insert, `used` |
| `Save`, `Fail` | the analysis kept and answered; a statement fails or the client leaves |
| `UpdatePlan`, `UpdateSuggestionStatus`, `NewMonth`, `Age` | what changes meanwhile |

`lap`, `slip` and `roll` are history: since its count another request filed an
advice, since its look its title was put on the account, since its count a month
began. They say which races excuse what.

`Insights` computes what an analysis proposes: each section from a view of the
tracker, the ERP and R (`WebStats` for what R's models say), `Inicio` from the
three sections its kind of business puts first, and `Translated` what Claude's
wording may change. A number is kept only where a threshold reads it. The instance
takes the proposals of a service business's Inicio from it, over the apps an ERP
may have, so what `Proposals` files is what the code computes.

| Run | Instance | Shows |
| --- | --- | --- |
| `proposals_quota` | 2 requests, 3 titles of Inicio and a change of type, quotas 1 and none, 2 stored suggestions; 2 214 420 states | `QuotaNeedsARace`, `OneOpenPerTitle`, `NotAgainSoon`, `AllFiled`, `ReachedIsTrue`, `SetupNeverWaits` |

Two requests make every pair of the three endpoints overlap; one quota of 1 meets
"room", "full" and "over", and two stored suggestions are one more than it. The
theorems lift the bounds; `SetupNeverWaits` is proved for analyses that do not mix
setups and advices (`SetupsAlone`), and `DecisionsProofs!Analyses_SetupsAlone` that
those of `Insights` never do: a section without its app has no data, Inicio tells
only sections with data, and so no section proposes an advice before a setup. If
`SetupNeverWaits` broke, `storeProposals`, which stops at the first advice over the
quota, would never file the setup. `CHECK_DEADLOCK FALSE`: the bound on
`stored` stops requests that would insert.

## PublicEdge

One API process, one Redis, one clock. `Redis` is reachable or not; a command
sent meanwhile fails. A tick makes keys expire.

| Model | Code |
| --- | --- |
| `counter`, `attempt` | the keys `RateLimit` and `LoginRateLimit` count in; requests between their commands |
| `Incr`, `Expire`, `FailOpen`, `LoseReply`, `LoseExpire` | the two commands and how each may fail; the client library sends an `INCR` whose reply was lost again |
| `fresh`, `stale`, `holder` | the two copies in Redis; the mutex `progressFetch` |
| `Come`, `Lock`, `Look`, `Fetch`, `Store`, `Keep`, `Fallback`, `Answer` | `Progress` and its two reads of the copy around the mutex |
| `RunLate` | the 25 seconds of a request end, wherever it is, also while it waits for the mutex |

Of a counter only what `Max` tells apart is kept (`Max + 1` stands for more). Any
number of lost replies stands for the library's three tries.

| Run | Instance | Shows |
| --- | --- | --- |
| `public_edge` | 2 requests on 1 key, maximum 2, window 2 ticks; 2 visitors, copies of 1 and 2 ticks; fair; 84 864 states | `AsksOnlyWhenStale`, `ForeverNeedsALoss`, `Reopens`, `EveryVisitAnswered` |

Two requests are enough for one to come between the other's `INCR` and `EXPIRE`,
and a window of two ticks for a key to be renewed or not half-way; two visitors
for one to wait while the other asks. Keys do not interact. Fairness: time passes
(`Tick`), a command is answered or times out (`Decide`, `Work`), and Go's mutex,
which hands itself to its oldest waiter after a millisecond, is strongly fair
(`Lock`). Nothing is assumed of arrivals, outages, lost replies or restarts.

## ErpAccess

The row of `odoo_connections`, the client of it each process keeps in a `sync.Map`,
and who writes which. Provisioning's `SaveOdooConnection` writes only the row; the
owner's `ConnectERP` writes the row and then the client; a request without a client
reads the row and then stores one; a rejected login or an installed app forgets it.

| Model | Code |
| --- | --- |
| `conn`, `cached` | the row; the client in `odooClients` |
| `takes`, `copies` | whether each Odoo still takes the login; objects the search of each record finds |
| `Ask`, `ReadRow`, `KeepClient`, `Call`, `Install` | `odooFor`, a section's calls, `installForSuggestion` |
| `Connect`, `Save`, `Store` | `ConnectERP` |
| `Search`, `Create`, `SkipRecord` | `Load`, record by record; a create that fails may have had its effect |
| `Provision`, `Revoke`, `Restart` | provisioning, a password changed in Odoo, a deploy |

| Run | Instance | Shows |
| --- | --- | --- |
| `erp_access` | 2 requests, 2 connections, 2 records, 2 copies; 1 102 104 states | `BehindNeedsARace`, `CopyNeedsARace` |

Two requests are enough to store clients in either order or to import the same
file at once; two connections for the panel to be on the other one. The theorems
lift the bounds. Deadlock is checked.

## Decisions

What the API decides by computing, in four settings that share nothing, so that a
behaviour of `Decisions` is about one of them.

`Signup`: a form filled in answer by answer and the three packages `POST
/analyzer/suggest` answers with. `Sanitize` drops what is not on a list;
`Recommend` scores the plans; `RuleNeeds` orders the modules; with Claude, `Blend`
merges its ranking and the rules', and what neither the rules' upper half nor the
owner asked for goes. Claude's answer is an input and may name anything, in any
order, twice. `Accepted` and `Taken` are `Register`'s checks.

`Matching`: the row `Candidates` reads of each Creator, while tasks are filed,
delivered in time or late, and taken for others. The score is an exact fraction
rounded to hundredths as the code rounds it. `Assign` reads and the caller inserts
later; ties that the code leaves to the order of a query are left open.

`Import`: `Transform` keeps the good rows, a later row replacing an earlier one with
its key; `Load` finds by code, email or name and writes or creates, with records
that fail before or after their effect and imports that stop half-way. The same
file is imported over and over.

`Panel`: what a section shows of a view of the tracker, the ERP and R, worded by
Claude or not. `WebStats` turns R's effects, pairs, cells and trends into findings and
proposals, under the caps and the `seen` keys of `webstats.go`; two analyses (organic
visits, all visits) may find the same page. `PanelStands` asks that the rules never
advise twice on one subject, and that an app is proposed alone and only when the ERP
lacks it, whatever Claude says.

| Run | Instance | Shows |
| --- | --- | --- |
| `decisions` | forms with up to 3 areas of 3, 6 other answers, 4 answers of Claude; 2 Creators, up to 5 open tasks and 1 delivered; 584 files of up to 3 rows over 3 Odoos; 659 views, 6 sections, 3 kinds of business, 2 answers of Claude; 183 578 states | `OffersStand`, `PanelStands`, `AskingMoreWidens`, `PickSparesTheBusier`, `ImportStands` |

Loads count up to four tasks, so five show what happens beyond; a plan's limit and
its blended list meet at three areas; three rows are what it takes for
one to find by name what another renames; two analyses of up to two models with up to
two effects let a page be found four times. The theorems lift the bounds: any form,
description and answer of Claude, any file and Odoo, any number of Creators and
tasks, any view. `CHECK_DEADLOCK FALSE`: an offer is the
end of a signup, and a file without good rows imports nothing.

`ImportStands` asks for *two* complete imports: a row without a code finds by name a
product that a later row, with its code, renames; the first import loses that row
and the second creates it. What it says holds from then on.

What is assumed of the inputs is named in the modules and evaluated by TLC:
`FormAssumption` and `ClaudeAssumption` (the JSON decoded into Go's types),
`MatchingAssumption` (the score of a presence is between one and ten tenths, as
`availabilityScore` has it; bounds are numbers), `ImportAssumption` (files and Odoos are lists of rows; lower
case of lower case is itself), `ViewsAssumption` (models and effects are lists), and
`OneObjectPerId`: an Odoo holds each code, or each email, once. Odoo does not enforce
it, and `ImportStands` needs it: with two products of one code, TLC finds a file in
which a row without a code and a row with it go on exchanging names, so that one of
them is missing after the second import as well.

## What is proved

For every value of the constants, under the assumptions named in the modules
(runners are distinct, bounds are numbers, admins are staff, `Nobody` is not):

| Theorem | Statement | Argument |
| --- | --- | --- |
| `ProvisioningProofs!TypeCorrect` | `[]TypeOK` | inductive as it stands; one step per action |
| `ProvisioningProofs!NoOverlap` | `[]AutomationNeverOverlaps` | `OverlapInv`: what a goroutine holds are rows that exist (`HoldsRows`), and the unfinished jobs of a signup's goroutine are in no status the loop or an admin takes, and held by nobody else (`SignupOwns`). The property alone is not inductive: from a state where the loop's list already has a job of the signup's, both would go on to run it |
| `ProvisioningProofs!DoneMeansAccess` | `[]DoneHasAccess` | `AccessInv` adds that a run at `saved` has stored its access; no step removes a connection |
| `ProvisioningProofs!OneTaskPerSite`, `PublicSiteStays` | `[]SiteTaskOnce`, `PublishedStays` | `SiteInv`: an account has one website job (`OneSite`), admins hold ERP jobs only (`AdminsErp`), so by `OverlapInv` one goroutine at a time builds the site; a job somebody still has to run is not `en_proceso` (`NotBuilding`), and one whose task is filed is, or is about to be (`FiledOnce`): the run that would file a second task or put the page back cannot have begun. A site is public only after a task of the account was filed (`PublicFiled`) |
| `ProvisioningRetryProofs!RetriesBounded` | `[]RetryBudget` | `BudgetInv`, a ledger: every automatic run of a job is an attempt in its row, a fault, or still going on, and one whose context is over is a fault already (`Ledger`); what an automatic goroutine has on its list has a try left (`HasRoom`), since the loop reads the attempts after the last automatic run of the job has ended |
| `ProvisioningRetryProofs!NobodyForgets` | `[]NoOrphanJob` | `NoneLeft`: every job is settled or held by a run, a signup's list or an admin's request. The loop's list is left out on purpose: what is on it is in a status the loop reads again; an admin's request has one job and none once it runs it (`AdminList`) |
| `ProvisioningRetryProofs!CredentialsStayCurrent` | `[]CredentialsCurrent` | `OneSetter`: while an account is not provisioned over another run, one run or one stray script is setting its credentials, none once they are stored, and what a run printed is what the VPS has. The property alone is not inductive: it does not say that no script is left to change what was stored |
| `SuggestionWorkProofs!TypeCorrect` | `[]TypeOK` | inductive as it stands |
| `SuggestionWorkProofs!AcceptedIsWorkedOn` | `[]AcceptedHasWork` | `WorkInv`: a request whose suggestion is un-raced is alone on it (`Alone`), one that has not finished has made nothing yet and one that accepted saw the suggestion pending (`Fresh`), so a rollback puts it back; staff move tasks only among live and delivered ones (`OnTasks`); while tasks are being cancelled the suggestion is rejected (`ClosingRejects`) |
| `SuggestionWorkProofs!RejectionStopsWork`, `OneTaskOneInstall` | `[]RejectedStopsWork`, `[]WorkedOnOnce` | `OutcomeInv` beside `WorkInv`: whoever has written its acceptance and not yet started the work left the suggestion accepted (`WritingAccepts`), so nothing starts on a rejected one (`RejectedStops`); two requests that made work for one suggestion without a race are the same (`OneHas`), because one that accepts finds it pending and so without work (`AcceptsPending`), and a request makes a task or an installation (`EitherOr`) |
| `TeamProofs!TypeCorrect` | `[]TypeOK` | inductive as it stands |
| `TeamProofs!AlwaysOneOwner` | `[]OneOwner` | `TeamInv`: the owner of an account is the user its signup or the backfill named after it, an invited user never is an owner (`Owners`), and a manager's request past its checks is not about an owner and gives a lower role (`Managed`); users belong to existing accounts (`Keys`) |
| `TeamProofs!AnsweredStays` | `[]AnsweredIsWhole` | `TeamInv`: a signup past its owner has one (`Signups`), and once answered has its site and is done (`Whole`) |
| `TeamProofs!OwnerlessIsExplained` | `[]OwnerlessExplained` | `OwnerlessInv`: accounts' emails are distinct (`DistinctMails`), and an account without an owner is being signed up, lost, or waiting for the first start, during which nobody else can have its email (`Explained`, `Awaiting`); the property alone says nothing of a start, from which the service comes up |
| `TeamProofs!BackfillLeavesTaken` | `BackfillRepairs` | `RepairInv`: until the service is up no removal is under way (`Quiet`), so an email that was taken when an account was passed over still is (`SkipsTaken`) |
| `TeamProofs!SessionsHeldByMembers` | `[]SessionsAreMembers` | `SessionInv` adds what a login knows of its user at each point (`LoginsKnow`): before its token is inserted the user has a password or is gone, and a row never comes back |
| `TeamProofs!TeamImplementsRoster` | `ImplementsRoster` | `Init` maps to `Roster`'s, and under `TeamInv` every step to one of its steps or a stutter |
| `ProposalsProofs!TypeCorrect` | `[]TypeOK` | `Pointed`: a request that has yet to count is at its first proposal and has one |
| `ProposalsProofs!Quota_NeedsARace`, `Open_OncePerTitle`, `Panel_NotAgainSoon`, `All_Filed`, `Reached_IsTrue` | `QuotaNeedsARace`, `OneOpenPerTitle`, `NotAgainSoon`, `[]AllFiled`, `[]ReachedIsTrue` | one invariant, `ProposalInv`, of a request and the table: a request nobody overtook has counted at least the advices there are (`Fresh`), one about to insert found room (`Admitted`) and no such title unless one slipped in (`Looked`), what it counted is there unless the month rolled (`Exact`), and every proposal before its turn is on the account (`Past`). A property alone is not inductive: it speaks of the insert, the invariant of what the earlier reads are still worth |
| `ProposalsProofs!Setup_NeverWaits` | `[]SetupNeverWaits`, if no analysis mixes setups and advices (`SetupsAlone`) | `SetupInv`: a request that met the quota has no setup in its result at all (`Unmixed`), because it met it at an advice |
| `DecisionsProofs!Analyses_SetupsAlone` | what any section, or Inicio, proposes is setups or advices, worded by Claude or not | section by section; Inicio tells a section without its app nothing but the setup, and then no other |
| `PublicEdgeProofs!TypeCorrect` | `[]TypeOK` | inductive as it stands |
| `PublicEdgeProofs!Asks_OnlyWhenStale` | `[]AsksOnlyWhenStale` | `Holds`: whoever is past the mutex holds it, so nobody else stores a copy meanwhile |
| `PublicEdgeProofs!Forever_NeedsALoss` | `ForeverNeedsALoss` | action by action, from the type invariant |
| `ErpAccessProofs!TypeCorrect` | `[]TypeOK` | inductive as it stands |
| `ErpAccessProofs!Behind_NeedsARace` | `BehindNeedsARace` | `RowsOwn`: a client about to be stored is the row's unless the row was written since |
| `ErpAccessProofs!Copy_NeedsARace` | `CopyNeedsARace` | `Missing`: a record about to be created does not exist unless another import created it since |
| `DecisionsProofs!Offers_Stand` | `[]OffersStand` | `SignupInv`: the form has the types of the survey, and an offer stands. Needs are `Fine` (known modules, each once, all that was asked for among them) after the rules (`SuggestFacts`), Claude's ranking (`RankedFine`), the blend, which sorts by insertion and so keeps what it is given (`SortedFacts`, `BlendFine`), and the business' type (`TypeFine`); packages are prefixes of fine needs, and a prefix passes `Register` unchanged (`PackageFacts`) |
| `DecisionsProofs!Asking_Widens` | `AskingMoreWidens` | one more area either is dropped by `Sanitize` or comes last (`KeepAppend`): breadth grows by one, the areas of operation or of growth by one, and nothing else changes but for the worse of the smallest plan (`AskingSignals`). In hundredths the smallest plan's score falls by 25 at least, the middle one's by 10 at most, the largest one's not at all (`AskingScores`) |
| `DecisionsProofs!Pick_SparesTheBusier` | `PickSparesTheBusier` | `RowsRead`: tasks are counted by numbers; a load's part of the score falls with the tasks and rounding is monotone (`RoundMonotone`), and `Pick` is a minimum of a total order |
| `DecisionsProofs!Import_Stands` | `ImportStands` | `ImportInv`: codes are stored once (`OneEach`, `StoredOnce`), and a row without a code whose name the ERP has keeps it once every row with a code was written (`SafeTwice`), which is why it takes two imports: in the first, a later row may still rename it |
| `DecisionsProofs!Panel_Stands` | `[]PanelStands` | `PanelInv`. Each part of an analysis gives advices about different things (`Advices`), parts have no subject in common, and the keys already seen are threaded from one effect, cell or trend to the next (`KnownMore`, `EffectKeeps`, `ModelsKeep`), from the organic analysis to the whole one |

Every safety and action property of the passing runs is stated by one of these
theorems. The five liveness properties (`EveryPlannedJobRuns`, `EveryWaitingJobRetried`,
`InstallationCloses`, `Reopens`, `EveryVisitAnswered`) are model-checked only: fairness
and `ENABLED` are out of the prover's reach.

How the decisions are proved. Their operators compute over sequences, so what they do
for every length needs induction, and the library's induction theorems take an
operator as a parameter, which no prover here can instantiate. `DecisionsProofs`
states induction in first order instead: `Induct` is about a *set* of numbers and
follows from the well-foundedness of `<` (`LeastOne`); a property of all lengths is
the set of the lengths that have it. `Recursion` proves, the same way, that a recursive
function over `0 .. N` exists, so that the `CHOOSE` behind its definition is what its
equations say (`KeptStep`, `SortedStep`). For this `Recommend` and `Analyzer` use
recursive functions (`Kept`, `Only`, `Distinct`, the sort in `Blend`) where the
standard modules define `SelectSeq`, `SortSeq` and the folds in forms the provers cannot
open. Where `WebStats` sorts R's effects, the theorems hold in any order of them.

## Findings

1. **Provisioned twice** (`provisioning_twice`). `AdminProvisionERP` reads the
   connection and the jobs and then starts the run; two requests, or a request and
   the loop, pass both checks. Its comment and README say it refuses.
2. **Starved retries** (`provisioning_starved`). `JobsWaiting` limits to 50 rows
   before `RetryLoop` drops those out of tries; 50 dead jobs end all retries. README
   says waiting jobs are retried.
3. **Double click** (`suggestion_doubleclick`). The comment says a double click
   cannot create two tasks; the check and the write are two statements.

4. **Skipped by the backfill** (`team_backfill`). The comment says every account
   without users gets its owner and that a taken email does not happen; an
   invitation can take it first, and the account stays without an owner.

Beside these, where the code and its comments part without a run of their own:

- `progress.go:36-37` says the last good copy is served when GitHub fails; a visitor
  who got the mutex after its 25 seconds can read no copy and gets a 503.
- `ratelimit.go:53-54,89` says the limits fail open; a lost `EXPIRE`, or an `INCR`
  whose first reply was lost, leaves a counter that never expires and refuses for
  ever once it is full (`ForeverNeedsALoss` says that nothing else does).
- A partial answer of GitHub replaces a complete stale copy.
- `SaveOdooConnection` leaves the client kept of the owner's earlier Odoo in use, and an
  import does not tell the map that a login was rejected.
- `etl.go` says a product is searched by code, then by name; with a code it is
  searched by code only.
- `=ilike` takes `_` and `%` in an email for wildcards: importing one customer can
  overwrite another. The models leave such emails out.
- `HasModel` is false on any error, so an ERP out of reach is told to install apps
  it has.
- `handlers/insights.go:99-101` says setup work is no suggestion of the quota;
  `POST /suggestions` with an exhausted quota answers 403 before it knows what it would
  propose.
- `withType` offers a website to a business that has one.
- `recommend.go:146` takes a single value of the multiple question for weak control.
- Beyond four open tasks a Creator who knows the customer is ahead for good of one
  whose load has also saturated.

## Plan

Done in this order: provisioning, suggestions, team, proposals, the public edge,
access to the ERP, decisions. What is left, most useful first:

1. An abstract `JobBoard` (a job is waiting, taken, settled) that `Provisioning`
   implements outside `dup` and `lost`, with the step-simulation proved.
2. The answers guessed from a free text without Claude (`describe.go`), urgency, and
   the guess of an imported file's columns.

## Not modelled

- *Articles*: each request is one statement on one row and the last write wins; the
  slug's uniqueness is the table's constraint.
- *Sites* (Railway, Porkbun), *R scripts*, *Claude*, *Odoo* itself: external; their
  answers are inputs or choices of the models.
- *Waitlist, presence, preferences, listings*: single statements on one row.
- *Configuration, router, CORS, secret box, models*: wiring and encoding.
- Of the components that are modelled: texts, formats, progress percentages, the
  event log, the arithmetic of the statistics (regressions, correlations, ANOVA), the
  parsing of CSV and XLSX and of amounts (`ParseAmount` reads "0.125" as 125), the copy
  of the progress kept in the process when there is no Redis, and floating-point ties
  in `blend` and `sort.Slice`, where the models take exact sums and any order.
