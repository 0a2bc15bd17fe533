------------------------------ MODULE ErpAccess ------------------------------
(***************************************************************************)
(* How the panel reaches the account's Odoo: the row of odoo_connections,  *)
(* the client each process keeps of it in a sync.Map, ConnectERP, which    *)
(* writes both, provisioning, which writes only the row, the sections that *)
(* read through h.erp, the goroutines that install an app and forget the   *)
(* client, and the imports that write record by record.                    *)
(*                                                                         *)
(* A connection is an Odoo with a login.  Of an Odoo, only how many        *)
(* objects the search of each record of the file finds is modelled, and    *)
(* whether it takes the login; a call may fail before or after it had its  *)
(* effect.  No record of the file finds an object of another one: module   *)
(* Import has the searches themselves, and the files where they do.        *)
(***************************************************************************)
EXTENDS Integers, FiniteSets

CONSTANTS
  Requests,     \* goroutines that serve the account
  Connections,  \* URL, database, login and password
  Records,      \* how many records the imported file has
  MaxCopies     \* bound on the objects of one record

ASSUME RecordsAssumption == Records \in Nat \ {0} /\ MaxCopies \in Nat
ASSUME NoneAssumption == "none" \notin Connections

VARIABLES
  conn,    \* the row of odoo_connections
  cached,  \* the client in odooClients
  takes,   \* the connections whose login its Odoo takes
  copies,  \* objects of each record in each Odoo
  req      \* the requests

vars == <<conn, cached, takes, copies, req>>

NoneOr(S) == S \cup {"none"}

\* Where a request is and what it does, the client it has and the record it is
\* at.  old and late are history: since it read or wrote the row another one
\* wrote it; since its search another one created the record.
Request == [pc : {"idle", "row", "keep", "call", "search", "create", "save", "store"},
            does : {"read", "install", "import", "connect"}, client : NoneOr(Connections),
            at : 1 .. Records, old : BOOLEAN, late : BOOLEAN]

Idle == [pc |-> "idle", does |-> "read", client |-> "none", at |-> 1, old |-> FALSE, late |-> FALSE]

TypeOK ==
  /\ conn \in NoneOr(Connections) /\ cached \in NoneOr(Connections)
  /\ takes \subseteq Connections
  /\ copies \in [Connections -> [1 .. Records -> Nat]]
  /\ req \in [Requests -> Request]
  /\ \A r \in Requests : req[r].pc \notin {"idle", "row"} => req[r].client \in Connections

-----------------------------------------------------------------------------

Goes(r, label) == req' = [req EXCEPT ![r].pc = label]
Ends(r) == req' = [req EXCEPT ![r] = Idle]

\* What a request does once it has a client.
Begins(does) == IF does = "import" THEN "search" ELSE "call"

\* odooFor looks in the map first.
Ask(r, does) ==
  /\ req[r].pc = "idle"
  /\ req' = [req EXCEPT ![r] = IF cached = "none"
                               THEN [Idle EXCEPT !.pc = "row", !.does = does]
                               ELSE [Idle EXCEPT !.pc = Begins(does), !.does = does, !.client = cached]]
  /\ UNCHANGED <<conn, cached, takes, copies>>

\* GetOdooConnection: 404 without a row.
ReadRow(r) ==
  /\ req[r].pc = "row"
  /\ IF conn = "none" THEN Ends(r)
     ELSE req' = [req EXCEPT ![r].pc = "keep", ![r].client = conn]
  /\ UNCHANGED <<conn, cached, takes, copies>>

KeepClient(r) ==
  /\ req[r].pc = "keep"
  /\ cached' = req[r].client
  /\ req' = [req EXCEPT ![r].pc = Begins(req[r].does), ![r].old = FALSE]
  /\ UNCHANGED <<conn, takes, copies>>

\* A section's calls: a rejected login drops whatever client the map holds.
Call(r) ==
  /\ req[r].pc = "call" /\ req[r].does = "read"
  /\ cached' = IF req[r].client \in takes THEN cached ELSE "none"
  /\ Ends(r)
  /\ UNCHANGED <<conn, takes, copies>>

\* The detached goroutine of an accepted suggestion has installed an app and
\* forgets whatever client the map holds.  One that was rejected is kept.
Install(r) ==
  /\ req[r].pc = "call" /\ req[r].does = "install" /\ req[r].client \in takes
  /\ cached' = "none"
  /\ Ends(r)
  /\ UNCHANGED <<conn, takes, copies>>

-----------------------------------------------------------------------------
(* Load: search a record, then write what was found or create it.  A record
   that fails is an issue of the report, and the next one follows. *)

After(r) ==
  IF req[r].at < Records THEN [req[r] EXCEPT !.pc = "search", !.at = @ + 1, !.late = FALSE] ELSE Idle

NextRecord(r) == req' = [req EXCEPT ![r] = After(r)]

FoundMany(r) == copies[req[r].client][req[r].at] > 1
Found(r)     == copies[req[r].client][req[r].at] > 0

Search(r) ==
  /\ req[r].pc = "search" /\ req[r].client \in takes
  /\ IF Found(r) THEN NextRecord(r) ELSE Goes(r, "create")
  /\ UNCHANGED <<conn, cached, takes, copies>>

\* Requests that search the same record of the same Odoo.
Overtakes(r) == [q \in Requests |->
  IF q # r /\ req[q].pc = "create" /\ req[q].client = req[r].client /\ req[q].at = req[r].at
  THEN [req[q] EXCEPT !.late = TRUE] ELSE req[q]]

Create(r) ==
  /\ req[r].pc = "create" /\ req[r].client \in takes
  /\ copies[req[r].client][req[r].at] < MaxCopies
  /\ copies' = [copies EXCEPT ![req[r].client][req[r].at] = @ + 1]
  /\ req' = [Overtakes(r) EXCEPT ![r] = After(r)]
  /\ UNCHANGED <<conn, cached, takes>>

\* A search, write or create that fails, or whose login is rejected: only
\* h.erp, which Load does not tell, would drop the client.
SkipRecord(r) ==
  /\ req[r].pc \in {"search", "create"}
  /\ NextRecord(r)
  /\ UNCHANGED <<conn, cached, takes, copies>>

-----------------------------------------------------------------------------
(* The row and who writes it. *)

\* Of those that have read or written the row and not yet stored a client.
Aged == [q \in Requests |-> IF req[q].pc \in {"keep", "store"} THEN [req[q] EXCEPT !.old = TRUE] ELSE req[q]]

\* ConnectERP logs in before it saves anything.
Connect(r, c) ==
  /\ req[r].pc = "idle" /\ c \in takes
  /\ req' = [req EXCEPT ![r] = [Idle EXCEPT !.pc = "save", !.does = "connect", !.client = c]]
  /\ UNCHANGED <<conn, cached, takes, copies>>

Save(r) ==
  /\ req[r].pc = "save"
  /\ conn' = req[r].client
  /\ req' = [Aged EXCEPT ![r].pc = "store"]
  /\ UNCHANGED <<cached, takes, copies>>

StoreNot(r) ==
  /\ req[r].pc = "store"
  /\ Ends(r)
  /\ UNCHANGED <<conn, cached, takes, copies>>

Store(r) ==
  /\ req[r].pc = "store"
  /\ cached' = req[r].client
  /\ Ends(r)
  /\ UNCHANGED <<conn, takes, copies>>

\* A statement fails, a call to Odoo fails, the ten minutes of an import end.
Fail(r) ==
  /\ req[r].pc \in {"row", "call", "search", "create", "save"}
  /\ Ends(r)
  /\ UNCHANGED <<conn, cached, takes, copies>>

\* Provisioning's SaveOdooConnection: another goroutine or process, which has
\* no client to store.
Provision(c) ==
  /\ conn' = c
  /\ req' = Aged
  /\ UNCHANGED <<cached, takes, copies>>

\* Someone changes the password in that Odoo.
Revoke(c) ==
  /\ takes' = takes \ {c}
  /\ UNCHANGED <<conn, cached, copies, req>>

Restart ==
  /\ cached' = "none" /\ req' = [r \in Requests |-> Idle]
  /\ UNCHANGED <<conn, takes, copies>>

Init ==
  /\ conn = "none" /\ cached = "none" /\ takes = Connections
  /\ copies = [c \in Connections |-> [x \in 1 .. Records |-> 0]]
  /\ req = [r \in Requests |-> Idle]

Step(r) ==
  \/ \E does \in {"read", "install", "import"} : Ask(r, does)
  \/ \E c \in Connections : Connect(r, c)
  \/ ReadRow(r) \/ KeepClient(r) \/ Call(r) \/ Install(r) \/ Search(r) \/ Create(r) \/ SkipRecord(r)
  \/ Save(r) \/ Store(r) \/ Fail(r)

Next == \/ \E r \in Requests : Step(r)
        \/ \E c \in Connections : Provision(c) \/ Revoke(c)
        \/ Restart

Spec == Init /\ [][Next]_vars

-----------------------------------------------------------------------------

\* The sections would go on with another connection than the account's: the
\* client kept is another one, and nobody is about to store the right one.
Behind ==
  /\ cached \notin {"none", conn}
  /\ \A r \in Requests : ~(req[r].pc = "store" /\ req[r].client = conn)

\* The panel is left behind the account's connection only by provisioning,
\* which saves a connection without touching the client kept, or by a request
\* that stores a client after the row was written again; never by the owner
\* connecting an Odoo with nothing else under way.
BehindNeedsARace ==
  [][Behind' /\ ~Behind =>
       \/ \E c \in Connections : Provision(c)
       \/ \E r \in Requests : req[r].old /\ (KeepClient(r) \/ Store(r))]_vars

\* An import creates a record that exists only if another import created it
\* after its search: importing a file again, one run after the other, creates
\* nothing, be the earlier run complete, stopped or in part failed.
CopyNeedsARace ==
  [][\A c \in Connections, x \in 1 .. Records :
       copies[c][x] > 0 /\ copies'[c][x] > copies[c][x] =>
         \E r \in Requests : Create(r) /\ req[r].late]_vars
=============================================================================
