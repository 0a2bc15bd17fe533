--------------------------- MODULE ErpAccessProofs ---------------------------
(***************************************************************************)
(* Proofs about the client kept of the account's Odoo and about imports,   *)
(* for any number of requests, connections and records.  The invariant     *)
(* says what the history flags are worth: a client about to be stored is   *)
(* the row's unless the row was written since, and a record about to be    *)
(* created does not exist unless another import created it since.          *)
(***************************************************************************)
EXTENDS ErpAccess, TLAPS

RowsOwn == \A r \in Requests : req[r].pc \in {"keep", "store"} /\ ~req[r].old => req[r].client = conn

Missing == \A r \in Requests :
             req[r].pc = "create" /\ ~req[r].late => copies[req[r].client][req[r].at] = 0

IInv == TypeOK /\ RowsOwn /\ Missing

LEMMA InitIInv == Init => IInv
BY RecordsAssumption DEF Init, IInv, TypeOK, NoneOr, Request, Idle, RowsOwn, Missing

\* What follows a record is a well-typed request with the same client.
LEMMA AfterType ==
  ASSUME TypeOK, NEW r \in Requests
  PROVE  /\ After(r) \in Request
         /\ After(r).pc \in {"idle", "search"}
         /\ After(r).pc = "search" => After(r).client = req[r].client
<1> USE RecordsAssumption DEF TypeOK, NoneOr, Request
<1>1. CASE req[r].at < Records
  <2>1. req[r].at + 1 \in 1 .. Records
    BY <1>1
  <2>2. After(r) = [req[r] EXCEPT !.pc = "search", !.at = @ + 1, !.late = FALSE]
    BY <1>1 DEF After
  <2>3. req[r] \in Request
    OBVIOUS
  <2>4. After(r) \in Request
    BY <2>1, <2>2, <2>3
  <2>5. After(r).pc = "search" /\ After(r).client = req[r].client
    BY <2>2, <2>3
  <2> QED
    BY <2>4, <2>5
<1>2. CASE ~(req[r].at < Records)
  BY <1>2 DEF After, Idle
<1> QED
  BY <1>1, <1>2

\* A request that ends, or goes on with the next record, is a well-typed one.
LEMMA NextRecordType ==
  ASSUME TypeOK, NEW r \in Requests, req[r].pc \in {"search", "create"}, NextRecord(r)
  PROVE  /\ req' \in [Requests -> Request]
         /\ req'[r].pc \in {"idle", "search"}
         /\ req'[r].pc = "search" => req'[r].client = req[r].client
         /\ \A q \in Requests : q # r => req'[q] = req[q]
<1>1. /\ After(r) \in Request /\ After(r).pc \in {"idle", "search"}
      /\ After(r).pc = "search" => After(r).client = req[r].client
  BY AfterType
<1> QED
  BY <1>1 DEF NextRecord, TypeOK

\* A step that leaves row, objects and the other requests alone, and neither
\* puts its own where the flags matter.
LEMMA Elsewhere ==
  ASSUME IInv, NEW r \in Requests,
         conn' = conn, cached' \in NoneOr(Connections), takes' = takes, copies' = copies,
         req' \in [Requests -> Request],
         \A q \in Requests : q # r => req'[q] = req[q],
         req'[r].pc \notin {"keep", "store", "create"},
         req'[r].pc \notin {"idle", "row"} => req'[r].client \in Connections
  PROVE  IInv'
<1>1. TypeOK'
  BY DEF IInv, TypeOK
<1>2. RowsOwn' /\ Missing'
  BY DEF IInv, RowsOwn, Missing
<1> QED
  BY <1>1, <1>2 DEF IInv

LEMMA StepIInv == ASSUME IInv, NEW r \in Requests, Step(r) PROVE IInv'
<1> USE RecordsAssumption DEF NoneOr
<1>t. TypeOK /\ Idle \in Request
  BY DEF IInv, TypeOK, Idle, Request
<1>e. ASSUME Ends(r), conn' = conn, cached' \in NoneOr(Connections), takes' = takes, copies' = copies
      PROVE IInv'
  BY <1>t, <1>e, Elsewhere DEF Ends, Idle, TypeOK
<1>1. ASSUME NEW does \in {"read", "install", "import"}, Ask(r, does) PROVE IInv'
  <2>1. CASE cached = "none"
    <3> DEFINE g == [Idle EXCEPT !.pc = "row", !.does = does]
    <3>1. g \in Request /\ g.pc = "row"
      BY <1>t DEF Idle, Request
    <3>2. req' = [req EXCEPT ![r] = g] /\ UNCHANGED <<conn, cached, takes, copies>>
      BY <1>1, <2>1 DEF Ask
    <3> HIDE DEF g
    <3> QED
      BY <1>t, <3>1, <3>2, Elsewhere DEF TypeOK
  <2>2. CASE cached # "none"
    <3>1. req' = [req EXCEPT ![r] = [Idle EXCEPT !.pc = Begins(does), !.does = does, !.client = cached]]
      BY <1>1, <2>2 DEF Ask
    <3>2. Begins(does) \in {"call", "search"} /\ cached \in Connections
      BY <1>t, <2>2 DEF Begins, TypeOK
    <3>3. [Idle EXCEPT !.pc = Begins(does), !.does = does, !.client = cached] \in Request
      BY <3>2, <1>t DEF Idle, Request
    <3> QED
      BY <1>1, <1>t, <3>1, <3>2, <3>3, Elsewhere DEF Ask, Idle, TypeOK
  <2> QED
    BY <2>1, <2>2
<1>2. ASSUME NEW c \in Connections, Connect(r, c) PROVE IInv'
  <2> DEFINE g == [Idle EXCEPT !.pc = "save", !.does = "connect", !.client = c]
  <2>1. g \in Request /\ g.pc = "save" /\ g.client = c
    BY <1>t DEF Idle, Request
  <2>2. req' = [req EXCEPT ![r] = g] /\ UNCHANGED <<conn, cached, takes, copies>>
    BY <1>2 DEF Connect
  <2> HIDE DEF g
  <2> QED
    BY <1>t, <2>1, <2>2, Elsewhere DEF TypeOK
<1>3. ASSUME ReadRow(r) PROVE IInv'
  <2>1. CASE conn = "none"
    BY <1>3, <1>e, <1>t, <2>1 DEF ReadRow, TypeOK
  <2>2. CASE conn # "none"
    <3>1. /\ req' = [req EXCEPT ![r].pc = "keep", ![r].client = conn]
          /\ UNCHANGED <<conn, cached, takes, copies>> /\ conn \in Connections
      BY <1>3, <1>t, <2>2 DEF ReadRow, TypeOK
    <3>2. TypeOK'
      BY <1>t, <3>1 DEF TypeOK, Request
    <3>3. RowsOwn' /\ Missing'
      BY <1>t, <3>1 DEF TypeOK, Request, IInv, RowsOwn, Missing
    <3> QED
      BY <3>2, <3>3 DEF IInv
  <2> QED
    BY <2>1, <2>2
<1>4. ASSUME KeepClient(r) PROVE IInv'
  <2>1. Begins(req[r].does) \in {"call", "search"} /\ req[r].client \in Connections
    BY <1>4, <1>t DEF KeepClient, Begins, TypeOK
  <2>2. /\ req' = [req EXCEPT ![r].pc = Begins(req[r].does), ![r].old = FALSE]
        /\ cached' = req[r].client /\ UNCHANGED <<conn, takes, copies>>
    BY <1>4 DEF KeepClient
  <2>3. /\ req' \in [Requests -> Request]
        /\ req'[r].pc \in {"call", "search"} /\ req'[r].client = req[r].client
    BY <1>t, <2>1, <2>2 DEF TypeOK, Request
  <2>4. \A q \in Requests : q # r => req'[q] = req[q]
    BY <1>t, <2>2 DEF TypeOK
  <2> QED
    BY <2>1, <2>2, <2>3, <2>4, Elsewhere
<1>5. ASSUME Call(r) \/ Install(r) PROVE IInv'
  BY <1>5, <1>e, <1>t DEF Call, Install, TypeOK
<1>6. ASSUME Search(r) PROVE IInv'
  <2>1. CASE Found(r)
    BY <1>6, <1>t, <2>1, NextRecordType, Elsewhere DEF Search, TypeOK
  <2>2. CASE ~Found(r)
    <3>1. /\ req' = [req EXCEPT ![r].pc = "create"] /\ UNCHANGED <<conn, cached, takes, copies>>
          /\ req[r].pc = "search" /\ ~(copies[req[r].client][req[r].at] > 0)
      BY <1>6, <2>2 DEF Search, Goes, Found
    <3>2. req[r].client \in Connections /\ req[r].at \in 1 .. Records
      BY <1>t, <3>1 DEF TypeOK, Request
    <3>3. copies[req[r].client][req[r].at] = 0
      BY <1>t, <3>1, <3>2 DEF TypeOK
    <3>4. TypeOK'
      BY <1>t, <3>1, <3>2 DEF TypeOK, Request
    <3>5. RowsOwn' /\ Missing'
      BY <1>t, <3>1, <3>3 DEF TypeOK, Request, IInv, RowsOwn, Missing
    <3> QED
      BY <3>4, <3>5 DEF IInv
  <2> QED
    BY <2>1, <2>2
<1>7. ASSUME Create(r) PROVE IInv'
  <2> DEFINE c == req[r].client
             x == req[r].at
             g == After(r)
  <2>1. c \in Connections /\ x \in 1 .. Records /\ req[r].pc = "create"
    BY <1>7, <1>t DEF Create, TypeOK, Request
  <2>2. /\ copies' = [copies EXCEPT ![c][x] = @ + 1]
        /\ UNCHANGED <<conn, cached, takes>>
    BY <1>7 DEF Create
  <2>3. /\ Overtakes(r)[r] = req[r]
        /\ Overtakes(r) \in [Requests -> Request]
    BY <1>t DEF Overtakes, TypeOK, Request
  <2>4. \A q \in Requests : /\ Overtakes(r)[q].pc = req[q].pc /\ Overtakes(r)[q].client = req[q].client
                            /\ Overtakes(r)[q].at = req[q].at /\ (Overtakes(r)[q].old <=> req[q].old)
                            /\ (Overtakes(r)[q] = req[q] \/ Overtakes(r)[q] = [req[q] EXCEPT !.late = TRUE])
    BY <1>t DEF Overtakes, TypeOK, Request
  <2>5. g \in Request /\ g.pc \in {"idle", "search"} /\ (g.pc = "search" => g.client = c)
    BY <1>t, AfterType
  <2>6. req' = [Overtakes(r) EXCEPT ![r] = g]
    BY <1>7 DEF Create
  <2> HIDE DEF g
  <2>7. req'[r] = g /\ \A q \in Requests : q # r => req'[q] = Overtakes(r)[q]
    BY <2>3, <2>6
  <2>8. TypeOK'
    <3>1. copies' \in [Connections -> [1 .. Records -> Nat]]
      <4> DEFINE more == [copies[c] EXCEPT ![x] = @ + 1]
      <4>1. copies \in [Connections -> [1 .. Records -> Nat]]
        BY <1>t DEF TypeOK
      <4>2. copies[c] \in [1 .. Records -> Nat]
        BY <2>1, <4>1
      <4>3. copies[c][x] + 1 \in Nat
        BY <2>1, <4>2
      <4>4. more \in [1 .. Records -> Nat]
        BY <4>2, <4>3
      <4>5. copies' = [copies EXCEPT ![c] = more]
        BY <2>2
      <4> HIDE DEF more
      <4> QED
        BY <4>1, <4>4, <4>5
    <3>2. req' \in [Requests -> Request]
      BY <2>3, <2>5, <2>6
    <3>3. \A q \in Requests : req'[q].pc \notin {"idle", "row"} => req'[q].client \in Connections
      <4> TAKE q \in Requests
      <4>1. CASE q = r
        BY <2>1, <2>5, <2>7, <4>1
      <4>2. CASE q # r
        BY <1>t, <2>4, <2>7, <4>2 DEF TypeOK
      <4> QED
        BY <4>1, <4>2
    <3> QED
      BY <1>t, <2>2, <3>1, <3>2, <3>3 DEF TypeOK
  <2>9. RowsOwn'
    <3> SUFFICES ASSUME NEW q \in Requests, req'[q].pc \in {"keep", "store"}, ~req'[q].old
                 PROVE  req'[q].client = conn'
      BY DEF RowsOwn
    <3>1. q # r /\ req'[q] = Overtakes(r)[q]
      BY <2>5, <2>7
    <3>2. req[q].pc \in {"keep", "store"} /\ ~req[q].old /\ req'[q].client = req[q].client
      BY <2>4, <3>1
    <3> QED
      BY <2>2, <3>2 DEF IInv, RowsOwn
  <2>10. Missing'
    <3> SUFFICES ASSUME NEW q \in Requests, req'[q].pc = "create", ~req'[q].late
                 PROVE  copies'[req'[q].client][req'[q].at] = 0
      BY DEF Missing
    <3>1. q # r /\ req'[q] = Overtakes(r)[q]
      BY <2>5, <2>7
    <3>2. Overtakes(r)[q] = req[q]
      <4>1. Overtakes(r)[q].late => Overtakes(r)[q].late
        OBVIOUS
      <4>2. CASE Overtakes(r)[q] = [req[q] EXCEPT !.late = TRUE]
        <5>1. Overtakes(r)[q].late
          BY <1>t, <4>2 DEF TypeOK, Request
        <5> QED
          BY <3>1, <5>1
      <4> QED
        BY <2>4, <4>2
    <3>3. ~(req[q].client = c /\ req[q].at = x)
      <4> SUFFICES ASSUME req[q].client = c, req[q].at = x PROVE FALSE
        OBVIOUS
      <4>1. Overtakes(r)[q] = [req[q] EXCEPT !.late = TRUE]
        BY <3>1, <3>2 DEF Overtakes
      <4>2. Overtakes(r)[q].late
        BY <1>t, <4>1 DEF TypeOK, Request
      <4> QED
        BY <3>1, <4>2
    <3>4. req[q].client \in Connections /\ req[q].at \in 1 .. Records
      BY <1>t, <3>1, <3>2 DEF TypeOK, Request
    <3>5. copies[req[q].client][req[q].at] = 0
      BY <3>1, <3>2 DEF IInv, Missing
    <3>6. copies'[req[q].client][req[q].at] = copies[req[q].client][req[q].at]
      BY <1>t, <2>1, <2>2, <3>3, <3>4 DEF TypeOK
    <3> QED
      BY <3>1, <3>2, <3>5, <3>6
  <2> QED
    BY <2>8, <2>9, <2>10 DEF IInv
<1>8. ASSUME SkipRecord(r) PROVE IInv'
  BY <1>8, <1>t, NextRecordType, Elsewhere DEF SkipRecord, TypeOK
<1>9. ASSUME Save(r) PROVE IInv'
  <2>1. req[r].client \in Connections /\ req[r].pc = "save"
    BY <1>9, <1>t DEF Save, TypeOK
  <2>2. /\ req' = [Aged EXCEPT ![r].pc = "store"]
        /\ conn' = req[r].client /\ UNCHANGED <<cached, takes, copies>>
    BY <1>9 DEF Save
  <2>3. Aged[r] = req[r] /\ Aged \in [Requests -> Request]
    BY <1>t, <2>1 DEF Aged, TypeOK, Request
  <2>4. \A q \in Requests : /\ Aged[q].pc = req[q].pc /\ Aged[q].client = req[q].client
                            /\ Aged[q].at = req[q].at /\ (Aged[q].late <=> req[q].late)
                            /\ (Aged[q].pc \in {"keep", "store"} => Aged[q].old)
    BY <1>t DEF Aged, TypeOK, Request
  <2>5. /\ req' \in [Requests -> Request]
        /\ req'[r].pc = "store" /\ req'[r].client = req[r].client
        /\ \A q \in Requests : q # r => req'[q] = Aged[q]
    BY <2>2, <2>3 DEF Request
  <2>6. TypeOK'
    BY <1>t, <2>1, <2>2, <2>4, <2>5 DEF TypeOK
  <2>7. RowsOwn' /\ Missing'
    BY <2>2, <2>4, <2>5 DEF IInv, RowsOwn, Missing
  <2> QED
    BY <2>6, <2>7 DEF IInv
<1>10. ASSUME Store(r) PROVE IInv'
  BY <1>10, <1>e, <1>t DEF Store, TypeOK
<1>11. ASSUME Fail(r) PROVE IInv'
  BY <1>11, <1>e, <1>t DEF Fail, TypeOK
<1> QED
  BY <1>1, <1>2, <1>3, <1>4, <1>5, <1>6, <1>7, <1>8, <1>9, <1>10, <1>11 DEF Step

LEMMA NextIInv == IInv /\ [Next]_vars => IInv'
<1> SUFFICES ASSUME IInv, [Next]_vars PROVE IInv'
  OBVIOUS
<1>1. CASE \E r \in Requests : Step(r)
  BY <1>1, StepIInv
<1>2. ASSUME NEW c \in Connections, Provision(c) PROVE IInv'
  <2>1. Aged \in [Requests -> Request]
    BY DEF Aged, IInv, TypeOK, Request
  <2>2. \A q \in Requests : /\ Aged[q].pc = req[q].pc /\ Aged[q].client = req[q].client
                            /\ Aged[q].at = req[q].at /\ (Aged[q].late <=> req[q].late)
                            /\ (Aged[q].pc \in {"keep", "store"} => Aged[q].old)
    BY DEF Aged, IInv, TypeOK, Request
  <2>3. req' = Aged /\ conn' = c /\ UNCHANGED <<cached, takes, copies>>
    BY <1>2 DEF Provision
  <2> HIDE DEF Aged
  <2>4. TypeOK'
    BY <2>1, <2>2, <2>3 DEF IInv, TypeOK, NoneOr
  <2>5. RowsOwn' /\ Missing'
    BY <2>2, <2>3 DEF IInv, RowsOwn, Missing
  <2> QED
    BY <2>4, <2>5 DEF IInv
<1>3. ASSUME NEW c \in Connections, Revoke(c) PROVE IInv'
  BY <1>3 DEF Revoke, IInv, TypeOK, RowsOwn, Missing
<1>4. CASE Restart
  BY <1>4, RecordsAssumption DEF Restart, IInv, TypeOK, NoneOr, Request, Idle, RowsOwn, Missing
<1>5. CASE UNCHANGED vars
  BY <1>5 DEF vars, IInv, TypeOK, RowsOwn, Missing
<1> QED
  BY <1>1, <1>2, <1>3, <1>4, <1>5 DEF Next

\* The flags are worth what they say in every reachable state.
THEOREM Invariance == Spec => []IInv
<1>1. Init => IInv
  BY InitIInv
<1>2. IInv /\ [Next]_vars => IInv'
  BY NextIInv
<1> QED
  BY <1>1, <1>2, PTL DEF Spec

\* Requests keep their types, and one that works has a client.
THEOREM TypeCorrect == Spec => []TypeOK
<1>1. IInv => TypeOK
  BY DEF IInv
<1> QED
  BY <1>1, Invariance, PTL

Excused == \/ \E c \in Connections : Provision(c)
           \/ \E r \in Requests : req[r].old /\ (KeepClient(r) \/ Store(r))

\* Those about to store a client go on being so.
LEMMA SameKeepers ==
  ASSUME TypeOK, NEW r \in Requests, req[r].pc # "store",
         \A q \in Requests : q # r => req'[q].pc = req[q].pc /\ req'[q].client = req[q].client,
         conn' = conn, cached' \in {cached, "none"}, Behind'
  PROVE  Behind
BY DEF Behind, TypeOK

LEMMA StepBehind ==
  ASSUME IInv, NEW r \in Requests, Step(r), Behind', ~Behind PROVE Excused
<1>t. TypeOK
  BY DEF IInv
<1>o. ASSUME NEW g, req' = [req EXCEPT ![r] = g]
      PROVE \A q \in Requests : q # r => req'[q].pc = req[q].pc /\ req'[q].client = req[q].client
  BY <1>t, <1>o DEF TypeOK
<1>p. ASSUME NEW l, NEW d, \/ req' = [req EXCEPT ![r].pc = l]
                           \/ req' = [req EXCEPT ![r].pc = l, ![r].client = d]
      PROVE \A q \in Requests : q # r => req'[q].pc = req[q].pc /\ req'[q].client = req[q].client
  BY <1>t, <1>p DEF TypeOK
<1>1. ASSUME \/ \E does \in {"read", "install", "import"} : Ask(r, does)
             \/ \E c \in Connections : Connect(r, c)
             \/ Fail(r) \/ ReadRow(r)
      PROVE FALSE
  <2>1. /\ req[r].pc # "store" /\ conn' = conn /\ cached' = cached
        /\ \A q \in Requests : q # r => req'[q].pc = req[q].pc /\ req'[q].client = req[q].client
    BY <1>1, <1>o, <1>p DEF Ask, Connect, Fail, ReadRow, Ends
  <2> QED
    BY <1>t, <2>1, SameKeepers
<1>2. ASSUME Call(r) \/ Install(r) PROVE FALSE
  <2>1. /\ req[r].pc # "store" /\ conn' = conn /\ cached' \in {cached, "none"}
        /\ \A q \in Requests : q # r => req'[q].pc = req[q].pc /\ req'[q].client = req[q].client
    BY <1>2, <1>o DEF Call, Install, Ends
  <2> QED
    BY <1>t, <2>1, SameKeepers
<1>3. ASSUME Search(r) \/ SkipRecord(r) PROVE FALSE
  <2>1. req[r].pc # "store" /\ conn' = conn /\ cached' = cached
    BY <1>3 DEF Search, SkipRecord
  <2>2. \A q \in Requests : q # r => req'[q].pc = req[q].pc /\ req'[q].client = req[q].client
    <3>1. CASE NextRecord(r)
      BY <1>3, <1>t, <3>1, NextRecordType DEF Search, SkipRecord
    <3>2. CASE Goes(r, "create")
      BY <1>p, <3>2 DEF Goes
    <3> QED
      BY <1>3, <3>1, <3>2 DEF Search, SkipRecord
  <2> QED
    BY <1>t, <2>1, <2>2, SameKeepers
<1>4. ASSUME Create(r) PROVE FALSE
  <2>1. req[r].pc # "store" /\ conn' = conn /\ cached' = cached
    BY <1>4 DEF Create
  <2>2. \A q \in Requests : q # r => req'[q] = Overtakes(r)[q]
    BY <1>4 DEF Create, Overtakes
  <2>3. \A q \in Requests : Overtakes(r)[q].pc = req[q].pc /\ Overtakes(r)[q].client = req[q].client
    BY <1>t DEF Overtakes, TypeOK, Request
  <2> QED
    BY <1>t, <2>1, <2>2, <2>3, SameKeepers
<1>5. ASSUME KeepClient(r) \/ Store(r) PROVE Excused
  <2>1. CASE req[r].old
    BY <1>5, <2>1 DEF Excused
  <2>2. CASE ~req[r].old
    <3>1. cached' = conn /\ conn' = conn
      BY <1>5, <2>2 DEF KeepClient, Store, IInv, RowsOwn
    <3> QED
      BY <3>1 DEF Behind
  <2> QED
    BY <2>1, <2>2
<1>6. ASSUME Save(r) PROVE FALSE
  <2>1. Aged \in [Requests -> Request] /\ Aged[r] = req[r]
    BY <1>6, <1>t DEF Save, Aged, TypeOK, Request
  <2>2. req'[r].pc = "store" /\ req'[r].client = conn'
    BY <1>6, <2>1 DEF Save, Request
  <2> QED
    BY <2>2 DEF Behind
<1> QED
  BY <1>1, <1>2, <1>3, <1>4, <1>5, <1>6 DEF Step

\* The panel is left behind the account's connection only by provisioning's
\* save or by a request that stores a client of a row written since (odooFor
\* and ConnectERP), for any number of requests and connections.
THEOREM Behind_NeedsARace == Spec => BehindNeedsARace
<1>1. IInv /\ [Next]_vars =>
        [Behind' /\ ~Behind =>
           \/ \E c \in Connections : Provision(c)
           \/ \E r \in Requests : req[r].old /\ (KeepClient(r) \/ Store(r))]_vars
  <2> SUFFICES ASSUME IInv, [Next]_vars, Behind', ~Behind, ~UNCHANGED vars PROVE Excused
    BY DEF Excused
  <2>1. CASE \E r \in Requests : Step(r)
    BY <2>1, StepBehind
  <2>2. CASE \E c \in Connections : Provision(c)
    BY <2>2 DEF Excused
  <2>3. CASE \E c \in Connections : Revoke(c)
    BY <2>3 DEF Revoke, Behind
  <2>4. CASE Restart
    BY <2>4 DEF Restart, Behind
  <2> QED
    BY <2>1, <2>2, <2>3, <2>4 DEF Next
<1> QED
  BY <1>1, Invariance, PTL DEF Spec, BehindNeedsARace

\* An import creates a record that exists only if another one created it after
\* its search (Load's findID), whatever failed or was stopped before.
THEOREM Copy_NeedsARace == Spec => CopyNeedsARace
<1>1. IInv /\ [Next]_vars =>
        [\A c \in Connections, x \in 1 .. Records :
           copies[c][x] > 0 /\ copies'[c][x] > copies[c][x] =>
             \E r \in Requests : Create(r) /\ req[r].late]_vars
  <2> SUFFICES ASSUME IInv, [Next]_vars, NEW c \in Connections, NEW x \in 1 .. Records,
                      copies[c][x] > 0, copies'[c][x] > copies[c][x]
               PROVE  \E r \in Requests : Create(r) /\ req[r].late
    OBVIOUS
  <2>0. TypeOK
    BY DEF IInv
  <2>1. copies[c][x] \in Nat
    BY <2>0 DEF TypeOK
  <2>2. copies' # copies
    BY <2>1
  <2>3. PICK r \in Requests : Create(r)
    BY <2>2 DEF Next, Step, Ask, Connect, ReadRow, KeepClient, Call, Install, Search, SkipRecord, Save,
                Store, Fail, Provision, Revoke, Restart, vars
  <2>4. req[r].client \in Connections /\ req[r].at \in 1 .. Records /\ req[r].pc = "create"
    BY <2>0, <2>3 DEF Create, TypeOK, Request
  <2>5. req[r].client = c /\ req[r].at = x
    BY <2>0, <2>1, <2>3, <2>4 DEF Create, TypeOK
  <2>6. req[r].late
    BY <2>1, <2>4, <2>5 DEF IInv, Missing
  <2> QED
    BY <2>3, <2>6
<1> QED
  BY <1>1, Invariance, PTL DEF Spec, CopyNeedsARace
=============================================================================
