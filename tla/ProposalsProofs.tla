--------------------------- MODULE ProposalsProofs --------------------------
(***************************************************************************)
(* Proofs about Proposals, for any number of requests, sections, titles,   *)
(* plans and stored suggestions: type correctness, the monthly quota, one  *)
(* pending suggestion per title, nothing lost and nothing said that is     *)
(* not so.                                                                 *)
(***************************************************************************)
EXTENDS Proposals, FiniteSetTheorems, SequenceTheorems, TLAPS

\* A request that has yet to count or to analyse is at its first proposal, and
\* has one unless its analysis is still to come.
Pointed ==
  \A r \in Requests :
    /\ req[r].pc \in {"count", "analyse"} => req[r].turn = 1
    /\ req[r].pc = "count" /\ req[r].serves # "create" => req[r].turn \in DOMAIN req[r].result
    /\ req[r].pc = "analyse" => req[r].serves = "create"

TypeInv == TypeOK /\ Pointed

-----------------------------------------------------------------------------
(* Type correctness. *)

\* A limit is an integer.
LEMMA LimitType == ASSUME NEW p PROVE LimitOf(p) \in Int
  BY QuotaAssumption DEF LimitOf

\* A request about to look at a proposal or to file it has one.
LEMMA CurrentType ==
  ASSUME TypeOK, NEW r \in Requests, req[r].pc \in {"check", "insert"}
  PROVE  /\ req[r].turn \in 1..Len(req[r].result)
         /\ Len(req[r].result) \in Nat
         /\ Current(r) \in Proposal
<1>1. req[r] \in Request /\ req[r].turn \in DOMAIN req[r].result
  BY DEF TypeOK
<1>2. req[r].result \in Seq(Proposal)
  BY <1>1 DEF Request
<1> QED
  BY <1>1, <1>2 DEF Current

\* A request that ends, closes or advances is one.
LEMMA IdleType == Idle \in Request
  BY DEF Idle, Request

LEMMA CloseType ==
  ASSUME TypeOK, NEW r \in Requests
  PROVE  Close(r) \in Request /\ Close(r).pc \in {"idle", "save"}
<1>1. req[r] \in Request
  BY DEF TypeOK
<1> QED
  BY <1>1, IdleType DEF Close, Request, Idle

LEMMA AdvanceType ==
  ASSUME TypeOK, NEW r \in Requests, req[r].pc \in {"check", "insert"}, NEW n \in Nat
  PROVE  /\ Advance(r, n) \in Request
         /\ Advance(r, n).pc \in {"check", "insert"}
              => Advance(r, n).turn \in DOMAIN Advance(r, n).result
<1>1. req[r] \in Request /\ req[r].turn \in 1..Len(req[r].result) /\ Len(req[r].result) \in Nat
  BY CurrentType DEF TypeOK
<1>2. req[r].result \in Seq(Proposal)
  BY <1>1 DEF Request
<1>3. CASE req[r].turn < Len(req[r].result)
  <2> DEFINE R == [req[r] EXCEPT !.pc = "check", !.turn = @ + 1, !.used = n, !.slip = FALSE]
  <2>1. req[r].turn + 1 \in Nat \ {0} /\ req[r].turn + 1 \in 1..Len(req[r].result)
    BY <1>1, <1>3
  <2>2. R \in Request
    BY <1>1, <2>1 DEF Request
  <2>3. R.turn = req[r].turn + 1 /\ R.result = req[r].result
    BY <1>1 DEF Request
  <2>4. R.turn \in DOMAIN R.result
    BY <1>2, <2>1, <2>3
  <2> QED
    BY <1>3, <2>2, <2>4 DEF Advance
<1>4. CASE ~(req[r].turn < Len(req[r].result))
  BY <1>4, CloseType DEF Advance
<1> QED
  BY <1>3, <1>4

\* Where a request is after it filed its proposal.
LEMMA DoneType ==
  ASSUME TypeOK, NEW r \in Requests, req[r].pc = "insert", NEW n \in Nat
  PROVE  /\ Done(r, n) \in Request
         /\ Done(r, n).pc \in {"check", "insert"} => Done(r, n).turn \in DOMAIN Done(r, n).result
  BY IdleType, AdvanceType DEF Done, Idle

\* What others miss changes neither where they are nor what they hold.
LEMMA MissedType ==
  ASSUME TypeOK, NEW x \in Requests, NEW p, NEW c
  PROVE  /\ Missed(x, p, c) \in Request
         /\ Missed(x, p, c).pc = req[x].pc
         /\ Missed(x, p, c).turn = req[x].turn
         /\ Missed(x, p, c).result = req[x].result
         /\ Missed(x, p, c).serves = req[x].serves
<1>1. req[x] \in Request
  BY DEF TypeOK
<1>2. /\ (req[x].lap \/ req[x].pc \in c) \in BOOLEAN
      /\ (req[x].slip \/ (req[x].pc = "insert" /\ Current(x).title = p.title)) \in BOOLEAN
  BY <1>1 DEF Request
<1> QED
  BY <1>1, <1>2 DEF Missed, Request

\* A proposal that is filed is a suggestion.
LEMMA FiledType ==
  ASSUME TypeOK, NEW r \in Requests, req[r].pc \in {"check", "insert"}
  PROVE  Filed(Current(r)) \in Suggestion
  BY CurrentType DEF Filed, Proposal, Suggestion

\* What is counted can be.
LEMMA CountedType ==
  ASSUME stored \in Seq(Suggestion)
  PROVE  /\ IsFiniteSet(Counted) /\ Cardinality(Counted) \in Nat
         /\ Advices = Counted
<1>1. IsFiniteSet(1..Len(stored)) /\ Counted \subseteq 1..Len(stored)
  BY FS_Interval DEF Counted
<1> QED
  BY <1>1, FS_Subset, FS_CardinalityType DEF Advices, Counted

\* Starting a request.
LEMMA StartType ==
  ASSUME TypeInv, NEW r \in Requests, NEW k \in {"run", "create", "type"},
         NEW s \in Sections \cup {"none"}, NEW q \in Seq(Proposal), NEW label \in {"count", "save"},
         label = "count" /\ k # "create" => q # <<>>,
         Start(r, k, s, q, label)
  PROVE  TypeInv'
<1> DEFINE R == [Idle EXCEPT !.pc = label, !.serves = k, !.about = s, !.result = q, !.limit = LimitOf(plan)]
<1>1. LimitOf(plan) \in Int
  BY LimitType
<1>2. R \in Request
  BY <1>1, IdleType DEF Request
<1>3. R.pc = label /\ R.serves = k /\ R.result = q /\ R.turn = 1
  BY DEF Idle
<1>4. q # <<>> => 1 \in DOMAIN q
  OBVIOUS
<1>5. req' = [req EXCEPT ![r] = R] /\ plan' = plan /\ stored' = stored
  BY DEF Start
<1> HIDE DEF R
<1> QED
  BY <1>2, <1>3, <1>4, <1>5 DEF TypeInv, TypeOK, Pointed

\* Ending a request.
LEMMA EndType ==
  ASSUME TypeInv, NEW r \in Requests, End(r), UNCHANGED <<plan, stored>>
  PROVE  TypeInv'
<1>1. req' = [req EXCEPT ![r] = Idle] /\ Idle.pc = "idle"
  BY DEF End, Idle
<1> QED
  BY <1>1, IdleType DEF TypeInv, TypeOK, Pointed

\* The owner and the calendar change rows, never the proposals they came from.
LEMMA RowsChange ==
  ASSUME TypeOK,
         \/ \E i \in DOMAIN stored : UpdateSuggestionStatus(i) \/ Age(i)
         \/ NewMonth
  PROVE  /\ stored' \in Seq(Suggestion) /\ DOMAIN stored' = DOMAIN stored
         /\ \A j \in DOMAIN stored : /\ stored'[j].title = stored[j].title
                                     /\ stored'[j].setup = stored[j].setup
                                     /\ stored'[j].month => stored[j].month
<1>1. stored \in [1..Len(stored) -> Suggestion] /\ Len(stored) \in Nat
  BY LenProperties DEF TypeOK
<1>2. ASSUME NEW i \in DOMAIN stored, UpdateSuggestionStatus(i)
      PROVE  /\ stored' \in [1..Len(stored) -> Suggestion]
             /\ \A j \in DOMAIN stored : /\ stored'[j].title = stored[j].title
                                         /\ stored'[j].setup = stored[j].setup
                                         /\ stored'[j].month => stored[j].month
  BY <1>1, <1>2 DEF UpdateSuggestionStatus, Suggestion
<1>3. ASSUME NEW i \in DOMAIN stored, Age(i)
      PROVE  /\ stored' \in [1..Len(stored) -> Suggestion]
             /\ \A j \in DOMAIN stored : /\ stored'[j].title = stored[j].title
                                         /\ stored'[j].setup = stored[j].setup
                                         /\ stored'[j].month => stored[j].month
  BY <1>1, <1>3 DEF Age, Suggestion
<1>4. CASE NewMonth
  <2>1. stored' = [i \in 1..Len(stored) |-> [stored[i] EXCEPT !.month = FALSE]]
    BY <1>1, <1>4 DEF NewMonth
  <2>2. \A i \in 1..Len(stored) : [stored[i] EXCEPT !.month = FALSE] \in Suggestion
    BY <1>1 DEF Suggestion
  <2>3. stored' \in [1..Len(stored) -> Suggestion]
    BY <2>1, <2>2
  <2>4. \A j \in DOMAIN stored : /\ stored'[j].title = stored[j].title
                                 /\ stored'[j].setup = stored[j].setup
                                 /\ stored'[j].month => stored[j].month
    BY <1>1, <2>1 DEF Suggestion
  <2> QED
    BY <1>1, <2>3, <2>4, SeqDef
<1> QED
  BY <1>1, <1>2, <1>3, <1>4, SeqDef

\* Every step keeps the types.
LEMMA TypeStep == TypeInv /\ [Next]_vars => TypeInv'
<1> SUFFICES ASSUME TypeInv, [Next]_vars PROVE TypeInv'
  OBVIOUS
<1> USE DEF TypeInv
<1>1. ASSUME NEW r \in Requests, NEW s \in Sections, RunInsights(r, s) PROVE TypeInv'
  <2>1. PICK a \in Results :
          Start(r, "run", "none", a[2], IF a[2] = <<>> THEN "save" ELSE "count")
    BY <1>1 DEF RunInsights
  <2>2. a[2] \in Seq(Proposal)
    BY ResultsAssumption
  <2> QED
    BY <2>1, <2>2, StartType
<1>2. ASSUME NEW r \in Requests, NEW s \in Sections, CreateSuggestion(r, s) PROVE TypeInv'
  <2>1. <<>> \in Seq(Proposal)
    OBVIOUS
  <2> QED
    BY <1>2, <2>1, StartType DEF CreateSuggestion
<1>3. ASSUME NEW r \in Requests, SetBusinessType(r) PROVE TypeInv'
  <2>1. PICK p \in TypeSetups : Start(r, "type", "none", <<p>>, "count")
    BY <1>3 DEF SetBusinessType
  <2>2. <<p>> \in Seq(Proposal) /\ <<p>> # <<>>
    BY ResultsAssumption
  <2> QED
    BY <2>1, <2>2, StartType
<1>4. ASSUME NEW r \in Requests, Count(r) PROVE TypeInv'
  <2>1. Cardinality(Counted) \in Nat
    BY CountedType DEF TypeOK
  <2>2. CASE End(r)
    BY <1>4, <2>2, EndType DEF Count
  <2>3. CASE req' = [req EXCEPT ![r].used = Cardinality(Counted),
                                ![r].pc = IF req[r].serves = "create" THEN "analyse" ELSE "check"]
    <3> DEFINE R == [req[r] EXCEPT !.used = Cardinality(Counted),
                                   !.pc = IF req[r].serves = "create" THEN "analyse" ELSE "check"]
    <3>0. req[r] \in Request
      BY DEF TypeOK
    <3>1. R \in Request /\ R.turn = req[r].turn /\ R.result = req[r].result
      <4> DEFINE next == IF req[r].serves = "create" THEN "analyse" ELSE "check"
      <4>1. next \in {"analyse", "check"}
        OBVIOUS
      <4>2. R = [req[r] EXCEPT !.used = Cardinality(Counted), !.pc = next]
        OBVIOUS
      <4> HIDE DEF next, R
      <4> QED
        BY <2>1, <3>0, <4>1, <4>2 DEF Request
    <3>4. R.serves = req[r].serves
      BY DEF TypeOK, Request
    <3>2. R.pc = (IF req[r].serves = "create" THEN "analyse" ELSE "check") /\ req[r].pc = "count"
      BY <1>4 DEF TypeOK, Request, Count
    <3>3. req' = [req EXCEPT ![r] = R] /\ plan' = plan /\ stored' = stored
      BY <1>4, <2>3 DEF Count
    <3> HIDE DEF R
    <3> QED
      BY <3>1, <3>2, <3>3, <3>4 DEF TypeOK, Pointed
  <2> QED
    BY <1>4, <2>2, <2>3 DEF Count
<1>5. ASSUME NEW r \in Requests, Analyse(r) PROVE TypeInv'
  <2>1. PICK a \in Results :
          IF a[2] = <<>> THEN End(r)
          ELSE req' = [req EXCEPT ![r].result = a[2], ![r].about = "none", ![r].pc = "check"]
    BY <1>5 DEF Analyse
  <2>2. a[2] \in Seq(Proposal) /\ (a[2] # <<>> => 1 \in DOMAIN a[2])
    BY ResultsAssumption
  <2>3. CASE End(r)
    BY <1>5, <2>3, EndType DEF Analyse
  <2>4. CASE /\ a[2] # <<>>
             /\ req' = [req EXCEPT ![r].result = a[2], ![r].about = "none", ![r].pc = "check"]
    <3> DEFINE R == [req[r] EXCEPT !.result = a[2], !.about = "none", !.pc = "check"]
    <3>4. req[r] \in Request
      BY DEF TypeOK
    <3>1. R \in Request
      BY <2>2, <3>4 DEF Request
    <3>2. R.turn = req[r].turn /\ R.result = a[2] /\ R.pc = "check" /\ req[r].turn = 1
      BY <1>5 DEF TypeOK, Pointed, Analyse, Request
    <3>3. req' = [req EXCEPT ![r] = R] /\ plan' = plan /\ stored' = stored
      BY <1>5, <2>4 DEF Analyse
    <3> HIDE DEF R
    <3> QED
      <4>1. R.turn \in DOMAIN R.result
        BY <2>2, <2>4, <3>2
      <4> QED
        BY <3>1, <3>2, <3>3, <4>1 DEF TypeOK, Pointed
  <2> QED
    BY <2>1, <2>3, <2>4
<1>6. ASSUME NEW r \in Requests, Check(r) PROVE TypeInv'
  <2>1. req[r].pc = "check" /\ plan' = plan /\ stored' = stored /\ req[r].used \in Nat
    BY <1>6 DEF Check, TypeOK, Request
  <2>2. CASE req' = [req EXCEPT ![r] = Advance(r, req[r].used)]
    <3>1. Advance(r, req[r].used).pc \in {"check", "insert", "save", "idle"}
      BY <2>1, CloseType DEF Advance, TypeOK, Request
    <3> QED
      BY <2>1, <2>2, <3>1, AdvanceType DEF TypeOK, Pointed
  <2>3. CASE req' = [req EXCEPT ![r] = [Close(r) EXCEPT !.reached = (req[r].serves = "run")]]
    <3>1. /\ [Close(r) EXCEPT !.reached = (req[r].serves = "run")] \in Request
          /\ [Close(r) EXCEPT !.reached = (req[r].serves = "run")].pc \in {"idle", "save"}
      BY CloseType DEF Request
    <3> QED
      BY <2>1, <2>3, <3>1 DEF TypeOK, Pointed
  <2>4. CASE req' = [req EXCEPT ![r].pc = "insert"]
    <3>1. /\ [req[r] EXCEPT !.pc = "insert"] \in Request
          /\ [req[r] EXCEPT !.pc = "insert"].turn = req[r].turn
          /\ [req[r] EXCEPT !.pc = "insert"].result = req[r].result
          /\ [req[r] EXCEPT !.pc = "insert"].pc = "insert"
      BY DEF TypeOK, Request
    <3> QED
      BY <2>1, <2>4, <3>1 DEF TypeOK, Pointed
  <2> QED
    BY <1>6, <2>2, <2>3, <2>4 DEF Check
<1>7. ASSUME NEW r \in Requests, Insert(r) PROVE TypeInv'
  <2> DEFINE n == IF Current(r).setup THEN req[r].used ELSE req[r].used + 1
  <2>1. req[r].pc = "insert" /\ plan' = plan /\ n \in Nat
    BY <1>7 DEF Insert, TypeOK, Request
  <2>2. stored' \in Seq(Suggestion)
    BY <1>7, <2>1, FiledType DEF Insert, TypeOK
  <2>4. req' = [x \in Requests |-> IF x = r THEN Done(r, n) ELSE Missed(x, Current(r), Uncounted(Current(r)))]
    BY <1>7 DEF Insert
  <2>5. Done(r, n).pc \in {"check", "insert", "save", "idle"}
    BY <2>1, CloseType DEF Done, Advance, Idle, TypeOK, Request
  <2> HIDE DEF n
  <2>6. req' \in [Requests -> Request]
    BY <2>1, <2>4, DoneType, MissedType
  <2>7. ASSUME NEW x \in Requests
        PROVE  /\ req'[x].pc \in {"check", "insert"} => req'[x].turn \in DOMAIN req'[x].result
               /\ req'[x].pc \in {"count", "analyse"} => req'[x].turn = 1
               /\ req'[x].pc = "count" /\ req'[x].serves # "create" => req'[x].turn \in DOMAIN req'[x].result
               /\ req'[x].pc = "analyse" => req'[x].serves = "create"
    <3>1. CASE x = r
      BY <2>1, <2>4, <2>5, <3>1, DoneType
    <3>2. CASE x # r
      <4>1. req'[x] = Missed(x, Current(r), Uncounted(Current(r)))
        BY <2>4, <3>2
      <4>2. /\ req'[x].pc = req[x].pc /\ req'[x].turn = req[x].turn
            /\ req'[x].result = req[x].result /\ req'[x].serves = req[x].serves
        BY <4>1, MissedType
      <4> QED
        BY <4>2 DEF TypeOK, Pointed
    <3> QED
      BY <3>1, <3>2
  <2> QED
    BY <2>1, <2>2, <2>6, <2>7 DEF TypeOK, Pointed
<1>8. ASSUME NEW r \in Requests, Save(r) \/ Fail(r) PROVE TypeInv'
  BY <1>8, EndType DEF Save, Fail
<1>9. ASSUME NEW p \in Plans, UpdatePlan(p) PROVE TypeInv'
  BY <1>9 DEF UpdatePlan, TypeOK, Pointed
<1>10. ASSUME NEW i \in DOMAIN stored, UpdateSuggestionStatus(i) PROVE TypeInv'
  <2>1. stored' \in Seq(Suggestion)
    BY <1>10, RowsChange
  <2>2. req' = [x \in Requests |-> Missed(x, stored[i], {})]
    BY <1>10 DEF UpdateSuggestionStatus
  <2>3. ASSUME NEW x \in Requests
        PROVE  /\ req'[x] \in Request /\ req'[x].pc = req[x].pc /\ req'[x].turn = req[x].turn
               /\ req'[x].result = req[x].result /\ req'[x].serves = req[x].serves
    <3>1. req'[x] = Missed(x, stored[i], {})
      BY <2>2
    <3> QED
      BY <3>1, MissedType
  <2>4. req' \in [Requests -> Request] /\ plan' = plan
    BY <1>10, <2>2, <2>3 DEF UpdateSuggestionStatus
  <2> QED
    BY <2>1, <2>3, <2>4 DEF TypeOK, Pointed
<1>11. CASE NewMonth
  <2>1. stored' \in Seq(Suggestion)
    BY <1>11, RowsChange
  <2>2. ASSUME NEW x \in Requests
        PROVE  /\ req'[x] \in Request /\ req'[x].pc = req[x].pc /\ req'[x].turn = req[x].turn
               /\ req'[x].result = req[x].result /\ req'[x].serves = req[x].serves
    BY <1>11 DEF NewMonth, TypeOK, Request
  <2>3. req' \in [Requests -> Request] /\ plan' = plan
    BY <1>11, <2>2 DEF NewMonth
  <2> QED
    BY <2>1, <2>2, <2>3 DEF TypeOK, Pointed
<1>12. ASSUME NEW i \in DOMAIN stored, Age(i) PROVE TypeInv'
  <2>1. stored' \in Seq(Suggestion)
    BY <1>12, RowsChange
  <2> QED
    BY <1>12, <2>1 DEF Age, TypeOK, Pointed
<1>13. CASE UNCHANGED vars
  BY <1>13 DEF vars, TypeOK, Pointed
<1> QED
  BY <1>1, <1>2, <1>3, <1>4, <1>5, <1>6, <1>7, <1>8, <1>9, <1>10, <1>11, <1>12, <1>13
  DEF Next, Step, Environment

\* Type correctness of the requests and the table, for every quota and any
\* number of requests.
THEOREM TypeCorrect == Spec => []TypeOK
<1>1. Init => TypeInv
  BY IdleType DEF Init, TypeInv, TypeOK, Pointed, Idle
<1>2. TypeInv => TypeOK
  BY DEF TypeInv
<1> QED
  BY <1>1, <1>2, TypeStep, PTL DEF Spec

-----------------------------------------------------------------------------
(* What a request knows about the table, by where it is. *)

AdvicesIn(st)   == {i \in DOMAIN st : st[i].month /\ ~st[i].setup}
HasTitle(st, t) == \E i \in DOMAIN st : st[i].title = t

\* After its count, unless another one filed since: no more advices than counted.
Fresh(q, st) ==
  q.pc \in {"analyse", "check", "insert"} /\ ~q.lap => Cardinality(AdvicesIn(st)) <= q.used

\* What is about to be filed was admitted.
Admitted(q) ==
  /\ q.serves = "create" /\ q.pc \in {"analyse", "check", "insert"} /\ q.limit >= 0
       => q.used < q.limit
  /\ q.serves # "create" /\ q.pc = "insert" /\ ~q.result[q.turn].setup /\ q.limit >= 0
       => q.used < q.limit

\* In the month of its count, what the panel's request counted is there.
Exact(q, st) ==
  /\ q.serves = "run" /\ q.pc \in {"check", "insert"} /\ ~q.roll
       => q.used <= Cardinality(AdvicesIn(st))
  /\ q.reached => q.pc = "save" /\ q.serves = "run"
  /\ q.reached /\ ~q.roll => q.limit <= Cardinality(AdvicesIn(st))

\* What is about to be filed is not there, unless it came since the look.
Looked(q, st) ==
  q.pc = "insert" /\ ~q.slip =>
    \A i \in DOMAIN st :
      st[i].title = q.result[q.turn].title
      => ~st[i].open /\ (q.serves # "create" => ~st[i].recent)

\* What a request went past is there.
Past(q, st) ==
  /\ q.pc \in {"check", "insert"} => \A k \in 1..(q.turn - 1) : HasTitle(st, q.result[k].title)
  /\ q.pc = "save" /\ ~q.reached => \A k \in DOMAIN q.result : HasTitle(st, q.result[k].title)

Good(q, st) == Fresh(q, st) /\ Admitted(q) /\ Exact(q, st) /\ Looked(q, st) /\ Past(q, st)

ProposalInv == TypeInv /\ \A r \in Requests : Good(req[r], stored)

\* An idle request knows nothing.
LEMMA IdleGood == ASSUME NEW st PROVE Good(Idle, st)
  BY DEF Good, Idle, Fresh, Admitted, Exact, Looked, Past

\* Advices can be counted.
LEMMA AdvicesType ==
  ASSUME NEW st \in Seq(Suggestion)
  PROVE  IsFiniteSet(AdvicesIn(st)) /\ Cardinality(AdvicesIn(st)) \in Nat
<1>1. IsFiniteSet(1..Len(st)) /\ AdvicesIn(st) \subseteq 1..Len(st)
  BY FS_Interval DEF AdvicesIn
<1> QED
  BY <1>1, FS_Subset, FS_CardinalityType

\* Closing after the last proposal.
LEMMA CloseGood ==
  ASSUME ProposalInv, NEW r \in Requests, req[r].pc \in {"check", "insert"}, NEW st,
         \A k \in DOMAIN req[r].result : HasTitle(st, req[r].result[k].title)
  PROVE  Good(Close(r), st)
<1>1. req[r] \in Request /\ ~req[r].reached
  BY DEF ProposalInv, TypeInv, TypeOK, Good, Exact
<1>2. CASE req[r].serves = "run"
  BY <1>1, <1>2 DEF Close, Request, Good, Fresh, Admitted, Exact, Looked, Past
<1>3. CASE req[r].serves # "run"
  BY <1>3, IdleGood DEF Close
<1> QED
  BY <1>2, <1>3

\* On to the next proposal, once the current one is on the account.
LEMMA AdvanceGood ==
  ASSUME ProposalInv, NEW r \in Requests, req[r].pc \in {"check", "insert"},
         NEW st \in Seq(Suggestion), NEW n \in Nat,
         \A t : HasTitle(stored, t) => HasTitle(st, t),
         HasTitle(st, Current(r).title),
         ~req[r].lap => Cardinality(AdvicesIn(st)) <= n,
         req[r].serves = "run" /\ ~req[r].roll => n <= Cardinality(AdvicesIn(st)),
         req[r].serves = "create" => n = req[r].used
  PROVE  Good(Advance(r, n), st)
<1>1. req[r] \in Request /\ ~req[r].reached /\ Good(req[r], stored)
  BY DEF ProposalInv, TypeInv, TypeOK, Good, Exact
<1>2. req[r].turn \in 1..Len(req[r].result) /\ Len(req[r].result) \in Nat
  BY CurrentType DEF ProposalInv, TypeInv
<1>3. \A k \in 1..req[r].turn : HasTitle(st, req[r].result[k].title)
  <2> TAKE k \in 1..req[r].turn
  <2>1. CASE k = req[r].turn
    BY <2>1 DEF Current
  <2>2. CASE k # req[r].turn
    <3>1. k \in 1..(req[r].turn - 1)
      BY <1>2, <2>2
    <3> QED
      BY <1>1, <3>1 DEF Good, Past
  <2> QED
    BY <2>1, <2>2
<1>4. CASE req[r].turn < Len(req[r].result)
  <2> DEFINE R == [req[r] EXCEPT !.pc = "check", !.turn = @ + 1, !.used = n, !.slip = FALSE]
  <2>1. /\ R.pc = "check" /\ R.turn = req[r].turn + 1 /\ R.used = n /\ R.result = req[r].result
        /\ R.serves = req[r].serves /\ R.limit = req[r].limit /\ R.reached = req[r].reached
        /\ R.lap = req[r].lap /\ R.roll = req[r].roll
    BY <1>1 DEF Request
  <2>2. R.turn - 1 = req[r].turn
    BY <1>2, <2>1
  <2> HIDE DEF R
  <2>3. Fresh(R, st)
    BY <2>1 DEF Fresh
  <2>4. Admitted(R)
    BY <1>1, <2>1 DEF Admitted, Good
  <2>5. Exact(R, st)
    BY <1>1, <2>1 DEF Exact
  <2>6. Looked(R, st) /\ Past(R, st)
    BY <1>3, <2>1, <2>2 DEF Looked, Past
  <2> QED
    BY <1>4, <2>3, <2>4, <2>5, <2>6 DEF Advance, R, Good
<1>5. CASE ~(req[r].turn < Len(req[r].result))
  <2>1. DOMAIN req[r].result = 1..req[r].turn
    BY <1>1, <1>2, <1>5 DEF Request
  <2> QED
    BY <1>3, <1>5, <2>1, CloseGood DEF Advance
<1> QED
  BY <1>4, <1>5

\* A request that missed what was put on the account knows as much as before,
\* but for the advices and the title it missed.
LEMMA MissedGood ==
  ASSUME ProposalInv, NEW x \in Requests, NEW p, NEW c, NEW st \in Seq(Suggestion),
         \A t : HasTitle(stored, t) => HasTitle(st, t),
         Cardinality(AdvicesIn(stored)) <= Cardinality(AdvicesIn(st)),
         \/ Cardinality(AdvicesIn(st)) <= Cardinality(AdvicesIn(stored))
         \/ c = {"analyse", "check", "insert"},
         \A i \in DOMAIN st : st[i].title # p.title =>
            i \in DOMAIN stored /\ stored[i].title = st[i].title /\ stored[i].open = st[i].open
            /\ (st[i].recent => stored[i].recent)
  PROVE  Good(Missed(x, p, c), st)
<1> DEFINE R == Missed(x, p, c)
<1>1. req[x] \in Request /\ Good(req[x], stored)
  BY DEF ProposalInv, TypeInv, TypeOK
<1>2. /\ R.pc = req[x].pc /\ R.turn = req[x].turn /\ R.used = req[x].used /\ R.result = req[x].result
      /\ R.serves = req[x].serves /\ R.limit = req[x].limit /\ R.reached = req[x].reached
      /\ R.roll = req[x].roll
      /\ ~R.lap => ~req[x].lap /\ req[x].pc \notin c
      /\ ~R.slip => ~req[x].slip /\ ~(req[x].pc = "insert" /\ Current(x).title = p.title)
  BY <1>1 DEF Missed, Request
<1>3. Cardinality(AdvicesIn(st)) \in Nat /\ Cardinality(AdvicesIn(stored)) \in Nat
  BY AdvicesType DEF ProposalInv, TypeInv, TypeOK
<1>4. req[x].used \in Nat /\ req[x].limit \in Int
  BY <1>1 DEF Request
<1> HIDE DEF R
<1>5. Fresh(R, st)
  BY <1>1, <1>2, <1>3, <1>4 DEF Fresh, Good
<1>6. Admitted(R)
  BY <1>1, <1>2 DEF Admitted, Good
<1>7. Exact(R, st)
  BY <1>1, <1>2, <1>3, <1>4 DEF Exact, Good
<1>8. Looked(R, st)
  <2> SUFFICES ASSUME R.pc = "insert", ~R.slip, NEW i \in DOMAIN st,
                      st[i].title = R.result[R.turn].title
               PROVE  ~st[i].open /\ (R.serves # "create" => ~st[i].recent)
    BY DEF Looked
  <2>1. st[i].title # p.title
    BY <1>2 DEF Current
  <2>2. i \in DOMAIN stored /\ stored[i].title = st[i].title /\ stored[i].open = st[i].open
        /\ (st[i].recent => stored[i].recent)
    BY <2>1
  <2> QED
    BY <1>1, <1>2, <2>2 DEF Looked, Good
<1>9. Past(R, st)
  BY <1>1, <1>2 DEF Past, Good
<1> QED
  BY <1>5, <1>6, <1>7, <1>8, <1>9 DEF Good, R

\* A step of one request that leaves the table alone.
LEMMA LocalGood ==
  ASSUME ProposalInv, TypeInv', NEW r \in Requests, NEW R, Good(R, stored),
         req' = [req EXCEPT ![r] = R], stored' = stored
  PROVE  ProposalInv'
  BY DEF ProposalInv, TypeInv, TypeOK

\* One more suggestion.
LEMMA FiledRows ==
  ASSUME ProposalInv, NEW r \in Requests, req[r].pc = "insert",
         stored' = Append(stored, Filed(Current(r)))
  PROVE  /\ stored' \in Seq(Suggestion)
         /\ \A t : HasTitle(stored, t) => HasTitle(stored', t)
         /\ HasTitle(stored', Current(r).title)
         /\ Cardinality(AdvicesIn(stored')) =
              Cardinality(AdvicesIn(stored)) + (IF Current(r).setup THEN 0 ELSE 1)
         /\ \A i \in DOMAIN stored' : stored'[i].title # Current(r).title =>
              i \in DOMAIN stored /\ stored[i] = stored'[i]
<1> DEFINE n == Len(stored) + 1
           f == Filed(Current(r))
<1>1. stored \in Seq(Suggestion) /\ f \in Suggestion /\ Current(r).setup \in BOOLEAN
  BY FiledType, CurrentType DEF ProposalInv, TypeInv, TypeOK, Proposal
<1>2. /\ stored' \in Seq(Suggestion) /\ DOMAIN stored' = 1..n /\ DOMAIN stored = 1..(n - 1)
      /\ Len(stored) \in Nat /\ stored'[n] = f /\ \A i \in 1..(n - 1) : stored'[i] = stored[i]
  BY <1>1
<1>3. f.title = Current(r).title /\ f.setup = Current(r).setup /\ f.month = TRUE
  BY DEF Filed
<1> HIDE DEF f
<1>4. \A i \in DOMAIN stored : i \in DOMAIN stored' /\ stored'[i] = stored[i]
  BY <1>2
<1>5. n \in DOMAIN stored' /\ n \notin DOMAIN stored
  BY <1>2
<1>6. AdvicesIn(stored') = IF Current(r).setup THEN AdvicesIn(stored) ELSE AdvicesIn(stored) \cup {n}
  BY <1>2, <1>3, <1>4, <1>5 DEF AdvicesIn
<1>7. IsFiniteSet(AdvicesIn(stored)) /\ n \notin AdvicesIn(stored) /\ Cardinality(AdvicesIn(stored)) \in Nat
  BY <1>1, <1>5, AdvicesType DEF AdvicesIn
<1>8. Cardinality(AdvicesIn(stored')) = Cardinality(AdvicesIn(stored)) + (IF Current(r).setup THEN 0 ELSE 1)
  <2>1. Cardinality(AdvicesIn(stored) \cup {n}) = Cardinality(AdvicesIn(stored)) + 1
    BY <1>7, FS_AddElement
  <2> QED
    BY <1>6, <1>7, <2>1
<1>9. \A t : HasTitle(stored, t) => HasTitle(stored', t)
  BY <1>4 DEF HasTitle
<1>10. HasTitle(stored', Current(r).title)
  BY <1>2, <1>3, <1>5 DEF HasTitle
<1>11. \A i \in DOMAIN stored' : stored'[i].title # Current(r).title =>
              i \in DOMAIN stored /\ stored[i] = stored'[i]
  BY <1>2, <1>3
<1> QED
  BY <1>2, <1>8, <1>9, <1>10, <1>11

\* What a request files is admitted, and the others miss it.
LEMMA InsertGood ==
  ASSUME ProposalInv, TypeInv', NEW r \in Requests, Insert(r)
  PROVE  ProposalInv'
<1> DEFINE p == Current(r)
           n == IF p.setup THEN req[r].used ELSE req[r].used + 1
           card == Cardinality(AdvicesIn(stored))
<1>1. /\ req[r] \in Request /\ Good(req[r], stored) /\ req[r].pc = "insert" /\ p.setup \in BOOLEAN
      /\ stored' = Append(stored, Filed(p)) /\ card \in Nat
  BY CurrentType, AdvicesType DEF ProposalInv, TypeInv, TypeOK, Proposal, Insert
<1>2. req' = [x \in Requests |-> IF x = r THEN Done(r, n) ELSE Missed(x, p, Uncounted(p))]
  BY DEF Insert
<1>3. req[r].used \in Nat /\ n \in Nat /\ n = req[r].used + (IF p.setup THEN 0 ELSE 1)
  BY <1>1 DEF Request
<1>4. /\ stored' \in Seq(Suggestion)
      /\ \A t : HasTitle(stored, t) => HasTitle(stored', t)
      /\ HasTitle(stored', p.title)
      /\ Cardinality(AdvicesIn(stored')) = card + (IF p.setup THEN 0 ELSE 1)
      /\ \A i \in DOMAIN stored' : stored'[i].title # p.title =>
              i \in DOMAIN stored /\ stored[i] = stored'[i]
  BY <1>1, FiledRows
<1> HIDE DEF p, n, card
<1>5. Good(Done(r, n), stored')
  <2>1. CASE req[r].serves = "create"
    BY <2>1, IdleGood DEF Done
  <2>2. CASE req[r].serves # "create"
    <3>1. ~req[r].lap => Cardinality(AdvicesIn(stored')) <= n
      BY <1>1, <1>3, <1>4 DEF Good, Fresh, card
    <3>2. req[r].serves = "run" /\ ~req[r].roll => n <= Cardinality(AdvicesIn(stored'))
      BY <1>1, <1>3, <1>4 DEF Good, Exact, card
    <3>3. Good(Advance(r, n), stored')
      BY <1>1, <1>3, <1>4, <2>2, <3>1, <3>2, AdvanceGood DEF p
    <3> QED
      BY <2>2, <3>3 DEF Done
  <2> QED
    BY <2>1, <2>2
<1>6. ASSUME NEW x \in Requests, x # r PROVE Good(Missed(x, p, Uncounted(p)), stored')
  <2>1. Cardinality(AdvicesIn(stored')) <= card \/ Uncounted(p) = {"analyse", "check", "insert"}
    BY <1>1, <1>4 DEF Uncounted
  <2>2. card <= Cardinality(AdvicesIn(stored'))
    BY <1>1, <1>4
  <2> QED
    BY <1>4, <2>1, <2>2, MissedGood DEF card
<1>7. ASSUME NEW x \in Requests PROVE Good(req'[x], stored')
  BY <1>2, <1>5, <1>6
<1> QED
  BY <1>7 DEF ProposalInv

\* A status the owner writes may make a title pending again.
LEMMA StatusGood ==
  ASSUME ProposalInv, TypeInv', NEW i \in DOMAIN stored, UpdateSuggestionStatus(i)
  PROVE  ProposalInv'
<1> DEFINE p == stored[i]
<1>1. stored \in Seq(Suggestion) /\ stored' \in Seq(Suggestion)
  BY DEF ProposalInv, TypeInv, TypeOK
<1>2. /\ DOMAIN stored' = DOMAIN stored
      /\ \A j \in DOMAIN stored : /\ j # i => stored'[j] = stored[j]
                                  /\ stored'[j].title = stored[j].title
                                  /\ stored'[j].setup = stored[j].setup
                                  /\ stored'[j].month = stored[j].month
  BY <1>1 DEF UpdateSuggestionStatus, Suggestion
<1>3. req' = [x \in Requests |-> Missed(x, p, {})]
  BY DEF UpdateSuggestionStatus
<1> HIDE DEF p
<1>4. AdvicesIn(stored') = AdvicesIn(stored)
  BY <1>2 DEF AdvicesIn
<1>5. \A t : HasTitle(stored, t) => HasTitle(stored', t)
  BY <1>2 DEF HasTitle
<1>6. \A j \in DOMAIN stored' : stored'[j].title # p.title => j \in DOMAIN stored /\ stored[j] = stored'[j]
  BY <1>2 DEF p
<1>7. Cardinality(AdvicesIn(stored)) \in Nat
  BY <1>1, AdvicesType
<1>8. ASSUME NEW x \in Requests PROVE Good(req'[x], stored')
  <2>1. Good(Missed(x, p, {}), stored')
    BY <1>1, <1>4, <1>5, <1>6, <1>7, MissedGood
  <2> QED
    BY <1>3, <2>1
<1> QED
  BY <1>8 DEF ProposalInv

\* A new month has no advices yet.
LEMMA NewMonthGood ==
  ASSUME ProposalInv, TypeInv', NewMonth
  PROVE  ProposalInv'
<1>1. /\ DOMAIN stored' = DOMAIN stored
      /\ \A j \in DOMAIN stored : /\ stored'[j].title = stored[j].title
                                  /\ stored'[j].open = stored[j].open
                                  /\ stored'[j].recent = stored[j].recent
                                  /\ ~stored'[j].month
  <2>1. stored \in [1..Len(stored) -> Suggestion] /\ DOMAIN stored = 1..Len(stored)
    BY LenProperties DEF ProposalInv, TypeInv, TypeOK
  <2>2. stored' = [j \in DOMAIN stored |-> [stored[j] EXCEPT !.month = FALSE]]
    BY DEF NewMonth
  <2> QED
    BY <2>1, <2>2 DEF Suggestion
<1>2. AdvicesIn(stored') = {}
  BY <1>1 DEF AdvicesIn
<1>3. Cardinality(AdvicesIn(stored')) = 0
  BY <1>2, FS_EmptySet
<1>4. \A t : HasTitle(stored, t) => HasTitle(stored', t)
  BY <1>1 DEF HasTitle
<1>5. ASSUME NEW x \in Requests PROVE Good(req'[x], stored')
  <2> DEFINE R == [req[x] EXCEPT !.roll =
               @ \/ (req[x].serves = "run" /\ req[x].pc \in {"check", "insert", "save"})]
  <2>1. req[x] \in Request /\ Good(req[x], stored) /\ req'[x] = R
    BY DEF ProposalInv, TypeInv, TypeOK, NewMonth
  <2>2. /\ R.pc = req[x].pc /\ R.turn = req[x].turn /\ R.used = req[x].used /\ R.serves = req[x].serves
        /\ R.limit = req[x].limit /\ R.reached = req[x].reached /\ R.lap = req[x].lap
        /\ R.slip = req[x].slip /\ R.result = req[x].result /\ R.used \in Nat
        /\ req[x].serves = "run" /\ req[x].pc \in {"check", "insert", "save"} => R.roll
    BY <2>1 DEF Request
  <2> HIDE DEF R
  <2>3. Fresh(R, stored') /\ Admitted(R) /\ Exact(R, stored')
    BY <1>3, <2>1, <2>2 DEF Good, Fresh, Admitted, Exact
  <2>4. Looked(R, stored')
    BY <1>1, <2>1, <2>2 DEF Good, Looked
  <2>5. Past(R, stored')
    BY <1>4, <2>1, <2>2 DEF Good, Past
  <2> QED
    BY <2>1, <2>3, <2>4, <2>5 DEF Good
<1> QED
  BY <1>5 DEF ProposalInv

\* Time only makes a suggestion less recent.
LEMMA AgeGood ==
  ASSUME ProposalInv, TypeInv', NEW i \in DOMAIN stored, Age(i)
  PROVE  ProposalInv'
<1>1. /\ DOMAIN stored' = DOMAIN stored
      /\ \A j \in DOMAIN stored : /\ stored'[j].title = stored[j].title
                                  /\ stored'[j].setup = stored[j].setup
                                  /\ stored'[j].month = stored[j].month
  <2>1. stored \in [1..Len(stored) -> Suggestion] /\ DOMAIN stored = 1..Len(stored)
    BY LenProperties DEF ProposalInv, TypeInv, TypeOK
  <2>2. stored' = [stored EXCEPT ![i].recent = FALSE]
    BY DEF Age
  <2> QED
    BY <2>1, <2>2 DEF Suggestion
<1>5. \A j \in DOMAIN stored : /\ stored'[j].open => stored[j].open
                               /\ stored'[j].recent => stored[j].recent
  <2>1. stored \in [1..Len(stored) -> Suggestion] /\ DOMAIN stored = 1..Len(stored)
    BY LenProperties DEF ProposalInv, TypeInv, TypeOK
  <2>2. stored' = [stored EXCEPT ![i].recent = FALSE]
    BY DEF Age
  <2> QED
    BY <2>1, <2>2 DEF Suggestion
<1>2. AdvicesIn(stored') = AdvicesIn(stored)
  BY <1>1 DEF AdvicesIn
<1>3. \A t : HasTitle(stored, t) => HasTitle(stored', t)
  BY <1>1 DEF HasTitle
<1>4. ASSUME NEW x \in Requests PROVE Good(req[x], stored')
  <2>1. Good(req[x], stored)
    BY DEF ProposalInv
  <2>2. Fresh(req[x], stored') /\ Admitted(req[x]) /\ Exact(req[x], stored')
    <3>1. Fresh(req[x], stored')
      BY <1>2, <2>1 DEF Good, Fresh
    <3>2. Admitted(req[x])
      BY <2>1 DEF Good
    <3>3. Exact(req[x], stored')
      BY <1>2, <2>1 DEF Good, Exact
    <3> QED
      BY <3>1, <3>2, <3>3
  <2>3. Looked(req[x], stored')
    <3> SUFFICES ASSUME req[x].pc = "insert", ~req[x].slip, NEW j \in DOMAIN stored',
                        stored'[j].title = req[x].result[req[x].turn].title
                 PROVE  ~stored'[j].open /\ (req[x].serves # "create" => ~stored'[j].recent)
      BY DEF Looked
    <3>1. j \in DOMAIN stored /\ stored[j].title = req[x].result[req[x].turn].title
      BY <1>1
    <3>2. ~stored[j].open /\ (req[x].serves # "create" => ~stored[j].recent)
      BY <2>1, <3>1 DEF Good, Looked
    <3> QED
      <4>1. (stored'[j].open => stored[j].open) /\ (stored'[j].recent => stored[j].recent)
        BY <1>5, <3>1
      <4> QED
        BY <3>2, <4>1
  <2>4. Past(req[x], stored')
    BY <1>3, <2>1 DEF Good, Past
  <2> QED
    BY <2>2, <2>3, <2>4 DEF Good
<1> QED
  BY <1>4 DEF ProposalInv, Age

\* Every step keeps what requests know.
LEMMA ProposalStep == ProposalInv /\ [Next]_vars => ProposalInv'
<1> SUFFICES ASSUME ProposalInv, [Next]_vars PROVE ProposalInv'
  OBVIOUS
<1>0. TypeInv'
  BY TypeStep DEF ProposalInv
<1>a. ASSUME NEW r \in Requests, End(r), stored' = stored PROVE ProposalInv'
  <2>1. req' = [req EXCEPT ![r] = Idle]
    BY <1>a DEF End
  <2> QED
    BY <1>0, <1>a, <2>1, IdleGood, LocalGood
<1>b. ASSUME NEW r \in Requests, NEW k, NEW s, NEW q, NEW label \in {"count", "save"},
             label = "save" => q = <<>>, Start(r, k, s, q, label)
      PROVE  ProposalInv'
  <2> DEFINE R == [Idle EXCEPT !.pc = label, !.serves = k, !.about = s, !.result = q, !.limit = LimitOf(plan)]
  <2>1. R.pc = label /\ R.result = q /\ R.reached = FALSE
    BY DEF Idle
  <2>2. req' = [req EXCEPT ![r] = R] /\ stored' = stored
    BY <1>b DEF Start
  <2> HIDE DEF R
  <2>3. Good(R, stored)
    BY <1>b, <2>1 DEF Good, Fresh, Admitted, Exact, Looked, Past
  <2> QED
    BY <1>0, <2>2, <2>3, LocalGood
<1>1. ASSUME NEW r \in Requests, NEW s \in Sections, RunInsights(r, s) PROVE ProposalInv'
  <2>1. PICK a \in Results :
          Start(r, "run", "none", a[2], IF a[2] = <<>> THEN "save" ELSE "count")
    BY <1>1 DEF RunInsights
  <2> QED
    BY <1>b, <2>1
<1>2. ASSUME NEW r \in Requests, NEW s \in Sections, CreateSuggestion(r, s) PROVE ProposalInv'
  BY <1>2, <1>b DEF CreateSuggestion
<1>3. ASSUME NEW r \in Requests, SetBusinessType(r) PROVE ProposalInv'
  BY <1>3, <1>b DEF SetBusinessType
<1>4. ASSUME NEW r \in Requests, Count(r) PROVE ProposalInv'
  <2>1. /\ Cardinality(AdvicesIn(stored)) \in Nat /\ Counted = AdvicesIn(stored)
        /\ req[r] \in Request /\ ~req[r].reached /\ req[r].turn = 1 /\ req[r].pc = "count"
    BY <1>4, AdvicesType DEF ProposalInv, TypeInv, TypeOK, Pointed, Count, Good, Exact, Counted, AdvicesIn
  <2>2. CASE End(r)
    BY <1>4, <1>a, <2>2 DEF Count
  <2>3. CASE /\ ~(req[r].serves = "create" /\ req[r].limit >= 0 /\ Cardinality(Counted) >= req[r].limit)
             /\ req' = [req EXCEPT ![r].used = Cardinality(Counted),
                                  ![r].pc = IF req[r].serves = "create" THEN "analyse" ELSE "check"]
    <3> DEFINE R == [req[r] EXCEPT !.used = Cardinality(Counted),
                                   !.pc = IF req[r].serves = "create" THEN "analyse" ELSE "check"]
    <3>1. /\ R.used = Cardinality(Counted) /\ R.serves = req[r].serves /\ R.limit = req[r].limit
          /\ R.turn = 1 /\ R.reached = FALSE /\ R.limit \in Int
          /\ R.pc = IF req[r].serves = "create" THEN "analyse" ELSE "check"
      BY <2>1 DEF Request
    <3>2. req' = [req EXCEPT ![r] = R]
      BY <2>3
    <3> HIDE DEF R
    <3>3. Good(R, stored)
      BY <2>1, <2>3, <3>1 DEF Good, Fresh, Admitted, Exact, Looked, Past
    <3> QED
      BY <1>0, <1>4, <3>2, <3>3, LocalGood DEF Count
  <2> QED
    BY <1>4, <2>2, <2>3 DEF Count
<1>5. ASSUME NEW r \in Requests, Analyse(r) PROVE ProposalInv'
  <2>1. req[r] \in Request /\ Good(req[r], stored) /\ req[r].turn = 1 /\ req[r].pc = "analyse"
    BY <1>5 DEF ProposalInv, TypeInv, TypeOK, Pointed, Analyse
  <2>2. PICK a \in Results :
          IF a[2] = <<>> THEN End(r)
          ELSE req' = [req EXCEPT ![r].result = a[2], ![r].about = "none", ![r].pc = "check"]
    BY <1>5 DEF Analyse
  <2>3. CASE End(r)
    BY <1>5, <1>a, <2>3 DEF Analyse
  <2>4. CASE req' = [req EXCEPT ![r].result = a[2], ![r].about = "none", ![r].pc = "check"]
    <3> DEFINE R == [req[r] EXCEPT !.result = a[2], !.about = "none", !.pc = "check"]
    <3>1. /\ R.pc = "check" /\ R.turn = 1 /\ R.used = req[r].used /\ R.serves = req[r].serves
          /\ R.limit = req[r].limit /\ R.reached = req[r].reached /\ R.lap = req[r].lap
          /\ R.roll = req[r].roll
      BY <2>1 DEF Request
    <3>2. req' = [req EXCEPT ![r] = R]
      BY <2>4
    <3> HIDE DEF R
    <3>3. req[r].serves = "create"
      BY <2>1 DEF ProposalInv, TypeInv, Pointed
    <3>4. Good(R, stored)
      BY <2>1, <3>1, <3>3 DEF Good, Fresh, Admitted, Exact, Looked, Past
    <3> QED
      BY <1>0, <1>5, <3>2, <3>4, LocalGood DEF Analyse
  <2> QED
    BY <2>2, <2>3, <2>4
<1>6. ASSUME NEW r \in Requests, Check(r) PROVE ProposalInv'
  <2>1. /\ req[r] \in Request /\ Good(req[r], stored) /\ req[r].pc = "check" /\ stored' = stored
        /\ stored \in Seq(Suggestion) /\ ~req[r].reached /\ req[r].used \in Nat /\ req[r].limit \in Int
    BY <1>6 DEF ProposalInv, TypeInv, TypeOK, Check, Good, Exact, Request
  <2>2. CASE Taken(r) /\ req' = [req EXCEPT ![r] = Advance(r, req[r].used)]
    <3>1. HasTitle(stored, Current(r).title)
      BY <2>2 DEF Taken, TakenOpen, TakenRecent, HasTitle
    <3>2. ~req[r].lap => Cardinality(AdvicesIn(stored)) <= req[r].used
      BY <2>1 DEF Good, Fresh
    <3>3. req[r].serves = "run" /\ ~req[r].roll => req[r].used <= Cardinality(AdvicesIn(stored))
      BY <2>1 DEF Good, Exact
    <3>4. Good(Advance(r, req[r].used), stored)
      BY <2>1, <3>1, <3>2, <3>3, AdvanceGood
    <3> QED
      BY <1>0, <2>1, <2>2, <3>4, LocalGood
  <2>3. CASE Full(r) /\ req' = [req EXCEPT ![r] = [Close(r) EXCEPT !.reached = (req[r].serves = "run")]]
    <3> DEFINE R == [Close(r) EXCEPT !.reached = (req[r].serves = "run")]
    <3>1. CASE req[r].serves = "run"
      <4>1. /\ R.pc = "save" /\ R.serves = "run" /\ R.reached = TRUE /\ R.limit = req[r].limit
            /\ R.roll = req[r].roll
        BY <2>1, <3>1 DEF Close, Request
      <4>2. req[r].used >= req[r].limit
        BY <2>3 DEF Full
      <4>3. Cardinality(AdvicesIn(stored)) \in Nat
        BY <2>1, AdvicesType
      <4> HIDE DEF R
      <4>4. Good(R, stored)
        <5>1. req[r].used <= Cardinality(AdvicesIn(stored)) \/ R.roll
          BY <2>1, <3>1, <4>1 DEF Good, Exact
        <5>2. R.roll \/ R.limit <= Cardinality(AdvicesIn(stored))
          BY <2>1, <4>1, <4>2, <4>3, <5>1
        <5> QED
          BY <4>1, <5>2 DEF Good, Fresh, Admitted, Exact, Looked, Past
      <4>5. req' = [req EXCEPT ![r] = R]
        BY <2>3 DEF R
      <4> QED
        BY <1>0, <2>1, <4>4, <4>5, LocalGood
    <3>2. CASE req[r].serves # "run"
      <4>1. R.pc = "idle" /\ ~R.reached
        BY <3>2 DEF Close, Idle
      <4>2. req' = [req EXCEPT ![r] = R]
        BY <2>3
      <4> HIDE DEF R
      <4>3. Good(R, stored)
        BY <4>1 DEF Good, Fresh, Admitted, Exact, Looked, Past
      <4> QED
        BY <1>0, <2>1, <4>2, <4>3, LocalGood
    <3> QED
      BY <3>1, <3>2
  <2>4. CASE ~Taken(r) /\ ~Full(r) /\ req' = [req EXCEPT ![r].pc = "insert"]
    <3> DEFINE R == [req[r] EXCEPT !.pc = "insert"]
    <3>1. /\ R.pc = "insert" /\ R.turn = req[r].turn /\ R.used = req[r].used /\ R.serves = req[r].serves
          /\ R.limit = req[r].limit /\ R.reached = req[r].reached /\ R.lap = req[r].lap
          /\ R.roll = req[r].roll /\ R.result = req[r].result
      BY <2>1 DEF Request
    <3> HIDE DEF R
    <3>2. Fresh(R, stored) /\ Exact(R, stored) /\ Past(R, stored)
      BY <2>1, <3>1 DEF Good, Fresh, Exact, Past
    <3>3. Admitted(R)
      BY <2>1, <2>4, <3>1 DEF Good, Admitted, Full, Current
    <3>4. Looked(R, stored)
      BY <2>1, <2>4, <3>1 DEF Looked, Taken, TakenOpen, TakenRecent, Current
    <3>5. req' = [req EXCEPT ![r] = R]
      BY <2>4 DEF R
    <3> QED
      BY <1>0, <2>1, <3>2, <3>3, <3>4, <3>5, LocalGood DEF Good
  <2> QED
    BY <1>6, <2>2, <2>3, <2>4 DEF Check
<1>7. ASSUME NEW r \in Requests, Insert(r) PROVE ProposalInv'
  BY <1>0, <1>7, InsertGood
<1>8. ASSUME NEW r \in Requests, Save(r) \/ Fail(r) PROVE ProposalInv'
  BY <1>8, <1>a DEF Save, Fail
<1>9. ASSUME NEW p \in Plans, UpdatePlan(p) PROVE ProposalInv'
  BY <1>0, <1>9 DEF UpdatePlan, ProposalInv
<1>10. ASSUME NEW i \in DOMAIN stored, UpdateSuggestionStatus(i) PROVE ProposalInv'
  BY <1>0, <1>10, StatusGood
<1>11. CASE NewMonth
  BY <1>0, <1>11, NewMonthGood
<1>12. ASSUME NEW i \in DOMAIN stored, Age(i) PROVE ProposalInv'
  BY <1>0, <1>12, AgeGood
<1>13. CASE UNCHANGED vars
  BY <1>0, <1>13 DEF vars, ProposalInv
<1> QED
  BY <1>1, <1>2, <1>3, <1>4, <1>5, <1>6, <1>7, <1>8, <1>9, <1>10, <1>11, <1>12, <1>13
  DEF Next, Step, Environment

\* The invariant holds of every reachable state.
LEMMA Invariant == Spec => []ProposalInv
<1>1. Init => ProposalInv
  <2> SUFFICES ASSUME Init PROVE ProposalInv
    OBVIOUS
  <2>1. TypeInv
    BY IdleType DEF Init, TypeInv, TypeOK, Pointed, Idle
  <2>2. \A r \in Requests : req[r] = Idle
    BY DEF Init
  <2> QED
    BY <2>1, <2>2, IdleGood DEF ProposalInv
<1> QED
  BY <1>1, ProposalStep, PTL DEF Spec

\* What a step that files a proposal files.
LEMMA FilesFacts ==
  ASSUME ProposalInv, [Next]_vars, NEW r \in Requests, Files(r)
  PROVE  Good(req[r], stored) /\ req[r].pc = "insert" /\ req[r] \in Request
  BY DEF ProposalInv, TypeInv, TypeOK, Files

\* No request goes beyond the limit it read unless another one filed an advice
\* after it counted.
THEOREM Quota_NeedsARace == Spec => QuotaNeedsARace
<1>1. ASSUME ProposalInv, [Next]_vars
      PROVE  \A r \in Requests :
               Files(r) /\ ~Current(r).setup /\ req[r].limit >= 0 /\ Cardinality(Advices) >= req[r].limit
               => req[r].lap
  <2> SUFFICES ASSUME NEW r \in Requests, Files(r), ~Current(r).setup, req[r].limit >= 0,
                      Cardinality(Advices) >= req[r].limit, ~req[r].lap
               PROVE  FALSE
    OBVIOUS
  <2>1. Good(req[r], stored) /\ req[r].pc = "insert" /\ req[r] \in Request
    BY <1>1, FilesFacts
  <2>2. req[r].limit \in Int /\ req[r].used \in Nat
    BY <2>1 DEF Request
  <2>3. Cardinality(Advices) \in Nat /\ Advices = AdvicesIn(stored)
    BY <1>1, AdvicesType DEF Advices, AdvicesIn, ProposalInv, TypeInv, TypeOK
  <2>4. req[r].used < req[r].limit
    BY <2>1 DEF Good, Admitted, Current
  <2>5. Cardinality(Advices) <= req[r].used
    BY <2>1, <2>3 DEF Good, Fresh
  <2> QED
    BY <2>2, <2>3, <2>4, <2>5
<1> QED
  BY <1>1, Invariant, PTL DEF Spec, QuotaNeedsARace

\* A pending title is filed again only if it became pending after the look.
THEOREM Open_OncePerTitle == Spec => OneOpenPerTitle
<1>1. ASSUME ProposalInv, [Next]_vars
      PROVE  \A r \in Requests :
               Files(r) /\ (\E i \in DOMAIN stored : stored[i].title = Current(r).title /\ stored[i].open)
               => req[r].slip
  BY <1>1, FilesFacts DEF Good, Looked, Current
<1> QED
  BY <1>1, Invariant, PTL DEF Spec, OneOpenPerTitle

\* The panel and a change of type file a title filed in the last fourteen days
\* only if it was filed after the look.
THEOREM Panel_NotAgainSoon == Spec => NotAgainSoon
<1>1. ASSUME ProposalInv, [Next]_vars
      PROVE  \A r \in Requests :
               /\ Files(r) /\ req[r].serves # "create"
               /\ \E i \in DOMAIN stored : stored[i].title = Current(r).title /\ stored[i].recent
               => req[r].slip
  BY <1>1, FilesFacts DEF Good, Looked, Current
<1> QED
  BY <1>1, Invariant, PTL DEF Spec, NotAgainSoon

\* An analysis saved without quota_reached has all its proposals on the account.
THEOREM All_Filed == Spec => []AllFiled
<1>1. ProposalInv => AllFiled
  BY DEF ProposalInv, Good, Past, HasTitle, AllFiled
<1> QED
  BY <1>1, Invariant, PTL

\* quota_reached is true of the month the request counted in.
THEOREM Reached_IsTrue == Spec => []ReachedIsTrue
<1>1. ProposalInv => ReachedIsTrue
  <2> SUFFICES ASSUME ProposalInv, NEW r \in Requests, req[r].reached, ~req[r].roll
               PROVE  Cardinality(Advices) >= req[r].limit
    BY DEF ReachedIsTrue
  <2>1. Advices = AdvicesIn(stored)
    BY DEF Advices, AdvicesIn
  <2>2. req[r].limit <= Cardinality(AdvicesIn(stored))
    BY DEF ProposalInv, Good, Exact
  <2> QED
    BY <2>1, <2>2
<1> QED
  BY <1>1, Invariant, PTL

-----------------------------------------------------------------------------
(* Setups. *)

\* What an analysis proposes is either setups or advices.
Alone(props) == \A i, j \in DOMAIN props : props[i].setup => props[j].setup

SetupsAlone == \A a \in Results : Alone(a[2])

\* A request that met the quota met it at an advice.
Unmixed(q) == Alone(q.result) /\ (q.reached => \A k \in DOMAIN q.result : ~q.result[k].setup)

SetupInv == \A r \in Requests : Unmixed(req[r])

\* A request that starts has met no quota.
LEMMA IdleUnmixed == Unmixed(Idle)
  BY DEF Idle, Unmixed, Alone

\* Whoever looks at a proposal has met no quota, and keeps its analysis.
LEMMA SameUnmixed ==
  ASSUME NEW q, NEW R, Unmixed(q), R.result = q.result, R.reached = q.reached
  PROVE  Unmixed(R)
  BY DEF Unmixed

LEMMA StartUnmixed ==
  ASSUME SetupInv, TypeOK, NEW r \in Requests, NEW k, NEW s, NEW q, NEW label, Alone(q),
         Start(r, k, s, q, label)
  PROVE  SetupInv'
<1> DEFINE R == [Idle EXCEPT !.pc = label, !.serves = k, !.about = s, !.result = q, !.limit = LimitOf(plan)]
<1>1. R.result = q /\ R.reached = FALSE
  BY DEF Idle
<1>2. req' = [req EXCEPT ![r] = R]
  BY DEF Start
<1> HIDE DEF R
<1>3. Unmixed(R)
  BY <1>1 DEF Unmixed
<1> QED
  BY <1>2, <1>3 DEF SetupInv, TypeOK

LEMMA EndUnmixed ==
  ASSUME SetupInv, TypeOK, NEW r \in Requests, End(r)
  PROVE  SetupInv'
  BY IdleUnmixed DEF End, SetupInv, TypeOK

\* A step of one request.
LEMMA OneUnmixed ==
  ASSUME SetupInv, TypeOK, NEW r \in Requests, NEW R, Unmixed(R), req' = [req EXCEPT ![r] = R]
  PROVE  SetupInv'
  BY DEF SetupInv, TypeOK

\* After its proposal a request goes on, closes or is over.
LEMMA AdvanceUnmixed ==
  ASSUME SetupInv, TypeOK, NEW r \in Requests, NEW n
  PROVE  Unmixed(Close(r)) /\ Unmixed(Advance(r, n)) /\ Unmixed(Done(r, n))
<1>1. req[r] \in Request /\ Unmixed(req[r])
  BY DEF SetupInv, TypeOK
<1>2. Unmixed(Close(r))
  <2> DEFINE R == [req[r] EXCEPT !.pc = "save", !.turn = 1, !.used = 0, !.lap = FALSE, !.slip = FALSE]
  <2>1. R.result = req[r].result /\ R.reached = req[r].reached
    BY <1>1 DEF Request
  <2> HIDE DEF R
  <2>2. Unmixed(R)
    BY <1>1, <2>1, SameUnmixed
  <2> QED
    BY <2>2, IdleUnmixed DEF Close, R
<1>3. Unmixed(Advance(r, n))
  <2> DEFINE R == [req[r] EXCEPT !.pc = "check", !.turn = @ + 1, !.used = n, !.slip = FALSE]
  <2>1. R.result = req[r].result /\ R.reached = req[r].reached
    BY <1>1 DEF Request
  <2> HIDE DEF R
  <2>2. Unmixed(R)
    BY <1>1, <2>1, SameUnmixed
  <2> QED
    BY <1>2, <2>2 DEF Advance, R
<1> QED
  BY <1>2, <1>3, IdleUnmixed DEF Done

LEMMA MissedUnmixed ==
  ASSUME SetupInv, TypeOK, NEW x \in Requests, NEW p, NEW c
  PROVE  Unmixed(Missed(x, p, c))
<1>1. req[x] \in Request /\ Unmixed(req[x])
  BY DEF SetupInv, TypeOK
<1> DEFINE R == Missed(x, p, c)
<1>2. R.result = req[x].result /\ R.reached = req[x].reached
  BY <1>1 DEF Missed, Request
<1> HIDE DEF R
<1>3. Unmixed(R)
  BY <1>1, <1>2, SameUnmixed
<1> QED
  BY <1>3 DEF R

LEMMA SetupStep ==
  ASSUME SetupsAlone, ProposalInv, SetupInv, [Next]_vars
  PROVE  SetupInv'
<1>0. TypeOK
  BY DEF ProposalInv, TypeInv
<1>1. ASSUME NEW r \in Requests, NEW s \in Sections, RunInsights(r, s) PROVE SetupInv'
  <2>1. PICK a \in Results : Start(r, "run", "none", a[2], IF a[2] = <<>> THEN "save" ELSE "count")
    BY <1>1 DEF RunInsights
  <2>2. Alone(a[2])
    BY DEF SetupsAlone
  <2> QED
    BY <1>0, <2>1, <2>2, StartUnmixed
<1>2. ASSUME NEW r \in Requests, NEW s \in Sections, CreateSuggestion(r, s) PROVE SetupInv'
  <2>1. Alone(<<>>)
    BY DEF Alone
  <2>2. Start(r, "create", s, <<>>, "count")
    BY <1>2 DEF CreateSuggestion
  <2> QED
    BY <1>0, <2>1, <2>2, StartUnmixed
<1>3. ASSUME NEW r \in Requests, SetBusinessType(r) PROVE SetupInv'
  <2>1. PICK p \in TypeSetups : Start(r, "type", "none", <<p>>, "count")
    BY <1>3 DEF SetBusinessType
  <2>2. Alone(<<p>>)
    BY DEF Alone
  <2> QED
    BY <1>0, <2>1, <2>2, StartUnmixed
<1>4. ASSUME NEW r \in Requests, Count(r) PROVE SetupInv'
  <2> DEFINE R == [req[r] EXCEPT !.used = Cardinality(Counted),
                                 !.pc = IF req[r].serves = "create" THEN "analyse" ELSE "check"]
  <2>1. End(r) \/ req' = [req EXCEPT ![r] = R]
    BY <1>4 DEF Count
  <2>2. R.result = req[r].result /\ R.reached = req[r].reached /\ Unmixed(req[r])
    BY <1>0 DEF SetupInv, TypeOK, Request
  <2> HIDE DEF R
  <2>3. Unmixed(R)
    BY <2>2, SameUnmixed
  <2> QED
    BY <1>0, <2>1, <2>3, EndUnmixed, OneUnmixed
<1>5. ASSUME NEW r \in Requests, Analyse(r) PROVE SetupInv'
  <2>1. PICK a \in Results :
          IF a[2] = <<>> THEN End(r)
          ELSE req' = [req EXCEPT ![r].result = a[2], ![r].about = "none", ![r].pc = "check"]
    BY <1>5 DEF Analyse
  <2> DEFINE R == [req[r] EXCEPT !.result = a[2], !.about = "none", !.pc = "check"]
  <2>2. End(r) \/ req' = [req EXCEPT ![r] = R]
    <3>1. CASE a[2] = <<>>
      BY <2>1, <3>1
    <3>2. CASE a[2] # <<>>
      <4>1. req' = [req EXCEPT ![r].result = a[2], ![r].about = "none", ![r].pc = "check"]
        BY <2>1, <3>2
      <4> QED
        BY <4>1
    <3> QED
      BY <3>1, <3>2
  <2>3. req[r] \in Request /\ ~req[r].reached
    BY <1>0, <1>5 DEF TypeOK, ProposalInv, Good, Exact, Analyse
  <2>4. R.result = a[2] /\ ~R.reached /\ Alone(a[2])
    BY <2>3 DEF Request, SetupsAlone
  <2> HIDE DEF R
  <2>5. Unmixed(R)
    BY <2>4 DEF Unmixed
  <2> QED
    BY <1>0, <2>2, <2>5, EndUnmixed, OneUnmixed
<1>6. ASSUME NEW r \in Requests, Check(r) PROVE SetupInv'
  <2>1. CASE req' = [req EXCEPT ![r] = Advance(r, req[r].used)]
    BY <1>0, <2>1, AdvanceUnmixed, OneUnmixed
  <2>2. CASE Full(r) /\ req' = [req EXCEPT ![r] = [Close(r) EXCEPT !.reached = (req[r].serves = "run")]]
    <3> DEFINE R == [Close(r) EXCEPT !.reached = (req[r].serves = "run")]
    <3>1. req[r] \in Request /\ Unmixed(req[r]) /\ req[r].turn \in DOMAIN req[r].result
      BY <1>0, <1>6 DEF TypeOK, SetupInv, Check
    <3>2. \A k \in DOMAIN req[r].result : ~req[r].result[k].setup
      BY <2>2, <3>1 DEF Full, Current, Unmixed, Alone
    <3>3. Unmixed(R)
      <4>1. CASE req[r].serves = "run"
        <5>1. R.result = req[r].result
          BY <3>1, <4>1 DEF Close, Request
        <5> HIDE DEF R
        <5> QED
          BY <3>1, <3>2, <5>1 DEF Unmixed
      <4>2. CASE req[r].serves # "run"
        <5>1. R.result = <<>> /\ ~R.reached
          BY <4>2 DEF Close, Idle
        <5> HIDE DEF R
        <5> QED
          BY <5>1 DEF Unmixed, Alone
      <4> QED
        BY <4>1, <4>2
    <3>4. req' = [req EXCEPT ![r] = R]
      BY <2>2
    <3> HIDE DEF R
    <3> QED
      BY <1>0, <3>3, <3>4, OneUnmixed
  <2>3. CASE req' = [req EXCEPT ![r].pc = "insert"]
    <3> DEFINE R == [req[r] EXCEPT !.pc = "insert"]
    <3>1. R.result = req[r].result /\ R.reached = req[r].reached /\ Unmixed(req[r])
      BY <1>0 DEF SetupInv, TypeOK, Request
    <3>2. req' = [req EXCEPT ![r] = R]
      BY <2>3
    <3> HIDE DEF R
    <3> QED
      BY <1>0, <3>1, <3>2, SameUnmixed, OneUnmixed
  <2> QED
    BY <1>6, <2>1, <2>2, <2>3 DEF Check
<1>7. ASSUME NEW r \in Requests, Insert(r) PROVE SetupInv'
  <2> DEFINE n == IF Current(r).setup THEN req[r].used ELSE req[r].used + 1
  <2>1. \A x \in Requests : req'[x] = IF x = r THEN Done(r, n) ELSE Missed(x, Current(r), Uncounted(Current(r)))
    BY <1>7 DEF Insert
  <2> HIDE DEF n
  <2> QED
    BY <1>0, <2>1, AdvanceUnmixed, MissedUnmixed DEF SetupInv
<1>8. ASSUME NEW r \in Requests, Save(r) \/ Fail(r) PROVE SetupInv'
  BY <1>0, <1>8, EndUnmixed DEF Save, Fail
<1>9. ASSUME NEW i \in DOMAIN stored, UpdateSuggestionStatus(i) PROVE SetupInv'
  BY <1>0, <1>9, MissedUnmixed DEF UpdateSuggestionStatus, SetupInv
<1>10. CASE NewMonth
  <2> SUFFICES ASSUME NEW x \in Requests PROVE Unmixed(req'[x])
    BY DEF SetupInv
  <2>1. req'[x].result = req[x].result /\ req'[x].reached = req[x].reached /\ Unmixed(req[x])
    BY <1>0, <1>10 DEF NewMonth, SetupInv, TypeOK, Request
  <2> QED
    BY <2>1, SameUnmixed
<1>11. CASE UNCHANGED req
  BY <1>11 DEF SetupInv
<1>12. ASSUME NEW p \in Plans, UpdatePlan(p) PROVE UNCHANGED req
  BY <1>12 DEF UpdatePlan
<1>13. ASSUME NEW i \in DOMAIN stored, Age(i) PROVE UNCHANGED req
  BY <1>13 DEF Age
<1>14. UNCHANGED vars => UNCHANGED req
  BY DEF vars
<1> QED
  BY <1>1, <1>2, <1>3, <1>4, <1>5, <1>6, <1>7, <1>8, <1>9, <1>10, <1>11, <1>12, <1>13, <1>14
  DEF Next, Step, Environment

\* If no analysis mixes setups and advices, which is so of what the panel shows
\* (Panel_Stands), the advice at which storeProposals meets the quota has no
\* setup behind it.
THEOREM Setup_NeverWaits == ASSUME SetupsAlone PROVE Spec => []SetupNeverWaits
<1>1. Init => SetupInv
  BY IdleUnmixed DEF Init, SetupInv
<1>2. ProposalInv /\ SetupInv /\ [Next]_vars => SetupInv'
  BY SetupStep
<1>3. SetupInv => SetupNeverWaits
  BY DEF SetupInv, Unmixed, SetupNeverWaits
<1> QED
  BY <1>1, <1>2, <1>3, Invariant, PTL DEF Spec

=============================================================================
