------------------------------ MODULE Insights ------------------------------
(***************************************************************************)
(* The analysis behind the panel (insights.Run): what each section finds   *)
(* in the business's data, what it proposes, what Inicio takes from the    *)
(* sections, and what Claude may change of it.                             *)
(*                                                                         *)
(* A view is what the tracker, the ERP and R return at the moment of the   *)
(* analysis.  Texts are left out: a finding is its kind and severity, a    *)
(* proposal its title and what accepting it does.  A title is a tuple, its *)
(* second member the page or the keyword it names.                         *)
(***************************************************************************)
EXTENDS WebStats

Finding(kind, sev) == [kind |-> kind, sev |-> sev]

NoAnalysis == [data |-> FALSE, findings |-> <<>>, proposals |-> <<>>]

\* Change(now, before) is meaningful only when there was something before.
Rose(now, before, percent) == before > 0 /\ 100 * (now - before) >= percent * before
Fell(now, before, percent) == before > 0 /\ 100 * (before - now) >= percent * before

Trend(now, before) ==
  CASE Rose(now, before, 15) -> "buena" [] Fell(now, before, 20) -> "alerta" [] OTHER -> "info"

\* DaysOfCover below n: something sells, something is left, and it does not last.
ShortOf(p, n) == p.sold > 0 /\ p.qty > 0 /\ 30 * p.qty < n * p.sold

-----------------------------------------------------------------------------
(* The sections. *)

\* No visit in 28 days is no data; a query that fails counts nothing.
Web(w) ==
  IF w.daily = 0 THEN NoAnalysis ELSE
  [data |-> TRUE,
   findings |->
        <<Finding("resumen", Trend(w.week, w.before))>>
     \o When(w.yesterday = "high", <<Finding("notificacion", "buena")>>)
     \o When(w.yesterday = "low", <<Finding("notificacion", "alerta")>>)
     \o When(w.total > 0, <<Finding("comentario", "info")>>)
     \o When(w.landing, <<Finding("comentario", "info")>>)
     \o When(w.scroll \in 1..49, <<Finding("comentario", "alerta")>>)
     \o When(w.crawlsBefore > 0, <<Finding("comentario", IF w.crawls > w.crawlsBefore THEN "buena" ELSE "info")>>),
   proposals |->
        When(Fell(w.week, w.before, 20), <<Advice(<<"averigua">>, Unassigned)>>)
     \o When(w.total > 0 /\ 5 * w.organic < w.total, <<Advice(<<"escribe">>, Creator("contenido"))>>)
     \o When(w.scroll \in 1..49, <<Advice(<<"arriba">>, Creator("web"))>>)
     \o When(w.crawls > 0 /\ w.referred = 0, <<Advice(<<"asistentes">>, Creator("contenido"))>>)]

\* What sold and ran out, what runs out within a week, what nobody bought.
Inventory(products) ==
  IF products = {} THEN NoAnalysis ELSE
  LET out   == {p \in products : p.qty <= 0 /\ p.sold > 0}
      short == {p \in products : ShortOf(p, 7)}
      dead  == {p \in products : p.sold = 0 /\ p.qty * p.cost > 0}
  IN [data |-> TRUE,
      findings |->
           <<Finding("resumen", "info")>>
        \o When(out # {}, <<Finding("notificacion", "alerta")>>)
        \o When(short # {}, <<Finding("notificacion", "alerta")>>)
        \o When(dead # {}, <<Finding("comentario", "alerta")>>),
      proposals |->
           When(out # {}, <<Advice(<<"reabastece">>, Unassigned)>>)
        \o When(short # {}, <<Advice(<<"pide">>, Unassigned)>>)
        \o When(dead # {}, <<Advice(<<"mueve">>, Unassigned)>>)]

\* A section whose Odoo app is not installed has no data: it asks for the app.
MissingModule(title, app) ==
  [data |-> FALSE, findings |-> <<Finding("notificacion", "info")>>,
   proposals |-> <<Advice(<<title>>, Install(app))>>]

\* An ERP that does not answer has no model either.
HasModel(v, app) == v.erp = "up" /\ app \in v.apps

Customers(v, c) ==
  IF ~HasModel(v, "point_of_sale") /\ ~HasModel(v, "sale")
  THEN MissingModule("activa_ventas", "point_of_sale")
  ELSE IF c.orders = 0 THEN NoAnalysis
  ELSE [data |-> TRUE,
        findings |->
             When(c.before > 0, <<Finding("resumen", Trend(c.week, c.before))>>)
          \o When(c.slope # 0, <<Finding("comentario", IF c.slope > 0 THEN "buena" ELSE "alerta")>>)
          \o When(c.lost > 0, <<Finding("notificacion", "alerta")>>)
          \o <<Finding("comentario", "info")>>,
        proposals |-> When(c.lost > 0, <<Advice(<<"escribele">>, Unassigned)>>)]

Leads(v, l) ==
  IF ~HasModel(v, "crm") THEN MissingModule("activa_crm", "crm")
  ELSE IF l.open = 0 THEN NoAnalysis
  ELSE [data |-> TRUE,
        findings |-> <<Finding("resumen", "info"),
                       IF l.stale > 0 THEN Finding("notificacion", "alerta")
                                      ELSE Finding("comentario", "buena")>>,
        proposals |-> When(l.stale > 0, <<Advice(<<"seguimiento">>, Unassigned)>>)]

\* A till that sells 40 % less than it does on this day of the week.
Branches(tills) ==
  IF tills = {} THEN NoAnalysis ELSE
  [data |-> TRUE,
   findings |-> <<Finding("resumen", "info")>>
             \o [i \in 1..Cardinality({t \in tills : Fell(t.today, t.usual, 40)})
                    |-> Finding("notificacion", "alerta")],
   proposals |-> <<>>]

\* Products and orders that cannot be read are none.
Read(v, rows) == IF v.erp = "up" THEN rows ELSE {}

\* A section without R.
Part(section, v) ==
  CASE section = "web" /\ v.tracked            -> Web(v.web)
    [] section = "inventario"                  -> Inventory(Read(v, v.products))
    [] section = "sucursales"                  -> Branches(Read(v, v.tills))
    [] section = "clientes" /\ v.erp # "none"   -> Customers(v, v.customers)
    [] section = "prospectos" /\ v.erp # "none" -> Leads(v, v.leads)
    [] OTHER                                   -> NoAnalysis

\* webDeep adds to what web found; its own data are data too.
WebSection(v) ==
  LET w == Web(v.web)
      d == WebDeep(v.stats)
  IN IF ~v.tracked THEN NoAnalysis
     ELSE [data |-> w.data \/ d.data, findings |-> w.findings \o d.findings,
           proposals |-> w.proposals \o d.proposals]

-----------------------------------------------------------------------------
(* Inicio: the headline of each area, most important first. *)

HeadlineParts(business) ==
  CASE business = "servicios"                  -> <<"prospectos", "clientes", "web">>
    [] business \in {"restaurantes", "ventas"} -> <<"inventario", "clientes", "web">>
    [] OTHER                                   -> <<"web", "clientes", "inventario">>

\* A part's summary and its first alert.
Headline(fs) ==
  LET first(i) == fs[i].sev = "alerta" /\ \A j \in 1..(i - 1) : fs[j].sev # "alerta"
      kept     == SelectSeq([i \in 1..Len(fs) |-> i], LAMBDA i : fs[i].kind = "resumen" \/ first(i))
  IN [k \in 1..Len(kept) |-> fs[kept[k]]]

FirstOf(props) == SubSeq(props, 1, IF props = <<>> THEN 0 ELSE 1)

\* Only a part with data is told, and only its first proposal.
ToldAnyway(p) ==
  [data |-> p.data, findings |-> Headline(p.findings), proposals |-> FirstOf(p.proposals)]

Told(p) ==
  IF ~p.data THEN NoAnalysis
  ELSE [data |-> TRUE, findings |-> Headline(p.findings), proposals |-> FirstOf(p.proposals)]

Inicio(business, v) ==
  LET part == [i \in 1..3 |-> Told(Part(HeadlineParts(business)[i], v))]
  IN [data      |-> \E i \in 1..3 : part[i].data,
      findings  |-> part[1].findings \o part[2].findings \o part[3].findings,
      proposals |-> part[1].proposals \o part[2].proposals \o part[3].proposals]

Analysis(section, business, v) ==
  CASE section \in {"inicio", "resumen"} -> Inicio(business, v)
    [] section = "web"                   -> WebSection(v)
    [] OTHER                             -> Part(section, v)

-----------------------------------------------------------------------------
(* Claude.  A reply is its summary and its suggestions, each with its own
   wording and the index from 0 of the proposal it rests on; Silent stands
   for no key, an error or an unreadable reply. *)

Silent == [summary |-> NoText, suggestions |-> <<>>]

\* The action stays that of the proposal a suggestion is based on.
Translated(props, reply) ==
  LET worded == SelectSeq(reply.suggestions, LAMBDA s : s.title # <<>>)
  IN [i \in DOMAIN worded |->
        Advice(worded[i].title,
               IF worded[i].base \in 0..(Len(props) - 1)
               THEN props[worded[i].base + 1].action ELSE Unassigned)]

\* Only an analysis with data is translated, and a reply without suggestions
\* leaves the computed ones.
Worded(a, reply) ==
  LET t == Translated(a.proposals, reply)
  IN IF a.data /\ reply.summary # NoText /\ t # <<>> THEN t ELSE a.proposals

RunSection(section, business, v, reply) == Worded(Analysis(section, business, v), reply)

=============================================================================
