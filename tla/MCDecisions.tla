---------------------------- MODULE MCDecisions -----------------------------
(***************************************************************************)
(* A signup of three areas, two Creators, files of three rows, a site with *)
(* R's analyses and an ERP with some apps.                                 *)
(***************************************************************************)
EXTENDS Decisions

\* "hotel" is no area and no expectation counts twice.
MCBlank == [sectors |-> <<>>, companySize |-> "", salesMethods |-> <<"tienda">>, controls |-> <<"gps", "hotel">>,
            unsoldHandling |-> "", hasWebsite |-> "", socialNetworks |-> <<>>, messagingApps |-> <<>>,
            management |-> "", satisfaction |-> 7, painPoints |-> <<>>, modules |-> <<"hotel">>,
            expectations |-> <<"vender_mas", "vender_mas", "hotel">>, description |-> {}]

MCOptions == [
  sectors     |-> {<<"restaurantes", "comercio">>, <<"salud">>},
  companySize |-> {"solo"},
  hasWebsite  |-> {"si", "no"},
  management  |-> {"papel", "varias"},
  description |-> {{"ventas", "servicios"}}]

MCAreas == {"finanzas", "marketing", "sitio_web"}

Says(k, reason) == [key |-> k, reason |-> reason]

Claude(ms, plan) == [failed |-> FALSE, modules |-> ms, plan |-> plan]

\* No answer; nothing it may say; the same module twice, first without a reason;
\* modules nobody asked for, in a plan that does not exist.
MCClaudeAnswers == {
  [failed |-> TRUE, modules |-> <<>>, plan |-> ""],
  Claude(<<Says("creators", TRUE), Says("hotel", TRUE)>>, "despegue"),
  Claude(<<Says("redes", FALSE), Says("redes", TRUE), Says("redes", TRUE)>>, "despegue"),
  Claude(<<Says("finanzas", TRUE), Says("rutas", TRUE), Says("creators", TRUE), Says("inventario", FALSE)>>, "base")}

MCLower == [n \in {"", "pan", "te", "x", "y", "X"} |-> IF n = "X" THEN "x" ELSE n]

MCRow(n, id) == [name |-> n, id |-> id, good |-> TRUE]

MCRows == {MCRow("pan", ""), MCRow("te", ""), MCRow("pan", "x"), MCRow("te", "x"), MCRow("te", "X"), MCRow("pan", "y"),
           MCRow("", "x"), [name |-> "pan", id |-> "x", good |-> FALSE]}

MCFiles == {<<r>> : r \in MCRows} \cup {<<r, s>> : r, s \in MCRows} \cup {<<r, s, t>> : r, s, t \in MCRows}

Object(n, id) == [name |-> n, id |-> id]

MCHoldings == {<<>>, <<Object("pan", "x")>>, <<Object("te", ""), Object("pan", "y"), Object("pan", "x")>>}

Quiet == [daily |-> 0, total |-> 0, organic |-> 0, week |-> 0, before |-> 0, yesterday |-> "usual",
          landing |-> FALSE, scroll |-> 0, crawls |-> 0, crawlsBefore |-> 0, referred |-> 0]
Busy  == [daily |-> 9, total |-> 9, organic |-> 1, week |-> 2, before |-> 3, yesterday |-> "low",
          landing |-> TRUE, scroll |-> 30, crawls |-> 1, crawlsBefore |-> 2, referred |-> 0]

\* An effect of R's, and the levels its widest pair tells apart.
Significant(term, eta, robust, a, b, r) ==
  [term |-> term, eta |-> eta, significant |-> TRUE, interaction |-> FALSE, robust |-> robust,
   pairs |-> <<[a |-> a, b |-> b, r |-> r], [a |-> "otras", b |-> a, r |-> 90]>>]

Effects == {Significant("landing", 50, 10, "/", "/x", 20), Significant("landing", 30, 10, "/y", "/", 5),
            Significant("device", 15, 10, "desktop", "mobile", 30), Significant("landing", 90, 80, "/", "/z", 40)}

Fitted(es) == [effects |-> es, transform |-> "log", cells |-> <<[other |-> FALSE, n |-> 12, best |-> 4, worst |-> 2]>>]

\* A model's effects are sorted, so that their order in it is not told apart.
TwoEffects == {s \in SUBSET Effects : Cardinality(s) = 2}
Listed(s) == LET e == CHOOSE x \in s : TRUE IN <<e, CHOOSE f \in s : f # e>>
Models == {<<>>} \cup {<<Fitted(Listed(s))>> : s \in TwoEffects} \cup {<<Fitted(<<e>>), Fitted(<<f>>)>> : e, f \in Effects}

Fall == [keyword |-> "pan", significant |-> TRUE, slope |-> 7]

Ranks == [series |-> <<<<[day |-> 0, pos |-> 5], [day |-> 8, pos |-> 9]>>>>, ok |-> TRUE, trends |-> <<Fall>>,
          title |-> [significant |-> TRUE, kruskal |-> 10, yes |-> 3, no |-> 8], missing |-> 1]

NoStats == [available |-> FALSE, ranks |-> Ranks, organic |-> [ok |-> FALSE, models |-> <<>>],
            all |-> [ok |-> FALSE, models |-> <<>>]]

Lead == [open |-> 2, stale |-> 1]
Loss == [orders |-> 9, week |-> 1, before |-> 3, slope |-> -1, lost |-> 1]

Site(web, stats) ==
  [tracked |-> TRUE, web |-> web, stats |-> stats, erp |-> "none", apps |-> {}, products |-> {}, tills |-> {},
   customers |-> Loss, leads |-> Lead]

Shop(e, apps, products) ==
  [Site(Busy, NoStats) EXCEPT !.erp = e, !.apps = apps, !.products = products, !.tills = {[today |-> 1, usual |-> 4]}]

Stock == {[sold |-> 3, qty |-> 0, cost |-> 1], [sold |-> 30, qty |-> 5, cost |-> 1], [sold |-> 0, qty |-> 2, cost |-> 1]}

MCViews ==
  {Site(Busy, [NoStats EXCEPT !.available = TRUE, !.organic = [ok |-> TRUE, models |-> o], !.all = [ok |-> TRUE, models |-> m]])
     : o, m \in Models}
  \cup {Site(w, NoStats) : w \in {Quiet, Busy}}
  \cup {Shop(u, as, ps) : u \in {"up", "down"}, as \in SUBSET {"crm", "sale", "point_of_sale"}, ps \in SUBSET Stock}

MCSections == {"inicio", "web", "inventario", "clientes", "prospectos", "sucursales"}

MCBusiness == {"servicios", "ventas", "salud"}

Reworded(n) == [title |-> <<"otro", n>>, base |-> n]

MCReplies == {Silent, [summary |-> "bien", suggestions |-> <<Reworded(1), [title |-> <<>>, base |-> 0], Reworded(0), Reworded(9)>>]}
=============================================================================
