------------------------------ MODULE Analyzer ------------------------------
(***************************************************************************)
(* What the signup offers a business: its needs, most important first, and *)
(* three packages built from them, by the rules alone or with Claude's     *)
(* ranking blended in; and what Register takes of a package.               *)
(*                                                                         *)
(* A description is the set of types whose words it has.  Of Claude's      *)
(* reasons only whether there is one is kept, and of the texts nothing.    *)
(***************************************************************************)
EXTENDS Recommend

-----------------------------------------------------------------------------
(* Sanitize: known values, each once, three expectations, and a satisfaction
   between 0 and 5. *)

Asked == {"finanzas", "ventas", "inventario", "marketing", "clientes", "compras", "produccion",
          "logistica", "rrhh", "sitio_web"}
Sectors == {"comercio", "restaurantes", "servicios", "manufactura", "logistica", "salud", "otro"}

\* Of every sector's question, the restaurants' expiry among them; "mesa" and
\* Lists answer a question that takes several, and one takes free text.
SectorAnswers == Controlled \cup Lists \cup
  {"a_mano", "peps", "no_controlo", "mesa", "para_llevar", "apps_delivery", "whatsapp", "eventos",
   "conteo", "a_ojo", "no_se", "calendario", "cuaderno", "hojas", "experiencia", "sobre_la_marcha",
   "llamadas", "papel", "ninguno", "excel", "mezcla", "un texto"}

Keep(s, allowed) == Distinct(Only(s, allowed))

One(v, allowed) == IF v \in allowed THEN v ELSE ""

AtMostThree(s) == IF Len(s) <= 3 THEN s ELSE SubSeq(s, 1, 3)

\* What a form sends, r, as answers: its lists are sequences.
Sanitize(r) == [
  sectors        |-> Keep(r.sectors, Sectors),
  companySize    |-> One(r.companySize, {"solo", "1-10", "11-50", "51-200", "200+"}),
  salesMethods   |-> ToSet(r.salesMethods) \cap {"tienda", "en_linea", "redes", "domicilio", "mayoreo", "pedido", "credito", "ruta"},
  controls       |-> ToSet(r.controls) \cap SectorAnswers,
  unsoldHandling |-> One(r.unsoldHandling, {"se_pierde", "se_transforma", "descuento", "se_dona", "bodega", "no_pasa"}),
  hasWebsite     |-> One(r.hasWebsite, {"si", "no"}),
  socialNetworks |-> ToSet(r.socialNetworks) \cap {"facebook", "instagram", "tiktok", "ninguna"},
  messagingApps  |-> ToSet(r.messagingApps) \cap {"whatsapp", "whatsapp_business", "messenger", "instagram_dm", "telegram", "correo", "llamadas"},
  management     |-> One(r.management, {"papel", "excel", "software", "erp", "varias", "nada"}),
  satisfaction   |-> IF r.satisfaction \in 0 .. 5 THEN r.satisfaction ELSE 0,
  painPoints     |-> ToSet(r.painPoints) \cap {"datos_dispersos", "no_me_dice", "reportes_tarde", "dificil", "caro",
                                               "no_conecta", "pierdo_control", "soporte", "sin_sistema"},
  modules        |-> Keep(r.modules, Asked),
  expectations   |-> ToSet(AtMostThree(Keep(r.expectations, GrowthGoals \cup OrderGoals)))]

-----------------------------------------------------------------------------
(* The type of the business and what businesses of that type use. *)

BySector == [restaurantes |-> "restaurantes", servicios |-> "servicios", salud |-> "servicios",
             logistica |-> "servicios", comercio |-> "ventas"]

\* From the sectors, or from the description when they have no type.  Food
\* first, then services, then retail.
Classify(sectors, description) ==
  LET bySector == {BySector[s] : s \in ToSet(sectors) \cap DOMAIN BySector}
      found    == IF bySector = {} THEN description ELSE bySector
  IN  IF found = {} THEN "" ELSE
      IF "restaurantes" \in found THEN "restaurantes" ELSE
      IF "servicios" \in found THEN "servicios" ELSE "ventas"

Profiles == [
  servicios    |-> <<"clientes", "agenda", "finanzas", "whatsapp", "sitio_web", "tracking">>,
  restaurantes |-> <<"ventas", "inventario", "vencimientos", "mermas", "compras", "clientes", "sitio_web">>,
  ventas       |-> <<"ventas", "inventario", "compras", "clientes", "logistica", "sitio_web">>]

\* What the type adds comes after the analysis' own picks.
WithType(needs, type) ==
  IF type \notin DOMAIN Profiles THEN needs
  ELSE needs \o Only(Profiles[type], ToSet(Profiles[type]) \ ToSet(needs))

-----------------------------------------------------------------------------
(* Packages. *)

PlanKeys == <<"despegue", "en_orbita", "galactico">>

Limit(plan) == CASE plan = "en_orbita" -> 6 [] plan = "galactico" -> -1 [] OTHER -> 3

ByRecommendation == [basico |-> "despegue", crecer |-> "en_orbita", todo |-> "galactico"]

OdooByModule == [
  ventas |-> "point_of_sale", vencimientos |-> "product_expiry", compras |-> "purchase",
  produccion |-> "mrp", finanzas |-> "account", rrhh |-> "hr", logistica |-> "stock_delivery",
  rutas |-> "stock_delivery", agenda |-> "calendar", citas |-> "calendar", clientes |-> "crm"]

OdooModules(keys) ==
  LET inOdoo == Only(keys, DOMAIN OdooByModule)
  IN  Distinct(<<"stock">> \o [i \in DOMAIN inOdoo |-> OdooByModule[inOdoo[i]]])

Package(plan, needs) ==
  LET fits == IF Limit(plan) < 0 \/ Len(needs) < Limit(plan) THEN Len(needs) ELSE Limit(plan)
  IN  [plan |-> plan, modules |-> SubSeq(needs, 1, fits), missing |-> SubSeq(needs, fits + 1, Len(needs)),
       odoo |-> OdooModules(SubSeq(needs, 1, fits))]

Build(needs, bestFit) ==
  [needs |-> needs, bestFit |-> bestFit, packages |-> [i \in DOMAIN PlanKeys |-> Package(PlanKeys[i], needs)]]

\* The rules' ranking: Creators come with the plan.
RuleNeeds(a) == Only(SuggestModules(a, "todo"), KnownModules \ {"creators"})

Analyze(a, description) ==
  Build(WithType(RuleNeeds(a), Classify(a.sectors, description)), ByRecommendation[Recommend(a)])

-----------------------------------------------------------------------------
(* Suggest: the rules' analysis blended with Claude's. *)

\* The keys Claude may rank.  A module it repeats is dropped only when a
\* reason was given for it before.
Ranked(ms) ==
  Kept([i \in DOMAIN ms |-> ms[i].key],
       {i \in DOMAIN ms : /\ ms[i].key \in KnownModules \ {"creators"}
                          /\ \A j \in 1 .. i - 1 : ms[j].key = ms[i].key => ~ms[j].reason})

\* The points of a ranking, times both lengths: the i-th of n gets 1 - (i-1)/n,
\* and a module listed twice those of its last place.
Points(list, other) ==
  [k \in ToSet(list) |->
     LET last == CHOOSE i \in DOMAIN list : list[i] = k /\ \A j \in i + 1 .. Len(list) : list[j] # k
     IN  (Len(list) - last + 1) * Len(other)]

PointsOf(p, k) == IF k \in DOMAIN p THEN p[k] ELSE 0

StaysUnpinned(k, rules, claude, pinned) ==
  k \in ToSet(claude) \/ 2 * PointsOf(Points(rules, claude), k) > Len(rules) * Len(claude)

\* What only the rules want stays in their top half, or pinned.
Stays(k, rules, claude, pinned) ==
  \/ k \in ToSet(claude)
  \/ 2 * PointsOf(Points(rules, claude), k) > Len(rules) * Len(claude)
  \/ k \in pinned

\* By the points of both lists; ties keep the rules' order, then Claude's.  The
\* sums are exact here, and may differ by a rounding in the code.
Blend(rules, claude, pinned) ==
  LET pr     == Points(rules, claude)
      pc     == Points(claude, rules)
      Sum(k) == PointsOf(pr, k) + PointsOf(pc, k)
      order  == Distinct(rules \o claude)
      kept   == Only(order, {k \in ToSet(order) : Stays(k, rules, claude, pinned)})
      Behind(s, k) == 1 + Cardinality({i \in DOMAIN s : Sum(s[i]) >= Sum(k)})
      sorted[n \in 0 .. Len(kept)] ==
        IF n = 0 THEN <<>> ELSE InsertAt(sorted[n - 1], Behind(sorted[n - 1], kept[n]), kept[n])
  IN  sorted[Len(kept)]

\* Half-way between both plans, rounded up.
BlendPlan(rules, claude) ==
  LET Rank(p) == CHOOSE i \in DOMAIN PlanKeys : PlanKeys[i] = p
  IN  IF claude \notin ToSet(PlanKeys) THEN rules ELSE PlanKeys[(Rank(rules) + Rank(claude) + 1) \div 2]

Pinned(a) == {"analitica"} \cup {Area(a, m) : m \in ToSet(a.modules)}

\* claude.failed: no client, an error, or an answer that is not the JSON asked.
Suggest(a, description, claude) ==
  LET rules  == RuleNeeds(a)
      ranked == Ranked(claude.modules)
  IN  IF claude.failed \/ ranked = <<>> THEN Analyze(a, description)
      ELSE Build(WithType(Blend(rules, ranked, Pinned(a)), Classify(a.sectors, description)),
                 BlendPlan(ByRecommendation[Recommend(a)], claude.plan))

-----------------------------------------------------------------------------
(* Register's view of a plan and its modules. *)

Taken(modules) == Distinct(Only(modules, KnownModules \ {"creators"}))

Accepted(plan, modules) ==
  plan \in ToSet(PlanKeys) /\ (Limit(plan) >= 0 => Len(Taken(modules)) <= Limit(plan))
=============================================================================
