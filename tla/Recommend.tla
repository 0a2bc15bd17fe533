------------------------------ MODULE Recommend ------------------------------
(***************************************************************************)
(* The plan of the survey that fits a business best, and the modules       *)
(* AndRho would build for it.                                              *)
(*                                                                         *)
(* The answers are as Sanitize leaves them.  sectors and modules keep the  *)
(* order they were given in; the other lists are sets.  controls are the   *)
(* answers to the questions of each sector, the restaurants' expiry among  *)
(* them.  Values are kept times 30 and weights times 10, so that every     *)
(* score is an integer; the reasons shown next to the plan are left out.   *)
(***************************************************************************)
EXTENDS Lists, Integers, Sequences, FiniteSets, SequencesExt

-----------------------------------------------------------------------------

Plans == {"basico", "crecer", "todo"}

\* What each area asked for speaks of; sectors' answers that say all is well,
\* and those with a comma, which are lists.
OpsAreas    == {"finanzas", "inventario", "compras", "produccion", "logistica", "rrhh"}
GrowthAreas == {"marketing", "ventas", "clientes", "sitio_web"}
GrowthGoals == {"mas_clientes", "vender_mas", "mas_vistas", "mas_seguidores"}
OrderGoals  == {"organizarse", "automatizar", "digitalizarse", "decidir_mejor", "reducir_perdidas"}
Controlled  == {"sistema", "crm", "gps"}
Lists       == {"mesa,para_llevar"}

Yes(p) == IF p THEN 30 ELSE 0

CountIn(s, set) == Cardinality({i \in DOMAIN s : s[i] \in set})

Signals(a) == [
  base         |-> 30,
  small        |-> Yes(a.companySize \in {"solo", "1-10"}),
  bigCompany   |-> IF a.companySize = "11-50" THEN 18 ELSE Yes(a.companySize \in {"51-200", "200+"}),
  satisfied    |-> Yes(a.management \in {"software", "erp", "varias"} /\ a.satisfaction >= 4),
  unhappy      |-> Yes(a.satisfaction \in 1 .. 2),
  narrow       |-> Yes(Len(a.modules) <= 2),
  breadth      |-> 5 * Len(a.modules),
  opsAreas     |-> 10 * CountIn(a.modules, OpsAreas),
  growthAreas  |-> 15 * CountIn(a.modules, GrowthAreas),
  growthGoals  |-> 15 * Cardinality(a.expectations \cap GrowthGoals),
  orderGoals   |-> 15 * Cardinality(a.expectations \cap OrderGoals),
  noSystem     |-> IF a.management = "excel" THEN 21 ELSE Yes(a.management \in {"papel", "nada"}),
  scattered    |-> Yes(a.management = "varias" \/ "datos_dispersos" \in a.painPoints),
  control      |-> Yes(\/ a.controls \ (Controlled \cup Lists) # {}
                       \/ "pierdo_control" \in a.painPoints
                       \/ a.unsoldHandling \in {"se_pierde", "bodega"}),
  multiSector  |-> Yes(Len(a.sectors) >= 2),
  noPresence   |-> Yes(a.hasWebsite = "no" \/ "ninguna" \in a.socialNetworks),
  onlineSales  |-> Yes(a.salesMethods \cap {"en_linea", "redes"} # {}),
  multiChannel |-> Yes(Cardinality(a.salesMethods) >= 3),
  messaging    |-> Yes(a.messagingApps \cap {"whatsapp", "whatsapp_business", "instagram_dm", "messenger"} # {})]

Weighted(s) == [
  basico |-> 6 * s.base + 10 * s.small + 14 * s.satisfied + 16 * s.narrow
             - 15 * s.breadth - 6 * s.scattered - 4 * s.noSystem - 10 * s.bigCompany,
  crecer |-> 8 * s.base + 14 * s.growthGoals + 11 * s.growthAreas + 12 * s.noPresence + 7 * s.onlineSales
             + 4 * s.messaging - 3 * s.opsAreas + 3 * s.satisfied + 5 * s.multiChannel,
  todo   |-> 5 * s.base + 12 * s.opsAreas + 12 * s.orderGoals + 11 * s.noSystem + 12 * s.scattered
             + 10 * s.control + 10 * s.bigCompany + 7 * s.multiSector + 16 * s.breadth + 6 * s.unhappy]

\* The score to the nearest hundredth; 300 times a score is never half-way.
PlanScore(a, plan) == (Weighted(Signals(a))[plan] + 1) \div 3

RecommendLeast(a) ==
  LET b == PlanScore(a, "basico")
      c == PlanScore(a, "crecer")
      t == PlanScore(a, "todo")
  IN  IF t <= c /\ t <= b THEN "todo" ELSE IF c <= b THEN "crecer" ELSE "basico"

\* On equal scores the broader plan wins.
Recommend(a) ==
  LET b == PlanScore(a, "basico")
      c == PlanScore(a, "crecer")
      t == PlanScore(a, "todo")
  IN  IF t >= c /\ t >= b THEN "todo" ELSE IF c >= b THEN "crecer" ELSE "basico"

-----------------------------------------------------------------------------

KnownModules == OpsAreas \cup GrowthAreas \cup
  {"analitica", "unificacion", "erp", "tracking", "redes_creacion", "redes", "whatsapp", "vencimientos",
   "mermas", "agenda", "rutas", "citas", "creators"}

SectorModule == [servicios |-> "agenda", manufactura |-> "produccion", logistica |-> "rutas", salud |-> "citas"]

\* A business with a website gets it measured, not made.
Area(a, m) == IF m = "sitio_web" /\ a.hasWebsite = "si" THEN "tracking" ELSE m

SuggestModules(a, plan) ==
  LET sectors == ToSet(a.sectors)
      own     == Only(a.sectors, DOMAIN SectorModule)
      wished  == <<"analitica">>
        \o When("datos_dispersos" \in a.painPoints \/ a.management = "varias", <<"unificacion">>)
        \o When(a.management \in {"papel", "excel", "nada"}, <<"erp">>)
        \o <<Area(a, "sitio_web")>>
        \o When("ninguna" \in a.socialNetworks, <<"redes_creacion">>)
        \o When("ninguna" \notin a.socialNetworks /\ a.socialNetworks # {}, <<"redes">>)
        \o When(a.messagingApps \cap {"whatsapp", "whatsapp_business"} # {}, <<"whatsapp">>)
        \o When("restaurantes" \in sectors, <<"vencimientos">>)
        \o When({"comercio", "restaurantes", "manufactura"} \cap sectors # {}, <<"inventario">>)
        \o When(a.unsoldHandling \in {"se_pierde", "bodega"}, <<"mermas">>)
        \o [i \in DOMAIN own |-> SectorModule[own[i]]]
        \o [i \in DOMAIN a.modules |-> Area(a, a.modules[i])]
        \o When(plan = "todo", <<"creators">>)
  IN  Only(Distinct(wished), KnownModules)
=============================================================================
