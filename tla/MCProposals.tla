----------------------------- MODULE MCProposals ----------------------------
(***************************************************************************)
(* Proposals fed by the analyses of Insights: a service business's Inicio, *)
(* over the apps its ERP may have (Claude is silent).                      *)
(***************************************************************************)
EXTENDS Proposals, TLC

I == INSTANCE Insights

NoVisits == [daily |-> 0, total |-> 0, organic |-> 0, week |-> 0, before |-> 0, yesterday |-> "usual",
             landing |-> FALSE, scroll |-> 0, crawls |-> 0, crawlsBefore |-> 0, referred |-> 0]

\* A lead nobody follows up and a customer lost.
Views ==
  {[tracked |-> TRUE, web |-> NoVisits, stats |-> 0, erp |-> erp, apps |-> apps,
    products |-> {}, tills |-> {},
    customers |-> [orders |-> 1, week |-> 1, before |-> 0, slope |-> 0, lost |-> 1],
    leads |-> [open |-> 1, stale |-> 1]] :
      erp \in {"up", "down"}, apps \in {{"sale"}, {"crm", "sale"}}}

\* A proposal as Proposals knows it.
Known(props) == [i \in DOMAIN props |-> [title |-> props[i].title, setup |-> I!IsSetup(props[i])]]

MCSections == {"inicio"}

Analyses == {<<s, Known(I!Inicio("servicios", v).proposals)>> : s \in MCSections, v \in Views}

MCResults == Analyses  \* TLC evaluates a definition once, but not the one a constant is given

MCTypeSetups == {[title |-> <<"prepara">>, setup |-> TRUE]}

MCTitles == UNION {{a[2][i].title : i \in DOMAIN a[2]} : a \in Analyses}
              \cup {p.title : p \in MCTypeSetups}

Symmetry == Permutations(Requests)

MCPlans == {"base", "galactico"}
MCQuota == [p \in MCPlans |-> IF p = "base" THEN 1 ELSE -1]

=============================================================================
