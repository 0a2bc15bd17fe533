------------------------------ MODULE WebStats ------------------------------
(***************************************************************************)
(* What the Web section reads in R's analyses (webstats.go): the ANOVA of  *)
(* the visits, for all of them and for those from Google, and the trend of *)
(* the keywords' positions.                                                *)
(*                                                                         *)
(* R's answers are the input.  A p value counts thousandths, a partial     *)
(* eta squared thousandths, a ratio tenths; a model that R could not fit   *)
(* has no effects.                                                         *)
(***************************************************************************)
EXTENDS Lists, Integers, Sequences, FiniteSets, TLC

\* Proposals: a title, and what accepting it sets in motion.
Unassigned      == [type |-> "none", what |-> NoText]
Creator(skill)  == [type |-> "creator", what |-> skill]
Install(app)    == [type |-> "erp_install", what |-> app]
Advice(title, action) == [title |-> title, action |-> action]
IsSetup(p)      == p.action.type = "erp_install"

Unreliable == {"otras", "desconocido"}

-----------------------------------------------------------------------------
(* ANOVA. *)

\* A Tukey pair from its better to its worse level; the gap is a ratio in
\* tenths, or points of scroll when the outcome is not transformed.
Oriented(pair, plain) ==
  LET turned == IF plain THEN pair.r < 0 ELSE pair.r < 10
  IN [best  |-> IF turned THEN pair.b ELSE pair.a,
      worst |-> IF turned THEN pair.a ELSE pair.b,
      gap   |-> IF ~turned THEN pair.r ELSE IF plain THEN -pair.r ELSE 100 \div pair.r]

\* The pairs worth telling, and the widest of them, the first on a tie.
Pairs(effect, plain) ==
  SelectSeq([i \in DOMAIN effect.pairs |-> Oriented(effect.pairs[i], plain)],
            LAMBDA o : {o.best, o.worst} \cap Unreliable = {})

Strongest(effect, plain) ==
  LET ps == Pairs(effect, plain)
      i  == CHOOSE k \in DOMAIN ps :
              /\ \A j \in DOMAIN ps : ps[j].gap <= ps[k].gap
              /\ \A j \in 1..(k - 1) : ps[j].gap < ps[k].gap
  IN ps[i]

\* Significant, big enough, not an interaction, confirmed without normality.
Confirmed(effect, plain) ==
  /\ effect.significant /\ effect.eta >= 10 /\ ~effect.interaction
  /\ effect.robust < 50
  /\ Pairs(effect, plain) # <<>>

\* The advice an effect turns into, if any.
EffectAdvice(term, worst, organic) ==
  CASE term = "landing" /\ organic                  -> <<Advice(<<"google_a", worst>>, Creator("web"))>>
    [] term = "landing" /\ ~organic                 -> <<Advice(<<"mejora", worst>>, Creator("web"))>>
    [] term = "device" /\ worst = "mobile"          -> <<Advice(<<"celular">>, Creator("web"))>>
    [] term = "source" /\ worst = "organic_search"  -> <<Advice(<<"no_encuentra">>, Creator("web"))>>
    [] OTHER                                        -> <<>>

\* One effect added to what was found so far: seen is shared between the two
\* analyses, props counts this one's proposals.
EffectUnseen(a, e, plain, organic, maxProps) ==
  LET s      == Strongest(e, plain)
      advice == EffectAdvice(e.term, s.worst, organic)
      told   == [a EXCEPT !.findings = Append(@, [kind |-> "comentario",
                                                  sev  |-> IF e.eta >= 40 THEN "alerta" ELSE "info"])]
  IN IF ~Confirmed(e, plain) THEN a
     ELSE IF a.props >= maxProps THEN told
     ELSE [told EXCEPT !.proposals = @ \o advice, !.props = @ + Len(advice)]

Effect(a, e, plain, organic, maxProps) ==
  LET s      == Strongest(e, plain)
      key    == <<e.term, s.worst>>
      advice == EffectAdvice(e.term, s.worst, organic)
      told   == [a EXCEPT !.findings = Append(@, [kind |-> "comentario",
                                                  sev  |-> IF e.eta >= 40 THEN "alerta" ELSE "info"])]
  IN IF ~Confirmed(e, plain) THEN a
     ELSE IF a.props >= maxProps \/ key \in a.seen THEN told
     ELSE [told EXCEPT !.seen = @ \cup {key}, !.proposals = @ \o advice, !.props = @ + Len(advice)]

\* The worst combination of levels, when it is common and far behind.
CellAlerts(m) ==
  LET bad(c) == ~c.other /\ c.n >= 10 /\ m.transform # "none" /\ 2 * c.best >= 3 * c.worst /\ c.worst > 0
  IN [i \in DOMAIN SelectSeq(m.cells, bad) |-> [kind |-> "notificacion", sev |-> "alerta"]]

ByEta(effects) == SortSeq(effects, LAMBDA x, y : x.eta > y.eta)

AnovaModel(a, m, organic, maxProps) ==
  LET es == ByEta(m.effects)
      \* what is found after the first n effects
      after[n \in 0..Len(m.effects)] ==
        IF n = 0 THEN a ELSE Effect(after[n - 1], es[n], m.transform = "none", organic, maxProps)
  IN [after[Len(m.effects)] EXCEPT !.findings = @ \o CellAlerts(m)]

AnovaFindings(a, models, organic, maxProps) ==
  LET after[n \in 0..Len(models)] ==
        IF n = 0 THEN [a EXCEPT !.props = 0]
        ELSE AnovaModel(after[n - 1], models[n], organic, maxProps)
  IN after[Len(models)]

-----------------------------------------------------------------------------
(* Positions in Google. *)

\* The last position against the last one at least a week older.
WeekMove(k) ==
  LET n   == Len(k)
      old == {i \in 1..(n - 1) : k[n].day - k[i].day >= 7}
      i   == CHOOSE x \in old : \A y \in old : y <= x
  IN IF old = {} THEN 0 ELSE k[n].pos - k[i].pos

RankFallback(series) ==
  When(\E k \in DOMAIN series : WeekMove(series[k]) # 0, <<[kind |-> "comentario", sev |-> "info"]>>)

\* Half a place a week or more (slopes count tenths), the steepest fall first.
Falling(trends) == SortSeq(SelectSeq(trends, LAMBDA t : t.significant /\ t.slope >= 5),
                           LAMBDA x, y : x.slope > y.slope)
Rising(trends)  == SelectSeq(trends, LAMBDA t : t.significant /\ t.slope <= -5)

Least(m, n) == IF m < n THEN m ELSE n

TitleHelps(f) == f.significant /\ f.kruskal < 50 /\ f.yes > 0 /\ f.no > f.yes

\* Without R, or when this analysis fails, positions are only compared.
SeoRanks(r, available) ==
  IF r.series = <<>> THEN [data |-> FALSE, findings |-> <<>>, proposals |-> <<>>]
  ELSE IF ~(available /\ r.ok) THEN [data |-> TRUE, findings |-> RankFallback(r.series), proposals |-> <<>>]
  ELSE LET down == Falling(r.trends)
           up   == Rising(r.trends)
       IN [data |-> TRUE,
           findings |->
                [i \in 1..Least(Len(down), 3) |-> [kind |-> "notificacion", sev |-> "alerta"]]
             \o [i \in 1..Least(Len(up), 2) |-> [kind |-> "notificacion", sev |-> "buena"]]
             \o When(TitleHelps(r.title), <<[kind |-> "comentario", sev |-> "info"]>>),
           proposals |->
                When(down # <<>>, <<Advice(<<"recupera", down[1].keyword>>, Creator("web"))>>)
             \o When(TitleHelps(r.title) /\ r.missing > 0, <<Advice(<<"titulos">>, Creator("web"))>>)]

-----------------------------------------------------------------------------
(* Google's visits first: their advice about the same page is the more
   specific one.  R answers an analysis with a sequence of models. *)

WebDeep(s) ==
  LET ranks == SeoRanks(s.ranks, s.available)
      start == [seen |-> {}, props |-> 0, findings |-> ranks.findings, proposals |-> ranks.proposals]
      org   == IF s.organic.ok THEN AnovaFindings(start, s.organic.models, TRUE, 1) ELSE start
      all   == IF s.all.ok THEN AnovaFindings(org, s.all.models, FALSE, 2) ELSE org
      r     == IF s.available THEN all ELSE start
  IN [data |-> ranks.data \/ (s.available /\ (s.organic.ok \/ s.all.ok)),
      findings |-> r.findings, proposals |-> r.proposals]

=============================================================================
