------------------------------- MODULE Signup -------------------------------
(***************************************************************************)
(* A visitor at the signup: a form filled in question by question, and the *)
(* three packages POST /analyzer/suggest answers with, by the rules or     *)
(* with Claude, whose ranking may be anything.                             *)
(***************************************************************************)
EXTENDS Analyzer

CONSTANTS
  Blank,         \* the form before the first answer
  Options,       \* the answers of each question, but for the areas asked for
  Areas,         \* what the visitor may ask for
  MaxAreas,      \* bound on how many
  ClaudeAnswers  \* answers of the model

\* What each question takes.
Answers == [
  sectors |-> Seq(STRING), companySize |-> STRING, salesMethods |-> Seq(STRING), controls |-> Seq(STRING),
  unsoldHandling |-> STRING, hasWebsite |-> STRING, socialNetworks |-> Seq(STRING), messagingApps |-> Seq(STRING),
  management |-> STRING, satisfaction |-> Int, painPoints |-> Seq(STRING), modules |-> Seq(STRING),
  expectations |-> Seq(STRING), description |-> SUBSET STRING]

ASSUME FormAssumption ==
  /\ DOMAIN Blank = DOMAIN Answers /\ \A q \in DOMAIN Answers : Blank[q] \in Answers[q]
  /\ \A q \in DOMAIN Options : q \in DOMAIN Answers /\ Options[q] \subseteq Answers[q]
  /\ Areas \subseteq STRING

ASSUME ClaudeAssumption ==
  \A c \in ClaudeAnswers : c.modules \in Seq([key : STRING, reason : BOOLEAN])

VARIABLES
  form,   \* what the visitor has answered
  offer   \* the suggestion, once asked for

signupVars == <<form, offer>>

NoOffer == [packages |-> <<>>]

SignupInit == form = Blank /\ offer = NoOffer

\* One answer of the survey, or the description.
Fill(q, v) ==
  /\ offer = NoOffer
  /\ form' = [form EXCEPT ![q] = v]
  /\ UNCHANGED offer

AskFor(m) ==
  /\ offer = NoOffer /\ Len(form.modules) < MaxAreas
  /\ form' = [form EXCEPT !.modules = Append(@, m)]
  /\ UNCHANGED offer

Ask(claude) ==
  /\ offer = NoOffer
  /\ offer' = Suggest(Sanitize(form), form.description, claude)
  /\ UNCHANGED form

SignupNext ==
  \/ \E q \in DOMAIN Options : \E v \in Options[q] : Fill(q, v)
  \/ \E m \in Areas : AskFor(m)
  \/ \E c \in ClaudeAnswers : Ask(c)

-----------------------------------------------------------------------------

Nested(small, large) == ToSet(small.modules) \subseteq ToSet(large.modules)

\* Register takes each package whole, in its order; a package and what it
\* leaves out are the business' needs; the larger the plan, the more it holds;
\* and the largest has all that the business asked for, whatever Claude says.
OffersStand ==
  LET p == offer.packages IN
  /\ \A i \in DOMAIN p : /\ Accepted(p[i].plan, p[i].modules) /\ Taken(p[i].modules) = p[i].modules
                         /\ p[i].modules \o p[i].missing = offer.needs
                         /\ \A j \in i .. Len(p) : Nested(p[i], p[j])
  /\ p # <<>> => Pinned(Sanitize(form)) \subseteq ToSet(p[3].modules)

Recommended(f) == Recommend(Sanitize(f))

\* Who asks for one more area is never sent back to the smallest plan, and an
\* area of the operation never costs the plan that has them all.
AskingMoreWidens ==
  [][\A m \in Areas : AskFor(m) =>
       /\ Recommended(form) # "basico" => Recommended(form') # "basico"
       /\ Recommended(form) = "todo" /\ m \in OpsAreas => Recommended(form') = "todo"]_signupVars
=============================================================================
