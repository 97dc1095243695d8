---------------------------- MODULE ClaimPipeline ----------------------------
(***************************************************************************)
(* One claim through the deterministic layer: normalization, evidence, the *)
(* rule engine one rule at a time, routing, and the final decision.        *)
(*                                                                         *)
(* A request is a sentence with the catalog entry it resolves to: "entry"  *)
(* is a set of at most one [values, offer], "named" says whether the       *)
(* request identified the record itself, "asOf" is the day of evaluation,  *)
(* and "topic" what a reader understands the sentence to be about (only    *)
(* the properties look at it).                                             *)
(* A profile is one YAML file:                                             *)
(*   parsing, negation, qualifiers, extraction, extractBelow,              *)
(*   scoped, terms                                                         *)
(*   rules      the rule layer is enabled                                  *)
(*   order      the enabled rules, in their order                          *)
(*   slogans    the gate for non-verifiable copy is on                     *)
(*   tolerances and grace (see RuleLibrary)                                *)
(*   allowSupported, allowContradicted, minConf                            *)
(*   routing    what VerificationRouting reads                             *)
(***************************************************************************)
EXTENDS ClaimMeaning, ClaimParser, RaterAdapter

CONSTANTS
  Requests,      \* the requests a client may send
  Profiles,      \* the profiles the service may be configured with
  Extractions,   \* what the LLM extractor may answer
  Replies        \* what the model may reply to a rating

(* A profile lists known rules, none twice, or is refused.                  *)
KnownOrder(p) ==
  /\ p.order \in Seq({DefaultRules[i] : i \in DOMAIN DefaultRules})
  /\ \A i, j \in DOMAIN p.order : p.order[i] = p.order[j] => i = j

ASSUME RuleOrderAssumption == \A p \in Profiles : KnownOrder(p)

(* The thresholds of the rules section are not negative.                    *)
ASSUME ToleranceAssumption ==
  \A p \in Profiles :
    /\ {p.priceAbsolute, p.priceRelative, p.percentTolerance, p.trialTolerance,
        p.approximate, p.grace} \subseteq Nat
    /\ p.minConf \in 0..100

(* The columns of a record that hold one value, which no validator lets be  *)
(* negative or a date that does not exist.                                  *)
OneValued(record) ==
  /\ \A a \in NumericAttributes : OneOf(record[a], Nat)
  /\ \A a \in {"offer_start", "offer_end"} : OneOf(record[a], Dates)
  /\ OneOf(record["inventory_status"], Statuses)

ASSUME RequestAssumption ==
  \A r \in Requests :
    /\ WellFormed(r.sentence) /\ r.asOf \in Dates
    /\ \A x \in r.entry : OneValued(x.values)

(* What a reader takes a sentence to be about that was parsed like this.    *)
TopicOf(parse, s) ==
  CASE parse.type = "TRIAL_DURATION" -> IF s.days # {} THEN "trial" ELSE "some_trial"
    [] parse.attribute = "free_shipping" ->
         IF "no_charge" \in s.cues THEN "no_charge"
         ELSE IF "free" \in s.cues THEN "free_shipping" ELSE "paid_shipping"
    [] parse.attribute = "shipping_cost" -> "shipping_cost"
    [] parse.type = "MINIMUM_PURCHASE" ->
         IF "no_minimum" \in s.cues \/ s.money = {} THEN "no_minimum" ELSE "minimum"
    [] parse.type = "DISCOUNT" -> "discount"
    [] parse.type = "GEO_ELIGIBILITY" -> "region"
    [] parse.type = "AVAILABILITY" -> "availability"
    [] parse.attribute = "subscription_price" -> "plan_price"
    [] parse.attribute = "billing_period" -> "billing"
    [] parse.type = "PRICE" -> "price"
    [] parse.type = "PROMOTION_DATES" ->
         IF parse.operator = "LESS_THAN" THEN "expired" ELSE "dates"
    [] parse.type \in {"FEATURE_INCLUSION", "FEATURE_EXCLUSION"} -> "feature"
    [] OTHER -> "none"

(* The properties are about what follows from a parse, not about whether    *)
(* the first matcher that fires is the one a reader would have chosen.      *)
ASSUME TopicAssumption ==
  \A r \in Requests, p \in Profiles :
    LET parse == Classify(r.sentence, Negated(r.sentence, p), r.asOf)
    IN  parse.type # "UNKNOWN" => r.topic = TopicOf(parse, r.sentence)

(* The payload of an extraction bounds its confidence.                      *)
ASSUME ExtractionsAssumption == \A x \in Extractions : x.conf \in 0..100

VARIABLES
  profile,    \* the configuration of the process
  request,    \* the request in hand
  stage,      \* where its verification stands
  claim,      \* the normalized claim
  extracted,  \* was it extracted by the LLM?
  evidence,   \* the evidence retrieved for it
  pending,    \* the rules not yet tried
  outcomes,   \* the outcomes of the rules that applied
  result,     \* the result of the rule engine
  rated,      \* the reply the rater accepted
  answer      \* what is reported, by which layer, and for which reasons

vars == <<profile, request, stage, claim, extracted, evidence, pending, outcomes, result,
          rated, answer>>

Nothing == [verdict |-> NoVerdict, by |-> "nobody", codes |-> {}]
Unrated == [json |-> FALSE, shaped |-> FALSE, verdict |-> NoVerdict, codes |-> <<>>]

RuleResult(verdict, conf, codes, count, escalate) ==
  [verdict |-> verdict, conf |-> conf, codes |-> codes, count |-> count,
   escalate |-> escalate]

-----------------------------------------------------------------------------
(* Aggregation.                                                             *)
Having(verdict, tried) == {o \in tried : o.verdict = verdict}

Codes(tried) == UNION {o.codes : o \in tried}

Highest(tried) == CHOOSE c \in {o.conf : o \in tried} : \A o \in tried : o.conf <= c
Lowest(tried) == CHOOSE c \in {o.conf : o \in tried} : \A o \in tried : o.conf >= c

Weaker(a, b) == IF a <= b THEN a ELSE b

(* Mutant: the confidence of the parse is left out of the gate.             *)
Gated_RuleOnly(verdict, conf, codes, count, c, allowed, minConf) ==
  LET terminal == allowed /\ conf >= minConf
  IN  RuleResult(verdict, conf,
                 codes \cup (IF terminal THEN {} ELSE {"LOW_CONFIDENCE_ABSTAIN"}),
                 count, ~terminal)

(* _decide: the weaker of rule and parse confidence decides termination.    *)
Gated(verdict, conf, codes, count, c, allowed, minConf) ==
  LET effective == Weaker(conf, c.conf)
      terminal == allowed /\ effective >= minConf
  IN  RuleResult(verdict, effective,
                 codes \cup (IF terminal THEN {} ELSE {"LOW_CONFIDENCE_ABSTAIN"}),
                 count, ~terminal)

Abstained(o, count) == RuleResult("INSUFFICIENT_EVIDENCE", o.conf, o.codes, count, TRUE)

Reconciled(tried, c, p) ==
  LET contradictions == Having("CONTRADICTED", tried)
      insufficient == Having("INSUFFICIENT_EVIDENCE", tried)
      supports == Having("SUPPORTED", tried)
      count == Cardinality(tried)
  IN  IF contradictions # {}
      THEN Gated("CONTRADICTED", Highest(contradictions), Codes(contradictions), count, c,
                 p.allowContradicted, p.minConf)
      ELSE IF insufficient # {}
      THEN Abstained(Only({o \in insufficient : o.conf = Highest(insufficient)}), count)
      ELSE IF supports # {}
      THEN Gated("SUPPORTED", Lowest(supports), Codes(supports), count, c,
                 p.allowSupported, p.minConf)
      ELSE RuleResult("none", 0, {}, count, TRUE)

Closes(o) == o.rule \in GateRules /\ o.verdict = "INSUFFICIENT_EVIDENCE"

-----------------------------------------------------------------------------
(* What routing and the decision read of a claim and its evidence.          *)
ClaimView(c) == [parsed |-> IsParsed(c), typed |-> c.type # "UNKNOWN", conf |-> c.conf]

EvidenceView(c, e) ==
  [found |-> e.found, absent |-> e.absent, capable |-> Capable(c, e)]

-----------------------------------------------------------------------------
Blank == Unparsed([cues |-> {}, dates |-> <<>>, asked |-> FALSE, region |-> {}],
                  [year |-> 0, day |-> 1])

Init ==
  /\ profile \in Profiles
  /\ request \in Requests
  /\ stage = "received"
  /\ claim = Blank
  /\ extracted = FALSE
  /\ evidence = NoEvidence(Blank)
  /\ pending = <<>>
  /\ outcomes = {}
  /\ result = RuleResult("none", 0, {}, 0, TRUE)
  /\ rated = Unrated
  /\ answer = Nothing

(* Empty, over-long or contentless text is an error, not a verdict.         *)
Refuse ==
  /\ stage = "received"
  /\ ~request.sentence.legible
  /\ stage' = "failed"
  /\ UNCHANGED <<profile, request, claim, extracted, evidence, pending, outcomes, result,
                 rated, answer>>

Parse ==
  /\ stage = "received"
  /\ request.sentence.legible
  /\ claim' = Normalize(request.sentence, request.asOf, profile)
  /\ stage' = IF WantsExtraction(claim', profile) THEN "extracting" ELSE "normalized"
  /\ UNCHANGED <<profile, request, extracted, evidence, pending, outcomes, result, rated,
                 answer>>

Extract ==
  /\ stage = "extracting"
  /\ \E x \in Extractions : claim' = Extracted(claim, x)
  /\ extracted' = TRUE
  /\ stage' = "normalized"
  /\ UNCHANGED <<profile, request, evidence, pending, outcomes, result, rated, answer>>

(* Extraction failed: the request fails with it.                            *)
ExtractionFails ==
  /\ stage = "extracting"
  /\ stage' = "failed"
  /\ UNCHANGED <<profile, request, claim, extracted, evidence, pending, outcomes, result,
                 rated, answer>>

Retrieve ==
  /\ stage = "normalized"
  /\ evidence' = IF request.entry = {}
                 THEN NoEvidence(claim)
                 ELSE LET entry == Only(request.entry)
                      IN  Evidence(claim, entry.values, entry.offer, profile)
  /\ stage' = IF request.named /\ request.entry = {} THEN "failed" ELSE "retrieved"
  /\ UNCHANGED <<profile, request, claim, extracted, pending, outcomes, result, rated,
                 answer>>

(* The engine's early returns, before any rule is tried.                    *)
NotEvaluated(c, p) ==
  IF ~p.rules
  THEN {RuleResult("none", 0, {}, 0, TRUE)}
  ELSE IF p.slogans /\ c.slogan
  THEN {RuleResult("INVALID_CLAIM", Exact, {"UNSUPPORTED_INFERENCE"}, 1, FALSE)}
  ELSE IF ~IsParsed(c)
  THEN {RuleResult("none", 0, {"UNPARSEABLE_CLAIM"}, 1, TRUE)}
  ELSE {}

SkipRules ==
  /\ stage = "retrieved"
  /\ \E r \in NotEvaluated(claim, profile) : result' = r
  /\ stage' = "ruled"
  /\ UNCHANGED <<profile, request, claim, extracted, evidence, pending, outcomes, rated,
                 answer>>

BeginRules ==
  /\ stage = "retrieved"
  /\ NotEvaluated(claim, profile) = {}
  /\ pending' = profile.order
  /\ stage' = "ruling"
  /\ UNCHANGED <<profile, request, claim, extracted, evidence, outcomes, result, rated,
                 answer>>

PassRule ==
  /\ stage = "ruling"
  /\ pending # <<>>
  /\ ~Applies(Head(pending), claim, evidence)
  /\ pending' = Tail(pending)
  /\ UNCHANGED <<profile, request, stage, claim, extracted, evidence, outcomes, result,
                 rated, answer>>

(* Mutant: the rule just applied stays pending.                             *)
ApplyRule_Again ==
  /\ stage = "ruling"
  /\ pending # <<>>
  /\ Applies(Head(pending), claim, evidence)
  /\ outcomes' = outcomes \cup {Evaluate(Head(pending), claim, evidence, profile, request.asOf)}
  /\ UNCHANGED <<profile, request, stage, claim, extracted, evidence, pending, result,
                 rated, answer>>

(* Mutant: a gate that fires does not end the evaluation.                   *)
ApplyRule_NoGate ==
  /\ stage = "ruling"
  /\ pending # <<>>
  /\ Applies(Head(pending), claim, evidence)
  /\ outcomes' = outcomes \cup {Evaluate(Head(pending), claim, evidence, profile, request.asOf)}
  /\ pending' = Tail(pending)
  /\ UNCHANGED <<profile, request, stage, claim, extracted, evidence, result, rated, answer>>

ApplyRule ==
  /\ stage = "ruling"
  /\ pending # <<>>
  /\ Applies(Head(pending), claim, evidence)
  /\ LET o == Evaluate(Head(pending), claim, evidence, profile, request.asOf)
         tried == outcomes \cup {o}
     IN  /\ outcomes' = tried
         /\ IF Closes(o)
            THEN /\ result' = Abstained(o, Cardinality(tried))
                 /\ stage' = "ruled"
                 /\ pending' = <<>>
            ELSE /\ pending' = Tail(pending)
                 /\ UNCHANGED <<result, stage>>
  /\ UNCHANGED <<profile, request, claim, extracted, evidence, rated, answer>>

Reconcile ==
  /\ stage = "ruling"
  /\ pending = <<>>
  /\ result' = Reconciled(outcomes, claim, profile)
  /\ stage' = "ruled"
  /\ UNCHANGED <<profile, request, claim, extracted, evidence, pending, outcomes, rated,
                 answer>>

Routing == ShouldRate(profile.routing, ClaimView(claim), result, EvidenceView(claim, evidence))

(* Mutant: the guard replaces the verdict of the rater but not its reasons. *)
Reasons_Kept(by, found, ruled, rating) ==
  CASE by = "rules" -> ruled.codes
    [] by \in {"rater", "guard"} -> CodesOf(rating)
    [] by = "abstain" -> {IF found THEN "INSUFFICIENT_EVIDENCE" ELSE "REFERENCE_NOT_FOUND"}

(* The reason codes decide puts beside the verdict.                         *)
Reasons(by, found, ruled, rating) ==
  CASE by = "rules" -> ruled.codes
    [] by = "rater" -> CodesOf(rating)
    [] by = "guard" -> {"INSUFFICIENT_EVIDENCE"}
    [] by = "abstain" -> {IF found THEN "INSUFFICIENT_EVIDENCE" ELSE "REFERENCE_NOT_FOUND"}

Decided(rating) ==
  LET d == Decide(profile.routing, EvidenceView(claim, evidence), result, rating.verdict)
  IN  [verdict |-> d.verdict, by |-> d.by,
       codes |-> Reasons(d.by, evidence.found, result, rating)]

Settle ==
  /\ stage = "ruled"
  /\ ~Routing.required
  /\ answer' = Decided(Unrated)
  /\ stage' = "answered"
  /\ UNCHANGED <<profile, request, claim, extracted, evidence, pending, outcomes, result,
                 rated>>

(* No rater is configured, the request forbids one, the provider fails, or  *)
(* its reply is refused.                                                    *)
RatingFails ==
  /\ stage = "ruled"
  /\ Routing.required
  /\ stage' = "failed"
  /\ UNCHANGED <<profile, request, claim, extracted, evidence, pending, outcomes, result,
                 rated, answer>>

Rate ==
  /\ stage = "ruled"
  /\ Routing.required
  /\ \E reply \in Replies : Accepts(reply) /\ rated' = reply
  /\ answer' = Decided(rated')
  /\ stage' = "answered"
  /\ UNCHANGED <<profile, request, claim, extracted, evidence, pending, outcomes, result>>

Done ==
  /\ stage \in {"answered", "failed"}
  /\ UNCHANGED vars

Next ==
  \/ Refuse \/ Parse \/ Extract \/ ExtractionFails \/ Retrieve
  \/ SkipRules \/ BeginRules \/ PassRule \/ ApplyRule \/ Reconcile
  \/ Settle \/ RatingFails \/ Rate
  \/ Done

Spec == Init /\ [][Next]_vars

-----------------------------------------------------------------------------
(* Properties.                                                              *)

Stages == {"received", "extracting", "normalized", "retrieved", "ruling", "ruled",
           "answered", "failed"}

(* TypeOK: the state of a verification in progress is well typed: a rule    *)
(* still pending is one of the profile's, every outcome is of a rule that   *)
(* is no longer pending, and there is an answer exactly when it is reported.*)
TypeOK ==
  /\ profile \in Profiles
  /\ stage \in Stages
  /\ extracted \in BOOLEAN
  /\ \A i \in DOMAIN pending : \E j \in DOMAIN profile.order : pending[i] = profile.order[j]
  /\ \A o \in outcomes : \A i \in DOMAIN pending : o.rule # pending[i]
  /\ result.verdict \in Verdicts \cup {NoVerdict}
  /\ result.conf \in 0..100
  /\ rated = Unrated \/ Accepts(rated)
  /\ stage = "answered" <=> answer # Nothing

(* What the rules conclude as a function of the set of enabled rules.       *)
Concluded(rules, c, e, p) ==
  LET tried == {Evaluate(r, c, e, p, request.asOf) : r \in {x \in rules : Applies(x, c, e)}}
      gates == {o \in tried : Closes(o)}
  IN  IF gates # {} THEN Abstained(Only(gates), 1) ELSE Reconciled(tried, c, p)

RulesOf(p) == {p.order[i] : i \in DOMAIN p.order}

Evaluated == stage \in {"ruled", "answered"} /\ NotEvaluated(claim, profile) = {}

(* VerdictOrderFree: what the engine reports is a function of the set of    *)
(* enabled rules, never of the order in which a profile lists them, the     *)
(* short-circuit of the gates included: engine.py evaluate, _reconcile.     *)
VerdictOrderFree ==
  Evaluated => [result EXCEPT !.count = 0]
                 = [Concluded(RulesOf(profile), claim, evidence, profile) EXCEPT !.count = 0]

Judged ==
  IF request.entry = {} THEN "open"
  ELSE Judgement(request.topic, request.sentence, Only(request.entry), profile, request.asOf)

Definite == {"SUPPORTED", "CONTRADICTED"}

(* Each date is read in the role the sentence gives it, on the day it names *)
(* and in the year it states.                                               *)
DatesRead(r) ==
  LET dates == r.sentence.dates
      span == MonthDaySpan(dates, r.asOf)
      Days(role) == {dates[i].day : i \in {j \in DOMAIN dates : dates[j].role = role}}
      In(role) == IF role = "end" THEN span.ends ELSE span.starts
  IN  \/ span = NoSpan
      \/ /\ Days("start") = {d.day : d \in span.starts}
         /\ Days("end") = {d.day : d \in span.ends}
         /\ \A i \in DOMAIN dates : \A y \in dates[i].year :
              [year |-> y, day |-> dates[i].day] \in In(dates[i].role)
         /\ \A i, j \in DOMAIN dates : dates[i].year = {} => dates[j].year = {}

(* SilenceIsNotDenial: at no confidence, terminal or not, do the rules say  *)
(* SUPPORTED or CONTRADICTED of a sentence the record does not speak to,    *)
(* its dates being read as they are said: library.py "Absent is not false". *)
(* It takes the rule that says that a column is not populated.              *)
SilenceIsNotDenial ==
  Evaluated /\ ~extracted /\ result.verdict \in Definite /\ DatesRead(request)
    /\ "field_presence" \in RulesOf(profile) =>
    Judged # "open"

(* What the code does not keep of a sentence (the README quotes the lines): *)
(* the polarity of values (claim_parser.py:440); a denial under a hedge     *)
(* (:783), and that a day is a trial under a tolerance of days; a start     *)
(* that stands alone, two dates in different forms, a year guessed beside a *)
(* stated one, and the 365 days a window is moved by (units.py:418-433); a  *)
(* date without a cue (claim_parser.py:830); that a closed offer makes no   *)
(* denial false (library.py:627).                                           *)
PolarityRead(r) ==
  Denied(r.sentence) =>
    r.topic \in {"free_shipping", "no_charge", "no_minimum", "availability", "region",
                 "feature", "some_trial"}
HedgeHarmless(r, p) ==
  /\ r.topic \in {"availability", "some_trial"} => r.sentence.qualifier = "NONE"
  /\ r.topic = "some_trial" => p.trialTolerance = 0
DatesNoticed(r) ==
  r.sentence.dates # <<>> =>
    "date" \in r.sentence.cues /\ MonthDaySpan(r.sentence.dates, r.asOf) # NoSpan
ClosedOffer(r, p) == \E x \in r.entry : x.offer /\ Closed(x.values, p, r.asOf)
PromiseRead(r, p) ==
  (r.topic = "paid_shipping"
     \/ (Denied(r.sentence) /\ r.topic \in {"free_shipping", "region"})) =>
    ~ClosedOffer(r, p)

(* A guessed year is replaced before the grace is applied (library.py:688): *)
(* a day that is within the grace of one of the year before or after is not *)
(* found to be.                                                             *)
OneYear(mention, d, p) ==
  mention.year = {} =>
    \A y \in {d.year - 1, d.year + 1} :
      LET said == [year |-> y, day |-> mention.day]
      IN  DateExists(said) => DaysApart(said, d) > p.grace
NoTurnNear(s, record, p) ==
  \A i \in DOMAIN s.dates : \A d \in record["offer_start"] \cup record["offer_end"] :
    OneYear(s.dates[i], d, p)

(* The rest are two tolerances that are added up (base.py:141).  The        *)
(* polarity is looked for, and a doubtful one does not settle a claim.      *)
Understood(r, p) ==
  /\ PolarityRead(r) /\ HedgeHarmless(r, p) /\ PromiseRead(r, p)
  /\ DatesRead(r) /\ DatesNoticed(r)
  /\ p.negation /\ p.qualifiers /\ p.minConf > 35
  /\ p.priceRelative = 0 /\ \A x \in r.entry : NoTurnNear(r.sentence, x.values, p)
  /\ "field_presence" \in RulesOf(p)

(* What no rule looks at: the currency of shipping costs and thresholds and *)
(* the window of what an offer gives beside its discount (evidence.py:44),  *)
(* which the projection drops, and the second of two dates (library.py:574).*)
CurrencyKept(r) ==
  r.topic \in {"shipping_cost", "minimum"} =>
    \A x \in r.entry : SameCurrency(Only(r.sentence.money), x.values) # "false"
WindowKept(r, p) ==
  p.scoped /\ r.topic # "discount" =>
    \A x \in r.entry : Promised(r.topic, r.sentence, x.offer) => ~Closed(x.values, p, r.asOf)
DatedOnce(r) == Len(r.sentence.dates) <= 1

LookedAt(r, p) ==
  /\ CurrencyKept(r) /\ WindowKept(r, p) /\ DatedOnce(r)
  /\ \A i \in DOMAIN DefaultRules : DefaultRules[i] \in RulesOf(p)

(* RulesTellTheTruth: a verdict the rules settle by themselves is what the  *)
(* record says of the sentence: CONTRADICTED under every profile, SUPPORTED *)
(* under every profile that enables all the rules, if they look at it all.  *)
RulesTellTheTruth ==
  Evaluated /\ ~extracted /\ IsTerminal(result) /\ Understood(request, profile) =>
    /\ result.verdict = "CONTRADICTED" => Judged = "false"
    /\ result.verdict = "SUPPORTED" /\ LookedAt(request, profile) => Judged = "true"

(* An extraction may name a column its claim type is not about: nothing     *)
(* relates the two fields of its schema (models.py:217).                    *)
WellAimed(c) ==
  /\ c.attribute \in Projection(c.type)
  /\ c.attribute \in MoneyAttributes => "currency" \in Projection(c.type)

(* ProjectionPreservesVerdict: narrowing the evidence to the claim does not *)
(* change what the rules conclude from the whole record, except for the     *)
(* claim types whose projection leaves out the currency or the offer window.*)
ProjectionPreservesVerdict ==
  Evaluated /\ request.entry # {} /\ (extracted => WellAimed(claim))
    /\ claim.type \notin {"SHIPPING", "MINIMUM_PURCHASE", "GEO_ELIGIBILITY"} =>
    LET entry == Only(request.entry)
        whole == Evidence(claim, entry.values, entry.offer,
                          [profile EXCEPT !.scoped = FALSE, !.terms = TRUE])
    IN  result.verdict = Concluded(RulesOf(profile), claim, whole, profile).verdict

(* RaterSupportGrounded: with the support guard on, SUPPORTED on the word   *)
(* of the rater is reported only when the record populates the column the   *)
(* claim is about: decision.py _has_capable_evidence.                       *)
RaterSupportGrounded ==
  stage = "answered" /\ profile.routing.blockSupport
    /\ answer.by = "rater" /\ answer.verdict = "SUPPORTED" =>
    /\ request.entry # {}
    /\ claim.attribute # "unknown"
    /\ LET values == Only(request.entry).values
       IN  \E a \in {claim.attribute, Fallback(claim.attribute)} : values[a] # {}

(* What the rules and the rater give as reasons against a claim, and what   *)
(* they give for leaving it open.                                           *)
Against ==
  MismatchCodes \cup {"TRIAL_DURATION_MISMATCH", "SUBSCRIPTION_PRICE_MISMATCH",
    "MINIMUM_PURCHASE_MISMATCH", "CURRENCY_MISMATCH", "OFFER_EXPIRED", "OFFER_NOT_STARTED"}
LeavingOpen == AbstentionCodes \cup {"FIELD_NOT_IN_REFERENCE", "UNPARSEABLE_CLAIM"}

(* AnswersExplained: whichever layer answers, rules, rater, guard or none   *)
(* of them, the reasons fit the verdict they stand beside: CONTRADICTED has *)
(* one against the claim and none that leaves it open, SUPPORTED has none   *)
(* of either kind (but that an offer has expired, if that is the claim),    *)
(* INSUFFICIENT_EVIDENCE has none against it and, if the system and not the *)
(* model says so, one that leaves it open (decision.py decide).             *)
AnswersExplained ==
  stage = "answered" =>
    LET against == answer.codes \cap Against
        open == answer.codes \cap LeavingOpen
    IN  /\ answer.verdict = "CONTRADICTED" => against # {} /\ open = {}
        /\ answer.verdict = "SUPPORTED" =>
             open = {} /\ against \subseteq (IF Expired(claim) THEN {"OFFER_EXPIRED"} ELSE {})
        /\ answer.verdict = "INSUFFICIENT_EVIDENCE" =>
             against = {} /\ (answer.by # "rater" => open # {})

-----------------------------------------------------------------------------
(* What the documentation says and the code does not keep.                  *)

(* GuessedYearHarmless: a contradiction over the dates of a sentence that   *)
(* leaves a year out is one the sentence deserves: "a year guessed from     *)
(* as_of cannot manufacture a date mismatch" (units.py:386).                *)
GuessedYearHarmless ==
  Evaluated /\ result.verdict = "CONTRADICTED" /\ "DATE_MISMATCH" \in result.codes
    /\ (\E i \in DOMAIN request.sentence.dates : request.sentence.dates[i].year = {})
    => Judged = "false"

(* What the rules conclude from a claim and an entry of the catalog.        *)
OnEntry(c, entry) ==
  Concluded(RulesOf(profile), c, Evidence(c, entry.values, entry.offer, profile), profile)

(* OppositeVerdicts: a sentence and its denial "have opposite verdicts      *)
(* against the same reference row" (negation.py:4).                         *)
OppositeVerdicts ==
  Evaluated /\ Denied(request.sentence) /\ IsTerminal(result)
    /\ request.entry # {} /\ result.verdict \in Definite =>
    LET other == OnEntry(Normalize([request.sentence EXCEPT !.negations = 0],
                                   request.asOf, profile),
                         Only(request.entry))
    IN  IsTerminal(other) => other.verdict # result.verdict

=============================================================================
