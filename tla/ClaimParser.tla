----------------------------- MODULE ClaimParser -----------------------------
(***************************************************************************)
(* The deterministic normalizer: from what the detectors find in a         *)
(* sentence to the structured claim the rules compare.                     *)
(***************************************************************************)
EXTENDS SentenceFindings

TheOne(s) == CHOOSE x \in s : TRUE

Negated(s, cfg) == cfg.negation /\ s.negations % 2 = 1
DoublyNegated(s, cfg) == cfg.negation /\ s.negations > 0 /\ s.negations % 2 = 0
Hedge(s, cfg) == IF cfg.qualifiers THEN s.qualifier ELSE "NONE"

-----------------------------------------------------------------------------
(* Parses.                                                                  *)
Parsed(type, attribute, operator, conf) ==
  [type |-> type, attribute |-> attribute, operator |-> operator, conf |-> conf,
   kind |-> "none", number |-> 0, word |-> "none", unit |-> "none"]

Unclassified == Parsed("UNKNOWN", "unknown", "EQUALS", 0)

Number(parse, number, unit) ==
  [parse EXCEPT !.kind = "number", !.number = number, !.unit = unit]
Money(parse, m) == Number(parse, m.amount, m.currency)
Word(parse, word) == [parse EXCEPT !.kind = "word", !.word = word]
Flag(parse, yes) == [parse EXCEPT !.kind = "flag", !.word = IF yes THEN "yes" ELSE "no"]

-----------------------------------------------------------------------------
(* The matchers: the parse each makes of a sentence, or nothing.            *)
MatchTrial(s, negated) ==
  LET Trial(operator, days, conf) ==
        Number(Parsed("TRIAL_DURATION", "trial_days", operator, conf), days, "days")
  IN  IF "trial" \notin s.cues /\ ~("free_for" \in s.cues /\ s.days # {})
      THEN {}
      ELSE IF s.days # {} THEN {Trial("EQUALS", TheOne(s.days), 95)}
      ELSE IF negated THEN {Trial("EQUALS", 0, 80)}
      ELSE {Trial("GREATER_THAN", 0, 70)}

MatchShipping(s, negated) ==
  LET Free(yes) ==
        Flag(Parsed("SHIPPING", "free_shipping", IF yes THEN "IS_TRUE" ELSE "IS_FALSE", 95), yes)
  IN  IF "shipping" \notin s.cues THEN {}
      ELSE IF "no_charge" \in s.cues THEN {Free(TRUE)}
      ELSE IF "free" \in s.cues THEN {Free(~negated)}
      ELSE IF "paid" \in s.cues THEN {Free(FALSE)}
      ELSE IF s.money # {}
      THEN {Money(Parsed("SHIPPING", "shipping_cost", "EQUALS", 90), TheOne(s.money))}
      ELSE {Unclassified}

MatchMinimumPurchase(s, negated) ==
  LET Threshold(conf) == Parsed("MINIMUM_PURCHASE", "minimum_purchase", "EQUALS", conf)
  IN  IF "minimum" \notin s.cues THEN {}
      ELSE IF "no_minimum" \in s.cues \/ (negated /\ s.money = {})
      THEN {Number(Threshold(88), 0, "none")}
      ELSE {Money(Threshold(90), m) : m \in s.money}

MatchDiscount(s) ==
  {Number(Parsed("DISCOUNT", "discount_percent", "EQUALS", 93), p, "percent") :
     p \in IF "discount" \in s.cues THEN s.percent ELSE {}}

MatchRegion(s, negated) ==
  {Word(Parsed("GEO_ELIGIBILITY", "eligible_regions",
               IF negated THEN "EXCLUDES" ELSE "INCLUDES", 90), r) :
     r \in IF "region" \in s.cues THEN s.region ELSE {}}

MatchAvailability(s, negated) ==
  LET Status(conf) == Parsed("AVAILABILITY", "inventory_status",
                             IF negated THEN "NOT_EQUALS" ELSE "EQUALS", conf)
  IN  IF s.phrase = {} /\ negated /\ "available" \in s.cues
      THEN {Word(Status(80), "in_stock")}
      ELSE {Word(Status(90), status) : status \in s.phrase}

MatchSubscription(s) ==
  IF "subscription" \notin s.cues THEN {}
  ELSE IF s.money # {}
  THEN {Money(Parsed("SUBSCRIPTION_TERMS", "subscription_price", "EQUALS", 92), TheOne(s.money))}
  ELSE {Word(Parsed("SUBSCRIPTION_TERMS", "billing_period", "EQUALS", 85), p) : p \in s.period}

MatchPrice(s) ==
  {Money(IF "plan" \in s.cues
         THEN Parsed("SUBSCRIPTION_TERMS", "subscription_price", "EQUALS", 92)
         ELSE Parsed("PRICE", "price", "EQUALS", 92), m) : m \in s.money}

(* Dates are read only beside a cue for dates.                              *)
StatedSpan(s, asOf) == IF "date" \in s.cues THEN MonthDaySpan(s.dates, asOf) ELSE NoSpan

(* A stated end is what the claim is about, else a stated start.            *)
DatesClaim(span, expired) ==
  LET Dated(attribute) ==
        [Parsed("PROMOTION_DATES", attribute, "EQUALS", 92) EXCEPT !.kind = "date",
                                                                   !.unit = "date"]
      Over == [Parsed("PROMOTION_DATES", "offer_end", "LESS_THAN", 85) EXCEPT !.kind = "date"]
  IN  IF span.ends # {} THEN {Dated("offer_end")}
      ELSE IF span.starts # {} THEN {Dated("offer_start")}
      ELSE IF expired THEN {Over} ELSE {}

MatchPromotionDates(s, asOf) ==
  IF "date" \notin s.cues THEN {} ELSE DatesClaim(StatedSpan(s, asOf), "expired" \in s.cues)

MatchFeature(s, negated) ==
  LET excluding == negated \/ "excludes" \in s.cues
      Conf(f) == LET c == 60 + (35 * f.match) \div 100 IN IF c < 93 THEN c ELSE 93
  IN  {Word(IF excluding
            THEN Parsed("FEATURE_EXCLUSION", "excluded_features", "EXCLUDES", Conf(f))
            ELSE Parsed("FEATURE_INCLUSION", "included_features", "INCLUDES", Conf(f)), f.key) :
         f \in IF s.cues \cap {"includes", "excludes"} # {} THEN s.feature ELSE {}}

Cascade(s, negated, asOf) ==
  <<MatchTrial(s, negated), MatchShipping(s, negated), MatchMinimumPurchase(s, negated),
    MatchDiscount(s), MatchRegion(s, negated), MatchAvailability(s, negated),
    MatchSubscription(s), MatchPrice(s), MatchPromotionDates(s, asOf),
    MatchFeature(s, negated)>>

(* The first matcher that makes something of the sentence decides.          *)
Classify(s, negated, asOf) ==
  LET parses == Cascade(s, negated, asOf)
      hits == {i \in DOMAIN parses : parses[i] # {}}
  IN  IF hits = {} THEN Unclassified
      ELSE TheOne(parses[CHOOSE i \in hits : \A j \in hits : i <= j])

-----------------------------------------------------------------------------
OperatorFor(qualifier) ==
  CASE qualifier \in {"UP_TO", "AT_MOST"} -> "AT_MOST"
    [] qualifier \in {"STARTING_AT", "AT_LEAST"} -> "AT_LEAST"
    [] OTHER -> "EQUALS"

(* A hedge replaces the comparison, but not set membership or a flag.       *)
ResolveOperator(operator, qualifier) ==
  IF qualifier = "NONE" \/ operator \in {"INCLUDES", "EXCLUDES", "IS_TRUE", "IS_FALSE"}
  THEN operator
  ELSE OperatorFor(qualifier)

ParseConfidence(s, parse, cfg) ==
  IF DoublyNegated(s, cfg) /\ parse.conf > 35 THEN 35 ELSE parse.conf

Settled(s, parse, cfg) ==
  [parse EXCEPT !.operator = ResolveOperator(@, Hedge(s, cfg)),
                !.conf = ParseConfidence(s, parse, cfg)]

(* A parse in its context: the dates, the tense and the region are read     *)
(* from the whole sentence.                                                 *)
InContext(s, parse, qualifier, negated, asOf) ==
  LET span == StatedSpan(s, asOf)
  IN  [type |-> parse.type, attribute |-> parse.attribute, operator |-> parse.operator,
       kind |-> parse.kind, number |-> parse.number, word |-> parse.word, unit |-> parse.unit,
       conf |-> parse.conf, starts |-> span.starts, ends |-> span.ends,
       inferred |-> span # NoSpan /\ ~YearIsExplicit(s.dates),
       qualifier |-> qualifier, negated |-> negated,
       present |-> "now" \in s.cues \/ "date" \notin s.cues,
       regional |-> s.asked \/ ("region" \in s.cues /\ s.region # {}),
       slogan |-> parse.type = "UNKNOWN" /\ "slogan" \in s.cues]

(* normalize with the deterministic parser switched off: the text, the      *)
(* entity and the date of evaluation are all that is carried.               *)
Unparsed(s, asOf) ==
  InContext([s EXCEPT !.cues = {}], Unclassified, "NONE", FALSE, asOf)

Normalize(s, asOf, cfg) ==
  IF ~cfg.parsing
  THEN Unparsed(s, asOf)
  ELSE InContext(s, Settled(s, Classify(s, Negated(s, cfg), asOf), cfg),
                 Hedge(s, cfg), Negated(s, cfg), asOf)

(* Is the parse too weak to go on without the extractor?                    *)
WantsExtraction(claim, cfg) ==
  /\ cfg.extraction
  /\ claim.type = "UNKNOWN" \/ claim.attribute = "unknown" \/ claim.conf < cfg.extractBelow

(* What an extraction changes: all but the dates, the tense and the notes.  *)
Extracted(claim, extraction) ==
  [claim EXCEPT !.type = extraction.type, !.attribute = extraction.attribute,
                !.operator = extraction.operator, !.qualifier = extraction.qualifier,
                !.kind = extraction.kind, !.number = extraction.number,
                !.word = extraction.word, !.unit = extraction.unit,
                !.negated = extraction.negated, !.conf = extraction.conf,
                !.regional = @ \/ extraction.regional]

=============================================================================
