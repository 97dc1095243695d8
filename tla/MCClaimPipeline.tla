--------------------------- MODULE MCClaimPipeline ---------------------------
(***************************************************************************)
(* Instances of ClaimPipeline: a calendar of ten days whose fourth exists  *)
(* in year 2 only, sentences for every matcher, and for each topic records *)
(* that answer it, refute it, border on it and are silent.                 *)
(***************************************************************************)
EXTENDS CandidateReuse

MCYearDays == 10
MCLeapDay == 4
MCLeapYears == {2}
MCEUMembers == {"DE"}
MCBackdateTolerance == 3

D(y, d) == [year |-> y, day |-> d]
Today == D(2, 6)

-----------------------------------------------------------------------------
(* Sentences.                                                               *)
Plain ==
  [cues |-> {}, money |-> {}, percent |-> {}, days |-> {}, phrase |-> {}, region |-> {},
   period |-> {}, feature |-> {}, dates |-> <<>>, negations |-> 0,
   qualifier |-> "NONE", asked |-> FALSE, legible |-> TRUE]

Mention(role, day, year) ==
  [form |-> "month_day", day |-> day, year |-> year, role |-> role]
Until(day, year) == <<Mention("end", day, year)>>
Between(first, second, year) ==
  <<Mention("start", first, year), Mention("end", second, year)>>

In(currency) == {[amount |-> 60, currency |-> currency]}

Hedged(sentences, hedges) ==
  {[s EXCEPT !.qualifier = q] : s \in sentences, q \in hedges}
Twice(sentences) == {[s EXCEPT !.negations = n] : s \in sentences, n \in 0..2}
Once(sentences) == {[s EXCEPT !.negations = n] : s \in sentences, n \in 0..1}
Now(sentences) == sentences \cup {[s EXCEPT !.cues = @ \cup {"now"}] : s \in sentences}

Hedges == Qualifiers \ {"STARTING_AT", "UNLIMITED"}

PriceTalk ==
  Hedged({[Plain EXCEPT !.money = In(c)] : c \in {"USD", "none"}}, Hedges)
PlanTalk ==
  {[Plain EXCEPT !.cues = {"plan"}, !.money = In("EUR")],
   [Plain EXCEPT !.cues = {"plan", "subscription"}, !.money = In("USD"), !.negations = 2]}
BillingTalk ==
  {[Plain EXCEPT !.cues = {"subscription"}, !.period = {p}] : p \in {"monthly", "annual"}}
TrialTalk == Twice({[Plain EXCEPT !.cues = {"trial", "subscription"}, !.days = {14}],
                    [Plain EXCEPT !.cues = {"free_for", "includes"}, !.days = {14}]})
SomeTrialTalk == Twice({[Plain EXCEPT !.cues = {"trial", "includes"}]})
FreeShippingTalk ==
  Twice({[Plain EXCEPT !.cues = {"shipping", "free"}],
         [Plain EXCEPT !.cues = {"shipping", "free", "available", "now"}]})
PaidShippingTalk == {[Plain EXCEPT !.cues = {"shipping", "paid"}]}
ShippingCostTalk == {[Plain EXCEPT !.cues = {"shipping"}, !.money = In("USD")]}
MinimumTalk ==
  Hedged({[Plain EXCEPT !.cues = {"minimum"}, !.money = In("USD")]}, {"NONE", "AT_LEAST"})
NoMinimumTalk ==
  {[Plain EXCEPT !.cues = {"minimum", "no_minimum"}],
   [Plain EXCEPT !.cues = {"minimum"}, !.negations = 1]}
DiscountTalk ==
  Now(Hedged({[Plain EXCEPT !.cues = {"discount"}, !.percent = {20}],
              [Plain EXCEPT !.cues = {"discount", "date"}, !.percent = {20},
                            !.dates = Until(8, {})],
              [Plain EXCEPT !.cues = {"discount"}, !.percent = {20},
                            !.dates = Until(8, {1})],
              [Plain EXCEPT !.cues = {"discount", "date"}, !.percent = {20},
                            !.dates = Until(8, {1})]}, {"NONE", "UP_TO"}))
AvailabilityTalk ==
  Twice({[Plain EXCEPT !.cues = {"available"}, !.phrase = {x}] :
           x \in {"in_stock", "limited_stock", "out_of_stock"}}
        \cup {[Plain EXCEPT !.cues = {"available", "includes"}]})
RegionTalk ==
  Twice({[Plain EXCEPT !.cues = {"region", "available"}, !.region = {x}] :
           x \in {"DE", "US"}})
FeatureTalk ==
  {[Plain EXCEPT !.cues = {"includes"}, !.feature = {[key |-> "sso", match |-> m]},
                 !.negations = n] : m \in {75, 100}, n \in 0..2}
  \cup {[Plain EXCEPT !.cues = {"excludes"}, !.feature = {[key |-> "sso", match |-> 100]},
                      !.negations = n] : n \in 1..2}
Dating(mentions) == {[Plain EXCEPT !.cues = {"date"}, !.dates = m] : m \in mentions}
DateTalk ==
  Dating({Until(d, y) : d \in {4, 8}, y \in {{}, {1}, {2}}}
         \cup {Between(3, e, y) : e \in {3, 4, 8}, y \in {{}, {2}}}
         \cup {Between(9, e, {}) : e \in {1, 3}}
         \cup {<<Mention("start", 9, {1}), Mention("end", 3, {2})>>,
               <<[Mention("end", 8, {2}) EXCEPT !.form = "iso"],
                 Mention("end", 8, {})>>})
ExpiredTalk == {[Plain EXCEPT !.cues = {"date", "expired"}]}
OtherTalk ==
  {[Plain EXCEPT !.cues = {"slogan", "now"}], [Plain EXCEPT !.cues = {"shipping", "slogan"}],
   [Plain EXCEPT !.legible = FALSE], Plain}

-----------------------------------------------------------------------------
(* Records: the columns that matter for a topic, in every combination.      *)
Empty == [a \in Attributes |-> {}]
Unset(values) == {{}} \cup {{x} : x \in values}

Monies(column, amounts) ==
  {[Empty EXCEPT ![column] = x, !.currency = c] :
     x \in Unset(amounts), c \in Unset(Currencies)}
Plans == {[Empty EXCEPT !.subscription_price = x, !.currency = {"EUR"}] : x \in Unset({60, 62})}
Costs == {[Empty EXCEPT !.shipping_cost = x, !.minimum_purchase = {5}] : x \in Unset({0, 60, 63})}
Shipping == {[r EXCEPT !.free_shipping = x] : r \in Costs, x \in Unset({"yes", "no"})}
Windows == {<<{}, {}>>, <<{D(1, 9)}, {D(2, 3)}>>, <<{D(2, 3)}, {D(2, 8)}>>,
            <<{D(2, 7)}, {D(3, 5)}>>, <<{}, {D(2, 6)}>>, <<{D(2, 3)}, {}>>,
            <<{}, {D(3, 3)}>>, <<{}, {D(2, 4)}>>, <<{D(2, 4)}, {D(2, 8)}>>}
Offers(r) == {[r EXCEPT !.offer_start = w[1], !.offer_end = w[2]] : w \in Windows}
Discounts == UNION {Offers([Empty EXCEPT !.discount_percent = x, !.price = {60}]) :
                      x \in Unset({15, 20, 25})}
Listed(column, sets) == {[Empty EXCEPT ![column] = x] : x \in sets}
FeatureLists ==
  {[Empty EXCEPT !.included_features = i, !.excluded_features = x, !.terms = {"text"}] :
     i \in {{}, {"sso"}, {"api"}}, x \in {{}, {"sso"}, {"crm"}}}

AboutOn(days, topic, sentences, records, offers) ==
  {[topic |-> topic, sentence |-> s, asOf |-> day, named |-> FALSE,
    entry |-> {[values |-> r, offer |-> o]}] : day \in days, s \in sentences, r \in records, o \in offers}

About(topic, sentences, records, offers) ==
  AboutOn({Today}, topic, sentences, records, offers)

Unresolved(topic, sentences) ==
  {[topic |-> topic, sentence |-> s, asOf |-> Today, named |-> n, entry |-> {}] :
     s \in sentences, n \in BOOLEAN}

Product == {FALSE}

ValueRequests ==
  About("price", PriceTalk, Monies("price", {57, 60, 61, 62}), Product)
    \cup About("price", PriceTalk, Plans, Product)
    \cup About("plan_price", PlanTalk, Plans \cup Monies("price", {60}), Product)
    \cup About("billing", BillingTalk, Listed("billing_period", Unset({"monthly"})), Product)
    \cup About("trial", TrialTalk, Listed("trial_days", Unset({0, 14})), Product)
    \cup About("some_trial", SomeTrialTalk, Listed("trial_days", Unset({0, 14})), Product)
    \cup About("minimum", MinimumTalk, Monies("minimum_purchase", {57, 60, 64}), Product)
    \cup About("no_minimum", NoMinimumTalk,
               Listed("minimum_purchase", Unset({0, 60})), Product)

MembershipRequests ==
  About("free_shipping", FreeShippingTalk, Shipping, Product)
    \cup About("paid_shipping", PaidShippingTalk, Shipping, Product)
    \cup About("shipping_cost", ShippingCostTalk, Shipping, Product)
    \cup About("availability", AvailabilityTalk,
               Listed("inventory_status", Unset({"in_stock", "limited_stock", "out_of_stock"})),
               Product)
    \cup About("region", RegionTalk,
               {[r EXCEPT !.inventory_status = {"in_stock"}] :
                  r \in Listed("eligible_regions", {{}, {"EU"}, {"DE", "US"}, {"US"}})}, Product)
    \cup About("feature", FeatureTalk, FeatureLists, Product)

(* What the code is known not to keep: see Understood in ClaimPipeline.     *)
ForeignCosts ==
  About("shipping_cost", ShippingCostTalk,
        {[r EXCEPT !.currency = {"EUR"}] : r \in Shipping}, Product)
HedgedDenials ==
  About("availability",
        Hedged(Once({[Plain EXCEPT !.cues = {"available"}, !.phrase = {"in_stock"}]}), Hedges),
        Listed("inventory_status", Unset({"in_stock", "out_of_stock"})), Product)
Misread ==
  AboutOn({Today, D(3, 2)}, "dates",
          Dating({<<Mention("start", 3, {})>>,
                  <<[Mention("start", 1, {2}) EXCEPT !.form = "iso"], Mention("end", 8, {})>>,
                  <<Mention("start", 11, {}), Mention("end", 8, {})>>}),
          Offers(Empty), {TRUE})

(* An end whose year is not stated, a day before that of the record.        *)
Borderline ==
  AboutOn({Today}, "dates", Dating({Until(10, {})}),
          {[Empty EXCEPT !.offer_end = {D(3, 1)}]}, {TRUE})

(* Windows across the turn of a year of which at least one is not stated.   *)
GuessedSpans ==
  AboutOn({D(2, 1), D(3, 1)}, "dates",
          Dating({Between(9, 1, {}), <<Mention("start", 9, {}), Mention("end", 1, {3})>>}),
          {[Empty EXCEPT !.offer_start = {D(2, 9)}, !.offer_end = {D(3, 1)}]}, {TRUE})

TrialDenials == About("trial", TrialTalk, Listed("trial_days", Unset({0, 14})), Product)

(* What an offer gives beside a discount, with the window of the offer, and *)
(* dates beside claims that are not about them.                             *)
Given(column, values) ==
  UNION {Offers([Empty EXCEPT ![column] = x]) : x \in Unset(values)}
OfferRequests ==
  About("free_shipping", Once({[Plain EXCEPT !.cues = {"shipping", "free"}],
                               [Plain EXCEPT !.cues = {"shipping", "free", "date"},
                                             !.dates = Until(8, {2})]}),
        Given("free_shipping", {"yes", "no"}), BOOLEAN)
    \cup About("no_charge", Once({[Plain EXCEPT !.cues = {"shipping", "no_charge"}]}),
               Given("shipping_cost", {0, 60}), BOOLEAN)
    \cup About("paid_shipping", PaidShippingTalk, Given("free_shipping", {"yes", "no"}), {TRUE})
    \cup About("no_minimum", NoMinimumTalk, Given("minimum_purchase", {0, 60}), {TRUE})
    \cup About("minimum", MinimumTalk, Given("minimum_purchase", {60}), {TRUE})
    \cup About("region", Once({[Plain EXCEPT !.cues = {"region"}, !.region = {"DE"}]}),
               Given("eligible_regions", {"EU", "US"}), {TRUE})
    \cup About("price", {[Plain EXCEPT !.cues = {"date"}, !.money = In("USD"),
                                      !.dates = Until(8, y)] : y \in {{}, {1}, {2}}},
               Given("price", {60, 62}), Product)

DatedTrials ==
  About("trial",
        {[Plain EXCEPT !.cues = {"trial", "date"}, !.days = {14}, !.dates = Until(8, {})]},
        UNION {Offers([Empty EXCEPT !.trial_days = x]) : x \in Unset({7, 14})}, {TRUE})

WindowRequests ==
  DatedTrials \cup OfferRequests
    \cup About("discount", DiscountTalk, Discounts, {TRUE})
    \cup AboutOn({Today, D(2, 1), D(1, 9), D(3, 2)}, "dates", DateTalk, Offers(Empty), {TRUE})
    \cup About("expired", ExpiredTalk, Offers(Empty), {TRUE})
    \cup About("none", OtherTalk, Offers(Empty), {TRUE})
    \cup Unresolved("none", OtherTalk) \cup Unresolved("price", PriceTalk)

MCRequests ==
  ValueRequests \cup MembershipRequests \cup WindowRequests
    \cup ForeignCosts \cup HedgedDenials \cup Borderline \cup Misread

-----------------------------------------------------------------------------
(* Profiles.                                                                *)
Optimized ==
  [parsing |-> TRUE, negation |-> TRUE, qualifiers |-> TRUE, extraction |-> TRUE,
   extractBelow |-> 80, scoped |-> TRUE, terms |-> TRUE, rules |-> TRUE,
   order |-> DefaultRules, slogans |-> FALSE, priceAbsolute |-> 1, priceRelative |-> 0,
   percentTolerance |-> 0, trialTolerance |-> 0, approximate |-> 5, grace |-> 0,
   allowSupported |-> TRUE, allowContradicted |-> TRUE, minConf |-> 90,
   routing |-> [enabled |-> TRUE, onUnresolved |-> FALSE, onMissing |-> FALSE,
                blockSupport |-> TRUE]]

OptimizedFinal ==
  [Optimized EXCEPT
     !.extraction = FALSE, !.slogans = TRUE,
     !.order = <<"entity_resolution", "field_presence", "currency_match",
                 "numeric_comparison", "free_shipping", "feature_membership",
                 "availability", "region_eligibility", "promotion_window">>]

(* configs/phase7, in the order in which one candidate became the parent of *)
(* the next.                                                                *)
Candidate01 ==
  [Optimized EXCEPT
     !.extraction = FALSE, !.scoped = FALSE, !.routing.blockSupport = FALSE,
     !.order = <<"entity_resolution", "field_presence", "currency_match",
                 "numeric_comparison">>]
Adding(p, rules) == [p EXCEPT !.order = @ \o rules]
Candidate02 == Adding(Candidate01, <<"free_shipping", "feature_membership">>)
Candidate03 == [Candidate02 EXCEPT !.slogans = TRUE]
Candidate04 == Adding(Candidate03, <<"availability", "region_eligibility">>)
Candidate05 == Adding(Candidate04, <<"promotion_window", "active_offer_window">>)
Candidate05b == Adding(Candidate04, <<"promotion_window">>)

(* The reuse policies of experiments/phase7, and the use of the flag for    *)
(* changes of the rater: its heuristics.                                    *)
Experiment(parent, child, affected) ==
  [parent |-> parent, child |-> child, affected |-> affected, raterOnly |-> FALSE]

MCExperiments ==
  {Experiment(Candidate01, Candidate02, {"FEATURE_EXCLUSION", "FEATURE_INCLUSION", "SHIPPING"}),
   Experiment(Candidate02, Candidate03, {"UNKNOWN"}),
   Experiment(Candidate03, Candidate04, {"AVAILABILITY", "GEO_ELIGIBILITY"}),
   Experiment(Candidate04, Candidate05,
              {"DISCOUNT", "GEO_ELIGIBILITY", "MINIMUM_PURCHASE", "PROMOTION_DATES", "SHIPPING"}),
   Experiment(Candidate04, Candidate05b, {"DISCOUNT", "PROMOTION_DATES"}),
   [parent |-> OptimizedFinal, child |-> [OptimizedFinal EXCEPT !.routing.blockSupport = FALSE],
    affected |-> {}, raterOnly |-> TRUE]}

(* A legal profile nobody ships: the rules backwards, the gates last, and a *)
(* day of grace.                                                            *)
Backwards ==
  [Optimized EXCEPT
     !.extraction = FALSE, !.terms = FALSE, !.routing.onMissing = TRUE,
     !.routing.onUnresolved = TRUE, !.grace = 1,
     !.order = [i \in DOMAIN DefaultRules |-> DefaultRules[Len(DefaultRules) + 1 - i]]]

Baseline ==
  [Optimized EXCEPT
     !.parsing = FALSE, !.negation = FALSE, !.qualifiers = FALSE, !.extraction = FALSE,
     !.scoped = FALSE, !.rules = FALSE,
     !.routing = [enabled |-> TRUE, onUnresolved |-> TRUE, onMissing |-> TRUE,
                  blockSupport |-> FALSE]]

FinalOnly == {OptimizedFinal}
MCProfiles ==
  {Optimized, OptimizedFinal, Candidate01, Candidate02, Candidate03, Candidate04,
   Candidate05, Backwards, Baseline}

-----------------------------------------------------------------------------
(* What the extractor answers: a confident reading, and none.               *)
Nowhere ==
  [type |-> "UNKNOWN", attribute |-> "unknown", operator |-> "EQUALS", qualifier |-> "NONE",
   kind |-> "none", number |-> 0, word |-> "none", unit |-> "none", negated |-> FALSE,
   conf |-> 40, regional |-> FALSE]
MCExtractions ==
  {Nowhere,
   [Nowhere EXCEPT !.type = "FEATURE_INCLUSION", !.attribute = "included_features",
                   !.operator = "INCLUDES", !.kind = "word", !.word = "sso", !.conf = 95,
                   !.regional = TRUE]}

-----------------------------------------------------------------------------
(* What the model replies: per verdict the fewest and the most codes it may *)
(* be accepted with, and replies that break one condition each.             *)
Reply(verdict, codes) == [json |-> TRUE, shaped |-> TRUE, verdict |-> verdict, codes |-> codes]

MCReplies ==
  {Reply("SUPPORTED", <<>>), Reply("CONTRADICTED", <<"PRICE_MISMATCH">>),
   Reply("INSUFFICIENT_EVIDENCE", <<>>), Reply("INSUFFICIENT_EVIDENCE", <<"AMBIGUOUS_LANGUAGE">>),
   Reply("INVALID_CLAIM", <<"UNSUPPORTED_INFERENCE", "TERMS_MISMATCH">>),
   Reply("SUPPORTED", <<"PRICE_MISMATCH">>), Reply("CONTRADICTED", <<>>),
   Reply("CONTRADICTED", <<"PRICE_MISMATCH", "AMBIGUOUS_LANGUAGE">>),
   Reply("INSUFFICIENT_EVIDENCE", <<"DATE_MISMATCH">>),
   Reply("INVALID_CLAIM", <<"TERMS_MISMATCH", "TERMS_MISMATCH">>),
   Reply("INVALID_CLAIM", <<"EXACT_MATCH">>), Reply("TRUE", <<>>),
   [Reply("SUPPORTED", <<>>) EXCEPT !.shaped = FALSE],
   [Reply("none", <<>>) EXCEPT !.json = FALSE, !.shaped = FALSE]}

=============================================================================
