----------------------------- MODULE RuleLibrary -----------------------------
(***************************************************************************)
(* Evidence projection and the eleven deterministic rules, as operators.   *)
(*                                                                         *)
(* A claim is what normalization makes of a sentence:                      *)
(*   type, attribute, operator, qualifier                                  *)
(*   kind       what the claimed value is: "number", "flag", "word", "none"*)
(*   number     the number, in the column's smallest unit                  *)
(*   word       the word, or "yes" / "no" for a flag, or the feature       *)
(*   unit       a currency code or another unit, "none" if there is none   *)
(*   starts, ends   the dates the claim states: sets of at most one date   *)
(*   present    the claim is in the present tense                          *)
(*   inferred   the year of its dates was not stated                       *)
(*   regional   a region is named beside the claim's own value             *)
(*   negated    a negation cue was found                                   *)
(*   slogan     noted as a non-verifiable commercial proposition           *)
(*   conf       parse confidence in percent                                *)
(* A record maps every attribute to the set of its values: {} is an unset  *)
(* column (get_attribute treats an empty tuple as unset too), a singleton  *)
(* a scalar column.                                                        *)
(***************************************************************************)
EXTENDS Calendar

CONSTANT EUMembers

MoneyAttributes == {"price", "subscription_price", "shipping_cost", "minimum_purchase"}
NumericAttributes == MoneyAttributes \cup {"discount_percent", "trial_days"}
Attributes ==
  NumericAttributes \cup
  {"currency", "free_shipping", "inventory_status", "billing_period", "offer_start",
   "offer_end", "eligible_regions", "included_features", "excluded_features", "terms"}
Currencies == {"USD", "EUR"}

Only(s) == CHOOSE x \in s : TRUE

IsParsed(claim) == claim.type # "UNKNOWN" /\ claim.attribute # "unknown"

-----------------------------------------------------------------------------
(* Evidence: the columns of the record that are relevant to the claim.      *)
Projection(type) ==
  CASE type = "PRICE" -> {"price", "currency", "discount_percent"}
    [] type = "DISCOUNT" -> {"discount_percent", "offer_start", "offer_end", "price"}
    [] type = "SHIPPING" -> {"free_shipping", "shipping_cost", "minimum_purchase"}
    [] type = "AVAILABILITY" -> {"inventory_status"}
    [] type \in {"FEATURE_INCLUSION", "FEATURE_EXCLUSION"} ->
         {"included_features", "excluded_features"}
    [] type = "SUBSCRIPTION_TERMS" ->
         {"subscription_price", "billing_period", "currency", "trial_days"}
    [] type = "TRIAL_DURATION" -> {"trial_days"}
    [] type = "PROMOTION_DATES" -> {"offer_start", "offer_end", "discount_percent"}
    [] type = "GEO_ELIGIBILITY" -> {"eligible_regions"}
    [] type = "MINIMUM_PURCHASE" -> {"minimum_purchase", "price"}
    [] OTHER -> {}

(* Mutant: the window is no longer carried for a claim that states dates.   *)
Scope_NoWindow(claim, effective) ==
  (({effective} \cup Projection(claim.type)) \cap Attributes)
    \cup (IF claim.regional THEN {"eligible_regions"} ELSE {})

Scope(claim, effective) ==
  (({effective} \cup Projection(claim.type)) \cap Attributes)
    \cup (IF claim.regional THEN {"eligible_regions"} ELSE {})
    \cup (IF claim.starts \cup claim.ends # {} THEN {"offer_start", "offer_end"} ELSE {})

Fallback(attribute) ==
  CASE attribute = "price" -> "subscription_price"
    [] attribute = "subscription_price" -> "price"
    [] OTHER -> attribute

EffectiveAttribute(claim, record) ==
  IF claim.attribute = "unknown" \/ record[claim.attribute] # {}
  THEN claim.attribute
  ELSE IF record[Fallback(claim.attribute)] # {}
  THEN Fallback(claim.attribute)
  ELSE claim.attribute

(* retrieve for a resolved record; cfg says whether the projection is       *)
(* claim_scoped and whether the terms text is included.                     *)
Evidence(claim, record, offer, cfg) ==
  LET effective == EffectiveAttribute(claim, record)
      scope == IF cfg.scoped
               THEN Scope(claim, effective)
                      \cup (IF claim.type # "UNKNOWN" THEN {"terms"} ELSE {})
               ELSE Attributes
      shown == IF cfg.terms THEN scope ELSE scope \ {"terms"}
      fields == [a \in Attributes |-> IF a \in shown THEN record[a] ELSE {}]
  IN  [found |-> TRUE, offer |-> offer, attribute |-> effective, fields |-> fields,
       absent |-> effective # "unknown" /\ fields[effective] = {}]

NoEvidence(claim) ==
  [found |-> FALSE, offer |-> FALSE, attribute |-> claim.attribute,
   fields |-> [a \in Attributes |-> {}], absent |-> FALSE]

Has(evidence, a) == a \in Attributes /\ evidence.fields[a] # {}

IsEmpty(evidence) ==
  \/ ~evidence.found
  \/ ~evidence.absent /\ \A a \in Attributes : evidence.fields[a] = {}

(* Mutant: any projected field will do.                                     *)
Capable_AnyField(claim, evidence) == ~IsEmpty(evidence)

(* Can any projected field establish the claim?                             *)
Capable(claim, evidence) ==
  /\ ~IsEmpty(evidence)
  /\ \/ claim.attribute # "unknown" /\ Has(evidence, evidence.attribute)
     \/ claim.type \in {"FEATURE_INCLUSION", "FEATURE_EXCLUSION"}
          /\ Has(evidence, claim.attribute)

-----------------------------------------------------------------------------
(* Numbers are compared in hundredths of the column's smallest unit, so     *)
(* that relative tolerances, which are percentages, stay integers.          *)
Larger(a, b) == IF a >= b THEN a ELSE b

Tolerance(attribute, reference, qualifier, cfg) ==
  LET base == CASE attribute = "trial_days" -> 100 * cfg.trialTolerance
                [] attribute = "discount_percent" -> 100 * cfg.percentTolerance
                [] OTHER -> 100 * cfg.priceAbsolute + cfg.priceRelative * reference
  IN  IF qualifier = "APPROXIMATELY"
      THEN Larger(base, cfg.approximate * reference)
      ELSE base

(* Mutant: "at most" and "at least" compare in the claim's direction.       *)
Matches_Swapped(claimed, reference, operator, tolerance) ==
  CASE operator = "AT_MOST" -> 100 * claimed <= 100 * reference + tolerance
    [] operator = "AT_LEAST" -> 100 * claimed >= 100 * reference - tolerance
    [] OTHER -> 100 * claimed = 100 * reference

(* reference <operator> claimed, within the tolerance.                      *)
Matches(claimed, reference, operator, tolerance) ==
  LET difference == 100 * reference - 100 * claimed
      near == -tolerance <= difference /\ difference <= tolerance
  IN  CASE operator = "NOT_EQUALS" -> ~near
        [] operator = "AT_MOST" -> difference <= tolerance
        [] operator = "AT_LEAST" -> difference >= -tolerance
        [] operator = "GREATER_THAN" -> difference > tolerance
        [] operator = "LESS_THAN" -> difference < -tolerance
        [] OTHER -> near

DatesAgree(claimed, reference, grace, inferred) ==
  LET anchored == [year |-> reference.year, day |-> claimed.day]
  IN  IF ~inferred
      THEN Ordinal(reference) - Ordinal(claimed) \in -grace..grace
      ELSE IF DateExists(anchored)
      THEN Ordinal(reference) - Ordinal(anchored) \in -grace..grace
      ELSE claimed.day = reference.day

-----------------------------------------------------------------------------
(* Outcomes of a rule.                                                      *)
Exact == 99
Within == 97
Inferred == 95

Fired(rule, verdict, codes, conf) ==
  [rule |-> rule, verdict |-> verdict, codes |-> codes, conf |-> conf]

Supported(rule, code, conf) == Fired(rule, "SUPPORTED", {code}, conf)
Contradicted(rule, codes, conf) == Fired(rule, "CONTRADICTED", codes, conf)
Insufficient(rule, codes, conf) == Fired(rule, "INSUFFICIENT_EVIDENCE", codes, conf)
Abstain(rule) == Fired(rule, "none", {}, 0)

GateRules == {"entity_resolution", "field_presence"}

DefaultRules ==
  <<"entity_resolution", "field_presence", "currency_match", "numeric_comparison",
    "free_shipping", "availability", "feature_membership", "region_eligibility",
    "billing_period", "promotion_window", "active_offer_window">>

Expired(claim) == claim.type = "PROMOTION_DATES" /\ claim.operator = "LESS_THAN"

HasWindow(evidence) == Has(evidence, "offer_start") \/ Has(evidence, "offer_end")

(* Does the rule look at the claim at all?                                  *)
Applies(rule, claim, evidence) ==
  CASE rule = "entity_resolution" -> TRUE
    [] rule = "field_presence" ->
         ~IsEmpty(evidence) /\ IsParsed(claim) /\ evidence.attribute # "unknown"
    [] rule = "currency_match" ->
         /\ evidence.attribute \in MoneyAttributes
         /\ claim.unit \in Currencies
         /\ Has(evidence, "currency")
    [] rule = "numeric_comparison" ->
         /\ evidence.attribute \in NumericAttributes
         /\ Has(evidence, evidence.attribute)
         /\ claim.kind = "number"
    [] rule = "free_shipping" ->
         evidence.attribute = "free_shipping" /\ claim.kind = "flag"
    [] rule = "availability" ->
         /\ evidence.attribute = "inventory_status"
         /\ Has(evidence, "inventory_status")
         /\ claim.kind = "word"
    [] rule = "feature_membership" ->
         claim.type \in {"FEATURE_INCLUSION", "FEATURE_EXCLUSION"} /\ claim.kind = "word"
    [] rule = "region_eligibility" ->
         /\ claim.type = "GEO_ELIGIBILITY"
         /\ claim.kind = "word"
         /\ Has(evidence, "eligible_regions")
    [] rule = "billing_period" ->
         /\ evidence.attribute = "billing_period"
         /\ Has(evidence, "billing_period")
         /\ claim.kind = "word"
    [] rule = "promotion_window" ->
         HasWindow(evidence) /\ (claim.starts \cup claim.ends # {} \/ Expired(claim))
    [] rule = "active_offer_window" ->
         /\ claim.starts \cup claim.ends = {}
         /\ claim.present
         /\ HasWindow(evidence)
         /\ \/ claim.type = "DISCOUNT"
            \/ claim.type \in {"SHIPPING", "MINIMUM_PURCHASE", "GEO_ELIGIBILITY"}
                 /\ evidence.offer

-----------------------------------------------------------------------------
(* What each rule concludes, for a claim it applies to.                     *)

(* Of the columns numeric_comparison owns.                                  *)
MismatchCode(attribute) ==
  CASE attribute = "price" -> "PRICE_MISMATCH"
    [] attribute = "subscription_price" -> "SUBSCRIPTION_PRICE_MISMATCH"
    [] attribute = "discount_percent" -> "DISCOUNT_MISMATCH"
    [] attribute = "shipping_cost" -> "SHIPPING_MISMATCH"
    [] attribute = "minimum_purchase" -> "MINIMUM_PURCHASE_MISMATCH"
    [] attribute = "trial_days" -> "TRIAL_DURATION_MISMATCH"

EntityResolution(claim, evidence) ==
  IF IsEmpty(evidence)
  THEN Insufficient("entity_resolution", {"REFERENCE_NOT_FOUND"}, Exact)
  ELSE Abstain("entity_resolution")

(* A shipping cost makes free shipping derivable.                           *)
FieldPresence(claim, evidence) ==
  IF \/ Has(evidence, evidence.attribute)
     \/ evidence.attribute = "free_shipping" /\ Has(evidence, "shipping_cost")
  THEN Abstain("field_presence")
  ELSE Insufficient("field_presence", {"FIELD_NOT_IN_REFERENCE", "INSUFFICIENT_EVIDENCE"}, Exact)

CurrencyMatch(claim, evidence) ==
  IF claim.unit \in evidence.fields["currency"]
  THEN Abstain("currency_match")
  ELSE Contradicted("currency_match", {"CURRENCY_MISMATCH"}, Exact)

NumericComparison(claim, evidence, cfg) ==
  LET reference == Only(evidence.fields[evidence.attribute])
      tolerance == Tolerance(evidence.attribute, reference, claim.qualifier, cfg)
  IN  IF ~Matches(claim.number, reference, claim.operator, tolerance)
      THEN Contradicted("numeric_comparison", {MismatchCode(evidence.attribute)}, Exact)
      ELSE IF claim.qualifier # "NONE"
      THEN Supported("numeric_comparison", "QUALIFIER_SATISFIED", Within)
      ELSE IF reference = claim.number
      THEN Supported("numeric_comparison", "EXACT_MATCH", Exact)
      ELSE Supported("numeric_comparison", "WITHIN_TOLERANCE", Within)

FreeShipping(claim, evidence) ==
  LET stated == evidence.fields["free_shipping"]
      cost == evidence.fields["shipping_cost"]
      free == IF stated # {} THEN "yes" \in stated ELSE 0 \in cost
      conf == IF stated # {} THEN Exact ELSE Inferred
  IN  IF stated = {} /\ cost = {}
      THEN Abstain("free_shipping")
      ELSE IF free <=> claim.word = "yes"
      THEN Supported("free_shipping", "EXACT_MATCH", conf)
      ELSE Contradicted("free_shipping", {"SHIPPING_MISMATCH"}, conf)

(* "In stock" is satisfied by limited stock too, but not the reverse.       *)
Availability(claim, evidence) ==
  LET reference == evidence.fields["inventory_status"]
      asserted == IF claim.word = "in_stock" THEN {"in_stock", "limited_stock"} ELSE {claim.word}
      matched == reference \subseteq asserted
  IN  IF matched <=> claim.operator # "NOT_EQUALS"
      THEN Supported("availability", "EXACT_MATCH", Exact)
      ELSE Contradicted("availability", {"AVAILABILITY_MISMATCH"}, Exact)

(* Mutant: a feature on neither list is taken to be missing.                *)
FeatureMembership_ClosedWorld(claim, evidence) ==
  LET included == claim.word \in evidence.fields["included_features"]
  IN  IF included <=> claim.operator # "EXCLUDES"
      THEN Supported("feature_membership", "FEATURE_PRESENT", Exact)
      ELSE Contradicted("feature_membership", {"FEATURE_MISMATCH"}, Exact)

(* Three outcomes: a feature on neither list is unknown, not absent.        *)
FeatureMembership(claim, evidence) ==
  LET included == evidence.fields["included_features"]
      excluded == evidence.fields["excluded_features"]
      claimsInclusion == claim.operator # "EXCLUDES"
  IN  IF included \cup excluded = {}
      THEN Insufficient("feature_membership",
                        {"FIELD_NOT_IN_REFERENCE", "INSUFFICIENT_EVIDENCE"}, Exact)
      ELSE IF claim.word \notin included \cup excluded
      THEN Insufficient("feature_membership", {"INSUFFICIENT_EVIDENCE"}, Within)
      ELSE IF claim.word \in included <=> claimsInclusion
      THEN Supported("feature_membership",
                     IF claimsInclusion THEN "FEATURE_PRESENT" ELSE "FEATURE_ABSENT", Exact)
      ELSE Contradicted("feature_membership", {"FEATURE_MISMATCH"}, Exact)

(* An allow-list: a region that is not listed is not eligible.              *)
RegionEligibility(claim, evidence) ==
  LET regions == evidence.fields["eligible_regions"]
      eligible == claim.word \in regions \/ (claim.word \in EUMembers /\ "EU" \in regions)
  IN  IF eligible <=> claim.operator # "EXCLUDES"
      THEN Supported("region_eligibility", "EXACT_MATCH", Exact)
      ELSE Contradicted("region_eligibility", {"REGION_MISMATCH"}, Exact)

BillingPeriod(claim, evidence) ==
  IF claim.word \in evidence.fields["billing_period"]
  THEN Supported("billing_period", "EXACT_MATCH", Exact)
  ELSE Contradicted("billing_period", {"TERMS_MISMATCH"}, Exact)

(* "Has expired" is compared with the day of evaluation; otherwise the      *)
(* first of end and start that both sides state decides alone.              *)
PromotionWindow(claim, evidence, cfg, asOf) ==
  LET start == evidence.fields["offer_start"]
      end == evidence.fields["offer_end"]
      Verdict(agree) ==
        IF agree THEN Supported("promotion_window", "EXACT_MATCH", Exact)
        ELSE Contradicted("promotion_window", {"DATE_MISMATCH"}, Exact)
      Agree(claimed, reference) ==
        DatesAgree(Only(claimed), Only(reference), cfg.grace, claim.inferred)
  IN  IF Expired(claim) /\ end # {}
      THEN IF Ordinal(Only(end)) < Ordinal(asOf)
           THEN Supported("promotion_window", "OFFER_EXPIRED", Exact)
           ELSE Contradicted("promotion_window", {"DATE_MISMATCH"}, Exact)
      ELSE IF claim.ends # {} /\ end # {}
      THEN Verdict(Agree(claim.ends, end))
      ELSE IF claim.starts # {} /\ start # {}
      THEN Verdict(Agree(claim.starts, start))
      ELSE Abstain("promotion_window")

(* Only ever contradicts: an open window proves nothing about the claim.    *)
ActiveOfferWindow(claim, evidence, cfg, asOf) ==
  LET start == evidence.fields["offer_start"]
      end == evidence.fields["offer_end"]
  IN  IF \E d \in end : Ordinal(d) < Ordinal(asOf) - cfg.grace
      THEN Contradicted("active_offer_window", {"OFFER_EXPIRED", "DATE_MISMATCH"}, Exact)
      ELSE IF \E d \in start : Ordinal(d) > Ordinal(asOf) + cfg.grace
      THEN Contradicted("active_offer_window", {"OFFER_NOT_STARTED", "DATE_MISMATCH"}, Exact)
      ELSE Abstain("active_offer_window")

Evaluate(rule, claim, evidence, cfg, asOf) ==
  CASE rule = "entity_resolution" -> EntityResolution(claim, evidence)
    [] rule = "field_presence" -> FieldPresence(claim, evidence)
    [] rule = "currency_match" -> CurrencyMatch(claim, evidence)
    [] rule = "numeric_comparison" -> NumericComparison(claim, evidence, cfg)
    [] rule = "free_shipping" -> FreeShipping(claim, evidence)
    [] rule = "availability" -> Availability(claim, evidence)
    [] rule = "feature_membership" -> FeatureMembership(claim, evidence)
    [] rule = "region_eligibility" -> RegionEligibility(claim, evidence)
    [] rule = "billing_period" -> BillingPeriod(claim, evidence)
    [] rule = "promotion_window" -> PromotionWindow(claim, evidence, cfg, asOf)
    [] rule = "active_offer_window" -> ActiveOfferWindow(claim, evidence, cfg, asOf)

=============================================================================
