---------------------------- MODULE ClaimMeaning ----------------------------
(***************************************************************************)
(* What a sentence asserts and whether a catalog record bears it out, as a *)
(* careful reader with the whole record would judge it.  This is the       *)
(* reference the pipeline is checked against: it names no rule, operator,  *)
(* projection or confidence, and follows the policies the rule library and *)
(* the configuration state in their documentation (absent is not false; a  *)
(* tolerance must be exceeded for a mismatch; a year that was not stated   *)
(* is not compared).                                                       *)
(*                                                                         *)
(* A judgement is "true", "false" or "open": the record does not say.      *)
(***************************************************************************)
EXTENDS RuleLibrary, Sequences

Judge(holds) == IF holds THEN "true" ELSE "false"

Denied(s) == s.negations % 2 = 1

(* A compound sentence: one false part is enough; otherwise what the record *)
(* is silent about does not count.                                          *)
Together(parts) ==
  IF "false" \in parts THEN "false" ELSE IF "true" \in parts THEN "true" ELSE "open"

-----------------------------------------------------------------------------
(* Numbers.                                                                 *)
Slack(column, reference, hedge, cfg) ==
  LET noise == CASE column = "trial_days" -> 100 * cfg.trialTolerance
                 [] column = "discount_percent" -> 100 * cfg.percentTolerance
                 [] OTHER -> Larger(100 * cfg.priceAbsolute, cfg.priceRelative * reference)
  IN  IF hedge = "APPROXIMATELY" THEN Larger(noise, cfg.approximate * reference) ELSE noise

(* Some value that the record cannot be told apart from is as stated.       *)
AsStated(said, reference, hedge, slack) ==
  \E r \in 100 * reference - slack .. 100 * reference + slack :
    CASE hedge \in {"UP_TO", "AT_MOST"} -> r <= 100 * said
      [] hedge \in {"STARTING_AT", "AT_LEAST"} -> r >= 100 * said
      [] OTHER -> r = 100 * said

Amount(said, column, s, record, cfg) ==
  IF record[column] = {} THEN "open"
  ELSE LET reference == Only(record[column])
       IN  Judge(AsStated(said, reference, s.qualifier,
                          Slack(column, reference, s.qualifier, cfg)))

SameCurrency(m, record) ==
  IF m.currency \notin Currencies \/ record["currency"] = {} THEN "open"
  ELSE Judge(m.currency \in record["currency"])

Cost(m, column, s, record, cfg) ==
  IF record[column] = {} THEN "open"
  ELSE Together({Amount(m.amount, column, s, record, cfg), SameCurrency(m, record)})

(* A plan's price is in one of two columns, and so is a product's.          *)
PriceColumn(first, record) ==
  IF record[first] = {} /\ record[Fallback(first)] # {} THEN Fallback(first) ELSE first

-----------------------------------------------------------------------------
(* Dates.                                                                   *)
DaysApart(d, e) ==
  IF Ordinal(d) >= Ordinal(e) THEN Ordinal(d) - Ordinal(e) ELSE Ordinal(e) - Ordinal(d)

(* Without a stated year, some year in which the day exists will do; a day  *)
(* that exists in no year nearby is compared by its name.                   *)
SameDate(mention, reference, cfg) ==
  \/ mention.year = {} /\ mention.day = reference.day
  \/ \E y \in IF mention.year # {} THEN mention.year
             ELSE {reference.year - 1, reference.year, reference.year + 1} :
       LET said == [year |-> y, day |-> mention.day]
       IN  DateExists(said) /\ DaysApart(said, reference) <= cfg.grace

OneDate(mention, record, cfg) ==
  LET column == IF mention.role = "end" THEN "offer_end" ELSE "offer_start"
  IN  IF record[column] = {} THEN "open"
      ELSE Judge(SameDate(mention, Only(record[column]), cfg))

StatedWindow(s, record, cfg) ==
  Together({OneDate(s.dates[i], record, cfg) : i \in DOMAIN s.dates})

Closed(record, cfg, today) ==
  \/ \E d \in record["offer_end"] : Ordinal(d) + cfg.grace < Ordinal(today)
  \/ \E d \in record["offer_start"] : Ordinal(d) - cfg.grace > Ordinal(today)

SpeaksOfToday(s) == s.dates = <<>> /\ ("now" \in s.cues \/ "date" \notin s.cues)

-----------------------------------------------------------------------------
ShippingIsFree(record) ==
  IF record["free_shipping"] # {} THEN Judge("yes" \in record["free_shipping"])
  ELSE IF record["shipping_cost"] # {} THEN Judge(0 \in record["shipping_cost"])
  ELSE "open"

Opposite(j) == IF j = "true" THEN "false" ELSE IF j = "false" THEN "true" ELSE "open"

FeatureIsIncluded(f, record) ==
  IF f \in record["included_features"] THEN "true"
  ELSE IF f \in record["excluded_features"] THEN "false"
  ELSE "open"

Sold(region, record) ==
  IF record["eligible_regions"] = {} THEN "open"
  ELSE Judge(\/ region \in record["eligible_regions"]
             \/ region \in EUMembers /\ "EU" \in record["eligible_regions"])

Stocked(status, record) ==
  IF record["inventory_status"] = {} THEN "open"
  ELSE Judge(\/ status \in record["inventory_status"]
             \/ status = "in_stock" /\ "limited_stock" \in record["inventory_status"])

(* What the record says of the value a sentence about the topic states.     *)
Value(topic, s, record, cfg, today) ==
  LET Polar(j) == IF Denied(s) THEN Opposite(j) ELSE j
      said == Only(s.money)
  IN  CASE topic = "price" -> Polar(Cost(said, PriceColumn("price", record), s, record, cfg))
        [] topic = "plan_price" ->
             Polar(Cost(said, PriceColumn("subscription_price", record), s, record, cfg))
        [] topic = "shipping_cost" -> Polar(Cost(said, "shipping_cost", s, record, cfg))
        [] topic = "minimum" -> Polar(Cost(said, "minimum_purchase", s, record, cfg))
        [] topic = "no_minimum" -> Amount(0, "minimum_purchase", s, record, cfg)
        [] topic = "trial" -> Polar(Amount(Only(s.days), "trial_days", s, record, cfg))
        [] topic = "some_trial" ->
             IF record["trial_days"] = {} THEN "open" ELSE Polar(Judge(0 \notin record["trial_days"]))
        [] topic = "free_shipping" -> Polar(ShippingIsFree(record))
        [] topic = "no_charge" -> ShippingIsFree(record)
        [] topic = "paid_shipping" -> Opposite(ShippingIsFree(record))
        [] topic = "billing" ->
             IF record["billing_period"] = {} THEN "open"
             ELSE Polar(Judge(s.period \subseteq record["billing_period"]))
        [] topic = "availability" ->
             Polar(Stocked(IF s.phrase = {} THEN "in_stock" ELSE Only(s.phrase), record))
        [] topic = "region" -> Polar(Sold(Only(s.region), record))
        [] topic = "feature" -> Polar(FeatureIsIncluded(Only(s.feature).key, record))
        [] topic = "dates" -> Polar(StatedWindow(s, record, cfg))
        [] topic = "expired" ->
             IF record["offer_end"] = {} THEN "open"
             ELSE Judge(Ordinal(Only(record["offer_end"])) < Ordinal(today))
        [] topic = "discount" -> Polar(Amount(Only(s.percent), "discount_percent", s, record, cfg))
        [] OTHER -> "open"

(* What an offer gives, if it gives it, it gives while it runs.  That there *)
(* is no charge or no minimum denies nothing the offer gives.               *)
Promised(topic, s, offer) ==
  /\ Denied(s) => topic \in {"no_charge", "no_minimum"}
  /\ \/ topic = "discount"
     \/ offer /\ topic \in {"free_shipping", "no_charge", "shipping_cost", "minimum",
                            "no_minimum", "region"}

(* The dates beside the value, or today, lie outside the window.            *)
OutOfTime(topic, s, entry, cfg, today) ==
  \/ StatedWindow(s, entry.values, cfg) = "false"
  \/ Promised(topic, s, entry.offer) /\ SpeaksOfToday(s) /\ Closed(entry.values, cfg, today)

(* What the entry of the catalog says of the sentence: the window can make  *)
(* it false, but does not make it true.                                     *)
Judgement(topic, s, entry, cfg, today) ==
  IF topic \notin {"none", "dates", "expired"} /\ OutOfTime(topic, s, entry, cfg, today)
  THEN "false"
  ELSE Value(topic, s, entry.values, cfg, today)

=============================================================================
