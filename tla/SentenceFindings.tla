--------------------------- MODULE SentenceFindings ---------------------------
(***************************************************************************)
(* What the detectors of the normalizer may find in a sentence.  Of the    *)
(* text only the findings are kept:                                        *)
(*   cues       the groups of phrases that occur in it                     *)
(*   money, percent, days, phrase, region, period, feature                 *)
(*              what was found, as sets of at most one element: each       *)
(*              detector returns its first or best match or nothing        *)
(*   dates      the dates it mentions (see DateReading)                    *)
(*   negations  the number of distinct negation cues                       *)
(*   qualifier  the hedge that governs the value, "NONE" if there is none  *)
(*   asked      the request itself names a region                          *)
(*   legible    the text passes the length and content checks              *)
(* The cues of one sentence overlap (a trial that is "free for" a month    *)
(* and "per month"), which is why the order of the matchers matters.       *)
(***************************************************************************)
EXTENDS DateReading

(* At most one of the values.                                               *)
OneOf(found, values) == found \subseteq values /\ \A x, y \in found : x = y

(* The vocabularies the matchers ask for.                                   *)
Cues == {"trial", "free_for", "shipping", "no_charge", "free", "paid", "discount", "minimum",
         "no_minimum", "subscription", "plan", "date", "expired", "includes", "excludes",
         "region", "available", "now", "slogan"}

(* An amount without a unit is money of no currency, which is not USD.      *)
Amounts == [amount : Nat, currency : {"USD", "CAD", "AUD", "GBP", "EUR", "JPY", "CHF", "NZD",
                                      "none"}]

(* A percentage above 100 or below 0 is no finding; 0 is one.               *)
Percents == 0..100

(* Weeks, months and years are turned into days.                            *)
Durations == Nat

Statuses == {"in_stock", "limited_stock", "out_of_stock", "preorder", "discontinued"}
Periods == {"monthly", "annual", "quarterly", "one_time"}
RegionCodes == {"US", "CA", "GB", "DE", "FR", "MX", "BR", "AU", "NZ", "EU", "JP"}

(* A feature is matched by its name, a synonym, its letters, or its words   *)
(* in any order (several, or a single one).                                 *)
FeatureScores == {100, 95, 90, 80, 75}
FeatureMatches == [key : STRING, match : FeatureScores]

Qualifiers == {"NONE", "UP_TO", "STARTING_AT", "AT_MOST", "AT_LEAST", "APPROXIMATELY",
               "UNLIMITED"}

Mentions == [form : {Forms[i] : i \in DOMAIN Forms}, day : Nat, year : SUBSET Nat,
             role : {"start", "end"}]

(* Phrases of two vocabularies at once: a word that excludes is a negation  *)
(* cue as well, and one that says an offer is over is a cue for dates.      *)
CuesAgree(s) ==
  /\ "excludes" \in s.cues => s.negations > 0
  /\ "expired" \in s.cues => "date" \in s.cues

WellFormed(s) ==
  /\ s.cues \subseteq Cues
  /\ OneOf(s.money, Amounts) /\ OneOf(s.percent, Percents)
  /\ OneOf(s.days, Durations) /\ OneOf(s.phrase, Statuses)
  /\ OneOf(s.region, RegionCodes) /\ OneOf(s.period, Periods)
  /\ OneOf(s.feature, FeatureMatches)
  /\ s.dates \in Seq(Mentions)
  /\ \A i \in DOMAIN s.dates : OneOf(s.dates[i].year, Nat)
  /\ s.negations \in Nat /\ s.qualifier \in Qualifiers
  /\ s.asked \in BOOLEAN /\ s.legible \in BOOLEAN
  /\ CuesAgree(s)
=============================================================================
