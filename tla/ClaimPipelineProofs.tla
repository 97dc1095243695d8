-------------------------- MODULE ClaimPipelineProofs --------------------------
(***************************************************************************)
(* Theorems about the deterministic layer for every sentence, record,      *)
(* profile, extraction and reply, and about the replies of the rater.      *)
(*                                                                         *)
(* What the engine reports does not depend on the order of its rules for   *)
(* two reasons: the two gates exclude each other, so whichever is reached  *)
(* first is the only one that can end the evaluation, and what is          *)
(* reconciled is the set of the outcomes, which at each moment is what the *)
(* rules tried so far conclude (RulingSound).                              *)
(***************************************************************************)
EXTENDS ClaimPipeline, SequenceTheorems, TLAPS

RuleNames == {DefaultRules[i] : i \in DOMAIN DefaultRules}

(* Do the reasons fit the verdict?  See AnswersExplained.                   *)
Fits(verdict, codes, c) ==
  /\ verdict = "CONTRADICTED" => codes \cap Against # {} /\ codes \cap LeavingOpen = {}
  /\ verdict = "SUPPORTED" =>
       /\ codes \cap LeavingOpen = {}
       /\ codes \cap Against \subseteq (IF Expired(c) THEN {"OFFER_EXPIRED"} ELSE {})
  /\ verdict = "INSUFFICIENT_EVIDENCE" => codes \cap Against = {}

Confidences == {0, Inferred, Within, Exact}

OutcomeSound(o, c) ==
  /\ o.verdict \in Definite \cup {"INSUFFICIENT_EVIDENCE", "none"}
  /\ o.conf \in Confidences
  /\ Fits(o.verdict, o.codes, c)
  /\ o.verdict = "INSUFFICIENT_EVIDENCE" => o.codes \cap LeavingOpen # {}

-----------------------------------------------------------------------------
(* The rules.                                                               *)
LEMMA KnownRules ==
  RuleNames =
    {"entity_resolution", "field_presence", "currency_match", "numeric_comparison",
     "free_shipping", "availability", "feature_membership", "region_eligibility",
     "billing_period", "promotion_window", "active_offer_window"}
<1>1. DOMAIN DefaultRules = 1..11 BY DEF DefaultRules
<1>2. \A i \in 1..11 : i = 1 \/ i = 2 \/ i = 3 \/ i = 4 \/ i = 5 \/ i = 6 \/ i = 7 \/ i = 8
                        \/ i = 9 \/ i = 10 \/ i = 11
  OBVIOUS
<1> QED BY <1>1, <1>2 DEF RuleNames, DefaultRules

(* The four shapes of an outcome.                                           *)
LEMMA AbstainSound ==
  ASSUME NEW rule, NEW c
  PROVE  Abstain(rule).rule = rule /\ OutcomeSound(Abstain(rule), c)
BY DEF Abstain, Fired, OutcomeSound, Fits, Definite, Confidences

LEMMA ContradictedSound ==
  ASSUME NEW rule, NEW c, NEW codes, NEW conf \in Confidences,
         codes \subseteq Against \ LeavingOpen, codes # {}
  PROVE  /\ Contradicted(rule, codes, conf).rule = rule
         /\ OutcomeSound(Contradicted(rule, codes, conf), c)
<1> DEFINE o == Contradicted(rule, codes, conf)
<1>1. o.rule = rule /\ o.verdict = "CONTRADICTED" /\ o.codes = codes /\ o.conf = conf
  BY DEF Contradicted, Fired
<1> HIDE DEF o
<1>2. codes \cap Against # {} /\ codes \cap LeavingOpen = {} OBVIOUS
<1>3. OutcomeSound(o, c) BY <1>1, <1>2 DEF OutcomeSound, Fits, Definite
<1> QED BY <1>1, <1>3 DEF o

LEMMA InsufficientSound ==
  ASSUME NEW rule, NEW c, NEW codes, NEW conf \in Confidences,
         codes \subseteq LeavingOpen \ Against, codes # {}
  PROVE  /\ Insufficient(rule, codes, conf).rule = rule
         /\ OutcomeSound(Insufficient(rule, codes, conf), c)
<1> DEFINE o == Insufficient(rule, codes, conf)
<1>1. o.rule = rule /\ o.verdict = "INSUFFICIENT_EVIDENCE" /\ o.codes = codes /\ o.conf = conf
  BY DEF Insufficient, Fired
<1> HIDE DEF o
<1>2. codes \cap LeavingOpen # {} /\ codes \cap Against = {} OBVIOUS
<1>3. OutcomeSound(o, c) BY <1>1, <1>2 DEF OutcomeSound, Fits, Definite
<1> QED BY <1>1, <1>3 DEF o

LEMMA SupportedSound ==
  ASSUME NEW rule, NEW c, NEW code, NEW conf \in Confidences, code \notin LeavingOpen,
         code \notin Against \/ (Expired(c) /\ code = "OFFER_EXPIRED")
  PROVE  /\ Supported(rule, code, conf).rule = rule
         /\ OutcomeSound(Supported(rule, code, conf), c)
<1> DEFINE o == Supported(rule, code, conf)
<1>1. o.rule = rule /\ o.verdict = "SUPPORTED" /\ o.codes = {code} /\ o.conf = conf
  BY DEF Supported, Fired
<1> HIDE DEF o
<1>2. OutcomeSound(o, c) BY <1>1 DEF OutcomeSound, Fits, Definite
<1> QED BY <1>1, <1>2 DEF o

(* What a code says of the claim.                                           *)
Refutes(code) == code \in Against \ LeavingOpen
LeavesOpen(code) == code \in LeavingOpen \ Against
Affirms(code, c) ==
  /\ code \notin LeavingOpen
  /\ code \notin Against \/ (Expired(c) /\ code = "OFFER_EXPIRED")
Allowed(conf) == conf \in Confidences

LEMMA Readings ==
  /\ Refutes("CURRENCY_MISMATCH") /\ Refutes("SHIPPING_MISMATCH")
  /\ Refutes("AVAILABILITY_MISMATCH") /\ Refutes("FEATURE_MISMATCH")
  /\ Refutes("REGION_MISMATCH") /\ Refutes("TERMS_MISMATCH") /\ Refutes("DATE_MISMATCH")
  /\ Refutes("OFFER_EXPIRED") /\ Refutes("OFFER_NOT_STARTED")
  /\ LeavesOpen("REFERENCE_NOT_FOUND") /\ LeavesOpen("FIELD_NOT_IN_REFERENCE")
  /\ LeavesOpen("INSUFFICIENT_EVIDENCE")
  /\ \A c :
       /\ Affirms("QUALIFIER_SATISFIED", c) /\ Affirms("EXACT_MATCH", c)
       /\ Affirms("WITHIN_TOLERANCE", c) /\ Affirms("FEATURE_PRESENT", c)
       /\ Affirms("FEATURE_ABSENT", c)
       /\ Expired(c) => Affirms("OFFER_EXPIRED", c)
  /\ \A attribute \in NumericAttributes : Refutes(MismatchCode(attribute))
  /\ Allowed(Exact) /\ Allowed(Within) /\ Allowed(Inferred)
BY DEF Against, LeavingOpen, MismatchCodes, AbstentionCodes, Confidences, MismatchCode,
       NumericAttributes, MoneyAttributes, Refutes, LeavesOpen, Affirms, Allowed

(* The outcomes that rules return.                                          *)
SoundOf(rule, o, c) == o.rule = rule /\ OutcomeSound(o, c)

LEMMA Shapes ==
  ASSUME NEW rule, NEW c
  PROVE  /\ SoundOf(rule, Abstain(rule), c)
         /\ \A code, other, conf : Refutes(code) /\ Refutes(other) /\ Allowed(conf) =>
              /\ SoundOf(rule, Contradicted(rule, {code}, conf), c)
              /\ SoundOf(rule, Contradicted(rule, {code, other}, conf), c)
         /\ \A code, other, conf : LeavesOpen(code) /\ LeavesOpen(other) /\ Allowed(conf) =>
              /\ SoundOf(rule, Insufficient(rule, {code}, conf), c)
              /\ SoundOf(rule, Insufficient(rule, {code, other}, conf), c)
         /\ \A code, conf : Affirms(code, c) /\ Allowed(conf) =>
              SoundOf(rule, Supported(rule, code, conf), c)
<1>1. SoundOf(rule, Abstain(rule), c) BY AbstainSound DEF SoundOf
<1>2. ASSUME NEW code, NEW other, NEW conf, Refutes(code), Refutes(other), Allowed(conf)
      PROVE  /\ SoundOf(rule, Contradicted(rule, {code}, conf), c)
             /\ SoundOf(rule, Contradicted(rule, {code, other}, conf), c)
  <2>1. \A codes \in {{code}, {code, other}} : codes \subseteq Against \ LeavingOpen /\ codes # {}
    BY <1>2 DEF Refutes
  <2> QED BY <1>2, <2>1, ContradictedSound DEF SoundOf, Allowed
<1>3. ASSUME NEW code, NEW other, NEW conf, LeavesOpen(code), LeavesOpen(other), Allowed(conf)
      PROVE  /\ SoundOf(rule, Insufficient(rule, {code}, conf), c)
             /\ SoundOf(rule, Insufficient(rule, {code, other}, conf), c)
  <2>1. \A codes \in {{code}, {code, other}} : codes \subseteq LeavingOpen \ Against /\ codes # {}
    BY <1>3 DEF LeavesOpen
  <2> QED BY <1>3, <2>1, InsufficientSound DEF SoundOf, Allowed
<1>4. ASSUME NEW code, NEW conf, Affirms(code, c), Allowed(conf)
      PROVE  SoundOf(rule, Supported(rule, code, conf), c)
  BY <1>4, SupportedSound DEF SoundOf, Affirms, Allowed
<1> QED BY <1>1, <1>2, <1>3, <1>4

(* A rule that applies names itself, and gives reasons that fit.            *)
LEMMA EvaluateSound ==
  ASSUME NEW rule \in RuleNames, NEW c, NEW e, NEW p, NEW day, Applies(rule, c, e)
  PROVE  /\ Evaluate(rule, c, e, p, day).rule = rule
         /\ OutcomeSound(Evaluate(rule, c, e, p, day), c)
<1> DEFINE o == Evaluate(rule, c, e, p, day)
<1> SUFFICES SoundOf(rule, o, c) BY DEF SoundOf
<1>1. CASE rule = "entity_resolution"
  <2>1. o = EntityResolution(c, e) BY <1>1 DEF Evaluate
  <2>2. \/ o = Abstain(rule)
        \/ o = Insufficient(rule, {"REFERENCE_NOT_FOUND"}, Exact)
    BY <1>1, <2>1 DEF EntityResolution
  <2> HIDE DEF o
  <2> QED BY <2>2, Shapes, Readings
<1>2. CASE rule = "field_presence"
  <2>1. o = FieldPresence(c, e) BY <1>2 DEF Evaluate
  <2>2. \/ o = Abstain(rule)
        \/ o = Insufficient(rule, {"FIELD_NOT_IN_REFERENCE", "INSUFFICIENT_EVIDENCE"}, Exact)
    BY <1>2, <2>1 DEF FieldPresence
  <2>3. SoundOf(rule, Insufficient(rule, {"FIELD_NOT_IN_REFERENCE", "INSUFFICIENT_EVIDENCE"}, Exact), c)
    BY Shapes, Readings
  <2> HIDE DEF o
  <2> QED BY <2>2, <2>3, Shapes, Readings
<1>3. CASE rule = "currency_match"
  <2>1. o = CurrencyMatch(c, e) BY <1>3 DEF Evaluate
  <2>2. \/ o = Abstain(rule)
        \/ o = Contradicted(rule, {"CURRENCY_MISMATCH"}, Exact)
    BY <1>3, <2>1 DEF CurrencyMatch
  <2> HIDE DEF o
  <2> QED BY <2>2, Shapes, Readings
<1>4. CASE rule = "numeric_comparison"
  <2>1. o = NumericComparison(c, e, p) BY <1>4 DEF Evaluate
  <2>2. \/ o = Contradicted(rule, {MismatchCode(e.attribute)}, Exact)
        \/ o = Supported(rule, "QUALIFIER_SATISFIED", Within)
        \/ o = Supported(rule, "EXACT_MATCH", Exact)
        \/ o = Supported(rule, "WITHIN_TOLERANCE", Within)
    BY <1>4, <2>1 DEF NumericComparison
  <2>3. e.attribute \in NumericAttributes BY <1>4 DEF Applies
  <2>4. Refutes(MismatchCode(e.attribute)) BY <2>3, Readings
  <2> HIDE DEF o
  <2> QED BY <2>2, <2>4, Shapes, Readings
<1>5. CASE rule = "free_shipping"
  <2>1. o = FreeShipping(c, e) BY <1>5 DEF Evaluate
  <2>2. \E conf \in {Exact, Inferred} :
          \/ o = Abstain(rule)
          \/ o = Supported(rule, "EXACT_MATCH", conf)
          \/ o = Contradicted(rule, {"SHIPPING_MISMATCH"}, conf)
    BY <1>5, <2>1 DEF FreeShipping
  <2> HIDE DEF o
  <2> QED BY <2>2, Shapes, Readings
<1>6. CASE rule = "availability"
  <2>1. o = Availability(c, e) BY <1>6 DEF Evaluate
  <2>2. \/ o = Supported(rule, "EXACT_MATCH", Exact)
        \/ o = Contradicted(rule, {"AVAILABILITY_MISMATCH"}, Exact)
    BY <1>6, <2>1 DEF Availability
  <2> HIDE DEF o
  <2> QED BY <2>2, Shapes, Readings
<1>7. CASE rule = "feature_membership"
  <2>1. o = FeatureMembership(c, e) BY <1>7 DEF Evaluate
  <2>2. \/ o = Insufficient(rule, {"FIELD_NOT_IN_REFERENCE", "INSUFFICIENT_EVIDENCE"}, Exact)
        \/ o = Insufficient(rule, {"INSUFFICIENT_EVIDENCE"}, Within)
        \/ o = Supported(rule, "FEATURE_PRESENT", Exact)
        \/ o = Supported(rule, "FEATURE_ABSENT", Exact)
        \/ o = Contradicted(rule, {"FEATURE_MISMATCH"}, Exact)
    BY <1>7, <2>1 DEF FeatureMembership
  <2>3. SoundOf(rule, Insufficient(rule, {"FIELD_NOT_IN_REFERENCE", "INSUFFICIENT_EVIDENCE"}, Exact), c)
    BY Shapes, Readings
  <2> HIDE DEF o
  <2> QED BY <2>2, <2>3, Shapes, Readings
<1>8. CASE rule = "region_eligibility"
  <2>1. o = RegionEligibility(c, e) BY <1>8 DEF Evaluate
  <2>2. \/ o = Supported(rule, "EXACT_MATCH", Exact)
        \/ o = Contradicted(rule, {"REGION_MISMATCH"}, Exact)
    BY <1>8, <2>1 DEF RegionEligibility
  <2> HIDE DEF o
  <2> QED BY <2>2, Shapes, Readings
<1>9. CASE rule = "billing_period"
  <2>1. o = BillingPeriod(c, e) BY <1>9 DEF Evaluate
  <2>2. \/ o = Supported(rule, "EXACT_MATCH", Exact)
        \/ o = Contradicted(rule, {"TERMS_MISMATCH"}, Exact)
    BY <1>9, <2>1 DEF BillingPeriod
  <2> HIDE DEF o
  <2> QED BY <2>2, Shapes, Readings
<1>10. CASE rule = "promotion_window"
  <2>1. o = PromotionWindow(c, e, p, day) BY <1>10 DEF Evaluate
  <2>2. \/ o = Abstain(rule)
        \/ Expired(c) /\ o = Supported(rule, "OFFER_EXPIRED", Exact)
        \/ o = Supported(rule, "EXACT_MATCH", Exact)
        \/ o = Contradicted(rule, {"DATE_MISMATCH"}, Exact)
    BY <1>10, <2>1 DEF PromotionWindow
  <2> HIDE DEF o
  <2> QED BY <2>2, Shapes, Readings
<1>11. CASE rule = "active_offer_window"
  <2>1. o = ActiveOfferWindow(c, e, p, day) BY <1>11 DEF Evaluate
  <2>2. \/ o = Abstain(rule)
        \/ o = Contradicted(rule, {"OFFER_EXPIRED", "DATE_MISMATCH"}, Exact)
        \/ o = Contradicted(rule, {"OFFER_NOT_STARTED", "DATE_MISMATCH"}, Exact)
    BY <1>11, <2>1 DEF ActiveOfferWindow
  <2>3. /\ SoundOf(rule, Contradicted(rule, {"OFFER_EXPIRED", "DATE_MISMATCH"}, Exact), c)
        /\ SoundOf(rule, Contradicted(rule, {"OFFER_NOT_STARTED", "DATE_MISMATCH"}, Exact), c)
    BY Shapes, Readings
  <2> HIDE DEF o
  <2> QED BY <2>2, <2>3, Shapes, Readings
<1> QED BY <1>1, <1>2, <1>3, <1>4, <1>5, <1>6, <1>7, <1>8, <1>9, <1>10, <1>11, KnownRules

(* At most one gate can end the evaluation: entity resolution when there is *)
(* nothing to compare with, field presence when there is.                   *)
LEMMA OneGateCloses ==
  ASSUME NEW r \in RuleNames, NEW s \in RuleNames, NEW c, NEW e, NEW p, NEW day,
         Applies(r, c, e), Applies(s, c, e),
         Closes(Evaluate(r, c, e, p, day)), Closes(Evaluate(s, c, e, p, day))
  PROVE  r = s
<1>1. r \in GateRules /\ s \in GateRules BY EvaluateSound DEF Closes
<1>2. \A x \in {r, s} : x = "entity_resolution" => IsEmpty(e)
  <2>1. ASSUME NEW x \in {r, s}, x = "entity_resolution", ~IsEmpty(e) PROVE FALSE
    <3>1. Evaluate(x, c, e, p, day) = Abstain("entity_resolution")
      BY <2>1 DEF Evaluate, EntityResolution
    <3> QED BY <2>1, <3>1 DEF Closes, Abstain, Fired
  <2> QED BY <2>1
<1>3. \A x \in {r, s} : x = "field_presence" => ~IsEmpty(e) BY DEF Applies
<1> QED BY <1>1, <1>2, <1>3 DEF GateRules

-----------------------------------------------------------------------------
(* Aggregation.                                                             *)
ResultSound(r, c) ==
  /\ r.verdict \in Verdicts \cup {NoVerdict}
  /\ r.conf \in 0..100
  /\ Fits(r.verdict, r.codes, c)
  /\ r.verdict = "INSUFFICIENT_EVIDENCE" => r.codes \cap LeavingOpen # {}

(* Outcomes have one of four confidences, so there is a highest one.        *)
LEMMA Extremes ==
  ASSUME NEW tried, tried # {}, \A o \in tried : o.conf \in Confidences
  PROVE  /\ \E o \in tried : o.conf = Highest(tried)
         /\ \E o \in tried : o.conf = Lowest(tried)
<1> DEFINE S == {o.conf : o \in tried}
<1>1. S \subseteq {0, 95, 97, 99} /\ S # {} BY DEF Confidences, Inferred, Within, Exact
<1> HIDE DEF S
<1>2. \E c \in S : \A d \in S : d <= c
  <2>1. CASE 99 \in S BY <1>1, <2>1
  <2>2. CASE 99 \notin S /\ 97 \in S BY <1>1, <2>2
  <2>3. CASE 99 \notin S /\ 97 \notin S /\ 95 \in S BY <1>1, <2>3
  <2>4. CASE 99 \notin S /\ 97 \notin S /\ 95 \notin S
    <3>1. \A d \in S : d = 0 BY <1>1, <2>4
    <3>2. 0 \in S BY <1>1, <3>1
    <3>3. 0 <= 0 OBVIOUS
    <3> QED BY <3>1, <3>2, <3>3
  <2> QED BY <1>1, <2>1, <2>2, <2>3, <2>4
<1>3. \E c \in S : \A d \in S : d >= c
  <2>1. CASE 0 \in S BY <1>1, <2>1
  <2>2. CASE 0 \notin S /\ 95 \in S BY <1>1, <2>2
  <2>3. CASE 0 \notin S /\ 95 \notin S /\ 97 \in S BY <1>1, <2>3
  <2>4. CASE 0 \notin S /\ 95 \notin S /\ 97 \notin S
    <3>1. \A d \in S : d = 99 BY <1>1, <2>4
    <3>2. 99 \in S BY <1>1, <3>1
    <3>3. 99 >= 99 OBVIOUS
    <3> QED BY <3>1, <3>2, <3>3
  <2> QED BY <1>1, <2>1, <2>2, <2>3, <2>4
<1>4. Highest(tried) \in S BY <1>2 DEF Highest, S
<1>5. Lowest(tried) \in S BY <1>3 DEF Lowest, S
<1> QED BY <1>4, <1>5 DEF S

LEMMA GatedSound ==
  ASSUME NEW verdict \in Definite, NEW conf \in 0..100, NEW codes, NEW count, NEW c,
         NEW allowed, NEW minConf, c.conf \in 0..100, Fits(verdict, codes, c)
  PROVE  ResultSound(Gated(verdict, conf, codes, count, c, allowed, minConf), c)
<1> DEFINE r == Gated(verdict, conf, codes, count, c, allowed, minConf)
<1>1. /\ r.verdict = verdict /\ r.conf = Weaker(conf, c.conf)
      /\ r.codes = codes \/ r.codes = codes \cup {"LOW_CONFIDENCE_ABSTAIN"}
  BY DEF Gated, RuleResult
<1> HIDE DEF r
<1>2. r.conf \in 0..100 BY <1>1 DEF Weaker
<1>3. "LOW_CONFIDENCE_ABSTAIN" \notin Against \cup LeavingOpen
  BY DEF Against, LeavingOpen, MismatchCodes, AbstentionCodes
<1>4. r.codes \cap Against = codes \cap Against /\ r.codes \cap LeavingOpen = codes \cap LeavingOpen
  BY <1>1, <1>3
<1>5. Fits(r.verdict, r.codes, c) BY <1>1, <1>4 DEF Fits
<1>6. ResultSound(r, c) BY <1>1, <1>2, <1>5 DEF ResultSound, Definite, Verdicts
<1> QED BY <1>6 DEF r

LEMMA AbstainedSound ==
  ASSUME NEW o, NEW c, NEW count, OutcomeSound(o, c), o.verdict = "INSUFFICIENT_EVIDENCE"
  PROVE  ResultSound(Abstained(o, count), c)
<1> DEFINE r == Abstained(o, count)
<1>1. r.verdict = o.verdict /\ r.conf = o.conf /\ r.codes = o.codes
  BY DEF Abstained, RuleResult
<1> HIDE DEF r
<1>2. o.conf \in 0..100 BY DEF OutcomeSound, Confidences, Inferred, Within, Exact
<1>3. ResultSound(r, c) BY <1>1, <1>2 DEF ResultSound, OutcomeSound, Verdicts
<1> QED BY <1>3 DEF r

LEMMA ReconciledSound ==
  ASSUME NEW tried, NEW c, NEW p, c.conf \in 0..100, \A o \in tried : OutcomeSound(o, c)
  PROVE  ResultSound(Reconciled(tried, c, p), c)
<1> DEFINE contradictions == Having("CONTRADICTED", tried)
           insufficient == Having("INSUFFICIENT_EVIDENCE", tried)
           supports == Having("SUPPORTED", tried)
           r == Reconciled(tried, c, p)
<1>1. \A verdict : \A o \in Having(verdict, tried) :
        o \in tried /\ o.verdict = verdict /\ OutcomeSound(o, c) /\ o.conf \in Confidences
  BY DEF Having, OutcomeSound
<1>2. \A x \in Confidences : x \in 0..100 BY DEF Confidences, Inferred, Within, Exact
<1> SUFFICES ResultSound(r, c) OBVIOUS
<1>3. CASE contradictions # {}
  <2>1. r = Gated("CONTRADICTED", Highest(contradictions), Codes(contradictions),
                  Cardinality(tried), c, p.allowContradicted, p.minConf)
    BY <1>3 DEF Reconciled
  <2>2. Highest(contradictions) \in 0..100 BY <1>1, <1>2, <1>3, Extremes
  <2>3. Fits("CONTRADICTED", Codes(contradictions), c)
    <3>1. \A o \in contradictions : o.codes \cap Against # {} /\ o.codes \cap LeavingOpen = {}
      BY <1>1 DEF OutcomeSound, Fits
    <3>2. Codes(contradictions) \cap Against # {} BY <1>3, <3>1 DEF Codes
    <3>3. Codes(contradictions) \cap LeavingOpen = {} BY <3>1 DEF Codes
    <3> QED BY <3>2, <3>3 DEF Fits
  <2> HIDE DEF r
  <2> QED BY <2>1, <2>2, <2>3, GatedSound DEF Definite
<1>4. CASE contradictions = {} /\ insufficient # {}
  <2>1. r = Abstained(Only({o \in insufficient : o.conf = Highest(insufficient)}),
                      Cardinality(tried))
    BY <1>4 DEF Reconciled
  <2>2. \E o \in insufficient : o.conf = Highest(insufficient) BY <1>1, <1>4, Extremes
  <2>3. Only({o \in insufficient : o.conf = Highest(insufficient)}) \in insufficient
    BY <2>2 DEF Only
  <2> HIDE DEF r
  <2> QED BY <1>1, <2>1, <2>3, AbstainedSound
<1>5. CASE contradictions = {} /\ insufficient = {} /\ supports # {}
  <2>1. r = Gated("SUPPORTED", Lowest(supports), Codes(supports), Cardinality(tried), c,
                  p.allowSupported, p.minConf)
    BY <1>5 DEF Reconciled
  <2>2. Lowest(supports) \in 0..100 BY <1>1, <1>2, <1>5, Extremes
  <2>3. Fits("SUPPORTED", Codes(supports), c)
    <3>1. \A o \in supports :
            /\ o.codes \cap LeavingOpen = {}
            /\ o.codes \cap Against \subseteq (IF Expired(c) THEN {"OFFER_EXPIRED"} ELSE {})
      BY <1>1 DEF OutcomeSound, Fits
    <3>2. Codes(supports) \cap LeavingOpen = {} BY <3>1 DEF Codes
    <3>3. Codes(supports) \cap Against \subseteq (IF Expired(c) THEN {"OFFER_EXPIRED"} ELSE {})
      BY <3>1 DEF Codes
    <3> QED BY <3>2, <3>3 DEF Fits
  <2> HIDE DEF r
  <2> QED BY <2>1, <2>2, <2>3, GatedSound DEF Definite
<1>6. CASE contradictions = {} /\ insufficient = {} /\ supports = {}
  <2>1. r = RuleResult("none", 0, {}, Cardinality(tried), TRUE) BY <1>6 DEF Reconciled
  <2> QED BY <2>1 DEF ResultSound, RuleResult, Fits, NoVerdict
<1> QED BY <1>3, <1>4, <1>5, <1>6

(* What the early returns of the engine report.                             *)
LEMMA NotEvaluatedSound ==
  ASSUME NEW c, NEW p, NEW r \in NotEvaluated(c, p)
  PROVE  ResultSound(r, c)
<1>1. \/ r = RuleResult("none", 0, {}, 0, TRUE)
      \/ r = RuleResult("INVALID_CLAIM", Exact, {"UNSUPPORTED_INFERENCE"}, 1, FALSE)
      \/ r = RuleResult("none", 0, {"UNPARSEABLE_CLAIM"}, 1, TRUE)
  BY DEF NotEvaluated
<1> QED BY <1>1 DEF ResultSound, RuleResult, Fits, NoVerdict, Verdicts, Exact

-----------------------------------------------------------------------------
(* The normalizer is never more than certain.                               *)
Sure(conf) == conf \in 0..100
Bounded(parse) == "conf" \in DOMAIN parse /\ Sure(parse.conf)

LEMMA Certainties ==
  /\ Sure(0) /\ Sure(70) /\ Sure(80) /\ Sure(85) /\ Sure(88) /\ Sure(90) /\ Sure(92)
  /\ Sure(93) /\ Sure(95)
BY DEF Sure

LEMMA ParsesBounded ==
  \A t, a, o, k, x, y : Sure(k) =>
    /\ Bounded(Parsed(t, a, o, k))
    /\ Bounded(Number(Parsed(t, a, o, k), x, y)) /\ Bounded(Money(Parsed(t, a, o, k), x))
    /\ Bounded(Word(Parsed(t, a, o, k), x)) /\ Bounded(Flag(Parsed(t, a, o, k), x))
<1> SUFFICES ASSUME NEW t, NEW a, NEW o, NEW k, NEW x, NEW y, Sure(k)
             PROVE  /\ Bounded(Parsed(t, a, o, k))
                    /\ Bounded(Number(Parsed(t, a, o, k), x, y))
                    /\ Bounded(Money(Parsed(t, a, o, k), x))
                    /\ Bounded(Word(Parsed(t, a, o, k), x))
                    /\ Bounded(Flag(Parsed(t, a, o, k), x))
  OBVIOUS
<1> QED BY DEF Parsed, Number, Money, Word, Flag, Bounded

LEMMA MatchersBounded ==
  ASSUME NEW s, WellFormed(s), NEW negated, NEW asOf,
         NEW i \in DOMAIN Cascade(s, negated, asOf), NEW x \in Cascade(s, negated, asOf)[i]
  PROVE  Bounded(x)
<1> DEFINE AllBounded(parses) == \A y \in parses : Bounded(y)
<1>1. AllBounded(MatchTrial(s, negated)) BY ParsesBounded, Certainties DEF MatchTrial
<1>2. AllBounded(MatchShipping(s, negated))
  <2> SUFFICES ASSUME NEW y \in MatchShipping(s, negated) PROVE Bounded(y) OBVIOUS
  <2>1. \/ \E o, yes : y = Flag(Parsed("SHIPPING", "free_shipping", o, 95), yes)
        \/ \E m : y = Money(Parsed("SHIPPING", "shipping_cost", "EQUALS", 90), m)
        \/ y = Parsed("UNKNOWN", "unknown", "EQUALS", 0)
    BY DEF MatchShipping, Unclassified
  <2>2. CASE \E o, yes : y = Flag(Parsed("SHIPPING", "free_shipping", o, 95), yes)
    BY <2>2, ParsesBounded, Certainties
  <2>3. CASE \E m : y = Money(Parsed("SHIPPING", "shipping_cost", "EQUALS", 90), m)
    BY <2>3, ParsesBounded, Certainties
  <2>4. CASE y = Parsed("UNKNOWN", "unknown", "EQUALS", 0) BY <2>4, ParsesBounded, Certainties
  <2> QED BY <2>1, <2>2, <2>3, <2>4
<1>3. AllBounded(MatchMinimumPurchase(s, negated)) BY ParsesBounded, Certainties DEF MatchMinimumPurchase
<1>4. AllBounded(MatchDiscount(s)) BY ParsesBounded, Certainties DEF MatchDiscount
<1>5. AllBounded(MatchRegion(s, negated)) BY ParsesBounded, Certainties DEF MatchRegion
<1>6. AllBounded(MatchAvailability(s, negated)) BY ParsesBounded, Certainties DEF MatchAvailability
<1>7. AllBounded(MatchSubscription(s)) BY ParsesBounded, Certainties DEF MatchSubscription
<1>8. AllBounded(MatchPrice(s)) BY ParsesBounded, Certainties DEF MatchPrice
<1>9. AllBounded(MatchPromotionDates(s, asOf))
  <2> SUFFICES ASSUME NEW y \in MatchPromotionDates(s, asOf) PROVE Bounded(y) OBVIOUS
  <2> DEFINE Dated(a) == [Parsed("PROMOTION_DATES", a, "EQUALS", 92) EXCEPT !.kind = "date",
                                                                            !.unit = "date"]
             Over == [Parsed("PROMOTION_DATES", "offer_end", "LESS_THAN", 85) EXCEPT !.kind = "date"]
  <2>1. y = Dated("offer_end") \/ y = Dated("offer_start") \/ y = Over
    BY DEF MatchPromotionDates, DatesClaim
  <2>2. Bounded(Dated("offer_end")) /\ Bounded(Dated("offer_start")) /\ Bounded(Over)
    BY DEF Parsed, Bounded, Sure
  <2> HIDE DEF Dated, Over
  <2> QED BY <2>1, <2>2
<1>10. AllBounded(MatchFeature(s, negated))
  <2>1. \A f \in s.feature : f.match \in FeatureScores
    BY DEF WellFormed, OneOf, FeatureMatches
  <2>2. \A m \in FeatureScores : 60 + (35 * m) \div 100 \in 0..100 BY DEF FeatureScores
  <2> DEFINE raw(f) == 60 + (35 * f.match) \div 100
             conf(f) == IF raw(f) < 93 THEN raw(f) ELSE 93
  <2>3. \A f \in s.feature : raw(f) \in 0..100 BY <2>1, <2>2
  <2>4. \A f \in s.feature : Sure(conf(f)) BY <2>3 DEF Sure
  <2> SUFFICES ASSUME NEW y \in MatchFeature(s, negated) PROVE Bounded(y) OBVIOUS
  <2>5. PICK f \in s.feature :
          \/ y = Word(Parsed("FEATURE_EXCLUSION", "excluded_features", "EXCLUDES", conf(f)), f.key)
          \/ y = Word(Parsed("FEATURE_INCLUSION", "included_features", "INCLUDES", conf(f)), f.key)
    BY DEF MatchFeature
  <2> HIDE DEF conf
  <2> QED BY <2>4, <2>5, ParsesBounded
<1> HIDE DEF AllBounded
<1>11. \A j \in DOMAIN Cascade(s, negated, asOf) : AllBounded(Cascade(s, negated, asOf)[j])
  BY <1>1, <1>2, <1>3, <1>4, <1>5, <1>6, <1>7, <1>8, <1>9, <1>10 DEF Cascade
<1> QED BY <1>11 DEF AllBounded

(* The first hit of ten matchers.                                           *)
LEMMA FirstHit ==
  ASSUME NEW hits \in SUBSET (1..10), hits # {}
  PROVE  \E i \in hits : \A j \in hits : i <= j
<1> DEFINE Least(i) == i \in hits /\ \A j \in 1..(i - 1) : j \notin hits
<1>1. \A i \in 1..10 : Least(i) => \A j \in hits : i <= j OBVIOUS
<1>2. 1 \in hits => Least(1) OBVIOUS
<1>3. 1 \notin hits /\ 2 \in hits => Least(2) OBVIOUS
<1>4. (\A j \in 1..2 : j \notin hits) /\ 3 \in hits => Least(3) OBVIOUS
<1>5. (\A j \in 1..3 : j \notin hits) /\ 4 \in hits => Least(4) OBVIOUS
<1>6. (\A j \in 1..4 : j \notin hits) /\ 5 \in hits => Least(5) OBVIOUS
<1>7. (\A j \in 1..5 : j \notin hits) /\ 6 \in hits => Least(6) OBVIOUS
<1>8. (\A j \in 1..6 : j \notin hits) /\ 7 \in hits => Least(7) OBVIOUS
<1>9. (\A j \in 1..7 : j \notin hits) /\ 8 \in hits => Least(8) OBVIOUS
<1>10. (\A j \in 1..8 : j \notin hits) /\ 9 \in hits => Least(9) OBVIOUS
<1>11. (\A j \in 1..9 : j \notin hits) => Least(10)
  <2>1. HAVE \A j \in 1..9 : j \notin hits
  <2>2. \A j \in hits : j \in 1..9 \/ j = 10 OBVIOUS
  <2>3. 10 \in hits BY <2>1, <2>2
  <2>4. 10 - 1 = 9 OBVIOUS
  <2> QED BY <2>1, <2>3, <2>4
<1> HIDE DEF Least
<1>12. \E i \in 1..10 : Least(i)
  BY <1>2, <1>3, <1>4, <1>5, <1>6, <1>7, <1>8, <1>9, <1>10, <1>11
<1>13. \A i : Least(i) => i \in hits BY DEF Least
<1> QED BY <1>1, <1>12, <1>13

LEMMA ClassifyBounded ==
  ASSUME NEW s, WellFormed(s), NEW negated, NEW asOf
  PROVE  Bounded(Classify(s, negated, asOf))
<1> DEFINE parses == Cascade(s, negated, asOf)
           hits == {i \in DOMAIN parses : parses[i] # {}}
<1>1. CASE hits = {}
  <2>1. Classify(s, negated, asOf) = Parsed("UNKNOWN", "unknown", "EQUALS", 0)
    BY <1>1 DEF Classify, Unclassified
  <2> QED BY <2>1, ParsesBounded, Certainties
<1>2. CASE hits # {}
  <2>1. DOMAIN parses = 1..10 BY DEF Cascade
  <2>2. hits \in SUBSET (1..10) BY <2>1
  <2> DEFINE first == CHOOSE i \in hits : \A j \in hits : i <= j
  <2>3. first \in hits BY <1>2, <2>2, FirstHit
  <2>4. Classify(s, negated, asOf) = CHOOSE x \in parses[first] : TRUE
    BY <1>2 DEF Classify, TheOne
  <2> HIDE DEF first
  <2>5. first \in DOMAIN parses /\ Classify(s, negated, asOf) \in parses[first] BY <2>3, <2>4
  <2> QED BY <2>5, MatchersBounded
<1> QED BY <1>1, <1>2

LEMMA NormalizeBounded ==
  ASSUME NEW s, WellFormed(s), NEW asOf, NEW cfg
  PROVE  Bounded(Normalize(s, asOf, cfg))
<1>1. \A u, parse, q, negated : Bounded(parse) => Bounded(InContext(u, parse, q, negated, asOf))
  BY DEF InContext, Bounded
<1>2. CASE ~cfg.parsing
  BY <1>1, <1>2, ParsesBounded, Certainties DEF Normalize, Unparsed, Unclassified
<1>3. CASE cfg.parsing
  <2> DEFINE parse == Classify(s, Negated(s, cfg), asOf)
             settled == Settled(s, parse, cfg)
  <2>1. Bounded(parse) BY ClassifyBounded
  <2> HIDE DEF parse
  <2>2. Sure(ParseConfidence(s, parse, cfg)) BY <2>1, Certainties DEF ParseConfidence, Bounded, Sure
  <2>3. Bounded(settled) BY <2>1, <2>2 DEF Settled, Bounded
  <2>4. Normalize(s, asOf, cfg) = InContext(s, settled, Hedge(s, cfg), Negated(s, cfg), asOf)
    BY <1>3 DEF Normalize, parse
  <2> HIDE DEF settled
  <2> QED BY <1>1, <2>3, <2>4
<1> QED BY <1>2, <1>3

LEMMA ExtractedBounded ==
  ASSUME NEW c, Bounded(c), NEW x \in Extractions
  PROVE  Bounded(Extracted(c, x))
BY ExtractionsAssumption DEF Extracted, Bounded, Sure

LEMMA BlankBounded == Bounded(Blank)
<1> DEFINE day == [year |-> 0, day |-> 1]
           s == [[cues |-> {}, dates |-> <<>>, asked |-> FALSE, region |-> {}] EXCEPT !.cues = {}]
<1>1. Blank = InContext(s, Unclassified, "NONE", FALSE, day) BY DEF Blank, Unparsed
<1>2. Bounded(Unclassified) BY ParsesBounded, Certainties DEF Unclassified
<1> HIDE DEF s, day
<1>3. Bounded(InContext(s, Unclassified, "NONE", FALSE, day)) BY <1>2 DEF InContext, Bounded
<1> QED BY <1>1, <1>3

-----------------------------------------------------------------------------
(* The invariant.  Its parts are stated of the values they relate, so that  *)
(* a step is followed by following the values.                              *)
Elements(q) == {q[i] : i \in 1..Len(q)}
Distinct(q) == \A i, j \in 1..Len(q) : q[i] = q[j] => i = j

EvidenceOf(r, c, p) ==
  IF r.entry = {} THEN NoEvidence(c)
  ELSE Evidence(c, Only(r.entry).values, Only(r.entry).offer, p)

(* What a set of rules says.                                                *)
Tried(rules, c, e, p, day) ==
  {Evaluate(x, c, e, p, day) : x \in {y \in rules : Applies(y, c, e)}}

ConcludedOn(rules, c, e, p, day) ==
  LET gates == {o \in Tried(rules, c, e, p, day) : Closes(o)}
  IN  IF gates # {} THEN Abstained(Only(gates), 1)
      ELSE Reconciled(Tried(rules, c, e, p, day), c, p)

Uncounted(r) == [r EXCEPT !.count = 0]
OrderFree(r, rules, c, e, p, day) == Uncounted(r) = Uncounted(ConcludedOn(rules, c, e, p, day))

DecidedOn(rating, p, c, e, r) ==
  LET d == Decide(p.routing, EvidenceView(c, e), r, rating.verdict)
  IN  [verdict |-> d.verdict, by |-> d.by, codes |-> Reasons(d.by, e.found, r, rating)]

Placed ==
  /\ profile \in Profiles /\ request \in Requests
  /\ stage \in Stages
  /\ extracted \in BOOLEAN
  /\ Bounded(claim)

EvidenceSound ==
  stage \in {"retrieved", "ruling", "ruled", "answered"} =>
    evidence = EvidenceOf(request, claim, profile)

PendingSound ==
  /\ pending \in Seq(RuleNames)
  /\ Elements(pending) \subseteq RulesOf(profile)
  /\ Distinct(pending)
  /\ stage # "ruling" => pending = <<>>

(* While rules are tried, the outcomes are what those tried so far say, and *)
(* no gate has closed.                                                      *)
RulingSound ==
  /\ stage \in {"received", "extracting", "normalized", "retrieved"} => outcomes = {}
  /\ stage = "ruling" =>
       /\ NotEvaluated(claim, profile) = {}
       /\ outcomes = Tried(RulesOf(profile) \ Elements(pending), claim, evidence, profile,
                           request.asOf)
       /\ \A o \in outcomes : ~Closes(o)

ConclusionSound ==
  /\ ResultSound(result, claim)
  /\ stage \in {"received", "extracting", "normalized"} => result.verdict = NoVerdict
  /\ stage \in {"ruled", "answered"} /\ NotEvaluated(claim, profile) = {} =>
       OrderFree(result, RulesOf(profile), claim, evidence, profile, request.asOf)

AnswerSound ==
  /\ rated = Unrated \/ (stage = "answered" /\ Accepts(rated))
  /\ stage = "answered" => answer = DecidedOn(rated, profile, claim, evidence, result)
  /\ stage # "answered" => answer = Nothing

PipelineInv ==
  /\ Placed /\ EvidenceSound /\ PendingSound /\ RulingSound /\ ConclusionSound
  /\ AnswerSound

-----------------------------------------------------------------------------
LEMMA Popped ==
  ASSUME NEW S, NEW q \in Seq(S), q # <<>>, Distinct(q)
  PROVE  /\ Head(q) \in S /\ Head(q) \in Elements(q)
         /\ Tail(q) \in Seq(S)
         /\ Distinct(Tail(q))
         /\ Elements(Tail(q)) = Elements(q) \ {Head(q)}
<1>1. Len(q) \in Nat \ {0} /\ \A i \in 1..Len(q) : q[i] \in S OBVIOUS
<1>2. Head(q) = q[1] OBVIOUS
<1>3. Tail(q) \in Seq(S) /\ Len(Tail(q)) = Len(q) - 1 OBVIOUS
<1>4. \A i \in 1..(Len(q) - 1) : Tail(q)[i] = q[i + 1] OBVIOUS
<1>5. Distinct(Tail(q)) BY <1>1, <1>3, <1>4 DEF Distinct
<1>6. Elements(Tail(q)) \subseteq Elements(q) \ {Head(q)}
  BY <1>1, <1>2, <1>3, <1>4 DEF Distinct, Elements
<1>7. ASSUME NEW x \in Elements(q), x # Head(q) PROVE x \in Elements(Tail(q))
  <2>1. PICK i \in 1..Len(q) : x = q[i] BY DEF Elements
  <2>2. i - 1 \in 1..(Len(q) - 1) /\ q[(i - 1) + 1] = x BY <1>1, <1>2, <1>7, <2>1
  <2>3. Tail(q)[i - 1] = x BY <1>4, <2>2
  <2> QED BY <1>3, <2>2, <2>3 DEF Elements
<1>8. Head(q) \in Elements(q) BY <1>1, <1>2 DEF Elements
<1> QED BY <1>1, <1>2, <1>3, <1>5, <1>6, <1>7, <1>8

LEMMA ProfileRules ==
  ASSUME NEW p \in Profiles
  PROVE  /\ p.order \in Seq(RuleNames) /\ Distinct(p.order)
         /\ RulesOf(p) = Elements(p.order) /\ RulesOf(p) \subseteq RuleNames
<1>1. p.order \in Seq(RuleNames) BY RuleOrderAssumption DEF RuleNames, KnownOrder
<1>2. DOMAIN p.order = 1..Len(p.order) BY <1>1
<1>3. Distinct(p.order) BY <1>2, RuleOrderAssumption DEF Distinct, KnownOrder
<1>4. RulesOf(p) = Elements(p.order) BY <1>2 DEF RulesOf, Elements
<1>5. RulesOf(p) \subseteq RuleNames BY <1>1, <1>4 DEF Elements
<1> QED BY <1>1, <1>3, <1>4, <1>5

(* One more rule.                                                           *)
LEMMA OneMore ==
  ASSUME NEW done, NEW x, NEW c, NEW e, NEW p, NEW day
  PROVE  /\ ~Applies(x, c, e) => Tried(done \cup {x}, c, e, p, day) = Tried(done, c, e, p, day)
         /\ Applies(x, c, e) =>
              Tried(done \cup {x}, c, e, p, day)
                = Tried(done, c, e, p, day) \cup {Evaluate(x, c, e, p, day)}
<1> DEFINE say(r) == Evaluate(r, c, e, p, day)
           ok(r) == Applies(r, c, e)
           before == {say(r) : r \in {y \in done : ok(y)}}
           after == {say(r) : r \in {y \in done \cup {x} : ok(y)}}
<1>1. before = Tried(done, c, e, p, day) /\ after = Tried(done \cup {x}, c, e, p, day)
  BY DEF Tried
<1> HIDE DEF say, ok
<1>2. ~ok(x) => after = before OBVIOUS
<1>3. ok(x) => after = before \cup {say(x)} OBVIOUS
<1> HIDE DEF before, after
<1> QED BY <1>1, <1>2, <1>3 DEF say, ok

LEMMA TriedSound ==
  ASSUME NEW rules \in SUBSET RuleNames, NEW c, NEW e, NEW p, NEW day,
         NEW o \in Tried(rules, c, e, p, day)
  PROVE  OutcomeSound(o, c) /\ o.rule \in rules
<1>1. PICK x \in rules : Applies(x, c, e) /\ o = Evaluate(x, c, e, p, day) BY DEF Tried
<1> QED BY <1>1, EvaluateSound

LEMMA Recounted ==
  \A verdict, conf, codes, count, escalate :
    Uncounted(RuleResult(verdict, conf, codes, count, escalate))
      = RuleResult(verdict, conf, codes, 0, escalate)
<1> SUFFICES ASSUME NEW verdict, NEW conf, NEW codes, NEW count, NEW escalate
             PROVE  Uncounted(RuleResult(verdict, conf, codes, count, escalate))
                      = RuleResult(verdict, conf, codes, 0, escalate)
  OBVIOUS
<1> QED BY DEF RuleResult, Uncounted

(* A gate that closes is the only one.                                      *)
LEMMA GateConcludes ==
  ASSUME NEW rules \in SUBSET RuleNames, NEW c, NEW e, NEW p, NEW day, NEW count,
         NEW x \in rules, Applies(x, c, e), Closes(Evaluate(x, c, e, p, day))
  PROVE  OrderFree(Abstained(Evaluate(x, c, e, p, day), count), rules, c, e, p, day)
<1> DEFINE o == Evaluate(x, c, e, p, day)
           gates == {t \in Tried(rules, c, e, p, day) : Closes(t)}
<1>1. o \in gates BY DEF Tried
<1>2. ASSUME NEW t \in gates PROVE t = o
  <2>1. PICK y \in rules : Applies(y, c, e) /\ t = Evaluate(y, c, e, p, day) BY DEF Tried
  <2>2. x \in RuleNames /\ y \in RuleNames OBVIOUS
  <2>3. y = x BY <2>1, <2>2, <1>2, OneGateCloses
  <2> QED BY <2>1, <2>3
<1>3. gates = {o} BY <1>1, <1>2
<1>4. Only(gates) = o BY <1>3 DEF Only
<1>5. ConcludedOn(rules, c, e, p, day) = Abstained(o, 1) BY <1>1, <1>4 DEF ConcludedOn
<1> HIDE DEF o, gates
<1>6. Uncounted(Abstained(o, count)) = Uncounted(Abstained(o, 1))
  BY Recounted DEF Abstained
<1> QED BY <1>5, <1>6 DEF OrderFree, o

LEMMA ReconciledConcludes ==
  ASSUME NEW rules, NEW c, NEW e, NEW p, NEW day,
         \A o \in Tried(rules, c, e, p, day) : ~Closes(o)
  PROVE  OrderFree(Reconciled(Tried(rules, c, e, p, day), c, p), rules, c, e, p, day)
<1>1. {o \in Tried(rules, c, e, p, day) : Closes(o)} = {} OBVIOUS
<1>2. ConcludedOn(rules, c, e, p, day) = Reconciled(Tried(rules, c, e, p, day), c, p)
  BY <1>1 DEF ConcludedOn
<1> QED BY <1>2 DEF OrderFree

(* The definitions of the model, read at the moment they are evaluated.     *)
LEMMA ReadNow ==
  /\ \A rules, c, e, p : Concluded(rules, c, e, p) = ConcludedOn(rules, c, e, p, request.asOf)
  /\ \A rating : Decided(rating) = DecidedOn(rating, profile, claim, evidence, result)
BY DEF Concluded, ConcludedOn, Tried, Decided, DecidedOn

-----------------------------------------------------------------------------
LEMMA SilentResult ==
  ASSUME NEW r, NEW c, NEW d, ResultSound(r, c), r.verdict = NoVerdict
  PROVE  ResultSound(r, d)
BY DEF ResultSound, Fits, NoVerdict

LEMMA InitSound == Init => PipelineInv
<1> SUFFICES ASSUME Init PROVE PipelineInv OBVIOUS
<1>1. Placed BY BlankBounded DEF Init, Placed, Stages
<1>2. EvidenceSound BY DEF Init, EvidenceSound
<1>3. PendingSound
  <2>1. pending = <<>> BY DEF Init
  <2>2. pending \in Seq(RuleNames) /\ Len(pending) = 0 BY <2>1
  <2> QED BY <2>1, <2>2 DEF PendingSound, Elements, Distinct
<1>4. RulingSound BY DEF Init, RulingSound
<1>5. ConclusionSound
  <2>1. result = RuleResult("none", 0, {}, 0, TRUE) /\ stage = "received" BY DEF Init
  <2>2. ResultSound(result, claim) /\ result.verdict = NoVerdict
    BY <2>1 DEF ResultSound, RuleResult, Fits, NoVerdict
  <2> QED BY <2>1, <2>2 DEF ConclusionSound
<1>6. AnswerSound BY DEF Init, AnswerSound
<1> QED BY <1>1, <1>2, <1>3, <1>4, <1>5, <1>6 DEF PipelineInv

(* Before anything is answered or ruled, little is claimed.                 *)
LEMMA RefuseSound == PipelineInv /\ Refuse => PipelineInv'
<1> SUFFICES ASSUME PipelineInv, Refuse PROVE PipelineInv' OBVIOUS
<1>1. Placed' BY DEF PipelineInv, Refuse, Placed, Stages
<1>2. EvidenceSound' BY DEF Refuse, EvidenceSound
<1>3. PendingSound' BY DEF PipelineInv, Refuse, PendingSound, RulesOf
<1>4. RulingSound' BY DEF Refuse, RulingSound
<1>5. ConclusionSound' BY DEF PipelineInv, Refuse, ConclusionSound
<1>6. AnswerSound' BY DEF PipelineInv, Refuse, AnswerSound
<1> QED BY <1>1, <1>2, <1>3, <1>4, <1>5, <1>6 DEF PipelineInv

LEMMA ExtractionFailsSound == PipelineInv /\ ExtractionFails => PipelineInv'
<1> SUFFICES ASSUME PipelineInv, ExtractionFails PROVE PipelineInv' OBVIOUS
<1>1. Placed' BY DEF PipelineInv, ExtractionFails, Placed, Stages
<1>2. EvidenceSound' BY DEF ExtractionFails, EvidenceSound
<1>3. PendingSound' BY DEF PipelineInv, ExtractionFails, PendingSound, RulesOf
<1>4. RulingSound' BY DEF ExtractionFails, RulingSound
<1>5. ConclusionSound' BY DEF PipelineInv, ExtractionFails, ConclusionSound
<1>6. AnswerSound' BY DEF PipelineInv, ExtractionFails, AnswerSound
<1> QED BY <1>1, <1>2, <1>3, <1>4, <1>5, <1>6 DEF PipelineInv

LEMMA RatingFailsSound == PipelineInv /\ RatingFails => PipelineInv'
<1> SUFFICES ASSUME PipelineInv, RatingFails PROVE PipelineInv' OBVIOUS
<1>1. Placed' BY DEF PipelineInv, RatingFails, Placed, Stages
<1>2. EvidenceSound' BY DEF RatingFails, EvidenceSound
<1>3. PendingSound' BY DEF PipelineInv, RatingFails, PendingSound, RulesOf
<1>4. RulingSound' BY DEF RatingFails, RulingSound
<1>5. ConclusionSound' BY DEF PipelineInv, RatingFails, ConclusionSound
<1>6. AnswerSound' BY DEF PipelineInv, RatingFails, AnswerSound
<1> QED BY <1>1, <1>2, <1>3, <1>4, <1>5, <1>6 DEF PipelineInv

LEMMA ParseSound == PipelineInv /\ Parse => PipelineInv'
<1> SUFFICES ASSUME PipelineInv, Parse PROVE PipelineInv' OBVIOUS
<1>0. stage = "received" /\ stage' \in {"extracting", "normalized"} BY DEF Parse
<1>1. Placed'
  <2>1. WellFormed(request.sentence) BY RequestAssumption DEF PipelineInv, Placed
  <2>2. Bounded(claim') BY <2>1, NormalizeBounded DEF Parse
  <2> QED BY <1>0, <2>2 DEF PipelineInv, Parse, Placed, Stages
<1>2. EvidenceSound' BY <1>0 DEF EvidenceSound
<1>3. PendingSound' BY <1>0 DEF PipelineInv, Parse, PendingSound, RulesOf
<1>4. RulingSound' BY <1>0 DEF PipelineInv, Parse, RulingSound
<1>5. ConclusionSound'
  <2>1. result' = result /\ result.verdict = NoVerdict /\ ResultSound(result, claim)
    BY <1>0 DEF PipelineInv, Parse, ConclusionSound
  <2>2. ResultSound(result', claim') BY <2>1, SilentResult
  <2> QED BY <1>0, <2>1, <2>2 DEF ConclusionSound
<1>6. AnswerSound' BY <1>0 DEF PipelineInv, Parse, AnswerSound
<1> QED BY <1>1, <1>2, <1>3, <1>4, <1>5, <1>6 DEF PipelineInv

LEMMA ExtractSound == PipelineInv /\ Extract => PipelineInv'
<1> SUFFICES ASSUME PipelineInv, Extract PROVE PipelineInv' OBVIOUS
<1>0. stage = "extracting" /\ stage' = "normalized" BY DEF Extract
<1>1. Placed'
  <2>1. Bounded(claim') BY ExtractedBounded DEF PipelineInv, Placed, Extract
  <2> QED BY <1>0, <2>1 DEF PipelineInv, Extract, Placed, Stages
<1>2. EvidenceSound' BY <1>0 DEF EvidenceSound
<1>3. PendingSound' BY <1>0 DEF PipelineInv, Extract, PendingSound, RulesOf
<1>4. RulingSound' BY <1>0 DEF PipelineInv, Extract, RulingSound
<1>5. ConclusionSound'
  <2>1. result' = result /\ result.verdict = NoVerdict /\ ResultSound(result, claim)
    BY <1>0 DEF PipelineInv, Extract, ConclusionSound
  <2>2. ResultSound(result', claim') BY <2>1, SilentResult
  <2> QED BY <1>0, <2>1, <2>2 DEF ConclusionSound
<1>6. AnswerSound' BY <1>0 DEF PipelineInv, Extract, AnswerSound
<1> QED BY <1>1, <1>2, <1>3, <1>4, <1>5, <1>6 DEF PipelineInv

LEMMA RetrieveSound == PipelineInv /\ Retrieve => PipelineInv'
<1> SUFFICES ASSUME PipelineInv, Retrieve PROVE PipelineInv' OBVIOUS
<1>0. stage = "normalized" /\ stage' \in {"failed", "retrieved"} BY DEF Retrieve
<1>1. Placed' BY <1>0 DEF PipelineInv, Retrieve, Placed, Stages
<1>2. EvidenceSound' BY DEF Retrieve, EvidenceSound, EvidenceOf
<1>3. PendingSound' BY <1>0 DEF PipelineInv, Retrieve, PendingSound, RulesOf
<1>4. RulingSound' BY <1>0 DEF PipelineInv, Retrieve, RulingSound
<1>5. ConclusionSound' BY <1>0 DEF PipelineInv, Retrieve, ConclusionSound
<1>6. AnswerSound' BY <1>0 DEF PipelineInv, Retrieve, AnswerSound
<1> QED BY <1>1, <1>2, <1>3, <1>4, <1>5, <1>6 DEF PipelineInv

(* The engine.                                                              *)
LEMMA SkipRulesSound == PipelineInv /\ SkipRules => PipelineInv'
<1> SUFFICES ASSUME PipelineInv, SkipRules PROVE PipelineInv' OBVIOUS
<1>0. stage = "retrieved" /\ stage' = "ruled" BY DEF SkipRules
<1>1. Placed' BY <1>0 DEF PipelineInv, SkipRules, Placed, Stages
<1>2. EvidenceSound' BY <1>0 DEF PipelineInv, SkipRules, EvidenceSound
<1>3. PendingSound' BY <1>0 DEF PipelineInv, SkipRules, PendingSound, RulesOf
<1>4. RulingSound' BY <1>0 DEF RulingSound
<1>5. ConclusionSound'
  <2>1. claim' = claim /\ profile' = profile /\ result' \in NotEvaluated(claim, profile)
    BY DEF SkipRules
  <2>2. ResultSound(result', claim') BY <2>1, NotEvaluatedSound
  <2>3. NotEvaluated(claim', profile') # {} BY <2>1
  <2> QED BY <1>0, <2>2, <2>3 DEF ConclusionSound
<1>6. AnswerSound' BY <1>0 DEF PipelineInv, SkipRules, AnswerSound
<1> QED BY <1>1, <1>2, <1>3, <1>4, <1>5, <1>6 DEF PipelineInv

LEMMA BeginRulesSound == PipelineInv /\ BeginRules => PipelineInv'
<1> SUFFICES ASSUME PipelineInv, BeginRules PROVE PipelineInv' OBVIOUS
<1>0. /\ stage = "retrieved" /\ stage' = "ruling" /\ pending' = profile.order
      /\ profile' = profile /\ outcomes' = {}
      /\ UNCHANGED <<request, claim, evidence, result>>
  BY DEF PipelineInv, RulingSound, BeginRules
<1>r. /\ profile.order \in Seq(RuleNames) /\ Distinct(profile.order)
      /\ RulesOf(profile) = Elements(profile.order)
  BY ProfileRules DEF PipelineInv, Placed
<1>1. Placed' BY <1>0 DEF PipelineInv, BeginRules, Placed, Stages
<1>2. EvidenceSound' BY <1>0 DEF PipelineInv, EvidenceSound
<1>3. PendingSound' BY <1>0, <1>r DEF PendingSound
<1>4. RulingSound'
  <2>1. NotEvaluated(claim', profile') = {} BY <1>0 DEF BeginRules
  <2>2. RulesOf(profile') \ Elements(pending') = {} BY <1>0, <1>r
  <2>3. \A c, e, p, day : Tried({}, c, e, p, day) = {} BY DEF Tried
  <2>4. outcomes' = Tried(RulesOf(profile') \ Elements(pending'), claim', evidence', profile',
                          request'.asOf)
    BY <1>0, <2>2, <2>3
  <2> QED BY <1>0, <2>1, <2>4 DEF RulingSound
<1>5. ConclusionSound' BY <1>0 DEF PipelineInv, ConclusionSound
<1>6. AnswerSound' BY <1>0 DEF PipelineInv, BeginRules, AnswerSound
<1> QED BY <1>1, <1>2, <1>3, <1>4, <1>5, <1>6 DEF PipelineInv

(* What the loop of the engine finds at its head.                           *)
LEMMA NextRule ==
  ASSUME PipelineInv, stage = "ruling", pending # <<>>
  PROVE  /\ profile \in Profiles /\ Bounded(claim)
         /\ RulesOf(profile) \in SUBSET RuleNames
         /\ Head(pending) \in RulesOf(profile) /\ Head(pending) \in Elements(pending)
         /\ Tail(pending) \in Seq(RuleNames)
         /\ Distinct(Tail(pending))
         /\ Elements(Tail(pending)) = Elements(pending) \ {Head(pending)}
         /\ Elements(pending) \subseteq RulesOf(profile)
         /\ NotEvaluated(claim, profile) = {}
         /\ outcomes = Tried(RulesOf(profile) \ Elements(pending), claim, evidence, profile,
                             request.asOf)
         /\ \A o \in outcomes : ~Closes(o)
<1>1. profile \in Profiles /\ Bounded(claim) BY DEF PipelineInv, Placed
<1>2. RulesOf(profile) \in SUBSET RuleNames BY <1>1, ProfileRules
<1>3. /\ pending \in Seq(RuleNames) /\ Distinct(pending)
      /\ Elements(pending) \subseteq RulesOf(profile)
  BY DEF PipelineInv, PendingSound
<1>4. /\ NotEvaluated(claim, profile) = {}
      /\ outcomes = Tried(RulesOf(profile) \ Elements(pending), claim, evidence, profile,
                          request.asOf)
      /\ \A o \in outcomes : ~Closes(o)
  BY DEF PipelineInv, RulingSound
<1>5. /\ Head(pending) \in Elements(pending) /\ Tail(pending) \in Seq(RuleNames)
      /\ Distinct(Tail(pending))
      /\ Elements(Tail(pending)) = Elements(pending) \ {Head(pending)}
  BY <1>3, Popped
<1> QED BY <1>1, <1>2, <1>3, <1>4, <1>5

LEMMA PassRuleSound == PipelineInv /\ PassRule => PipelineInv'
<1> SUFFICES ASSUME PipelineInv, PassRule PROVE PipelineInv' OBVIOUS
<1>0. /\ stage = "ruling" /\ pending # <<>> /\ ~Applies(Head(pending), claim, evidence)
      /\ pending' = Tail(pending)
      /\ UNCHANGED <<profile, request, stage, claim, extracted, evidence, outcomes, result,
                     rated, answer>>
  BY DEF PassRule
<1>1. Placed' BY <1>0 DEF PipelineInv, Placed
<1>2. EvidenceSound' BY <1>0 DEF PipelineInv, EvidenceSound
<1>3. PendingSound'
  <2>1. /\ pending' \in Seq(RuleNames) /\ Distinct(pending')
        /\ Elements(pending') \subseteq RulesOf(profile')
    BY <1>0, NextRule
  <2> QED BY <1>0, <2>1 DEF PendingSound
<1>4. RulingSound'
  <2>1. Tried(RulesOf(profile) \ Elements(pending'), claim, evidence, profile, request.asOf)
          = outcomes
    <3> DEFINE x == Head(pending)
    <3>1. x \in RulesOf(profile) /\ x \in Elements(pending) BY <1>0, NextRule
    <3>2. Elements(pending') = Elements(pending) \ {x} BY <1>0, NextRule
    <3>3. ~Applies(x, claim, evidence) BY <1>0
    <3> HIDE DEF x
    <3> DEFINE done == RulesOf(profile) \ Elements(pending)
    <3>4. RulesOf(profile) \ Elements(pending') = done \cup {x} BY <3>1, <3>2
    <3>5. outcomes = Tried(done, claim, evidence, profile, request.asOf)
      BY <1>0, NextRule
    <3> HIDE DEF done
    <3> QED BY <3>3, <3>4, <3>5, OneMore
  <2> QED BY <1>0, <2>1, NextRule DEF RulingSound
<1>5. ConclusionSound' BY <1>0 DEF PipelineInv, ConclusionSound
<1>6. AnswerSound' BY <1>0 DEF PipelineInv, AnswerSound
<1> QED BY <1>1, <1>2, <1>3, <1>4, <1>5, <1>6 DEF PipelineInv

LEMMA ApplyRuleSound == PipelineInv /\ ApplyRule => PipelineInv'
<1> SUFFICES ASSUME PipelineInv, ApplyRule PROVE PipelineInv' OBVIOUS
<1> DEFINE x == Head(pending)
           o == Evaluate(x, claim, evidence, profile, request.asOf)
<1>0. /\ stage = "ruling" /\ pending # <<>> /\ Applies(x, claim, evidence)
      /\ outcomes' = outcomes \cup {o}
      /\ UNCHANGED <<profile, request, claim, extracted, evidence, rated, answer>>
  BY DEF ApplyRule
<1>c. Closes(o) =>
        /\ result' = Abstained(o, Cardinality(outcomes \cup {o}))
        /\ stage' = "ruled" /\ pending' = <<>>
  BY DEF ApplyRule
<1>n. ~Closes(o) => pending' = Tail(pending) /\ result' = result /\ stage' = "ruling"
  BY <1>0 DEF ApplyRule
<1>x. /\ profile \in Profiles /\ RulesOf(profile) \in SUBSET RuleNames
      /\ x \in RulesOf(profile) /\ x \in Elements(pending)
  BY <1>0, NextRule
<1>o. o.rule = x /\ OutcomeSound(o, claim) BY <1>0, <1>x, EvaluateSound
<1>1. Placed' BY <1>0, <1>c, <1>n DEF PipelineInv, Placed, Stages
<1>2. EvidenceSound' BY <1>0 DEF PipelineInv, EvidenceSound
<1>6. AnswerSound' BY <1>0, <1>c, <1>n DEF PipelineInv, AnswerSound
<1> HIDE DEF o
<1>7. CASE Closes(o)
  <2>3. PendingSound'
    <3>1. pending' \in Seq(RuleNames) /\ Len(pending') = 0 BY <1>c, <1>7
    <3>2. Elements(pending') = {} /\ Distinct(pending') BY <3>1 DEF Elements, Distinct
    <3> QED BY <1>c, <1>7, <3>1, <3>2 DEF PendingSound
  <2>4. RulingSound' BY <1>c, <1>7 DEF RulingSound
  <2>5. ConclusionSound'
    <3> DEFINE n == Cardinality(outcomes \cup {o})
    <3>1. result' = Abstained(o, n) /\ stage' = "ruled" BY <1>c, <1>7
    <3> HIDE DEF n
    <3>2. o.verdict = "INSUFFICIENT_EVIDENCE" BY <1>7 DEF Closes
    <3>3. ResultSound(result', claim') BY <1>0, <1>o, <3>1, <3>2, AbstainedSound
    <3>4. OrderFree(Abstained(o, n), RulesOf(profile), claim, evidence, profile, request.asOf)
      BY <1>0, <1>x, <1>7, GateConcludes DEF o
    <3>5. OrderFree(result', RulesOf(profile'), claim', evidence', profile', request'.asOf)
      BY <1>0, <3>1, <3>4
    <3> QED BY <3>1, <3>3, <3>5 DEF ConclusionSound
  <2> QED BY <1>1, <1>2, <1>6, <2>3, <2>4, <2>5 DEF PipelineInv
<1>8. CASE ~Closes(o)
  <2>1. /\ pending' = Tail(pending) /\ result' = result /\ stage' = "ruling"
        /\ UNCHANGED <<profile, request, claim, evidence>>
    BY <1>0, <1>n, <1>8
  <2>2. /\ pending' \in Seq(RuleNames) /\ Distinct(pending')
        /\ Elements(pending') = Elements(pending) \ {x}
        /\ Elements(pending') \subseteq RulesOf(profile)
    BY <1>0, <2>1, NextRule
  <2>3. PendingSound' BY <2>1, <2>2 DEF PendingSound
  <2>4. RulingSound'
    <3> HIDE DEF x
    <3> DEFINE done == RulesOf(profile) \ Elements(pending)
    <3>1. RulesOf(profile') \ Elements(pending') = done \cup {x} BY <1>x, <2>1, <2>2
    <3>2. /\ outcomes = Tried(done, claim, evidence, profile, request.asOf)
          /\ NotEvaluated(claim, profile) = {} /\ \A q \in outcomes : ~Closes(q)
      BY <1>0, NextRule
    <3> HIDE DEF done
    <3>3. outcomes' = Tried(RulesOf(profile') \ Elements(pending'), claim', evidence', profile',
                            request'.asOf)
      <4>1. Tried(done \cup {x}, claim, evidence, profile, request.asOf) = outcomes \cup {o}
        BY <1>0, <3>2, OneMore DEF o
      <4> QED BY <1>0, <2>1, <3>1, <4>1
    <3>4. \A q \in outcomes' : ~Closes(q) BY <1>0, <1>8, <3>2
    <3>5. NotEvaluated(claim', profile') = {} BY <2>1, <3>2
    <3> QED BY <2>1, <3>3, <3>4, <3>5 DEF RulingSound
  <2>5. ConclusionSound' BY <1>0, <2>1 DEF PipelineInv, ConclusionSound
  <2> QED BY <1>1, <1>2, <1>6, <2>3, <2>4, <2>5 DEF PipelineInv
<1> QED BY <1>7, <1>8

LEMMA ReconcileSound == PipelineInv /\ Reconcile => PipelineInv'
<1> SUFFICES ASSUME PipelineInv, Reconcile PROVE PipelineInv' OBVIOUS
<1>0. /\ stage = "ruling" /\ pending = <<>> /\ stage' = "ruled"
      /\ result' = Reconciled(outcomes, claim, profile)
      /\ UNCHANGED <<profile, request, claim, extracted, evidence, pending, outcomes, rated,
                     answer>>
  BY DEF Reconcile
<1>1. Placed' BY <1>0 DEF PipelineInv, Placed, Stages
<1>2. EvidenceSound' BY <1>0 DEF PipelineInv, EvidenceSound
<1>3. PendingSound' BY <1>0 DEF PipelineInv, PendingSound
<1>4. RulingSound' BY <1>0 DEF RulingSound
<1>5. ConclusionSound'
  <2> DEFINE said == Tried(RulesOf(profile), claim, evidence, profile, request.asOf)
  <2>1. Elements(pending) = {}
    <3>1. Len(pending) = 0 BY <1>0
    <3> QED BY <3>1 DEF Elements
  <2>2. RulesOf(profile) \ Elements(pending) = RulesOf(profile) BY <2>1
  <2>3. outcomes = said /\ \A o \in outcomes : ~Closes(o)
    BY <1>0, <2>2 DEF PipelineInv, RulingSound
  <2>4. RulesOf(profile) \in SUBSET RuleNames /\ claim.conf \in 0..100
    BY ProfileRules DEF PipelineInv, Placed, Bounded, Sure
  <2>5. \A o \in outcomes : OutcomeSound(o, claim) BY <2>3, <2>4, TriedSound
  <2>6. ResultSound(result', claim') BY <1>0, <2>4, <2>5, ReconciledSound
  <2>7. OrderFree(Reconciled(said, claim, profile), RulesOf(profile), claim, evidence, profile,
                  request.asOf)
    BY <2>3, ReconciledConcludes
  <2> HIDE DEF said
  <2>8. OrderFree(result', RulesOf(profile'), claim', evidence', profile', request'.asOf)
    BY <1>0, <2>3, <2>7
  <2> QED BY <1>0, <2>6, <2>8 DEF ConclusionSound
<1>6. AnswerSound' BY <1>0 DEF PipelineInv, AnswerSound
<1> QED BY <1>1, <1>2, <1>3, <1>4, <1>5, <1>6 DEF PipelineInv

(* The answer.                                                              *)
LEMMA SettleSound == PipelineInv /\ Settle => PipelineInv'
<1> SUFFICES ASSUME PipelineInv, Settle PROVE PipelineInv' OBVIOUS
<1>0. /\ stage = "ruled" /\ stage' = "answered" /\ answer' = Decided(Unrated)
      /\ UNCHANGED <<profile, request, claim, extracted, evidence, pending, outcomes, result,
                     rated>>
  BY DEF Settle
<1>1. Placed' BY <1>0 DEF PipelineInv, Placed, Stages
<1>2. EvidenceSound' BY <1>0 DEF PipelineInv, EvidenceSound
<1>3. PendingSound' BY <1>0 DEF PipelineInv, PendingSound
<1>4. RulingSound' BY <1>0 DEF RulingSound
<1>5. ConclusionSound' BY <1>0 DEF PipelineInv, ConclusionSound
<1>6. AnswerSound'
  <2>1. rated = Unrated BY <1>0 DEF PipelineInv, AnswerSound
  <2>2. answer' = DecidedOn(rated', profile', claim', evidence', result') BY <1>0, <2>1, ReadNow
  <2> QED BY <1>0, <2>1, <2>2 DEF AnswerSound
<1> QED BY <1>1, <1>2, <1>3, <1>4, <1>5, <1>6 DEF PipelineInv

LEMMA RateSound == PipelineInv /\ Rate => PipelineInv'
<1> SUFFICES ASSUME PipelineInv, Rate PROVE PipelineInv' OBVIOUS
<1>0. /\ stage = "ruled" /\ stage' = "answered" /\ Accepts(rated')
      /\ answer' = DecidedOn(rated', profile, claim, evidence, result)
      /\ UNCHANGED <<profile, request, claim, extracted, evidence, pending, outcomes, result>>
  <2>1. stage = "ruled" /\ stage' = "answered" /\ Accepts(rated') BY DEF Rate
  <2>2. answer' = DecidedOn(rated', profile, claim, evidence, result)
    BY DEF Rate, Decided, DecidedOn
  <2>3. UNCHANGED <<profile, request, claim, extracted, evidence, pending, outcomes, result>>
    BY DEF Rate
  <2> QED BY <2>1, <2>2, <2>3
<1>1. Placed' BY <1>0 DEF PipelineInv, Placed, Stages
<1>2. EvidenceSound' BY <1>0 DEF PipelineInv, EvidenceSound
<1>3. PendingSound' BY <1>0 DEF PipelineInv, PendingSound
<1>4. RulingSound' BY <1>0 DEF RulingSound
<1>5. ConclusionSound' BY <1>0 DEF PipelineInv, ConclusionSound
<1>6. AnswerSound' BY <1>0 DEF AnswerSound
<1> QED BY <1>1, <1>2, <1>3, <1>4, <1>5, <1>6 DEF PipelineInv

LEMMA StutterSound == PipelineInv /\ UNCHANGED vars => PipelineInv'
<1> SUFFICES ASSUME PipelineInv, UNCHANGED vars PROVE PipelineInv' OBVIOUS
<1>0. /\ UNCHANGED <<profile, request, stage, claim, extracted, evidence, pending>>
      /\ UNCHANGED <<outcomes, result, rated, answer>>
  BY DEF vars
<1>1. Placed' BY <1>0 DEF PipelineInv, Placed
<1>2. EvidenceSound' BY <1>0 DEF PipelineInv, EvidenceSound
<1>3. PendingSound' BY <1>0 DEF PipelineInv, PendingSound
<1>4. RulingSound' BY <1>0 DEF PipelineInv, RulingSound
<1>5. ConclusionSound' BY <1>0 DEF PipelineInv, ConclusionSound
<1>6. AnswerSound' BY <1>0 DEF PipelineInv, AnswerSound
<1> QED BY <1>1, <1>2, <1>3, <1>4, <1>5, <1>6 DEF PipelineInv

(* The inductive invariant: the evidence is what the record shows for the   *)
(* claim, the outcomes are what the rules tried so far say, the result fits *)
(* its reasons and the answer follows from the result and the rating.       *)
THEOREM PipelineInvariant == Spec => []PipelineInv
<1>1. Init => PipelineInv BY InitSound
<1>2. PipelineInv /\ [Next]_vars => PipelineInv'
  <2> SUFFICES ASSUME PipelineInv, [Next]_vars PROVE PipelineInv' OBVIOUS
  <2>1. CASE Refuse BY <2>1, RefuseSound
  <2>2. CASE Parse BY <2>2, ParseSound
  <2>3. CASE Extract BY <2>3, ExtractSound
  <2>4. CASE ExtractionFails BY <2>4, ExtractionFailsSound
  <2>5. CASE Retrieve BY <2>5, RetrieveSound
  <2>6. CASE SkipRules BY <2>6, SkipRulesSound
  <2>7. CASE BeginRules BY <2>7, BeginRulesSound
  <2>8. CASE PassRule BY <2>8, PassRuleSound
  <2>9. CASE ApplyRule BY <2>9, ApplyRuleSound
  <2>10. CASE Reconcile BY <2>10, ReconcileSound
  <2>11. CASE Settle BY <2>11, SettleSound
  <2>12. CASE RatingFails BY <2>12, RatingFailsSound
  <2>13. CASE Rate BY <2>13, RateSound
  <2>14. CASE Done \/ UNCHANGED vars BY <2>14, StutterSound DEF Done
  <2> QED BY <2>1, <2>2, <2>3, <2>4, <2>5, <2>6, <2>7, <2>8, <2>9, <2>10, <2>11, <2>12,
             <2>13, <2>14 DEF Next
<1> QED BY <1>1, <1>2, PTL DEF Spec

(* A rule still pending is one of the profile's and of no outcome, and      *)
(* there is an answer exactly when it is reported (engine.py evaluate).     *)
THEOREM PipelineTypeCorrect == Spec => []TypeOK
<1>1. ASSUME PipelineInv PROVE TypeOK
  <2>1. profile \in Profiles /\ stage \in Stages /\ extracted \in BOOLEAN
    BY <1>1 DEF PipelineInv, Placed
  <2>2. \A i \in DOMAIN pending : pending[i] \in Elements(pending)
    BY <1>1 DEF PipelineInv, PendingSound, Elements
  <2>3. \A i \in DOMAIN pending : \E j \in DOMAIN profile.order : pending[i] = profile.order[j]
    BY <1>1, <2>2 DEF PipelineInv, PendingSound, RulesOf
  <2>4. \A o \in outcomes : \A i \in DOMAIN pending : o.rule # pending[i]
    <3>1. CASE stage = "ruling"
      <4>1. RulesOf(profile) \ Elements(pending) \in SUBSET RuleNames BY <2>1, ProfileRules
      <4>2. outcomes = Tried(RulesOf(profile) \ Elements(pending), claim, evidence, profile,
                             request.asOf)
        BY <1>1, <3>1 DEF PipelineInv, RulingSound
      <4>3. \A o \in outcomes : o.rule \notin Elements(pending) BY <4>1, <4>2, TriedSound
      <4> QED BY <2>2, <4>3
    <3>2. CASE stage # "ruling"
      <4>1. pending = <<>> BY <1>1, <3>2 DEF PipelineInv, PendingSound
      <4>2. DOMAIN pending = {} BY <4>1
      <4> QED BY <4>2
    <3> QED BY <3>1, <3>2
  <2>5. result.verdict \in Verdicts \cup {NoVerdict} /\ result.conf \in 0..100
    BY <1>1 DEF PipelineInv, ConclusionSound, ResultSound
  <2>6. rated = Unrated \/ Accepts(rated) BY <1>1 DEF PipelineInv, AnswerSound
  <2>7. stage = "answered" <=> answer # Nothing
    <3>1. ASSUME stage = "answered" PROVE answer.by # Nothing.by
      <4>1. answer = DecidedOn(rated, profile, claim, evidence, result)
        BY <1>1, <3>1 DEF PipelineInv, AnswerSound
      <4>2. answer.by \in {"rules", "rater", "guard", "abstain"} BY <4>1 DEF DecidedOn, Decide
      <4> QED BY <4>2 DEF Nothing
    <3> QED BY <1>1, <3>1 DEF PipelineInv, AnswerSound
  <2> QED BY <2>1, <2>3, <2>4, <2>5, <2>6, <2>7 DEF TypeOK
<1> QED BY <1>1, PipelineInvariant, PTL

(* The order in which a profile lists its rules decides neither the verdict *)
(* nor its confidence nor its reasons, with any profile, claim and record.  *)
THEOREM VerdictsIgnoreRuleOrder == Spec => []VerdictOrderFree
<1>1. ASSUME PipelineInv PROVE VerdictOrderFree
  <2>1. Evaluated => OrderFree(result, RulesOf(profile), claim, evidence, profile, request.asOf)
    BY <1>1 DEF PipelineInv, ConclusionSound, Evaluated
  <2>2. Concluded(RulesOf(profile), claim, evidence, profile)
          = ConcludedOn(RulesOf(profile), claim, evidence, profile, request.asOf)
    BY ReadNow
  <2>3. Evaluated => Uncounted(result)
          = Uncounted(Concluded(RulesOf(profile), claim, evidence, profile))
    BY <2>1, <2>2 DEF OrderFree
  <2> QED BY <2>3 DEF VerdictOrderFree, Uncounted
<1> QED BY <1>1, PipelineInvariant, PTL

(* The three sources of an answer.                                          *)
LEMMA DecidedBy ==
  ASSUME NEW rating, NEW p, NEW c, NEW e, NEW r
  PROVE  LET a == DecidedOn(rating, p, c, e, r)
         IN  \/ a.by = "rules" /\ a.verdict = r.verdict /\ a.codes = r.codes
             \/ /\ a.by = "rater" /\ a.verdict = rating.verdict /\ a.codes = CodesOf(rating)
                /\ rating.verdict # NoVerdict
                /\ ~(p.routing.blockSupport /\ rating.verdict = "SUPPORTED" /\ ~Capable(c, e))
             \/ /\ a.by = "guard" /\ a.verdict = "INSUFFICIENT_EVIDENCE"
                /\ a.codes = {"INSUFFICIENT_EVIDENCE"}
             \/ /\ a.by = "abstain" /\ a.verdict = "INSUFFICIENT_EVIDENCE"
                /\ a.codes \in {{"INSUFFICIENT_EVIDENCE"}, {"REFERENCE_NOT_FOUND"}}
<1> DEFINE d == Decide(p.routing, EvidenceView(c, e), r, rating.verdict)
           a == DecidedOn(rating, p, c, e, r)
<1>1. \/ d.by = "rules" /\ d.verdict = r.verdict
      \/ /\ d.by = "rater" /\ d.verdict = rating.verdict /\ rating.verdict # NoVerdict
         /\ ~(p.routing.blockSupport /\ rating.verdict = "SUPPORTED" /\ ~Capable(c, e))
      \/ d.by = "guard" /\ d.verdict = "INSUFFICIENT_EVIDENCE"
      \/ d.by = "abstain" /\ d.verdict = "INSUFFICIENT_EVIDENCE"
  BY DEF Decide, EvidenceView
<1>2. a.verdict = d.verdict /\ a.by = d.by /\ a.codes = Reasons(d.by, e.found, r, rating)
  BY DEF DecidedOn
<1> HIDE DEF d, a
<1>3. /\ Reasons("rules", e.found, r, rating) = r.codes
      /\ Reasons("rater", e.found, r, rating) = CodesOf(rating)
      /\ Reasons("guard", e.found, r, rating) = {"INSUFFICIENT_EVIDENCE"}
      /\ Reasons("abstain", e.found, r, rating)
           \in {{"INSUFFICIENT_EVIDENCE"}, {"REFERENCE_NOT_FOUND"}}
  BY DEF Reasons
<1>4. \/ a.by = "rules" /\ a.verdict = r.verdict /\ a.codes = r.codes
      \/ /\ a.by = "rater" /\ a.verdict = rating.verdict /\ a.codes = CodesOf(rating)
         /\ rating.verdict # NoVerdict
         /\ ~(p.routing.blockSupport /\ rating.verdict = "SUPPORTED" /\ ~Capable(c, e))
      \/ /\ a.by = "guard" /\ a.verdict = "INSUFFICIENT_EVIDENCE"
         /\ a.codes = {"INSUFFICIENT_EVIDENCE"}
      \/ /\ a.by = "abstain" /\ a.verdict = "INSUFFICIENT_EVIDENCE"
         /\ a.codes \in {{"INSUFFICIENT_EVIDENCE"}, {"REFERENCE_NOT_FOUND"}}
  BY <1>1, <1>2, <1>3
<1> QED BY <1>4 DEF a

(* Do the reasons of the answer explain it?                                 *)
Explained(verdict, codes, by, c) ==
  /\ Fits(verdict, codes, c)
  /\ verdict = "INSUFFICIENT_EVIDENCE" /\ by # "rater" => codes \cap LeavingOpen # {}

(* A reply the adapter accepts has reasons that fit its verdict.            *)
LEMMA AcceptedFits ==
  ASSUME NEW reply, Accepts(reply), NEW c
  PROVE  Fits(reply.verdict, CodesOf(reply), c)
<1> DEFINE codes == CodesOf(reply)
<1>1. codes \subseteq RaterCodes BY DEF Accepts
<1>2. /\ reply.verdict = "SUPPORTED" => codes = {}
      /\ reply.verdict = "CONTRADICTED" =>
           codes \cap MismatchCodes # {} /\ codes \cap AbstentionCodes = {}
      /\ reply.verdict = "INSUFFICIENT_EVIDENCE" => codes \cap MismatchCodes = {}
  BY DEF Accepts, VerdictMatchesReasons
<1> HIDE DEF codes
<1>3. MismatchCodes \subseteq Against /\ AbstentionCodes \cap Against = {}
      /\ MismatchCodes \cap LeavingOpen = {}
  BY DEF Against, LeavingOpen, MismatchCodes, AbstentionCodes
<1>4. \A x \in codes : x \in MismatchCodes \/ x \in AbstentionCodes BY <1>1 DEF RaterCodes
<1>5. Fits(reply.verdict, codes, c) BY <1>2, <1>3, <1>4 DEF Fits
<1> QED BY <1>5 DEF codes

(* Whichever layer answers, its reasons fit the verdict they stand beside.  *)
THEOREM AnswersAreReasoned == Spec => []AnswersExplained
<1>1. ASSUME PipelineInv PROVE AnswersExplained
  <2> SUFFICES ASSUME stage = "answered"
               PROVE  Explained(answer.verdict, answer.codes, answer.by, claim)
    BY DEF AnswersExplained, Explained, Fits
  <2>1. /\ answer = DecidedOn(rated, profile, claim, evidence, result)
        /\ ResultSound(result, claim)
        /\ rated = Unrated \/ Accepts(rated)
    BY <1>1 DEF PipelineInv, AnswerSound, ConclusionSound
  <2>2. \/ answer.by = "rules" /\ answer.verdict = result.verdict /\ answer.codes = result.codes
        \/ /\ answer.by = "rater" /\ answer.verdict = rated.verdict
           /\ answer.codes = CodesOf(rated) /\ rated.verdict # NoVerdict
        \/ /\ answer.verdict = "INSUFFICIENT_EVIDENCE"
           /\ answer.codes \in {{"INSUFFICIENT_EVIDENCE"}, {"REFERENCE_NOT_FOUND"}}
    BY <2>1, DecidedBy
  <2>3. CASE answer.by = "rules" /\ answer.verdict = result.verdict /\ answer.codes = result.codes
    BY <2>1, <2>3 DEF ResultSound, Explained
  <2>4. CASE /\ answer.by = "rater" /\ answer.verdict = rated.verdict
             /\ answer.codes = CodesOf(rated) /\ rated.verdict # NoVerdict
    <3>1. Accepts(rated) BY <2>1, <2>4 DEF Unrated
    <3> QED BY <2>4, <3>1, AcceptedFits DEF Explained
  <2>5. CASE /\ answer.verdict = "INSUFFICIENT_EVIDENCE"
             /\ answer.codes \in {{"INSUFFICIENT_EVIDENCE"}, {"REFERENCE_NOT_FOUND"}}
    <3>1. /\ answer.codes \cap Against = {} /\ answer.codes \cap LeavingOpen # {}
      BY <2>5, Readings DEF LeavesOpen
    <3> QED BY <2>5, <3>1 DEF Explained, Fits
  <2> QED BY <2>2, <2>3, <2>4, <2>5
<1> QED BY <1>1, PipelineInvariant, PTL

(* With the support guard on, nothing is supported on the word of the rater *)
(* unless the record populates the column the claim is about.               *)
THEOREM SupportIsGrounded == Spec => []RaterSupportGrounded
<1>1. ASSUME PipelineInv PROVE RaterSupportGrounded
  <2> SUFFICES ASSUME stage = "answered", profile.routing.blockSupport,
                      answer.by = "rater", answer.verdict = "SUPPORTED"
               PROVE  /\ request.entry # {}
                      /\ claim.attribute # "unknown"
                      /\ \E a \in {claim.attribute, Fallback(claim.attribute)} :
                           Only(request.entry).values[a] # {}
    BY DEF RaterSupportGrounded
  <2>1. /\ answer = DecidedOn(rated, profile, claim, evidence, result)
        /\ evidence = EvidenceOf(request, claim, profile)
    BY <1>1 DEF PipelineInv, AnswerSound, EvidenceSound
  <2>2. Capable(claim, evidence) BY <2>1, DecidedBy
  <2>3. request.entry # {}
    <3>1. evidence.found BY <2>2 DEF Capable, IsEmpty
    <3> QED BY <2>1, <3>1 DEF EvidenceOf, NoEvidence
  <2> DEFINE record == Only(request.entry).values
             offer == Only(request.entry).offer
  <2>4. evidence = Evidence(claim, record, offer, profile) BY <2>1, <2>3 DEF EvidenceOf
  <2> HIDE DEF record, offer
  <2>5. evidence.attribute = EffectiveAttribute(claim, record) BY <2>4 DEF Evidence
  <2>6. \A a \in Attributes : evidence.fields[a] # {} => record[a] # {} BY <2>4 DEF Evidence
  <2>7. evidence.attribute \in {claim.attribute, Fallback(claim.attribute)}
    BY <2>5 DEF EffectiveAttribute
  <2>8. CASE claim.attribute # "unknown" /\ Has(evidence, evidence.attribute)
    BY <2>3, <2>6, <2>7, <2>8 DEF Has, record
  <2>9. CASE Has(evidence, claim.attribute)
    <3>1. claim.attribute \in Attributes /\ record[claim.attribute] # {} BY <2>6, <2>9 DEF Has
    <3>2. "unknown" \notin Attributes BY DEF Attributes, NumericAttributes, MoneyAttributes
    <3> QED BY <2>3, <3>1, <3>2 DEF record
  <2> QED BY <2>2, <2>8, <2>9 DEF Capable
<1> QED BY <1>1, PipelineInvariant, PTL

-----------------------------------------------------------------------------
(* The schemas that are sent to the providers, compared with the payload    *)
(* that is accepted from them.  A reply may hold whatever texts a model     *)
(* writes in place of a verdict or a code.                                  *)
RepliesIn(texts) == [json : BOOLEAN, shaped : BOOLEAN, verdict : texts, codes : Seq(texts)]

(* The two ways of asking for a reason, of the schema and of the payload.   *)
LEMMA SomeCode ==
  ASSUME NEW texts, NEW reply \in RepliesIn(texts)
  PROVE  Len(reply.codes) >= 1 <=> CodesOf(reply) # {}
<1>1. reply.codes \in Seq(texts)
  BY DEF RepliesIn
<1>2. Len(reply.codes) \in Nat /\ DOMAIN reply.codes = 1..Len(reply.codes)
  BY <1>1
<1>3. Len(reply.codes) >= 1 <=> DOMAIN reply.codes # {}
  BY <1>2
<1> QED
  BY <1>3 DEF CodesOf

(* GrammarExact: Ollama's schema admits exactly the replies that            *)
(* SemanticRatingPayload accepts: a model held to the schema is never       *)
(* refused for it, and the schema rules out nothing that would be accepted  *)
(* (ollama.py:90, schemas.py:35).                                           *)
THEOREM GrammarExact ==
  \A texts : \A reply \in RepliesIn(texts) : OllamaAdmits(reply) <=> Accepts(reply)
<1> SUFFICES ASSUME NEW texts, NEW reply \in RepliesIn(texts)
             PROVE  OllamaAdmits(reply) <=> Accepts(reply)
  OBVIOUS
<1> DEFINE codes == CodesOf(reply)
<1>1. Len(reply.codes) \in Nat
  BY DEF RepliesIn
<1>2. Len(reply.codes) >= 1 <=> codes # {}
  BY SomeCode
<1>3. MismatchCodes \cap AbstentionCodes = {}
  BY DEF MismatchCodes, AbstentionCodes
<1>4. (\E b \in OllamaSchema : /\ reply.verdict = b.verdict
                               /\ codes \subseteq b.codes
                               /\ Len(reply.codes) >= b.least)
        <=> \/ reply.verdict = "SUPPORTED" /\ codes = {}
            \/ reply.verdict = "CONTRADICTED" /\ codes \subseteq MismatchCodes /\ codes # {}
            \/ reply.verdict = "INSUFFICIENT_EVIDENCE" /\ codes \subseteq AbstentionCodes
            \/ reply.verdict = "INVALID_CLAIM" /\ codes \subseteq RaterCodes
  <2> HIDE DEF codes
  <2> QED BY <1>1, <1>2 DEF OllamaSchema, Branch
<1>5. (reply.verdict \in Verdicts /\ codes \subseteq RaterCodes /\ VerdictMatchesReasons(reply))
        <=> \/ reply.verdict = "SUPPORTED" /\ codes = {}
            \/ reply.verdict = "CONTRADICTED" /\ codes \subseteq MismatchCodes /\ codes # {}
            \/ reply.verdict = "INSUFFICIENT_EVIDENCE" /\ codes \subseteq AbstentionCodes
            \/ reply.verdict = "INVALID_CLAIM" /\ codes \subseteq RaterCodes
  <2>1. RaterCodes = MismatchCodes \cup AbstentionCodes
    BY DEF RaterCodes
  <2>2. VerdictMatchesReasons(reply) <=>
          /\ reply.verdict = "SUPPORTED" => codes = {}
          /\ reply.verdict = "CONTRADICTED" =>
               codes \cap MismatchCodes # {} /\ codes \cap AbstentionCodes = {}
          /\ reply.verdict = "INSUFFICIENT_EVIDENCE" => codes \cap MismatchCodes = {}
    BY DEF VerdictMatchesReasons
  <2> HIDE DEF codes
  <2> QED BY <1>3, <2>1, <2>2 DEF Verdicts
<1> QED
  BY <1>4, <1>5 DEF OllamaAdmits, Accepts

(* OpenAIWeaker: the schema OpenAI is sent admits every reply that is       *)
(* accepted, and others besides: support with a reason passes it and is     *)
(* refused (schemas.py:54).                                                 *)
THEOREM OpenAIWeaker ==
  /\ \A texts : \A reply \in RepliesIn(texts) : Accepts(reply) => OpenAIAdmits(reply)
  /\ \E reply \in [json : BOOLEAN, shaped : BOOLEAN, verdict : Verdicts, codes : Seq(RaterCodes)] :
       OpenAIAdmits(reply) /\ ~Accepts(reply)
<1>1. \A texts : \A reply \in RepliesIn(texts) : Accepts(reply) => OpenAIAdmits(reply)
  BY DEF Accepts, OpenAIAdmits
<1>2. \E reply \in [json : BOOLEAN, shaped : BOOLEAN, verdict : Verdicts, codes : Seq(RaterCodes)] :
       OpenAIAdmits(reply) /\ ~Accepts(reply)
  <2> DEFINE reply == [json |-> TRUE, shaped |-> TRUE, verdict |-> "SUPPORTED",
                       codes |-> <<"PRICE_MISMATCH">>]
  <2>1. "PRICE_MISMATCH" \in RaterCodes /\ "SUPPORTED" \in Verdicts
    BY DEF RaterCodes, MismatchCodes, Verdicts
  <2>2. reply.codes = <<"PRICE_MISMATCH">> /\ DOMAIN reply.codes = {1}
    OBVIOUS
  <2>3. CodesOf(reply) = {"PRICE_MISMATCH"}
    BY <2>2 DEF CodesOf
  <2>4. reply \in [json : BOOLEAN, shaped : BOOLEAN, verdict : Verdicts, codes : Seq(RaterCodes)]
    BY <2>1
  <2>5. OpenAIAdmits(reply)
    BY <2>1, <2>2, <2>3 DEF OpenAIAdmits, NoDuplicates
  <2>6. ~Accepts(reply)
    BY <2>3 DEF Accepts, VerdictMatchesReasons
  <2> QED BY <2>4, <2>5, <2>6
<1> QED
  BY <1>1, <1>2

-----------------------------------------------------------------------------
(* What a verification in progress remembers of its sentence: a claim that  *)
(* was not extracted is what the normalizer makes of the sentence, a result *)
(* that no rule gave is one of the early returns, and the rater was asked   *)
(* exactly when the policy requires it.                                     *)
ClaimRead ==
  /\ stage = "extracting" => profile.extraction
  /\ extracted => profile.extraction
  /\ stage \in {"received", "extracting"} => ~extracted
  /\ stage \notin {"received", "failed"} /\ ~extracted =>
       claim = Normalize(request.sentence, request.asOf, profile)

ResultGiven ==
  stage \in {"ruled", "answered"} /\ NotEvaluated(claim, profile) # {} =>
    result \in NotEvaluated(claim, profile)

RequiredOn(p, c, e, r) ==
  ShouldRate(p.routing, ClaimView(c), r, EvidenceView(c, e)).required

RatingAsked ==
  stage = "answered" => (rated # Unrated <=> RequiredOn(profile, claim, evidence, result))

ReadingInv == PipelineInv /\ ClaimRead /\ ResultGiven /\ RatingAsked

LEMMA ClaimReadInit == Init => ClaimRead
BY DEF Init, ClaimRead

LEMMA ClaimReadStep == ClaimRead /\ [Next]_vars => ClaimRead'
<1> SUFFICES ASSUME ClaimRead, [Next]_vars PROVE ClaimRead' OBVIOUS
<1>1. CASE Parse
  <2>1. /\ stage = "received" /\ stage' \in {"extracting", "normalized"}
        /\ claim' = Normalize(request.sentence, request.asOf, profile)
        /\ UNCHANGED <<profile, request, extracted>>
        /\ stage' = "extracting" => profile.extraction
    BY <1>1 DEF Parse, WantsExtraction
  <2> QED BY <2>1 DEF ClaimRead
<1>2. CASE Extract
  <2>1. /\ stage = "extracting" /\ stage' = "normalized" /\ extracted'
        /\ UNCHANGED <<profile, request>>
    BY <1>2 DEF Extract
  <2> QED BY <2>1 DEF ClaimRead
<1>3. ASSUME /\ stage' \notin {"received", "extracting"}
             /\ stage' # "failed" => stage \notin {"received", "failed"}
             /\ UNCHANGED <<profile, request, claim, extracted>>
      PROVE  ClaimRead'
  BY <1>3 DEF ClaimRead
<1>4. CASE Refuse \/ ExtractionFails \/ Retrieve \/ SkipRules \/ BeginRules
  BY <1>3, <1>4 DEF Refuse, ExtractionFails, Retrieve, SkipRules, BeginRules
<1>5. CASE PassRule \/ Reconcile \/ Settle \/ RatingFails \/ Rate
  BY <1>3, <1>5 DEF PassRule, Reconcile, Settle, RatingFails, Rate
<1>6. CASE ApplyRule
  <2>1. /\ stage = "ruling" /\ stage' \in {"ruling", "ruled"}
        /\ UNCHANGED <<profile, request, claim, extracted>>
    BY <1>6 DEF ApplyRule
  <2> QED BY <1>3, <2>1
<1>7. CASE Done \/ UNCHANGED vars BY <1>7 DEF Done, vars, ClaimRead
<1> QED BY <1>1, <1>2, <1>4, <1>5, <1>6, <1>7 DEF Next

LEMMA ResultGivenStep == PipelineInv /\ ResultGiven /\ [Next]_vars => ResultGiven'
<1> SUFFICES ASSUME PipelineInv, ResultGiven, [Next]_vars PROVE ResultGiven' OBVIOUS
<1>1. CASE SkipRules
  <2>1. claim' = claim /\ profile' = profile /\ result' \in NotEvaluated(claim, profile)
    BY <1>1 DEF SkipRules
  <2> QED BY <2>1 DEF ResultGiven
<1>2. CASE Refuse \/ Parse \/ Extract \/ ExtractionFails \/ Retrieve \/ BeginRules \/ PassRule
           \/ RatingFails
  <2>1. stage' \notin {"ruled", "answered"}
    BY <1>2 DEF Refuse, Parse, Extract, ExtractionFails, Retrieve, BeginRules, PassRule,
                RatingFails
  <2> QED BY <2>1 DEF ResultGiven
<1>3. CASE ApplyRule \/ Reconcile
  <2>1. stage = "ruling" /\ claim' = claim /\ profile' = profile
    BY <1>3 DEF ApplyRule, Reconcile
  <2>2. NotEvaluated(claim', profile') = {} BY <2>1 DEF PipelineInv, RulingSound
  <2> QED BY <2>2 DEF ResultGiven
<1>4. CASE Settle \/ Rate \/ Done \/ UNCHANGED vars
  <2>1. /\ UNCHANGED <<claim, profile, result>>
        /\ stage' \in {"ruled", "answered"} => stage \in {"ruled", "answered"}
    BY <1>4 DEF Settle, Rate, Done, vars
  <2> QED BY <2>1 DEF ResultGiven
<1> QED BY <1>1, <1>2, <1>3, <1>4 DEF Next

LEMMA RatingAskedStep == PipelineInv /\ RatingAsked /\ [Next]_vars => RatingAsked'
<1> SUFFICES ASSUME PipelineInv, RatingAsked, [Next]_vars, stage' = "answered"
             PROVE  rated' # Unrated <=> RequiredOn(profile', claim', evidence', result')
  BY DEF RatingAsked
<1>1. CASE Settle
  <2>1. /\ UNCHANGED <<profile, claim, evidence, result, rated>> /\ stage = "ruled"
        /\ ~RequiredOn(profile, claim, evidence, result)
    BY <1>1 DEF Settle, Routing, RequiredOn
  <2>2. rated = Unrated BY <2>1 DEF PipelineInv, AnswerSound
  <2> QED BY <2>1, <2>2
<1>2. CASE Rate
  <2>1. /\ UNCHANGED <<profile, claim, evidence, result>>
        /\ RequiredOn(profile, claim, evidence, result)
        /\ Accepts(rated')
    BY <1>2 DEF Rate, Routing, RequiredOn
  <2>2. rated' # Unrated BY <2>1 DEF Accepts, Unrated
  <2> QED BY <2>1, <2>2
<1>3. CASE Done \/ UNCHANGED vars
  <2>1. UNCHANGED <<profile, claim, evidence, result, rated, stage>> BY <1>3 DEF Done, vars
  <2> QED BY <2>1 DEF RatingAsked
<1>4. CASE Refuse \/ Parse \/ Extract \/ ExtractionFails \/ Retrieve
           \/ SkipRules \/ BeginRules \/ PassRule \/ ApplyRule \/ Reconcile \/ RatingFails
  <2>1. stage' # "answered"
    BY <1>4 DEF Refuse, Parse, Extract, ExtractionFails, Retrieve, SkipRules, BeginRules,
                PassRule, ApplyRule, Reconcile, RatingFails
  <2> QED BY <2>1
<1> QED BY <1>1, <1>2, <1>3, <1>4 DEF Next

THEOREM ReadingInvariant == Spec => []ReadingInv
<1>1. Init => ClaimRead /\ ResultGiven /\ RatingAsked
  BY ClaimReadInit DEF Init, ResultGiven, RatingAsked
<1>2. PipelineInv /\ (ClaimRead /\ ResultGiven /\ RatingAsked) /\ [Next]_vars
        => (ClaimRead /\ ResultGiven /\ RatingAsked)'
  BY ClaimReadStep, ResultGivenStep, RatingAskedStep
<1> QED BY <1>1, <1>2, PipelineInvariant, PTL DEF Spec, ReadingInv

-----------------------------------------------------------------------------
(* How a sentence is parsed.                                                *)
LEMMA OnlyOne ==
  /\ \A S : Only(S) = TheOne(S)
  /\ \A S, V, x : OneOf(S, V) /\ x \in S => x = Only(S)
  /\ \A S : S # {} => Only(S) \in S
BY DEF Only, TheOne, OneOf

(* The parse, but for its confidence.                                       *)
Says(x, type, attribute, operator, kind, number, word, unit) ==
  /\ x.type = type /\ x.attribute = attribute /\ x.operator = operator
  /\ x.kind = kind /\ x.number = number /\ x.word = word /\ x.unit = unit
  /\ "operator" \in DOMAIN x

SaysNothing(x) == Says(x, "UNKNOWN", "unknown", "EQUALS", "none", 0, "none", "none")

SaysMoney(x, type, attribute, m) ==
  Says(x, type, attribute, "EQUALS", "number", m.amount, "none", m.currency)

Either(test, a, b) == IF test THEN a ELSE b
YesNo(test) == Either(test, "yes", "no")

(* What is said of each topic, and how.                                     *)
ReadAs(topic, x, s, negated, span) ==
  \/ /\ topic = "trial" /\ s.days # {}
     /\ Says(x, "TRIAL_DURATION", "trial_days", "EQUALS", "number", Only(s.days), "none", "days")
  \/ /\ topic = "some_trial" /\ s.days = {}
     /\ Says(x, "TRIAL_DURATION", "trial_days", Either(negated, "EQUALS", "GREATER_THAN"),
             "number", 0, "none", "days")
  \/ /\ topic = "no_charge" /\ "no_charge" \in s.cues
     /\ Says(x, "SHIPPING", "free_shipping", "IS_TRUE", "flag", 0, "yes", "none")
  \/ /\ topic = "free_shipping" /\ "free" \in s.cues /\ "no_charge" \notin s.cues
     /\ Says(x, "SHIPPING", "free_shipping", Either(negated, "IS_FALSE", "IS_TRUE"), "flag", 0,
             YesNo(~negated), "none")
  \/ /\ topic = "paid_shipping" /\ "free" \notin s.cues /\ "no_charge" \notin s.cues
     /\ Says(x, "SHIPPING", "free_shipping", "IS_FALSE", "flag", 0, "no", "none")
  \/ /\ topic = "shipping_cost" /\ s.money # {}
     /\ SaysMoney(x, "SHIPPING", "shipping_cost", Only(s.money))
  \/ /\ topic = "minimum" /\ s.money # {} /\ "no_minimum" \notin s.cues
     /\ SaysMoney(x, "MINIMUM_PURCHASE", "minimum_purchase", Only(s.money))
  \/ /\ topic = "no_minimum" /\ ("no_minimum" \in s.cues \/ s.money = {})
     /\ Says(x, "MINIMUM_PURCHASE", "minimum_purchase", "EQUALS", "number", 0, "none", "none")
  \/ /\ topic = "discount" /\ s.percent # {}
     /\ Says(x, "DISCOUNT", "discount_percent", "EQUALS", "number", Only(s.percent), "none",
             "percent")
  \/ /\ topic = "region" /\ s.region # {} /\ "region" \in s.cues
     /\ Says(x, "GEO_ELIGIBILITY", "eligible_regions", Either(negated, "EXCLUDES", "INCLUDES"),
             "word", 0, Only(s.region), "none")
  \/ /\ topic = "availability"
     /\ Says(x, "AVAILABILITY", "inventory_status", Either(negated, "NOT_EQUALS", "EQUALS"),
             "word", 0, Either(s.phrase = {}, "in_stock", Only(s.phrase)), "none")
  \/ /\ topic = "plan_price" /\ s.money # {}
     /\ SaysMoney(x, "SUBSCRIPTION_TERMS", "subscription_price", Only(s.money))
  \/ /\ topic = "billing" /\ s.period # {}
     /\ Says(x, "SUBSCRIPTION_TERMS", "billing_period", "EQUALS", "word", 0, Only(s.period),
             "none")
  \/ /\ topic = "price" /\ s.money # {}
     /\ SaysMoney(x, "PRICE", "price", Only(s.money))
  \/ /\ topic = "dates" /\ span.ends # {}
     /\ Says(x, "PROMOTION_DATES", "offer_end", "EQUALS", "date", 0, "none", "date")
  \/ /\ topic = "dates" /\ span.ends = {} /\ span.starts # {}
     /\ Says(x, "PROMOTION_DATES", "offer_start", "EQUALS", "date", 0, "none", "date")
  \/ /\ topic = "expired" /\ span.ends = {} /\ span.starts = {}
     /\ Says(x, "PROMOTION_DATES", "offer_end", "LESS_THAN", "date", 0, "none", "none")
  \/ /\ topic = "feature" /\ s.feature # {} /\ (negated \/ "excludes" \in s.cues)
     /\ Says(x, "FEATURE_EXCLUSION", "excluded_features", "EXCLUDES", "word", 0,
             Only(s.feature).key, "none")
  \/ /\ topic = "feature" /\ s.feature # {} /\ ~negated /\ "excludes" \notin s.cues
     /\ Says(x, "FEATURE_INCLUSION", "included_features", "INCLUDES", "word", 0,
             Only(s.feature).key, "none")

LEMMA ParseFields ==
  \A t, a, o, k, n, u, m, w :
    /\ Says(Parsed(t, a, o, k), t, a, o, "none", 0, "none", "none")
    /\ Says(Number(Parsed(t, a, o, k), n, u), t, a, o, "number", n, "none", u)
    /\ Says(Money(Parsed(t, a, o, k), m), t, a, o, "number", m.amount, "none", m.currency)
    /\ Says(Word(Parsed(t, a, o, k), w), t, a, o, "word", 0, w, "none")
    /\ Says(Flag(Parsed(t, a, o, k), w), t, a, o, "flag", 0, YesNo(w), "none")
<1> SUFFICES ASSUME NEW t, NEW a, NEW o, NEW k, NEW n, NEW u, NEW m, NEW w
             PROVE
    /\ Says(Parsed(t, a, o, k), t, a, o, "none", 0, "none", "none")
    /\ Says(Number(Parsed(t, a, o, k), n, u), t, a, o, "number", n, "none", u)
    /\ Says(Money(Parsed(t, a, o, k), m), t, a, o, "number", m.amount, "none", m.currency)
    /\ Says(Word(Parsed(t, a, o, k), w), t, a, o, "word", 0, w, "none")
    /\ Says(Flag(Parsed(t, a, o, k), w), t, a, o, "flag", 0, YesNo(w), "none")
  OBVIOUS
<1> QED BY DEF Says, Parsed, Number, Money, Word, Flag, YesNo, Either

(* A matcher that fires either reads the sentence so, or leaves it open.    *)
ReadSomehow(x, s, negated, span) ==
  SaysNothing(x) \/ \E topic : ReadAs(topic, x, s, negated, span)

LEMMA MatchersRead ==
  ASSUME NEW s, WellFormed(s), NEW negated \in BOOLEAN, NEW asOf,
         NEW i \in DOMAIN Cascade(s, negated, asOf), NEW x \in Cascade(s, negated, asOf)[i]
  PROVE  ReadSomehow(x, s, negated, StatedSpan(s, asOf))
<1> DEFINE span == StatedSpan(s, asOf)
           Read(y) == ReadSomehow(y, s, negated, span)
           AllRead(parses) == \A y \in parses : Read(y)
<1>0. /\ OneOf(s.money, Amounts) /\ OneOf(s.percent, Percents) /\ OneOf(s.days, Durations)
      /\ OneOf(s.phrase, Statuses) /\ OneOf(s.region, RegionCodes) /\ OneOf(s.period, Periods)
      /\ OneOf(s.feature, FeatureMatches)
  BY DEF WellFormed
<1>1. AllRead(MatchTrial(s, negated))
  <2> SUFFICES ASSUME NEW y \in MatchTrial(s, negated) PROVE Read(y) OBVIOUS
  <2>1. \/ \E k : /\ s.days # {}
                  /\ y = Number(Parsed("TRIAL_DURATION", "trial_days", "EQUALS", k), Only(s.days), "days")
        \/ \E k : /\ s.days = {} /\ negated
                  /\ y = Number(Parsed("TRIAL_DURATION", "trial_days", "EQUALS", k), 0, "days")
        \/ \E k : /\ s.days = {} /\ ~negated
                  /\ y = Number(Parsed("TRIAL_DURATION", "trial_days", "GREATER_THAN", k), 0, "days")
    BY OnlyOne DEF MatchTrial
  <2>2. \/ ReadAs("trial", y, s, negated, span)
        \/ ReadAs("some_trial", y, s, negated, span)
    BY <2>1, ParseFields DEF ReadAs, Either
  <2> QED BY <2>2 DEF ReadSomehow
<1>2. AllRead(MatchShipping(s, negated))
  <2> SUFFICES ASSUME NEW y \in MatchShipping(s, negated) PROVE Read(y) OBVIOUS
  <2>1. \/ /\ "no_charge" \in s.cues
           /\ y = Flag(Parsed("SHIPPING", "free_shipping", "IS_TRUE", 95), TRUE)
        \/ /\ "no_charge" \notin s.cues /\ "free" \in s.cues /\ ~negated
           /\ y = Flag(Parsed("SHIPPING", "free_shipping", "IS_TRUE", 95), TRUE)
        \/ /\ "no_charge" \notin s.cues /\ "free" \in s.cues /\ negated
           /\ y = Flag(Parsed("SHIPPING", "free_shipping", "IS_FALSE", 95), FALSE)
        \/ /\ "no_charge" \notin s.cues /\ "free" \notin s.cues
           /\ y = Flag(Parsed("SHIPPING", "free_shipping", "IS_FALSE", 95), FALSE)
        \/ /\ s.money # {}
           /\ y = Money(Parsed("SHIPPING", "shipping_cost", "EQUALS", 90), Only(s.money))
        \/ y = Parsed("UNKNOWN", "unknown", "EQUALS", 0)
    BY OnlyOne DEF MatchShipping, Unclassified
  <2>2. \A o : /\ Says(Flag(Parsed("SHIPPING", "free_shipping", o, 95), TRUE),
                       "SHIPPING", "free_shipping", o, "flag", 0, "yes", "none")
               /\ Says(Flag(Parsed("SHIPPING", "free_shipping", o, 95), FALSE),
                       "SHIPPING", "free_shipping", o, "flag", 0, "no", "none")
    BY DEF Says, Parsed, Flag
  <2>3. CASE /\ "no_charge" \in s.cues
             /\ y = Flag(Parsed("SHIPPING", "free_shipping", "IS_TRUE", 95), TRUE)
    <3>1. ReadAs("no_charge", y, s, negated, span) BY <2>2, <2>3 DEF ReadAs
    <3> QED BY <3>1 DEF ReadSomehow
  <2>4. CASE /\ "no_charge" \notin s.cues /\ "free" \in s.cues /\ ~negated
             /\ y = Flag(Parsed("SHIPPING", "free_shipping", "IS_TRUE", 95), TRUE)
    <3>1. ReadAs("free_shipping", y, s, negated, span) BY <2>2, <2>4 DEF ReadAs, Either, YesNo
    <3> QED BY <3>1 DEF ReadSomehow
  <2>5. CASE /\ "no_charge" \notin s.cues /\ "free" \in s.cues /\ negated
             /\ y = Flag(Parsed("SHIPPING", "free_shipping", "IS_FALSE", 95), FALSE)
    <3>1. ReadAs("free_shipping", y, s, negated, span) BY <2>2, <2>5 DEF ReadAs, Either, YesNo
    <3> QED BY <3>1 DEF ReadSomehow
  <2>6. CASE /\ "no_charge" \notin s.cues /\ "free" \notin s.cues
             /\ y = Flag(Parsed("SHIPPING", "free_shipping", "IS_FALSE", 95), FALSE)
    <3>1. ReadAs("paid_shipping", y, s, negated, span) BY <2>2, <2>6 DEF ReadAs, Either, YesNo
    <3> QED BY <3>1 DEF ReadSomehow
  <2>7. CASE /\ s.money # {}
             /\ y = Money(Parsed("SHIPPING", "shipping_cost", "EQUALS", 90), Only(s.money))
    <3>1. ReadAs("shipping_cost", y, s, negated, span)
      BY <2>7, ParseFields DEF ReadAs, SaysMoney
    <3> QED BY <3>1 DEF ReadSomehow
  <2>8. CASE y = Parsed("UNKNOWN", "unknown", "EQUALS", 0)
    BY <2>8, ParseFields DEF ReadSomehow, SaysNothing
  <2> QED BY <2>1, <2>3, <2>4, <2>5, <2>6, <2>7, <2>8
<1>3. AllRead(MatchMinimumPurchase(s, negated))
  <2> SUFFICES ASSUME NEW y \in MatchMinimumPurchase(s, negated) PROVE Read(y) OBVIOUS
  <2>1. \/ /\ "no_minimum" \in s.cues \/ s.money = {}
           /\ y = Number(Parsed("MINIMUM_PURCHASE", "minimum_purchase", "EQUALS", 88), 0, "none")
        \/ /\ "no_minimum" \notin s.cues /\ s.money # {}
           /\ y = Money(Parsed("MINIMUM_PURCHASE", "minimum_purchase", "EQUALS", 90), Only(s.money))
    BY <1>0, OnlyOne DEF MatchMinimumPurchase
  <2>2. \/ ReadAs("no_minimum", y, s, negated, span)
        \/ ReadAs("minimum", y, s, negated, span)
    BY <2>1, ParseFields DEF ReadAs, SaysMoney
  <2> QED BY <2>2 DEF ReadSomehow
<1>4. AllRead(MatchDiscount(s))
  <2> SUFFICES ASSUME NEW y \in MatchDiscount(s) PROVE Read(y) OBVIOUS
  <2>1. /\ s.percent # {}
        /\ y = Number(Parsed("DISCOUNT", "discount_percent", "EQUALS", 93), Only(s.percent), "percent")
    BY <1>0, OnlyOne DEF MatchDiscount
  <2>2. ReadAs("discount", y, s, negated, span) BY <2>1, ParseFields DEF ReadAs
  <2> QED BY <2>2 DEF ReadSomehow
<1>5. AllRead(MatchRegion(s, negated))
  <2> SUFFICES ASSUME NEW y \in MatchRegion(s, negated) PROVE Read(y) OBVIOUS
  <2>1. /\ s.region # {} /\ "region" \in s.cues
        /\ y = Word(Parsed("GEO_ELIGIBILITY", "eligible_regions",
                           Either(negated, "EXCLUDES", "INCLUDES"), 90), Only(s.region))
    BY <1>0, OnlyOne DEF MatchRegion, Either
  <2>2. ReadAs("region", y, s, negated, span) BY <2>1, ParseFields DEF ReadAs
  <2> QED BY <2>2 DEF ReadSomehow
<1>6. AllRead(MatchAvailability(s, negated))
  <2> SUFFICES ASSUME NEW y \in MatchAvailability(s, negated) PROVE Read(y) OBVIOUS
  <2>1. \E k : y = Word(Parsed("AVAILABILITY", "inventory_status",
                               Either(negated, "NOT_EQUALS", "EQUALS"), k),
                        Either(s.phrase = {}, "in_stock", Only(s.phrase)))
    <3>1. CASE s.phrase = {}
      <4>1. /\ negated
            /\ y = Word(Parsed("AVAILABILITY", "inventory_status", "NOT_EQUALS", 80), "in_stock")
        BY <3>1 DEF MatchAvailability
      <4> QED BY <3>1, <4>1 DEF Either
    <3>2. CASE s.phrase # {}
      <4>1. y = Word(Parsed("AVAILABILITY", "inventory_status",
                            IF negated THEN "NOT_EQUALS" ELSE "EQUALS", 90), Only(s.phrase))
        BY <1>0, <3>2, OnlyOne DEF MatchAvailability
      <4> QED BY <3>2, <4>1 DEF Either
    <3> QED BY <3>1, <3>2
  <2>2. ReadAs("availability", y, s, negated, span) BY <2>1, ParseFields DEF ReadAs
  <2> QED BY <2>2 DEF ReadSomehow
<1>7. AllRead(MatchSubscription(s))
  <2> SUFFICES ASSUME NEW y \in MatchSubscription(s) PROVE Read(y) OBVIOUS
  <2>1. \/ /\ s.money # {}
           /\ y = Money(Parsed("SUBSCRIPTION_TERMS", "subscription_price", "EQUALS", 92), Only(s.money))
        \/ /\ s.period # {}
           /\ y = Word(Parsed("SUBSCRIPTION_TERMS", "billing_period", "EQUALS", 85), Only(s.period))
    BY <1>0, OnlyOne DEF MatchSubscription
  <2>2. \/ ReadAs("plan_price", y, s, negated, span)
        \/ ReadAs("billing", y, s, negated, span)
    BY <2>1, ParseFields DEF ReadAs, SaysMoney
  <2> QED BY <2>2 DEF ReadSomehow
<1>8. AllRead(MatchPrice(s))
  <2> SUFFICES ASSUME NEW y \in MatchPrice(s) PROVE Read(y) OBVIOUS
  <2>1. /\ s.money # {}
        /\ \/ y = Money(Parsed("SUBSCRIPTION_TERMS", "subscription_price", "EQUALS", 92), Only(s.money))
           \/ y = Money(Parsed("PRICE", "price", "EQUALS", 92), Only(s.money))
    BY <1>0, OnlyOne DEF MatchPrice
  <2>2. \/ ReadAs("plan_price", y, s, negated, span)
        \/ ReadAs("price", y, s, negated, span)
    BY <2>1, ParseFields DEF ReadAs, SaysMoney
  <2> QED BY <2>2 DEF ReadSomehow
<1>9. AllRead(MatchPromotionDates(s, asOf))
  <2> SUFFICES ASSUME NEW y \in MatchPromotionDates(s, asOf) PROVE Read(y) OBVIOUS
  <2> DEFINE Dated(a) == [Parsed("PROMOTION_DATES", a, "EQUALS", 92) EXCEPT !.kind = "date",
                                                                            !.unit = "date"]
             Over == [Parsed("PROMOTION_DATES", "offer_end", "LESS_THAN", 85) EXCEPT !.kind = "date"]
  <2>1. \/ span.ends # {} /\ y = Dated("offer_end")
        \/ span.ends = {} /\ span.starts # {} /\ y = Dated("offer_start")
        \/ span.ends = {} /\ span.starts = {} /\ y = Over
    BY DEF MatchPromotionDates, DatesClaim
  <2>2. /\ \A a : Says(Dated(a), "PROMOTION_DATES", a, "EQUALS", "date", 0, "none", "date")
        /\ Says(Over, "PROMOTION_DATES", "offer_end", "LESS_THAN", "date", 0, "none", "none")
    BY DEF Parsed, Says
  <2> HIDE DEF Dated, Over, span
  <2>3. \/ ReadAs("dates", y, s, negated, span)
        \/ ReadAs("expired", y, s, negated, span)
    BY <2>1, <2>2 DEF ReadAs
  <2> QED BY <2>3 DEF ReadSomehow
<1>10. AllRead(MatchFeature(s, negated))
  <2> SUFFICES ASSUME NEW y \in MatchFeature(s, negated) PROVE Read(y) OBVIOUS
  <2>1. PICK f \in s.feature : \E k :
          \/ /\ negated \/ "excludes" \in s.cues
             /\ y = Word(Parsed("FEATURE_EXCLUSION", "excluded_features", "EXCLUDES", k), f.key)
          \/ /\ ~negated /\ "excludes" \notin s.cues
             /\ y = Word(Parsed("FEATURE_INCLUSION", "included_features", "INCLUDES", k), f.key)
    BY DEF MatchFeature
  <2>2. s.feature # {} /\ f = Only(s.feature) BY <1>0, OnlyOne
  <2>3. ReadAs("feature", y, s, negated, span) BY <2>1, <2>2, ParseFields DEF ReadAs
  <2> QED BY <2>3 DEF ReadSomehow
<1> HIDE DEF AllRead
<1>11. \A j \in DOMAIN Cascade(s, negated, asOf) : AllRead(Cascade(s, negated, asOf)[j])
  BY <1>1, <1>2, <1>3, <1>4, <1>5, <1>6, <1>7, <1>8, <1>9, <1>10 DEF Cascade
<1> QED BY <1>11 DEF AllRead

LEMMA ClassifyReads ==
  ASSUME NEW s, WellFormed(s), NEW negated \in BOOLEAN, NEW asOf
  PROVE  ReadSomehow(Classify(s, negated, asOf), s, negated, StatedSpan(s, asOf))
<1> DEFINE parses == Cascade(s, negated, asOf)
           hits == {i \in DOMAIN parses : parses[i] # {}}
<1>1. CASE hits = {}
  <2>1. Classify(s, negated, asOf) = Parsed("UNKNOWN", "unknown", "EQUALS", 0)
    BY <1>1 DEF Classify, Unclassified
  <2> QED BY <2>1, ParseFields DEF ReadSomehow, SaysNothing
<1>2. CASE hits # {}
  <2>1. DOMAIN parses = 1..10 BY DEF Cascade
  <2>2. hits \in SUBSET (1..10) BY <2>1
  <2> DEFINE first == CHOOSE i \in hits : \A j \in hits : i <= j
  <2>3. first \in hits BY <1>2, <2>2, FirstHit
  <2>4. Classify(s, negated, asOf) = CHOOSE x \in parses[first] : TRUE
    BY <1>2 DEF Classify, TheOne
  <2> HIDE DEF first
  <2>5. first \in DOMAIN parses /\ Classify(s, negated, asOf) \in parses[first] BY <2>3, <2>4
  <2> QED BY <2>5, MatchersRead
<1> QED BY <1>1, <1>2

(* The topic a sentence was read as is the one a reader takes it to have.   *)
LEMMA TopicRead ==
  ASSUME NEW topic, NEW x, NEW s, NEW negated, NEW span, ReadAs(topic, x, s, negated, span)
  PROVE  TopicOf(x, s) = topic /\ x.type # "UNKNOWN"
BY DEF ReadAs, Says, SaysMoney, TopicOf, Either

(* What normalization makes of a parse.                                     *)
InContextOf(c, x, s, asOf, p) ==
  /\ c.type = x.type /\ c.attribute = x.attribute /\ c.kind = x.kind
  /\ c.number = x.number /\ c.word = x.word /\ c.unit = x.unit
  /\ c.operator = ResolveOperator(x.operator, Hedge(s, p)) /\ c.qualifier = Hedge(s, p)
  /\ c.starts = StatedSpan(s, asOf).starts /\ c.ends = StatedSpan(s, asOf).ends
  /\ c.inferred <=> StatedSpan(s, asOf) # NoSpan /\ ~YearIsExplicit(s.dates)
  /\ c.present <=> "now" \in s.cues \/ "date" \notin s.cues

LEMMA NormalizeReads ==
  ASSUME NEW r \in Requests, NEW p \in Profiles, NEW c,
         c = Normalize(r.sentence, r.asOf, p), c.type # "UNKNOWN"
  PROVE  \E x : /\ ReadAs(r.topic, x, r.sentence, Negated(r.sentence, p),
                          StatedSpan(r.sentence, r.asOf))
                /\ InContextOf(c, x, r.sentence, r.asOf, p)
<1> DEFINE s == r.sentence
           x == Classify(s, Negated(s, p), r.asOf)
           span == StatedSpan(s, r.asOf)
<1>1. p.parsing
  <2>1. ~p.parsing => c.type = "UNKNOWN"
    BY DEF Normalize, Unparsed, InContext, Unclassified, Parsed
  <2> QED BY <2>1
<1>2. c = InContext(s, Settled(s, x, p), Hedge(s, p), Negated(s, p), r.asOf)
  BY <1>1 DEF Normalize
<1>3. WellFormed(s) BY RequestAssumption
<1>4. Negated(s, p) \in BOOLEAN BY DEF Negated
<1>5. ReadSomehow(x, s, Negated(s, p), span) BY <1>3, <1>4, ClassifyReads
<1>6. x.type # "UNKNOWN" => r.topic = TopicOf(x, s) BY TopicAssumption
<1>p. "operator" \in DOMAIN x
  <2> HIDE DEF x, s, span
  <2> QED BY <1>5 DEF ReadSomehow, SaysNothing, ReadAs, SaysMoney, Says
<1> HIDE DEF x, s
<1> DEFINE y == Settled(s, x, p)
<1>7. /\ y.type = x.type /\ y.attribute = x.attribute /\ y.kind = x.kind
      /\ y.number = x.number /\ y.word = x.word /\ y.unit = x.unit
      /\ y.operator = ResolveOperator(x.operator, Hedge(s, p))
  BY <1>p DEF Settled
<1> HIDE DEF y
<1>8. InContextOf(c, x, s, r.asOf, p)
  <2>1. /\ c.type = y.type /\ c.attribute = y.attribute /\ c.kind = y.kind
        /\ c.number = y.number /\ c.word = y.word /\ c.unit = y.unit
        /\ c.operator = y.operator /\ c.qualifier = Hedge(s, p)
        /\ c.starts = StatedSpan(s, r.asOf).starts /\ c.ends = StatedSpan(s, r.asOf).ends
    BY <1>2 DEF InContext, y
  <2>2. c.inferred <=> StatedSpan(s, r.asOf) # NoSpan /\ ~YearIsExplicit(s.dates)
    <3> DEFINE guessed == StatedSpan(s, r.asOf) # NoSpan /\ ~YearIsExplicit(s.dates)
    <3>1. c.inferred = guessed BY <1>2 DEF InContext
    <3> QED BY <3>1
  <2>3. c.present <=> "now" \in s.cues \/ "date" \notin s.cues
    <3> DEFINE now == "now" \in s.cues \/ "date" \notin s.cues
    <3>1. c.present = now BY <1>2 DEF InContext
    <3> QED BY <3>1
  <2> QED BY <1>7, <2>1, <2>2, <2>3 DEF InContextOf
<1>9. x.type # "UNKNOWN" BY <1>8 DEF InContextOf
<1>10. PICK topic : ReadAs(topic, x, s, Negated(s, p), span)
  BY <1>5, <1>9 DEF ReadSomehow, SaysNothing, Says
<1>11. topic = r.topic BY <1>6, <1>9, <1>10, TopicRead
<1> QED BY <1>8, <1>10, <1>11 DEF s

-----------------------------------------------------------------------------
(* The projection.                                                          *)
Narrowed == {"SHIPPING", "MINIMUM_PURCHASE", "GEO_ELIGIBILITY"}

(* The record is found, and the column is there or missed.                  *)
Absent(e) == e.absent <=> e.attribute # "unknown" /\ e.fields[e.attribute] = {}

(* The matchers name a column the claim type is about.                      *)
LEMMA AimedRead ==
  ASSUME NEW topic, NEW x, NEW s, NEW negated, NEW span, ReadAs(topic, x, s, negated, span),
         NEW c, c.type = x.type, c.attribute = x.attribute, c.type \notin Narrowed
  PROVE  WellAimed(c)
<1>1. \/ c.type = "TRIAL_DURATION" /\ c.attribute = "trial_days"
      \/ c.type = "DISCOUNT" /\ c.attribute = "discount_percent"
      \/ c.type = "AVAILABILITY" /\ c.attribute = "inventory_status"
      \/ /\ c.type = "SUBSCRIPTION_TERMS"
         /\ c.attribute \in {"subscription_price", "billing_period"}
      \/ c.type = "PRICE" /\ c.attribute = "price"
      \/ c.type = "PROMOTION_DATES" /\ c.attribute \in {"offer_start", "offer_end"}
      \/ c.type = "FEATURE_EXCLUSION" /\ c.attribute = "excluded_features"
      \/ c.type = "FEATURE_INCLUSION" /\ c.attribute = "included_features"
  BY DEF ReadAs, SaysMoney, Says, Narrowed
<1> QED BY <1>1 DEF WellAimed, Projection, MoneyAttributes

Whole(p) == [p EXCEPT !.scoped = FALSE, !.terms = TRUE]

Shows(e, record, columns) == \A a \in columns : e.fields[a] = record[a]

Presents(e, offer, effective) ==
  e.found /\ e.offer = offer /\ e.attribute = effective /\ Absent(e)

Columns == Attributes \ {"terms"}

LEMMA ScopeShown ==
  ASSUME NEW c, NEW record, NEW offer, NEW p
  PROVE  /\ Presents(Evidence(c, record, offer, p), offer, EffectiveAttribute(c, record))
         /\ Shows(Evidence(c, record, offer, p), record,
                  Scope(c, EffectiveAttribute(c, record)) \cap Columns)
         /\ ~p.scoped => Shows(Evidence(c, record, offer, p), record, Columns)
<1> DEFINE e == Evidence(c, record, offer, p)
           effective == EffectiveAttribute(c, record)
<1>1. e.found /\ e.offer = offer /\ e.attribute = effective BY DEF Evidence
<1>2. Absent(e)
  <2> DEFINE missed == effective # "unknown" /\ e.fields[effective] = {}
  <2>1. e.absent = missed BY DEF Evidence
  <2> QED BY <1>1, <2>1 DEF Absent
<1>3. \A a \in Scope(c, effective) \cap Columns : e.fields[a] = record[a]
  BY DEF Evidence, Columns
<1>4. ~p.scoped => \A a \in Columns : e.fields[a] = record[a] BY DEF Evidence, Columns
<1> QED BY <1>1, <1>2, <1>3, <1>4 DEF Presents, Shows

LEMMA AttributesAimed ==
  ASSUME NEW c, NEW record, WellAimed(c), IsParsed(c), c.type \notin Narrowed
  PROVE  /\ EffectiveAttribute(c, record) \in Attributes \ {"terms", "unknown", "free_shipping"}
         /\ EffectiveAttribute(c, record) \in MoneyAttributes => "currency" \in Projection(c.type)
         /\ Projection(c.type) \subseteq Attributes \ {"terms"}
<1>1. Projection(c.type) \subseteq Attributes \ {"terms", "unknown", "free_shipping"}
  BY DEF Projection, Attributes, NumericAttributes, MoneyAttributes, Narrowed
<1>2. c.attribute \in Projection(c.type) BY DEF WellAimed
<1>3. EffectiveAttribute(c, record) \in {c.attribute, Fallback(c.attribute)}
  BY DEF EffectiveAttribute
<1>4. \/ Fallback(c.attribute) = c.attribute
      \/ /\ c.attribute \in {"price", "subscription_price"}
         /\ Fallback(c.attribute) \in {"price", "subscription_price"}
  BY DEF Fallback
<1>5. /\ {"price", "subscription_price"} \subseteq MoneyAttributes
      /\ {"price", "subscription_price"}
           \subseteq Attributes \ {"terms", "unknown", "free_shipping"}
  BY DEF Attributes, NumericAttributes, MoneyAttributes
<1> QED BY <1>1, <1>2, <1>3, <1>4, <1>5 DEF WellAimed

(* Each rule finds in the projection what it would find in the whole record.*)
LEMMA SameOutcome ==
  ASSUME NEW c, NEW record, NEW offer, NEW p, NEW q, NEW day, NEW rule \in RuleNames,
         WellAimed(c), IsParsed(c), c.type \notin Narrowed, ~q.scoped,
         NEW e, e = Evidence(c, record, offer, p), NEW w, w = Evidence(c, record, offer, q)
  PROVE  /\ Applies(rule, c, e) <=> Applies(rule, c, w)
         /\ Applies(rule, c, e) => Evaluate(rule, c, e, p, day) = Evaluate(rule, c, w, p, day)
<1>1. PICK effective : effective = EffectiveAttribute(c, record) OBVIOUS
<1>2. /\ effective \in Attributes \ {"terms", "unknown", "free_shipping"}
      /\ effective \in MoneyAttributes => "currency" \in Projection(c.type)
      /\ Projection(c.type) \subseteq Attributes \ {"terms"}
  BY <1>1, AttributesAimed
<1>3. Presents(e, offer, effective) /\ Shows(e, record, Scope(c, effective) \cap Columns)
  BY <1>1, ScopeShown
<1>4. Presents(w, offer, effective) /\ Shows(w, record, Columns) BY <1>1, ScopeShown
<1>5. /\ \A a \in Projection(c.type) : a \in Scope(c, effective)
      /\ effective \in Scope(c, effective)
      /\ c.starts \cup c.ends # {} => {"offer_start", "offer_end"} \subseteq Scope(c, effective)
  BY <1>2 DEF Scope
<1>6. {"offer_start", "offer_end"} \subseteq Attributes \ {"terms"}
  BY DEF Attributes
<1> DEFINE Same(a) == a \in Attributes /\ e.fields[a] = w.fields[a]
<1>7. /\ \A a \in Projection(c.type) : Same(a)
      /\ Same(effective)
      /\ c.starts \cup c.ends # {} => Same("offer_start") /\ Same("offer_end")
  BY <1>2, <1>3, <1>4, <1>5, <1>6 DEF Shows, Columns
<1>8. ~IsEmpty(e) /\ ~IsEmpty(w) BY <1>2, <1>3, <1>4 DEF IsEmpty, Absent, Presents
<1>9. \A a : Same(a) => (Has(e, a) <=> Has(w, a)) /\ e.fields[a] = w.fields[a] BY DEF Has
<1>a. e.attribute = effective /\ w.attribute = effective /\ e.offer = w.offer
  BY <1>3, <1>4 DEF Presents
<1> HIDE DEF Same
<1>10. CASE rule = "entity_resolution" BY <1>8, <1>10 DEF Applies, Evaluate, EntityResolution
<1>11. CASE rule = "field_presence"
  BY <1>2, <1>a, <1>7, <1>8, <1>9, <1>11 DEF Applies, Evaluate, FieldPresence
<1>12. CASE rule = "currency_match"
  <2>1. effective \in MoneyAttributes => Same("currency") BY <1>2, <1>7
  <2> QED BY <2>1, <1>a, <1>9, <1>12 DEF Applies, Evaluate, CurrencyMatch
<1>13. CASE rule = "numeric_comparison"
  BY <1>a, <1>7, <1>9, <1>13 DEF Applies, Evaluate, NumericComparison
<1>14. CASE rule = "free_shipping"
  BY <1>2, <1>a, <1>14 DEF Applies
<1>15. CASE rule = "availability"
  BY <1>a, <1>7, <1>9, <1>15 DEF Applies, Evaluate, Availability
<1>16. CASE rule = "feature_membership"
  <2>1. c.type \in {"FEATURE_INCLUSION", "FEATURE_EXCLUSION"}
          => Same("included_features") /\ Same("excluded_features")
    BY <1>7 DEF Projection
  <2> QED BY <2>1, <1>9, <1>16 DEF Applies, Evaluate, FeatureMembership
<1>17. CASE rule = "region_eligibility" BY <1>17 DEF Applies, Narrowed
<1>18. CASE rule = "billing_period"
  BY <1>a, <1>7, <1>9, <1>18 DEF Applies, Evaluate, BillingPeriod
<1>19. CASE rule = "promotion_window"
  <2>1. Expired(c) => Same("offer_start") /\ Same("offer_end")
    BY <1>7 DEF Expired, Projection
  <2>2. c.starts \cup c.ends # {} \/ Expired(c) => Same("offer_start") /\ Same("offer_end")
    BY <2>1, <1>7
  <2>3. Same("offer_start") /\ Same("offer_end") =>
          PromotionWindow(c, e, p, day) = PromotionWindow(c, w, p, day)
    BY <1>9 DEF PromotionWindow
  <2> QED BY <2>2, <2>3, <1>9, <1>19 DEF Applies, Evaluate, HasWindow
<1>20. CASE rule = "active_offer_window"
  <2>1. c.type = "DISCOUNT" => Same("offer_start") /\ Same("offer_end")
    BY <1>7 DEF Projection
  <2>2. Same("offer_start") /\ Same("offer_end") =>
          ActiveOfferWindow(c, e, p, day) = ActiveOfferWindow(c, w, p, day)
    BY <1>9 DEF ActiveOfferWindow
  <2> QED BY <2>1, <2>2, <1>9, <1>20 DEF Applies, Evaluate, HasWindow, Narrowed
<1> QED
  BY <1>10, <1>11, <1>12, <1>13, <1>14, <1>15, <1>16, <1>17, <1>18, <1>19, <1>20, KnownRules

(* Evidence that says the same to every rule leads to the same conclusion.  *)
LEMMA SameConclusion ==
  ASSUME NEW rules, NEW c, NEW e, NEW w, NEW p, NEW q, NEW day, NEW day2,
         p.allowSupported = q.allowSupported, p.allowContradicted = q.allowContradicted,
         p.minConf = q.minConf,
         \A x \in rules :
           /\ Applies(x, c, e) <=> Applies(x, c, w)
           /\ Applies(x, c, e) => Evaluate(x, c, e, p, day) = Evaluate(x, c, w, q, day2)
  PROVE  ConcludedOn(rules, c, e, p, day) = ConcludedOn(rules, c, w, q, day2)
<1>1. Tried(rules, c, e, p, day) = Tried(rules, c, w, q, day2) BY DEF Tried
<1>2. \A tried : Reconciled(tried, c, p) = Reconciled(tried, c, q) BY DEF Reconciled
<1> QED BY <1>1, <1>2 DEF ConcludedOn

(* What is reported is what is concluded, but for the count.                *)
IsResult(f) ==
  \E verdict, conf, codes, count, escalate : f = RuleResult(verdict, conf, codes, count, escalate)

LEMMA ReconciledIsResult ==
  ASSUME NEW tried, NEW c, NEW p
  PROVE  IsResult(Reconciled(tried, c, p))
<1> DEFINE against == Having("CONTRADICTED", tried)
           open == Having("INSUFFICIENT_EVIDENCE", tried)
           for == Having("SUPPORTED", tried)
           n == Cardinality(tried)
<1>1. \/ Reconciled(tried, c, p) = Gated("CONTRADICTED", Highest(against), Codes(against), n, c,
                                       p.allowContradicted, p.minConf)
      \/ Reconciled(tried, c, p) = Abstained(Only({o \in open : o.conf = Highest(open)}), n)
      \/ Reconciled(tried, c, p) = Gated("SUPPORTED", Lowest(for), Codes(for), n, c,
                                       p.allowSupported, p.minConf)
      \/ Reconciled(tried, c, p) = RuleResult("none", 0, {}, n, TRUE)
  BY DEF Reconciled
<1> HIDE DEF against, open, for, n
<1>2. \A v, k, cs, m, allowed, least : IsResult(Gated(v, k, cs, m, c, allowed, least))
  BY DEF Gated, IsResult
<1>3. \A o, m : IsResult(Abstained(o, m)) BY DEF Abstained, IsResult
<1>4. IsResult(RuleResult("none", 0, {}, n, TRUE)) BY DEF IsResult
<1> QED BY <1>1, <1>2, <1>3, <1>4

LEMMA Reported ==
  ASSUME NEW r, NEW rules, NEW c, NEW e, NEW p, NEW day, OrderFree(r, rules, c, e, p, day)
  PROVE  LET f == ConcludedOn(rules, c, e, p, day)
         IN  /\ r.verdict = f.verdict /\ r.conf = f.conf /\ r.codes = f.codes
             /\ r.escalate = f.escalate
<1> DEFINE f == ConcludedOn(rules, c, e, p, day)
<1>1. IsResult(f)
  <2>1. \A o : IsResult(Abstained(o, 1)) BY DEF Abstained, IsResult
  <2> QED BY <2>1, ReconciledIsResult DEF ConcludedOn
<1>2. Uncounted(r) = Uncounted(f) BY DEF OrderFree
<1> HIDE DEF f
<1>3. DOMAIN f = {"verdict", "conf", "codes", "count", "escalate"}
  BY <1>1 DEF RuleResult, IsResult
<1>4. DOMAIN r = DOMAIN f
  <2>1. \A x : DOMAIN Uncounted(x) = DOMAIN x BY DEF Uncounted
  <2> QED BY <1>2, <2>1
<1>5. \A x : DOMAIN x = {"verdict", "conf", "codes", "count", "escalate"} =>
        /\ Uncounted(x).verdict = x.verdict /\ Uncounted(x).conf = x.conf
        /\ Uncounted(x).codes = x.codes /\ Uncounted(x).escalate = x.escalate
  BY DEF Uncounted
<1>6. /\ r.verdict = f.verdict /\ r.conf = f.conf /\ r.codes = f.codes
      /\ r.escalate = f.escalate
  BY <1>2, <1>3, <1>4, <1>5
<1> QED BY <1>6 DEF f

LEMMA Parseable ==
  ASSUME NEW c, NEW p, NotEvaluated(c, p) = {}
  PROVE  p.rules /\ IsParsed(c) /\ ~(p.slogans /\ c.slogan)
BY DEF NotEvaluated

(* A claim in the rule engine: as it was read, if it was not extracted.     *)
LEMMA EvaluatedClaim ==
  ASSUME ReadingInv, Evaluated
  PROVE  /\ request \in Requests /\ profile \in Profiles
         /\ RulesOf(profile) \in SUBSET RuleNames
         /\ evidence = EvidenceOf(request, claim, profile)
         /\ IsParsed(claim)
         /\ OrderFree(result, RulesOf(profile), claim, evidence, profile, request.asOf)
         /\ ~extracted =>
              \E x : /\ ReadAs(request.topic, x, request.sentence,
                               Negated(request.sentence, profile),
                               StatedSpan(request.sentence, request.asOf))
                     /\ InContextOf(claim, x, request.sentence, request.asOf, profile)
<1>1. request \in Requests /\ profile \in Profiles BY DEF ReadingInv, PipelineInv, Placed
<1>2. RulesOf(profile) \in SUBSET RuleNames BY <1>1, ProfileRules
<1>3. /\ evidence = EvidenceOf(request, claim, profile)
      /\ OrderFree(result, RulesOf(profile), claim, evidence, profile, request.asOf)
  BY DEF ReadingInv, PipelineInv, EvidenceSound, ConclusionSound, Evaluated
<1>4. IsParsed(claim) BY Parseable DEF Evaluated
<1>5. ~extracted => claim = Normalize(request.sentence, request.asOf, profile)
  BY DEF ReadingInv, ClaimRead, Evaluated
<1>6. claim.type # "UNKNOWN" BY <1>4 DEF IsParsed
<1> QED BY <1>1, <1>2, <1>3, <1>4, <1>5, <1>6, NormalizeReads

(* Narrowing the evidence to the claim changes no verdict, with any rules,  *)
(* record and claim whose type projects the columns it is about.            *)
THEOREM NarrowingIsHarmless == Spec => []ProjectionPreservesVerdict
<1>1. ASSUME ReadingInv PROVE ProjectionPreservesVerdict
  <2> SUFFICES ASSUME Evaluated, request.entry # {}, extracted => WellAimed(claim),
                      claim.type \notin Narrowed
               PROVE  result.verdict
                        = Concluded(RulesOf(profile), claim,
                                    Evidence(claim, Only(request.entry).values,
                                             Only(request.entry).offer, Whole(profile)),
                                    profile).verdict
    BY DEF ProjectionPreservesVerdict, Narrowed, Whole
  <2>1. PICK record, offer : record = Only(request.entry).values
                             /\ offer = Only(request.entry).offer
    OBVIOUS
  <2>2. PICK whole : whole = Evidence(claim, record, offer, Whole(profile)) OBVIOUS
  <2>3. evidence = Evidence(claim, record, offer, profile)
    BY <1>1, <2>1, EvaluatedClaim DEF EvidenceOf
  <2>4. WellAimed(claim)
    <3>1. CASE extracted BY <3>1
    <3>2. CASE ~extracted
      BY <1>1, <3>2, EvaluatedClaim, AimedRead DEF InContextOf
    <3> QED BY <3>1, <3>2
  <2>5. ~Whole(profile).scoped
    BY DEF Whole
  <2>6. \A x \in RulesOf(profile) :
          /\ Applies(x, claim, evidence) <=> Applies(x, claim, whole)
          /\ Applies(x, claim, evidence) =>
               Evaluate(x, claim, evidence, profile, request.asOf)
                 = Evaluate(x, claim, whole, profile, request.asOf)
    <3>1. IsParsed(claim) /\ RulesOf(profile) \in SUBSET RuleNames BY <1>1, EvaluatedClaim
    <3> QED BY <2>2, <2>3, <2>4, <2>5, <3>1, SameOutcome
  <2>7. ConcludedOn(RulesOf(profile), claim, evidence, profile, request.asOf)
          = ConcludedOn(RulesOf(profile), claim, whole, profile, request.asOf)
    BY <2>6, SameConclusion
  <2>8. result.verdict
          = ConcludedOn(RulesOf(profile), claim, evidence, profile, request.asOf).verdict
    BY <1>1, EvaluatedClaim, Reported
  <2> QED BY <2>1, <2>2, <2>7, <2>8, ReadNow
<1> QED BY <1>1, ReadingInvariant, PTL

===============================================================================
