---------------------------- MODULE CandidateReuse ----------------------------
(***************************************************************************)
(* Which predictions of a parent a candidate run takes over instead of     *)
(* making them itself: run_candidate is told which claim types the change  *)
(* affects, or that it concerns the rater only, and asks again just for    *)
(* those.  The profile of ClaimPipeline is that of the parent; what the    *)
(* candidate would have answered is worked out beside it.                  *)
(***************************************************************************)
EXTENDS ClaimPipeline

CONSTANT
  Experiments   \* [parent, child, affected, raterOnly], the profiles and the reuse policy

ClaimTypes ==
  {"PRICE", "DISCOUNT", "SHIPPING", "AVAILABILITY", "FEATURE_INCLUSION", "FEATURE_EXCLUSION",
   "SUBSCRIPTION_TERMS", "TRIAL_DURATION", "PROMOTION_DATES", "GEO_ELIGIBILITY",
   "MINIMUM_PURCHASE", "UNKNOWN"}


(* The settings of a profile, and those of its routing.                     *)
Settings ==
  {"parsing", "negation", "qualifiers", "extraction", "extractBelow", "scoped", "terms",
   "rules", "order", "slogans", "priceAbsolute", "priceRelative", "percentTolerance",
   "trialTolerance", "approximate", "grace", "allowSupported", "allowContradicted",
   "minConf", "routing"}
RoutingSettings == {"enabled", "onUnresolved", "onMissing", "blockSupport"}

Changed(settings, before, after) == {f \in settings : before[f] # after[f]}

(* The claim types a rule looks at, the dates beside other claims apart.    *)
Concerns(rule) ==
  LET priced == {"PRICE", "SUBSCRIPTION_TERMS", "SHIPPING", "MINIMUM_PURCHASE"}
  IN  CASE rule \in GateRules -> ClaimTypes \ {"UNKNOWN"}
        [] rule = "currency_match" -> priced
        [] rule = "numeric_comparison" -> priced \cup {"DISCOUNT", "TRIAL_DURATION"}
        [] rule = "free_shipping" -> {"SHIPPING"}
        [] rule = "availability" -> {"AVAILABILITY"}
        [] rule = "feature_membership" -> {"FEATURE_INCLUSION", "FEATURE_EXCLUSION"}
        [] rule = "region_eligibility" -> {"GEO_ELIGIBILITY"}
        [] rule = "billing_period" -> {"SUBSCRIPTION_TERMS"}
        [] rule = "promotion_window" -> {"PROMOTION_DATES"}
        [] rule = "active_offer_window" ->
             {"DISCOUNT", "SHIPPING", "MINIMUM_PURCHASE", "GEO_ELIGIBILITY"}

ChangedRules(e) ==
  (RulesOf(e.parent) \ RulesOf(e.child)) \cup (RulesOf(e.child) \ RulesOf(e.parent))

(* An experiment changes the rules or the gate for slogans, and names the   *)
(* claim types these look at, or it changes how the rater's word is taken.  *)
ChangesRules(e) ==
  /\ Changed(Settings, e.parent, e.child) \subseteq {"order", "slogans"}
  /\ e.parent.slogans # e.child.slogans => "UNKNOWN" \in e.affected
  /\ \A rule \in ChangedRules(e) : Concerns(rule) \subseteq e.affected
ChangesRating(e) ==
  /\ Changed(Settings, e.parent, e.child) \subseteq {"routing"}
  /\ Changed(RoutingSettings, e.parent.routing, e.child.routing) \subseteq {"blockSupport"}

(* Profiles with the extractor on are refused (_validate_inputs).           *)
ASSUME ExperimentsAssumption ==
  \A e \in Experiments :
    /\ e.affected \subseteq ClaimTypes /\ e.raterOnly \in BOOLEAN
    /\ ~e.parent.extraction
    /\ KnownOrder(e.child)
    /\ IF e.raterOnly THEN ChangesRating(e) ELSE ChangesRules(e)

(* A row of the parent that failed holds no normalized claim.               *)
Failed == stage = "failed"
Consulted == rated # Unrated

(* Mutant: the type the corpus expects is looked at, the parsed one is not. *)
Reevaluated_Expected(e, expected) ==
  IF e.raterOnly THEN Consulted \/ Failed ELSE expected \in e.affected

(* _reevaluation_ids, for the sample in hand and the type the corpus gives it. *)
Reevaluated(e, expected) ==
  IF e.raterOnly
  THEN Consulted \/ Failed
  ELSE expected \in e.affected \/ (~Failed /\ claim.type \in e.affected)

-----------------------------------------------------------------------------
(* What the candidate would make of the request: the claim and the evidence *)
(* (with which the rater is asked), whether it is asked, and the answer, if *)
(* the reply to the same question is the same.                              *)
ByChild(p) ==
  LET c == Normalize(request.sentence, request.asOf, p)
      e == IF request.entry = {}
           THEN NoEvidence(c)
           ELSE LET entry == Only(request.entry) IN Evidence(c, entry.values, entry.offer, p)
      skipped == NotEvaluated(c, p)
      r == IF skipped # {} THEN Only(skipped) ELSE Concluded(RulesOf(p), c, e, p)
      view == EvidenceView(c, e)
      d == Decide(p.routing, view, r, rated.verdict)
  IN  [claim |-> c, evidence |-> e,
       asked |-> ShouldRate(p.routing, ClaimView(c), r, view).required,
       answer |-> [verdict |-> d.verdict, by |-> d.by,
                   codes |-> Reasons(d.by, e.found, r, rated)]]

ByParent ==
  [claim |-> claim, evidence |-> evidence, asked |-> Consulted, answer |-> answer]

(* The rule for windows judges every claim that states a date, of whatever  *)
(* type (library.py:533): adding or dropping it affects them all.           *)
DatedElsewhere(e) ==
  claim.starts \cup claim.ends # {} /\ "promotion_window" \in ChangedRules(e)

(* ReuseIsSound: a prediction of the parent that a candidate takes over is  *)
(* the one it would have made, whatever type the corpus expects of the      *)
(* sample, under the policies with which the experiments were made; but for *)
(* DatedElsewhere, see the README (phase7.py _reevaluation_ids).            *)
ReuseIsSound ==
  stage = "answered" =>
    \A e \in Experiments :
      e.parent = profile /\ (\E expected \in ClaimTypes : ~Reevaluated(e, expected))
        /\ ~DatedElsewhere(e)
        => ByChild(e.child) = ByParent

=============================================================================
