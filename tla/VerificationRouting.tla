------------------------- MODULE VerificationRouting -------------------------
(***************************************************************************)
(* The two pure policies between the rule engine and the final verdict:    *)
(* when a claim goes to the semantic rater (ConservativeEscalationPolicy)  *)
(* and which layer's verdict is reported (ConservativeDecisionEngine).     *)
(*                                                                         *)
(* Data is kept to what the two policies read.  Confidences are integer    *)
(* percentages.                                                            *)
(*   claim     [parsed, typed, conf]                                       *)
(*   evidence  [found, absent, capable]: a record was resolved, a field is *)
(*             named "<attribute>__absent", a projected field can support  *)
(*             the claim                                                   *)
(*   rules     [verdict, conf, codes, count, escalate]                     *)
(*   cfg       [enabled, onUnresolved, onMissing, blockSupport]            *)
(***************************************************************************)
EXTENDS Naturals

Verdicts == {"SUPPORTED", "CONTRADICTED", "INSUFFICIENT_EVIDENCE", "INVALID_CLAIM"}
NoVerdict == "none"

EscalationReasons ==
  {"LOW_PARSE_CONFIDENCE", "NON_TERMINAL_RULE_RESULT",
   "UNSUPPORTED_DETERMINISTIC_CLAIM_TYPE", "INSUFFICIENT_DETERMINISTIC_COVERAGE"}

MissingEvidenceCodes == {"REFERENCE_NOT_FOUND", "FIELD_NOT_IN_REFERENCE"}

IsTerminal(rules) == rules.verdict # NoVerdict /\ ~rules.escalate

MissingEvidence(rules, evidence) ==
  rules.codes \cap MissingEvidenceCodes # {} \/ evidence.absent

-----------------------------------------------------------------------------
(* Mutant: a terminal rule result is sent to the rater all the same.        *)
Withheld_NotTerminal(cfg, rules, evidence) ==
  \/ ~cfg.enabled
  \/ ~evidence.found /\ ~cfg.onUnresolved
  \/ evidence.found /\ MissingEvidence(rules, evidence) /\ ~cfg.onMissing

(* The early returns of should_rate that keep a claim away from the rater.  *)
Withheld(cfg, rules, evidence) ==
  \/ IsTerminal(rules)
  \/ ~cfg.enabled
  \/ ~evidence.found /\ ~cfg.onUnresolved
  \/ evidence.found /\ MissingEvidence(rules, evidence) /\ ~cfg.onMissing

ReasonToRate(claim, rules, evidence) ==
  IF ~evidence.found \/ MissingEvidence(rules, evidence)
  THEN "INSUFFICIENT_DETERMINISTIC_COVERAGE"
  ELSE IF ~claim.parsed \/ ~claim.typed
  THEN "UNSUPPORTED_DETERMINISTIC_CLAIM_TYPE"
  ELSE IF claim.conf < 100 /\ "LOW_CONFIDENCE_ABSTAIN" \in rules.codes
  THEN "LOW_PARSE_CONFIDENCE"
  ELSE IF rules.count = 0
  THEN "INSUFFICIENT_DETERMINISTIC_COVERAGE"
  ELSE "NON_TERMINAL_RULE_RESULT"

NotRequired == [required |-> FALSE, reason |-> "none"]

ShouldRate(cfg, claim, rules, evidence) ==
  IF Withheld(cfg, rules, evidence)
  THEN NotRequired
  ELSE [required |-> TRUE, reason |-> ReasonToRate(claim, rules, evidence)]

-----------------------------------------------------------------------------
(* The rater's verdict, or NoVerdict when it was not consulted, is the      *)
(* last argument.  "by" names the layer whose verdict is reported.          *)
Decide(cfg, evidence, rules, rated) ==
  IF IsTerminal(rules)
  THEN [verdict |-> rules.verdict, by |-> "rules"]
  ELSE IF rated # NoVerdict
  THEN IF cfg.blockSupport /\ rated = "SUPPORTED" /\ ~evidence.capable
       THEN [verdict |-> "INSUFFICIENT_EVIDENCE", by |-> "guard"]
       ELSE [verdict |-> rated, by |-> "rater"]
  ELSE IF rules.verdict # NoVerdict
  THEN [verdict |-> rules.verdict, by |-> "rules"]
  ELSE [verdict |-> "INSUFFICIENT_EVIDENCE", by |-> "abstain"]

Paths == {"DETERMINISTIC", "DETERMINISTIC_WITH_LLM_EXTRACTION", "LLM_RATER",
          "LLM_EXTRACTION_AND_RATER"}

VerificationPath(extracted, rated) ==
  IF extracted
  THEN IF rated THEN "LLM_EXTRACTION_AND_RATER" ELSE "DETERMINISTIC_WITH_LLM_EXTRACTION"
  ELSE IF rated THEN "LLM_RATER" ELSE "DETERMINISTIC"

=============================================================================
