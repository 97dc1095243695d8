----------------------------- MODULE RaterAdapter -----------------------------
(***************************************************************************)
(* The boundary to the models: which replies to a rating the adapters of   *)
(* Ollama and OpenAI accept, which they refuse and with which error, and   *)
(* which the schemas they send along admit.                                *)
(*                                                                         *)
(* A reply is                                                              *)
(*   json     is the text JSON?                                            *)
(*   shaped   is it an object that has the four fields and no other, of    *)
(*            their types and within their bounds?                         *)
(*   verdict, codes   two of the fields, codes as a sequence               *)
(***************************************************************************)
EXTENDS VerificationRouting, Sequences

MismatchCodes ==
  {"PRICE_MISMATCH", "DISCOUNT_MISMATCH", "FEATURE_MISMATCH", "DATE_MISMATCH",
   "REGION_MISMATCH", "SHIPPING_MISMATCH", "AVAILABILITY_MISMATCH", "TERMS_MISMATCH"}

AbstentionCodes ==
  {"REFERENCE_NOT_FOUND", "AMBIGUOUS_LANGUAGE", "INSUFFICIENT_EVIDENCE",
   "UNSUPPORTED_INFERENCE"}

RaterCodes == MismatchCodes \cup AbstentionCodes

CodesOf(reply) == {reply.codes[i] : i \in DOMAIN reply.codes}
NoDuplicates(reply) ==
  \A i, j \in DOMAIN reply.codes : reply.codes[i] = reply.codes[j] => i = j

-----------------------------------------------------------------------------
(* SemanticRatingPayload.                                                   *)

VerdictMatchesReasons(reply) ==
  LET codes == CodesOf(reply)
  IN  /\ reply.verdict = "SUPPORTED" => codes = {}
      /\ reply.verdict = "CONTRADICTED" =>
           codes \cap MismatchCodes # {} /\ codes \cap AbstentionCodes = {}
      /\ reply.verdict = "INSUFFICIENT_EVIDENCE" => codes \cap MismatchCodes = {}

Accepts(reply) ==
  /\ reply.json /\ reply.shaped
  /\ reply.verdict \in Verdicts
  /\ CodesOf(reply) \subseteq RaterCodes
  /\ NoDuplicates(reply)
  /\ VerdictMatchesReasons(reply)

(* The error rate raises for a reply it does not accept.                    *)
Refusal(reply) ==
  IF reply.json THEN "RaterSchemaValidationError" ELSE "RaterInvalidResponseError"

-----------------------------------------------------------------------------
(* OLLAMA_RATING_JSON_SCHEMA, one branch per verdict: the codes it lists,   *)
(* and how many at least; a branch that lists none allows none.             *)
Branch(verdict, codes, least) == [verdict |-> verdict, codes |-> codes, least |-> least]

OllamaSchema ==
  {Branch("SUPPORTED", {}, 0), Branch("CONTRADICTED", MismatchCodes, 1),
   Branch("INSUFFICIENT_EVIDENCE", AbstentionCodes, 0), Branch("INVALID_CLAIM", RaterCodes, 0)}

OllamaAdmits(reply) ==
  /\ reply.json /\ reply.shaped
  /\ NoDuplicates(reply)
  /\ \E b \in OllamaSchema :
       /\ reply.verdict = b.verdict
       /\ CodesOf(reply) \subseteq b.codes
       /\ Len(reply.codes) >= b.least

(* RATING_JSON_SCHEMA, which OpenAI is sent, does not relate the two.       *)
OpenAIAdmits(reply) ==
  /\ reply.json /\ reply.shaped
  /\ NoDuplicates(reply)
  /\ reply.verdict \in Verdicts
  /\ CodesOf(reply) \subseteq RaterCodes

=============================================================================
