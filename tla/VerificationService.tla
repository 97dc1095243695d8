------------------------- MODULE VerificationService -------------------------
(***************************************************************************)
(* HybridVerificationService: batches of claims verified concurrently by   *)
(* tasks of one event loop.                                                *)
(*                                                                         *)
(* A task runs without interruption from one await that suspends to the    *)
(* next, so one action covers everything in between.  Only four awaits     *)
(* suspend: the batch semaphore, the provider semaphore (for an extraction *)
(* or for a rating) and the provider call itself.  Normalization without   *)
(* extraction, retrieval from memory, the rules and the decision do not.   *)
(*                                                                         *)
(* What normalization, retrieval and the rules make of a claim is a        *)
(* "reading", chosen from Readings:                                        *)
(*   valid      the text passes the normalizer's input checks              *)
(*   weak       the parse is too weak to keep if an extractor is available *)
(*   named      the request carries a reference id or a SKU                *)
(*   claim, evidence, rules   as in VerificationRouting                    *)
(* The provider's transport (retries, budget) is a module of its own;      *)
(* here a call ends with an answer, a RaterError or an exception that is   *)
(* no ClaimVerificationError, after at most MaxAttempts attempts.          *)
(*                                                                         *)
(* verify called on its own, by POST /v1/claims/verify, is a batch of one. *)
(***************************************************************************)
EXTENDS VerificationRouting, FiniteSets

CONSTANTS
  Items,             \* claims
  Batches,           \* calls of verify_batch
  BatchOf,           \* the batch a claim belongs to
  AllowLlm,          \* per claim: request.allow_llm
  BatchConcurrency,  \* server.batch_concurrency
  MaxBatchItems,     \* server.max_batch_items
  MaxConcurrency,    \* llm.max_concurrency
  MaxAttempts,       \* llm.max_retries + 1
  HasRater,          \* a rater was wired
  HasExtractor,      \* llm_extraction_fallback and an extractor was wired
  Cfg,               \* the routing configuration
  Readings,          \* what a claim may turn out to be
  ProviderErrors     \* codes of the RaterErrors a call can end with

MembersOf(b) == {i \in Items : BatchOf[i] = b}

ASSUME ItemsAssumption == IsFiniteSet(Items) /\ BatchOf \in [Items -> Batches]
ASSUME LimitsAssumption ==
  /\ BatchConcurrency \in Nat \ {0}
  /\ MaxBatchItems \in Nat \ {0}
  /\ MaxConcurrency \in Nat \ {0}
  /\ MaxAttempts \in Nat \ {0}
ASSUME WiringAssumption ==
  /\ AllowLlm \in [Items -> BOOLEAN]
  /\ HasRater \in BOOLEAN /\ HasExtractor \in BOOLEAN
(* The code of VerificationTimeoutError, which is no RaterError.            *)
ASSUME ErrorsAssumption == "verification_timeout" \notin ProviderErrors
ASSUME ReadingsAssumption ==
  \A r \in Readings :
    /\ r.valid \in BOOLEAN /\ r.weak \in BOOLEAN /\ r.named \in BOOLEAN
    /\ r.rules.verdict \in Verdicts \cup {NoVerdict}
    /\ r.rules.count \in Nat
    /\ r.rules.escalate \in BOOLEAN

VARIABLES
  batch,    \* per batch: new, open, refused, answered or aborted
  pc,       \* per claim: where its task is
  reading,  \* per claim: its reading, once normalized
  extracted,\* per claim: the reading came from the extractor
  outcome,  \* per claim: what its task ended with
  slots,    \* per batch: free slots of its semaphore
  permits,  \* free permits of the provider semaphore
  metrics   \* the counters

vars == <<batch, pc, reading, extracted, outcome, slots, permits, metrics>>

-----------------------------------------------------------------------------
Calling   == {"extracting", "rating"}
Waiting   == {"extract_wait", "rate_wait"}
Suspended == Calling \cup Waiting
Ended     == {"done", "failed", "crashed"}
Places    == {"idle", "queued"} \cup Suspended \cup Ended

NoReading == [valid |-> FALSE]

Pending == [kind |-> "pending"]
Result(verdict, by, rated, path) ==
  [kind |-> "result", verdict |-> verdict, by |-> by, rated |-> rated, path |-> path]
Failure(code, at) == [kind |-> "failure", code |-> code, at |-> at]
Crash(at) == [kind |-> "crash", at |-> at]

FailureCodes ==
  ProviderErrors \cup
  {"invalid_claim", "reference_not_found", "llm_unavailable", "verification_timeout"}

Outcomes ==
  {Pending}
  \cup [kind : {"result"}, verdict : Verdicts, by : {"rules", "rater", "guard", "abstain"},
        rated : BOOLEAN, path : Paths]
  \cup [kind : {"failure"}, code : FailureCodes, at : Places]
  \cup [kind : {"crash"}, at : Calling]

InBatch(b)  == {i \in MembersOf(b) : pc[i] \in Suspended}
InProvider  == {i \in Items : pc[i] \in Calling}

-----------------------------------------------------------------------------
(* The counters of core/metrics.py, as functions from counters to counters. *)
Counters ==
  {"succeeded", "failed", "errors", "verdicts", "escalations",
   "ruleDecisions", "llmRequests", "llmFailures", "llmRetries", "batches"}

OneMore(m, names) == [c \in Counters |-> IF c \in names THEN m[c] + 1 ELSE m[c]]

RecordRules(m, r)   == [m EXCEPT !["ruleDecisions"] = @ + r.rules.count]
(* Mutant: the request is counted only once it has been answered.           *)
RecordRating_Late(m) == OneMore(m, {"escalations"})
(* Mutant: a failure is counted without its error code.                     *)
RecordFailure_NoCode(m) == OneMore(m, {"failed"})

RecordRating(m)     == OneMore(m, {"escalations", "llmRequests"})
RecordRetries(m, n) == [m EXCEPT !["llmRetries"] = @ + (n - 1)]
RecordSuccess(m)    == OneMore(m, {"succeeded", "verdicts"})
RecordFailure(m)    == OneMore(m, {"failed", "errors"})

RecordEnd(m, o) ==
  IF o.kind = "result" THEN RecordSuccess(m)
  ELSE IF o.kind = "failure" THEN RecordFailure(m)
  ELSE m

-----------------------------------------------------------------------------
Init ==
  /\ batch = [b \in Batches |-> "new"]
  /\ pc = [i \in Items |-> "idle"]
  /\ reading = [i \in Items |-> NoReading]
  /\ extracted = [i \in Items |-> FALSE]
  /\ outcome = [i \in Items |-> Pending]
  /\ slots = [b \in Batches |-> BatchConcurrency]
  /\ permits = MaxConcurrency
  /\ metrics = [c \in Counters |-> 0]

-----------------------------------------------------------------------------
(* The uninterrupted stretch from retrieval to the next await or the end.   *)
Extracts(r) == HasExtractor /\ r.weak

Unreferenced(r) == r.named /\ ~r.evidence.found

NeedsRater(r) ==
  ~Unreferenced(r) /\ ShouldRate(Cfg, r.claim, r.rules, r.evidence).required

CanRate(i) == AllowLlm[i] /\ HasRater

Decided(r, x, rated) ==
  LET d == Decide(Cfg, r.evidence, r.rules, rated)
  IN  Result(d.verdict, d.by, rated # NoVerdict, VerificationPath(x, rated # NoVerdict))

OutcomeAtOnce(r, x, at) ==
  IF Unreferenced(r) THEN Failure("reference_not_found", at)
  ELSE IF NeedsRater(r) THEN Failure("llm_unavailable", at)
  ELSE Decided(r, x, NoVerdict)

(* Mutant: the rater is consulted without regard to allow_llm.              *)
EndsAtOnce_NoLeave(i, r) == ~NeedsRater(r)

EndsAtOnce(i, r) == ~NeedsRater(r) \/ ~CanRate(i)

RulesRecorded(m, r) == IF Unreferenced(r) THEN m ELSE RecordRules(m, r)

PlaceOf(o) ==
  IF o.kind = "result" THEN "done" ELSE IF o.kind = "failure" THEN "failed" ELSE "crashed"

End(i, o) ==
  /\ pc' = [pc EXCEPT ![i] = PlaceOf(o)]
  /\ outcome' = [outcome EXCEPT ![i] = o]

Read(i, r, x) ==
  /\ reading' = [reading EXCEPT ![i] = r]
  /\ extracted' = [extracted EXCEPT ![i] = x]

(* Mutants: the slot is kept on the way out, or given back twice.           *)
ReleaseSlot_Kept(i) == slots' = slots
ReleaseSlot_Twice(i) == slots' = [slots EXCEPT ![BatchOf[i]] = @ + 2]

ReleaseSlot(i) == slots' = [slots EXCEPT ![BatchOf[i]] = @ + 1]

(* Mutant: a permit is released by a task that was still waiting for one.   *)
ReleasePermit_Always(i) == permits' = permits + 1

ReleasePermit(i) == permits' = IF pc[i] \in Calling THEN permits + 1 ELSE permits

-----------------------------------------------------------------------------
(* verify_batch: the size check, then one task per claim under gather.      *)
Submit(b) ==
  /\ batch[b] = "new"
  /\ Cardinality(MembersOf(b)) <= MaxBatchItems
  /\ batch' = [batch EXCEPT ![b] = "open"]
  /\ pc' = [i \in Items |-> IF BatchOf[i] = b THEN "queued" ELSE pc[i]]
  /\ metrics' = OneMore(metrics, {"batches"})
  /\ UNCHANGED <<reading, extracted, outcome, slots, permits>>

Refuse(b) ==
  /\ batch[b] = "new"
  /\ Cardinality(MembersOf(b)) > MaxBatchItems
  /\ batch' = [batch EXCEPT ![b] = "refused"]
  /\ metrics' = OneMore(metrics, {"errors"})
  /\ UNCHANGED <<pc, reading, extracted, outcome, slots, permits>>

(* The task gets a slot and runs to its end without suspending: the slot is *)
(* back before any other task can look at it, and no deadline can strike.   *)
RunToEnd(i) ==
  /\ pc[i] = "queued"
  /\ slots[BatchOf[i]] > 0
  /\ \E r \in Readings :
       /\ Read(i, r, FALSE)
       /\ \/ /\ ~r.valid
             /\ End(i, Failure("invalid_claim", "queued"))
             /\ metrics' = RecordFailure(metrics)
          \/ /\ r.valid /\ ~Extracts(r) /\ EndsAtOnce(i, r)
             /\ LET o == OutcomeAtOnce(r, FALSE, "queued")
                IN  /\ End(i, o)
                    /\ metrics' = RecordEnd(RulesRecorded(metrics, r), o)
  /\ UNCHANGED <<batch, slots, permits>>

(* The task gets a slot and suspends, holding it, at its first provider     *)
(* call: the extraction of a weak parse or the rating of a strong one.      *)
RunToAwait(i) ==
  /\ pc[i] = "queued"
  /\ slots[BatchOf[i]] > 0
  /\ slots' = [slots EXCEPT ![BatchOf[i]] = @ - 1]
  /\ \E r \in Readings :
       /\ r.valid
       /\ Read(i, r, FALSE)
       /\ \/ /\ Extracts(r)
             /\ pc' = [pc EXCEPT ![i] = "extract_wait"]
             /\ UNCHANGED metrics
          \/ /\ ~Extracts(r) /\ ~EndsAtOnce(i, r)
             /\ pc' = [pc EXCEPT ![i] = "rate_wait"]
             /\ metrics' = RecordRating(RecordRules(metrics, r))
  /\ UNCHANGED <<batch, outcome, permits>>

AcquirePermit(i) ==
  /\ pc[i] \in Waiting
  /\ permits > 0
  /\ permits' = permits - 1
  /\ pc' = [pc EXCEPT ![i] = IF @ = "extract_wait" THEN "extracting" ELSE "rating"]
  /\ UNCHANGED <<batch, reading, extracted, outcome, slots, metrics>>

(* The extractor's claim replaces the parse; the request stays as it was.   *)
ExtractionAnswered(i) ==
  /\ pc[i] = "extracting"
  /\ ReleasePermit(i)
  /\ \E r \in Readings :
       /\ r.valid /\ r.named = reading[i].named
       /\ Read(i, r, TRUE)
       /\ \/ /\ EndsAtOnce(i, r)
             /\ ReleaseSlot(i)
             /\ LET o == OutcomeAtOnce(r, TRUE, "extracting")
                IN  /\ End(i, o)
                    /\ metrics' = RecordEnd(RulesRecorded(metrics, r), o)
          \/ /\ ~EndsAtOnce(i, r)
             /\ pc' = [pc EXCEPT ![i] = "rate_wait"]
             /\ metrics' = RecordRating(RecordRules(metrics, r))
             /\ UNCHANGED <<outcome, slots>>
  /\ UNCHANGED batch

RatingAnswered(i) ==
  /\ pc[i] = "rating"
  /\ \E v \in Verdicts, n \in 1..MaxAttempts :
       /\ End(i, Decided(reading[i], extracted[i], v))
       /\ metrics' = RecordSuccess(RecordRetries(metrics, n))
  /\ ReleaseSlot(i)
  /\ ReleasePermit(i)
  /\ UNCHANGED <<batch, reading, extracted>>

(* Only a rating counts as an LLM failure; an extraction does not.          *)
ProviderFails(i) ==
  /\ pc[i] \in Calling
  /\ \E code \in ProviderErrors : End(i, Failure(code, pc[i]))
  /\ metrics' = RecordFailure(IF pc[i] = "rating"
                             THEN OneMore(metrics, {"llmFailures"})
                             ELSE metrics)
  /\ ReleaseSlot(i)
  /\ ReleasePermit(i)
  /\ UNCHANGED <<batch, reading, extracted>>

(* httpx can raise what the transport does not catch (a body that does not  *)
(* decode, for one); verify records nothing and lets it through.            *)
ProviderBreaks(i) ==
  /\ pc[i] \in Calling
  /\ End(i, Crash(pc[i]))
  /\ ReleaseSlot(i)
  /\ ReleasePermit(i)
  /\ UNCHANGED <<batch, reading, extracted, metrics>>

(* asyncio.timeout cancels the task at the await it is suspended in; the    *)
(* semaphores it holds are released as the cancellation unwinds.            *)
Expire(i) ==
  /\ pc[i] \in Suspended
  /\ End(i, Failure("verification_timeout", pc[i]))
  /\ metrics' = RecordFailure(metrics)
  /\ ReleaseSlot(i)
  /\ ReleasePermit(i)
  /\ UNCHANGED <<batch, reading, extracted>>

(* Mutant: the batch is answered when its last task has started.            *)
Answer_Early(b) ==
  /\ batch[b] = "open"
  /\ \A i \in MembersOf(b) : pc[i] \notin {"queued", "crashed"}
  /\ batch' = [batch EXCEPT ![b] = "answered"]
  /\ UNCHANGED <<pc, reading, extracted, outcome, slots, permits, metrics>>

Answer(b) ==
  /\ batch[b] = "open"
  /\ \A i \in MembersOf(b) : pc[i] \in {"done", "failed"}
  /\ batch' = [batch EXCEPT ![b] = "answered"]
  /\ UNCHANGED <<pc, reading, extracted, outcome, slots, permits, metrics>>

(* gather hands the first exception to its caller and cancels nothing.      *)
Abort(b) ==
  /\ batch[b] = "open"
  /\ \E i \in MembersOf(b) : pc[i] = "crashed"
  /\ batch' = [batch EXCEPT ![b] = "aborted"]
  /\ UNCHANGED <<pc, reading, extracted, outcome, slots, permits, metrics>>

-----------------------------------------------------------------------------
Start(i) == RunToEnd(i) \/ RunToAwait(i)

Provider(i) ==
  ExtractionAnswered(i) \/ RatingAnswered(i) \/ ProviderFails(i) \/ ProviderBreaks(i)

Next ==
  \/ \E b \in Batches : Submit(b) \/ Refuse(b) \/ Answer(b) \/ Abort(b)
  \/ \E i \in Items : Start(i) \/ AcquirePermit(i) \/ Provider(i) \/ Expire(i)

(* The event loop runs every task that can run and fires every timer; the   *)
(* provider owes nothing.                                                   *)
Fairness ==
  /\ \A i \in Items : WF_vars(Start(i)) /\ WF_vars(Expire(i))
  /\ \A b \in Batches : WF_vars(Answer(b) \/ Abort(b))

Safety == Init /\ [][Next]_vars
Spec == Safety /\ Fairness

-----------------------------------------------------------------------------
(* Type correctness of the state.                                           *)
TypeOK ==
  /\ batch \in [Batches -> {"new", "open", "refused", "answered", "aborted"}]
  /\ pc \in [Items -> Places]
  /\ reading \in [Items -> Readings \cup {NoReading}]
  /\ extracted \in [Items -> BOOLEAN]
  /\ outcome \in [Items -> Outcomes]
  /\ slots \in [Batches -> 0..BatchConcurrency]
  /\ permits \in 0..MaxConcurrency
  /\ metrics \in [Counters -> Nat]

(* No path out of a task leaks or doubles a slot of its batch's semaphore:  *)
(* the free slots and the suspended tasks always add up to the limit, even  *)
(* after deadlines, provider errors and exceptions nobody catches.          *)
SlotsAccounted ==
  \A b \in Batches : slots[b] + Cardinality(InBatch(b)) = BatchConcurrency

(* The same for the provider's semaphore, which all batches share: a task   *)
(* cancelled while it waits for a permit gives none back, a task cancelled  *)
(* during its call gives back exactly one.                                  *)
PermitsAccounted == permits + Cardinality(InProvider) = MaxConcurrency

FailedWhile(places) ==
  {i \in Items : outcome[i].kind = "failure" /\ outcome[i].at \in places}

(* The request counters agree with what callers were told: one success and  *)
(* one verdict per result, one failure and one error code per failed claim, *)
(* one error per refused batch, and nothing for a task that crashed.        *)
RequestsAccounted ==
  /\ metrics["succeeded"] = Cardinality({i \in Items : outcome[i].kind = "result"})
  /\ metrics["verdicts"] = metrics["succeeded"]
  /\ metrics["failed"] = Cardinality(FailedWhile(Places))
  /\ metrics["errors"] =
       metrics["failed"] + Cardinality({b \in Batches : batch[b] = "refused"})

(* Every rating asked for is counted once, before the call, and only a      *)
(* RaterError of the rating call is a counted LLM failure: ratings cut off  *)
(* by the deadline or by an unexpected exception are requests without an    *)
(* end, which is the gap between the three counters.                        *)
RatingsAccounted ==
  LET open  == {i \in Items : pc[i] \in {"rate_wait", "rating"}}
      rated == {i \in Items : outcome[i].kind = "result" /\ outcome[i].rated}
      dead  == FailedWhile({"rate_wait", "rating"})
      late  == {i \in dead : outcome[i].code = "verification_timeout"}
      broke == {i \in Items : outcome[i].kind = "crash" /\ outcome[i].at = "rating"}
  IN  /\ metrics["llmRequests"] = Cardinality(open \cup rated \cup dead \cup broke)
      /\ metrics["escalations"] = metrics["llmRequests"]
      /\ metrics["llmFailures"] = Cardinality(dead \ late)
      /\ metrics["llmRetries"] <= (MaxAttempts - 1) * Cardinality(rated)

(* A model never overrules the rules and is never asked without leave: a    *)
(* terminal rule result is the verdict whatever the provider does, a rater  *)
(* speaks only for a claim that allows it and needs it, and without a       *)
(* rating the verdict is the rules' or an abstention.                       *)
VerdictGrounded ==
  \A i \in Items : outcome[i].kind = "result" =>
    LET rules == reading[i].rules
    IN  /\ IsTerminal(rules) => outcome[i].verdict = rules.verdict /\ ~outcome[i].rated
        /\ outcome[i].rated => CanRate(i) /\ NeedsRater(reading[i])
        /\ ~outcome[i].rated =>
             outcome[i].verdict = IF rules.verdict = NoVerdict
                                  THEN "INSUFFICIENT_EVIDENCE" ELSE rules.verdict

(* An outage of the provider reaches no claim that does not need it: only a *)
(* claim that was extracted or had to be rated can time out, fail with a    *)
(* provider's error or crash.                                               *)
OutageContained ==
  \A i \in Items :
    (pc[i] \in Suspended \/ (pc[i] \in {"failed", "crashed"} /\ outcome[i].at \in Suspended)) =>
      Extracts(reading[i]) \/ extracted[i] \/ (CanRate(i) /\ NeedsRater(reading[i]))

(* Whatever the provider does, and with every slot held by a task that      *)
(* waits for it, an accepted batch comes to an end, all its tasks too, and  *)
(* its semaphore is whole again.                                            *)
BatchDrains ==
  \A b \in Batches :
    batch[b] = "open" ~>
      /\ batch[b] \in {"answered", "aborted"}
      /\ \A i \in MembersOf(b) : pc[i] \in Ended
      /\ slots[b] = BatchConcurrency

-----------------------------------------------------------------------------
(* The service keeps the contract of verify_batch.                          *)
Reply(i) ==
  CASE pc[i] = "done" -> "result"
    [] pc[i] = "failed" -> "failure"
    [] pc[i] = "crashed" -> "lost"
    [] OTHER -> "none"

Contract == INSTANCE VerificationContract
  WITH phase <- batch, reply <- [i \in Items |-> Reply(i)]

(* Every claim of an accepted batch is settled exactly once, the batch is   *)
(* answered only with all of them and aborted only for one of its own.      *)
KeepsContract == Contract!CSafety

-----------------------------------------------------------------------------
(* RaterError's documentation: "A rater failure degrades the pipeline to    *)
(* its deterministic verdict where one exists; it does not fail the request *)
(* outright."  verify re-raises the error, so the request does fail, also   *)
(* when the rules had a verdict.                                            *)
RaterFailureDegrades ==
  \A i \in FailedWhile({"rating"}) :
    outcome[i].code \in ProviderErrors => reading[i].rules.verdict = NoVerdict

=============================================================================
