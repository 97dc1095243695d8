# Verification of the claim verification pipeline

TLA+ models of the service in `src/app`: what it does with a commercial claim from the HTTP
request to the verdict, and what surrounds that (provider transports, catalog, evaluation runs).
TLC checks the models on small instances; TLAPS proves the safety properties of the service, the
deterministic layer, the provider transports, the evaluation runs, the catalog and the API edge, and
three refinements, for all values of their parameters. `PROJECT.json` maps each definition to the
lines of `src` it stands for, and lists runs, mutants, hazards, findings and theorems.

## The system

| component (under `src/app`) | state | operations | what is hard about it |
|---|---|---|---|
| `verification/service.py` | batch semaphore, counters, one task per claim | `verify`, `verify_batch` | tasks interleave at awaits; a deadline cancels a task anywhere; one task's exception leaves `gather` |
| `verification/escalation.py`, `decision.py` | none | `should_rate`, `decide` | verdict combines rules before and rating after an await |
| `normalization/` | none per claim (feature vocabulary, built once) | `normalize` | cascade of matchers, negation, hedges, dates without a year |
| `retrieval/repository.py`, `evidence.py` | records, indices and postings, built once | `from_jsonl`, `get_by_*`, `search`, `retrieve` | first-writer-wins indices, ladder of identifiers, ranked search, claim-scoped projection |
| `rules/` | none | `evaluate` | eleven rules, gates that end the evaluation, reconciliation, tolerances, dates |
| `raters/ollama.py`, `transport.py` | provider semaphore, HTTP pool | `chat`, `create` | budget over queueing, attempts and backoff; cancellation at any of them |
| `raters/schemas.py`, the adapters | none | `rate`, `extract` | a reply passes a schema sent along and then a validator, kept apart by hand |
| `evaluation/runner.py`, `phase7.py` | files of the output directory | `run_evaluation`, `run_candidate` | crash between any two writes, resumption, inputs that change meanwhile, reuse of parent rows |
| `evaluation/baseline.py` | the frozen snapshot | freeze, validate | a tree that is edited or committed while it is looked at |
| `api/`, `main.py`, `bootstrap.py` | container, request id in a context variable | routes, two middlewares, exception handlers, lifespan | identity of concurrent requests and of the claims of a batch, start and stop |
| `core/metrics.py` | counters | `record_*` | must agree with what callers were told |
| `evaluation/metrics.py`, `reporting.py` | none | `calculate_metrics`, `error_analysis` | arithmetic over the rows of a run |
| `evaluation/{generator,dev_corpus,validator}.py`, `datagen/` | none | one-shot generators | not concurrent, no state |

The API hands each request to the service, a batch as a list; the service starts one task per
claim, each going through normalizer, retriever, rules, escalation, perhaps the rater, and the
decision. Tasks share the batch semaphore, the provider semaphore inside the transport and the
counters. The evaluation runner calls the same `verify_batch` with a container of its own and keeps
what comes back in a checkpoint file.

What makes each part correct: slots and permits are never lost and never doubled, callers and
counters are told the same, every accepted batch ends (service); a settled verdict is true of the
record, silence is not denial, order of rules is irrelevant (pipeline); a call keeps its budget, its
permit and its number of attempts (transport); rows made from the inputs of one identity only, each
sample once, in order, through any crash and any edit, and no row taken over that the change could
have altered (evaluation); an index that does not depend on the order of the file and
a record that is the one asked for (catalog); every line and answer under the id of the request or
claim it is about, and a shutdown that ends and cuts off no claim anybody still waits for (API edge).

## Modules

| module | models | how its state corresponds to the code |
|---|---|---|
| `VerificationRouting` | `escalation.py`, `decision.py` | pure operators `ShouldRate`, `Decide`, shared by the next two groups |
| `VerificationContract` | what `verify_batch` promises | abstract; per batch a phase, per claim at most one reply |
| `VerificationService` | `service.py` with the semaphores of the transport and the counters of `metrics.py` | `pc` is the await a claim's task is suspended at, `slots` the batch semaphore, `permits` the provider semaphore, `metrics` the counters, `reading` what normalization, retrieval and rules make of the claim |
| `VerificationServiceProofs` | theorems about it | |
| `Calendar` | `datetime.date` as the code uses it | a short year with a leap day, given by constants |
| `DateReading` | dates and spans of `units.py` | which form matches, which year is guessed from the day of evaluation, where a span ends |
| `SentenceFindings` | what the detectors (`units.py`, `regions.py`, `features.py`, `qualifiers.py`, the cue lists) can return | the record a sentence is reduced to, and which combinations the vocabularies allow |
| `ClaimParser` | `claim_parser.py`, `negation.py`, `qualifiers.py`, `extractor.py` as the parser uses it | `Normalize` is the cascade of matchers, polarity, hedge, confidence |
| `RuleLibrary` | `library.py`, `base.py`, `evidence.py` (projection) | one operator per rule, three-valued comparisons |
| `ClaimMeaning` | no code: what a reader takes the sentence to say | the specification the pipeline is compared with |
| `RaterAdapter` | `schemas.py` and the two adapters | pure operators: what a reply of the model is, what the validator accepts, what each schema admits, which error refuses it |
| `ClaimPipeline` | `engine.py` one rule at a time, `service._verify` around it, the rater asked through `RaterAdapter` | `stage`, `pending` (rules to try), `outcomes`, `result`, `rated`, `answer` |
| `CandidateReuse` | `phase7._reevaluation_ids` over the same pipeline | `Reevaluated` is the policy, `ByChild` what the candidate would have made of the request, `ByParent` what is taken over |
| `ClaimPipelineProofs` | theorems about the pipeline and about `RaterAdapter`: how a sentence is parsed, what the rules make of it, projection | |
| `ClaimTruthProofs` | theorems that compare the verdict with `ClaimMeaning`, and a candidate with its parent | |
| `ProviderContract` | what a caller may expect of a provider call | abstract; bounded concurrency, attempts, one end |
| `ProviderTransport` | `OllamaTransport` (`budgeted`) and `OpenAIResponsesTransport` | per call its place, attempt, deadline, timer; a clock in ticks; a FIFO `queue` for the semaphore, which a cancelled call leaves from wherever it stands |
| `ProviderTransportProofs` | theorems about it | |
| `EvaluationLedger` | what a measurement is | abstract; recorded rows only grow |
| `EvaluationInputs` | `baseline.py`, the identities of `phase7.py`, and the world they describe | `current` content of each input, `history` of commits, the frozen `snapshot`, `freezing` |
| `EvaluationCheckpoint` | `runner.py`, `phase7.py` under changing inputs | `disk` per file; process memory lost in a crash (`identity`, `loaded`, `rows`, `pending`, `position`); `at`, the next read or write |
| `EvaluationCheckpointProofs` | theorems about it | |
| `CatalogIndex` | `repository.py` loading, lookup and search, `evidence._resolve` | three dictionaries and the postings filled line by line, then requests |
| `CatalogIndexProofs` | theorems about it | |
| `ApiEdge` | `middleware.py`, `errors.py`, `routes/`, `dependencies.py`, `main.py`, `bootstrap.aclose` | per request where it is (`at`), its `id`, the id `bound` in its context and in that of each claim's task, its `reply`; the lines of the `log`; the life of `process` and `pool` |
| `ApiEdgeProofs` | theorems about it | |
| `Arrangement` | Python's `sorted()`, used by the catalog and the runs | pure: the k-th of a set in an order is the one that k - 1 come before |
| `CountingLemmas` | no code: cardinalities when one member moves, and what `Arrange` returns | lemmas |
| `MC*` | | constants of the instances |

Composition: `ClaimPipeline` is built from `ClaimParser` (on `SentenceFindings` and `DateReading`),
`RuleLibrary`, `VerificationRouting`, `RaterAdapter`, and `CandidateReuse` runs it under two profiles
at once;
`VerificationService` uses the same `VerificationRouting` and abstracts the rest of the pipeline to
a reading, chosen from a set. `ProviderTransport` implements `ProviderContract` and
`VerificationService` treats a provider call as that contract allows. `ApiEdge` takes from the
service that each claim of a request calls the provider or does not, and completes, fails or crashes,
in a task of its own, which an exception of another claim leaves running.
`EvaluationCheckpoint` is a process that reads the world of `EvaluationInputs` while others change
it; that what a candidate inherits is right is a question about the pipeline, hence `CandidateReuse`.

### Why steps are as large as they are

asyncio runs a task from one suspending `await` to the next without interruption. In `verify` only
the batch semaphore, the provider semaphore and the provider call suspend, so an action of
`VerificationService` covers all the code in between, counters included. `ClaimPipeline` splits the
same code finely, because its question is what each step does to the verdict, not who interleaves.
`EvaluationCheckpoint` has a step per file written, because a crash may come between any two, and
one per read of an input, because an edit may.

### What stands for what

Hashes stand for their contents, commits for their place in the history. The weights of the lexical
search are the logarithms of the code times ten, rounded: that `DominantRecordWins` holds depends only
on their being positive, as its proof shows. The code adds floats in an order that may make two equal
scores differ in the last place, which the model does not follow; it compares exact ratios and breaks
ties by identifier. A record of `CatalogIndex` has its SKU twice, as the key it is squashed to and as
the `label` it is folded to among the names. A sentence is the record of what the detectors find in it; an extraction is a member of the CONSTANT
`Extractions`.

## Runs

| run | question | instance |
|---|---|---|
| `service` | do slots, permits, counters and replies stay consistent in all interleavings of deadlines, provider errors and stray exceptions, and does every accepted batch end? | three batches: two claims (one forbids the LLM), one claim, and one above the limit; one slot, one permit; all readings |
| `service_degrade` (violation) | does a rater failure leave the deterministic verdict standing? | the same |
| `pipeline` | is a settled verdict true of the record, do its reasons fit it, and does an experiment take over only what it would have concluded? | sentences of every claim type against records that agree, differ, border, are silent; nine profiles: eight that are shipped, five of them candidates of the experiments, and one with the rules backwards and a day of grace; every kind of reply of the rater |
| `pipeline_negation` (violation) | do a claim and its denial get opposite verdicts? | trials of stated length and their denials |
| `pipeline_dates` (violation) | can a guessed year make an accurate window wrong? | windows across the turn of the year |
| `transport` | are permit, attempts, budget and end of a call right under every timing? | two calls, one permit, three attempts, both transports |
| `transport_budget` (violation) | is the timeout a total budget? | Ollama alone |
| `checkpoint` | does what is on disk stay one ordered measurement of committed inputs through crashes, failures, edits, commits and freezes? | three samples, batches of two verified one at a time, one of them inherited, both programs; profile, catalog, dataset and model with two contents, two changes, one setback |
| `catalog` | do lookups depend on records only, does the record that shares more win, and is what was asked answered? | every file of up to two lines over records that share keys in every way, and files of seven products, the fewest of which two can share a word that is not too common |
| `catalog_aliases` (violation) | can an alias shadow a name? | the same |
| `edge` | does everything a request leaves behind carry its id, are claims of batches told apart, does the closing of the pool cut off only claims nobody waits for, and does the shutdown end? | two interleaved requests of thirteen shapes, three claims at most where two are allowed, both kinds of provider, start and stop at any time |
| `edge_ids` (violation) | does every failure carry a request id? | the same |

Bounds. A shared semaphore with one unit and two contenders of one batch and one of another is the
smallest instance in which a leak, a double release and a wait across batches can happen; the
theorems remove the bound for the safety part. The transport needs two calls (one waits for the
permit of the other) and three attempts (so that the backoff doubles). The
checkpoint needs a batch that is neither the whole corpus nor a single verification group, a run
interrupted after a batch, and two changes: one that spoils the input and one that restores it or
meets a commit. `source` is read where the profile of a candidate is, `prompts` where the catalog
is, and the settings are only compared; these three are left constant in the instance. An index
conflict is between two records,
and so is a confusion of two requests; both may bring the same `X-Request-ID`. The calendar of the
instance has ten days, one of them a leap day in every second year, and the day of evaluation lies so
that windows cross the turn of the year: every comparison in the code is relative to that day, the
length of the year and the 120 days of tolerance, which are constants.
Counters are bounded by the number of claims; `MaxChanges`, `MaxSetbacks`, `Trickles`, `LastEntry` and
`MaxClaims` are the named bounds.

Deadlock is checked except in the runs of the service and of the API edge, which stop when all batches
have been answered and when the process has ended.

### Fairness

* Service: the event loop runs ready tasks, and `asyncio.timeout` fires: weak fairness of `Start`
  (the semaphore wakes its waiters), of `Expire` (the deadline of each verification) and of the
  batch's end. The provider owes nothing: no fairness on its answers or on handing out permits, so
  `BatchDrains` rests on the deadline alone, as it does in the code.
* Transport: the clock, timers and the semaphore's hand-over; the provider owes nothing.
* API edge: the event loop runs what is ready, claims end (`BatchDrains` of the service), the drained
  process closes. Clients owe nothing: no fairness on arrivals or on `ReadBody`. A request waits at
  "reading" for a body its client has yet to send, in the middleware when no length was declared and
  at the route when one was, and uvicorn, configured without a limit, waits with it. `ShutdownEnds` is
  therefore conditional: a shutdown ends if every client that owes a body sends it sooner or later.
* Evaluation: a process that runs goes on, and an operator starts it again. `EventuallyReported` is
  conditional on inputs that are in the end those the checkpoint was begun with, since others are
  refused by design. No fairness on edits, commits and freezes.

### Windows

A check and the use of what it checked are apart in the evaluation: `build_container` reads catalog
and prompts again after the preflight, `load_dataset` and the hash of the dataset are two reads, the
identity of a candidate is described after its preflight, and the model is asked by name for every
call. An edit inside such a window is not noticed. `Window` names each of them, `raced` remembers that
one was hit, and `IdentityBound` and `CommittedInputs` say that nothing else can spoil a measurement:
not an edit at any other time, a crash, a commit, nor a freeze.

## Proofs

Each theorem holds for all values of the constants that satisfy the ASSUMEs of its module; TLC evaluates
these in the runs.

| module | theorems | for every |
|---|---|---|
| `VerificationServiceProofs` | `ServiceTypeCorrect`, `SlotsNeverLeak`, `PermitsNeverLeak`, `RequestCountersTrue`, `RatingCountersTrue`, `VerdictsAreGrounded`, `OutagesAreContained`, `ServiceKeepsContract` | finite set of claims, partition into batches, limits, set of readings and provider errors |
| `ClaimPipelineProofs` | `PipelineTypeCorrect`, `VerdictsIgnoreRuleOrder`, `AnswersAreReasoned`, `SupportIsGrounded`, `NarrowingIsHarmless`, `GrammarExact`, `OpenAIWeaker` | sentence, record, profile, extraction and reply of the rater, with any sequence of codes |
| `ClaimTruthProofs` | `SilenceIsLeftOpen`, `VerdictsAreRight`, `TakenOverIsRight` | sentence, record, calendar, day of evaluation, thresholds, set of enabled rules, experiment |
| `ProviderTransportProofs` | `TransportTypeCorrect`, `TransportPermitsNeverLeak`, `NoAnswerIsLate`, `EveryAttemptIsMade`, `OverrunIsBounded`, `TransportKeepsContract` | finite set of calls, number of permits and retries, budget, timeouts, backoff |
| `EvaluationCheckpointProofs` | `CheckpointTypeCorrect`, `PredictionsAreBound`, `InputsAreCommitted`, `EachSampleOnceInOrder`, `ResumptionSucceeds`, `SummaryMeansComplete`, `RunsKeepTheLedger` | corpus, size of batches and of groups, inherited part, number of crashes and changes |
| `CatalogIndexProofs` | `CatalogTypeCorrect`, `KeysLeadToTheFirst`, `AnswersAreExplained`, `TheDominantRecordWins` | catalog, order of its lines, request |
| `ApiEdgeProofs` | `EdgeTypeCorrect`, `EveryLineIsItsOwn`, `OnlyOrphansLoseThePool` | number of requests, ids and claims, concurrent or not |

Besides these, each state machine has a theorem that its inductive invariant holds (`...Invariant`).

### The inductive invariants

Hardly any property is inductive as it stands. TLC has checked each of the following invariants on the
instance of its run; the proof shows that `Init` establishes it and each action keeps it, and that it
implies the property.

* `ServiceInv`. That a deadline may give back a slot only of a batch that is open, and that an ended task
  has no reading still waited for, needs to know how places, phases, readings and outcomes go together:
  `ReadBeforeAwait` (a task beyond normalization has a reading) and `PhaseMatches` (a task's place fits
  the phase of its batch). Each action moves a task between places (`...Moves` lemmas); `SemaphoreStep`
  turns a move into the change of a semaphore.
* `AccountsInv` adds what a task's outcome says about its reading (`TasksSound`, one task at a time), and
  every counter as the size of a set of tasks (`CountersMatch`). Each action is shown to change the
  counters by the number of tasks that enter those sets (`Tally`, `CountsFollow`): this is where
  a counter raised twice, or not at all on one of the ways out, would show.
* `PipelineInv`. The engine stops at the first gate that closes, so its result could depend on the order
  of the rules. It does not, because the two gates exclude each other (`OneGateCloses`: one closes only
  when there is nothing to compare with, the other applies only when there is), and because the rest is
  reconciled from the set of the outcomes, which at each moment is what the rules tried so far say
  (`RulingSound`). That the answer's reasons fit its verdict starts at the rules, none of which gives a
  reason of the wrong kind (`EvaluateSound`), and is carried through reconciliation, the confidence gate
  and the early returns (`ReconciledSound`, `GatedSound`, `NotEvaluatedSound`); a reply of the rater is
  covered by what the adapter accepts (`AcceptedFits`). Reconciliation picks the highest and lowest
  confidence of a set that may be of any size: rules give one of four (`Extremes`). A result is within
  bounds because the parse is (`NormalizeBounded`, one case per matcher).
* `ReadingInv` adds where things come from: the claim is the normalizer's as long as no extraction
  replaced it (`ClaimRead`), a result no rule gave is one of the early returns (`ResultGiven`), and the
  rater was asked exactly when the policy asks (`RatingAsked`). With that the next four theorems are
  about functions of the request, and need no induction of their own.
* `TransportInv`. `OverrunBounded` rests on how far the timer of the present phase may reach beyond the
  deadline (`TimerSound`): each attempt gets what is left of the budget, hence a connection that stands
  late can only be one `ConnectTimeout` late. `PersistsWhileItMay` rests on the number of attempts behind
  each place (`AttemptsSound`). The queue holds each waiting call once (`QueueMatches`), also after one
  was cancelled in the middle.
* `CheckpointInv` says what the disk may hold (`DiskSound`), which part of the checkpoint memory extends
  at each place (`MemorySound`), and with which inputs the identity in use agrees at each place as long as
  no window was hit (`InputsSound`, `Preparing` before there is an identity). Two facts had to be found:
  every report is the complete checkpoint from the moment it is written, so writing the reports again
  cannot make two of them differ; and before a batch is saved, memory is the checkpoint followed by the
  verified part of that batch (`InFlight`), so a batch that is lost in a crash is done again in the same
  order. `OrderRows` sorts by position in the corpus: `OrderRowsProperties`.
* `CatalogInv`: during the indexing each key leads to the first of the records indexed so far (`Leads`),
  and all of these precede those still to come. The second half is what makes the first writer the first
  in the catalog, and it is what the sort of `_index` is for (`IndexOrderProperties`).
* `SearchInv`: the postings of a word are the records that have it. The weight of a set of words is
  counted as units (`Units`), of which each word has its own, so that the weights of disjoint sets add up
  (`MassAdds`) and a set grows with each word that weighs anything (`MassGrows`). Every word of a record
  does (`WordsWeigh`). Hence a dominant record has at least the matched weight and at most the unmatched
  one, and one of the two strictly, which makes its score higher (`DominantIsAbove`; `MoreOfTheQuery` is
  the arithmetic of the two ratios). It is also a candidate, through the same word as the record it
  dominates. The scores order the candidates (`AboveIsAnOrder`), and a finite order has a first
  (`BestIsFirst`): so the record found is not a dominated one, whatever the weights and the cuts.
* `EdgeInv` says it of one request at a time (`RequestSound`): which id is bound in its task and those
  of its claims, and what its answer and the log say. A line is written only once its request has come in
  (`LinesSound`), which fixes the id it is compared with; `StepKeepsInv` shows that a step of one request
  leaves all others as they were. That closing the pool cuts off orphans only rests on `ClaimsSound`:
  `gather` returns when no claim of the batch is left running, unless an exception left it, and then the
  request was answered `internal_error`. Such a request does not hold up the drain, and its claims do
  run on into a closed pool.

### What a verdict is worth

Four theorems rest on `ReadingInv`, and three of them on how each matcher reads its sentence. `ReadAs`
is a table of that, one row per subject; `MatchersRead` checks it against the matchers, `ClassifyReads`
against their cascade, and `NormalizeReads` carries it over polarity, hedge and confidence.

* `NarrowingIsHarmless`. Rule by rule, what is read of the record is in the projection of the claim
  (`SameOutcome`): so the outcomes are the same, and hence the verdict.
* `SilenceIsLeftOpen`. Field presence ends the evaluation when the column of the claim is not populated
  (`NothingKnown`), so a definite verdict is about a value the record has (`ColumnPresent`), of which the
  meaning of the sentence is never open (`KnownJudgements`, `ValueKnown`). Two subjects are told by more
  than a column. Features need the rule for them to have spoken, and the rule for windows never speaks
  beside it, since the matcher for features comes after the one for dates and sees no date
  (`FeatureUndated`). Dates need one of two columns, in the role in which the date is read (`DatesKnown`,
  `RoleRead`).
* `VerdictsAreRight`. For each rule a lemma `...Truthful` that its outcome is what `ClaimMeaning` says,
  given a claim `InHand`: read as in the table, of a record that holds its column. Numbers are
  compared with one slack on both sides (`SameSlack`, `NumbersCompared`), dates by the distance of two
  days within the grace (`DaysCompared`); without a grace no turn of the year is near
  (`NoGraceNoTurn`). A contradiction is that of one rule
  (`ContradictionTruthful`): the value, the stated window or the offer is
  false, and any of the three makes the sentence so (`WindowFalse`, `OfferFalse`). A support needs more
  than the rule that gives it: no other rule that looks at the claim objects (`NoObjection`), hence the
  value is as stated (`ValueSupported`), the window is not another (`WindowUnopposed`) and the offer not
  closed (`OfferUnopposed`). `DoubtKept`: where the polarity is doubtful nothing is settled.
* `TakenOverIsRight`. A rule is concerned with some types only (`Unconcerned`), so for the others the old
  and the new set of rules have the same outcomes; `SloganUnread` does the same for the gate for slogans,
  `SameRouting` for the guard on support.

Two statements had to change before they were true for every value. A window that is moved by 365
days may end on the day the sentence names and in a year it does not name, which `DatesRead` now
excludes. And the instance had no profile with the rule for offers and evidence that is not
narrowed: under it a closed offer contradicts denials too, so `PromiseRead` was added to the
property, and `Candidate05` and the requests about offers to the instance.

### The refinements

`ServiceKeepsContract`, `TransportKeepsContract` and `RunsKeepTheLedger` map each action to a step of the
abstract specification or to a stutter, under the invariants above. A service batch that fails maps to
the contract's failure, an admission to a begin as long as there is room
(`RoomWhilePermits`), a saved batch to a record of new samples (`SaveRecords`), the summary to a
publication (`ReportPublishes`).

`GrammarExact`: the schema sent to Ollama, an `oneOf` with a branch per verdict, admits exactly the
replies the validator accepts, although the two are written apart. One case per verdict; that a sequence
has a code at all, which the schema says by its length and the validator by its content, is the lemma
`SomeCode`. `OpenAIWeaker`: the schema sent to OpenAI admits those and some others, which the adapter
refuses.

### What the theorems assume

Limits are positive numbers, the sets of claims and calls finite, the corpus without repetition.
Beyond that: a deadline is not one of the provider's errors (`ErrorsAssumption`; the service raises
it, not the transport); a file that is missing or torn is not taken for rows or for an identity
(`FilesAssumption`); a profile lists known rules, none twice, as `engine.py` and
`pipeline_config.py` refuse any other (`RuleOrderAssumption`), with thresholds that are not negative
(`ToleranceAssumption`); the detectors find only what their vocabularies allow, and a column that
holds one value holds a number, a date of the calendar or a status, as `ReferenceRecord` has it
(`RequestAssumption`); the subject of a sentence is the one its first matcher is about
(`TopicAssumption`): whether another matcher should have come first is a question about English, so
no property answers it. An experiment names the types the rules it changes are concerned with
(`ExperimentsAssumption`), which those of `experiments/phase7` do in the model's instance. The
confidence of an extraction is within the bounds its payload has (`ExtractionsAssumption`); a
request and a claim of a request are told apart, and a body's declared length fits its size
(`EdgeAssumption`); a catalog is a finite sequence of records, blank and malformed lines
(`CatalogAssumption`), a word weighs more the rarer it is and nothing only if no record has it, as
`_idf` does (`WeightAssumption`), and a search is for a name (`RequestAssumption` of
`CatalogIndex`). TLC evaluates all of them.

### Model-checked only

* Liveness (`BatchDrains`, `EveryCallEnds`, `EventuallyReported`, `ShutdownEnds`): beyond the prover.
* That an experiment as it was made satisfies `ExperimentsAssumption`, that is, names enough types: TLC
  evaluates it of the six in `MCExperiments`.
* What the six violation runs show.

Every invariant and every action property of the passing runs is stated by a theorem.

## Findings

Each of the six violation runs shows a disagreement of the code with a sentence of its own
documentation; `PROJECT.json` quotes both.

While stating what the pipeline should do, these disagreements showed. `RulesTellTheTruth` is stated
of the claims they do not touch, each by a named conjunct of `Understood`:

* `normalization/claim_parser.py:440`: matchers of values return without looking at the polarity, so
  a denial reads as the claim (`PolarityRead`; `negation.py:4` "have opposite verdicts against the
  same reference row"). `pipeline_negation` shows it of trials.
* `normalization/claim_parser.py:783`: a hedge replaces any comparison, NOT_EQUALS included, so the
  denial is lost (`HedgeHarmless`; `:780` "Let an explicit hedge override the matcher's default
  comparison"). The same conjunct excepts "a free trial" under a tolerance of days, where a trial of one
  day is within the tolerance of none (`:465`).
* `retrieval/evidence.py:49`: the projection for shipping claims and minimum purchases leaves out
  the currency, so `CurrencyRule` never applies to them (`CurrencyKept`; `rules/library.py:134` "A
  claim in the wrong currency is not a price disagreement, it is a unit error").
* `retrieval/evidence.py:44`: the projection of what an offer gives beside its discount leaves out its
  window, so `ActiveOfferRule` does not see that it is over (`WindowKept`; `rules/library.py:613` "a
  present-tense promotional claim about a window that is not open").
* `rules/library.py:627`: the same rule contradicts a denial too: "shipping is not free", said of an offer
  that has ended, is CONTRADICTED (`PromiseRead`).
* `normalization/claim_parser.py:830`: dates are read only beside a cue for dates (`DatesNoticed`).
* `rules/library.py:574`: the first comparable of two stated dates decides alone (`DatedOnce`).
* `rules/library.py:688`: a guessed year is replaced before the grace is applied, so 31 December and
  1 January are a year apart. `RulesTellTheTruth` is stated for any grace and excepts just the days that
  are within the grace of the year before or after (`NoTurnNear`; `core/pipeline_config.py:91` "Days of
  slack around promotion boundaries").
* `rules/base.py:141`: absolute and relative tolerance are added up (`priceRelative = 0`;
  `core/pipeline_config.py:83` "Both must be exceeded for a mismatch").

And, outside that property:

* `rules/engine.py:140`: the gate looks at the one column the claim names, and a sibling column may
  still have data (`:139` "no later rule can have data to work with"). It abstains; no wrong verdict.
* `verification/escalation.py:50`: a weakly parsed claim whose column is missing is kept from the
  rater (`engine.py:13` "A weakly parsed claim escalates to the semantic rater").
* `retrieval/evidence.py:221`: the offer window is projected for dated claims only, so
  `ActiveOfferRule` (`library.py:613`) cannot speak for an undated promotional claim in every profile
  that narrows evidence.
* `evaluation/phase7.py:302`: the number of reused rows in the summary of a resumed run is 0.
* `evaluation/phase7.py:289`: the parent's predictions are read again by each resumed run and are not
  part of the identity; `Parent` marks such rows in the model and `IdentityBound` excepts them.
* `evaluation/phase7.py:351`: a finished candidate run writes `config.json` into a directory git does
  not ignore, and the next run's identity hashes `git status` (`:68`): running it again is refused as
  another configuration. An unfinished run is not affected, unless it stopped among those last files.
  `ResumesUnlessChanged` takes the status as part of the identity.
* `evaluation/phase7.py:109`: the identity of a candidate has neither the number of retries nor the
  limit of output tokens, and `docs/evaluation.md:33` says that snapshots record "complete behavioral
  and operational config ... retry/concurrency values". The model leaves the settings out of a
  candidate's identity; `IdentityBound` is stated of what is recorded (`Recorded`).
* `evaluation/phase7.py:155`: a change that adds or drops `promotion_window` affects every claim that states a
  date, of whatever type (`library.py:533`): the parent's prediction for "14-day trial until March 8"
  is taken over by an experiment that names `PROMOTION_DATES`, though it would have been judged by the
  new rule. `ReuseIsSound` excepts these (`DatedElsewhere`); for everything else the policies of the
  shipped experiments name enough. A policy that asks only for rated samples again is recorded in no
  experiment; it is checked with a change of the rater's heuristics.
* `evaluation/runner.py:190`: a verification that failed is a row like any other; a resumed run does
  not ask again, and a candidate that reuses it inherits the failure.
* `retrieval/repository.py:235`: "records whose own tokens are largely unmatched" are penalised, but
  words of the query that no record has weigh nothing, so one shared word is a full match; and in a
  catalog of three records or fewer each word is in more than 30% of them and nothing is ever found.
* `raters/extractor.py:17`: the schema of an extraction sent along bounds no length, and the validator
  does: replies the schema admits can be refused.
* `normalization/units.py:427`: a date that stands alone is taken for the end of the offer, also after
  "starts"; the branch of `claim_parser.py:734` that would read it as the start is not reached
  (`DatesRead` keeps such sentences out of `RulesTellTheTruth`).
* `normalization/units.py:417`: of dates in several forms the form decides which is first, and not the
  sentence.

## Not modelled

* The text of claims (regular expressions, number formats): the detectors are reduced to what they
  find. A model of them would be the regular expressions again.
* The building and loading of prompts and the validation of an extraction: stateless conversions.
* `metrics.py` and `reporting.py`: sums and quotients over the rows; which rows, and when, is in
  `EvaluationCheckpoint`. Wilson intervals and percentiles are real arithmetic, which TLC has not.
* Histograms, labels and the exposition of the metrics; formatting and redaction of logs.
* Reading and validating configuration: I/O. What a setting does is in the module that reads it.
* The corpora (`generator.py`, `dev_corpus.py`, `validator.py`) and `datagen/`: seeded generators
  that run once, keep nothing and interact with nothing.
* Command lines and the smoke test of the baseline: arguments around the modelled entry points.
* Clients that disconnect: what then happens is up to uvicorn and Starlette, not to code in `src`.
* Changes of the source between a parent and a candidate: `CandidateReuse` compares profiles.

The HTTP pool is assumed to have a connection for each permit, as the defaults give it. `verify`
called alone is a batch of one. See `PROJECT.json` "components" for each part.

## Plan

1. Done: service core with contract and proofs; pipeline with dates, the boundary to the models and the
   reuse of predictions; transports; evaluation under changing inputs with the frozen baseline; catalog
   with search; API edge.
2. Done: the proofs listed above, one component at a time; a theorem for each invariant and each action
   property of the passing runs.
3. Perhaps: spans of negation cues; the attribution of errors (`metrics.classify_error`); the order of
   the matchers, against a reading of sentences with several subjects.
