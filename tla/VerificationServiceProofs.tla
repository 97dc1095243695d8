---------------------- MODULE VerificationServiceProofs ----------------------
(***************************************************************************)
(* Theorems about VerificationService for every set of claims, every       *)
(* concurrency limit and every routing configuration.                      *)
(*                                                                         *)
(* The inductive invariant adds to the type invariant the two semaphore    *)
(* equations, which bound slots and permits from above, and the fact that  *)
(* a task past its queue has been read, which makes a decision well typed; *)
(* and it relates the phase of a batch to the places of its tasks, so that *)
(* submitting a batch moves no task that holds anything.                   *)
(*                                                                         *)
(* What the counters say and what a verdict rests on needs a second one,   *)
(* AccountsInv: what the record of a task tells of its past (which reading *)
(* and which replies its place or its end goes with), and each counter as  *)
(* the number of tasks whose record tells of what it counts.               *)
(***************************************************************************)
EXTENDS VerificationService, CountingLemmas

ReadBeforeAwait ==
  \A i \in Items : pc[i] \notin {"idle", "queued"} => reading[i] \in Readings

PhaseMatches ==
  \A i \in Items :
    /\ pc[i] = "idle" <=> batch[BatchOf[i]] \in {"new", "refused"}
    /\ batch[BatchOf[i]] = "answered" => pc[i] \in {"done", "failed"}

ServiceInv ==
  TypeOK /\ SlotsAccounted /\ PermitsAccounted /\ ReadBeforeAwait /\ PhaseMatches

-----------------------------------------------------------------------------
(* What a task in a place holds of its batch's semaphore, or the provider's *)
Held(p, S) == IF p \in S THEN 1 ELSE 0

(* How moving one task changes the number of tasks found in a set of places *)
LEMMA CountMoved ==
  ASSUME NEW M \in SUBSET Items, NEW f \in [Items -> Places], NEW i \in Items,
         NEW q \in Places, NEW S
  PROVE  LET before == {j \in M : f[j] \in S}
             after  == {j \in M : [f EXCEPT ![i] = q][j] \in S}
         IN  /\ Cardinality(before) \in Nat /\ Cardinality(after) \in Nat
             /\ Cardinality(after) = Cardinality(before)
                  + (IF i \in M THEN Held(q, S) - Held(f[i], S) ELSE 0)
<1> DEFINE before == {j \in M : f[j] \in S}
           after  == {j \in M : [f EXCEPT ![i] = q][j] \in S}
<1> SUFFICES /\ Cardinality(before) \in Nat /\ Cardinality(after) \in Nat
             /\ Cardinality(after) = Cardinality(before)
                  + (IF i \in M THEN Held(q, S) - Held(f[i], S) ELSE 0)
  OBVIOUS
<1>1. IsFiniteSet(M) BY FS_Subset, ItemsAssumption
<1>2. IsFiniteSet(before) /\ IsFiniteSet(after) BY <1>1, FS_Subset
<1>3. Cardinality(before) \in Nat /\ Cardinality(after) \in Nat
  BY <1>2, FS_CardinalityType
<1>4. CASE i \notin M \/ (f[i] \in S /\ q \in S) \/ (f[i] \notin S /\ q \notin S)
  <2>1. after = before BY <1>4
  <2> HIDE DEF before, after
  <2> QED BY <1>3, <1>4, <2>1 DEF Held
<1>5. CASE i \in M /\ f[i] \notin S /\ q \in S
  <2>1. after = before \cup {i} /\ i \notin before BY <1>5
  <2>2. Cardinality(after) = Cardinality(before) + 1
    <3> HIDE DEF before, after
    <3> QED BY <1>2, <2>1, FS_AddElement
  <2> HIDE DEF before, after
  <2> QED BY <1>3, <1>5, <2>2 DEF Held
<1>6. CASE i \in M /\ f[i] \in S /\ q \notin S
  <2>1. before = after \cup {i} /\ i \notin after BY <1>6
  <2>2. Cardinality(before) = Cardinality(after) + 1
    <3> HIDE DEF before, after
    <3> QED BY <1>2, <2>1, FS_AddElement
  <2> HIDE DEF before, after
  <2> QED BY <1>3, <1>6, <2>2 DEF Held
<1> QED BY <1>4, <1>5, <1>6

(* A step of one task that takes and gives back what its move says keeps    *)
(* both semaphores accounted for, and so within their limits.               *)
LEMMA SemaphoreStep ==
  ASSUME TypeOK, SlotsAccounted, PermitsAccounted, NEW i \in Items, NEW q \in Places,
         pc' = [pc EXCEPT ![i] = q],
         slots' = [b \in Batches |->
                     IF b = BatchOf[i]
                     THEN slots[b] + Held(pc[i], Suspended) - Held(q, Suspended)
                     ELSE slots[b]],
         permits' = permits + Held(pc[i], Calling) - Held(q, Calling)
  PROVE  /\ SlotsAccounted' /\ PermitsAccounted'
         /\ \A b \in Batches : slots'[b] >= 0 => slots'[b] \in 0..BatchConcurrency
         /\ permits' >= 0 => permits' \in 0..MaxConcurrency
<1>1. /\ pc \in [Items -> Places] /\ slots \in [Batches -> 0..BatchConcurrency]
      /\ permits \in 0..MaxConcurrency
      /\ BatchConcurrency \in Nat /\ MaxConcurrency \in Nat
  BY LimitsAssumption DEF TypeOK
<1>2. ASSUME NEW b \in Batches
      PROVE  /\ slots'[b] + Cardinality(InBatch(b)') = BatchConcurrency
             /\ slots'[b] >= 0 => slots'[b] \in 0..BatchConcurrency
  <2> DEFINE M == MembersOf(b)
  <2>1. M \in SUBSET Items /\ (i \in M <=> b = BatchOf[i]) BY DEF MembersOf
  <2>2. InBatch(b) = {j \in M : pc[j] \in Suspended} BY DEF InBatch
  <2>3. InBatch(b)' = {j \in M : [pc EXCEPT ![i] = q][j] \in Suspended}
    BY DEF InBatch, MembersOf
  <2> HIDE DEF M
  <2>4. /\ Cardinality(InBatch(b)) \in Nat /\ Cardinality(InBatch(b)') \in Nat
        /\ Cardinality(InBatch(b)') = Cardinality(InBatch(b))
             + (IF i \in M THEN Held(q, Suspended) - Held(pc[i], Suspended) ELSE 0)
    BY <1>1, <2>1, <2>2, <2>3, CountMoved
  <2>5. slots[b] + Cardinality(InBatch(b)) = BatchConcurrency BY DEF SlotsAccounted
  <2>6. slots'[b] = slots[b]
          + (IF i \in M THEN Held(pc[i], Suspended) - Held(q, Suspended) ELSE 0)
    BY <1>1, <2>1 DEF Held
  <2>7. slots[b] \in Int BY <1>1
  <2>8. Held(pc[i], Suspended) \in Int /\ Held(q, Suspended) \in Int BY DEF Held
  <2> QED BY <1>1, <2>4, <2>5, <2>6, <2>7, <2>8
<1>3. /\ permits' + Cardinality(InProvider') = MaxConcurrency
      /\ permits' >= 0 => permits' \in 0..MaxConcurrency
  <2>1. Items \in SUBSET Items OBVIOUS
  <2>2. InProvider = {j \in Items : pc[j] \in Calling} BY DEF InProvider
  <2>3. InProvider' = {j \in Items : [pc EXCEPT ![i] = q][j] \in Calling}
    BY DEF InProvider
  <2>4. /\ Cardinality(InProvider) \in Nat /\ Cardinality(InProvider') \in Nat
        /\ Cardinality(InProvider') = Cardinality(InProvider)
             + (IF i \in Items THEN Held(q, Calling) - Held(pc[i], Calling) ELSE 0)
    BY <1>1, <2>1, <2>2, <2>3, CountMoved
  <2>5. Held(pc[i], Calling) \in Int /\ Held(q, Calling) \in Int BY DEF Held
  <2> QED BY <1>1, <2>4, <2>5 DEF PermitsAccounted
<1> QED BY <1>2, <1>3 DEF SlotsAccounted, PermitsAccounted

-----------------------------------------------------------------------------
(* What a task can end with is well typed.                                  *)
LEMMA DecidedType ==
  ASSUME NEW r \in Readings, NEW x \in BOOLEAN, NEW v \in Verdicts \cup {NoVerdict}
  PROVE  Decided(r, x, v) \in Outcomes /\ Decided(r, x, v).kind = "result"
<1> DEFINE d == Decide(Cfg, r.evidence, r.rules, v)
<1>1. r.rules.verdict \in Verdicts \cup {NoVerdict} BY ReadingsAssumption
<1>2. d.verdict \in Verdicts /\ d.by \in {"rules", "rater", "guard", "abstain"}
  BY <1>1 DEF Decide, IsTerminal, Verdicts
<1>3. VerificationPath(x, v # NoVerdict) \in Paths BY DEF VerificationPath, Paths
<1>4. Decided(r, x, v)
        = Result(d.verdict, d.by, v # NoVerdict, VerificationPath(x, v # NoVerdict))
  BY DEF Decided
<1> HIDE DEF d
<1> QED BY <1>2, <1>3, <1>4 DEF Result, Outcomes

LEMMA FailureType ==
  ASSUME NEW code \in FailureCodes, NEW at \in Places
  PROVE  Failure(code, at) \in Outcomes /\ Failure(code, at).kind = "failure"
BY DEF Failure, Outcomes

LEMMA CrashType ==
  ASSUME NEW at \in Calling
  PROVE  Crash(at) \in Outcomes /\ Crash(at).kind = "crash"
BY DEF Crash, Outcomes

LEMMA OutcomeAtOnceType ==
  ASSUME NEW r \in Readings, NEW x \in BOOLEAN, NEW at \in Places
  PROVE  /\ OutcomeAtOnce(r, x, at) \in Outcomes
         /\ OutcomeAtOnce(r, x, at).kind \in {"result", "failure"}
<1>1. {"reference_not_found", "llm_unavailable"} \subseteq FailureCodes BY DEF FailureCodes
<1>2. Decided(r, x, NoVerdict) \in Outcomes /\ Decided(r, x, NoVerdict).kind = "result"
  BY DecidedType
<1> QED BY <1>1, <1>2, FailureType DEF OutcomeAtOnce

(* The counters stay natural numbers.                                       *)
LEMMA CountersType ==
  ASSUME NEW m \in [Counters -> Nat]
  PROVE  /\ \A names : OneMore(m, names) \in [Counters -> Nat]
         /\ \A r \in Readings : RulesRecorded(m, r) \in [Counters -> Nat]
         /\ \A r \in Readings : RecordRules(m, r) \in [Counters -> Nat]
         /\ \A n \in 1..MaxAttempts : RecordRetries(m, n) \in [Counters -> Nat]
         /\ RecordRating(m) \in [Counters -> Nat]
         /\ RecordSuccess(m) \in [Counters -> Nat]
         /\ RecordFailure(m) \in [Counters -> Nat]
         /\ \A o : RecordEnd(m, o) \in [Counters -> Nat]
<1>1. \A names : OneMore(m, names) \in [Counters -> Nat] BY DEF OneMore
<1>2. ASSUME NEW c \in Counters, NEW k \in Nat
      PROVE  [m EXCEPT ![c] = m[c] + k] \in [Counters -> Nat]
  OBVIOUS
<1>3. \A r \in Readings : RecordRules(m, r) \in [Counters -> Nat]
  <2> TAKE r \in Readings
  <2>1. "ruleDecisions" \in Counters /\ r.rules.count \in Nat
    BY ReadingsAssumption DEF Counters
  <2> QED BY <1>2, <2>1 DEF RecordRules
<1>4. \A n \in 1..MaxAttempts : RecordRetries(m, n) \in [Counters -> Nat]
  <2> TAKE n \in 1..MaxAttempts
  <2>1. "llmRetries" \in Counters /\ n - 1 \in Nat /\ m["llmRetries"] \in Nat
    BY LimitsAssumption DEF Counters
  <2>2. RecordRetries(m, n) = [m EXCEPT !["llmRetries"] = m["llmRetries"] + (n - 1)]
    BY <2>1, LimitsAssumption DEF RecordRetries
  <2> QED BY <1>2, <2>1, <2>2
<1> QED
  BY <1>1, <1>3, <1>4 DEF RulesRecorded, RecordRating, RecordSuccess, RecordFailure, RecordEnd

-----------------------------------------------------------------------------
(* A step of the task of claim i that moves it to place q.                  *)
Moves(i, q) ==
  /\ pc' = [pc EXCEPT ![i] = q]
  /\ slots' = [b \in Batches |->
                 IF b = BatchOf[i]
                 THEN slots[b] + Held(pc[i], Suspended) - Held(q, Suspended)
                 ELSE slots[b]]
  /\ permits' = permits + Held(pc[i], Calling) - Held(q, Calling)

(* Every step of a task moves it, never back, and keeps the other parts of  *)
(* the state well typed.                                                    *)
MovesTask(i) ==
  \E q \in Places :
    /\ Moves(i, q)
    /\ pc[i] \in {"queued"} \cup Suspended /\ q \in Suspended \cup Ended
    /\ slots'[BatchOf[i]] >= 0 /\ permits' >= 0
    /\ outcome' \in [Items -> Outcomes]
    /\ extracted' \in [Items -> BOOLEAN]
    /\ reading' \in [Items -> Readings \cup {NoReading}]
    /\ metrics' \in [Counters -> Nat]
    /\ reading'[i] \in Readings
    /\ \A j \in Items \ {i} : reading'[j] = reading[j]
    /\ batch' = batch

LEMMA PlaceFacts ==
  /\ Calling \subseteq Suspended /\ Waiting \subseteq Suspended
  /\ Suspended \subseteq Places /\ Ended \subseteq Places
  /\ {"idle", "queued"} \subseteq Places
  /\ Calling \cap Waiting = {} /\ Suspended \cap Ended = {}
  /\ Suspended \cap {"idle", "queued"} = {} /\ Ended \cap {"idle", "queued"} = {}
BY DEF Places, Suspended, Calling, Waiting, Ended

LEMMA PlaceOfEnded ==
  ASSUME NEW o
  PROVE  PlaceOf(o) \in Ended
BY DEF PlaceOf, Ended

LEMMA TaskStepKeepsInv ==
  ASSUME ServiceInv, NEW i \in Items, MovesTask(i)
  PROVE  ServiceInv'
<1>1. PICK q \in Places : 
         /\ Moves(i, q)
         /\ pc[i] \in {"queued"} \cup Suspended /\ q \in Suspended \cup Ended
         /\ slots'[BatchOf[i]] >= 0 /\ permits' >= 0
  BY DEF MovesTask
<1>2. TypeOK /\ SlotsAccounted /\ PermitsAccounted BY DEF ServiceInv
<1>3. /\ SlotsAccounted' /\ PermitsAccounted'
      /\ \A b \in Batches : slots'[b] >= 0 => slots'[b] \in 0..BatchConcurrency
      /\ permits' >= 0 => permits' \in 0..MaxConcurrency
  BY <1>1, <1>2, SemaphoreStep DEF Moves
<1>4. TypeOK'
  <2>1. pc' \in [Items -> Places] BY <1>1, <1>2 DEF Moves, TypeOK
  <2>2. slots' \in [Batches -> 0..BatchConcurrency]
    <3> SUFFICES ASSUME NEW b \in Batches PROVE slots'[b] \in 0..BatchConcurrency
      BY <1>1 DEF Moves
    <3>1. CASE b = BatchOf[i] BY <1>1, <1>3, <3>1
    <3>2. CASE b # BatchOf[i]
      BY <1>1, <1>2, <3>2 DEF Moves, TypeOK
    <3> QED BY <3>1, <3>2
  <2>3. permits' \in 0..MaxConcurrency BY <1>1, <1>3
  <2> QED BY <1>2, <2>1, <2>2, <2>3 DEF TypeOK, MovesTask
<1>5. ReadBeforeAwait'
  BY <1>1, <1>2 DEF ServiceInv, ReadBeforeAwait, MovesTask, Moves, TypeOK
<1>6. PhaseMatches'
  <2>1. batch' = batch BY DEF MovesTask
  <2>2. ASSUME NEW j \in Items
        PROVE  /\ pc'[j] = "idle" <=> batch[BatchOf[j]] \in {"new", "refused"}
               /\ batch[BatchOf[j]] = "answered" => pc'[j] \in {"done", "failed"}
    <3>1. CASE j # i
      BY <1>1, <1>2, <3>1 DEF ServiceInv, PhaseMatches, Moves, TypeOK
    <3>2. CASE j = i
      <4>1. pc'[i] = q /\ q # "idle" /\ pc[i] # "idle" /\ pc[i] \notin {"done", "failed"}
        BY <1>1, <1>2, PlaceFacts DEF Moves, TypeOK, Suspended, Ended, Calling, Waiting
      <4> QED BY <3>2, <4>1 DEF ServiceInv, PhaseMatches
    <3> QED BY <3>1, <3>2
  <2> QED BY <2>1, <2>2 DEF PhaseMatches
<1> QED BY <1>3, <1>4, <1>5, <1>6 DEF ServiceInv

-----------------------------------------------------------------------------
(* Each operation of a task is such a step.                                 *)
LEMMA HeldFacts ==
  /\ \A p \in Calling : Held(p, Calling) = 1 /\ Held(p, Suspended) = 1
  /\ \A p \in Waiting : Held(p, Calling) = 0 /\ Held(p, Suspended) = 1
  /\ \A p \in Ended \cup {"queued"} : Held(p, Calling) = 0 /\ Held(p, Suspended) = 0
BY DEF Held, Calling, Waiting, Suspended, Ended

LEMMA RunToEndMoves ==
  ASSUME ServiceInv, NEW i \in Items, RunToEnd(i)
  PROVE  MovesTask(i)
<1>1. TypeOK BY DEF ServiceInv
<1>2. PICK r \in Readings :
         /\ Read(i, r, FALSE)
         /\ \/ /\ ~r.valid
               /\ End(i, Failure("invalid_claim", "queued"))
               /\ metrics' = RecordFailure(metrics)
            \/ /\ r.valid /\ ~Extracts(r) /\ EndsAtOnce(i, r)
               /\ LET o == OutcomeAtOnce(r, FALSE, "queued")
                  IN  /\ End(i, o)
                      /\ metrics' = RecordEnd(RulesRecorded(metrics, r), o)
  BY DEF RunToEnd
<1>3. PICK o \in Outcomes : End(i, o)
  <2>1. "queued" \in Places /\ "invalid_claim" \in FailureCodes BY DEF Places, FailureCodes
  <2>2. Failure("invalid_claim", "queued") \in Outcomes BY <2>1, FailureType
  <2>3. OutcomeAtOnce(r, FALSE, "queued") \in Outcomes BY <2>1, OutcomeAtOnceType
  <2> QED BY <1>2, <2>2, <2>3
<1>4. metrics' \in [Counters -> Nat]
  <2>1. metrics \in [Counters -> Nat] BY <1>1 DEF TypeOK
  <2>2. RulesRecorded(metrics, r) \in [Counters -> Nat] BY <2>1, CountersType
  <2>3. RecordFailure(metrics) \in [Counters -> Nat] BY <2>1, CountersType
  <2>4. \A z : RecordEnd(RulesRecorded(metrics, r), z) \in [Counters -> Nat]
    BY <2>2, CountersType
  <2> QED BY <1>2, <2>3, <2>4
<1> DEFINE q == PlaceOf(o)
<1>5. q \in Ended /\ q \in Places BY PlaceOfEnded, PlaceFacts
<1>6. pc[i] = "queued" /\ pc' = [pc EXCEPT ![i] = q] /\ outcome' = [outcome EXCEPT ![i] = o]
  BY <1>3 DEF RunToEnd, End
<1> HIDE DEF q
<1>7. Moves(i, q) /\ slots'[BatchOf[i]] >= 0 /\ permits' >= 0
  <2>1. slots \in [Batches -> 0..BatchConcurrency] /\ permits \in 0..MaxConcurrency
    BY <1>1 DEF TypeOK
  <2>2. slots' = slots /\ permits' = permits BY DEF RunToEnd
  <2>3. BatchOf[i] \in Batches BY ItemsAssumption
  <2>4. /\ Held(pc[i], Suspended) = 0 /\ Held(pc[i], Calling) = 0
        /\ Held(q, Suspended) = 0 /\ Held(q, Calling) = 0
    BY <1>5, <1>6, HeldFacts
  <2> QED BY <1>6, <2>1, <2>2, <2>3, <2>4, LimitsAssumption DEF Moves
<1> QED
  BY <1>1, <1>2, <1>4, <1>5, <1>6, <1>7 DEF MovesTask, TypeOK, Read, RunToEnd

LEMMA RunToAwaitMoves ==
  ASSUME ServiceInv, NEW i \in Items, RunToAwait(i)
  PROVE  MovesTask(i)
<1>1. TypeOK BY DEF ServiceInv
<1>2. PICK r \in Readings :
         /\ Read(i, r, FALSE)
         /\ \/ /\ pc' = [pc EXCEPT ![i] = "extract_wait"]
               /\ UNCHANGED metrics
            \/ /\ pc' = [pc EXCEPT ![i] = "rate_wait"]
               /\ metrics' = RecordRating(RecordRules(metrics, r))
  BY DEF RunToAwait
<1>3. PICK q \in Waiting : pc' = [pc EXCEPT ![i] = q] BY <1>2 DEF Waiting
<1>4. metrics' \in [Counters -> Nat]
  <2>1. metrics \in [Counters -> Nat] BY <1>1 DEF TypeOK
  <2>2. RecordRules(metrics, r) \in [Counters -> Nat] BY <2>1, CountersType
  <2> QED BY <1>2, <2>1, <2>2, CountersType
<1>5. q \in Suspended /\ q \in Places BY PlaceFacts
<1>6. Moves(i, q) /\ slots'[BatchOf[i]] >= 0 /\ permits' >= 0
  <2>1. slots \in [Batches -> 0..BatchConcurrency] /\ permits \in 0..MaxConcurrency
    BY <1>1 DEF TypeOK
  <2>2. /\ slots' = [slots EXCEPT ![BatchOf[i]] = slots[BatchOf[i]] - 1]
        /\ permits' = permits /\ slots[BatchOf[i]] > 0 /\ pc[i] = "queued"
    BY DEF RunToAwait
  <2>3. BatchOf[i] \in Batches BY ItemsAssumption
  <2>4. /\ Held(pc[i], Suspended) = 0 /\ Held(pc[i], Calling) = 0
        /\ Held(q, Suspended) = 1 /\ Held(q, Calling) = 0
    BY <2>2, HeldFacts
  <2>5. slots' = [b \in Batches |-> IF b = BatchOf[i] THEN slots[b] - 1 ELSE slots[b]]
    BY <2>1, <2>2, <2>3
  <2>6. \A b \in Batches : slots[b] \in Nat BY <2>1, LimitsAssumption
  <2>7. slots' = [b \in Batches |->
                    IF b = BatchOf[i]
                    THEN slots[b] + Held(pc[i], Suspended) - Held(q, Suspended)
                    ELSE slots[b]]
    BY <2>4, <2>5, <2>6
  <2>8. slots'[BatchOf[i]] >= 0 BY <2>2, <2>3, <2>5, <2>6
  <2>9. permits' = permits + Held(pc[i], Calling) - Held(q, Calling) /\ permits' >= 0
    BY <2>1, <2>2, <2>4, LimitsAssumption
  <2> QED BY <1>3, <2>7, <2>8, <2>9 DEF Moves
<1> QED
  BY <1>1, <1>2, <1>4, <1>5, <1>6 DEF MovesTask, TypeOK, Read, RunToAwait

LEMMA AcquirePermitMoves ==
  ASSUME ServiceInv, NEW i \in Items, AcquirePermit(i)
  PROVE  MovesTask(i)
<1>1. TypeOK BY DEF ServiceInv
<1>2. PICK q \in Calling : pc' = [pc EXCEPT ![i] = q] BY DEF AcquirePermit, Calling
<1>3. q \in Suspended /\ q \in Places BY PlaceFacts
<1>4. Moves(i, q) /\ slots'[BatchOf[i]] >= 0 /\ permits' >= 0
  <2>1. slots \in [Batches -> 0..BatchConcurrency] /\ permits \in 0..MaxConcurrency
    BY <1>1 DEF TypeOK
  <2>2. slots' = slots /\ permits' = permits - 1 /\ permits > 0 /\ pc[i] \in Waiting
    BY DEF AcquirePermit
  <2>3. BatchOf[i] \in Batches BY ItemsAssumption
  <2>4. /\ Held(pc[i], Suspended) = 1 /\ Held(pc[i], Calling) = 0
        /\ Held(q, Suspended) = 1 /\ Held(q, Calling) = 1
    BY <2>2, HeldFacts
  <2> QED BY <1>2, <2>1, <2>2, <2>3, <2>4, LimitsAssumption DEF Moves
<1>5. pc[i] \in Suspended /\ reading[i] \in Readings
  BY PlaceFacts DEF AcquirePermit, ServiceInv, ReadBeforeAwait
<1> QED BY <1>1, <1>3, <1>4, <1>5 DEF MovesTask, TypeOK, AcquirePermit

(* A suspended task that ends gives back its slot, and its permit if it has *)
(* one.                                                                     *)
LEMMA EndGivesBack ==
  ASSUME TypeOK, NEW i \in Items, NEW q \in Ended, pc[i] \in Suspended,
         pc' = [pc EXCEPT ![i] = q], ReleaseSlot(i),
         permits' = permits + Held(pc[i], Calling)
  PROVE  Moves(i, q) /\ slots'[BatchOf[i]] >= 0 /\ permits' >= 0
<1>1. slots \in [Batches -> 0..BatchConcurrency] /\ permits \in 0..MaxConcurrency
  BY DEF TypeOK
<1>2. BatchOf[i] \in Batches BY ItemsAssumption
<1>3. slots' = [b \in Batches |-> IF b = BatchOf[i] THEN slots[b] + 1 ELSE slots[b]]
  BY <1>1, <1>2 DEF ReleaseSlot
<1>4. \A b \in Batches : slots[b] \in Nat BY <1>1, LimitsAssumption
<1>5. /\ Held(pc[i], Suspended) = 1 /\ Held(q, Suspended) = 0 /\ Held(q, Calling) = 0
      /\ Held(pc[i], Calling) \in {0, 1}
  BY HeldFacts DEF Held
<1>6. slots' = [b \in Batches |->
                  IF b = BatchOf[i]
                  THEN slots[b] + Held(pc[i], Suspended) - Held(q, Suspended)
                  ELSE slots[b]]
  BY <1>3, <1>4, <1>5
<1>7. slots'[BatchOf[i]] >= 0 BY <1>2, <1>3, <1>4
<1>8. permits' = permits + Held(pc[i], Calling) - Held(q, Calling) /\ permits' >= 0
  BY <1>1, <1>5, LimitsAssumption
<1> QED BY <1>6, <1>7, <1>8 DEF Moves

(* The part that the four ways a suspended task can end have in common.     *)
LEMMA EndingMoves ==
  ASSUME ServiceInv, NEW i \in Items, NEW o \in Outcomes, pc[i] \in Suspended,
         End(i, o), ReleaseSlot(i), permits' = permits + Held(pc[i], Calling),
         reading' = reading, extracted' = extracted, batch' = batch,
         metrics' \in [Counters -> Nat]
  PROVE  MovesTask(i)
<1>1. TypeOK BY DEF ServiceInv
<1> DEFINE q == PlaceOf(o)
<1>2. q \in Ended /\ q \in Places BY PlaceOfEnded, PlaceFacts
<1>3. pc' = [pc EXCEPT ![i] = q] /\ outcome' = [outcome EXCEPT ![i] = o] BY DEF End
<1> HIDE DEF q
<1>4. Moves(i, q) /\ slots'[BatchOf[i]] >= 0 /\ permits' >= 0
  BY <1>1, <1>2, <1>3, EndGivesBack
<1>5. reading[i] \in Readings BY PlaceFacts DEF ServiceInv, ReadBeforeAwait
<1> QED BY <1>1, <1>2, <1>3, <1>4, <1>5 DEF MovesTask, TypeOK

LEMMA RatingAnsweredMoves ==
  ASSUME ServiceInv, NEW i \in Items, RatingAnswered(i)
  PROVE  MovesTask(i)
<1>1. TypeOK BY DEF ServiceInv
<1>2. pc[i] \in Calling /\ pc[i] \in Suspended /\ reading[i] \in Readings
  BY PlaceFacts DEF RatingAnswered, Calling, Suspended, ServiceInv, ReadBeforeAwait
<1>3. PICK v \in Verdicts, n \in 1..MaxAttempts :
         /\ End(i, Decided(reading[i], extracted[i], v))
         /\ metrics' = RecordSuccess(RecordRetries(metrics, n))
  BY DEF RatingAnswered
<1>4. Decided(reading[i], extracted[i], v) \in Outcomes BY <1>1, <1>2, DecidedType DEF TypeOK
<1>5. RecordRetries(metrics, n) \in [Counters -> Nat] BY <1>1, CountersType DEF TypeOK
<1>6. metrics' \in [Counters -> Nat] BY <1>3, <1>5, CountersType
<1>7. permits' = permits + Held(pc[i], Calling) BY <1>2, HeldFacts DEF ReleasePermit, RatingAnswered
<1> QED BY <1>2, <1>3, <1>4, <1>6, <1>7, EndingMoves DEF RatingAnswered

LEMMA ProviderFailsMoves ==
  ASSUME ServiceInv, NEW i \in Items, ProviderFails(i)
  PROVE  MovesTask(i)
<1>1. TypeOK BY DEF ServiceInv
<1>2. pc[i] \in Calling /\ pc[i] \in Suspended /\ pc[i] \in Places
  BY PlaceFacts DEF ProviderFails
<1>3. PICK code \in ProviderErrors : End(i, Failure(code, pc[i])) BY DEF ProviderFails
<1>4. Failure(code, pc[i]) \in Outcomes BY <1>2, FailureType DEF FailureCodes
<1>5. metrics \in [Counters -> Nat] /\ OneMore(metrics, {"llmFailures"}) \in [Counters -> Nat]
  BY <1>1, CountersType DEF TypeOK
<1>6. metrics' \in [Counters -> Nat] BY <1>5, CountersType DEF ProviderFails
<1>7. permits' = permits + Held(pc[i], Calling) BY <1>2, HeldFacts DEF ReleasePermit, ProviderFails
<1> QED BY <1>2, <1>3, <1>4, <1>6, <1>7, EndingMoves DEF ProviderFails

LEMMA ProviderBreaksMoves ==
  ASSUME ServiceInv, NEW i \in Items, ProviderBreaks(i)
  PROVE  MovesTask(i)
<1>1. TypeOK BY DEF ServiceInv
<1>2. pc[i] \in Calling /\ pc[i] \in Suspended BY PlaceFacts DEF ProviderBreaks
<1>3. Crash(pc[i]) \in Outcomes BY <1>2, CrashType
<1>4. metrics' \in [Counters -> Nat] BY <1>1 DEF ProviderBreaks, TypeOK
<1>5. permits' = permits + Held(pc[i], Calling) BY <1>2, HeldFacts DEF ReleasePermit, ProviderBreaks
<1> QED BY <1>2, <1>3, <1>4, <1>5, EndingMoves DEF ProviderBreaks

LEMMA ExpireMoves ==
  ASSUME ServiceInv, NEW i \in Items, Expire(i)
  PROVE  MovesTask(i)
<1>1. TypeOK BY DEF ServiceInv
<1>2. pc[i] \in Suspended /\ pc[i] \in Places BY PlaceFacts DEF Expire
<1>3. Failure("verification_timeout", pc[i]) \in Outcomes
  BY <1>2, FailureType DEF FailureCodes
<1>4. metrics \in [Counters -> Nat] BY <1>1 DEF TypeOK
<1>5. metrics' \in [Counters -> Nat] BY <1>4, CountersType DEF Expire
<1>6. permits' = permits + Held(pc[i], Calling)
  BY <1>1, LimitsAssumption DEF Expire, ReleasePermit, Held, TypeOK
<1> QED BY <1>2, <1>3, <1>5, <1>6, EndingMoves DEF Expire

LEMMA ExtractionAnsweredMoves ==
  ASSUME ServiceInv, NEW i \in Items, ExtractionAnswered(i)
  PROVE  MovesTask(i)
<1>1. TypeOK BY DEF ServiceInv
<1>2. /\ pc[i] = "extracting" /\ pc[i] \in Calling /\ pc[i] \in Suspended
      /\ "extracting" \in Places
  BY PlaceFacts DEF ExtractionAnswered, Calling, Places
<1>3. PICK r \in Readings :
         /\ Read(i, r, TRUE)
         /\ \/ /\ ReleaseSlot(i)
               /\ LET o == OutcomeAtOnce(r, TRUE, "extracting")
                  IN  /\ End(i, o)
                      /\ metrics' = RecordEnd(RulesRecorded(metrics, r), o)
            \/ /\ pc' = [pc EXCEPT ![i] = "rate_wait"]
               /\ metrics' = RecordRating(RecordRules(metrics, r))
               /\ UNCHANGED <<outcome, slots>>
  BY DEF ExtractionAnswered
<1>4. metrics \in [Counters -> Nat] BY <1>1 DEF TypeOK
<1>5. /\ reading' \in [Items -> Readings \cup {NoReading}] /\ extracted' \in [Items -> BOOLEAN]
      /\ reading'[i] \in Readings /\ \A j \in Items \ {i} : reading'[j] = reading[j]
      /\ batch' = batch
  BY <1>1, <1>3 DEF Read, TypeOK, ExtractionAnswered
<1>6. CASE /\ ReleaseSlot(i)
           /\ LET o == OutcomeAtOnce(r, TRUE, "extracting")
              IN  /\ End(i, o)
                  /\ metrics' = RecordEnd(RulesRecorded(metrics, r), o)
  <2> DEFINE o == OutcomeAtOnce(r, TRUE, "extracting")
             q == PlaceOf(o)
  <2>1. o \in Outcomes BY <1>2, OutcomeAtOnceType
  <2>2. RulesRecorded(metrics, r) \in [Counters -> Nat] BY <1>4, CountersType
  <2>3. metrics' \in [Counters -> Nat] BY <1>6, <2>2, CountersType
  <2>4. q \in Ended /\ q \in Places BY PlaceOfEnded, PlaceFacts
  <2>5. pc' = [pc EXCEPT ![i] = q] /\ outcome' = [outcome EXCEPT ![i] = o]
    BY <1>6 DEF End
  <2> HIDE DEF o, q
  <2>6. permits' = permits + Held(pc[i], Calling) BY <1>2, HeldFacts DEF ReleasePermit, ExtractionAnswered
  <2>7. Moves(i, q) /\ slots'[BatchOf[i]] >= 0 /\ permits' >= 0
    BY <1>1, <1>2, <1>6, <2>4, <2>5, <2>6, EndGivesBack
  <2>8. outcome' \in [Items -> Outcomes] BY <1>1, <2>1, <2>5 DEF TypeOK
  <2> QED BY <1>2, <1>5, <2>3, <2>4, <2>7, <2>8 DEF MovesTask
<1>7. CASE /\ pc' = [pc EXCEPT ![i] = "rate_wait"]
           /\ metrics' = RecordRating(RecordRules(metrics, r))
           /\ UNCHANGED <<outcome, slots>>
  <2> DEFINE q == "rate_wait"
  <2>1. q \in Waiting /\ q \in Suspended /\ q \in Places BY PlaceFacts DEF Waiting
  <2>2. RecordRules(metrics, r) \in [Counters -> Nat] BY <1>4, CountersType
  <2>3. metrics' \in [Counters -> Nat] BY <1>7, <2>2, CountersType
  <2>4. /\ Held(pc[i], Suspended) = 1 /\ Held(pc[i], Calling) = 1
        /\ Held(q, Suspended) = 1 /\ Held(q, Calling) = 0
    BY <1>2, <2>1, HeldFacts
  <2>5. slots \in [Batches -> 0..BatchConcurrency] /\ permits \in 0..MaxConcurrency
    BY <1>1 DEF TypeOK
  <2>6. /\ slots' = slots /\ permits' = permits + 1 /\ outcome' = outcome
        /\ pc' = [pc EXCEPT ![i] = q] /\ BatchOf[i] \in Batches
    BY <1>2, <1>7, ItemsAssumption DEF ExtractionAnswered, ReleasePermit
  <2> HIDE DEF q
  <2>7. Moves(i, q) /\ slots'[BatchOf[i]] >= 0 /\ permits' >= 0
    BY <2>4, <2>5, <2>6, LimitsAssumption DEF Moves
  <2> QED BY <1>1, <1>2, <1>5, <2>1, <2>3, <2>6, <2>7 DEF MovesTask, TypeOK
<1> QED BY <1>3, <1>6, <1>7

-----------------------------------------------------------------------------
(* The invariant holds.                                                     *)
LEMMA InitEstablishesInv == Init => ServiceInv
<1> SUFFICES ASSUME Init PROVE ServiceInv
  OBVIOUS
<1>1. TypeOK
  BY LimitsAssumption DEF Init, TypeOK, Places, Outcomes
<1>2. SlotsAccounted
  <2> SUFFICES ASSUME NEW b \in Batches
               PROVE  slots[b] + Cardinality(InBatch(b)) = BatchConcurrency
    BY DEF SlotsAccounted
  <2>1. InBatch(b) = {} BY DEF InBatch, MembersOf, Init, Suspended, Calling, Waiting
  <2> QED BY <2>1, FS_EmptySet, LimitsAssumption DEF Init
<1>3. PermitsAccounted
  <2>1. InProvider = {} BY DEF InProvider, Init, Calling
  <2> QED BY <2>1, FS_EmptySet, LimitsAssumption DEF Init, PermitsAccounted
<1>4. ReadBeforeAwait BY DEF Init, ReadBeforeAwait
<1>5. PhaseMatches BY ItemsAssumption DEF Init, PhaseMatches
<1> QED BY <1>1, <1>2, <1>3, <1>4, <1>5 DEF ServiceInv

(* A step of a batch moves no task that holds anything.                     *)
LEMMA BatchStepKeepsInv ==
  ASSUME ServiceInv, NEW b \in Batches, Submit(b) \/ Refuse(b) \/ Answer(b) \/ Abort(b)
  PROVE  ServiceInv'
<1>1. TypeOK BY DEF ServiceInv
<1>2. /\ reading' = reading /\ extracted' = extracted /\ outcome' = outcome
      /\ slots' = slots /\ permits' = permits
  BY DEF Submit, Refuse, Answer, Abort
<1>3. /\ metrics' \in [Counters -> Nat]
      /\ batch' \in [Batches -> {"new", "open", "refused", "answered", "aborted"}]
  BY <1>1, CountersType DEF TypeOK, Submit, Refuse, Answer, Abort
<1>4. \A i \in Items : pc'[i] = pc[i] \/ (pc[i] = "idle" /\ pc'[i] = "queued")
  BY <1>1 DEF Submit, Refuse, Answer, Abort, ServiceInv, PhaseMatches, TypeOK
<1>5. pc' \in [Items -> Places]
  <2>1. CASE Submit(b) BY <1>1, <2>1 DEF Submit, TypeOK, Places
  <2>2. CASE ~Submit(b) BY <1>1, <2>2 DEF Refuse, Answer, Abort, TypeOK
  <2> QED BY <2>1, <2>2
<1>6. \A i \in Items : /\ pc'[i] \in Suspended <=> pc[i] \in Suspended
                       /\ pc'[i] \in Calling <=> pc[i] \in Calling
  BY <1>4 DEF Suspended, Calling, Waiting
<1>7. TypeOK' BY <1>1, <1>2, <1>3, <1>5 DEF TypeOK
<1>8. SlotsAccounted'
  <2>1. \A c \in Batches : InBatch(c)' = InBatch(c) BY <1>6 DEF InBatch, MembersOf
  <2> QED BY <1>2, <2>1 DEF ServiceInv, SlotsAccounted
<1>9. PermitsAccounted'
  <2>1. InProvider' = InProvider BY <1>6 DEF InProvider
  <2> QED BY <1>2, <2>1 DEF ServiceInv, PermitsAccounted
<1>10. ReadBeforeAwait' BY <1>2, <1>4 DEF ServiceInv, ReadBeforeAwait
<1>11. PhaseMatches'
  <2> SUFFICES ASSUME NEW i \in Items
               PROVE  /\ pc'[i] = "idle" <=> batch'[BatchOf[i]] \in {"new", "refused"}
                      /\ batch'[BatchOf[i]] = "answered" => pc'[i] \in {"done", "failed"}
    BY DEF PhaseMatches
  <2>1. BatchOf[i] \in Batches BY ItemsAssumption
  <2>2. CASE BatchOf[i] # b
    BY <1>1, <2>1, <2>2 DEF Submit, Refuse, Answer, Abort, ServiceInv, PhaseMatches, TypeOK
  <2>3. CASE BatchOf[i] = b
    <3>1. i \in MembersOf(b) BY <2>3 DEF MembersOf
    <3> QED
      BY <1>1, <2>1, <2>3, <3>1
      DEF Submit, Refuse, Answer, Abort, ServiceInv, PhaseMatches, TypeOK
  <2> QED BY <2>2, <2>3
<1> QED BY <1>7, <1>8, <1>9, <1>10, <1>11 DEF ServiceInv

LEMMA TaskStepMoves ==
  ASSUME ServiceInv, NEW i \in Items,
         Start(i) \/ AcquirePermit(i) \/ Provider(i) \/ Expire(i)
  PROVE  MovesTask(i)
BY RunToEndMoves, RunToAwaitMoves, AcquirePermitMoves, ExtractionAnsweredMoves,
   RatingAnsweredMoves, ProviderFailsMoves, ProviderBreaksMoves, ExpireMoves
   DEF Start, Provider

LEMMA NextKeepsInv == ServiceInv /\ [Next]_vars => ServiceInv'
<1> SUFFICES ASSUME ServiceInv, [Next]_vars PROVE ServiceInv'
  OBVIOUS
<1>1. CASE \E b \in Batches : Submit(b) \/ Refuse(b) \/ Answer(b) \/ Abort(b)
  BY <1>1, BatchStepKeepsInv
<1>2. CASE \E i \in Items : Start(i) \/ AcquirePermit(i) \/ Provider(i) \/ Expire(i)
  BY <1>2, TaskStepMoves, TaskStepKeepsInv
<1>3. CASE UNCHANGED vars
  BY <1>3 DEF vars, ServiceInv, TypeOK, SlotsAccounted, PermitsAccounted, ReadBeforeAwait,
              PhaseMatches, InBatch, InProvider, MembersOf
<1> QED BY <1>1, <1>2, <1>3 DEF Next

THEOREM ServiceInvariant == Safety => []ServiceInv
<1> QED BY InitEstablishesInv, NextKeepsInv, PTL DEF Safety

(* The state is well typed: in particular no semaphore ever counts below    *)
(* zero or above its limit.                                                 *)
THEOREM ServiceTypeCorrect == Safety => []TypeOK
<1>1. ServiceInv => TypeOK BY DEF ServiceInv
<1> QED BY <1>1, ServiceInvariant, PTL

(* No interleaving of tasks, deadlines, provider errors and exceptions      *)
(* leaks or doubles a batch slot, for every number of claims and slots.     *)
THEOREM SlotsNeverLeak == Safety => []SlotsAccounted
<1>1. ServiceInv => SlotsAccounted BY DEF ServiceInv
<1> QED BY <1>1, ServiceInvariant, PTL

(* Nor a permit of the provider's semaphore, which all batches share.       *)
THEOREM PermitsNeverLeak == Safety => []PermitsAccounted
<1>1. ServiceInv => PermitsAccounted BY DEF ServiceInv
<1> QED BY <1>1, ServiceInvariant, PTL

-----------------------------------------------------------------------------
(* What the state of one task tells: where it waits says why it is there,   *)
(* and what it ended with says how.  p is its place, r its reading, x says  *)
(* whether the extractor wrote it, and o is what the task ended with.       *)
RatingPlaces == {"rate_wait", "rating"}
Asks(i, r) == CanRate(i) /\ NeedsRater(r)

TaskSound(i, p, r, x, o) ==
  /\ o.kind = "pending" <=> p \notin Ended
  /\ o.kind = "result" <=> p = "done"
  /\ o.kind = "failure" <=> p = "failed"
  /\ o.kind = "crash" <=> p = "crashed"
  /\ p \in {"extract_wait", "extracting"} => Extracts(r)
  /\ p \in RatingPlaces => Asks(i, r)
  /\ o.kind = "result" =>
       \E v \in Verdicts \cup {NoVerdict} :
         o = Decided(r, x, v) /\ (v = NoVerdict \/ Asks(i, r))
  /\ p \in {"failed", "crashed"} /\ o.at \in Suspended => Extracts(r) \/ x \/ Asks(i, r)

TasksSound == \A i \in Items : TaskSound(i, pc[i], reading[i], extracted[i], outcome[i])

(* What a step of the task of i makes of all that.                          *)
Changes(i, q, r, x, o) ==
  /\ pc' = [pc EXCEPT ![i] = q]
  /\ reading' = [reading EXCEPT ![i] = r]
  /\ extracted' = [extracted EXCEPT ![i] = x]
  /\ outcome' = [outcome EXCEPT ![i] = o]
  /\ batch' = batch

LEMMA ChangeKeepsTasksSound ==
  ASSUME TypeOK, TasksSound, NEW i \in Items, NEW q, NEW r, NEW x, NEW o,
         Changes(i, q, r, x, o), TaskSound(i, q, r, x, o)
  PROVE  TasksSound'
<1> SUFFICES ASSUME NEW j \in Items
             PROVE  TaskSound(j, pc'[j], reading'[j], extracted'[j], outcome'[j])
  BY DEF TasksSound
<1>1. CASE j = i BY <1>1 DEF Changes, TypeOK
<1>2. CASE j # i BY <1>2 DEF Changes, TypeOK, TasksSound
<1> QED BY <1>1, <1>2

-----------------------------------------------------------------------------
(* The sets the counters count.                                             *)
InRating(p, o) ==
  \/ p \in RatingPlaces
  \/ o.kind = "result" /\ o.rated
  \/ o.kind = "failure" /\ o.at \in RatingPlaces
  \/ o.kind = "crash" /\ o.at = "rating"

DiedRating(o) ==
  o.kind = "failure" /\ o.at \in RatingPlaces /\ o.code # "verification_timeout"

Results      == {i \in Items : outcome[i].kind = "result"}
Failures     == {i \in Items : outcome[i].kind = "failure"}
Refused      == {b \in Batches : batch[b] = "refused"}
Ratings      == {i \in Items : InRating(pc[i], outcome[i])}
DeadRatings  == {i \in Items : DiedRating(outcome[i])}
RatedResults == {i \in Items : outcome[i].kind = "result" /\ outcome[i].rated}

CountersMatch ==
  /\ IsFiniteSet(Refused)
  /\ metrics["succeeded"] = Cardinality(Results)
  /\ metrics["verdicts"] = Cardinality(Results)
  /\ metrics["failed"] = Cardinality(Failures)
  /\ metrics["errors"] = Cardinality(Failures) + Cardinality(Refused)
  /\ metrics["llmRequests"] = Cardinality(Ratings)
  /\ metrics["escalations"] = Cardinality(Ratings)
  /\ metrics["llmFailures"] = Cardinality(DeadRatings)
  /\ metrics["llmRetries"] <= (MaxAttempts - 1) * Cardinality(RatedResults)

AccountsInv == ServiceInv /\ TasksSound /\ CountersMatch

(* The entries of the counters m2 against those of m: s results, f failures,*)
(* a ratings begun, d ratings failed and k retries more.                    *)
Tally(m, m2, s, f, a, d, k) ==
  /\ m2["succeeded"] = m["succeeded"] + s /\ m2["verdicts"] = m["verdicts"] + s
  /\ m2["failed"] = m["failed"] + f /\ m2["errors"] = m["errors"] + f
  /\ m2["llmRequests"] = m["llmRequests"] + a /\ m2["escalations"] = m["escalations"] + a
  /\ m2["llmFailures"] = m["llmFailures"] + d
  /\ m2["llmRetries"] = m["llmRetries"] + k

LEMMA CounterNames ==
  /\ "succeeded" \in Counters /\ "verdicts" \in Counters /\ "failed" \in Counters
  /\ "errors" \in Counters /\ "llmRequests" \in Counters /\ "escalations" \in Counters
  /\ "llmFailures" \in Counters /\ "llmRetries" \in Counters
BY DEF Counters

LEMMA RecordsTally ==
  ASSUME NEW m \in [Counters -> Nat]
  PROVE  /\ \A r \in Readings : /\ RecordRules(m, r) \in [Counters -> Nat]
                              /\ Tally(m, RecordRules(m, r), 0, 0, 0, 0, 0)
         /\ \A n \in 1..MaxAttempts : /\ RecordRetries(m, n) \in [Counters -> Nat]
                                    /\ Tally(m, RecordRetries(m, n), 0, 0, 0, 0, n - 1)
         /\ Tally(m, RecordRating(m), 0, 0, 1, 0, 0)
         /\ Tally(m, RecordSuccess(m), 1, 0, 0, 0, 0)
         /\ Tally(m, RecordFailure(m), 0, 1, 0, 0, 0)
         /\ OneMore(m, {"llmFailures"}) \in [Counters -> Nat]
         /\ Tally(m, OneMore(m, {"llmFailures"}), 0, 0, 0, 1, 0)
<1>1. \A names : OneMore(m, names) \in [Counters -> Nat] BY CountersType
<1>2. \A c \in Counters : m[c] \in Nat OBVIOUS
<1>3. /\ Tally(m, RecordRating(m), 0, 0, 1, 0, 0)
      /\ Tally(m, RecordSuccess(m), 1, 0, 0, 0, 0)
      /\ Tally(m, RecordFailure(m), 0, 1, 0, 0, 0)
      /\ Tally(m, OneMore(m, {"llmFailures"}), 0, 0, 0, 1, 0)
  BY <1>2, CounterNames DEF Tally, OneMore, RecordRating, RecordSuccess, RecordFailure
<1>4. ASSUME NEW r \in Readings
      PROVE  /\ RecordRules(m, r) \in [Counters -> Nat]
             /\ Tally(m, RecordRules(m, r), 0, 0, 0, 0, 0)
  BY <1>2, CounterNames, CountersType DEF Tally, RecordRules
<1>5. ASSUME NEW n \in 1..MaxAttempts
      PROVE  /\ RecordRetries(m, n) \in [Counters -> Nat]
             /\ Tally(m, RecordRetries(m, n), 0, 0, 0, 0, n - 1)
  BY <1>2, CounterNames, CountersType, LimitsAssumption DEF Tally, RecordRetries
<1> QED BY <1>1, <1>3, <1>4, <1>5

(* The task of i was pending and its end or its place changes: every set    *)
(* that is counted gains or loses i, or stays as it was.                    *)
LEMMA CountsFollow ==
  ASSUME TypeOK, TasksSound, NEW i \in Items, NEW q, NEW r, NEW x, NEW o,
         Changes(i, q, r, x, o), pc[i] \notin Ended
  PROVE  /\ Cardinality(Results) \in Nat /\ Cardinality(Failures) \in Nat
         /\ Cardinality(Ratings) \in Nat /\ Cardinality(DeadRatings) \in Nat
         /\ Cardinality(RatedResults) \in Nat
         /\ Cardinality(Results')
              = Cardinality(Results) + (IF o.kind = "result" THEN 1 ELSE 0)
         /\ Cardinality(Failures')
              = Cardinality(Failures) + (IF o.kind = "failure" THEN 1 ELSE 0)
         /\ Cardinality(Ratings')
              = Cardinality(Ratings) + (IF InRating(q, o) THEN 1 ELSE 0)
                                     - (IF pc[i] \in RatingPlaces THEN 1 ELSE 0)
         /\ Cardinality(DeadRatings')
              = Cardinality(DeadRatings) + (IF DiedRating(o) THEN 1 ELSE 0)
         /\ Cardinality(RatedResults')
              = Cardinality(RatedResults)
                  + (IF o.kind = "result" /\ o.rated THEN 1 ELSE 0)
<1>1. /\ pc'[i] = q /\ outcome'[i] = o /\ outcome[i].kind = "pending"
      /\ \A j \in Items : j # i => pc'[j] = pc[j] /\ outcome'[j] = outcome[j]
  BY DEF Changes, TypeOK, TasksSound, TaskSound
<1>2. \A S \in SUBSET Items : IsFiniteSet(S) BY FS_Subset, ItemsAssumption
<1>3. /\ Cardinality(Results) \in Nat
      /\ Cardinality(Results') = Cardinality(Results) + (IF o.kind = "result" THEN 1 ELSE 0)
  <2>1. \A j : j # i => (j \in Results <=> j \in Results') BY <1>1 DEF Results
  <2>2. Counts(i, Results) = 0 /\ Counts(i, Results') = IF o.kind = "result" THEN 1 ELSE 0
    BY <1>1 DEF Results, Counts
  <2>3. IsFiniteSet(Results) BY <1>2 DEF Results
  <2> QED BY <2>1, <2>2, <2>3, OneChanges
<1>4. /\ Cardinality(Failures) \in Nat
      /\ Cardinality(Failures') = Cardinality(Failures) + (IF o.kind = "failure" THEN 1 ELSE 0)
  <2>1. \A j : j # i => (j \in Failures <=> j \in Failures') BY <1>1 DEF Failures
  <2>2. Counts(i, Failures) = 0 /\ Counts(i, Failures') = IF o.kind = "failure" THEN 1 ELSE 0
    BY <1>1 DEF Failures, Counts
  <2>3. IsFiniteSet(Failures) BY <1>2 DEF Failures
  <2> QED BY <2>1, <2>2, <2>3, OneChanges
<1>5. /\ Cardinality(Ratings) \in Nat
      /\ Cardinality(Ratings')
           = Cardinality(Ratings) + (IF InRating(q, o) THEN 1 ELSE 0)
                                  - (IF pc[i] \in RatingPlaces THEN 1 ELSE 0)
  <2>1. \A j : j # i => (j \in Ratings <=> j \in Ratings') BY <1>1 DEF Ratings
  <2>2. InRating(pc[i], outcome[i]) <=> pc[i] \in RatingPlaces BY <1>1 DEF InRating
  <2>3. /\ Counts(i, Ratings) = IF pc[i] \in RatingPlaces THEN 1 ELSE 0
        /\ Counts(i, Ratings') = IF InRating(q, o) THEN 1 ELSE 0
    BY <1>1, <2>2 DEF Ratings, Counts
  <2>4. IsFiniteSet(Ratings) BY <1>2 DEF Ratings
  <2> QED BY <2>1, <2>3, <2>4, OneChanges
<1>6. /\ Cardinality(DeadRatings) \in Nat
      /\ Cardinality(DeadRatings')
           = Cardinality(DeadRatings) + (IF DiedRating(o) THEN 1 ELSE 0)
  <2>1. \A j : j # i => (j \in DeadRatings <=> j \in DeadRatings') BY <1>1 DEF DeadRatings
  <2>2. ~DiedRating(outcome[i]) BY <1>1 DEF DiedRating
  <2>3. Counts(i, DeadRatings) = 0 /\ Counts(i, DeadRatings') = IF DiedRating(o) THEN 1 ELSE 0
    BY <1>1, <2>2 DEF DeadRatings, Counts
  <2>4. IsFiniteSet(DeadRatings) BY <1>2 DEF DeadRatings
  <2> QED BY <2>1, <2>3, <2>4, OneChanges
<1>7. /\ Cardinality(RatedResults) \in Nat
      /\ Cardinality(RatedResults')
           = Cardinality(RatedResults) + (IF o.kind = "result" /\ o.rated THEN 1 ELSE 0)
  <2>1. \A j : j # i => (j \in RatedResults <=> j \in RatedResults') BY <1>1 DEF RatedResults
  <2>2. /\ Counts(i, RatedResults) = 0
        /\ Counts(i, RatedResults') = IF o.kind = "result" /\ o.rated THEN 1 ELSE 0
    BY <1>1 DEF RatedResults, Counts
  <2>3. IsFiniteSet(RatedResults) BY <1>2 DEF RatedResults
  <2> QED BY <2>1, <2>2, <2>3, OneChanges
<1> QED BY <1>3, <1>4, <1>5, <1>6, <1>7

LEMMA CountersFollow ==
  ASSUME TypeOK, TasksSound, CountersMatch, NEW i \in Items,
         NEW q, NEW r, NEW x, NEW o, NEW k \in Nat,
         Changes(i, q, r, x, o), pc[i] \notin Ended,
         Tally(metrics, metrics',
               IF o.kind = "result" THEN 1 ELSE 0, IF o.kind = "failure" THEN 1 ELSE 0,
               (IF InRating(q, o) THEN 1 ELSE 0) - (IF pc[i] \in RatingPlaces THEN 1 ELSE 0),
               IF DiedRating(o) THEN 1 ELSE 0, k),
         k <= IF o.kind = "result" /\ o.rated THEN MaxAttempts - 1 ELSE 0
  PROVE  CountersMatch'
<1> DEFINE s == IF o.kind = "result" THEN 1 ELSE 0
           f == IF o.kind = "failure" THEN 1 ELSE 0
           a == IF InRating(q, o) THEN 1 ELSE 0
           b == IF pc[i] \in RatingPlaces THEN 1 ELSE 0
           d == IF DiedRating(o) THEN 1 ELSE 0
           t == IF o.kind = "result" /\ o.rated THEN 1 ELSE 0
<1>1. /\ s \in {0, 1} /\ f \in {0, 1} /\ a \in {0, 1} /\ b \in {0, 1}
      /\ d \in {0, 1} /\ t \in {0, 1}
  OBVIOUS
<1>2. /\ Cardinality(Results) \in Nat /\ Cardinality(Failures) \in Nat
      /\ Cardinality(Ratings) \in Nat /\ Cardinality(DeadRatings) \in Nat
      /\ Cardinality(RatedResults) \in Nat
      /\ Cardinality(Results') = Cardinality(Results) + s
      /\ Cardinality(Failures') = Cardinality(Failures) + f
      /\ Cardinality(Ratings') = Cardinality(Ratings) + a - b
      /\ Cardinality(DeadRatings') = Cardinality(DeadRatings) + d
      /\ Cardinality(RatedResults') = Cardinality(RatedResults) + t
  BY CountsFollow
<1>3. Tally(metrics, metrics', s, f, a - b, d, k) OBVIOUS
<1>4. k <= (MaxAttempts - 1) * t
  <2>1. CASE o.kind = "result" /\ o.rated
    <3>1. t = 1 /\ k <= MaxAttempts - 1 BY <2>1
    <3> QED BY <3>1, LimitsAssumption
  <2>2. CASE ~(o.kind = "result" /\ o.rated)
    <3>1. t = 0 /\ k <= 0 BY <2>2
    <3> QED BY <3>1, LimitsAssumption
  <2> QED BY <2>1, <2>2
<1> HIDE DEF s, f, a, b, d, t
<1>5. Refused' = Refused BY DEF Refused, Changes
<1>6. Cardinality(Refused) \in Nat BY FS_CardinalityType DEF CountersMatch
<1>7. IsFiniteSet(Refused') /\ Cardinality(Refused') = Cardinality(Refused)
  BY <1>5 DEF CountersMatch
<1>8. /\ metrics'["succeeded"] = Cardinality(Results')
      /\ metrics'["verdicts"] = Cardinality(Results')
      /\ metrics'["failed"] = Cardinality(Failures')
      /\ metrics'["errors"] = Cardinality(Failures') + Cardinality(Refused')
      /\ metrics'["llmRequests"] = Cardinality(Ratings')
      /\ metrics'["escalations"] = Cardinality(Ratings')
      /\ metrics'["llmFailures"] = Cardinality(DeadRatings')
  BY <1>1, <1>2, <1>3, <1>6, <1>7 DEF CountersMatch, Tally
<1>9. metrics'["llmRetries"] <= (MaxAttempts - 1) * Cardinality(RatedResults')
  <2> DEFINE M == MaxAttempts - 1
             n == Cardinality(RatedResults)
             old == metrics["llmRetries"]
  <2>1. M \in Nat /\ n \in Nat /\ t \in Nat /\ old \in Nat
    BY <1>1, <1>2, LimitsAssumption, CounterNames DEF TypeOK
  <2>2. /\ metrics'["llmRetries"] = old + k /\ old <= M * n /\ k <= M * t
        /\ Cardinality(RatedResults') = n + t
    BY <1>2, <1>3, <1>4 DEF CountersMatch, Tally
  <2> HIDE DEF M, n, old
  <2>3. M * (n + t) = M * n + M * t /\ M * n \in Nat /\ M * t \in Nat BY <2>1
  <2> QED BY <2>1, <2>2, <2>3 DEF M
<1> QED BY <1>7, <1>8, <1>9 DEF CountersMatch

-----------------------------------------------------------------------------
(* Each operation of a task keeps both.                                     *)

(* What the counters have to record of a step that leaves claim i in q with *)
(* the end o.                                                               *)
Recorded(i, q, o, m, m2, k) ==
  /\ Tally(m, m2,
           IF o.kind = "result" THEN 1 ELSE 0, IF o.kind = "failure" THEN 1 ELSE 0,
           (IF InRating(q, o) THEN 1 ELSE 0) - (IF pc[i] \in RatingPlaces THEN 1 ELSE 0),
           IF DiedRating(o) THEN 1 ELSE 0, k)
  /\ k <= IF o.kind = "result" /\ o.rated THEN MaxAttempts - 1 ELSE 0

Accounted == TasksSound /\ CountersMatch

LEMMA TaskStepAccounted ==
  ASSUME AccountsInv, NEW i \in Items, NEW q, NEW r, NEW x, NEW o, NEW k \in Nat,
         Changes(i, q, r, x, o), pc[i] \notin Ended, TaskSound(i, q, r, x, o),
         Recorded(i, q, o, metrics, metrics', k)
  PROVE  Accounted'
<1>1. TypeOK BY DEF AccountsInv, ServiceInv
<1>2. TasksSound' BY <1>1, ChangeKeepsTasksSound DEF AccountsInv
<1>3. CountersMatch' BY <1>1, CountersFollow DEF AccountsInv, Recorded
<1> QED BY <1>2, <1>3 DEF Accounted

(* A task that moves on without an end keeps what it has.                   *)
LEMMA Unended ==
  ASSUME AccountsInv, NEW i \in Items, pc[i] \notin Ended
  PROVE  /\ TypeOK /\ metrics \in [Counters -> Nat]
         /\ TaskSound(i, pc[i], reading[i], extracted[i], outcome[i])
         /\ outcome[i].kind = "pending"
         /\ outcome = [outcome EXCEPT ![i] = outcome[i]]
         /\ reading = [reading EXCEPT ![i] = reading[i]]
         /\ extracted = [extracted EXCEPT ![i] = extracted[i]]
BY DEF AccountsInv, ServiceInv, TypeOK, TasksSound, TaskSound

LEMMA EndPlaces ==
  /\ \A place \in Ended : place \notin RatingPlaces /\ place \notin Suspended
                        /\ place \notin {"extract_wait", "extracting"}
  /\ "queued" \notin Ended /\ "queued" \notin RatingPlaces /\ "queued" \notin Suspended
  /\ \A place \in Suspended : place \notin Ended
BY DEF Ended, RatingPlaces, Suspended, Calling, Waiting

(* An end in a place that has to do with no rating, or a rating's.          *)
LEMMA FailureSound ==
  ASSUME NEW i, NEW r, NEW x, NEW code, NEW at,
         at \in Suspended => Extracts(r) \/ x \/ Asks(i, r)
  PROVE  LET o == Failure(code, at)
         IN  /\ PlaceOf(o) = "failed" /\ TaskSound(i, "failed", r, x, o)
             /\ o.kind = "failure"
             /\ InRating("failed", o) <=> at \in RatingPlaces
             /\ DiedRating(o) <=> at \in RatingPlaces /\ code # "verification_timeout"
BY DEF Failure, PlaceOf, TaskSound, InRating, DiedRating, Ended, RatingPlaces

LEMMA DecidedSound ==
  ASSUME NEW i, NEW r, NEW x, NEW v \in Verdicts \cup {NoVerdict}, v = NoVerdict \/ Asks(i, r)
  PROVE  LET o == Decided(r, x, v)
         IN  /\ PlaceOf(o) = "done" /\ TaskSound(i, "done", r, x, o)
             /\ o.kind = "result" /\ o.rated = (v # NoVerdict)
             /\ InRating("done", o) <=> v # NoVerdict
             /\ ~DiedRating(o)
<1> DEFINE o == Decided(r, x, v)
<1>1. o.kind = "result" /\ o.rated = (v # NoVerdict) BY DEF Decided, Result
<1>2. PlaceOf(o) = "done" BY <1>1 DEF PlaceOf
<1>3. \E w \in Verdicts \cup {NoVerdict} : o = Decided(r, x, w) /\ (w = NoVerdict \/ Asks(i, r))
  OBVIOUS
<1> HIDE DEF o
<1>4. TaskSound(i, "done", r, x, o) BY <1>1, <1>3 DEF TaskSound, Ended, RatingPlaces
<1> QED BY <1>1, <1>2, <1>4 DEF InRating, DiedRating, RatingPlaces, o

LEMMA AtOnceSound ==
  ASSUME NEW i \in Items, NEW r \in Readings, NEW x \in BOOLEAN,
         NEW at \in {"queued", "extracting"}, at = "extracting" => x,
         pc[i] \notin RatingPlaces, NEW m \in [Counters -> Nat]
  PROVE  LET o == OutcomeAtOnce(r, x, at)
         IN  /\ TaskSound(i, PlaceOf(o), r, x, o)
             /\ Recorded(i, PlaceOf(o), o, m, RecordEnd(RulesRecorded(m, r), o), 0)
<1> DEFINE o == OutcomeAtOnce(r, x, at)
           n == RulesRecorded(m, r)
<1>1. n \in [Counters -> Nat] /\ Tally(m, n, 0, 0, 0, 0, 0)
  <2>1. /\ RecordRules(m, r) \in [Counters -> Nat] /\ Tally(m, RecordRules(m, r), 0, 0, 0, 0, 0)
    BY RecordsTally
  <2>2. Tally(m, m, 0, 0, 0, 0, 0) BY CounterNames DEF Tally
  <2> QED BY <2>1, <2>2 DEF RulesRecorded
<1> HIDE DEF n
<1>2. Tally(n, RecordSuccess(n), 1, 0, 0, 0, 0) /\ Tally(n, RecordFailure(n), 0, 1, 0, 0, 0)
  BY <1>1, RecordsTally
<1>3. /\ Tally(m, RecordSuccess(n), 1, 0, 0, 0, 0)
      /\ Tally(m, RecordFailure(n), 0, 1, 0, 0, 0)
  BY <1>1, <1>2, CounterNames DEF Tally
<1>4. at \notin RatingPlaces BY DEF RatingPlaces
<1>5. CASE \E code : o = Failure(code, at)
  <2>1. PICK code : o = Failure(code, at) BY <1>5
  <2>2. at \in Suspended => Extracts(r) \/ x \/ Asks(i, r)
    BY EndPlaces
  <2> HIDE DEF o
  <2>3. /\ PlaceOf(o) = "failed" /\ TaskSound(i, "failed", r, x, o) /\ o.kind = "failure"
        /\ ~InRating("failed", o) /\ ~DiedRating(o)
    BY <1>4, <2>1, <2>2, FailureSound
  <2>4. RecordEnd(n, o) = RecordFailure(n) BY <2>3 DEF RecordEnd
  <2>5. Recorded(i, "failed", o, m, RecordEnd(n, o), 0)
    BY <1>3, <2>3, <2>4 DEF Recorded
  <2> QED BY <2>3, <2>5 DEF o, n
<1>6. CASE o = Decided(r, x, NoVerdict)
  <2>1. NoVerdict \in Verdicts \cup {NoVerdict} OBVIOUS
  <2> HIDE DEF o
  <2>2. /\ PlaceOf(o) = "done" /\ TaskSound(i, "done", r, x, o) /\ o.kind = "result"
        /\ ~o.rated /\ ~InRating("done", o) /\ ~DiedRating(o)
    BY <1>6, <2>1, DecidedSound
  <2>3. RecordEnd(n, o) = RecordSuccess(n) BY <2>2 DEF RecordEnd
  <2>4. Recorded(i, "done", o, m, RecordEnd(n, o), 0)
    BY <1>3, <2>2, <2>3 DEF Recorded
  <2> QED BY <2>2, <2>4 DEF o, n
<1> QED BY <1>5, <1>6 DEF OutcomeAtOnce

LEMMA RunToEndAccounted ==
  ASSUME AccountsInv, NEW i \in Items, RunToEnd(i)
  PROVE  Accounted'
<1>1. pc[i] = "queued" /\ pc[i] \notin Ended /\ pc[i] \notin RatingPlaces /\ batch' = batch
  BY EndPlaces DEF RunToEnd
<1>2. metrics \in [Counters -> Nat] BY <1>1, Unended
<1>3. PICK r \in Readings :
         /\ Read(i, r, FALSE)
         /\ \/ /\ End(i, Failure("invalid_claim", "queued"))
               /\ metrics' = RecordFailure(metrics)
            \/ /\ End(i, OutcomeAtOnce(r, FALSE, "queued"))
               /\ metrics' = RecordEnd(RulesRecorded(metrics, r), OutcomeAtOnce(r, FALSE, "queued"))
  BY DEF RunToEnd
<1>4. CASE /\ End(i, Failure("invalid_claim", "queued"))
           /\ metrics' = RecordFailure(metrics)
  <2> DEFINE o == Failure("invalid_claim", "queued")
  <2>1. /\ PlaceOf(o) = "failed" /\ TaskSound(i, "failed", r, FALSE, o) /\ o.kind = "failure"
        /\ ~InRating("failed", o) /\ ~DiedRating(o)
    BY EndPlaces, FailureSound
  <2>2. Changes(i, "failed", r, FALSE, o) BY <1>1, <1>3, <1>4, <2>1 DEF Changes, Read, End
  <2>3. Tally(metrics, metrics', 0, 1, 0, 0, 0) BY <1>2, <1>4, RecordsTally
  <2> HIDE DEF o
  <2>4. Recorded(i, "failed", o, metrics, metrics', 0) BY <1>1, <2>1, <2>3 DEF Recorded
  <2> QED BY <1>1, <2>1, <2>2, <2>4, TaskStepAccounted
<1>5. CASE /\ End(i, OutcomeAtOnce(r, FALSE, "queued"))
           /\ metrics' = RecordEnd(RulesRecorded(metrics, r), OutcomeAtOnce(r, FALSE, "queued"))
  <2> DEFINE o == OutcomeAtOnce(r, FALSE, "queued")
  <2>1. /\ TaskSound(i, PlaceOf(o), r, FALSE, o)
        /\ Recorded(i, PlaceOf(o), o, metrics, metrics', 0)
    BY <1>1, <1>2, <1>5, AtOnceSound
  <2>2. Changes(i, PlaceOf(o), r, FALSE, o) BY <1>1, <1>3, <1>5 DEF Changes, Read, End
  <2> HIDE DEF o
  <2> QED BY <1>1, <2>1, <2>2, TaskStepAccounted
<1> QED BY <1>3, <1>4, <1>5

(* A task that goes to wait for the provider has no end yet; if it waits    *)
(* for a rating, one more has been asked for.                               *)
LEMMA AwaitAccounted ==
  ASSUME AccountsInv, NEW i \in Items, NEW q \in Waiting, NEW r \in Readings, NEW x \in BOOLEAN,
         pc[i] \in {"queued", "extracting"}, Read(i, r, x),
         pc' = [pc EXCEPT ![i] = q], batch' = batch, outcome' = outcome,
         IF q = "extract_wait"
         THEN Extracts(r) /\ metrics' = metrics
         ELSE Asks(i, r) /\ metrics' = RecordRating(RecordRules(metrics, r))
  PROVE  Accounted'
<1>1. pc[i] \notin Ended /\ pc[i] \notin RatingPlaces /\ q \notin Ended
      /\ q \in {"extract_wait", "rate_wait"}
  BY DEF Ended, RatingPlaces, Waiting
<1>2. /\ metrics \in [Counters -> Nat] /\ outcome[i].kind = "pending"
      /\ outcome' = [outcome EXCEPT ![i] = outcome[i]]
  BY <1>1, Unended
<1> DEFINE o == outcome[i]
<1>3. Changes(i, q, r, x, o) BY <1>2 DEF Changes, Read
<1>4. TaskSound(i, q, r, x, o)
  BY <1>1, <1>2 DEF TaskSound, RatingPlaces, Ended
<1>5. InRating(q, o) <=> q = "rate_wait" BY <1>1, <1>2 DEF InRating, RatingPlaces
<1>6. Tally(metrics, metrics', 0, 0, IF q = "rate_wait" THEN 1 ELSE 0, 0, 0)
  <2>1. CASE q = "extract_wait" BY <1>2, <2>1, CounterNames DEF Tally
  <2>2. CASE q = "rate_wait"
    <3> DEFINE n == RecordRules(metrics, r)
    <3>1. n \in [Counters -> Nat] /\ Tally(metrics, n, 0, 0, 0, 0, 0) BY <1>2, RecordsTally
    <3>2. metrics' = RecordRating(n) BY <2>2
    <3> HIDE DEF n
    <3>3. Tally(n, metrics', 0, 0, 1, 0, 0) BY <3>1, <3>2, RecordsTally
    <3>4. Tally(metrics, metrics', 0, 0, 1, 0, 0) BY <1>2, <3>1, <3>3, CounterNames DEF Tally
    <3> QED BY <2>2, <3>4
  <2> QED BY <1>1, <2>1, <2>2
<1>7. Recorded(i, q, o, metrics, metrics', 0)
  <2>1. o.kind = "pending" /\ ~DiedRating(o) BY <1>2 DEF DiedRating
  <2> HIDE DEF o
  <2> QED BY <1>1, <1>5, <1>6, <2>1 DEF Recorded
<1> QED BY <1>1, <1>3, <1>4, <1>7, TaskStepAccounted

LEMMA RunToAwaitAccounted ==
  ASSUME AccountsInv, NEW i \in Items, RunToAwait(i)
  PROVE  Accounted'
<1>1. PICK r \in Readings :
         /\ Read(i, r, FALSE)
         /\ \/ /\ Extracts(r)
               /\ pc' = [pc EXCEPT ![i] = "extract_wait"]
               /\ UNCHANGED metrics
            \/ /\ ~EndsAtOnce(i, r)
               /\ pc' = [pc EXCEPT ![i] = "rate_wait"]
               /\ metrics' = RecordRating(RecordRules(metrics, r))
  BY DEF RunToAwait
<1>2. ~EndsAtOnce(i, r) => Asks(i, r) BY DEF EndsAtOnce, Asks
<1>3. pc[i] = "queued" /\ batch' = batch /\ outcome' = outcome BY DEF RunToAwait
<1>4. "extract_wait" \in Waiting /\ "rate_wait" \in Waiting BY DEF Waiting
<1> QED BY <1>1, <1>2, <1>3, <1>4, AwaitAccounted

LEMMA AcquirePermitAccounted ==
  ASSUME AccountsInv, NEW i \in Items, AcquirePermit(i)
  PROVE  Accounted'
<1> DEFINE q == IF pc[i] = "extract_wait" THEN "extracting" ELSE "rating"
           o == outcome[i]
<1>1. pc[i] \in {"extract_wait", "rate_wait"} /\ pc[i] \notin Ended
  BY DEF AcquirePermit, Waiting, Ended
<1>2. /\ TypeOK /\ metrics \in [Counters -> Nat] /\ o.kind = "pending"
      /\ TaskSound(i, pc[i], reading[i], extracted[i], o)
      /\ outcome = [outcome EXCEPT ![i] = o]
      /\ reading = [reading EXCEPT ![i] = reading[i]]
      /\ extracted = [extracted EXCEPT ![i] = extracted[i]]
  BY <1>1, Unended
<1>3. Changes(i, q, reading[i], extracted[i], o)
  BY <1>2 DEF Changes, AcquirePermit, TypeOK
<1>4. TaskSound(i, q, reading[i], extracted[i], o)
  BY <1>1, <1>2 DEF TaskSound, RatingPlaces, Ended
<1>5. /\ InRating(q, o) <=> pc[i] \in RatingPlaces
      /\ ~DiedRating(o)
  BY <1>1, <1>2 DEF InRating, DiedRating, RatingPlaces
<1>6. Tally(metrics, metrics', 0, 0, 0, 0, 0)
  BY <1>2, CounterNames DEF Tally, AcquirePermit
<1> HIDE DEF o, q
<1>7. Recorded(i, q, o, metrics, metrics', 0) BY <1>2, <1>5, <1>6 DEF Recorded
<1> QED BY <1>1, <1>3, <1>4, <1>7, TaskStepAccounted

LEMMA ExtractionAnsweredAccounted ==
  ASSUME AccountsInv, NEW i \in Items, ExtractionAnswered(i)
  PROVE  Accounted'
<1>1. /\ pc[i] = "extracting" /\ pc[i] \notin Ended /\ pc[i] \notin RatingPlaces
      /\ batch' = batch
  BY DEF ExtractionAnswered, Ended, RatingPlaces
<1>2. metrics \in [Counters -> Nat] BY <1>1, Unended
<1>3. PICK r \in Readings :
         /\ Read(i, r, TRUE)
         /\ \/ /\ End(i, OutcomeAtOnce(r, TRUE, "extracting"))
               /\ metrics' = RecordEnd(RulesRecorded(metrics, r),
                                       OutcomeAtOnce(r, TRUE, "extracting"))
            \/ /\ ~EndsAtOnce(i, r)
               /\ pc' = [pc EXCEPT ![i] = "rate_wait"]
               /\ metrics' = RecordRating(RecordRules(metrics, r))
               /\ outcome' = outcome
  BY DEF ExtractionAnswered
<1>4. CASE /\ End(i, OutcomeAtOnce(r, TRUE, "extracting"))
           /\ metrics' = RecordEnd(RulesRecorded(metrics, r), OutcomeAtOnce(r, TRUE, "extracting"))
  <2> DEFINE o == OutcomeAtOnce(r, TRUE, "extracting")
  <2>1. /\ TaskSound(i, PlaceOf(o), r, TRUE, o)
        /\ Recorded(i, PlaceOf(o), o, metrics, metrics', 0)
    BY <1>1, <1>2, <1>4, AtOnceSound
  <2>2. Changes(i, PlaceOf(o), r, TRUE, o) BY <1>1, <1>3, <1>4 DEF Changes, Read, End
  <2> HIDE DEF o
  <2> QED BY <1>1, <2>1, <2>2, TaskStepAccounted
<1>5. CASE /\ ~EndsAtOnce(i, r)
           /\ pc' = [pc EXCEPT ![i] = "rate_wait"]
           /\ metrics' = RecordRating(RecordRules(metrics, r))
           /\ outcome' = outcome
  <2>1. Asks(i, r) BY <1>5 DEF EndsAtOnce, Asks
  <2>2. "rate_wait" \in Waiting BY DEF Waiting
  <2> QED BY <1>1, <1>3, <1>5, <2>1, <2>2, AwaitAccounted
<1> QED BY <1>3, <1>4, <1>5

LEMMA RatingAnsweredAccounted ==
  ASSUME AccountsInv, NEW i \in Items, RatingAnswered(i)
  PROVE  Accounted'
<1>1. pc[i] = "rating" /\ pc[i] \in RatingPlaces /\ pc[i] \notin Ended
  BY DEF RatingAnswered, RatingPlaces, Ended
<1>2. /\ metrics \in [Counters -> Nat]
      /\ TaskSound(i, pc[i], reading[i], extracted[i], outcome[i])
      /\ reading = [reading EXCEPT ![i] = reading[i]]
      /\ extracted = [extracted EXCEPT ![i] = extracted[i]]
  BY <1>1, Unended
<1>3. PICK v \in Verdicts, n \in 1..MaxAttempts :
         /\ End(i, Decided(reading[i], extracted[i], v))
         /\ metrics' = RecordSuccess(RecordRetries(metrics, n))
  BY DEF RatingAnswered
<1> DEFINE o == Decided(reading[i], extracted[i], v)
<1>4. Asks(i, reading[i]) BY <1>1, <1>2 DEF TaskSound
<1>5. v # NoVerdict BY DEF Verdicts, NoVerdict
<1>6. /\ PlaceOf(o) = "done" /\ TaskSound(i, "done", reading[i], extracted[i], o)
      /\ o.kind = "result" /\ o.rated /\ InRating("done", o) /\ ~DiedRating(o)
  <2>1. v \in Verdicts \cup {NoVerdict} OBVIOUS
  <2>2. /\ PlaceOf(o) = "done" /\ TaskSound(i, "done", reading[i], extracted[i], o)
        /\ o.kind = "result" /\ o.rated = (v # NoVerdict)
        /\ (InRating("done", o) <=> v # NoVerdict) /\ ~DiedRating(o)
    BY <1>4, <2>1, DecidedSound
  <2> HIDE DEF o
  <2> QED BY <1>5, <2>2
<1>7. Changes(i, "done", reading[i], extracted[i], o)
  BY <1>2, <1>3, <1>6 DEF Changes, End, RatingAnswered
<1> HIDE DEF o
<1>8. n - 1 \in Nat /\ n - 1 <= MaxAttempts - 1 BY LimitsAssumption
<1>9. Tally(metrics, metrics', 1, 0, 0, 0, n - 1)
  <2> DEFINE m == RecordRetries(metrics, n)
  <2>1. m \in [Counters -> Nat] /\ Tally(metrics, m, 0, 0, 0, 0, n - 1) BY <1>2, RecordsTally
  <2>2. metrics' = RecordSuccess(m) BY <1>3
  <2> HIDE DEF m
  <2>3. Tally(m, metrics', 1, 0, 0, 0, 0) BY <2>1, <2>2, RecordsTally
  <2> QED BY <1>2, <1>8, <2>1, <2>3, CounterNames DEF Tally
<1>10. Recorded(i, "done", o, metrics, metrics', n - 1)
  BY <1>1, <1>6, <1>8, <1>9 DEF Recorded
<1> QED BY <1>1, <1>6, <1>7, <1>8, <1>10, TaskStepAccounted

(* A call that fails, or a task that is cut off at any of its awaits.       *)
LEMMA FailureAccounted ==
  ASSUME AccountsInv, NEW i \in Items, NEW code, pc[i] \in Suspended,
         End(i, Failure(code, pc[i])),
         batch' = batch, reading' = reading, extracted' = extracted,
         metrics' = RecordFailure(IF pc[i] \in RatingPlaces /\ code # "verification_timeout"
                                  THEN OneMore(metrics, {"llmFailures"}) ELSE metrics)
  PROVE  Accounted'
<1> DEFINE o == Failure(code, pc[i])
           d == IF pc[i] \in RatingPlaces /\ code # "verification_timeout" THEN 1 ELSE 0
<1>1. pc[i] \notin Ended BY EndPlaces
<1>2. /\ metrics \in [Counters -> Nat]
      /\ TaskSound(i, pc[i], reading[i], extracted[i], outcome[i])
      /\ reading = [reading EXCEPT ![i] = reading[i]]
      /\ extracted = [extracted EXCEPT ![i] = extracted[i]]
  BY <1>1, Unended
<1>3. Extracts(reading[i]) \/ extracted[i] \/ Asks(i, reading[i])
  BY <1>2 DEF TaskSound, Suspended, Calling, Waiting, RatingPlaces
<1>4. /\ PlaceOf(o) = "failed" /\ TaskSound(i, "failed", reading[i], extracted[i], o)
      /\ o.kind = "failure" /\ (InRating("failed", o) <=> pc[i] \in RatingPlaces)
      /\ (DiedRating(o) <=> d = 1)
  BY <1>3, FailureSound
<1>5. Changes(i, "failed", reading[i], extracted[i], o)
  BY <1>2, <1>4 DEF Changes, End
<1>6. Tally(metrics, metrics', 0, 1, 0, d, 0)
  <2> DEFINE m == IF pc[i] \in RatingPlaces /\ code # "verification_timeout"
                  THEN OneMore(metrics, {"llmFailures"}) ELSE metrics
  <2>1. m \in [Counters -> Nat] /\ Tally(metrics, m, 0, 0, 0, d, 0)
    BY <1>2, RecordsTally, CounterNames DEF Tally
  <2>2. metrics' = RecordFailure(m) OBVIOUS
  <2>3. d \in {0, 1} OBVIOUS
  <2> HIDE DEF m, d
  <2>4. Tally(m, metrics', 0, 1, 0, 0, 0) BY <2>1, <2>2, RecordsTally
  <2> QED BY <1>2, <2>1, <2>3, <2>4, CounterNames DEF Tally
<1>7. d \in {0, 1} OBVIOUS
<1> HIDE DEF o, d
<1>8. Recorded(i, "failed", o, metrics, metrics', 0)
  BY <1>4, <1>6, <1>7 DEF Recorded
<1> QED BY <1>1, <1>4, <1>5, <1>8, TaskStepAccounted

LEMMA ProviderBreaksAccounted ==
  ASSUME AccountsInv, NEW i \in Items, ProviderBreaks(i)
  PROVE  Accounted'
<1> DEFINE o == Crash(pc[i])
<1>1. pc[i] \in {"extracting", "rating"} /\ pc[i] \notin Ended
  BY DEF ProviderBreaks, Calling, Ended
<1>2. /\ metrics \in [Counters -> Nat]
      /\ TaskSound(i, pc[i], reading[i], extracted[i], outcome[i])
      /\ reading = [reading EXCEPT ![i] = reading[i]]
      /\ extracted = [extracted EXCEPT ![i] = extracted[i]]
  BY <1>1, Unended
<1>3. Extracts(reading[i]) \/ extracted[i] \/ Asks(i, reading[i])
  BY <1>1, <1>2 DEF TaskSound, RatingPlaces
<1>4. PlaceOf(o) = "crashed" /\ o.kind = "crash" BY DEF PlaceOf, Crash
<1>5. TaskSound(i, "crashed", reading[i], extracted[i], o)
  BY <1>3, <1>4 DEF TaskSound, Ended, RatingPlaces
<1>6. InRating("crashed", o) <=> pc[i] \in RatingPlaces
  BY <1>1 DEF InRating, RatingPlaces, Crash
<1>7. ~DiedRating(o) BY <1>4 DEF DiedRating
<1>8. Changes(i, "crashed", reading[i], extracted[i], o)
  BY <1>2, <1>4 DEF Changes, End, ProviderBreaks
<1>9. Tally(metrics, metrics', 0, 0, 0, 0, 0)
  BY <1>2, CounterNames DEF Tally, ProviderBreaks
<1> HIDE DEF o
<1>10. Recorded(i, "crashed", o, metrics, metrics', 0)
  BY <1>4, <1>6, <1>7, <1>9 DEF Recorded
<1> QED BY <1>1, <1>5, <1>8, <1>10, TaskStepAccounted

LEMMA TaskAccounted ==
  ASSUME AccountsInv, NEW i \in Items,
         Start(i) \/ AcquirePermit(i) \/ Provider(i) \/ Expire(i)
  PROVE  Accounted'
<1>1. CASE ProviderFails(i)
  <2>1. PICK code \in ProviderErrors : End(i, Failure(code, pc[i])) BY <1>1 DEF ProviderFails
  <2>2. code # "verification_timeout" BY ErrorsAssumption
  <2>3. pc[i] \in Suspended /\ (pc[i] \in RatingPlaces <=> pc[i] = "rating")
    BY <1>1 DEF ProviderFails, Suspended, Calling, RatingPlaces
  <2> QED BY <1>1, <2>1, <2>2, <2>3, FailureAccounted DEF ProviderFails
<1>2. CASE Expire(i) BY <1>2, FailureAccounted DEF Expire
<1> QED
  BY <1>1, <1>2, RunToEndAccounted, RunToAwaitAccounted, AcquirePermitAccounted,
     ExtractionAnsweredAccounted, RatingAnsweredAccounted, ProviderBreaksAccounted
  DEF Start, Provider

(* A step of a batch ends no task and begins no rating; it counts a refusal.*)
LEMMA BatchAccounted ==
  ASSUME AccountsInv, NEW b \in Batches, Submit(b) \/ Refuse(b) \/ Answer(b) \/ Abort(b)
  PROVE  Accounted'
<1>1. /\ TypeOK /\ metrics \in [Counters -> Nat] /\ TasksSound /\ CountersMatch
      /\ UNCHANGED <<reading, extracted, outcome>>
  BY DEF AccountsInv, ServiceInv, TypeOK, Submit, Refuse, Answer, Abort
<1>2. \A i \in Items : pc'[i] = pc[i] \/ (pc[i] = "idle" /\ pc'[i] = "queued")
  BY <1>1 DEF AccountsInv, Submit, Refuse, Answer, Abort, ServiceInv, PhaseMatches, TypeOK
<1>3. TasksSound'
  <2> SUFFICES ASSUME NEW i \in Items
               PROVE  TaskSound(i, pc'[i], reading[i], extracted[i], outcome[i])
    BY <1>1 DEF TasksSound
  <2>1. TaskSound(i, pc[i], reading[i], extracted[i], outcome[i]) BY <1>1 DEF TasksSound
  <2>2. CASE pc[i] = "idle" /\ pc'[i] = "queued"
    BY <2>1, <2>2 DEF TaskSound, Ended, RatingPlaces
  <2> QED BY <1>2, <2>1, <2>2
<1>4. /\ Results' = Results /\ Failures' = Failures /\ DeadRatings' = DeadRatings
      /\ RatedResults' = RatedResults
  BY <1>1 DEF Results, Failures, DeadRatings, RatedResults
<1>5. Ratings' = Ratings
  <2>1. \A i \in Items : InRating(pc'[i], outcome[i]) <=> InRating(pc[i], outcome[i])
    BY <1>2 DEF InRating, RatingPlaces
  <2> QED BY <1>1, <2>1 DEF Ratings
<1>6. CASE Refuse(b)
  <2>1. IsFiniteSet(Refused) BY <1>1 DEF CountersMatch
  <2>2. \A c : c # b => (c \in Refused <=> c \in Refused')
    BY <1>1, <1>6 DEF Refuse, Refused, TypeOK
  <2>3. Counts(b, Refused) = 0 /\ Counts(b, Refused') = 1
    BY <1>1, <1>6 DEF Refuse, Refused, Counts, TypeOK
  <2>4. /\ IsFiniteSet(Refused') /\ Cardinality(Refused) \in Nat
        /\ Cardinality(Refused') = Cardinality(Refused) + 1
    BY <2>1, <2>2, <2>3, OneChanges
  <2>5. /\ \A c \in Counters \ {"errors"} : metrics'[c] = metrics[c]
        /\ metrics'["errors"] = metrics["errors"] + 1
    BY <1>1, <1>6, CounterNames DEF Refuse, OneMore
  <2>6. Cardinality(Failures) \in Nat
    <3>1. Failures \in SUBSET Items BY DEF Failures
    <3> QED BY <3>1, FS_Subset, FS_CardinalityType, ItemsAssumption
  <2>7. metrics'["errors"] = Cardinality(Failures) + Cardinality(Refused')
    BY <1>1, <2>4, <2>5, <2>6 DEF CountersMatch
  <2>8. CountersMatch' BY <1>1, <1>4, <1>5, <2>4, <2>5, <2>7, CounterNames DEF CountersMatch
  <2> QED BY <1>3, <2>8 DEF Accounted
<1>7. CASE ~Refuse(b)
  <2>1. \A c \in Counters \ {"batches"} : metrics'[c] = metrics[c]
    BY <1>1, <1>7 DEF Submit, Answer, Abort, OneMore
  <2>2. Refused' = Refused
    BY <1>1, <1>7 DEF Submit, Answer, Abort, Refused, TypeOK
  <2>3. "batches" \notin {"succeeded", "verdicts", "failed", "errors", "llmRequests",
                         "escalations", "llmFailures", "llmRetries"}
    OBVIOUS
  <2>4. CountersMatch'
    BY <1>1, <1>4, <1>5, <2>1, <2>2, <2>3, CounterNames DEF CountersMatch
  <2> QED BY <1>3, <2>4 DEF Accounted
<1> QED BY <1>6, <1>7

LEMMA InitAccounted == Init => AccountsInv
<1> SUFFICES ASSUME Init PROVE AccountsInv
  OBVIOUS
<1>1. TasksSound
  BY DEF Init, TasksSound, TaskSound, Pending, Ended, RatingPlaces
<1>2. CountersMatch
  <2>1. \A i \in Items : outcome[i].kind = "pending" /\ pc[i] = "idle"
    BY DEF Init, Pending
  <2>2. Results = {} /\ Failures = {} /\ DeadRatings = {} /\ RatedResults = {}
    BY <2>1 DEF Results, Failures, DeadRatings, RatedResults, DiedRating
  <2>3. Ratings = {} BY <2>1 DEF Ratings, InRating, RatingPlaces
  <2>4. Refused = {} BY DEF Init, Refused
  <2>5. \A c \in Counters : metrics[c] = 0 BY DEF Init
  <2>6. IsFiniteSet({}) /\ Cardinality({}) = 0 BY FS_EmptySet
  <2>7. 0 <= (MaxAttempts - 1) * 0 BY LimitsAssumption
  <2> QED BY <2>2, <2>3, <2>4, <2>5, <2>6, <2>7, CounterNames DEF CountersMatch
<1> QED BY <1>1, <1>2, InitEstablishesInv DEF AccountsInv

LEMMA NextAccounted == AccountsInv /\ [Next]_vars => AccountsInv'
<1> SUFFICES ASSUME AccountsInv, [Next]_vars PROVE AccountsInv'
  OBVIOUS
<1>1. ServiceInv' BY NextKeepsInv DEF AccountsInv
<1>2. Accounted'
  <2>1. CASE \E b \in Batches : Submit(b) \/ Refuse(b) \/ Answer(b) \/ Abort(b)
    BY <2>1, BatchAccounted
  <2>2. CASE \E i \in Items : Start(i) \/ AcquirePermit(i) \/ Provider(i) \/ Expire(i)
    BY <2>2, TaskAccounted
  <2>3. CASE UNCHANGED vars
    BY <2>3 DEF vars, AccountsInv, Accounted, TasksSound, CountersMatch, Results, Failures,
                Refused, Ratings, DeadRatings, RatedResults
  <2> QED BY <2>1, <2>2, <2>3 DEF Next
<1> QED BY <1>1, <1>2 DEF AccountsInv, Accounted

THEOREM AccountsInvariant == Safety => []AccountsInv
<1> QED BY InitAccounted, NextAccounted, PTL DEF Safety

(* For every number of claims, batches and slots: the request counters tell *)
(* the callers' story, whatever was cut off, failed or crashed.             *)
THEOREM RequestCountersTrue == Safety => []RequestsAccounted
<1>1. AccountsInv => RequestsAccounted
  <2> SUFFICES ASSUME AccountsInv PROVE RequestsAccounted
    OBVIOUS
  <2>1. FailedWhile(Places) = Failures
    <3>1. \A i \in Items : outcome[i].kind = "failure" => outcome[i].at \in Places
      BY DEF AccountsInv, ServiceInv, TypeOK, Outcomes, Pending
    <3> QED BY <3>1 DEF FailedWhile, Failures
  <2> QED BY <2>1 DEF AccountsInv, CountersMatch, RequestsAccounted, Results, Refused
<1> QED BY <1>1, AccountsInvariant, PTL

(* Every rating asked for is counted once, whether it is still open, was    *)
(* answered, failed, was cut off or crashed; and retries are bounded.       *)
THEOREM RatingCountersTrue == Safety => []RatingsAccounted
<1>1. AccountsInv => RatingsAccounted
  <2> SUFFICES ASSUME AccountsInv PROVE RatingsAccounted
    OBVIOUS
  <2> DEFINE open  == {i \in Items : pc[i] \in {"rate_wait", "rating"}}
             dead  == FailedWhile({"rate_wait", "rating"})
             late  == {i \in dead : outcome[i].code = "verification_timeout"}
             broke == {i \in Items : outcome[i].kind = "crash" /\ outcome[i].at = "rating"}
  <2>1. Ratings = open \cup RatedResults \cup dead \cup broke
    BY DEF Ratings, InRating, RatedResults, FailedWhile, RatingPlaces
  <2>2. DeadRatings = dead \ late
    BY DEF DeadRatings, DiedRating, FailedWhile, RatingPlaces
  <2>3. metrics["escalations"] = metrics["llmRequests"] BY DEF AccountsInv, CountersMatch
  <2> QED BY <2>1, <2>2, <2>3 DEF AccountsInv, CountersMatch, RatingsAccounted, RatedResults
<1> QED BY <1>1, AccountsInvariant, PTL

(* No model overrules the rules or is asked without leave, for every        *)
(* routing configuration and every reading.                                 *)
THEOREM VerdictsAreGrounded == Safety => []VerdictGrounded
<1>1. AccountsInv => VerdictGrounded
  <2> SUFFICES ASSUME AccountsInv, NEW i \in Items, outcome[i].kind = "result"
               PROVE  LET rules == reading[i].rules
                      IN  /\ IsTerminal(rules) =>
                               outcome[i].verdict = rules.verdict /\ ~outcome[i].rated
                          /\ outcome[i].rated => CanRate(i) /\ NeedsRater(reading[i])
                          /\ ~outcome[i].rated =>
                               outcome[i].verdict = IF rules.verdict = NoVerdict
                                                    THEN "INSUFFICIENT_EVIDENCE"
                                                    ELSE rules.verdict
    BY DEF VerdictGrounded
  <2> DEFINE r == reading[i]
  <2>1. PICK v \in Verdicts \cup {NoVerdict} :
          outcome[i] = Decided(r, extracted[i], v) /\ (v = NoVerdict \/ Asks(i, r))
    BY DEF AccountsInv, TasksSound, TaskSound
  <2>2. /\ outcome[i].rated = (v # NoVerdict)
        /\ outcome[i].verdict = Decide(Cfg, r.evidence, r.rules, v).verdict
    BY <2>1 DEF Decided, Result
  <2>3. IsTerminal(r.rules) => ~NeedsRater(r)
    BY DEF NeedsRater, ShouldRate, Withheld, NotRequired
  <2>4. IsTerminal(r.rules) => v = NoVerdict BY <2>1, <2>3 DEF Asks
  <2> HIDE DEF r
  <2>5. CASE IsTerminal(r.rules)
    <3>1. outcome[i].verdict = r.rules.verdict /\ r.rules.verdict # NoVerdict
      BY <2>2, <2>5 DEF Decide, IsTerminal
    <3> QED BY <2>2, <2>4, <2>5, <3>1 DEF r
  <2>6. CASE ~IsTerminal(r.rules)
    <3>1. CASE v = NoVerdict
      <4>1. outcome[i].verdict = IF r.rules.verdict = NoVerdict THEN "INSUFFICIENT_EVIDENCE"
                                 ELSE r.rules.verdict
        BY <2>2, <2>6, <3>1 DEF Decide
      <4> QED BY <2>2, <2>6, <3>1, <4>1 DEF r
    <3>2. CASE v # NoVerdict BY <2>1, <2>2, <2>6, <3>2 DEF Asks, r
    <3> QED BY <3>1, <3>2
  <2> QED BY <2>5, <2>6
<1> QED BY <1>1, AccountsInvariant, PTL

(* No claim that needs neither extraction nor a rating feels an outage.     *)
THEOREM OutagesAreContained == Safety => []OutageContained
<1>1. AccountsInv => OutageContained
  <2> SUFFICES ASSUME AccountsInv, NEW i \in Items,
                      pc[i] \in Suspended
                        \/ (pc[i] \in {"failed", "crashed"} /\ outcome[i].at \in Suspended)
               PROVE  Extracts(reading[i]) \/ extracted[i]
                        \/ (CanRate(i) /\ NeedsRater(reading[i]))
    BY DEF OutageContained
  <2>1. TaskSound(i, pc[i], reading[i], extracted[i], outcome[i])
    BY DEF AccountsInv, TasksSound
  <2> QED BY <2>1 DEF TaskSound, Asks, Suspended, Calling, Waiting, RatingPlaces
<1> QED BY <1>1, AccountsInvariant, PTL

-----------------------------------------------------------------------------
(* The service implements the contract of verify_batch.                     *)
Replies == [i \in Items |-> Reply(i)]

LEMMA ReplyFacts ==
  ASSUME TypeOK, NEW i \in Items
  PROVE  /\ Reply(i) = "none" <=> pc[i] \notin Ended
         /\ Reply(i) = "lost" <=> pc[i] = "crashed"
         /\ Reply(i) \in {"result", "failure"} <=> pc[i] \in {"done", "failed"}
         /\ Reply(i) \in {"none", "result", "failure", "lost"}
BY DEF Reply, Ended, TypeOK, Places, Suspended, Calling, Waiting

LEMMA InitIsContractInit == Init => Contract!CInit
BY DEF Init, Contract!CInit, Reply

(* A step of a task settles its claim or is invisible to the caller.        *)
LEMMA TaskStepIsContractStep ==
  ASSUME ServiceInv, ServiceInv', NEW i \in Items, MovesTask(i)
  PROVE  Contract!Settle(i) \/ UNCHANGED <<batch, Replies>>
<1>1. TypeOK /\ TypeOK' BY DEF ServiceInv
<1>2. PICK q \in Places : /\ pc' = [pc EXCEPT ![i] = q]
                          /\ pc[i] \in {"queued"} \cup Suspended /\ q \in Suspended \cup Ended
  BY DEF MovesTask, Moves
<1>3. batch' = batch /\ pc'[i] = q BY <1>1, <1>2 DEF MovesTask, TypeOK
<1>4. \A j \in Items \ {i} : Reply(j)' = Reply(j) BY <1>1, <1>2 DEF Reply, TypeOK
<1>5. Reply(i) = "none" BY <1>1, <1>2, PlaceFacts, ReplyFacts
<1>6. CASE q \in Suspended
  <2>1. Reply(i)' = "none"
    BY <1>3, <1>6 DEF Reply, Suspended, Calling, Waiting
  <2>2. Replies' = Replies BY <1>4, <1>5, <2>1 DEF Replies
  <2> QED BY <1>3, <2>2
<1>7. CASE q \in Ended
  <2>1. PICK r \in {"result", "failure", "lost"} : Reply(i)' = r
    BY <1>3, <1>7 DEF Reply, Ended
  <2>2. Replies' = [Replies EXCEPT ![i] = r] BY <1>4, <2>1 DEF Replies
  <2>3. batch[BatchOf[i]] \in {"open", "aborted"}
    <3>1. BatchOf[i] \in Batches BY ItemsAssumption
    <3>2. pc[i] # "idle" /\ pc[i] \notin {"done", "failed"}
      BY <1>2, PlaceFacts DEF Ended, Suspended, Calling, Waiting
    <3> QED BY <1>1, <3>1, <3>2 DEF ServiceInv, PhaseMatches, TypeOK
  <2> QED BY <1>3, <1>5, <2>2, <2>3 DEF Contract!Settle, Replies
<1> QED BY <1>2, <1>6, <1>7

LEMMA BatchStepIsContractStep ==
  ASSUME ServiceInv, ServiceInv', NEW b \in Batches,
         Submit(b) \/ Refuse(b) \/ Answer(b) \/ Abort(b)
  PROVE  Contract!Accept(b) \/ Contract!Refuse(b) \/ Contract!Answer(b) \/ Contract!Abort(b)
<1>1. TypeOK /\ TypeOK' BY DEF ServiceInv
<1>2. Replies' = Replies
  <2> SUFFICES ASSUME NEW i \in Items PROVE Reply(i)' = Reply(i) BY DEF Replies
  <2>1. pc'[i] = pc[i] \/ (pc[i] = "idle" /\ pc'[i] = "queued")
    BY <1>1 DEF Submit, Refuse, Answer, Abort, ServiceInv, PhaseMatches, TypeOK
  <2> QED BY <2>1 DEF Reply
<1>3. \A i \in Items : /\ Reply(i) = "lost" <=> pc[i] = "crashed"
                       /\ Reply(i) \in {"result", "failure"} <=> pc[i] \in {"done", "failed"}
  BY <1>1, ReplyFacts
<1>4. Contract!MembersOf(b) = MembersOf(b) BY DEF Contract!MembersOf, MembersOf
<1>5. \A i \in MembersOf(b) : i \in Items BY DEF MembersOf
<1>6. CASE Submit(b) BY <1>2, <1>6 DEF Submit, Contract!Accept, Replies
<1>7. CASE Refuse(b) BY <1>2, <1>7 DEF Refuse, Contract!Refuse, Replies
<1>8. CASE Answer(b)
  BY <1>2, <1>3, <1>4, <1>5, <1>8 DEF Answer, Contract!Answer, Replies
<1>9. CASE Abort(b)
  BY <1>2, <1>3, <1>4, <1>5, <1>9 DEF Abort, Contract!Abort, Replies
<1> QED BY <1>6, <1>7, <1>8, <1>9

LEMMA NextIsContractNext ==
  ServiceInv /\ ServiceInv' /\ [Next]_vars => [Contract!CNext]_(Contract!cvars)
<1> SUFFICES ASSUME ServiceInv, ServiceInv', [Next]_vars
             PROVE  Contract!CNext \/ UNCHANGED <<batch, Replies>>
  BY DEF Contract!cvars, Replies
<1>1. CASE \E b \in Batches : Submit(b) \/ Refuse(b) \/ Answer(b) \/ Abort(b)
  BY <1>1, BatchStepIsContractStep DEF Contract!CNext
<1>2. CASE \E i \in Items : Start(i) \/ AcquirePermit(i) \/ Provider(i) \/ Expire(i)
  BY <1>2, TaskStepMoves, TaskStepIsContractStep DEF Contract!CNext
<1>3. CASE UNCHANGED vars BY <1>3 DEF vars, Replies, Reply
<1> QED BY <1>1, <1>2, <1>3 DEF Next

(* For every set of batches and claims: every claim of an accepted batch is *)
(* settled at most once, a batch is answered only with all of them, and     *)
(* aborted only for a claim of its own.                                     *)
THEOREM ServiceKeepsContract == Safety => KeepsContract
<1> QED
  BY InitIsContractInit, ServiceInvariant, NextIsContractNext, PTL
  DEF Safety, KeepsContract, Contract!CSafety

=============================================================================
