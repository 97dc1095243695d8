------------------------ MODULE ProviderTransportProofs ------------------------
(***************************************************************************)
(* Theorems about the transports for every number of calls, permits and    *)
(* retries and for all timeouts and delays.                                *)
(*                                                                         *)
(* The inductive invariant adds to the type invariant, for each call, what *)
(* its record tells of its past: how many attempts lie behind it and, for  *)
(* a budgeted call, how far beyond the deadline the timer of its present   *)
(* phase may reach.  That last fact is what bounds the overrun: every      *)
(* attempt gets what is left of the budget as its allowance, so whenever   *)
(* the connection stands, the timer set then cannot reach further than a   *)
(* connection timeout past the deadline.                                   *)
(***************************************************************************)
EXTENDS ProviderTransport, SequenceTheorems, CountingLemmas

Outcomes == Errors \cup {"none", "answered", "cancelled"}

Records ==
  [at : Holding \cup {"idle", "queued", "ended"}, attempt : Nat, deadline : Nat,
   allowance : Nat, timer : Nat, trickles : Nat, ended : Nat, outcome : Outcomes]

WellFormed ==
  /\ budgeted \in BOOLEAN /\ now \in Nat
  /\ permits \in 0..MaxConcurrency
  /\ queue \in Seq(Calls)
  /\ call \in [Calls -> Records]

QueueMatches ==
  /\ \A i, j \in DOMAIN queue : queue[i] = queue[j] => i = j
  /\ {queue[i] : i \in DOMAIN queue} = {c \in Calls : call[c].at = "queued"}

(* The attempts behind a call, and what its end says of them.               *)
AttemptsSound(r, budget) ==
  /\ r.outcome = "none" <=> r.at # "ended"
  /\ r.at \in {"idle", "queued"} => r.attempt = 0
  /\ r.at \in Holding => r.attempt \in 1..(MaxRetries + 1)
  /\ r.at = "sleeping" => r.attempt <= MaxRetries
  /\ r.outcome \in Retryable \ (IF budget THEN {"llm_timeout"} ELSE {})
       => r.attempt = MaxRetries + 1
  /\ budget /\ r.outcome = "answered" => r.ended < r.deadline

(* The timer of a phase is not yet past, and how far it may reach.          *)
TimerSound(r, budget, t) ==
  /\ r.at \in Holding => r.timer >= t
  /\ budget =>
       /\ r.at = "connecting" => r.timer + r.allowance <= r.deadline + ConnectTimeout
       /\ r.at = "reading" /\ r.trickles = 0 => r.timer <= r.deadline + ConnectTimeout
       /\ r.at = "sleeping" => r.timer <= r.deadline

CallsSound ==
  \A c \in Calls : AttemptsSound(call[c], budgeted) /\ TimerSound(call[c], budgeted, now)

TransportInv == WellFormed /\ QueueMatches /\ PermitsAccounted /\ CallsSound

-----------------------------------------------------------------------------
(* What the helpers of the loop return.                                     *)
Sound(r) == r \in Records /\ AttemptsSound(r, budgeted) /\ TimerSound(r, budgeted, now)

(* A delay is a number of ticks, however large the backoff has grown.       *)
LEMMA DelaysAreTicks ==
  ASSUME NEW n, NEW d \in Delays(n)
  PROVE  d \in Nat
BY LimitsAssumption DEF Delays

LEMMA EndedSound ==
  ASSUME now \in Nat, budgeted \in BOOLEAN, NEW r \in Records, NEW o \in Outcomes \ {"none"},
         o \in Retryable \ (IF budgeted THEN {"llm_timeout"} ELSE {})
           => r.attempt = MaxRetries + 1,
         budgeted /\ o = "answered" => now < r.deadline
  PROVE  /\ Sound(Ended(r, o))
         /\ Ended(r, o).at = "ended" /\ Ended(r, o).outcome = o
         /\ Ended(r, o).attempt = r.attempt
<1> DEFINE q == Ended(r, o)
<1>1. /\ q.at = "ended" /\ q.outcome = o /\ q.ended = now
      /\ q.attempt = r.attempt /\ q.deadline = r.deadline
  BY DEF Ended, Records
<1>2. q \in Records BY DEF Ended, Records
<1> HIDE DEF q
<1>3. AttemptsSound(q, budgeted)
  BY <1>1 DEF AttemptsSound, Holding, Exchanging, Outcomes
<1>4. TimerSound(q, budgeted, now)
  BY <1>1 DEF TimerSound, Holding, Exchanging
<1> QED BY <1>1, <1>2, <1>3, <1>4 DEF Sound, q

(* An attempt is begun, or the budget is used up.                           *)
LEMMA AttemptSound ==
  ASSUME now \in Nat, budgeted \in BOOLEAN, NEW r \in Records, r.outcome = "none",
         NEW n \in 1..(MaxRetries + 1)
  PROVE  LET q == Attempt(r, n)
         IN  /\ Sound(q)
             /\ \/ q.at = "connecting" /\ q.attempt = n /\ q.outcome = "none"
                \/ /\ budgeted /\ r.deadline <= now
                   /\ q.at = "ended" /\ q.attempt = r.attempt /\ q.outcome = "llm_timeout"
<1> DEFINE allowance == IF budgeted THEN r.deadline - now ELSE Timeout
           q == Attempt(r, n)
<1>1. allowance \in Int /\ r.deadline \in Nat BY LimitsAssumption DEF Records
<1>2. CASE allowance <= 0
  <2>1. budgeted /\ r.deadline <= now BY <1>1, <1>2, LimitsAssumption
  <2>2. q = Ended(r, "llm_timeout") BY <1>2 DEF Attempt
  <2>3. "llm_timeout" \in Outcomes \ {"none"} BY DEF Outcomes, Errors, Retryable
  <2>4. Sound(q) /\ q.at = "ended" /\ q.outcome = "llm_timeout" /\ q.attempt = r.attempt
    BY <2>1, <2>2, <2>3, EndedSound
  <2> HIDE DEF q
  <2> QED BY <2>1, <2>4 DEF q
<1>3. CASE ~(allowance <= 0)
  <2>1. allowance \in Nat BY <1>1, <1>3
  <2> DEFINE timer == now + Lesser(ConnectTimeout, allowance)
  <2>2. timer \in Nat /\ timer >= now /\ timer <= now + ConnectTimeout
    BY <1>1, <1>3, LimitsAssumption DEF Lesser
  <2>3. q = [r EXCEPT !.at = "connecting", !.attempt = n, !.allowance = allowance,
                      !.timer = timer]
    BY <1>3 DEF Attempt
  <2>4. budgeted => allowance = r.deadline - now OBVIOUS
  <2> HIDE DEF q, allowance, timer
  <2>5. /\ q.at = "connecting" /\ q.attempt = n /\ q.outcome = "none"
        /\ q.allowance = allowance /\ q.timer = timer /\ q.deadline = r.deadline
    BY <2>3 DEF Records
  <2>6. q \in Records
    <3>1. "connecting" \in Holding /\ n \in Nat BY LimitsAssumption DEF Holding, Exchanging
    <3> QED BY <2>1, <2>2, <2>3, <3>1 DEF Records
  <2>7. AttemptsSound(q, budgeted)
    BY <2>5 DEF AttemptsSound, Holding, Exchanging, Retryable
  <2>8. budgeted => timer + allowance <= r.deadline + ConnectTimeout
    BY <1>1, <2>1, <2>2, <2>4, LimitsAssumption
  <2>9. TimerSound(q, budgeted, now)
    BY <2>2, <2>5, <2>8 DEF TimerSound
  <2> QED BY <2>5, <2>6, <2>7, <2>9 DEF Sound, q
<1> QED BY <1>2, <1>3

(* After an error the call backs off, or reports it.                        *)
LEMMA AfterErrorSound ==
  ASSUME now \in Nat, budgeted \in BOOLEAN, NEW r, Sound(r), r.at \in Exchanging,
         NEW error \in Errors, NEW q \in AfterError(r, error)
  PROVE  /\ Sound(q) /\ q.attempt = r.attempt
         /\ \/ q.at = "sleeping" /\ q.outcome = "none"
            \/ q.at = "ended" /\ q.outcome \in Errors
<1>1. r \in Records /\ r.attempt \in 1..(MaxRetries + 1) /\ r.outcome = "none"
  BY DEF Sound, AttemptsSound, Holding, Exchanging
<1>2. error \in Outcomes \ {"none"} /\ "llm_timeout" \in Outcomes \ {"none"}
      /\ "llm_timeout" \in Errors
  BY DEF Outcomes, Errors, Retryable
<1>3. CASE error \notin Retryable \/ r.attempt > MaxRetries
  <2>1. q = Ended(r, error) BY <1>3 DEF AfterError
  <2>2. error \in Retryable => r.attempt = MaxRetries + 1
    BY <1>1, <1>3, LimitsAssumption
  <2>3. error # "answered" BY DEF Errors, Retryable
  <2> QED BY <1>1, <1>2, <2>1, <2>2, <2>3, EndedSound
<1>4. CASE ~(error \notin Retryable \/ r.attempt > MaxRetries)
  <2>1. PICK d \in Delays(r.attempt) :
          q = IF budgeted /\ d >= r.deadline - now
              THEN Ended(r, "llm_timeout")
              ELSE [r EXCEPT !.at = "sleeping", !.timer = now + d]
    BY <1>4 DEF AfterError
  <2>2. d \in Nat BY DelaysAreTicks
  <2>3. CASE budgeted /\ d >= r.deadline - now
    <3>1. q = Ended(r, "llm_timeout") BY <2>1, <2>3
    <3> QED BY <1>1, <1>2, <2>3, <3>1, EndedSound
  <2>4. CASE ~(budgeted /\ d >= r.deadline - now)
    <3>1. q = [r EXCEPT !.at = "sleeping", !.timer = now + d] BY <2>1, <2>4
    <3>2. /\ q.at = "sleeping" /\ q.attempt = r.attempt /\ q.outcome = "none"
          /\ q.timer = now + d /\ q.deadline = r.deadline
      BY <1>1, <3>1 DEF Records
    <3>3. r.deadline \in Nat /\ q \in Records
      <4> DEFINE timer == now + d
      <4>1. "sleeping" \in Holding /\ timer \in Nat BY <2>2 DEF Holding
      <4>2. q = [r EXCEPT !.at = "sleeping", !.timer = timer] BY <3>1
      <4> HIDE DEF timer
      <4> QED BY <1>1, <4>1, <4>2 DEF Records
    <3>4. AttemptsSound(q, budgeted)
      BY <1>1, <1>4, <3>2, LimitsAssumption
      DEF AttemptsSound, Holding, Exchanging, Retryable
    <3>5. TimerSound(q, budgeted, now)
      BY <2>2, <2>4, <3>2, <3>3 DEF TimerSound
    <3> QED BY <3>2, <3>3, <3>4, <3>5 DEF Sound
  <2> QED BY <2>3, <2>4
<1> QED BY <1>3, <1>4

LEMMA AfterResponseSound ==
  ASSUME now \in Nat, budgeted \in BOOLEAN, NEW r, Sound(r), r.at \in Exchanging,
         NEW response \in Responses, NEW q \in AfterResponse(r, response)
  PROVE  /\ Sound(q) /\ q.attempt = r.attempt
         /\ \/ q.at = "sleeping" /\ q.outcome = "none"
            \/ q.at = "ended" /\ q.outcome \in Errors \cup {"answered"}
<1> DEFINE error == IF budgeted /\ now >= r.deadline THEN "llm_timeout" ELSE ErrorOf(response)
           reply == IF response = "ok" THEN "answered" ELSE "llm_invalid_response"
<1>1. error \in Errors \cup {"none"} BY DEF ErrorOf, Errors, Retryable, Responses
<1>2. CASE error # "none"
  <2>1. error \in Errors /\ q \in AfterError(r, error) BY <1>1, <1>2 DEF AfterResponse
  <2> HIDE DEF error
  <2> QED BY <2>1, AfterErrorSound
<1>3. CASE error = "none"
  <2>1. q = Ended(r, reply) BY <1>3 DEF AfterResponse
  <2>2. reply \in Outcomes \ {"none"} /\ reply \notin Retryable
        /\ reply \in Errors \cup {"answered"}
    BY DEF Outcomes, Errors, Retryable
  <2>3. r \in Records /\ r.deadline \in Nat BY DEF Sound, Records
  <2>4. budgeted => now < r.deadline BY <1>3, <2>3
  <2> HIDE DEF reply, error
  <2> QED BY <2>1, <2>2, <2>3, <2>4, EndedSound
<1> QED BY <1>2, <1>3

-----------------------------------------------------------------------------
(* The queue of the calls that wait.                                        *)

LEMMA QueueUntouched ==
  ASSUME WellFormed, QueueMatches, NEW c \in Calls, NEW q \in Records,
         call' = [call EXCEPT ![c] = q], call[c].at # "queued", q.at # "queued",
         UNCHANGED queue
  PROVE  QueueMatches' /\ queue' \in Seq(Calls)
<1>1. {d \in Calls : call'[d].at = "queued"} = {d \in Calls : call[d].at = "queued"}
  BY DEF WellFormed
<1> QED BY <1>1 DEF WellFormed, QueueMatches

LEMMA QueueJoined ==
  ASSUME WellFormed, QueueMatches, NEW c \in Calls, NEW q \in Records,
         call' = [call EXCEPT ![c] = q], call[c].at # "queued", q.at = "queued",
         queue' = Append(queue, c)
  PROVE  QueueMatches' /\ queue' \in Seq(Calls)
<1> DEFINE n == Len(queue)
<1>1. /\ n \in Nat /\ DOMAIN queue = 1..n
      /\ queue' \in Seq(Calls) /\ DOMAIN queue' = 1..(n + 1)
      /\ \A i \in 1..n : queue'[i] = queue[i] /\ queue'[n + 1] = c
  BY AppendProperties DEF WellFormed
<1>2. queue'[n + 1] = c BY AppendProperties DEF WellFormed
<1>3. \A i \in 1..n : call[queue[i]].at = "queued" BY <1>1 DEF QueueMatches
<1> HIDE DEF n
<1>4. \A i \in 1..n : queue[i] # c BY <1>3
<1>5. \A i, j \in 1..(n + 1) : queue'[i] = queue'[j] => i = j
  <2> SUFFICES ASSUME NEW i \in 1..(n + 1), NEW j \in 1..(n + 1), queue'[i] = queue'[j]
               PROVE  i = j
    OBVIOUS
  <2>1. \A k \in 1..(n + 1) : k = n + 1 \/ k \in 1..n BY <1>1
  <2>2. CASE i \in 1..n /\ j \in 1..n BY <1>1, <2>2 DEF QueueMatches
  <2> QED BY <1>1, <1>2, <1>4, <2>1, <2>2
<1>6. {queue'[i] : i \in DOMAIN queue'} = {queue[i] : i \in DOMAIN queue} \cup {c}
  <2>1. DOMAIN queue' = (DOMAIN queue) \cup {n + 1} BY <1>1
  <2> QED BY <1>1, <1>2, <2>1
<1>7. {d \in Calls : call'[d].at = "queued"}
        = {d \in Calls : call[d].at = "queued"} \cup {c}
  BY DEF WellFormed
<1> QED BY <1>1, <1>5, <1>6, <1>7 DEF QueueMatches

(* A call leaves the queue from any place in it; the others keep their order*)
LEMMA LeavingProperties ==
  ASSUME NEW s \in Seq(Calls), NEW i \in 1..Len(s),
         NEW t, t = SubSeq(s, 1, i - 1) \o SubSeq(s, i + 1, Len(s))
  PROVE  /\ t \in Seq(Calls)
         /\ Len(t) = Len(s) - 1
         /\ \A j \in 1..(Len(s) - 1) : t[j] = IF j < i THEN s[j] ELSE s[j + 1]
<1> DEFINE n == Len(s)
           u == SubSeq(s, 1, i - 1)
           v == SubSeq(s, i + 1, n)
<1>1. n \in Nat /\ i \in 1..n /\ \A j \in 1..n : s[j] \in Calls
  BY LenProperties
<1>2. /\ u \in Seq(Calls) /\ Len(u) = i - 1
      /\ \A j \in 1..(i - 1) : u[j] = s[j]
  <2>1. 1 \in Int /\ i - 1 \in Int /\ \A j \in 1..(i - 1) : s[j] \in Calls BY <1>1
  <2>2. /\ u \in Seq(Calls) /\ Len(u) = IF 1 <= i - 1 THEN (i - 1) - 1 + 1 ELSE 0
        /\ \A j \in 1..((i - 1) - 1 + 1) : u[j] = s[1 + j - 1]
    BY <2>1, SubSeqProperties
  <2> HIDE DEF u
  <2> QED BY <1>1, <2>2
<1>3. /\ v \in Seq(Calls) /\ Len(v) = n - i
      /\ \A j \in 1..(n - i) : v[j] = s[i + j]
  <2>1. i + 1 \in Int /\ n \in Int /\ \A j \in (i + 1)..n : s[j] \in Calls BY <1>1
  <2> HIDE DEF n
  <2>2. /\ v \in Seq(Calls) /\ Len(v) = IF i + 1 <= n THEN n - (i + 1) + 1 ELSE 0
        /\ \A j \in 1..(n - (i + 1) + 1) : v[j] = s[(i + 1) + j - 1]
    BY <2>1, SubSeqProperties
  <2> HIDE DEF v
  <2>3. Len(v) = n - i BY <1>1, <2>2
  <2>4. ASSUME NEW j \in 1..(n - i) PROVE v[j] = s[i + j]
    <3>1. n - (i + 1) + 1 = n - i /\ (i + 1) + j - 1 = i + j BY <1>1
    <3> QED BY <2>2, <3>1
  <2> QED BY <2>2, <2>3, <2>4
<1> HIDE DEF u, v
<1>4. /\ t \in Seq(Calls) /\ Len(t) = Len(u) + Len(v)
      /\ \A j \in 1..(Len(u) + Len(v)) : t[j] = IF j <= Len(u) THEN u[j] ELSE v[j - Len(u)]
  BY <1>2, <1>3, ConcatProperties DEF u, v
<1> HIDE DEF n
<1>5. Len(t) = n - 1 BY <1>1, <1>2, <1>3, <1>4
<1>6. ASSUME NEW j \in 1..(n - 1)
      PROVE  t[j] = IF j < i THEN s[j] ELSE s[j + 1]
  <2>1. t[j] = IF j <= i - 1 THEN u[j] ELSE v[j - (i - 1)]
    <3>1. j \in 1..(Len(u) + Len(v)) BY <1>1, <1>2, <1>3
    <3> QED BY <1>2, <1>4, <3>1
  <2>2. CASE j < i
    <3>1. j <= i - 1 /\ j \in 1..(i - 1) BY <1>1, <2>2
    <3> QED BY <1>2, <2>1, <2>2, <3>1
  <2>3. CASE ~(j < i)
    <3>1. ~(j <= i - 1) /\ j - (i - 1) \in 1..(n - i) /\ i + (j - (i - 1)) = j + 1
      BY <1>1, <2>3
    <3>2. v[j - (i - 1)] = s[i + (j - (i - 1))] BY <1>3, <3>1
    <3> QED BY <2>1, <2>3, <3>1, <3>2
  <2> QED BY <2>2, <2>3
<1> QED BY <1>1, <1>4, <1>5, <1>6 DEF n

LEMMA QueueLeft ==
  ASSUME WellFormed, QueueMatches, NEW i \in DOMAIN queue, NEW q \in Records,
         call' = [call EXCEPT ![queue[i]] = q], q.at # "queued",
         queue' = LeavingAt(i)
  PROVE  QueueMatches' /\ queue' \in Seq(Calls)
<1> DEFINE n == Len(queue)
           old(j) == IF j < i THEN j ELSE j + 1
<1>1. /\ queue' \in Seq(Calls) /\ n \in Nat /\ i \in 1..n
      /\ Len(queue') = n - 1
      /\ \A j \in 1..(n - 1) : queue'[j] = queue[old(j)]
  <2>1. n \in Nat /\ i \in 1..n BY LenProperties DEF WellFormed
  <2> QED BY <2>1, LeavingProperties DEF LeavingAt, WellFormed
<1>2. DOMAIN queue = 1..n /\ DOMAIN queue' = 1..(n - 1)
  BY <1>1, LenProperties DEF WellFormed
<1> HIDE DEF n
<1>3. \A j \in 1..(n - 1) : old(j) \in (1..n) \ {i} BY <1>1
<1>4. \A j, k \in 1..(n - 1) : old(j) = old(k) => j = k BY <1>1
<1>5. \A m \in (1..n) \ {i} : \E j \in 1..(n - 1) : old(j) = m
  <2> SUFFICES ASSUME NEW m \in (1..n) \ {i} PROVE \E j \in 1..(n - 1) : old(j) = m
    OBVIOUS
  <2>1. CASE m < i BY <1>1, <2>1
  <2>2. CASE m > i
    <3>1. m - 1 \in 1..(n - 1) /\ old(m - 1) = m BY <1>1, <2>2
    <3> QED BY <3>1
  <2> QED BY <1>1, <2>1, <2>2
<1> HIDE DEF old
<1>6. \A j, k \in DOMAIN queue' : queue'[j] = queue'[k] => j = k
  <2>1. \A j, k \in 1..n : queue[j] = queue[k] => j = k BY <1>2 DEF QueueMatches
  <2> QED BY <1>1, <1>2, <1>3, <1>4, <2>1
<1>7. {queue'[j] : j \in DOMAIN queue'} = {queue[j] : j \in DOMAIN queue} \ {queue[i]}
  <2>1. \A j \in 1..n : queue[j] = queue[i] => j = i BY <1>1, <1>2 DEF QueueMatches
  <2>2. ASSUME NEW x, x \in {queue[j] : j \in DOMAIN queue} \ {queue[i]}
        PROVE  x \in {queue'[j] : j \in DOMAIN queue'}
    <3>1. PICK m \in (1..n) \ {i} : x = queue[m] BY <1>2, <2>2
    <3>2. PICK j \in 1..(n - 1) : old(j) = m BY <1>5
    <3> QED BY <1>1, <1>2, <3>1, <3>2
  <2>3. ASSUME NEW x, x \in {queue'[j] : j \in DOMAIN queue'}
        PROVE  x \in {queue[j] : j \in DOMAIN queue} \ {queue[i]}
    <3>1. PICK j \in 1..(n - 1) : x = queue'[j] BY <1>2, <2>3
    <3> QED BY <1>1, <1>2, <1>3, <2>1, <3>1
  <2> QED BY <2>2, <2>3
<1>8. {d \in Calls : call'[d].at = "queued"}
        = {d \in Calls : call[d].at = "queued"} \ {queue[i]}
  BY DEF WellFormed
<1> QED BY <1>1, <1>6, <1>7, <1>8 DEF QueueMatches

-----------------------------------------------------------------------------
(* One call changes at a time.                                              *)
HeldBy(r) == IF r.at \in Holding THEN 1 ELSE 0

(* What a step does to a call c, whose record becomes q.                    *)
Moves(c, q) ==
  /\ call' = [call EXCEPT ![c] = q] /\ UNCHANGED <<budgeted, now>>
  /\ Sound(q)
  /\ permits' = permits + HeldBy(call[c]) - HeldBy(q)
  /\ HeldBy(q) = 1 => HeldBy(call[c]) = 1 \/ permits > 0

(* A step that takes and gives back the permit of one call keeps the        *)
(* semaphore accounted for, and so within its limits.                       *)
LEMMA PermitsStep ==
  ASSUME WellFormed, PermitsAccounted, NEW c \in Calls, NEW q, Moves(c, q)
  PROVE  PermitsAccounted' /\ permits' \in 0..MaxConcurrency
<1>1. /\ permits \in 0..MaxConcurrency /\ MaxConcurrency \in Nat
      /\ permits + Cardinality(Holders) = MaxConcurrency
  BY LimitsAssumption DEF WellFormed, PermitsAccounted
<1>2. IsFiniteSet(Holders)
  <2>1. Holders \in SUBSET Calls BY DEF Holders
  <2> QED BY <2>1, FS_Subset, LimitsAssumption
<1>3. \A d : d # c => (d \in Holders <=> d \in Holders')
  BY DEF Holders, Moves, WellFormed
<1>4. Counts(c, Holders) = HeldBy(call[c]) BY DEF Counts, Holders, HeldBy
<1>5. Counts(c, Holders') = HeldBy(q) BY DEF Counts, Holders, HeldBy, Moves, WellFormed
<1>6. /\ Cardinality(Holders) \in Nat /\ Cardinality(Holders') \in Nat
      /\ Cardinality(Holders') = Cardinality(Holders) + HeldBy(q) - HeldBy(call[c])
  BY <1>2, <1>3, <1>4, <1>5, OneChanges
<1>7. HeldBy(q) \in {0, 1} /\ HeldBy(call[c]) \in {0, 1} BY DEF HeldBy
<1>8. permits' = permits + HeldBy(call[c]) - HeldBy(q) BY DEF Moves
<1>9. permits' + Cardinality(Holders') = MaxConcurrency BY <1>1, <1>6, <1>7, <1>8
<1>10. permits' >= 0 BY <1>1, <1>7, <1>8 DEF Moves
<1>11. permits' \in Int BY <1>1, <1>7, <1>8
<1> QED BY <1>1, <1>6, <1>9, <1>10, <1>11 DEF PermitsAccounted

LEMMA MoveKeepsInv ==
  ASSUME TransportInv, NEW c \in Calls, NEW q, Moves(c, q),
         QueueMatches', queue' \in Seq(Calls)
  PROVE  TransportInv'
<1>1. PermitsAccounted' /\ permits' \in 0..MaxConcurrency
  BY PermitsStep DEF TransportInv
<1>2. WellFormed' BY <1>1 DEF TransportInv, WellFormed, Moves, Sound
<1>3. CallsSound'
  BY DEF TransportInv, WellFormed, CallsSound, Moves, Sound
<1> QED BY <1>1, <1>2, <1>3 DEF TransportInv

-----------------------------------------------------------------------------
(* The steps of the callers.                                                *)
LEMMA InvFacts ==
  ASSUME TransportInv, NEW c \in Calls
  PROVE  /\ now \in Nat /\ budgeted \in BOOLEAN /\ permits \in 0..MaxConcurrency
         /\ Sound(call[c]) /\ call[c] \in Records
BY DEF TransportInv, WellFormed, CallsSound, Sound

(* In what follows a call is seen from its contract: how its phase and its  *)
(* attempts change.                                                         *)
Asks(r, q) == r.at = "idle" /\ q.at = "queued" /\ q.attempt = 0 /\ q.outcome = "none"

Admitted(r, q) ==
  r.at \in {"idle", "queued"} /\ q.at = "connecting" /\ q.attempt = 1 /\ q.outcome = "none"

Advances(r, q) ==
  /\ r.at \in Holding /\ q.at \in Holding /\ q.outcome = "none"
  /\ q.attempt = r.attempt \/ (q.attempt = r.attempt + 1 /\ r.attempt <= MaxRetries)

Ends(r, q) ==
  /\ r.at \in Holding \cup {"queued"} /\ q.at = "ended" /\ q.attempt = r.attempt
  /\ \/ q.outcome \in Errors \cup {"cancelled"}
     \/ q.outcome = "answered" /\ r.at \in Holding

(* What every step of a call is.                                            *)
StepOf(c) ==
  \E q : /\ Moves(c, q) /\ TransportInv'
         /\ \/ Asks(call[c], q)
            \/ Admitted(call[c], q) /\ permits > 0
            \/ Advances(call[c], q)
            \/ Ends(call[c], q)

(* A step of a call that holds its permit, written with Becomes.            *)
LEMMA HolderMoves ==
  ASSUME TransportInv, NEW c \in Calls, call[c].at \in Holding, NEW q, Sound(q),
         Becomes(c, q), UNCHANGED <<budgeted, now, queue>>,
         Advances(call[c], q) \/ Ends(call[c], q)
  PROVE  StepOf(c)
<1>1. q \in Records /\ q.at \in Holding \cup {"ended"} BY DEF Sound, Advances, Ends
<1>2. HeldBy(call[c]) = 1 /\ HeldBy(q) = IF q.at = "ended" THEN 0 ELSE 1
  BY <1>1 DEF HeldBy, Holding, Exchanging
<1>3. permits \in Int BY DEF TransportInv, WellFormed
<1>4. permits' = permits + HeldBy(call[c]) - HeldBy(q) BY <1>2, <1>3 DEF Becomes
<1>5. Moves(c, q) BY <1>2, <1>4 DEF Moves, Becomes
<1>6. call[c].at # "queued" /\ q.at # "queued" BY <1>1 DEF Holding, Exchanging
<1>7. QueueMatches' /\ queue' \in Seq(Calls)
  BY <1>1, <1>6, QueueUntouched DEF TransportInv, Becomes
<1> QED BY <1>5, <1>7, MoveKeepsInv DEF StepOf

LEMMA EnterStep == ASSUME TransportInv, NEW c \in Calls, Enter(c) PROVE StepOf(c)
<1> DEFINE r == [Fresh EXCEPT !.deadline = now + Timeout]
           q == IF permits > 0 /\ queue = <<>> THEN Attempt(r, 1)
                                               ELSE [r EXCEPT !.at = "queued"]
<1>1. now \in Nat /\ budgeted \in BOOLEAN /\ permits \in 0..MaxConcurrency
      /\ WellFormed /\ QueueMatches
  BY InvFacts DEF TransportInv
<1>2. /\ r = [at |-> "idle", attempt |-> 0, deadline |-> now + Timeout, allowance |-> 0,
              timer |-> 0, trickles |-> 0, ended |-> 0, outcome |-> "none"]
      /\ now + Timeout \in Nat /\ now + Timeout > now
  BY <1>1, LimitsAssumption DEF Fresh
<1>3. /\ r \in Records /\ r.outcome = "none" /\ r.deadline > now /\ r.attempt = 0
      /\ [r EXCEPT !.at = "queued"] \in Records
  <2>1. r \in Records BY <1>2 DEF Records, Outcomes
  <2>2. r.outcome = "none" /\ r.deadline > now /\ r.attempt = 0 BY <1>2
  <2> HIDE DEF r
  <2>3. [r EXCEPT !.at = "queued"] \in Records BY <2>1 DEF Records
  <2> QED BY <2>1, <2>2, <2>3
<1>4. call' = [call EXCEPT ![c] = q] /\ UNCHANGED <<budgeted, now>> /\ call[c].at = "idle"
  BY DEF Enter
<1>5. HeldBy(call[c]) = 0 BY <1>4 DEF HeldBy, Holding, Exchanging
<1>6. CASE permits > 0 /\ queue = <<>>
  <2>1. q = Attempt(r, 1) /\ permits' = permits - 1 /\ UNCHANGED queue
    BY <1>6 DEF Enter
  <2>2. 1 \in 1..(MaxRetries + 1) BY LimitsAssumption
  <2>3. Sound(q) /\ q.at = "connecting" /\ q.attempt = 1 /\ q.outcome = "none"
    <3> DEFINE p == Attempt(r, 1)
    <3>1. Sound(p) /\ \/ p.at = "connecting" /\ p.attempt = 1 /\ p.outcome = "none"
                      \/ r.deadline <= now
      BY <1>1, <1>3, <2>2, AttemptSound
    <3>2. ~(r.deadline <= now) BY <1>1, <1>2
    <3> HIDE DEF p
    <3> QED BY <2>1, <3>1, <3>2 DEF p
  <2> HIDE DEF q, r
  <2>4. HeldBy(q) = 1 BY <2>3 DEF HeldBy, Holding, Exchanging
  <2>5. Moves(c, q) BY <1>1, <1>4, <1>5, <1>6, <2>1, <2>3, <2>4 DEF Moves
  <2>6. QueueMatches' /\ queue' \in Seq(Calls)
    BY <1>1, <1>4, <2>1, <2>3, QueueUntouched DEF Sound
  <2>7. TransportInv' BY <2>5, <2>6, MoveKeepsInv
  <2>8. Admitted(call[c], q) BY <1>4, <2>3 DEF Admitted
  <2> QED BY <1>6, <2>5, <2>7, <2>8 DEF StepOf
<1>7. CASE ~(permits > 0 /\ queue = <<>>)
  <2>1. q = [r EXCEPT !.at = "queued"] /\ permits' = permits /\ queue' = Append(queue, c)
    BY <1>7 DEF Enter
  <2>2. q \in Records /\ q.at = "queued" /\ q.attempt = 0 /\ q.outcome = "none"
    BY <1>2, <1>3, <2>1
  <2> HIDE DEF q, r
  <2>3. Sound(q)
    BY <2>2 DEF Sound, AttemptsSound, TimerSound, Holding, Exchanging, Retryable
  <2>4. HeldBy(q) = 0 BY <2>2 DEF HeldBy, Holding, Exchanging
  <2>5. Moves(c, q) BY <1>1, <1>4, <1>5, <2>1, <2>3, <2>4 DEF Moves
  <2>6. QueueMatches' /\ queue' \in Seq(Calls)
    BY <1>1, <1>4, <2>1, <2>2, QueueJoined
  <2>7. TransportInv' BY <2>5, <2>6, MoveKeepsInv
  <2>8. Asks(call[c], q) BY <1>4, <2>2 DEF Asks
  <2> QED BY <2>5, <2>7, <2>8 DEF StepOf
<1> QED BY <1>6, <1>7

LEMMA AdmitStep == ASSUME TransportInv, Admit PROVE \E c \in Calls : StepOf(c)
<1> DEFINE c == Head(queue)
           q == Attempt(call[c], 1)
<1>1. queue # <<>> /\ queue \in Seq(Calls) /\ WellFormed /\ QueueMatches
  BY DEF Admit, TransportInv, WellFormed
<1>2. /\ Len(queue) \in Nat /\ 1 \in 1..Len(queue) /\ DOMAIN queue = 1..Len(queue)
      /\ c = queue[1]
  BY <1>1, LenProperties, EmptySeq
<1>3. c \in Calls /\ call[c].at = "queued" BY <1>1, <1>2 DEF QueueMatches
<1>4. queue' = LeavingAt(1)
  <2>1. queue' = Tail(queue) BY DEF Admit
  <2>2. Tail(queue) = SubSeq(queue, 2, Len(queue)) BY <1>1, TailIsSubSeq
  <2>3. SubSeq(queue, 1, 0) = <<>> BY SubSeqEmpty
  <2>4. Tail(queue) \in Seq(Calls) BY <1>1, HeadTailProperties
  <2>5. <<>> \o Tail(queue) = Tail(queue) BY <2>4, ConcatEmptySeq
  <2> QED BY <1>2, <2>1, <2>2, <2>3, <2>5 DEF LeavingAt
<1>5. now \in Nat /\ budgeted \in BOOLEAN /\ permits \in 0..MaxConcurrency /\ permits > 0
      /\ Sound(call[c]) /\ call[c] \in Records
  BY <1>3, InvFacts DEF Admit
<1>6. call[c].outcome = "none" /\ call[c].attempt = 0
  BY <1>3, <1>5 DEF Sound, AttemptsSound
<1>7. /\ Sound(q)
      /\ \/ q.at = "connecting" /\ q.attempt = 1 /\ q.outcome = "none"
         \/ q.at = "ended" /\ q.attempt = 0 /\ q.outcome = "llm_timeout"
  <2>1. 1 \in 1..(MaxRetries + 1) BY LimitsAssumption
  <2> QED BY <1>5, <1>6, <2>1, AttemptSound
<1>8. /\ call' = [call EXCEPT ![c] = q] /\ UNCHANGED <<budgeted, now>>
      /\ permits' = IF q.at = "ended" THEN permits ELSE permits - 1
  BY DEF Admit
<1> HIDE DEF q, c
<1>9. HeldBy(call[c]) = 0 /\ HeldBy(q) = IF q.at = "ended" THEN 0 ELSE 1
  BY <1>3, <1>7 DEF HeldBy, Holding, Exchanging
<1>10. Moves(c, q) BY <1>5, <1>7, <1>8, <1>9 DEF Moves
<1>11. QueueMatches' /\ queue' \in Seq(Calls)
  BY <1>1, <1>2, <1>4, <1>7, <1>8, QueueLeft DEF Sound
<1>12. TransportInv' BY <1>3, <1>10, <1>11, MoveKeepsInv
<1>13. Admitted(call[c], q) \/ Ends(call[c], q)
  BY <1>3, <1>6, <1>7 DEF Admitted, Ends, Errors, Retryable
<1> QED BY <1>3, <1>5, <1>10, <1>12, <1>13 DEF StepOf

LEMMA CancelStep == ASSUME TransportInv, NEW c \in Calls, Cancel(c) PROVE StepOf(c)
<1> DEFINE q == Ended(call[c], "cancelled")
<1>1. /\ now \in Nat /\ budgeted \in BOOLEAN /\ permits \in 0..MaxConcurrency
      /\ call[c] \in Records /\ WellFormed /\ QueueMatches
  BY InvFacts DEF TransportInv
<1>2. Sound(q) /\ q.at = "ended" /\ q.outcome = "cancelled" /\ q.attempt = call[c].attempt
  <2>1. "cancelled" \in Outcomes \ {"none"} /\ "cancelled" \notin Retryable
    BY DEF Outcomes, Retryable
  <2> QED BY <1>1, <2>1, EndedSound
<1>3. call' = [call EXCEPT ![c] = q] /\ UNCHANGED <<budgeted, now>> BY DEF Cancel
<1> HIDE DEF q
<1>4. HeldBy(q) = 0 BY <1>2 DEF HeldBy, Holding, Exchanging
<1>5. CASE call[c].at = "queued"
  <2>1. HeldBy(call[c]) = 0 /\ call[c].at \notin Holding
    BY <1>5 DEF HeldBy, Holding, Exchanging
  <2>2. permits' = permits BY <2>1 DEF Cancel
  <2>3. PICK i \in DOMAIN queue : queue[i] = c /\ queue' = LeavingAt(i)
    BY <2>1 DEF Cancel
  <2>4. Moves(c, q) BY <1>1, <1>2, <1>3, <1>4, <2>1, <2>2 DEF Moves
  <2>5. QueueMatches' /\ queue' \in Seq(Calls)
    BY <1>1, <1>2, <1>3, <2>3, QueueLeft DEF Sound
  <2>6. TransportInv' BY <2>4, <2>5, MoveKeepsInv
  <2>7. Ends(call[c], q) BY <1>2, <1>5 DEF Ends
  <2> QED BY <2>4, <2>6, <2>7 DEF StepOf
<1>6. CASE call[c].at \in Holding
  <2>1. HeldBy(call[c]) = 1 /\ call[c].at # "queued"
    BY <1>6 DEF HeldBy, Holding, Exchanging
  <2>2. permits' = permits + 1 /\ UNCHANGED queue BY <2>1 DEF Cancel
  <2>3. Moves(c, q) BY <1>1, <1>2, <1>3, <1>4, <2>1, <2>2 DEF Moves
  <2>4. QueueMatches' /\ queue' \in Seq(Calls)
    BY <1>1, <1>2, <1>3, <2>1, <2>2, QueueUntouched DEF Sound
  <2>5. TransportInv' BY <2>3, <2>4, MoveKeepsInv
  <2>6. Ends(call[c], q) BY <1>2, <1>6 DEF Ends
  <2> QED BY <2>3, <2>5, <2>6 DEF StepOf
<1> QED BY <1>5, <1>6 DEF Cancel

-----------------------------------------------------------------------------
(* The steps of the provider, of the timers and of the backoff.             *)
LEMMA ConnectedStep == ASSUME TransportInv, NEW c \in Calls, Connected(c) PROVE StepOf(c)
<1> DEFINE r == call[c]
           timer == now + r.allowance
           q == [r EXCEPT !.at = "reading", !.timer = timer]
<1>1. /\ now \in Nat /\ Sound(r) /\ r \in Records
      /\ r.allowance \in Nat /\ r.timer \in Nat /\ r.deadline \in Nat /\ timer \in Nat
  BY InvFacts DEF Records
<1>2. r.at = "connecting" /\ Becomes(c, q) /\ UNCHANGED <<budgeted, now, queue>>
  BY DEF Connected
<1>3. timer >= now /\ (budgeted => timer <= r.deadline + ConnectTimeout)
  <2>1. now <= r.timer /\ (budgeted => r.timer + r.allowance <= r.deadline + ConnectTimeout)
    BY <1>1, <1>2 DEF Sound, TimerSound, Holding, Exchanging
  <2> QED BY <1>1, <2>1, LimitsAssumption
<1> HIDE DEF timer, r
<1>4. q \in Records
  <2>1. "reading" \in Holding BY DEF Holding, Exchanging
  <2> QED BY <1>1, <2>1 DEF Records
<1>5. /\ q.at = "reading" /\ q.timer = timer /\ q.attempt = r.attempt
      /\ q.outcome = r.outcome /\ q.deadline = r.deadline /\ q.trickles = r.trickles
  BY <1>1 DEF Records
<1> HIDE DEF q
<1>6. Sound(q)
  <2>1. AttemptsSound(q, budgeted)
    BY <1>1, <1>2, <1>5 DEF Sound, AttemptsSound, Holding, Exchanging, Retryable
  <2>2. TimerSound(q, budgeted, now) BY <1>3, <1>5 DEF TimerSound
  <2> QED BY <1>4, <2>1, <2>2 DEF Sound
<1>7. Advances(r, q) /\ r.at \in Holding
  BY <1>1, <1>2, <1>5 DEF Advances, Sound, AttemptsSound, Holding, Exchanging
<1> QED BY <1>2, <1>6, <1>7, HolderMoves DEF r

LEMMA TrickleStep == ASSUME TransportInv, NEW c \in Calls, Trickle(c) PROVE StepOf(c)
<1> DEFINE r == call[c]
           timer == now + r.allowance
           n == r.trickles + 1
           q == [r EXCEPT !.timer = timer, !.trickles = n]
<1>1. /\ now \in Nat /\ Sound(r) /\ r \in Records
      /\ r.allowance \in Nat /\ timer \in Nat /\ timer >= now
      /\ n \in Nat /\ n # 0
  BY InvFacts DEF Records
<1>2. r.at = "reading" /\ Becomes(c, q) /\ UNCHANGED <<budgeted, now, queue>>
  BY <1>1 DEF Trickle, Records
<1> HIDE DEF timer, n, r
<1>3. q \in Records BY <1>1 DEF Records
<1>4. /\ q.at = "reading" /\ q.timer = timer /\ q.attempt = r.attempt
      /\ q.outcome = r.outcome /\ q.deadline = r.deadline /\ q.trickles = n
  BY <1>1, <1>2 DEF Records
<1> HIDE DEF q
<1>5. Sound(q)
  <2>1. AttemptsSound(q, budgeted)
    BY <1>1, <1>2, <1>4 DEF Sound, AttemptsSound, Holding, Exchanging, Retryable
  <2>2. TimerSound(q, budgeted, now) BY <1>1, <1>4 DEF TimerSound
  <2> QED BY <1>3, <2>1, <2>2 DEF Sound
<1>6. Advances(r, q) /\ r.at \in Holding
  BY <1>1, <1>2, <1>4 DEF Advances, Sound, AttemptsSound, Holding, Exchanging
<1> QED BY <1>2, <1>5, <1>6, HolderMoves DEF r

(* The exchange is over: with a response, or without one.                   *)
LEMMA ExchangeOver ==
  ASSUME TransportInv, NEW c \in Calls, Respond(c) \/ Break(c) \/ TimeOut(c)
  PROVE  StepOf(c)
<1> DEFINE r == call[c]
<1>1. now \in Nat /\ budgeted \in BOOLEAN /\ Sound(r) BY InvFacts
<1>2. r.at \in Exchanging /\ r.at \in Holding /\ UNCHANGED <<budgeted, now, queue>>
  BY DEF Respond, Break, TimeOut, Exchanging, Holding
<1>3. \E q : /\ Becomes(c, q) /\ Sound(q) /\ q.attempt = r.attempt
             /\ \/ q.at = "sleeping" /\ q.outcome = "none"
                \/ q.at = "ended" /\ q.outcome \in Errors \cup {"answered"}
  <2>1. CASE Respond(c)
    <3>1. PICK response \in Responses : \E q \in AfterResponse(r, response) : Becomes(c, q)
      BY <2>1 DEF Respond
    <3>2. PICK q \in AfterResponse(r, response) : Becomes(c, q) BY <3>1
    <3> HIDE DEF r
    <3> QED BY <1>1, <1>2, <3>2, AfterResponseSound
  <2>2. CASE Break(c) \/ TimeOut(c)
    <3>1. PICK error \in Errors : \E q \in AfterError(r, error) : Becomes(c, q)
      BY <2>2 DEF Break, TimeOut, Errors, Retryable
    <3>2. PICK q \in AfterError(r, error) : Becomes(c, q) BY <3>1
    <3> HIDE DEF r
    <3> QED BY <1>1, <1>2, <3>2, AfterErrorSound
  <2> QED BY <2>1, <2>2
<1>4. PICK q : /\ Becomes(c, q) /\ Sound(q) /\ q.attempt = r.attempt
               /\ \/ q.at = "sleeping" /\ q.outcome = "none"
                  \/ q.at = "ended" /\ q.outcome \in Errors \cup {"answered"}
  BY <1>3
<1>5. Advances(r, q) \/ Ends(r, q)
  BY <1>2, <1>4 DEF Advances, Ends, Holding
<1> QED BY <1>2, <1>4, <1>5, HolderMoves

LEMMA WakeStep == ASSUME TransportInv, NEW c \in Calls, Wake(c) PROVE StepOf(c)
<1> DEFINE r == call[c]
           q == Attempt(r, r.attempt + 1)
<1>1. now \in Nat /\ budgeted \in BOOLEAN /\ Sound(r) /\ r \in Records BY InvFacts
<1>2. /\ r.at = "sleeping" /\ r.at \in Holding
      /\ Becomes(c, q) /\ UNCHANGED <<budgeted, now, queue>>
  BY DEF Wake, Holding
<1>3. r.outcome = "none" /\ r.attempt \in 1..(MaxRetries + 1) /\ r.attempt <= MaxRetries
  BY <1>1, <1>2 DEF Sound, AttemptsSound
<1>4. r.attempt + 1 \in 1..(MaxRetries + 1) BY <1>3, LimitsAssumption
<1> HIDE DEF r
<1>5. /\ Sound(q)
      /\ \/ q.at = "connecting" /\ q.attempt = r.attempt + 1 /\ q.outcome = "none"
         \/ q.at = "ended" /\ q.attempt = r.attempt /\ q.outcome = "llm_timeout"
  BY <1>1, <1>3, <1>4, AttemptSound
<1> HIDE DEF q
<1>6. Advances(r, q) \/ Ends(r, q)
  BY <1>2, <1>3, <1>5 DEF Advances, Ends, Holding, Exchanging, Errors, Retryable
<1> QED BY <1>2, <1>5, <1>6, HolderMoves DEF r

-----------------------------------------------------------------------------
(* The invariant.                                                           *)
LEMMA InitSound == Init => TransportInv
<1> SUFFICES ASSUME Init PROVE TransportInv
  OBVIOUS
<1>1. Fresh \in Records BY DEF Fresh, Records, Outcomes
<1>2. Fresh.at = "idle" /\ Fresh.attempt = 0 /\ Fresh.outcome = "none" BY DEF Fresh
<1>3. WellFormed BY <1>1, LimitsAssumption DEF Init, WellFormed
<1>4. QueueMatches BY <1>2 DEF Init, QueueMatches
<1>5. PermitsAccounted
  <2>1. Holders = {} BY <1>2 DEF Init, Holders, Holding, Exchanging
  <2>2. Cardinality(Holders) = 0 BY <2>1, FS_EmptySet
  <2> QED BY <2>2, LimitsAssumption DEF Init, PermitsAccounted
<1>6. CallsSound
  BY <1>2 DEF Init, CallsSound, AttemptsSound, TimerSound, Holding, Exchanging, Retryable
<1> QED BY <1>3, <1>4, <1>5, <1>6 DEF TransportInv

(* The clock goes on only when no timer is due.                             *)
LEMMA TickKeepsInv == ASSUME TransportInv, Tick PROVE TransportInv'
<1>1. /\ now \in Nat /\ now' = now + 1 /\ UNCHANGED <<budgeted, permits, queue, call>>
      /\ \A c \in Calls : call[c].at \in Holding => call[c].timer > now
  BY DEF Tick, Waits, TransportInv, WellFormed
<1>2. WellFormed' BY <1>1 DEF TransportInv, WellFormed
<1>3. QueueMatches' BY <1>1 DEF TransportInv, QueueMatches
<1>4. PermitsAccounted' BY <1>1 DEF TransportInv, PermitsAccounted, Holders
<1>5. CallsSound'
  <2> SUFFICES ASSUME NEW c \in Calls
               PROVE  AttemptsSound(call[c], budgeted) /\ TimerSound(call[c], budgeted, now + 1)
    BY <1>1 DEF CallsSound
  <2>1. AttemptsSound(call[c], budgeted) /\ TimerSound(call[c], budgeted, now)
    BY DEF TransportInv, CallsSound
  <2>2. call[c].at \in Holding => call[c].timer >= now + 1
    <3>1. call[c].timer \in Nat BY DEF TransportInv, WellFormed, Records
    <3> QED BY <1>1, <3>1
  <2>3. TimerSound(call[c], budgeted, now + 1) BY <2>1, <2>2 DEF TimerSound
  <2> QED BY <2>1, <2>3
<1> QED BY <1>2, <1>3, <1>4, <1>5 DEF TransportInv

LEMMA StepIsStepOf == ASSUME TransportInv, NEW c \in Calls, Step(c) PROVE StepOf(c)
BY EnterStep, ConnectedStep, TrickleStep, ExchangeOver, WakeStep, CancelStep DEF Step

LEMMA NextKeepsInv == TransportInv /\ [Next]_vars => TransportInv'
<1> SUFFICES ASSUME TransportInv, [Next]_vars PROVE TransportInv'
  OBVIOUS
<1>1. CASE Tick BY <1>1, TickKeepsInv
<1>2. CASE Admit BY <1>2, AdmitStep DEF StepOf
<1>3. CASE \E c \in Calls : Step(c) BY <1>3, StepIsStepOf DEF StepOf
<1>4. CASE UNCHANGED vars
  BY <1>4 DEF vars, TransportInv, WellFormed, QueueMatches, PermitsAccounted, Holders, CallsSound
<1> QED BY <1>1, <1>2, <1>3, <1>4 DEF Next, Over

THEOREM TransportInvariant == Spec => []TransportInv
<1> QED BY InitSound, NextKeepsInv, PTL DEF Spec

(* No interleaving of callers, responses, timers and cancellations corrupts *)
(* the semaphore or the queue: every call that waits is in it, once.        *)
THEOREM TransportTypeCorrect == Spec => []TypeOK
<1>1. TransportInv => TypeOK
  <2> SUFFICES ASSUME TransportInv PROVE TypeOK
    OBVIOUS
  <2>1. ASSUME NEW c \in Calls
        PROVE  /\ call[c].at \in Holding \cup {"idle", "queued", "ended"}
               /\ call[c].attempt \in Nat /\ call[c].allowance \in Nat
               /\ call[c].outcome \in Errors \cup {"none", "answered", "cancelled"}
               /\ call[c].outcome = "none" <=> call[c].at # "ended"
    <3>1. call[c] \in Records /\ AttemptsSound(call[c], budgeted)
      BY DEF TransportInv, WellFormed, CallsSound
    <3> QED BY <3>1 DEF Records, Outcomes, AttemptsSound
  <2> QED BY <2>1 DEF TransportInv, WellFormed, QueueMatches, TypeOK
<1> QED BY <1>1, TransportInvariant, PTL

(* For every number of calls and permits, a permit is given back exactly    *)
(* once, however a call ends.                                               *)
THEOREM TransportPermitsNeverLeak == Spec => []PermitsAccounted
<1>1. TransportInv => PermitsAccounted BY DEF TransportInv
<1> QED BY <1>1, TransportInvariant, PTL

(* No answer is accepted after the deadline of a budgeted call.             *)
THEOREM NoAnswerIsLate == Spec => []NoLateAnswer
<1>1. TransportInv => NoLateAnswer
  BY DEF TransportInv, CallsSound, AttemptsSound, NoLateAnswer
<1> QED BY <1>1, TransportInvariant, PTL

(* A transient error is reported only after every permitted attempt.        *)
THEOREM EveryAttemptIsMade == Spec => []PersistsWhileItMay
<1>1. TransportInv => PersistsWhileItMay
  BY DEF TransportInv, CallsSound, AttemptsSound, PersistsWhileItMay
<1> QED BY <1>1, TransportInvariant, PTL

(* Whatever the timeouts, delays and retries: a budgeted call whose data did*)
(* not trickle runs over by one connection timeout at most.                 *)
THEOREM OverrunIsBounded == Spec => []OverrunBounded
<1>1. TransportInv => OverrunBounded
  <2> SUFFICES ASSUME TransportInv, budgeted, NEW c \in Calls,
                      call[c].at \in Holding, call[c].trickles = 0
               PROVE  now <= call[c].deadline + ConnectTimeout
    BY DEF OverrunBounded
  <2>1. call[c] \in Records /\ now \in Nat BY InvFacts
  <2>2. /\ call[c].timer \in Nat /\ call[c].deadline \in Nat /\ call[c].allowance \in Nat
        /\ call[c].at \in {"connecting", "reading", "sleeping"}
    BY <2>1 DEF Records, Holding, Exchanging
  <2>3. TimerSound(call[c], budgeted, now) BY DEF TransportInv, CallsSound
  <2>4. call[c].timer >= now /\ call[c].timer <= call[c].deadline + ConnectTimeout
    BY <2>2, <2>3, LimitsAssumption DEF TimerSound
  <2> QED BY <2>1, <2>2, <2>4, LimitsAssumption
<1> QED BY <1>1, TransportInvariant, PTL

-----------------------------------------------------------------------------
(* The transports implement the contract of a provider call.                *)
PhaseOf(r) ==
  IF r.at \in Holding THEN "calling" ELSE IF r.at = "queued" THEN "waiting" ELSE r.at

Phase == [c \in Calls |->
            IF call[c].at \in Holding THEN "calling"
            ELSE IF call[c].at = "queued" THEN "waiting" ELSE call[c].at]
Spent == [c \in Calls |-> call[c].attempt]
Replies == [c \in Calls |-> call[c].outcome]

LEMMA InitIsContractInit == Init => Contract!Init
BY DEF Init, Contract!Init, Fresh, Holding, Exchanging

(* The instance brings a Cardinality of its own.                            *)
LEMMA SameCardinality ==
  ASSUME NEW S
  PROVE  Contract!Cardinality(S) = Cardinality(S)
BY DEF Contract!Cardinality, Cardinality

(* A permit can only be free while fewer calls than permits are in progress.*)
LEMMA RoomWhilePermits ==
  ASSUME TransportInv, permits > 0
  PROVE  Cardinality(Contract!Calling) < MaxConcurrency
<1>1. Contract!Calling = Holders
  <2>1. \A c \in Calls : Phase[c] = "calling" <=> call[c].at \in Holding
    BY DEF Phase, TransportInv, WellFormed, Records
  <2> QED BY <2>1 DEF Contract!Calling, Holders, Phase
<1>2. IsFiniteSet(Holders)
  <2>1. Holders \in SUBSET Calls BY DEF Holders
  <2> QED BY <2>1, FS_Subset, LimitsAssumption
<1>3. Cardinality(Holders) \in Nat BY <1>2, FS_CardinalityType
<1> QED
  BY <1>1, <1>3, LimitsAssumption DEF TransportInv, WellFormed, PermitsAccounted

LEMMA StepIsContractStep ==
  ASSUME TransportInv, NEW c \in Calls, StepOf(c)
  PROVE  Contract!Next \/ UNCHANGED <<Phase, Spent, Replies>>
<1>1. PICK q : /\ Moves(c, q)
               /\ \/ Asks(call[c], q)
                  \/ Admitted(call[c], q) /\ permits > 0
                  \/ Advances(call[c], q)
                  \/ Ends(call[c], q)
  BY DEF StepOf
<1> DEFINE r == call[c]
<1>2. /\ call' = [call EXCEPT ![c] = q] /\ q \in Records /\ r \in Records
      /\ AttemptsSound(r, budgeted) /\ call \in [Calls -> Records]
  BY <1>1, InvFacts DEF Moves, Sound, TransportInv, WellFormed
<1>3. /\ Phase' = [Phase EXCEPT ![c] = PhaseOf(q)] /\ Phase[c] = PhaseOf(r)
      /\ Spent' = [Spent EXCEPT ![c] = q.attempt] /\ Spent[c] = r.attempt
      /\ Replies' = [Replies EXCEPT ![c] = q.outcome] /\ Replies[c] = r.outcome
  BY <1>2 DEF Phase, PhaseOf, Spent, Replies
<1>4. /\ Phase = [Phase EXCEPT ![c] = PhaseOf(r)]
      /\ Spent = [Spent EXCEPT ![c] = r.attempt]
      /\ Replies = [Replies EXCEPT ![c] = r.outcome]
  BY DEF Phase, PhaseOf, Spent, Replies
<1>5. r.outcome = "none" <=> r.at # "ended" BY <1>2 DEF AttemptsSound
<1>6. r.at \in {"idle", "queued"} => r.attempt = 0 BY <1>2 DEF AttemptsSound
<1> HIDE DEF r
<1>7. CASE Asks(r, q)
  <2>1. PhaseOf(r) = "idle" /\ PhaseOf(q) = "waiting"
        /\ q.attempt = r.attempt /\ q.outcome = r.outcome
    BY <1>5, <1>6, <1>7 DEF Asks, PhaseOf, Holding, Exchanging
  <2>2. Contract!Ask(c)
    BY <1>3, <1>4, <2>1 DEF Contract!Ask, Phase, Spent, Replies
  <2> QED BY <2>2 DEF Contract!Next
<1>8. CASE Admitted(r, q) /\ permits > 0
  <2>1. PhaseOf(r) \in {"idle", "waiting"} /\ PhaseOf(q) = "calling"
        /\ q.attempt = 1 /\ q.outcome = r.outcome
    BY <1>5, <1>8 DEF Admitted, PhaseOf, Holding, Exchanging
  <2>2. Cardinality(Contract!Calling) < MaxConcurrency BY <1>8, RoomWhilePermits
  <2>3. /\ Phase[c] \in {"idle", "waiting"} /\ Phase' = [Phase EXCEPT ![c] = "calling"]
        /\ Spent' = [Spent EXCEPT ![c] = 1] /\ Replies' = Replies
    BY <1>3, <1>4, <2>1
  <2>4. Contract!Admit(c)
    BY <2>2, <2>3, SameCardinality DEF Contract!Admit, Phase, Spent, Replies
  <2> QED BY <2>4 DEF Contract!Next
<1>9. CASE Advances(r, q)
  <2>1. PhaseOf(r) = "calling" /\ PhaseOf(q) = "calling" /\ q.outcome = r.outcome
    BY <1>5, <1>9 DEF Advances, PhaseOf, Holding, Exchanging
  <2>2. CASE q.attempt = r.attempt
    BY <1>3, <1>4, <2>1, <2>2
  <2>3. CASE q.attempt = r.attempt + 1 /\ r.attempt <= MaxRetries
    <3>1. r.attempt < MaxRetries + 1 BY <1>2, <2>3, LimitsAssumption DEF Records
    <3>2. Contract!Retry(c)
      BY <1>3, <1>4, <2>1, <2>3, <3>1 DEF Contract!Retry, Phase, Spent, Replies
    <3> QED BY <3>2 DEF Contract!Next
  <2> QED BY <1>9, <2>2, <2>3 DEF Advances
<1>10. CASE Ends(r, q)
  <2>1. /\ PhaseOf(r) \in {"waiting", "calling"} /\ PhaseOf(q) = "ended"
        /\ q.attempt = r.attempt /\ q.outcome \in Errors \cup {"answered", "cancelled"}
        /\ q.outcome = "answered" => PhaseOf(r) = "calling"
    BY <1>10 DEF Ends, PhaseOf, Holding, Exchanging, Errors, Retryable
  <2>2. Contract!End(c)
    BY <1>3, <1>4, <2>1 DEF Contract!End, Phase, Spent, Replies
  <2> QED BY <2>2 DEF Contract!Next
<1> QED BY <1>1, <1>7, <1>8, <1>9, <1>10 DEF r

LEMMA NextIsContractNext ==
  TransportInv /\ [Next]_vars => [Contract!Next]_(Contract!vars)
<1> SUFFICES ASSUME TransportInv, [Next]_vars
             PROVE  Contract!Next \/ UNCHANGED <<Phase, Spent, Replies>>
  BY DEF Contract!vars, Phase, Spent, Replies
<1>1. CASE Tick BY <1>1 DEF Tick, Phase, Spent, Replies
<1>2. CASE Admit BY <1>2, AdmitStep, StepIsContractStep
<1>3. CASE \E c \in Calls : Step(c) BY <1>3, StepIsStepOf, StepIsContractStep
<1>4. CASE UNCHANGED vars BY <1>4 DEF vars, Phase, Spent, Replies
<1> QED BY <1>1, <1>2, <1>3, <1>4 DEF Next, Over

(* For every limit: at most MaxConcurrency calls are in progress, each makes*)
(* at most one attempt more than there are retries, ends once, and is       *)
(* answered only out of an attempt.                                         *)
THEOREM TransportKeepsContract == Spec => KeepsContract
<1> QED
  BY InitIsContractInit, TransportInvariant, NextIsContractNext, PTL
  DEF Spec, KeepsContract, Contract!Spec

==============================================================================
