-------------------------- MODULE ProviderTransport --------------------------
(***************************************************************************)
(* The HTTP transports of the two model providers: a semaphore around a    *)
(* loop of attempts with exponential, jittered backoff.                    *)
(*                                                                         *)
(* They differ in one thing.  OllamaTransport (budgeted) fixes a deadline  *)
(* before it waits for the semaphore, gives every attempt what is left of  *)
(* it, and gives up when a backoff would not fit.  OpenAIResponsesTransport*)
(* gives every attempt the configured timeout.                             *)
(*                                                                         *)
(* An attempt is an exchange of two phases, each with a timer of its own:  *)
(* httpx limits the wait for the connection and every wait for data, not   *)
(* the exchange as a whole, so data that trickles in restarts the second   *)
(* timer.  The pool has a connection for every permit, as by default: no   *)
(* exchange waits for one.  Time is counted in ticks; the event loop       *)
(* serves a due timer, and a free permit, before the clock goes on.  A     *)
(* backoff of base delay d before attempt n + 1 lasts from d*2^(n-1)/2 up  *)
(* to, but not including, three times that.                                *)
(***************************************************************************)
EXTENDS Integers, Sequences, FiniteSets

CONSTANTS
  Calls,           \* the calls of chat or create
  Transports,      \* the transports considered: TRUE is OllamaTransport, FALSE
                   \* OpenAIResponsesTransport
  MaxConcurrency,  \* llm.max_concurrency
  MaxRetries,      \* llm.max_retries
  Timeout,         \* llm.timeout_seconds, in ticks
  ConnectTimeout,  \* llm.connect_timeout_seconds, in ticks
  BaseDelay,       \* llm.retry_base_delay_seconds, in ticks
  Trickles,        \* bound: times the data of one call may trickle
  LastEntry        \* bound: no call is made after this time

ASSUME LimitsAssumption ==
  /\ Transports \subseteq BOOLEAN
  /\ IsFiniteSet(Calls)
  /\ MaxConcurrency \in Nat \ {0} /\ MaxRetries \in Nat
  /\ Timeout \in Nat \ {0} /\ ConnectTimeout \in Nat \ {0} /\ BaseDelay \in Nat
  /\ Trickles \in Nat /\ LastEntry \in Nat

VARIABLES
  budgeted, \* the transport is OllamaTransport; never changes
  now,      \* the monotonic clock
  permits,  \* free permits of the semaphore
  queue,    \* the calls waiting for one, in order
  call      \* per call: a record, see Fresh

vars == <<budgeted, now, permits, queue, call>>

(* at: idle, queued, connecting, reading, sleeping or ended; allowance: the *)
(* timeout of each phase of the attempt; timer: when the phase or the sleep *)
(* is over; ended: when the call ended.                                     *)
Fresh ==
  [at |-> "idle", attempt |-> 0, deadline |-> 0, allowance |-> 0, timer |-> 0,
   trickles |-> 0, ended |-> 0, outcome |-> "none"]

Exchanging == {"connecting", "reading"}
Holding == Exchanging \cup {"sleeping"}
Holders == {c \in Calls : call[c].at \in Holding}

Retryable == {"llm_timeout", "llm_unavailable", "rate_limited"}
Errors == Retryable \cup {"llm_invalid_response", "rejected"}

(* What a response turns into: _http_error and the parsing of the payload.  *)
Responses == {"ok", "garbled", "busy", "down", "refused"}

ErrorOf(response) ==
  CASE response = "busy" -> "rate_limited"
    [] response = "down" -> "llm_unavailable"
    [] response = "refused" -> "rejected"
    [] OTHER -> "none"

Lesser(a, b) == IF a <= b THEN a ELSE b

Doubled(n) == BaseDelay * 2 ^ (n - 1)
Delays(n) == {d \in 0..3 * Doubled(n) : 2 * d >= Doubled(n) /\ 2 * d < 3 * Doubled(n)}
               \cup (IF BaseDelay = 0 THEN {0} ELSE {})

-----------------------------------------------------------------------------
Ended(r, outcome) ==
  [r EXCEPT !.at = "ended", !.outcome = outcome, !.ended = now,
            !.allowance = 0, !.timer = 0, !.trickles = 0]

(* The next attempt: what is left of the budget, or the whole timeout.      *)
Attempt(r, n) ==
  LET allowance == IF budgeted THEN r.deadline - now ELSE Timeout
  IN  IF allowance <= 0
      THEN Ended(r, "llm_timeout")
      ELSE [r EXCEPT !.at = "connecting", !.attempt = n, !.allowance = allowance,
                     !.timer = now + Lesser(ConnectTimeout, allowance)]

(* Mutant: one retry fewer.                                                 *)
AfterError_Early(r, error) ==
  IF error \notin Retryable \/ r.attempt >= MaxRetries
  THEN {Ended(r, error)}
  ELSE {IF budgeted /\ d >= r.deadline - now
        THEN Ended(r, "llm_timeout")
        ELSE [r EXCEPT !.at = "sleeping", !.timer = now + d] : d \in Delays(r.attempt)}

(* Mutant: one retry more.                                                  *)
AfterError_Extra(r, error) ==
  IF error \notin Retryable \/ r.attempt > MaxRetries + 1
  THEN {Ended(r, error)}
  ELSE {IF budgeted /\ d >= r.deadline - now
        THEN Ended(r, "llm_timeout")
        ELSE [r EXCEPT !.at = "sleeping", !.timer = now + d] : d \in Delays(r.attempt)}

(* Mutant: a backoff longer than what is left is slept all the same.        *)
AfterError_Sleep(r, error) ==
  IF error \notin Retryable \/ r.attempt > MaxRetries
  THEN {Ended(r, error)}
  ELSE {[r EXCEPT !.at = "sleeping", !.timer = now + d] : d \in Delays(r.attempt)}

(* Give up, or back off before the next attempt.                            *)
AfterError(r, error) ==
  IF error \notin Retryable \/ r.attempt > MaxRetries
  THEN {Ended(r, error)}
  ELSE {IF budgeted /\ d >= r.deadline - now
        THEN Ended(r, "llm_timeout")
        ELSE [r EXCEPT !.at = "sleeping", !.timer = now + d] : d \in Delays(r.attempt)}

(* Mutant: an answer is accepted however late it comes.                     *)
AfterResponse_Late(r, response) ==
  IF ErrorOf(response) # "none"
  THEN AfterError(r, ErrorOf(response))
  ELSE {Ended(r, IF response = "ok" THEN "answered" ELSE "llm_invalid_response")}

(* A response that comes too late counts as a timeout, whatever it says.    *)
AfterResponse(r, response) ==
  LET error == IF budgeted /\ now >= r.deadline THEN "llm_timeout" ELSE ErrorOf(response)
  IN  IF error # "none"
      THEN AfterError(r, error)
      ELSE {Ended(r, IF response = "ok" THEN "answered" ELSE "llm_invalid_response")}

-----------------------------------------------------------------------------
Init ==
  /\ budgeted \in Transports
  /\ now = 0
  /\ permits = MaxConcurrency
  /\ queue = <<>>
  /\ call = [c \in Calls |-> Fresh]

(* The permit of a call that went from holding to "at" is given back.       *)
Becomes(c, r) ==
  /\ call' = [call EXCEPT ![c] = r]
  /\ permits' = IF r.at = "ended" THEN permits + 1 ELSE permits

(* chat, create: the deadline is fixed before the semaphore is awaited.     *)
Enter(c) ==
  /\ call[c].at = "idle"
  /\ now <= LastEntry
  /\ LET r == [Fresh EXCEPT !.deadline = now + Timeout]
     IN  IF permits > 0 /\ queue = <<>>
         THEN /\ permits' = permits - 1
              /\ call' = [call EXCEPT ![c] = Attempt(r, 1)]
              /\ UNCHANGED queue
         ELSE /\ queue' = Append(queue, c)
              /\ call' = [call EXCEPT ![c] = [r EXCEPT !.at = "queued"]]
              /\ UNCHANGED permits
  /\ UNCHANGED <<budgeted, now>>

(* The first in the queue gets the permit, and keeps it if it has time left.*)
Admit ==
  /\ queue # <<>>
  /\ permits > 0
  /\ LET c == Head(queue)
         r == Attempt(call[c], 1)
     IN  /\ call' = [call EXCEPT ![c] = r]
         /\ permits' = IF r.at = "ended" THEN permits ELSE permits - 1
  /\ queue' = Tail(queue)
  /\ UNCHANGED <<budgeted, now>>

Connected(c) ==
  /\ call[c].at = "connecting"
  /\ Becomes(c, [call[c] EXCEPT !.at = "reading", !.timer = now + call[c].allowance])
  /\ UNCHANGED <<budgeted, now, queue>>

Trickle(c) ==
  /\ call[c].at = "reading"
  /\ call[c].trickles < Trickles
  /\ call[c].timer < now + call[c].allowance
  /\ Becomes(c, [call[c] EXCEPT !.timer = now + call[c].allowance, !.trickles = @ + 1])
  /\ UNCHANGED <<budgeted, now, queue>>

Respond(c) ==
  /\ call[c].at = "reading"
  /\ \E response \in Responses : \E r \in AfterResponse(call[c], response) : Becomes(c, r)
  /\ UNCHANGED <<budgeted, now, queue>>

(* The connection is refused or lost: httpx.TransportError.                 *)
Break(c) ==
  /\ call[c].at \in Exchanging
  /\ \E r \in AfterError(call[c], "llm_unavailable") : Becomes(c, r)
  /\ UNCHANGED <<budgeted, now, queue>>

(* A timer of the exchange is due: httpx.TimeoutException.                  *)
TimeOut(c) ==
  /\ call[c].at \in Exchanging
  /\ call[c].timer <= now
  /\ \E r \in AfterError(call[c], "llm_timeout") : Becomes(c, r)
  /\ UNCHANGED <<budgeted, now, queue>>

Wake(c) ==
  /\ call[c].at = "sleeping"
  /\ call[c].timer <= now
  /\ Becomes(c, Attempt(call[c], call[c].attempt + 1))
  /\ UNCHANGED <<budgeted, now, queue>>

(* The queue when the call at i no longer waits.                            *)
LeavingAt(i) == SubSeq(queue, 1, i - 1) \o SubSeq(queue, i + 1, Len(queue))

(* Mutant: a cancelled call in backoff keeps its permit.                    *)
Cancel_Kept(c) ==
  /\ \/ /\ call[c].at = "queued"
        /\ \E i \in DOMAIN queue : queue[i] = c /\ queue' = LeavingAt(i)
        /\ UNCHANGED permits
     \/ /\ call[c].at \in Holding
        /\ permits' = IF call[c].at \in Exchanging THEN permits + 1 ELSE permits
        /\ UNCHANGED queue
  /\ call' = [call EXCEPT ![c] = Ended(call[c], "cancelled")]
  /\ UNCHANGED <<budgeted, now>>

(* Mutant: a call cancelled while it waits stays in the queue.              *)
Cancel_Left(c) ==
  /\ call[c].at \in Holding \cup {"queued"}
  /\ call' = [call EXCEPT ![c] = Ended(call[c], "cancelled")]
  /\ permits' = IF call[c].at \in Holding THEN permits + 1 ELSE permits
  /\ UNCHANGED <<budgeted, now, queue>>

(* The deadline of the verification passes: wait_for cancels the task, which*)
(* leaves the queue or gives its permit back.                               *)
Cancel(c) ==
  /\ \/ /\ call[c].at = "queued"
        /\ \E i \in DOMAIN queue : queue[i] = c /\ queue' = LeavingAt(i)
        /\ UNCHANGED permits
     \/ /\ call[c].at \in Holding
        /\ permits' = permits + 1
        /\ UNCHANGED queue
  /\ call' = [call EXCEPT ![c] = Ended(call[c], "cancelled")]
  /\ UNCHANGED <<budgeted, now>>

Waits(c) == call[c].at \in Holding

Tick ==
  /\ \E c \in Calls : call[c].at # "ended"
  /\ now <= LastEntry \/ Holders # {}
  /\ \A c \in Calls : Waits(c) => call[c].timer > now
  /\ queue = <<>> \/ permits = 0
  /\ now' = now + 1
  /\ UNCHANGED <<budgeted, permits, queue, call>>

Over ==
  /\ Holders = {}
  /\ queue = <<>> \/ permits = 0
  /\ UNCHANGED vars

Step(c) ==
  Enter(c) \/ Connected(c) \/ Trickle(c) \/ Respond(c) \/ Break(c) \/ TimeOut(c) \/ Wake(c)
    \/ Cancel(c)

Next == Tick \/ Admit \/ Over \/ \E c \in Calls : Step(c)

Spec == Init /\ [][Next]_vars

(* The clock goes on, due timers fire and freed permits are handed over;    *)
(* the provider owes nothing, and nobody has to cancel.                     *)
Fairness ==
  /\ WF_vars(Tick) /\ WF_vars(Admit)
  /\ \A c \in Calls : WF_vars(TimeOut(c)) /\ WF_vars(Wake(c))

FairSpec == Spec /\ Fairness

-----------------------------------------------------------------------------
(* Properties.                                                              *)

(* TypeOK: the semaphore and the records of the calls are well formed; the  *)
(* queue holds every call that waits, once.                                 *)
TypeOK ==
  /\ budgeted \in BOOLEAN /\ now \in Nat
  /\ permits \in 0..MaxConcurrency
  /\ \A i, j \in DOMAIN queue : queue[i] = queue[j] => i = j
  /\ {queue[i] : i \in DOMAIN queue} = {c \in Calls : call[c].at = "queued"}
  /\ \A c \in Calls :
       /\ call[c].at \in Holding \cup {"idle", "queued", "ended"}
       /\ call[c].attempt \in Nat /\ call[c].allowance \in Nat
       /\ call[c].outcome \in Errors \cup {"none", "answered", "cancelled"}
       /\ call[c].outcome = "none" <=> call[c].at # "ended"

(* PermitsAccounted: a call holds its permit through its exchanges and its  *)
(* backoffs and gives it back once, however it ends (ollama.py:175).        *)
PermitsAccounted == permits + Cardinality(Holders) = MaxConcurrency

(* NoLateAnswer: within a budget, no answer is accepted once the deadline   *)
(* has passed, whatever trickled in or was retried before (ollama.py:222).  *)
NoLateAnswer ==
  budgeted => \A c \in Calls : call[c].outcome = "answered" => call[c].ended < call[c].deadline

(* PersistsWhileItMay: a transient error is reported only after every       *)
(* permitted attempt has been made (ollama.py:230, transport.py:95).        *)
PersistsWhileItMay ==
  \A c \in Calls :
    call[c].outcome \in Retryable \ (IF budgeted THEN {"llm_timeout"} ELSE {})
      => call[c].attempt = MaxRetries + 1

(* OverrunBounded: a call that got its permit in time, and whose data did   *)
(* not trickle, is over at most one connection timeout after its deadline:  *)
(* no backoff and no attempt is begun that would go further.                *)
OverrunBounded ==
  budgeted =>
    \A c \in Calls :
      call[c].at \in Holding /\ call[c].trickles = 0 =>
        now <= call[c].deadline + ConnectTimeout

(* The contract the service builds on: bounded concurrency and attempts,    *)
(* one end per call.                                                        *)
Contract == INSTANCE ProviderContract WITH
  MaxAttempts <- MaxRetries + 1,
  phase <- [c \in Calls |->
              IF call[c].at \in Holding THEN "calling"
              ELSE IF call[c].at = "queued" THEN "waiting" ELSE call[c].at],
  spent <- [c \in Calls |-> call[c].attempt],
  reply <- [c \in Calls |-> call[c].outcome]

(* KeepsContract: both transports implement the contract of a provider call.*)
KeepsContract == Contract!Spec

(* EveryCallEnds: with a silent provider, the timers alone end every call,  *)
(* also those that wait for the permit of another.                          *)
EveryCallEnds == \A c \in Calls : call[c].at # "idle" ~> call[c].at = "ended"

(* TotalBudget: "Total budget for one rater call, including retries' own    *)
(* timeouts" (config.py:58).                                                *)
TotalBudget ==
  \A c \in Calls :
    call[c].at = "ended" /\ call[c].outcome # "cancelled" => call[c].ended <= call[c].deadline

=============================================================================
