------------------------------- MODULE ApiEdge --------------------------------
(***************************************************************************)
(* The HTTP edge of the service: what a request passes through before and  *)
(* after HybridVerificationService, and the container whose life is that   *)
(* of the process.                                                         *)
(*                                                                         *)
(* Requests are served by tasks that interleave at every await.  Each task *)
(* has its own value of the context variable _request_id; a task that is   *)
(* started takes over the value of its parent.  From outside to inside a   *)
(* request passes RequestContextMiddleware, BodySizeLimitMiddleware, the   *)
(* exception handlers and the route; the handler of unexpected exceptions  *)
(* sits outside of both.  A verification is a claim that ends in some way  *)
(* (VerificationService says in which); that a client goes away is not     *)
(* modelled.                                                               *)
(***************************************************************************)
EXTENDS Integers, FiniteSets

CONSTANTS
  Requests,       \* the requests the process may receive
  Arrivals,       \* what a request may look like
  SafeIds,        \* ids a client may supply and _SAFE_REQUEST_ID accepts
  UnsafeId,       \* an id it does not accept
  MaxBatchItems,  \* max_batch_items
  MaxClaims,      \* bound: the claims of a batch that is asked for
  Providers,      \* llm.provider
  None

Routes == {"verify", "batch", "ready", "health", "metrics", "unknown"}
Scraped == {"health", "ready", "metrics"}
Verifying == {"verify", "batch"}
Declarations == {"within", "beyond", "unreadable", "absent"}

(* post: the method is one that has a body (POST, PUT or PATCH).            *)
Shapes == [route : Routes, post : BOOLEAN, supplied : SafeIds \cup {UnsafeId, None},
           declared : Declarations, fits : BOOLEAN, valid : BOOLEAN, claims : 1..MaxClaims]

(* A server hands on no body that is longer or shorter than declared; a     *)
(* method the path does not take counts as an unknown route; the task of a  *)
(* request is not the task of a claim.                                      *)
ASSUME EdgeAssumption ==
  /\ MaxBatchItems \in Nat \ {0} /\ MaxClaims \in Nat \ {0}
  /\ Requests \cap (Requests \X (1..MaxClaims)) = {}
  /\ UnsafeId \notin SafeIds
  /\ Arrivals \subseteq Shapes
  /\ \A a \in Arrivals : /\ a.declared = "within" => a.fits
                         /\ a.declared = "beyond" => ~a.fits
                         /\ a.route # "batch" => a.claims = 1
                         /\ a.route \in Verifying => a.post
                         /\ a.route \in Scraped => ~a.post

VARIABLES
  process,    \* of the process: down, serving, draining, closed, stopped, failed
  pool,       \* the connection pool of the transport
  call,       \* the request as it arrived
  at,         \* where the request is
  id,         \* request.state.request_id
  bound,      \* _request_id of each task
  claim,      \* how far each claim of the request is
  reply,      \* the answer
  log         \* the lines of the log

lifecycle == <<process, pool>>
vars == <<lifecycle, call, at, id, bound, claim, reply, log>>

Positions == 1..MaxClaims
Tasks == Requests \cup (Requests \X Positions)

(* An id that was minted is nobody else's.                                  *)
Minted(r) == [minted |-> r]
RequestIds == SafeIds \cup {Minted(r) : r \in Requests}
ItemIds == [batch : RequestIds, index : Positions, suffix : Requests \X Positions]
Ids == RequestIds \cup ItemIds

Codes == {"ok", "request_too_large", "invalid_header", "http_404", "invalid_request",
          "batch_too_large", "verification_failed", "internal_error"}
Lines == [by : Tasks, event : {"domain_error", "request_validation_failed", "http_request",
          "unhandled_exception", "verification_completed", "verification_failed"},
          id : Ids \cup {None}]

TypeOK ==
  /\ process \in {"down", "serving", "draining", "closed", "stopped", "failed"}
  /\ pool \in {"none", "open", "closed"}
  /\ call \in [Requests -> Arrivals \cup {None}]
  /\ at \in [Requests -> {"away", "entered", "reading", "routing", "serving", "leaving",
                          "answered"}]
  /\ id \in [Requests -> RequestIds \cup {None}]
  /\ bound \in [Tasks -> Ids \cup {None}]
  /\ claim \in [Requests \X Positions -> {"none", "running", "calling", "done", "failed",
                                          "crashed", "cancelled"}]
  /\ \A r \in Requests : reply[r] # None =>
       reply[r] \in [code : Codes, header : RequestIds \cup {None},
                     body : RequestIds \cup {None}]
  /\ log \subseteq Lines

Init ==
  /\ process = "down" /\ pool = "none"
  /\ call = [r \in Requests |-> None]
  /\ at = [r \in Requests |-> "away"]
  /\ id = [r \in Requests |-> None]
  /\ bound = [t \in Tasks |-> None]
  /\ claim = [t \in Requests \X Positions |-> "none"]
  /\ reply = [r \in Requests |-> None]
  /\ log = {}

-----------------------------------------------------------------------------
(* The context variable and what reads it.                                  *)

(* Mutant: one variable for the process, not one for each task.             *)
Bind_Global(t, i) == [u \in Tasks |-> i]
Bind(t, i) == [bound EXCEPT ![t] = i]

(* Every line of the log carries the id of the task that writes it.         *)
Line(t, event) == [by |-> t, event |-> event, id |-> bound[t]]

(* _envelope and _error_body: an error in the body carries the id that is   *)
(* bound.  The header comes later.                                          *)
Respond(r, code, body) ==
  /\ reply' = [reply EXCEPT ![r] = [code |-> code, header |-> None, body |-> body]]
  /\ at' = [at EXCEPT ![r] = "leaving"]

Refuse(r, code) ==
  /\ Respond(r, code, bound[r])
  /\ UNCHANGED log

Fail(r, event, code) ==
  /\ Respond(r, code, bound[r])
  /\ log' = log \cup {Line(r, event)}

(* A batch tells its claims apart also from those of another batch whose    *)
(* client chose the same id.                                                *)
ItemId(r, k) ==
  IF call[r].route = "verify" THEN id[r]
  ELSE [batch |-> id[r], index |-> k, suffix |-> <<r, k>>]

-----------------------------------------------------------------------------
(* The process.                                                             *)

(* lifespan: build_container raises for a bad setting, profile, prompt or   *)
(* catalog, and then no request is served.                                  *)
Startup ==
  /\ process = "down"
  /\ \/ /\ process' = "serving"
        /\ \E p \in Providers : pool' = IF p = "fake" THEN "none" ELSE "open"
     \/ /\ process' = "failed"
        /\ UNCHANGED pool
  /\ UNCHANGED <<call, at, id, bound, claim, reply, log>>

(* Mutant: the container is closed before the requests have drained.        *)
BeginShutdown_Closes ==
  /\ process = "serving"
  /\ process' = "draining"
  /\ pool' = IF pool = "open" THEN "closed" ELSE pool
  /\ UNCHANGED <<call, at, id, bound, claim, reply, log>>

(* The server takes no more requests, and waits for those it has.           *)
BeginShutdown ==
  /\ process = "serving"
  /\ process' = "draining"
  /\ UNCHANGED <<pool, call, at, id, bound, claim, reply, log>>

(* Mutant: a container without a rater is closed like one that has it.      *)
Close_Always ==
  /\ process = "draining"
  /\ \A r \in Requests : at[r] \in {"away", "answered"}
  /\ pool = "open"
  /\ pool' = "closed" /\ process' = "closed"
  /\ UNCHANGED <<call, at, id, bound, claim, reply, log>>

(* The lifespan ends after the last answer: aclose closes the pool of the   *)
(* rater, if there is one.  A claim that outlived the answer of its batch   *)
(* may still be in a call, or on its way to one.                            *)
Close ==
  /\ process = "draining"
  /\ \A r \in Requests : at[r] \in {"away", "answered"}
  /\ pool' = IF pool = "open" THEN "closed" ELSE pool
  /\ process' = "closed"
  /\ UNCHANGED <<call, at, id, bound, claim, reply, log>>

(* A claim that still has to end: between calls of the provider, or in one. *)
Live == {"running", "calling"}

(* The event loop ends and cancels the tasks that still run.                *)
Exit ==
  /\ process = "closed"
  /\ process' = "stopped"
  /\ claim' = [t \in DOMAIN claim |-> IF claim[t] \in Live THEN "cancelled" ELSE claim[t]]
  /\ UNCHANGED <<pool, call, at, id, bound, reply, log>>

-----------------------------------------------------------------------------
(* A request on its way in.                                                 *)

(* Mutant: whatever the client sends is taken for the id.                   *)
Identity_Trusting(r, supplied) == IF supplied # None THEN supplied ELSE Minted(r)
Identity(r, supplied) == IF supplied \in SafeIds THEN supplied ELSE Minted(r)

(* Mutant: the size check is added last and so lies outside.                *)
Enter_SizeOutside(r) ==
  /\ process = "serving" /\ at[r] = "away"
  /\ \E a \in Arrivals :
       /\ call' = [call EXCEPT ![r] = a]
       /\ id' = [id EXCEPT ![r] = Identity(r, a.supplied)]
       /\ bound' = IF a.declared = "beyond" THEN bound ELSE Bind(r, Identity(r, a.supplied))
  /\ at' = [at EXCEPT ![r] = "entered"]
  /\ UNCHANGED <<lifecycle, claim, reply, log>>

(* RequestContextMiddleware, as far as call_next.                           *)
Enter(r) ==
  /\ process = "serving" /\ at[r] = "away"
  /\ \E a \in Arrivals :
       /\ call' = [call EXCEPT ![r] = a]
       /\ id' = [id EXCEPT ![r] = Identity(r, a.supplied)]
       /\ bound' = Bind(r, Identity(r, a.supplied))
  /\ at' = [at EXCEPT ![r] = "entered"]
  /\ UNCHANGED <<lifecycle, claim, reply, log>>

Pass(r, where) ==
  /\ at' = [at EXCEPT ![r] = where]
  /\ UNCHANGED <<reply, log>>

(* Where somebody waits for the client to send the body: the middleware,    *)
(* on any path, when no length was declared, and the route that takes its   *)
(* payload from it.                                                         *)
MustRead(a) == a.post /\ (a.declared = "absent" \/ a.route \in Verifying)

Limit(r) ==
  /\ at[r] = "entered"
  /\ \/ /\ call[r].declared = "beyond"
        /\ Refuse(r, "request_too_large")
     \/ /\ call[r].declared = "unreadable"
        /\ Refuse(r, "invalid_header")
     \/ /\ call[r].declared \in {"within", "absent"}
        /\ Pass(r, IF MustRead(call[r]) THEN "reading" ELSE "routing")
  /\ UNCHANGED <<lifecycle, call, id, bound, claim>>

(* The client has sent the whole body.                                      *)
ReadBody(r) ==
  /\ at[r] = "reading"
  /\ \/ call[r].fits /\ Pass(r, "routing")
     \/ ~call[r].fits /\ Refuse(r, "request_too_large")
  /\ UNCHANGED <<lifecycle, call, id, bound, claim>>

(* health, ready, metrics and a path that is no route.  A process that      *)
(* serves has its container, and a catalog that was loaded stays healthy,   *)
(* so get_container does not raise and ready finds the repository ready.    *)
RouteSimple(r) ==
  /\ at[r] = "routing"
  /\ \/ call[r].route = "unknown" /\ Refuse(r, "http_404")
     \/ call[r].route \in Scraped /\ Respond(r, "ok", None) /\ UNCHANGED log
  /\ UNCHANGED <<lifecycle, call, id, bound, claim>>

(* verify and verify_batch as far as the service: every claim begins in a   *)
(* task that has its own id bound.                                          *)
Begin(r) ==
  /\ at[r] = "routing" /\ call[r].route \in Verifying
  /\ call[r].valid /\ call[r].claims <= MaxBatchItems
  /\ at' = [at EXCEPT ![r] = "serving"]
  /\ claim' = [t \in DOMAIN claim |->
                 IF t[1] = r /\ t[2] <= call[r].claims THEN "running" ELSE claim[t]]
  /\ bound' = [t \in Tasks |->
                 IF t \in {<<r, k>> : k \in 1..call[r].claims} THEN ItemId(r, t[2])
                 ELSE bound[t]]
  /\ UNCHANGED <<lifecycle, call, id, reply, log>>

(* ... or the request is refused before any of them begins.                 *)
Decline(r) ==
  /\ at[r] = "routing" /\ call[r].route \in Verifying
  /\ \/ ~call[r].valid /\ Fail(r, "request_validation_failed", "invalid_request")
     \/ /\ call[r].valid /\ call[r].claims > MaxBatchItems
        /\ Fail(r, "domain_error", "batch_too_large")
  /\ UNCHANGED <<lifecycle, call, id, bound, claim>>

-----------------------------------------------------------------------------
(* The claims.  A claim whose request was answered already runs on.         *)

Alive == process \in {"serving", "draining", "closed"}

(* A claim, or its extraction, asks the provider over the pool.  A provider *)
(* without a pool is asked within "running".                                *)
Call(r, k) ==
  /\ Alive /\ claim[<<r, k>>] = "running" /\ pool = "open"
  /\ claim' = [claim EXCEPT ![<<r, k>>] = "calling"]
  /\ UNCHANGED <<lifecycle, call, at, id, bound, reply, log>>

(* No answer comes over a pool that was closed.                             *)
Answer(r, k) ==
  /\ Alive /\ claim[<<r, k>>] = "calling" /\ pool = "open"
  /\ claim' = [claim EXCEPT ![<<r, k>>] = "running"]
  /\ UNCHANGED <<lifecycle, call, at, id, bound, reply, log>>

Complete(r, k) ==
  /\ Alive /\ claim[<<r, k>>] = "running"
  /\ claim' = [claim EXCEPT ![<<r, k>>] = "done"]
  /\ log' = log \cup {Line(<<r, k>>, "verification_completed")}
  /\ UNCHANGED <<lifecycle, call, at, id, bound, reply>>

(* A deadline, an error of the provider or a refusal.  _record_failure      *)
(* binds the id of the claim once more.                                     *)
FailureId(r, k) == ItemId(r, k)

FailClaim(r, k) ==
  /\ Alive /\ claim[<<r, k>>] \in Live
  /\ claim' = [claim EXCEPT ![<<r, k>>] = "failed"]
  /\ log' = log \cup {[Line(<<r, k>>, "verification_failed") EXCEPT !.id = FailureId(r, k)]}
  /\ UNCHANGED <<lifecycle, call, at, id, bound, reply>>

(* An exception that is no ClaimVerificationError, such as the RuntimeError *)
(* of a client that was closed: nothing is logged here.                     *)
Crash(r, k) ==
  /\ Alive /\ claim[<<r, k>>] \in Live
  /\ claim' = [claim EXCEPT ![<<r, k>>] = "crashed"]
  /\ UNCHANGED <<lifecycle, call, at, id, bound, reply, log>>

-----------------------------------------------------------------------------
(* A request on its way out.                                                *)

Fate(r) == {claim[<<r, k>>] : k \in 1..call[r].claims}

(* The first exception leaves gather and both middlewares while the other   *)
(* claims run on; the id is no longer bound when handle_unexpected_error    *)
(* answers, and nobody sets the header or writes the access line.           *)
Escape(r) ==
  /\ at[r] = "serving" /\ "crashed" \in Fate(r)
  /\ bound' = Bind(r, None)
  /\ log' = log \cup {[by |-> r, event |-> "unhandled_exception", id |-> None]}
  /\ reply' = [reply EXCEPT ![r] = [code |-> "internal_error", header |-> None, body |-> None]]
  /\ at' = [at EXCEPT ![r] = "answered"]
  /\ UNCHANGED <<lifecycle, call, id, claim>>

(* Mutant: a batch is answered as soon as one of its claims has ended.      *)
Return_First(r) ==
  /\ at[r] = "serving" /\ "crashed" \notin Fate(r) /\ Fate(r) \cap {"done", "failed"} # {}
  /\ \/ /\ call[r].route = "verify" /\ Fate(r) = {"failed"}
        /\ Fail(r, "domain_error", "verification_failed")
     \/ /\ call[r].route = "batch" \/ Fate(r) = {"done"}
        /\ Respond(r, "ok", id[r])
        /\ UNCHANGED log
  /\ UNCHANGED <<lifecycle, call, id, bound, claim>>

(* A batch reports its failures one by one, a single claim as an error.     *)
Return(r) ==
  /\ at[r] = "serving" /\ Fate(r) \subseteq {"done", "failed"}
  /\ \/ /\ call[r].route = "verify" /\ Fate(r) = {"failed"}
        /\ Fail(r, "domain_error", "verification_failed")
     \/ /\ call[r].route = "batch" \/ Fate(r) = {"done"}
        /\ Respond(r, "ok", id[r])
        /\ UNCHANGED log
  /\ UNCHANGED <<lifecycle, call, id, bound, claim>>

(* RequestContextMiddleware after call_next.                                *)
Leave(r) ==
  /\ at[r] = "leaving"
  /\ reply' = [reply EXCEPT ![r].header = id[r]]
  /\ log' = IF call[r].route \in Scraped THEN log ELSE log \cup {Line(r, "http_request")}
  /\ bound' = Bind(r, None)
  /\ at' = [at EXCEPT ![r] = "answered"]
  /\ UNCHANGED <<lifecycle, call, id, claim>>

Own(r) == Limit(r) \/ RouteSimple(r) \/ Begin(r) \/ Decline(r) \/ Escape(r) \/ Return(r)
          \/ Leave(r)

End(r, k) == Complete(r, k) \/ FailClaim(r, k) \/ Crash(r, k)

Next ==
  \/ Startup \/ BeginShutdown \/ Close \/ Exit
  \/ \E r \in Requests : \/ Enter(r) \/ ReadBody(r) \/ Own(r)
                         \/ \E k \in Positions : Call(r, k) \/ Answer(r, k) \/ End(r, k)

(* The loop runs every task that can go on; a claim ends by its deadline,   *)
(* in a call or between calls (VerificationService, BatchDrains).  Nobody   *)
(* makes a client send the body it announced or owes: ReadBody is not fair, *)
(* and neither is anything the provider does.                               *)
Fairness ==
  /\ WF_vars(Close) /\ WF_vars(Exit)
  /\ \A r \in Requests : /\ WF_vars(Own(r))
                         /\ \A k \in Positions : WF_vars(End(r, k))

Spec == Init /\ [][Next]_vars /\ Fairness

-----------------------------------------------------------------------------
(* Correctness.                                                             *)

IdOf(t) == IF t \in Requests THEN id[t] ELSE ItemId(t[1], t[2])

(* OwnIdentity: however requests interleave, no line of the log and no      *)
(* answer carries the id of another request or claim than the one it is     *)
(* about; and what leaves the middlewares by way of an answer, an early     *)
(* refusal too, can be traced: the header and, unless it is a scrape, the   *)
(* body and a line of the log carry the id.                                 *)
OwnIdentity ==
  /\ \A l \in log : l.id \in {None, IdOf(l.by)}
  /\ \A r \in Requests : reply[r] # None =>
       reply[r].header \in {None, id[r]} /\ reply[r].body \in {None, id[r]}
  /\ \A r \in Requests : at[r] = "answered" /\ reply[r].code # "internal_error" =>
       /\ reply[r].header = id[r]
       /\ call[r].route \notin Scraped =>
            /\ reply[r].body = id[r]
            /\ [by |-> r, event |-> "http_request", id |-> id[r]] \in log

(* OnlyOrphansLosePool: closing the pool cuts off no claim that somebody    *)
(* still waits for.  A claim that finds the pool closed belongs to a batch  *)
(* whose gather was left by the exception of another claim, and its client  *)
(* was told internal_error before; a batch that was answered in any other   *)
(* way has no claim left to lose.                                           *)
OnlyOrphansLosePool ==
  \A r \in Requests, k \in Positions :
    pool = "closed" /\ claim[<<r, k>>] \in Live =>
      at[r] = "answered" /\ reply[r].code = "internal_error"

(* ShutdownEnds: a shutdown comes to its end when every client sends the    *)
(* body it owes sooner or later, whatever the provider does.  The drain has *)
(* no limit of its own: a client that stops sending holds it for ever.      *)
ShutdownEnds ==
  (\A r \in Requests : []<>(at[r] # "reading"))
    => (process = "draining" ~> process = "stopped")

(* errors.py says of every failure that its body carries the request id.    *)
EveryFailureTraceable ==
  \A r \in Requests : reply[r] # None /\ reply[r].code # "ok" => reply[r].body # None
=============================================================================
