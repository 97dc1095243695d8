---------------------------- MODULE ApiEdgeProofs -----------------------------
(***************************************************************************)
(* Theorems about the API edge for any number of requests, ids and claims. *)
(*                                                                         *)
(* That a line or an answer carries the right id rests on what is bound    *)
(* where a request is: RequestSound says it for one request and mentions   *)
(* only what is its own, so that a step of one request cannot disturb that *)
(* of another.  A line is written only after its request came in, which    *)
(* fixes the id it is compared with.                                       *)
(*                                                                         *)
(* Whom the closing of the pool can hurt rests on what an answer says of   *)
(* the claims: ClaimsSound keeps that gather waits for all of them, unless *)
(* an exception took the request out of both middlewares.                  *)
(***************************************************************************)
EXTENDS ApiEdge, TLAPS

Inside == {"entered", "reading", "routing", "serving"}

Replies == [code : Codes, header : RequestIds \cup {None}, body : RequestIds \cup {None}]

WellTyped == TypeOK /\ reply \in [Requests -> Replies \cup {None}]

(* The task that serves a request and those of its claims.                  *)
TasksOf(r) == {r} \cup {<<r, k>> : k \in Positions}

BindingsSound(r) ==
  /\ \A t \in TasksOf(r) : bound[t] = None \/ (at[r] # "away" /\ bound[t] = IdOf(t))
  /\ at[r] \in Inside \cup {"leaving"} => bound[r] = id[r]

(* What the answer says, as soon as there is one, and what the log must say *)
(* once it was sent.                                                        *)
ReplySound(r) ==
  /\ at[r] \in Inside \cup {"away"} => reply[r] = None
  /\ at[r] \in {"leaving", "answered"} =>
       /\ reply[r] \in Replies
       /\ reply[r].header \in {None, id[r]} /\ reply[r].body \in {None, id[r]}
       /\ call[r].route \notin Scraped /\ reply[r].code # "internal_error"
            => reply[r].body = id[r]
  /\ at[r] = "answered" /\ reply[r].code # "internal_error" =>
       /\ reply[r].header = id[r]
       /\ call[r].route \notin Scraped =>
            [by |-> r, event |-> "http_request", id |-> id[r]] \in log

(* Claims begin with the service, and outlive it only after an escape.      *)
ClaimsSound(r) ==
  \A k \in Positions :
    /\ claim[<<r, k>>] # "none" =>
         at[r] \in {"serving", "leaving", "answered"} /\ k <= call[r].claims
    /\ claim[<<r, k>>] \in Live =>
         \/ at[r] = "serving"
         \/ at[r] = "answered" /\ reply[r].code = "internal_error"

RequestSound(r) ==
  /\ at[r] # "away" => call[r] \in Arrivals /\ id[r] \in RequestIds
  /\ ClaimsSound(r)
  /\ BindingsSound(r)
  /\ ReplySound(r)

(* A line is about a request that has come in, and carries its id if any.   *)
LinesSound ==
  \A l \in log :
    /\ l.id \in {None, IdOf(l.by)}
    /\ \A r \in Requests : l.by \in TasksOf(r) => at[r] # "away"

(* The pool is closed only after the last request has been answered.        *)
PoolSound ==
  /\ pool = "closed" => process \in {"closed", "stopped"}
  /\ process \in {"closed", "stopped"} => \A r \in Requests : at[r] \in {"away", "answered"}

EdgeInv ==
  /\ WellTyped
  /\ \A r \in Requests : RequestSound(r)
  /\ LinesSound
  /\ PoolSound

-----------------------------------------------------------------------------
(* Whose a task is.                                                         *)
LEMMA TaskFacts ==
  ASSUME NEW r \in Requests
  PROVE  /\ r \in Tasks /\ IdOf(r) = id[r] /\ IdOf(r)' = id'[r]
         /\ \A k \in Positions : /\ <<r, k>> \in Tasks /\ <<r, k>> \notin Requests
                                 /\ IdOf(<<r, k>>) = ItemId(r, k)
                                 /\ IdOf(<<r, k>>)' = ItemId(r, k)'
         /\ \A q \in Requests \ {r} : TasksOf(q) \cap TasksOf(r) = {}
<1>1. \A q \in Requests, k \in Positions : <<q, k>> \notin Requests
  BY EdgeAssumption DEF Positions
<1>2. \A k \in Positions : <<r, k>>[1] = r /\ <<r, k>>[2] = k
  OBVIOUS
<1>3. \A q \in Requests \ {r} : TasksOf(q) \cap TasksOf(r) = {}
  BY <1>1 DEF TasksOf
<1> QED BY <1>1, <1>2, <1>3 DEF Tasks, IdOf

(* A request that came in has an id, and so has each of its claims.         *)
LEMMA IdTypes ==
  ASSUME EdgeInv, NEW r \in Requests, at[r] # "away"
  PROVE  /\ id[r] \in RequestIds /\ call[r] \in Arrivals
         /\ \A k \in Positions : ItemId(r, k) \in Ids
         /\ \A t \in TasksOf(r) : bound[t] \in {None, IdOf(t)} /\ bound[t] \in Ids \cup {None}
<1>1. id[r] \in RequestIds /\ call[r] \in Arrivals BY DEF EdgeInv, RequestSound
<1>2. ASSUME NEW k \in Positions PROVE ItemId(r, k) \in Ids
  <2>1. <<r, k>> \in Requests \X Positions OBVIOUS
  <2>2. [batch |-> id[r], index |-> k, suffix |-> <<r, k>>] \in ItemIds
    BY <1>1, <2>1 DEF ItemIds
  <2> QED BY <1>1, <2>2 DEF ItemId, Ids
<1>3. \A t \in TasksOf(r) : bound[t] \in {None, IdOf(t)}
  BY DEF EdgeInv, RequestSound, BindingsSound
<1>4. \A t \in TasksOf(r) : t \in Tasks BY TaskFacts DEF TasksOf
<1>5. \A t \in TasksOf(r) : bound[t] \in Ids \cup {None}
  BY <1>4 DEF EdgeInv, WellTyped, TypeOK
<1> QED BY <1>1, <1>2, <1>3, <1>5

(* A line that a task of r writes.                                          *)
LEMMA LineType ==
  ASSUME EdgeInv, NEW r \in Requests, at[r] # "away", NEW t \in TasksOf(r),
         NEW event \in {"domain_error", "request_validation_failed", "http_request",
                        "unhandled_exception", "verification_completed", "verification_failed"}
  PROVE  /\ Line(t, event) \in Lines
         /\ Line(t, event).by = t /\ Line(t, event).id \in {None, IdOf(t)}
<1>1. t \in Tasks BY TaskFacts DEF TasksOf
<1>2. bound[t] \in Ids \cup {None} /\ bound[t] \in {None, IdOf(t)} BY IdTypes
<1> QED BY <1>1, <1>2 DEF Line, Lines

-----------------------------------------------------------------------------
(* What a step of one request leaves alone of another ...                   *)
OthersUntouched(r) ==
  \A q \in Requests \ {r} :
    /\ call'[q] = call[q] /\ id'[q] = id[q] /\ at'[q] = at[q] /\ reply'[q] = reply[q]
    /\ \A t \in TasksOf(q) : bound'[t] = bound[t]
    /\ \A k \in Positions : claim'[<<q, k>>] = claim[<<q, k>>]

(* ... and what it may write.                                               *)
WritesItsOwn(r) ==
  /\ log \subseteq log'
  /\ \A l \in log' \ log : l.by \in TasksOf(r) /\ at'[r] # "away" /\ l.id \in {None, IdOf(l.by)'}
  /\ at[r] # "away" => at'[r] # "away" /\ id'[r] = id[r] /\ call'[r] = call[r]

StepOf(r) ==
  /\ WellTyped' /\ PoolSound'
  /\ OthersUntouched(r) /\ WritesItsOwn(r)
  /\ RequestSound(r)'

(* A request whose own part of the state stays is still what it was.        *)
LEMMA UntouchedStaysSound ==
  ASSUME EdgeInv, NEW q \in Requests, log \subseteq log',
         call'[q] = call[q], id'[q] = id[q], at'[q] = at[q], reply'[q] = reply[q],
         \A t \in TasksOf(q) : bound'[t] = bound[t],
         \A k \in Positions : claim'[<<q, k>>] = claim[<<q, k>>]
  PROVE  /\ RequestSound(q)'
         /\ \A t \in TasksOf(q) : IdOf(t)' = IdOf(t)
<1>1. RequestSound(q) BY DEF EdgeInv
<1>2. \A k \in Positions : ItemId(q, k)' = ItemId(q, k) BY DEF ItemId
<1>3. \A t \in TasksOf(q) : IdOf(t)' = IdOf(t) BY <1>2, TaskFacts DEF TasksOf
<1>4. q \in TasksOf(q) BY DEF TasksOf
<1>5. BindingsSound(q)' BY <1>1, <1>3, <1>4 DEF RequestSound, BindingsSound
<1>6. ReplySound(q)' BY <1>1 DEF RequestSound, ReplySound
<1>7. ClaimsSound(q)' BY <1>1 DEF RequestSound, ClaimsSound
<1> QED BY <1>1, <1>3, <1>5, <1>6, <1>7 DEF RequestSound

LEMMA StepKeepsInv ==
  ASSUME EdgeInv, NEW r \in Requests, StepOf(r)
  PROVE  EdgeInv'
<1>1. ASSUME NEW q \in Requests \ {r}
      PROVE  RequestSound(q)' /\ at'[q] = at[q] /\ \A t \in TasksOf(q) : IdOf(t)' = IdOf(t)
  BY UntouchedStaysSound DEF StepOf, OthersUntouched, WritesItsOwn
<1>2. \A q \in Requests : RequestSound(q)' BY <1>1 DEF StepOf
<1>3. ASSUME NEW l \in log'
      PROVE  /\ l.id \in {None, IdOf(l.by)'}
             /\ \A q \in Requests : l.by \in TasksOf(q) => at'[q] # "away"
  <2>1. CASE l \in log
    <3>1. /\ l.id \in {None, IdOf(l.by)}
          /\ \A q \in Requests : l.by \in TasksOf(q) => at[q] # "away"
      BY <2>1 DEF EdgeInv, LinesSound
    <3>2. l.by \in Tasks BY <2>1 DEF EdgeInv, WellTyped, TypeOK, Lines
    <3>3. PICK q \in Requests : l.by \in TasksOf(q) BY <3>2 DEF Tasks, TasksOf
    <3>4. IdOf(l.by)' = IdOf(l.by)
      <4>1. CASE q # r BY <1>1, <3>3, <4>1
      <4>2. CASE q = r
        <5>1. id'[r] = id[r] /\ call'[r] = call[r]
          BY <3>1, <3>3, <4>2 DEF StepOf, WritesItsOwn
        <5>2. \A k \in Positions : ItemId(r, k)' = ItemId(r, k) BY <5>1 DEF ItemId
        <5> QED BY <3>3, <4>2, <5>1, <5>2, TaskFacts DEF TasksOf
      <4> QED BY <4>1, <4>2
    <3>5. \A p \in Requests : l.by \in TasksOf(p) => at'[p] # "away"
      BY <1>1, <3>1 DEF StepOf, WritesItsOwn
    <3> QED BY <3>1, <3>4, <3>5
  <2>2. CASE l \notin log
    <3>1. l.by \in TasksOf(r) /\ at'[r] # "away" /\ l.id \in {None, IdOf(l.by)'}
      BY <2>2 DEF StepOf, WritesItsOwn
    <3>2. \A q \in Requests : l.by \in TasksOf(q) => q = r BY <3>1, TaskFacts
    <3> QED BY <3>1, <3>2
  <2> QED BY <2>1, <2>2
<1> QED BY <1>2, <1>3 DEF EdgeInv, StepOf, LinesSound

-----------------------------------------------------------------------------
(* The actions, one by one.                                                 *)
LEMMA InvFacts ==
  ASSUME EdgeInv, NEW r \in Requests
  PROVE  /\ WellTyped /\ TypeOK /\ PoolSound
         /\ RequestSound(r) /\ ClaimsSound(r) /\ BindingsSound(r) /\ ReplySound(r)
         /\ r \in TasksOf(r) /\ r \in Tasks
         /\ \A k \in Positions : <<r, k>> \in TasksOf(r) /\ <<r, k>> \in Tasks
         /\ TasksOf(r) \subseteq Tasks
         /\ at[r] \in Inside \cup {"leaving"} => bound[r] = id[r]
BY TaskFacts DEF EdgeInv, RequestSound, BindingsSound, WellTyped, TasksOf

LEMMA EnterStep == ASSUME EdgeInv, NEW r \in Requests, Enter(r) PROVE StepOf(r)
<1>1. PICK a \in Arrivals :
        /\ call' = [call EXCEPT ![r] = a]
        /\ id' = [id EXCEPT ![r] = Identity(r, a.supplied)]
        /\ bound' = Bind(r, Identity(r, a.supplied))
  BY DEF Enter
<1> DEFINE i == Identity(r, a.supplied)
<1>2. i \in RequestIds BY DEF Identity, RequestIds
<1>3. /\ at[r] = "away" /\ at' = [at EXCEPT ![r] = "entered"]
      /\ process = "serving"
      /\ UNCHANGED <<lifecycle, claim, reply, log>>
  BY DEF Enter
<1>4. i \in Ids BY <1>2 DEF Ids
<1>5. /\ bound' = [bound EXCEPT ![r] = i] BY <1>1 DEF Bind
<1> HIDE DEF i
<1>6. WellTyped'
  <2>1. call' \in [Requests -> Arrivals \cup {None}] BY <1>1, InvFacts DEF TypeOK
  <2>2. id' \in [Requests -> RequestIds \cup {None}] BY <1>1, <1>2, InvFacts DEF TypeOK, i
  <2>3. bound' \in [Tasks -> Ids \cup {None}] BY <1>4, <1>5, InvFacts DEF TypeOK
  <2>4. at' \in [Requests -> {"away", "entered", "reading", "routing", "serving", "leaving",
                              "answered"}]
    BY <1>3, InvFacts DEF TypeOK
  <2> QED BY <1>3, <2>1, <2>2, <2>3, <2>4, InvFacts DEF WellTyped, TypeOK, lifecycle
<1>7. PoolSound' BY <1>3, InvFacts DEF PoolSound, lifecycle
<1>8. OthersUntouched(r)
  <2>1. \A q \in Requests \ {r} : r \notin TasksOf(q) /\ TasksOf(q) \subseteq Tasks
    BY InvFacts, TaskFacts
  <2> QED BY <1>1, <1>3, <1>5, <2>1, InvFacts DEF OthersUntouched, TypeOK
<1>9. WritesItsOwn(r) BY <1>3 DEF WritesItsOwn
<1>10. RequestSound(r)'
  <2>1. call'[r] = a /\ id'[r] = i /\ at'[r] = "entered" /\ bound'[r] = i
    BY <1>1, <1>3, <1>5, InvFacts DEF TypeOK, i
  <2>2. \A t \in TasksOf(r) : t # r => bound'[t] = None
    BY <1>3, <1>5, InvFacts DEF TypeOK, BindingsSound
  <2>3. BindingsSound(r)' BY <2>1, <2>2, TaskFacts DEF BindingsSound, Inside
  <2>4. ReplySound(r)' BY <1>3, <2>1, InvFacts DEF ReplySound, Inside
  <2>5. ClaimsSound(r)' BY <1>3, InvFacts DEF ClaimsSound, Live
  <2> QED BY <1>2, <2>1, <2>3, <2>4, <2>5 DEF RequestSound
<1> QED BY <1>6, <1>7, <1>8, <1>9, <1>10 DEF StepOf

Settled(r) == \A k \in Positions : claim[<<r, k>>] \notin Live

(* A step inside of the middlewares that binds nothing and begins no claim; *)
(* the service is left with nothing open.                                   *)
InsideStep(r) ==
  /\ at[r] \in Inside /\ at'[r] \in Inside \cup {"leaving"}
  /\ at[r] = "serving" => at'[r] = "leaving" /\ Settled(r)
  /\ at' = [at EXCEPT ![r] = at'[r]]
  /\ UNCHANGED <<lifecycle, call, id, bound, claim>>
  /\ \/ UNCHANGED reply /\ at'[r] # "leaving"
     \/ /\ reply' = [reply EXCEPT ![r] = reply'[r]]
        /\ at'[r] = "leaving"
        /\ reply'[r] \in Replies
        /\ reply'[r].header = None /\ reply'[r].body \in {None, id[r]}
        /\ call[r].route \notin Scraped => reply'[r].body = id[r]
  /\ \/ log' = log
     \/ \E event \in {"domain_error", "request_validation_failed"} :
          log' = log \cup {Line(r, event)}

LEMMA InsideStepIsStep == ASSUME EdgeInv, NEW r \in Requests, InsideStep(r) PROVE StepOf(r)
<1>1. /\ at[r] \in Inside /\ at'[r] \in Inside \cup {"leaving"} /\ at[r] # "away"
      /\ at' = [at EXCEPT ![r] = at'[r]] /\ UNCHANGED <<lifecycle, call, id, bound, claim>>
  BY DEF InsideStep, Inside
<1>2. log \subseteq log' /\ log' \subseteq Lines
      /\ \A l \in log' \ log : l.by \in TasksOf(r) /\ l.id \in {None, IdOf(l.by)}
  <2>1. CASE log' = log BY <2>1, InvFacts DEF TypeOK
  <2>2. ASSUME NEW event \in {"domain_error", "request_validation_failed"},
               log' = log \cup {Line(r, event)}
        PROVE  log \subseteq log' /\ log' \subseteq Lines
               /\ \A l \in log' \ log : l.by \in TasksOf(r) /\ l.id \in {None, IdOf(l.by)}
    <3>1. /\ Line(r, event) \in Lines
          /\ Line(r, event).by = r /\ Line(r, event).id \in {None, IdOf(r)}
      BY <1>1, LineType, InvFacts
    <3> QED BY <2>2, <3>1, InvFacts DEF TypeOK
  <2> QED BY <2>1, <2>2 DEF InsideStep
<1>3. reply' \in [Requests -> Replies \cup {None}]
      /\ \A q \in Requests \ {r} : reply'[q] = reply[q]
  BY InvFacts DEF InsideStep, WellTyped
<1>4. WellTyped'
  <2>1. at' \in [Requests -> {"away", "entered", "reading", "routing", "serving", "leaving",
                              "answered"}]
    BY <1>1, InvFacts DEF TypeOK, Inside
  <2>2. \A q \in Requests : reply'[q] # None =>
          reply'[q] \in [code : Codes, header : RequestIds \cup {None},
                         body : RequestIds \cup {None}]
    BY <1>3 DEF Replies
  <2> QED BY <1>1, <1>2, <1>3, <2>1, <2>2, InvFacts DEF WellTyped, TypeOK, lifecycle
<1>5. PoolSound' BY <1>1, InvFacts DEF PoolSound, lifecycle, TypeOK, Inside
<1>6. OthersUntouched(r) BY <1>1, <1>3, InvFacts DEF OthersUntouched, TypeOK
<1>7. \A k \in Positions : ItemId(r, k)' = ItemId(r, k) BY <1>1 DEF ItemId
<1>8. \A t \in TasksOf(r) : IdOf(t)' = IdOf(t) BY <1>1, <1>7, TaskFacts DEF TasksOf
<1>9. at'[r] # "away" BY <1>1 DEF Inside
<1>10. WritesItsOwn(r) BY <1>1, <1>2, <1>8, <1>9 DEF WritesItsOwn
<1>11. RequestSound(r)'
  <2>1. BindingsSound(r)' BY <1>1, <1>8, <1>9, InvFacts DEF BindingsSound
  <2>2. ReplySound(r)'
    BY <1>1, InvFacts DEF ReplySound, InsideStep, Inside, WellTyped
  <2>3. ClaimsSound(r)'
    <3>1. CASE at[r] = "serving"
      BY <1>1, <3>1, InvFacts DEF ClaimsSound, InsideStep, Settled
    <3>2. CASE at[r] # "serving"
      BY <1>1, <3>2, InvFacts DEF ClaimsSound, Inside, Live
    <3> QED BY <3>1, <3>2
  <2> QED BY <1>1, <1>9, <2>1, <2>2, <2>3, InvFacts DEF RequestSound
<1> QED BY <1>4, <1>5, <1>6, <1>10, <1>11 DEF StepOf

LEMMA RefusalIsInside ==
  ASSUME EdgeInv, NEW r \in Requests, at[r] \in Inside, at[r] = "serving" => Settled(r),
         UNCHANGED <<lifecycle, call, id, bound, claim>>,
         NEW code \in Codes, Respond(r, code, bound[r]),
         \/ UNCHANGED log
         \/ \E event \in {"domain_error", "request_validation_failed"} :
              log' = log \cup {Line(r, event)}
  PROVE  InsideStep(r)
<1>1. bound[r] = id[r] /\ id[r] \in RequestIds
  BY InvFacts, IdTypes DEF Inside
<1>2. /\ at' = [at EXCEPT ![r] = "leaving"] /\ at'[r] = "leaving"
      /\ reply' = [reply EXCEPT ![r] = [code |-> code, header |-> None, body |-> id[r]]]
      /\ reply'[r] = [code |-> code, header |-> None, body |-> id[r]]
  BY <1>1, InvFacts DEF Respond, TypeOK, WellTyped
<1> DEFINE answer == [code |-> code, header |-> None, body |-> id[r]]
<1>3. answer \in Replies BY <1>1 DEF Replies
<1>4. answer.header = None /\ answer.body = id[r] OBVIOUS
<1>5. reply'[r] = answer /\ reply' = [reply EXCEPT ![r] = answer] BY <1>2
<1> HIDE DEF answer
<1>6. reply' = [reply EXCEPT ![r] = reply'[r]] BY <1>5
<1> QED BY <1>2, <1>3, <1>4, <1>5, <1>6 DEF InsideStep

LEMMA LimitStep == ASSUME EdgeInv, NEW r \in Requests, Limit(r) PROVE StepOf(r)
<1>1. /\ at[r] \in Inside /\ at[r] # "serving"
      /\ UNCHANGED <<lifecycle, call, id, bound, claim>>
  BY DEF Limit, Inside
<1>2. CASE Refuse(r, "request_too_large") \/ Refuse(r, "invalid_header")
  BY <1>1, <1>2, RefusalIsInside, InsideStepIsStep DEF Refuse, Codes
<1>3. CASE Pass(r, IF MustRead(call[r]) THEN "reading" ELSE "routing")
  <2>1. PICK where \in {"reading", "routing"} : Pass(r, where) BY <1>3
  <2>2. at' = [at EXCEPT ![r] = where] /\ at'[r] = where /\ UNCHANGED <<reply, log>>
    BY <2>1, InvFacts DEF Pass, TypeOK
  <2> QED BY <1>1, <2>2, InsideStepIsStep DEF InsideStep, Inside
<1> QED BY <1>2, <1>3 DEF Limit

LEMMA ReadBodyStep == ASSUME EdgeInv, NEW r \in Requests, ReadBody(r) PROVE StepOf(r)
<1>1. /\ at[r] \in Inside /\ at[r] # "serving"
      /\ UNCHANGED <<lifecycle, call, id, bound, claim>>
  BY DEF ReadBody, Inside
<1>2. CASE Refuse(r, "request_too_large")
  BY <1>1, <1>2, RefusalIsInside, InsideStepIsStep DEF Refuse, Codes
<1>3. CASE Pass(r, "routing")
  <2>1. at' = [at EXCEPT ![r] = "routing"] /\ at'[r] = "routing" /\ UNCHANGED <<reply, log>>
    BY <1>3, InvFacts DEF Pass, TypeOK
  <2> QED BY <1>1, <2>1, InsideStepIsStep DEF InsideStep, Inside
<1> QED BY <1>2, <1>3 DEF ReadBody

LEMMA RouteSimpleStep == ASSUME EdgeInv, NEW r \in Requests, RouteSimple(r) PROVE StepOf(r)
<1>1. /\ at[r] \in Inside /\ at[r] # "serving"
      /\ UNCHANGED <<lifecycle, call, id, bound, claim>>
  BY DEF RouteSimple, Inside
<1>2. CASE Refuse(r, "http_404")
  BY <1>1, <1>2, RefusalIsInside, InsideStepIsStep DEF Refuse, Codes
<1>3. CASE call[r].route \in Scraped /\ Respond(r, "ok", None) /\ UNCHANGED log
  <2> DEFINE answer == [code |-> "ok", header |-> None, body |-> None]
  <2>1. /\ at' = [at EXCEPT ![r] = "leaving"] /\ at'[r] = "leaving"
        /\ reply' = [reply EXCEPT ![r] = answer] /\ reply'[r] = answer
    BY <1>3, InvFacts DEF Respond, TypeOK, WellTyped
  <2>2. answer \in Replies /\ answer.header = None /\ answer.body = None
    BY DEF Replies, Codes
  <2> HIDE DEF answer
  <2>3. reply' = [reply EXCEPT ![r] = reply'[r]] BY <2>1
  <2> QED BY <1>1, <1>3, <2>1, <2>2, <2>3, InsideStepIsStep DEF InsideStep
<1> QED BY <1>2, <1>3 DEF RouteSimple, Scraped

LEMMA DeclineStep == ASSUME EdgeInv, NEW r \in Requests, Decline(r) PROVE StepOf(r)
<1>1. /\ at[r] \in Inside /\ at[r] # "serving"
      /\ UNCHANGED <<lifecycle, call, id, bound, claim>>
  BY DEF Decline, Inside
<1>2. \/ Fail(r, "request_validation_failed", "invalid_request")
      \/ Fail(r, "domain_error", "batch_too_large")
  BY DEF Decline
<1> QED BY <1>1, <1>2, RefusalIsInside, InsideStepIsStep DEF Fail, Codes

LEMMA ReturnStep == ASSUME EdgeInv, NEW r \in Requests, Return(r) PROVE StepOf(r)
<1>1. at[r] \in Inside /\ UNCHANGED <<lifecycle, call, id, bound, claim>>
  BY DEF Return, Inside
<1>2. bound[r] = id[r] BY <1>1, InvFacts
<1>3. \/ Fail(r, "domain_error", "verification_failed")
      \/ Respond(r, "ok", bound[r]) /\ UNCHANGED log
  BY <1>2 DEF Return
<1>4. Settled(r)
  <2>1. Fate(r) \subseteq {"done", "failed"} BY DEF Return
  <2>2. call[r] \in Arrivals BY <1>1, IdTypes DEF Inside
  <2>3. ASSUME NEW k \in Positions, claim[<<r, k>>] \in Live PROVE FALSE
    <3>1. k <= call[r].claims BY <2>3, InvFacts DEF ClaimsSound, Live
    <3>2. k \in 1..call[r].claims
      BY <2>2, <3>1, EdgeAssumption DEF Shapes, Positions
    <3> QED BY <2>1, <2>3, <3>2 DEF Fate, Live
  <2> QED BY <2>3 DEF Settled
<1> QED BY <1>1, <1>3, <1>4, RefusalIsInside, InsideStepIsStep DEF Fail, Codes

(* The claims of a request begin, each under an id of its own.              *)
LEMMA BeginStep == ASSUME EdgeInv, NEW r \in Requests, Begin(r) PROVE StepOf(r)
<1> DEFINE Begun == {<<r, k>> : k \in 1..call[r].claims}
<1>1. /\ at[r] = "routing" /\ at' = [at EXCEPT ![r] = "serving"] /\ at'[r] = "serving"
      /\ claim' = [t \in DOMAIN claim |->
                     IF t[1] = r /\ t[2] <= call[r].claims THEN "running" ELSE claim[t]]
      /\ bound' = [t \in Tasks |-> IF t \in Begun THEN ItemId(r, t[2]) ELSE bound[t]]
      /\ UNCHANGED <<lifecycle, call, id, reply, log>>
  BY InvFacts DEF Begin, TypeOK
<1>2. call[r] \in Arrivals /\ id[r] \in RequestIds
      /\ \A k \in Positions : ItemId(r, k) \in Ids
  BY <1>1, IdTypes
<1>3. 1..call[r].claims \subseteq Positions
  BY <1>2, EdgeAssumption DEF Shapes, Positions
<1>4. Begun \subseteq TasksOf(r) \ {r}
  BY <1>3, TaskFacts DEF TasksOf
<1>5. \A t \in Begun : t[2] \in Positions /\ IdOf(t) = ItemId(r, t[2])
  BY <1>3, TaskFacts
<1> HIDE DEF Begun
<1>6. WellTyped'
  <2>1. claim' \in [Requests \X Positions -> {"none", "running", "calling", "done", "failed",
                                              "crashed", "cancelled"}]
    BY <1>1, InvFacts DEF TypeOK
  <2>2. bound' \in [Tasks -> Ids \cup {None}]
    BY <1>1, <1>2, <1>5, InvFacts DEF TypeOK
  <2>3. at' \in [Requests -> {"away", "entered", "reading", "routing", "serving", "leaving",
                              "answered"}]
    BY <1>1, InvFacts DEF TypeOK
  <2> QED BY <1>1, <2>1, <2>2, <2>3, InvFacts DEF WellTyped, TypeOK, lifecycle
<1>7. PoolSound' BY <1>1, InvFacts DEF PoolSound, lifecycle, TypeOK
<1>8. OthersUntouched(r)
  <2>1. \A q \in Requests \ {r} : \A t \in TasksOf(q) : t \in Tasks /\ t \notin Begun
    BY <1>4, TaskFacts, InvFacts
  <2>2. \A q \in Requests \ {r}, k \in Positions : claim'[<<q, k>>] = claim[<<q, k>>]
    BY <1>1, InvFacts DEF TypeOK
  <2> QED BY <1>1, <2>1, <2>2, InvFacts DEF OthersUntouched, TypeOK
<1>9. WritesItsOwn(r) BY <1>1 DEF WritesItsOwn
<1>10. RequestSound(r)'
  <2>1. \A k \in Positions : ItemId(r, k)' = ItemId(r, k) BY <1>1 DEF ItemId
  <2>2. \A t \in TasksOf(r) : IdOf(t)' = IdOf(t) BY <1>1, <2>1, TaskFacts DEF TasksOf
  <2>3. \A t \in TasksOf(r) : bound'[t] = None \/ bound'[t] = IdOf(t)
    BY <1>1, <1>5, InvFacts DEF BindingsSound
  <2>4. bound'[r] = id'[r] BY <1>1, <1>4, InvFacts DEF Inside
  <2>5. BindingsSound(r)' BY <1>1, <2>2, <2>3, <2>4 DEF BindingsSound
  <2>6. ReplySound(r)' BY <1>1, InvFacts DEF ReplySound, Inside
  <2>7. ClaimsSound(r)'
    <3>1. \A k \in Positions :
            claim'[<<r, k>>] = IF k <= call[r].claims THEN "running" ELSE claim[<<r, k>>]
      BY <1>1, InvFacts DEF TypeOK
    <3>2. \A k \in Positions : claim[<<r, k>>] = "none" BY <1>1, InvFacts DEF ClaimsSound
    <3> QED BY <1>1, <3>1, <3>2 DEF ClaimsSound, Live
  <2> QED BY <1>1, <1>2, <2>5, <2>6, <2>7 DEF RequestSound
<1> QED BY <1>6, <1>7, <1>8, <1>9, <1>10 DEF StepOf

(* A claim goes on: its place changes, and at most a line of its own is     *)
(* added.                                                                   *)
LEMMA ClaimGoesOn ==
  ASSUME EdgeInv, NEW r \in Requests, NEW k \in Positions, claim[<<r, k>>] \in Live,
         NEW how \in Live \cup {"done", "failed", "crashed"},
         claim' = [claim EXCEPT ![<<r, k>>] = how],
         UNCHANGED <<lifecycle, call, at, id, bound, reply>>,
         \/ log' = log
         \/ \E l \in Lines : /\ log' = log \cup {l}
                             /\ l.by = <<r, k>> /\ l.id \in {None, IdOf(<<r, k>>)}
  PROVE  StepOf(r)
<1>1. at[r] # "away" BY InvFacts DEF ClaimsSound, Live
<1>2. <<r, k>> \in TasksOf(r) /\ <<r, k>> \in Requests \X Positions BY InvFacts
<1>3. \A j \in Positions : ItemId(r, j)' = ItemId(r, j) BY DEF ItemId
<1>4. \A t \in TasksOf(r) : IdOf(t)' = IdOf(t) BY <1>3, TaskFacts DEF TasksOf
<1>5. WellTyped'
  <2>1. claim' \in [Requests \X Positions -> {"none", "running", "calling", "done", "failed",
                                              "crashed", "cancelled"}]
    BY <1>2, InvFacts DEF TypeOK, Live
  <2>2. log' \subseteq Lines BY InvFacts DEF TypeOK
  <2> QED BY <2>1, <2>2, InvFacts DEF WellTyped, TypeOK, lifecycle
<1>6. PoolSound' BY InvFacts DEF PoolSound, lifecycle
<1>7. OthersUntouched(r)
  <2>1. \A q \in Requests \ {r}, j \in Positions : claim'[<<q, j>>] = claim[<<q, j>>]
    BY <1>2, InvFacts DEF TypeOK
  <2> QED BY <2>1 DEF OthersUntouched
<1>8. WritesItsOwn(r) BY <1>1, <1>2, <1>4 DEF WritesItsOwn
<1>9. RequestSound(r)'
  <2>1. BindingsSound(r)' BY <1>4, InvFacts DEF BindingsSound
  <2>2. ReplySound(r)' BY InvFacts DEF ReplySound
  <2>3. \A j \in Positions : claim'[<<r, j>>] = IF j = k THEN how ELSE claim[<<r, j>>]
    BY <1>2, InvFacts DEF TypeOK
  <2>4. ClaimsSound(r)' BY <2>3, InvFacts DEF ClaimsSound, Live
  <2> QED BY <1>1, <2>1, <2>2, <2>4, InvFacts DEF RequestSound
<1> QED BY <1>5, <1>6, <1>7, <1>8, <1>9 DEF StepOf

LEMMA CallStep ==
  ASSUME EdgeInv, NEW r \in Requests, NEW k \in Positions, Call(r, k) \/ Answer(r, k)
  PROVE  StepOf(r)
<1>1. CASE Call(r, k) BY <1>1, ClaimGoesOn DEF Call, Live
<1>2. CASE Answer(r, k) BY <1>2, ClaimGoesOn DEF Answer, Live
<1> QED BY <1>1, <1>2

LEMMA EndStep ==
  ASSUME EdgeInv, NEW r \in Requests, NEW k \in Positions, End(r, k)
  PROVE  StepOf(r)
<1>1. claim[<<r, k>>] \in Live /\ UNCHANGED <<lifecycle, call, at, id, bound, reply>>
  BY DEF End, Complete, FailClaim, Crash, Live
<1>2. at[r] # "away" BY <1>1, InvFacts DEF ClaimsSound, Live
<1>3. <<r, k>> \in TasksOf(r) /\ <<r, k>> \in Tasks BY InvFacts
<1>4. CASE Complete(r, k)
  <2>1. /\ Line(<<r, k>>, "verification_completed") \in Lines
        /\ Line(<<r, k>>, "verification_completed").by = <<r, k>>
        /\ Line(<<r, k>>, "verification_completed").id \in {None, IdOf(<<r, k>>)}
    BY <1>2, <1>3, LineType
  <2> QED BY <1>1, <1>4, <2>1, ClaimGoesOn DEF Complete
<1>5. CASE FailClaim(r, k)
  <2> DEFINE l == [by |-> <<r, k>>, event |-> "verification_failed", id |-> ItemId(r, k)]
  <2>1. l \in Lines /\ l.by = <<r, k>> /\ l.id = IdOf(<<r, k>>)
    BY <1>2, <1>3, IdTypes, TaskFacts DEF Lines
  <2>2. log' = log \cup {l} BY <1>5 DEF FailClaim, Line, FailureId
  <2>3. claim' = [claim EXCEPT ![<<r, k>>] = "failed"] BY <1>5 DEF FailClaim
  <2> HIDE DEF l
  <2> QED BY <1>1, <2>1, <2>2, <2>3, ClaimGoesOn
<1>6. CASE Crash(r, k) BY <1>1, <1>6, ClaimGoesOn DEF Crash
<1> QED BY <1>4, <1>5, <1>6 DEF End

(* A request leaves the middlewares, in either way.                         *)
Left(r) ==
  /\ at[r] \notin {"away", "answered"} /\ at' = [at EXCEPT ![r] = "answered"]
  /\ bound' = Bind(r, None)
  /\ reply' = [reply EXCEPT ![r] = reply'[r]] /\ reply'[r] \in Replies
  /\ UNCHANGED <<lifecycle, call, id, claim>>
  /\ \/ log' = log
     \/ \E l \in Lines : log' = log \cup {l} /\ l.by = r /\ l.id \in {None, id[r]}

LEMMA LeftIsStep ==
  ASSUME EdgeInv, NEW r \in Requests, Left(r), ReplySound(r)', ClaimsSound(r)'
  PROVE  StepOf(r)
<1>1. /\ at[r] \notin {"away", "answered"} /\ at' = [at EXCEPT ![r] = "answered"]
      /\ bound' = [bound EXCEPT ![r] = None]
      /\ reply' = [reply EXCEPT ![r] = reply'[r]] /\ reply'[r] \in Replies
      /\ UNCHANGED <<lifecycle, call, id, claim>>
  BY DEF Left, Bind
<1>2. r \in TasksOf(r) /\ IdOf(r) = id[r] /\ at'[r] = "answered" /\ bound'[r] = None
  BY <1>1, InvFacts, TaskFacts DEF TypeOK
<1>3. \A j \in Positions : ItemId(r, j)' = ItemId(r, j) BY <1>1 DEF ItemId
<1>4. \A t \in TasksOf(r) : IdOf(t)' = IdOf(t) BY <1>1, <1>3, TaskFacts DEF TasksOf
<1>5. WellTyped'
  <2>1. log' \subseteq Lines BY InvFacts DEF Left, TypeOK
  <2>2. reply' \in [Requests -> Replies \cup {None}] BY <1>1, InvFacts DEF WellTyped
  <2>3. \A q \in Requests : reply'[q] # None =>
          reply'[q] \in [code : Codes, header : RequestIds \cup {None},
                         body : RequestIds \cup {None}]
    BY <2>2 DEF Replies
  <2>4. at' \in [Requests -> {"away", "entered", "reading", "routing", "serving", "leaving",
                              "answered"}]
    BY <1>1, InvFacts DEF TypeOK
  <2>5. bound' \in [Tasks -> Ids \cup {None}] BY <1>1, InvFacts DEF TypeOK
  <2> QED BY <1>1, <2>1, <2>2, <2>3, <2>4, <2>5, InvFacts DEF WellTyped, TypeOK, lifecycle
<1>6. PoolSound' BY <1>1, InvFacts DEF PoolSound, lifecycle, TypeOK
<1>7. OthersUntouched(r)
  <2>1. \A q \in Requests \ {r} : r \notin TasksOf(q) /\ TasksOf(q) \subseteq Tasks
    BY <1>2, InvFacts, TaskFacts
  <2> QED BY <1>1, <2>1, InvFacts DEF OthersUntouched, TypeOK, WellTyped
<1>8. WritesItsOwn(r) BY <1>1, <1>2, <1>4 DEF WritesItsOwn, Left
<1>9. BindingsSound(r)'
  <2>1. \A t \in TasksOf(r) : bound'[t] \in {None, bound[t]}
    BY <1>1, InvFacts DEF TypeOK
  <2> QED BY <1>1, <1>2, <1>4, <2>1, InvFacts DEF BindingsSound, Inside
<1>10. RequestSound(r)' BY <1>1, <1>2, <1>9, InvFacts DEF RequestSound
<1> QED BY <1>5, <1>6, <1>7, <1>8, <1>10 DEF StepOf

LEMMA EscapeStep == ASSUME EdgeInv, NEW r \in Requests, Escape(r) PROVE StepOf(r)
<1> DEFINE answer == [code |-> "internal_error", header |-> None, body |-> None]
           line == [by |-> r, event |-> "unhandled_exception", id |-> None]
<1>1. answer \in Replies /\ answer.header = None /\ answer.body = None
      /\ answer.code = "internal_error"
  BY DEF Replies, Codes
<1>2. line \in Lines /\ line.by = r /\ line.id = None BY InvFacts DEF Lines
<1>3. /\ at[r] = "serving" /\ at' = [at EXCEPT ![r] = "answered"]
      /\ bound' = Bind(r, None) /\ log' = log \cup {line}
      /\ reply' = [reply EXCEPT ![r] = answer]
      /\ UNCHANGED <<lifecycle, call, id, claim>>
  BY DEF Escape
<1> HIDE DEF answer, line
<1>4. reply'[r] = answer /\ at'[r] = "answered" BY <1>3, InvFacts DEF WellTyped, TypeOK
<1>5. Left(r) BY <1>1, <1>2, <1>3, <1>4 DEF Left
<1>6. ReplySound(r)' BY <1>1, <1>4 DEF ReplySound, Inside
<1>7. ClaimsSound(r)' BY <1>1, <1>3, <1>4, InvFacts DEF ClaimsSound
<1> QED BY <1>5, <1>6, <1>7, LeftIsStep

LEMMA LeaveStep == ASSUME EdgeInv, NEW r \in Requests, Leave(r) PROVE StepOf(r)
<1> DEFINE answer == [reply[r] EXCEPT !.header = id[r]]
           line == [by |-> r, event |-> "http_request", id |-> id[r]]
<1>1. /\ at[r] = "leaving" /\ at' = [at EXCEPT ![r] = "answered"]
      /\ bound' = Bind(r, None) /\ reply' = [reply EXCEPT ![r] = answer]
      /\ UNCHANGED <<lifecycle, call, id, claim>>
      /\ log' = IF call[r].route \in Scraped THEN log ELSE log \cup {Line(r, "http_request")}
  BY DEF Leave
<1>2. bound[r] = id[r] /\ id[r] \in RequestIds BY <1>1, InvFacts, IdTypes
<1>3. Line(r, "http_request") = line BY <1>2 DEF Line
<1>4. line \in Lines /\ line.by = r /\ line.id = id[r]
  BY <1>2, InvFacts DEF Lines, Ids
<1>5. /\ reply[r] \in Replies
      /\ reply[r].body \in {None, id[r]}
      /\ call[r].route \notin Scraped /\ reply[r].code # "internal_error" => reply[r].body = id[r]
  BY <1>1, InvFacts DEF ReplySound
<1>6. answer \in Replies /\ answer.header = id[r]
      /\ answer.body = reply[r].body /\ answer.code = reply[r].code
  BY <1>2, <1>5 DEF Replies
<1> HIDE DEF answer
<1>7. reply'[r] = answer /\ at'[r] = "answered" BY <1>1, InvFacts DEF WellTyped, TypeOK
<1>8. Left(r)
  <2>1. \/ log' = log
        \/ \E l \in Lines : log' = log \cup {l} /\ l.by = r /\ l.id \in {None, id[r]}
    BY <1>1, <1>3, <1>4
  <2> QED BY <1>1, <1>6, <1>7, <2>1 DEF Left
<1>9. call[r].route \notin Scraped => line \in log' BY <1>1, <1>3
<1>10. ReplySound(r)' BY <1>1, <1>5, <1>6, <1>7, <1>9 DEF ReplySound, Inside
<1>11. ClaimsSound(r)' BY <1>1, <1>7, InvFacts DEF ClaimsSound
<1> QED BY <1>8, <1>10, <1>11, LeftIsStep

-----------------------------------------------------------------------------
(* The process.                                                             *)
LEMMA ProcessStepKeepsInv ==
  ASSUME EdgeInv, Startup \/ BeginShutdown \/ Close \/ Exit
  PROVE  EdgeInv'
<1>1. UNCHANGED <<call, at, id, bound, reply, log>>
  BY DEF Startup, BeginShutdown, Close, Exit
<1>2. TypeOK BY DEF EdgeInv, WellTyped
<1>3. /\ claim' \in [Requests \X Positions -> {"none", "running", "calling", "done", "failed",
                                              "crashed", "cancelled"}]
      /\ \A t \in Requests \X Positions :
           /\ claim[t] = "none" => claim'[t] = "none"
           /\ claim'[t] \in Live => claim[t] \in Live
  BY <1>2 DEF TypeOK, Startup, BeginShutdown, Close, Exit, Live
<1>4. /\ process' \in {"down", "serving", "draining", "closed", "stopped", "failed"}
      /\ pool' \in {"none", "open", "closed"}
      /\ PoolSound'
  BY <1>2 DEF EdgeInv, PoolSound, TypeOK, Startup, BeginShutdown, Close, Exit
<1>5. WellTyped' BY <1>1, <1>2, <1>3, <1>4 DEF EdgeInv, WellTyped, TypeOK
<1>6. \A t \in Tasks : IdOf(t)' = IdOf(t) BY <1>1 DEF IdOf, ItemId
<1>7. ASSUME NEW r \in Requests PROVE RequestSound(r)'
  <2>1. RequestSound(r) /\ TasksOf(r) \subseteq Tasks BY InvFacts
  <2>2. BindingsSound(r)' BY <1>1, <1>6, <2>1 DEF RequestSound, BindingsSound
  <2>3. ReplySound(r)' BY <1>1, <2>1 DEF RequestSound, ReplySound
  <2>4. \A k \in Positions :
          /\ claim[<<r, k>>] = "none" => claim'[<<r, k>>] = "none"
          /\ claim'[<<r, k>>] \in Live => claim[<<r, k>>] \in Live
    BY <1>3
  <2>5. ClaimsSound(r)' BY <1>1, <2>1, <2>4 DEF RequestSound, ClaimsSound, Live
  <2> QED BY <1>1, <2>1, <2>2, <2>3, <2>5 DEF RequestSound
<1>8. LinesSound'
  <2>1. \A l \in log : l.by \in Tasks BY <1>2 DEF TypeOK, Lines
  <2> QED BY <1>1, <1>6, <2>1 DEF EdgeInv, LinesSound
<1> QED BY <1>4, <1>5, <1>7, <1>8 DEF EdgeInv

LEMMA InitEstablishesInv == Init => EdgeInv
<1> SUFFICES ASSUME Init PROVE EdgeInv OBVIOUS
<1>1. WellTyped BY DEF Init, WellTyped, TypeOK
<1>2. ASSUME NEW r \in Requests PROVE RequestSound(r)
  <2>1. at[r] = "away" /\ reply[r] = None BY DEF Init
  <2>2. \A t \in TasksOf(r) : bound[t] = None BY TaskFacts DEF Init, TasksOf
  <2>3. \A k \in Positions : claim[<<r, k>>] = "none" BY DEF Init
  <2> QED BY <2>1, <2>2, <2>3 DEF RequestSound, BindingsSound, ReplySound, ClaimsSound, Live,
                                  Inside
<1>3. LinesSound /\ PoolSound BY DEF Init, LinesSound, PoolSound
<1> QED BY <1>1, <1>2, <1>3 DEF EdgeInv

LEMMA NextKeepsInv == EdgeInv /\ [Next]_vars => EdgeInv'
<1> SUFFICES ASSUME EdgeInv, [Next]_vars PROVE EdgeInv' OBVIOUS
<1>1. CASE Startup \/ BeginShutdown \/ Close \/ Exit BY <1>1, ProcessStepKeepsInv
<1>2. ASSUME NEW r \in Requests, Enter(r) \/ ReadBody(r) \/ Own(r) PROVE EdgeInv'
  BY <1>2, StepKeepsInv, EnterStep, ReadBodyStep, LimitStep, RouteSimpleStep, BeginStep,
     DeclineStep, EscapeStep, ReturnStep, LeaveStep
  DEF Own
<1>3. ASSUME NEW r \in Requests, NEW k \in Positions, Call(r, k) \/ Answer(r, k) \/ End(r, k)
      PROVE  EdgeInv'
  BY <1>3, CallStep, EndStep, StepKeepsInv
<1>4. CASE UNCHANGED vars
  <2>1. UNCHANGED <<process, pool, call, at, id, bound, claim, reply, log>>
    BY <1>4 DEF vars, lifecycle
  <2>2. \A t : IdOf(t)' = IdOf(t) BY <2>1 DEF IdOf, ItemId
  <2>3. WellTyped' /\ LinesSound' /\ PoolSound'
    BY <2>1, <2>2 DEF EdgeInv, WellTyped, TypeOK, LinesSound, PoolSound
  <2>4. \A r \in Requests : RequestSound(r)'
    BY <2>1, <2>2 DEF EdgeInv, RequestSound, ClaimsSound, BindingsSound, ReplySound
  <2> QED BY <2>3, <2>4 DEF EdgeInv
<1> QED BY <1>1, <1>2, <1>3, <1>4 DEF Next

-----------------------------------------------------------------------------
(* The inductive invariant holds of the edge with any number of requests.   *)
THEOREM EdgeInvariant == Spec => []EdgeInv
<1> QED BY InitEstablishesInv, NextKeepsInv, PTL DEF Spec

(* Type correctness: requests, bindings, answers and lines of the log are   *)
(* well formed (middleware.py, errors.py).                                  *)
THEOREM EdgeTypeCorrect == Spec => []TypeOK
<1>1. EdgeInv => TypeOK BY DEF EdgeInv, WellTyped
<1> QED BY <1>1, EdgeInvariant, PTL

(* However many requests interleave, and whichever ids their clients chose, *)
(* no line and no answer carries the id of another request or claim, and    *)
(* every answer of the middlewares can be traced (middleware.py:37-85).     *)
THEOREM EveryLineIsItsOwn == Spec => []OwnIdentity
<1>1. ASSUME EdgeInv PROVE OwnIdentity
  <2>1. \A l \in log : l.id \in {None, IdOf(l.by)} BY <1>1 DEF EdgeInv, LinesSound
  <2>2. ASSUME NEW r \in Requests
        PROVE  /\ reply[r] # None => /\ reply[r].header \in {None, id[r]}
                                     /\ reply[r].body \in {None, id[r]}
               /\ at[r] = "answered" /\ reply[r].code # "internal_error" =>
                    /\ reply[r].header = id[r]
                    /\ call[r].route \notin Scraped =>
                         /\ reply[r].body = id[r]
                         /\ [by |-> r, event |-> "http_request", id |-> id[r]] \in log
    <3>1. ReplySound(r) /\ TypeOK BY <1>1, InvFacts
    <3>2. at[r] \in Inside \cup {"away", "leaving", "answered"}
      BY <3>1 DEF TypeOK, Inside
    <3> QED BY <3>1, <3>2 DEF ReplySound
  <2> QED BY <2>1, <2>2 DEF OwnIdentity
<1> QED BY <1>1, EdgeInvariant, PTL

(* However many requests and claims are open when the shutdown begins, a    *)
(* claim that finds the pool closed belongs to a batch that was answered    *)
(* with internal_error: no caller waits for it (main.py, bootstrap.aclose,  *)
(* verify_batch).                                                           *)
THEOREM OnlyOrphansLoseThePool == Spec => []OnlyOrphansLosePool
<1>1. ASSUME EdgeInv PROVE OnlyOrphansLosePool
  <2> SUFFICES ASSUME NEW r \in Requests, NEW k \in Positions,
                      pool = "closed", claim[<<r, k>>] \in Live
               PROVE  at[r] = "answered" /\ reply[r].code = "internal_error"
    BY DEF OnlyOrphansLosePool
  <2>1. at[r] \in {"away", "answered"} BY <1>1 DEF EdgeInv, PoolSound
  <2>2. ClaimsSound(r) BY <1>1, InvFacts
  <2> QED BY <2>1, <2>2 DEF ClaimsSound
<1> QED BY <1>1, EdgeInvariant, PTL

===============================================================================
