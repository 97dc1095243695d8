--------------------------- MODULE ProviderContract ---------------------------
(***************************************************************************)
(* What a caller may rely on when it asks a model provider for a rating or *)
(* an extraction: a bounded number of calls is in progress at a time, and  *)
(* each ends once, with an answer or an error, after a bounded number of   *)
(* attempts; an answer takes at least one attempt.                         *)
(***************************************************************************)
EXTENDS Naturals, FiniteSets

CONSTANTS Calls, MaxConcurrency, MaxAttempts, Errors

VARIABLES
  phase,   \* per call: idle, waiting, calling or ended
  spent,   \* per call: the attempts made so far
  reply    \* per call: none, answered, cancelled or an error

vars == <<phase, spent, reply>>

Init ==
  /\ phase = [c \in Calls |-> "idle"]
  /\ spent = [c \in Calls |-> 0]
  /\ reply = [c \in Calls |-> "none"]

Calling == {c \in Calls : phase[c] = "calling"}

Ask(c) ==
  /\ phase[c] = "idle"
  /\ phase' = [phase EXCEPT ![c] = "waiting"]
  /\ UNCHANGED <<spent, reply>>

(* The first attempt, right away or after a wait.                           *)
Admit(c) ==
  /\ phase[c] \in {"idle", "waiting"}
  /\ Cardinality(Calling) < MaxConcurrency
  /\ phase' = [phase EXCEPT ![c] = "calling"]
  /\ spent' = [spent EXCEPT ![c] = 1]
  /\ UNCHANGED reply

Retry(c) ==
  /\ phase[c] = "calling"
  /\ spent[c] < MaxAttempts
  /\ spent' = [spent EXCEPT ![c] = @ + 1]
  /\ UNCHANGED <<phase, reply>>

(* An answer comes to a call in progress; an error to any that was made.    *)
End(c) ==
  /\ phase[c] \in {"waiting", "calling"}
  /\ phase' = [phase EXCEPT ![c] = "ended"]
  /\ \E r \in Errors \cup {"answered", "cancelled"} :
       /\ r = "answered" => phase[c] = "calling"
       /\ reply' = [reply EXCEPT ![c] = r]
  /\ UNCHANGED spent

Next == \E c \in Calls : Ask(c) \/ Admit(c) \/ Retry(c) \/ End(c)

Spec == Init /\ [][Next]_vars

=============================================================================
