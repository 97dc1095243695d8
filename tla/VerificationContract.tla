------------------------ MODULE VerificationContract ------------------------
(***************************************************************************)
(* What verify_batch promises its caller, with no word about how: a batch  *)
(* is refused as a whole or accepted as a whole; every claim of an         *)
(* accepted batch is settled once and for all, as a result, as a failure   *)
(* of that claim alone, or lost to an unexpected exception; the batch is   *)
(* answered only when every claim of it has a result or a failure, and is  *)
(* aborted only because a claim of its own was lost.                       *)
(***************************************************************************)
CONSTANTS Items, Batches, BatchOf

VARIABLES phase,  \* per batch: new, open, refused, answered or aborted
          reply   \* per claim: none, result, failure or lost

cvars == <<phase, reply>>

MembersOf(b) == {i \in Items : BatchOf[i] = b}

CInit ==
  /\ phase = [b \in Batches |-> "new"]
  /\ reply = [i \in Items |-> "none"]

Accept(b) ==
  /\ phase[b] = "new"
  /\ phase' = [phase EXCEPT ![b] = "open"]
  /\ UNCHANGED reply

Refuse(b) ==
  /\ phase[b] = "new"
  /\ phase' = [phase EXCEPT ![b] = "refused"]
  /\ UNCHANGED reply

(* A claim of an aborted batch still runs to its end: nothing cancels it.   *)
Settle(i) ==
  /\ phase[BatchOf[i]] \in {"open", "aborted"}
  /\ reply[i] = "none"
  /\ \E r \in {"result", "failure", "lost"} : reply' = [reply EXCEPT ![i] = r]
  /\ UNCHANGED phase

Answer(b) ==
  /\ phase[b] = "open"
  /\ \A i \in MembersOf(b) : reply[i] \in {"result", "failure"}
  /\ phase' = [phase EXCEPT ![b] = "answered"]
  /\ UNCHANGED reply

Abort(b) ==
  /\ phase[b] = "open"
  /\ \E i \in MembersOf(b) : reply[i] = "lost"
  /\ phase' = [phase EXCEPT ![b] = "aborted"]
  /\ UNCHANGED reply

CNext ==
  \/ \E b \in Batches : Accept(b) \/ Refuse(b) \/ Answer(b) \/ Abort(b)
  \/ \E i \in Items : Settle(i)

CSafety == CInit /\ [][CNext]_cvars

=============================================================================
