--------------------------- MODULE EvaluationLedger ---------------------------
(***************************************************************************)
(* What an evaluation promises whoever interrupts and repeats it: a result *)
(* once recorded stays as it is, every sample is recorded at most once,    *)
(* the results come in batches, and a summary is published only of all of  *)
(* them.                                                                   *)
(***************************************************************************)
EXTENDS Naturals, FiniteSets

CONSTANTS
  Corpus,      \* the samples to evaluate
  BatchSize,   \* the samples recorded at a time
  Inherited    \* the results taken over from a parent evaluation

VARIABLES
  recorded,    \* the results so far, each with the sample it is about
  published    \* is there a summary?

vars == <<recorded, published>>

SampleOf(results) == {r.sample : r \in results}

Init == recorded = {} /\ published = FALSE

Inherit ==
  /\ recorded = {}
  /\ recorded' = Inherited
  /\ UNCHANGED published

Record ==
  LET new == recorded' \ recorded
  IN  /\ recorded \subseteq recorded'
      /\ Cardinality(new) \in 1..BatchSize
      /\ Cardinality(SampleOf(new)) = Cardinality(new)
      /\ SampleOf(new) \subseteq Corpus \ SampleOf(recorded)
      /\ UNCHANGED published

Publish ==
  /\ SampleOf(recorded) = Corpus
  /\ published' = TRUE
  /\ UNCHANGED recorded

Next == Inherit \/ Record \/ Publish

Spec == Init /\ [][Next]_vars

=============================================================================
