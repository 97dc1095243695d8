--------------------------- MODULE EvaluationInputs ---------------------------
(***************************************************************************)
(* What an evaluation is computed from, and who changes it: the files of   *)
(* the repository and their commits, the settings of the environment, the  *)
(* model that Ollama has under the configured name, and the snapshot of    *)
(* all of them that freeze_baseline writes and run_evaluation checks.      *)
(*                                                                         *)
(* A hash is represented by the content it is the hash of, a commit by its *)
(* place in the history.  The snapshot lies at an ignored path, and so do  *)
(* the artifacts: neither shows in the status of the working tree.         *)
(***************************************************************************)
EXTENDS Integers, Sequences, FiniteSets, SequencesExt

CONSTANTS
  Versions,    \* the contents an input may have
  Original,    \* the one each has at first, which run_candidate has pinned
  Touched,     \* the inputs that change
  Absent,      \* a file that is not there, or a value not yet known
  MaxChanges   \* bound: changes of inputs

(* The files source_tree_hash reads (the profile and the prompts have       *)
(* hashes of their own besides), and what lies outside the repository.      *)
InTree == {"source", "profile", "prompts", "catalog", "dataset"}
Inputs == InTree \cup {"settings", "model"}

ASSUME InputsAssumption ==
  /\ Original \in Versions /\ Absent \notin Versions
  /\ Touched \subseteq Inputs
  /\ MaxChanges \in Nat

VARIABLES
  current,     \* the content of each input
  history,     \* the commits, each with the tree it records
  snapshot,    \* experiments/baseline/v1/config.json
  freezing,    \* how far freeze_baseline is, and the model its preflight saw
  changes

world == <<current, history, snapshot, freezing, changes>>

Tree == [k \in InTree |-> current[k]]
Uncommitted == {k \in InTree : current[k] # Last(history)[k]}

(* A frozen identity: the commit, what git status lists, and the hashes of  *)
(* the inputs.  The status names the files that differ, not how.            *)
Described(status, inputs) ==
  [commit |-> Len(history), status |-> status, inputs |-> inputs]

WorldInit ==
  /\ current = [k \in Inputs |-> Original]
  /\ history = <<[k \in InTree |-> Original]>>
  /\ snapshot = Absent
  /\ freezing = Absent
  /\ changes = 0

(* Somebody edits a file or the environment, or pulls the model again.      *)
Change(k) ==
  /\ k \in Touched
  /\ changes < MaxChanges
  /\ changes' = changes + 1
  /\ \E v \in Versions \ {current[k]} : current' = [current EXCEPT ![k] = v]
  /\ UNCHANGED <<history, snapshot, freezing>>

Commit ==
  /\ Uncommitted # {}
  /\ history' = Append(history, Tree)
  /\ UNCHANGED <<current, snapshot, freezing, changes>>

(* freeze_baseline: the tree is clean; then the preflight.                  *)
BeginFreeze ==
  /\ freezing = Absent
  /\ Uncommitted = {}
  /\ freezing' = [stage |-> "probed", model |-> current["model"]]
  /\ UNCHANGED <<current, history, snapshot, changes>>

(* write_baseline_snapshot asks for a clean tree again ...                  *)
CheckFreeze ==
  /\ freezing # Absent /\ freezing.stage = "probed"
  /\ freezing' = IF Uncommitted = {} THEN [freezing EXCEPT !.stage = "clean"] ELSE Absent
  /\ UNCHANGED <<current, history, snapshot, changes>>

(* ... and reads everything once more, the status of the tree included.     *)
WriteSnapshot ==
  /\ freezing # Absent /\ freezing.stage = "clean"
  /\ snapshot' = Described(Uncommitted, [current EXCEPT !["model"] = freezing.model])
  /\ freezing' = Absent
  /\ UNCHANGED <<current, history, changes>>

-----------------------------------------------------------------------------
(* Mutant: an unclean tree is accepted, as its hashes agree.                *)
Intact_HashesOnly(frozen) ==
  /\ frozen # Absent
  /\ frozen.commit = Len(history)
  /\ \A k \in Inputs \ {"model"} : frozen.inputs[k] = current[k]

(* load_snapshot and validate_baseline_integrity.                           *)
Intact(frozen) ==
  /\ frozen # Absent
  /\ frozen.commit = Len(history)
  /\ Uncommitted = {}
  /\ \A k \in Inputs \ {"model"} : frozen.inputs[k] = current[k]

(* What run_candidate demands of its inputs instead, apart from the model.  *)
Admissible == current["dataset"] = Original

(* The identity _candidate_snapshot gives a candidate, whose profile was    *)
(* loaded before: of the settings only those it pins are recorded, and the  *)
(* dataset is the pinned one.                                               *)
CandidateIdentity(status, profile) ==
  Described(status,
    [k \in Inputs \ {"settings"} |->
       CASE k = "dataset" -> Original
         [] k = "profile" -> profile
         [] OTHER -> current[k]])

=============================================================================
