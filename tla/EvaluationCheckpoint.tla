------------------------- MODULE EvaluationCheckpoint -------------------------
(***************************************************************************)
(* An evaluation run that survives being interrupted: run_evaluation,      *)
(* which runs under the frozen snapshot, and run_candidate, which runs     *)
(* under an identity of its own, starts from the predictions of a parent   *)
(* candidate that the change cannot have affected and adds files that      *)
(* compare the two.  The inputs change meanwhile as EvaluationInputs says. *)
(*                                                                         *)
(* The process may stop between any two writes, or be ended by an error of *)
(* the service, and be started again, after whatever changes; only the     *)
(* disk survives.  A file is replaced as a whole: what is written to its   *)
(* temporary file before is never read and is not modelled.  Only the      *)
(* files of a candidate are written in place and may be left Torn.  A      *)
(* report is represented by the rows it is computed from.                  *)
(***************************************************************************)
EXTENDS EvaluationInputs, Arrangement

CONSTANTS
  Samples,      \* the corpus, a sequence without repetition
  BatchSize,    \* CHECKPOINT_BATCH_SIZE
  Concurrency,  \* the samples run_evaluation gives to verify_batch at a time
  Programs,     \* those considered of run_evaluation and run_candidate
  Reused,       \* the samples whose predictions a candidate takes over
  Torn,         \* a file half written
  Parent,       \* the origin of a prediction that is taken over
  MaxSetbacks   \* bound: crashes and failures of the service

Corpus == {Samples[i] : i \in DOMAIN Samples}

ASSUME CorpusAssumption ==
  /\ Samples \in Seq(Corpus)
  /\ \A i, j \in DOMAIN Samples : Samples[i] = Samples[j] => i = j
  /\ BatchSize \in Nat \ {0} /\ Concurrency \in 1..BatchSize
  /\ Programs \subseteq {"run_evaluation", "run_candidate"}
  /\ Reused \subseteq Corpus
  /\ MaxSetbacks \in Nat

VARIABLES
  program,    \* which of the programs it is; never changes
  disk,       \* per file, its content
  at,         \* what the process is about to do
  identity,   \* the identity of the run in progress
  loaded,     \* the inputs it has read, as far as it has read them
  rows,       \* checkpoint_rows
  pending,    \* the samples of the batches to come
  position,   \* how far it has come in the current batch
  container,  \* the service: none, open or closed
  setbacks,
  raced       \* has an input changed between its check and its last use?

memory == <<identity, loaded, rows, pending, position>>
process == <<program, disk, at, memory, container, setbacks>>
vars == <<world, process, raced>>

Inherits == program = "run_candidate"

(* Mutant: the summary is written before the reports it sums up.            *)
Reports_SummaryFirst == <<"summary", "predictions", "metrics", "error_analysis">>

(* The files of _write_artifacts in their order; of those computed from the *)
(* metrics and the error analysis, one each.                                *)
Reports == <<"predictions", "metrics", "error_analysis", "summary">>

(* What a candidate adds: the comparison and its identity among the         *)
(* artifacts, and the record under experiments/, which git does not ignore. *)
Extras == <<"comparison", "experiment">>

Files == {"meta", "checkpoint"} \cup Range(Reports) \cup Range(Extras)

(* A prediction: a failed verification makes one as well.  "under" is what  *)
(* the service that made it was built from.                                 *)
Outcomes == {"verdict", "failure"}
Unread == [k \in Inputs |-> Absent]
Rows ==
  [sample : Corpus, outcome : Outcomes,
   under : [Inputs -> Versions \cup {Absent}] \cup {Parent}]

Inheritance(samples) ==
  [i \in DOMAIN samples |-> [sample |-> samples[i], outcome |-> "verdict", under |-> Parent]]

Position(s) == CHOOSE i \in DOMAIN Samples : Samples[i] = s

(* Those of the samples of the corpus that are asked for, in its order.     *)
CorpusOrder(samples) ==
  Arrange(samples, {p \in Corpus \X Corpus : Position(p[1]) < Position(p[2])})

Inherited == Inheritance(CorpusOrder(Reused))

Descriptions ==
  [commit : Nat, status : SUBSET (InTree \cup {"experiment"}),
   inputs : [Inputs -> Versions] \cup [Inputs \ {"settings"} -> Versions]]

Identities == [config : Descriptions \cup {Absent}, dataset : Versions \cup {Absent}]

(* A file that is not there, or half written, is none with content.         *)
ASSUME FilesAssumption ==
  /\ Absent \notin Seq(Rows) \cup Identities
  /\ Torn \notin Seq(Rows) \cup {Absent}

SamplesOf(list) == {list[i].sample : i \in DOMAIN list}

(* Mutant: the rows are left in the order in which they were made.          *)
OrderRows_Made(list) == list

(* Sorted by the position of the sample; equals stay as they are.           *)
Precedence(list) ==
  {p \in (1..Len(list)) \X (1..Len(list)) :
     LET one == list[p[1]].sample
         two == list[p[2]].sample
     IN  Position(one) < Position(two) \/ (one = two /\ p[1] < p[2])}

OrderRows(list) == Sorted(list, Precedence(list))

Smaller(a, b) == IF a <= b THEN a ELSE b
Batch == SubSeq(pending, 1, Smaller(BatchSize, Len(pending)))

-----------------------------------------------------------------------------
Init ==
  /\ WorldInit
  /\ program \in Programs
  /\ disk = [f \in Files |-> Absent]
  /\ at = "down"
  /\ identity = Absent /\ loaded = Unread
  /\ rows = <<>> /\ pending = <<>> /\ position = 0
  /\ container = "none"
  /\ setbacks = 0
  /\ raced = FALSE

Forget ==
  /\ identity' = Absent /\ loaded' = Unread
  /\ rows' = <<>> /\ pending' = <<>> /\ position' = 0

(* Up to the preflight.  The code and the settings are those of the start;  *)
(* the profile of a candidate is read from its file, that of a baseline is  *)
(* taken from the snapshot.                                                 *)
Start ==
  /\ at = "down"
  /\ IF Inherits THEN Admissible ELSE Intact(snapshot)
  /\ identity' = [config |-> IF Inherits THEN Absent ELSE snapshot, dataset |-> Absent]
  /\ loaded' = [Unread EXCEPT !["source"] = current["source"],
                              !["settings"] = current["settings"],
                              !["profile"] = current["profile"]]
  /\ at' = "probing"
  /\ container' = "none"
  /\ UNCHANGED <<program, disk, rows, pending, position, setbacks>>

Expected == IF Inherits THEN Original ELSE identity.config.inputs["model"]

Status == Uncommitted \cup IF disk["experiment"] # Absent THEN {"experiment"} ELSE {}

(* preflight_ollama and the model it finds; then a candidate is described,  *)
(* and the samples are loaded.                                              *)
Probe ==
  /\ at = "probing"
  /\ current["model"] = Expected
  /\ identity' = IF Inherits
                 THEN [config |-> CandidateIdentity(Status, loaded["profile"]),
                       dataset |-> Original]
                 ELSE identity
  /\ loaded' = [loaded EXCEPT !["dataset"] = current["dataset"]]
  /\ at' = IF Inherits THEN "identifying" ELSE "hashing"
  /\ UNCHANGED <<program, disk, rows, pending, position, container, setbacks>>

Refuse ==
  /\ at = "probing"
  /\ current["model"] # Expected
  /\ at' = "down"
  /\ Forget
  /\ UNCHANGED <<program, disk, container, setbacks>>

(* run_evaluation hashes the dataset once more, after it was loaded.        *)
Hash ==
  /\ at = "hashing"
  /\ identity' = [identity EXCEPT !.dataset = current["dataset"]]
  /\ at' = "identifying"
  /\ UNCHANGED <<program, disk, loaded, rows, pending, position, container, setbacks>>

Saved == IF disk["checkpoint"] = Absent THEN <<>> ELSE disk["checkpoint"]

WellFormed(list) ==
  /\ Cardinality(SamplesOf(list)) = Len(list)
  /\ SamplesOf(list) \subseteq Corpus

(* Mutant: the identity of the checkpoint is not compared.                  *)
Unacceptable_Trusting ==
  CASE at = "identifying" -> disk["meta"] = Absent /\ disk["checkpoint"] # Absent
    [] at = "loading" -> ~WellFormed(Saved)
    [] at = "counting" -> Len(rows) # Len(Samples)
    [] OTHER -> FALSE

(* What load_or_initialize_checkpoint and the count before the report are   *)
(* on the guard for.                                                        *)
Unacceptable ==
  CASE at = "identifying" -> IF disk["meta"] = Absent
                             THEN disk["checkpoint"] # Absent
                             ELSE disk["meta"] # identity
    [] at = "loading" -> ~WellFormed(Saved)
    [] at = "counting" -> Len(rows) # Len(Samples)
    [] OTHER -> FALSE

(* An EvaluationRunError ends the run.                                      *)
Reject ==
  /\ Unacceptable
  /\ at' = "down"
  /\ Forget
  /\ UNCHANGED <<program, disk, container, setbacks>>

(* Mutant: the metadata is not written.                                     *)
Identify_Unrecorded ==
  /\ at = "identifying"
  /\ ~Unacceptable
  /\ at' = "loading"
  /\ UNCHANGED <<program, disk, memory, container, setbacks>>

(* load_or_initialize_checkpoint, up to the metadata.                       *)
Identify ==
  /\ at = "identifying"
  /\ ~Unacceptable
  /\ disk' = [disk EXCEPT !["meta"] = identity]
  /\ at' = "loading"
  /\ UNCHANGED <<program, memory, container, setbacks>>

(* Mutant: a resumed candidate inherits again.                              *)
Load_Inherits ==
  /\ at = "loading"
  /\ ~Unacceptable
  /\ rows' = Saved
  /\ at' = IF Inherits THEN "inheriting" ELSE "building"
  /\ UNCHANGED <<program, disk, identity, loaded, pending, position, container, setbacks>>

(* The rest of it; a fresh candidate then writes what it inherits.          *)
Load ==
  /\ at = "loading"
  /\ ~Unacceptable
  /\ rows' = Saved
  /\ at' = IF Inherits /\ Saved = <<>> THEN "inheriting" ELSE "building"
  /\ UNCHANGED <<program, disk, identity, loaded, pending, position, container, setbacks>>

Inherit ==
  /\ at = "inheriting"
  /\ rows' = Inherited
  /\ disk' = [disk EXCEPT !["checkpoint"] = Inherited]
  /\ at' = "building"
  /\ UNCHANGED <<program, identity, loaded, pending, position, container, setbacks>>

(* Mutant: completed samples are pending again.                             *)
Build_All ==
  /\ at = "building"
  /\ container' = "open"
  /\ loaded' = [loaded EXCEPT !["prompts"] = current["prompts"], !["catalog"] = current["catalog"]]
  /\ pending' = Samples
  /\ at' = "verifying"
  /\ UNCHANGED <<program, disk, identity, rows, position, setbacks>>

(* build_container, which reads the catalog and the prompts again, and the  *)
(* samples that are not completed.                                          *)
Build ==
  /\ at = "building"
  /\ container' = "open"
  /\ loaded' = [loaded EXCEPT !["prompts"] = current["prompts"], !["catalog"] = current["catalog"]]
  /\ pending' = CorpusOrder(Corpus \ SamplesOf(rows))
  /\ at' = IF pending' = <<>> THEN "closing" ELSE "verifying"
  /\ UNCHANGED <<program, disk, identity, rows, position, setbacks>>

(* verify_batch answers every request, with a result or a failure; a        *)
(* candidate gives it the whole batch.                                      *)
Verify ==
  /\ at = "verifying"
  /\ LET group == IF Inherits THEN BatchSize ELSE Concurrency
         given == SubSeq(Batch, position + 1, Smaller(position + group, Len(Batch)))
     IN  /\ \E outcome \in [DOMAIN given -> Outcomes] :
              rows' = rows \o
                [i \in DOMAIN given |->
                   [sample |-> given[i], outcome |-> outcome[i],
                    under |-> [loaded EXCEPT !["model"] = current["model"]]]]
         /\ position' = position + Len(given)
  /\ at' = IF position' = Len(Batch) THEN "saving" ELSE "verifying"
  /\ UNCHANGED <<program, disk, identity, loaded, pending, container, setbacks>>

Save ==
  /\ at = "saving"
  /\ rows' = OrderRows(rows)
  /\ disk' = [disk EXCEPT !["checkpoint"] = rows']
  /\ pending' = SubSeq(pending, Len(Batch) + 1, Len(pending))
  /\ position' = 0
  /\ at' = IF pending' = <<>> THEN "closing" ELSE "verifying"
  /\ UNCHANGED <<program, identity, loaded, container, setbacks>>

(* Mutant: the service is not closed when the run fails.                    *)
Fail_Open ==
  /\ at \in {"probing", "verifying"}
  /\ setbacks < MaxSetbacks
  /\ setbacks' = setbacks + 1
  /\ at' = "down"
  /\ Forget
  /\ UNCHANGED <<program, disk, container>>

(* An error of the preflight, or one that verify_batch lets through: the    *)
(* finally clause closes the service.                                       *)
Fail ==
  /\ at \in {"probing", "verifying"}
  /\ setbacks < MaxSetbacks
  /\ setbacks' = setbacks + 1
  /\ container' = IF at = "verifying" THEN "closed" ELSE container
  /\ at' = "down"
  /\ Forget
  /\ UNCHANGED <<program, disk>>

Close ==
  /\ at = "closing"
  /\ container' = "closed"
  /\ at' = "counting"
  /\ UNCHANGED <<program, disk, memory, setbacks>>

(* The first report; "position" is now that of the next report to write.    *)
Count ==
  /\ at = "counting"
  /\ ~Unacceptable
  /\ rows' = OrderRows(rows)
  /\ position' = 1
  /\ at' = "reporting"
  /\ UNCHANGED <<program, disk, identity, loaded, pending, container, setbacks>>

Report ==
  /\ at = "reporting"
  /\ disk' = [disk EXCEPT ![Reports[position]] = rows]
  /\ IF position < Len(Reports)
     THEN position' = position + 1 /\ UNCHANGED <<at, identity, loaded, rows, pending>>
     ELSE IF Inherits
          THEN at' = "adding" /\ position' = 1 /\ UNCHANGED <<identity, loaded, rows, pending>>
          ELSE at' = "down" /\ Forget
  /\ UNCHANGED <<program, container, setbacks>>

(* A file of a candidate: emptied, then written.                            *)
Add ==
  LET file == Extras[position]
  IN  /\ at = "adding"
      /\ disk' = [disk EXCEPT ![file] = IF disk[file] = Torn THEN rows ELSE Torn]
      /\ CASE disk[file] # Torn -> UNCHANGED <<at, memory>>
           [] disk[file] = Torn /\ position < Len(Extras) ->
                position' = position + 1 /\ UNCHANGED <<at, identity, loaded, rows, pending>>
           [] OTHER -> at' = "down" /\ Forget
      /\ UNCHANGED <<program, container, setbacks>>

Crash ==
  /\ at # "down"
  /\ setbacks < MaxSetbacks
  /\ setbacks' = setbacks + 1
  /\ container' = "none"
  /\ at' = "down"
  /\ Forget
  /\ UNCHANGED <<program, disk>>

Step ==
  /\ \/ Probe \/ Refuse \/ Hash \/ Reject \/ Identify \/ Load \/ Inherit \/ Build \/ Verify
     \/ Save \/ Close \/ Count \/ Report \/ Add
  /\ UNCHANGED <<world, raced>>

Begin == Start /\ UNCHANGED <<world, raced>>
Setback == (Fail \/ Crash) /\ UNCHANGED <<world, raced>>

(* Where the process is while an input that it has checked may still reach  *)
(* it changed: files that build_container reads again, a dataset loaded and *)
(* hashed at different times, a commit that is no longer the one of what    *)
(* was loaded, and the model, which every call asks for by its name.        *)
Window(k) ==
  LET checked == {"identifying", "loading", "inheriting", "building"}
                   \cup IF Inherits THEN {} ELSE {"hashing"}
  IN  CASE k \in {"prompts", "catalog"} -> checked \cup IF Inherits THEN {} ELSE {"probing"}
        [] k = "dataset" -> {IF Inherits THEN "probing" ELSE "hashing"}
        [] k \in {"source", "profile"} -> IF Inherits THEN {"probing"} ELSE {}
        [] k = "model" -> checked \cup {"verifying", "saving"}
        [] k = "settings" -> {}

Disturb ==
  /\ \E k \in Inputs : Change(k) /\ raced' = (raced \/ at \in Window(k))
  /\ UNCHANGED process

(* Only run_evaluation reads the snapshot.                                  *)
Freeze == ~Inherits /\ (BeginFreeze \/ CheckFreeze \/ WriteSnapshot)
Record == (Commit \/ Freeze) /\ UNCHANGED <<process, raced>>

(* There may be nothing an evaluation could be started with.                *)
Idle == at = "down" /\ UNCHANGED vars

Next == Begin \/ Step \/ Setback \/ Disturb \/ Record \/ Idle

Spec == Init /\ [][Next]_vars

(* The process runs, and whoever wants the report starts it again.          *)
FairSpec == Spec /\ WF_vars(Begin) /\ WF_vars(Step)

-----------------------------------------------------------------------------
(* Properties.                                                              *)

Places ==
  {"down", "probing", "hashing", "identifying", "loading", "inheriting", "building",
   "verifying", "saving", "closing", "counting", "reporting", "adding"}

(* TypeOK: the files hold what they are for, the process is in a place it   *)
(* knows, and the service is open exactly while it is used.                 *)
TypeOK ==
  /\ program \in Programs
  /\ DOMAIN disk = Files
  /\ disk["checkpoint"] = Absent \/ disk["checkpoint"] \in Seq(Rows)
  /\ at \in Places
  /\ rows \in Seq(Rows) /\ SamplesOf(rows) \subseteq Corpus
  /\ container \in {"none", "open", "closed"}
  /\ container = "open" <=> at \in {"verifying", "saving", "closing"}

(* The inputs an identity stands for, and those inputs of a prediction.     *)
Recorded == IF Inherits THEN Inputs \ {"settings"} ELSE Inputs
Claimed(id) ==
  [k \in Recorded |-> IF k = "dataset" THEN id.dataset ELSE id.config.inputs[k]]

(* IdentityBound: no prediction in the checkpoint or in a report was made   *)
(* from other inputs than those of the identity on disk, whatever was       *)
(* edited, committed, frozen or pulled between the runs and whatever was    *)
(* interrupted, unless an input changed inside its window ("identity_bound",*)
(* the test of the checkpoint).                                             *)
IdentityBound ==
  raced \/ \A f \in Files \ {"meta"} :
    disk[f] \notin {Absent, Torn} =>
      \A i \in DOMAIN disk[f] :
        \/ disk[f][i].under = Parent
        \/ [k \in Recorded |-> disk[f][i].under[k]] = Claimed(disk["meta"])

(* CommittedInputs: the identity a run works under, and the one on disk,    *)
(* names a commit in which every file it does not list as changed is as it  *)
(* was hashed; a baseline lists none, also when the tree was edited while   *)
(* it was frozen.                                                           *)
CommittedInputs ==
  raced \/ \A id \in {identity, disk["meta"]} \ {Absent} :
    id.config # Absent =>
      /\ ~Inherits => id.config.status = {}
      /\ \A k \in InTree \ id.config.status :
           id.config.inputs[k] = history[id.config.commit][k]

(* OrderedOnce: the checkpoint and every report hold each sample at most    *)
(* once and in the order of the corpus, however the runs were cut off.      *)
OrderedOnce ==
  \A f \in Files \ {"meta"} :
    disk[f] \notin {Absent, Torn} =>
      \A i, j \in DOMAIN disk[f] :
        i < j => Position(disk[f][i].sample) < Position(disk[f][j].sample)

(* ResumesUnlessChanged: the guards of a resumed run stop it only when its  *)
(* identity differs: no crash leaves a checkpoint that the same evaluation  *)
(* refuses, or cannot complete.                                             *)
ResumesUnlessChanged == Unacceptable => disk["meta"] \notin {Absent, identity}

(* SummaryIsComplete: summary.json, which says COMPLETE, is there only with *)
(* all reports, all computed from the same rows, one per sample, and those  *)
(* rows are the checkpoint: also while a later run writes them again.       *)
SummaryIsComplete ==
  disk["summary"] # Absent =>
    /\ Len(Saved) = Len(Samples)
    /\ \A i \in DOMAIN Reports : disk[Reports[i]] = Saved
    /\ \A i \in DOMAIN Extras : disk[Extras[i]] \in {Absent, Torn, Saved}

Ledger == INSTANCE EvaluationLedger WITH
  Inherited <- Range(Inherited),
  recorded <- Range(Saved),
  published <- disk["summary"] # Absent

(* KeepsLedger: runs, crashes, restarts and changes of the inputs together  *)
(* implement the ledger: what is recorded stays, and each batch adds new    *)
(* samples.                                                                 *)
KeepsLedger == Ledger!Spec

(* The identity under which an evaluation would be started now, if at all.  *)
Wanted ==
  IF Inherits
  THEN [config |-> CandidateIdentity(Status, current["profile"]), dataset |-> Original]
  ELSE [config |-> snapshot, dataset |-> current["dataset"]]

Startable ==
  IF Inherits
  THEN Admissible /\ current["model"] = Original
  ELSE Intact(snapshot) /\ current["model"] = snapshot.inputs["model"]

(* EventuallyReported: an evaluation that is interrupted finitely often and *)
(* started again each time comes to its summary, if in the end its inputs   *)
(* stay what they were when its checkpoint was begun.                       *)
EventuallyReported ==
  <>[](Startable /\ disk["meta"] \in {Absent, Wanted}) => <>(disk["summary"] # Absent)

=============================================================================
