---------------------- MODULE EvaluationCheckpointProofs ----------------------
(***************************************************************************)
(* Theorems about the evaluation runs for every corpus, batch size and     *)
(* number of crashes, edits, commits and freezes.                          *)
(*                                                                         *)
(* The inductive invariant says what the disk may hold (DiskSound), which  *)
(* part of the checkpoint the memory of the process extends at each place  *)
(* (MemorySound), and, as long as no input changed inside its window, with *)
(* which inputs the identity in use agrees at each place (InputsSound).    *)
(* Every report is the complete checkpoint from the moment it is written,  *)
(* which is what makes it safe to write the reports again.                 *)
(***************************************************************************)
EXTENDS EvaluationCheckpoint, CountingLemmas, SequenceTheorems

-----------------------------------------------------------------------------
(* The world.                                                               *)

(* What a description does not list as changed is as it was committed.      *)
Committed(c) ==
  \A k \in InTree \ c.status : c.inputs[k] = history[c.commit][k]

WorldSound ==
  /\ current \in [Inputs -> Versions]
  /\ history \in Seq([InTree -> Versions]) /\ history # <<>>
  /\ freezing # Absent => freezing \in [stage : {"probed", "clean"}, model : Versions]
  /\ snapshot # Absent =>
       /\ snapshot \in Descriptions /\ snapshot.commit \in DOMAIN history
       /\ snapshot.inputs \in [Inputs -> Versions]
       /\ snapshot.status = {k \in InTree : snapshot.inputs[k] # history[snapshot.commit][k]}

-----------------------------------------------------------------------------
(* The disk.                                                                *)

Outputs == Range(Reports) \cup Range(Extras)

InOrder(list) ==
  \A i, j \in 1..Len(list) : i < j => Position(list[i].sample) < Position(list[j].sample)

Complete(list) == SamplesOf(list) = Corpus

ConfigSound(c) ==
  /\ c \in Descriptions /\ c.commit \in DOMAIN history
  /\ c.inputs \in [IF Inherits THEN Inputs \ {"settings"} ELSE Inputs -> Versions]
  /\ ~Inherits => c.status = {}
  /\ ~raced => Committed(c)

IdentitySound(id) ==
  id \in Identities /\ ConfigSound(id.config) /\ id.dataset \in Versions

DiskSound ==
  /\ DOMAIN disk = Files
  /\ disk["meta"] # Absent => IdentitySound(disk["meta"])
  /\ disk["meta"] = Absent => \A f \in Files : disk[f] = Absent
  /\ disk["checkpoint"] # Absent => disk["checkpoint"] \in Seq(Rows)
  /\ InOrder(Saved)
  /\ \A f \in Outputs : disk[f] # Absent =>
       \/ disk[f] = Torn /\ f \in Range(Extras)
       \/ disk[f] = Saved /\ Complete(Saved)
  /\ disk["summary"] # Absent => \A f \in Range(Reports) : disk[f] # Absent

-----------------------------------------------------------------------------
(* The memory of the process, place by place.                               *)

Fresh == rows = <<>> /\ pending = <<>> /\ position = 0

(* What lies between the checkpoint and the rows in memory is the part of   *)
(* the current batch that has been verified.                                *)
InFlight ==
  /\ pending \in Seq(Corpus) /\ pending # <<>>
  /\ \A i, j \in 1..Len(pending) : pending[i] = pending[j] => i = j
  /\ {pending[i] : i \in 1..Len(pending)} = Corpus \ SamplesOf(Saved)
  /\ position \in 0..Len(Batch)
  /\ rows \in Seq(Rows) /\ Len(rows) = Len(Saved) + position
  /\ \A i \in 1..Len(Saved) : rows[i] = Saved[i]
  /\ \A i \in 1..position : rows[Len(Saved) + i].sample = pending[i]

Unidentified == {"probing", "hashing", "identifying"}
Identified ==
  {"loading", "inheriting", "building", "verifying", "saving", "closing", "counting",
   "reporting", "adding"}

MemorySound ==
  /\ at = "down" => identity = Absent /\ Fresh
  /\ at \in Unidentified \cup {"loading", "inheriting"} => Fresh
  /\ at \in Identified => identity = disk["meta"] /\ disk["meta"] # Absent
  /\ at = "inheriting" => Inherits /\ Saved = <<>>
  /\ at = "building" => rows = Saved /\ pending = <<>> /\ position = 0
  /\ at \in {"verifying", "saving"} => InFlight
  /\ at = "verifying" => position < Len(Batch)
  /\ at = "saving" => position = Len(Batch)
  /\ at \in {"closing", "counting", "reporting", "adding"} =>
       rows = Saved /\ Complete(Saved) /\ pending = <<>>
  /\ at = "reporting" => /\ position \in 1..Len(Reports)
                         /\ \A i \in 1..(position - 1) : disk[Reports[i]] # Absent
  /\ at = "adding" => position \in 1..Len(Extras)

-----------------------------------------------------------------------------
(* The inputs.                                                              *)

Bound(row, id) ==
  row.under = Parent \/ [k \in Recorded |-> row.under[k]] = Claimed(id)

(* Before there is an identity, a candidate compares with the pinned inputs *)
(* and a baseline with those of the snapshot.                               *)
Preparing ==
  IF Inherits
  THEN /\ at # "hashing"
       /\ at = "probing" => identity.config = Absent /\ loaded["profile"] \in Versions
       /\ at = "probing" /\ ~raced => /\ loaded["source"] = current["source"]
                                      /\ loaded["profile"] = current["profile"]
                                      /\ current["dataset"] = Original
  ELSE at \in {"probing", "hashing"} =>
         LET inputs == identity.config.inputs
         IN  /\ identity \in Identities /\ identity.dataset = Absent
             /\ ConfigSound(identity.config)
             /\ \A k \in {"source", "settings", "profile"} : loaded[k] = inputs[k]
             /\ ~raced => \A k \in {"prompts", "catalog"} : current[k] = inputs[k]
             /\ ~raced /\ at = "hashing" => /\ loaded["dataset"] = current["dataset"]
                                            /\ current["model"] = inputs["model"]

(* From the identity on, what was loaded, or will be, is what it names.     *)
Agreed(id) ==
  /\ \A k \in Recorded \ {"model", "prompts", "catalog"} : loaded[k] = Claimed(id)[k]
  /\ current["model"] = Claimed(id)["model"]
  /\ \A k \in {"prompts", "catalog"} :
       IF at \in {"verifying", "saving"} THEN loaded[k] = Claimed(id)[k]
                                         ELSE current[k] = Claimed(id)[k]

InputsSound ==
  /\ loaded \in [Inputs -> Versions \cup {Absent}]
  /\ Preparing
  /\ at \in Identified \cup {"identifying"} => IdentitySound(identity)
  /\ ~raced =>
       /\ at \in {"identifying", "loading", "inheriting", "building", "verifying", "saving"} =>
            Agreed(identity)
       /\ \A i \in 1..Len(Saved) : Bound(Saved[i], disk["meta"])
       /\ at \in {"verifying", "saving"} =>
            \A i \in 1..Len(rows) : Bound(rows[i], disk["meta"])

CheckpointInv ==
  /\ program \in Programs /\ at \in Places /\ raced \in BOOLEAN
  /\ container \in {"none", "open", "closed"}
  /\ container = "open" <=> at \in {"verifying", "saving", "closing"}
  /\ WorldSound /\ DiskSound /\ MemorySound /\ InputsSound

-----------------------------------------------------------------------------
(* The corpus and lists of rows.                                            *)
LEMMA SequenceOf ==
  ASSUME NEW S, NEW n \in Nat, NEW f \in [1..n -> S]
  PROVE  f \in Seq(S) /\ Len(f) = n
OBVIOUS

LEMMA UpTo == ASSUME NEW n \in Nat PROVE IsFiniteSet(1..n) /\ Cardinality(1..n) = n
BY FS_Interval

LEMMA PositionFacts ==
  /\ Len(Samples) \in Nat
  /\ \A s \in Corpus : Position(s) \in 1..Len(Samples) /\ Samples[Position(s)] = s
  /\ \A s, t \in Corpus : Position(s) = Position(t) => s = t
<1>1. Len(Samples) \in Nat /\ DOMAIN Samples = 1..Len(Samples)
  BY CorpusAssumption, LenProperties
<1>2. ASSUME NEW s \in Corpus PROVE Position(s) \in 1..Len(Samples) /\ Samples[Position(s)] = s
  <2>1. \E i \in DOMAIN Samples : Samples[i] = s BY DEF Corpus
  <2> QED BY <1>1, <2>1 DEF Position
<1> QED BY <1>1, <1>2

LEMMA CorpusSize == IsFiniteSet(Corpus) /\ Cardinality(Corpus) = Len(Samples)
<1>1. DOMAIN Samples = 1..Len(Samples) /\ Len(Samples) \in Nat
      /\ Samples \in [1..Len(Samples) -> Corpus]
  BY CorpusAssumption, LenProperties
<1>2. Samples \in Surjection(1..Len(Samples), Corpus)
  BY <1>1 DEF Corpus, Surjection
<1>3. Samples \in Injection(1..Len(Samples), Corpus)
  BY <1>1, CorpusAssumption, Fun_IsInj
<1>4. ExistsBijection(1..Len(Samples), Corpus)
  BY <1>2, <1>3 DEF Bijection, ExistsBijection
<1>5. IsFiniteSet(1..Len(Samples)) /\ Cardinality(1..Len(Samples)) = Len(Samples)
  BY <1>1, FS_Interval
<1> QED BY <1>4, <1>5, FS_Bijection

Distinct(list) == \A i, j \in 1..Len(list) : list[i].sample = list[j].sample => i = j

LEMMA RowFacts ==
  ASSUME NEW list \in Seq(Rows)
  PROVE  /\ Len(list) \in Nat /\ DOMAIN list = 1..Len(list)
         /\ \A i \in 1..Len(list) : list[i] \in Rows /\ list[i].sample \in Corpus
         /\ SamplesOf(list) \subseteq Corpus
<1>1. Len(list) \in Nat /\ DOMAIN list = 1..Len(list)
      /\ \A i \in 1..Len(list) : list[i] \in Rows
  BY LenProperties, ElementOfSeq
<1> QED BY <1>1 DEF Rows, SamplesOf

LEMMA InOrderIsDistinct ==
  ASSUME NEW list \in Seq(Rows), InOrder(list)
  PROVE  Distinct(list)
<1> SUFFICES ASSUME NEW i \in 1..Len(list), NEW j \in 1..Len(list),
                    list[i].sample = list[j].sample
             PROVE  i = j
  BY DEF Distinct
<1>1. list[i].sample \in Corpus /\ list[j].sample \in Corpus /\ Len(list) \in Nat BY RowFacts
<1>2. Position(list[i].sample) \in Int BY <1>1, PositionFacts
<1> QED BY <1>1, <1>2 DEF InOrder

(* As many samples as rows.                                                 *)
LEMMA DistinctSize ==
  ASSUME NEW list \in Seq(Rows), Distinct(list)
  PROVE  /\ IsFiniteSet(SamplesOf(list)) /\ Cardinality(SamplesOf(list)) = Len(list)
         /\ Complete(list) <=> Len(list) = Len(Samples)
<1> DEFINE n == Len(list)
           name == [i \in 1..n |-> list[i].sample]
<1>1. n \in Nat /\ DOMAIN list = 1..n BY RowFacts
<1>2. name \in Surjection(1..n, SamplesOf(list))
  BY <1>1 DEF SamplesOf, Surjection
<1>3. name \in Injection(1..n, SamplesOf(list))
  BY <1>1, Fun_IsInj DEF Distinct, SamplesOf
<1>4. ExistsBijection(1..n, SamplesOf(list))
  BY <1>2, <1>3 DEF Bijection, ExistsBijection
<1>5. IsFiniteSet(1..n) /\ Cardinality(1..n) = n BY <1>1, FS_Interval
<1>6. IsFiniteSet(SamplesOf(list)) /\ Cardinality(SamplesOf(list)) = n
  BY <1>4, <1>5, FS_Bijection
<1>7. SamplesOf(list) \in SUBSET Corpus BY RowFacts
<1>8. Complete(list) <=> n = Len(Samples)
  BY <1>6, <1>7, CorpusSize, FS_Subset DEF Complete
<1> QED BY <1>6, <1>8

LEMMA PrecedenceIsStrict ==
  ASSUME NEW list \in Seq(Rows)
  PROVE  StrictOrder(1..Len(list), Precedence(list))
<1>1. Len(list) \in Nat /\ \A i \in 1..Len(list) : list[i].sample \in Corpus BY RowFacts
<1>2. \A i \in 1..Len(list) : Position(list[i].sample) \in Int
  BY <1>1, PositionFacts
<1>3. \A i, j \in 1..Len(list) :
        Position(list[i].sample) = Position(list[j].sample) <=> list[i].sample = list[j].sample
  BY <1>1, PositionFacts
<1> DEFINE place == [i \in 1..Len(list) |-> Position(list[i].sample)]
<1>4. \A i \in 1..Len(list) : place[i] \in Int BY <1>2
<1>5. \A i, j \in 1..Len(list) :
        <<i, j>> \in Precedence(list) <=> place[i] < place[j] \/ (place[i] = place[j] /\ i < j)
  BY <1>3 DEF Precedence
<1> HIDE DEF place
<1> QED BY <1>1, <1>4, <1>5 DEF StrictOrder

(* Sorting keeps the rows and puts them in order.                           *)
LEMMA OrderRowsProperties ==
  ASSUME NEW list \in Seq(Rows)
  PROVE  /\ OrderRows(list) \in Seq(Rows) /\ Len(OrderRows(list)) = Len(list)
         /\ Range(OrderRows(list)) = Range(list)
         /\ SamplesOf(OrderRows(list)) = SamplesOf(list)
         /\ Distinct(list) => InOrder(OrderRows(list))
         /\ InOrder(list) => OrderRows(list) = list
<1> DEFINE n == Len(list)
           before == Precedence(list)
           order == Arrange(1..n, before)
           sorted == OrderRows(list)
<1>1. n \in Nat /\ DOMAIN list = 1..n
      /\ \A i \in 1..n : list[i] \in Rows /\ list[i].sample \in Corpus
  BY RowFacts
<1>2. IsFiniteSet(1..n) /\ Cardinality(1..n) = n BY <1>1, UpTo
<1>3. StrictOrder(1..n, before) BY PrecedenceIsStrict
<1>4. /\ order \in [1..n -> 1..n]
      /\ \A x \in 1..n : \E k \in 1..n : order[k] = x
      /\ \A i, j \in 1..n : i < j => <<order[i], order[j]>> \in before
  BY <1>2, <1>3, ArrangeOrders
<1>5. sorted = [k \in 1..n |-> list[order[k]]] BY DEF OrderRows, Sorted
<1> HIDE DEF n, before, order, sorted
<1>6. sorted \in [1..n -> Rows] BY <1>1, <1>4, <1>5
<1>7. sorted \in Seq(Rows) /\ Len(sorted) = n /\ DOMAIN sorted = 1..n
  BY <1>1, <1>6, SequenceOf, LenProperties
<1>8. Range(sorted) = Range(list) BY <1>1, <1>4, <1>5, <1>7 DEF Range
<1>9. SamplesOf(sorted) = SamplesOf(list) BY <1>1, <1>4, <1>5, <1>7 DEF SamplesOf
<1>10. ASSUME Distinct(list) PROVE InOrder(sorted)
  <2> SUFFICES ASSUME NEW i \in 1..n, NEW j \in 1..n, i < j
               PROVE  Position(sorted[i].sample) < Position(sorted[j].sample)
    BY <1>7 DEF InOrder
  <2>1. <<order[i], order[j]>> \in before /\ order[i] \in 1..n /\ order[j] \in 1..n BY <1>4
  <2>2. <<order[i], order[j]>> # <<order[j], order[i]>>
    BY <1>3, <2>1 DEF StrictOrder
  <2>3. list[order[i]].sample # list[order[j]].sample
    BY <1>10, <2>1, <2>2 DEF Distinct, n
  <2>4. Position(list[order[i]].sample) < Position(list[order[j]].sample)
    BY <2>1, <2>3 DEF before, Precedence
  <2> QED BY <1>5, <2>4
<1>11. ASSUME InOrder(list) PROVE sorted = list
  <2>1. \A i \in 1..n : Position(list[i].sample) \in Int BY <1>1, PositionFacts
  <2>2. \A i, j \in 1..n : i < j => Position(list[i].sample) < Position(list[j].sample)
    BY <1>11 DEF InOrder, n
  <2>3. \A i, j \in 1..n : <<i, j>> \in before <=> i < j
    <3>1. Distinct(list) BY <1>11, InOrderIsDistinct
    <3> SUFFICES ASSUME NEW i \in 1..n, NEW j \in 1..n PROVE <<i, j>> \in before <=> i < j
      OBVIOUS
    <3>2. list[i].sample = list[j].sample => i = j BY <3>1 DEF Distinct, n
    <3>3. <<i, j>> \in before <=> \/ Position(list[i].sample) < Position(list[j].sample)
                                  \/ list[i].sample = list[j].sample /\ i < j
      BY DEF before, Precedence, n
    <3> QED BY <1>1, <2>1, <2>2, <3>2, <3>3
  <2>4. \A k \in 1..n : order[k] = k BY <1>1, <2>3, ArrangedStays DEF order
  <2>5. \A k \in 1..n : sorted[k] = list[k] BY <1>5, <2>4
  <2> QED BY <1>7, <2>5, SeqEqual DEF n
<1> QED BY <1>7, <1>8, <1>9, <1>10, <1>11 DEF sorted, n

(* The samples asked for, each once, in the order of the corpus.            *)
LEMMA CorpusOrderProperties ==
  ASSUME NEW S \in SUBSET Corpus
  PROVE  LET list == CorpusOrder(S)
         IN  /\ list \in Seq(Corpus) /\ Len(list) = Cardinality(S) /\ Len(list) \in Nat
             /\ {list[i] : i \in 1..Len(list)} = S
             /\ \A i, j \in 1..Len(list) : list[i] = list[j] => i = j
             /\ \A i, j \in 1..Len(list) : i < j => Position(list[i]) < Position(list[j])
             /\ list = <<>> <=> S = {}
<1> DEFINE before == {p \in Corpus \X Corpus : Position(p[1]) < Position(p[2])}
           list == CorpusOrder(S)
           n == Cardinality(S)
<1>1. IsFiniteSet(S) BY CorpusSize, FS_Subset
<1>2. \A s, t \in Corpus : <<s, t>> \in before <=> Position(s) < Position(t)
  OBVIOUS
<1>3. \A s \in Corpus : Position(s) \in Int BY PositionFacts
<1>4. StrictOrder(S, before)
  <2> HIDE DEF before
  <2>1. \A x \in S : <<x, x>> \notin before BY <1>2, <1>3
  <2>2. \A x, y, z \in S : <<x, y>> \in before /\ <<y, z>> \in before => <<x, z>> \in before
    BY <1>2, <1>3
  <2>3. ASSUME NEW x \in S, NEW y \in S
        PROVE  x = y \/ <<x, y>> \in before \/ <<y, x>> \in before
    <3>1. x # y => Position(x) # Position(y) BY PositionFacts
    <3> QED BY <1>2, <1>3, <3>1
  <2> QED BY <2>1, <2>2, <2>3 DEF StrictOrder
<1>5. /\ n \in Nat /\ list \in [1..n -> S]
      /\ \A x \in S : \E k \in 1..n : list[k] = x
      /\ \A i, j \in 1..n : i < j => <<list[i], list[j]>> \in before
  BY <1>1, <1>4, ArrangeOrders DEF CorpusOrder
<1> HIDE DEF before, list, n
<1>6. list \in Seq(Corpus) /\ Len(list) = n BY <1>5, SequenceOf
<1>7. \A i, j \in 1..n : i < j => Position(list[i]) < Position(list[j])
  BY <1>2, <1>5
<1>8. ASSUME NEW i \in 1..n, NEW j \in 1..n, list[i] = list[j] PROVE i = j
  BY <1>3, <1>5, <1>7, <1>8
<1>9. list = <<>> <=> S = {} BY <1>5, <1>6, EmptySeq
<1> QED BY <1>5, <1>6, <1>7, <1>8, <1>9 DEF n, list

LEMMA InheritedProperties ==
  /\ Inherited \in Seq(Rows) /\ InOrder(Inherited)
  /\ \A i \in 1..Len(Inherited) : Inherited[i].under = Parent
  /\ Corpus = {} => Inherited = <<>>
<1> DEFINE list == CorpusOrder(Reused)
<1>1. Reused \in SUBSET Corpus BY CorpusAssumption
<1>2. /\ list \in Seq(Corpus) /\ Len(list) \in Nat
      /\ \A i, j \in 1..Len(list) : i < j => Position(list[i]) < Position(list[j])
      /\ list = <<>> <=> Reused = {}
  BY <1>1, CorpusOrderProperties
<1>3. DOMAIN list = 1..Len(list) /\ \A i \in 1..Len(list) : list[i] \in Corpus
  BY <1>2, LenProperties, ElementOfSeq
<1>4. Inherited = [i \in 1..Len(list) |->
                     [sample |-> list[i], outcome |-> "verdict", under |-> Parent]]
  BY <1>3 DEF Inherited, Inheritance
<1> HIDE DEF list
<1>5. Inherited \in [1..Len(list) -> Rows]
  <2>1. \A i \in 1..Len(list) :
          [sample |-> list[i], outcome |-> "verdict", under |-> Parent] \in Rows
    BY <1>3 DEF Rows, Outcomes
  <2> QED BY <1>4, <2>1
<1>6. Inherited \in Seq(Rows) /\ Len(Inherited) = Len(list)
  BY <1>2, <1>5, SequenceOf
<1>7. InOrder(Inherited) BY <1>2, <1>4, <1>6 DEF InOrder
<1>8. Corpus = {} => Inherited = <<>>
  BY <1>1, <1>2, <1>6, EmptySeq
<1> QED BY <1>4, <1>6, <1>7, <1>8

(* The batch is what the pending samples begin with.                        *)
BatchOf(list) == SubSeq(list, 1, Smaller(BatchSize, Len(list)))

LEMMA BatchProperties ==
  ASSUME NEW list \in Seq(Corpus), list # <<>>
  PROVE  /\ Len(list) \in Nat /\ Len(BatchOf(list)) \in Nat
         /\ 0 < Len(BatchOf(list)) /\ Len(BatchOf(list)) <= Len(list)
         /\ Len(BatchOf(list)) <= BatchSize
         /\ BatchOf(list) \in Seq(Corpus)
         /\ \A i \in 1..Len(BatchOf(list)) : BatchOf(list)[i] = list[i]
<1>1. Len(list) \in Nat \ {0} BY EmptySeq
<1> DEFINE n == Smaller(BatchSize, Len(list))
<1>2. n \in 1..Len(list) /\ n <= BatchSize BY <1>1, CorpusAssumption DEF Smaller
<1> HIDE DEF n
<1>3. \A i \in 1..n : list[i] \in Corpus BY <1>1, <1>2, ElementOfSeq
<1>4. /\ SubSeq(list, 1, n) \in Seq(Corpus) /\ Len(SubSeq(list, 1, n)) = n
      /\ \A i \in 1..n : SubSeq(list, 1, n)[i] = list[i]
  BY <1>1, <1>2, <1>3, SubSeqProperties
<1>5. BatchOf(list) = SubSeq(list, 1, n) BY DEF BatchOf, n
<1> QED BY <1>1, <1>2, <1>4, <1>5

LEMMA FileNames ==
  /\ Len(Reports) = 4 /\ Len(Extras) = 2
  /\ Reports[1] = "predictions" /\ Reports[2] = "metrics"
  /\ Reports[3] = "error_analysis" /\ Reports[4] = "summary"
  /\ Extras[1] = "comparison" /\ Extras[2] = "experiment"
  /\ Range(Reports) = {"predictions", "metrics", "error_analysis", "summary"}
  /\ Range(Extras) = {"comparison", "experiment"}
  /\ Files = Outputs \cup {"meta", "checkpoint"}
  /\ Outputs \cap {"meta", "checkpoint"} = {}
  /\ Range(Reports) \subseteq Outputs /\ Range(Extras) \subseteq Outputs
  /\ Outputs \subseteq Files
<1>1. Len(Reports) = 4 /\ DOMAIN Reports = 1..4 /\ Len(Extras) = 2 /\ DOMAIN Extras = 1..2
  BY DEF Reports, Extras
<1>2. Range(Reports) = {"predictions", "metrics", "error_analysis", "summary"}
  <2>1. DOMAIN Reports = {1, 2, 3, 4} BY <1>1
  <2> QED BY <2>1 DEF Reports, Range
<1>3. Range(Extras) = {"comparison", "experiment"}
  <2>1. DOMAIN Extras = {1, 2} BY <1>1
  <2> QED BY <2>1 DEF Extras, Range
<1> QED BY <1>1, <1>2, <1>3 DEF Reports, Extras, Outputs, Files

-----------------------------------------------------------------------------
(* Steps of the process: the world stays as it is.                          *)
SameWorld == UNCHANGED <<world, raced, program>>

LEMMA WorldStays ==
  ASSUME CheckpointInv, SameWorld
  PROVE  /\ WorldSound' /\ program' \in Programs /\ raced' \in BOOLEAN
         /\ Inherits' = Inherits /\ Recorded' = Recorded
         /\ UNCHANGED <<current, history, snapshot, freezing, raced, program>>
BY DEF CheckpointInv, SameWorld, WorldSound, world, Inherits, Recorded

LEMMA DiskStays ==
  ASSUME CheckpointInv, SameWorld, UNCHANGED disk
  PROVE  DiskSound' /\ Saved' = Saved
<1>1. Saved' = Saved BY DEF Saved
<1>2. InOrder(Saved)' BY <1>1 DEF CheckpointInv, DiskSound, InOrder
<1>3. disk'["meta"] # Absent => IdentitySound(disk["meta"])'
  BY WorldStays DEF CheckpointInv, DiskSound, IdentitySound, ConfigSound, Committed
<1> QED BY <1>1, <1>2, <1>3 DEF CheckpointInv, DiskSound, Complete

LEMMA SavedStaysBound ==
  ASSUME CheckpointInv, SameWorld, UNCHANGED disk \/ (Saved' = Saved /\ disk'["meta"] = disk["meta"])
  PROVE  ~raced' => \A i \in 1..Len(Saved') : Bound(Saved[i], disk["meta"])'
<1>1. Saved' = Saved /\ disk'["meta"] = disk["meta"] BY DEF Saved
<1> QED BY <1>1, WorldStays DEF CheckpointInv, InputsSound, Bound, Claimed

(* Whatever ends a run leaves the checkpoint as it is and nothing in memory.*)
LEMMA DownKeepsInv ==
  ASSUME CheckpointInv, SameWorld, at' = "down", Forget, container' \in {"none", "closed"},
         DiskSound' /\ Saved' = Saved /\ disk'["meta"] = disk["meta"]
  PROVE  CheckpointInv'
<1>1. MemorySound'
  BY DEF Forget, MemorySound, Fresh, Unidentified, Identified
<1>2. InputsSound'
  <2>1. loaded' \in [Inputs -> Versions \cup {Absent}] BY DEF Forget, Unread
  <2>2. Preparing' BY DEF Preparing
  <2> QED BY <2>1, <2>2, SavedStaysBound DEF InputsSound, Identified
<1> QED BY <1>1, <1>2, WorldStays DEF CheckpointInv, Places

(* The snapshot a baseline may start with lists nothing as changed.         *)
LEMMA IntactIsSound ==
  ASSUME CheckpointInv, Intact(snapshot)
  PROVE  /\ snapshot \in Descriptions /\ snapshot.commit \in DOMAIN history
         /\ snapshot.inputs \in [Inputs -> Versions]
         /\ snapshot.status = {} /\ Committed(snapshot)
         /\ \A k \in Inputs \ {"model"} : snapshot.inputs[k] = current[k]
<1>1. /\ snapshot # Absent /\ snapshot.commit = Len(history) /\ Uncommitted = {}
      /\ \A k \in Inputs \ {"model"} : snapshot.inputs[k] = current[k]
  BY DEF Intact
<1>2. /\ snapshot \in Descriptions /\ snapshot.commit \in DOMAIN history
      /\ snapshot.inputs \in [Inputs -> Versions]
      /\ snapshot.status = {k \in InTree : snapshot.inputs[k] # history[snapshot.commit][k]}
  BY <1>1 DEF CheckpointInv, WorldSound
<1>3. \A k \in InTree : current[k] = history[Len(history)][k]
  BY <1>1 DEF Uncommitted, Last
<1>4. \A k \in InTree : snapshot.inputs[k] = history[snapshot.commit][k]
  BY <1>1, <1>3 DEF InTree, Inputs
<1> QED BY <1>1, <1>2, <1>4 DEF Committed

LEMMA StartKeepsInv == ASSUME CheckpointInv, SameWorld, Start PROVE CheckpointInv'
<1>1. DiskSound' /\ Saved' = Saved BY DiskStays DEF Start
<1>2. at = "down" /\ at' = "probing" /\ Fresh /\ UNCHANGED <<rows, pending, position, disk>>
  BY DEF Start, CheckpointInv, MemorySound
<1>3. MemorySound'
  BY <1>2 DEF MemorySound, Fresh, Unidentified, Identified
<1>4. current \in [Inputs -> Versions] BY DEF CheckpointInv, WorldSound
<1>5. loaded' \in [Inputs -> Versions \cup {Absent}]
      /\ \A k \in {"source", "settings", "profile"} : loaded'[k] = current[k]
  BY <1>4 DEF Start, Unread, Inputs, InTree
<1>6. Preparing'
  <2>1. CASE Inherits
    <3>1. identity'.config = Absent /\ loaded'["profile"] \in Versions
      BY <1>4, <1>5, <2>1 DEF Start, Inputs, InTree
    <3>2. current["dataset"] = Original BY <2>1 DEF Start, Admissible
    <3> QED BY <1>2, <1>5, <2>1, <3>1, <3>2, WorldStays DEF Preparing
  <2>2. CASE ~Inherits
    <3>1. Intact(snapshot) /\ identity' = [config |-> snapshot, dataset |-> Absent]
      BY <2>2 DEF Start
    <3>2. /\ identity' \in Identities /\ identity'.dataset = Absent
          /\ identity'.config = snapshot
      BY <3>1, IntactIsSound DEF Identities
    <3>3. ConfigSound(identity.config)'
      BY <2>2, <3>1, <3>2, IntactIsSound, WorldStays DEF ConfigSound, Committed
    <3>4. \A k \in Inputs \ {"model"} : identity'.config.inputs[k] = current[k]
      BY <3>1, <3>2, IntactIsSound
    <3> QED BY <1>2, <1>5, <2>2, <3>2, <3>3, <3>4, WorldStays DEF Preparing, Inputs, InTree
  <2> QED BY <2>1, <2>2
<1>7. InputsSound'
  BY <1>2, <1>5, <1>6, SavedStaysBound DEF InputsSound, Identified
<1> QED BY <1>1, <1>2, <1>3, <1>7, WorldStays DEF CheckpointInv, Places, Start

(* The identity of a candidate describes the files as they are.             *)
LEMMA CandidateIsSound ==
  ASSUME CheckpointInv, Inherits, NEW status \in SUBSET (InTree \cup {"experiment"}),
         NEW profile \in Versions, Uncommitted \subseteq status,
         ~raced => profile = current["profile"] /\ current["dataset"] = Original
  PROVE  /\ ConfigSound(CandidateIdentity(status, profile))
         /\ CandidateIdentity(status, profile).inputs \in [Inputs \ {"settings"} -> Versions]
         /\ CandidateIdentity(status, profile).inputs["dataset"] = Original
         /\ CandidateIdentity(status, profile).inputs["profile"] = profile
         /\ \A k \in Inputs \ {"settings", "dataset", "profile"} :
              CandidateIdentity(status, profile).inputs[k] = current[k]
<1> DEFINE inputs == [k \in Inputs \ {"settings"} |->
                        CASE k = "dataset" -> Original
                          [] k = "profile" -> profile
                          [] OTHER -> current[k]]
           c == CandidateIdentity(status, profile)
<1>1. c = [commit |-> Len(history), status |-> status, inputs |-> inputs]
  BY DEF CandidateIdentity, Described
<1>2. current \in [Inputs -> Versions] /\ history \in Seq([InTree -> Versions])
      /\ Len(history) \in Nat \ {0} /\ DOMAIN history = 1..Len(history)
  BY EmptySeq, LenProperties DEF CheckpointInv, WorldSound
<1>3. inputs \in [Inputs \ {"settings"} -> Versions]
  BY <1>2, InputsAssumption DEF Inputs, InTree
<1>4. /\ inputs["dataset"] = Original /\ inputs["profile"] = profile
      /\ \A k \in Inputs \ {"settings", "dataset", "profile"} : inputs[k] = current[k]
  BY DEF Inputs, InTree
<1> HIDE DEF inputs, c
<1>5. c.commit = Len(history) /\ c.status = status /\ c.inputs = inputs BY <1>1
<1>6. c \in Descriptions BY <1>1, <1>2, <1>3 DEF Descriptions
<1>7. ~raced => Committed(c)
  <2> SUFFICES ASSUME ~raced, NEW k \in InTree \ status
               PROVE  inputs[k] = history[Len(history)][k]
    BY <1>5 DEF Committed
  <2>1. current[k] = history[Len(history)][k] BY DEF Uncommitted, Last
  <2>2. inputs[k] = current[k] BY <1>4 DEF Inputs, InTree
  <2> QED BY <2>1, <2>2
<1>8. ConfigSound(c) BY <1>2, <1>3, <1>5, <1>6, <1>7 DEF ConfigSound
<1> QED BY <1>3, <1>4, <1>5, <1>8 DEF c

LEMMA ProbeKeepsInv == ASSUME CheckpointInv, SameWorld, Probe PROVE CheckpointInv'
<1>1. DiskSound' /\ Saved' = Saved BY DiskStays DEF Probe
<1>2. /\ at = "probing" /\ Fresh /\ UNCHANGED <<rows, pending, position, disk, container>>
      /\ at' = IF Inherits THEN "identifying" ELSE "hashing"
  BY DEF Probe, CheckpointInv, MemorySound, Unidentified
<1>3. MemorySound'
  BY <1>2 DEF MemorySound, Fresh, Unidentified, Identified
<1>4. current \in [Inputs -> Versions] /\ loaded \in [Inputs -> Versions \cup {Absent}]
  BY DEF CheckpointInv, WorldSound, InputsSound
<1>5. /\ loaded' \in [Inputs -> Versions \cup {Absent}]
      /\ loaded'["dataset"] = current["dataset"]
      /\ \A k \in Inputs \ {"dataset"} : loaded'[k] = loaded[k]
  BY <1>4 DEF Probe, Inputs, InTree
<1>6. CASE Inherits
  <2> DEFINE c == CandidateIdentity(Status, loaded["profile"])
  <2>1. /\ loaded["profile"] \in Versions
        /\ ~raced => /\ loaded["source"] = current["source"]
                     /\ loaded["profile"] = current["profile"]
                     /\ current["dataset"] = Original
    BY <1>2, <1>6 DEF CheckpointInv, InputsSound, Preparing
  <2>2. Status \in SUBSET (InTree \cup {"experiment"}) /\ Uncommitted \subseteq Status
    BY DEF Status, Uncommitted
  <2>3. identity' = [config |-> c, dataset |-> Original] /\ at' = "identifying"
    BY <1>6 DEF Probe
  <2>4. /\ ConfigSound(c) /\ c.inputs \in [Inputs \ {"settings"} -> Versions]
        /\ c.inputs["dataset"] = Original /\ c.inputs["profile"] = loaded["profile"]
        /\ \A k \in Inputs \ {"settings", "dataset", "profile"} : c.inputs[k] = current[k]
    BY <1>6, <2>1, <2>2, CandidateIsSound
  <2> HIDE DEF c
  <2>5. identity'.config = c /\ identity'.dataset = Original /\ identity' \in Identities
    BY <2>3, <2>4, InputsAssumption DEF ConfigSound, Identities
  <2>6. IdentitySound(identity)'
    BY <2>4, <2>5, InputsAssumption, WorldStays DEF IdentitySound, ConfigSound, Committed
  <2>7. ~raced => Agreed(identity)'
    <3> SUFFICES ASSUME ~raced PROVE Agreed(identity)' OBVIOUS
    <3>1. Recorded = Inputs \ {"settings"} BY <1>6 DEF Recorded
    <3>2. \A k \in Recorded :
            Claimed(identity)'[k] = IF k = "dataset" THEN Original ELSE c.inputs[k]
      BY <2>5, WorldStays DEF Claimed
    <3>3. \A k \in Recorded \ {"model", "prompts", "catalog"} :
            loaded'[k] = Claimed(identity)'[k]
      BY <1>5, <2>1, <2>4, <3>1, <3>2 DEF Inputs, InTree
    <3>4. \A k \in {"model", "prompts", "catalog"} : current'[k] = Claimed(identity)'[k]
      BY <2>4, <3>1, <3>2, WorldStays DEF Inputs, InTree
    <3> QED BY <2>3, <3>3, <3>4, WorldStays DEF Agreed
  <2>8. Preparing' BY <1>6, <2>3, WorldStays DEF Preparing
  <2> QED BY <1>1, <1>2, <1>3, <1>5, <2>3, <2>6, <2>7, <2>8, SavedStaysBound, WorldStays
          DEF InputsSound, Identified, CheckpointInv, Places
<1>7. CASE ~Inherits
  <2>1. at' = "hashing" /\ identity' = identity BY <1>7 DEF Probe
  <2>2. /\ identity \in Identities /\ identity.dataset = Absent
        /\ ConfigSound(identity.config)
        /\ \A k \in {"source", "settings", "profile"} :
             loaded[k] = identity.config.inputs[k]
        /\ ~raced => \A k \in {"prompts", "catalog"} :
                       current[k] = identity.config.inputs[k]
    BY <1>2, <1>7 DEF CheckpointInv, InputsSound, Preparing
  <2>3. current["model"] = identity.config.inputs["model"]
    BY <1>7 DEF Probe, Expected
  <2>4. ConfigSound(identity.config)'
    BY <2>1, <2>2, WorldStays DEF ConfigSound, Committed
  <2>5. Preparing'
    BY <1>5, <1>7, <2>1, <2>2, <2>3, <2>4, WorldStays DEF Preparing, Inputs, InTree
  <2> QED BY <1>1, <1>2, <1>3, <1>5, <2>1, <2>5, SavedStaysBound, WorldStays
          DEF InputsSound, Identified, CheckpointInv, Places
<1> QED BY <1>6, <1>7

LEMMA HashKeepsInv == ASSUME CheckpointInv, SameWorld, Hash PROVE CheckpointInv'
<1>1. DiskSound' /\ Saved' = Saved BY DiskStays DEF Hash
<1>2. /\ at = "hashing" /\ at' = "identifying" /\ Fresh
      /\ UNCHANGED <<rows, pending, position, disk, container, loaded>>
  BY DEF Hash, CheckpointInv, MemorySound, Unidentified
<1>3. MemorySound'
  BY <1>2 DEF MemorySound, Fresh, Unidentified, Identified
<1>4. ~Inherits BY <1>2 DEF CheckpointInv, InputsSound, Preparing
<1> DEFINE inputs == identity.config.inputs
<1>5. /\ identity \in Identities /\ ConfigSound(identity.config)
      /\ \A k \in {"source", "settings", "profile"} : loaded[k] = inputs[k]
      /\ ~raced => \A k \in {"prompts", "catalog"} : current[k] = inputs[k]
      /\ ~raced => loaded["dataset"] = current["dataset"] /\ current["model"] = inputs["model"]
  BY <1>2, <1>4 DEF CheckpointInv, InputsSound, Preparing
<1>6. current["dataset"] \in Versions
  BY DEF CheckpointInv, WorldSound, Inputs, InTree
<1>7. identity' = [config |-> identity.config, dataset |-> current["dataset"]]
      /\ identity' \in Identities
  BY <1>5, <1>6 DEF Hash, Identities
<1>8. identity'.config = identity.config /\ identity'.dataset = current["dataset"]
  BY <1>7
<1>9. IdentitySound(identity)'
  BY <1>5, <1>6, <1>7, <1>8, WorldStays DEF IdentitySound, ConfigSound, Committed
<1>10. ASSUME ~raced PROVE Agreed(identity)'
  <2>1. Recorded = Inputs BY <1>4 DEF Recorded
  <2>2. \A k \in Recorded :
          Claimed(identity)'[k] = IF k = "dataset" THEN current["dataset"] ELSE inputs[k]
    BY <1>8, WorldStays DEF Claimed
  <2> HIDE DEF inputs
  <2>3. \A k \in Recorded \ {"model", "prompts", "catalog"} :
          loaded'[k] = Claimed(identity)'[k]
    BY <1>2, <1>5, <1>10, <2>1, <2>2 DEF Inputs, InTree
  <2>4. \A k \in {"model", "prompts", "catalog"} : current'[k] = Claimed(identity)'[k]
    BY <1>5, <1>10, <2>1, <2>2, WorldStays DEF Inputs, InTree
  <2> QED BY <1>2, <2>3, <2>4, WorldStays DEF Agreed
<1>11. Preparing' BY <1>2, <1>4, WorldStays DEF Preparing
<1>12. loaded' \in [Inputs -> Versions \cup {Absent}] BY <1>2 DEF CheckpointInv, InputsSound
<1>13. InputsSound'
  BY <1>2, <1>9, <1>10, <1>11, <1>12, SavedStaysBound, WorldStays DEF InputsSound, Identified
<1> QED BY <1>1, <1>2, <1>3, <1>13, WorldStays DEF CheckpointInv, Places

LEMMA IdentifyKeepsInv == ASSUME CheckpointInv, SameWorld, Identify PROVE CheckpointInv'
<1>1. /\ at = "identifying" /\ at' = "loading" /\ Fresh
      /\ UNCHANGED <<rows, pending, position, identity, container, loaded>>
      /\ disk' = [disk EXCEPT !["meta"] = identity]
      /\ IdentitySound(identity)
  BY DEF Identify, memory, CheckpointInv, MemorySound, InputsSound, Unidentified
<1>2. identity # Absent BY <1>1, FilesAssumption DEF IdentitySound
<1>3. /\ DOMAIN disk' = Files /\ disk'["meta"] = identity
      /\ \A f \in Files \ {"meta"} : disk'[f] = disk[f]
  BY <1>1, FileNames DEF CheckpointInv, DiskSound
<1>4. Saved' = Saved BY <1>3, FileNames DEF Saved
<1>5. disk["meta"] = Absent \/ disk["meta"] = identity
  BY <1>1 DEF Identify, Unacceptable
<1>6. disk["meta"] = Absent => Saved = <<>>
  BY FileNames DEF CheckpointInv, DiskSound, Saved
<1>7. IdentitySound(identity)'
  BY <1>1, WorldStays DEF IdentitySound, ConfigSound, Committed
<1>8. IdentitySound(disk["meta"])'
  BY <1>1, <1>3, WorldStays DEF IdentitySound, ConfigSound, Committed
<1>9. DiskSound'
  <2>1. InOrder(Saved)' BY <1>4 DEF CheckpointInv, DiskSound, InOrder
  <2>2. disk'["checkpoint"] # Absent => disk'["checkpoint"] \in Seq(Rows)
    BY <1>3, FileNames DEF CheckpointInv, DiskSound
  <2>3. \A f \in Outputs : disk'[f] # Absent =>
          \/ disk'[f] = Torn /\ f \in Range(Extras)
          \/ disk'[f] = Saved' /\ Complete(Saved)'
    BY <1>3, <1>4, FileNames DEF CheckpointInv, DiskSound, Complete
  <2>4. ASSUME disk'["summary"] # Absent, NEW f \in Range(Reports) PROVE disk'[f] # Absent
    <3>1. disk'[f] = disk[f] /\ disk'["summary"] = disk["summary"] BY <1>3, FileNames
    <3> QED BY <2>4, <3>1 DEF CheckpointInv, DiskSound
  <2> QED BY <1>2, <1>3, <1>8, <2>1, <2>2, <2>3, <2>4 DEF DiskSound
<1>10. MemorySound'
  BY <1>1, <1>2, <1>3 DEF MemorySound, Fresh, Unidentified, Identified
<1>11. ~raced => \A i \in 1..Len(Saved') : Bound(Saved[i], disk["meta"])'
  <2>1. CASE disk["meta"] = Absent BY <1>4, <1>6, <2>1
  <2>2. CASE disk["meta"] = identity
    BY <1>3, <1>4, <2>2, WorldStays DEF CheckpointInv, InputsSound, Bound, Claimed
  <2> QED BY <1>5, <2>1, <2>2
<1>12. ~raced => Agreed(identity)'
  BY <1>1, WorldStays DEF CheckpointInv, InputsSound, Agreed, Claimed
<1>13. InputsSound'
  <2>1. Preparing' BY <1>1 DEF Preparing
  <2> QED BY <1>1, <1>7, <1>11, <1>12, <2>1, WorldStays
          DEF CheckpointInv, InputsSound, Identified
<1> QED BY <1>1, <1>9, <1>10, <1>13, WorldStays DEF CheckpointInv, Places

LEMMA LoadKeepsInv == ASSUME CheckpointInv, SameWorld, Load PROVE CheckpointInv'
<1>1. DiskSound' /\ Saved' = Saved BY DiskStays DEF Load
<1>2. /\ at = "loading" /\ Fresh /\ rows' = Saved
      /\ at' = IF Inherits /\ Saved = <<>> THEN "inheriting" ELSE "building"
      /\ UNCHANGED <<pending, position, disk, identity, loaded, container>>
      /\ identity = disk["meta"] /\ disk["meta"] # Absent
  BY DEF Load, CheckpointInv, MemorySound, Unidentified, Identified
<1>3. MemorySound'
  BY <1>1, <1>2, WorldStays DEF MemorySound, Fresh, Unidentified, Identified
<1>4. IdentitySound(identity)'
  BY <1>2, WorldStays DEF CheckpointInv, InputsSound, Identified, IdentitySound, ConfigSound,
                          Committed
<1>5. ~raced => Agreed(identity)'
  BY <1>2, WorldStays DEF CheckpointInv, InputsSound, Agreed, Claimed
<1>6. InputsSound'
  <2>1. Preparing' BY <1>2 DEF Preparing
  <2> QED BY <1>2, <1>4, <1>5, <2>1, SavedStaysBound, WorldStays
          DEF CheckpointInv, InputsSound, Identified
<1> QED BY <1>1, <1>2, <1>3, <1>6, WorldStays DEF CheckpointInv, Places

LEMMA InheritKeepsInv == ASSUME CheckpointInv, SameWorld, Inherit PROVE CheckpointInv'
<1>1. /\ at = "inheriting" /\ at' = "building" /\ Fresh /\ Inherits /\ Saved = <<>>
      /\ UNCHANGED <<pending, position, identity, loaded, container>>
      /\ rows' = Inherited /\ disk' = [disk EXCEPT !["checkpoint"] = Inherited]
      /\ identity = disk["meta"] /\ disk["meta"] # Absent
  BY DEF Inherit, CheckpointInv, MemorySound, Identified
<1>2. /\ DOMAIN disk' = Files /\ disk'["checkpoint"] = Inherited
      /\ \A f \in Files \ {"checkpoint"} : disk'[f] = disk[f]
  BY <1>1, FileNames DEF CheckpointInv, DiskSound
<1>3. Inherited # Absent /\ Saved' = Inherited
  <2>1. Inherited # Absent BY InheritedProperties, FilesAssumption
  <2> QED BY <1>2, <2>1 DEF Saved
<1>4. disk'["meta"] = disk["meta"] BY <1>2, FileNames
<1>5. IdentitySound(identity)' /\ IdentitySound(disk["meta"])'
  BY <1>1, <1>4, WorldStays DEF CheckpointInv, InputsSound, Identified, IdentitySound,
                                ConfigSound, Committed
<1>6. DiskSound'
  <2>1. InOrder(Saved)' BY <1>3, InheritedProperties DEF InOrder
  <2>2. ASSUME NEW f \in Outputs, disk'[f] # Absent
        PROVE  \/ disk'[f] = Torn /\ f \in Range(Extras)
               \/ disk'[f] = Saved' /\ Complete(Saved)'
    <3>1. disk'[f] = disk[f] BY <1>2, FileNames
    <3>2. \/ disk[f] = Torn /\ f \in Range(Extras)
          \/ disk[f] = <<>> /\ Complete(<<>>)
      BY <1>1, <2>2, <3>1 DEF CheckpointInv, DiskSound
    <3>3. Complete(<<>>) => Corpus = {} BY DEF Complete, SamplesOf
    <3> QED BY <1>3, <3>1, <3>2, <3>3, InheritedProperties DEF Complete
  <2>3. ASSUME disk'["summary"] # Absent, NEW f \in Range(Reports) PROVE disk'[f] # Absent
    <3>1. disk'[f] = disk[f] /\ disk'["summary"] = disk["summary"] BY <1>2, FileNames
    <3> QED BY <2>3, <3>1 DEF CheckpointInv, DiskSound
  <2> QED BY <1>1, <1>2, <1>4, <1>5, <2>1, <2>2, <2>3, InheritedProperties DEF DiskSound
<1>7. MemorySound'
  BY <1>1, <1>3, <1>4 DEF MemorySound, Fresh, Unidentified, Identified
<1>8. ~raced => Agreed(identity)'
  BY <1>1, WorldStays DEF CheckpointInv, InputsSound, Agreed, Claimed
<1>9. \A i \in 1..Len(Saved') : Bound(Saved[i], disk["meta"])'
  BY <1>3, InheritedProperties DEF Bound
<1>10. InputsSound'
  <2>1. Preparing' BY <1>1 DEF Preparing
  <2> QED BY <1>1, <1>5, <1>8, <1>9, <2>1, WorldStays
          DEF CheckpointInv, InputsSound, Identified
<1> QED BY <1>1, <1>6, <1>7, <1>10, WorldStays DEF CheckpointInv, Places

LEMMA SavedFacts ==
  ASSUME CheckpointInv
  PROVE  /\ Saved \in Seq(Rows) /\ Len(Saved) \in Nat /\ InOrder(Saved) /\ Distinct(Saved)
         /\ SamplesOf(Saved) \subseteq Corpus
<1>1. Saved \in Seq(Rows) BY DEF CheckpointInv, DiskSound, Saved
<1>2. InOrder(Saved) BY DEF CheckpointInv, DiskSound
<1> QED BY <1>1, <1>2, RowFacts, InOrderIsDistinct

(* A batch that begins.                                                     *)
LEMMA NextBatch ==
  ASSUME rows' = Saved', Saved' \in Seq(Rows), position' = 0,
         pending' \in Seq(Corpus), pending' # <<>>,
         {pending'[i] : i \in 1..Len(pending')} = Corpus \ SamplesOf(Saved'),
         \A i, j \in 1..Len(pending') : pending'[i] = pending'[j] => i = j
  PROVE  InFlight' /\ position' < Len(Batch')
<1>1. Batch' = BatchOf(pending') BY DEF Batch, BatchOf, Smaller
<1>2. Len(Batch') \in Nat /\ 0 < Len(Batch') BY <1>1, BatchProperties
<1>3. position' \in 0..Len(Batch') BY <1>2
<1>4. Len(Saved') \in Nat BY LenProperties
<1>5. Len(rows') = Len(Saved') + position' BY <1>4
<1>6. \A i \in 1..position' : rows'[Len(Saved') + i].sample = pending'[i] OBVIOUS
<1> QED BY <1>2, <1>3, <1>5, <1>6 DEF InFlight

LEMMA BuildKeepsInv == ASSUME CheckpointInv, SameWorld, Build PROVE CheckpointInv'
<1>1. DiskSound' /\ Saved' = Saved BY DiskStays DEF Build
<1>2. /\ at = "building" /\ rows = Saved /\ position = 0
      /\ at' = IF pending' = <<>> THEN "closing" ELSE "verifying"
      /\ container' = "open"
      /\ UNCHANGED <<rows, position, disk, identity>>
      /\ pending' = CorpusOrder(Corpus \ SamplesOf(rows))
      /\ identity = disk["meta"] /\ disk["meta"] # Absent
  BY DEF Build, CheckpointInv, MemorySound, Identified
<1> DEFINE missing == Corpus \ SamplesOf(Saved)
<1>3. missing \in SUBSET Corpus /\ pending' = CorpusOrder(missing) BY <1>2
<1> HIDE DEF missing
<1>4. /\ pending' \in Seq(Corpus)
      /\ {pending'[i] : i \in 1..Len(pending')} = missing
      /\ \A i, j \in 1..Len(pending') : pending'[i] = pending'[j] => i = j
      /\ pending' = <<>> <=> missing = {}
  BY <1>3, CorpusOrderProperties
<1> USE DEF missing
<1>5. MemorySound'
  <2>1. CASE pending' = <<>>
    <3>1. Complete(Saved)' BY <1>1, <1>4, <2>1, SavedFacts DEF Complete
    <3> QED BY <1>1, <1>2, <2>1, <3>1 DEF MemorySound, Unidentified, Identified
  <2>2. CASE pending' # <<>>
    <3>1. InFlight' /\ position' < Len(Batch')
      BY <1>1, <1>2, <1>4, <2>2, SavedFacts, NextBatch
    <3> QED BY <1>2, <2>2, <3>1 DEF MemorySound, Unidentified, Identified
  <2> QED BY <2>1, <2>2
<1>6. current \in [Inputs -> Versions] /\ loaded \in [Inputs -> Versions \cup {Absent}]
  BY DEF CheckpointInv, WorldSound, InputsSound
<1>7. /\ loaded' \in [Inputs -> Versions \cup {Absent}]
      /\ \A k \in {"prompts", "catalog"} : loaded'[k] = current[k]
      /\ \A k \in Inputs \ {"prompts", "catalog"} : loaded'[k] = loaded[k]
  BY <1>6 DEF Build, Inputs, InTree
<1>8. IdentitySound(identity)'
  BY <1>2, WorldStays DEF CheckpointInv, InputsSound, Identified, IdentitySound, ConfigSound,
                          Committed
<1>9. ASSUME ~raced PROVE Agreed(identity)'
  <2>1. Agreed(identity) BY <1>2, <1>9 DEF CheckpointInv, InputsSound
  <2>2. Recorded \subseteq Inputs /\ Recorded' = Recorded
    BY WorldStays DEF Recorded
  <2>3. Claimed(identity)' = Claimed(identity) BY <1>2, <2>2 DEF Claimed
  <2>4. \A k \in Recorded \ {"model", "prompts", "catalog"} :
          loaded'[k] = Claimed(identity)'[k]
    BY <1>7, <2>1, <2>2, <2>3 DEF Agreed
  <2>5. current'["model"] = Claimed(identity)'["model"]
    BY <2>1, <2>3, WorldStays DEF Agreed
  <2>6. \A k \in {"prompts", "catalog"} :
          loaded'[k] = Claimed(identity)'[k] /\ current'[k] = Claimed(identity)'[k]
    BY <1>2, <1>7, <2>1, <2>3, WorldStays DEF Agreed
  <2> QED BY <2>2, <2>4, <2>5, <2>6 DEF Agreed
<1>10. ASSUME ~raced PROVE \A i \in 1..Len(rows') : Bound(rows[i], disk["meta"])'
  BY <1>1, <1>2, <1>10, SavedStaysBound, WorldStays
<1>11. InputsSound'
  <2>1. Preparing' BY <1>2 DEF Preparing
  <2> QED BY <1>2, <1>7, <1>8, <1>9, <1>10, <2>1, SavedStaysBound, WorldStays
          DEF InputsSound, Identified
<1> QED BY <1>1, <1>2, <1>5, <1>11, WorldStays DEF CheckpointInv, Places

(* The part of a list of samples from one place up to another.              *)
LEMMA PartProperties ==
  ASSUME NEW list \in Seq(Corpus), NEW from \in Nat, NEW upto \in Nat,
         from < upto, upto <= Len(list)
  PROVE  LET part == SubSeq(list, from + 1, upto)
         IN  /\ part \in Seq(Corpus) /\ Len(part) = upto - from
             /\ DOMAIN part = 1..(upto - from)
             /\ \A i \in 1..(upto - from) : part[i] = list[from + i] /\ part[i] \in Corpus
<1>1. Len(list) \in Nat /\ \A i \in 1..Len(list) : list[i] \in Corpus
  BY LenProperties, ElementOfSeq
<1>2. from + 1 \in 1..Len(list) /\ upto \in 1..Len(list) BY <1>1
<1> DEFINE part == SubSeq(list, from + 1, upto)
<1>3. \A i \in (from + 1)..upto : list[i] \in Corpus BY <1>1, <1>2
<1>4. /\ part \in Seq(Corpus) /\ Len(part) = upto - (from + 1) + 1
      /\ \A i \in 1..(upto - (from + 1) + 1) : part[i] = list[from + 1 + i - 1]
  BY <1>1, <1>2, <1>3, SubSeqProperties
<1>5. upto - (from + 1) + 1 = upto - from OBVIOUS
<1> HIDE DEF part
<1>6. Len(part) = upto - from /\ DOMAIN part = 1..(upto - from)
  BY <1>4, <1>5, LenProperties
<1>7. ASSUME NEW i \in 1..(upto - from) PROVE part[i] = list[from + i] /\ part[i] \in Corpus
  <2>1. from + 1 + i - 1 = from + i /\ from + i \in 1..Len(list) BY <1>1
  <2>2. part[i] = list[from + 1 + i - 1] BY <1>4, <1>5
  <2> QED BY <1>1, <2>1, <2>2
<1> QED BY <1>4, <1>6, <1>7 DEF part

LEMMA VerifyKeepsInv == ASSUME CheckpointInv, SameWorld, Verify PROVE CheckpointInv'
<1>1. DiskSound' /\ Saved' = Saved BY DiskStays DEF Verify
<1>2. /\ at = "verifying" /\ InFlight /\ position < Len(Batch)
      /\ UNCHANGED <<pending, disk, identity, loaded, container>>
      /\ identity = disk["meta"] /\ disk["meta"] # Absent
  BY DEF Verify, CheckpointInv, MemorySound, Identified
<1> DEFINE group == IF Inherits THEN BatchSize ELSE Concurrency
           upto == Smaller(position + group, Len(Batch))
           given == SubSeq(Batch, position + 1, upto)
           under == [loaded EXCEPT !["model"] = current["model"]]
           made(outcome) == [i \in DOMAIN given |->
                               [sample |-> given[i], outcome |-> outcome[i], under |-> under]]
<1>3. PICK outcome \in [DOMAIN given -> Outcomes] : rows' = rows \o made(outcome)
  BY DEF Verify
<1>4. position' = position + Len(given) BY DEF Verify
<1>5. at' = IF position' = Len(Batch) THEN "saving" ELSE "verifying" BY DEF Verify
<1>6. /\ Batch = BatchOf(pending) /\ Batch' = Batch /\ Batch \in Seq(Corpus)
      /\ Len(Batch) \in Nat /\ Len(Batch) <= Len(pending) /\ Len(pending) \in Nat
      /\ \A i \in 1..Len(Batch) : Batch[i] = pending[i]
  <2>1. Batch = BatchOf(pending) BY DEF Batch, BatchOf
  <2>2. Batch' = Batch BY <1>2 DEF Batch
  <2> QED BY <1>2, <2>1, <2>2, BatchProperties DEF InFlight
<1>7. position \in Nat /\ group \in Nat /\ 0 < group BY <1>2, <1>6, CorpusAssumption DEF InFlight
<1> HIDE DEF group
<1>8. upto \in Nat /\ position < upto /\ upto <= Len(Batch) BY <1>2, <1>6, <1>7 DEF Smaller
<1> HIDE DEF upto
<1> DEFINE n == upto - position
<1>9. /\ Len(given) = n /\ DOMAIN given = 1..n
      /\ \A i \in 1..n : given[i] = Batch[position + i] /\ given[i] \in Corpus
  BY <1>6, <1>7, <1>8, PartProperties
<1>10. n \in Nat /\ position' = position + n BY <1>4, <1>7, <1>8, <1>9
<1> HIDE DEF given, n
<1>11. current \in [Inputs -> Versions] /\ loaded \in [Inputs -> Versions \cup {Absent}]
  BY DEF CheckpointInv, WorldSound, InputsSound
<1>12. under \in [Inputs -> Versions \cup {Absent}]
       /\ under["model"] = current["model"]
       /\ \A k \in Inputs \ {"model"} : under[k] = loaded[k]
  BY <1>11 DEF Inputs
<1> HIDE DEF under
<1> DEFINE new == made(outcome)
<1>13. \A i \in 1..n : /\ new[i].sample = given[i] /\ new[i].under = under
                       /\ new[i] \in Rows
  BY <1>3, <1>9, <1>12 DEF Rows
<1>14. new \in Seq(Rows) /\ Len(new) = n
  <2>1. new \in [1..n -> Rows] BY <1>9, <1>13
  <2> QED BY <1>10, <2>1, SequenceOf
<1> HIDE DEF new, made
<1> DEFINE m == Len(rows)
<1>15. /\ rows \in Seq(Rows) /\ m \in Nat /\ m = Len(Saved) + position
       /\ \A i \in 1..Len(Saved) : rows[i] = Saved[i]
       /\ \A i \in 1..position : rows[Len(Saved) + i].sample = pending[i]
       /\ Saved \in Seq(Rows) /\ Len(Saved) \in Nat
  BY <1>2, SavedFacts, LenProperties DEF InFlight
<1>16. /\ rows' \in Seq(Rows) /\ Len(rows') = m + n
       /\ \A i \in 1..m : rows'[i] = rows[i]
       /\ \A i \in 1..n : rows'[m + i] = new[i]
  <2>1. rows' = rows \o new BY <1>3 DEF new
  <2>2. rows' \in Seq(Rows) /\ Len(rows') = m + n
        /\ \A i \in 1..(m + n) : rows'[i] = IF i <= m THEN rows[i] ELSE new[i - m]
    BY <1>14, <1>15, <2>1, ConcatProperties
  <2> HIDE DEF m
  <2>3. \A i \in 1..m : rows'[i] = rows[i] BY <1>10, <1>15, <2>2
  <2>4. ASSUME NEW i \in 1..n PROVE rows'[m + i] = new[i]
    <3>1. m + i \in 1..(m + n) /\ ~(m + i <= m) /\ (m + i) - m = i BY <1>10, <1>15
    <3> QED BY <2>2, <3>1
  <2> QED BY <2>2, <2>3, <2>4
<1> HIDE DEF m
<1>17. InFlight'
  <2>1. position' \in 0..Len(Batch') BY <1>6, <1>7, <1>8, <1>10 DEF n
  <2>2. Len(rows') = Len(Saved') + position' BY <1>1, <1>7, <1>10, <1>15, <1>16
  <2>3. \A i \in 1..Len(Saved') : rows'[i] = Saved'[i] BY <1>1, <1>7, <1>15, <1>16
  <2>4. ASSUME NEW i \in 1..position' PROVE rows'[Len(Saved') + i].sample = pending'[i]
    <3>1. CASE i <= position
      <4>1. i \in 1..position /\ Len(Saved) + i \in 1..m BY <1>7, <1>10, <1>15, <3>1
      <4> QED BY <1>1, <1>2, <1>15, <1>16, <4>1
    <3>2. CASE ~(i <= position)
      <4> DEFINE j == i - position
      <4>1. j \in 1..n /\ Len(Saved) + i = m + j /\ i = position + j
            /\ position + j \in 1..Len(Batch)
        BY <1>6, <1>7, <1>8, <1>10, <1>15, <3>2 DEF n
      <4> HIDE DEF j
      <4>2. rows'[Len(Saved) + i].sample = given[j] BY <1>13, <1>16, <4>1
      <4>3. given[j] = pending[i] BY <1>6, <1>9, <4>1
      <4> QED BY <1>1, <1>2, <4>2, <4>3
    <3> QED BY <3>1, <3>2
  <2>5. {pending'[i] : i \in 1..Len(pending')} = Corpus \ SamplesOf(Saved')
    BY <1>1, <1>2 DEF InFlight
  <2>6. /\ pending' \in Seq(Corpus) /\ pending' # <<>>
        /\ \A i, j \in 1..Len(pending') : pending'[i] = pending'[j] => i = j
    BY <1>2 DEF InFlight
  <2> QED BY <1>16, <2>1, <2>2, <2>3, <2>4, <2>5, <2>6 DEF InFlight
<1>18. MemorySound'
  <2>1. position' < Len(Batch') \/ position' = Len(Batch')
    BY <1>6, <1>7, <1>8, <1>10 DEF n
  <2> QED BY <1>2, <1>5, <1>6, <1>17, <2>1 DEF MemorySound, Unidentified, Identified
<1>19. IdentitySound(identity)'
  BY <1>2, WorldStays DEF CheckpointInv, InputsSound, Identified, IdentitySound, ConfigSound,
                          Committed
<1>20. ASSUME ~raced
       PROVE  Agreed(identity)' /\ \A i \in 1..Len(rows') : Bound(rows[i], disk["meta"])'
  <2>1. Agreed(identity) BY <1>2, <1>20 DEF CheckpointInv, InputsSound
  <2>2. Recorded \subseteq Inputs /\ Recorded' = Recorded BY WorldStays DEF Recorded
  <2>3. Claimed(identity)' = Claimed(identity) /\ Claimed(disk["meta"])' = Claimed(identity)
        /\ Claimed(disk["meta"]) = Claimed(identity)
    BY <1>2, <2>2 DEF Claimed
  <2>4. Agreed(identity)' BY <1>2, <1>5, <2>1, <2>2, <2>3, WorldStays DEF Agreed
  <2>5. [k \in Recorded |-> under[k]] = Claimed(identity)
    <3>1. \A k \in Recorded : under[k] = Claimed(identity)[k]
      BY <1>2, <1>12, <2>1, <2>2 DEF Agreed
    <3> QED BY <3>1 DEF Claimed
  <2>6. \A i \in 1..m :
          rows[i].under = Parent \/ [k \in Recorded |-> rows[i].under[k]] = Claimed(identity)
    BY <1>2, <1>20, <2>3 DEF CheckpointInv, InputsSound, Bound, m
  <2>7. ASSUME NEW i \in 1..Len(rows') PROVE Bound(rows[i], disk["meta"])'
    <3>1. \/ rows'[i].under = Parent
          \/ [k \in Recorded |-> rows'[i].under[k]] = Claimed(identity)
      <4>1. CASE i <= m
        <5>1. i \in 1..m BY <1>10, <1>15, <1>16, <4>1
        <5> QED BY <1>16, <2>6, <5>1
      <4>2. CASE ~(i <= m)
        <5>1. i - m \in 1..n /\ m + (i - m) = i BY <1>10, <1>15, <1>16, <4>2
        <5>2. rows'[i].under = under BY <1>13, <1>16, <5>1
        <5> QED BY <2>5, <5>2
      <4> QED BY <4>1, <4>2
    <3> QED BY <2>2, <2>3, <3>1 DEF Bound
  <2> QED BY <2>4, <2>7
<1>21. InputsSound'
  <2>1. Preparing' BY <1>5 DEF Preparing
  <2>2. loaded' \in [Inputs -> Versions \cup {Absent}] BY <1>2, <1>11
  <2>3. ~raced' => \A i \in 1..Len(Saved') : Bound(Saved[i], disk["meta"])'
    BY <1>2, SavedStaysBound
  <2>4. raced' = raced BY WorldStays
  <2> QED BY <1>19, <1>20, <2>1, <2>2, <2>3, <2>4 DEF InputsSound
<1> QED BY <1>1, <1>2, <1>5, <1>18, <1>21, WorldStays DEF CheckpointInv, Places

(* A verified batch brings new samples only, each once.                     *)
LEMMA SavingFacts ==
  ASSUME CheckpointInv, at = "saving"
  PROVE  LET s == Len(Saved)
             b == Len(Batch)
             p == Len(pending)
         IN  /\ b \in Nat /\ 0 < b /\ b <= p /\ b <= BatchSize /\ p \in Nat /\ s \in Nat
             /\ pending \in Seq(Corpus)
             /\ \A i \in 1..p : pending[i] \in Corpus \ SamplesOf(Saved)
             /\ \A i, j \in 1..p : pending[i] = pending[j] => i = j
             /\ {pending[i] : i \in 1..p} = Corpus \ SamplesOf(Saved)
             /\ rows \in Seq(Rows) /\ Len(rows) = s + b
             /\ \A i \in 1..s : rows[i] = Saved[i]
             /\ \A i \in 1..b : rows[s + i].sample = pending[i]
             /\ \A i \in 1..(s + b) :
                  \/ i \in 1..s /\ rows[i].sample = Saved[i].sample
                  \/ i - s \in 1..b /\ i - s \in 1..p /\ rows[i].sample = pending[i - s]
             /\ Distinct(rows)
<1>1. InFlight /\ position = Len(Batch) BY DEF CheckpointInv, MemorySound
<1> DEFINE s == Len(Saved)
           b == Len(Batch)
           p == Len(pending)
<1>2. /\ b \in Nat /\ 0 < b /\ b <= p /\ p \in Nat /\ b <= BatchSize
      /\ pending \in Seq(Corpus) /\ s \in Nat
      /\ \A i \in 1..p : pending[i] \in Corpus \ SamplesOf(Saved)
      /\ \A i, j \in 1..p : pending[i] = pending[j] => i = j
      /\ {pending[i] : i \in 1..p} = Corpus \ SamplesOf(Saved)
  <2>1. Batch = BatchOf(pending) BY DEF Batch, BatchOf
  <2>2. /\ pending \in Seq(Corpus) /\ pending # <<>>
        /\ {pending[i] : i \in 1..p} = Corpus \ SamplesOf(Saved)
        /\ \A i, j \in 1..p : pending[i] = pending[j] => i = j
    BY <1>1 DEF InFlight
  <2>3. \A i \in 1..p : pending[i] \in Corpus \ SamplesOf(Saved) BY <2>2
  <2> QED BY <2>1, <2>2, <2>3, BatchProperties, SavedFacts
<1>3. /\ rows \in Seq(Rows) /\ Len(rows) = s + b
      /\ \A i \in 1..s : rows[i] = Saved[i]
      /\ \A i \in 1..b : rows[s + i].sample = pending[i]
  BY <1>1 DEF InFlight
<1>4. /\ DOMAIN Saved = 1..s /\ Distinct(Saved) /\ Saved \in Seq(Rows)
      /\ SamplesOf(Saved) \subseteq Corpus
  BY SavedFacts, RowFacts
<1>5. \A i \in 1..s : Saved[i].sample \in SamplesOf(Saved) BY <1>4 DEF SamplesOf
<1>6. \A i, j \in 1..s : Saved[i].sample = Saved[j].sample => i = j BY <1>4 DEF Distinct
<1> HIDE DEF s, b, p
<1>7. \A i \in 1..(s + b) :
        \/ i \in 1..s /\ rows[i].sample = Saved[i].sample
        \/ i - s \in 1..b /\ i - s \in 1..p /\ rows[i].sample = pending[i - s]
  <2> SUFFICES ASSUME NEW i \in 1..(s + b), i \notin 1..s
               PROVE  i - s \in 1..b /\ i - s \in 1..p /\ rows[i].sample = pending[i - s]
    BY <1>3
  <2>1. i - s \in 1..b /\ i - s \in 1..p /\ s + (i - s) = i BY <1>2
  <2> QED BY <1>3, <2>1
<1>8. Distinct(rows)
  <2> SUFFICES ASSUME NEW i \in 1..(s + b), NEW j \in 1..(s + b),
                      rows[i].sample = rows[j].sample
               PROVE  i = j
    BY <1>3 DEF Distinct
  <2>1. CASE i \in 1..s /\ j \in 1..s BY <1>3, <1>6, <2>1
  <2>2. CASE i \in 1..s /\ j \notin 1..s
    <3>1. rows[i].sample \in SamplesOf(Saved) BY <1>3, <1>5, <2>2
    <3>2. rows[j].sample \notin SamplesOf(Saved) BY <1>2, <1>7, <2>2
    <3> QED BY <3>1, <3>2
  <2>3. CASE i \notin 1..s /\ j \in 1..s
    <3>1. rows[j].sample \in SamplesOf(Saved) BY <1>3, <1>5, <2>3
    <3>2. rows[i].sample \notin SamplesOf(Saved) BY <1>2, <1>7, <2>3
    <3> QED BY <3>1, <3>2
  <2>4. CASE i \notin 1..s /\ j \notin 1..s
    <3>1. /\ i - s \in 1..p /\ rows[i].sample = pending[i - s]
          /\ j - s \in 1..p /\ rows[j].sample = pending[j - s]
      BY <1>7, <2>4
    <3>2. i - s = j - s BY <1>2, <3>1
    <3> QED BY <1>2, <3>2
  <2> QED BY <2>1, <2>2, <2>3, <2>4
<1> QED BY <1>2, <1>3, <1>7, <1>8 DEF s, b, p

LEMMA SaveKeepsInv == ASSUME CheckpointInv, SameWorld, Save PROVE CheckpointInv'
<1>1. /\ at = "saving" /\ InFlight /\ position = Len(Batch)
      /\ UNCHANGED <<identity, loaded, container>>
      /\ rows' = OrderRows(rows) /\ disk' = [disk EXCEPT !["checkpoint"] = rows']
      /\ pending' = SubSeq(pending, Len(Batch) + 1, Len(pending)) /\ position' = 0
      /\ at' = IF pending' = <<>> THEN "closing" ELSE "verifying"
      /\ identity = disk["meta"] /\ disk["meta"] # Absent
  BY DEF Save, CheckpointInv, MemorySound, Identified
<1> DEFINE s == Len(Saved)
           b == Len(Batch)
           p == Len(pending)
<1>2. /\ b \in Nat /\ 0 < b /\ b <= p /\ p \in Nat /\ s \in Nat
      /\ pending \in Seq(Corpus)
      /\ \A i \in 1..p : pending[i] \in Corpus \ SamplesOf(Saved)
      /\ \A i, j \in 1..p : pending[i] = pending[j] => i = j
      /\ {pending[i] : i \in 1..p} = Corpus \ SamplesOf(Saved)
  BY <1>1, SavingFacts
<1>3. /\ rows \in Seq(Rows) /\ Len(rows) = s + b
      /\ \A i \in 1..s : rows[i] = Saved[i]
      /\ \A i \in 1..b : rows[s + i].sample = pending[i]
  BY <1>1, SavingFacts
<1>4. \A i \in 1..(s + b) :
        \/ i \in 1..s /\ rows[i].sample = Saved[i].sample
        \/ i - s \in 1..b /\ i - s \in 1..p /\ rows[i].sample = pending[i - s]
  BY <1>1, SavingFacts
<1>5. Distinct(rows) BY <1>1, SavingFacts
<1>6. /\ DOMAIN Saved = 1..s /\ Distinct(Saved) /\ Saved \in Seq(Rows)
      /\ SamplesOf(Saved) \subseteq Corpus
  BY SavedFacts, RowFacts
<1>7. \A i \in 1..s : Saved[i].sample \in SamplesOf(Saved) BY <1>6 DEF SamplesOf
<1> HIDE DEF s, b, p
<1>8. /\ rows' \in Seq(Rows) /\ Len(rows') = s + b /\ InOrder(rows')
      /\ Range(rows') = Range(rows) /\ SamplesOf(rows') = SamplesOf(rows)
  BY <1>1, <1>3, <1>5, OrderRowsProperties
<1>9. SamplesOf(rows) = SamplesOf(Saved) \cup {pending[i] : i \in 1..b}
  <2>1. DOMAIN rows = 1..(s + b) BY <1>3, RowFacts
  <2>2. SamplesOf(rows) \subseteq SamplesOf(Saved) \cup {pending[i] : i \in 1..b}
    <3> SUFFICES ASSUME NEW i \in 1..(s + b)
                 PROVE  rows[i].sample \in SamplesOf(Saved) \cup {pending[j] : j \in 1..b}
      BY <2>1 DEF SamplesOf
    <3> QED BY <1>7, <1>4
  <2>3. SamplesOf(Saved) \subseteq SamplesOf(rows)
    <3> SUFFICES ASSUME NEW i \in 1..s PROVE Saved[i].sample \in SamplesOf(rows)
      BY <1>6 DEF SamplesOf
    <3>1. i \in 1..(s + b) BY <1>2
    <3> QED BY <1>3, <2>1, <3>1 DEF SamplesOf
  <2>4. \A i \in 1..b : pending[i] \in SamplesOf(rows)
    <3> SUFFICES ASSUME NEW i \in 1..b PROVE pending[i] \in SamplesOf(rows) OBVIOUS
    <3>1. s + i \in 1..(s + b) BY <1>2
    <3> QED BY <1>3, <2>1, <3>1 DEF SamplesOf
  <2> QED BY <2>2, <2>3, <2>4
<1>10. /\ DOMAIN disk' = Files /\ disk'["checkpoint"] = rows'
       /\ \A f \in Files \ {"checkpoint"} : disk'[f] = disk[f]
  BY <1>1, FileNames DEF CheckpointInv, DiskSound
<1>11. Saved' = rows' /\ rows' # Absent BY <1>8, <1>10, FilesAssumption DEF Saved
<1>12. disk'["meta"] = disk["meta"] BY <1>10, FileNames
<1>13. IdentitySound(identity)' /\ IdentitySound(disk["meta"])'
  BY <1>1, <1>12, WorldStays DEF CheckpointInv, InputsSound, Identified, IdentitySound,
                                 ConfigSound, Committed
<1>14. ~Complete(Saved)
  <2>1. 1 \in 1..p BY <1>2
  <2> QED BY <1>2, <2>1 DEF Complete
<1>15. DiskSound'
  <2>1. InOrder(Saved)' BY <1>8, <1>11 DEF InOrder
  <2>2. ASSUME NEW f \in Outputs, disk'[f] # Absent
        PROVE  disk'[f] = Torn /\ f \in Range(Extras)
    <3>1. disk'[f] = disk[f] BY <1>10, FileNames
    <3> QED BY <1>14, <2>2, <3>1 DEF CheckpointInv, DiskSound
  <2>3. ASSUME disk'["summary"] # Absent, NEW f \in Range(Reports) PROVE disk'[f] # Absent
    <3>1. disk'[f] = disk[f] /\ disk'["summary"] = disk["summary"] BY <1>10, FileNames
    <3> QED BY <2>3, <3>1 DEF CheckpointInv, DiskSound
  <2> QED BY <1>1, <1>8, <1>10, <1>12, <1>13, <2>1, <2>2, <2>3 DEF DiskSound
<1>16. MemorySound'
  <2>1. CASE b = p
    <3>1. pending' = <<>> BY <1>1, <1>2, <2>1, SubSeqEmpty DEF b, p
    <3>2. SamplesOf(rows') = Corpus BY <1>2, <1>6, <1>8, <1>9, <2>1
    <3>3. Complete(Saved)' BY <1>11, <3>2 DEF Complete
    <3> QED BY <1>1, <1>11, <1>12, <3>1, <3>3 DEF MemorySound, Unidentified, Identified
  <2>2. CASE b < p
    <3> DEFINE rest == SubSeq(pending, b + 1, p)
    <3>1. /\ rest \in Seq(Corpus) /\ Len(rest) = p - b /\ DOMAIN rest = 1..(p - b)
          /\ \A i \in 1..(p - b) : rest[i] = pending[b + i]
      BY <1>2, <2>2, PartProperties DEF p
    <3>2. pending' = rest BY <1>1 DEF b, p
    <3> HIDE DEF rest
    <3>3. rest # <<>> BY <1>2, <2>2, <3>1, EmptySeq
    <3>4. \A i \in 1..(p - b) : b + i \in 1..p BY <1>2, <2>2
    <3>5. ASSUME NEW i \in 1..Len(rest), NEW j \in 1..Len(rest), rest[i] = rest[j] PROVE i = j
      <4>1. b + i = b + j BY <1>2, <3>1, <3>4, <3>5
      <4> QED BY <1>2, <3>1, <4>1
    <3>6. {rest[i] : i \in 1..Len(rest)} = Corpus \ SamplesOf(rows')
      <4>1. ASSUME NEW i \in 1..(p - b) PROVE rest[i] \in Corpus \ SamplesOf(rows')
        <5>1. rest[i] = pending[b + i] /\ b + i \in 1..p BY <3>1, <3>4
        <5>2. rest[i] \notin {pending[j] : j \in 1..b}
          <6> SUFFICES ASSUME NEW j \in 1..b, pending[j] = pending[b + i] PROVE FALSE
            BY <5>1
          <6>1. j \in 1..p /\ j # b + i BY <1>2
          <6> QED BY <1>2, <5>1, <6>1
        <5> QED BY <1>2, <1>8, <1>9, <5>1, <5>2
      <4>2. ASSUME NEW t \in Corpus \ SamplesOf(rows') PROVE \E i \in 1..(p - b) : rest[i] = t
        <5>1. PICK k \in 1..p : pending[k] = t BY <1>2, <1>8, <1>9
        <5>2. k \notin 1..b BY <1>8, <1>9, <4>2, <5>1
        <5>3. k - b \in 1..(p - b) /\ b + (k - b) = k BY <1>2, <5>2
        <5> QED BY <3>1, <5>1, <5>3
      <4> QED BY <3>1, <4>1, <4>2
    <3>7. InFlight' /\ position' < Len(Batch')
      <4>1. /\ pending' \in Seq(Corpus) /\ pending' # <<>>
            /\ \A i, j \in 1..Len(pending') : pending'[i] = pending'[j] => i = j
        BY <3>1, <3>2, <3>3, <3>5
      <4>2. {pending'[i] : i \in 1..Len(pending')} = Corpus \ SamplesOf(Saved')
        BY <1>11, <3>2, <3>6
      <4>3. rows' = Saved' /\ Saved' \in Seq(Rows) /\ position' = 0 BY <1>1, <1>8, <1>11
      <4> QED BY <4>1, <4>2, <4>3, NextBatch
    <3> QED BY <1>1, <1>12, <3>2, <3>3, <3>7 DEF MemorySound, Unidentified, Identified
  <2> QED BY <1>2, <2>1, <2>2
<1>17. ASSUME ~raced PROVE \A i \in 1..Len(rows') : Bound(rows[i], disk["meta"])'
  <2> SUFFICES ASSUME NEW i \in 1..Len(rows') PROVE Bound(rows[i], disk["meta"])' OBVIOUS
  <2>1. rows'[i] \in Range(rows') BY <1>8, RowFacts DEF Range
  <2>2. PICK j \in 1..Len(rows) : rows[j] = rows'[i]
    BY <1>3, <1>8, <2>1, RowFacts DEF Range
  <2>3. Bound(rows[j], disk["meta"])
    BY <1>1, <1>17 DEF CheckpointInv, InputsSound
  <2> QED BY <1>12, <2>2, <2>3, WorldStays DEF Bound, Claimed
<1>18. ASSUME ~raced, at' = "verifying" PROVE Agreed(identity)'
  <2>1. Agreed(identity) BY <1>1, <1>18 DEF CheckpointInv, InputsSound
  <2>2. Recorded' = Recorded BY WorldStays
  <2>3. Claimed(identity)' = Claimed(identity) BY <1>1, <2>2 DEF Claimed
  <2> QED BY <1>1, <1>18, <2>1, <2>2, <2>3, WorldStays DEF Agreed
<1>19. InputsSound'
  <2>1. Preparing' BY <1>1 DEF Preparing
  <2>2. loaded' \in [Inputs -> Versions \cup {Absent}] BY <1>1 DEF CheckpointInv, InputsSound
  <2>3. ~raced => \A i \in 1..Len(Saved') : Bound(Saved[i], disk["meta"])'
    BY <1>11, <1>17
  <2>4. at' \in {"verifying", "closing"} /\ raced' = raced BY <1>1, WorldStays
  <2> QED BY <1>13, <1>17, <1>18, <2>1, <2>2, <2>3, <2>4 DEF InputsSound
<1> QED BY <1>1, <1>15, <1>16, <1>19, WorldStays DEF CheckpointInv, Places

LEMMA CloseKeepsInv == ASSUME CheckpointInv, SameWorld, Close PROVE CheckpointInv'
<1>1. DiskSound' /\ Saved' = Saved BY DiskStays DEF Close
<1>2. /\ at = "closing" /\ at' = "counting" /\ container' = "closed"
      /\ rows = Saved /\ Complete(Saved) /\ pending = <<>>
      /\ UNCHANGED <<rows, pending, position, identity, loaded, disk>>
      /\ identity = disk["meta"] /\ disk["meta"] # Absent
  BY DEF Close, memory, CheckpointInv, MemorySound, Identified
<1>3. MemorySound' BY <1>1, <1>2 DEF MemorySound, Unidentified, Identified, Complete
<1>4. IdentitySound(identity)'
  BY <1>2, WorldStays DEF CheckpointInv, InputsSound, Identified, IdentitySound, ConfigSound,
                          Committed
<1>5. InputsSound'
  <2>1. Preparing' BY <1>2 DEF Preparing
  <2>2. loaded' \in [Inputs -> Versions \cup {Absent}] BY <1>2 DEF CheckpointInv, InputsSound
  <2> QED BY <1>2, <1>4, <2>1, <2>2, SavedStaysBound DEF InputsSound
<1> QED BY <1>1, <1>2, <1>3, <1>5, WorldStays DEF CheckpointInv, Places

LEMMA CountKeepsInv == ASSUME CheckpointInv, SameWorld, Count PROVE CheckpointInv'
<1>1. DiskSound' /\ Saved' = Saved BY DiskStays DEF Count
<1>2. /\ at = "counting" /\ at' = "reporting" /\ rows' = OrderRows(rows) /\ position' = 1
      /\ rows = Saved /\ Complete(Saved) /\ pending = <<>>
      /\ UNCHANGED <<pending, identity, loaded, disk, container>>
      /\ identity = disk["meta"] /\ disk["meta"] # Absent
  BY DEF Count, CheckpointInv, MemorySound, Identified
<1>3. rows' = Saved' BY <1>1, <1>2, SavedFacts, OrderRowsProperties
<1>4. MemorySound'
  <2>1. 1 \in 1..Len(Reports) /\ 1..(1 - 1) = {} BY FileNames
  <2> QED BY <1>1, <1>2, <1>3, <2>1 DEF MemorySound, Unidentified, Identified, Complete
<1>5. IdentitySound(identity)'
  BY <1>2, WorldStays DEF CheckpointInv, InputsSound, Identified, IdentitySound, ConfigSound,
                          Committed
<1>6. InputsSound'
  <2>1. Preparing' BY <1>2 DEF Preparing
  <2>2. loaded' \in [Inputs -> Versions \cup {Absent}] BY <1>2 DEF CheckpointInv, InputsSound
  <2> QED BY <1>2, <1>5, <2>1, <2>2, SavedStaysBound DEF InputsSound
<1> QED BY <1>1, <1>2, <1>4, <1>6, WorldStays DEF CheckpointInv, Places

(* A file computed from the complete checkpoint, whole or half written, may *)
(* replace another; the summary is the last one that is missing.            *)
LEMMA OutputKeepsDisk ==
  ASSUME CheckpointInv, SameWorld, Complete(Saved), disk["meta"] # Absent,
         NEW file \in Outputs, NEW content,
         content = Saved \/ (content = Torn /\ file \in Range(Extras)),
         disk' = [disk EXCEPT ![file] = content],
         file = "summary" => \A f \in Range(Reports) \ {"summary"} : disk[f] # Absent
  PROVE  /\ DiskSound' /\ Saved' = Saved /\ disk'["meta"] = disk["meta"]
         /\ disk'[file] = content /\ content # Absent
         /\ \A f \in Files \ {file} : disk'[f] = disk[f]
<1>1. file \in Files \ {"meta", "checkpoint"} /\ DOMAIN disk = Files
  BY FileNames DEF CheckpointInv, DiskSound
<1>2. /\ DOMAIN disk' = Files /\ disk'[file] = content
      /\ \A f \in Files \ {file} : disk'[f] = disk[f]
  BY <1>1
<1>3. disk'["meta"] = disk["meta"] /\ disk'["checkpoint"] = disk["checkpoint"]
  BY <1>1, <1>2, FileNames
<1>4. Saved' = Saved BY <1>3 DEF Saved
<1>5. content # Absent
  BY SavedFacts, FilesAssumption
<1>6. InOrder(Saved)' BY <1>4 DEF CheckpointInv, DiskSound, InOrder
<1>7. IdentitySound(disk["meta"])'
  BY <1>3, WorldStays DEF CheckpointInv, DiskSound, IdentitySound, ConfigSound, Committed
<1>8. disk'["checkpoint"] # Absent => disk'["checkpoint"] \in Seq(Rows)
  BY <1>3 DEF CheckpointInv, DiskSound
<1>9. ASSUME NEW f \in Outputs, disk'[f] # Absent
      PROVE  \/ disk'[f] = Torn /\ f \in Range(Extras)
             \/ disk'[f] = Saved' /\ Complete(Saved)'
  <2>1. Complete(Saved)' BY <1>4 DEF Complete
  <2>2. CASE f = file BY <1>2, <1>4, <2>1, <2>2
  <2>3. CASE f # file
    <3>1. disk'[f] = disk[f] BY <1>2, <2>3, FileNames
    <3> QED BY <1>4, <1>9, <2>1, <3>1 DEF CheckpointInv, DiskSound
  <2> QED BY <2>2, <2>3
<1>10. ASSUME disk'["summary"] # Absent, NEW f \in Range(Reports) PROVE disk'[f] # Absent
  <2>1. CASE f = file BY <1>2, <1>5, <2>1
  <2>2. CASE f # file
    <3>1. disk'[f] = disk[f] BY <1>2, <2>2, FileNames
    <3>2. disk[f] # Absent
      <4>1. CASE file = "summary" BY <2>2, <4>1
      <4>2. CASE file # "summary"
        <5>1. disk'["summary"] = disk["summary"] BY <1>2, <4>2, FileNames
        <5> QED BY <1>10, <5>1 DEF CheckpointInv, DiskSound
      <4> QED BY <4>1, <4>2
    <3> QED BY <3>1, <3>2
  <2> QED BY <2>1, <2>2
<1>11. DiskSound' BY <1>2, <1>3, <1>6, <1>7, <1>8, <1>9, <1>10 DEF DiskSound
<1> QED BY <1>2, <1>3, <1>4, <1>5, <1>11

LEMMA ReportKeepsInv == ASSUME CheckpointInv, SameWorld, Report PROVE CheckpointInv'
<1>1. /\ at = "reporting" /\ rows = Saved /\ Complete(Saved) /\ pending = <<>>
      /\ position \in 1..4 /\ \A i \in 1..(position - 1) : disk[Reports[i]] # Absent
      /\ disk' = [disk EXCEPT ![Reports[position]] = rows]
      /\ container' = container /\ container \in {"none", "closed"}
      /\ identity = disk["meta"] /\ disk["meta"] # Absent
  BY FileNames DEF Report, CheckpointInv, MemorySound, Identified
<1>2. Reports[position] \in Range(Reports) /\ Reports[position] \in Outputs
  <2>1. position \in {1, 2, 3, 4} BY <1>1
  <2>2. Reports[position] \in Range(Reports) BY <2>1, FileNames
  <2> QED BY <2>2, FileNames
<1>3. Reports[position] = "summary" => \A f \in Range(Reports) \ {"summary"} : disk[f] # Absent
  <2> SUFFICES ASSUME Reports[position] = "summary", NEW f \in Range(Reports) \ {"summary"}
               PROVE  disk[f] # Absent
    OBVIOUS
  <2>1. position = 4
    <3>1. position \in {1, 2, 3, 4} BY <1>1
    <3> QED BY <3>1, FileNames
  <2>2. disk[Reports[1]] # Absent /\ disk[Reports[2]] # Absent /\ disk[Reports[3]] # Absent
    BY <1>1, <2>1
  <2> QED BY <2>2, FileNames
<1>4. /\ DiskSound' /\ Saved' = Saved /\ disk'["meta"] = disk["meta"]
      /\ disk'[Reports[position]] # Absent
      /\ \A f \in Files \ {Reports[position]} : disk'[f] = disk[f]
  <2> DEFINE file == Reports[position]
  <2> HIDE DEF file
  <2>1. disk' = [disk EXCEPT ![file] = Saved] /\ file \in Outputs BY <1>1, <1>2 DEF file
  <2>2. file = "summary" => \A f \in Range(Reports) \ {"summary"} : disk[f] # Absent
    BY <1>3 DEF file
  <2>3. /\ DiskSound' /\ Saved' = Saved /\ disk'["meta"] = disk["meta"]
        /\ disk'[file] = Saved /\ Saved # Absent
        /\ \A f \in Files \ {file} : disk'[f] = disk[f]
    BY <1>1, <2>1, <2>2, OutputKeepsDisk
  <2> QED BY <2>3 DEF file
<1>5. CASE UNCHANGED <<identity, loaded, rows, pending>> /\ at' \in {"reporting", "adding"}
  <2>1. MemorySound'
    <3>1. CASE position < 4
      <4>1. at' = "reporting" /\ position' = position + 1
        BY <1>1, <3>1, FileNames DEF Report
      <4>2. \A i \in 1..position : disk'[Reports[i]] # Absent
        <5> SUFFICES ASSUME NEW i \in 1..position PROVE disk'[Reports[i]] # Absent OBVIOUS
        <5>1. CASE Reports[i] = Reports[position] BY <1>4, <5>1
        <5>2. CASE Reports[i] # Reports[position]
          <6>1. i \in {1, 2, 3, 4} /\ i \in 1..(position - 1) BY <1>1, <5>2
          <6>2. Reports[i] \in Files BY <6>1, FileNames
          <6> QED BY <1>1, <1>4, <5>2, <6>1, <6>2
        <5> QED BY <5>1, <5>2
      <4>3. position' \in 1..Len(Reports) /\ position' - 1 = position
        BY <1>1, <3>1, <4>1, FileNames
      <4> QED BY <1>1, <1>4, <1>5, <4>1, <4>2, <4>3
              DEF MemorySound, Unidentified, Identified, Complete
    <3>2. CASE ~(position < 4)
      <4>1. at' = "adding" /\ position' = 1 BY <1>1, <1>5, <3>2, FileNames DEF Report
      <4>2. 1 \in 1..Len(Extras) BY FileNames
      <4> QED BY <1>1, <1>4, <1>5, <4>1, <4>2 DEF MemorySound, Unidentified, Identified, Complete
    <3> QED BY <3>1, <3>2
  <2>2. IdentitySound(identity)'
    BY <1>1, <1>5, WorldStays DEF CheckpointInv, InputsSound, Identified, IdentitySound,
                                  ConfigSound, Committed
  <2>3. Preparing' BY <1>5 DEF Preparing
  <2>4. loaded' \in [Inputs -> Versions \cup {Absent}] BY <1>5 DEF CheckpointInv, InputsSound
  <2>5. InputsSound' BY <1>4, <1>5, <2>2, <2>3, <2>4, SavedStaysBound DEF InputsSound
  <2> QED BY <1>1, <1>4, <1>5, <2>1, <2>5, WorldStays DEF CheckpointInv, Places
<1>6. CASE at' = "down" /\ Forget BY <1>1, <1>4, <1>6, DownKeepsInv
<1> QED BY <1>1, <1>5, <1>6 DEF Report

LEMMA AddKeepsInv == ASSUME CheckpointInv, SameWorld, Add PROVE CheckpointInv'
<1> DEFINE file == Extras[position]
           content == IF disk[file] = Torn THEN rows ELSE Torn
<1>1. /\ at = "adding" /\ rows = Saved /\ Complete(Saved) /\ pending = <<>>
      /\ position \in 1..2 /\ disk' = [disk EXCEPT ![file] = content]
      /\ container' = container /\ container \in {"none", "closed"}
      /\ identity = disk["meta"] /\ disk["meta"] # Absent
  BY FileNames DEF Add, CheckpointInv, MemorySound, Identified
<1>2. file \in Range(Extras) /\ file \in Outputs /\ file # "summary"
  <2>1. position \in {1, 2} BY <1>1
  <2> QED BY <2>1, FileNames
<1>3. content = Saved \/ (content = Torn /\ file \in Range(Extras)) BY <1>1, <1>2
<1>4. DiskSound' /\ Saved' = Saved /\ disk'["meta"] = disk["meta"]
  <2> HIDE DEF file, content
  <2> QED BY <1>1, <1>2, <1>3, OutputKeepsDisk
<1>5. \/ /\ UNCHANGED <<at, identity, loaded, rows, pending>>
         /\ position' \in 1..2
      \/ at' = "down" /\ Forget
  <2>1. CASE disk[file] # Torn BY <1>1, <2>1 DEF Add, memory
  <2>2. CASE disk[file] = Torn /\ position < Len(Extras)
    <3>1. position' = position + 1 /\ UNCHANGED <<at, identity, loaded, rows, pending>>
      BY <2>2 DEF Add
    <3> QED BY <1>1, <2>2, <3>1, FileNames
  <2>3. CASE disk[file] = Torn /\ ~(position < Len(Extras))
    BY <2>3 DEF Add
  <2> QED BY <2>1, <2>2, <2>3
<1>6. CASE UNCHANGED <<at, identity, loaded, rows, pending>> /\ position' \in 1..2
  <2>1. MemorySound'
    BY <1>1, <1>4, <1>6, FileNames DEF MemorySound, Unidentified, Identified, Complete
  <2>2. IdentitySound(identity)'
    BY <1>1, <1>6, WorldStays DEF CheckpointInv, InputsSound, Identified, IdentitySound,
                                  ConfigSound, Committed
  <2>3. Preparing' BY <1>1, <1>6 DEF Preparing
  <2>4. loaded' \in [Inputs -> Versions \cup {Absent}] BY <1>6 DEF CheckpointInv, InputsSound
  <2>5. InputsSound' BY <1>1, <1>4, <1>6, <2>2, <2>3, <2>4, SavedStaysBound DEF InputsSound
  <2> QED BY <1>1, <1>4, <1>6, <2>1, <2>5, WorldStays DEF CheckpointInv, Places
<1>7. CASE at' = "down" /\ Forget BY <1>1, <1>4, <1>7, DownKeepsInv
<1> QED BY <1>5, <1>6, <1>7

(* Every step of the process.                                               *)
LEMMA ProcessKeepsInv ==
  ASSUME CheckpointInv, Begin \/ Step \/ Setback
  PROVE  CheckpointInv'
<1>1. CASE Begin
  <2>1. Start /\ SameWorld BY <1>1 DEF Begin, Start, SameWorld
  <2> QED BY <2>1, StartKeepsInv
<1>2. CASE Step
  <2>1. SameWorld
    BY <1>2 DEF Step, SameWorld, Probe, Refuse, Hash, Reject, Identify, Load, Inherit, Build,
                Verify, Save, Close, Count, Report, Add
  <2>2. CASE Probe BY <2>1, <2>2, ProbeKeepsInv
  <2>3. CASE Refuse
    <3>1. UNCHANGED disk /\ at' = "down" /\ Forget /\ container' \in {"none", "closed"}
      BY <2>3 DEF Refuse, CheckpointInv
    <3> QED BY <2>1, <3>1, DiskStays, DownKeepsInv
  <2>4. CASE Hash BY <2>1, <2>4, HashKeepsInv
  <2>5. CASE Reject
    <3>1. at \in {"identifying", "loading", "counting"} BY <2>5 DEF Reject, Unacceptable
    <3>2. UNCHANGED disk /\ at' = "down" /\ Forget /\ container' \in {"none", "closed"}
      BY <2>5, <3>1 DEF Reject, CheckpointInv
    <3> QED BY <2>1, <3>2, DiskStays, DownKeepsInv
  <2>6. CASE Identify BY <2>1, <2>6, IdentifyKeepsInv
  <2>7. CASE Load BY <2>1, <2>7, LoadKeepsInv
  <2>8. CASE Inherit BY <2>1, <2>8, InheritKeepsInv
  <2>9. CASE Build BY <2>1, <2>9, BuildKeepsInv
  <2>10. CASE Verify BY <2>1, <2>10, VerifyKeepsInv
  <2>11. CASE Save BY <2>1, <2>11, SaveKeepsInv
  <2>12. CASE Close BY <2>1, <2>12, CloseKeepsInv
  <2>13. CASE Count BY <2>1, <2>13, CountKeepsInv
  <2>14. CASE Report BY <2>1, <2>14, ReportKeepsInv
  <2>15. CASE Add BY <2>1, <2>15, AddKeepsInv
  <2> QED BY <1>2, <2>2, <2>3, <2>4, <2>5, <2>6, <2>7, <2>8, <2>9, <2>10, <2>11, <2>12, <2>13,
             <2>14, <2>15 DEF Step
<1>3. CASE Setback
  <2>1. SameWorld /\ UNCHANGED disk /\ at' = "down" /\ Forget
    BY <1>3 DEF Setback, Fail, Crash, SameWorld
  <2>2. container' \in {"none", "closed"}
    BY <1>3 DEF Setback, Fail, Crash, CheckpointInv
  <2> QED BY <2>1, <2>2, DiskStays, DownKeepsInv
<1> QED BY <1>1, <1>2, <1>3

-----------------------------------------------------------------------------
(* Steps of the world: the process stays as it is.  Commits are added to    *)
(* the history, and an input that changes inside its window is noticed.     *)
LEMMA WorldKeepsInv ==
  ASSUME CheckpointInv, UNCHANGED process, WorldSound', raced' \in BOOLEAN, raced => raced',
         \A c \in DOMAIN history : c \in DOMAIN history' /\ history'[c] = history[c],
         ~raced' => \A k \in Inputs : at \in Window(k) => current'[k] = current[k]
  PROVE  CheckpointInv'
<1>1. /\ UNCHANGED <<program, disk, at, identity, loaded, rows, pending, position, container>>
      /\ Inherits' = Inherits /\ Recorded' = Recorded /\ Saved' = Saved /\ Batch' = Batch
  BY DEF process, memory, Inherits, Recorded, Saved, Batch, Smaller
<1>2. \A c : ConfigSound(c) => /\ c \in Descriptions /\ c.commit \in DOMAIN history'
                               /\ c.inputs \in [IF Inherits THEN Inputs \ {"settings"}
                                                ELSE Inputs -> Versions]
                               /\ ~Inherits => c.status = {}
                               /\ ~raced' => \A k \in InTree \ c.status :
                                               c.inputs[k] = history'[c.commit][k]
  BY DEF ConfigSound, Committed
<1>3. \A id : IdentitySound(id) =>
        /\ id \in Identities /\ id.dataset \in Versions
        /\ id.config \in Descriptions /\ id.config.commit \in DOMAIN history'
        /\ id.config.inputs \in [IF Inherits THEN Inputs \ {"settings"} ELSE Inputs -> Versions]
        /\ ~Inherits => id.config.status = {}
        /\ ~raced' => \A k \in InTree \ id.config.status :
                        id.config.inputs[k] = history'[id.config.commit][k]
  BY <1>2 DEF IdentitySound
<1>4. DiskSound'
  <2>1. disk["meta"] # Absent => IdentitySound(disk["meta"])'
    BY <1>1, <1>3 DEF CheckpointInv, DiskSound, IdentitySound, ConfigSound, Committed
  <2>2. InOrder(Saved)' BY <1>1 DEF CheckpointInv, DiskSound, InOrder
  <2> QED BY <1>1, <2>1, <2>2 DEF CheckpointInv, DiskSound, Complete
<1>5. MemorySound'
  <2>1. Fresh' = Fresh BY <1>1 DEF Fresh
  <2>2. InFlight' = InFlight BY <1>1 DEF InFlight
  <2> QED BY <1>1, <2>1, <2>2 DEF CheckpointInv, MemorySound, Unidentified, Identified, Complete
<1>6. at \in Identified \cup {"identifying"} => IdentitySound(identity)'
  BY <1>1, <1>3 DEF CheckpointInv, InputsSound, IdentitySound, ConfigSound, Committed
<1>7. Preparing'
  <2>1. CASE Inherits
    <3>1. ~raced' /\ at = "probing" =>
            \A k \in {"source", "profile", "dataset"} : current'[k] = current[k]
      BY <2>1 DEF Window, Inputs, InTree
    <3> QED BY <1>1, <2>1, <3>1 DEF CheckpointInv, InputsSound, Preparing
  <2>2. CASE ~Inherits
    <3>1. ~raced' /\ at \in {"probing", "hashing"} =>
            \A k \in {"prompts", "catalog"} : current'[k] = current[k]
      BY <2>2 DEF Window, Inputs, InTree
    <3>2. ~raced' /\ at = "hashing" =>
            \A k \in {"dataset", "model"} : current'[k] = current[k]
      BY <2>2 DEF Window, Inputs, InTree
    <3>3. at \in {"probing", "hashing"} => ConfigSound(identity.config)'
      BY <1>1, <1>2, <2>2 DEF CheckpointInv, InputsSound, Preparing, ConfigSound, Committed
    <3> QED BY <1>1, <2>2, <3>1, <3>2, <3>3 DEF CheckpointInv, InputsSound, Preparing
  <2> QED BY <2>1, <2>2
<1>8. ASSUME ~raced', at \in {"identifying", "loading", "inheriting", "building", "verifying",
                             "saving"}
      PROVE  Agreed(identity)'
  <2>1. Agreed(identity) BY <1>8 DEF CheckpointInv, InputsSound
  <2>2. Claimed(identity)' = Claimed(identity) BY <1>1 DEF Claimed
  <2>3. current'["model"] = current["model"] BY <1>8 DEF Window, Inputs
  <2>4. at \notin {"verifying", "saving"} =>
          \A k \in {"prompts", "catalog"} : current'[k] = current[k]
    BY <1>8 DEF Window, Inputs, InTree
  <2> QED BY <1>1, <2>1, <2>2, <2>3, <2>4 DEF Agreed
<1>9. \A row : Bound(row, disk["meta"]) =>
        \/ row.under = Parent
        \/ [k \in Recorded |-> row.under[k]] = Claimed(disk["meta"])'
  <2>1. Claimed(disk["meta"])' = Claimed(disk["meta"]) BY <1>1 DEF Claimed
  <2> QED BY <2>1 DEF Bound
<1>10. InputsSound'
  <2>1. loaded' \in [Inputs -> Versions \cup {Absent}] BY <1>1 DEF CheckpointInv, InputsSound
  <2>2. ~raced' => \A i \in 1..Len(Saved') : Bound(Saved[i], disk["meta"])'
    <3> SUFFICES ASSUME ~raced', NEW i \in 1..Len(Saved) PROVE Bound(Saved[i], disk["meta"])'
      BY <1>1
    <3>1. Bound(Saved[i], disk["meta"]) BY DEF CheckpointInv, InputsSound
    <3>2. \/ Saved[i].under = Parent
          \/ [k \in Recorded |-> Saved[i].under[k]] = Claimed(disk["meta"])'
      BY <1>9, <3>1
    <3> QED BY <1>1, <3>2 DEF Bound
  <2>3. ~raced' /\ at \in {"verifying", "saving"} =>
          \A i \in 1..Len(rows') : Bound(rows[i], disk["meta"])'
    BY <1>1, <1>9 DEF CheckpointInv, InputsSound, Bound
  <2> QED BY <1>1, <1>6, <1>7, <1>8, <2>1, <2>2, <2>3 DEF InputsSound, Identified
<1> QED BY <1>1, <1>4, <1>5, <1>10 DEF CheckpointInv

LEMMA DisturbKeepsInv == ASSUME CheckpointInv, Disturb PROVE CheckpointInv'
<1>1. PICK k \in Inputs : Change(k) /\ raced' = (raced \/ at \in Window(k)) BY DEF Disturb
<1>2. PICK v \in Versions : current' = [current EXCEPT ![k] = v] BY <1>1 DEF Change
<1>3. UNCHANGED <<history, snapshot, freezing>> /\ UNCHANGED process
  BY <1>1 DEF Change, Disturb
<1>4. current' \in [Inputs -> Versions] /\ \A j \in Inputs \ {k} : current'[j] = current[j]
  BY <1>2 DEF CheckpointInv, WorldSound
<1>5. WorldSound' BY <1>3, <1>4 DEF CheckpointInv, WorldSound
<1>6. raced' \in BOOLEAN /\ (raced => raced') BY <1>1 DEF CheckpointInv
<1>7. ~raced' => \A j \in Inputs : at \in Window(j) => current'[j] = current[j]
  BY <1>1, <1>4
<1> QED BY <1>3, <1>5, <1>6, <1>7, WorldKeepsInv

LEMMA RecordKeepsInv == ASSUME CheckpointInv, Record PROVE CheckpointInv'
<1>1. UNCHANGED <<process, raced>> /\ UNCHANGED current
  BY DEF Record, Commit, Freeze, BeginFreeze, CheckFreeze, WriteSnapshot
<1>2. /\ current \in [Inputs -> Versions]
      /\ history \in Seq([InTree -> Versions]) /\ history # <<>>
      /\ Len(history) \in Nat \ {0} /\ DOMAIN history = 1..Len(history)
      /\ \A c \in 1..Len(history) : history[c] \in [InTree -> Versions]
  BY EmptySeq, LenProperties, ElementOfSeq DEF CheckpointInv, WorldSound
<1>3. WorldSound' /\ \A c \in DOMAIN history : c \in DOMAIN history' /\ history'[c] = history[c]
  <2>1. CASE Commit
    <3>1. Tree \in [InTree -> Versions] BY <1>2 DEF Tree, Inputs
    <3>2. history' = Append(history, Tree) /\ UNCHANGED <<snapshot, freezing>>
      BY <2>1 DEF Commit
    <3>3. /\ history' \in Seq([InTree -> Versions]) /\ Len(history') = Len(history) + 1
          /\ \A c \in 1..Len(history) : history'[c] = history[c]
      BY <1>2, <3>1, <3>2, AppendProperties
    <3>4. DOMAIN history' = 1..(Len(history) + 1) BY <3>3, LenProperties
    <3>5. \A c \in DOMAIN history : c \in DOMAIN history' /\ history'[c] = history[c]
      BY <1>2, <3>3, <3>4
    <3>6. history' # <<>> BY <1>2, <3>3, EmptySeq
    <3> QED BY <1>1, <1>2, <3>2, <3>3, <3>5, <3>6 DEF CheckpointInv, WorldSound
  <2>2. CASE BeginFreeze
    <3>1. /\ freezing' = [stage |-> "probed", model |-> current["model"]]
          /\ UNCHANGED <<history, snapshot>>
      BY <2>2 DEF BeginFreeze
    <3>2. freezing' \in [stage : {"probed", "clean"}, model : Versions]
      BY <1>2, <3>1 DEF Inputs
    <3> QED BY <1>1, <3>1, <3>2 DEF CheckpointInv, WorldSound
  <2>3. CASE CheckFreeze
    <3>1. /\ freezing # Absent /\ UNCHANGED <<history, snapshot>>
          /\ freezing' = [freezing EXCEPT !.stage = "clean"] \/ freezing' = Absent
      BY <2>3 DEF CheckFreeze
    <3>2. freezing' # Absent => freezing' \in [stage : {"probed", "clean"}, model : Versions]
      BY <3>1 DEF CheckpointInv, WorldSound
    <3> QED BY <1>1, <3>1, <3>2 DEF CheckpointInv, WorldSound
  <2>4. CASE WriteSnapshot
    <3> DEFINE inputs == [current EXCEPT !["model"] = freezing.model]
    <3>1. /\ snapshot' = [commit |-> Len(history), status |-> Uncommitted, inputs |-> inputs]
          /\ freezing' = Absent /\ UNCHANGED history /\ freezing # Absent
      BY <2>4 DEF WriteSnapshot, Described
    <3>2. freezing.model \in Versions BY <3>1 DEF CheckpointInv, WorldSound
    <3>3. inputs \in [Inputs -> Versions] /\ \A k \in InTree : inputs[k] = current[k]
      BY <1>2, <3>2 DEF Inputs, InTree
    <3> HIDE DEF inputs
    <3>4. /\ snapshot'.commit = Len(history) /\ snapshot'.status = Uncommitted
          /\ snapshot'.inputs = inputs
      BY <3>1
    <3>5. Uncommitted \subseteq InTree BY DEF Uncommitted
    <3>6. snapshot' \in Descriptions BY <1>2, <3>1, <3>3, <3>5 DEF Descriptions
    <3>7. snapshot'.status = {k \in InTree : inputs[k] # history[Len(history)][k]}
      BY <3>3, <3>4 DEF Uncommitted, Last
    <3> QED BY <1>1, <1>2, <3>1, <3>3, <3>4, <3>6, <3>7 DEF WorldSound
  <2> QED BY <2>1, <2>2, <2>3, <2>4 DEF Record, Freeze
<1>4. raced' \in BOOLEAN /\ (raced => raced') BY <1>1 DEF CheckpointInv
<1> QED BY <1>1, <1>3, <1>4, WorldKeepsInv

-----------------------------------------------------------------------------
LEMMA InitInv == ASSUME Init PROVE CheckpointInv
<1>1. Saved = <<>> /\ Len(<<>>) = 0 BY FileNames DEF Init, Saved
<1>2. WorldSound
  <2>1. current \in [Inputs -> Versions] BY InputsAssumption DEF Init, WorldInit
  <2> DEFINE tree == [k \in InTree |-> Original]
  <2>2. tree \in [InTree -> Versions] BY InputsAssumption
  <2>3. history = <<tree>> BY DEF Init, WorldInit
  <2> HIDE DEF tree
  <2>4. history \in Seq([InTree -> Versions]) /\ history # <<>> BY <2>2, <2>3
  <2> QED BY <2>1, <2>4 DEF Init, WorldInit, WorldSound
<1>3. DiskSound
  <2>1. \A f \in Files : disk[f] = Absent BY DEF Init
  <2>2. DOMAIN disk = Files BY DEF Init
  <2>3. InOrder(Saved) BY <1>1 DEF InOrder
  <2> QED BY <2>1, <2>2, <2>3, FileNames DEF DiskSound
<1>4. MemorySound BY DEF Init, MemorySound, Fresh, Unidentified, Identified
<1>5. InputsSound
  <2>1. loaded \in [Inputs -> Versions \cup {Absent}] BY DEF Init, Unread
  <2>2. Preparing BY DEF Init, Preparing
  <2> QED BY <1>1, <2>1, <2>2 DEF Init, InputsSound, Identified
<1> QED BY <1>2, <1>3, <1>4, <1>5 DEF Init, CheckpointInv, Places

LEMMA NextKeepsInv == ASSUME CheckpointInv, [Next]_vars PROVE CheckpointInv'
<1>1. CASE Disturb BY <1>1, DisturbKeepsInv
<1>2. CASE Record BY <1>2, RecordKeepsInv
<1>3. CASE UNCHANGED vars
  <2>1. UNCHANGED process /\ UNCHANGED <<raced, current, history, snapshot, freezing>>
    BY <1>3 DEF vars, world
  <2>2. WorldSound' BY <2>1 DEF CheckpointInv, WorldSound
  <2>3. raced' \in BOOLEAN /\ (raced => raced') BY <2>1 DEF CheckpointInv
  <2> QED BY <2>1, <2>2, <2>3, WorldKeepsInv
<1> QED BY <1>1, <1>2, <1>3, ProcessKeepsInv DEF Next, Idle

THEOREM CheckpointInvariant == Spec => []CheckpointInv
BY InitInv, NextKeepsInv, PTL DEF Spec

-----------------------------------------------------------------------------
(* What the runs check, for every instance.                                 *)

(* The files hold what they are for, the process is in a place it knows,    *)
(* and the service is open exactly while it is used.                        *)
THEOREM CheckpointTypeCorrect == Spec => []TypeOK
<1>1. CheckpointInv => TypeOK
  <2> SUFFICES ASSUME CheckpointInv PROVE TypeOK OBVIOUS
  <2>1. rows \in Seq(Rows)
    <3>1. <<>> \in Seq(Rows) OBVIOUS
    <3>2. rows = <<>> \/ rows = Saved \/ rows \in Seq(Rows)
      BY DEF CheckpointInv, MemorySound, Fresh, InFlight, Unidentified, Identified, Places
    <3> QED BY <3>1, <3>2, SavedFacts
  <2>2. SamplesOf(rows) \subseteq Corpus BY <2>1, RowFacts
  <2>3. disk["checkpoint"] = Absent \/ disk["checkpoint"] \in Seq(Rows)
    BY DEF CheckpointInv, DiskSound
  <2> QED BY <2>1, <2>2, <2>3 DEF CheckpointInv, DiskSound, TypeOK
<1> QED BY <1>1, CheckpointInvariant, PTL

(* A file with content that is not the metadata holds the checkpoint.       *)
LEMMA ContentIsSaved ==
  ASSUME CheckpointInv, NEW f \in Files \ {"meta"}, disk[f] \notin {Absent, Torn}
  PROVE  disk[f] = Saved /\ DOMAIN Saved = 1..Len(Saved) /\ disk["meta"] # Absent
<1>1. f = "checkpoint" \/ f \in Outputs BY FileNames
<1>2. disk[f] = Saved
  <2>1. CASE f = "checkpoint" BY <2>1 DEF Saved
  <2>2. CASE f \in Outputs BY <2>2 DEF CheckpointInv, DiskSound
  <2> QED BY <1>1, <2>1, <2>2
<1>3. disk["meta"] # Absent BY DEF CheckpointInv, DiskSound
<1> QED BY <1>2, <1>3, SavedFacts, RowFacts

(* No prediction in the checkpoint or in a report was made from other       *)
(* inputs than those of the identity on disk, unless an input changed       *)
(* inside its window: whatever is edited, committed, frozen or pulled.      *)
THEOREM PredictionsAreBound == Spec => []IdentityBound
<1>1. CheckpointInv => IdentityBound
  <2> SUFFICES ASSUME CheckpointInv, ~raced, NEW f \in Files \ {"meta"},
                      disk[f] \notin {Absent, Torn}, NEW i \in DOMAIN disk[f]
               PROVE  \/ disk[f][i].under = Parent
                      \/ [k \in Recorded |-> disk[f][i].under[k]] = Claimed(disk["meta"])
    BY DEF IdentityBound
  <2>1. disk[f] = Saved /\ i \in 1..Len(Saved) BY ContentIsSaved
  <2>2. Bound(Saved[i], disk["meta"]) BY <2>1 DEF CheckpointInv, InputsSound
  <2> QED BY <2>1, <2>2 DEF Bound
<1> QED BY <1>1, CheckpointInvariant, PTL

(* The identity of a run and the one on disk name a commit in which every   *)
(* file they do not list as changed is as it was hashed; a baseline lists   *)
(* none.                                                                    *)
THEOREM InputsAreCommitted == Spec => []CommittedInputs
<1>1. CheckpointInv => CommittedInputs
  <2> SUFFICES ASSUME CheckpointInv, ~raced, NEW id \in {identity, disk["meta"]} \ {Absent},
                      id.config # Absent
               PROVE  /\ ~Inherits => id.config.status = {}
                      /\ \A k \in InTree \ id.config.status :
                           id.config.inputs[k] = history[id.config.commit][k]
    BY DEF CommittedInputs
  <2>1. ConfigSound(id.config)
    <3>1. CASE id = disk["meta"]
      BY <3>1 DEF CheckpointInv, DiskSound, IdentitySound
    <3>2. CASE id = identity
      <4>1. at # "down" BY <3>2 DEF CheckpointInv, MemorySound
      <4>2. CASE at \in Identified \cup {"identifying"}
        BY <3>2, <4>2 DEF CheckpointInv, InputsSound, IdentitySound
      <4>3. CASE at \in {"probing", "hashing"}
        BY <3>2, <4>3 DEF CheckpointInv, InputsSound, Preparing
      <4> QED BY <4>1, <4>2, <4>3 DEF CheckpointInv, Places, Identified
    <3> QED BY <3>1, <3>2
  <2> QED BY <2>1 DEF ConfigSound, Committed
<1> QED BY <1>1, CheckpointInvariant, PTL

(* The checkpoint and every report hold each sample at most once and in the *)
(* order of the corpus, however the runs were cut off.                      *)
THEOREM EachSampleOnceInOrder == Spec => []OrderedOnce
<1>1. CheckpointInv => OrderedOnce
  <2> SUFFICES ASSUME CheckpointInv, NEW f \in Files \ {"meta"}, disk[f] \notin {Absent, Torn},
                      NEW i \in DOMAIN disk[f], NEW j \in DOMAIN disk[f], i < j
               PROVE  Position(disk[f][i].sample) < Position(disk[f][j].sample)
    BY DEF OrderedOnce
  <2>1. disk[f] = Saved /\ i \in 1..Len(Saved) /\ j \in 1..Len(Saved) BY ContentIsSaved
  <2> QED BY <2>1, SavedFacts DEF InOrder
<1> QED BY <1>1, CheckpointInvariant, PTL

(* The guards of a resumed run stop it only when its identity differs: no   *)
(* crash leaves a checkpoint that the same evaluation refuses or cannot     *)
(* complete.                                                                *)
THEOREM ResumptionSucceeds == Spec => []ResumesUnlessChanged
<1>1. CheckpointInv => ResumesUnlessChanged
  <2> SUFFICES ASSUME CheckpointInv, Unacceptable PROVE disk["meta"] \notin {Absent, identity}
    BY DEF ResumesUnlessChanged
  <2>1. CASE at = "identifying"
    <3>1. IF disk["meta"] = Absent THEN disk["checkpoint"] # Absent ELSE disk["meta"] # identity
      BY <2>1 DEF Unacceptable
    <3>2. disk["meta"] = Absent => disk["checkpoint"] = Absent
      BY FileNames DEF CheckpointInv, DiskSound
    <3> QED BY <3>1, <3>2
  <2>2. CASE at = "loading"
    <3>1. WellFormed(Saved) BY SavedFacts, DistinctSize DEF WellFormed
    <3> QED BY <2>2, <3>1 DEF Unacceptable
  <2>3. CASE at = "counting"
    <3>1. rows = Saved /\ Complete(Saved) BY <2>3 DEF CheckpointInv, MemorySound
    <3>2. Len(rows) = Len(Samples) BY <3>1, SavedFacts, DistinctSize
    <3> QED BY <2>3, <3>2 DEF Unacceptable
  <2> QED BY <2>1, <2>2, <2>3 DEF Unacceptable
<1> QED BY <1>1, CheckpointInvariant, PTL

(* The summary is there only with all reports, all computed from the same   *)
(* rows, one per sample, and those rows are the checkpoint.                 *)
THEOREM SummaryMeansComplete == Spec => []SummaryIsComplete
<1>1. CheckpointInv => SummaryIsComplete
  <2> SUFFICES ASSUME CheckpointInv, disk["summary"] # Absent
               PROVE  /\ Len(Saved) = Len(Samples)
                      /\ \A i \in DOMAIN Reports : disk[Reports[i]] = Saved
                      /\ \A i \in DOMAIN Extras : disk[Extras[i]] \in {Absent, Torn, Saved}
    BY DEF SummaryIsComplete
  <2>1. \A f \in Range(Reports) : disk[f] = Saved /\ Complete(Saved)
    <3> SUFFICES ASSUME NEW f \in Range(Reports) PROVE disk[f] = Saved /\ Complete(Saved)
      OBVIOUS
    <3>1. f \in Outputs /\ f \notin Range(Extras) BY FileNames
    <3>2. disk[f] # Absent BY DEF CheckpointInv, DiskSound
    <3> QED BY <3>1, <3>2 DEF CheckpointInv, DiskSound
  <2>2. \A f \in Range(Extras) : disk[f] \in {Absent, Torn, Saved}
    <3> SUFFICES ASSUME NEW f \in Range(Extras) PROVE disk[f] \in {Absent, Torn, Saved} OBVIOUS
    <3>1. f \in Outputs BY FileNames
    <3> QED BY <3>1 DEF CheckpointInv, DiskSound
  <2>3. Complete(Saved) BY <2>1, FileNames
  <2>4. Len(Saved) = Len(Samples) BY <2>3, SavedFacts, DistinctSize
  <2> QED BY <2>1, <2>2, <2>4 DEF Range
<1> QED BY <1>1, CheckpointInvariant, PTL

-----------------------------------------------------------------------------
(* The ledger.                                                              *)

(* The ledger counts as everybody does.                                     *)
LEMMA LedgerCounts == ASSUME NEW S PROVE Ledger!Cardinality(S) = Cardinality(S)
BY DEF Ledger!Cardinality, Cardinality

(* Saving a batch records its samples, none of which was recorded.          *)
LEMMA SaveRecords == ASSUME CheckpointInv, Save, SameWorld PROVE Ledger!Record
<1> DEFINE s == Len(Saved)
           b == Len(Batch)
           p == Len(pending)
           new == {rows[s + i] : i \in 1..b}
           names == {pending[i] : i \in 1..b}
<1>1. at = "saving" BY DEF Save
<1>2. /\ b \in Nat /\ 0 < b /\ b <= p /\ b <= BatchSize /\ p \in Nat /\ s \in Nat
      /\ \A i \in 1..p : pending[i] \in Corpus \ SamplesOf(Saved)
      /\ \A i, j \in 1..p : pending[i] = pending[j] => i = j
      /\ rows \in Seq(Rows) /\ Len(rows) = s + b
      /\ \A i \in 1..s : rows[i] = Saved[i]
      /\ \A i \in 1..b : rows[s + i].sample = pending[i]
      /\ Distinct(rows)
  BY <1>1, SavingFacts
<1>3. Saved' = OrderRows(rows) /\ disk'["summary"] = disk["summary"]
  <2>1. disk' = [disk EXCEPT !["checkpoint"] = OrderRows(rows)] BY DEF Save
  <2>2. OrderRows(rows) # Absent BY <1>2, OrderRowsProperties, FilesAssumption
  <2> QED BY <2>1, <2>2, FileNames DEF CheckpointInv, DiskSound, Saved
<1>4. Range(Saved') = Range(rows) BY <1>2, <1>3, OrderRowsProperties
<1>5. DOMAIN Saved = 1..s /\ DOMAIN rows = 1..(s + b)
  BY <1>2, SavedFacts, RowFacts
<1> HIDE DEF s, b, p
<1>6. Range(rows) = Range(Saved) \cup new
  <2>1. Range(rows) \subseteq Range(Saved) \cup new
    <3> SUFFICES ASSUME NEW i \in 1..(s + b) PROVE rows[i] \in Range(Saved) \cup new
      BY <1>5 DEF Range
    <3>1. CASE i \in 1..s BY <1>2, <1>5, <3>1 DEF Range
    <3>2. CASE i \notin 1..s
      <4>1. i - s \in 1..b /\ s + (i - s) = i BY <1>2, <3>2
      <4> QED BY <4>1
    <3> QED BY <3>1, <3>2
  <2>2. Range(Saved) \subseteq Range(rows)
    <3> SUFFICES ASSUME NEW i \in 1..s PROVE Saved[i] \in Range(rows) BY <1>5 DEF Range
    <3>1. i \in 1..(s + b) BY <1>2
    <3> QED BY <1>2, <1>5, <3>1 DEF Range
  <2>3. new \subseteq Range(rows)
    <3> SUFFICES ASSUME NEW i \in 1..b PROVE rows[s + i] \in Range(rows) OBVIOUS
    <3>1. s + i \in 1..(s + b) BY <1>2
    <3> QED BY <1>5, <3>1 DEF Range
  <2> QED BY <2>1, <2>2, <2>3
<1>7. \A i \in 1..b : pending[i] \in Corpus \ SamplesOf(Saved) BY <1>2
<1>8. new \cap Range(Saved) = {}
  <2> SUFFICES ASSUME NEW i \in 1..b, NEW j \in 1..s, rows[s + i] = Saved[j] PROVE FALSE
    BY <1>5 DEF Range
  <2>1. Saved[j].sample \in SamplesOf(Saved) BY <1>5 DEF SamplesOf
  <2> QED BY <1>2, <1>7, <2>1
<1>9. Range(Saved') \ Range(Saved) = new /\ Range(Saved) \subseteq Range(Saved')
  BY <1>4, <1>6, <1>8
<1>10. Cardinality(new) = b
  <2> DEFINE row == [i \in 1..b |-> rows[s + i]]
  <2>1. row \in Surjection(1..b, new) BY DEF Surjection
  <2>2. \A i, j \in 1..b : row[i] = row[j] => i = j
    <3> SUFFICES ASSUME NEW i \in 1..b, NEW j \in 1..b, rows[s + i] = rows[s + j] PROVE i = j
      OBVIOUS
    <3>1. i \in 1..p /\ j \in 1..p /\ pending[i] = pending[j] BY <1>2
    <3> QED BY <1>2, <3>1
  <2>3. row \in Injection(1..b, new) BY <2>2, Fun_IsInj
  <2>4. ExistsBijection(1..b, new) BY <2>1, <2>3 DEF Bijection, ExistsBijection
  <2> QED BY <1>2, <2>4, UpTo, FS_Bijection
<1>11. Ledger!SampleOf(new) = names
  <2>1. Ledger!SampleOf(new) = {r.sample : r \in new} BY DEF Ledger!SampleOf
  <2> QED BY <1>2, <2>1
<1>12. Cardinality(names) = b
  <2> DEFINE name == [i \in 1..b |-> pending[i]]
  <2>1. name \in Surjection(1..b, names) BY DEF Surjection
  <2>2. \A i, j \in 1..b : name[i] = name[j] => i = j BY <1>2
  <2>3. name \in Injection(1..b, names) BY <2>2, Fun_IsInj
  <2>4. ExistsBijection(1..b, names) BY <2>1, <2>3 DEF Bijection, ExistsBijection
  <2> QED BY <1>2, <2>4, UpTo, FS_Bijection
<1>13. Ledger!SampleOf(Range(Saved)) = SamplesOf(Saved)
  BY DEF Ledger!SampleOf, SamplesOf, Range
<1>14. names \subseteq Corpus \ SamplesOf(Saved) BY <1>7
<1> HIDE DEF new, names
<1>15. Cardinality(new) \in 1..BatchSize BY <1>2, <1>10, CorpusAssumption
<1>16. Range(Saved)' \ Range(Saved) = new /\ Range(Saved) \subseteq Range(Saved)'
  BY <1>9 DEF Range
<1>17. /\ Ledger!Cardinality(new) \in 1..BatchSize
       /\ Ledger!Cardinality(Ledger!SampleOf(new)) = Ledger!Cardinality(new)
  BY <1>10, <1>11, <1>12, <1>15, LedgerCounts
<1>18. Ledger!SampleOf(new) \subseteq Corpus \ Ledger!SampleOf(Range(Saved))
  BY <1>11, <1>13, <1>14
<1> QED BY <1>3, <1>16, <1>17, <1>18 DEF Ledger!Record

(* Only the last report publishes, and only the complete checkpoint.        *)
LEMMA ReportPublishes ==
  ASSUME CheckpointInv, Report, SameWorld PROVE [Ledger!Next]_Ledger!vars
<1>1. /\ at = "reporting" /\ rows = Saved /\ Complete(Saved) /\ position \in 1..4
      /\ disk' = [disk EXCEPT ![Reports[position]] = rows]
  BY FileNames DEF Report, CheckpointInv, MemorySound
<1>2. Reports[position] \in Outputs
  <2>1. position \in {1, 2, 3, 4} BY <1>1
  <2> QED BY <2>1, FileNames
<1>3. /\ Saved' = Saved
      /\ \A f \in Files \ {Reports[position]} : disk'[f] = disk[f]
      /\ disk'[Reports[position]] = Saved /\ Saved # Absent
  <2>1. DOMAIN disk = Files BY DEF CheckpointInv, DiskSound
  <2>2. \A f \in Files \ {Reports[position]} : disk'[f] = disk[f]
    BY <1>1, <2>1
  <2>3. disk'[Reports[position]] = Saved BY <1>1, <1>2, <2>1, FileNames
  <2>4. Saved' = Saved
    <3>1. disk'["checkpoint"] = disk["checkpoint"] BY <1>2, <2>2, FileNames
    <3> QED BY <3>1 DEF Saved
  <2>5. Saved # Absent BY SavedFacts, FilesAssumption
  <2> QED BY <2>2, <2>3, <2>4, <2>5
<1>4. CASE Reports[position] = "summary"
  <2>1. (disk["summary"] # Absent)' BY <1>3, <1>4
  <2>2. Ledger!SampleOf(Range(Saved)) = Corpus
    BY <1>1 DEF Ledger!SampleOf, SamplesOf, Range, Complete
  <2>3. Ledger!Publish BY <1>3, <2>1, <2>2 DEF Ledger!Publish
  <2> QED BY <2>3 DEF Ledger!Next
<1>5. CASE Reports[position] # "summary"
  <2>1. disk'["summary"] = disk["summary"] BY <1>3, <1>5, FileNames
  <2> QED BY <1>3, <2>1 DEF Ledger!vars
<1> QED BY <1>4, <1>5

(* Runs, crashes, restarts and changes of the inputs together implement the *)
(* ledger: what is recorded stays, each batch adds new samples, and only    *)
(* all of them are published.                                               *)
THEOREM RunsKeepTheLedger == Spec => KeepsLedger
<1>1. Init => Ledger!Init
  <2> SUFFICES ASSUME Init PROVE Ledger!Init OBVIOUS
  <2>1. Saved = <<>> /\ disk["summary"] = Absent BY FileNames DEF Init, Saved
  <2>2. Range(Saved) = {} BY <2>1 DEF Range
  <2> QED BY <2>1, <2>2 DEF Ledger!Init
<1>2. ASSUME CheckpointInv, [Next]_vars PROVE [Ledger!Next]_Ledger!vars
  <2>1. ASSUME disk'["checkpoint"] = disk["checkpoint"], disk'["summary"] = disk["summary"]
        PROVE  UNCHANGED Ledger!vars
    <3>1. Saved' = Saved BY <2>1 DEF Saved
    <3> QED BY <2>1, <3>1 DEF Ledger!vars
  <2>2. CASE UNCHANGED disk BY <2>1, <2>2
  <2>3. CASE Step
    <3>1. SameWorld
      BY <2>3 DEF Step, SameWorld, Probe, Refuse, Hash, Reject, Identify, Load, Inherit, Build,
                  Verify, Save, Close, Count, Report, Add
    <3>2. DOMAIN disk = Files /\ "summary" \in Files \ {"meta", "checkpoint"}
      BY <1>2, FileNames DEF CheckpointInv, DiskSound
    <3>3. CASE Identify
      <4>1. disk' = [disk EXCEPT !["meta"] = identity] BY <3>3 DEF Identify
      <4> QED BY <2>1, <3>2, <4>1, FileNames
    <3>4. CASE Inherit
      <4>1. Inherited # Absent BY InheritedProperties, FilesAssumption
      <4>2. disk' = [disk EXCEPT !["checkpoint"] = Inherited] BY <3>4 DEF Inherit
      <4>3. Saved' = Inherited /\ disk'["summary"] = disk["summary"]
        BY <3>2, <4>1, <4>2, FileNames DEF Saved
      <4>4. Saved = <<>> BY <1>2, <3>4 DEF Inherit, CheckpointInv, MemorySound
      <4>5. Range(Saved) = {} BY <4>4 DEF Range
      <4>6. Ledger!Inherit BY <4>3, <4>5 DEF Ledger!Inherit
      <4> QED BY <4>6 DEF Ledger!Next
    <3>5. CASE Save BY <1>2, <3>1, <3>5, SaveRecords DEF Ledger!Next
    <3>6. CASE Report BY <1>2, <3>1, <3>6, ReportPublishes
    <3>7. CASE Add
      <4> DEFINE file == Extras[position]
      <4>1. file \in Outputs /\ file # "summary"
        <5>1. position \in {1, 2} BY <1>2, <3>7, FileNames DEF Add, CheckpointInv, MemorySound
        <5> QED BY <5>1, FileNames
      <4>2. \E content : disk' = [disk EXCEPT ![file] = content] BY <3>7 DEF Add
      <4> HIDE DEF file
      <4>3. \A f \in Files \ {file} : disk'[f] = disk[f] BY <3>2, <4>2
      <4>4. disk'["checkpoint"] = disk["checkpoint"] /\ disk'["summary"] = disk["summary"]
        BY <4>1, <4>3, FileNames
      <4> QED BY <2>1, <4>4
    <3> QED BY <2>2, <2>3, <3>3, <3>4, <3>5, <3>6, <3>7
            DEF Step, Probe, Refuse, Hash, Reject, Load, Build, Verify, Close, Count
  <2>4. CASE ~Step
    <3>1. UNCHANGED disk
      BY <1>2, <2>4 DEF Next, Begin, Start, Setback, Fail, Crash, Disturb, Record, Idle, vars,
                        process
    <3> QED BY <2>2, <3>1
  <2> QED BY <2>3, <2>4
<1> QED BY <1>1, <1>2, CheckpointInvariant, PTL DEF Spec, KeepsLedger, Ledger!Spec

===============================================================================
