----------------------------- MODULE CatalogIndex -----------------------------
(***************************************************************************)
(* The reference repository: the catalog file is read line by line, the    *)
(* records are indexed by identifier, SKU and name, and a request is       *)
(* resolved to a record along a ladder of lookups.                         *)
(*                                                                         *)
(* Identifiers are given as written or squashed (spelled another way), and *)
(* names folded; an SKU is squashed where it identifies and folded where   *)
(* it is a name, so that two spellings of it are one key and two names.    *)
(* The weight of a word, the logarithm of how rare it is    *)
(* among the records, is an integer; percentages are whole numbers.        *)
(***************************************************************************)
EXTENDS Arrangement

CONSTANTS
  Ids,       \* record_id values, numbers in the order in which they sort
  Keys,      \* squashed identifiers and SKUs
  IdKey,     \* the key of each record_id
  Names,     \* folded names, aliases and SKUs
  Files,     \* the contents of the file: sequences of records, Blank and Malformed
  Tokens,    \* the words of names and identifiers that are no stop words
  TokensOf,  \* the words of each name
  Weight,    \* _idf: Weight[n][k] of a word that k of n records have
  MaxShare,  \* _MAX_TOKEN_DOC_RATIO in percent
  MinScore,  \* retrieval.min_match_score in percent
  Requests,  \* reference_id, sku, entity id and name of a request and claim
  None, Blank, Malformed

Record ==
  [id : Ids, offer : BOOLEAN, sku : Keys \cup {None}, label : Names \cup {None},
   product : Keys \cup {None}, names : Seq(Names), aliases : Seq(Names)]

Fields(sequence) == {sequence[i] : i \in DOMAIN sequence}

ASSUME CatalogAssumption ==
  /\ Ids \subseteq Nat /\ IdKey \in [Ids -> Keys]
  /\ \A f \in Files : f \in Seq(Record \cup {Blank, Malformed})
  /\ \A f \in Files : \A i \in DOMAIN f :
       f[i] \notin {Blank, Malformed} => (f[i].sku = None <=> f[i].label = None)

(* A rarer word weighs more, any weighs something, and one that no record   *)
(* has weighs nothing.                                                      *)
ASSUME WeightAssumption ==
  /\ IsFiniteSet(Tokens) /\ TokensOf \in [Names -> SUBSET Tokens]
  /\ \A f \in Files : 0..Len(f) \subseteq DOMAIN Weight
  /\ \A n \in DOMAIN Weight :
       /\ Weight[n] \in [0..n -> Nat] /\ Weight[n][0] = 0
       /\ \A k \in 1..n : Weight[n][k] > 0
       /\ \A j, k \in 1..n : j < k => Weight[n][j] > Weight[n][k]
  /\ MaxShare \in 0..100 /\ MinScore \in 0..100

ASSUME RequestAssumption == \A q \in Requests : q.name \in Names

VARIABLES
  file,                 \* the lines of the catalog
  idOnly,               \* is retrieval.strategy "id_only"?
  at,                   \* reading, indexing, serving, failed or answered
  todo,                 \* the records to index, in order
  records,              \* _records: by record_id
  bySku, byId, byName,  \* the indices, to record_id
  postings,             \* the records that have a word
  answer                \* the request, the record it led to, and how

index == <<bySku, byId, byName, postings>>
vars == <<file, idOnly, at, todo, records, index, answer>>

Squash(x) == IF x \in Ids THEN IdKey[x] ELSE x

(* Every string a claim might use for the record, its SKU as it is written  *)
(* (label) too; brand and name together are one of its names.               *)
SurfaceForms(r) ==
  IF r.offer
  THEN r.aliases
  ELSE r.names \o r.aliases \o (IF r.label = None THEN <<>> ELSE <<r.label>>)

WordsOf(r) == UNION {TokensOf[form] : form \in Fields(SurfaceForms(r))}

Lines == {i \in DOMAIN file : file[i] # Blank}

(* The lines with records in the order in which these are indexed: offers   *)
(* last, then by record_id; equals as they are in the file.                 *)
Ahead ==
  {p \in Lines \X Lines :
     LET r == file[p[1]]
         s == file[p[2]]
     IN  \/ ~r.offer /\ s.offer
         \/ r.offer = s.offer /\ (r.id < s.id \/ (r.id = s.id /\ p[1] < p[2]))}

IndexOrder ==
  LET order == Arrange(Lines, Ahead)
  IN  [k \in DOMAIN order |-> file[order[k]]]

(* Mutant: the last writer wins.                                            *)
Defaults_Last(dict, keys, value) ==
  [k \in DOMAIN dict \cup keys |-> IF k \in keys THEN value ELSE dict[k]]

(* dict.setdefault, for each of the keys.                                   *)
Defaults(dict, keys, value) ==
  [k \in DOMAIN dict \cup keys |-> IF k \in DOMAIN dict THEN dict[k] ELSE value]

Answer(q, id, method) == [request |-> q, record |-> id, method |-> method]

-----------------------------------------------------------------------------
Init ==
  /\ file \in Files
  /\ idOnly \in BOOLEAN
  /\ at = "reading"
  /\ todo = <<>>
  /\ records = <<>> /\ bySku = <<>> /\ byId = <<>> /\ byName = <<>>
  /\ postings = [t \in Tokens |-> {}]
  /\ answer = Answer(None, None, "none")

(* from_jsonl: one malformed line, or no record at all, and none is served. *)
Read ==
  /\ at = "reading"
  /\ IF Lines = {} \/ \E i \in Lines : file[i] = Malformed
     THEN at' = "failed" /\ UNCHANGED todo
     ELSE at' = "indexing" /\ todo' = IndexOrder
  /\ UNCHANGED <<file, idOnly, records, index, answer>>

(* Mutant: the index by identifier leads to the product_id.                 *)
Index_Target ==
  /\ at = "indexing"
  /\ todo # <<>>
  /\ LET r == Head(todo)
         own == IF r.offer THEN {} ELSE {r.sku} \ {None}
         product == IF r.offer THEN {} ELSE {r.product} \ {None}
     IN  IF r.id \in DOMAIN records
         THEN /\ at' = "failed"
              /\ UNCHANGED <<todo, records, index>>
         ELSE /\ records' = Defaults(records, {r.id}, r)
              /\ bySku' = Defaults(bySku, own, r.id)
              /\ byId' = Defaults(Defaults(byId, {IdKey[r.id]}, r.id), product, r.product)
              /\ byName' = Defaults(byName, Fields(SurfaceForms(r)), r.id)
              /\ postings' = [t \in Tokens |->
                                postings[t] \cup IF t \in WordsOf(r) THEN {r.id} ELSE {}]
              /\ todo' = Tail(todo)
              /\ UNCHANGED at
  /\ UNCHANGED <<file, idOnly, answer>>

(* One turn of the loop of _index.                                          *)
Index ==
  /\ at = "indexing"
  /\ todo # <<>>
  /\ LET r == Head(todo)
         own == IF r.offer THEN {} ELSE {r.sku} \ {None}
         product == IF r.offer THEN {} ELSE {r.product} \ {None}
     IN  IF r.id \in DOMAIN records
         THEN /\ at' = "failed"
              /\ UNCHANGED <<todo, records, index>>
         ELSE /\ records' = Defaults(records, {r.id}, r)
              /\ bySku' = Defaults(bySku, own, r.id)
              /\ byId' = Defaults(byId, {IdKey[r.id]} \cup product, r.id)
              /\ byName' = Defaults(byName, Fields(SurfaceForms(r)), r.id)
              /\ postings' = [t \in Tokens |->
                                postings[t] \cup IF t \in WordsOf(r) THEN {r.id} ELSE {}]
              /\ todo' = Tail(todo)
              /\ UNCHANGED at
  /\ UNCHANGED <<file, idOnly, answer>>

Serve ==
  /\ at = "indexing"
  /\ todo = <<>>
  /\ at' = "serving"
  /\ UNCHANGED <<file, idOnly, todo, records, index, answer>>

Get(dict, key) == IF key \in DOMAIN dict THEN dict[key] ELSE None

GetById(x) == IF x \in DOMAIN records THEN x ELSE Get(byId, Squash(x))
GetBySku(x) == Get(bySku, Squash(x))

ByEntity(x) ==
  IF x = None THEN None ELSE IF GetById(x) # None THEN GetById(x) ELSE GetBySku(x)

-----------------------------------------------------------------------------
(* search.                                                                  *)
Count == Cardinality(DOMAIN records)
Idf(t) == Weight[Count][Cardinality(postings[t])]

(* The sum of the weights, as the number of their units: unlike a fold, a   *)
(* cardinality can be proved about.                                         *)
Units(words) == UNION {{t} \X (1..Idf(t)) : t \in words}
Mass(words) == Cardinality(Units(words))

Matched(id, query) == query \cap WordsOf(records[id])

(* The records that have a word of the query that is not too common.        *)
Candidates(query) ==
  UNION {postings[t] : t \in {u \in query : 100 * Cardinality(postings[u]) <= MaxShare * Count}}

(* Mutant: words of the record that the query lacks do not count.           *)
Score_NoPrecision(id, query) == [of |-> Mass(Matched(id, query)), in |-> Mass(query)]

(* The score as a fraction: three quarters for the part of the query that   *)
(* is matched, one quarter for the part of the record that is.              *)
Score(id, query) ==
  LET matched == Mass(Matched(id, query))
      whole == Mass(WordsOf(records[id]))
  IN  [of |-> matched * (3 * whole + Mass(query)), in |-> 4 * Mass(query) * whole]

Above(x, y) == x.of * y.in > y.of * x.in

(* The first of the ranking: the best score, and of equals the first id.    *)
Best(query) ==
  CHOOSE id \in Candidates(query) :
    \A other \in Candidates(query) \ {id} :
      \/ Above(Score(id, query), Score(other, query))
      \/ ~Above(Score(other, query), Score(id, query)) /\ id < other

Searched(q) ==
  LET query == TokensOf[q.name]
  IN  IF Candidates(query) = {}
      THEN Answer(q, None, "unresolved_no_candidates")
      ELSE LET score == Score(Best(query), query)
           IN  IF 100 * score.of < MinScore * score.in
               THEN Answer(q, None, "unresolved_low_score")
               ELSE Answer(q, Best(query), "lexical_search")

-----------------------------------------------------------------------------
(* _resolve.                                                                *)
Named(q) ==
  IF idOnly THEN Answer(q, None, "unresolved_id_only")
  ELSE IF Get(byName, q.name) # None THEN Answer(q, Get(byName, q.name), "exact_name")
  ELSE Searched(q)

(* Mutant: an identifier that leads nowhere gives way to the name.          *)
Resolution_Fallthrough(q) ==
  IF q.reference # None /\ GetById(q.reference) # None
  THEN Answer(q, GetById(q.reference), "reference_id")
  ELSE IF q.sku # None /\ GetBySku(q.sku) # None THEN Answer(q, GetBySku(q.sku), "sku")
  ELSE IF ByEntity(q.entity) # None THEN Answer(q, ByEntity(q.entity), "claim_entity_id")
  ELSE Named(q)

(* An explicit identifier settles the matter; one found in the claim only   *)
(* if it leads to a record.                                                 *)
Resolution(q) ==
  IF q.reference # None THEN Answer(q, GetById(q.reference), "reference_id")
  ELSE IF q.sku # None THEN Answer(q, GetBySku(q.sku), "sku")
  ELSE IF ByEntity(q.entity) # None THEN Answer(q, ByEntity(q.entity), "claim_entity_id")
  ELSE Named(q)

Resolve ==
  /\ at = "serving"
  /\ \E q \in Requests : answer' = Resolution(q)
  /\ at' = "answered"
  /\ UNCHANGED <<file, idOnly, todo, records, index>>

Over == at \in {"failed", "answered"} /\ UNCHANGED vars

Next == Read \/ Index \/ Serve \/ Resolve \/ Over

Spec == Init /\ [][Next]_vars

-----------------------------------------------------------------------------
(* Properties.                                                              *)

Serving == at \in {"serving", "answered"}
Catalog == Fields(file) \ {Blank, Malformed}
Sellable(r) == ~r.offer

(* TypeOK: the indices lead to records that have been read, and there is an *)
(* answer once a request was resolved.                                      *)
TypeOK ==
  /\ at \in {"reading", "indexing", "serving", "failed", "answered"}
  /\ \A id \in DOMAIN records : records[id] \in Record /\ records[id].id = id
  /\ \A dict \in {bySku, byId, byName} : \A k \in DOMAIN dict : dict[k] \in DOMAIN records
  /\ answer.method = "none" <=> at # "answered"

(* The declarative reading of the indices: a key leads to the first of the  *)
(* records that claim it, sellable items first.                             *)
Precedes(r, s) == (Sellable(r) /\ s.offer) \/ (r.offer = s.offer /\ r.id <= s.id)

ClaimsSku(r) == IF r.offer THEN {} ELSE {r.sku} \ {None}
ClaimsId(r) == {IdKey[r.id]} \cup (IF r.offer THEN {} ELSE {r.product} \ {None})
ClaimsName(r) == Fields(SurfaceForms(r))

LeadsToFirst(dict, Claims(_)) ==
  /\ DOMAIN dict = UNION {Claims(r) : r \in Catalog}
  /\ \A k \in DOMAIN dict :
       \A r \in Catalog : k \in Claims(r) =>
         k \in Claims(records[dict[k]]) /\ Precedes(records[dict[k]], r)

(* IndexOrderFree: what the indices say depends on the records and not on   *)
(* the order of the lines: each key leads to the first record claiming it.  *)
IndexOrderFree ==
  Serving =>
    /\ LeadsToFirst(bySku, ClaimsSku)
    /\ LeadsToFirst(byId, ClaimsId)
    /\ LeadsToFirst(byName, ClaimsName)

(* Has r every word of the query that s has, and none besides that s has    *)
(* not, and is it not the same in both?                                     *)
Dominates(r, s, query) ==
  /\ query \cap WordsOf(s) \subseteq WordsOf(r)
  /\ WordsOf(r) \ query \subseteq WordsOf(s)
  /\ WordsOf(r) # WordsOf(s)

(* DominantRecordWins: the search never answers with a record when another  *)
(* one shares more words with the query and has no words too many that the  *)
(* former has not: the cut of the common words and the mean of the two      *)
(* ratios cannot turn the order round (repository.py:235-249).  The ratios  *)
(* are exact here, and the search returns only the best.                    *)
DominantRecordWins ==
  at = "answered" /\ answer.method = "lexical_search" =>
    \A r \in Catalog : ~Dominates(r, records[answer.record], TokensOf[answer.request.name])

(* AnswersTheQuestion: a request with an explicit identifier is answered by *)
(* a record that bears it or by none: never by one that only the name or a  *)
(* search suggests; id_only gives no prose a record (evidence.py:138-156).  *)
AnswersTheQuestion ==
  at = "answered" =>
    LET q == answer.request
        found == answer.record
    IN  /\ q.reference # None /\ found # None =>
             found = q.reference \/ Squash(q.reference) \in ClaimsId(records[found])
        /\ q.reference = None /\ q.sku # None /\ found # None =>
             Squash(q.sku) \in ClaimsSku(records[found])
        /\ idOnly => answer.method \notin {"exact_name", "lexical_search"}
        /\ answer.method = "exact_name" => q.name \in ClaimsName(records[found])

(* AliasesDoNotShadow: "canonical names are added before aliases, so an     *)
(* alias shared by two records cannot shadow a real name" (repository.py:   *)
(* 139): a record that answers to the name of another for an alias of its   *)
(* own has that name, too.                                                  *)
AliasesDoNotShadow ==
  Serving =>
    \A r \in Catalog : Sellable(r) =>
      \A n \in Fields(r.names) :
        LET found == records[Get(byName, n)]
        IN  n \in Fields(found.aliases) => n \in Fields(found.names)

=============================================================================
