--------------------------- MODULE CatalogIndexProofs ---------------------------
(***************************************************************************)
(* Theorems about the reference repository for every catalog and request.  *)
(*                                                                         *)
(* While the records are indexed, those indexed and those still to index   *)
(* make up the catalog, the former precede the latter, and each key leads  *)
(* to the first of the indexed records that claim it.  That the records    *)
(* come in order is what makes the first writer the first in the catalog.  *)
(*                                                                         *)
(* The search rests on the postings and on the masses of sets of words:    *)
(* a record with more of the query and no more besides has a higher score, *)
(* and the scores of the candidates are in a total order, so that there is *)
(* a best one.                                                             *)
(***************************************************************************)
EXTENDS CatalogIndex, CountingLemmas, SequenceTheorems

Indexed == {records[id] : id \in DOMAIN records}

(* LeadsToFirst during the indexing; the claims are a function, as a lemma  *)
(* cannot be about every operator.                                          *)
Leads(dict, recs, claims) ==
  LET done == {recs[id] : id \in DOMAIN recs}
  IN  /\ DOMAIN dict = UNION {claims[r] : r \in done}
      /\ \A k \in DOMAIN dict :
           /\ dict[k] \in DOMAIN recs
           /\ k \in claims[recs[dict[k]]]
           /\ \A r \in done : k \in claims[r] => Precedes(recs[dict[k]], r)

SkuClaims == [r \in Record |-> ClaimsSku(r)]
IdClaims == [r \in Record |-> ClaimsId(r)]
NameClaims == [r \in Record |-> ClaimsName(r)]

CatalogInv ==
  /\ at \in {"reading", "indexing", "serving", "failed", "answered"}
  /\ file \in Files
  /\ answer.method = "none" <=> at # "answered"
  /\ \A id \in DOMAIN records : records[id] \in Record /\ records[id].id = id
  /\ todo \in Seq(Record)
  /\ \A i, j \in 1..Len(todo) : i < j => Precedes(todo[i], todo[j])
  /\ \A id \in DOMAIN records : \A i \in 1..Len(todo) : Precedes(records[id], todo[i])
  /\ at = "reading" => records = <<>> /\ todo = <<>>
  /\ at \in {"indexing", "serving", "answered"} =>
       Catalog = Indexed \cup {todo[i] : i \in 1..Len(todo)}
  /\ at \in {"serving", "answered"} => todo = <<>>
  /\ Leads(bySku, records, SkuClaims)
  /\ Leads(byId, records, IdClaims)
  /\ Leads(byName, records, NameClaims)
  /\ AnswersTheQuestion

-----------------------------------------------------------------------------
(* The order of the records.                                                *)
LEMMA PrecedesFacts ==
  ASSUME NEW r \in Record, NEW s \in Record, NEW t \in Record
  PROVE  /\ r.id \in Int /\ r.offer \in BOOLEAN
         /\ Precedes(r, s) /\ Precedes(s, t) => Precedes(r, t)
<1>1. \A x \in Record : x.id \in Ids /\ x.offer \in BOOLEAN BY DEF Record
<1>2. \A x \in Ids : x \in Int BY CatalogAssumption
<1>3. \A x \in {r, s, t} : x.id \in Int /\ x.offer \in BOOLEAN BY <1>1, <1>2
<1> QED BY <1>3 DEF Precedes, Sellable

(* One record more: it claims the keys that no record claimed before.       *)
LEMMA DefaultsLead ==
  ASSUME NEW dict, NEW recs, NEW claims, NEW r \in Record,
         Leads(dict, recs, claims), r.id \notin DOMAIN recs,
         \A id \in DOMAIN recs : recs[id] \in Record /\ Precedes(recs[id], r)
  PROVE  Leads(Defaults(dict, claims[r], r.id), Defaults(recs, {r.id}, r), claims)
<1> DEFINE dict2 == Defaults(dict, claims[r], r.id)
           recs2 == Defaults(recs, {r.id}, r)
           done == {recs[id] : id \in DOMAIN recs}
           done2 == {recs2[id] : id \in DOMAIN recs2}
<1>1. /\ DOMAIN recs2 = DOMAIN recs \cup {r.id} /\ recs2[r.id] = r
      /\ \A id \in DOMAIN recs : recs2[id] = recs[id]
  BY DEF Defaults
<1>2. /\ DOMAIN dict2 = DOMAIN dict \cup claims[r]
      /\ \A k \in DOMAIN dict : dict2[k] = dict[k]
      /\ \A k \in claims[r] : k \notin DOMAIN dict => dict2[k] = r.id
  BY DEF Defaults
<1> HIDE DEF dict2, recs2
<1>3. done2 = done \cup {r} BY <1>1
<1>4. /\ DOMAIN dict = UNION {claims[s] : s \in done}
      /\ \A k \in DOMAIN dict :
           /\ dict[k] \in DOMAIN recs
           /\ k \in claims[recs[dict[k]]]
           /\ \A s \in done : k \in claims[s] => Precedes(recs[dict[k]], s)
  BY DEF Leads
<1>5. DOMAIN dict2 = UNION {claims[s] : s \in done2} BY <1>2, <1>3, <1>4
<1>6. r.id \in Int /\ r.offer \in BOOLEAN BY PrecedesFacts
<1>7. Precedes(r, r) BY <1>6 DEF Precedes, Sellable
<1>8. ASSUME NEW k \in DOMAIN dict2
      PROVE  /\ dict2[k] \in DOMAIN recs2
             /\ k \in claims[recs2[dict2[k]]]
             /\ \A s \in done2 : k \in claims[s] => Precedes(recs2[dict2[k]], s)
  <2>1. CASE k \in DOMAIN dict
    <3>1. dict2[k] = dict[k] /\ dict[k] \in DOMAIN recs /\ recs2[dict[k]] = recs[dict[k]]
      BY <1>1, <1>2, <1>4, <2>1
    <3>2. \A s \in done2 : k \in claims[s] => Precedes(recs[dict[k]], s)
      BY <1>3, <1>4, <2>1
    <3> QED BY <1>1, <1>4, <2>1, <3>1, <3>2
  <2>2. CASE k \notin DOMAIN dict
    <3>1. k \in claims[r] /\ dict2[k] = r.id BY <1>2, <2>2
    <3>2. \A s \in done2 : k \in claims[s] => s = r BY <1>3, <1>4, <2>2
    <3> QED BY <1>1, <1>7, <3>1, <3>2
  <2> QED BY <2>1, <2>2
<1>9. Leads(dict2, recs2, claims) BY <1>5, <1>8 DEF Leads
<1> QED BY <1>9 DEF dict2, recs2

(* A file with neither a malformed line nor none is put in order.           *)
LEMMA IndexOrderProperties ==
  ASSUME file \in Files, \A i \in Lines : file[i] # Malformed
  PROVE  /\ IndexOrder \in Seq(Record)
         /\ Catalog = {IndexOrder[k] : k \in 1..Len(IndexOrder)}
         /\ \A i, j \in 1..Len(IndexOrder) : i < j => Precedes(IndexOrder[i], IndexOrder[j])
<1> DEFINE n == Cardinality(Lines)
           order == Arrange(Lines, Ahead)
<1>1. /\ file \in Seq(Record \cup {Blank, Malformed})
      /\ Len(file) \in Nat /\ DOMAIN file = 1..Len(file)
      /\ \A i \in 1..Len(file) : file[i] \in Record \cup {Blank, Malformed}
  BY CatalogAssumption, LenProperties, ElementOfSeq
<1>2. Lines \subseteq 1..Len(file) /\ \A i \in Lines : file[i] \in Record
  BY <1>1 DEF Lines
<1>3. IsFiniteSet(Lines)
  <2>1. IsFiniteSet(1..Len(file)) BY <1>1, FS_Interval
  <2> QED BY <1>2, <2>1, FS_Subset
<1>4. \A i \in Lines : i \in Int /\ file[i].id \in Int /\ file[i].offer \in BOOLEAN
  BY <1>1, <1>2, PrecedesFacts
<1> DEFINE num == [i \in Lines |-> file[i].id]
           promo == [i \in Lines |-> file[i].offer]
<1>5. \A i, j \in Lines :
        <<i, j>> \in Ahead <=>
          \/ ~promo[i] /\ promo[j]
          \/ promo[i] = promo[j] /\ (num[i] < num[j] \/ (num[i] = num[j] /\ i < j))
  BY DEF Ahead
<1>6. \A i \in Lines : i \in Int /\ num[i] \in Int /\ promo[i] \in BOOLEAN BY <1>4
<1> HIDE DEF num, promo
<1>7. StrictOrder(Lines, Ahead)
  <2>1. \A i \in Lines : <<i, i>> \notin Ahead BY <1>5, <1>6
  <2>2. ASSUME NEW i \in Lines, NEW j \in Lines, NEW k \in Lines,
               <<i, j>> \in Ahead, <<j, k>> \in Ahead
        PROVE  <<i, k>> \in Ahead
    BY <1>5, <1>6, <2>2
  <2>3. ASSUME NEW i \in Lines, NEW j \in Lines, i # j
        PROVE  <<i, j>> \in Ahead \/ <<j, i>> \in Ahead
    BY <1>5, <1>6, <2>3
  <2> QED BY <2>1, <2>2, <2>3 DEF StrictOrder
<1>8. /\ n \in Nat /\ order \in [1..n -> Lines]
      /\ \A i \in Lines : \E k \in 1..n : order[k] = i
      /\ \A i, j \in 1..n : i < j => <<order[i], order[j]>> \in Ahead
  BY <1>3, <1>7, ArrangeOrders
<1>9. IndexOrder = [k \in DOMAIN order |-> file[order[k]]] BY DEF IndexOrder
<1> HIDE DEF order, n
<1>10. IndexOrder \in [1..n -> Record] BY <1>2, <1>8, <1>9
<1>11. IndexOrder \in Seq(Record) /\ Len(IndexOrder) = n BY <1>8, <1>10
<1>12. Catalog = {IndexOrder[k] : k \in 1..n}
  <2>1. Catalog = {file[i] : i \in Lines} BY DEF Catalog, Fields, Lines
  <2> QED BY <1>8, <1>9, <2>1
<1>13. ASSUME NEW i \in 1..n, NEW j \in 1..n, i < j PROVE Precedes(IndexOrder[i], IndexOrder[j])
  <2>1. order[i] \in Lines /\ order[j] \in Lines /\ <<order[i], order[j]>> \in Ahead
    BY <1>8, <1>13
  <2>2. IndexOrder[i] = file[order[i]] /\ IndexOrder[j] = file[order[j]] BY <1>8, <1>9
  <2> QED BY <1>4, <2>1, <2>2 DEF Ahead, Precedes, Sellable
<1> QED BY <1>11, <1>12, <1>13

-----------------------------------------------------------------------------
LEMMA InitInv == ASSUME Init PROVE CatalogInv
<1>1. records = <<>> /\ DOMAIN records = {} BY DEF Init
<1>2. \A claims : Leads(<<>>, <<>>, claims) BY DEF Leads
<1>3. todo \in Seq(Record) /\ Len(todo) = 0 BY DEF Init
<1> QED BY <1>1, <1>2, <1>3 DEF Init, CatalogInv, AnswersTheQuestion, Answer

LEMMA ReadKeepsInv == ASSUME CatalogInv, Read PROVE CatalogInv'
<1>1. /\ at = "reading" /\ records = <<>> /\ todo = <<>> /\ file \in Files /\ answer.method = "none"
      /\ UNCHANGED <<file, idOnly, records, bySku, byId, byName, answer>>
  BY DEF Read, index, CatalogInv
<1>2. \A dict, claims : Leads(dict, records, claims) <=> Leads(dict, records', claims) BY <1>1
<1>3. /\ Leads(bySku, records, SkuClaims)' /\ Leads(byId, records, IdClaims)'
      /\ Leads(byName, records, NameClaims)'
  BY <1>1 DEF CatalogInv, Leads, SkuClaims, IdClaims, NameClaims
<1>4. DOMAIN records' = {} /\ Indexed' = {} BY <1>1 DEF Indexed
<1>5. CASE at' = "failed" /\ UNCHANGED todo
  BY <1>1, <1>3, <1>4, <1>5 DEF CatalogInv, AnswersTheQuestion
<1>6. CASE at' = "indexing" /\ todo' = IndexOrder /\ \A i \in Lines : file[i] # Malformed
  <2>1. /\ todo' \in Seq(Record) /\ Catalog = {todo'[k] : k \in 1..Len(todo')}
        /\ \A i, j \in 1..Len(todo') : i < j => Precedes(todo'[i], todo'[j])
    BY <1>1, <1>6, IndexOrderProperties
  <2>2. Catalog' = Catalog BY <1>1 DEF Catalog, Fields
  <2> QED BY <1>1, <1>3, <1>4, <1>6, <2>1, <2>2 DEF CatalogInv, AnswersTheQuestion, Precedes,
                                                   Sellable
<1> QED BY <1>5, <1>6 DEF Read

(* A step that leaves the records and the indices alone.                    *)
LEMMA OnlyTheStageChanges ==
  ASSUME CatalogInv, UNCHANGED <<file, todo, records, bySku, byId, byName>>,
         at' \in {"reading", "indexing", "serving", "failed", "answered"},
         at' \in {"reading", "indexing"} => at' = at,
         at' \in {"serving", "answered"} =>
           at \in {"indexing", "serving", "answered"} /\ todo = <<>>,
         answer'.method = "none" <=> at' # "answered", AnswersTheQuestion'
  PROVE  CatalogInv'
<1>1. /\ Leads(bySku, records, SkuClaims)' /\ Leads(byId, records, IdClaims)'
      /\ Leads(byName, records, NameClaims)'
  <2>1. /\ Leads(bySku, records, SkuClaims) /\ Leads(byId, records, IdClaims)
        /\ Leads(byName, records, NameClaims)
    BY DEF CatalogInv
  <2>2. /\ Leads(bySku', records', SkuClaims) /\ Leads(byId', records', IdClaims)
        /\ Leads(byName', records', NameClaims)
    BY <2>1
  <2> QED BY <2>2 DEF Leads, SkuClaims, IdClaims, NameClaims, ClaimsSku, ClaimsId, ClaimsName,
                      SurfaceForms, Fields, Precedes, Sellable
<1>2. /\ file' \in Files /\ todo' \in Seq(Record)
      /\ \A id \in DOMAIN records' : records'[id] \in Record /\ records'[id].id = id
      /\ Catalog' = Catalog /\ Indexed' = Indexed
  BY DEF CatalogInv, Catalog, Fields, Indexed
<1>3. /\ \A i, j \in 1..Len(todo) : i < j => Precedes(todo[i], todo[j])
      /\ \A id \in DOMAIN records : \A i \in 1..Len(todo) : Precedes(records[id], todo[i])
  BY DEF CatalogInv
<1>4. /\ (\A i, j \in 1..Len(todo) : i < j => Precedes(todo[i], todo[j]))'
      /\ (\A id \in DOMAIN records : \A i \in 1..Len(todo) : Precedes(records[id], todo[i]))'
  BY <1>3 DEF Precedes, Sellable
<1>5. /\ at' = "reading" => records' = <<>> /\ todo' = <<>>
      /\ at' \in {"indexing", "serving", "answered"} =>
           Catalog' = Indexed' \cup {todo'[i] : i \in 1..Len(todo')}
      /\ at' \in {"serving", "answered"} => todo' = <<>>
  BY <1>2 DEF CatalogInv
<1> QED BY <1>1, <1>2, <1>4, <1>5 DEF CatalogInv

LEMMA IndexKeepsInv == ASSUME CatalogInv, Index PROVE CatalogInv'
<1>1. /\ at = "indexing" /\ todo # <<>> /\ file \in Files /\ answer.method = "none"
      /\ UNCHANGED <<file, idOnly, answer>>
  BY DEF Index, CatalogInv
<1>2. CASE at' = "failed" /\ UNCHANGED <<todo, records, index>>
  <2>1. UNCHANGED <<file, todo, records, bySku, byId, byName, answer>> BY <1>1, <1>2 DEF index
  <2>3. AnswersTheQuestion' BY <1>1, <1>2 DEF AnswersTheQuestion
  <2> QED BY <1>1, <1>2, <2>1, <2>3, OnlyTheStageChanges
<1>3. CASE Head(todo).id \notin DOMAIN records
  <2> DEFINE r == Head(todo)
             n == Len(todo)
  <2>1. /\ todo \in Seq(Record) /\ r \in Record /\ r = todo[1]
        /\ Tail(todo) \in Seq(Record) /\ Len(Tail(todo)) = n - 1 /\ n \in Nat \ {0}
        /\ \A i \in 1..(n - 1) : Tail(todo)[i] = todo[i + 1]
    BY <1>1, HeadTailProperties, EmptySeq, LenProperties, ElementOfSeq DEF CatalogInv
  <2>2. /\ records' = Defaults(records, {r.id}, r)
        /\ bySku' = Defaults(bySku, ClaimsSku(r), r.id)
        /\ byId' = Defaults(byId, ClaimsId(r), r.id)
        /\ byName' = Defaults(byName, ClaimsName(r), r.id)
        /\ todo' = Tail(todo) /\ at' = at
    BY <1>3 DEF Index, ClaimsSku, ClaimsId, ClaimsName
  <2>3. r.id \notin DOMAIN records /\ \A id \in DOMAIN records :
          records[id] \in Record /\ records[id].id = id /\ Precedes(records[id], r)
    BY <1>3, <2>1 DEF CatalogInv
  <2>4. /\ Leads(bySku, records, SkuClaims) /\ Leads(byId, records, IdClaims)
        /\ Leads(byName, records, NameClaims)
    BY DEF CatalogInv
  <2>5. /\ \A i, j \in 1..n : i < j => Precedes(todo[i], todo[j])
        /\ \A id \in DOMAIN records : \A i \in 1..n : Precedes(records[id], todo[i])
        /\ Catalog = Indexed \cup {todo[i] : i \in 1..n}
    BY <1>1 DEF CatalogInv
  <2> HIDE DEF r, n
  <2>6. /\ SkuClaims[r] = ClaimsSku(r) /\ IdClaims[r] = ClaimsId(r)
        /\ NameClaims[r] = ClaimsName(r)
    BY <2>1 DEF SkuClaims, IdClaims, NameClaims
  <2>7. /\ Leads(bySku', records', SkuClaims) /\ Leads(byId', records', IdClaims)
        /\ Leads(byName', records', NameClaims)
    BY <2>1, <2>2, <2>3, <2>4, <2>6, DefaultsLead
  <2>8. /\ DOMAIN records' = DOMAIN records \cup {r.id} /\ records'[r.id] = r
        /\ \A id \in DOMAIN records : records'[id] = records[id]
    BY <2>2, <2>3 DEF Defaults
  <2>9. \A id \in DOMAIN records' : records'[id] \in Record /\ records'[id].id = id
    BY <2>1, <2>3, <2>8
  <2>10. /\ Len(todo') = n - 1 /\ todo' \in Seq(Record)
         /\ \A i \in 1..(n - 1) : todo'[i] = todo[i + 1] /\ i + 1 \in 1..n
    BY <2>1, <2>2
  <2>11. \A i, j \in 1..Len(todo') : i < j => Precedes(todo'[i], todo'[j])
    <3> SUFFICES ASSUME NEW i \in 1..(n - 1), NEW j \in 1..(n - 1), i < j
                 PROVE  Precedes(todo[i + 1], todo[j + 1])
      BY <2>10
    <3>1. i + 1 \in 1..n /\ j + 1 \in 1..n /\ i + 1 < j + 1 BY <2>1
    <3> QED BY <2>5, <3>1
  <2>12. \A id \in DOMAIN records' : \A i \in 1..Len(todo') : Precedes(records'[id], todo'[i])
    <3> SUFFICES ASSUME NEW id \in DOMAIN records', NEW i \in 1..(n - 1)
                 PROVE  Precedes(records'[id], todo[i + 1])
      BY <2>10
    <3>1. CASE id \in DOMAIN records BY <2>5, <2>8, <2>10, <3>1
    <3>2. CASE id = r.id
      <4>1. 1 \in 1..n /\ i + 1 \in 1..n /\ 1 < i + 1 BY <2>1
      <4> QED BY <2>1, <2>5, <2>8, <3>2, <4>1
    <3> QED BY <2>8, <3>1, <3>2
  <2>13. Catalog' = Indexed' \cup {todo'[i] : i \in 1..Len(todo')}
    <3>1. Catalog' = Catalog BY <1>1 DEF Catalog, Fields
    <3>2. Indexed' = Indexed \cup {r} BY <2>8 DEF Indexed
    <3>3. {todo[i] : i \in 1..n} = {r} \cup {todo'[i] : i \in 1..(n - 1)}
      <4>1. \A i \in 1..n : i = 1 \/ (i - 1 \in 1..(n - 1) /\ (i - 1) + 1 = i) BY <2>1
      <4>2. \A i \in 1..n : todo[i] = r \/ \E j \in 1..(n - 1) : todo[i] = todo'[j]
        BY <2>1, <2>10, <4>1
      <4>3. 1 \in 1..n BY <2>1
      <4> QED BY <2>1, <2>10, <4>2, <4>3
    <3> QED BY <2>5, <2>10, <3>1, <3>2, <3>3
  <2>14. AnswersTheQuestion' BY <1>1, <2>2 DEF AnswersTheQuestion
  <2>15. /\ Leads(bySku, records, SkuClaims)' /\ Leads(byId, records, IdClaims)'
         /\ Leads(byName, records, NameClaims)'
    BY <2>7 DEF Leads, SkuClaims, IdClaims, NameClaims, ClaimsSku, ClaimsId, ClaimsName,
                SurfaceForms, Fields, Precedes, Sellable
  <2>16. /\ \A i, j \in 1..Len(todo') : i < j => Precedes(todo[i], todo[j])'
         /\ \A id \in DOMAIN records' : \A i \in 1..Len(todo') : Precedes(records[id], todo[i])'
    BY <2>11, <2>12 DEF Precedes, Sellable
  <2> QED BY <1>1, <2>2, <2>9, <2>10, <2>13, <2>14, <2>15, <2>16 DEF CatalogInv
<1> QED BY <1>2, <1>3 DEF Index

LEMMA ServeKeepsInv == ASSUME CatalogInv, Serve PROVE CatalogInv'
<1>1. /\ at = "indexing" /\ at' = "serving" /\ todo = <<>> /\ answer.method = "none"
      /\ UNCHANGED <<file, idOnly, todo, records, bySku, byId, byName, answer>>
  BY DEF Serve, index, CatalogInv
<1>2. AnswersTheQuestion' BY <1>1 DEF AnswersTheQuestion
<1> QED BY <1>1, <1>2, OnlyTheStageChanges

(* A key that an index knows leads to a record that claims it.              *)
LEMMA GetClaims ==
  ASSUME CatalogInv, NEW x
  PROVE  /\ Get(bySku, x) # None => x \in ClaimsSku(records[Get(bySku, x)])
         /\ Get(byId, x) # None => x \in ClaimsId(records[Get(byId, x)])
         /\ Get(byName, x) # None => x \in ClaimsName(records[Get(byName, x)])
<1>1. \A id \in DOMAIN records : records[id] \in Record BY DEF CatalogInv
<1>2. /\ Leads(bySku, records, SkuClaims) /\ Leads(byId, records, IdClaims)
      /\ Leads(byName, records, NameClaims)
  BY DEF CatalogInv
<1>3. \A dict : Get(dict, x) # None => x \in DOMAIN dict /\ Get(dict, x) = dict[x] BY DEF Get
<1>4. \A dict, claims : Leads(dict, records, claims) /\ x \in DOMAIN dict =>
        dict[x] \in DOMAIN records /\ x \in claims[records[dict[x]]]
  BY DEF Leads
<1>5. \A r \in Record : /\ SkuClaims[r] = ClaimsSku(r) /\ IdClaims[r] = ClaimsId(r)
                        /\ NameClaims[r] = ClaimsName(r)
  BY DEF SkuClaims, IdClaims, NameClaims
<1>6. Get(bySku, x) # None => x \in ClaimsSku(records[Get(bySku, x)])
  BY <1>1, <1>2, <1>3, <1>4, <1>5
<1>7. Get(byId, x) # None => x \in ClaimsId(records[Get(byId, x)])
  BY <1>1, <1>2, <1>3, <1>4, <1>5
<1>8. Get(byName, x) # None => x \in ClaimsName(records[Get(byName, x)])
  BY <1>1, <1>2, <1>3, <1>4, <1>5
<1> QED BY <1>6, <1>7, <1>8

(* What the search answers, whatever it finds.                              *)
LEMMA SearchedMethod ==
  ASSUME NEW q
  PROVE  /\ Searched(q).request = q
         /\ Searched(q).method \in
              {"unresolved_no_candidates", "unresolved_low_score", "lexical_search"}
<1> DEFINE a == Searched(q)
<1>1. \A x, method : Answer(q, x, method).request = q /\ Answer(q, x, method).method = method
  BY DEF Answer
<1>2. \/ a = Answer(q, None, "unresolved_no_candidates")
      \/ a = Answer(q, None, "unresolved_low_score")
      \/ a = Answer(q, Best(TokensOf[q.name]), "lexical_search")
  BY DEF Searched
<1> QED BY <1>1, <1>2

LEMMA ResolveKeepsInv == ASSUME CatalogInv, Resolve PROVE CatalogInv'
<1>1. /\ at = "serving" /\ at' = "answered" /\ todo = <<>>
      /\ UNCHANGED <<file, idOnly, todo, records, bySku, byId, byName>>
  BY DEF Resolve, index, CatalogInv
<1>2. PICK q \in Requests : answer' = Resolution(q) BY DEF Resolve
<1> DEFINE a == Resolution(q)
           byReference == Answer(q, GetById(q.reference), "reference_id")
           bySkuOf == Answer(q, GetBySku(q.sku), "sku")
           byEntity == Answer(q, ByEntity(q.entity), "claim_entity_id")
<1>3. \A x, method : /\ Answer(q, x, method).request = q /\ Answer(q, x, method).record = x
                     /\ Answer(q, x, method).method = method
  BY DEF Answer
<1>4. Named(q).request = q /\ Named(q).method \in
        {"unresolved_id_only", "exact_name", "unresolved_no_candidates", "unresolved_low_score",
         "lexical_search"}
  BY <1>3, SearchedMethod DEF Named
<1>5. /\ Named(q).method = "exact_name" =>
           q.name \in ClaimsName(records[Named(q).record])
      /\ idOnly => Named(q).method = "unresolved_id_only"
  <2>1. CASE ~idOnly /\ Get(byName, q.name) # None
    BY <1>3, <2>1, GetClaims DEF Named
  <2>2. CASE idOnly \/ Get(byName, q.name) = None
    BY <1>3, <2>2, SearchedMethod DEF Named
  <2> QED BY <2>1, <2>2
<1>6. /\ q.reference # None => a = byReference
      /\ q.reference = None /\ q.sku # None => a = bySkuOf
      /\ q.reference = None /\ q.sku = None => a = byEntity \/ a = Named(q)
  BY DEF Resolution
<1>7. q.reference # None /\ GetById(q.reference) # None =>
        \/ GetById(q.reference) = q.reference
        \/ Squash(q.reference) \in ClaimsId(records[GetById(q.reference)])
  BY GetClaims DEF GetById
<1>8. q.sku # None /\ GetBySku(q.sku) # None =>
        Squash(q.sku) \in ClaimsSku(records[GetBySku(q.sku)])
  BY GetClaims DEF GetBySku
<1> HIDE DEF a
<1>9. /\ a.request = q
      /\ a.method \in {"reference_id", "sku", "claim_entity_id", "unresolved_id_only",
                       "exact_name", "unresolved_no_candidates", "unresolved_low_score",
                       "lexical_search"}
      /\ q.reference # None => a.record = GetById(q.reference) /\ a.method = "reference_id"
      /\ q.reference = None /\ q.sku # None => a.record = GetBySku(q.sku) /\ a.method = "sku"
      /\ a.method \in {"exact_name", "lexical_search"} => a = Named(q)
  BY <1>3, <1>4, <1>6
<1>10. answer' = a /\ answer'.method # "none" BY <1>2, <1>9 DEF a
<1>11. /\ a.method = "exact_name" => q.name \in ClaimsName(records[a.record])
       /\ idOnly => a.method \notin {"exact_name", "lexical_search"}
  BY <1>5, <1>9
<1>12. AnswersTheQuestion'
  <2>1. records' = records /\ idOnly' = idOnly BY <1>1
  <2> QED BY <1>7, <1>8, <1>9, <1>10, <1>11, <2>1
        DEF AnswersTheQuestion, ClaimsId, ClaimsSku, ClaimsName, SurfaceForms, Fields, Squash
<1> QED BY <1>1, <1>10, <1>12, OnlyTheStageChanges

LEMMA StutteringKeepsInv == ASSUME CatalogInv, UNCHANGED vars PROVE CatalogInv'
<1>1. UNCHANGED <<file, idOnly, at, todo, records, bySku, byId, byName, answer>>
  BY DEF vars, index
<1>2. AnswersTheQuestion'
  BY <1>1 DEF CatalogInv, AnswersTheQuestion, ClaimsId, ClaimsSku, ClaimsName, SurfaceForms,
              Fields, Squash
<1> QED BY <1>1, <1>2, OnlyTheStageChanges DEF CatalogInv

LEMMA NextKeepsInv == ASSUME CatalogInv, [Next]_vars PROVE CatalogInv'
BY ReadKeepsInv, IndexKeepsInv, ServeKeepsInv, ResolveKeepsInv, StutteringKeepsInv
   DEF Next, Over

-----------------------------------------------------------------------------
(* The records indexed and those to come are the catalog, in order, and     *)
(* the indices lead to the first that claims a key (repository.py:107-153). *)
THEOREM CatalogInvariant == Spec => []CatalogInv
<1>1. Init => CatalogInv BY InitInv
<1>2. CatalogInv /\ [Next]_vars => CatalogInv' BY NextKeepsInv
<1> QED BY <1>1, <1>2, PTL DEF Spec

(* Every index leads to a record that was read, and a request is answered   *)
(* once.                                                                    *)
THEOREM CatalogTypeCorrect == Spec => []TypeOK
<1>1. ASSUME CatalogInv PROVE TypeOK
  <2>1. /\ Leads(bySku, records, SkuClaims) /\ Leads(byId, records, IdClaims)
        /\ Leads(byName, records, NameClaims)
    BY <1>1 DEF CatalogInv
  <2>2. \A dict \in {bySku, byId, byName} : \A k \in DOMAIN dict : dict[k] \in DOMAIN records
    BY <2>1 DEF Leads
  <2> QED BY <1>1, <2>2 DEF CatalogInv, TypeOK
<1> QED BY <1>1, CatalogInvariant, PTL

(* Whatever the order of the lines, a key leads to the first of all the     *)
(* records that claim it: sellable items first, then by record_id.          *)
THEOREM KeysLeadToTheFirst == Spec => []IndexOrderFree
<1>1. ASSUME CatalogInv, Serving PROVE IndexOrderFree
  <2>1. /\ Catalog = Indexed /\ Catalog = {records[id] : id \in DOMAIN records}
        /\ \A r \in Catalog : r \in Record
    <3>1. Len(todo) = 0 BY <1>1 DEF CatalogInv, Serving
    <3>2. \A i \in 1..Len(todo) : FALSE BY <3>1
    <3>3. {todo[i] : i \in 1..Len(todo)} = {} BY <3>2
    <3> QED BY <1>1, <3>3 DEF CatalogInv, Serving, Indexed
  <2>2. /\ Leads(bySku, records, SkuClaims) /\ Leads(byId, records, IdClaims)
        /\ Leads(byName, records, NameClaims)
    BY <1>1 DEF CatalogInv
  <2>3. \A id \in DOMAIN records : records[id] \in Catalog BY <2>1
  <2>4. \A r \in Catalog : /\ SkuClaims[r] = ClaimsSku(r) /\ IdClaims[r] = ClaimsId(r)
                           /\ NameClaims[r] = ClaimsName(r)
    BY <2>1 DEF SkuClaims, IdClaims, NameClaims
  <2>5. LeadsToFirst(bySku, ClaimsSku) BY <2>1, <2>2, <2>3, <2>4 DEF Leads, LeadsToFirst
  <2>6. LeadsToFirst(byId, ClaimsId) BY <2>1, <2>2, <2>3, <2>4 DEF Leads, LeadsToFirst
  <2>7. LeadsToFirst(byName, ClaimsName) BY <2>1, <2>2, <2>3, <2>4 DEF Leads, LeadsToFirst
  <2> QED BY <2>5, <2>6, <2>7 DEF IndexOrderFree
<1>2. CatalogInv => IndexOrderFree BY <1>1 DEF IndexOrderFree
<1> QED BY <1>2, CatalogInvariant, PTL

(* An explicit identifier is answered by a record that bears it or by none. *)
THEOREM AnswersAreExplained == Spec => []AnswersTheQuestion
<1>1. CatalogInv => AnswersTheQuestion BY DEF CatalogInv
<1> QED BY <1>1, CatalogInvariant, PTL

-----------------------------------------------------------------------------
(* The search: the postings of a word are the records that have it.         *)
SearchInv ==
  /\ postings = [t \in Tokens |-> {id \in DOMAIN records : t \in WordsOf(records[id])}]
  /\ DominantRecordWins

(* Each word has its units, which are of no other word.                     *)
LEMMA UnitsFinite ==
  ASSUME NEW words \in SUBSET Tokens, \A t \in Tokens : Idf(t) \in Nat
  PROVE  IsFiniteSet(Units(words)) /\ Mass(words) \in Nat
<1>1. IsFiniteSet(words) BY WeightAssumption, FS_Subset
<1> DEFINE units == [t \in words |-> {t} \X (1..Idf(t))]
           all == {units[t] : t \in words}
<1>2. ASSUME NEW t \in words PROVE IsFiniteSet(units[t])
  <2>1. IsFiniteSet(1..Idf(t)) BY FS_Interval
  <2> DEFINE unit == [i \in 1..Idf(t) |-> <<t, i>>]
  <2>2. unit \in [1..Idf(t) -> units[t]] /\ \A u \in units[t] : \E i \in 1..Idf(t) : unit[i] = u
    OBVIOUS
  <2> HIDE DEF unit, units
  <2>3. unit \in Surjection(1..Idf(t), units[t]) BY <2>2, Fun_IsSurj
  <2> QED BY <2>1, <2>3, FS_Surjection
<1>3. IsFiniteSet(all)
  <2>1. units \in [words -> all] /\ \A u \in all : \E t \in words : units[t] = u OBVIOUS
  <2> HIDE DEF units, all
  <2>2. units \in Surjection(words, all) BY <2>1, Fun_IsSurj
  <2> QED BY <1>1, <2>2, FS_Surjection
<1>4. \A T \in all : IsFiniteSet(T) BY <1>2
<1>5. Units(words) = UNION all BY DEF Units
<1> HIDE DEF all
<1>6. IsFiniteSet(Units(words)) BY <1>3, <1>4, <1>5, FS_UNION
<1> QED BY <1>6, FS_CardinalityType DEF Mass

(* The weights of words add up.                                             *)
LEMMA MassAdds ==
  ASSUME NEW a \in SUBSET Tokens, NEW b \in SUBSET Tokens, a \cap b = {},
         \A t \in Tokens : Idf(t) \in Nat
  PROVE  /\ Mass(a \cup b) = Mass(a) + Mass(b)
         /\ Mass(a) \in Nat /\ Mass(b) \in Nat
<1>1. /\ IsFiniteSet(Units(a)) /\ Mass(a) \in Nat
      /\ IsFiniteSet(Units(b)) /\ Mass(b) \in Nat
  BY UnitsFinite
<1>2. Units(a \cup b) = Units(a) \cup Units(b) BY DEF Units
<1>3. Units(a) \cap Units(b) = {}
  <2>1. \A words : \A u \in Units(words) : u[1] \in words BY DEF Units
  <2> QED BY <2>1
<1>4. Cardinality(Units(a \cup b)) = Cardinality(Units(a)) + Cardinality(Units(b)) - Cardinality({})
  BY <1>1, <1>2, <1>3, FS_Union
<1> QED BY <1>1, <1>4, FS_EmptySet DEF Mass

(* More words weigh more if one of those that are added weighs anything.    *)
LEMMA MassGrows ==
  ASSUME NEW b \in SUBSET Tokens, NEW a \in SUBSET b, \A t \in Tokens : Idf(t) \in Nat
  PROVE  /\ Mass(a) \in Nat /\ Mass(b) \in Nat /\ Mass(a) <= Mass(b)
         /\ \A t \in b \ a : Idf(t) > 0 => Mass(a) < Mass(b)
<1> DEFINE rest == b \ a
<1>1. /\ Mass(b) = Mass(a) + Mass(rest) /\ Mass(a) \in Nat /\ Mass(rest) \in Nat
  <2>1. a \cup rest = b /\ a \cap rest = {} OBVIOUS
  <2> HIDE DEF rest
  <2>2. rest \in SUBSET Tokens BY <2>1
  <2> QED BY <2>1, <2>2, MassAdds
<1>2. ASSUME NEW t \in rest, Idf(t) > 0 PROVE Mass(rest) > 0
  <2>1. Idf(t) \in Nat /\ 1 \in 1..Idf(t) BY <1>2
  <2>2. <<t, 1>> \in Units(rest) BY <2>1 DEF Units
  <2>3. IsFiniteSet(Units(rest)) BY UnitsFinite
  <2>4. Cardinality(Units(rest)) # 0 BY <2>2, <2>3, FS_EmptySet
  <2> QED BY <1>1, <2>4 DEF Mass
<1> HIDE DEF rest
<1>3. \A t \in rest : Idf(t) > 0 => Mass(a) < Mass(b) BY <1>1, <1>2
<1> QED BY <1>1, <1>3 DEF rest

LEMMA WordsAreTokens ==
  ASSUME NEW r \in Record
  PROVE  WordsOf(r) \subseteq Tokens
<1>1. /\ r.names \in Seq(Names) /\ r.aliases \in Seq(Names) /\ r.label \in Names \cup {None}
  BY DEF Record
<1> DEFINE own == IF r.label = None THEN <<>> ELSE <<r.label>>
<1>2. own \in Seq(Names)
  <2>1. CASE r.label = None BY <2>1
  <2>2. CASE r.label # None
    <3>1. r.label \in Names BY <1>1, <2>2
    <3> QED BY <2>2, <3>1
  <2> QED BY <2>1, <2>2
<1> HIDE DEF own
<1>3. SurfaceForms(r) \in Seq(Names)
  <2>1. r.names \o r.aliases \in Seq(Names) BY <1>1, ConcatProperties
  <2>2. r.names \o r.aliases \o own \in Seq(Names) BY <1>2, <2>1, ConcatProperties
  <2> QED BY <1>1, <2>2 DEF SurfaceForms, own
<1>4. \A form \in Fields(SurfaceForms(r)) : form \in Names
  BY <1>3, ElementOfSeq, LenProperties DEF Fields
<1>5. \A form \in Fields(SurfaceForms(r)) : TokensOf[form] \subseteq Tokens
  BY <1>4, WeightAssumption
<1> QED BY <1>5 DEF WordsOf

(* Once all the records are indexed, there are no more of them than lines,  *)
(* each word of a record has it among its postings, and weighs something.   *)
LEMMA WordsWeigh ==
  ASSUME CatalogInv, SearchInv, Serving
  PROVE  /\ IsFiniteSet(DOMAIN records) /\ Catalog = Indexed
         /\ \A t \in Tokens : Idf(t) \in Nat
         /\ \A id \in DOMAIN records : \A t \in WordsOf(records[id]) :
              t \in Tokens /\ id \in postings[t] /\ Idf(t) > 0
<1>1. /\ at \in {"serving", "answered"} /\ file \in Files
      /\ \A id \in DOMAIN records : records[id] \in Record /\ records[id].id = id
  BY DEF CatalogInv, Serving
<1>2. Catalog = Indexed
  <2>1. todo = <<>> /\ Catalog = Indexed \cup {todo[i] : i \in 1..Len(todo)}
    BY <1>1 DEF CatalogInv
  <2>2. Len(todo) = 0 BY <2>1
  <2>3. \A i \in 1..Len(todo) : FALSE BY <2>2
  <2> QED BY <2>1, <2>3
<1>3. /\ Len(file) \in Nat /\ DOMAIN file = 1..Len(file) /\ 0..Len(file) \subseteq DOMAIN Weight
  <2>1. file \in Seq(Record \cup {Blank, Malformed}) BY <1>1, CatalogAssumption
  <2>2. 0..Len(file) \subseteq DOMAIN Weight BY <1>1, WeightAssumption
  <2> QED BY <2>1, <2>2, LenProperties
<1>4. IsFiniteSet(DOMAIN records) /\ Cardinality(DOMAIN records) \in 0..Len(file)
  <2> DEFINE lines == {file[i] : i \in 1..Len(file)}
             line == [i \in 1..Len(file) |-> file[i]]
             held == [id \in DOMAIN records |-> records[id]]
  <2>1. line \in Surjection(1..Len(file), lines)
    <3>1. line \in [1..Len(file) -> lines] /\ \A x \in lines : \E i \in 1..Len(file) : line[i] = x
      OBVIOUS
    <3> HIDE DEF line, lines
    <3> QED BY <3>1, Fun_IsSurj
  <2>2. IsFiniteSet(1..Len(file)) /\ Cardinality(1..Len(file)) = Len(file) BY <1>3, FS_Interval
  <2>3. held \in Injection(DOMAIN records, lines)
    <3>1. \A id \in DOMAIN records : records[id] \in lines
      BY <1>2, <1>3 DEF Indexed, Catalog, Fields
    <3>2. /\ held \in [DOMAIN records -> lines]
          /\ \A x, y \in DOMAIN records : held[x] = held[y] => x = y
      BY <1>1, <3>1
    <3> HIDE DEF held, lines
    <3> QED BY <3>2, Fun_IsInj
  <2> HIDE DEF lines, line, held
  <2>4. IsFiniteSet(lines) /\ Cardinality(lines) <= Len(file) BY <2>1, <2>2, FS_Surjection
  <2>5. /\ IsFiniteSet(DOMAIN records)
        /\ Cardinality(DOMAIN records) <= Cardinality(lines)
    BY <2>3, <2>4, FS_Injection
  <2>6. Cardinality(lines) \in Nat /\ Cardinality(DOMAIN records) \in Nat
    BY <2>4, <2>5, FS_CardinalityType
  <2> QED BY <1>3, <2>4, <2>5, <2>6
<1>5. Count \in DOMAIN Weight /\ Count \in Nat BY <1>3, <1>4 DEF Count
<1>6. /\ Weight[Count] \in [0..Count -> Nat]
      /\ \A k \in 1..Count : Weight[Count][k] > 0
  BY <1>5, WeightAssumption
<1>7. ASSUME NEW t \in Tokens
      PROVE  /\ postings[t] = {id \in DOMAIN records : t \in WordsOf(records[id])}
             /\ Cardinality(postings[t]) \in 0..Count
             /\ postings[t] # {} => Cardinality(postings[t]) \in 1..Count
  <2>1. postings[t] = {id \in DOMAIN records : t \in WordsOf(records[id])} BY DEF SearchInv
  <2>2. postings[t] \in SUBSET DOMAIN records BY <2>1
  <2>3. /\ IsFiniteSet(postings[t]) /\ Cardinality(postings[t]) <= Count
    BY <1>4, <2>2, FS_Subset DEF Count
  <2>4. Cardinality(postings[t]) \in Nat /\ (Cardinality(postings[t]) = 0 <=> postings[t] = {})
    BY <2>3, FS_CardinalityType, FS_EmptySet
  <2> QED BY <1>5, <2>1, <2>3, <2>4
<1>8. \A t \in Tokens : Idf(t) \in Nat /\ (postings[t] # {} => Idf(t) > 0)
  BY <1>6, <1>7 DEF Idf
<1>9. ASSUME NEW id \in DOMAIN records, NEW t \in WordsOf(records[id])
      PROVE  t \in Tokens /\ id \in postings[t] /\ Idf(t) > 0
  BY <1>1, <1>7, <1>8, WordsAreTokens
<1> QED BY <1>2, <1>4, <1>8, <1>9

(* Scores, as fractions, are in a total order.                              *)
LEMMA AboveIsAnOrder ==
  ASSUME NEW a \in Nat, NEW b \in Nat \ {0}, NEW c \in Nat, NEW d \in Nat \ {0},
         NEW e \in Nat, NEW f \in Nat \ {0}, a * d >= c * b, c * f >= e * d
  PROVE  /\ a * f >= e * b
         /\ a * d > c * b \/ c * f > e * d => a * f > e * b
<1>1. /\ a * d \in Int /\ c * b \in Int /\ c * f \in Int /\ e * d \in Int /\ a * f \in Int
      /\ e * b \in Int
  OBVIOUS
<1>2. (a * d) * f >= (c * b) * f /\ (a * d > c * b => (a * d) * f > (c * b) * f) BY <1>1
<1>3. (c * f) * b >= (e * d) * b /\ (c * f > e * d => (c * f) * b > (e * d) * b) BY <1>1
<1>4. (a * f) * d = (a * d) * f /\ (c * b) * f = (c * f) * b /\ (e * d) * b = (e * b) * d OBVIOUS
<1>5. (a * f) * d >= (e * b) * d
      /\ (a * d > c * b \/ c * f > e * d => (a * f) * d > (e * b) * d)
  BY <1>1, <1>2, <1>3, <1>4
<1>6. \A x, y \in Int : (x * d >= y * d => x >= y) /\ (x * d > y * d => x > y) OBVIOUS
<1> QED BY <1>1, <1>5, <1>6

(* A record that shares as much of the query or more, and has as little     *)
(* besides or less, has the higher score.                                   *)
LEMMA MoreOfTheQuery ==
  ASSUME NEW m \in Nat, NEW u \in Nat, NEW n \in Nat, NEW v \in Nat, NEW q \in Nat,
         m >= n, n > 0, u <= v, m > n \/ u < v, q > 0
  PROVE  (m * (3 * (m + u) + q)) * (4 * q * (n + v)) > (n * (3 * (n + v) + q)) * (4 * q * (m + u))
<1> DEFINE x == m + u
           y == n + v
<1>1. x \in Nat /\ y \in Nat /\ x > 0 /\ y > 0 OBVIOUS
<1>2. m * y - n * x = m * v - n * u OBVIOUS
<1>3. m * v >= n * v /\ n * v >= n * u /\ (u < v => n * v > n * u) OBVIOUS
<1>4. m * y >= n * x /\ (u < v => m * y > n * x) BY <1>2, <1>3
<1> HIDE DEF x, y
<1>5. x * y \in Nat /\ x * y > 0 BY <1>1
<1>6. m * (x * y) >= n * (x * y) /\ (m > n => m * (x * y) > n * (x * y)) BY <1>5
<1>7. q * (m * y) >= q * (n * x) /\ (u < v => q * (m * y) > q * (n * x)) BY <1>1, <1>4
<1>8. /\ m * (3 * x + q) * y = 3 * (m * (x * y)) + q * (m * y)
      /\ n * (3 * y + q) * x = 3 * (n * (x * y)) + q * (n * x)
  BY <1>1
<1>9. (m * (3 * x + q)) * y > (n * (3 * y + q)) * x BY <1>1, <1>5, <1>6, <1>7, <1>8
<1>10. \A k, l \in Int : k > l => (4 * q) * k > (4 * q) * l OBVIOUS
<1>11. (4 * q) * ((m * (3 * x + q)) * y) > (4 * q) * ((n * (3 * y + q)) * x) BY <1>1, <1>9, <1>10
<1>12. /\ (4 * q) * ((m * (3 * x + q)) * y) = (m * (3 * x + q)) * (4 * q * y)
       /\ (4 * q) * ((n * (3 * y + q)) * x) = (n * (3 * y + q)) * (4 * q * x)
  BY <1>1
<1>13. (m * (3 * x + q)) * (4 * q * y) > (n * (3 * y + q)) * (4 * q * x) BY <1>11, <1>12
<1> QED BY <1>13 DEF x, y

(* The scores of the candidates order them, and one of them is the best.    *)
LEMMA BestIsFirst ==
  ASSUME NEW query, IsFiniteSet(Candidates(query)), Candidates(query) # {},
         \A id \in Candidates(query) :
           /\ id \in Int
           /\ Score(id, query).of \in Nat /\ Score(id, query).in \in Nat \ {0}
  PROVE  /\ Best(query) \in Candidates(query)
         /\ \A other \in Candidates(query) : ~Above(Score(other, query), Score(Best(query), query))
<1> DEFINE C == Candidates(query)
           of == [id \in C |-> Score(id, query).of]
           in == [id \in C |-> Score(id, query).in]
           before == {p \in C \X C :
                        \/ of[p[1]] * in[p[2]] > of[p[2]] * in[p[1]]
                        \/ ~(of[p[2]] * in[p[1]] > of[p[1]] * in[p[2]]) /\ p[1] < p[2]}
           IsBest(id) == \A other \in C \ {id} :
                           \/ Above(Score(id, query), Score(other, query))
                           \/ ~Above(Score(other, query), Score(id, query)) /\ id < other
<1>1. \A x \in C : x \in Int /\ of[x] \in Nat /\ in[x] \in Nat \ {0} OBVIOUS
<1>2. \A x, y \in C : Above(Score(x, query), Score(y, query)) <=> of[x] * in[y] > of[y] * in[x]
  BY DEF Above
<1>3. \A x, y \in C : of[x] * in[y] \in Int BY <1>1
<1> HIDE DEF C, of, in
<1>4. ASSUME NEW x \in C, NEW y \in C
      PROVE  <<x, y>> \in before <=>
               \/ of[x] * in[y] > of[y] * in[x]
               \/ of[y] * in[x] = of[x] * in[y] /\ x < y
  <2>1. <<x, y>> \in before <=>
          \/ of[x] * in[y] > of[y] * in[x]
          \/ ~(of[y] * in[x] > of[x] * in[y]) /\ x < y
    OBVIOUS
  <2>2. of[x] * in[y] \in Int /\ of[y] * in[x] \in Int BY <1>3
  <2> QED BY <2>1, <2>2
<1> HIDE DEF before
<1>5. StrictOrder(C, before)
  <2>1. \A x \in C : <<x, x>> \notin before BY <1>1, <1>3, <1>4
  <2>2. ASSUME NEW x \in C, NEW y \in C, NEW z \in C, <<x, y>> \in before, <<y, z>> \in before
        PROVE  <<x, z>> \in before
    <3>1. /\ of[x] * in[y] >= of[y] * in[x] /\ of[y] * in[z] >= of[z] * in[y]
          /\ \/ of[x] * in[y] > of[y] * in[x] \/ of[y] * in[z] > of[z] * in[y]
             \/ x < y /\ y < z
      BY <1>3, <1>4, <2>2
    <3>2. /\ of[x] * in[z] >= of[z] * in[x]
          /\ of[x] * in[y] > of[y] * in[x] \/ of[y] * in[z] > of[z] * in[y] =>
               of[x] * in[z] > of[z] * in[x]
      BY <1>1, <3>1, AboveIsAnOrder
    <3>3. x < y /\ y < z => x < z BY <1>1
    <3> QED BY <1>3, <1>4, <3>1, <3>2, <3>3
  <2>3. ASSUME NEW x \in C, NEW y \in C, x # y PROVE <<x, y>> \in before \/ <<y, x>> \in before
    <3>1. x < y \/ y < x BY <1>1, <2>3
    <3>2. of[x] * in[y] \in Int /\ of[y] * in[x] \in Int BY <1>3
    <3> QED BY <1>4, <3>1, <3>2
  <2> QED BY <2>1, <2>2, <2>3 DEF StrictOrder
<1> DEFINE order == Arrange(C, before)
           n == Cardinality(C)
<1>6. /\ n \in Nat /\ order \in [1..n -> C]
      /\ \A x \in C : \E k \in 1..n : order[k] = x
      /\ \A i, j \in 1..n : i < j => <<order[i], order[j]>> \in before
  BY <1>5, ArrangeOrders DEF C
<1> HIDE DEF order, n
<1>7. 1 \in 1..n /\ order[1] \in C
  <2>1. PICK x \in C : TRUE BY DEF C
  <2> QED BY <1>6, <2>1
<1>8. IsBest(order[1])
  <2> SUFFICES ASSUME NEW other \in C, other # order[1]
               PROVE  \/ Above(Score(order[1], query), Score(other, query))
                      \/ /\ ~Above(Score(other, query), Score(order[1], query))
                         /\ order[1] < other
    OBVIOUS
  <2>1. PICK k \in 1..n : order[k] = other BY <1>6
  <2>2. 1 < k BY <1>6, <2>1
  <2>3. <<order[1], other>> \in before BY <1>6, <1>7, <2>1, <2>2
  <2> QED BY <1>2, <1>3, <1>4, <1>7, <2>3
<1>9. Best(query) = CHOOSE id \in C : IsBest(id) BY DEF Best, C
<1>10. Best(query) \in C /\ IsBest(Best(query)) BY <1>7, <1>8, <1>9
<1> HIDE DEF IsBest
<1>11. ASSUME NEW other \in C PROVE ~Above(Score(other, query), Score(Best(query), query))
  <2>1. CASE other = Best(query) BY <1>1, <1>2, <1>3, <2>1
  <2>2. CASE other # Best(query)
    BY <1>2, <1>3, <1>10, <2>2 DEF IsBest
  <2> QED BY <2>1, <2>2
<1> QED BY <1>10, <1>11 DEF C

(* The mass of a record's words is that of those it shares with the query   *)
(* and of those it has besides.                                             *)
LEMMA ScoreParts ==
  ASSUME CatalogInv, SearchInv, Serving, NEW id \in DOMAIN records, NEW query \in SUBSET Tokens
  PROVE  LET words == WordsOf(records[id])
             m == Mass(query \cap words)
             u == Mass(words \ query)
             q == Mass(query)
         IN  /\ words \subseteq Tokens /\ m \in Nat /\ u \in Nat /\ q \in Nat /\ m <= q
             /\ query \cap words # {} => m > 0
             /\ Score(id, query) = [of |-> m * (3 * (m + u) + q), in |-> 4 * q * (m + u)]
<1> DEFINE words == WordsOf(records[id])
           common == query \cap words
           besides == words \ query
<1>1. /\ \A t \in Tokens : Idf(t) \in Nat
      /\ \A t \in words : t \in Tokens /\ Idf(t) > 0
  BY WordsWeigh
<1>2. words \in SUBSET Tokens BY <1>1
<1>3. words = common \cup besides /\ common \cap besides = {} /\ common \in SUBSET Tokens
      /\ besides \in SUBSET Tokens /\ common \in SUBSET query /\ {} \in SUBSET common
  BY <1>2
<1>4. Matched(id, query) = common BY DEF Matched
<1> HIDE DEF common, besides
<1>5. Mass(words) = Mass(common) + Mass(besides) /\ Mass(common) \in Nat /\ Mass(besides) \in Nat
  BY <1>1, <1>3, MassAdds
<1>6. Mass(common) <= Mass(query) /\ Mass(query) \in Nat BY <1>1, <1>3, MassGrows
<1>7. ASSUME common # {} PROVE Mass(common) > 0
  <2>1. PICK t \in common : TRUE BY <1>7
  <2>2. Idf(t) > 0 /\ t \in common \ {} BY <1>1, <1>3, <2>1
  <2>3. Mass({}) \in Nat /\ Mass({}) < Mass(common) BY <1>1, <1>3, <2>2, MassGrows
  <2> QED BY <1>5, <2>3
<1>8. Score(id, query) =
        [of |-> Mass(common) * (3 * (Mass(common) + Mass(besides)) + Mass(query)),
         in |-> 4 * Mass(query) * (Mass(common) + Mass(besides))]
  BY <1>4, <1>5 DEF Score
<1> QED BY <1>2, <1>5, <1>6, <1>7, <1>8 DEF common, besides

(* Of two records of which one dominates the other, which shares a word     *)
(* with the query, the former is above.                                     *)
LEMMA DominantIsAbove ==
  ASSUME CatalogInv, SearchInv, Serving, NEW query \in SUBSET Tokens,
         NEW x \in DOMAIN records, NEW y \in DOMAIN records,
         Dominates(records[x], records[y], query), query \cap WordsOf(records[y]) # {}
  PROVE  Above(Score(x, query), Score(y, query))
<1> DEFINE r == WordsOf(records[x])
           s == WordsOf(records[y])
           m == Mass(query \cap r)
           u == Mass(r \ query)
           n == Mass(query \cap s)
           v == Mass(s \ query)
           q == Mass(query)
<1>1. /\ query \cap s \subseteq r /\ r \ query \subseteq s /\ r # s BY DEF Dominates
<1>2. /\ r \subseteq Tokens /\ m \in Nat /\ u \in Nat /\ q \in Nat
      /\ Score(x, query) = [of |-> m * (3 * (m + u) + q), in |-> 4 * q * (m + u)]
  BY ScoreParts
<1>3. /\ s \subseteq Tokens /\ n \in Nat /\ v \in Nat /\ n <= q /\ n > 0
      /\ Score(y, query) = [of |-> n * (3 * (n + v) + q), in |-> 4 * q * (n + v)]
  BY ScoreParts
<1>4. /\ \A t \in Tokens : Idf(t) \in Nat
      /\ \A t \in r : Idf(t) > 0
      /\ \A t \in s : Idf(t) > 0
  BY WordsWeigh
<1> HIDE DEF r, s
<1>5. /\ n <= m
      /\ \A t \in (query \cap r) \ (query \cap s) : Idf(t) > 0 => n < m
  <2>1. query \cap r \in SUBSET Tokens /\ query \cap s \in SUBSET (query \cap r) BY <1>1
  <2> QED BY <1>4, <2>1, MassGrows
<1>6. /\ u <= v
      /\ \A t \in (s \ query) \ (r \ query) : Idf(t) > 0 => u < v
  <2>1. s \ query \in SUBSET Tokens /\ r \ query \in SUBSET (s \ query) BY <1>1, <1>3
  <2> QED BY <1>4, <2>1, MassGrows
<1>7. n < m \/ u < v
  <2>1. PICK t : t \in (query \cap r) \ (query \cap s) \/ t \in (s \ query) \ (r \ query) BY <1>1
  <2> QED BY <1>4, <1>5, <1>6, <2>1
<1> HIDE DEF m, u, n, v, q
<1>8. q > 0 BY <1>2, <1>3
<1>9. (m * (3 * (m + u) + q)) * (4 * q * (n + v)) > (n * (3 * (n + v) + q)) * (4 * q * (m + u))
  BY <1>2, <1>3, <1>5, <1>6, <1>7, <1>8, MoreOfTheQuery
<1> QED BY <1>2, <1>3, <1>9 DEF Above

(* The first of the ranking is dominated by no record of the catalog.       *)
LEMMA BestIsDominant ==
  ASSUME CatalogInv, SearchInv, Serving, NEW query \in SUBSET Tokens, Candidates(query) # {},
         NEW r \in Catalog
  PROVE  ~Dominates(r, records[Best(query)], query)
<1>1. /\ IsFiniteSet(DOMAIN records) /\ Catalog = Indexed
      /\ \A id \in DOMAIN records : \A t \in WordsOf(records[id]) :
           t \in Tokens /\ id \in postings[t] /\ Idf(t) > 0
  BY WordsWeigh
<1> DEFINE C == Candidates(query)
           common == {t \in query : 100 * Cardinality(postings[t]) <= MaxShare * Count}
<1>2. C = UNION {postings[t] : t \in common} BY DEF Candidates
<1>3. \A t \in query : postings[t] = {id \in DOMAIN records : t \in WordsOf(records[id])}
  BY DEF SearchInv
<1>4. \A id \in C : id \in DOMAIN records /\ \E t \in common : t \in WordsOf(records[id])
  BY <1>2, <1>3
<1>5. IsFiniteSet(C)
  <2>1. C \in SUBSET DOMAIN records BY <1>4
  <2> QED BY <1>1, <2>1, FS_Subset
<1>6. \A id \in DOMAIN records : id \in Int
  <2>1. \A id \in DOMAIN records : records[id] \in Record /\ records[id].id = id
    BY DEF CatalogInv
  <2> QED BY <2>1, PrecedesFacts
<1>7. ASSUME NEW id \in C
      PROVE  id \in Int /\ Score(id, query).of \in Nat /\ Score(id, query).in \in Nat \ {0}
  <2>1. query \cap WordsOf(records[id]) # {} /\ id \in DOMAIN records BY <1>4, <1>7
  <2> DEFINE m == Mass(query \cap WordsOf(records[id]))
             u == Mass(WordsOf(records[id]) \ query)
             q == Mass(query)
  <2>2. /\ m \in Nat /\ u \in Nat /\ q \in Nat /\ m <= q /\ m > 0
        /\ Score(id, query) = [of |-> m * (3 * (m + u) + q), in |-> 4 * q * (m + u)]
    BY <2>1, ScoreParts
  <2> HIDE DEF m, u, q
  <2>3. /\ m * (3 * (m + u) + q) \in Nat
        /\ 4 * q * (m + u) \in Nat /\ 4 * q * (m + u) > 0
    <3>1. 3 * (m + u) + q \in Nat /\ 4 * q \in Nat /\ 4 * q > 0 /\ m + u \in Nat /\ m + u > 0
      BY <2>2
    <3>2. \A a, b \in Nat : a * b \in Nat /\ (a > 0 /\ b > 0 => a * b > 0) OBVIOUS
    <3> QED BY <2>2, <3>1, <3>2
  <2> QED BY <1>6, <2>1, <2>2, <2>3
<1> HIDE DEF C
<1>8. /\ Best(query) \in C
      /\ \A other \in C : ~Above(Score(other, query), Score(Best(query), query))
  BY <1>5, <1>7, BestIsFirst DEF C
<1>9. PICK x \in DOMAIN records : r = records[x] BY <1>1 DEF Indexed
<1>10. SUFFICES ASSUME Dominates(r, records[Best(query)], query) PROVE FALSE
  OBVIOUS
<1>11. PICK t \in common : t \in WordsOf(records[Best(query)]) BY <1>4, <1>8
<1>12. x \in C
  <2>1. t \in WordsOf(records[x]) BY <1>9, <1>10, <1>11 DEF Dominates
  <2> QED BY <1>2, <1>3, <1>11, <2>1
<1>13. Above(Score(x, query), Score(Best(query), query))
  <2>1. Best(query) \in DOMAIN records /\ query \cap WordsOf(records[Best(query)]) # {}
    BY <1>4, <1>8, <1>11
  <2> QED BY <1>9, <1>10, <2>1, DominantIsAbove
<1> QED BY <1>8, <1>12, <1>13

-----------------------------------------------------------------------------
(* A step that leaves the records and the postings alone.                   *)
LEMMA SearchInvStays ==
  ASSUME SearchInv, UNCHANGED <<file, records, postings, answer>>,
         at' = "answered" => at = "answered"
  PROVE  SearchInv'
<1>1. Catalog' = Catalog BY DEF Catalog, Fields
<1>2. at' = "answered" /\ answer'.method = "lexical_search" =>
        \A r \in Catalog' :
          ~Dominates(r, records'[answer'.record], TokensOf[answer'.request.name])
  BY <1>1 DEF SearchInv, DominantRecordWins
<1>3. DominantRecordWins'
  BY <1>2 DEF DominantRecordWins, Dominates, WordsOf, SurfaceForms, Fields
<1>4. postings' = [t \in Tokens |-> {id \in DOMAIN records' : t \in WordsOf(records'[id])}]
  BY DEF SearchInv
<1> QED BY <1>3, <1>4 DEF SearchInv, WordsOf, SurfaceForms, Fields

LEMMA NextKeepsSearchInv ==
  ASSUME CatalogInv, SearchInv, [Next]_vars
  PROVE  SearchInv'
<1>1. CASE Read
  BY <1>1, SearchInvStays DEF Read, index
<1>2. CASE Index
  <2>1. at # "answered" /\ at' # "answered" BY <1>2 DEF Index
  <2>2. DominantRecordWins' BY <2>1 DEF DominantRecordWins
  <2>3. CASE UNCHANGED <<records, postings>>
    BY <1>2, <2>1, <2>3, SearchInvStays DEF Index
  <2>4. CASE Head(todo).id \notin DOMAIN records
    <3> DEFINE r == Head(todo)
    <3>1. /\ records' = Defaults(records, {r.id}, r)
          /\ postings' = [t \in Tokens |->
                            postings[t] \cup IF t \in WordsOf(r) THEN {r.id} ELSE {}]
      BY <1>2, <2>4 DEF Index
    <3>2. /\ DOMAIN records' = DOMAIN records \cup {r.id} /\ records'[r.id] = r
          /\ \A id \in DOMAIN records : records'[id] = records[id]
      BY <2>4, <3>1 DEF Defaults
    <3> HIDE DEF r
    <3>3. ASSUME NEW t \in Tokens
          PROVE  postings'[t] = {id \in DOMAIN records' : t \in WordsOf(records'[id])}
      <4>1. postings[t] = {id \in DOMAIN records : t \in WordsOf(records[id])} BY DEF SearchInv
      <4>2. postings'[t] = postings[t] \cup IF t \in WordsOf(r) THEN {r.id} ELSE {} BY <3>1
      <4> QED BY <3>2, <4>1, <4>2
    <3>4. postings' = [t \in Tokens |-> {id \in DOMAIN records' : t \in WordsOf(records'[id])}]
      BY <3>1, <3>3
    <3> QED BY <2>2, <3>4 DEF SearchInv, WordsOf, SurfaceForms, Fields
  <2> QED BY <1>2, <2>3, <2>4 DEF Index, index
<1>3. CASE Serve
  BY <1>3, SearchInvStays DEF Serve, index
<1>4. CASE Resolve
  <2>1. /\ at = "serving" /\ UNCHANGED <<file, records, postings>> BY <1>4 DEF Resolve, index
  <2>2. PICK q \in Requests : answer' = Resolution(q) BY <1>4 DEF Resolve
  <2> DEFINE query == TokensOf[q.name]
  <2>3. query \in SUBSET Tokens BY RequestAssumption, WeightAssumption
  <2>4. \A x, method : /\ Answer(q, x, method).request = q /\ Answer(q, x, method).record = x
                       /\ Answer(q, x, method).method = method
    BY DEF Answer
  <2>5. answer'.method = "lexical_search" => answer' = Searched(q)
    BY <2>2, <2>4 DEF Resolution, Named
  <2>6. Searched(q).method = "lexical_search" =>
          Searched(q).request = q /\ Searched(q).record = Best(query) /\ Candidates(query) # {}
    BY <2>4 DEF Searched
  <2> HIDE DEF query
  <2>7. ASSUME answer'.method = "lexical_search", NEW r \in Catalog
        PROVE  answer'.request = q /\ ~Dominates(r, records[answer'.record], query)
    <3>1. answer'.request = q /\ answer'.record = Best(query) /\ Candidates(query) # {}
      BY <2>5, <2>6, <2>7
    <3> QED BY <2>1, <2>3, <2>7, <3>1, BestIsDominant DEF Serving
  <2>8. Catalog' = Catalog BY <2>1 DEF Catalog, Fields
  <2>9. DominantRecordWins'
    <3>1. at' = "answered" /\ answer'.method = "lexical_search" =>
            \A r \in Catalog' :
              ~Dominates(r, records'[answer'.record], TokensOf[answer'.request.name])
      BY <2>1, <2>7, <2>8 DEF query
    <3> QED BY <3>1 DEF DominantRecordWins, Dominates, WordsOf, SurfaceForms, Fields
  <2>10. postings' = [t \in Tokens |-> {id \in DOMAIN records' : t \in WordsOf(records'[id])}]
    BY <2>1 DEF SearchInv
  <2> QED BY <2>9, <2>10 DEF SearchInv, WordsOf, SurfaceForms, Fields
<1>5. CASE UNCHANGED vars
  BY <1>5, SearchInvStays DEF vars, index
<1> QED BY <1>1, <1>2, <1>3, <1>4, <1>5 DEF Next, Over

(* The postings hold the records that have a word, and the search is never  *)
(* led past a record that shares more of the query and has no more besides. *)
THEOREM TheDominantRecordWins == Spec => []DominantRecordWins
<1>1. Init => SearchInv
  <2> SUFFICES ASSUME Init PROVE SearchInv OBVIOUS
  <2>1. /\ DOMAIN records = {} /\ postings = [t \in Tokens |-> {}] /\ at # "answered" BY DEF Init
  <2> QED BY <2>1 DEF SearchInv, DominantRecordWins
<1>2. CatalogInv /\ SearchInv /\ [Next]_vars => SearchInv' BY NextKeepsSearchInv
<1>3. SearchInv => DominantRecordWins BY DEF SearchInv
<1> QED BY <1>1, <1>2, <1>3, CatalogInvariant, PTL DEF Spec

===============================================================================
