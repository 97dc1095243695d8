---------------------------- MODULE MCCatalogIndex ----------------------------
(***************************************************************************)
(* Files of up to two lines over two identifiers, two keys and two names   *)
(* that records share in every way they can: one's product or SKU is the   *)
(* key of the other, one's alias or SKU is the name of the other, an SKU   *)
(* is spelled in two ways.  And files of seven products, the fewest of     *)
(* which two can share a word that is not too common: two with any words,  *)
(* and five that make some words common.                                   *)
(***************************************************************************)
EXTENDS CatalogIndex, TLC

CONSTANTS k1, k2, n1, n2

Small == {k1, k2}
Fillers == 3..7
MCKeys == Small \cup {[filler |-> i] : i \in Fillers}
MCIdKey == 1 :> k1 @@ 2 :> k2 @@ [i \in Fillers |-> [filler |-> i]]

(* A name, as a record gives it or in another order of its words.           *)
MCTokens == {"a", "b", "c", "x", "y", "z", "common", "unknown"}
Phrase(words, order) == [words |-> words, order |-> order]
Phrases == {Phrase(w, o) : w \in SUBSET MCTokens, o \in {"given", "turned"}}
MCNames == {n1, n2} \cup Phrases
MCTokensOf ==
  [n \in MCNames |-> IF n \in {n1, n2} THEN {} ELSE n.words]

(* Ten times the logarithm of (n + 1) / (k + 0.5).                          *)
MCWeight ==
  0 :> (0 :> 0) @@ 1 :> (0 :> 0 @@ 1 :> 3) @@ 2 :> (0 :> 0 @@ 1 :> 7 @@ 2 :> 2)
    @@ 3 :> (0 :> 0 @@ 1 :> 10 @@ 2 :> 5 @@ 3 :> 1)
    @@ 4 :> (0 :> 0 @@ 1 :> 12 @@ 2 :> 7 @@ 3 :> 4 @@ 4 :> 1)
    @@ 5 :> (0 :> 0 @@ 1 :> 14 @@ 2 :> 9 @@ 3 :> 5 @@ 4 :> 3 @@ 5 :> 1)
    @@ 6 :> (0 :> 0 @@ 1 :> 15 @@ 2 :> 10 @@ 3 :> 7 @@ 4 :> 4 @@ 5 :> 2 @@ 6 :> 1)
    @@ 7 :> (0 :> 0 @@ 1 :> 17 @@ 2 :> 12 @@ 3 :> 8 @@ 4 :> 6 @@ 5 :> 4 @@ 6 :> 2 @@ 7 :> 1)

Listed(x) == IF x = None THEN <<>> ELSE <<x>>

Stock ==
  {[id |-> id, offer |-> offer, sku |-> s[1], label |-> s[2], product |-> product,
    names |-> Listed(name), aliases |-> Listed(alias)] :
      id \in {1, 2}, offer \in BOOLEAN, s \in {<<None, None>>, <<k1, n1>>, <<k1, n2>>},
      product \in {None, k2}, name \in {None, n1}, alias \in {None, n1, n2}}

SmallLines == Stock \cup {Blank, Malformed}

Product(id, words) ==
  [id |-> id, offer |-> FALSE, sku |-> None, label |-> None, product |-> None,
   names |-> <<Phrase(words, "given")>>, aliases |-> <<>>]

Worded == SUBSET {"a", "b", "c", "x", "y"} \ {{}}

MCFiles ==
  UNION {[1..n -> SmallLines] : n \in 0..2}
    \cup {<<Product(1, v), Product(2, w), Product(3, {"c", "z", "common"})>>
             \o [i \in 1..4 |-> Product(i + 3, {"common"})] : v, w \in Worded}

(* The parser makes an explicit identifier the entity of the claim and      *)
(* never finds one in its text.                                             *)
MCRequests ==
  {[reference |-> reference, sku |-> sku,
    entity |-> IF reference # None THEN reference ELSE sku, name |-> name] :
      reference \in {None, 2, k1, k2}, sku \in {None, k1}, name \in {n1, n2}}
  \cup
  {[reference |-> None, sku |-> None, entity |-> None, name |-> Phrase(words, "turned")] :
      words \in {{"a"}, {"a", "b"}, {"a", "b", "c"}, {"b", "c", "common"}, {"a", "unknown"},
                 {"unknown"}}}

=============================================================================
