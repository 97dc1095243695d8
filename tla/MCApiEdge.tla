------------------------------ MODULE MCApiEdge -------------------------------
(***************************************************************************)
(* Two requests that may choose the same id.  The shapes are chosen so that *)
(* each branch of the middlewares and of the routes is taken by one.        *)
(***************************************************************************)
EXTENDS ApiEdge

CONSTANTS r1, r2, s1

Shape(route, supplied, declared) ==
  [route |-> route, post |-> route \in Verifying, supplied |-> supplied, declared |-> declared,
   fits |-> declared # "beyond", valid |-> TRUE, claims |-> 1]
Batch(supplied, n) == [Shape("batch", supplied, "within") EXCEPT !.claims = n]

MCArrivals ==
  { Shape("verify", s1, "within"),
    [Shape("verify", None, "within") EXCEPT !.valid = FALSE],
    Shape("verify", None, "beyond"),
    Shape("verify", s1, "absent"),
    [Shape("verify", UnsafeId, "absent") EXCEPT !.fits = FALSE],
    Shape("verify", None, "unreadable"),
    Batch(s1, 2), Batch(None, 3),
    Shape("ready", None, "absent"), Shape("health", UnsafeId, "absent"),
    Shape("metrics", s1, "absent"), Shape("unknown", s1, "absent"),
    [Shape("unknown", None, "absent") EXCEPT !.post = TRUE, !.fits = FALSE] }

MCRequests == {r1, r2}
=============================================================================
