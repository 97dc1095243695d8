------------------------- MODULE MCProviderTransport -------------------------
(***************************************************************************)
(* Two calls that share one permit.  A timeout of three ticks, or of four  *)
(* with backoffs twice as long where the budget alone is looked at, leaves *)
(* room for a connection, a first backoff and little more: it runs out in  *)
(* every place it can.                                                     *)
(***************************************************************************)
EXTENDS ProviderTransport

CONSTANTS c1, c2

=============================================================================
