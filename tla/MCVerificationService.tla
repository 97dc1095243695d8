------------------------ MODULE MCVerificationService ------------------------
(***************************************************************************)
(* Small instances of VerificationService.  Batch b1 has two claims, one   *)
(* with allow_llm off in the "gated" instance; b2 has one claim; b3 has    *)
(* one claim more than a batch may have.                                   *)
(***************************************************************************)
EXTENDS VerificationService

CONSTANTS i1, i2, i3, i4, i5, i6, b1, b2, b3

MCItems == {i1, i2, i3, i4, i5, i6}
MCBatches == {b1, b2, b3}
MCBatchOf ==
  [i \in MCItems |-> IF i \in {i1, i2} THEN b1 ELSE IF i = i3 THEN b2 ELSE b3]
MCAllowSome == [i \in MCItems |-> i # i2]

HybridCfg == [enabled |-> TRUE, onUnresolved |-> FALSE, onMissing |-> FALSE,
              blockSupport |-> TRUE]

Typed == [parsed |-> TRUE, typed |-> TRUE, conf |-> 90]
Untyped == [parsed |-> FALSE, typed |-> FALSE, conf |-> 20]
Found == [found |-> TRUE, absent |-> FALSE, capable |-> TRUE]
Bare == [found |-> TRUE, absent |-> FALSE, capable |-> FALSE]
Absent == [found |-> TRUE, absent |-> TRUE, capable |-> FALSE]
Nowhere == [found |-> FALSE, absent |-> FALSE, capable |-> FALSE]

Settled == [verdict |-> "CONTRADICTED", conf |-> 90, codes |-> {}, count |-> 2,
            escalate |-> FALSE]
Doubtful == [verdict |-> "CONTRADICTED", conf |-> 80, codes |-> {"LOW_CONFIDENCE_ABSTAIN"},
             count |-> 2, escalate |-> TRUE]
Unpublished == [verdict |-> "INSUFFICIENT_EVIDENCE", conf |-> 95,
                codes |-> {"FIELD_NOT_IN_REFERENCE"}, count |-> 1, escalate |-> TRUE]
Silent == [verdict |-> NoVerdict, conf |-> 0, codes |-> {"UNPARSEABLE_CLAIM"},
           count |-> 1, escalate |-> TRUE]

Rd(valid, weak, named, claim, evidence, rules) ==
  [valid |-> valid, weak |-> weak, named |-> named, claim |-> claim,
   evidence |-> evidence, rules |-> rules]

Empty       == Rd(FALSE, FALSE, FALSE, Untyped, Nowhere, Silent)
Unknown     == Rd(TRUE, FALSE, TRUE, Typed, Nowhere, Silent)
Terminal    == Rd(TRUE, FALSE, TRUE, Typed, Found, Settled)
Ambiguous   == Rd(TRUE, FALSE, TRUE, Typed, Found, Doubtful)
Missing     == Rd(TRUE, FALSE, TRUE, Typed, Absent, Unpublished)
Weak        == Rd(TRUE, TRUE, TRUE, Untyped, Bare, Silent)

MCReadings == {Empty, Unknown, Terminal, Ambiguous, Missing, Weak}

MCErrors == {"llm_timeout"}
=============================================================================
