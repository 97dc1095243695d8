------------------------ MODULE MCEvaluationCheckpoint ------------------------
(* Three samples, so that one is taken over from the parent, one batch of   *)
(* two is full and another is not.  Of the inputs, one per kind of window   *)
(* changes: a file that is read again, the environment, and the model.      *)
EXTENDS EvaluationCheckpoint

CONSTANTS s1, s2, s3, v1, v2

MCSamples == <<s1, s2, s3>>

=============================================================================
