-------------------------- MODULE MCGeminiCascade --------------------------
(* A small instance of GeminiCascade: two models, two keys, two calls at a time. *)
EXTENDS GeminiCascade

MCLanes == {1, 2}
MCDelays == {}
=============================================================================
