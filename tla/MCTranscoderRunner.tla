------------------------- MODULE MCTranscoderRunner -------------------------
(* TranscoderRunner on two starts of a session.                           *)
EXTENDS TranscoderRunner

MCStarts == 1..2
=============================================================================
