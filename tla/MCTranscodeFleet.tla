-------------------------- MODULE MCTranscodeFleet --------------------------
(* TranscodeFleet on a small fleet.                                         *)
EXTENDS TranscodeFleet
=============================================================================
