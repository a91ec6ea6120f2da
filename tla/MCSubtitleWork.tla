--------------------------- MODULE MCSubtitleWork ---------------------------
(* SubtitleWork on a small instance.                                       *)
EXTENDS SubtitleWork
=============================================================================
