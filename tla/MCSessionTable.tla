--------------------------- MODULE MCSessionTable ---------------------------
(* SessionTable for TLC: two starts under a cap of one, two seeks.           *)
EXTENDS SessionTable
=============================================================================
