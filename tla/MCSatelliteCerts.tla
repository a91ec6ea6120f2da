-------------------------- MODULE MCSatelliteCerts --------------------------
(* SatelliteCerts for TLC: three certificates, two overlapping handshakes.   *)
EXTENDS SatelliteCerts
=============================================================================
