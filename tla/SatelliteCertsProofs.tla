------------------------ MODULE SatelliteCertsProofs ------------------------
(***************************************************************************)
(* A satellite is not locked out by its renewals, and the verifier's set   *)
(* is what the table records, for any number of certificates, connections  *)
(* and faults.                                                             *)
(***************************************************************************)
EXTENDS SatelliteCerts, TLAPS

MaybeCert == Certs \cup {NoCert}
Deletion == [step : {"none", "pending", "commit", "apply"},
             cert : MaybeCert, pending : MaybeCert]

Enrolling == \E c \in Certs : enrolling[c] # "none"
Connecting == \E l \in Links : settling[l].step # "none"

(* The types, and what was issued.                                         *)
Types ==
    /\ TypeOK
    /\ deletion \in Deletion
    /\ awaited \in MaybeCert
    /\ chained \in BOOLEAN /\ lapses \in BOOLEAN /\ crossed \in BOOLEAN
    /\ deletion.step = "none" => deletion = NoDeletion
    /\ deletion.step # "none" => deletion.cert \in Certs
    /\ deletion.step \in {"pending", "commit"} => row # NoRow

Issued ==
    /\ row # NoRow => /\ row.cert <= issued
                      /\ row.pending # NoCert => row.pending <= issued
    /\ \A c \in allowed : c <= issued
    /\ deletion.cert # NoCert => deletion.cert <= issued
    /\ deletion.pending # NoCert => deletion.pending <= issued
    /\ sat # NoCert => sat <= issued
    /\ approved # NoCert => approved <= issued
    /\ \A c \in InFlight : c <= issued
    /\ \A l \in Links : \A x \in {settling[l].presented, settling[l].current, settling[l].pending} :
        x # NoCert => x <= issued
    /\ awaited # NoCert => renewing[awaited].step # "none" /\ sat # NoCert

(* There is one enrollment at a time, and until its certificate has been   *)
(* admitted nothing but a deletion happens to the satellite.               *)
OneEnrollment ==
    /\ csr => approved = NoCert /\ sat = NoCert /\ phase = "polling"
    /\ approved # NoCert /\ sat = NoCert => phase = "polling"
    /\ phase = "polling" => sat = NoCert
    /\ sat = NoCert => phase \in {"down", "polling"}
    /\ \A c \in Certs : enrolling[c] # "none" =>
        /\ c = approved /\ c = issued /\ sat \in {NoCert, c} /\ c \notin allowed
        /\ enrolling[c] = "record" =>
            /\ row # NoRow => row.cert # c
            /\ deletion.cert # c
        /\ enrolling[c] = "admit" /\ row # NoRow => row.cert = c
    /\ sat = NoCert \/ Enrolling =>
        /\ InFlight = {} /\ ~Connecting
        /\ row # NoRow => row.pending = NoCert
        /\ deletion.pending = NoCert

(* Renewals that were never chained come one after the other: the one in   *)
(* flight is the newest certificate, which nobody has seen yet, and no     *)
(* settlement has written over another's row.                              *)
Orderly == ~chained /\ "stale" \notin torn
InOrder ==
    /\ \A c \in InFlight :
        /\ c = issued /\ sat # NoCert /\ sat < c
        /\ \A l \in Links : settling[l].presented # c /\ settling[l].current # c
                            /\ settling[l].pending # c
        /\ renewing[c].step = "apply" => renewing[c].old # c
        /\ renewing[c].step = "commit" =>
            /\ row # NoRow => row.cert # c /\ row.pending # c
            /\ deletion.cert # c /\ deletion.pending # c
        /\ renewing[c].step \in {"apply", "answer"} =>
            \/ row = NoRow
            \/ row.pending = c /\ ~row.lapsed
    /\ row # NoRow /\ row.pending # NoCert => row.cert < row.pending
    /\ \A l \in Links : settling[l].step # "none" =>
        /\ settling[l].presented # NoCert /\ settling[l].presented <= sat
        /\ settling[l].step \in {"commit", "apply"} =>
            /\ settling[l].current # NoCert /\ settling[l].pending # NoCert
            /\ settling[l].current < settling[l].pending
            /\ settling[l].pending = settling[l].presented \/ settling[l].lapsed

CertInv == Types /\ Issued /\ OneEnrollment /\ (Orderly => InOrder)

(* The certificate the satellite has, or is to fetch.                      *)
Owned == IF sat # NoCert THEN sat ELSE approved

Clean == torn \cap {"approval", "stale"} = {} /\ ~lapses /\ ~chained

(* What keeps the satellite in: its certificate is admitted and recorded,  *)
(* and nothing a handler still has to withdraw is that certificate.        *)
KeptIn ==
    /\ row # NoRow => ~row.lapsed
    /\ \A l \in Links : ~settling[l].lapsed
    /\ \A c \in InFlight :
        /\ row # NoRow => row.cert = sat
        /\ renewing[c].step = "apply" => renewing[c].old # sat
        /\ renewing[c].step = "answer" /\ row # NoRow => c \in allowed
    /\ Owned # NoCert /\ ~Enrolling /\ row # NoRow => Owned \in allowed \cap Recorded(row)
    /\ deletion.step = "apply" /\ row # NoRow =>
        deletion.cert < row.cert /\ deletion.pending = NoCert

Tidy == torn = {} /\ ~crossed /\ ~chained

(* What is recorded and not admitted yet, and what a handler is about to   *)
(* withdraw.                                                               *)
Arriving == {c \in Certs : enrolling[c] = "admit" \/ renewing[c].step = "apply"}
Retired(l) == IF Promotes(settling[l]) THEN settling[l].current ELSE settling[l].pending
Leaving ==
    {x \in Certs : \/ \E c \in Certs : renewing[c].step = "apply" /\ renewing[c].old = x
                   \/ \E l \in Links : settling[l].step = "apply" /\ Retired(l) = x
                   \/ deletion.step = "apply" /\ x \in {deletion.cert, deletion.pending}}

(* Row and allowlist differ by what the handlers under way still owe.      *)
Mirrored ==
    /\ Recorded(row) \subseteq allowed \cup Arriving
    /\ allowed \subseteq Recorded(row) \cup Leaving
    /\ Leaving \cap Recorded(row) = {}
    /\ deletion.step # "none" => InFlight = {} /\ ~Connecting
    /\ deletion.step \in {"pending", "commit"} =>
        deletion.cert = row.cert /\ \A c \in Certs : enrolling[c] # "admit"
    /\ deletion.step = "commit" => deletion.pending = row.pending
    /\ \A c \in Certs : enrolling[c] = "admit" \/ renewing[c].step \in {"apply", "answer"} => row # NoRow
    /\ \A l \in Links : settling[l].step = "commit" /\ row # NoRow /\ row.pending = settling[l].pending
                        => row.cert = settling[l].current

-----------------------------------------------------------------------------
(* Records that change.                                                    *)

(* The row's renewal is set, or swept.                                     *)
LEMMA RenewalSet ==
    ASSUME row \in Row, NEW p \in MaybeCert,
           row' = [row EXCEPT !.pending = p, !.lapsed = FALSE]
    PROVE  /\ row' \in Row /\ row' # NoRow
           /\ row'.cert = row.cert /\ row'.pending = p /\ ~row'.lapsed
<1>1. PICK q : q = [row EXCEPT !.pending = p]
  OBVIOUS
<1>2. q = [cert |-> row.cert, pending |-> p, lapsed |-> row.lapsed]
  BY <1>1 DEF Row
<1>3. row' = [q EXCEPT !.lapsed = FALSE]
  BY <1>1
<1>4. row' = [cert |-> row.cert, pending |-> p, lapsed |-> FALSE]
  BY <1>2, <1>3
<1>5. row' \in Row
  BY <1>4 DEF Row, MaybeCert
<1> QED
  BY <1>4, <1>5, CertsAssumption

(* The grace of the row's renewal runs out.                                *)
LEMMA RenewalLapses ==
    ASSUME row \in Row, row' = [row EXCEPT !.lapsed = TRUE]
    PROVE  /\ row' \in Row /\ row' # NoRow
           /\ row'.cert = row.cert /\ row'.pending = row.pending /\ row'.lapsed
<1>1. row' = [cert |-> row.cert, pending |-> row.pending, lapsed |-> TRUE]
  BY DEF Row
<1>2. row' \in Row
  BY <1>1 DEF Row
<1> QED
  BY <1>1, <1>2, CertsAssumption

(* A renewal that moves to its next step.                                  *)
LEMMA RenewalMoves ==
    ASSUME Types, NEW c \in Certs, NEW s \in {"commit", "apply", "answer"},
           renewing' = [renewing EXCEPT ![c].step = s]
    PROVE  /\ renewing' \in [Certs -> Renewal]
           /\ renewing'[c].step = s /\ renewing'[c].old = renewing[c].old
           /\ \A d \in Certs : d # c => renewing'[d] = renewing[d]
<1>1. renewing \in [Certs -> Renewal]
  BY DEF Types, TypeOK
<1>2. PICK v : v = [renewing[c] EXCEPT !.step = s]
  OBVIOUS
<1>3. v \in Renewal /\ v.step = s /\ v.old = renewing[c].old
  BY <1>1, <1>2 DEF Renewal
<1>4. renewing' = [renewing EXCEPT ![c] = v]
  BY <1>1, <1>2
<1> QED
  BY <1>1, <1>3, <1>4

(* A settlement that is put in place.                                      *)
LEMMA SettlementPut ==
    ASSUME Types, NEW l \in Links, NEW v \in Settlement, settling' = [settling EXCEPT ![l] = v]
    PROVE  /\ settling' \in [Links -> Settlement] /\ settling'[l] = v
           /\ \A k \in Links : k # l => settling'[k] = settling[k]
BY DEF Types, TypeOK

(* A settlement that moves to its next step.                               *)
LEMMA SettlementMoves ==
    ASSUME Types, NEW l \in Links, NEW s \in {"read", "commit", "apply"},
           settling' = [settling EXCEPT ![l].step = s]
    PROVE  /\ settling' \in [Links -> Settlement]
           /\ settling'[l] \in Settlement /\ settling'[l].step = s
           /\ settling'[l].presented = settling[l].presented
           /\ settling'[l].current = settling[l].current
           /\ settling'[l].pending = settling[l].pending
           /\ settling'[l].lapsed = settling[l].lapsed
           /\ \A k \in Links : k # l => settling'[k] = settling[k]
<1>1. settling \in [Links -> Settlement]
  BY DEF Types, TypeOK
<1>2. PICK v : v = [settling[l] EXCEPT !.step = s]
  OBVIOUS
<1>3. /\ v \in Settlement /\ v.step = s /\ v.presented = settling[l].presented
      /\ v.current = settling[l].current /\ v.pending = settling[l].pending
      /\ v.lapsed = settling[l].lapsed
  BY <1>1, <1>2 DEF Settlement
<1>4. settling' = [settling EXCEPT ![l] = v]
  BY <1>1, <1>2
<1> QED
  BY <1>3, <1>4, SettlementPut

(* No settlement is one.                                                   *)
LEMMA NoSettlementType ==
    /\ NoSettlement \in Settlement /\ NoSettlement.step = "none"
    /\ NoSettlement.presented = NoCert /\ NoSettlement.current = NoCert
    /\ NoSettlement.pending = NoCert /\ NoSettlement.lapsed = FALSE
BY DEF NoSettlement, Settlement

(* A handler that is done.                                                 *)
LEMMA SettledFacts ==
    ASSUME Types, NEW l \in Links, Settled(l)
    PROVE  /\ settling' \in [Links -> Settlement] /\ settling'[l] = NoSettlement
           /\ \A k \in Links : k # l => settling'[k] = settling[k]
           /\ gate' \in Links \cup {Free, "delete"}
           /\ gate' = "delete" <=> gate = "delete"
<1>1. settling' = [settling EXCEPT ![l] = NoSettlement] /\ gate' = IF gate = l THEN Free ELSE gate
  BY DEF Settled
<1>2. gate' \in Links \cup {Free, "delete"} /\ (gate' = "delete" <=> gate = "delete")
  BY <1>1, CertsAssumption DEF Types, TypeOK
<1> QED
  BY <1>1, <1>2, NoSettlementType, SettlementPut

(* A connection that begins.                                               *)
LEMMA ConnectFacts ==
    ASSUME Types, NEW l \in Links, Connect(l)
    PROVE  /\ settling' \in [Links -> Settlement] /\ settling'[l].step \in {"enter", "read"}
           /\ settling'[l].presented = sat /\ settling'[l].current = NoCert
           /\ settling'[l].pending = NoCert /\ settling'[l].lapsed = FALSE
           /\ \A k \in Links : k # l => settling'[k] = settling[k]
<1>1. PICK v : v = [NoSettlement EXCEPT !.presented = sat,
                        !.step = IF kind = "mediahost" THEN "enter" ELSE "read"]
  OBVIOUS
<1>2. sat \in Certs \cup {NoCert}
  BY DEF Types, TypeOK
<1>3. /\ v \in Settlement /\ v.step \in {"enter", "read"} /\ v.presented = sat
      /\ v.current = NoCert /\ v.pending = NoCert /\ v.lapsed = FALSE
  BY <1>1, <1>2 DEF NoSettlement, Settlement
<1>4. settling' = [settling EXCEPT ![l] = v]
  BY <1>1 DEF Connect
<1> QED
  BY <1>3, <1>4, SettlementPut

(* A mediahost's handshake goes on, or ends.                               *)
LEMMA EnterFacts ==
    ASSUME Types, NEW l \in Links, Enter(l)
    PROVE  /\ settling' \in [Links -> Settlement]
           /\ \A k \in Links : k # l => settling'[k] = settling[k]
           /\ \/ /\ settling'[l].step = "read"
                 /\ settling'[l].presented = settling[l].presented
                 /\ settling'[l].current = settling[l].current
                 /\ settling'[l].pending = settling[l].pending
                 /\ settling'[l].lapsed = settling[l].lapsed
              \/ settling'[l] = NoSettlement
<1>1. CASE settling' = [settling EXCEPT ![l].step = "read"]
  BY <1>1, SettlementMoves
<1>2. CASE settling' = [settling EXCEPT ![l] = NoSettlement]
  BY <1>2, SettlementPut, NoSettlementType
<1> QED
  BY <1>1, <1>2 DEF Enter

(* What settle_renewal reads.                                              *)
LEMMA ReadFacts ==
    ASSUME Types, NEW l \in Links, ReadRow(l)
    PROVE  /\ settling' \in [Links -> Settlement]
           /\ \A k \in Links : k # l => settling'[k] = settling[k]
           /\ \/ /\ row # NoRow /\ row.pending # NoCert /\ gate' = gate
                 /\ settling'[l].step = "commit"
                 /\ settling'[l].presented = settling[l].presented
                 /\ settling'[l].current = row.cert
                 /\ settling'[l].pending = row.pending
                 /\ settling'[l].lapsed = row.lapsed
                 /\ row.pending = settling[l].presented \/ row.lapsed
              \/ settling'[l] = NoSettlement /\ Settled(l)
<1>1. PICK v : v = [settling[l] EXCEPT !.step = "commit", !.current = row.cert,
                        !.pending = row.pending, !.lapsed = row.lapsed]
  OBVIOUS
<1>2. CASE Settled(l)
  BY <1>2, SettledFacts
<1>3. CASE /\ row # NoRow /\ row.pending # NoCert /\ (Promotes(v) \/ v.lapsed)
           /\ settling' = [settling EXCEPT ![l] = v] /\ UNCHANGED gate
  <2>1. row \in Row
    BY <1>3 DEF Types, TypeOK
  <2>2. row.cert \in Certs /\ row.pending \in Certs \cup {NoCert} /\ row.lapsed \in BOOLEAN
    BY <2>1 DEF Row
  <2>3. settling[l] \in Settlement
    BY DEF Types, TypeOK
  <2>4. v = [step |-> "commit", presented |-> settling[l].presented, current |-> row.cert,
             pending |-> row.pending, lapsed |-> row.lapsed]
    BY <1>1, <2>3 DEF Settlement
  <2>5. v \in Settlement
    BY <2>2, <2>3, <2>4 DEF Settlement
  <2>6. settling' \in [Links -> Settlement] /\ settling'[l] = v
        /\ \A k \in Links : k # l => settling'[k] = settling[k]
    BY <1>3, <2>5, SettlementPut
  <2>7. row.pending = settling[l].presented \/ row.lapsed
    BY <1>3, <2>4 DEF Promotes
  <2> QED
    BY <1>3, <2>4, <2>6, <2>7
<1> QED
  BY <1>1, <1>2, <1>3 DEF ReadRow

(* What its transaction leaves.                                            *)
LEMMA CommitFacts ==
    ASSUME Types, NEW l \in Links, CommitSettlement(l)
    PROVE  /\ settling' \in [Links -> Settlement]
           /\ \A k \in Links : k # l => settling'[k] = settling[k]
           /\ \/ /\ row # NoRow /\ Promotes(settling[l]) /\ row.pending = NoCert
                 /\ row' = row /\ Settled(l) /\ settling'[l] = NoSettlement
              \/ /\ gate' = gate
                 /\ settling'[l].step = "apply"
                 /\ settling'[l].presented = settling[l].presented
                 /\ settling'[l].current = settling[l].current
                 /\ settling'[l].pending = settling[l].pending
                 /\ settling'[l].lapsed = settling[l].lapsed
                 /\ \/ row = NoRow /\ row' = NoRow
                    \/ /\ row # NoRow /\ row' \in Row /\ row' # NoRow
                       /\ row'.cert = IF Promotes(settling[l]) THEN row.pending ELSE row.cert
                       /\ row'.pending = NoCert /\ row'.lapsed = FALSE
<1>1. CASE /\ row # NoRow /\ Promotes(settling[l]) /\ row.pending = NoCert
           /\ Settled(l) /\ UNCHANGED row
  BY <1>1, SettledFacts
<1>2. CASE /\ ~(row # NoRow /\ Promotes(settling[l]) /\ row.pending = NoCert)
           /\ row' = IF row = NoRow THEN NoRow
                     ELSE [cert |-> IF Promotes(settling[l]) THEN row.pending ELSE row.cert,
                           pending |-> NoCert, lapsed |-> FALSE]
           /\ settling' = [settling EXCEPT ![l].step = "apply"]
           /\ UNCHANGED gate
  <2>1. /\ settling' \in [Links -> Settlement]
        /\ \A k \in Links : k # l => settling'[k] = settling[k]
        /\ settling'[l].step = "apply"
        /\ settling'[l].presented = settling[l].presented
        /\ settling'[l].current = settling[l].current
        /\ settling'[l].pending = settling[l].pending
        /\ settling'[l].lapsed = settling[l].lapsed
    BY <1>2, SettlementMoves
  <2>2. ASSUME row # NoRow
        PROVE  /\ row' \in Row /\ row' # NoRow
               /\ row'.cert = IF Promotes(settling[l]) THEN row.pending ELSE row.cert
               /\ row'.pending = NoCert /\ row'.lapsed = FALSE
    <3>1. row \in Row
      BY <2>2 DEF Types, TypeOK
    <3>2. PICK c : c = IF Promotes(settling[l]) THEN row.pending ELSE row.cert
      OBVIOUS
    <3>3. c \in Certs
      BY <1>2, <2>2, <3>1, <3>2 DEF Row
    <3>4. row' = [cert |-> c, pending |-> NoCert, lapsed |-> FALSE]
      BY <1>2, <2>2, <3>2
    <3>5. row' \in Row
      BY <3>3, <3>4 DEF Row
    <3> QED
      BY <3>2, <3>4, <3>5, CertsAssumption
  <2> QED
    BY <1>2, <2>1, <2>2
<1> QED
  BY <1>1, <1>2 DEF CommitSettlement

(* A handler that is dropped leaves no trace but its half-done writes.     *)
LEMMA DropFacts ==
    ASSUME CertInv, DropHandler
    PROVE  /\ UNCHANGED <<kind, hub, satellite, lapses, chained, crossed>>
           /\ \A c \in Certs : renewing'[c] = renewing[c] \/ (renewing'[c] = NoRenewal /\ awaited # c)
           /\ \A l \in Links : settling'[l] = settling[l] \/ settling'[l] = NoSettlement
           /\ \A c \in Certs : enrolling'[c] \in {enrolling[c], "none"}
           /\ deletion' = deletion \/ deletion' = NoDeletion
           /\ torn \subseteq torn'
           /\ (\A c \in Certs : enrolling'[c] = enrolling[c]) \/ "approval" \in torn'
           /\ torn' = {} =>
                /\ \A c \in Certs : renewing[c].step = "apply" => renewing'[c] = renewing[c]
                /\ \A l \in Links : settling[l].step = "apply" => settling'[l] = settling[l]
                /\ deletion.step = "apply" => deletion' = deletion
<1>0. UNCHANGED <<kind, hub, satellite, lapses, chained, crossed>>
  BY DEF DropHandler
<1>t. Types /\ enrolling \in [Certs -> {"none", "record", "admit"}] /\ renewing \in [Certs -> Renewal]
  BY DEF CertInv, Types, TypeOK
<1>1. ASSUME NEW c \in Certs, enrolling' = [enrolling EXCEPT ![c] = "none"], torn' = torn \cup {"approval"},
             UNCHANGED <<renewing, settling, deletion, gate>>
      PROVE  /\ \A d \in Certs : enrolling'[d] \in {enrolling[d], "none"}
             /\ "approval" \in torn' /\ torn' # {}
  BY <1>t, <1>1
<1>2. ASSUME NEW c \in InFlight, awaited # c,
             torn' = torn \cup (IF renewing[c].step = "apply" THEN {"renewal"} ELSE {}),
             renewing' = [renewing EXCEPT ![c] = NoRenewal], UNCHANGED <<enrolling, settling, deletion, gate>>
      PROVE  /\ \A d \in Certs : renewing'[d] = renewing[d] \/ (renewing'[d] = NoRenewal /\ awaited # d)
             /\ torn' = {} => \A d \in Certs : renewing[d].step = "apply" => renewing'[d] = renewing[d]
  BY <1>t, <1>2 DEF InFlight
<1>3. ASSUME NEW l \in Links,
             torn' = torn \cup (IF settling[l].step = "apply" THEN {"settlement"} ELSE {}), Settled(l)
      PROVE  /\ \A k \in Links : settling'[k] = settling[k] \/ settling'[k] = NoSettlement
             /\ torn' = {} => \A k \in Links : settling[k].step = "apply" => settling'[k] = settling[k]
  <2>1. settling'[l] = NoSettlement /\ \A k \in Links : k # l => settling'[k] = settling[k]
    BY <1>t, <1>3, SettledFacts
  <2> QED
    BY <2>1, <1>3
<1>4. ASSUME torn' = torn \cup (IF deletion.step = "apply" THEN {"deletion"} ELSE {})
      PROVE  torn' = {} => deletion.step # "apply"
  BY <1>4
<1>5. \/ \E c \in Certs : /\ enrolling' = [enrolling EXCEPT ![c] = "none"]
                          /\ torn' = torn \cup {"approval"}
                          /\ UNCHANGED <<renewing, settling, deletion, gate>>
      \/ \E c \in InFlight : /\ awaited # c
            /\ torn' = torn \cup (IF renewing[c].step = "apply" THEN {"renewal"} ELSE {})
            /\ renewing' = [renewing EXCEPT ![c] = NoRenewal]
            /\ UNCHANGED <<enrolling, settling, deletion, gate>>
      \/ \E l \in Links :
            /\ torn' = torn \cup (IF settling[l].step = "apply" THEN {"settlement"} ELSE {})
            /\ Settled(l) /\ UNCHANGED <<enrolling, renewing, deletion>>
      \/ /\ torn' = torn \cup (IF deletion.step = "apply" THEN {"deletion"} ELSE {})
         /\ deletion' = NoDeletion /\ UNCHANGED <<enrolling, renewing, settling>>
  BY DEF DropHandler
<1> QED
  <2>1. CASE \E c \in Certs : /\ enrolling' = [enrolling EXCEPT ![c] = "none"]
                          /\ torn' = torn \cup {"approval"}
                          /\ UNCHANGED <<renewing, settling, deletion, gate>>
    BY <1>0, <1>1, <2>1
  <2>2. CASE \E c \in InFlight : /\ awaited # c
            /\ torn' = torn \cup (IF renewing[c].step = "apply" THEN {"renewal"} ELSE {})
            /\ renewing' = [renewing EXCEPT ![c] = NoRenewal]
            /\ UNCHANGED <<enrolling, settling, deletion, gate>>
    BY <1>0, <1>2, <2>2
  <2>3. CASE \E l \in Links :
            /\ torn' = torn \cup (IF settling[l].step = "apply" THEN {"settlement"} ELSE {})
            /\ Settled(l) /\ UNCHANGED <<enrolling, renewing, deletion>>
    BY <1>0, <1>3, <2>3
  <2>4. CASE /\ torn' = torn \cup (IF deletion.step = "apply" THEN {"deletion"} ELSE {})
             /\ deletion' = NoDeletion /\ UNCHANGED <<enrolling, renewing, settling>>
    BY <1>0, <1>4, <2>4
  <2> QED
    BY <1>5, <2>1, <2>2, <2>3, <2>4

(* The upsert keeps a pending renewal.                                     *)
LEMMA RecordFacts ==
    ASSUME Types, NEW c \in Certs, RecordSatellite(c)
    PROVE  /\ row' \in Row /\ row' # NoRow /\ row'.cert = c
           /\ row = NoRow => row'.pending = NoCert /\ row'.lapsed = FALSE
           /\ row # NoRow => row'.pending = row.pending /\ row'.lapsed = row.lapsed
<1>1. CASE row = NoRow
  <2>1. row' = [cert |-> c, pending |-> NoCert, lapsed |-> FALSE]
    BY <1>1 DEF RecordSatellite
  <2>2. row' \in Row
    BY <2>1 DEF Row
  <2> QED
    BY <1>1, <2>1, <2>2, CertsAssumption
<1>2. CASE row # NoRow
  <2>1. row \in Row
    BY <1>2 DEF Types, TypeOK
  <2>2. row' = [row EXCEPT !.cert = c]
    BY <1>2 DEF RecordSatellite
  <2>3. row' = [cert |-> c, pending |-> row.pending, lapsed |-> row.lapsed]
    BY <2>1, <2>2 DEF Row
  <2>4. row' \in Row
    BY <2>1, <2>3 DEF Row
  <2> QED
    BY <1>2, <2>3, <2>4, CertsAssumption
<1> QED
  BY <1>1, <1>2

-----------------------------------------------------------------------------
(* What each handler keeps.                                                *)

(* Every handler keeps the types.                                          *)
LEMMA TypesStep ==
    ASSUME CertInv, Next
    PROVE  Types'
<1>1. CASE Submit
  BY <1>1, CertsAssumption DEF CertInv, Types, TypeOK, Deletion, MaybeCert, Renewal, Settlement,
     Row, Certs, Issued, Submit, handlers, history, NoDeletion
<1>2. CASE Expire
  <2>1. csr' \in BOOLEAN /\ approved' = NoCert
    BY <1>2 DEF Expire
  <2> QED
    BY <1>2, <2>1, CertsAssumption DEF CertInv, Types, TypeOK, Expire, handlers, satellite,
       history, NoDeletion
<1>3. CASE Approve
  <2>0. csr' \in BOOLEAN
    BY <1>3 DEF Approve
  <2>1. issued' \in 0 .. MaxCerts /\ approved' \in Certs /\ approved' = issued + 1
    BY <1>3, CertsAssumption DEF Approve, CertInv, Types, TypeOK, Certs
  <2>2. enrolling' \in [Certs -> {"none", "record", "admit"}]
    BY <1>3, <2>1 DEF Approve, CertInv, Types, TypeOK
  <2> QED
    BY <1>3, <2>0, <2>1, <2>2, CertsAssumption DEF CertInv, Types, TypeOK, Approve, satellite,
       history, NoDeletion
<1>4. CASE Poll
  BY <1>4, CertsAssumption DEF CertInv, Types, TypeOK, Deletion, MaybeCert, Renewal, Settlement,
     Row, Certs, Issued, Poll, hub, handlers, history, NoDeletion
<1>5. CASE AskRenewal
  <2>1. issued + 1 \in Certs /\ issued' = issued + 1 /\ NoCert \notin Certs
    BY <1>5, CertsAssumption DEF AskRenewal, CertInv, Types, TypeOK, Certs
  <2>2. renewing' \in [Certs -> Renewal]
    BY <1>5, <2>1, RenewalMoves DEF AskRenewal, CertInv
  <2>3. chained' \in BOOLEAN /\ crossed' \in BOOLEAN
    BY <1>5 DEF AskRenewal
  <2> QED
    BY <1>5, <2>1, <2>2, <2>3, CertsAssumption DEF CertInv, Types, TypeOK, AskRenewal,
       NoDeletion, MaybeCert, Certs
<1>6. CASE LoseAnswer
  BY <1>6, CertsAssumption DEF CertInv, Types, TypeOK, Deletion, MaybeCert, Renewal, Settlement,
     Row, Certs, Issued, LoseAnswer, hub, handlers, history, NoDeletion
<1>7. CASE Lapse
  <2>1. /\ row' \in Row /\ row' # NoRow
        /\ row'.cert = row.cert /\ row'.pending = row.pending /\ row'.lapsed
    BY <1>7, RenewalLapses DEF Lapse, CertInv, Types, TypeOK
  <2> QED
    BY <1>7, <2>1, CertsAssumption DEF CertInv, Types, TypeOK, Lapse, handlers, satellite,
       NoDeletion, MaybeCert
<1>8. CASE BeginDelete
  BY <1>8, CertsAssumption DEF CertInv, Types, TypeOK, Deletion, MaybeCert, Renewal, Settlement,
     Row, Certs, Issued, BeginDelete, hub, satellite, Busy, InFlight, NoDeletion
<1>9. CASE Restart
  <2>1. \/ row' = row /\ (row # NoRow => row \in Row /\ ~row.lapsed)
        \/ row # NoRow /\ row' \in Row /\ row' # NoRow /\ row'.cert = row.cert /\ row'.pending = NoCert /\ ~row'.lapsed
    <3>1. CASE row # NoRow /\ row.lapsed
      <4>1. row' = [row EXCEPT !.pending = NoCert, !.lapsed = FALSE]
        BY <1>9, <3>1 DEF Restart, Swept
      <4>2. row \in Row /\ NoCert \in MaybeCert
        BY <3>1 DEF CertInv, Types, TypeOK, MaybeCert
      <4> QED
        BY <3>1, <4>1, <4>2, RenewalSet
    <3>2. CASE ~(row # NoRow /\ row.lapsed)
      BY <1>9, <3>2 DEF Restart, Swept, CertInv, Types, TypeOK
    <3> QED
      BY <3>1, <3>2
  <2>10. row' # NoRow => row' \in Row /\ row'.cert \in Certs /\ row'.pending \in Certs \cup {NoCert}
    BY <2>1 DEF Row
  <2>11. allowed' \subseteq Certs
    BY <1>9, <2>10 DEF Restart, Recorded
  <2>2. csr' \in BOOLEAN /\ settling' \in [Links -> Settlement] /\ renewing' \in [Certs -> Renewal]
    BY <1>9, NoSettlementType DEF Restart, NoRenewal, Renewal
  <2>3. gate' = Free /\ deletion' = NoDeletion /\ enrolling' \in [Certs -> {"none", "record", "admit"}]
    BY <1>9 DEF Restart
  <2>4. phase' # "renewing" /\ phase' \in {"down", "polling", "renewing", "ready", "linked"}
    BY <1>9 DEF Restart, CertInv, Types, TypeOK
  <2> QED
    BY <1>9, <2>1, <2>10, <2>11, <2>2, <2>3, <2>4, CertsAssumption DEF CertInv, Types, TypeOK,
       Restart, NoDeletion, Deletion, MaybeCert
<1>10. CASE DropHandler
  <2>1. settling' \in [Links -> Settlement]
    BY <1>10, SettledFacts DEF DropHandler, CertInv, Types, TypeOK
  <2> QED
    BY <1>10, <2>1, CertsAssumption DEF CertInv, Types, TypeOK, DropHandler, Settled, hub,
       satellite, NoDeletion, Deletion, MaybeCert, NoRenewal, Renewal
<1>11. ASSUME NEW c \in Certs, RecordSatellite(c)  PROVE Types'
  <2>1. row' \in Row /\ row' # NoRow /\ (row # NoRow => row'.pending = row.pending /\ row'.lapsed = row.lapsed)
        /\ (row = NoRow => ~row'.lapsed)
    BY <1>11, RecordFacts DEF CertInv
  <2>2. enrolling' \in [Certs -> {"none", "record", "admit"}]
    BY <1>11 DEF RecordSatellite, CertInv, Types, TypeOK
  <2> QED
    BY <1>11, <2>1, <2>2, CertsAssumption DEF CertInv, Types, TypeOK, RecordSatellite,
       satellite, NoDeletion, MaybeCert
<1>12. ASSUME NEW c \in Certs, AdmitSatellite(c)  PROVE Types'
  BY <1>12, CertsAssumption DEF CertInv, Types, TypeOK, Deletion, MaybeCert, Renewal,
     Settlement, Row, Certs, Issued, AdmitSatellite, satellite, history, NoDeletion
<1>13. ASSUME NEW c \in Certs, CommitRenewal(c)  PROVE Types'
  <2>1. row \in Row /\ row.pending \in MaybeCert /\ c \in MaybeCert
    BY <1>13 DEF CommitRenewal, CertInv, Types, TypeOK, Row, MaybeCert
  <2>2. row' \in Row /\ row' # NoRow /\ ~row'.lapsed
    BY <1>13, <2>1, RenewalSet DEF CommitRenewal
  <2>3. renewing' \in [Certs -> Renewal]
    BY <1>13, <2>1 DEF CommitRenewal, CertInv, Types, TypeOK, Renewal, MaybeCert
  <2> QED
    BY <1>13, <2>1, <2>2, <2>3, CertsAssumption DEF CertInv, Types, TypeOK, CommitRenewal,
       satellite, history, NoDeletion, MaybeCert
<1>14. ASSUME NEW c \in Certs, RefuseRenewal(c)  PROVE Types'
  BY <1>14, CertsAssumption DEF CertInv, Types, TypeOK, Deletion, MaybeCert, Renewal,
     Settlement, Row, Certs, Issued, RefuseRenewal, hub, history, NoRenewal, NoDeletion
<1>15. ASSUME NEW c \in Certs, ApplyRenewal(c)  PROVE Types'
  BY <1>15, CertsAssumption DEF CertInv, Types, TypeOK, Deletion, MaybeCert, Renewal,
     Settlement, Row, Certs, Issued, ApplyRenewal, satellite, history, NoDeletion
<1>16. ASSUME NEW c \in Certs, AnswerRenewal(c)  PROVE Types'
  BY <1>16, CertsAssumption DEF CertInv, Types, TypeOK, Deletion, MaybeCert, Renewal,
     Settlement, Row, Certs, Issued, AnswerRenewal, hub, satellite, history, NoRenewal,
     NoDeletion
<1>17. ASSUME NEW l \in Links, Enter(l)  PROVE Types'
  <2>1. settling' \in [Links -> Settlement]
    BY <1>17, EnterFacts DEF CertInv
  <2> QED
    BY <1>17, <2>1, CertsAssumption DEF CertInv, Types, TypeOK, Enter, hub, history, NoDeletion,
       MaybeCert
<1>18. ASSUME NEW l \in Links, ReadRow(l)  PROVE Types'
  <2>1. settling' \in [Links -> Settlement] /\ (Settled(l) \/ gate' = gate)
    BY <1>18, ReadFacts DEF CertInv
  <2>2. gate' \in Links \cup {Free, "delete"} /\ (gate' = "delete" <=> gate = "delete")
    BY <1>18, <2>1, SettledFacts DEF CertInv, Types, TypeOK
  <2> QED
    BY <1>18, <2>1, <2>2, CertsAssumption DEF CertInv, Types, TypeOK, ReadRow, hub, satellite,
       history, NoDeletion, MaybeCert
<1>19. ASSUME NEW l \in Links, CommitSettlement(l)  PROVE Types'
  <2>1. settling' \in [Links -> Settlement] /\ (Settled(l) \/ gate' = gate)
    BY <1>19, CommitFacts DEF CertInv
  <2>2. gate' \in Links \cup {Free, "delete"} /\ (gate' = "delete" <=> gate = "delete")
    BY <1>19, <2>1, SettledFacts DEF CertInv, Types, TypeOK
  <2>3. row' = row \/ row' = NoRow \/ (row' \in Row /\ row' # NoRow /\ ~row'.lapsed)
    BY <1>19, CommitFacts DEF CertInv
  <2>4. row = NoRow <=> row' = NoRow
    BY <1>19, CommitFacts DEF CertInv
  <2> QED
    BY <1>19, <2>1, <2>2, <2>3, <2>4, CertsAssumption DEF CertInv, Types, TypeOK,
       CommitSettlement, satellite, history, NoDeletion, MaybeCert
<1>20. ASSUME NEW l \in Links, ApplySettlement(l)  PROVE Types'
  <2>1. settling' \in [Links -> Settlement] /\ allowed' \subseteq allowed /\ gate' \in Links \cup {Free, "delete"} /\ (gate' = "delete" <=> gate = "delete")
    BY <1>20, SettledFacts DEF CertInv, ApplySettlement
  <2> QED
    BY <1>20, <2>1, CertsAssumption DEF CertInv, Types, TypeOK, ApplySettlement, satellite,
       history, NoDeletion, MaybeCert
<1>21. CASE ReadPending
  <2>1. row \in Row /\ row.pending \in MaybeCert
    BY <1>21 DEF ReadPending, CertInv, Types, TypeOK, Row, MaybeCert
  <2>2. deletion' = [step |-> "commit", cert |-> deletion.cert, pending |-> row.pending]
    BY <1>21 DEF ReadPending, CertInv, Types, Deletion
  <2> QED
    BY <1>21, <2>1, <2>2, CertsAssumption, ZenonT(40) DEF CertInv, Types, TypeOK, ReadPending, Deletion,
       hub, satellite, history, MaybeCert
<1>22. CASE CommitDelete
  BY <1>22, CertsAssumption DEF CertInv, Types, TypeOK, Deletion, MaybeCert, Renewal,
     Settlement, Row, Certs, Issued, CommitDelete, satellite, history, NoDeletion
<1>23. CASE ApplyDelete
  <2>1. allowed' \subseteq allowed /\ deletion' \in Deletion
    BY <1>23 DEF ApplyDelete, NoDeletion, Deletion, MaybeCert
  <2> QED
    BY <1>23, <2>1, CertsAssumption DEF CertInv, Types, TypeOK, ApplyDelete, satellite, history,
       NoDeletion, MaybeCert
<1>24. CASE SkipRenewal
  BY <1>24, CertsAssumption DEF CertInv, Types, TypeOK, Deletion, MaybeCert, Renewal,
     Settlement, Row, Certs, Issued, SkipRenewal, hub, handlers, history, NoDeletion
<1>25. ASSUME NEW l \in Links, Connect(l)  PROVE Types'
  <2>1. settling' \in [Links -> Settlement]
    BY <1>25, ConnectFacts DEF CertInv
  <2> QED
    BY <1>25, <2>1, CertsAssumption DEF CertInv, Types, TypeOK, Connect, hub, NoDeletion,
       MaybeCert
<1>26. CASE Refused
  BY <1>26, CertsAssumption DEF CertInv, Types, TypeOK, Deletion, MaybeCert, Renewal,
     Settlement, Row, Certs, Issued, Refused, hub, handlers, history, NoDeletion
<1>27. CASE Unlink
  BY <1>27, CertsAssumption DEF CertInv, Types, TypeOK, Deletion, MaybeCert, Renewal,
     Settlement, Row, Certs, Issued, Unlink, hub, handlers, history, NoDeletion
<1> QED
  BY <1>1, <1>2, <1>3, <1>4, <1>5, <1>6, <1>7, <1>8, <1>9, <1>10, <1>11, <1>12, <1>13, <1>14,
     <1>15, <1>16, <1>17, <1>18, <1>19, <1>20, <1>21, <1>22, <1>23, <1>24, <1>25, <1>26, <1>27
     DEF Next, CertStep, LinkStep, DeleteStep, SatelliteStep

(* No record, allowlist or handler names a certificate that was not issued.*)
LEMMA IssuedStep ==
    ASSUME CertInv, Next
    PROVE  Issued'
<1>1. CASE Submit
  BY <1>1, CertsAssumption DEF CertInv, Issued, InFlight, Types, TypeOK, Row, Certs, Submit,
     handlers, history
<1>2. CASE Expire
  BY <1>2, CertsAssumption DEF CertInv, Issued, InFlight, Types, TypeOK, Row, Certs, Expire,
     handlers, satellite, history
<1>3. CASE Approve
  <2>1. issued' = issued + 1 /\ approved' = issued'
    BY <1>3 DEF Approve
  <2>2. \A x \in Certs : x <= issued => x <= issued'
    BY <2>1 DEF CertInv, Types, TypeOK, Certs
  <2>3. UNCHANGED <<row, allowed, renewing, settling, deletion, sat, awaited>> /\ issued' <= issued'
    BY <1>3, <2>1 DEF Approve, satellite, CertInv, Types, TypeOK
  <2> QED
    BY <2>1, <2>2, <2>3, CertsAssumption DEF CertInv, Issued, InFlight, Types, TypeOK, Row,
       Deletion, MaybeCert, Settlement
<1>4. CASE Poll
  BY <1>4, CertsAssumption DEF CertInv, Issued, InFlight, Types, TypeOK, Row, Certs, Poll, hub,
     handlers, history
<1>5. CASE AskRenewal
  <2>1. PICK n : n = issued + 1
    OBVIOUS
  <2>2. issued' = n /\ n \in Certs /\ awaited' = n /\ sat \in Certs /\ sat # NoCert /\ n <= n
    BY <1>5, <2>1, CertsAssumption DEF AskRenewal, CertInv, Types, TypeOK, Certs
  <2>3. \A x \in Certs : x <= issued => x <= issued'
    BY <2>1, <2>2 DEF CertInv, Types, TypeOK, Certs
  <2>4. UNCHANGED <<row, allowed, settling, deletion, sat, approved>>
    BY <1>5 DEF AskRenewal
  <2>5. renewing'[n].step = "commit" /\ \A d \in Certs : d # n => renewing'[d] = renewing[d]
    BY <1>5, <2>1, <2>2, RenewalMoves DEF AskRenewal, CertInv
  <2> QED
    BY <2>2, <2>3, <2>4, <2>5, CertsAssumption DEF CertInv, Issued, InFlight, Types, TypeOK,
       Row, Deletion, MaybeCert, Settlement
<1>6. CASE LoseAnswer
  BY <1>6, CertsAssumption DEF CertInv, Issued, InFlight, Types, TypeOK, Row, Certs, LoseAnswer,
     hub, handlers, history
<1>7. CASE Lapse
  BY <1>7, CertsAssumption DEF CertInv, Issued, InFlight, Types, TypeOK, Row, Certs, Lapse,
     handlers, satellite
<1>8. CASE BeginDelete
  BY <1>8, CertsAssumption DEF CertInv, Issued, InFlight, Types, TypeOK, Row, Certs,
     BeginDelete, hub, satellite, Busy
<1>9. CASE Restart
  BY <1>9, CertsAssumption DEF CertInv, Issued, InFlight, Types, TypeOK, Row, Certs, Restart,
     Swept, Recorded, NoDeletion, NoRenewal, NoSettlement
<1>10. CASE DropHandler
  <2>1. UNCHANGED <<issued, row, allowed, sat, approved, awaited>>
    BY <1>10 DEF DropHandler, hub, satellite
  <2> QED
    BY <1>10, <2>1, DropFacts, NoSettlementType DEF CertInv, Issued, InFlight, Types, MaybeCert,
       NoDeletion, NoRenewal
<1>11. ASSUME NEW c \in Certs, RecordSatellite(c)  PROVE Issued'
  <2>1. UNCHANGED <<issued, renewing, settling, deletion, allowed, sat, approved, awaited>> /\ c = issued
    BY <1>11 DEF RecordSatellite, satellite, CertInv, OneEnrollment
  <2>2. row'.cert = c /\ (row'.pending = NoCert \/ (row # NoRow /\ row'.pending = row.pending))
    <3>1. Types
      BY <1>11 DEF CertInv
    <3> QED
      BY <1>11, <3>1, RecordFacts
  <2> QED
    BY <1>11, <2>1, <2>2 DEF CertInv, Issued, InFlight, Types, TypeOK, Certs
<1>12. ASSUME NEW c \in Certs, AdmitSatellite(c)  PROVE Issued'
  BY <1>12 DEF CertInv, Issued, InFlight, Types, TypeOK, Certs, OneEnrollment, AdmitSatellite,
     satellite
<1>13. ASSUME NEW c \in Certs, CommitRenewal(c)  PROVE Issued'
  BY <1>13, CertsAssumption DEF CertInv, Issued, InFlight, Types, TypeOK, Row, Certs,
     CommitRenewal, satellite, history
<1>14. ASSUME NEW c \in Certs, RefuseRenewal(c)  PROVE Issued'
  BY <1>14, CertsAssumption DEF CertInv, Issued, InFlight, Types, TypeOK, Row, Certs,
     RefuseRenewal, hub, history, NoRenewal
<1>15. ASSUME NEW c \in Certs, ApplyRenewal(c)  PROVE Issued'
  BY <1>15, CertsAssumption DEF CertInv, Issued, InFlight, Types, TypeOK, Row, Certs,
     ApplyRenewal, satellite, history
<1>16. ASSUME NEW c \in Certs, AnswerRenewal(c)  PROVE Issued'
  BY <1>16, CertsAssumption DEF CertInv, Issued, InFlight, Types, TypeOK, Row, Certs,
     AnswerRenewal, hub, satellite, history, NoRenewal
<1>17. ASSUME NEW l \in Links, Enter(l)  PROVE Issued'
  <2>1. UNCHANGED <<issued, row, renewing, deletion, allowed, sat, approved, awaited>>
    BY <1>17 DEF Enter, hub
  <2> QED
    BY <1>17, <2>1, EnterFacts, NoSettlementType DEF CertInv, Issued, InFlight
<1>18. ASSUME NEW l \in Links, ReadRow(l)  PROVE Issued'
  <2>1. UNCHANGED <<issued, row, renewing, deletion, allowed, sat, approved, awaited>>
    BY <1>18 DEF ReadRow, hub, satellite
  <2> QED
    BY <1>18, <2>1, ReadFacts, NoSettlementType DEF CertInv, Issued, InFlight
<1>19. ASSUME NEW l \in Links, CommitSettlement(l)  PROVE Issued'
  <2>1. UNCHANGED <<issued, renewing, deletion, allowed, sat, approved, awaited>>
    BY <1>19 DEF CommitSettlement, satellite
  <2>2. row' # NoRow => /\ row # NoRow /\ row'.pending \in {row.pending, NoCert}
                        /\ row'.cert = row.cert \/ (row'.cert = row.pending /\ row.pending # NoCert)
    <3>1. row' \in Row => row'.cert # NoCert
      BY <1>19, CertsAssumption DEF Row, Certs
    <3> QED
      BY <1>19, <3>1, CommitFacts DEF CertInv
  <2>3. \A k \in Links : k # l => settling'[k] = settling[k]
    BY <1>19, CommitFacts DEF CertInv
  <2>4. \A x \in {settling'[l].presented, settling'[l].current, settling'[l].pending} :
          x = NoCert \/ x \in {settling[l].presented, settling[l].current, settling[l].pending}
    BY <1>19, CommitFacts, NoSettlementType DEF CertInv
  <2> QED
    BY <1>19, <2>1, <2>2, <2>3, <2>4 DEF CertInv, Issued, InFlight
<1>20. ASSUME NEW l \in Links, ApplySettlement(l)  PROVE Issued'
  BY <1>20, CertsAssumption DEF CertInv, Issued, InFlight, Types, TypeOK, Row, Certs,
     ApplySettlement, satellite, history, Settled, Promotes, NoSettlement
<1>21. CASE ReadPending
  BY <1>21, CertsAssumption DEF CertInv, Issued, InFlight, Types, TypeOK, Row, Certs,
     ReadPending, hub, satellite, history
<1>22. CASE CommitDelete
  BY <1>22, CertsAssumption DEF CertInv, Issued, InFlight, Types, TypeOK, Row, Certs,
     CommitDelete, satellite, history
<1>23. CASE ApplyDelete
  BY <1>23, CertsAssumption DEF CertInv, Issued, InFlight, Types, TypeOK, Row, Certs,
     ApplyDelete, satellite, history, NoDeletion
<1>24. CASE SkipRenewal
  BY <1>24, CertsAssumption DEF CertInv, Issued, InFlight, Types, TypeOK, Row, Certs,
     SkipRenewal, hub, handlers, history
<1>25. ASSUME NEW l \in Links, Connect(l)  PROVE Issued'
  BY <1>25, CertsAssumption DEF CertInv, Issued, InFlight, Types, TypeOK, Row, Certs, Connect,
     hub, NoSettlement
<1>26. CASE Refused
  BY <1>26, CertsAssumption DEF CertInv, Issued, InFlight, Types, TypeOK, Row, Certs, Refused,
     hub, handlers, history
<1>27. CASE Unlink
  BY <1>27, CertsAssumption DEF CertInv, Issued, InFlight, Types, TypeOK, Row, Certs, Unlink,
     hub, handlers, history
<1> QED
  BY <1>1, <1>2, <1>3, <1>4, <1>5, <1>6, <1>7, <1>8, <1>9, <1>10, <1>11, <1>12, <1>13, <1>14,
     <1>15, <1>16, <1>17, <1>18, <1>19, <1>20, <1>21, <1>22, <1>23, <1>24, <1>25, <1>26, <1>27
     DEF Next, CertStep, LinkStep, DeleteStep, SatelliteStep

(* An enrollment runs alone until its certificate is admitted.             *)
LEMMA EnrollmentStep ==
    ASSUME CertInv, Next
    PROVE  OneEnrollment'
<1>1. CASE Submit
  <2>1. /\ csr' /\ approved' = approved /\ sat' = NoCert /\ sat = NoCert /\ phase' = "polling" /\ approved = NoCert
        /\ UNCHANGED <<enrolling, issued, allowed, row, deletion, renewing, settling>>
    BY <1>1 DEF Submit, handlers, CertInv, OneEnrollment
  <2> QED
    BY <2>1 DEF CertInv, OneEnrollment, Enrolling, Connecting, InFlight
<1>2. CASE Expire
  BY <1>2, CertsAssumption DEF CertInv, OneEnrollment, Enrolling, Connecting, InFlight, Types,
     TypeOK, Issued, Certs, Expire, handlers, satellite, history
<1>3. CASE Approve
  BY <1>3, CertsAssumption DEF CertInv, OneEnrollment, Enrolling, Connecting, InFlight, Types,
     TypeOK, Issued, Certs, Approve, satellite, history
<1>4. CASE Poll
  BY <1>4, CertsAssumption DEF CertInv, OneEnrollment, Enrolling, Connecting, InFlight, Types,
     TypeOK, Issued, Certs, Poll, hub, handlers, history
<1>5. CASE AskRenewal
  BY <1>5, CertsAssumption DEF CertInv, OneEnrollment, Enrolling, Connecting, InFlight, Types,
     TypeOK, Issued, Certs, AskRenewal
<1>6. CASE LoseAnswer
  BY <1>6, CertsAssumption DEF CertInv, OneEnrollment, Enrolling, Connecting, InFlight, Types,
     TypeOK, Issued, Certs, LoseAnswer, hub, handlers, history
<1>7. CASE Lapse
  BY <1>7, CertsAssumption DEF CertInv, OneEnrollment, Enrolling, Connecting, InFlight, Types,
     TypeOK, Issued, Certs, Lapse, handlers, satellite
<1>8. CASE BeginDelete
  BY <1>8, CertsAssumption DEF CertInv, OneEnrollment, Enrolling, Connecting, InFlight, Types,
     TypeOK, Issued, Certs, BeginDelete, hub, satellite, Busy
<1>9. CASE Restart
  BY <1>9, CertsAssumption DEF CertInv, OneEnrollment, Enrolling, Connecting, InFlight, Types,
     TypeOK, Issued, Certs, Restart, Swept, Recorded, NoDeletion, NoRenewal, NoSettlement
<1>10. CASE DropHandler
  BY <1>10, CertsAssumption DEF CertInv, OneEnrollment, Enrolling, Connecting, InFlight, Types,
     TypeOK, Issued, Certs, DropHandler, hub, satellite, Settled, NoDeletion, NoRenewal,
     NoSettlement
<1>11. ASSUME NEW c \in Certs, RecordSatellite(c)  PROVE OneEnrollment'
  BY <1>11, CertsAssumption DEF CertInv, OneEnrollment, Enrolling, Connecting, InFlight, Types,
     TypeOK, Issued, Certs, RecordSatellite, satellite
<1>12. ASSUME NEW c \in Certs, AdmitSatellite(c)  PROVE OneEnrollment'
  BY <1>12, CertsAssumption DEF CertInv, OneEnrollment, Enrolling, Connecting, InFlight, Types,
     TypeOK, Issued, Certs, AdmitSatellite, satellite, history
<1>13. ASSUME NEW c \in Certs, CommitRenewal(c)  PROVE OneEnrollment'
  BY <1>13, CertsAssumption DEF CertInv, OneEnrollment, Enrolling, Connecting, InFlight, Types,
     TypeOK, Issued, Certs, CommitRenewal, satellite, history
<1>14. ASSUME NEW c \in Certs, RefuseRenewal(c)  PROVE OneEnrollment'
  BY <1>14, CertsAssumption DEF CertInv, OneEnrollment, Enrolling, Connecting, InFlight, Types,
     TypeOK, Issued, Certs, RefuseRenewal, hub, history, NoRenewal
<1>15. ASSUME NEW c \in Certs, ApplyRenewal(c)  PROVE OneEnrollment'
  BY <1>15, CertsAssumption DEF CertInv, OneEnrollment, Enrolling, Connecting, InFlight, Types,
     TypeOK, Issued, Certs, ApplyRenewal, satellite, history
<1>16. ASSUME NEW c \in Certs, AnswerRenewal(c)  PROVE OneEnrollment'
  BY <1>16, CertsAssumption DEF CertInv, OneEnrollment, Enrolling, Connecting, InFlight, Types,
     TypeOK, Issued, Certs, AnswerRenewal, hub, satellite, history, NoRenewal
<1>17. ASSUME NEW l \in Links, Enter(l)  PROVE OneEnrollment'
  BY <1>17, CertsAssumption DEF CertInv, OneEnrollment, Enrolling, Connecting, InFlight, Types,
     TypeOK, Issued, Certs, Enter, hub, history, NoSettlement
<1>18. ASSUME NEW l \in Links, ReadRow(l)  PROVE OneEnrollment'
  BY <1>18, CertsAssumption DEF CertInv, OneEnrollment, Enrolling, Connecting, InFlight, Types,
     TypeOK, Issued, Certs, ReadRow, hub, satellite, history, Settled, Promotes, NoSettlement
<1>19. ASSUME NEW l \in Links, CommitSettlement(l)  PROVE OneEnrollment'
  BY <1>19, CertsAssumption DEF CertInv, OneEnrollment, Enrolling, Connecting, InFlight, Types,
     TypeOK, Issued, Certs, CommitSettlement, satellite, Settled, Promotes, NoSettlement
<1>20. ASSUME NEW l \in Links, ApplySettlement(l)  PROVE OneEnrollment'
  BY <1>20, CertsAssumption DEF CertInv, OneEnrollment, Enrolling, Connecting, InFlight, Types,
     TypeOK, Issued, Certs, ApplySettlement, satellite, history, Settled, Promotes, NoSettlement
<1>21. CASE ReadPending
  BY <1>21, CertsAssumption DEF CertInv, OneEnrollment, Enrolling, Connecting, InFlight, Types,
     TypeOK, Issued, Certs, ReadPending, hub, satellite, history
<1>22. CASE CommitDelete
  BY <1>22, CertsAssumption DEF CertInv, OneEnrollment, Enrolling, Connecting, InFlight, Types,
     TypeOK, Issued, Certs, CommitDelete, satellite, history
<1>23. CASE ApplyDelete
  BY <1>23, CertsAssumption DEF CertInv, OneEnrollment, Enrolling, Connecting, InFlight, Types,
     TypeOK, Issued, Certs, ApplyDelete, satellite, history, NoDeletion
<1>24. CASE SkipRenewal
  BY <1>24, CertsAssumption DEF CertInv, OneEnrollment, Enrolling, Connecting, InFlight, Types,
     TypeOK, Issued, Certs, SkipRenewal, hub, handlers, history
<1>25. ASSUME NEW l \in Links, Connect(l)  PROVE OneEnrollment'
  BY <1>25, CertsAssumption DEF CertInv, OneEnrollment, Enrolling, Connecting, InFlight, Types,
     TypeOK, Issued, Certs, Connect, hub, NoSettlement
<1>26. CASE Refused
  BY <1>26, CertsAssumption DEF CertInv, OneEnrollment, Enrolling, Connecting, InFlight, Types,
     TypeOK, Issued, Certs, Refused, hub, handlers, history
<1>27. CASE Unlink
  BY <1>27, CertsAssumption DEF CertInv, OneEnrollment, Enrolling, Connecting, InFlight, Types,
     TypeOK, Issued, Certs, Unlink, hub, handlers, history
<1> QED
  BY <1>1, <1>2, <1>3, <1>4, <1>5, <1>6, <1>7, <1>8, <1>9, <1>10, <1>11, <1>12, <1>13, <1>14,
     <1>15, <1>16, <1>17, <1>18, <1>19, <1>20, <1>21, <1>22, <1>23, <1>24, <1>25, <1>26, <1>27
     DEF Next, CertStep, LinkStep, DeleteStep, SatelliteStep

(* Renewals that were never chained stay in order.                         *)
LEMMA OrderStep ==
    ASSUME CertInv, Next, Orderly'
    PROVE  InOrder'
<1>1. CASE Submit
  BY <1>1, CertsAssumption DEF CertInv, Orderly, InOrder, InFlight, Types, TypeOK, Issued,
     OneEnrollment, Enrolling, Connecting, Row, Certs, Renewal, Settlement, Submit, handlers,
     history
<1>2. CASE Expire
  BY <1>2, CertsAssumption DEF CertInv, Orderly, InOrder, InFlight, Types, TypeOK, Issued,
     OneEnrollment, Enrolling, Connecting, Row, Certs, Renewal, Settlement, Expire, handlers,
     satellite, history
<1>3. CASE Approve
  BY <1>3, CertsAssumption DEF CertInv, Orderly, InOrder, InFlight, Types, TypeOK, Issued,
     OneEnrollment, Enrolling, Connecting, Row, Certs, Renewal, Settlement, Approve, satellite,
     history
<1>4. CASE Poll
  BY <1>4, CertsAssumption DEF CertInv, Orderly, InOrder, InFlight, Types, TypeOK, Issued,
     OneEnrollment, Enrolling, Connecting, Row, Certs, Renewal, Settlement, Poll, hub, handlers,
     history
<1>5. CASE AskRenewal
  <2>1. PICK n : n = issued + 1
    OBVIOUS
  <2>2. /\ n \in Certs /\ issued' = n /\ issued \in Nat /\ sat # NoCert /\ sat \in Certs /\ InFlight = {} /\ ~chained /\ InOrder
        /\ row # NoRow => row.pending # sat
        /\ UNCHANGED <<row, settling, deletion, sat, torn>>
    <3>1. ~chained /\ InFlight = {} /\ torn' = torn /\ ~(row # NoRow /\ row.pending = sat)
      BY <1>5 DEF AskRenewal, Orderly
    <3>2. InOrder
      BY <3>1 DEF CertInv, Orderly
    <3>3. n \in Certs /\ issued' = n /\ issued \in Nat /\ sat \in Certs /\ sat # NoCert
      BY <1>5, <2>1, CertsAssumption DEF AskRenewal, CertInv, Types, TypeOK, Certs
    <3>4. UNCHANGED <<row, settling, deletion, sat>>
      BY <1>5 DEF AskRenewal
    <3> QED
      BY <3>1, <3>2, <3>3, <3>4
  <2>3. /\ renewing'[n].step = "commit" /\ renewing'[n].old = renewing[n].old
        /\ \A d \in Certs : d # n => renewing'[d] = renewing[d]
    BY <1>5, <2>1, <2>2, RenewalMoves DEF AskRenewal, CertInv
  <2>4. \A c \in InFlight' : c = n
    BY <2>2, <2>3 DEF InFlight
  <2>5. \A l \in Links : settling[l].presented # n /\ settling[l].current # n /\ settling[l].pending # n
    <3>1. \A x : x # NoCert /\ x <= issued => x # n
      BY <2>1, <2>2
    <3>2. n # NoCert
      BY <2>2, CertsAssumption DEF Certs
    <3> QED
      BY <3>1, <3>2 DEF CertInv, Issued
  <2> QED
    BY <2>1, <2>2, <2>3, <2>4, <2>5, CertsAssumption DEF CertInv, Issued, InOrder, Types,
       TypeOK, Row, Certs
<1>6. CASE LoseAnswer
  BY <1>6, CertsAssumption DEF CertInv, Orderly, InOrder, InFlight, Types, TypeOK, Issued,
     OneEnrollment, Enrolling, Connecting, Row, Certs, Renewal, Settlement, LoseAnswer, hub,
     handlers, history
<1>7. CASE Lapse
  BY <1>7, CertsAssumption DEF CertInv, Orderly, InOrder, InFlight, Types, TypeOK, Issued,
     OneEnrollment, Enrolling, Connecting, Row, Certs, Renewal, Settlement, Lapse, handlers,
     satellite
<1>8. CASE BeginDelete
  BY <1>8, CertsAssumption DEF CertInv, Orderly, InOrder, InFlight, Types, TypeOK, Issued,
     OneEnrollment, Enrolling, Connecting, Row, Certs, Renewal, Settlement, BeginDelete, hub,
     satellite, Busy
<1>9. CASE Restart
  BY <1>9, CertsAssumption DEF CertInv, Orderly, InOrder, InFlight, Types, TypeOK, Issued,
     OneEnrollment, Enrolling, Connecting, Row, Certs, Renewal, Settlement, Restart, Swept,
     Recorded, NoDeletion, NoRenewal, NoSettlement
<1>10. CASE DropHandler
  <2>1. UNCHANGED <<issued, row, sat, chained>> /\ torn \subseteq torn'
    BY <1>10 DEF DropHandler, hub, satellite
  <2>2. InOrder
    BY <2>1 DEF CertInv, Orderly
  <2>3. \A c \in InFlight : c \in Certs /\ c # NoCert
    BY CertsAssumption DEF InFlight, Certs
  <2>4. \A c \in Certs : renewing'[c] = renewing[c] \/ renewing'[c] = NoRenewal
    BY <1>10 DEF DropHandler, CertInv, Types, TypeOK
  <2>5. \A l \in Links : settling'[l] = settling[l] \/ settling'[l] = NoSettlement
    BY <1>10, SettledFacts DEF DropHandler, CertInv
  <2>6. deletion' = deletion \/ deletion' = NoDeletion
    BY <1>10 DEF DropHandler
  <2> QED
    BY <2>1, <2>2, <2>3, <2>4, <2>5, <2>6, NoSettlementType DEF InOrder, InFlight, NoRenewal,
       NoDeletion
<1>11. ASSUME NEW c \in Certs, RecordSatellite(c)  PROVE InOrder'
  BY <1>11, CertsAssumption DEF CertInv, Orderly, InOrder, InFlight, Types, TypeOK, Issued,
     OneEnrollment, Enrolling, Connecting, Row, Certs, Renewal, Settlement, RecordSatellite,
     satellite
<1>12. ASSUME NEW c \in Certs, AdmitSatellite(c)  PROVE InOrder'
  BY <1>12, CertsAssumption DEF CertInv, Orderly, InOrder, InFlight, Types, TypeOK, Issued,
     OneEnrollment, Enrolling, Connecting, Row, Certs, Renewal, Settlement, AdmitSatellite,
     satellite, history
<1>13. ASSUME NEW c \in Certs, CommitRenewal(c)  PROVE InOrder'
  BY <1>13, CertsAssumption DEF CertInv, Orderly, InOrder, InFlight, Types, TypeOK, Issued,
     OneEnrollment, Enrolling, Connecting, Row, Certs, Renewal, Settlement, CommitRenewal,
     satellite, history
<1>14. ASSUME NEW c \in Certs, RefuseRenewal(c)  PROVE InOrder'
  BY <1>14, CertsAssumption DEF CertInv, Orderly, InOrder, InFlight, Types, TypeOK, Issued,
     OneEnrollment, Enrolling, Connecting, Row, Certs, Renewal, Settlement, RefuseRenewal, hub,
     history, NoRenewal
<1>15. ASSUME NEW c \in Certs, ApplyRenewal(c)  PROVE InOrder'
  BY <1>15, CertsAssumption DEF CertInv, Orderly, InOrder, InFlight, Types, TypeOK, Issued,
     OneEnrollment, Enrolling, Connecting, Row, Certs, Renewal, Settlement, ApplyRenewal,
     satellite, history
<1>16. ASSUME NEW c \in Certs, AnswerRenewal(c)  PROVE InOrder'
  BY <1>16, CertsAssumption DEF CertInv, Orderly, InOrder, InFlight, Types, TypeOK, Issued,
     OneEnrollment, Enrolling, Connecting, Row, Certs, Renewal, Settlement, AnswerRenewal, hub,
     satellite, history, NoRenewal
<1>17. ASSUME NEW l \in Links, Enter(l)  PROVE InOrder'
  <2>1. UNCHANGED <<issued, renewing, row, deletion, sat, torn, chained>>
    BY <1>17 DEF Enter, hub, history
  <2>2. InOrder /\ settling[l].step = "enter"
    BY <1>17, <2>1 DEF CertInv, Orderly, Enter
  <2>3. \A c \in InFlight : c \in Certs /\ c # NoCert
    BY <1>17, CertsAssumption DEF InFlight, Certs
  <2> QED
    BY <1>17, <2>1, <2>2, <2>3, EnterFacts, NoSettlementType DEF CertInv, InOrder, InFlight
<1>18. ASSUME NEW l \in Links, ReadRow(l)  PROVE InOrder'
  <2>1. UNCHANGED <<issued, renewing, row, deletion, sat, torn, chained>>
    BY <1>18 DEF ReadRow, hub, satellite, history
  <2>2. InOrder /\ settling[l].step = "read"
    BY <1>18, <2>1 DEF CertInv, Orderly, ReadRow
  <2>3. \A c \in InFlight : c \in Certs /\ c # NoCert
    BY <1>18, CertsAssumption DEF InFlight, Certs
  <2>4. row # NoRow => row.cert # NoCert
    BY <1>18, CertsAssumption DEF CertInv, Types, TypeOK, Row, Certs
  <2> QED
    <3>1. CASE settling'[l] = NoSettlement
      BY <1>18, <2>1, <2>2, <2>3, <3>1, ReadFacts, NoSettlementType DEF CertInv, InOrder,
         InFlight
    <3>2. CASE settling'[l] # NoSettlement
      <4>1. /\ row # NoRow /\ row.pending # NoCert
            /\ settling'[l].step = "commit"
            /\ settling'[l].presented = settling[l].presented
            /\ settling'[l].current = row.cert
            /\ settling'[l].pending = row.pending
            /\ settling'[l].lapsed = row.lapsed
            /\ row.pending = settling[l].presented \/ row.lapsed
            /\ \A k \in Links : k # l => settling'[k] = settling[k]
        BY <1>18, <3>2, ReadFacts DEF CertInv
      <4>2. row.cert < row.pending /\ row.cert \in Nat /\ row.pending \in Nat
        BY <1>18, <2>2, <4>1 DEF InOrder, CertInv, Types, TypeOK, Row, Certs
      <4>3. \A c \in InFlight : row.cert # c /\ row.pending # c
        BY <1>18, <2>2, <4>1, <4>2 DEF InOrder, InFlight, CertInv, Types, TypeOK, Renewal
      <4>4. settling[l].presented # NoCert /\ settling[l].presented <= sat
        BY <1>18, <2>2 DEF InOrder
      <4> QED
        BY <1>18, <2>1, <2>2, <2>3, <2>4, <4>1, <4>2, <4>3, <4>4 DEF InOrder, InFlight
    <3> QED
      BY <1>18, <3>1, <3>2
<1>19. ASSUME NEW l \in Links, CommitSettlement(l)  PROVE InOrder'
  <2>1. UNCHANGED <<issued, renewing, deletion, sat, chained>>
    BY <1>19 DEF CommitSettlement, satellite
  <2>2. InOrder /\ settling[l].step = "commit"
    BY <1>19, <2>1 DEF CertInv, CommitSettlement, Orderly
  <2>3. \A c \in InFlight : c \in Certs /\ c # NoCert
    BY <1>19, CertsAssumption DEF InFlight, Certs
  <2>4. torn \subseteq torn' /\ (row = NoRow \/ row.pending = settling[l].pending)
    BY <1>19 DEF CommitSettlement, Orderly
  <2> QED
    <3>1. \A c \in InFlight : renewing[c].step = "commit" \/ row = NoRow
      BY <1>19, <2>2, <2>4 DEF InOrder, InFlight, CertInv, Types, TypeOK, Renewal
    <3>2. row' # NoRow => row # NoRow /\ row'.cert \in {row.cert, row.pending} /\ row'.pending \in {row.pending, NoCert}
      BY <1>19, CommitFacts DEF CertInv
    <3>3. row' # NoRow /\ row'.pending # NoCert => row' = row
      BY <1>19, CommitFacts DEF CertInv
    <3>5. row = NoRow => row' = NoRow
      BY <1>19, CommitFacts DEF CertInv
    <3>4. /\ \A k \in Links : k # l => settling'[k] = settling[k]
          /\ \/ settling'[l] = NoSettlement
             \/ /\ settling'[l].step = "apply"
                /\ settling'[l].presented = settling[l].presented
                /\ settling'[l].current = settling[l].current
                /\ settling'[l].pending = settling[l].pending
                /\ settling'[l].lapsed = settling[l].lapsed
      BY <1>19, CommitFacts DEF CertInv
    <3> QED
      BY <1>19, <2>1, <2>2, <2>3, <3>1, <3>2, <3>3, <3>4, <3>5, NoSettlementType DEF InOrder,
         InFlight
<1>20. ASSUME NEW l \in Links, ApplySettlement(l)  PROVE InOrder'
  BY <1>20, CertsAssumption DEF CertInv, Orderly, InOrder, InFlight, Types, TypeOK, Issued,
     OneEnrollment, Enrolling, Connecting, Row, Certs, Renewal, Settlement, ApplySettlement,
     satellite, history, Settled, Promotes, NoSettlement
<1>21. CASE ReadPending
  BY <1>21, CertsAssumption DEF CertInv, Orderly, InOrder, InFlight, Types, TypeOK, Issued,
     OneEnrollment, Enrolling, Connecting, Row, Certs, Renewal, Settlement, ReadPending, hub,
     satellite, history
<1>22. CASE CommitDelete
  BY <1>22, CertsAssumption DEF CertInv, Orderly, InOrder, InFlight, Types, TypeOK, Issued,
     OneEnrollment, Enrolling, Connecting, Row, Certs, Renewal, Settlement, CommitDelete,
     satellite, history
<1>23. CASE ApplyDelete
  BY <1>23, CertsAssumption DEF CertInv, Orderly, InOrder, InFlight, Types, TypeOK, Issued,
     OneEnrollment, Enrolling, Connecting, Row, Certs, Renewal, Settlement, ApplyDelete,
     satellite, history, NoDeletion
<1>24. CASE SkipRenewal
  BY <1>24, CertsAssumption DEF CertInv, Orderly, InOrder, InFlight, Types, TypeOK, Issued,
     OneEnrollment, Enrolling, Connecting, Row, Certs, Renewal, Settlement, SkipRenewal, hub,
     handlers, history
<1>25. ASSUME NEW l \in Links, Connect(l)  PROVE InOrder'
  BY <1>25, CertsAssumption DEF CertInv, Orderly, InOrder, InFlight, Types, TypeOK, Issued,
     OneEnrollment, Enrolling, Connecting, Row, Certs, Renewal, Settlement, Connect, hub,
     NoSettlement
<1>26. CASE Refused
  BY <1>26, CertsAssumption DEF CertInv, Orderly, InOrder, InFlight, Types, TypeOK, Issued,
     OneEnrollment, Enrolling, Connecting, Row, Certs, Renewal, Settlement, Refused, hub,
     handlers, history
<1>27. CASE Unlink
  BY <1>27, CertsAssumption DEF CertInv, Orderly, InOrder, InFlight, Types, TypeOK, Issued,
     OneEnrollment, Enrolling, Connecting, Row, Certs, Renewal, Settlement, Unlink, hub,
     handlers, history
<1> QED
  BY <1>1, <1>2, <1>3, <1>4, <1>5, <1>6, <1>7, <1>8, <1>9, <1>10, <1>11, <1>12, <1>13, <1>14,
     <1>15, <1>16, <1>17, <1>18, <1>19, <1>20, <1>21, <1>22, <1>23, <1>24, <1>25, <1>26, <1>27
     DEF Next, CertStep, LinkStep, DeleteStep, SatelliteStep

(* No handler takes the satellite's own certificate away.                  *)
LEMMA KeptInStep ==
    ASSUME CertInv, Next, CertInv', Clean => KeptIn, Clean'
    PROVE  KeptIn'
<1>1. CASE Submit
  BY <1>1, CertsAssumption DEF CertInv, Clean, KeptIn, Owned, Recorded, Orderly, InOrder,
     InFlight, Enrolling, Connecting, OneEnrollment, Issued, Types, TypeOK, Row, Certs, Renewal,
     Submit, handlers, history
<1>2. CASE Expire
  BY <1>2, CertsAssumption DEF CertInv, Clean, KeptIn, Owned, Recorded, Orderly, InOrder,
     InFlight, Enrolling, Connecting, OneEnrollment, Issued, Types, TypeOK, Row, Certs, Renewal,
     Expire, handlers, satellite, history
<1>3. CASE Approve
  BY <1>3, CertsAssumption DEF CertInv, Clean, KeptIn, Owned, Recorded, Orderly, InOrder,
     InFlight, Enrolling, Connecting, OneEnrollment, Issued, Types, TypeOK, Row, Certs, Renewal,
     Approve, satellite, history
<1>4. CASE Poll
  BY <1>4, CertsAssumption DEF CertInv, Clean, KeptIn, Owned, Recorded, Orderly, InOrder,
     InFlight, Enrolling, Connecting, OneEnrollment, Issued, Types, TypeOK, Row, Certs, Renewal,
     Poll, hub, handlers, history
<1>5. CASE AskRenewal
  <2>1. PICK n : n = issued + 1
    OBVIOUS
  <2>2. /\ InFlight = {} /\ Clean /\ (row # NoRow => row.pending # sat)
        /\ UNCHANGED <<row, allowed, enrolling, settling, deletion, sat, approved>>
    BY <1>5 DEF AskRenewal, Clean
  <2>3. KeptIn
    BY <2>2
  <2>4. n \in Certs /\ sat \in Certs /\ sat \in allowed /\ sat # NoCert
    BY <1>5, <2>1, CertsAssumption DEF AskRenewal, CertInv, Types, TypeOK, Certs
  <2>5. ~Enrolling
    BY <2>4 DEF Enrolling, CertInv, OneEnrollment
  <2>6. row # NoRow => row.cert = sat
    BY <2>2, <2>3, <2>4, <2>5 DEF KeptIn, Owned, Recorded
  <2>7. renewing'[n].step = "commit" /\ \A d \in Certs : d # n => renewing'[d] = renewing[d]
    BY <1>5, <2>1, <2>4, RenewalMoves DEF AskRenewal, CertInv
  <2>8. \A c \in InFlight' : c = n
    BY <2>2, <2>7 DEF InFlight
  <2> QED
    BY <2>2, <2>3, <2>6, <2>7, <2>8 DEF KeptIn, Owned, Recorded, Enrolling
<1>6. CASE LoseAnswer
  BY <1>6, CertsAssumption DEF CertInv, Clean, KeptIn, Owned, Recorded, Orderly, InOrder,
     InFlight, Enrolling, Connecting, OneEnrollment, Issued, Types, TypeOK, Row, Certs, Renewal,
     LoseAnswer, hub, handlers, history
<1>7. CASE Lapse
  BY <1>7, CertsAssumption DEF CertInv, Clean, KeptIn, Owned, Recorded, Orderly, InOrder,
     InFlight, Enrolling, Connecting, OneEnrollment, Issued, Types, TypeOK, Row, Certs, Renewal,
     Lapse, handlers, satellite
<1>8. CASE BeginDelete
  BY <1>8, CertsAssumption DEF CertInv, Clean, KeptIn, Owned, Recorded, Orderly, InOrder,
     InFlight, Enrolling, Connecting, OneEnrollment, Issued, Types, TypeOK, Row, Certs, Renewal,
     BeginDelete, hub, satellite, Busy
<1>9. CASE Restart
  <2>1. Clean /\ ~Enrolling /\ deletion'.step = "none" /\ approved' = NoCert /\ sat' = sat
    BY <1>9 DEF Restart, Clean, Enrolling, NoDeletion
  <2>2. KeptIn
    BY <2>1
  <2>3. row' = row /\ allowed' = Recorded(row)
    BY <1>9, <2>2 DEF KeptIn, Restart, Swept
  <2>4. InFlight' = {} /\ \A l \in Links : ~settling'[l].lapsed
    BY <1>9, NoSettlementType DEF Restart, InFlight, NoRenewal
  <2> QED
    BY <2>1, <2>2, <2>3, <2>4 DEF KeptIn, Owned, Recorded
<1>10. CASE DropHandler
  <2>1. UNCHANGED <<row, allowed, sat, approved, lapses, chained>> /\ torn \subseteq torn'
    BY <1>10, DropFacts DEF hub, satellite
  <2>2. KeptIn
    BY <2>1 DEF Clean
  <2>3. \A c \in Certs : enrolling'[c] = enrolling[c]
    BY <1>10, DropFacts DEF Clean
  <2>4. Owned' = Owned /\ Enrolling' = Enrolling /\ Recorded(row') = Recorded(row)
    BY <2>1, <2>3 DEF Owned, Enrolling
  <2>5. \A c \in InFlight' : c \in InFlight /\ renewing'[c] = renewing[c]
    BY <1>10, DropFacts DEF InFlight, NoRenewal
  <2>6. deletion'.step = "apply" => deletion' = deletion
    BY <1>10, DropFacts DEF NoDeletion
  <2> QED
    BY <1>10, <2>1, <2>2, <2>4, <2>5, <2>6, DropFacts, NoSettlementType DEF KeptIn
<1>11. ASSUME NEW c \in Certs, RecordSatellite(c)  PROVE KeptIn'
  BY <1>11, CertsAssumption DEF CertInv, Clean, KeptIn, Owned, Recorded, Orderly, InOrder,
     InFlight, Enrolling, Connecting, OneEnrollment, Issued, Types, TypeOK, Row, Certs, Renewal,
     RecordSatellite, satellite
<1>12. ASSUME NEW c \in Certs, AdmitSatellite(c)  PROVE KeptIn'
  BY <1>12, CertsAssumption DEF CertInv, Clean, KeptIn, Owned, Recorded, Orderly, InOrder,
     InFlight, Enrolling, Connecting, OneEnrollment, Issued, Types, TypeOK, Row, Certs, Renewal,
     AdmitSatellite, satellite, history
<1>13. ASSUME NEW c \in Certs, CommitRenewal(c)  PROVE KeptIn'
  BY <1>13, CertsAssumption DEF CertInv, Clean, KeptIn, Owned, Recorded, Orderly, InOrder,
     InFlight, Enrolling, Connecting, OneEnrollment, Issued, Types, TypeOK, Row, Certs, Renewal,
     CommitRenewal, satellite, history
<1>14. ASSUME NEW c \in Certs, RefuseRenewal(c)  PROVE KeptIn'
  BY <1>14, CertsAssumption DEF CertInv, Clean, KeptIn, Owned, Recorded, Orderly, InOrder,
     InFlight, Enrolling, Connecting, OneEnrollment, Issued, Types, TypeOK, Row, Certs, Renewal,
     RefuseRenewal, hub, history, NoRenewal
<1>15. ASSUME NEW c \in Certs, ApplyRenewal(c)  PROVE KeptIn'
  BY <1>15, CertsAssumption DEF CertInv, Clean, KeptIn, Owned, Recorded, Orderly, InOrder,
     InFlight, Enrolling, Connecting, OneEnrollment, Issued, Types, TypeOK, Row, Certs, Renewal,
     ApplyRenewal, satellite, history
<1>16. ASSUME NEW c \in Certs, AnswerRenewal(c)  PROVE KeptIn'
  BY <1>16, CertsAssumption DEF CertInv, Clean, KeptIn, Owned, Recorded, Orderly, InOrder,
     InFlight, Enrolling, Connecting, OneEnrollment, Issued, Types, TypeOK, Row, Certs, Renewal,
     AnswerRenewal, hub, satellite, history, NoRenewal
<1>17. ASSUME NEW l \in Links, Enter(l)  PROVE KeptIn'
  <2>1. UNCHANGED <<row, allowed, sat, approved, lapses, chained, torn, enrolling, renewing, deletion>>
    BY <1>17 DEF Enter, hub, history
  <2>2. KeptIn
    BY <1>17, <2>1 DEF Clean
  <2>3. Owned' = Owned /\ Enrolling' = Enrolling /\ Recorded(row') = Recorded(row) /\ InFlight' = InFlight
    BY <1>17, <2>1 DEF Owned, Enrolling, InFlight
  <2> QED
    BY <1>17, <2>1, <2>2, <2>3, EnterFacts, NoSettlementType DEF KeptIn, CertInv
<1>18. ASSUME NEW l \in Links, ReadRow(l)  PROVE KeptIn'
  <2>1. UNCHANGED <<row, allowed, sat, approved, lapses, chained, torn, enrolling, renewing, deletion>>
    BY <1>18 DEF ReadRow, hub, satellite, history
  <2>2. KeptIn
    BY <1>18, <2>1 DEF Clean
  <2>3. Owned' = Owned /\ Enrolling' = Enrolling /\ Recorded(row') = Recorded(row) /\ InFlight' = InFlight
    BY <1>18, <2>1 DEF Owned, Enrolling, InFlight
  <2> QED
    BY <1>18, <2>1, <2>2, <2>3, ReadFacts, NoSettlementType DEF KeptIn, CertInv
<1>19. ASSUME NEW l \in Links, CommitSettlement(l)  PROVE KeptIn'
  <2>1. UNCHANGED <<allowed, sat, approved, lapses, chained, enrolling, renewing, deletion>> /\ torn \subseteq torn'
        /\ settling[l].step = "commit" /\ (row = NoRow \/ row.pending = settling[l].pending)
    BY <1>19 DEF CommitSettlement, satellite, Clean
  <2>2. KeptIn /\ InOrder
    BY <1>19, <2>1 DEF Clean, CertInv, Orderly
  <2>3. Enrolling' = Enrolling /\ InFlight' = InFlight /\ Owned' = Owned
    BY <1>19, <2>1 DEF Enrolling, InFlight, Owned
  <2>4. \A k \in Links : ~settling'[k].lapsed
    BY <1>19, <2>2, CommitFacts, NoSettlementType DEF KeptIn, CertInv
  <2>5. CASE row' = NoRow
    BY <1>19, <2>1, <2>2, <2>3, <2>4, <2>5 DEF KeptIn
  <2>6. CASE row' # NoRow
    <3>1. row # NoRow /\ row \in Row
      BY <1>19, <2>6, CommitFacts DEF CertInv, Types, TypeOK
    <3>2. /\ settling[l].presented # NoCert /\ settling[l].presented <= sat
          /\ settling[l].pending = settling[l].presented /\ settling[l].pending # NoCert
      BY <1>19, <2>1, <2>2 DEF InOrder, KeptIn
    <3>3. row.pending = settling[l].presented /\ row.pending \in Certs /\ row.pending # NoCert
          /\ row.cert \in Certs /\ row.cert < row.pending
      BY <1>19, <2>1, <2>2, <3>1, <3>2 DEF InOrder, Row
    <3>4. sat \in Certs /\ sat # NoCert
      <4>1. Connecting
        BY <1>19, <2>1 DEF Connecting
      <4> QED
        BY <1>19, <4>1, CertsAssumption DEF CertInv, OneEnrollment, Types, TypeOK, Certs
    <3>5. ~Enrolling
      BY <1>19, <2>1 DEF CertInv, OneEnrollment, Connecting
    <3>6. sat = row.pending
      <4>1. sat \in {row.cert, row.pending}
        BY <1>19, <2>2, <3>1, <3>4, <3>5 DEF KeptIn, Owned, Recorded
      <4> QED
        BY <1>19, <3>2, <3>3, <4>1 DEF Certs
    <3>7. row'.cert = row.pending /\ row'.pending = NoCert /\ ~row'.lapsed
      BY <1>19, <2>6, <3>1, <3>2, <3>3, CommitFacts DEF CertInv, Promotes
    <3>8. InFlight = {}
      BY <1>19, <2>2, <3>1, <3>3, <3>6 DEF KeptIn, Certs
    <3>9. Owned \in Recorded(row')
      BY <1>19, <2>6, <3>4, <3>6, <3>7 DEF Owned, Recorded
    <3>10. Owned \in allowed
      BY <1>19, <2>2, <3>1, <3>4, <3>5 DEF KeptIn, Owned
    <3>11. deletion.step = "apply" => deletion.cert < row'.cert /\ deletion.pending = NoCert
      <4>1. deletion.step = "apply" => deletion.cert \in Certs /\ deletion.cert < row.cert /\ deletion.pending = NoCert
        BY <1>19, <2>2, <3>1 DEF KeptIn, CertInv, Types
      <4> QED
        BY <1>19, <4>1, <3>3, <3>7 DEF Certs
    <3> QED
      BY <1>19, <2>1, <2>3, <2>4, <3>7, <3>8, <3>9, <3>10, <3>11 DEF KeptIn
  <2> QED
    BY <1>19, <2>5, <2>6
<1>20. ASSUME NEW l \in Links, ApplySettlement(l)  PROVE KeptIn'
  <2>1. UNCHANGED <<row, sat, approved, lapses, chained, torn, enrolling, renewing, deletion>>
        /\ settling[l].step = "apply" /\ Settled(l)
        /\ allowed' = allowed \ {IF Promotes(settling[l]) THEN settling[l].current ELSE settling[l].pending}
    BY <1>20 DEF ApplySettlement, satellite, history
  <2>2. KeptIn /\ InOrder
    BY <1>20, <2>1 DEF Clean, CertInv, Orderly
  <2>3. Enrolling' = Enrolling /\ InFlight' = InFlight /\ Owned' = Owned /\ Recorded(row') = Recorded(row)
    BY <1>20, <2>1 DEF Enrolling, InFlight, Owned
  <2>4. \A k \in Links : ~settling'[k].lapsed
    BY <1>20, <2>1, <2>2, SettledFacts, NoSettlementType DEF KeptIn, CertInv
  <2>5. /\ settling[l].presented # NoCert /\ settling[l].presented <= sat
        /\ settling[l].pending = settling[l].presented /\ settling[l].current < settling[l].pending
        /\ settling[l].current # NoCert
    BY <1>20, <2>1, <2>2 DEF InOrder, KeptIn
  <2>6. allowed' = allowed \ {settling[l].current}
    BY <1>20, <2>1, <2>5 DEF Promotes
  <2>7. sat \in Certs /\ sat # NoCert
    <3>1. Connecting
      BY <1>20, <2>1 DEF Connecting
    <3> QED
      BY <1>20, <3>1, CertsAssumption DEF CertInv, OneEnrollment, Types, TypeOK, Certs
  <2>8. settling[l].current # sat
    <3>1. settling[l].current \in Certs /\ settling[l].presented \in Certs
      BY <1>20, <2>5 DEF CertInv, Types, TypeOK, Settlement
    <3> QED
      BY <1>20, <2>5, <2>7, <3>1 DEF Certs
  <2>9. \A c \in InFlight : c # settling[l].current
    BY <1>20, <2>2 DEF InOrder
  <2> QED
    BY <1>20, <2>1, <2>2, <2>3, <2>4, <2>6, <2>7, <2>8, <2>9 DEF KeptIn, Owned
<1>21. CASE ReadPending
  BY <1>21, CertsAssumption DEF CertInv, Clean, KeptIn, Owned, Recorded, Orderly, InOrder,
     InFlight, Enrolling, Connecting, OneEnrollment, Issued, Types, TypeOK, Row, Certs, Renewal,
     ReadPending, hub, satellite, history
<1>22. CASE CommitDelete
  BY <1>22, CertsAssumption DEF CertInv, Clean, KeptIn, Owned, Recorded, Orderly, InOrder,
     InFlight, Enrolling, Connecting, OneEnrollment, Issued, Types, TypeOK, Row, Certs, Renewal,
     CommitDelete, satellite, history
<1>23. CASE ApplyDelete
  BY <1>23, CertsAssumption DEF CertInv, Clean, KeptIn, Owned, Recorded, Orderly, InOrder,
     InFlight, Enrolling, Connecting, OneEnrollment, Issued, Types, TypeOK, Row, Certs, Renewal,
     ApplyDelete, satellite, history, NoDeletion
<1>24. CASE SkipRenewal
  BY <1>24, CertsAssumption DEF CertInv, Clean, KeptIn, Owned, Recorded, Orderly, InOrder,
     InFlight, Enrolling, Connecting, OneEnrollment, Issued, Types, TypeOK, Row, Certs, Renewal,
     SkipRenewal, hub, handlers, history
<1>25. ASSUME NEW l \in Links, Connect(l)  PROVE KeptIn'
  BY <1>25, CertsAssumption DEF CertInv, Clean, KeptIn, Owned, Recorded, Orderly, InOrder,
     InFlight, Enrolling, Connecting, OneEnrollment, Issued, Types, TypeOK, Row, Certs, Renewal,
     Connect, hub, NoSettlement
<1>26. CASE Refused
  BY <1>26, CertsAssumption DEF CertInv, Clean, KeptIn, Owned, Recorded, Orderly, InOrder,
     InFlight, Enrolling, Connecting, OneEnrollment, Issued, Types, TypeOK, Row, Certs, Renewal,
     Refused, hub, handlers, history
<1>27. CASE Unlink
  BY <1>27, CertsAssumption DEF CertInv, Clean, KeptIn, Owned, Recorded, Orderly, InOrder,
     InFlight, Enrolling, Connecting, OneEnrollment, Issued, Types, TypeOK, Row, Certs, Renewal,
     Unlink, hub, handlers, history
<1> QED
  BY <1>1, <1>2, <1>3, <1>4, <1>5, <1>6, <1>7, <1>8, <1>9, <1>10, <1>11, <1>12, <1>13, <1>14,
     <1>15, <1>16, <1>17, <1>18, <1>19, <1>20, <1>21, <1>22, <1>23, <1>24, <1>25, <1>26, <1>27
     DEF Next, CertStep, LinkStep, DeleteStep, SatelliteStep

(* Row and allowlist differ by what is still owed, after every step.       *)
LEMMA MirroredStep ==
    ASSUME CertInv, Next, CertInv', Tidy => Mirrored, Tidy'
    PROVE  Mirrored'
<1>1. CASE Submit
  BY <1>1 DEF Tidy, Mirrored, Arriving, Leaving, Retired, Promotes, InFlight, Connecting, Submit, handlers, history
<1>2. CASE Expire
  BY <1>2 DEF Tidy, Mirrored, Arriving, Leaving, Retired, Promotes, InFlight, Connecting, Expire, handlers, history
<1>3. CASE Approve
  <2>1. PICK n : n = issued + 1
    OBVIOUS
  <2>2. /\ n \in Certs /\ enrolling[n] = "none" /\ enrolling' = [enrolling EXCEPT ![n] = "record"]
        /\ UNCHANGED <<row, allowed, renewing, settling, deletion, torn, crossed, chained>>
    BY <1>3, <2>1, CertsAssumption DEF Approve, history, CertInv, Types, TypeOK, OneEnrollment,
       Certs
  <2>3. Mirrored
    BY <2>2 DEF Tidy
  <2>4. \A c \in Certs : enrolling'[c] = "admit" <=> enrolling[c] = "admit"
    BY <2>2 DEF CertInv, Types, TypeOK
  <2>5. Arriving' = Arriving /\ Leaving' = Leaving /\ InFlight' = InFlight /\ Connecting' = Connecting
    BY <2>2, <2>4 DEF Arriving, Leaving, Retired, Promotes, InFlight, Connecting
  <2> QED
    BY <2>2, <2>3, <2>4, <2>5 DEF Mirrored
<1>4. CASE Poll
  BY <1>4 DEF Tidy, Mirrored, Arriving, Leaving, Retired, Promotes, InFlight, Connecting, Poll,
     hub, handlers, history
<1>5. CASE AskRenewal
  <2>1. PICK n : n = issued + 1
    OBVIOUS
  <2>2. /\ n \in Certs /\ renewing[n].step = "none" /\ n > issued
        /\ UNCHANGED <<row, allowed, enrolling, settling, deletion, torn>>
        /\ ~crossed /\ ~chained /\ deletion.step = "none"
    <3>1. n \in Certs /\ n > issued /\ ~(n <= issued)
      BY <1>5, <2>1, CertsAssumption DEF AskRenewal, CertInv, Types, TypeOK, Certs
    <3>2. renewing[n].step = "none"
      BY <3>1 DEF CertInv, Issued, InFlight
    <3>3. ~crossed /\ ~chained /\ deletion.step = "none"
      BY <1>5 DEF AskRenewal, Tidy
    <3>4. UNCHANGED <<row, allowed, enrolling, settling, deletion, torn>>
      BY <1>5 DEF AskRenewal
    <3> QED
      BY <3>1, <3>2, <3>3, <3>4
  <2>3. Mirrored
    BY <2>2 DEF Tidy
  <2>4. renewing'[n].step = "commit" /\ \A d \in Certs : d # n => renewing'[d] = renewing[d]
    BY <1>5, <2>1, <2>2, RenewalMoves DEF AskRenewal, CertInv
  <2>5. Arriving' = Arriving /\ Leaving' = Leaving
    BY <2>2, <2>4 DEF Arriving, Leaving, Retired, Promotes
  <2>6. \A c \in Certs : renewing'[c].step \in {"apply", "answer"} => renewing[c].step \in {"apply", "answer"}
    BY <2>2, <2>4
  <2> QED
    BY <2>2, <2>3, <2>5, <2>6 DEF Mirrored
<1>6. CASE LoseAnswer
  BY <1>6 DEF Tidy, Mirrored, Arriving, Leaving, Retired, Promotes, InFlight, Connecting, LoseAnswer, hub, handlers,
     history
<1>7. CASE Lapse
  <2>1. /\ UNCHANGED <<allowed, enrolling, renewing, settling, deletion, torn, crossed, chained>>
        /\ deletion.step = "none" /\ row # NoRow
    BY <1>7 DEF Lapse, handlers
  <2>2. Mirrored
    BY <2>1 DEF Tidy
  <2>3. row' # NoRow /\ row'.cert = row.cert /\ row'.pending = row.pending
    BY <1>7, <2>1, RenewalLapses DEF Lapse, CertInv, Types, TypeOK
  <2>4. Recorded(row') = Recorded(row) /\ Arriving' = Arriving /\ Leaving' = Leaving
    BY <2>1, <2>3 DEF Recorded, Arriving, Leaving, Retired, Promotes
  <2> QED
    BY <2>1, <2>2, <2>3, <2>4 DEF Mirrored
<1>8. CASE BeginDelete
  <2>1. /\ UNCHANGED <<row, allowed, enrolling, renewing, settling, torn, chained>> /\ ~Busy /\ ~crossed
        /\ deletion.step = "none" /\ deletion'.step = "pending" /\ deletion'.cert = row.cert
    BY <1>8 DEF BeginDelete, hub, Tidy
  <2>2. Mirrored
    BY <2>1 DEF Tidy
  <2>3. Arriving' = Arriving /\ Leaving' = Leaving
    BY <2>1 DEF Arriving, Leaving, Retired, Promotes
  <2>4. InFlight' = {} /\ ~Connecting' /\ \A c \in Certs : enrolling'[c] # "admit"
    BY <2>1 DEF Busy, InFlight, Connecting
  <2> QED
    BY <2>1, <2>2, <2>3, <2>4 DEF Mirrored
<1>9. CASE Restart
  BY <1>9, CertsAssumption, SMTT(30) DEF CertInv, Tidy, Mirrored, Arriving, Leaving, Retired, Recorded,
     Orderly, InOrder, InFlight, Enrolling, Connecting, OneEnrollment, Issued, Types, TypeOK,
     Row, Certs, Renewal, Restart, Swept, NoDeletion, NoRenewal, NoSettlement
<1>10. CASE DropHandler
  <2>1. /\ UNCHANGED <<row, allowed, chained, crossed>> /\ torn = {} /\ torn' = {}
        /\ \A c \in Certs : enrolling'[c] = enrolling[c]
    BY <1>10, DropFacts DEF hub, Tidy
  <2>2. Mirrored
    BY <2>1 DEF Tidy
  <2>3. /\ \A c \in Certs : /\ renewing'[c].step = "apply" <=> renewing[c].step = "apply"
                            /\ renewing[c].step = "apply" => renewing'[c] = renewing[c]
                            /\ renewing'[c].step # "none" => renewing'[c] = renewing[c]
        /\ \A l \in Links : /\ settling'[l].step = "apply" <=> settling[l].step = "apply"
                            /\ settling[l].step = "apply" => settling'[l] = settling[l]
                            /\ settling'[l].step # "none" => settling'[l] = settling[l]
        /\ deletion'.step = "apply" <=> deletion.step = "apply"
        /\ deletion'.step # "none" => deletion' = deletion
        /\ deletion.step = "apply" => deletion' = deletion
    BY <1>10, <2>1, DropFacts, NoSettlementType DEF NoRenewal, NoDeletion
  <2>4. Arriving' = Arriving
    BY <2>1, <2>3 DEF Arriving
  <2>5. Leaving' = Leaving
    BY <2>3 DEF Leaving, Retired, Promotes
  <2>6. InFlight' \subseteq InFlight /\ (Connecting' => Connecting)
    BY <2>3 DEF InFlight, Connecting
  <2> QED
    BY <2>1, <2>2, <2>3, <2>4, <2>5, <2>6 DEF Mirrored
<1>11. ASSUME NEW c \in Certs, RecordSatellite(c)  PROVE Mirrored'
  <2>1. /\ UNCHANGED <<allowed, renewing, settling, deletion, chained, crossed>> /\ torn = {}
        /\ row = NoRow /\ enrolling[c] = "record" /\ enrolling' = [enrolling EXCEPT ![c] = "admit"]
    BY <1>11 DEF RecordSatellite, Tidy
  <2>2. Mirrored
    BY <1>11, <2>1 DEF Tidy
  <2>3. row' # NoRow /\ row'.cert = c /\ row'.pending = NoCert
    BY <1>11, <2>1, RecordFacts DEF CertInv
  <2>4. Recorded(row') = {c} /\ c # NoCert
    BY <1>11, <2>3, CertsAssumption DEF Recorded, Certs
  <2>5. InFlight = {} /\ ~Connecting /\ deletion.pending = NoCert /\ deletion.cert # c
    BY <1>11, <2>1 DEF CertInv, OneEnrollment, Enrolling
  <2>6. c \in Arriving' /\ Leaving' = Leaving
    BY <1>11, <2>1 DEF Arriving, Leaving, Retired, Promotes, CertInv, Types, TypeOK
  <2>7. c \notin Leaving
    BY <1>11, <2>4, <2>5 DEF Leaving, InFlight, Connecting
  <2>8. deletion.step \notin {"pending", "commit"}
    BY <1>11, <2>1 DEF CertInv, Types
  <2>9. allowed \subseteq Leaving
    BY <1>11, <2>1, <2>2 DEF Mirrored, Recorded
  <2>10. InFlight' = {} /\ ~Connecting'
    BY <1>11, <2>1, <2>5 DEF InFlight, Connecting
  <2>11. \A l \in Links : settling[l].step # "commit"
    BY <1>11, <2>5 DEF Connecting
  <2> QED
    BY <1>11, <2>1, <2>3, <2>4, <2>6, <2>7, <2>8, <2>9, <2>10, <2>11 DEF Mirrored
<1>12. ASSUME NEW c \in Certs, AdmitSatellite(c)  PROVE Mirrored'
  <2>1. /\ UNCHANGED <<row, renewing, settling, deletion, torn, crossed, chained>>
        /\ allowed' = allowed \cup {c} /\ enrolling[c] = "admit" /\ enrolling' = [enrolling EXCEPT ![c] = "none"]
    BY <1>12 DEF AdmitSatellite, history
  <2>2. Mirrored
    BY <1>12, <2>1 DEF Tidy
  <2>3. row # NoRow /\ row.cert = c /\ c # NoCert
    BY <1>12, <2>1, <2>2, CertsAssumption DEF Mirrored, CertInv, OneEnrollment, Certs
  <2>4. c \in Recorded(row) /\ Recorded(row') = Recorded(row)
    BY <1>12, <2>1, <2>3 DEF Recorded
  <2>5. \A d \in Certs : enrolling'[d] = "admit" => enrolling[d] = "admit"
    BY <1>12, <2>1 DEF CertInv, Types, TypeOK
  <2>6. Arriving \subseteq Arriving' \cup {c} /\ Leaving' = Leaving
    BY <1>12, <2>1 DEF Arriving, Leaving, Retired, Promotes, CertInv, Types, TypeOK
  <2>7. InFlight' = InFlight /\ Connecting' = Connecting
    BY <1>12, <2>1 DEF InFlight, Connecting
  <2> QED
    BY <1>12, <2>1, <2>2, <2>4, <2>5, <2>6, <2>7 DEF Mirrored
<1>13. ASSUME NEW c \in Certs, CommitRenewal(c)  PROVE Mirrored'
  <2>1. /\ UNCHANGED <<allowed, enrolling, settling, deletion, chained, crossed, torn>> /\ row # NoRow
        /\ renewing[c].step = "commit"
        /\ renewing' = [renewing EXCEPT ![c] = [step |-> "apply", old |-> row.pending]]
    BY <1>13 DEF CommitRenewal, history
  <2>2. Mirrored /\ InOrder
    BY <1>13, <2>1 DEF Tidy, CertInv, Orderly
  <2>3. row \in Row /\ row.cert \in Certs /\ row.pending \in Certs \cup {NoCert} /\ c # NoCert /\ row.cert # NoCert
    BY <1>13, <2>1, CertsAssumption DEF CertInv, Types, TypeOK, Row, Certs
  <2>4. row' # NoRow /\ row'.cert = row.cert /\ row'.pending = c
    BY <1>13, <2>1, <2>3, RenewalSet DEF CommitRenewal, MaybeCert
  <2>5. /\ renewing'[c].step = "apply" /\ renewing'[c].old = row.pending
        /\ \A d \in Certs : d # c => renewing'[d] = renewing[d]
    BY <1>13, <2>1 DEF CertInv, Types, TypeOK
  <2>6. c \in InFlight /\ \A d \in Certs : d # c => renewing[d].step = "none"
    BY <1>13, <2>1, <2>2 DEF InOrder, InFlight
  <2>7. deletion.step = "none" /\ row.cert # c /\ row.pending # c /\ (row.pending # NoCert => row.cert # row.pending)
    <3>1. row.pending # NoCert => row.cert < row.pending
      BY <1>13, <2>1, <2>2 DEF InOrder
    <3>2. row.pending # NoCert => row.cert # row.pending
      BY <1>13, <2>3, <3>1 DEF Certs
    <3> QED
      BY <1>13, <2>1, <2>2, <2>6, <3>2 DEF InOrder, Mirrored
  <2>8. Recorded(row') = {row.cert, c} /\ Recorded(row) = {row.cert, row.pending} \ {NoCert}
    BY <1>13, <2>1, <2>3, <2>4 DEF Recorded
  <2>9. Arriving \subseteq Arriving' /\ c \in Arriving'
    BY <1>13, <2>1, <2>5 DEF Arriving
  <2>10. Leaving' = Leaving \cup ({row.pending} \cap Certs)
    BY <1>13, <2>1, <2>5 DEF Leaving, Retired, Promotes
  <2>11. c \notin Leaving
    <3>1. \A d \in Certs : renewing[d].step # "apply"
      BY <1>13, <2>1, <2>6
    <3>2. \A l \in Links : Retired(l) # c
      BY <1>13, <2>2, <2>6 DEF InOrder, Retired
    <3> QED
      BY <1>13, <2>7, <3>1, <3>2 DEF Leaving
  <2>12. Recorded(row') \subseteq allowed' \cup Arriving'
    BY <1>13, <2>1, <2>2, <2>3, <2>8, <2>9 DEF Mirrored
  <2>13. allowed' \subseteq Recorded(row') \cup Leaving'
    BY <1>13, <2>1, <2>2, <2>3, <2>8, <2>10 DEF Mirrored
  <2>14. Leaving' \cap Recorded(row') = {}
    BY <1>13, <2>2, <2>3, <2>7, <2>8, <2>10, <2>11 DEF Mirrored
  <2>15. \A l \in Links : settling[l].pending # c
    BY <1>13, <2>2, <2>6 DEF InOrder
  <2> QED
    BY <1>13, <2>1, <2>4, <2>7, <2>12, <2>13, <2>14, <2>15 DEF Mirrored
<1>14. ASSUME NEW c \in Certs, RefuseRenewal(c)  PROVE Mirrored'
  <2>1. /\ UNCHANGED <<row, allowed, enrolling, settling, deletion, chained, crossed, torn>>
        /\ renewing[c].step = "commit" /\ renewing' = [renewing EXCEPT ![c] = NoRenewal]
    BY <1>14 DEF RefuseRenewal, hub, history
  <2>2. Mirrored
    BY <1>14, <2>1 DEF Tidy
  <2>3. renewing'[c].step = "none" /\ \A d \in Certs : d # c => renewing'[d] = renewing[d]
    BY <1>14, <2>1 DEF CertInv, Types, TypeOK, NoRenewal
  <2>4. Arriving' = Arriving /\ Leaving' = Leaving /\ InFlight' \subseteq InFlight /\ Connecting' = Connecting
    BY <1>14, <2>1, <2>3 DEF Arriving, Leaving, Retired, Promotes, InFlight, Connecting
  <2> QED
    BY <1>14, <2>1, <2>2, <2>3, <2>4 DEF Mirrored
<1>15. ASSUME NEW c \in Certs, ApplyRenewal(c)  PROVE Mirrored'
  <2>1. /\ UNCHANGED <<row, enrolling, settling, deletion, chained, crossed, torn>>
        /\ renewing[c].step = "apply" /\ allowed' = (allowed \cup {c}) \ ({renewing[c].old} \ {c})
    BY <1>15 DEF ApplyRenewal, history
  <2>2. Mirrored /\ InOrder
    BY <1>15, <2>1 DEF Tidy, CertInv, Orderly
  <2>3. /\ renewing'[c].step = "answer" /\ renewing'[c].old = renewing[c].old
        /\ \A d \in Certs : d # c => renewing'[d] = renewing[d]
    BY <1>15, RenewalMoves DEF ApplyRenewal, CertInv
  <2>4. c \in InFlight /\ \A d \in Certs : d # c => renewing[d].step = "none"
    BY <1>15, <2>1, <2>2 DEF InOrder, InFlight
  <2>5. renewing[c].old # c /\ row # NoRow /\ row.pending = c /\ c # NoCert /\ deletion.step = "none"
    BY <1>15, <2>1, <2>2, <2>4, CertsAssumption DEF InOrder, Mirrored, Certs
  <2>6. c \in Recorded(row)
    BY <1>15, <2>5 DEF Recorded
  <2>7. Arriving \subseteq Arriving' \cup {c} /\ Leaving' \subseteq Leaving /\ Leaving \subseteq Leaving' \cup {renewing[c].old}
    BY <1>15, <2>1, <2>3 DEF Arriving, Leaving, Retired, Promotes
  <2>8. renewing[c].old \notin Recorded(row)
    <3>1. Recorded(row) \subseteq Certs
      BY <1>15 DEF Recorded, CertInv, Types, TypeOK, Row
    <3>2. renewing[c].old \in Certs => renewing[c].old \in Leaving
      BY <1>15, <2>1 DEF Leaving
    <3> QED
      BY <1>15, <2>2, <3>1, <3>2 DEF Mirrored
  <2>9. Recorded(row') = Recorded(row)
    BY <1>15, <2>1 DEF Recorded
  <2>10. Recorded(row) \subseteq allowed' \cup Arriving'
    BY <1>15, <2>1, <2>2, <2>7, <2>8 DEF Mirrored
  <2>11. allowed' \subseteq Recorded(row) \cup Leaving'
    BY <1>15, <2>1, <2>2, <2>5, <2>6, <2>7 DEF Mirrored
  <2>12. \A d \in Certs : renewing'[d].step \in {"apply", "answer"} => renewing[d].step \in {"apply", "answer"}
    BY <1>15, <2>1, <2>3
  <2> QED
    BY <1>15, <2>1, <2>2, <2>5, <2>7, <2>9, <2>10, <2>11, <2>12 DEF Mirrored
<1>16. ASSUME NEW c \in Certs, AnswerRenewal(c)  PROVE Mirrored'
  <2>1. /\ UNCHANGED <<row, allowed, enrolling, settling, deletion, chained, crossed, torn>>
        /\ renewing[c].step = "answer" /\ renewing' = [renewing EXCEPT ![c] = NoRenewal]
    BY <1>16 DEF AnswerRenewal, hub, history
  <2>2. Mirrored
    BY <2>1 DEF Tidy
  <2>3. renewing'[c].step = "none" /\ \A d \in Certs : d # c => renewing'[d] = renewing[d]
    BY <1>16, <2>1 DEF CertInv, Types, TypeOK, NoRenewal
  <2>4. /\ Arriving' = Arriving /\ Leaving' = Leaving
        /\ InFlight' \subseteq InFlight /\ Connecting' = Connecting
    BY <2>1, <2>3 DEF Arriving, Leaving, Retired, Promotes, InFlight, Connecting
  <2> QED
    BY <1>16, <2>1, <2>2, <2>3, <2>4 DEF Mirrored
<1>17. ASSUME NEW l \in Links, Enter(l)  PROVE Mirrored'
  <2>1. UNCHANGED <<row, allowed, enrolling, renewing, deletion, torn, crossed, chained>> /\ settling[l].step = "enter"
    BY <1>17 DEF Enter, hub, history
  <2>2. Mirrored
    BY <1>17, <2>1 DEF Tidy
  <2>3. /\ settling'[l].step \in {"none", "read"} /\ \A k \in Links : k # l => settling'[k] = settling[k]
    BY <1>17, EnterFacts, NoSettlementType DEF CertInv
  <2>4. deletion.step = "none"
    BY <1>17, <2>1, <2>2 DEF Mirrored, Connecting
  <2>5. Arriving' = Arriving /\ Leaving' = Leaving
    BY <1>17, <2>1, <2>3 DEF Arriving, Leaving, Retired, Promotes
  <2> QED
    BY <1>17, <2>1, <2>2, <2>3, <2>4, <2>5 DEF Mirrored
<1>18. ASSUME NEW l \in Links, ReadRow(l)  PROVE Mirrored'
  <2>1. UNCHANGED <<row, allowed, enrolling, renewing, deletion, torn, crossed, chained>> /\ settling[l].step = "read"
    BY <1>18 DEF ReadRow, hub, satellite, history
  <2>2. Mirrored
    BY <1>18, <2>1 DEF Tidy
  <2>3. /\ settling'[l].step = "none" \/ (settling'[l].step = "commit" /\ settling'[l].current = row.cert)
        /\ \A k \in Links : k # l => settling'[k] = settling[k]
    BY <1>18, ReadFacts, NoSettlementType DEF CertInv
  <2>4. deletion.step = "none"
    BY <1>18, <2>1, <2>2 DEF Mirrored, Connecting
  <2>5. Arriving' = Arriving /\ Leaving' = Leaving
    BY <1>18, <2>1, <2>3 DEF Arriving, Leaving, Retired, Promotes
  <2> QED
    BY <1>18, <2>1, <2>2, <2>3, <2>4, <2>5 DEF Mirrored
<1>19. ASSUME NEW l \in Links, CommitSettlement(l)  PROVE Mirrored'
  <2>1. UNCHANGED <<allowed, enrolling, renewing, deletion, crossed, chained>> /\ torn = {}
        /\ settling[l].step = "commit" /\ (row = NoRow \/ row.pending = settling[l].pending)
    BY <1>19 DEF CommitSettlement, Tidy
  <2>2. Mirrored /\ InOrder
    BY <1>19, <2>1 DEF Tidy, CertInv, Orderly
  <2>3. deletion.step = "none" /\ settling[l].pending # NoCert /\ settling[l].current < settling[l].pending
    BY <1>19, <2>1, <2>2 DEF Mirrored, InOrder, Connecting
  <2>4. /\ settling'[l].step = "apply" /\ settling'[l].presented = settling[l].presented
        /\ settling'[l].current = settling[l].current /\ settling'[l].pending = settling[l].pending
        /\ \A k \in Links : k # l => settling'[k] = settling[k]
        /\ row = NoRow => row' = NoRow
        /\ row # NoRow => /\ row' # NoRow /\ row'.pending = NoCert
                          /\ row'.cert = IF Promotes(settling[l]) THEN row.pending ELSE row.cert
    BY <1>19, <2>1, <2>3, CommitFacts DEF CertInv
  <2>5. Arriving' = Arriving /\ Leaving' = Leaving \cup ({Retired(l)} \cap Certs)
    BY <1>19, <2>1, <2>4 DEF Arriving, Leaving, Retired, Promotes
  <2>6. CASE row = NoRow
    BY <1>19, <2>1, <2>2, <2>3, <2>4, <2>5, <2>6 DEF Mirrored, Recorded
  <2>7. CASE row # NoRow
    <3>1. /\ row.cert \in Certs /\ row.pending \in Certs /\ row.cert # NoCert /\ row.pending # NoCert
          /\ row.pending = settling[l].pending /\ row.cert = settling[l].current /\ row.cert # row.pending
      <4>1. row.pending = settling[l].pending /\ row.cert = settling[l].current
        BY <1>19, <2>1, <2>2, <2>7 DEF Mirrored
      <4>2. row.cert \in Certs /\ row.pending \in Certs
        BY <1>19, <2>3, <2>7, <4>1 DEF CertInv, Types, TypeOK, Row
      <4> QED
        BY <1>19, <2>3, <4>1, <4>2, CertsAssumption DEF Certs
    <3>2. Recorded(row) = {row.cert, row.pending}
      BY <1>19, <2>7, <3>1 DEF Recorded
    <3>3. \/ Recorded(row') = {row.pending} /\ Retired(l) = row.cert
          \/ Recorded(row') = {row.cert} /\ Retired(l) = row.pending
      <4>1. CASE Promotes(settling[l])
        BY <1>19, <2>4, <2>7, <3>1, <4>1 DEF Recorded, Retired
      <4>2. CASE ~Promotes(settling[l])
        BY <1>19, <2>4, <2>7, <3>1, <4>2 DEF Recorded, Retired
      <4> QED
        BY <1>19, <4>1, <4>2
    <3>4. Recorded(row') \subseteq allowed' \cup Arriving'
      BY <1>19, <2>1, <2>2, <2>5, <3>2, <3>3 DEF Mirrored
    <3>5. allowed' \subseteq Recorded(row') \cup Leaving'
      BY <1>19, <2>1, <2>2, <2>5, <3>1, <3>2, <3>3 DEF Mirrored
    <3>6. Leaving' \cap Recorded(row') = {}
      BY <1>19, <2>2, <2>5, <3>1, <3>2, <3>3 DEF Mirrored
    <3>7. \A k \in Links : settling'[k].step = "commit" => settling'[k].pending # NoCert
      BY <1>19, <2>2, <2>4 DEF InOrder
    <3> QED
      BY <1>19, <2>1, <2>3, <2>4, <2>7, <3>4, <3>5, <3>6, <3>7 DEF Mirrored
  <2> QED
    BY <1>19, <2>6, <2>7
<1>20. ASSUME NEW l \in Links, ApplySettlement(l)  PROVE Mirrored'
  <2>1. UNCHANGED <<row, enrolling, renewing, deletion, torn, crossed, chained>> /\ settling[l].step = "apply"
        /\ allowed' = allowed \ {Retired(l)} /\ Settled(l)
    BY <1>20 DEF ApplySettlement, history, Retired
  <2>2. Mirrored /\ InOrder
    BY <1>20, <2>1 DEF Tidy, CertInv, Orderly
  <2>3. settling'[l].step = "none" /\ \A k \in Links : k # l => settling'[k] = settling[k]
    BY <1>20, <2>1, SettledFacts, NoSettlementType DEF CertInv
  <2>4. deletion.step = "none"
    BY <1>20, <2>1, <2>2 DEF Mirrored, Connecting
  <2>5. Arriving' = Arriving /\ Leaving' \subseteq Leaving /\ Leaving \subseteq Leaving' \cup {Retired(l)}
    BY <1>20, <2>1, <2>3 DEF Arriving, Leaving, Retired, Promotes
  <2>6. Retired(l) \in Leaving
    <3>1. Retired(l) \in Certs
      BY <1>20, <2>1, <2>2 DEF Retired, InOrder, CertInv, Types, TypeOK, Settlement
    <3> QED
      BY <1>20, <2>1, <3>1 DEF Leaving
  <2>7. Recorded(row') = Recorded(row)
    BY <1>20, <2>1 DEF Recorded
  <2> QED
    BY <1>20, <2>1, <2>2, <2>3, <2>4, <2>5, <2>6, <2>7 DEF Mirrored
<1>21. CASE ReadPending
  BY <1>21, CertsAssumption, SMTT(30) DEF CertInv, Tidy, Mirrored, Arriving, Leaving, Retired, Recorded,
     Orderly, InOrder, InFlight, Enrolling, Connecting, OneEnrollment, Issued, Types, TypeOK,
     Row, Certs, Renewal, ReadPending, hub, satellite, history
<1>22. CASE CommitDelete
  <2>1. /\ UNCHANGED <<allowed, enrolling, renewing, settling, torn, crossed, chained>>
        /\ deletion.step = "commit" /\ row' = NoRow
        /\ deletion'.step = "apply" /\ deletion'.cert = deletion.cert /\ deletion'.pending = deletion.pending
    BY <1>22 DEF CommitDelete, history, CertInv, Types, Deletion
  <2>2. Mirrored
    BY <2>1 DEF Tidy
  <2>3. /\ deletion.cert = row.cert /\ deletion.pending = row.pending /\ row # NoRow
        /\ InFlight = {} /\ ~Connecting /\ \A c \in Certs : enrolling[c] # "admit"
    BY <2>1, <2>2 DEF Mirrored, CertInv, Types
  <2>4. Recorded(row) = {row.cert, row.pending} \ {NoCert} /\ Recorded(row') = {} /\ Recorded(row) \subseteq Certs
    BY <2>1, <2>3 DEF Recorded, CertInv, Types, TypeOK, Row
  <2>5. Leaving' = Leaving \cup Recorded(row)
    BY <2>1, <2>3, <2>4, CertsAssumption DEF Leaving, Retired, Promotes, Certs
  <2>6. InFlight' = {} /\ ~Connecting'
    BY <2>1, <2>3 DEF InFlight, Connecting
  <2>7. \A c \in Certs : renewing[c].step = "none"
    BY <2>3 DEF InFlight
  <2> QED
    BY <2>1, <2>2, <2>3, <2>4, <2>5, <2>6, <2>7 DEF Mirrored
<1>23. CASE ApplyDelete
  <2>1. /\ UNCHANGED <<row, enrolling, renewing, settling, chained, crossed, torn>>
        /\ deletion.step = "apply" /\ deletion'.step = "none"
        /\ allowed' = allowed \ {deletion.cert, deletion.pending}
    BY <1>23 DEF ApplyDelete, history, NoDeletion
  <2>2. Mirrored
    BY <2>1 DEF Tidy
  <2>3. /\ Arriving' = Arriving /\ Leaving' \subseteq Leaving
        /\ Leaving \subseteq Leaving' \cup {deletion.cert, deletion.pending}
    BY <2>1 DEF Arriving, Leaving, Retired, Promotes
  <2>4. /\ Recorded(row) \cap {deletion.cert, deletion.pending} = {}
        /\ Recorded(row') = Recorded(row)
    <3>1. Recorded(row) \subseteq Certs
      BY DEF Recorded, CertInv, Types, TypeOK, Row
    <3>2. {deletion.cert, deletion.pending} \cap Certs \subseteq Leaving
      BY <2>1 DEF Leaving
    <3> QED
      BY <2>1, <2>2, <3>1, <3>2 DEF Mirrored
  <2> QED
    BY <2>1, <2>2, <2>3, <2>4 DEF Mirrored
<1>24. CASE SkipRenewal
  BY <1>24 DEF Tidy, Mirrored, Arriving, Leaving, Retired, Promotes, InFlight, Connecting, SkipRenewal, hub, handlers,
     history
<1>25. ASSUME NEW l \in Links, Connect(l)  PROVE Mirrored'
  <2>1. UNCHANGED <<row, allowed, enrolling, renewing, deletion, torn, chained>> /\ settling[l].step = "none"
        /\ ~crossed /\ deletion.step = "none"
    BY <1>25 DEF Connect, hub, Tidy
  <2>2. Mirrored
    BY <1>25, <2>1 DEF Tidy
  <2>3. settling'[l].step \in {"enter", "read"} /\ \A k \in Links : k # l => settling'[k] = settling[k]
    BY <1>25, ConnectFacts DEF CertInv
  <2>4. Arriving' = Arriving /\ Leaving' = Leaving
    BY <1>25, <2>1, <2>3 DEF Arriving, Leaving, Retired, Promotes
  <2> QED
    BY <1>25, <2>1, <2>2, <2>3, <2>4 DEF Mirrored
<1>26. CASE Refused
  BY <1>26 DEF Tidy, Mirrored, Arriving, Leaving, Retired, Promotes, InFlight, Connecting,
     Refused, hub, handlers, history
<1>27. CASE Unlink
  BY <1>27 DEF Tidy, Mirrored, Arriving, Leaving, Retired, Promotes, InFlight, Connecting,
     Unlink, hub, handlers, history
<1> QED
  BY <1>1, <1>2, <1>3, <1>4, <1>5, <1>6, <1>7, <1>8, <1>9, <1>10, <1>11, <1>12, <1>13, <1>14,
     <1>15, <1>16, <1>17, <1>18, <1>19, <1>20, <1>21, <1>22, <1>23, <1>24, <1>25, <1>26, <1>27
     DEF Next, CertStep, LinkStep, DeleteStep, SatelliteStep

-----------------------------------------------------------------------------
(* The invariants.                                                         *)

(* Before the satellite is enrolled there is nothing to disagree about.    *)
LEMMA CertInit ==
    ASSUME Init
    PROVE  CertInv /\ (Clean => KeptIn) /\ (Tidy => Mirrored)
<1>1. /\ \A c \in Certs : enrolling[c] = "none" /\ renewing[c].step = "none"
      /\ \A l \in Links : settling[l] = NoSettlement
      /\ csr \in BOOLEAN /\ ~csr /\ row = NoRow /\ allowed = {} /\ approved = NoCert /\ sat = NoCert
      /\ deletion = NoDeletion /\ awaited = NoCert /\ phase = "down" /\ issued = 0
      /\ chained \in BOOLEAN /\ lapses \in BOOLEAN /\ crossed \in BOOLEAN
  BY DEF Init, NoRenewal
<1>2. InFlight = {} /\ ~Enrolling /\ ~Connecting
  BY <1>1, NoSettlementType DEF InFlight, Enrolling, Connecting
<1>3. deletion \in Deletion /\ deletion.step = "none" /\ deletion.cert = NoCert /\ deletion.pending = NoCert
  BY <1>1 DEF NoDeletion, Deletion, MaybeCert
<1>4. Types
  <2>1. /\ enrolling \in [Certs -> {"none", "record", "admit"}]
        /\ renewing \in [Certs -> Renewal] /\ settling \in [Links -> Settlement]
    BY NoSettlementType DEF Init, NoRenewal, Renewal
  <2>2. /\ kind \in {"mediahost", "transcoder"} /\ gate \in Links \cup {Free, "delete"} /\ gate # "delete"
        /\ faults \in 0 .. MaxFaults /\ issued \in 0 .. MaxCerts
    BY CertsAssumption DEF Init
  <2> QED
    BY <1>1, <1>3, <2>1, <2>2 DEF Types, TypeOK, MaybeCert
<1>5. Issued /\ OneEnrollment
  BY <1>1, <1>2, <1>3, NoSettlementType DEF Issued, OneEnrollment
<1>6. InOrder
  BY <1>1, <1>2, NoSettlementType DEF InOrder
<1>7. KeptIn
  BY <1>1, <1>2, <1>3, NoSettlementType DEF KeptIn, Owned
<1>8. Mirrored
  <2>1. Recorded(row) = {}
    BY <1>1 DEF Recorded
  <2>2. \A c \in Certs : enrolling[c] # "admit" /\ renewing[c].step \notin {"apply", "answer"}
    BY <1>1
  <2> QED
    BY <1>1, <1>3, <2>1, <2>2, NoSettlementType DEF Mirrored, Leaving
<1> QED
  BY <1>4, <1>5, <1>6, <1>7, <1>8 DEF CertInv

(* A step that changes nothing.                                            *)
LEMMA CertStutter ==
    ASSUME UNCHANGED vars
    PROVE  /\ CertInv' <=> CertInv
           /\ (Clean' <=> Clean) /\ (KeptIn' <=> KeptIn)
           /\ (Tidy' <=> Tidy) /\ (Mirrored' <=> Mirrored)
<1>1. UNCHANGED <<kind, issued, csr, approved, row, allowed, enrolling, renewing, settling, deletion, gate,
                  sat, phase, awaited, faults, lapses, chained, torn, crossed>>
  BY DEF vars, hub, handlers, satellite, history
<1>2. InFlight' = InFlight /\ Enrolling' = Enrolling /\ Connecting' = Connecting
  BY <1>1 DEF InFlight, Enrolling, Connecting
<1>3. Types' <=> Types
  BY <1>1 DEF Types, TypeOK
<1>4. (Issued' <=> Issued) /\ (OneEnrollment' <=> OneEnrollment)
  BY <1>1, <1>2 DEF Issued, OneEnrollment
<1>5. (Orderly' <=> Orderly) /\ (InOrder' <=> InOrder) /\ (Clean' <=> Clean) /\ (Tidy' <=> Tidy)
  BY <1>1, <1>2 DEF Orderly, InOrder, Clean, Tidy
<1>6. KeptIn' <=> KeptIn
  BY <1>1, <1>2 DEF KeptIn, Owned, Recorded
<1>7. Arriving' = Arriving /\ Leaving' = Leaving
  BY <1>1 DEF Arriving, Leaving, Retired, Promotes
<1>8. Mirrored' <=> Mirrored
  BY <1>1, <1>2, <1>7 DEF Mirrored, Recorded
<1> QED
  BY <1>3, <1>4, <1>5, <1>6, <1>8 DEF CertInv

(* What holds of a satellite's certificates whatever the interleaving of   *)
(* approval, renewal, settlement and deletion: types, serials, one         *)
(* enrollment at a time, and the order of renewals that were not chained.  *)
THEOREM CertInvariant == Spec => []CertInv
<1>1. Init => CertInv
  BY CertInit
<1>2. CertInv /\ [Next]_vars => CertInv'
  <2> SUFFICES ASSUME CertInv, [Next]_vars PROVE CertInv'
    OBVIOUS
  <2>1. CASE Next
    <3>1. Types' /\ Issued' /\ OneEnrollment'
      BY <2>1, TypesStep, IssuedStep, EnrollmentStep
    <3>2. Orderly' => InOrder'
      BY <2>1, OrderStep
    <3> QED
      BY <3>1, <3>2 DEF CertInv
  <2>2. CASE UNCHANGED vars
    BY <2>2, CertStutter
  <2> QED
    BY <2>1, <2>2
<1>3. Spec => Init /\ [][Next]_vars
  BY DEF Spec
<1> QED
  BY <1>1, <1>2, <1>3, PTL

(* The variables keep their types (SatelliteCerts' TypeOK).                *)
THEOREM TypeCorrect == Spec => []TypeOK
<1>1. CertInv => TypeOK
  BY DEF CertInv, Types
<1> QED
  BY <1>1, CertInvariant, PTL

(* "So a renewal can never lock its satellite out" (renewal_service.rs):   *)
(* with any number of certificates, overlapping handshakes, lost answers,  *)
(* hub restarts and dropped handlers, the identity on the satellite's disk *)
(* is admitted and recorded while the satellite is enrolled.               *)
THEOREM RenewalsNeverLockOut == Spec => []NotLockedOut
<1>1. Init => (Clean => KeptIn)
  BY CertInit
<1>2. CertInv /\ CertInv' /\ (Clean => KeptIn) /\ [Next]_vars => (Clean' => KeptIn')
  <2> SUFFICES ASSUME CertInv, CertInv', Clean => KeptIn, [Next]_vars, Clean' PROVE KeptIn'
    OBVIOUS
  <2>1. CASE Next
    BY <2>1, KeptInStep
  <2>2. CASE UNCHANGED vars
    BY <2>2, CertStutter
  <2> QED
    BY <2>1, <2>2
<1>3. CertInv /\ (Clean => KeptIn) => NotLockedOut
  <2> SUFFICES ASSUME CertInv, Clean => KeptIn, row # NoRow, sat # NoCert, enrolling[sat] = "none", Clean
               PROVE  sat \in allowed \cap Recorded(row)
    BY DEF NotLockedOut, Clean
  <2>1. ~Enrolling
    BY DEF Enrolling, CertInv, OneEnrollment
  <2>2. Owned = sat
    BY DEF Owned
  <2> QED
    BY <2>1, <2>2 DEF KeptIn
<1>4. Spec => Init /\ [][Next]_vars
  BY DEF Spec
<1> QED
  BY <1>1, <1>2, <1>3, <1>4, CertInvariant, PTL

(* Between handlers the verifier's set is exactly what the row records, so *)
(* a deleted satellite is refused and no retired certificate lingers,      *)
(* unless a handler was cut between its two writes, ran across a deletion, *)
(* or renewed a renewal that was not settled.                              *)
THEOREM AllowlistFollowsTheTable == Spec => []AllowlistMirrors
<1>1. Init => (Tidy => Mirrored)
  BY CertInit
<1>2. CertInv /\ CertInv' /\ (Tidy => Mirrored) /\ [Next]_vars => (Tidy' => Mirrored')
  <2> SUFFICES ASSUME CertInv, CertInv', Tidy => Mirrored, [Next]_vars, Tidy' PROVE Mirrored'
    OBVIOUS
  <2>1. CASE Next
    BY <2>1, MirroredStep
  <2>2. CASE UNCHANGED vars
    BY <2>2, CertStutter
  <2> QED
    BY <2>1, <2>2
<1>3. CertInv /\ (Tidy => Mirrored) => AllowlistMirrors
  <2> SUFFICES ASSUME Tidy => Mirrored, ~Busy, deletion.step = "none", Tidy
               PROVE  allowed = Recorded(row)
    BY DEF AllowlistMirrors, Tidy
  <2>1. /\ \A c \in Certs : renewing[c].step = "none" /\ enrolling[c] = "none"
        /\ \A l \in Links : settling[l].step = "none"
    BY DEF Busy, InFlight
  <2>2. Arriving = {} /\ Leaving = {}
    BY <2>1 DEF Arriving, Leaving
  <2> QED
    BY <2>2 DEF Mirrored
<1>4. Spec => Init /\ [][Next]_vars
  BY DEF Spec
<1> QED
  BY <1>1, <1>2, <1>3, <1>4, CertInvariant, PTL
=============================================================================
