--------------------------- MODULE SatelliteCerts ---------------------------
(***************************************************************************)
(* One satellite's certificate, from enrollment to deletion.               *)
(*                                                                         *)
(* The hub keeps two records of which certificates it admits: the          *)
(* `satellites` row (the current fingerprint and, while a renewal is       *)
(* settling, a pending one), which survives a restart, and AllowedCerts,   *)
(* the set the TLS verifier consults.  Four handlers change both, each in  *)
(* two steps with an await between them: the approval of an enrollment,    *)
(* record_renewal, settle_renewal on every connection, and                 *)
(* delete_satellite.  The satellite keeps one identity on disk and         *)
(* replaces it when a renewal is answered.                                 *)
(*                                                                         *)
(* A certificate is its serial number, in the order of issue.  The         *)
(* satellite is a mediahost, whose handshake takes the catalogue gate and  *)
(* looks its certificate up in the row, or a transcoder, whose handshake   *)
(* does neither.                                                           *)
(***************************************************************************)
EXTENDS Naturals, FiniteSets

CONSTANTS
    MaxCerts,       \* certificates issued in one behaviour
    Links,          \* connections that may be in their handshake at once
    MaxFaults,      \* hub restarts, dropped handlers and lost answers
    NoCert,         \* no certificate
    NoRow,          \* the satellite has no row
    Free            \* the catalogue gate is free

Certs == 1 .. MaxCerts
Row == [cert : Certs, pending : Certs \cup {NoCert}, lapsed : BOOLEAN]

ASSUME CertsAssumption ==
    /\ MaxCerts \in Nat \ {0}
    /\ MaxFaults \in Nat
    /\ NoCert \notin Nat
    /\ NoRow \notin Row
    /\ Free \notin Links /\ "delete" \notin Links \cup {Free}

VARIABLES
    kind,           \* "mediahost" or "transcoder"
    issued,         \* certificates signed so far
    csr,            \* Enrollments::pending holds the satellite's CSR
    approved,       \* EnrollmentService::approved: the certificate to poll up
    row,            \* the satellites row
    allowed,        \* AllowedCerts
    enrolling,      \* per certificate, the approval that records it
    renewing,       \* per certificate, the renewal that records it
    settling,       \* per link, the handshake's settlement
    deletion,       \* delete_satellite
    gate,           \* catalog_apply_lock
    sat,            \* the identity on the satellite's disk
    phase,          \* what the satellite does
    awaited,        \* the renewal it awaits an answer to
    faults,         \* restarts, drops and losses so far
    lapses,         \* the grace of a pending renewal ran out at some time
    chained,        \* a renewal was asked for while one was unsettled
    torn,           \* the handlers that changed row and allowlist apart
    crossed         \* another handler ran across a deletion

hub == <<issued, csr, approved, row, allowed>>
handlers == <<enrolling, renewing, settling, deletion, gate>>
satellite == <<sat, phase, awaited>>
history == <<lapses, chained, torn, crossed>>
vars == <<kind, hub, handlers, satellite, faults, history>>

Renewal == [step : {"none", "commit", "apply", "answer"},
            old : Certs \cup {NoCert}]
NoRenewal == [step |-> "none", old |-> NoCert]

Settlement == [step : {"none", "enter", "read", "commit", "apply"},
               presented : Certs \cup {NoCert},
               current : Certs \cup {NoCert},
               pending : Certs \cup {NoCert},
               lapsed : BOOLEAN]
NoSettlement == [step |-> "none", presented |-> NoCert, current |-> NoCert,
                 pending |-> NoCert, lapsed |-> FALSE]

NoDeletion == [step |-> "none", cert |-> NoCert, pending |-> NoCert]

Init ==
    /\ kind \in {"mediahost", "transcoder"}
    /\ issued = 0
    /\ csr = FALSE
    /\ approved = NoCert
    /\ row = NoRow
    /\ allowed = {}
    /\ enrolling = [c \in Certs |-> "none"]
    /\ renewing = [c \in Certs |-> NoRenewal]
    /\ settling = [l \in Links |-> NoSettlement]
    /\ deletion = NoDeletion
    /\ gate = Free
    /\ sat = NoCert
    /\ phase = "down"
    /\ awaited = NoCert
    /\ faults = 0
    /\ lapses = FALSE
    /\ chained = FALSE
    /\ torn = {}
    /\ crossed = FALSE

(***************************************************************************)
(* Enrollment.                                                             *)
(***************************************************************************)

\* ensure_identity with nothing on disk: submit the CSR; the hub answers
\* AlreadyExists when it still holds it.  A rejected poll ends up here again
\* with the same CSR.
Submit ==
    /\ sat = NoCert
    /\ phase = "down" \/ (phase = "polling" /\ approved = NoCert /\ ~csr)
    /\ csr' = TRUE
    /\ phase' = "polling"
    /\ UNCHANGED <<kind, issued, approved, row, allowed, handlers, sat,
                   awaited, faults, history>>

\* Enrollments::expire, and the TTL of an approved certificate nobody fetched:
\* a quarter of an hour, so never before the approval's own request is done.
Expire ==
    /\ csr \/ approved # NoCert
    /\ \A c \in Certs : enrolling[c] = "none"
    /\ faults < MaxFaults
    /\ faults' = faults + 1
    /\ csr' = FALSE
    /\ approved' = NoCert
    /\ UNCHANGED <<kind, issued, row, allowed, handlers, satellite, history>>

\* The administrator types the code: the certificate is signed and offered
\* for polling before record_satellite has stored it.
Approve ==
    /\ csr
    /\ issued < MaxCerts
    /\ csr' = FALSE
    /\ issued' = issued + 1
    /\ approved' = issued + 1
    /\ enrolling' = [enrolling EXCEPT ![issued + 1] = "record"]
    /\ UNCHANGED <<kind, row, allowed, renewing, settling, deletion, gate,
                   satellite, faults, history>>

\* record_satellite's transaction: an upsert that leaves a pending renewal be.
\* A certificate it replaces was never fetched and stays on the allowlist.
RecordSatellite(c) ==
    /\ enrolling[c] = "record"
    /\ row' = IF row = NoRow
              THEN [cert |-> c, pending |-> NoCert, lapsed |-> FALSE]
              ELSE [row EXCEPT !.cert = c]
    /\ enrolling' = [enrolling EXCEPT ![c] = "admit"]
    /\ torn' = torn \cup (IF row # NoRow THEN {"upsert"} ELSE {})
    /\ UNCHANGED <<kind, issued, csr, approved, allowed, renewing, settling,
                   deletion, gate, satellite, faults, lapses, chained, crossed>>

AdmitSatellite(c) ==
    /\ enrolling[c] = "admit"
    /\ allowed' = allowed \cup {c}
    /\ enrolling' = [enrolling EXCEPT ![c] = "none"]
    /\ UNCHANGED <<kind, issued, csr, approved, row, renewing, settling,
                   deletion, gate, satellite, faults, history>>

\* The status poll of an approved CSR; identity::store.
Poll ==
    /\ phase = "polling"
    /\ approved # NoCert
    /\ sat' = approved
    /\ phase' = "down"
    /\ UNCHANGED <<kind, hub, handlers, awaited, faults, history>>

(***************************************************************************)
(* Renewal.                                                                *)
(***************************************************************************)

InFlight == {c \in Certs : renewing[c].step # "none"}

\* Some handler other than a deletion is under way.
Busy == \/ InFlight # {}
        \/ \E c \in Certs : enrolling[c] # "none"
        \/ \E l \in Links : settling[l].step # "none"

\* maybe_renew: due, or forced by the operator.  The request arrives over a
\* connection whose certificate the verifier admits; renew checks the CSR's
\* identity against it and signs.
AskRenewal ==
    /\ phase = "down"
    /\ sat \in allowed
    /\ issued < MaxCerts
    /\ issued' = issued + 1
    /\ renewing' = [renewing EXCEPT ![issued + 1].step = "commit"]
    /\ awaited' = issued + 1
    /\ phase' = "renewing"
    /\ chained' = (chained \/ InFlight # {} \/ (row # NoRow /\ row.pending = sat))
    /\ crossed' = (crossed \/ deletion.step # "none")
    /\ UNCHANGED <<kind, csr, approved, row, allowed, enrolling, settling,
                   deletion, gate, sat, faults, lapses, torn>>

\* record_renewal's transaction.
CommitRenewal(c) ==
    /\ renewing[c].step = "commit"
    /\ row # NoRow
    /\ row' = [row EXCEPT !.pending = c, !.lapsed = FALSE]
    /\ renewing' = [renewing EXCEPT ![c] = [step |-> "apply", old |-> row.pending]]
    /\ UNCHANGED <<kind, issued, csr, approved, allowed, enrolling, settling,
                   deletion, gate, satellite, faults, history>>

\* "unknown satellite": the row went with a deletion.
RefuseRenewal(c) ==
    /\ renewing[c].step = "commit"
    /\ row = NoRow
    /\ renewing' = [renewing EXCEPT ![c] = NoRenewal]
    /\ IF awaited = c
       THEN awaited' = NoCert /\ phase' = "ready"
       ELSE UNCHANGED <<awaited, phase>>
    /\ UNCHANGED <<kind, hub, enrolling, settling, deletion, gate, sat,
                   faults, history>>

\* Variant: the superseded fingerprint is forgotten about.
ApplyRenewalKeepingOld(c) ==
    /\ renewing[c].step = "apply"
    /\ allowed' = allowed \cup {c}
    /\ renewing' = [renewing EXCEPT ![c].step = "answer"]
    /\ UNCHANGED <<kind, issued, csr, approved, row, enrolling, settling,
                   deletion, gate, satellite, faults, history>>

\* The new fingerprint is admitted and a superseded pending one is not.
ApplyRenewal(c) ==
    /\ renewing[c].step = "apply"
    /\ allowed' = (allowed \cup {c}) \ ({renewing[c].old} \ {c})
    /\ renewing' = [renewing EXCEPT ![c].step = "answer"]
    /\ UNCHANGED <<kind, issued, csr, approved, row, enrolling, settling,
                   deletion, gate, satellite, faults, history>>

\* The certificate arrives and store_renewal replaces the identity.
AnswerRenewal(c) ==
    /\ renewing[c].step = "answer"
    /\ renewing' = [renewing EXCEPT ![c] = NoRenewal]
    /\ IF awaited = c
       THEN sat' = c /\ awaited' = NoCert /\ phase' = "ready"
       ELSE UNCHANGED satellite
    /\ UNCHANGED <<kind, hub, enrolling, settling, deletion, gate, faults,
                   history>>

\* The satellite stops waiting (a broken connection, a restart).  The handler
\* may go on at the hub.
LoseAnswer ==
    /\ awaited # NoCert
    /\ faults < MaxFaults
    /\ faults' = faults + 1
    /\ awaited' = NoCert
    /\ phase' = "ready"
    /\ UNCHANGED <<kind, hub, handlers, sat, history>>

\* Time passes: the pending renewal is older than RENEWAL_GRACE_SECS, a day,
\* which no handler takes between reading the row and its last write, and no
\* handshake between two certificates of the satellite.
Lapse ==
    /\ InFlight = {}
    /\ \A l \in Links : \/ settling[l].step = "none"
                        \/ settling[l].step \in {"enter", "read"}
                           /\ settling[l].presented = sat
    /\ deletion.step = "none"
    /\ row # NoRow
    /\ row.pending # NoCert
    /\ ~row.lapsed
    /\ row' = [row EXCEPT !.lapsed = TRUE]
    /\ lapses' = TRUE
    /\ UNCHANGED <<kind, issued, csr, approved, allowed, handlers, satellite,
                   faults, chained, torn, crossed>>

(***************************************************************************)
(* Connections and settlement.                                             *)
(***************************************************************************)

\* No renewal due, or none that was answered.
SkipRenewal ==
    /\ phase = "down"
    /\ sat # NoCert
    /\ phase' = "ready"
    /\ UNCHANGED <<kind, hub, handlers, sat, awaited, faults, history>>

\* The TLS handshake admits the certificate and the link handler begins.
Connect(l) ==
    /\ phase = "ready"
    /\ sat \in allowed
    /\ settling[l].step = "none"
    /\ settling' = [settling EXCEPT ![l] =
                        [NoSettlement EXCEPT !.presented = sat,
                            !.step = IF kind = "mediahost" THEN "enter" ELSE "read"]]
    /\ phase' = "linked"
    /\ crossed' = (crossed \/ deletion.step # "none")
    /\ UNCHANGED <<kind, hub, enrolling, renewing, deletion, gate, sat,
                   awaited, faults, lapses, chained, torn>>

\* The verifier refuses the certificate; the loop sleeps and starts over.
Refused ==
    /\ phase = "ready"
    /\ sat \notin allowed
    /\ phase' = "down"
    /\ UNCHANGED <<kind, hub, handlers, sat, awaited, faults, history>>

\* A mediahost's handshake: the gate, and the certificate against the row.
Enter(l) ==
    /\ settling[l].step = "enter"
    /\ gate = Free
    /\ IF row # NoRow /\ settling[l].presented \in {row.cert, row.pending}
       THEN /\ gate' = l
            /\ settling' = [settling EXCEPT ![l].step = "read"]
            /\ UNCHANGED phase
       ELSE /\ settling' = [settling EXCEPT ![l] = NoSettlement]
            /\ phase' = IF phase = "linked" THEN "down" ELSE phase
            /\ UNCHANGED gate
    /\ UNCHANGED <<kind, hub, enrolling, renewing, deletion, sat, awaited,
                   faults, history>>

\* The handler is done with its settlement and drops the guard.
Settled(l) ==
    /\ settling' = [settling EXCEPT ![l] = NoSettlement]
    /\ gate' = IF gate = l THEN Free ELSE gate

\* Variant: whoever connects settles the renewal.
PromotesAny(s) == s.pending # NoCert

\* The renewed certificate is in use.
Promotes(s) == s.pending = s.presented

\* Variant: only a presented renewal is ever settled.
ReadRowToPromote(l) ==
    /\ settling[l].step = "read"
    /\ IF row # NoRow /\ row.pending = settling[l].presented
       THEN /\ settling' = [settling EXCEPT ![l].step = "commit",
                                ![l].current = row.cert, ![l].pending = row.pending]
            /\ UNCHANGED gate
       ELSE Settled(l)
    /\ UNCHANGED <<kind, hub, enrolling, renewing, deletion, satellite,
                   faults, history>>

\* settle_renewal reads the row; without a pending renewal, or with one whose
\* grace holds and that was not presented, there is nothing to do.
ReadRow(l) ==
    /\ settling[l].step = "read"
    /\ LET read == [settling[l] EXCEPT !.step = "commit", !.current = row.cert,
                        !.pending = row.pending, !.lapsed = row.lapsed]
       IN  IF row # NoRow /\ row.pending # NoCert
              /\ (Promotes(read) \/ read.lapsed)
           THEN settling' = [settling EXCEPT ![l] = read] /\ UNCHANGED gate
           ELSE Settled(l)
    /\ UNCHANGED <<kind, hub, enrolling, renewing, deletion, satellite,
                   faults, history>>

\* The transaction: promote whatever is pending NOW, or clear it.  A second
\* promotion would store NULL, which the column refuses.
CommitSettlement(l) ==
    /\ settling[l].step = "commit"
    /\ IF row # NoRow /\ Promotes(settling[l]) /\ row.pending = NoCert
       THEN Settled(l) /\ UNCHANGED row
       ELSE /\ row' = IF row = NoRow THEN NoRow
                      ELSE [cert |-> IF Promotes(settling[l])
                                     THEN row.pending ELSE row.cert,
                            pending |-> NoCert, lapsed |-> FALSE]
            /\ settling' = [settling EXCEPT ![l].step = "apply"]
            /\ UNCHANGED gate
    /\ torn' = torn \cup (IF row # NoRow /\ row.pending # settling[l].pending
                          THEN {"stale"} ELSE {})
    /\ UNCHANGED <<kind, issued, csr, approved, allowed, enrolling, renewing,
                   deletion, satellite, faults, lapses, chained, crossed>>

\* The retired fingerprint leaves the allowlist.
ApplySettlement(l) ==
    /\ settling[l].step = "apply"
    /\ allowed' = allowed \ {IF Promotes(settling[l]) THEN settling[l].current
                             ELSE settling[l].pending}
    /\ Settled(l)
    /\ UNCHANGED <<kind, issued, csr, approved, row, enrolling, renewing,
                   deletion, satellite, faults, history>>

\* The link ends: it breaks, or its lifetime is up (renewal_due).
Unlink ==
    /\ phase = "linked"
    /\ phase' = "down"
    /\ UNCHANGED <<kind, hub, handlers, sat, awaited, faults, history>>

(***************************************************************************)
(* Deletion, restart and dropped handlers.                                 *)
(***************************************************************************)

\* delete_satellite takes the gate and reads the current fingerprint.
BeginDelete ==
    /\ deletion.step = "none"
    /\ gate = Free
    /\ row # NoRow
    /\ gate' = "delete"
    /\ deletion' = [step |-> "pending", cert |-> row.cert, pending |-> NoCert]
    /\ crossed' = (crossed \/ Busy)
    /\ UNCHANGED <<kind, hub, enrolling, renewing, settling, satellite,
                   faults, lapses, chained, torn>>

\* The pending fingerprint is a query of its own.
ReadPending ==
    /\ deletion.step = "pending"
    /\ deletion' = [deletion EXCEPT !.step = "commit", !.pending = row.pending]
    /\ UNCHANGED <<kind, hub, enrolling, renewing, settling, gate, satellite,
                   faults, history>>

CommitDelete ==
    /\ deletion.step = "commit"
    /\ row' = NoRow
    /\ deletion' = [deletion EXCEPT !.step = "apply"]
    /\ UNCHANGED <<kind, issued, csr, approved, allowed, enrolling, renewing,
                   settling, gate, satellite, faults, history>>

ApplyDelete ==
    /\ deletion.step = "apply"
    /\ allowed' = allowed \ {deletion.cert, deletion.pending}
    /\ deletion' = NoDeletion
    /\ gate' = Free
    /\ UNCHANGED <<kind, issued, csr, approved, row, enrolling, renewing,
                   settling, satellite, faults, history>>

\* What load_allowlist makes of the row: a lapsed pending renewal is swept.
Swept == IF row # NoRow /\ row.lapsed
         THEN [row EXCEPT !.pending = NoCert, !.lapsed = FALSE] ELSE row

Recorded(r) == IF r = NoRow THEN {} ELSE {r.cert, r.pending} \ {NoCert}

\* The hub restarts: memory goes, the allowlist comes back from the table.
Restart ==
    /\ faults < MaxFaults
    /\ faults' = faults + 1
    /\ csr' = FALSE
    /\ approved' = NoCert
    /\ row' = Swept
    /\ allowed' = Recorded(Swept)
    /\ enrolling' = [c \in Certs |-> "none"]
    /\ renewing' = [c \in Certs |-> NoRenewal]
    /\ settling' = [l \in Links |-> NoSettlement]
    /\ deletion' = NoDeletion
    /\ gate' = Free
    /\ awaited' = NoCert
    /\ phase' = CASE phase = "renewing" -> "ready"
                  [] phase = "linked" -> "down"
                  [] OTHER -> phase
    /\ torn' = torn \cup {"approval" : c \in {d \in Certs : enrolling[d] # "none"}}
    /\ UNCHANGED <<kind, issued, sat, lapses, chained, crossed>>

\* A handler's future is dropped at an await, or its database step fails: the
\* approval's request, a renewal nobody waits for, a handshake whose client
\* went away, the deletion's request.
DropHandler ==
    /\ faults < MaxFaults
    /\ faults' = faults + 1
    /\ \/ \E c \in Certs :
            /\ enrolling[c] # "none"
            /\ enrolling' = [enrolling EXCEPT ![c] = "none"]
            /\ torn' = torn \cup {"approval"}
            /\ UNCHANGED <<renewing, settling, deletion, gate>>
       \/ \E c \in InFlight :
            /\ awaited # c
            /\ torn' = torn \cup (IF renewing[c].step = "apply" THEN {"renewal"} ELSE {})
            /\ renewing' = [renewing EXCEPT ![c] = NoRenewal]
            /\ UNCHANGED <<enrolling, settling, deletion, gate>>
       \/ \E l \in Links :
            /\ settling[l].step # "none"
            /\ phase # "linked"
            /\ torn' = torn \cup (IF settling[l].step = "apply" THEN {"settlement"} ELSE {})
            /\ Settled(l)
            /\ UNCHANGED <<enrolling, renewing, deletion>>
       \/ /\ deletion.step # "none"
          /\ torn' = torn \cup (IF deletion.step = "apply" THEN {"deletion"} ELSE {})
          /\ deletion' = NoDeletion
          /\ gate' = Free
          /\ UNCHANGED <<enrolling, renewing, settling>>
    /\ UNCHANGED <<kind, hub, satellite, lapses, chained, crossed>>

CertStep(c) == \/ RecordSatellite(c) \/ AdmitSatellite(c)
               \/ CommitRenewal(c) \/ RefuseRenewal(c)
               \/ ApplyRenewal(c) \/ AnswerRenewal(c)

LinkStep(l) == Enter(l) \/ ReadRow(l) \/ CommitSettlement(l) \/ ApplySettlement(l)

DeleteStep == ReadPending \/ CommitDelete \/ ApplyDelete

SatelliteStep == SkipRenewal \/ (\E l \in Links : Connect(l)) \/ Refused \/ Unlink

Next ==
    \/ Submit \/ Expire \/ Approve \/ Poll
    \/ AskRenewal \/ LoseAnswer \/ Lapse
    \/ BeginDelete \/ Restart \/ DropHandler
    \/ (\E c \in Certs : CertStep(c)) \/ (\E l \in Links : LinkStep(l))
    \/ DeleteStep
    \/ SatelliteStep

\* Handlers run (the gate is a fair mutex), the satellite's loop reconnects
\* and bounds its link's lifetime, and a day passes however busy the hub is;
\* nobody has to renew, approve or delete.
Fairness ==
    /\ \A c \in Certs : WF_vars(CertStep(c))
    /\ \A l \in Links : SF_vars(LinkStep(l))
    /\ WF_vars(DeleteStep)
    /\ WF_vars(SatelliteStep)
    /\ SF_vars(Lapse)

Spec == Init /\ [][Next]_vars /\ Fairness

(***************************************************************************)
(* Properties.                                                             *)
(***************************************************************************)

\* The types of the variables.
TypeOK ==
    /\ kind \in {"mediahost", "transcoder"}
    /\ issued \in 0 .. MaxCerts
    /\ csr \in BOOLEAN
    /\ approved \in Certs \cup {NoCert}
    /\ row \in {NoRow} \cup Row
    /\ (row # NoRow /\ row.lapsed) => row.pending # NoCert
    /\ allowed \subseteq Certs
    /\ enrolling \in [Certs -> {"none", "record", "admit"}]
    /\ renewing \in [Certs -> Renewal]
    /\ settling \in [Links -> Settlement]
    /\ deletion.step \in {"none", "pending", "commit", "apply"}
    /\ gate \in Links \cup {Free, "delete"}
    /\ gate = "delete" <=> deletion.step # "none"
    /\ sat \in Certs \cup {NoCert}
    /\ phase \in {"down", "polling", "renewing", "ready", "linked"}
    /\ awaited # NoCert <=> phase = "renewing"
    /\ faults \in 0 .. MaxFaults

\* "So a renewal can never lock its satellite out" (renewal_service.rs): while
\* the satellite is enrolled, the identity on its disk passes the verifier and
\* the handshake's lookup, through lost answers, hub restarts and handlers
\* dropped halfway.  Outside are an approval that has not, or never, recorded
\* the certificate it offers, a grace that ran out, a renewal asked for with a
\* certificate that is itself still pending, and a settlement that writes over
\* a row another one changed since it read it.
NotLockedOut ==
    (/\ row # NoRow
     /\ sat # NoCert
     /\ enrolling[sat] = "none"
     /\ torn \cap {"approval", "stale"} = {}
     /\ ~lapses /\ ~chained)
    => sat \in allowed \cap Recorded(row)

\* When no handler is under way the verifier's set is exactly what the row
\* records, so a deleted satellite is refused at the TLS handshake and no
\* retired certificate lingers - unless a handler was cut between its two
\* writes or ran across a deletion.
AllowlistMirrors ==
    (~Busy /\ deletion.step = "none" /\ torn = {} /\ ~crossed /\ ~chained)
    => allowed = Recorded(row)

\* A pending renewal does not stay pending: a reconnection with it promotes it
\* and one without it retires it once its grace is over.
RenewalSettles ==
    (row # NoRow /\ row.pending # NoCert)
    ~> (row = NoRow \/ row.pending = NoCert \/ torn # {} \/ chained)
=============================================================================
