------------------------- MODULE SubtitleWorkProofs -------------------------
(***************************************************************************)
(* Proofs about SubtitleWork, for every set of files and tracks, every     *)
(* window and every bound: what is missing from the cache is asked for,    *)
(* and a row goes away only when what it asks for is on disk.              *)
(***************************************************************************)
EXTENDS SubtitleWork, FiniteSetTheorems, WellFoundedInduction, TLAPS

USE DEF world

-----------------------------------------------------------------------------
(* The inductive invariant.                                                *)

Tracks == TextTracks \cup ImageTracks

(* A row that is there has a state.                                        *)
Rows == {NoRow} \cup [state : RowStates \ {"none"}, attempts : Nat, ripe : BOOLEAN]

Claims == [file : Files, version : Nat, rev : Nat, kind : SubtitleKinds,
           verdict : {"claimed", "cached", "offered", "settled"}, items : SUBSET Tracks]
IsPass(w) ==
    w = [file |-> w.file, version |-> w.version, rev |-> w.rev, missing |-> w.missing,
         left |-> w.left]
IsLanding(l) ==
    /\ l.kind \in SubtitleKinds
    /\ l = [file |-> l.file, version |-> l.version, rev |-> l.rev, kind |-> l.kind, op |-> l.op]

(* The shape of what the rows, the driver, the watcher and the link's      *)
(* worker hold.                                                            *)
Shapes ==
    /\ kinds \subseteq SubtitleKinds
    /\ version \in [Files -> Nat] /\ rev \in [Files -> Nat]
    /\ jobs \in [Files -> [SubtitleKinds -> Rows]]
    /\ batch \subseteq Claims
    /\ wjob # NoJob => IsPass(wjob)
    /\ landing # NoJob => IsLanding(landing)

(* A source that was captured and not overtaken by a commit is the file's. *)
Holds(c) ==
    c.file \in Files =>
        /\ c.version \in Nat /\ c.version <= version[c.file]
        /\ c.version = version[c.file] => c.rev = rev[c.file]

CapturesHold ==
    /\ \A b \in batch : Holds(b)
    /\ \A c \in page : Holds(c)
    /\ wjob # NoJob => Holds(wjob)
    /\ landing # NoJob => Holds(landing)

(* Everything of kind k is on disk, unless a commit has overtaken c.       *)
Found(c, k) ==
    c.file \in Files /\ c.version = version[c.file] => Missing(Captured(c.file), k) = {}

(* Between a disk check and the update that follows it the check stays     *)
(* true.                                                                   *)
ChecksHold ==
    /\ \A b \in batch : b.verdict = "cached" => Found(b, b.kind)
    /\ wjob # NoJob => \A k \in wjob.left \ wjob.missing : Found(wjob, k)
    /\ landing # NoJob /\ landing.op = "settle" => Found(landing, landing.kind)

(* What is missing has a row, or the watcher has yet to look at the file   *)
(* as it is now.                                                           *)
Asked(f, k) ==
    \/ Missing(Captured(f), k) = {}
    \/ jobs[f][k] # NoRow
    \/ ~watching
    \/ f \in events \cup touched
    \/ Captured(f) \in page
    \/ wjob # NoJob /\ wjob.file = f /\ wjob.version = version[f] /\ k \in wjob.left \cap wjob.missing

AllAsked == \A f \in Files, k \in kinds : Asked(f, k)

SubtitleInv == Shapes /\ CapturesHold /\ ChecksHold /\ AllAsked

-----------------------------------------------------------------------------
(* What the operators of the model give.                                   *)

(* What is missing for a file as it is.                                    *)
LEMMA MissingNow ==
    ASSUME NEW f, NEW k
    PROVE  /\ Missing(Captured(f), k) = {t \in TracksOf(k) : <<f, rev[f], t>> \notin cache}
           /\ Missing(Captured(f), k)' = {t \in TracksOf(k) : <<f, rev'[f], t>> \notin cache'}
BY DEF Missing, Captured

(* A source that holds captures what its file lacks.                       *)
LEMMA MissingCaptured ==
    ASSUME NEW c, NEW k, Holds(c), c.file \in Files, c.version = version[c.file]
    PROVE  Missing(c, k) = Missing(Captured(c.file), k)
BY DEF Missing, Captured, Holds

(* What is found stays found while nothing leaves the cache and the file   *)
(* is not replaced.                                                        *)
LEMMA FoundStays ==
    ASSUME NEW f, NEW k, \A t : <<f, rev[f], t>> \in cache => <<f, rev[f], t>> \in cache',
           rev'[f] = rev[f], Missing(Captured(f), k) = {}
    PROVE  Missing(Captured(f), k)' = {}
<1>1. \A t \in TracksOf(k) : <<f, rev[f], t>> \in cache
  BY MissingNow
<1>2. \A t \in TracksOf(k) : <<f, rev'[f], t>> \in cache'
  BY <1>1
<1> QED
  BY ZenonT(40), <1>2, MissingNow

(* A row is no row only if it has no state.                                *)
LEMMA RowStateful ==
    /\ NoRow \in Rows /\ Fresh \in Rows /\ Fresh # NoRow
    /\ \A r \in Rows : r # NoRow <=> r.state # "none"
BY DEF Rows, NoRow, Fresh, RowStates

-----------------------------------------------------------------------------
(* Steps that leave the files and the watcher's work alone.                *)

(* A claim the driver may hold.                                            *)
Sound(b) == b \in Claims /\ Holds(b) /\ (b.verdict = "cached" => Found(b, b.kind))

(* What the link's worker may be about to do.                              *)
Landed(l) ==
    l # NoJob => IsLanding(l) /\ Holds(l) /\ (l.op = "settle" => Found(l, l.kind))

(* No row goes away while something is missing.                            *)
RowsStay ==
    /\ jobs' \in [Files -> [SubtitleKinds -> Rows]]
    /\ \A f \in Files, k \in kinds :
        jobs[f][k] # NoRow /\ jobs'[f][k] = NoRow => Missing(Captured(f), k) = {}

(* The driver, the rows and the link's worker, as long as every claim and  *)
(* landing is one that holds, and nothing leaves the cache.                *)
LEMMA Working ==
    ASSUME SubtitleInv, UNCHANGED <<kinds, version, rev, watching, touched, page, wjob>>,
           cache \subseteq cache', events \subseteq events',
           RowsStay, NEW B, batch' = B, \A b \in B : Sound(b), NEW l, landing' = l, Landed(l)
    PROVE  SubtitleInv'
<1> USE DEF SubtitleInv
<1>1. Shapes'
  BY DEF Shapes, RowsStay, Sound, Landed, IsLanding
<1>2. \A c : Holds(c)' <=> Holds(c)
  BY DEF Holds
<1>3. CapturesHold'
  BY <1>2 DEF CapturesHold, Sound, Landed, Holds
<1>4. \A f \in Files : \A k : Missing(Captured(f), k) = {} => Missing(Captured(f), k)' = {}
  BY FoundStays
<1>5. \A c, k : Found(c, k) => Found(c, k)'
  BY <1>4 DEF Found
<1>6. ChecksHold'
  <2>1. \A b \in B : b.verdict = "cached" => Found(b, b.kind)'
    BY <1>5 DEF Sound
  <2>2. wjob' # NoJob => \A k \in wjob'.left \ wjob'.missing : Found(wjob, k)'
    BY <1>5 DEF ChecksHold
  <2>3. l # NoJob /\ l.op = "settle" => Found(l, l.kind)'
    BY <1>5 DEF Landed
  <2> QED
    BY <2>1, <2>2, <2>3 DEF ChecksHold, Found
<1>7. AllAsked'
  <2> SUFFICES ASSUME NEW f \in Files, NEW k \in kinds
               PROVE  Asked(f, k)'
    BY DEF AllAsked
  <2>1. Asked(f, k)
    BY DEF AllAsked
  <2>2. Captured(f)' = Captured(f)
    BY DEF Captured
  <2>3. CASE Missing(Captured(f), k) = {}
    BY <1>4, <2>3 DEF Asked
  <2>4. CASE Missing(Captured(f), k) # {} /\ jobs[f][k] # NoRow
    BY <2>4 DEF Asked, RowsStay
  <2>5. CASE ~watching \/ f \in events \cup touched
    BY <2>5 DEF Asked
  <2>6. CASE Captured(f) \in page
    BY <2>2, <2>6 DEF Asked
  <2>7. CASE wjob # NoJob /\ wjob.file = f /\ wjob.version = version[f]
             /\ k \in wjob.left \cap wjob.missing
    BY <2>7 DEF Asked
  <2> QED
    BY <2>1, <2>3, <2>4, <2>5, <2>6, <2>7 DEF Asked
<1> QED
  BY <1>1, <1>3, <1>6, <1>7

(* A row is dropped after a check that still holds;                        *)
LEMMA SettledRows ==
    ASSUME Shapes, NEW c, NEW k \in SubtitleKinds, Found(c, k),
           NEW missing, missing = FALSE, jobs' = Reconciled(c, k, missing)
    PROVE  RowsStay
<1>1. CASE version[c.file] # c.version
  BY <1>1 DEF Reconciled, RowsStay, Shapes
<1>2. CASE version[c.file] = c.version
  <2>0. PICK f : f = c.file
    OBVIOUS
  <2>1. jobs' = [jobs EXCEPT ![f][k] = NoRow]
    BY <1>2, <2>0 DEF Reconciled
  <2>2. CASE f \in Files
    <3>1. NoRow \in Rows
      BY RowStateful
    <3>2. /\ jobs' \in [Files -> [SubtitleKinds -> Rows]]
          /\ \A g \in Files, h \in SubtitleKinds :
              jobs'[g][h] = IF g = f /\ h = k THEN NoRow ELSE jobs[g][h]
      BY <2>1, <2>2, <3>1 DEF Shapes
    <3> QED
      BY <1>2, <2>0, <2>2, <3>2 DEF RowsStay, Found, Shapes
  <2>3. CASE f \notin Files
    BY <2>1, <2>3 DEF RowsStay, Shapes
  <2> QED
    BY <2>2, <2>3
<1> QED
  BY <1>1, <1>2

(* one is made for what is missing;                                        *)
LEMMA AskedRows ==
    ASSUME Shapes, NEW c, NEW k \in SubtitleKinds,
           NEW missing, missing = TRUE, jobs' = Reconciled(c, k, missing)
    PROVE  /\ RowsStay
           /\ c.file \in Files /\ version[c.file] = c.version => jobs'[c.file][k] # NoRow
<1>1. CASE version[c.file] # c.version
  BY <1>1 DEF Reconciled, RowsStay, Shapes
<1>2. CASE version[c.file] = c.version
  <2>0. PICK f, r : f = c.file /\ r = IF jobs[f][k] = NoRow THEN Fresh ELSE jobs[f][k]
    OBVIOUS
  <2>1. jobs' = [jobs EXCEPT ![f][k] = r]
    BY <1>2, <2>0 DEF Reconciled
  <2>2. CASE f \in Files
    <3>1. r \in Rows /\ r # NoRow
      BY <2>0, <2>2, RowStateful DEF Shapes
    <3>2. /\ jobs' \in [Files -> [SubtitleKinds -> Rows]]
          /\ \A g \in Files, h \in SubtitleKinds :
              jobs'[g][h] = IF g = f /\ h = k THEN r ELSE jobs[g][h]
      BY <2>1, <2>2, <3>1 DEF Shapes
    <3> QED
      BY <2>0, <2>2, <3>1, <3>2 DEF RowsStay, Shapes
  <2>3. CASE f \notin Files
    BY <2>0, <2>1, <2>3, ZenonT(40) DEF RowsStay, Shapes
  <2> QED
    BY <2>2, <2>3
<1> QED
  BY <1>1, <1>2

(* an attempt is counted as failed;                                        *)
LEMMA FailedRows ==
    ASSUME Shapes, NEW c, NEW k \in SubtitleKinds, jobs' = Failed(c, k)
    PROVE  RowsStay
<1>1. CASE c.file \notin Files \/ jobs' = jobs
  BY <1>1 DEF Failed, RowsStay, Shapes
<1>2. CASE c.file \in Files /\ jobs' # jobs
  <2>0. PICK f, r : f = c.file /\ r = [jobs[f][k] EXCEPT
                        !.state = IF jobs[c.file][k].attempts >= BlockAfter
                                  THEN "blocked" ELSE "retry",
                        !.ripe = FALSE]
    OBVIOUS
  <2>1. jobs' = [jobs EXCEPT ![f][k] = r] /\ jobs[c.file][k] # NoRow
    BY <1>2, <2>0 DEF Failed, Shapes
  <2>2. r \in Rows /\ r # NoRow
    <3>1. jobs[c.file][k] \in [state : RowStates \ {"none"}, attempts : Nat, ripe : BOOLEAN]
      BY <1>2, <2>1 DEF Shapes, Rows
    <3> QED
      BY <2>0, <3>1 DEF Rows, RowStates, NoRow
  <2>3. /\ jobs' \in [Files -> [SubtitleKinds -> Rows]]
        /\ \A g \in Files, h \in SubtitleKinds :
            jobs'[g][h] = IF g = f /\ h = k THEN r ELSE jobs[g][h]
    BY <1>2, <2>0, <2>1, <2>2 DEF Shapes
  <2> QED
    BY <2>2, <2>3 DEF RowsStay, Shapes
<1> QED
  BY <1>1, <1>2

(* a lease lapses, a retry is due, failed work is rerun, running rows are  *)
(* released.                                                               *)
LEMMA KeptRows ==
    ASSUME Shapes,
           \/ \E f \in Files, k \in SubtitleKinds : LeaseLapses(f, k) \/ RetryDue(f, k)
           \/ \E k \in kinds : Rerun(k)
           \/ jobs' = Released
           \/ jobs' = jobs
    PROVE  RowsStay
<1>1. ASSUME NEW f \in Files, NEW k \in SubtitleKinds, LeaseLapses(f, k) \/ RetryDue(f, k)
      PROVE  RowsStay
  <2>0. PICK r : r = [jobs[f][k] EXCEPT !.ripe = TRUE]
    OBVIOUS
  <2>1. jobs' = [jobs EXCEPT ![f][k] = r] /\ jobs[f][k].state # "none"
    BY <1>1, <2>0 DEF LeaseLapses, RetryDue, Leased, Shapes
  <2>2. r \in Rows /\ r # NoRow
    <3>1. jobs[f][k] \in [state : RowStates \ {"none"}, attempts : Nat, ripe : BOOLEAN]
      BY <2>1 DEF Shapes, Rows, NoRow
    <3> QED
      BY <2>0, <3>1 DEF Rows, RowStates, NoRow
  <2>3. /\ jobs' \in [Files -> [SubtitleKinds -> Rows]]
        /\ \A g \in Files, h \in SubtitleKinds :
            jobs'[g][h] = IF g = f /\ h = k THEN r ELSE jobs[g][h]
    BY <2>1, <2>2 DEF Shapes
  <2> QED
    BY <2>2, <2>3 DEF RowsStay, Shapes
<1>2. ASSUME NEW k \in kinds, Rerun(k)
      PROVE  RowsStay
  <2>0. k \in SubtitleKinds
    BY DEF Shapes
  <2>1. \A g \in Files, h \in SubtitleKinds :
            jobs'[g][h] = IF h = k /\ jobs[g][h].state \in {"blocked", "retry"} THEN Fresh
                          ELSE jobs[g][h]
    BY <1>2, <2>0 DEF Rerun, Shapes
  <2>2. jobs' = [g \in Files |-> [jobs[g] EXCEPT ![k] =
                    IF @.state \in {"blocked", "retry"} THEN Fresh ELSE @]]
    BY <1>2 DEF Rerun
  <2>3. \A g \in Files : [jobs[g] EXCEPT ![k] =
                    IF @.state \in {"blocked", "retry"} THEN Fresh ELSE @] \in [SubtitleKinds -> Rows]
    BY <2>0, RowStateful DEF Shapes
  <2>4. jobs' \in [Files -> [SubtitleKinds -> Rows]]
    BY <2>2, <2>3
  <2> QED
    BY <2>1, <2>4, RowStateful DEF RowsStay, Shapes
<1>3. CASE jobs' = Released
  <2>1. /\ jobs' \in [Files -> [SubtitleKinds -> Rows]]
        /\ \A g \in Files, h \in SubtitleKinds :
            jobs'[g][h] = IF jobs[g][h].state = "running" THEN Fresh ELSE jobs[g][h]
    BY <1>3, RowStateful DEF Released, Shapes
  <2> QED
    BY <2>1, RowStateful DEF RowsStay, Shapes
<1>4. CASE jobs' = jobs
  BY <1>4 DEF RowsStay, Shapes
<1> QED
  BY <1>1, <1>2, <1>3, <1>4

-----------------------------------------------------------------------------
(* The queue driver.                                                       *)

(* What is held is sound, and what was going to be written still may be.   *)
LEMMA HeldSound ==
    ASSUME SubtitleInv
    PROVE  (\A b \in batch : Sound(b)) /\ Landed(landing)
BY DEF SubtitleInv, Shapes, CapturesHold, ChecksHold, Sound, Landed

(* Jobs are claimed: rows run, and their sources are captured.             *)
LEMMA ClaimStep ==
    ASSUME SubtitleInv, NEW k \in kinds, Claim(k)
    PROVE  SubtitleInv' /\ RowsStay
<1>0. Shapes /\ k \in SubtitleKinds
  BY DEF SubtitleInv, Shapes
<1>1. UNCHANGED <<kinds, version, rev, cache, events, landing, watching, touched, page, wjob>>
  BY DEF Claim, watcher, link
<1>2. CASE jobs' = jobs /\ batch' = batch
  BY <1>0, <1>1, <1>2, HeldSound, KeptRows, Working
<1>3. ASSUME NEW s \in SUBSET {f \in Files : Claimable(f, k)},
             jobs' = [f \in Files |-> IF f \notin s THEN jobs[f]
                        ELSE [jobs[f] EXCEPT ![k] =
                                [state |-> "running", ripe |-> FALSE,
                                 attempts |-> Capped(@.attempts + 1)]]],
             batch' = {[file |-> f, version |-> version[f], rev |-> rev[f],
                        kind |-> k, verdict |-> "claimed", items |-> {}] : f \in s}
      PROVE  SubtitleInv' /\ RowsStay
  <2>1. ASSUME NEW f \in s
        PROVE  /\ f \in Files
               /\ [state |-> "running", ripe |-> FALSE,
                   attempts |-> Capped(jobs[f][k].attempts + 1)] \in Rows \ {NoRow}
               /\ jobs[f][k] # NoRow
    <3>1. f \in Files /\ jobs[f][k].state \in {"pending", "retry", "running"}
      BY DEF Claimable
    <3>2. jobs[f][k] \in [state : RowStates \ {"none"}, attempts : Nat, ripe : BOOLEAN]
      BY <1>0, <3>1 DEF Shapes, Rows, NoRow
    <3>3. Capped(jobs[f][k].attempts + 1) \in Nat
      BY <3>2, SubtitleAssumption DEF Capped
    <3> QED
      BY <1>0, <3>1, <3>2, <3>3 DEF Rows, RowStates, NoRow
  <2>2. \A f \in Files : jobs'[f] \in [SubtitleKinds -> Rows]
    <3> SUFFICES ASSUME NEW f \in Files
                 PROVE  jobs'[f] \in [SubtitleKinds -> Rows]
      OBVIOUS
    <3>1. CASE f \notin s
      BY <1>0, <1>3, <3>1 DEF Shapes
    <3>2. CASE f \in s
      <4>1. PICK r \in Rows : jobs'[f] = [jobs[f] EXCEPT ![k] = r]
        BY <1>3, <2>1, <3>2
      <4> QED
        BY <1>0, <4>1 DEF Shapes
    <3> QED
      BY <3>1, <3>2
  <2>3. \A f \in Files, h \in SubtitleKinds : jobs[f][h] # NoRow => jobs'[f][h] # NoRow
    <3> SUFFICES ASSUME NEW f \in Files, NEW h \in SubtitleKinds, jobs[f][h] # NoRow
                 PROVE  jobs'[f][h] # NoRow
      OBVIOUS
    <3>1. CASE f \notin s
      BY <1>0, <1>3, <3>1 DEF Shapes
    <3>2. CASE f \in s
      <4>1. PICK r \in Rows \ {NoRow} : jobs'[f] = [jobs[f] EXCEPT ![k] = r]
        BY <1>3, <2>1, <3>2
      <4> QED
        BY <1>0, <4>1 DEF Shapes
    <3> QED
      BY <3>1, <3>2
  <2>4. RowsStay
    <3>1. jobs' \in [Files -> [SubtitleKinds -> Rows]]
      BY <1>3, <2>2
    <3> QED
      BY <1>0, <2>3, <3>1 DEF RowsStay, Shapes
  <2>5. \A b \in batch' : Sound(b)
    <3> SUFFICES ASSUME NEW f \in s
                 PROVE  Sound([file |-> f, version |-> version[f], rev |-> rev[f],
                               kind |-> k, verdict |-> "claimed", items |-> {}])
      BY <1>3
    <3>1. f \in Files /\ version[f] \in Nat /\ rev[f] \in Nat
      BY <1>0, <2>1 DEF Shapes
    <3> QED
      BY <1>0, <3>1 DEF Sound, Claims, Holds
  <2> QED
    BY <1>1, <2>4, <2>5, HeldSound, Working
<1> QED
  BY <1>2, <1>3 DEF Claim

(* A claim is checked against the disk.                                    *)
LEMMA CheckJobStep ==
    ASSUME SubtitleInv, NEW b, CheckJob(b)
    PROVE  SubtitleInv' /\ RowsStay
<1>0. Shapes
  BY DEF SubtitleInv
<1>1. UNCHANGED <<kinds, version, rev, cache, jobs, events, landing, watching, touched, page, wjob>>
  BY DEF CheckJob, durable, watcher, link
<1>2. b \in batch /\ Sound(b)
  BY HeldSound DEF CheckJob
<1>3. PICK d : d = [b EXCEPT !.verdict = IF Missing(b, b.kind) = {} THEN "cached" ELSE "offered",
                             !.items = Missing(b, b.kind)]
  OBVIOUS
<1>4. batch' = (batch \ {b}) \cup {d}
  BY <1>3 DEF CheckJob
<1>5. /\ d \in Claims /\ d.file = b.file /\ d.version = b.version /\ d.rev = b.rev
      /\ d.kind = b.kind /\ (d.verdict = "cached" => Missing(b, b.kind) = {})
  <2>1. Missing(b, b.kind) \in SUBSET Tracks
    BY DEF Missing, TracksOf, Tracks
  <2> QED
    BY <1>2, <1>3, <2>1 DEF Sound, Claims
<1>6. Holds(d)
  BY <1>2, <1>5 DEF Sound, Holds
<1>7. d.verdict = "cached" => Found(d, d.kind)
  BY <1>2, <1>5, MissingCaptured DEF Found, Sound
<1>8. Sound(d)
  BY <1>5, <1>6, <1>7 DEF Sound
<1>9. \A x \in batch' : Sound(x)
  BY <1>4, <1>8, HeldSound
<1> QED
  BY <1>0, <1>1, <1>9, HeldSound, KeptRows, Working

(* A claim that was found on disk settles its row.                         *)
LEMMA SettleJobStep ==
    ASSUME SubtitleInv, NEW b, SettleJob(b)
    PROVE  SubtitleInv' /\ RowsStay
<1>0. Shapes
  BY DEF SubtitleInv
<1>1. UNCHANGED <<kinds, version, rev, cache, events, landing, watching, touched, page, wjob>>
  BY DEF SettleJob, watcher, link
<1>2. b \in batch /\ Sound(b) /\ b.verdict = "cached"
  BY HeldSound DEF SettleJob
<1>3. PICK d : d = [b EXCEPT !.verdict = "settled"]
  OBVIOUS
<1>4. batch' = (batch \ {b}) \cup {d}
  BY <1>3 DEF SettleJob
<1>5. Sound(d)
  BY <1>2, <1>3 DEF Sound, Claims, Holds
<1>6. \A x \in batch' : Sound(x)
  BY <1>4, <1>5, HeldSound
<1>7. RowsStay
  <2>1. PICK missing : missing = FALSE /\ jobs' = Reconciled(b, b.kind, missing)
    BY DEF SettleJob
  <2>2. PICK k \in SubtitleKinds : k = b.kind
    BY <1>2 DEF Sound, Claims
  <2>3. Found(b, k)
    BY <1>2, <2>2 DEF Sound
  <2> QED
    BY <1>0, <2>1, <2>2, <2>3, SettledRows
<1> QED
  BY <1>1, <1>6, <1>7, HeldSound, Working

(* The worklist goes out, or the running rows are released.                *)
LEMMA DispatchStep ==
    ASSUME SubtitleInv, Dispatch
    PROVE  SubtitleInv' /\ RowsStay
<1>1. UNCHANGED <<kinds, version, rev, cache, events, landing, watching, touched, page, wjob>>
      /\ batch' = {}
  BY DEF Dispatch, watcher
<1>2. jobs' = jobs \/ jobs' = Released
  BY DEF Dispatch
<1>3. RowsStay
  BY <1>2, KeptRows DEF SubtitleInv
<1> QED
  BY <1>1, <1>3, HeldSound, Working

-----------------------------------------------------------------------------
(* The worker of the link, the link and the mediahost.                     *)

(* What the worker takes up speaks of the file as it is.                   *)
LEMMA LandingHolds ==
    ASSUME Shapes, NEW f, NEW k \in SubtitleKinds, NEW op
    PROVE  /\ IsLanding(Landing(f, k, op)) /\ Holds(Landing(f, k, op))
           /\ Landing(f, k, op).op = op
BY DEF IsLanding, Holds, Landing, Shapes

(* A message is taken off the link: nothing leaves the cache, and what     *)
(* follows has yet to be checked.                                          *)
LEMMA ReceiveStep ==
    ASSUME SubtitleInv, ReceiveText \/ ReceiveSets
    PROVE  SubtitleInv' /\ RowsStay
<1>1. UNCHANGED <<kinds, version, rev, jobs, batch, watching, touched, page, wjob>>
  BY DEF ReceiveText, ReceiveSets, driver
<1>2. cache \subseteq cache' /\ events \subseteq events'
  BY DEF ReceiveText, ReceiveSets, Noticed
<1>3. \/ landing' = landing
      \/ \E f : \E k \in SubtitleKinds, op \in {"check", "fail"} : landing' = Landing(f, k, op)
  BY DEF ReceiveText, ReceiveSets, SubtitleKinds
<1>4. PICK l : landing' = l
  OBVIOUS
<1>5. Landed(l)
  <2>1. CASE l = landing
    BY <2>1, HeldSound
  <2>2. ASSUME NEW f, NEW k \in SubtitleKinds, NEW op \in {"check", "fail"}, l = Landing(f, k, op)
        PROVE  Landed(l)
    BY <2>2, LandingHolds DEF Landed, SubtitleInv
  <2> QED
    BY <1>3, <1>4, <2>1, <2>2
<1>6. RowsStay
  BY <1>1, KeptRows DEF SubtitleInv
<1> QED
  BY <1>1, <1>2, <1>4, <1>5, <1>6, HeldSound, Working

(* What landed is checked against the disk.                                *)
LEMMA CheckLandingStep ==
    ASSUME SubtitleInv, CheckLanding
    PROVE  SubtitleInv' /\ RowsStay
<1>1. UNCHANGED <<kinds, version, rev, jobs, cache, events, batch, watching, touched, page, wjob>>
  BY DEF CheckLanding, durable, driver, watcher
<1>2. landing # NoJob /\ IsLanding(landing) /\ Holds(landing)
  BY HeldSound DEF CheckLanding, Landed
<1>3. PICK l : landing' = l
  OBVIOUS
<1>4. \/ l = NoJob
      \/ l = [landing EXCEPT !.op = "fail"]
      \/ l = [landing EXCEPT !.op = "settle"] /\ Missing(landing, landing.kind) = {}
  BY <1>3 DEF CheckLanding
<1>5. l = NoJob \/ /\ IsLanding(l) /\ l.file = landing.file /\ l.version = landing.version
                   /\ l.rev = landing.rev /\ l.kind = landing.kind
                   /\ l.op = "settle" => Missing(landing, landing.kind) = {}
  BY <1>2, <1>4 DEF IsLanding
<1>6. l # NoJob => Holds(l)
  BY <1>2, <1>5 DEF Holds
<1>7. l # NoJob /\ l.op = "settle" => Found(l, l.kind)
  BY <1>2, <1>5, MissingCaptured DEF Found
<1>8. Landed(l)
  BY <1>5, <1>6, <1>7 DEF Landed
<1>9. RowsStay
  BY <1>1, KeptRows DEF SubtitleInv
<1> QED
  BY <1>1, <1>3, <1>8, <1>9, HeldSound, Working

(* The row is settled or its attempt counted as failed.                    *)
LEMMA WriteLandingStep ==
    ASSUME SubtitleInv, WriteLanding
    PROVE  SubtitleInv' /\ RowsStay
<1>0. Shapes
  BY DEF SubtitleInv
<1>1. UNCHANGED <<kinds, version, rev, cache, events, batch, watching, touched, page, wjob>>
  BY DEF WriteLanding, driver, watcher
<1>2. PICK l : l = landing /\ l # NoJob /\ Landed(l)
  BY HeldSound DEF WriteLanding
<1>3. PICK k \in SubtitleKinds : k = l.kind
  BY <1>2 DEF Landed, IsLanding
<1>4. ASSUME l.op = "settle" PROVE RowsStay
  <2>1. PICK missing : missing = FALSE /\ jobs' = Reconciled(l, k, missing)
    BY <1>2, <1>3, <1>4 DEF WriteLanding
  <2>2. Found(l, k)
    BY <1>2, <1>3, <1>4 DEF Landed
  <2> QED
    BY <1>0, <2>1, <2>2, SettledRows
<1>5. ASSUME l.op # "settle" PROVE RowsStay
  BY <1>0, <1>2, <1>3, <1>5, FailedRows DEF WriteLanding
<1>6. landing' = NoJob /\ Landed(NoJob)
  BY DEF WriteLanding, Landed
<1> QED
  BY <1>1, <1>4, <1>5, <1>6, HeldSound, Working

(* The link is cut, comes back and is noticed; clocks advance; failed work *)
(* is rerun; a snapshot runs; the mediahost works, and its files change.   *)
LEMMA QuietStep ==
    ASSUME SubtitleInv,
           \/ \E f \in Files, k \in SubtitleKinds : LeaseLapses(f, k) \/ RetryDue(f, k)
           \/ \E k \in kinds : Rerun(k) \/ BeginRefill(k)
           \/ Cut \/ LoseOldHost \/ Connect \/ ReleaseHost \/ HostStep \/ StartDriver
           \/ BeginSnapshot \/ EndSnapshot \/ \E f \in Files : Replace(f)
           \/ \E w \in DOMAIN walks : WalkStep(w)
           \/ \E f, t : Request(f, t)
           \/ UNCHANGED vars
    PROVE  SubtitleInv' /\ RowsStay
<1>1. UNCHANGED <<kinds, version, rev, cache, events, batch, watching, touched, page, wjob>>
  BY DEF LeaseLapses, RetryDue, Rerun, BeginRefill, Cut, LoseOldHost, LoseLink, Connect, ReleaseHost, HostStep, Intake,
         SpawnText, SpawnImage, StartDriver, WalkStep, SendText, JoinText, SendSets, FailSets,
         Request, BeginSnapshot, EndSnapshot, Replace, vars, durable, driver, watcher
<1>2. landing' = landing \/ landing' = NoJob
  BY DEF LeaseLapses, RetryDue, Rerun, BeginRefill, Cut, LoseOldHost, LoseLink, Connect, ReleaseHost, HostStep,
         Intake, SpawnText, SpawnImage, StartDriver, WalkStep, SendText, JoinText, SendSets,
         FailSets, Request, BeginSnapshot, EndSnapshot, Replace, vars, link
<1>3. \/ \E f \in Files, k \in SubtitleKinds : LeaseLapses(f, k) \/ RetryDue(f, k)
      \/ \E k \in kinds : Rerun(k)
      \/ jobs' = Released
      \/ jobs' = jobs
  BY DEF BeginRefill, Cut, LoseOldHost, LoseLink, Connect, ReleaseHost, HostStep, Intake, SpawnText, SpawnImage,
         StartDriver, WalkStep, SendText, JoinText, SendSets, FailSets, Request, BeginSnapshot, EndSnapshot, Replace, vars, durable
<1>4. RowsStay
  BY <1>3, KeptRows DEF SubtitleInv
<1>5. PICK l : landing' = l /\ Landed(l)
  BY <1>2, HeldSound DEF Landed
<1> QED
  BY <1>1, <1>4, <1>5, HeldSound, Working

-----------------------------------------------------------------------------
(* The directory watcher.                                                  *)

(* A file the watcher may be reconciling.                                  *)
Passing(w) ==
    w # NoJob => IsPass(w) /\ Holds(w) /\ \A k \in w.left \ w.missing : Found(w, k)

(* The watcher's steps leave files, cache, claims and landings alone; what *)
(* it captures must hold, and so must what it is about to write.           *)
LEMMA Watching ==
    ASSUME SubtitleInv, UNCHANGED <<kinds, version, rev, cache, batch, landing>>, RowsStay,
           NEW P, page' = P, \A c \in P : Holds(c),
           NEW w, wjob' = w, Passing(w),
           \A f \in Files, k \in kinds : Asked(f, k)'
    PROVE  SubtitleInv'
<1> USE DEF SubtitleInv
<1>1. Shapes'
  BY DEF Shapes, RowsStay, Passing, IsPass
<1>2. \A c : Holds(c)' <=> Holds(c)
  BY DEF Holds
<1>3. CapturesHold'
  BY <1>2 DEF CapturesHold, Passing, Holds
<1>4. \A f, k : Missing(Captured(f), k)' = Missing(Captured(f), k)
  BY ZenonT(40), MissingNow
<1>5. \A c, k : Found(c, k) <=> Found(c, k)'
  BY <1>4 DEF Found
<1>6. ChecksHold'
  BY <1>5 DEF ChecksHold, Passing, Found
<1>7. AllAsked'
  BY DEF AllAsked
<1> QED
  BY <1>1, <1>3, <1>6, <1>7

(* What is captured holds.                                                 *)
LEMMA CapturedHolds ==
    ASSUME Shapes, NEW f
    PROVE  Holds(Captured(f))
BY DEF Shapes, Holds, Captured

(* What the watcher holds is sound.                                        *)
LEMMA PassSound ==
    ASSUME SubtitleInv
    PROVE  Passing(wjob) /\ (\A c \in page : Holds(c)) /\ Passing(NoJob)
BY DEF SubtitleInv, Shapes, CapturesHold, ChecksHold, Passing

(* While files, cache, rows and the kinds stay, so does what is missing.   *)
LEMMA AskedSame ==
    ASSUME UNCHANGED <<version, rev, cache, jobs>>, NEW f, NEW k
    PROVE  /\ Captured(f)' = Captured(f)
           /\ Missing(Captured(f), k)' = Missing(Captured(f), k)
<1>1. Captured(f)' = Captured(f)
  BY DEF Captured
<1>2. Missing(Captured(f), k)' = Missing(Captured(f), k)
  BY ZenonT(40), MissingNow
<1> QED
  BY <1>1, <1>2

(* The watcher is installed, fails, takes events and reads a file.         *)
LEMMA WatcherMoves ==
    ASSUME SubtitleInv,
           \/ InstallWatcher \/ WatcherFails \/ TakeEvents
           \/ \E f \in touched : ReadFile(f)
    PROVE  SubtitleInv' /\ RowsStay
<1>0. Shapes
  BY DEF SubtitleInv
<1>1. UNCHANGED <<kinds, version, rev, cache, jobs, batch, landing>>
  BY DEF InstallWatcher, WatcherFails, TakeEvents, ReadFile, durable, driver, link
<1>2. RowsStay
  BY <1>0, <1>1, KeptRows
<1>3. \A f, k : /\ Captured(f)' = Captured(f)
                /\ Missing(Captured(f), k)' = Missing(Captured(f), k)
  BY <1>1, AskedSame
<1>4. \A f \in Files, k \in kinds : Asked(f, k)
  BY DEF SubtitleInv, AllAsked
<1>5. CASE InstallWatcher
  <2>1. PICK P : page' = P /\ P = {Captured(f) : f \in Files}
    BY <1>5 DEF InstallWatcher
  <2>2. \A c \in P : Holds(c)
    BY <1>0, <2>1, CapturedHolds
  <2>3. \A f \in Files : Captured(f)' \in page'
    BY <1>3, <2>1
  <2>4. \A f \in Files, k \in kinds : Asked(f, k)'
    BY <2>3 DEF Asked
  <2>5. wjob' = wjob
    BY <1>5 DEF InstallWatcher
  <2> QED
    BY <1>1, <1>2, <2>1, <2>2, <2>4, <2>5, PassSound, Watching
<1>6. CASE WatcherFails
  <2>1. page' = {} /\ wjob' = NoJob /\ ~watching'
    BY <1>6 DEF WatcherFails
  <2>2. \A f \in Files, k \in kinds : Asked(f, k)'
    BY <2>1 DEF Asked
  <2> QED
    BY <1>1, <1>2, <2>1, <2>2, PassSound, Watching
<1>7. CASE TakeEvents
  <2>1. UNCHANGED <<watching, page, wjob>> /\ events \cup touched \subseteq events' \cup touched'
    BY <1>7 DEF TakeEvents
  <2>2. \A f \in Files, k \in kinds : Asked(f, k)'
    BY <1>1, <1>3, <1>4, <2>1 DEF Asked
  <2> QED
    BY <1>1, <1>2, <2>1, <2>2, PassSound, Watching
<1>8. ASSUME NEW f \in touched, ReadFile(f)
      PROVE  SubtitleInv' /\ RowsStay
  <2>1. /\ UNCHANGED <<watching, events, wjob>> /\ wjob = NoJob /\ page = {}
        /\ touched' = touched \ {f} /\ page' = {Captured(f)}
    BY <1>8 DEF ReadFile
  <2>2. \A g \in Files, k \in kinds : Asked(g, k)'
    BY <1>1, <1>3, <1>4, <2>1 DEF Asked
  <2>3. PICK P : page' = P /\ P = {Captured(f)}
    BY <2>1
  <2>4. \A c \in P : Holds(c)
    BY <1>0, <2>3, CapturedHolds
  <2> QED
    BY <1>1, <1>2, <2>1, <2>2, <2>3, <2>4, PassSound, Watching
<1> QED
  BY <1>5, <1>6, <1>7, <1>8

(* A captured source is checked against the disk.                          *)
LEMMA CheckFileStep ==
    ASSUME SubtitleInv, NEW c, CheckFile(c)
    PROVE  SubtitleInv' /\ RowsStay
<1>0. Shapes
  BY DEF SubtitleInv
<1>1. UNCHANGED <<kinds, version, rev, cache, jobs, batch, landing, watching, events, touched>>
  BY DEF CheckFile, durable, driver, link
<1>2. RowsStay
  BY <1>0, <1>1, KeptRows
<1>3. c \in page /\ Holds(c) /\ wjob = NoJob
  BY PassSound DEF CheckFile
<1>4. PICK P : page' = P /\ P = page \ {c}
  BY DEF CheckFile
<1>5. \A d \in P : Holds(d)
  BY <1>4, PassSound
<1>6. PICK w : wjob' = w /\ w = [file |-> c.file, version |-> c.version, rev |-> c.rev,
                missing |-> {k \in kinds : Missing(c, k) # {}}, left |-> kinds]
  BY DEF CheckFile
<1>7. /\ IsPass(w) /\ w.file = c.file /\ w.version = c.version /\ w.rev = c.rev
      /\ w.left = kinds /\ w.missing = {k \in kinds : Missing(c, k) # {}}
  BY <1>6 DEF IsPass
<1>8. Holds(w)
  BY <1>3, <1>7 DEF Holds
<1>9. ASSUME NEW k \in w.left \ w.missing PROVE Found(w, k)
  <2>1. Missing(c, k) = {}
    BY <1>7
  <2> QED
    BY <1>3, <1>7, <2>1, MissingCaptured, ZenonT(40) DEF Found
<1>10. Passing(w)
  BY <1>7, <1>8, <1>9 DEF Passing
<1>11. ASSUME NEW f \in Files, NEW k \in kinds PROVE Asked(f, k)'
  <2>1. Captured(f)' = Captured(f) /\ Missing(Captured(f), k)' = Missing(Captured(f), k)
    BY <1>1, AskedSame
  <2>2. Asked(f, k)
    BY DEF SubtitleInv, AllAsked
  <2>3. CASE c # Captured(f) \/ Missing(Captured(f), k) = {}
    BY <1>1, <1>3, <1>4, <2>1, <2>2, <2>3 DEF Asked
  <2>4. CASE c = Captured(f) /\ Missing(Captured(f), k) # {}
    <3>1. w.file = f /\ w.version = version[f] /\ k \in w.left \cap w.missing
      BY <1>7, <2>4 DEF Captured
    <3>2. w # NoJob
      BY <3>1, SubtitleAssumption DEF NoJob
    <3> QED
      BY <1>1, <1>6, <3>1, <3>2 DEF Asked
  <2> QED
    BY <2>3, <2>4
<1> QED
  BY <1>1, <1>2, <1>4, <1>5, <1>6, <1>10, <1>11, Watching

(* A row is written as the check found it, unless a commit overtook it.    *)
LEMMA WriteFileStep ==
    ASSUME SubtitleInv, NEW k \in kinds, WriteFile(k)
    PROVE  SubtitleInv' /\ RowsStay
<1>0. Shapes /\ k \in SubtitleKinds
  BY DEF SubtitleInv, Shapes
<1>1. UNCHANGED <<kinds, version, rev, cache, batch, landing, watching, events, touched, page>>
  BY DEF WriteFile, driver, link
<1>2. PICK v : v = wjob
  OBVIOUS
<1>3. v # NoJob /\ Passing(v) /\ k \in v.left
  BY <1>2, PassSound DEF WriteFile
<1>4. PICK w : wjob' = w /\ w = IF v.left = {k} THEN NoJob ELSE [v EXCEPT !.left = @ \ {k}]
  BY <1>2 DEF WriteFile
<1>5. \/ w = NoJob /\ v.left = {k}
      \/ /\ IsPass(w) /\ w.file = v.file /\ w.version = v.version /\ w.rev = v.rev
         /\ w.missing = v.missing /\ w.left = v.left \ {k} /\ v.left # {k}
  BY <1>3, <1>4 DEF Passing, IsPass
<1>6. w # NoJob => Holds(w)
  BY <1>3, <1>5 DEF Passing, Holds
<1>7. w # NoJob => \A h \in w.left \ w.missing : Found(w, h)
  BY <1>3, <1>5 DEF Passing, Found
<1>8. Passing(w)
  BY <1>5, <1>6, <1>7 DEF Passing
<1>9. RowsStay /\ (v.file \in Files /\ version[v.file] = v.version /\ k \in v.missing
                    => jobs'[v.file][k] # NoRow)
  <2>1. PICK missing : missing = (k \in v.missing) /\ jobs' = Reconciled(v, k, missing)
    BY <1>2 DEF WriteFile
  <2>2. CASE k \in v.missing
    <3>1. missing = TRUE
      BY <2>1, <2>2
    <3> QED
      BY <1>0, <2>1, <3>1, AskedRows
  <2>3. CASE k \notin v.missing
    <3>1. (k \in v.missing) = FALSE
      BY <2>3
    <3>2. missing = FALSE
      BY <2>1, <3>1
    <3>3. Found(v, k)
      BY <1>3, <2>3 DEF Passing
    <3>4. RowsStay
      BY <1>0, <2>1, <3>2, <3>3, SettledRows
    <3> QED
      BY <2>3, <3>4
  <2> QED
    BY <2>2, <2>3
<1>10. ASSUME NEW f \in Files, NEW h \in kinds PROVE Asked(f, h)'
  <2>1. Captured(f)' = Captured(f)
    BY <1>1 DEF Captured
  <2>2. Missing(Captured(f), h)' = Missing(Captured(f), h)
    BY ZenonT(40), <1>1, MissingNow
  <2>3. Asked(f, h)
    BY DEF SubtitleInv, AllAsked
  <2>4. CASE jobs[f][h] # NoRow
    BY <1>9, <2>2, <2>4 DEF Asked, RowsStay
  <2>5. CASE v.file = f /\ v.version = version[f] /\ h \in v.left \cap v.missing
    <3>1. CASE h = k
      BY <1>9, <2>5, <3>1 DEF Asked
    <3>2. CASE h # k
      <4>1. w # NoJob
        <5>1. h \in v.left \ {k}
          BY <2>5, <3>2
        <5>2. v.left # {k}
          BY <5>1
        <5>3. IsPass(w) /\ w.file = f
          BY <1>5, <2>5, <5>2
        <5> QED
          BY <5>3, SubtitleAssumption DEF NoJob
      <4>2. w.file = f /\ w.version = version[f] /\ h \in w.left \cap w.missing
        BY <1>5, <2>5, <3>2, <4>1
      <4> QED
        BY <1>1, <1>4, <4>1, <4>2 DEF Asked
    <3> QED
      BY <3>1, <3>2
  <2>6. CASE \/ Missing(Captured(f), h) = {} \/ ~watching \/ f \in events \cup touched
             \/ Captured(f) \in page
    BY <1>1, <2>1, <2>2, <2>6 DEF Asked
  <2> QED
    BY <1>2, <2>3, <2>4, <2>5, <2>6 DEF Asked
<1>11. PICK P : page' = P /\ \A d \in P : Holds(d)
  BY <1>1, PassSound
<1> QED
  BY <1>1, <1>4, <1>8, <1>9, <1>10, <1>11, Watching

-----------------------------------------------------------------------------
(* Commits, deletions and restarts.                                        *)

(* A commit overtakes what was captured of the file, and gives it its      *)
(* rows.                                                                   *)
LEMMA CommitStep ==
    ASSUME SubtitleInv, NEW f \in Files, NEW changed \in BOOLEAN, Commit(f, changed)
    PROVE  SubtitleInv' /\ RowsStay
<1>0. Shapes
  BY DEF SubtitleInv
<1>1. /\ UNCHANGED <<kinds, cache, batch, watching, events, touched, page, wjob, landing>>
      /\ version' = [version EXCEPT ![f] = version[f] + 1]
      /\ rev' = [rev EXCEPT ![f] = rev[f] + 1] \/ rev' = rev
  BY DEF Commit, driver, watcher, link
<1>2. /\ version' \in [Files -> Nat] /\ rev' \in [Files -> Nat]
      /\ version'[f] = version[f] + 1
      /\ \A g \in Files : g # f => version'[g] = version[g] /\ rev'[g] = rev[g]
  BY <1>0, <1>1 DEF Shapes
<1>3. PICK R : R = [k \in SubtitleKinds |->
                IF k \in kinds /\ (changed \/ jobs[f][k] = NoRow) THEN Fresh ELSE jobs[f][k]]
  OBVIOUS
<1>4. jobs' = [jobs EXCEPT ![f] = R]
  BY <1>0, <1>3 DEF Commit, Shapes
<1>5. R \in [SubtitleKinds -> Rows] /\ \A k \in kinds : R[k] # NoRow
  BY <1>0, <1>3, RowStateful DEF Shapes
<1>6. /\ jobs' \in [Files -> [SubtitleKinds -> Rows]]
      /\ \A k \in kinds : jobs'[f][k] # NoRow
      /\ \A g \in Files, k \in SubtitleKinds : g # f => jobs'[g][k] = jobs[g][k]
  BY <1>0, <1>4, <1>5 DEF Shapes
<1>7. RowsStay
  BY <1>6, <1>0 DEF RowsStay, Shapes
<1>8. ASSUME NEW c, Holds(c) PROVE Holds(c)'
  <2>1. CASE c.file = f
    <3>1. c.version \in Nat /\ c.version <= version[f] /\ version[f] \in Nat
      BY <1>0, <1>8, <2>1 DEF Holds, Shapes
    <3>2. c.version # version[f] + 1 /\ c.version <= version[f] + 1
      BY <3>1
    <3> QED
      BY <1>2, <2>1, <3>1, <3>2 DEF Holds
  <2>2. CASE c.file # f
    BY <1>2, <1>8, <2>2 DEF Holds
  <2> QED
    BY <2>1, <2>2
<1>9. CapturesHold'
  BY <1>1, <1>8 DEF CapturesHold, SubtitleInv, Holds
<1>10. ASSUME NEW g, NEW k, g # f, g \in Files
       PROVE  Captured(g)' = Captured(g) /\ Missing(Captured(g), k)' = Missing(Captured(g), k)
  <2>1. Captured(g)' = Captured(g)
    BY <1>2, <1>10 DEF Captured
  <2>2. Missing(Captured(g), k)' = Missing(Captured(g), k)
    BY ZenonT(40), <1>1, <1>2, <1>10, MissingNow
  <2> QED
    BY <2>1, <2>2
<1>11. ASSUME NEW c, NEW k, Holds(c), Found(c, k) PROVE Found(c, k)'
  <2>1. CASE c.file = f
    <3>1. c.version # version'[c.file]
      BY <1>0, <1>2, <1>11, <2>1 DEF Holds, Shapes
    <3> QED
      BY <3>1 DEF Found
  <2>2. CASE c.file # f
    BY <1>2, <1>10, <1>11, <2>2 DEF Found
  <2> QED
    BY <2>1, <2>2
<1>12. ChecksHold'
  <2>1. \A b \in batch : b.verdict = "cached" => Found(b, b.kind)'
    BY <1>11 DEF SubtitleInv, ChecksHold, CapturesHold
  <2>2. PICK w, l : w = wjob /\ l = landing
    OBVIOUS
  <2>3. w # NoJob => \A k \in w.left \ w.missing : Found(w, k)'
    BY <1>11, <2>2 DEF SubtitleInv, ChecksHold, CapturesHold
  <2>4. l # NoJob /\ l.op = "settle" => Found(l, l.kind)'
    BY <1>11, <2>2 DEF SubtitleInv, ChecksHold, CapturesHold
  <2> QED
    BY <1>1, <2>1, <2>2, <2>3, <2>4 DEF ChecksHold, Found
<1>13. AllAsked'
  <2> SUFFICES ASSUME NEW g \in Files, NEW k \in kinds
               PROVE  Asked(g, k)'
    BY <1>1 DEF AllAsked
  <2>1. CASE g = f
    BY <1>6, <2>1 DEF Asked
  <2>2. CASE g # f
    <3>1. Asked(g, k) /\ k \in SubtitleKinds
      BY <1>0 DEF SubtitleInv, AllAsked, Shapes
    <3>2. Captured(g)' = Captured(g) /\ Missing(Captured(g), k)' = Missing(Captured(g), k)
      BY <1>10, <2>2
    <3> QED
      BY <1>1, <1>2, <1>6, <2>2, <3>1, <3>2 DEF Asked
  <2> QED
    BY <2>1, <2>2
<1>14. Shapes'
  BY <1>0, <1>1, <1>2, <1>6 DEF Shapes, IsPass, IsLanding
<1> QED
  BY <1>7, <1>9, <1>12, <1>13, <1>14 DEF SubtitleInv

(* The cache loses a file nobody is settling: the watcher hears of it.     *)
LEMMA DeleteStep ==
    ASSUME SubtitleInv, ~DeletesRace, NEW a \in cache, DeleteArtifact(a)
    PROVE  SubtitleInv' /\ RowsStay
<1>0. Shapes
  BY DEF SubtitleInv
<1>1. /\ UNCHANGED <<kinds, version, rev, jobs, batch, watching, touched, page, wjob, landing>>
      /\ cache' = cache \ {a} /\ ~Settling(a[1])
      /\ events' = IF watching THEN events \cup {a[1]} ELSE events
  BY DEF DeleteArtifact, driver, link
<1>2. RowsStay
  BY <1>0, <1>1, KeptRows
<1>3. Shapes'
  BY <1>0, <1>1 DEF Shapes, IsPass, IsLanding
<1>4. CapturesHold'
  BY <1>1 DEF SubtitleInv, CapturesHold, Holds
<1>5. ASSUME NEW f, NEW k, f # a[1], Missing(Captured(f), k) = {}
      PROVE  Missing(Captured(f), k)' = {}
  <2>1. \A t : <<f, rev[f], t>> # a
    BY <1>5
  <2>2. \A t : <<f, rev[f], t>> \in cache => <<f, rev[f], t>> \in cache'
    BY <1>1, <2>1
  <2> QED
    BY <1>1, <1>5, <2>2, FoundStays
<1>6. ASSUME NEW c, NEW k, c.file # a[1], Found(c, k) PROVE Found(c, k)'
  BY <1>1, <1>5, <1>6 DEF Found
<1>7. ChecksHold'
  <2>1. \A b \in batch : b.verdict = "cached" => Found(b, b.kind)'
    BY <1>1, <1>6 DEF SubtitleInv, ChecksHold, Settling
  <2>2. PICK w, l : w = wjob /\ l = landing
    OBVIOUS
  <2>3. w # NoJob => \A k \in w.left \ w.missing : Found(w, k)'
    BY <1>1, <1>6, <2>2 DEF SubtitleInv, ChecksHold, Settling
  <2>4. l # NoJob /\ l.op = "settle" => Found(l, l.kind)'
    BY <1>1, <1>6, <2>2 DEF SubtitleInv, ChecksHold, Settling
  <2> QED
    BY <1>1, <2>1, <2>2, <2>3, <2>4 DEF ChecksHold, Found
<1>8. AllAsked'
  <2> SUFFICES ASSUME NEW f \in Files, NEW k \in kinds
               PROVE  Asked(f, k)'
    BY <1>1 DEF AllAsked
  <2>1. CASE f = a[1]
    BY <1>1, <2>1 DEF Asked
  <2>2. CASE f # a[1]
    <3>1. Asked(f, k)
      BY DEF SubtitleInv, AllAsked
    <3>2. Captured(f)' = Captured(f)
      BY <1>1 DEF Captured
    <3> QED
      BY <1>1, <1>5, <2>2, <3>1, <3>2 DEF Asked
  <2> QED
    BY <2>1, <2>2
<1> QED
  BY <1>2, <1>3, <1>4, <1>7, <1>8 DEF SubtitleInv

(* The hub restarts: what was in memory is gone, and nobody watches.       *)
LEMMA RestartStep ==
    ASSUME SubtitleInv, HubRestart
    PROVE  SubtitleInv' /\ RowsStay
<1>0. Shapes
  BY DEF SubtitleInv
<1>1. /\ UNCHANGED <<kinds, version, rev, jobs, cache>>
      /\ batch' = {} /\ ~watching' /\ page' = {} /\ wjob' = NoJob /\ landing' = NoJob
  BY DEF HubRestart, LoseLink, durable
<1>2. RowsStay
  BY <1>0, <1>1, KeptRows
<1>3. Shapes' /\ CapturesHold' /\ ChecksHold' /\ AllAsked'
  BY <1>0, <1>1 DEF Shapes, CapturesHold, ChecksHold, AllAsked, Asked
<1> QED
  BY <1>2, <1>3 DEF SubtitleInv

-----------------------------------------------------------------------------
(* The theorems.                                                           *)

(* Every step keeps the invariant, and the rows of what is missing.        *)
LEMMA SubtitleStep ==
    ASSUME ~DeletesRace, SubtitleInv, [Next]_vars
    PROVE  SubtitleInv' /\ RowsStay
<1>1. ASSUME NEW k \in kinds, BeginRefill(k) \/ DriverStep(k) \/ Rerun(k)
      PROVE  SubtitleInv' /\ RowsStay
  <2>1. CASE BeginRefill(k) \/ Rerun(k)
    BY <2>1, QuietStep
  <2>2. CASE Claim(k)
    BY <2>2, ClaimStep
  <2>3. ASSUME NEW b \in batch, CheckJob(b) \/ SettleJob(b)
        PROVE  SubtitleInv' /\ RowsStay
    BY <2>3, CheckJobStep, SettleJobStep
  <2>4. CASE Dispatch
    BY <2>4, DispatchStep
  <2> QED
    BY <1>1, <2>1, <2>2, <2>3, <2>4 DEF DriverStep
<1>2. CASE WatcherStep \/ WatcherFails
  <2>1. CASE InstallWatcher \/ TakeEvents \/ WatcherFails \/ \E f \in touched : ReadFile(f)
    BY <2>1, WatcherMoves
  <2>2. CASE StartDriver
    BY <2>2, QuietStep
  <2>3. ASSUME NEW c \in page, CheckFile(c)
        PROVE  SubtitleInv' /\ RowsStay
    BY <2>3, CheckFileStep
  <2>4. ASSUME NEW k \in kinds, WriteFile(k)
        PROVE  SubtitleInv' /\ RowsStay
    BY <2>4, WriteFileStep
  <2> QED
    BY <1>2, <2>1, <2>2, <2>3, <2>4 DEF WatcherStep
<1>3. CASE \/ HostStep \/ Cut \/ LoseOldHost \/ Connect \/ ReleaseHost \/ UNCHANGED vars
           \/ BeginSnapshot \/ EndSnapshot \/ \E f \in Files : Replace(f)
           \/ \E w \in DOMAIN walks : WalkStep(w)
  BY <1>3, QuietStep
<1>4. CASE WorkerStep
  BY <1>4, ReceiveStep, CheckLandingStep, WriteLandingStep DEF WorkerStep
<1>5. CASE HubRestart
  BY <1>5, RestartStep
<1>6. ASSUME NEW a \in cache, DeleteArtifact(a)
      PROVE  SubtitleInv' /\ RowsStay
  BY <1>6, DeleteStep
<1>7. ASSUME NEW f \in Files, NEW changed \in BOOLEAN, Commit(f, changed)
      PROVE  SubtitleInv' /\ RowsStay
  BY <1>7, CommitStep
<1>8. ASSUME NEW f \in Files, NEW k \in SubtitleKinds, LeaseLapses(f, k) \/ RetryDue(f, k)
      PROVE  SubtitleInv' /\ RowsStay
  BY <1>8, QuietStep
<1>9. ASSUME NEW f, NEW t, Request(f, t)
      PROVE  SubtitleInv' /\ RowsStay
  BY <1>9, QuietStep
<1> QED
  BY <1>1, <1>2, <1>3, <1>4, <1>5, <1>6, <1>7, <1>8, <1>9 DEF Next

(* The invariant holds at the start: every row is there.                   *)
LEMMA SubtitleStarts == Init => SubtitleInv
<1> SUFFICES ASSUME Init PROVE SubtitleInv
  OBVIOUS
<1>1. kinds \subseteq SubtitleKinds
  BY SubtitleAssumption DEF Init
<1>2. /\ version = [f \in Files |-> 1] /\ rev = [f \in Files |-> 1] /\ batch = {} /\ page = {}
      /\ wjob = NoJob /\ landing = NoJob /\ ~watching
      /\ jobs = [f \in Files |-> [k \in SubtitleKinds |-> IF k \in kinds THEN Fresh ELSE NoRow]]
  BY DEF Init
<1>3. Shapes
  BY <1>1, <1>2, RowStateful DEF Shapes
<1>4. CapturesHold /\ ChecksHold /\ AllAsked
  BY <1>2 DEF CapturesHold, ChecksHold, AllAsked, Asked
<1> QED
  BY <1>3, <1>4 DEF SubtitleInv

(* The invariant holds for any files, tracks and bounds, as long as the    *)
(* cache directory loses no file between a check and its update.           *)
THEOREM SubtitleInvariant ==
    ASSUME ~DeletesRace
    PROVE  Spec => []SubtitleInv
<1>1. SubtitleInv /\ [Next]_vars => SubtitleInv'
  BY SubtitleStep
<1>2. Spec => Init /\ [][Next]_vars
  BY DEF Spec
<1> QED
  BY <1>1, <1>2, SubtitleStarts, PTL

(* Whatever is missing for the bytes a file has now has a row, or the      *)
(* watcher has yet to look at the file.                                    *)
THEOREM MissingIsAskedFor ==
    ASSUME ~DeletesRace
    PROVE  Spec => []MissingIsOutstanding
<1>1. SubtitleInv => MissingIsOutstanding
  BY DEF SubtitleInv, AllAsked, Asked, MissingIsOutstanding
<1> QED
  BY <1>1, SubtitleInvariant, PTL

(* A row goes away only when everything it asks for is on disk, for the    *)
(* bytes the file has at that moment.                                      *)
THEOREM OnlyTheDiskSettles ==
    ASSUME ~DeletesRace
    PROVE  Spec => RowsAreSettledByDisk
<1>1. SubtitleInv /\ [Next]_vars
        => \A f \in Files, k \in kinds :
              jobs[f][k] # NoRow /\ jobs'[f][k] = NoRow => Missing(Captured(f), k) = {}
  BY SubtitleStep DEF RowsStay
<1>2. SubtitleInv /\ [Next]_vars
        => [\A f \in Files, k \in kinds :
              jobs[f][k] # NoRow /\ jobs'[f][k] = NoRow => Missing(Captured(f), k) = {}]_vars
  BY <1>1
<1>3. Spec => Init /\ [][Next]_vars
  BY DEF Spec
<1> QED
  BY <1>2, <1>3, SubtitleInvariant, PTL DEF RowsAreSettledByDisk

-----------------------------------------------------------------------------
(* Transfers of display sets.                                              *)

WalkTracks == ImageTracks \cup {TextFile}
Walks == [file : Files, rev : Nat, track : WalkTracks, tier : BOOLEAN, sent : Nat]
Replies == [file : Files, rev : Nat, track : WalkTracks, part : Nat, last : BOOLEAN,
            result : {"ok", "omits", "error", "resized"}]
Items == [file : Files, rev : Nat, track : WalkTracks, urgent : BOOLEAN]

(* The shape of what the link and the mediahost hold.                      *)
Transport ==
    /\ kinds \subseteq SubtitleKinds
    /\ version \in [Files -> Nat] /\ rev \in [Files -> Nat]
    /\ batch \subseteq Claims /\ IsFiniteSet(batch)
    /\ \A b \in batch : b.kind = "sets" => b.items \subseteq ImageTracks
    /\ toHost \in Seq(Items) /\ toHub \in Seq(Replies)
    /\ walks \in [1 .. MaxWalks -> {NoWalk} \cup Walks]
    /\ images \subseteq Files \X Nat \X ImageTracks
    /\ queued \subseteq Files /\ meta \in [Files -> Nat]
    /\ partial \in [DOMAIN partial -> Seq(Nat)]

(* Nothing speaks of bytes the file has yet to have.                       *)
NotAhead ==
    /\ \A b \in batch : b.rev <= rev[b.file]
    /\ \A i \in DOMAIN toHost : toHost[i].rev <= rev[toHost[i].file]
    /\ \A i \in DOMAIN toHub : toHub[i].rev <= rev[toHub[i].file]
    /\ \A w \in DOMAIN walks : walks[w] # NoWalk => walks[w].rev <= rev[walks[w].file]
    /\ \A x \in images : x[2] <= rev[x[1]]
    /\ \A f \in Files : meta[f] <= rev[f]
    /\ \A f \in Files, r \in Nat, t \in ImageTracks : <<f, r, t>> \in DOMAIN partial => r <= rev[f]

(* The messages and the walks of one track's bytes.                        *)
About(f, r, t) ==
    {i \in DOMAIN toHub : toHub[i].file = f /\ toHub[i].rev = r /\ toHub[i].track = t}
WalksOf(f, r, t) ==
    {w \in DOMAIN walks : /\ walks[w] # NoWalk
                          /\ walks[w].file = f /\ walks[w].rev = r /\ walks[w].track = t}

(* One transfer, cut nowhere: n parts are gathered, S are the messages on  *)
(* the link, W the walk that sends the rest.                               *)
Gapless(n, S, W) ==
    /\ \A i \in S, j \in S : i < j => toHub[i].part < toHub[j].part
    /\ \A i \in S :
        \/ /\ toHub[i].result = "ok"
           /\ n < toHub[i].part /\ toHub[i].part <= Chunks
           /\ toHub[i].last = (toHub[i].part = Chunks)
           /\ n + 1 < toHub[i].part => \E j \in S : j < i /\ toHub[j].part = toHub[i].part - 1
        \/ toHub[i].result = "error" /\ S = {i} /\ W = {} /\ n = 0
    /\ \A w \in W :
        /\ W = {w}
        /\ n <= walks[w].sent /\ walks[w].sent < Chunks
        /\ \A i \in S : toHub[i].part <= walks[w].sent
        /\ n < walks[w].sent => \E i \in S : toHub[i].part = walks[w].sent
    /\ W = {} /\ (n > 0 \/ S # {}) =>
        \E i \in S : toHub[i].part = Chunks \/ toHub[i].result = "error"

(* It is so for the bytes a file has, unless two transfers of a track are  *)
(* or were under way.                                                      *)
Flowing(f, t) ==
    LET g == Gathered(<<f, rev[f], t>>)
    IN  /\ g = [i \in 1 .. Len(g) |-> i]
        /\ Gapless(Len(g), About(f, rev[f], t), WalksOf(f, rev[f], t))

TransferInv ==
    /\ Transport
    /\ NotAhead
    /\ \A f \in Files, t \in ImageTracks : <<f, rev[f], t>> \notin doubled => Flowing(f, t)
    /\ torn \subseteq doubled

-----------------------------------------------------------------------------
(* What travels, and what it speaks of.                                    *)

(* The images of a finite set are finite.                                  *)
LEMMA FiniteImage ==
    ASSUME NEW S, IsFiniteSet(S), NEW T, NEW g \in [S -> T], \A y \in T : \E x \in S : g[x] = y
    PROVE  IsFiniteSet(T)
<1>1. g \in Surjection(S, T)
  BY DEF Surjection
<1> QED
  BY <1>1, FS_Surjection

(* A set of naturals has a least element.                                  *)
LEMMA LeastNatural ==
    ASSUME NEW S \in SUBSET Nat, S # {}
    PROVE  \E n \in S : \A m \in S : n <= m
<1> DEFINE R == OpToRel(<, Nat)
<1>1. IsWellFoundedOn(R, Nat)
  BY NatLessThanWellFounded, Zenon
<1>2. \A n, m \in Nat : n < m => <<n, m>> \in R
  BY SMT DEF OpToRel
<1> HIDE DEF R
<1>3. PICK n \in S : \A m \in S : ~(<<m, n>> \in R)
  BY <1>1, WFMin, Zenon
<1>4. ASSUME NEW m \in S PROVE n <= m
  <2>1. n \in Nat /\ m \in Nat /\ ~(m < n)
    BY <1>2, <1>3
  <2> QED
    BY <2>1
<1> QED
  BY <1>4

(* A walk begins in a free place.                                          *)
LEMMA FreePlace ==
    ASSUME Transport, FreeWalks # {}
    PROVE  FirstFree \in 1 .. MaxWalks /\ walks[FirstFree] = NoWalk
<1>1. FreeWalks \in SUBSET Nat
  BY DEF FreeWalks, Transport
<1>2. \E w \in FreeWalks : \A v \in FreeWalks : w <= v
  BY <1>1, LeastNatural
<1>3. FirstFree \in FreeWalks
  BY <1>2 DEF FirstFree
<1> QED
  BY <1>3 DEF FreeWalks, Transport

(* The driver's steps.                                                     *)
LEMMA DriverTransport ==
    ASSUME Transport, NotAhead,
           \/ \E k \in kinds : Claim(k)
           \/ \E b \in batch : CheckJob(b) \/ SettleJob(b)
           \/ Dispatch
    PROVE  Transport' /\ NotAhead'
<1>1. UNCHANGED <<kinds, version, rev, toHub, walks, images, queued, meta, partial>>
  BY DEF Claim, CheckJob, SettleJob, Dispatch, durable, link, host
<1>2. ASSUME NEW k \in kinds, Claim(k)
      PROVE  Transport' /\ NotAhead'
  <2>1. UNCHANGED toHost
    BY <1>2 DEF Claim, link
  <2>2. CASE batch' = batch
    BY <1>1, <2>1, <2>2 DEF Transport, NotAhead
  <2>3. ASSUME NEW s \in SUBSET Files,
               batch' = {[file |-> f, version |-> version[f], rev |-> rev[f],
                          kind |-> k, verdict |-> "claimed", items |-> {}] : f \in s}
        PROVE  Transport' /\ NotAhead'
    <3>0. k \in SubtitleKinds /\ \A f \in s : version[f] \in Nat /\ rev[f] \in Nat
      BY DEF Transport
    <3>1. batch' \subseteq Claims
      BY <2>3, <3>0 DEF Claims
    <3>2. IsFiniteSet(s)
      BY SubtitleAssumption, FS_Subset
    <3>3. PICK g : g = [f \in s |-> [file |-> f, version |-> version[f], rev |-> rev[f],
                          kind |-> k, verdict |-> "claimed", items |-> {}]]
      OBVIOUS
    <3>4. g \in [s -> batch'] /\ \A y \in batch' : \E x \in s : g[x] = y
      BY <2>3, <3>3
    <3>5. IsFiniteSet(batch')
      BY <3>2, <3>4, FiniteImage
    <3>6. \A b \in batch' : b.rev <= rev[b.file] /\ b.items = {}
      BY <2>3, <3>0
    <3> QED
      BY <1>1, <2>1, <3>1, <3>5, <3>6 DEF Transport, NotAhead
  <2> QED
    BY <1>2, <2>2, <2>3 DEF Claim
<1>3. ASSUME NEW b \in batch, CheckJob(b) \/ SettleJob(b)
      PROVE  Transport' /\ NotAhead'
  <2>1. UNCHANGED toHost
    BY <1>3 DEF CheckJob, SettleJob, link
  <2>2. /\ Missing(b, b.kind) \in SUBSET Tracks
        /\ b.kind = "sets" => Missing(b, b.kind) \subseteq ImageTracks
    BY DEF Missing, TracksOf, Tracks
  <2>3. PICK d \in Claims : /\ d.rev = b.rev /\ d.file = b.file
                            /\ d.kind = "sets" => d.items \subseteq ImageTracks
                            /\ batch' = (batch \ {b}) \cup {d}
    <3>1. CASE CheckJob(b)
      <4>1. PICK d : d = [b EXCEPT !.verdict = IF Missing(b, b.kind) = {} THEN "cached" ELSE "offered",
                                   !.items = Missing(b, b.kind)]
        OBVIOUS
      <4> QED
        BY <2>2, <3>1, <4>1 DEF CheckJob, Transport, Claims
    <3>2. CASE SettleJob(b)
      <4>1. PICK d : d = [b EXCEPT !.verdict = "settled"]
        OBVIOUS
      <4> QED
        BY <3>2, <4>1 DEF SettleJob, Transport, Claims
    <3> QED
      BY <1>3, <3>1, <3>2
  <2>4. IsFiniteSet(batch')
    <3>1. IsFiniteSet(batch \ {b})
      BY FS_Subset DEF Transport
    <3> QED
      BY <2>3, <3>1, FS_AddElement
  <2> QED
    BY <1>1, <2>1, <2>3, <2>4 DEF Transport, NotAhead
<1>4. CASE Dispatch
  <2> DEFINE its == UNION {WorkItems(b) : b \in batch}
  <2>1. /\ batch' = {}
        /\ \/ toHost' = toHost
           \/ \E order \in [1 .. Cardinality(its) -> its] : toHost' = toHost \o order
    BY <1>4 DEF Dispatch
  <2>2. ASSUME NEW b \in batch PROVE IsFiniteSet(WorkItems(b))
    <3>1. PICK ts : ts = IF b.kind = "sets" THEN b.items
                         ELSE IF b.items # {} THEN {TextFile} ELSE {}
      OBVIOUS
    <3>2. b.items \in SUBSET Tracks /\ IsFiniteSet(Tracks)
      BY SubtitleAssumption, FS_Union DEF Transport, Claims, Tracks
    <3>3. IsFiniteSet(ts)
      BY <3>1, <3>2, FS_Subset, FS_Singleton, FS_EmptySet
    <3>4. WorkItems(b) = {[file |-> b.file, rev |-> b.rev, track |-> t, urgent |-> FALSE] : t \in ts}
      BY <3>1 DEF WorkItems
    <3>5. PICK g : g = [t \in ts |-> [file |-> b.file, rev |-> b.rev, track |-> t, urgent |-> FALSE]]
      OBVIOUS
    <3>6. g \in [ts -> WorkItems(b)] /\ \A y \in WorkItems(b) : \E x \in ts : g[x] = y
      BY <3>4, <3>5
    <3> QED
      BY <3>3, <3>6, FiniteImage
  <2>3. IsFiniteSet(its)
    <3>1. PICK T : T = {WorkItems(b) : b \in batch}
      OBVIOUS
    <3>2. PICK g : g = [b \in batch |-> WorkItems(b)]
      OBVIOUS
    <3>3. g \in [batch -> T] /\ \A y \in T : \E x \in batch : g[x] = y
      BY <3>1, <3>2
    <3>4. IsFiniteSet(T)
      BY <3>3, FiniteImage DEF Transport
    <3>5. \A S \in T : IsFiniteSet(S)
      BY <2>2, <3>1
    <3>6. IsFiniteSet(UNION T)
      BY <3>4, <3>5, FS_UNION
    <3> QED
      BY <3>1, <3>6
  <2>4. Cardinality(its) \in Nat
    BY <2>3, FS_CardinalityType
  <2>5. \A m \in its : m \in Items /\ m.rev <= rev[m.file]
    <3> SUFFICES ASSUME NEW b \in batch, NEW m \in WorkItems(b)
                 PROVE  m \in Items /\ m.rev <= rev[m.file]
      OBVIOUS
    <3>1. /\ b.file \in Files /\ b.rev \in Nat /\ b.rev <= rev[b.file]
          /\ b.kind = "sets" => b.items \subseteq ImageTracks
      BY DEF Transport, NotAhead, Claims
    <3>2. PICK t \in WalkTracks :
            m = [file |-> b.file, rev |-> b.rev, track |-> t, urgent |-> FALSE]
      BY <3>1 DEF WorkItems, WalkTracks
    <3> QED
      BY <3>1, <3>2 DEF Items
  <2> HIDE DEF its
  <2>6. ASSUME NEW order \in [1 .. Cardinality(its) -> its], toHost' = toHost \o order
        PROVE  toHost' \in Seq(Items) /\ \A i \in DOMAIN toHost' : toHost'[i].rev <= rev[toHost'[i].file]
    <3>1. order \in Seq(its) /\ Len(order) = Cardinality(its)
      BY <2>4
    <3>2. order \in Seq(Items) /\ \A i \in 1 .. Len(order) : order[i].rev <= rev[order[i].file]
      BY <2>5, <3>1
    <3>3. /\ toHost \in Seq(Items) /\ \A i \in 1 .. Len(toHost) : toHost[i].rev <= rev[toHost[i].file]
      BY DEF Transport, NotAhead
    <3>4. /\ toHost' \in Seq(Items) /\ Len(toHost') = Len(toHost) + Len(order)
          /\ \A i \in 1 .. Len(toHost') :
                toHost'[i] = IF i <= Len(toHost) THEN toHost[i] ELSE order[i - Len(toHost)]
      BY <2>6, <3>2, <3>3
    <3>5. ASSUME NEW i \in 1 .. Len(toHost') PROVE toHost'[i].rev <= rev[toHost'[i].file]
      <4>1. CASE i <= Len(toHost)
        BY <3>3, <3>4, <4>1
      <4>2. CASE ~(i <= Len(toHost))
        <5>1. i - Len(toHost) \in 1 .. Len(order)
          BY <3>2, <3>3, <3>4, <4>2
        <5> QED
          BY <3>2, <3>4, <4>2, <5>1
      <4> QED
        BY <4>1, <4>2
    <3> QED
      BY <3>4, <3>5
  <2>7. toHost' \in Seq(Items) /\ \A i \in DOMAIN toHost' : toHost'[i].rev <= rev'[toHost'[i].file]
    BY <1>1, <2>1, <2>6 DEF Transport, NotAhead
  <2> QED
    BY <1>1, <2>1, <2>7, FS_EmptySet DEF Transport, NotAhead
<1> QED
  BY <1>2, <1>3, <1>4

(* A commit only raises revisions.                                         *)
LEMMA CommitTransport ==
    ASSUME Transport, NotAhead, NEW f \in Files, NEW changed, Commit(f, changed)
    PROVE  Transport' /\ NotAhead' /\ \A g \in Files : rev[g] <= rev'[g]
<1>1. /\ UNCHANGED <<kinds, batch, toHost, toHub, walks, images, queued, meta, partial>>
      /\ version' = [version EXCEPT ![f] = @ + 1]
      /\ rev' = [rev EXCEPT ![f] = @ + 1] \/ rev' = rev
  BY DEF Commit, driver, link, host
<1>2. version' \in [Files -> Nat] /\ rev' \in [Files -> Nat]
  <2>1. version \in [Files -> Nat] /\ rev \in [Files -> Nat]
    BY DEF Transport
  <2> QED
    BY <1>1, <2>1
<1>3. \A g \in Files : rev[g] \in Nat /\ rev'[g] \in Nat /\ rev[g] <= rev'[g]
  <2>1. rev \in [Files -> Nat]
    BY DEF Transport
  <2>2. CASE rev' = rev
    BY <2>1, <2>2
  <2>3. CASE rev' = [rev EXCEPT ![f] = @ + 1]
    BY <2>1, <2>3
  <2> QED
    BY <1>1, <2>2, <2>3
<1>4. Transport'
  BY <1>1, <1>2 DEF Transport
<1>5. \A b \in batch : b.rev <= rev'[b.file]
  <2> SUFFICES ASSUME NEW b \in batch PROVE b.rev <= rev'[b.file]
    OBVIOUS
  <2>1. b.file \in Files /\ b.rev \in Nat /\ b.rev <= rev[b.file]
    BY DEF Transport, NotAhead, Claims
  <2> QED
    BY <1>3, <2>1
<1>6. \A i \in DOMAIN toHost : toHost[i].rev <= rev'[toHost[i].file]
  <2> SUFFICES ASSUME NEW i \in DOMAIN toHost PROVE toHost[i].rev <= rev'[toHost[i].file]
    OBVIOUS
  <2>1. toHost[i] \in Items /\ toHost[i].rev <= rev[toHost[i].file]
    BY DEF Transport, NotAhead
  <2> QED
    BY <1>3, <2>1 DEF Items
<1>7. \A i \in DOMAIN toHub : toHub[i].rev <= rev'[toHub[i].file]
  <2> SUFFICES ASSUME NEW i \in DOMAIN toHub PROVE toHub[i].rev <= rev'[toHub[i].file]
    OBVIOUS
  <2>1. toHub[i] \in Replies /\ toHub[i].rev <= rev[toHub[i].file]
    BY DEF Transport, NotAhead
  <2> QED
    BY <1>3, <2>1 DEF Replies
<1>8. \A w \in DOMAIN walks : walks[w] # NoWalk => walks[w].rev <= rev'[walks[w].file]
  <2> SUFFICES ASSUME NEW w \in DOMAIN walks, walks[w] # NoWalk
               PROVE  walks[w].rev <= rev'[walks[w].file]
    OBVIOUS
  <2>1. walks[w] \in Walks /\ walks[w].rev <= rev[walks[w].file]
    BY DEF Transport, NotAhead
  <2> QED
    BY <1>3, <2>1 DEF Walks
<1>9. \A x \in images : x[2] <= rev'[x[1]]
  <2> SUFFICES ASSUME NEW x \in images PROVE x[2] <= rev'[x[1]]
    OBVIOUS
  <2>1. x \in Files \X Nat \X ImageTracks /\ x[2] <= rev[x[1]]
    BY DEF Transport, NotAhead
  <2> QED
    BY <1>3, <2>1
<1>10. \A g \in Files : meta[g] <= rev'[g]
  BY <1>3 DEF Transport, NotAhead
<1>11. \A g \in Files, r \in Nat, t \in ImageTracks :
          <<g, r, t>> \in DOMAIN partial => r <= rev'[g]
  BY <1>3 DEF NotAhead
<1>12. NotAhead'
  BY <1>1, <1>5, <1>6, <1>7, <1>8, <1>9, <1>10, <1>11 DEF NotAhead
<1> QED
  BY <1>3, <1>4, <1>12

(* A viewer's request, and an item taken from the link.                    *)
LEMMA RequestTransport ==
    ASSUME Transport, NotAhead, NEW f \in Files, NEW t, Request(f, t)
    PROVE  Transport' /\ NotAhead'
<1>1. UNCHANGED <<kinds, version, rev, batch, toHub, walks, images, queued, meta, partial>>
  BY DEF Request, durable, driver, host
<1>2. PICK m \in Items : toHost' = Append(toHost, m) /\ m.rev = rev[m.file]
  <2>1. PICK u : u = IF t \in ImageTracks THEN t ELSE TextFile
    OBVIOUS
  <2>2. u \in WalkTracks
    BY <2>1 DEF WalkTracks
  <2>3. PICK m : m = [file |-> f, rev |-> rev[f], urgent |-> TRUE, track |-> u]
    OBVIOUS
  <2>4. rev[f] \in Nat
    BY DEF Transport
  <2>5. m \in Items /\ m.rev = rev[m.file]
    BY <2>2, <2>3, <2>4 DEF Items
  <2>6. toHost' = Append(toHost, m)
    BY <2>1, <2>3 DEF Request
  <2> QED
    BY <2>5, <2>6
<1>3. toHost \in Seq(Items) /\ rev[m.file] \in Nat
  BY DEF Transport, Items
<1>4. toHost' \in Seq(Items) /\ \A i \in DOMAIN toHost' : toHost'[i].rev <= rev[toHost'[i].file]
  BY <1>2, <1>3 DEF NotAhead
<1> QED
  BY <1>1, <1>4 DEF Transport, NotAhead

(* A new walk is on its way from the start.                                *)
LEMMA StartedWalk ==
    ASSUME Transport, NotAhead, FreeWalks # {},
           NEW f \in Files, NEW r \in Nat, NEW t \in WalkTracks, NEW tier \in BOOLEAN,
           r <= rev[f], walks' = Started(f, r, t, tier), rev' = rev
    PROVE  /\ walks' \in [1 .. MaxWalks -> {NoWalk} \cup Walks]
           /\ \A w \in DOMAIN walks' : walks'[w] # NoWalk => walks'[w].rev <= rev'[walks'[w].file]
<1>1. FirstFree \in 1 .. MaxWalks
  BY FreePlace
<1>2. PICK v \in Walks : /\ v.file = f /\ v.rev = r
                         /\ walks' = [walks EXCEPT ![FirstFree] = v]
  BY DEF Started, Walks
<1>3. walks \in [1 .. MaxWalks -> {NoWalk} \cup Walks]
  BY DEF Transport
<1>4. PICK p : p = FirstFree
  OBVIOUS
<1> QED
  BY <1>1, <1>2, <1>3, <1>4 DEF NotAhead

(* The mediahost takes an item off the link.                               *)
LEMMA IntakeTransport ==
    ASSUME Transport, NotAhead, Intake
    PROVE  Transport' /\ NotAhead'
<1>1. UNCHANGED <<kinds, version, rev, batch, toHub, partial>>
  BY DEF Intake, durable, driver
<1>2. PICK m : m = Head(toHost)
  OBVIOUS
<1>3. /\ m \in Items /\ m.rev <= rev[m.file]
      /\ toHost' \in Seq(Items)
      /\ \A i \in DOMAIN toHost' : toHost'[i].rev <= rev'[toHost'[i].file]
  <2>1. toHost \in Seq(Items) /\ toHost # <<>> /\ toHost' = Tail(toHost) /\ rev' = rev
    BY <1>1 DEF Transport, Intake
  <2>2. m = toHost[1] /\ 1 \in DOMAIN toHost
    BY <1>2, <2>1
  <2>3. toHost' \in Seq(Items) /\ \A i \in DOMAIN toHost' : i + 1 \in DOMAIN toHost /\ toHost'[i] = toHost[i + 1]
    BY <2>1
  <2> QED
    BY <2>1, <2>2, <2>3 DEF NotAhead
<1>4. m.file \in Files /\ m.rev \in Nat /\ m.track \in WalkTracks
  BY <1>3 DEF Items
<1>5. CASE FreeWalks # {} /\ walks' = Started(m.file, m.rev, m.track, FALSE)
             /\ UNCHANGED <<meta, queued, images>>
  BY <1>1, <1>3, <1>4, <1>5, StartedWalk DEF Transport, NotAhead
<1>6. CASE /\ meta' = [meta EXCEPT ![m.file] = m.rev]
           /\ queued' \subseteq queued \cup {m.file}
           /\ UNCHANGED <<images, walks>>
  BY <1>1, <1>3, <1>4, <1>6 DEF Transport, NotAhead
<1>7. CASE /\ m.track # TextFile
           /\ images' = images \cup {<<m.file, m.rev, m.track>>}
           /\ UNCHANGED <<meta, queued, walks>>
  <2>1. m.track \in ImageTracks
    BY <1>4, <1>7 DEF WalkTracks
  <2>2. images' \subseteq Files \X Nat \X ImageTracks /\ \A x \in images' : x[2] <= rev[x[1]]
    BY <1>3, <1>4, <1>7, <2>1 DEF Transport, NotAhead
  <2> QED
    BY <1>1, <1>3, <1>7, <2>2 DEF Transport, NotAhead
<1> QED
  BY <1>2, <1>5, <1>6, <1>7 DEF Intake

(* The mediahost begins a walk it had queued.                              *)
LEMMA SpawnTransport ==
    ASSUME Transport, NotAhead,
           (\E f \in queued : SpawnText(f)) \/ (\E x \in images : SpawnImage(x))
    PROVE  Transport' /\ NotAhead'
<1>1. UNCHANGED <<kinds, version, rev, batch, toHost, toHub, meta, partial>>
  BY DEF SpawnText, SpawnImage, durable, driver, link
<1>2. ASSUME NEW f \in queued, SpawnText(f)
      PROVE  Transport' /\ NotAhead'
  <2>1. f \in Files /\ meta[f] \in Nat /\ meta[f] <= rev[f] /\ TextFile \in WalkTracks
    BY DEF Transport, NotAhead, WalkTracks
  <2>2. /\ walks' = Started(f, meta[f], TextFile, TRUE) /\ FreeWalks # {}
        /\ queued' = queued \ {f} /\ images' = images
    BY <1>2 DEF SpawnText
  <2>3. /\ walks' \in [1 .. MaxWalks -> {NoWalk} \cup Walks]
        /\ \A w \in DOMAIN walks' : walks'[w] # NoWalk => walks'[w].rev <= rev'[walks'[w].file]
    BY <1>1, <2>1, <2>2, StartedWalk
  <2> QED
    BY <1>1, <2>2, <2>3 DEF Transport, NotAhead
<1>3. ASSUME NEW x \in images, SpawnImage(x)
      PROVE  Transport' /\ NotAhead'
  <2>1. x[1] \in Files /\ x[2] \in Nat /\ x[2] <= rev[x[1]] /\ x[3] \in WalkTracks
    BY DEF Transport, NotAhead, WalkTracks
  <2>2. /\ walks' = Started(x[1], x[2], x[3], FALSE) /\ FreeWalks # {}
        /\ queued' = queued /\ images' = images \ {x}
    BY <1>3 DEF SpawnImage
  <2>3. /\ walks' \in [1 .. MaxWalks -> {NoWalk} \cup Walks]
        /\ \A w \in DOMAIN walks' : walks'[w] # NoWalk => walks'[w].rev <= rev'[walks'[w].file]
    BY <1>1, <2>1, <2>2, StartedWalk
  <2> QED
    BY <1>1, <2>2, <2>3 DEF Transport, NotAhead
<1> QED
  BY <1>2, <1>3

(* A walk sends a message, or ends.                                        *)
LEMMA WalkTransport ==
    ASSUME Transport, NotAhead, NEW w \in DOMAIN walks, WalkStep(w)
    PROVE  Transport' /\ NotAhead'
<1>1. UNCHANGED <<kinds, version, rev, batch, toHost, images, queued, partial>>
  BY DEF WalkStep, SendText, JoinText, SendSets, FailSets, durable, driver, link
<1>2. /\ walks \in [1 .. MaxWalks -> {NoWalk} \cup Walks] /\ toHub \in Seq(Replies)
      /\ rev \in [Files -> Nat]
  BY DEF Transport
<1>3. walks[w] \in Walks /\ walks[w].rev <= rev[walks[w].file]
  BY <1>2 DEF WalkStep, SendText, JoinText, SendSets, FailSets, NotAhead
<1>4. PICK c : c = walks[w]
  OBVIOUS
<1>5. c \in Walks /\ c.file \in Files /\ c.rev <= rev[c.file]
  BY <1>3, <1>4 DEF Walks
<1>6. PICK d \in {NoWalk} \cup Walks :
        walks' = [walks EXCEPT ![w] = d] /\ (d # NoWalk => d.file = c.file /\ d.rev = c.rev)
  <2>1. PICK n \in Nat : walks' = [walks EXCEPT ![w] = NoWalk]
                      \/ walks' = [walks EXCEPT ![w] = [@ EXCEPT !.sent = n]]
    <3>1. CASE \E r \in {"ok", "omits", "error", "resized"} : SendText(w, r)
      <4>1. PICK v : v = IF c.tier THEN [c EXCEPT !.sent = 1] ELSE NoWalk
        OBVIOUS
      <4>2. walks' = [walks EXCEPT ![w] = v]
        BY <1>2, <1>4, <3>1, <4>1 DEF SendText
      <4> QED
        BY <1>2, <1>4, <4>1, <4>2
    <3>2. CASE JoinText(w)
      BY <3>2 DEF JoinText
    <3>3. CASE FailSets(w)
      BY <3>3 DEF FailSets
    <3>4. CASE SendSets(w)
      <4>1. PICK n : n = c.sent + 1
        OBVIOUS
      <4>2. n \in Nat
        BY <1>5, <4>1 DEF Walks
      <4>3. walks' = [walks EXCEPT ![w] = IF n = Chunks THEN NoWalk ELSE [@ EXCEPT !.sent = n]]
        BY <1>4, <3>4, <4>1 DEF SendSets
      <4> QED
        BY <4>2, <4>3
    <3> QED
      BY <3>1, <3>2, <3>3, <3>4 DEF WalkStep
  <2>2. CASE walks' = [walks EXCEPT ![w] = NoWalk]
    BY <2>2
  <2>3. CASE walks' = [walks EXCEPT ![w] = [@ EXCEPT !.sent = n]]
    <3>1. PICK d : d = [c EXCEPT !.sent = n]
      OBVIOUS
    <3>2. d \in Walks /\ d.file = c.file /\ d.rev = c.rev
      BY <1>5, <3>1 DEF Walks
    <3>3. walks' = [walks EXCEPT ![w] = d]
      BY <1>2, <1>4, <2>3, <3>1
    <3> QED
      BY <3>2, <3>3
  <2> QED
    BY <2>1, <2>2, <2>3
<1>7. /\ walks' \in [1 .. MaxWalks -> {NoWalk} \cup Walks]
      /\ \A v \in DOMAIN walks' : walks'[v] # NoWalk => walks'[v].rev <= rev[walks'[v].file]
  BY <1>2, <1>5, <1>6 DEF NotAhead
<1>8. toHub' \in Seq(Replies) /\ \A i \in DOMAIN toHub' : toHub'[i].rev <= rev[toHub'[i].file]
  <2>1. CASE UNCHANGED toHub
    BY <1>2, <2>1 DEF NotAhead
  <2>2. ASSUME NEW m \in Replies, m.file = c.file, m.rev = c.rev, toHub' = Append(toHub, m)
        PROVE  toHub' \in Seq(Replies) /\ \A i \in DOMAIN toHub' : toHub'[i].rev <= rev[toHub'[i].file]
    BY <1>2, <1>5, <2>2 DEF NotAhead
  <2>3. ASSUME NEW n \in Nat, NEW last \in BOOLEAN, NEW res \in {"ok", "omits", "error", "resized"}
        PROVE  /\ Reply(c, n, last, res) \in Replies
               /\ Reply(c, n, last, res).file = c.file /\ Reply(c, n, last, res).rev = c.rev
    BY <1>5 DEF Reply, Replies, Walks
  <2>4. CASE \E r \in {"ok", "omits", "error", "resized"} : SendText(w, r)
    <3>1. PICK r \in {"ok", "omits", "error", "resized"} : toHub' = Append(toHub, Reply(c, 1, TRUE, r))
      BY <1>4, <2>4 DEF SendText
    <3> QED
      BY <2>2, <2>3, <3>1
  <2>5. CASE FailSets(w)
    <3>1. toHub' = Append(toHub, Reply(c, 1, TRUE, "error"))
      BY <1>4, <2>5 DEF FailSets
    <3> QED
      BY <2>2, <2>3, <3>1
  <2>6. CASE SendSets(w)
    <3>1. PICK n : n = c.sent + 1
      OBVIOUS
    <3>2. PICK last : last = (n = Chunks)
      OBVIOUS
    <3>3. n \in Nat /\ last \in BOOLEAN
      BY <1>5, <3>1, <3>2 DEF Walks
    <3>4. toHub' = Append(toHub, Reply(c, n, last, "ok"))
      BY <1>4, <2>6, <3>1, <3>2 DEF SendSets
    <3> QED
      BY <2>2, <2>3, <3>3, <3>4
  <2>7. CASE JoinText(w)
    BY <2>1, <2>7 DEF JoinText, link
  <2> QED
    BY <2>4, <2>5, <2>6, <2>7 DEF WalkStep
<1>9. meta' \in [Files -> Nat] /\ \A f \in Files : meta'[f] <= rev[f]
  <2>1. meta' = meta \/ meta' = [meta EXCEPT ![c.file] = 0]
    BY <1>4 DEF WalkStep, SendText, JoinText, SendSets, FailSets
  <2>2. meta \in [Files -> Nat] /\ \A f \in Files : meta[f] <= rev[f] /\ 0 <= rev[f]
    BY <1>2 DEF Transport, NotAhead
  <2>3. CASE meta' = meta
    BY <2>2, <2>3
  <2>4. CASE meta' = [meta EXCEPT ![c.file] = 0]
    BY <1>5, <2>2, <2>4
  <2> QED
    BY <2>1, <2>3, <2>4
<1> QED
  BY <1>1, <1>7, <1>8, <1>9 DEF Transport, NotAhead

(* The first message leaves the link.                                      *)
LEMMA HeadLeaves ==
    ASSUME Transport, NotAhead, toHub # <<>>, toHub' = Tail(toHub), rev' = rev
    PROVE  /\ Head(toHub) = toHub[1] /\ 1 \in DOMAIN toHub /\ toHub[1] \in Replies
           /\ toHub' \in Seq(Replies)
           /\ \A i \in Nat : i \in DOMAIN toHub' <=> i # 0 /\ i + 1 \in DOMAIN toHub
           /\ \A i \in DOMAIN toHub' : toHub'[i] = toHub[i + 1]
           /\ \A i \in DOMAIN toHub' : toHub'[i].rev <= rev'[toHub'[i].file]
<1>1. toHub \in Seq(Replies)
  BY DEF Transport
<1>2. /\ Head(toHub) = toHub[1] /\ 1 \in DOMAIN toHub /\ toHub[1] \in Replies
      /\ toHub' \in Seq(Replies)
      /\ \A i \in Nat : i \in DOMAIN toHub' <=> i # 0 /\ i + 1 \in DOMAIN toHub
      /\ \A i \in DOMAIN toHub' : i \in Nat /\ toHub'[i] = toHub[i + 1]
  BY <1>1
<1>3. \A i \in DOMAIN toHub' : toHub'[i].rev <= rev'[toHub'[i].file]
  BY <1>2 DEF NotAhead
<1> QED
  BY <1>2, <1>3

(* The worker takes a message.                                             *)
LEMMA ReceiveTransport ==
    ASSUME Transport, NotAhead, ReceiveText \/ ReceiveSets
    PROVE  Transport' /\ NotAhead'
<1>1. UNCHANGED <<kinds, version, rev, batch, toHost, walks, images, queued, meta>>
  BY DEF ReceiveText, ReceiveSets, driver, host
<1>2. toHub # <<>> /\ toHub' = Tail(toHub)
  BY DEF ReceiveText, ReceiveSets
<1>3. PICK m : m = Head(toHub)
  OBVIOUS
<1>4. /\ m \in Replies /\ m.rev <= rev[m.file]
      /\ toHub' \in Seq(Replies)
      /\ \A i \in DOMAIN toHub' : toHub'[i].rev <= rev'[toHub'[i].file]
  BY <1>1, <1>2, <1>3, HeadLeaves DEF NotAhead
<1>5. m.file \in Files /\ m.rev \in Nat /\ m.track \in WalkTracks /\ m.part \in Nat
  BY <1>4 DEF Replies
<1>6. PICK x : x = <<m.file, m.rev, m.track>>
  OBVIOUS
<1>7. partial' = partial \/ partial' = Without(x) \/ partial' = With(x, Append(Gathered(x), m.part))
  BY <1>3, <1>6 DEF ReceiveText, ReceiveSets, PartialKey
<1>8. Gathered(x) \in Seq(Nat)
  BY DEF Gathered, Transport
<1>9. Append(Gathered(x), m.part) \in Seq(Nat)
  BY <1>5, <1>8
<1>10. /\ partial' \in [DOMAIN partial' -> Seq(Nat)]
       /\ DOMAIN partial' \subseteq DOMAIN partial \cup {x}
  <2>1. CASE partial' = partial
    BY <2>1 DEF Transport
  <2>2. CASE partial' = Without(x)
    BY <2>2 DEF Transport, Without
  <2>3. CASE partial' = With(x, Append(Gathered(x), m.part))
    BY <1>9, <2>3 DEF Transport, With
  <2> QED
    BY <1>7, <2>1, <2>2, <2>3
<1>11. \A f \in Files, r \in Nat, t \in ImageTracks : <<f, r, t>> \in DOMAIN partial' => r <= rev[f]
  BY <1>4, <1>6, <1>10 DEF NotAhead
<1> QED
  BY <1>1, <1>4, <1>10, <1>11 DEF Transport, NotAhead

(* A lost connection takes everything with it.                             *)
LEMMA LostTransport ==
    ASSUME Transport, NotAhead, Cut \/ LoseOldHost \/ HubRestart
    PROVE  Transport' /\ NotAhead'
<1>1. /\ UNCHANGED <<kinds, version, rev>>
      /\ batch' = batch \/ batch' = {}
      /\ toHost' = <<>> /\ toHub' = <<>> /\ partial' = <<>> /\ queued' = {} /\ images' = {}
      /\ meta' = [f \in Files |-> 0] /\ walks' = [w \in DOMAIN walks |-> NoWalk]
  BY DEF Cut, LoseOldHost, HubRestart, LoseLink, durable, driver
<1>2. /\ batch' \subseteq batch /\ IsFiniteSet(batch')
      /\ toHost' \in Seq(Items) /\ toHub' \in Seq(Replies)
      /\ DOMAIN toHost' = {} /\ DOMAIN toHub' = {} /\ DOMAIN partial' = {}
  <2>1. batch' \subseteq batch /\ IsFiniteSet(batch')
    BY <1>1, FS_EmptySet DEF Transport
  <2>2. toHost' \in Seq(Items) /\ toHub' \in Seq(Replies)
    BY <1>1
  <2>3. DOMAIN toHost' = {} /\ DOMAIN toHub' = {} /\ DOMAIN partial' = {}
    BY <1>1
  <2> QED
    BY <2>1, <2>2, <2>3
<1>3. walks' \in [1 .. MaxWalks -> {NoWalk} \cup Walks] /\ \A w \in DOMAIN walks' : walks'[w] = NoWalk
  BY <1>1 DEF Transport
<1>4. partial' \in [DOMAIN partial' -> Seq(Nat)]
  BY <1>1
<1>5. meta' \in [Files -> Nat] /\ \A f \in Files : meta'[f] <= rev[f]
  BY <1>1 DEF Transport
<1>6. Transport'
  BY <1>1, <1>2, <1>3, <1>4, <1>5 DEF Transport
<1>7. NotAhead'
  BY <1>1, <1>2, <1>3, <1>5 DEF NotAhead
<1> QED
  BY <1>6, <1>7

-----------------------------------------------------------------------------
(* The flow of one transfer.                                               *)

(* What the messages and walks of a track are.                             *)
LEMMA AboutShape ==
    ASSUME Transport, NEW f, NEW r, NEW t
    PROVE  /\ About(f, r, t) \subseteq Nat \ {0}
           /\ \A i \in About(f, r, t) : i <= Len(toHub) /\ toHub[i] \in Replies
           /\ \A w \in WalksOf(f, r, t) : w \in 1 .. MaxWalks /\ walks[w] \in Walks
           /\ Gathered(<<f, r, t>>) \in Seq(Nat)
BY DEF Transport, About, WalksOf, Gathered

(* A transfer goes on when its own messages, walk and parts stay, though   *)
(* the messages may move up on the link.                                   *)
LEMMA KeptFlow ==
    ASSUME Transport, Transport', NEW f \in Files, NEW t \in ImageTracks, NEW r \in Nat,
           r = rev[f], r = rev'[f], Flowing(f, t),
           Gathered(<<f, r, t>>)' = Gathered(<<f, r, t>>),
           WalksOf(f, r, t)' = WalksOf(f, r, t),
           \A w \in WalksOf(f, r, t) : walks'[w] = walks[w],
           NEW d \in Nat,
           \A i \in Nat : i \in About(f, r, t)' <=> i # 0 /\ i + d \in About(f, r, t),
           \A i \in About(f, r, t) : d < i,
           \A i \in About(f, r, t)' : toHub'[i] = toHub[i + d]
    PROVE  Flowing(f, t)'
<1>1. PICK g, S, T, W : /\ g = Gathered(<<f, r, t>>) /\ S = About(f, r, t)
                        /\ T = About(f, r, t)' /\ W = WalksOf(f, r, t)
  OBVIOUS
<1>2. /\ S \subseteq Nat \ {0} /\ \A i \in S : i <= Len(toHub) /\ toHub[i] \in Replies
      /\ \A w \in W : walks[w] \in Walks
      /\ T \subseteq Nat \ {0}
      /\ g \in Seq(Nat)
  <2>1. T \subseteq Nat \ {0}
    BY <1>1 DEF About, Transport
  <2> QED
    BY <1>1, <2>1, AboutShape
<1>3. g = [i \in 1 .. Len(g) |-> i] /\ Gapless(Len(g), S, W)
  BY <1>1 DEF Flowing
<1>4. PICK n : n = Len(g)
  OBVIOUS
<1>5. n \in Nat
  BY <1>2, <1>4
<1>6. /\ \A i \in T : i \in Nat /\ i + d \in S /\ toHub'[i] = toHub[i + d]
      /\ \A j \in S : j - d \in T /\ j - d \in Nat /\ toHub'[j - d] = toHub[j] /\ j = (j - d) + d
  <2>1. \A i \in T : i \in Nat /\ i + d \in S /\ toHub'[i] = toHub[i + d]
    BY <1>1, <1>2
  <2>2. ASSUME NEW j \in S PROVE j - d \in T /\ j - d \in Nat /\ toHub'[j - d] = toHub[j] /\ j = (j - d) + d
    <3>1. j \in Nat /\ d < j
      BY <1>1, <1>2
    <3>2. PICK i : i = j - d
      OBVIOUS
    <3>3. i \in Nat /\ i # 0 /\ i + d = j
      BY <3>1, <3>2
    <3>4. i \in T
      BY <1>1, <3>3
    <3> QED
      BY <2>1, <3>2, <3>3, <3>4
  <2> QED
    BY <2>1, <2>2
<1>7. Gapless(n, S, W)
  BY <1>3, <1>4
<1>8. \A i \in T, j \in T : i < j => toHub'[i].part < toHub'[j].part
  <2> SUFFICES ASSUME NEW i \in T, NEW j \in T, i < j
               PROVE  toHub'[i].part < toHub'[j].part
    OBVIOUS
  <2>1. i + d \in S /\ j + d \in S /\ i + d < j + d
    BY <1>6
  <2> QED
    BY <1>6, <1>7, <2>1 DEF Gapless
<1>9. ASSUME NEW i \in T
      PROVE  \/ /\ toHub'[i].result = "ok"
                /\ n < toHub'[i].part /\ toHub'[i].part <= Chunks
                /\ toHub'[i].last = (toHub'[i].part = Chunks)
                /\ n + 1 < toHub'[i].part => \E j \in T : j < i /\ toHub'[j].part = toHub'[i].part - 1
             \/ toHub'[i].result = "error" /\ T = {i} /\ W = {} /\ n = 0
  <2>1. PICK k \in S : k = i + d /\ toHub'[i] = toHub[k]
    BY <1>6
  <2>2. CASE toHub[k].result = "error" /\ S = {k} /\ W = {} /\ n = 0
    <3>1. \A j \in T : j = i
      BY <1>6, <2>1, <2>2
    <3> QED
      BY <2>1, <2>2, <3>1
  <2>3. CASE /\ toHub[k].result = "ok"
             /\ n < toHub[k].part /\ toHub[k].part <= Chunks
             /\ toHub[k].last = (toHub[k].part = Chunks)
             /\ n + 1 < toHub[k].part => \E j \in S : j < k /\ toHub[j].part = toHub[k].part - 1
    <3>1. ASSUME n + 1 < toHub'[i].part
          PROVE  \E j \in T : j < i /\ toHub'[j].part = toHub'[i].part - 1
      <4>1. PICK j \in S : j < k /\ toHub[j].part = toHub[k].part - 1
        BY <2>1, <2>3, <3>1
      <4>2. j - d < i /\ j - d \in T /\ toHub'[j - d] = toHub[j]
        BY <1>2, <1>6, <2>1, <4>1
      <4> QED
        BY <2>1, <4>1, <4>2
    <3> QED
      BY <2>1, <2>3, <3>1
  <2> QED
    BY <1>7, <2>2, <2>3 DEF Gapless
<1>10. ASSUME NEW w \in W
       PROVE  /\ W = {w}
              /\ n <= walks'[w].sent /\ walks'[w].sent < Chunks
              /\ \A i \in T : toHub'[i].part <= walks'[w].sent
              /\ n < walks'[w].sent => \E i \in T : toHub'[i].part = walks'[w].sent
  <2>1. walks'[w] = walks[w]
    BY <1>1
  <2>2. /\ W = {w}
        /\ n <= walks[w].sent /\ walks[w].sent < Chunks
        /\ \A i \in S : toHub[i].part <= walks[w].sent
        /\ n < walks[w].sent => \E i \in S : toHub[i].part = walks[w].sent
    BY <1>7 DEF Gapless
  <2> QED
    BY <1>6, <2>1, <2>2
<1>11. W = {} /\ (n > 0 \/ T # {}) =>
        \E i \in T : toHub'[i].part = Chunks \/ toHub'[i].result = "error"
  <2> SUFFICES ASSUME W = {}, n > 0 \/ T # {}
               PROVE  \E i \in T : toHub'[i].part = Chunks \/ toHub'[i].result = "error"
    OBVIOUS
  <2>1. n > 0 \/ S # {}
    BY <1>6
  <2>2. PICK j \in S : toHub[j].part = Chunks \/ toHub[j].result = "error"
    BY <1>7, <2>1 DEF Gapless
  <2> QED
    BY <1>6, <2>2
<1>12. Gapless(n, T, W)'
  BY <1>8, <1>9, <1>10, <1>11 DEF Gapless
<1> QED
  BY <1>1, <1>3, <1>4, <1>12 DEF Flowing

(* With nothing gathered, sent or walked there is nothing to go wrong.     *)
LEMMA NothingFlows ==
    ASSUME NEW f \in Files, NEW t \in ImageTracks, NEW r, r = rev[f],
           Gathered(<<f, r, t>>) = <<>>, About(f, r, t) = {}, WalksOf(f, r, t) = {}
    PROVE  Flowing(f, t)
<1>1. PICK g : g = Gathered(<<f, r, t>>)
  OBVIOUS
<1>2. Len(g) = 0 /\ g = [i \in 1 .. Len(g) |-> i]
  BY <1>1
<1>3. Gapless(0, {}, {})
  BY DEF Gapless
<1> QED
  BY <1>1, <1>2, <1>3 DEF Flowing

(* A transfer that is not under way has left nothing behind.               *)
LEMMA Idle ==
    ASSUME Transport, NEW f \in Files, NEW t \in ImageTracks, NEW r, r = rev[f],
           Flowing(f, t), ~InTransfer(<<f, r, t>>)
    PROVE  Gathered(<<f, r, t>>) = <<>> /\ About(f, r, t) = {} /\ WalksOf(f, r, t) = {}
<1>1. About(f, r, t) = {} /\ WalksOf(f, r, t) = {}
  BY DEF InTransfer, About, WalksOf
<1>2. PICK g : g = Gathered(<<f, r, t>>)
  OBVIOUS
<1>3. Gapless(Len(g), {}, {})
  BY <1>1, <1>2 DEF Flowing
<1>4. g \in Seq(Nat)
  BY <1>2, AboutShape
<1>5. ~(Len(g) > 0)
  BY <1>3 DEF Gapless
<1>6. g = <<>>
  BY <1>4, <1>5
<1> QED
  BY <1>1, <1>2, <1>6

(* A walk that begins.                                                     *)
LEMMA StartedFlow ==
    ASSUME Transport, Transport', FreeWalks # {},
           NEW f0, NEW r0, NEW t0, NEW tier \in BOOLEAN,
           walks' = Started(f0, r0, t0, tier), UNCHANGED <<rev, toHub, partial>>,
           f0 \in Files,
           NEW f \in Files, NEW t \in ImageTracks, Flowing(f, t),
           <<f0, r0, t0>> = <<f, rev[f], t>> => ~InTransfer(<<f, rev[f], t>>)
    PROVE  Flowing(f, t)'
<1>1. PICK r : r = rev[f]
  OBVIOUS
<1>2. r \in Nat /\ r = rev'[f]
  BY <1>1 DEF Transport
<1>3. PICK p : p = FirstFree
  OBVIOUS
<1>4. p \in DOMAIN walks /\ walks[p] = NoWalk /\ DOMAIN walks' = DOMAIN walks
  BY <1>3, FreePlace DEF Transport
<1>5. PICK v : v = [file |-> f0, rev |-> r0, track |-> t0, tier |-> tier, sent |-> 0]
  OBVIOUS
<1>6. /\ walks' = [walks EXCEPT ![p] = v]
      /\ v.file = f0 /\ v.rev = r0 /\ v.track = t0 /\ v.sent = 0
  BY <1>3, <1>5 DEF Started
<1>7. walks'[p] = v /\ \A w \in DOMAIN walks : w # p => walks'[w] = walks[w]
  BY <1>4, <1>6 DEF Transport
<1>8. v # NoWalk
  BY <1>6, SubtitleAssumption DEF NoWalk
<1>9. Gathered(<<f, r, t>>)' = Gathered(<<f, r, t>>) /\ About(f, r, t)' = About(f, r, t)
  BY DEF Gathered, About
<1>10. CASE <<f0, r0, t0>> = <<f, r, t>>
  <2>1. Gathered(<<f, r, t>>) = <<>> /\ About(f, r, t) = {} /\ WalksOf(f, r, t) = {}
    BY <1>1, <1>10, Idle
  <2>2. WalksOf(f, r, t)' = {p}
    BY <1>4, <1>6, <1>7, <1>8, <1>10, <2>1 DEF WalksOf
  <2>3. Gapless(0, {}, {p})'
    BY <1>6, <1>7, SubtitleAssumption DEF Gapless
  <2>4. Len(<<>>) = 0 /\ <<>> = [i \in 1 .. 0 |-> i]
    OBVIOUS
  <2>5. PICK g : g = Gathered(<<f, r, t>>)'
    OBVIOUS
  <2>6. g = <<>> /\ Len(g) = 0
    BY <1>9, <2>1, <2>5
  <2> QED
    BY <1>2, <1>9, <2>1, <2>2, <2>3, <2>4, <2>5, <2>6 DEF Flowing
<1>11. CASE ~(<<f0, r0, t0>> = <<f, r, t>>)
  <2>1. p \notin WalksOf(f, r, t) /\ p \notin WalksOf(f, r, t)'
    BY <1>4, <1>6, <1>7, <1>11 DEF WalksOf
  <2>2. WalksOf(f, r, t)' = WalksOf(f, r, t) /\ \A w \in WalksOf(f, r, t) : walks'[w] = walks[w]
    BY <1>4, <1>7, <2>1 DEF WalksOf
  <2>3. /\ \A i \in Nat : i \in About(f, r, t)' <=> i # 0 /\ i + 0 \in About(f, r, t)
        /\ \A i \in About(f, r, t) : 0 < i
        /\ \A i \in About(f, r, t)' : toHub'[i] = toHub[i + 0]
    BY <1>9, AboutShape
  <2> QED
    BY <1>1, <1>2, <1>9, <2>2, <2>3, KeptFlow
<1> QED
  BY <1>1, <1>10, <1>11

(* A walk of something else, and what it sends.                            *)
LEMMA OtherFlow ==
    ASSUME Transport, Transport', NEW w \in DOMAIN walks, walks[w] \in Walks,
           NEW d, walks' = [walks EXCEPT ![w] = d],
           d # NoWalk => d.file = walks[w].file /\ d.rev = walks[w].rev /\ d.track = walks[w].track,
           NEW m, m.file = walks[w].file, m.rev = walks[w].rev, m.track = walks[w].track,
           toHub' = toHub \/ toHub' = Append(toHub, m),
           UNCHANGED <<rev, partial>>,
           NEW f \in Files, NEW t \in ImageTracks, Flowing(f, t),
           ~(walks[w].file = f /\ walks[w].rev = rev[f] /\ walks[w].track = t)
    PROVE  Flowing(f, t)'
<1>1. PICK r : r = rev[f]
  OBVIOUS
<1>2. r \in Nat /\ r = rev'[f]
  BY <1>1 DEF Transport
<1>3. Gathered(<<f, r, t>>)' = Gathered(<<f, r, t>>)
  BY DEF Gathered
<1>4. /\ DOMAIN walks' = DOMAIN walks /\ walks'[w] = d
      /\ \A v \in DOMAIN walks : v # w => walks'[v] = walks[v]
  BY DEF Transport
<1>5. w \notin WalksOf(f, r, t) /\ w \notin WalksOf(f, r, t)'
  BY <1>1, <1>4 DEF WalksOf
<1>6. WalksOf(f, r, t)' = WalksOf(f, r, t) /\ \A v \in WalksOf(f, r, t) : walks'[v] = walks[v]
  BY <1>4, <1>5 DEF WalksOf
<1>7. About(f, r, t)' = About(f, r, t) /\ \A i \in About(f, r, t) : toHub'[i] = toHub[i]
  <2>1. CASE toHub' = toHub
    BY <2>1 DEF About
  <2>2. CASE toHub' = Append(toHub, m)
    <3>1. toHub \in Seq(Replies)
      BY DEF Transport
    <3>2. PICK n : n = Len(toHub) + 1
      OBVIOUS
    <3>3. /\ DOMAIN toHub' = DOMAIN toHub \cup {n} /\ toHub'[n] = m /\ n \notin DOMAIN toHub
          /\ \A i \in DOMAIN toHub : toHub'[i] = toHub[i]
      BY <2>2, <3>1, <3>2
    <3>4. n \notin About(f, r, t)'
      BY <1>1, <3>3 DEF About
    <3> QED
      BY <3>3, <3>4 DEF About
  <2> QED
    BY <2>1, <2>2
<1>8. /\ \A i \in Nat : i \in About(f, r, t)' <=> i # 0 /\ i + 0 \in About(f, r, t)
      /\ \A i \in About(f, r, t) : 0 < i
      /\ \A i \in About(f, r, t)' : toHub'[i] = toHub[i + 0]
  <2>0. About(f, r, t) \subseteq Nat \ {0}
    BY AboutShape
  <2>1. \A i \in About(f, r, t) : i \in Nat /\ 0 < i /\ i + 0 = i
    BY <2>0
  <2>2. \A i \in Nat : i + 0 = i
    OBVIOUS
  <2>3. \A i \in Nat : i \in About(f, r, t)' <=> i # 0 /\ i + 0 \in About(f, r, t)
    BY <1>7, <2>1, <2>2
  <2> QED
    BY <1>7, <2>1, <2>3
<1> QED
  BY <1>1, <1>2, <1>3, <1>6, <1>8, KeptFlow

(* A walk sends the next part of its track.                                *)
LEMMA SendFlow ==
    ASSUME Transport, NEW f \in Files, NEW t \in ImageTracks,
           Flowing(f, t), NEW w \in WalksOf(f, rev[f], t), SendSets(w)
    PROVE  Flowing(f, t)'
<1>1. PICK r, g, S, W : /\ r = rev[f] /\ g = Gathered(<<f, r, t>>)
                        /\ S = About(f, r, t) /\ W = WalksOf(f, r, t)
  OBVIOUS
<1>2. UNCHANGED <<rev, partial>>
  BY DEF SendSets, durable
<1>3. PICK c, n, k, l : c = walks[w] /\ n = Len(g) /\ k = c.sent + 1 /\ l = Len(toHub) + 1
  OBVIOUS
<1>4. /\ w \in DOMAIN walks /\ c \in Walks /\ c.file = f /\ c.rev = r /\ c.track = t
      /\ S \subseteq Nat \ {0} /\ \A i \in S : i <= Len(toHub) /\ toHub[i] \in Replies
      /\ g \in Seq(Nat) /\ toHub \in Seq(Replies)
  BY <1>1, <1>3, AboutShape DEF WalksOf, Transport
<1>5. n \in Nat /\ c.sent \in Nat /\ k \in Nat /\ l \in Nat
  BY <1>3, <1>4 DEF Walks
<1>6. Gapless(n, S, W) /\ W = {w}
  BY <1>1, <1>3 DEF Flowing, Gapless
<1>7. /\ n <= c.sent /\ c.sent < Chunks /\ \A i \in S : toHub[i].part <= c.sent
      /\ n < c.sent => \E i \in S : toHub[i].part = c.sent
      /\ \A i \in S : toHub[i].result = "ok"
  BY <1>3, <1>6 DEF Gapless
<1>8. PICK m : m = Reply(c, k, k = Chunks, "ok")
  OBVIOUS
<1>9. /\ m.file = f /\ m.rev = r /\ m.track = t /\ m.part = k /\ m.result = "ok"
      /\ m.last = (k = Chunks)
  BY <1>4, <1>8 DEF Reply
<1>10. toHub' = Append(toHub, m)
  BY <1>3, <1>8 DEF SendSets
<1>11. /\ DOMAIN toHub' = DOMAIN toHub \cup {l} /\ toHub'[l] = m /\ l \notin DOMAIN toHub
       /\ \A i \in DOMAIN toHub : toHub'[i] = toHub[i]
       /\ \A i \in S : i < l
  BY <1>3, <1>4, <1>10
<1>12. About(f, r, t)' = S \cup {l} /\ S \subseteq DOMAIN toHub
  BY <1>1, <1>9, <1>11 DEF About
<1>13. PICK d : d = IF k = Chunks THEN NoWalk ELSE [c EXCEPT !.sent = k]
  OBVIOUS
<1>14. walks' = [walks EXCEPT ![w] = d]
  BY <1>3, <1>13 DEF SendSets
<1>15. /\ DOMAIN walks' = DOMAIN walks /\ walks'[w] = d
       /\ \A v \in DOMAIN walks : v # w => walks'[v] = walks[v]
  BY <1>4, <1>14 DEF Transport
<1>16. PICK V : V = IF k = Chunks THEN {} ELSE {w}
  OBVIOUS
<1>17. WalksOf(f, r, t)' = V
  <2>1. \A v \in WalksOf(f, r, t)' : v = w
    BY <1>1, <1>6, <1>15 DEF WalksOf
  <2>2. CASE k = Chunks
    BY <1>13, <1>15, <1>16, <2>1, <2>2 DEF WalksOf
  <2>3. CASE k # Chunks
    <3>1. d.file = f /\ d.rev = r /\ d.track = t
      BY <1>4, <1>13, <2>3 DEF Walks
    <3>2. d # NoWalk
      BY <1>4, <1>13, <2>3, SubtitleAssumption DEF Walks, NoWalk
    <3>3. w \in WalksOf(f, r, t)'
      BY <1>4, <1>15, <3>1, <3>2 DEF WalksOf
    <3> QED
      BY <1>16, <2>1, <2>3, <3>3
  <2> QED
    BY <2>2, <2>3
<1>18. V # {} => d.sent = k /\ k < Chunks
  BY <1>4, <1>5, <1>7, <1>3, <1>13, <1>16, SubtitleAssumption DEF Walks
<1> DEFINE T == S \cup {l}
<1>19. \A i \in S : toHub[i].part \in Nat /\ toHub'[i] = toHub[i]
  BY <1>4, <1>11, <1>12 DEF Replies
<1>20. \A i \in T, j \in T : i < j => toHub'[i].part < toHub'[j].part
  <2> SUFFICES ASSUME NEW i \in T, NEW j \in T, i < j
               PROVE  toHub'[i].part < toHub'[j].part
    OBVIOUS
  <2>1. i \in S
    BY <1>4, <1>5, <1>11
  <2>2. CASE j \in S
    BY <1>6, <1>19, <2>1, <2>2 DEF Gapless
  <2>3. CASE j = l
    <3>1. toHub'[j].part = k /\ toHub'[i].part = toHub[i].part
      BY <1>9, <1>11, <1>19, <2>1, <2>3
    <3>2. toHub[i].part <= c.sent /\ toHub[i].part \in Nat
      BY <1>7, <1>19, <2>1
    <3> QED
      BY <1>3, <1>5, <3>1, <3>2
  <2> QED
    BY <2>2, <2>3
<1>21. ASSUME NEW i \in T
       PROVE  /\ toHub'[i].result = "ok"
              /\ n < toHub'[i].part /\ toHub'[i].part <= Chunks
              /\ toHub'[i].last = (toHub'[i].part = Chunks)
              /\ n + 1 < toHub'[i].part => \E j \in T : j < i /\ toHub'[j].part = toHub'[i].part - 1
  <2>1. CASE i \in S
    BY <1>6, <1>7, <1>19, <2>1 DEF Gapless
  <2>2. CASE i = l
    <3>1. n < k /\ k <= Chunks /\ k - 1 = c.sent
      BY <1>3, <1>5, <1>7, SubtitleAssumption
    <3>2. ASSUME n + 1 < k PROVE \E j \in S : j < l /\ toHub[j].part = c.sent
      BY <1>3, <1>5, <1>7, <1>11, <3>2
    <3> QED
      BY <1>9, <1>11, <1>19, <2>2, <3>1, <3>2
  <2> QED
    BY <2>1, <2>2
<1>22. ASSUME NEW v \in V
       PROVE  /\ V = {v}
              /\ n <= walks'[v].sent /\ walks'[v].sent < Chunks
              /\ \A i \in T : toHub'[i].part <= walks'[v].sent
              /\ n < walks'[v].sent => \E i \in T : toHub'[i].part = walks'[v].sent
  <2>1. v = w /\ V = {v} /\ walks'[v].sent = k /\ k < Chunks
    BY <1>15, <1>16, <1>18
  <2>2. n <= k
    BY <1>3, <1>5, <1>7
  <2>3. \A i \in T : toHub'[i].part <= k
    BY <1>3, <1>5, <1>7, <1>9, <1>11, <1>19
  <2>4. l \in T /\ toHub'[l].part = k
    BY <1>9, <1>11
  <2> QED
    BY <2>1, <2>2, <2>3, <2>4
<1>23. V = {} => \E i \in T : toHub'[i].part = Chunks
  <2>1. l \in T /\ toHub'[l].part = k
    BY <1>9, <1>11
  <2> QED
    BY <1>16, <2>1
<1>24. Gapless(n, T, V)'
  BY <1>20, <1>21, <1>22, <1>23 DEF Gapless
<1>25. Gathered(<<f, r, t>>)' = g /\ rev'[f] = r /\ g = [i \in 1 .. n |-> i]
  BY <1>1, <1>2, <1>3 DEF Gathered, Flowing
<1> QED
  BY <1>3, <1>12, <1>17, <1>24, <1>25 DEF Flowing

(* A walk fails before it has sent anything.                               *)
LEMMA FailFlow ==
    ASSUME Transport, NEW f \in Files, NEW t \in ImageTracks,
           Flowing(f, t), NEW w \in WalksOf(f, rev[f], t), FailSets(w)
    PROVE  Flowing(f, t)'
<1>1. PICK r, g, S, W : /\ r = rev[f] /\ g = Gathered(<<f, r, t>>)
                        /\ S = About(f, r, t) /\ W = WalksOf(f, r, t)
  OBVIOUS
<1>2. UNCHANGED <<rev, partial>> /\ walks' = [walks EXCEPT ![w] = NoWalk] /\ walks[w].sent = 0
  BY DEF FailSets, durable
<1>3. PICK c, n, l : c = walks[w] /\ n = Len(g) /\ l = Len(toHub) + 1
  OBVIOUS
<1>4. /\ w \in DOMAIN walks /\ c \in Walks /\ c.file = f /\ c.rev = r /\ c.track = t
      /\ S \subseteq Nat \ {0} /\ \A i \in S : i <= Len(toHub) /\ toHub[i] \in Replies
      /\ g \in Seq(Nat) /\ toHub \in Seq(Replies)
  BY <1>1, <1>3, AboutShape DEF WalksOf, Transport
<1>5. n \in Nat
  BY <1>3, <1>4
<1>6. Gapless(n, S, W) /\ W = {w}
  BY <1>1, <1>3 DEF Flowing, Gapless
<1>7. n = 0 /\ S = {}
  <2>1. n <= 0 /\ \A i \in S : toHub[i].part <= 0
    BY <1>2, <1>6 DEF Gapless
  <2>2. \A i \in S : n < toHub[i].part /\ toHub[i].part \in Nat
    BY <1>4, <1>6 DEF Gapless, Replies
  <2>3. n = 0
    BY <1>5, <2>1
  <2> QED
    BY <1>5, <2>1, <2>2, <2>3
<1>8. PICK m : m = Reply(c, 1, TRUE, "error")
  OBVIOUS
<1>9. m.file = f /\ m.rev = r /\ m.track = t /\ m.result = "error"
  BY <1>4, <1>8 DEF Reply
<1>10. toHub' = Append(toHub, m)
  BY <1>3, <1>8 DEF FailSets
<1>11. /\ DOMAIN toHub' = DOMAIN toHub \cup {l} /\ toHub'[l] = m /\ l \notin DOMAIN toHub
       /\ \A i \in DOMAIN toHub : toHub'[i] = toHub[i]
  BY <1>3, <1>4, <1>10
<1>12. About(f, r, t)' = {l}
  BY <1>1, <1>7, <1>9, <1>11 DEF About
<1>13. WalksOf(f, r, t)' = {}
  BY <1>1, <1>2, <1>4, <1>6 DEF WalksOf, Transport
<1>14. l \in Nat
  BY <1>3, <1>4
<1>15. Gapless(0, {l}, {})'
  BY <1>9, <1>11, <1>14 DEF Gapless
<1>16. Gathered(<<f, r, t>>)' = g /\ rev'[f] = r /\ g = [i \in 1 .. n |-> i]
  BY <1>1, <1>2, <1>3 DEF Gathered, Flowing
<1> QED
  BY <1>3, <1>7, <1>12, <1>13, <1>15, <1>16 DEF Flowing

(* The worker takes a message about something else.                        *)
LEMMA PassingFlow ==
    ASSUME Transport, Transport', NotAhead, toHub # <<>>, toHub' = Tail(toHub),
           UNCHANGED <<rev, walks>>,
           NEW f \in Files, NEW t \in ImageTracks, Flowing(f, t),
           1 \notin About(f, rev[f], t),
           Gathered(<<f, rev[f], t>>)' = Gathered(<<f, rev[f], t>>)
    PROVE  Flowing(f, t)'
<1>1. PICK r : r = rev[f]
  OBVIOUS
<1>2. r \in Nat /\ r = rev'[f]
  BY <1>1 DEF Transport
<1>3. Gathered(<<f, r, t>>)' = Gathered(<<f, r, t>>)
  BY <1>1, <1>2
<1>4. WalksOf(f, r, t)' = WalksOf(f, r, t) /\ \A w \in WalksOf(f, r, t) : walks'[w] = walks[w]
  BY DEF WalksOf
<1>5. /\ \A i \in Nat : i \in DOMAIN toHub' <=> i # 0 /\ i + 1 \in DOMAIN toHub
      /\ \A i \in DOMAIN toHub' : toHub'[i] = toHub[i + 1]
  BY HeadLeaves
<1>6. \A i \in Nat : i \in About(f, r, t)' <=> i # 0 /\ i + 1 \in About(f, r, t)
  BY <1>5 DEF About
<1>7. \A i \in About(f, r, t)' : toHub'[i] = toHub[i + 1]
  BY <1>5 DEF About
<1>8. \A i \in About(f, r, t) : 1 < i
  <2>1. About(f, r, t) \subseteq Nat \ {0} /\ 1 \notin About(f, r, t)
    BY <1>1, AboutShape
  <2> QED
    BY <2>1
<1> QED
  BY <1>1, <1>2, <1>3, <1>4, <1>6, <1>7, <1>8, KeptFlow

(* The worker takes the next message of a transfer: it is an error, or the *)
(* part that comes next.                                                   *)
LEMMA NextPart ==
    ASSUME Transport, NEW f \in Files, NEW t \in ImageTracks,
           Flowing(f, t), 1 \in About(f, rev[f], t),
           NEW n, n = Len(Gathered(<<f, rev[f], t>>))
    PROVE  \/ toHub[1].result = "error"
           \/ /\ toHub[1].result = "ok" /\ toHub[1].part = n + 1 /\ n + 1 <= Chunks
              /\ toHub[1].last = (n + 1 = Chunks)
<1>1. PICK r, S, W : r = rev[f] /\ S = About(f, r, t) /\ W = WalksOf(f, r, t)
  OBVIOUS
<1>2. Gapless(n, S, W) /\ 1 \in S
  BY <1>1 DEF Flowing
<1>3. n \in Nat /\ \A i \in S : i \in Nat \ {0} /\ toHub[i].part \in Nat
  BY <1>1, AboutShape DEF Replies
<1>4. ~ \E j \in S : j < 1
  BY <1>3
<1>5. \/ /\ toHub[1].result = "ok"
         /\ n < toHub[1].part /\ toHub[1].part <= Chunks
         /\ toHub[1].last = (toHub[1].part = Chunks)
         /\ ~(n + 1 < toHub[1].part)
      \/ toHub[1].result = "error"
  BY <1>2, <1>4 DEF Gapless
<1>6. n < toHub[1].part /\ ~(n + 1 < toHub[1].part) => toHub[1].part = n + 1
  BY <1>2, <1>3
<1> QED
  BY <1>5, <1>6

(* What is left when an error, or the last part, has been taken.           *)
LEMMA LastTaken ==
    ASSUME Transport, NotAhead, toHub # <<>>, toHub' = Tail(toHub),
           UNCHANGED <<rev, walks>>,
           NEW f \in Files, NEW t \in ImageTracks, Flowing(f, t),
           1 \in About(f, rev[f], t),
           toHub[1].result = "error" \/ toHub[1].part = Chunks,
           partial' = Without(<<f, rev[f], t>>)
    PROVE  Flowing(f, t)'
<1>1. PICK r, S, W, n : /\ r = rev[f] /\ S = About(f, r, t) /\ W = WalksOf(f, r, t)
                        /\ n = Len(Gathered(<<f, r, t>>))
  OBVIOUS
<1>2. Gapless(n, S, W) /\ 1 \in S
  BY <1>1 DEF Flowing
<1>3. n \in Nat /\ \A i \in S : i \in Nat \ {0} /\ toHub[i].part \in Nat
  BY <1>1, AboutShape DEF Replies
<1>4. \A w \in W : walks[w].sent \in Nat
  BY <1>1, AboutShape DEF Walks
<1>5. W = {} /\ S = {1}
  <2>1. CASE toHub[1].result = "error"
    BY <1>2, <2>1 DEF Gapless
  <2>2. CASE toHub[1].part = Chunks /\ toHub[1].result # "error"
    <3>1. ASSUME NEW w \in W PROVE FALSE
      <4>1. walks[w].sent < Chunks /\ toHub[1].part <= walks[w].sent
        BY <1>2 DEF Gapless
      <4> QED
        BY <1>4, <2>2, <4>1, SubtitleAssumption
    <3>2. ASSUME NEW i \in S, i # 1 PROVE FALSE
      <4>1. 1 < i
        BY <1>3, <3>2
      <4>2. toHub[1].part < toHub[i].part
        BY <1>2, <4>1 DEF Gapless
      <4>3. toHub[i].part <= Chunks
        BY <1>2, <3>2 DEF Gapless
      <4> QED
        BY <1>3, <2>2, <4>2, <4>3, SubtitleAssumption
    <3> QED
      BY <1>2, <3>1, <3>2
  <2> QED
    BY <2>1, <2>2
<1>6. /\ \A i \in Nat : i \in DOMAIN toHub' <=> i # 0 /\ i + 1 \in DOMAIN toHub
      /\ \A i \in DOMAIN toHub' : i \in Nat /\ toHub'[i] = toHub[i + 1]
  <2>1. toHub' \in Seq(Replies)
    BY HeadLeaves
  <2> QED
    BY <2>1, HeadLeaves
<1>7. About(f, r, t)' = {}
  <2> SUFFICES ASSUME NEW i \in About(f, r, t)' PROVE FALSE
    OBVIOUS
  <2>1. i \in Nat /\ i # 0 /\ i + 1 \in S
    BY <1>1, <1>6 DEF About
  <2> QED
    BY <1>5, <2>1
<1>8. WalksOf(f, r, t)' = {}
  BY <1>1, <1>5 DEF WalksOf
<1>9. Gathered(<<f, r, t>>)' = <<>>
  BY <1>1 DEF Gathered, Without
<1>10. rev'[f] = r
  BY <1>1
<1>11. PICK g : g = Gathered(<<f, r, t>>)'
  OBVIOUS
<1>12. g = <<>> /\ Len(g) = 0 /\ g = [i \in 1 .. 0 |-> i]
  BY <1>9, <1>11
<1>13. Gapless(0, {}, {})'
  BY DEF Gapless
<1> QED
  BY <1>7, <1>8, <1>10, <1>11, <1>12, <1>13 DEF Flowing

(* A part that is not the last is gathered.                                *)
LEMMA PartTaken ==
    ASSUME Transport, NotAhead, toHub # <<>>, toHub' = Tail(toHub),
           UNCHANGED <<rev, walks>>,
           NEW f \in Files, NEW t \in ImageTracks, Flowing(f, t),
           1 \in About(f, rev[f], t),
           toHub[1].result = "ok", toHub[1].part # Chunks,
           NEW g, g = Gathered(<<f, rev[f], t>>), toHub[1].part = Len(g) + 1,
           partial' = With(<<f, rev[f], t>>, Append(g, toHub[1].part))
    PROVE  Flowing(f, t)'
<1>1. PICK r, S, W, n : /\ r = rev[f] /\ S = About(f, r, t) /\ W = WalksOf(f, r, t) /\ n = Len(g)
  OBVIOUS
<1>2. Gapless(n, S, W) /\ 1 \in S /\ g = [i \in 1 .. n |-> i]
  BY <1>1 DEF Flowing
<1>3. /\ g \in Seq(Nat) /\ n \in Nat /\ toHub[1].part = n + 1
      /\ \A i \in S : i \in Nat \ {0} /\ toHub[i].part \in Nat
      /\ \A w \in W : walks[w].sent \in Nat
  BY <1>1, AboutShape DEF Replies, Walks
<1>4. PICK h : h = Append(g, n + 1)
  OBVIOUS
<1>5. h = [i \in 1 .. n + 1 |-> i] /\ Len(h) = n + 1
  BY <1>1, <1>2, <1>3, <1>4
<1>6. Gathered(<<f, r, t>>)' = h
  BY <1>1, <1>3, <1>4 DEF Gathered, With
<1>7. rev'[f] = r /\ WalksOf(f, r, t)' = W
  BY <1>1 DEF WalksOf
<1>8. PICK T : T = About(f, r, t)'
  OBVIOUS
<1>9. /\ \A i \in T : i \in Nat /\ i # 0 /\ i + 1 \in S /\ toHub'[i] = toHub[i + 1]
      /\ \A j \in S : j # 1 => j - 1 \in Nat /\ j - 1 \in T /\ toHub'[j - 1] = toHub[j]
  <2>1. /\ \A i \in Nat : i \in DOMAIN toHub' <=> i # 0 /\ i + 1 \in DOMAIN toHub
        /\ \A i \in DOMAIN toHub' : toHub'[i] = toHub[i + 1]
        /\ toHub' \in Seq(Replies)
    BY HeadLeaves
  <2>2. \A i \in DOMAIN toHub' : i \in Nat
    BY <2>1
  <2>3. \A i \in Nat : i \in T <=> i # 0 /\ i + 1 \in S
    BY <1>1, <1>8, <2>1 DEF About
  <2>4. \A i \in T : i \in DOMAIN toHub'
    BY <1>8 DEF About
  <2>5. ASSUME NEW j \in S, j # 1 PROVE j - 1 \in Nat /\ j - 1 \in T /\ toHub'[j - 1] = toHub[j]
    <3>1. PICK i : i = j - 1
      OBVIOUS
    <3>2. i \in Nat /\ i # 0 /\ i + 1 = j
      BY <1>3, <2>5, <3>1
    <3> QED
      BY <2>1, <2>3, <2>4, <3>1, <3>2
  <2> QED
    BY <2>1, <2>2, <2>3, <2>4, <2>5
<1>10. \A i \in S : i # 1 => toHub[i].result = "ok" /\ n + 1 < toHub[i].part
  <2> SUFFICES ASSUME NEW i \in S, i # 1
               PROVE  toHub[i].result = "ok" /\ n + 1 < toHub[i].part
    OBVIOUS
  <2>1. 1 < i
    BY <1>3
  <2>2. toHub[1].part < toHub[i].part
    BY <1>2, <2>1 DEF Gapless
  <2>3. toHub[i].result = "ok"
    BY <1>2 DEF Gapless
  <2> QED
    BY <1>3, <2>2, <2>3
<1>11. \A i \in T, j \in T : i < j => toHub'[i].part < toHub'[j].part
  <2> SUFFICES ASSUME NEW i \in T, NEW j \in T, i < j
               PROVE  toHub'[i].part < toHub'[j].part
    OBVIOUS
  <2>1. PICK k, l : k = i + 1 /\ l = j + 1
    OBVIOUS
  <2>2. k \in S /\ l \in S /\ k < l /\ toHub'[i] = toHub[k] /\ toHub'[j] = toHub[l]
    <3>1. i \in Nat /\ j \in Nat /\ i < j
      BY <1>9
    <3>2. k < l
      BY <2>1, <3>1
    <3>3. k \in S /\ toHub'[i] = toHub[k]
      BY <1>9, <2>1
    <3>4. l \in S /\ toHub'[j] = toHub[l]
      BY <1>9, <2>1
    <3> QED
      BY <3>2, <3>3, <3>4
  <2>3. toHub[k].part < toHub[l].part
    BY <1>2, <2>2 DEF Gapless
  <2> QED
    BY <2>2, <2>3
<1>12. ASSUME NEW i \in T
       PROVE  /\ toHub'[i].result = "ok"
              /\ n + 1 < toHub'[i].part /\ toHub'[i].part <= Chunks
              /\ toHub'[i].last = (toHub'[i].part = Chunks)
              /\ (n + 1) + 1 < toHub'[i].part =>
                    \E j \in T : j < i /\ toHub'[j].part = toHub'[i].part - 1
  <2>0. i \in Nat /\ i # 0 /\ i + 1 # 1
    BY <1>9
  <2>1. PICK k \in S : k = i + 1 /\ k # 1 /\ toHub'[i] = toHub[k]
    BY <1>9, <2>0
  <2>2. toHub[k].result = "ok" /\ n + 1 < toHub[k].part
    BY <1>10, <2>1
  <2>3. /\ toHub[k].part <= Chunks /\ toHub[k].last = (toHub[k].part = Chunks)
        /\ n + 1 < toHub[k].part => \E j \in S : j < k /\ toHub[j].part = toHub[k].part - 1
    BY <1>2, <2>2 DEF Gapless
  <2>4. ASSUME (n + 1) + 1 < toHub'[i].part
        PROVE  \E j \in T : j < i /\ toHub'[j].part = toHub'[i].part - 1
    <3>1. PICK j \in S : j < k /\ toHub[j].part = toHub[k].part - 1
      BY <2>2, <2>3
    <3>2. j # 1
      <4>1. toHub[k].part \in Nat /\ (n + 1) + 1 < toHub[k].part
        BY <1>3, <2>1, <2>4
      <4>2. toHub[j].part # n + 1
        BY <1>3, <3>1, <4>1
      <4> QED
        BY <1>3, <4>2
    <3>3. j - 1 \in T /\ toHub'[j - 1] = toHub[j]
      BY <1>9, <3>2
    <3>4. j - 1 < i
      BY <1>3, <1>9, <2>1, <3>1
    <3> QED
      BY <2>1, <3>1, <3>3, <3>4
  <2> QED
    BY <2>1, <2>2, <2>3, <2>4
<1>13. ASSUME NEW w \in W
       PROVE  /\ W = {w}
              /\ n + 1 <= walks[w].sent /\ walks[w].sent < Chunks
              /\ \A i \in T : toHub'[i].part <= walks[w].sent
              /\ n + 1 < walks[w].sent => \E i \in T : toHub'[i].part = walks[w].sent
  <2>1. /\ W = {w} /\ walks[w].sent < Chunks
        /\ \A i \in S : toHub[i].part <= walks[w].sent
        /\ n < walks[w].sent => \E i \in S : toHub[i].part = walks[w].sent
    BY <1>2 DEF Gapless
  <2>2. n + 1 <= walks[w].sent
    BY <1>2, <1>3, <2>1
  <2>3. \A i \in T : toHub'[i].part <= walks[w].sent
    BY <1>9, <2>1
  <2>4. ASSUME n + 1 < walks[w].sent PROVE \E i \in T : toHub'[i].part = walks[w].sent
    <3>1. n < walks[w].sent
      BY <1>3, <2>4
    <3>2. PICK j \in S : toHub[j].part = walks[w].sent
      BY <2>1, <3>1
    <3>3. j # 1
      BY <1>3, <2>4, <3>2
    <3> QED
      BY ZenonT(40), <1>9, <3>2, <3>3
  <2> QED
    BY <2>1, <2>2, <2>3, <2>4
<1>14. ASSUME W = {}
       PROVE  \E i \in T : toHub'[i].part = Chunks \/ toHub'[i].result = "error"
  <2>1. PICK j \in S : toHub[j].part = Chunks \/ toHub[j].result = "error"
    BY <1>2, <1>14 DEF Gapless
  <2>2. j # 1
    BY <2>1
  <2>3. j - 1 \in T /\ toHub'[j - 1] = toHub[j]
    BY <1>9, <2>2
  <2> QED
    BY <2>1, <2>3
<1>15. Gapless(n + 1, T, W)'
  BY <1>11, <1>12, <1>13, <1>14 DEF Gapless
<1> QED
  BY <1>5, <1>6, <1>7, <1>8, <1>15 DEF Flowing

-----------------------------------------------------------------------------
(* Every step keeps transfers whole.                                       *)

Flows == \A f \in Files, t \in ImageTracks : <<f, rev[f], t>> \notin doubled => Flowing(f, t)

(* Steps that touch neither the link nor the mediahost.                    *)
Calm ==
    /\ UNCHANGED <<kinds, version, rev, batch, toHost, toHub, walks, images, queued, meta,
                   partial, doubled>>
    /\ torn' \subseteq torn

(* They leave every transfer as it is.                                     *)
LEMMA CalmFlows ==
    ASSUME Flows, UNCHANGED <<rev, toHub, walks, partial, doubled>>
    PROVE  Flows'
<1> SUFFICES ASSUME NEW f \in Files, NEW t \in ImageTracks, <<f, rev[f], t>> \notin doubled
             PROVE  Flowing(f, t)'
  BY DEF Flows
<1>1. Flowing(f, t)
  BY DEF Flows
<1>2. \A x : Gathered(x)' = Gathered(x)
  BY DEF Gathered
<1>3. /\ About(f, rev[f], t)' = About(f, rev[f], t)
      /\ WalksOf(f, rev[f], t)' = WalksOf(f, rev[f], t)
  BY DEF About, WalksOf
<1>4. PICK n, S, W : /\ n = Len(Gathered(<<f, rev[f], t>>))
                     /\ S = About(f, rev[f], t) /\ W = WalksOf(f, rev[f], t)
  OBVIOUS
<1>5. Gapless(n, S, W)' <=> Gapless(n, S, W)
  BY DEF Gapless
<1> QED
  BY <1>1, <1>2, <1>3, <1>4, <1>5 DEF Flowing

(* The mediahost takes work up.                                            *)
LEMMA HostFlows ==
    ASSUME Transport, NotAhead, Flows, HostStep
    PROVE  Flows'
<1>1. Transport'
  BY IntakeTransport, SpawnTransport DEF HostStep
<1>2. UNCHANGED <<rev, toHub, partial>>
  BY DEF HostStep, Intake, SpawnText, SpawnImage, durable, link
<1>3. ASSUME FreeWalks # {}, NEW f0 \in Files, NEW r0, NEW t0 \in WalkTracks, NEW tier \in BOOLEAN,
             walks' = Started(f0, r0, t0, tier),
             (t0 = TextFile /\ doubled' = doubled) \/ doubled' = Doubling(<<f0, r0, t0>>)
      PROVE  Flows'
  <2> SUFFICES ASSUME NEW f \in Files, NEW t \in ImageTracks, <<f, rev[f], t>> \notin doubled'
               PROVE  Flowing(f, t)'
    BY <1>2 DEF Flows
  <2>1. doubled \subseteq doubled' /\ t # TextFile
    BY <1>3, SubtitleAssumption DEF Doubling
  <2>2. Flowing(f, t)
    BY <2>1 DEF Flows
  <2>3. <<f0, r0, t0>> = <<f, rev[f], t>> => ~InTransfer(<<f, rev[f], t>>)
    BY <1>3, <2>1 DEF Doubling
  <2> QED
    BY <1>1, <1>2, <1>3, <2>2, <2>3, StartedFlow
<1>4. CASE Intake
  <2>1. PICK m : m = Head(toHost)
    OBVIOUS
  <2>2. m.file \in Files /\ m.track \in WalkTracks
    <3>1. toHost \in Seq(Items) /\ toHost # <<>>
      BY <1>4 DEF Transport, Intake
    <3>2. m \in Items
      BY <2>1, <3>1
    <3> QED
      BY <3>2 DEF Items
  <2>3. \/ UNCHANGED <<walks, doubled>>
        \/ /\ FreeWalks # {} /\ walks' = Started(m.file, m.rev, m.track, FALSE)
           /\ doubled' = Doubling(<<m.file, m.rev, m.track>>)
    BY <1>4, <2>1 DEF Intake
  <2> QED
    BY <1>2, <1>3, <2>2, <2>3, CalmFlows
<1>5. ASSUME NEW f \in queued, SpawnText(f) PROVE Flows'
  <2>1. f \in Files /\ TextFile \in WalkTracks
    BY DEF Transport, WalkTracks
  <2>2. /\ FreeWalks # {} /\ walks' = Started(f, meta[f], TextFile, TRUE)
        /\ doubled' = doubled
    BY <1>5 DEF SpawnText
  <2> QED
    BY <1>3, <2>1, <2>2
<1>6. ASSUME NEW x \in images, SpawnImage(x) PROVE Flows'
  <2>1. x[1] \in Files /\ x[3] \in WalkTracks /\ x = <<x[1], x[2], x[3]>>
    BY DEF Transport, WalkTracks
  <2>2. /\ FreeWalks # {} /\ walks' = Started(x[1], x[2], x[3], FALSE)
        /\ doubled' = Doubling(<<x[1], x[2], x[3]>>)
    BY <1>6, <2>1 DEF SpawnImage
  <2> QED
    BY <1>3, <2>1, <2>2
<1> QED
  BY <1>4, <1>5, <1>6 DEF HostStep

(* The mediahost sends.                                                    *)
LEMMA WalkFlows ==
    ASSUME Transport, NotAhead, Flows, NEW w \in DOMAIN walks, WalkStep(w)
    PROVE  Flows'
<1>1. Transport'
  BY WalkTransport
<1>2. UNCHANGED <<rev, partial, doubled>>
  BY DEF WalkStep, SendText, JoinText, SendSets, FailSets, durable, link
<1>3. PICK c : c = walks[w]
  OBVIOUS
<1>4. c \in Walks
  BY <1>3 DEF WalkStep, SendText, JoinText, SendSets, FailSets, Transport
<1> SUFFICES ASSUME NEW f \in Files, NEW t \in ImageTracks, <<f, rev[f], t>> \notin doubled
             PROVE  Flowing(f, t)'
  BY <1>2 DEF Flows
<1>5. Flowing(f, t) /\ t # TextFile
  BY SubtitleAssumption DEF Flows
<1>6. CASE c.file = f /\ c.rev = rev[f] /\ c.track = t
  <2>1. w \in WalksOf(f, rev[f], t)
    BY <1>3, <1>4, <1>6, SubtitleAssumption DEF WalksOf, Walks, NoWalk
  <2>2. SendSets(w) \/ FailSets(w)
    BY <1>3, <1>5, <1>6 DEF WalkStep, SendText, JoinText
  <2> QED
    BY <1>5, <2>1, <2>2, SendFlow, FailFlow
<1>7. CASE ~(c.file = f /\ c.rev = rev[f] /\ c.track = t)
  <2>1. ASSUME NEW d, walks' = [walks EXCEPT ![w] = d],
               d # NoWalk => d.file = c.file /\ d.rev = c.rev /\ d.track = c.track,
               NEW m, m.file = c.file, m.rev = c.rev, m.track = c.track,
               toHub' = toHub \/ toHub' = Append(toHub, m)
        PROVE  Flowing(f, t)'
    BY <1>1, <1>2, <1>3, <1>4, <1>5, <1>7, <2>1, OtherFlow
  <2>2. \A n : LET d == [c EXCEPT !.sent = n]
               IN  d.file = c.file /\ d.rev = c.rev /\ d.track = c.track
    BY <1>4 DEF Walks
  <2>3. CASE \E res \in {"ok", "omits", "error", "resized"} : SendText(w, res)
    <3>1. PICK res \in {"ok", "omits", "error", "resized"} : SendText(w, res)
      BY <2>3
    <3>2. PICK m, d : /\ m = Reply(c, 1, TRUE, res)
                      /\ d = IF c.tier THEN [c EXCEPT !.sent = 1] ELSE NoWalk
      OBVIOUS
    <3>3. walks' = [walks EXCEPT ![w] = d] /\ toHub' = Append(toHub, m)
      BY <1>3, <3>1, <3>2 DEF SendText, Transport
    <3>4. d # NoWalk => d.file = c.file /\ d.rev = c.rev /\ d.track = c.track
      BY <2>2, <3>2
    <3>5. m.file = c.file /\ m.rev = c.rev /\ m.track = c.track
      BY <3>2 DEF Reply
    <3> QED
      BY <2>1, <3>3, <3>4, <3>5
  <2>4. CASE JoinText(w)
    <3>1. walks' = [walks EXCEPT ![w] = NoWalk] /\ toHub' = toHub
      BY <2>4 DEF JoinText, link
    <3> QED
      BY <2>1, <3>1
  <2>5. CASE FailSets(w)
    <3>1. PICK m : m = Reply(c, 1, TRUE, "error")
      OBVIOUS
    <3>2. walks' = [walks EXCEPT ![w] = NoWalk] /\ toHub' = Append(toHub, m)
      BY <1>3, <2>5, <3>1 DEF FailSets
    <3>3. m.file = c.file /\ m.rev = c.rev /\ m.track = c.track
      BY <3>1 DEF Reply
    <3> QED
      BY <2>1, <3>2, <3>3
  <2>6. CASE SendSets(w)
    <3>1. PICK n, m, d : /\ n = c.sent + 1 /\ m = Reply(c, n, n = Chunks, "ok")
                         /\ d = IF n = Chunks THEN NoWalk ELSE [c EXCEPT !.sent = n]
      OBVIOUS
    <3>2. walks' = [walks EXCEPT ![w] = d] /\ toHub' = Append(toHub, m)
      BY <1>3, <2>6, <3>1 DEF SendSets, Transport
    <3>3. d # NoWalk => d.file = c.file /\ d.rev = c.rev /\ d.track = c.track
      BY <2>2, <3>1
    <3>4. m.file = c.file /\ m.rev = c.rev /\ m.track = c.track
      BY <3>1 DEF Reply
    <3> QED
      BY <2>1, <3>2, <3>3, <3>4
  <2> QED
    BY <2>3, <2>4, <2>5, <2>6 DEF WalkStep
<1> QED
  BY <1>6, <1>7

(* The worker takes a message: a whole track, if any, is stored.           *)
LEMMA ReceiveFlows ==
    ASSUME Chunks <= MaxParts + 1, Transport, NotAhead, Flows, torn \subseteq doubled,
           ReceiveText \/ ReceiveSets
    PROVE  Flows' /\ torn' \subseteq doubled'
<1>1. Transport'
  BY ReceiveTransport
<1>2. UNCHANGED <<rev, walks, doubled>> /\ toHub # <<>> /\ toHub' = Tail(toHub)
  BY DEF ReceiveText, ReceiveSets, host
<1>3. PICK m : m = Head(toHub)
  OBVIOUS
<1>4. m = toHub[1] /\ m \in Replies /\ 1 \in DOMAIN toHub
  BY <1>2, <1>3, HeadLeaves
<1>5. PICK x : x = <<m.file, m.rev, m.track>>
  OBVIOUS
<1>6. ASSUME NEW f \in Files, NEW t \in ImageTracks, Flowing(f, t), x # <<f, rev[f], t>>,
             \A y : y # x => Gathered(y)' = Gathered(y)
      PROVE  Flowing(f, t)'
  <2>1. 1 \notin About(f, rev[f], t)
    BY <1>4, <1>5, <1>6 DEF About
  <2> QED
    BY <1>1, <1>2, <1>6, <2>1, PassingFlow
<1>7. CASE ReceiveText
  <2>1. m.track = TextFile /\ torn' = torn /\ partial' = partial
    BY <1>3, <1>7 DEF ReceiveText
  <2>2. \A y : Gathered(y)' = Gathered(y)
    BY <2>1 DEF Gathered
  <2>3. ASSUME NEW f \in Files, NEW t \in ImageTracks, <<f, rev[f], t>> \notin doubled
        PROVE  Flowing(f, t)'
    BY <1>5, <1>6, <2>1, <2>2, <2>3, SubtitleAssumption DEF Flows
  <2> QED
    BY <1>2, <2>1, <2>3 DEF Flows
<1>8. CASE ReceiveSets
  <2>1. PICK p : p = Append(Gathered(x), m.part)
    OBVIOUS
  <2>2. /\ partial' = Without(x) \/ partial' = With(x, p)
        /\ m.track # TextFile
        /\ \/ torn' = torn
           \/ /\ torn' = IF p = Whole THEN torn \ {x} ELSE torn \cup {x}
              /\ ~Stale(m) /\ m.result = "ok" /\ m.last
    BY <1>3, <1>5, <1>8, <2>1 DEF ReceiveSets, PartialKey
  <2>3. \A y : y # x => Gathered(y)' = Gathered(y)
    BY <2>2 DEF Gathered, Without, With
  <2>4. CASE Stale(m) \/ x \in doubled
    <3>1. ASSUME NEW f \in Files, NEW t \in ImageTracks, <<f, rev[f], t>> \notin doubled
          PROVE  Flowing(f, t)'
      <4>1. x # <<f, rev[f], t>>
        BY <1>5, <2>4, <3>1 DEF Stale
      <4> QED
        BY <1>6, <2>3, <3>1, <4>1 DEF Flows
    <3>2. torn' \subseteq doubled
      BY <2>2, <2>4
    <3> QED
      BY <1>2, <3>1, <3>2 DEF Flows
  <2>5. CASE ~Stale(m) /\ x \notin doubled
    <3>1. /\ m.file \in Files /\ m.track \in ImageTracks /\ m.part \in Nat
          /\ m.rev = rev[m.file] /\ x = <<m.file, rev[m.file], m.track>>
      BY <1>4, <1>5, <2>2, <2>5 DEF Replies, WalkTracks, Stale
    <3>2. PICK f, t : f = m.file /\ t = m.track
      OBVIOUS
    <3>3. f \in Files /\ t \in ImageTracks /\ x = <<f, rev[f], t>>
      BY <3>1, <3>2
    <3>4. Flowing(f, t) /\ 1 \in About(f, rev[f], t)
      BY <1>4, <2>5, <3>1, <3>2, <3>3 DEF Flows, About
    <3>5. PICK g, n : g = Gathered(x) /\ n = Len(g)
      OBVIOUS
    <3>6. \/ m.result = "error"
          \/ /\ m.result = "ok" /\ m.part = n + 1 /\ n + 1 <= Chunks
             /\ m.last = (n + 1 = Chunks)
      BY <1>4, <3>3, <3>4, <3>5, NextPart
    <3>7. g \in Seq(Nat) /\ n \in Nat /\ g = [i \in 1 .. n |-> i]
      BY <3>3, <3>4, <3>5, AboutShape DEF Flowing
    <3>8. m.part = n + 1 => p = [i \in 1 .. n + 1 |-> i] /\ Len(p) = n + 1
      BY <2>1, <3>5, <3>7
    <3>9. torn' \subseteq doubled
      <4>1. CASE torn' = torn
        BY <4>1
      <4>2. CASE torn' # torn
        <5>1. m.result = "ok" /\ m.last /\ torn' = IF p = Whole THEN torn \ {x} ELSE torn \cup {x}
          BY <2>2, <4>2
        <5>2. m.part = n + 1 /\ n + 1 = Chunks
          BY <3>6, <5>1
        <5>3. p = Whole
          BY <3>8, <5>2 DEF Whole
        <5> QED
          BY <5>1, <5>3
      <4> QED
        BY <4>1, <4>2
    <3>10. \/ partial' = Without(x) /\ (m.result = "error" \/ m.part = Chunks)
           \/ partial' = With(x, p) /\ m.result = "ok" /\ m.part # Chunks /\ m.part = n + 1
      <4>1. CASE m.result = "error"
        BY <1>3, <1>5, <1>8, <4>1 DEF ReceiveSets, PartialKey
      <4>2. CASE m.result = "ok" /\ m.last
        <5>1. partial' = Without(x)
          BY <1>3, <1>5, <1>8, <4>2 DEF ReceiveSets, PartialKey
        <5> QED
          BY <3>6, <4>2, <5>1
      <4>3. CASE m.result = "ok" /\ ~m.last
        <5>1. m.part = n + 1 /\ n + 1 <= Chunks /\ n + 1 # Chunks /\ Len(p) = n + 1
          BY <3>6, <3>8, <4>3
        <5>2. Len(p) <= MaxParts /\ ~(Len(p) > MaxParts)
          BY <3>7, <5>1, SubtitleAssumption
        <5>3. partial' = With(x, p)
          BY <1>3, <1>5, <1>8, <2>1, <2>5, <4>3, <5>2 DEF ReceiveSets, PartialKey
        <5> QED
          BY <4>3, <5>1, <5>3
      <4> QED
        BY <3>6, <4>1, <4>2, <4>3
    <3>11. Flowing(f, t)'
      <4>1. CASE partial' = Without(x) /\ (m.result = "error" \/ m.part = Chunks)
        BY <1>2, <1>4, <3>3, <3>4, <4>1, LastTaken
      <4>2. CASE partial' = With(x, p) /\ m.result = "ok" /\ m.part # Chunks /\ m.part = n + 1
        <5>1. g = Gathered(<<f, rev[f], t>>) /\ toHub[1].part = Len(g) + 1
          BY <1>4, <3>3, <3>5, <4>2
        <5>2. partial' = With(<<f, rev[f], t>>, Append(g, toHub[1].part))
          BY <1>4, <2>1, <3>3, <3>5, <4>2
        <5> QED
          BY <1>2, <1>4, <3>3, <3>4, <4>2, <5>1, <5>2, PartTaken
      <4> QED
        BY <3>10, <4>1, <4>2
    <3>12. ASSUME NEW f1 \in Files, NEW t1 \in ImageTracks, <<f1, rev[f1], t1>> \notin doubled
           PROVE  Flowing(f1, t1)'
      <4>1. CASE x = <<f1, rev[f1], t1>>
        BY <3>3, <3>11, <4>1
      <4>2. CASE x # <<f1, rev[f1], t1>>
        BY <1>6, <2>3, <3>12, <4>2 DEF Flows
      <4> QED
        BY <4>1, <4>2
    <3> QED
      BY <1>2, <3>9, <3>12 DEF Flows
  <2> QED
    BY <2>4, <2>5
<1> QED
  BY <1>7, <1>8

(* A commit: nothing speaks of the new bytes yet.                          *)
LEMMA CommitFlows ==
    ASSUME Transport, NotAhead, Flows, NEW f0 \in Files, NEW changed, Commit(f0, changed)
    PROVE  Flows'
<1>1. UNCHANGED <<toHub, walks, partial, doubled>>
  BY DEF Commit, link, host
<1>2. CASE rev' = rev
  BY <1>1, <1>2, CalmFlows
<1>3. CASE rev' = [rev EXCEPT ![f0] = @ + 1]
  <2> SUFFICES ASSUME NEW f \in Files, NEW t \in ImageTracks, <<f, rev'[f], t>> \notin doubled
               PROVE  Flowing(f, t)'
    BY <1>1 DEF Flows
  <2>1. rev \in [Files -> Nat] /\ rev[f] \in Nat
    BY DEF Transport
  <2>2. PICK r : r = rev'[f]
    OBVIOUS
  <2>3. About(f, r, t)' = About(f, r, t) /\ WalksOf(f, r, t)' = WalksOf(f, r, t)
        /\ Gathered(<<f, r, t>>)' = Gathered(<<f, r, t>>)
    BY <1>1 DEF About, WalksOf, Gathered
  <2>4. CASE f = f0
    <3>1. r \in Nat /\ ~(r <= rev[f])
      BY <1>3, <2>1, <2>2, <2>4
    <3>2. About(f, r, t) = {}
      BY <3>1 DEF About, NotAhead
    <3>3. WalksOf(f, r, t) = {}
      BY <3>1 DEF WalksOf, NotAhead
    <3>4. Gathered(<<f, r, t>>) = <<>>
      BY <3>1 DEF Gathered, NotAhead
    <3>5. PICK g : g = Gathered(<<f, r, t>>)'
      OBVIOUS
    <3>6. g = <<>> /\ Len(g) = 0 /\ g = [i \in 1 .. 0 |-> i]
      BY <2>3, <3>4, <3>5
    <3>7. Gapless(0, {}, {})'
      BY DEF Gapless
    <3> QED
      BY <2>2, <2>3, <3>2, <3>3, <3>5, <3>6, <3>7 DEF Flowing
  <2>5. CASE f # f0
    <3>1. r = rev[f]
      BY <1>3, <2>1, <2>2, <2>5
    <3>2. Flowing(f, t)
      BY <1>1, <2>2, <3>1 DEF Flows
    <3>3. PICK n, S, W : n = Len(Gathered(<<f, r, t>>)) /\ S = About(f, r, t) /\ W = WalksOf(f, r, t)
      OBVIOUS
    <3>4. Gapless(n, S, W)' <=> Gapless(n, S, W)
      BY <1>1 DEF Gapless
    <3> QED
      BY <2>2, <2>3, <3>1, <3>2, <3>3, <3>4 DEF Flowing
  <2> QED
    BY <2>4, <2>5
<1> QED
  BY <1>2, <1>3 DEF Commit

(* A lost connection leaves nothing.                                       *)
LEMMA LostFlows ==
    ASSUME Transport, Cut \/ LoseOldHost \/ HubRestart
    PROVE  Flows'
<1>1. /\ toHub' = <<>> /\ partial' = <<>>
      /\ walks' = [w \in DOMAIN walks |-> NoWalk]
  BY DEF Cut, LoseOldHost, HubRestart, LoseLink
<1> SUFFICES ASSUME NEW f \in Files, NEW t \in ImageTracks PROVE Flowing(f, t)'
  BY DEF Flows
<1>2. PICK r : r = rev'[f]
  OBVIOUS
<1>3. About(f, r, t)' = {} /\ WalksOf(f, r, t)' = {}
  <2>1. DOMAIN toHub' = {}
    BY <1>1
  <2> QED
    BY <1>1, <2>1 DEF About, WalksOf
<1>4. PICK g : g = Gathered(<<f, r, t>>)'
  OBVIOUS
<1>5. g = <<>>
  BY <1>1, <1>4 DEF Gathered
<1>6. Len(g) = 0 /\ g = [i \in 1 .. 0 |-> i]
  BY <1>5
<1>7. Gapless(0, {}, {})'
  BY DEF Gapless
<1> QED
  BY <1>2, <1>3, <1>4, <1>6, <1>7 DEF Flowing

(* Every step keeps the transfers' invariant.                              *)
LEMMA TransferStep ==
    ASSUME Chunks <= MaxParts + 1, TransferInv, [Next]_vars
    PROVE  TransferInv'
<1>1. Transport /\ NotAhead /\ Flows /\ torn \subseteq doubled
  BY DEF TransferInv, Flows
<1>2. SUFFICES Transport' /\ NotAhead' /\ Flows' /\ torn' \subseteq doubled'
  BY DEF TransferInv, Flows
<1>3. CASE Calm
  BY <1>1, <1>3, CalmFlows DEF Calm, Transport, NotAhead
<1>4. ASSUME \/ \E k \in kinds : Claim(k)
             \/ \E b \in batch : CheckJob(b) \/ SettleJob(b)
             \/ Dispatch
      PROVE  TransferInv'
  <2>1. UNCHANGED <<rev, toHub, walks, partial, doubled, torn>>
    BY <1>4 DEF Claim, CheckJob, SettleJob, Dispatch, durable, link, host
  <2>2. Flows' /\ torn' \subseteq doubled'
    BY <1>1, <2>1, CalmFlows
  <2>3. Transport' /\ NotAhead'
    BY <1>1, <1>4, DriverTransport
  <2> QED
    BY <2>2, <2>3 DEF TransferInv, Flows
<1>5. ASSUME NEW f \in Files, NEW t, Request(f, t)
      PROVE  TransferInv'
  <2>1. UNCHANGED <<rev, toHub, walks, partial, doubled, torn>>
    BY <1>5 DEF Request, durable, host
  <2>2. Flows' /\ torn' \subseteq doubled'
    BY <1>1, <2>1, CalmFlows
  <2>3. Transport' /\ NotAhead'
    BY <1>1, <1>5, RequestTransport
  <2> QED
    BY <2>2, <2>3 DEF TransferInv, Flows
<1>6. ASSUME NEW f \in Files, NEW changed, Commit(f, changed)
      PROVE  TransferInv'
  <2>1. torn' = torn /\ doubled' = doubled
    BY <1>6 DEF Commit, host
  <2>2. Flows'
    BY <1>1, <1>6, CommitFlows
  <2>3. Transport' /\ NotAhead'
    BY <1>1, <1>6, CommitTransport
  <2> QED
    BY <1>1, <2>1, <2>2, <2>3 DEF TransferInv, Flows
<1>7. ASSUME HostStep
      PROVE  TransferInv'
  <2>1. torn' = torn /\ doubled \subseteq doubled'
    BY <1>7 DEF HostStep, Intake, SpawnText, SpawnImage, Doubling, durable
  <2>2. Flows'
    BY <1>1, <1>7, HostFlows
  <2>3. Transport' /\ NotAhead'
    BY <1>1, <1>7, IntakeTransport, SpawnTransport DEF HostStep
  <2> QED
    BY <1>1, <2>1, <2>2, <2>3 DEF TransferInv, Flows
<1>8. ASSUME NEW w \in DOMAIN walks, WalkStep(w)
      PROVE  TransferInv'
  <2>1. torn' = torn /\ doubled' = doubled
    BY <1>8 DEF WalkStep, SendText, JoinText, SendSets, FailSets, durable
  <2>2. Flows'
    BY <1>1, <1>8, WalkFlows
  <2>3. Transport' /\ NotAhead'
    BY <1>1, <1>8, WalkTransport
  <2> QED
    BY <1>1, <2>1, <2>2, <2>3 DEF TransferInv, Flows
<1>9. ASSUME ReceiveText \/ ReceiveSets
      PROVE  TransferInv'
  <2>1. Flows' /\ torn' \subseteq doubled'
    BY <1>1, <1>9, ReceiveFlows
  <2>2. Transport' /\ NotAhead'
    BY <1>1, <1>9, ReceiveTransport
  <2> QED
    BY <2>1, <2>2 DEF TransferInv, Flows
<1>10. ASSUME Cut \/ LoseOldHost \/ HubRestart
       PROVE  TransferInv'
  <2>1. torn' = torn /\ doubled' = doubled
    BY <1>10 DEF Cut, LoseOldHost, HubRestart, LoseLink, durable
  <2>2. Flows'
    BY <1>1, <1>10, LostFlows
  <2>3. Transport' /\ NotAhead'
    BY <1>1, <1>10, LostTransport
  <2> QED
    BY <1>1, <2>1, <2>2, <2>3 DEF TransferInv, Flows
<1>11. ASSUME \/ \E k \in kinds : BeginRefill(k) \/ Rerun(k)
              \/ WatcherStep \/ WatcherFails
              \/ CheckLanding \/ WriteLanding \/ Connect \/ ReleaseHost
              \/ BeginSnapshot \/ EndSnapshot \/ \E f \in Files : Replace(f)
              \/ \E a \in cache : DeleteArtifact(a)
              \/ \E f \in Files, k \in SubtitleKinds : LeaseLapses(f, k) \/ RetryDue(f, k)
              \/ UNCHANGED vars
       PROVE  Calm
  <2>1. CASE \E k \in kinds : BeginRefill(k) \/ Rerun(k)
    BY <2>1 DEF BeginRefill, Rerun, Calm, durable, driver, link, host
  <2>2. CASE WatcherStep \/ WatcherFails
    BY <2>2 DEF WatcherStep, WatcherFails, InstallWatcher, TakeEvents, StartDriver, ReadFile,
                CheckFile, WriteFile, Calm, durable, driver, link, host
  <2>3. CASE CheckLanding \/ WriteLanding \/ Connect \/ ReleaseHost
    BY <2>3 DEF CheckLanding, WriteLanding, Connect, ReleaseHost, Calm, durable, driver, host
  <2>4. CASE \E a \in cache : DeleteArtifact(a)
    BY <2>4 DEF DeleteArtifact, Calm, driver, link, host
  <2>5. CASE \E f \in Files, k \in SubtitleKinds : LeaseLapses(f, k) \/ RetryDue(f, k)
    BY <2>5 DEF LeaseLapses, RetryDue, Calm, driver, link, host
  <2>6. CASE UNCHANGED vars
    BY <2>6 DEF vars, Calm, durable, driver, link, host
  <2>7. CASE BeginSnapshot \/ EndSnapshot \/ \E f \in Files : Replace(f)
    BY <2>7 DEF BeginSnapshot, EndSnapshot, Replace, Calm, driver, link, host
  <2> QED
    BY <1>11, <2>1, <2>2, <2>3, <2>4, <2>5, <2>6, <2>7
<1>12. CASE Next
  BY <1>1, <1>3, <1>4, <1>5, <1>6, <1>7, <1>8, <1>9, <1>10, <1>11, <1>12
  DEF Next, DriverStep, WorkerStep, TransferInv, Flows
<1>13. CASE UNCHANGED vars
  BY <1>3, <1>11, <1>13
<1> QED
  BY <1>12, <1>13

(* It holds before anything is sent.                                       *)
LEMMA TransferStarts == Init => TransferInv
<1> SUFFICES ASSUME Init PROVE TransferInv
  OBVIOUS
<1>1. /\ DOMAIN toHost = {} /\ DOMAIN toHub = {} /\ DOMAIN partial = {}
      /\ toHost \in Seq(Items) /\ toHub \in Seq(Replies)
  BY DEF Init
<1>2. kinds \subseteq SubtitleKinds /\ IsFiniteSet(batch)
  BY SubtitleAssumption, FS_EmptySet DEF Init
<1>3. partial \in [DOMAIN partial -> Seq(Nat)]
  BY DEF Init
<1>4. walks \in [1 .. MaxWalks -> {NoWalk} \cup Walks] /\ \A w \in DOMAIN walks : walks[w] = NoWalk
  BY DEF Init
<1>5. Transport
  BY <1>1, <1>2, <1>3, <1>4 DEF Init, Transport
<1>6. NotAhead
  BY <1>1, <1>4 DEF Init, NotAhead
<1>7. ASSUME NEW f \in Files, NEW t \in ImageTracks PROVE Flowing(f, t)
  <2>1. PICK r : r = rev[f]
    OBVIOUS
  <2>2. About(f, r, t) = {} /\ WalksOf(f, r, t) = {} /\ Gathered(<<f, r, t>>) = <<>>
    BY <1>1, <1>4 DEF About, WalksOf, Gathered
  <2> QED
    BY <2>1, <2>2, NothingFlows
<1> QED
  BY <1>5, <1>6, <1>7 DEF Init, TransferInv

(* Of a track that no two transfers race over, the parts gathered, the     *)
(* messages on the link and the walk that sends the rest are one gapless   *)
(* run, as long as accept_chunk can only refuse the last message.          *)
THEOREM TransferInvariant ==
    ASSUME Chunks <= MaxParts + 1
    PROVE  Spec => []TransferInv
<1>1. TransferInv /\ [Next]_vars => TransferInv'
  BY TransferStep
<1>2. Spec => Init /\ [][Next]_vars
  BY DEF Spec
<1> QED
  BY <1>1, <1>2, TransferStarts, PTL

(* The display sets the hub stores are the whole track, in order, unless   *)
(* two transfers of the same bytes were under way at once.                 *)
THEOREM StoredTracksAreWhole == Spec => []TornOnlyWhenDoubled
<1>1. CASE Chunks <= MaxParts + 1
  <2>1. TransferInv => TornOnlyWhenDoubled
    BY DEF TransferInv, TornOnlyWhenDoubled
  <2> QED
    BY <1>1, <2>1, TransferInvariant, PTL
<1>2. CASE ~(Chunks <= MaxParts + 1)
  <2>1. TornOnlyWhenDoubled
    BY <1>2 DEF TornOnlyWhenDoubled
  <2> QED
    BY <2>1, PTL
<1> QED
  BY <1>1, <1>2
=============================================================================
