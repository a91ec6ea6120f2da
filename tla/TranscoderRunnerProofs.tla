----------------------- MODULE TranscoderRunnerProofs -----------------------
(***************************************************************************)
(* Proofs about TranscoderRunner, for every number of starts, ends and     *)
(* crashes: what EndSession and the teardown of the link promise, and that *)
(* the runner implements TranscoderBox.                                    *)
(***************************************************************************)
EXTENDS TranscoderRunner, FiniteSetTheorems, TLAPS

-----------------------------------------------------------------------------
(* The inductive invariant.                                                *)

(* Where the link loop and the task of a start can be.                     *)
LoopPlaces == {"ready", "cancel", "settle", "take", "stop", "drain", "over", "cut"}
TaskPlaces == {"none", "spawned", "cancel", "settle", "take", "stop", "number", "preroll",
               "check", "register", "answer", "discard", "done", "dropped"}

(* The starts that can come up, cancel another or have come up and not said so. *)
Answering == {n \in Starts : at[n] = "answer"}
Alive == Rising \cup Answering

(* The starts that run on and have not come up.                            *)
InHand == {n \in Starts : Running(n) /\ at[n] # "answer"}

(* The starts that were taken off the link.                                *)
Came == {n \in Starts : at[n] # "none"}

Numbered == {n \in Starts : gen[n] # 0}

(* Each process is where it can be, tables and histories speak of starts   *)
(* that came, and generations are drawn once.                              *)
Places ==
    /\ at[0] \in LoopPlaces
    /\ \A n \in Starts : /\ at[n] \in TaskPlaces
                         /\ at[n] = "none" <=> asked < n
    /\ aborted \subseteq Came /\ revoked \subseteq Came /\ pending \in Came \cup {0}
    /\ latest = Cardinality(Numbered)
    /\ \A n \in Starts :
        at[n] \in {"none", "spawned", "cancel", "settle", "take", "stop", "number"}
            => gen[n] = 0

(* A start that never crossed another is alone.                            *)
Alone == \A n \in Alive \ crossed : \A m \in Alive : m = n

(* It stays in the table until it is cancelled or done.                    *)
Held == \A n \in Starts \ crossed : Running(n) /\ n \notin aborted => pending = n

(* While the loop is free it is stale only if it was cancelled.            *)
FreshWhenReady ==
    at[0] = "ready" => \A n \in Starts \ crossed : Running(n) /\ n \notin aborted => n \in Alive

(* If it was cancelled and may still register, the link loop waits for it, *)
(* or was cut off while it did.                                            *)
Watched ==
    \A n \in Alive \ crossed :
        n \in aborted =>
            \/ at[0] = "cut"
            \/ at[0] \in {"settle", "drain"} /\ victim[0] = n

(* An end empties the table before it takes the run, and nobody fills it   *)
(* while the link loop is inside.                                          *)
Emptied == at[0] \in {"settle", "drain", "take", "stop", "over"} => pending = 0

(* What the last completed end put behind it does not come up again.       *)
BehindIsOver == (revoked \ crossed) \cap Alive = {}

(* Between taking the run and returning no run of a lone start appears.    *)
TakenStaysOut == at[0] \in {"stop", "over"} => entry \in {0} \cup crossed

RunnerInv ==
    /\ TypeOK
    /\ Places
    /\ Alone
    /\ Held
    /\ FreshWhenReady
    /\ Watched
    /\ Emptied
    /\ BehindIsOver
    /\ TakenStaysOut
    /\ EndIsFinal

-----------------------------------------------------------------------------
(* Types and places.                                                       *)

(* The starts are numbered from one; the link loop is none of them.        *)
LEMMA Numbers ==
    /\ Cardinality(Starts) \in Nat
    /\ Starts \subseteq Nat /\ 0 \notin Starts
    /\ \A n \in Starts : n \in 1..Cardinality(Starts)
    /\ \A n \in 1..Cardinality(Starts) : n \in Starts
<1>1. IsFiniteSet(Starts) /\ Cardinality(Starts) \in Nat
  BY RunnerAssumption, FS_CardinalityType
<1>2. Starts = 1..Cardinality(Starts)
  BY RunnerAssumption
<1> QED
  BY <1>1, <1>2

(* Steps of the link loop.                                                 *)
LEMMA LoopTypes ==
    ASSUME TypeOK, Places, TakeStart \/ TakeEnd \/ CloseLink \/ Drained \/ RenewalDue
    PROVE  TypeOK' /\ Places'
<1> USE Numbers, RunnerAssumption DEF Processes
<1>1. CASE TakeStart
  <2>0. PICK m \in Starts : m = asked + 1
    BY <1>1 DEF TakeStart
  <2>1. /\ at[0] = "ready" /\ asked' = m /\ at' = [at EXCEPT ![m] = "spawned"]
        /\ pending' = m /\ crossed' \subseteq crossed \cup Starts
        /\ UNCHANGED <<ends, victim, aborted, gen, latest, ended, closed, entry,
                       crashed, crashes, said, revoked>>
    BY <1>1, <2>0 DEF TakeStart, Goes, Rising
  <2>2. at[m] = "none" /\ gen[m] = 0
    BY <2>0 DEF Places, TypeOK
  <2>3. TypeOK'
    BY <2>0, <2>1 DEF TypeOK, Awaiting, Over
  <2>4. Came' = Came \cup {m} /\ Numbered' = Numbered
    BY <2>1 DEF Came, TypeOK, Numbered
  <2>5. \A n \in Starts : /\ at'[n] \in TaskPlaces
                          /\ at'[n] = "none" <=> asked' < n
    BY <2>0, <2>1, <2>2 DEF Places, TypeOK, TaskPlaces
  <2>6. at'[0] = "ready"
    BY <2>1 DEF TypeOK
  <2> QED
    BY <2>1, <2>2, <2>3, <2>4, <2>5, <2>6 DEF Places, TypeOK, LoopPlaces
<1>2. CASE TakeEnd \/ CloseLink \/ Drained \/ RenewalDue
  <2>1. PICK w \in LoopPlaces : at' = [at EXCEPT ![0] = w]
    BY <1>2 DEF TakeEnd, CloseLink, Drained, RenewalDue, runnerVars, Goes, LoopPlaces
  <2>2. at'[0] \in LoopPlaces /\ \A n \in Starts : at'[n] = at[n]
    BY <2>1 DEF TypeOK
  <2>3. Came' = Came /\ Numbered' = Numbered
    BY <1>2, <2>2 DEF Came, Numbered, TakeEnd, CloseLink, Drained, RenewalDue, runnerVars
  <2>4. Came \subseteq Starts
    BY DEF Came
  <2>5. TypeOK'
    <3>1. at' \in [Processes -> Awaiting \cup Over \cup
                   {"none", "ready", "drain", "over", "cut", "cancel", "take", "number",
                    "check", "register"}]
      BY <2>1 DEF TypeOK, LoopPlaces, Awaiting
    <3>2. ended' \in 0..latest' /\ latest' = latest
      BY <1>2 DEF TakeEnd, CloseLink, Drained, RenewalDue, runnerVars, TypeOK
    <3>3. /\ victim' \in [Processes -> Starts \cup {0}] /\ aborted' \subseteq Starts
          /\ \A q \in Processes : victim'[q] # 0 => victim'[q] # q /\ victim'[q] \in aborted'
      <4>1. CASE TakeEnd
        BY <4>1 DEF TypeOK, TakeEnd
      <4>2. CASE CloseLink
        BY <4>2 DEF TypeOK, CloseLink
      <4>3. CASE Drained
        BY <4>3 DEF TypeOK, Drained
      <4>4. CASE RenewalDue
        BY <4>4 DEF TypeOK, RenewalDue, runnerVars
      <4> QED
        BY <1>2, <4>1, <4>2, <4>3, <4>4
    <3>4. /\ ends' \in 0..MaxEnds /\ closed' \in BOOLEAN /\ pending' \in Processes
          /\ UNCHANGED <<asked, gen, entry, crashed, crashes, said, revoked, crossed>>
      <4>1. CASE TakeEnd
        BY <4>1 DEF TypeOK, TakeEnd
      <4>2. CASE CloseLink
        BY <4>2 DEF TypeOK, CloseLink
      <4>3. CASE Drained
        BY <4>3 DEF TypeOK, Drained
      <4>4. CASE RenewalDue
        BY <4>4 DEF TypeOK, RenewalDue, runnerVars
      <4> QED
        BY <1>2, <4>1, <4>2, <4>3, <4>4
    <3> QED
      BY <3>1, <3>2, <3>3, <3>4 DEF TypeOK
  <2> QED
    BY <1>2, <2>2, <2>3, <2>4, <2>5, ZenonT(40) DEF Places, TakeEnd, CloseLink, Drained, RenewalDue, runnerVars
<1> QED
  BY <1>1, <1>2

(* Steps of `end`, for the link loop and for a start.                      *)
LEMMA EndTypes ==
    ASSUME TypeOK, Places, NEW p \in Processes, EndStep(p)
    PROVE  TypeOK' /\ Places'
<1> USE Numbers, RunnerAssumption DEF Processes
<1>1. PICK w \in {"ready", "over", "settle", "take", "stop", "number"} :
        /\ at' = [at EXCEPT ![p] = w]
        /\ p = 0 => w # "number"
        /\ p # 0 => w \notin {"ready", "over"}
  BY DEF EndStep, CancelPending, Settled, TakeSession, RunStopped, Goes, Returned
<1>2. /\ at[p] \in {"cancel", "settle", "take", "stop"}
      /\ UNCHANGED <<asked, ends, gen, latest, ended, closed, crashes, said, crossed>>
  BY DEF EndStep, CancelPending, Settled, TakeSession, RunStopped, runnerVars
<1>3. /\ revoked' \subseteq revoked \cup Came
      /\ aborted' \subseteq aborted \cup ({pending} \ {0})
      /\ pending' \in {pending, 0}
      /\ entry' \in {entry, 0} /\ (crashed' => crashed /\ entry' = entry)
      /\ crashed' \in {crashed, FALSE}
  <2>1. CASE CancelPending(p)
    BY <2>1 DEF CancelPending
  <2>2. CASE Settled(p)
    BY <2>2 DEF Settled, runnerVars
  <2>3. CASE TakeSession(p)
    BY <2>3 DEF TakeSession, Revoking, Came
  <2>4. CASE RunStopped(p)
    BY <2>4 DEF RunStopped, runnerVars, Revoking, Came
  <2> QED
    BY <2>1, <2>2, <2>3, <2>4 DEF EndStep
<1>4. /\ victim' \in [Processes -> Starts \cup {0}]
      /\ \A q \in Processes : victim'[q] # 0 => victim'[q] # q /\ victim'[q] \in aborted'
  <2>1. CASE CancelPending(p)
    <3>1. CASE pending \in {0, p}
      BY <2>1, <3>1 DEF CancelPending, TypeOK
    <3>2. CASE pending \notin {0, p}
      <4>1. /\ pending \in Starts /\ pending # p
            /\ victim' = [victim EXCEPT ![p] = pending] /\ aborted' = aborted \cup {pending}
        BY <2>1, <3>2 DEF CancelPending, TypeOK
      <4>2. /\ victim \in [Processes -> Starts \cup {0}]
            /\ \A q \in Processes : victim[q] # 0 => victim[q] # q /\ victim[q] \in aborted
        BY DEF TypeOK
      <4> QED
        BY <4>1, <4>2
    <3> QED
      BY <3>1, <3>2
  <2>2. CASE Settled(p)
    BY <2>2 DEF Settled, TypeOK
  <2>3. CASE TakeSession(p) \/ RunStopped(p)
    BY <2>3 DEF TakeSession, RunStopped, TypeOK
  <2> QED
    BY <2>1, <2>2, <2>3 DEF EndStep
<1>5. at' \in [Processes -> Awaiting \cup Over \cup
               {"none", "ready", "drain", "over", "cut", "cancel", "take", "number",
                "check", "register"}]
  BY <1>1 DEF TypeOK, Awaiting
<1>6. Came' = Came /\ Numbered' = Numbered /\ Came \subseteq Starts
  BY <1>1, <1>2 DEF Came, Numbered, TypeOK
<1>7. TypeOK'
  <2>1. pending \in Came \cup {0}
    BY DEF Places
  <2> QED
    BY <1>2, <1>3, <1>4, <1>5, <1>6, <2>1 DEF TypeOK
<1>8. /\ at'[0] \in LoopPlaces
      /\ \A n \in Starts : /\ at'[n] \in TaskPlaces
                           /\ at'[n] = "none" <=> asked' < n
  BY <1>1, <1>2 DEF Places, TypeOK, LoopPlaces, TaskPlaces
<1>9. \A n \in Starts :
        at'[n] \in {"none", "spawned", "cancel", "settle", "take", "stop", "number"}
            => gen'[n] = 0
  BY <1>1, <1>2 DEF Places, TypeOK
<1> QED
  BY <1>2, <1>3, <1>6, <1>7, <1>8, <1>9 DEF Places

(* Verdicts are about starts.                                              *)
LEMMA SaidType ==
    ASSUME TypeOK, NEW n \in Starts, NEW ready \in BOOLEAN, Says(n, ready)
    PROVE  said' \in Seq([start : Starts, ready : BOOLEAN])
<1>1. [start |-> n, ready |-> ready] \in [start : Starts, ready : BOOLEAN]
  OBVIOUS
<1> QED
  BY <1>1 DEF Says, TypeOK

(* Steps of a start's own.                                                 *)
LEMMA StartTypes ==
    ASSUME TypeOK, Places, NEW n \in Starts, StartStep(n)
    PROVE  TypeOK' /\ Places'
<1> USE Numbers, RunnerAssumption DEF Processes
<1>1. PICK w \in {"cancel", "preroll", "check", "register", "discard", "answer", "done",
                  "dropped"} :
        /\ at' = [at EXCEPT ![n] = w]
        /\ w = "cancel" => at[n] = "spawned"
  BY DEF StartStep, Undecodable, BeginStart, TakeGeneration, Prerolled, PrerollFailed,
         CheckStale, RegisterSession, SendReady, Discarded, Drop, Goes
<1>2. /\ at[n] # "none"
      /\ UNCHANGED <<asked, ends, victim, aborted, closed, crashes, revoked, crossed>>
  BY DEF StartStep, Undecodable, BeginStart, TakeGeneration, Prerolled, PrerollFailed,
         CheckStale, RegisterSession, SendReady, Discarded, Drop, runnerVars, Awaiting
<1>3. said' \in Seq([start : Starts, ready : BOOLEAN])
  <2>1. CASE Undecodable(n) \/ PrerollFailed(n) \/ SendReady(n)
    BY <2>1, SaidType DEF Undecodable, PrerollFailed, SendReady
  <2>2. CASE ~(Undecodable(n) \/ PrerollFailed(n) \/ SendReady(n))
    <3>1. said' = said
      BY <2>2 DEF StartStep, BeginStart, TakeGeneration, Prerolled, CheckStale,
                  RegisterSession, Discarded, Drop
    <3> QED
      BY <3>1 DEF TypeOK
  <2> QED
    BY <2>1, <2>2
<1>4. /\ pending' \in {pending, 0}
      /\ \/ UNCHANGED <<entry, crashed>>
         \/ entry' = n /\ crashed' = FALSE
  BY DEF StartStep, Undecodable, BeginStart, TakeGeneration, Prerolled, PrerollFailed,
         CheckStale, RegisterSession, SendReady, Discarded, Drop, runnerVars, Forget
<1>5. at' \in [Processes -> Awaiting \cup Over \cup
               {"none", "ready", "drain", "over", "cut", "cancel", "take", "number",
                "check", "register"}]
  BY <1>1 DEF TypeOK, Awaiting, Over
<1>6. Came' = Came /\ Came \subseteq Starts
  BY <1>1, <1>2 DEF Came, TypeOK
<1>7. /\ gen' \in [Starts -> 0..Cardinality(Starts)]
      /\ latest' \in 0..Cardinality(Starts) /\ ended' \in 0..latest'
      /\ latest' = Cardinality(Numbered')
      /\ \A m \in Starts : m # n => gen'[m] = gen[m]
  <2>1. CASE TakeGeneration(n)
    <3>1. /\ gen[n] = 0 /\ latest' = latest + 1 /\ ended' = ended
          /\ gen' = [gen EXCEPT ![n] = latest + 1]
      BY <2>1 DEF TakeGeneration, Places
    <3>2. latest \in Nat /\ ended \in 0..latest /\ latest = Cardinality(Numbered)
      BY DEF TypeOK, Places
    <3>3. n \notin Numbered /\ Numbered \subseteq Starts
      BY <3>1 DEF Numbered
    <3>4. Numbered' = Numbered \cup {n}
      <4>1. gen'[n] # 0 /\ \A m \in Starts : m # n => gen'[m] = gen[m]
        BY <3>1, <3>2 DEF TypeOK
      <4> QED
        BY <4>1 DEF Numbered
    <3>5. Cardinality(Numbered \cup {n}) = latest + 1
      BY <3>2, <3>3, FS_Subset, FS_AddElement
    <3>6. latest + 1 <= Cardinality(Starts)
      BY <3>3, <3>5, FS_Subset
    <3> QED
      BY <3>1, <3>2, <3>4, <3>5, <3>6, SMTT(30) DEF TypeOK
  <2>2. CASE ~TakeGeneration(n)
    <3>1. /\ gen' = gen /\ latest' = latest /\ ended' \in {ended, latest}
      BY <2>2 DEF StartStep, Undecodable, BeginStart, Prerolled, PrerollFailed,
                  CheckStale, RegisterSession, SendReady, Discarded, Drop, runnerVars
    <3>2. Numbered' = Numbered
      BY <3>1 DEF Numbered
    <3> QED
      BY <3>1, <3>2 DEF TypeOK, Places
  <2> QED
    BY <2>1, <2>2
<1>8. TypeOK'
  <2>1. /\ pending' \in Processes /\ entry' \in Processes
        /\ crashed' \in BOOLEAN /\ (crashed' => entry' # 0)
    <3>1. CASE UNCHANGED <<entry, crashed>>
      BY <1>4, <3>1 DEF TypeOK
    <3>2. CASE entry' = n /\ crashed' = FALSE
      BY <1>4, <3>2 DEF TypeOK
    <3> QED
      BY <1>4, <3>1, <3>2
  <2> QED
    BY <1>2, <1>3, <1>5, <1>7, <2>1 DEF TypeOK
<1>9. /\ at'[0] \in LoopPlaces
      /\ \A m \in Starts : /\ at'[m] \in TaskPlaces
                           /\ at'[m] = "none" <=> asked' < m
  BY <1>1, <1>2 DEF Places, TypeOK, TaskPlaces
<1>10. \A m \in Starts :
        at'[m] \in {"none", "spawned", "cancel", "settle", "take", "stop", "number"}
            => gen'[m] = 0
  <2>1. gen'[n] = 0 \/ at'[n] # "cancel"
    <3>1. CASE BeginStart(n)
      BY <3>1 DEF BeginStart, Places
    <3>2. CASE ~BeginStart(n)
      BY <3>2 DEF StartStep, Undecodable, TakeGeneration, Prerolled, PrerollFailed,
                  CheckStale, RegisterSession, SendReady, Discarded, Drop, Goes, TypeOK
    <3> QED
      BY <3>1, <3>2
  <2> QED
    BY <1>1, <1>7, <2>1 DEF Places, TypeOK
<1> QED
  BY <1>2, <1>4, <1>6, <1>7, <1>8, <1>9, <1>10 DEF Places

(* The death of a worker, and of the runner.                               *)
LEMMA DeathTypes ==
    ASSUME TypeOK, Places, WorkerDies \/ TellDeath \/ DropRunner
    PROVE  TypeOK' /\ Places'
<1> USE Numbers, RunnerAssumption DEF Processes
<1>1. CASE WorkerDies
  BY <1>1, SMTT(30) DEF TypeOK, Places, WorkerDies, Came, Numbered
<1>2. CASE TellDeath
  <2>1. entry \in Starts
    BY <1>2 DEF TellDeath, TypeOK
  <2>2. said' \in Seq([start : Starts, ready : BOOLEAN])
    BY <1>2, <2>1, SaidType DEF TellDeath
  <2> QED
    BY <1>2, <2>2 DEF TypeOK, Places, TellDeath, Came, Numbered
<1>3. CASE DropRunner
  <2>1. /\ entry' = 0 /\ crashed' = FALSE
        /\ UNCHANGED <<asked, ends, at, victim, aborted, gen, latest, ended, closed, pending,
                       crashes, said, revoked, crossed>>
    BY <1>3 DEF DropRunner
  <2>2. TypeOK'
    BY <2>1 DEF TypeOK
  <2>3. Places'
    BY <2>1 DEF Places, Came, Numbered
  <2> QED
    BY <2>2, <2>3
<1> QED
  BY <1>1, <1>2, <1>3

-----------------------------------------------------------------------------
(* Who is alive after a step.                                              *)

(* Whoever did not move rises only if it rose before; just as before, if   *)
(* nothing was ended and nobody cancelled it.                              *)
LEMMA OthersRise ==
    ASSUME TypeOK, NEW m \in Starts, at'[m] = at[m], gen'[m] = gen[m],
           ended' \in Nat, ended <= ended', aborted \subseteq aborted'
    PROVE  /\ m \in Rising' => m \in Rising
           /\ ended' = ended /\ (m \in aborted' => m \in aborted)
                => (m \in Rising' <=> m \in Rising)
<1>1. gen[m] \in Int /\ ended \in Int
  BY Numbers DEF TypeOK
<1>2. May(m)' => May(m)
  BY DEF May
<1>3. (m \in aborted' => m \in aborted) => (May(m)' <=> May(m))
  BY DEF May
<1> QED
  BY <1>1, <1>2, <1>3 DEF Rising

(* A start is taken: it rises beside whoever did.                          *)
LEMMA Starting ==
    ASSUME TypeOK, Places, TakeStart
    PROVE  \E m \in Starts :
            /\ m = asked + 1 /\ at[m] = "none" /\ at'[m] = "spawned" /\ pending' = m
            /\ \A n \in Starts : n # m => at'[n] = at[n]
            /\ m \notin aborted /\ m \notin revoked
            /\ Rising' = Rising \cup {m} /\ Answering' = Answering
            /\ InHand' = InHand \cup {m} /\ m \notin InHand
            /\ crossed' = crossed \cup (IF Alive = {} THEN {} ELSE Alive \cup {m})
<1> USE Numbers DEF Processes
<1>0. PICK m \in Starts : m = asked + 1
  BY DEF TakeStart
<1>1. /\ at[m] = "none" /\ at' = [at EXCEPT ![m] = "spawned"] /\ pending' = m
      /\ UNCHANGED <<gen, ended, aborted, revoked>>
  BY <1>0 DEF TakeStart, Goes, Places, TypeOK
<1>2. at'[m] = "spawned" /\ \A n \in Starts : n # m => at'[n] = at[n]
  BY <1>1 DEF TypeOK
<1>3. m \notin aborted /\ m \notin revoked
  BY <1>1 DEF Places, Came
<1>4. Rising' = Rising \cup {m}
  <2>1. \A n \in Starts : n # m => (n \in Rising' <=> n \in Rising)
    BY <1>1, <1>2, OthersRise, SMTT(30) DEF TypeOK
  <2>2. m \in Rising'
    BY <1>1, <1>2, <1>3 DEF Rising
  <2>3. Rising \subseteq Starts /\ Rising' \subseteq Starts
    BY DEF Rising
  <2> QED
    BY <2>1, <2>2, <2>3
<1>5. Answering' = Answering
  BY <1>1, <1>2 DEF Answering
<1>6. InHand' = InHand \cup {m} /\ m \notin InHand
  BY <1>1, <1>2 DEF InHand, Running, Over
<1>7. crossed' = crossed \cup (IF Alive = {} THEN {} ELSE Alive \cup {m})
  BY <1>0 DEF TakeStart, Alive, Answering
<1> QED
  BY <1>0, <1>1, <1>2, <1>3, <1>4, <1>5, <1>6, <1>7

(* An end is asked for, the link closes, a start begins or somebody is     *)
(* cancelled: some starts may stop rising.                                 *)
LEMMA Fading ==
    ASSUME TypeOK, Places,
           \/ TakeEnd \/ CloseLink \/ Drained
           \/ \E n \in Starts : BeginStart(n)
           \/ \E p \in Processes : CancelPending(p)
    PROVE  /\ Rising' \subseteq Rising /\ Answering' = Answering /\ InHand' = InHand
           /\ UNCHANGED <<entry, crossed, revoked, said>>
<1> USE Numbers DEF Processes
<1>1. CASE TakeEnd \/ CloseLink \/ Drained
  <2>1. \A m \in Starts : at'[m] = at[m]
    BY <1>1 DEF TakeEnd, CloseLink, Drained, Goes, TypeOK
  <2>2. gen' = gen /\ ended' \in Nat /\ ended <= ended' /\ aborted \subseteq aborted'
    BY <1>1 DEF TakeEnd, CloseLink, Drained, TypeOK
  <2>3. Rising' \subseteq Rising
    BY <2>1, <2>2, OthersRise DEF Rising
  <2> QED
    BY <1>1, <2>1, <2>3
       DEF Answering, InHand, Running, TakeEnd, CloseLink, Drained
<1>2. ASSUME NEW n \in Starts, BeginStart(n)
      PROVE  /\ Rising' \subseteq Rising /\ Answering' = Answering /\ InHand' = InHand
             /\ UNCHANGED <<entry, crossed, revoked, said>>
  <2>1. /\ at[n] = "spawned" /\ at'[n] = "cancel" /\ n \in Rising
        /\ \A m \in Starts : m # n => at'[m] = at[m]
    BY <1>2 DEF BeginStart, Goes, TypeOK, Rising, May, Awaiting
  <2>2. gen' = gen /\ ended' \in Nat /\ ended <= ended' /\ aborted' = aborted
    BY <1>2 DEF BeginStart, TypeOK
  <2>3. \A m \in Starts : m # n => (m \in Rising' => m \in Rising)
    BY <2>1, <2>2, OthersRise
  <2>4. Rising' \subseteq Rising
    BY <2>1, <2>3 DEF Rising
  <2> QED
    BY <1>2, <2>1, <2>4 DEF BeginStart, Answering, InHand, Running, Over
<1>3. ASSUME NEW p \in Processes, CancelPending(p)
      PROVE  /\ Rising' \subseteq Rising /\ Answering' = Answering /\ InHand' = InHand
             /\ UNCHANGED <<entry, crossed, revoked, said>>
  <2>1. /\ at[p] = "cancel" /\ at'[p] \in {"take", "settle"}
        /\ \A m \in Starts : m # p => at'[m] = at[m]
    BY <1>3 DEF CancelPending, Goes, TypeOK
  <2>2. gen' = gen /\ ended' = ended /\ aborted \subseteq aborted'
    BY <1>3 DEF CancelPending
  <2>3. \A m \in Starts : m # p => (m \in Rising' => m \in Rising)
    BY <2>1, <2>2, OthersRise, SMTT(30) DEF TypeOK
  <2>4. p \in Starts => p \in Rising
    BY <2>1 DEF Rising
  <2>5. Rising' \subseteq Rising
    BY <2>3, <2>4 DEF Rising
  <2> QED
    BY <1>3, <2>1, <2>5 DEF CancelPending, Answering, InHand, Running, Over
<1> QED
  BY <1>1, <1>2, <1>3

(* The steps of `end` after the cancellation, those of a start between its *)
(* generation and its registration, the cut, and the death of a worker or  *)
(* of the runner change nobody's prospects.                                *)
LEMMA Steady ==
    ASSUME TypeOK, Places,
           \/ \E p \in Processes : Settled(p) \/ TakeSession(p) \/ RunStopped(p)
           \/ \E n \in Starts : TakeGeneration(n) \/ Prerolled(n) \/ CheckStale(n)
           \/ RenewalDue \/ DropRunner \/ WorkerDies \/ TellDeath \/ UNCHANGED vars
    PROVE  Rising' = Rising /\ Answering' = Answering /\ InHand' = InHand
           /\ crossed' = crossed
<1> USE Numbers DEF Processes
<1>0. Rising \subseteq Starts /\ Rising' \subseteq Starts
  BY DEF Rising
<1>1. ASSUME NEW p \in Processes, Settled(p) \/ TakeSession(p) \/ RunStopped(p)
      PROVE  Rising' = Rising /\ Answering' = Answering /\ InHand' = InHand
             /\ crossed' = crossed
  <2>1. /\ p # 0 => /\ at[p] \in {"settle", "take", "stop"}
                    /\ at'[p] \in {"take", "stop", "number"}
                    /\ at[p] \in {"settle", "stop"} => p \notin aborted
        /\ \A m \in Starts : m # p => at'[m] = at[m]
    BY <1>1 DEF Settled, TakeSession, RunStopped, Goes, Returned, TypeOK, May, Awaiting
  <2>2. UNCHANGED <<gen, ended, aborted, crossed>>
    BY <1>1 DEF Settled, TakeSession, RunStopped, runnerVars
  <2>3. \A m \in Starts : m # p => (m \in Rising' <=> m \in Rising)
    BY <2>1, <2>2, OthersRise DEF TypeOK
  <2>4. p \in Starts => (p \in Rising' <=> p \in Rising)
    BY <2>1, <2>2 DEF Rising
  <2>5. Rising' \subseteq Rising /\ Rising \subseteq Rising'
    BY <1>0, <2>3, <2>4
  <2>6. Rising' = Rising
    BY <2>5, Zenon
  <2>7. Answering' = Answering /\ InHand' = InHand
    BY <2>1 DEF Answering, InHand, Running, Over
  <2> QED
    BY <2>2, <2>6, <2>7
<1>2. ASSUME NEW n \in Starts, TakeGeneration(n) \/ Prerolled(n) \/ CheckStale(n)
      PROVE  Rising' = Rising /\ Answering' = Answering /\ InHand' = InHand
             /\ crossed' = crossed
  <2>1. /\ \A m \in Starts : m # n => at'[m] = at[m] /\ gen'[m] = gen[m]
        /\ at[n] \in {"number", "preroll", "check"}
        /\ at'[n] \in {"preroll", "check", "discard", "register"}
    BY <1>2, SMTT(30) DEF TakeGeneration, Prerolled, CheckStale, Goes, TypeOK
  <2>2. UNCHANGED <<ended, aborted, crossed>>
    BY <1>2 DEF TakeGeneration, Prerolled, CheckStale, runnerVars
  <2>3. \A m \in Starts : m # n => (m \in Rising' <=> m \in Rising)
    BY <2>1, <2>2, OthersRise, SMTT(30) DEF TypeOK
  <2>4. Answering' = Answering /\ InHand' = InHand
    BY <2>1 DEF Answering, InHand, Running, Over
  <2>5. gen[n] \in Int /\ ended \in Int /\ latest \in Int /\ ended <= latest
    BY DEF TypeOK
  <2>6. CASE TakeGeneration(n)
    <3>1. at[n] = "number" /\ at'[n] = "preroll" /\ gen'[n] = latest + 1
      BY <2>6 DEF TakeGeneration, Goes, TypeOK
    <3>2. ended' < gen'[n]
      BY <2>5, <2>2, <3>1
    <3>3. May(n)' <=> n \notin aborted
      BY <2>2, <3>1 DEF May, Awaiting
    <3>4. n \in Rising' <=> n \in Rising
      BY <3>1, <3>2, <3>3 DEF Rising
    <3>5. Rising' \subseteq Rising /\ Rising \subseteq Rising'
      BY <1>0, <2>3, <3>4
    <3>6. Rising' = Rising
      BY <3>5, Zenon
    <3> QED
      BY <2>2, <2>4, <3>6
  <2>7. CASE Prerolled(n)
    <3>1. at[n] = "preroll" /\ at'[n] = "check" /\ gen'[n] = gen[n] /\ May(n)
      BY <2>7 DEF Prerolled, Goes, TypeOK
    <3>2. May(n)'
      BY <3>1 DEF May, Awaiting
    <3>3. n \in Rising' <=> n \in Rising
      BY <2>2, <3>1, <3>2 DEF Rising
    <3>4. Rising' \subseteq Rising /\ Rising \subseteq Rising'
      BY <1>0, <2>3, <3>3
    <3>5. Rising' = Rising
      BY <3>4, Zenon
    <3> QED
      BY <2>2, <2>4, <3>5
  <2>8. CASE CheckStale(n)
    <3>1. /\ at[n] = "check" /\ gen'[n] = gen[n]
          /\ at'[n] = IF ended >= gen[n] THEN "discard" ELSE "register"
      BY <2>8 DEF CheckStale, Goes, TypeOK
    <3>2. May(n)
      BY <3>1 DEF May, Awaiting
    <3>3. n \in Rising' <=> n \in Rising
      BY <2>5, <3>1, <3>2 DEF Rising
    <3>4. Rising' \subseteq Rising /\ Rising \subseteq Rising'
      BY <1>0, <2>3, <3>3
    <3>5. Rising' = Rising
      BY <3>4, Zenon
    <3> QED
      BY <2>2, <2>4, <3>5
  <2> QED
    BY <1>2, <2>6, <2>7, <2>8
<1>3. CASE DropRunner \/ WorkerDies \/ TellDeath \/ UNCHANGED vars
  <2>1. UNCHANGED <<at, gen, ended, aborted, crossed>>
    BY <1>3 DEF DropRunner, WorkerDies, TellDeath, vars, runnerVars
  <2> QED
    BY <2>1 DEF Rising, Answering, InHand, Running, May
<1>4. CASE RenewalDue
  <2>1. (\A m \in Starts : at'[m] = at[m]) /\ UNCHANGED <<gen, ended, aborted, crossed>>
    BY <1>4 DEF RenewalDue, runnerVars, Goes, TypeOK
  <2>2. Answering' = Answering /\ InHand' = InHand
    BY <2>1 DEF Answering, InHand, Running
  <2>3. \A m \in Starts : m \in Rising' <=> m \in Rising
    BY <2>1, OthersRise, SMTT(30) DEF TypeOK
  <2>4. Rising' \subseteq Rising /\ Rising \subseteq Rising'
    BY <1>0, <2>3
  <2>5. Rising' = Rising
    BY <2>4, Zenon
  <2> QED
    BY <2>1, <2>2, <2>5
<1> QED
  BY <1>1, <1>2, <1>3, <1>4

(* A start leaves: it failed, said that it is up, went quietly or was      *)
(* dropped.                                                                *)
LEMMA Leaving ==
    ASSUME TypeOK, Places, NEW n \in Starts,
           \/ Undecodable(n) \/ PrerollFailed(n) \/ SendReady(n) \/ Discarded(n) \/ Drop(n)
    PROVE  /\ Rising' = Rising \ {n} /\ Answering' = Answering \ {n} /\ InHand' = InHand \ {n}
           /\ UNCHANGED <<entry, crossed, revoked>>
           /\ Undecodable(n) \/ PrerollFailed(n) => n \in InHand
           /\ SendReady(n) => n \in Answering
           /\ Discarded(n) \/ Drop(n) => n \notin Rising /\ n \in InHand \cup Answering
<1> USE Numbers DEF Processes
<1>1. /\ at'[n] \in Over /\ \A m \in Starts : m # n => at'[m] = at[m]
      /\ UNCHANGED <<gen, ended, aborted, entry, crossed, revoked>>
  BY DEF Undecodable, PrerollFailed, SendReady, Discarded, Drop, Goes, TypeOK, Over, runnerVars
<1>2. \A m \in Starts : m # n => (m \in Rising' <=> m \in Rising)
  BY <1>1, OthersRise, SMTT(30) DEF TypeOK
<1>3. Rising' = Rising \ {n}
  BY <1>1, <1>2 DEF Rising, Over
<1>4. Answering' = Answering \ {n} /\ InHand' = InHand \ {n}
  BY <1>1 DEF Answering, InHand, Running, Over
<1>5. Undecodable(n) \/ PrerollFailed(n) => n \in InHand
  BY DEF Undecodable, PrerollFailed, InHand, Running, Over
<1>6. SendReady(n) => n \in Answering
  BY DEF SendReady, Answering
<1>7. Discarded(n) \/ Drop(n) => n \notin Rising /\ n \in InHand \cup Answering
  BY DEF Discarded, Drop, Rising, InHand, Answering, Running, Over, Awaiting, May
<1> QED
  BY <1>1, <1>3, <1>4, <1>5, <1>6, <1>7

(* A start registers its run.                                              *)
LEMMA Registering ==
    ASSUME TypeOK, Places, NEW n \in Starts, RegisterSession(n)
    PROVE  /\ n \in Rising
           /\ Rising' = Rising \ {n} /\ Answering' = Answering \cup {n}
           /\ InHand' = InHand \ {n}
           /\ entry' = n /\ UNCHANGED <<crossed, revoked, said>>
<1> USE Numbers DEF Processes
<1>1. /\ at[n] = "register" /\ at'[n] = "answer" /\ \A m \in Starts : m # n => at'[m] = at[m]
      /\ UNCHANGED <<gen, ended, aborted, crossed, revoked, said>> /\ entry' = n
  BY DEF RegisterSession, Goes, TypeOK
<1>2. \A m \in Starts : m # n => (m \in Rising' <=> m \in Rising)
  BY <1>1, OthersRise, SMTT(30) DEF TypeOK
<1>3. n \in Rising /\ Rising' = Rising \ {n}
  BY <1>1, <1>2 DEF Rising
<1>4. Answering' = Answering \cup {n} /\ InHand' = InHand \ {n}
  BY <1>1 DEF Answering, InHand, Running, Over
<1> QED
  BY <1>1, <1>3, <1>4

-----------------------------------------------------------------------------
(* The invariant, step by step.                                            *)

(* What of the invariant is neither type nor place.                        *)
Promises ==
    Alone /\ Held /\ FreshWhenReady /\ Watched /\ Emptied /\ BehindIsOver /\ TakenStaysOut
    /\ EndIsFinal

(* Whoever is alive runs.                                                  *)
LEMMA AliveRuns == \A n \in Alive : n \in Starts /\ Running(n)
BY DEF Alive, Rising, Answering, Running, Over

(* Once the loop has taken the run, or what it waited for is gone, only    *)
(* starts that crossed another are alive.                                  *)
LEMMA OnlyCrossedLive ==
    ASSUME RunnerInv,
           \/ at[0] \in {"take", "stop", "over"}
           \/ at[0] \in {"settle", "drain"} /\ Gone(victim[0])
    PROVE  Alive \subseteq crossed /\ pending = 0
<1>1. pending = 0
  BY DEF RunnerInv, Emptied
<1>2. ASSUME NEW n \in Alive \ crossed PROVE FALSE
  <2>1. n \in Starts /\ Running(n) /\ n # 0
    BY AliveRuns, Numbers
  <2>2. n \in aborted
    BY <1>1, <2>1 DEF RunnerInv, Held
  <2>3. at[0] \in {"settle", "drain"} /\ victim[0] = n
    BY <2>2 DEF RunnerInv, Watched
  <2>4. at[n] \in Over \cup {"preroll"}
    BY <2>1, <2>3 DEF Gone
  <2>5. n \notin Alive
    BY <2>2, <2>4 DEF Alive, Rising, Answering, May, Awaiting, Over
  <2> QED
    BY <2>5
<1> QED
  BY <1>1, <1>2

(* The promises survive a step that brings nobody to life, keeps the place *)
(* of a start until it is cancelled or done, waits for whom it cancels,    *)
(* and revokes only when no lone start is alive.                           *)
LEMMA PromisesKept ==
    ASSUME RunnerInv, TypeOK',
           Alive' \subseteq Alive, crossed' = crossed, aborted \subseteq aborted',
           \A n \in Starts : Running(n)' => Running(n),
           \A n \in Starts \ crossed :
                Running(n)' /\ n \notin aborted' /\ pending = n => pending' = n,
           at'[0] = "ready" =>
                \/ pending' = 0
                \/ /\ at[0] = "ready"
                   /\ \A n \in Alive \ crossed :
                        Running(n)' /\ n \notin aborted' => n \in Alive',
           \A n \in Alive' \ crossed : n \in aborted' =>
                \/ n \in aborted /\ at'[0] = at[0] /\ victim'[0] = victim[0]
                \/ at'[0] \in {"settle", "drain"} /\ victim'[0] = n
                \/ at'[0] = "cut",
           at'[0] \in {"settle", "drain", "take", "stop", "over"} => pending' = 0,
           revoked' = revoked \/ Alive \subseteq crossed,
           at'[0] \in {"stop", "over"} => entry' \in {0} \cup crossed,
           entry' \notin revoked' \ crossed
    PROVE  Promises'
<1>0. Promises
  BY DEF RunnerInv, Promises
<1>1. Alone'
  BY <1>0 DEF Promises, Alone
<1>2. Held'
  BY <1>0 DEF Promises, Held
<1>3. FreshWhenReady'
  <2>1. \A n \in Starts : n # 0
    BY Numbers
  <2> QED
    BY <1>0, <1>2, <2>1 DEF Promises, FreshWhenReady, Held
<1>4. Watched'
  <2> SUFFICES ASSUME NEW n \in Alive' \ crossed, n \in aborted'
               PROVE  at'[0] = "cut" \/ (at'[0] \in {"settle", "drain"} /\ victim'[0] = n)
    BY DEF Watched
  <2>1. CASE n \in aborted /\ at'[0] = at[0] /\ victim'[0] = victim[0]
    BY <1>0, <2>1 DEF Promises, Watched
  <2> QED
    BY <2>1
<1>5. BehindIsOver'
  BY <1>0 DEF Promises, BehindIsOver
<1> QED
  BY <1>1, <1>2, <1>3, <1>4, <1>5 DEF Promises, Emptied, TakenStaysOut, EndIsFinal

(* A start is taken: it is alone, or it crosses.                           *)
LEMMA StartPromises ==
    ASSUME RunnerInv, TakeStart
    PROVE  Promises'
<1> USE Numbers
<1>0. TypeOK /\ Places /\ Promises
  BY DEF RunnerInv, Promises
<1>1. PICK m \in Starts :
        /\ m = asked + 1 /\ at[m] = "none" /\ at'[m] = "spawned" /\ pending' = m
        /\ \A n \in Starts : n # m => at'[n] = at[n]
        /\ m \notin aborted /\ m \notin revoked
        /\ Rising' = Rising \cup {m} /\ Answering' = Answering
        /\ crossed' = crossed \cup (IF Alive = {} THEN {} ELSE Alive \cup {m})
  BY <1>0, Starting
<1>2. /\ at[0] = "ready" /\ at'[0] = "ready"
      /\ UNCHANGED <<victim, aborted, entry, revoked>>
  BY <1>0, <1>1 DEF TakeStart, Goes, TypeOK, Processes
<1>3. Alive' = Alive \cup {m} /\ m \notin Alive
  BY <1>1 DEF Alive, Rising, Answering
<1>4. \A n \in Starts : n # m => (Running(n)' <=> Running(n))
  BY <1>1 DEF Running
<1>5. ASSUME NEW n \in Starts \ crossed', n # m, Running(n), n \notin aborted
      PROVE  FALSE
  <2>1. n \in Alive
    BY <1>0, <1>1, <1>2, <1>5 DEF Promises, FreshWhenReady
  <2> QED
    BY <1>1, <1>5, <2>1
<1>6. Alone'
  <2> SUFFICES ASSUME NEW n \in Alive' \ crossed', NEW k \in Alive' PROVE k = n
    BY DEF Alone
  <2>1. Alive = {}
    BY <1>1, <1>3
  <2> QED
    BY <1>3, <2>1
<1>7. Held' /\ FreshWhenReady'
  BY <1>1, <1>2, <1>3, <1>4, <1>5 DEF Held, FreshWhenReady
<1>8. Watched'
  <2> SUFFICES ASSUME NEW n \in Alive' \ crossed', n \in aborted' PROVE FALSE
    BY DEF Watched
  <2>1. n \in Alive \ crossed /\ n \in aborted
    BY <1>1, <1>2, <1>3
  <2> QED
    BY <1>0, <1>2, <2>1 DEF Promises, Watched
<1>9. BehindIsOver'
  BY <1>0, <1>1, <1>2, <1>3 DEF Promises, BehindIsOver
<1> QED
  BY <1>0, <1>1, <1>2, <1>6, <1>7, <1>8, <1>9 DEF Promises, Emptied, TakenStaysOut, EndIsFinal

(* The link is cut: nobody is waited for, and nobody will be revoked.       *)
LEMMA CutPromises ==
    ASSUME RunnerInv, TypeOK', RenewalDue
    PROVE  Promises'
<1> USE Numbers
<1>0. TypeOK /\ Places /\ Promises
  BY DEF RunnerInv, Promises
<1>1. Alive' = Alive /\ crossed' = crossed
  BY <1>0, Steady DEF Alive
<1>2. at'[0] = "cut" /\ UNCHANGED <<aborted, pending, entry, revoked>>
  BY <1>0 DEF RenewalDue, Goes, TypeOK, Processes, runnerVars
<1>3. \A n \in Starts : Running(n)' => Running(n)
  BY <1>0 DEF RenewalDue, Goes, TypeOK, Running, Processes
<1>4. entry' \notin revoked' \ crossed
  BY <1>0, <1>2 DEF Promises, EndIsFinal
<1> QED
  BY <1>1, <1>2, <1>3, <1>4, PromisesKept

(* The link loop asks for an end, or closes the link.                      *)
LEMMA LoopPromises ==
    ASSUME RunnerInv, TypeOK', TakeEnd \/ CloseLink \/ Drained
    PROVE  Promises'
<1> USE Numbers
<1>0. TypeOK /\ Places /\ Promises
  BY DEF RunnerInv, Promises
<1>1. Alive' \subseteq Alive /\ UNCHANGED <<entry, crossed, revoked>>
  BY <1>0, Fading DEF Alive
<1>2. \A n \in Starts : Running(n)' => Running(n)
  BY <1>0 DEF TakeEnd, CloseLink, Drained, Goes, TypeOK, Running, Processes
<1>3. entry' \notin revoked' \ crossed
  BY <1>0, <1>1 DEF Promises, EndIsFinal
<1>4. CASE TakeEnd
  <2>1. at[0] = "ready" /\ at'[0] = "cancel" /\ UNCHANGED <<pending, aborted, victim>>
    BY <1>0, <1>4 DEF TakeEnd, Goes, TypeOK, Processes
  <2>2. \A n \in Alive \ crossed : n \notin aborted
    BY <1>0, <2>1 DEF Promises, Watched
  <2> QED
    BY <1>1, <1>2, <1>3, <2>1, <2>2, PromisesKept
<1>5. CASE CloseLink
  <2>1. /\ at[0] = "ready" /\ at'[0] = "drain" /\ pending' = 0
        /\ aborted' = aborted \cup ({pending} \ {0}) /\ victim'[0] = pending
    BY <1>0, <1>5 DEF CloseLink, Goes, TypeOK, Processes
  <2>2. \A n \in Alive \ crossed : n \notin aborted
    BY <1>0, <2>1 DEF Promises, Watched
  <2>3. \A n \in Starts : n # 0
    OBVIOUS
  <2> QED
    BY <1>1, <1>2, <1>3, <2>1, <2>2, <2>3, PromisesKept
<1>6. CASE Drained
  <2>1. /\ at[0] = "drain" /\ Gone(victim[0]) /\ UNCHANGED <<pending, aborted>>
        /\ at'[0] = IF entry = 0 THEN "over" ELSE "cancel"
    BY <1>0, <1>6 DEF Drained, Goes, TypeOK, Processes
  <2>2. Alive \subseteq crossed /\ pending = 0
    BY <2>1, OnlyCrossedLive
  <2> QED
    BY <1>1, <1>2, <1>3, <2>1, <2>2, PromisesKept
<1> QED
  BY <1>4, <1>5, <1>6

(* Somebody cancels the start in the table.                                *)
LEMMA CancelPromises ==
    ASSUME RunnerInv, TypeOK', NEW p \in Processes, CancelPending(p)
    PROVE  Promises'
<1> USE Numbers
<1>0. TypeOK /\ Places /\ Promises
  BY DEF RunnerInv, Promises
<1>1. Alive' \subseteq Alive /\ UNCHANGED <<entry, crossed, revoked>>
  BY <1>0, Fading DEF Alive
<1>2. /\ at[p] = "cancel" /\ at'[p] \in {"take", "settle"}
      /\ \A q \in Processes : q # p => at'[q] = at[q]
      /\ UNCHANGED <<gen, ended>>
  BY <1>0 DEF CancelPending, Goes, TypeOK
<1>3. \/ /\ pending \in {0, p} /\ at'[p] = "take" /\ UNCHANGED <<pending, aborted, victim>>
      \/ /\ pending \notin {0, p} /\ at'[p] = "settle" /\ pending' = 0
         /\ aborted' = aborted \cup {pending} /\ victim' = [victim EXCEPT ![p] = pending]
  BY <1>0 DEF CancelPending, Goes, TypeOK
<1>4. \A n \in Starts : Running(n)' => Running(n)
  BY <1>2 DEF Running, Over, Processes
<1>5. entry' \notin revoked' \ crossed
  BY <1>0, <1>1 DEF Promises, EndIsFinal
<1>6. \A n \in Starts : n # 0 /\ n \in Processes
  BY DEF Processes
<1>7. CASE p = 0
  <2>1. \A n \in Alive \ crossed : n \notin aborted
    BY <1>0, <1>2, <1>7 DEF Promises, Watched
  <2>2. pending' = 0 /\ at'[0] # "ready" /\ at'[0] \notin {"stop", "over"}
    BY <1>2, <1>3, <1>7
  <2>3. ASSUME NEW n \in Alive' \ crossed, n \in aborted'
        PROVE  at'[0] \in {"settle", "drain"} /\ victim'[0] = n
    BY <1>0, <1>1, <1>3, <1>7, <2>1, <2>3, SMTT(30) DEF TypeOK
  <2>4. ASSUME NEW n \in Starts \ crossed, n \notin aborted', pending = n PROVE FALSE
    BY <1>3, <1>6, <1>7, <2>4
  <2> QED
    BY <1>1, <1>3, <1>4, <1>5, <2>2, <2>3, <2>4, PromisesKept
<1>8. CASE p # 0
  <2>1. p \in Starts /\ p \in Alive /\ at'[0] = at[0] /\ victim'[0] = victim[0]
    BY <1>0, <1>2, <1>3, <1>8 DEF Processes, Alive, Rising, TypeOK
  <2>2. ASSUME NEW n \in Alive \ crossed, n \notin aborted' PROVE n \in Alive'
    <3>1. n = p
      BY <1>0, <2>1 DEF Promises, Alone
    <3> QED
      BY <1>2, <2>1, <2>2, <3>1 DEF Alive, Rising
  <2>3. ASSUME NEW n \in Alive' \ crossed, n \in aborted' PROVE n \in aborted
    <3>1. n = p
      BY <1>0, <1>1, <2>1 DEF Promises, Alone
    <3> QED
      BY <1>3, <2>3, <3>1
  <2>4. ASSUME NEW n \in Starts \ crossed, n \notin aborted', pending = n PROVE pending' = n
    BY <1>3, <1>6, <2>4
  <2>5. pending = 0 => pending' = 0
    BY <1>3
  <2> QED
    <3>1. at'[0] \in {"settle", "drain", "take", "stop", "over"} => pending' = 0
      BY <1>0, <2>1, <2>5 DEF Promises, Emptied
    <3>2. at'[0] \in {"stop", "over"} => entry' \in {0} \cup crossed
      BY <1>0, <1>1, <2>1 DEF Promises, TakenStaysOut
    <3>3. aborted \subseteq aborted'
      BY <1>3
    <3> QED
      BY <1>1, <1>4, <1>5, <2>1, <2>2, <2>3, <2>4, <3>1, <3>2, <3>3, PromisesKept
<1> QED
  BY <1>7, <1>8

(* The rest of `end`: it has waited, takes the run, and returns.           *)
LEMMA EndPromises ==
    ASSUME RunnerInv, TypeOK', NEW p \in Processes,
           Settled(p) \/ TakeSession(p) \/ RunStopped(p)
    PROVE  Promises'
<1> USE Numbers
<1>0. TypeOK /\ Places /\ Promises
  BY DEF RunnerInv, Promises
<1>1. Alive' = Alive /\ crossed' = crossed
  BY <1>0, Steady DEF Alive
<1>2. /\ \A q \in Processes : q # p => at'[q] = at[q]
      /\ UNCHANGED <<pending, aborted>>
      /\ entry' \in {entry, 0}
      /\ \A q \in Processes : q # p => victim'[q] = victim[q]
  BY <1>0 DEF Settled, TakeSession, RunStopped, runnerVars, Goes, TypeOK
<1>3. \A n \in Starts : Running(n)' => Running(n)
  BY <1>0 DEF Settled, TakeSession, RunStopped, Goes, Running, Over, TypeOK, Processes
<1>4. entry \notin revoked \ crossed /\ 0 \notin revoked /\ 0 \notin revoked'
  BY <1>0 DEF Promises, EndIsFinal, TypeOK
<1>5. CASE p = 0
  <2>1. Alive \subseteq crossed /\ pending = 0
    BY <1>5, OnlyCrossedLive DEF Settled, TakeSession, RunStopped
  <2>2. at'[0] \in {"stop", "over"} => entry' \in {0} \cup crossed
    <3>1. CASE Settled(0)
      BY <1>0, <3>1 DEF Settled, Goes, TypeOK, Processes
    <3>2. CASE TakeSession(0)
      BY <3>2 DEF TakeSession
    <3>3. CASE RunStopped(0)
      BY <1>0, <3>3 DEF RunStopped, runnerVars, Promises, TakenStaysOut
    <3> QED
      BY <1>5, <3>1, <3>2, <3>3
  <2>3. entry' \notin revoked' \ crossed
    <3>1. CASE Settled(0)
      BY <1>4, <3>1 DEF Settled, runnerVars
    <3>2. CASE TakeSession(0)
      BY <1>4, <3>2 DEF TakeSession
    <3>3. CASE RunStopped(0)
      BY <1>0, <1>4, <3>3 DEF RunStopped, runnerVars, Promises, TakenStaysOut
    <3> QED
      BY <1>5, <3>1, <3>2, <3>3
  <2> QED
    BY <1>1, <1>2, <1>3, <2>1, <2>2, <2>3, PromisesKept
<1>6. CASE p # 0
  <2>1. at'[0] = at[0] /\ victim'[0] = victim[0] /\ revoked' = revoked
    BY <1>2, <1>6 DEF Processes, Settled, TakeSession, RunStopped, Revoking
  <2>2. at'[0] \in {"settle", "drain", "take", "stop", "over"} => pending' = 0
    BY <1>0, <1>2, <2>1 DEF Promises, Emptied
  <2>3. at'[0] \in {"stop", "over"} => entry' \in {0} \cup crossed
    BY <1>0, <1>2, <2>1 DEF Promises, TakenStaysOut
  <2>4. entry' \notin revoked' \ crossed
    BY <1>2, <1>4, <2>1
  <2> QED
    BY <1>1, <1>2, <1>3, <2>1, <2>2, <2>3, <2>4, PromisesKept
<1> QED
  BY <1>5, <1>6

(* A start's own steps, and the death of a worker or of the runner.        *)
LEMMA TaskPromises ==
    ASSUME RunnerInv, TypeOK',
           \/ \E n \in Starts : StartStep(n)
           \/ DropRunner \/ WorkerDies \/ TellDeath \/ UNCHANGED vars
    PROVE  Promises'
<1> USE Numbers
<1>0. TypeOK /\ Places /\ Promises
  BY DEF RunnerInv, Promises
<1>1. /\ at'[0] = at[0] /\ UNCHANGED <<victim, aborted, crossed, revoked>>
  BY <1>0, ZenonT(40) DEF StartStep, Undecodable, BeginStart, TakeGeneration, Prerolled, PrerollFailed,
              CheckStale, RegisterSession, SendReady, Discarded, Drop, Goes, DropRunner, WorkerDies,
              TellDeath, vars, TypeOK, Processes
<1>2. /\ at[0] \in {"settle", "drain", "take", "stop", "over"} => pending = 0
      /\ at[0] \in {"stop", "over"} => entry \in {0} \cup crossed
      /\ entry \notin revoked \ crossed
  BY <1>0 DEF Promises, Emptied, TakenStaysOut, EndIsFinal
<1>3. CASE WorkerDies \/ TellDeath \/ UNCHANGED vars
  <2>1. Alive' = Alive
    BY <1>0, <1>3, Steady DEF Alive
  <2>2. UNCHANGED <<at, pending, entry>>
    BY <1>3 DEF WorkerDies, TellDeath, vars, runnerVars
  <2>3. \A n \in Starts : Running(n)' => Running(n)
    BY <2>2 DEF Running
  <2> QED
    BY <1>1, <1>2, <2>1, <2>2, <2>3, PromisesKept
<1>8. CASE DropRunner
  <2>1. Alive' = Alive
    BY <1>0, <1>8, Steady DEF Alive
  <2>2. UNCHANGED <<at, pending>> /\ entry' = 0 /\ 0 \notin revoked'
    BY <1>0, <1>1, <1>8 DEF DropRunner, TypeOK
  <2>3. \A n \in Starts : Running(n)' => Running(n)
    BY <2>2 DEF Running
  <2> QED
    BY <1>1, <1>2, <2>1, <2>2, <2>3, PromisesKept
<1>4. ASSUME NEW n \in Starts, BeginStart(n) PROVE Promises'
  <2>1. Alive' \subseteq Alive
    BY <1>0, <1>4, Fading DEF Alive
  <2>2. /\ at[n] = "spawned" /\ at'[n] = "cancel" /\ n \in Alive /\ n \in Alive'
        /\ \A m \in Starts : m # n => at'[m] = at[m]
        /\ UNCHANGED <<pending, entry>>
    BY <1>0, <1>4 DEF BeginStart, Goes, TypeOK, Processes, Alive, Rising, May, Awaiting
  <2>3. \A m \in Starts : Running(m)' => Running(m)
    BY <2>2 DEF Running, Over
  <2>4. \A m \in Alive \ crossed : m \in Alive'
    BY <1>0, <2>2 DEF Promises, Alone
  <2> QED
    BY <1>1, <1>2, <2>1, <2>2, <2>3, <2>4, PromisesKept
<1>5. ASSUME NEW n \in Starts, TakeGeneration(n) \/ Prerolled(n) \/ CheckStale(n)
      PROVE  Promises'
  <2>1. Alive' = Alive
    BY <1>0, <1>5, Steady DEF Alive
  <2>2. UNCHANGED <<pending, entry>>
    BY <1>5 DEF TakeGeneration, Prerolled, CheckStale, runnerVars
  <2>3. \A m \in Starts : Running(m)' => Running(m)
    BY <1>0, <1>5 DEF TakeGeneration, Prerolled, CheckStale, Goes, Running, Over, TypeOK, Processes
  <2> QED
    BY <1>1, <1>2, <2>1, <2>2, <2>3, PromisesKept
<1>6. ASSUME NEW n \in Starts,
             \/ Undecodable(n) \/ PrerollFailed(n) \/ SendReady(n) \/ Discarded(n) \/ Drop(n)
      PROVE  Promises'
  <2>1. Alive' = Alive \ {n} /\ entry' = entry
    BY <1>0, <1>6, Leaving DEF Alive
  <2>2. /\ at'[n] \in Over /\ \A m \in Starts : m # n => at'[m] = at[m]
        /\ pending' \in {pending, 0} /\ (pending # n => pending' = pending)
    BY <1>0, <1>6 DEF Undecodable, PrerollFailed, SendReady, Discarded, Drop, Goes, Forget,
                      runnerVars, Over, TypeOK, Processes
  <2>3. ~Running(n)' /\ \A m \in Starts : Running(m)' => Running(m)
    BY <2>2 DEF Running
  <2> QED
    BY <1>1, <1>2, <2>1, <2>2, <2>3, PromisesKept
<1>7. ASSUME NEW n \in Starts, RegisterSession(n) PROVE Promises'
  <2>1. Alive' = Alive /\ n \in Alive /\ entry' = n
    BY <1>0, <1>7, Registering DEF Alive
  <2>2. pending' = pending /\ \A m \in Starts : Running(m)' => Running(m)
    BY <1>0, <1>7 DEF RegisterSession, Goes, Running, Over, TypeOK, Processes
  <2>3. at'[0] \in {"stop", "over"} => entry' \in {0} \cup crossed
    BY <1>1, <2>1, OnlyCrossedLive
  <2>4. entry' \notin revoked' \ crossed
    BY <1>0, <1>1, <2>1 DEF Promises, BehindIsOver
  <2> QED
    BY <1>1, <1>2, <2>1, <2>2, <2>3, <2>4, PromisesKept
<1> QED
  BY <1>3, <1>4, <1>5, <1>6, <1>7, <1>8 DEF StartStep

-----------------------------------------------------------------------------
(* The theorems.                                                           *)

(* Whatever the order in which starts are spawned, cancelled, awaited,     *)
(* dropped and registered: RunnerInv is an invariant of the runner.        *)
THEOREM RunnerInvariant == Spec => []RunnerInv
<1>1. Init => RunnerInv
  <2> SUFFICES ASSUME Init PROVE RunnerInv
    OBVIOUS
  <2> USE Numbers, RunnerAssumption
  <2>1. at[0] = "ready" /\ \A n \in Starts : at[n] = "none"
    BY DEF Init, Processes
  <2>2. TypeOK
    BY DEF Init, TypeOK, Processes, Awaiting
  <2>3. Rising = {} /\ Alive = {} /\ Came = {} /\ Numbered = {}
    BY <2>1 DEF Rising, Alive, Answering, Came, Numbered, Init
  <2>4. Places
    BY <2>1, <2>3, FS_EmptySet DEF Places, Init, LoopPlaces, TaskPlaces
  <2>5. Alone /\ Watched /\ BehindIsOver
    BY <2>3 DEF Alone, Watched, BehindIsOver
  <2>6. Held /\ FreshWhenReady /\ Emptied /\ TakenStaysOut /\ EndIsFinal
    BY <2>1 DEF Held, FreshWhenReady, Running, Emptied, TakenStaysOut, EndIsFinal, Init
  <2> QED
    BY <2>2, <2>4, <2>5, <2>6 DEF RunnerInv
<1>2. RunnerInv /\ [Next]_vars => RunnerInv'
  <2> SUFFICES ASSUME RunnerInv, [Next]_vars PROVE RunnerInv'
    OBVIOUS
  <2>0. TypeOK /\ Places
    BY DEF RunnerInv
  <2>1. TypeOK' /\ Places'
    <3>1. CASE UNCHANGED vars
      BY <2>0, <3>1 DEF vars, runnerVars, TypeOK, Places, Came, Numbered
    <3> QED
      BY <2>0, <3>1, LoopTypes, EndTypes, StartTypes, DeathTypes DEF Next
  <2>2. Promises'
    BY <2>1, StartPromises, CutPromises, LoopPromises, CancelPromises, EndPromises, TaskPromises
       DEF Next, EndStep
  <2> QED
    BY <2>1, <2>2 DEF RunnerInv, Promises
<1>3. Spec => Init /\ [][Next]_vars
  BY DEF Spec
<1> QED
  BY <1>1, <1>2, <1>3, PTL

(* Every variable of the runner keeps its type; generations never exceed   *)
(* the starts, and nobody waits for itself or for a start not cancelled.   *)
THEOREM TypeCorrect == Spec => []TypeOK
<1>1. RunnerInv => TypeOK
  BY DEF RunnerInv
<1> QED
  BY <1>1, RunnerInvariant, PTL

(* For any number of starts and ends: a start that came before a completed *)
(* EndSession is never registered after it, unless it was in flight        *)
(* together with another.                                                  *)
THEOREM EndsAreFinal == Spec => []EndIsFinal
<1>1. RunnerInv => EndIsFinal
  BY DEF RunnerInv
<1> QED
  BY <1>1, RunnerInvariant, PTL

(* For any number of starts: when end_all has torn the link down no run of *)
(* a lone start is registered, and every lone start that still runs was    *)
(* cancelled.  A link that is cut for a renewal has no teardown and is not *)
(* spoken of.                                                              *)
THEOREM TeardownsReachAll == Spec => []TeardownReachesAll
<1>1. RunnerInv => TeardownReachesAll
  <2> SUFFICES ASSUME RunnerInv, at[0] = "over"
               PROVE  /\ entry \in {0} \cup crossed
                      /\ \A n \in Starts \ crossed : Running(n) => n \in aborted
    BY DEF TeardownReachesAll
  <2>1. pending = 0 /\ entry \in {0} \cup crossed
    BY DEF RunnerInv, Emptied, TakenStaysOut
  <2>2. \A n \in Starts : n # 0
    BY Numbers
  <2> QED
    BY <2>1, <2>2 DEF RunnerInv, Held
<1> QED
  BY <1>1, RunnerInvariant, PTL

-----------------------------------------------------------------------------
(* The runner implements the box.                                          *)

(* A box with these fields.                                                *)
Fields(w, s, d, p, c, r) ==
    [waiting |-> w, stale |-> s, due |-> d, playing |-> p, crossed |-> c, revoked |-> r]

(* The box, field by field.                                                *)
LEMMA BoxFields ==
    /\ TheBox = Fields(Rising, InHand \ Rising, Answering, entry, crossed, revoked)
    /\ TheBox' = Fields(Rising', InHand' \ Rising', Answering', entry', crossed', revoked')
BY DEF TheBox, Fields, InHand, Answering

FieldNames == {"waiting", "stale", "due", "playing", "crossed", "revoked"}

(* A box is known by its fields.                                           *)
LEMMA SameFields ==
    ASSUME NEW f, f = [x \in FieldNames |-> f[x]]
    PROVE  f = Fields(f.waiting, f.stale, f.due, f.playing, f.crossed, f.revoked)
<1> DEFINE g == Fields(f.waiting, f.stale, f.due, f.playing, f.crossed, f.revoked)
<1>1. g = [x \in FieldNames |-> g[x]]
  BY DEF Fields, FieldNames
<1>2. \A x \in FieldNames : f[x] = g[x]
  BY DEF Fields, FieldNames
<1> HIDE DEF g
<1>3. f = g
  BY <1>1, <1>2
<1> QED
  BY <1>3 DEF g

(* What the operations of the box do to its fields: a start is admitted;   *)
LEMMA BegunFields ==
    ASSUME NEW w, NEW s, NEW d, NEW p, NEW c, NEW r, NEW n
    PROVE  Contract!Begun(Fields(w, s, d, p, c, r), n)
            = Fields(w \cup {n}, s, d, p, c \cup Contract!Crossing(w \cup d, n), r)
<1> DEFINE f == Contract!Begun(Fields(w, s, d, p, c, r), n)
<1>1. f = [x \in FieldNames |-> f[x]]
  BY DEF Fields, FieldNames, Contract!Begun
<1>2. /\ f.waiting = w \cup {n} /\ f.stale = s /\ f.due = d
      /\ f.playing = p /\ f.crossed = c \cup Contract!Crossing(w \cup d, n) /\ f.revoked = r
  BY DEF Fields, Contract!Begun
<1> HIDE DEF f
<1>3. f = Fields(f.waiting, f.stale, f.due, f.playing, f.crossed, f.revoked)
  BY <1>1, SameFields
<1>4. f = Fields(w \cup {n}, s, d, p, c \cup Contract!Crossing(w \cup d, n), r)
  BY <1>2, <1>3, Zenon
<1> QED
  BY <1>4 DEF f

(* one comes up;                                                           *)
LEMMA ReadiedFields ==
    ASSUME NEW w, NEW s, NEW d, NEW p, NEW c, NEW r, NEW n
    PROVE  Contract!Readied(Fields(w, s, d, p, c, r), n)
            = Fields(w \ {n}, s, d \cup {n}, n, c, r)
<1> DEFINE f == Contract!Readied(Fields(w, s, d, p, c, r), n)
<1>1. f = [x \in FieldNames |-> f[x]]
  BY DEF Fields, FieldNames, Contract!Readied
<1>2. /\ f.waiting = w \ {n} /\ f.stale = s /\ f.due = d \cup {n}
      /\ f.playing = n /\ f.crossed = c /\ f.revoked = r
  BY DEF Fields, Contract!Readied
<1> HIDE DEF f
<1>3. f = Fields(f.waiting, f.stale, f.due, f.playing, f.crossed, f.revoked)
  BY <1>1, SameFields
<1>4. f = Fields(w \ {n}, s, d \cup {n}, n, c, r)
  BY <1>2, <1>3, Zenon
<1> QED
  BY <1>4 DEF f

(* it is announced;                                                        *)
LEMMA AnnouncedFields ==
    ASSUME NEW w, NEW s, NEW d, NEW p, NEW c, NEW r, NEW n
    PROVE  Contract!Announced(Fields(w, s, d, p, c, r), n)
            = Fields(w, s, d \ {n}, p, c, r)
BY DEF Fields, Contract!Announced

(* one fails;                                                              *)
LEMMA FailedFields ==
    ASSUME NEW w, NEW s, NEW d, NEW p, NEW c, NEW r, NEW n
    PROVE  Contract!Failed(Fields(w, s, d, p, c, r), n)
            = Fields(w \ {n}, s \ {n}, d, p, c, r)
<1> DEFINE f == Contract!Failed(Fields(w, s, d, p, c, r), n)
<1>1. f = [x \in FieldNames |-> f[x]]
  BY DEF Fields, FieldNames, Contract!Failed
<1>2. /\ f.waiting = w \ {n} /\ f.stale = s \ {n} /\ f.due = d
      /\ f.playing = p /\ f.crossed = c /\ f.revoked = r
  BY DEF Fields, Contract!Failed
<1> HIDE DEF f
<1>3. f = Fields(f.waiting, f.stale, f.due, f.playing, f.crossed, f.revoked)
  BY <1>1, SameFields
<1>4. f = Fields(w \ {n}, s \ {n}, d, p, c, r)
  BY <1>2, <1>3, Zenon
<1> QED
  BY <1>4 DEF f

(* some are given up;                                                      *)
LEMMA GivenUpFields ==
    ASSUME NEW w, NEW s, NEW d, NEW p, NEW c, NEW r, NEW S
    PROVE  Contract!GivenUp(Fields(w, s, d, p, c, r), S)
            = Fields(w \ S, s \cup (S \cap w), d, p, c, r)
<1> DEFINE f == Contract!GivenUp(Fields(w, s, d, p, c, r), S)
<1>1. f = [x \in FieldNames |-> f[x]]
  BY DEF Fields, FieldNames, Contract!GivenUp
<1>2. /\ f.waiting = w \ S /\ f.stale = s \cup (S \cap w) /\ f.due = d
      /\ f.playing = p /\ f.crossed = c /\ f.revoked = r
  BY DEF Fields, Contract!GivenUp
<1> HIDE DEF f
<1>3. f = Fields(f.waiting, f.stale, f.due, f.playing, f.crossed, f.revoked)
  BY <1>1, SameFields
<1>4. f = Fields(w \ S, s \cup (S \cap w), d, p, c, r)
  BY <1>2, <1>3, Zenon
<1> QED
  BY <1>4 DEF f

(* one vanishes;                                                           *)
LEMMA VanishedFields ==
    ASSUME NEW w, NEW s, NEW d, NEW p, NEW c, NEW r, NEW n
    PROVE  Contract!Vanished(Fields(w, s, d, p, c, r), n)
            = Fields(w, s \ {n}, d \ {n}, p, c, r)
<1> DEFINE f == Contract!Vanished(Fields(w, s, d, p, c, r), n)
<1>1. f = [x \in FieldNames |-> f[x]]
  BY DEF Fields, FieldNames, Contract!Vanished
<1>2. /\ f.waiting = w /\ f.stale = s \ {n} /\ f.due = d \ {n}
      /\ f.playing = p /\ f.crossed = c /\ f.revoked = r
  BY DEF Fields, Contract!Vanished
<1> HIDE DEF f
<1>3. f = Fields(f.waiting, f.stale, f.due, f.playing, f.crossed, f.revoked)
  BY <1>1, SameFields
<1>4. f = Fields(w, s \ {n}, d \ {n}, p, c, r)
  BY <1>2, <1>3, Zenon
<1> QED
  BY <1>4 DEF f

(* what plays is stopped;                                                  *)
LEMMA StoppedFields ==
    ASSUME NEW w, NEW s, NEW d, NEW p, NEW c, NEW r
    PROVE  Contract!Stopped(Fields(w, s, d, p, c, r))
            = Fields(w, s, d, 0, c, r)
BY DEF Fields, Contract!Stopped

(* an EndSession puts some behind it.                                      *)
LEMMA RevokedFields ==
    ASSUME NEW w, NEW s, NEW d, NEW p, NEW c, NEW r, NEW S
    PROVE  Contract!Revoked(Fields(w, s, d, p, c, r), S)
            = Fields(w, s, d, p, c, r \cup S)
BY DEF Fields, Contract!Revoked

(* The box as it is, field by field.                                       *)
Now == Fields(Rising, InHand \ Rising, Answering, entry, crossed, revoked)

(* A start is taken off the link.                                          *)
LEMMA BoxBegins ==
    ASSUME RunnerInv, TakeStart
    PROVE  Contract!BoxNext
<1>0. TypeOK /\ Places
  BY DEF RunnerInv
<1>1. PICK m \in Starts :
        /\ at[m] = "none"
        /\ Rising' = Rising \cup {m} /\ Answering' = Answering
        /\ InHand' = InHand \cup {m} /\ m \notin InHand
        /\ crossed' = crossed \cup (IF Alive = {} THEN {} ELSE Alive \cup {m})
  BY <1>0, Starting
<1>2. UNCHANGED <<entry, revoked, said>>
  BY DEF TakeStart
<1>3. m \notin Rising /\ m \notin Answering
  BY <1>1 DEF Rising, Answering
<1>4. InHand' \ Rising' = InHand \ Rising
  BY <1>1
<1>5. m \notin Contract!InFlight(TheBox)
  BY <1>1, <1>3, BoxFields DEF Contract!InFlight, Fields
<1>6. crossed' = crossed \cup Contract!Crossing(Rising \cup Answering, m)
  BY <1>1 DEF Contract!Crossing, Alive
<1>7. Contract!Begun(Now, m)
        = Fields(Rising \cup {m}, InHand \ Rising, Answering, entry,
                 crossed \cup Contract!Crossing(Rising \cup Answering, m), revoked)
  BY BegunFields, SMT DEF Now
<1>8. TheBox' = Contract!Begun(TheBox, m)
  BY <1>1, <1>2, <1>4, <1>6, <1>7, BoxFields DEF Now
<1> QED
  BY <1>2, <1>5, <1>8 DEF Contract!Begin, Contract!BoxNext

(* An end or a newer start makes others hopeless.                          *)
LEMMA BoxGivesUp ==
    ASSUME RunnerInv,
           \/ TakeEnd \/ CloseLink \/ Drained
           \/ \E n \in Starts : BeginStart(n)
           \/ \E p \in Processes : CancelPending(p)
    PROVE  Contract!BoxNext
<1>1. /\ Rising' \subseteq Rising /\ Answering' = Answering /\ InHand' = InHand
      /\ UNCHANGED <<entry, crossed, revoked, said>>
  BY Fading DEF RunnerInv
<1>2. Rising \subseteq InHand
  BY DEF Rising, InHand, Running, Over
<1> DEFINE S == Rising \ Rising'
<1>3. /\ Rising' = Rising \ S
      /\ InHand' \ Rising' = (InHand \ Rising) \cup (S \cap Rising)
  BY <1>1, <1>2
<1>4. Contract!GivenUp(Now, S)
        = Fields(Rising \ S, (InHand \ Rising) \cup (S \cap Rising), Answering, entry,
                 crossed, revoked)
  BY GivenUpFields, SMT DEF Now
<1>5. S \in SUBSET TheBox.waiting
  BY BoxFields DEF Fields
<1> HIDE DEF S
<1>6. TheBox' = Contract!GivenUp(TheBox, S)
  BY <1>1, <1>3, <1>4, BoxFields DEF Now
<1> QED
  BY <1>1, <1>5, <1>6 DEF Contract!GiveUp, Contract!BoxNext

(* A start that fails says so.                                             *)
LEMMA BoxFails ==
    ASSUME RunnerInv, NEW n \in Starts, Undecodable(n) \/ PrerollFailed(n)
    PROVE  Contract!BoxNext
<1>1. /\ Rising' = Rising \ {n} /\ Answering' = Answering \ {n} /\ InHand' = InHand \ {n}
      /\ UNCHANGED <<entry, crossed, revoked>> /\ n \in InHand
  BY Leaving DEF RunnerInv
<1>2. n \notin Answering
  BY <1>1 DEF InHand, Answering
<1>3. /\ Answering' = Answering
      /\ InHand' \ Rising' = (InHand \ Rising) \ {n}
  BY <1>1, <1>2
<1>4. Contract!Failed(Now, n)
        = Fields(Rising \ {n}, (InHand \ Rising) \ {n}, Answering, entry, crossed, revoked)
  BY FailedFields, SMT DEF Now
<1>5. n \in TheBox.waiting \cup TheBox.stale
  BY <1>1, BoxFields DEF Fields
<1>6. TheBox' = Contract!Failed(TheBox, n)
  BY <1>1, <1>3, <1>4, BoxFields DEF Now
<1>7. Contract!Says(n, FALSE)
  BY DEF Undecodable, PrerollFailed, Says, Contract!Says
<1> QED
  BY <1>5, <1>6, <1>7 DEF Contract!Fail, Contract!BoxNext

(* A start that came up says so.                                           *)
LEMMA BoxAnnounces ==
    ASSUME RunnerInv, NEW n \in Starts, SendReady(n)
    PROVE  Contract!BoxNext
<1>1. /\ Rising' = Rising \ {n} /\ Answering' = Answering \ {n} /\ InHand' = InHand \ {n}
      /\ UNCHANGED <<entry, crossed, revoked>> /\ n \in Answering
  BY Leaving DEF RunnerInv
<1>2. n \notin Rising /\ n \notin InHand
  BY <1>1 DEF Rising, InHand, Answering
<1>3. Rising' = Rising /\ InHand' \ Rising' = InHand \ Rising
  BY <1>1, <1>2
<1>4. Contract!Announced(Now, n)
        = Fields(Rising, InHand \ Rising, Answering \ {n}, entry, crossed, revoked)
  BY AnnouncedFields, SMT DEF Now
<1>5. n \in TheBox.due
  BY <1>1, BoxFields DEF Fields
<1>6. TheBox' = Contract!Announced(TheBox, n)
  BY <1>1, <1>3, <1>4, BoxFields DEF Now
<1>7. Contract!Says(n, TRUE)
  BY DEF SendReady, Says, Contract!Says
<1> QED
  BY <1>5, <1>6, <1>7 DEF Contract!Announce, Contract!BoxNext

(* A start that is no longer wanted, or was dropped, goes quietly.         *)
LEMMA BoxVanishes ==
    ASSUME RunnerInv, NEW n \in Starts, Discarded(n) \/ Drop(n)
    PROVE  Contract!BoxNext
<1>1. /\ Rising' = Rising \ {n} /\ Answering' = Answering \ {n} /\ InHand' = InHand \ {n}
      /\ UNCHANGED <<entry, crossed, revoked>>
      /\ n \notin Rising /\ n \in InHand \cup Answering
  BY Leaving DEF RunnerInv
<1>2. UNCHANGED said
  BY DEF Discarded, Drop
<1>3. Rising' = Rising /\ InHand' \ Rising' = (InHand \ Rising) \ {n}
  BY <1>1
<1>4. Contract!Vanished(Now, n)
        = Fields(Rising, (InHand \ Rising) \ {n}, Answering \ {n}, entry, crossed, revoked)
  BY VanishedFields, SMT DEF Now
<1>5. n \in TheBox.stale \cup TheBox.due
  BY <1>1, BoxFields DEF Fields
<1>6. TheBox' = Contract!Vanished(TheBox, n)
  BY <1>1, <1>3, <1>4, BoxFields DEF Now
<1> QED
  BY <1>2, <1>5, <1>6 DEF Contract!Vanish, Contract!BoxNext

(* A run is registered only if no end has put its start behind it.         *)
LEMMA BoxPlays ==
    ASSUME RunnerInv, NEW n \in Starts, RegisterSession(n)
    PROVE  Contract!BoxNext
<1>1. /\ n \in Rising
      /\ Rising' = Rising \ {n} /\ Answering' = Answering \cup {n}
      /\ InHand' = InHand \ {n}
      /\ entry' = n /\ UNCHANGED <<crossed, revoked, said>>
  BY Registering DEF RunnerInv
<1>2. InHand' \ Rising' = InHand \ Rising
  BY <1>1
<1>3. n \notin revoked \ crossed
  BY <1>1 DEF RunnerInv, BehindIsOver, Alive
<1>4. Contract!Readied(Now, n)
        = Fields(Rising \ {n}, InHand \ Rising, Answering \cup {n}, n, crossed, revoked)
  BY ReadiedFields, SMT DEF Now
<1>5. Contract!MayPlay(TheBox, n)
  BY <1>1, <1>3, BoxFields DEF Fields, Contract!MayPlay
<1>6. TheBox' = Contract!Readied(TheBox, n)
  BY <1>1, <1>2, <1>4, BoxFields DEF Now
<1> QED
  BY <1>1, <1>5, <1>6 DEF Contract!Play, Contract!BoxNext

(* The run is taken out: by a start or by the loop it is a Stop, and when  *)
(* the loop finds none to stop the end is complete.                        *)
LEMMA BoxStops ==
    ASSUME RunnerInv, NEW p \in Processes, TakeSession(p)
    PROVE  Contract!BoxNext
<1>1. Rising' = Rising /\ Answering' = Answering /\ InHand' = InHand /\ crossed' = crossed
  BY Steady DEF RunnerInv
<1>2. entry' = 0 /\ UNCHANGED said
  BY DEF TakeSession
<1>3. CASE revoked' = revoked
  <2>1. Contract!Stopped(Now)
          = Fields(Rising, InHand \ Rising, Answering, 0, crossed, revoked)
    BY StoppedFields, SMT DEF Now
  <2>2. TheBox' = Contract!Stopped(TheBox)
    BY <1>1, <1>2, <1>3, <2>1, BoxFields DEF Now
  <2> QED
    BY <1>2, <2>2 DEF Contract!Stop, Contract!BoxNext
<1>4. CASE p = 0 /\ entry = 0
  <2>1. revoked' = revoked \cup Came
    BY <1>4 DEF TakeSession, Revoking, Returned, Came
  <2>2. Contract!Revoked(Now, Came)
          = Fields(Rising, InHand \ Rising, Answering, entry, crossed, revoked \cup Came)
    BY RevokedFields, SMT DEF Now
  <2>3. TheBox' = Contract!Revoked(TheBox, Came)
    BY <1>1, <1>2, <1>4, <2>1, <2>2, BoxFields DEF Now
  <2>4. TheBox.playing = 0 /\ 0 \notin Came /\ Came \in SUBSET Starts
    BY <1>4, Numbers, BoxFields DEF Fields, Came
  <2> QED
    BY <1>2, <2>3, <2>4 DEF Contract!End, Contract!BoxNext
<1>5. revoked' = revoked \/ (p = 0 /\ entry = 0)
  BY DEF TakeSession, Revoking
<1> QED
  BY <1>3, <1>4, <1>5

(* The runner is dropped, and its run with it: a Stop.                     *)
LEMMA BoxDropped ==
    ASSUME RunnerInv, DropRunner
    PROVE  Contract!BoxNext
<1>1. Rising' = Rising /\ Answering' = Answering /\ InHand' = InHand /\ crossed' = crossed
  BY Steady DEF RunnerInv
<1>2. entry' = 0 /\ UNCHANGED <<revoked, said>>
  BY DEF DropRunner
<1>3. Contract!Stopped(Now) = Fields(Rising, InHand \ Rising, Answering, 0, crossed, revoked)
  BY StoppedFields, SMT DEF Now
<1>4. TheBox' = Contract!Stopped(TheBox)
  BY <1>1, <1>2, <1>3, BoxFields DEF Now
<1> QED
  BY <1>2, <1>4 DEF Contract!Stop, Contract!BoxNext

(* The run that was taken out is gone: for the loop the end is complete.   *)
LEMMA BoxEnds ==
    ASSUME RunnerInv, NEW p \in Processes, RunStopped(p)
    PROVE  Contract!BoxNext \/ UNCHANGED <<TheBox, said>>
<1>1. Rising' = Rising /\ Answering' = Answering /\ InHand' = InHand /\ crossed' = crossed
  BY Steady DEF RunnerInv
<1>2. UNCHANGED <<entry, said>>
  BY DEF RunStopped, runnerVars
<1>3. CASE revoked' = revoked
  BY <1>1, <1>2, <1>3, BoxFields
<1>4. CASE p = 0
  <2>1. revoked' = revoked \cup Came
    BY <1>4 DEF RunStopped, Revoking, Returned, Came
  <2>2. Contract!Revoked(Now, Came)
          = Fields(Rising, InHand \ Rising, Answering, entry, crossed, revoked \cup Came)
    BY RevokedFields, SMT DEF Now
  <2>3. TheBox' = Contract!Revoked(TheBox, Came)
    BY <1>1, <1>2, <2>1, <2>2, BoxFields DEF Now
  <2>4. entry \in {0} \cup crossed
    BY <1>4 DEF RunStopped, RunnerInv, TakenStaysOut
  <2>5. 0 \notin Came /\ Came \in SUBSET Starts
    BY Numbers DEF Came
  <2>6. TheBox.playing \notin Came \ TheBox.crossed
    BY <2>4, <2>5, BoxFields DEF Fields
  <2> QED
    BY <1>2, <2>3, <2>5, <2>6 DEF Contract!End, Contract!BoxNext
<1>5. revoked' = revoked \/ p = 0
  BY DEF RunStopped, Revoking
<1> QED
  BY <1>3, <1>4, <1>5

(* A worker dies and the hub is told.                                      *)
LEMMA BoxDies ==
    ASSUME RunnerInv, TellDeath
    PROVE  Contract!BoxNext
<1>1. Rising' = Rising /\ Answering' = Answering /\ InHand' = InHand /\ crossed' = crossed
  BY Steady DEF RunnerInv
<1>2. UNCHANGED <<entry, revoked>> /\ entry # 0 /\ Says(entry, FALSE)
  BY DEF TellDeath, RunnerInv, TypeOK
<1>3. TheBox' = TheBox /\ TheBox.playing = entry
  BY <1>1, <1>2, BoxFields DEF Fields
<1> QED
  BY <1>2, <1>3 DEF Contract!Die, Contract!BoxNext, Contract!Says, Says

(* The rest of a start and of an end is none of the hub's business.        *)
LEMMA BoxStutters ==
    ASSUME RunnerInv,
           \/ \E p \in Processes : Settled(p)
           \/ \E n \in Starts : TakeGeneration(n) \/ Prerolled(n) \/ CheckStale(n)
           \/ RenewalDue \/ WorkerDies \/ UNCHANGED vars
    PROVE  UNCHANGED <<TheBox, said>>
<1>1. Rising' = Rising /\ Answering' = Answering /\ InHand' = InHand /\ crossed' = crossed
  BY Steady DEF RunnerInv
<1>2. UNCHANGED <<entry, revoked, said>>
  BY DEF Settled, TakeGeneration, Prerolled, CheckStale, RenewalDue, WorkerDies, vars, runnerVars
<1> QED
  BY <1>1, <1>2, BoxFields

(* Every step of the runner is a step of the box, or none.                 *)
LEMMA BoxStep ==
    ASSUME RunnerInv, [Next]_vars
    PROVE  Contract!BoxNext \/ UNCHANGED <<TheBox, said>>
<1>1. CASE TakeStart
  BY <1>1, BoxBegins
<1>2. CASE TakeEnd \/ CloseLink \/ Drained
  BY <1>2, BoxGivesUp
<1>3. ASSUME NEW p \in Processes, EndStep(p)
      PROVE  Contract!BoxNext \/ UNCHANGED <<TheBox, said>>
  <2>1. CASE CancelPending(p)
    BY <2>1, BoxGivesUp
  <2>2. CASE Settled(p)
    BY <2>2, BoxStutters
  <2>3. CASE TakeSession(p)
    BY <2>3, BoxStops
  <2>4. CASE RunStopped(p)
    BY <2>4, BoxEnds
  <2> QED
    BY <1>3, <2>1, <2>2, <2>3, <2>4 DEF EndStep
<1>4. ASSUME NEW n \in Starts, StartStep(n)
      PROVE  Contract!BoxNext \/ UNCHANGED <<TheBox, said>>
  <2>1. CASE BeginStart(n)
    BY <2>1, BoxGivesUp
  <2>2. CASE Undecodable(n) \/ PrerollFailed(n)
    BY <2>2, BoxFails
  <2>3. CASE TakeGeneration(n) \/ Prerolled(n) \/ CheckStale(n)
    BY <2>3, BoxStutters
  <2>4. CASE RegisterSession(n)
    BY <2>4, BoxPlays
  <2>5. CASE SendReady(n)
    BY <2>5, BoxAnnounces
  <2>6. CASE Discarded(n) \/ Drop(n)
    BY <2>6, BoxVanishes
  <2> QED
    BY <1>4, <2>1, <2>2, <2>3, <2>4, <2>5, <2>6 DEF StartStep
<1>5. CASE RenewalDue \/ WorkerDies \/ UNCHANGED vars
  BY <1>5, BoxStutters
<1>6. CASE TellDeath
  BY <1>6, BoxDies
<1>7. CASE DropRunner
  BY <1>7, BoxDropped
<1> QED
  BY <1>1, <1>2, <1>3, <1>4, <1>5, <1>6, <1>7 DEF Next

(* For any number of starts, ends and crashes: what the hub sees of the    *)
(* runner, over one link and for one session, is what TranscoderBox        *)
(* promises; a start an EndSession put behind it never plays.              *)
THEOREM ImplementsBox == Spec => KeepsContract
<1>1. Init => Contract!BoxInit
  BY Numbers, ZenonT(40) DEF Init, Processes, Contract!BoxInit, Contract!IdleBox, TheBox, Rising, Running, Over
<1>2. RunnerInv /\ [Next]_vars => [Contract!BoxNext]_<<TheBox, said>>
  BY BoxStep
<1>3. Spec => Init /\ [][Next]_vars
  BY DEF Spec
<1> QED
  BY <1>1, <1>2, <1>3, RunnerInvariant, PTL DEF KeepsContract, Contract!BoxSpec, Contract!boxVars
=============================================================================
