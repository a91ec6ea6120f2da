--------------------------- MODULE HostLinkProofs ---------------------------
(***************************************************************************)
(* Proofs about HostLink, for every number of connections, sessions,       *)
(* messages and deletions.                                                 *)
(***************************************************************************)
EXTENDS HostLink, FiniteSetTheorems, TLAPS

-----------------------------------------------------------------------------
(* The gate as a queue.                                                    *)

(* q queues every member of S once and nobody else.                        *)
IsQueue(q, S) ==
    /\ q \in Seq(S)
    /\ \A i, j \in DOMAIN q : q[i] = q[j] => i = j
    /\ \A h \in S : \E i \in DOMAIN q : q[i] = h

(* a is served before b.                                                   *)
Before(q, a, b) ==
    \E i, j \in DOMAIN q : i < j /\ q[i] = a /\ q[j] = b

(* The holder is a member, and nobody is served before it.                 *)
LEMMA QueueHead ==
    ASSUME NEW S, NEW q, IsQueue(q, S)
    PROVE  /\ S # {} => q # <<>>
           /\ q # <<>> => /\ Head(q) \in S
                          /\ \A a : ~Before(q, a, Head(q))
BY DEF IsQueue, Before

(* A queue is as long as its membership is large.                          *)
LEMMA QueueLength ==
    ASSUME NEW S, NEW q, IsQueue(q, S)
    PROVE  Len(q) = Cardinality(S)
<1>1. Len(q) \in Nat /\ DOMAIN q = 1 .. Len(q)
  BY DEF IsQueue
<1>2. q \in Bijection(1 .. Len(q), S)
  BY <1>1 DEF IsQueue, Bijection, Injection, Surjection, IsInjective
<1> QED
  BY <1>1, <1>2, FS_CountingElements DEF ExistsBijection

(* Joining at the back (tokio's Mutex::lock): the holder stays, and whoever *)
(* was there is served first.                                              *)
LEMMA QueueJoin ==
    ASSUME NEW S, NEW q, IsQueue(q, S), NEW h, h \notin S
    PROVE  /\ IsQueue(Append(q, h), S \cup {h})
           /\ Append(q, h) # <<>>
           /\ q # <<>> => Head(Append(q, h)) = Head(q)
           /\ \A a, b : Before(q, a, b) => Before(Append(q, h), a, b)
           /\ \A a \in S : Before(Append(q, h), a, h)
<1> DEFINE r == Append(q, h)
<1>1. /\ q \in Seq(S \cup {h})
      /\ Len(q) \in Nat /\ DOMAIN q = 1 .. Len(q)
      /\ \A i \in DOMAIN q : q[i] \in S
  BY DEF IsQueue
<1>2. /\ r \in Seq(S \cup {h})
      /\ Len(r) = Len(q) + 1
      /\ DOMAIN r = 1 .. Len(q) + 1
      /\ \A i \in DOMAIN q : r[i] = q[i]
      /\ r[Len(q) + 1] = h
  BY <1>1
<1>3. \A i, j \in DOMAIN r : r[i] = r[j] => i = j
  BY <1>1, <1>2 DEF IsQueue
<1>4. \A g \in S \cup {h} : \E i \in DOMAIN r : r[i] = g
  BY <1>1, <1>2 DEF IsQueue
<1>5. r # <<>> /\ (q # <<>> => Head(r) = Head(q))
  BY <1>1, <1>2
<1>6. \A a, b : Before(q, a, b) => Before(r, a, b)
  BY <1>1, <1>2 DEF Before
<1>7. \A a \in S : Before(r, a, h)
  <2> SUFFICES ASSUME NEW a \in S PROVE Before(r, a, h)
    OBVIOUS
  <2>1. PICK i \in DOMAIN q : q[i] = a
    BY DEF IsQueue
  <2>2. i \in DOMAIN r /\ Len(q) + 1 \in DOMAIN r /\ i < Len(q) + 1
    BY <1>1, <1>2
  <2> QED
    BY <2>1, <2>2, <1>2 DEF Before
<1> QED
  BY <1>2, <1>3, <1>4, <1>5, <1>6, <1>7 DEF IsQueue

(* The holder releases the gate: the others keep their order.              *)
LEMMA QueueRelease ==
    ASSUME NEW S, NEW q, IsQueue(q, S), q # <<>>
    PROVE  /\ IsQueue(Tail(q), S \ {Head(q)})
           /\ \A a, b : a # Head(q) /\ Before(q, a, b) => Before(Tail(q), a, b)
<1> DEFINE r == Tail(q)
<1>1. /\ Len(q) \in Nat /\ Len(q) > 0 /\ DOMAIN q = 1 .. Len(q)
      /\ \A i \in DOMAIN q : q[i] \in S
      /\ Head(q) = q[1] /\ 1 \in DOMAIN q
  BY DEF IsQueue
<1>2. /\ r \in Seq(S)
      /\ Len(r) = Len(q) - 1
      /\ DOMAIN r = 1 .. Len(q) - 1
      /\ \A i \in DOMAIN r : i + 1 \in DOMAIN q /\ r[i] = q[i + 1]
  BY <1>1 DEF IsQueue
<1>3. \A i \in DOMAIN r : r[i] \in S \ {Head(q)}
  BY <1>1, <1>2 DEF IsQueue
<1>4. r \in Seq(S \ {Head(q)})
  <2>0. r \in Seq(S) /\ \A i \in DOMAIN r : r[i] \in S \ {Head(q)}
    BY <1>2, <1>3
  <2> HIDE DEF r
  <2>1. r \in [1 .. Len(r) -> S] /\ DOMAIN r = 1 .. Len(r)
    BY <2>0
  <2>2. r \in [1 .. Len(r) -> S \ {Head(q)}]
    BY <2>0, <2>1
  <2>3. Len(r) \in Nat
    BY <2>0
  <2> QED
    BY <2>2, <2>3
<1>5. \A i, j \in DOMAIN r : r[i] = r[j] => i = j
  BY <1>1, <1>2 DEF IsQueue
<1>6. \A i \in DOMAIN q : q[i] # Head(q) => i - 1 \in DOMAIN r /\ r[i - 1] = q[i]
  BY <1>1, <1>2
<1>7. \A h \in S \ {Head(q)} : \E i \in DOMAIN r : r[i] = h
  BY <1>6 DEF IsQueue
<1>8. \A a, b : a # Head(q) /\ Before(q, a, b) => Before(r, a, b)
  <2> SUFFICES ASSUME NEW a, NEW b, a # Head(q), Before(q, a, b)
               PROVE  Before(r, a, b)
    OBVIOUS
  <2>1. PICK i \in DOMAIN q, j \in DOMAIN q : i < j /\ q[i] = a /\ q[j] = b
    BY DEF Before
  <2>2. i # 1 /\ j # 1
    BY <1>1, <2>1
  <2>3. i - 1 \in DOMAIN r /\ j - 1 \in DOMAIN r /\ r[i - 1] = q[i] /\ r[j - 1] = q[j]
    BY <1>1, <1>2, <2>2
  <2>4. i - 1 < j - 1
    BY <1>1, <2>1
  <2> QED
    BY <2>1, <2>3, <2>4 DEF Before
<1> QED
  BY <1>4, <1>5, <1>7, <1>8 DEF IsQueue

(* A waiter that is dropped gives up its place: the holder stays, unless it *)
(* was the holder, and the others keep their order.                        *)
LEMMA QueueLeave ==
    ASSUME NEW S, IsQueue(gate, S), NEW h
    PROVE  /\ IsQueue(Without(h), S \ {h})
           /\ gate # <<>> /\ Head(gate) # h =>
                Without(h) # <<>> /\ Head(Without(h)) = Head(gate)
           /\ \A a, b : a # h /\ b # h /\ Before(gate, a, b) => Before(Without(h), a, b)
<1>1. /\ gate \in Seq(S)
      /\ Len(gate) \in Nat /\ DOMAIN gate = 1 .. Len(gate)
      /\ \A i \in DOMAIN gate : gate[i] \in S
  BY DEF IsQueue
<1>2. CASE ~\E i \in DOMAIN gate : gate[i] = h
  <2>1. Without(h) = gate
    BY <1>2 DEF Without
  <2>2. h \notin S
    BY <1>2 DEF IsQueue
  <2>3. S \ {h} = S
    BY <2>2
  <2> QED
    BY <2>1, <2>3
<1>3. CASE \E i \in DOMAIN gate : gate[i] = h
  <2> DEFINE p == CHOOSE i \in DOMAIN gate : gate[i] = h
             r == [i \in 1 .. Len(gate) - 1 |-> gate[IF i < p THEN i ELSE i + 1]]
  <2>1. p \in DOMAIN gate /\ gate[p] = h
    BY <1>3
  <2>2. Without(h) = r
    BY <1>3, Zenon DEF Without
  <2> HIDE DEF p
  <2>3. /\ Len(gate) - 1 \in Nat
        /\ \A i \in 1 .. Len(gate) - 1 : i \in DOMAIN gate /\ i + 1 \in DOMAIN gate
    BY <1>1, <2>1
  <2>4. \A i \in DOMAIN gate : i # p => gate[i] \in S \ {h}
    BY <1>1, <2>1 DEF IsQueue
  <2>5. \A i \in 1 .. Len(gate) - 1 : r[i] \in S \ {h}
    BY <1>1, <2>1, <2>3, <2>4
  <2>6. r \in [1 .. Len(gate) - 1 -> S \ {h}]
    BY <2>5
  <2>7. r \in Seq(S \ {h}) /\ DOMAIN r = 1 .. Len(gate) - 1
    BY <2>3, <2>6
  <2>8. \A i, j \in DOMAIN r : r[i] = r[j] => i = j
    <3> DEFINE pos(i) == IF i < p THEN i ELSE i + 1
    <3>1. \A i \in DOMAIN r : pos(i) \in DOMAIN gate /\ r[i] = gate[pos(i)]
      BY <1>1, <2>1, <2>3, <2>7
    <3>2. \A i, j \in DOMAIN r : pos(i) = pos(j) => i = j
      BY <1>1, <2>1, <2>7
    <3> HIDE DEF r, pos
    <3> QED
      BY <3>1, <3>2 DEF IsQueue
  <2>9. /\ \A i \in DOMAIN gate : i < p => i \in DOMAIN r /\ r[i] = gate[i]
        /\ \A i \in DOMAIN gate : i > p => i - 1 \in DOMAIN r /\ r[i - 1] = gate[i]
    BY <1>1, <2>1, <2>7
  <2>10. \A g \in S \ {h} : \E i \in DOMAIN r : r[i] = g
    <3> SUFFICES ASSUME NEW g \in S \ {h} PROVE \E i \in DOMAIN r : r[i] = g
      OBVIOUS
    <3>1. PICK i \in DOMAIN gate : gate[i] = g
      BY DEF IsQueue
    <3>2. i < p \/ i > p
      BY <1>1, <2>1, <3>1
    <3> QED
      BY <2>9, <3>1, <3>2
  <2>11. \A a, b : a # h /\ b # h /\ Before(gate, a, b) => Before(r, a, b)
    <3> SUFFICES ASSUME NEW a, NEW b, a # h, b # h, Before(gate, a, b)
                 PROVE  Before(r, a, b)
      OBVIOUS
    <3>1. PICK i \in DOMAIN gate, j \in DOMAIN gate : i < j /\ gate[i] = a /\ gate[j] = b
      BY DEF Before
    <3>2. /\ i < p \/ i > p
          /\ j < p \/ j > p
      BY <1>1, <2>1, <3>1
    <3> DEFINE u == IF i < p THEN i ELSE i - 1
               v == IF j < p THEN j ELSE j - 1
    <3>3. u \in DOMAIN r /\ r[u] = a
      BY <2>9, <3>1, <3>2
    <3>4. v \in DOMAIN r /\ r[v] = b
      BY <2>9, <3>1, <3>2
    <3>5. u < v
      BY <1>1, <2>1, <3>1, <3>2
    <3> HIDE DEF u, v
    <3> QED
      BY <3>3, <3>4, <3>5 DEF Before
  <2>12. gate # <<>> /\ Head(gate) # h => r # <<>> /\ Head(r) = Head(gate)
    <3> SUFFICES ASSUME gate # <<>>, Head(gate) # h
                 PROVE  r # <<>> /\ Head(r) = Head(gate)
      OBVIOUS
    <3>1. 1 \in DOMAIN gate /\ Head(gate) = gate[1]
      BY <1>1
    <3>2. 1 < p
      BY <1>1, <2>1, <3>1
    <3>3. 1 \in DOMAIN r /\ r[1] = gate[1]
      BY <2>9, <3>1, <3>2
    <3> HIDE DEF r
    <3>4. r # <<>> /\ Head(r) = r[1]
      BY <2>7, <3>3
    <3> QED
      BY <3>1, <3>3, <3>4
  <2> HIDE DEF r
  <2> QED
    BY <2>2, <2>7, <2>8, <2>10, <2>11, <2>12 DEF IsQueue
<1> QED
  BY <1>2, <1>3

-----------------------------------------------------------------------------
(* Who claims the gate.                                                    *)

(* TypeOK without what it says of the gate.                                *)
Types ==
    /\ peer \in Links \cup {NoLink}
    /\ cert \in 0 .. issued
    /\ issued \in Nat
    /\ presented \in [Links -> 0 .. issued]
    /\ conn \in [Links -> ConnStages]
    /\ worker \in [Links -> {"none", "idle", "queued", "applying", "stopped"}]
    /\ todo \in [Links -> 0 .. MaxMessages]
    /\ links \in Links \cup {NoLink}
    /\ present \in {"absent", "up", "down"}
    /\ deletion \in {"idle", "waiting", "unlinked", "revoked"}
    /\ deletes \in 0 .. MaxDeletes
    /\ session \in [Sessions -> [state : {"none", "opening", "active", "ended"},
                                 via : Links \cup {NoLink}]]

(* The stages in which a handler and a worker hold or await the gate.      *)
HandlerClaims == {"waiting", "registered", "settling"}
WorkerClaims == {"queued", "applying"}

(* Tasks are told apart by their kind and their link.                      *)
LEMMA PartyNames ==
    /\ \A c, d : Handler(c) = Handler(d) => c = d
    /\ \A c, d : Worker(c) = Worker(d) => c = d
    /\ \A c, d : Handler(c) # Worker(d)
    /\ \A c : Handler(c) # Deletion /\ Worker(c) # Deletion
BY DEF Handler, Worker, Deletion

(* Membership of the claimants, task by task.                              *)
LEMMA Claims ==
    /\ \A c \in Links : Handler(c) \in Claimants <=> conn[c] \in HandlerClaims
    /\ \A c \in Links : Worker(c) \in Claimants <=> worker[c] \in WorkerClaims
    /\ Deletion \in Claimants <=> deletion # "idle"
BY PartyNames DEF Claimants, HandlerClaims, WorkerClaims

(* A step of one handler adds its claim or takes it away.                  *)
LEMMA HandlerClaim ==
    ASSUME NEW c \in Links, NEW x, Types,
           conn' = [conn EXCEPT ![c] = x], UNCHANGED <<worker, deletion>>
    PROVE  Claimants' = IF x \in HandlerClaims THEN Claimants \cup {Handler(c)}
                        ELSE Claimants \ {Handler(c)}
<1>1. conn'[c] = x /\ \A d \in Links : d # c => conn'[d] = conn[d]
  BY DEF Types
<1> DEFINE H == {d \in Links : conn[d] \in HandlerClaims}
           W == {Worker(d) : d \in {e \in Links : worker[e] \in WorkerClaims}}
                \cup (IF deletion = "idle" THEN {} ELSE {Deletion})
<1>2. /\ Claimants = {Handler(d) : d \in H} \cup W
      /\ Claimants' = {Handler(d) : d \in H'} \cup W
  BY DEF Claimants, HandlerClaims, WorkerClaims
<1>3. Handler(c) \notin W
  BY PartyNames
<1>4. H' = IF x \in HandlerClaims THEN H \cup {c} ELSE H \ {c}
  BY <1>1
<1> HIDE DEF H, W
<1> QED
  BY <1>2, <1>3, <1>4, PartyNames

(* The same of a worker.                                                   *)
LEMMA WorkerClaim ==
    ASSUME NEW c \in Links, NEW x, Types,
           worker' = [worker EXCEPT ![c] = x],
           \A d \in Links : conn'[d] \in HandlerClaims <=> conn[d] \in HandlerClaims,
           UNCHANGED deletion
    PROVE  Claimants' = IF x \in WorkerClaims THEN Claimants \cup {Worker(c)}
                        ELSE Claimants \ {Worker(c)}
<1>1. worker'[c] = x /\ \A d \in Links : d # c => worker'[d] = worker[d]
  BY DEF Types
<1> DEFINE W == {d \in Links : worker[d] \in WorkerClaims}
           H == {Handler(d) : d \in {e \in Links : conn[e] \in HandlerClaims}}
                \cup (IF deletion = "idle" THEN {} ELSE {Deletion})
<1>2. /\ Claimants = {Worker(d) : d \in W} \cup H
      /\ Claimants' = {Worker(d) : d \in W'} \cup H
  BY DEF Claimants, HandlerClaims, WorkerClaims
<1>3. Worker(c) \notin H
  BY PartyNames
<1>4. W' = IF x \in WorkerClaims THEN W \cup {c} ELSE W \ {c}
  BY <1>1
<1> HIDE DEF H, W
<1> QED
  BY <1>2, <1>3, <1>4, PartyNames

(* The same of the deletion.                                               *)
LEMMA DeletionClaim ==
    ASSUME UNCHANGED <<conn, worker>>
    PROVE  Claimants' = IF deletion' # "idle" THEN Claimants \cup {Deletion}
                        ELSE Claimants \ {Deletion}
<1> DEFINE R == {Handler(c) : c \in {d \in Links : conn[d] \in HandlerClaims}}
                \cup {Worker(c) : c \in {d \in Links : worker[d] \in WorkerClaims}}
<1>1. /\ Claimants = R \cup (IF deletion = "idle" THEN {} ELSE {Deletion})
      /\ Claimants' = R \cup (IF deletion' = "idle" THEN {} ELSE {Deletion})
  BY DEF Claimants, HandlerClaims, WorkerClaims
<1>2. Deletion \notin R
  BY PartyNames
<1> HIDE DEF R
<1> QED
  BY <1>1, <1>2

-----------------------------------------------------------------------------
(* The invariant.                                                          *)

(* A worker lives no longer than the read loop that started it: JoinWorker  *)
(* has ended it by the time the link is forgotten.                         *)
WorkersServe ==
    \A c \in Links : worker[c] # "none" => conn[c] \in {"serving", "closing"}

(* A link is registered by its own handler only, which stays registered as  *)
(* long as the handler has the gate, under the certificate it presented.   *)
HandlersRegister ==
    \A c \in Links :
        /\ conn[c] \in {"unused", "dialled", "waiting"} => links # c
        /\ conn[c] \in {"registered", "settling"} => links = c
        /\ conn[c] # "unused" => presented[c] # 0

(* From its unlink to its release of the gate a deletion finds no link.    *)
DeletionUnlinks == deletion \in {"unlinked", "revoked"} => links = NoLink

LinkInv ==
    /\ Types
    /\ IsQueue(gate, Claimants)
    /\ GateIsHeld
    /\ WorkerIsCurrent
    /\ WorkersServe
    /\ HandlersRegister
    /\ DeletionUnlinks
    /\ LinkedIsEnrolled

(* The invariant starts out.                                               *)
LEMMA InitInv == Init => LinkInv
<1> SUFFICES ASSUME Init PROVE LinkInv
  OBVIOUS
<1>1. Types
  BY HostLinkAssumption DEF Init, Types, ConnStages
<1>2. Claimants = {} /\ gate = <<>>
  BY DEF Init, Claimants
<1>3. IsQueue(gate, Claimants)
  BY <1>2 DEF IsQueue
<1>4. GateIsHeld /\ WorkerIsCurrent /\ WorkersServe /\ DeletionUnlinks
  BY DEF Init, GateIsHeld, WorkerIsCurrent, WorkersServe, DeletionUnlinks
<1>5. HandlersRegister /\ LinkedIsEnrolled
  BY HostLinkAssumption DEF Init, HandlersRegister, LinkedIsEnrolled
<1> QED
  BY <1>1, <1>3, <1>4, <1>5 DEF LinkInv

(* Every step keeps every variable in its type.                            *)
LEMMA TypesStep == Types /\ [Next]_vars => Types'
<1> SUFFICES ASSUME Types, [Next]_vars PROVE Types'
  OBVIOUS
<1> USE HostLinkAssumption DEF Types, ConnStages
<1>1. ASSUME NEW c \in Links, HostDials(c) \/ ReadHello(c) \/ DropHandler(c) PROVE Types'
  BY <1>1, SMTT(30) DEF HostDials, ReadHello, DropHandler, deleteVars
<1>2. ASSUME NEW c \in Links, HandlerStep(c) PROVE Types'
  BY <1>2 DEF HandlerStep, Register, MarkPresent, Spawn, deleteVars
<1>3. ASSUME NEW c \in Links, SendHelloAck(c) PROVE Types'
  BY <1>3 DEF SendHelloAck, deleteVars
<1>4. ASSUME NEW c \in Links, TakeMessage(c) PROVE Types'
  BY <1>4, SMTT(30) DEF TakeMessage, deleteVars
<1>5. ASSUME NEW c \in Links, WorkerStep(c) PROVE Types'
  BY <1>5 DEF WorkerStep, CheckCurrent, Handle, deleteVars
<1>6. ASSUME NEW c \in Links, CloseLoop(c) \/ JoinWorker(c) PROVE Types'
  BY <1>6 DEF CloseLoop, JoinWorker, deleteVars
<1>7. ASSUME NEW c \in Links, ForgetLink(c) PROVE Types'
  BY <1>7 DEF ForgetLink, deleteVars
<1>8. EndForModule => session' \in [Sessions -> [state : {"none", "opening", "active", "ended"},
                                                via : Links \cup {NoLink}]]
  BY DEF EndForModule
<1>9. ASSUME NEW c \in Links, EndSessions(c) PROVE Types'
  BY <1>8, <1>9 DEF EndSessions, deleteVars
<1>10. CASE AskDelete
  BY <1>8, <1>10 DEF AskDelete, connVars
<1>11. CASE DeletionStep
  BY <1>11, SMTT(30) DEF DeletionStep, UnlinkDeleted, DeleteFails, Revoke, ForgetDeleted, connVars
<1>12. CASE HostGone \/ Enroll
  BY <1>12 DEF HostGone, Enroll, connVars, deleteVars
<1>13. ASSUME NEW s \in Sessions, SessionStep(s) PROVE Types'
  BY <1>13 DEF SessionStep, OpenLease, Activate, StopSession, connVars, deleteVars
<1>14. CASE UNCHANGED vars
  BY <1>14 DEF vars, connVars, deleteVars
<1> QED
  BY <1>1, <1>2, <1>3, <1>4, <1>5, <1>6, <1>7, <1>9, <1>10, <1>11, <1>12, <1>13, <1>14
     DEF Next, LinkStep, TeardownStep

-----------------------------------------------------------------------------
(* The gate, step by step.                                                 *)

(* What a step makes of the gate: it still queues its claimants, the holder *)
(* is the one whose stage says so, and no two claimants swap places.       *)
GateKept ==
    /\ IsQueue(gate', Claimants')
    /\ GateIsHeld'
    /\ \A a, b \in Claimants' : Before(gate, a, b) => Before(gate', a, b)

(* Nobody is inside the gate but its holder.                               *)
LEMMA OneHolder ==
    ASSUME GateIsHeld, NEW h, Holds(h)
    PROVE  /\ \A c \in Links : conn[c] \in {"registered", "settling"} => h = Handler(c)
           /\ \A c \in Links : worker[c] = "applying" => h = Worker(c)
           /\ deletion \in {"unlinked", "revoked"} => h = Deletion
BY DEF GateIsHeld, Holds

(* A step that moves one handler between stages.                           *)
LEMMA HandlerGate ==
    ASSUME Types, IsQueue(gate, Claimants), GateIsHeld, NEW c \in Links,
           HostDials(c) \/ ReadHello(c) \/ DropHandler(c) \/ HandlerStep(c)
    PROVE  GateKept
<1> USE DEF Types
<1>1. CASE HostDials(c)
  <2>1. conn' = [conn EXCEPT ![c] = "dialled"] /\ UNCHANGED <<worker, deletion, gate>>
        /\ conn[c] = "unused"
    BY <1>1 DEF HostDials, deleteVars
  <2>2. Claimants' = Claimants
    <3>1. Claimants' = Claimants \ {Handler(c)}
      BY <2>1, HandlerClaim, ZenonT(40) DEF HandlerClaims
    <3>2. Handler(c) \notin Claimants
      BY <2>1, Claims DEF HandlerClaims
    <3> QED
      BY <3>1, <3>2
  <2>3. GateIsHeld'
    BY <2>1 DEF GateIsHeld, Holds
  <2> QED
    BY <2>1, <2>2, <2>3 DEF GateKept
<1>2. CASE ReadHello(c)
  <2>1. conn' = [conn EXCEPT ![c] = "waiting"] /\ UNCHANGED <<worker, deletion>>
        /\ conn[c] = "dialled" /\ gate' = Append(gate, Handler(c))
    BY <1>2 DEF ReadHello, deleteVars
  <2>2. Handler(c) \notin Claimants /\ Claimants' = Claimants \cup {Handler(c)}
    BY <2>1, HandlerClaim, Claims DEF HandlerClaims
  <2>3. /\ IsQueue(gate', Claimants')
        /\ gate' # <<>> /\ (gate # <<>> => Head(gate') = Head(gate))
        /\ \A a, b : Before(gate, a, b) => Before(gate', a, b)
    BY <2>1, <2>2, QueueJoin
  <2>4. GateIsHeld'
    BY <2>1, <2>3 DEF GateIsHeld, Holds
  <2> QED
    BY <2>3, <2>4 DEF GateKept
<1>3. CASE DropHandler(c)
  <2>1. conn' = [conn EXCEPT ![c] = "gone"] /\ UNCHANGED <<worker, deletion>>
        /\ gate' = Without(Handler(c))
    BY <1>3 DEF DropHandler, deleteVars
  <2>2. Claimants' = Claimants \ {Handler(c)}
    BY <2>1, HandlerClaim DEF HandlerClaims
  <2>3. /\ IsQueue(gate', Claimants')
        /\ gate # <<>> /\ Head(gate) # Handler(c) =>
                gate' # <<>> /\ Head(gate') = Head(gate)
        /\ \A a, b \in Claimants' : Before(gate, a, b) => Before(gate', a, b)
    BY <2>1, <2>2, QueueLeave
  <2>4. GateIsHeld'
    BY <2>1, <2>3, PartyNames DEF GateIsHeld, Holds
  <2> QED
    BY <2>3, <2>4 DEF GateKept
<1>4. CASE (Register(c) /\ presented[c] # cert) \/ Spawn(c)
  <2>1. PICK x \in {"gone", "acking"} : conn' = [conn EXCEPT ![c] = x]
    BY <1>4 DEF Register, Spawn
  <2>2. UNCHANGED <<worker, deletion>> /\ gate' = Tail(gate) /\ Holds(Handler(c))
    BY <1>4 DEF Register, Spawn, deleteVars, GateIsHeld
  <2>3. Claimants' = Claimants \ {Handler(c)}
    BY <2>1, <2>2, HandlerClaim DEF HandlerClaims
  <2>4. gate # <<>> /\ Head(gate) = Handler(c)
    BY <2>2 DEF Holds
  <2>5. /\ IsQueue(gate', Claimants')
        /\ \A a, b \in Claimants' : Before(gate, a, b) => Before(gate', a, b)
    BY <2>2, <2>3, <2>4, QueueRelease
  <2>6. GateIsHeld'
    BY <2>1, <2>2, OneHolder, PartyNames DEF GateIsHeld
  <2> QED
    BY <2>5, <2>6 DEF GateKept
<1>5. CASE (Register(c) /\ presented[c] = cert) \/ MarkPresent(c)
  <2>1. PICK x \in {"registered", "settling"} : conn' = [conn EXCEPT ![c] = x]
    BY <1>5 DEF Register, MarkPresent
  <2>2. UNCHANGED <<worker, deletion, gate>> /\ Holds(Handler(c))
        /\ conn[c] \in HandlerClaims
    BY <1>5 DEF Register, MarkPresent, deleteVars, GateIsHeld, HandlerClaims
  <2>3. Claimants' = Claimants
    <3>1. Claimants' = Claimants \cup {Handler(c)}
      BY <2>1, <2>2, HandlerClaim DEF HandlerClaims
    <3>2. Handler(c) \in Claimants
      BY <2>2, Claims
    <3> QED
      BY <3>1, <3>2
  <2>4. GateIsHeld'
    BY <2>1, <2>2 DEF GateIsHeld, Holds
  <2> QED
    BY <2>2, <2>3, <2>4 DEF GateKept
<1> QED
  BY <1>1, <1>2, <1>3, <1>4, <1>5 DEF HandlerStep, Register

(* A step of a link's task or of its worker.                               *)
LEMMA TaskGate ==
    ASSUME Types, IsQueue(gate, Claimants), GateIsHeld, WorkersServe, NEW c \in Links,
           \/ SendHelloAck(c) \/ TakeMessage(c) \/ WorkerStep(c)
           \/ CloseLoop(c) \/ TeardownStep(c)
    PROVE  GateKept
<1> USE DEF Types
<1>1. CASE SendHelloAck(c) \/ CloseLoop(c) \/ ForgetLink(c) \/ EndSessions(c)
  <2>1. PICK x \in ConnStages \ HandlerClaims : conn' = [conn EXCEPT ![c] = x]
    BY <1>1 DEF SendHelloAck, CloseLoop, ForgetLink, EndSessions, ConnStages, HandlerClaims
  <2>2. conn[c] \notin HandlerClaims /\ UNCHANGED <<deletion, gate>>
    BY <1>1 DEF SendHelloAck, CloseLoop, ForgetLink, EndSessions, HandlerClaims, deleteVars
  <2>3. CASE worker' = worker
    <3>1. Claimants' = Claimants
      <4>1. Claimants' = Claimants \ {Handler(c)}
        BY <2>1, <2>2, <2>3, HandlerClaim
      <4>2. Handler(c) \notin Claimants
        BY <2>2, Claims
      <4> QED
        BY <4>1, <4>2
    <3>2. GateIsHeld'
      BY <2>1, <2>2, <2>3 DEF GateIsHeld, Holds, HandlerClaims
    <3> QED
      BY <2>2, <3>1, <3>2 DEF GateKept
  <2>4. CASE worker' = [worker EXCEPT ![c] = "idle"] /\ worker[c] \notin WorkerClaims
    <3>1. \A d \in Links : conn'[d] \in HandlerClaims <=> conn[d] \in HandlerClaims
      BY <2>1, <2>2
    <3>2. Claimants' = Claimants
      <4>1. Claimants' = Claimants \ {Worker(c)}
        BY <2>2, <2>4, <3>1, WorkerClaim DEF WorkerClaims
      <4>2. Worker(c) \notin Claimants
        BY <2>4, Claims
      <4> QED
        BY <4>1, <4>2
    <3>3. GateIsHeld'
      BY <2>1, <2>2, <2>4 DEF GateIsHeld, Holds, HandlerClaims
    <3> QED
      BY <2>2, <3>2, <3>3 DEF GateKept
  <2> QED
    BY <1>1, <2>3, <2>4
       DEF SendHelloAck, CloseLoop, ForgetLink, EndSessions, WorkersServe, WorkerClaims
<1>2. CASE TakeMessage(c)
  <2>1. worker' = [worker EXCEPT ![c] = "queued"] /\ UNCHANGED <<conn, deletion>>
        /\ worker[c] = "idle" /\ gate' = Append(gate, Worker(c))
    BY <1>2 DEF TakeMessage, deleteVars
  <2>2. Worker(c) \notin Claimants /\ Claimants' = Claimants \cup {Worker(c)}
    BY <2>1, WorkerClaim, Claims DEF WorkerClaims
  <2>3. /\ IsQueue(gate', Claimants')
        /\ gate' # <<>> /\ (gate # <<>> => Head(gate') = Head(gate))
        /\ \A a, b : Before(gate, a, b) => Before(gate', a, b)
    BY <2>1, <2>2, QueueJoin
  <2>4. GateIsHeld'
    BY <2>1, <2>3 DEF GateIsHeld, Holds
  <2> QED
    BY <2>3, <2>4 DEF GateKept
<1>3. CASE CheckCurrent(c) /\ links = c
  <2>1. worker' = [worker EXCEPT ![c] = "applying"] /\ UNCHANGED <<conn, deletion, gate>>
        /\ Holds(Worker(c)) /\ worker[c] = "queued"
    BY <1>3 DEF CheckCurrent, deleteVars
  <2>2. Claimants' = Claimants
    <3>1. Claimants' = Claimants \cup {Worker(c)}
      BY <2>1, WorkerClaim DEF WorkerClaims
    <3>2. Worker(c) \in Claimants
      BY <2>1, Claims DEF WorkerClaims
    <3> QED
      BY <3>1, <3>2
  <2>3. GateIsHeld'
    BY <2>1 DEF GateIsHeld, Holds
  <2> QED
    BY <2>1, <2>2, <2>3 DEF GateKept
<1>4. CASE (CheckCurrent(c) /\ links # c) \/ Handle(c)
  <2>1. PICK x \in {"idle", "stopped"} : worker' = [worker EXCEPT ![c] = x]
    BY <1>4 DEF CheckCurrent, Handle
  <2>2. UNCHANGED <<conn, deletion>> /\ gate' = Tail(gate) /\ Holds(Worker(c))
    BY <1>4 DEF CheckCurrent, Handle, deleteVars, GateIsHeld
  <2>3. Claimants' = Claimants \ {Worker(c)}
    BY <2>1, <2>2, WorkerClaim DEF WorkerClaims
  <2>4. gate # <<>> /\ Head(gate) = Worker(c)
    BY <2>2 DEF Holds
  <2>5. /\ IsQueue(gate', Claimants')
        /\ \A a, b \in Claimants' : Before(gate, a, b) => Before(gate', a, b)
    BY <2>2, <2>3, <2>4, QueueRelease
  <2>6. GateIsHeld'
    BY <2>1, <2>2, OneHolder, PartyNames DEF GateIsHeld
  <2> QED
    BY <2>5, <2>6 DEF GateKept
<1>5. CASE JoinWorker(c)
  <2>1. /\ conn' = [conn EXCEPT ![c] = "forgetting"] /\ conn[c] = "closing"
        /\ worker' = [worker EXCEPT ![c] = "none"] /\ UNCHANGED deletion
        /\ gate' = Without(Worker(c))
    BY <1>5 DEF JoinWorker, deleteVars
  <2>2. \A d \in Links : conn'[d] \in HandlerClaims <=> conn[d] \in HandlerClaims
    BY <2>1 DEF HandlerClaims
  <2>3. Claimants' = Claimants \ {Worker(c)}
    BY <2>1, <2>2, WorkerClaim, ZenonT(40) DEF WorkerClaims
  <2>4. /\ IsQueue(gate', Claimants')
        /\ gate # <<>> /\ Head(gate) # Worker(c) =>
                gate' # <<>> /\ Head(gate') = Head(gate)
        /\ \A a, b \in Claimants' : Before(gate, a, b) => Before(gate', a, b)
    BY <2>1, <2>3, QueueLeave
  <2>5. GateIsHeld'
    BY <2>1, <2>4, PartyNames DEF GateIsHeld, Holds
  <2> QED
    BY <2>4, <2>5 DEF GateKept
<1> QED
  BY <1>1, <1>2, <1>3, <1>4, <1>5 DEF WorkerStep, TeardownStep

(* A step of the deletion.                                                 *)
LEMMA DeletionGate ==
    ASSUME Types, IsQueue(gate, Claimants), GateIsHeld, AskDelete \/ DeletionStep
    PROVE  GateKept
<1> USE DEF Types
<1>1. UNCHANGED <<conn, worker>>
  BY DEF AskDelete, DeletionStep, UnlinkDeleted, DeleteFails, Revoke, ForgetDeleted, connVars
<1>2. CASE AskDelete
  <2>1. deletion = "idle" /\ deletion' = "waiting" /\ gate' = Append(gate, Deletion)
    BY <1>2 DEF AskDelete
  <2>2. Deletion \notin Claimants /\ Claimants' = Claimants \cup {Deletion}
    BY <1>1, <2>1, DeletionClaim, Claims
  <2>3. /\ IsQueue(gate', Claimants')
        /\ gate' # <<>> /\ (gate # <<>> => Head(gate') = Head(gate))
        /\ \A a, b : Before(gate, a, b) => Before(gate', a, b)
    BY <2>1, <2>2, QueueJoin
  <2>4. GateIsHeld'
    BY <1>1, <2>1, <2>3 DEF GateIsHeld, Holds
  <2> QED
    BY <2>3, <2>4 DEF GateKept
<1>3. CASE (UnlinkDeleted /\ cert # 0) \/ Revoke
  <2>1. /\ deletion # "idle" /\ deletion' \in {"unlinked", "revoked"}
        /\ UNCHANGED gate /\ Holds(Deletion)
    BY <1>3 DEF UnlinkDeleted, Revoke, GateIsHeld
  <2>2. Claimants' = Claimants \cup {Deletion}
    BY <1>1, <2>1, DeletionClaim
  <2>3. Deletion \in Claimants
    BY <2>1, Claims
  <2>4. Claimants' = Claimants
    BY <2>2, <2>3
  <2>5. GateIsHeld'
    BY <1>1, <2>1 DEF GateIsHeld, Holds
  <2> QED
    BY <2>1, <2>4, <2>5 DEF GateKept
<1>4. CASE (UnlinkDeleted /\ cert = 0) \/ DeleteFails \/ ForgetDeleted
  <2>1. deletion' = "idle" /\ gate' = Tail(gate) /\ Holds(Deletion)
    BY <1>4 DEF UnlinkDeleted, DeleteFails, ForgetDeleted, GateIsHeld
  <2>2. Claimants' = Claimants \ {Deletion}
    BY <1>1, <2>1, DeletionClaim
  <2>3. gate # <<>> /\ Head(gate) = Deletion
    BY <2>1 DEF Holds
  <2>4. /\ IsQueue(gate', Claimants')
        /\ \A a, b \in Claimants' : Before(gate, a, b) => Before(gate', a, b)
    BY <2>1, <2>2, <2>3, QueueRelease
  <2>5. GateIsHeld'
    BY <1>1, <2>1, OneHolder, PartyNames DEF GateIsHeld
  <2> QED
    BY <2>4, <2>5 DEF GateKept
<1> QED
  BY <1>2, <1>3, <1>4 DEF DeletionStep

(* Every step keeps the gate a queue of its claimants with one holder.     *)
LEMMA GateStep ==
    ASSUME Types, IsQueue(gate, Claimants), GateIsHeld, WorkersServe, [Next]_vars
    PROVE  GateKept
<1>1. CASE \E c \in Links : LinkStep(c)
  BY <1>1, HandlerGate, TaskGate DEF LinkStep
<1>2. CASE AskDelete \/ DeletionStep
  BY <1>2, DeletionGate
<1>3. CASE (\E s \in Sessions : SessionStep(s)) \/ HostGone \/ Enroll \/ UNCHANGED vars
  <2>1. UNCHANGED <<conn, worker, deletion, gate>>
    BY <1>3 DEF SessionStep, OpenLease, Activate, StopSession, HostGone, Enroll, vars,
                connVars, deleteVars
  <2>2. Claimants' = Claimants
    BY <2>1 DEF Claimants
  <2>3. GateIsHeld'
    BY <2>1 DEF GateIsHeld, Holds
  <2> QED
    BY <2>1, <2>2, <2>3 DEF GateKept
<1> QED
  BY <1>1, <1>2, <1>3 DEF Next

-----------------------------------------------------------------------------
(* What the registered link means, step by step.                           *)

(* What the invariant says of the maps, the certificate and the workers.   *)
Registered ==
    /\ WorkerIsCurrent
    /\ WorkersServe
    /\ HandlersRegister
    /\ DeletionUnlinks
    /\ LinkedIsEnrolled

(* The handshake.                                                          *)
LEMMA HandshakeRegisters ==
    ASSUME LinkInv, NEW c \in Links,
           HostDials(c) \/ ReadHello(c) \/ DropHandler(c) \/ HandlerStep(c)
    PROVE  Registered'
<1> USE HostLinkAssumption
    DEF LinkInv, Types, Registered, WorkerIsCurrent, WorkersServe, HandlersRegister,
        DeletionUnlinks, LinkedIsEnrolled, deleteVars
<1>1. CASE HostDials(c)
  BY <1>1 DEF HostDials
<1>2. CASE ReadHello(c)
  BY <1>2 DEF ReadHello
<1>3. CASE DropHandler(c)
  BY <1>3 DEF DropHandler
<1>4. CASE Register(c)
  <2>1. /\ \A d \in Links : /\ worker[d] # "applying"
                            /\ conn[d] \notin {"registered", "settling"}
        /\ deletion \notin {"unlinked", "revoked"}
    <3>1. Holds(Handler(c)) /\ conn[c] = "waiting"
      BY <1>4 DEF Register
    <3> QED
      BY <3>1, OneHolder, PartyNames
  <2> QED
    BY <1>4, <2>1, SMTT(30) DEF Register
<1>5. CASE MarkPresent(c)
  BY <1>5 DEF MarkPresent
<1>6. CASE Spawn(c)
  BY <1>6 DEF Spawn
<1> QED
  BY <1>1, <1>2, <1>3, <1>4, <1>5, <1>6 DEF HandlerStep

(* The link's task and its worker.                                         *)
LEMMA TaskRegisters ==
    ASSUME LinkInv, NEW c \in Links,
           \/ SendHelloAck(c) \/ TakeMessage(c) \/ WorkerStep(c)
           \/ CloseLoop(c) \/ TeardownStep(c)
    PROVE  Registered'
<1> USE HostLinkAssumption
    DEF LinkInv, Types, Registered, WorkerIsCurrent, WorkersServe, HandlersRegister,
        DeletionUnlinks, LinkedIsEnrolled, deleteVars
<1>1. CASE SendHelloAck(c)
  BY <1>1 DEF SendHelloAck
<1>2. CASE TakeMessage(c)
  BY <1>2 DEF TakeMessage
<1>3. CASE CheckCurrent(c)
  BY <1>3 DEF CheckCurrent
<1>4. CASE Handle(c)
  BY <1>4 DEF Handle
<1>5. CASE CloseLoop(c)
  BY <1>5 DEF CloseLoop
<1>6. CASE JoinWorker(c)
  BY <1>6 DEF JoinWorker
<1>7. CASE ForgetLink(c)
  BY <1>7 DEF ForgetLink
<1>8. CASE EndSessions(c)
  BY <1>8 DEF EndSessions
<1> QED
  BY <1>1, <1>2, <1>3, <1>4, <1>5, <1>6, <1>7, <1>8 DEF WorkerStep, TeardownStep

(* The deletion.                                                           *)
LEMMA DeletionRegisters ==
    ASSUME LinkInv, AskDelete \/ DeletionStep
    PROVE  Registered'
<1> USE HostLinkAssumption
    DEF LinkInv, Types, Registered, WorkerIsCurrent, WorkersServe, HandlersRegister,
        DeletionUnlinks, LinkedIsEnrolled, connVars
<1>1. CASE AskDelete
  BY <1>1 DEF AskDelete
<1>2. CASE UnlinkDeleted
  <2>1. \A d \in Links : worker[d] # "applying" /\ conn[d] \notin {"registered", "settling"}
    BY <1>2, OneHolder, PartyNames DEF UnlinkDeleted
  <2> QED
    BY <1>2, <2>1 DEF UnlinkDeleted
<1>3. CASE DeleteFails
  BY <1>3 DEF DeleteFails
<1>4. CASE Revoke
  BY <1>4 DEF Revoke
<1>5. CASE ForgetDeleted
  BY <1>5 DEF ForgetDeleted
<1> QED
  BY <1>1, <1>2, <1>3, <1>4, <1>5 DEF DeletionStep

(* Every step keeps the invariant.                                         *)
LEMMA InvStep == LinkInv /\ [Next]_vars => LinkInv'
<1> SUFFICES ASSUME LinkInv, [Next]_vars PROVE LinkInv'
  OBVIOUS
<1>1. Types'
  BY TypesStep DEF LinkInv
<1>2. GateKept
  BY GateStep DEF LinkInv
<1>3. Registered'
  <2>1. CASE \E c \in Links : LinkStep(c)
    BY <2>1, HandshakeRegisters, TaskRegisters DEF LinkStep
  <2>2. CASE AskDelete \/ DeletionStep
    BY <2>2, DeletionRegisters
  <2>3. CASE (\E s \in Sessions : SessionStep(s)) \/ HostGone \/ UNCHANGED vars
    <3>1. UNCHANGED <<cert, presented, conn, worker, links, present, deletion>>
      BY <2>3 DEF SessionStep, OpenLease, Activate, StopSession, HostGone, vars,
                  connVars, deleteVars
    <3> QED
      BY <3>1 DEF LinkInv, Registered, WorkerIsCurrent, WorkersServe, HandlersRegister,
                  DeletionUnlinks, LinkedIsEnrolled
  <2>4. CASE Enroll
    BY <2>4, HostLinkAssumption
       DEF Enroll, LinkInv, Types, Registered, WorkerIsCurrent, WorkersServe,
           HandlersRegister, DeletionUnlinks, LinkedIsEnrolled, connVars, deleteVars
  <2> QED
    BY <2>1, <2>2, <2>3, <2>4 DEF Next
<1> QED
  BY <1>1, <1>2, <1>3 DEF LinkInv, GateKept, Registered

(* Connections, teardowns, catalogue messages and deletions in any order    *)
(* keep the invariant.                                                     *)
THEOREM LinkInvariant == Spec => []LinkInv
<1>1. Spec => Init /\ [][Next]_vars
  BY DEF Spec
<1> QED
  BY <1>1, InitInv, InvStep, PTL

(* Every task keeps to its stages, and catalog_apply_lock queues each task  *)
(* that wants it exactly once: an aborted worker or a dropped handler leaves *)
(* nothing behind.                                                         *)
THEOREM TypeCorrect == Spec => []TypeOK
<1>1. LinkInv => TypeOK
  <2> SUFFICES ASSUME LinkInv PROVE TypeOK
    OBVIOUS
  <2>1. Len(gate) = Cardinality(Claimants)
    BY QueueLength DEF LinkInv
  <2> QED
    BY <2>1 DEF LinkInv, Types, IsQueue, TypeOK
<1> QED
  BY <1>1, LinkInvariant, PTL

(* host_link_is_current is asked once, at the start of a message: it still  *)
(* holds when the message commits, because whatever would register another  *)
(* link or unregister this one awaits the gate or has ended the worker.    *)
THEOREM OnlyTheCurrentLinkWrites == Spec => []WorkerIsCurrent
<1>1. LinkInv => WorkerIsCurrent
  BY DEF LinkInv
<1> QED
  BY <1>1, LinkInvariant, PTL

(* No link stays registered under a certificate that is not enrolled, and a *)
(* host that was deleted is not offered as a source.                       *)
THEOREM NoLinkOutlivesItsCertificate == Spec => []LinkedIsEnrolled
<1>1. LinkInv => LinkedIsEnrolled
  BY DEF LinkInv
<1> QED
  BY <1>1, LinkInvariant, PTL

-----------------------------------------------------------------------------
(* The two maps agree, where no database step of a deletion fails.         *)

(* Outside the deletion and the one step between register_link and          *)
(* connected, the host is present exactly when it can be reached.          *)
MapsAgree ==
    /\ deletion \notin {"unlinked", "revoked"}
    /\ \A c \in Links : conn[c] # "registered"
    => (links # NoLink <=> present = "up")

(* Every step keeps them agreeing.                                         *)
LEMMA AgreeStep ==
    ASSUME LinkInv, MapsAgree, [Next]_vars, ~FailingDelete
    PROVE  MapsAgree'
<1> USE HostLinkAssumption DEF LinkInv, Types, MapsAgree
<1>1. ASSUME NEW c \in Links, Register(c) PROVE MapsAgree'
  BY <1>1 DEF Register, deleteVars
<1>2. ASSUME NEW c \in Links, MarkPresent(c) PROVE MapsAgree'
  BY <1>2 DEF MarkPresent, HandlersRegister, deleteVars
<1>3. ASSUME NEW c \in Links, ForgetLink(c) PROVE MapsAgree'
  BY <1>3 DEF ForgetLink, HandlersRegister, DeletionUnlinks, deleteVars
<1>4. ASSUME NEW c \in Links,
             \/ HostDials(c) \/ ReadHello(c) \/ DropHandler(c) \/ Spawn(c)
             \/ SendHelloAck(c) \/ TakeMessage(c) \/ WorkerStep(c)
             \/ CloseLoop(c) \/ JoinWorker(c) \/ EndSessions(c)
      PROVE  MapsAgree'
  <2>1. UNCHANGED <<links, present, deletion>>
    BY <1>4 DEF HostDials, ReadHello, DropHandler, Spawn, SendHelloAck, TakeMessage,
                WorkerStep, CheckCurrent, Handle, CloseLoop, JoinWorker, EndSessions,
                deleteVars
  <2>2. conn[c] # "registered" /\ \A d \in Links : d # c => conn'[d] = conn[d]
    BY <1>4 DEF HostDials, ReadHello, DropHandler, Spawn, SendHelloAck, TakeMessage,
                WorkerStep, CheckCurrent, Handle, CloseLoop, JoinWorker, EndSessions,
                WorkersServe
  <2> QED
    BY <2>1, <2>2
<1>5. CASE AskDelete \/ UnlinkDeleted \/ Revoke
  BY <1>5 DEF AskDelete, UnlinkDeleted, Revoke, connVars
<1>6. CASE DeleteFails
  BY <1>6 DEF DeleteFails
<1>7. CASE ForgetDeleted
  BY <1>7 DEF ForgetDeleted, DeletionUnlinks, connVars
<1>8. CASE (\E s \in Sessions : SessionStep(s)) \/ HostGone \/ Enroll \/ UNCHANGED vars
  BY <1>8 DEF SessionStep, OpenLease, Activate, StopSession, HostGone, Enroll, vars,
              connVars, deleteVars
<1> QED
  BY <1>1, <1>2, <1>3, <1>4, <1>5, <1>6, <1>7, <1>8
     DEF Next, LinkStep, HandlerStep, TeardownStep, DeletionStep

(* Where deletions do not fail halfway, `links` and `connected` are never    *)
(* left disagreeing: unregister_link_if_current clears both for one link,    *)
(* and the handshake and the deletion set both before they release the gate. *)
THEOREM MapsNeverDisagree ==
    ASSUME ~FailingDelete
    PROVE  Spec => []LinksAgree
<1>1. Init => MapsAgree
  BY HostLinkAssumption DEF Init, MapsAgree
<1>2. LinkInv /\ MapsAgree /\ [Next]_vars => MapsAgree'
  BY AgreeStep
<1>3. LinkInv /\ MapsAgree => LinksAgree
  BY DEF LinkInv, GateIsHeld, Holds, MapsAgree, LinksAgree
<1>4. Spec => Init /\ [][Next]_vars
  BY DEF Spec
<1> QED
  BY <1>1, <1>2, <1>3, <1>4, LinkInvariant, PTL

-----------------------------------------------------------------------------
(* A served host is visible, where connections greet in the order in which *)
(* they were dialled.                                                      *)

(* Links are opened one after the other, the last one being the peer's.    *)
DialledInOrder ==
    /\ \A c, d \in Links : d < c /\ conn[d] = "unused" => conn[c] = "unused"
    /\ peer # NoLink => conn[peer] # "unused"
                        /\ \A d \in Links : d > peer => conn[d] = "unused"

(* Handlers reach the gate in that order and pass it in that order, so a    *)
(* link that is registered has no earlier one still to come.               *)
GreetedInOrder ==
    \A c, d \in Links : d < c =>
        /\ conn[c] = "waiting" => conn[d] # "dialled"
        /\ conn[c] = "waiting" /\ conn[d] = "waiting" =>
                Before(gate, Handler(d), Handler(c))
        /\ conn[c] \notin {"unused", "dialled", "waiting", "gone"} =>
                conn[d] \notin {"dialled", "waiting"}

(* What the host is connected to is registered, until it is deleted.       *)
PeerRegistered ==
    /\ peer # NoLink
    /\ conn[peer] \in {"registered", "settling", "acking", "serving"}
    /\ presented[peer] = cert
    => links = peer \/ deletion = "unlinked"

(* Every step keeps both orders: a handler is only ever overtaken at the    *)
(* gate by being dropped.                                                  *)
LEMMA OrderStep ==
    ASSUME LinkInv, DialledInOrder, GreetedInOrder, [Next]_vars, HellosInOrder
    PROVE  DialledInOrder' /\ GreetedInOrder'
<1> USE HostLinkAssumption DEF LinkInv, Types, ConnStages, DialledInOrder, GreetedInOrder
<1>0. /\ \A a, b \in Claimants' : Before(gate, a, b) => Before(gate', a, b)
      /\ \A d \in Links : conn'[d] = "waiting" => Handler(d) \in Claimants'
  <2>1. \A d \in Links : conn'[d] = "waiting" => Handler(d) \in Claimants'
    BY DEF Claimants
  <2>2. GateKept
    BY GateStep
  <2> QED
    BY <2>1, <2>2 DEF GateKept
<1>1. ASSUME NEW c \in Links, HostDials(c)
      PROVE  DialledInOrder' /\ GreetedInOrder'
  BY <1>0, <1>1 DEF HostDials
<1>2. ASSUME NEW c \in Links, ReadHello(c)
      PROVE  DialledInOrder' /\ GreetedInOrder'
  <2>1. \A d \in Links : d # c /\ conn[d] = "waiting" => Before(gate', Handler(d), Handler(c))
    <3>1. /\ Handler(c) \notin Claimants
          /\ \A d \in Links : conn[d] = "waiting" => Handler(d) \in Claimants
      BY <1>2, Claims DEF ReadHello, HandlerClaims
    <3>2. gate' = Append(gate, Handler(c))
      BY <1>2 DEF ReadHello
    <3> QED
      BY <3>1, <3>2, QueueJoin
  <2> QED
    BY <1>0, <1>2, <2>1 DEF ReadHello
<1>3. ASSUME NEW c \in Links, Register(c)
      PROVE  DialledInOrder' /\ GreetedInOrder'
  <2>1. \A d \in Links : d < c => conn[d] # "waiting"
    <3>1. gate # <<>> /\ Head(gate) = Handler(c) /\ conn[c] = "waiting"
      BY <1>3 DEF Register, Holds
    <3>2. IsQueue(gate, Claimants)
      OBVIOUS
    <3>3. \A a : ~Before(gate, a, Head(gate))
      BY <3>1, <3>2, QueueHead, Zenon
    <3> QED
      BY <3>1, <3>3
  <2>2. PICK x \in {"gone", "registered"} : conn' = [conn EXCEPT ![c] = x]
    BY <1>3 DEF Register
  <2> QED
    BY <1>0, <1>3, <2>1, <2>2, SMTT(30) DEF Register
<1>4. ASSUME NEW c \in Links, DropHandler(c) \/ MarkPresent(c) \/ Spawn(c) \/ SendHelloAck(c)
      PROVE  DialledInOrder' /\ GreetedInOrder'
  <2>1. CASE DropHandler(c)
    BY <1>0, <2>1 DEF DropHandler
  <2>2. CASE MarkPresent(c) \/ Spawn(c)
    <3>1. PICK x \in {"settling", "acking"} : conn' = [conn EXCEPT ![c] = x]
      BY <2>2 DEF MarkPresent, Spawn
    <3>2. conn[c] \in {"registered", "settling"} /\ UNCHANGED peer
      BY <2>2 DEF MarkPresent, Spawn
    <3> QED
      BY <1>0, <3>1, <3>2
  <2>3. CASE SendHelloAck(c)
    <3>1. PICK x \in {"serving", "forgetting"} : conn' = [conn EXCEPT ![c] = x]
      BY <2>3 DEF SendHelloAck
    <3> QED
      BY <1>0, <2>3, <3>1 DEF SendHelloAck
  <2> QED
    BY <1>4, <2>1, <2>2, <2>3
<1>5. ASSUME NEW c \in Links, CloseLoop(c) \/ TeardownStep(c)
      PROVE  DialledInOrder' /\ GreetedInOrder'
  BY <1>0, <1>5 DEF CloseLoop, TeardownStep, JoinWorker, ForgetLink, EndSessions
<1>6. ASSUME NEW c \in Links, TakeMessage(c) \/ WorkerStep(c)
      PROVE  DialledInOrder' /\ GreetedInOrder'
  <2>1. UNCHANGED <<peer, conn>>
    BY <1>6 DEF TakeMessage, WorkerStep, CheckCurrent, Handle
  <2> QED
    BY <1>0, <2>1
<1>7. CASE AskDelete \/ DeletionStep \/ (\E s \in Sessions : SessionStep(s))
           \/ HostGone \/ Enroll \/ UNCHANGED vars
  <2>1. UNCHANGED conn /\ (peer' = peer \/ peer' = NoLink)
    BY <1>7 DEF AskDelete, DeletionStep, UnlinkDeleted, DeleteFails, Revoke, ForgetDeleted,
                SessionStep, OpenLease, Activate, StopSession, HostGone, Enroll, vars, connVars
  <2> QED
    BY <1>0, <2>1
<1> QED
  BY <1>1, <1>2, <1>3, <1>4, <1>5, <1>6, <1>7 DEF Next, LinkStep, HandlerStep

(* Only an earlier handshake or a teardown could replace the host's link, and *)
(* neither is left.                                                        *)
LEMMA PeerStep ==
    ASSUME LinkInv, DialledInOrder, GreetedInOrder, PeerRegistered, [Next]_vars,
           ~FailingDelete
    PROVE  PeerRegistered'
<1> USE HostLinkAssumption DEF LinkInv, Types, HandlersRegister, PeerRegistered
<1>1. ASSUME NEW c \in Links, HostDials(c) PROVE PeerRegistered'
  BY <1>1 DEF HostDials, deleteVars
<1>2. ASSUME NEW c \in Links, Register(c) PROVE PeerRegistered'
  <2>1. CASE peer = NoLink \/ peer = c
    BY <1>2, <2>1 DEF Register, deleteVars
  <2>2. CASE peer \in Links /\ peer # c
    <3>1. conn[c] = "waiting" /\ (peer < c \/ c < peer)
      BY <1>2, <2>2 DEF Register
    <3>2. conn[peer] \notin {"registered", "settling", "acking", "serving"}
      BY <2>2, <3>1 DEF DialledInOrder, GreetedInOrder
    <3> QED
      BY <1>2, <2>2, <3>2 DEF Register, deleteVars
  <2> QED
    BY <2>1, <2>2
<1>3. ASSUME NEW c \in Links,
             \/ ReadHello(c) \/ DropHandler(c) \/ MarkPresent(c) \/ Spawn(c)
             \/ SendHelloAck(c) \/ CloseLoop(c) \/ JoinWorker(c) \/ EndSessions(c)
      PROVE  PeerRegistered'
  BY <1>3 DEF ReadHello, DropHandler, MarkPresent, Spawn, SendHelloAck, CloseLoop, JoinWorker,
              EndSessions, deleteVars
<1>4. ASSUME NEW c \in Links, ForgetLink(c) PROVE PeerRegistered'
  BY <1>4 DEF ForgetLink, deleteVars
<1>5. ASSUME NEW c \in Links, TakeMessage(c) \/ WorkerStep(c) PROVE PeerRegistered'
  BY <1>5 DEF TakeMessage, WorkerStep, CheckCurrent, Handle, deleteVars
<1>6. CASE AskDelete \/ (\E s \in Sessions : SessionStep(s)) \/ HostGone \/ UNCHANGED vars
  BY <1>6 DEF AskDelete, SessionStep, OpenLease, Activate, StopSession, HostGone, vars,
              connVars, deleteVars
<1>7. CASE UnlinkDeleted \/ DeleteFails \/ Revoke \/ ForgetDeleted
  BY <1>7 DEF UnlinkDeleted, DeleteFails, Revoke, ForgetDeleted, connVars
<1>8. CASE Enroll
  BY <1>8 DEF Enroll, connVars, deleteVars
<1> QED
  BY <1>1, <1>2, <1>3, <1>4, <1>5, <1>6, <1>7, <1>8
     DEF Next, LinkStep, HandlerStep, TeardownStep, DeletionStep

(* A host that is connected and being served is visible: where connections  *)
(* greet in order and no deletion fails halfway, neither the teardown nor    *)
(* the handshake of an earlier link of the same host hides it.              *)
THEOREM ServedHostIsVisible ==
    ASSUME HellosInOrder, ~FailingDelete
    PROVE  Spec => []HealthyHostVisible
<1> DEFINE OrderInv == MapsAgree /\ DialledInOrder /\ GreetedInOrder /\ PeerRegistered
<1>1. Init => OrderInv
  BY HostLinkAssumption
     DEF Init, MapsAgree, DialledInOrder, GreetedInOrder, PeerRegistered
<1>2. LinkInv /\ OrderInv /\ [Next]_vars => OrderInv'
  BY AgreeStep, OrderStep, PeerStep
<1>3. LinkInv /\ OrderInv => HealthyHostVisible
  BY HostLinkAssumption
     DEF LinkInv, Types, HandlersRegister, MapsAgree, PeerRegistered, HealthyHostVisible
<1>4. Spec => Init /\ [][Next]_vars
  BY DEF Spec
<1> QED
  BY <1>1, <1>2, <1>3, <1>4, LinkInvariant, PTL
=============================================================================
