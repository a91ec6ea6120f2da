------------------------------ MODULE HostLink ------------------------------
(***************************************************************************)
(* The hub's view of ONE mediahost while its control link comes and goes:  *)
(* MediahostLinkService::link and forget_link (link_service.rs) over the   *)
(* `links` and `connected` maps and the catalogue gate of the registry     *)
(* (registry.rs), the deletion of the satellite, and the sessions that     *)
(* read from the host.                                                     *)
(*                                                                         *)
(* Every link is a task of its own and outlives its connection: a box that *)
(* lost power is only missed 35 s later, when it may be back already.  The *)
(* sender and the generation of a link are both its identity here, since   *)
(* each link registers at most once.  The gate is a tokio Mutex, which     *)
(* serves its waiters in order.                                            *)
(***************************************************************************)
EXTENDS Integers, Sequences, FiniteSets

CONSTANTS
    Links,          \* connections the host opens, one after the other
    Sessions,       \* playback sessions that read from the host
    NoLink,
    MaxMessages,    \* bound: catalogue messages a link delivers
    MaxDeletes,     \* bound: times an admin deletes the satellite
    FailingDelete,  \* TRUE: a database step of the deletion may fail
    DroppedHandler, \* TRUE: the client may go while settle_renewal runs
    HellosInOrder   \* TRUE: an older connection's Hello is never read
                    \*   after a newer one's

ASSUME HostLinkAssumption ==
    /\ Links \subseteq Nat
    /\ IsFiniteSet(Links)
    /\ NoLink \notin Links
    /\ MaxMessages \in Nat
    /\ MaxDeletes \in Nat
    /\ FailingDelete \in BOOLEAN
    /\ DroppedHandler \in BOOLEAN
    /\ HellosInOrder \in BOOLEAN

VARIABLES
    peer,       \* the connection the host itself holds open, or NoLink
    cert,       \* satellites.cert_fingerprint, numbered; 0 without a row
    issued,     \* certificates ever issued
    presented,  \* [Links -> the certificate the connection presented]
    conn,       \* [Links -> where its handler or task is]
    worker,     \* [Links -> where its catalogue worker is]
    todo,       \* [Links -> catalogue messages still to come]
    gate,       \* catalog_apply_lock: its holder, then its waiters
    links,      \* registry.links[module]: the registered link
    present,    \* registry.connected[module]: "absent", "up" or "down"
    deletion,   \* where delete_satellite is
    deletes,    \* deletions asked for so far
    session     \* [Sessions -> [state, via]]

connVars == <<presented, conn, worker, todo>>
deleteVars == <<deletion, deletes>>
vars == <<peer, cert, issued, connVars, gate, links, present, deleteVars, session>>

Handler(c) == [kind |-> "handler", link |-> c]
Worker(c)  == [kind |-> "worker", link |-> c]
Deletion   == [kind |-> "deletion", link |-> NoLink]

Holds(h) == gate # <<>> /\ Head(gate) = h

(* The queue once h has given up its place, which is one at most.           *)
Without(h) ==
    IF \E i \in DOMAIN gate : gate[i] = h
    THEN LET place == CHOOSE i \in DOMAIN gate : gate[i] = h
         IN  [i \in 1 .. Len(gate) - 1 |-> gate[IF i < place THEN i ELSE i + 1]]
    ELSE gate

Init ==
    /\ peer = NoLink
    /\ cert = 1
    /\ issued = 1
    /\ presented = [c \in Links |-> 0]
    /\ conn = [c \in Links |-> "unused"]
    /\ worker = [c \in Links |-> "none"]
    /\ todo = [c \in Links |-> 0]
    /\ gate = <<>>
    /\ links = NoLink
    /\ present = "absent"
    /\ deletion = "idle"
    /\ deletes = 0
    /\ session = [s \in Sessions |-> [state |-> "none", via |-> NoLink]]

-----------------------------------------------------------------------------
(* The mediahost and the network (external).                               *)

(* run_hub dials again once its last link is over.  The TLS handshake needs *)
(* a certificate that is enrolled.                                          *)
HostDials(c) ==
    /\ peer = NoLink
    /\ cert # 0
    /\ conn[c] = "unused"
    /\ \A d \in Links : d < c => conn[d] # "unused"
    /\ peer' = c
    /\ conn' = [conn EXCEPT ![c] = "dialled"]
    /\ presented' = [presented EXCEPT ![c] = cert]
    /\ UNCHANGED <<cert, issued, worker, todo, gate, links, present, deleteVars, session>>

(* Power, cable, wifi, or the host ends the link: the hub is not told.      *)
HostGone ==
    /\ peer # NoLink
    /\ peer' = NoLink
    /\ UNCHANGED <<cert, issued, connVars, gate, links, present, deleteVars, session>>

-----------------------------------------------------------------------------
(* MediahostLinkService::link, up to the spawn of the link's task.          *)

(* The Hello is read, possibly long after it was sent; the handler queues   *)
(* for the gate.                                                            *)
ReadHello(c) ==
    /\ conn[c] = "dialled"
    /\ HellosInOrder => \A d \in Links : d < c => conn[d] # "dialled"
    /\ conn' = [conn EXCEPT ![c] = "waiting"]
    /\ gate' = Append(gate, Handler(c))
    /\ UNCHANGED <<peer, cert, issued, presented, worker, todo, links, present,
                   deleteVars, session>>

(* The connection died before its Hello arrived, or while the handler was   *)
(* suspended: the future is dropped, and its place at the gate with it.     *)
DropHandler(c) ==
    /\ peer # c
    /\ \/ conn[c] \in {"dialled", "waiting"}
       \/ DroppedHandler /\ conn[c] = "settling"
    /\ conn' = [conn EXCEPT ![c] = "gone"]
    /\ gate' = Without(Handler(c))
    /\ UNCHANGED <<peer, cert, issued, presented, worker, todo, links, present,
                   deleteVars, session>>

(* Mutant: the enrollment is not looked at again under the gate.             *)
RegisterUnchecked(c) ==
    /\ conn[c] = "waiting"
    /\ Holds(Handler(c))
    /\ conn' = [conn EXCEPT ![c] = "registered"]
    /\ links' = c
    /\ UNCHANGED <<peer, cert, issued, presented, worker, todo, gate, present,
                   deleteVars, session>>

(* The enrollment is checked under the gate; then register_link, replacing   *)
(* whatever link was there.                                                  *)
Register(c) ==
    /\ conn[c] = "waiting"
    /\ Holds(Handler(c))
    /\ IF presented[c] # cert
       THEN /\ conn' = [conn EXCEPT ![c] = "gone"]
            /\ gate' = Tail(gate)
            /\ UNCHANGED links
       ELSE /\ conn' = [conn EXCEPT ![c] = "registered"]
            /\ links' = c
            /\ UNCHANGED gate
    /\ UNCHANGED <<peer, cert, issued, presented, worker, todo, present,
                   deleteVars, session>>

(* registry.connected: the host is offered as a source.                      *)
MarkPresent(c) ==
    /\ conn[c] = "registered"
    /\ conn' = [conn EXCEPT ![c] = "settling"]
    /\ present' = "up"
    /\ UNCHANGED <<peer, cert, issued, presented, worker, todo, gate, links,
                   deleteVars, session>>

(* settle_renewal answers (its failure is only logged), the gate is released *)
(* and the task is spawned.                                                  *)
Spawn(c) ==
    /\ conn[c] = "settling"
    /\ conn' = [conn EXCEPT ![c] = "acking"]
    /\ gate' = Tail(gate)
    /\ UNCHANGED <<peer, cert, issued, presented, worker, todo, links, present,
                   deleteVars, session>>

-----------------------------------------------------------------------------
(* The link's task.                                                         *)

(* Mutant: a link whose HelloAck fails is dropped without being forgotten.   *)
SendHelloAckOrReturn(c) ==
    /\ conn[c] = "acking"
    /\ \/ /\ conn' = [conn EXCEPT ![c] = "serving"]
          /\ worker' = [worker EXCEPT ![c] = "idle"]
          /\ todo' = [todo EXCEPT ![c] = MaxMessages]
       \/ /\ peer # c
          /\ conn' = [conn EXCEPT ![c] = "gone"]
          /\ UNCHANGED <<worker, todo>>
    /\ UNCHANGED <<peer, cert, issued, presented, gate, links, present,
                   deleteVars, session>>

(* HelloAck: sent, and the worker starts; or the stream is closed already,   *)
(* and the link is forgotten.                                                *)
SendHelloAck(c) ==
    /\ conn[c] = "acking"
    /\ \/ /\ conn' = [conn EXCEPT ![c] = "serving"]
          /\ worker' = [worker EXCEPT ![c] = "idle"]
          /\ todo' = [todo EXCEPT ![c] = MaxMessages]
       \/ /\ peer # c
          /\ conn' = [conn EXCEPT ![c] = "forgetting"]
          /\ UNCHANGED <<worker, todo>>
    /\ UNCHANGED <<peer, cert, issued, presented, gate, links, present,
                   deleteVars, session>>

(* The worker takes the next catalogue message and queues for the gate.      *)
TakeMessage(c) ==
    /\ conn[c] = "serving"
    /\ worker[c] = "idle"
    /\ todo[c] > 0
    /\ todo' = [todo EXCEPT ![c] = @ - 1]
    /\ worker' = [worker EXCEPT ![c] = "queued"]
    /\ gate' = Append(gate, Worker(c))
    /\ UNCHANGED <<peer, cert, issued, presented, conn, links, present,
                   deleteVars, session>>

(* host_link_is_current, once the gate is held: a message of a dead          *)
(* generation is dropped.                                                    *)
CheckCurrent(c) ==
    /\ worker[c] = "queued"
    /\ Holds(Worker(c))
    /\ IF links = c
       THEN /\ worker' = [worker EXCEPT ![c] = "applying"]
            /\ UNCHANGED gate
       ELSE /\ worker' = [worker EXCEPT ![c] = "idle"]
            /\ gate' = Tail(gate)
    /\ UNCHANGED <<peer, cert, issued, presented, conn, todo, links, present,
                   deleteVars, session>>

(* handle_host_msg commits and answers, or fails, which ends the worker.     *)
Handle(c) ==
    /\ worker[c] = "applying"
    /\ \E next \in {"idle", "stopped"} : worker' = [worker EXCEPT ![c] = next]
    /\ gate' = Tail(gate)
    /\ UNCHANGED <<peer, cert, issued, presented, conn, todo, links, present,
                   deleteVars, session>>

(* The read loop ends: the liveness timeout, the end of the stream, a full   *)
(* or abandoned work queue, a message that does not validate.                *)
CloseLoop(c) ==
    /\ conn[c] = "serving"
    /\ conn' = [conn EXCEPT ![c] = "closing"]
    /\ UNCHANGED <<peer, cert, issued, presented, worker, todo, gate, links,
                   present, deleteVars, session>>

(* Mutant: the worker is left to drain its queue.                            *)
LeaveWorker(c) ==
    /\ conn[c] = "closing"
    /\ conn' = [conn EXCEPT ![c] = "forgetting"]
    /\ UNCHANGED <<peer, cert, issued, presented, worker, todo, gate, links, present,
                   deleteVars, session>>

(* Mutant: the worker is awaited, but its place at the gate is not given up.  *)
JoinWorkerOnly(c) ==
    /\ conn[c] = "closing"
    /\ conn' = [conn EXCEPT ![c] = "forgetting"]
    /\ worker' = [worker EXCEPT ![c] = "none"]
    /\ UNCHANGED <<peer, cert, issued, presented, todo, gate, links, present,
                   deleteVars, session>>

(* worker.abort and worker.await: its message is rolled back, its place at   *)
(* the gate is given up.                                                     *)
JoinWorker(c) ==
    /\ conn[c] = "closing"
    /\ conn' = [conn EXCEPT ![c] = "forgetting"]
    /\ worker' = [worker EXCEPT ![c] = "none"]
    /\ gate' = Without(Worker(c))
    /\ UNCHANGED <<peer, cert, issued, presented, todo, links, present,
                   deleteVars, session>>

(* Mutant: both maps are cleared by module id.                               *)
ForgetModule(c) ==
    /\ conn[c] = "forgetting"
    /\ links' = NoLink
    /\ present' = IF present = "up" THEN "down" ELSE present
    /\ conn' = [conn EXCEPT ![c] = "ending"]
    /\ UNCHANGED <<peer, cert, issued, presented, worker, todo, gate,
                   deleteVars, session>>

(* Mutant: the sender is only cleared for this link, presence for any.       *)
ForgetSplit(c) ==
    /\ conn[c] = "forgetting"
    /\ links' = IF links = c THEN NoLink ELSE links
    /\ present' = IF present = "up" THEN "down" ELSE present
    /\ conn' = [conn EXCEPT ![c] = "ending"]
    /\ UNCHANGED <<peer, cert, issued, presented, worker, todo, gate,
                   deleteVars, session>>

(* forget_link: unregister_link_if_current changes both maps in one step, and *)
(* only for the link it was called for.                                       *)
ForgetLink(c) ==
    /\ conn[c] = "forgetting"
    /\ IF links = c
       THEN /\ links' = NoLink
            /\ present' = IF present = "up" THEN "down" ELSE present
            /\ conn' = [conn EXCEPT ![c] = "ending"]
       ELSE /\ conn' = [conn EXCEPT ![c] = "gone"]
            /\ UNCHANGED <<links, present>>
    /\ UNCHANGED <<peer, cert, issued, presented, worker, todo, gate,
                   deleteVars, session>>

(* end_for_module: every session in `active` that reads from the host.        *)
EndForModule ==
    session' = [s \in Sessions |->
        IF session[s].state = "active" THEN [session[s] EXCEPT !.state = "ended"]
        ELSE session[s]]

EndSessions(c) ==
    /\ conn[c] = "ending"
    /\ conn' = [conn EXCEPT ![c] = "gone"]
    /\ EndForModule
    /\ UNCHANGED <<peer, cert, issued, presented, worker, todo, gate, links,
                   present, deleteVars>>

-----------------------------------------------------------------------------
(* admin_delete_satellite and delete_satellite.                             *)

AskDelete ==
    /\ deletion = "idle"
    /\ deletes < MaxDeletes
    /\ deletes' = deletes + 1
    /\ EndForModule
    /\ deletion' = "waiting"
    /\ gate' = Append(gate, Deletion)
    /\ UNCHANGED <<peer, cert, issued, connVars, links, present>>

(* The row is read under the gate, then unregister_link.                     *)
UnlinkDeleted ==
    /\ deletion = "waiting"
    /\ Holds(Deletion)
    /\ IF cert = 0
       THEN /\ deletion' = "idle"
            /\ gate' = Tail(gate)
            /\ UNCHANGED links
       ELSE /\ deletion' = "unlinked"
            /\ links' = NoLink
            /\ UNCHANGED gate
    /\ UNCHANGED <<peer, cert, issued, connVars, present, deletes, session>>

(* remove_mediahost or the revocation's transaction fails: `?` returns.      *)
DeleteFails ==
    /\ FailingDelete
    /\ deletion = "unlinked"
    /\ deletion' = "idle"
    /\ gate' = Tail(gate)
    /\ UNCHANGED <<peer, cert, issued, connVars, links, present, deletes, session>>

(* The row goes, durably.                                                    *)
Revoke ==
    /\ deletion = "unlinked"
    /\ deletion' = "revoked"
    /\ cert' = 0
    /\ UNCHANGED <<peer, issued, connVars, gate, links, present, deletes, session>>

(* The runtime maps follow, and the gate is released.                        *)
ForgetDeleted ==
    /\ deletion = "revoked"
    /\ deletion' = "idle"
    /\ present' = "absent"
    /\ gate' = Tail(gate)
    /\ UNCHANGED <<peer, cert, issued, connVars, links, deletes, session>>

(* The satellite is enrolled again, under a new certificate (external).      *)
Enroll ==
    /\ cert = 0
    /\ cert' = issued + 1
    /\ issued' = issued + 1
    /\ UNCHANGED <<peer, connVars, gate, links, present, deleteVars, session>>

-----------------------------------------------------------------------------
(* Sessions, as far as the link decides about them.                         *)

(* start: the host is connected, OpenRead goes down its link and the host    *)
(* opens the byte channel.                                                   *)
OpenLease(s) ==
    /\ session[s].state = "none"
    /\ present = "up"
    /\ links # NoLink
    /\ peer = links
    /\ conn[links] \in {"acking", "serving"}
    /\ session' = [session EXCEPT ![s] = [state |-> "opening", via |-> links]]
    /\ UNCHANGED <<peer, cert, issued, connVars, gate, links, present, deleteVars>>

(* The rest of start, which ends with the insertion into `active`.           *)
Activate(s) ==
    /\ session[s].state = "opening"
    /\ session' = [session EXCEPT ![s].state = "active"]
    /\ UNCHANGED <<peer, cert, issued, connVars, gate, links, present, deleteVars>>

(* The viewer stops, or goes silent and the janitor reaps the session.       *)
StopSession(s) ==
    /\ session[s].state = "active"
    /\ session' = [session EXCEPT ![s].state = "ended"]
    /\ UNCHANGED <<peer, cert, issued, connVars, gate, links, present, deleteVars>>

-----------------------------------------------------------------------------
HandlerStep(c) == Register(c) \/ MarkPresent(c) \/ Spawn(c)
WorkerStep(c) == CheckCurrent(c) \/ Handle(c)
TeardownStep(c) == JoinWorker(c) \/ ForgetLink(c) \/ EndSessions(c)
DeletionStep == UnlinkDeleted \/ DeleteFails \/ Revoke \/ ForgetDeleted

LinkStep(c) ==
    \/ HostDials(c) \/ ReadHello(c) \/ DropHandler(c)
    \/ HandlerStep(c) \/ SendHelloAck(c)
    \/ TakeMessage(c) \/ WorkerStep(c)
    \/ CloseLoop(c) \/ TeardownStep(c)

SessionStep(s) == OpenLease(s) \/ Activate(s) \/ StopSession(s)

Next ==
    \/ \E c \in Links : LinkStep(c)
    \/ \E s \in Sessions : SessionStep(s)
    \/ HostGone \/ Enroll
    \/ AskDelete \/ DeletionStep

(* A runnable task runs.  A worker that answers a host which is not reading *)
(* may be stuck in its send; what ends that is the liveness timeout, which  *)
(* is certain to come once the host is gone.                                *)
Fairness ==
    /\ \A c \in Links :
        /\ WF_vars(HandlerStep(c))
        /\ WF_vars(SendHelloAck(c))
        /\ WF_vars(CheckCurrent(c))
        /\ WF_vars(peer = c /\ Handle(c))
        /\ WF_vars(peer # c /\ CloseLoop(c))
        /\ WF_vars(TeardownStep(c))
    /\ WF_vars(DeletionStep)

Spec == Init /\ [][Next]_vars /\ Fairness

-----------------------------------------------------------------------------
(* Properties.                                                             *)

ConnStages == {"unused", "dialled", "waiting", "registered", "settling", "acking",
               "serving", "closing", "forgetting", "ending", "gone"}

(* Who is inside the gate or waiting for it, as their own stages have it.   *)
Claimants ==
    {Handler(c) : c \in {d \in Links : conn[d] \in {"waiting", "registered", "settling"}}}
    \cup {Worker(c) : c \in {d \in Links : worker[d] \in {"queued", "applying"}}}
    \cup (IF deletion = "idle" THEN {} ELSE {Deletion})

(* The stages of every task, and a gate that queues each task that wants it  *)
(* exactly once and nobody else: an aborted worker or a dropped handler      *)
(* leaves nothing behind.                                                    *)
TypeOK ==
    /\ peer \in Links \cup {NoLink}
    /\ cert \in 0 .. issued
    /\ issued \in Nat
    /\ presented \in [Links -> 0 .. issued]
    /\ conn \in [Links -> ConnStages]
    /\ worker \in [Links -> {"none", "idle", "queued", "applying", "stopped"}]
    /\ todo \in [Links -> 0 .. MaxMessages]
    /\ gate \in Seq(Claimants)
    /\ Len(gate) = Cardinality(Claimants)
    /\ \A i, j \in DOMAIN gate : gate[i] = gate[j] => i = j
    /\ links \in Links \cup {NoLink}
    /\ present \in {"absent", "up", "down"}
    /\ deletion \in {"idle", "waiting", "unlinked", "revoked"}
    /\ deletes \in 0 .. MaxDeletes
    /\ session \in [Sessions -> [state : {"none", "opening", "active", "ended"},
                                 via : Links \cup {NoLink}]]

(* The gate has one holder: a handler between its registration and its      *)
(* spawn, a worker that is applying and a deletion past its unlink exclude   *)
(* one another.                                                              *)
GateIsHeld ==
    /\ \A c \in Links :
        /\ conn[c] \in {"registered", "settling"} => Holds(Handler(c))
        /\ worker[c] = "applying" => Holds(Worker(c))
    /\ deletion \in {"unlinked", "revoked"} => Holds(Deletion)

(* No catalogue message of a dead generation is applied: while a worker      *)
(* writes, its own link is the registered one, whatever reconnects, deletes  *)
(* or tears down meanwhile.                                                  *)
WorkerIsCurrent == \A c \in Links : worker[c] = "applying" => links = c

(* A link is registered only under the certificate that is enrolled, and a   *)
(* host whose row is gone is not offered as a source once the deletion has   *)
(* returned.                                                                 *)
LinkedIsEnrolled ==
    /\ links # NoLink => presented[links] = cert
    /\ present = "up" /\ cert = 0 => deletion = "revoked"

(* `links` and `connected` are never left disagreeing: when nobody is inside  *)
(* the gate, the host is present exactly when it can be reached.              *)
LinksAgree ==
    gate = <<>> => (links # NoLink <=> present = "up")

(* A host that is connected and being served is visible: no late teardown of *)
(* an earlier link, and no earlier handshake, hides it.                      *)
HealthyHostVisible ==
    \A c \in Links :
        /\ peer = c
        /\ conn[c] = "serving"
        /\ presented[c] = cert
        /\ deletion \in {"idle", "waiting"}
        => links = c /\ present = "up"

(* A host that stays away is eventually not offered any more.                *)
AbsenceNoticed == (<>[](peer = NoLink)) => <>[](present # "up")

(* Every handshake gets through the gate: the worker or the deletion that is  *)
(* in front of it lets go, even when it is stuck on a host that is gone.       *)
HandshakeProceeds ==
    \A c \in Links : conn[c] = "waiting" ~> conn[c] # "waiting"
=============================================================================
