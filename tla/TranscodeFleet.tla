---------------------------- MODULE TranscodeFleet ----------------------------
(***************************************************************************)
(* The hub's dispatched sessions and the transcoders that run them:        *)
(* placement and load (registry.rs), start, seek, reschedule and end       *)
(* (sessions/), the transcoder links (transcoder_link.rs), and behind each *)
(* link a box that keeps the contract of TranscoderBox.                    *)
(*                                                                         *)
(* One session has up to four tasks that dispatch it: the request that     *)
(* starts it, the seek executor, the reschedule after a SessionError and   *)
(* the one after a link loss.  They share ONE pending_ready slot, keyed by *)
(* the session id alone.  A message to a link that is registered but dead  *)
(* is lost.  An absent tc_load entry reads as 0.                           *)
(***************************************************************************)
EXTENDS Integers, Sequences, FiniteSets

CONSTANTS
    Sessions,
    Boxes,
    NoBox,
    MaxSessions,    \* capability max_sessions of every box
    MaxLinks,       \* bound: links a box opens
    MaxLossy,       \* bound: boxes that lose their link
    MaxStarts,      \* bound: StartSessions sent for a session
    MaxSeeks,       \* bound: seeks of a session
    MaxDeaths,      \* bound: workers that die while they play
    Timeouts,       \* TRUE: a box may need more than 40 s
    Abandons        \* TRUE: a client may go while its session starts

ASSUME FleetAssumption ==
    /\ IsFiniteSet(Sessions) /\ IsFiniteSet(Boxes)
    /\ NoBox \notin Boxes
    /\ MaxSessions \in Nat \ {0} /\ MaxStarts \in Nat \ {0} /\ MaxLinks \in Nat \ {0}
    /\ MaxLossy \in Nat /\ MaxSeeks \in Nat /\ MaxDeaths \in Nat
    /\ Timeouts \in BOOLEAN /\ Abandons \in BOOLEAN

VARIABLES
    peer,       \* [Boxes -> the link the box holds open, or 0]
    opened,     \* [Boxes -> links opened so far]
    tc_links,   \* [Boxes -> the registered link, or 0]
    watched,    \* [Boxes -> links whose hub task has not been torn down]
    tc_load,    \* [Boxes -> slots taken]
    back,       \* [Boxes -> verdicts under way to the hub]
    box,        \* [Boxes -> [Sessions -> Box]]
    state,      \* [Sessions -> "none", "starting", "active", "ending", "gone"]
    transcoder, \* [Sessions -> Mode::Transcode.transcoder]
    pending_ready, \* [Sessions -> the task whose sender is in the map, or "none"]
    task,       \* [Sessions -> [Tasks -> Task]]
    sent,       \* [Sessions -> StartSessions sent]
    seeks,      \* [Sessions -> seeks so far]
    deaths,     \* workers that died
    raced,      \* history: sessions that ended or sought during a reschedule, or
                \*   were abandoned while they started
    misread,    \* history: sessions for which a verdict was read by the
                \*   dispatch of another StartSession
    needless,   \* history: sessions rescheduled while a box had a run of theirs
    late,       \* history: sessions that went `active`, or to another box, after
                \*   the loss of their run had been dealt with
    told        \* history: sessions whose viewer was told that a seek failed

linkVars == <<peer, opened, tc_links, watched>>
boxVars == <<back, box, deaths>>
history == <<raced, misread, needless, late, told>>
vars == <<linkVars, tc_load, boxVars, state, transcoder, pending_ready, task, sent, seeks,
          history>>

Contract ==
    INSTANCE TranscoderBox WITH Starts <- 1..MaxStarts, box <- box, said <- back

Tasks == {"start", "seek", "error", "loss"}
Movers == {"error", "loss"}

(* A dispatching task: where it is, the box it dispatches to, the number of  *)
(* its StartSession and the link it went over, what came through its oneshot, *)
(* and whether it may fall back on the other sink.                                                   *)
Idle == [pc |-> "idle", box |-> NoBox, link |-> 0, start |-> 0, verdict |-> "none",
         retry |-> FALSE]
Aimed(b, retry) == [Idle EXCEPT !.pc = "dispatch", !.box = b, !.retry = retry]

Init ==
    /\ peer = [b \in Boxes |-> 1]
    /\ opened = [b \in Boxes |-> 1]
    /\ tc_links = [b \in Boxes |-> 1]
    /\ watched = [b \in Boxes |-> {1}]
    /\ tc_load = [b \in Boxes |-> 0]
    /\ back = [b \in Boxes |-> <<>>]
    /\ box = [b \in Boxes |-> [s \in Sessions |-> Contract!IdleBox]]
    /\ state = [s \in Sessions |-> "none"]
    /\ transcoder = [s \in Sessions |-> NoBox]
    /\ pending_ready = [s \in Sessions |-> "none"]
    /\ task = [s \in Sessions |-> [t \in Tasks |-> Idle]]
    /\ sent = [s \in Sessions |-> 0]
    /\ seeks = [s \in Sessions |-> 0]
    /\ deaths = 0
    /\ raced = {}
    /\ misread = {}
    /\ needless = {}
    /\ late = {}
    /\ told = {}

-----------------------------------------------------------------------------
(* The registry.                                                            *)

(* tc_session_ended: saturating, and nothing without an entry.              *)
Released(load, b) ==
    [x \in Boxes |-> IF x = b /\ load[x] > 0 THEN load[x] - 1 ELSE load[x]]

(* What the ranker may choose: a link and a free slot.  Which of them it    *)
(* prefers is left open.                                                    *)
Placeable(load, b) == tc_links[b] # 0 /\ load[b] < MaxSessions

Reserved(load, b) == [load EXCEPT ![b] = @ + 1]

(* send_to_tc: the message reaches the box, unless the registered link is    *)
(* dead.  How long it takes shows in the verdicts under way meanwhile.       *)
Heard(b, s, x) ==
    IF b # NoBox /\ tc_links[b] # 0 /\ tc_links[b] = peer[b]
    THEN [box EXCEPT ![b][s] = x]
    ELSE box

StartSession(b, s, n) == Heard(b, s, Contract!Begun(box[b][s], n))

(* Of two starts in flight at once, one may escape the end.                  *)
EndSession(b, s) ==
    LET x == box[b][s]
    IN  Heard(b, s, Contract!Stopped(Contract!GivenUp(x, x.waiting \ x.crossed)))

-----------------------------------------------------------------------------
(* start_transcode, for whichever task runs it.                             *)

(* The sender of another task is replaced or removed: its receiver wakes up  *)
(* to a closed channel.                                                      *)
Bereft(tasks, s, t) ==
    [u \in Tasks |->
        IF u # t /\ u = pending_ready[s] THEN [tasks[u] EXCEPT !.verdict = "dropped"]
        ELSE tasks[u]]

(* pending_ready is set, then StartSession sent.                            *)
Dispatch(s, t) ==
    /\ task[s][t].pc = "dispatch"
    /\ sent[s] < MaxStarts
    /\ LET b == task[s][t].box
           n == sent[s] + 1
           waits == [task[s][t] EXCEPT !.pc = "wait", !.start = n, !.link = tc_links[b],
                        !.verdict = IF tc_links[b] = 0 THEN "unsent" ELSE "none"]
       IN  /\ task' = [task EXCEPT ![s] = [Bereft(@, s, t) EXCEPT ![t] = waits]]
           /\ box' = StartSession(b, s, n)
    /\ sent' = [sent EXCEPT ![s] = @ + 1]
    /\ pending_ready' = [pending_ready EXCEPT ![s] = t]
    /\ UNCHANGED <<linkVars, tc_load, back, deaths, state, transcoder, seeks, history>>

(* PendingStart::drop clears the slot, whoever's sender is in it.            *)
Settle(s, t, next) ==
    /\ task' = [task EXCEPT ![s] = [Bereft(@, s, t) EXCEPT ![t] = next]]
    /\ pending_ready' = [pending_ready EXCEPT ![s] = "none"]

(* The link a dispatch went over has been torn down meanwhile.                *)
Torn(x) == x.link \notin watched[x.box]

(* The playlist is there.  A start is published later, a mover's session     *)
(* has its new box at once, active or not.                                   *)
DispatchReady(s, t) ==
    /\ task[s][t].pc = "wait"
    /\ task[s][t].verdict = "ok"
    /\ Settle(s, t, IF t = "start" THEN [task[s][t] EXCEPT !.pc = "publish"] ELSE Idle)
    /\ transcoder' = IF t \in Movers
                     THEN [transcoder EXCEPT ![s] = task[s][t].box] ELSE transcoder
    /\ late' = IF t # "start" /\ Torn(task[s][t]) THEN late \cup {s} ELSE late
    /\ UNCHANGED <<linkVars, tc_load, boxVars, state, sent, seeks, raced, misread, needless, told>>

(* A failed dispatch: rejected or unsent, or no verdict, which also ends the *)
(* run at the box.                                                           *)
Fails(s, t) ==
    /\ task[s][t].pc = "wait"
    /\ \/ /\ task[s][t].verdict \in {"err", "unsent"}
          /\ box' = box
       \/ /\ \/ task[s][t].verdict = "dropped"
             \/ Timeouts /\ task[s][t].verdict = "none"
          /\ box' = EndSession(task[s][t].box, s)

(* TC-6: one retry on the other sink, at the same box and on the same slot.  *)
DispatchRetried(s, t) ==
    /\ Fails(s, t)
    /\ task[s][t].retry
    /\ Settle(s, t, Aimed(task[s][t].box, FALSE))
    /\ UNCHANGED <<linkVars, tc_load, back, deaths, state, transcoder, sent, seeks,
                   history>>

(* Mutant: the slot of a start that failed for good is not given back.        *)
StartFailedKeepingSlot(s) ==
    /\ Fails(s, "start")
    /\ ~task[s]["start"].retry
    /\ Settle(s, "start", Idle)
    /\ state' = [state EXCEPT ![s] = "gone"]
    /\ UNCHANGED <<linkVars, tc_load, back, deaths, transcoder, sent, seeks, history>>

(* The request fails, and its reservation is given back.                     *)
StartFailed(s) ==
    /\ Fails(s, "start")
    /\ ~task[s]["start"].retry
    /\ Settle(s, "start", Idle)
    /\ tc_load' = Released(tc_load, task[s]["start"].box)
    /\ state' = [state EXCEPT ![s] = "gone"]
    /\ UNCHANGED <<linkVars, back, deaths, transcoder, sent, seeks, history>>

(* The viewer is told; the session stays.                                    *)
SeekFailed(s) ==
    /\ Fails(s, "seek")
    /\ ~task[s]["seek"].retry
    /\ Settle(s, "seek", Idle)
    /\ told' = told \cup {s}
    /\ UNCHANGED <<linkVars, tc_load, back, deaths, state, transcoder, sent, seeks, raced,
                   misread, needless, late>>

(* reschedule gives its reservation back; its caller ends the session.       *)
MoveFailed(s, t) ==
    /\ Fails(s, t)
    /\ Settle(s, t, [Idle EXCEPT !.pc = "end"])
    /\ tc_load' = Released(tc_load, task[s][t].box)
    /\ UNCHANGED <<linkVars, back, deaths, state, transcoder, sent, seeks, history>>

-----------------------------------------------------------------------------
(* Starting a session (start.rs).                                           *)

Place(s, b) ==
    /\ state[s] = "none"
    /\ Placeable(tc_load, b)
    /\ tc_load' = Reserved(tc_load, b)
    /\ state' = [state EXCEPT ![s] = "starting"]
    /\ task' = [task EXCEPT ![s]["start"] = Aimed(b, TRUE)]
    /\ UNCHANGED <<linkVars, boxVars, transcoder, pending_ready, sent, seeks, history>>

(* The track ids are looked up, then the session enters `active`.            *)
Publish(s) ==
    /\ task[s]["start"].pc = "publish"
    /\ state' = [state EXCEPT ![s] = "active"]
    /\ transcoder' = [transcoder EXCEPT ![s] = task[s]["start"].box]
    /\ late' = IF Torn(task[s]["start"]) THEN late \cup {s} ELSE late
    /\ task' = [task EXCEPT ![s]["start"] = Idle]
    /\ UNCHANGED <<linkVars, tc_load, boxVars, pending_ready, sent, seeks, raced, misread, needless, told>>

(* The client hangs up and the request's future is dropped where it waits.   *)
Abandon(s) ==
    /\ Abandons
    /\ task[s]["start"].pc \in {"wait", "publish"}
    /\ Settle(s, "start", Idle)
    /\ state' = [state EXCEPT ![s] = "gone"]
    /\ raced' = raced \cup {s}
    /\ UNCHANGED <<linkVars, tc_load, boxVars, transcoder, sent, seeks, misread, needless, late, told>>

-----------------------------------------------------------------------------
(* Seek (execute_seek under the session's seek lock), reschedule and end.    *)

Seeking(s) == task[s]["seek"].pc # "idle"
Moving(s) == \E t \in Movers : task[s][t].pc \in {"dispatch", "wait"}

(* EndSession to the box, the slot released, then a new dispatch.            *)
BeginSeek(s) ==
    /\ state[s] = "active"
    /\ ~Seeking(s)
    /\ seeks[s] < MaxSeeks
    /\ seeks' = [seeks EXCEPT ![s] = @ + 1]
    /\ box' = EndSession(transcoder[s], s)
    /\ tc_load' = Released(tc_load, transcoder[s])
    /\ \E retry \in BOOLEAN :
          task' = [task EXCEPT ![s]["seek"] = Aimed(transcoder[s], retry)]
    /\ raced' = IF Moving(s) THEN raced \cup {s} ELSE raced
    /\ UNCHANGED <<linkVars, back, deaths, state, transcoder, pending_ready, sent,
                   misread, needless, late, told>>

(* until_session_ends: the restart is dropped where it waits.                *)
SeekDropped(s) ==
    /\ state[s] = "ending"
    /\ Seeking(s)
    /\ IF task[s]["seek"].pc = "wait" THEN Settle(s, "seek", Idle)
       ELSE task' = [task EXCEPT ![s]["seek"] = Idle] /\ UNCHANGED pending_ready
    /\ UNCHANGED <<linkVars, tc_load, boxVars, state, transcoder, sent, seeks, history>>

(* A box has a run of s, or soon will.                                        *)
Occupied(s) ==
    \E b \in Boxes : box[b][s].playing # 0 \/ box[b][s].waiting # {}

(* reschedule_inner: the old slot is released, a new one taken, anywhere.     *)
BeginMove(s, t) ==
    /\ task[s][t].pc = "called"
    /\ LET freed == Released(tc_load, transcoder[s])
       IN  IF state[s] # "active"
           THEN /\ task' = [task EXCEPT ![s][t] = [Idle EXCEPT !.pc = "end"]]
                /\ UNCHANGED tc_load
           ELSE \/ \E b \in Boxes :
                      /\ Placeable(freed, b)
                      /\ tc_load' = Reserved(freed, b)
                      /\ task' = [task EXCEPT ![s][t] = Aimed(b, FALSE)]
                \/ /\ \A b \in Boxes : ~Placeable(freed, b)
                   /\ tc_load' = freed
                   /\ task' = [task EXCEPT ![s][t] = [Idle EXCEPT !.pc = "end"]]
    /\ needless' = IF Occupied(s) THEN needless \cup {s} ELSE needless
    /\ raced' = IF Seeking(s) \/ Moving(s) THEN raced \cup {s} ELSE raced
    /\ late' = IF state[s] = "starting" THEN late \cup {s} ELSE late
    /\ UNCHANGED <<linkVars, boxVars, state, transcoder, pending_ready, sent, seeks,
                   misread, told>>

(* Sessions::end: out of `active` first, by whoever comes first.              *)
BeginEnd(s) ==
    /\ state[s] = "active"
    /\ state' = [state EXCEPT ![s] = "ending"]
    /\ raced' = IF Moving(s) THEN raced \cup {s} ELSE raced
    /\ UNCHANGED <<linkVars, tc_load, boxVars, transcoder, pending_ready, task, sent, seeks,
                   misread, needless, late, told>>

(* A reschedule that failed ends its session, if that is still there.          *)
EndAfterMove(s, t) ==
    /\ task[s][t].pc = "end"
    /\ task' = [task EXCEPT ![s][t] = Idle]
    /\ state' = IF state[s] = "active" THEN [state EXCEPT ![s] = "ending"] ELSE state
    /\ raced' = IF state[s] = "active" /\ Moving(s) THEN raced \cup {s} ELSE raced
    /\ UNCHANGED <<linkVars, tc_load, boxVars, transcoder, pending_ready, sent, seeks,
                   misread, needless, late, told>>

(* Mutant: end does not wait for the seek lock.                               *)
FinishEndAtOnce(s) ==
    /\ state[s] = "ending"
    /\ task' = [task EXCEPT ![s] = Bereft(@, s, "none")]
    /\ pending_ready' = [pending_ready EXCEPT ![s] = "none"]
    /\ tc_load' = Released(tc_load, transcoder[s])
    /\ box' = EndSession(transcoder[s], s)
    /\ state' = [state EXCEPT ![s] = "gone"]
    /\ UNCHANGED <<linkVars, back, deaths, transcoder, sent, seeks, history>>

(* ... and torn down once the seek lock is free.                              *)
FinishEnd(s) ==
    /\ state[s] = "ending"
    /\ ~Seeking(s)
    /\ task' = [task EXCEPT ![s] = Bereft(@, s, "none")]
    /\ pending_ready' = [pending_ready EXCEPT ![s] = "none"]
    /\ tc_load' = Released(tc_load, transcoder[s])
    /\ box' = EndSession(transcoder[s], s)
    /\ state' = [state EXCEPT ![s] = "gone"]
    /\ UNCHANGED <<linkVars, back, deaths, transcoder, sent, seeks, history>>

-----------------------------------------------------------------------------
(* The links.                                                               *)

(* The box is gone: power, cable, wifi.  Its runs die with the link; the hub *)
(* is not told.  What a link cut for a renewal leaves behind comes to its own *)
(* end (TranscoderRunner's CutLeavesNothing) and is no run of this model.     *)
LinkLost(b) ==
    /\ peer[b] # 0
    /\ opened[b] < MaxLinks
    /\ Cardinality({c \in Boxes \ {b} : peer[c] # 1}) < MaxLossy
    /\ peer' = [peer EXCEPT ![b] = 0]
    /\ back' = [back EXCEPT ![b] = <<>>]
    /\ box' = [box EXCEPT ![b] = [s \in Sessions |-> Contract!IdleBox]]
    /\ UNCHANGED <<opened, tc_links, watched, tc_load, deaths, state, transcoder,
                   pending_ready, task, sent, seeks, history>>

(* The box dials again; its new link replaces the old one in the registry,    *)
(* torn down or not.                                                          *)
Reconnect(b) ==
    /\ peer[b] = 0
    /\ opened[b] < MaxLinks
    /\ opened' = [opened EXCEPT ![b] = @ + 1]
    /\ peer' = [peer EXCEPT ![b] = opened[b] + 1]
    /\ tc_links' = [tc_links EXCEPT ![b] = opened[b] + 1]
    /\ watched' = [watched EXCEPT ![b] = @ \cup {opened[b] + 1}]
    /\ UNCHANGED <<tc_load, boxVars, state, transcoder, pending_ready, task, sent, seeks,
                   history>>

(* Sessions a torn-down link has left behind, as reschedule_for_transcoder    *)
(* finds them.                                                                *)
Stranded(b) == {s \in Sessions : state[s] = "active" /\ transcoder[s] = b}

(* Mutant: a link that was replaced leaves its sessions alone.                 *)
TeardownUnlessReplaced(b, l) ==
    /\ l \in watched[b] \ {peer[b]}
    /\ \A s \in Sessions : task[s]["loss"].pc = "idle"
    /\ watched' = [watched EXCEPT ![b] = @ \ {l}]
    /\ IF tc_links[b] = l
       THEN /\ tc_links' = [tc_links EXCEPT ![b] = 0]
            /\ tc_load' = [tc_load EXCEPT ![b] = 0]
            /\ task' = [s \in Sessions |->
                          IF s \in Stranded(b)
                          THEN [task[s] EXCEPT !["loss"] = [Idle EXCEPT !.pc = "called"]]
                          ELSE task[s]]
       ELSE UNCHANGED <<tc_links, tc_load, task>>
    /\ UNCHANGED <<peer, opened, boxVars, state, transcoder, pending_ready, sent, seeks,
                   history>>

(* The hub misses the heartbeats: the registration goes only if it is still    *)
(* this link's, and the load entry with it; then the sessions are rescheduled. *)
Teardown(b, l) ==
    /\ l \in watched[b] \ {peer[b]}
    /\ \A s \in Sessions : task[s]["loss"].pc = "idle"
    /\ watched' = [watched EXCEPT ![b] = @ \ {l}]
    /\ IF tc_links[b] = l
       THEN /\ tc_links' = [tc_links EXCEPT ![b] = 0]
            /\ tc_load' = [tc_load EXCEPT ![b] = 0]
       ELSE UNCHANGED <<tc_links, tc_load>>
    /\ task' = [s \in Sessions |->
                  IF s \in Stranded(b)
                  THEN [task[s] EXCEPT !["loss"] = [Idle EXCEPT !.pc = "called"]]
                  ELSE task[s]]
    /\ UNCHANGED <<peer, opened, boxVars, state, transcoder, pending_ready, sent, seeks,
                   history>>

(* transcode_verdict: whoever waits for this session's verdict gets it.  An   *)
(* error nobody waits for is a death in mid-session: reschedule.              *)
ReadVerdict(b) ==
    /\ back[b] # <<>>
    /\ LET m == Head(back[b])
           s == m.session
           t == pending_ready[s]
       IN  \/ /\ t # "none"
              /\ task' = [task EXCEPT ![s][t].verdict = IF m.ready THEN "ok" ELSE "err"]
              /\ pending_ready' = [pending_ready EXCEPT ![s] = "none"]
              /\ misread' = IF task[s][t].start = m.start THEN misread
                            ELSE misread \cup {s}
           \/ /\ t = "none"
              /\ m.ready
              /\ UNCHANGED <<task, pending_ready, misread>>
           \/ /\ t = "none"
              /\ ~m.ready
              /\ task[s]["error"].pc = "idle"
              /\ task' = [task EXCEPT ![s]["error"] = [Idle EXCEPT !.pc = "called"]]
              /\ UNCHANGED <<pending_ready, misread>>
    /\ back' = [back EXCEPT ![b] = Tail(@)]
    /\ UNCHANGED <<linkVars, tc_load, box, deaths, state, transcoder, sent, seeks,
                   raced, needless, late, told>>

-----------------------------------------------------------------------------
(* The boxes, as far as their contract goes.                                 *)

Tell(b, s, n, ready) ==
    back' = [back EXCEPT ![b] = Append(@, [session |-> s, start |-> n, ready |-> ready])]

(* A start comes up; it may have been replaced or ended meanwhile.            *)
BoxReady(b, s, n) ==
    /\ Contract!MayPlay(box[b][s], n)
    /\ box' = [box EXCEPT ![b][s] = Contract!Announced(Contract!Readied(@, n), n)]
    /\ Tell(b, s, n, TRUE)
    /\ UNCHANGED <<linkVars, tc_load, deaths, state, transcoder, pending_ready, task,
                   sent, seeks, history>>

(* A start fails, after it has stopped what played before it.                 *)
BoxFails(b, s, n) ==
    /\ n \in box[b][s].waiting \cup box[b][s].stale
    /\ box' = [box EXCEPT ![b][s] = Contract!Stopped(Contract!Failed(@, n))]
    /\ Tell(b, s, n, FALSE)
    /\ UNCHANGED <<linkVars, tc_load, deaths, state, transcoder, pending_ready, task,
                   sent, seeks, history>>

(* A start that is superseded or was ended goes quietly.                      *)
BoxDrops(b, s, n) ==
    /\ \/ n \in box[b][s].stale
       \/ n \in box[b][s].waiting \cap box[b][s].crossed
    /\ box' = [box EXCEPT ![b][s] = Contract!Vanished(Contract!GivenUp(@, {n}), n)]
    /\ UNCHANGED <<linkVars, tc_load, back, deaths, state, transcoder, pending_ready,
                   task, sent, seeks, history>>

(* The worker that plays dies.                                                *)
WorkerDies(b, s) ==
    /\ box[b][s].playing # 0
    /\ deaths < MaxDeaths
    /\ deaths' = deaths + 1
    /\ box' = [box EXCEPT ![b][s] = Contract!Stopped(@)]
    /\ Tell(b, s, box[b][s].playing, FALSE)
    /\ UNCHANGED <<linkVars, tc_load, state, transcoder, pending_ready, task, sent,
                   seeks, history>>

-----------------------------------------------------------------------------

TaskStep(s, t) ==
    \/ Dispatch(s, t) \/ DispatchReady(s, t) \/ DispatchRetried(s, t)
    \/ t = "start" /\ (StartFailed(s) \/ Publish(s))
    \/ t = "seek" /\ (SeekFailed(s) \/ SeekDropped(s))
    \/ t \in Movers /\ (BeginMove(s, t) \/ MoveFailed(s, t) \/ EndAfterMove(s, t))

BoxStep(b) ==
    \E s \in Sessions, n \in 1..MaxStarts :
        BoxReady(b, s, n) \/ BoxFails(b, s, n) \/ BoxDrops(b, s, n)

Next ==
    \/ \E s \in Sessions :
          \/ \E b \in Boxes : Place(s, b)
          \/ Abandon(s) \/ BeginSeek(s) \/ BeginEnd(s) \/ FinishEnd(s)
          \/ \E t \in Tasks : TaskStep(s, t)
    \/ \E b \in Boxes :
          \/ LinkLost(b) \/ Reconnect(b) \/ ReadVerdict(b) \/ BoxStep(b)
          \/ \E l \in 1..MaxLinks : Teardown(b, l)
          \/ \E s \in Sessions : WorkerDies(b, s)

Spec == Init /\ [][Next]_vars

-----------------------------------------------------------------------------
(* Properties                                                                *)

(* Who holds a slot of b: a start or a reschedule that has reserved it, and   *)
(* an active session that plays there.                                        *)
Holders(b) ==
    Cardinality({x \in Sessions \X (Tasks \ {"seek"}) :
                    /\ task[x[1]][x[2]].box = b
                    /\ task[x[1]][x[2]].pc \in {"dispatch", "wait", "publish"}})
    + Cardinality({s \in Sessions : state[s] \in {"active", "ending"} /\ transcoder[s] = b})

(* Every variable has its type.                                               *)
TypeOK ==
    /\ peer \in [Boxes -> 0..MaxLinks] /\ tc_links \in [Boxes -> 0..MaxLinks]
    /\ \A b \in Boxes : tc_links[b] # 0 => tc_links[b] \in watched[b]
    /\ \A b \in Boxes : tc_load[b] \in 0..MaxSessions
    /\ \A s \in Sessions :
          /\ pending_ready[s] # "none" => task[s][pending_ready[s]].pc = "wait"
          /\ state[s] \in {"active", "ending"} => transcoder[s] \in Boxes

(* No slot is leaked: a box never looks busier than the sessions that hold    *)
(* it, whatever fails, times out, dies or reconnects.  Only a session that    *)
(* ended under its own reschedule, or was abandoned, leaves a slot behind.    *)
NoLeakedSlot == \A b \in Boxes : raced = {} => tc_load[b] <= Holders(b)

(* A session that is over plays nowhere and comes up nowhere: its EndSession   *)
(* is behind its last StartSession, also when a seek was cut short.            *)
NoOrphanRun ==
    \A s \in Sessions \ (raced \cup misread \cup needless) : \A b \in Boxes :
        state[s] = "gone" =>
            box[b][s].playing = 0 /\ box[b][s].waiting \subseteq box[b][s].crossed

(* The run of s plays or comes up; or its loss is somebody's business: of a    *)
(* dispatch under way, of the error about to be read, or of the teardown of    *)
(* the link it died with.                                                      *)
Served(s) ==
    \/ Occupied(s)
    \/ \E t \in Tasks : task[s][t].pc # "idle"
    \/ \E b \in Boxes : \E i \in DOMAIN back[b] :
          back[b][i].session = s /\ ~back[b][i].ready
    \/ watched[transcoder[s]] \ {peer[transcoder[s]]} # {}

(* A session stays active only while it is served (AR-6).  Else the picture    *)
(* is frozen for good: the session answers pings, and nothing makes the client *)
(* start again.  Left out are a seek that failed, whose viewer knows, and the  *)
(* races the histories record.                                                 *)
NoFrozenSession ==
    \A s \in Sessions \ (raced \cup misread \cup late \cup told) :
        state[s] = "active" => Served(s)
=============================================================================
