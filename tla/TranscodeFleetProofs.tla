------------------------- MODULE TranscodeFleetProofs -------------------------
(***************************************************************************)
(* Proofs about TranscodeFleet, for every number of sessions, boxes, links, *)
(* starts and seeks: FleetInv is inductive, and gives NoOrphanRun and       *)
(* NoFrozenSession; beside it SlotInv, which gives NoLeakedSlot.            *)
(***************************************************************************)
EXTENDS TranscodeFleet, FiniteSetTheorems, TLAPS

-----------------------------------------------------------------------------
(* The inductive invariant.                                                 *)

Busy == {"dispatch", "wait", "publish"}

Verdict == [session : Sessions, start : Nat \ {0}, ready : BOOLEAN]

Task ==
    [pc : {"idle", "called", "dispatch", "wait", "publish", "end"},
     box : Boxes \cup {NoBox}, link : Nat, start : Nat,
     verdict : {"none", "ok", "err", "unsent", "dropped"}, retry : BOOLEAN]

FleetTypes ==
    /\ peer \in [Boxes -> 0..MaxLinks] /\ opened \in [Boxes -> 0..MaxLinks]
    /\ tc_links \in [Boxes -> 0..MaxLinks]
    /\ watched \in [Boxes -> SUBSET Nat]
    /\ tc_load \in [Boxes -> 0..MaxSessions]
    /\ back \in [Boxes -> Seq(Verdict)]
    /\ box \in [Boxes -> [Sessions -> Contract!Box]]
    /\ state \in [Sessions -> {"none", "starting", "active", "ending", "gone"}]
    /\ transcoder \in [Sessions -> Boxes \cup {NoBox}]
    /\ pending_ready \in [Sessions -> Tasks \cup {"none"}]
    /\ task \in [Sessions -> [Tasks -> Task]]
    /\ sent \in [Sessions -> 0..MaxStarts]

(* The verdicts of b that the hub has not read.                              *)
Told(b) == {back[b][i] : i \in DOMAIN back[b]}

(* A link that is open is the registered one and watched; a box without a    *)
(* link has nothing to run and nothing to say.                               *)
LinkInv ==
    \A b \in Boxes :
        /\ peer[b] # 0 => tc_links[b] = peer[b] /\ peer[b] \in watched[b]
        /\ tc_links[b] # 0 => tc_links[b] \in watched[b]
        /\ peer[b] <= opened[b] /\ watched[b] \subseteq 1..opened[b]
        /\ peer[b] = 0 =>
              Told(b) = {} /\ \A s \in Sessions : box[b][s] = Contract!IdleBox
        /\ \A s \in Sessions : box[b][s].due = {}

(* Where the tasks of s can be.                                              *)
TaskInv(s) ==
    /\ task[s]["start"].pc \in {"idle"} \cup Busy
    /\ task[s]["seek"].pc \in {"idle", "dispatch", "wait"}
    /\ \A t \in Movers : task[s][t].pc # "publish"
    /\ task[s]["start"].pc # "idle" => state[s] = "starting"
    /\ Seeking(s) => state[s] \in {"active", "ending"}
    /\ state[s] \in {"active", "ending"} => transcoder[s] \in Boxes
    /\ pending_ready[s] # "none" => task[s][pending_ready[s]].pc = "wait"
    /\ \A t \in Tasks : task[s][t].pc \in Busy =>
          task[s][t].box \in Boxes /\ task[s][t].link <= opened[task[s][t].box]
    /\ \A t \in Tasks : task[s][t].start <= sent[s]

(* Without a race one task at a time dispatches s: a mover only while s is    *)
(* active, the seek at the box of s.                                          *)
AloneInv(s) ==
    s \notin raced =>
        /\ \A t \in Movers : task[s][t].pc \in Busy => state[s] = "active"
        /\ \A t, u \in Tasks :
              task[s][t].pc \in Busy /\ task[s][u].pc \in Busy => t = u
        /\ Seeking(s) => task[s]["seek"].box = transcoder[s]

(* The start n of s is at b: waiting, given up, playing or in a verdict.       *)
Occurs(b, s, n) ==
    \/ n \in box[b][s].waiting \cup box[b][s].stale
    \/ box[b][s].playing = n
    \/ \E m \in Told(b) : m.session = s /\ m.start = n

(* A start number is known to the box and the link its task sent it over, and  *)
(* nowhere else.                                                               *)
StartInv(s) ==
    \A b \in Boxes, n \in Nat \ {0} : Occurs(b, s, n) =>
        /\ n <= sent[s]
        /\ \A t \in Tasks : task[s][t].start = n =>
              task[s][t].box = b /\ task[s][t].link = peer[b]

Clean(s) == s \notin raced \cup misread \cup needless

Running(b, s) == box[b][s].playing # 0 \/ box[b][s].waiting # {}

Quiet(s) == \A b \in Boxes : ~Running(b, s)

(* An error of start n that the hub has not read.                              *)
Failing(b, s, n) == \E m \in Told(b) : m.session = s /\ m.start = n /\ ~m.ready

(* A session without a race, a verdict given to the wrong dispatch or a        *)
(* needless reschedule has its last start only, at the one box that its task   *)
(* or, between tasks, its own record names; nothing runs when a dispatch       *)
(* begins or has failed.                                                       *)
RunInv(s) ==
    Clean(s) =>
        /\ \A b \in Boxes :
              /\ box[b][s].crossed = {}
              /\ box[b][s].waiting \subseteq {sent[s]}
              /\ box[b][s].playing \in {0, sent[s]}
              /\ box[b][s].playing # 0 => box[b][s].waiting = {}
        /\ \A t \in Tasks : task[s][t].pc = "dispatch" => Quiet(s)
        /\ \A t \in Tasks : task[s][t].pc \in {"wait", "publish"} =>
              \A b \in Boxes : Running(b, s) => b = task[s][t].box
        /\ (\A t \in Tasks : task[s][t].pc \notin Busy) =>
              \A b \in Boxes : Running(b, s) =>
                  state[s] \in {"active", "ending"} /\ b = transcoder[s]
        /\ \A t \in Tasks : task[s][t].pc = "wait" =>
              /\ task[s][t].start = sent[s]
              /\ \A b \in Boxes : sent[s] \notin box[b][s].stale
              /\ task[s][t].verdict \in {"err", "unsent"} => Quiet(s)
              /\ \A b \in Boxes : Failing(b, s, sent[s]) => Quiet(s)

Known(s) == s \notin raced \cup misread \cup late \cup told

Erring(b, s) == \E m \in Told(b) : m.session = s /\ ~m.ready

(* The dispatch of t has its ok, or the ok is under way to it.                 *)
Up(s, t) ==
    \/ task[s][t].pc = "publish"
    \/ task[s][t].pc = "wait" /\ task[s][t].verdict = "ok"
    \/ /\ task[s][t].pc = "wait"
       /\ pending_ready[s] = t
       /\ \E m \in Told(task[s][t].box) :
             m.session = s /\ m.start = task[s][t].start /\ m.ready

(* A run that came up plays on, or the hub is about to hear, or has heard.      *)
Heeded(b, s) ==
    \/ box[b][s].playing # 0
    \/ Erring(b, s)
    \/ task[s]["error"].pc = "called"

(* A dispatch whose link stands and that has its ok has a run or an error to   *)
(* show for it; an active session has a task, or its own box has a run, an     *)
(* error on its way or a lost link that was not torn down yet.                 *)
ServeInv(s) ==
    Known(s) =>
        /\ \A t \in Tasks :
              Up(s, t) /\ task[s][t].link # 0 /\ task[s][t].link = peer[task[s][t].box]
                  => Heeded(task[s][t].box, s)
        /\ state[s] = "active" =>
              \/ \E t \in Tasks : task[s][t].pc # "idle"
              \/ box[transcoder[s]][s].playing # 0
              \/ Erring(transcoder[s], s)
              \/ watched[transcoder[s]] \ {peer[transcoder[s]]} # {}

SessionInv(s) == TaskInv(s) /\ AloneInv(s) /\ StartInv(s) /\ RunInv(s) /\ ServeInv(s)

(* The task u of s, or (as "seek") s itself, has a slot of b.  A session that   *)
(* is being moved has given its own back.                                      *)
Has(b, s, u) ==
    IF u = "seek"
    THEN state[s] \in {"active", "ending"} /\ transcoder[s] = b /\ ~Moving(s)
    ELSE task[s][u].pc \in Busy /\ task[s][u].box = b

Owned(b) == {x \in Sessions \X Tasks : Has(b, x[1], x[2])}

SlotInv == raced = {} => \A b \in Boxes : tc_load[b] <= Cardinality(Owned(b))

FleetInv == FleetTypes /\ LinkInv /\ (\A s \in Sessions : SessionInv(s))

-----------------------------------------------------------------------------
(* What the updates of the model do.                                         *)

(* A box takes what its contract lets it take.                                *)
LEMMA BoxShapes ==
    ASSUME NEW x \in Contract!Box, NEW n \in 1..MaxStarts
    PROVE  /\ Contract!IdleBox \in Contract!Box
           /\ Contract!Begun(x, n) \in Contract!Box
           /\ Contract!Begun(x, n).waiting = x.waiting \cup {n}
           /\ Contract!Begun(x, n).stale = x.stale
           /\ Contract!Begun(x, n).due = x.due
           /\ Contract!Begun(x, n).playing = x.playing
           /\ x.waiting = {} /\ x.due = {} => Contract!Begun(x, n).crossed = x.crossed
  BY DEF Contract!Box, Contract!IdleBox, Contract!Begun, Contract!Crossing

(* EndSession gives up what waits uncrossed and stops what plays.             *)
LEMMA EndShape ==
    ASSUME NEW x \in Contract!Box, NEW y,
           y = Contract!Stopped(Contract!GivenUp(x, x.waiting \ x.crossed))
    PROVE  /\ y \in Contract!Box
           /\ y.waiting \subseteq x.waiting
           /\ x.crossed = {} => y.waiting = {}
           /\ y.stale \subseteq x.stale \cup x.waiting
           /\ y.due = x.due /\ y.playing = 0 /\ y.crossed = x.crossed
<1>1. PICK z : z = Contract!GivenUp(x, x.waiting \ x.crossed)
  OBVIOUS
<1>2. /\ z \in Contract!Box
      /\ z.waiting = x.waiting \ (x.waiting \ x.crossed)
      /\ z.stale = x.stale \cup ((x.waiting \ x.crossed) \cap x.waiting)
      /\ z.due = x.due /\ z.crossed = x.crossed
  BY <1>1 DEF Contract!Box, Contract!GivenUp
<1>3. y = [z EXCEPT !.playing = 0]
  BY <1>1 DEF Contract!Stopped
<1>4. y \in Contract!Box /\ y.waiting = z.waiting /\ y.stale = z.stale
      /\ y.due = z.due /\ y.playing = 0 /\ y.crossed = z.crossed
  BY <1>2, <1>3 DEF Contract!Box
<1> QED
  BY <1>2, <1>4

(* A start that comes up.                                                     *)
LEMMA ReadyShape ==
    ASSUME NEW x \in Contract!Box, NEW n \in 1..MaxStarts, NEW y,
           y = Contract!Announced(Contract!Readied(x, n), n)
    PROVE  /\ y \in Contract!Box
           /\ y.waiting = x.waiting \ {n} /\ y.stale = x.stale
           /\ x.due = {} => y.due = {}
           /\ y.playing = n /\ y.crossed = x.crossed
<1>1. PICK z : z = Contract!Readied(x, n)
  OBVIOUS
<1>2. /\ z \in Contract!Box
      /\ z.waiting = x.waiting \ {n} /\ z.stale = x.stale
      /\ z.due = x.due \cup {n} /\ z.playing = n /\ z.crossed = x.crossed
  BY <1>1 DEF Contract!Box, Contract!Readied
<1>3. y = [z EXCEPT !.due = @ \ {n}]
  BY <1>1 DEF Contract!Announced
<1>4. y \in Contract!Box /\ y.waiting = z.waiting /\ y.stale = z.stale
      /\ y.due = z.due \ {n} /\ y.playing = z.playing /\ y.crossed = z.crossed
  BY <1>2, <1>3 DEF Contract!Box
<1> QED
  BY <1>2, <1>4

(* A start that fails.                                                        *)
LEMMA FailShape ==
    ASSUME NEW x \in Contract!Box, NEW n \in 1..MaxStarts, NEW y,
           y = Contract!Stopped(Contract!Failed(x, n))
    PROVE  /\ y \in Contract!Box
           /\ y.waiting = x.waiting \ {n} /\ y.stale = x.stale \ {n}
           /\ y.due = x.due /\ y.playing = 0 /\ y.crossed = x.crossed
<1>1. PICK z : z = Contract!Failed(x, n)
  OBVIOUS
<1>2. /\ z \in Contract!Box
      /\ z.waiting = x.waiting \ {n} /\ z.stale = x.stale \ {n}
      /\ z.due = x.due /\ z.crossed = x.crossed
  BY <1>1 DEF Contract!Box, Contract!Failed
<1>3. y = [z EXCEPT !.playing = 0]
  BY <1>1 DEF Contract!Stopped
<1> QED
  BY <1>2, <1>3 DEF Contract!Box

(* A start that goes quietly.                                                 *)
LEMMA DropShape ==
    ASSUME NEW x \in Contract!Box, NEW n \in 1..MaxStarts, NEW y,
           y = Contract!Vanished(Contract!GivenUp(x, {n}), n)
    PROVE  /\ y \in Contract!Box
           /\ y.waiting = x.waiting \ {n} /\ y.stale \subseteq x.stale
           /\ x.due = {} => y.due = {}
           /\ y.playing = x.playing /\ y.crossed = x.crossed
<1>1. PICK z : z = Contract!GivenUp(x, {n})
  OBVIOUS
<1>2. /\ z \in Contract!Box
      /\ z.waiting = x.waiting \ {n} /\ z.stale = x.stale \cup ({n} \cap x.waiting)
      /\ z.due = x.due /\ z.playing = x.playing /\ z.crossed = x.crossed
  BY <1>1 DEF Contract!Box, Contract!GivenUp
<1>3. y = [z EXCEPT !.stale = @ \ {n}, !.due = @ \ {n}]
  BY <1>1 DEF Contract!Vanished
<1>4. y \in Contract!Box /\ y.waiting = z.waiting /\ y.stale = z.stale \ {n}
      /\ y.due = z.due \ {n} /\ y.playing = z.playing /\ y.crossed = z.crossed
  BY <1>2, <1>3 DEF Contract!Box
<1> QED
  BY <1>2, <1>4

(* The worker of the run that plays dies.                                      *)
LEMMA StopShape ==
    ASSUME NEW x \in Contract!Box, NEW y, y = Contract!Stopped(x)
    PROVE  /\ y \in Contract!Box
           /\ y.waiting = x.waiting /\ y.stale = x.stale
           /\ y.due = x.due /\ y.playing = 0 /\ y.crossed = x.crossed
  BY DEF Contract!Box, Contract!Stopped

(* One box of one session is written.                                          *)
LEMMA BoxUpdate ==
    ASSUME box \in [Boxes -> [Sessions -> Contract!Box]],
           NEW b \in Boxes, NEW s \in Sessions, NEW y \in Contract!Box,
           box' = [box EXCEPT ![b][s] = y]
    PROVE  /\ box' \in [Boxes -> [Sessions -> Contract!Box]]
           /\ box'[b][s] = y
           /\ \A c \in Boxes : c # b => box'[c][s] = box[c][s]
           /\ \A c \in Boxes : \A r \in Sessions : r # s => box'[c][r] = box[c][r]
<1>1. box' = [c \in Boxes |-> IF c = b THEN [box[b] EXCEPT ![s] = y] ELSE box[c]]
  OBVIOUS
<1>2. [box[b] EXCEPT ![s] = y] \in [Sessions -> Contract!Box]
  OBVIOUS
<1> QED
  BY <1>1, <1>2

(* One task is written.                                                        *)
LEMMA TaskUpdate ==
    ASSUME task \in [Sessions -> [Tasks -> Task]],
           NEW s \in Sessions, NEW t \in Tasks, NEW x \in Task,
           task' = [task EXCEPT ![s][t] = x]
    PROVE  /\ task' \in [Sessions -> [Tasks -> Task]]
           /\ task'[s][t] = x
           /\ \A u \in Tasks : u # t => task'[s][u] = task[s][u]
           /\ \A r \in Sessions : r # s => task'[r] = task[r]
<1>1. task' = [r \in Sessions |-> IF r = s THEN [task[s] EXCEPT ![t] = x] ELSE task[r]]
  OBVIOUS
<1>2. [task[s] EXCEPT ![t] = x] \in [Tasks -> Task]
  OBVIOUS
<1> QED
  BY <1>1, <1>2

(* The task u of s is left alone, or wakes up to a closed channel.             *)
SameOrDropped(s, u) ==
    /\ task'[s][u].pc = task[s][u].pc
    /\ task'[s][u].box = task[s][u].box
    /\ task'[s][u].link = task[s][u].link
    /\ task'[s][u].start = task[s][u].start
    /\ task'[s][u].verdict \in {task[s][u].verdict, "dropped"}

(* Replacing or removing the sender.                                           *)
LEMMA BereftUpdate ==
    ASSUME task \in [Sessions -> [Tasks -> Task]],
           NEW s \in Sessions, NEW t,
           task' = [task EXCEPT ![s] = Bereft(@, s, t)]
    PROVE  /\ task' \in [Sessions -> [Tasks -> Task]]
           /\ \A u \in Tasks : SameOrDropped(s, u)
           /\ \A r \in Sessions : r # s => task'[r] = task[r]
<1>0. \A y \in Task : [y EXCEPT !.verdict = "dropped"] \in Task
  BY DEF Task
<1>1. \A u \in Tasks : [task[s][u] EXCEPT !.verdict = "dropped"] \in Task
  BY <1>0
<1>2. PICK q : q = Bereft(task[s], s, t)
  OBVIOUS
<1>3. q \in [Tasks -> Task]
  BY <1>1, <1>2 DEF Bereft
<1>4. task' = [task EXCEPT ![s] = q]
  BY <1>2
<1>5. task' \in [Sessions -> [Tasks -> Task]] /\ task'[s] = q
      /\ \A r \in Sessions : r # s => task'[r] = task[r]
  BY <1>3, <1>4
<1>6. ASSUME NEW u \in Tasks
      PROVE  SameOrDropped(s, u)
  <2>1. q[u] \in {task[s][u], [task[s][u] EXCEPT !.verdict = "dropped"]}
    BY <1>2 DEF Bereft
  <2>2. task'[s][u] = q[u] /\ task[s][u] \in Task
    BY <1>5
  <2>3. LET d == [task[s][u] EXCEPT !.verdict = "dropped"]
        IN  /\ d.pc = task[s][u].pc /\ d.box = task[s][u].box /\ d.link = task[s][u].link
            /\ d.start = task[s][u].start /\ d.verdict = "dropped"
    BY <2>2 DEF Task
  <2> QED
    BY <2>1, <2>2, <2>3 DEF SameOrDropped
<1> QED
  BY <1>5, <1>6

(* The same, and one task is written.                                          *)
LEMMA BereftWrite ==
    ASSUME task \in [Sessions -> [Tasks -> Task]],
           NEW s \in Sessions, NEW t \in Tasks, NEW x \in Task,
           task' = [task EXCEPT ![s] = [Bereft(@, s, t) EXCEPT ![t] = x]]
    PROVE  /\ task' \in [Sessions -> [Tasks -> Task]]
           /\ task'[s][t] = x
           /\ \A u \in Tasks : u # t => SameOrDropped(s, u)
           /\ \A r \in Sessions : r # s => task'[r] = task[r]
<1>0. \A y \in Task : [y EXCEPT !.verdict = "dropped"] \in Task
  BY DEF Task
<1>1. \A u \in Tasks : [task[s][u] EXCEPT !.verdict = "dropped"] \in Task
  BY <1>0
<1>2. PICK q : q = Bereft(task[s], s, t)
  OBVIOUS
<1>3. q \in [Tasks -> Task]
  BY <1>1, <1>2 DEF Bereft
<1>a. PICK p : p = [q EXCEPT ![t] = x]
  OBVIOUS
<1>b. p \in [Tasks -> Task] /\ p[t] = x /\ \A u \in Tasks : u # t => p[u] = q[u]
  BY <1>3, <1>a
<1>4. task' = [task EXCEPT ![s] = p]
  BY <1>2, <1>a
<1>5. task' \in [Sessions -> [Tasks -> Task]] /\ task'[s] = p
      /\ \A r \in Sessions : r # s => task'[r] = task[r]
  BY <1>b, <1>4
<1>6. ASSUME NEW u \in Tasks, u # t
      PROVE  SameOrDropped(s, u)
  <2>1. q[u] \in {task[s][u], [task[s][u] EXCEPT !.verdict = "dropped"]}
    BY <1>2 DEF Bereft
  <2>2. task'[s][u] = q[u] /\ task[s][u] \in Task
    BY <1>5, <1>b, <1>6
  <2>3. LET d == [task[s][u] EXCEPT !.verdict = "dropped"]
        IN  /\ d.pc = task[s][u].pc /\ d.box = task[s][u].box /\ d.link = task[s][u].link
            /\ d.start = task[s][u].start /\ d.verdict = "dropped"
    BY <2>2 DEF Task
  <2> QED
    BY <2>1, <2>2, <2>3 DEF SameOrDropped
<1> QED
  BY <1>b, <1>5, <1>6

(* EndSession reaches the box unless that has no link, and then has no run.     *)
LEMMA EndHeard ==
    ASSUME FleetTypes, LinkInv, NEW b \in Boxes, NEW s \in Sessions,
           box' = EndSession(b, s)
    PROVE  /\ box' \in [Boxes -> [Sessions -> Contract!Box]]
           /\ \A c \in Boxes : c # b => box'[c][s] = box[c][s]
           /\ \A c \in Boxes : \A r \in Sessions : r # s => box'[c][r] = box[c][r]
           /\ peer[b] = 0 => box' = box
           /\ box'[b][s].waiting \subseteq box[b][s].waiting
           /\ box[b][s].crossed = {} => box'[b][s].waiting = {}
           /\ box'[b][s].stale \subseteq box[b][s].stale \cup box[b][s].waiting
           /\ box'[b][s].due = box[b][s].due
           /\ box'[b][s].playing = 0
           /\ box'[b][s].crossed = box[b][s].crossed
<1>1. box \in [Boxes -> [Sessions -> Contract!Box]] /\ box[b][s] \in Contract!Box
  BY DEF FleetTypes
<1>2. PICK y : y = Contract!Stopped(Contract!GivenUp(box[b][s],
                        box[b][s].waiting \ box[b][s].crossed))
  OBVIOUS
<1>3. /\ y \in Contract!Box
      /\ y.waiting \subseteq box[b][s].waiting
      /\ box[b][s].crossed = {} => y.waiting = {}
      /\ y.stale \subseteq box[b][s].stale \cup box[b][s].waiting
      /\ y.due = box[b][s].due /\ y.playing = 0 /\ y.crossed = box[b][s].crossed
  BY <1>1, <1>2, EndShape
<1>4. b # NoBox
  BY FleetAssumption
<1>5. CASE peer[b] # 0
  <2>1. tc_links[b] = peer[b]
    BY <1>5 DEF LinkInv
  <2>2. box' = [box EXCEPT ![b][s] = y]
    BY <1>2, <1>4, <1>5, <2>1 DEF EndSession, Heard
  <2>3. /\ box' \in [Boxes -> [Sessions -> Contract!Box]]
        /\ box'[b][s] = y
        /\ \A c \in Boxes : c # b => box'[c][s] = box[c][s]
        /\ \A c \in Boxes : \A r \in Sessions : r # s => box'[c][r] = box[c][r]
    BY <1>1, <1>3, <2>2, BoxUpdate
  <2> QED
    BY <1>3, <1>5, <2>3
<1>6. CASE peer[b] = 0
  <2>1. box' = box
    BY <1>4, <1>6 DEF EndSession, Heard
  <2>2. box[b][s] = Contract!IdleBox
    BY <1>6 DEF LinkInv
  <2>3. box[b][s].playing = 0 /\ box[b][s].waiting = {}
    BY <2>2 DEF Contract!IdleBox
  <2> QED
    BY <1>1, <2>1, <2>3
<1> QED
  BY <1>5, <1>6

(* StartSession likewise.                                                       *)
LEMMA StartHeard ==
    ASSUME FleetTypes, LinkInv, NEW b \in Boxes, NEW s \in Sessions,
           NEW n \in 1..MaxStarts, box' = StartSession(b, s, n)
    PROVE  /\ box' \in [Boxes -> [Sessions -> Contract!Box]]
           /\ \A c \in Boxes : c # b => box'[c][s] = box[c][s]
           /\ \A c \in Boxes : \A r \in Sessions : r # s => box'[c][r] = box[c][r]
           /\ peer[b] = 0 => box' = box
           /\ peer[b] # 0 => tc_links[b] = peer[b]
           /\ box'[b][s].waiting \subseteq box[b][s].waiting \cup {n}
           /\ peer[b] # 0 => n \in box'[b][s].waiting
           /\ box'[b][s].stale = box[b][s].stale
           /\ box'[b][s].due = box[b][s].due
           /\ box'[b][s].playing = box[b][s].playing
           /\ box[b][s].waiting = {} => box'[b][s].crossed = box[b][s].crossed
<1>1. box \in [Boxes -> [Sessions -> Contract!Box]] /\ box[b][s] \in Contract!Box
      /\ box[b][s].due = {}
  BY DEF FleetTypes, LinkInv
<1>2. PICK y : y = Contract!Begun(box[b][s], n)
  OBVIOUS
<1>3. /\ y \in Contract!Box
      /\ y.waiting = box[b][s].waiting \cup {n}
      /\ y.stale = box[b][s].stale
      /\ y.due = box[b][s].due /\ y.playing = box[b][s].playing
      /\ box[b][s].waiting = {} => y.crossed = box[b][s].crossed
  BY <1>1, <1>2, BoxShapes
<1>4. b # NoBox
  BY FleetAssumption
<1>5. CASE peer[b] # 0
  <2>1. tc_links[b] = peer[b]
    BY <1>5 DEF LinkInv
  <2>2. box' = [box EXCEPT ![b][s] = y]
    BY <1>2, <1>4, <1>5, <2>1 DEF StartSession, Heard
  <2>3. /\ box' \in [Boxes -> [Sessions -> Contract!Box]]
        /\ box'[b][s] = y
        /\ \A c \in Boxes : c # b => box'[c][s] = box[c][s]
        /\ \A c \in Boxes : \A r \in Sessions : r # s => box'[c][r] = box[c][r]
    BY <1>1, <1>3, <2>2, BoxUpdate
  <2> QED
    BY <1>3, <1>5, <2>1, <2>3
<1>6. CASE peer[b] = 0
  <2>1. box' = box
    BY <1>4, <1>6 DEF StartSession, Heard
  <2> QED
    BY <1>1, <1>6, <2>1
<1> QED
  BY <1>5, <1>6

(* A verdict is sent.                                                            *)
LEMMA ToldMore ==
    ASSUME FleetTypes, NEW b \in Boxes, NEW s \in Sessions, NEW n \in Nat \ {0},
           NEW ready \in BOOLEAN, Tell(b, s, n, ready)
    PROVE  /\ back' \in [Boxes -> Seq(Verdict)]
           /\ Told(b)' = Told(b) \cup {[session |-> s, start |-> n, ready |-> ready]}
           /\ \A c \in Boxes : c # b => Told(c)' = Told(c)
<1> DEFINE m == [session |-> s, start |-> n, ready |-> ready]
<1>1. m \in Verdict
  BY DEF Verdict
<1>2. back \in [Boxes -> Seq(Verdict)] /\ back' = [back EXCEPT ![b] = Append(@, m)]
  BY DEF FleetTypes, Tell
<1> HIDE DEF m
<1>3. PICK q \in Seq(Verdict) : q = back[b]
  BY <1>2
<1>4. back'[b] = Append(q, m) /\ \A c \in Boxes : c # b => back'[c] = back[c]
  BY <1>2, <1>3
<1>5. back' \in [Boxes -> Seq(Verdict)]
  BY <1>1, <1>2
<1>6. Told(b)' = Told(b) \cup {m}
  <2>1. DOMAIN Append(q, m) = 1..(Len(q) + 1) /\ DOMAIN q = 1..Len(q) /\ Len(q) \in Nat
        /\ Append(q, m)[Len(q) + 1] = m
        /\ \A i \in 1..Len(q) : Append(q, m)[i] = q[i]
    BY <1>1, <1>3
  <2>2. {Append(q, m)[i] : i \in DOMAIN Append(q, m)} = {q[i] : i \in DOMAIN q} \cup {m}
    <3>1. \A i \in 1..(Len(q) + 1) : i \in 1..Len(q) \/ i = Len(q) + 1
      BY <2>1
    <3>2. \A i \in 1..Len(q) : i \in 1..(Len(q) + 1)
      BY <2>1
    <3>3. Len(q) + 1 \in 1..(Len(q) + 1)
      BY <2>1
    <3> QED
      BY <2>1, <3>1, <3>2, <3>3
  <2> QED
    BY <1>3, <1>4, <2>2 DEF Told
<1> QED
  BY <1>4, <1>5, <1>6 DEF Told, m

(* A verdict is read.                                                            *)
LEMMA ToldLess ==
    ASSUME FleetTypes, NEW b \in Boxes, back[b] # <<>>, back' = [back EXCEPT ![b] = Tail(@)]
    PROVE  /\ back' \in [Boxes -> Seq(Verdict)]
           /\ Head(back[b]) \in Told(b) /\ Head(back[b]) \in Verdict
           /\ Told(b)' \subseteq Told(b)
           /\ Told(b) = Told(b)' \cup {Head(back[b])}
           /\ \A c \in Boxes : c # b => Told(c)' = Told(c)
<1>1. PICK q \in Seq(Verdict) : q = back[b] /\ q # <<>>
  BY DEF FleetTypes
<1>2. Tail(q) \in Seq(Verdict) /\ Head(q) \in Verdict /\ Head(q) = q[1] /\ Len(q) \in Nat
      /\ Len(q) > 0 /\ Len(Tail(q)) = Len(q) - 1
      /\ DOMAIN q = 1..Len(q) /\ DOMAIN Tail(q) = 1..(Len(q) - 1)
      /\ \A i \in 1..(Len(q) - 1) : Tail(q)[i] = q[i + 1]
  BY <1>1
<1>3. back'[b] = Tail(q) /\ (\A c \in Boxes : c # b => back'[c] = back[c])
      /\ back' \in [Boxes -> Seq(Verdict)]
  BY <1>1, <1>2 DEF FleetTypes
<1>4. Told(b) = {q[i] : i \in 1..Len(q)} /\ Told(b)' = {Tail(q)[i] : i \in 1..(Len(q) - 1)}
  BY <1>1, <1>2, <1>3 DEF Told
<1>5. Told(b)' \subseteq Told(b)
  <2>1. \A i \in 1..(Len(q) - 1) : i + 1 \in 1..Len(q)
    BY <1>2
  <2> QED
    BY <1>2, <1>4, <2>1
<1>6. Told(b) \subseteq Told(b)' \cup {Head(q)}
  <2>1. \A i \in 1..Len(q) : i = 1 \/ (i - 1 \in 1..(Len(q) - 1) /\ Tail(q)[i - 1] = q[i])
    BY <1>2
  <2> QED
    BY <1>2, <1>4, <2>1
<1>7. Head(q) \in Told(b)
  <2>1. 1 \in 1..Len(q)
    BY <1>2
  <2> QED
    BY <1>2, <1>4, <2>1
<1>8. \A c \in Boxes : c # b => Told(c)' = Told(c)
  BY <1>3 DEF Told
<1> QED
  BY <1>1, <1>2, <1>3, <1>5, <1>6, <1>7, <1>8

-----------------------------------------------------------------------------
(* Sessions a step does not concern.                                            *)

SameHistory(r) ==
    /\ r \in raced' <=> r \in raced
    /\ r \in misread' <=> r \in misread
    /\ r \in needless' <=> r \in needless
    /\ r \in late' <=> r \in late
    /\ r \in told' <=> r \in told

Aside(r) ==
    /\ state'[r] = state[r] /\ transcoder'[r] = transcoder[r]
    /\ pending_ready'[r] = pending_ready[r]
    /\ task'[r] = task[r] /\ sent'[r] = sent[r]
    /\ \A b \in Boxes : box'[b][r] = box[b][r]
    /\ \A b \in Boxes : \A m : m.session = r => (m \in Told(b)' <=> m \in Told(b))
    /\ SameHistory(r)

(* They keep their invariant.                                                   *)
LEMMA AsideKept ==
    ASSUME FleetTypes, NEW r \in Sessions, SessionInv(r), Aside(r), UNCHANGED linkVars
    PROVE  SessionInv(r)'
<1> USE DEF Aside, linkVars, SameHistory
<1>0. \A t \in Tasks : task[r][t].pc \in Busy => task[r][t].box \in Boxes
  BY DEF SessionInv, TaskInv
<1>1. TaskInv(r)'
  BY DEF SessionInv, TaskInv, Seeking
<1>2. AloneInv(r)'
  BY DEF SessionInv, AloneInv, Seeking
<1>3. StartInv(r)'
  BY DEF SessionInv, StartInv, Occurs
<1>4. RunInv(r)'
  BY DEF SessionInv, RunInv, Running, Quiet, Failing, Clean
<1>5. ServeInv(r)'
  <2>1. \A b \in Boxes : (Erring(b, r)' <=> Erring(b, r)) /\ (Heeded(b, r)' <=> Heeded(b, r))
    BY DEF Erring, Heeded
  <2>2. \A t \in Tasks : Up(r, t)' <=> Up(r, t)
    BY <1>0 DEF Up, Busy
  <2>3. \A t \in Tasks : Up(r, t) => task[r][t].box \in Boxes
    BY <1>0 DEF Up, Busy
  <2>4. state[r] = "active" => transcoder[r] \in Boxes
    BY DEF SessionInv, TaskInv
  <2>5. Known(r)' <=> Known(r)
    BY DEF Known
  <2>6. ASSUME Known(r), NEW t \in Tasks, Up(r, t), task[r][t].link # 0,
               task[r][t].link = peer[task[r][t].box]
        PROVE  Heeded(task[r][t].box, r)
    BY <2>6 DEF SessionInv, ServeInv
  <2> QED
    BY <2>1, <2>2, <2>3, <2>4, <2>5, <2>6 DEF SessionInv, ServeInv
<1> QED
  BY <1>1, <1>2, <1>3, <1>4, <1>5 DEF SessionInv

-----------------------------------------------------------------------------
(* Steps of one session.                                                       *)

(* What a task is set to.                                                      *)
LEMMA TaskShapes ==
    /\ Idle \in Task /\ Idle.pc = "idle" /\ Idle.start = 0
    /\ \A p \in {"end", "called"} :
          /\ [Idle EXCEPT !.pc = p] \in Task
          /\ [Idle EXCEPT !.pc = p].pc = p
          /\ [Idle EXCEPT !.pc = p].start = 0
<1>1. Idle.retry \in BOOLEAN
  BY DEF Idle
<1>2. Idle \in Task /\ Idle.pc = "idle" /\ Idle.start = 0
  BY <1>1 DEF Idle, Task
<1> QED
  BY <1>2 DEF Task

(* A task aimed at a box.                                                      *)
LEMMA AimShape ==
    ASSUME NEW b \in Boxes, NEW retry \in BOOLEAN
    PROVE  /\ Aimed(b, retry) \in Task
           /\ Aimed(b, retry).pc = "dispatch" /\ Aimed(b, retry).box = b
           /\ Aimed(b, retry).link = 0 /\ Aimed(b, retry).start = 0
<1>1. Idle \in Task /\ Idle.link = 0 /\ Idle.start = 0
  BY TaskShapes DEF Idle
<1> QED
  BY <1>1 DEF Aimed, Task

(* Only dispatches that wait, and a start about to be published, have a number. *)
NoneWaits(s) == \A t \in Tasks : task[s][t].pc \notin {"wait", "publish"}

(* The invariant of the session that steps and the frame of the others.         *)
LEMMA SessionStep ==
    ASSUME FleetInv, FleetTypes', UNCHANGED linkVars, NEW s \in Sessions,
           \A r \in Sessions : r # s => Aside(r),
           \A b \in Boxes : peer[b] = 0 => Told(b)' = Told(b),
           \A b \in Boxes : peer[b] = 0 => box'[b][s] = box[b][s],
           \A b \in Boxes : box'[b][s].due = box[b][s].due,
           SessionInv(s)'
    PROVE  FleetInv'
<1>1. LinkInv'
  <2>1. \A b \in Boxes : \A r \in Sessions : r # s => box'[b][r] = box[b][r]
    BY DEF Aside
  <2>2. ASSUME NEW b \in Boxes, peer[b] = 0
        PROVE  Told(b)' = {} /\ \A r \in Sessions : box'[b][r] = Contract!IdleBox
    BY <2>1, <2>2 DEF FleetInv, LinkInv
  <2>3. \A b \in Boxes : \A r \in Sessions : box'[b][r].due = {}
    BY <2>1 DEF FleetInv, LinkInv
  <2> QED
    BY <2>2, <2>3 DEF FleetInv, LinkInv, linkVars
<1>2. \A r \in Sessions : SessionInv(r)'
  BY AsideKept DEF FleetInv
<1> QED
  BY <1>1, <1>2 DEF FleetInv

(* Start numbers stay where they are.                                           *)
LEMMA StartKept ==
    ASSUME NEW s \in Sessions, StartInv(s), sent'[s] = sent[s], UNCHANGED peer,
           \A t \in Tasks :
              \/ task'[s][t].start = 0
              \/ /\ task'[s][t].start = task[s][t].start
                 /\ task'[s][t].box = task[s][t].box
                 /\ task'[s][t].link = task[s][t].link,
           \A b \in Boxes, n \in Nat \ {0} : Occurs(b, s, n)' => Occurs(b, s, n)
    PROVE  StartInv(s)'
  BY DEF StartInv

(* Nothing runs and no dispatch waits.                                          *)
LEMMA RunQuiet ==
    ASSUME NEW s \in Sessions, RunInv(s), sent'[s] = sent[s],
           Clean(s)' => Clean(s) /\ Quiet(s)' /\ NoneWaits(s)',
           \A b \in Boxes : box'[b][s].crossed = box[b][s].crossed
    PROVE  RunInv(s)'
<1> SUFFICES ASSUME Clean(s)'
             PROVE  RunInv(s)'
  BY DEF RunInv
<1>1. \A b \in Boxes : box'[b][s].crossed = {} /\ box'[b][s].waiting = {}
                       /\ box'[b][s].playing = 0
  BY DEF RunInv, Quiet, Running
<1> QED
  BY <1>1 DEF RunInv, Quiet, NoneWaits

(* No dispatch waits, and an active session has a task.                         *)
LEMMA ServeByTask ==
    ASSUME NEW s \in Sessions,
           Known(s)' => NoneWaits(s)',
           Known(s)' /\ state'[s] = "active" => \E t \in Tasks : task'[s][t].pc # "idle"
    PROVE  ServeInv(s)'
  BY DEF ServeInv, NoneWaits, Up

(* Nothing at the boxes changes.                                                *)
LEMMA BoxesStill ==
    ASSUME UNCHANGED <<box, back>>
    PROVE  /\ \A b \in Boxes : Told(b)' = Told(b)
           /\ \A b \in Boxes, s \in Sessions, n \in Nat \ {0} :
                 Occurs(b, s, n)' <=> Occurs(b, s, n)
           /\ \A b \in Boxes, s \in Sessions : Running(b, s)' <=> Running(b, s)
           /\ \A b \in Boxes, s \in Sessions : Erring(b, s)' <=> Erring(b, s)
           /\ \A s \in Sessions : Quiet(s)' <=> Quiet(s)
  BY DEF Told, Occurs, Running, Erring, Quiet

(* A dispatch that fails leaves nothing running, unless the session has seen a  *)
(* race, a misread verdict or a needless reschedule.                            *)
LEMMA FailsFacts ==
    ASSUME FleetInv, NEW s \in Sessions, NEW t \in Tasks, Fails(s, t)
    PROVE  /\ box' \in [Boxes -> [Sessions -> Contract!Box]]
           /\ \A c \in Boxes : \A r \in Sessions : r # s => box'[c][r] = box[c][r]
           /\ \A c \in Boxes : peer[c] = 0 => box'[c][s] = box[c][s]
           /\ \A c \in Boxes :
                 /\ box'[c][s].waiting \subseteq box[c][s].waiting
                 /\ box'[c][s].stale \subseteq box[c][s].stale \cup box[c][s].waiting
                 /\ box'[c][s].due = box[c][s].due
                 /\ box'[c][s].playing \in {0, box[c][s].playing}
                 /\ box'[c][s].crossed = box[c][s].crossed
           /\ Clean(s) => Quiet(s)'
           /\ task[s][t].pc = "wait" /\ task[s][t].box \in Boxes
<1>1. task[s][t].pc = "wait" /\ task[s][t].box \in Boxes
  BY DEF Fails, FleetInv, SessionInv, TaskInv, Busy
<1>2. CASE task[s][t].verdict \in {"err", "unsent"} /\ box' = box
  <2>1. Clean(s) => Quiet(s)'
    BY <1>1, <1>2 DEF FleetInv, SessionInv, RunInv, Quiet, Running
  <2> QED
    BY <1>1, <1>2, <2>1 DEF FleetInv, FleetTypes
<1>3. CASE box' = EndSession(task[s][t].box, s)
  <2> DEFINE b == task[s][t].box
  <2>0. FleetTypes /\ LinkInv /\ SessionInv(s)
    BY DEF FleetInv
  <2>1. b \in Boxes /\ box' = EndSession(b, s)
    BY <1>1, <1>3
  <2> HIDE DEF b
  <2>2. /\ box' \in [Boxes -> [Sessions -> Contract!Box]]
        /\ \A c \in Boxes : c # b => box'[c][s] = box[c][s]
        /\ \A c \in Boxes : \A r \in Sessions : r # s => box'[c][r] = box[c][r]
        /\ peer[b] = 0 => box' = box
        /\ box'[b][s].waiting \subseteq box[b][s].waiting
        /\ box[b][s].crossed = {} => box'[b][s].waiting = {}
        /\ box'[b][s].stale \subseteq box[b][s].stale \cup box[b][s].waiting
        /\ box'[b][s].due = box[b][s].due
        /\ box'[b][s].playing = 0
        /\ box'[b][s].crossed = box[b][s].crossed
    BY <2>0, <2>1, EndHeard
  <2>3. ASSUME Clean(s)
        PROVE  Quiet(s)'
    <3>1. \A c \in Boxes : box[c][s].crossed = {} /\ (Running(c, s) => c = b)
      BY <2>0, <2>3, <1>1 DEF SessionInv, RunInv, b
    <3> QED
      BY <2>1, <2>2, <3>1 DEF Quiet, Running
  <2> QED
    BY <1>1, <2>1, <2>2, <2>3
<1> QED
  BY <1>2, <1>3 DEF Fails

(* ... and Settle takes the dispatch out of its wait.                            *)
LEMMA SettleFacts ==
    ASSUME FleetTypes, NEW s \in Sessions, NEW t \in Tasks, NEW x \in Task, Settle(s, t, x)
    PROVE  /\ task' \in [Sessions -> [Tasks -> Task]]
           /\ pending_ready' \in [Sessions -> Tasks \cup {"none"}]
           /\ pending_ready'[s] = "none"
           /\ \A r \in Sessions : r # s => pending_ready'[r] = pending_ready[r]
           /\ task'[s][t] = x
           /\ \A u \in Tasks : u # t => SameOrDropped(s, u)
           /\ \A r \in Sessions : r # s => task'[r] = task[r]
<1>1. /\ task' \in [Sessions -> [Tasks -> Task]]
      /\ task'[s][t] = x
      /\ \A u \in Tasks : u # t => SameOrDropped(s, u)
      /\ \A r \in Sessions : r # s => task'[r] = task[r]
  BY BereftWrite DEF Settle, FleetTypes
<1>2. pending_ready' = [pending_ready EXCEPT ![s] = "none"]
  BY DEF Settle
<1>3. /\ pending_ready' \in [Sessions -> Tasks \cup {"none"}]
      /\ pending_ready'[s] = "none"
      /\ \A r \in Sessions : r # s => pending_ready'[r] = pending_ready[r]
  BY <1>2 DEF FleetTypes
<1> QED
  BY <1>1, <1>3

(* A failed dispatch: its task goes on as x.                                      *)
LEMMA FailStep ==
    ASSUME FleetInv, NEW s \in Sessions, NEW t \in Tasks, Fails(s, t),
           NEW x \in Task, Settle(s, t, x),
           x.pc \notin {"wait", "publish"}, x.start = 0,
           x.pc = "dispatch" => x.box = task[s][t].box /\ x.link = 0,
           t \notin Movers => x.pc \in {"idle", "dispatch"},
           UNCHANGED <<linkVars, back, sent, transcoder>>,
           tc_load' \in [Boxes -> 0..MaxSessions],
           state' = state \/ (t = "start" /\ x.pc = "idle" /\ state' = [state EXCEPT ![s] = "gone"]),
           \A r \in Sessions : r # s => SameHistory(r),
           Clean(s)' => Clean(s), s \notin raced' => s \notin raced, Known(s)' => s \notin raced,
           Known(s)' /\ state'[s] = "active" => x.pc # "idle"
    PROVE  FleetInv'
<1>0. FleetTypes /\ LinkInv /\ SessionInv(s) /\ (\A r \in Sessions : SessionInv(r))
  BY DEF FleetInv
<1>1. /\ box' \in [Boxes -> [Sessions -> Contract!Box]]
      /\ \A c \in Boxes : \A r \in Sessions : r # s => box'[c][r] = box[c][r]
      /\ \A c \in Boxes : peer[c] = 0 => box'[c][s] = box[c][s]
      /\ \A c \in Boxes :
            /\ box'[c][s].waiting \subseteq box[c][s].waiting
            /\ box'[c][s].stale \subseteq box[c][s].stale \cup box[c][s].waiting
            /\ box'[c][s].due = box[c][s].due
            /\ box'[c][s].playing \in {0, box[c][s].playing}
            /\ box'[c][s].crossed = box[c][s].crossed
      /\ Clean(s) => Quiet(s)'
      /\ task[s][t].pc = "wait" /\ task[s][t].box \in Boxes
  BY FailsFacts
<1>2. /\ task' \in [Sessions -> [Tasks -> Task]]
      /\ pending_ready' \in [Sessions -> Tasks \cup {"none"}]
      /\ pending_ready'[s] = "none"
      /\ \A r \in Sessions : r # s => pending_ready'[r] = pending_ready[r]
      /\ task'[s][t] = x
      /\ \A u \in Tasks : u # t => SameOrDropped(s, u)
      /\ \A r \in Sessions : r # s => task'[r] = task[r]
  BY <1>0, SettleFacts
<1>3. state' \in [Sessions -> {"none", "starting", "active", "ending", "gone"}]
      /\ (\A r \in Sessions : r # s => state'[r] = state[r])
      /\ (state'[s] = state[s] \/ (t = "start" /\ x.pc = "idle" /\ state'[s] = "gone"))
  BY <1>0 DEF FleetTypes
<1>4. FleetTypes'
  BY <1>0, <1>1, <1>2, <1>3 DEF FleetTypes, linkVars
<1>5. \A b \in Boxes : Told(b)' = Told(b)
  BY DEF Told
<1>6. \A r \in Sessions : r # s => Aside(r)
  BY <1>1, <1>2, <1>3, <1>5 DEF Aside
<1>7. TaskInv(s)'
  <2>1. state'[s] = "gone" /\ t = "start" => task[s]["seek"].pc = "idle"
    BY <1>0, <1>1 DEF SessionInv, TaskInv, Seeking
  <2>2. \A u \in Tasks : u # t => /\ task'[s][u].pc = task[s][u].pc
                                  /\ task'[s][u].box = task[s][u].box
                                  /\ task'[s][u].link = task[s][u].link
                                  /\ task'[s][u].start = task[s][u].start
    BY <1>2 DEF SameOrDropped
  <2>3. \A u \in Tasks : task'[s][u].pc \in Busy =>
          task'[s][u].box \in Boxes /\ task'[s][u].link <= opened[task'[s][u].box]
    <3>1. \A b \in Boxes : opened[b] \in Nat
      BY <1>0 DEF FleetTypes
    <3>2. x.pc \in Busy => x.pc = "dispatch"
      BY DEF Busy
    <3>3. ASSUME NEW u \in Tasks, task'[s][u].pc \in Busy
          PROVE  task'[s][u].box \in Boxes /\ task'[s][u].link <= opened[task'[s][u].box]
      <4>1. CASE u = t
        BY <1>1, <1>2, <3>1, <3>2, <3>3, <4>1
      <4>2. CASE u # t
        BY <1>0, <2>2, <3>3, <4>2 DEF SessionInv, TaskInv
      <4> QED
        BY <4>1, <4>2
    <3> QED
      BY <3>3
  <2>4. \A u \in Tasks : task'[s][u].start <= sent'[s]
    <3>1. sent[s] \in Nat
      BY <1>0 DEF FleetTypes
    <3> QED
      BY <1>0, <1>2, <2>2, <3>1 DEF SessionInv, TaskInv
  <2>5. opened' = opened /\ transcoder' = transcoder
    BY DEF linkVars
  <2>6. state'[s] \in {"active", "ending"} => transcoder'[s] \in Boxes
    BY <1>0, <1>3, <2>5 DEF SessionInv, TaskInv
  <2>7. /\ task'[s]["start"].pc \in {"idle"} \cup Busy
        /\ task'[s]["seek"].pc \in {"idle", "dispatch", "wait"}
        /\ \A u \in Movers : task'[s][u].pc # "publish"
    BY <1>0, <1>2, <2>2 DEF SessionInv, TaskInv, Busy, Tasks, Movers
  <2>8. /\ task'[s]["start"].pc # "idle" => state'[s] = "starting"
        /\ Seeking(s)' => state'[s] \in {"active", "ending"}
    BY <1>0, <1>1, <1>2, <1>3, <2>1, <2>2 DEF SessionInv, TaskInv, Seeking, Tasks
  <2> QED
    BY <1>2, <2>3, <2>4, <2>5, <2>6, <2>7, <2>8 DEF TaskInv
<1>8. \A u \in Tasks : task'[s][u].pc = task[s][u].pc \/ u = t
  BY <1>2 DEF SameOrDropped
<1>9. s \notin raced => NoneWaits(s)' /\ \A u \in Tasks : u # t => task'[s][u].pc \notin Busy
  <2>1. s \notin raced => \A u \in Tasks : task[s][u].pc \in Busy => u = t
    BY <1>0, <1>1 DEF SessionInv, AloneInv, Busy
  <2> QED
    BY <1>2, <1>8, <2>1 DEF NoneWaits, Busy
<1>10. AloneInv(s)'
  <2> SUFFICES ASSUME s \notin raced'
               PROVE  AloneInv(s)'
    BY DEF AloneInv
  <2>1. \A u, v \in Tasks : task'[s][u].pc \in Busy /\ task'[s][v].pc \in Busy => u = v
    BY <1>9
  <2>2. \A u \in Movers : task'[s][u].pc \in Busy => state'[s] = "active"
    <3>1. \A u \in Movers : task'[s][u].pc \in Busy => u = t
      BY <1>9 DEF Movers, Tasks
    <3>2. t \in Movers => state[s] = "active" /\ state'[s] = state[s]
      BY <1>0, <1>1, <1>3 DEF SessionInv, AloneInv, Busy, Movers
    <3> QED
      BY <3>1, <3>2
  <2>3. Seeking(s)' => task'[s]["seek"].box = transcoder'[s]
    <3>1. "seek" \in Tasks /\ transcoder' = transcoder
      BY DEF Tasks
    <3>2. CASE t = "seek"
      BY <1>0, <1>1, <1>2, <3>1, <3>2 DEF SessionInv, AloneInv, Seeking, Movers
    <3>3. CASE t # "seek"
      BY <1>0, <1>2, <3>1, <3>3 DEF SessionInv, AloneInv, Seeking, SameOrDropped
    <3> QED
      BY <3>2, <3>3
  <2> QED
    BY <2>1, <2>2, <2>3 DEF AloneInv
<1>11. StartInv(s)'
  <2>1. \A b \in Boxes, n \in Nat \ {0} : Occurs(b, s, n)' => Occurs(b, s, n)
    BY <1>1, <1>5 DEF Occurs
  <2>2. \A u \in Tasks :
              \/ task'[s][u].start = 0
              \/ /\ task'[s][u].start = task[s][u].start
                 /\ task'[s][u].box = task[s][u].box
                 /\ task'[s][u].link = task[s][u].link
    BY <1>2 DEF SameOrDropped
  <2> QED
    BY <1>0, <2>1, <2>2, StartKept DEF SessionInv, linkVars
<1>12. RunInv(s)'
  <2>1. Clean(s)' => Clean(s) /\ Quiet(s)' /\ NoneWaits(s)'
    BY <1>1, <1>9 DEF Clean
  <2> QED
    BY <1>0, <1>1, <2>1, RunQuiet DEF SessionInv
<1>13. ServeInv(s)'
  BY <1>2, <1>9, ServeByTask
<1> QED
  BY <1>0, <1>1, <1>4, <1>5, <1>6, <1>7, <1>10, <1>11, <1>12, <1>13, SessionStep
     DEF SessionInv

(* The registry's bookkeeping keeps the load within the capability.                *)
LEMMA LoadShapes ==
    ASSUME NEW load \in [Boxes -> 0..MaxSessions], NEW b
    PROVE  /\ Released(load, b) \in [Boxes -> 0..MaxSessions]
           /\ \A c \in Boxes : c # b => Released(load, b)[c] = load[c]
           /\ b \in Boxes => Released(load, b)[b] = IF load[b] > 0 THEN load[b] - 1 ELSE 0
           /\ b \in Boxes /\ load[b] < MaxSessions =>
                 /\ Reserved(load, b) \in [Boxes -> 0..MaxSessions]
                 /\ Reserved(load, b)[b] = load[b] + 1
                 /\ \A c \in Boxes : c # b => Reserved(load, b)[c] = load[c]
<1>1. MaxSessions \in Nat /\ \A c \in Boxes : load[c] \in Nat /\ load[c] <= MaxSessions
  BY FleetAssumption
<1> QED
  BY <1>1 DEF Released, Reserved

(* The other sink is tried on the same slot. *)
LEMMA DispatchRetriedStep ==
    ASSUME FleetInv, NEW s \in Sessions, NEW t \in Tasks, DispatchRetried(s, t)
    PROVE  FleetInv'
<1>1. task[s][t].box \in Boxes
  BY FailsFacts DEF DispatchRetried
<1>2. PICK x : x = Aimed(task[s][t].box, FALSE)
  OBVIOUS
<1>3. \E retry \in BOOLEAN : x = Aimed(task[s][t].box, retry)
  BY <1>2
<1>4. x \in Task /\ x.pc = "dispatch" /\ x.box = task[s][t].box /\ x.link = 0 /\ x.start = 0
  BY <1>1, <1>3, AimShape
<1>5. Fails(s, t) /\ Settle(s, t, x)
  BY <1>2 DEF DispatchRetried
<1>6. /\ UNCHANGED <<linkVars, back, sent, transcoder, state, tc_load>>
      /\ UNCHANGED history
  BY DEF DispatchRetried
<1>7. \A r \in Sessions : SameHistory(r)
  BY <1>6 DEF SameHistory, history
<1>8. tc_load' \in [Boxes -> 0..MaxSessions]
  BY <1>6 DEF FleetInv, FleetTypes
<1>9. (Clean(s)' => Clean(s)) /\ (s \notin raced' => s \notin raced) /\ (Known(s)' => s \notin raced)
  BY <1>6 DEF history, Clean, Known
<1> QED
  BY <1>4, <1>5, <1>6, <1>7, <1>8, <1>9, FailStep

(* A start that failed for good leaves nothing running and ends its session. *)
LEMMA StartFailedStep ==
    ASSUME FleetInv, NEW s \in Sessions, StartFailed(s)
    PROVE  FleetInv'
<1>1. Idle \in Task /\ Idle.pc = "idle" /\ Idle.start = 0
  BY TaskShapes
<1>2. "start" \in Tasks /\ "start" \notin Movers
  BY DEF Tasks, Movers
<1>3. Fails(s, "start") /\ Settle(s, "start", Idle)
  BY DEF StartFailed
<1>4. /\ UNCHANGED <<linkVars, back, sent, transcoder>>
      /\ UNCHANGED history
      /\ state' = [state EXCEPT ![s] = "gone"]
      /\ tc_load' = Released(tc_load, task[s]["start"].box)
  BY DEF StartFailed
<1>5. \A r \in Sessions : SameHistory(r)
  BY <1>4 DEF SameHistory, history
<1>6. tc_load' \in [Boxes -> 0..MaxSessions]
  BY <1>4, LoadShapes DEF FleetInv, FleetTypes
<1>7. (Clean(s)' => Clean(s)) /\ (s \notin raced' => s \notin raced) /\ (Known(s)' => s \notin raced)
  BY <1>4 DEF history, Clean, Known
<1>8. state'[s] # "active"
  BY <1>4 DEF FleetInv, FleetTypes
<1> QED
  BY <1>1, <1>2, <1>3, <1>4, <1>5, <1>6, <1>7, <1>8, FailStep

(* A seek that failed for good leaves nothing running; its viewer knows. *)
LEMMA SeekFailedStep ==
    ASSUME FleetInv, NEW s \in Sessions, SeekFailed(s)
    PROVE  FleetInv'
<1>1. Idle \in Task /\ Idle.pc = "idle" /\ Idle.start = 0
  BY TaskShapes
<1>2. "seek" \in Tasks /\ "seek" \notin Movers
  BY DEF Tasks, Movers
<1>3. Fails(s, "seek") /\ Settle(s, "seek", Idle)
  BY DEF SeekFailed
<1>4. /\ UNCHANGED <<linkVars, back, sent, transcoder, state, tc_load>>
      /\ UNCHANGED <<raced, misread, needless, late>>
      /\ told' = told \cup {s}
  BY DEF SeekFailed
<1>5. \A r \in Sessions : r # s => SameHistory(r)
  BY <1>4 DEF SameHistory
<1>6. tc_load' \in [Boxes -> 0..MaxSessions]
  BY <1>4 DEF FleetInv, FleetTypes
<1>7. (Clean(s)' => Clean(s)) /\ (s \notin raced' => s \notin raced) /\ ~Known(s)'
  BY <1>4 DEF Clean, Known
<1> QED
  BY <1>1, <1>2, <1>3, <1>4, <1>5, <1>6, <1>7, FailStep

(* A reschedule that failed leaves nothing running and is about to end its session. *)
LEMMA MoveFailedStep ==
    ASSUME FleetInv, NEW s \in Sessions, NEW t \in Movers, MoveFailed(s, t)
    PROVE  FleetInv'
<1>1. PICK x : x = [Idle EXCEPT !.pc = "end"]
  OBVIOUS
<1>a. x \in Task /\ x.pc = "end" /\ x.start = 0
  BY <1>1, TaskShapes
<1>2. t \in Tasks
  BY DEF Tasks, Movers
<1>3. Fails(s, t) /\ Settle(s, t, x)
  BY <1>1 DEF MoveFailed
<1>4. /\ UNCHANGED <<linkVars, back, sent, transcoder, state>>
      /\ UNCHANGED history
      /\ tc_load' = Released(tc_load, task[s][t].box)
  BY DEF MoveFailed
<1>5. \A r \in Sessions : SameHistory(r)
  BY <1>4 DEF SameHistory, history
<1>6. tc_load' \in [Boxes -> 0..MaxSessions]
  BY <1>4, LoadShapes DEF FleetInv, FleetTypes
<1>7. (Clean(s)' => Clean(s)) /\ (s \notin raced' => s \notin raced) /\ (Known(s)' => s \notin raced)
  BY <1>4 DEF history, Clean, Known
<1> QED
  BY <1>a, <1>2, <1>3, <1>4, <1>5, <1>6, <1>7, FailStep

-----------------------------------------------------------------------------
(* Steps after which no dispatch of the session waits.                              *)

(* The frame of such a step: what the boxes have of s can only shrink. *)
LEMMA QuietStep ==
    ASSUME FleetInv, FleetTypes', NEW s \in Sessions,
           UNCHANGED <<linkVars, back>>,
           \A r \in Sessions : r # s =>
              /\ state'[r] = state[r] /\ transcoder'[r] = transcoder[r]
              /\ pending_ready'[r] = pending_ready[r]
              /\ task'[r] = task[r] /\ SameHistory(r)
              /\ \A c \in Boxes : box'[c][r] = box[c][r],
           UNCHANGED sent,
           \A c \in Boxes : peer[c] = 0 => box'[c][s] = box[c][s],
           \A c \in Boxes :
                 /\ box'[c][s].waiting \subseteq box[c][s].waiting
                 /\ box'[c][s].stale \subseteq box[c][s].stale \cup box[c][s].waiting
                 /\ box'[c][s].due = box[c][s].due
                 /\ box'[c][s].playing \in {0, box[c][s].playing}
                 /\ box'[c][s].crossed = box[c][s].crossed,
           \A u \in Tasks :
              \/ task'[s][u].start = 0
              \/ /\ task'[s][u].start = task[s][u].start
                 /\ task'[s][u].box = task[s][u].box
                 /\ task'[s][u].link = task[s][u].link,
           TaskInv(s)', AloneInv(s)', RunInv(s)',
           Known(s)' => NoneWaits(s)',
           Known(s)' /\ state'[s] = "active" => \E t \in Tasks : task'[s][t].pc # "idle"
    PROVE  FleetInv'
<1>0. FleetTypes /\ LinkInv /\ SessionInv(s) /\ (\A r \in Sessions : SessionInv(r))
  BY DEF FleetInv
<1>5. \A b \in Boxes : Told(b)' = Told(b)
  BY DEF Told
<1>6. \A r \in Sessions : r # s => Aside(r)
  BY <1>5 DEF Aside
<1>11. StartInv(s)'
  <2>1. \A b \in Boxes, n \in Nat \ {0} : Occurs(b, s, n)' => Occurs(b, s, n)
    BY <1>5 DEF Occurs
  <2> QED
    BY <1>0, <2>1, StartKept DEF SessionInv, linkVars
<1>13. ServeInv(s)'
  BY ServeByTask
<1> QED
  BY <1>0, <1>5, <1>6, <1>11, <1>13, SessionStep DEF SessionInv

(* Tasks that do not dispatch change, and nothing else that matters for a run.      *)
LEMMA RunSame ==
    ASSUME NEW s \in Sessions, RunInv(s), UNCHANGED <<box, back>>, sent'[s] = sent[s],
           Clean(s)' => Clean(s),
           transcoder'[s] = transcoder[s],
           state[s] \in {"active", "ending"} => state'[s] \in {"active", "ending"},
           \A t \in Tasks : task'[s][t].pc \in Busy \/ task[s][t].pc \in Busy =>
              task'[s][t] = task[s][t]
    PROVE  RunInv(s)'
<1>1. /\ \A b \in Boxes : Running(b, s)' <=> Running(b, s)
      /\ Quiet(s)' <=> Quiet(s)
      /\ \A b \in Boxes : \A n : Failing(b, s, n)' <=> Failing(b, s, n)
  BY DEF Running, Quiet, Failing, Told
<1>2. \A t \in Tasks : /\ task'[s][t].pc = "dispatch" => task[s][t].pc = "dispatch"
                       /\ task'[s][t].pc \in {"wait", "publish"} => task'[s][t] = task[s][t]
                       /\ task'[s][t].pc = "wait" => task'[s][t] = task[s][t]
                       /\ task[s][t].pc \in Busy <=> task'[s][t].pc \in Busy
  BY DEF Busy
<1> SUFFICES ASSUME Clean(s)'
             PROVE  RunInv(s)'
  BY DEF RunInv
<1>3. Clean(s)
  OBVIOUS
<1> QED
  BY <1>1, <1>2, <1>3 DEF RunInv

(* A session is placed; nothing of it can run yet. *)
LEMMA PlaceStep ==
    ASSUME FleetInv, NEW s \in Sessions, NEW b \in Boxes, Place(s, b)
    PROVE  FleetInv'
<1>0. FleetTypes /\ LinkInv /\ SessionInv(s)
  BY DEF FleetInv
<1>1. PICK x : x = Aimed(b, TRUE)
  OBVIOUS
<1>2. \E retry \in BOOLEAN : x = Aimed(b, retry)
  BY <1>1
<1>3. x \in Task /\ x.pc = "dispatch" /\ x.box = b /\ x.link = 0 /\ x.start = 0
  BY <1>2, AimShape
<1>4. /\ state[s] = "none" /\ state' = [state EXCEPT ![s] = "starting"]
      /\ task' = [task EXCEPT ![s]["start"] = x]
      /\ tc_load[b] < MaxSessions /\ tc_load' = Reserved(tc_load, b)
      /\ UNCHANGED <<linkVars, back, box, transcoder, pending_ready, sent>>
      /\ UNCHANGED history
  BY <1>1 DEF Place, Placeable, boxVars
<1>5. "start" \in Tasks
  BY DEF Tasks
<1>6. /\ task' \in [Sessions -> [Tasks -> Task]]
      /\ task'[s]["start"] = x
      /\ \A u \in Tasks : u # "start" => task'[s][u] = task[s][u]
      /\ \A r \in Sessions : r # s => task'[r] = task[r]
  BY <1>0, <1>3, <1>4, <1>5, TaskUpdate DEF FleetTypes
<1>7. /\ state' \in [Sessions -> {"none", "starting", "active", "ending", "gone"}]
      /\ state'[s] = "starting" /\ \A r \in Sessions : r # s => state'[r] = state[r]
  BY <1>0, <1>4 DEF FleetTypes
<1>8. tc_load' \in [Boxes -> 0..MaxSessions]
  BY <1>0, <1>4, LoadShapes DEF FleetTypes
<1>9. FleetTypes'
  BY <1>0, <1>4, <1>6, <1>7, <1>8 DEF FleetTypes, linkVars
<1>10. task[s]["start"].pc = "idle" /\ task[s]["seek"].pc = "idle"
  BY <1>0, <1>4 DEF SessionInv, TaskInv, Seeking
<1>11. TaskInv(s)'
  <2>1. opened[b] \in Nat /\ sent[s] \in Nat
    BY <1>0 DEF FleetTypes
  <2>2. pending_ready[s] # "start"
    BY <1>0, <1>10 DEF SessionInv, TaskInv
  <2>3. pending_ready[s] \in Tasks \cup {"none"}
    BY <1>0 DEF FleetTypes
  <2> QED
    BY <1>0, <1>3, <1>4, <1>6, <1>7, <1>10, <2>1, <2>2, <2>3
       DEF SessionInv, TaskInv, Seeking, Tasks, Movers, Busy, linkVars
<1>12. s \notin raced => \A u \in Tasks : u # "start" => task'[s][u].pc \notin Busy
  BY <1>0, <1>4, <1>6, <1>10 DEF SessionInv, AloneInv, Tasks, Movers, Busy
<1>13. AloneInv(s)'
  BY <1>4, <1>6, <1>10, <1>12 DEF AloneInv, Seeking, history, Movers, Tasks
<1>14. s \notin raced => NoneWaits(s)'
  BY <1>3, <1>6, <1>12 DEF NoneWaits, Busy
<1>15. RunInv(s)'
  <2>1. ASSUME Clean(s)
        PROVE  Quiet(s)
    <3>1. \A u \in Tasks : task[s][u].pc \notin Busy
      BY <2>1, <1>6, <1>10, <1>12 DEF Clean, Tasks, Busy
    <3> QED
      BY <1>0, <1>4, <2>1, <3>1 DEF SessionInv, RunInv, Quiet
  <2>2. Quiet(s)' <=> Quiet(s)
    BY <1>4 DEF Quiet, Running
  <2>3. Clean(s)' => Clean(s)
    BY <1>4 DEF Clean, history
  <2>4. Clean(s) => s \notin raced
    BY DEF Clean
  <2> QED
    BY <1>0, <1>4, <1>14, <2>1, <2>2, <2>3, <2>4, RunQuiet DEF SessionInv
<1>16. \A r \in Sessions : SameHistory(r)
  BY <1>4 DEF SameHistory, history
<1>17. Known(s)' => s \notin raced
  BY <1>4 DEF Known, history
<1> QED
  BY <1>3, <1>4, <1>6, <1>7, <1>9, <1>11, <1>13, <1>14, <1>15, <1>16, <1>17, QuietStep

(* A start that is abandoned is a race. *)
LEMMA AbandonStep ==
    ASSUME FleetInv, NEW s \in Sessions, Abandon(s)
    PROVE  FleetInv'
<1>0. FleetTypes /\ LinkInv /\ SessionInv(s)
  BY DEF FleetInv
<1>1. Idle \in Task /\ Idle.pc = "idle" /\ Idle.start = 0
  BY TaskShapes
<1>2. "start" \in Tasks
  BY DEF Tasks
<1>3. /\ task[s]["start"].pc \in {"wait", "publish"}
      /\ Settle(s, "start", Idle)
      /\ state' = [state EXCEPT ![s] = "gone"]
      /\ raced' = raced \cup {s}
      /\ UNCHANGED <<linkVars, back, box, transcoder, sent, tc_load, misread, needless, late, told>>
  BY DEF Abandon, boxVars
<1>4. /\ task' \in [Sessions -> [Tasks -> Task]]
      /\ pending_ready' \in [Sessions -> Tasks \cup {"none"}]
      /\ pending_ready'[s] = "none"
      /\ \A r \in Sessions : r # s => pending_ready'[r] = pending_ready[r]
      /\ task'[s]["start"] = Idle
      /\ \A u \in Tasks : u # "start" => SameOrDropped(s, u)
      /\ \A r \in Sessions : r # s => task'[r] = task[r]
  BY <1>0, <1>1, <1>2, <1>3, SettleFacts
<1>5. /\ state' \in [Sessions -> {"none", "starting", "active", "ending", "gone"}]
      /\ state'[s] = "gone" /\ \A r \in Sessions : r # s => state'[r] = state[r]
  BY <1>0, <1>3 DEF FleetTypes
<1>6. FleetTypes'
  BY <1>0, <1>3, <1>4, <1>5 DEF FleetTypes, linkVars
<1>7. task[s]["seek"].pc = "idle"
  BY <1>0, <1>3 DEF SessionInv, TaskInv, Seeking
<1>8. TaskInv(s)'
  <2>1. sent[s] \in Nat
    BY <1>0 DEF FleetTypes
  <2>2. \A u \in Tasks : u # "start" => /\ task'[s][u].pc = task[s][u].pc
                                  /\ task'[s][u].box = task[s][u].box
                                  /\ task'[s][u].link = task[s][u].link
                                  /\ task'[s][u].start = task[s][u].start
    BY <1>4 DEF SameOrDropped
  <2> QED
    BY <1>0, <1>1, <1>3, <1>4, <1>5, <1>7, <2>1, <2>2
       DEF SessionInv, TaskInv, Seeking, Tasks, Movers, Busy, linkVars
<1>9. ~Clean(s)' /\ ~Known(s)' /\ s \in raced'
  BY <1>3 DEF Clean, Known
<1>10. AloneInv(s)' /\ RunInv(s)'
  BY <1>9 DEF AloneInv, RunInv
<1>11. \A r \in Sessions : r # s => SameHistory(r)
  BY <1>3 DEF SameHistory
<1>12. \A u \in Tasks :
              \/ task'[s][u].start = 0
              \/ /\ task'[s][u].start = task[s][u].start
                 /\ task'[s][u].box = task[s][u].box
                 /\ task'[s][u].link = task[s][u].link
  BY <1>1, <1>4 DEF SameOrDropped
<1> QED
  BY <1>3, <1>4, <1>5, <1>6, <1>8, <1>9, <1>10, <1>11, <1>12, QuietStep

(* A seek ends the run of its session before it dispatches. *)
LEMMA BeginSeekStep ==
    ASSUME FleetInv, NEW s \in Sessions, BeginSeek(s)
    PROVE  FleetInv'
<1>0. FleetTypes /\ LinkInv /\ SessionInv(s)
  BY DEF FleetInv
<1>1. /\ state[s] = "active" /\ ~Seeking(s) /\ transcoder[s] \in Boxes
      /\ box' = EndSession(transcoder[s], s)
      /\ tc_load' = Released(tc_load, transcoder[s])
      /\ raced' = (IF Moving(s) THEN raced \cup {s} ELSE raced)
      /\ UNCHANGED <<linkVars, back, state, transcoder, pending_ready, sent,
                     misread, needless, late, told>>
  BY <1>0 DEF BeginSeek, SessionInv, TaskInv
<1>2. PICK retry \in BOOLEAN : task' = [task EXCEPT ![s]["seek"] = Aimed(transcoder[s], retry)]
  BY DEF BeginSeek
<1>3. PICK x : x = Aimed(transcoder[s], retry)
  OBVIOUS
<1>4. x \in Task /\ x.pc = "dispatch" /\ x.box = transcoder[s] /\ x.link = 0 /\ x.start = 0
  BY <1>1, <1>3, AimShape
<1>5. "seek" \in Tasks
  BY DEF Tasks
<1>6. /\ task' \in [Sessions -> [Tasks -> Task]]
      /\ task'[s]["seek"] = x
      /\ \A u \in Tasks : u # "seek" => task'[s][u] = task[s][u]
      /\ \A r \in Sessions : r # s => task'[r] = task[r]
  BY <1>0, <1>2, <1>3, <1>4, <1>5, TaskUpdate DEF FleetTypes
<1>7. PICK b \in Boxes : b = transcoder[s]
  BY <1>1
<1>8. /\ box' \in [Boxes -> [Sessions -> Contract!Box]]
      /\ \A c \in Boxes : c # b => box'[c][s] = box[c][s]
      /\ \A c \in Boxes : \A r \in Sessions : r # s => box'[c][r] = box[c][r]
      /\ peer[b] = 0 => box' = box
      /\ box'[b][s].waiting \subseteq box[b][s].waiting
      /\ box[b][s].crossed = {} => box'[b][s].waiting = {}
      /\ box'[b][s].stale \subseteq box[b][s].stale \cup box[b][s].waiting
      /\ box'[b][s].due = box[b][s].due
      /\ box'[b][s].playing = 0
      /\ box'[b][s].crossed = box[b][s].crossed
  BY <1>0, <1>1, <1>7, EndHeard
<1>9. tc_load' \in [Boxes -> 0..MaxSessions]
  BY <1>0, <1>1, LoadShapes DEF FleetTypes
<1>10. FleetTypes'
  BY <1>0, <1>1, <1>6, <1>8, <1>9 DEF FleetTypes, linkVars
<1>11. task[s]["start"].pc = "idle" /\ task[s]["seek"].pc = "idle"
  BY <1>0, <1>1 DEF SessionInv, TaskInv, Seeking
<1>12. TaskInv(s)'
  <2>1. opened[b] \in Nat /\ sent[s] \in Nat
    BY <1>0 DEF FleetTypes
  <2>2. pending_ready[s] # "seek"
    BY <1>0, <1>11 DEF SessionInv, TaskInv
  <2>3. pending_ready[s] \in Tasks \cup {"none"}
    BY <1>0 DEF FleetTypes
  <2> QED
    BY <1>0, <1>1, <1>4, <1>6, <1>7, <1>11, <2>1, <2>2, <2>3
       DEF SessionInv, TaskInv, Seeking, Tasks, Movers, Busy, linkVars
<1>13. s \notin raced' => s \notin raced /\ \A u \in Tasks : u # "seek" => task[s][u].pc \notin Busy
  BY <1>0, <1>1, <1>11 DEF Moving, Movers, Tasks, Busy, SessionInv, TaskInv
<1>14. AloneInv(s)'
  BY <1>1, <1>4, <1>6, <1>13 DEF AloneInv, Seeking, Movers, Tasks
<1>15. s \notin raced' => NoneWaits(s)'
  BY <1>4, <1>6, <1>13 DEF NoneWaits, Busy
<1>16. Clean(s)' => Clean(s) /\ s \notin raced'
  BY <1>1, <1>13 DEF Clean
<1>17. RunInv(s)'
  <2>1. ASSUME Clean(s)'
        PROVE  Quiet(s)'
    <3>1. \A u \in Tasks : task[s][u].pc \notin Busy
      BY <2>1, <1>11, <1>13, <1>16 DEF Busy
    <3>2. \A c \in Boxes : box[c][s].crossed = {} /\ (Running(c, s) => c = b)
      BY <1>0, <1>7, <1>16, <2>1, <3>1 DEF SessionInv, RunInv
    <3> QED
      BY <1>8, <3>2 DEF Quiet, Running
  <2>2. \A c \in Boxes : box'[c][s].crossed = box[c][s].crossed
    BY <1>8
  <2> QED
    BY <1>0, <1>1, <1>15, <1>16, <2>1, <2>2, RunQuiet DEF SessionInv
<1>18. \A r \in Sessions : r # s => SameHistory(r)
  BY <1>1 DEF SameHistory
<1>19. Known(s)' => s \notin raced'
  BY DEF Known
<1>20. \A c \in Boxes :
                 /\ box'[c][s].waiting \subseteq box[c][s].waiting
                 /\ box'[c][s].stale \subseteq box[c][s].stale \cup box[c][s].waiting
                 /\ box'[c][s].due = box[c][s].due
                 /\ box'[c][s].playing \in {0, box[c][s].playing}
                 /\ box'[c][s].crossed = box[c][s].crossed
                 /\ peer[c] = 0 => box'[c][s] = box[c][s]
  BY <1>8
<1>21. \A u \in Tasks :
              \/ task'[s][u].start = 0
              \/ /\ task'[s][u].start = task[s][u].start
                 /\ task'[s][u].box = task[s][u].box
                 /\ task'[s][u].link = task[s][u].link
  BY <1>4, <1>6
<1>22. \A r \in Sessions : r # s =>
              /\ state'[r] = state[r] /\ transcoder'[r] = transcoder[r]
              /\ pending_ready'[r] = pending_ready[r]
              /\ task'[r] = task[r] /\ SameHistory(r)
              /\ \A c \in Boxes : box'[c][r] = box[c][r]
  BY <1>1, <1>6, <1>8, <1>18
<1>23. \E t \in Tasks : task'[s][t].pc # "idle"
  BY <1>4, <1>5, <1>6
<1> QED
  BY <1>1, <1>10, <1>12, <1>14, <1>15, <1>17, <1>19, <1>20, <1>21, <1>22, <1>23, QuietStep

(* A seek is cut short by the end of its session. *)
LEMMA SeekDroppedStep ==
    ASSUME FleetInv, NEW s \in Sessions, SeekDropped(s)
    PROVE  FleetInv'
<1>0. FleetTypes /\ LinkInv /\ SessionInv(s)
  BY DEF FleetInv
<1>1. /\ state[s] = "ending" /\ Seeking(s)
      /\ UNCHANGED <<linkVars, back, box, state, transcoder, sent, tc_load>>
      /\ UNCHANGED history
  BY DEF SeekDropped, boxVars
<1>2. Idle \in Task /\ Idle.pc = "idle" /\ Idle.start = 0 /\ "seek" \in Tasks
  BY TaskShapes DEF Tasks
<1>3. /\ task' \in [Sessions -> [Tasks -> Task]]
      /\ pending_ready' \in [Sessions -> Tasks \cup {"none"}]
      /\ pending_ready'[s] = "none" \/ (task[s]["seek"].pc # "wait" /\ pending_ready' = pending_ready)
      /\ \A r \in Sessions : r # s => pending_ready'[r] = pending_ready[r]
      /\ task'[s]["seek"] = Idle
      /\ \A u \in Tasks : u # "seek" => SameOrDropped(s, u)
      /\ \A r \in Sessions : r # s => task'[r] = task[r]
  <2>1. CASE task[s]["seek"].pc = "wait"
    <3>1. Settle(s, "seek", Idle)
      BY <2>1 DEF SeekDropped
    <3> QED
      BY <1>0, <1>2, <3>1, SettleFacts
  <2>2. CASE task[s]["seek"].pc # "wait"
    <3>1. task' = [task EXCEPT ![s]["seek"] = Idle] /\ pending_ready' = pending_ready
      BY <2>2 DEF SeekDropped
    <3>2. /\ task' \in [Sessions -> [Tasks -> Task]]
          /\ task'[s]["seek"] = Idle
          /\ \A u \in Tasks : u # "seek" => task'[s][u] = task[s][u]
          /\ \A r \in Sessions : r # s => task'[r] = task[r]
      BY <1>0, <1>2, <3>1, TaskUpdate DEF FleetTypes
    <3>3. \A u \in Tasks : u # "seek" => SameOrDropped(s, u)
      BY <3>2 DEF SameOrDropped
    <3> QED
      BY <1>0, <2>2, <3>1, <3>2, <3>3 DEF FleetTypes
  <2> QED
    BY <2>1, <2>2
<1>4. FleetTypes'
  BY <1>0, <1>1, <1>3 DEF FleetTypes, linkVars
<1>5. \A u \in Tasks : u # "seek" => /\ task'[s][u].pc = task[s][u].pc
                                  /\ task'[s][u].box = task[s][u].box
                                  /\ task'[s][u].link = task[s][u].link
                                  /\ task'[s][u].start = task[s][u].start
  BY <1>3 DEF SameOrDropped
<1>6. TaskInv(s)'
  <2>1. sent[s] \in Nat /\ pending_ready[s] \in Tasks \cup {"none"}
    BY <1>0 DEF FleetTypes
  <2>2. pending_ready'[s] # "none" => pending_ready'[s] = pending_ready[s]
                                      /\ pending_ready[s] # "seek"
    BY <1>0, <1>3 DEF SessionInv, TaskInv
  <2> QED
    BY <1>0, <1>1, <1>2, <1>3, <1>5, <2>1, <2>2
       DEF SessionInv, TaskInv, Seeking, Tasks, Movers, Busy, linkVars
<1>7. s \notin raced => \A u \in Tasks : task'[s][u].pc \notin Busy
  <2>1. task[s]["seek"].pc \in Busy
    BY <1>0, <1>1 DEF SessionInv, TaskInv, Seeking, Busy
  <2>2. s \notin raced => \A u \in Tasks : task[s][u].pc \in Busy => u = "seek"
    BY <1>0, <1>2, <2>1 DEF SessionInv, AloneInv
  <2>3. "idle" \notin Busy
    BY DEF Busy
  <2> QED
    BY <1>2, <1>3, <1>5, <2>2, <2>3
<1>8. raced' = raced /\ (Clean(s)' <=> Clean(s)) /\ (Known(s)' <=> Known(s))
      /\ (\A r \in Sessions : SameHistory(r))
  BY <1>1 DEF history, Clean, Known, SameHistory
<1>9. AloneInv(s)'
  BY <1>2, <1>3, <1>7, <1>8 DEF AloneInv, Seeking, Movers, Tasks
<1>10. RunInv(s)'
  <2> SUFFICES ASSUME Clean(s)
               PROVE  RunInv(s)'
    BY <1>8 DEF RunInv
  <2>1. s \notin raced
    BY DEF Clean
  <2>2. \A b \in Boxes : Running(b, s)' <=> Running(b, s)
    BY <1>1 DEF Running
  <2>3. \A b \in Boxes : Running(b, s) => b = transcoder[s]
    <3>1. task[s]["seek"].box = transcoder[s] /\ task[s]["seek"].pc \in {"dispatch", "wait"}
      BY <1>0, <1>1, <2>1 DEF SessionInv, AloneInv, TaskInv, Seeking
    <3> QED
      BY <1>0, <1>2, <3>1 DEF SessionInv, RunInv, Quiet
  <2>4. \A b \in Boxes :
              /\ box'[b][s].crossed = {}
              /\ box'[b][s].waiting \subseteq {sent'[s]}
              /\ box'[b][s].playing \in {0, sent'[s]}
              /\ box'[b][s].playing # 0 => box'[b][s].waiting = {}
    BY <1>0, <1>1 DEF SessionInv, RunInv
  <2>5. \A u \in Tasks : task'[s][u].pc # "dispatch" /\ task'[s][u].pc \notin {"wait", "publish"}
                         /\ task'[s][u].pc # "wait"
    BY <1>7, <2>1 DEF Busy
  <2> QED
    BY <1>1, <2>2, <2>3, <2>4, <2>5 DEF RunInv
<1>11. Known(s)' => NoneWaits(s)'
  BY <1>7, <1>8 DEF Known, NoneWaits, Busy
<1>12. \A u \in Tasks :
              \/ task'[s][u].start = 0
              \/ /\ task'[s][u].start = task[s][u].start
                 /\ task'[s][u].box = task[s][u].box
                 /\ task'[s][u].link = task[s][u].link
  BY <1>2, <1>3, <1>5
<1>13. state'[s] # "active"
  BY <1>1
<1> QED
  BY <1>1, <1>3, <1>4, <1>6, <1>8, <1>9, <1>10, <1>11, <1>12, <1>13, QuietStep

(* reschedule_inner: whatever it decides, the task is aimed at a box or will end  *)
(* the session, and the load stays within the capability.                         *)
LEMMA BeginMoveFacts ==
    ASSUME FleetTypes, NEW s \in Sessions, NEW t \in Movers, BeginMove(s, t)
    PROVE  \E x \in Task :
              /\ task' = [task EXCEPT ![s][t] = x]
              /\ x.start = 0 /\ x.link = 0
              /\ \/ x.pc = "end"
                 \/ x.pc = "dispatch" /\ x.box \in Boxes /\ state[s] = "active"
              /\ tc_load' \in [Boxes -> 0..MaxSessions]
<1>1. tc_load \in [Boxes -> 0..MaxSessions]
  BY DEF FleetTypes
<1>2. PICK freed : freed = Released(tc_load, transcoder[s])
  OBVIOUS
<1>3. freed \in [Boxes -> 0..MaxSessions]
  BY <1>1, <1>2, LoadShapes
<1>4. PICK e : e = [Idle EXCEPT !.pc = "end"]
  OBVIOUS
<1>5. e \in Task /\ e.pc = "end" /\ e.start = 0 /\ e.link = 0
  BY <1>4, TaskShapes DEF Idle
<1>6. CASE task' = [task EXCEPT ![s][t] = e] /\ (tc_load' = tc_load \/ tc_load' = freed)
  BY <1>1, <1>3, <1>5, <1>6
<1>7. CASE state[s] = "active" /\ \E b \in Boxes :
                      /\ Placeable(freed, b)
                      /\ tc_load' = Reserved(freed, b)
                      /\ task' = [task EXCEPT ![s][t] = Aimed(b, FALSE)]
  <2>1. PICK b \in Boxes : /\ Placeable(freed, b)
                           /\ tc_load' = Reserved(freed, b)
                           /\ task' = [task EXCEPT ![s][t] = Aimed(b, FALSE)]
    BY <1>7
  <2>2. PICK x : x = Aimed(b, FALSE)
    OBVIOUS
  <2>3. \E retry \in BOOLEAN : x = Aimed(b, retry)
    BY <2>2
  <2>4. x \in Task /\ x.pc = "dispatch" /\ x.box = b /\ x.link = 0 /\ x.start = 0
    BY <2>3, AimShape
  <2>5. tc_load' \in [Boxes -> 0..MaxSessions]
    BY <1>3, <2>1, LoadShapes DEF Placeable
  <2> QED
    BY <1>7, <2>1, <2>2, <2>4, <2>5
<1> QED
  BY <1>2, <1>4, <1>6, <1>7 DEF BeginMove

(* A reschedule begins; unless it is needless there is nothing left to run. *)
LEMMA BeginMoveStep ==
    ASSUME FleetInv, NEW s \in Sessions, NEW t \in Movers, BeginMove(s, t)
    PROVE  FleetInv'
<1>0. FleetTypes /\ LinkInv /\ SessionInv(s) /\ t \in Tasks
  BY DEF FleetInv, Movers, Tasks
<1>1. /\ task[s][t].pc = "called"
      /\ UNCHANGED <<linkVars, back, box, state, transcoder, pending_ready, sent, misread, told>>
      /\ needless' = (IF Occupied(s) THEN needless \cup {s} ELSE needless)
      /\ raced' = (IF Seeking(s) \/ Moving(s) THEN raced \cup {s} ELSE raced)
      /\ late' = (IF state[s] = "starting" THEN late \cup {s} ELSE late)
  BY DEF BeginMove, boxVars
<1>2. PICK x \in Task :
              /\ task' = [task EXCEPT ![s][t] = x]
              /\ x.start = 0 /\ x.link = 0
              /\ \/ x.pc = "end"
                 \/ x.pc = "dispatch" /\ x.box \in Boxes /\ state[s] = "active"
              /\ tc_load' \in [Boxes -> 0..MaxSessions]
  BY <1>0, BeginMoveFacts
<1>3. /\ task' \in [Sessions -> [Tasks -> Task]]
      /\ task'[s][t] = x
      /\ \A u \in Tasks : u # t => task'[s][u] = task[s][u]
      /\ \A r \in Sessions : r # s => task'[r] = task[r]
  BY <1>0, <1>2, TaskUpdate DEF FleetTypes
<1>4. FleetTypes'
  BY <1>0, <1>1, <1>2, <1>3 DEF FleetTypes, linkVars
<1>5. TaskInv(s)'
  <2>1. sent[s] \in Nat /\ pending_ready[s] \in Tasks \cup {"none"}
        /\ \A b \in Boxes : opened[b] \in Nat
    BY <1>0 DEF FleetTypes
  <2>2. pending_ready[s] # t
    BY <1>0, <1>1 DEF SessionInv, TaskInv, Movers
  <2> QED
    BY <1>0, <1>1, <1>2, <1>3, <2>1, <2>2
       DEF SessionInv, TaskInv, Seeking, Tasks, Movers, Busy, linkVars
<1>6. s \notin raced' => /\ s \notin raced
                         /\ ~Seeking(s)
                         /\ \A u \in Tasks : u # "start" => task[s][u].pc \notin Busy
  BY <1>0, <1>1 DEF Moving, Seeking, Movers, Tasks, Busy, SessionInv, TaskInv
<1>7. state[s] # "starting" => task[s]["start"].pc \notin Busy
  BY <1>0 DEF SessionInv, TaskInv, Busy
<1>8. AloneInv(s)'
  <2> SUFFICES ASSUME s \notin raced'
               PROVE  AloneInv(s)'
    BY DEF AloneInv
  <2>1. CASE x.pc = "end"
    BY <1>0, <1>1, <1>3, <1>6, <2>1 DEF AloneInv, SessionInv, Seeking, Movers, Tasks, Busy
  <2>2. CASE x.pc = "dispatch" /\ state[s] = "active"
    BY <1>0, <1>1, <1>3, <1>6, <1>7, <2>2 DEF AloneInv, SessionInv, Seeking, Movers, Tasks, Busy
  <2> QED
    BY <1>2, <2>1, <2>2
<1>9. Known(s)' => NoneWaits(s)'
  <2>1. Known(s)' => s \notin raced' /\ state[s] # "starting"
    BY <1>1 DEF Known
  <2> QED
    BY <1>2, <1>3, <1>6, <1>7, <2>1 DEF NoneWaits, Busy
<1>10. Clean(s)' => Clean(s) /\ s \notin raced' /\ Quiet(s)
  <2>1. ~Occupied(s) => Quiet(s)
    BY DEF Occupied, Quiet, Running
  <2> QED
    BY <1>1, <1>6, <2>1 DEF Clean
<1>11. RunInv(s)'
  <2>1. CASE x.pc = "end"
    <3>1. \A u \in Tasks : task'[s][u].pc \in Busy \/ task[s][u].pc \in Busy =>
              task'[s][u] = task[s][u]
      BY <1>1, <1>3, <2>1 DEF Busy
    <3> QED
      BY <1>0, <1>1, <1>10, <3>1, RunSame DEF SessionInv
  <2>2. CASE x.pc = "dispatch" /\ state[s] = "active"
    <3>1. Quiet(s)' <=> Quiet(s)
      BY <1>1 DEF Quiet, Running
    <3>2. Clean(s)' => NoneWaits(s)'
      BY <1>3, <1>6, <1>7, <1>10, <2>2 DEF NoneWaits, Busy
    <3> QED
      BY <1>0, <1>1, <1>10, <3>1, <3>2, RunQuiet DEF SessionInv
  <2> QED
    BY <1>2, <2>1, <2>2
<1>12. \A r \in Sessions : r # s => SameHistory(r)
  BY <1>1 DEF SameHistory
<1>13. \A u \in Tasks :
              \/ task'[s][u].start = 0
              \/ /\ task'[s][u].start = task[s][u].start
                 /\ task'[s][u].box = task[s][u].box
                 /\ task'[s][u].link = task[s][u].link
  BY <1>2, <1>3
<1>14. task'[s][t].pc # "idle"
  BY <1>2, <1>3
<1> QED
  BY <1>0, <1>1, <1>3, <1>4, <1>5, <1>8, <1>9, <1>11, <1>12, <1>13, <1>14, QuietStep

(* EndSession goes out behind the last StartSession. *)
LEMMA FinishEndStep ==
    ASSUME FleetInv, NEW s \in Sessions, FinishEnd(s)
    PROVE  FleetInv'
<1>0. FleetTypes /\ LinkInv /\ SessionInv(s)
  BY DEF FleetInv
<1>1. /\ state[s] = "ending" /\ ~Seeking(s) /\ transcoder[s] \in Boxes
      /\ task' = [task EXCEPT ![s] = Bereft(@, s, "none")]
      /\ pending_ready' = [pending_ready EXCEPT ![s] = "none"]
      /\ tc_load' = Released(tc_load, transcoder[s])
      /\ box' = EndSession(transcoder[s], s)
      /\ state' = [state EXCEPT ![s] = "gone"]
      /\ UNCHANGED <<linkVars, back, transcoder, sent>>
      /\ UNCHANGED history
  BY <1>0 DEF FinishEnd, SessionInv, TaskInv
<1>2. /\ task' \in [Sessions -> [Tasks -> Task]]
      /\ \A u \in Tasks : SameOrDropped(s, u)
      /\ \A r \in Sessions : r # s => task'[r] = task[r]
  BY <1>0, <1>1, BereftUpdate DEF FleetTypes
<1>3. PICK b \in Boxes : b = transcoder[s]
  BY <1>1
<1>4. /\ box' \in [Boxes -> [Sessions -> Contract!Box]]
      /\ \A c \in Boxes : c # b => box'[c][s] = box[c][s]
      /\ \A c \in Boxes : \A r \in Sessions : r # s => box'[c][r] = box[c][r]
      /\ peer[b] = 0 => box' = box
      /\ box'[b][s].waiting \subseteq box[b][s].waiting
      /\ box[b][s].crossed = {} => box'[b][s].waiting = {}
      /\ box'[b][s].stale \subseteq box[b][s].stale \cup box[b][s].waiting
      /\ box'[b][s].due = box[b][s].due
      /\ box'[b][s].playing = 0
      /\ box'[b][s].crossed = box[b][s].crossed
  BY <1>0, <1>1, <1>3, EndHeard
<1>5. /\ state' \in [Sessions -> {"none", "starting", "active", "ending", "gone"}]
      /\ state'[s] = "gone" /\ (\A r \in Sessions : r # s => state'[r] = state[r])
      /\ pending_ready' \in [Sessions -> Tasks \cup {"none"}]
      /\ pending_ready'[s] = "none"
      /\ \A r \in Sessions : r # s => pending_ready'[r] = pending_ready[r]
  BY <1>0, <1>1 DEF FleetTypes
<1>6. tc_load' \in [Boxes -> 0..MaxSessions]
  BY <1>0, <1>1, LoadShapes DEF FleetTypes
<1>7. FleetTypes'
  BY <1>0, <1>1, <1>2, <1>4, <1>5, <1>6 DEF FleetTypes, linkVars
<1>8. \A u \in Tasks : /\ task'[s][u].pc = task[s][u].pc
                       /\ task'[s][u].box = task[s][u].box
                       /\ task'[s][u].link = task[s][u].link
                       /\ task'[s][u].start = task[s][u].start
  BY <1>2 DEF SameOrDropped
<1>9. task[s]["start"].pc = "idle" /\ task[s]["seek"].pc = "idle"
  BY <1>0, <1>1 DEF SessionInv, TaskInv, Seeking
<1>10. TaskInv(s)'
  BY <1>0, <1>1, <1>5, <1>8, <1>9
     DEF SessionInv, TaskInv, Seeking, Tasks, Movers, Busy, linkVars
<1>11. s \notin raced => \A u \in Tasks : task[s][u].pc \notin Busy
  BY <1>0, <1>1, <1>9 DEF SessionInv, AloneInv, Tasks, Movers, Busy
<1>12. raced' = raced /\ (Clean(s)' <=> Clean(s)) /\ (Known(s)' <=> Known(s))
      /\ (\A r \in Sessions : SameHistory(r))
  BY <1>1 DEF history, Clean, Known, SameHistory
<1>13. s \notin raced => NoneWaits(s)' /\ \A u \in Tasks : task'[s][u].pc \notin Busy
  BY <1>8, <1>11 DEF NoneWaits, Busy
<1>14. AloneInv(s)'
  BY <1>8, <1>9, <1>12, <1>13 DEF AloneInv, Seeking, Movers, Tasks
<1>15. \A c \in Boxes :
                 /\ box'[c][s].waiting \subseteq box[c][s].waiting
                 /\ box'[c][s].stale \subseteq box[c][s].stale \cup box[c][s].waiting
                 /\ box'[c][s].due = box[c][s].due
                 /\ box'[c][s].playing \in {0, box[c][s].playing}
                 /\ box'[c][s].crossed = box[c][s].crossed
                 /\ peer[c] = 0 => box'[c][s] = box[c][s]
  BY <1>4
<1>16. RunInv(s)'
  <2>1. ASSUME Clean(s)
        PROVE  Quiet(s)'
    <3>1. \A c \in Boxes : box[c][s].crossed = {} /\ (Running(c, s) => c = b)
      BY <1>0, <1>3, <1>11, <2>1 DEF SessionInv, RunInv, Clean
    <3> QED
      BY <1>4, <3>1 DEF Quiet, Running
  <2>2. Clean(s) => s \notin raced
    BY DEF Clean
  <2> QED
    BY <1>0, <1>1, <1>12, <1>13, <1>15, <2>1, <2>2, RunQuiet DEF SessionInv
<1>17. Known(s)' => NoneWaits(s)'
  BY <1>12, <1>13 DEF Known
<1>18. \A u \in Tasks :
              \/ task'[s][u].start = 0
              \/ /\ task'[s][u].start = task[s][u].start
                 /\ task'[s][u].box = task[s][u].box
                 /\ task'[s][u].link = task[s][u].link
  BY <1>8
<1>19. \A r \in Sessions : r # s =>
              /\ state'[r] = state[r] /\ transcoder'[r] = transcoder[r]
              /\ pending_ready'[r] = pending_ready[r]
              /\ task'[r] = task[r] /\ SameHistory(r)
              /\ \A c \in Boxes : box'[c][r] = box[c][r]
  BY <1>1, <1>2, <1>4, <1>5, <1>12
<1> QED
  BY <1>1, <1>5, <1>7, <1>10, <1>14, <1>15, <1>16, <1>17, <1>18, <1>19, QuietStep

(* Nothing a dispatch stands on changes, and the session is not active.             *)
LEMMA ServeSame ==
    ASSUME NEW s \in Sessions, ServeInv(s), UNCHANGED <<box, back, peer>>,
           Known(s)' => Known(s), pending_ready'[s] = pending_ready[s],
           \A t \in Tasks : task'[s][t].pc \in {"wait", "publish"} => task'[s][t] = task[s][t],
           task[s]["error"].pc = "called" => task'[s]["error"].pc = "called",
           state'[s] # "active"
    PROVE  ServeInv(s)'
<1>1. \A b, m : m \in Told(b)' <=> m \in Told(b)
  BY DEF Told
<1>2. \A t \in Tasks : Up(s, t)' => Up(s, t) /\ task'[s][t] = task[s][t]
  BY <1>1 DEF Up
<1>3. \A b : Heeded(b, s) => Heeded(b, s)'
  BY <1>1 DEF Heeded, Erring
<1> QED
  BY <1>2, <1>3 DEF ServeInv

(* The session leaves active; its runs stay where they are. *)
LEMMA BeginEndStep ==
    ASSUME FleetInv, NEW s \in Sessions, BeginEnd(s)
    PROVE  FleetInv'
<1>0. FleetTypes /\ LinkInv /\ SessionInv(s)
  BY DEF FleetInv
<1>1. /\ state[s] = "active" /\ state' = [state EXCEPT ![s] = "ending"]
      /\ raced' = (IF Moving(s) THEN raced \cup {s} ELSE raced)
      /\ UNCHANGED <<linkVars, tc_load, back, box, transcoder, pending_ready, task, sent,
                     misread, needless, late, told>>
  BY DEF BeginEnd, boxVars
<1>2. /\ state' \in [Sessions -> {"none", "starting", "active", "ending", "gone"}]
      /\ state'[s] = "ending" /\ (\A r \in Sessions : r # s => state'[r] = state[r])
  BY <1>0, <1>1 DEF FleetTypes
<1>3. FleetTypes'
  BY <1>0, <1>1, <1>2 DEF FleetTypes, linkVars
<1>4. TaskInv(s)'
  BY <1>0, <1>1, <1>2 DEF SessionInv, TaskInv, Seeking, linkVars
<1>5. s \notin raced' => s \notin raced /\ \A t \in Movers : task[s][t].pc \notin Busy
  BY <1>0, <1>1 DEF Moving, SessionInv, TaskInv, Busy
<1>6. AloneInv(s)'
  BY <1>0, <1>1, <1>5 DEF SessionInv, AloneInv, Seeking
<1>7. StartInv(s)'
  BY <1>0, <1>1, StartKept, BoxesStill DEF SessionInv, linkVars
<1>8. (Clean(s)' => Clean(s)) /\ (Known(s)' => Known(s)) /\ \A r \in Sessions : r # s => SameHistory(r)
  BY <1>1 DEF Clean, Known, SameHistory
<1>9. RunInv(s)'
  BY <1>0, <1>1, <1>2, <1>8, RunSame DEF SessionInv
<1>10. ServeInv(s)'
  BY <1>0, <1>1, <1>2, <1>8, ServeSame DEF SessionInv, linkVars
<1>11. \A b \in Boxes : Told(b)' = Told(b)
  BY <1>1 DEF Told
<1>12. \A r \in Sessions : r # s => Aside(r)
  BY <1>1, <1>2, <1>8, <1>11 DEF Aside
<1> QED
  BY <1>0, <1>1, <1>3, <1>4, <1>6, <1>7, <1>9, <1>10, <1>11, <1>12, SessionStep DEF SessionInv

(* A reschedule that failed ends its session. *)
LEMMA EndAfterMoveStep ==
    ASSUME FleetInv, NEW s \in Sessions, NEW t \in Movers, EndAfterMove(s, t)
    PROVE  FleetInv'
<1>0. FleetTypes /\ LinkInv /\ SessionInv(s) /\ t \in Tasks /\ t # "none"
  BY DEF FleetInv, Movers, Tasks
<1>1. /\ task[s][t].pc = "end" /\ task' = [task EXCEPT ![s][t] = Idle]
      /\ state' = (IF state[s] = "active" THEN [state EXCEPT ![s] = "ending"] ELSE state)
      /\ raced' = (IF state[s] = "active" /\ Moving(s) THEN raced \cup {s} ELSE raced)
      /\ UNCHANGED <<linkVars, tc_load, back, box, transcoder, pending_ready, sent,
                     misread, needless, late, told>>
  BY DEF EndAfterMove, boxVars
<1>2. /\ state' \in [Sessions -> {"none", "starting", "active", "ending", "gone"}]
      /\ state[s] = "active" => state'[s] = "ending"
      /\ state[s] # "active" => state'[s] = state[s]
      /\ (\A r \in Sessions : r # s => state'[r] = state[r])
  BY <1>0, <1>1 DEF FleetTypes
<1>3. Idle \in Task /\ Idle.pc = "idle" /\ Idle.start = 0
  BY TaskShapes
<1>4. /\ task' \in [Sessions -> [Tasks -> Task]]
      /\ task'[s][t] = Idle
      /\ \A u \in Tasks : u # t => task'[s][u] = task[s][u]
      /\ \A r \in Sessions : r # s => task'[r] = task[r]
  BY <1>0, <1>1, <1>3, TaskUpdate DEF FleetTypes
<1>5. FleetTypes'
  BY <1>0, <1>1, <1>2, <1>4 DEF FleetTypes, linkVars
<1>6. TaskInv(s)'
  <2>1. sent[s] \in Nat /\ pending_ready[s] \in Tasks \cup {"none"} /\ pending_ready[s] # t
    BY <1>0, <1>1 DEF FleetTypes, SessionInv, TaskInv
  <2> QED
    BY <1>0, <1>1, <1>2, <1>3, <1>4, <2>1
       DEF SessionInv, TaskInv, Seeking, Tasks, Movers, Busy, linkVars
<1>7. s \notin raced' => s \notin raced /\ (state[s] = "active" => \A u \in Movers : task[s][u].pc \notin Busy)
  BY <1>0, <1>1 DEF Moving, SessionInv, TaskInv, Busy
<1>8. \A u \in Tasks : task'[s][u].pc \in Busy \/ task[s][u].pc \in Busy => task'[s][u] = task[s][u]
  BY <1>1, <1>3, <1>4 DEF Busy
<1>9. AloneInv(s)'
  <2> SUFFICES ASSUME s \notin raced'
               PROVE  AloneInv(s)'
    BY DEF AloneInv
  <2>1. \A u \in Movers : task'[s][u].pc \notin Busy
    BY <1>0, <1>7, <1>8 DEF SessionInv, AloneInv, Movers, Tasks
  <2>2. \A u, v \in Tasks : task'[s][u].pc \in Busy /\ task'[s][v].pc \in Busy => u = v
    BY <1>0, <1>7, <1>8 DEF SessionInv, AloneInv
  <2>3. task'[s]["seek"] = task[s]["seek"] /\ transcoder' = transcoder
    BY <1>1, <1>4 DEF Movers, Tasks
  <2> QED
    BY <1>0, <1>7, <2>1, <2>2, <2>3 DEF SessionInv, AloneInv, Seeking
<1>10. StartInv(s)'
  <2>1. \A u \in Tasks :
              \/ task'[s][u].start = 0
              \/ /\ task'[s][u].start = task[s][u].start
                 /\ task'[s][u].box = task[s][u].box
                 /\ task'[s][u].link = task[s][u].link
    BY <1>3, <1>4
  <2> QED
    BY <1>0, <1>1, <2>1, StartKept, BoxesStill DEF SessionInv, linkVars
<1>11. (Clean(s)' => Clean(s)) /\ (Known(s)' => Known(s)) /\ \A r \in Sessions : r # s => SameHistory(r)
  BY <1>1 DEF Clean, Known, SameHistory
<1>12. RunInv(s)'
  BY <1>0, <1>1, <1>2, <1>8, <1>11, RunSame DEF SessionInv
<1>13. ServeInv(s)'
  <2>1. \A u \in Tasks : task'[s][u].pc \in {"wait", "publish"} => task'[s][u] = task[s][u]
    BY <1>8 DEF Busy
  <2>2. task[s]["error"].pc = "called" => task'[s]["error"].pc = "called"
    BY <1>1, <1>4 DEF Movers, Tasks
  <2> QED
    BY <1>0, <1>1, <1>2, <1>11, <2>1, <2>2, ServeSame DEF SessionInv, linkVars
<1>14. \A b \in Boxes : Told(b)' = Told(b)
  BY <1>1 DEF Told
<1>15. \A r \in Sessions : r # s => Aside(r)
  BY <1>1, <1>2, <1>4, <1>11, <1>14 DEF Aside
<1> QED
  BY <1>0, <1>1, <1>5, <1>6, <1>9, <1>10, <1>12, <1>13, <1>14, <1>15, SessionStep DEF SessionInv

(* A task that has its run: where the session then plays, it is served.             *)
LEMMA ServedAfter ==
    ASSUME NEW s \in Sessions, NEW t \in Tasks, FleetTypes, LinkInv, ServeInv(s), TaskInv(s), Known(s),
           Up(s, t), ~Torn(task[s][t]),
           UNCHANGED <<box, back, linkVars>>,
           transcoder'[s] = task[s][t].box,
           task[s]["error"].pc = "called" => task'[s]["error"].pc = "called",
           NoneWaits(s)'
    PROVE  ServeInv(s)'
<1>1. PICK b \in Boxes : b = task[s][t].box
  BY DEF TaskInv, Up, Busy
<1>2. task[s][t].link \in watched[b] /\ task[s][t].link # 0
  BY <1>1 DEF Torn, LinkInv, FleetTypes
<1>3. task[s][t].link = peer[b] => Heeded(b, s)
  BY <1>1, <1>2 DEF ServeInv
<1>4. Erring(b, s)' <=> Erring(b, s)
  BY DEF Erring, Told
<1>5. \/ task'[s]["error"].pc = "called"
      \/ box'[b][s].playing # 0
      \/ Erring(b, s)'
      \/ watched'[b] \ {peer'[b]} # {}
  BY <1>2, <1>3, <1>4 DEF Heeded, linkVars
<1>6. "error" \in Tasks /\ transcoder'[s] = b
  BY <1>1 DEF Tasks
<1>7. \/ \E u \in Tasks : task'[s][u].pc # "idle"
      \/ box'[transcoder'[s]][s].playing # 0
      \/ Erring(transcoder[s], s)'
      \/ watched'[transcoder'[s]] \ {peer'[transcoder'[s]]} # {}
  BY <1>5, <1>6
<1> QED
  BY <1>7 DEF ServeInv, NoneWaits, Up

(* A start that came up becomes an active session at its box. *)
LEMMA PublishStep ==
    ASSUME FleetInv, NEW s \in Sessions, Publish(s)
    PROVE  FleetInv'
<1>0. FleetTypes /\ LinkInv /\ SessionInv(s) /\ "start" \in Tasks
  BY DEF FleetInv, Tasks
<1>1. /\ task[s]["start"].pc = "publish"
      /\ state' = [state EXCEPT ![s] = "active"]
      /\ transcoder' = [transcoder EXCEPT ![s] = task[s]["start"].box]
      /\ late' = (IF Torn(task[s]["start"]) THEN late \cup {s} ELSE late)
      /\ task' = [task EXCEPT ![s]["start"] = Idle]
      /\ UNCHANGED <<linkVars, tc_load, back, box, pending_ready, sent, raced, misread, needless, told>>
  BY DEF Publish, boxVars
<1>2. PICK b \in Boxes : b = task[s]["start"].box
  BY <1>0, <1>1 DEF SessionInv, TaskInv, Busy
<1>3. Idle \in Task /\ Idle.pc = "idle" /\ Idle.start = 0
  BY TaskShapes
<1>4. /\ task' \in [Sessions -> [Tasks -> Task]]
      /\ task'[s]["start"] = Idle
      /\ \A u \in Tasks : u # "start" => task'[s][u] = task[s][u]
      /\ \A r \in Sessions : r # s => task'[r] = task[r]
  BY <1>0, <1>1, <1>3, TaskUpdate DEF FleetTypes
<1>5. /\ state' \in [Sessions -> {"none", "starting", "active", "ending", "gone"}]
      /\ state'[s] = "active" /\ (\A r \in Sessions : r # s => state'[r] = state[r])
      /\ transcoder' \in [Sessions -> Boxes \cup {NoBox}]
      /\ transcoder'[s] = b /\ (\A r \in Sessions : r # s => transcoder'[r] = transcoder[r])
  BY <1>0, <1>1, <1>2 DEF FleetTypes
<1>6. FleetTypes'
  BY <1>0, <1>1, <1>4, <1>5 DEF FleetTypes, linkVars
<1>7. task[s]["seek"].pc = "idle"
  BY <1>0, <1>1 DEF SessionInv, TaskInv, Seeking
<1>8. TaskInv(s)'
  <2>1. sent[s] \in Nat /\ pending_ready[s] \in Tasks \cup {"none"} /\ pending_ready[s] # "start"
    BY <1>0, <1>1 DEF FleetTypes, SessionInv, TaskInv
  <2> QED
    BY <1>0, <1>1, <1>2, <1>3, <1>4, <1>5, <1>7, <2>1
       DEF SessionInv, TaskInv, Seeking, Tasks, Movers, Busy, linkVars
<1>9. s \notin raced => \A u \in Tasks : task'[s][u].pc \notin Busy
  <2>1. s \notin raced => \A u \in Tasks : task[s][u].pc \in Busy => u = "start"
    BY <1>0, <1>1 DEF SessionInv, AloneInv, Busy
  <2> QED
    BY <1>3, <1>4, <2>1 DEF Busy
<1>10. AloneInv(s)'
  BY <1>1, <1>4, <1>7, <1>9 DEF AloneInv, Seeking, Movers, Tasks
<1>11. StartInv(s)'
  <2>1. \A u \in Tasks :
              \/ task'[s][u].start = 0
              \/ /\ task'[s][u].start = task[s][u].start
                 /\ task'[s][u].box = task[s][u].box
                 /\ task'[s][u].link = task[s][u].link
    BY <1>3, <1>4
  <2> QED
    BY <1>0, <1>1, <2>1, StartKept, BoxesStill DEF SessionInv, linkVars
<1>12. RunInv(s)'
  <2> SUFFICES ASSUME Clean(s)'
               PROVE  RunInv(s)'
    BY DEF RunInv
  <2>1. Clean(s) /\ s \notin raced
    BY <1>1 DEF Clean
  <2>2. \A c \in Boxes : Running(c, s)' <=> Running(c, s)
    BY <1>1 DEF Running
  <2>3. \A c \in Boxes : Running(c, s) => c = b
    BY <1>0, <1>1, <1>2, <2>1 DEF SessionInv, RunInv
  <2>4. \A c \in Boxes :
              /\ box'[c][s].crossed = {}
              /\ box'[c][s].waiting \subseteq {sent'[s]}
              /\ box'[c][s].playing \in {0, sent'[s]}
              /\ box'[c][s].playing # 0 => box'[c][s].waiting = {}
    BY <1>0, <1>1, <2>1 DEF SessionInv, RunInv
  <2>5. \A u \in Tasks : task'[s][u].pc # "dispatch" /\ task'[s][u].pc \notin {"wait", "publish"}
                         /\ task'[s][u].pc # "wait"
    BY <1>9, <2>1 DEF Busy
  <2> QED
    BY <1>5, <2>2, <2>3, <2>4, <2>5 DEF RunInv
<1>13. ServeInv(s)'
  <2> SUFFICES ASSUME Known(s)'
               PROVE  ServeInv(s)'
    BY DEF ServeInv
  <2>1. Known(s) /\ ~Torn(task[s]["start"]) /\ s \notin raced
    BY <1>1 DEF Known
  <2>2. Up(s, "start") /\ NoneWaits(s)'
    BY <1>1, <1>9, <2>1 DEF Up, NoneWaits, Busy
  <2>3. task[s]["error"].pc = "called" => task'[s]["error"].pc = "called"
    BY <1>4 DEF Tasks
  <2> QED
    BY <1>0, <1>1, <1>2, <1>5, <2>1, <2>2, <2>3, ServedAfter DEF SessionInv
<1>14. \A r \in Sessions : r # s => SameHistory(r)
  BY <1>1 DEF SameHistory
<1>15. \A c \in Boxes : Told(c)' = Told(c)
  BY <1>1 DEF Told
<1>16. \A r \in Sessions : r # s => Aside(r)
  BY <1>1, <1>4, <1>5, <1>14, <1>15 DEF Aside
<1> QED
  BY <1>0, <1>1, <1>6, <1>8, <1>10, <1>11, <1>12, <1>13, <1>15, <1>16, SessionStep DEF SessionInv

(* The verdict of a dispatch that came up is taken. *)
LEMMA DispatchReadyStep ==
    ASSUME FleetInv, NEW s \in Sessions, NEW t \in Tasks, DispatchReady(s, t)
    PROVE  FleetInv'
<1>0. FleetTypes /\ LinkInv /\ SessionInv(s)
  BY DEF FleetInv
<1>1. PICK x : x = IF t = "start" THEN [task[s][t] EXCEPT !.pc = "publish"] ELSE Idle
  OBVIOUS
<1>2. /\ task[s][t].pc = "wait" /\ task[s][t].verdict = "ok"
      /\ Settle(s, t, x)
      /\ transcoder' = (IF t \in Movers
                       THEN [transcoder EXCEPT ![s] = task[s][t].box] ELSE transcoder)
      /\ late' = (IF t # "start" /\ Torn(task[s][t]) THEN late \cup {s} ELSE late)
      /\ UNCHANGED <<linkVars, tc_load, back, box, state, sent, raced, misread, needless, told>>
  BY <1>1 DEF DispatchReady, boxVars
<1>3. PICK b \in Boxes : b = task[s][t].box
  BY <1>0, <1>2 DEF SessionInv, TaskInv, Busy
<1>4. Idle \in Task /\ Idle.pc = "idle" /\ Idle.start = 0
  BY TaskShapes
<1>5. /\ x \in Task
      /\ t = "start" => /\ x.pc = "publish" /\ x.box = b /\ x.start = task[s][t].start
                        /\ x.link = task[s][t].link
      /\ t # "start" => x = Idle
  <2>1. task[s][t] \in Task
    BY <1>0 DEF FleetTypes
  <2> QED
    BY <1>1, <1>3, <1>4, <2>1 DEF Task
<1>6. /\ task' \in [Sessions -> [Tasks -> Task]]
      /\ pending_ready' \in [Sessions -> Tasks \cup {"none"}]
      /\ pending_ready'[s] = "none"
      /\ \A r \in Sessions : r # s => pending_ready'[r] = pending_ready[r]
      /\ task'[s][t] = x
      /\ \A u \in Tasks : u # t => SameOrDropped(s, u)
      /\ \A r \in Sessions : r # s => task'[r] = task[r]
  BY <1>0, <1>2, <1>5, SettleFacts
<1>7. /\ transcoder' \in [Sessions -> Boxes \cup {NoBox}]
      /\ t \in Movers => transcoder'[s] = b
      /\ t \notin Movers => transcoder'[s] = transcoder[s]
      /\ (\A r \in Sessions : r # s => transcoder'[r] = transcoder[r])
  BY <1>0, <1>2, <1>3 DEF FleetTypes
<1>8. FleetTypes'
  BY <1>0, <1>2, <1>6, <1>7 DEF FleetTypes, linkVars
<1>9. \A u \in Tasks : u # t => /\ task'[s][u].pc = task[s][u].pc
                                /\ task'[s][u].box = task[s][u].box
                                /\ task'[s][u].link = task[s][u].link
                                /\ task'[s][u].start = task[s][u].start
  BY <1>6 DEF SameOrDropped
<1>10. TaskInv(s)'
  <2>1. sent[s] \in Nat /\ \A c \in Boxes : opened[c] \in Nat
    BY <1>0 DEF FleetTypes
  <2>2. task[s][t].link <= opened[b] /\ task[s][t].start <= sent[s]
    BY <1>0, <1>2, <1>3 DEF SessionInv, TaskInv, Busy
  <2>3. \A u \in Tasks : task'[s][u].pc \in Busy =>
          task'[s][u].box \in Boxes /\ task'[s][u].link <= opened'[task'[s][u].box]
    <3>1. opened' = opened
      BY <1>2 DEF linkVars
    <3>2. t # "start" => task'[s][t].pc \notin Busy
      BY <1>4, <1>5, <1>6 DEF Busy
    <3>3. t = "start" => task'[s][t].box \in Boxes /\ task'[s][t].link <= opened'[task'[s][t].box]
      BY <1>5, <1>6, <2>2, <3>1
    <3>4. \A u \in Tasks : u # t => (task'[s][u].pc \in Busy =>
          task'[s][u].box \in Boxes /\ task'[s][u].link <= opened'[task'[s][u].box])
      BY <1>0, <1>9, <3>1 DEF SessionInv, TaskInv
    <3> QED
      BY <3>2, <3>3, <3>4
  <2>4. \A u \in Tasks : task'[s][u].start <= sent'[s]
    BY <1>0, <1>2, <1>4, <1>5, <1>6, <1>9, <2>1, <2>2 DEF SessionInv, TaskInv
  <2>5. state'[s] \in {"active", "ending"} => transcoder'[s] \in Boxes
    BY <1>0, <1>2, <1>7 DEF SessionInv, TaskInv
  <2>6. /\ task'[s]["start"].pc \in {"idle"} \cup Busy
        /\ task'[s]["seek"].pc \in {"idle", "dispatch", "wait"}
        /\ \A u \in Movers : task'[s][u].pc # "publish"
    BY <1>0, <1>4, <1>5, <1>6, <1>9 DEF SessionInv, TaskInv, Busy, Tasks, Movers
  <2>7. /\ task'[s]["start"].pc # "idle" => state'[s] = "starting"
        /\ Seeking(s)' => state'[s] \in {"active", "ending"}
    BY <1>0, <1>2, <1>4, <1>5, <1>6, <1>9 DEF SessionInv, TaskInv, Seeking, Tasks
  <2> QED
    BY <1>6, <2>3, <2>4, <2>5, <2>6, <2>7 DEF TaskInv
<1>11. s \notin raced => \A u \in Tasks : u # t => task'[s][u].pc \notin Busy /\ task[s][u].pc \notin Busy
  BY <1>0, <1>2, <1>9 DEF SessionInv, AloneInv, Busy
<1>12. t # "start" => task'[s][t].pc = "idle"
  BY <1>4, <1>5, <1>6
<1>13. AloneInv(s)'
  <2> SUFFICES ASSUME s \notin raced
               PROVE  AloneInv(s)'
    BY <1>2 DEF AloneInv
  <2>1. \A u \in Tasks : task'[s][u].pc \in Busy => u = t /\ t = "start"
    BY <1>11, <1>12 DEF Busy
  <2>2. ~Seeking(s)'
    BY <1>10, <2>1 DEF Seeking, TaskInv, Busy, Tasks
  <2> QED
    BY <2>1, <2>2 DEF AloneInv, Movers, Tasks
<1>14. StartInv(s)'
  <2>1. \A u \in Tasks :
              \/ task'[s][u].start = 0
              \/ /\ task'[s][u].start = task[s][u].start
                 /\ task'[s][u].box = task[s][u].box
                 /\ task'[s][u].link = task[s][u].link
    BY <1>3, <1>4, <1>5, <1>6, <1>9
  <2> QED
    BY <1>0, <1>2, <2>1, StartKept, BoxesStill DEF SessionInv, linkVars
<1>15. s \notin raced /\ t # "start" => state[s] \in {"active", "ending"} /\ transcoder'[s] = b
  <2>1. CASE t = "seek"
    BY <1>0, <1>2, <1>3, <1>7, <2>1 DEF SessionInv, AloneInv, TaskInv, Seeking, Movers
  <2>2. CASE t \in Movers
    BY <1>0, <1>2, <1>7, <2>2 DEF SessionInv, AloneInv, Busy
  <2> QED
    BY <2>1, <2>2 DEF Tasks, Movers
<1>16. RunInv(s)'
  <2> SUFFICES ASSUME Clean(s)'
               PROVE  RunInv(s)'
    BY DEF RunInv
  <2>1. Clean(s) /\ s \notin raced
    BY <1>2 DEF Clean
  <2>2. \A c \in Boxes : Running(c, s)' <=> Running(c, s)
    BY <1>2 DEF Running
  <2>3. \A c \in Boxes : Running(c, s) => c = b
    BY <1>0, <1>2, <1>3, <2>1 DEF SessionInv, RunInv
  <2>4. \A c \in Boxes :
              /\ box'[c][s].crossed = {}
              /\ box'[c][s].waiting \subseteq {sent'[s]}
              /\ box'[c][s].playing \in {0, sent'[s]}
              /\ box'[c][s].playing # 0 => box'[c][s].waiting = {}
    BY <1>0, <1>2, <2>1 DEF SessionInv, RunInv
  <2>5. \A u \in Tasks : task'[s][u].pc # "dispatch" /\ task'[s][u].pc # "wait"
                         /\ (task'[s][u].pc \in {"wait", "publish"} => u = t /\ t = "start")
    BY <1>5, <1>6, <1>11, <1>12, <2>1 DEF Busy
  <2>6. (\A u \in Tasks : task'[s][u].pc \notin Busy) => t # "start"
    BY <1>5, <1>6 DEF Busy
  <2>7. t = "start" => task'[s][t].box = b
    BY <1>5, <1>6
  <2> QED
    BY <1>2, <1>15, <2>1, <2>2, <2>3, <2>4, <2>5, <2>6, <2>7 DEF RunInv
<1>17. ServeInv(s)'
  <2> SUFFICES ASSUME Known(s)'
               PROVE  ServeInv(s)'
    BY DEF ServeInv
  <2>1. Known(s) /\ s \notin raced /\ (t # "start" => ~Torn(task[s][t])) /\ Up(s, t)
    BY <1>2 DEF Known, Up
  <2>2. \A c \in Boxes : Erring(c, s)' <=> Erring(c, s)
    BY <1>2, BoxesStill
  <2>3. task[s]["error"].pc = "called" => task'[s]["error"].pc = "called"
    BY <1>2, <1>9 DEF Tasks
  <2>4. CASE t = "start"
    <3>1. task[s][t].link # 0 /\ task[s][t].link = peer[b] => Heeded(b, s)
      BY <1>0, <1>3, <2>1 DEF SessionInv, ServeInv
    <3>2. task[s][t].link # 0 /\ task[s][t].link = peer[b] => Heeded(b, s)'
      BY <1>2, <2>2, <2>3, <3>1 DEF Heeded
    <3>3. \A u \in Tasks : Up(s, u)' => u = t
      BY <1>11, <2>1 DEF Up, Busy
    <3>4. state'[s] # "active"
      BY <1>0, <1>2, <2>4 DEF SessionInv, TaskInv
    <3>5. peer' = peer /\ task'[s][t].link = task[s][t].link /\ task'[s][t].box = b
      BY <1>2, <1>5, <1>6, <2>4 DEF linkVars
    <3>6. ASSUME NEW u \in Tasks, Up(s, u)', task'[s][u].link # 0,
                 task'[s][u].link = peer'[task'[s][u].box]
          PROVE  Heeded(task[s][u].box, s)'
      <4>1. u = t
        BY <3>3, <3>6
      <4>2. Heeded(b, s)'
        BY <3>2, <3>5, <3>6, <4>1
      <4> QED
        BY <3>5, <4>1, <4>2
    <3> QED
      BY <3>4, <3>6 DEF ServeInv
  <2>5. CASE t # "start"
    <3>1. NoneWaits(s)'
      BY <1>11, <1>12, <2>1, <2>5 DEF NoneWaits, Busy
    <3>2. transcoder'[s] = task[s][t].box
      BY <1>3, <1>15, <2>1, <2>5
    <3> QED
      BY <1>0, <1>2, <2>1, <2>3, <2>5, <3>1, <3>2, ServedAfter DEF SessionInv
  <2> QED
    BY <2>4, <2>5
<1>18. \A r \in Sessions : r # s => SameHistory(r)
  BY <1>2 DEF SameHistory
<1>19. \A c \in Boxes : Told(c)' = Told(c)
  BY <1>2 DEF Told
<1>20. \A r \in Sessions : r # s => Aside(r)
  BY <1>2, <1>6, <1>7, <1>18, <1>19 DEF Aside
<1> QED
  BY <1>0, <1>2, <1>8, <1>10, <1>13, <1>14, <1>16, <1>17, <1>19, <1>20, SessionStep DEF SessionInv

(* What Dispatch does.                                                               *)
LEMMA DispatchFacts ==
    ASSUME FleetInv, NEW s \in Sessions, NEW t \in Tasks, Dispatch(s, t)
    PROVE  \E b \in Boxes, n \in 1..MaxStarts, x \in Task :
              /\ task[s][t].pc = "dispatch" /\ b = task[s][t].box /\ n = sent[s] + 1
              /\ x.pc = "wait" /\ x.box = b /\ x.start = n /\ x.link = tc_links[b]
              /\ x.verdict \in {"none", "unsent"}
              /\ x.verdict = "unsent" => tc_links[b] = 0
              /\ task' = [task EXCEPT ![s] = [Bereft(@, s, t) EXCEPT ![t] = x]]
              /\ box' = StartSession(b, s, n)
              /\ sent' = [sent EXCEPT ![s] = n]
              /\ pending_ready' = [pending_ready EXCEPT ![s] = t]
              /\ UNCHANGED <<linkVars, tc_load, back, state, transcoder>>
              /\ UNCHANGED history
<1>1. task[s][t].pc = "dispatch" /\ sent[s] < MaxStarts /\ task[s][t] \in Task
      /\ task[s][t].box \in Boxes /\ sent[s] \in 0..MaxStarts
  BY DEF Dispatch, FleetInv, FleetTypes, SessionInv, TaskInv, Busy
<1>2. PICK b \in Boxes : b = task[s][t].box
  BY <1>1
<1>3. PICK n \in 1..MaxStarts : n = sent[s] + 1
  <2>1. sent[s] + 1 \in 1..MaxStarts
    BY <1>1, FleetAssumption
  <2> QED
    BY <2>1
<1>4. PICK x : x = [task[s][t] EXCEPT !.pc = "wait", !.start = n, !.link = tc_links[b],
                        !.verdict = IF tc_links[b] = 0 THEN "unsent" ELSE "none"]
  OBVIOUS
<1>5. /\ x \in Task
      /\ x.pc = "wait" /\ x.box = b /\ x.start = n /\ x.link = tc_links[b]
      /\ x.verdict \in {"none", "unsent"}
      /\ x.verdict = "unsent" => tc_links[b] = 0
  <2>1. tc_links[b] \in Nat /\ n \in Nat
    BY DEF FleetInv, FleetTypes
  <2>2. PICK v \in {"none", "unsent"} : /\ v = IF tc_links[b] = 0 THEN "unsent" ELSE "none"
                                        /\ v = "unsent" => tc_links[b] = 0
    OBVIOUS
  <2>3. x = [task[s][t] EXCEPT !.pc = "wait", !.start = n, !.link = tc_links[b], !.verdict = v]
    BY <1>4, <2>2
  <2> QED
    BY <1>1, <1>2, <2>1, <2>2, <2>3 DEF Task
<1>6. /\ task' = [task EXCEPT ![s] = [Bereft(@, s, t) EXCEPT ![t] = x]]
      /\ box' = StartSession(b, s, n)
  BY <1>2, <1>3, <1>4 DEF Dispatch
<1>7. /\ sent' = [sent EXCEPT ![s] = n]
      /\ pending_ready' = [pending_ready EXCEPT ![s] = t]
      /\ UNCHANGED <<linkVars, tc_load, back, state, transcoder>>
      /\ UNCHANGED history
  BY <1>3 DEF Dispatch
<1> QED
  BY <1>1, <1>2, <1>3, <1>5, <1>6, <1>7

(* StartSession: the new number occurs nowhere yet, and the box was quiet. *)
LEMMA DispatchStep ==
    ASSUME FleetInv, NEW s \in Sessions, NEW t \in Tasks, Dispatch(s, t)
    PROVE  FleetInv'
<1>0. FleetTypes /\ LinkInv /\ SessionInv(s)
  BY DEF FleetInv
<1>1. PICK b \in Boxes, n \in 1..MaxStarts, x \in Task :
              /\ task[s][t].pc = "dispatch" /\ b = task[s][t].box /\ n = sent[s] + 1
              /\ x.pc = "wait" /\ x.box = b /\ x.start = n /\ x.link = tc_links[b]
              /\ x.verdict \in {"none", "unsent"}
              /\ x.verdict = "unsent" => tc_links[b] = 0
              /\ task' = [task EXCEPT ![s] = [Bereft(@, s, t) EXCEPT ![t] = x]]
              /\ box' = StartSession(b, s, n)
              /\ sent' = [sent EXCEPT ![s] = n]
              /\ pending_ready' = [pending_ready EXCEPT ![s] = t]
              /\ UNCHANGED <<linkVars, tc_load, back, state, transcoder>>
              /\ UNCHANGED history
  BY DispatchFacts
<1>2. /\ task' \in [Sessions -> [Tasks -> Task]]
      /\ task'[s][t] = x
      /\ \A u \in Tasks : u # t => SameOrDropped(s, u)
      /\ \A r \in Sessions : r # s => task'[r] = task[r]
  BY <1>0, <1>1, BereftWrite DEF FleetTypes
<1>3. /\ box' \in [Boxes -> [Sessions -> Contract!Box]]
      /\ \A c \in Boxes : c # b => box'[c][s] = box[c][s]
      /\ \A c \in Boxes : \A r \in Sessions : r # s => box'[c][r] = box[c][r]
      /\ peer[b] = 0 => box' = box
      /\ peer[b] # 0 => tc_links[b] = peer[b]
      /\ box'[b][s].waiting \subseteq box[b][s].waiting \cup {n}
      /\ peer[b] # 0 => n \in box'[b][s].waiting
      /\ box'[b][s].stale = box[b][s].stale
      /\ box'[b][s].due = box[b][s].due
      /\ box'[b][s].playing = box[b][s].playing
      /\ box[b][s].waiting = {} => box'[b][s].crossed = box[b][s].crossed
  BY <1>0, <1>1, StartHeard, ZenonT(40)
<1>4. /\ sent' \in [Sessions -> 0..MaxStarts] /\ sent'[s] = n
      /\ (\A r \in Sessions : r # s => sent'[r] = sent[r])
      /\ pending_ready' \in [Sessions -> Tasks \cup {"none"}]
      /\ pending_ready'[s] = t
      /\ \A r \in Sessions : r # s => pending_ready'[r] = pending_ready[r]
      /\ sent[s] \in Nat /\ n \in Nat /\ n # 0
  <2>1. n \in 0..MaxStarts /\ n \in Nat /\ n # 0
    OBVIOUS
  <2> QED
    BY <1>0, <1>1, <2>1 DEF FleetTypes
<1>5. FleetTypes'
  BY <1>0, <1>1, <1>2, <1>3, <1>4 DEF FleetTypes, linkVars
<1>6. \A u \in Tasks : u # t => /\ task'[s][u].pc = task[s][u].pc
                                /\ task'[s][u].box = task[s][u].box
                                /\ task'[s][u].link = task[s][u].link
                                /\ task'[s][u].start = task[s][u].start
  BY <1>2 DEF SameOrDropped
<1>7. tc_links[b] <= opened[b] /\ opened' = opened
  BY <1>0, <1>1 DEF LinkInv, FleetTypes, linkVars
<1>8. TaskInv(s)'
  <2>1. \A u \in Tasks : task'[s][u].start <= sent'[s]
    BY <1>0, <1>1, <1>2, <1>4, <1>6, FleetAssumption, SMTT(40) DEF SessionInv, TaskInv, FleetTypes, Task
  <2>2. \A u \in Tasks : task'[s][u].pc \in Busy =>
          task'[s][u].box \in Boxes /\ task'[s][u].link <= opened'[task'[s][u].box]
    BY <1>0, <1>1, <1>2, <1>6, <1>7 DEF SessionInv, TaskInv
  <2>3. /\ task'[s]["start"].pc \in {"idle"} \cup Busy
        /\ task'[s]["seek"].pc \in {"idle", "dispatch", "wait"}
        /\ \A u \in Movers : task'[s][u].pc # "publish"
    BY <1>0, <1>1, <1>2, <1>6 DEF SessionInv, TaskInv, Busy, Tasks, Movers
  <2>4. /\ task'[s]["start"].pc # "idle" => state'[s] = "starting"
        /\ Seeking(s)' => state'[s] \in {"active", "ending"}
    BY <1>0, <1>1, <1>2, <1>6 DEF SessionInv, TaskInv, Seeking, Tasks
  <2>5. /\ state'[s] \in {"active", "ending"} => transcoder'[s] \in Boxes
        /\ task'[s][pending_ready'[s]].pc = "wait"
    BY <1>0, <1>1, <1>2, <1>4 DEF SessionInv, TaskInv
  <2> QED
    BY <2>1, <2>2, <2>3, <2>4, <2>5 DEF TaskInv
<1>9. s \notin raced => \A u \in Tasks : u # t => task'[s][u].pc \notin Busy
  BY <1>0, <1>1, <1>6 DEF SessionInv, AloneInv, Busy
<1>10. raced' = raced /\ (Clean(s)' <=> Clean(s)) /\ (Known(s)' <=> Known(s))
      /\ (\A r \in Sessions : SameHistory(r))
  BY <1>1 DEF history, Clean, Known, SameHistory
<1>11. AloneInv(s)'
  <2> SUFFICES ASSUME s \notin raced
               PROVE  AloneInv(s)'
    BY <1>10 DEF AloneInv
  <2>1. \A u \in Tasks : task'[s][u].pc \in Busy => u = t
    BY <1>9
  <2>2. t \in Movers => state'[s] = "active"
    BY <1>0, <1>1 DEF SessionInv, AloneInv, Busy
  <2>3. Seeking(s)' => task'[s]["seek"].box = transcoder'[s]
    <3>1. task[s]["seek"].box = task'[s]["seek"].box
      BY <1>1, <1>2, <1>6 DEF Tasks
    <3>2. Seeking(s)' => Seeking(s)
      BY <1>1, <1>2, <1>6 DEF Seeking, Tasks
    <3> QED
      BY <1>0, <1>1, <3>1, <3>2 DEF SessionInv, AloneInv
  <2>4. Movers \subseteq Tasks
    BY DEF Movers, Tasks
  <2> QED
    BY <2>1, <2>2, <2>3, <2>4 DEF AloneInv
<1>12. \A c \in Boxes : Told(c)' = Told(c)
  BY <1>1 DEF Told
<1>13. \A c \in Boxes : ~Occurs(c, s, n)
  <2>1. ~(n <= sent[s])
    BY <1>1, <1>4
  <2> QED
    BY <1>0, <1>4, <2>1 DEF SessionInv, StartInv
<1>14. StartInv(s)'
  <2> SUFFICES ASSUME NEW c \in Boxes, NEW k \in Nat \ {0}, Occurs(c, s, k)'
               PROVE  /\ k <= sent'[s]
                      /\ \A u \in Tasks : task'[s][u].start = k =>
                            task'[s][u].box = c /\ task'[s][u].link = peer'[c]
    BY DEF StartInv
  <2>0. peer' = peer
    BY <1>1 DEF linkVars
  <2>1. CASE k = n
    <3>1. c = b /\ peer[b] # 0
      BY <1>3, <1>12, <1>13, <2>1 DEF Occurs
    <3>2. \A u \in Tasks : u # t => task'[s][u].start # n
      BY <1>0, <1>1, <1>4, <1>6 DEF SessionInv, TaskInv
    <3>3. task'[s][t].box = b /\ task'[s][t].link = peer[b]
      BY <1>1, <1>2, <1>3, <3>1
    <3>4. k <= sent'[s]
      BY <1>4, <2>1
    <3> QED
      BY <2>0, <2>1, <3>1, <3>2, <3>3, <3>4
  <2>2. CASE k # n
    <3>1. Occurs(c, s, k)
      BY <1>3, <1>12, <2>2 DEF Occurs
    <3>2. k <= sent[s] /\ \A u \in Tasks : task[s][u].start = k =>
                            task[s][u].box = c /\ task[s][u].link = peer[c]
      BY <1>0, <3>1 DEF SessionInv, StartInv
    <3>3. task'[s][t].start # k
      BY <1>1, <1>2, <2>2
    <3> QED
      BY <1>1, <1>4, <1>6, <2>0, <3>2, <3>3
  <2> QED
    BY <2>1, <2>2
<1>15. RunInv(s)'
  <2> SUFFICES ASSUME Clean(s)
               PROVE  RunInv(s)'
    BY <1>10 DEF RunInv
  <2>1. s \notin raced /\ Quiet(s)
    BY <1>0, <1>1 DEF Clean, SessionInv, RunInv
  <2>2. \A c \in Boxes : box[c][s].playing = 0 /\ box[c][s].waiting = {} /\ box[c][s].crossed = {}
    BY <1>0, <2>1 DEF Quiet, Running, SessionInv, RunInv
  <2>3. \A c \in Boxes : /\ box'[c][s].crossed = {}
                         /\ box'[c][s].waiting \subseteq {sent'[s]}
                         /\ box'[c][s].playing \in {0, sent'[s]}
                         /\ box'[c][s].playing # 0 => box'[c][s].waiting = {}
    BY <1>3, <1>4, <2>2
  <2>4. \A c \in Boxes : Running(c, s)' => c = b
    BY <1>3, <2>2 DEF Running
  <2>5. \A u \in Tasks : /\ task'[s][u].pc # "dispatch"
                         /\ task'[s][u].pc \in {"wait", "publish"} => u = t
                         /\ task'[s][u].pc = "wait" => u = t
    BY <1>1, <1>2, <1>9, <2>1 DEF Busy
  <2>6. task'[s][t].pc \in Busy /\ task'[s][t].box = b /\ task'[s][t].start = sent'[s]
    BY <1>1, <1>2, <1>4 DEF Busy
  <2>7. \A c \in Boxes : sent'[s] \notin box'[c][s].stale
    BY <1>3, <1>4, <1>13 DEF Occurs
  <2>8. task'[s][t].verdict \in {"err", "unsent"} => Quiet(s)'
    <3>1. task'[s][t].verdict \in {"err", "unsent"} => peer[b] = 0
      BY <1>1, <1>2, <1>3
    <3> QED
      BY <1>3, <2>1, <3>1 DEF Quiet, Running
  <2>9. \A c \in Boxes : ~Failing(c, s, sent[s])'
    BY <1>4, <1>12, <1>13 DEF Failing, Occurs
  <2> QED
    BY <2>3, <2>4, <2>5, <2>6, <2>7, <2>8, <2>9 DEF RunInv
<1>16. ServeInv(s)'
  <2> SUFFICES ASSUME Known(s)
               PROVE  ServeInv(s)'
    BY <1>10 DEF ServeInv
  <2>1. \A u \in Tasks : u # t => ~Up(s, u)'
    BY <1>9 DEF Up, Busy, Known
  <2>2. ~Up(s, t)'
    <3>1. \A m \in Told(b) : ~(m.session = s /\ m.start = n)
      BY <1>13 DEF Occurs
    <3>2. task'[s][t].box = b /\ task'[s][t].start = n /\ task'[s][t].pc = "wait"
          /\ task'[s][t].verdict # "ok"
      BY <1>1, <1>2
    <3>3. ~\E m \in Told(task[s][t].box)' :
             m.session = s /\ m.start = task'[s][t].start /\ m.ready
      <4>1. Told(task[s][t].box)' = Told(b)'
        BY <3>2 DEF Told
      <4> QED
        BY <1>12, <3>1, <3>2, <4>1
    <3> QED
      BY <3>2, <3>3 DEF Up
  <2>3. task'[s][t].pc # "idle"
    BY <1>1, <1>2
  <2> QED
    BY <2>1, <2>2, <2>3 DEF ServeInv
<1>17. \A r \in Sessions : r # s => Aside(r)
  <2>1. state' = state /\ transcoder' = transcoder
    BY <1>1
  <2> QED
    BY <1>2, <1>3, <1>4, <1>10, <1>12, <2>1 DEF Aside
<1>18. \A c \in Boxes : box'[c][s].due = box[c][s].due /\ (peer[c] = 0 => box'[c][s] = box[c][s])
  BY <1>3
<1> QED
  BY <1>0, <1>1, <1>5, <1>8, <1>11, <1>12, <1>14, <1>15, <1>16, <1>17, <1>18, SessionStep DEF SessionInv

-----------------------------------------------------------------------------
(* The links.                                                                        *)

(* A lost link takes the runs and the verdicts of its box along. *)
LEMMA LinkLostStep ==
    ASSUME FleetInv, NEW b \in Boxes, LinkLost(b)
    PROVE  FleetInv'
<1>0. FleetTypes /\ LinkInv
  BY DEF FleetInv
<1>1. /\ peer[b] # 0
      /\ peer' = [peer EXCEPT ![b] = 0]
      /\ back' = [back EXCEPT ![b] = <<>>]
      /\ box' = [box EXCEPT ![b] = [s \in Sessions |-> Contract!IdleBox]]
      /\ UNCHANGED <<opened, tc_links, watched, tc_load, state, transcoder, pending_ready, task, sent>>
      /\ UNCHANGED history
  BY DEF LinkLost
<1>2. Contract!IdleBox \in Contract!Box
  BY DEF Contract!Box, Contract!IdleBox
<1>3. /\ box' \in [Boxes -> [Sessions -> Contract!Box]]
      /\ \A s \in Sessions : box'[b][s] = Contract!IdleBox
      /\ \A c \in Boxes : c # b => box'[c] = box[c]
  BY <1>0, <1>1, <1>2 DEF FleetTypes
<1>4. /\ back' \in [Boxes -> Seq(Verdict)] /\ back'[b] = <<>>
      /\ \A c \in Boxes : c # b => back'[c] = back[c]
  BY <1>0, <1>1 DEF FleetTypes
<1>5. Told(b)' = {} /\ \A c \in Boxes : c # b => Told(c)' = Told(c)
  <2>1. DOMAIN <<>> = {}
    OBVIOUS
  <2> QED
    BY <1>4, <2>1 DEF Told
<1>6. /\ peer' \in [Boxes -> 0..MaxLinks] /\ peer'[b] = 0
      /\ \A c \in Boxes : c # b => peer'[c] = peer[c]
  BY <1>0, <1>1, FleetAssumption DEF FleetTypes
<1>7. FleetTypes'
  BY <1>0, <1>1, <1>3, <1>4, <1>6 DEF FleetTypes
<1>8. /\ Contract!IdleBox.waiting = {} /\ Contract!IdleBox.stale = {} /\ Contract!IdleBox.due = {}
      /\ Contract!IdleBox.playing = 0 /\ Contract!IdleBox.crossed = {}
  BY DEF Contract!IdleBox
<1>9. LinkInv'
  <2> SUFFICES ASSUME NEW c \in Boxes
               PROVE  /\ peer'[c] # 0 => tc_links'[c] = peer'[c] /\ peer'[c] \in watched'[c]
                      /\ tc_links'[c] # 0 => tc_links'[c] \in watched'[c]
                      /\ peer'[c] <= opened'[c] /\ watched'[c] \subseteq 1..opened'[c]
                      /\ peer'[c] = 0 =>
                            Told(c)' = {} /\ \A s \in Sessions : box'[c][s] = Contract!IdleBox
                      /\ \A s \in Sessions : box'[c][s].due = {}
    BY DEF LinkInv
  <2>0. opened[c] \in Nat
    BY <1>0 DEF FleetTypes
  <2>1. CASE c = b
    BY <1>0, <1>1, <1>3, <1>5, <1>6, <1>8, <2>0, <2>1 DEF LinkInv
  <2>2. CASE c # b
    BY <1>0, <1>1, <1>3, <1>5, <1>6, <2>2 DEF LinkInv
  <2> QED
    BY <2>1, <2>2
<1>10. ASSUME NEW s \in Sessions
       PROVE  SessionInv(s)'
  <2>0. SessionInv(s)
    BY DEF FleetInv
  <2>1. (Clean(s)' <=> Clean(s)) /\ (Known(s)' <=> Known(s)) /\ raced' = raced
    BY <1>1 DEF history, Clean, Known
  <2>2. TaskInv(s)' /\ AloneInv(s)'
    BY <1>1, <2>0, <2>1 DEF SessionInv, TaskInv, AloneInv, Seeking
  <2>3. ASSUME NEW c \in Boxes, NEW n \in Nat \ {0}, Occurs(c, s, n)'
        PROVE  c # b /\ Occurs(c, s, n)
    <3>1. c # b
      BY <1>3, <1>5, <1>8, <2>3 DEF Occurs
    <3> QED
      BY <1>3, <1>5, <2>3, <3>1 DEF Occurs
  <2>4. StartInv(s)'
    BY <1>1, <1>6, <2>0, <2>3 DEF SessionInv, StartInv
  <2>5. /\ \A c \in Boxes : Running(c, s)' => c # b /\ Running(c, s)
        /\ Quiet(s) => Quiet(s)'
        /\ \A c \in Boxes : \A n : Failing(c, s, n)' => Failing(c, s, n)
    BY <1>3, <1>5, <1>8 DEF Running, Quiet, Failing
  <2>6. RunInv(s)'
    <3> SUFFICES ASSUME Clean(s)
                 PROVE  RunInv(s)'
      BY <2>1 DEF RunInv
    <3>1. \A c \in Boxes :
              /\ box'[c][s].crossed = {}
              /\ box'[c][s].waiting \subseteq {sent'[s]}
              /\ box'[c][s].playing \in {0, sent'[s]}
              /\ box'[c][s].playing # 0 => box'[c][s].waiting = {}
              /\ box'[c][s].stale \subseteq box[c][s].stale
      BY <1>1, <1>3, <1>8, <2>0 DEF SessionInv, RunInv
    <3> QED
      BY <1>1, <2>0, <2>5, <3>1 DEF SessionInv, RunInv
  <2>7. ServeInv(s)'
    <3> SUFFICES ASSUME Known(s)
                 PROVE  ServeInv(s)'
      BY <2>1 DEF ServeInv
    <3>1. \A c \in Boxes : c # b => (Erring(c, s)' <=> Erring(c, s)) /\ (Heeded(c, s)' <=> Heeded(c, s))
      BY <1>1, <1>3, <1>5 DEF Erring, Heeded
    <3>2. \A t \in Tasks : Up(s, t)' => Up(s, t) /\ task[s][t].box \in Boxes
      <4>1. \A t \in Tasks : Up(s, t)' => task[s][t].box \in Boxes
        BY <1>1, <2>0 DEF Up, SessionInv, TaskInv, Busy
      <4>2. \A c \in Boxes : Told(c)' \subseteq Told(c)
        BY <1>5
      <4> QED
        BY <1>1, <4>1, <4>2 DEF Up
    <3>3. ASSUME NEW t \in Tasks, Up(s, t)', task'[s][t].link # 0,
                 task'[s][t].link = peer'[task'[s][t].box]
          PROVE  Heeded(task[s][t].box, s)'
      <4>1. PICK c \in Boxes : c = task[s][t].box
        BY <3>2, <3>3
      <4>2. c # b
        BY <1>1, <1>6, <3>3, <4>1
      <4>3. Heeded(c, s)
        BY <1>1, <1>6, <2>0, <3>2, <3>3, <4>1, <4>2 DEF SessionInv, ServeInv
      <4>4. task'[s][t].box = c
        BY <1>1, <4>1
      <4> QED
        BY <3>1, <4>2, <4>3, <4>4
    <3>4. ASSUME state[s] = "active"
          PROVE  \/ \E t \in Tasks : task'[s][t].pc # "idle"
                 \/ box'[transcoder'[s]][s].playing # 0
                 \/ Erring(transcoder[s], s)'
                 \/ watched'[transcoder'[s]] \ {peer'[transcoder'[s]]} # {}
      <4>1. PICK c \in Boxes : c = transcoder[s] /\ c = transcoder'[s]
        BY <1>1, <2>0, <3>4 DEF SessionInv, TaskInv
      <4>2. CASE c = b
        BY <1>0, <1>1, <1>6, <4>1, <4>2 DEF LinkInv
      <4>3. CASE c # b
        <5>1. \/ \E t \in Tasks : task[s][t].pc # "idle"
              \/ box[c][s].playing # 0
              \/ Erring(c, s)
              \/ watched[c] \ {peer[c]} # {}
          BY <2>0, <3>4, <4>1 DEF SessionInv, ServeInv
        <5>2. \/ \E t \in Tasks : task'[s][t].pc # "idle"
              \/ box'[c][s].playing # 0
              \/ Erring(c, s)'
              \/ watched'[c] \ {peer'[c]} # {}
          BY <1>1, <1>3, <1>6, <3>1, <4>3, <5>1
        <5> QED
          BY <4>1, <5>2
      <4> QED
        BY <4>2, <4>3
    <3> QED
      BY <1>1, <3>3, <3>4 DEF ServeInv
  <2> QED
    BY <2>2, <2>4, <2>6, <2>7 DEF SessionInv
<1> QED
  BY <1>7, <1>9, <1>10 DEF FleetInv

(* A new link has a number that no dispatch knows, over an empty box. *)
LEMMA ReconnectStep ==
    ASSUME FleetInv, NEW b \in Boxes, Reconnect(b)
    PROVE  FleetInv'
<1>0. FleetTypes /\ LinkInv
  BY DEF FleetInv
<1>1. /\ peer[b] = 0 /\ opened[b] < MaxLinks
      /\ UNCHANGED <<tc_load, back, box, state, transcoder, pending_ready, task, sent>>
      /\ UNCHANGED history
  BY DEF Reconnect, boxVars
<1>2. PICK l : l = opened[b] + 1
  OBVIOUS
<1>3. l \in 1..MaxLinks /\ opened[b] \in Nat /\ l \in Nat
  BY <1>0, <1>1, <1>2, FleetAssumption DEF FleetTypes
<1>4. /\ opened' \in [Boxes -> 0..MaxLinks] /\ opened'[b] = l
      /\ peer' \in [Boxes -> 0..MaxLinks] /\ peer'[b] = l
      /\ tc_links' \in [Boxes -> 0..MaxLinks] /\ tc_links'[b] = l
      /\ watched' \in [Boxes -> SUBSET Nat] /\ watched'[b] = watched[b] \cup {l}
      /\ \A c \in Boxes : c # b => /\ peer'[c] = peer[c] /\ opened'[c] = opened[c]
                                   /\ tc_links'[c] = tc_links[c] /\ watched'[c] = watched[c]
  <2>1. /\ opened' = [opened EXCEPT ![b] = l] /\ peer' = [peer EXCEPT ![b] = l]
        /\ tc_links' = [tc_links EXCEPT ![b] = l]
        /\ watched' = [watched EXCEPT ![b] = @ \cup {l}]
    BY <1>2 DEF Reconnect
  <2>2. l \in 0..MaxLinks
    BY <1>3
  <2> QED
    BY <1>0, <1>3, <2>1, <2>2 DEF FleetTypes
<1>5. FleetTypes'
  BY <1>0, <1>1, <1>4 DEF FleetTypes
<1>6. \A c \in Boxes : Told(c)' = Told(c)
  BY <1>1 DEF Told
<1>7. /\ Contract!IdleBox.waiting = {} /\ Contract!IdleBox.stale = {} /\ Contract!IdleBox.due = {}
      /\ Contract!IdleBox.playing = 0 /\ Contract!IdleBox.crossed = {}
  BY DEF Contract!IdleBox
<1>8. Told(b) = {} /\ \A s \in Sessions : box[b][s] = Contract!IdleBox
  BY <1>0, <1>1 DEF LinkInv
<1>9. LinkInv'
  <2> SUFFICES ASSUME NEW c \in Boxes
               PROVE  /\ peer'[c] # 0 => tc_links'[c] = peer'[c] /\ peer'[c] \in watched'[c]
                      /\ tc_links'[c] # 0 => tc_links'[c] \in watched'[c]
                      /\ peer'[c] <= opened'[c] /\ watched'[c] \subseteq 1..opened'[c]
                      /\ peer'[c] = 0 =>
                            Told(c)' = {} /\ \A s \in Sessions : box'[c][s] = Contract!IdleBox
                      /\ \A s \in Sessions : box'[c][s].due = {}
    BY DEF LinkInv
  <2>1. CASE c = b
    <3>1. watched'[b] \subseteq 1..l
      BY <1>0, <1>2, <1>3, <1>4 DEF LinkInv
    <3> QED
      BY <1>1, <1>3, <1>4, <1>7, <1>8, <2>1, <3>1
  <2>2. CASE c # b
    BY <1>0, <1>1, <1>4, <1>6, <2>2 DEF LinkInv
  <2> QED
    BY <2>1, <2>2
<1>10. ASSUME NEW s \in Sessions
       PROVE  SessionInv(s)'
  <2>0. SessionInv(s)
    BY DEF FleetInv
  <2>1. (Clean(s)' <=> Clean(s)) /\ (Known(s)' <=> Known(s)) /\ raced' = raced
    BY <1>1 DEF history, Clean, Known
  <2>2. TaskInv(s)'
    <3>1. ASSUME NEW c \in Boxes
          PROVE  opened[c] \in Nat /\ opened[c] <= opened'[c]
      <4>1. opened[c] \in Nat
        BY <1>0 DEF FleetTypes
      <4>2. CASE c = b
        BY <1>2, <1>3, <1>4, <4>1, <4>2
      <4>3. CASE c # b
        BY <1>4, <4>1, <4>3
      <4> QED
        BY <4>1, <4>2, <4>3
    <3>2. \A t \in Tasks : task[s][t].pc \in Busy =>
              task[s][t].box \in Boxes /\ task[s][t].link <= opened'[task[s][t].box]
      <4>1. \A t \in Tasks : task[s][t].link \in Nat
        BY <1>0 DEF FleetTypes, Task
      <4>2. \A c \in Boxes : opened'[c] \in Nat
        BY <1>4
      <4> QED
        BY <2>0, <3>1, <4>1, <4>2 DEF SessionInv, TaskInv
    <3> QED
      BY <1>1, <2>0, <3>2 DEF SessionInv, TaskInv, Seeking
  <2>3. AloneInv(s)'
    BY <1>1, <2>0, <2>1 DEF SessionInv, AloneInv, Seeking
  <2>4. StartInv(s)'
    <3>1. \A n \in Nat \ {0} : ~Occurs(b, s, n)
      BY <1>7, <1>8 DEF Occurs
    <3>2. \A c \in Boxes, n \in Nat \ {0} : Occurs(c, s, n)' <=> Occurs(c, s, n)
      BY <1>1, <1>6 DEF Occurs
    <3> QED
      BY <1>1, <1>4, <2>0, <3>1, <3>2 DEF SessionInv, StartInv
  <2>5. RunInv(s)'
    BY <1>1, <2>0, <2>1, RunSame DEF SessionInv
  <2>6. ServeInv(s)'
    <3> SUFFICES ASSUME Known(s)
                 PROVE  ServeInv(s)'
      BY <2>1 DEF ServeInv
    <3>1. \A c \in Boxes : (Erring(c, s)' <=> Erring(c, s)) /\ (Heeded(c, s)' <=> Heeded(c, s))
      BY <1>1, <1>6 DEF Erring, Heeded
    <3>2. \A t \in Tasks : Up(s, t)' => Up(s, t) /\ task[s][t].box \in Boxes /\ task[s][t].pc \in Busy
      <4>1. \A t \in Tasks : Up(s, t)' => task[s][t].box \in Boxes /\ task[s][t].pc \in Busy
        BY <1>1, <2>0 DEF Up, SessionInv, TaskInv, Busy
      <4> QED
        BY <1>1, <1>6, <4>1 DEF Up
    <3>3. ASSUME NEW t \in Tasks, Up(s, t)', task'[s][t].link # 0,
                 task'[s][t].link = peer'[task'[s][t].box]
          PROVE  Heeded(task[s][t].box, s)'
      <4>1. PICK c \in Boxes : c = task[s][t].box /\ c = task'[s][t].box
        BY <1>1, <3>2, <3>3
      <4>2. c # b
        <5>1. task[s][t].link <= opened[c] /\ task[s][t].link \in Nat
          BY <1>0, <2>0, <3>2, <3>3, <4>1, ZenonT(40) DEF SessionInv, TaskInv, FleetTypes, Task
        <5>2. task[s][t].link = peer'[c]
          BY <1>1, <3>3, <4>1
        <5> QED
          BY <1>2, <1>3, <1>4, <5>1, <5>2
      <4>3. Heeded(c, s)
        BY <1>1, <1>4, <2>0, <3>2, <3>3, <4>1, <4>2 DEF SessionInv, ServeInv
      <4> QED
        BY <3>1, <4>1, <4>3
    <3>4. ASSUME state[s] = "active"
          PROVE  \/ \E t \in Tasks : task'[s][t].pc # "idle"
                 \/ box'[transcoder'[s]][s].playing # 0
                 \/ Erring(transcoder[s], s)'
                 \/ watched'[transcoder'[s]] \ {peer'[transcoder'[s]]} # {}
      <4>1. PICK c \in Boxes : c = transcoder[s] /\ c = transcoder'[s]
        BY <1>1, <2>0, <3>4 DEF SessionInv, TaskInv
      <4>2. \/ \E t \in Tasks : task[s][t].pc # "idle"
            \/ box[c][s].playing # 0
            \/ Erring(c, s)
            \/ watched[c] \ {peer[c]} # {}
        BY <2>0, <3>4, <4>1 DEF SessionInv, ServeInv
      <4>3. watched[c] \ {peer[c]} # {} => watched'[c] \ {peer'[c]} # {}
        <5>1. CASE c = b
          <6>1. l \notin watched[b] /\ watched[b] \subseteq watched'[b]
            BY <1>0, <1>2, <1>3, <1>4 DEF LinkInv
          <6> QED
            BY <1>4, <5>1, <6>1
        <5>2. CASE c # b
          BY <1>4, <5>2
        <5> QED
          BY <5>1, <5>2
      <4>4. \/ \E t \in Tasks : task'[s][t].pc # "idle"
            \/ box'[c][s].playing # 0
            \/ Erring(c, s)'
            \/ watched'[c] \ {peer'[c]} # {}
        BY <1>1, <3>1, <4>2, <4>3
      <4> QED
        BY <4>1, <4>4
    <3> QED
      BY <1>1, <3>3, <3>4 DEF ServeInv
  <2> QED
    BY <2>2, <2>3, <2>4, <2>5, <2>6 DEF SessionInv
<1> QED
  BY <1>5, <1>9, <1>10 DEF FleetInv

(* The hub gives a link up: its sessions are called, nothing at the boxes changes.   *)
LEMMA TeardownStep ==
    ASSUME FleetInv, NEW b \in Boxes, NEW l \in 1..MaxLinks, Teardown(b, l)
    PROVE  FleetInv'
<1>0. FleetTypes /\ LinkInv
  BY DEF FleetInv
<1>1. /\ l \in watched[b] /\ l # peer[b]
      /\ UNCHANGED <<peer, opened, back, box, state, transcoder, pending_ready, sent>>
      /\ UNCHANGED history
      /\ watched' = [watched EXCEPT ![b] = @ \ {l}]
  BY DEF Teardown, boxVars
<1>2. /\ watched' \in [Boxes -> SUBSET Nat] /\ watched'[b] = watched[b] \ {l}
      /\ \A c \in Boxes : c # b => watched'[c] = watched[c]
  BY <1>0, <1>1 DEF FleetTypes
<1>3. /\ tc_links' \in [Boxes -> 0..MaxLinks] /\ tc_load' \in [Boxes -> 0..MaxSessions]
      /\ \A c \in Boxes : c # b => tc_links'[c] = tc_links[c]
      /\ tc_links[b] = l => tc_links'[b] = 0
      /\ tc_links[b] # l => tc_links'[b] = tc_links[b]
  <2>1. CASE tc_links[b] = l
    <3>1. tc_links' = [tc_links EXCEPT ![b] = 0] /\ tc_load' = [tc_load EXCEPT ![b] = 0]
      BY <2>1 DEF Teardown
    <3>2. 0 \in 0..MaxLinks /\ 0 \in 0..MaxSessions
      BY FleetAssumption
    <3> QED
      BY <1>0, <2>1, <3>1, <3>2 DEF FleetTypes
  <2>2. CASE tc_links[b] # l
    <3>1. UNCHANGED <<tc_links, tc_load>>
      BY <2>2 DEF Teardown
    <3> QED
      BY <1>0, <2>2, <3>1 DEF FleetTypes
  <2> QED
    BY <2>1, <2>2
<1>4. PICK x : x = [Idle EXCEPT !.pc = "called"]
  OBVIOUS
<1>5. x \in Task /\ x.pc = "called" /\ x.start = 0
  BY <1>4, TaskShapes
<1>6. task' = [s \in Sessions |-> IF s \in Stranded(b) THEN [task[s] EXCEPT !["loss"] = x]
                                  ELSE task[s]]
      /\ \A s \in Sessions : task[s]["loss"].pc = "idle"
  BY <1>4 DEF Teardown
<1>7. /\ task' \in [Sessions -> [Tasks -> Task]]
      /\ \A s \in Sessions : \A t \in Tasks : t # "loss" => task'[s][t] = task[s][t]
      /\ \A s \in Sessions : s \notin Stranded(b) => task'[s] = task[s]
      /\ \A s \in Stranded(b) : task'[s]["loss"] = x
  <2>1. task \in [Sessions -> [Tasks -> Task]] /\ "loss" \in Tasks /\ Stranded(b) \subseteq Sessions
    BY <1>0 DEF FleetTypes, Tasks, Stranded
  <2>2. ASSUME NEW s \in Sessions
        PROVE  /\ task'[s] \in [Tasks -> Task]
               /\ \A t \in Tasks : t # "loss" => task'[s][t] = task[s][t]
               /\ s \notin Stranded(b) => task'[s] = task[s]
               /\ s \in Stranded(b) => task'[s]["loss"] = x
    <3>1. task[s] \in [Tasks -> Task]
      BY <2>1
    <3>2. [task[s] EXCEPT !["loss"] = x] \in [Tasks -> Task]
      BY <1>5, <3>1
    <3>3. task'[s] = IF s \in Stranded(b) THEN [task[s] EXCEPT !["loss"] = x] ELSE task[s]
      BY <1>6
    <3> QED
      BY <2>1, <3>1, <3>2, <3>3
  <2>3. task' = [s \in Sessions |-> task'[s]]
    BY <1>6
  <2> QED
    BY <2>1, <2>2, <2>3
<1>8. FleetTypes'
  BY <1>0, <1>1, <1>2, <1>3, <1>7 DEF FleetTypes
<1>9. LinkInv'
  <2>1. \A c \in Boxes : Told(c)' = Told(c)
    BY <1>1 DEF Told
  <2> SUFFICES ASSUME NEW c \in Boxes
               PROVE  /\ peer'[c] # 0 => tc_links'[c] = peer'[c] /\ peer'[c] \in watched'[c]
                      /\ tc_links'[c] # 0 => tc_links'[c] \in watched'[c]
                      /\ peer'[c] <= opened'[c] /\ watched'[c] \subseteq 1..opened'[c]
                      /\ peer'[c] = 0 =>
                            Told(c)' = {} /\ \A s \in Sessions : box'[c][s] = Contract!IdleBox
                      /\ \A s \in Sessions : box'[c][s].due = {}
    BY DEF LinkInv
  <2>2. CASE c = b
    <3>1. tc_links[b] \in 0..MaxLinks
      BY <1>0 DEF FleetTypes
    <3> QED
      BY <1>0, <1>1, <1>2, <1>3, <2>1, <2>2, <3>1 DEF LinkInv
  <2>3. CASE c # b
    BY <1>0, <1>1, <1>2, <1>3, <2>1, <2>3 DEF LinkInv
  <2> QED
    BY <2>2, <2>3
<1>10. ASSUME NEW s \in Sessions
       PROVE  SessionInv(s)'
  <2>0. SessionInv(s)
    BY DEF FleetInv
  <2>1. (Clean(s)' <=> Clean(s)) /\ (Known(s)' <=> Known(s)) /\ raced' = raced
    BY <1>1 DEF history, Clean, Known
  <2>2. \A t \in Tasks :
           \/ task'[s][t] = task[s][t]
           \/ /\ t = "loss" /\ s \in Stranded(b)
              /\ task[s][t].pc = "idle" /\ task'[s][t].pc = "called" /\ task'[s][t].start = 0
    BY <1>5, <1>6, <1>7
  <2>3. "loss" \in Movers /\ "loss" \in Tasks /\ "start" \in Tasks /\ "seek" \in Tasks
        /\ Movers \subseteq Tasks
    BY DEF Movers, Tasks
  <2>4. task'[s]["start"] = task[s]["start"] /\ task'[s]["seek"] = task[s]["seek"]
        /\ \A t \in Tasks : task'[s][t].pc \in Busy \/ task[s][t].pc \in Busy =>
              task'[s][t] = task[s][t]
    BY <2>2, <2>3 DEF Busy
  <2>5. TaskInv(s)'
    <3>1. \A t \in Movers : task'[s][t].pc # "publish"
      BY <2>0, <2>2, <2>3 DEF SessionInv, TaskInv
    <3>2. \A t \in Tasks : task'[s][t].pc \in Busy =>
              task'[s][t].box \in Boxes /\ task'[s][t].link <= opened'[task'[s][t].box]
      BY <1>1, <2>0, <2>4 DEF SessionInv, TaskInv
    <3>3. \A t \in Tasks : task'[s][t].start <= sent'[s]
      <4>1. sent[s] \in Nat
        BY <1>0 DEF FleetTypes
      <4> QED
        BY <1>1, <2>0, <2>2, <4>1 DEF SessionInv, TaskInv
    <3>4. pending_ready'[s] # "none" => task'[s][pending_ready'[s]].pc = "wait"
      <4>1. pending_ready[s] \in Tasks \cup {"none"}
        BY <1>0 DEF FleetTypes
      <4> QED
        BY <1>1, <2>0, <2>2, <4>1 DEF SessionInv, TaskInv
    <3> QED
      BY <1>1, <2>0, <2>4, <3>1, <3>2, <3>3, <3>4 DEF SessionInv, TaskInv, Seeking
  <2>6. AloneInv(s)'
    BY <1>1, <2>0, <2>1, <2>3, <2>4 DEF SessionInv, AloneInv, Seeking
  <2>7. StartInv(s)'
    <3>1. \A c \in Boxes, n \in Nat \ {0} : Occurs(c, s, n)' => Occurs(c, s, n)
      BY <1>1 DEF Occurs, Told
    <3> QED
      BY <1>1, <2>0, <2>2, <3>1, StartKept DEF SessionInv
  <2>8. RunInv(s)'
    BY <1>1, <2>0, <2>1, <2>4, RunSame DEF SessionInv
  <2>9. ServeInv(s)'
    <3> SUFFICES ASSUME Known(s)
                 PROVE  ServeInv(s)'
      BY <2>1 DEF ServeInv
    <3>1. \A c \in Boxes : Told(c)' = Told(c) /\ (Erring(c, s)' <=> Erring(c, s))
      BY <1>1 DEF Erring, Told
    <3>2. \A c \in Boxes : Heeded(c, s) => Heeded(c, s)'
      <4>1. task'[s]["error"] = task[s]["error"]
        BY <1>7 DEF Tasks
      <4> QED
        BY <1>1, <3>1, <4>1 DEF Heeded
    <3>3. \A t \in Tasks : Up(s, t)' => Up(s, t) /\ task[s][t].box \in Boxes /\ task'[s][t] = task[s][t]
      <4>1. \A t \in Tasks : Up(s, t)' => task'[s][t].pc \in Busy /\ task'[s][t] = task[s][t]
        BY <2>4 DEF Up, Busy
      <4>2. \A t \in Tasks : Up(s, t)' => task[s][t].box \in Boxes
        BY <2>0, <4>1 DEF SessionInv, TaskInv
      <4> QED
        BY <1>1, <3>1, <4>1, <4>2 DEF Up
    <3>4. ASSUME NEW t \in Tasks, Up(s, t)', task'[s][t].link # 0,
                 task'[s][t].link = peer'[task'[s][t].box]
          PROVE  Heeded(task[s][t].box, s)'
      <4>1. PICK c \in Boxes : c = task[s][t].box /\ c = task'[s][t].box
        BY <3>3, <3>4
      <4>2. Heeded(c, s)
        BY <1>1, <2>0, <3>3, <3>4, <4>1 DEF SessionInv, ServeInv
      <4> QED
        BY <3>2, <4>1, <4>2
    <3>5. ASSUME state[s] = "active"
          PROVE  \/ \E t \in Tasks : task'[s][t].pc # "idle"
                 \/ box'[transcoder'[s]][s].playing # 0
                 \/ Erring(transcoder[s], s)'
                 \/ watched'[transcoder'[s]] \ {peer'[transcoder'[s]]} # {}
      <4>1. PICK c \in Boxes : c = transcoder[s] /\ c = transcoder'[s]
        BY <1>1, <2>0, <3>5 DEF SessionInv, TaskInv
      <4>2. CASE c = b
        BY <1>5, <1>7, <2>3, <3>5, <4>1, <4>2, ZenonT(40) DEF Stranded
      <4>3. CASE c # b
        <5>1. \/ \E t \in Tasks : task[s][t].pc # "idle"
              \/ box[c][s].playing # 0
              \/ Erring(c, s)
              \/ watched[c] \ {peer[c]} # {}
          BY <2>0, <3>5, <4>1 DEF SessionInv, ServeInv
        <5>2. s \notin Stranded(b)
          BY <4>1, <4>3 DEF Stranded
        <5>3. \/ \E t \in Tasks : task'[s][t].pc # "idle"
              \/ box'[c][s].playing # 0
              \/ Erring(c, s)'
              \/ watched'[c] \ {peer'[c]} # {}
          BY <1>1, <1>2, <1>7, <3>1, <4>3, <5>1, <5>2
        <5> QED
          BY <4>1, <5>3
      <4> QED
        BY <4>2, <4>3
    <3> QED
      BY <1>1, <3>4, <3>5 DEF ServeInv
  <2> QED
    BY <2>5, <2>6, <2>7, <2>8, <2>9 DEF SessionInv
<1> QED
  BY <1>8, <1>9, <1>10 DEF FleetInv

-----------------------------------------------------------------------------
(* Verdicts and boxes.                                                               *)

(* Runs come to an end or up, and verdicts are sent or read, but nothing is started. *)
LEMMA RunMono ==
    ASSUME NEW s \in Sessions, RunInv(s), sent'[s] = sent[s], transcoder'[s] = transcoder[s],
           state'[s] = state[s], Clean(s)' => Clean(s),
           \A t \in Tasks : task'[s][t].pc \in Busy \/ task[s][t].pc \in Busy =>
              /\ task'[s][t].pc = task[s][t].pc
              /\ task'[s][t].box = task[s][t].box
              /\ task'[s][t].start = task[s][t].start,
           \A b \in Boxes : Running(b, s)' => Running(b, s),
           \A b \in Boxes :
              /\ box'[b][s].crossed = box[b][s].crossed
              /\ box'[b][s].waiting \subseteq box[b][s].waiting
              /\ box'[b][s].stale \subseteq box[b][s].stale
              /\ box'[b][s].playing \in {0, box[b][s].playing} \cup box[b][s].waiting
              /\ Clean(s)' /\ box'[b][s].playing # 0 => box'[b][s].waiting = {},
           Clean(s)' => \A t \in Tasks : task[s][t].pc = "wait" =>
              /\ task'[s][t].verdict \in {"err", "unsent"} => Quiet(s)'
              /\ \A b \in Boxes : Failing(b, s, sent[s])' => Quiet(s)'
    PROVE  RunInv(s)'
<1> SUFFICES ASSUME Clean(s)'
             PROVE  RunInv(s)'
  BY DEF RunInv
<1>1. Quiet(s) => Quiet(s)'
  BY DEF Quiet
<1>2. \A b \in Boxes :
          /\ box'[b][s].crossed = {}
          /\ box'[b][s].waiting \subseteq {sent'[s]}
          /\ box'[b][s].playing \in {0, sent'[s]}
          /\ box'[b][s].playing # 0 => box'[b][s].waiting = {}
  BY DEF RunInv
<1>3. \A t \in Tasks : task'[s][t].pc = "dispatch" => Quiet(s)'
  BY <1>1 DEF RunInv, Busy
<1>4. \A t \in Tasks : task'[s][t].pc \in {"wait", "publish"} =>
          \A b \in Boxes : Running(b, s)' => b = task'[s][t].box
  BY DEF RunInv, Busy
<1>5. (\A t \in Tasks : task'[s][t].pc \notin Busy) =>
          \A b \in Boxes : Running(b, s)' =>
              state'[s] \in {"active", "ending"} /\ b = transcoder'[s]
  BY DEF RunInv, Busy
<1>6. \A t \in Tasks : task'[s][t].pc = "wait" =>
          /\ task'[s][t].start = sent'[s]
          /\ \A b \in Boxes : sent'[s] \notin box'[b][s].stale
  BY DEF RunInv, Busy
<1>7. \A t \in Tasks : task'[s][t].pc = "wait" =>
          /\ task'[s][t].verdict \in {"err", "unsent"} => Quiet(s)'
          /\ \A b \in Boxes : Failing(b, s, sent[s])' => Quiet(s)'
  BY DEF Busy
<1> QED
  BY <1>2, <1>3, <1>4, <1>5, <1>6, <1>7 DEF RunInv

(* Links, boxes and sessions stand still while the hub reads a verdict of s.         *)
LEMMA ReadFacts ==
    ASSUME FleetInv, NEW b \in Boxes, ReadVerdict(b), NEW m, m = Head(back[b])
    PROVE  /\ m \in Verdict /\ m.session \in Sessions /\ m.start \in Nat \ {0} /\ m \in Told(b)
           /\ back' \in [Boxes -> Seq(Verdict)]
           /\ peer[b] # 0
           /\ Told(b) = Told(b)' \cup {m}
           /\ \A c \in Boxes : c # b => Told(c)' = Told(c)
           /\ UNCHANGED <<linkVars, tc_load, box, state, transcoder, sent, raced, needless, late, told>>
<1>0. FleetTypes /\ LinkInv
  BY DEF FleetInv
<1>1. back[b] # <<>> /\ back' = [back EXCEPT ![b] = Tail(@)]
      /\ UNCHANGED <<linkVars, tc_load, box, state, transcoder, sent, raced, needless, late, told>>
  BY DEF ReadVerdict
<1>2. /\ back' \in [Boxes -> Seq(Verdict)]
      /\ m \in Told(b) /\ m \in Verdict
      /\ Told(b) = Told(b)' \cup {m}
      /\ \A c \in Boxes : c # b => Told(c)' = Told(c)
  BY <1>0, <1>1, ToldLess
<1>3. m.session \in Sessions /\ m.start \in Nat \ {0}
  BY <1>2 DEF Verdict
<1>4. peer[b] # 0
  BY <1>0, <1>2 DEF LinkInv
<1> QED
  BY <1>1, <1>2, <1>3, <1>4

(* A task that was idle is called, and at most a verdict comes to the others.          *)
LEMMA CalledTasks ==
    ASSUME NEW s \in Sessions, TaskInv(s), AloneInv(s), sent[s] \in Nat, sent'[s] = sent[s],
           opened' = opened, raced' = raced,
           state'[s] = state[s], transcoder'[s] = transcoder[s], pending_ready'[s] = "none",
           \A t \in Tasks :
              \/ /\ task'[s][t].pc = task[s][t].pc /\ task'[s][t].box = task[s][t].box
                 /\ task'[s][t].link = task[s][t].link /\ task'[s][t].start = task[s][t].start
              \/ /\ t = "error" /\ task[s][t].pc = "idle"
                 /\ task'[s][t].pc = "called" /\ task'[s][t].start = 0
    PROVE  TaskInv(s)' /\ AloneInv(s)'
<1>1. "start" \in Tasks /\ "seek" \in Tasks /\ Movers \subseteq Tasks
  BY DEF Movers, Tasks
<1>2. \A t \in Tasks : task'[s][t].pc \in Busy \/ task[s][t].pc \in Busy =>
         /\ task'[s][t].pc = task[s][t].pc /\ task'[s][t].box = task[s][t].box
         /\ task'[s][t].link = task[s][t].link /\ task'[s][t].start = task[s][t].start
  BY DEF Busy
<1>3. \A t \in {"start", "seek"} :
         /\ task'[s][t].pc = task[s][t].pc /\ task'[s][t].box = task[s][t].box
  BY <1>1
<1>4. \A t \in Movers : task'[s][t].pc # "publish"
  <2>1. \A t \in Movers : task[s][t].pc # "publish"
    BY DEF TaskInv
  <2>2. \A t \in Tasks : task'[s][t].pc \in {task[s][t].pc, "called"}
    OBVIOUS
  <2> QED
    BY <1>1, <2>1, <2>2
<1>5. \A t \in Tasks : task'[s][t].pc \in Busy =>
              task'[s][t].box \in Boxes /\ task'[s][t].link <= opened'[task'[s][t].box]
  <2>1. \A t \in Tasks : task[s][t].pc \in Busy =>
              task[s][t].box \in Boxes /\ task[s][t].link <= opened[task[s][t].box]
    BY DEF TaskInv
  <2> QED
    BY <1>2, <2>1
<1>6. \A t \in Tasks : task'[s][t].start <= sent'[s]
  <2>1. \A t \in Tasks : task[s][t].start <= sent[s]
    BY DEF TaskInv
  <2> QED
    BY <2>1
<1>7. TaskInv(s)'
  BY <1>3, <1>4, <1>5, <1>6 DEF TaskInv, Seeking
<1>8. AloneInv(s)'
  <2> SUFFICES ASSUME s \notin raced
               PROVE  AloneInv(s)'
    BY DEF AloneInv
  <2>1. \A t \in Movers : task'[s][t].pc \in Busy => state'[s] = "active"
    <3>1. \A t \in Movers : task[s][t].pc \in Busy => state[s] = "active"
      BY DEF AloneInv
    <3> QED
      BY <1>1, <1>2, <3>1
  <2>2. \A t, u \in Tasks : task'[s][t].pc \in Busy /\ task'[s][u].pc \in Busy => t = u
    <3>1. \A t, u \in Tasks : task[s][t].pc \in Busy /\ task[s][u].pc \in Busy => t = u
      BY DEF AloneInv
    <3> QED
      BY <1>2, <3>1
  <2>3. Seeking(s)' => task'[s]["seek"].box = transcoder'[s]
    BY <1>3 DEF AloneInv, Seeking
  <2> QED
    BY <2>1, <2>2, <2>3 DEF AloneInv
<1> QED
  BY <1>7, <1>8

(* What is common to the ways a verdict is read.                                      *)
LEMMA ReadKept ==
    ASSUME FleetInv, NEW b \in Boxes, ReadVerdict(b), NEW m, m = Head(back[b]),
           NEW s \in Sessions, s = m.session,
           task' \in [Sessions -> [Tasks -> Task]],
           pending_ready' \in [Sessions -> Tasks \cup {"none"}],
           \A r \in Sessions : r # s =>
              /\ task'[r] = task[r] /\ pending_ready'[r] = pending_ready[r]
              /\ r \in misread' <=> r \in misread,
           misread \subseteq misread',
           pending_ready'[s] = "none",
           \A t \in Tasks :
              \/ /\ task'[s][t].pc = task[s][t].pc /\ task'[s][t].box = task[s][t].box
                 /\ task'[s][t].link = task[s][t].link /\ task'[s][t].start = task[s][t].start
              \/ /\ t = "error" /\ task[s][t].pc = "idle"
                 /\ task'[s][t].pc = "called" /\ task'[s][t].start = 0,
           Clean(s)' => \A t \in Tasks : task[s][t].pc = "wait" =>
              (task'[s][t].verdict \in {"err", "unsent"} => Quiet(s)),
           ServeInv(s)'
    PROVE  FleetInv'
<1>0. FleetTypes /\ LinkInv /\ SessionInv(s) /\ (\A r \in Sessions : SessionInv(r))
  BY DEF FleetInv
<1>1. /\ m \in Verdict /\ m.session \in Sessions /\ m.start \in Nat \ {0} /\ m \in Told(b)
      /\ back' \in [Boxes -> Seq(Verdict)]
      /\ peer[b] # 0
      /\ Told(b) = Told(b)' \cup {m}
      /\ \A c \in Boxes : c # b => Told(c)' = Told(c)
      /\ UNCHANGED <<linkVars, tc_load, box, state, transcoder, sent, raced, needless, late, told>>
  BY ReadFacts
<1>2. FleetTypes'
  BY <1>0, <1>1 DEF FleetTypes, linkVars
<1>3. ASSUME NEW r \in Sessions, r # s
      PROVE  Aside(r)
  <2>1. ASSUME NEW c \in Boxes, NEW x, x.session = r
        PROVE  x \in Told(c)' <=> x \in Told(c)
    <3>1. x # m
      BY <1>3, <2>1
    <3> QED
      BY <1>1, <3>1
  <2>2. SameHistory(r)
    BY <1>1, <1>3 DEF SameHistory
  <2> QED
    BY <1>1, <1>3, <2>1, <2>2 DEF Aside
<1>5. \A t \in Tasks : task'[s][t].pc \in Busy \/ task[s][t].pc \in Busy =>
         /\ task'[s][t].pc = task[s][t].pc /\ task'[s][t].box = task[s][t].box
         /\ task'[s][t].link = task[s][t].link /\ task'[s][t].start = task[s][t].start
  BY DEF Busy
<1>7. TaskInv(s)' /\ AloneInv(s)'
  <2>1. sent[s] \in Nat /\ sent'[s] = sent[s] /\ opened' = opened /\ raced' = raced
        /\ state'[s] = state[s] /\ transcoder'[s] = transcoder[s]
    BY <1>0, <1>1 DEF FleetTypes, linkVars
  <2> QED
    BY <1>0, <2>1, CalledTasks DEF SessionInv
<1>9. StartInv(s)'
  <2>1. \A c \in Boxes, n \in Nat \ {0} : Occurs(c, s, n)' => Occurs(c, s, n)
    <3>1. \A c \in Boxes : Told(c)' \subseteq Told(c)
      BY <1>1
    <3> QED
      BY <1>1, <3>1 DEF Occurs
  <2>2. StartInv(s) /\ sent'[s] = sent[s] /\ UNCHANGED peer
    BY <1>0, <1>1 DEF SessionInv, linkVars
  <2>3. \A t \in Tasks :
              \/ task'[s][t].start = 0
              \/ /\ task'[s][t].start = task[s][t].start
                 /\ task'[s][t].box = task[s][t].box
                 /\ task'[s][t].link = task[s][t].link
    OBVIOUS
  <2> QED
    BY <2>1, <2>2, <2>3, StartKept
<1>10. RunInv(s)'
  <2>1. \A c \in Boxes : Running(c, s)' <=> Running(c, s)
    BY <1>1 DEF Running
  <2>2. Quiet(s)' <=> Quiet(s)
    BY <2>1 DEF Quiet
  <2>3. \A c \in Boxes : Failing(c, s, sent[s])' => Failing(c, s, sent[s])
    <3>1. \A c \in Boxes : Told(c)' \subseteq Told(c)
      BY <1>1
    <3> QED
      BY <1>1, <3>1 DEF Failing
  <2>4. Clean(s)' => Clean(s)
    BY <1>1 DEF Clean
  <2>5. Clean(s)' => \A t \in Tasks : task[s][t].pc = "wait" =>
              /\ task'[s][t].verdict \in {"err", "unsent"} => Quiet(s)'
              /\ \A c \in Boxes : Failing(c, s, sent[s])' => Quiet(s)'
    BY <1>0, <2>2, <2>3, <2>4 DEF SessionInv, RunInv
  <2>6. \A c \in Boxes :
              /\ box'[c][s].crossed = box[c][s].crossed
              /\ box'[c][s].waiting \subseteq box[c][s].waiting
              /\ box'[c][s].stale \subseteq box[c][s].stale
              /\ box'[c][s].playing \in {0, box[c][s].playing} \cup box[c][s].waiting
              /\ Clean(s)' /\ box'[c][s].playing # 0 => box'[c][s].waiting = {}
    BY <1>0, <1>1, <2>4 DEF SessionInv, RunInv
  <2> QED
    BY <1>0, <1>1, <1>5, <2>1, <2>4, <2>5, <2>6, RunMono, ZenonT(40) DEF SessionInv
<1>11. /\ \A c \in Boxes : peer[c] = 0 => Told(c)' = Told(c)
       /\ \A c \in Boxes : peer[c] = 0 => box'[c][s] = box[c][s]
       /\ \A c \in Boxes : box'[c][s].due = box[c][s].due
       /\ UNCHANGED linkVars
  BY <1>1
<1> QED
  BY <1>2, <1>3, <1>7, <1>9, <1>10, <1>11, SessionStep, ZenonT(40) DEF SessionInv

(* transcode_verdict.                                                                 *)
LEMMA ReadVerdictStep ==
    ASSUME FleetInv, NEW b \in Boxes, ReadVerdict(b)
    PROVE  FleetInv'
<1>0. FleetTypes /\ LinkInv
  BY DEF FleetInv
<1>a. PICK m : m = Head(back[b])
  OBVIOUS
<1>b. PICK s : s = m.session
  OBVIOUS
<1>c. PICK t : t = pending_ready[s]
  OBVIOUS
<1>1. /\ m \in Verdict /\ s \in Sessions /\ m.start \in Nat \ {0} /\ m \in Told(b)
      /\ back' \in [Boxes -> Seq(Verdict)]
      /\ peer[b] # 0
      /\ Told(b) = Told(b)' \cup {m}
      /\ \A c \in Boxes : c # b => Told(c)' = Told(c)
      /\ UNCHANGED <<linkVars, tc_load, box, state, transcoder, sent, raced, needless, late, told>>
  BY <1>a, <1>b, ReadFacts
<1>2. SessionInv(s) /\ t \in Tasks \cup {"none"}
  BY <1>0, <1>1, <1>c DEF FleetInv, FleetTypes
<1>3. task \in [Sessions -> [Tasks -> Task]] /\ pending_ready \in [Sessions -> Tasks \cup {"none"}]
      /\ "none" \notin Tasks /\ "error" \in Tasks
  BY <1>0 DEF FleetTypes, Tasks
<1>4. misread \subseteq misread' => (Known(s)' => Known(s) /\ s \notin raced)
  BY <1>1 DEF Known
<1>5. CASE /\ t # "none"
           /\ task' = [task EXCEPT ![s][t].verdict = IF m.ready THEN "ok" ELSE "err"]
           /\ pending_ready' = [pending_ready EXCEPT ![s] = "none"]
           /\ misread' = IF task[s][t].start = m.start THEN misread ELSE misread \cup {s}
  <2>1. t \in Tasks /\ task[s][t].pc = "wait"
    BY <1>2, <1>5, <1>c DEF SessionInv, TaskInv
  <2>2. PICK v : v = IF m.ready THEN "ok" ELSE "err"
    OBVIOUS
  <2>3. PICK x : x = [task[s][t] EXCEPT !.verdict = v]
    OBVIOUS
  <2>4. /\ x \in Task /\ x.pc = task[s][t].pc /\ x.box = task[s][t].box
        /\ x.link = task[s][t].link /\ x.start = task[s][t].start /\ x.verdict = v
        /\ x.verdict = "ok" => m.ready
        /\ x.verdict # "ok" => ~m.ready
    <3>1. task[s][t] \in Task /\ v \in {"ok", "err"}
      BY <1>1, <1>3, <2>1, <2>2
    <3>2. (v = "ok" => m.ready) /\ (v # "ok" => ~m.ready)
      BY <2>2
    <3> QED
      BY <2>3, <3>1, <3>2 DEF Task
  <2>5. task' = [task EXCEPT ![s][t] = x]
    BY <1>1, <1>3, <1>5, <2>1, <2>2, <2>3
  <2>6. /\ task' \in [Sessions -> [Tasks -> Task]]
        /\ task'[s][t] = x
        /\ \A u \in Tasks : u # t => task'[s][u] = task[s][u]
        /\ \A r \in Sessions : r # s => task'[r] = task[r]
    BY <1>1, <1>3, <2>1, <2>4, <2>5, TaskUpdate
  <2>7. /\ pending_ready' \in [Sessions -> Tasks \cup {"none"}] /\ pending_ready'[s] = "none"
        /\ \A r \in Sessions : r # s => pending_ready'[r] = pending_ready[r]
    BY <1>1, <1>3, <1>5
  <2>8. misread \subseteq misread' /\ (\A r \in Sessions : r # s => (r \in misread' <=> r \in misread))
        /\ (s \notin misread' => task[s][t].start = m.start)
    BY <1>5
  <2>9. \A u \in Tasks :
              /\ task'[s][u].pc = task[s][u].pc /\ task'[s][u].box = task[s][u].box
              /\ task'[s][u].link = task[s][u].link /\ task'[s][u].start = task[s][u].start
    BY <2>4, <2>6
  <2>10. ASSUME Clean(s)', NEW u \in Tasks, task[s][u].pc = "wait",
                task'[s][u].verdict \in {"err", "unsent"}
         PROVE  Quiet(s)
    <3>1. Clean(s) /\ task[s][t].start = m.start
      BY <1>1, <2>8, <2>10 DEF Clean
    <3>2. CASE u = t
      <4>1. task[s][t].start = sent[s]
        BY <1>2, <2>1, <3>1 DEF SessionInv, RunInv
      <4>2. Failing(b, s, sent[s])
        BY <1>1, <1>b, <2>4, <2>6, <2>10, <3>1, <3>2, <4>1 DEF Failing
      <4> QED
        BY <1>2, <2>1, <3>1, <4>2 DEF SessionInv, RunInv
    <3>3. CASE u # t
      BY <1>2, <2>6, <2>10, <3>1, <3>3 DEF SessionInv, RunInv
    <3> QED
      BY <3>2, <3>3
  <2>11. ServeInv(s)'
    <3> SUFFICES ASSUME Known(s)'
                 PROVE  ServeInv(s)'
      BY DEF ServeInv
    <3>1. Known(s) /\ s \notin raced /\ task[s][t].start = m.start
      BY <1>4, <2>8 DEF Known
    <3>2. \A u \in Tasks : Up(s, u)' => u = t
      <4>1. \A u \in Tasks : Up(s, u)' => task[s][u].pc \in Busy
        BY <2>9 DEF Up, Busy
      <4> QED
        BY <1>2, <2>1, <3>1, <4>1 DEF SessionInv, AloneInv, Busy
    <3>3. ASSUME Up(s, t)', task'[s][t].link # 0, task'[s][t].link = peer'[task'[s][t].box]
          PROVE  Heeded(task[s][t].box, s)'
      <4>0. task'[s][t].pc = "wait" /\ pending_ready'[s] # t /\ task'[s][t].verdict = x.verdict
        BY <1>3, <2>1, <2>4, <2>6, <2>7
      <4>1. m.ready
        <5>1. Up(s, t)' => task'[s][t].verdict = "ok"
          BY <4>0 DEF Up
        <5> QED
          BY <2>4, <3>3, <4>0, <5>1
      <4>2. Occurs(b, s, m.start)
        BY <1>1, <1>b DEF Occurs
      <4>3. task[s][t].box = b /\ task[s][t].link = peer[b] /\ task'[s][t].box = b
        BY <1>1, <1>2, <2>1, <2>9, <3>1, <4>2 DEF SessionInv, StartInv
      <4>4. Up(s, t)
        BY <1>1, <1>b, <1>c, <2>1, <3>1, <4>1, <4>3 DEF Up
      <4>5. Heeded(b, s)
        BY <1>1, <1>2, <2>1, <3>1, <4>3, <4>4 DEF SessionInv, ServeInv
      <4>6. Erring(b, s) => Erring(b, s)'
        BY <1>1, <4>1 DEF Erring
      <4>7. Heeded(b, s)'
        BY <1>1, <1>3, <2>9, <4>5, <4>6 DEF Heeded
      <4> QED
        BY <4>3, <4>7
    <3>4. task'[s][t].pc # "idle"
      BY <2>1, <2>9
    <3> QED
      BY <2>1, <3>2, <3>3, <3>4 DEF ServeInv
  <2>12. s = m.session /\ s \in Sessions /\ pending_ready'[s] = "none"
         /\ task' \in [Sessions -> [Tasks -> Task]]
         /\ pending_ready' \in [Sessions -> Tasks \cup {"none"}] /\ misread \subseteq misread'
    BY <1>1, <1>b, <2>6, <2>7, <2>8
  <2>13. \A r \in Sessions : r # s =>
              /\ task'[r] = task[r] /\ pending_ready'[r] = pending_ready[r]
              /\ r \in misread' <=> r \in misread
    BY <2>6, <2>7, <2>8
  <2>14. Clean(s)' => \A u \in Tasks : task[s][u].pc = "wait" =>
              (task'[s][u].verdict \in {"err", "unsent"} => Quiet(s))
    BY <2>10
  <2> QED
    BY <1>a, <2>9, <2>11, <2>12, <2>13, <2>14, ReadKept
<1>6. CASE t = "none" /\ m.ready /\ UNCHANGED <<task, pending_ready, misread>>
  <2>1. ServeInv(s)'
    <3> SUFFICES ASSUME Known(s)'
                 PROVE  ServeInv(s)'
      BY DEF ServeInv
    <3>1. Known(s)
      BY <1>4, <1>6
    <3>2. \A c \in Boxes : Erring(c, s) => Erring(c, s)'
      BY <1>1, <1>6 DEF Erring
    <3>3. \A c \in Boxes : Heeded(c, s) => Heeded(c, s)'
      BY <1>1, <1>6, <3>2 DEF Heeded
    <3>4. \A u \in Tasks : Up(s, u)' => Up(s, u) /\ task[s][u].box \in Boxes
      <4>1. \A u \in Tasks : Up(s, u)' =>
                \/ task[s][u].pc = "publish"
                \/ task[s][u].pc = "wait" /\ task[s][u].verdict = "ok"
        <5>1. \A u \in Tasks : pending_ready'[s] # u
          BY <1>3, <1>6, <1>c
        <5> QED
          BY <1>6, <5>1 DEF Up
      <4> QED
        BY <1>2, <4>1 DEF Up, SessionInv, TaskInv, Busy
    <3>5. ASSUME NEW u \in Tasks, Up(s, u)', task'[s][u].link # 0,
                 task'[s][u].link = peer'[task'[s][u].box]
          PROVE  Heeded(task[s][u].box, s)'
      <4>1. PICK c \in Boxes : c = task[s][u].box /\ c = task'[s][u].box
        BY <1>6, <3>4, <3>5
      <4>2. Heeded(c, s)
        BY <1>1, <1>2, <1>6, <3>1, <3>4, <3>5, <4>1 DEF SessionInv, ServeInv, linkVars
      <4> QED
        BY <3>3, <4>1, <4>2
    <3>6. ASSUME state[s] = "active"
          PROVE  \/ \E u \in Tasks : task'[s][u].pc # "idle"
                 \/ box'[transcoder'[s]][s].playing # 0
                 \/ Erring(transcoder[s], s)'
                 \/ watched'[transcoder'[s]] \ {peer'[transcoder'[s]]} # {}
      <4>1. PICK c \in Boxes : c = transcoder[s] /\ c = transcoder'[s]
        BY <1>1, <1>2, <3>6 DEF SessionInv, TaskInv
      <4>2. \/ \E u \in Tasks : task[s][u].pc # "idle"
            \/ box[c][s].playing # 0
            \/ Erring(c, s)
            \/ watched[c] \ {peer[c]} # {}
        BY <1>2, <3>1, <3>6, <4>1 DEF SessionInv, ServeInv
      <4>3. \/ \E u \in Tasks : task'[s][u].pc # "idle"
            \/ box'[c][s].playing # 0
            \/ Erring(c, s)'
            \/ watched'[c] \ {peer'[c]} # {}
        BY <1>1, <1>6, <3>2, <4>2 DEF linkVars
      <4> QED
        BY <4>1, <4>3
    <3> QED
      BY <1>1, <3>5, <3>6 DEF ServeInv
  <2>2. pending_ready'[s] = "none"
    BY <1>6, <1>c
  <2>3. Clean(s)' => \A u \in Tasks : task[s][u].pc = "wait" =>
              (task'[s][u].verdict \in {"err", "unsent"} => Quiet(s))
    BY <1>1, <1>2, <1>6 DEF Clean, SessionInv, RunInv
  <2>4. \A u \in Tasks : task'[s][u] = task[s][u]
    BY <1>6
  <2>5. task' \in [Sessions -> [Tasks -> Task]] /\ pending_ready' \in [Sessions -> Tasks \cup {"none"}]
        /\ misread \subseteq misread'
        /\ \A r \in Sessions : task'[r] = task[r] /\ pending_ready'[r] = pending_ready[r]
                               /\ (r \in misread' <=> r \in misread)
    BY <1>3, <1>6
  <2> QED
    BY <1>1, <1>a, <1>b, <2>1, <2>2, <2>3, <2>4, <2>5, ReadKept
<1>7. CASE /\ t = "none" /\ ~m.ready /\ task[s]["error"].pc = "idle"
           /\ task' = [task EXCEPT ![s]["error"] = [Idle EXCEPT !.pc = "called"]]
           /\ UNCHANGED <<pending_ready, misread>>
  <2>1. PICK x : x = [Idle EXCEPT !.pc = "called"]
    OBVIOUS
  <2>2. x \in Task /\ x.pc = "called" /\ x.start = 0
    BY <2>1, TaskShapes
  <2>3. /\ task' \in [Sessions -> [Tasks -> Task]]
        /\ task'[s]["error"] = x
        /\ \A u \in Tasks : u # "error" => task'[s][u] = task[s][u]
        /\ \A r \in Sessions : r # s => task'[r] = task[r]
    BY <1>1, <1>3, <1>7, <2>1, <2>2, TaskUpdate
  <2>4. ServeInv(s)'
    <3>1. \A c \in Boxes : Heeded(c, s)'
      BY <2>2, <2>3 DEF Heeded
    <3>2. \A u \in Tasks : Up(s, u)' => task'[s][u].box \in Boxes
      <4>1. \A u \in Tasks : Up(s, u)' => u # "error" /\ task[s][u].pc \in Busy
        BY <2>2, <2>3 DEF Up, Busy
      <4> QED
        BY <1>2, <2>3, <4>1 DEF SessionInv, TaskInv
    <3>3. \E u \in Tasks : task'[s][u].pc # "idle"
      BY <1>3, <2>2, <2>3
    <3>4. ASSUME NEW u \in Tasks, Up(s, u)'
          PROVE  Heeded(task[s][u].box, s)'
      <4>1. PICK c \in Boxes : c = task'[s][u].box
        BY <3>2, <3>4
      <4> QED
        BY <3>1, <4>1
    <3> QED
      BY <3>3, <3>4 DEF ServeInv
  <2>5. pending_ready'[s] = "none"
    BY <1>7, <1>c
  <2>6. Clean(s)' => \A u \in Tasks : task[s][u].pc = "wait" =>
              (task'[s][u].verdict \in {"err", "unsent"} => Quiet(s))
    <3>1. \A u \in Tasks : task[s][u].pc = "wait" => u # "error"
      BY <1>7
    <3> QED
      BY <1>1, <1>2, <1>7, <2>3, <3>1 DEF Clean, SessionInv, RunInv
  <2>7. \A u \in Tasks :
              \/ task'[s][u] = task[s][u]
              \/ /\ u = "error" /\ task[s][u].pc = "idle"
                 /\ task'[s][u].pc = "called" /\ task'[s][u].start = 0
    BY <1>7, <2>2, <2>3
  <2>8. pending_ready' \in [Sessions -> Tasks \cup {"none"}]
        /\ misread \subseteq misread'
        /\ \A r \in Sessions : r # s => task'[r] = task[r] /\ pending_ready'[r] = pending_ready[r]
                               /\ (r \in misread' <=> r \in misread)
    BY <1>3, <1>7, <2>3
  <2> QED
    BY <1>1, <1>a, <1>b, <2>3, <2>4, <2>5, <2>6, <2>7, <2>8, ReadKept, SMTT(40)
<1> QED
  BY <1>5, <1>6, <1>7, <1>a, <1>b, <1>c DEF ReadVerdict

(* What every step of a box has in common: a run of s at b comes up, fails or goes,    *)
(* and the hub is told of no start that was not there.                                *)
LEMMA BoxKept ==
    ASSUME FleetInv, FleetTypes', NEW b \in Boxes, NEW s \in Sessions,
           UNCHANGED <<linkVars, state, transcoder, pending_ready, task, sent>>,
           UNCHANGED history,
           peer[b] # 0,
           \A c \in Boxes : c # b => box'[c][s] = box[c][s] /\ Told(c)' = Told(c),
           \A c \in Boxes : \A r \in Sessions : r # s => box'[c][r] = box[c][r],
           box'[b][s].due = box[b][s].due,
           Told(b) \subseteq Told(b)',
           \A x \in Told(b)' : x.session # s => x \in Told(b),
           \A n \in Nat \ {0} : Occurs(b, s, n)' => Occurs(b, s, n),
           box'[b][s].crossed = box[b][s].crossed,
           box'[b][s].waiting \subseteq box[b][s].waiting,
           box'[b][s].stale \subseteq box[b][s].stale,
           box'[b][s].playing \in {0, box[b][s].playing} \cup box[b][s].waiting,
           Running(b, s)' => Running(b, s),
           Clean(s) /\ box'[b][s].playing # 0 => box'[b][s].waiting = {},
           Clean(s) /\ Failing(b, s, sent[s])' /\ sent[s] \notin box[b][s].stale =>
              Failing(b, s, sent[s]) \/ (Running(b, s) /\ ~Running(b, s)'),
           \/ box'[b][s].playing # 0
           \/ Erring(b, s)'
           \/ box'[b][s].playing = box[b][s].playing /\ Told(b)' = Told(b)
    PROVE  FleetInv'
<1>0. FleetTypes /\ LinkInv /\ SessionInv(s)
  BY DEF FleetInv
<1>1. \A r \in Sessions : SameHistory(r)
  BY DEF SameHistory, history
<1>2. (Clean(s)' <=> Clean(s)) /\ (Known(s)' <=> Known(s)) /\ raced' = raced
  BY DEF Clean, Known, history
<1>3. ASSUME NEW r \in Sessions, r # s
      PROVE  Aside(r)
  <2>1. \A c \in Boxes : \A x : x.session = r => (x \in Told(c)' <=> x \in Told(c))
    BY <1>3
  <2> QED
    BY <1>1, <1>3, <2>1 DEF Aside
<1>4. TaskInv(s)' /\ AloneInv(s)'
  BY <1>0, <1>2 DEF SessionInv, TaskInv, AloneInv, Seeking, linkVars
<1>5. StartInv(s)'
  <2>1. ASSUME NEW c \in Boxes, NEW n \in Nat \ {0}, Occurs(c, s, n)'
        PROVE  Occurs(c, s, n)
    <3>1. CASE c = b
      BY <2>1, <3>1
    <3>2. CASE c # b
      BY <2>1, <3>2 DEF Occurs
    <3> QED
      BY <3>1, <3>2
  <2>2. peer' = peer /\ sent'[s] = sent[s] /\ task'[s] = task[s]
    BY DEF linkVars
  <2> QED
    BY <1>0, <2>1, <2>2, StartKept DEF SessionInv
<1>6. \A c \in Boxes : Running(c, s)' => Running(c, s)
  <2>1. \A c \in Boxes : c # b => (Running(c, s)' <=> Running(c, s))
    BY DEF Running
  <2> QED
    BY <2>1
<1>7. RunInv(s)'
  <2>1. ASSUME Clean(s), NEW t \in Tasks, task[s][t].pc = "wait",
               NEW c \in Boxes, Failing(c, s, sent[s])'
        PROVE  Quiet(s)'
    <3>0. sent[s] \notin box[b][s].stale /\ (\A d \in Boxes : Running(d, s) => d = task[s][t].box)
          /\ (\A d \in Boxes : Failing(d, s, sent[s]) => Quiet(s))
      BY <1>0, <2>1 DEF SessionInv, RunInv
    <3>1. CASE Failing(c, s, sent[s])
      BY <1>6, <3>0, <3>1 DEF Quiet
    <3>2. CASE ~Failing(c, s, sent[s])
      <4>1. c = b
        BY <2>1, <3>2 DEF Failing
      <4>2. Running(b, s) /\ ~Running(b, s)'
        BY <2>1, <3>0, <3>2, <4>1
      <4> QED
        BY <1>6, <3>0, <4>2 DEF Quiet
    <3> QED
      BY <3>1, <3>2
  <2>2. Clean(s)' => \A t \in Tasks : task[s][t].pc = "wait" =>
              /\ task'[s][t].verdict \in {"err", "unsent"} => Quiet(s)'
              /\ \A c \in Boxes : Failing(c, s, sent[s])' => Quiet(s)'
    <3>1. Quiet(s) => Quiet(s)'
      BY <1>6 DEF Quiet
    <3>2. Clean(s) => \A t \in Tasks : task[s][t].pc = "wait" =>
              (task[s][t].verdict \in {"err", "unsent"} => Quiet(s))
      BY <1>0 DEF SessionInv, RunInv
    <3>3. task'[s] = task[s]
      OBVIOUS
    <3> QED
      BY <1>2, <2>1, <3>1, <3>2, <3>3
  <2>3. \A c \in Boxes :
              /\ box'[c][s].crossed = box[c][s].crossed
              /\ box'[c][s].waiting \subseteq box[c][s].waiting
              /\ box'[c][s].stale \subseteq box[c][s].stale
              /\ box'[c][s].playing \in {0, box[c][s].playing} \cup box[c][s].waiting
    OBVIOUS
  <2>4. \A c \in Boxes : Clean(s)' /\ box'[c][s].playing # 0 => box'[c][s].waiting = {}
    BY <1>0, <1>2 DEF SessionInv, RunInv
  <2>5. sent'[s] = sent[s] /\ transcoder'[s] = transcoder[s] /\ state'[s] = state[s]
        /\ task'[s] = task[s]
    OBVIOUS
  <2>6. RunInv(s) /\ (Clean(s)' => Clean(s))
    BY <1>0, <1>2 DEF SessionInv
  <2> QED
    BY <1>6, <2>2, <2>3, <2>4, <2>5, <2>6, RunMono
<1>8. ServeInv(s)'
  <2> SUFFICES ASSUME Known(s)
               PROVE  ServeInv(s)'
    BY <1>2 DEF ServeInv
  <2>0. task' = task /\ peer' = peer /\ watched' = watched /\ transcoder' = transcoder /\ state' = state
        /\ pending_ready' = pending_ready
    BY DEF linkVars
  <2>1. \A c \in Boxes : c # b => (Erring(c, s)' <=> Erring(c, s)) /\ (Heeded(c, s)' <=> Heeded(c, s))
    BY DEF Erring, Heeded
  <2>2. Heeded(b, s) => Heeded(b, s)'
    BY DEF Heeded, Erring
  <2>3. box'[b][s].playing # 0 \/ Erring(b, s)' => Heeded(b, s)'
    BY DEF Heeded
  <2>4. ASSUME NEW t \in Tasks, Up(s, t)', task'[s][t].link # 0,
               task'[s][t].link = peer'[task'[s][t].box]
        PROVE  Heeded(task[s][t].box, s)'
    <3>1. PICK c \in Boxes : c = task[s][t].box /\ c = task'[s][t].box
      BY <1>0, <2>0, <2>4 DEF Up, SessionInv, TaskInv, Busy
    <3>2. Told(c)' = Told(c) => Up(s, t)
      BY <2>0, <2>4, <3>1 DEF Up
    <3>3. Told(c)' = Told(c) => Heeded(c, s)
      BY <1>0, <2>0, <2>4, <3>1, <3>2 DEF SessionInv, ServeInv
    <3>4. Heeded(c, s)'
      BY <2>1, <2>2, <2>3, <3>3
    <3> QED
      BY <3>1, <3>4
  <2>5. ASSUME state[s] = "active"
        PROVE  \/ \E t \in Tasks : task'[s][t].pc # "idle"
               \/ box'[transcoder'[s]][s].playing # 0
               \/ Erring(transcoder[s], s)'
               \/ watched'[transcoder'[s]] \ {peer'[transcoder'[s]]} # {}
    <3>1. PICK c \in Boxes : c = transcoder[s] /\ c = transcoder'[s]
      BY <1>0, <2>0, <2>5 DEF SessionInv, TaskInv
    <3>2. \/ \E t \in Tasks : task[s][t].pc # "idle"
          \/ box[c][s].playing # 0
          \/ Erring(c, s)
          \/ watched[c] \ {peer[c]} # {}
      BY <1>0, <2>5, <3>1 DEF SessionInv, ServeInv
    <3>3. Told(b)' = Told(b) => (Erring(b, s)' <=> Erring(b, s))
      BY DEF Erring
    <3>4. \/ \E t \in Tasks : task'[s][t].pc # "idle"
          \/ box'[c][s].playing # 0
          \/ Erring(c, s)'
          \/ watched'[c] \ {peer'[c]} # {}
      <4>1. CASE c = b
        BY <2>0, <3>2, <3>3, <4>1
      <4>2. CASE c # b
        BY <2>0, <2>1, <3>2, <4>2
      <4> QED
        BY <4>1, <4>2
    <3> QED
      BY <3>1, <3>4
  <2> QED
    BY <2>0, <2>4, <2>5 DEF ServeInv
<1>9. SessionInv(s)'
  BY <1>4, <1>5, <1>7, <1>8 DEF SessionInv
<1>10. /\ \A c \in Boxes : peer[c] = 0 => Told(c)' = Told(c)
       /\ \A c \in Boxes : peer[c] = 0 => box'[c][s] = box[c][s]
       /\ \A c \in Boxes : box'[c][s].due = box[c][s].due
       /\ UNCHANGED linkVars
  OBVIOUS
<1> QED
  BY <1>3, <1>9, <1>10, SessionStep

(* A box with anything of a session has its link.                                     *)
LEMMA LinkedBox ==
    ASSUME FleetInv, NEW b \in Boxes, NEW s \in Sessions,
           box[b][s].waiting \cup box[b][s].stale # {} \/ box[b][s].playing # 0
    PROVE  peer[b] # 0
<1>1. Contract!IdleBox.waiting = {} /\ Contract!IdleBox.stale = {} /\ Contract!IdleBox.playing = 0
  BY DEF Contract!IdleBox
<1> QED
  BY <1>1 DEF FleetInv, LinkInv

(* The box and the verdicts that a step writes have their types.                      *)
LEMMA BoxWrite ==
    ASSUME FleetInv, NEW b \in Boxes, NEW s \in Sessions, NEW y \in Contract!Box,
           box' = [box EXCEPT ![b][s] = y], back' \in [Boxes -> Seq(Verdict)],
           UNCHANGED <<linkVars, tc_load, state, transcoder, pending_ready, task, sent>>
    PROVE  /\ FleetTypes'
           /\ box[b][s] \in Contract!Box
           /\ box'[b][s] = y
           /\ \A c \in Boxes : c # b => box'[c][s] = box[c][s]
           /\ \A c \in Boxes : \A r \in Sessions : r # s => box'[c][r] = box[c][r]
<1>1. box \in [Boxes -> [Sessions -> Contract!Box]] /\ FleetTypes
  BY DEF FleetInv, FleetTypes
<1>2. /\ box' \in [Boxes -> [Sessions -> Contract!Box]]
      /\ box'[b][s] = y
      /\ \A c \in Boxes : c # b => box'[c][s] = box[c][s]
      /\ \A c \in Boxes : \A r \in Sessions : r # s => box'[c][r] = box[c][r]
  BY <1>1, BoxUpdate
<1>3. FleetTypes'
  BY <1>1, <1>2 DEF FleetTypes, linkVars
<1> QED
  BY <1>1, <1>2, <1>3

(* A start comes up.                                                                  *)
LEMMA BoxReadyStep ==
    ASSUME FleetInv, NEW b \in Boxes, NEW s \in Sessions, NEW n \in 1..MaxStarts,
           BoxReady(b, s, n)
    PROVE  FleetInv'
<1>0. FleetTypes /\ LinkInv /\ SessionInv(s) /\ box[b][s] \in Contract!Box /\ n \in Nat \ {0}
  BY FleetAssumption DEF FleetInv, FleetTypes
<1>1. /\ n \in box[b][s].waiting
      /\ box' = [box EXCEPT ![b][s] = Contract!Announced(Contract!Readied(@, n), n)]
      /\ UNCHANGED <<linkVars, tc_load, state, transcoder, pending_ready, task, sent>>
      /\ UNCHANGED history
  BY DEF BoxReady, Contract!MayPlay
<1>2. PICK y : y = Contract!Announced(Contract!Readied(box[b][s], n), n)
  OBVIOUS
<1>3. /\ y \in Contract!Box
      /\ y.waiting = box[b][s].waiting \ {n} /\ y.stale = box[b][s].stale
      /\ y.due = box[b][s].due /\ y.playing = n /\ y.crossed = box[b][s].crossed
  <2>1. box[b][s].due = {}
    BY <1>0 DEF LinkInv
  <2> QED
    BY <1>0, <1>2, <2>1, ReadyShape
<1>4. box' = [box EXCEPT ![b][s] = y]
  BY <1>0, <1>1, <1>2 DEF FleetTypes
<1>5. PICK ready \in BOOLEAN : ready = TRUE
  OBVIOUS
<1>6. PICK m : m = [session |-> s, start |-> n, ready |-> ready]
  OBVIOUS
<1>7. m.session = s /\ m.start = n /\ m.ready
  BY <1>5, <1>6
<1>8. /\ back' \in [Boxes -> Seq(Verdict)]
      /\ Told(b)' = Told(b) \cup {m}
      /\ \A c \in Boxes : c # b => Told(c)' = Told(c)
  <2>1. Tell(b, s, n, ready)
    BY <1>5 DEF BoxReady
  <2> QED
    BY <1>0, <1>6, <2>1, ToldMore
<1>9. /\ FleetTypes'
      /\ box'[b][s] = y
      /\ \A c \in Boxes : c # b => box'[c][s] = box[c][s]
      /\ \A c \in Boxes : \A r \in Sessions : r # s => box'[c][r] = box[c][r]
  <2>1. UNCHANGED <<linkVars, tc_load, state, transcoder, pending_ready, task, sent>>
    BY <1>1
  <2>2. y \in Contract!Box /\ back' \in [Boxes -> Seq(Verdict)]
    BY <1>3, <1>8
  <2>3. box \in [Boxes -> [Sessions -> Contract!Box]]
    BY <1>0 DEF FleetTypes
  <2> QED
    BY <1>4, <2>1, <2>2, <2>3, BoxWrite, ZenonT(40)
<1>10. peer[b] # 0
  BY <1>1, LinkedBox
<1>11. \A k \in Nat \ {0} : Occurs(b, s, k)' => Occurs(b, s, k)
  BY <1>1, <1>3, <1>7, <1>8, <1>9 DEF Occurs
<1>12. Clean(s) => box'[b][s].waiting = {}
  BY <1>0, <1>1, <1>3, <1>9 DEF SessionInv, RunInv
<1>13. Running(b, s)
  BY <1>1 DEF Running
<1>14. Failing(b, s, sent[s])' => Failing(b, s, sent[s])
  BY <1>1, <1>7, <1>8 DEF Failing
<1>15. /\ Told(b) \subseteq Told(b)'
       /\ \A x \in Told(b)' : x.session # s => x \in Told(b)
       /\ box'[b][s].playing # 0
       /\ box'[b][s].due = box[b][s].due
       /\ box'[b][s].crossed = box[b][s].crossed
       /\ box'[b][s].waiting \subseteq box[b][s].waiting
       /\ box'[b][s].stale \subseteq box[b][s].stale
       /\ box'[b][s].playing \in {0, box[b][s].playing} \cup box[b][s].waiting
  BY <1>0, <1>1, <1>3, <1>7, <1>8, <1>9
<1> QED
  BY <1>1, <1>8, <1>9, <1>10, <1>11, <1>12, <1>13, <1>14, <1>15, BoxKept

(* A start fails.                                                                     *)
LEMMA BoxFailsStep ==
    ASSUME FleetInv, NEW b \in Boxes, NEW s \in Sessions, NEW n \in 1..MaxStarts,
           BoxFails(b, s, n)
    PROVE  FleetInv'
<1>0. FleetTypes /\ LinkInv /\ SessionInv(s) /\ box[b][s] \in Contract!Box /\ n \in Nat \ {0}
  BY FleetAssumption DEF FleetInv, FleetTypes
<1>1. /\ n \in box[b][s].waiting \cup box[b][s].stale
      /\ box' = [box EXCEPT ![b][s] = Contract!Stopped(Contract!Failed(@, n))]
      /\ UNCHANGED <<linkVars, tc_load, state, transcoder, pending_ready, task, sent>>
      /\ UNCHANGED history
  BY DEF BoxFails
<1>2. PICK y : y = Contract!Stopped(Contract!Failed(box[b][s], n))
  OBVIOUS
<1>3. /\ y \in Contract!Box
      /\ y.waiting = box[b][s].waiting \ {n} /\ y.stale = box[b][s].stale \ {n}
      /\ y.due = box[b][s].due /\ y.playing = 0 /\ y.crossed = box[b][s].crossed
  BY <1>0, <1>2, FailShape
<1>4. box' = [box EXCEPT ![b][s] = y]
  BY <1>0, <1>1, <1>2 DEF FleetTypes
<1>5. PICK ready \in BOOLEAN : ready = FALSE
  OBVIOUS
<1>6. PICK m : m = [session |-> s, start |-> n, ready |-> ready]
  OBVIOUS
<1>7. m.session = s /\ m.start = n /\ ~m.ready
  BY <1>5, <1>6
<1>8. /\ back' \in [Boxes -> Seq(Verdict)]
      /\ Told(b)' = Told(b) \cup {m}
      /\ \A c \in Boxes : c # b => Told(c)' = Told(c)
  <2>1. Tell(b, s, n, ready)
    BY <1>5 DEF BoxFails
  <2> QED
    BY <1>0, <1>6, <2>1, ToldMore
<1>9. /\ FleetTypes'
      /\ box'[b][s] = y
      /\ \A c \in Boxes : c # b => box'[c][s] = box[c][s]
      /\ \A c \in Boxes : \A r \in Sessions : r # s => box'[c][r] = box[c][r]
  <2>1. UNCHANGED <<linkVars, tc_load, state, transcoder, pending_ready, task, sent>>
    BY <1>1
  <2>2. y \in Contract!Box /\ back' \in [Boxes -> Seq(Verdict)]
    BY <1>3, <1>8
  <2>3. box \in [Boxes -> [Sessions -> Contract!Box]]
    BY <1>0 DEF FleetTypes
  <2> QED
    BY <1>4, <2>1, <2>2, <2>3, BoxWrite, ZenonT(40)
<1>10. peer[b] # 0
  BY <1>1, LinkedBox
<1>11. \A k \in Nat \ {0} : Occurs(b, s, k)' => Occurs(b, s, k)
  BY <1>1, <1>3, <1>7, <1>8, <1>9 DEF Occurs
<1>12. Running(b, s)' => Running(b, s)
  BY <1>3, <1>9 DEF Running
<1>13. Erring(b, s)'
  BY <1>7, <1>8 DEF Erring
<1>14. Clean(s) /\ Failing(b, s, sent[s])' /\ sent[s] \notin box[b][s].stale =>
          Failing(b, s, sent[s]) \/ (Running(b, s) /\ ~Running(b, s)')
  <2> SUFFICES ASSUME Clean(s), Failing(b, s, sent[s])', sent[s] \notin box[b][s].stale,
                      ~Failing(b, s, sent[s])
               PROVE  Running(b, s) /\ ~Running(b, s)'
    OBVIOUS
  <2>1. n = sent[s]
    BY <1>1, <1>7, <1>8 DEF Failing
  <2>2. n \in box[b][s].waiting
    BY <1>1, <2>1
  <2>3. box[b][s].waiting \subseteq {sent[s]}
    BY <1>0 DEF SessionInv, RunInv
  <2> QED
    BY <1>3, <1>9, <2>1, <2>2, <2>3 DEF Running
<1>15. /\ Told(b) \subseteq Told(b)'
       /\ \A x \in Told(b)' : x.session # s => x \in Told(b)
       /\ box'[b][s].playing = 0
       /\ box'[b][s].due = box[b][s].due
       /\ box'[b][s].crossed = box[b][s].crossed
       /\ box'[b][s].waiting \subseteq box[b][s].waiting
       /\ box'[b][s].stale \subseteq box[b][s].stale
       /\ box'[b][s].playing \in {0, box[b][s].playing} \cup box[b][s].waiting
  BY <1>0, <1>1, <1>3, <1>7, <1>8, <1>9
<1> QED
  BY <1>1, <1>8, <1>9, <1>10, <1>11, <1>12, <1>13, <1>14, <1>15, BoxKept

(* A start goes quietly.                                                              *)
LEMMA BoxDropsStep ==
    ASSUME FleetInv, NEW b \in Boxes, NEW s \in Sessions, NEW n \in 1..MaxStarts,
           BoxDrops(b, s, n)
    PROVE  FleetInv'
<1>0. FleetTypes /\ LinkInv /\ SessionInv(s) /\ box[b][s] \in Contract!Box /\ n \in Nat \ {0}
  BY FleetAssumption DEF FleetInv, FleetTypes
<1>1. /\ n \in box[b][s].waiting \cup box[b][s].stale
      /\ box' = [box EXCEPT ![b][s] = Contract!Vanished(Contract!GivenUp(@, {n}), n)]
      /\ UNCHANGED <<linkVars, tc_load, state, transcoder, pending_ready, task, sent>>
      /\ UNCHANGED <<history, back>>
  BY DEF BoxDrops
<1>2. PICK y : y = Contract!Vanished(Contract!GivenUp(box[b][s], {n}), n)
  OBVIOUS
<1>3. /\ y \in Contract!Box
      /\ y.waiting = box[b][s].waiting \ {n} /\ y.stale \subseteq box[b][s].stale
      /\ y.due = box[b][s].due /\ y.playing = box[b][s].playing /\ y.crossed = box[b][s].crossed
  <2>1. box[b][s].due = {}
    BY <1>0 DEF LinkInv
  <2> QED
    BY <1>0, <1>2, <2>1, DropShape
<1>4. box' = [box EXCEPT ![b][s] = y]
  BY <1>0, <1>1, <1>2 DEF FleetTypes
<1>8. back' \in [Boxes -> Seq(Verdict)] /\ \A c \in Boxes : Told(c)' = Told(c)
  BY <1>0, <1>1 DEF FleetTypes, Told
<1>9. /\ FleetTypes'
      /\ box'[b][s] = y
      /\ \A c \in Boxes : c # b => box'[c][s] = box[c][s]
      /\ \A c \in Boxes : \A r \in Sessions : r # s => box'[c][r] = box[c][r]
  <2>1. UNCHANGED <<linkVars, tc_load, state, transcoder, pending_ready, task, sent>>
    BY <1>1
  <2>2. y \in Contract!Box /\ back' \in [Boxes -> Seq(Verdict)]
    BY <1>3, <1>8
  <2>3. box \in [Boxes -> [Sessions -> Contract!Box]]
    BY <1>0 DEF FleetTypes
  <2> QED
    BY <1>4, <2>1, <2>2, <2>3, BoxWrite, ZenonT(40)
<1>10. peer[b] # 0
  BY <1>1, LinkedBox
<1>11. \A k \in Nat \ {0} : Occurs(b, s, k)' => Occurs(b, s, k)
  BY <1>1, <1>3, <1>8, <1>9 DEF Occurs
<1>12. Running(b, s)' => Running(b, s)
  BY <1>3, <1>9 DEF Running
<1>13. Clean(s) /\ box'[b][s].playing # 0 => box'[b][s].waiting = {}
  BY <1>0, <1>3, <1>9 DEF SessionInv, RunInv
<1>14. Failing(b, s, sent[s])' => Failing(b, s, sent[s])
  BY <1>1, <1>8 DEF Failing
<1>15. /\ Told(b)' = Told(b)
       /\ box'[b][s].playing = box[b][s].playing
       /\ box'[b][s].due = box[b][s].due
       /\ box'[b][s].crossed = box[b][s].crossed
       /\ box'[b][s].waiting \subseteq box[b][s].waiting
       /\ box'[b][s].stale \subseteq box[b][s].stale
  BY <1>3, <1>8, <1>9
<1>16. /\ UNCHANGED <<linkVars, state, transcoder, pending_ready, task, sent>>
       /\ UNCHANGED history
  BY <1>1
<1>17. \A c \in Boxes : c # b => box'[c][s] = box[c][s] /\ Told(c)' = Told(c)
  BY <1>8, <1>9
<1>18. /\ Told(b) \subseteq Told(b)'
       /\ \A x \in Told(b)' : x.session # s => x \in Told(b)
       /\ box'[b][s].playing \in {0, box[b][s].playing} \cup box[b][s].waiting
  BY <1>15
<1> QED
  BY <1>9, <1>10, <1>11, <1>12, <1>13, <1>14, <1>15, <1>16, <1>17, <1>18, BoxKept

(* A worker dies.                                                                     *)
LEMMA WorkerDiesStep ==
    ASSUME FleetInv, NEW b \in Boxes, NEW s \in Sessions, WorkerDies(b, s)
    PROVE  FleetInv'
<1>0. FleetTypes /\ LinkInv /\ SessionInv(s) /\ box[b][s] \in Contract!Box
  BY DEF FleetInv, FleetTypes
<1>a. PICK n : n = box[b][s].playing
  OBVIOUS
<1>1. /\ n # 0
      /\ box' = [box EXCEPT ![b][s] = Contract!Stopped(@)]
      /\ UNCHANGED <<linkVars, tc_load, state, transcoder, pending_ready, task, sent>>
      /\ UNCHANGED history
  BY <1>a DEF WorkerDies
<1>b. n \in Nat \ {0}
  BY <1>0, <1>1, <1>a, FleetAssumption DEF Contract!Box
<1>2. PICK y : y = Contract!Stopped(box[b][s])
  OBVIOUS
<1>3. /\ y \in Contract!Box
      /\ y.waiting = box[b][s].waiting /\ y.stale = box[b][s].stale
      /\ y.due = box[b][s].due /\ y.playing = 0 /\ y.crossed = box[b][s].crossed
  BY <1>0, <1>2, StopShape
<1>4. box' = [box EXCEPT ![b][s] = y]
  BY <1>0, <1>1, <1>2 DEF FleetTypes
<1>5. PICK ready \in BOOLEAN : ready = FALSE
  OBVIOUS
<1>6. PICK m : m = [session |-> s, start |-> n, ready |-> ready]
  OBVIOUS
<1>7. m.session = s /\ m.start = n /\ ~m.ready
  BY <1>5, <1>6
<1>8. /\ back' \in [Boxes -> Seq(Verdict)]
      /\ Told(b)' = Told(b) \cup {m}
      /\ \A c \in Boxes : c # b => Told(c)' = Told(c)
  <2>1. Tell(b, s, n, ready)
    BY <1>5, <1>a DEF WorkerDies
  <2> QED
    BY <1>0, <1>6, <1>b, <2>1, ToldMore
<1>9. /\ FleetTypes'
      /\ box'[b][s] = y
      /\ \A c \in Boxes : c # b => box'[c][s] = box[c][s]
      /\ \A c \in Boxes : \A r \in Sessions : r # s => box'[c][r] = box[c][r]
  <2>1. UNCHANGED <<linkVars, tc_load, state, transcoder, pending_ready, task, sent>>
    BY <1>1
  <2>2. y \in Contract!Box /\ back' \in [Boxes -> Seq(Verdict)]
    BY <1>3, <1>8
  <2>3. box \in [Boxes -> [Sessions -> Contract!Box]]
    BY <1>0 DEF FleetTypes
  <2> QED
    BY <1>4, <2>1, <2>2, <2>3, BoxWrite, ZenonT(40)
<1>10. peer[b] # 0
  BY <1>1, <1>a, LinkedBox
<1>11. \A k \in Nat \ {0} : Occurs(b, s, k)' => Occurs(b, s, k)
  BY <1>1, <1>3, <1>7, <1>8, <1>9, <1>a DEF Occurs
<1>12. Running(b, s)' => Running(b, s)
  BY <1>3, <1>9 DEF Running
<1>13. Erring(b, s)'
  BY <1>7, <1>8 DEF Erring
<1>14. Clean(s) => Running(b, s) /\ ~Running(b, s)'
  BY <1>0, <1>1, <1>3, <1>9, <1>a DEF SessionInv, RunInv, Running
<1>15. /\ Told(b) \subseteq Told(b)'
       /\ \A x \in Told(b)' : x.session # s => x \in Told(b)
       /\ box'[b][s].playing = 0
       /\ box'[b][s].due = box[b][s].due
       /\ box'[b][s].crossed = box[b][s].crossed
       /\ box'[b][s].waiting \subseteq box[b][s].waiting
       /\ box'[b][s].stale \subseteq box[b][s].stale
       /\ box'[b][s].playing \in {0, box[b][s].playing} \cup box[b][s].waiting
  BY <1>0, <1>1, <1>3, <1>7, <1>8, <1>9
<1> QED
  BY <1>1, <1>8, <1>9, <1>10, <1>11, <1>12, <1>13, <1>14, <1>15, BoxKept

-----------------------------------------------------------------------------
(* The invariant holds, and what follows from it.                                     *)

(* Initially every link stands and there is no session.                               *)
LEMMA FleetInit ==
    ASSUME Init
    PROVE  FleetInv
<1>1. /\ Contract!IdleBox.waiting = {} /\ Contract!IdleBox.stale = {} /\ Contract!IdleBox.due = {}
      /\ Contract!IdleBox.playing = 0 /\ Contract!IdleBox.crossed = {}
      /\ Contract!IdleBox \in Contract!Box
  BY DEF Contract!IdleBox, Contract!Box
<1>2. Idle \in Task /\ Idle.pc = "idle" /\ Idle.start = 0
  BY TaskShapes
<1>3. FleetTypes
  <2>1. 0 \in 0..MaxSessions /\ 1 \in 0..MaxLinks /\ 0 \in 0..MaxStarts /\ 1 \in Nat
    BY FleetAssumption
  <2>2. <<>> \in Seq(Verdict)
    OBVIOUS
  <2>3. box \in [Boxes -> [Sessions -> Contract!Box]]
    BY <1>1 DEF Init
  <2>4. task \in [Sessions -> [Tasks -> Task]]
    BY <1>2 DEF Init
  <2>5. back \in [Boxes -> Seq(Verdict)]
    BY <2>2 DEF Init
  <2> QED
    BY <2>1, <2>3, <2>4, <2>5 DEF Init, FleetTypes
<1>4. \A b \in Boxes : Told(b) = {} /\ \A s \in Sessions : box[b][s] = Contract!IdleBox
  <2>1. DOMAIN <<>> = {}
    OBVIOUS
  <2> QED
    BY <2>1 DEF Init, Told
<1>5. LinkInv
  <2>1. \A b \in Boxes : peer[b] = 1 /\ tc_links[b] = 1 /\ watched[b] = {1} /\ opened[b] = 1
    BY DEF Init
  <2>2. {1} \subseteq 1..1 /\ 1 <= 1
    OBVIOUS
  <2> QED
    BY <1>1, <1>4, <2>1, <2>2 DEF LinkInv
<1>6. ASSUME NEW s \in Sessions
      PROVE  SessionInv(s)
  <2>1. /\ state[s] = "none" /\ transcoder[s] = NoBox /\ pending_ready[s] = "none" /\ sent[s] = 0
        /\ \A t \in Tasks : task[s][t] = Idle
    BY <1>6 DEF Init
  <2>2. "start" \in Tasks /\ "seek" \in Tasks /\ Movers \subseteq Tasks
    BY DEF Tasks, Movers
  <2>3. \A t \in Tasks : task[s][t].pc = "idle" /\ task[s][t].start = 0
    BY <1>2, <2>1
  <2>4. TaskInv(s)
    <3>1. 0 <= 0
      OBVIOUS
    <3> QED
      BY <2>1, <2>2, <2>3, <3>1 DEF TaskInv, Seeking, Busy
  <2>5. AloneInv(s)
    BY <2>2, <2>3 DEF AloneInv, Seeking, Busy
  <2>6. StartInv(s)
    BY <1>1, <1>4 DEF StartInv, Occurs
  <2>7. RunInv(s)
    BY <1>1, <1>4, <2>3 DEF RunInv, Running
  <2>8. ServeInv(s)
    BY <2>1, <2>3 DEF ServeInv, Up
  <2> QED
    BY <2>4, <2>5, <2>6, <2>7, <2>8 DEF SessionInv
<1> QED
  BY <1>3, <1>5, <1>6 DEF FleetInv

(* Every step keeps it.                                                               *)
LEMMA FleetNext ==
    ASSUME FleetInv, [Next]_vars
    PROVE  FleetInv'
<1>1. ASSUME NEW s \in Sessions, NEW b \in Boxes, Place(s, b)
      PROVE  FleetInv'
  BY <1>1, PlaceStep
<1>2. ASSUME NEW s \in Sessions, Abandon(s)
      PROVE  FleetInv'
  BY <1>2, AbandonStep
<1>3. ASSUME NEW s \in Sessions, BeginSeek(s)
      PROVE  FleetInv'
  BY <1>3, BeginSeekStep
<1>4. ASSUME NEW s \in Sessions, BeginEnd(s)
      PROVE  FleetInv'
  BY <1>4, BeginEndStep
<1>5. ASSUME NEW s \in Sessions, FinishEnd(s)
      PROVE  FleetInv'
  BY <1>5, FinishEndStep
<1>6. ASSUME NEW s \in Sessions, NEW t \in Tasks, TaskStep(s, t)
      PROVE  FleetInv'
  <2>1. CASE Dispatch(s, t) \/ DispatchReady(s, t) \/ DispatchRetried(s, t)
    BY <2>1, DispatchStep, DispatchReadyStep, DispatchRetriedStep
  <2>2. CASE StartFailed(s) \/ Publish(s) \/ SeekFailed(s) \/ SeekDropped(s)
    BY <2>2, StartFailedStep, PublishStep, SeekFailedStep, SeekDroppedStep
  <2>3. CASE t \in Movers /\ (BeginMove(s, t) \/ MoveFailed(s, t) \/ EndAfterMove(s, t))
    BY <2>3, BeginMoveStep, MoveFailedStep, EndAfterMoveStep
  <2> QED
    BY <1>6, <2>1, <2>2, <2>3 DEF TaskStep
<1>7. ASSUME NEW b \in Boxes, LinkLost(b) \/ Reconnect(b) \/ ReadVerdict(b)
      PROVE  FleetInv'
  BY <1>7, LinkLostStep, ReconnectStep, ReadVerdictStep
<1>8. ASSUME NEW b \in Boxes, BoxStep(b)
      PROVE  FleetInv'
  BY <1>8, BoxReadyStep, BoxFailsStep, BoxDropsStep DEF BoxStep
<1>9. ASSUME NEW b \in Boxes, NEW l \in 1..MaxLinks, Teardown(b, l)
      PROVE  FleetInv'
  BY <1>9, TeardownStep
<1>10. ASSUME NEW b \in Boxes, NEW s \in Sessions, WorkerDies(b, s)
       PROVE  FleetInv'
  BY <1>10, WorkerDiesStep
<1>11. CASE UNCHANGED vars
  <2>1. UNCHANGED <<peer, opened, tc_links, watched, tc_load, back, box, state, transcoder,
                    pending_ready, task, sent, raced, misread, needless, late, told>>
    BY <1>11 DEF vars, linkVars, boxVars, history
  <2>a. FleetTypes'
    BY <2>1 DEF FleetInv, FleetTypes
  <2>b. LinkInv'
    BY <2>1 DEF FleetInv, LinkInv, Told
  <2>2. FleetTypes' /\ LinkInv' /\ UNCHANGED linkVars
    BY <2>1, <2>a, <2>b DEF linkVars
  <2>3. ASSUME NEW s \in Sessions
        PROVE  Aside(s)
    BY <2>1 DEF Aside, SameHistory, Told
  <2>4. \A s \in Sessions : SessionInv(s)'
    BY <2>2, <2>3, AsideKept DEF FleetInv
  <2> QED
    BY <2>2, <2>4 DEF FleetInv
<1> QED
  BY <1>1, <1>2, <1>3, <1>4, <1>5, <1>6, <1>7, <1>8, <1>9, <1>10, <1>11 DEF Next

(* The fleet's inductive invariant.                                                    *)
THEOREM FleetInvariant == Spec => []FleetInv
<1>1. Init => FleetInv
  BY FleetInit
<1>2. FleetInv /\ [Next]_vars => FleetInv'
  BY FleetNext
<1> QED
  BY <1>1, <1>2, PTL DEF Spec

(* Every variable has its type, the sender in pending_ready belongs to a task that     *)
(* waits, and a published session has its transcoder.                                  *)
THEOREM FleetTypeOK == Spec => []TypeOK
<1>1. FleetInv => TypeOK
  <2> SUFFICES ASSUME FleetInv
               PROVE  TypeOK
    OBVIOUS
  <2>1. FleetTypes /\ LinkInv /\ \A s \in Sessions : TaskInv(s)
    BY DEF FleetInv, SessionInv
  <2>2. /\ peer \in [Boxes -> 0..MaxLinks] /\ tc_links \in [Boxes -> 0..MaxLinks]
        /\ \A b \in Boxes : tc_load[b] \in 0..MaxSessions
    BY <2>1 DEF FleetTypes
  <2> QED
    BY <2>1, <2>2 DEF TypeOK, LinkInv, TaskInv
<1> QED
  BY <1>1, FleetInvariant, PTL

(* EndSession is behind the last StartSession of a session that is over: nothing of it *)
(* plays or comes up, at any box, unless it saw a race, a misread verdict or a needless *)
(* reschedule (sessions/mod.rs end, start.rs, reschedule.rs).                           *)
THEOREM FleetNoOrphanRun == Spec => []NoOrphanRun
<1>1. FleetInv => NoOrphanRun
  <2> SUFFICES ASSUME FleetInv, NEW s \in Sessions \ (raced \cup misread \cup needless),
                      NEW b \in Boxes, state[s] = "gone"
               PROVE  box[b][s].playing = 0 /\ box[b][s].waiting \subseteq box[b][s].crossed
    BY DEF NoOrphanRun
  <2>1. SessionInv(s) /\ Clean(s) /\ s \notin raced
    BY DEF FleetInv, Clean
  <2>2. \A t \in Tasks : task[s][t].pc \notin Busy
    BY <2>1 DEF SessionInv, TaskInv, AloneInv, Seeking, Tasks, Movers, Busy
  <2>3. ~Running(b, s)
    BY <2>1, <2>2 DEF SessionInv, RunInv
  <2> QED
    BY <2>3 DEF Running
<1> QED
  BY <1>1, FleetInvariant, PTL

(* A session stays active only while a run, a dispatch, an error on its way or a link  *)
(* that is still to be torn down stands for it (AR-6).                                 *)
THEOREM FleetNoFrozenSession == Spec => []NoFrozenSession
<1>1. FleetInv => NoFrozenSession
  <2> SUFFICES ASSUME FleetInv, NEW s \in Sessions \ (raced \cup misread \cup late \cup told),
                      state[s] = "active"
               PROVE  Served(s)
    BY DEF NoFrozenSession
  <2>1. SessionInv(s) /\ Known(s)
    BY DEF FleetInv, Known
  <2>2. PICK b \in Boxes : b = transcoder[s]
    BY <2>1 DEF SessionInv, TaskInv
  <2>3. \/ \E t \in Tasks : task[s][t].pc # "idle"
        \/ box[b][s].playing # 0
        \/ Erring(b, s)
        \/ watched[b] \ {peer[b]} # {}
    BY <2>1, <2>2 DEF SessionInv, ServeInv
  <2>4. Erring(b, s) => \E i \in DOMAIN back[b] : back[b][i].session = s /\ ~back[b][i].ready
    BY DEF Erring, Told
  <2> QED
    BY <2>2, <2>3, <2>4 DEF Served, Occupied
<1> QED
  BY <1>1, FleetInvariant, PTL

-----------------------------------------------------------------------------
(* The slots.                                                                          *)

(* A set that loses at most x, or gains y for it, against a count that follows.         *)
LEMMA CountKept ==
    ASSUME NEW S, NEW T, IsFiniteSet(S), IsFiniteSet(T), NEW m \in Nat, NEW n \in Nat,
           m <= Cardinality(S), NEW x, NEW y,
           \/ S \subseteq T /\ n <= m
           \/ S \ {x} \subseteq T /\ (n = 0 \/ n < m)
           \/ S \ {x} \subseteq T /\ y \in T /\ y \notin S /\ n <= m
           \/ S \subseteq T /\ y \in T /\ y \notin S /\ n <= m + 1
           \/ y \in T /\ n <= 1
    PROVE  n <= Cardinality(T)
<1>1. Cardinality(S) \in Nat /\ Cardinality(T) \in Nat
  BY FS_CardinalityType
<1>2. \A R : R \subseteq T => IsFiniteSet(R) /\ Cardinality(R) <= Cardinality(T)
  BY FS_Subset
<1>3. IsFiniteSet(S \ {x}) /\ Cardinality(S \ {x}) \in Nat /\ Cardinality(S \ {x}) >= Cardinality(S) - 1
  <2>1. IsFiniteSet(S \ {x})
        /\ Cardinality(S \ {x}) = IF x \in S THEN Cardinality(S) - 1 ELSE Cardinality(S)
    BY FS_RemoveElement
  <2>2. Cardinality(S \ {x}) \in Nat
    BY <2>1, FS_CardinalityType
  <2> QED
    BY <1>1, <2>1, <2>2
<1>4. IsFiniteSet(S \cup {y}) /\ (y \notin S => Cardinality(S \cup {y}) = Cardinality(S) + 1)
  BY FS_AddElement
<1>5. y \notin S => Cardinality((S \ {x}) \cup {y}) >= Cardinality(S)
  <2>1. y \notin S => y \notin S \ {x}
    OBVIOUS
  <2>2. y \notin S \ {x} => Cardinality((S \ {x}) \cup {y}) = Cardinality(S \ {x}) + 1
    BY <1>3, FS_AddElement
  <2> QED
    BY <1>1, <1>3, <2>1, <2>2
<1>6. CASE S \subseteq T /\ n <= m
  BY <1>1, <1>2, <1>6
<1>7. CASE S \ {x} \subseteq T /\ (n = 0 \/ n < m)
  BY <1>1, <1>2, <1>3, <1>7
<1>8. CASE S \ {x} \subseteq T /\ y \in T /\ y \notin S /\ n <= m
  <2>0. (S \ {x}) \cup {y} \subseteq T
    BY <1>8
  <2>1. Cardinality((S \ {x}) \cup {y}) <= Cardinality(T)
    BY <1>2, <2>0
  <2>2. Cardinality((S \ {x}) \cup {y}) \in Nat
    BY <1>2, <2>0, FS_CardinalityType
  <2> QED
    BY <1>1, <1>5, <1>8, <2>1, <2>2
<1>9. CASE S \subseteq T /\ y \in T /\ y \notin S /\ n <= m + 1
  <2>0. S \cup {y} \subseteq T
    BY <1>9
  <2>1. Cardinality(S \cup {y}) <= Cardinality(T)
    BY <1>2, <2>0
  <2> QED
    BY <1>1, <1>4, <1>9, <2>1
<1>10. CASE y \in T /\ n <= 1
  <2>1. Cardinality(T) # 0
    BY <1>10, FS_EmptySet
  <2> QED
    BY <1>1, <1>10, <2>1
<1> QED
  BY <1>6, <1>7, <1>8, <1>9, <1>10

(* Who can have slots is finite.                                                       *)
LEMMA OwnedFinite ==
    /\ IsFiniteSet(Sessions \X Tasks)
    /\ \A b : IsFiniteSet(Owned(b)) /\ IsFiniteSet(Owned(b)')
<1>1. IsFiniteSet(Tasks)
  <2>1. Tasks = {"start"} \cup {"seek"} \cup {"error"} \cup {"loss"}
    BY DEF Tasks
  <2>2. IsFiniteSet({"start"})
    BY FS_Singleton
  <2>3. IsFiniteSet({"start"} \cup {"seek"})
    BY <2>2, FS_AddElement
  <2>4. IsFiniteSet({"start"} \cup {"seek"} \cup {"error"})
    BY <2>3, FS_AddElement
  <2> QED
    BY <2>1, <2>4, FS_AddElement
<1>2. IsFiniteSet(Sessions \X Tasks)
  BY <1>1, FS_Product, FleetAssumption
<1>3. \A b : Owned(b) \subseteq Sessions \X Tasks /\ Owned(b)' \subseteq Sessions \X Tasks
  BY DEF Owned
<1> QED
  BY <1>2, <1>3, FS_Subset

(* What a step of s does to the slots of b, save the one of v.                          *)
Keeps(b, s, v) == \A u \in Tasks \ {v} : Has(b, s, u) => Has(b, s, u)'

Gains(b, s, w) == ~Has(b, s, w) /\ Has(b, s, w)'

SlotCase(b, s) ==
    \/ Keeps(b, s, "none") /\ tc_load'[b] <= tc_load[b]
    \/ \E v \in Tasks : Keeps(b, s, v) /\ (tc_load'[b] = 0 \/ tc_load'[b] < tc_load[b])
    \/ \E v, w \in Tasks : Keeps(b, s, v) /\ Gains(b, s, w) /\ tc_load'[b] <= tc_load[b]
    \/ \E w \in Tasks : Keeps(b, s, "none") /\ Gains(b, s, w) /\ tc_load'[b] <= tc_load[b] + 1
    \/ \E w \in Tasks : Has(b, s, w)' /\ tc_load'[b] <= 1

Unmoved(r) == state'[r] = state[r] /\ transcoder'[r] = transcoder[r] /\ task'[r] = task[r]

(* A step of one session keeps the count.                                               *)
LEMMA SlotStep ==
    ASSUME FleetInv, FleetInv', SlotInv, raced \subseteq raced', NEW s \in Sessions,
           \A r \in Sessions : r # s => Unmoved(r),
           raced' = {} => \A b \in Boxes : SlotCase(b, s)
    PROVE  SlotInv'
<1> SUFFICES ASSUME raced' = {}, NEW b \in Boxes
             PROVE  tc_load'[b] <= Cardinality(Owned(b)')
  BY DEF SlotInv
<1>1. tc_load[b] \in Nat /\ tc_load'[b] \in Nat
  BY FleetAssumption DEF FleetInv, FleetTypes
<1>2. tc_load[b] <= Cardinality(Owned(b)) /\ IsFiniteSet(Owned(b)) /\ IsFiniteSet(Owned(b)')
  BY OwnedFinite DEF SlotInv
<1>3. PICK S : S = Owned(b)
  OBVIOUS
<1>4. PICK T : T = Owned(b)'
  OBVIOUS
<1>5. \A r \in Sessions, u \in Tasks : r # s => (Has(b, r, u)' <=> Has(b, r, u))
  BY DEF Unmoved, Has, Moving
<1>6. /\ \A p \in S : p \in Sessions \X Tasks /\ p = <<p[1], p[2]>> /\ Has(b, p[1], p[2])
      /\ \A r \in Sessions, u \in Tasks : <<r, u>> \in S <=> Has(b, r, u)
      /\ \A r \in Sessions, u \in Tasks : <<r, u>> \in T <=> Has(b, r, u)'
  BY <1>3, <1>4 DEF Owned
<1>7. ASSUME NEW v, Keeps(b, s, v)
      PROVE  S \ {<<s, v>>} \subseteq T
  <2> SUFFICES ASSUME NEW r \in Sessions, NEW u \in Tasks, <<r, u>> \in S, <<r, u>> # <<s, v>>
               PROVE  <<r, u>> \in T
    BY <1>6
  <2>1. Has(b, r, u)
    BY <1>6
  <2>2. CASE r = s
    BY <1>6, <1>7, <2>1, <2>2 DEF Keeps
  <2>3. CASE r # s
    BY <1>5, <1>6, <2>1, <2>3
  <2> QED
    BY <2>2, <2>3
<1>8. Keeps(b, s, "none") => S \subseteq T
  <2>1. <<s, "none">> \notin S
    BY <1>6 DEF Tasks
  <2> QED
    BY <1>7, <2>1
<1>9. \A w \in Tasks : Gains(b, s, w) => <<s, w>> \notin S /\ <<s, w>> \in T
  BY <1>6 DEF Gains
<1>10. tc_load'[b] <= Cardinality(T)
  <2>0. IsFiniteSet(S) /\ IsFiniteSet(T) /\ tc_load[b] <= Cardinality(S)
    BY <1>2, <1>3, <1>4
  <2>1. CASE Keeps(b, s, "none") /\ tc_load'[b] <= tc_load[b]
    BY <1>1, <1>8, <2>0, <2>1, CountKept
  <2>2. CASE \E v \in Tasks : Keeps(b, s, v) /\ (tc_load'[b] = 0 \/ tc_load'[b] < tc_load[b])
    <3>1. PICK v \in Tasks : Keeps(b, s, v) /\ (tc_load'[b] = 0 \/ tc_load'[b] < tc_load[b])
      BY <2>2
    <3>2. PICK x : x = <<s, v>>
      OBVIOUS
    <3>3. S \ {x} \subseteq T
      BY <1>7, <3>1, <3>2
    <3> QED
      BY <1>1, <2>0, <3>1, <3>3, CountKept
  <2>3. CASE \E v, w \in Tasks : Keeps(b, s, v) /\ Gains(b, s, w) /\ tc_load'[b] <= tc_load[b]
    <3>1. PICK v, w \in Tasks : Keeps(b, s, v) /\ Gains(b, s, w) /\ tc_load'[b] <= tc_load[b]
      BY <2>3
    <3>2. PICK x : x = <<s, v>>
      OBVIOUS
    <3>3. PICK y : y = <<s, w>>
      OBVIOUS
    <3>4. S \ {x} \subseteq T /\ y \in T /\ y \notin S
      BY <1>7, <1>9, <3>1, <3>2, <3>3
    <3>5. PICK m \in Nat, n \in Nat : m = tc_load[b] /\ n = tc_load'[b]
      BY <1>1
    <3>6. m <= Cardinality(S) /\ n <= m
      BY <2>0, <3>1, <3>5
    <3>7. n <= Cardinality(T)
      BY <2>0, <3>4, <3>6, CountKept
    <3> QED
      BY <3>5, <3>7
  <2>4. CASE \E w \in Tasks : Keeps(b, s, "none") /\ Gains(b, s, w) /\ tc_load'[b] <= tc_load[b] + 1
    <3>1. PICK w \in Tasks : Keeps(b, s, "none") /\ Gains(b, s, w) /\ tc_load'[b] <= tc_load[b] + 1
      BY <2>4
    <3>3. PICK y : y = <<s, w>>
      OBVIOUS
    <3>4. S \subseteq T /\ y \in T /\ y \notin S
      BY <1>8, <1>9, <3>1, <3>3
    <3> QED
      BY <1>1, <2>0, <3>1, <3>4, CountKept
  <2>5. CASE \E w \in Tasks : Has(b, s, w)' /\ tc_load'[b] <= 1
    <3>1. PICK w \in Tasks : Has(b, s, w)' /\ tc_load'[b] <= 1
      BY <2>5
    <3>3. PICK y : y = <<s, w>>
      OBVIOUS
    <3>4. y \in T
      BY <1>6, <3>1, <3>3
    <3> QED
      BY <1>1, <2>0, <3>1, <3>4, CountKept
  <2> QED
    BY <2>1, <2>2, <2>3, <2>4, <2>5 DEF SlotCase
<1> QED
  BY <1>4, <1>10

(* So does a step that takes no slot away and adds no load.                             *)
LEMMA SlotStill ==
    ASSUME FleetInv, FleetInv', SlotInv, raced \subseteq raced',
           \A r \in Sessions, u \in Tasks, b \in Boxes : Has(b, r, u) => Has(b, r, u)',
           \A b \in Boxes : tc_load'[b] <= tc_load[b]
    PROVE  SlotInv'
<1> SUFFICES ASSUME raced' = {}, NEW b \in Boxes
             PROVE  tc_load'[b] <= Cardinality(Owned(b)')
  BY DEF SlotInv
<1>1. tc_load[b] \in Nat /\ tc_load'[b] \in Nat
  BY FleetAssumption DEF FleetInv, FleetTypes
<1>2. tc_load[b] <= Cardinality(Owned(b)) /\ IsFiniteSet(Owned(b)) /\ IsFiniteSet(Owned(b)')
  BY OwnedFinite DEF SlotInv
<1>3. Owned(b) \subseteq Owned(b)'
  BY DEF Owned
<1>4. PICK S : S = Owned(b)
  OBVIOUS
<1>5. PICK T : T = Owned(b)'
  OBVIOUS
<1>6. IsFiniteSet(S) /\ IsFiniteSet(T) /\ tc_load[b] <= Cardinality(S) /\ S \subseteq T
  BY <1>2, <1>3, <1>4, <1>5
<1>7. tc_load'[b] <= Cardinality(T)
  BY <1>1, <1>6, CountKept
<1> QED
  BY <1>5, <1>7

(* Nothing a slot depends on changes.                                                   *)
LEMMA SlotIdle ==
    ASSUME FleetInv, FleetInv', SlotInv, raced \subseteq raced',
           UNCHANGED <<tc_load, state, transcoder>>,
           \A r \in Sessions, u \in Tasks : u # "seek" =>
              \/ task'[r][u].pc = task[r][u].pc /\ task'[r][u].box = task[r][u].box
              \/ task[r][u].pc \notin Busy /\ task'[r][u].pc \notin Busy
    PROVE  SlotInv'
<1>1. Movers \subseteq Tasks /\ "seek" \notin Movers
  BY DEF Movers, Tasks
<1>2. ASSUME NEW r \in Sessions, NEW u \in Tasks, NEW b \in Boxes, Has(b, r, u)
      PROVE  Has(b, r, u)'
  <2>1. Moving(r)' => Moving(r)
    BY <1>1 DEF Moving, Busy
  <2> QED
    BY <1>2, <2>1 DEF Has
<1>3. \A b \in Boxes : tc_load'[b] <= tc_load[b]
  <2>1. \A b \in Boxes : tc_load[b] \in Nat
    BY FleetAssumption DEF FleetInv, FleetTypes
  <2> QED
    BY <2>1
<1> QED
  BY <1>2, <1>3, SlotStill

(* A dispatch keeps its box while it runs.                                              *)
LEMMA DispatchSlots ==
    ASSUME FleetInv, FleetInv', SlotInv, NEW s \in Sessions, NEW t \in Tasks,
           Dispatch(s, t) \/ DispatchRetried(s, t)
    PROVE  SlotInv'
<1>0. FleetTypes
  BY DEF FleetInv
<1>1. CASE Dispatch(s, t)
  <2>1. PICK b \in Boxes, n \in 1..MaxStarts, x \in Task :
              /\ task[s][t].pc = "dispatch" /\ b = task[s][t].box
              /\ x.pc = "wait" /\ x.box = b
              /\ task' = [task EXCEPT ![s] = [Bereft(@, s, t) EXCEPT ![t] = x]]
              /\ UNCHANGED <<linkVars, tc_load, back, state, transcoder>>
              /\ UNCHANGED history
    BY <1>1, DispatchFacts
  <2>2. /\ task'[s][t] = x
        /\ \A u \in Tasks : u # t => SameOrDropped(s, u)
        /\ \A r \in Sessions : r # s => task'[r] = task[r]
    <3>1. task \in [Sessions -> [Tasks -> Task]]
      BY <1>0 DEF FleetTypes
    <3>2. task' = [task EXCEPT ![s] = [Bereft(@, s, t) EXCEPT ![t] = x]]
      BY <2>1
    <3> QED
      BY <3>1, <3>2, BereftWrite
  <2>3. \A r \in Sessions, u \in Tasks :
            task'[r][u].box = task[r][u].box /\
              (task'[r][u].pc = task[r][u].pc \/ (r = s /\ u = t))
    BY <2>1, <2>2 DEF SameOrDropped
  <2>4. ASSUME NEW r \in Sessions, NEW u \in Tasks, NEW c \in Boxes, Has(c, r, u)
        PROVE  Has(c, r, u)'
    <3>1. task[r][u].pc \in Busy => task'[r][u].pc \in Busy
      BY <2>1, <2>2, <2>3 DEF Busy
    <3>2. Moving(r)' => Moving(r)
      <4>1. ASSUME NEW v \in Movers, task'[r][v].pc \in {"dispatch", "wait"}
            PROVE  task[r][v].pc \in {"dispatch", "wait"}
        BY <2>1, <2>3, <4>1 DEF Movers, Tasks
      <4> QED
        BY <4>1 DEF Moving
    <3> QED
      BY <2>1, <2>3, <2>4, <3>1, <3>2 DEF Has
  <2>5. \A c \in Boxes : tc_load'[c] <= tc_load[c]
    <3>1. \A c \in Boxes : tc_load[c] \in Nat
      BY <1>0, FleetAssumption DEF FleetTypes
    <3> QED
      BY <2>1, <3>1
  <2> QED
    BY <2>1, <2>4, <2>5, SlotStill DEF history
<1>2. CASE DispatchRetried(s, t)
  <2>1. task[s][t].box \in Boxes /\ task[s][t].pc = "wait"
    BY <1>2, FailsFacts DEF DispatchRetried
  <2>2. PICK x : x = Aimed(task[s][t].box, FALSE)
    OBVIOUS
  <2>3. \E retry \in BOOLEAN : x = Aimed(task[s][t].box, retry)
    BY <2>2
  <2>4. x \in Task /\ x.pc = "dispatch" /\ x.box = task[s][t].box
    BY <2>1, <2>3, AimShape
  <2>5. Settle(s, t, x) /\ UNCHANGED <<tc_load, state, transcoder>> /\ UNCHANGED history
    BY <1>2, <2>2 DEF DispatchRetried
  <2>6. /\ task'[s][t] = x
        /\ \A u \in Tasks : u # t => SameOrDropped(s, u)
        /\ \A r \in Sessions : r # s => task'[r] = task[r]
    BY <1>0, <2>4, <2>5, SettleFacts
  <2>7. \A r \in Sessions, u \in Tasks :
            task'[r][u].box = task[r][u].box /\
              (task'[r][u].pc = task[r][u].pc \/ (r = s /\ u = t))
    BY <2>4, <2>6 DEF SameOrDropped
  <2>8. ASSUME NEW r \in Sessions, NEW u \in Tasks, NEW c \in Boxes, Has(c, r, u)
        PROVE  Has(c, r, u)'
    <3>1. task[r][u].pc \in Busy => task'[r][u].pc \in Busy
      BY <2>4, <2>6, <2>7 DEF Busy
    <3>2. Moving(r)' => Moving(r)
      <4>1. ASSUME NEW v \in Movers, task'[r][v].pc \in {"dispatch", "wait"}
            PROVE  task[r][v].pc \in {"dispatch", "wait"}
        BY <2>1, <2>7, <4>1 DEF Movers, Tasks
      <4> QED
        BY <4>1 DEF Moving
    <3> QED
      BY <2>5, <2>7, <2>8, <3>1, <3>2 DEF Has
  <2>9. \A c \in Boxes : tc_load'[c] <= tc_load[c]
    <3>1. \A c \in Boxes : tc_load[c] \in Nat
      BY <1>0, FleetAssumption DEF FleetTypes
    <3> QED
      BY <2>5, <3>1
  <2> QED
    BY <2>5, <2>8, <2>9, SlotStill DEF history
<1> QED
  BY <1>1, <1>2

(* Place reserves for the start.                                                        *)
LEMMA PlaceSlots ==
    ASSUME FleetInv, FleetInv', SlotInv, NEW s \in Sessions, NEW b \in Boxes, Place(s, b)
    PROVE  SlotInv'
<1>0. FleetTypes /\ TaskInv(s)
  BY DEF FleetInv, SessionInv
<1>1. PICK x : x = Aimed(b, TRUE)
  OBVIOUS
<1>2. \E retry \in BOOLEAN : x = Aimed(b, retry)
  BY <1>1
<1>3. x \in Task /\ x.pc = "dispatch" /\ x.box = b
  BY <1>2, AimShape
<1>4. /\ state[s] = "none" /\ state' = [state EXCEPT ![s] = "starting"]
      /\ task' = [task EXCEPT ![s]["start"] = x]
      /\ tc_load[b] < MaxSessions /\ tc_load' = Reserved(tc_load, b)
      /\ transcoder' = transcoder /\ UNCHANGED history
  BY <1>1 DEF Place, Placeable
<1>5. "start" \in Tasks
  BY DEF Tasks
<1>6. /\ task'[s]["start"] = x
      /\ \A u \in Tasks : u # "start" => task'[s][u] = task[s][u]
      /\ \A r \in Sessions : r # s => task'[r] = task[r]
  BY <1>0, <1>3, <1>4, <1>5, TaskUpdate DEF FleetTypes
<1>7. \A r \in Sessions : r # s => Unmoved(r)
  BY <1>0, <1>4, <1>6 DEF Unmoved, FleetTypes
<1>8. tc_load'[b] = tc_load[b] + 1 /\ (\A c \in Boxes : c # b => tc_load'[c] = tc_load[c])
      /\ \A c \in Boxes : tc_load[c] \in Nat
  <2>1. tc_load \in [Boxes -> 0..MaxSessions]
    BY <1>0 DEF FleetTypes
  <2>2. \A c \in Boxes : tc_load[c] \in Nat
    BY <2>1, FleetAssumption
  <2> QED
    BY <1>4, <2>1, <2>2, LoadShapes
<1>9. \A c \in Boxes : Keeps(c, s, "none")
  <2>1. task[s]["start"].pc = "idle"
    BY <1>0, <1>4 DEF TaskInv
  <2> QED
    BY <1>4, <1>6, <2>1 DEF Keeps, Has, Busy
<1>10. Gains(b, s, "start")
  <2>1. task[s]["start"].pc = "idle"
    BY <1>0, <1>4 DEF TaskInv
  <2> QED
    BY <1>3, <1>6, <2>1 DEF Gains, Has, Busy
<1>11. \A c \in Boxes : SlotCase(c, s)
  <2>1. SlotCase(b, s)
    BY <1>5, <1>8, <1>9, <1>10 DEF SlotCase
  <2>2. \A c \in Boxes : c # b => SlotCase(c, s)
    BY <1>8, <1>9 DEF SlotCase
  <2> QED
    BY <2>1, <2>2
<1> QED
  BY <1>4, <1>7, <1>11, SlotStep DEF history

(* A release takes one off, or finds nothing.                                           *)
LEMMA ReleasedSlots ==
    ASSUME FleetTypes, NEW b, NEW load, load = Released(tc_load, b)
    PROVE  /\ \A c \in Boxes : tc_load[c] \in Nat /\ load[c] \in Nat /\ load[c] <= tc_load[c]
           /\ \A c \in Boxes : c # b => load[c] = tc_load[c]
           /\ b \in Boxes => load[b] = 0 \/ load[b] < tc_load[b]
           /\ b \in Boxes => load[b] + 1 <= tc_load[b] \/ load[b] + 1 <= 1
<1>1. tc_load \in [Boxes -> 0..MaxSessions]
  BY DEF FleetTypes
<1>2. \A c \in Boxes : tc_load[c] \in Nat
  BY <1>1, FleetAssumption
<1>3. /\ \A c \in Boxes : c # b => load[c] = tc_load[c]
      /\ b \in Boxes => load[b] = IF tc_load[b] > 0 THEN tc_load[b] - 1 ELSE 0
  BY <1>1, LoadShapes
<1>4. b \in Boxes => load[b] \in Nat /\ load[b] <= tc_load[b] /\ (load[b] = 0 \/ load[b] < tc_load[b])
                     /\ (load[b] + 1 <= tc_load[b] \/ load[b] + 1 <= 1)
  BY <1>2, <1>3
<1>5. \A c \in Boxes : tc_load[c] <= tc_load[c]
  BY <1>2
<1> QED
  BY <1>2, <1>3, <1>4, <1>5

(* The others are settled as they were.                                                  *)
LEMMA SettledSlots ==
    ASSUME NEW s \in Sessions, NEW t \in Tasks,
           \A u \in Tasks : u # t => SameOrDropped(s, u),
           task'[s][t].pc \notin Busy,
           t # "start" => UNCHANGED <<state, transcoder>>,
           t = "start" => task[s]["start"].pc # "idle" /\ TaskInv(s)
    PROVE  \A b \in Boxes :
              /\ Keeps(b, s, t)
              /\ t = "seek" \/ ~Has(b, s, t) => Keeps(b, s, "none")
<1>1. \A u \in Tasks : u # t => task'[s][u].pc = task[s][u].pc /\ task'[s][u].box = task[s][u].box
  BY DEF SameOrDropped
<1>2. Moving(s)' => Moving(s)
  <2>1. Movers \subseteq Tasks
    BY DEF Movers, Tasks
  <2> QED
    BY <1>1, <2>1 DEF Moving, Busy
<1>3. "seek" \in Tasks /\ (t = "start" => \A b \in Boxes : ~Has(b, s, "seek"))
  BY DEF Has, TaskInv, Tasks
<1>4. \A b \in Boxes : t # "start" /\ Has(b, s, "seek") => Has(b, s, "seek")'
  BY <1>2 DEF Has
<1>5. \A b \in Boxes, u \in Tasks : u # t /\ u # "seek" /\ Has(b, s, u) => Has(b, s, u)'
  BY <1>1 DEF Has
<1>6. \A b \in Boxes : Keeps(b, s, t)
  BY <1>3, <1>4, <1>5 DEF Keeps
<1>7. \A b \in Boxes : t = "seek" \/ ~Has(b, s, t) => Keeps(b, s, "none")
  BY <1>3, <1>4, <1>5 DEF Keeps
<1> QED
  BY <1>6, <1>7

(* A dispatch that failed for good gives its slot back.                                   *)
LEMMA FailedSlots ==
    ASSUME FleetInv, FleetInv', SlotInv, NEW s \in Sessions, NEW t \in Tasks \ {"seek"},
           Fails(s, t), NEW x \in Task, Settle(s, t, x), x.pc \notin Busy,
           tc_load' = Released(tc_load, task[s][t].box),
           UNCHANGED transcoder, UNCHANGED raced,
           t # "start" => UNCHANGED state,
           \A r \in Sessions : r # s => state'[r] = state[r]
    PROVE  SlotInv'
<1>0. FleetTypes /\ TaskInv(s)
  BY DEF FleetInv, SessionInv
<1>1. task[s][t].pc = "wait" /\ task[s][t].box \in Boxes
  BY FailsFacts
<1>2. /\ task'[s][t] = x
      /\ \A u \in Tasks : u # t => SameOrDropped(s, u)
      /\ \A r \in Sessions : r # s => task'[r] = task[r]
  BY <1>0, SettleFacts
<1>3. PICK b \in Boxes : b = task[s][t].box
  BY <1>1
<1>4. tc_load' = Released(tc_load, b)
  BY <1>3
<1>5. /\ \A c \in Boxes : tc_load[c] \in Nat /\ tc_load'[c] <= tc_load[c]
      /\ tc_load'[b] = 0 \/ tc_load'[b] < tc_load[b]
  BY <1>0, <1>4, ReleasedSlots
<1>6. \A c \in Boxes :
              /\ Keeps(c, s, t)
              /\ t = "seek" \/ ~Has(c, s, t) => Keeps(c, s, "none")
  BY <1>0, <1>1, <1>2, SettledSlots
<1>7. \A c \in Boxes : c # b => ~Has(c, s, t)
  BY <1>3 DEF Has
<1>8. \A c \in Boxes : SlotCase(c, s)
  BY <1>5, <1>6, <1>7 DEF SlotCase
<1>9. \A r \in Sessions : r # s => Unmoved(r)
  BY <1>2 DEF Unmoved
<1> QED
  BY <1>8, <1>9, SlotStep

(* The three ways a dispatch fails for good, and the seek that is dropped.                  *)
LEMMA FailureSlots ==
    ASSUME FleetInv, FleetInv', SlotInv, NEW s \in Sessions, NEW t \in Tasks,
           \/ StartFailed(s)
           \/ SeekFailed(s)
           \/ SeekDropped(s)
           \/ t \in Movers /\ MoveFailed(s, t)
    PROVE  SlotInv'
<1>0. FleetTypes
  BY DEF FleetInv
<1>a. "start" \in Tasks \ {"seek"} /\ "seek" \in Tasks
  BY DEF Tasks
<1>b. Idle \in Task /\ Idle.pc \notin Busy
  BY TaskShapes DEF Busy
<1>1. CASE StartFailed(s)
  <2>1. /\ Fails(s, "start") /\ Settle(s, "start", Idle)
        /\ tc_load' = Released(tc_load, task[s]["start"].box)
        /\ UNCHANGED transcoder /\ UNCHANGED raced
    BY <1>1 DEF StartFailed, history
  <2>2. \A r \in Sessions : r # s => state'[r] = state[r]
    BY <1>0, <1>1 DEF StartFailed, FleetTypes
  <2> QED
    BY <1>a, <1>b, <2>1, <2>2, FailedSlots
<1>2. CASE t \in Movers /\ MoveFailed(s, t)
  <2>1. PICK x : x = [Idle EXCEPT !.pc = "end"]
    OBVIOUS
  <2>2. x \in Task /\ x.pc \notin Busy
    BY <2>1, TaskShapes DEF Busy
  <2>3. /\ Fails(s, t) /\ Settle(s, t, x)
        /\ tc_load' = Released(tc_load, task[s][t].box)
        /\ UNCHANGED transcoder /\ UNCHANGED raced /\ UNCHANGED state
    BY <1>2, <2>1 DEF MoveFailed, history
  <2>4. t \in Tasks \ {"seek"}
    BY <1>2 DEF Movers
  <2> QED
    BY <2>2, <2>3, <2>4, FailedSlots
<1>3. CASE SeekFailed(s) \/ SeekDropped(s)
  <2>1. UNCHANGED <<tc_load, state, transcoder, raced>>
    BY <1>3 DEF SeekFailed, SeekDropped, history
  <2>2. CASE Settle(s, "seek", Idle)
    <3>1. /\ \A u \in Tasks : u # "seek" => SameOrDropped(s, u)
          /\ \A r \in Sessions : r # s => task'[r] = task[r]
      BY <1>0, <1>a, <1>b, <2>2, SettleFacts
    <3>2. \A r \in Sessions, u \in Tasks : u # "seek" =>
              task'[r][u].pc = task[r][u].pc /\ task'[r][u].box = task[r][u].box
      BY <3>1 DEF SameOrDropped
    <3> QED
      BY <2>1, <3>2, SlotIdle
  <2>3. CASE task' = [task EXCEPT ![s]["seek"] = Idle]
    <3>1. /\ \A u \in Tasks : u # "seek" => task'[s][u] = task[s][u]
          /\ \A r \in Sessions : r # s => task'[r] = task[r]
      BY <1>0, <1>a, <1>b, <2>3, TaskUpdate DEF FleetTypes
    <3>2. \A r \in Sessions, u \in Tasks : u # "seek" =>
              task'[r][u].pc = task[r][u].pc /\ task'[r][u].box = task[r][u].box
      BY <3>1
    <3> QED
      BY <2>1, <3>2, SlotIdle
  <2> QED
    BY <1>3, <2>2, <2>3 DEF SeekFailed, SeekDropped
<1> QED
  BY <1>1, <1>2, <1>3

(* A slot passes from the dispatch t to the session itself, at its new box.                *)
LEMMA HandedSlots ==
    ASSUME FleetInv, FleetInv', SlotInv, UNCHANGED <<tc_load, raced>>,
           NEW s \in Sessions, NEW t \in Tasks \ {"seek"},
           task[s][t].pc \in Busy, task'[s][t].pc \notin Busy,
           \A u \in Tasks : u # t => SameOrDropped(s, u),
           state'[s] = "active", transcoder'[s] = task[s][t].box,
           s \notin raced =>
              /\ state[s] \notin {"active", "ending"} \/ Moving(s)
              /\ \A u \in Movers : u # t => task[s][u].pc \notin {"dispatch", "wait"},
           \A r \in Sessions : r # s => Unmoved(r)
    PROVE  SlotInv'
<1>0. FleetTypes /\ TaskInv(s)
  BY DEF FleetInv, SessionInv
<1>1. ASSUME raced = {}, NEW c \in Boxes
      PROVE  SlotCase(c, s)
  <2>1. tc_load'[c] = tc_load[c] /\ tc_load[c] \in Nat
    BY <1>0, FleetAssumption DEF FleetTypes
  <2>2. ~Has(c, s, "seek")
    BY <1>1 DEF Has
  <2>3. \A u \in Tasks : u # t => task'[s][u].pc = task[s][u].pc /\ task'[s][u].box = task[s][u].box
    BY DEF SameOrDropped
  <2>4. Keeps(c, s, t)
    BY <2>2, <2>3 DEF Keeps, Has
  <2>5. ~Moving(s)'
    BY <1>1, <2>3 DEF Moving, Busy, Movers, Tasks
  <2>6. CASE c = task[s][t].box
    <3>1. Gains(c, s, "seek")
      BY <2>2, <2>5, <2>6 DEF Gains, Has
    <3>2. "seek" \in Tasks
      BY DEF Tasks
    <3> QED
      BY <2>1, <2>4, <3>1, <3>2 DEF SlotCase
  <2>7. CASE c # task[s][t].box
    <3>1. ~Has(c, s, t)
      BY <2>7 DEF Has
    <3>2. Keeps(c, s, "none")
      BY <2>4, <3>1 DEF Keeps
    <3> QED
      BY <2>1, <3>2 DEF SlotCase
  <2> QED
    BY <2>6, <2>7
<1> QED
  BY <1>1, SlotStep

(* A dispatch comes up, a start is published.                                               *)
LEMMA ReadySlots ==
    ASSUME FleetInv, FleetInv', SlotInv, NEW s \in Sessions, NEW t \in Tasks,
           DispatchReady(s, t) \/ Publish(s)
    PROVE  SlotInv'
<1>0. FleetTypes /\ TaskInv(s) /\ AloneInv(s)
  BY DEF FleetInv, SessionInv
<1>a. "start" \in Tasks /\ Movers \subseteq Tasks /\ "start" \notin Movers /\ "seek" \notin Movers
      /\ Idle \in Task /\ Idle.pc = "idle"
  BY TaskShapes DEF Tasks, Movers
<1>1. CASE DispatchReady(s, t)
  <2>0. task[s][t].pc = "wait" /\ UNCHANGED <<tc_load, state, raced>>
    BY <1>1 DEF DispatchReady
  <2>1. PICK x : x = IF t = "start" THEN [task[s][t] EXCEPT !.pc = "publish"] ELSE Idle
    OBVIOUS
  <2>2. /\ x \in Task
        /\ t = "start" => x.pc = "publish" /\ x.box = task[s][t].box
        /\ t # "start" => x.pc = "idle"
    <3>1. task[s][t] \in Task
      BY <1>0 DEF FleetTypes
    <3>2. LET y == [task[s][t] EXCEPT !.pc = "publish"]
          IN  y \in Task /\ y.pc = "publish" /\ y.box = task[s][t].box
      BY <3>1 DEF Task
    <3> QED
      BY <1>a, <2>1, <3>2
  <2>3. Settle(s, t, x)
    BY <1>1, <2>1 DEF DispatchReady
  <2>4. /\ task'[s][t] = x
        /\ \A u \in Tasks : u # t => SameOrDropped(s, u)
        /\ \A r \in Sessions : r # s => task'[r] = task[r]
    BY <1>0, <2>2, <2>3, SettleFacts
  <2>5. CASE t \notin Movers
    <3>1. transcoder' = transcoder
      BY <1>1, <2>5 DEF DispatchReady
    <3>2. ASSUME NEW r \in Sessions, NEW u \in Tasks, NEW b \in Boxes, Has(b, r, u)
          PROVE  Has(b, r, u)'
      <4>1. u # "seek" => task'[r][u].box = task[r][u].box /\ (task[r][u].pc \in Busy => task'[r][u].pc \in Busy)
        <5>1. CASE r = s /\ u = t
          <6>1. u # "seek" => t = "start"
            BY <2>5, <5>1 DEF Tasks, Movers
          <6> QED
            BY <2>2, <2>4, <5>1, <6>1 DEF Busy
        <5>2. CASE r = s /\ u # t
          BY <2>4, <5>2 DEF SameOrDropped
        <5>3. CASE r # s
          BY <2>4, <5>3
        <5> QED
          BY <5>1, <5>2, <5>3
      <4>2. Moving(r)' => Moving(r)
        <5>1. \A v \in Movers : task'[r][v].pc = task[r][v].pc
          BY <1>a, <2>4, <2>5 DEF SameOrDropped
        <5> QED
          BY <5>1 DEF Moving
      <4> QED
        BY <2>0, <3>1, <3>2, <4>1, <4>2 DEF Has
    <3>3. \A b \in Boxes : tc_load'[b] <= tc_load[b]
      <4>1. \A b \in Boxes : tc_load[b] \in Nat
        BY <1>0, FleetAssumption DEF FleetTypes
      <4> QED
        BY <2>0, <4>1
    <3> QED
      BY <2>0, <3>2, <3>3, SlotStill
  <2>6. CASE t \in Movers
    <3>1. /\ transcoder' = [transcoder EXCEPT ![s] = task[s][t].box]
          /\ t \in Tasks \ {"seek"} /\ t # "start"
      BY <1>1, <1>a, <2>6 DEF DispatchReady
    <3>2. transcoder'[s] = task[s][t].box /\ \A r \in Sessions : r # s => Unmoved(r)
      BY <1>0, <2>0, <2>4, <3>1 DEF FleetTypes, Unmoved
    <3>3. CASE s \in raced
      BY <2>0, <3>3 DEF SlotInv
    <3>4. CASE s \notin raced
      <4>1. state[s] = "active" /\ Moving(s)
        BY <1>0, <2>0, <2>6, <3>4 DEF AloneInv, Busy, Moving
      <4>2. \A u \in Movers : u # t => task[s][u].pc \notin {"dispatch", "wait"}
        BY <1>0, <1>a, <2>0, <3>4 DEF AloneInv, Busy
      <4>3. task[s][t].pc \in Busy /\ task'[s][t].pc \notin Busy /\ state'[s] = "active"
        BY <2>0, <2>2, <2>4, <3>1, <4>1 DEF Busy
      <4> QED
        BY <2>0, <2>4, <3>1, <3>2, <4>1, <4>2, <4>3, HandedSlots
    <3> QED
      BY <3>3, <3>4
  <2> QED
    BY <2>5, <2>6
<1>2. CASE Publish(s)
  <2>1. /\ task[s]["start"].pc = "publish"
        /\ state' = [state EXCEPT ![s] = "active"]
        /\ transcoder' = [transcoder EXCEPT ![s] = task[s]["start"].box]
        /\ task' = [task EXCEPT ![s]["start"] = Idle]
        /\ UNCHANGED <<tc_load, raced>>
    BY <1>2 DEF Publish
  <2>2. /\ task'[s]["start"] = Idle
        /\ \A u \in Tasks : u # "start" => task'[s][u] = task[s][u]
        /\ \A r \in Sessions : r # s => task'[r] = task[r]
    BY <1>0, <1>a, <2>1, TaskUpdate DEF FleetTypes
  <2>3. state[s] = "starting" /\ state'[s] = "active" /\ transcoder'[s] = task[s]["start"].box
        /\ \A r \in Sessions : r # s => Unmoved(r)
    BY <1>0, <2>1, <2>2 DEF FleetTypes, TaskInv, Unmoved
  <2>4. \A u \in Tasks : u # "start" => SameOrDropped(s, u)
    BY <2>2 DEF SameOrDropped
  <2>5. s \notin raced => \A u \in Movers : u # "start" => task[s][u].pc \notin {"dispatch", "wait"}
    BY <1>0, <2>3 DEF AloneInv, Busy
  <2>6. task[s]["start"].pc \in Busy /\ task'[s]["start"].pc \notin Busy /\ "start" \in Tasks \ {"seek"}
    BY <1>a, <2>1, <2>2 DEF Busy
  <2>7. state[s] \notin {"active", "ending"}
    BY <2>3
  <2> QED
    BY <2>1, <2>3, <2>4, <2>5, <2>6, <2>7, HandedSlots
<1> QED
  BY <1>1, <1>2

(* A seek, and an end that begins, take no slot away.                                        *)
LEMMA SeekEndSlots ==
    ASSUME FleetInv, FleetInv', SlotInv, NEW s \in Sessions, NEW t \in Tasks,
           \/ BeginSeek(s)
           \/ BeginEnd(s)
           \/ t \in Movers /\ EndAfterMove(s, t)
    PROVE  SlotInv'
<1>0. FleetTypes
  BY DEF FleetInv
<1>a. Idle \in Task /\ Idle.pc = "idle" /\ Movers \subseteq Tasks /\ "seek" \notin Movers /\ "seek" \in Tasks
  BY TaskShapes DEF Movers, Tasks
<1>1. /\ raced \subseteq raced' /\ transcoder' = transcoder
      /\ \A b \in Boxes : tc_load'[b] <= tc_load[b]
  <2>1. raced \subseteq raced' /\ transcoder' = transcoder
    BY DEF BeginSeek, BeginEnd, EndAfterMove
  <2>2. tc_load' = tc_load \/ tc_load' = Released(tc_load, transcoder[s])
    BY DEF BeginSeek, BeginEnd, EndAfterMove
  <2>3. \A b \in Boxes : tc_load[b] \in Nat
    BY <1>0, FleetAssumption DEF FleetTypes
  <2> QED
    BY <1>0, <2>1, <2>2, <2>3, ReleasedSlots
<1>2. \A r \in Sessions : state[r] \in {"active", "ending"} => state'[r] \in {"active", "ending"}
  BY <1>0 DEF BeginSeek, BeginEnd, EndAfterMove, FleetTypes
<1>3. \A r \in Sessions, u \in Tasks : u # "seek" =>
         \/ task'[r][u] = task[r][u]
         \/ task[r][u].pc \notin Busy /\ task'[r][u].pc \notin Busy
  <2>1. CASE BeginSeek(s)
    <3>1. PICK x : task' = [task EXCEPT ![s]["seek"] = x]
      BY <2>1 DEF BeginSeek
    <3> QED
      BY <1>0, <1>a, <3>1 DEF FleetTypes
  <2>2. CASE BeginEnd(s)
    BY <2>2 DEF BeginEnd
  <2>3. CASE t \in Movers /\ EndAfterMove(s, t)
    <3>1. task[s][t].pc = "end" /\ task' = [task EXCEPT ![s][t] = Idle]
      BY <2>3 DEF EndAfterMove
    <3>2. /\ task'[s][t] = Idle
          /\ \A u \in Tasks : u # t => task'[s][u] = task[s][u]
          /\ \A r \in Sessions : r # s => task'[r] = task[r]
      BY <1>0, <1>a, <3>1, TaskUpdate DEF FleetTypes
    <3> QED
      BY <1>a, <3>1, <3>2 DEF Busy
  <2> QED
    BY <2>1, <2>2, <2>3
<1>4. ASSUME NEW r \in Sessions, NEW u \in Tasks, NEW b \in Boxes, Has(b, r, u)
      PROVE  Has(b, r, u)'
  <2>1. Moving(r)' => Moving(r)
    BY <1>a, <1>3 DEF Moving, Busy
  <2> QED
    BY <1>1, <1>2, <1>3, <1>4, <2>1 DEF Has
<1> QED
  BY <1>1, <1>4, SlotStill

(* An end that is carried out gives the session's slot back.                                  *)
LEMMA FinishEndSlots ==
    ASSUME FleetInv, FleetInv', SlotInv, NEW s \in Sessions, FinishEnd(s)
    PROVE  SlotInv'
<1>0. FleetTypes /\ TaskInv(s)
  BY DEF FleetInv, SessionInv
<1>1. /\ state[s] = "ending" /\ state' = [state EXCEPT ![s] = "gone"]
      /\ task' = [task EXCEPT ![s] = Bereft(@, s, "none")]
      /\ tc_load' = Released(tc_load, transcoder[s])
      /\ transcoder' = transcoder /\ raced' = raced
  BY DEF FinishEnd, history
<1>2. PICK b \in Boxes : b = transcoder[s]
  BY <1>0, <1>1 DEF TaskInv
<1>3. /\ \A u \in Tasks : SameOrDropped(s, u)
      /\ \A r \in Sessions : r # s => task'[r] = task[r]
  BY <1>0, <1>1, BereftUpdate DEF FleetTypes
<1>4. /\ \A c \in Boxes : tc_load[c] \in Nat /\ tc_load'[c] <= tc_load[c]
      /\ tc_load'[b] = 0 \/ tc_load'[b] < tc_load[b]
  BY <1>0, <1>1, <1>2, ReleasedSlots
<1>5. \A c \in Boxes : Keeps(c, s, "seek") /\ (c # b => Keeps(c, s, "none"))
  BY <1>2, <1>3 DEF Keeps, Has, SameOrDropped
<1>6. \A r \in Sessions : r # s => Unmoved(r)
  BY <1>0, <1>1, <1>3 DEF Unmoved, FleetTypes
<1>7. \A c \in Boxes : SlotCase(c, s)
  <2>1. "seek" \in Tasks
    BY DEF Tasks
  <2> QED
    BY <1>4, <1>5, <2>1 DEF SlotCase
<1> QED
  BY <1>1, <1>6, <1>7, SlotStep

(* A reschedule gives the slot of its session back and takes one for itself.                   *)
LEMMA BeginMoveSlots ==
    ASSUME FleetInv, FleetInv', SlotInv, NEW s \in Sessions, NEW t \in Movers, BeginMove(s, t)
    PROVE  SlotInv'
<1>0. FleetTypes /\ TaskInv(s)
  BY DEF FleetInv, SessionInv
<1>a. t \in Tasks /\ t # "seek" /\ "seek" \in Tasks
  BY DEF Movers, Tasks
<1>b. PICK e : e = [Idle EXCEPT !.pc = "end"]
  OBVIOUS
<1>c. e \in Task /\ e.pc \notin Busy
  BY <1>b, TaskShapes DEF Busy
<1>d. PICK freed : freed = Released(tc_load, transcoder[s])
  OBVIOUS
<1>1. /\ task[s][t].pc = "called" /\ UNCHANGED <<state, transcoder>>
      /\ raced' = IF Seeking(s) \/ Moving(s) THEN raced \cup {s} ELSE raced
  BY DEF BeginMove
<1>2. /\ \A c \in Boxes : tc_load[c] \in Nat /\ freed[c] \in Nat /\ freed[c] <= tc_load[c]
      /\ \A c \in Boxes : c # transcoder[s] => freed[c] = tc_load[c]
      /\ transcoder[s] \in Boxes => freed[transcoder[s]] = 0 \/ freed[transcoder[s]] < tc_load[transcoder[s]]
      /\ transcoder[s] \in Boxes => freed[transcoder[s]] + 1 <= tc_load[transcoder[s]]
                                    \/ freed[transcoder[s]] + 1 <= 1
  BY <1>0, <1>d, ReleasedSlots
<1>3. CASE task' = [task EXCEPT ![s][t] = e] /\ (tc_load' = tc_load \/ tc_load' = freed)
  <2>1. /\ task'[s][t] = e
        /\ \A u \in Tasks : u # t => task'[s][u] = task[s][u]
        /\ \A r \in Sessions : r # s => task'[r] = task[r]
    BY <1>0, <1>a, <1>c, <1>3, TaskUpdate DEF FleetTypes
  <2>2. \A r \in Sessions, u \in Tasks :
           \/ task'[r][u] = task[r][u]
           \/ task[r][u].pc \notin Busy /\ task'[r][u].pc \notin Busy
    BY <1>1, <1>c, <2>1 DEF Busy
  <2>3. ASSUME NEW r \in Sessions, NEW u \in Tasks, NEW b \in Boxes, Has(b, r, u)
        PROVE  Has(b, r, u)'
    <3>1. Moving(r)' => Moving(r)
      BY <2>2 DEF Moving, Busy, Movers, Tasks
    <3> QED
      BY <1>1, <2>2, <2>3, <3>1 DEF Has
  <2>4. \A c \in Boxes : tc_load'[c] <= tc_load[c]
    BY <1>2, <1>3
  <2>5. raced \subseteq raced'
    BY <1>1
  <2> QED
    BY <2>3, <2>4, <2>5, SlotStill
<1>4. CASE state[s] = "active" /\ \E b \in Boxes :
                      /\ Placeable(freed, b)
                      /\ tc_load' = Reserved(freed, b)
                      /\ task' = [task EXCEPT ![s][t] = Aimed(b, FALSE)]
  <2>1. PICK b \in Boxes : /\ Placeable(freed, b)
                           /\ tc_load' = Reserved(freed, b)
                           /\ task' = [task EXCEPT ![s][t] = Aimed(b, FALSE)]
    BY <1>4
  <2>2. PICK x : x = Aimed(b, FALSE)
    OBVIOUS
  <2>3. \E retry \in BOOLEAN : x = Aimed(b, retry)
    BY <2>2
  <2>4. x \in Task /\ x.pc = "dispatch" /\ x.box = b
    BY <2>3, AimShape
  <2>5. /\ task'[s][t] = x
        /\ \A u \in Tasks : u # t => task'[s][u] = task[s][u]
        /\ \A r \in Sessions : r # s => task'[r] = task[r]
    <3>1. task' = [task EXCEPT ![s][t] = x]
      BY <2>1, <2>2
    <3>2. task \in [Sessions -> [Tasks -> Task]]
      BY <1>0 DEF FleetTypes
    <3> QED
      BY <1>a, <2>4, <3>1, <3>2, TaskUpdate
  <2>6. PICK d \in Boxes : d = transcoder[s]
    BY <1>0, <1>4 DEF TaskInv
  <2>7. tc_load'[b] = freed[b] + 1 /\ \A c \in Boxes : c # b => tc_load'[c] = freed[c]
    <3>1. freed \in [Boxes -> 0..MaxSessions]
      BY <1>0, <1>d, LoadShapes DEF FleetTypes
    <3>2. freed[b] < MaxSessions
      BY <2>1 DEF Placeable
    <3> QED
      BY <2>1, <3>1, <3>2, LoadShapes
  <2>8. ASSUME raced' = {}, NEW c \in Boxes
        PROVE  SlotCase(c, s)
    <3>1. Keeps(c, s, "seek")
      <4>1. \A u \in Tasks : u # "seek" /\ Has(c, s, u) => u # t
        BY <1>1 DEF Has, Busy
      <4> QED
        BY <2>5, <4>1 DEF Keeps, Has
    <3>2. c # d => Keeps(c, s, "none")
      <4>1. c # d => ~Has(c, s, "seek")
        BY <2>6 DEF Has
      <4> QED
        BY <3>1, <4>1 DEF Keeps
    <3>3. c = b => Gains(c, s, t)
      BY <1>1, <1>a, <2>4, <2>5 DEF Gains, Has, Busy
    <3>4. CASE c = b /\ c = d
      <4>1. tc_load'[c] <= tc_load[c] \/ tc_load'[c] <= 1
        BY <1>2, <2>6, <2>7, <3>4
      <4>2. Has(c, s, t)'
        BY <3>3, <3>4 DEF Gains
      <4> QED
        BY <1>a, <3>1, <3>3, <3>4, <4>1, <4>2 DEF SlotCase
    <3>5. CASE c = b /\ c # d
      <4>1. tc_load'[c] <= tc_load[c] + 1
        BY <1>2, <2>6, <2>7, <3>5
      <4> QED
        BY <1>a, <3>2, <3>3, <3>5, <4>1 DEF SlotCase
    <3>6. CASE c # b /\ c = d
      <4>1. tc_load'[c] = 0 \/ tc_load'[c] < tc_load[c]
        BY <1>2, <2>6, <2>7, <3>6
      <4> QED
        BY <1>a, <3>1, <4>1 DEF SlotCase
    <3>7. CASE c # b /\ c # d
      <4>1. tc_load'[c] <= tc_load[c]
        BY <1>2, <2>6, <2>7, <3>7
      <4> QED
        BY <3>2, <3>7, <4>1 DEF SlotCase
    <3> QED
      BY <3>4, <3>5, <3>6, <3>7
  <2>9. \A r \in Sessions : r # s => Unmoved(r)
    BY <1>1, <2>5 DEF Unmoved
  <2>10. raced \subseteq raced'
    BY <1>1
  <2> QED
    BY <2>8, <2>9, <2>10, SlotStep
<1> QED
  BY <1>3, <1>4, <1>b, <1>d DEF BeginMove

(* Links and verdicts.                                                                         *)
LEMMA LinkSlots ==
    ASSUME FleetInv, FleetInv', SlotInv, NEW b \in Boxes,
           \/ LinkLost(b)
           \/ Reconnect(b)
           \/ ReadVerdict(b)
           \/ \E l \in 1..MaxLinks : Teardown(b, l)
    PROVE  SlotInv'
<1>0. FleetTypes
  BY DEF FleetInv
<1>a. \A p \in {"end", "called"} : [Idle EXCEPT !.pc = p].pc = p
  BY TaskShapes
<1>1. CASE LinkLost(b) \/ Reconnect(b)
  <2>1. UNCHANGED <<tc_load, state, transcoder, task, raced>>
    BY <1>1 DEF LinkLost, Reconnect, history
  <2> QED
    BY <2>1, SlotIdle
<1>2. CASE ReadVerdict(b)
  <2>1. UNCHANGED <<tc_load, state, transcoder, raced>>
    BY <1>2 DEF ReadVerdict
  <2>2. PICK s \in Sessions : s = Head(back[b]).session
    BY <1>2, ReadFacts
  <2>3. PICK t \in Tasks \cup {"none"} : t = pending_ready[s]
    BY <1>0 DEF FleetTypes
  <2>4. \/ t # "none" /\ \E v \in {"ok", "err"} : task' = [task EXCEPT ![s][t].verdict = v]
        \/ task' = task
        \/ /\ task[s]["error"].pc = "idle"
           /\ task' = [task EXCEPT ![s]["error"] = [Idle EXCEPT !.pc = "called"]]
    BY <1>2, <2>2, <2>3 DEF ReadVerdict
  <2>5. \A r \in Sessions, u \in Tasks :
              \/ task'[r][u].pc = task[r][u].pc /\ task'[r][u].box = task[r][u].box
              \/ task[r][u].pc \notin Busy /\ task'[r][u].pc \notin Busy
    <3>0. task \in [Sessions -> [Tasks -> Task]] /\ "error" \in Tasks
      BY <1>0 DEF FleetTypes, Tasks
    <3>1. CASE t # "none" /\ \E v \in {"ok", "err"} : task' = [task EXCEPT ![s][t].verdict = v]
      <4>1. PICK v \in {"ok", "err"} : task' = [task EXCEPT ![s][t].verdict = v]
        BY <3>1
      <4>2. t \in Tasks
        BY <3>1
      <4>3. PICK x : x = [task[s][t] EXCEPT !.verdict = v]
        OBVIOUS
      <4>4. x \in Task /\ x.pc = task[s][t].pc /\ x.box = task[s][t].box
        <5>1. task[s][t] \in Task
          BY <3>0, <4>2
        <5> QED
          BY <4>3, <5>1 DEF Task
      <4>5. task' = [task EXCEPT ![s][t] = x]
        BY <3>0, <4>1, <4>2, <4>3
      <4>6. /\ task'[s][t] = x
            /\ \A u \in Tasks : u # t => task'[s][u] = task[s][u]
            /\ \A r \in Sessions : r # s => task'[r] = task[r]
        BY <3>0, <4>2, <4>4, <4>5, TaskUpdate
      <4> QED
        BY <4>4, <4>6
    <3>2. CASE task' = task
      BY <3>2
    <3>3. CASE /\ task[s]["error"].pc = "idle"
               /\ task' = [task EXCEPT ![s]["error"] = [Idle EXCEPT !.pc = "called"]]
      <4>1. PICK x : x = [Idle EXCEPT !.pc = "called"]
        OBVIOUS
      <4>2. x \in Task /\ x.pc = "called"
        BY <4>1, TaskShapes
      <4>3. /\ task'[s]["error"] = x
            /\ \A u \in Tasks : u # "error" => task'[s][u] = task[s][u]
            /\ \A r \in Sessions : r # s => task'[r] = task[r]
        BY <3>0, <3>3, <4>1, <4>2, TaskUpdate
      <4> QED
        BY <3>3, <4>2, <4>3 DEF Busy
    <3> QED
      BY <2>4, <3>1, <3>2, <3>3
  <2> QED
    BY <2>1, <2>5, SlotIdle
<1>3. CASE \E l \in 1..MaxLinks : Teardown(b, l)
  <2>1. /\ UNCHANGED <<state, transcoder>> /\ UNCHANGED raced
        /\ tc_load' = tc_load \/ tc_load' = [tc_load EXCEPT ![b] = 0]
    BY <1>3 DEF Teardown, history
  <2>2. \A r \in Sessions, u \in Tasks :
              \/ task'[r][u] = task[r][u]
              \/ task[r][u].pc \notin Busy /\ task'[r][u].pc \notin Busy
    <3>1. PICK x : x = [Idle EXCEPT !.pc = "called"]
      OBVIOUS
    <3>2. x.pc \notin Busy
      BY <3>1, <1>a DEF Busy
    <3>3. task' = [s \in Sessions |-> IF s \in Stranded(b) THEN [task[s] EXCEPT !["loss"] = x]
                                      ELSE task[s]]
          /\ \A s \in Sessions : task[s]["loss"].pc = "idle"
      BY <1>3, <3>1 DEF Teardown
    <3>4. \A r \in Sessions : task[r] \in [Tasks -> Task]
      BY <1>0 DEF FleetTypes
    <3> QED
      BY <3>2, <3>3, <3>4 DEF Busy
  <2>3. ASSUME NEW r \in Sessions, NEW u \in Tasks, NEW c \in Boxes, Has(c, r, u)
        PROVE  Has(c, r, u)'
    <3>1. Moving(r)' => Moving(r)
      BY <2>2 DEF Moving, Busy, Movers, Tasks
    <3> QED
      BY <2>1, <2>2, <2>3, <3>1 DEF Has
  <2>4. \A c \in Boxes : tc_load'[c] <= tc_load[c]
    <3>1. \A c \in Boxes : tc_load[c] \in Nat
      BY <1>0, FleetAssumption DEF FleetTypes
    <3>2. tc_load \in [Boxes -> 0..MaxSessions]
      BY <1>0 DEF FleetTypes
    <3> QED
      BY <2>1, <3>1, <3>2
  <2> QED
    BY <2>1, <2>3, <2>4, SlotStill
<1> QED
  BY <1>1, <1>2, <1>3

(* Every step keeps the count.                                                                *)
LEMMA SlotNext ==
    ASSUME FleetInv, FleetInv', SlotInv, [Next]_vars
    PROVE  SlotInv'
<1>1. ASSUME NEW s \in Sessions, NEW b \in Boxes, Place(s, b)
      PROVE  SlotInv'
  BY <1>1, PlaceSlots
<1>2. ASSUME NEW s \in Sessions, Abandon(s)
      PROVE  SlotInv'
  BY <1>2 DEF Abandon, SlotInv
<1>a. PICK e \in Tasks : e = "error"
  BY DEF Tasks
<1>3. ASSUME NEW s \in Sessions, BeginSeek(s) \/ BeginEnd(s)
      PROVE  SlotInv'
  BY <1>3, <1>a, SeekEndSlots
<1>5. ASSUME NEW s \in Sessions, FinishEnd(s)
      PROVE  SlotInv'
  BY <1>5, FinishEndSlots
<1>6. ASSUME NEW s \in Sessions, NEW t \in Tasks, TaskStep(s, t)
      PROVE  SlotInv'
  <2>1. CASE Dispatch(s, t) \/ DispatchRetried(s, t)
    BY <2>1, DispatchSlots
  <2>2. CASE DispatchReady(s, t) \/ Publish(s)
    BY <2>2, ReadySlots
  <2>3. CASE StartFailed(s) \/ SeekFailed(s) \/ SeekDropped(s) \/ (t \in Movers /\ MoveFailed(s, t))
    BY <2>3, FailureSlots
  <2>4. CASE t \in Movers /\ BeginMove(s, t)
    BY <2>4, BeginMoveSlots
  <2>5. CASE t \in Movers /\ EndAfterMove(s, t)
    BY <2>5, SeekEndSlots
  <2> QED
    BY <1>6, <2>1, <2>2, <2>3, <2>4, <2>5 DEF TaskStep
<1>7. ASSUME NEW b \in Boxes, LinkLost(b) \/ Reconnect(b) \/ ReadVerdict(b)
                              \/ \E l \in 1..MaxLinks : Teardown(b, l)
      PROVE  SlotInv'
  BY <1>7, LinkSlots
<1>8. CASE UNCHANGED <<tc_load, state, transcoder, task, raced>>
  BY <1>8, SlotIdle
<1>9. ASSUME NEW b \in Boxes, BoxStep(b) \/ \E s \in Sessions : WorkerDies(b, s)
      PROVE  SlotInv'
  <2>1. UNCHANGED <<tc_load, state, transcoder, task, raced>>
    BY <1>9 DEF BoxStep, BoxReady, BoxFails, BoxDrops, WorkerDies, history
  <2> QED
    BY <1>8, <2>1
<1>10. CASE UNCHANGED vars
  BY <1>8, <1>10 DEF vars, history
<1> QED
  BY <1>1, <1>2, <1>3, <1>5, <1>6, <1>7, <1>9, <1>10 DEF Next

(* Whoever has a slot is counted by Holders.                                                    *)
LEMMA OwnedHeld ==
    ASSUME NEW b \in Boxes
    PROVE  Cardinality(Owned(b)) <= Holders(b)
<1> DEFINE P == {x \in Sessions \X (Tasks \ {"seek"}) :
                    /\ task[x[1]][x[2]].box = b
                    /\ task[x[1]][x[2]].pc \in {"dispatch", "wait", "publish"}}
           A == {s \in Sessions : state[s] \in {"active", "ending"} /\ transcoder[s] = b}
           Q == {x \in Owned(b) : x[2] = "seek"}
           f == [x \in Q |-> x[1]]
<1>1. IsFiniteSet(A) /\ IsFiniteSet(P) /\ IsFiniteSet(Q)
  <2>1. A \subseteq Sessions /\ P \subseteq Sessions \X Tasks /\ Q \subseteq Sessions \X Tasks
    BY DEF Owned
  <2> QED
    BY <2>1, OwnedFinite, FleetAssumption, FS_Subset
<1>2. f \in Injection(Q, A)
  <2>1. f \in [Q -> A]
    BY DEF Owned, Has
  <2>2. \A x, y \in Q : f[x] = f[y] => x = y
    <3>1. \A x \in Q : x = <<x[1], "seek">>
      BY DEF Owned
    <3> QED
      BY <3>1
  <2> QED
    BY <2>1, <2>2 DEF Injection, IsInjective
<1>3. Cardinality(Q) <= Cardinality(A)
  BY <1>1, <1>2, FS_Injection
<1>4. Owned(b) \subseteq P \cup Q
  BY DEF Owned, Has, Busy
<1>5. IsFiniteSet(P \cup Q) /\ Cardinality(P \cup Q) = Cardinality(P) + Cardinality(Q) - Cardinality(P \cap Q)
  BY <1>1, FS_Union
<1>6. Cardinality(Owned(b)) <= Cardinality(P \cup Q) /\ IsFiniteSet(Owned(b))
  BY <1>4, <1>5, FS_Subset
<1>7. IsFiniteSet(P \cap Q)
  BY <1>1, FS_Subset
<1>8. Cardinality(A) \in Nat /\ Cardinality(P) \in Nat /\ Cardinality(Q) \in Nat
      /\ Cardinality(P \cap Q) \in Nat /\ Cardinality(Owned(b)) \in Nat /\ Cardinality(P \cup Q) \in Nat
  BY <1>1, <1>5, <1>6, <1>7, FS_CardinalityType
<1>9. Holders(b) = Cardinality(P) + Cardinality(A)
  BY DEF Holders
<1> HIDE DEF P, A, Q
<1> QED
  BY <1>3, <1>5, <1>6, <1>8, <1>9

(* No slot is leaked: while no session ended or sought under its own reschedule and none     *)
(* was abandoned, a box is never busier than the dispatches and sessions that hold it        *)
(* (registry.rs tc_session_started, tc_session_ended and their callers in sessions/).         *)
THEOREM FleetNoLeakedSlot == Spec => []NoLeakedSlot
<1>1. Init => SlotInv
  <2> SUFFICES ASSUME Init, NEW b \in Boxes
               PROVE  tc_load[b] <= Cardinality(Owned(b))
    BY DEF SlotInv
  <2>1. tc_load[b] = 0
    BY DEF Init
  <2>2. Cardinality(Owned(b)) \in Nat
    BY OwnedFinite, FS_CardinalityType
  <2> QED
    BY <2>1, <2>2
<1>2. FleetInv /\ FleetInv' /\ SlotInv /\ [Next]_vars => SlotInv'
  BY SlotNext
<1>3. FleetInv /\ SlotInv => NoLeakedSlot
  <2> SUFFICES ASSUME FleetInv, SlotInv, raced = {}, NEW b \in Boxes
               PROVE  tc_load[b] <= Holders(b)
    BY DEF NoLeakedSlot
  <2>1. tc_load[b] <= Cardinality(Owned(b)) /\ Cardinality(Owned(b)) <= Holders(b)
    BY OwnedHeld DEF SlotInv
  <2>2. tc_load[b] \in Nat /\ Cardinality(Owned(b)) \in Nat
    BY OwnedFinite, FS_CardinalityType, FleetAssumption DEF FleetInv, FleetTypes
  <2>3. Holders(b) \in Nat
    <3>1. {s \in Sessions : state[s] \in {"active", "ending"} /\ transcoder[s] = b} \subseteq Sessions
      OBVIOUS
    <3>2. {x \in Sessions \X (Tasks \ {"seek"}) :
                    /\ task[x[1]][x[2]].box = b
                    /\ task[x[1]][x[2]].pc \in {"dispatch", "wait", "publish"}}
          \subseteq Sessions \X Tasks
      OBVIOUS
    <3>3. /\ Cardinality({s \in Sessions : state[s] \in {"active", "ending"} /\ transcoder[s] = b}) \in Nat
          /\ Cardinality({x \in Sessions \X (Tasks \ {"seek"}) :
                    /\ task[x[1]][x[2]].box = b
                    /\ task[x[1]][x[2]].pc \in {"dispatch", "wait", "publish"}}) \in Nat
      BY <3>1, <3>2, OwnedFinite, FleetAssumption, FS_Subset, FS_CardinalityType
    <3> QED
      BY <3>3 DEF Holders
  <2> QED
    BY <2>1, <2>2, <2>3
<1> QED
  BY <1>1, <1>2, <1>3, FleetInvariant, PTL DEF Spec
=============================================================================
