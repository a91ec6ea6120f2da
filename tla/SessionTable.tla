---------------------------- MODULE SessionTable ----------------------------
(***************************************************************************)
(* The hub's table of playback sessions and the requests that change it:   *)
(* starts under the per-user cap, ends, the flag that tells background     *)
(* work that nobody is watching, and bursts of seeks.                      *)
(*                                                                         *)
(* The sessions are hub-local ones (Mode::Remux): the run is a worker the  *)
(* session owns, so ending the session must collect it, and a seek takes   *)
(* it out, ends it and puts a fresh one in.  A session on a transcoder is  *)
(* TranscodeFleet's.  All sessions belong to one user.  A run is named by  *)
(* the request that positioned it.                                         *)
(***************************************************************************)
EXTENDS Naturals, FiniteSets

CONSTANTS
    Ids,            \* sessions that may be started
    MaxPerUser,     \* Sessions::max_per_user
    Seekable,       \* the sessions whose viewers seek
    Seeks,          \* seek requests
    Picks,          \* the seeks that name an audio track
    NoRun,          \* the session owns no run
    AtStart,        \* the run the session started with
    NoSession,
    NoIntent,
    Nobody          \* seek_lock is free

\* PendingSeek: the newest generation merged, where to, and which track; and,
\* for the properties, the requests merged into it.
Intent == [generation : Nat, position : Seeks, audio : Seeks \cup {AtStart},
           covers : SUBSET Seeks]

ASSUME TableAssumption ==
    /\ MaxPerUser \in Nat \ {0}
    /\ Seekable \subseteq Ids
    /\ Picks \subseteq Seeks
    /\ {NoRun, AtStart} \cap Seeks = {}
    /\ NoSession \notin Ids
    /\ NoIntent \notin Intent
    /\ Nobody \notin Seeks \cup Ids

VARIABLES
    starting,       \* per session, where its start is
    reserved,       \* Sessions::reserved
    active,         \* Sessions::active
    idle,           \* Sessions::idle
    ending,         \* per session, where its end is
    run,            \* per session, Mode::Remux { run }
    plan,           \* per session, the seek whose audio track is planned
    pending,        \* per session, pending_seek
    generation,     \* per session, seek_gen
    done,           \* per session, seek_done: the outcome last stored
    ended,          \* per session, seek_ended
    lock,           \* per session, who holds seek_lock
    seek,           \* per seek, the request
    task,           \* per seek, the executor it spawned
    crossed,        \* a start and an end were between table and flag at once
    overtaken,      \* an intent was merged after a newer one
    refused,        \* seeks whose restart failed with the old run untouched
    unheard         \* seeks whose outcome was sent when nobody was subscribed

table == <<starting, reserved, active, idle, ending, crossed>>
history == <<overtaken, refused, unheard>>
seeking == <<plan, pending, generation, done, seek, task, history>>
vars == <<table, run, ended, lock, seeking>>

NoTask == [step |-> "none", todo |-> NoIntent]
NoSeek == [step |-> "none", session |-> NoSession, generation |-> 0]

Init ==
    /\ starting = [i \in Ids |-> "new"]
    /\ reserved = {}
    /\ active = {}
    /\ idle = TRUE
    /\ ending = [i \in Ids |-> "none"]
    /\ run = [i \in Ids |-> NoRun]
    /\ plan = [i \in Ids |-> AtStart]
    /\ pending = [i \in Ids |-> NoIntent]
    /\ generation = [i \in Ids |-> 0]
    /\ done = [i \in Ids |-> [generation |-> 0, ok |-> TRUE]]
    /\ ended = [i \in Ids |-> FALSE]
    /\ lock = [i \in Ids |-> Nobody]
    /\ seek = [r \in Seeks |-> NoSeek]
    /\ task = [r \in Seeks |-> NoTask]
    /\ crossed = FALSE
    /\ overtaken = FALSE
    /\ refused = {}
    /\ unheard = {}

(***************************************************************************)
(* Starting.                                                               *)
(***************************************************************************)

\* Variant: the count of sessions alone.
HeldActive == Cardinality(active)

\* What counts against the cap: admitted or active, each session once.
Held == Cardinality(reserved \cup active)

\* admit: count and reserve in one critical section, or refuse.
Admit(i) ==
    /\ starting[i] = "new"
    /\ IF Held >= MaxPerUser
       THEN starting' = [starting EXCEPT ![i] = "over"] /\ UNCHANGED reserved
       ELSE /\ starting' = [starting EXCEPT ![i] = "preparing"]
            /\ reserved' = reserved \cup {i}
    /\ UNCHANGED <<active, idle, ending, crossed, run, ended, lock, seeking>>

\* An error, or the caller going away: SlotGuard gives the slot back, and a
\* run the future held is dropped with it.
FailStart(i) ==
    /\ starting[i] = "preparing"
    /\ starting' = [starting EXCEPT ![i] = "over"]
    /\ reserved' = reserved \ {i}
    /\ UNCHANGED <<active, idle, ending, crossed, run, ended, lock, seeking>>

\* An end between its table change and its flag.
EndsFlagging == {i \in Ids : ending[i] \in {"last", "removed"}}

\* The pipeline is up and the session lands in the table.
Insert(i) ==
    /\ starting[i] = "preparing"
    /\ starting' = [starting EXCEPT ![i] = "inserted"]
    /\ active' = active \cup {i}
    /\ run' = [run EXCEPT ![i] = AtStart]
    /\ crossed' = (crossed \/ EndsFlagging # {})
    /\ UNCHANGED <<reserved, idle, ending, ended, lock, seeking>>

\* idle.send_replace(false), after the table's lock is gone.
FlagBusy(i) ==
    /\ starting[i] = "inserted"
    /\ starting' = [starting EXCEPT ![i] = "flagged"]
    /\ idle' = FALSE
    /\ UNCHANGED <<reserved, active, ending, crossed, run, ended, lock, seeking>>

Release(i) ==
    /\ starting[i] = "flagged"
    /\ starting' = [starting EXCEPT ![i] = "over"]
    /\ reserved' = reserved \ {i}
    /\ UNCHANGED <<active, idle, ending, crossed, run, ended, lock, seeking>>

(***************************************************************************)
(* Ending: by the viewer, the janitor, a lost mediahost, a deleted user.   *)
(***************************************************************************)

StartsFlagging == {i \in Ids : starting[i] = "inserted"}

\* Variant: a start that has not released its slot counts as somebody watching.
RemoveCountingReserved(i) ==
    /\ i \in active
    /\ active' = active \ {i}
    /\ ending' = [ending EXCEPT ![i] =
                    IF active' \cup reserved = {} THEN "last" ELSE "removed"]
    /\ crossed' = (crossed \/ StartsFlagging # {})
    /\ UNCHANGED <<starting, reserved, idle, run, ended, lock, seeking>>

\* Only the caller that removes the session goes on.
Remove(i) ==
    /\ i \in active
    /\ active' = active \ {i}
    /\ ending' = [ending EXCEPT ![i] = IF active' = {} THEN "last" ELSE "removed"]
    /\ crossed' = (crossed \/ StartsFlagging # {})
    /\ UNCHANGED <<starting, reserved, idle, run, ended, lock, seeking>>

\* seek_ended cancels a running restart; the last session raises the flag.
Cancel(i) ==
    /\ ending[i] \in {"last", "removed"}
    /\ ended' = [ended EXCEPT ![i] = TRUE]
    /\ idle' = (idle \/ ending[i] = "last")
    /\ ending' = [ending EXCEPT ![i] = "cancelled"]
    /\ UNCHANGED <<starting, reserved, active, crossed, run, lock, seeking>>

\* Variant: the run is taken without waiting for the seek.
CollectAtOnce(i) ==
    /\ ending[i] = "cancelled"
    /\ run' = [run EXCEPT ![i] = NoRun]
    /\ ending' = [ending EXCEPT ![i] = "over"]
    /\ UNCHANGED <<starting, reserved, active, idle, crossed, ended, lock, seeking>>

\* With the seek's lock held, the run is taken and ended.
Collect(i) ==
    /\ ending[i] = "cancelled"
    /\ lock[i] = Nobody
    /\ run' = [run EXCEPT ![i] = NoRun]
    /\ ending' = [ending EXCEPT ![i] = "over"]
    /\ UNCHANGED <<starting, reserved, active, idle, crossed, ended, lock, seeking>>

(***************************************************************************)
(* Seeking.                                                                *)
(***************************************************************************)

\* The request finds its session and draws a generation.
Draw(r, i) ==
    /\ seek[r].step = "none"
    /\ i \in active
    /\ generation' = [generation EXCEPT ![i] = @ + 1]
    /\ seek' = [seek EXCEPT ![r] = [step |-> "drawn", session |-> i,
                                    generation |-> generation[i] + 1]]
    /\ UNCHANGED <<table, run, ended, lock, plan, pending, done, task, history>>

\* Variant: the newer intent replaces the older one whole.
MergedWhole(prev, next) ==
    IF prev = NoIntent THEN next ELSE [next EXCEPT !.covers = @ \cup prev.covers]

\* PendingSeek::merge: the intent merged last has the position, an explicit
\* track survives one that names none.
Merged(prev, next) ==
    IF prev = NoIntent THEN next
    ELSE [next EXCEPT !.audio = IF @ = AtStart THEN prev.audio ELSE @,
                      !.covers = @ \cup prev.covers]

\* The intent is registered: a burst coalesces.
Merge(r) ==
    LET i == seek[r].session
        next == [generation |-> seek[r].generation, position |-> r,
                 audio |-> IF r \in Picks THEN r ELSE AtStart, covers |-> {r}]
    IN  /\ seek[r].step = "drawn"
        /\ pending' = [pending EXCEPT ![i] = Merged(@, next)]
        /\ seek' = [seek EXCEPT ![r].step = "merged"]
        /\ overtaken' = (overtaken \/ \E q \in Seeks :
                            /\ seek[q].session = i
                            /\ seek[q].generation > next.generation
                            /\ seek[q].step \notin {"none", "drawn"})
        /\ UNCHANGED <<table, run, ended, lock, plan, generation, done, task,
                       refused, unheard>>

\* Only now does the request listen for outcomes; its executor is spawned.
Subscribe(r) ==
    /\ seek[r].step = "merged"
    /\ seek' = [seek EXCEPT ![r].step = "waiting"]
    /\ task' = [task EXCEPT ![r].step = "queued"]
    /\ UNCHANGED <<table, run, ended, lock, plan, pending, generation, done, history>>

\* The executor takes the lock and the newest intent; without one an earlier
\* executor has covered this request.
Take(r) ==
    LET i == seek[r].session
    IN  /\ task[r].step = "queued"
        /\ lock[i] = Nobody
        /\ IF pending[i] = NoIntent
           THEN /\ task' = [task EXCEPT ![r].step = "over"]
                /\ UNCHANGED <<lock, pending>>
           ELSE /\ lock' = [lock EXCEPT ![i] = r]
                /\ pending' = [pending EXCEPT ![i] = NoIntent]
                /\ task' = [task EXCEPT ![r] = [step |-> "taken", todo |-> pending[i]]]
        /\ UNCHANGED <<table, run, ended, plan, generation, done, seek, history>>

\* execute_seek fails before it touches anything: no restartable pipeline, a
\* loudness lookup, a track the executor cannot play, a panic; or the session
\* has ended and its future is dropped.  The old run plays on, as planned.
Refuse(r) ==
    /\ task[r].step = "taken"
    /\ task' = [task EXCEPT ![r].step = "failed"]
    /\ refused' = refused \cup task[r].todo.covers
    /\ UNCHANGED <<table, run, ended, lock, plan, pending, generation, done, seek,
                   overtaken, unheard>>

\* A track switch has its new plan, then the old run is taken and ended.
Stop(r) ==
    LET i == seek[r].session
    IN  /\ task[r].step = "taken"
        /\ ~ended[i]
        /\ plan' = [plan EXCEPT ![i] = IF task[r].todo.audio = AtStart
                                       THEN @ ELSE task[r].todo.audio]
        /\ run' = [run EXCEPT ![i] = NoRun]
        /\ task' = [task EXCEPT ![r].step = "stopped"]
        /\ UNCHANGED <<table, ended, lock, pending, generation, done, seek, history>>

\* The fresh run is up and becomes the session's.
Restart(r) ==
    /\ task[r].step = "stopped"
    /\ run' = [run EXCEPT ![seek[r].session] = task[r].todo.position]
    /\ task' = [task EXCEPT ![r].step = "restarted"]
    /\ UNCHANGED <<table, ended, lock, plan, pending, generation, done, seek, history>>

\* No lease, no pipeline on either sink, a panic; or the session ended first
\* and the restart's future is dropped, a run it held with it.
GiveUp(r) ==
    /\ task[r].step = "stopped"
    /\ task' = [task EXCEPT ![r].step = "failed"]
    /\ UNCHANGED <<table, run, ended, lock, plan, pending, generation, done,
                   seek, history>>

\* The requests with a receiver of session i's seek_done.
Listening(i) == {q \in Seeks : seek[q].session = i /\ seek[q].step = "waiting"}

\* Variant: a restart that was cancelled has nothing to publish.
PublishIfRunning(r) ==
    LET i == seek[r].session
        todo == task[r].todo
    IN  /\ task[r].step \in {"restarted", "failed"}
        /\ IF Listening(i) # {}
           THEN /\ done' = IF ended[i] THEN done
                           ELSE [done EXCEPT ![i] = [generation |-> todo.generation,
                                                     ok |-> task[r].step = "restarted"]]
                /\ UNCHANGED unheard
           ELSE /\ unheard' = unheard \cup {q \in Seeks :
                                  /\ seek[q].session = i /\ seek[q].step = "merged"
                                  /\ seek[q].generation <= todo.generation}
                /\ UNCHANGED done
        /\ lock' = [lock EXCEPT ![i] = Nobody]
        /\ task' = [task EXCEPT ![r] = [step |-> "over", todo |-> NoIntent]]
        /\ UNCHANGED <<table, run, ended, plan, pending, generation, seek,
                       overtaken, refused>>

\* Whatever came of it, the outcome is sent and the lock released.  The
\* channel keeps the outcome only if somebody has a receiver.
Publish(r) ==
    LET i == seek[r].session
        todo == task[r].todo
    IN  /\ task[r].step \in {"restarted", "failed"}
        /\ IF Listening(i) # {}
           THEN /\ done' = [done EXCEPT ![i] = [generation |-> todo.generation,
                                                ok |-> task[r].step = "restarted"]]
                /\ UNCHANGED unheard
           ELSE /\ unheard' = unheard \cup {q \in Seeks :
                                  /\ seek[q].session = i /\ seek[q].step = "merged"
                                  /\ seek[q].generation <= todo.generation}
                /\ UNCHANGED done
        /\ lock' = [lock EXCEPT ![i] = Nobody]
        /\ task' = [task EXCEPT ![r] = [step |-> "over", todo |-> NoIntent]]
        /\ UNCHANGED <<table, run, ended, plan, pending, generation, seek,
                       overtaken, refused>>

\* The request is answered by the restart that covers it, its own or a newer,
\* with what came of it.
Answer(r) ==
    LET outcome == done[seek[r].session]
    IN  /\ seek[r].step = "waiting"
        /\ outcome.generation >= seek[r].generation
        /\ seek' = [seek EXCEPT ![r].step = IF outcome.ok THEN "answered" ELSE "failed"]
        /\ UNCHANGED <<table, run, ended, lock, plan, pending, generation, done,
                       task, history>>

\* The client disconnects, or 60 s are over; the executor is detached and
\* goes on.
Abandon(r) ==
    /\ seek[r].step = "waiting"
    /\ seek' = [seek EXCEPT ![r].step = "abandoned"]
    /\ UNCHANGED <<table, run, ended, lock, plan, pending, generation, done,
                   task, history>>

StartStep(i) == Insert(i) \/ FailStart(i) \/ FlagBusy(i) \/ Release(i)
EndStep(i) == Cancel(i) \/ Collect(i)
SeekStep(r) == Merge(r) \/ Subscribe(r) \/ Answer(r)
TaskStep(r) ==
    Take(r) \/ Refuse(r) \/ Stop(r) \/ Restart(r) \/ GiveUp(r) \/ Publish(r)

Next ==
    \/ \E i \in Ids : Admit(i) \/ StartStep(i) \/ Remove(i) \/ EndStep(i)
    \/ \E r \in Seeks : \/ \E i \in Seekable : Draw(r, i)
                        \/ SeekStep(r) \/ TaskStep(r) \/ Abandon(r)

\* Tasks run, waits are bounded and the lock is a fair mutex; nobody has to
\* start, end or seek.
Fairness ==
    /\ \A i \in Ids : WF_vars(StartStep(i)) /\ SF_vars(EndStep(i))
    /\ \A r \in Seeks : WF_vars(SeekStep(r)) /\ SF_vars(TaskStep(r))

Spec == Init /\ [][Next]_vars /\ Fairness

(***************************************************************************)
(* Properties.                                                             *)
(***************************************************************************)

\* Starts that arrive together do not slip past the cap: however they and the
\* ends interleave, a user never has more sessions active or coming up.
CapHolds ==
    Cardinality(active \cup {i \in Ids : starting[i] \in {"preparing", "inserted"}})
        <= MaxPerUser

\* An ended session leaves no worker behind: neither the one it owned nor one
\* a seek was bringing up when the end came.
NoRunAfterEnd ==
    \A i \in Ids : ending[i] = "over" =>
        /\ run[i] = NoRun
        /\ \A r \in Seeks : seek[r].session = i => task[r].step # "stopped"

\* Nothing is under way that could change what session i plays.
Quiet(i) ==
    /\ i \in active
    /\ pending[i] = NoIntent
    /\ \A r \in Seeks : seek[r].session = i =>
          seek[r].step # "drawn" /\ task[r].step \in {"none", "over"}

\* The seek of session i among S with the highest generation.
Newest(i, S) ==
    IF \E r \in S : seek[r].session = i
    THEN CHOOSE r \in S : /\ seek[r].session = i
                          /\ \A q \in S : seek[q].session = i =>
                                seek[q].generation <= seek[r].generation
    ELSE AtStart

\* A burst of seeks ends where the viewer last pointed, on the track last
\* chosen explicitly, leaving out the requests whose restart failed with the
\* old run still playing, or with no run when it failed later; and a viewer
\* told that the newest seek succeeded is watching it.  Provided the intents
\* were merged in the order their generations were drawn.
LastSeekPlays ==
    \A i \in Ids : Quiet(i) /\ ~overtaken =>
        /\ run[i] \in {NoRun, Newest(i, Seeks \ refused)}
        /\ plan[i] = Newest(i, Picks \ refused)
        /\ \A r \in Seeks :
              /\ seek[r].session = i /\ seek[r].step = "answered"
              /\ \A q \in Seeks : seek[q].session = i =>
                    seek[q].generation <= seek[r].generation
              => run[i] = r

\* The flag background work waits on tells whether somebody is watching, once
\* the starts and ends that touched the table have set it; provided none of
\* them crossed between table and flag.
IdleIsTruth ==
    (EndsFlagging = {} /\ StartsFlagging = {} /\ ~crossed) => (idle <=> active = {})

\* Every request that waits is answered by a restart that covers it, not left
\* to its timeout, though the session end, the client of an earlier seek go
\* away or the restart fail meanwhile; unless the outcome was sent between the
\* request's merge and its subscription, with nobody else listening.
SeekAnswered ==
    \A r \in Seeks : seek[r].step = "waiting" ~>
        \/ seek[r].step \in {"answered", "failed", "abandoned"}
        \/ r \in unheard
        \/ overtaken
=============================================================================
