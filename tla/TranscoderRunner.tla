--------------------------- MODULE TranscoderRunner ---------------------------
(***************************************************************************)
(* Runner (kahawai-transcoder/src/sessions.rs) for ONE session id over ONE *)
(* link to the hub, with the link loop that feeds it (lib.rs).             *)
(*                                                                         *)
(* StartSession spawns a task; EndSession runs inside the link loop; both  *)
(* call `end`, and a start calls it before it begins.  A step is what one  *)
(* thread does between two locks or awaits.  Process 0 is the link loop, n *)
(* the task of the n-th StartSession.  An aborted task is dropped at an    *)
(* await; between awaits it goes on.                                       *)
(***************************************************************************)
EXTENDS Integers, Sequences, FiniteSets

CONSTANTS
    Starts,     \* StartSession messages of the session, numbered as they come
    MaxEnds,    \* bound: EndSession messages
    MaxCrashes  \* bound: workers that die once they play

ASSUME RunnerAssumption ==
    /\ IsFiniteSet(Starts) /\ Starts = 1..Cardinality(Starts)
    /\ MaxEnds \in Nat
    /\ MaxCrashes \in Nat

VARIABLES
    asked,      \* StartSessions taken off the link
    ends,       \* EndSessions taken off the link
    at,         \* [process -> where it is]
    victim,     \* [process -> the aborted task it waits for in `settle`, or 0]
    aborted,    \* tasks whose AbortHandle was used
    gen,        \* [Starts -> the task's generation, or 0]
    latest,     \* Generations.latest
    ended,      \* Generations.ended
    closed,     \* Starting.closed
    pending,    \* Starting.pending: the task recorded for the session, or 0
    entry,      \* `sessions`: the start whose run is registered, or 0
    crashed,    \* the registered run's worker died and its death watch has
                \*   not told the hub yet
    crashes,    \* workers that died so far
    said,       \* verdicts sent, in order: [start, ready]
    revoked,    \* history: starts taken before the last completed EndSession
    crossed     \* history: starts that were in flight together with another

runnerVars == <<latest, ended, closed, pending, entry, crashed>>
vars == <<asked, ends, at, victim, aborted, gen, runnerVars, crashes, said,
          revoked, crossed>>

Processes == Starts \cup {0}

Over == {"done", "dropped"}

(* Where a task can be dropped.                                             *)
Awaiting == {"spawned", "settle", "stop", "preroll", "answer", "discard"}

(* Tasks that run on.                                                       *)
Running(n) == at[n] \notin Over \cup {"none"}

Goes(p, where) == at' = [at EXCEPT ![p] = where]
Says(n, ready) == said' = Append(said, [start |-> n, ready |-> ready])

(* Past a lock, and past an await unless the task was aborted.               *)
May(p) == p \in aborted => at[p] \notin Awaiting \ {"answer"}

(* The task of a start returns: it forgets itself, unless a newer start has *)
(* taken the slot.                                                          *)
Forget(n) == pending' = IF pending = n THEN 0 ELSE pending

(* What `settle` waits for: the cancelled start is gone, or it sits in a     *)
(* blocking pipeline call and two seconds have passed.                       *)
Gone(n) == n = 0 \/ at[n] \in Over \cup {"preroll"}

(* Tasks that can still register a run, or cancel the start of another: an    *)
(* aborted one only between awaits.                                           *)
Rising ==
    {n \in Starts :
        \/ at[n] \in {"spawned", "settle", "take", "stop", "number"} /\ n \notin aborted
        \/ at[n] \in {"preroll", "check"} /\ ended < gen[n] /\ May(n)
        \/ at[n] \in {"cancel", "register"}}

Init ==
    /\ asked = 0
    /\ ends = 0
    /\ at = [p \in Processes |-> IF p = 0 THEN "ready" ELSE "none"]
    /\ victim = [p \in Processes |-> 0]
    /\ aborted = {}
    /\ gen = [n \in Starts |-> 0]
    /\ latest = 0
    /\ ended = 0
    /\ closed = FALSE
    /\ pending = 0
    /\ entry = 0
    /\ crashed = FALSE
    /\ crashes = 0
    /\ said = <<>>
    /\ revoked = {}
    /\ crossed = {}

-----------------------------------------------------------------------------
(* link_loop.  The hub (external) sends its messages in any order; they are  *)
(* taken one at a time.                                                      *)

(* runner.start: spawned and recorded under the admission lock.             *)
TakeStart ==
    /\ at[0] = "ready"
    /\ asked + 1 \in Starts
    /\ asked' = asked + 1
    /\ Goes(asked + 1, "spawned")
    /\ pending' = asked + 1
    /\ LET others == Rising \cup {n \in Starts : at[n] = "answer"}
       IN  crossed' = crossed \cup
                        (IF others = {} THEN {} ELSE others \cup {asked + 1})
    /\ UNCHANGED <<ends, victim, aborted, gen, latest, ended, closed, entry,
                   crashed, crashes, said, revoked>>

(* runner.end, inline: the generations first.                               *)
TakeEnd ==
    /\ at[0] = "ready"
    /\ ends < MaxEnds
    /\ ends' = ends + 1
    /\ ended' = latest
    /\ Goes(0, "cancel")
    /\ UNCHANGED <<asked, victim, aborted, gen, latest, closed, pending, entry,
                   crashed, crashes, said, revoked, crossed>>

(* Mutant: the starts still prerolling are left out of the teardown.         *)
CloseLinkOnly ==
    /\ at[0] = "ready"
    /\ closed' = TRUE
    /\ Goes(0, "drain")
    /\ UNCHANGED <<asked, ends, victim, aborted, gen, latest, ended, pending, entry,
                   crashed, crashes, said, revoked, crossed>>

(* The link loop returned: end_all closes admission and drains the pending   *)
(* table.                                                                    *)
CloseLink ==
    /\ at[0] = "ready"
    /\ closed' = TRUE
    /\ pending' = 0
    /\ aborted' = aborted \cup ({pending} \ {0})
    /\ victim' = [victim EXCEPT ![0] = pending]
    /\ Goes(0, "drain")
    /\ UNCHANGED <<asked, ends, gen, latest, ended, entry, crashed, crashes, said, revoked, crossed>>

(* end_all has waited for the cancelled start: every generation is marked    *)
(* ended, then the registered sessions are ended.                            *)
Drained ==
    /\ at[0] = "drain"
    /\ Gone(victim[0])
    /\ ended' = latest
    /\ victim' = [victim EXCEPT ![0] = 0]
    /\ Goes(0, IF entry = 0 THEN "over" ELSE "cancel")
    /\ UNCHANGED <<asked, ends, aborted, gen, latest, closed, pending, entry,
                   crashed, crashes, said, revoked, crossed>>

(* The certificate is due for renewal: the select in `run` drops link_once at *)
(* an await, a run it was ending with it.  end_all is not reached, and the    *)
(* tasks spawned go on.                                                       *)
RenewalDue ==
    /\ at[0] \in {"ready", "drain", "settle", "stop"}
    /\ victim' = [victim EXCEPT ![0] = 0]
    /\ Goes(0, "cut")
    /\ UNCHANGED <<asked, ends, aborted, gen, runnerVars, crashes, said, revoked, crossed>>

(* Mutant: a run is not stopped when it is dropped, and its watcher keeps the  *)
(* worker alive.                                                              *)
DropRunnerOnly ==
    /\ at[0] = "cut"
    /\ \A n \in Starts : ~Running(n)
    /\ crashed
    /\ crashed' = FALSE
    /\ UNCHANGED <<asked, ends, at, victim, aborted, gen, latest, ended, closed, pending,
                   entry, crashes, said, revoked, crossed>>

(* Without its link loop the Runner belongs to its start tasks; the last one   *)
(* takes it along, and the registered run, dropped, stops its worker.         *)
DropRunner ==
    /\ at[0] = "cut"
    /\ \A n \in Starts : ~Running(n)
    /\ entry # 0
    /\ entry' = 0
    /\ crashed' = FALSE
    /\ UNCHANGED <<asked, ends, at, victim, aborted, gen, latest, ended, closed, pending,
                   crashes, said, revoked, crossed>>

-----------------------------------------------------------------------------
(* start_inner, and `end` for the link loop and for a start alike.          *)

(* The start's message does not decode: refused, nothing was touched.        *)
Undecodable(n) ==
    /\ at[n] = "spawned"
    /\ May(n)
    /\ Says(n, FALSE)
    /\ Goes(n, "done")
    /\ Forget(n)
    /\ UNCHANGED <<asked, ends, victim, aborted, gen, latest, ended, closed, entry,
                   crashed, crashes, revoked, crossed>>

(* `end` for the predecessor: its generation is marked.                      *)
BeginStart(n) ==
    /\ at[n] = "spawned"
    /\ May(n)
    /\ ended' = latest
    /\ Goes(n, "cancel")
    /\ UNCHANGED <<asked, ends, victim, aborted, gen, latest, closed, pending,
                   entry, crashed, crashes, said, revoked, crossed>>

(* Mutant: `end` does not cancel the start that is prerolling.               *)
CancelNothing(p) ==
    /\ at[p] = "cancel"
    /\ Goes(p, "take")
    /\ UNCHANGED <<asked, ends, victim, aborted, gen, runnerVars, crashes, said,
                   revoked, crossed>>

(* The recorded start is cancelled outright, unless it is the caller.        *)
CancelPending(p) ==
    /\ at[p] = "cancel"
    /\ IF pending \in {0, p}
       THEN /\ Goes(p, "take")
            /\ UNCHANGED <<pending, aborted, victim>>
       ELSE /\ pending' = 0
            /\ aborted' = aborted \cup {pending}
            /\ victim' = [victim EXCEPT ![p] = pending]
            /\ Goes(p, "settle")
    /\ UNCHANGED <<asked, ends, gen, latest, ended, closed, entry, crashed, crashes,
                   said, revoked, crossed>>

(* settle returns.                                                           *)
Settled(p) ==
    /\ at[p] = "settle"
    /\ May(p)
    /\ Gone(victim[p])
    /\ victim' = [victim EXCEPT ![p] = 0]
    /\ Goes(p, "take")
    /\ UNCHANGED <<asked, ends, aborted, gen, runnerVars, crashes, said, revoked,
                   crossed>>

Returned(p) == IF p # 0 THEN "number" ELSE IF closed THEN "over" ELSE "ready"

(* What an `end` of the link loop has put behind it once it returns.          *)
Revoking(p, where) ==
    revoked' = IF p = 0 /\ where # "stop"
               THEN revoked \cup {n \in Starts : at[n] # "none"} ELSE revoked

(* The registered run is taken out, its death watch aborted; ending it takes  *)
(* a while.                                                                   *)
TakeSession(p) ==
    /\ at[p] = "take"
    /\ entry' = 0
    /\ crashed' = FALSE
    /\ LET where == IF entry = 0 THEN Returned(p) ELSE "stop"
       IN  Goes(p, where) /\ Revoking(p, where)
    /\ UNCHANGED <<asked, ends, victim, aborted, gen, latest, ended, closed, pending,
                   crashes, said, crossed>>

RunStopped(p) ==
    /\ at[p] = "stop"
    /\ May(p)
    /\ Goes(p, Returned(p))
    /\ Revoking(p, Returned(p))
    /\ UNCHANGED <<asked, ends, victim, aborted, gen, runnerVars, crashes, said,
                   crossed>>

(* Mutant: the generation is drawn before the predecessor is ended, and so   *)
(* the start reads its own end as another's.                                 *)
TakeNoGeneration(n) ==
    /\ at[n] = "number"
    /\ gen' = [gen EXCEPT ![n] = latest]
    /\ Goes(n, "preroll")
    /\ UNCHANGED <<asked, ends, victim, aborted, runnerVars, crashes, said, revoked,
                   crossed>>

TakeGeneration(n) ==
    /\ at[n] = "number"
    /\ latest' = latest + 1
    /\ gen' = [gen EXCEPT ![n] = latest + 1]
    /\ Goes(n, "preroll")
    /\ UNCHANGED <<asked, ends, victim, aborted, ended, closed, pending, entry,
                   crashed, crashes, said, revoked, crossed>>

(* executor.start (external) has a playlist.                                 *)
Prerolled(n) ==
    /\ at[n] = "preroll"
    /\ May(n)
    /\ Goes(n, "check")
    /\ UNCHANGED <<asked, ends, victim, aborted, gen, runnerVars, crashes, said,
                   revoked, crossed>>

(* executor.start failed: the hub is told, stale or not.                     *)
PrerollFailed(n) ==
    /\ at[n] = "preroll"
    /\ May(n)
    /\ Says(n, FALSE)
    /\ Goes(n, "done")
    /\ Forget(n)
    /\ UNCHANGED <<asked, ends, victim, aborted, gen, latest, ended, closed, entry,
                   crashed, crashes, revoked, crossed>>

(* Mutant: no stale check.                                                   *)
PassStale(n) ==
    /\ at[n] = "check"
    /\ Goes(n, "register")
    /\ UNCHANGED <<asked, ends, victim, aborted, gen, runnerVars, crashes, said,
                   revoked, crossed>>

CheckStale(n) ==
    /\ at[n] = "check"
    /\ Goes(n, IF ended >= gen[n] THEN "discard" ELSE "register")
    /\ UNCHANGED <<asked, ends, victim, aborted, gen, runnerVars, crashes, said,
                   revoked, crossed>>

(* A run that was registered already is dropped, and dies.                   *)
RegisterSession(n) ==
    /\ at[n] = "register"
    /\ entry' = n
    /\ crashed' = FALSE
    /\ Goes(n, "answer")
    /\ UNCHANGED <<asked, ends, victim, aborted, gen, latest, ended, closed, pending,
                   crashes, said, revoked, crossed>>

SendReady(n) ==
    /\ at[n] = "answer"
    /\ Says(n, TRUE)
    /\ Goes(n, "done")
    /\ Forget(n)
    /\ UNCHANGED <<asked, ends, victim, aborted, gen, latest, ended, closed, entry,
                   crashed, crashes, revoked, crossed>>

(* A superseded start has ended its own run, without a word.                 *)
Discarded(n) ==
    /\ at[n] = "discard"
    /\ May(n)
    /\ Goes(n, "done")
    /\ Forget(n)
    /\ UNCHANGED <<asked, ends, victim, aborted, gen, latest, ended, closed, entry,
                   crashed, crashes, said, revoked, crossed>>

(* The runtime drops an aborted task, and with it its run.                   *)
Drop(n) ==
    /\ n \in aborted
    /\ at[n] \in Awaiting
    /\ Goes(n, "dropped")
    /\ UNCHANGED <<asked, ends, victim, aborted, gen, runnerVars, crashes, said,
                   revoked, crossed>>

-----------------------------------------------------------------------------
(* watch_death.                                                             *)

WorkerDies ==
    /\ entry # 0
    /\ crashes < MaxCrashes
    /\ crashes' = crashes + 1
    /\ crashed' = TRUE
    /\ UNCHANGED <<asked, ends, at, victim, aborted, gen, latest, ended, closed,
                   pending, entry, said, revoked, crossed>>

TellDeath ==
    /\ crashed
    /\ Says(entry, FALSE)
    /\ crashed' = FALSE
    /\ UNCHANGED <<asked, ends, at, victim, aborted, gen, latest, ended, closed,
                   pending, entry, crashes, revoked, crossed>>

-----------------------------------------------------------------------------

StartStep(n) ==
    \/ Undecodable(n) \/ BeginStart(n) \/ TakeGeneration(n) \/ Prerolled(n)
    \/ PrerollFailed(n) \/ CheckStale(n) \/ RegisterSession(n) \/ SendReady(n)
    \/ Discarded(n) \/ Drop(n)

EndStep(p) ==
    CancelPending(p) \/ Settled(p) \/ TakeSession(p) \/ RunStopped(p)

Next ==
    \/ TakeStart \/ TakeEnd \/ CloseLink \/ Drained \/ RenewalDue \/ DropRunner
    \/ \E p \in Processes : EndStep(p)
    \/ \E n \in Starts : StartStep(n)
    \/ WorkerDies \/ TellDeath

(* Tokio polls every task that is ready and drops the ones aborted; a worker *)
(* comes up or fails (executor.start has a deadline); ending a run is        *)
(* bounded.                                                                  *)
Fairness ==
    /\ WF_vars(Drained) /\ WF_vars(DropRunner)
    /\ \A p \in Processes : WF_vars(EndStep(p))
    /\ \A n \in Starts : WF_vars(StartStep(n))

Spec == Init /\ [][Next]_vars /\ Fairness

-----------------------------------------------------------------------------
(* The box the hub deals with.                                               *)

TheBox ==
    [waiting |-> Rising,
     stale   |-> {n \in Starts : Running(n) /\ at[n] # "answer"} \ Rising,
     due     |-> {n \in Starts : at[n] = "answer"},
     playing |-> entry,
     crossed |-> crossed,
     revoked |-> revoked]

Contract == INSTANCE TranscoderBox WITH box <- TheBox

(* The runner keeps the promise the hub builds on.                            *)
KeepsContract == Contract!BoxSpec

-----------------------------------------------------------------------------
(* Properties                                                                *)

(* Every variable has its type, and nobody waits in `settle` for itself or    *)
(* for a start that was not cancelled.                                        *)
TypeOK ==
    /\ asked \in 0..Cardinality(Starts)
    /\ ends \in 0..MaxEnds
    /\ at \in [Processes -> Awaiting \cup Over \cup
               {"none", "ready", "drain", "over", "cut", "cancel", "take", "number", "check",
                "register"}]
    /\ victim \in [Processes -> Starts \cup {0}]
    /\ aborted \subseteq Starts
    /\ gen \in [Starts -> 0..Cardinality(Starts)]
    /\ latest \in 0..Cardinality(Starts)
    /\ ended \in 0..latest
    /\ closed \in BOOLEAN
    /\ pending \in Processes
    /\ entry \in Processes
    /\ crashed \in BOOLEAN /\ (crashed => entry # 0)
    /\ crashes \in 0..MaxCrashes
    /\ said \in Seq([start : Starts, ready : BOOLEAN])
    /\ revoked \subseteq Starts
    /\ crossed \subseteq Starts
    /\ \A p \in Processes : victim[p] # 0 => victim[p] # p /\ victim[p] \in aborted

(* Once an EndSession has been carried out, no start that came before it is   *)
(* ever registered again, however it was caught: not begun, ending its        *)
(* predecessor, prerolling or about to register.  Two starts in flight at     *)
(* once share one place in the table, and one of them may escape its end.     *)
EndIsFinal == entry \notin revoked \ crossed

(* When end_all has torn the link down, no run is registered and every start  *)
(* is gone, cancelled or stale: nothing of this link can come up in the        *)
(* scratch the next one sweeps.  Only a start in flight together with another  *)
(* escapes.  A link cut for a renewal has no such teardown: see below.         *)
TeardownReachesAll ==
    at[0] = "over" =>
        /\ entry \in {0} \cup crossed
        /\ \A n \in Starts \ crossed : Running(n) => n \in aborted

(* A link cut for a renewal leaves its starts and its run behind, but not for  *)
(* good: the starts come to an end, and with the last one the run that was     *)
(* registered, before or after the cut, is stopped.                            *)
CutLeavesNothing ==
    (at[0] = "cut") ~> (entry = 0 /\ \A n \in Starts : ~Running(n))

(* A start that meets neither an EndSession, the end of the link nor another    *)
(* start is answered: the hub's dispatch does not sit out its 40 s.              *)
Answered ==
    \A n \in Starts :
        (at[n] = "spawned") ~>
            (\/ \E i \in DOMAIN said : said[i].start = n
             \/ n \in revoked \/ n \in crossed \/ closed \/ at[0] = "cut")
=============================================================================
