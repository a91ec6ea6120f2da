---------------------------- MODULE WorkScheduler ----------------------------
(***************************************************************************)
(* The mediahost's process-wide admission authority (scheduler.rs): jobs   *)
(* wait for a bundle of CPU, storage domains and named resources, run,     *)
(* yield at their checkpoints when something more valuable wants what they *)
(* hold, and resume; viewers enter without waiting and pause what they     *)
(* collide with.                                                           *)
(*                                                                         *)
(* Every entry point takes the state mutex, changes the tables, asks for   *)
(* preemption and then runs the dispatch loop.  The loop stores the flags  *)
(* of one job at a time, and workers read those flags WITHOUT the mutex,   *)
(* so the loop is a phase here: while `dispatching`, no entry point can    *)
(* run, but a worker may look at its flags.                                *)
(***************************************************************************)
EXTENDS Integers, FiniteSets

CONSTANTS
    Jobs,         \* acquisitions; each one is a worker with its Control
    Workloads,    \* the requests the jobs make: a set of [Jobs -> Request]
    Owners,       \* hub links that own jobs and hints
    Domains,      \* storage domains
    Exclusives,   \* named singleton resources
    Sources,      \* files a viewer's hint may name
    Levels,       \* priorities in use; a smaller one is more valuable
    Viewers,      \* interactive guards, each entered once
    Interactions, \* resource bundles a viewer may enter with
    CpuSlots,     \* config.cpu_slots
    IoCapacity,   \* [Domains -> operations admitted at once]
    MaxHints,     \* bound: hints sent
    MaxCancels,   \* bound: links that drop and cancel their jobs
    MaxYields     \* bound: times a job reaches a checkpoint and yields

Demand == 0

Resources == [cpu : {0, 1}, io : SUBSET Domains, exclusive : SUBSET Exclusives]

Nothing == [cpu |-> 0, io |-> {}, exclusive |-> {}]

(* What a caller of acquire / acquire_segments asks for, and whether its   *)
(* checkpoints block a thread (checkpoint_blocking) or await (checkpoint). *)
Request == [priority : Levels, resources : Resources, owner : Owners,
            sources : SUBSET Sources, blocking : BOOLEAN]

ASSUME SchedulerAssumption ==
    /\ IsFiniteSet(Jobs) /\ IsFiniteSet(Viewers)
    /\ Levels \subseteq Nat /\ Demand \in Levels
    /\ Workloads \subseteq [Jobs -> Request]
    /\ Interactions \subseteq Resources
    /\ CpuSlots \in Nat \ {0}
    /\ IoCapacity \in [Domains -> Nat \ {0}]
    /\ MaxHints \in Nat /\ MaxCancels \in Nat /\ MaxYields \in Nat

VARIABLES
    request,     \* [Jobs -> Request], chosen once
    pending,     \* State.pending
    active,      \* State.active
    priority,    \* effective priority, as the last refresh left it
    sequence,    \* [Jobs -> arrival number], 0 before it arrives
    nextSequence,
    served,      \* State.served: admissions by priority and owner
    interactive, \* State.interactive: viewers inside
    visit,       \* [Viewers -> the bundle it entered with]
    visited,     \* viewers that have entered
    hints,       \* unexpired hints, <<owner, source>>
    hinted,      \* hints sent so far
    cancels,     \* cancellations so far
    granted, pause, cancelled, \* the atomics of each job's Control
    notified,    \* the waiter's notification has fired
    pc,          \* where each job's worker is
    resumed,     \* the worker waits in a checkpoint, not in acquire
    yields,      \* times each job has yielded
    dispatching  \* the mutex is held by the dispatch loop

tables  == <<pending, active, priority, sequence, nextSequence, served>>
visits  == <<interactive, visit, visited>>
demand  == <<hints, hinted, cancels>>
control == <<granted, pause, cancelled, notified>>
worker  == <<pc, resumed, yields>>
vars == <<request, tables, visits, demand, control, worker, dispatching>>

OwnerOf(j) == request[j].owner
Needs(j)   == request[j].resources

(***************************************************************************)
(* Resources and capacity.                                                 *)
(***************************************************************************)

Conflicts(a, b) ==
    \/ a.cpu # 0 /\ b.cpu # 0
    \/ a.io \cap b.io # {}
    \/ a.exclusive \cap b.exclusive # {}

Interrupted(r, inside) == \E v \in inside : Conflicts(visit[v], r)

UsedCpu(running)   == Cardinality({j \in running : Needs(j).cpu # 0})
UsedIo(running, d) == Cardinality({j \in running : d \in Needs(j).io})

(* Mutant of Available: one operation too many per storage domain.         *)
AvailableOverCommitted(j, running, inside) ==
    /\ ~Interrupted(Needs(j), inside)
    /\ UsedCpu(running) + Needs(j).cpu <= CpuSlots
    /\ \A d \in Needs(j).io : UsedIo(running, d) <= IoCapacity[d]
    /\ \A k \in running : Needs(k).exclusive \cap Needs(j).exclusive = {}

Available(j, running, inside) ==
    /\ ~Interrupted(Needs(j), inside)
    /\ UsedCpu(running) + Needs(j).cpu <= CpuSlots
    /\ \A d \in Needs(j).io : UsedIo(running, d) < IoCapacity[d]
    /\ \A k \in running : Needs(k).exclusive \cap Needs(j).exclusive = {}

(***************************************************************************)
(* Priorities and preemption.                                              *)
(***************************************************************************)

(* refresh_demand_priorities: a live hint on one of its sources makes a    *)
(* job demand; without one it falls back to its base priority.             *)
Refreshed(queued, live) ==
    [j \in Jobs |->
        IF j \notin queued THEN request[j].priority
        ELSE IF \E h \in live : h[2] \in request[j].sources
             THEN Demand
             ELSE request[j].priority]

(* What the pending job k finds full.                                      *)
CpuFull(k, running) ==
    Needs(k).cpu # 0 /\ UsedCpu(running) + Needs(k).cpu > CpuSlots
FullIo(k, running) ==
    {d \in Needs(k).io : UsedIo(running, d) >= IoCapacity[d]}

Blocks(j, k, running) ==
    \/ CpuFull(k, running) /\ Needs(j).cpu # 0
    \/ Needs(j).io \cap FullIo(k, running) # {}
    \/ Needs(j).exclusive \cap Needs(k).exclusive # {}

(* Mutant of Paused: it asks for room only on behalf of demand.            *)
PausedForDemand(waiting, running, prio, inside) ==
    [j \in Jobs |->
        IF j \notin running THEN pause[j] /\ j \in waiting
        ELSE \/ Interrupted(Needs(j), inside)
             \/ \E k \in waiting :
                    /\ ~Interrupted(Needs(k), inside)
                    /\ prio[k] = Demand /\ prio[k] < prio[j]
                    /\ Blocks(j, k, running)]

(* request_preemption: an active job is paused exactly when a viewer       *)
(* collides with it, or a more valuable job that no viewer holds back      *)
(* waits for something it uses.                                            *)
Paused(waiting, running, prio, inside) ==
    [j \in Jobs |->
        IF j \notin running THEN pause[j] /\ j \in waiting
        ELSE \/ Interrupted(Needs(j), inside)
             \/ \E k \in waiting :
                    /\ ~Interrupted(Needs(k), inside)
                    /\ prio[k] < prio[j]
                    /\ Blocks(j, k, running)]

(* The end of every entry point: refresh, request_preemption, and into the *)
(* dispatch loop with these tables.                                        *)
Reschedule(waiting, running, live, inside) ==
    /\ pending' = waiting
    /\ active' = running
    /\ hints' = live
    /\ interactive' = inside
    /\ priority' = Refreshed(waiting \cup running, live)
    /\ pause' = Paused(waiting, running, priority', inside)
    /\ dispatching' = TRUE

(***************************************************************************)
(* The order of admission.                                                 *)
(***************************************************************************)

Rank(j) == Cardinality({k \in pending : /\ priority[k] = priority[j]
                                        /\ OwnerOf(k) = OwnerOf(j)
                                        /\ sequence[k] < sequence[j]})

Turn(j) == served[priority[j]][OwnerOf(j)] + Rank(j)

(* fair_order: by priority, then round-robin across owners, then by age.   *)
Precedes(j, k) ==
    \/ priority[j] < priority[k]
    \/ priority[j] = priority[k] /\ Turn(j) < Turn(k)
    \/ /\ priority[j] = priority[k]
       /\ Turn(j) = Turn(k)
       /\ sequence[j] < sequence[k]

(* join_service_level, before job j of priority p is queued.               *)
Joined(p, o) ==
    LET waiting == {k \in pending : priority[k] = p}
        levels  == {served[p][OwnerOf(k)] : k \in waiting}
    IN IF \/ \E k \in waiting : OwnerOf(k) = o
          \/ waiting = {}
       THEN served
       ELSE LET floor == CHOOSE n \in levels : \A m \in levels : n <= m
            IN [served EXCEPT ![p][o] = IF @ < floor THEN floor ELSE @]

(* Mutant of Blocked: awaiting waiters too read their flags before they    *)
(* are registered.                                                         *)
BlockedAlways(j) == TRUE

(* Control::wake reaches whoever waits: an async waiter from the moment    *)
(* its Notified future exists, a blocked thread only once it sleeps on the *)
(* condition variable.                                                     *)
Blocked(j) == resumed[j] /\ request[j].blocking
Listening(j) == pc[j] = "asleep" \/ (pc[j] = "armed" /\ ~Blocked(j))
Woken(js) == [j \in Jobs |-> notified[j] \/ (j \in js /\ Listening(j))]

(***************************************************************************)
(* Entry points.                                                           *)
(***************************************************************************)

Init ==
    /\ request \in Workloads
    /\ pending = {} /\ active = {}
    /\ priority = [j \in Jobs |-> request[j].priority]
    /\ sequence = [j \in Jobs |-> 0]
    /\ nextSequence = 1
    /\ served = [p \in Levels |-> [o \in Owners |-> 0]]
    /\ interactive = {} /\ visited = {}
    /\ visit = [v \in Viewers |-> Nothing]
    /\ hints = {} /\ hinted = 0 /\ cancels = 0
    /\ granted = [j \in Jobs |-> FALSE]
    /\ pause = [j \in Jobs |-> FALSE]
    /\ cancelled = [j \in Jobs |-> FALSE]
    /\ notified = [j \in Jobs |-> FALSE]
    /\ pc = [j \in Jobs |-> "idle"]
    /\ resumed = [j \in Jobs |-> FALSE]
    /\ yields = [j \in Jobs |-> 0]
    /\ dispatching = FALSE

(* acquire_with_sources up to its wait.                                    *)
Acquire(j) ==
    /\ ~dispatching
    /\ pc[j] = "idle"
    /\ sequence' = [sequence EXCEPT ![j] = nextSequence]
    /\ nextSequence' = nextSequence + 1
    /\ served' = Joined(request[j].priority, OwnerOf(j))
    /\ Reschedule(pending \cup {j}, active, hints, interactive)
    /\ pc' = [pc EXCEPT ![j] = "waiting"]
    /\ UNCHANGED <<request, visit, visited, hinted, cancels, granted, cancelled,
                   notified, resumed, yields>>

(* One round of the dispatch loop: the first job of the order that fits.   *)
Admit(j) ==
    /\ dispatching
    /\ j \in pending
    /\ Available(j, active, interactive)
    /\ \A k \in pending \ {j} : Available(k, active, interactive) => Precedes(j, k)
    /\ pending' = pending \ {j}
    /\ active' = active \cup {j}
    /\ served' = [served EXCEPT ![priority[j]][OwnerOf(j)] = @ + 1]
    /\ pause' = [pause EXCEPT ![j] = FALSE]
    /\ granted' = [granted EXCEPT ![j] = TRUE]
    /\ notified' = Woken({j})
    /\ UNCHANGED <<request, priority, sequence, nextSequence, visits, demand,
                   cancelled, worker, dispatching>>

DispatchDone ==
    /\ dispatching
    /\ \A j \in pending : ~Available(j, active, interactive)
    /\ dispatching' = FALSE
    /\ UNCHANGED <<request, tables, visits, demand, control, worker>>

(* yield_job: a worker that saw its pause flag hands its bundle back and   *)
(* queues again with the age it had.                                       *)
Yield(j) ==
    /\ ~dispatching
    /\ pc[j] = "yielding"
    /\ pc' = [pc EXCEPT ![j] = "waiting"]
    /\ resumed' = [resumed EXCEPT ![j] = TRUE]
    /\ yields' = [yields EXCEPT ![j] = @ + 1]
    /\ IF j \in active
       THEN /\ granted' = [granted EXCEPT ![j] = FALSE]
            /\ Reschedule(pending \cup {j}, active \ {j}, hints, interactive)
       ELSE UNCHANGED <<pending, active, hints, interactive, priority, pause,
                        granted, dispatching>>
    /\ UNCHANGED <<request, sequence, nextSequence, served, visit, visited,
                   hinted, cancels, cancelled, notified>>

(* finish_job: the permit of a job is dropped, because its work is done or *)
(* it found itself cancelled, or the future of an async waiter is dropped. *)
(* Its table entry and its Control go with it.                             *)
Finish(j) ==
    /\ ~dispatching
    /\ \/ pc[j] \in {"running", "leaving"}
       \/ pc[j] \in {"waiting", "armed", "asleep"} /\ ~Blocked(j)
    /\ pc' = [pc EXCEPT ![j] = "ended"]
    /\ Reschedule(pending \ {j}, active \ {j}, hints, interactive)
    /\ sequence' = [sequence EXCEPT ![j] = 0]
    /\ granted' = [granted EXCEPT ![j] = FALSE]
    /\ cancelled' = [cancelled EXCEPT ![j] = FALSE]
    /\ notified' = [notified EXCEPT ![j] = FALSE]
    /\ resumed' = [resumed EXCEPT ![j] = FALSE]
    /\ yields' = [yields EXCEPT ![j] = 0]
    /\ UNCHANGED <<request, nextSequence, served, visit, visited, hinted, cancels>>

(* enter_interactive / enter_playback: never waits, pauses what collides.  *)
EnterInteractive(v, r) ==
    /\ ~dispatching
    /\ v \notin visited
    /\ visited' = visited \cup {v}
    /\ visit' = [visit EXCEPT ![v] = r]
    /\ interactive' = interactive \cup {v}
    /\ pause' = [j \in Jobs |-> pause[j] \/ (j \in active /\ Conflicts(Needs(j), r))]
    /\ UNCHANGED <<request, tables, demand, granted, cancelled, notified, worker,
                   dispatching>>

(* Mutant of LeaveInteractive: nobody is let in when the viewer leaves.    *)
LeaveInteractiveSilently(v) ==
    /\ ~dispatching
    /\ v \in interactive
    /\ interactive' = interactive \ {v}
    /\ visit' = [visit EXCEPT ![v] = Nothing]
    /\ UNCHANGED <<request, tables, visited, demand, control, worker, dispatching>>

(* Drop of an InteractiveGuard.                                            *)
LeaveInteractive(v) ==
    /\ ~dispatching
    /\ v \in interactive
    /\ Reschedule(pending, active, hints, interactive \ {v})
    /\ visit' = [visit EXCEPT ![v] = Nothing]
    /\ UNCHANGED <<request, sequence, nextSequence, served, visited,
                   hinted, cancels, granted, cancelled, notified, worker>>

(* cancel_owner: the link of one hub is gone.                              *)
CancelOwner(o) ==
    /\ ~dispatching
    /\ cancels < MaxCancels
    /\ cancels' = cancels + 1
    /\ LET mine == {j \in pending \cup active : OwnerOf(j) = o}
       IN /\ cancelled' = [j \in Jobs |-> cancelled[j] \/ j \in mine]
          /\ notified' = Woken(mine)
          /\ Reschedule(pending \ mine, active,
                        {h \in hints : h[1] # o}, interactive)
    /\ UNCHANGED <<request, sequence, nextSequence, served, visit, visited, hinted,
                   granted, worker>>

(* hint_segment: a viewer is about to need this source.                    *)
HintSegment(o, s) ==
    /\ ~dispatching
    /\ hinted < MaxHints
    /\ hinted' = hinted + 1
    /\ Reschedule(pending, active, hints \cup {<<o, s>>}, interactive)
    /\ UNCHANGED <<request, sequence, nextSequence, served, visit, visited, cancels,
                   granted, cancelled, notified, worker>>

(* The TTL of a hint runs out.  Nothing looks until the next refresh.      *)
ExpireHint(h) ==
    /\ h \in hints
    /\ hints' = hints \ {h}
    /\ UNCHANGED <<request, tables, visits, hinted, cancels, control, worker,
                   dispatching>>

(***************************************************************************)
(* The worker of a job, which reads its Control without the state mutex.   *)
(***************************************************************************)

(* wait_async: the Notified future exists before the flags are read.       *)
Arm(j) ==
    /\ pc[j] = "waiting"
    /\ ~Blocked(j)
    /\ pc' = [pc EXCEPT ![j] = "armed"]
    /\ notified' = [notified EXCEPT ![j] = FALSE]
    /\ UNCHANGED <<request, tables, visits, demand, granted, pause, cancelled,
                   resumed, yields, dispatching>>

(* Where the flags send a waiter: out, on, or to `quiet`.                  *)
Decide(j, quiet) ==
    /\ pc' = [pc EXCEPT ![j] = IF cancelled[j] THEN "leaving"
                               ELSE IF granted[j] THEN "running"
                               ELSE quiet]
    /\ notified' = [notified EXCEPT
                        ![j] = @ /\ ~cancelled[j] /\ ~granted[j]]

CheckAsync(j) ==
    /\ pc[j] = "armed"
    /\ ~Blocked(j)
    /\ Decide(j, "asleep")
    /\ UNCHANGED <<request, tables, visits, demand, granted, pause, cancelled,
                   resumed, yields, dispatching>>

(* wait_blocking: the flags are read under the Control's own mutex, which  *)
(* wake does not take; Condvar::wait then goes to sleep.                   *)
CheckBlocking(j) ==
    /\ pc[j] = "waiting"
    /\ Blocked(j)
    /\ Decide(j, "armed")
    /\ UNCHANGED <<request, tables, visits, demand, granted, pause, cancelled,
                   resumed, yields, dispatching>>

Sleep(j) ==
    /\ pc[j] = "armed"
    /\ Blocked(j)
    /\ pc' = [pc EXCEPT ![j] = "asleep"]
    /\ notified' = [notified EXCEPT ![j] = FALSE]
    /\ UNCHANGED <<request, tables, visits, demand, granted, pause, cancelled,
                   resumed, yields, dispatching>>

WakeUp(j) ==
    /\ pc[j] = "asleep"
    /\ notified[j]
    /\ pc' = [pc EXCEPT ![j] = "waiting"]
    /\ notified' = [notified EXCEPT ![j] = FALSE]
    /\ UNCHANGED <<request, tables, visits, demand, granted, pause, cancelled,
                   resumed, yields, dispatching>>

(* checkpoint / checkpoint_blocking: leave when cancelled, yield when      *)
(* paused, else carry on.                                                  *)
Checkpoint(j) ==
    /\ pc[j] = "running"
    /\ cancelled[j] \/ (pause[j] /\ yields[j] < MaxYields)
    /\ pc' = [pc EXCEPT ![j] = IF cancelled[j] THEN "leaving" ELSE "yielding"]
    /\ UNCHANGED <<request, tables, visits, demand, control, resumed, yields, dispatching>>

(***************************************************************************)

Next ==
    \/ DispatchDone
    \/ \E j \in Jobs :
        \/ Acquire(j) \/ Admit(j) \/ Yield(j) \/ Finish(j)
        \/ Arm(j) \/ CheckAsync(j) \/ CheckBlocking(j) \/ Sleep(j) \/ WakeUp(j)
        \/ Checkpoint(j)
    \/ \E v \in Viewers :
        \/ LeaveInteractive(v)
        \/ \E r \in Interactions : EnterInteractive(v, r)
    \/ \E o \in Owners :
        \/ CancelOwner(o)
        \/ \E s \in Sources : HintSegment(o, s)
    \/ \E h \in hints : ExpireHint(h)

Spec == Init /\ [][Next]_vars

(***************************************************************************)
(* Properties.                                                             *)
(***************************************************************************)

(* The types of the variables.                                             *)
TypeOK ==
    /\ request \in [Jobs -> Request]
    /\ pending \subseteq Jobs /\ active \subseteq Jobs /\ pending \cap active = {}
    /\ priority \in [Jobs -> Levels]
    /\ sequence \in [Jobs -> Nat] /\ nextSequence \in Nat
    /\ served \in [Levels -> [Owners -> Nat]]
    /\ interactive \subseteq visited /\ visited \subseteq Viewers
    /\ visit \in [Viewers -> Resources]
    /\ hints \subseteq Owners \X Sources /\ hinted \in Nat /\ cancels \in Nat
    /\ granted \in [Jobs -> BOOLEAN] /\ pause \in [Jobs -> BOOLEAN]
    /\ cancelled \in [Jobs -> BOOLEAN] /\ notified \in [Jobs -> BOOLEAN]
    /\ pc \in [Jobs -> {"idle", "waiting", "armed", "asleep", "running",
                        "yielding", "leaving", "ended"}]
    /\ resumed \in [Jobs -> BOOLEAN] /\ yields \in [Jobs -> Nat]
    /\ dispatching \in BOOLEAN

AtWork == {j \in Jobs : pc[j] \in {"running", "yielding"}}

(* What is really running, not what the tables say, stays within the CPU   *)
(* slots, within each storage domain's capacity and alone on its named     *)
(* resources, through every yield, resume, cancellation and drop.          *)
WithinCapacity ==
    /\ UsedCpu(AtWork) <= CpuSlots
    /\ \A d \in Domains : UsedIo(AtWork, d) <= IoCapacity[d]
    /\ \A j, k \in AtWork :
        j # k => Needs(j).exclusive \cap Needs(k).exclusive = {}

(* Capacity is never left idle beside a job that could use it: whatever    *)
(* freed it also ran the dispatch loop.                                    *)
NoIdleCapacity ==
    dispatching \/ \A j \in pending : ~Available(j, active, interactive)

(* Whoever ought to be first is heard, although the dispatch loop clears   *)
(* pause flags, third parties recompute them and cheaper work fills freed  *)
(* capacity: work that collides with a viewer inside has been told to      *)
(* pause, and a waiting job that no viewer holds back is kept out by       *)
(* something at least as valuable or by something told to make way.        *)
PauseIsHeard ==
    /\ \A j \in active : Interrupted(Needs(j), interactive) => pause[j]
    /\ \/ dispatching
       \/ \A k \in pending :
            \/ Interrupted(Needs(k), interactive)
            \/ \E j \in active :
                /\ Blocks(j, k, active)
                /\ (pause[j] \/ priority[j] <= priority[k])

(* An awaited wake-up is never lost: an async waiter that sleeps although  *)
(* it was granted its bundle, or cancelled, has been notified and is about *)
(* to look again.  (A blocked thread has no such promise: wake does not    *)
(* take the mutex it sleeps under.)                                        *)
NoLostWakeup ==
    \A j \in Jobs :
        /\ pc[j] = "asleep"
        /\ ~(resumed[j] /\ request[j].blocking)
        /\ granted[j] \/ cancelled[j]
        => notified[j]
=============================================================================
