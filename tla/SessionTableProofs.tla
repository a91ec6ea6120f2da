------------------------- MODULE SessionTableProofs -------------------------
(***************************************************************************)
(* Proofs about SessionTable, for every number of sessions and seeks and   *)
(* every cap.                                                              *)
(***************************************************************************)
EXTENDS SessionTable, FiniteSetTheorems, TLAPS

-----------------------------------------------------------------------------
(* The table: starts, ends and the flag.                                   *)

(* A start that holds its slot.                                            *)
Slotted == {i \in Ids : starting[i] \in {"preparing", "inserted", "flagged"}}

TableTypes ==
    /\ starting \in [Ids -> {"new", "preparing", "inserted", "flagged", "over"}]
    /\ ending \in [Ids -> {"none", "last", "removed", "cancelled", "over"}]
    /\ active \subseteq Ids
    /\ idle \in BOOLEAN
    /\ crossed \in BOOLEAN

(* The slots held are those of the starts under way; a session is in the    *)
(* table between its insertion and its end, once.                          *)
SlotsAreStarts ==
    /\ reserved = Slotted
    /\ \A i \in Ids : starting[i] \in {"new", "preparing"} => ending[i] = "none"
    /\ \A i \in active : starting[i] \notin {"new", "preparing"} /\ ending[i] = "none"

(* admit counts what it reserves.                                          *)
HeldWithinCap ==
    /\ IsFiniteSet(reserved \cup active)
    /\ Cardinality(reserved \cup active) <= MaxPerUser

(* Unless a start and an end crossed, a session that has yet to lower the   *)
(* flag is watched, nobody has yet to raise it meanwhile, and the flag, or  *)
(* the end about to raise it, tells the truth.                             *)
FlagFollows ==
    ~crossed =>
        /\ StartsFlagging = {} \/ EndsFlagging = {}
        /\ StartsFlagging \subseteq active
        /\ StartsFlagging = {} =>
            (active = {} <=> idle \/ \E i \in Ids : ending[i] = "last")

TableInv == TableTypes /\ SlotsAreStarts /\ HeldWithinCap /\ FlagFollows

(* A set with fewer members than the cap takes one more.                   *)
LEMMA OneMore ==
    ASSUME NEW S, IsFiniteSet(S), NEW x, Cardinality(S) < MaxPerUser
    PROVE  IsFiniteSet(S \cup {x}) /\ Cardinality(S \cup {x}) <= MaxPerUser
<1>1. /\ IsFiniteSet(S \cup {x})
      /\ Cardinality(S \cup {x}) = Cardinality(S) \/ Cardinality(S \cup {x}) = Cardinality(S) + 1
  BY FS_AddElement
<1> QED
  BY <1>1, FS_CardinalityType, TableAssumption

(* A smaller set is within the cap as well.                                *)
LEMMA NoMore ==
    ASSUME NEW S, NEW T, IsFiniteSet(S), T \subseteq S, Cardinality(S) <= MaxPerUser
    PROVE  IsFiniteSet(T) /\ Cardinality(T) <= MaxPerUser
<1>1. IsFiniteSet(T) /\ Cardinality(T) <= Cardinality(S)
  BY FS_Subset
<1> QED
  BY <1>1, FS_CardinalityType, TableAssumption

(* The starts.                                                             *)
LEMMA StartKeepsTable ==
    ASSUME TableInv, NEW i \in Ids, Admit(i) \/ StartStep(i)
    PROVE  TableInv'
<1> USE TableAssumption DEF TableInv
<1>1. TableTypes'
  BY DEF TableTypes, Admit, StartStep, FailStart, Insert, FlagBusy, Release, EndsFlagging
<1>2. SlotsAreStarts'
  BY DEF TableTypes, SlotsAreStarts, Slotted, Admit, StartStep, FailStart, Insert,
         FlagBusy, Release
<1>3. HeldWithinCap'
  <2>1. CASE Admit(i) /\ Held < MaxPerUser
    <3>1. reserved' = reserved \cup {i} /\ active' = active
      BY <2>1, FS_CardinalityType DEF Admit, HeldWithinCap, Held
    <3>2. (reserved \cup active)' = (reserved \cup active) \cup {i}
      BY <3>1
    <3> QED
      BY <2>1, <3>2, OneMore DEF Held, HeldWithinCap
  <2>2. CASE ~(Admit(i) /\ Held < MaxPerUser)
    <3>1. Cardinality(reserved \cup active) \in Nat
      BY FS_CardinalityType DEF HeldWithinCap
    <3>2. (reserved \cup active)' \subseteq reserved \cup active
      BY <2>2, <3>1 DEF SlotsAreStarts, Slotted, Admit, Held, StartStep, FailStart, Insert,
                        FlagBusy, Release
    <3> QED
      BY <3>2, NoMore DEF HeldWithinCap
  <2> QED
    BY <2>1, <2>2
<1>4. FlagFollows'
  <2>1. CASE Admit(i) \/ FailStart(i) \/ Release(i)
    <3>1. UNCHANGED <<active, idle, ending, crossed>>
          /\ StartsFlagging' = StartsFlagging /\ EndsFlagging' = EndsFlagging
      BY <2>1 DEF Admit, FailStart, Release, TableTypes, StartsFlagging, EndsFlagging
    <3> QED
      BY <3>1 DEF FlagFollows
  <2>2. CASE Insert(i)
    <3>1. StartsFlagging' = StartsFlagging \cup {i} /\ EndsFlagging' = EndsFlagging
          /\ active' = active \cup {i} /\ crossed' = (crossed \/ EndsFlagging # {})
      BY <2>2 DEF Insert, TableTypes, StartsFlagging, EndsFlagging
    <3> QED
      BY <3>1 DEF FlagFollows
  <2>3. CASE FlagBusy(i)
    <3>1. /\ StartsFlagging' = StartsFlagging \ {i} /\ i \in StartsFlagging
          /\ UNCHANGED <<active, ending, crossed>> /\ EndsFlagging' = EndsFlagging
          /\ idle' = FALSE
      BY <2>3 DEF FlagBusy, TableTypes, StartsFlagging, EndsFlagging
    <3>2. EndsFlagging = {} => \A j \in Ids : ending[j] # "last"
      BY DEF EndsFlagging
    <3> QED
      BY <3>1, <3>2 DEF FlagFollows
  <2> QED
    BY <2>1, <2>2, <2>3 DEF StartStep
<1> QED
  BY <1>1, <1>2, <1>3, <1>4

(* The ends.                                                               *)
LEMMA EndKeepsTable ==
    ASSUME TableInv, NEW i \in Ids, Remove(i) \/ EndStep(i)
    PROVE  TableInv'
<1> USE TableAssumption DEF TableInv
<1>1. TableTypes'
  BY DEF TableTypes, Remove, EndStep, Cancel, Collect, StartsFlagging
<1>2. SlotsAreStarts'
  BY DEF TableTypes, SlotsAreStarts, Slotted, Remove, EndStep, Cancel, Collect
<1>3. HeldWithinCap'
  <2>1. (reserved \cup active)' \subseteq reserved \cup active
    BY DEF Remove, EndStep, Cancel, Collect
  <2> QED
    BY <2>1, NoMore DEF HeldWithinCap
<1>4. FlagFollows'
  <2>1. CASE Remove(i)
    <3>1. /\ i \in active /\ active' = active \ {i} /\ UNCHANGED idle
          /\ StartsFlagging' = StartsFlagging
          /\ crossed' = (crossed \/ StartsFlagging # {})
          /\ ending' = [ending EXCEPT ![i] = IF active' = {} THEN "last" ELSE "removed"]
      BY <2>1 DEF Remove, StartsFlagging
    <3>2. CASE active' = {}
      <4>1. ending'[i] = "last"
        BY <3>1, <3>2 DEF TableTypes
      <4> QED
        BY <3>1, <3>2, <4>1 DEF FlagFollows
    <3>3. CASE active' # {}
      <4>1. (\E j \in Ids : ending'[j] = "last") => \E j \in Ids : ending[j] = "last"
        BY <3>1, <3>3 DEF TableTypes
      <4> QED
        BY <3>1, <3>3, <4>1 DEF FlagFollows
    <3> QED
      BY <3>2, <3>3
  <2>2. CASE Cancel(i)
    <3>1. /\ UNCHANGED <<active, crossed>> /\ StartsFlagging' = StartsFlagging
          /\ EndsFlagging' = EndsFlagging \ {i} /\ i \in EndsFlagging
          /\ idle' = (idle \/ ending[i] = "last")
          /\ \A j \in Ids : j # i => ending'[j] = ending[j]
          /\ ending'[i] # "last"
      BY <2>2 DEF Cancel, TableTypes, StartsFlagging, EndsFlagging
    <3> QED
      BY <3>1 DEF FlagFollows
  <2>3. CASE Collect(i)
    <3>1. /\ UNCHANGED <<active, crossed, idle>> /\ StartsFlagging' = StartsFlagging
          /\ EndsFlagging' = EndsFlagging
          /\ \A j \in Ids : ending'[j] = "last" <=> ending[j] = "last"
      BY <2>3 DEF Collect, TableTypes, StartsFlagging, EndsFlagging
    <3> QED
      BY <3>1 DEF FlagFollows
  <2> QED
    BY <2>1, <2>2, <2>3 DEF EndStep
<1> QED
  BY <1>1, <1>2, <1>3, <1>4

(* A seek leaves the table alone.                                          *)
LEMMA SeekLeavesTable ==
    ASSUME NEW r \in Seeks,
           \/ \E i \in Seekable : Draw(r, i)
           \/ SeekStep(r) \/ TaskStep(r) \/ Abandon(r)
    PROVE  UNCHANGED table
BY DEF Draw, SeekStep, Merge, Subscribe, Answer, TaskStep, Take, Refuse, Stop, Restart,
       GiveUp, Publish, Abandon

(* Every step keeps the table's invariant.                                 *)
LEMMA TableStep == TableInv /\ [Next]_vars => TableInv'
<1> SUFFICES ASSUME TableInv, [Next]_vars PROVE TableInv'
  OBVIOUS
<1>1. CASE \E i \in Ids : Admit(i) \/ StartStep(i) \/ Remove(i) \/ EndStep(i)
  BY <1>1, StartKeepsTable, EndKeepsTable
<1>2. CASE UNCHANGED table
  BY <1>2 DEF table, TableInv, TableTypes, SlotsAreStarts, Slotted, HeldWithinCap,
              FlagFollows, StartsFlagging, EndsFlagging
<1> QED
  BY <1>1, <1>2, SeekLeavesTable DEF Next, vars

(* An empty table satisfies it.                                            *)
LEMMA InitTable == Init => TableInv
<1> SUFFICES ASSUME Init PROVE TableInv
  OBVIOUS
<1>1. TableTypes /\ SlotsAreStarts
  BY DEF Init, TableTypes, SlotsAreStarts, Slotted
<1>2. HeldWithinCap
  BY FS_EmptySet, TableAssumption DEF Init, HeldWithinCap
<1>3. FlagFollows
  BY DEF Init, FlagFollows, StartsFlagging, EndsFlagging
<1> QED
  BY <1>1, <1>2, <1>3 DEF TableInv

(* The table's invariant holds throughout.                                 *)
THEOREM TableInvariant == Spec => []TableInv
<1>1. Spec => Init /\ [][Next]_vars
  BY DEF Spec
<1> QED
  BY <1>1, InitTable, TableStep, PTL

(* However many starts arrive together and however ends interleave with     *)
(* them, a user never has more than max_per_user sessions active or coming  *)
(* up: admit counts what it reserves, and an insertion takes over a slot.   *)
THEOREM CapIsKept == Spec => []CapHolds
<1>1. TableInv => CapHolds
  <2> SUFFICES ASSUME TableInv PROVE CapHolds
    OBVIOUS
  <2>1. active \cup {i \in Ids : starting[i] \in {"preparing", "inserted"}}
            \subseteq reserved \cup active
    BY DEF TableInv, SlotsAreStarts, Slotted
  <2> QED
    BY <2>1, NoMore DEF TableInv, HeldWithinCap, CapHolds
<1> QED
  BY <1>1, TableInvariant, PTL

(* Once the starts and ends that touched the table have set the flag, it    *)
(* tells background work the truth, unless two of them crossed.            *)
THEOREM FlagTellsTheTruth == Spec => []IdleIsTruth
<1>1. TableInv => IdleIsTruth
  BY DEF TableInv, TableTypes, FlagFollows, IdleIsTruth, EndsFlagging, StartsFlagging
<1> QED
  BY <1>1, TableInvariant, PTL

-----------------------------------------------------------------------------
(* The seeks: who has the lock, and what an end leaves behind.             *)

(* The executor is between taking the lock and releasing it.               *)
Executing == {"taken", "stopped", "restarted", "failed"}

Requests == [step : {"none", "drawn", "merged", "waiting", "answered", "failed", "abandoned"},
             session : Ids \cup {NoSession}, generation : Nat]

Executors == [step : {"none", "queued", "over"} \cup Executing,
              todo : Intent \cup {NoIntent}]

SeekTypes ==
    /\ run \in [Ids -> Seeks \cup {NoRun, AtStart}]
    /\ plan \in [Ids -> Seeks \cup {AtStart}]
    /\ pending \in [Ids -> Intent \cup {NoIntent}]
    /\ generation \in [Ids -> Nat]
    /\ done \in [Ids -> [generation : Nat, ok : BOOLEAN]]
    /\ ended \in [Ids -> BOOLEAN]
    /\ lock \in [Ids -> Seeks \cup {Nobody}]
    /\ seek \in [Seeks -> Requests]
    /\ task \in [Seeks -> Executors]
    /\ overtaken \in BOOLEAN
    /\ refused \subseteq Seeks
    /\ unheard \subseteq Seeks

(* A request keeps its session from its generation on, its executor comes   *)
(* with its subscription, and takes an intent along with the lock.         *)
SeekStages ==
    \A r \in Seeks :
        /\ seek[r].step # "none" => seek[r].session \in Ids
        /\ seek[r].step = "none" => seek[r].session = NoSession
        /\ seek[r].step \in {"none", "drawn", "merged"} <=> task[r].step = "none"
        /\ task[r].step \in Executing => task[r].todo \in Intent

(* seek_lock is held by the one executor that is at work on the session.   *)
LockIsHeld ==
    /\ \A r \in Seeks : task[r].step \in Executing => lock[seek[r].session] = r
    /\ \A i \in Ids : lock[i] # Nobody =>
            seek[lock[i]].session = i /\ task[lock[i]].step \in Executing

(* seek_ended is set before the run is collected.                          *)
EndsCancel == \A i \in Ids : ended[i] <=> ending[i] \in {"cancelled", "over"}

SeekInv == TableInv /\ SeekTypes /\ SeekStages /\ LockIsHeld /\ EndsCancel /\ NoRunAfterEnd

(* A request moves on and is otherwise the same.                           *)
LEMMA SeekMoves ==
    ASSUME SeekTypes, NEW r \in Seeks,
           NEW x \in {"none", "drawn", "merged", "waiting", "answered", "failed", "abandoned"},
           seek' = [seek EXCEPT ![r].step = x]
    PROVE  /\ seek' \in [Seeks -> Requests]
           /\ seek'[r].step = x
           /\ \A q \in Seeks : q # r => seek'[q] = seek[q]
           /\ \A q \in Seeks : seek'[q].session = seek[q].session
                               /\ seek'[q].generation = seek[q].generation
BY SMTT(30) DEF SeekTypes, Requests

(* The same of an executor.                                                *)
LEMMA TaskMoves ==
    ASSUME SeekTypes, NEW r \in Seeks, NEW x \in {"none", "queued", "over"} \cup Executing,
           task' = [task EXCEPT ![r].step = x]
    PROVE  /\ task' \in [Seeks -> Executors]
           /\ task'[r].step = x
           /\ \A q \in Seeks : q # r => task'[q] = task[q]
           /\ \A q \in Seeks : task'[q].todo = task[q].todo
BY DEF SeekTypes, Executors

(* The types.                                                              *)
LEMMA SeekTypesStep ==
    ASSUME SeekInv, Next
    PROVE  SeekTypes'
<1> USE TableAssumption DEF SeekInv, SeekTypes
<1>1. ASSUME NEW i \in Ids, Admit(i) \/ StartStep(i) \/ Remove(i) \/ EndStep(i)
      PROVE  SeekTypes'
  <2>1. UNCHANGED <<plan, pending, generation, done, seek, task, overtaken, refused, unheard,
                    lock>>
    BY <1>1 DEF Admit, StartStep, FailStart, Insert, FlagBusy, Release, Remove, EndStep,
                Cancel, Collect, seeking, history
  <2>2. /\ run' = run \/ run' = [run EXCEPT ![i] = AtStart] \/ run' = [run EXCEPT ![i] = NoRun]
        /\ ended' = ended \/ ended' = [ended EXCEPT ![i] = TRUE]
    BY <1>1 DEF Admit, StartStep, FailStart, Insert, FlagBusy, Release, Remove, EndStep,
                Cancel, Collect
  <2> QED
    BY <2>1, <2>2
<1>2. ASSUME NEW r \in Seeks, NEW i \in Seekable, Draw(r, i)
      PROVE  SeekTypes'
  <2>1. i \in Ids
    OBVIOUS
  <2> QED
    BY <1>2, <2>1 DEF Draw, Requests, history
<1>3. ASSUME NEW r \in Seeks, Merge(r)
      PROVE  SeekTypes'
  <2> DEFINE i == seek[r].session
             next == [generation |-> seek[r].generation, position |-> r,
                      audio |-> IF r \in Picks THEN r ELSE AtStart, covers |-> {r}]
  <2>1. i \in Ids /\ next \in Intent
    BY <1>3 DEF Merge, SeekStages, Intent, Requests
  <2>2. Merged(pending[i], next) \in Intent
    BY <2>1 DEF Merged, Intent
  <2>3. pending' = [pending EXCEPT ![i] = Merged(@, next)]
    BY <1>3 DEF Merge
  <2>4. pending' \in [Ids -> Intent \cup {NoIntent}]
    BY <2>1, <2>2, <2>3
  <2>5. /\ seek' = [seek EXCEPT ![r].step = "merged"]
        /\ UNCHANGED <<run, plan, generation, done, ended, lock, task, refused, unheard>>
    BY <1>3 DEF Merge
  <2>6. overtaken' \in BOOLEAN
    BY <1>3, Zenon DEF Merge
  <2> QED
    BY <2>4, <2>5, <2>6, SeekMoves
<1>4. ASSUME NEW r \in Seeks, Subscribe(r)
      PROVE  SeekTypes'
  <2>1. /\ seek' = [seek EXCEPT ![r].step = "waiting"]
        /\ task' = [task EXCEPT ![r].step = "queued"]
        /\ UNCHANGED <<run, plan, pending, generation, done, ended, lock, overtaken, refused,
                       unheard>>
    BY <1>4 DEF Subscribe, history
  <2> QED
    BY <2>1, SeekMoves, TaskMoves
<1>5. ASSUME NEW r \in Seeks, Take(r)
      PROVE  SeekTypes'
  <2>1. seek[r].session \in Ids
    BY <1>5 DEF Take, SeekStages, Executing
  <2>2. CASE pending[seek[r].session] = NoIntent
    <3>1. task' = [task EXCEPT ![r].step = "over"]
          /\ UNCHANGED <<run, plan, pending, generation, done, ended, lock, seek, overtaken,
                         refused, unheard>>
      BY <1>5, <2>2 DEF Take, history
    <3> QED
      BY <3>1, TaskMoves
  <2>3. CASE pending[seek[r].session] # NoIntent
    <3>1. task' = [task EXCEPT ![r] = [step |-> "taken", todo |-> pending[seek[r].session]]]
      BY <1>5, <2>3 DEF Take
    <3>2. [step |-> "taken", todo |-> pending[seek[r].session]] \in Executors
      BY <2>1 DEF Executing, Executors
    <3>3. task' \in [Seeks -> Executors]
      BY <3>1, <3>2
    <3>4. /\ lock' = [lock EXCEPT ![seek[r].session] = r]
          /\ pending' = [pending EXCEPT ![seek[r].session] = NoIntent]
          /\ UNCHANGED <<run, plan, generation, done, ended, seek, overtaken, refused, unheard>>
      BY <1>5, <2>3 DEF Take, history
    <3> QED
      BY <2>1, <3>3, <3>4
  <2> QED
    BY <2>2, <2>3
<1>6. ASSUME NEW r \in Seeks, Stop(r)
      PROVE  SeekTypes'
  <2>1. seek[r].session \in Ids /\ task[r].todo.audio \in Seeks \cup {AtStart}
    BY <1>6 DEF Stop, SeekStages, Executing, Intent
  <2>2. /\ task' = [task EXCEPT ![r].step = "stopped"]
        /\ UNCHANGED <<pending, generation, done, ended, lock, seek, overtaken, refused, unheard>>
    BY <1>6 DEF Stop, history
  <2>3. task' \in [Seeks -> Executors]
    BY <2>2, TaskMoves DEF Executing
  <2> QED
    BY <1>6, <2>1, <2>2, <2>3 DEF Stop
<1>7. ASSUME NEW r \in Seeks, Restart(r)
      PROVE  SeekTypes'
  <2>1. seek[r].session \in Ids /\ task[r].todo.position \in Seeks
    BY <1>7 DEF Restart, SeekStages, Executing, Intent
  <2>2. /\ task' = [task EXCEPT ![r].step = "restarted"]
        /\ UNCHANGED <<plan, pending, generation, done, ended, lock, seek, overtaken, refused,
                       unheard>>
    BY <1>7 DEF Restart, history
  <2>3. task' \in [Seeks -> Executors]
    BY <2>2, TaskMoves DEF Executing
  <2> QED
    BY <1>7, <2>1, <2>2, <2>3 DEF Restart
<1>8. ASSUME NEW r \in Seeks, Refuse(r) \/ GiveUp(r)
      PROVE  SeekTypes'
  <2>1. /\ task' = [task EXCEPT ![r].step = "failed"]
        /\ refused' = refused \/ refused' = refused \cup task[r].todo.covers
        /\ task[r].todo.covers \subseteq Seeks
        /\ UNCHANGED <<run, plan, pending, generation, done, ended, lock, seek, overtaken,
                       unheard>>
    BY <1>8 DEF Refuse, GiveUp, history, SeekStages, Executing, Intent
  <2>2. task' \in [Seeks -> Executors]
    BY <2>1, TaskMoves DEF Executing
  <2> QED
    BY <2>1, <2>2
<1>9. ASSUME NEW r \in Seeks, Publish(r)
      PROVE  SeekTypes'
  <2>1. seek[r].session \in Ids /\ task[r].todo.generation \in Nat
    BY <1>9 DEF Publish, SeekStages, Executing, Intent
  <2>2. [step |-> "over", todo |-> NoIntent] \in Executors
    BY DEF Executors
  <2>3. /\ done' = done \/ done' = [done EXCEPT ![seek[r].session] =
                               [generation |-> task[r].todo.generation,
                                ok |-> task[r].step = "restarted"]]
        /\ unheard' \subseteq Seeks
        /\ task' = [task EXCEPT ![r] = [step |-> "over", todo |-> NoIntent]]
        /\ lock' = [lock EXCEPT ![seek[r].session] = Nobody]
        /\ UNCHANGED <<run, plan, pending, generation, ended, seek, overtaken, refused>>
    BY <1>9 DEF Publish
  <2>4. [generation |-> task[r].todo.generation, ok |-> task[r].step = "restarted"]
            \in [generation : Nat, ok : BOOLEAN]
    BY <2>1, Zenon
  <2>5. PICK o \in [generation : Nat, ok : BOOLEAN] :
            done' = done \/ done' = [done EXCEPT ![seek[r].session] = o]
    BY <2>3, <2>4, Zenon
  <2>6. task' \in [Seeks -> Executors]
    BY <2>2, <2>3
  <2> QED
    BY <2>1, <2>3, <2>5, <2>6
<1>10. ASSUME NEW r \in Seeks, Answer(r) \/ Abandon(r)
      PROVE  SeekTypes'
  <2>1. PICK x \in {"answered", "failed", "abandoned"} : seek' = [seek EXCEPT ![r].step = x]
    BY <1>10 DEF Answer, Abandon
  <2> QED
    BY <1>10, <2>1, SeekMoves DEF Answer, Abandon, history
<1> QED
  BY <1>1, <1>2, <1>3, <1>4, <1>5, <1>6, <1>7, <1>8, <1>9, <1>10 DEF Next, SeekStep, TaskStep

(* What the invariant says of locks, executors and ends.                   *)
SeekParts == SeekStages /\ LockIsHeld /\ EndsCancel /\ NoRunAfterEnd

(* A start or an end.                                                      *)
LEMMA TableKeepsSeeks ==
    ASSUME SeekInv, NEW i \in Ids, Admit(i) \/ StartStep(i) \/ Remove(i) \/ EndStep(i)
    PROVE  SeekParts'
<1> USE TableAssumption
    DEF SeekInv, TableInv, TableTypes, SeekTypes, SeekParts
<1>1. UNCHANGED <<seek, task, lock>>
  BY DEF Admit, StartStep, FailStart, Insert, FlagBusy, Release, Remove, EndStep,
         Cancel, Collect, seeking
<1>2. SeekStages' /\ LockIsHeld'
  BY <1>1 DEF SeekStages, LockIsHeld
<1>3. CASE Insert(i)
  <2>1. ending[i] = "none" /\ UNCHANGED <<ending, ended>> /\ run' = [run EXCEPT ![i] = AtStart]
    BY <1>3 DEF Insert, SlotsAreStarts
  <2> QED
    BY <1>1, <1>2, <2>1 DEF EndsCancel, NoRunAfterEnd
<1>4. CASE Admit(i) \/ FailStart(i) \/ FlagBusy(i) \/ Release(i)
  <2>1. UNCHANGED <<ending, ended, run>>
    BY <1>4 DEF Admit, FailStart, FlagBusy, Release
  <2> QED
    BY <1>1, <1>2, <2>1 DEF EndsCancel, NoRunAfterEnd
<1>5. CASE Remove(i)
  <2>1. ending[i] = "none" /\ UNCHANGED <<ended, run>>
    BY <1>5 DEF Remove, SlotsAreStarts
  <2>2. PICK x \in {"last", "removed"} : ending' = [ending EXCEPT ![i] = x]
    BY <1>5 DEF Remove
  <2> QED
    BY <1>1, <1>2, <2>1, <2>2 DEF EndsCancel, NoRunAfterEnd
<1>6. CASE Cancel(i)
  BY <1>1, <1>2, <1>6 DEF Cancel, EndsCancel, NoRunAfterEnd
<1>7. CASE Collect(i)
  <2>1. \A r \in Seeks : seek[r].session = i => task[r].step # "stopped"
    BY <1>7 DEF Collect, LockIsHeld, Executing
  <2> QED
    BY <1>1, <1>2, <1>7, <2>1 DEF Collect, EndsCancel, NoRunAfterEnd
<1> QED
  BY <1>3, <1>4, <1>5, <1>6, <1>7 DEF StartStep, EndStep

(* A request.                                                              *)
LEMMA RequestKeepsSeeks ==
    ASSUME SeekInv, NEW r \in Seeks,
           (\E i \in Seekable : Draw(r, i)) \/ SeekStep(r) \/ Abandon(r)
    PROVE  SeekParts'
<1> USE TableAssumption DEF SeekInv, SeekParts
<1>0. UNCHANGED <<ending, ended, run, lock>>
  BY DEF Draw, SeekStep, Merge, Subscribe, Answer, Abandon, table
<1>1. ASSUME NEW i \in Seekable, Draw(r, i) PROVE SeekParts'
  <2>1. /\ seek[r].step = "none" /\ i \in Ids /\ UNCHANGED task
        /\ seek' = [seek EXCEPT ![r] = [step |-> "drawn", session |-> i,
                                       generation |-> generation[i] + 1]]
    BY <1>1 DEF Draw
  <2>2. /\ seek'[r].step = "drawn" /\ seek'[r].session = i
        /\ \A q \in Seeks : q # r => seek'[q] = seek[q]
    BY <2>1 DEF SeekTypes
  <2>3. task[r].step = "none"
    BY <2>1 DEF SeekStages
  <2>4. \A j \in Ids : lock[j] # r
    BY <2>3 DEF LockIsHeld, Executing
  <2> QED
    BY <1>0, <2>1, <2>2, <2>3, <2>4
       DEF SeekTypes, SeekStages, LockIsHeld, EndsCancel, NoRunAfterEnd, Executing
<1>2. CASE Merge(r)
  <2>1. seek' = [seek EXCEPT ![r].step = "merged"] /\ seek[r].step = "drawn" /\ UNCHANGED task
    BY <1>2 DEF Merge
  <2>2. /\ seek'[r].step = "merged"
        /\ \A q \in Seeks : q # r => seek'[q] = seek[q]
        /\ \A q \in Seeks : seek'[q].session = seek[q].session
    BY <2>1, SeekMoves
  <2> QED
    BY <1>0, <2>1, <2>2
       DEF SeekTypes, SeekStages, LockIsHeld, EndsCancel, NoRunAfterEnd
<1>3. CASE Subscribe(r)
  <2>1. /\ seek' = [seek EXCEPT ![r].step = "waiting"] /\ seek[r].step = "merged"
        /\ task' = [task EXCEPT ![r].step = "queued"]
    BY <1>3 DEF Subscribe
  <2>2. /\ seek'[r].step = "waiting"
        /\ \A q \in Seeks : q # r => seek'[q] = seek[q]
        /\ \A q \in Seeks : seek'[q].session = seek[q].session
    BY <2>1, SeekMoves
  <2>3. /\ task'[r].step = "queued"
        /\ \A q \in Seeks : q # r => task'[q] = task[q]
    BY <2>1, TaskMoves
  <2>4. task[r].step = "none"
    BY <2>1 DEF SeekStages
  <2>5. \A j \in Ids : lock[j] # r
    BY <2>4 DEF LockIsHeld, Executing
  <2> QED
    BY <1>0, <2>1, <2>2, <2>3, <2>4, <2>5
       DEF SeekTypes, SeekStages, LockIsHeld, EndsCancel, NoRunAfterEnd, Executing
<1>4. CASE Answer(r) \/ Abandon(r)
  <2>1. PICK x \in {"answered", "failed", "abandoned"} : seek' = [seek EXCEPT ![r].step = x]
    BY <1>4 DEF Answer, Abandon
  <2>2. seek[r].step = "waiting" /\ UNCHANGED task
    BY <1>4 DEF Answer, Abandon
  <2>3. /\ seek'[r].step = x
        /\ \A q \in Seeks : q # r => seek'[q] = seek[q]
        /\ \A q \in Seeks : seek'[q].session = seek[q].session
    BY <2>1, SeekMoves
  <2>4. x \notin {"none", "drawn", "merged"} /\ task[r].step # "none"
    BY <2>2 DEF SeekStages
  <2>5. SeekStages'
    BY <2>2, <2>3, <2>4 DEF SeekStages
  <2>6. LockIsHeld'
    BY <1>0, <2>2, <2>3 DEF SeekTypes, LockIsHeld
  <2> QED
    BY <1>0, <2>2, <2>3, <2>5, <2>6 DEF EndsCancel, NoRunAfterEnd
<1> QED
  BY <1>1, <1>2, <1>3, <1>4 DEF SeekStep

(* An executor.                                                            *)
LEMMA ExecutorKeepsSeeks ==
    ASSUME SeekInv, NEW r \in Seeks, TaskStep(r)
    PROVE  SeekParts'
<1> USE TableAssumption DEF SeekInv, SeekParts
<1>0. UNCHANGED <<ending, ended, seek>>
  BY DEF TaskStep, Take, Refuse, Stop, Restart, GiveUp, Publish, table
<1>1. seek[r].session \in Ids
  BY DEF TaskStep, Take, Refuse, Stop, Restart, GiveUp, Publish, SeekStages
<1>2. CASE Take(r) /\ pending[seek[r].session] = NoIntent
  <2>1. /\ task' = [task EXCEPT ![r].step = "over"] /\ UNCHANGED <<lock, run>>
        /\ task[r].step = "queued"
    BY <1>2 DEF Take
  <2>2. /\ task'[r].step = "over"
        /\ \A q \in Seeks : q # r => task'[q] = task[q]
    BY <2>1, TaskMoves
  <2> QED
    BY <1>0, <1>1, <2>1, <2>2
       DEF SeekTypes, SeekStages, LockIsHeld, EndsCancel, NoRunAfterEnd, Executing
<1>3. CASE Take(r) /\ pending[seek[r].session] # NoIntent
  <2>1. /\ task' = [task EXCEPT ![r] = [step |-> "taken", todo |-> pending[seek[r].session]]]
        /\ lock' = [lock EXCEPT ![seek[r].session] = r]
        /\ UNCHANGED run /\ task[r].step = "queued" /\ lock[seek[r].session] = Nobody
    BY <1>3 DEF Take
  <2>2. /\ task'[r].step = "taken" /\ task'[r].todo \in Intent
        /\ \A q \in Seeks : q # r => task'[q] = task[q]
    BY <1>1, <1>3, <2>1 DEF SeekTypes
  <2> QED
    BY <1>0, <1>1, <2>1, <2>2
       DEF SeekTypes, SeekStages, LockIsHeld, EndsCancel, NoRunAfterEnd, Executing
<1>4. CASE Stop(r)
  <2>1. /\ task' = [task EXCEPT ![r].step = "stopped"]
        /\ run' = [run EXCEPT ![seek[r].session] = NoRun]
        /\ UNCHANGED lock /\ task[r].step = "taken" /\ ~ended[seek[r].session]
    BY <1>4 DEF Stop
  <2>2. /\ task'[r].step = "stopped" /\ task'[r].todo = task[r].todo
        /\ \A q \in Seeks : q # r => task'[q] = task[q]
    BY <2>1, TaskMoves DEF Executing
  <2> QED
    BY <1>0, <1>1, <2>1, <2>2
       DEF SeekTypes, SeekStages, LockIsHeld, EndsCancel, NoRunAfterEnd, Executing
<1>5. CASE Restart(r) \/ Refuse(r) \/ GiveUp(r)
  <2>1. PICK x \in {"restarted", "failed"} : task' = [task EXCEPT ![r].step = x]
    BY <1>5 DEF Restart, Refuse, GiveUp
  <2>2. /\ UNCHANGED lock
        /\ task[r].step \in {"taken", "stopped"}
        /\ \/ UNCHANGED run
           \/ /\ task[r].step = "stopped"
              /\ run' = [run EXCEPT ![seek[r].session] = task[r].todo.position]
    BY <1>5 DEF Restart, Refuse, GiveUp
  <2>3. /\ task'[r].step = x /\ task'[r].todo = task[r].todo
        /\ \A q \in Seeks : q # r => task'[q] = task[q]
    BY <2>1, TaskMoves DEF Executing
  <2>4. x \in Executing /\ x # "stopped" /\ x # "none" /\ task[r].step # "none"
        /\ task[r].step \in Executing
    BY <2>2 DEF Executing
  <2>5. SeekStages'
    BY <1>0, <2>3, <2>4 DEF SeekStages
  <2>6. LockIsHeld'
    BY <1>0, <1>1, <2>2, <2>3, <2>4 DEF SeekTypes, LockIsHeld
  <2>7. EndsCancel' /\ NoRunAfterEnd'
    BY <1>0, <1>1, <2>2, <2>3, <2>4 DEF SeekTypes, EndsCancel, NoRunAfterEnd
  <2> QED
    BY <2>5, <2>6, <2>7
<1>6. CASE Publish(r)
  <2>1. /\ task' = [task EXCEPT ![r] = [step |-> "over", todo |-> NoIntent]] /\ UNCHANGED run
        /\ lock' = [lock EXCEPT ![seek[r].session] = Nobody]
        /\ task[r].step \in {"restarted", "failed"}
    BY <1>6 DEF Publish
  <2>2. /\ task'[r].step = "over"
        /\ \A q \in Seeks : q # r => task'[q] = task[q]
    BY <2>1 DEF SeekTypes
  <2> QED
    BY <1>0, <1>1, <2>1, <2>2
       DEF SeekTypes, SeekStages, LockIsHeld, EndsCancel, NoRunAfterEnd, Executing
<1> QED
  BY <1>2, <1>3, <1>4, <1>5, <1>6 DEF TaskStep

(* Every step keeps the invariant.                                         *)
LEMMA SeekInvStep == SeekInv /\ [Next]_vars => SeekInv'
<1> SUFFICES ASSUME SeekInv, [Next]_vars PROVE SeekInv'
  OBVIOUS
<1>1. TableInv'
  BY TableStep DEF SeekInv
<1>2. CASE Next
  <2>1. SeekTypes'
    BY <1>2, SeekTypesStep
  <2>2. SeekParts'
    BY <1>2, TableKeepsSeeks, RequestKeepsSeeks, ExecutorKeepsSeeks DEF Next
  <2> QED
    BY <1>1, <2>1, <2>2 DEF SeekInv, SeekParts
<1>3. CASE UNCHANGED vars
  BY <1>1, <1>3 DEF vars, table, seeking, history, SeekInv, SeekTypes, SeekStages, LockIsHeld,
                    EndsCancel, NoRunAfterEnd
<1> QED
  BY <1>2, <1>3

(* The invariant holds throughout.                                         *)
THEOREM SeekInvariant == Spec => []SeekInv
<1>1. Init => SeekTypes /\ SeekStages /\ LockIsHeld /\ EndsCancel /\ NoRunAfterEnd
  <2> SUFFICES ASSUME Init
               PROVE  SeekTypes /\ SeekStages /\ LockIsHeld /\ EndsCancel /\ NoRunAfterEnd
    OBVIOUS
  <2>1. /\ \A r \in Seeks : seek[r] = NoSeek /\ task[r] = NoTask
        /\ \A i \in Ids : lock[i] = Nobody /\ ending[i] = "none" /\ ended[i] = FALSE
    BY DEF Init
  <2>2. SeekTypes
    BY DEF Init, NoSeek, NoTask, SeekTypes, Requests, Executors
  <2> QED
    BY <2>1, <2>2
       DEF NoSeek, NoTask, SeekStages, LockIsHeld, EndsCancel, NoRunAfterEnd, Executing
<1>2. Init => SeekInv
  BY <1>1, InitTable DEF SeekInv
<1>3. Spec => Init /\ [][Next]_vars
  BY DEF Spec
<1> QED
  BY <1>2, <1>3, SeekInvStep, PTL

(* An ended session leaves no worker behind, neither the one it owned nor   *)
(* one a seek was bringing up: the end waits for the seek's lock, and once  *)
(* seek_ended is set no executor starts another run.                       *)
THEOREM EndsLeaveNoRun == Spec => []NoRunAfterEnd
<1>1. SeekInv => NoRunAfterEnd
  BY DEF SeekInv
<1> QED
  BY <1>1, SeekInvariant, PTL

-----------------------------------------------------------------------------
(* Where a burst of seeks ends.                                            *)

(* A generation is drawn once per session, and only of a session in the     *)
(* table.                                                                  *)
GenerationsDiffer ==
    /\ \A r \in Seeks : seek[r].step # "none" =>
            /\ seek[r].generation \in 1 .. generation[seek[r].session]
            /\ starting[seek[r].session] \notin {"new", "preparing"}
    /\ \A r, q \in Seeks :
            /\ seek[r].step # "none" /\ seek[q].step # "none"
            /\ seek[r].session = seek[q].session
            /\ seek[r].generation = seek[q].generation
            => r = q

(* The seeks whose intents session i has seen, those of them that are still *)
(* in pending_seek, and those the executor with the lock has in hand.       *)
Merges(i) == {r \in Seeks : seek[r].session = i /\ seek[r].step \notin {"none", "drawn"}}
Pending(i) == IF pending[i] = NoIntent THEN {} ELSE pending[i].covers
InHand(i) == IF lock[i] = Nobody THEN {} ELSE task[lock[i]].todo.covers

(* The executor that has the session's lock is in one of the stages.       *)
AtWork(i, stages) == lock[i] # Nobody /\ task[lock[i]].step \in stages

(* The seeks that have had their effect on the run, and on the plan.        *)
Ran(i) == Merges(i) \ (Pending(i) \cup refused \cup
              IF AtWork(i, {"taken", "stopped"}) THEN InHand(i) ELSE {})
Planned(i) == Merges(i) \ (Pending(i) \cup refused \cup
              IF AtWork(i, {"taken"}) THEN InHand(i) ELSE {})

(* x is the newest of the seeks in S, or what the session started with.    *)
IsNewest(S, x) ==
    \/ x = AtStart /\ S = {}
    \/ x \in S /\ \A q \in S : seek[q].generation <= seek[x].generation

(* An intent has the position, and its generation, of the newest seek       *)
(* merged into it and the track of the newest that names one.              *)
Aims(intent) ==
    /\ intent.position \in Seeks
    /\ IsNewest(intent.covers, intent.position)
    /\ IsNewest(intent.covers \cap Picks, intent.audio)
    /\ intent.generation = seek[intent.position].generation

(* No seek of S is newer than one of T.                                    *)
Before(S, T) == \A q \in S, p \in T : seek[q].generation <= seek[p].generation

(* What is in hand is newer than what was served, what is pending newer     *)
(* still.                                                                  *)
InOrder(i) ==
    /\ Pending(i) \cap InHand(i) = {}
    /\ Before(Merges(i) \ Pending(i), Pending(i))
    /\ Before(Merges(i) \ (Pending(i) \cup InHand(i)), InHand(i))

(* Run and plan are those of the newest seek that had its effect on them.   *)
Plays(i) ==
    /\ \E x \in Seeks \cup {AtStart} : IsNewest(Ran(i), x) /\ run[i] \in {NoRun, x}
    /\ IsNewest(Planned(i) \cap Picks, plan[i])
    /\ Pending(i) \cap refused = {}
    /\ AtWork(i, {"taken", "stopped", "restarted"}) => InHand(i) \cap refused = {}
    /\ AtWork(i, {"restarted"}) => run[i] = task[lock[i]].todo.position

(* Request r has been told that a restart covering it succeeded, or will be *)
(* when it looks.                                                          *)
Told(i, r) ==
    \/ seek[r].step = "answered"
    \/ done[i].ok /\ done[i].generation >= seek[r].generation

(* An outcome is told only of what is no longer pending or in hand; and the *)
(* newest seek is told of success only while its run plays.                *)
TellsTruth(i) ==
    /\ \/ done[i].generation = 0
       \/ \E q \in Merges(i) \ (Pending(i) \cup InHand(i)) :
              done[i].generation = seek[q].generation
    /\ \A p \in Pending(i) \cup InHand(i) : seek[p].step # "answered"
    /\ \A r \in Merges(i) : IsNewest(Merges(i), r) /\ Told(i, r) => run[i] = r

(* While session i lives and its intents came in order, it is on its way to *)
(* the newest one; between two runs it has none.                           *)
BurstAt(i) ==
    /\ Pending(i) \cup InHand(i) \subseteq Merges(i)
    /\ AtWork(i, {"stopped"}) => run[i] = NoRun
    /\ ~ended[i] /\ ~overtaken =>
        /\ pending[i] # NoIntent => Aims(pending[i])
        /\ lock[i] # Nobody => Aims(task[lock[i]].todo)
        /\ InOrder(i)
        /\ Plays(i)
        /\ TellsTruth(i)

(* Only what was merged can be refused.                                    *)
RefusedWereMerged == \A r \in refused : seek[r].step \notin {"none", "drawn"}

BurstInv == GenerationsDiffer /\ RefusedWereMerged /\ \A i \in Ids : BurstAt(i)

(* What a step leaves alone stays on its way, if it is told the truth.      *)
LEMMA BurstFrame ==
    ASSUME SeekTypes, NEW i \in Ids, BurstAt(i),
           ended[i] => ended'[i],
           overtaken => overtaken',
           Merges(i)' = Merges(i),
           \A q \in Merges(i) : seek'[q].generation = seek[q].generation,
           pending'[i] = pending[i], run'[i] = run[i], plan'[i] = plan[i],
           lock'[i] = lock[i],
           lock[i] # Nobody => task'[lock[i]] = task[lock[i]],
           refused' \cap Merges(i) = refused \cap Merges(i),
           ~ended'[i] /\ ~overtaken' => TellsTruth(i)'
    PROVE  BurstAt(i)'
<1> USE TableAssumption
<1>1. /\ Pending(i)' = Pending(i) /\ InHand(i)' = InHand(i)
      /\ \A s : AtWork(i, s)' <=> AtWork(i, s)
  BY DEF Pending, InHand, AtWork
<1>2. Ran(i)' = Ran(i) /\ Planned(i)' = Planned(i)
      /\ Ran(i) \subseteq Merges(i) /\ Planned(i) \subseteq Merges(i)
  BY <1>1 DEF Ran, Planned
<1>3. Pending(i) \cup InHand(i) \subseteq Merges(i)
  BY DEF BurstAt
<1>4. \A S \in SUBSET Merges(i) : \A x : IsNewest(S, x) => IsNewest(S, x)'
  BY DEF IsNewest
<1>5. SUFFICES ASSUME ~ended'[i], ~overtaken'
               PROVE  /\ (pending[i] # NoIntent => Aims(pending[i]))'
                      /\ (lock[i] # Nobody => Aims(task[lock[i]].todo))'
                      /\ InOrder(i)' /\ Plays(i)'
  BY <1>1, <1>3 DEF BurstAt
<1>6. /\ pending[i] # NoIntent => Aims(pending[i])
      /\ lock[i] # Nobody => Aims(task[lock[i]].todo)
      /\ InOrder(i) /\ Plays(i)
  BY <1>5 DEF BurstAt
<1>7. \A t : Aims(t) /\ t.covers \subseteq Merges(i) => Aims(t)'
  <2> SUFFICES ASSUME NEW t, Aims(t), t.covers \subseteq Merges(i) PROVE Aims(t)'
    OBVIOUS
  <2>1. IsNewest(t.covers, t.position)' /\ IsNewest(t.covers \cap Picks, t.audio)'
    BY <1>4 DEF Aims
  <2>2. t.position \in Merges(i)
    BY DEF Aims, IsNewest
  <2> QED
    BY <2>1, <2>2 DEF Aims
<1>8. (pending[i] # NoIntent => Aims(pending[i]))'
  BY <1>3, <1>6, <1>7 DEF Pending
<1>9. (lock[i] # Nobody => Aims(task[lock[i]].todo))'
  BY <1>3, <1>6, <1>7 DEF InHand
<1>10. InOrder(i)'
  BY <1>1, <1>3, <1>6 DEF InOrder, Before
<1>11. Plays(i)'
  <2>1. PICK x \in Seeks \cup {AtStart} : IsNewest(Ran(i), x) /\ run[i] \in {NoRun, x}
    BY <1>6 DEF Plays
  <2>2. IsNewest(Ran(i), x)' /\ run'[i] \in {NoRun, x}
    BY <1>2, <1>4, <2>1 DEF IsNewest
  <2>3. IsNewest(Planned(i) \cap Picks, plan[i])
    BY <1>6 DEF Plays
  <2>4. IsNewest(Planned(i) \cap Picks, plan[i])'
    BY <1>2, <2>3 DEF IsNewest
  <2>5. /\ Pending(i)' \cap refused' = {}
        /\ AtWork(i, {"taken", "stopped", "restarted"})' => InHand(i)' \cap refused' = {}
    BY <1>1, <1>3, <1>6 DEF Plays
  <2>6. AtWork(i, {"restarted"})' => run'[i] = task'[lock'[i]].todo.position
    BY <1>1, <1>6 DEF Plays, AtWork
  <2> QED
    BY <2>2, <2>4, <2>5, <2>6 DEF Plays
<1> QED
  BY <1>8, <1>9, <1>10, <1>11

(* What has been told stays true while nothing it is about changes.        *)
LEMMA TellsFrame ==
    ASSUME NEW i \in Ids, TellsTruth(i),
           Pending(i) \cup InHand(i) \subseteq Merges(i),
           Merges(i)' = Merges(i), Pending(i)' = Pending(i), InHand(i)' = InHand(i),
           \A q \in Merges(i) : /\ seek'[q].generation = seek[q].generation
                                /\ seek'[q].step = "answered" => seek[q].step = "answered",
           run'[i] = run[i], done'[i] = done[i]
    PROVE  TellsTruth(i)'
<1>1. \/ done'[i].generation = 0
      \/ \E q \in Merges(i)' \ (Pending(i)' \cup InHand(i)') :
             done'[i].generation = seek'[q].generation
  BY DEF TellsTruth
<1>2. \A p \in Pending(i)' \cup InHand(i)' : seek'[p].step # "answered"
  BY DEF TellsTruth
<1>3. ASSUME NEW r \in Merges(i)', IsNewest(Merges(i), r)', Told(i, r)'
      PROVE  run'[i] = r
  <2>1. IsNewest(Merges(i), r)
    BY <1>3 DEF IsNewest
  <2>2. Told(i, r)
    BY <1>3 DEF Told
  <2> QED
    BY <1>3, <2>1, <2>2 DEF TellsTruth
<1> QED
  BY <1>1, <1>2, <1>3 DEF TellsTruth

(* Both together: the step does not touch session i's seeks.               *)
LEMMA BurstRests ==
    ASSUME SeekTypes, NEW i \in Ids, BurstAt(i),
           ended[i] => ended'[i],
           overtaken => overtaken',
           Merges(i)' = Merges(i),
           \A q \in Merges(i) : /\ seek'[q].generation = seek[q].generation
                                /\ seek'[q].step = "answered" => seek[q].step = "answered",
           pending'[i] = pending[i], run'[i] = run[i], plan'[i] = plan[i],
           lock'[i] = lock[i], done'[i] = done[i],
           lock[i] # Nobody => task'[lock[i]] = task[lock[i]],
           refused' \cap Merges(i) = refused \cap Merges(i)
    PROVE  BurstAt(i)'
<1>1. Pending(i)' = Pending(i) /\ InHand(i)' = InHand(i)
  BY DEF Pending, InHand
<1>2. ~ended'[i] /\ ~overtaken' => TellsTruth(i)
      /\ Pending(i) \cup InHand(i) \subseteq Merges(i)
  BY DEF BurstAt
<1>3. ~ended'[i] /\ ~overtaken' => TellsTruth(i)'
  BY <1>1, <1>2, TellsFrame DEF BurstAt
<1> QED
  BY <1>3, BurstFrame

(* Starts and ends.                                                        *)
LEMMA TableKeepsBurst ==
    ASSUME SeekInv, BurstInv, NEW i \in Ids,
           Admit(i) \/ StartStep(i) \/ Remove(i) \/ EndStep(i)
    PROVE  BurstInv'
<1> USE TableAssumption DEF SeekInv, BurstInv
<1>1. UNCHANGED <<seek, task, lock, pending, plan, generation, done, overtaken, refused>>
  BY DEF Admit, StartStep, FailStart, Insert, FlagBusy, Release, Remove, EndStep,
         Cancel, Collect, seeking, history
<1>2. \A j \in Ids :
          /\ Merges(j)' = Merges(j)
          /\ ended[j] => ended'[j]
          /\ starting'[j] \in {"new", "preparing"} => starting[j] \in {"new", "preparing"}
  BY <1>1 DEF Merges, Admit, StartStep, FailStart, Insert, FlagBusy, Release, Remove, EndStep,
              Cancel, Collect, SeekTypes, TableInv, TableTypes
<1>3. GenerationsDiffer' /\ RefusedWereMerged'
  BY <1>1, <1>2 DEF GenerationsDiffer, RefusedWereMerged, SeekStages
<1>4. \A j \in Ids : run'[j] = run[j] => BurstAt(j)'
  <2> SUFFICES ASSUME NEW j \in Ids, run'[j] = run[j] PROVE BurstAt(j)'
    OBVIOUS
  <2>1. BurstAt(j)
    OBVIOUS
  <2> QED
    BY <1>1, <1>2, <2>1, BurstRests
<1>5. \A j \in Ids : j # i => run'[j] = run[j]
  BY DEF Admit, StartStep, FailStart, Insert, FlagBusy, Release, Remove, EndStep,
         Cancel, Collect, SeekTypes
<1>6. CASE Insert(i)
  <2>1. /\ starting[i] = "preparing" /\ run' = [run EXCEPT ![i] = AtStart]
        /\ UNCHANGED ended
    BY <1>6 DEF Insert
  <2>2. \A r \in Seeks : seek[r].session # i
    BY <2>1 DEF GenerationsDiffer, SeekStages
  <2>3. lock[i] = Nobody /\ Merges(i) = {}
    BY <2>2 DEF LockIsHeld, SeekTypes, Merges
  <2>4. BurstAt(i) /\ run'[i] = AtStart
    BY <2>1 DEF SeekTypes
  <2>5. /\ Pending(i)' = {} /\ InHand(i)' = {} /\ Merges(i)' = {}
        /\ Ran(i)' = {} /\ Planned(i)' = {} /\ Planned(i) = {}
    BY <1>1, <1>2, <2>3, <2>4 DEF BurstAt, Pending, InHand, Ran, Planned
  <2>6. ~ended'[i] /\ ~overtaken' => Plays(i)' /\ TellsTruth(i)' /\ InOrder(i)'
    <3> SUFFICES ASSUME ~ended'[i], ~overtaken' PROVE Plays(i)' /\ TellsTruth(i)' /\ InOrder(i)'
      OBVIOUS
    <3>1. Plays(i) /\ TellsTruth(i)
      BY <1>1, <2>1, <2>4 DEF BurstAt
    <3>2. plan[i] = AtStart
      BY <2>5, <3>1 DEF Plays, IsNewest
    <3>3. Plays(i)'
      BY <1>1, <2>3, <2>4, <2>5, <3>2 DEF Plays, IsNewest, AtWork
    <3>4. TellsTruth(i)'
      BY <1>1, <2>3, <2>5, <3>1 DEF TellsTruth
    <3> QED
      BY <2>5, <3>3, <3>4 DEF InOrder, Before
  <2>7. (pending[i] # NoIntent /\ ~ended[i] /\ ~overtaken => Aims(pending[i]))'
    BY <1>1, <2>1, <2>4 DEF BurstAt, Aims, IsNewest
  <2>8. BurstAt(i)'
    BY <1>1, <2>2, <2>3, <2>5, <2>6, <2>7 DEF BurstAt, AtWork
  <2> QED
    BY <1>3, <1>4, <1>5, <2>8
<1>7. CASE Collect(i)
  <2>1. ended[i] /\ lock[i] = Nobody
    BY <1>7 DEF Collect, EndsCancel
  <2>2. BurstAt(i) /\ ended'[i]
    BY <1>2, <2>1
  <2>3. Pending(i)' = Pending(i) /\ InHand(i)' = InHand(i)
    BY <1>1 DEF Pending, InHand
  <2>4. BurstAt(i)'
    BY <1>1, <1>2, <2>1, <2>2, <2>3 DEF BurstAt, AtWork
  <2> QED
    BY <1>3, <1>4, <1>5, <2>4
<1>8. CASE Admit(i) \/ FailStart(i) \/ FlagBusy(i) \/ Release(i) \/ Remove(i) \/ Cancel(i)
  <2>1. UNCHANGED run
    BY <1>8 DEF Admit, FailStart, FlagBusy, Release, Remove, Cancel
  <2> QED
    BY <1>3, <1>4, <2>1
<1> QED
  BY <1>6, <1>7, <1>8 DEF StartStep, EndStep

(* What was published is older than what is pending or in hand.            *)
LEMMA PublishedIsOlder ==
    ASSUME SeekInv, BurstInv, NEW i \in Ids, ~ended[i], ~overtaken,
           NEW p \in Pending(i) \cup InHand(i)
    PROVE  done[i].generation < seek[p].generation /\ seek[p].step # "answered"
<1> USE DEF SeekInv, BurstInv
<1>1. BurstAt(i)
  OBVIOUS
<1>2. /\ InOrder(i) /\ TellsTruth(i) /\ Pending(i) \cup InHand(i) \subseteq Merges(i)
      /\ p \in Merges(i) /\ p \in Seeks
  BY <1>1 DEF BurstAt, Merges
<1>3. seek[p].step # "none" /\ seek[p].session = i /\ seek[p].generation \in Nat
      /\ seek[p].generation > 0
  BY <1>2 DEF Merges, GenerationsDiffer, SeekTypes, Requests
<1>4. CASE done[i].generation = 0
  BY <1>2, <1>3, <1>4 DEF TellsTruth
<1>5. CASE done[i].generation # 0
  <2>1. PICK q \in Merges(i) \ (Pending(i) \cup InHand(i)) :
                done[i].generation = seek[q].generation
    BY <1>2, <1>5 DEF TellsTruth
  <2>2. seek[q].generation <= seek[p].generation
    BY <1>2, <2>1 DEF InOrder, Before
  <2>3. q # p /\ seek[q].session = i /\ seek[q].step # "none" /\ q \in Seeks
        /\ seek[q].generation \in Nat
    BY <2>1 DEF Merges, SeekTypes, Requests
  <2>4. seek[q].generation # seek[p].generation
    BY <1>2, <1>3, <2>3 DEF GenerationsDiffer
  <2> QED
    BY <1>2, <1>3, <2>1, <2>2, <2>3, <2>4 DEF TellsTruth
<1> QED
  BY <1>4, <1>5

(* A merged intent makes its request the newest.                           *)
LEMMA MergeKeepsBurst ==
    ASSUME SeekInv, BurstInv, NEW r \in Seeks, Merge(r)
    PROVE  BurstInv'
<1> USE TableAssumption DEF SeekInv, BurstInv
<1> DEFINE next == [generation |-> seek[r].generation, position |-> r,
                    audio |-> IF r \in Picks THEN r ELSE AtStart, covers |-> {r}]
<1>0. PICK i \in Ids : i = seek[r].session
  BY DEF Merge, SeekStages
<1>1. /\ seek[r].step = "drawn" /\ seek' = [seek EXCEPT ![r].step = "merged"]
      /\ pending' = [pending EXCEPT ![i] = Merged(@, next)]
      /\ UNCHANGED <<starting, ended, run, lock, plan, done, task, refused, generation>>
  BY <1>0 DEF Merge, table
<1>2. next \in Intent
  BY <1>1 DEF SeekTypes, Intent, Requests
<1>3. /\ seek'[r].step = "merged"
      /\ \A q \in Seeks : q # r => seek'[q] = seek[q]
      /\ \A q \in Seeks : seek'[q].session = seek[q].session
                        /\ seek'[q].generation = seek[q].generation
  BY <1>1, SeekMoves
<1>4. GenerationsDiffer' /\ RefusedWereMerged'
  BY <1>1, <1>3 DEF GenerationsDiffer, RefusedWereMerged, SeekTypes
<1>5. /\ Merges(i)' = Merges(i) \cup {r} /\ r \notin Merges(i)
      /\ \A j \in Ids : j # i => Merges(j)' = Merges(j)
  BY <1>0, <1>1, <1>3 DEF Merges
<1>6. /\ overtaken => overtaken'
      /\ ~overtaken' => \A q \in Merges(i) : ~(seek[q].generation > seek[r].generation)
  BY <1>0 DEF Merge, Merges
<1>7. ASSUME NEW j \in Ids, j # i PROVE BurstAt(j)'
  <2>1. BurstAt(j)
    OBVIOUS
  <2>2. \A q \in Merges(j) : /\ seek'[q].generation = seek[q].generation
                             /\ seek'[q].step = "answered" => seek[q].step = "answered"
    BY <1>3 DEF Merges
  <2>3. pending'[j] = pending[j] /\ Merges(j)' = Merges(j)
    BY <1>1, <1>5, <1>7 DEF SeekTypes
  <2> QED
    BY <1>1, <1>6, <2>1, <2>2, <2>3, BurstRests
<1>8. BurstAt(i)'
  <2>1. BurstAt(i)
    OBVIOUS
  <2>2. pending'[i] = Merged(pending[i], next)
    BY <1>1 DEF SeekTypes
  <2>3. /\ pending'[i] \in Intent /\ pending'[i].position = r
        /\ pending'[i].generation = seek[r].generation
        /\ pending'[i].covers = Pending(i) \cup {r}
        /\ pending'[i].audio = IF r \in Picks THEN r
                               ELSE IF pending[i] = NoIntent THEN AtStart ELSE pending[i].audio
    <3>1. CASE pending[i] = NoIntent
      BY <1>2, <2>2, <3>1 DEF Merged, Intent, Pending
    <3>2. CASE pending[i] # NoIntent
      <4>1. pending[i] \in Intent
        BY <3>2 DEF SeekTypes
      <4>2. pending'[i] = [next EXCEPT !.audio = IF @ = AtStart THEN pending[i].audio ELSE @,
                                       !.covers = @ \cup pending[i].covers]
        BY <2>2, <3>2 DEF Merged
      <4>3. r # AtStart
        OBVIOUS
      <4> QED
        BY <1>2, <3>2, <4>1, <4>2, <4>3 DEF Intent, Pending
    <3> QED
      BY <3>1, <3>2
  <2>4. pending'[i] # NoIntent
    BY <2>3
  <2>5. /\ Pending(i)' = Pending(i) \cup {r} /\ InHand(i)' = InHand(i)
        /\ Pending(i) \cup InHand(i) \subseteq Merges(i)
    BY <1>1, <2>1, <2>3, <2>4 DEF Pending, InHand, BurstAt
  <2>6. r \notin refused
    BY <1>1 DEF RefusedWereMerged
  <2>7. \A s : AtWork(i, s)' <=> AtWork(i, s)
    BY <1>1 DEF AtWork
  <2>8. Ran(i)' = Ran(i) /\ Planned(i)' = Planned(i)
    BY <1>1, <1>5, <2>5, <2>7 DEF Ran, Planned
  <2>9. SUFFICES ASSUME ~ended'[i], ~overtaken'
                 PROVE  /\ Aims(pending[i])'
                        /\ (lock[i] # Nobody => Aims(task[lock[i]].todo))'
                        /\ InOrder(i)' /\ Plays(i)' /\ TellsTruth(i)'
    BY <1>1, <1>5, <2>1, <2>5, <2>7 DEF BurstAt
  <2>10. /\ ~ended[i] /\ ~overtaken
         /\ pending[i] # NoIntent => Aims(pending[i])
         /\ lock[i] # Nobody => Aims(task[lock[i]].todo)
         /\ InOrder(i) /\ Plays(i) /\ TellsTruth(i)
    BY <1>1, <1>6, <2>1, <2>9 DEF BurstAt
  <2>11. \A q \in Merges(i) \cup {r} : seek[q].generation <= seek[r].generation
    BY <1>6, <2>9 DEF Merges, SeekTypes, Requests
  <2>12. \A q \in Merges(i) \cup {r} : seek'[q].generation = seek[q].generation
    BY <1>3 DEF Merges
  <2>14. Aims(pending[i])'
    <3>1. IsNewest(pending[i].covers, pending[i].position)'
      BY <2>3, <2>5, <2>11, <2>12 DEF IsNewest
    <3>2. IsNewest(pending[i].covers \cap Picks, pending[i].audio)'
      <4>1. CASE r \in Picks
        BY <2>3, <2>5, <2>11, <2>12, <4>1 DEF IsNewest
      <4>2. CASE r \notin Picks /\ pending[i] = NoIntent
        BY <2>3, <4>2 DEF IsNewest, Pending
      <4>3. CASE r \notin Picks /\ pending[i] # NoIntent
        <5>1. /\ pending'[i].audio = pending[i].audio
              /\ pending'[i].covers \cap Picks = pending[i].covers \cap Picks
              /\ pending[i].covers \subseteq Merges(i)
          BY <2>3, <2>5, <4>3 DEF Pending
        <5>2. IsNewest(pending[i].covers \cap Picks, pending[i].audio)
          BY <2>10, <4>3 DEF Aims
        <5> QED
          BY <2>12, <5>1, <5>2 DEF IsNewest
      <4> QED
        BY <4>1, <4>2, <4>3
    <3> QED
      BY <1>3, <2>3, <3>1, <3>2 DEF Aims
  <2>15. (lock[i] # Nobody => Aims(task[lock[i]].todo))'
    <3> SUFFICES ASSUME lock[i] # Nobody PROVE Aims(task[lock[i]].todo)'
      BY <1>1
    <3> DEFINE t == task[lock[i]].todo
    <3>1. Aims(t) /\ t.covers \subseteq Merges(i)
      BY <2>5, <2>10 DEF InHand
    <3>2. /\ IsNewest(t.covers, t.position) /\ IsNewest(t.covers \cap Picks, t.audio)
          /\ t.position \in Seeks /\ t.generation = seek[t.position].generation
      BY <3>1 DEF Aims
    <3>3. t' = t
      BY <1>1
    <3>4. IsNewest(t.covers, t.position)' /\ IsNewest(t.covers \cap Picks, t.audio)'
      BY <2>12, <3>1, <3>2, <3>3 DEF IsNewest
    <3> QED
      BY <1>3, <3>2, <3>3, <3>4 DEF Aims
  <2>16. InOrder(i)'
    <3>1. Pending(i)' \cap InHand(i)' = {}
      BY <1>5, <2>5, <2>10 DEF InOrder
    <3>2. Before(Merges(i) \ Pending(i), Pending(i))'
      BY <1>5, <2>5, <2>10, <2>11, <2>12 DEF InOrder, Before
    <3>3. Before(Merges(i) \ (Pending(i) \cup InHand(i)), InHand(i))'
      BY <1>5, <2>5, <2>10, <2>12 DEF InOrder, Before
    <3> QED
      BY <3>1, <3>2, <3>3 DEF InOrder
  <2>17. Plays(i)'
    <3>1. PICK x \in Seeks \cup {AtStart} : IsNewest(Ran(i), x) /\ run[i] \in {NoRun, x}
      BY <2>10 DEF Plays
    <3>2. Ran(i) \subseteq Merges(i) /\ Planned(i) \subseteq Merges(i)
      BY DEF Ran, Planned
    <3>3. IsNewest(Ran(i), x)' /\ run'[i] \in {NoRun, x}
      BY <1>1, <2>8, <2>12, <3>1, <3>2 DEF IsNewest
    <3>4. IsNewest(Planned(i) \cap Picks, plan[i])
      BY <2>10 DEF Plays
    <3>5. IsNewest(Planned(i) \cap Picks, plan[i])'
      BY <1>1, <2>8, <2>12, <3>2, <3>4 DEF IsNewest
    <3>6. /\ Pending(i)' \cap refused' = {}
          /\ AtWork(i, {"taken", "stopped", "restarted"})' => InHand(i)' \cap refused' = {}
          /\ AtWork(i, {"restarted"})' => run'[i] = task'[lock'[i]].todo.position
      BY <1>1, <2>5, <2>6, <2>7, <2>10 DEF Plays
    <3> QED
      BY <3>3, <3>5, <3>6 DEF Plays
  <2>18. TellsTruth(i)'
    <3>1. \/ done'[i].generation = 0
          \/ \E q \in Merges(i)' \ (Pending(i)' \cup InHand(i)') :
                 done'[i].generation = seek'[q].generation
      BY <1>1, <1>5, <2>5, <2>10, <2>12 DEF TellsTruth
    <3>2. \A p \in Pending(i)' \cup InHand(i)' : seek'[p].step # "answered"
      BY <1>3, <2>5, <2>10 DEF TellsTruth, Merges
    <3>3. ASSUME NEW q \in Merges(i)', IsNewest(Merges(i), q)', Told(i, q)'
          PROVE  FALSE
      <4>1. seek[r].generation <= seek[q].generation /\ q \in Seeks
        BY <1>5, <2>12, <3>3, TableAssumption DEF IsNewest, Merges
      <4>2. seek[q].generation <= seek[r].generation
        BY <1>5, <2>11
      <4>3. seek[q].generation = seek[r].generation
        <5>1. seek[q].generation \in Nat /\ seek[r].generation \in Nat
          BY <4>1 DEF SeekTypes, Requests
        <5> QED
          BY <4>1, <4>2, <5>1
      <4>4. q = r
        BY <1>0, <1>1, <1>5, <4>1, <4>3 DEF GenerationsDiffer, Merges
      <4>5. done[i].generation >= seek[r].generation
        BY <1>1, <1>3, <3>3, <4>4 DEF Told
      <4>6. seek[r].generation \in Nat /\ seek[r].generation > 0
        BY <1>1 DEF GenerationsDiffer, SeekTypes, Requests
      <4>7. PICK p \in Merges(i) : done[i].generation = seek[p].generation
        BY <2>10, <4>5, <4>6 DEF TellsTruth
      <4>8. p \in Seeks /\ p # r /\ seek[p].session = i /\ seek[p].step # "none"
            /\ seek[p].generation \in Nat
        BY <1>5 DEF Merges, SeekTypes, Requests
      <4>9. seek[p].generation # seek[r].generation
        BY <1>0, <1>1, <4>8 DEF GenerationsDiffer
      <4> QED
        BY <2>11, <4>5, <4>6, <4>7, <4>8, <4>9
    <3> QED
      BY <3>1, <3>2, <3>3 DEF TellsTruth
  <2> QED
    BY <2>14, <2>15, <2>16, <2>17, <2>18
<1> QED
  BY <1>4, <1>7, <1>8

(* Requests: a generation drawn changes nothing yet, a merged intent makes  *)
(* its request the newest, an answer tells what was published.             *)
LEMMA RequestKeepsBurst ==
    ASSUME SeekInv, BurstInv, NEW r \in Seeks,
           (\E i \in Seekable : Draw(r, i)) \/ SeekStep(r) \/ Abandon(r)
    PROVE  BurstInv'
<1> USE TableAssumption DEF SeekInv, BurstInv
<1>1. UNCHANGED <<starting, ended, run, lock, plan, done, refused>>
  BY DEF Draw, SeekStep, Merge, Subscribe, Answer, Abandon, table, history
<1>2. ASSUME NEW i \in Seekable, Draw(r, i) PROVE BurstInv'
  <2>1. /\ seek[r].step = "none" /\ i \in Ids /\ i \in active
        /\ UNCHANGED <<task, pending, overtaken>>
        /\ generation' = [generation EXCEPT ![i] = @ + 1]
        /\ seek' = [seek EXCEPT ![r] = [step |-> "drawn", session |-> i,
                                       generation |-> generation[i] + 1]]
    BY <1>2 DEF Draw, history
  <2>2. /\ seek'[r] = [step |-> "drawn", session |-> i, generation |-> generation[i] + 1]
        /\ \A q \in Seeks : q # r => seek'[q] = seek[q]
    BY <2>1 DEF SeekTypes
  <2>3. /\ generation'[i] = generation[i] + 1 /\ generation[i] \in Nat
        /\ \A j \in Ids : j # i => generation'[j] = generation[j]
    BY <2>1 DEF SeekTypes
  <2>4. starting[i] \notin {"new", "preparing"}
    BY <2>1 DEF TableInv, SlotsAreStarts
  <2>5. \A q \in Seeks : seek[q].generation \in Nat
    BY DEF SeekTypes, Requests
  <2>6. GenerationsDiffer'
    BY <1>1, <2>2, <2>3, <2>4, <2>5 DEF GenerationsDiffer, SeekStages
  <2>7. \A j \in Ids : Merges(j)' = Merges(j)
    BY <2>1, <2>2 DEF Merges
  <2>8. \A j \in Ids : \A q \in Merges(j) : seek'[q] = seek[q]
    BY <2>1, <2>2 DEF Merges
  <2>9. RefusedWereMerged'
    BY <1>1, <2>1, <2>2 DEF RefusedWereMerged, SeekTypes
  <2>10. ASSUME NEW j \in Ids PROVE BurstAt(j)'
    <3>1. BurstAt(j)
      OBVIOUS
    <3> QED
      BY <1>1, <2>1, <2>7, <2>8, <3>1, BurstRests
  <2> QED
    BY <2>6, <2>9, <2>10
<1>3. CASE Subscribe(r)
  <2>1. /\ seek[r].step = "merged" /\ seek' = [seek EXCEPT ![r].step = "waiting"]
        /\ task' = [task EXCEPT ![r].step = "queued"]
        /\ UNCHANGED <<pending, generation, overtaken>>
    BY <1>3 DEF Subscribe, history
  <2>2. /\ seek'[r].step = "waiting"
        /\ \A q \in Seeks : q # r => seek'[q] = seek[q]
        /\ \A q \in Seeks : seek'[q].session = seek[q].session
                          /\ seek'[q].generation = seek[q].generation
    BY <2>1, SeekMoves
  <2>3. \A q \in Seeks : q # r => task'[q] = task[q]
    BY <2>1, TaskMoves
  <2>4. \A j \in Ids : lock[j] # r
    BY <2>1 DEF SeekStages, LockIsHeld, Executing
  <2>5. \A j \in Ids : lock[j] # Nobody => task'[lock[j]] = task[lock[j]]
    BY <2>3, <2>4 DEF SeekTypes
  <2>6. GenerationsDiffer' /\ RefusedWereMerged'
    BY <1>1, <2>1, <2>2 DEF GenerationsDiffer, RefusedWereMerged, SeekTypes
  <2>7. \A j \in Ids : Merges(j)' = Merges(j)
    BY <2>1, <2>2 DEF Merges
  <2>8. ASSUME NEW j \in Ids PROVE BurstAt(j)'
    <3>1. BurstAt(j)
      OBVIOUS
    <3>2. \A q \in Merges(j) : /\ seek'[q].generation = seek[q].generation
                               /\ seek'[q].step = "answered" => seek[q].step = "answered"
      BY <2>2 DEF Merges
    <3> QED
      BY <1>1, <2>1, <2>5, <2>7, <3>1, <3>2, BurstRests
  <2> QED
    BY <2>6, <2>8
<1>4. CASE Answer(r) \/ Abandon(r)
  <2>1. PICK x \in {"answered", "failed", "abandoned"} : seek' = [seek EXCEPT ![r].step = x]
    BY <1>4 DEF Answer, Abandon
  <2>2. seek[r].step = "waiting" /\ UNCHANGED <<task, pending, overtaken, generation>>
    BY <1>4 DEF Answer, Abandon, history
  <2>3. /\ seek'[r].step = x
        /\ \A q \in Seeks : q # r => seek'[q] = seek[q]
        /\ \A q \in Seeks : seek'[q].session = seek[q].session
                          /\ seek'[q].generation = seek[q].generation
    BY <2>1, SeekMoves
  <2>4. GenerationsDiffer' /\ RefusedWereMerged'
    <3>1. \A q \in Seeks : seek'[q].step \in {"none", "drawn"} => seek'[q] = seek[q]
      BY <2>3
    <3>2. \A q \in Seeks : seek'[q].step = "none" <=> seek[q].step = "none"
      BY <2>2, <2>3
    <3>3. GenerationsDiffer'
      BY <1>1, <2>2, <2>3, <3>2 DEF GenerationsDiffer
    <3>4. RefusedWereMerged'
      BY <1>1, <3>1 DEF RefusedWereMerged, SeekTypes
    <3> QED
      BY <3>3, <3>4
  <2>5. \A j \in Ids : Merges(j)' = Merges(j)
    BY <2>2, <2>3 DEF Merges
  <2>6. PICK i \in Ids : i = seek[r].session
    BY <2>2 DEF SeekStages
  <2>7. ASSUME NEW j \in Ids, j # i \/ x # "answered" PROVE BurstAt(j)'
    <3>1. BurstAt(j)
      OBVIOUS
    <3>2. \A q \in Merges(j) : /\ seek'[q].generation = seek[q].generation
                               /\ seek'[q].step = "answered" => seek[q].step = "answered"
      BY <2>3, <2>6, <2>7 DEF Merges
    <3> QED
      BY <1>1, <2>2, <2>5, <3>1, <3>2, BurstRests
  <2>8. ASSUME x = "answered" PROVE BurstAt(i)'
    <3>1. /\ BurstAt(i) /\ Pending(i)' = Pending(i) /\ InHand(i)' = InHand(i)
          /\ \A q \in Merges(i) : seek'[q].generation = seek[q].generation
      BY <1>1, <2>2, <2>3 DEF Pending, InHand, Merges
    <3>2. done[i].ok /\ done[i].generation >= seek[r].generation
      <4>1. Abandon(r) => seek'[r].step = "abandoned"
        BY SeekMoves DEF Abandon
      <4>2. Answer(r)
        BY <1>4, <2>3, <2>8, <4>1
      <4>3. PICK y \in {"answered", "failed"} :
                /\ y = IF done[i].ok THEN "answered" ELSE "failed"
                /\ seek' = [seek EXCEPT ![r].step = y]
        BY <2>6, <4>2 DEF Answer
      <4>4. seek'[r].step = y
        <5>1. seek' = [seek EXCEPT ![r].step = y]
          BY <4>3
        <5> QED
          BY <5>1, SeekMoves, Zenon
      <4>5. done[i].ok
        BY <2>3, <2>8, <4>3, <4>4
      <4> QED
        BY <2>6, <4>2, <4>5 DEF Answer
    <3>3. ~ended'[i] /\ ~overtaken' => TellsTruth(i)'
      <4> SUFFICES ASSUME ~ended'[i], ~overtaken' PROVE TellsTruth(i)'
        OBVIOUS
      <4>1. ~ended[i] /\ ~overtaken /\ TellsTruth(i)
            /\ Pending(i) \cup InHand(i) \subseteq Merges(i)
        BY <1>1, <2>2, <3>1 DEF BurstAt
      <4>2. \A p \in Pending(i) \cup InHand(i) :
                done[i].generation < seek[p].generation /\ seek[p].step # "answered"
        BY <4>1, PublishedIsOlder
      <4>3. seek[r].generation \in Nat /\ done[i].generation \in Nat
        BY DEF SeekTypes, Requests
      <4>4. r \notin Pending(i) \cup InHand(i)
        BY <3>2, <4>2, <4>3
      <4>5. \A p \in Pending(i)' \cup InHand(i)' : seek'[p].step # "answered"
        BY <2>3, <3>1, <4>1, <4>2, <4>4 DEF Merges
      <4>6. \/ done'[i].generation = 0
            \/ \E q \in Merges(i)' \ (Pending(i)' \cup InHand(i)') :
                   done'[i].generation = seek'[q].generation
        BY <1>1, <2>5, <3>1, <4>1 DEF TellsTruth
      <4>7. ASSUME NEW q \in Merges(i)', IsNewest(Merges(i), q)', Told(i, q)'
            PROVE  run'[i] = q
        <5>1. q \in Merges(i) /\ IsNewest(Merges(i), q)
          BY <2>5, <3>1, <4>7 DEF IsNewest
        <5>2. Told(i, q)
          BY <1>1, <2>3, <3>1, <3>2, <4>7, <5>1 DEF Told, Merges
        <5> QED
          BY <1>1, <4>1, <5>1, <5>2 DEF TellsTruth
      <4> QED
        BY <4>5, <4>6, <4>7 DEF TellsTruth
    <3> QED
      BY <1>1, <2>2, <2>5, <3>1, <3>3, BurstFrame
  <2> QED
    BY <2>4, <2>7, <2>8
<1>5. CASE Merge(r)
  BY <1>5, MergeKeepsBurst
<1> QED
  BY <1>2, <1>3, <1>4, <1>5 DEF SeekStep

(* Executors.  An intent moves from pending_seek to the executor's hands,  *)
(* from there into the plan and the run, or is refused.                    *)
LEMMA ExecutorKeepsBurst ==
    ASSUME SeekInv, BurstInv, NEW r \in Seeks, TaskStep(r)
    PROVE  BurstInv'
<1> USE TableAssumption DEF SeekInv, BurstInv
<1>0. PICK i \in Ids : i = seek[r].session
  BY DEF TaskStep, Take, Refuse, Stop, Restart, GiveUp, Publish, SeekStages
<1>1. UNCHANGED <<starting, ended, seek, generation, overtaken>>
  BY DEF TaskStep, Take, Refuse, Stop, Restart, GiveUp, Publish, table, history
<1>2. GenerationsDiffer' /\ \A j \in Ids : Merges(j)' = Merges(j)
  BY <1>1 DEF GenerationsDiffer, Merges
<1>5. BurstAt(i)
  OBVIOUS
<1>6. task[r].step \in Executing => lock[i] = r /\ task[r].todo.covers \subseteq Merges(i)
  <2> SUFFICES ASSUME task[r].step \in Executing
               PROVE  lock[i] = r /\ task[r].todo.covers \subseteq Merges(i)
    OBVIOUS
  <2>1. lock[i] = r
    BY <1>0 DEF LockIsHeld
  <2> QED
    BY <1>5, <2>1 DEF BurstAt, InHand
<1>7. refused' = refused \/ (Refuse(r) /\ refused' = refused \cup task[r].todo.covers)
  <2>1. Refuse(r) => refused' = refused \cup task[r].todo.covers
    BY DEF Refuse
  <2>2. Take(r) \/ Stop(r) \/ Restart(r) \/ GiveUp(r) \/ Publish(r) => refused' = refused
    BY DEF Take, Stop, Restart, GiveUp, Publish, history
  <2> QED
    BY <2>1, <2>2 DEF TaskStep
<1>8. RefusedWereMerged'
  BY <1>1, <1>6, <1>7 DEF RefusedWereMerged, Refuse, Executing, Merges
<1>9. ASSUME NEW j \in Ids, j # i
      PROVE  BurstAt(j)'
  <2>1. lock[j] # r
    BY <1>0, <1>9 DEF LockIsHeld
  <2>2. \A q \in Seeks : q # r => task'[q] = task[q]
    BY DEF TaskStep, Take, Refuse, Stop, Restart, GiveUp, Publish, SeekTypes
  <2>3. lock[j] # Nobody => task'[lock[j]] = task[lock[j]]
    BY <2>1, <2>2 DEF SeekTypes
  <2>4. pending'[j] = pending[j] /\ run'[j] = run[j] /\ plan'[j] = plan[j] /\ lock'[j] = lock[j]
    BY <1>0, <1>9 DEF TaskStep, Take, Refuse, Stop, Restart, GiveUp, Publish, SeekTypes
  <2>5. done'[j] = done[j]
    BY <1>0, <1>9 DEF TaskStep, Take, Refuse, Stop, Restart, GiveUp, Publish, SeekTypes
  <2>6. refused' \cap Merges(j) = refused \cap Merges(j)
    BY <1>6, <1>7, <1>9 DEF Refuse, Executing, Merges
  <2>7. BurstAt(j)
    OBVIOUS
  <2> QED
    BY <1>1, <1>2, <2>3, <2>4, <2>5, <2>6, <2>7, BurstRests
<1>10. SUFFICES BurstAt(i)'
  BY <1>2, <1>8, <1>9
<1>11. CASE Take(r) /\ pending[i] = NoIntent
  <2>1. lock[i] = Nobody /\ UNCHANGED <<lock, pending, run, plan, done, refused>>
    BY <1>0, <1>11 DEF Take, history
  <2> QED
    BY <1>1, <1>2, <1>5, <2>1, BurstRests
<1>12. /\ ~ended'[i] /\ ~overtaken' => ~ended[i] /\ ~overtaken
       /\ Pending(i) \cup InHand(i) \subseteq Merges(i)
       /\ ~ended[i] /\ ~overtaken =>
             /\ pending[i] # NoIntent => Aims(pending[i])
             /\ lock[i] # Nobody => Aims(task[lock[i]].todo)
             /\ InOrder(i) /\ Plays(i) /\ TellsTruth(i)
  BY <1>1, <1>5 DEF BurstAt
<1>13. CASE Take(r) /\ pending[i] # NoIntent
  <2>1. /\ lock[i] = Nobody /\ lock'[i] = r /\ pending'[i] = NoIntent
        /\ task'[r] = [step |-> "taken", todo |-> pending[i]]
        /\ UNCHANGED <<run, plan, done, refused>>
    BY <1>0, <1>13 DEF Take, SeekTypes, history
  <2>2. /\ AtWork(i, {"taken"})' /\ AtWork(i, {"taken", "stopped"})' /\ ~AtWork(i, {"stopped"})'
        /\ ~AtWork(i, {"restarted"})'
        /\ ~AtWork(i, {"taken"}) /\ ~AtWork(i, {"taken", "stopped"})
    BY <2>1 DEF AtWork
  <2>3. Pending(i)' = {} /\ InHand(i)' = Pending(i) /\ InHand(i) = {}
    BY <1>13, <2>1 DEF Pending, InHand
  <2>4. Ran(i)' = Ran(i) /\ Planned(i)' = Planned(i)
    BY <1>2, <2>1, <2>2, <2>3 DEF Ran, Planned
  <2>5. SUFFICES ASSUME ~ended[i], ~overtaken
                 PROVE  /\ Aims(task[lock[i]].todo)' /\ InOrder(i)' /\ Plays(i)' /\ TellsTruth(i)'
    BY <1>2, <1>12, <2>1, <2>2, <2>3 DEF BurstAt
  <2>6. Aims(task[lock[i]].todo)'
    BY <1>1, <1>12, <1>13, <2>1, <2>5 DEF Aims, IsNewest
  <2>7. InOrder(i)'
    BY <1>1, <1>2, <1>12, <2>3, <2>5 DEF InOrder, Before
  <2>8. Plays(i)'
    BY <1>1, <1>12, <2>1, <2>2, <2>3, <2>4, <2>5 DEF Plays, IsNewest
  <2>9. TellsTruth(i)'
    BY <1>1, <1>2, <1>12, <2>1, <2>3, <2>5 DEF TellsTruth, Told, IsNewest
  <2> QED
    BY <2>6, <2>7, <2>8, <2>9
<1>14. CASE Stop(r)
  <2>1. /\ task[r].step = "taken" /\ lock[i] = r /\ lock' = lock /\ pending' = pending
        /\ run'[i] = NoRun /\ done' = done /\ refused' = refused
        /\ plan'[i] = IF task[r].todo.audio = AtStart THEN plan[i] ELSE task[r].todo.audio
        /\ task'[r].step = "stopped" /\ task'[r].todo = task[r].todo
    BY <1>0, <1>6, <1>14 DEF Stop, SeekTypes, Executing, history
  <2>2. /\ AtWork(i, {"taken"}) /\ AtWork(i, {"taken", "stopped"})
        /\ AtWork(i, {"taken", "stopped", "restarted"})
        /\ AtWork(i, {"taken", "stopped"})' /\ ~AtWork(i, {"taken"})' /\ ~AtWork(i, {"restarted"})'
    BY <2>1 DEF AtWork
  <2>3. Pending(i)' = Pending(i) /\ InHand(i)' = InHand(i) /\ InHand(i) = task[r].todo.covers
    BY <2>1 DEF Pending, InHand
  <2>4. SUFFICES ASSUME ~ended[i], ~overtaken
                 PROVE  /\ (pending[i] # NoIntent => Aims(pending[i]))'
                        /\ Aims(task[lock[i]].todo)' /\ InOrder(i)' /\ Plays(i)' /\ TellsTruth(i)'
    BY <1>2, <1>12, <2>1, <2>2, <2>3 DEF BurstAt
  <2>5. Ran(i)' = Ran(i)
    BY <1>2, <2>1, <2>2, <2>3 DEF Ran
  <2>6. Planned(i)' = Planned(i) \cup InHand(i)
    BY <1>2, <1>12, <2>1, <2>2, <2>3, <2>4 DEF Planned, Plays, InOrder
  <2>7. (pending[i] # NoIntent => Aims(pending[i]))' /\ Aims(task[lock[i]].todo)'
    BY <1>1, <1>12, <2>1, <2>4 DEF Aims, IsNewest
  <2>8. InOrder(i)'
    BY <1>1, <1>2, <1>12, <2>3, <2>4 DEF InOrder, Before
  <2>9. IsNewest(Planned(i) \cap Picks, plan[i])'
    <3>1. /\ IsNewest(Planned(i) \cap Picks, plan[i])
          /\ IsNewest(InHand(i) \cap Picks, task[r].todo.audio)
      BY <1>12, <2>1, <2>3, <2>4 DEF Plays, Aims
    <3>2. CASE InHand(i) \cap Picks = {}
      <4>1. plan'[i] = plan[i] /\ (Planned(i) \cap Picks)' = Planned(i) \cap Picks
        BY <2>1, <2>6, <3>1, <3>2 DEF IsNewest
      <4> QED
        BY <1>1, <3>1, <4>1 DEF IsNewest
    <3>3. CASE InHand(i) \cap Picks # {}
      <4>1. task[r].todo.audio \in InHand(i) \cap Picks
            /\ \A q \in InHand(i) \cap Picks : seek[q].generation <= seek[task[r].todo.audio].generation
        BY <3>1, <3>3 DEF IsNewest
      <4>2. task[r].todo.audio # AtStart /\ plan'[i] = task[r].todo.audio
        BY <2>1, <4>1
      <4>3. \A q \in Planned(i) : seek[q].generation <= seek[task[r].todo.audio].generation
        BY <1>12, <2>2, <2>4, <4>1 DEF InOrder, Before, Planned
      <4>4. \A q \in (Planned(i) \cup InHand(i)) \cap Picks :
                seek'[q].generation <= seek'[plan'[i]].generation
        BY <1>1, <4>1, <4>2, <4>3
      <4> QED
        BY <2>6, <4>1, <4>2, <4>4 DEF IsNewest
    <3> QED
      BY <3>2, <3>3
  <2>10. Plays(i)'
    BY <1>1, <1>12, <2>1, <2>2, <2>3, <2>4, <2>5, <2>9 DEF Plays, IsNewest
  <2>11. TellsTruth(i)'
    <3>1. ASSUME NEW q \in Merges(i), IsNewest(Merges(i), q), Told(i, q)
          PROVE  FALSE
      <4> DEFINE p == task[r].todo.position
      <4>1. p \in InHand(i) /\ p \in Merges(i) /\ p \in Seeks
        BY <1>12, <2>1, <2>3, <2>4 DEF Aims, IsNewest
      <4>2. \A x \in Pending(i) \cup InHand(i) :
                done[i].generation < seek[x].generation /\ seek[x].step # "answered"
        BY <2>4, PublishedIsOlder
      <4>3. /\ seek[q].generation \in Nat /\ seek[p].generation \in Nat
            /\ done[i].generation \in Nat /\ q \in Seeks
        BY <4>1 DEF SeekTypes, Requests, Merges
      <4>4. q \notin Pending(i) \cup InHand(i)
        BY <3>1, <4>2, <4>3 DEF Told
      <4>5. seek[q].generation <= seek[p].generation
        BY <1>12, <2>4, <4>1, <4>4 DEF InOrder, Before
      <4>6. seek[p].generation <= seek[q].generation
        BY <3>1, <4>1, <4>3 DEF IsNewest
      <4>7. q = p
        BY <4>1, <4>3, <4>5, <4>6 DEF GenerationsDiffer, Merges
      <4> QED
        BY <4>1, <4>4, <4>7
    <3>2. \A q \in Merges(i)' : ~(IsNewest(Merges(i), q)' /\ Told(i, q)')
      BY <1>1, <1>2, <2>1, <3>1 DEF IsNewest, Told
    <3> QED
      BY <1>1, <1>2, <1>12, <2>1, <2>3, <2>4, <3>2 DEF TellsTruth
  <2> QED
    BY <2>7, <2>8, <2>10, <2>11
<1>15. CASE Restart(r) \/ GiveUp(r)
  <2>1. /\ lock[i] = r /\ lock' = lock /\ pending' = pending /\ plan' = plan
        /\ done' = done /\ refused' = refused
        /\ task[r].step = "stopped" /\ task'[r].todo = task[r].todo
        /\ \/ task'[r].step = "restarted" /\ run'[i] = task[r].todo.position
           \/ task'[r].step = "failed" /\ run'[i] = run[i]
    <3>1. CASE Restart(r)
      BY <1>0, <1>6, <3>1 DEF Restart, SeekTypes, Executing, history
    <3>2. CASE GiveUp(r)
      BY <1>0, <1>6, <3>2 DEF GiveUp, SeekTypes, Executing, history
    <3> QED
      BY <1>15, <3>1, <3>2
  <2>2. /\ ~AtWork(i, {"stopped"})' /\ ~AtWork(i, {"taken"})' /\ ~AtWork(i, {"taken", "stopped"})'
        /\ AtWork(i, {"stopped"}) /\ AtWork(i, {"taken", "stopped"}) /\ ~AtWork(i, {"taken"})
        /\ AtWork(i, {"taken", "stopped", "restarted"})
        /\ AtWork(i, {"restarted"})' => run'[i] = task[r].todo.position
    BY <2>1 DEF AtWork
  <2>3. Pending(i)' = Pending(i) /\ InHand(i)' = InHand(i) /\ InHand(i) = task[r].todo.covers
    BY <2>1 DEF Pending, InHand
  <2>4. SUFFICES ASSUME ~ended[i], ~overtaken
                 PROVE  /\ (pending[i] # NoIntent => Aims(pending[i]))'
                        /\ Aims(task[lock[i]].todo)' /\ InOrder(i)' /\ Plays(i)' /\ TellsTruth(i)'
    BY <1>2, <1>12, <2>1, <2>2, <2>3 DEF BurstAt
  <2>5. Planned(i)' = Planned(i)
    BY <1>2, <2>1, <2>2, <2>3 DEF Planned
  <2>6. Ran(i)' = Ran(i) \cup InHand(i)
    BY <1>2, <1>12, <2>1, <2>2, <2>3, <2>4 DEF Ran, Plays, InOrder
  <2>7. (pending[i] # NoIntent => Aims(pending[i]))' /\ Aims(task[lock[i]].todo)'
    BY <1>1, <1>12, <2>1, <2>4 DEF Aims, IsNewest
  <2>8. InOrder(i)'
    BY <1>1, <1>2, <1>12, <2>3, <2>4 DEF InOrder, Before
  <2>9. run[i] = NoRun
    BY <1>5, <2>2 DEF BurstAt
  <2>10. Plays(i)'
    <3> DEFINE p == task[r].todo.position
    <3>1. /\ p \in InHand(i) /\ p \in Seeks
          /\ \A q \in InHand(i) : seek[q].generation <= seek[p].generation
      BY <1>12, <2>1, <2>3, <2>4 DEF Aims, IsNewest
    <3>2. \A q \in Ran(i) : seek[q].generation <= seek[p].generation
      BY <1>12, <2>2, <2>4, <3>1 DEF InOrder, Before, Ran
    <3>4. p \in Ran(i)' /\ \A q \in Ran(i)' : seek'[q].generation <= seek'[p].generation
      BY <1>1, <2>6, <3>1, <3>2
    <3>5. \E x \in Seeks \cup {AtStart} : IsNewest(Ran(i), x)' /\ run'[i] \in {NoRun, x}
      <4>1. run'[i] \in {NoRun, p}
        BY <2>1, <2>9
      <4>2. \E x \in Seeks \cup {AtStart} :
                /\ x \in Ran(i)' /\ \A q \in Ran(i)' : seek'[q].generation <= seek'[x].generation
                /\ run'[i] \in {NoRun, x}
        BY <3>1, <3>4, <4>1
      <4> QED
        BY <4>2 DEF IsNewest
    <3> QED
      BY <1>1, <1>12, <2>1, <2>2, <2>3, <2>4, <2>5, <3>5 DEF Plays, IsNewest
  <2>11. TellsTruth(i)'
    <3>1. \A q \in Merges(i) : ~(IsNewest(Merges(i), q) /\ Told(i, q))
      BY <1>12, <2>4, <2>9 DEF TellsTruth, Merges
    <3>2. \A q \in Merges(i)' : ~(IsNewest(Merges(i), q)' /\ Told(i, q)')
      BY <1>1, <1>2, <2>1, <3>1 DEF IsNewest, Told
    <3> QED
      BY <1>1, <1>2, <1>12, <2>1, <2>3, <2>4, <3>2 DEF TellsTruth
  <2> QED
    BY <2>7, <2>8, <2>10, <2>11
<1>16. CASE Refuse(r)
  <2>1. /\ lock[i] = r /\ lock' = lock /\ pending' = pending /\ plan' = plan /\ run' = run
        /\ done' = done /\ refused' = refused \cup InHand(i)
        /\ task[r].step = "taken" /\ task'[r].todo = task[r].todo /\ task'[r].step = "failed"
    BY <1>0, <1>6, <1>16 DEF Refuse, SeekTypes, Executing, InHand
  <2>2. /\ ~AtWork(i, {"stopped"})' /\ ~AtWork(i, {"taken"})' /\ ~AtWork(i, {"taken", "stopped"})'
        /\ ~AtWork(i, {"restarted"})' /\ ~AtWork(i, {"taken", "stopped", "restarted"})'
        /\ AtWork(i, {"taken", "stopped"}) /\ AtWork(i, {"taken"})
    BY <2>1 DEF AtWork
  <2>3. Pending(i)' = Pending(i) /\ InHand(i)' = InHand(i) /\ InHand(i) = task[r].todo.covers
    BY <2>1 DEF Pending, InHand
  <2>4. SUFFICES ASSUME ~ended[i], ~overtaken
                 PROVE  /\ (pending[i] # NoIntent => Aims(pending[i]))'
                        /\ Aims(task[lock[i]].todo)' /\ InOrder(i)' /\ Plays(i)' /\ TellsTruth(i)'
    BY <1>2, <1>12, <2>1, <2>2, <2>3 DEF BurstAt
  <2>5. Planned(i)' = Planned(i) /\ Ran(i)' = Ran(i)
    BY <1>2, <2>1, <2>2, <2>3 DEF Planned, Ran
  <2>6. (pending[i] # NoIntent => Aims(pending[i]))' /\ Aims(task[lock[i]].todo)'
    BY <1>1, <1>12, <2>1, <2>4 DEF Aims, IsNewest
  <2>7. InOrder(i)'
    BY <1>1, <1>2, <1>12, <2>3, <2>4 DEF InOrder, Before
  <2>8. Pending(i)' \cap refused' = {}
    BY <1>12, <2>1, <2>3, <2>4 DEF Plays, InOrder
  <2>9. Plays(i)'
    BY <1>1, <1>12, <2>1, <2>2, <2>4, <2>5, <2>8 DEF Plays, IsNewest
  <2>10. TellsTruth(i)'
    BY <1>1, <1>2, <1>12, <2>1, <2>3, <2>4 DEF TellsTruth, Told, IsNewest
  <2> QED
    BY <2>6, <2>7, <2>9, <2>10
<1>17. CASE Publish(r)
  <2>1. /\ lock[i] = r /\ lock'[i] = Nobody /\ task[r].step \in {"restarted", "failed"}
        /\ UNCHANGED <<pending, run, plan, refused>>
    BY <1>0, <1>6, <1>17 DEF Publish, SeekTypes, Executing
  <2>2. /\ ~AtWork(i, {"taken"}) /\ ~AtWork(i, {"taken", "stopped"})
        /\ \A s : ~AtWork(i, s)'
        /\ task[r].step = "restarted" => AtWork(i, {"restarted"})
    BY <2>1 DEF AtWork
  <2>3. Pending(i)' = Pending(i) /\ InHand(i)' = {} /\ InHand(i) = task[r].todo.covers
    BY <2>1 DEF Pending, InHand
  <2>4. Planned(i)' = Planned(i) /\ Ran(i)' = Ran(i)
    BY <1>2, <2>1, <2>2, <2>3 DEF Planned, Ran
  <2>5. SUFFICES ASSUME ~ended[i], ~overtaken
                 PROVE  /\ (pending[i] # NoIntent => Aims(pending[i]))'
                        /\ InOrder(i)' /\ Plays(i)' /\ TellsTruth(i)'
    BY <1>2, <1>12, <2>1, <2>2, <2>3 DEF BurstAt
  <2>6. (pending[i] # NoIntent => Aims(pending[i]))'
    BY <1>1, <1>12, <2>1, <2>5 DEF Aims, IsNewest
  <2>7. InOrder(i)'
    BY <1>1, <1>2, <1>12, <2>3, <2>5 DEF InOrder, Before
  <2>8. Plays(i)'
    BY <1>1, <1>12, <2>1, <2>2, <2>3, <2>4, <2>5 DEF Plays, IsNewest
  <2>9. \/ done'[i] = done[i]
        \/ /\ done'[i].generation = task[r].todo.generation
           /\ done'[i].ok => task[r].step = "restarted"
    <3>1. PICK o : /\ o = [generation |-> task[r].todo.generation, ok |-> task[r].step = "restarted"]
                   /\ done' = done \/ done' = [done EXCEPT ![i] = o]
      BY <1>0, <1>17, Zenon DEF Publish
    <3>2. done'[i] = done[i] \/ done'[i] = o
      BY <3>1 DEF SeekTypes
    <3>3. o.generation = task[r].todo.generation /\ (o.ok => task[r].step = "restarted")
      BY <3>1, Zenon
    <3> QED
      BY <3>2, <3>3
  <2>10. \A p \in Pending(i)' \cup InHand(i)' : seek'[p].step # "answered"
    BY <1>1, <1>12, <2>3, <2>5 DEF TellsTruth
  <2>11. CASE done'[i] = done[i]
    <3>1. \/ done'[i].generation = 0
          \/ \E q \in Merges(i)' \ (Pending(i)' \cup InHand(i)') :
                 done'[i].generation = seek'[q].generation
      BY <1>1, <1>2, <1>12, <2>3, <2>5, <2>11 DEF TellsTruth
    <3>2. ASSUME NEW q \in Merges(i)', IsNewest(Merges(i), q)', Told(i, q)'
          PROVE  run'[i] = q
      <4>1. q \in Merges(i) /\ IsNewest(Merges(i), q)
        BY <1>1, <1>2, <3>2 DEF IsNewest
      <4>2. Told(i, q)
        BY <1>1, <2>11, <3>2 DEF Told
      <4> QED
        BY <1>12, <2>1, <2>5, <4>1, <4>2 DEF TellsTruth
    <3> QED
      BY <2>6, <2>7, <2>8, <2>10, <3>1, <3>2 DEF TellsTruth
  <2>12. CASE /\ done'[i].generation = task[r].todo.generation
              /\ done'[i].ok => task[r].step = "restarted"
    <3> DEFINE p == task[r].todo.position
    <3>1. p \in InHand(i) /\ p \in Merges(i) /\ p \in Seeks
          /\ task[r].todo.generation = seek[p].generation
      BY <1>12, <2>1, <2>3, <2>5 DEF Aims, IsNewest
    <3>2. \E q \in Merges(i)' \ (Pending(i)' \cup InHand(i)') :
              done'[i].generation = seek'[q].generation
      BY <1>1, <1>2, <1>12, <2>3, <2>5, <2>12, <3>1 DEF InOrder
    <3>3. ASSUME NEW q \in Merges(i)', IsNewest(Merges(i), q)', Told(i, q)'
          PROVE  run'[i] = q
      <4>1. q \in Merges(i) /\ IsNewest(Merges(i), q) /\ q \in Seeks
        BY <1>1, <1>2, <3>3 DEF IsNewest, Merges
      <4>2. CASE seek[q].step = "answered"
        BY <1>12, <2>1, <2>5, <4>1, <4>2 DEF TellsTruth, Told
      <4>3. CASE seek[q].step # "answered"
        <5>1. done'[i].ok /\ seek[p].generation >= seek[q].generation
          BY <1>1, <2>12, <3>1, <3>3, <4>3 DEF Told
        <5>2. seek[p].generation <= seek[q].generation
          BY <3>1, <4>1 DEF IsNewest
        <5>3. seek[p].generation \in Nat /\ seek[q].generation \in Nat
          BY <3>1, <4>1 DEF SeekTypes, Requests
        <5>4. p = q
          BY <3>1, <4>1, <5>1, <5>2, <5>3 DEF GenerationsDiffer, Merges
        <5>5. run[i] = p
          BY <1>12, <2>1, <2>2, <2>5, <2>12, <5>1 DEF Plays
        <5> QED
          BY <2>1, <5>4, <5>5
      <4> QED
        BY <4>2, <4>3
    <3> QED
      BY <2>6, <2>7, <2>8, <2>10, <3>2, <3>3 DEF TellsTruth
  <2> QED
    BY <2>9, <2>11, <2>12
<1> QED
  BY <1>0, <1>11, <1>13, <1>14, <1>15, <1>16, <1>17 DEF TaskStep

(* Every step keeps every burst on its way.                                *)
LEMMA BurstStep == SeekInv /\ BurstInv /\ [Next]_vars => BurstInv'
<1> SUFFICES ASSUME SeekInv, BurstInv, [Next]_vars PROVE BurstInv'
  OBVIOUS
<1>1. CASE Next
  BY <1>1, TableKeepsBurst, RequestKeepsBurst, ExecutorKeepsBurst DEF Next
<1>2. CASE UNCHANGED vars
  <2>1. UNCHANGED <<starting, ended, seek, task, lock, pending, plan, run, generation, done,
                    overtaken, refused>>
    BY <1>2 DEF vars, table, seeking, history
  <2>2. GenerationsDiffer' /\ RefusedWereMerged'
    BY <2>1 DEF BurstInv, GenerationsDiffer, RefusedWereMerged
  <2>3. ASSUME NEW j \in Ids PROVE BurstAt(j)'
    <3>1. BurstAt(j) /\ Merges(j)' = Merges(j)
      BY <2>1 DEF BurstInv, Merges
    <3> QED
      BY <2>1, <3>1, BurstRests DEF SeekInv
  <2> QED
    BY <2>2, <2>3 DEF BurstInv
<1> QED
  BY <1>1, <1>2

(* Of the seeks a session has seen only one is the newest.                 *)
LEMMA NewestIsIt ==
    ASSUME SeekInv, BurstInv, NEW i \in Ids, Quiet(i), NEW S \in SUBSET Seeks, NEW x,
           IsNewest(Merges(i) \cap S, x)
    PROVE  Newest(i, S) = x
<1>1. \A r \in Seeks : seek[r].session = i <=> r \in Merges(i)
  BY TableAssumption DEF Quiet, Merges, SeekInv, SeekStages
<1>2. CASE x = AtStart /\ Merges(i) \cap S = {}
  BY <1>1, <1>2 DEF Newest
<1>3. CASE /\ x \in Merges(i) \cap S
           /\ \A q \in Merges(i) \cap S : seek[q].generation <= seek[x].generation
  <2> DEFINE Top(y) == /\ seek[y].session = i
                       /\ \A q \in S : seek[q].session = i =>
                            seek[q].generation <= seek[y].generation
  <2>1. x \in S /\ Top(x)
    BY <1>1, <1>3
  <2>2. \A y \in S : Top(y) => y = x
    <3> SUFFICES ASSUME NEW y \in S, Top(y) PROVE y = x
      OBVIOUS
    <3>0. x \in Seeks /\ y \in Seeks /\ seek[x].generation \in Nat /\ seek[y].generation \in Nat
      BY <2>1 DEF SeekInv, SeekTypes, Requests
    <3>1. seek[x].generation = seek[y].generation
      BY <2>1, <3>0
    <3>2. seek[x].step # "none" /\ seek[y].step # "none" /\ seek[x].session = seek[y].session
      BY <1>1, <1>3 DEF Merges
    <3> QED
      BY <3>0, <3>1, <3>2 DEF BurstInv, GenerationsDiffer
  <2>3. Newest(i, S) = CHOOSE y \in S : Top(y)
    BY <2>1 DEF Newest
  <2> HIDE DEF Top
  <2> QED
    BY <2>1, <2>2, <2>3
<1> QED
  BY <1>2, <1>3 DEF IsNewest

(* A burst of seeks ends where the viewer last pointed, on the track last   *)
(* chosen explicitly, however the executors interleave, leaving out the     *)
(* requests whose restart failed with the old run still playing, or with no *)
(* run when it failed later; and a viewer told that the newest seek         *)
(* succeeded is watching it.  Provided the intents were merged in the order *)
(* their generations were drawn.                                           *)
THEOREM BurstsEndAtTheLastSeek == Spec => []LastSeekPlays
<1>1. Init => BurstInv
  <2> SUFFICES ASSUME Init PROVE BurstInv
    OBVIOUS
  <2>1. /\ \A r \in Seeks : seek[r].step = "none"
        /\ refused = {}
    BY DEF Init, NoSeek
  <2>2. ASSUME NEW i \in Ids PROVE BurstAt(i)
    <3>1. Merges(i) = {}
      BY <2>1 DEF Merges
    <3>2. /\ lock[i] = Nobody /\ pending[i] = NoIntent /\ run[i] = NoRun /\ plan[i] = AtStart
          /\ done[i].generation = 0
      BY DEF Init
    <3>3. /\ Pending(i) = {} /\ InHand(i) = {} /\ Ran(i) = {} /\ Planned(i) = {}
          /\ \A s : ~AtWork(i, s)
      BY <3>1, <3>2 DEF Pending, InHand, Ran, Planned, AtWork
    <3>4. InOrder(i)
      BY <3>3 DEF InOrder, Before
    <3>5. Plays(i)
      BY <2>1, <3>2, <3>3 DEF Plays, IsNewest
    <3>6. TellsTruth(i)
      BY <3>1, <3>2, <3>3 DEF TellsTruth
    <3> QED
      BY <3>1, <3>2, <3>3, <3>4, <3>5, <3>6 DEF BurstAt
  <2> QED
    BY <2>1, <2>2 DEF BurstInv, GenerationsDiffer, RefusedWereMerged
<1>2. SeekInv /\ BurstInv => LastSeekPlays
  <2> SUFFICES ASSUME SeekInv, BurstInv, NEW i \in Ids, Quiet(i), ~overtaken
               PROVE  /\ run[i] \in {NoRun, Newest(i, Seeks \ refused)}
                      /\ plan[i] = Newest(i, Picks \ refused)
                      /\ \A r \in Seeks :
                            /\ seek[r].session = i /\ seek[r].step = "answered"
                            /\ \A q \in Seeks : seek[q].session = i =>
                                  seek[q].generation <= seek[r].generation
                            => run[i] = r
    BY DEF LastSeekPlays
  <2>1. ~ended[i]
    BY DEF Quiet, SeekInv, EndsCancel, TableInv, SlotsAreStarts
  <2>2. lock[i] = Nobody /\ pending[i] = NoIntent
    BY DEF Quiet, SeekInv, LockIsHeld, SeekTypes, Executing
  <2>3. Plays(i) /\ TellsTruth(i)
    BY <2>1 DEF BurstInv, BurstAt
  <2>4. Ran(i) = Merges(i) \cap (Seeks \ refused)
        /\ Planned(i) \cap Picks = Merges(i) \cap (Picks \ refused)
    BY <2>2 DEF Ran, Planned, Pending, AtWork, Merges
  <2>5. PICK x : IsNewest(Ran(i), x) /\ run[i] \in {NoRun, x}
    BY <2>3 DEF Plays
  <2>6. Newest(i, Seeks \ refused) = x
    BY <2>4, <2>5, NewestIsIt
  <2>7. Newest(i, Picks \ refused) = plan[i]
    <3>1. IsNewest(Merges(i) \cap (Picks \ refused), plan[i])
      BY <2>3, <2>4 DEF Plays
    <3> QED
      BY <3>1, NewestIsIt, TableAssumption
  <2>8. ASSUME NEW r \in Seeks, seek[r].session = i, seek[r].step = "answered",
               \A q \in Seeks : seek[q].session = i =>
                   seek[q].generation <= seek[r].generation
        PROVE  run[i] = r
    <3>1. r \in Merges(i) /\ IsNewest(Merges(i), r)
      BY <2>8 DEF Merges, IsNewest
    <3> QED
      BY <2>3, <2>8, <3>1 DEF TellsTruth, Told
  <2> QED
    BY <2>5, <2>6, <2>7, <2>8
<1>3. Spec => Init /\ [][Next]_vars
  BY DEF Spec
<1> QED
  BY <1>1, <1>2, <1>3, SeekInvariant, BurstStep, PTL
=============================================================================
