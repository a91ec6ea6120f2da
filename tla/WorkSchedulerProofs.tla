------------------------ MODULE WorkSchedulerProofs ------------------------
(***************************************************************************)
(* Proofs about WorkScheduler, for every number of jobs, owners, storage   *)
(* domains and viewers and every capacity.                                 *)
(***************************************************************************)
EXTENDS WorkScheduler, FiniteSetTheorems, WellFoundedInduction, TLAPS

-----------------------------------------------------------------------------
(* Capacity.                                                               *)

(* The jobs of S fit on the machine together.                              *)
Fits(S) ==
    /\ UsedCpu(S) <= CpuSlots
    /\ \A d \in Domains : UsedIo(S, d) <= IoCapacity[d]
    /\ \A j, k \in S : j # k => Needs(j).exclusive \cap Needs(k).exclusive = {}

(* A selection of a set of jobs is counted by a natural number, no larger   *)
(* than that of a larger set, and zero only if it is empty.                *)
LEMMA Counted ==
    ASSUME NEW S \in SUBSET Jobs
    PROVE  /\ IsFiniteSet(S)
           /\ Cardinality(S) \in Nat
           /\ Cardinality(S) = 0 => S = {}
           /\ \A T \in SUBSET S : Cardinality(T) <= Cardinality(S)
BY SchedulerAssumption, FS_Subset, FS_CardinalityType, FS_EmptySet

(* What a bundle asks of the machine.                                      *)
LEMMA NeedsType ==
    ASSUME request \in [Jobs -> Request], NEW j \in Jobs
    PROVE  /\ Needs(j).cpu \in {0, 1}
           /\ Needs(j).io \subseteq Domains
           /\ Needs(j).exclusive \subseteq Exclusives
BY DEF Needs, Request, Resources

(* The counters are natural numbers.                                       *)
LEMMA UsedType ==
    ASSUME NEW S \in SUBSET Jobs
    PROVE  /\ UsedCpu(S) \in Nat
           /\ \A d \in Domains : UsedIo(S, d) \in Nat
<1>1. {j \in S : Needs(j).cpu # 0} \in SUBSET Jobs
  OBVIOUS
<1>2. \A d \in Domains : {j \in S : d \in Needs(j).io} \in SUBSET Jobs
  OBVIOUS
<1> QED
  BY <1>1, <1>2, Counted DEF UsedCpu, UsedIo

(* Fewer jobs use no more.                                                 *)
LEMMA UsedLess ==
    ASSUME NEW S \in SUBSET Jobs, NEW T \in SUBSET S
    PROVE  /\ UsedCpu(T) <= UsedCpu(S)
           /\ \A d \in Domains : UsedIo(T, d) <= UsedIo(S, d)
<1>1. {j \in T : Needs(j).cpu # 0} \in SUBSET {j \in S : Needs(j).cpu # 0}
  OBVIOUS
<1>2. {j \in S : Needs(j).cpu # 0} \in SUBSET Jobs
  OBVIOUS
<1>3. UsedCpu(T) <= UsedCpu(S)
  BY <1>1, <1>2, Counted DEF UsedCpu
<1>4. ASSUME NEW d \in Domains PROVE UsedIo(T, d) <= UsedIo(S, d)
  <2>1. {j \in T : d \in Needs(j).io} \in SUBSET {j \in S : d \in Needs(j).io}
    OBVIOUS
  <2>2. {j \in S : d \in Needs(j).io} \in SUBSET Jobs
    OBVIOUS
  <2> QED
    BY <2>1, <2>2, Counted DEF UsedIo
<1> QED
  BY <1>3, <1>4

(* Whoever leaves makes room.                                              *)
LEMMA FitsLess ==
    ASSUME NEW S \in SUBSET Jobs, Fits(S), NEW T \in SUBSET S
    PROVE  Fits(T)
<1>1. T \in SUBSET Jobs
  OBVIOUS
<1>2. /\ UsedCpu(T) \in Nat /\ UsedCpu(S) \in Nat /\ UsedCpu(T) <= UsedCpu(S)
      /\ \A d \in Domains : /\ UsedIo(T, d) \in Nat /\ UsedIo(S, d) \in Nat
                            /\ UsedIo(T, d) <= UsedIo(S, d)
  BY <1>1, UsedType, UsedLess
<1> QED
  BY <1>2, SchedulerAssumption DEF Fits

(* One job more uses exactly what it needs more.                           *)
LEMMA UsedMore ==
    ASSUME request \in [Jobs -> Request], NEW S \in SUBSET Jobs, NEW j \in Jobs \ S
    PROVE  /\ UsedCpu(S \cup {j}) = UsedCpu(S) + Needs(j).cpu
           /\ \A d \in Domains :
                UsedIo(S \cup {j}, d) = UsedIo(S, d) + (IF d \in Needs(j).io THEN 1 ELSE 0)
<1> DEFINE C == {k \in S : Needs(k).cpu # 0}
           I(d) == {k \in S : d \in Needs(k).io}
<1>1. C \in SUBSET Jobs /\ j \notin C
  OBVIOUS
<1>2. /\ Needs(j).cpu # 0 => {k \in S \cup {j} : Needs(k).cpu # 0} = C \cup {j}
      /\ ~(Needs(j).cpu # 0) => {k \in S \cup {j} : Needs(k).cpu # 0} = C
  OBVIOUS
<1>3. IsFiniteSet(C) /\ Cardinality(C) \in Nat /\ Cardinality(C \cup {j}) = Cardinality(C) + 1
  BY <1>1, Counted, FS_AddElement
<1>4. UsedCpu(S) = Cardinality(C)
      /\ UsedCpu(S \cup {j}) = Cardinality({k \in S \cup {j} : Needs(k).cpu # 0})
  BY DEF UsedCpu
<1>5. ASSUME NEW d \in Domains
      PROVE  UsedIo(S \cup {j}, d) = UsedIo(S, d) + (IF d \in Needs(j).io THEN 1 ELSE 0)
  <2>1. I(d) \in SUBSET Jobs /\ j \notin I(d)
    OBVIOUS
  <2>2. /\ d \in Needs(j).io => {k \in S \cup {j} : d \in Needs(k).io} = I(d) \cup {j}
        /\ d \notin Needs(j).io => {k \in S \cup {j} : d \in Needs(k).io} = I(d)
    OBVIOUS
  <2>3. IsFiniteSet(I(d)) /\ Cardinality(I(d)) \in Nat
        /\ Cardinality(I(d) \cup {j}) = Cardinality(I(d)) + 1
    BY <2>1, Counted, FS_AddElement
  <2>4. UsedIo(S, d) = Cardinality(I(d))
        /\ UsedIo(S \cup {j}, d) = Cardinality({k \in S \cup {j} : d \in Needs(k).io})
    BY DEF UsedIo
  <2> HIDE DEF I
  <2>5. CASE d \in Needs(j).io
    <3>1. UsedIo(S \cup {j}, d) = Cardinality(I(d)) + 1
      BY <2>2, <2>3, <2>4, <2>5, Zenon
    <3> QED
      BY <3>1, <2>3, <2>4, <2>5
  <2>6. CASE d \notin Needs(j).io
    <3>1. UsedIo(S \cup {j}, d) = Cardinality(I(d))
      BY <2>2, <2>4, <2>6, Zenon
    <3> QED
      BY <3>1, <2>3, <2>4, <2>6
  <2> QED
    BY <2>5, <2>6
<1> HIDE DEF C
<1>6. CASE Needs(j).cpu # 0
  <2>1. UsedCpu(S \cup {j}) = Cardinality(C) + 1
    BY <1>2, <1>3, <1>4, <1>6, Zenon
  <2>2. Needs(j).cpu = 1
    BY <1>6, NeedsType
  <2> QED
    BY <2>1, <2>2, <1>3, <1>4, <1>5
<1>7. CASE ~(Needs(j).cpu # 0)
  <2>1. UsedCpu(S \cup {j}) = Cardinality(C)
    BY <1>2, <1>4, <1>7, Zenon
  <2>2. Needs(j).cpu = 0
    BY <1>7
  <2>3. Cardinality(C) + Needs(j).cpu = Cardinality(C)
    BY <2>2, <1>3
  <2> QED
    BY <2>1, <2>3, <1>4, <1>5
<1> QED
  BY <1>6, <1>7

(* What is available can be admitted.                                      *)
LEMMA FitsMore ==
    ASSUME request \in [Jobs -> Request], NEW S \in SUBSET Jobs, Fits(S),
           NEW j \in Jobs \ S, NEW inside, Available(j, S, inside)
    PROVE  Fits(S \cup {j})
<1>1. UsedCpu(S \cup {j}) <= CpuSlots
  BY UsedMore DEF Available
<1>2. ASSUME NEW d \in Domains PROVE UsedIo(S \cup {j}, d) <= IoCapacity[d]
  <2>1. UsedIo(S, d) \in Nat /\ IoCapacity[d] \in Nat
    BY UsedType, SchedulerAssumption
  <2>0. UsedIo(S \cup {j}, d) = UsedIo(S, d) + (IF d \in Needs(j).io THEN 1 ELSE 0)
    BY UsedMore
  <2>2. CASE d \in Needs(j).io
    <3>1. UsedIo(S, d) < IoCapacity[d]
      BY <2>2 DEF Available
    <3> QED
      BY <2>0, <2>1, <2>2, <3>1
  <2>3. CASE d \notin Needs(j).io
    <3>1. UsedIo(S, d) <= IoCapacity[d]
      BY DEF Fits
    <3> QED
      BY <2>0, <2>1, <2>3, <3>1
  <2> QED
    BY <2>2, <2>3
<1>3. \A k, l \in S \cup {j} : k # l => Needs(k).exclusive \cap Needs(l).exclusive = {}
  BY DEF Fits, Available
<1> QED
  BY <1>1, <1>2, <1>3 DEF Fits

-----------------------------------------------------------------------------
(* Blocking.                                                               *)

(* A job that no viewer holds back and that does not fit is blocked by one  *)
(* that runs.                                                              *)
LEMMA SomebodyBlocks ==
    ASSUME request \in [Jobs -> Request], NEW S \in SUBSET Jobs, Fits(S),
           NEW k \in Jobs, NEW inside,
           ~Available(k, S, inside), ~Interrupted(Needs(k), inside)
    PROVE  \E j \in S : Blocks(j, k, S)
<1>0. /\ Needs(k).cpu \in {0, 1} /\ Needs(k).io \subseteq Domains
      /\ UsedCpu(S) \in Nat /\ \A d \in Domains : UsedIo(S, d) \in Nat
  BY NeedsType, UsedType
<1>1. CASE ~(UsedCpu(S) + Needs(k).cpu <= CpuSlots)
  <2>1. Needs(k).cpu = 1 /\ UsedCpu(S) # 0
    BY <1>0, <1>1, SchedulerAssumption DEF Fits
  <2>2. {j \in S : Needs(j).cpu # 0} # {}
    BY <2>1, FS_EmptySet DEF UsedCpu
  <2>3. CpuFull(k, S)
    BY <1>0, <1>1, <2>1, SchedulerAssumption DEF CpuFull
  <2> QED
    BY <2>2, <2>3 DEF Blocks
<1>2. CASE \E d \in Needs(k).io : ~(UsedIo(S, d) < IoCapacity[d])
  <2>1. PICK d \in Needs(k).io : ~(UsedIo(S, d) < IoCapacity[d])
    BY <1>2
  <2>2. d \in FullIo(k, S) /\ UsedIo(S, d) # 0
    BY <1>0, <2>1, SchedulerAssumption DEF FullIo
  <2>3. {j \in S : d \in Needs(j).io} # {}
    BY <2>2, FS_EmptySet DEF UsedIo
  <2> QED
    BY <2>2, <2>3 DEF Blocks
<1>3. CASE \E j \in S : Needs(j).exclusive \cap Needs(k).exclusive # {}
  BY <1>3 DEF Blocks
<1> QED
  BY <1>1, <1>2, <1>3 DEF Available

(* A job that blocks goes on blocking while others are admitted.           *)
LEMMA StillBlocks ==
    ASSUME request \in [Jobs -> Request], NEW S \in SUBSET Jobs, NEW T \in SUBSET S,
           NEW j \in T, NEW k \in Jobs, Blocks(j, k, T)
    PROVE  Blocks(j, k, S)
<1>0. T \in SUBSET Jobs
  OBVIOUS
<1>1. /\ Needs(k).cpu \in {0, 1} /\ Needs(k).io \subseteq Domains
      /\ UsedCpu(S) \in Nat /\ UsedCpu(T) \in Nat /\ UsedCpu(T) <= UsedCpu(S)
      /\ \A d \in Domains : /\ UsedIo(S, d) \in Nat /\ UsedIo(T, d) \in Nat
                            /\ UsedIo(T, d) <= UsedIo(S, d)
  BY <1>0, NeedsType, UsedType, UsedLess
<1>2. CpuFull(k, T) => CpuFull(k, S)
  BY <1>1, SchedulerAssumption DEF CpuFull
<1>3. FullIo(k, T) \subseteq FullIo(k, S)
  BY <1>1, SchedulerAssumption DEF FullIo
<1> QED
  BY <1>2, <1>3 DEF Blocks

(* A job that an admission shut out is blocked by the one admitted.        *)
LEMMA AdmittedBlocks ==
    ASSUME request \in [Jobs -> Request], NEW S \in SUBSET Jobs,
           NEW j \in Jobs \ S, NEW k \in Jobs, NEW inside, Fits(S \cup {j}),
           Available(k, S, inside), ~Available(k, S \cup {j}, inside)
    PROVE  Blocks(j, k, S \cup {j})
<1>0. /\ Needs(k).cpu \in {0, 1} /\ Needs(j).cpu \in {0, 1} /\ Needs(k).io \subseteq Domains
      /\ UsedCpu(S) \in Nat /\ \A d \in Domains : UsedIo(S, d) \in Nat
  BY NeedsType, UsedType
<1>1. ASSUME ~(UsedCpu(S \cup {j}) + Needs(k).cpu <= CpuSlots)
      PROVE  CpuFull(k, S \cup {j}) /\ Needs(j).cpu # 0
  <2>1. UsedCpu(S) + Needs(k).cpu <= CpuSlots
    BY DEF Available
  <2>2. UsedCpu(S \cup {j}) = UsedCpu(S) + Needs(j).cpu /\ UsedCpu(S \cup {j}) <= CpuSlots
    BY UsedMore DEF Fits
  <2> QED
    BY <1>0, <1>1, <2>1, <2>2, SchedulerAssumption DEF CpuFull
<1>2. ASSUME NEW d \in Needs(k).io, ~(UsedIo(S \cup {j}, d) < IoCapacity[d])
      PROVE  d \in FullIo(k, S \cup {j}) /\ d \in Needs(j).io
  <2>1. d \in Domains /\ UsedIo(S, d) \in Nat /\ IoCapacity[d] \in Nat
    BY <1>0, SchedulerAssumption
  <2>2. UsedIo(S, d) < IoCapacity[d]
    BY DEF Available
  <2>3. UsedIo(S \cup {j}, d) = UsedIo(S, d) + (IF d \in Needs(j).io THEN 1 ELSE 0)
    BY ZenonT(40), <2>1, UsedMore
  <2> QED
    BY <1>2, <2>1, <2>2, <2>3 DEF FullIo
<1>3. ASSUME NEW i \in S \cup {j}, Needs(i).exclusive \cap Needs(k).exclusive # {}
      PROVE  Needs(j).exclusive \cap Needs(k).exclusive # {}
  BY <1>3 DEF Available
<1>4. CASE ~(UsedCpu(S \cup {j}) + Needs(k).cpu <= CpuSlots)
  BY <1>1, <1>4 DEF Blocks
<1>5. CASE \E d \in Needs(k).io : ~(UsedIo(S \cup {j}, d) < IoCapacity[d])
  BY <1>2, <1>5 DEF Blocks
<1>6. CASE \E i \in S \cup {j} : Needs(i).exclusive \cap Needs(k).exclusive # {}
  BY <1>3, <1>6 DEF Blocks
<1>7. ~Interrupted(Needs(k), inside)
  BY DEF Available
<1> QED
  BY <1>4, <1>5, <1>6, <1>7 DEF Available

-----------------------------------------------------------------------------
(* The inductive invariant.                                                *)

(* What the tables say of a worker: one that was granted its bundle, or    *)
(* that works on it, is active, and one outside is in no table.            *)
TablesHold ==
    \A j \in Jobs :
        /\ granted[j] => j \in active
        /\ pc[j] \in {"running", "yielding"} => j \in active
        /\ pc[j] \in {"idle", "ended"} => j \notin pending \cup active

(* A job that collides with a viewer inside was told to pause.             *)
ViewersHeard == \A j \in active : Interrupted(Needs(j), interactive) => pause[j]

(* A waiting job that fits nowhere and that no viewer holds back is kept   *)
(* out by a job as valuable, or by one told to make way.                   *)
KeptOut(k) ==
    \E j \in active : /\ Blocks(j, k, active)
                      /\ (pause[j] \/ priority[j] <= priority[k])

WaitersHeard ==
    \A k \in pending : \/ Available(k, active, interactive)
                       \/ Interrupted(Needs(k), interactive)
                       \/ KeptOut(k)

SchedInv ==
    /\ TypeOK
    /\ TablesHold
    /\ Fits(active)
    /\ NoIdleCapacity
    /\ ViewersHeard
    /\ WaitersHeard
    /\ NoLostWakeup

(* A set of naturals has a least element.                                  *)
LEMMA LeastNatural ==
    ASSUME NEW S \in SUBSET Nat, S # {}
    PROVE  \E n \in S : \A m \in S : n <= m
<1> DEFINE R == OpToRel(<, Nat)
<1>1. IsWellFoundedOn(R, Nat)
  BY NatLessThanWellFounded, Zenon
<1>2. \A n, m \in Nat : n < m => <<n, m>> \in R
  BY SMT DEF OpToRel
<1> HIDE DEF R
<1>3. PICK n \in S : \A m \in S : ~(<<m, n>> \in R)
  BY <1>1, WFMin, Zenon
<1>4. ASSUME NEW m \in S PROVE n <= m
  <2>1. n \in Nat /\ m \in Nat /\ ~(m < n)
    BY <1>2, <1>3
  <2> QED
    BY <2>1
<1> QED
  BY <1>4

-----------------------------------------------------------------------------
(* Steps.                                                                  *)

(* Requests are never rewritten, so bundles are compared across a step.    *)
LEMMA SameBundles ==
    ASSUME request' = request
    PROVE  /\ \A j \in Jobs : Needs(j)' = Needs(j)
           /\ Fits(active)' <=> Fits(active')
           /\ \A j, k \in Jobs : Blocks(j, k, active)' <=> Blocks(j, k, active')
<1>1. \A j : Needs(j)' = Needs(j)
  BY DEF Needs
<1>2. UsedCpu(active)' = UsedCpu(active')
  BY <1>1 DEF UsedCpu
<1>3. \A d : UsedIo(active, d)' = UsedIo(active', d)
  BY <1>1 DEF UsedIo
<1>4. Fits(active)' <=> Fits(active')
  BY <1>1, <1>2, <1>3 DEF Fits
<1>5. ASSUME NEW j \in Jobs, NEW k \in Jobs PROVE Blocks(j, k, active)' <=> Blocks(j, k, active')
  <2>1. CpuFull(k, active)' <=> CpuFull(k, active')
    BY <1>1, <1>2 DEF CpuFull
  <2>2. FullIo(k, active)' = FullIo(k, active')
    BY <1>1, <1>3 DEF FullIo
  <2> QED
    BY <1>1, <2>1, <2>2 DEF Blocks
<1> QED
  BY <1>1, <1>4, <1>5

(* So is the room beside the viewers that stay.                            *)
LEMMA SameRoom ==
    ASSUME request' = request, \A v \in interactive' : visit'[v] = visit[v]
    PROVE  \A k \in Jobs :
            /\ Interrupted(Needs(k), interactive)' <=> Interrupted(Needs(k), interactive')
            /\ Available(k, active, interactive)' <=> Available(k, active', interactive')
<1>1. \A j : Needs(j)' = Needs(j)
  BY DEF Needs
<1>2. UsedCpu(active)' = UsedCpu(active')
  BY <1>1 DEF UsedCpu
<1>3. \A d : UsedIo(active, d)' = UsedIo(active', d)
  BY <1>1 DEF UsedIo
<1>4. ASSUME NEW k \in Jobs
      PROVE  Interrupted(Needs(k), interactive)' <=> Interrupted(Needs(k), interactive')
  BY <1>1 DEF Interrupted
<1> QED
  BY <1>1, <1>2, <1>3, <1>4 DEF Available

(* What the end of every entry point establishes, whatever it left in the  *)
(* tables: the viewers and the waiters are heard and the loop is entered.  *)
LEMMA Rescheduled ==
    ASSUME TypeOK,
           NEW waiting \in SUBSET Jobs, NEW running \in SUBSET Jobs,
           NEW live \in SUBSET (Owners \X Sources), NEW inside,
           Fits(running), Reschedule(waiting, running, live, inside),
           request' = request, \A v \in inside : visit'[v] = visit[v]
    PROVE  /\ priority' \in [Jobs -> Levels] /\ pause' \in [Jobs -> BOOLEAN]
           /\ Fits(active)'
           /\ NoIdleCapacity'
           /\ ViewersHeard'
           /\ WaitersHeard'
<1>1. /\ pending' = waiting /\ active' = running /\ interactive' = inside
      /\ priority' = Refreshed(waiting \cup running, live)
      /\ pause' = Paused(waiting, running, priority', inside)
      /\ dispatching' = TRUE
  BY DEF Reschedule
<1>2. priority' \in [Jobs -> Levels]
  BY <1>1, SchedulerAssumption DEF TypeOK, Refreshed, Request
<1>3. pause' \in [Jobs -> BOOLEAN]
  BY <1>1, Zenon DEF TypeOK, Paused
<1>4. \A v \in interactive' : visit'[v] = visit[v]
  BY <1>1
<1>5. /\ \A k \in Jobs : Interrupted(Needs(k), interactive)' <=> Interrupted(Needs(k), inside)
      /\ \A k \in Jobs : Available(k, active, interactive)' <=> Available(k, running, inside)
      /\ \A j, k \in Jobs : Blocks(j, k, active)' <=> Blocks(j, k, running)
      /\ Fits(active)' <=> Fits(running)
  BY <1>1, <1>4, SameRoom, SameBundles
<1>6. ViewersHeard'
  <2> SUFFICES ASSUME NEW j \in running, Interrupted(Needs(j), inside) PROVE pause'[j]
    BY <1>1, <1>5 DEF ViewersHeard
  <2> QED
    BY <1>1 DEF Paused
<1>7. WaitersHeard'
  <2> SUFFICES ASSUME NEW k \in waiting, ~Available(k, running, inside),
                      ~Interrupted(Needs(k), inside)
               PROVE  \E j \in running : /\ Blocks(j, k, running)
                                         /\ (pause'[j] \/ priority'[j] <= priority'[k])
    BY <1>1, <1>5 DEF WaitersHeard, KeptOut
  <2>1. PICK j \in running : Blocks(j, k, running)
    BY SomebodyBlocks DEF TypeOK
  <2>2. CASE priority'[k] < priority'[j]
    <3>1. pause'[j]
      BY <1>1, <2>1, <2>2 DEF Paused
    <3> QED
      BY <2>1, <3>1
  <2>3. CASE ~(priority'[k] < priority'[j])
    <3>1. priority'[k] \in Nat /\ priority'[j] \in Nat
      BY <1>2, SchedulerAssumption
    <3>2. priority'[j] <= priority'[k]
      BY <2>3, <3>1
    <3> QED
      BY <2>1, <3>2
  <2> QED
    BY <2>2, <2>3
<1> QED
  BY <1>1, <1>2, <1>3, <1>5, <1>6, <1>7 DEF NoIdleCapacity

(* Joining a service level leaves a table of counters.                     *)
LEMMA JoinedType ==
    ASSUME TypeOK, NEW p \in Levels, NEW o \in Owners
    PROVE  Joined(p, o) \in [Levels -> [Owners -> Nat]]
<1> DEFINE waiting == {k \in pending : priority[k] = p}
           levels  == {served[p][OwnerOf(k)] : k \in waiting}
           floor   == CHOOSE n \in levels : \A m \in levels : n <= m
<1>1. \A k \in Jobs : OwnerOf(k) \in Owners
  BY DEF TypeOK, Request, OwnerOf
<1>2. levels \in SUBSET Nat
  BY <1>1 DEF TypeOK
<1>3. CASE waiting = {} \/ \E k \in waiting : OwnerOf(k) = o
  BY <1>3 DEF Joined, TypeOK
<1>4. CASE waiting # {} /\ ~\E k \in waiting : OwnerOf(k) = o
  <2>1. levels # {}
    BY <1>4
  <2> HIDE DEF levels
  <2>2. \E n \in levels : \A m \in levels : n <= m
    BY <1>2, <2>1, LeastNatural
  <2>3. floor \in Nat
    BY <1>2, <2>2
  <2>4. Joined(p, o) = [served EXCEPT ![p][o] = IF @ < floor THEN floor ELSE @]
    BY <1>4 DEF Joined, levels
  <2> HIDE DEF floor
  <2> QED
    BY <2>3, <2>4 DEF TypeOK
<1> QED
  BY <1>3, <1>4

(* The tables keep their types and their relation to the workers, in a     *)
(* step of the scheduler...                                                *)
LEMMA TablesStep ==
    ASSUME SchedInv, NEW j \in Jobs,
           Acquire(j) \/ Admit(j) \/ Yield(j) \/ Finish(j)
    PROVE  TypeOK' /\ TablesHold'
<1> USE SchedulerAssumption
<1>0. TypeOK /\ TablesHold /\ Fits(active)
  BY DEF SchedInv
<1>1. CASE Acquire(j)
  <2>0. Reschedule(pending \cup {j}, active, hints, interactive)
        /\ request' = request /\ visit' = visit
    BY <1>1 DEF Acquire
  <2>1. priority' \in [Jobs -> Levels] /\ pause' \in [Jobs -> BOOLEAN]
    BY <1>0, <2>0, Rescheduled DEF TypeOK
  <2>2. served' \in [Levels -> [Owners -> Nat]]
    BY <1>0, <1>1, JoinedType DEF Acquire, TypeOK, Request, OwnerOf
  <2>3. j \notin pending \cup active /\ ~granted[j] /\ pc[j] = "idle"
    BY <1>0, <1>1 DEF Acquire, TablesHold
  <2>4. TypeOK'
    <3>1. /\ pending' \subseteq Jobs /\ active' \subseteq Jobs /\ pending' \cap active' = {}
          /\ interactive' = interactive /\ hints' = hints /\ dispatching' = TRUE
      BY <1>0, <2>0, <2>3 DEF TypeOK, Reschedule
    <3>2. sequence' \in [Jobs -> Nat] /\ nextSequence' \in Nat
      BY <1>0, <1>1 DEF TypeOK, Acquire
    <3> QED
      BY <1>0, <1>1, <2>1, <2>2, <3>1, <3>2 DEF TypeOK, Acquire
  <2>5. TablesHold'
    BY <1>0, <1>1, <2>3 DEF TypeOK, TablesHold, Acquire, Reschedule
  <2> QED
    BY <2>4, <2>5
<1>2. CASE Admit(j)
  <2>1. served' \in [Levels -> [Owners -> Nat]]
    <3>1. PICK p \in Levels, o \in Owners : p = priority[j] /\ o = OwnerOf(j)
      BY <1>0 DEF TypeOK, Request, OwnerOf
    <3>2. served' = [served EXCEPT ![p][o] = @ + 1]
      BY <1>2, <3>1 DEF Admit
    <3> QED
      BY <1>0, <3>2 DEF TypeOK
  <2>2. notified' \in [Jobs -> BOOLEAN]
    BY <1>0, <1>2, Zenon DEF Admit, TypeOK, Woken
  <2>3. TypeOK'
    BY <1>0, <1>2, <2>1, <2>2 DEF TypeOK, Admit, visits, demand, worker
  <2>4. TablesHold'
    BY <1>0, <1>2 DEF TypeOK, TablesHold, Admit, visits, demand, worker
  <2> QED
    BY <2>3, <2>4
<1>3. CASE Yield(j)
  <2>1. CASE j \in active
    <3>0. Reschedule(pending \cup {j}, active \ {j}, hints, interactive)
          /\ request' = request /\ visit' = visit
      BY <1>3, <2>1 DEF Yield
    <3>1. Fits(active \ {j})
      BY <1>0, FitsLess DEF TypeOK
    <3>2. priority' \in [Jobs -> Levels] /\ pause' \in [Jobs -> BOOLEAN]
      BY <1>0, <3>0, <3>1, Rescheduled DEF TypeOK
    <3>3. TypeOK'
      <4>1. /\ pending' \subseteq Jobs /\ active' \subseteq Jobs /\ pending' \cap active' = {}
            /\ interactive' = interactive /\ hints' = hints /\ dispatching' = TRUE
        BY <1>0, <3>0 DEF TypeOK, Reschedule
      <4>2. /\ pc' = [pc EXCEPT ![j] = "waiting"] /\ resumed' = [resumed EXCEPT ![j] = TRUE]
            /\ yields' = [yields EXCEPT ![j] = @ + 1]
            /\ granted' = [granted EXCEPT ![j] = FALSE]
            /\ UNCHANGED <<request, sequence, nextSequence, served, visit, visited,
                           hinted, cancels, cancelled, notified>>
        BY <1>3, <2>1 DEF Yield
      <4> QED
        BY <1>0, <3>2, <4>1, <4>2 DEF TypeOK
    <3>4. TablesHold'
      BY <1>0, <1>3, <2>1 DEF TypeOK, TablesHold, Yield, Reschedule
    <3> QED
      BY <3>3, <3>4
  <2>2. CASE j \notin active
    BY <1>0, <1>3, <2>2 DEF TypeOK, TablesHold, Yield
  <2> QED
    BY <2>1, <2>2
<1>4. CASE Finish(j)
  <2>0. Reschedule(pending \ {j}, active \ {j}, hints, interactive)
        /\ request' = request /\ visit' = visit
    BY <1>4 DEF Finish
  <2>1. Fits(active \ {j})
    BY <1>0, FitsLess DEF TypeOK
  <2>2. priority' \in [Jobs -> Levels] /\ pause' \in [Jobs -> BOOLEAN]
    BY <1>0, <2>0, <2>1, Rescheduled DEF TypeOK
  <2>3. TypeOK'
    BY <1>0, <1>4, <2>2 DEF TypeOK, Finish, Reschedule
  <2>4. TablesHold'
    BY <1>0, <1>4 DEF TypeOK, TablesHold, Finish, Reschedule
  <2> QED
    BY <2>3, <2>4
<1> QED
  BY <1>1, <1>2, <1>3, <1>4

(* ... of a viewer that enters ...                                         *)
LEMMA EnterStep ==
    ASSUME SchedInv, NEW v \in Viewers, NEW r \in Interactions, EnterInteractive(v, r)
    PROVE  TypeOK' /\ TablesHold'
<1> USE SchedulerAssumption
<1>0. TypeOK /\ TablesHold /\ Fits(active)
  BY DEF SchedInv
<1>1. pause' \in [Jobs -> BOOLEAN]
  BY <1>0, Zenon DEF EnterInteractive, TypeOK
<1>2. TypeOK'
  BY <1>0, <1>1 DEF TypeOK, EnterInteractive, tables, demand, worker
<1> QED
  BY <1>0, <1>2 DEF TablesHold, EnterInteractive, tables, demand, worker

(* ... of one that leaves ...                                              *)
LEMMA LeaveStep ==
    ASSUME SchedInv, NEW v \in Viewers, LeaveInteractive(v)
    PROVE  TypeOK' /\ TablesHold'
<1> USE SchedulerAssumption
<1>0. TypeOK /\ TablesHold /\ Fits(active)
  BY DEF SchedInv
<1>1. Reschedule(pending, active, hints, interactive \ {v}) /\ request' = request
      /\ \A w \in interactive \ {v} : visit'[w] = visit[w]
  BY <1>0 DEF LeaveInteractive, TypeOK
<1>2. priority' \in [Jobs -> Levels] /\ pause' \in [Jobs -> BOOLEAN]
  BY <1>0, <1>1, Rescheduled DEF TypeOK
<1>3. Nothing \in Resources
  BY DEF Nothing, Resources
<1>4. TypeOK'
  BY <1>0, <1>2, <1>3 DEF TypeOK, LeaveInteractive, Reschedule, worker
<1> QED
  BY <1>0, <1>4 DEF TypeOK, TablesHold, LeaveInteractive, Reschedule, worker

(* ... of a hub link that drops ...                                        *)
LEMMA CancelStep ==
    ASSUME SchedInv, NEW o \in Owners, CancelOwner(o)
    PROVE  TypeOK' /\ TablesHold'
<1> USE SchedulerAssumption
<1>0. TypeOK /\ TablesHold /\ Fits(active)
  BY DEF SchedInv
<1> DEFINE mine == {j \in pending \cup active : OwnerOf(j) = o}
           live == {x \in hints : x[1] # o}
<1>1. /\ Reschedule(pending \ mine, active, live, interactive)
      /\ request' = request /\ visit' = visit
      /\ cancelled' = [j \in Jobs |-> cancelled[j] \/ j \in mine]
      /\ notified' = Woken(mine)
  BY DEF CancelOwner
<1>2. priority' \in [Jobs -> Levels] /\ pause' \in [Jobs -> BOOLEAN]
  BY <1>0, <1>1, Rescheduled DEF TypeOK
<1>3. cancelled' \in [Jobs -> BOOLEAN] /\ notified' \in [Jobs -> BOOLEAN]
  BY <1>0, <1>1, Zenon DEF TypeOK, Woken
<1> HIDE DEF mine
<1>4. TypeOK'
  <2>1. /\ pending' \subseteq pending /\ active' = active /\ hints' \subseteq hints
        /\ interactive' = interactive /\ dispatching' = TRUE
    BY <1>1 DEF Reschedule
  <2>2. cancels' \in Nat /\ UNCHANGED <<request, sequence, nextSequence, served, visit,
                                       visited, hinted, granted, worker>>
    BY <1>0 DEF CancelOwner, TypeOK
  <2> QED
    BY <1>0, <1>2, <1>3, <2>1, <2>2 DEF TypeOK, worker
<1> QED
  BY <1>0, <1>1, <1>4 DEF TypeOK, TablesHold, CancelOwner, Reschedule, worker

(* ... of one that hints ...                                               *)
LEMMA HintStep ==
    ASSUME SchedInv, NEW o \in Owners, NEW s \in Sources, HintSegment(o, s)
    PROVE  TypeOK' /\ TablesHold'
<1> USE SchedulerAssumption
<1>0. TypeOK /\ TablesHold /\ Fits(active)
  BY DEF SchedInv
<1>1. /\ Reschedule(pending, active, hints \cup {<<o, s>>}, interactive)
      /\ request' = request /\ visit' = visit
  BY DEF HintSegment
<1> DEFINE live == hints \cup {<<o, s>>}
<1>2. live \in SUBSET (Owners \X Sources)
  BY <1>0 DEF TypeOK
<1> HIDE DEF live
<1>3. Reschedule(pending, active, live, interactive)
  BY <1>1 DEF live
<1>4. priority' \in [Jobs -> Levels] /\ pause' \in [Jobs -> BOOLEAN]
  BY <1>0, <1>1, <1>2, <1>3, Rescheduled DEF TypeOK
<1>5. TypeOK'
  <2>1. /\ pending' = pending /\ active' = active
        /\ interactive' = interactive /\ hints' = live /\ dispatching' = TRUE
    BY <1>3 DEF Reschedule
  <2> QED
    BY <1>0, <1>4, <1>2, <2>1 DEF TypeOK, HintSegment, worker
<1> QED
  BY <1>0, <1>5 DEF TypeOK, TablesHold, HintSegment, Reschedule, worker

(* ... of a hint that expires ...                                          *)
LEMMA ExpireStep ==
    ASSUME SchedInv, NEW h \in hints, ExpireHint(h)
    PROVE  TypeOK' /\ TablesHold'
<1> USE SchedulerAssumption
<1>0. TypeOK /\ TablesHold /\ Fits(active)
  BY DEF SchedInv
<1> QED
  BY <1>0 DEF TypeOK, TablesHold, ExpireHint, tables, visits, control, worker

(* ... and of a worker that looks at its flags, or of the loop's end.      *)
LEMMA WorkerStep ==
    ASSUME SchedInv, NEW j \in Jobs,
           \/ Arm(j) \/ CheckAsync(j) \/ CheckBlocking(j) \/ Sleep(j) \/ WakeUp(j)
           \/ Checkpoint(j) \/ DispatchDone
    PROVE  TypeOK' /\ TablesHold'
<1>0. TypeOK /\ TablesHold
  BY DEF SchedInv
<1>1. CASE Arm(j) \/ Sleep(j) \/ WakeUp(j)
  <2>1. PICK l \in {"waiting", "armed", "asleep"} : pc' = [pc EXCEPT ![j] = l]
    BY <1>1 DEF Arm, Sleep, WakeUp
  <2>2. /\ notified' = [notified EXCEPT ![j] = FALSE]
        /\ UNCHANGED <<request, tables, visits, demand, granted, pause, cancelled,
                       resumed, yields, dispatching>>
        /\ pc[j] \notin {"running", "yielding", "idle", "ended"}
    BY <1>1 DEF Arm, Sleep, WakeUp
  <2>3. TypeOK'
    BY <1>0, <2>1, <2>2 DEF TypeOK, tables, visits, demand
  <2>4. TablesHold'
    BY <1>0, <2>1, <2>2 DEF TypeOK, TablesHold, tables
  <2> QED
    BY <2>3, <2>4
<1>2. CASE CheckAsync(j) \/ CheckBlocking(j)
  <2>1. /\ \E quiet \in {"armed", "asleep"} : Decide(j, quiet)
        /\ UNCHANGED <<request, tables, visits, demand, granted, pause, cancelled,
                       resumed, yields, dispatching>>
    BY <1>2 DEF CheckAsync, CheckBlocking
  <2>2. notified' \in [Jobs -> BOOLEAN]
    BY <1>0, <2>1, Zenon DEF TypeOK, Decide
  <2>3. TypeOK'
    BY <1>0, <2>1, <2>2 DEF TypeOK, Decide, tables, visits, demand
  <2>4. TablesHold'
    BY <1>0, <1>2, <2>1 DEF TypeOK, TablesHold, Decide, CheckAsync, CheckBlocking, tables
  <2> QED
    BY <2>3, <2>4
<1>3. CASE Checkpoint(j)
  BY <1>0, <1>3 DEF TypeOK, TablesHold, Checkpoint, tables, visits, demand, control
<1>4. CASE DispatchDone
  BY <1>0, <1>4 DEF TypeOK, TablesHold, DispatchDone, tables, visits, demand, control, worker
<1> QED
  BY <1>1, <1>2, <1>3, <1>4

(* What the tables and the viewers promise.                                *)
Room == Fits(active) /\ NoIdleCapacity /\ ViewersHeard /\ WaitersHeard

(* A step that leaves tables, viewers and pause flags alone keeps it, also *)
(* when it leaves the loop with nothing left to admit.                     *)
LEMMA QuietRoom ==
    ASSUME TypeOK, Room,
           UNCHANGED <<request, pending, active, interactive, visit, priority, pause>>,
           \/ dispatching' = dispatching
           \/ \A j \in pending : ~Available(j, active, interactive)
    PROVE  Room'
<1>1. /\ \A k \in Jobs : Interrupted(Needs(k), interactive)' <=> Interrupted(Needs(k), interactive)
      /\ \A k \in Jobs : Available(k, active, interactive)' <=> Available(k, active, interactive)
      /\ \A j, k \in Jobs : Blocks(j, k, active)' <=> Blocks(j, k, active)
      /\ Fits(active)' <=> Fits(active)
  BY SameRoom, SameBundles
<1>2. NoIdleCapacity'
  BY <1>1 DEF Room, NoIdleCapacity, TypeOK
<1>3. ViewersHeard'
  BY <1>1 DEF Room, ViewersHeard, TypeOK
<1>4. WaitersHeard'
  BY <1>1 DEF Room, WaitersHeard, KeptOut, TypeOK
<1> QED
  BY <1>1, <1>2, <1>3, <1>4 DEF Room

(* An admission: whoever it shuts out comes after it in the order.         *)
LEMMA AdmitRoom ==
    ASSUME SchedInv, NEW j \in Jobs, Admit(j)
    PROVE  Room'
<1>0. TypeOK /\ Fits(active) /\ ViewersHeard /\ WaitersHeard
  BY DEF SchedInv
<1>1. /\ j \in pending /\ j \notin active
      /\ Available(j, active, interactive)
      /\ \A k \in pending \ {j} : Available(k, active, interactive) => Precedes(j, k)
      /\ pending' = pending \ {j} /\ active' = active \cup {j}
      /\ pause' = [pause EXCEPT ![j] = FALSE]
      /\ UNCHANGED <<request, priority, interactive, visit, dispatching>> /\ dispatching
  BY <1>0 DEF Admit, TypeOK, visits
<1>2. Fits(active \cup {j})
  BY <1>0, <1>1, FitsMore DEF TypeOK
<1>3. /\ \A k \in Jobs : Interrupted(Needs(k), interactive)' <=> Interrupted(Needs(k), interactive)
      /\ \A k \in Jobs :
            Available(k, active, interactive)' <=> Available(k, active \cup {j}, interactive)
      /\ \A i, k \in Jobs : Blocks(i, k, active)' <=> Blocks(i, k, active \cup {j})
      /\ Fits(active)' <=> Fits(active \cup {j})
  BY <1>1, SameRoom, SameBundles
<1>4. ViewersHeard'
  <2>1. ~Interrupted(Needs(j), interactive)
    BY <1>1 DEF Available
  <2> QED
    BY <1>0, <1>1, <1>3, <2>1 DEF ViewersHeard, TypeOK
<1>5. WaitersHeard'
  <2> SUFFICES ASSUME NEW k \in pending \ {j},
                      ~Available(k, active \cup {j}, interactive),
                      ~Interrupted(Needs(k), interactive)
               PROVE  \E i \in active \cup {j} :
                        /\ Blocks(i, k, active \cup {j})
                        /\ (pause'[i] \/ priority[i] <= priority[k])
    <3>1. pending \subseteq Jobs /\ active \subseteq Jobs
      BY <1>0 DEF TypeOK
    <3>2. priority' = priority /\ pending' = pending \ {j} /\ active' = active \cup {j}
      BY <1>1
    <3> QED
      BY <1>3, <3>1, <3>2 DEF WaitersHeard, KeptOut
  <2>1. CASE Available(k, active, interactive)
    <3>1. Blocks(j, k, active \cup {j})
      BY <1>0, <1>1, <1>2, <2>1, AdmittedBlocks DEF TypeOK
    <3>2. priority[j] \in Nat /\ priority[k] \in Nat
      BY <1>0, SchedulerAssumption DEF TypeOK
    <3>3. priority[j] <= priority[k]
      BY <1>1, <2>1, <3>2 DEF Precedes
    <3> QED
      BY <3>1, <3>3
  <2>2. CASE ~Available(k, active, interactive)
    <3>1. PICK i \in active : /\ Blocks(i, k, active)
                              /\ (pause[i] \/ priority[i] <= priority[k])
      BY <1>0, <2>2 DEF WaitersHeard, KeptOut
    <3>2. Blocks(i, k, active \cup {j})
      BY <1>0, <3>1, StillBlocks DEF TypeOK
    <3>3. pause'[i] = pause[i]
      BY <1>0, <1>1 DEF TypeOK
    <3> QED
      BY <3>1, <3>2, <3>3
  <2> QED
    BY <2>1, <2>2
<1> QED
  BY <1>1, <1>2, <1>3, <1>4, <1>5 DEF Room, NoIdleCapacity

(* A viewer enters: it makes nothing available, and tells whatever it      *)
(* collides with.                                                          *)
LEMMA EnterRoom ==
    ASSUME SchedInv, NEW v \in Viewers, NEW r \in Interactions, EnterInteractive(v, r)
    PROVE  Room'
<1>0. TypeOK /\ Fits(active) /\ NoIdleCapacity /\ ViewersHeard /\ WaitersHeard
  BY DEF SchedInv
<1>1. /\ ~dispatching /\ v \notin interactive
      /\ visit' = [visit EXCEPT ![v] = r]
      /\ interactive' = interactive \cup {v}
      /\ pause' = [j \in Jobs |-> pause[j] \/ (j \in active /\ Conflicts(Needs(j), r))]
      /\ UNCHANGED <<request, pending, active, priority, dispatching>>
  BY <1>0 DEF EnterInteractive, TypeOK, tables
<1>2. /\ \A j \in Jobs : Needs(j)' = Needs(j)
      /\ Fits(active)' <=> Fits(active)
      /\ \A j, k \in Jobs : Blocks(j, k, active)' <=> Blocks(j, k, active)
  BY <1>1, SameBundles
<1>3. visit'[v] = r /\ \A w \in interactive : visit'[w] = visit[w]
  BY <1>0, <1>1 DEF TypeOK
<1>4. ASSUME NEW k \in Jobs
      PROVE  Interrupted(Needs(k), interactive)'
                <=> Interrupted(Needs(k), interactive) \/ Conflicts(r, Needs(k))
  BY <1>1, <1>2, <1>3 DEF Interrupted
<1>5. ASSUME NEW k \in Jobs, ~Available(k, active, interactive)
      PROVE  ~Available(k, active, interactive)'
  <2>1. UsedCpu(active)' = UsedCpu(active)
    BY <1>1 DEF UsedCpu, Needs
  <2>2. \A d : UsedIo(active, d)' = UsedIo(active, d)
    BY <1>1 DEF UsedIo, Needs
  <2>3. active \subseteq Jobs
    BY <1>0 DEF TypeOK
  <2> QED
    BY <1>1, <1>2, <1>4, <1>5, <2>1, <2>2, <2>3 DEF Available
<1>6. ViewersHeard'
  <2>1. \A j \in Jobs : Conflicts(r, Needs(j)) => Conflicts(Needs(j), r)
    BY DEF Conflicts
  <2>2. active \subseteq Jobs
    BY <1>0 DEF TypeOK
  <2> QED
    BY <1>0, <1>1, <1>4, <2>1, <2>2 DEF ViewersHeard
<1>7. WaitersHeard'
  <2>1. active \subseteq Jobs /\ pending \subseteq Jobs
    BY <1>0 DEF TypeOK
  <2>2. \A k \in pending : Interrupted(Needs(k), interactive) \/ KeptOut(k)
    BY <1>0, <1>1 DEF WaitersHeard, NoIdleCapacity
  <2>3. \A j \in Jobs : pause[j] => pause'[j]
    BY <1>1
  <2>4. \A k \in pending : KeptOut(k) => KeptOut(k)'
    BY <1>1, <1>2, <2>1, <2>3 DEF KeptOut
  <2> QED
    BY <1>1, <1>4, <2>1, <2>2, <2>4 DEF WaitersHeard
<1>8. NoIdleCapacity'
  <2>1. pending \subseteq Jobs
    BY <1>0 DEF TypeOK
  <2> QED
    BY <1>0, <1>1, <1>5, <2>1 DEF NoIdleCapacity
<1> QED
  BY <1>0, <1>2, <1>6, <1>7, <1>8 DEF Room

(* A step through an entry point ends in the rescheduling that restores it. *)
LEMMA EntryRoom ==
    ASSUME SchedInv,
           \/ \E j \in Jobs : Acquire(j) \/ Yield(j) \/ Finish(j)
           \/ \E v \in Viewers : LeaveInteractive(v)
           \/ \E o \in Owners : CancelOwner(o)
           \/ \E o \in Owners, s \in Sources : HintSegment(o, s)
    PROVE  Room'
<1>0. /\ TypeOK /\ TablesHold /\ Fits(active)
      /\ pending \subseteq Jobs /\ active \subseteq Jobs
      /\ hints \subseteq Owners \X Sources
  BY DEF SchedInv, TypeOK
<1>1. ASSUME NEW waiting \in SUBSET Jobs, NEW running \in SUBSET active,
             NEW live \in SUBSET (Owners \X Sources), NEW inside,
             Reschedule(waiting, running, live, inside),
             request' = request, \A v \in inside : visit'[v] = visit[v]
      PROVE  Room'
  <2>1. running \in SUBSET Jobs /\ Fits(running)
    BY <1>0, FitsLess
  <2> QED
    BY <1>0, <1>1, <2>1, Rescheduled DEF Room
<1>2. ASSUME NEW j \in Jobs, Acquire(j) PROVE Room'
  <2>1. /\ Reschedule(pending \cup {j}, active, hints, interactive)
        /\ request' = request /\ visit' = visit
    BY <1>2 DEF Acquire
  <2> QED
    BY <1>0, <1>1, <2>1
<1>3. ASSUME NEW j \in Jobs, Yield(j) PROVE Room'
  <2>1. j \in active
    BY <1>0, <1>3 DEF Yield, TablesHold
  <2>2. /\ Reschedule(pending \cup {j}, active \ {j}, hints, interactive)
        /\ request' = request /\ visit' = visit
    BY <1>3, <2>1 DEF Yield
  <2> QED
    BY <1>0, <1>1, <2>2
<1>4. ASSUME NEW j \in Jobs, Finish(j) PROVE Room'
  <2>1. /\ Reschedule(pending \ {j}, active \ {j}, hints, interactive)
        /\ request' = request /\ visit' = visit
    BY <1>4 DEF Finish
  <2> QED
    BY <1>0, <1>1, <2>1
<1>5. ASSUME NEW v \in Viewers, LeaveInteractive(v) PROVE Room'
  <2>1. /\ Reschedule(pending, active, hints, interactive \ {v}) /\ request' = request
        /\ \A w \in interactive \ {v} : visit'[w] = visit[w]
    BY <1>0, <1>5 DEF LeaveInteractive, TypeOK
  <2> QED
    BY <1>0, <1>1, <2>1
<1>6. ASSUME NEW o \in Owners, CancelOwner(o) PROVE Room'
  <2> DEFINE mine == {j \in pending \cup active : OwnerOf(j) = o}
             live == {x \in hints : x[1] # o}
  <2>1. /\ Reschedule(pending \ mine, active, live, interactive)
        /\ request' = request /\ visit' = visit
    BY <1>6 DEF CancelOwner
  <2>2. pending \ mine \in SUBSET Jobs /\ live \in SUBSET (Owners \X Sources)
    BY <1>0
  <2> HIDE DEF mine, live
  <2> QED
    BY <1>1, <2>1, <2>2
<1>7. ASSUME NEW o \in Owners, NEW s \in Sources, HintSegment(o, s) PROVE Room'
  <2> DEFINE live == hints \cup {<<o, s>>}
  <2>1. /\ Reschedule(pending, active, live, interactive)
        /\ request' = request /\ visit' = visit
    BY <1>7 DEF HintSegment
  <2>2. live \in SUBSET (Owners \X Sources)
    BY <1>0
  <2> HIDE DEF live
  <2> QED
    BY <1>0, <1>1, <2>1, <2>2
<1> QED
  BY <1>2, <1>3, <1>4, <1>5, <1>6, <1>7

(* A wake-up is lost in no step: whoever grants or cancels a sleeper       *)
(* notifies it, and a waiter that looks at its flags goes to sleep only    *)
(* when neither is set.                                                    *)
LEMMA WakeStep ==
    ASSUME SchedInv, [Next]_vars
    PROVE  NoLostWakeup'
<1> SUFFICES ASSUME NEW k \in Jobs, pc'[k] = "asleep",
                    ~(resumed'[k] /\ request'[k].blocking), granted'[k] \/ cancelled'[k]
             PROVE  notified'[k]
  BY DEF NoLostWakeup
<1>0. TypeOK /\ NoLostWakeup
  BY DEF SchedInv
<1>t. /\ pc \in [Jobs -> {"idle", "waiting", "armed", "asleep", "running",
                          "yielding", "leaving", "ended"}]
      /\ granted \in [Jobs -> BOOLEAN] /\ cancelled \in [Jobs -> BOOLEAN]
      /\ notified \in [Jobs -> BOOLEAN] /\ resumed \in [Jobs -> BOOLEAN]
  BY <1>0 DEF TypeOK
<1>w. ASSUME pc[k] = "asleep", ~(resumed[k] /\ request[k].blocking), granted[k] \/ cancelled[k]
      PROVE  notified[k]
  BY <1>0, <1>w DEF NoLostWakeup
<1>1. ASSUME UNCHANGED <<pc, resumed, request, granted, cancelled, notified>>
      PROVE  notified'[k]
  BY <1>1, <1>w
<1>2. ASSUME NEW j \in Jobs, Acquire(j) PROVE notified'[k]
  BY <1>2, <1>t, <1>w DEF Acquire
<1>3. ASSUME NEW j \in Jobs, Admit(j) PROVE notified'[k]
  <2>1. /\ granted' = [granted EXCEPT ![j] = TRUE] /\ notified' = Woken({j})
        /\ UNCHANGED <<request, cancelled, pc, resumed>>
    BY <1>3 DEF Admit, worker
  <2>2. notified'[k] = (notified[k] \/ (k = j /\ Listening(k)))
    BY <2>1 DEF Woken
  <2>3. Listening(k)
    BY <2>1 DEF Listening
  <2> QED
    BY <2>1, <2>2, <2>3, <1>t, <1>w
<1>4. ASSUME NEW j \in Jobs, Yield(j) PROVE notified'[k]
  <2>1. granted'[k] = granted[k] \/ k = j
    BY <1>4, <1>t DEF Yield
  <2> QED
    BY <1>4, <1>t, <1>w, <2>1 DEF Yield
<1>5. ASSUME NEW j \in Jobs, Finish(j) PROVE notified'[k]
  BY <1>5, <1>t, <1>w DEF Finish
<1>6. ASSUME NEW o \in Owners, CancelOwner(o) PROVE notified'[k]
  <2> DEFINE mine == {j \in pending \cup active : OwnerOf(j) = o}
  <2>1. /\ cancelled' = [j \in Jobs |-> cancelled[j] \/ j \in mine]
        /\ notified' = Woken(mine)
        /\ UNCHANGED <<request, granted, pc, resumed>>
    BY <1>6 DEF CancelOwner, worker
  <2> HIDE DEF mine
  <2>2. notified'[k] = (notified[k] \/ (k \in mine /\ Listening(k)))
    BY <2>1 DEF Woken
  <2>3. Listening(k)
    BY <2>1 DEF Listening
  <2>4. cancelled'[k] => cancelled[k] \/ k \in mine
    BY <2>1
  <2> QED
    BY <2>1, <2>2, <2>3, <2>4, <1>w
<1>7. ASSUME NEW j \in Jobs, Arm(j) \/ Sleep(j) \/ WakeUp(j) PROVE notified'[k]
  BY <1>7, <1>t, <1>w DEF Arm, Sleep, WakeUp, Blocked
<1>8. ASSUME NEW j \in Jobs, CheckAsync(j) PROVE notified'[k]
  BY <1>8, <1>t, <1>w DEF CheckAsync, Decide
<1>9. ASSUME NEW j \in Jobs, CheckBlocking(j) PROVE notified'[k]
  BY <1>9, <1>t, <1>w DEF CheckBlocking, Decide
<1>10. ASSUME NEW j \in Jobs, Checkpoint(j) PROVE notified'[k]
  BY <1>10, <1>t, <1>w DEF Checkpoint, control
<1>11. ASSUME NEW v \in Viewers, LeaveInteractive(v) PROVE notified'[k]
  BY <1>11, <1>1 DEF LeaveInteractive, worker
<1>12. ASSUME NEW v \in Viewers, NEW r \in Interactions, EnterInteractive(v, r)
       PROVE  notified'[k]
  BY <1>12, <1>1 DEF EnterInteractive, worker
<1>13. ASSUME NEW o \in Owners, NEW s \in Sources, HintSegment(o, s) PROVE notified'[k]
  BY <1>13, <1>1 DEF HintSegment, worker
<1>14. ASSUME NEW h \in hints, ExpireHint(h) PROVE notified'[k]
  BY <1>14, <1>1 DEF ExpireHint, worker, control
<1>15. ASSUME DispatchDone \/ UNCHANGED vars PROVE notified'[k]
  BY <1>15, <1>1 DEF DispatchDone, vars, worker, control
<1> QED
  BY <1>2, <1>3, <1>4, <1>5, <1>6, <1>7, <1>8, <1>9, <1>10, <1>11, <1>12, <1>13, <1>14,
     <1>15 DEF Next

(* The steps that leave tables, viewers and pause flags alone.             *)
LEMMA WorkerRoom ==
    ASSUME SchedInv,
           \/ \E j \in Jobs : \/ Arm(j) \/ CheckAsync(j) \/ CheckBlocking(j) \/ Sleep(j)
                              \/ WakeUp(j) \/ Checkpoint(j)
           \/ \E h \in hints : ExpireHint(h)
           \/ DispatchDone
           \/ UNCHANGED vars
    PROVE  Room'
<1>1. TypeOK /\ Room
  BY DEF SchedInv, Room
<1>2. /\ UNCHANGED <<request, pending, active, interactive, visit, priority, pause>>
      /\ \/ dispatching' = dispatching
         \/ \A j \in pending : ~Available(j, active, interactive)
  BY DEF Arm, CheckAsync, CheckBlocking, Sleep, WakeUp, Checkpoint, ExpireHint, DispatchDone,
         vars, tables, visits, control
<1> QED
  BY <1>1, <1>2, QuietRoom

-----------------------------------------------------------------------------
(* The theorems.                                                           *)

(* Through every acquisition, admission, yield, resumption, cancellation   *)
(* and drop, the tables, the flags and the workers stay in step: SchedInv  *)
(* is an invariant of the scheduler.                                       *)
THEOREM SchedulerInvariant == Spec => []SchedInv
<1>1. Init => SchedInv
  <2> SUFFICES ASSUME Init PROVE SchedInv
    OBVIOUS
  <2>1. TypeOK
    BY SchedulerAssumption DEF Init, TypeOK, Nothing, Resources, Request
  <2>2. TablesHold /\ NoIdleCapacity /\ ViewersHeard /\ WaitersHeard /\ NoLostWakeup
    BY DEF Init, TablesHold, NoIdleCapacity, ViewersHeard, WaitersHeard, NoLostWakeup
  <2>3. Fits(active)
    <3>1. UsedCpu({}) = 0 /\ \A d : UsedIo({}, d) = 0
      BY FS_EmptySet DEF UsedCpu, UsedIo
    <3>2. active = {}
      BY DEF Init
    <3> QED
      BY <3>1, <3>2, SchedulerAssumption DEF Fits
  <2> QED
    BY <2>1, <2>2, <2>3 DEF SchedInv
<1>2. SchedInv /\ [Next]_vars => SchedInv'
  <2> SUFFICES ASSUME SchedInv, [Next]_vars PROVE SchedInv'
    OBVIOUS
  <2>1. NoLostWakeup'
    BY WakeStep
  <2>2. TypeOK' /\ TablesHold'
    <3>1. ASSUME NEW j \in Jobs, Acquire(j) \/ Admit(j) \/ Yield(j) \/ Finish(j)
          PROVE  TypeOK' /\ TablesHold'
      BY <3>1, TablesStep
    <3>2. ASSUME NEW j \in Jobs,
                 \/ Arm(j) \/ CheckAsync(j) \/ CheckBlocking(j) \/ Sleep(j) \/ WakeUp(j)
                 \/ Checkpoint(j)
          PROVE  TypeOK' /\ TablesHold'
      BY <3>2, WorkerStep
    <3>3. ASSUME NEW v \in Viewers, LeaveInteractive(v) PROVE TypeOK' /\ TablesHold'
      BY <3>3, LeaveStep
    <3>4. ASSUME NEW v \in Viewers, NEW r \in Interactions, EnterInteractive(v, r)
          PROVE  TypeOK' /\ TablesHold'
      BY <3>4, EnterStep
    <3>5. ASSUME NEW o \in Owners, CancelOwner(o) PROVE TypeOK' /\ TablesHold'
      BY <3>5, CancelStep
    <3>6. ASSUME NEW o \in Owners, NEW s \in Sources, HintSegment(o, s)
          PROVE  TypeOK' /\ TablesHold'
      BY <3>6, HintStep
    <3>7. ASSUME NEW h \in hints, ExpireHint(h) PROVE TypeOK' /\ TablesHold'
      BY <3>7, ExpireStep
    <3>8. ASSUME DispatchDone \/ UNCHANGED vars PROVE TypeOK' /\ TablesHold'
      BY <3>8 DEF SchedInv, TypeOK, TablesHold, DispatchDone, vars, tables, visits, demand,
                  control, worker
    <3> QED
      BY <3>1, <3>2, <3>3, <3>4, <3>5, <3>6, <3>7, <3>8 DEF Next
  <2>3. Room'
    BY AdmitRoom, EnterRoom, EntryRoom, WorkerRoom DEF Next
  <2> QED
    BY <2>1, <2>2, <2>3 DEF SchedInv, Room
<1>3. Spec => Init /\ [][Next]_vars
  BY DEF Spec
<1> QED
  BY <1>1, <1>2, <1>3, PTL

(* Every variable of the scheduler keeps its type; no job waits and runs   *)
(* at once.                                                                *)
THEOREM TypeCorrect == Spec => []TypeOK
<1>1. SchedInv => TypeOK
  BY DEF SchedInv
<1> QED
  BY <1>1, SchedulerInvariant, PTL

(* For any capacities and any number of jobs, what really runs, not what   *)
(* the tables say, stays within the CPU slots, within each storage domain  *)
(* and alone on its named resources.                                       *)
THEOREM CapacityIsKept == Spec => []WithinCapacity
<1>1. SchedInv => WithinCapacity
  <2> SUFFICES ASSUME SchedInv PROVE WithinCapacity
    OBVIOUS
  <2>1. active \in SUBSET Jobs /\ AtWork \in SUBSET active /\ Fits(active)
    BY DEF SchedInv, TypeOK, TablesHold, AtWork
  <2>2. Fits(AtWork)
    BY <2>1, FitsLess
  <2> QED
    BY <2>2 DEF Fits, WithinCapacity
<1> QED
  BY <1>1, SchedulerInvariant, PTL

(* Outside the dispatch loop no job waits that could be admitted: whatever *)
(* freed capacity also ran the loop.                                       *)
THEOREM CapacityIsUsed == Spec => []NoIdleCapacity
<1>1. SchedInv => NoIdleCapacity
  BY DEF SchedInv
<1> QED
  BY <1>1, SchedulerInvariant, PTL

(* Work that collides with a viewer was told to pause, and a waiting job   *)
(* that no viewer holds back is kept out only by something as valuable, or *)
(* by something told to make way.                                          *)
THEOREM ValuableWorkIsHeard == Spec => []PauseIsHeard
<1>1. SchedInv => PauseIsHeard
  BY DEF SchedInv, PauseIsHeard, ViewersHeard, WaitersHeard, NoIdleCapacity, KeptOut
<1> QED
  BY <1>1, SchedulerInvariant, PTL

(* An async waiter that sleeps although it was granted its bundle, or      *)
(* cancelled, has been notified.                                           *)
THEOREM WakeUpsArrive == Spec => []NoLostWakeup
<1>1. SchedInv => NoLostWakeup
  BY DEF SchedInv
<1> QED
  BY <1>1, SchedulerInvariant, PTL
=============================================================================
