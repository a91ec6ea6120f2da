--------------------------- MODULE MCWorkScheduler ---------------------------
(* WorkScheduler on a small instance: one CPU slot, two storage domains.    *)
EXTENDS WorkScheduler

Bundle(cpu, io, exclusive) == [cpu |-> cpu, io |-> io, exclusive |-> exclusive]

Ask(p, r, o, sources, blocking) ==
    [priority |-> p, resources |-> r, owner |-> o, sources |-> sources,
     blocking |-> blocking]

MCIoCapacity == [d \in Domains |-> 1]

(* A scan reads disk a, hashing reads and computes from disk b, segment     *)
(* detection decodes from disk a, one at a time, in a thread that blocks at *)
(* its checkpoints, and a wide job needs both disks and the CPU.            *)
Scan(o)     == Ask(1, Bundle(0, {"a"}, {}), o, {}, FALSE)
Hashing(o)  == Ask(2, Bundle(1, {"b"}, {}), o, {}, FALSE)
Detect(o)   == Ask(2, Bundle(1, {"a"}, {"segments"}), o, {"f"}, FALSE)
Segments(o) == [Detect(o) EXCEPT !.blocking = TRUE]
Wide(o)     == Ask(1, Bundle(1, {"a", "b"}, {}), o, {}, FALSE)

(* Some assignment of these three requests to the jobs.                     *)
Named(x, y, z) ==
    CHOOSE w \in [Jobs -> {x, y, z}] : {w[j] : j \in Jobs} = {x, y, z}

MCWorkloads == {Named(Detect("h1"), Hashing("h2"), Wide("h2")),
                Named(Scan("h1"), Segments("h1"), Detect("h2"))}
MCInteractions == {Bundle(1, {}, {}), Bundle(0, {"a"}, {})}
=============================================================================
