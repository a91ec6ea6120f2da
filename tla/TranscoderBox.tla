---------------------------- MODULE TranscoderBox ----------------------------
(***************************************************************************)
(* What a transcoder promises the hub about ONE session over ONE link: the *)
(* starts it was given, which of them plays, and what it tells the hub.    *)
(*                                                                         *)
(* TranscoderRunner is shown to implement it, and TranscodeFleet puts one  *)
(* such box behind every link.                                             *)
(***************************************************************************)
EXTENDS Integers, Sequences

CONSTANTS
    Starts      \* StartSession messages of the session, numbered as they come

(* A box: the starts that may still come up, the ones that may not but have  *)
(* not gone yet, the ones that came up and have not said so, the start that  *)
(* plays (0: none), the ones that were in flight together with another,      *)
(* and the ones that an EndSession has put behind it.                        *)
Box == [waiting : SUBSET Starts, stale : SUBSET Starts, due : SUBSET Starts,
        playing : Starts \cup {0}, crossed : SUBSET Starts, revoked : SUBSET Starts]

IdleBox == [waiting |-> {}, stale |-> {}, due |-> {}, playing |-> 0,
            crossed |-> {}, revoked |-> {}]

InFlight(b) == b.waiting \cup b.stale \cup b.due

(* Starts that cross when n is admitted.                                     *)
Crossing(others, n) == IF others = {} THEN {} ELSE others \cup {n}

(* StartSession: the start is admitted beside the ones in flight.            *)
Begun(b, n) ==
    [b EXCEPT !.waiting = @ \cup {n},
              !.crossed = @ \cup Crossing(b.waiting \cup b.due, n)]

(* A start that comes up replaces whatever played.                           *)
Readied(b, n) ==
    [b EXCEPT !.waiting = @ \ {n}, !.due = @ \cup {n}, !.playing = n]

Announced(b, n) == [b EXCEPT !.due = @ \ {n}]

(* A start fails, and says so even when it is no longer wanted.              *)
Failed(b, n) == [b EXCEPT !.waiting = @ \ {n}, !.stale = @ \ {n}]

(* Starts that will not come up any more, for an EndSession or for a newer   *)
(* start.                                                                    *)
GivenUp(b, S) == [b EXCEPT !.waiting = @ \ S, !.stale = @ \cup (S \cap b.waiting)]

Vanished(b, n) == [b EXCEPT !.stale = @ \ {n}, !.due = @ \ {n}]

Stopped(b) == [b EXCEPT !.playing = 0]

(* EndSession is carried out: of the starts it met only those that crossed   *)
(* another can be up or come up.                                             *)
Revoked(b, S) == [b EXCEPT !.revoked = @ \cup S]
MayPlay(b, n) == n \in b.waiting /\ n \notin b.revoked \ b.crossed

VARIABLES
    box,        \* the box
    said        \* its verdicts, in order: [start, ready]

boxVars == <<box, said>>

Says(n, ready) == said' = Append(said, [start |-> n, ready |-> ready])

BoxInit ==
    /\ box = IdleBox
    /\ said = <<>>

Begin(n) ==
    /\ n \notin InFlight(box)
    /\ box' = Begun(box, n)
    /\ UNCHANGED said

Play(n) ==
    /\ MayPlay(box, n)
    /\ box' = Readied(box, n)
    /\ UNCHANGED said

Announce(n) ==
    /\ n \in box.due
    /\ box' = Announced(box, n)
    /\ Says(n, TRUE)

Fail(n) ==
    /\ n \in box.waiting \cup box.stale
    /\ box' = Failed(box, n)
    /\ Says(n, FALSE)

GiveUp ==
    /\ \E S \in SUBSET box.waiting : box' = GivenUp(box, S)
    /\ UNCHANGED said

Vanish(n) ==
    /\ n \in box.stale \cup box.due
    /\ box' = Vanished(box, n)
    /\ UNCHANGED said

Stop ==
    /\ box' = Stopped(box)
    /\ UNCHANGED said

(* The worker of the start that plays has died.                              *)
Die ==
    /\ box.playing # 0
    /\ Says(box.playing, FALSE)
    /\ UNCHANGED box

End ==
    /\ \E S \in SUBSET Starts : \E b \in {box, Stopped(box)} :
          /\ b.playing \notin S \ b.crossed
          /\ box' = Revoked(b, S)
    /\ UNCHANGED said

BoxNext ==
    \/ \E n \in Starts :
          Begin(n) \/ Play(n) \/ Announce(n) \/ Fail(n) \/ Vanish(n)
    \/ GiveUp \/ Stop \/ Die \/ End

BoxSpec == BoxInit /\ [][BoxNext]_boxVars
=============================================================================
