----------------------------- MODULE Messaging ------------------------------
(***************************************************************************)
(* The reference outbox and idempotent consumer put together               *)
(* (disttest/examples/alg/patterns.rs, topics outbox and dedup): rows and  *)
(* events committed by a process that crashes and recovers, a bus that     *)
(* repeats and reorders, and a consumer with a finite memory.              *)
(*                                                                         *)
(* Every write brings an event of its own.  What carries events from the   *)
(* bus to the consumer and acknowledges them, and what decides where a     *)
(* process crashes, is external.                                           *)
(***************************************************************************)
EXTENDS Integers, Sequences, FiniteSets

CONSTANTS
    Event,
    Window,      \* the consumer's window, 0 for no limit
    MaxCrashes   \* bound: crashes

VARIABLES
    box,        \* struct Outbox: the row (its latest event), the outbox records,
                \* the bus, lost, down, and the last write while it may be rewound
    consumer,   \* struct Dedup: the remembered ids, forgotten
    effects,    \* history: how often each event was applied
    crashes     \* number of crashes so far

vars == <<box, consumer, effects, crashes>>

NoEvent == "none"
NoWrite == [kind |-> "none", event |-> NoEvent, prev |-> NoEvent]

Init ==
    /\ box = [row |-> NoEvent, outbox |-> <<>>, sent |-> {}, bus |-> {}, lost |-> {},
              rewound |-> {}, down |-> FALSE, last |-> NoWrite]
    /\ consumer = [ids |-> <<>>, forgotten |-> FALSE]
    /\ effects = [e \in Event |-> 0]
    /\ crashes = 0

InOutbox == {box.outbox[i] : i \in DOMAIN box.outbox}

(* Events no write has used yet. *)
Fresh == Event \ (InOutbox \cup box.bus \cup box.lost \cup box.rewound)
-----------------------------------------------------------------------------
(* `write`: the row and the outbox record are one transaction. *)
Write(e) ==
    /\ ~box.down /\ e \in Fresh
    /\ box' = [box EXCEPT !.row = e, !.outbox = Append(@, e),
                 !.last = [kind |-> "transactional", event |-> e, prev |-> box.row]]
    /\ UNCHANGED <<consumer, effects, crashes>>

(* `naive-write`: the row, and then the event straight to the bus. *)
NaiveWrite(e) ==
    /\ ~box.down /\ e \in Fresh
    /\ box' = [box EXCEPT !.row = e, !.bus = @ \cup {e},
                 !.last = [kind |-> "naive", event |-> e, prev |-> box.row]]
    /\ UNCHANGED <<consumer, effects, crashes>>

(* Faulty variant: the note of what was sent outlives the crash. *)
CrashedRemembering == [box EXCEPT !.down = TRUE, !.last = NoWrite]

(* Whatever the crash point, the relay's note of what it sent goes. *)
Crashed == [box EXCEPT !.down = TRUE, !.last = NoWrite, !.sent = {}]

Crash ==
    /\ ~box.down /\ crashes < MaxCrashes /\ crashes' = crashes + 1
    /\ box' = Crashed
    /\ UNCHANGED <<consumer, effects>>

(* `crash after-row`: between the two halves of a naive write; any other   *)
(* write is whole by then, and the crash is a plain one.                   *)
CrashAfterRow ==
    /\ ~box.down /\ crashes < MaxCrashes /\ crashes' = crashes + 1
    /\ box.last.kind = "naive"
    /\ box' = [Crashed EXCEPT !.bus = @ \ {box.last.event}, !.lost = @ \cup {box.last.event}]
    /\ UNCHANGED <<consumer, effects>>

(* The last write may still be rewound: what the relay has sent was read   *)
(* from a committed transaction.                                           *)
InFlight == box.last.kind = "naive" \/ (box.last.kind = "transactional"
                                        /\ box.last.event \notin box.bus)

(* `crash before-commit`: the last write never happened. *)
CrashBeforeCommit ==
    /\ ~box.down /\ crashes < MaxCrashes /\ crashes' = crashes + 1
    /\ InFlight
    /\ box' = [Crashed EXCEPT !.row = box.last.prev, !.rewound = @ \cup {box.last.event},
                 !.bus = IF box.last.kind = "naive" THEN @ \ {box.last.event} ELSE @,
                 !.outbox = IF box.last.kind = "naive" THEN @
                            ELSE SubSeq(@, 1, Len(@) - 1)]
    /\ UNCHANGED <<consumer, effects>>

Recover ==
    /\ box.down
    /\ box' = [box EXCEPT !.down = FALSE]
    /\ UNCHANGED <<consumer, effects, crashes>>

(* `publish`: every record not yet sent. *)
Publish ==
    /\ ~box.down /\ InOutbox \ box.sent # {}
    /\ box' = [box EXCEPT !.sent = InOutbox, !.bus = @ \cup InOutbox]
    /\ UNCHANGED <<consumer, effects, crashes>>

(* Faulty variant: an acknowledgement clears the record, sent or not. *)
Acknowledged(e) == e \in box.bus \cup InOutbox

(* What the relay has sent and noted. *)
Sent(e) == e \in box.sent

(* `ack`: the record goes once the relay has sent it. *)
Ack(e) ==
    /\ ~box.down /\ Sent(e)
    /\ \E i \in DOMAIN box.outbox :
          /\ box.outbox[i] = e
          /\ box' = [box EXCEPT !.outbox = SubSeq(@, 1, i - 1) \o SubSeq(@, i + 1, Len(@)),
                                !.sent = @ \ {e}]
    /\ UNCHANGED <<consumer, effects, crashes>>

Remembered(e) == \E i \in DOMAIN consumer.ids : consumer.ids[i] = e

(* `deliver` of the consumer: an id it remembers has no second effect; the *)
(* oldest first sighting leaves a full table.                              *)
Deliver(e) ==
    /\ e \in box.bus /\ ~(box.last.kind = "naive" /\ box.last.event = e)
    /\ ~Remembered(e)
    /\ effects[e] < 2
    /\ LET ids == Append(consumer.ids, e)
           full == Window > 0 /\ Len(ids) > Window
       IN  consumer' = [ids |-> IF full THEN Tail(ids) ELSE ids,
                        forgotten |-> consumer.forgotten \/ full]
    /\ effects' = [effects EXCEPT ![e] = @ + 1]
    /\ UNCHANGED <<box, crashes>>

(* `forget`: an id is removed by hand. *)
Forget(e) ==
    /\ Remembered(e)
    /\ consumer' = [ids |-> SelectSeq(consumer.ids, LAMBDA i : i # e), forgotten |-> TRUE]
    /\ UNCHANGED <<box, effects, crashes>>

Next ==
    \/ Crash \/ CrashAfterRow \/ CrashBeforeCommit \/ Recover \/ Publish
    \/ \E e \in Event : Write(e) \/ NaiveWrite(e) \/ Ack(e) \/ Deliver(e) \/ Forget(e)

Spec == Init /\ [][Next]_vars
-----------------------------------------------------------------------------
(* The events of committed writes that are accounted for. *)
Reaches(e) == e \in InOutbox \/ e \in box.bus

(* An outbox and a consumer that forgets nothing make every event count    *)
(* once: the row's event is on its way or on the bus unless it came from a *)
(* naive write and is listed as lost, nothing that was rewound has an      *)
(* effect, and no event has two until an id was forgotten.                 *)
EffectivelyOnce ==
    /\ box.row # NoEvent => Reaches(box.row) \/ box.row \in box.lost
    /\ \A e \in box.sent : e \in box.bus
    /\ \A e \in Event :
          /\ effects[e] > 0 => e \in box.bus /\ e \notin box.rewound
          /\ effects[e] > 1 => consumer.forgotten
=============================================================================
