------------------------------ MODULE Ordering ------------------------------
(***************************************************************************)
(* The reference ordered broadcast (disttest/examples/alg/broadcast.rs,    *)
(* topic ordering): FIFO, causal and total order over a network that       *)
(* offers any message to any process at any time, again and again.         *)
(***************************************************************************)
EXTENDS Integers, Sequences

CONSTANTS
    Process,
    Sender,        \* bound: the processes that send
    MaxMessages    \* bound: messages sent

VARIABLES
    ord,    \* struct Ordering; a message's id is its place in the queue, and so
            \* is its slot, because both are counted up by `send` alone
    past    \* history: per message, what its sender had sent or delivered, and
            \* the past of all that

vars == <<ord, past>>

Delivered(p) == {ord.log[p][i] : i \in DOMAIN ord.log[p]}
SentBy(p) == {i \in DOMAIN ord.queue : ord.queue[i].from = p}

Init ==
    /\ \E o \in {"fifo", "causal", "total"} :
         ord = [order |-> o, queue |-> <<>>,
                log |-> [p \in Process |-> <<>>], sent |-> [p \in Process |-> 0],
                delivered_from |-> [p \in Process |-> [q \in Process |-> 0]]]
    /\ past = <<>>

(* `send`: tagged with what the sender has delivered. *)
Send(p) ==
    /\ Len(ord.queue) < MaxMessages
    /\ ord' = [ord EXCEPT !.sent[p] = @ + 1,
                 !.queue = Append(@, [from |-> p, seq |-> ord.sent[p] + 1,
                                      clock |-> ord.delivered_from[p]])]
    /\ LET seen == Delivered(p) \cup SentBy(p)
       IN  past' = Append(past, seen \cup UNION {past[i] : i \in seen})

NextOf(m, p) == ord.delivered_from[p][m.from] + 1 = m.seq

(* Faulty variant: causal order looks at the sender's own messages only. *)
DeliverableFifo(id, p) ==
    IF ord.order = "total" THEN Len(ord.log[p]) + 1 = id ELSE NextOf(ord.queue[id], p)

(* Ordering::deliverable *)
Deliverable(id, p) ==
    LET m == ord.queue[id]
    IN  CASE ord.order = "fifo" -> NextOf(m, p)
          [] ord.order = "causal" ->
               /\ NextOf(m, p)
               /\ \A k \in Process \ {m.from} : ord.delivered_from[p][k] >= m.clock[k]
          [] ord.order = "total" -> Len(ord.log[p]) + 1 = id

(* `offer`: delivered, held back, or a repetition. *)
Offer(id, p) ==
    /\ id \notin Delivered(p) /\ Deliverable(id, p)
    /\ ord' = [ord EXCEPT !.log[p] = Append(@, id),
                 !.delivered_from[p][ord.queue[id].from] = ord.queue[id].seq]
    /\ UNCHANGED past

Next ==
    \/ \E p \in Sender : Send(p)
    \/ \E id \in DOMAIN ord.queue, p \in Process : Offer(id, p)

Spec == Init /\ [][Next]_vars
-----------------------------------------------------------------------------
IsPrefix(s, t) == Len(s) <= Len(t) /\ SubSeq(t, 1, Len(s)) = s

(* What each order promises, whatever the network offers when: FIFO, no    *)
(* message before an earlier one of its sender; causal, none before        *)
(* anything its sender had sent or seen; total, the same sequence          *)
(* everywhere, gaps at the end only.                                       *)
OrderKept ==
    /\ \A p \in Process : \A i \in DOMAIN ord.log[p] :
         LET before == {ord.log[p][j] : j \in 1 .. i - 1}
             id == ord.log[p][i]
         IN  /\ \A e \in SentBy(ord.queue[id].from) : e < id => e \in before
             /\ ord.order = "causal" => past[id] \subseteq before
    /\ ord.order = "total" =>
         \A p, q \in Process : IsPrefix(ord.log[p], ord.log[q]) \/ IsPrefix(ord.log[q], ord.log[p])
=============================================================================
