----------------------------- MODULE PeerProxy ------------------------------
(***************************************************************************)
(* The fault injector of the cluster ladder: the proxies in front of the   *)
(* members' peer ports (disttest/src/cluster/proxy.rs) and the cluster     *)
(* operations that change their fault table while they run                 *)
(* (disttest/src/cluster/mod.rs).                                          *)
(*                                                                         *)
(* A connection is a `handle` task and two `pump` tasks, one for each      *)
(* direction, on a runtime of several threads: the table can change at     *)
(* every await, and between a look at the table and what follows it.       *)
(*                                                                         *)
(* A stream is a sequence of units: a whole request with or without a      *)
(* body, the head of a request and the rest of it, or bytes that cannot be *)
(* framed.  One read returns any number of units that have arrived.        *)
(***************************************************************************)
EXTENDS Integers, Sequences, FiniteSets

CONSTANTS
    Member,     \* the members of the cluster
    Conn,       \* connections
    Route,      \* who dials whom: a set of <<dialer, member>>
    Requests,   \* what a dialer may send
    Answers,    \* what a member may answer
    Faults,     \* the faults a stage puts on a link
    MaxOps      \* bound: cluster operations

ASSUME RouteAssumption == Route \subseteq {r \in Member \X Member : r[1] # r[2]}

(* A request is whole, with a body or without, or comes as its head and    *)
(* the rest of it; raw bytes cannot be framed.                             *)
UnitKind == {"body", "nobody", "head", "rest", "raw"}

ASSUME StreamAssumption ==
    \A q \in Requests \cup Answers :
        /\ q \in Seq(UnitKind)
        /\ \A i \in 1 .. Len(q) : q[i] = "rest" <=> i > 1 /\ q[i - 1] = "head"

VARIABLES
    fault,      \* FaultTable.faults: a fault for every link
    op,         \* the cluster operation in progress: what it has still to set
    ops,        \* how many cluster operations began
    conn,       \* the `handle` task of each connection
    pump,       \* the two `pump` tasks of each connection
    wire,       \* what was sent on each direction and how much of it was read
    out,        \* what each pump wrote, in order
    side,       \* duplicated messages still to be delivered
    apart,      \* history: the links the last operation promised to separate
    crossed     \* history: how things crossed, and what the table said then

vars == <<fault, op, ops, conn, pump, wire, out, side, apart, crossed>>

Dir == {"out", "back"}
Pump == Conn \X Dir

(* A link is unordered; a member's own link stands for an unknown dialer.  *)
link(a, b) == {a, b}
Link == {link(a, b) : a, b \in Member}

(* LinkFault: probabilities and durations matter as zero or not zero.      *)
LinkFault == [cut : BOOLEAN, delay : BOOLEAN, drop : BOOLEAN,
              duplicate : BOOLEAN, reorder : BOOLEAN]
Clean == [cut |-> FALSE, delay |-> FALSE, drop |-> FALSE,
          duplicate |-> FALSE, reorder |-> FALSE]
MessageMode(f) == f.duplicate \/ f.reorder

ASSUME FaultAssumption == Faults \subseteq LinkFault

Unknown == "unknown"
NoOp == [between |-> {}, own |-> {}, fault |-> Clean, keep |-> FALSE, apart |-> {}]
NoConn == [pc |-> "none"]
NoPump == [pc |-> "none"]

(* A pump has returned: early, or after its sender closed. *)
Returned == {"ended", "flushed"}

(* fault_now in handle, current in pump. *)
LinkOf(c) ==
    IF conn[c].source = Unknown THEN link(conn[c].member, conn[c].member)
    ELSE link(conn[c].source, conn[c].member)
Current(c) == fault[LinkOf(c)]

Init ==
    /\ fault = [l \in Link |-> Clean]
    /\ op = NoOp
    /\ ops = 0
    /\ conn = [c \in Conn |-> NoConn]
    /\ pump = [p \in Pump |-> NoPump]
    /\ wire = [p \in Pump |-> [stream |-> <<>>, sent |-> 0, read |-> 0, eof |-> FALSE]]
    /\ out = [p \in Pump |-> <<>>]
    /\ side = {}
    /\ apart = {}
    /\ crossed = {}
-----------------------------------------------------------------------------
(* FaultTable::set and clear: whoever is waiting at this moment is woken.  *)
(* The notification is not latched.                                        *)
NotifyWaiters ==
    pump' = [p \in Pump |-> IF pump[p].pc = "wait" THEN [pump[p] EXCEPT !.woken = TRUE]
                            ELSE pump[p]]

SetFaults(table) == fault' = table /\ NotifyWaiters

OpBegins(o) ==
    /\ op = NoOp
    /\ ops < MaxOps
    /\ ops' = ops + 1
    /\ op' = o
    /\ apart' = {}
    /\ UNCHANGED <<fault, conn, pump, wire, out, side, crossed>>

(* Faulty variant: connections nobody could attribute are left alone. *)
CutIdentifiedOnly(links) ==
    [between |-> links, own |-> {}, fault |-> Clean, keep |-> TRUE, apart |-> links]

(* Cut the links, then every member's own link (cut_unattributable); other *)
(* faults of a link stay.                                                  *)
CutLinks(links) ==
    [between |-> links, own |-> {link(m, m) : m \in Member},
     fault |-> Clean, keep |-> TRUE, apart |-> links]

(* partition_links of two groups. *)
PartitionLinks(group) == {link(a, b) : a \in group, b \in Member \ group}

Partition(group) == OpBegins(CutLinks(PartitionLinks(group)))

Isolate(m) == OpBegins(CutLinks({link(m, n) : n \in Member \ {m}}))

LinkFaultOp(l, f) ==
    OpBegins([between |-> {l}, own |-> {}, fault |-> f, keep |-> FALSE, apart |-> {}])

(* every_link: every pair of members, and no member's own link. *)
EveryLink(f) ==
    OpBegins([between |-> {l \in Link : Cardinality(l) = 2}, own |-> {},
              fault |-> f, keep |-> FALSE, apart |-> {}])

(* One link of the operation in progress is set. *)
OpSets(l) ==
    /\ op # NoOp
    /\ l \in IF op.between # {} THEN op.between ELSE op.own
    /\ SetFaults([fault EXCEPT ![l] = IF op.keep THEN [@ EXCEPT !.cut = TRUE]
                                                 ELSE op.fault])
    /\ LET left == [op EXCEPT !.between = @ \ {l}, !.own = IF op.between = {} THEN @ \ {l}
                                                                              ELSE @]
           done == left.between \cup left.own = {}
       IN  /\ op' = IF done THEN NoOp ELSE left
           /\ apart' = IF done THEN op.apart ELSE apart
    /\ UNCHANGED <<ops, conn, wire, out, side, crossed>>

Heal ==
    /\ op = NoOp
    /\ ops < MaxOps
    /\ ops' = ops + 1
    /\ apart' = {}
    /\ SetFaults([l \in Link |-> Clean])
    /\ UNCHANGED <<op, conn, wire, out, side, crossed>>
-----------------------------------------------------------------------------
(* handle, up to its connect: the source is asked of the kernel, then the  *)
(* table is read; `framed` comes from this reading, however long the       *)
(* connect takes.  A link that drops may refuse the connection.            *)
Accept(c, route, source, dropped, request, answer) ==
    /\ conn[c].pc = "none"
    /\ LET f == fault[IF source = Unknown THEN link(route[2], route[2])
                                          ELSE link(source, route[2])]
       IN  /\ dropped => f.drop
           /\ conn' = [conn EXCEPT ![c] =
                         [pc |-> IF f.cut \/ dropped THEN "refused" ELSE "connecting",
                          dialer |-> route[1], source |-> source, member |-> route[2],
                          framed |-> MessageMode(f)]]
    /\ wire' = [wire EXCEPT ![<<c, "out">>].stream = request,
                            ![<<c, "back">>].stream = answer]
    /\ UNCHANGED <<fault, op, ops, pump, out, side, apart, crossed>>

(* The member cannot be connected to. *)
ConnectFails(c) ==
    /\ conn[c].pc = "connecting"
    /\ conn' = [conn EXCEPT ![c].pc = "refused"]
    /\ UNCHANGED <<fault, op, ops, pump, wire, out, side, apart, crossed>>

(* Faulty variant: the answers are parsed as requests too. *)
StartedFramed(framed) ==
    [pc |-> "top", woken |-> FALSE, framed |-> TRUE, chunk |-> <<>>,
     fault |-> Clean, said |-> {}, pending |-> <<>>, held |-> <<>>]

Started(framed) ==
    [pc |-> "top", woken |-> FALSE, framed |-> framed, chunk |-> <<>>,
     fault |-> Clean, said |-> {}, pending |-> <<>>, held |-> <<>>]

Connected(c) ==
    /\ conn[c].pc = "connecting"
    /\ conn' = [conn EXCEPT ![c].pc = "open"]
    /\ pump' = [pump EXCEPT ![<<c, "out">>] = Started(conn[c].framed),
                            ![<<c, "back">>] = Started(FALSE)]
    /\ UNCHANGED <<fault, op, ops, wire, out, side, apart, crossed>>

(* handle waits for the dialer's direction only, then aborts the other. *)
HandleEnds(c) ==
    /\ conn[c].pc = "open"
    /\ pump[<<c, "out">>].pc \in Returned
    /\ conn' = [conn EXCEPT ![c].pc = "closed"]
    /\ pump' = [pump EXCEPT ![<<c, "back">>].pc = "ended"]
    /\ UNCHANGED <<fault, op, ops, wire, out, side, apart, crossed>>
-----------------------------------------------------------------------------
(* The two ends of a connection: a unit is sent, or the sender is gone.    *)
SendUnit(p) ==
    /\ conn[p[1]].pc = "open"
    /\ ~wire[p].eof
    /\ wire[p].sent < Len(wire[p].stream)
    /\ wire' = [wire EXCEPT ![p].sent = @ + 1]
    /\ UNCHANGED <<fault, op, ops, conn, pump, out, side, apart, crossed>>

SenderCloses(p) ==
    /\ conn[p[1]].pc = "open"
    /\ ~wire[p].eof
    /\ wire' = [wire EXCEPT ![p].eof = TRUE]
    /\ UNCHANGED <<fault, op, ops, conn, pump, out, side, apart, crossed>>

ReceiverGone(p) == wire[<<p[1], IF p[2] = "out" THEN "back" ELSE "out">>].eof
-----------------------------------------------------------------------------
(* What the table says of a connection at this moment: is its link cut, is *)
(* its real dialer on the other side of a partition that stands?           *)
TableSays(c) ==
    (IF Current(c).cut THEN {"cut"} ELSE {})
    \cup (IF link(conn[c].dialer, conn[c].member) \in apart THEN {"apart"} ELSE {})

SetPump(p, q) == pump' = [pump EXCEPT ![p] = q]
PumpEnds(p) == pump' = [pump EXCEPT ![p].pc = "ended"]

(* write_all of `units`, after which the pump is q; a write that fails     *)
(* ends the pump.                                                          *)
WriteAll(p, units, how, said, q) ==
    \/ /\ SetPump(p, q)
       /\ out' = [out EXCEPT ![p] = @ \o units]
       /\ crossed' = crossed \cup {[how |-> how, said |-> said]}
    \/ /\ ReceiverGone(p)
       /\ PumpEnds(p)
       /\ UNCHANGED <<out, crossed>>

(* The top of the loop: a cut link closes the connection. *)
Top(p) ==
    /\ pump[p].pc = "top"
    /\ pump' = [pump EXCEPT ![p].pc = IF Current(p[1]).cut THEN "ended" ELSE "checked"]
    /\ UNCHANGED <<out, side, crossed, wire>>

(* select! begins: only from here on is a change of the table noticed. *)
Select(p) ==
    /\ pump[p].pc = "checked"
    /\ pump' = [pump EXCEPT ![p].pc = "wait", ![p].woken = FALSE]
    /\ UNCHANGED <<out, side, crossed, wire>>

Changed(p) ==
    /\ pump[p].pc = "wait"
    /\ pump[p].woken
    /\ pump' = [pump EXCEPT ![p].pc = "top"]
    /\ UNCHANGED <<out, side, crossed, wire>>

Read(p, n) ==
    /\ pump[p].pc = "wait"
    /\ wire[p].read + n <= wire[p].sent
    /\ wire' = [wire EXCEPT ![p].read = @ + n]
    /\ pump' = [pump EXCEPT ![p].pc = "got",
                            ![p].chunk = [i \in 1 .. n |-> wire[p].read + i]]
    /\ UNCHANGED <<out, side, crossed>>

ReadEnds(p) ==
    /\ pump[p].pc = "wait"
    /\ wire[p].eof /\ wire[p].read = wire[p].sent
    /\ pump' = [pump EXCEPT ![p].pc = "flush"]
    /\ UNCHANGED <<out, side, crossed, wire>>

(* Faulty variant: no timer. *)
HoldForever(p) == FALSE /\ UNCHANGED <<pump, out, side, crossed, wire>>

(* HOLD_AT_MOST passed and nothing overtook the held message. *)
HoldExpires(p) ==
    /\ pump[p].pc = "wait"
    /\ pump[p].held # <<>>
    /\ WriteAll(p, pump[p].held, "held", TableSays(p[1]),
                [pump[p] EXCEPT !.held = <<>>, !.pc = "top"])
    /\ UNCHANGED <<side, wire>>

(* The second look at the table, after the read; reorder and duplicate are *)
(* the ones of this look, also for a chunk that is delayed.                *)
Look(p) ==
    /\ pump[p].pc = "got"
    /\ LET f == Current(p[1])
       IN  IF f.cut THEN PumpEnds(p)
           ELSE SetPump(p, [pump[p] EXCEPT !.pc = IF f.delay THEN "delay" ELSE "write",
                                           !.fault = f, !.said = TableSays(p[1])])
    /\ UNCHANGED <<out, side, crossed, wire>>

(* Faulty variant: what was looked at before the delay still counts. *)
DelayEndsUnchecked(p) ==
    /\ pump[p].pc = "delay"
    /\ SetPump(p, [pump[p] EXCEPT !.pc = "write", !.said = TableSays(p[1])])
    /\ UNCHANGED <<out, side, crossed, wire>>

(* The third look, after the delay. *)
DelayEnds(p) ==
    /\ pump[p].pc = "delay"
    /\ IF Current(p[1]).cut THEN PumpEnds(p)
       ELSE SetPump(p, [pump[p] EXCEPT !.pc = "write", !.said = TableSays(p[1])])
    /\ UNCHANGED <<out, side, crossed, wire>>

(* A stream that is not framed is passed on as it is. *)
Write(p) ==
    /\ pump[p].pc = "write"
    /\ LET q == [pump[p] EXCEPT !.chunk = <<>>, !.said = {}, !.fault = Clean]
       IN  IF pump[p].framed
           THEN /\ SetPump(p, [pump[p] EXCEPT !.pc = "frame", !.chunk = <<>>,
                                              !.pending = @ \o pump[p].chunk])
                /\ UNCHANGED <<out, crossed>>
           ELSE WriteAll(p, pump[p].chunk, "chunk", pump[p].said, [q EXCEPT !.pc = "top"])
    /\ UNCHANGED <<side, wire>>
-----------------------------------------------------------------------------
Kind(p, u) == wire[p].stream[u]

(* http_message_len: how many units the first message of `pending` has,    *)
(* 0 when it is not whole.                                                 *)
MessageLen(p, pending) ==
    CASE pending = <<>> -> 0
      [] pending # <<>> /\ Kind(p, pending[1]) \in {"body", "nobody"} -> 1
      [] pending # <<>> /\ Kind(p, pending[1]) = "head" -> IF Len(pending) > 1 THEN 2 ELSE 0
      [] OTHER -> 0

(* Faulty variant: what cannot be framed is waited for like a message that *)
(* is not whole.                                                           *)
NeverUnframeable(p, pending) == FALSE

Unframeable(p, pending) == pending # <<>> /\ Kind(p, pending[1]) = "raw"

HasBody(p, msg) == Kind(p, msg[1]) \in {"body", "head"}

Framing(p) == pump[p].pc = "frame"
Message(p) == SubSeq(pump[p].pending, 1, MessageLen(p, pump[p].pending))
After(p) ==
    [pump[p] EXCEPT !.pending = SubSeq(@, MessageLen(p, @) + 1, Len(@))]

(* No whole message is left: back to the top, framed as before or never    *)
(* again.                                                                  *)
FrameEnds(p) ==
    /\ Framing(p)
    /\ MessageLen(p, pump[p].pending) = 0
    /\ LET q == [pump[p] EXCEPT !.pc = "top", !.said = {}, !.fault = Clean]
       IN  IF Unframeable(p, pump[p].pending)
           THEN WriteAll(p, pump[p].held \o pump[p].pending, "chunk", pump[p].said,
                         [q EXCEPT !.framed = FALSE, !.held = <<>>, !.pending = <<>>])
           ELSE SetPump(p, q) /\ UNCHANGED <<out, crossed>>
    /\ UNCHANGED <<side, wire>>

(* Faulty variant: the held message stays behind every message there is. *)
SwapKeepsHolding(p) ==
    /\ Framing(p)
    /\ MessageLen(p, pump[p].pending) > 0
    /\ pump[p].held # <<>>
    /\ WriteAll(p, Message(p), "chunk", pump[p].said, After(p))
    /\ UNCHANGED <<side, wire>>

(* The held message goes out after this one: that is the reordering. *)
Swap(p) ==
    /\ Framing(p)
    /\ MessageLen(p, pump[p].pending) > 0
    /\ pump[p].held # <<>>
    /\ WriteAll(p, Message(p) \o pump[p].held, "chunk", pump[p].said,
                [After(p) EXCEPT !.held = <<>>])
    /\ UNCHANGED <<side, wire>>

Hold(p) ==
    /\ Framing(p)
    /\ MessageLen(p, pump[p].pending) > 0
    /\ pump[p].held = <<>>
    /\ pump[p].fault.reorder
    /\ SetPump(p, [After(p) EXCEPT !.held = Message(p)])
    /\ UNCHANGED <<out, side, crossed, wire>>

(* The message is passed on, and perhaps given to a task that delivers it  *)
(* a second time.                                                          *)
Forward(p, twice) ==
    /\ Framing(p)
    /\ MessageLen(p, pump[p].pending) > 0
    /\ pump[p].held = <<>>
    /\ twice => pump[p].fault.duplicate /\ HasBody(p, Message(p))
    /\ WriteAll(p, Message(p), "chunk", pump[p].said, After(p))
    /\ side' = IF twice /\ pump'[p].pc # "ended" THEN side \cup {<<p, Message(p)>>} ELSE side
    /\ UNCHANGED wire

(* Faulty variant: a dialer that leaves takes its held message along. *)
FlushPending(p) ==
    /\ pump[p].pc = "flush"
    /\ SetPump(p, [pump[p] EXCEPT !.pc = "flushed", !.held = <<>>, !.pending = <<>>])
    /\ out' = [out EXCEPT ![p] = @ \o pump[p].pending]
    /\ UNCHANGED <<side, wire, crossed>>

(* The sender is gone: what was held and what was not whole goes out.      *)
Flush(p) ==
    /\ pump[p].pc = "flush"
    /\ LET q == [pump[p] EXCEPT !.pc = "flushed", !.held = <<>>, !.pending = <<>>]
       IN  IF pump[p].held \o pump[p].pending = <<>>
           THEN SetPump(p, q) /\ UNCHANGED <<out, crossed>>
           ELSE WriteAll(p, pump[p].held \o pump[p].pending, "held", TableSays(p[1]), q)
    /\ UNCHANGED <<side, wire>>

(* deliver_and_discard: on a connection of its own, past the table. *)
DeliverDuplicate(d) ==
    /\ d \in side
    /\ side' = side \ {d}
    /\ crossed' = crossed \cup {[how |-> "duplicate", said |-> TableSays(d[1][1])]}
    /\ UNCHANGED <<fault, op, ops, conn, pump, wire, out, apart>>

DuplicateFails(d) ==
    /\ d \in side
    /\ side' = side \ {d}
    /\ UNCHANGED <<fault, op, ops, conn, pump, wire, out, apart, crossed>>
-----------------------------------------------------------------------------
(* What the task of p does by itself, once there is something to do. *)
PumpStep(p) ==
    /\ \/ Top(p) \/ Select(p) \/ Changed(p) \/ ReadEnds(p)
       \/ \E n \in 1 .. Len(wire[p].stream) : Read(p, n)
       \/ HoldExpires(p)
       \/ Look(p) \/ DelayEnds(p) \/ Write(p)
       \/ FrameEnds(p) \/ Swap(p) \/ Hold(p) \/ (\E twice \in BOOLEAN : Forward(p, twice))
       \/ Flush(p)
    /\ UNCHANGED <<fault, op, ops, conn, apart>>

ConnStep(c) == ConnectFails(c) \/ Connected(c) \/ HandleEnds(c)

Next ==
    \/ \E group \in SUBSET Member \ {{}, Member} : Partition(group)
    \/ \E m \in Member : Isolate(m)
    \/ \E l \in Link, f \in Faults : LinkFaultOp(l, f)
    \/ \E f \in Faults : EveryLink(f)
    \/ \E l \in Link : OpSets(l)
    \/ Heal
    \/ \E c \in Conn :
          \/ \E r \in Route, q \in Requests, a \in Answers :
                \E s \in {r[1], Unknown}, d \in BOOLEAN : Accept(c, r, s, d, q, a)
          \/ ConnStep(c)
    \/ \E p \in Pump : SendUnit(p) \/ SenderCloses(p) \/ PumpStep(p)
    \/ \E d \in side : DeliverDuplicate(d) \/ DuplicateFails(d)

(* Tasks the runtime can run are run: a ready pump or handler, a cluster   *)
(* operation that has begun, a spawned delivery.  The members, and a stage *)
(* that starts the next operation, are not assumed to do anything.         *)
Fairness ==
    /\ \A p \in Pump : WF_vars(PumpStep(p))
    /\ \A c \in Conn : WF_vars(ConnStep(c))
    /\ WF_vars(\E l \in Link : OpSets(l))

Spec == Init /\ [][Next]_vars /\ Fairness
-----------------------------------------------------------------------------
Said == SUBSET {"cut", "apart"}

Operation == [between : SUBSET Link, own : SUBSET Link, fault : LinkFault,
              keep : BOOLEAN, apart : SUBSET Link]

ConnState == [pc : {"refused", "connecting", "open", "closed"},
              dialer : Member, source : Member \cup {Unknown},
              member : Member, framed : BOOLEAN]

(* A unit is named by its place in the stream. *)
PumpState == [pc : {"top", "checked", "wait", "got", "delay", "write", "frame", "flush"}
                   \cup Returned,
              woken : BOOLEAN, framed : BOOLEAN, chunk : Seq(Nat), fault : LinkFault,
              said : Said, pending : Seq(Nat), held : Seq(Nat)]

TypeOK ==
    /\ fault \in [Link -> LinkFault]
    /\ op \in Operation
    /\ conn \in [Conn -> ConnState \cup {NoConn}]
    /\ pump \in [Pump -> PumpState \cup {NoPump}]
    /\ wire \in [Pump -> [stream : Requests \cup Answers \cup {<<>>}, sent : Nat,
                          read : Nat, eof : BOOLEAN]]
    /\ out \in [Pump -> Seq(Nat)]
    /\ side \subseteq Pump \X Seq(Nat)
    /\ crossed \subseteq [how : {"chunk", "held", "duplicate"}, said : Said]

(* A cut stops what arrives after it: nothing a pump passes on as it comes *)
(* was looked at while its link was cut, the wait of a delay included.     *)
CutStopsChunks == \A x \in crossed : x.how = "chunk" => "cut" \notin x.said

(* "Refuse them all, as `partition` does": once partition or isolate has   *)
(* returned, nothing is passed on as it comes between members they         *)
(* separated, whoever the proxy took the dialer for.                       *)
PartitionHolds == \A x \in crossed : x.how = "chunk" => "apart" \notin x.said

(* "sends it after the next one": a unit of a message never comes behind   *)
(* units of more than one later message.                                   *)
MessageOf(p, u) == Cardinality({v \in 1 .. u : Kind(p, v) # "rest"})

AtMostOneSlotLate ==
    \A p \in Pump : \A i, j \in DOMAIN out[p] :
        i < j => MessageOf(p, out[p][j]) >= MessageOf(p, out[p][i]) - 1

(* No unit goes out twice on its own connection, each rest goes out right  *)
(* behind its head, and a pump that ends because its sender closed has     *)
(* passed on every unit it was sent.                                       *)
NothingLostOrTorn ==
    \A p \in Pump :
        LET o == out[p]
        IN  /\ \A i, j \in DOMAIN o : o[i] = o[j] => i = j
            /\ \A i \in DOMAIN o :
                  Kind(p, o[i]) = "rest" => i > 1 /\ o[i - 1] = o[i] - 1
            /\ pump[p].pc = "flushed" => Len(o) = wire[p].sent

(* "sends it after the next one (or after 50 ms when no next one comes)":  *)
(* no message is held for ever.                                            *)
HeldGoesOut ==
    \A c \in Conn :
        LET q == pump[<<c, "out">>]
        IN  q.pc \notin {"none"} \cup Returned /\ q.held # <<>>
              ~> q.pc \in {"none"} \cup Returned \/ q.held = <<>>

(* The units that were sent whole and have not gone out. *)
Owed(p) ==
    {u \in 1 .. wire[p].sent : Kind(p, u) = "head" => u < wire[p].sent}
      \ {out[p][i] : i \in DOMAIN out[p]}

(* "rather than stalling it": whatever was sent whole goes out, framed or  *)
(* not, or its connection ends.                                            *)
EveryUnitGoesOut ==
    \A p \in Pump : Owed(p) # {} ~> Owed(p) = {} \/ pump[p].pc \in Returned

(* LinkFault.cut: "Nothing crosses this link at all." (proxy.rs:65)        *)
NothingCrosses == \A x \in crossed : "cut" \notin x.said

(* "`cut` refuses new connections and closes open ones, in both            *)
(* directions" (proxy.rs:22): at least one direction of a connection that  *)
(* is open on a cut link is closed, unless the cut is lifted first.        *)
CutClosesOpen ==
    \A c \in Conn :
        conn[c].pc = "open" /\ Current(c).cut
          ~> \/ conn[c].pc # "open" \/ ~Current(c).cut
             \/ \E d \in Dir : pump[<<c, d>>].pc \in Returned
=============================================================================
