----------------------------- MODULE Transport -----------------------------
(***************************************************************************)
(* The peer transport of the browser host: SessionController numbers the   *)
(* messages its cradle (the session's state machine) emits, sends them     *)
(* through a relay that may lose or delay any frame, acknowledges what it  *)
(* delivered, retransmits what was not acknowledged, and saves the session *)
(* so that a reload of the page resumes it.  PotatoChannel takes for       *)
(* granted the ordered stream this protocol is to provide.                 *)
(*                                                                         *)
(* The cradle is reduced to the messages it consumed and the messages it   *)
(* made; a message is told apart by its place in the stream and by the     *)
(* life of the page that made it, since after a reload the user may choose *)
(* differently.  Timers fire at any time, saves are asynchronous, and      *)
(* between two macrotasks of a page anything else may happen.              *)
(***************************************************************************)
EXTENDS Naturals, Sequences, FiniteSets, SequencesExt

CONSTANTS
    Peer,         \* the two players' pages
    MaxMessages,  \* messages the two cradles make at most
    MaxUpsets,    \* upsets, and sessions taken on chain or ended, at most
    MaxAcks,      \* acknowledgements of duplicates are queued up to this many
    DrainBudget   \* ACTIVE_DRAIN_EVENT_BUDGET

ASSUME PeerAssumption == \E p, q \in Peer : p # q /\ Peer = {p, q}

ASSUME BoundsAssumption ==
    /\ {MaxMessages, MaxUpsets, MaxAcks} \subseteq Nat
    /\ DrainBudget \in Nat \ {0}

Other(p) == CHOOSE q \in Peer : q # p

VARIABLES
    host,     \* [Peer -> record]: the page's memory
    disk,     \* [Peer -> record]: the SessionSave of the last write
    net,      \* [Peer -> SUBSET Frame]: frames ever sent to that peer
    upsets,   \* Nat: upsets, and sessions taken on chain or ended, so far
    left,     \* [Peer -> BOOLEAN]: it has once gone on chain or ended
    forked,   \* [Peer -> BOOLEAN]: a reload forgot a number the peer has seen
    torn      \* [Peer -> BOOLEAN]: a reload forgot a message the cradle made

vars == <<host, disk, net, upsets, left, forked, torn>>

None == [seq |-> 0, life |-> 0]

Idle == [busy |-> FALSE]

NoHandoff == [no |-> 0, sent |-> FALSE]

Msg(n, m) == [k |-> "msg", no |-> n, msg |-> m]

Ack(n) == [k |-> "ack", no |-> n]

Messages(entries) == {Msg(e.no, e.msg) : e \in entries}

Acks(numbers) == {Ack(n) : n \in Range(numbers)}

----------------------------------------------------------------------------
(* What a page holds, and what of it a save holds. *)

NewCradle == [got |-> <<>>, made |-> <<>>, handoff |-> None, done |-> FALSE]

\* book is not in the code: the message each number was given to.
NewHost ==
    [cradle |-> NewCradle, events |-> <<>>, book |-> <<>>, next |-> 1,
     remote |-> 0, unacked |-> {}, sends |-> <<>>, acks |-> <<>>,
     reorder |-> {}, dirty |-> FALSE, flush |-> Idle,
     handoff |-> NoHandoff, onChain |-> FALSE, stopped |-> FALSE]

\* getWasmFields: the event queue, the pending sends and acks and the reorder
\* queue are not saved.  undrained is not in the code either: the messages
\* that the saved cradle made and the saved transport does not know.
Snapshot(h) ==
    [cradle |-> h.cradle, book |-> h.book, next |-> h.next,
     remote |-> h.remote, unacked |-> h.unacked, stopped |-> h.stopped,
     undrained |-> h.events]

Init ==
    /\ host = [p \in Peer |-> NewHost]
    /\ disk = [p \in Peer |-> Snapshot(NewHost)]
    /\ net = [p \in Peer |-> {}]
    /\ upsets = 0
    /\ left = [p \in Peer |-> FALSE]
    /\ forked = [p \in Peer |-> FALSE]
    /\ torn = [p \in Peer |-> FALSE]

----------------------------------------------------------------------------
(* Steps of SessionController that several handlers take. *)

\* markNeedsImmediateDurability.  The timer it arms is left out: a flush may
\* start whenever one is needed.
MarkNeedsDurability(h) == [h EXCEPT !.dirty = @ \/ ~h.stopped]

\* The messages of ms under the next numbers.
Numbered(h, ms) == [i \in DOMAIN ms |-> [no |-> h.next + i - 1, msg |-> ms[i]]]

\* messageNumber++, unackedMessages.push, pendingOutboundSends.push for each
\* message of ms.  unackedMessages is in the order of the numbers it holds.
Enqueue(h, ms) ==
    IF ms = <<>> THEN h
    ELSE MarkNeedsDurability(
           [h EXCEPT !.next = @ + Len(ms), !.book = @ \o ms,
                     !.unacked = @ \cup Range(Numbered(h, ms)),
                     !.sends = @ \o Numbered(h, ms)])

\* noteTerminalHandoffSent for the messages just put on the wire.
NoteSent(h, entries) ==
    [h EXCEPT !.handoff.sent =
        @ \/ \E e \in entries : e.no = h.handoff.no]

\* stopProtocolWork
Stop(h) ==
    [h EXCEPT !.stopped = TRUE, !.cradle.done = TRUE, !.cradle.handoff = None,
              !.handoff = NoHandoff, !.events = <<>>, !.sends = <<>>,
              !.acks = <<>>, !.unacked = {}, !.reorder = {},
              !.dirty = FALSE]

\* goOnChain: the cradle goes on chain, or ends a session with nothing in it.
GoneOnChain(h) == [h EXCEPT !.onChain = TRUE, !.cradle.done = TRUE]

\* resendUnacked: unless the last retransmission was a moment ago or the hub's
\* socket is closed, everything not acknowledged is sent, saved or not.
Resent(h, sent) == NoteSent(h, IF sent THEN h.unacked ELSE {})

ResendFrames(h, sent) == IF sent THEN Messages(h.unacked) ELSE {}

\* queueTerminalHandoff: the message keeps its number if it has one.
QueueHandoff(h, m) ==
    IF \E e \in h.unacked : e.msg = m
    THEN [h EXCEPT !.handoff =
            [no |-> (CHOOSE e \in h.unacked : e.msg = m).no,
             sent |-> FALSE]]
    ELSE [Enqueue(h, <<m>>) EXCEPT !.handoff = [no |-> h.next, sent |-> FALSE]]

\* The message a cradle makes next.
Fresh(h) == [seq |-> Len(h.cradle.made) + 1, life |-> upsets]

CanMake(p, h) ==
    /\ Len(h.cradle.made) + Len(host[Other(p)].cradle.made) < MaxMessages
    /\ h.cradle.handoff = None /\ ~h.cradle.done

Step(p, h) == host' = [host EXCEPT ![p] = h]

\* Frames of p reach the relay.  A frame stays in net: whether it is lost,
\* delayed or retransmitted shows in when and how often it is delivered.
Transmit(p, out) == net' = [net EXCEPT ![Other(p)] = @ \cup out]

Upset == upsets < MaxUpsets /\ upsets' = upsets + 1

\* The page becomes h, for which the session is over.
Leave(p, h) ==
    /\ Upset
    /\ Step(p, h)
    /\ left' = [left EXCEPT ![p] = TRUE]

----------------------------------------------------------------------------
(* The cradle and its event queue. *)

\* A local action (move, proposal...) makes the cradle emit a message.
Act(p) ==
    /\ CanMake(p, host[p])
    /\ Step(p, [host[p] EXCEPT !.cradle.made = Append(@, Fresh(host[p])),
                               !.events = Append(@, Fresh(host[p]))])
    /\ UNCHANGED <<disk, net, upsets, left, forked, torn>>

\* Mutant: a drain cut short by its budget drops the rest of the queue.
DrainedForGood(h, n) ==
    [IF h.onChain THEN h ELSE Enqueue(h, SubSeq(h.events, 1, n))
     EXCEPT !.events = <<>>]

Drained(h, n) ==
    [IF h.onChain THEN h ELSE Enqueue(h, SubSeq(h.events, 1, n))
     EXCEPT !.events = SubSeq(@, n + 1, Len(@))]

\* drainActiveEventsToQuiescence: outbound messages are dropped once on chain.
Drain(p) ==
    /\ host[p].events # <<>>
    /\ Step(p, Drained(host[p], IF Len(host[p].events) < DrainBudget
                                THEN Len(host[p].events) ELSE DrainBudget))
    /\ UNCHANGED <<disk, net, upsets, left, forked, torn>>

\* goOnChain from the user or because the peer is lost.
GoOnChain(p) ==
    /\ ~host[p].stopped /\ ~host[p].onChain
    /\ \E h \in {GoneOnChain(host[p]), Stop(host[p])} : Leave(p, h)
    /\ UNCHANGED <<disk, net, forked, torn>>

----------------------------------------------------------------------------
(* Inbound frames. *)

\* The messages deliverMessage and flushReorderQueue hand over in a row when
\* the next one, m, arrives.
InOrder(h, m) ==
    LET ready == {n \in 1..Cardinality(h.reorder) :
                    \A i \in 1..n : \E e \in h.reorder : e.no = h.remote + 1 + i}
    IN  <<m>> \o [i \in 1..Cardinality(ready) |->
                    (CHOOSE e \in h.reorder : e.no = h.remote + 1 + i).msg]

\* deliverSingleMessage for each message of ms.
Delivered(h, ms) ==
    IF ms = <<>> THEN h
    ELSE MarkNeedsDurability(
           [h EXCEPT !.cradle.got = @ \o ms, !.remote = @ + Len(ms),
              !.acks = @ \o [i \in DOMAIN ms |-> h.remote + i],
              !.reorder = {e \in @ : e.no > h.remote + Len(ms)}])

\* The cradle's answer to a message: none, an outbound message, or the terminal
\* command of a cooperative close that pays nobody.
Answered(p, d) ==
    \/ Step(p, d)
    \/ /\ CanMake(p, d)
       /\ \/ Step(p, [d EXCEPT !.cradle.made = Append(@, Fresh(d)),
                               !.events = Append(@, Fresh(d))])
          \/ Step(p, QueueHandoff(
                       [d EXCEPT !.cradle.made = Append(@, Fresh(d)),
                                 !.cradle.handoff = Fresh(d)],
                       Fresh(d)))

\* The message ends the session; its acknowledgement is queued all the same.
Ended(d) == [Stop(d) EXCEPT !.acks = <<d.remote>>]

\* deliver_message throws on the message after d's last: it is dropped, and
\* goOnChain starts, ends the session or fails.
Thrown(d) == [d EXCEPT !.reorder = {e \in @ : e.no # d.remote + 1}]

\* deliverMessage, msgno = remoteNumber + 1, with flushReorderQueue.
DeliverNext(p, f) ==
    /\ f.no = host[p].remote + 1
    /\ ~host[p].stopped /\ ~host[p].onChain
    /\ \E ms \in {InOrder(host[p], f.msg)} :
         \/ Answered(p, Delivered(host[p], ms)) /\ UNCHANGED <<upsets, left>>
         \/ \E n \in 1..Len(ms) : Leave(p, Ended(Delivered(host[p], SubSeq(ms, 1, n))))
         \/ \E n \in 0..(Len(ms) - 1) :
              \E h \in {Thrown(Delivered(host[p], SubSeq(ms, 1, n)))} :
                \/ Step(p, h) /\ UNCHANGED <<upsets, left>>
                \/ Leave(p, GoneOnChain(h))
                \/ Leave(p, Stop(h))
    /\ UNCHANGED <<disk, net, forked, torn>>

\* deliverMessage, msgno > remoteNumber + 1.
DeliverEarly(p, f) ==
    /\ f.no > host[p].remote + 1
    /\ ~host[p].stopped /\ ~host[p].onChain
    /\ Step(p, [host[p] EXCEPT !.reorder =
                  {e \in @ : e.no # f.no} \cup {[no |-> f.no, msg |-> f.msg]}])
    /\ UNCHANGED <<disk, net, upsets, left, forked, torn>>

\* deliverMessage, msgno <= remoteNumber: the acknowledgement waits for a save
\* that is due, and what the peer may have missed is sent again.
DeliverDuplicate(p, f) ==
    /\ f.no <= host[p].remote
    /\ ~host[p].stopped /\ ~host[p].onChain
    /\ \E sent \in BOOLEAN :
         \/ /\ host[p].dirty /\ Len(host[p].acks) < MaxAcks
            /\ Step(p, Resent([host[p] EXCEPT !.acks = Append(@, f.no)], sent))
            /\ Transmit(p, ResendFrames(host[p], sent))
         \/ /\ ~host[p].dirty
            /\ Step(p, Resent(host[p], sent))
            /\ Transmit(p, {Ack(f.no)} \cup ResendFrames(host[p], sent))
    /\ UNCHANGED <<disk, upsets, left, forked, torn>>

\* deliverMessage on chain or after the end: acknowledged, never consumed.
DeliverIgnored(p, f) ==
    /\ host[p].stopped \/ host[p].onChain
    /\ Transmit(p, {Ack(f.no)})
    /\ UNCHANGED <<host, disk, upsets, left, forked, torn>>

DeliverMessage(p, f) ==
    /\ f.k = "msg"
    /\ \/ DeliverNext(p, f) \/ DeliverEarly(p, f)
       \/ DeliverDuplicate(p, f) \/ DeliverIgnored(p, f)

\* receiveAck retires every number up to n, save a terminal message not sent.
Retired(h, n) ==
    [h EXCEPT !.unacked =
       {e \in @ : e.no > n \/ (e.no = h.handoff.no /\ ~h.handoff.sent)}]

\* receiveAck; completeOutboundTerminalHandoffAfterAck ends the session.
ReceiveAck(p, f) ==
    /\ f.k = "ack"
    /\ \/ /\ host[p].handoff.sent /\ f.no >= host[p].handoff.no
          /\ Step(p, Stop(host[p]))
          /\ left' = [left EXCEPT ![p] = TRUE]
       \/ /\ ~(host[p].handoff.sent /\ f.no >= host[p].handoff.no)
          /\ Step(p, Retired(host[p], f.no))
          /\ UNCHANGED left
    /\ UNCHANGED <<disk, net, upsets, forked, torn>>

\* receiveKeepalive, or the hub's socket is open again.
Nudge(p, sent) ==
    /\ ~host[p].stopped
    /\ Step(p, Resent(host[p], sent))
    /\ Transmit(p, ResendFrames(host[p], sent))
    /\ UNCHANGED <<disk, upsets, left, forked, torn>>

----------------------------------------------------------------------------
(* Saving. *)

\* performDurabilityFlushAndSend up to its await.  The timer waits for an empty
\* event queue, but a flush chained to an earlier one starts as that one ends,
\* whatever the queue holds by then.
StartFlush(p) ==
    /\ host[p].dirty /\ host[p].flush = Idle
    /\ Step(p, [host[p] EXCEPT !.flush =
                  [busy |-> TRUE, snap |-> Snapshot(host[p]),
                   outs |-> Len(host[p].sends), acks |-> Len(host[p].acks)]])
    /\ UNCHANGED <<disk, net, upsets, left, forked, torn>>

\* Mutant: both queues are cleared, what came during the write included.
SentAndCleared(h) ==
    NoteSent([h EXCEPT !.sends = <<>>, !.acks = <<>>, !.flush = Idle, !.dirty = FALSE],
             Range(SubSeq(h.sends, 1, h.flush.outs)))

\* After the await: what was queued when the save was taken goes out and what
\* came since waits for the next flush.
Sent(h) ==
    LET g == [h EXCEPT !.sends = SubSeq(@, h.flush.outs + 1, Len(@)),
                       !.acks = SubSeq(@, h.flush.acks + 1, Len(@)),
                       !.flush = Idle]
    IN  NoteSent([g EXCEPT !.dirty = g.sends # <<>> \/ g.acks # <<>>],
                 Range(SubSeq(h.sends, 1, h.flush.outs)))

\* The record is written; then everything is sent, or stays queued because the
\* hub's socket is closed, or the session has ended meanwhile.
FlushEnds(p) ==
    /\ host[p].flush # Idle
    /\ disk' = [disk EXCEPT ![p] = host[p].flush.snap]
    /\ \/ /\ ~host[p].stopped
          /\ Step(p, Sent(host[p]))
          /\ Transmit(p, Messages(Range(SubSeq(host[p].sends, 1, host[p].flush.outs)))
                         \cup Acks(SubSeq(host[p].acks, 1, host[p].flush.acks)))
       \/ Step(p, [host[p] EXCEPT !.flush = Idle]) /\ UNCHANGED net
    /\ UNCHANGED <<upsets, left, forked, torn>>

\* Mutant: the failure of the write does not keep the frames back.
FlushFailsAndSends(p) ==
    /\ host[p].flush # Idle /\ ~host[p].stopped
    /\ Step(p, Sent(host[p]))
    /\ Transmit(p, Messages(Range(SubSeq(host[p].sends, 1, host[p].flush.outs)))
                   \cup Acks(SubSeq(host[p].acks, 1, host[p].flush.acks)))
    /\ UNCHANGED <<disk, upsets, left, forked, torn>>

\* The write fails and the flush throws; messages and acks stay queued.
FlushFails(p) ==
    /\ host[p].flush # Idle
    /\ Step(p, [host[p] EXCEPT !.flush = Idle])
    /\ UNCHANGED <<disk, net, upsets, left, forked, torn>>

\* persistFullSession: the debounced save, and the one of every change of the
\* user interface's state.  Writes are serialised, so a save taken during a
\* flush's write is one taken after it.
Save(p) ==
    /\ host[p].flush = Idle
    /\ disk' = [disk EXCEPT ![p] = Snapshot(host[p])]
    /\ UNCHANGED <<host, net, upsets, left, forked, torn>>

\* Mutant: remoteNumber is not restored.
RestoredFromZero(s) ==
    LET h == [NewHost EXCEPT !.cradle = s.cradle, !.book = s.book,
                             !.next = s.next, !.unacked = s.unacked]
    IN  IF s.cradle.handoff = None THEN h ELSE QueueHandoff(h, s.cradle.handoff)

\* restoreSession and setGameSession, on what the last write left.
Restored(s) ==
    LET h == [NewHost EXCEPT !.cradle = s.cradle, !.book = s.book,
                             !.next = s.next, !.remote = s.remote,
                             !.unacked = s.unacked]
    IN  IF s.cradle.handoff = None THEN h ELSE QueueHandoff(h, s.cradle.handoff)

\* The peer has, or will be handed, a message under number n.
Seen(q, n) ==
    \/ host[q].remote >= n
    \/ \E e \in host[q].reorder : e.no >= n
    \/ \E f \in net[q] : f.k = "msg" /\ f.no >= n

\* The page dies and is loaded again; spillStoredMessages ends by resending.
\* An ended session is not resumed.
Reload(p) ==
    /\ Upset /\ ~disk[p].stopped
    /\ \E sent \in BOOLEAN :
         /\ Step(p, Resent(Restored(disk[p]), sent))
         /\ Transmit(p, ResendFrames(Restored(disk[p]), sent))
    /\ forked' = [forked EXCEPT ![p] = @ \/ Seen(Other(p), disk[p].next)]
    /\ torn' = [torn EXCEPT ![p] = @ \/ disk[p].undrained # <<>>]
    /\ UNCHANGED <<disk, left>>

----------------------------------------------------------------------------
Next ==
    \E p \in Peer :
        \/ Act(p) \/ Drain(p) \/ GoOnChain(p)
        \/ \E f \in net[p] : DeliverMessage(p, f) \/ ReceiveAck(p, f)
        \/ \E sent \in BOOLEAN : Nudge(p, sent)
        \/ StartFlush(p) \/ FlushEnds(p) \/ FlushFails(p)
        \/ Save(p) \/ Reload(p)

Spec == Init /\ [][Next]_vars

----------------------------------------------------------------------------
(* Properties. *)

\* Type invariant: counters, queues and the lists that splice() cuts agree in
\* length, and a save never runs ahead of the page.
TypeOK ==
    \A p \in Peer :
        /\ host[p].next = Len(host[p].book) + 1
        /\ host[p].remote = Len(host[p].cradle.got)
        /\ \A e \in Range(host[p].sends) : e \in host[p].unacked
                                           \/ e.no <= disk[Other(p)].remote
                                           \/ left[Other(p)]
        /\ host[p].sends # <<>> \/ host[p].acks # <<>> => host[p].dirty \/ host[p].stopped
        /\ host[p].flush # Idle /\ ~host[p].stopped =>
             /\ host[p].flush.outs <= Len(host[p].sends)
             /\ host[p].flush.acks <= Len(host[p].acks)
        /\ disk[p].next <= host[p].next /\ disk[p].remote <= host[p].remote

\* An acknowledgement on the wire stands for a delivery that is on disk: the
\* acks queued by deliverMessage wait for performDurabilityFlushAndSend, and a
\* duplicate is answered at once only when no save is due.  A reload never
\* takes back what was acknowledged.
AckedIsSaved ==
    \A p \in Peer : \A f \in net[Other(p)] :
        f.k = "ack" => f.no <= disk[p].remote \/ left[p]

\* A number is retired from unackedMessages only once the peer has saved its
\* delivery, so that neither side's reload can lose a numbered message.
KeptUntilSaved ==
    \A p \in Peer : \A n \in 1..(host[p].next - 1) :
        \/ \E e \in host[p].unacked : e.no = n
        \/ n <= disk[Other(p)].remote
        \/ left[p] \/ left[Other(p)]

\* A numbered message is safe until it is saved at the other end.
DeliveryInv == TypeOK /\ AckedIsSaved /\ KeptUntilSaved

\* What one cradle consumed is, in order and without gap or repetition, what
\* the other's host numbered: across loss, retransmission, reordering and
\* upsets, unless a reload forgot a number the peer has seen.
SameStream ==
    \A p \in Peer :
        ~forked[p] => IsPrefix(host[Other(p)].cradle.got, host[p].book)

\* The messages a cradle made, in order, are the ones in the book and then the
\* events.  The terminal command, the last one made, may overtake the others.
InTurn(cradle, book, events) ==
    IF cradle.handoff = None THEN book \o events = cradle.made
    ELSE \E k \in DOMAIN book :
            /\ book[k] = cradle.handoff
            /\ RemoveAt(book, k) \o events \o <<cradle.handoff>> = cradle.made

\* The host gives each message of its cradle one number, in the order they
\* were made, the terminal command apart, and forgets none of them, unless a
\* reload resumed a save taken while events were queued.
NumberedAsMade ==
    \A p \in Peer : ~torn[p] /\ ~left[p] =>
        InTurn(host[p].cradle, host[p].book, host[p].events)

\* completeOutboundTerminalHandoffAfterAck: a session that ends because its
\* terminal message was acknowledged leaves a peer whose save holds it.
HandoffReachesPeer ==
    [][\A p \in Peer :
         /\ ~host[p].stopped /\ host'[p].stopped /\ ~forked[p]
         /\ host[p].handoff.sent /\ Ack(host[p].handoff.no) \in net[p]
         => \/ host[p].cradle.handoff \in Range(disk[Other(p)].cradle.got)
            \/ left[Other(p)]]_vars
=============================================================================
