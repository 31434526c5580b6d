------------------------- MODULE TransportInvariant -------------------------
(***************************************************************************)
(* The inductive invariant behind the delivery of the transport: what a    *)
(* page, the save being written and the save on disk hold of one another,  *)
(* and what the two peers and the frames between them do.                  *)
(***************************************************************************)
EXTENDS Transport

Message == [seq : Nat, life : Nat]

Entry == [no : Nat, msg : Message]

Frame == [k : {"msg"}, no : Nat, msg : Message] \cup [k : {"ack"}, no : Nat]

Cradle ==
    [got : Seq(Message), made : Seq(Message), handoff : Message, done : BOOLEAN]

SessionSave ==
    [cradle : Cradle, book : Seq(Message), next : Nat, remote : Nat,
     unacked : SUBSET Entry, stopped : BOOLEAN, undrained : Seq(Message)]

Flushing == [busy : {TRUE}, snap : SessionSave, outs : Nat, acks : Nat]

Page ==
    [cradle : Cradle, events : Seq(Message), book : Seq(Message), next : Nat,
     remote : Nat, unacked : SUBSET Entry, sends : Seq(Entry), acks : Seq(Nat),
     reorder : SUBSET Entry, dirty : BOOLEAN, flush : {Idle} \cup Flushing,
     handoff : [no : Nat, sent : BOOLEAN], onChain : BOOLEAN, stopped : BOOLEAN]

Typed ==
    /\ host \in [Peer -> Page] /\ disk \in [Peer -> SessionSave]
    /\ net \in [Peer -> SUBSET Frame] /\ upsets \in Nat
    /\ left \in [Peer -> BOOLEAN] /\ forked \in [Peer -> BOOLEAN]
    /\ \A p \in Peer : IsFiniteSet(host[p].reorder)

-----------------------------------------------------------------------------
\* s begins t.
Begins(s, t) == Len(s) <= Len(t) /\ \A i \in 1..Len(s) : s[i] = t[i]

\* The entries are the book's.
Filed(entries, book) ==
    \A e \in entries : e.no \in 1..Len(book) /\ e.msg = book[e.no]

\* The counters of a page or of a save agree with its sequences.
Coherent(h) ==
    /\ h.next = Len(h.book) + 1 /\ h.remote = Len(h.cradle.got)
    /\ Filed(h.unacked, h.book)

\* s is an earlier state of h.
Precedes(s, h) == Begins(s.book, h.book) /\ Begins(s.cradle.got, h.cradle.got)

\* A page h whose save on disk is d.
PageOK(h, d) ==
    /\ Coherent(h) /\ Coherent(d) /\ Precedes(d, h)
    /\ Filed(Range(h.sends), h.book)
    /\ h.sends # <<>> \/ h.acks # <<>> => h.dirty \/ h.stopped
    /\ h.flush # Idle =>
         /\ Coherent(h.flush.snap)
         /\ Precedes(d, h.flush.snap) /\ Precedes(h.flush.snap, h)
         /\ ~h.stopped => h.flush.outs <= Len(h.sends) /\ h.flush.acks <= Len(h.acks)

\* The number the page waits to see acknowledged is that of its terminal
\* message.
HandoffOK(h) ==
    /\ h.handoff.sent => h.handoff.no # 0
    /\ h.handoff.no # 0 =>
         h.handoff.no \in 1..Len(h.book) /\ h.book[h.handoff.no] = h.cradle.handoff

\* The acknowledgement of a delivery that is not on disk is still queued, and
\* the ones a flush is about to send are of deliveries in the save it writes.
AcksWait(h, d) ==
    /\ \A i \in 1..Len(h.acks) : h.acks[i] <= h.remote
    /\ \A n \in (d.remote + 1)..h.remote : \E i \in 1..Len(h.acks) : h.acks[i] = n
    /\ h.flush # Idle =>
         /\ \A i \in 1..h.flush.acks : h.acks[i] <= h.flush.snap.remote
         /\ \A n \in (h.flush.snap.remote + 1)..h.remote :
                \E i \in (h.flush.acks + 1)..Len(h.acks) : h.acks[i] = n

PagesOK ==
    \A p \in Peer :
        /\ PageOK(host[p], disk[p]) /\ HandoffOK(host[p])
        /\ host[p].stopped \/ host[p].onChain => left[p]
        /\ ~left[p] => AcksWait(host[p], disk[p])

-----------------------------------------------------------------------------
\* The numbers of h, a page or a save, are unacknowledged or saved by a peer
\* whose save is d.
Kept(h, d) ==
    \A n \in 1..(h.next - 1) : n <= d.remote \/ \E e \in h.unacked : e.no = n

\* A page, the save being written and the save on disk all keep what the peer
\* has not saved.
NothingDropped ==
    \A p \in Peer :
        /\ ~left[p] /\ ~left[Other(p)] =>
             /\ Kept(host[p], disk[Other(p)]) /\ Kept(disk[p], disk[Other(p)])
             /\ host[p].flush # Idle => Kept(host[p].flush.snap, disk[Other(p)])
        /\ ~left[Other(p)] => \A e \in Range(host[p].sends) :
             e \in host[p].unacked \/ e.no <= disk[Other(p)].remote

\* The book b of one peer against the page h of the other and the frames on
\* their way to it.
OneStream(b, h, frames) ==
    /\ Begins(h.cradle.got, b)
    /\ Filed(h.reorder, b)
    /\ Filed({f \in frames : f.k = "msg"}, b)

Streams ==
    \A p \in Peer : ~forked[p] => OneStream(host[p].book, host[Other(p)], net[Other(p)])

TransportInv == Typed /\ PagesOK /\ AckedIsSaved /\ NothingDropped /\ Streams

-----------------------------------------------------------------------------
\* A message carries its place among those of its cradle.
MadeInOrder(cradle) == \A i \in DOMAIN cradle.made : cradle.made[i].seq = i

\* The terminal message is unacknowledged, in a page under the number the page
\* waits for and in a save under some number.
HandoffKept(h) ==
    h.cradle.handoff # None =>
        [no |-> h.handoff.no, msg |-> h.cradle.handoff] \in h.unacked

HandoffSaved(s) ==
    s.cradle.handoff # None => \E e \in s.unacked : e.msg = s.cradle.handoff

\* A page, and a save; whole if nothing was forgotten.
PageNumbered(h, whole) ==
    /\ MadeInOrder(h.cradle) /\ HandoffKept(h)
    /\ whole => InTurn(h.cradle, h.book, h.events)

SaveNumbered(s, whole) ==
    /\ MadeInOrder(s.cradle) /\ HandoffSaved(s)
    /\ whole => InTurn(s.cradle, s.book, s.undrained)

\* A page h whose save on disk is d.
Numbering(h, d, whole) ==
    /\ PageNumbered(h, whole) /\ SaveNumbered(d, whole)
    /\ h.flush # Idle => SaveNumbered(h.flush.snap, whole)

NumberingInv ==
    /\ torn \in [Peer -> BOOLEAN]
    /\ \A p \in Peer : ~left[p] => Numbering(host[p], disk[p], ~torn[p])

FullTransportInv == TransportInv /\ NumberingInv
=============================================================================
